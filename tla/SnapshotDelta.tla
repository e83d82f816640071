--------------------------- MODULE SnapshotDelta ---------------------------
(***************************************************************************)
(* Snapshots as differences to earlier snapshots, for one client.  Both    *)
(* ends keep the frames of the last PACKET_BACKUP messages; their entities *)
(* lie in a ring, on the server in one ring for all clients.  The client's *)
(* packets say which frame it has, and the server takes that frame as the  *)
(* source of the next difference if both ends must still have it.          *)
(*                                                                         *)
(* A snapshot's contents are a function from the numbers of its entities   *)
(* to their values.  A difference between two values is one modulo Values, *)
(* so that a difference put on top of the wrong value gives a wrong value. *)
(* Messages travel as in ServerCommands: in order, some lost.  The player  *)
(* state, sent as a difference to the same frame, is not modelled.  As     *)
(* history, a snapshot carries what the server built (built), and a frame  *)
(* of the client whether entities of its source were lost while it was     *)
(* read (garbled).                                                         *)
(***************************************************************************)
EXTENDS Integers, Sequences, FiniteSets, FiniteSetsExt

CONSTANTS
    Views,                  \* contents a snapshot may have
    Values,                 \* number of values of an entity
    PACKET_BACKUP,
    Margin,                 \* the 3 in PACKET_BACKUP - 3
    numSnapshotEntities,    \* size of the server's ring
    MAX_PARSE_ENTITIES,     \* size of the client's ring
    ParseMargin,            \* the 128 in MAX_PARSE_ENTITIES - 128
    MaxSequence,            \* bound on the messages of the server
    MaxServerId,            \* bound on the maps loaded and restarted
    MaxOthers,              \* bound on the snapshots of other clients
    MaxInFlight             \* bound on the messages in flight, one way

Count(view) == Cardinality(DOMAIN view)

ASSUME ValuesAssumption == Values \in Nat \ {0}
ASSUME ViewsAssumption ==
    \A view \in Views :
        /\ DOMAIN view \subseteq Nat /\ IsFiniteSet(DOMAIN view)
        /\ view \in [DOMAIN view -> 0 .. Values - 1]
ASSUME BackupAssumption == {PACKET_BACKUP, Margin} \subseteq Nat /\ Margin < PACKET_BACKUP
\* A frame fits into both rings (MAX_SNAPSHOT_ENTITIES is half of MAX_PARSE_ENTITIES), but not
\* into the client's margin.
ASSUME RingAssumption ==
    /\ {numSnapshotEntities, MAX_PARSE_ENTITIES} \subseteq Nat \ {0}
    /\ ParseMargin \in Nat \ {0} /\ ParseMargin < MAX_PARSE_ENTITIES
    /\ \A view \in Views : Count(view) <= numSnapshotEntities /\ Count(view) <= MAX_PARSE_ENTITIES
ASSUME BoundsAssumption ==
    {MaxServerId, MaxOthers} \subseteq Nat /\ MaxInFlight \in Nat \ {0} /\ MaxSequence \in Nat \ {0, 1}

VARIABLES
    \* client_t, sv and svs
    state, serverId, restartedServerId, serverIdAcknowledge, gamestateMessageNum, heard,
    outgoingSequence, deltaMessage, frames, snapshotEntities, nextSnapshotEntities,
    \* clientConnection_t and clientActive_t
    clServerId, serverMessageSequence, snap, snapshots, parseEntities, parseEntitiesNum,
    \* the two channels
    toClient, toServer,
    \* history: number of snapshots of other clients
    others

mapVars == <<serverId, restartedServerId>>
ringVars == <<snapshotEntities, nextSnapshotEntities>>
serverVars == <<state, mapVars, serverIdAcknowledge, gamestateMessageNum, heard,
                outgoingSequence, deltaMessage, frames, ringVars>>
clientVars == <<clServerId, serverMessageSequence, snap, snapshots, parseEntities, parseEntitiesNum>>
vars == <<serverVars, clientVars, toClient, toServer, others>>

NoEntity == [number |-> 0, value |-> 0]
Nothing == [n \in {} |-> 0]
Baseline == 0
NoFrame == [first |-> 0, count |-> 0]
LostEntity == [number |-> -1, value |-> 0]  \* stands for any entity that was not sent
NoSnap == [valid |-> FALSE, messageNum |-> 0, first |-> 0, count |-> 0, built |-> Nothing,
           garbled |-> FALSE]
Slots == 0 .. PACKET_BACKUP - 1

\* The first move has just brought the client into the world; message 1 was its game state.
Init ==
    /\ state = "ACTIVE"
    /\ serverId = 1
    /\ restartedServerId = 1
    /\ serverIdAcknowledge = 1
    /\ gamestateMessageNum = 1
    /\ heard = TRUE
    /\ outgoingSequence = 2
    /\ deltaMessage = 0
    /\ frames = [i \in Slots |-> NoFrame]
    /\ snapshotEntities = [i \in 0 .. numSnapshotEntities - 1 |-> NoEntity]
    /\ nextSnapshotEntities = 0
    /\ clServerId = 1
    /\ serverMessageSequence = 1
    /\ snap = NoSnap
    /\ snapshots = [i \in Slots |-> NoSnap]
    /\ parseEntities = [i \in 0 .. MAX_PARSE_ENTITIES - 1 |-> NoEntity]
    /\ parseEntitiesNum = 0
    /\ toClient = <<>>
    /\ toServer = <<>>
    /\ others = 0

Send(channel, m) ==
    IF Len(channel) < MaxInFlight THEN Append(channel, m) ELSE Append(Tail(channel), m)
After(channel, k) == SubSeq(channel, k + 1, Len(channel))

-----------------------------------------------------------------------------
\* Rings of entities.

\* The entities of a frame, as they lie in a ring now.
Entities(ring, frame) ==
    LET size == Cardinality(DOMAIN ring)
        entries == {ring[i % size] : i \in frame.first .. frame.first + frame.count - 1}
    IN  [n \in {e.number : e \in entries} |-> (CHOOSE e \in entries : e.number = n).value]

\* A ring with a view written from place next on, in the order of the numbers: an entity
\* lies behind those with smaller numbers.
Written(ring, next, view) ==
    LET size == Cardinality(DOMAIN ring)
        place(n) == (next + Cardinality({k \in DOMAIN view : k < n})) % size
    IN  [i \in DOMAIN ring |->
            IF \E n \in DOMAIN view : place(n) = i
            THEN LET n == CHOOSE n \in DOMAIN view : place(n) = i
                 IN  [number |-> n, value |-> view[n]]
            ELSE ring[i]]

\* A ring with count entities written from place next on of which nothing is known.
LostWritten(ring, next, count) ==
    LET size == Cardinality(DOMAIN ring)
    IN  [i \in DOMAIN ring |->
            IF \E k \in next .. next + count - 1 : k % size = i THEN LostEntity ELSE ring[i]]

\* SV_EmitPacketEntities: an entity that is as before is left out.
Difference(old, new) ==
    LET before(n) == IF n \in DOMAIN old THEN old[n] ELSE Baseline
        sent == {n \in DOMAIN new : n \notin DOMAIN old \/ old[n] # new[n]}
    IN  [changes |-> [n \in sent |-> (new[n] - before(n)) % Values],
         removed |-> DOMAIN old \ DOMAIN new]

\* CL_ParsePacketEntities.
Patched(old, m) ==
    LET before(n) == IF n \in DOMAIN old THEN old[n] ELSE Baseline
        change(n) == IF n \in DOMAIN m.changes THEN m.changes[n] ELSE 0
    IN  [n \in (DOMAIN old \union DOMAIN m.changes) \ m.removed |-> (before(n) + change(n)) % Values]

-----------------------------------------------------------------------------
\* The server sends.

SequenceLeft == outgoingSequence < MaxSequence

\* Mutant: entities that have rolled off the ring are not missed.
OutOfDateEntities_Never(frame, next) == FALSE

\* next counts the entities of the snapshot being built.
OutOfDateEntities(frame, next) == frame.first <= next - numSnapshotEntities

OutOfDatePacket == outgoingSequence - deltaMessage >= PACKET_BACKUP - Margin

\* SV_WriteSnapshotToClient: how many messages ago the source was sent, 0 for none.
LastFrame(next) ==
    IF deltaMessage <= 0 \/ state # "ACTIVE" \/ OutOfDatePacket
        \/ OutOfDateEntities(frames[deltaMessage % PACKET_BACKUP], next)
    THEN 0 ELSE outgoingSequence - deltaMessage

\* SV_IsValidSnapshotClient: a client that is silent keeps the frame it has.
SV_IsValidSnapshotClient ==
    \/ deltaMessage <= 0
    \/ state # "ACTIVE"
    \/ heard
    \/ ~OutOfDatePacket

Message(kind) == [kind |-> kind, number |-> outgoingSequence, serverId |-> serverId]

\* A client that does not answer from this map gets a nop.  A message that overflows is empty.
SendBuilt(new, ring, next) ==
    LET frame == [first |-> nextSnapshotEntities, count |-> Count(new)]
        last == LastFrame(next)
        old == IF last = 0 THEN Nothing
               ELSE Entities(ring, frames[(outgoingSequence - last) % PACKET_BACKUP])
        difference == Difference(old, new)
    IN  /\ frames' = [frames EXCEPT ![outgoingSequence % PACKET_BACKUP] = frame]
        /\ \/ /\ serverIdAcknowledge \in {serverId, restartedServerId}
              /\ toClient' = Send(toClient,
                    [kind |-> "snapshot", number |-> outgoingSequence, serverId |-> serverId,
                     deltaNum |-> last, built |-> new,
                     changes |-> difference.changes, removed |-> difference.removed])
           \/ toClient' = Send(toClient, Message("nop"))

SV_SendClientSnapshot ==
    /\ SV_IsValidSnapshotClient
    /\ SequenceLeft
    /\ \E new \in Views :
          LET ring == Written(snapshotEntities, nextSnapshotEntities, new)
              next == nextSnapshotEntities + Count(new)
          IN  /\ SendBuilt(new, ring, next)
              /\ snapshotEntities' = ring
              /\ nextSnapshotEntities' = next
    /\ outgoingSequence' = outgoingSequence + 1
    /\ heard' = FALSE
    /\ UNCHANGED <<state, mapVars, serverIdAcknowledge, gamestateMessageNum, deltaMessage,
                   clientVars, toServer, others>>

\* A frame in which this client gets nothing.
SV_Frame ==
    /\ heard
    /\ heard' = FALSE
    /\ UNCHANGED <<state, mapVars, serverIdAcknowledge, gamestateMessageNum, outgoingSequence,
                   deltaMessage, frames, ringVars, clientVars, toClient, toServer, others>>

\* The snapshots of other clients lie in the same ring.
SV_BuildClientSnapshot ==
    /\ others < MaxOthers
    /\ others' = others + 1
    /\ \E view \in Views :
          /\ snapshotEntities' = Written(snapshotEntities, nextSnapshotEntities, view)
          /\ nextSnapshotEntities' = nextSnapshotEntities + Count(view)
    /\ UNCHANGED <<state, mapVars, serverIdAcknowledge, gamestateMessageNum, heard,
                   outgoingSequence, deltaMessage, frames, clientVars, toClient, toServer>>

-----------------------------------------------------------------------------
\* Maps.

\* SV_ClientEnterWorld.
EnterWorld ==
    /\ state' = "ACTIVE"
    /\ deltaMessage' = 0

LoadMap ==
    /\ restartedServerId' = serverId + 1
    /\ state' = "CONNECTED"
    /\ snapshotEntities' = [i \in DOMAIN snapshotEntities |-> NoEntity]
    /\ nextSnapshotEntities' = 0
    /\ UNCHANGED deltaMessage

RestartMap ==
    /\ restartedServerId' = serverId
    /\ EnterWorld
    /\ UNCHANGED ringVars

SV_SpawnServer ==
    /\ serverId < MaxServerId
    /\ serverId' = serverId + 1
    /\ LoadMap \/ RestartMap
    /\ UNCHANGED <<serverIdAcknowledge, gamestateMessageNum, heard, outgoingSequence, frames,
                   clientVars, toClient, toServer, others>>

-----------------------------------------------------------------------------
\* The client.

\* Mutant: the client names the last message, whether it has its snapshot or not.
HasLastMessage_Snap == snap.valid

\* The last message received was a snapshot that could be decoded.
HasLastMessage == snap.valid /\ serverMessageSequence = snap.messageNum

Moves == IF HasLastMessage THEN {"none", "moveNoDelta", "move"} ELSE {"none", "moveNoDelta"}

\* A move asks for a difference to the last message, unless the user does not want any.
CL_WritePacket ==
    /\ \E move \in Moves :
          toServer' = Send(toServer,
            [serverId |-> clServerId, acknowledge |-> serverMessageSequence, move |-> move])
    /\ UNCHANGED <<serverVars, clientVars, toClient, others>>

\* Mutant: the current snapshot outlives the map.
ParseGamestate_KeepsSnap(m) ==
    /\ m.kind = "gamestate"
    /\ clServerId' = m.serverId
    /\ snapshots' = [i \in Slots |-> NoSnap]
    /\ parseEntities' = [i \in DOMAIN parseEntities |-> NoEntity]
    /\ parseEntitiesNum' = 0
    /\ UNCHANGED snap

\* CL_ClearState.
ParseGamestate(m) ==
    /\ m.kind = "gamestate"
    /\ clServerId' = m.serverId
    /\ snap' = NoSnap
    /\ snapshots' = [i \in Slots |-> NoSnap]
    /\ parseEntities' = [i \in DOMAIN parseEntities |-> NoEntity]
    /\ parseEntitiesNum' = 0

ParseNop(m) ==
    /\ m.kind = "nop"
    /\ UNCHANGED <<clServerId, snap, snapshots, parseEntities, parseEntitiesNum>>

Source(m) == snapshots[(m.number - m.deltaNum) % PACKET_BACKUP]

SourceKept(m) == Source(m).valid /\ Source(m).messageNum = m.number - m.deltaNum

ParseEntitiesTooOld(m) == parseEntitiesNum - Source(m).first > MAX_PARSE_ENTITIES - ParseMargin

Decodable(m) == m.deltaNum = 0 \/ (SourceKept(m) /\ ~ParseEntitiesTooOld(m))

\* The frames between the last snapshot and this one were lost.
Skipped(m) ==
    {n % PACKET_BACKUP : n \in Max({snap.messageNum + 1, m.number - (PACKET_BACKUP - 1)}) .. m.number - 1}

\* The commands of the message may tell the client of a restart.
LearnServerId(m) == clServerId' \in {clServerId, m.serverId}

View(m) == Patched(IF m.deltaNum = 0 THEN Nothing ELSE Entities(parseEntities, Source(m)), m)

\* The new entities are written behind parseEntitiesNum while those of the source are read:
\* an entity of the source has been overwritten if enough new ones come before it.
Overruns(m) ==
    \E n \in DOMAIN Entities(parseEntities, Source(m)) :
        parseEntitiesNum + Cardinality({k \in DOMAIN View(m) : k < n})
            > Source(m).first + Cardinality({k \in DOMAIN Entities(parseEntities, Source(m)) : k < n})
              + MAX_PARSE_ENTITIES

\* Every entity of the source is read as it was.
SourceIntact(m) == m.deltaNum = 0 \/ ~(Source(m).garbled \/ Overruns(m))

KeepEntities(m) ==
    /\ parseEntities' = Written(parseEntities, parseEntitiesNum, View(m))
    /\ parseEntitiesNum' = parseEntitiesNum + Count(View(m))

\* What is read of a source that is not there: the entities that differ are written, and of
\* the others any number.
LoseEntities(m) ==
    \E count \in Cardinality(DOMAIN m.changes) .. Cardinality(DOMAIN m.changes) + Source(m).count :
        /\ parseEntities' = LostWritten(parseEntities, parseEntitiesNum, count)
        /\ parseEntitiesNum' = parseEntitiesNum + count

\* CL_ParseSnapshot: the frame is the current one, and kept.
KeepSnapshot(m, garbled) ==
    LET new == [valid |-> TRUE, messageNum |-> m.number, first |-> parseEntitiesNum,
                count |-> parseEntitiesNum' - parseEntitiesNum, built |-> m.built,
                garbled |-> garbled]
    IN  /\ snap' = new
        /\ snapshots' = [i \in Slots |->
                IF i = m.number % PACKET_BACKUP THEN new
                ELSE IF i \in Skipped(m) THEN [snapshots[i] EXCEPT !.valid = FALSE] ELSE snapshots[i]]

DecodeSnapshot(m) ==
    /\ Decodable(m)
    /\ SourceIntact(m)
    /\ KeepEntities(m)
    /\ KeepSnapshot(m, FALSE)

\* Nothing tells the client that the source has been overwritten.
GarbleSnapshot(m) ==
    /\ Decodable(m)
    /\ ~SourceIntact(m)
    /\ LoseEntities(m)
    /\ KeepSnapshot(m, TRUE)

\* What cannot be decoded goes through the ring all the same.
DumpSnapshot(m) ==
    /\ ~Decodable(m)
    /\ LoseEntities(m)
    /\ UNCHANGED <<snap, snapshots>>

ParseSnapshot(m) ==
    /\ m.kind = "snapshot"
    /\ DecodeSnapshot(m) \/ GarbleSnapshot(m) \/ DumpSnapshot(m)
    /\ LearnServerId(m)

CL_ParseServerMessage ==
    /\ \E k \in 1 .. Len(toClient) :
          LET m == toClient[k]
          IN  /\ ParseGamestate(m) \/ ParseSnapshot(m) \/ ParseNop(m)
              /\ serverMessageSequence' = m.number
              /\ toClient' = After(toClient, k)
    /\ UNCHANGED <<serverVars, toServer, others>>

-----------------------------------------------------------------------------
\* The server receives: SV_ExecuteClientMessage.

BeforeRestart(m) == restartedServerId <= m.serverId /\ m.serverId < serverId

ResendGameState(m) ==
    /\ m.serverId # serverId /\ ~BeforeRestart(m)
    /\ state # "ACTIVE"
    /\ m.acknowledge > gamestateMessageNum
    /\ SequenceLeft
    /\ state' = "PRIMED"
    /\ gamestateMessageNum' = outgoingSequence
    /\ toClient' = Send(toClient, Message("gamestate"))
    /\ outgoingSequence' = outgoingSequence + 1
    /\ UNCHANGED deltaMessage

IgnorePacket(m) ==
    /\ m.serverId # serverId
    /\ BeforeRestart(m) \/ state = "ACTIVE" \/ m.acknowledge <= gamestateMessageNum
    /\ UNCHANGED <<state, gamestateMessageNum, toClient, outgoingSequence, deltaMessage>>

\* SV_UserMove: SV_ClientEnterWorld takes back what the first move asked for.
ExecuteMove(m) ==
    /\ m.serverId = serverId
    /\ \/ m.move # "none" /\ state = "PRIMED" /\ EnterWorld
       \/ /\ m.move # "none" /\ state = "ACTIVE"
          /\ deltaMessage' = IF m.move = "move" THEN m.acknowledge ELSE 0
          /\ UNCHANGED state
       \/ m.move = "none" /\ UNCHANGED <<state, deltaMessage>>
    /\ UNCHANGED <<gamestateMessageNum, toClient, outgoingSequence>>

SV_ExecuteClientMessage ==
    /\ \E k \in 1 .. Len(toServer) :
          LET m == toServer[k]
          IN  /\ serverIdAcknowledge' = m.serverId
              /\ ResendGameState(m) \/ IgnorePacket(m) \/ ExecuteMove(m)
              /\ toServer' = After(toServer, k)
    /\ heard' = TRUE
    /\ UNCHANGED <<mapVars, frames, ringVars, clientVars, others>>

-----------------------------------------------------------------------------
Next ==
    \/ SV_SendClientSnapshot
    \/ SV_Frame
    \/ SV_BuildClientSnapshot
    \/ SV_SpawnServer
    \/ CL_WritePacket
    \/ CL_ParseServerMessage
    \/ SV_ExecuteClientMessage

Spec == Init /\ [][Next]_vars

-----------------------------------------------------------------------------
\* Properties.

TypeOK ==
    /\ state \in {"CONNECTED", "PRIMED", "ACTIVE"}
    /\ restartedServerId <= serverId /\ serverIdAcknowledge <= serverId /\ clServerId <= serverId
    /\ outgoingSequence \in 1 .. MaxSequence
    /\ gamestateMessageNum < outgoingSequence /\ deltaMessage < outgoingSequence
    /\ serverMessageSequence < outgoingSequence
    /\ snap.messageNum <= serverMessageSequence
    /\ snap.valid => snap = snapshots[snap.messageNum % PACKET_BACKUP]
    /\ \A i \in Slots : frames[i].first + frames[i].count >= 0

\* CL_GetSnapshot: the frames cgame can still read.
Readable(s) == s.valid /\ parseEntitiesNum - s.first < MAX_PARSE_ENTITIES

\* What cgame reads of a snapshot, now or later, is what the server put into it, whatever was
\* lost on the way: every difference was decoded from the contents it was made from, and no
\* part of it was lost in a ring.  The exception is a frame so much larger than its source
\* that it overwrote entities of it before they were read, and those decoded from that.
SnapshotsExact ==
    \A i \in Slots :
        Readable(snapshots[i]) /\ ~snapshots[i].garbled =>
            Entities(parseEntities, snapshots[i]) = snapshots[i].built

\* The source of a difference is always one of the frames the client has kept ("not
\* supposed to happen", "Delta frame too old").
SourceIsKept ==
    \A k \in 1 .. Len(toClient) :
        toClient[k].kind = "snapshot" /\ toClient[k].deltaNum # 0 => SourceKept(toClient[k])

=============================================================================

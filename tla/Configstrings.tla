--------------------------- MODULE Configstrings ---------------------------
(***************************************************************************)
(* Configstrings, game states and map changes, for one client: how the     *)
(* client comes into the world of the current map, and how its copy of the *)
(* configstrings follows the server's while it loads, plays, and while the *)
(* map is changed or restarted under it.                                   *)
(*                                                                         *)
(* The reliable commands are taken from ServerCommands by their contract:  *)
(* every snapshot and game state makes all commands issued so far known to *)
(* the client, cgame executes them in order, and one that was sent is not  *)
(* replaced any more.  A message names how many commands it makes known.   *)
(* Messages travel as in ServerCommands: in order, some lost; later says   *)
(* that a message left after the last game state, which is all that the    *)
(* comparison with gamestateMessageNum tells.                              *)
(***************************************************************************)
EXTENDS Integers, Sequences, FiniteSets, FiniteSetsExt, SequencesExt

CONSTANTS
    Lengths,                \* [index -> lengths its texts may have], see Text
    Chunks,                 \* commands needed for a long text
    MaxSets,                \* bound on the texts set
    MaxServerId,            \* bound on the maps loaded and restarted
    MaxChanges,             \* bound on both together
    MaxInFlight             \* bound on the messages in flight, one way

ASSUME LengthsAssumption ==
    /\ DOMAIN Lengths \subseteq Nat \ {0}
    /\ \A i \in DOMAIN Lengths : Lengths[i] \subseteq {"short", "long"}
ASSUME ChunksAssumption == Chunks \in Nat /\ Chunks >= 2
ASSUME BoundsAssumption ==
    {MaxSets, MaxChanges} \subseteq Nat /\ {MaxServerId, MaxInFlight} \subseteq Nat \ {0}

VARIABLES
    \* client_t, sv and svs
    state, serverId, restartedServerId, serverIdAcknowledge,
    configstrings, csUpdated,
    commands, reliableSent,
    \* clientActive_t, cgs and the buffer of CL_GetServerCommand
    clServerId, clStrings, bigConfigString, snap, cgSequence, clLater,
    \* the two channels
    toClient, toServer,
    \* history
    map, clMap,             \* the map the server runs, and the one the client has loaded
    sets,                   \* number of texts set
    strays,                 \* the moves executed in another map than they were made in
    overtaken,              \* a restart came before the client had caught up with the last one
    misordered              \* indexes whose last text stands before an older one, see Misorders

serverVars == <<state, serverId, restartedServerId, serverIdAcknowledge, configstrings,
                csUpdated, commands, reliableSent>>
clientVars == <<clServerId, clStrings, bigConfigString, snap, cgSequence, clLater>>
vars == <<serverVars, clientVars, toClient, toServer, map, clMap, sets, strays, overtaken,
          misordered>>

\* CS_SYSTEMINFO carries the server id to the client: its text is numbered by it.
CS_SYSTEMINFO == 0
Indexes == {CS_SYSTEMINFO} \union DOMAIN Lengths
Text == [length : {"short", "long"}, id : Nat]
Empty == [length |-> "short", id |-> 0]
Garbled == [length |-> "none", id |-> 0]      \* what pieces that do not match add up to
SystemInfo(id) == [length |-> "short", id |-> id]
Blank == [i \in Indexes |-> Empty]
NoBuffer == [index |-> CS_SYSTEMINFO, pieces |-> <<>>]

Init ==
    /\ state = "FREE"
    /\ serverId = 1
    /\ restartedServerId = 1
    /\ serverIdAcknowledge = 0
    /\ configstrings = [Blank EXCEPT ![CS_SYSTEMINFO] = SystemInfo(1)]
    /\ csUpdated = {}
    /\ commands = <<>>
    /\ reliableSent = 0
    /\ clServerId = 0
    /\ clStrings = Blank
    /\ bigConfigString = NoBuffer
    /\ snap = [num |-> 0, active |-> FALSE, map |-> 0]
    /\ cgSequence = 0
    /\ clLater = TRUE       \* 0 is greater than a gamestateMessageNum of -1
    /\ toClient = <<>>
    /\ toServer = <<>>
    /\ map = 1
    /\ clMap = 0
    /\ sets = 0
    /\ strays = {}
    /\ overtaken = FALSE
    /\ misordered = {}

\* A channel that is full loses its oldest message.
Send(channel, m) ==
    IF Len(channel) < MaxInFlight THEN Append(channel, m) ELSE Append(Tail(channel), m)

\* The messages before the one received are lost.
After(channel, k) == SubSeq(channel, k + 1, Len(channel))

-----------------------------------------------------------------------------
\* The server sets configstrings.

Cs(i, text) == [op |-> "cs", index |-> i, text |-> text]
Bcs(i, text, k) ==
    [op |-> IF k = 1 THEN "bcs0" ELSE IF k < Chunks THEN "bcs1" ELSE "bcs2",
     index |-> i, text |-> text]

\* SV_ReplacePendingServerCommands: an update of the same index not sent yet.
Replaceable(queue, i) ==
    {n \in reliableSent + 1 .. Len(queue) : queue[n].op = "cs" /\ queue[n].index = i}

AddShort(queue, i, text) ==
    IF Replaceable(queue, i) # {}
    THEN [queue EXCEPT ![Min(Replaceable(queue, i))] = Cs(i, text)]
    ELSE Append(queue, Cs(i, text))

\* A short text takes the place of one that stands before the pieces of a long one: the
\* pieces, which are not replaced, have the last word.
Misorders(queue, i, text) ==
    /\ text.length = "short"
    /\ Replaceable(queue, i) # {}
    /\ \E n \in Min(Replaceable(queue, i)) + 1 .. Len(queue) : queue[n].op # "cs" /\ queue[n].index = i

\* SV_SendConfigstring: the commands queued for a client, with the text of an index added.
WithConfigstring(queue, i, text) ==
    IF text.length = "long" THEN queue \o [k \in 1 .. Chunks |-> Bcs(i, text, k)]
    ELSE AddShort(queue, i, text)

\* Mutant: a client that is loading is not told later.
RememberUpdate_Never(i) == UNCHANGED csUpdated

\* The client has, or is about to get, a game state with the old text.
RememberUpdate(i) == csUpdated' = IF state = "PRIMED" THEN csUpdated \union {i} ELSE csUpdated

Broadcast(i, text) ==
    /\ RememberUpdate(i)
    /\ \/ /\ state = "ACTIVE"
          /\ commands' = WithConfigstring(commands, i, text)
          /\ misordered' = IF Misorders(commands, i, text) THEN misordered \union {i}
                           ELSE misordered \ {i}
       \/ /\ state # "ACTIVE"
          /\ UNCHANGED <<commands, misordered>>

SetConfigstring(i, text) ==
    /\ text # configstrings[i]
    /\ configstrings' = [configstrings EXCEPT ![i] = text]
    /\ Broadcast(i, text)
    /\ UNCHANGED <<state, serverId, restartedServerId, serverIdAcknowledge, reliableSent,
                   clientVars, toClient, toServer, map, clMap, strays, overtaken>>

\* The game sets a text.
SV_SetConfigstring ==
    /\ sets < MaxSets /\ sets + serverId < MaxChanges
    /\ sets' = sets + 1
    /\ \E i \in DOMAIN Lengths : \E length \in Lengths[i] :
            SetConfigstring(i, [length |-> length, id |-> sets + 1])

\* The cvar sv_serverid changed when the map was restarted.
SV_Frame ==
    /\ SetConfigstring(CS_SYSTEMINFO, SystemInfo(serverId))
    /\ UNCHANGED sets

-----------------------------------------------------------------------------
\* Clients and maps come and go.

\* The slot is cleared for the new client.
SV_DirectConnect ==
    /\ state = "FREE"
    /\ state' = "CONNECTED"
    /\ UNCHANGED <<serverId, restartedServerId, serverIdAcknowledge, configstrings, csUpdated,
                   commands, reliableSent, clientVars, toClient, toServer, map, clMap,
                   sets, strays, overtaken, misordered>>

\* When the next packet of the client arrives, the game state will be sent.
StateOnNewMap == IF state = "FREE" THEN "FREE" ELSE "CONNECTED"

\* SV_SpawnServer with another map: the configstrings are wiped, and no client is told.
LoadMap ==
    /\ serverId' = serverId + 1
    /\ restartedServerId' = serverId + 1
    /\ map' = map + 1
    /\ state' = StateOnNewMap
    /\ configstrings' = [Blank EXCEPT ![CS_SYSTEMINFO] = SystemInfo(serverId + 1)]
    /\ overtaken' = FALSE
    /\ misordered' = {}
    /\ UNCHANGED <<csUpdated, commands>>

\* SV_UpdateConfigstrings: the texts of these indexes are added, the greatest index last.
WithConfigstrings(queue, indexes) ==
    MapThenFoldSet(LAMBDA i, before : WithConfigstring(before, i, configstrings[i]),
                   queue, LAMBDA i : i, Max, indexes)

\* SV_ClientEnterWorld.
EnterWorld ==
    /\ state' = "ACTIVE"
    /\ commands' = WithConfigstrings(commands, csUpdated)
    /\ csUpdated' = {}

\* Mutant: the id before the restart is not remembered.
IdBeforeRestart_Lost == serverId + 1

\* Packets of a client that has not noticed the restart carry it.
IdBeforeRestart == serverId

\* SV_SpawnServer with the same map: every client enters the world, ready or not.
RestartMap ==
    /\ serverId' = serverId + 1
    /\ restartedServerId' = IdBeforeRestart
    /\ \/ state # "FREE" /\ EnterWorld
       \/ state = "FREE" /\ UNCHANGED <<state, commands, csUpdated>>
    /\ overtaken' = (overtaken \/ (state # "FREE" /\ clServerId # serverId))
    /\ UNCHANGED <<map, configstrings, misordered>>

SV_SpawnServer ==
    /\ serverId < MaxServerId /\ sets + serverId < MaxChanges
    /\ LoadMap \/ RestartMap
    /\ UNCHANGED <<serverIdAcknowledge, reliableSent, clientVars, toClient, toServer,
                   clMap, sets, strays>>

-----------------------------------------------------------------------------
\* The server sends messages.

\* Mutant: a snapshot goes to everyone.
WorldAcknowledged_Always == TRUE

\* The client's last packet was of this map, perhaps from before the restart.
WorldAcknowledged == serverIdAcknowledge \in {serverId, restartedServerId}

Message(kind) ==
    [kind |-> kind, upto |-> Len(commands), active |-> state = "ACTIVE", strings |-> configstrings,
     map |-> map, later |-> TRUE]

Nop == [kind |-> "nop", later |-> TRUE]

SV_SendClientSnapshot ==
    /\ state # "FREE"
    /\ \/ /\ WorldAcknowledged
          /\ toClient' = Send(toClient, [Message("snapshot") EXCEPT !.strings = Blank])
          /\ reliableSent' = Len(commands)
       \/ /\ ~WorldAcknowledged
          /\ toClient' = Send(toClient, Nop)
          /\ UNCHANGED reliableSent
    /\ UNCHANGED <<state, serverId, restartedServerId, serverIdAcknowledge, configstrings,
                   csUpdated, commands, clientVars, toServer, map, clMap, sets, strays, overtaken,
                   misordered>>

-----------------------------------------------------------------------------
\* The client.

WritePacket(move) ==
    /\ state # "FREE"
    /\ toServer' = Send(toServer, [serverId |-> clServerId, move |-> move, map |-> clMap,
                                  later |-> clLater])
    /\ UNCHANGED <<serverVars, clientVars, toClient, map, clMap, sets, strays, overtaken, misordered>>

\* Without a game state there are no moves; with one there need not be a new one.
CL_WritePacket == WritePacket(FALSE) \/ (clMap # 0 /\ WritePacket(TRUE))

\* CL_InitCGame: the commands before the game state are not executed.
FirstToExecute(mark) == mark

\* Mutant: the mark counts one command too many.
Mark_OffByOne(m) == m.upto + 1

Mark(m) == m.upto

ParseGamestate(m) ==
    /\ m.kind = "gamestate"
    /\ clStrings' = m.strings
    /\ clServerId' = m.strings[CS_SYSTEMINFO].id
    /\ clMap' = m.map
    /\ snap' = [num |-> Mark(m), active |-> FALSE, map |-> m.map]
    /\ cgSequence' = FirstToExecute(Mark(m))

ParseSnapshot(m) ==
    /\ m.kind = "snapshot"
    /\ snap' = [num |-> m.upto, active |-> m.active, map |-> m.map]
    /\ UNCHANGED <<clStrings, clServerId, clMap, cgSequence>>

ParseNop(m) ==
    /\ m.kind = "nop"
    /\ UNCHANGED <<snap, clStrings, clServerId, clMap, cgSequence>>

Parse(kind) ==
    /\ \E k \in 1 .. Len(toClient) :
          LET m == toClient[k]
          IN  /\ m.kind = kind
              /\ ParseGamestate(m) \/ ParseSnapshot(m) \/ ParseNop(m)
              /\ clLater' = m.later
              /\ toClient' = After(toClient, k)
    /\ UNCHANGED <<serverVars, bigConfigString, toServer, map, sets, strays, overtaken, misordered>>

CL_ParseServerMessage == \E kind \in {"gamestate", "snapshot", "nop"} : Parse(kind)

\* CL_ConfigstringModified, with CL_SystemInfoChanged.
Modified(world, i, text) ==
    [world EXCEPT !.strings[i] = text,
                  !.serverId = IF i = CS_SYSTEMINFO THEN text.id ELSE @]

\* bcs0 starts the buffer, the others add to it whatever it holds.
Collected(buffer, c) ==
    IF c.op = "bcs0" THEN [index |-> c.index, pieces |-> <<c.text>>]
    ELSE [buffer EXCEPT !.pieces = Append(@, c.text)]

Joined(pieces) ==
    IF pieces = [k \in 1 .. Chunks |-> pieces[1]] THEN pieces[1] ELSE Garbled

\* CL_GetServerCommand and CL_ProcessServerCommand.
Execute(world, c) ==
    IF c.op = "cs" THEN Modified(world, c.index, c.text)
    ELSE LET buffer == Collected(world.buffer, c)
             collected == [world EXCEPT !.buffer = buffer]
         IN  IF c.op = "bcs2" THEN Modified(collected, buffer.index, Joined(buffer.pieces))
             ELSE collected

\* CG_ExecuteNewServerCommands goes twice over the new commands.  cgame waits for a first
\* snapshot of a world the client has entered.
CG_ExecuteNewServerCommands ==
    /\ snap.active
    /\ cgSequence < snap.num
    /\ LET new == SubSeq(commands, cgSequence + 1, snap.num)
           after == FoldLeft(Execute, [strings |-> clStrings, serverId |-> clServerId,
                                       buffer |-> bigConfigString], new \o new)
       IN  /\ clStrings' = after.strings
           /\ clServerId' = after.serverId
           /\ bigConfigString' = after.buffer
    /\ cgSequence' = snap.num
    /\ UNCHANGED <<serverVars, snap, clLater, toClient, toServer, map, clMap,
                   sets, strays, overtaken, misordered>>

-----------------------------------------------------------------------------
\* The server receives: SV_ExecuteClientMessage.

\* Mutant: the packets of a client that is loading are not compared with the map.
OfOtherMap_NotPrimed(m) == m.serverId # serverId /\ state # "PRIMED"

OfOtherMap(m) == m.serverId # serverId

BeforeRestart(m) == restartedServerId <= m.serverId /\ m.serverId < serverId

NotLater(channel) == [k \in DOMAIN channel |-> [channel[k] EXCEPT !.later = FALSE]]

\* The client has received something that was sent after the game state, but not the
\* game state: SV_SendClientGameState.
ResendGameState(m, rest) ==
    /\ OfOtherMap(m) /\ ~BeforeRestart(m)
    /\ state # "ACTIVE"
    /\ m.later
    /\ state' = "PRIMED"
    /\ reliableSent' = Len(commands)
    /\ toClient' = Send(NotLater(toClient), [Message("gamestate") EXCEPT !.later = FALSE])
    /\ clLater' = FALSE
    /\ toServer' = NotLater(rest)
    /\ overtaken' = (overtaken \/ configstrings[CS_SYSTEMINFO].id # serverId)
    /\ UNCHANGED <<commands, csUpdated, strays>>

IgnorePacket(m, rest) ==
    /\ OfOtherMap(m)
    /\ BeforeRestart(m) \/ state = "ACTIVE" \/ ~m.later
    /\ toServer' = rest
    /\ UNCHANGED <<state, reliableSent, commands, csUpdated, toClient, clLater, strays, overtaken>>

\* SV_UserMove: the first move puts the client into the world.
ExecuteMove(m, rest) ==
    /\ ~OfOtherMap(m)
    /\ \/ m.move /\ state = "PRIMED" /\ EnterWorld
       \/ ~(m.move /\ state = "PRIMED") /\ UNCHANGED <<state, commands, csUpdated>>
    /\ strays' = IF m.move /\ state \in {"PRIMED", "ACTIVE"} /\ m.map # map
                 THEN strays \union {[madeIn |-> m.map, executedIn |-> map]} ELSE strays
    /\ toServer' = rest
    /\ UNCHANGED <<reliableSent, toClient, clLater, overtaken>>

ReceivePacket(k) ==
    /\ LET m == toServer[k]
           rest == After(toServer, k)
       IN  /\ serverIdAcknowledge' = m.serverId
           /\ ResendGameState(m, rest) \/ IgnorePacket(m, rest) \/ ExecuteMove(m, rest)
    /\ UNCHANGED <<serverId, restartedServerId, configstrings,
                   clServerId, clStrings, bigConfigString, snap, cgSequence, map, clMap, sets, misordered>>

Receive(move) == \E k \in 1 .. Len(toServer) : toServer[k].move = move /\ ReceivePacket(k)

SV_ExecuteClientMessage == \E move \in BOOLEAN : Receive(move)

-----------------------------------------------------------------------------
Next ==
    \/ SV_SetConfigstring
    \/ SV_Frame
    \/ SV_DirectConnect
    \/ SV_SpawnServer
    \/ SV_SendClientSnapshot
    \/ CL_WritePacket
    \/ CL_ParseServerMessage
    \/ CG_ExecuteNewServerCommands
    \/ SV_ExecuteClientMessage

Spec == Init /\ [][Next]_vars

\* CG_ExecuteNewServerCommands, named by what it does.
ExecutesCommands == snap.active /\ cgSequence < snap.num /\ cgSequence' = snap.num

\* Both programs run frames for ever; and of the messages of each kind that are sent again
\* and again, the network delivers some.
FairSpec ==
    /\ Spec
    /\ WF_vars(SV_Frame)
    /\ WF_vars(SV_SendClientSnapshot)
    /\ WF_vars(WritePacket(clMap # 0))
    /\ WF_cgSequence(ExecutesCommands)
    /\ SF_vars(Parse("gamestate"))
    /\ SF_vars(Parse("snapshot"))
    /\ SF_vars(Parse("nop"))
    /\ SF_vars(Receive(TRUE))
    /\ SF_vars(Receive(FALSE))

-----------------------------------------------------------------------------
\* Properties.

TypeOK ==
    /\ state \in {"FREE", "CONNECTED", "PRIMED", "ACTIVE"}
    /\ serverId \in 1 .. MaxServerId
    /\ restartedServerId \in 1 .. serverId
    /\ serverIdAcknowledge \in 0 .. serverId
    /\ configstrings \in [Indexes -> Text]
    /\ csUpdated \subseteq Indexes
    /\ reliableSent \in 0 .. Len(commands)
    /\ clServerId \in 0 .. serverId
    /\ clStrings \in [Indexes -> Text \union {Garbled}]
    /\ snap.num \in 0 .. Len(commands)
    /\ cgSequence \in 0 .. snap.num
    /\ clMap \in 0 .. map
    /\ clLater \in BOOLEAN /\ overtaken \in BOOLEAN

InWorld == state = "ACTIVE" /\ clMap = map

\* A client in the world that has executed every command issued to it has the server's
\* configstrings: none is lost between the game state, the updates kept while it loads and
\* the commands, whatever order sets, map changes, restarts and resent game states come in.
\* The exception is a short text that took the place of one before the pieces of a long one,
\* until the index is set again.
ClientAgrees ==
    InWorld /\ cgSequence = Len(commands) =>
        \A i \in Indexes \ misordered : clStrings[i] = configstrings[i]

\* A snapshot, and the commands it brings, reach only a client that has loaded the map
\* they are of: cgame would apply them to the wrong world.
SnapshotsOfThisMap == snap.map = clMap

\* Moves are executed in the map they were made in.
MovesOfThisMap == strays = {}

CaughtUp == state = "FREE" \/ (InWorld /\ clServerId = serverId)

\* A connected client gets into the world of the current map and learns its server id,
\* unless a restart came before it had caught up with the one before.
CatchesUp == []<>(overtaken \/ CaughtUp)

-----------------------------------------------------------------------------
\* What comments of the code promise, and the code does not keep.

\* sv_client.c, SV_ExecuteClientMessage: a client that dropped its game state gets it again,
\* and one that has not caught a restart, or several, catches up.
AlwaysCatchesUp == []<>CaughtUp
=============================================================================

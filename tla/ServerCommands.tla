--------------------------- MODULE ServerCommands ---------------------------
(***************************************************************************)
(* The reliable commands of the server to one client ("cs", "print",       *)
(* "disconnect" ...): numbered, kept in a ring of MAX_RELIABLE_COMMANDS    *)
(* slots on both sides, resent in every message until acknowledged, and    *)
(* executed by the client's cgame before the snapshot they came with.      *)
(*                                                                         *)
(* Messages go over network channels, which keep order and lose messages   *)
(* (module MessageStream, implemented by SvNetChan): toClient and toServer *)
(* are the messages not yet overtaken.  A message number is only compared  *)
(* with gamestateMessageNum, so a message carries the outcome instead: its *)
(* field later says that it left after the last game state.                *)
(***************************************************************************)
EXTENDS Integers, Sequences, FiniteSets, FiniteSetsExt, SequencesExt

CONSTANTS
    MAX_RELIABLE_COMMANDS,
    ConfigStrings,          \* configstring indexes, "cs" commands name one
    DeferAfter,             \* commands that saturate half a message buffer
    MaxPending,             \* environment: unacknowledged commands at which none is added
    MaxCommands,            \* bound on the commands added
    MaxServerId,            \* bound on the maps loaded
    MaxInFlight             \* bound on the messages in flight, one way

ASSUME RingAssumption == MAX_RELIABLE_COMMANDS \in Nat /\ MAX_RELIABLE_COMMANDS >= 2
ASSUME DeferAssumption == DeferAfter \in Nat \ {0}
ASSUME BoundsAssumption ==
    {MaxPending, MaxCommands} \subseteq Nat /\ {MaxServerId, MaxInFlight} \subseteq Nat \ {0}

VARIABLES
    \* client_t and sv
    state, serverId, serverIdAcknowledge,
    reliableSequence, reliableAcknowledge, reliableSent, reliableCommands,
    \* clientConnection_t, clientActive_t and cgs
    clServerId, clSequence, clCommands, clLater, snap, cgSequence, clFailed,
    \* the two channels
    toClient, toServer,
    \* history
    issued,                 \* the command behind each number
    executed,               \* what cgame executed, by number
    discarded,              \* the server forgot commands that were not acknowledged
    skipped,                \* numbers a game state has taken the client past
    added                   \* number of commands added

serverVars == <<state, serverId, serverIdAcknowledge,
                reliableSequence, reliableAcknowledge, reliableSent, reliableCommands>>
clientVars == <<clServerId, clSequence, clCommands, clLater, snap, cgSequence, clFailed>>
vars == <<serverVars, clientVars, toClient, toServer, issued, executed, discarded, skipped,
          added>>

Command == [cs : ConfigStrings \union {0}, id : Nat]     \* cs = 0: not a "cs" command
NoCommand == [cs |-> 0, id |-> 0]
PrintCommand == [cs |-> 0, id |-> MaxCommands + 1]
DisconnectCommand == [cs |-> 0, id |-> MaxCommands + 2]

Slot(i) == i % MAX_RELIABLE_COMMANDS

Init ==
    /\ state = "CONNECTED"
    /\ serverId = 1
    /\ serverIdAcknowledge = 0
    /\ reliableSequence = 0
    /\ reliableAcknowledge = 0
    /\ reliableSent = 0
    /\ reliableCommands = [s \in 0 .. MAX_RELIABLE_COMMANDS - 1 |-> NoCommand]
    /\ clServerId = 0
    /\ clSequence = 0
    /\ clCommands = [s \in 0 .. MAX_RELIABLE_COMMANDS - 1 |-> NoCommand]
    /\ clLater = TRUE       \* 0 is greater than a gamestateMessageNum of -1
    /\ snap = [num |-> 0, asOf |-> 0, deferred |-> FALSE]
    /\ cgSequence = 0
    /\ clFailed = FALSE
    /\ toClient = <<>>
    /\ toServer = <<>>
    /\ issued = <<>>
    /\ executed = {}
    /\ discarded = FALSE
    /\ skipped = {}
    /\ added = 0

\* A channel that is full loses its oldest message.
Send(channel, m) ==
    IF Len(channel) < MaxInFlight THEN Append(channel, m) ELSE Append(Tail(channel), m)

\* The messages before the one received are lost.
After(channel, k) == SubSeq(channel, k + 1, Len(channel))

-----------------------------------------------------------------------------
\* The server adds commands.

Pending == reliableAcknowledge + 1 .. reliableSequence

\* Mutant: looks for the configstring in what was already sent, too.
Replaceable_FromAcknowledge(cmd) ==
    {i \in Pending : cmd.cs # 0 /\ reliableCommands[Slot(i)].cs = cmd.cs}

\* SV_ReplacePendingServerCommands: an update of the same configstring not sent yet.
Replaceable(cmd) ==
    {i \in reliableSent + 1 .. reliableSequence :
        cmd.cs # 0 /\ reliableCommands[Slot(i)].cs = cmd.cs}

\* reliableSent falls behind when ExecuteIllegible moves the acknowledgement ahead, and the
\* loop then meets slots that newer commands occupy.
Occupant(i) == Max({n \in 1 .. reliableSequence : Slot(n) = Slot(i)})

ReplacePendingServerCommand(cmd) ==
    /\ Replaceable(cmd) # {}
    /\ LET i == Min(Replaceable(cmd))
       IN  /\ reliableCommands' = [reliableCommands EXCEPT ![Slot(i)] = cmd]
           /\ issued' = [issued EXCEPT ![Occupant(i)] = cmd]
    /\ UNCHANGED <<state, reliableSequence, discarded>>

\* Commands are not kept for a client that has no game state.
IgnoreServerCommand(cmd) ==
    /\ Replaceable(cmd) = {}
    /\ state \notin {"PRIMED", "ACTIVE"}
    /\ UNCHANGED <<state, reliableSequence, reliableCommands, issued, discarded>>

\* Mutant: one more pending command than the ring has slots.
Overflows_Late == reliableSequence + 1 - reliableAcknowledge = MAX_RELIABLE_COMMANDS + 2

Overflows == reliableSequence + 1 - reliableAcknowledge = MAX_RELIABLE_COMMANDS + 1

AppendServerCommand(cmd) ==
    /\ Replaceable(cmd) = {}
    /\ state \in {"PRIMED", "ACTIVE"}
    /\ ~Overflows
    /\ reliableSequence' = reliableSequence + 1
    /\ reliableCommands' = [reliableCommands EXCEPT ![Slot(reliableSequence + 1)] = cmd]
    /\ issued' = Append(issued, cmd)
    /\ UNCHANGED <<state, discarded>>

\* SV_DropClient: what is pending is forgotten, and the numbers are used again for the
\* reason and the disconnect, if the client is one that gets commands.
DropClient ==
    LET last == reliableAcknowledge
        told == state \in {"PRIMED", "ACTIVE"}
    IN  /\ state # "ZOMBIE"
        /\ state' = "ZOMBIE"
        /\ discarded' = TRUE
        /\ reliableSequence' = IF told THEN last + 2 ELSE last
        /\ reliableCommands' =
                IF told THEN [reliableCommands EXCEPT ![Slot(last + 1)] = PrintCommand,
                                                      ![Slot(last + 2)] = DisconnectCommand]
                ELSE reliableCommands
        /\ issued' = SubSeq(issued, 1, last)
                        \o IF told THEN <<PrintCommand, DisconnectCommand>> ELSE <<>>

\* Mutant: a full ring drops nobody.
OverflowServerCommand_Wraps(cmd) ==
    /\ Replaceable(cmd) = {}
    /\ state \in {"PRIMED", "ACTIVE"}
    /\ Overflows
    /\ reliableSequence' = reliableSequence + 1
    /\ reliableCommands' = [reliableCommands EXCEPT ![Slot(reliableSequence + 1)] = cmd]
    /\ issued' = Append(issued, cmd)
    /\ UNCHANGED <<state, discarded>>

\* The command that does not fit is not stored: the client is dropped.
OverflowServerCommand(cmd) ==
    /\ Replaceable(cmd) = {}
    /\ state \in {"PRIMED", "ACTIVE"}
    /\ Overflows
    /\ DropClient

SV_AddServerCommand ==
    /\ added < MaxCommands
    /\ added' = added + 1
    /\ reliableSequence - reliableAcknowledge < MaxPending
    /\ \E cs \in ConfigStrings \union {0} :
          LET cmd == [cs |-> cs, id |-> added + 1]
          IN  \/ ReplacePendingServerCommand(cmd)
              \/ IgnoreServerCommand(cmd)
              \/ AppendServerCommand(cmd)
              \/ OverflowServerCommand(cmd)
    /\ UNCHANGED <<serverId, serverIdAcknowledge, reliableAcknowledge, reliableSent,
                   clientVars, toClient, toServer, executed, skipped>>

\* A kick, a timeout, an error in the game.
SV_DropClient ==
    /\ DropClient
    /\ UNCHANGED <<serverId, serverIdAcknowledge, reliableAcknowledge, reliableSent,
                   clientVars, toClient, toServer, executed, skipped, added>>

-----------------------------------------------------------------------------
\* The server sends messages.

\* Mutant: only what was not sent before.
FirstWritten_Unsent(acknowledged) == Max({acknowledged, reliableSent}) + 1

FirstWritten(acknowledged) == acknowledged + 1

LastWritten(acknowledged) == Min({acknowledged + DeferAfter, reliableSequence})

Defers(acknowledged) == LastWritten(acknowledged) < reliableSequence

\* SV_UpdateServerCommandsToClient: the rest is deferred when half the buffer is full, and
\* the message goes out without it.
Written(acknowledged) ==
    [i \in FirstWritten(acknowledged) .. LastWritten(acknowledged) |-> reliableCommands[Slot(i)]]

Snapshot ==
    [kind |-> "snapshot", serverId |-> serverId, commands |-> Written(reliableAcknowledge),
     mark |-> 0, asOf |-> reliableSequence, deferred |-> Defers(reliableAcknowledge),
     later |-> TRUE]

Nop ==
    [kind |-> "nop", serverId |-> serverId, commands |-> <<>>, mark |-> 0, asOf |-> 0,
     deferred |-> FALSE, later |-> TRUE]

GameState(acknowledged) ==
    [kind |-> "gamestate", serverId |-> serverId, commands |-> Written(acknowledged),
     mark |-> reliableSequence, asOf |-> 0, deferred |-> Defers(acknowledged),
     later |-> FALSE]

\* Nothing but a nop until the client has acknowledged the map it plays on.
SV_SendClientSnapshot ==
    /\ IF serverIdAcknowledge = serverId
       THEN /\ toClient' = Send(toClient, Snapshot)
            /\ reliableSent' = reliableSequence
       ELSE /\ toClient' = Send(toClient, Nop)
            /\ UNCHANGED reliableSent
    /\ UNCHANGED <<state, serverId, serverIdAcknowledge, reliableSequence, reliableAcknowledge,
                   reliableCommands, clientVars, toServer, issued, executed, discarded, skipped,
                   added>>

\* SV_SpawnServer with another map.
SV_SpawnServer ==
    /\ serverId < MaxServerId
    /\ serverId' = serverId + 1
    /\ state' = IF state = "ZOMBIE" THEN "ZOMBIE" ELSE "CONNECTED"
    /\ UNCHANGED <<serverIdAcknowledge, reliableSequence, reliableAcknowledge, reliableSent,
                   reliableCommands, clientVars, toClient, toServer,
                   issued, executed, discarded, skipped, added>>

-----------------------------------------------------------------------------
\* The client.

Key == clCommands[Slot(clSequence)]

CL_WritePacket ==
    /\ ~clFailed
    /\ toServer' = Send(toServer, [serverId |-> clServerId, acknowledge |-> clSequence,
                                   later |-> clLater, key |-> Key])
    /\ UNCHANGED <<serverVars, clientVars, toClient, issued, executed, discarded, skipped, added>>

\* CL_ParseCommandString stores the numbers it has not seen.
News(commands) == {i \in DOMAIN commands : i > clSequence}

Stored(commands) ==
    [s \in 0 .. MAX_RELIABLE_COMMANDS - 1 |->
        LET here == {i \in News(commands) : Slot(i) = s}
        IN  IF here = {} THEN clCommands[s] ELSE commands[Max(here)]]

ParseServerMessage(m) ==
    LET sequence == Max({clSequence} \union News(m.commands))
    IN  /\ clCommands' = Stored(m.commands)
        /\ clLater' = m.later
        /\ \/ /\ m.kind = "nop"
              /\ clSequence' = sequence
              /\ UNCHANGED <<clServerId, snap, cgSequence, skipped>>
           \/ /\ m.kind = "snapshot"
              /\ clSequence' = sequence
              /\ snap' = [num |-> sequence, asOf |-> m.asOf, deferred |-> m.deferred]
              /\ UNCHANGED <<clServerId, cgSequence, skipped>>
           \/ /\ m.kind = "gamestate"       \* and cgame starts at the mark
              /\ clSequence' = m.mark
              /\ clServerId' = m.serverId
              /\ cgSequence' = m.mark
              /\ snap' = [num |-> m.mark, asOf |-> m.mark, deferred |-> FALSE]
              /\ skipped' = IF m.deferred THEN skipped \union (sequence + 1 .. m.mark)
                            ELSE skipped

CL_ParseServerMessage ==
    /\ ~clFailed
    /\ \E k \in 1 .. Len(toClient) :
          /\ ParseServerMessage(toClient[k])
          /\ toClient' = After(toClient, k)
    /\ UNCHANGED <<serverVars, clFailed, toServer, issued, executed, discarded, added>>

\* Mutant: the oldest slot of the ring is still taken for the command asked for.
CycledOut_OffByOne(i) == i < clSequence - MAX_RELIABLE_COMMANDS

\* CL_GetServerCommand: the slot has been used again.
CycledOut(i) == i <= clSequence - MAX_RELIABLE_COMMANDS

\* CG_ExecuteNewServerCommands goes twice over the numbers up to the snapshot's, the
\* first time for the models only; ERR_DROP if a command is no longer there.
CG_ExecuteNewServerCommands ==
    /\ ~clFailed
    /\ cgSequence < snap.num
    /\ \/ /\ CycledOut(cgSequence + 1)
          /\ clFailed' = TRUE
          /\ UNCHANGED <<cgSequence, executed>>
       \/ /\ ~CycledOut(cgSequence + 1)
          /\ executed' = executed \union
                {[num |-> i, cmd |-> clCommands[Slot(i)]] : i \in cgSequence + 1 .. snap.num}
          /\ cgSequence' = snap.num
          /\ UNCHANGED clFailed
    /\ UNCHANGED <<serverVars, clServerId, clSequence, clCommands, clLater, snap,
                   toClient, toServer, issued, discarded, skipped, added>>

-----------------------------------------------------------------------------
\* The server receives: SV_ExecuteClientMessage.

Unacknowledged(m) == reliableSequence - m.acknowledge

\* Mutant: a full ring of unacknowledged commands is accepted.
Legible_FullRing(m) == Unacknowledged(m) \in 0 .. MAX_RELIABLE_COMMANDS

Legible(m) == Unacknowledged(m) \in 0 .. MAX_RELIABLE_COMMANDS - 1

\* Every pending command counts as acknowledged.
ExecuteIllegible(m, rest) ==
    /\ ~Legible(m)
    /\ reliableAcknowledge' = reliableSequence
    /\ discarded' = TRUE
    /\ toServer' = rest
    /\ UNCHANGED <<state, reliableSent, toClient, clLater>>

NotLater(channel) == [k \in DOMAIN channel |-> [channel[k] EXCEPT !.later = FALSE]]

\* SV_SendClientGameState: no number in flight is greater than the new gamestateMessageNum.
ResendGameState(m, rest) ==
    /\ state # "ACTIVE"
    /\ m.later
    /\ state' = "PRIMED"
    /\ reliableSent' = reliableSequence
    /\ toClient' = Send(NotLater(toClient), GameState(m.acknowledge))
    /\ clLater' = FALSE
    /\ toServer' = NotLater(rest)

ExecuteOfOtherMap(m, rest) ==
    /\ Legible(m)
    /\ m.serverId # serverId
    /\ reliableAcknowledge' = m.acknowledge
    /\ \/ ResendGameState(m, rest)
       \/ /\ state = "ACTIVE" \/ ~m.later
          /\ toServer' = rest
          /\ UNCHANGED <<state, reliableSent, toClient, clLater>>
    /\ UNCHANGED discarded

\* The first move puts the client into the world; a packet may have none.  The configstrings
\* that changed while the client was loading are commands added next (SV_AddServerCommand):
\* no message leaves in between.
ExecuteMove(m, rest) ==
    /\ Legible(m)
    /\ m.serverId = serverId
    /\ reliableAcknowledge' = m.acknowledge
    /\ \/ UNCHANGED state
       \/ state = "PRIMED" /\ state' = "ACTIVE"
    /\ toServer' = rest
    /\ UNCHANGED <<reliableSent, toClient, clLater, discarded>>

\* SV_PacketEvent: the messages of a zombie are not executed.
SV_ExecuteClientMessage ==
    /\ \E k \in 1 .. Len(toServer) :
          LET m == toServer[k]
              rest == After(toServer, k)
          IN  IF state = "ZOMBIE"
              THEN /\ toServer' = rest
                   /\ UNCHANGED <<serverVars, toClient, clLater, discarded>>
              ELSE /\ serverIdAcknowledge' = m.serverId
                   /\ \/ ExecuteIllegible(m, rest)
                      \/ ExecuteOfOtherMap(m, rest)
                      \/ ExecuteMove(m, rest)
                   /\ UNCHANGED <<serverId, reliableSequence, reliableCommands>>
    /\ UNCHANGED <<clServerId, clSequence, clCommands, snap, cgSequence, clFailed,
                   issued, executed, skipped, added>>

-----------------------------------------------------------------------------
Next ==
    \/ SV_AddServerCommand
    \/ SV_DropClient
    \/ SV_SendClientSnapshot
    \/ SV_SpawnServer
    \/ CL_WritePacket
    \/ CL_ParseServerMessage
    \/ CG_ExecuteNewServerCommands
    \/ SV_ExecuteClientMessage

Spec == Init /\ [][Next]_vars

\* Both programs run frames for ever, and the network does not lose every message.
FairSpec ==
    /\ Spec
    /\ WF_vars(SV_SendClientSnapshot)
    /\ WF_vars(CL_WritePacket)
    /\ WF_vars(CG_ExecuteNewServerCommands)
    /\ SF_vars(CL_ParseServerMessage)
    /\ SF_vars(SV_ExecuteClientMessage)

-----------------------------------------------------------------------------
\* Properties.

TypeOK ==
    /\ state \in {"ZOMBIE", "CONNECTED", "PRIMED", "ACTIVE"}
    /\ serverId \in 1 .. MaxServerId
    /\ serverIdAcknowledge \in 0 .. serverId
    /\ reliableAcknowledge \in 0 .. reliableSequence
    /\ reliableSequence \in 0 .. reliableAcknowledge + MAX_RELIABLE_COMMANDS
    /\ reliableSent \in Nat
    /\ reliableCommands \in [0 .. MAX_RELIABLE_COMMANDS - 1 -> Command]
    /\ clServerId \in 0 .. serverId
    /\ clSequence \in Nat
    /\ clCommands \in [0 .. MAX_RELIABLE_COMMANDS - 1 -> Command]
    /\ cgSequence \in 0 .. clSequence
    /\ clLater \in BOOLEAN /\ clFailed \in BOOLEAN /\ discarded \in BOOLEAN
    /\ issued \in Seq(Command) /\ Len(issued) = reliableSequence
    /\ skipped \subseteq Nat

\* No command that may have to be sent again has lost its slot to a newer one: the ring
\* never holds more than MAX_RELIABLE_COMMANDS, even while a client is being dropped.
PendingIntact ==
    \A i \in Pending : reliableCommands[Slot(i)] = issued[i]

WindowAgrees ==
    /\ clSequence <= reliableSequence
    /\ \A i \in Max({0, clSequence - MAX_RELIABLE_COMMANDS}) + 1 .. clSequence :
            i \in skipped \/ clCommands[Slot(i)] = issued[i]

\* As long as the server forgets nothing, the window of the client's ring agrees with what
\* the server issued: nothing is missing below clc.serverCommandSequence but what a game
\* state left out and marked as received, and a pending "cs" is never replaced after the
\* client may have got it.
ClientAgrees == ~discarded => WindowAgrees

\* cgame executes the commands that were issued under their numbers, never the newer
\* content of a slot that was used again in between.
ExecutedAsIssued ==
    ~discarded => \A e \in executed : e.cmd = issued[e.num]

\* A snapshot is not shown before the commands the server added ahead of it: the number
\* up to which cgame executes for it covers all of them, unless its own message had no room
\* for all that were pending.
SnapshotAfterCommands == ~discarded => snap.num >= snap.asOf \/ snap.deferred

\* Both ends compute the same key for the moves of a message: the server's slot of the
\* command the client acknowledges still holds what the client's slot held.  Only a command
\* the client never got, and acknowledges because a game state took it past, is different.
KeyAgreement ==
    ~discarded =>
        \A k \in DOMAIN toServer :
            LET m == toServer[k]
            IN  Legible(m) /\ m.acknowledge \notin skipped =>
                    reliableCommands[Slot(m.acknowledge)] = m.key

\* A command added to a client in the world is executed, if the client stays: it is not
\* dropped, no other map is loaded and no command is cycled out before it is looked at.
CommandsExecuted ==
    \A n \in 1 .. MaxCommands :
        (state = "ACTIVE" /\ reliableSequence >= n) ~>
            (cgSequence >= n \/ state # "ACTIVE" \/ discarded \/ clFailed)
=============================================================================

--------------------------- MODULE ClientCommands ---------------------------
(***************************************************************************)
(* The reliable commands of one client to the server ("say", "userinfo",   *)
(* "disconnect" ...): numbered, kept in a ring of MAX_RELIABLE_COMMANDS    *)
(* slots, resent in every packet until the server acknowledges them, and   *)
(* executed by the server before the moves of the packet.                  *)
(*                                                                         *)
(* Messages go over network channels (module MessageStream).  A packet of  *)
(* the client that needs fragments never arrives: CL_WritePacket sends the *)
(* first one and nobody calls CL_Netchan_TransmitNextFragment.             *)
(*                                                                         *)
(* Message bodies are xor-ed with the text of a command that both ends are *)
(* to know.  A body decoded with another text is illegible: ERR_DROP.      *)
(***************************************************************************)
EXTENDS Integers, Sequences, FiniteSets, FiniteSetsExt, SequencesExt

CONSTANTS
    MAX_RELIABLE_COMMANDS,
    FitsInPacket,           \* commands that fit into a packet without fragments
    MaxCommands,            \* bound on the commands issued
    MaxServerId,            \* bound on the maps loaded
    MaxInFlight             \* bound on the messages in flight, one way

ASSUME RingAssumption == MAX_RELIABLE_COMMANDS \in Nat \ {0}
ASSUME BoundsAssumption == {FitsInPacket, MaxCommands} \subseteq Nat /\ {MaxServerId, MaxInFlight} \subseteq Nat \ {0}

VARIABLES
    \* clientConnection_t and clientActive_t
    clState, clServerId, reliableSequence, reliableAcknowledge, reliableCommands,
    \* client_t and sv
    state, serverId, lastClientCommand, lastClientCommandString,
    \* the two channels
    toServer, toClient,
    \* history
    issued,                 \* the commands added, in order
    executed,               \* the commands the server executed, in order
    moved,                  \* commands issued when the last executed move was made
    lost,                   \* the server found a gap in the numbers
    peak                    \* most commands ever unacknowledged at once

clientVars == <<clState, clServerId, reliableSequence, reliableAcknowledge, reliableCommands>>
serverVars == <<state, serverId, lastClientCommand, lastClientCommandString>>
historyVars == <<issued, executed, moved, lost, peak>>
vars == <<clientVars, serverVars, toServer, toClient, historyVars>>

NoCommand == 0
Disconnect == MaxCommands + 1
Command == 1 .. MaxCommands + 1

Slot(i) == i % MAX_RELIABLE_COMMANDS

Init ==
    /\ clState = "CONNECTED"
    /\ clServerId = 1
    /\ reliableSequence = 0
    /\ reliableAcknowledge = 0
    /\ reliableCommands = [s \in 0 .. MAX_RELIABLE_COMMANDS - 1 |-> NoCommand]
    /\ state = "ACTIVE"
    /\ serverId = 1
    /\ lastClientCommand = 0
    /\ lastClientCommandString = NoCommand
    /\ toServer = <<>>
    /\ toClient = <<>>
    /\ issued = <<>>
    /\ executed = <<>>
    /\ moved = 0
    /\ lost = FALSE
    /\ peak = 0

\* A channel that is full loses its oldest message.
Send(channel, m) ==
    IF Len(channel) < MaxInFlight THEN Append(channel, m) ELSE Append(Tail(channel), m)

\* The messages before the one received are lost.
After(channel, k) == SubSeq(channel, k + 1, Len(channel))

-----------------------------------------------------------------------------
\* The client adds commands.

\* Mutant: the check is one command later still.
Full_Late == reliableSequence - reliableAcknowledge > MAX_RELIABLE_COMMANDS + 1

\* isDisconnectCmd is not looked at.
Full == reliableSequence - reliableAcknowledge > MAX_RELIABLE_COMMANDS

AddReliableCommand(cmd) ==
    /\ ~Full
    /\ reliableSequence' = reliableSequence + 1
    /\ reliableCommands' = [reliableCommands EXCEPT ![Slot(reliableSequence + 1)] = cmd]
    /\ issued' = Append(issued, cmd)
    /\ peak' = Max({peak, reliableSequence + 1 - reliableAcknowledge})

\* ERR_DROP disconnects, the disconnect is a command more, its error is a recursive error:
\* Sys_Error ends the program.
RecursiveError ==
    /\ Full
    /\ clState' = "CRASHED"
    /\ UNCHANGED <<reliableSequence, reliableCommands, toServer, issued, peak>>

CL_AddReliableCommand ==
    /\ clState = "CONNECTED"
    /\ Len(issued) < MaxCommands
    /\ \/ /\ AddReliableCommand(Len(issued) + 1)
          /\ UNCHANGED <<clState, toServer>>
       \/ RecursiveError
    /\ UNCHANGED <<clServerId, reliableAcknowledge, serverVars, toClient, executed, moved, lost>>

\* Mutants: the first command not acknowledged is left out; one command a packet.
Outstanding_SkipFirst(sequence) == reliableAcknowledge + 2 .. sequence
Outstanding_OnePerPacket(sequence) == reliableAcknowledge + 1 .. Min({reliableAcknowledge + 1, sequence})

Outstanding(sequence) == reliableAcknowledge + 1 .. sequence

\* CL_WritePacket repeats every command that is not acknowledged.
Packet(sequence, ring) ==
    [serverId |-> clServerId, asOf |-> sequence,
     commands |-> [i \in Outstanding(sequence) |-> ring[Slot(i)]]]

\* Of a packet that needs fragments only the first one leaves, every time: it never arrives.
WritePacket(sequence, ring) ==
    toServer' = IF Cardinality(Outstanding(sequence)) <= FitsInPacket
                THEN Send(toServer, Packet(sequence, ring))
                ELSE toServer

CL_WritePacket ==
    /\ clState = "CONNECTED"
    /\ WritePacket(reliableSequence, reliableCommands)
    /\ UNCHANGED <<clientVars, serverVars, toClient, historyVars>>

\* CL_Disconnect: the command, and packets (three equal ones) that carry it.
DisconnectFromServer ==
    \/ /\ AddReliableCommand(Disconnect)
       /\ WritePacket(reliableSequence', reliableCommands')
       /\ clState' = "DISCONNECTED"
    \/ RecursiveError

CL_Disconnect ==
    /\ clState = "CONNECTED"
    /\ DisconnectFromServer
    /\ UNCHANGED <<clServerId, reliableAcknowledge, serverVars, toClient, executed, moved, lost>>

-----------------------------------------------------------------------------
\* The server receives: SV_ExecuteClientMessage and SV_ClientCommand.

\* Mutant: the command executed last is executed again.
Fresh_Again(commands) == {i \in DOMAIN commands : i >= lastClientCommand}

Fresh(commands) == {i \in DOMAIN commands : i > lastClientCommand}

LostCommands(m) == Fresh(m.commands) # {} /\ Min(Fresh(m.commands)) > lastClientCommand + 1

DropForLostCommands(m) ==
    /\ LostCommands(m)
    /\ state' = "ZOMBIE"
    /\ lost' = TRUE
    /\ UNCHANGED <<lastClientCommand, lastClientCommandString, executed, moved>>

\* The commands in order, and the moves unless one of them was a disconnect.
ExecuteCommandsAndMove(m) ==
    /\ ~LostCommands(m)
    /\ LET fresh == Fresh(m.commands)
           texts == [k \in 1 .. Cardinality(fresh) |-> m.commands[Min(fresh) + k - 1]]
           left == \E i \in fresh : m.commands[i] = Disconnect
       IN  /\ executed' = executed \o texts
           /\ lastClientCommand' = Max({lastClientCommand} \union fresh)
           /\ lastClientCommandString' =
                IF fresh = {} THEN lastClientCommandString ELSE m.commands[Max(fresh)]
           /\ state' = IF left THEN "ZOMBIE" ELSE state
           /\ moved' = IF left THEN moved ELSE m.asOf
    /\ UNCHANGED lost

\* What was sent from another map is answered with a game state, or ignored (when:
\* ServerCommands).
IgnoreOtherMap(m) ==
    /\ m.serverId # serverId
    /\ UNCHANGED <<state, lastClientCommand, lastClientCommandString, executed, moved, lost>>

\* netchan_buffer_t keeps the text that goes with the acknowledgement in a message, also
\* when the message waits behind fragments.
ServerMessage(gamestate) ==
    [acknowledge |-> lastClientCommand, key |-> lastClientCommandString,
     serverId |-> IF gamestate THEN serverId ELSE 0]

SV_ExecuteClientMessage ==
    /\ \E k \in 1 .. Len(toServer) :
          LET m == toServer[k]
          IN  /\ toServer' = After(toServer, k)
              /\ \/ /\ state = "ZOMBIE"
                    /\ UNCHANGED <<state, lastClientCommand, lastClientCommandString,
                                   toClient, executed, moved, lost>>
                 \/ /\ state # "ZOMBIE"
                    /\ IgnoreOtherMap(m)
                    /\ \/ UNCHANGED toClient
                       \/ toClient' = Send(toClient, ServerMessage(TRUE))
                 \/ /\ state # "ZOMBIE"
                    /\ m.serverId = serverId
                    /\ DropForLostCommands(m) \/ ExecuteCommandsAndMove(m)
                    /\ UNCHANGED toClient
    /\ UNCHANGED <<clientVars, serverId, issued, peak>>

\* A kick.
SV_DropClient ==
    /\ state # "ZOMBIE"
    /\ state' = "ZOMBIE"
    /\ UNCHANGED <<clientVars, serverId, lastClientCommand, lastClientCommandString,
                   toServer, toClient, historyVars>>

SV_SpawnServer ==
    /\ serverId < MaxServerId
    /\ serverId' = serverId + 1
    /\ UNCHANGED <<clientVars, state, lastClientCommand, lastClientCommandString,
                   toServer, toClient, historyVars>>

SV_SendClientSnapshot ==
    /\ toClient' = Send(toClient, ServerMessage(FALSE))
    /\ UNCHANGED <<clientVars, serverVars, toServer, historyVars>>

-----------------------------------------------------------------------------
\* The client receives: CL_Netchan_Process and CL_ParseServerMessage.

\* Mutant: a message that waited is encoded with the text of the newest command.
KeyOf_Newest(m) == lastClientCommandString

KeyOf(m) == m.key

Readable(m) == reliableCommands[Slot(m.acknowledge)] = KeyOf(m)

\* Mutant: everything sent counts as acknowledged.
Acknowledged_All(m) == reliableSequence

Acknowledged(m) ==
    IF m.acknowledge < reliableSequence - MAX_RELIABLE_COMMANDS
    THEN reliableSequence
    ELSE m.acknowledge

CL_ParseServerMessage ==
    /\ clState = "CONNECTED"
    /\ \E k \in 1 .. Len(toClient) :
          LET m == toClient[k]
          IN  /\ toClient' = After(toClient, k)
              /\ \/ /\ Readable(m)
                    /\ reliableAcknowledge' = Acknowledged(m)
                    /\ clServerId' = IF m.serverId = 0 THEN clServerId ELSE m.serverId
                    /\ UNCHANGED <<clState, reliableSequence, reliableCommands, toServer,
                                   issued, peak>>
                 \/ /\ ~Readable(m)
                    /\ DisconnectFromServer
                    /\ UNCHANGED <<clServerId, reliableAcknowledge>>
    /\ UNCHANGED <<serverVars, executed, moved, lost>>

-----------------------------------------------------------------------------
Next ==
    \/ CL_AddReliableCommand
    \/ CL_WritePacket
    \/ CL_Disconnect
    \/ SV_ExecuteClientMessage
    \/ SV_DropClient
    \/ SV_SpawnServer
    \/ SV_SendClientSnapshot
    \/ CL_ParseServerMessage

Spec == Init /\ [][Next]_vars

\* Both programs run frames for ever, and the network does not lose every message.
FairSpec ==
    /\ Spec
    /\ WF_vars(CL_WritePacket)
    /\ WF_vars(SV_SendClientSnapshot)
    /\ SF_vars(SV_ExecuteClientMessage)
    /\ SF_vars(CL_ParseServerMessage)

-----------------------------------------------------------------------------
\* Properties.

TypeOK ==
    /\ clState \in {"CONNECTED", "DISCONNECTED", "CRASHED"}
    /\ clServerId \in 1 .. serverId
    /\ serverId \in 1 .. MaxServerId
    /\ reliableSequence \in 0 .. reliableAcknowledge + MAX_RELIABLE_COMMANDS + 1
    /\ reliableAcknowledge \in 0 .. reliableSequence
    /\ reliableCommands \in [0 .. MAX_RELIABLE_COMMANDS - 1 -> Command \union {NoCommand}]
    /\ state \in {"ACTIVE", "ZOMBIE"}
    /\ lastClientCommand \in 0 .. reliableSequence
    /\ lastClientCommandString \in Command \union {NoCommand}
    /\ issued \in Seq(Command) /\ Len(issued) = reliableSequence
    /\ executed \in Seq(Command)

\* The server executes what the client issued, in order, each command once and none left
\* out, as long as no slot of an unacknowledged command was used again.
ExecutedAsIssued ==
    peak <= MAX_RELIABLE_COMMANDS => executed = SubSeq(issued, 1, lastClientCommand)

\* A client is not dropped for lost commands on account of a network that loses packets.
NothingLost == peak <= MAX_RELIABLE_COMMANDS => ~lost

\* No move is executed before the commands that were issued before it was made.
MovesAfterCommands == peak <= MAX_RELIABLE_COMMANDS => moved <= lastClientCommand

\* The client can read every message of the server: the text it is encoded with is still in
\* the client's ring.  This takes one command less than the ring holds, because the last
\* acknowledged command must stay, too.
MessagesReadable ==
    peak < MAX_RELIABLE_COMMANDS => \A k \in DOMAIN toClient : Readable(toClient[k])

\* A command is executed, unless the client leaves or is kicked or another map is loaded.
CommandsExecuted ==
    \A n \in 1 .. MaxCommands :
        (clState = "CONNECTED" /\ reliableSequence >= n) ~>
            \/ lastClientCommand >= n
            \/ clState # "CONNECTED"
            \/ state = "ZOMBIE"
            \/ clServerId # serverId
=============================================================================

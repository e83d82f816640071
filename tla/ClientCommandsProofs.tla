------------------------ MODULE ClientCommandsProofs ------------------------
(***************************************************************************)
(* Proofs about the reliable commands of a client, for every size of the   *)
(* ring, every packet size and every number of commands, maps and messages *)
(* in flight.                                                              *)
(***************************************************************************)
EXTENDS ClientCommands, RingLemmas

(***************************************************************************)
(* The inductive invariant.  What holds of the ring, the packets and the   *)
(* acknowledgements in flight is only promised while the client never had  *)
(* more commands unacknowledged than the ring has slots.                   *)
(***************************************************************************)
Intact == peak <= MAX_RELIABLE_COMMANDS

\* The text that goes with a number; nothing was issued under 0.
Text(i) == IF i = 0 THEN NoCommand ELSE issued[i]

CommandsOf(a, b) == [a + 1 .. b -> Command]

Packets ==
    [serverId : Nat, asOf : Nat,
     commands : UNION {CommandsOf(ab[1], ab[2]) : ab \in Nat \X Nat}]

Messages ==
    [acknowledge : Nat, key : Command \union {NoCommand}, serverId : Nat]

ExtraTypes ==
    /\ toServer \in Seq(Packets)
    /\ toClient \in Seq(Messages)
    /\ moved \in Nat
    /\ peak \in Nat
    /\ lost \in BOOLEAN

\* The ring holds the newest commands, and commands only where one was added.
RingInv ==
    /\ \A i \in 1 .. reliableSequence : reliableCommands[Slot(i)] \in Command
    /\ \A i \in 0 .. reliableSequence :
          i > reliableSequence - MAX_RELIABLE_COMMANDS => reliableCommands[Slot(i)] = Text(i)

\* What the server executed is what was issued up to the number it acknowledges.
ServerInv ==
    Intact =>
        /\ reliableSequence - reliableAcknowledge <= peak
        /\ reliableAcknowledge <= lastClientCommand
        /\ executed = SubSeq(issued, 1, lastClientCommand)
        /\ lastClientCommandString = Text(lastClientCommand)
        /\ moved <= lastClientCommand
        /\ ~lost

\* A packet carries the commands from some acknowledgement on, without a gap.
PacketOK(p) ==
    /\ p.asOf <= reliableSequence
    /\ \E a \in 0 .. p.asOf :
          /\ p.commands \in CommandsOf(a, p.asOf)
          /\ Intact => a <= lastClientCommand
    /\ Intact => \A i \in DOMAIN p.commands : p.commands[i] = issued[i]

PacketInv == \A k \in 1 .. Len(toServer) : PacketOK(toServer[k])

\* A message acknowledges what the server had, and the later one no less.
MessageOK(m) ==
    /\ m.acknowledge <= reliableSequence
    /\ m.serverId <= serverId
    /\ Intact =>
          /\ reliableAcknowledge <= m.acknowledge
          /\ m.acknowledge <= lastClientCommand
          /\ m.key = Text(m.acknowledge)

MessageInv ==
    /\ \A k \in 1 .. Len(toClient) : MessageOK(toClient[k])
    /\ Intact => \A j, k \in 1 .. Len(toClient) :
                    j < k => toClient[j].acknowledge <= toClient[k].acknowledge

CommandsInv ==
    /\ TypeOK
    /\ ExtraTypes
    /\ RingInv
    /\ ServerInv
    /\ PacketInv
    /\ MessageInv

-----------------------------------------------------------------------------
(***************************************************************************)
(* The ring and the channels.                                              *)
(***************************************************************************)
LEMMA SlotInRing == \A i \in Int : Slot(i) \in 0 .. MAX_RELIABLE_COMMANDS - 1
BY RingAssumption, Division DEF Slot

LEMMA SlotsDiffer ==
    ASSUME NEW i \in Int, NEW j \in Int, i < j, j < i + MAX_RELIABLE_COMMANDS
    PROVE  Slot(i) # Slot(j)
BY RingAssumption, DifferentSlots DEF Slot

\* What a channel holds after a message is sent: what it held, maybe without the oldest,
\* and the message last.
LEMMA SendElements ==
    ASSUME NEW S, NEW c \in Seq(S), NEW m \in S
    PROVE  /\ Send(c, m) \in Seq(S)
           /\ \E d \in {0, 1} :
                 /\ Len(Send(c, m)) = Len(c) - d + 1
                 /\ \A k \in 1 .. Len(c) - d : Send(c, m)[k] = c[k + d]
                 /\ Send(c, m)[Len(c) - d + 1] = m
BY BoundsAssumption, BoundedAppend DEF Send

LEMMA AfterElements ==
    ASSUME NEW S, NEW c \in Seq(S), NEW k \in 1 .. Len(c)
    PROVE  /\ After(c, k) \in Seq(S)
           /\ Len(After(c, k)) = Len(c) - k
           /\ \A i \in 1 .. Len(c) - k : After(c, k)[i] = c[i + k]
BY SuffixElements DEF After

-----------------------------------------------------------------------------
(***************************************************************************)
(* The client adds a command: the ring keeps the newest ones.              *)
(***************************************************************************)
LEMMA AddFacts ==
    ASSUME TypeOK, peak \in Nat, RingInv, NEW cmd \in Command, AddReliableCommand(cmd)
    PROVE  /\ reliableSequence - reliableAcknowledge <= MAX_RELIABLE_COMMANDS
           /\ reliableSequence' = reliableSequence + 1
           /\ reliableCommands' \in [0 .. MAX_RELIABLE_COMMANDS - 1 -> Command \union {NoCommand}]
           /\ issued' \in Seq(Command) /\ Len(issued') = reliableSequence + 1
           /\ \A i \in 1 .. reliableSequence : issued'[i] = issued[i]
           /\ peak' \in Nat /\ peak <= peak' /\ reliableSequence + 1 - reliableAcknowledge <= peak'
           /\ RingInv'
<1>. DEFINE n == reliableSequence + 1
            N == MAX_RELIABLE_COMMANDS
<1>1. /\ reliableSequence \in Nat /\ reliableAcknowledge \in Nat /\ N \in Nat \ {0} /\ n \in Nat
      /\ reliableAcknowledge <= reliableSequence
      /\ issued \in Seq(Command) /\ Len(issued) = reliableSequence
      /\ reliableCommands \in [0 .. N - 1 -> Command \union {NoCommand}]
  BY RingAssumption DEF TypeOK
<1>2. /\ reliableSequence' = n
      /\ reliableCommands' = [reliableCommands EXCEPT ![Slot(n)] = cmd]
      /\ issued' = Append(issued, cmd)
      /\ reliableSequence - reliableAcknowledge <= N
  BY <1>1 DEF AddReliableCommand, Full
<1>3. peak' \in Nat /\ peak <= peak' /\ n - reliableAcknowledge <= peak'
  <2>1. peak' = Max({peak, reliableSequence + 1 - reliableAcknowledge})
    BY DEF AddReliableCommand
  <2>2. /\ peak \in Int /\ n - reliableAcknowledge \in Int
        /\ reliableSequence + 1 - reliableAcknowledge = n - reliableAcknowledge
    BY <1>1
  <2>. QED  BY <1>1, <2>1, <2>2, MaxOfPair
<1>4. /\ issued' \in Seq(Command) /\ Len(issued') = n /\ issued'[n] = cmd
      /\ \A i \in 1 .. reliableSequence : issued'[i] = issued[i]
  BY <1>1, <1>2, AppendProperties
<1>5. \A i \in Int : Slot(i) \in 0 .. N - 1
  BY SlotInRing
<1>6. reliableCommands' \in [0 .. N - 1 -> Command \union {NoCommand}]
  BY <1>1, <1>2, <1>5
<1>7. ASSUME NEW i \in 1 .. n PROVE reliableCommands'[Slot(i)] \in Command
  <2>1. CASE Slot(i) = Slot(n)
    BY <1>1, <1>2, <1>5, <2>1
  <2>2. CASE Slot(i) # Slot(n)
    <3>1. i \in 1 .. reliableSequence
      BY <1>1, <2>2
    <3>2. reliableCommands'[Slot(i)] = reliableCommands[Slot(i)]
      BY <1>1, <1>2, <1>5, <2>2
    <3>. QED  BY <3>1, <3>2 DEF RingInv
  <2>. QED  BY <2>1, <2>2
<1>8. ASSUME NEW i \in 0 .. n, i > n - N PROVE reliableCommands'[Slot(i)] = Text(i)'
  <2>1. CASE i = n
    BY <1>1, <1>2, <1>4, <1>5, <2>1 DEF Text
  <2>2. CASE i # n
    <3>1. i \in 0 .. reliableSequence /\ i > reliableSequence - N /\ i < n /\ n < i + N
      BY <1>1, <1>8, <2>2
    <3>2. Slot(i) # Slot(n)
      BY <1>1, <3>1, SlotsDiffer
    <3>3. reliableCommands'[Slot(i)] = reliableCommands[Slot(i)]
      BY <1>1, <1>2, <1>5, <3>2
    <3>4. reliableCommands[Slot(i)] = Text(i)
      BY <3>1 DEF RingInv
    <3>5. Text(i)' = Text(i)
      BY <1>1, <1>4, <3>1 DEF Text
    <3>. QED  BY <3>3, <3>4, <3>5
  <2>. QED  BY <2>1, <2>2
<1>9. RingInv'
  BY <1>2, <1>7, <1>8 DEF RingInv
<1>10. /\ reliableSequence - reliableAcknowledge <= MAX_RELIABLE_COMMANDS
       /\ reliableSequence' = reliableSequence + 1
  BY <1>2
<1>11. reliableSequence + 1 - reliableAcknowledge <= peak'
  BY <1>1, <1>3
<1>. QED  BY <1>3, <1>4, <1>6, <1>9, <1>10, <1>11

-----------------------------------------------------------------------------
(***************************************************************************)
(* What no step of either end undoes.                                      *)
(***************************************************************************)
Monotone ==
    /\ reliableSequence' \in Nat /\ reliableSequence <= reliableSequence'
    /\ issued' \in Seq(Command) /\ Len(issued') = reliableSequence'
    /\ \A i \in 1 .. reliableSequence : issued'[i] = issued[i]
    /\ lastClientCommand' \in Nat /\ lastClientCommand <= lastClientCommand'
    /\ serverId' \in Nat /\ serverId <= serverId'
    /\ peak' \in Nat /\ peak <= peak'

LEMMA IntactBefore ==
    ASSUME CommandsInv, Monotone, Intact' PROVE Intact
BY RingAssumption DEF Monotone, Intact, CommandsInv, ExtraTypes

LEMMA PacketStays ==
    ASSUME CommandsInv, Monotone, NEW p \in Packets, PacketOK(p)
    PROVE  PacketOK(p)'
<1>1. Intact' => Intact
  BY IntactBefore
<1>2. /\ reliableSequence \in Nat /\ lastClientCommand \in Nat /\ p.asOf \in Nat
      /\ p.asOf <= reliableSequence'
  BY SMTT(30) DEF CommandsInv, TypeOK, Packets, PacketOK, Monotone
<1>3. PICK a \in 0 .. p.asOf : /\ p.commands \in CommandsOf(a, p.asOf)
                               /\ Intact => a <= lastClientCommand
  BY DEF PacketOK
<1>4. Intact' => a <= lastClientCommand'
  BY <1>1, <1>2, <1>3 DEF Monotone
<1>5. ASSUME Intact', NEW i \in DOMAIN p.commands PROVE p.commands[i] = issued'[i]
  <2>1. i \in 1 .. reliableSequence
    BY <1>2, <1>3 DEF CommandsOf, PacketOK
  <2>2. p.commands[i] = issued[i]
    BY <1>1, <1>5 DEF PacketOK
  <2>. QED  BY <2>1, <2>2 DEF Monotone
<1>. QED  BY <1>2, <1>3, <1>4, <1>5 DEF PacketOK

LEMMA MessageStays ==
    ASSUME CommandsInv, Monotone, NEW m \in Messages, MessageOK(m),
           reliableAcknowledge' = reliableAcknowledge
    PROVE  MessageOK(m)'
<1>1. Intact' => Intact
  BY IntactBefore
<1>2. /\ reliableSequence \in Nat /\ lastClientCommand \in Nat /\ m.acknowledge \in Nat
      /\ serverId \in Nat /\ m.serverId \in Nat
      /\ m.acknowledge <= reliableSequence /\ m.serverId <= serverId
  BY BoundsAssumption DEF CommandsInv, TypeOK, Messages, MessageOK
<1>3. Text(m.acknowledge)' = Text(m.acknowledge)
  BY <1>2 DEF Text, Monotone
<1>. QED  BY <1>1, <1>2, <1>3 DEF MessageOK, Monotone

LEMMA PacketsStay ==
    ASSUME CommandsInv, Monotone, UNCHANGED toServer
    PROVE  PacketInv'
<1>1. ASSUME NEW k \in 1 .. Len(toServer) PROVE PacketOK(toServer[k])'
  <2>1. PICK p \in Packets : p = toServer[k]
    BY DEF CommandsInv, ExtraTypes
  <2>2. PacketOK(p)'
    BY <2>1, PacketStays DEF CommandsInv, PacketInv
  <2>. QED  BY <2>1, <2>2
<1>. QED  BY <1>1 DEF PacketInv

LEMMA MessagesStay ==
    ASSUME CommandsInv, Monotone, UNCHANGED <<toClient, reliableAcknowledge>>
    PROVE  MessageInv'
<1>1. ASSUME NEW k \in 1 .. Len(toClient) PROVE MessageOK(toClient[k])'
  <2>1. PICK m \in Messages : m = toClient[k]
    BY DEF CommandsInv, ExtraTypes
  <2>2. MessageOK(m)'
    BY <2>1, MessageStays DEF CommandsInv, MessageInv
  <2>. QED  BY <2>1, <2>2
<1>2. Intact' => Intact
  BY IntactBefore
<1>. QED  BY <1>1, <1>2 DEF MessageInv, CommandsInv

\* The server's account is not touched by commands that are added.
LEMMA ServerStays ==
    ASSUME CommandsInv, Monotone,
           UNCHANGED <<reliableAcknowledge, lastClientCommand, lastClientCommandString,
                       executed, moved, lost>>,
           Intact' => reliableSequence' - reliableAcknowledge <= peak'
    PROVE  ServerInv'
<1>. SUFFICES ASSUME Intact' PROVE ServerInv'
  BY DEF ServerInv
<1>1. Intact
  BY IntactBefore
<1>2. /\ lastClientCommand \in 0 .. reliableSequence /\ reliableSequence \in Nat
      /\ issued \in Seq(Command) /\ Len(issued) = reliableSequence
  BY DEF CommandsInv, TypeOK
<1>3. Text(lastClientCommand)' = Text(lastClientCommand)
  BY <1>2 DEF Text, Monotone
<1>4. SubSeq(issued, 1, lastClientCommand) = SubSeq(issued', 1, lastClientCommand)
  BY <1>2, SamePrefix DEF Monotone
<1>. QED  BY <1>1, <1>3, <1>4 DEF ServerInv, CommandsInv

-----------------------------------------------------------------------------
(***************************************************************************)
(* The client's steps.                                                     *)
(***************************************************************************)
\* Every packet carries what was issued after the acknowledgement it starts from.
LEMMA WriteInv ==
    ASSUME CommandsInv, Monotone, RingInv',
           reliableCommands' \in [0 .. MAX_RELIABLE_COMMANDS - 1 -> Command \union {NoCommand}],
           Intact' => reliableSequence' - reliableAcknowledge <= peak',
           WritePacket(reliableSequence', reliableCommands')
    PROVE  toServer' \in Seq(Packets) /\ PacketInv'
<1>1. PICK p : p = Packet(reliableSequence', reliableCommands')
  OBVIOUS
<1>2. /\ reliableSequence' \in Nat /\ reliableAcknowledge \in Nat /\ clServerId \in Nat
      /\ reliableAcknowledge <= reliableSequence'
      /\ lastClientCommand \in Nat /\ lastClientCommand' \in Nat
  BY BoundsAssumption DEF CommandsInv, TypeOK, Monotone
<1>3. /\ p.serverId = clServerId /\ p.asOf = reliableSequence'
      /\ p.commands = [i \in reliableAcknowledge + 1 .. reliableSequence'
                            |-> reliableCommands'[Slot(i)]]
  BY <1>1 DEF Packet, Outstanding
<1>4. p.commands \in CommandsOf(reliableAcknowledge, p.asOf)
  BY <1>2, <1>3 DEF CommandsOf, RingInv
<1>5. p \in Packets
  <2>1. p.commands \in UNION {CommandsOf(ab[1], ab[2]) : ab \in Nat \X Nat}
    <3>. DEFINE ab == <<reliableAcknowledge, reliableSequence'>>
    <3>1. ab \in Nat \X Nat /\ p.commands \in CommandsOf(ab[1], ab[2])
      BY <1>2, <1>3, <1>4
    <3>. QED  BY <3>1
  <2>. QED  BY <1>1, <1>2, <1>3, <2>1 DEF Packets, Packet
<1>6. PacketOK(p)'
  <2>1. ASSUME Intact' PROVE reliableAcknowledge <= lastClientCommand'
    BY <1>2, <2>1, IntactBefore DEF CommandsInv, ServerInv, Monotone
  <2>2. ASSUME Intact', NEW i \in DOMAIN p.commands PROVE p.commands[i] = issued'[i]
    <3>1. i \in reliableAcknowledge + 1 .. reliableSequence'
      BY <1>3
    <3>2. i > reliableSequence' - MAX_RELIABLE_COMMANDS
      <4>1. reliableSequence' - reliableAcknowledge <= peak' /\ peak' <= MAX_RELIABLE_COMMANDS
        BY <2>2 DEF Intact
      <4>2. peak' \in Int /\ MAX_RELIABLE_COMMANDS \in Int
        BY RingAssumption DEF Monotone
      <4>3. /\ i \in Int /\ i > reliableAcknowledge
            /\ reliableSequence' \in Int /\ reliableAcknowledge \in Int
        BY <1>2, <3>1
      <4>. QED  BY <4>1, <4>2, <4>3, NotYetOverwritten
    <3>3. reliableCommands'[Slot(i)] = Text(i)'
      BY <1>2, <3>1, <3>2 DEF RingInv
    <3>. QED  BY <1>2, <1>3, <3>1, <3>3 DEF Text
  <2>3. reliableAcknowledge \in 0 .. p.asOf /\ p.asOf <= reliableSequence'
    BY <1>2, <1>3
  <2>. QED  BY <1>4, <2>1, <2>2, <2>3 DEF PacketOK
<1>7. CASE toServer' = toServer
  BY <1>7, PacketsStay DEF CommandsInv, ExtraTypes
<1>8. CASE toServer' = Send(toServer, p)
  <2>1. toServer \in Seq(Packets) /\ Len(toServer) \in Nat
    BY DEF CommandsInv, ExtraTypes
  <2>2. toServer' \in Seq(Packets)
    BY <1>5, <1>8, <2>1, SendElements
  <2>. DEFINE after == Send(toServer, p)
  <2>3. PICK d \in {0, 1} :
            /\ Len(after) = Len(toServer) - d + 1
            /\ \A k \in 1 .. Len(toServer) - d : after[k] = toServer[k + d]
            /\ after[Len(toServer) - d + 1] = p
    BY <1>5, <2>1, SendElements
  <2>. HIDE DEF after
  <2>0. toServer' = after
    BY <1>8 DEF after
  <2>4. ASSUME NEW k \in 1 .. Len(toServer') PROVE PacketOK(toServer[k])'
    <3>1. CASE k = Len(toServer) - d + 1
      BY <1>6, <2>0, <2>3, <3>1
    <3>2. CASE k # Len(toServer) - d + 1
      <4>1. k \in 1 .. Len(toServer) - d /\ k + d \in 1 .. Len(toServer)
        BY <2>0, <2>1, <2>3, <3>2
      <4>2. PICK q \in Packets : q = toServer[k + d]
        BY <2>1, <4>1
      <4>3. PacketOK(q)'
        BY <4>1, <4>2, PacketStays DEF CommandsInv, PacketInv
      <4>. QED  BY <2>0, <2>3, <4>1, <4>2, <4>3
    <3>. QED  BY <3>1, <3>2
  <2>. QED  BY <2>2, <2>4 DEF PacketInv
<1>. QED  BY <1>1, <1>7, <1>8 DEF WritePacket

LEMMA AddStep ==
    ASSUME CommandsInv, NEW cmd \in Command, AddReliableCommand(cmd),
           UNCHANGED <<reliableAcknowledge, serverVars, executed, moved, lost>>
    PROVE  /\ Monotone /\ RingInv' /\ ServerInv'
           /\ reliableSequence - reliableAcknowledge <= MAX_RELIABLE_COMMANDS
           /\ reliableSequence' = reliableSequence + 1
           /\ reliableSequence' - reliableAcknowledge <= peak'
           /\ reliableCommands' \in [0 .. MAX_RELIABLE_COMMANDS - 1 -> Command \union {NoCommand}]
<1>1. TypeOK /\ peak \in Nat /\ RingInv /\ reliableSequence \in Nat /\ serverId \in Nat
      /\ lastClientCommand \in Nat /\ reliableAcknowledge \in Nat
  BY BoundsAssumption DEF CommandsInv, TypeOK, ExtraTypes
<1>2. /\ reliableSequence - reliableAcknowledge <= MAX_RELIABLE_COMMANDS
      /\ reliableSequence' = reliableSequence + 1
      /\ reliableCommands' \in [0 .. MAX_RELIABLE_COMMANDS - 1 -> Command \union {NoCommand}]
      /\ issued' \in Seq(Command) /\ Len(issued') = reliableSequence + 1
      /\ \A i \in 1 .. reliableSequence : issued'[i] = issued[i]
      /\ peak' \in Nat /\ peak <= peak' /\ reliableSequence + 1 - reliableAcknowledge <= peak'
      /\ RingInv'
  BY <1>1, AddFacts
<1>3. Monotone
  BY <1>1, <1>2 DEF Monotone, serverVars
<1>4. reliableSequence' - reliableAcknowledge <= peak'
  BY <1>1, <1>2
<1>5. ServerInv'
  BY <1>3, <1>4, ServerStays DEF serverVars
<1>. QED  BY <1>2, <1>3, <1>4, <1>5

\* A step that changes no more than the programs' states and the map.
LEMMA FrameInv ==
    ASSUME CommandsInv,
           clState' \in {"CONNECTED", "DISCONNECTED", "CRASHED"}, state' \in {"ACTIVE", "ZOMBIE"},
           serverId' \in serverId .. MaxServerId,
           UNCHANGED <<clServerId, reliableSequence, reliableAcknowledge, reliableCommands,
                       lastClientCommand, lastClientCommandString, toServer, toClient,
                       historyVars>>
    PROVE  CommandsInv'
<1>1. serverId \in 1 .. MaxServerId /\ MaxServerId \in Nat /\ peak \in Nat
      /\ reliableSequence \in Nat /\ lastClientCommand \in Nat /\ clServerId \in Nat
  BY BoundsAssumption DEF CommandsInv, TypeOK, ExtraTypes
<1>2. Monotone
  BY <1>1 DEF Monotone, CommandsInv, TypeOK, ExtraTypes, historyVars
<1>3. TypeOK'
  BY <1>1 DEF CommandsInv, TypeOK, historyVars
<1>4. ExtraTypes'
  BY DEF CommandsInv, ExtraTypes, historyVars
<1>5. RingInv' /\ ServerInv'
  BY DEF CommandsInv, RingInv, ServerInv, Intact, Text, historyVars
<1>6. PacketInv' /\ MessageInv'
  BY <1>2, PacketsStay, MessagesStay DEF historyVars
<1>. QED  BY <1>3, <1>4, <1>5, <1>6 DEF CommandsInv

LEMMA AddInv ==
    ASSUME CommandsInv, CL_AddReliableCommand
    PROVE  CommandsInv'
<1>1. CASE RecursiveError
  <2>1. serverId' \in serverId .. MaxServerId /\ state' \in {"ACTIVE", "ZOMBIE"}
    BY BoundsAssumption DEF CommandsInv, TypeOK, CL_AddReliableCommand, serverVars
  <2>. QED  BY <1>1, <2>1, FrameInv DEF CL_AddReliableCommand, RecursiveError, serverVars, historyVars
<1>2. CASE AddReliableCommand(Len(issued) + 1) /\ UNCHANGED <<clState, toServer>>
  <2>1. Len(issued) + 1 \in Command /\ reliableSequence \in Nat /\ reliableAcknowledge \in Nat
    BY BoundsAssumption DEF CommandsInv, TypeOK, Command, CL_AddReliableCommand
  <2>2. /\ Monotone /\ RingInv' /\ ServerInv'
        /\ reliableSequence - reliableAcknowledge <= MAX_RELIABLE_COMMANDS
        /\ reliableSequence' = reliableSequence + 1
        /\ reliableCommands' \in [0 .. MAX_RELIABLE_COMMANDS - 1 -> Command \union {NoCommand}]
    BY <1>2, <2>1, AddStep DEF CL_AddReliableCommand
  <2>3. TypeOK'
    BY <1>2, <2>1, <2>2, RingAssumption
       DEF CL_AddReliableCommand, CommandsInv, TypeOK, serverVars, Monotone
  <2>4. ExtraTypes'
    BY <1>2, <2>2 DEF CL_AddReliableCommand, CommandsInv, ExtraTypes, Monotone
  <2>5. PacketInv' /\ MessageInv'
    BY <1>2, <2>2, PacketsStay, MessagesStay DEF CL_AddReliableCommand
  <2>. QED  BY <2>2, <2>3, <2>4, <2>5 DEF CommandsInv
<1>. QED  BY <1>1, <1>2 DEF CL_AddReliableCommand

LEMMA WritePacketInv ==
    ASSUME CommandsInv, CL_WritePacket
    PROVE  CommandsInv'
<1>1. Monotone
  BY BoundsAssumption DEF CL_WritePacket, CommandsInv, TypeOK, ExtraTypes, Monotone, clientVars,
                          serverVars, historyVars
<1>2. RingInv' /\ ServerInv' /\ TypeOK'
  BY DEF CL_WritePacket, clientVars, serverVars, historyVars, CommandsInv, RingInv, ServerInv, Intact,
         Text, TypeOK
<1>3. /\ reliableCommands' \in [0 .. MAX_RELIABLE_COMMANDS - 1 -> Command \union {NoCommand}]
      /\ Intact' => reliableSequence' - reliableAcknowledge <= peak'
  BY DEF CL_WritePacket, clientVars, historyVars, CommandsInv, ServerInv, TypeOK, Intact
<1>4. WritePacket(reliableSequence', reliableCommands')
  BY DEF CL_WritePacket, clientVars
<1>5. toServer' \in Seq(Packets) /\ PacketInv'
  BY <1>1, <1>2, <1>3, <1>4, WriteInv
<1>6. MessageInv'
  BY <1>1, MessagesStay DEF CL_WritePacket, clientVars
<1>7. ExtraTypes'
  BY <1>5 DEF CL_WritePacket, historyVars, CommandsInv, ExtraTypes
<1>. QED  BY <1>2, <1>5, <1>6, <1>7 DEF CommandsInv

\* The command of a disconnect and the packet that carries it: all but what the client
\* has received.
LEMMA DisconnectStep ==
    ASSUME CommandsInv, DisconnectFromServer,
           UNCHANGED <<clServerId, reliableAcknowledge, serverVars, executed, moved, lost>>
    PROVE  /\ TypeOK' /\ Monotone /\ RingInv' /\ ServerInv' /\ PacketInv'
           /\ toServer' \in Seq(Packets)
<1>1. CASE RecursiveError
  <2>1. serverId \in Nat /\ reliableSequence \in Nat /\ lastClientCommand \in Nat /\ peak \in Nat
    BY BoundsAssumption DEF CommandsInv, TypeOK, ExtraTypes
  <2>2. Monotone
    BY <1>1, <2>1 DEF RecursiveError, CommandsInv, TypeOK, Monotone, serverVars
  <2>3. TypeOK' /\ toServer' \in Seq(Packets)
    BY <1>1 DEF RecursiveError, CommandsInv, TypeOK, ExtraTypes, serverVars
  <2>4. RingInv' /\ ServerInv'
    BY <1>1 DEF RecursiveError, CommandsInv, RingInv, ServerInv, Intact, Text, serverVars
  <2>5. PacketInv'
    BY <1>1, <2>2, PacketsStay DEF RecursiveError
  <2>. QED  BY <2>2, <2>3, <2>4, <2>5
<1>2. CASE /\ AddReliableCommand(Disconnect)
           /\ WritePacket(reliableSequence', reliableCommands')
           /\ clState' = "DISCONNECTED"
  <2>1. Disconnect \in Command /\ reliableSequence \in Nat /\ reliableAcknowledge \in Nat
    BY BoundsAssumption DEF CommandsInv, TypeOK, Command, Disconnect
  <2>2. /\ Monotone /\ RingInv' /\ ServerInv'
        /\ reliableSequence - reliableAcknowledge <= MAX_RELIABLE_COMMANDS
        /\ reliableSequence' = reliableSequence + 1
        /\ reliableSequence' - reliableAcknowledge <= peak'
        /\ reliableCommands' \in [0 .. MAX_RELIABLE_COMMANDS - 1 -> Command \union {NoCommand}]
    BY <1>2, <2>1, AddStep
  <2>3. TypeOK'
    BY SMTT(30), <1>2, <2>1, <2>2, RingAssumption DEF CommandsInv, TypeOK, serverVars, Monotone
  <2>4. toServer' \in Seq(Packets) /\ PacketInv'
    BY <1>2, <2>2, WriteInv
  <2>. QED  BY <2>2, <2>3, <2>4
<1>. QED  BY <1>1, <1>2 DEF DisconnectFromServer

LEMMA DisconnectInv ==
    ASSUME CommandsInv, CL_Disconnect
    PROVE  CommandsInv'
<1>1. /\ TypeOK' /\ Monotone /\ RingInv' /\ ServerInv' /\ PacketInv'
      /\ toServer' \in Seq(Packets)
  BY DisconnectStep DEF CL_Disconnect
<1>2. MessageInv'
  BY <1>1, MessagesStay DEF CL_Disconnect
<1>3. ExtraTypes'
  BY <1>1 DEF CL_Disconnect, CommandsInv, ExtraTypes, Monotone
<1>. QED  BY <1>1, <1>2, <1>3 DEF CommandsInv

-----------------------------------------------------------------------------
(***************************************************************************)
(* The server's steps.                                                     *)
(***************************************************************************)
\* Receiving a packet loses the ones before it.
LEMMA PacketsShift ==
    ASSUME CommandsInv, Monotone, NEW n \in 1 .. Len(toServer), toServer' = After(toServer, n)
    PROVE  toServer' \in Seq(Packets) /\ PacketInv'
<1>1. toServer \in Seq(Packets) /\ Len(toServer) \in Nat
  BY DEF CommandsInv, ExtraTypes
<1>2. /\ toServer' \in Seq(Packets)
      /\ Len(toServer') = Len(toServer) - n
      /\ \A i \in 1 .. Len(toServer) - n : toServer'[i] = toServer[i + n]
  BY <1>1, AfterElements
<1>3. ASSUME NEW k \in 1 .. Len(toServer') PROVE PacketOK(toServer[k])'
  <2>1. k + n \in 1 .. Len(toServer) /\ toServer'[k] = toServer[k + n]
    BY <1>1, <1>2
  <2>2. PICK p \in Packets : p = toServer[k + n]
    BY <1>1, <2>1
  <2>3. PacketOK(p)'
    BY <2>1, <2>2, PacketStays DEF CommandsInv, PacketInv
  <2>. QED  BY <2>1, <2>2, <2>3
<1>. QED  BY <1>2, <1>3 DEF PacketInv

LEMMA MessagesShift ==
    ASSUME CommandsInv, Monotone, NEW n \in 1 .. Len(toClient), toClient' = After(toClient, n),
           UNCHANGED reliableAcknowledge
    PROVE  toClient' \in Seq(Messages) /\ MessageInv'
<1>1. toClient \in Seq(Messages) /\ Len(toClient) \in Nat
  BY DEF CommandsInv, ExtraTypes
<1>2. /\ toClient' \in Seq(Messages)
      /\ Len(toClient') = Len(toClient) - n
      /\ \A i \in 1 .. Len(toClient) - n : toClient'[i] = toClient[i + n]
  BY <1>1, AfterElements
<1>3. ASSUME NEW k \in 1 .. Len(toClient') PROVE MessageOK(toClient[k])'
  <2>1. k + n \in 1 .. Len(toClient) /\ toClient'[k] = toClient[k + n]
    BY <1>1, <1>2
  <2>2. PICK m \in Messages : m = toClient[k + n]
    BY <1>1, <2>1
  <2>3. MessageOK(m)'
    BY <2>1, <2>2, MessageStays DEF CommandsInv, MessageInv
  <2>. QED  BY <2>1, <2>2, <2>3
<1>4. ASSUME Intact', NEW j \in 1 .. Len(toClient'), NEW k \in 1 .. Len(toClient'), j < k
      PROVE  toClient'[j].acknowledge <= toClient'[k].acknowledge
  <2>1. /\ j + n \in 1 .. Len(toClient) /\ k + n \in 1 .. Len(toClient) /\ j + n < k + n
        /\ toClient'[j] = toClient[j + n] /\ toClient'[k] = toClient[k + n]
    BY <1>1, <1>2, <1>4
  <2>2. Intact
    BY <1>4, IntactBefore
  <2>. QED  BY <2>1, <2>2 DEF CommandsInv, MessageInv
<1>. QED  BY <1>2, <1>3, <1>4 DEF MessageInv

\* A message of the server acknowledges what it has executed so far.
LEMMA MessageSent ==
    ASSUME CommandsInv, Monotone, NEW gamestate \in BOOLEAN,
           toClient' = Send(toClient, ServerMessage(gamestate)),
           UNCHANGED <<reliableAcknowledge, lastClientCommand, lastClientCommandString>>
    PROVE  toClient' \in Seq(Messages) /\ MessageInv'
<1>. DEFINE m == ServerMessage(gamestate)
<1>1. /\ toClient \in Seq(Messages) /\ Len(toClient) \in Nat
      /\ lastClientCommand \in Nat /\ lastClientCommand <= reliableSequence
      /\ lastClientCommandString \in Command \union {NoCommand} /\ serverId \in Nat
  BY BoundsAssumption DEF CommandsInv, TypeOK, ExtraTypes
<1>2. /\ m \in Messages /\ m.acknowledge = lastClientCommand
      /\ m.key = lastClientCommandString /\ m.serverId <= serverId
  BY <1>1 DEF ServerMessage, Messages
<1>3. MessageOK(m)
  BY <1>1, <1>2 DEF MessageOK, CommandsInv, ServerInv
<1>. HIDE DEF m
<1>. DEFINE after == Send(toClient, m)
<1>4. after \in Seq(Messages)
  BY <1>1, <1>2, SendElements
<1>5. PICK d \in {0, 1} :
          /\ Len(after) = Len(toClient) - d + 1
          /\ \A k \in 1 .. Len(toClient) - d : after[k] = toClient[k + d]
          /\ after[Len(toClient) - d + 1] = m
  BY <1>1, <1>2, SendElements
<1>6. toClient' = after
  BY DEF m
<1>. HIDE DEF after
<1>7. ASSUME NEW k \in 1 .. Len(after)
      PROVE  /\ after[k] \in Messages /\ MessageOK(after[k])
             /\ \/ k = Len(toClient) - d + 1 /\ after[k] = m
                \/ k + d \in 1 .. Len(toClient) /\ after[k] = toClient[k + d]
  <2>1. CASE k = Len(toClient) - d + 1
    BY <1>2, <1>3, <1>5, <2>1
  <2>2. CASE k # Len(toClient) - d + 1
    <3>1. k \in 1 .. Len(toClient) - d /\ k + d \in 1 .. Len(toClient)
      BY <1>1, <1>5, <2>2
    <3>2. after[k] = toClient[k + d]
      BY <1>5, <3>1
    <3>. QED  BY <1>1, <3>1, <3>2 DEF CommandsInv, MessageInv
  <2>. QED  BY <2>1, <2>2
<1>8. ASSUME NEW k \in 1 .. Len(toClient') PROVE MessageOK(toClient[k])'
  <2>1. PICK q \in Messages : q = toClient'[k] /\ MessageOK(q)
    BY <1>6, <1>7
  <2>2. MessageOK(q)'
    BY <2>1, MessageStays
  <2>. QED  BY <2>1, <2>2
<1>9. ASSUME Intact', NEW j \in 1 .. Len(toClient'), NEW k \in 1 .. Len(toClient'), j < k
      PROVE  toClient'[j].acknowledge <= toClient'[k].acknowledge
  <2>1. Intact
    BY <1>9, IntactBefore
  <2>2. j # Len(toClient) - d + 1
    BY <1>1, <1>5, <1>6, <1>9
  <2>3. j + d \in 1 .. Len(toClient) /\ after[j] = toClient[j + d]
    BY <1>6, <1>7, <2>2
  <2>4. CASE after[k] = m
    <3>1. MessageOK(after[j])
      BY <1>6, <1>7
    <3>. QED  BY <1>2, <1>6, <2>1, <2>4, <3>1 DEF MessageOK
  <2>5. CASE k + d \in 1 .. Len(toClient) /\ after[k] = toClient[k + d]
    <3>1. j + d < k + d
      BY <1>1, <1>5, <1>6, <1>9
    <3>. QED  BY <1>6, <2>1, <2>3, <2>5, <3>1 DEF CommandsInv, MessageInv
  <2>. QED  BY <1>6, <1>7, <2>4, <2>5
<1>. QED  BY <1>4, <1>6, <1>8, <1>9 DEF MessageInv

\* The commands of a packet the server has not executed are the last ones of it.
LEMMA FreshCommands ==
    ASSUME CommandsInv, NEW p \in Packets, PacketOK(p)
    PROVE  \E f \in Nat \ {0} :
              /\ Fresh(p.commands) = f .. p.asOf
              /\ p.commands \in [DOMAIN p.commands -> Command]
              /\ f .. p.asOf \subseteq DOMAIN p.commands
              /\ f > lastClientCommand
              /\ Intact => f = lastClientCommand + 1
<1>1. PICK a \in 0 .. p.asOf : /\ p.commands \in CommandsOf(a, p.asOf)
                               /\ Intact => a <= lastClientCommand
  BY DEF PacketOK
<1>2. p.asOf \in Nat /\ a \in Nat /\ lastClientCommand \in Nat
  BY DEF Packets, CommandsInv, TypeOK
<1>3. DOMAIN p.commands = a + 1 .. p.asOf /\ p.commands \in [a + 1 .. p.asOf -> Command]
  BY <1>1 DEF CommandsOf
<1>. DEFINE f == IF a <= lastClientCommand THEN lastClientCommand + 1 ELSE a + 1
<1>4. f \in Nat \ {0} /\ f > lastClientCommand /\ f >= a + 1
  BY <1>2
<1>5. Fresh(p.commands) = f .. p.asOf
  BY <1>2, <1>3 DEF Fresh
<1>6. Intact => f = lastClientCommand + 1
  BY <1>1
<1>7. f .. p.asOf \subseteq a + 1 .. p.asOf
  BY <1>2, <1>4
<1>. HIDE DEF f
<1>. QED  BY <1>3, <1>4, <1>5, <1>6, <1>7

LEMMA NoGap ==
    ASSUME CommandsInv, NEW p \in Packets, PacketOK(p), Intact
    PROVE  ~LostCommands(p)
<1>1. PICK f \in Nat \ {0} : Fresh(p.commands) = f .. p.asOf /\ f = lastClientCommand + 1
  BY FreshCommands
<1>2. p.asOf \in Nat
  BY DEF Packets
<1>3. CASE f <= p.asOf
  BY <1>1, <1>2, <1>3, MinOfInterval DEF LostCommands
<1>4. CASE f > p.asOf
  <2>1. Fresh(p.commands) = {}
    BY <1>1, <1>2, <1>4
  <2>. QED  BY <2>1 DEF LostCommands
<1>. QED  BY <1>1, <1>2, <1>3, <1>4

LEMMA ExecuteFacts ==
    ASSUME CommandsInv, NEW p \in Packets, PacketOK(p), ExecuteCommandsAndMove(p)
    PROVE  /\ lastClientCommand' \in lastClientCommand .. reliableSequence
           /\ lastClientCommandString' \in Command \union {NoCommand}
           /\ executed' \in Seq(Command)
           /\ state' \in {"ACTIVE", "ZOMBIE"}
           /\ moved' \in Nat
           /\ Intact => /\ executed' = SubSeq(issued, 1, lastClientCommand')
                        /\ lastClientCommandString' = Text(lastClientCommand')
                        /\ moved' <= lastClientCommand'
<1>. DEFINE fresh == Fresh(p.commands)
            texts == [k \in 1 .. Cardinality(fresh) |-> p.commands[Min(fresh) + k - 1]]
<1>1. /\ executed' = executed \o texts
      /\ lastClientCommand' = Max({lastClientCommand} \union fresh)
      /\ lastClientCommandString' =
            IF fresh = {} THEN lastClientCommandString ELSE p.commands[Max(fresh)]
      /\ state' \in {"ZOMBIE", state}
      /\ moved' \in {moved, p.asOf}
  BY DEF ExecuteCommandsAndMove
<1>2. PICK f \in Nat \ {0} :
            /\ fresh = f .. p.asOf
            /\ p.commands \in [DOMAIN p.commands -> Command]
            /\ f .. p.asOf \subseteq DOMAIN p.commands
            /\ f > lastClientCommand
            /\ Intact => f = lastClientCommand + 1
  BY FreshCommands
<1>3. /\ p.asOf \in Nat /\ p.asOf <= reliableSequence /\ reliableSequence \in Nat
      /\ lastClientCommand \in 0 .. reliableSequence /\ moved \in Nat
      /\ issued \in Seq(Command) /\ Len(issued) = reliableSequence
      /\ executed \in Seq(Command) /\ state \in {"ACTIVE", "ZOMBIE"}
      /\ lastClientCommandString \in Command \union {NoCommand}
  BY DEF Packets, PacketOK, CommandsInv, TypeOK, ExtraTypes
<1>4. Intact => /\ executed = SubSeq(issued, 1, lastClientCommand)
                /\ lastClientCommandString = Text(lastClientCommand)
                /\ moved <= lastClientCommand
  BY DEF CommandsInv, ServerInv
<1>5. state' \in {"ACTIVE", "ZOMBIE"} /\ moved' \in Nat
  BY <1>1, <1>3
<1>. HIDE DEF fresh, texts
<1>6. CASE f > p.asOf
  <2>1. fresh = {}
    BY <1>2, <1>3, <1>6
  <2>2. Cardinality({}) = 0
    BY FS_EmptySet
  <2>3. texts = <<>>
    BY <2>1, <2>2 DEF texts
  <2>4. executed' = executed
    BY <1>1, <1>3, <2>3, ConcatEmptySeq
  <2>5. lastClientCommand' = lastClientCommand
    <3>1. {lastClientCommand} \union {} = {lastClientCommand, lastClientCommand}
      OBVIOUS
    <3>. QED  BY <1>1, <1>3, <2>1, <3>1, MaxOfPair
  <2>6. lastClientCommandString' = lastClientCommandString
    BY <1>1, <2>1
  <2>7. Text(lastClientCommand') = Text(lastClientCommand)
    BY <2>5
  <2>8. Intact => moved' <= lastClientCommand'
    BY <1>1, <1>2, <1>3, <1>4, <1>6, <2>5
  <2>. QED  BY <1>3, <1>4, <1>5, <2>4, <2>5, <2>6, <2>7, <2>8
<1>7. CASE f <= p.asOf
  <2>1. Cardinality(fresh) = p.asOf - f + 1 /\ Min(fresh) = f /\ Max(fresh) = p.asOf
    <3>1. f \in Int /\ p.asOf \in Int
      BY <1>3
    <3>2. Cardinality(f .. p.asOf) = p.asOf - f + 1
      BY <1>3, <1>7, <3>1, FS_Interval
    <3>3. Min(f .. p.asOf) = f /\ Max(f .. p.asOf) = p.asOf
      BY <1>7, <3>1, MinOfInterval, MaxOfInterval
    <3>. QED  BY <1>2, <3>2, <3>3
  <2>2. lastClientCommand' = p.asOf
    <3>1. /\ lastClientCommand \in Int /\ f \in Int /\ p.asOf \in Int
          /\ lastClientCommand <= p.asOf
      BY <1>2, <1>3, <1>7
    <3>2. Max({lastClientCommand} \union (f .. p.asOf)) = p.asOf
      BY SMTT(30), <1>7, <3>1, MaxOfExtended
    <3>. QED  BY <1>1, <1>2, <3>2
  <2>3. lastClientCommandString' = p.commands[p.asOf] /\ p.asOf \in DOMAIN p.commands
    BY <1>1, <1>2, <1>3, <1>7, <2>1
  <2>4. p.asOf - f + 1 \in Nat
    BY <1>3, <1>7
  <2>5. ASSUME NEW k \in 1 .. p.asOf - f + 1
        PROVE  p.commands[f + k - 1] \in Command /\ f + k - 1 \in DOMAIN p.commands
    <3>1. f + k - 1 \in f .. p.asOf
      BY <1>3, <1>7
    <3>. QED  BY <1>2, <3>1
  <2>6. /\ texts = [k \in 1 .. p.asOf - f + 1 |-> p.commands[f + k - 1]]
        /\ texts \in Seq(Command) /\ Len(texts) = p.asOf - f + 1
    BY <2>1, <2>4, <2>5 DEF texts
  <2>7. executed' \in Seq(Command)
    BY <1>1, <1>3, <2>6, ConcatProperties
  <2>8. lastClientCommandString' \in Command
    BY <1>2, <2>3
  <2>9. ASSUME Intact
        PROVE  /\ executed' = SubSeq(issued, 1, p.asOf)
               /\ lastClientCommandString' = Text(p.asOf)
               /\ moved' <= p.asOf
    <3>1. \A i \in DOMAIN p.commands : p.commands[i] = issued[i]
      BY <2>9 DEF PacketOK
    <3>2. f = lastClientCommand + 1 /\ p.asOf - f + 1 \in 0 .. Len(issued) - lastClientCommand
      BY <1>2, <1>3, <1>7, <2>9
    <3>3. ASSUME NEW k \in 1 .. p.asOf - f + 1 PROVE texts[k] = issued[lastClientCommand + k]
      <4>1. texts[k] = issued[f + k - 1]
        BY <2>5, <2>6, <3>1
      <4>2. f + k - 1 = lastClientCommand + k
        BY <1>3, <3>2
      <4>. QED  BY <4>1, <4>2
    <3>4. SubSeq(issued, 1, lastClientCommand) \o texts
              = SubSeq(issued, 1, lastClientCommand + (p.asOf - f + 1))
      BY ZenonT(30), <1>3, <2>6, <3>2, <3>3, LongerPrefix
    <3>5. lastClientCommand + (p.asOf - f + 1) = p.asOf
      BY SMTT(30), <1>3, <3>2
    <3>6. executed' = SubSeq(issued, 1, p.asOf)
      BY <1>1, <1>4, <2>9, <3>4, <3>5
    <3>7. lastClientCommandString' = Text(p.asOf)
      BY <1>3, <1>7, <2>3, <3>1 DEF Text
    <3>8. moved' <= p.asOf
      BY <1>1, <1>2, <1>3, <1>4, <1>7, <2>9
    <3>. QED  BY <3>6, <3>7, <3>8
  <2>. QED  BY <1>3, <1>5, <1>7, <2>2, <2>7, <2>8, <2>9, <1>2
<1>. QED  BY <1>3, <1>6, <1>7

LEMMA ExecuteStep ==
    ASSUME CommandsInv, NEW p \in Packets, PacketOK(p),
           DropForLostCommands(p) \/ ExecuteCommandsAndMove(p),
           UNCHANGED <<clientVars, serverId, issued, peak>>
    PROVE  /\ Monotone /\ ServerInv' /\ TypeOK'
           /\ moved' \in Nat /\ lost' \in BOOLEAN
<1>1. /\ reliableSequence \in Nat /\ serverId \in Nat /\ peak \in Nat
      /\ lastClientCommand \in 0 .. reliableSequence /\ moved \in Nat /\ lost \in BOOLEAN
  BY BoundsAssumption DEF CommandsInv, TypeOK, ExtraTypes
<1>2. CASE DropForLostCommands(p)
  <2>1. ~Intact
    BY <1>2, NoGap DEF DropForLostCommands
  <2>2. Monotone
    BY <1>1, <1>2 DEF DropForLostCommands, CommandsInv, TypeOK, Monotone, clientVars
  <2>3. TypeOK'
    BY <1>2 DEF DropForLostCommands, CommandsInv, TypeOK, clientVars
  <2>4. ServerInv'
    BY <2>1 DEF ServerInv, Intact
  <2>. QED  BY <1>1, <1>2, <2>2, <2>3, <2>4 DEF DropForLostCommands
<1>3. CASE ExecuteCommandsAndMove(p)
  <2>1. /\ lastClientCommand' \in lastClientCommand .. reliableSequence
        /\ lastClientCommandString' \in Command \union {NoCommand}
        /\ executed' \in Seq(Command)
        /\ state' \in {"ACTIVE", "ZOMBIE"}
        /\ moved' \in Nat
        /\ Intact => /\ executed' = SubSeq(issued, 1, lastClientCommand')
                     /\ lastClientCommandString' = Text(lastClientCommand')
                     /\ moved' <= lastClientCommand'
    BY <1>3, ExecuteFacts
  <2>2. lost' = lost
    BY <1>3 DEF ExecuteCommandsAndMove
  <2>3. Monotone
    BY <1>1, <2>1 DEF CommandsInv, TypeOK, Monotone, clientVars
  <2>4. TypeOK'
    BY <1>1, <2>1 DEF CommandsInv, TypeOK, clientVars
  <2>5. ServerInv'
    <3>. SUFFICES ASSUME Intact' PROVE ServerInv'
      BY DEF ServerInv
    <3>1. Intact
      BY DEF Intact
    <3>2. Text(lastClientCommand)' = Text(lastClientCommand')
      BY DEF Text
    <3>3. /\ reliableSequence - reliableAcknowledge <= peak
          /\ reliableAcknowledge <= lastClientCommand'
          /\ ~lost
      BY <1>1, <2>1, <3>1 DEF CommandsInv, ServerInv, TypeOK
    <3>. QED  BY <2>1, <2>2, <3>1, <3>2, <3>3 DEF ServerInv, clientVars
  <2>. QED  BY <1>1, <2>1, <2>2, <2>3, <2>4, <2>5
<1>. QED  BY <1>2, <1>3

LEMMA ExecuteMessageInv ==
    ASSUME CommandsInv, SV_ExecuteClientMessage
    PROVE  CommandsInv'
<1>1. PICK k \in 1 .. Len(toServer) :
          LET m == toServer[k]
          IN  /\ toServer' = After(toServer, k)
              /\ \/ /\ state = "ZOMBIE"
                    /\ UNCHANGED <<state, lastClientCommand, lastClientCommandString,
                                   toClient, executed, moved, lost>>
                 \/ /\ state # "ZOMBIE"
                    /\ IgnoreOtherMap(m)
                    /\ \/ UNCHANGED toClient
                       \/ toClient' = Send(toClient, ServerMessage(TRUE))
                 \/ /\ state # "ZOMBIE"
                    /\ m.serverId = serverId
                    /\ DropForLostCommands(m) \/ ExecuteCommandsAndMove(m)
                    /\ UNCHANGED toClient
  BY DEF SV_ExecuteClientMessage
<1>2. UNCHANGED <<clientVars, serverId, issued, peak>>
  BY DEF SV_ExecuteClientMessage
<1>3. PICK m \in Packets : m = toServer[k] /\ PacketOK(m)
  BY DEF CommandsInv, ExtraTypes, PacketInv
<1>4. /\ Monotone /\ ServerInv' /\ TypeOK'
      /\ moved' \in Nat /\ lost' \in BOOLEAN
      /\ \/ UNCHANGED toClient
         \/ toClient' = Send(toClient, ServerMessage(TRUE))
            /\ UNCHANGED <<lastClientCommand, lastClientCommandString>>
  <2>1. CASE UNCHANGED <<state, lastClientCommand, lastClientCommandString, executed, moved, lost>>
    <3>1. Monotone
      BY <1>2, <2>1, BoundsAssumption
         DEF CommandsInv, TypeOK, ExtraTypes, Monotone, clientVars
    <3>2. TypeOK' /\ moved' \in Nat /\ lost' \in BOOLEAN
      BY <1>2, <2>1 DEF CommandsInv, TypeOK, ExtraTypes, clientVars
    <3>3. ServerInv'
      BY <1>2, <2>1 DEF CommandsInv, ServerInv, Intact, Text, clientVars
    <3>4. \/ UNCHANGED toClient
          \/ toClient' = Send(toClient, ServerMessage(TRUE))
             /\ UNCHANGED <<lastClientCommand, lastClientCommandString>>
      BY <1>1, <2>1
    <3>. QED  BY <3>1, <3>2, <3>3, <3>4
  <2>2. CASE (DropForLostCommands(m) \/ ExecuteCommandsAndMove(m)) /\ UNCHANGED toClient
    BY <1>2, <1>3, <2>2, ExecuteStep
  <2>. QED  BY <1>1, <1>3, <2>1, <2>2 DEF IgnoreOtherMap
<1>5. toServer' \in Seq(Packets) /\ PacketInv'
  BY <1>1, <1>4, PacketsShift
<1>6. toClient' \in Seq(Messages) /\ MessageInv'
  <2>1. CASE UNCHANGED toClient
    BY <1>2, <1>4, <2>1, MessagesStay DEF clientVars, CommandsInv, ExtraTypes
  <2>2. CASE /\ toClient' = Send(toClient, ServerMessage(TRUE))
             /\ UNCHANGED <<lastClientCommand, lastClientCommandString>>
    BY <1>2, <1>4, <2>2, MessageSent DEF clientVars
  <2>. QED  BY <1>4, <2>1, <2>2
<1>7. RingInv'
  BY <1>2 DEF CommandsInv, RingInv, Text, clientVars
<1>8. ExtraTypes'
  BY <1>2, <1>4, <1>5, <1>6 DEF CommandsInv, ExtraTypes
<1>. QED  BY <1>4, <1>5, <1>6, <1>7, <1>8 DEF CommandsInv

LEMMA SnapshotInv ==
    ASSUME CommandsInv, SV_SendClientSnapshot
    PROVE  CommandsInv'
<1>1. Monotone
  BY BoundsAssumption DEF SV_SendClientSnapshot, CommandsInv, TypeOK, ExtraTypes, Monotone,
                          clientVars, serverVars, historyVars
<1>2. RingInv' /\ ServerInv' /\ TypeOK'
  BY DEF SV_SendClientSnapshot, clientVars, serverVars, historyVars, CommandsInv, RingInv,
         ServerInv, Intact, Text, TypeOK
<1>3. toClient' \in Seq(Messages) /\ MessageInv'
  BY <1>1, MessageSent DEF SV_SendClientSnapshot, clientVars, serverVars
<1>4. PacketInv'
  BY <1>1, PacketsStay DEF SV_SendClientSnapshot
<1>5. ExtraTypes'
  BY <1>3 DEF SV_SendClientSnapshot, historyVars, CommandsInv, ExtraTypes
<1>. QED  BY <1>2, <1>3, <1>4, <1>5 DEF CommandsInv

-----------------------------------------------------------------------------
(***************************************************************************)
(* The client receives.                                                    *)
(***************************************************************************)
\* An acknowledgement is taken as it is, unless it is older than the ring.
LEMMA AcknowledgeInv ==
    ASSUME CommandsInv, NEW k \in 1 .. Len(toClient), toClient' = After(toClient, k),
           reliableAcknowledge' = Acknowledged(toClient[k]),
           clServerId' = IF toClient[k].serverId = 0 THEN clServerId ELSE toClient[k].serverId,
           UNCHANGED <<clState, reliableSequence, reliableCommands, toServer, issued, peak,
                       serverVars, executed, moved, lost>>
    PROVE  CommandsInv'
<1>1. PICK m \in Messages : m = toClient[k] /\ MessageOK(m)
  BY DEF CommandsInv, ExtraTypes, MessageInv
<1>2. /\ m.acknowledge \in 0 .. reliableSequence /\ reliableSequence \in Nat
      /\ reliableAcknowledge \in 0 .. reliableSequence
      /\ MAX_RELIABLE_COMMANDS \in Nat \ {0}
      /\ lastClientCommand \in 0 .. reliableSequence
      /\ peak \in Nat /\ serverId \in Nat /\ m.serverId \in 0 .. serverId
  BY SMTT(30), <1>1, RingAssumption, BoundsAssumption DEF MessageOK, Messages, CommandsInv, TypeOK, ExtraTypes
<1>3. Monotone
  BY <1>2 DEF Monotone, CommandsInv, TypeOK, serverVars
<1>4. Intact => /\ reliableAcknowledge' = m.acknowledge
                /\ reliableAcknowledge <= m.acknowledge /\ m.acknowledge <= lastClientCommand
  <2>. SUFFICES ASSUME Intact
                PROVE  /\ reliableAcknowledge' = m.acknowledge
                       /\ reliableAcknowledge <= m.acknowledge
                       /\ m.acknowledge <= lastClientCommand
    OBVIOUS
  <2>1. reliableAcknowledge <= m.acknowledge /\ m.acknowledge <= lastClientCommand
    BY <1>1 DEF MessageOK
  <2>2. reliableSequence - reliableAcknowledge <= MAX_RELIABLE_COMMANDS
    BY <1>2 DEF CommandsInv, ServerInv, Intact
  <2>3. ~(m.acknowledge < reliableSequence - MAX_RELIABLE_COMMANDS)
    BY <1>2, <2>1, <2>2
  <2>. QED  BY <1>1, <2>1, <2>3 DEF Acknowledged
<1>5. /\ reliableAcknowledge' \in 0 .. reliableSequence
      /\ reliableSequence <= reliableAcknowledge' + MAX_RELIABLE_COMMANDS + 1
      /\ clServerId' \in 1 .. serverId
  <2>1. reliableAcknowledge' \in {m.acknowledge, reliableSequence}
        /\ (reliableAcknowledge' = m.acknowledge
                => ~(m.acknowledge < reliableSequence - MAX_RELIABLE_COMMANDS)
                   \/ m.acknowledge = reliableSequence)
    BY <1>1 DEF Acknowledged
  <2>2. clServerId' \in 1 .. serverId
    BY <1>1, <1>2 DEF CommandsInv, TypeOK
  <2>. QED  BY <1>2, <2>1, <2>2
<1>6. TypeOK'
  BY <1>2, <1>5 DEF CommandsInv, TypeOK, serverVars
<1>7. ServerInv'
  <2>. SUFFICES ASSUME Intact' PROVE ServerInv'
    BY DEF ServerInv
  <2>1. Intact
    BY <1>3, IntactBefore
  <2>2. reliableSequence - reliableAcknowledge <= peak
    BY <2>1 DEF CommandsInv, ServerInv
  <2>3. reliableSequence' - reliableAcknowledge' <= peak'
    BY <1>2, <1>4, <2>1, <2>2
  <2>4. Text(lastClientCommand)' = Text(lastClientCommand)
    BY DEF Text, serverVars
  <2>. QED  BY <1>4, <2>1, <2>3, <2>4 DEF CommandsInv, ServerInv, serverVars
<1>8. RingInv' /\ PacketInv'
  BY <1>3, PacketsStay DEF CommandsInv, RingInv, Text
<1>9. toClient \in Seq(Messages) /\ Len(toClient) \in Nat
  BY DEF CommandsInv, ExtraTypes
<1>10. /\ toClient' \in Seq(Messages)
       /\ Len(toClient') = Len(toClient) - k
       /\ \A i \in 1 .. Len(toClient) - k : toClient'[i] = toClient[i + k]
  BY <1>9, AfterElements
<1>11. ASSUME NEW j \in 1 .. Len(toClient') PROVE MessageOK(toClient[j])'
  <2>1. j + k \in 1 .. Len(toClient) /\ k < j + k /\ toClient'[j] = toClient[j + k]
    BY <1>9, <1>10
  <2>2. PICK q \in Messages : q = toClient[j + k] /\ MessageOK(q)
    BY <1>9, <2>1 DEF CommandsInv, MessageInv
  <2>3. Intact => m.acknowledge <= q.acknowledge
    BY <1>1, <2>1, <2>2 DEF CommandsInv, MessageInv
  <2>4. Text(q.acknowledge)' = Text(q.acknowledge)
    BY DEF Text
  <2>5. MessageOK(q)'
    BY <1>3, <1>4, <2>2, <2>3, <2>4, IntactBefore DEF MessageOK, serverVars
  <2>. QED  BY <2>1, <2>2, <2>5
<1>12. ASSUME Intact', NEW i \in 1 .. Len(toClient'), NEW j \in 1 .. Len(toClient'), i < j
       PROVE  toClient'[i].acknowledge <= toClient'[j].acknowledge
  <2>1. /\ i + k \in 1 .. Len(toClient) /\ j + k \in 1 .. Len(toClient) /\ i + k < j + k
        /\ toClient'[i] = toClient[i + k] /\ toClient'[j] = toClient[j + k]
    BY <1>9, <1>10, <1>12
  <2>2. Intact
    BY <1>3, <1>12, IntactBefore
  <2>. QED  BY <2>1, <2>2 DEF CommandsInv, MessageInv
<1>13. MessageInv'
  BY <1>11, <1>12 DEF MessageInv
<1>14. ExtraTypes'
  BY <1>10 DEF CommandsInv, ExtraTypes
<1>. QED  BY <1>6, <1>7, <1>8, <1>13, <1>14 DEF CommandsInv

LEMMA ParseInv ==
    ASSUME CommandsInv, CL_ParseServerMessage
    PROVE  CommandsInv'
<1>1. PICK k \in 1 .. Len(toClient) :
          LET m == toClient[k]
          IN  /\ toClient' = After(toClient, k)
              /\ \/ /\ Readable(m)
                    /\ reliableAcknowledge' = Acknowledged(m)
                    /\ clServerId' = IF m.serverId = 0 THEN clServerId ELSE m.serverId
                    /\ UNCHANGED <<clState, reliableSequence, reliableCommands, toServer,
                                   issued, peak>>
                 \/ /\ ~Readable(m)
                    /\ DisconnectFromServer
                    /\ UNCHANGED <<clServerId, reliableAcknowledge>>
  BY DEF CL_ParseServerMessage
<1>2. UNCHANGED <<serverVars, executed, moved, lost>>
  BY DEF CL_ParseServerMessage
<1>3. CASE UNCHANGED <<clState, reliableSequence, reliableCommands, toServer, issued, peak>>
           /\ reliableAcknowledge' = Acknowledged(toClient[k])
           /\ clServerId' = IF toClient[k].serverId = 0 THEN clServerId ELSE toClient[k].serverId
  BY <1>1, <1>2, <1>3, AcknowledgeInv
<1>4. CASE DisconnectFromServer /\ UNCHANGED <<clServerId, reliableAcknowledge>>
  <2>1. /\ TypeOK' /\ Monotone /\ RingInv' /\ ServerInv' /\ PacketInv'
        /\ toServer' \in Seq(Packets)
    BY <1>2, <1>4, DisconnectStep
  <2>2. toClient' \in Seq(Messages) /\ MessageInv'
    BY <1>1, <1>4, <2>1, MessagesShift
  <2>3. ExtraTypes'
    BY <1>2, <2>1, <2>2 DEF CommandsInv, ExtraTypes, Monotone
  <2>. QED  BY <2>1, <2>2, <2>3 DEF CommandsInv
<1>. QED  BY <1>1, <1>3, <1>4

-----------------------------------------------------------------------------
(***************************************************************************)
(* The theorems.                                                           *)
(***************************************************************************)
LEMMA InitInv == Init => CommandsInv
<1>. SUFFICES ASSUME Init PROVE CommandsInv
  OBVIOUS
<1>1. TypeOK
  <2>1. reliableCommands \in [0 .. MAX_RELIABLE_COMMANDS - 1 -> Command \union {NoCommand}]
    BY DEF Init
  <2>2. issued \in Seq(Command) /\ Len(issued) = 0 /\ executed \in Seq(Command)
    BY DEF Init
  <2>. QED  BY <2>1, <2>2, RingAssumption, BoundsAssumption DEF Init, TypeOK
<1>2. ExtraTypes
  <2>1. toServer \in Seq(Packets) /\ toClient \in Seq(Messages)
    BY DEF Init
  <2>. QED  BY <2>1 DEF Init, ExtraTypes
<1>3. RingInv
  <2>1. Slot(0) \in 0 .. MAX_RELIABLE_COMMANDS - 1
    BY SlotInRing
  <2>. QED  BY <2>1 DEF Init, RingInv, Text
<1>4. ServerInv
  <2>1. SubSeq(<<>>, 1, 0) = <<>>
    BY SubSeqEmpty
  <2>. QED  BY <2>1 DEF Init, ServerInv, Text
<1>5. PacketInv /\ MessageInv
  BY DEF Init, PacketInv, MessageInv
<1>. QED  BY <1>1, <1>2, <1>3, <1>4, <1>5 DEF CommandsInv

LEMMA InvStep ==
    ASSUME CommandsInv, [Next]_vars
    PROVE  CommandsInv'
<1>. /\ clState \in {"CONNECTED", "DISCONNECTED", "CRASHED"} /\ state \in {"ACTIVE", "ZOMBIE"}
     /\ serverId \in 1 .. MaxServerId /\ MaxServerId \in Nat
  BY BoundsAssumption DEF CommandsInv, TypeOK
<1>1. CASE CL_AddReliableCommand
  BY <1>1, AddInv
<1>2. CASE CL_WritePacket
  BY <1>2, WritePacketInv
<1>3. CASE CL_Disconnect
  BY <1>3, DisconnectInv
<1>4. CASE SV_ExecuteClientMessage
  BY <1>4, ExecuteMessageInv
<1>5. CASE SV_DropClient
  BY <1>5, FrameInv DEF SV_DropClient, clientVars
<1>6. CASE SV_SpawnServer
  BY <1>6, FrameInv DEF SV_SpawnServer, clientVars
<1>7. CASE SV_SendClientSnapshot
  BY <1>7, SnapshotInv
<1>8. CASE CL_ParseServerMessage
  BY <1>8, ParseInv
<1>9. CASE UNCHANGED vars
  BY <1>9, FrameInv DEF vars, clientVars, serverVars
<1>. QED  BY <1>1, <1>2, <1>3, <1>4, <1>5, <1>6, <1>7, <1>8, <1>9 DEF Next

\* The inductive invariant: the ring, the packets and the acknowledgements in flight are
\* windows of the one sequence of commands the client issued.
THEOREM CommandsInvariant == Spec => []CommandsInv
<1>1. Init => CommandsInv
  BY InitInv
<1>2. CommandsInv /\ [Next]_vars => CommandsInv'
  BY InvStep
<1>. QED  BY <1>1, <1>2, PTL DEF Spec

\* The state keeps its types: the client is never more than a command over the ring, and
\* neither end acknowledges what was not issued, even after the ring has wrapped.
THEOREM TypeCorrect == Spec => []TypeOK
<1>1. CommandsInv => TypeOK
  BY DEF CommandsInv
<1>. QED  BY <1>1, CommandsInvariant, PTL

\* SV_ClientCommand executes every command once and in order, whatever the network loses.
THEOREM ExecutesAsIssued == Spec => []ExecutedAsIssued
<1>1. CommandsInv => ExecutedAsIssued
  BY DEF CommandsInv, ServerInv, Intact, ExecutedAsIssued
<1>. QED  BY <1>1, CommandsInvariant, PTL

\* SV_ClientCommand finds no gap in the numbers of a client that kept to its ring.
THEOREM NothingIsLost == Spec => []NothingLost
<1>1. CommandsInv => NothingLost
  BY DEF CommandsInv, ServerInv, Intact, NothingLost
<1>. QED  BY <1>1, CommandsInvariant, PTL

\* SV_UserMove comes after the commands that were issued before the move was made.
THEOREM MovesFollowCommands == Spec => []MovesAfterCommands
<1>1. CommandsInv => MovesAfterCommands
  BY DEF CommandsInv, ServerInv, Intact, MovesAfterCommands
<1>. QED  BY <1>1, CommandsInvariant, PTL

\* CL_Netchan_Decode finds in the client's ring the text a message was encoded with.
THEOREM EveryMessageReadable == Spec => []MessagesReadable
<1>1. CommandsInv => MessagesReadable
  <2>. SUFFICES ASSUME CommandsInv, peak < MAX_RELIABLE_COMMANDS, NEW k \in DOMAIN toClient
                PROVE  Readable(toClient[k])
    BY DEF MessagesReadable
  <2>1. PICK m \in Messages : m = toClient[k] /\ MessageOK(m)
    BY DEF CommandsInv, ExtraTypes, MessageInv
  <2>2. /\ peak \in Nat /\ MAX_RELIABLE_COMMANDS \in Nat /\ reliableSequence \in Nat
        /\ reliableAcknowledge \in Nat /\ m.acknowledge \in Nat
    BY RingAssumption DEF CommandsInv, TypeOK, ExtraTypes, Messages
  <2>3. Intact
    BY <2>2 DEF Intact
  <2>4. /\ reliableSequence - reliableAcknowledge <= peak
        /\ reliableAcknowledge <= m.acknowledge /\ m.acknowledge <= reliableSequence
        /\ m.key = Text(m.acknowledge)
    BY <2>1, <2>3 DEF MessageOK, CommandsInv, ServerInv
  <2>5. m.acknowledge > reliableSequence - MAX_RELIABLE_COMMANDS
    BY <2>2, <2>4
  <2>6. reliableCommands[Slot(m.acknowledge)] = Text(m.acknowledge)
    BY <2>2, <2>4, <2>5 DEF CommandsInv, RingInv
  <2>. QED  BY <2>1, <2>4, <2>6 DEF Readable, KeyOf
<1>. QED  BY <1>1, CommandsInvariant, PTL
=============================================================================

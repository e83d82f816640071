------------------------ MODULE ServerCommandsProofs ------------------------
(***************************************************************************)
(* Proofs about the reliable commands of the server to one client, for     *)
(* every size of the ring and every number of commands, maps and messages  *)
(* in flight.                                                              *)
(***************************************************************************)
EXTENDS ServerCommands, RingLemmas

(***************************************************************************)
(* The inductive invariant.  All but the types and the server's own ring   *)
(* is promised only while the server forgets nothing.                      *)
(***************************************************************************)
\* The command that goes with a number; nothing was issued under 0.
Text(i) == IF i = 0 THEN NoCommand ELSE issued[i]

CommandsOf(a, b) == [a + 1 .. b -> Command]

ServerMessages ==
    [kind : {"snapshot", "nop", "gamestate"}, serverId : Nat,
     commands : UNION {CommandsOf(ab[1], ab[2]) : ab \in Nat \X Nat},
     mark : Nat, asOf : Nat, deferred : BOOLEAN, later : BOOLEAN]

ClientMessages ==
    [serverId : Nat, acknowledge : Nat, later : BOOLEAN, key : Command]

ExtraTypes ==
    /\ toClient \in Seq(ServerMessages)
    /\ toServer \in Seq(ClientMessages)
    /\ snap \in [num : Nat, asOf : Nat, deferred : BOOLEAN]
    /\ cgSequence <= snap.num /\ snap.num <= clSequence
    /\ added \in Nat

\* The server's ring holds the newest commands, or what it tells a client it dropped.
Oldest == IF state = "ZOMBIE" THEN reliableAcknowledge ELSE reliableSequence - MAX_RELIABLE_COMMANDS

RingInv ==
    \A i \in 0 .. reliableSequence : i > Oldest => reliableCommands[Slot(i)] = Text(i)

\* What the client has was sent, and what was sent is never replaced.
OrderInv ==
    ~discarded =>
        /\ state # "ZOMBIE"
        /\ reliableAcknowledge <= clSequence
        /\ clSequence <= reliableSent
        /\ reliableSent <= reliableSequence

\* The client's ring holds the newest commands it was sent; cgame has been taken past those
\* a game state has skipped.
ClientInv ==
    ~discarded =>
        /\ \A i \in 0 .. clSequence :
              i > clSequence - MAX_RELIABLE_COMMANDS /\ i \notin skipped
                  => clCommands[Slot(i)] = Text(i)
        /\ \A e \in executed : e.num \in 1 .. reliableSent /\ e.cmd = issued[e.num]
        /\ snap.num >= snap.asOf \/ snap.deferred
        /\ \A i \in skipped : i <= cgSequence

\* A message to the client continues what the client has.
ServerMessageOK(m) ==
    /\ m.serverId <= serverId
    /\ \E a, b \in Nat :
          /\ a <= b /\ b <= a + MAX_RELIABLE_COMMANDS
          /\ m.commands \in CommandsOf(a, b)
          /\ ~discarded =>
                /\ a <= clSequence /\ b <= reliableSent
                /\ m.kind = "gamestate" =>
                      /\ b <= m.mark /\ clSequence <= m.mark /\ m.mark <= reliableSent
                      /\ m.deferred \/ b = m.mark
                /\ m.kind = "snapshot" => m.deferred \/ m.asOf <= b
    /\ ~discarded => \A i \in DOMAIN m.commands : m.commands[i] = issued[i]

ToClientInv ==
    /\ \A k \in 1 .. Len(toClient) : ServerMessageOK(toClient[k])
    /\ ~discarded =>
          \A j, k \in 1 .. Len(toClient) :
              j < k /\ toClient[k].kind = "gamestate" =>
                  /\ \A i \in DOMAIN toClient[j].commands : i <= toClient[k].mark
                  /\ toClient[j].kind = "gamestate" => toClient[j].mark <= toClient[k].mark

\* A message to the server acknowledges no less than the one before it.
ClientMessageOK(m) ==
    /\ m.serverId <= serverId
    /\ ~discarded =>
          /\ reliableAcknowledge <= m.acknowledge /\ m.acknowledge <= clSequence
          /\ m.acknowledge \in skipped \/ m.key = Text(m.acknowledge)

ToServerInv ==
    /\ \A k \in 1 .. Len(toServer) : ClientMessageOK(toServer[k])
    /\ ~discarded =>
          \A j, k \in 1 .. Len(toServer) :
              j < k => toServer[j].acknowledge <= toServer[k].acknowledge

CommandsInv ==
    /\ TypeOK
    /\ ExtraTypes
    /\ RingInv
    /\ OrderInv
    /\ ClientInv
    /\ ToClientInv
    /\ ToServerInv

-----------------------------------------------------------------------------
(***************************************************************************)
(* The ring and the channels.                                              *)
(***************************************************************************)
LEMMA SlotInRing == \A i \in Int : Slot(i) \in 0 .. MAX_RELIABLE_COMMANDS - 1
BY RingAssumption, Division DEF Slot

LEMMA SlotsDiffer ==
    ASSUME NEW i \in Int, NEW j \in Int, i # j,
           i < j + MAX_RELIABLE_COMMANDS, j < i + MAX_RELIABLE_COMMANDS
    PROVE  Slot(i) # Slot(j)
<1>0. MAX_RELIABLE_COMMANDS \in Nat \ {0}
  BY RingAssumption
<1>1. CASE i < j
  BY <1>0, <1>1, DifferentSlots DEF Slot
<1>2. CASE j < i
  BY <1>0, <1>2, DifferentSlots DEF Slot
<1>. QED  BY <1>1, <1>2

LEMMA SendElements ==
    ASSUME NEW S, NEW c \in Seq(S), NEW m \in S
    PROVE  /\ Send(c, m) \in Seq(S)
           /\ \E d \in {0, 1} :
                 /\ Len(Send(c, m)) = Len(c) - d + 1
                 /\ \A k \in 1 .. Len(c) - d : Send(c, m)[k] = c[k + d]
                 /\ Send(c, m)[Len(c) - d + 1] = m
BY BoundsAssumption, BoundedAppend DEF Send

LEMMA AfterElements ==
    ASSUME NEW S, NEW c \in Seq(S), NEW k \in 1 .. Len(c)
    PROVE  /\ After(c, k) \in Seq(S)
           /\ Len(After(c, k)) = Len(c) - k
           /\ \A i \in 1 .. Len(c) - k : After(c, k)[i] = c[i + k]
BY SuffixElements DEF After

\* The types of the numbers, which every proof needs.
LEMMA Numbers ==
    ASSUME CommandsInv
    PROVE  /\ MAX_RELIABLE_COMMANDS \in Nat /\ MAX_RELIABLE_COMMANDS >= 2 /\ DeferAfter \in Nat
           /\ MaxCommands \in Nat /\ MaxServerId \in Nat
           /\ reliableSequence \in Nat /\ reliableAcknowledge \in Nat /\ reliableSent \in Nat
           /\ reliableAcknowledge <= reliableSequence
           /\ reliableSequence <= reliableAcknowledge + MAX_RELIABLE_COMMANDS
           /\ clSequence \in Nat /\ cgSequence \in Nat /\ snap.num \in Nat /\ snap.asOf \in Nat
           /\ cgSequence <= snap.num /\ snap.num <= clSequence
           /\ serverId \in Nat /\ serverIdAcknowledge \in Nat /\ clServerId \in Nat
           /\ clServerId <= serverId
           /\ issued \in Seq(Command) /\ Len(issued) = reliableSequence
<1>1. /\ MAX_RELIABLE_COMMANDS \in Nat /\ MAX_RELIABLE_COMMANDS >= 2 /\ DeferAfter \in Nat
      /\ MaxCommands \in Nat /\ MaxServerId \in Nat
  BY RingAssumption, BoundsAssumption, DeferAssumption
<1>2. /\ snap.num \in Nat /\ snap.asOf \in Nat
      /\ cgSequence <= snap.num /\ snap.num <= clSequence
  BY DEF CommandsInv, ExtraTypes
<1>3. reliableAcknowledge \in Nat /\ reliableSequence \in Nat
  BY <1>1 DEF CommandsInv, TypeOK
<1>. QED  BY <1>1, <1>2, <1>3 DEF CommandsInv, TypeOK

\* What the channels hold.
LEMMA InFlight ==
    ASSUME CommandsInv
    PROVE  /\ toClient \in Seq(ServerMessages) /\ Len(toClient) \in Nat
           /\ \A k \in 1 .. Len(toClient) :
                 toClient[k] \in ServerMessages /\ ServerMessageOK(toClient[k])
           /\ toServer \in Seq(ClientMessages) /\ Len(toServer) \in Nat
           /\ \A k \in 1 .. Len(toServer) :
                 toServer[k] \in ClientMessages /\ ClientMessageOK(toServer[k])
BY DEF CommandsInv, ExtraTypes, ToClientInv, ToServerInv

\* The server's ring: commands in every slot, those above Oldest under their numbers.
LEMMA ServerRing ==
    ASSUME CommandsInv, NEW i \in 0 .. reliableSequence
    PROVE  /\ reliableCommands[Slot(i)] \in Command
           /\ i > Oldest => reliableCommands[Slot(i)] = Text(i)
<1>1. Slot(i) \in 0 .. MAX_RELIABLE_COMMANDS - 1
  BY Numbers, SlotInRing
<1>. QED  BY <1>1 DEF CommandsInv, TypeOK, RingInv

LEMMA OldestBelow ==
    ASSUME CommandsInv
    PROVE  /\ Oldest \in Int
           /\ reliableSequence - MAX_RELIABLE_COMMANDS <= Oldest
           /\ Oldest <= reliableAcknowledge
BY SMTT(30), Numbers DEF Oldest

-----------------------------------------------------------------------------
(***************************************************************************)
(* What no step undoes.                                                    *)
(***************************************************************************)
Continues ==
    /\ serverId' \in Nat /\ serverId <= serverId'
    /\ discarded' \in BOOLEAN /\ (discarded => discarded')
    /\ reliableSent' \in Nat
    /\ skipped \subseteq skipped'
    /\ ~discarded' =>
          /\ reliableSent <= reliableSent'
          /\ \A i \in 1 .. reliableSent : issued'[i] = issued[i]

LEMMA ServerMessageStays ==
    ASSUME CommandsInv, Continues, clSequence' = clSequence,
           NEW m \in ServerMessages, ServerMessageOK(m)
    PROVE  ServerMessageOK(m)'
<1>1. PICK a \in Nat, b \in Nat :
          /\ a <= b /\ b <= a + MAX_RELIABLE_COMMANDS
          /\ m.commands \in CommandsOf(a, b)
          /\ ~discarded =>
                /\ a <= clSequence /\ b <= reliableSent
                /\ m.kind = "gamestate" =>
                      /\ b <= m.mark /\ clSequence <= m.mark /\ m.mark <= reliableSent
                      /\ m.deferred \/ b = m.mark
                /\ m.kind = "snapshot" => m.deferred \/ m.asOf <= b
  BY DEF ServerMessageOK
<1>2. m.serverId \in Nat /\ m.mark \in Nat /\ m.serverId <= serverId
  BY DEF ServerMessages, ServerMessageOK
<1>3. m.serverId <= serverId'
  <2>1. serverId \in Int /\ serverId' \in Int /\ serverId <= serverId'
    BY Numbers DEF Continues
  <2>. QED  BY <1>2, <2>1
<1>4. ~discarded' => /\ ~discarded
                     /\ reliableSent <= reliableSent'
                     /\ \A i \in 1 .. reliableSent : issued'[i] = issued[i]
  BY DEF Continues, CommandsInv, TypeOK
<1>5. ~discarded' =>
          /\ a <= clSequence' /\ b <= reliableSent'
          /\ m.kind = "gamestate" =>
                /\ b <= m.mark /\ clSequence' <= m.mark /\ m.mark <= reliableSent'
                /\ m.deferred \/ b = m.mark
          /\ m.kind = "snapshot" => m.deferred \/ m.asOf <= b
  <2>. SUFFICES ASSUME ~discarded'
                PROVE  /\ b <= reliableSent'
                       /\ m.kind = "gamestate" => m.mark <= reliableSent'
    BY <1>1, <1>4
  <2>1. /\ b <= reliableSent /\ reliableSent <= reliableSent'
        /\ m.kind = "gamestate" => m.mark <= reliableSent
    BY <1>1, <1>4
  <2>2. reliableSent \in Int /\ reliableSent' \in Int
    BY Numbers DEF Continues
  <2>. QED  BY <1>2, <2>1, <2>2
<1>6. ASSUME ~discarded', NEW i \in DOMAIN m.commands PROVE m.commands[i] = issued'[i]
  <2>1. i \in a + 1 .. b /\ b <= reliableSent
    BY <1>1, <1>4, <1>6 DEF CommandsOf
  <2>2. i \in 1 .. reliableSent
    <3>1. reliableSent \in Nat
      BY Numbers
    <3>. QED  BY <2>1, <3>1
  <2>3. m.commands[i] = issued[i]
    BY <1>4, <1>6 DEF ServerMessageOK
  <2>. QED  BY <1>4, <1>6, <2>2, <2>3
<1>7. CommandsOf(a, b)' = CommandsOf(a, b)
  BY DEF CommandsOf
<1>. QED  BY <1>1, <1>3, <1>5, <1>6, <1>7 DEF ServerMessageOK

LEMMA ClientMessageStays ==
    ASSUME CommandsInv, Continues, clSequence' \in Nat, ~discarded' => clSequence <= clSequence',
           NEW m \in ClientMessages, ClientMessageOK(m),
           ~discarded' => reliableAcknowledge' <= m.acknowledge
    PROVE  ClientMessageOK(m)'
<1>1. /\ m.acknowledge \in Nat /\ m.serverId \in Nat /\ m.serverId <= serverId
      /\ serverId \in Nat /\ serverId' \in Nat /\ serverId <= serverId'
      /\ clSequence \in Nat /\ reliableSent \in Nat
  BY Numbers DEF ClientMessages, ClientMessageOK, Continues
<1>2. m.serverId <= serverId'
  BY <1>1
<1>3. ASSUME ~discarded'
      PROVE  /\ m.acknowledge <= clSequence'
             /\ m.acknowledge \in skipped' \/ m.key = Text(m.acknowledge)'
  <2>1. /\ ~discarded
        /\ m.acknowledge <= clSequence /\ clSequence <= clSequence'
        /\ clSequence <= reliableSent
        /\ \A i \in 1 .. reliableSent : issued'[i] = issued[i]
    BY <1>3 DEF Continues, CommandsInv, TypeOK, OrderInv, ClientMessageOK
  <2>2. m.acknowledge <= clSequence'
    BY <1>1, <2>1
  <2>3. m.acknowledge = 0 \/ m.acknowledge \in 1 .. reliableSent
    BY <1>1, <2>1
  <2>4. Text(m.acknowledge)' = Text(m.acknowledge)
    BY <2>1, <2>3 DEF Text
  <2>5. skipped \subseteq skipped'
    BY DEF Continues
  <2>. QED  BY <2>1, <2>2, <2>4, <2>5 DEF ClientMessageOK
<1>. QED  BY <1>2, <1>3 DEF ClientMessageOK

LEMMA ToClientStays ==
    ASSUME CommandsInv, Continues, UNCHANGED <<toClient, clSequence>>
    PROVE  ToClientInv'
<1>1. ASSUME NEW k \in 1 .. Len(toClient) PROVE ServerMessageOK(toClient[k])'
  <2>1. PICK m \in ServerMessages : m = toClient[k] /\ ServerMessageOK(m)
    BY InFlight
  <2>2. ServerMessageOK(m)'
    BY <2>1, ServerMessageStays
  <2>. QED  BY <2>1, <2>2
<1>2. ~discarded' => ~discarded
  BY DEF Continues
<1>. QED  BY <1>1, <1>2 DEF ToClientInv, CommandsInv

LEMMA ToServerStays ==
    ASSUME CommandsInv, Continues, clSequence' \in Nat, ~discarded' => clSequence <= clSequence',
           UNCHANGED <<toServer, reliableAcknowledge>>
    PROVE  ToServerInv'
<1>1. ~discarded' => ~discarded
  BY DEF Continues
<1>2. ASSUME NEW k \in 1 .. Len(toServer) PROVE ClientMessageOK(toServer[k])'
  <2>1. PICK m \in ClientMessages : m = toServer[k] /\ ClientMessageOK(m)
    BY InFlight
  <2>3. ~discarded' => reliableAcknowledge' <= m.acknowledge
    BY <1>1, <2>1 DEF ClientMessageOK
  <2>4. ClientMessageOK(m)'
    BY <2>1, <2>3, ClientMessageStays
  <2>. QED  BY <2>1, <2>4
<1>. QED  BY <1>1, <1>2 DEF ToServerInv, CommandsInv

LEMMA ClientStays ==
    ASSUME CommandsInv, Continues, UNCHANGED <<clSequence, clCommands, snap, cgSequence, executed, skipped>>
    PROVE  ClientInv'
<1>. SUFFICES ASSUME ~discarded' PROVE ClientInv'
  BY DEF ClientInv
<1>1. /\ ~discarded
      /\ \A i \in 1 .. reliableSent : issued'[i] = issued[i]
      /\ reliableSent <= reliableSent' /\ clSequence <= reliableSent
      /\ reliableSent \in Nat /\ reliableSent' \in Nat /\ clSequence \in Nat
  BY Numbers DEF Continues, CommandsInv, OrderInv
<1>2. \A i \in 0 .. clSequence : Text(i)' = Text(i)
  BY <1>1 DEF Text
<1>3. ASSUME NEW e \in executed
      PROVE  e.num \in 1 .. reliableSent' /\ e.cmd = issued'[e.num]
  BY <1>1 DEF CommandsInv, ClientInv
<1>. QED  BY <1>1, <1>2, <1>3 DEF CommandsInv, ClientInv

-----------------------------------------------------------------------------
(***************************************************************************)
(* The server adds a command.                                              *)
(***************************************************************************)
\* What the three ways to change the server's ring have to establish.
RingStep ==
    /\ Continues
    /\ RingInv'
    /\ reliableSequence' \in Nat
    /\ reliableAcknowledge <= reliableSequence'
    /\ reliableSequence' <= reliableAcknowledge + MAX_RELIABLE_COMMANDS
    /\ ~discarded' => reliableSequence <= reliableSequence' /\ state' # "ZOMBIE"
    /\ state' \in {"ZOMBIE", "CONNECTED", "PRIMED", "ACTIVE"}
    /\ reliableCommands' \in [0 .. MAX_RELIABLE_COMMANDS - 1 -> Command]
    /\ issued' \in Seq(Command) /\ Len(issued') = reliableSequence'

RestUnchanged ==
    /\ UNCHANGED <<serverId, serverIdAcknowledge, reliableAcknowledge, reliableSent, clientVars,
                   toClient, toServer, executed, skipped>>
    /\ added' \in Nat

LEMMA RingStepInv ==
    ASSUME CommandsInv, RingStep, RestUnchanged
    PROVE  CommandsInv'
<1>1. TypeOK'
  <2>1. reliableAcknowledge' \in 0 .. reliableSequence'
        /\ reliableSequence' \in 0 .. reliableAcknowledge' + MAX_RELIABLE_COMMANDS
    BY Numbers DEF RingStep, RestUnchanged
  <2>. QED  BY <2>1 DEF CommandsInv, TypeOK, RingStep, RestUnchanged, Continues, clientVars
<1>2. ExtraTypes'
  BY DEF CommandsInv, ExtraTypes, RestUnchanged, clientVars
<1>3. OrderInv'
  <2>. SUFFICES ASSUME ~discarded'
                PROVE  /\ state' # "ZOMBIE"
                       /\ reliableAcknowledge <= clSequence
                       /\ clSequence <= reliableSent
                       /\ reliableSent <= reliableSequence'
    BY DEF OrderInv, RestUnchanged, clientVars
  <2>1. /\ ~discarded /\ state' # "ZOMBIE"
        /\ reliableSent <= reliableSequence /\ reliableSequence <= reliableSequence'
        /\ reliableAcknowledge <= clSequence
        /\ clSequence <= reliableSent
    BY DEF CommandsInv, OrderInv, RingStep, Continues
  <2>2. reliableSent \in Int /\ reliableSequence \in Int /\ reliableSequence' \in Int
    BY Numbers DEF RingStep
  <2>. QED  BY <2>1, <2>2
<1>4. ClientInv' /\ ToClientInv'
  BY ClientStays, ToClientStays DEF RingStep, RestUnchanged, clientVars
<1>5. ToServerInv'
  BY ToServerStays, Numbers DEF RingStep, RestUnchanged, clientVars
<1>. QED  BY <1>1, <1>2, <1>3, <1>4, <1>5 DEF CommandsInv, RingStep

\* A pending command that was not sent is replaced, in the slot that its newest number has.
LEMMA ReplaceStep ==
    ASSUME CommandsInv, NEW cmd \in Command, ReplacePendingServerCommand(cmd), RestUnchanged
    PROVE  RingStep
<1>. DEFINE N == MAX_RELIABLE_COMMANDS
            R == reliableSequence
            i == Min(Replaceable(cmd))
            o == Occupant(i)
<1>1. R \in Nat /\ N \in Nat \ {0} /\ reliableSent \in Nat
  BY Numbers
<1>2. i \in reliableSent + 1 .. R
  <2>1. Replaceable(cmd) \in SUBSET Nat /\ Replaceable(cmd) # {}
    BY <1>1 DEF Replaceable, ReplacePendingServerCommand
  <2>2. i \in Replaceable(cmd)
    BY <2>1, LeastElement
  <2>. QED  BY <2>2 DEF Replaceable
<1>. HIDE DEF i
<1>3. o \in i .. R /\ Slot(o) = Slot(i) /\ R < o + N
  <2>1. i \in 1 .. R
    BY <1>1, <1>2
  <2>. QED  BY <1>1, <2>1, NewestInSlot DEF Occupant, Slot
<1>4. /\ reliableCommands' = [reliableCommands EXCEPT ![Slot(o)] = cmd]
      /\ issued' = [issued EXCEPT ![o] = cmd]
      /\ UNCHANGED <<state, reliableSequence, discarded>>
  BY <1>3 DEF ReplacePendingServerCommand, i
<1>. HIDE DEF o
<1>5. /\ issued \in Seq(Command) /\ Len(issued) = R
      /\ o \in 1 .. R /\ o > reliableSent
  <2>1. o \in 1 .. R /\ o > reliableSent
    BY <1>1, <1>2, <1>3
  <2>. QED  BY <2>1, Numbers
<1>6. /\ issued' \in Seq(Command) /\ Len(issued') = R /\ issued'[o] = cmd
      /\ \A j \in 1 .. R : j # o => issued'[j] = issued[j]
  BY <1>4, <1>5
<1>7. /\ \A j \in Int : Slot(j) \in 0 .. N - 1
      /\ reliableCommands \in [0 .. N - 1 -> Command]
  BY SlotInRing DEF CommandsInv, TypeOK
<1>8. reliableCommands' \in [0 .. N - 1 -> Command]
  BY <1>4, <1>5, <1>7
<1>9. ASSUME NEW j \in 0 .. R, j > Oldest PROVE reliableCommands'[Slot(j)] = Text(j)'
  <2>1. CASE j = o
    BY <1>4, <1>5, <1>6, <1>7, <2>1 DEF Text
  <2>2. CASE j # o
    <3>1. j > R - N
      BY <1>1, <1>9, OldestBelow
    <3>2. Slot(j) # Slot(o)
      <4>1. j < o + N /\ o < j + N
        BY <1>1, <1>3, <1>5, <3>1
      <4>. QED  BY <1>5, <2>2, <4>1, SlotsDiffer
    <3>3. reliableCommands'[Slot(j)] = reliableCommands[Slot(j)]
      BY <1>4, <1>7, <3>2
    <3>4. Text(j)' = Text(j)
      BY <1>1, <1>6, <2>2 DEF Text
    <3>. QED  BY <1>9, <3>3, <3>4, ServerRing
  <2>. QED  BY <2>1, <2>2
<1>10. RingInv'
  <2>1. Oldest' = Oldest
    BY <1>4 DEF Oldest, RestUnchanged
  <2>. QED  BY <1>4, <1>9, <2>1 DEF RingInv
<1>11. Continues
  <2>1. \A j \in 1 .. reliableSent : issued'[j] = issued[j]
    BY <1>1, <1>2, <1>3, <1>5, <1>6
  <2>. QED  BY <1>1, <1>4, <2>1, Numbers DEF Continues, RestUnchanged, CommandsInv, TypeOK
<1>12. /\ R' = R
       /\ ~discarded' => state' # "ZOMBIE"
       /\ state' \in {"ZOMBIE", "CONNECTED", "PRIMED", "ACTIVE"}
  BY <1>4 DEF CommandsInv, TypeOK, OrderInv
<1>. QED  BY SMTT(30), <1>6, <1>8, <1>10, <1>11, <1>12, Numbers DEF RingStep

LEMMA AppendStep ==
    ASSUME CommandsInv, NEW cmd \in Command, AppendServerCommand(cmd), RestUnchanged
    PROVE  RingStep
<1>. DEFINE N == MAX_RELIABLE_COMMANDS
            R == reliableSequence
            n == reliableSequence + 1
<1>1. /\ R \in Nat /\ n \in Nat /\ N \in Nat \ {0} /\ reliableSent \in Nat
      /\ reliableAcknowledge \in Nat /\ reliableAcknowledge <= R /\ R <= reliableAcknowledge + N
      /\ issued \in Seq(Command) /\ Len(issued) = R
  BY SMTT(30), Numbers
<1>2. /\ reliableSequence' = n
      /\ reliableCommands' = [reliableCommands EXCEPT ![Slot(n)] = cmd]
      /\ issued' = Append(issued, cmd)
      /\ UNCHANGED <<state, discarded>>
      /\ state \in {"PRIMED", "ACTIVE"}
  BY DEF AppendServerCommand
<1>3. n <= reliableAcknowledge + N /\ reliableAcknowledge <= n
  BY <1>1 DEF AppendServerCommand, Overflows
<1>4. /\ issued' \in Seq(Command) /\ Len(issued') = n /\ issued'[n] = cmd
      /\ \A i \in 1 .. R : issued'[i] = issued[i]
  BY <1>1, <1>2, AppendProperties
<1>5. /\ \A j \in Int : Slot(j) \in 0 .. N - 1
      /\ reliableCommands \in [0 .. N - 1 -> Command]
  BY SlotInRing DEF CommandsInv, TypeOK
<1>6. reliableCommands' \in [0 .. N - 1 -> Command]
  BY <1>1, <1>2, <1>5
<1>7. Oldest = R - N /\ Oldest' = n - N
  BY <1>1, <1>2 DEF Oldest
<1>8. ASSUME NEW i \in 0 .. n, i > n - N PROVE reliableCommands'[Slot(i)] = Text(i)'
  <2>1. CASE i = n
    <3>1. Slot(n) \in 0 .. N - 1
      BY SMTT(30), <1>1, <1>5
    <3>2. reliableCommands'[Slot(i)] = cmd
      BY <1>2, <1>5, <2>1, <3>1
    <3>3. issued'[i] = cmd /\ i # 0
      BY <1>1, <1>4, <2>1
    <3>4. Text(i)' = cmd
      BY <3>3 DEF Text
    <3>. QED  BY <3>2, <3>4
  <2>2. CASE i # n
    <3>1. i \in 0 .. R /\ i > R - N /\ i < n + N /\ n < i + N
      BY <1>1, <1>8, <2>2
    <3>2. Slot(i) # Slot(n)
      BY <1>1, <2>2, <3>1, SlotsDiffer
    <3>3. reliableCommands'[Slot(i)] = reliableCommands[Slot(i)]
      BY <1>1, <1>2, <1>5, <3>2
    <3>4. reliableCommands[Slot(i)] = Text(i)
      BY <1>7, <3>1, ServerRing
    <3>5. Text(i)' = Text(i)
      BY <1>1, <1>4, <3>1 DEF Text
    <3>. QED  BY <3>3, <3>4, <3>5
  <2>. QED  BY <2>1, <2>2
<1>9. RingInv'
  BY <1>2, <1>7, <1>8 DEF RingInv
<1>10. Continues
  <2>1. ASSUME ~discarded' PROVE \A j \in 1 .. reliableSent : issued'[j] = issued[j]
    <3>1. reliableSent <= R
      BY <1>2, <2>1 DEF CommandsInv, OrderInv
    <3>. QED  BY <1>1, <1>4, <3>1
  <2>2. /\ serverId' = serverId /\ serverId \in Nat
        /\ reliableSent' = reliableSent /\ skipped' = skipped
        /\ discarded' = discarded /\ discarded \in BOOLEAN
    BY <1>2, Numbers DEF RestUnchanged, CommandsInv, TypeOK
  <2>. QED  BY <1>1, <2>1, <2>2 DEF Continues
<1>11. R <= n /\ state' \in {"PRIMED", "ACTIVE"}
  BY <1>1, <1>2
<1>. QED  BY <1>1, <1>2, <1>3, <1>4, <1>6, <1>9, <1>10, <1>11 DEF RingStep

\* A client that is dropped: its pending commands make room for the reason.
LEMMA DropStep ==
    ASSUME CommandsInv, DropClient, RestUnchanged
    PROVE  RingStep
<1>. DEFINE N == MAX_RELIABLE_COMMANDS
            A == reliableAcknowledge
            told == state \in {"PRIMED", "ACTIVE"}
            prefix == SubSeq(issued, 1, A)
<1>1. /\ A \in Nat /\ N \in Nat /\ N >= 2 /\ A <= reliableSequence /\ reliableSequence \in Nat
      /\ issued \in Seq(Command) /\ Len(issued) = reliableSequence
  BY Numbers
<1>0. PrintCommand \in Command /\ DisconnectCommand \in Command
  <2>1. MaxCommands + 1 \in Nat /\ MaxCommands + 2 \in Nat
    BY BoundsAssumption
  <2>. QED  BY <2>1 DEF Command, PrintCommand, DisconnectCommand
<1>2. /\ state' = "ZOMBIE" /\ discarded' = TRUE
      /\ reliableSequence' = IF told THEN A + 2 ELSE A
      /\ reliableCommands' =
            IF told THEN [reliableCommands EXCEPT ![Slot(A + 1)] = PrintCommand,
                                                  ![Slot(A + 2)] = DisconnectCommand]
            ELSE reliableCommands
      /\ issued' = prefix \o IF told THEN <<PrintCommand, DisconnectCommand>> ELSE <<>>
  BY DEF DropClient
<1>3. prefix \in Seq(Command) /\ Len(prefix) = A
  BY <1>1
<1>. HIDE DEF prefix
<1>4. /\ \A j \in Int : Slot(j) \in 0 .. N - 1
      /\ reliableCommands \in [0 .. N - 1 -> Command]
      /\ Slot(A + 1) # Slot(A + 2)
  <2>1. /\ A + 1 \in Int /\ A + 2 \in Int /\ A + 1 # A + 2
        /\ A + 1 < (A + 2) + N /\ A + 2 < (A + 1) + N
    BY <1>1
  <2>. QED  BY <2>1, SlotInRing, SlotsDiffer DEF CommandsInv, TypeOK
<1>5. Continues
  BY <1>2, Numbers DEF Continues, RestUnchanged, CommandsInv, TypeOK
<1>6. CASE told
  <2>1. reliableSequence' = A + 2 /\ Oldest' = A
    BY <1>2, <1>6 DEF Oldest, RestUnchanged
  <2>2. issued' = prefix \o <<PrintCommand, DisconnectCommand>>
    BY <1>2, <1>6
  <2>3. /\ issued' \in Seq(Command) /\ Len(issued') = A + 2
        /\ issued'[A + 1] = PrintCommand /\ issued'[A + 2] = DisconnectCommand
    <3>. DEFINE reason == <<PrintCommand, DisconnectCommand>>
    <3>1. /\ reason \in Seq(Command) /\ Len(reason) = 2
          /\ reason[1] = PrintCommand /\ reason[2] = DisconnectCommand
      BY <1>0
    <3>. HIDE DEF reason
    <3>2. /\ prefix \o reason \in Seq(Command) /\ Len(prefix \o reason) = A + 2
          /\ \A i \in 1 .. A + 2 : (prefix \o reason)[i] =
                    IF i <= A THEN prefix[i] ELSE reason[i - A]
      <4>1. 1 .. Len(prefix) + Len(reason) = 1 .. A + 2 /\ Len(prefix) + Len(reason) = A + 2
        BY <1>1, <1>3, <3>1
      <4>2. /\ prefix \o reason \in Seq(Command)
            /\ Len(prefix \o reason) = Len(prefix) + Len(reason)
            /\ \A i \in 1 .. Len(prefix) + Len(reason) : (prefix \o reason)[i] =
                    IF i <= Len(prefix) THEN prefix[i] ELSE reason[i - Len(prefix)]
        BY <1>3, <3>1, ConcatProperties
      <4>. QED  BY <1>3, <4>1, <4>2
    <3>3. /\ A + 1 \in 1 .. A + 2 /\ A + 2 \in 1 .. A + 2 /\ ~(A + 1 <= A) /\ ~(A + 2 <= A)
          /\ (A + 1) - A = 1 /\ (A + 2) - A = 2
      BY <1>1
    <3>. QED  BY <2>2, <3>1, <3>2, <3>3 DEF reason
  <2>4. /\ reliableCommands' \in [0 .. N - 1 -> Command]
        /\ reliableCommands'[Slot(A + 1)] = PrintCommand
        /\ reliableCommands'[Slot(A + 2)] = DisconnectCommand
    <3>1. Slot(A + 1) \in 0 .. N - 1 /\ Slot(A + 2) \in 0 .. N - 1
      BY <1>1, <1>4
    <3>. QED  BY <1>0, <1>1, <1>2, <1>4, <1>6, <3>1
  <2>5. ASSUME NEW i \in 0 .. A + 2, i > A PROVE reliableCommands'[Slot(i)] = Text(i)'
    <3>1. i \in {A + 1, A + 2} /\ i # 0
      BY <1>1, <2>5
    <3>. QED  BY <2>3, <2>4, <3>1 DEF Text
  <2>6. RingInv'
    BY <2>1, <2>5 DEF RingInv
  <2>7. A + 2 \in Nat /\ A <= A + 2 /\ A + 2 <= A + N
    BY <1>1
  <2>. QED  BY <1>2, <1>5, <2>1, <2>3, <2>4, <2>6, <2>7 DEF RingStep
<1>7. CASE ~told
  <2>1. reliableSequence' = A /\ Oldest' = A
    BY <1>2, <1>7 DEF Oldest, RestUnchanged
  <2>2. issued' = prefix \o <<>>
    BY <1>2, <1>7
  <2>3. issued' \in Seq(Command) /\ Len(issued') = A
    BY <1>3, <2>2
  <2>4. reliableCommands' \in [0 .. N - 1 -> Command]
    BY <1>2, <1>4, <1>7
  <2>5. RingInv'
    BY <1>1, <2>1 DEF RingInv
  <2>. QED  BY <1>1, <1>2, <1>5, <2>1, <2>3, <2>4, <2>5 DEF RingStep
<1>. QED  BY <1>6, <1>7

LEMMA IgnoreStep ==
    ASSUME CommandsInv, RestUnchanged,
           UNCHANGED <<state, reliableSequence, reliableCommands, issued, discarded>>
    PROVE  RingStep
<1>1. RingInv'
  BY DEF CommandsInv, RingInv, Oldest, Text, RestUnchanged
<1>2. Continues
  BY Numbers DEF Continues, RestUnchanged, CommandsInv, TypeOK
<1>. QED  BY <1>1, <1>2, Numbers DEF RingStep, CommandsInv, TypeOK, OrderInv

LEMMA AddInv ==
    ASSUME CommandsInv, SV_AddServerCommand
    PROVE  CommandsInv'
<1>1. RestUnchanged
  BY DEF SV_AddServerCommand, RestUnchanged, CommandsInv, ExtraTypes
<1>2. PICK cmd \in Command : \/ ReplacePendingServerCommand(cmd)
                             \/ IgnoreServerCommand(cmd)
                             \/ AppendServerCommand(cmd)
                             \/ OverflowServerCommand(cmd)
  <2>1. PICK cs \in ConfigStrings \union {0} :
            LET cmd == [cs |-> cs, id |-> added + 1]
            IN  \/ ReplacePendingServerCommand(cmd)
                \/ IgnoreServerCommand(cmd)
                \/ AppendServerCommand(cmd)
                \/ OverflowServerCommand(cmd)
    BY DEF SV_AddServerCommand
  <2>2. [cs |-> cs, id |-> added + 1] \in Command
    BY DEF Command, CommandsInv, ExtraTypes
  <2>. QED  BY <2>1, <2>2
<1>3. RingStep
  <2>1. CASE ReplacePendingServerCommand(cmd)
    BY <1>1, <2>1, ReplaceStep
  <2>2. CASE IgnoreServerCommand(cmd)
    BY <1>1, <2>2, IgnoreStep DEF IgnoreServerCommand
  <2>3. CASE AppendServerCommand(cmd)
    BY <1>1, <2>3, AppendStep
  <2>4. CASE OverflowServerCommand(cmd)
    BY <1>1, <2>4, DropStep DEF OverflowServerCommand
  <2>. QED  BY <1>2, <2>1, <2>2, <2>3, <2>4
<1>. QED  BY <1>1, <1>3, RingStepInv

LEMMA DropInv ==
    ASSUME CommandsInv, SV_DropClient
    PROVE  CommandsInv'
<1>1. RestUnchanged /\ DropClient
  BY DEF SV_DropClient, RestUnchanged, CommandsInv, ExtraTypes
<1>. QED  BY <1>1, DropStep, RingStepInv

-----------------------------------------------------------------------------
(***************************************************************************)
(* The server sends a message.                                             *)
(***************************************************************************)
\* What SV_UpdateServerCommandsToClient writes after an acknowledgement the ring covers.
LEMMA WrittenFacts ==
    ASSUME CommandsInv, NEW a \in 0 .. reliableSequence,
           reliableSequence <= a + MAX_RELIABLE_COMMANDS
    PROVE  \E b \in a .. reliableSequence :
              /\ Written(a) \in CommandsOf(a, b)
              /\ b <= a + MAX_RELIABLE_COMMANDS
              /\ Defers(a) \/ b = reliableSequence
              /\ \A i \in a + 1 .. b : i > Oldest => Written(a)[i] = issued[i]
<1>. DEFINE b == LastWritten(a)
<1>1. /\ reliableSequence \in Nat /\ a \in Nat /\ a <= reliableSequence
      /\ DeferAfter \in Nat /\ MAX_RELIABLE_COMMANDS \in Nat
  BY Numbers
<1>2. b = IF a + DeferAfter <= reliableSequence THEN a + DeferAfter ELSE reliableSequence
  BY <1>1, MinOfPair DEF LastWritten
<1>6. Defers(a) <=> b < reliableSequence
  BY DEF Defers
<1>. HIDE DEF b
<1>3. /\ b \in a .. reliableSequence /\ b <= a + MAX_RELIABLE_COMMANDS
      /\ Defers(a) \/ b = reliableSequence
  BY <1>1, <1>2, <1>6
<1>4. Written(a) = [i \in a + 1 .. b |-> reliableCommands[Slot(i)]]
  BY DEF Written, FirstWritten, b
<1>5. ASSUME NEW i \in a + 1 .. b
      PROVE  /\ reliableCommands[Slot(i)] \in Command
             /\ i > Oldest => reliableCommands[Slot(i)] = issued[i]
  <2>1. i \in 0 .. reliableSequence /\ i # 0
    BY <1>1, <1>3
  <2>. QED  BY <2>1, ServerRing DEF Text
<1>7. Written(a) \in CommandsOf(a, b)
  BY <1>4, <1>5 DEF CommandsOf
<1>. QED  BY <1>3, <1>4, <1>5, <1>7

SameContent(p, q) ==
    /\ p.kind = q.kind /\ p.serverId = q.serverId /\ p.commands = q.commands
    /\ p.mark = q.mark /\ p.asOf = q.asOf /\ p.deferred = q.deferred

LEMMA SameMessage ==
    ASSUME NEW p, NEW q, SameContent(p, q), ServerMessageOK(q)
    PROVE  ServerMessageOK(p)
<1>1. PICK a \in Nat, b \in Nat :
          /\ a <= b /\ b <= a + MAX_RELIABLE_COMMANDS
          /\ q.commands \in CommandsOf(a, b)
          /\ ~discarded =>
                /\ a <= clSequence /\ b <= reliableSent
                /\ q.kind = "gamestate" =>
                      /\ b <= q.mark /\ clSequence <= q.mark /\ q.mark <= reliableSent
                      /\ q.deferred \/ b = q.mark
                /\ q.kind = "snapshot" => q.deferred \/ q.asOf <= b
  BY DEF ServerMessageOK
<1>2. /\ p.commands \in CommandsOf(a, b) /\ p.serverId <= serverId
      /\ ~discarded => \A i \in DOMAIN p.commands : p.commands[i] = issued[i]
  BY <1>1 DEF SameContent, ServerMessageOK
<1>3. ~discarded =>
          /\ p.kind = "gamestate" =>
                /\ b <= p.mark /\ clSequence <= p.mark /\ p.mark <= reliableSent
                /\ p.deferred \/ b = p.mark
          /\ p.kind = "snapshot" => p.deferred \/ p.asOf <= b
  BY ZenonT(30), <1>1 DEF SameContent
<1>. QED  BY <1>1, <1>2, <1>3 DEF ServerMessageOK

LEMMA SentToClient ==
    ASSUME CommandsInv, Continues, clSequence' = clSequence,
           NEW c \in Seq(ServerMessages), Len(c) = Len(toClient),
           \A k \in 1 .. Len(c) : SameContent(c[k], toClient[k]),
           NEW m \in ServerMessages, ServerMessageOK(m)',
           ~discarded' /\ m.kind = "gamestate" => reliableSent <= m.mark,
           toClient' = Send(c, m)
    PROVE  toClient' \in Seq(ServerMessages) /\ ToClientInv'
<1>. DEFINE after == Send(c, m)
<1>1. after \in Seq(ServerMessages) /\ Len(c) \in Nat
  BY SendElements
<1>2. PICK d \in {0, 1} :
          /\ Len(after) = Len(c) - d + 1
          /\ \A k \in 1 .. Len(c) - d : after[k] = c[k + d]
          /\ after[Len(c) - d + 1] = m
  BY ZenonT(30), SendElements
<1>3. toClient' = after
  OBVIOUS
<1>. HIDE DEF after
<1>4. ASSUME NEW k \in 1 .. Len(after)
      PROVE  \/ k = Len(after) /\ after[k] = m
             \/ /\ k < Len(after) /\ k + d \in 1 .. Len(toClient)
                /\ after[k] \in ServerMessages
                /\ SameContent(after[k], toClient[k + d])
  <2>1. CASE k = Len(after)
    BY <1>2, <2>1
  <2>2. CASE k # Len(after)
    <3>1. k \in 1 .. Len(c) - d /\ k + d \in 1 .. Len(c) /\ k < Len(after)
      BY <1>1, <1>2, <2>2
    <3>. QED  BY SMTT(30), <1>2, <3>1
  <2>. QED  BY <2>1, <2>2
<1>5. ASSUME NEW k \in 1 .. Len(after) PROVE ServerMessageOK(after[k])'
  <2>. SUFFICES ASSUME k + d \in 1 .. Len(toClient), after[k] \in ServerMessages,
                       SameContent(after[k], toClient[k + d])
                PROVE  ServerMessageOK(after[k])'
    BY <1>3, <1>4
  <2>1. PICK p \in ServerMessages : p = after[k]
    OBVIOUS
  <2>2. ServerMessageOK(p)
    <3>1. PICK q : q = toClient[k + d] /\ ServerMessageOK(q)
      BY InFlight
    <3>. QED  BY <2>1, <3>1, SameMessage
  <2>3. ServerMessageOK(p)'
    BY <2>2, ServerMessageStays
  <2>. QED  BY <1>3, <2>1, <2>3
<1>6. ASSUME ~discarded', NEW j \in 1 .. Len(after), NEW k \in 1 .. Len(after), j < k,
             after[k].kind = "gamestate"
      PROVE  /\ \A i \in DOMAIN after[j].commands : i <= after[k].mark
             /\ after[j].kind = "gamestate" => after[j].mark <= after[k].mark
  <2>1. ~discarded
    BY <1>6 DEF Continues
  <2>2. j + d \in 1 .. Len(toClient) /\ SameContent(after[j], toClient[j + d])
    BY SMTT(30), <1>1, <1>4, <1>6
  <2>3. CASE k = Len(after) /\ after[k] = m
    <3>1. PICK q \in ServerMessages : q = toClient[j + d] /\ ServerMessageOK(q)
      BY <2>2, InFlight
    <3>2. PICK a \in Nat, b \in Nat :
              /\ q.commands \in CommandsOf(a, b) /\ b <= reliableSent
              /\ q.kind = "gamestate" => q.mark <= reliableSent
      BY <2>1, <3>1 DEF ServerMessageOK
    <3>3. reliableSent <= m.mark
      BY <1>6, <2>3
    <3>4. /\ \A i \in DOMAIN q.commands : i <= m.mark
          /\ q.kind = "gamestate" => q.mark <= m.mark
      <4>1. reliableSent \in Int /\ m.mark \in Int /\ q.mark \in Int
        BY Numbers DEF ServerMessages
      <4>. QED  BY <3>2, <3>3, <4>1 DEF CommandsOf
    <3>. QED  BY <2>2, <2>3, <3>1, <3>4 DEF SameContent
  <2>4. CASE k + d \in 1 .. Len(toClient) /\ SameContent(after[k], toClient[k + d])
    <3>1. j + d < k + d
      BY <1>1, <1>2, <1>6
    <3>2. /\ \A i \in DOMAIN toClient[j + d].commands : i <= toClient[k + d].mark
          /\ toClient[j + d].kind = "gamestate" => toClient[j + d].mark <= toClient[k + d].mark
      BY <1>6, <2>1, <2>2, <2>4, <3>1 DEF CommandsInv, ToClientInv, SameContent
    <3>. QED  BY <2>2, <2>4, <3>2 DEF SameContent
  <2>. QED  BY <1>4, <2>3, <2>4
<1>. QED  BY <1>1, <1>3, <1>5, <1>6 DEF ToClientInv

LEMMA SnapshotInv ==
    ASSUME CommandsInv, SV_SendClientSnapshot
    PROVE  CommandsInv'
<1>. DEFINE A == reliableAcknowledge
            R == reliableSequence
<1>1. /\ UNCHANGED <<state, serverId, serverIdAcknowledge, reliableSequence,
                     reliableAcknowledge, reliableCommands, clientVars, toServer, issued,
                     executed, discarded, skipped, added>>
      /\ \/ toClient' = Send(toClient, Snapshot) /\ reliableSent' = R
         \/ toClient' = Send(toClient, Nop) /\ reliableSent' = reliableSent
  BY DEF SV_SendClientSnapshot
<1>2. /\ A \in Nat /\ R \in Nat /\ reliableSent \in Nat /\ A <= R
      /\ R <= A + MAX_RELIABLE_COMMANDS /\ serverId \in Nat /\ DeferAfter \in Nat
      /\ MAX_RELIABLE_COMMANDS \in Nat /\ clSequence \in Nat
  BY Numbers
<1>3. /\ reliableSent' \in Nat
      /\ ~discarded => reliableSent <= reliableSent' /\ reliableSent' <= R
  BY <1>1, <1>2 DEF CommandsInv, OrderInv
<1>4. Continues
  BY <1>1, <1>2, <1>3 DEF Continues, CommandsInv, TypeOK
<1>5. PICK m : /\ toClient' = Send(toClient, m)
               /\ \/ m = Snapshot /\ reliableSent' = R
                  \/ m = Nop
  BY <1>1
<1>6. m \in ServerMessages /\ ServerMessageOK(m)' /\ m.kind # "gamestate"
  <2>1. CASE m = Snapshot /\ reliableSent' = R
    <3>0. PICK a \in 0 .. R : a = A
      BY <1>2
    <3>1. PICK b \in a .. R :
              /\ Written(a) \in CommandsOf(a, b)
              /\ b <= a + MAX_RELIABLE_COMMANDS
              /\ Defers(a) \/ b = R
              /\ \A i \in a + 1 .. b : i > Oldest => Written(a)[i] = issued[i]
      BY <1>2, <3>0, WrittenFacts
    <3>2. /\ m.kind = "snapshot" /\ m.serverId = serverId /\ m.commands = Written(a)
          /\ m.mark = 0 /\ m.asOf = R /\ m.deferred = Defers(a)
      BY <2>1, <3>0 DEF Snapshot
    <3>3. m \in ServerMessages
      <4>. DEFINE ab == <<a, b>>
      <4>1. ab \in Nat \X Nat /\ Written(a) \in CommandsOf(ab[1], ab[2])
        BY <1>2, <3>1
      <4>2. Written(a) \in UNION {CommandsOf(x[1], x[2]) : x \in Nat \X Nat}
        BY <4>1
      <4>3. Defers(a) \in BOOLEAN
        BY DEF Defers
      <4>. QED  BY <1>2, <2>1, <3>0, <4>2, <4>3 DEF Snapshot, ServerMessages
    <3>4. ASSUME NEW i \in DOMAIN m.commands PROVE m.commands[i] = issued[i]
      <4>1. i \in a + 1 .. b
        BY <3>1, <3>2 DEF CommandsOf
      <4>2. i > Oldest
        BY <1>2, <3>0, <4>1, OldestBelow
      <4>. QED  BY <3>1, <3>2, <4>1, <4>2
    <3>5. ~discarded => a <= clSequence
      BY <3>0 DEF CommandsInv, OrderInv
    <3>6. m.deferred \/ R <= b
      BY <1>2, <3>1, <3>2
    <3>7. a \in Nat /\ b \in Nat /\ a <= b /\ b <= R /\ R <= R
      BY <1>2, <3>1
    <3>8. m.commands \in CommandsOf(a, b)' /\ ~(m.kind = "gamestate")
      BY <3>1, <3>2 DEF CommandsOf
    <3>9. ~discarded' =>
              /\ a <= clSequence' /\ b <= reliableSent'
              /\ m.kind = "gamestate" =>
                    /\ b <= m.mark /\ clSequence' <= m.mark /\ m.mark <= reliableSent'
                    /\ m.deferred \/ b = m.mark
              /\ m.kind = "snapshot" => m.deferred \/ m.asOf <= b
      BY <1>1, <2>1, <3>2, <3>5, <3>6, <3>7, <3>8 DEF clientVars
    <3>10. /\ m.serverId <= serverId'
           /\ ~discarded' => \A i \in DOMAIN m.commands : m.commands[i] = issued'[i]
      BY <1>1, <1>2, <3>2, <3>4
    <3>11. ServerMessageOK(m)'
      BY <3>1, <3>7, <3>8, <3>9, <3>10 DEF ServerMessageOK
    <3>. QED  BY <3>3, <3>8, <3>11
  <2>2. CASE m = Nop
    <3>1. <<>> \in CommandsOf(0, 0) /\ DOMAIN <<>> = {}
      BY DEF CommandsOf
    <3>2. /\ m.kind = "nop" /\ m.serverId = serverId /\ m.commands = <<>>
          /\ m.mark = 0 /\ m.asOf = 0
      BY <2>2 DEF Nop
    <3>3. m \in ServerMessages
      <4>. DEFINE ab == <<0, 0>>
      <4>1. ab \in Nat \X Nat /\ <<>> \in CommandsOf(ab[1], ab[2])
        BY <3>1
      <4>2. <<>> \in UNION {CommandsOf(x[1], x[2]) : x \in Nat \X Nat}
        BY <4>1
      <4>. QED  BY <1>2, <2>2, <4>2 DEF Nop, ServerMessages
    <3>4. 0 \in Nat /\ m.commands \in CommandsOf(0, 0)' /\ 0 <= 0 + MAX_RELIABLE_COMMANDS
          /\ 0 <= clSequence' /\ 0 <= reliableSent' /\ m.serverId <= serverId'
          /\ m.kind # "gamestate" /\ m.kind # "snapshot" /\ DOMAIN m.commands = {}
      BY <1>1, <1>2, <1>3, <3>1, <3>2 DEF CommandsOf, clientVars
    <3>5. ServerMessageOK(m)'
      BY <3>4 DEF ServerMessageOK
    <3>. QED  BY <3>3, <3>4, <3>5
  <2>. QED  BY <1>5, <2>1, <2>2
<1>7. toClient' \in Seq(ServerMessages) /\ ToClientInv'
  <2>1. PICK c : c = toClient
    OBVIOUS
  <2>2. /\ c \in Seq(ServerMessages) /\ Len(c) = Len(toClient)
        /\ \A k \in 1 .. Len(c) : SameContent(c[k], toClient[k])
        /\ toClient' = Send(c, m) /\ clSequence' = clSequence
    BY <1>1, <1>5, <2>1, InFlight DEF SameContent, clientVars
  <2>. QED  BY <1>4, <1>6, <2>2, SentToClient
<1>8. TypeOK' /\ ExtraTypes'
  BY <1>1, <1>3, <1>7 DEF CommandsInv, TypeOK, ExtraTypes, clientVars
<1>9. RingInv' /\ OrderInv'
  <2>1. RingInv'
    BY <1>1 DEF CommandsInv, RingInv, Oldest, Text
  <2>2. ASSUME ~discarded
        PROVE  clSequence <= reliableSent' /\ reliableSent' <= R
    <3>1. clSequence <= reliableSent /\ reliableSent <= reliableSent' /\ reliableSent' <= R
      BY <1>3, <2>2 DEF CommandsInv, OrderInv
    <3>. QED  BY <1>2, <1>3, <3>1
  <2>. QED  BY <1>1, <2>1, <2>2 DEF CommandsInv, OrderInv, clientVars
<1>10. ClientInv' /\ ToServerInv'
  BY <1>1, <1>2, <1>4, ClientStays, ToServerStays DEF clientVars
<1>. QED  BY <1>7, <1>8, <1>9, <1>10 DEF CommandsInv

LEMMA SpawnInv ==
    ASSUME CommandsInv, SV_SpawnServer
    PROVE  CommandsInv'
<1>1. /\ serverId' = serverId + 1 /\ serverId < MaxServerId
      /\ state' \in {"ZOMBIE", "CONNECTED"} /\ (state' = "ZOMBIE" <=> state = "ZOMBIE")
      /\ UNCHANGED <<serverIdAcknowledge, reliableSequence, reliableAcknowledge, reliableSent,
                     reliableCommands, clientVars, toClient, toServer, issued, executed,
                     discarded, skipped, added>>
  BY DEF SV_SpawnServer
<1>2. Continues
  BY <1>1, Numbers DEF Continues, CommandsInv, TypeOK
<1>3. TypeOK'
  BY SMTT(30), <1>1, Numbers DEF CommandsInv, TypeOK, clientVars
<1>4. ExtraTypes' /\ RingInv' /\ OrderInv'
  BY <1>1 DEF CommandsInv, ExtraTypes, RingInv, OrderInv, Oldest, Text, clientVars
<1>5. ClientInv' /\ ToClientInv' /\ ToServerInv'
  BY <1>1, <1>2, ClientStays, ToClientStays, ToServerStays, Numbers DEF clientVars
<1>. QED  BY <1>3, <1>4, <1>5 DEF CommandsInv

-----------------------------------------------------------------------------
(***************************************************************************)
(* The client's steps.                                                     *)
(***************************************************************************)
LEMMA WritePacketInv ==
    ASSUME CommandsInv, CL_WritePacket
    PROVE  CommandsInv'
<1>1. UNCHANGED <<serverVars, clientVars, toClient, issued, executed, discarded, skipped, added>>
  BY DEF CL_WritePacket
<1>2. PICK m : /\ m = [serverId |-> clServerId, acknowledge |-> clSequence,
                       later |-> clLater, key |-> Key]
               /\ toServer' = Send(toServer, m)
  BY DEF CL_WritePacket
<1>3. Continues
  BY <1>1, Numbers DEF Continues, serverVars, CommandsInv, TypeOK
<1>4. /\ clSequence \in Nat /\ clServerId \in Nat /\ clServerId <= serverId
      /\ MAX_RELIABLE_COMMANDS \in Nat \ {0} /\ reliableAcknowledge \in Nat
  BY Numbers
<1>5. Key \in Command
  <2>1. Slot(clSequence) \in 0 .. MAX_RELIABLE_COMMANDS - 1
    BY <1>4, SlotInRing
  <2>. QED  BY <2>1 DEF Key, CommandsInv, TypeOK
<1>6. m \in ClientMessages /\ m.acknowledge = clSequence /\ m.serverId <= serverId
  BY <1>2, <1>4, <1>5 DEF ClientMessages, CommandsInv, TypeOK
<1>7. ClientMessageOK(m)
  <2>1. ASSUME ~discarded, m.acknowledge \notin skipped PROVE m.key = Text(m.acknowledge)
    <3>1. clSequence \in 0 .. clSequence /\ clSequence > clSequence - MAX_RELIABLE_COMMANDS
      BY <1>4
    <3>2. clCommands[Slot(clSequence)] = Text(clSequence)
      BY <1>6, <2>1, <3>1 DEF CommandsInv, ClientInv
    <3>. QED  BY <1>2, <3>2 DEF Key
  <2>2. ~discarded => reliableAcknowledge <= m.acknowledge /\ m.acknowledge <= clSequence
    BY <1>4, <1>6 DEF CommandsInv, OrderInv
  <2>. QED  BY <1>6, <2>1, <2>2 DEF ClientMessageOK
<1>. DEFINE after == Send(toServer, m)
<1>8. after \in Seq(ClientMessages) /\ Len(toServer) \in Nat
  BY <1>6, InFlight, SendElements
<1>9. PICK d \in {0, 1} :
          /\ Len(after) = Len(toServer) - d + 1
          /\ \A k \in 1 .. Len(toServer) - d : after[k] = toServer[k + d]
          /\ after[Len(toServer) - d + 1] = m
  BY <1>6, InFlight, SendElements
<1>10. toServer' = after
  BY <1>2
<1>. HIDE DEF after
<1>11. ASSUME NEW k \in 1 .. Len(after)
       PROVE  /\ after[k] \in ClientMessages /\ ClientMessageOK(after[k])
              /\ \/ k = Len(after) /\ after[k] = m
                 \/ /\ k < Len(after) /\ k + d \in 1 .. Len(toServer)
                    /\ after[k] = toServer[k + d]
  <2>1. CASE k = Len(after)
    BY <1>6, <1>7, <1>9, <2>1
  <2>2. CASE k # Len(after)
    <3>1. k \in 1 .. Len(toServer) - d /\ k + d \in 1 .. Len(toServer) /\ k < Len(after)
      BY <1>8, <1>9, <2>2
    <3>2. after[k] = toServer[k + d]
      BY <1>9, <3>1
    <3>. QED  BY <3>1, <3>2, InFlight
  <2>. QED  BY <2>1, <2>2
<1>12. ASSUME NEW k \in 1 .. Len(toServer') PROVE ClientMessageOK(toServer[k])'
  <2>1. PICK q \in ClientMessages : q = toServer'[k] /\ ClientMessageOK(q)
    BY <1>10, <1>11
  <2>2. /\ clSequence' \in Nat /\ (~discarded' => clSequence <= clSequence')
        /\ ~discarded' => reliableAcknowledge' <= q.acknowledge
    BY <1>1, <1>4, <2>1 DEF ClientMessageOK, clientVars, serverVars
  <2>3. ClientMessageOK(q)'
    BY <1>3, <2>1, <2>2, ClientMessageStays
  <2>. QED  BY <2>1, <2>3
<1>13. ASSUME ~discarded', NEW j \in 1 .. Len(after), NEW k \in 1 .. Len(after), j < k
       PROVE  after[j].acknowledge <= after[k].acknowledge
  <2>1. /\ j + d \in 1 .. Len(toServer) /\ after[j] = toServer[j + d]
        /\ ClientMessageOK(after[j])
    BY <1>8, <1>11, <1>13
  <2>2. CASE after[k] = m
    BY <1>1, <1>6, <1>13, <2>1, <2>2 DEF ClientMessageOK
  <2>3. CASE k + d \in 1 .. Len(toServer) /\ after[k] = toServer[k + d]
    <3>1. j + d < k + d
      BY <1>8, <1>9, <1>13
    <3>. QED  BY <1>1, <1>13, <2>1, <2>3, <3>1 DEF CommandsInv, ToServerInv
  <2>. QED  BY <1>11, <2>2, <2>3
<1>14. ToServerInv'
  BY <1>10, <1>12, <1>13 DEF ToServerInv
<1>15. TypeOK' /\ ExtraTypes'
  BY <1>1, <1>8, <1>10 DEF CommandsInv, TypeOK, ExtraTypes, clientVars, serverVars
<1>16. RingInv' /\ OrderInv'
  BY <1>1 DEF CommandsInv, RingInv, OrderInv, Oldest, Text, clientVars, serverVars
<1>17. ClientInv' /\ ToClientInv'
  BY <1>1, <1>3, ClientStays, ToClientStays DEF clientVars
<1>. QED  BY <1>14, <1>15, <1>16, <1>17 DEF CommandsInv

\* The commands of a message that the client has not seen are the last ones of it.
LEMMA NewCommands ==
    ASSUME CommandsInv, NEW a \in Nat, NEW b \in Nat, a <= b, b <= a + MAX_RELIABLE_COMMANDS,
           NEW commands \in CommandsOf(a, b)
    PROVE  \E f \in Nat \ {0} :
              /\ News(commands) = f .. b
              /\ f > clSequence /\ f > a
              /\ a <= clSequence => f = clSequence + 1
              /\ Stored(commands) \in [0 .. MAX_RELIABLE_COMMANDS - 1 -> Command]
              /\ \A i \in f .. b : Stored(commands)[Slot(i)] = commands[i]
              /\ \A i \in Int : i < f /\ i > b - MAX_RELIABLE_COMMANDS =>
                    Stored(commands)[Slot(i)] = clCommands[Slot(i)]
<1>. DEFINE N == MAX_RELIABLE_COMMANDS
            f == IF a <= clSequence THEN clSequence + 1 ELSE a + 1
            ring == Stored(commands)
            Here(s) == {i \in News(commands) : Slot(i) = s}
<1>1. /\ clSequence \in Nat /\ N \in Nat \ {0}
      /\ \A i \in Int : Slot(i) \in 0 .. N - 1
      /\ clCommands \in [0 .. N - 1 -> Command]
  <2>1. clSequence \in Nat /\ N \in Nat /\ N >= 2
    BY Numbers
  <2>2. clCommands \in [0 .. N - 1 -> Command]
    BY DEF CommandsInv, TypeOK
  <2>. QED  BY SMTT(30), <2>1, <2>2, SlotInRing
<1>2. DOMAIN commands = a + 1 .. b /\ \A i \in a + 1 .. b : commands[i] \in Command
  BY DEF CommandsOf
<1>3. f \in Nat \ {0} /\ f > clSequence /\ f > a /\ (a <= clSequence => f = clSequence + 1)
  BY SMTT(30), <1>1
<1>4. News(commands) = f .. b
  <2>1. News(commands) = {i \in a + 1 .. b : i > clSequence}
    BY <1>2 DEF News
  <2>2. a \in Int /\ b \in Int /\ clSequence \in Int
    BY <1>1
  <2>3. {i \in a + 1 .. b : i > clSequence} = f .. b
    BY <2>2, AboveInInterval
  <2>. QED  BY <2>1, <2>3
<1>. HIDE DEF f
<1>5. f .. b \subseteq a + 1 .. b
  BY <1>3
<1>6. ring = [s \in 0 .. N - 1 |->
                IF Here(s) = {} THEN clCommands[s] ELSE commands[Max(Here(s))]]
  BY DEF Stored
<1>7. ASSUME NEW i \in f .. b PROVE Here(Slot(i)) = {i}
  <2>1. ASSUME NEW j \in f .. b, j # i PROVE Slot(j) # Slot(i)
    <3>1. i \in Int /\ j \in Int /\ i < j + N /\ j < i + N
      BY SMTT(30), <1>1, <1>3
    <3>. QED  BY <2>1, <3>1, SlotsDiffer
  <2>. QED  BY <1>4, <2>1
<1>8. ASSUME NEW i \in f .. b PROVE ring[Slot(i)] = commands[i]
  <2>1. i \in Int /\ Slot(i) \in 0 .. N - 1
    BY SMTT(30), <1>1, <1>3
  <2>2. Max({i}) = i
    BY <2>1 DEF Max
  <2>. QED  BY <1>6, <1>7, <2>1, <2>2
<1>9. ASSUME NEW i \in Int, i < f, i > b - N
      PROVE  ring[Slot(i)] = clCommands[Slot(i)]
  <2>1. ASSUME NEW j \in f .. b PROVE Slot(j) # Slot(i)
    <3>1. j \in Int /\ i # j /\ i < j + N /\ j < i + N
      BY <1>1, <1>3, <1>9
    <3>. QED  BY <3>1, SlotsDiffer
  <2>2. Here(Slot(i)) = {}
    BY <1>4, <2>1
  <2>. QED  BY <1>1, <1>6, <2>2
<1>10. ring \in [0 .. N - 1 -> Command]
  <2>1. ASSUME NEW s \in 0 .. N - 1, Here(s) # {} PROVE commands[Max(Here(s))] \in Command
    <3>1. PICK i \in f .. b : Slot(i) = s
      BY <1>4, <2>1
    <3>2. Here(s) = {i} /\ i \in Int
      BY <1>3, <1>7, <3>1
    <3>3. Max({i}) = i
      BY <3>2 DEF Max
    <3>. QED  BY <1>2, <1>5, <3>1, <3>2, <3>3
  <2>. QED  BY <1>1, <1>6, <2>1
<1>. QED  BY <1>3, <1>4, <1>8, <1>9, <1>10

\* What one message does to the client: its number only grows, and never past what a game
\* state that follows it says.
LEMMA ParseFacts ==
    ASSUME CommandsInv, NEW m \in ServerMessages, ServerMessageOK(m), ParseServerMessage(m),
           UNCHANGED <<serverVars, clFailed, issued, executed, discarded>>
    PROVE  /\ clSequence' \in Nat /\ clServerId' \in 0 .. serverId /\ clLater' \in BOOLEAN
           /\ clCommands' \in [0 .. MAX_RELIABLE_COMMANDS - 1 -> Command]
           /\ snap' \in [num : Nat, asOf : Nat, deferred : BOOLEAN] /\ cgSequence' \in Nat
           /\ cgSequence' <= snap'.num /\ snap'.num <= clSequence'
           /\ ~discarded => clSequence <= clSequence' /\ clSequence' <= reliableSent
           /\ ~discarded =>
                \A n \in Nat :
                    /\ clSequence <= n
                    /\ \A i \in DOMAIN m.commands : i <= n
                    /\ m.kind = "gamestate" => m.mark <= n
                    => clSequence' <= n
           /\ skipped' \subseteq Nat /\ skipped \subseteq skipped'
           /\ ClientInv'
<1>. DEFINE N == MAX_RELIABLE_COMMANDS
            C == clSequence
<1>1. PICK a \in Nat, b \in Nat :
          /\ a <= b /\ b <= a + N
          /\ m.commands \in CommandsOf(a, b)
          /\ ~discarded =>
                /\ a <= C /\ b <= reliableSent
                /\ m.kind = "gamestate" =>
                      /\ b <= m.mark /\ C <= m.mark /\ m.mark <= reliableSent
                      /\ m.deferred \/ b = m.mark
                /\ m.kind = "snapshot" => m.deferred \/ m.asOf <= b
  BY DEF ServerMessageOK
<1>2. PICK f \in Nat \ {0} :
          /\ News(m.commands) = f .. b
          /\ f > C /\ f > a
          /\ a <= C => f = C + 1
          /\ Stored(m.commands) \in [0 .. N - 1 -> Command]
          /\ \A i \in f .. b : Stored(m.commands)[Slot(i)] = m.commands[i]
          /\ \A i \in Int : i < f /\ i > b - N =>
                Stored(m.commands)[Slot(i)] = clCommands[Slot(i)]
  BY <1>1, NewCommands
<1>3. /\ C \in Nat /\ N \in Nat \ {0} /\ reliableSent \in Nat
      /\ snap.num \in Nat /\ cgSequence \in Nat /\ cgSequence <= snap.num /\ snap.num <= C
      /\ clServerId \in 0 .. serverId
  <2>1. C \in Nat /\ N \in Nat /\ N >= 2 /\ clServerId \in Nat /\ serverId \in Nat
        /\ clServerId <= serverId
    BY Numbers
  <2>. QED  BY <2>1, Numbers
<1>4. PICK c \in Nat : c = IF f <= b THEN b ELSE C
  BY <1>3
<1>5. /\ clCommands' = Stored(m.commands)
      /\ clLater' = m.later
      /\ \/ /\ m.kind = "nop"
            /\ clSequence' = c
            /\ UNCHANGED <<clServerId, snap, cgSequence, skipped>>
         \/ /\ m.kind = "snapshot"
            /\ clSequence' = c
            /\ snap' = [num |-> c, asOf |-> m.asOf, deferred |-> m.deferred]
            /\ UNCHANGED <<clServerId, cgSequence, skipped>>
         \/ /\ m.kind = "gamestate"
            /\ clSequence' = m.mark
            /\ clServerId' = m.serverId
            /\ cgSequence' = m.mark
            /\ snap' = [num |-> m.mark, asOf |-> m.mark, deferred |-> FALSE]
            /\ skipped' = IF m.deferred THEN skipped \union (c + 1 .. m.mark) ELSE skipped
  <2>1. Max({C} \union News(m.commands)) = c
    <3>1. C \in Int /\ f \in Int /\ b \in Int /\ C < f
      BY <1>2, <1>3
    <3>. QED  BY <1>2, <1>4, <3>1, MaxOfNewer
  <2>. QED  BY <2>1 DEF ParseServerMessage
<1>6. /\ m.mark \in Nat /\ m.asOf \in Nat /\ m.later \in BOOLEAN /\ m.serverId \in Nat
      /\ m.serverId <= serverId /\ m.deferred \in BOOLEAN
  BY DEF ServerMessages, ServerMessageOK
<1>7. c >= C /\ c >= cgSequence
  BY <1>2, <1>3, <1>4
<1>8. /\ clSequence' \in Nat /\ clServerId' \in 0 .. serverId /\ clLater' \in BOOLEAN
      /\ clCommands' \in [0 .. N - 1 -> Command]
      /\ snap' \in [num : Nat, asOf : Nat, deferred : BOOLEAN] /\ cgSequence' \in Nat
      /\ cgSequence' <= snap'.num /\ snap'.num <= clSequence'
  <2>1. clServerId' \in 0 .. serverId
    BY SMTT(30), <1>3, <1>5, <1>6, Numbers
  <2>2. CASE m.kind = "nop"
    <3>1. /\ clSequence' = c /\ snap' = snap /\ cgSequence' = cgSequence
          /\ clCommands' = Stored(m.commands) /\ clLater' = m.later
      BY <1>5, <2>2
    <3>2. snap.num <= c
      BY <1>3, <1>7
    <3>3. snap' \in [num : Nat, asOf : Nat, deferred : BOOLEAN]
      BY <3>1 DEF CommandsInv, ExtraTypes
    <3>. QED  BY <1>2, <1>3, <1>6, <2>1, <3>1, <3>2, <3>3
  <2>3. CASE m.kind # "nop"
    <3>1. /\ clSequence' \in Nat /\ clLater' \in BOOLEAN
          /\ clCommands' \in [0 .. N - 1 -> Command]
      BY <1>2, <1>4, <1>5, <1>6, <2>3
    <3>2. snap' \in [num : Nat, asOf : Nat, deferred : BOOLEAN] /\ snap'.num = clSequence'
      <4>1. CASE m.kind = "snapshot"
        <5>1. snap' = [num |-> c, asOf |-> m.asOf, deferred |-> m.deferred] /\ clSequence' = c
          BY <1>5, <4>1
        <5>. QED  BY <1>6, <5>1
      <4>2. CASE m.kind = "gamestate"
        <5>1. /\ snap' = [num |-> m.mark, asOf |-> m.mark, deferred |-> FALSE]
              /\ clSequence' = m.mark
          BY <1>5, <4>2
        <5>. QED  BY <1>6, <5>1
      <4>. QED  BY <1>5, <2>3, <4>1, <4>2
    <3>3. cgSequence' \in Nat /\ cgSequence' <= clSequence'
      BY <1>3, <1>4, <1>5, <1>6, <1>7, <2>3
    <3>. QED  BY <1>4, <2>1, <3>1, <3>2, <3>3
  <2>. QED  BY <2>2, <2>3
<1>9. ASSUME ~discarded, NEW n \in Nat, C <= n, \A i \in DOMAIN m.commands : i <= n,
             m.kind = "gamestate" => m.mark <= n
      PROVE  clSequence' <= n
  <2>1. c <= n
    <3>1. CASE f <= b
      <4>1. b \in DOMAIN m.commands
        BY <1>1, <1>2, <3>1 DEF CommandsOf
      <4>. QED  BY <1>4, <1>9, <3>1, <4>1
    <3>. QED  BY <1>4, <1>9, <3>1
  <2>. QED  BY <1>5, <1>9, <2>1
<1>10. ASSUME ~discarded
       PROVE  /\ f = C + 1
              /\ clSequence <= clSequence' /\ clSequence' <= reliableSent
              /\ clSequence' \in Nat /\ b <= clSequence'
              /\ C <= c /\ b <= c /\ c <= clSequence'
              /\ \A i \in c + 1 .. clSequence' : i \in skipped'
  <2>1. C <= reliableSent
    BY <1>10 DEF CommandsInv, OrderInv
  <2>2. f = C + 1 /\ C <= c /\ b <= c /\ c <= reliableSent
    BY <1>1, <1>2, <1>3, <1>4, <1>10, <2>1
  <2>3. CASE m.kind = "gamestate"
    <3>1. clSequence' = m.mark /\ C <= m.mark /\ b <= m.mark /\ m.mark <= reliableSent
          /\ (m.deferred \/ b = m.mark)
      BY <1>1, <1>5, <1>10, <2>3
    <3>2. c <= m.mark
      BY <1>4, <3>1
    <3>3. m.deferred \/ c = m.mark
      BY <1>6, <2>2, <3>1, <3>2
    <3>4. CASE m.deferred
      BY <1>5, <1>6, <2>2, <2>3, <3>1, <3>2, <3>4
    <3>5. CASE c = m.mark
      BY <1>6, <2>2, <3>1, <3>2, <3>5
    <3>. QED  BY <3>3, <3>4, <3>5
  <2>4. CASE m.kind # "gamestate"
    BY <1>5, <2>2, <2>4
  <2>. QED  BY <2>3, <2>4
<1>11. ASSUME ~discarded,
              NEW i \in 0 .. clSequence', i > clSequence' - N, i \notin skipped'
       PROVE  clCommands'[Slot(i)] = Text(i)
  <2>1. skipped \subseteq skipped'
    BY <1>5
  <2>2. f = C + 1 /\ b <= c /\ C <= c /\ c <= clSequence' /\ clSequence' \in Nat /\ i <= c
    BY <1>8, <1>10, <1>11
  <2>3. CASE i > C
    <3>1. i \in f .. b
      BY <1>3, <1>4, <2>2, <2>3
    <3>2. clCommands'[Slot(i)] = m.commands[i]
      BY <1>2, <1>5, <3>1
    <3>3. i \in DOMAIN m.commands /\ i # 0
      BY <1>1, <1>2, <3>1 DEF CommandsOf
    <3>4. m.commands[i] = issued[i]
      BY <1>11, <3>3 DEF ServerMessageOK
    <3>. QED  BY <3>2, <3>3, <3>4 DEF Text
  <2>4. CASE ~(i > C)
    <3>1. i \in Int /\ i < f /\ i > b - N /\ i \in 0 .. C /\ i > C - N
      <4>1. PICK z \in Nat : z = clSequence'
        BY <2>2
      <4>2. b <= z /\ C <= z
        BY <1>3, <1>4, <2>2, <4>1
      <4>3. i > z - N
        BY <1>11, <4>1
      <4>4. i \in 0 .. C /\ i < f
        BY <1>3, <1>11, <2>2, <2>4
      <4>. QED  BY <1>3, <4>2, <4>3, <4>4
    <3>2. clCommands'[Slot(i)] = clCommands[Slot(i)]
      BY <1>2, <1>5, <3>1
    <3>. QED  BY <1>11, <2>1, <3>1, <3>2 DEF CommandsInv, ClientInv
  <2>. QED  BY <2>3, <2>4
<1>12. ASSUME ~discarded PROVE snap'.num >= snap'.asOf \/ snap'.deferred
  <2>1. CASE m.kind = "nop"
    BY <1>5, <1>12, <2>1 DEF CommandsInv, ClientInv
  <2>2. CASE m.kind = "snapshot"
    <3>1. b <= c /\ (m.deferred \/ m.asOf <= b)
      BY <1>1, <1>10, <1>12, <2>2
    <3>2. snap'.num = c /\ snap'.asOf = m.asOf /\ snap'.deferred = m.deferred
      BY <1>5, <2>2
    <3>. QED  BY <1>6, <3>1, <3>2
  <2>3. CASE m.kind = "gamestate"
    <3>1. snap'.num = m.mark /\ snap'.asOf = m.mark
      BY <1>5, <2>3
    <3>. QED  BY <1>6, <3>1
  <2>. QED  BY <1>5, <2>1, <2>2, <2>3
<1>12a. skipped \subseteq Nat /\ skipped' \subseteq Nat /\ skipped \subseteq skipped'
  <2>1. skipped \subseteq Nat
    BY DEF CommandsInv, TypeOK
  <2>2. c + 1 .. m.mark \subseteq Nat
    BY <1>4
  <2>. QED  BY <1>5, <2>1, <2>2
<1>12b. ASSUME ~discarded, NEW i \in skipped' PROVE i <= cgSequence'
  <2>1. i \in Nat /\ cgSequence \in Nat /\ cgSequence' \in Nat
    BY <1>3, <1>8, <1>12a
  <2>2. CASE i \in skipped
    <3>1. i <= cgSequence
      BY <1>12b, <2>2 DEF CommandsInv, ClientInv
    <3>2. cgSequence <= cgSequence'
      <4>1. CASE m.kind = "gamestate"
        <5>1. cgSequence' = m.mark /\ C <= m.mark
          BY <1>1, <1>5, <1>12b, <4>1
        <5>. QED  BY <1>3, <1>6, <5>1
      <4>2. CASE m.kind # "gamestate"
        BY <1>3, <1>5, <4>2
      <4>. QED  BY <4>1, <4>2
    <3>. QED  BY <2>1, <3>1, <3>2
  <2>3. CASE i \notin skipped
    BY <1>5, <1>6, <1>12b, <2>3
  <2>. QED  BY <2>2, <2>3
<1>13. ClientInv'
  <2>. SUFFICES ASSUME ~discarded PROVE ClientInv'
    BY DEF ClientInv
  <2>1. \A i \in 0 .. clSequence' : Text(i)' = Text(i)
    BY DEF Text
  <2>2. reliableSent' = reliableSent
    BY DEF serverVars
  <2>3. \A e \in executed : e.num \in 1 .. reliableSent /\ e.cmd = issued[e.num]
    BY DEF CommandsInv, ClientInv
  <2>. QED  BY <1>11, <1>12, <1>12b, <2>1, <2>2, <2>3 DEF ClientInv
<1>. QED  BY <1>8, <1>9, <1>10, <1>12a, <1>13

LEMMA ParseInv ==
    ASSUME CommandsInv, CL_ParseServerMessage
    PROVE  CommandsInv'
<1>1. PICK k \in 1 .. Len(toClient) :
          ParseServerMessage(toClient[k]) /\ toClient' = After(toClient, k)
  BY DEF CL_ParseServerMessage
<1>2. UNCHANGED <<serverVars, clFailed, toServer, issued, executed, discarded, added>>
  BY DEF CL_ParseServerMessage
<1>3. PICK m \in ServerMessages : m = toClient[k] /\ ServerMessageOK(m)
  BY InFlight
<1>4. /\ clSequence' \in Nat /\ clServerId' \in 0 .. serverId /\ clLater' \in BOOLEAN
      /\ clCommands' \in [0 .. MAX_RELIABLE_COMMANDS - 1 -> Command]
      /\ snap' \in [num : Nat, asOf : Nat, deferred : BOOLEAN] /\ cgSequence' \in Nat
      /\ cgSequence' <= snap'.num /\ snap'.num <= clSequence'
      /\ ~discarded => clSequence <= clSequence' /\ clSequence' <= reliableSent
      /\ ~discarded =>
           \A n \in Nat :
               /\ clSequence <= n
               /\ \A i \in DOMAIN m.commands : i <= n
               /\ m.kind = "gamestate" => m.mark <= n
               => clSequence' <= n
      /\ skipped' \subseteq Nat /\ skipped \subseteq skipped'
      /\ ClientInv'
  BY <1>1, <1>2, <1>3, ParseFacts
<1>5. Continues
  BY <1>2, <1>4, Numbers DEF Continues, serverVars, CommandsInv, TypeOK
<1>6. /\ toClient' \in Seq(ServerMessages) /\ Len(toClient) \in Nat
      /\ Len(toClient') = Len(toClient) - k
      /\ \A i \in 1 .. Len(toClient) - k : toClient'[i] = toClient[i + k]
  BY <1>1, InFlight, AfterElements
<1>7. ASSUME NEW j \in 1 .. Len(toClient') PROVE ServerMessageOK(toClient[j])'
  <2>1. j + k \in 1 .. Len(toClient) /\ k < j + k /\ toClient'[j] = toClient[j + k]
    BY <1>6
  <2>2. PICK q \in ServerMessages : q = toClient[j + k] /\ ServerMessageOK(q)
    BY <2>1, InFlight
  <2>3. PICK a \in Nat, b \in Nat :
            /\ a <= b /\ b <= a + MAX_RELIABLE_COMMANDS
            /\ q.commands \in CommandsOf(a, b)
            /\ ~discarded =>
                  /\ a <= clSequence /\ b <= reliableSent
                  /\ q.kind = "gamestate" =>
                        /\ b <= q.mark /\ clSequence <= q.mark /\ q.mark <= reliableSent
                        /\ q.deferred \/ b = q.mark
                  /\ q.kind = "snapshot" => q.deferred \/ q.asOf <= b
    BY <2>2 DEF ServerMessageOK
  <2>4. ASSUME ~discarded, q.kind = "gamestate" PROVE clSequence' <= q.mark
    <3>1. /\ \A i \in DOMAIN m.commands : i <= q.mark
          /\ m.kind = "gamestate" => m.mark <= q.mark
      BY <1>3, <2>1, <2>2, <2>4 DEF CommandsInv, ToClientInv
    <3>2. q.mark \in Nat /\ clSequence <= q.mark
      BY <2>3, <2>4 DEF ServerMessages
    <3>. QED  BY <1>4, <2>4, <3>1, <3>2
  <2>5. ~discarded => a <= clSequence'
    <3>1. ~discarded => a <= clSequence /\ clSequence <= clSequence'
      BY <1>4, <2>3
    <3>2. clSequence \in Int /\ clSequence' \in Int
      BY <1>4, Numbers
    <3>. QED  BY <3>1, <3>2
  <2>6. CommandsOf(a, b)' = CommandsOf(a, b)
    BY DEF CommandsOf
  <2>7. ServerMessageOK(q)'
    BY <1>2, <2>2, <2>3, <2>4, <2>5, <2>6 DEF ServerMessageOK, serverVars
  <2>. QED  BY <2>1, <2>2, <2>7
<1>8. ASSUME ~discarded, NEW i \in 1 .. Len(toClient'), NEW j \in 1 .. Len(toClient'), i < j,
             toClient'[j].kind = "gamestate"
      PROVE  /\ \A n \in DOMAIN toClient'[i].commands : n <= toClient'[j].mark
             /\ toClient'[i].kind = "gamestate" => toClient'[i].mark <= toClient'[j].mark
  <2>1. /\ i + k \in 1 .. Len(toClient) /\ j + k \in 1 .. Len(toClient) /\ i + k < j + k
        /\ toClient'[i] = toClient[i + k] /\ toClient'[j] = toClient[j + k]
    BY SMTT(30), <1>6, <1>8
  <2>. QED  BY <1>8, <2>1 DEF CommandsInv, ToClientInv
<1>9. ToClientInv'
  BY <1>2, <1>7, <1>8 DEF ToClientInv
<1>10. ToServerInv'
  BY <1>2, <1>4, <1>5, ToServerStays DEF serverVars
<1>11. TypeOK'
  <2>1. cgSequence' \in 0 .. clSequence'
    <3>1. cgSequence' \in Nat /\ snap'.num \in Nat /\ clSequence' \in Nat
          /\ cgSequence' <= snap'.num /\ snap'.num <= clSequence'
      BY <1>4
    <3>. QED  BY <3>1
  <2>. QED  BY <1>2, <1>4, <2>1 DEF CommandsInv, TypeOK, serverVars
<1>12. ExtraTypes'
  BY <1>2, <1>4, <1>6 DEF CommandsInv, ExtraTypes
<1>13. RingInv'
  BY <1>2 DEF CommandsInv, RingInv, Oldest, Text, serverVars
<1>14. OrderInv'
  <2>. SUFFICES ASSUME ~discarded
                PROVE  reliableAcknowledge <= clSequence' /\ clSequence' <= reliableSent
    BY <1>2 DEF CommandsInv, OrderInv, serverVars
  <2>1. reliableAcknowledge <= clSequence /\ clSequence <= clSequence'
        /\ clSequence' <= reliableSent
    BY <1>4 DEF CommandsInv, OrderInv
  <2>2. reliableAcknowledge \in Int /\ clSequence \in Int /\ clSequence' \in Int
    BY <1>4, Numbers
  <2>. QED  BY <2>1, <2>2
<1>. QED  BY <1>4, <1>9, <1>10, <1>11, <1>12, <1>13, <1>14 DEF CommandsInv

\* cgame finds the commands it has not executed in the client's ring, or gives up.
LEMMA ExecuteNewInv ==
    ASSUME CommandsInv, CG_ExecuteNewServerCommands
    PROVE  CommandsInv'
<1>1. /\ UNCHANGED <<serverVars, clServerId, clSequence, clCommands, clLater, snap,
                     toClient, toServer, issued, discarded, skipped, added>>
      /\ cgSequence < snap.num
      /\ clFailed' \in BOOLEAN
      /\ \/ UNCHANGED <<cgSequence, executed>>
         \/ /\ ~CycledOut(cgSequence + 1)
            /\ executed' = executed \union
                  {[num |-> i, cmd |-> clCommands[Slot(i)]] : i \in cgSequence + 1 .. snap.num}
            /\ cgSequence' = snap.num
  BY DEF CG_ExecuteNewServerCommands, CommandsInv, TypeOK
<1>2. /\ cgSequence \in Nat /\ snap.num \in Nat /\ clSequence \in Nat /\ snap.num <= clSequence
      /\ MAX_RELIABLE_COMMANDS \in Nat /\ reliableSent \in Nat
  BY Numbers
<1>3. cgSequence' \in cgSequence .. snap.num
  BY <1>1, <1>2
<1>4. Continues
  BY <1>1, Numbers DEF Continues, serverVars, CommandsInv, TypeOK
<1>5. TypeOK' /\ ExtraTypes'
  <2>1. cgSequence' \in 0 .. clSequence /\ cgSequence' <= snap.num
    BY <1>2, <1>3
  <2>. QED  BY <1>1, <2>1 DEF CommandsInv, TypeOK, ExtraTypes, serverVars
<1>6. RingInv' /\ OrderInv'
  BY <1>1 DEF CommandsInv, RingInv, OrderInv, Oldest, Text, serverVars
<1>7. ASSUME ~discarded, NEW e \in executed'
      PROVE  e.num \in 1 .. reliableSent /\ e.cmd = issued[e.num]
  <2>1. CASE e \in executed
    BY <1>7, <2>1 DEF CommandsInv, ClientInv
  <2>2. CASE e \notin executed
    <3>1. ~CycledOut(cgSequence + 1)
      BY <1>1, <1>7, <2>2
    <3>2. PICK i \in cgSequence + 1 .. snap.num : e = [num |-> i, cmd |-> clCommands[Slot(i)]]
      BY <1>1, <1>7, <2>2
    <3>3. i \in 0 .. clSequence /\ i > clSequence - MAX_RELIABLE_COMMANDS /\ i > cgSequence /\ i # 0
      BY <1>2, <3>1, <3>2 DEF CycledOut
    <3>7. i \notin skipped
      <4>1. i \in skipped => i <= cgSequence
        BY <1>7 DEF CommandsInv, ClientInv
      <4>. QED  BY <1>2, <3>3, <4>1
    <3>4. clCommands[Slot(i)] = issued[i]
      BY <1>7, <3>3, <3>7 DEF CommandsInv, ClientInv, Text
    <3>5. clSequence <= reliableSent
      BY <1>7 DEF CommandsInv, OrderInv
    <3>6. i \in 1 .. reliableSent
      BY <1>2, <3>3, <3>5
    <3>. QED  BY <3>2, <3>4, <3>6
  <2>. QED  BY <2>1, <2>2
<1>8. ClientInv'
  <2>1. ASSUME ~discarded,
               NEW i \in 0 .. clSequence, i > clSequence - MAX_RELIABLE_COMMANDS,
               i \notin skipped
        PROVE  clCommands[Slot(i)] = Text(i)
    BY <2>1 DEF CommandsInv, ClientInv
  <2>2. \A i \in 0 .. clSequence : Text(i)' = Text(i)
    BY <1>1 DEF Text
  <2>3. reliableSent' = reliableSent
    BY <1>1 DEF serverVars
  <2>4. ASSUME ~discarded, NEW i \in skipped PROVE i <= cgSequence'
    <3>1. i <= cgSequence /\ i \in Nat
      BY <2>4 DEF CommandsInv, ClientInv, TypeOK
    <3>. QED  BY <1>2, <1>3, <3>1
  <2>5. ~discarded => snap.num >= snap.asOf \/ snap.deferred
    BY DEF CommandsInv, ClientInv
  <2>. QED  BY <1>1, <1>7, <2>1, <2>2, <2>3, <2>4, <2>5 DEF ClientInv
<1>9. ToClientInv' /\ ToServerInv'
  BY <1>1, <1>2, <1>4, ToClientStays, ToServerStays DEF serverVars
<1>. QED  BY <1>5, <1>6, <1>8, <1>9 DEF CommandsInv

-----------------------------------------------------------------------------
(***************************************************************************)
(* The server receives a message.                                          *)
(***************************************************************************)
SameReceipt(p, q) ==
    p.serverId = q.serverId /\ p.acknowledge = q.acknowledge /\ p.key = q.key

\* The messages behind the one received acknowledge no less.
LEMMA ReceivedByServer ==
    ASSUME CommandsInv, Continues, clSequence' = clSequence,
           NEW k \in 1 .. Len(toServer), NEW rest \in Seq(ClientMessages),
           Len(rest) = Len(toServer) - k,
           \A i \in 1 .. Len(rest) : SameReceipt(rest[i], toServer[i + k]),
           toServer' = rest,
           ~discarded' => reliableAcknowledge' = toServer[k].acknowledge
    PROVE  ToServerInv'
<1>1. Len(toServer) \in Nat /\ clSequence \in Nat
  BY InFlight, Numbers
<1>2. ~discarded' => ~discarded
  BY DEF Continues
<1>3. ASSUME NEW i \in 1 .. Len(rest) PROVE ClientMessageOK(rest[i])'
  <2>1. i + k \in 1 .. Len(toServer) /\ k < i + k
    BY <1>1
  <2>2. PICK p \in ClientMessages : p = rest[i]
    OBVIOUS
  <2>3. ClientMessageOK(p)
    BY <2>1, <2>2, InFlight DEF SameReceipt, ClientMessageOK
  <2>4. ~discarded' => toServer[k].acknowledge <= p.acknowledge
    BY <1>2, <2>1, <2>2 DEF CommandsInv, ToServerInv, SameReceipt
  <2>5. ClientMessageOK(p)'
    BY <1>1, <2>3, <2>4, ClientMessageStays
  <2>. QED  BY <2>2, <2>5
<1>4. ASSUME ~discarded', NEW i \in 1 .. Len(rest), NEW j \in 1 .. Len(rest), i < j
      PROVE  rest[i].acknowledge <= rest[j].acknowledge
  <2>1. i + k \in 1 .. Len(toServer) /\ j + k \in 1 .. Len(toServer) /\ i + k < j + k
    BY <1>1, <1>4
  <2>. QED  BY <1>2, <1>4, <2>1 DEF CommandsInv, ToServerInv, SameReceipt
<1>. QED  BY <1>3, <1>4 DEF ToServerInv

LEMMA NotLaterElements ==
    /\ \A c \in Seq(ServerMessages) :
          /\ NotLater(c) \in Seq(ServerMessages) /\ Len(NotLater(c)) = Len(c)
          /\ \A k \in 1 .. Len(c) : SameContent(NotLater(c)[k], c[k])
    /\ \A c \in Seq(ClientMessages) :
          /\ NotLater(c) \in Seq(ClientMessages) /\ Len(NotLater(c)) = Len(c)
          /\ \A k \in 1 .. Len(c) : SameReceipt(NotLater(c)[k], c[k])
<1>1. ASSUME NEW c \in Seq(ServerMessages)
      PROVE  /\ NotLater(c) \in Seq(ServerMessages) /\ Len(NotLater(c)) = Len(c)
             /\ \A k \in 1 .. Len(c) : SameContent(NotLater(c)[k], c[k])
  <2>1. /\ Len(c) \in Nat /\ DOMAIN c = 1 .. Len(c)
        /\ \A k \in 1 .. Len(c) : c[k] \in ServerMessages
    OBVIOUS
  <2>2. ASSUME NEW m \in ServerMessages
        PROVE  [m EXCEPT !.later = FALSE] \in ServerMessages
               /\ SameContent([m EXCEPT !.later = FALSE], m)
    BY DEF ServerMessages, SameContent
  <2>3. NotLater(c) = [k \in 1 .. Len(c) |-> [c[k] EXCEPT !.later = FALSE]]
    BY <2>1 DEF NotLater
  <2>4. /\ NotLater(c) \in [1 .. Len(c) -> ServerMessages]
        /\ \A k \in 1 .. Len(c) : SameContent(NotLater(c)[k], c[k])
    BY <2>1, <2>2, <2>3
  <2>5. NotLater(c) \in Seq(ServerMessages) /\ Len(NotLater(c)) = Len(c)
    BY <2>1, <2>4
  <2>. QED  BY <2>4, <2>5
<1>2. ASSUME NEW c \in Seq(ClientMessages)
      PROVE  /\ NotLater(c) \in Seq(ClientMessages) /\ Len(NotLater(c)) = Len(c)
             /\ \A k \in 1 .. Len(c) : SameReceipt(NotLater(c)[k], c[k])
  <2>1. /\ Len(c) \in Nat /\ DOMAIN c = 1 .. Len(c)
        /\ \A k \in 1 .. Len(c) : c[k] \in ClientMessages
    OBVIOUS
  <2>2. ASSUME NEW m \in ClientMessages
        PROVE  [m EXCEPT !.later = FALSE] \in ClientMessages
               /\ SameReceipt([m EXCEPT !.later = FALSE], m)
    BY DEF ClientMessages, SameReceipt
  <2>3. NotLater(c) = [k \in 1 .. Len(c) |-> [c[k] EXCEPT !.later = FALSE]]
    BY <2>1 DEF NotLater
  <2>4. /\ NotLater(c) \in [1 .. Len(c) -> ClientMessages]
        /\ \A k \in 1 .. Len(c) : SameReceipt(NotLater(c)[k], c[k])
    BY <2>1, <2>2, <2>3
  <2>5. NotLater(c) \in Seq(ClientMessages) /\ Len(NotLater(c)) = Len(c)
    BY <2>1, <2>4
  <2>. QED  BY <2>4, <2>5
<1>. QED  BY <1>1, <1>2

\* A game state speaks for all the commands added so far, and carries those not acknowledged
\* unless it defers some.
LEMMA GameStateSent ==
    ASSUME CommandsInv, NEW m \in ClientMessages, ClientMessageOK(m), Legible(m),
           state # "ZOMBIE",
           UNCHANGED <<serverId, reliableSequence, clSequence, issued, discarded, skipped>>,
           reliableSent' = reliableSequence,
           toClient' = Send(NotLater(toClient), GameState(m.acknowledge))
    PROVE  toClient' \in Seq(ServerMessages) /\ ToClientInv'
<1>. DEFINE R == reliableSequence
<1>1. /\ R \in Nat /\ reliableSent \in Nat /\ serverId \in Nat /\ DeferAfter \in Nat
      /\ MAX_RELIABLE_COMMANDS \in Nat /\ clSequence \in Nat /\ m.acknowledge \in Nat
  BY Numbers DEF ClientMessages
<1>2. PICK a \in 0 .. R : a = m.acknowledge /\ R - a <= MAX_RELIABLE_COMMANDS - 1
  BY <1>1 DEF Legible, Unacknowledged
<1>3. PICK b \in a .. R :
          /\ Written(a) \in CommandsOf(a, b)
          /\ b <= a + MAX_RELIABLE_COMMANDS
          /\ Defers(a) \/ b = R
          /\ \A i \in a + 1 .. b : i > Oldest => Written(a)[i] = issued[i]
  <2>1. R <= a + MAX_RELIABLE_COMMANDS
    BY <1>1, <1>2
  <2>. QED  BY <2>1, WrittenFacts
<1>4. PICK g : g = GameState(a)
  OBVIOUS
<1>5. /\ g.kind = "gamestate" /\ g.serverId = serverId /\ g.commands = Written(a)
      /\ g.mark = R /\ g.asOf = 0 /\ g.deferred = Defers(a)
  BY <1>4 DEF GameState
<1>6. g \in ServerMessages
  <2>. DEFINE ab == <<a, b>>
  <2>1. ab \in Nat \X Nat /\ Written(a) \in CommandsOf(ab[1], ab[2])
    BY <1>1, <1>3
  <2>2. Written(a) \in UNION {CommandsOf(x[1], x[2]) : x \in Nat \X Nat}
    BY <2>1
  <2>3. Defers(a) \in BOOLEAN
    BY DEF Defers
  <2>. QED  BY <1>1, <1>4, <2>2, <2>3 DEF GameState, ServerMessages
<1>7. ~discarded => clSequence <= reliableSent /\ reliableSent <= R /\ a <= clSequence
  BY <1>2 DEF CommandsInv, OrderInv, ClientMessageOK
<1>8. Continues
  BY <1>1, <1>7 DEF Continues, CommandsInv, TypeOK
<1>9. ServerMessageOK(g)'
  <2>1. ASSUME NEW i \in DOMAIN g.commands PROVE g.commands[i] = issued[i]
    <3>1. i \in a + 1 .. b
      BY <1>3, <1>5 DEF CommandsOf
    <3>2. i > Oldest
      BY <1>1, <1>2, <3>1 DEF Oldest
    <3>. QED  BY <1>3, <1>5, <3>1, <3>2
  <2>2. g.deferred \/ b = R
    BY <1>3, <1>5
  <2>3. /\ a \in Nat /\ b \in Nat /\ a <= b /\ b <= R /\ R <= R
        /\ g.kind # "snapshot" /\ g.serverId <= serverId
    BY <1>1, <1>3, <1>5
  <2>4. ~discarded => clSequence <= R
    BY <1>1, <1>7
  <2>5. g.commands \in CommandsOf(a, b)'
    BY <1>3, <1>5 DEF CommandsOf
  <2>6. ~discarded' =>
            /\ a <= clSequence' /\ b <= reliableSent'
            /\ g.kind = "gamestate" =>
                  /\ b <= g.mark /\ clSequence' <= g.mark /\ g.mark <= reliableSent'
                  /\ g.deferred \/ b = g.mark
            /\ g.kind = "snapshot" => g.deferred \/ g.asOf <= b
    BY <1>5, <1>7, <2>2, <2>3, <2>4, <2>5
  <2>. QED  BY <1>3, <2>1, <2>3, <2>5, <2>6 DEF ServerMessageOK
<1>10. PICK c : c = NotLater(toClient)
  OBVIOUS
<1>11. /\ c \in Seq(ServerMessages) /\ Len(c) = Len(toClient)
       /\ \A k \in 1 .. Len(c) : SameContent(c[k], toClient[k])
  <2>1. toClient \in Seq(ServerMessages)
    BY InFlight
  <2>. QED  BY <1>10, <2>1, NotLaterElements
<1>12. toClient' = Send(c, g)
  BY <1>2, <1>4, <1>10
<1>13. ~discarded' /\ g.kind = "gamestate" => reliableSent <= g.mark
  BY <1>5, <1>7
<1>. QED  BY <1>6, <1>8, <1>9, <1>11, <1>12, <1>13, SentToClient

LEMMA ExecuteMessageInv ==
    ASSUME CommandsInv, SV_ExecuteClientMessage
    PROVE  CommandsInv'
<1>. DEFINE N == MAX_RELIABLE_COMMANDS
            R == reliableSequence
<1>1. PICK k \in 1 .. Len(toServer) :
          IF state = "ZOMBIE"
          THEN /\ toServer' = After(toServer, k)
               /\ UNCHANGED <<serverVars, toClient, clLater, discarded>>
          ELSE /\ serverIdAcknowledge' = toServer[k].serverId
               /\ \/ ExecuteIllegible(toServer[k], After(toServer, k))
                  \/ ExecuteOfOtherMap(toServer[k], After(toServer, k))
                  \/ ExecuteMove(toServer[k], After(toServer, k))
               /\ UNCHANGED <<serverId, reliableSequence, reliableCommands>>
  BY DEF SV_ExecuteClientMessage
<1>2. UNCHANGED <<clServerId, clSequence, clCommands, snap, cgSequence, clFailed,
                  issued, executed, skipped, added>>
  BY DEF SV_ExecuteClientMessage
<1>3. PICK m \in ClientMessages : m = toServer[k] /\ ClientMessageOK(m)
  BY InFlight
<1>4. /\ R \in Nat /\ N \in Nat /\ reliableAcknowledge \in Nat /\ reliableSent \in Nat
      /\ serverId \in Nat /\ clSequence \in Nat /\ m.acknowledge \in Nat /\ m.serverId \in Nat
      /\ m.serverId <= serverId
  BY <1>3, Numbers DEF ClientMessages, ClientMessageOK
<1>5. PICK rest : rest = After(toServer, k)
  OBVIOUS
<1>6. /\ rest \in Seq(ClientMessages) /\ Len(rest) = Len(toServer) - k
      /\ \A i \in 1 .. Len(rest) : SameReceipt(rest[i], toServer[i + k])
  <2>1. toServer \in Seq(ClientMessages)
    BY InFlight
  <2>2. /\ rest \in Seq(ClientMessages) /\ Len(rest) = Len(toServer) - k
        /\ \A i \in 1 .. Len(toServer) - k : rest[i] = toServer[i + k]
    BY <1>5, <2>1, AfterElements
  <2>. QED  BY <2>2 DEF SameReceipt
\* What is left to show of the case at hand.
<1>. DEFINE Facts ==
              /\ UNCHANGED <<serverId, reliableSequence, reliableCommands>>
              /\ serverIdAcknowledge' \in 0 .. serverId
              /\ state' \in {"ZOMBIE", "CONNECTED", "PRIMED", "ACTIVE"}
              /\ state = "ZOMBIE" <=> state' = "ZOMBIE"
              /\ state = "ZOMBIE" => reliableAcknowledge' = reliableAcknowledge
              /\ reliableAcknowledge' \in 0 .. R /\ R <= reliableAcknowledge' + N
              /\ discarded' \in BOOLEAN /\ (discarded => discarded') /\ clLater' \in BOOLEAN
              /\ ~discarded' => reliableAcknowledge' = m.acknowledge /\ state # "ZOMBIE"
              /\ toServer' \in {rest, NotLater(rest)}
              /\ \/ UNCHANGED <<toClient, reliableSent>>
                 \/ /\ reliableSent' = R
                    /\ toClient' \in Seq(ServerMessages) /\ ToClientInv'
<1>7. Facts
  <2>1. CASE state = "ZOMBIE"
    <3>1. discarded
      BY <2>1 DEF CommandsInv, OrderInv
    <3>2. /\ UNCHANGED <<serverVars, toClient, clLater, discarded>>
          /\ toServer' = rest
      BY <1>1, <1>5, <2>1
    <3>. QED  BY <1>4, <2>1, <3>1, <3>2, Numbers DEF serverVars, CommandsInv, TypeOK
  <2>2. ASSUME state # "ZOMBIE"
        PROVE  /\ UNCHANGED <<serverId, reliableSequence, reliableCommands>>
               /\ serverIdAcknowledge' \in 0 .. serverId
               /\ state \in {"CONNECTED", "PRIMED", "ACTIVE"}
               /\ discarded \in BOOLEAN /\ clLater \in BOOLEAN
    BY <1>1, <1>3, <1>4, <2>2 DEF CommandsInv, TypeOK
  <2>3. CASE state # "ZOMBIE" /\ ExecuteIllegible(m, rest)
    BY <1>4, <2>2, <2>3 DEF ExecuteIllegible
  <2>4. ASSUME Legible(m), reliableAcknowledge' = m.acknowledge
        PROVE  reliableAcknowledge' \in 0 .. R /\ R <= reliableAcknowledge' + N
    <3>1. R - m.acknowledge \in 0 .. N - 1
      BY <2>4 DEF Legible, Unacknowledged
    <3>2. m.acknowledge <= R /\ R <= m.acknowledge + N
      BY <1>4, <3>1
    <3>. QED  BY <1>4, <2>4, <3>2
  <2>5. CASE state # "ZOMBIE" /\ ExecuteOfOtherMap(m, rest)
    <3>1. Legible(m) /\ reliableAcknowledge' = m.acknowledge /\ discarded' = discarded
      BY <2>5 DEF ExecuteOfOtherMap
    <3>2. CASE ResendGameState(m, rest)
      <4>1. /\ state' = "PRIMED" /\ reliableSent' = R /\ clLater' = FALSE
            /\ toServer' = NotLater(rest)
            /\ toClient' = Send(NotLater(toClient), GameState(m.acknowledge))
        BY <3>2 DEF ResendGameState
      <4>2. toClient' \in Seq(ServerMessages) /\ ToClientInv'
        BY <1>2, <1>3, <2>2, <2>5, <3>1, <4>1, GameStateSent
      <4>. QED  BY <2>2, <2>4, <2>5, <3>1, <4>1, <4>2
    <3>3. CASE toServer' = rest /\ UNCHANGED <<state, reliableSent, toClient, clLater>>
      BY <2>2, <2>4, <2>5, <3>1, <3>3
    <3>. QED  BY <2>5, <3>2, <3>3 DEF ExecuteOfOtherMap
  <2>6. CASE state # "ZOMBIE" /\ ExecuteMove(m, rest)
    <3>1. /\ Legible(m) /\ reliableAcknowledge' = m.acknowledge /\ discarded' = discarded
          /\ state' \in {state, "ACTIVE"} /\ toServer' = rest
          /\ UNCHANGED <<reliableSent, toClient, clLater>>
      BY <2>6 DEF ExecuteMove
    <3>. QED  BY <2>2, <2>4, <2>6, <3>1
  <2>. QED  BY <1>1, <1>3, <1>5, <2>1, <2>3, <2>5, <2>6
<1>. HIDE DEF Facts
<1>8. ~discarded' =>
          /\ ~discarded /\ state' # "ZOMBIE"
          /\ reliableAcknowledge' <= clSequence
          /\ clSequence <= reliableSent /\ reliableSent <= R
          /\ reliableSent' \in {reliableSent, R}
  BY <1>3, <1>7 DEF Facts, CommandsInv, OrderInv, ClientMessageOK
<1>9. reliableSent' \in Nat
  BY <1>4, <1>7 DEF Facts
<1>10. Continues
  BY <1>2, <1>4, <1>7, <1>8, <1>9 DEF Facts, Continues
<1>11. TypeOK'
  <2>1. reliableSequence' \in 0 .. reliableAcknowledge' + N
    <3>1. PICK a \in 0 .. R : a = reliableAcknowledge' /\ R <= a + N /\ R' = R
      BY <1>7 DEF Facts
    <3>2. ASSUME NEW r \in Nat, NEW b \in Int, NEW n \in Int, r <= b + n PROVE r \in 0 .. b + n
      BY <3>2
    <3>3. a \in Int /\ R \in Nat /\ N \in Int
      BY <1>4
    <3>4. R <= a + N
      BY <3>1
    <3>5. R \in 0 .. a + N
      BY <3>2, <3>3, <3>4
    <3>. QED  BY <3>1, <3>5
  <2>2. /\ state' \in {"ZOMBIE", "CONNECTED", "PRIMED", "ACTIVE"}
        /\ serverId' = serverId /\ serverIdAcknowledge' \in 0 .. serverId'
        /\ reliableAcknowledge' \in 0 .. reliableSequence'
        /\ reliableCommands' = reliableCommands
        /\ clLater' \in BOOLEAN /\ discarded' \in BOOLEAN
        /\ reliableSequence' = reliableSequence
    BY <1>7 DEF Facts
  <2>. QED  BY <1>2, <1>9, <2>1, <2>2 DEF CommandsInv, TypeOK
<1>12. toServer' \in Seq(ClientMessages) /\ ToServerInv'
  <2>1. PICK r : r = toServer'
    OBVIOUS
  <2>2. /\ r \in Seq(ClientMessages) /\ Len(r) = Len(rest)
        /\ \A i \in 1 .. Len(rest) : SameReceipt(r[i], rest[i])
    <3>1. \A i \in 1 .. Len(rest) : SameReceipt(rest[i], rest[i])
      BY DEF SameReceipt
    <3>2. r = rest \/ r = NotLater(rest)
      BY <1>7, <2>1 DEF Facts
    <3>. QED  BY <1>6, <3>1, <3>2, NotLaterElements
  <2>3. \A i \in 1 .. Len(r) : SameReceipt(r[i], toServer[i + k])
    BY <1>6, <2>2 DEF SameReceipt
  <2>4. ~discarded' => reliableAcknowledge' = toServer[k].acknowledge
    BY <1>3, <1>7 DEF Facts
  <2>. QED  BY <1>2, <1>6, <1>10, <2>1, <2>2, <2>3, <2>4, ReceivedByServer
<1>13. toClient' \in Seq(ServerMessages) /\ ToClientInv'
  <2>1. CASE UNCHANGED <<toClient, reliableSent>>
    BY <1>2, <1>10, <2>1, ToClientStays, InFlight
  <2>. QED  BY <1>7, <2>1 DEF Facts
<1>14. ExtraTypes'
  BY <1>2, <1>12, <1>13 DEF CommandsInv, ExtraTypes
<1>15. RingInv'
  <2>1. Oldest' = Oldest
    BY <1>7 DEF Facts, Oldest
  <2>. QED  BY <1>2, <1>7, <2>1 DEF Facts, CommandsInv, RingInv, Text
<1>16. OrderInv'
  <2>1. ~discarded' => clSequence <= reliableSent' /\ reliableSent' <= R
    BY <1>4, <1>8
  <2>. QED  BY <1>2, <1>7, <1>8, <2>1 DEF Facts, OrderInv
<1>17. ClientInv'
  BY <1>2, <1>10, ClientStays
<1>. QED  BY <1>11, <1>12, <1>13, <1>14, <1>15, <1>16, <1>17 DEF CommandsInv

-----------------------------------------------------------------------------
(***************************************************************************)
(* The theorems.                                                           *)
(***************************************************************************)
LEMMA InitInv == Init => CommandsInv
<1>. SUFFICES ASSUME Init PROVE CommandsInv
  OBVIOUS
<1>1. /\ MAX_RELIABLE_COMMANDS \in Nat /\ MaxServerId \in Nat \ {0}
      /\ Slot(0) \in 0 .. MAX_RELIABLE_COMMANDS - 1
      /\ NoCommand \in Command
  BY RingAssumption, BoundsAssumption, SlotInRing DEF Command, NoCommand
<1>2. TypeOK
  <2>1. /\ reliableCommands \in [0 .. MAX_RELIABLE_COMMANDS - 1 -> Command]
        /\ clCommands \in [0 .. MAX_RELIABLE_COMMANDS - 1 -> Command]
        /\ issued \in Seq(Command) /\ Len(issued) = 0
    BY <1>1 DEF Init
  <2>2. 1 \in 1 .. MaxServerId /\ 0 \in 0 .. 1 /\ 0 \in 0 .. 0
        /\ 0 \in 0 .. 0 + MAX_RELIABLE_COMMANDS
    BY <1>1
  <2>. QED  BY <2>1, <2>2 DEF Init, TypeOK
<1>3. ExtraTypes
  <2>1. toClient \in Seq(ServerMessages) /\ toServer \in Seq(ClientMessages)
    BY DEF Init
  <2>. QED  BY <2>1 DEF Init, ExtraTypes
<1>4. RingInv /\ OrderInv /\ ClientInv
  BY <1>1 DEF Init, RingInv, OrderInv, ClientInv, Text
<1>5. ToClientInv /\ ToServerInv
  BY DEF Init, ToClientInv, ToServerInv
<1>. QED  BY <1>2, <1>3, <1>4, <1>5 DEF CommandsInv

LEMMA InvStep ==
    ASSUME CommandsInv, [Next]_vars
    PROVE  CommandsInv'
<1>1. CASE SV_AddServerCommand
  BY <1>1, AddInv
<1>2. CASE SV_DropClient
  BY <1>2, DropInv
<1>3. CASE SV_SendClientSnapshot
  BY <1>3, SnapshotInv
<1>4. CASE SV_SpawnServer
  BY <1>4, SpawnInv
<1>5. CASE CL_WritePacket
  BY <1>5, WritePacketInv
<1>6. CASE CL_ParseServerMessage
  BY <1>6, ParseInv
<1>7. CASE CG_ExecuteNewServerCommands
  BY <1>7, ExecuteNewInv
<1>8. CASE SV_ExecuteClientMessage
  BY <1>8, ExecuteMessageInv
<1>9. CASE UNCHANGED vars
  <2>1. RestUnchanged /\ UNCHANGED <<state, reliableSequence, reliableCommands, issued, discarded>>
    BY <1>9 DEF vars, serverVars, RestUnchanged, CommandsInv, ExtraTypes
  <2>. QED  BY <2>1, IgnoreStep, RingStepInv
<1>. QED  BY <1>1, <1>2, <1>3, <1>4, <1>5, <1>6, <1>7, <1>8, <1>9 DEF Next

\* The inductive invariant: both rings and the messages in flight are windows of the one
\* sequence of commands the server issued, as long as it forgets none of them.
THEOREM CommandsInvariant == Spec => []CommandsInv
<1>1. Init => CommandsInv
  BY InitInv
<1>2. CommandsInv /\ [Next]_vars => CommandsInv'
  BY InvStep
<1>. QED  BY <1>1, <1>2, PTL DEF Spec

\* The state keeps its types: no more commands are pending than the ring has slots, even
\* when the client is dropped, and the client's cgame is never ahead of the client.
THEOREM TypeCorrect == Spec => []TypeOK
<1>1. CommandsInv => TypeOK
  BY DEF CommandsInv
<1>. QED  BY <1>1, CommandsInvariant, PTL

\* SV_UpdateServerCommandsToClient finds every command it may have to send again.
THEOREM PendingStaysIntact == Spec => []PendingIntact
<1>1. CommandsInv => PendingIntact
  <2>. SUFFICES ASSUME CommandsInv, NEW i \in Pending
                PROVE  reliableCommands[Slot(i)] = issued[i]
    BY DEF PendingIntact
  <2>1. i \in 0 .. reliableSequence /\ i # 0 /\ i > Oldest
    <3>1. /\ reliableAcknowledge \in Nat /\ reliableSequence \in Nat
          /\ Oldest \in Int /\ Oldest <= reliableAcknowledge
      BY Numbers, OldestBelow
    <3>2. i \in reliableAcknowledge + 1 .. reliableSequence
      BY DEF Pending
    <3>. QED  BY <3>1, <3>2
  <2>. QED  BY <2>1, ServerRing DEF Text
<1>. QED  BY <1>1, CommandsInvariant, PTL

\* CG_ExecuteNewServerCommands executes what was issued under each number, however few
\* commands a message holds.
THEOREM ExecutesAsIssued == Spec => []ExecutedAsIssued
<1>1. CommandsInv => ExecutedAsIssued
  BY DEF CommandsInv, ClientInv, ExecutedAsIssued
<1>. QED  BY <1>1, CommandsInvariant, PTL

\* The client's ring agrees with what was issued, but for the commands that a game state
\* left out for want of room and marked as received.
THEOREM ClientStaysInStep == Spec => []ClientAgrees
<1>1. CommandsInv => ClientAgrees
  <2>. SUFFICES ASSUME CommandsInv, ~discarded PROVE WindowAgrees
    BY DEF ClientAgrees
  <2>1. /\ clSequence \in Nat /\ MAX_RELIABLE_COMMANDS \in Nat
        /\ reliableSent \in Nat /\ reliableSequence \in Nat
    BY Numbers
  <2>2. clSequence <= reliableSequence
    BY <2>1 DEF CommandsInv, OrderInv
  <2>3. ASSUME NEW i \in Max({0, clSequence - MAX_RELIABLE_COMMANDS}) + 1 .. clSequence,
               i \notin skipped
        PROVE  clCommands[Slot(i)] = issued[i]
    <3>1. i \in 0 .. clSequence /\ i # 0 /\ i > clSequence - MAX_RELIABLE_COMMANDS
      BY <2>1, <2>3, MaxOfPair
    <3>. QED  BY <2>3, <3>1 DEF CommandsInv, ClientInv, Text
  <2>. QED  BY <2>2, <2>3 DEF WindowAgrees
<1>. QED  BY <1>1, CommandsInvariant, PTL

\* SV_Netchan_Decode computes the key that CL_Netchan_Encode used, unless the client
\* acknowledges a command that a game state left out.
THEOREM KeysAgree == Spec => []KeyAgreement
<1>1. CommandsInv => KeyAgreement
  <2>. SUFFICES ASSUME CommandsInv, ~discarded, NEW k \in DOMAIN toServer,
                       Legible(toServer[k]), toServer[k].acknowledge \notin skipped
                PROVE  reliableCommands[Slot(toServer[k].acknowledge)] = toServer[k].key
    BY DEF KeyAgreement
  <2>1. k \in 1 .. Len(toServer)
    BY InFlight
  <2>2. PICK m \in ClientMessages : m = toServer[k] /\ ClientMessageOK(m)
    BY <2>1, InFlight
  <2>3. /\ m.acknowledge \in Nat /\ reliableSequence \in Nat /\ MAX_RELIABLE_COMMANDS \in Nat
        /\ reliableSequence - m.acknowledge \in 0 .. MAX_RELIABLE_COMMANDS - 1
    BY <2>2, Numbers DEF ClientMessages, Legible, Unacknowledged
  <2>4. Oldest = reliableSequence - MAX_RELIABLE_COMMANDS
    BY DEF Oldest, CommandsInv, OrderInv
  <2>5. m.acknowledge \in 0 .. reliableSequence /\ m.acknowledge > Oldest
    BY <2>3, <2>4
  <2>6. reliableCommands[Slot(m.acknowledge)] = Text(m.acknowledge)
    BY <2>5, ServerRing
  <2>. QED  BY <2>2, <2>6 DEF ClientMessageOK
<1>. QED  BY <1>1, CommandsInvariant, PTL

\* A snapshot is shown after every command that was added before it, unless its own message
\* left some out.
THEOREM SnapshotsFollowCommands == Spec => []SnapshotAfterCommands
<1>1. CommandsInv => SnapshotAfterCommands
  BY DEF CommandsInv, ClientInv, SnapshotAfterCommands
<1>. QED  BY <1>1, CommandsInvariant, PTL
=============================================================================

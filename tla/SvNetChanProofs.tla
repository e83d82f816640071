--------------------------- MODULE SvNetChanProofs ---------------------------
(***************************************************************************)
(* Proofs about the server's end of a network channel, for every fragment  *)
(* size, every message capacity and every number of messages.              *)
(***************************************************************************)
EXTENDS SvNetChan, TLAPS, SequenceTheorems

(***************************************************************************)
(* The inductive invariant.  Each part relates one piece of the channel's  *)
(* state to the two histories: submitted, the order of the calls, and      *)
(* numbered, the message behind each sequence number.                      *)
(***************************************************************************)
Known(m) == m.id \in 1 .. Len(submitted) /\ submitted[m.id] = m

SubmittedInv == \A i \in 1 .. Len(submitted) : submitted[i].id = i

NumberedInv ==
    /\ Len(numbered) = IF unsentFragments THEN outgoingSequence ELSE outgoingSequence - 1
    /\ \A s \in 1 .. Len(numbered) :
          /\ Known(numbered[s])
          /\ numbered[s].snapshot => numbered[s].expected = s
    /\ \A s, t \in 1 .. Len(numbered) : s < t => numbered[s].id < numbered[t].id

QueueInv ==
    /\ \A i \in 1 .. Len(queue) : Known(queue[i]) /\ ~queue[i].snapshot
    /\ \A i, j \in 1 .. Len(queue) : i < j => queue[i].id < queue[j].id
    /\ \A i \in 1 .. Len(queue), s \in 1 .. Len(numbered) : numbered[s].id < queue[i].id

UnsentInv ==
    unsentFragments =>
        /\ unsentBuffer = numbered[outgoingSequence]
        /\ unsentFragmentStart <= unsentBuffer.length

WireInv ==
    \A p \in wire :
        /\ p.sequence \in 1 .. Len(numbered)
        /\ p.msg = numbered[p.sequence]
        /\ p.start + p.length <= p.msg.length
        /\ p.fragmented /\ p.length # FRAGMENT_SIZE => p.start + p.length = p.msg.length

AssemblyInv ==
    /\ incomingSequence \in 0 .. Len(numbered)
    /\ fragmentLength > 0 =>
          /\ fragmentSequence \in 1 .. Len(numbered)
          /\ fragmentLength <= numbered[fragmentSequence].length
          /\ \A k \in 0 .. fragmentLength - 1 :
                fragmentBuffer[k] = Byte(numbered[fragmentSequence], k)

ChannelInv ==
    /\ SubmittedInv
    /\ NumberedInv
    /\ QueueInv
    /\ UnsentInv
    /\ WireInv
    /\ AssemblyInv

-----------------------------------------------------------------------------
(***************************************************************************)
(* Type correctness.                                                       *)
(***************************************************************************)
LEMMA NewMessageType ==
    ASSUME TypeOK, NEW length \in Lengths, NEW snapshot \in BOOLEAN
    PROVE  NewMessage(length, snapshot) \in Message
BY LengthsAssumption DEF NewMessage, Message, TypeOK, ChanTypeOK

LEMMA ContentsType ==
    ASSUME NEW m \in Message
    PROVE  Contents(m) \in Seq(Bytes)
BY DEF Contents, Message, Bytes, Byte

LEMMA AssemblyType ==
    ASSUME NEW n \in 0 .. MAX_MSGLEN, NEW buffer \in [0 .. MAX_MSGLEN - 1 -> Bytes]
    PROVE  [k \in 1 .. n |-> buffer[k - 1]] \in Seq(Bytes)
<1>1. n \in Nat
  BY MaxMsglenAssumption
<1>2. \A k \in 1 .. n : buffer[k - 1] \in Bytes
  BY MaxMsglenAssumption
<1>3. [k \in 1 .. n |-> buffer[k - 1]] \in [1 .. n -> Bytes]
  BY <1>2
<1>. QED  BY <1>1, <1>3

LEMMA TransmitType ==
    ASSUME TypeOK, NEW m \in Message, Netchan_Transmit(m)
    PROVE  /\ outgoingSequence' \in Nat \ {0}
           /\ unsentFragments' \in BOOLEAN
           /\ unsentFragmentStart' \in Nat
           /\ unsentBuffer' \in Message
           /\ wire' \in SUBSET Packet
<1>. USE FragmentSizeAssumption DEF TypeOK, ChanTypeOK
<1>. m.length \in Nat /\ FRAGMENT_SIZE \in Nat
  BY DEF Message
<1>1. CASE TransmitFirstFragment(m)
  <2>1. Fragment(m, 0, FRAGMENT_SIZE) \in Packet
    BY DEF Fragment, Packet
  <2>. QED  BY <1>1, <2>1 DEF TransmitFirstFragment
<1>2. CASE TransmitWhole(m)
  <2>1. Whole(m) \in Packet
    BY DEF Whole, Packet
  <2>. QED  BY <1>2, <2>1 DEF TransmitWhole
<1>. QED  BY <1>1, <1>2 DEF Netchan_Transmit

LEMMA SubmitType ==
    ASSUME TypeOK, NEW m \in Message, Submit(m)
    PROVE  TypeOK'
<1>1. submitted' \in Seq(Message)
  BY DEF Submit, TypeOK
<1>2. UNCHANGED receiveVars
  BY DEF Submit
<1>3. CASE Busy /\ queue' = Append(queue, m) /\ UNCHANGED <<sendVars, wire, numbered>>
  BY <1>1, <1>2, <1>3 DEF TypeOK, ChanTypeOK, sendVars, receiveVars
<1>4. CASE ~Busy /\ Start(m) /\ UNCHANGED queue
  <2>1. numbered' \in Seq(Message)
    BY <1>4 DEF Start, TypeOK
  <2>. QED
    BY <1>1, <1>2, <1>4, <2>1, TransmitType DEF Start, TypeOK, ChanTypeOK, receiveVars
<1>. QED  BY <1>3, <1>4 DEF Submit, SV_Netchan_Transmit

LEMMA NextFragmentType ==
    ASSUME TypeOK, UnsentInv, unsentFragments, Netchan_TransmitNextFragment
    PROVE  /\ outgoingSequence' \in Nat \ {0}
           /\ unsentFragments' \in BOOLEAN
           /\ unsentFragmentStart' \in Nat
           /\ unsentBuffer' \in Message
           /\ wire' \in SUBSET Packet
<1>1. FragmentLeft \in Nat
  BY FragmentSizeAssumption DEF TypeOK, ChanTypeOK, UnsentInv, FragmentLeft, Message
<1>2. Fragment(unsentBuffer, unsentFragmentStart, FragmentLeft) \in Packet
  BY <1>1 DEF TypeOK, ChanTypeOK, Fragment, Packet
<1>. QED
  BY <1>1, <1>2 DEF TypeOK, ChanTypeOK, Netchan_TransmitNextFragment

LEMMA ProcessType ==
    ASSUME TypeOK, NEW p \in wire, Netchan_Process(p)
    PROVE  /\ incomingSequence' \in Nat
           /\ fragmentSequence' \in Nat
           /\ fragmentLength' \in 0 .. MAX_MSGLEN
           /\ fragmentBuffer' \in [0 .. MAX_MSGLEN - 1 -> Bytes]
           /\ received' \in Seq(Seq(Bytes))
<1>. USE MaxMsglenAssumption DEF TypeOK, ChanTypeOK
<1>1. p \in Packet
  OBVIOUS
<1>. MAX_MSGLEN \in Nat
  OBVIOUS
<1>2. p.sequence \in Nat /\ p.start \in Nat /\ p.length \in Nat /\ p.msg \in Message
  BY <1>1 DEF Packet
<1>3. Assembled(p) \in 0 .. MAX_MSGLEN
  BY DEF Assembled
<1>4. CASE AcceptWhole(p)
  BY <1>2, <1>4, ContentsType DEF AcceptWhole
<1>5. CASE MissFragment(p)
  BY <1>2, <1>3, <1>5 DEF MissFragment
<1>6. CASE TakeFragment(p)
  <2>1. Assembled(p) + p.length \in 0 .. MAX_MSGLEN
    BY <1>2, <1>3, <1>6 DEF TakeFragment
  <2>2. Copied(p) \in [0 .. MAX_MSGLEN - 1 -> Bytes]
    <3>1. ASSUME NEW k \in 0 .. MAX_MSGLEN - 1, k >= Assembled(p)
          PROVE  Byte(p.msg, p.start + (k - Assembled(p))) \in Bytes
      <4>1. p.start + (k - Assembled(p)) \in Nat
        BY SMTT(30), <1>2, <1>3, <3>1
      <4>2. p.msg.id \in Nat
        BY <1>2 DEF Message
      <4>. QED  BY <4>1, <4>2 DEF Byte, Bytes
    <3>. QED  BY <1>3, <3>1 DEF Copied
  <2>3. [k \in 1 .. Assembled(p) + p.length |-> Copied(p)[k - 1]] \in Seq(Bytes)
    BY <2>1, <2>2, AssemblyType
  <2>4. CASE p.length = FRAGMENT_SIZE
    BY <1>2, <1>6, <2>1, <2>2, <2>4 DEF TakeFragment
  <2>5. CASE p.length # FRAGMENT_SIZE
    <3>1. received' = Append(received, [k \in 1 .. Assembled(p) + p.length |-> Copied(p)[k - 1]])
      BY <1>6, <2>5 DEF TakeFragment
    <3>2. received' \in Seq(Seq(Bytes))
      BY <2>3, <3>1
    <3>. QED  BY <1>2, <1>6, <2>2, <2>5, <3>2 DEF TakeFragment
  <2>. QED  BY <2>4, <2>5
<1>. QED  BY <1>4, <1>5, <1>6 DEF Netchan_Process

LEMMA TypeStep ==
    ASSUME TypeOK, UnsentInv, [Next]_vars
    PROVE  TypeOK'
<1>1. CASE SV_SendClientSnapshot
  BY <1>1, NewMessageType, SubmitType DEF SV_SendClientSnapshot
<1>2. CASE SV_SendReliableMessage
  BY <1>2, NewMessageType, SubmitType DEF SV_SendReliableMessage
<1>3. CASE unsentFragments /\ Netchan_TransmitNextFragment
           /\ UNCHANGED <<queue, numbered, receiveVars, submitted>>
  BY <1>3, NextFragmentType DEF TypeOK, ChanTypeOK, receiveVars
<1>4. CASE SV_Netchan_TransmitNextInQueue /\ UNCHANGED <<receiveVars, submitted>>
  <2>1. Head(queue) \in Message /\ Tail(queue) \in Seq(Message)
    BY <1>4 DEF SV_Netchan_TransmitNextInQueue, TypeOK
  <2>2. numbered' \in Seq(Message)
    BY <1>4, <2>1 DEF SV_Netchan_TransmitNextInQueue, Start, TypeOK
  <2>. QED
    BY <1>4, <2>1, <2>2, TransmitType
       DEF SV_Netchan_TransmitNextInQueue, Start, TypeOK, ChanTypeOK, receiveVars
<1>5. CASE SV_Netchan_FreeQueue
  BY <1>5 DEF SV_Netchan_FreeQueue, TypeOK, ChanTypeOK, chanVars, sendVars, receiveVars
<1>6. CASE Receive
  BY <1>6, ProcessType DEF Receive, Netchan_Process, TypeOK, ChanTypeOK, sendVars
<1>7. CASE UNCHANGED vars
  BY <1>7 DEF vars, TypeOK, ChanTypeOK, chanVars, sendVars, receiveVars
<1>. QED
  BY <1>1, <1>2, <1>3, <1>4, <1>5, <1>6, <1>7 DEF Next, SV_Netchan_TransmitNextFragment

-----------------------------------------------------------------------------
(***************************************************************************)
(* The invariant is preserved.                                             *)
(***************************************************************************)
LEMMA InitType == Init => TypeOK
<1>1. NoMessage \in Message
  BY MaxMsglenAssumption DEF NoMessage, Message
<1>2. [k \in 0 .. MAX_MSGLEN - 1 |-> NoByte] \in [0 .. MAX_MSGLEN - 1 -> Bytes]
  BY DEF NoByte, Bytes
<1>3. <<>> \in Seq(Message) /\ <<>> \in Seq(Seq(Bytes))
  OBVIOUS
<1>. SUFFICES ASSUME Init PROVE TypeOK
  OBVIOUS
<1>4. outgoingSequence \in Nat \ {0} /\ fragmentLength \in 0 .. MAX_MSGLEN
  BY MaxMsglenAssumption DEF Init, Netchan_Setup
<1>5. unsentFragments \in BOOLEAN /\ wire \in SUBSET Packet
  BY DEF Init, Netchan_Setup
<1>. QED
  BY <1>1, <1>2, <1>3, <1>4, <1>5 DEF Init, Netchan_Setup, TypeOK, ChanTypeOK

LEMMA InitInv == Init => ChannelInv
BY DEF Init, Netchan_Setup, ChannelInv, SubmittedInv, NumberedInv, QueueInv, UnsentInv,
       WireInv, AssemblyInv

\* What is known stays known when more messages are submitted.
Extends(s, t) == Len(s) <= Len(t) /\ \A i \in 1 .. Len(s) : t[i] = s[i]

LEMMA AppendExtends ==
    ASSUME NEW S, NEW s \in Seq(S), NEW e \in S
    PROVE  /\ Append(s, e) \in Seq(S)
           /\ Extends(s, Append(s, e))
           /\ Len(Append(s, e)) = Len(s) + 1
           /\ Append(s, e)[Len(s) + 1] = e
<1>1. Len(s) \in Nat
  OBVIOUS
<1>2. /\ Append(s, e) \in Seq(S)
      /\ Len(Append(s, e)) = Len(s) + 1
      /\ Append(s, e)[Len(s) + 1] = e
      /\ \A i \in 1 .. Len(s) : Append(s, e)[i] = s[i]
  BY AppendProperties
<1>. QED  BY <1>1, <1>2 DEF Extends

(***************************************************************************)
(* A message gets its sequence number: directly from the caller, or from   *)
(* the head of the queue.                                                  *)
(***************************************************************************)
LEMMA StartInv ==
    ASSUME TypeOK, TypeOK', NumberedInv, WireInv, AssemblyInv, ~unsentFragments,
           Extends(submitted, submitted'), UNCHANGED receiveVars,
           NEW m \in Message, Start(m), Known(m)',
           m.snapshot => m.expected = outgoingSequence,
           \A s \in 1 .. Len(numbered) : numbered[s].id < m.id
    PROVE  NumberedInv' /\ UnsentInv' /\ WireInv' /\ AssemblyInv'
<1>. DEFINE n == Len(numbered)
<1>1. /\ n \in Nat /\ numbered \in Seq(Message)
      /\ outgoingSequence = n + 1
      /\ numbered' = Append(numbered, m)
  BY DEF TypeOK, ChanTypeOK, NumberedInv, Start
<1>2. /\ Len(numbered') = n + 1
      /\ numbered'[n + 1] = m
      /\ \A s \in 1 .. n : numbered'[s] = numbered[s]
  BY <1>1, AppendExtends DEF Extends
<1>3. /\ \A s \in 1 .. n : numbered[s] \in Message /\ numbered[s].id \in Nat
      /\ m.id \in Nat /\ m.length \in Nat /\ FRAGMENT_SIZE \in Nat
  <2>1. \A s \in 1 .. n : numbered[s] \in Message
    BY <1>1
  <2>. QED  BY <2>1, MaxMsglenAssumption, FragmentSizeAssumption DEF Message
<1>4. Len(numbered') = IF unsentFragments' THEN outgoingSequence' ELSE outgoingSequence' - 1
  BY <1>1, <1>2 DEF Start, Netchan_Transmit, TransmitFirstFragment, TransmitWhole
<1>5. NumberedInv'
  <2>1. ASSUME NEW s \in 1 .. n + 1
        PROVE  Known(numbered[s])' /\ (numbered[s].snapshot => numbered[s].expected = s)'
    <3>1. CASE s = n + 1
      BY <1>1, <1>2, <3>1 DEF Known
    <3>2. CASE s \in 1 .. n
      <4>1. /\ submitted \in Seq(Message) /\ submitted' \in Seq(Message)
            /\ Known(numbered[s]) /\ (numbered[s].snapshot => numbered[s].expected = s)
        BY <3>2 DEF TypeOK, NumberedInv
      <4>. QED  BY <1>2, <3>2, <4>1 DEF Known, Extends
    <3>. QED  BY <1>1, <3>1, <3>2
  <2>2. ASSUME NEW s \in 1 .. n + 1, NEW t \in 1 .. n + 1, s < t
        PROVE  numbered'[s].id < numbered'[t].id
    <3>1. CASE t = n + 1
      BY <1>1, <1>2, <2>2, <3>1
    <3>2. CASE t \in 1 .. n
      BY <1>1, <1>2, <2>2, <3>2 DEF NumberedInv
    <3>. QED  BY <1>1, <3>1, <3>2
  <2>3. Len(numbered)' = n + 1
    BY <1>2
  <2>. QED  BY <1>4, <2>1, <2>2, <2>3 DEF NumberedInv
<1>6. UnsentInv'
  BY <1>1, <1>2, <1>3 DEF UnsentInv, Start, Netchan_Transmit, TransmitFirstFragment, TransmitWhole
<1>7. WireInv'
  <2>. DEFINE Good(p) == /\ p.sequence \in 1 .. n + 1
                         /\ p.msg = numbered'[p.sequence]
                         /\ p.start + p.length <= p.msg.length
                         /\ p.fragmented /\ p.length # FRAGMENT_SIZE
                                => p.start + p.length = p.msg.length
  <2>1. \A p \in wire : Good(p)
    BY <1>1, <1>2 DEF WireInv
  <2>2. CASE TransmitFirstFragment(m)
    <3>1. Good(Fragment(m, 0, FRAGMENT_SIZE))
      BY <1>1, <1>2, <1>3, <2>2 DEF TransmitFirstFragment, Fragment
    <3>. QED  BY <1>2, <2>1, <2>2, <3>1 DEF TransmitFirstFragment, WireInv
  <2>3. CASE TransmitWhole(m)
    <3>1. Good(Whole(m))
      BY <1>1, <1>2, <1>3, <2>3 DEF TransmitWhole, Whole
    <3>. QED  BY <1>2, <2>1, <2>3, <3>1 DEF TransmitWhole, WireInv
  <2>. QED  BY <2>2, <2>3 DEF Start, Netchan_Transmit
<1>8. AssemblyInv'
  BY <1>1, <1>2 DEF AssemblyInv, receiveVars
<1>. QED  BY <1>5, <1>6, <1>7, <1>8

\* The next fragment of the message being sent, maybe its last one.
LEMMA FragmentInv ==
    ASSUME TypeOK, TypeOK', NumberedInv, UnsentInv, WireInv, unsentFragments,
           Netchan_TransmitNextFragment, UNCHANGED <<numbered, submitted>>
    PROVE  NumberedInv' /\ UnsentInv' /\ WireInv'
<1>1. /\ unsentBuffer \in Message /\ unsentBuffer.length \in Nat
      /\ unsentFragmentStart \in Nat /\ outgoingSequence \in Nat \ {0}
      /\ FRAGMENT_SIZE \in Nat \ {0}
  BY SMTT(30), FragmentSizeAssumption DEF TypeOK, ChanTypeOK, Message
<1>2. /\ Len(numbered) = outgoingSequence
      /\ unsentBuffer = numbered[outgoingSequence]
      /\ unsentFragmentStart <= unsentBuffer.length
  BY DEF NumberedInv, UnsentInv
<1>3. /\ FragmentLeft \in Nat
      /\ unsentFragmentStart + FragmentLeft <= unsentBuffer.length
      /\ FragmentLeft # FRAGMENT_SIZE => unsentFragmentStart + FragmentLeft = unsentBuffer.length
  BY <1>1, <1>2 DEF FragmentLeft
<1>4. NumberedInv'
  <2>1. CASE IsLastFragment(FragmentLeft)
    <3>1. unsentFragments' = FALSE /\ outgoingSequence' = outgoingSequence + 1
      BY <2>1 DEF Netchan_TransmitNextFragment
    <3>. QED  BY <1>1, <1>2, <3>1 DEF NumberedInv, Known
  <2>2. CASE ~IsLastFragment(FragmentLeft)
    <3>1. unsentFragments' = TRUE /\ outgoingSequence' = outgoingSequence
      BY <2>2 DEF Netchan_TransmitNextFragment
    <3>. QED  BY <1>1, <1>2, <3>1 DEF NumberedInv, Known
  <2>. QED  BY <2>1, <2>2
<1>5. UnsentInv'
  BY <1>1, <1>2, <1>3 DEF Netchan_TransmitNextFragment, UnsentInv
<1>6. WireInv'
  BY <1>1, <1>2, <1>3 DEF Netchan_TransmitNextFragment, Fragment, WireInv
<1>. QED  BY <1>4, <1>5, <1>6

\* A message is submitted: it waits in the queue of a busy channel or starts at once.
LEMMA SubmitInv ==
    ASSUME TypeOK, TypeOK', ChannelInv, NEW length \in Lengths, NEW snapshot \in BOOLEAN,
           Submit(NewMessage(length, snapshot)), snapshot => ~Busy
    PROVE  ChannelInv'
<1>. DEFINE N == Len(submitted)
<1>0. PICK m \in Message : m = NewMessage(length, snapshot)
  BY NewMessageType
<1>1. /\ N \in Nat /\ submitted \in Seq(Message) /\ numbered \in Seq(Message)
      /\ queue \in Seq(Message)
      /\ \A i \in 1 .. N : submitted[i] \in Message
      /\ \A i \in 1 .. Len(numbered) : numbered[i] \in Message
      /\ \A i \in 1 .. Len(queue) : queue[i] \in Message
  BY DEF TypeOK
<1>2. /\ Extends(submitted, submitted')
      /\ Len(submitted') = N + 1
      /\ submitted'[N + 1] = m
      /\ UNCHANGED receiveVars
  BY <1>0, <1>1, AppendExtends DEF Submit
<1>3. /\ m.id = N + 1
      /\ m.snapshot = snapshot
      /\ m.expected = outgoingSequence
  BY <1>0 DEF NewMessage
<1>4. SubmittedInv'
  BY <1>1, <1>2, <1>3 DEF ChannelInv, SubmittedInv, Extends
<1>5. Known(m)'
  BY <1>1, <1>2, <1>3 DEF Known
<1>6. \A s \in 1 .. Len(numbered) : numbered[s].id < m.id
  BY <1>1, <1>3 DEF ChannelInv, NumberedInv, Known
<1>7. \A i \in 1 .. Len(queue) : queue[i].id < m.id
  BY <1>1, <1>3 DEF ChannelInv, QueueInv, Known
<1>8. CASE ~Busy /\ Start(m) /\ UNCHANGED queue
  <2>1. NumberedInv' /\ UnsentInv' /\ WireInv' /\ AssemblyInv'
    BY <1>2, <1>3, <1>5, <1>6, <1>8, StartInv DEF ChannelInv, Busy
  <2>2. QueueInv'
    BY <1>8 DEF Busy, QueueInv
  <2>. QED  BY <1>4, <2>1, <2>2 DEF ChannelInv
<1>9. CASE Busy /\ queue' = Append(queue, m) /\ UNCHANGED <<sendVars, wire, numbered>>
  <2>1. /\ Len(queue') = Len(queue) + 1 /\ queue'[Len(queue) + 1] = m
        /\ \A i \in 1 .. Len(queue) : queue'[i] = queue[i]
    BY <1>1, <1>9, AppendExtends DEF Extends
  <2>2. ~m.snapshot
    BY <1>3, <1>9
  <2>3. Len(queue) \in Nat
    BY <1>1
  <2>4. ASSUME NEW i \in 1 .. Len(queue) + 1
        PROVE  (Known(queue[i]) /\ ~queue[i].snapshot)'
    <3>1. CASE i = Len(queue) + 1
      BY <1>5, <2>1, <2>2, <3>1 DEF Known
    <3>2. CASE i \in 1 .. Len(queue)
      <4>1. Known(queue[i]) /\ ~queue[i].snapshot
        BY <3>2 DEF ChannelInv, QueueInv
      <4>2. queue'[i] = queue[i]
        BY <2>1, <3>2
      <4>. QED  BY <1>1, <1>2, <4>1, <4>2 DEF Known, Extends
    <3>. QED  BY <2>3, <3>1, <3>2
  <2>5. ASSUME NEW i \in 1 .. Len(queue) + 1, NEW j \in 1 .. Len(queue) + 1, i < j
        PROVE  (queue[i].id < queue[j].id)'
    <3>1. CASE j = Len(queue) + 1
      BY <1>7, <2>1, <2>3, <2>5, <3>1
    <3>2. CASE j \in 1 .. Len(queue)
      BY <2>1, <2>3, <2>5, <3>2 DEF ChannelInv, QueueInv
    <3>. QED  BY <2>3, <3>1, <3>2
  <2>6. ASSUME NEW i \in 1 .. Len(queue) + 1, NEW s \in 1 .. Len(numbered)
        PROVE  (numbered[s].id < queue[i].id)'
    <3>1. CASE i = Len(queue) + 1
      BY <1>6, <1>9, <2>1, <3>1
    <3>2. CASE i \in 1 .. Len(queue)
      BY <1>9, <2>1, <3>2 DEF ChannelInv, QueueInv
    <3>. QED  BY <2>3, <3>1, <3>2
  <2>7. QueueInv'
    <3>1. Len(queue)' = Len(queue) + 1 /\ Len(numbered)' = Len(numbered)
      BY <1>9, <2>1
    <3>. QED  BY <2>4, <2>5, <2>6, <3>1 DEF QueueInv
  <2>8. NumberedInv'
    BY <1>1, <1>2, <1>9 DEF ChannelInv, NumberedInv, Known, Extends, sendVars
  <2>9. UnsentInv' /\ WireInv' /\ AssemblyInv'
    BY <1>2, <1>9 DEF ChannelInv, UnsentInv, WireInv, AssemblyInv, sendVars, receiveVars
  <2>. QED  BY <1>4, <2>7, <2>8, <2>9 DEF ChannelInv
<1>. QED  BY <1>0, <1>8, <1>9 DEF Submit, SV_Netchan_Transmit

\* The oldest message of the queue gets its sequence number.
LEMMA NextInQueueInv ==
    ASSUME TypeOK, TypeOK', ChannelInv, ~unsentFragments, SV_Netchan_TransmitNextInQueue,
           UNCHANGED <<receiveVars, submitted>>
    PROVE  ChannelInv'
<1>1. /\ queue \in Seq(Message) /\ queue # <<>> /\ submitted \in Seq(Message)
      /\ numbered \in Seq(Message) /\ Len(numbered) \in Nat
  BY DEF TypeOK, SV_Netchan_TransmitNextInQueue
<1>2. /\ Head(queue) = queue[1] /\ Head(queue) \in Message
      /\ Len(queue) \in Nat /\ Len(queue) >= 1
      /\ Len(Tail(queue)) = Len(queue) - 1
      /\ \A i \in 1 .. Len(queue) - 1 : Tail(queue)[i] = queue[i + 1]
  BY <1>1
<1>3. PICK m \in Message : m = Head(queue)
  BY <1>2
<1>4. Start(m) /\ queue' = Tail(queue)
  BY <1>3 DEF SV_Netchan_TransmitNextInQueue
<1>5. Known(m)' /\ ~m.snapshot
  BY <1>2, <1>3 DEF ChannelInv, QueueInv, Known
<1>6. \A s \in 1 .. Len(numbered) : numbered[s].id < m.id
  BY <1>2, <1>3 DEF ChannelInv, QueueInv
<1>7. Extends(submitted, submitted')
  BY <1>1 DEF Extends
<1>8. NumberedInv' /\ UnsentInv' /\ WireInv' /\ AssemblyInv'
  BY <1>4, <1>5, <1>6, <1>7, StartInv DEF ChannelInv
<1>9. QueueInv'
  <2>1. /\ Len(numbered') = Len(numbered) + 1 /\ numbered'[Len(numbered) + 1] = m
        /\ \A s \in 1 .. Len(numbered) : numbered'[s] = numbered[s]
    BY <1>1, <1>4, AppendExtends DEF Start, Extends
  <2>2. Len(queue') = Len(queue) - 1 /\ \A i \in 1 .. Len(queue') : queue'[i] = queue[i + 1]
    BY <1>2, <1>4
  <2>3. \A i \in 1 .. Len(queue') : (Known(queue[i]) /\ ~queue[i].snapshot)'
    <3>1. SUFFICES ASSUME NEW i \in 1 .. Len(queue')
                   PROVE  (Known(queue[i]) /\ ~queue[i].snapshot)'
      OBVIOUS
    <3>2. i + 1 \in 1 .. Len(queue) /\ queue'[i] = queue[i + 1]
      BY <1>2, <2>2
    <3>3. Known(queue[i + 1]) /\ ~queue[i + 1].snapshot
      BY <3>2 DEF ChannelInv, QueueInv
    <3>. QED  BY <3>2, <3>3 DEF Known
  <2>4. \A i, j \in 1 .. Len(queue') : i < j => (queue[i].id < queue[j].id)'
    BY <1>2, <2>2 DEF ChannelInv, QueueInv
  <2>5. ASSUME NEW i \in 1 .. Len(queue'), NEW s \in 1 .. Len(numbered')
        PROVE  (numbered[s].id < queue[i].id)'
    <3>1. CASE s = Len(numbered) + 1
      BY <1>2, <1>3, <2>1, <2>2, <3>1 DEF ChannelInv, QueueInv
    <3>2. CASE s \in 1 .. Len(numbered)
      BY <1>2, <2>1, <2>2, <3>2 DEF ChannelInv, QueueInv
    <3>. QED  BY <1>1, <2>1, <3>1, <3>2
  <2>. QED  BY <2>3, <2>4, <2>5 DEF QueueInv
<1>10. SubmittedInv'
  BY DEF ChannelInv, SubmittedInv
<1>. QED  BY <1>8, <1>9, <1>10 DEF ChannelInv

-----------------------------------------------------------------------------
(***************************************************************************)
(* The receiving end.                                                      *)
(***************************************************************************)
\* A fragment that is taken continues the very message assembled so far.
LEMMA TakeFacts ==
    ASSUME TypeOK, ChannelInv, NEW p \in wire, TakeFragment(p)
    PROVE  /\ p.sequence \in 1 .. Len(numbered) /\ p.msg = numbered[p.sequence]
           /\ p.length \in Nat
           /\ Assembled(p) \in Nat
           /\ Assembled(p) + p.length \in 0 .. MAX_MSGLEN
           /\ Assembled(p) + p.length <= p.msg.length
           /\ p.length # FRAGMENT_SIZE => Assembled(p) + p.length = p.msg.length
           /\ \A k \in 0 .. Assembled(p) + p.length - 1 :
                    Copied(p)[k] = Byte(numbered[p.sequence], k)
<1>1. /\ p \in Packet /\ fragmentLength \in Nat /\ MAX_MSGLEN \in Nat
      /\ Len(numbered) \in Nat /\ fragmentSequence \in Nat
  BY MaxMsglenAssumption DEF TypeOK, ChanTypeOK
<1>2. p.sequence \in Nat /\ p.start \in Nat /\ p.length \in Nat
  BY <1>1 DEF Packet
<1>3. Assembled(p) \in Nat
  BY <1>1 DEF Assembled
<1>4. /\ p.sequence \in 1 .. Len(numbered) /\ p.msg = numbered[p.sequence]
      /\ p.start + p.length <= p.msg.length
      /\ p.length # FRAGMENT_SIZE => p.start + p.length = p.msg.length
  BY DEF ChannelInv, WireInv, TakeFragment
<1>5. p.start = Assembled(p) /\ Assembled(p) + p.length \in 0 .. MAX_MSGLEN
  BY <1>1, <1>2, <1>3 DEF TakeFragment
<1>6. ASSUME NEW k \in 0 .. Assembled(p) + p.length - 1
      PROVE  Copied(p)[k] = Byte(numbered[p.sequence], k)
  <2>1. k \in 0 .. MAX_MSGLEN - 1
    BY <1>1, <1>2, <1>3, <1>5
  <2>2. CASE k >= Assembled(p)
    <3>1. Copied(p)[k] = Byte(p.msg, p.start + (k - Assembled(p)))
      BY <1>2, <1>3, <2>1, <2>2 DEF Copied
    <3>2. p.start + (k - Assembled(p)) = k
      BY <1>2, <1>3, <1>5, <2>1
    <3>. QED  BY <1>4, <3>1, <3>2
  <2>3. CASE k < Assembled(p)
    <3>1. /\ p.sequence = fragmentSequence /\ Assembled(p) = fragmentLength
          /\ fragmentLength > 0
      BY <1>1, <2>1, <2>3 DEF Assembled
    <3>2. Copied(p)[k] = fragmentBuffer[k]
      BY <1>2, <1>3, <2>1, <2>3 DEF Copied
    <3>3. k \in 0 .. fragmentLength - 1
      BY <1>1, <2>1, <2>3, <3>1
    <3>. QED  BY <3>1, <3>2, <3>3 DEF ChannelInv, AssemblyInv
  <2>. QED  BY <1>3, <2>1, <2>2, <2>3
<1>. QED  BY <1>2, <1>3, <1>4, <1>5, <1>6

LEMMA ReceiveInv ==
    ASSUME TypeOK, TypeOK', ChannelInv, Receive
    PROVE  ChannelInv'
<1>1. PICK p \in wire : Netchan_Process(p)
  BY DEF Receive
<1>2. SubmittedInv' /\ NumberedInv' /\ QueueInv' /\ UnsentInv' /\ WireInv'
  BY <1>1 DEF Receive, Netchan_Process, sendVars, ChannelInv, SubmittedInv, NumberedInv, QueueInv,
              UnsentInv, WireInv, Known
<1>3. p.sequence \in 1 .. Len(numbered) /\ numbered' = numbered /\ Len(numbered) \in Nat
  BY DEF ChannelInv, WireInv, Receive, TypeOK
<1>4. AssemblyInv'
  <2>1. CASE AcceptWhole(p)
    BY <1>3, <2>1 DEF AcceptWhole, ChannelInv, AssemblyInv
  <2>2. CASE MissFragment(p)
    <3>1. fragmentLength' > 0 => fragmentLength' = fragmentLength /\ fragmentSequence' = fragmentSequence
      BY <2>2 DEF MissFragment, Assembled
    <3>. QED  BY <1>3, <2>2, <3>1 DEF MissFragment, ChannelInv, AssemblyInv
  <2>3. CASE TakeFragment(p)
    <3>1. CASE p.length = FRAGMENT_SIZE
      <4>1. /\ fragmentSequence' = p.sequence /\ incomingSequence' = incomingSequence
            /\ fragmentLength' = Assembled(p) + p.length /\ fragmentBuffer' = Copied(p)
        BY <2>3, <3>1 DEF TakeFragment
      <4>2. /\ fragmentLength' <= numbered[p.sequence].length
            /\ \A k \in 0 .. fragmentLength' - 1 :
                    fragmentBuffer'[k] = Byte(numbered[p.sequence], k)
        BY SMTT(30), <2>3, <4>1, TakeFacts
      <4>. QED  BY <1>3, <4>1, <4>2 DEF ChannelInv, AssemblyInv
    <3>2. CASE p.length # FRAGMENT_SIZE
      BY <1>3, <2>3, <3>2 DEF TakeFragment, AssemblyInv
    <3>. QED  BY <3>1, <3>2
  <2>. QED  BY <1>1, <2>1, <2>2, <2>3 DEF Netchan_Process
<1>. QED  BY <1>2, <1>4 DEF ChannelInv

LEMMA InvStep ==
    ASSUME TypeOK, TypeOK', ChannelInv, [Next]_vars
    PROVE  ChannelInv'
<1>1. CASE SV_SendClientSnapshot
  BY <1>1, SubmitInv DEF SV_SendClientSnapshot, SnapshotAllowed
<1>2. CASE SV_SendReliableMessage
  BY <1>2, SubmitInv DEF SV_SendReliableMessage
<1>3. CASE SV_Netchan_TransmitNextFragment
  <2>1. CASE unsentFragments /\ Netchan_TransmitNextFragment /\ UNCHANGED <<queue, numbered>>
    <3>1. NumberedInv' /\ UnsentInv' /\ WireInv'
      BY <1>3, <2>1, FragmentInv DEF ChannelInv, SV_Netchan_TransmitNextFragment
    <3>2. SubmittedInv' /\ QueueInv' /\ AssemblyInv'
      BY <1>3, <2>1 DEF SV_Netchan_TransmitNextFragment, ChannelInv, SubmittedInv, QueueInv,
                        AssemblyInv, Known, receiveVars
    <3>. QED  BY <3>1, <3>2 DEF ChannelInv
  <2>2. CASE ~unsentFragments /\ SV_Netchan_TransmitNextInQueue
    BY <1>3, <2>2, NextInQueueInv DEF SV_Netchan_TransmitNextFragment
  <2>. QED  BY <1>3, <2>1, <2>2 DEF SV_Netchan_TransmitNextFragment
<1>4. CASE SV_Netchan_FreeQueue
  <2>1. QueueInv'
    BY <1>4 DEF SV_Netchan_FreeQueue, QueueInv
  <2>2. SubmittedInv' /\ NumberedInv' /\ UnsentInv' /\ WireInv' /\ AssemblyInv'
    BY <1>4 DEF SV_Netchan_FreeQueue, chanVars, sendVars, receiveVars, ChannelInv, SubmittedInv,
                NumberedInv, UnsentInv, WireInv, AssemblyInv, Known
  <2>. QED  BY <2>1, <2>2 DEF ChannelInv
<1>5. CASE Receive
  BY <1>5, ReceiveInv
<1>6. CASE UNCHANGED vars
  BY <1>6 DEF vars, chanVars, sendVars, receiveVars, ChannelInv, SubmittedInv, NumberedInv,
              QueueInv, UnsentInv, WireInv, AssemblyInv, Known
<1>. QED  BY <1>1, <1>2, <1>3, <1>4, <1>5, <1>6 DEF Next

-----------------------------------------------------------------------------
(***************************************************************************)
(* The theorems.                                                           *)
(***************************************************************************)
\* The channel's state keeps its types, so no count goes below zero, no assembled
\* length passes the buffer's capacity, and a fragment's length is never negative.
THEOREM TypeCorrect == Spec => []TypeOK
<1>. DEFINE Inv == TypeOK /\ ChannelInv
<1>1. Init => Inv
  BY InitType, InitInv
<1>2. Inv /\ [Next]_vars => Inv'
  <2>. SUFFICES ASSUME Inv, [Next]_vars PROVE Inv'
    OBVIOUS
  <2>1. TypeOK'
    BY TypeStep DEF ChannelInv
  <2>2. ChannelInv'
    BY <2>1, InvStep
  <2>. QED  BY <2>1, <2>2
<1>3. Inv => TypeOK
  OBVIOUS
<1>. QED  BY <1>1, <1>2, <1>3, PTL DEF Spec

\* The inductive invariant: what is on the wire, being sent, queued and being put
\* together are pieces of the messages submitted, each under its own number.
THEOREM ChannelInvariant == Spec => []ChannelInv
<1>1. Init => ChannelInv
  BY InitInv
<1>2. TypeOK /\ TypeOK' /\ ChannelInv /\ [Next]_vars => ChannelInv'
  BY InvStep
<1>. QED  BY <1>1, <1>2, TypeCorrect, PTL DEF Spec

\* A snapshot is never put behind another message, so every packet of it carries the
\* sequence number its frame was recorded under, for any message and fragment size.
THEOREM SnapshotsExact == Spec => []SnapshotSequenceExact
<1>1. ChannelInv => SnapshotSequenceExact
  BY DEF ChannelInv, NumberedInv, WireInv, SnapshotSequenceExact
<1>. QED  BY <1>1, ChannelInvariant, PTL

\* The packets that share a sequence number are pieces of one message.
THEOREM OneMessage == Spec => []OneMessagePerSequence
<1>1. ChannelInv => OneMessagePerSequence
  BY DEF ChannelInv, WireInv, OneMessagePerSequence
<1>. QED  BY <1>1, ChannelInvariant, PTL

-----------------------------------------------------------------------------
(***************************************************************************)
(* The channel implements the message stream.                              *)
(***************************************************************************)
lastReceived == IF incomingSequence = 0 THEN 0 ELSE numbered[incomingSequence].id

LEMMA SameMessages == Stream!Message = Message /\ \A m : Stream!Contents(m) = Contents(m)
BY DEF Message, Stream!Message, Contents, Stream!Contents, Byte, Stream!Byte

LEMMA LastStays ==
    ASSUME TypeOK, ChannelInv, Extends(numbered, numbered'), incomingSequence' = incomingSequence
    PROVE  lastReceived' = lastReceived
BY DEF TypeOK, ChanTypeOK, ChannelInv, AssemblyInv, Extends, lastReceived

\* The message behind a packet newer than the last one accepted is newer too.
LEMMA NewerMessage ==
    ASSUME TypeOK, ChannelInv, NEW p \in wire, p.sequence > incomingSequence
    PROVE  /\ p.msg.id \in lastReceived + 1 .. Len(submitted)
           /\ submitted[p.msg.id] = p.msg
           /\ p.sequence # 0 /\ numbered[p.sequence].id = p.msg.id
<1>1. /\ p.sequence \in 1 .. Len(numbered) /\ p.msg = numbered[p.sequence]
      /\ incomingSequence \in 0 .. Len(numbered)
      /\ Len(numbered) \in Nat /\ Len(submitted) \in Nat
  BY DEF TypeOK, ChannelInv, WireInv, AssemblyInv
<1>2. Known(p.msg)
  BY <1>1 DEF ChannelInv, NumberedInv
<1>3. CASE incomingSequence = 0
  BY <1>1, <1>2, <1>3 DEF lastReceived, Known
<1>4. CASE incomingSequence # 0
  <2>1. /\ lastReceived = numbered[incomingSequence].id
        /\ Known(numbered[incomingSequence])
        /\ lastReceived < p.msg.id
    BY <1>1, <1>4 DEF lastReceived, ChannelInv, NumberedInv
  <2>. QED  BY <1>1, <1>2, <2>1 DEF Known
<1>. QED  BY <1>3, <1>4

LEMMA SubmitSimulation ==
    ASSUME TypeOK, ChannelInv, NEW length \in Lengths, NEW snapshot \in BOOLEAN,
           Submit(NewMessage(length, snapshot))
    PROVE  Stream!Submit
<1>. DEFINE m == NewMessage(length, snapshot)
<1>1. m \in Message /\ m.id = Len(submitted) + 1
  BY NewMessageType DEF NewMessage
<1>2. submitted' = Append(submitted, m) /\ submitted \in Seq(Message)
  BY DEF Submit, TypeOK
<1>3. /\ Len(submitted') = Len(submitted) + 1
      /\ submitted'[Len(submitted) + 1] = m
  BY <1>1, <1>2, AppendProperties
<1>4. Extends(numbered, numbered')
  <2>1. numbered \in Seq(Message) /\ Len(numbered) \in Nat
    BY DEF TypeOK
  <2>2. numbered' = numbered \/ numbered' = Append(numbered, m)
    BY DEF Submit, SV_Netchan_Transmit, Start
  <2>. QED  BY <1>1, <2>1, <2>2, AppendExtends DEF Extends
<1>5. UNCHANGED <<received, incomingSequence>>
  BY DEF Submit, receiveVars
<1>6. UNCHANGED lastReceived
  BY <1>4, <1>5, LastStays
<1>. QED  BY <1>1, <1>2, <1>3, <1>5, <1>6, SameMessages DEF Stream!Submit, lastReceived

LEMMA ReceiveSimulation ==
    ASSUME TypeOK, ChannelInv, Receive
    PROVE  Stream!Receive \/ UNCHANGED <<submitted, received, lastReceived>>
<1>1. PICK p \in wire : Netchan_Process(p)
  BY DEF Receive
<1>2. UNCHANGED <<submitted, numbered>> /\ p.sequence > incomingSequence
  BY <1>1 DEF Receive, Netchan_Process
<1>3. /\ p.msg.id \in lastReceived + 1 .. Len(submitted)
      /\ submitted[p.msg.id] = p.msg
      /\ p.sequence # 0 /\ numbered[p.sequence].id = p.msg.id
  BY <1>2, NewerMessage
<1>4. ASSUME received' = Append(received, Contents(p.msg)), incomingSequence' = p.sequence
      PROVE  Stream!Receive
  <2>1. lastReceived' = p.msg.id
    BY <1>2, <1>3, <1>4 DEF lastReceived
  <2>. QED  BY <1>2, <1>3, <1>4, <2>1, SameMessages DEF Stream!Receive, lastReceived
<1>5. ASSUME UNCHANGED <<received, incomingSequence>>
      PROVE  UNCHANGED <<submitted, received, lastReceived>>
  BY <1>2, <1>5 DEF lastReceived
<1>6. CASE AcceptWhole(p)
  BY <1>4, <1>6 DEF AcceptWhole
<1>7. CASE MissFragment(p)
  BY <1>5, <1>7 DEF MissFragment
<1>8. CASE TakeFragment(p)
  <2>1. CASE p.length = FRAGMENT_SIZE
    BY <1>5, <1>8, <2>1 DEF TakeFragment
  <2>2. CASE p.length # FRAGMENT_SIZE
    <3>1. /\ incomingSequence' = p.sequence
          /\ received' = Append(received,
                    [k \in 1 .. Assembled(p) + p.length |-> Copied(p)[k - 1]])
      BY <1>8, <2>2 DEF TakeFragment
    <3>2. [k \in 1 .. Assembled(p) + p.length |-> Copied(p)[k - 1]] = Contents(p.msg)
      BY <1>8, <2>2, TakeFacts DEF Contents
    <3>. QED  BY <1>4, <3>1, <3>2
  <2>. QED  BY <2>1, <2>2
<1>. QED  BY <1>1, <1>6, <1>7, <1>8 DEF Netchan_Process

\* What SV_Netchan_Transmit, the fragments, the queue and Netchan_Process do together is
\* a message stream: whole messages, each at most once, in the order they were given.
THEOREM Implementation == Spec => ImplementsStream
<1>1. Init => Stream!Init
  BY DEF Init, Netchan_Setup, Stream!Init
<1>2. TypeOK /\ ChannelInv /\ [Next]_vars => [Stream!Next]_(Stream!vars)
  <2>. SUFFICES ASSUME TypeOK, ChannelInv, [Next]_vars
                PROVE  Stream!Next \/ UNCHANGED <<submitted, received, lastReceived>>
    BY DEF Stream!vars, lastReceived
  <2>1. CASE SV_SendClientSnapshot
    BY <2>1, SubmitSimulation DEF SV_SendClientSnapshot, Stream!Next
  <2>2. CASE SV_SendReliableMessage
    BY <2>2, SubmitSimulation DEF SV_SendReliableMessage, Stream!Next
  <2>3. CASE SV_Netchan_TransmitNextFragment
    <3>1. UNCHANGED <<submitted, received, incomingSequence>>
      BY <2>3 DEF SV_Netchan_TransmitNextFragment, receiveVars
    <3>2. Extends(numbered, numbered')
      <4>1. numbered \in Seq(Message) /\ Len(numbered) \in Nat
        BY DEF TypeOK
      <4>2. \/ numbered' = numbered
            \/ queue # <<>> /\ numbered' = Append(numbered, Head(queue))
        BY <2>3 DEF SV_Netchan_TransmitNextFragment, SV_Netchan_TransmitNextInQueue, Start
      <4>3. queue # <<>> => Head(queue) \in Message
        BY DEF TypeOK
      <4>. QED  BY <4>1, <4>2, <4>3, AppendExtends DEF Extends
    <3>. QED  BY <3>1, <3>2, LastStays
  <2>4. CASE SV_Netchan_FreeQueue
    BY <2>4 DEF SV_Netchan_FreeQueue, chanVars, receiveVars, lastReceived
  <2>5. CASE Receive
    BY <2>5, ReceiveSimulation DEF Stream!Next
  <2>6. CASE UNCHANGED vars
    BY <2>6 DEF vars, chanVars, receiveVars, lastReceived
  <2>. QED  BY <2>1, <2>2, <2>3, <2>4, <2>5, <2>6 DEF Next
<1>. QED  BY <1>1, <1>2, TypeCorrect, ChannelInvariant, PTL DEF Spec, ImplementsStream, Stream!Spec

-----------------------------------------------------------------------------
(***************************************************************************)
(* What was sent is enough to put every message together.                  *)
(***************************************************************************)
Covered(s, length) ==
    \A k \in 0 .. length - 1 : \E p \in wire : p.sequence = s /\ p.start <= k /\ k < p.start + p.length

Ends(s) == \E p \in wire : p.sequence = s /\ (~p.fragmented \/ p.length < FRAGMENT_SIZE)

\* A message that is done is covered to its end, the one being sent up to its next fragment.
CompleteInv ==
    /\ \A s \in 1 .. outgoingSequence - 1 : Ends(s) /\ Covered(s, numbered[s].length)
    /\ unsentFragments => Covered(outgoingSequence, unsentFragmentStart)

\* Packets stay on the wire.
LEMMA StaysCovered ==
    ASSUME NEW s, NEW length, wire \subseteq wire'
    PROVE  /\ Covered(s, length) => Covered(s, length)'
           /\ Ends(s) => Ends(s)'
BY DEF Covered, Ends

LEMMA EarlierStaysComplete ==
    ASSUME TypeOK, NumberedInv, CompleteInv, wire \subseteq wire', Extends(numbered, numbered'),
           NEW s \in 1 .. outgoingSequence - 1
    PROVE  Ends(s)' /\ Covered(s, numbered[s].length)'
<1>1. numbered'[s] = numbered[s]
  BY DEF TypeOK, ChanTypeOK, NumberedInv, Extends
<1>2. PICK n : n = numbered[s].length /\ n = numbered'[s].length
  BY <1>1
<1>3. Ends(s)' /\ Covered(s, n)'
  BY <1>2, StaysCovered DEF CompleteInv
<1>4. Covered(s, numbered[s].length)' <=> Covered(s, n)'
  BY <1>2 DEF Covered
<1>. QED  BY <1>3, <1>4

LEMMA StartComplete ==
    ASSUME TypeOK, ChannelInv, CompleteInv, NEW m \in Message, Start(m), ~unsentFragments
    PROVE  CompleteInv'
<1>1. PICK o \in Nat \ {0} : o = outgoingSequence /\ Len(numbered) = o - 1
  BY DEF TypeOK, ChanTypeOK, ChannelInv, NumberedInv
<1>2. /\ numbered' = Append(numbered, m) /\ Extends(numbered, numbered')
      /\ numbered'[o] = m
  <2>1. numbered \in Seq(Message) /\ numbered' = Append(numbered, m)
    BY DEF TypeOK, Start
  <2>. QED  BY <1>1, <2>1, AppendExtends
<1>3. m.length \in Nat /\ FRAGMENT_SIZE \in Nat \ {0}
  BY MaxMsglenAssumption, FragmentSizeAssumption DEF Message
<1>4. wire \subseteq wire'
  BY DEF Start, Netchan_Transmit, TransmitFirstFragment, TransmitWhole
<1>5. \A s \in 1 .. o - 1 : Ends(s)' /\ Covered(s, numbered[s].length)'
  BY <1>1, <1>2, <1>4, EarlierStaysComplete DEF ChannelInv
<1>6. CASE TransmitFirstFragment(m)
  <2>1. outgoingSequence' = o /\ unsentFragmentStart' = FRAGMENT_SIZE
    BY <1>1, <1>6 DEF TransmitFirstFragment
  <2>2. PICK p : /\ p \in wire' /\ p.sequence = o /\ p.start = 0 /\ p.length = FRAGMENT_SIZE
    <3>1. Fragment(m, 0, FRAGMENT_SIZE) \in wire'
      BY <1>6 DEF TransmitFirstFragment
    <3>. QED  BY <1>1, <3>1 DEF Fragment
  <2>3. Covered(outgoingSequence, unsentFragmentStart)'
    BY <1>3, <2>1, <2>2 DEF Covered
  <2>. QED  BY <1>5, <2>1, <2>3 DEF CompleteInv
<1>7. CASE TransmitWhole(m)
  <2>1. outgoingSequence' = o + 1 /\ ~unsentFragments'
    BY <1>1, <1>7 DEF TransmitWhole
  <2>2. PICK p : /\ p \in wire' /\ p.sequence = o /\ p.start = 0 /\ p.length = m.length
                 /\ ~p.fragmented
    <3>1. Whole(m) \in wire'
      BY <1>7 DEF TransmitWhole
    <3>. QED  BY <1>1, <3>1 DEF Whole
  <2>3. Ends(o)' /\ Covered(o, numbered[o].length)'
    BY <1>2, <1>3, <2>2 DEF Ends, Covered
  <2>4. \A s \in 1 .. (o + 1) - 1 : s \in 1 .. o - 1 \/ s = o
    OBVIOUS
  <2>. QED  BY <1>5, <2>1, <2>3, <2>4 DEF CompleteInv
<1>. QED  BY <1>6, <1>7 DEF Start, Netchan_Transmit

LEMMA FragmentComplete ==
    ASSUME TypeOK, ChannelInv, CompleteInv, unsentFragments, Netchan_TransmitNextFragment,
           UNCHANGED numbered
    PROVE  CompleteInv'
<1>1. PICK o \in Nat \ {0}, a \in Nat, l \in Nat :
            /\ o = outgoingSequence /\ a = unsentFragmentStart /\ l = unsentBuffer.length
            /\ a <= l /\ l = numbered[o].length
  <2>1. unsentBuffer.length \in Nat
    BY MaxMsglenAssumption DEF TypeOK, ChanTypeOK, Message
  <2>2. unsentBuffer = numbered[outgoingSequence] /\ unsentFragmentStart <= unsentBuffer.length
    BY DEF ChannelInv, UnsentInv
  <2>3. outgoingSequence \in Nat \ {0} /\ unsentFragmentStart \in Nat
    BY DEF TypeOK, ChanTypeOK
  <2>. QED  BY <2>1, <2>2, <2>3
<1>2. FRAGMENT_SIZE \in Nat \ {0}
  BY FragmentSizeAssumption
<1>3. PICK n \in Nat : /\ n = FragmentLeft /\ a + n <= l
                       /\ \/ n = FRAGMENT_SIZE /\ ~IsLastFragment(n)
                          \/ n < FRAGMENT_SIZE /\ a + n = l /\ IsLastFragment(n)
  BY <1>1, <1>2 DEF FragmentLeft, IsLastFragment
<1>4. wire \subseteq wire' /\ Extends(numbered, numbered')
  BY DEF Netchan_TransmitNextFragment, Extends, TypeOK
<1>5. \A s \in 1 .. o - 1 : Ends(s)' /\ Covered(s, numbered[s].length)'
  BY <1>1, <1>4, EarlierStaysComplete DEF ChannelInv
<1>6. PICK p : p \in wire' /\ p.sequence = o /\ p.start = a /\ p.length = n
  <2>1. Fragment(unsentBuffer, a, n) \in wire'
    BY <1>1, <1>3 DEF Netchan_TransmitNextFragment
  <2>. QED  BY <1>1, <2>1 DEF Fragment
<1>7. Covered(o, a + n)'
  <2>1. Covered(o, a)
    BY <1>1 DEF CompleteInv
  <2>2. Covered(o, a)'
    BY <1>4, <2>1, StaysCovered
  <2>3. ASSUME NEW k \in 0 .. (a + n) - 1
        PROVE  \E q \in wire' : q.sequence = o /\ q.start <= k /\ k < q.start + q.length
    <3>1. CASE k < a
      BY <2>2, <3>1 DEF Covered
    <3>2. CASE k >= a
      BY <1>6, <3>2
    <3>. QED  BY <3>1, <3>2
  <2>. QED  BY <2>3 DEF Covered
<1>8. CASE n = FRAGMENT_SIZE /\ ~IsLastFragment(n)
  <2>1. outgoingSequence' = o /\ unsentFragmentStart' = a + n
    BY <1>1, <1>3, <1>8 DEF Netchan_TransmitNextFragment
  <2>. QED  BY <1>5, <1>7, <2>1 DEF CompleteInv
<1>9. CASE n < FRAGMENT_SIZE /\ a + n = l /\ IsLastFragment(n)
  <2>1. outgoingSequence' = o + 1 /\ ~unsentFragments'
    BY <1>1, <1>3, <1>9 DEF Netchan_TransmitNextFragment
  <2>2. Ends(o)'
    BY <1>6, <1>9 DEF Ends
  <2>3. Covered(o, numbered[o].length)'
    <3>1. numbered'[o].length = a + n
      BY <1>1, <1>9
    <3>. QED  BY <1>7, <3>1 DEF Covered
  <2>4. \A s \in 1 .. (o + 1) - 1 : s \in 1 .. o - 1 \/ s = o
    OBVIOUS
  <2>. QED  BY <1>5, <2>1, <2>2, <2>3, <2>4 DEF CompleteInv
<1>. QED  BY <1>3, <1>8, <1>9

LEMMA CompleteStep == TypeOK /\ ChannelInv /\ CompleteInv /\ [Next]_vars => CompleteInv'
<1>. SUFFICES ASSUME TypeOK, ChannelInv, CompleteInv, [Next]_vars PROVE CompleteInv'
  OBVIOUS
<1>1. ASSUME UNCHANGED <<outgoingSequence, unsentFragments, unsentFragmentStart, wire, numbered>>
      PROVE  CompleteInv'
  BY <1>1 DEF CompleteInv, Covered, Ends
<1>2. ASSUME NEW length \in Lengths, NEW snapshot \in BOOLEAN, Submit(NewMessage(length, snapshot))
      PROVE  CompleteInv'
  <2>1. CASE ~Busy /\ Start(NewMessage(length, snapshot))
    BY <2>1, StartComplete, NewMessageType DEF Busy
  <2>2. CASE UNCHANGED <<sendVars, wire, numbered>>
    BY <1>1, <2>2 DEF sendVars
  <2>. QED  BY <1>2, <2>1, <2>2 DEF Submit, SV_Netchan_Transmit
<1>3. CASE SV_SendClientSnapshot \/ SV_SendReliableMessage
  BY <1>2, <1>3 DEF SV_SendClientSnapshot, SV_SendReliableMessage
<1>4. CASE SV_Netchan_TransmitNextFragment
  <2>1. CASE unsentFragments /\ Netchan_TransmitNextFragment /\ UNCHANGED <<queue, numbered>>
    BY <2>1, FragmentComplete
  <2>2. CASE ~unsentFragments /\ SV_Netchan_TransmitNextInQueue
    <3>1. Head(queue) \in Message
      BY <2>2 DEF SV_Netchan_TransmitNextInQueue, TypeOK
    <3>. QED  BY <2>2, <3>1, StartComplete DEF SV_Netchan_TransmitNextInQueue
  <2>. QED  BY <1>4, <2>1, <2>2 DEF SV_Netchan_TransmitNextFragment
<1>5. CASE SV_Netchan_FreeQueue \/ Receive \/ UNCHANGED vars
  BY <1>1, <1>5 DEF SV_Netchan_FreeQueue, Receive, Netchan_Process, vars, chanVars, sendVars
<1>. QED  BY <1>3, <1>4, <1>5 DEF Next

\* Once Netchan_TransmitNextFragment has counted the sequence up, the packets sent cover the
\* message and one of them ends it, for every length, exact multiples included.
THEOREM EveryMessageComplete == Spec => []EndedIsComplete
<1>1. Init => CompleteInv
  BY DEF Init, Netchan_Setup, CompleteInv
<1>2. Spec => []CompleteInv
  BY <1>1, CompleteStep, TypeCorrect, ChannelInvariant, PTL DEF Spec
<1>3. CompleteInv => EndedIsComplete
  BY DEF CompleteInv, Covered, Ends, EndedIsComplete
<1>. QED  BY <1>2, <1>3, PTL
=============================================================================

------------------------------- MODULE NetChan -------------------------------
(***************************************************************************)
(* qcommon/net_chan.c: one direction of a connection.  The sending half of *)
(* one netchan_t, the datagram network, and the receiving half of the      *)
(* netchan_t at the other end.                                             *)
(*                                                                         *)
(* A packet put on the wire stays there and may be read any number of      *)
(* times, in any order or never: the network loses, duplicates, delays and *)
(* reorders packets.                                                       *)
(***************************************************************************)
EXTENDS Messages

CONSTANT
    FRAGMENT_SIZE       \* bytes of a full fragment, header excluded

ASSUME FragmentSizeAssumption == FRAGMENT_SIZE \in Nat \ {0}

VARIABLES
    outgoingSequence,
    unsentFragments,
    unsentFragmentStart,
    unsentBuffer,       \* the message being sent in fragments
    incomingSequence,   \* the other end's
    fragmentSequence,
    fragmentLength,
    fragmentBuffer,
    wire,               \* every packet sent so far
    received            \* contents of the messages Netchan_Process accepted

sendVars == <<outgoingSequence, unsentFragments, unsentFragmentStart, unsentBuffer>>
receiveVars == <<incomingSequence, fragmentSequence, fragmentLength, fragmentBuffer, received>>
chanVars == <<sendVars, receiveVars, wire>>

Packet == [sequence : Nat, fragmented : BOOLEAN, start : Nat, length : Nat, msg : Message]

NoByte == <<0, 0>>      \* Com_Memset(chan, 0, sizeof(*chan))
NoMessage == [id |-> 0, length |-> 1, snapshot |-> FALSE, expected |-> 0]

ChanTypeOK ==
    /\ outgoingSequence \in Nat \ {0}
    /\ unsentFragments \in BOOLEAN
    /\ unsentFragmentStart \in Nat
    /\ unsentBuffer \in Message
    /\ incomingSequence \in Nat
    /\ fragmentSequence \in Nat
    /\ fragmentLength \in 0 .. MAX_MSGLEN
    /\ fragmentBuffer \in [0 .. MAX_MSGLEN - 1 -> Bytes]
    /\ wire \in SUBSET Packet
    /\ received \in Seq(Seq(Bytes))

\* Mutant: the first sequence number is left at zero by the memset.
Netchan_Setup_ZeroSequence ==
    /\ outgoingSequence = 0
    /\ unsentFragments = FALSE
    /\ unsentFragmentStart = 0
    /\ unsentBuffer = NoMessage
    /\ incomingSequence = 0
    /\ fragmentSequence = 0
    /\ fragmentLength = 0
    /\ fragmentBuffer = [k \in 0 .. MAX_MSGLEN - 1 |-> NoByte]
    /\ wire = {}
    /\ received = <<>>

\* Both ends start from a channel set up for the same challenge.
Netchan_Setup ==
    /\ outgoingSequence = 1
    /\ unsentFragments = FALSE
    /\ unsentFragmentStart = 0
    /\ unsentBuffer = NoMessage
    /\ incomingSequence = 0
    /\ fragmentSequence = 0
    /\ fragmentLength = 0
    /\ fragmentBuffer = [k \in 0 .. MAX_MSGLEN - 1 |-> NoByte]
    /\ wire = {}
    /\ received = <<>>

-----------------------------------------------------------------------------
\* The sending half.

Fragment(m, start, length) ==
    [sequence |-> outgoingSequence, fragmented |-> TRUE,
     start |-> start, length |-> length, msg |-> m]

Whole(m) ==
    [sequence |-> outgoingSequence, fragmented |-> FALSE,
     start |-> 0, length |-> m.length, msg |-> m]

\* A message whose length is a multiple of FRAGMENT_SIZE ends with an empty fragment.
FragmentLeft ==
    IF unsentFragmentStart + FRAGMENT_SIZE > unsentBuffer.length
    THEN unsentBuffer.length - unsentFragmentStart
    ELSE FRAGMENT_SIZE

\* Mutants: the empty fragment of an exact multiple is never sent, or not seen as the end.
IsLastFragment_NoEmpty(length) ==
    unsentFragmentStart + length = unsentBuffer.length

IsLastFragment_NotIfEmpty(length) ==
    /\ unsentFragmentStart + length = unsentBuffer.length
    /\ length \notin {0, FRAGMENT_SIZE}

\* The exit condition start = unsentLength && fragmentLength != FRAGMENT_SIZE.
IsLastFragment(length) ==
    /\ unsentFragmentStart + length = unsentBuffer.length
    /\ length # FRAGMENT_SIZE

Netchan_TransmitNextFragment ==
    LET length == FragmentLeft
        ended == IsLastFragment(length)
    IN  /\ wire' = wire \union {Fragment(unsentBuffer, unsentFragmentStart, length)}
        /\ unsentFragmentStart' = unsentFragmentStart + length
        /\ unsentFragments' = ~ended
        /\ outgoingSequence' = IF ended THEN outgoingSequence + 1 ELSE outgoingSequence
        /\ UNCHANGED unsentBuffer

TransmitFirstFragment(m) ==
    /\ m.length >= FRAGMENT_SIZE
    /\ wire' = wire \union {Fragment(m, 0, FRAGMENT_SIZE)}
    /\ unsentBuffer' = m
    /\ unsentFragmentStart' = FRAGMENT_SIZE
    /\ unsentFragments' = TRUE
    /\ UNCHANGED outgoingSequence

TransmitWhole(m) ==
    /\ m.length < FRAGMENT_SIZE
    /\ wire' = wire \union {Whole(m)}
    /\ unsentFragmentStart' = 0
    /\ outgoingSequence' = outgoingSequence + 1
    /\ UNCHANGED <<unsentFragments, unsentBuffer>>

Netchan_Transmit(m) == TransmitFirstFragment(m) \/ TransmitWhole(m)

-----------------------------------------------------------------------------
\* The receiving half.

AcceptWhole(p) ==
    /\ ~p.fragmented
    /\ incomingSequence' = p.sequence
    /\ received' = Append(received, Contents(p.msg))
    /\ UNCHANGED <<fragmentSequence, fragmentLength, fragmentBuffer>>

\* Mutant: the assembly goes on when a fragment of another message comes in.
Assembled_NoRestart(p) == fragmentLength

\* A fragment of another message than the one being assembled starts over.
Assembled(p) == IF p.sequence # fragmentSequence THEN 0 ELSE fragmentLength

\* We missed a fragment (or it would not fit): keep what was assembled so far.
MissFragment(p) ==
    /\ p.fragmented
    /\ \/ p.start # Assembled(p)
       \/ Assembled(p) + p.length > MAX_MSGLEN
    /\ fragmentSequence' = p.sequence
    /\ fragmentLength' = Assembled(p)
    /\ UNCHANGED <<incomingSequence, fragmentBuffer, received>>

\* Com_Memcpy of the fragment behind the part assembled so far.
Copied(p) ==
    [k \in 0 .. MAX_MSGLEN - 1 |->
        IF k >= Assembled(p) /\ k < Assembled(p) + p.length
        THEN Byte(p.msg, p.start + (k - Assembled(p)))
        ELSE fragmentBuffer[k]]

TakeFragment(p) ==
    /\ p.fragmented
    /\ p.start = Assembled(p)
    /\ Assembled(p) + p.length <= MAX_MSGLEN
    /\ fragmentSequence' = p.sequence
    /\ fragmentBuffer' = Copied(p)
    /\ IF p.length = FRAGMENT_SIZE
       THEN /\ fragmentLength' = Assembled(p) + p.length
            /\ UNCHANGED <<incomingSequence, received>>
       ELSE /\ fragmentLength' = 0
            /\ incomingSequence' = p.sequence
            /\ received' = Append(received,
                    [k \in 1 .. Assembled(p) + p.length |-> Copied(p)[k - 1]])

\* Out of order and duplicated packets are discarded.
Netchan_Process(p) ==
    /\ p.sequence > incomingSequence
    /\ AcceptWhole(p) \/ MissFragment(p) \/ TakeFragment(p)
    /\ UNCHANGED <<sendVars, wire>>
=============================================================================

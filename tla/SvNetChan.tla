------------------------------ MODULE SvNetChan ------------------------------
(***************************************************************************)
(* server/sv_net_chan.c: the server's end of a channel to one client, with *)
(* the queue that keeps messages in order behind one that is still leaving *)
(* in fragments, and the callers that decide when a message may be given.  *)
(***************************************************************************)
EXTENDS NetChan

CONSTANTS
    Lengths,            \* the message lengths tried
    MaxMessages         \* bound on the messages submitted

ASSUME LengthsAssumption == Lengths \subseteq 1 .. MAX_MSGLEN
ASSUME MaxMessagesAssumption == MaxMessages \in Nat

VARIABLES
    queue,              \* netchan_start_queue .. netchan_end_queue
    submitted,          \* history: the messages given to SV_Netchan_Transmit
    numbered            \* history: the message that took each sequence number

vars == <<chanVars, queue, submitted, numbered>>

TypeOK ==
    /\ ChanTypeOK
    /\ queue \in Seq(Message)
    /\ submitted \in Seq(Message)
    /\ numbered \in Seq(Message)

Init ==
    /\ Netchan_Setup
    /\ queue = <<>>
    /\ submitted = <<>>
    /\ numbered = <<>>

-----------------------------------------------------------------------------
\* Mutant: only the queue is looked at, not the fragments still to be sent.
Busy_QueueOnly == queue # <<>>

Busy == unsentFragments \/ queue # <<>>

Start(m) == Netchan_Transmit(m) /\ numbered' = Append(numbered, m)

SV_Netchan_Transmit(m) ==
    \/ /\ Busy
       /\ queue' = Append(queue, m)
       /\ UNCHANGED <<sendVars, wire, numbered>>
    \/ /\ ~Busy
       /\ Start(m)
       /\ UNCHANGED queue

Submit(m) ==
    /\ Len(submitted) < MaxMessages
    /\ submitted' = Append(submitted, m)
    /\ SV_Netchan_Transmit(m)
    /\ UNCHANGED receiveVars

NewMessage(length, snapshot) ==
    [id |-> Len(submitted) + 1, length |-> length, snapshot |-> snapshot,
     expected |-> outgoingSequence]

\* Mutant: snapshots are given to a busy channel too.
SnapshotAllowed_Always == TRUE

\* SV_SendClientMessages skips a client whose channel is busy.
SnapshotAllowed == ~Busy

SV_SendClientSnapshot ==
    /\ SnapshotAllowed
    /\ \E length \in Lengths : Submit(NewMessage(length, TRUE))

\* Game states and download blocks are given to the channel at any time.
SV_SendReliableMessage ==
    \E length \in Lengths : Submit(NewMessage(length, FALSE))

SV_Netchan_TransmitNextInQueue ==
    /\ queue # <<>>
    /\ Start(Head(queue))
    /\ queue' = Tail(queue)

\* Once a frame, SV_SendQueuedMessages.
SV_Netchan_TransmitNextFragment ==
    /\ \/ /\ unsentFragments
          /\ Netchan_TransmitNextFragment
          /\ UNCHANGED <<queue, numbered>>
       \/ /\ ~unsentFragments
          /\ SV_Netchan_TransmitNextInQueue
    /\ UNCHANGED <<receiveVars, submitted>>

\* SV_DropClient frees what is queued; fragments of a started message go on.
SV_Netchan_FreeQueue ==
    /\ queue # <<>>
    /\ queue' = <<>>
    /\ UNCHANGED <<chanVars, submitted, numbered>>

Receive ==
    /\ \E p \in wire : Netchan_Process(p)
    /\ UNCHANGED <<queue, submitted, numbered>>

Next ==
    \/ SV_SendClientSnapshot
    \/ SV_SendReliableMessage
    \/ SV_Netchan_TransmitNextFragment
    \/ SV_Netchan_FreeQueue
    \/ Receive

Spec == Init /\ [][Next]_vars

\* SV_Frame sends one round of fragments to every client whose rate allows it.
FairSpec == Spec /\ WF_vars(SV_Netchan_TransmitNextFragment)

-----------------------------------------------------------------------------
\* Properties.

Stream == INSTANCE MessageStream
    WITH last <- IF incomingSequence = 0 THEN 0 ELSE numbered[incomingSequence].id

\* The channel implements the message stream: whatever the network does to packets
\* and fragments, Netchan_Process hands over whole messages, each at most once, in
\* the order in which SV_Netchan_Transmit was given them.
ImplementsStream == Stream!Spec

\* A snapshot leaves with the sequence number under which SV_SendMessageToClient
\* recorded its frame, so that the client's acknowledgement of that number names the
\* frame a later snapshot is delta compressed from.
SnapshotSequenceExact ==
    \A p \in wire : p.msg.snapshot => p.sequence = p.msg.expected

\* Two packets with one sequence number are pieces of one message: a fragment is never
\* numbered like a message that was stacked behind it.
OneMessagePerSequence ==
    \A p, q \in wire : p.sequence = q.sequence => p.msg = q.msg

\* Once the sender is done with a message, a receiver that gets all of its packets can
\* put it together: they cover every byte and one of them tells where it ends, also when
\* the length is a multiple of FRAGMENT_SIZE.
EndedIsComplete ==
    \A s \in 1 .. outgoingSequence - 1 :
        LET sent == {p \in wire : p.sequence = s}
        IN  /\ \E p \in sent : ~p.fragmented \/ p.length < FRAGMENT_SIZE
            /\ \A k \in 0 .. numbered[s].length - 1 :
                    \E p \in sent : p.start <= k /\ k < p.start + p.length

\* The channel does not stay busy: every message started is sent to its last fragment,
\* the empty one of an exact multiple included, and the queue behind it drains.
Drains == Busy ~> ~Busy
=============================================================================

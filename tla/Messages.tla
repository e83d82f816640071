------------------------------ MODULE Messages ------------------------------
(***************************************************************************)
(* The messages (msg_t) that the engine hands to a network channel.  What  *)
(* a message says does not matter to the channel, only where each of its   *)
(* bytes comes from: byte k of message m is the pair <<m.id, k>>, so two   *)
(* different messages share no byte.                                       *)
(***************************************************************************)
EXTENDS Naturals, Sequences

CONSTANT
    MAX_MSGLEN          \* capacity of a message and of both fragment buffers

ASSUME MaxMsglenAssumption == MAX_MSGLEN \in Nat \ {0}

(***************************************************************************)
(* id numbers the messages in the order in which they are given to the     *)
(* channel.  snapshot is TRUE for a snapshot, which the server only gives *)
(* to an idle channel, and expected is netchan.outgoingSequence when the   *)
(* message was given, which SV_SendMessageToClient uses to index frames[]. *)
(***************************************************************************)
Message == [id : Nat, length : 1 .. MAX_MSGLEN, snapshot : BOOLEAN, expected : Nat]

Bytes == Nat \X Nat

Byte(m, k) == <<m.id, k>>

\* The bytes as the parser reads them, in order.
Contents(m) == [k \in 1 .. m.length |-> Byte(m, k - 1)]
=============================================================================

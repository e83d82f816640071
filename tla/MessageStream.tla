--------------------------- MODULE MessageStream ----------------------------
(***************************************************************************)
(* What a network channel promises to the code above it: of the messages   *)
(* submitted at one end, some are received at the other end, each of them  *)
(* whole, none of them twice, and in the order of submission.  Any message *)
(* may be lost.  Everything the engine does on top of a channel (reliable  *)
(* commands, delta compressed snapshots) is designed for this contract.    *)
(***************************************************************************)
EXTENDS Messages

VARIABLES
    submitted,          \* the messages given to the channel, in order
    received,           \* the contents handed to the parser, in order
    last                \* index in submitted of the last message received

vars == <<submitted, received, last>>

Init ==
    /\ submitted = <<>>
    /\ received = <<>>
    /\ last = 0

\* One message more; its id is its place.
Submit ==
    /\ Len(submitted') = Len(submitted) + 1
    /\ LET m == submitted'[Len(submitted) + 1]
       IN  /\ m \in Message
           /\ m.id = Len(submitted) + 1
           /\ submitted' = Append(submitted, m)
    /\ UNCHANGED <<received, last>>

Receive ==
    /\ \E k \in last + 1 .. Len(submitted) :
          /\ received' = Append(received, Contents(submitted[k]))
          /\ last' = k
    /\ UNCHANGED submitted

Next == Submit \/ Receive

Spec == Init /\ [][Next]_vars
=============================================================================

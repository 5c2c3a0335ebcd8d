---------------------------- MODULE FrameDelivery ----------------------------
(***************************************************************************)
(* What a receiver's driver promises: the messages it acts on are ones     *)
(* that were sent, in the order they were sent, each at most once.  Some   *)
(* may be lost.                                                            *)
(***************************************************************************)
EXTENDS Naturals, Sequences

CONSTANT Messages

VARIABLES
  sent,      \* the messages sent so far
  delivered  \* of those delivered: their places in sent and payloads

Init == sent = << >> /\ delivered = << >>

Send ==
  /\ \E m \in Messages : sent' = Append(sent, m)
  /\ UNCHANGED delivered

Deliver ==
  /\ \E k \in DOMAIN sent :
       /\ \A i \in DOMAIN delivered : delivered[i].place < k
       /\ delivered' = Append(delivered, [place |-> k, payload |-> sent[k].payload])
  /\ UNCHANGED sent

Next == Send \/ Deliver

Spec == Init /\ [][Next]_<<sent, delivered>>

=============================================================================

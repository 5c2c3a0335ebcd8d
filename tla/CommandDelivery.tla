--------------------------- MODULE CommandDelivery ---------------------------
(***************************************************************************)
(* What the command link promises the operator: the commands are executed  *)
(* in the order they were given, each exactly once, and none is reported   *)
(* as received before it has been executed.                                *)
(***************************************************************************)
EXTENDS Naturals, Sequences

VARIABLES
  executed,      \* the commands executed so far, by their place in the order given
  acknowledged   \* how many the operator knows to have been executed

Init == executed = << >> /\ acknowledged = 0

\* The operator gives one command at a time.
Execute ==
  /\ Len(executed) = acknowledged
  /\ executed' = Append(executed, acknowledged + 1)
  /\ UNCHANGED acknowledged

Acknowledge ==
  /\ acknowledged < Len(executed)
  /\ acknowledged' = acknowledged + 1
  /\ UNCHANGED executed

Next == Execute \/ Acknowledge

Spec == Init /\ [][Next]_<<executed, acknowledged>>

=============================================================================

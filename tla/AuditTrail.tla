----------------------------- MODULE AuditTrail -----------------------------
(***************************************************************************)
(* What the audit side promises to a reader of one task's lifecycle: every *)
(* committed event happens once in the trail, in the order it happened.    *)
(* Auditing may be off while the process runs; what happened then may be   *)
(* waived for good, but never shows up out of place later.                 *)
(***************************************************************************)
EXTENDS Integers, Sequences

VARIABLES
  happened,     \* how many lifecycle events the task has, numbered from 1
  trail,        \* the events a reader sees, repetitions dropped
  waived        \* the events that were not audited

vars == <<happened, trail, waived>>

Settled == {trail[i] : i \in DOMAIN trail} \cup waived

Init == happened = 0 /\ trail = <<>> /\ waived = {}

Happen ==
  /\ happened' = happened + 1
  /\ UNCHANGED <<trail, waived>>

\* Only the first event that is neither recorded nor waived can be recorded.
Record ==
  \E k \in 1..happened :
    /\ k \notin Settled
    /\ 1..(k - 1) \subseteq Settled
    /\ trail' = Append(trail, k)
    /\ UNCHANGED <<happened, waived>>

Waive ==
  /\ \E k \in 1..happened : waived' = waived \cup ((1..k) \ Settled)
  /\ UNCHANGED <<happened, trail>>

Next == Happen \/ Record \/ Waive

Spec == Init /\ [][Next]_vars
=============================================================================

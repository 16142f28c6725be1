--------------------------- MODULE SubagentRecord ---------------------------
(***************************************************************************)
(* The durable child-task record of nanobot/session/subagent_tasks.py: its *)
(* enumerations, its two transition tables, and what each store operation  *)
(* does to the record, as operators on records.                            *)
(*                                                                         *)
(* A record has at least the fields status, termination, delivery and      *)
(* reservation.  Timestamps, error texts, evidence and the task's          *)
(* description are left out: no decision of the store depends on them.     *)
(* "absent" is the status of a task that has no file yet.                  *)
(***************************************************************************)
EXTENDS Integers, Sequences

TerminalStatuses == {"succeeded", "failed", "cancelled", "timed_out", "lost"}
Statuses == {"created", "queued", "running"} \cup TerminalStatuses

Terminations ==
  {"none", "cancel_requested", "grace_waiting", "cooperatively_exited",
   "force_kill_requested", "force_killed", "termination_failed"}

Deliveries ==
  {"not_ready", "ready", "claimed_pending_delivery", "delivered",
   "delivery_failed"}

\* budget["reservation_state"]; the store never looks inside the budget.
Reservations == {"none", "reserved", "settled", "released"}

StatusMoves ==
       {"created"} \X {"queued", "failed", "cancelled"}
  \cup {"queued"}  \X {"running", "failed", "cancelled", "timed_out", "lost"}
  \cup {"running"} \X TerminalStatuses

TerminationMoves ==
       {"none"} \X {"cancel_requested", "cooperatively_exited",
                    "termination_failed"}
  \cup {"cancel_requested"} \X
         {"grace_waiting", "cooperatively_exited", "force_kill_requested",
          "termination_failed"}
  \cup {"grace_waiting"} \X
         {"cooperatively_exited", "force_kill_requested", "termination_failed"}
  \cup {"force_kill_requested"} \X {"force_killed", "termination_failed"}

Terminal(r) == r.status \in TerminalStatuses

-----------------------------------------------------------------------------
(* transition_status: repeating the status or arriving after a terminal one *)
(* is a no-op, anything else outside the table raises.                      *)

StatusIgnored(r, s) == r.status = s \/ Terminal(r)
StatusIllegal(r, s) == ~StatusIgnored(r, s) /\ <<r.status, s>> \notin StatusMoves
WithStatus(r, s) ==
  IF StatusIgnored(r, s) \/ StatusIllegal(r, s) THEN r
  ELSE [r EXCEPT !.status = s]

(* record_termination: the equality test comes before the terminal test, and *)
(* an unconfirmed termination makes the task lost in the same write.         *)

\* Mutant of TerminationIgnored: the terminal test is forgotten.
TerminationIgnoredOnlyIfSame(r, x) == r.termination = x
TerminationIgnored(r, x) == r.termination = x \/ Terminal(r)
TerminationIllegal(r, x) ==
  ~TerminationIgnored(r, x) /\ <<r.termination, x>> \notin TerminationMoves
WithTermination(r, x) ==
  IF TerminationIgnored(r, x) \/ TerminationIllegal(r, x) THEN r
  ELSE [r EXCEPT !.termination = x,
                 !.status = IF x = "termination_failed" THEN "lost" ELSE @]

(* update_budget has no terminal test: a reservation is settled after the end. *)
WithReservation(r, b) == [r EXCEPT !.reservation = b]

(* mark_result_ready, claim_result, mark_delivered and mark_delivery_failed. *)

ReadyIllegal(r) == r.delivery \notin {"not_ready", "ready"}
\* Mutant of Claimable: whatever is not "not_ready" may be claimed.
ClaimableUnlessNotReady(r) == r.delivery # "not_ready"
Claimable(r)    == r.delivery \in {"ready", "delivery_failed"}
ClaimIllegal(r) == r.delivery = "not_ready"
DeliveryIllegal(r, d) == r.delivery \notin {"claimed_pending_delivery", d}
WithDelivery(r, d) == [r EXCEPT !.delivery = d]
=============================================================================

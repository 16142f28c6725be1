--------------------------- MODULE ResultContract ---------------------------
(***************************************************************************)
(* What a child task promises to whoever waits for it, with the records,   *)
(* coroutines, workers and crashes left out: the task ends once, its       *)
(* result is offered only after the end and only once, and an offer is in  *)
(* the hands of at most one taker, who delivers it or gives it back.       *)
(***************************************************************************)
EXTENDS SubagentRecord

VARIABLES status, delivery

Ended == status \in TerminalStatuses

Init == status = "queued" /\ delivery = "not_ready"

Advance ==
  /\ ~Ended
  /\ \E s \in Statuses : <<status, s>> \in StatusMoves /\ status' = s
  /\ UNCHANGED delivery

Offer ==
  /\ Ended /\ delivery = "not_ready"
  /\ delivery' = "ready"
  /\ UNCHANGED status

Take ==
  /\ delivery \in {"ready", "delivery_failed"}
  /\ delivery' = "claimed_pending_delivery"
  /\ UNCHANGED status

Settle ==
  /\ delivery = "claimed_pending_delivery"
  /\ delivery' \in {"delivered", "delivery_failed"}
  /\ UNCHANGED status

Next == Advance \/ Offer \/ Take \/ Settle

Spec == Init /\ [][Next]_<<status, delivery>>
=============================================================================

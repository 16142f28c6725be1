------------------------- MODULE SubagentTaskStore -------------------------
(***************************************************************************)
(* SubagentTaskStore (nanobot/session/subagent_tasks.py): one JSON file    *)
(* per task, holding the record and its lifecycle outbox.  Every operation *)
(* runs under the task's lock without yielding and ends in one atomic      *)
(* rename, so it is one action here; a crash leaves the file of before or  *)
(* of after the rename, and nothing of the store lives only in memory.     *)
(* Operations that return without writing, or raise, leave the state alone *)
(* and are the negation of a guard.                                        *)
(***************************************************************************)
EXTENDS SubagentRecord, FiniteSets

CONSTANTS
  Tasks,        \* task identifiers
  Phases,       \* execution phases a child reports
  Usages,       \* observed usage values
  NoUsage,      \* the empty usage of a task that has not run
  MaxRevision   \* bound on the commits of one task

ASSUME StoreAssumption ==
  /\ MaxRevision \in Nat \ {0}
  /\ "initializing" \in Phases
  /\ NoUsage \in Usages

VARIABLES
  task,         \* the durable record of each task
  revision,     \* its revision, 0 while there is no file
  outbox        \* its lifecycle_outbox

vars == <<task, revision, outbox>>

EventTypes ==
  {"subagent_created", "subagent_admitted", "subagent_phase_changed",
   "subagent_usage_updated", "subagent_budget_updated",
   "subagent_cancel_requested", "subagent_termination_decided",
   "subagent_lost", "subagent_terminal", "subagent_recovered",
   "subagent_result_ready", "subagent_result_claimed",
   "subagent_result_delivered", "subagent_delivery_failed"}

NoTask ==
  [status |-> "absent", termination |-> "none", delivery |-> "not_ready",
   reservation |-> "none", phase |-> "initializing", usage |-> NoUsage]

TaskRecord ==
  [status : Statuses \cup {"absent"}, termination : Terminations,
   delivery : Deliveries, reservation : Reservations,
   phase : Phases, usage : Usages]

\* _event: the revision and the summary of the record it was committed with.
\* The idempotency key of an event is its task, revision and type.
Event(r, n, type) ==
  [revision |-> n, type |-> type, status |-> r.status,
   termination |-> r.termination, delivery |-> r.delivery,
   published |-> FALSE]

EventRecord ==
  [revision : Nat, type : EventTypes, status : Statuses,
   termination : Terminations, delivery : Deliveries, published : BOOLEAN]

Key(e) == <<e.revision, e.type>>

Exists(t) == task[t].status # "absent"

Init ==
  /\ task = [t \in Tasks |-> NoTask]
  /\ revision = [t \in Tasks |-> 0]
  /\ outbox = [t \in Tasks |-> <<>>]

-----------------------------------------------------------------------------

\* Mutants of Commit: the revision is not advanced; the event is built before
\* the record is changed.
CommitSameRevision(t, r, type) ==
  /\ revision[t] < MaxRevision
  /\ task' = [task EXCEPT ![t] = r]
  /\ revision' = [revision EXCEPT ![t] = IF @ = 0 THEN 1 ELSE @]
  /\ outbox' = [outbox EXCEPT ![t] = Append(@, Event(r, revision'[t], type))]
CommitStaleEvent(t, r, type) ==
  /\ revision[t] < MaxRevision
  /\ task' = [task EXCEPT ![t] = r]
  /\ revision' = [revision EXCEPT ![t] = @ + 1]
  /\ outbox' = [outbox EXCEPT ![t] =
        Append(@, Event(IF Exists(t) THEN task[t] ELSE r, revision[t] + 1, type))]
\* _commit: the next revision, its event, and the record, in one rename.
Commit(t, r, type) ==
  /\ revision[t] < MaxRevision
  /\ task' = [task EXCEPT ![t] = r]
  /\ revision' = [revision EXCEPT ![t] = @ + 1]
  /\ outbox' = [outbox EXCEPT ![t] = Append(@, Event(r, revision[t] + 1, type))]

Create(t) ==
  /\ ~Exists(t)
  /\ Commit(t, [task[t] EXCEPT !.status = "created", !.reservation = "reserved"],
            "subagent_created")

StatusEvent(s) ==
  CASE s = "lost"               -> "subagent_lost"
    [] s \in TerminalStatuses \ {"lost"} -> "subagent_terminal"
    [] s = "queued"             -> "subagent_admitted"
    [] OTHER                    -> "subagent_phase_changed"

TransitionStatus(t, s) ==
  /\ Exists(t)
  /\ ~StatusIgnored(task[t], s)
  /\ ~StatusIllegal(task[t], s)
  /\ Commit(t, WithStatus(task[t], s), StatusEvent(s))

\* Mutant of UpdateRuntime: a late report is still written after the end.
UpdateRuntimeLate(t, p, u) ==
  /\ Exists(t)
  /\ <<p, u>> # <<task[t].phase, task[t].usage>>
  /\ Commit(t, [task[t] EXCEPT !.phase = p, !.usage = u],
            IF p = task[t].phase THEN "subagent_usage_updated"
                                 ELSE "subagent_phase_changed")

UpdateRuntime(t, p, u) ==
  /\ Exists(t)
  /\ ~Terminal(task[t])
  /\ <<p, u>> # <<task[t].phase, task[t].usage>>
  /\ Commit(t, [task[t] EXCEPT !.phase = p, !.usage = u],
            IF p = task[t].phase THEN "subagent_usage_updated"
                                 ELSE "subagent_phase_changed")

\* The manager settles or releases only what is still reserved.
UpdateBudget(t, b) ==
  /\ Exists(t)
  /\ task[t].reservation = "reserved"
  /\ Commit(t, WithReservation(task[t], b), "subagent_budget_updated")

RecordTermination(t, x) ==
  /\ Exists(t)
  /\ x # "termination_failed"
  /\ ~TerminationIgnored(task[t], x)
  /\ ~TerminationIllegal(task[t], x)
  /\ Commit(t, WithTermination(task[t], x),
            IF x = "cancel_requested" THEN "subagent_cancel_requested"
                                      ELSE "subagent_termination_decided")

\* termination_failed: two events of the same revision in one write.
RecordTerminationFailed(t) ==
  LET r == WithTermination(task[t], "termination_failed")
      n == revision[t] + 1
  IN /\ Exists(t)
     /\ ~TerminationIgnored(task[t], "termination_failed")
     /\ ~TerminationIllegal(task[t], "termination_failed")
     /\ revision[t] < MaxRevision
     /\ task' = [task EXCEPT ![t] = r]
     /\ revision' = [revision EXCEPT ![t] = n]
     /\ outbox' = [outbox EXCEPT ![t] =
          Append(Append(@, Event(r, n, "subagent_termination_decided")),
                 Event(r, n, "subagent_lost"))]

\* record_recovery: the first of the two commits of recover_runtime, which
\* calls it only for queued and running tasks; RecordTerminationFailed is
\* the second, and a crash may fall between them.
RecordRecovery(t) ==
  /\ task[t].status \in {"queued", "running"}
  /\ Commit(t, task[t], "subagent_recovered")

MarkResultReady(t) ==
  /\ Exists(t)
  /\ task[t].delivery = "not_ready"
  /\ Commit(t, WithDelivery(task[t], "ready"), "subagent_result_ready")

ClaimResult(t) ==
  /\ Exists(t)
  /\ Claimable(task[t])
  /\ Commit(t, WithDelivery(task[t], "claimed_pending_delivery"),
            "subagent_result_claimed")

MarkDelivered(t) ==
  /\ Exists(t)
  /\ task[t].delivery = "claimed_pending_delivery"
  /\ Commit(t, WithDelivery(task[t], "delivered"), "subagent_result_delivered")

MarkDeliveryFailed(t) ==
  /\ Exists(t)
  /\ task[t].delivery = "claimed_pending_delivery"
  /\ Commit(t, WithDelivery(task[t], "delivery_failed"),
            "subagent_delivery_failed")

\* mark_outbox_published writes the file without a new revision.  Its only
\* caller, the lifecycle publisher, works through the outbox in order.
MarkOutboxPublished(t, i) ==
  /\ i \in DOMAIN outbox[t]
  /\ ~outbox[t][i].published
  /\ \A j \in 1..(i - 1) : outbox[t][j].published
  /\ outbox' = [outbox EXCEPT ![t] = [@ EXCEPT ![i].published = TRUE]]
  /\ UNCHANGED <<task, revision>>

Next ==
  \E t \in Tasks :
    \/ Create(t)
    \/ \E s \in Statuses : TransitionStatus(t, s)
    \/ \E p \in Phases, u \in Usages : UpdateRuntime(t, p, u)
    \/ \E b \in {"settled", "released"} : UpdateBudget(t, b)
    \/ \E x \in Terminations : RecordTermination(t, x)
    \/ RecordTerminationFailed(t)
    \/ RecordRecovery(t)
    \/ MarkResultReady(t)
    \/ ClaimResult(t)
    \/ MarkDelivered(t)
    \/ MarkDeliveryFailed(t)
    \/ \E i \in DOMAIN outbox[t] : MarkOutboxPublished(t, i)

Spec == Init /\ [][Next]_vars

-----------------------------------------------------------------------------
(* Properties *)

TypeOK ==
  /\ task \in [Tasks -> TaskRecord]
  /\ revision \in [Tasks -> Nat]
  /\ outbox \in [Tasks -> Seq(EventRecord)]

EventsOf(t, types) == {i \in DOMAIN outbox[t] : outbox[t][i].type \in types}

\* No two events of a task share an idempotency key, although one commit may
\* append two events: the audit side drops a repeated key as a duplicate.
OutboxKeysUnique ==
  \A t \in Tasks : \A i, j \in DOMAIN outbox[t] :
    Key(outbox[t][i]) = Key(outbox[t][j]) => i = j

\* The outbox is a faithful log of the record: it starts with the creation,
\* skips no revision, and its last event describes the record on disk.
OutboxTracksRecord ==
  \A t \in Tasks : Exists(t) =>
    LET log  == outbox[t]
        last == log[Len(log)]
    IN /\ log # <<>>
       /\ Key(log[1]) = <<1, "subagent_created">>
       /\ \A i \in 1..(Len(log) - 1) :
            log[i + 1].revision \in {log[i].revision, log[i].revision + 1}
       /\ last.revision = revision[t]
       /\ last.status = task[t].status
       /\ last.termination = task[t].termination
       /\ last.delivery = task[t].delivery

\* Whether a task ends by a status transition, by an unconfirmed termination
\* or by both racing, its log holds exactly one end.
OneEnd ==
  \A t \in Tasks :
    Cardinality(EventsOf(t, {"subagent_terminal", "subagent_lost"})) =
      IF Terminal(task[t]) THEN 1 ELSE 0

\* Every claim of a result is still held, was delivered, or was handed back:
\* two runs never hold the result of one task at the same time.
ClaimsBalance ==
  \A t \in Tasks :
    /\ Cardinality(EventsOf(t, {"subagent_result_claimed"})) =
         Cardinality(EventsOf(t, {"subagent_delivery_failed"})) +
         (IF task[t].delivery \in {"claimed_pending_delivery", "delivered"}
          THEN 1 ELSE 0)
    /\ Cardinality(EventsOf(t, {"subagent_result_delivered"})) =
         IF task[t].delivery = "delivered" THEN 1 ELSE 0

\* A termination that could not be confirmed never coexists with any other
\* outcome: a late success, failure or cancellation does not overwrite it.
UnconfirmedMeansLost ==
  \A t \in Tasks :
    task[t].termination = "termination_failed" => task[t].status = "lost"

\* After the end of a task no operation rewrites its outcome, its termination
\* or what it was last seen doing; only the budget and the delivery move.
EndIsFinal ==
  [][\A t \in Tasks : Terminal(task[t]) =>
       /\ task'[t].status = task[t].status
       /\ task'[t].termination = task[t].termination
       /\ task'[t].phase = task[t].phase
       /\ task'[t].usage = task[t].usage]_vars
=============================================================================

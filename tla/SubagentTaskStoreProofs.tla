---------------------- MODULE SubagentTaskStoreProofs ----------------------
(***************************************************************************)
(* Theorems about SubagentTaskStore, for any set of tasks and any bound on *)
(* revisions.  Every step of the store is one of three shapes: a commit of *)
(* one record with one event, the double event of a failed termination, or *)
(* the publication of an event; the invariance proofs split on the shapes. *)
(***************************************************************************)
EXTENDS SubagentTaskStore, FiniteSetTheorems, TLAPS

\* What a commit may do to the record of one task.
Evolves(old, new) ==
  /\ new \in TaskRecord
  /\ new.status \in Statuses
  /\ Terminal(old) => /\ new.status = old.status
                      /\ new.termination = old.termination
                      /\ new.phase = old.phase
                      /\ new.usage = old.usage
  /\ new.termination = "termination_failed" =>
       \/ new.status = "lost"
       \/ old.termination = "termination_failed" /\ old.status # "lost"

EndTypes == {"subagent_terminal", "subagent_lost"}
DeliveryTypes ==
  {"subagent_result_claimed", "subagent_result_delivered",
   "subagent_delivery_failed"}

\* What the type of its event says of a commit.
Tells(old, new, type) ==
  /\ type = "subagent_created" <=> old.status = "absent"
  /\ type \in EndTypes <=> Terminal(new) /\ ~Terminal(old)
  /\ type = "subagent_result_claimed" =>
       Claimable(old) /\ new.delivery = "claimed_pending_delivery"
  /\ type = "subagent_result_delivered" =>
       /\ old.delivery = "claimed_pending_delivery"
       /\ new.delivery = "delivered"
  /\ type = "subagent_delivery_failed" =>
       /\ old.delivery = "claimed_pending_delivery"
       /\ new.delivery = "delivery_failed"
  /\ type \notin DeliveryTypes =>
       \/ new.delivery = old.delivery
       \/ old.delivery = "not_ready" /\ new.delivery = "ready"

CommitStep(t) ==
  \E r \in TaskRecord, type \in EventTypes :
    /\ Evolves(task[t], r)
    /\ Tells(task[t], r, type)
    /\ Commit(t, r, type)

PublishStep(t) == \E i \in DOMAIN outbox[t] : MarkOutboxPublished(t, i)

LEMMA StepShape ==
  ASSUME TypeOK, NEW t \in Tasks,
         \/ Create(t)
         \/ \E s \in Statuses : TransitionStatus(t, s)
         \/ \E p \in Phases, u \in Usages : UpdateRuntime(t, p, u)
         \/ \E b \in {"settled", "released"} : UpdateBudget(t, b)
         \/ \E x \in Terminations : RecordTermination(t, x)
         \/ RecordRecovery(t)
         \/ MarkResultReady(t)
         \/ ClaimResult(t)
         \/ MarkDelivered(t)
         \/ MarkDeliveryFailed(t)
  PROVE  CommitStep(t)
<1> DEFINE old == task[t]
<1>0. old \in TaskRecord
  BY DEF TypeOK
<1> USE DEF TaskRecord, Evolves, EventTypes, Terminal, Exists, Statuses,
        TerminalStatuses, Tells, EndTypes, DeliveryTypes
<1>1. CASE Create(t)
  <2> DEFINE r == [old EXCEPT !.status = "created", !.reservation = "reserved"]
  <2>1. r \in TaskRecord /\ Evolves(old, r) /\ Tells(old, r, "subagent_created")
    BY <1>0, <1>1 DEF Create, Reservations
  <2>2. Commit(t, r, "subagent_created")
    BY <1>1 DEF Create
  <2> QED BY <2>1, <2>2 DEF CommitStep
<1>2. ASSUME NEW s \in Statuses, TransitionStatus(t, s) PROVE CommitStep(t)
  <2> DEFINE r == WithStatus(old, s)
  <2>1. r = [old EXCEPT !.status = s] /\ ~Terminal(old)
    BY <1>2 DEF TransitionStatus, WithStatus, StatusIgnored
  <2>2. <<old.status, s>> \in StatusMoves
    BY <1>2 DEF TransitionStatus, StatusIllegal
  <2>3. r \in TaskRecord /\ r.status \in Statuses
    BY <1>0, <2>1
  <2>4. old.termination = "termination_failed" => old.status # "lost"
    BY <2>1
  <2>5. Evolves(old, r)
    BY <1>0, <2>1, <2>3, <2>4
  <2>6. StatusEvent(s) \in EventTypes
    BY DEF StatusEvent
  <2>8. Tells(old, r, StatusEvent(s))
    BY <1>2, <2>1 DEF StatusEvent, TransitionStatus
  <2>7. Exists(t) /\ Commit(t, r, StatusEvent(s))
    BY <1>2 DEF TransitionStatus
  <2> QED BY <2>3, <2>5, <2>6, <2>7, <2>8 DEF CommitStep
<1>3. ASSUME NEW p \in Phases, NEW u \in Usages, UpdateRuntime(t, p, u)
      PROVE CommitStep(t)
  <2> DEFINE r == [old EXCEPT !.phase = p, !.usage = u]
             type == IF p = old.phase THEN "subagent_usage_updated"
                                      ELSE "subagent_phase_changed"
  <2>1. /\ r \in TaskRecord /\ Evolves(old, r) /\ type \in EventTypes
        /\ Tells(old, r, type)
    BY <1>0, <1>3 DEF UpdateRuntime
  <2>2. Exists(t) /\ Commit(t, r, type)
    BY <1>3 DEF UpdateRuntime
  <2> QED BY <2>1, <2>2 DEF CommitStep
<1>4. ASSUME NEW b \in {"settled", "released"}, UpdateBudget(t, b)
      PROVE CommitStep(t)
  <2> DEFINE r == WithReservation(old, b)
  <2>1. /\ r \in TaskRecord /\ Evolves(old, r)
        /\ Tells(old, r, "subagent_budget_updated")
    BY <1>0, <1>4 DEF UpdateBudget, WithReservation, Reservations
  <2>2. Exists(t) /\ Commit(t, r, "subagent_budget_updated")
    BY <1>4 DEF UpdateBudget
  <2> QED BY <2>1, <2>2 DEF CommitStep
<1>5. ASSUME NEW x \in Terminations, RecordTermination(t, x)
      PROVE CommitStep(t)
  <2> DEFINE r == WithTermination(old, x)
             type == IF x = "cancel_requested"
                     THEN "subagent_cancel_requested"
                     ELSE "subagent_termination_decided"
  <2>1. r = [old EXCEPT !.termination = x] /\ ~Terminal(old)
        /\ x # "termination_failed"
    BY <1>0, <1>5 DEF RecordTermination, WithTermination, TerminationIgnored
  <2>2. /\ r \in TaskRecord /\ Evolves(old, r) /\ type \in EventTypes
        /\ Tells(old, r, type)
    BY <1>0, <1>5, <2>1 DEF RecordTermination
  <2>3. Exists(t) /\ Commit(t, r, type)
    BY <1>5 DEF RecordTermination
  <2> QED BY <2>2, <2>3 DEF CommitStep
<1>6. CASE RecordRecovery(t)
  <2>1. /\ old \in TaskRecord /\ Evolves(old, old)
        /\ Tells(old, old, "subagent_recovered")
    BY <1>0, <1>6 DEF RecordRecovery
  <2>2. Commit(t, old, "subagent_recovered")
    BY <1>6 DEF RecordRecovery
  <2> QED BY <2>1, <2>2 DEF CommitStep
<1>7. ASSUME NEW d \in Deliveries, NEW type \in EventTypes, Exists(t),
             Tells(old, WithDelivery(old, d), type),
             Commit(t, WithDelivery(old, d), type)
      PROVE CommitStep(t)
  <2> DEFINE r == WithDelivery(old, d)
  <2>1. r \in TaskRecord /\ Evolves(old, r)
    BY <1>0, <1>7 DEF WithDelivery
  <2> QED BY <2>1, <1>7 DEF CommitStep
<1>8. CASE MarkResultReady(t) \/ ClaimResult(t) \/ MarkDelivered(t)
           \/ MarkDeliveryFailed(t)
  BY <1>0, <1>7, <1>8
     DEF MarkResultReady, ClaimResult, MarkDelivered, MarkDeliveryFailed,
         Deliveries, WithDelivery
<1> QED
  BY <1>1, <1>2, <1>3, <1>4, <1>5, <1>6, <1>8

LEMMA StepCases ==
  ASSUME TypeOK, Next
  PROVE  \E t \in Tasks :
           CommitStep(t) \/ RecordTerminationFailed(t) \/ PublishStep(t)
<1>1. PICK t \in Tasks :
        \/ Create(t)
        \/ \E s \in Statuses : TransitionStatus(t, s)
        \/ \E p \in Phases, u \in Usages : UpdateRuntime(t, p, u)
        \/ \E b \in {"settled", "released"} : UpdateBudget(t, b)
        \/ \E x \in Terminations : RecordTermination(t, x)
        \/ RecordTerminationFailed(t)
        \/ RecordRecovery(t)
        \/ MarkResultReady(t)
        \/ ClaimResult(t)
        \/ MarkDelivered(t)
        \/ MarkDeliveryFailed(t)
        \/ \E i \in DOMAIN outbox[t] : MarkOutboxPublished(t, i)
  BY DEF Next
<1>2. CASE RecordTerminationFailed(t)
  BY <1>2
<1>3. CASE \E i \in DOMAIN outbox[t] : MarkOutboxPublished(t, i)
  BY <1>3 DEF PublishStep
<1> QED BY <1>1, <1>2, <1>3, StepShape

-----------------------------------------------------------------------------
(* What the steps do to the record, and type correctness. *)

LEMMA FailedRecord ==
  ASSUME TypeOK, NEW t \in Tasks, RecordTerminationFailed(t)
  PROVE  LET r == WithTermination(task[t], "termination_failed")
         IN /\ r \in TaskRecord
            /\ r.status = "lost"
            /\ r.termination = "termination_failed"
            /\ ~Terminal(task[t])
            /\ r.phase = task[t].phase /\ r.usage = task[t].usage
            /\ r.delivery = task[t].delivery
            /\ Event(r, revision[t] + 1, "subagent_termination_decided")
                 \in EventRecord
            /\ Event(r, revision[t] + 1, "subagent_lost") \in EventRecord
<1> DEFINE r == WithTermination(task[t], "termination_failed")
<1>1. task[t] \in TaskRecord /\ revision[t] \in Nat
  BY DEF TypeOK
<1>2. ~Terminal(task[t])
      /\ r = [task[t] EXCEPT !.termination = "termination_failed",
                            !.status = "lost"]
  BY DEF RecordTerminationFailed, WithTermination, TerminationIgnored
<1>3. /\ r \in TaskRecord /\ r.status = "lost"
      /\ r.termination = "termination_failed"
      /\ r.phase = task[t].phase /\ r.usage = task[t].usage
      /\ r.delivery = task[t].delivery
  BY <1>1, <1>2 DEF TaskRecord, Statuses, TerminalStatuses, Terminations
<1>4. r.status \in Statuses /\ revision[t] + 1 \in Nat
  BY <1>1, <1>3 DEF Statuses, TerminalStatuses
<1> HIDE DEF r
<1>5. ASSUME NEW type \in EventTypes
      PROVE  Event(r, revision[t] + 1, type) \in EventRecord
  BY <1>3, <1>4 DEF Event, EventRecord, TaskRecord
<1> QED BY <1>2, <1>3, <1>5 DEF r, EventTypes

LEMMA CommitEvent ==
  ASSUME TypeOK, NEW t \in Tasks, NEW r \in TaskRecord, r.status \in Statuses,
         NEW type \in EventTypes
  PROVE  Event(r, revision[t] + 1, type) \in EventRecord
BY DEF TypeOK, Event, EventRecord, TaskRecord

\* Type correctness: every reachable record, revision and outbox entry of
\* every task has the shape the store's dataclasses declare, for any number
\* of tasks and any number of commits.
THEOREM TypeCorrect == Spec => []TypeOK
<1>1. Init => TypeOK
  BY StoreAssumption
     DEF Init, TypeOK, NoTask, TaskRecord, Terminations, Deliveries,
         Reservations
<1>2. TypeOK /\ [Next]_vars => TypeOK'
  <2> SUFFICES ASSUME TypeOK, [Next]_vars PROVE TypeOK'
    OBVIOUS
  <2>1. CASE UNCHANGED vars
    BY <2>1 DEF vars, TypeOK
  <2>2. ASSUME NEW t \in Tasks, CommitStep(t) PROVE TypeOK'
    <3>1. PICK r \in TaskRecord, type \in EventTypes :
            Evolves(task[t], r) /\ Commit(t, r, type)
      BY <2>2 DEF CommitStep
    <3>2. Event(r, revision[t] + 1, type) \in EventRecord
      BY <3>1, CommitEvent DEF Evolves
    <3> QED BY <3>1, <3>2 DEF Commit, TypeOK
  <2>3. ASSUME NEW t \in Tasks, RecordTerminationFailed(t) PROVE TypeOK'
    <3> DEFINE r == WithTermination(task[t], "termination_failed")
               e == Event(r, revision[t] + 1, "subagent_termination_decided")
               f == Event(r, revision[t] + 1, "subagent_lost")
    <3>1. r \in TaskRecord /\ e \in EventRecord /\ f \in EventRecord
      BY <2>3, FailedRecord
    <3>2. /\ task' = [task EXCEPT ![t] = r]
          /\ revision' = [revision EXCEPT ![t] = revision[t] + 1]
          /\ outbox' = [outbox EXCEPT ![t] = Append(Append(outbox[t], e), f)]
      BY <2>3 DEF RecordTerminationFailed
    <3> HIDE DEF r, e, f
    <3> QED BY <3>1, <3>2 DEF TypeOK
  <2>4. ASSUME NEW t \in Tasks, PublishStep(t) PROVE TypeOK'
    <3>1. PICK i \in DOMAIN outbox[t] : MarkOutboxPublished(t, i)
      BY <2>4 DEF PublishStep
    <3>2. outbox[t] \in Seq(EventRecord) /\ outbox[t][i] \in EventRecord
      BY DEF TypeOK
    <3>3. [outbox[t][i] EXCEPT !.published = TRUE] \in EventRecord
      BY <3>2 DEF EventRecord
    <3>4. [outbox[t] EXCEPT ![i].published = TRUE] \in Seq(EventRecord)
      BY <3>2, <3>3
    <3> QED BY <3>1, <3>4 DEF MarkOutboxPublished, TypeOK
  <2> QED BY <2>1, <2>2, <2>3, <2>4, StepCases
<1> QED BY <1>1, <1>2, PTL DEF Spec

-----------------------------------------------------------------------------
(* The two properties of the record alone. *)

\* One step, as seen by the record of one task.
LEMMA RecordStep ==
  ASSUME TypeOK, Next, NEW u \in Tasks, task'[u] # task[u]
  PROVE  \/ Evolves(task[u], task'[u])
         \/ /\ ~Terminal(task[u])
            /\ task'[u].status = "lost"
<1>1. PICK t \in Tasks :
        CommitStep(t) \/ RecordTerminationFailed(t) \/ PublishStep(t)
  BY StepCases
<1>2. task \in [Tasks -> TaskRecord]
  BY DEF TypeOK
<1>3. CASE CommitStep(t)
  BY <1>2, <1>3 DEF CommitStep, Commit
<1>4. CASE RecordTerminationFailed(t)
  <2>1. task' = [task EXCEPT ![t] = WithTermination(task[t], "termination_failed")]
    BY <1>4 DEF RecordTerminationFailed
  <2>2. /\ ~Terminal(task[t])
        /\ WithTermination(task[t], "termination_failed").status = "lost"
    BY <1>4, FailedRecord
  <2> QED BY <1>2, <2>1, <2>2
<1>5. CASE PublishStep(t)
  BY <1>5 DEF PublishStep, MarkOutboxPublished
<1> QED BY <1>1, <1>3, <1>4, <1>5

\* A task whose executor's end could not be confirmed is lost for good: no
\* interleaving of the store's operations, however late, gives it another
\* outcome (record_termination writes both fields in one commit).
THEOREM UnconfirmedLost == Spec => []UnconfirmedMeansLost
<1>1. Init => UnconfirmedMeansLost
  BY DEF Init, UnconfirmedMeansLost, NoTask
<1>2. TypeOK /\ UnconfirmedMeansLost /\ [Next]_vars => UnconfirmedMeansLost'
  <2> SUFFICES ASSUME TypeOK, UnconfirmedMeansLost, [Next]_vars,
                      NEW u \in Tasks, task'[u].termination = "termination_failed"
               PROVE  task'[u].status = "lost"
    BY DEF UnconfirmedMeansLost
  <2>1. CASE task'[u] = task[u]
    BY <2>1 DEF UnconfirmedMeansLost
  <2>2. CASE task'[u] # task[u]
    BY <2>2, RecordStep DEF vars, Evolves, UnconfirmedMeansLost
  <2> QED BY <2>1, <2>2
<1> QED BY <1>1, <1>2, TypeCorrect, PTL DEF Spec

\* Terminal states absorb: after the end of a task, late reports, late
\* terminations and late transitions leave its outcome, its termination and
\* its last observation as they were.
THEOREM EndFinal == Spec => EndIsFinal
<1>1. TypeOK /\ [Next]_vars =>
        [\A t \in Tasks : Terminal(task[t]) =>
           /\ task'[t].status = task[t].status
           /\ task'[t].termination = task[t].termination
           /\ task'[t].phase = task[t].phase
           /\ task'[t].usage = task[t].usage]_vars
  <2> SUFFICES ASSUME TypeOK, Next, NEW t \in Tasks, Terminal(task[t]),
                      task'[t] # task[t]
               PROVE  /\ task'[t].status = task[t].status
                      /\ task'[t].termination = task[t].termination
                      /\ task'[t].phase = task[t].phase
                      /\ task'[t].usage = task[t].usage
    OBVIOUS
  <2> QED BY RecordStep DEF Evolves
<1> QED BY <1>1, TypeCorrect, PTL DEF Spec, EndIsFinal

-----------------------------------------------------------------------------
(* The outbox as a log. *)

\* One step, as seen by one task: nothing, a commit with one event, the
\* double event of a failed termination, or a publication.
Stays(u) == UNCHANGED <<task[u], revision[u], outbox[u]>>

Grows(u) ==
  \E r \in TaskRecord, type \in EventTypes :
    /\ r.status \in Statuses
    /\ Terminal(task[u]) => Terminal(r)
    /\ Tells(task[u], r, type)
    /\ task'[u] = r
    /\ revision'[u] = revision[u] + 1
    /\ outbox'[u] = Append(outbox[u], Event(r, revision[u] + 1, type))

GrowsTwice(u) ==
  \E r \in TaskRecord :
    LET e == Event(r, revision[u] + 1, "subagent_termination_decided")
        f == Event(r, revision[u] + 1, "subagent_lost")
    IN /\ r.status \in Statuses
       /\ Exists(u)
       /\ ~Terminal(task[u]) /\ Terminal(r) /\ r.delivery = task[u].delivery
       /\ task'[u] = r
       /\ revision'[u] = revision[u] + 1
       /\ outbox'[u] = Append(Append(outbox[u], e), f)

Publishes(u) ==
  /\ UNCHANGED <<task[u], revision[u]>>
  /\ \E i \in DOMAIN outbox[u] :
       outbox'[u] = [outbox[u] EXCEPT ![i].published = TRUE]

LEMMA LogStep ==
  ASSUME TypeOK, [Next]_vars, NEW u \in Tasks
  PROVE  Stays(u) \/ Grows(u) \/ GrowsTwice(u) \/ Publishes(u)
<1>1. CASE UNCHANGED vars
  BY <1>1 DEF vars, Stays
<1>2. CASE Next
  <2>1. PICK t \in Tasks :
          CommitStep(t) \/ RecordTerminationFailed(t) \/ PublishStep(t)
    BY <1>2, StepCases
  <2>2. /\ task \in [Tasks -> TaskRecord]
        /\ revision \in [Tasks -> Nat]
        /\ outbox \in [Tasks -> Seq(EventRecord)]
    BY DEF TypeOK
  <2>3. CASE CommitStep(t)
    <3>1. PICK r \in TaskRecord, type \in EventTypes :
            /\ Evolves(task[t], r)
            /\ Tells(task[t], r, type)
            /\ Commit(t, r, type)
      BY <2>3 DEF CommitStep
    <3>2. CASE t = u
      BY <2>2, <3>1, <3>2 DEF Commit, Grows, Evolves, Terminal
    <3>3. CASE t # u
      BY <2>2, <3>1, <3>3 DEF Commit, Stays
    <3> QED BY <3>2, <3>3
  <2>4. CASE RecordTerminationFailed(t)
    <3> DEFINE r == WithTermination(task[t], "termination_failed")
               e == Event(r, revision[t] + 1, "subagent_termination_decided")
               f == Event(r, revision[t] + 1, "subagent_lost")
    <3>1. /\ task' = [task EXCEPT ![t] = r]
          /\ revision' = [revision EXCEPT ![t] = revision[t] + 1]
          /\ outbox' = [outbox EXCEPT ![t] = Append(Append(outbox[t], e), f)]
          /\ Exists(t)
      BY <2>4 DEF RecordTerminationFailed
    <3>2. /\ r \in TaskRecord /\ r.status \in Statuses
          /\ ~Terminal(task[t]) /\ Terminal(r)
          /\ r.delivery = task[t].delivery
      BY <2>4, FailedRecord DEF Statuses, TerminalStatuses, Terminal
    <3>3. CASE t = u
      <4>1. /\ task'[t] = r
            /\ revision'[t] = revision[t] + 1
            /\ outbox'[t] = Append(Append(outbox[t], e), f)
        <5> HIDE DEF r, e, f
        <5> QED BY <2>2, <3>1
      <4> QED BY <3>1, <3>2, <3>3, <4>1 DEF GrowsTwice
    <3>4. CASE t # u
      <4> HIDE DEF r, e, f
      <4> QED BY <2>2, <3>1, <3>4 DEF Stays
    <3> QED BY <3>3, <3>4
  <2>5. CASE PublishStep(t)
    BY <2>2, <2>5 DEF PublishStep, MarkOutboxPublished, Publishes, Stays
  <2> QED BY <2>1, <2>3, <2>4, <2>5
<1> QED BY <1>1, <1>2

NoFileNoLog ==
  \A t \in Tasks : ~Exists(t) => revision[t] = 0 /\ outbox[t] = <<>>

EventsBelow ==
  \A t \in Tasks : \A i \in DOMAIN outbox[t] :
    outbox[t][i].revision <= revision[t]

\* The strengthening: keys stay distinct because a commit's events carry a
\* revision above every earlier one, and the two events of a failed
\* termination have different types.
LogInv == NoFileNoLog /\ EventsBelow /\ OutboxKeysUnique

LEMMA LogInvStep ==
  ASSUME TypeOK, LogInv, [Next]_vars
  PROVE  LogInv'
<1> SUFFICES ASSUME NEW u \in Tasks
             PROVE  /\ task'[u].status = "absent" =>
                         revision'[u] = 0 /\ outbox'[u] = <<>>
                    /\ \A i \in DOMAIN outbox'[u] :
                         outbox'[u][i].revision <= revision'[u]
                    /\ \A i, j \in DOMAIN outbox'[u] :
                         /\ outbox'[u][i].revision = outbox'[u][j].revision
                         /\ outbox'[u][i].type = outbox'[u][j].type
                         => i = j
  BY DEF LogInv, NoFileNoLog, EventsBelow, OutboxKeysUnique, Key, Exists
<1> DEFINE log == outbox[u]  n == revision[u]
<1>1. log \in Seq(EventRecord) /\ n \in Nat
  BY DEF TypeOK
<1>2. /\ task[u].status = "absent" => n = 0 /\ log = <<>>
      /\ \A i \in DOMAIN log : log[i].revision <= n
      /\ \A i, j \in DOMAIN log :
           log[i].revision = log[j].revision /\ log[i].type = log[j].type
           => i = j
  BY DEF LogInv, NoFileNoLog, EventsBelow, OutboxKeysUnique, Key, Exists
<1>3. \A i \in DOMAIN log : log[i].revision \in Nat
  <2>1. \A i \in DOMAIN log : log[i] \in EventRecord
    BY <1>1
  <2>2. \A e \in EventRecord : e.revision \in Nat
    BY DEF EventRecord
  <2> QED BY <2>1, <2>2
<1>4. CASE Stays(u)
  BY <1>2, <1>4 DEF Stays
<1>5. CASE Grows(u)
  <2>1. PICK r \in TaskRecord, type \in EventTypes :
          /\ r.status \in Statuses
          /\ task'[u] = r
          /\ revision'[u] = n + 1
          /\ outbox'[u] = Append(log, Event(r, n + 1, type))
    BY <1>5 DEF Grows
  <2> DEFINE e == Event(r, n + 1, type)
  <2>2. e.revision = n + 1 /\ r.status # "absent"
    BY <2>1 DEF Event, Statuses, TerminalStatuses
  <2> DEFINE new == Append(log, e)
  <2>3. /\ task'[u] = r /\ revision'[u] = n + 1 /\ outbox'[u] = new
    BY <2>1
  <2>4. e \in EventRecord
    BY CommitEvent, <2>1
  <2> HIDE DEF e
  <2>5. /\ Len(log) \in Nat /\ DOMAIN log = 1..Len(log)
        /\ DOMAIN new = 1..(Len(log) + 1)
        /\ \A i \in DOMAIN log : new[i] = log[i]
        /\ new[Len(log) + 1] = e /\ new # <<>>
    BY <1>1, <2>4
  <2> HIDE DEF new
  <2>6. \A i \in DOMAIN new : i \in DOMAIN log \/ i = Len(log) + 1
    BY <2>5
  <2>7. \A i \in DOMAIN log : new[i].revision <= n /\ new[i].revision # n + 1
    BY <1>1, <1>2, <1>3, <2>5
  <2>8. \A i \in DOMAIN new : new[i].revision <= n + 1
    BY <1>1, <1>3, <2>2, <2>5, <2>6, <2>7
  <2>9. \A i, j \in DOMAIN new :
          new[i].revision = new[j].revision /\ new[i].type = new[j].type
          => i = j
    BY <1>2, <2>2, <2>5, <2>6, <2>7
  <2> QED BY <2>2, <2>3, <2>5, <2>8, <2>9
<1>6. CASE GrowsTwice(u)
  <2>1. PICK r \in TaskRecord :
          LET e == Event(r, n + 1, "subagent_termination_decided")
              f == Event(r, n + 1, "subagent_lost")
          IN /\ r.status \in Statuses
             /\ task'[u] = r
             /\ revision'[u] = n + 1
             /\ outbox'[u] = Append(Append(log, e), f)
    BY <1>6 DEF GrowsTwice
  <2> DEFINE e == Event(r, n + 1, "subagent_termination_decided")
             f == Event(r, n + 1, "subagent_lost")
  <2>2. /\ r.status # "absent"
        /\ e.revision = n + 1 /\ e.type = "subagent_termination_decided"
        /\ f.revision = n + 1 /\ f.type = "subagent_lost"
    BY <2>1 DEF Event, Statuses, TerminalStatuses
  <2>3. /\ task'[u] = r /\ revision'[u] = n + 1
        /\ outbox'[u] = Append(Append(log, e), f)
    BY <2>1
  <2> DEFINE new == Append(Append(log, e), f)
  <2>4. e \in EventRecord /\ f \in EventRecord
    BY CommitEvent, <2>1 DEF EventTypes
  <2> HIDE DEF e, f
  <2>5. /\ Len(log) \in Nat /\ DOMAIN log = 1..Len(log)
        /\ DOMAIN new = 1..(Len(log) + 2)
        /\ \A i \in DOMAIN log : new[i] = log[i]
        /\ new[Len(log) + 1] = e /\ new[Len(log) + 2] = f
        /\ new # <<>>
    BY <1>1, <2>4
  <2> HIDE DEF new
  <2>6. \A i \in DOMAIN new :
          i \in DOMAIN log \/ i = Len(log) + 1 \/ i = Len(log) + 2
    BY <2>5
  <2>7. \A i \in DOMAIN new : new[i].revision <= n + 1
    <3>1. \A i \in DOMAIN log : new[i].revision <= n + 1
      BY <1>1, <1>2, <1>3, <2>5
    <3>2. new[Len(log) + 1].revision = n + 1 /\ new[Len(log) + 2].revision = n + 1
      BY <2>2, <2>5
    <3> QED BY <1>1, <2>6, <3>1, <3>2
  <2>8. \A i, j \in DOMAIN new :
          new[i].revision = new[j].revision /\ new[i].type = new[j].type
          => i = j
    <3> SUFFICES ASSUME NEW i \in DOMAIN new, NEW j \in DOMAIN new,
                        new[i].revision = new[j].revision,
                        new[i].type = new[j].type
                 PROVE  i = j
      OBVIOUS
    <3>1. \A k \in DOMAIN log : new[k].revision # n + 1
      BY <1>1, <1>2, <1>3, <2>5
    <3>2. CASE i \in DOMAIN log /\ j \in DOMAIN log
      BY <1>2, <2>5, <3>2
    <3>3. CASE i \notin DOMAIN log /\ j \notin DOMAIN log
      BY <2>2, <2>5, <2>6, <3>3
    <3>4. CASE ~(i \in DOMAIN log <=> j \in DOMAIN log)
      BY <2>2, <2>5, <2>6, <3>1, <3>4
    <3> QED BY <3>2, <3>3, <3>4
  <2> QED BY <2>2, <2>3, <2>5, <2>7, <2>8 DEF new
<1>7. CASE Publishes(u)
  <2>1. PICK k \in DOMAIN log :
          outbox'[u] = [log EXCEPT ![k].published = TRUE]
    BY <1>7 DEF Publishes
  <2>2. /\ DOMAIN outbox'[u] = DOMAIN log
        /\ \A i \in DOMAIN log : /\ outbox'[u][i].revision = log[i].revision
                                 /\ outbox'[u][i].type = log[i].type
    BY <1>1, <2>1 DEF EventRecord
  <2>3. (task'[u].status = "absent" => revision'[u] = 0 /\ outbox'[u] = <<>>)
        /\ revision'[u] = n
    BY <1>1, <1>2, <1>7, <2>1 DEF Publishes
  <2> QED BY <1>2, <2>2, <2>3
<1> QED BY <1>4, <1>5, <1>6, <1>7, LogStep

\* The idempotency keys of a task's outbox are distinct however many commits
\* it sees: the audit side, which drops a repeated key, never drops a first.
THEOREM KeysUnique == Spec => []OutboxKeysUnique
<1>1. Init => LogInv
  BY DEF Init, LogInv, NoFileNoLog, EventsBelow, OutboxKeysUnique
<1>2. LogInv => OutboxKeysUnique
  BY DEF LogInv
<1> QED BY <1>1, <1>2, TypeCorrect, LogInvStep, PTL DEF Spec
-----------------------------------------------------------------------------
(* The outbox as a faithful log: creation first, no gap, the record last. *)

\* What OutboxTracksRecord says of one task's record, revision and log.
Tracks(r, n, log) ==
  /\ log # <<>>
  /\ log[1].revision = 1 /\ log[1].type = "subagent_created"
  /\ \A i \in 1..(Len(log) - 1) :
       log[i + 1].revision \in {log[i].revision, log[i].revision + 1}
  /\ log[Len(log)].revision = n
  /\ log[Len(log)].status = r.status
  /\ log[Len(log)].termination = r.termination
  /\ log[Len(log)].delivery = r.delivery

LEMMA TracksAppend ==
  ASSUME NEW log \in Seq(EventRecord), NEW old, NEW r \in TaskRecord, NEW n \in Nat,
         NEW m \in {n, n + 1}, NEW type \in EventTypes, r.status \in Statuses,
         \/ Tracks(old, n, log)
         \/ log = <<>> /\ m = 1 /\ type = "subagent_created"
  PROVE  Tracks(r, m, Append(log, Event(r, m, type)))
<1> DEFINE e == Event(r, m, type)
           new == Append(log, e)
<1>1. e \in EventRecord
  BY DEF Event, EventRecord, TaskRecord
<1>2. /\ e.revision = m /\ e.type = type /\ e.status = r.status
      /\ e.termination = r.termination /\ e.delivery = r.delivery
  BY DEF Event
<1> HIDE DEF e
<1>3. /\ Len(new) = Len(log) + 1 /\ Len(log) \in Nat
      /\ \A i \in 1..Len(log) : new[i] = log[i]
      /\ new[Len(log) + 1] = e
      /\ new # <<>>
  BY <1>1
<1> HIDE DEF new
<1>4. CASE log = <<>> /\ m = 1 /\ type = "subagent_created"
  BY <1>2, <1>3, <1>4 DEF Tracks, new, e
<1>5. CASE Tracks(old, n, log)
  <2>1. Len(log) >= 1
    BY <1>3, <1>5 DEF Tracks
  <2>2. \A i \in 1..(Len(new) - 1) :
          new[i + 1].revision \in {new[i].revision, new[i].revision + 1}
    <3> SUFFICES ASSUME NEW i \in 1..(Len(new) - 1)
                 PROVE  new[i + 1].revision \in {new[i].revision, new[i].revision + 1}
      OBVIOUS
    <3>1. CASE i = Len(log)
      BY <1>2, <1>3, <1>5, <2>1, <3>1 DEF Tracks
    <3>2. CASE i # Len(log)
      BY <1>3, <1>5, <2>1, <3>2 DEF Tracks
    <3> QED BY <3>1, <3>2
  <2> QED BY <1>2, <1>3, <1>5, <2>1, <2>2 DEF Tracks, new, e
<1> QED BY <1>4, <1>5

LEMMA TracksStep ==
  ASSUME TypeOK, NoFileNoLog, OutboxTracksRecord, [Next]_vars
  PROVE  OutboxTracksRecord'
<1> SUFFICES ASSUME NEW u \in Tasks, task'[u].status # "absent"
             PROVE  Tracks(task'[u], revision'[u], outbox'[u])
  BY DEF OutboxTracksRecord, Exists, Tracks, Key
<1> DEFINE log == outbox[u]  n == revision[u]
<1>1. log \in Seq(EventRecord) /\ n \in Nat
  BY DEF TypeOK
<1>2. task[u].status # "absent" => Tracks(task[u], n, log)
  BY DEF OutboxTracksRecord, Exists, Tracks, Key
<1>3. task[u].status = "absent" => n = 0 /\ log = <<>>
  BY DEF NoFileNoLog, Exists
<1>4. CASE Stays(u)
  BY <1>2, <1>4 DEF Stays
<1>5. CASE Grows(u)
  <2>1. PICK r \in TaskRecord, type \in EventTypes :
          /\ r.status \in Statuses
          /\ Tells(task[u], r, type)
          /\ task'[u] = r
          /\ revision'[u] = n + 1
          /\ outbox'[u] = Append(log, Event(r, n + 1, type))
    BY <1>5 DEF Grows
  <2>2. \/ Tracks(task[u], n, log)
        \/ log = <<>> /\ n + 1 = 1 /\ type = "subagent_created"
    BY <1>2, <1>3, <2>1 DEF Tells
  <2> QED BY <1>1, <2>1, <2>2, TracksAppend
<1>6. CASE GrowsTwice(u)
  <2>1. PICK r \in TaskRecord :
          LET e == Event(r, n + 1, "subagent_termination_decided")
              f == Event(r, n + 1, "subagent_lost")
          IN /\ r.status \in Statuses
             /\ Exists(u)
             /\ task'[u] = r
             /\ revision'[u] = n + 1
             /\ outbox'[u] = Append(Append(log, e), f)
    BY <1>6 DEF GrowsTwice
  <2> DEFINE e == Event(r, n + 1, "subagent_termination_decided")
             mid == Append(log, e)
  <2>2. Tracks(r, n + 1, mid)
    BY <1>1, <1>2, <2>1, TracksAppend DEF Exists, EventTypes
  <2>3. mid \in Seq(EventRecord) /\ n + 1 \in Nat
    BY <1>1, <2>1, CommitEvent DEF EventTypes
  <2>4. /\ outbox'[u] = Append(mid, Event(r, n + 1, "subagent_lost"))
        /\ task'[u] = r /\ revision'[u] = n + 1 /\ r.status \in Statuses
    BY <2>1
  <2> HIDE DEF mid
  <2>5. Tracks(r, n + 1, Append(mid, Event(r, n + 1, "subagent_lost")))
    BY <2>2, <2>3, <2>4, TracksAppend DEF EventTypes
  <2> QED BY <2>4, <2>5
<1>7. CASE Publishes(u)
  <2>1. PICK k \in DOMAIN log :
          outbox'[u] = [log EXCEPT ![k].published = TRUE]
    BY <1>7 DEF Publishes
  <2>2. \A i \in DOMAIN log : log[i] \in EventRecord
    BY <1>1
  <2>3. /\ DOMAIN log = 1..Len(log) /\ Len(outbox'[u]) = Len(log)
        /\ outbox'[u] # <<>>
        /\ \A i \in DOMAIN log : /\ outbox'[u][i].revision = log[i].revision
                                 /\ outbox'[u][i].type = log[i].type
                                 /\ outbox'[u][i].status = log[i].status
                                 /\ outbox'[u][i].termination = log[i].termination
                                 /\ outbox'[u][i].delivery = log[i].delivery
    BY <1>1, <2>1, <2>2 DEF EventRecord
  <2>4. Tracks(task[u], n, log) /\ UNCHANGED <<task[u], revision[u]>>
    BY <1>2, <1>7 DEF Publishes
  <2>5. Len(log) >= 1 /\ Len(log) \in Nat
    BY <1>1, <2>1
  <2> DEFINE new == outbox'[u]
  <2>6. /\ Len(new) = Len(log) /\ new # <<>>
        /\ \A i \in 1..Len(log) : /\ new[i].revision = log[i].revision
                                 /\ new[i].type = log[i].type
                                 /\ new[i].status = log[i].status
                                 /\ new[i].termination = log[i].termination
                                 /\ new[i].delivery = log[i].delivery
    BY <2>3
  <2> HIDE DEF new, log
  <2>7. ASSUME NEW i \in 1..(Len(new) - 1)
        PROVE  new[i + 1].revision \in {new[i].revision, new[i].revision + 1}
    <3>1. i \in 1..(Len(log) - 1) /\ i \in 1..Len(log) /\ i + 1 \in 1..Len(log)
      BY <2>5, <2>6
    <3>2. /\ new[i].revision = log[i].revision
          /\ new[i + 1].revision = log[i + 1].revision
      BY <2>6, <3>1
    <3> QED BY <2>4, <3>1, <3>2 DEF Tracks
  <2>8. 1 \in 1..Len(log) /\ Len(log) \in 1..Len(log)
    BY <2>5
  <2> QED BY <2>4, <2>6, <2>7, <2>8 DEF Tracks, new
<1> QED BY <1>4, <1>5, <1>6, <1>7, LogStep

\* The outbox of a task is a faithful log of its record: it begins with the
\* creation, skips no revision, and ends with the record that is on disk, for
\* any history of commits (_commit writes the record and its event at once).
THEOREM OutboxTracks == Spec => []OutboxTracksRecord
<1>1. Init => LogInv /\ OutboxTracksRecord
  BY DEF Init, LogInv, NoFileNoLog, EventsBelow, OutboxKeysUnique,
         OutboxTracksRecord, Exists, NoTask
<1>2. TypeOK /\ LogInv /\ OutboxTracksRecord /\ [Next]_vars => OutboxTracksRecord'
  BY TracksStep DEF LogInv
<1> QED BY <1>1, <1>2, TypeCorrect, LogInvStep, PTL DEF Spec

-----------------------------------------------------------------------------
(* Counting events: one end, and claims that balance. *)

Count(log, types) == Cardinality({i \in DOMAIN log : log[i].type \in types})

LEMMA CountAppend ==
  ASSUME NEW log \in Seq(EventRecord), NEW e \in EventRecord, NEW types
  PROVE  /\ Count(log, types) \in Nat
         /\ Count(Append(log, e), types) =
              Count(log, types) + (IF e.type \in types THEN 1 ELSE 0)
<1> DEFINE S == {i \in DOMAIN log : log[i].type \in types}
           new == Append(log, e)
           T == {i \in DOMAIN new : new[i].type \in types}
<1>1. /\ Len(log) \in Nat /\ DOMAIN log = 1..Len(log)
      /\ DOMAIN new = 1..(Len(log) + 1)
      /\ \A i \in 1..Len(log) : new[i] = log[i]
      /\ new[Len(log) + 1] = e
  OBVIOUS
<1>2. IsFiniteSet(S) /\ Cardinality(S) \in Nat
  <2>1. IsFiniteSet(1..Len(log))
    BY <1>1, FS_Interval
  <2>2. S \subseteq 1..Len(log)
    BY <1>1
  <2> HIDE DEF S
  <2> QED BY <2>1, <2>2, FS_Subset, FS_CardinalityType
<1> HIDE DEF new
<1>3. CASE e.type \in types
  <2>1. T = S \cup {Len(log) + 1} /\ Len(log) + 1 \notin S
    BY <1>1, <1>3
  <2> HIDE DEF S, T
  <2>2. Cardinality(T) = Cardinality(S) + 1
    BY <1>2, <2>1, FS_AddElement
  <2> QED BY <1>2, <1>3, <2>2 DEF Count, S, T, new
<1>4. CASE e.type \notin types
  <2>1. T = S
    BY <1>1, <1>4
  <2> HIDE DEF S, T
  <2>2. Cardinality(T) = Cardinality(S)
    BY <2>1
  <2>3. Count(log, types) = Cardinality(S) /\ Count(Append(log, e), types) = Cardinality(T)
    BY DEF Count, S, T, new
  <2> QED BY <1>2, <1>4, <2>2, <2>3
<1> QED BY <1>3, <1>4

\* What OneEnd and ClaimsBalance say of one task.
EndsOnce(r, log) == Count(log, EndTypes) = IF Terminal(r) THEN 1 ELSE 0
Balances(r, log) ==
  /\ Count(log, {"subagent_result_claimed"}) =
       Count(log, {"subagent_delivery_failed"}) +
       (IF r.delivery \in {"claimed_pending_delivery", "delivered"} THEN 1 ELSE 0)
  /\ Count(log, {"subagent_result_delivered"}) =
       IF r.delivery = "delivered" THEN 1 ELSE 0
Counts(r, log) == EndsOnce(r, log) /\ Balances(r, log)

LEMMA CountsAreOneEndAndBalance ==
  (OneEnd /\ ClaimsBalance) <=> \A t \in Tasks : Counts(task[t], outbox[t])
BY DEF OneEnd, ClaimsBalance, EventsOf, Counts, EndsOnce, Balances, Count, EndTypes

LEMMA CountsGrow ==
  ASSUME NEW log \in Seq(EventRecord), NEW e \in EventRecord,
         NEW old, NEW r \in TaskRecord, old.delivery \in Deliveries,
         Counts(old, log), Tells(old, r, e.type), Terminal(old) => Terminal(r)
  PROVE  Counts(r, Append(log, e))
<1> DEFINE new == Append(log, e)
<1>1. \A types : /\ Count(log, types) \in Nat
                 /\ Count(new, types) =
                      Count(log, types) + (IF e.type \in types THEN 1 ELSE 0)
  BY CountAppend
<1> HIDE DEF new
<1>2. EndsOnce(r, new)
  BY <1>1 DEF Counts, EndsOnce, Tells
<1>3. Balances(r, new)
  <2> DEFINE C == {"subagent_result_claimed"}
             D == {"subagent_result_delivered"}
             F == {"subagent_delivery_failed"}
  <2>1. /\ Count(log, C) = Count(log, F) +
             (IF old.delivery \in {"claimed_pending_delivery", "delivered"}
              THEN 1 ELSE 0)
        /\ Count(log, D) = IF old.delivery = "delivered" THEN 1 ELSE 0
    BY DEF Counts, Balances
  <2>2. /\ Count(log, C) \in Nat /\ Count(log, D) \in Nat /\ Count(log, F) \in Nat
        /\ Count(new, C) = Count(log, C)
             + (IF e.type = "subagent_result_claimed" THEN 1 ELSE 0)
        /\ Count(new, D) = Count(log, D)
             + (IF e.type = "subagent_result_delivered" THEN 1 ELSE 0)
        /\ Count(new, F) = Count(log, F)
             + (IF e.type = "subagent_delivery_failed" THEN 1 ELSE 0)
    BY <1>1
  <2> HIDE DEF C, D, F
  <2>3. Balances(r, new) <=>
          /\ Count(new, C) = Count(new, F) +
               (IF r.delivery \in {"claimed_pending_delivery", "delivered"}
                THEN 1 ELSE 0)
          /\ Count(new, D) = IF r.delivery = "delivered" THEN 1 ELSE 0
    BY DEF Balances, C, D, F
  <2> QED BY <2>1, <2>2, <2>3 DEF Tells, Claimable, Deliveries, DeliveryTypes
<1> QED BY <1>2, <1>3 DEF Counts, new

LEMMA CountsStep ==
  ASSUME TypeOK, [Next]_vars, NEW u \in Tasks, Counts(task[u], outbox[u])
  PROVE  Counts(task'[u], outbox'[u])
<1> DEFINE log == outbox[u]  n == revision[u]  old == task[u]
<1>1. log \in Seq(EventRecord) /\ n \in Nat /\ old \in TaskRecord
  BY DEF TypeOK
<1>2. old.delivery \in Deliveries
  BY <1>1 DEF TaskRecord
<1>3. CASE Stays(u)
  BY <1>3 DEF Stays
<1>4. CASE Grows(u)
  <2>1. PICK r \in TaskRecord, type \in EventTypes :
          /\ r.status \in Statuses
          /\ Terminal(old) => Terminal(r)
          /\ Tells(old, r, type)
          /\ task'[u] = r
          /\ outbox'[u] = Append(log, Event(r, n + 1, type))
    BY <1>4 DEF Grows
  <2> DEFINE e == Event(r, n + 1, type)
  <2>2. e \in EventRecord /\ e.type = type
    BY <2>1, CommitEvent DEF Event
  <2> HIDE DEF e
  <2> QED BY <1>1, <1>2, <2>1, <2>2, CountsGrow DEF e
<1>5. CASE GrowsTwice(u)
  <2>1. PICK r \in TaskRecord :
          LET e == Event(r, n + 1, "subagent_termination_decided")
              f == Event(r, n + 1, "subagent_lost")
          IN /\ r.status \in Statuses
             /\ Exists(u) /\ ~Terminal(old) /\ Terminal(r)
             /\ r.delivery = old.delivery
             /\ task'[u] = r
             /\ outbox'[u] = Append(Append(log, e), f)
    BY <1>5 DEF GrowsTwice
  <2> DEFINE e == Event(r, n + 1, "subagent_termination_decided")
             f == Event(r, n + 1, "subagent_lost")
  <2>2. /\ e \in EventRecord /\ e.type = "subagent_termination_decided"
        /\ f \in EventRecord /\ f.type = "subagent_lost"
    BY <2>1, CommitEvent DEF Event, EventTypes
  <2>3. outbox'[u] = Append(Append(log, e), f) /\ task'[u] = r
    BY <2>1
  <2> HIDE DEF e, f
  <2>4. Tells(old, old, e.type) /\ Tells(old, r, f.type)
    BY <2>1, <2>2 DEF Tells, Exists, EndTypes, DeliveryTypes
  <2>5. Append(log, e) \in Seq(EventRecord)
    BY <1>1, <2>2
  <2>6. Counts(old, Append(log, e))
    BY <1>1, <1>2, <2>2, <2>4, CountsGrow
  <2> QED BY <1>1, <1>2, <2>1, <2>2, <2>3, <2>4, <2>5, <2>6, CountsGrow
<1>6. CASE Publishes(u)
  <2>1. PICK k \in DOMAIN log :
          outbox'[u] = [log EXCEPT ![k].published = TRUE]
    BY <1>6 DEF Publishes
  <2>2. /\ DOMAIN outbox'[u] = DOMAIN log
        /\ \A i \in DOMAIN log : outbox'[u][i].type = log[i].type
    BY <1>1, <2>1 DEF EventRecord
  <2>3. \A types : Count(outbox'[u], types) = Count(log, types)
    BY <2>2 DEF Count
  <2> QED BY <1>6, <2>3 DEF Publishes, Counts, EndsOnce, Balances
<1> QED BY <1>3, <1>4, <1>5, <1>6, LogStep

\* Of the two routes to the end of a task, a status transition and an unconfirmed
\* termination, exactly one is logged however they race; and every claim of its
\* result is still held, was delivered, or was handed back, so that no two runs
\* hold it at the same time.  Both are counts of the same log.
THEOREM EndsOnceClaimsBalance == Spec => [](OneEnd /\ ClaimsBalance)
<1> DEFINE Inv == \A t \in Tasks : Counts(task[t], outbox[t])
<1>1. Init => Inv
  <2>1. \A types : Count(<<>>, types) = 0
    <3> SUFFICES ASSUME NEW types PROVE Count(<<>>, types) = 0
      OBVIOUS
    <3>1. {i \in DOMAIN <<>> : <<>>[i].type \in types} = {}
      OBVIOUS
    <3> QED BY <3>1, FS_EmptySet DEF Count
  <2> QED BY <2>1 DEF Init, NoTask, Counts, EndsOnce, Balances, Terminal,
                      TerminalStatuses
<1>2. TypeOK /\ Inv /\ [Next]_vars => Inv'
  BY CountsStep
<1>3. Inv => OneEnd /\ ClaimsBalance
  BY CountsAreOneEndAndBalance
<1> QED BY <1>1, <1>2, <1>3, TypeCorrect, PTL DEF Spec
=============================================================================

------------------------- MODULE SubagentAdmission -------------------------
(***************************************************************************)
(* SubagentManager.spawn of nanobot/agent/subagent.py: the calls of several *)
(* runs and sessions that are admitted or refused one at a time under       *)
(* _spawn_lock, and what becomes of the children they start, as far as the *)
(* next admission looks at them: their durable records, their token         *)
(* reservations, the table of running tasks and the required tasks of the   *)
(* sessions' goals.                                                         *)
(*                                                                         *)
(* A call names the task it creates: task ids are fresh.  The coroutines    *)
(* share one event loop, so a step needs all the others to be suspended     *)
(* (Undisturbed), while the process may crash after any durable write.      *)
(* Cost budgets (which refuse every call when set) and the depth of nested  *)
(* children (a field of the request only) are left out.                     *)
(***************************************************************************)
EXTENDS SubagentRecord, FiniteSetsExt

CONSTANTS
  Call, NoCall,      \* the calls of spawn, each with the task it creates
  Run, SessionOf,    \* owner runs and the session each belongs to
  Brief,             \* what a task is asked to do
  GoalSessions,      \* the sessions with an active goal
  MaxConcurrent,     \* max_concurrent_subagents
  MaxPerRun,         \* max_children_per_owner_run
  MaxPerSession,     \* max_children_per_session
  MaxTokens,         \* max_total_subagent_tokens, 0 for no limit
  Reserve,           \* max_tokens of the model, reserved for each child
  Consumption,       \* what a child may turn out to have used
  AuditOn,           \* do runs have identities and flushes suspend?
  MaxCrashes,        \* bound on the crashes of the gateway
  MaxFaults          \* bound on failed registrations and schedulings

ASSUME AdmissionAssumption ==
  /\ NoCall \notin Call
  /\ IsFiniteSet(Call)
  /\ {MaxConcurrent, MaxPerRun, MaxPerSession, MaxTokens, Reserve} \subseteq Nat
  /\ Consumption \subseteq Nat
  /\ AuditOn \in BOOLEAN
  /\ {MaxCrashes, MaxFaults} \subseteq Nat

VARIABLES
  pc,          \* where each call of spawn is
  request,     \* what each call asks for
  task,        \* the durable records
  lock,        \* the holder of _spawn_lock
  child,       \* where the coroutine of each task is
  obligation,  \* the status of each task in its session's goal
  resolvedBy,  \* its resolved_by_task_id
  up, crashes, faults

vars == <<pc, request, task, lock, child, obligation, resolvedBy, up, crashes,
          faults>>
goalVars == <<obligation, resolvedBy>>
boundVars == <<up, crashes, faults>>

Requests == [run : Run, spec : Brief, required : BOOLEAN,
             replaces : Call \cup {NoCall}]
Nothing == [run |-> NoCall, spec |-> NoCall, required |-> FALSE,
            replaces |-> NoCall]

\* Places of a call.  The last row undoes a call whose registration failed, or
\* whose asyncio task could not be created.
Holding == {"creating", "flushing", "registering", "scheduling",
            "failing", "releasing", "raising"}
Over    == {"refused", "started", "raised", "cancelled", "crashed"}
Places  == {"idle", "waiting"} \cup Holding \cup Over

ChildPlaces == {"none", "scheduled", "starting", "working", "ended", "settled",
                "finished", "gone"}
Running == {c \in Call : child[c] \notin {"none", "gone"}}   \* _running_tasks

FlushPlaces == {"flushing", "raising"}
BusyCall  == IF AuditOn THEN Holding \ FlushPlaces ELSE Holding
BusyChild == {"ended"} \cup IF AuditOn THEN {} ELSE {"starting", "settled"}

Undisturbed(c) ==
  /\ up
  /\ \A d \in Call \ {c} : pc[d] \notin BusyCall /\ child[d] \notin BusyChild

Init ==
  /\ pc = [c \in Call |-> "idle"]
  /\ request = [c \in Call |-> Nothing]
  /\ task = [c \in Call |-> [status |-> "absent", reservation |-> "none", used |-> 0]]
  /\ lock = NoCall
  /\ child = [c \in Call |-> "none"]
  /\ obligation = [c \in Call |-> "none"]
  /\ resolvedBy = [c \in Call |-> NoCall]
  /\ up = TRUE /\ crashes = 0 /\ faults = 0

-----------------------------------------------------------------------------
(* What an admission looks at. *)

SessionOfCall(c) == SessionOf[request[c].run]
\* owner_run_id is None without audit: the session is the owner then.
Owner(c) == IF AuditOn THEN request[c].run ELSE SessionOfCall(c)
IdempotencyKey(c) == <<Owner(c), request[c].spec>>

Recorded == {d \in Call : task[d].status # "absent"}          \* list_tasks
OfSession(c) == {d \in Recorded : SessionOfCall(d) = SessionOfCall(c)}
OfOwner(c)   == {d \in Recorded : Owner(d) = Owner(c)}
Duplicates(c) ==
  {d \in Recorded : IdempotencyKey(d) = IdempotencyKey(c)}
\* _effective_reserved_tokens.
Charge(d) == CASE task[d].reservation = "released" -> 0
               [] task[d].reservation = "settled"  -> task[d].used
               [] task[d].reservation = "reserved" -> Reserve
               [] OTHER -> 0
Charged(c) == MapThenSumSet(Charge, OfSession(c))

\* Mutant of BelowLimits: the record about to be created is not counted.
BelowLimitsOffByOne(c) ==
  /\ Cardinality(Running) < MaxConcurrent
  /\ Cardinality(OfOwner(c)) <= MaxPerRun
  /\ Cardinality(OfSession(c)) <= MaxPerSession
BelowLimits(c) ==
  /\ Cardinality(Running) < MaxConcurrent
  /\ Cardinality(OfOwner(c)) < MaxPerRun
  /\ Cardinality(OfSession(c)) < MaxPerSession

\* Mutant of WithinBudget: the new reservation is not added to what is charged.
WithinBudgetBefore(c) == MaxTokens > 0 => Charged(c) <= MaxTokens
WithinBudget(c) == MaxTokens > 0 => Charged(c) + Reserve <= MaxTokens

Original(c) ==
  Duplicates(c) = {} \/ request[c].replaces \in Duplicates(c)

\* GoalOrchestrationStore._validate_replacement: an ended, unsuccessful task of
\* the same goal without a replacement.
Replaceable(old, c) ==
  /\ obligation[old] = "failed"
  /\ resolvedBy[old] = NoCall
  /\ SessionOfCall(old) = SessionOfCall(c)
\* Mutant of Registrable: a running task may be replaced.
RegistrableAnyTime(c) ==
  request[c].required =>
    /\ SessionOfCall(c) \in GoalSessions
    /\ request[c].replaces # NoCall =>
         obligation[request[c].replaces] # "none" /\ resolvedBy[request[c].replaces] = NoCall
Registrable(c) ==
  request[c].required =>
    /\ SessionOfCall(c) \in GoalSessions
    /\ request[c].replaces # NoCall => Replaceable(request[c].replaces, c)

-----------------------------------------------------------------------------
(* A call of spawn. *)

Goto(c, place) == pc' = [pc EXCEPT ![c] = place]
At(c, place) == pc[c] = place /\ Undisturbed(c)

\* A session runs one turn at a time and a turn its spawns one by one; a run
\* whose turn was cancelled or died with the process calls nothing more.
MayAsk(r) ==
  \A d \in Call : pc[d] # "idle" =>
    /\ SessionOfCall(d) = SessionOf[r] => pc[d] \in Over
    /\ request[d].run = r => pc[d] \notin {"cancelled", "crashed"}

\* SpawnTool.execute, with its own look at the number of running tasks.
Ask(c) ==
  /\ At(c, "idle")
  /\ \E q \in Requests :
       /\ MayAsk(q.run)
       /\ q.replaces # NoCall => q.required /\ task[q.replaces].status # "absent"
       /\ request' = [request EXCEPT ![c] = q]
  /\ Goto(c, IF Cardinality(Running) >= MaxConcurrent THEN "refused" ELSE "waiting")
  /\ UNCHANGED <<task, lock, child, goalVars, boundVars>>

\* Mutant of LockFree: a call does not wait for the one before it.
LockIgnored == up
LockFree == lock = NoCall

Refuse(c) ==
  /\ At(c, "waiting") /\ LockFree
  /\ ~(BelowLimits(c) /\ Original(c) /\ WithinBudget(c) /\ Registrable(c))
  /\ Goto(c, "refused")
  /\ UNCHANGED <<request, task, lock, child, goalVars, boundVars>>

Admit(c) ==
  /\ At(c, "waiting") /\ LockFree
  /\ BelowLimits(c) /\ Original(c) /\ WithinBudget(c) /\ Registrable(c)
  /\ lock' = c
  /\ task' = [task EXCEPT ![c].status = "created", ![c].reservation = "reserved"]
  /\ Goto(c, "creating")
  /\ UNCHANGED <<request, child, goalVars, boundVars>>

Queue(c) ==
  /\ At(c, "creating")
  /\ task' = [task EXCEPT ![c] = WithStatus(@, "queued")]
  /\ Goto(c, "flushing")
  /\ UNCHANGED <<request, lock, child, goalVars, boundVars>>

\* Mutant of Flushed: a required task is scheduled without being registered.
FlushedPastGoal(c) ==
  /\ At(c, "flushing")
  /\ Goto(c, "scheduling")
  /\ UNCHANGED <<request, task, lock, child, goalVars, boundVars>>
Flushed(c) ==
  /\ At(c, "flushing")
  /\ Goto(c, IF request[c].required THEN "registering" ELSE "scheduling")
  /\ UNCHANGED <<request, task, lock, child, goalVars, boundVars>>

Register(c) ==
  /\ At(c, "registering")
  /\ obligation' = [obligation EXCEPT ![c] = "running"]
  /\ resolvedBy' = IF request[c].replaces = NoCall THEN resolvedBy
                   ELSE [resolvedBy EXCEPT ![request[c].replaces] = c]
  /\ Goto(c, "scheduling")
  /\ UNCHANGED <<request, task, lock, child, boundVars>>

\* The session cannot be saved, and _mutate restores it.
RegisterFails(c) ==
  /\ At(c, "registering") /\ faults < MaxFaults
  /\ faults' = faults + 1
  /\ Goto(c, "failing")
  /\ UNCHANGED <<request, task, lock, child, goalVars, up, crashes>>

Schedule(c) ==
  /\ At(c, "scheduling")
  /\ child' = [child EXCEPT ![c] = "scheduled"]
  /\ lock' = NoCall
  /\ Goto(c, "started")
  /\ UNCHANGED <<request, task, goalVars, boundVars>>

ScheduleFails(c) ==
  /\ At(c, "scheduling") /\ faults < MaxFaults
  /\ faults' = faults + 1
  /\ Goto(c, "failing")
  /\ UNCHANGED <<request, task, lock, child, goalVars, up, crashes>>

\* Undoing: the record fails, _release_budget returns the reservation and flushes,
\* remove_registration follows when there is one, the exception leaves the lock.
Fail(c) ==
  /\ At(c, "failing")
  /\ task' = [task EXCEPT ![c] = WithStatus(@, "failed")]
  /\ Goto(c, "releasing")
  /\ UNCHANGED <<request, lock, child, goalVars, boundVars>>

\* Mutant of Release: the reservation is left alone.
ReleaseNothing(c) ==
  /\ At(c, "releasing")
  /\ Goto(c, "raising")
  /\ UNCHANGED <<request, task, lock, child, goalVars, boundVars>>
Release(c) ==
  /\ At(c, "releasing")
  /\ task' = [task EXCEPT ![c].reservation = "released"]
  /\ Goto(c, "raising")
  /\ UNCHANGED <<request, lock, child, goalVars, boundVars>>

Raise(c) ==
  /\ At(c, "raising")
  /\ obligation' = [obligation EXCEPT ![c] = "none"]
  /\ resolvedBy' = [d \in Call |-> IF resolvedBy[d] = c THEN NoCall ELSE resolvedBy[d]]
  /\ lock' = NoCall
  /\ Goto(c, "raised")
  /\ UNCHANGED <<request, task, child, boundVars>>

LockAfterCancel(c) == IF lock = c THEN NoCall ELSE lock

\* /stop cancels the turn: CancelledError at the lock or at a flush.
CancelTurn(c) ==
  /\ pc[c] \in {"waiting"} \cup FlushPlaces /\ Undisturbed(c)
  /\ pc[c] = "waiting" => lock # NoCall
  /\ pc[c] # "waiting" => AuditOn
  /\ lock' = LockAfterCancel(c)
  /\ Goto(c, "cancelled")
  /\ UNCHANGED <<request, task, child, goalVars, boundVars>>

-----------------------------------------------------------------------------
(* The children, as far as an admission can tell. *)

ChildGoto(c, place) == child' = [child EXCEPT ![c] = place]
ChildAt(c, place) == child[c] = place /\ Undisturbed(c)

Begin(c) ==
  /\ ChildAt(c, "scheduled")
  /\ task' = [task EXCEPT ![c] = WithStatus(@, "running")]
  /\ ChildGoto(c, "starting")
  /\ UNCHANGED <<pc, request, lock, goalVars, boundVars>>

Work(c) ==
  /\ ChildAt(c, "starting")
  /\ ChildGoto(c, "working")
  /\ UNCHANGED <<pc, request, task, lock, goalVars, boundVars>>

\* Cancelled before the try statement: the coroutine ends without a record.
Vanish(c) ==
  /\ ChildAt(c, "scheduled") \/ (ChildAt(c, "starting") /\ AuditOn)
  /\ ChildGoto(c, "gone")
  /\ UNCHANGED <<pc, request, task, lock, goalVars, boundVars>>

\* /stop reports a child it saw exit.
ReportStopped(c) ==
  /\ ChildAt(c, "gone") /\ obligation[c] = "running"
  /\ obligation' = [obligation EXCEPT ![c] = "failed"]
  /\ UNCHANGED <<pc, request, task, lock, child, resolvedBy, boundVars>>

\* The grace ran out: record and obligation are lost while the coroutine lives on.
Abandon(c) ==
  /\ ChildAt(c, "working") /\ ~Terminal(task[c])
  /\ task' = [task EXCEPT ![c].status = "lost"]
  /\ obligation' = [obligation EXCEPT ![c] = IF @ = "running" THEN "failed" ELSE @]
  /\ UNCHANGED <<pc, request, lock, child, resolvedBy, boundVars>>

\* _persist_terminal, and _settle_budget with what was used.
End(c) ==
  /\ ChildAt(c, "working")
  /\ \E outcome \in {"succeeded", "failed"} :
       task' = [task EXCEPT ![c] = WithStatus(@, outcome)]
  /\ ChildGoto(c, "ended")
  /\ UNCHANGED <<pc, request, lock, goalVars, boundVars>>

Settle(c) ==
  /\ ChildAt(c, "ended")
  /\ \E n \in Consumption :
       task' = [task EXCEPT ![c].reservation = "settled", ![c].used = n]
  /\ ChildGoto(c, "settled")
  /\ UNCHANGED <<pc, request, lock, goalVars, boundVars>>

Finish(c) ==
  /\ ChildAt(c, "settled")
  /\ obligation' = [obligation EXCEPT ![c] =
       IF @ # "running" THEN @
       ELSE IF task[c].status = "succeeded" THEN "succeeded" ELSE "failed"]
  /\ ChildGoto(c, "finished")
  /\ UNCHANGED <<pc, request, task, lock, resolvedBy, boundVars>>

\* The done callback _cleanup.
Cleanup(c) ==
  /\ ChildAt(c, "finished")
  /\ ChildGoto(c, "gone")
  /\ UNCHANGED <<pc, request, task, lock, goalVars, boundVars>>

-----------------------------------------------------------------------------
(* The gateway. *)

Crash ==
  /\ up /\ crashes < MaxCrashes
  /\ up' = FALSE
  /\ crashes' = crashes + 1
  /\ pc' = [c \in Call |-> IF pc[c] \in {"idle"} \cup Over THEN pc[c] ELSE "crashed"]
  /\ child' = [c \in Call |-> IF child[c] = "none" THEN "none" ELSE "gone"]
  /\ lock' = NoCall
  /\ UNCHANGED <<request, task, goalVars, faults>>

\* recover_runtime of the store; the reservation stays as it is.
Recovered(r) ==
  IF r.status \in {"queued", "running"} THEN [r EXCEPT !.status = "lost"] ELSE r

\* recover_runtime of the goal follows in the same start.
Restart ==
  /\ ~up
  /\ up' = TRUE
  /\ task' = [c \in Call |-> Recovered(task[c])]
  /\ obligation' = [c \in Call |-> IF obligation[c] = "running" THEN "failed"
                                   ELSE obligation[c]]
  /\ UNCHANGED <<pc, request, lock, child, resolvedBy, crashes, faults>>

CallStep(c) ==
  \/ Refuse(c) \/ Admit(c) \/ Queue(c) \/ Flushed(c) \/ Register(c) \/ Schedule(c)
  \/ Fail(c) \/ Release(c) \/ Raise(c)

Next ==
  \/ \E c \in Call :
       \/ Ask(c) \/ CallStep(c) \/ RegisterFails(c) \/ ScheduleFails(c)
       \/ CancelTurn(c)
       \/ Begin(c) \/ Work(c) \/ Vanish(c) \/ ReportStopped(c) \/ Abandon(c)
       \/ End(c) \/ Settle(c) \/ Finish(c) \/ Cleanup(c)
  \/ Crash \/ Restart

Spec == Init /\ [][Next]_vars

-----------------------------------------------------------------------------
(* What the admission promises. *)

\* Every variable stays in its domain.
TypeOK ==
  /\ pc \in [Call -> Places]
  /\ request \in [Call -> Requests \cup {Nothing}]
  /\ task \in [Call -> [status : Statuses \cup {"absent"},
                       reservation : Reservations, used : Nat]]
  /\ lock \in Call \cup {NoCall}
  /\ child \in [Call -> ChildPlaces]
  /\ obligation \in [Call -> {"none", "running", "succeeded", "failed"}]
  /\ resolvedBy \in [Call -> Call \cup {NoCall}]
  /\ up \in BOOLEAN /\ crashes \in Nat /\ faults \in Nat

\* The lock is held by exactly the call between its checks and the table of
\* running tasks, so that no second call checks what the first is about to change.
LockIsHeld == \A c \in Call : lock = c <=> pc[c] \in Holding

\* However calls, suspensions and endings interleave, there are never more
\* running children than max_concurrent_subagents.
ConcurrencyCap == Cardinality(Running) <= MaxConcurrent

\* No run and no session ever has more durable children than its limit, the
\* failed, cancelled and orphaned ones included.
ChildCaps ==
  \A c \in Recorded :
    Cardinality(OfOwner(c)) <= MaxPerRun /\ Cardinality(OfSession(c)) <= MaxPerSession

\* What a session's children hold or have used stays below its token budget,
\* where a child counts for no more than it reserved.
TokenCap ==
  MaxTokens > 0 =>
    \A c \in Recorded :
      MapThenSumSet(LAMBDA d : IF Charge(d) < Reserve THEN Charge(d) ELSE Reserve,
                    OfSession(c)) <= MaxTokens

\* Two running children of one owner never work on the same specification, unless
\* the earlier one was given up as lost and its replacement is already at work.
NoTwins ==
  \A c \in Running : \A d \in Running \ {c} :
    IdempotencyKey(c) = IdempotencyKey(d) => Terminal(task[c]) \/ Terminal(task[d])

\* A required child never runs before its goal knows it, so that the goal
\* cannot be completed past it.
RequiredIsRegistered ==
  \A c \in Running : request[c].required => obligation[c] # "none"

\* A call that raises leaves a failed record with its reservation returned, no
\* task in the goal and nothing that it replaced.
RaisedLeavesNothing ==
  \A c \in Call : pc[c] = "raised" =>
    /\ task[c].status = "failed" /\ task[c].reservation = "released"
    /\ obligation[c] = "none"
    /\ \A d \in Call : resolvedBy[d] # c
    /\ c \notin Running
=============================================================================

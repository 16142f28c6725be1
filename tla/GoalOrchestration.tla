------------------------- MODULE GoalOrchestration -------------------------
(***************************************************************************)
(* The required-subagent obligations kept with a session's active goal     *)
(* (nanobot/session/goal_orchestration.py), and what decides on them: the  *)
(* gate of update_goal (agent/tools/long_task.py) and the completion guard *)
(* of a run (agent/loop.py).                                               *)
(*                                                                         *)
(* One session.  Every store operation reads, changes and saves the goal   *)
(* without giving up the event loop, so each is one step.  Labels, groups, *)
(* deadlines, evidence and the orchestration phase are left out: no        *)
(* operation of the store decides on them.  result_claims are a structure  *)
(* of their own beside the tasks and are not modelled here.                *)
(***************************************************************************)
EXTENDS SubagentRecord, FiniteSets

CONSTANTS
  Tasks,    \* the ids ever given to required children
  NoTask,   \* "no replacement"
  Runs,     \* the agent runs that may own an obligation
  Reports,  \* termination states that are reported, and ends that are: the
  Outcomes, \*   store tells them apart only as Finish does
  MaxGoals  \* bound on the goals of the session, one after the other

ASSUME GoalAssumption ==
  /\ IsFiniteSet(Tasks)
  /\ NoTask \notin Tasks
  /\ Runs # {}
  /\ Reports \subseteq Terminations
  /\ Outcomes \subseteq TerminalStatuses
  /\ MaxGoals \in Nat

VARIABLES
  goal,      \* status of the goal: "active", "completed" or "ended"
  goals,     \* how many goals there have been
  tasks,     \* orchestration["tasks"]; "unregistered" stands for no entry
  used,      \* ids given out: a task id is never given twice
  live,      \* children with a live asyncio task (running_task_ids)
  starting,  \* a registration whose scheduling failed, not yet removed
  up         \* FALSE between a crash and recover_runtime

vars == <<goal, goals, tasks, used, live, starting, up>>

NoRecord == [status |-> "unregistered", termination |-> "none",
             by |-> NoTask, attempt |-> 0, owner |-> CHOOSE r \in Runs : TRUE]

Registered == {t \in Tasks : tasks[t].status # "unregistered"}
Running    == {t \in Tasks : tasks[t].status = "running"}
Active     == up /\ goal = "active"   \* else _mutate raises ValueError

Init ==
  /\ goal = "active" /\ goals = 1
  /\ tasks = [t \in Tasks |-> NoRecord]
  /\ used = {} /\ live = {}
  /\ starting = NoTask
  /\ up = TRUE

-----------------------------------------------------------------------------
(* obligation_status, required_gate and select_owner. *)

\* The loop of obligation_status goes from a task that did not succeed to its
\* replacement.  On a cycle it would stop with "lost": it never succeeds.
Step(t) ==
  IF tasks[t].status # "succeeded" /\ tasks[t].by # NoTask THEN tasks[t].by ELSE t

\* The task that answers for t after n turns of the loop, which ends within
\* as many turns as there are tasks.
Answering(t) ==
  LET after[n \in Nat] == IF n = 0 THEN t ELSE Step(after[n - 1])
  IN  after[Cardinality(Tasks)]

Satisfied(t) == tasks[Answering(t)].status = "succeeded"

\* Mutant of RequiredGate: only first attempts that nothing replaced count.
RequiredGateOfUnreplaced ==
  \A t \in Registered :
    tasks[t].by = NoTask /\ tasks[t].attempt = 1 => Satisfied(t)
RequiredGate ==
  \A t \in Registered : (\A o \in Registered : tasks[o].by # t) => Satisfied(t)

Owned(r) == {t \in Registered : tasks[t].owner = r}

\* Mutant of OwnerRecords: replacements made by another run are left out.
OwnerRecordsOfRun(r) == Owned(r)
OwnerRecords(r) ==
  LET found[n \in Nat] ==
        IF n = 0 THEN Owned(r)
        ELSE found[n - 1] \cup {tasks[t].by : t \in found[n - 1] \cap Registered}
  IN  found[Cardinality(Tasks)] \cap Registered

\* The completion guard walks the chains inside the records it selected; a
\* chain that leaves them is "lost".
GuardAllows(r) ==
  \A t \in Owned(r) :
    LET inside[n \in Nat] ==
          IF n = 0 THEN t
          ELSE IF inside[n - 1] \in OwnerRecords(r)
                 THEN Step(inside[n - 1]) ELSE inside[n - 1]
        last == inside[Cardinality(Tasks)]
    IN  last \in OwnerRecords(r) /\ tasks[last].status = "succeeded"

-----------------------------------------------------------------------------
(* Registration. *)

\* _validate_replacement.
Replaceable(r) ==
  tasks[r].status \in TerminalStatuses \ {"succeeded"} /\ tasks[r].by = NoTask

Attempt(r) == IF r = NoTask THEN 1 ELSE tasks[r].attempt + 1

Entered(t, r, o) ==
  [u \in Tasks |->
     IF u = t THEN [NoRecord EXCEPT !.status = "running",
                                    !.attempt = Attempt(r), !.owner = o]
     ELSE IF u = r THEN [tasks[u] EXCEPT !.by = t] ELSE tasks[u]]

\* register, followed at once by the creation of the child's asyncio task,
\* or by its failure; the spawn lock lets only one spawn be on its way.
Register(t, r, o, scheduled) ==
  /\ Active /\ starting = NoTask
  /\ t \notin used
  /\ r # NoTask => Replaceable(r)
  /\ tasks' = Entered(t, r, o)
  /\ used' = used \cup {t}
  /\ IF scheduled THEN live' = live \cup {t} /\ UNCHANGED starting
                  ELSE starting' = t /\ UNCHANGED live
  /\ UNCHANGED <<goal, goals, up>>

\* Mutant of RemoveRegistration: the replaced task keeps its resolution.
RemoveRegistrationOnly ==
  /\ up /\ starting # NoTask
  /\ tasks' = IF goal = "active" THEN [tasks EXCEPT ![starting] = NoRecord] ELSE tasks
  /\ starting' = NoTask
  /\ UNCHANGED <<goal, goals, used, live, up>>
\* Without an active goal the removal raises and changes nothing.
RemoveRegistration ==
  /\ up /\ starting # NoTask
  /\ tasks' = IF goal # "active" THEN tasks
              ELSE [u \in Tasks |->
                      IF u = starting THEN NoRecord
                      ELSE IF tasks[u].by = starting
                             THEN [tasks[u] EXCEPT !.by = NoTask] ELSE tasks[u]]
  /\ starting' = NoTask
  /\ UNCHANGED <<goal, goals, used, live, up>>

-----------------------------------------------------------------------------
(* The end of a child, reported by itself or by a canceller. *)

Lost(rec) == [rec EXCEPT !.status = "lost", !.termination = "termination_failed"]

MarkTermination(t, x) ==
  /\ Active /\ t \in Running \ {starting}
  /\ tasks' = [tasks EXCEPT ![t] =
                 IF x = "termination_failed" THEN Lost(@)
                 ELSE [@ EXCEPT !.termination = x]]
  /\ UNCHANGED <<goal, goals, used, live, starting, up>>

\* Mutant of Finish: a cancellation is believed without evidence.
FinishUnproved(t, s) ==
  /\ Active /\ t \in Running \ {starting}
  /\ tasks' = [tasks EXCEPT ![t].status = s]
  /\ UNCHANGED <<goal, goals, used, live, starting, up>>
\* A cancelled or timed-out child whose exit was not confirmed is lost.
Finish(t, s) ==
  /\ Active /\ t \in Running \ {starting}
  /\ tasks' = [tasks EXCEPT ![t] =
       IF /\ s \in {"cancelled", "timed_out"}
          /\ @.termination \notin {"none", "cooperatively_exited", "force_killed"}
         THEN Lost(@) ELSE [@ EXCEPT !.status = s]]
  /\ UNCHANGED <<goal, goals, used, live, starting, up>>

\* The child's asyncio task is done, whether or not its report was saved.
ChildGone(t) ==
  /\ up /\ t \in live
  /\ live' = live \ {t}
  /\ UNCHANGED <<goal, goals, tasks, used, starting, up>>

\* Mutant of MarkedLost: whoever is not running is lost, ended or not.
MarkedLostAll(executors) ==
  [t \in Tasks |-> IF t \in Registered \ executors THEN Lost(tasks[t]) ELSE tasks[t]]
\* select with running_task_ids and recover_runtime.
MarkedLost(executors) ==
  [t \in Tasks |-> IF t \in Running \ executors THEN Lost(tasks[t]) ELSE tasks[t]]

\* await_subagents after its wait.
SelectLost ==
  /\ Active
  /\ tasks' = MarkedLost(live)
  /\ UNCHANGED <<goal, goals, used, live, starting, up>>

-----------------------------------------------------------------------------
(* update_goal and create_goal. *)

\* Mutant of CompleteGoal: an obligation that is over is taken for satisfied.
CompleteGoalOnceEnded ==
  /\ Active /\ Running = {}
  /\ goal' = "completed"
  /\ UNCHANGED <<goals, tasks, used, live, starting, up>>
CompleteGoal ==
  /\ Active /\ RequiredGate
  /\ goal' = "completed"
  /\ UNCHANGED <<goals, tasks, used, live, starting, up>>

\* cancel and block, after cancel_by_session.
EndGoal ==
  /\ Active
  /\ goal' = "ended"
  /\ UNCHANGED <<goals, tasks, used, live, starting, up>>

\* replace, and create_goal once the goal is over: no obligation is kept.
NewGoal ==
  /\ up /\ goals < MaxGoals
  /\ goal' = "active" /\ goals' = goals + 1
  /\ tasks' = [t \in Tasks |-> NoRecord]
  /\ UNCHANGED <<used, live, starting, up>>

Crash ==
  /\ up
  /\ up' = FALSE
  /\ live' = {} /\ starting' = NoTask
  /\ UNCHANGED <<goal, goals, tasks, used>>

\* recover_runtime skips a session whose goal is not active.
Recover ==
  /\ ~up
  /\ up' = TRUE
  /\ tasks' = IF goal = "active" THEN MarkedLost({}) ELSE tasks
  /\ UNCHANGED <<goal, goals, used, live, starting>>

Next ==
  \/ \E t \in Tasks :
       \/ \E r \in Registered \cup {NoTask}, o \in Runs, scheduled \in BOOLEAN :
            Register(t, r, o, scheduled)
       \/ \E x \in Reports : MarkTermination(t, x)
       \/ \E s \in Outcomes : Finish(t, s)
       \/ ChildGone(t)
  \/ RemoveRegistration \/ SelectLost
  \/ CompleteGoal \/ EndGoal \/ NewGoal
  \/ Crash \/ Recover

Spec == Init /\ [][Next]_vars

-----------------------------------------------------------------------------
Record ==
  [status : {"unregistered", "running"} \cup TerminalStatuses,
   termination : Terminations, by : Tasks \cup {NoTask}, attempt : Nat,
   owner : Runs]

TypeOK ==
  /\ goal \in {"active", "completed", "ended"}
  /\ goals \in Nat
  /\ tasks \in [Tasks -> Record]
  /\ used \subseteq Tasks
  /\ live \subseteq Tasks
  /\ starting \in Tasks \cup {NoTask}
  /\ up \in BOOLEAN

\* A replacement stands for exactly one task, which had ended without
\* success, and is its next attempt: chains of replacements never branch,
\* join or come back, so obligation_status always reaches an end.
ChainsAreAttempts ==
  \A t \in Tasks : tasks[t].by # NoTask =>
    /\ tasks[t].status \in TerminalStatuses \ {"succeeded"}
    /\ tasks[t].by \in Registered
    /\ tasks[tasks[t].by].attempt = tasks[t].attempt + 1
    /\ \A o \in Tasks : tasks[o].by = tasks[t].by => o = t

\* The gate that looks at root obligations only says what a reader expects of
\* it: every registered task that nothing replaces has succeeded.
GateIsLeaves ==
  RequiredGate <=>
    \A t \in Registered : tasks[t].by = NoTask => tasks[t].status = "succeeded"

\* A run may finish exactly when all its obligations are satisfied, also when
\* another run made the replacements.
GuardIsGate ==
  \A r \in Runs : GuardAllows(r) <=> \A t \in Owned(r) : Satisfied(t)

\* A goal is completed only with every obligation succeeded, and nothing that
\* happens to the children afterwards changes that.
CompletedIsEarned ==
  goal = "completed" =>
    \A t \in Registered : tasks[t].by = NoTask => tasks[t].status = "succeeded"

\* Stopped is not ended: "cancelled" and "timed_out" need a confirmed exit or
\* a task that was never asked to stop.
StoppedIsConfirmed ==
  \A t \in Tasks : tasks[t].status \in {"cancelled", "timed_out"} =>
    tasks[t].termination \in {"none", "cooperatively_exited", "force_killed"}

\* While a goal lasts the end of an obligation is final: neither a late report
\* of the child, nor await_subagents, nor the recovery after a crash changes
\* it.  (A registration that could not be scheduled is removed.)
ObligationEndsOnce ==
  [][\A t \in Tasks :
       (tasks[t].status \in TerminalStatuses /\ goals' = goals /\ t # starting) =>
         /\ tasks'[t].status = tasks[t].status
         /\ tasks'[t].termination = tasks[t].termination]_vars
=============================================================================

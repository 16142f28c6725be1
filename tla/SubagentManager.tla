-------------------------- MODULE SubagentManager --------------------------
(***************************************************************************)
(* One background child task, from the moment SubagentManager.spawn has    *)
(* created its asyncio task, together with everything that races with it:  *)
(* /stop (cancel_by_session), a deadline (timeout_tasks), the worker       *)
(* process, the agent that takes the announced result, a crash of the      *)
(* gateway and the recovery at its next start.                             *)
(* nanobot/agent/subagent.py, over the record of SubagentRecord.           *)
(*                                                                         *)
(* The coroutines share one event loop.  A coroutine keeps it from one     *)
(* suspension to the next, so another one may step only while all the      *)
(* others are suspended (Turn).  Between two suspensions each durable      *)
(* write is still a step of its own, because the process may crash after   *)
(* any of them.  The other children of the same /stop or deadline appear   *)
(* as delays of the canceller, which waits for its children one by one.    *)
(***************************************************************************)
EXTENDS SubagentRecord

CONSTANTS
  Executors,   \* those a gateway may use; "asyncio": the runner is a coroutine,
               \* "process": a worker
  AuditOn,     \* does flush_task wait for the audit writer?
  Cancellers,  \* which of "stop" and "deadline" may be called, once each
  MaySwallow,  \* may the runner end normally although it was cancelled?
  MaxCrashes   \* bound on the crashes of the gateway

ASSUME ManagerAssumption ==
  /\ Executors \subseteq {"asyncio", "process"}
  /\ AuditOn \in BOOLEAN
  /\ Cancellers \subseteq {"stop", "deadline"}
  /\ MaySwallow \in BOOLEAN
  /\ MaxCrashes \in Nat

VARIABLES
  executor,   \* the one this gateway uses
  task,       \* the durable record
  up,         \* "up", "down" or "refused": recover_runtime raised at start
  pc,         \* where each coroutine is
  mem,        \* status.termination_state of the in-memory SubagentStatus
  marks,      \* the task is in _timeout_task_ids / _termination_failed_ids
  cancelled,  \* task.cancel() was called and not yet delivered
  worker,     \* the worker process, or what it left when it exited
  run,        \* terminal_status, and whether the branch taken announces
  bus,        \* the announcements in the inbound queue
  crashes

vars == <<task, up, pc, mem, marks, cancelled, worker, run, bus, crashes>>

Actors == {"child", "agent"} \cup Cancellers

ChildPlaces ==
  {"scheduled", "startflush", "launching", "unlaunching", "registering",
   "working", "outcome", "reporting", "finishing", "settling", "endflush",
   "announcing", "readyflush", "dead"}
CancellerPlaces ==
  {"idle", "recording", "sending", "inline", "grace", "killing", "parentwait",
   "join", "concluding", "markfailing", "failannounce", "failflush",
   "finished", "raised"}
AgentPlaces == {"idle", "holding"}

\* The awaits that really give up the event loop; a flush does only when the
\* audit emitter is enabled.
Suspended ==
  {"scheduled", "launching", "unlaunching", "working", "outcome", "dead", "idle",
   "inline", "grace", "killing", "parentwait", "join", "finished", "raised",
   "holding"}
  \cup IF AuditOn THEN {"startflush", "registering", "endflush",
                        "readyflush", "failflush"} ELSE {}

Turn(a) == up = "up" /\ \A b \in Actors \ {a} : pc[b] \in Suspended

Alive == {"running", "asked"}
Exits == {"completed", "error", "timeout", "cancelled", "silent"}

\* task_id in _executor_handles: set after start, popped when wait returns.
Handle == executor = "process" /\ pc["child"] \in {"registering", "working"}

Init ==
  /\ executor \in Executors
  /\ task = [status |-> "queued", termination |-> "none",
             delivery |-> "not_ready", reservation |-> "reserved"]
  /\ up = "up"
  /\ pc = [a \in Actors |-> IF a = "child" THEN "scheduled" ELSE "idle"]
  /\ mem = "none"
  /\ marks = {}
  /\ cancelled = FALSE
  /\ worker = "absent"
  /\ run = [outcome |-> "failed", announces |-> FALSE]
  /\ bus = 0
  /\ crashes = 0

Goto(a, place) == pc' = [pc EXCEPT ![a] = place]

-----------------------------------------------------------------------------
(* The child: _run_subagent and _run_process_child. *)

ChildAt(place) == pc["child"] = place /\ Turn("child")

Begin ==
  /\ ChildAt("scheduled") /\ ~cancelled
  /\ task' = WithStatus(task, "running")
  /\ Goto("child", "startflush")
  /\ UNCHANGED <<up, mem, marks, cancelled, worker, run, bus, crashes>>

\* Before its try statement the coroutine just ends: nothing is recorded.
CancelledBeforeTry ==
  /\ (ChildAt("scheduled") \/ ChildAt("startflush")) /\ cancelled
  /\ cancelled' = FALSE
  /\ Goto("child", "dead")
  /\ UNCHANGED <<task, up, mem, marks, worker, run, bus, crashes>>

Launch ==
  /\ ChildAt("startflush") /\ ~cancelled
  /\ Goto("child", IF executor = "process" THEN "launching" ELSE "working")
  /\ UNCHANGED <<task, up, mem, marks, cancelled, worker, run, bus, crashes>>

WorkerStarts ==
  /\ ChildAt("launching") /\ ~cancelled
  /\ worker' = "running"
  /\ Goto("child", "registering")
  /\ UNCHANGED <<task, up, mem, marks, cancelled, run, bus, crashes>>

\* The task ends with outcome o; announces tells whether the branch taken
\* calls _announce_result after _persist_terminal.
Ends(o, announces) ==
  /\ run' = [outcome |-> o, announces |-> announces]
  /\ Goto("child", "reporting")

\* Mutant of WorkerFailsToStart: the error ends the run without a notice.
WorkerFailsSilently ==
  /\ ChildAt("launching") /\ ~cancelled
  /\ Ends("failed", FALSE)
  /\ UNCHANGED <<task, up, mem, marks, cancelled, worker, bus, crashes>>
WorkerFailsToStart ==
  /\ ChildAt("launching") /\ ~cancelled
  /\ Ends("failed", TRUE)
  /\ UNCHANGED <<task, up, mem, marks, cancelled, worker, bus, crashes>>

Registered ==
  /\ ChildAt("registering")
  /\ Goto("child", "working")
  /\ UNCHANGED <<task, up, mem, marks, cancelled, worker, run, bus, crashes>>

\* The except clause for CancelledError; nothing is announced after it.
CancelExit ==
  /\ cancelled' = FALSE
  /\ IF "failed" \in marks \/ mem = "termination_failed"
       THEN Ends("lost", FALSE) /\ mem' = mem
       ELSE /\ Ends(IF "timeout" \in marks THEN "timed_out" ELSE "cancelled",
                    FALSE)
            /\ mem' = IF mem = "force_killed" THEN mem
                      ELSE "cooperatively_exited"

\* executor.start kills the worker it was starting before it re-raises.
CancelledInStart ==
  /\ ChildAt("launching") /\ cancelled
  /\ cancelled' = FALSE
  /\ Goto("child", "unlaunching")
  /\ UNCHANGED <<task, up, mem, marks, worker, run, bus, crashes>>

WorkerUnstarted ==
  /\ ChildAt("unlaunching")
  /\ CancelExit
  /\ UNCHANGED <<task, up, marks, worker, bus, crashes>>

\* The await the child is suspended in raises CancelledError inside the try.
\* (In the handler of another exception only the finally clause follows; both
\* ways the record has ended by then and nothing more is written to it.)
CancelDelivered ==
  /\ cancelled
  /\ \/ ChildAt("working") \/ ChildAt("outcome")
     \/ ChildAt("endflush") /\ run.announces
  /\ CancelExit
  /\ UNCHANGED <<task, up, marks, worker, bus, crashes>>

RunnerReturns ==
  /\ executor = "asyncio" /\ ChildAt("working") /\ ~cancelled
  /\ \E o \in {"succeeded", "failed", "timed_out"} :
       /\ Ends(o, TRUE)
       /\ mem' = IF o = "timed_out" THEN "cooperatively_exited" ELSE mem
  /\ UNCHANGED <<task, up, marks, cancelled, worker, bus, crashes>>

\* Something below runner.run keeps the CancelledError: a tool that does not
\* cooperate, or asyncio.wait_for whose inner future was already done.
RunnerSwallowsCancel ==
  /\ MaySwallow /\ executor = "asyncio" /\ ChildAt("working") /\ cancelled
  /\ cancelled' = FALSE
  /\ UNCHANGED <<task, up, pc, mem, marks, worker, run, bus, crashes>>

\* An exit without a result, once it is known who killed the worker: the
\* state comes from the canceller, or the worker crashed by itself.
SilentExit(m) ==
  IF m \in {"cooperatively_exited", "force_killed", "termination_failed"}
    THEN CancelExit
    ELSE Ends("failed", TRUE) /\ UNCHANGED <<mem, cancelled>>

ChildSeesExit ==
  /\ executor = "process" /\ ChildAt("working") /\ ~cancelled
  /\ worker \notin Alive
  /\ CASE mem = "termination_failed" -> CancelExit
       [] mem # "termination_failed" /\ worker = "silent" ->
            IF mem = "force_kill_requested"
              THEN Goto("child", "outcome") /\ UNCHANGED <<mem, cancelled, run>>
              ELSE SilentExit(mem)
       [] mem # "termination_failed" /\ worker = "cancelled" ->
            /\ Ends(IF "timeout" \in marks THEN "timed_out" ELSE "cancelled",
                    FALSE)
            /\ mem' = IF mem \in {"force_kill_requested", "force_killed"}
                        THEN mem ELSE "cooperatively_exited"
            /\ cancelled' = cancelled
       [] OTHER ->
            /\ Ends(CASE worker = "completed" -> "succeeded"
                      [] worker = "timeout" -> "timed_out"
                      [] OTHER -> "failed", TRUE)
            /\ mem' = IF worker = "timeout" THEN "cooperatively_exited" ELSE mem
            /\ cancelled' = cancelled
  /\ UNCHANGED <<task, up, marks, worker, bus, crashes>>

\* The force-kill's verdict is waited for at most a second.
OutcomeKnown ==
  /\ ChildAt("outcome") /\ ~cancelled
  /\ mem \in {"force_killed", "termination_failed"}
  /\ CancelExit
  /\ UNCHANGED <<task, up, marks, worker, bus, crashes>>

OutcomeOverdue ==
  /\ ChildAt("outcome") /\ ~cancelled /\ mem # "force_killed"
  /\ Ends("lost", FALSE)
  /\ mem' = "termination_failed"
  /\ UNCHANGED <<task, up, marks, cancelled, worker, bus, crashes>>

(* _persist_terminal, its three writes and its flush. *)

\* A refused termination state raises _SubagentTaskPersistenceError, and the
\* second attempt in the finally clause meets the same record.
ReportTermination ==
  /\ ChildAt("reporting")
  /\ IF mem # "none" /\ TerminationIllegal(task, mem)
       THEN Goto("child", "dead") /\ UNCHANGED task
       ELSE /\ task' = IF mem = "none" THEN task ELSE WithTermination(task, mem)
            /\ Goto("child", "finishing")
  /\ UNCHANGED <<up, mem, marks, cancelled, worker, run, bus, crashes>>

Finish ==
  /\ ChildAt("finishing")
  /\ task' = WithStatus(task, run.outcome)
  /\ Goto("child", "settling")
  /\ UNCHANGED <<up, mem, marks, cancelled, worker, run, bus, crashes>>

\* Mutant of SettleBudget: the reservation of a failed run is kept.
SettleBudgetOfSuccess ==
  /\ ChildAt("settling")
  /\ task' = IF run.outcome = "succeeded" THEN WithReservation(task, "settled")
             ELSE task
  /\ Goto("child", "endflush")
  /\ UNCHANGED <<up, mem, marks, cancelled, worker, run, bus, crashes>>
SettleBudget ==
  /\ ChildAt("settling")
  /\ task' = IF task.reservation = "reserved"
               THEN WithReservation(task, "settled") ELSE task
  /\ Goto("child", "endflush")
  /\ UNCHANGED <<up, mem, marks, cancelled, worker, run, bus, crashes>>

\* A cancellation that arrives in the finally clause ends the coroutine.
EndFlushed ==
  /\ ChildAt("endflush")
  /\ ~(cancelled /\ run.announces)
  /\ cancelled' = FALSE
  /\ Goto("child", IF run.announces THEN "announcing" ELSE "dead")
  /\ UNCHANGED <<task, up, mem, marks, worker, run, bus, crashes>>

(* _announce_result. *)

\* Mutant of Announce: the delivery phase is not looked at.
AnnounceAgain ==
  /\ ChildAt("announcing")
  /\ Goto("child", "readyflush") /\ task' = WithDelivery(task, "ready")
  /\ UNCHANGED <<up, mem, marks, cancelled, worker, run, bus, crashes>>
Announce ==
  /\ ChildAt("announcing")
  /\ IF ReadyIllegal(task)
       THEN Goto("child", "dead") /\ UNCHANGED task
       ELSE Goto("child", "readyflush") /\ task' = WithDelivery(task, "ready")
  /\ UNCHANGED <<up, mem, marks, cancelled, worker, run, bus, crashes>>

PublishInbound ==
  /\ ChildAt("readyflush")
  /\ bus' = IF cancelled THEN bus ELSE bus + 1
  /\ cancelled' = FALSE
  /\ Goto("child", "dead")
  /\ UNCHANGED <<task, up, mem, marks, worker, run, crashes>>

\* The worker exits: with a result, or without one when it crashed.  Only a
\* worker that was asked to reports that it was cancelled.
WorkerExits ==
  /\ up = "up" /\ worker \in Alive
  /\ \E x \in Exits : (x = "cancelled" => worker = "asked") /\ worker' = x
  /\ UNCHANGED <<task, up, pc, mem, marks, cancelled, run, bus, crashes>>

-----------------------------------------------------------------------------
(* A canceller: cancel_by_session or timeout_tasks, for this child. *)

At(c, place) == pc[c] = place /\ Turn(c)

\* record_termination raises out of the canceller when the move is illegal.
Records(c, x, next) ==
  IF TerminationIllegal(task, x)
    THEN Goto(c, "raised") /\ UNCHANGED task
    ELSE Goto(c, next) /\ task' = WithTermination(task, x)

\* _request_cancellation, first write: only the first canceller requests.
Request(c) ==
  /\ At(c, "idle") /\ pc["child"] # "dead"
  /\ marks' = IF c = "deadline" THEN marks \cup {"timeout"} ELSE marks
  /\ IF mem = "none"
       THEN mem' = "cancel_requested" /\ Records(c, "cancel_requested", "recording")
       ELSE Goto(c, "sending") /\ UNCHANGED <<task, mem>>
  /\ UNCHANGED <<up, cancelled, worker, run, bus, crashes>>

\* Second write and request_cancel.  The in-memory state is not updated.
RecordGrace(c) ==
  /\ At(c, "recording")
  /\ Records(c, "grace_waiting", "sending")
  /\ worker' = IF Handle /\ worker = "running" THEN "asked" ELSE worker
  /\ UNCHANGED <<up, mem, marks, cancelled, run, bus, crashes>>

\* A child that owns a worker is waited for, any other one is cancelled.
Send(c) ==
  /\ At(c, "sending")
  /\ IF Handle THEN Goto(c, "inline") /\ UNCHANGED cancelled
               ELSE Goto(c, "join") /\ cancelled' = TRUE
  /\ UNCHANGED <<task, up, mem, marks, worker, run, bus, crashes>>

\* A cancelled child is resumed before the limit can pass, so a join that
\* ends without it means that something in it outlives the cancellation.
JoinEnds(c) ==
  /\ At(c, "join") /\ (pc["child"] = "dead" \/ ~cancelled)
  /\ Goto(c, IF pc["child"] = "dead" THEN "concluding" ELSE "markfailing")
  /\ UNCHANGED <<task, up, mem, marks, cancelled, worker, run, bus, crashes>>

(* _wait_or_force_process_tasks, when the turn of this child comes. *)

WaitForExit(c) ==
  /\ At(c, "inline")
  /\ Goto(c, IF Handle THEN "grace" ELSE "concluding")
  /\ UNCHANGED <<task, up, mem, marks, cancelled, worker, run, bus, crashes>>

ExitSeen(c) ==
  /\ At(c, "grace") /\ worker \notin Alive
  /\ Goto(c, "concluding")
  /\ UNCHANGED <<task, up, mem, marks, cancelled, worker, run, bus, crashes>>

GraceExpires(c) ==
  /\ At(c, "grace") /\ worker \in Alive
  /\ mem' = "force_kill_requested"
  /\ Records(c, "force_kill_requested", "killing")
  /\ UNCHANGED <<up, marks, cancelled, worker, run, bus, crashes>>

\* Mutant of KillConfirmed: the signal counts as the exit.
KillAssumed(c) ==
  /\ At(c, "killing")
  /\ mem' = "force_killed"
  /\ Records(c, "force_killed",
             IF pc["child"] = "dead" THEN "concluding" ELSE "parentwait")
  /\ UNCHANGED <<up, marks, cancelled, worker, run, bus, crashes>>
\* force_kill saw the exit, reaped the worker and found its group empty.
KillConfirmed(c) ==
  /\ At(c, "killing") /\ worker \notin Alive
  /\ mem' = "force_killed"
  /\ Records(c, "force_killed",
             IF pc["child"] = "dead" THEN "concluding" ELSE "parentwait")
  /\ UNCHANGED <<up, marks, cancelled, worker, run, bus, crashes>>

\* Mutant of KillUnconfirmed: the wait after the signal has no limit.
KillUnconfirmedAfterExit(c) ==
  /\ At(c, "killing") /\ worker \notin Alive
  /\ Goto(c, "markfailing")
  /\ UNCHANGED <<task, up, mem, marks, cancelled, worker, run, bus, crashes>>
\* No exit within the limit, descendants left, or not the same process.
KillUnconfirmed(c) ==
  /\ At(c, "killing")
  /\ Goto(c, "markfailing")
  /\ UNCHANGED <<task, up, mem, marks, cancelled, worker, run, bus, crashes>>

\* The child's coroutine is waited for at most a second.
ParentWaitEnds(c) ==
  /\ At(c, "parentwait")
  /\ Goto(c, "concluding")
  /\ UNCHANGED <<task, up, mem, marks, cancelled, worker, run, bus, crashes>>

\* Exit taken as confirmed; only the memory is updated.
Conclude(c) ==
  /\ At(c, "concluding")
  /\ mem' = IF pc["child"] = "dead" \/ mem = "force_killed" THEN mem
            ELSE "cooperatively_exited"
  /\ Goto(c, "finished")
  /\ UNCHANGED <<task, up, marks, cancelled, worker, run, bus, crashes>>

(* _mark_termination_failed. *)

MarkFailed(c) ==
  /\ At(c, "markfailing")
  /\ marks' = marks \cup {"failed"}
  /\ IF pc["child"] = "dead"
       THEN Goto(c, "finished") /\ UNCHANGED <<task, mem>>
       ELSE /\ mem' = "termination_failed"
            /\ Records(c, "termination_failed",
                       IF mem = "termination_failed" THEN "finished"
                       ELSE "failannounce")
  /\ UNCHANGED <<up, cancelled, worker, run, bus, crashes>>

FailAnnounce(c) ==
  /\ At(c, "failannounce")
  /\ IF ReadyIllegal(task)
       THEN Goto(c, "raised") /\ UNCHANGED task
       ELSE Goto(c, "failflush") /\ task' = WithDelivery(task, "ready")
  /\ UNCHANGED <<up, mem, marks, cancelled, worker, run, bus, crashes>>

FailPublish(c) ==
  /\ At(c, "failflush")
  /\ bus' = bus + 1
  /\ Goto(c, "finished")
  /\ UNCHANGED <<task, up, mem, marks, cancelled, worker, run, crashes>>

-----------------------------------------------------------------------------
(* The agent's side of a result, in outline: claim, then the confirmation. *)

AgentClaims ==
  /\ pc["agent"] = "idle" /\ Turn("agent") /\ bus > 0
  /\ bus' = bus - 1
  /\ IF Claimable(task)
       THEN /\ task' = WithDelivery(task, "claimed_pending_delivery")
            /\ Goto("agent", "holding")
       ELSE UNCHANGED <<task, pc>>
  /\ UNCHANGED <<up, mem, marks, cancelled, worker, run, crashes>>

AgentConfirms ==
  /\ pc["agent"] = "holding" /\ Turn("agent")
  /\ \E d \in {"delivered", "delivery_failed"} : task' = WithDelivery(task, d)
  /\ Goto("agent", "idle")
  /\ UNCHANGED <<up, mem, marks, cancelled, worker, run, bus, crashes>>

\* The run that holds the result is stopped: neither write happens.
AgentStopped ==
  /\ pc["agent"] = "holding" /\ Turn("agent")
  /\ Goto("agent", "idle")
  /\ UNCHANGED <<task, up, mem, marks, cancelled, worker, run, bus, crashes>>

(* A crash of the gateway, and recover_runtime at its next start. *)

Crash ==
  /\ up = "up" /\ crashes < MaxCrashes
  /\ crashes' = crashes + 1
  /\ up' = "down"
  /\ pc' = [a \in Actors |-> CASE a = "child" -> "dead"
                               [] a = "agent" -> "idle"
                               [] OTHER -> "finished"]
  /\ mem' = "none" /\ marks' = {} /\ cancelled' = FALSE /\ bus' = 0
  /\ UNCHANGED <<task, worker, run>>

Recover ==
  /\ up = "down"
  /\ IF Terminal(task)
       THEN up' = "up" /\ UNCHANGED task
       ELSE IF TerminationIllegal(task, "termination_failed")
         THEN up' = "refused" /\ UNCHANGED task
         ELSE up' = "up" /\ task' = WithTermination(task, "termination_failed")
  /\ UNCHANGED <<pc, mem, marks, cancelled, worker, run, bus, crashes>>

-----------------------------------------------------------------------------
ChildStep ==
  \/ Begin \/ CancelledBeforeTry \/ Launch \/ WorkerStarts
  \/ WorkerFailsToStart \/ Registered \/ CancelledInStart \/ WorkerUnstarted
  \/ CancelDelivered \/ ChildSeesExit
  \/ OutcomeKnown \/ OutcomeOverdue \/ ReportTermination \/ Finish
  \/ SettleBudget \/ EndFlushed \/ Announce \/ PublishInbound

RunnerStep == RunnerReturns \/ RunnerSwallowsCancel

CancellerStep(c) ==
  \/ RecordGrace(c) \/ Send(c) \/ JoinEnds(c) \/ WaitForExit(c)
  \/ ExitSeen(c) \/ GraceExpires(c) \/ KillConfirmed(c)
  \/ KillUnconfirmed(c) \/ ParentWaitEnds(c) \/ Conclude(c) \/ MarkFailed(c)
  \/ FailAnnounce(c) \/ FailPublish(c)

Next ==
  \/ ChildStep \/ RunnerStep \/ WorkerExits
  \/ \E c \in Cancellers : Request(c) \/ CancellerStep(c)
  \/ AgentClaims \/ AgentConfirms \/ AgentStopped
  \/ Crash \/ Recover

\* The gateway keeps its executor.
Spec == Init /\ [][Next /\ UNCHANGED executor]_<<vars, executor>>

\* The event loop runs every coroutine that can run, and every wait of a
\* canceller has a time limit.  Nothing is assumed of the runner, the worker,
\* the user, the agent or crashes.
FairSpec ==
  /\ Spec
  /\ WF_vars(ChildStep)
  /\ \A c \in Cancellers : WF_vars(CancellerStep(c))

-----------------------------------------------------------------------------
TypeOK ==
  /\ executor \in Executors
  /\ task \in [status : Statuses, termination : Terminations,
               delivery : Deliveries, reservation : Reservations]
  /\ up \in {"up", "down", "refused"}
  /\ pc \in [Actors -> ChildPlaces \cup CancellerPlaces \cup AgentPlaces]
  /\ mem \in Terminations
  /\ marks \subseteq {"timeout", "failed"}
  /\ cancelled \in BOOLEAN
  /\ worker \in {"absent"} \cup Alive \cup Exits
  /\ run \in [outcome : TerminalStatuses, announces : BOOLEAN]
  /\ bus \in Nat
  /\ crashes \in 0..MaxCrashes

\* A run that nobody cancelled and no crash cut off ends its record and
\* offers its result, whatever the runner or the worker did.
UncancelledRunReports ==
  (/\ pc["child"] = "dead" /\ crashes = 0
   /\ \A c \in Cancellers : pc[c] = "idle")
  => Terminal(task) /\ task.delivery # "not_ready"

\* Without a crash, a task that has ended and whose coroutine is gone gives
\* its token reservation back, also when a canceller wrote the end.
EndedIsSettled ==
  (pc["child"] = "dead" /\ crashes = 0 /\ Terminal(task)) =>
    task.reservation = "settled"

\* An end that is called confirmed, in memory or in the record, is one: the
\* worker has exited.
ConfirmedIsGone ==
  {mem, task.termination} \cap {"force_killed", "cooperatively_exited"} # {} =>
    worker \notin Alive

\* The child, its cancellers, the agent and recovery together do no more to
\* the record than the contract allows, in no other order.
Contract == INSTANCE ResultContract WITH status <- task.status,
                                         delivery <- task.delivery
KeepsContract == Contract!Spec

\* /stop comes back, and then the child is gone or its record says lost: a
\* worker or a runner that never ends is not waited for forever.
StopReturns ==
  (pc["stop"] # "idle") ~>
    \/ pc["stop"] = "raised"
    \/ pc["stop"] = "finished" /\ (pc["child"] = "dead" \/ task.status = "lost")

(* What the documents say of this code, and the runs that refute it. *)

\* docs/subagent-lifecycle-three-issues-research.md:79: a task that left at a
\* cooperation point and was gathered is recorded as cancelled or timed_out; line 88:
\* cancel_requested, then grace_waiting, then an end.  Without a crash the record of
\* a child that is gone has ended.
StoppedRunEnds ==
  (pc["child"] = "dead" /\ crashes = 0) => Terminal(task)

\* recover_runtime, "Fail closed durable tasks whose executor is absent after
\* restart": the next start never refuses to come up.
RestartRecovers == up # "refused"
=============================================================================

# Verification of KdmCopilot's background work

KdmCopilot (the `nanobot` package) is an agent gateway: chat channels put messages on
a bus, an agent loop runs one model-and-tools turn per session at a time, and a turn may
start *subagents* that work in the background and report back.  This directory holds
TLA+ models of the part of the system where coroutines, worker processes, files and
crashes meet, the TLC configurations that check them, and proofs checked by TLAPS.

`tlc -config X.cfg M` checks a model, `tlapm MProofs.tla` a proof module.

## 1. Inventory

| Component | State it keeps | Operations | Hard part |
|---|---|---|---|
| Durable subagent tasks, `session/subagent_tasks.py` | one JSON file per task: record, revision, lifecycle outbox | create, status / runtime / budget / termination / delivery writes, recovery, publication mark | several writers end the same task; late reports; crash between writes |
| Lifecycle publisher, `audit/subagent_lifecycle.py` | none (works on loaded copies) | flush a task, flush all | concurrent flushes over stale copies, late acknowledgements |
| Audit emitter and writer, `audit/emitter.py`, `audit/writer.py` | bounded queue, epochs, segments, catalog | emit, submit, commit epoch, recover, close | timeouts after the fact, uncertain commits |
| Subagent manager, `agent/subagent.py` | running tasks, in-memory status, marks, executor handles | spawn, run, announce, /stop, deadline, wall time, force-kill, recovery, close | everything above interleaved with cancellation |
| Child executor and worker, `agent/child_executor.py`, `child_worker.py` | handles, process groups | start, cancel, wait, force-kill | exits nobody ordered, kills nobody can confirm |
| Goal obligations, `session/goal_orchestration.py`, `agent/tools/long_task.py` | `goal_state.orchestration` of a session | register, remove, finish, mark, select, gate, recovery; create / update goal | replacements across runs, late reports |
| Agent loop, `agent/loop.py` | session locks, pending queues, active tasks | dispatch, drain, completion guard, /stop | routing races, claims, partial drains |
| Turn continuation, `session/turn_continuation.py` | a counter per goal | continue, stop | bounds |
| Automation turns, `agent/automation_turns.py`, `agent/cron_turns.py`, `triggers/local_turns.py` | waiters, deferred turns per session | submit, defer, complete, publish | who publishes a deferred turn; who answers a submitter that was stopped |
| Cron, `cron/service.py` | `jobs.json`, action log, list in memory, timer | add, update, enable, remove, run, tick, poll; additions and removals of other processes | a list that is read anew while jobs run; a timer cancelled while busy; saves that fail |
| Local triggers, `triggers/local_store.py`, `local_runner.py` | directories inbox, processing, failed | enqueue, claim, complete, retry, recover | crash between the halves of a retry; shutdown while a turn runs |
| Fallback provider | circuit breaker per provider | call, trip, retry | half-open races |
| Memory outbox and proposals, `memory/` | SQLite tables | enqueue, claim, done, retry; propose, approve | leases that expire while work goes on |
| Session manager, runner, tools, context, channels, web, API, CLI, providers, skills, SDK, security, configuration | files, connections | - | sequential, or input and output |

How they interact: the agent's `spawn` tool calls the manager, which writes a durable task,
registers an obligation with the goal if the child is required, and creates the child's
asyncio task.  The child runs a model loop, as a coroutine or in a worker process, then
writes its end, publishes the lifecycle outbox through the audit writer, and announces the
result on the bus.  The agent loop claims the result, puts it into a conversation and
confirms the delivery.  `/stop`, join deadlines and the wall-time watchdog cancel children
from other coroutines; at a start the loop first lets the stores fail whatever a dead
process left behind.  The cron timer and the delivery loop of local triggers submit turns
to the same bus: a coordinator defers them while their session has a turn, the end of a
dispatch publishes the next one, and the submitter waits for the turn to end.

What makes each part correct is stated by the properties below; `PROJECT.json` lists under
"hazards" what is hard to test, each at its line, with the properties that watch it.

## 2. Modules

| Module | Models | State and actions against the code |
|---|---|---|
| `SubagentRecord` | enumerations, transition tables and single-record effects of `subagent_tasks.py` | operators on records; `...Ignored` is an early return, `...Illegal` a raise |
| `SubagentTaskStore` | `SubagentTaskStore` | `task`, `revision`, `outbox` are the file; each operation ends in one rename, hence one action; `Commit` is `_commit` |
| `LifecyclePublisher` | `SubagentLifecyclePublisher._flush` over emitter and writer | a flusher is a coroutine with the copy it loaded; `queue` and `log` are the writer's queue and the committed events |
| `AuditTrail` | what a reader of the log may rely on (abstract) | refined by `LifecyclePublisher` through `Trail`, the log without repeated keys |
| `SubagentManager` | `_run_subagent`, `_run_process_child`, `cancel_by_session`, `timeout_tasks`, `_request_cancellation`, `_wait_or_force_process_tasks`, `_mark_termination_failed`, `_announce_result`, recovery | one child, its cancellers, worker, agent; `pc` names the await (or the gap between two durable writes) each coroutine is at |
| `SubagentAdmission` | `SpawnTool.execute`, `SubagentManager.spawn`, what later admissions see of the children | several calls, runs and sessions; `lock` is `_spawn_lock`, `child` the table of running tasks, `obligation` the goal's copy |
| `ResultContract` | what a child promises to whoever waits for it (abstract) | refined by `SubagentManager` through the record's status and delivery phase |
| `ResultDelivery` | `AgentLoop.run`, `_dispatch`, the restore, build, run and save of a turn, `_drain_pending`; the rounds and injections of `AgentRunner`; `/stop` | `bus`, `line` and `lock` are the inbound queue, the dispatches waiting for the session lock and its holder; `routed` and `pending` the entry of `_pending_queues`; `turn` the locals of the running turn; `history` and `checkpoint` the session's file |
| `GoalOrchestration` | obligations of the active goal, the gate of `update_goal`, the completion guard | `tasks` is `orchestration["tasks"]`; every store operation is one step because it does not suspend |
| `MCGoalOrchestration`, `MCSubagentAdmission` | symmetry and the sessions of the runs for TLC | tasks (calls) and runs are interchangeable |
| `CronService` | `CronService`, its timer, runs by hand, and processes that only append to the action log | `disk`, `log`, `mem` are `jobs.json`, `action.jsonl` and `_store`; `timer`, `wake`, `cur`, `rest` the task of the timer and what `_on_timer` still has to run; `run` the tasks of `run_job`; `Load` is `_load_store`, which every call starts with |
| `LocalTriggerQueue` | `LocalTriggerStore`'s deliveries and `run_local_trigger_queue` | `inbox`, `processing`, `failed` are the directories with the attempts each file says; `batch` what the loop has claimed |
| `AutomationTurns` | `AutomationTurnCoordinator`, the router, `_dispatch` and `/stop`, on top of `LocalTriggerQueue` | `line`, `holder`, `gate` are the dispatches that wait for the session lock, hold it, and wait for a place among the concurrent turns; `deferred`, `waiting`, `answer` the coordinator's tables |
| `MCAutomationTurns` | the sessions of the messages for TLC | two sessions, both kinds of automation in one of them |
| `...Proofs` | theorems and their proofs | one module per proved component |

Conventions.  Mutants of an operator (a plausible bug in the code it models) stand directly
before it, have a comment saying so, and are used by nothing.  No operator is RECURSIVE;
walks along replacement chains are recursive functions.

### Decisions about the code

* *Atomicity.*  The store's and the goal's operations hold an `asyncio.Lock` but never
  suspend inside it, so each is one step.  `SubagentManager` still separates two consecutive
  durable writes, because the process may die between them; `Turn` lets another coroutine
  step only while all the others are at an await that really yields.
* *Flushes.*  A flush suspends only when the audit emitter is enabled (`AuditOn`); the
  no-audit emitter returns without awaiting anything.
* *Cancellation.*  `task.cancel()` sets a flag that is delivered at the await the child is
  in.  Where delivery leaves the try statement, the `finally` clause follows.  With
  `MaySwallow` the runner may absorb it: `asyncio.wait_for` (Python 3.11) returns a result
  that is already there, and tools may not cooperate (the repository tests that case in
  `test_timeout_that_cannot_confirm_exit_is_fail_closed`).
* *A turn.*  `ResultDelivery` has audit on, so that each place of a turn is an await that
  really suspends; `Busy` names the two that are not.  Cancelling a suspended turn with its
  `except` and `finally` clauses is one step: between the delivery of the cancellation and
  the release of the lock the code only yields to coroutines that cannot use what it
  changes.  A child announces its result once (`ResultContract`), hence a refused claim
  and the turn that is skipped for it do not occur.  Only what comes from outside is
  bounded: stops, crashes and faults.
* *Cron.*  Every call runs from its reading of the files to its end without an await, so it
  is one step; the timer gives up the event loop only inside a job, and cancelling it there
  takes effect before anything else can see it.  Three faults are told apart: the process
  ends, a save fails, the file becomes unreadable.  A merge of the action log is the one
  place where a call writes twice (the log is emptied, then the list saved), so a crash and
  a failure between the two are steps of their own.
* *Automation turns.*  The steps of the router and of a dispatch between two awaits that
  really suspend are one action.  A dispatch that has been created but not begun is told
  from one that has (`fresh`): asyncio drops a task cancelled before its first step without
  running its `finally` clauses.  What happens inside a turn is `ResultDelivery`'s matter.
  One budget bounds everything that comes from outside (edits, faults, crashes, cron runs,
  users' messages): each mix of two of them is reached, and no bound hides another.
* *Other children.*  `/stop` and deadlines treat their children one after the other; the
  others appear as delays of the canceller (`inline`).
* *External code.*  The model runner and the worker end in any way the code tells apart.
  The audit writer commits, fails, or fails after the event became durable
  (`CatalogWriteUncertainError`).  A worker that cannot be started leaves no process behind
  (`executor.start` kills what it had started).

## 3. Runs

| Run | Instance | Shows |
|---|---|---|
| `store` | 1 task, 2 phases, 2 usages, 6 commits | the record and its outbox agree; one end, final; claims balance; keys are unique |
| `publisher` | 2 flushers, 3 events, 3 faults | nothing is forgotten, reordered or seen twice: `TrailIsExact` is the refinement of `AuditTrail`; a flush that no fault hits publishes its copy |
| `manager` | worker process or coroutine that may swallow its cancellation, /stop and a deadline, 1 crash | honest confirmation, no silent failure, reservations settled, `KeepsContract` (the refinement of `ResultContract`); `/stop` comes back |
| `goal` | 3 tasks, 2 runs, 2 goals | replacement chains, gate, guard, completion, ends of obligations |
| `admission` | 3 calls, 3 runs, 2 sessions, 1 crash, 1 fault | running children, records per owner, tokens and twins are bounded; what a raised call leaves; no required child before its goal knows it |
| `delivery` | 1 user message, 2 results, queue 1, drain 2, 1 cycle, 2 rounds, 1 stop, crash and fault | nothing is lost in silence or heard twice; what is recorded as delivered was heard; old rounds precede the next turn; the bus gets heard |
| `cron` | 1 user job, 1 system job, clock to 3, 3 edits, 1 fault of three kinds, any number of stopped turns | no job comes back, and none vanishes but with a merge cut in two or an unreadable file; a due time is run to its end once; a due job gets its run unless the timer waits for a stopped turn or died of a failed save |
| `automation` | 3 deliveries (1 a command, 1 to a channel not enabled), 1 cron run, 2 user messages, 2 sessions, 1 concurrent turn, 1 stop, budget 2 | deliveries are kept until their turn ended, in one place, and repeated only for a stop, crash or fault of the gateway; a deferred turn has somebody to publish it; submitters are answered and the queue moves, but in the three cases that `AnswerComes` names |
| `stopped_run`, `restart`, `stopped_work`, `corrupt_store` | smallest instance each | the four divergences of section 6 |

The type invariants `TypeOK` are not among the properties of the runs; they hold in the same
instances, and those of the store, the publisher, the goal, the admission, the delivery and
the manager are theorems.

Bounds and why they are enough.

* Tasks of the store do not share any state, so one task shows every behaviour of each;
  six commits are the longest way from creation through cancellation, grace, end, budget
  to an offer of the result, or from an end to a second claim.  What must hold for any
  length is proved.
* Three events and two flushers give a stale copy, a newer copy and an event in the middle;
  three faults give a timeout followed by a crash and by another failure.
* A child has at most two cancellers at a time that matter: `/stop` (also `update_goal`)
  and a deadline (the join or the watchdog).  One crash suffices, as a restarted gateway
  has no coroutine of the old child left; what a second crash could add is only between
  recovery's own writes, which the store's model covers.
* A chain of three attempts is the shortest with a middle; two runs are needed for a
  replacement by someone else; two goals for reports that come too late.
* Three calls are needed for a limit of two to be reached and tried again; two runs of one
  session and one of another tell limits per run, per session and of the process apart.
  A child consumes less or more than it reserved.
* The limits of a turn are 20 queued messages, 3 per drain, 5 drains and some hundred
  rounds; with 1, 2, 1 and 2 all of them are reached by three messages, and what exceeds
  them takes its other way (a dispatch of its own, the next drain, the next turn).
* A system job and a user job are what one tick can have due together: the timer then waits
  in one while the other is still to run, which is when an edit, a poll or a run by hand
  matters.  Three ticks of the clock let a one-shot job and a periodic one fall due, end and
  fall due again; three edits are an addition, a change and a run by hand.  The run has one
  fault; the safety properties are proved for any number of faults and jobs.
* Three deliveries for batches of two make a batch with a rest, a queue behind it, and a
  crash between two claims; two attempts reach the failed directory.  One of them is a
  priority command (as `/stop` and as any other), one goes to a channel that is not enabled.
  They share a session with a cron run and a user's message, so that each kind is deferred or
  injected behind each other; the message of the other session, with one place for a turn,
  gives a dispatch that holds its lock without a turn.

Deadlock is not checked: a session, a child and an outbox all really come to rest.

Fairness.  `LifecyclePublisher` assumes that the writer thread of control goes on taking items
from its queue and that the event loop resumes a flusher that can run; nothing is assumed
about anybody starting a flush.  `SubagentManager` assumes that the event loop runs the
child's coroutine when it can go on and that a canceller's waits end, because each has a
timeout in the code (`asyncio.wait(..., timeout)`, `executor.wait(handle, grace)`, the limits
in `force_kill`).  Nothing is assumed of runners, workers, users or crashes, so `StopReturns`
holds with a worker that never exits.  `ResultDelivery` assumes that the event loop runs the
router, the waiting dispatch and the turn: the waits inside a turn are for the model (request
timeouts), an acknowledgement of the audit writer, or a child (300 seconds).  Nothing is
assumed of users, children, stops and faults.  `CronService` assumes that time passes, that an
armed timer fires and that what the timer awaits ends, unless the step `StopTurn` made it
`silent`.  The first half is `AnswerComes` of `AutomationTurns`: a submitted run is answered,
except when `/stop` takes its dispatch before the turn or leaves it deferred with nobody to
publish it; the second half is these exceptions (the third one, commands, is for deliveries: a
cron prompt never is a command).  Nothing is assumed of runs by hand, which may wait for good,
of users, other processes or restarts.  `AutomationTurns` assumes that the event loop runs the
router (commands too), the dispatches in their order and the loop of deliveries, and that a
turn ends; nothing of whoever enqueues, of restarts, stops or faults.

## 4. Proofs

All are checked by TLAPS for every value of the constants that meets the assumption named
in the module.

* `SubagentTaskStoreProofs`.  Types; `UnconfirmedMeansLost` (inductive with types: the
  two fields are written together and every other writer returns early on a terminal
  record); `EndIsFinal`; `OutboxKeysUnique`.  The last one needs a strengthening: a task
  without a file has an empty outbox, and all events have a revision at most the record's.
  A new commit then uses a revision no earlier event has, and the one commit with two
  events tells them apart by type.  `OutboxTracksRecord`; `OneEnd` and `ClaimsBalance`, which
  count events of an outbox of any length: each commit adds the events of one type or none,
  so a count changes by the one event the same commit writes into the record.
* `LifecyclePublisherProofs`.  Types; `PublishedIsLogged`, from: a flusher that is
  acknowledged has its current event in the log, and a queued item is the current event of
  its waiter; `PublishedInOrder`, from: what a flusher has left to publish is closed
  upwards within its copy, so everything before its current event was published when it
  got there or had been before.  `TrailIsExact`, the refinement of `AuditTrail`: a queued
  event is the next one to be published and was not waived (`InTurn`), and the reader sees
  every event of the log (`TrailKept`).  That a log one event longer has the old trail, or
  the old trail and that event, is the lemma `Recorded`; the trail is defined by the places
  where a key occurs first and their number, so the lemma counts and needs no induction.
* `GoalOrchestrationProofs`.  Types; `ChainsAreAttempts`; `StoppedIsConfirmed`;
  `ObligationEndsOnce`.  The chain argument needs that only ids that were given out have a
  record, that an absent record has no replacement, and that a registration about to be
  taken back has not been replaced itself (it is running or was declared lost in between,
  and the spawn lock admits nobody else).  `GateIsLeaves`, `GuardIsGate` and
  `CompletedIsEarned` speak of chains of any length.  A chain is walked by a function on the
  numbers; what holds along it is proved for the set of numbers for which it holds
  (`SetInduction`, from the well-foundedness of the order), so no operator is a parameter of
  the induction.  The code's loop turns as often as there are tasks, which is enough because
  attempts grow along a chain (`ChainEnds`); of the tasks an end answers for, the one with
  the least attempt replaced nothing, hence first attempts say all (`GateLeaves`); and what
  `select_owner` collects has every chain of the run in it (`OwnerHasChains`).
* `SubagentAdmissionProofs`.  Types; `LockIsHeld`; `ConcurrencyCap`; `RequiredIsRegistered`;
  `RaisedLeavesNothing`; `ChildCaps`; `NoTwins`; `TokenCap`.  The cap is checked when the lock
  is taken and used when the task is created, several suspensions later: the strengthening
  says that while a call holds the lock there is still room for it, since nobody else can add
  a child.  The next two need the records, obligations and replacements a call has at each of
  its places (`CallWrites`, `Traces`).  `NoTwins` looks at running children only, while a
  child that is over may still be replaced and a replacement may be undone.  Its
  strengthening `OneHeir` therefore speaks of the calls with one key that are alive, which
  may run or may be replaced: they are one, or one and the call that holds the lock to
  replace it.  Every step but an admission lets calls cease to be alive and keeps who
  replaces whom (`Fades`).  `TokenCap` adds over the children of a session.  The sum is first
  freed of the order it is taken in (`SumTakes`, by induction over the subsets of a finite
  set), then no step but an admission raises what a child counts for (`Lightens`, from
  `Reserved`: what has not settled still has its reservation), and an admission adds one
  reservation, which was seen to fit.

* `AutomationTurnsProofs`.  `AtLeastOnce` and `OneCopy` together, then `DeferredHasHost`, for
  any number of deliveries, cron runs, users and sessions and for every number of attempts,
  stops and crashes.  The files alone are not inductive: the strengthening says that what the
  loop has claimed lies in processing and nowhere else, once, with the count that was read (so
  that a retry writes what belongs there); that a second copy, which only a crash inside a
  retry leaves, is the one the next recovery would write again (so that recovery makes one of
  two); and that nobody is answered before the turn ended (so that a delivery is removed only
  after its turn). `DeferredHasHost` needs that each dispatch still to end publishes one
  deferred turn and that whatever it publishes keeps the rest hosted.  A message hosts others
  only if it gets a dispatch: that what was deferred is no command (`OwnTurn`) is part of the
  invariant.  `NoNeedlessTurn` follows the message of a delivery (`TurnInv`): it is in one
  place among the bus, the line of its session, what was deferred and the lock, and once there
  (`Single`); it is anywhere only while the delivery loop waits for its answer; and whatever
  may have a turn yet (`Pending`: the delivery will be submitted; `Due`: its message is on its
  way) has had none that no crash and no fault accounts for.  A step of the loop moves the
  message and makes no second one (`Moves`, from what `Append`, `Tail`, `\o` and `SubSeq` do
  to the elements of a sequence); a step of the queue that could submit once more either finds
  the delivery pending already or is itself a crash or a fault.

* `ResultDeliveryProofs`.  Types and limits; `NoSilentLoss`, `ConversationOnce`,
  `DeliveredIsHeard`, `OldRoundsFirst`, for any number of messages, rounds, stops, crashes and
  faults and any limits.  One invariant carries them: the places a message can be in are
  apart, and none of them has it twice; no round in history, checkpoint or memory
  has a number beyond those counted so far, so that a new round is new; each place of a turn
  limits what its batch, its memory and the checkpoint can be; and what the store says of a
  result fits the place it is in.  Sequences are reasoned about as the sets of their
  elements (`ConcatFacts`, `AppendFacts` and their like).
* `SubagentManagerProofs`.  Types; `UncancelledRunReports`; `EndedIsSettled`;
  `ConfirmedIsGone`; and the refinement `KeepsContract`, for either executor, with or without
  audit, any cancellers and any number of crashes.  The invariant says who can be where after
  a crash, how far the record has got by the places of those who write it (`RecordKept`),
  that a canceller gets no further than its join while the child has not begun (`Begun`),
  that a live worker has a child that waits for it (`WorkerOwned`), and what a child nobody
  cancelled cannot have met (`Undisturbed`).  There is one lemma per action, and each also
  says that the step is one of `ResultContract` or leaves status and delivery alone.
* `CronServiceProofs`.  `NoJobVanishes`, `GoneStaysGone` and `RunOncePerDue`, for any number
  of jobs, edits, restarts and faults of each kind.  `Books` relates the file, the memory, and
  the additions and removals of the log: nobody was told of a job whose removal waits in the
  log, nothing removed is anywhere, and no id that was not given out is in use.  Besides, a
  job in the log was added before it was removed (`DelsLast`, which makes the last line about
  it decide); the memory and the log together have all that was promised, so that a save may
  replace the file (`Told`); and while the scheduler runs, an addition in the log that has
  already been merged is one that `echoed` names (`Echoing`).  The proof found the last case:
  see the remark on a start after an unreadable file in section 5.  `RunOncePerDue` rests on
  these books and on a second invariant (`RunInv`).  Neither the memory nor, unless the timer
  is busy, the file has a job still due at a time it has run (`QuietUp`); every time it has
  run or is about to run has come, and its job is not in the log any more, so that no merge
  makes it due again (`Known`); the timer's jobs are never lost to a fresh list (`~adrift`).
  The file may lag behind a busy timer, and a refused run by hand would arm the timer then
  without a save; the last part says why that cannot happen after a job has ended
  (`AskedIsOn`): the run begins before the timer goes on, and what it asked for is still
  enabled unless a save failed.

`TypeOK` of six modules (all of these but `CronService` and `AutomationTurns`, whose proofs
have the types they need), `UnconfirmedMeansLost`, `LockIsHeld` and `PublishedIsLogged` are
theorems that no run repeats; all were found true by TLC before they were proved.

Only model-checked is liveness, which is out of the prover's reach (`FlushCompletes`,
`StopReturns`, `EventuallyHeard`, `DueIsRun`, `AnswerComes`, `QueueMoves`).  Every invariant
and every action property of a passing run is a theorem.

## 5. What is left out

* `SubagentManager` takes up a child after `spawn` has created its coroutine, where
  `SubagentAdmission` leaves it.  The wall-time watchdog and `close()` are not modelled;
  nor does `SubagentManager` have the copy of a required child's end that goes to the goal.
* `SubagentAdmission` leaves out cost budgets (a gateway that sets one refuses every spawn)
  and the depth of nested children, a field of the request; its children are as coarse as
  an admission can tell.
* `GoalOrchestration` leaves out `result_claims`, deadlines and the orchestration phase.
* Of the audit writer only the fate of one task's critical events.
* `ResultDelivery` follows one session.  It leaves out commands other than `/stop`,
  continuations, ephemeral turns, the completion guard and the claims of
  the goal, a cancellation that a runner swallows, a disk that fails in the last save of a
  turn, and the merging of neighbouring user messages.  The placeholder answer for a turn
  that saved only its user message is not a message of the model.
* `CronService` takes a cron expression for an interval, has only jobs bound to a chat, runs
  due jobs in any order, and leaves out the run history and a save that fails in
  `register_system_job` or `start`.  What it has and no property forbids, because nothing in
  the repository promises otherwise: an edit or a run by hand cancels a timer that is waiting
  for a job, the turn goes on without being recorded, and the job may be run again
  (`RunOncePerDue` is about runs that ended); a one-shot job that fell due while the gateway
  was down gets no next run; a merge empties the action log before it saves, so a crash or a
  failed save there loses the additions in it; an unreadable file takes its jobs with it (they
  stay in memory until the next reading, see section 6); a save that fails under the timer
  leaves it dead until the next call that arms it; the timer waits for good for a job whose
  turn `/stop` took before it began, and the jobs due after it wait with it until an edit, a
  run by hand or a restart arms the timer anew.  The properties name these cases:
  `NoJobVanishes` is about `Promised`, the jobs callers were told of but for those in `lost`,
  and `DueIsRun` excepts a dead timer and a `silent` one.  Further, the outcome of a run by
  hand is dropped when the list was read anew meanwhile.  A file that becomes unreadable
  between `register_system_job` and `start` makes `start` save the merged list it has and
  leave the action log as it is (`cron/service.py:294-305`); the additions in it are merged
  once more at the next readable reading, and if a second unreadable file lets a removal come
  before that, the removed job is back.  `echoed` names these jobs; `GoneStaysGone` and
  `RunOncePerDue` except them and nothing else.
* `AutomationTurns` leaves out the queue limit of an injected message (it is in
  `ResultDelivery`), submission while the loop is not running, unparsable delivery files,
  commands that go through a dispatch like any message, and runtime control messages (only the
  web's reload of MCP servers sends them; nothing waits for them here).  In three cases a
  submitter gets no answer, and its cron timer or the delivery loop waits until the timer is
  armed anew or the gateway restarts: `/stop` takes a dispatch before its turn began; `/stop`
  takes one before its first step, which then does not publish the deferred turn it was to
  publish (`bereft`, `Stranded`); or a delivery says `/stop`, `/status` or `/restart`, which
  the router carries out itself (`Inline`) without completing anything.  `cut` has the
  messages of the first and the third case.  `AnswerComes` and `QueueMoves` except exactly
  these; `docs/automations.md` describes none of them.
* A claim, a retry and the flush of an outbox without audit write several files or one file
  several times.  Each is one step, with steps of their own for a crash in the middle
  (`CrashInClaim`, `CrashInRetry`, `CrashInBoot`); `FlushSilently` publishes any number of
  the pending events, from the first on, so that a write may fail or the process die after
  each.
* A cancellation that reaches a child in the flush after its durable end drops the
  announcement of a task recorded as succeeded (`agent/subagent.py:829`).
* Nobody recovers a task that was `created` but not yet started when the gateway died, and
  a claim whose turn was cancelled stays pending: both are in the models, no document
  promises otherwise, and `PROJECT.json` has them as hazards without a property.
* The components marked `not_modelled` in `PROJECT.json`, each with its reason.

## 6. Where code and documents disagree

Each has a run that TLC refutes.

1. `stopped_run`: a child cancelled before its `try` statement (`agent/subagent.py:784-787`)
   keeps its durable status queued or running, and so does one whose worker returns during
   the grace period, when the record is one termination move ahead of the memory
   (`agent/subagent.py:818`); the subagent document promises `cancelled` or `timed_out`.
2. `restart`: after a crash between a confirmed termination and the end of the record,
   `recover_runtime` raises and the gateway does not start.
3. `stopped_work`: `/stop` is to preserve the tool results and assistant messages of the
   interrupted turn (`agent/loop.py:1609`); each checkpoint overwrites the one before, so
   only the last round survives.
4. `corrupt_store`: an unreadable `jobs.json` is moved aside and the list in memory kept, but
   not saved; the next reading finds no file and empties the list (`cron/service.py:294-305`),
   against the docstring there and `tests/cron/test_cron_persistence.py:185`.

## 7. Plan

1. `RequiredChild`: `SubagentManager` composed with `GoalOrchestration`.
2. `ChildExecutor`: process group, identity check, IPC; refined into the `worker` of
   `SubagentManager`.
3. `AuditWriter`: epochs, segments, catalog, recovery; `LifecyclePublisher`'s writer as
   its abstraction.
4. `MemoryOutbox`, `FallbackBreaker`, `TurnContinuation`.

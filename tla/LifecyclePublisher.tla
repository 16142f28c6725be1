------------------------- MODULE LifecyclePublisher -------------------------
(***************************************************************************)
(* SubagentLifecyclePublisher (nanobot/audit/subagent_lifecycle.py) over   *)
(* the outbox of one task, with the emitter and the commit queue of        *)
(* nanobot/audit/emitter.py and writer.py underneath.                      *)
(*                                                                         *)
(* Several coroutines of the manager flush the same outbox at once, each   *)
(* from the copy of the file it loaded.  They suspend in emit: for room in *)
(* the queue and for the acknowledgement, which may be late, or may never  *)
(* come although the event is durable.  An event is the number of its      *)
(* place in the outbox, which also is its idempotency key.                 *)
(*                                                                         *)
(* Left out: the other tasks' events in the same queue (they only delay),  *)
(* batching (an item that awaits an acknowledgement ends its batch), and   *)
(* the contents of an event.                                               *)
(***************************************************************************)
EXTENDS Integers, Sequences, SequencesExt

CONSTANTS
  Flushers,     \* coroutines that may flush the task's outbox
  Nobody,       \* the waiter of a queued item whose coroutine gave up
  MaxEvents,    \* bound on the events of the task
  MaxFaults     \* bound on failures, timeouts, cancellations and crashes

ASSUME PublisherAssumption ==
  /\ MaxEvents \in Nat
  /\ MaxFaults \in Nat
  /\ Nobody \notin Flushers

VARIABLES
  appended,     \* number of events in the outbox
  published,    \* those with a published_at
  queue,        \* the writer's queue, in memory
  log,          \* the durable audit log
  flusher,      \* where each coroutine is, and what it has left to publish
  auditOn,      \* whether this process was started with auditing enabled
  silenced,     \* events marked published by a process without auditing
  faults        \* faults so far

vars ==
  <<appended, published, queue, log, flusher, auditOn, silenced, faults>>

Events == 1..MaxEvents
Idle == [pc |-> "idle", todo |-> {}]
Broken == [pc |-> "broken", todo |-> {}]

Init ==
  /\ appended = 0
  /\ published = {}
  /\ queue = <<>>
  /\ log = <<>>
  /\ flusher = [f \in Flushers |-> Idle]
  /\ auditOn \in BOOLEAN
  /\ silenced = {}
  /\ faults = 0

Fault == faults < MaxFaults /\ faults' = faults + 1

\* The first of the pending events a coroutine has left.
First(S) == CHOOSE k \in S : \A j \in S : k <= j
Current(f) == First(flusher[f].todo)

-----------------------------------------------------------------------------

\* The store commits another event of the task; a flush may follow or not.
AppendEvent ==
  /\ appended < MaxEvents
  /\ appended' = appended + 1
  /\ UNCHANGED <<published, queue, log, flusher, auditOn, silenced, faults>>

\* flush_task loads the file: the coroutine works on this copy from now on.
Flush(f) ==
  LET pending == (1..appended) \ published IN
  /\ auditOn
  /\ flusher[f].pc \in {"idle", "broken"}
  /\ pending # {}
  /\ flusher' = [flusher EXCEPT ![f] = [pc |-> "ready", todo |-> pending]]
  /\ UNCHANGED <<appended, published, queue, log, auditOn, silenced, faults>>

\* Without an emitter, or with the disabled one, a flush never suspends.  It writes
\* the file once for each event, in order, and the process may die, or a write fail,
\* after any of them.
FlushSilently ==
  /\ ~auditOn
  /\ \E k \in (1..appended) \ published :
       /\ published' = published \cup 1..k
       /\ silenced' = silenced \cup ((1..k) \ (published \cup ToSet(log)))
  /\ UNCHANGED <<appended, queue, log, flusher, auditOn, faults>>

\* emit: the event enters the writer's queue and the coroutine waits.
Submit(f) ==
  /\ flusher[f].pc = "ready"
  /\ queue' = Append(queue, [event |-> Current(f), waiter |-> f])
  /\ flusher' = [flusher EXCEPT ![f].pc = "waiting"]
  /\ UNCHANGED <<appended, published, log, auditOn, silenced, faults>>

\* Mutant of Abandoned: the loop continues with the next event instead of
\* breaking off.
AbandonedOnlyThis(f) ==
  IF Cardinality(flusher[f].todo) = 1 THEN Broken
  ELSE [pc |-> "ready", todo |-> flusher[f].todo \ {Current(f)}]
\* The flush breaks off: emit reported neither committed nor disabled, or the
\* coroutine was cancelled.
Abandoned(f) == Broken

\* The coroutine stops before its event is queued (no room in time, the writer
\* is closed), while it waits for the acknowledgement (which stays in the
\* queue: the future is shielded), or after it (cancellation).
GiveUp(f) ==
  /\ flusher[f].pc \in {"ready", "waiting", "acked"}
  /\ Fault
  /\ queue' = [i \in DOMAIN queue |->
                 IF queue[i].waiter = f THEN [queue[i] EXCEPT !.waiter = Nobody]
                                        ELSE queue[i]]
  /\ flusher' = [flusher EXCEPT ![f] = Abandoned(f)]
  /\ UNCHANGED <<appended, published, log, auditOn, silenced>>

\* Mutant of WriterCommit: the acknowledgement is never set.
WriterCommitUnacknowledged ==
  /\ queue # <<>>
  /\ log' = Append(log, Head(queue).event)
  /\ queue' = Tail(queue)
  /\ UNCHANGED <<appended, published, flusher, auditOn, silenced, faults>>

\* The writer makes the head of the queue durable and acknowledges it.
WriterCommit ==
  /\ queue # <<>>
  /\ log' = Append(log, Head(queue).event)
  /\ queue' = Tail(queue)
  /\ flusher' = [f \in Flushers |->
                   IF f = Head(queue).waiter
                   THEN [flusher[f] EXCEPT !.pc = "acked"] ELSE flusher[f]]
  /\ UNCHANGED <<appended, published, auditOn, silenced, faults>>

\* The epoch fails and the waiter gets an exception.  After an uncertain
\* catalog write the event may nevertheless have become durable.
WriterFail ==
  /\ queue # <<>>
  /\ Fault
  /\ \/ log' = log
     \/ log' = Append(log, Head(queue).event)
  /\ queue' = Tail(queue)
  /\ flusher' = [f \in Flushers |->
                   IF f = Head(queue).waiter THEN Abandoned(f) ELSE flusher[f]]
  /\ UNCHANGED <<appended, published, auditOn, silenced>>

\* mark_outbox_published works on the file, not on the copy, and leaves an
\* event another coroutine has marked alone.
MarkPublished(f) ==
  LET left == flusher[f].todo \ {Current(f)} IN
  /\ flusher[f].pc = "acked"
  /\ published' = published \cup {Current(f)}
  /\ flusher' = [flusher EXCEPT ![f] =
                   IF left = {} THEN Idle ELSE [pc |-> "ready", todo |-> left]]
  /\ UNCHANGED <<appended, queue, log, auditOn, silenced, faults>>

\* The process dies; the next one may be configured with or without auditing.
Crash ==
  /\ Fault
  /\ queue' = <<>>
  /\ flusher' = [f \in Flushers |-> Broken]
  /\ auditOn' \in BOOLEAN
  /\ UNCHANGED <<appended, published, log, silenced>>

Next ==
  \/ AppendEvent
  \/ FlushSilently
  \/ \E f \in Flushers :
       Flush(f) \/ Submit(f) \/ GiveUp(f) \/ MarkPublished(f)
  \/ WriterCommit
  \/ WriterFail
  \/ Crash

Spec == Init /\ [][Next]_vars

\* The event loop runs every coroutine that can continue; whether anyone
\* flushes, and whether anything fails, is left open.
Fairness ==
  /\ WF_vars(WriterCommit)
  /\ \A f \in Flushers : WF_vars(Submit(f) \/ MarkPublished(f))

FairSpec == Spec /\ Fairness

-----------------------------------------------------------------------------
(* Properties *)

TypeOK ==
  /\ appended \in 0..MaxEvents
  /\ published \subseteq 1..appended
  /\ queue \in Seq([event : 1..appended, waiter : Flushers \cup {Nobody}])
  /\ log \in Seq(1..appended)
  /\ flusher \in [Flushers -> [pc : {"idle", "broken", "ready", "waiting", "acked"},
                               todo : SUBSET (1..appended)]]
  /\ auditOn \in BOOLEAN
  /\ silenced \subseteq 1..appended
  /\ faults \in 0..MaxFaults

\* An event is marked published only when it is durable in the audit log, or
\* when the process that marked it ran without auditing: no timeout, failure
\* or concurrent flush makes the outbox forget an event the log never got.
PublishedIsLogged == published \subseteq ToSet(log) \cup silenced

\* Events are published in order: a flush that fails in the middle leaves no
\* hole behind, however many others work on older or newer copies.
PublishedInOrder == \A k \in published : 1..k \subseteq published

\* The reader of the log (audit/graph.py) drops an event whose idempotency key
\* it has seen.  What is left contains every event once and in order.
Firsts(s) == {i \in DOMAIN s : \A j \in 1..(i - 1) : s[j] # s[i]}
Upto(s, i) == Cardinality({j \in Firsts(s) : j <= i})
DropRepeats(s) ==
  [n \in 1..Cardinality(Firsts(s)) |-> s[CHOOSE i \in Firsts(s) : Upto(s, i) = n]]
Trail == DropRepeats(log)
AuditTrail == INSTANCE AuditTrail
  WITH happened <- appended, trail <- Trail, waived <- silenced
TrailIsExact == AuditTrail!Spec

\* A flush publishes everything its copy had pending unless a fault hits it:
\* two flushes of the same events do not leave each other waiting.
FlushCompletes ==
  \A f \in Flushers : \A k \in Events :
    k \in flusher[f].todo ~> (k \in published \/ flusher[f].pc = "broken")
=============================================================================

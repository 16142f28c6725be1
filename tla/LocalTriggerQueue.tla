------------------------- MODULE LocalTriggerQueue -------------------------
(***************************************************************************)
(* The durable queue of local triggers: LocalTriggerStore of                *)
(* nanobot/triggers/local_store.py and the delivery loop of                 *)
(* nanobot/triggers/local_runner.py.  A delivery is one file, named once    *)
(* and for all, in the directory inbox, processing or failed.  Any process  *)
(* may add one; the gateway claims a batch, submits its deliveries one after *)
(* the other as turns of their sessions and waits for each turn to end.     *)
(* What a turn is, and how it ends, is said in AutomationTurns.             *)
(***************************************************************************)
EXTENDS Naturals, Sequences, FiniteSets

CONSTANTS
  Delivery,
  Absent,        \* no such file
  BatchSize,     \* deliveries claimed at once (20)
  MaxAttempts,   \* _MAX_DELIVERY_ATTEMPTS (10)
  Shut,          \* the deliveries whose channel is not enabled
  Budget         \* bound on edits, faults, crashes and other messages together

ASSUME QueueAssumption ==
  /\ BatchSize \in Nat \ {0} /\ MaxAttempts \in Nat \ {0}
  /\ Absent \notin Nat /\ IsFiniteSet(Delivery) /\ Shut \subseteq Delivery
  /\ Budget \in Nat

VARIABLES
  made,         \* the place of each delivery in the order of their names, or Absent
  inbox, processing, failed,   \* the attempts written in the file, or Absent
  trigger,      \* of each delivery: is its trigger "on", "off" or "gone"?
  up,           \* is the gateway running?
  batch,        \* what the loop claimed and has not finished
  attempts,     \* of what it claimed, as read from the file
  submitted,    \* is the first of them submitted as a turn?
  refused,      \* deliveries dropped: their trigger off or gone, or no channel for them
  spent, crashes, faults   \* how much of the bounds is used

files == <<inbox, processing, failed>>
runner == <<batch, attempts, submitted>>
queueVars == <<made, files, trigger, up, runner, refused, spent, crashes, faults>>

NoFiles == [d \in Delivery |-> Absent]
Files(dir) == {d \in Delivery : dir[d] # Absent}
OnDisk == Files(inbox) \cup Files(processing) \cup Files(failed)

QueueInit ==
  /\ made = NoFiles
  /\ inbox = NoFiles /\ processing = NoFiles /\ failed = NoFiles
  /\ trigger = [d \in Delivery |-> "on"]
  /\ up = FALSE /\ batch = <<>> /\ submitted = FALSE
  /\ attempts = [d \in Delivery |-> 0]
  /\ refused = {} /\ spent = 0 /\ crashes = 0 /\ faults = 0

Spend == spent < Budget /\ spent' = spent + 1
Fault == Spend /\ faults' = faults + 1
First == Head(batch)
-----------------------------------------------------------------------------
(* Other processes, and the web UI. *)

\* enqueue.
Enqueue(d) ==
  /\ made[d] = Absent /\ trigger[d] = "on"
  /\ made' = [made EXCEPT ![d] = Cardinality(Files(made))]
  /\ inbox' = [inbox EXCEPT ![d] = 0]
  /\ UNCHANGED <<processing, failed, trigger, up, runner, refused, spent, crashes, faults>>

\* enable.
Enable(d, on) ==
  /\ trigger[d] = (IF on THEN "off" ELSE "on") /\ Spend
  /\ trigger' = [trigger EXCEPT ![d] = IF on THEN "on" ELSE "off"]
  /\ UNCHANGED <<made, files, up, runner, refused, crashes, faults>>

\* delete takes the files of the trigger from every directory.
Delete(d) ==
  /\ trigger[d] # "gone" /\ Spend
  /\ trigger' = [trigger EXCEPT ![d] = "gone"]
  /\ inbox' = [inbox EXCEPT ![d] = Absent]
  /\ processing' = [processing EXCEPT ![d] = Absent]
  /\ failed' = [failed EXCEPT ![d] = Absent]
  /\ UNCHANGED <<made, up, runner, refused, crashes, faults>>
-----------------------------------------------------------------------------
(* The store, for the gateway. *)

\* claim_deliveries takes the oldest names first, n of them are in q.
Oldest(q, n) ==
  /\ \A i, j \in 1 .. n : i < j => made[q[i]] < made[q[j]]
  /\ \A d \in Files(inbox) :
       (\E i \in 1 .. n : q[i] = d) \/ (\A i \in 1 .. n : made[q[i]] < made[d])

Take(set) ==
  /\ processing' = [d \in Delivery |-> IF d \in set THEN inbox[d] ELSE processing[d]]
  /\ inbox' = [d \in Delivery |-> IF d \in set THEN Absent ELSE inbox[d]]

Claim ==
  /\ up /\ batch = <<>> /\ Files(inbox) # {}
  /\ \E n \in 1 .. BatchSize : \E q \in [1 .. n -> Files(inbox)] :
       LET taken == {q[i] : i \in 1 .. n}
       IN /\ Oldest(q, n) /\ (n = BatchSize \/ n = Cardinality(Files(inbox)))
          /\ batch' = q /\ Take(taken)
          /\ attempts' = [d \in Delivery |-> IF d \in taken THEN inbox[d] ELSE attempts[d]]
  /\ UNCHANGED <<made, failed, trigger, up, submitted, refused, spent, crashes, faults>>

\* _retry_delivery_unlocked of the deliveries in set, tried count times: the new
\* file is written, and then the old one unlinked.
Rewrite(set, count) ==
  /\ inbox' = [d \in Delivery |-> IF d \in set /\ count[d] + 1 < MaxAttempts
                                  THEN count[d] + 1 ELSE inbox[d]]
  /\ failed' = [d \in Delivery |-> IF d \in set /\ count[d] + 1 >= MaxAttempts
                                   THEN count[d] + 1 ELSE failed[d]]
Unlink(set) ==
  processing' = [d \in Delivery |-> IF d \in set THEN Absent ELSE processing[d]]
Retry(d) == Rewrite({d}, attempts) /\ Unlink({d})

\* Mutant of Boot: the files written back are left in processing.
BootWithoutUnlink ==
  /\ ~up /\ up' = TRUE
  /\ Rewrite(Files(processing), processing)
  /\ UNCHANGED <<made, processing, trigger, runner, refused, spent, crashes, faults>>

\* recover_processing_deliveries, when the gateway starts.
Boot ==
  /\ ~up /\ up' = TRUE
  /\ Rewrite(Files(processing), processing) /\ Unlink(Files(processing))
  /\ UNCHANGED <<made, trigger, runner, refused, spent, crashes, faults>>
-----------------------------------------------------------------------------
(* The delivery loop. *)

Advance == batch' = Tail(batch) /\ submitted' = FALSE /\ UNCHANGED attempts

Deliverable(d) == trigger[d] = "on" /\ d \notin Shut

\* _TerminalDeliveryError.
Refuse ==
  /\ up /\ batch # <<>> /\ ~submitted /\ ~Deliverable(First)
  /\ refused' = refused \cup {First}
  /\ Unlink({First}) /\ Advance
  /\ UNCHANGED <<made, inbox, failed, trigger, up, spent, crashes, faults>>

Submit ==
  /\ up /\ batch # <<>> /\ ~submitted /\ Deliverable(First)
  /\ submitted' = TRUE
  /\ UNCHANGED <<made, files, trigger, up, batch, attempts, refused, spent, crashes, faults>>

\* The turn has ended: complete_delivery.
Complete ==
  /\ up /\ submitted
  /\ Unlink({First}) /\ Advance
  /\ UNCHANGED <<made, inbox, failed, trigger, up, refused, spent, crashes, faults>>

\* Another exception: before the turn, or while its success is recorded.
Fails ==
  /\ up /\ batch # <<>> /\ Fault
  /\ Retry(First) /\ Advance
  /\ UNCHANGED <<made, trigger, up, refused, crashes>>

Ends == up' = FALSE /\ batch' = <<>> /\ submitted' = FALSE /\ UNCHANGED attempts

\* The gateway is told to stop: the loop is cancelled, and retries the delivery
\* whose turn it waits for.
Shutdown ==
  /\ up /\ Spend /\ crashes' = crashes + 1
  /\ IF submitted THEN Retry(First) ELSE UNCHANGED files
  /\ Ends /\ UNCHANGED <<made, trigger, refused, faults>>

\* The process dies, or record_delivery raises in a handler of the loop, which ends
\* the gateway as well.
Crash ==
  /\ up /\ Spend /\ crashes' = crashes + 1
  /\ Ends /\ UNCHANGED <<made, files, trigger, refused, faults>>

\* It dies between two of the files it claims, each moved by a rename of its own.
CrashInClaim ==
  /\ up /\ batch = <<>> /\ Spend /\ crashes' = crashes + 1
  /\ \E n \in 1 .. BatchSize - 1 : \E q \in [1 .. n -> Files(inbox)] :
       Oldest(q, n) /\ Take({q[i] : i \in 1 .. n})
  /\ Ends /\ UNCHANGED <<made, failed, trigger, refused, faults>>

\* Mutant of CrashInRetry: the file is unlinked before the new one is written.
CrashInRetryUnlinked ==
  /\ up /\ batch # <<>> /\ Spend /\ crashes' = crashes + 1
  /\ Unlink({First})
  /\ Ends /\ UNCHANGED <<made, inbox, failed, trigger, refused, faults>>

\* It dies between the two halves of a retry.
CrashInRetry ==
  /\ up /\ batch # <<>> /\ Spend /\ crashes' = crashes + 1
  /\ Rewrite({First}, attempts)
  /\ Ends /\ UNCHANGED <<made, processing, trigger, refused, faults>>

\* It dies again while it starts, with one file of processing written back but not
\* unlinked.
CrashInBoot ==
  /\ ~up /\ \E d \in Files(processing) : Rewrite({d}, processing)
  /\ UNCHANGED <<made, processing, trigger, up, runner, refused, spent, crashes, faults>>
=============================================================================

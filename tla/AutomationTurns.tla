-------------------------- MODULE AutomationTurns --------------------------
(***************************************************************************)
(* Automation turns in the agent loop: AutomationTurnCoordinator of         *)
(* nanobot/agent/automation_turns.py with the router, the dispatches and    *)
(* /stop of nanobot/agent/loop.py, for the deliveries of LocalTriggerQueue, *)
(* the runs of bound cron jobs (CronService starts them and may give them   *)
(* up) and the messages of users.                                           *)
(*                                                                         *)
(* A message becomes a dispatch, a task that waits for the lock of its      *)
(* session, then for a place among the concurrent turns, and runs its turn. *)
(* While the session has a turn, automations are deferred and users'        *)
(* messages injected.  What a turn does is in ResultDelivery; here it ends, *)
(* well or not.  Steps of the event loop without an await in between are    *)
(* one action.                                                              *)
(***************************************************************************)
EXTENDS LocalTriggerQueue, SequencesExt

CONSTANTS
  CronRun, User,    \* messages
  Command,          \* those that are a priority command: /stop, /restart, /status
  Session, NoOne,
  SessionOf,        \* the session of each message
  Turns,            \* NANOBOT_MAX_CONCURRENT_REQUESTS
  MaxStops          \* bound on /stop

Automation == Delivery \cup CronRun
Message == Automation \cup User

ASSUME TurnsAssumption ==
  /\ SessionOf \in [Message -> Session]
  /\ Turns \in Nat \ {0} /\ MaxStops \in Nat
  /\ NoOne \notin Message
  /\ Automation \cap User = {} /\ Delivery \cap CronRun = {}
  /\ Command \subseteq Delivery \cup User

VARIABLES
  bus,        \* the inbound queue
  line,       \* for each session the dispatches that wait for its lock
  fresh,      \* how many of them, the last ones, have not begun to run
  holder,     \* whose dispatch holds the lock
  gate,       \* the sessions whose holder waits for a place, in their order
  injected,   \* the queue of the running turn
  deferred,   \* _deferred_automation_turns
  waiting,    \* _waiters: the automations whose submitter waits
  answer,     \* what complete() set: "none", "ok" or "error"
  sent,       \* cron runs and users' messages sent so far
  stops,
  begun,      \* how many turns each delivery began
  ended,      \* the automations whose turn ended
  cut,        \* automations that get no turn: stopped before it, or commands
  bereft      \* sessions of which /stop took a task that had not begun

loop == <<bus, line, fresh, holder, gate, injected, deferred>>
waiters == <<waiting, answer>>
records == <<begun, ended, cut, bereft>>
turnVars == <<loop, waiters, sent, stops, records>>
vars == <<queueVars, turnVars>>

Waits(s) == \E i \in DOMAIN gate : gate[i] = s
InTurn(s) == holder[s] # NoOne /\ ~Waits(s)
Running == {s \in Session : InTurn(s)}
-----------------------------------------------------------------------------
NoLoop ==
  /\ bus = <<>> /\ gate = <<>>
  /\ line = [s \in Session |-> <<>>] /\ fresh = [s \in Session |-> 0]
  /\ holder = [s \in Session |-> NoOne]
  /\ injected = [s \in Session |-> <<>>] /\ deferred = [s \in Session |-> <<>>]
  /\ waiting = {} /\ answer = [m \in Automation |-> "none"]

Init ==
  /\ QueueInit /\ NoLoop
  /\ sent = {} /\ stops = 0
  /\ begun = [d \in Delivery |-> 0] /\ ended = {} /\ cut = {} /\ bereft = {}

\* What is in memory goes with the process.
LoopEnds ==
  /\ bus' = <<>> /\ gate' = <<>>
  /\ line' = [s \in Session |-> <<>>] /\ fresh' = [s \in Session |-> 0]
  /\ holder' = [s \in Session |-> NoOne]
  /\ injected' = [s \in Session |-> <<>>] /\ deferred' = [s \in Session |-> <<>>]
  /\ waiting' = {} /\ answer' = [m \in Automation |-> "none"]
  /\ bereft' = {} /\ cut' = {}
-----------------------------------------------------------------------------
(* The submitters. *)

Send(m) ==
  /\ up /\ m \notin sent /\ sent' = sent \cup {m} /\ Spend
  /\ UNCHANGED <<made, files, trigger, up, runner, refused, crashes, faults>>

\* AutomationTurnCoordinator.submit, up to its wait.
Submitted(m) ==
  /\ waiting' = waiting \cup {m}
  /\ answer' = [answer EXCEPT ![m] = "none"]
  /\ bus' = Append(bus, m)
  /\ UNCHANGED <<line, fresh, holder, gate, injected, deferred, stops, records>>

\* Its end: answered, or cancelled.  The message is not called back.
Leaves(m) ==
  /\ waiting' = waiting \ {m}
  /\ UNCHANGED <<loop, answer, sent, stops, records>>

SubmitDelivery == Submit /\ Submitted(First) /\ UNCHANGED sent

\* Mutant of Done: a failed turn is retried like any other exception.
DoneOrRetried ==
  /\ submitted /\ answer[First] # "none" /\ Leaves(First)
  /\ IF answer[First] = "ok" THEN Complete
     ELSE /\ Retry(First) /\ Advance
          /\ UNCHANGED <<made, trigger, up, refused, spent, crashes, faults>>

\* Mutant of Done: a failed turn ends the loop.
DoneIfOk == Complete /\ answer[First] = "ok" /\ Leaves(First)

Done == Complete /\ answer[First] # "none" /\ Leaves(First)

\* It could not be submitted, or the success of its turn not be recorded.
DeliveryFails == Fails /\ (submitted => answer[First] = "ok") /\ Leaves(First)

\* run_bound_cron_job.
SubmitCron(c) == Send(c) /\ Submitted(c)

CronDone(c) == c \in waiting /\ answer[c] # "none" /\ Leaves(c) /\ UNCHANGED queueVars

\* The timer that runs the job was cancelled (Arm of CronService).
GiveUp(c) == c \in waiting /\ Leaves(c) /\ UNCHANGED queueVars

Write(u) ==
  /\ Send(u)
  /\ bus' = Append(bus, u)
  /\ UNCHANGED <<line, fresh, holder, gate, injected, deferred, waiters, stops, records>>
-----------------------------------------------------------------------------
(* The router and the dispatches. *)

\* A session is active while its turn has a queue (_pending_queues).
Route ==
  /\ bus # <<>> /\ Head(bus) \notin Command /\ bus' = Tail(bus)
  /\ LET m == Head(bus)
         s == SessionOf[m]
     IN \/ /\ InTurn(s) /\ m \in Automation
           /\ deferred' = [deferred EXCEPT ![s] = Append(@, m)]
           /\ UNCHANGED <<line, fresh, injected>>
        \/ /\ InTurn(s) /\ m \in User
           /\ injected' = [injected EXCEPT ![s] = Append(@, m)]
           /\ UNCHANGED <<line, fresh, deferred>>
        \/ /\ ~InTurn(s)
           /\ line' = [line EXCEPT ![s] = Append(@, m)]
           /\ fresh' = [fresh EXCEPT ![s] = @ + 1]
           /\ UNCHANGED <<injected, deferred>>
  /\ UNCHANGED <<holder, gate, waiters, sent, stops, records, queueVars>>

\* The tasks of new dispatches get their first step.
Begin(s) ==
  /\ fresh[s] > 0 /\ fresh' = [fresh EXCEPT ![s] = 0]
  /\ UNCHANGED <<bus, line, holder, gate, injected, deferred, waiters, sent, stops,
                 records, queueVars>>

Lock(s) ==
  /\ holder[s] = NoOne /\ Len(line[s]) > fresh[s]
  /\ holder' = [holder EXCEPT ![s] = Head(line[s])]
  /\ line' = [line EXCEPT ![s] = Tail(@)]
  /\ gate' = Append(gate, s)
  /\ UNCHANGED <<bus, fresh, injected, deferred, waiters, sent, stops, records, queueVars>>

Enter ==
  /\ gate # <<>> /\ Cardinality(Running) < Turns
  /\ gate' = Tail(gate)
  /\ LET m == holder[Head(gate)]
     IN begun' = IF m \in Delivery THEN [begun EXCEPT ![m] = @ + 1] ELSE begun
  /\ UNCHANGED <<bus, line, fresh, holder, injected, deferred, waiters, sent, stops,
                 ended, cut, bereft, queueVars>>

\* Mutant of Answered: only a turn that ended well answers its submitter.
AnsweredIfOk(m, how) ==
  /\ ended' = ended \cup ({m} \cap Automation)
  /\ answer' = IF m \in waiting /\ how = "ok" THEN [answer EXCEPT ![m] = how] ELSE answer

\* complete.
Answered(m, how) ==
  /\ ended' = ended \cup ({m} \cap Automation)
  /\ answer' = IF m \in waiting /\ answer[m] = "none"
               THEN [answer EXCEPT ![m] = how] ELSE answer

\* Mutant of Published: what the turn left is published, the deferred automation not.
PublishedLeftOnly(queue, s, left, n) ==
  /\ bus' = queue \o left /\ UNCHANGED deferred
  /\ injected' = [injected EXCEPT ![s] = <<>>]

\* What the end of n dispatches of the session brings back to the bus, which holds
\* queue: what the turn did not drain, and for each dispatch one deferred automation.
Published(queue, s, left, n) ==
  /\ bus' = queue \o left \o SubSeq(deferred[s], 1, n)
  /\ deferred' = [deferred EXCEPT ![s] = SubSeq(@, n + 1, Len(@))]
  /\ injected' = [injected EXCEPT ![s] = <<>>]

AtMost(n, s) == IF n < Len(deferred[s]) THEN n ELSE Len(deferred[s])

EndTurn(s) ==
  /\ InTurn(s)
  /\ \E how \in {"ok", "error"} : Answered(holder[s], how)
  /\ \E left \in {<<>>, injected[s]} : Published(bus, s, left, AtMost(1, s))
  /\ holder' = [holder EXCEPT ![s] = NoOne]
  /\ UNCHANGED <<line, fresh, gate, waiting, sent, stops, begun, cut, bereft, queueVars>>

\* cmd_stop cancels the dispatches of the session.  Only a turn answers its waiter; a
\* dispatch that has not begun to run does not even publish a deferred automation.
\* queue is what the bus holds, taken the command taken from it, if it was there.
Cancelled(s, queue, taken) ==
  /\ LET held == IF holder[s] = NoOne THEN {} ELSE {holder[s]}
         n == Cardinality(held) + Len(line[s]) - fresh[s]
         unbegun == ToSet(line[s]) \cup (IF InTurn(s) THEN {} ELSE held)
     IN /\ IF InTurn(s) THEN Answered(holder[s], "error") ELSE UNCHANGED <<ended, answer>>
        /\ cut' = cut \cup ((taken \cup unbegun) \cap Automation)
        /\ Published(queue, s, injected[s], AtMost(n, s))
  /\ bereft' = IF fresh[s] > 0 THEN bereft \cup {s} ELSE bereft
  /\ line' = [line EXCEPT ![s] = <<>>] /\ fresh' = [fresh EXCEPT ![s] = 0]
  /\ holder' = [holder EXCEPT ![s] = NoOne]
  /\ gate' = IF Waits(s) THEN RemoveAt(gate, CHOOSE i \in DOMAIN gate : gate[i] = s)
           ELSE gate
  /\ UNCHANGED <<waiting, sent, begun, queueVars>>

\* A user's /stop, at any time.
Stop(s) ==
  /\ up /\ stops < MaxStops /\ stops' = stops + 1
  /\ holder[s] # NoOne \/ line[s] # <<>>
  /\ Cancelled(s, bus, {})

\* _dispatch_command_inline: a priority command is carried out by the router, before
\* anything is deferred or dispatched; it gets no turn, so its submitter no answer.
\* The first disjunct is /status, or /restart, which is a Crash to come; the second
\* is /stop.
Inline ==
  /\ bus # <<>> /\ Head(bus) \in Command
  /\ LET m == Head(bus)
     IN \/ /\ bus' = Tail(bus) /\ cut' = cut \cup ({m} \cap Automation)
           /\ UNCHANGED <<line, fresh, holder, gate, injected, deferred, waiters, sent,
                          begun, ended, bereft, queueVars>>
        \/ Cancelled(SessionOf[m], Tail(bus), {m})
  /\ UNCHANGED stops
-----------------------------------------------------------------------------
Next ==
  \/ /\ \/ \E d \in Delivery : Enqueue(d) \/ Delete(d) \/ \E on \in BOOLEAN : Enable(d, on)
        \/ CrashInBoot \/ Boot \/ Claim \/ Refuse
     /\ UNCHANGED turnVars
  \/ SubmitDelivery \/ Done \/ DeliveryFails
  \/ \E c \in CronRun : SubmitCron(c) \/ CronDone(c) \/ GiveUp(c)
  \/ \E u \in User : Write(u)
  \/ Route \/ Inline \/ Enter
  \/ \E s \in Session : Begin(s) \/ Lock(s) \/ EndTurn(s) \/ Stop(s)
  \/ /\ Shutdown \/ Crash \/ CrashInClaim \/ CrashInRetry
     /\ LoopEnds /\ UNCHANGED <<sent, stops, begun, ended>>

Spec == Init /\ [][Next]_vars

\* The event loop runs what is ready, turns end, and the delivery loop goes on.
Fairness ==
  /\ WF_vars(Route) /\ WF_vars(Inline) /\ WF_vars(Enter)
  /\ \A s \in Session : WF_vars(Begin(s)) /\ WF_vars(Lock(s)) /\ WF_vars(EndTurn(s))
  /\ WF_vars(Claim /\ UNCHANGED turnVars)
  /\ WF_vars((Refuse /\ UNCHANGED turnVars) \/ SubmitDelivery \/ Done)
  /\ \A c \in CronRun : WF_vars(CronDone(c))

FairSpec == Spec /\ Fairness
-----------------------------------------------------------------------------
Attempt == (0 .. MaxAttempts) \cup {Absent}

TypeOK ==
  /\ made \in [Delivery -> Nat \cup {Absent}]
  /\ inbox \in [Delivery -> Attempt] /\ processing \in [Delivery -> Attempt]
  /\ failed \in [Delivery -> Attempt]
  /\ batch \in Seq(Delivery) /\ (submitted => batch # <<>>)
  /\ bus \in Seq(Message) /\ gate \in Seq(Session)
  /\ line \in [Session -> Seq(Message)] /\ deferred \in [Session -> Seq(Automation)]
  /\ holder \in [Session -> Message \cup {NoOne}] /\ injected \in [Session -> Seq(User)]
  /\ waiting \subseteq Automation /\ answer \in [Automation -> {"none", "ok", "error"}]

\* A delivery that was enqueued is in a file until its turn has ended, its trigger
\* was found off or gone or its channel not enabled, or its trigger was deleted:
\* across claims, retries, crashes and restarts.
AtLeastOnce ==
  \A d \in Files(made) : d \in OnDisk \/ d \in ended \cup refused \/ trigger[d] = "gone"

\* While the gateway runs a delivery is in one directory, also after a crash that
\* left it in two.
OneCopy ==
  up => /\ Files(inbox) \cap Files(processing) = {}
        /\ Files(failed) \cap (Files(inbox) \cup Files(processing)) = {}

\* Every turn of a delivery but the first is owed to a stop or a crash of the gateway
\* or to a fault of its disk: /stop, a deferral and a failed turn repeat nothing.
NoNeedlessTurn == \A d \in Delivery : begun[d] <= 1 + crashes + faults

\* A deferred automation is never forgotten: something of its session is still to end
\* and will publish it (unless /stop took a task before its first step).
DeferredHasHost ==
  \A s \in Session : deferred[s] # <<>> =>
    \/ holder[s] # NoOne \/ line[s] # <<>> \/ s \in bereft
    \/ \E i \in DOMAIN bus : SessionOf[bus[i]] = s /\ bus[i] \notin Command

\* An automation that /stop left deferred, with nothing to come that publishes it.
Stranded(m) ==
  LET s == SessionOf[m]
  IN /\ s \in bereft /\ m \in ToSet(deferred[s])
     /\ holder[s] = NoOne /\ line[s] = <<>>

\* Whoever submitted an automation gets an answer, but for three cases, in which its
\* timer, or the delivery loop, waits for good: /stop took it before its turn began,
\* /stop left it deferred, or what it says is a priority command.
AnswerComes ==
  \A m \in Automation : m \in waiting ~> (m \notin waiting \/ m \in cut \/ Stranded(m))

\* A delivery in the inbox is taken up, unless the loop waits for an answer that
\* does not come: in the three cases of AnswerComes, for the delivery it submitted.
QueueMoves ==
  \A d \in Delivery :
    (up /\ d \in Files(inbox)) ~>
      \/ d \notin Files(inbox) \/ ~up
      \/ submitted /\ (First \in cut \/ Stranded(First))
=============================================================================

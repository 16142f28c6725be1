---------------------------- MODULE ResultDelivery ----------------------------
(***************************************************************************)
(* How the messages of one session, of its users and of its children, reach *)
(* the conversation: AgentLoop of nanobot/agent/loop.py with the injections *)
(* of nanobot/agent/runner.py and /stop of nanobot/command/builtin.py.      *)
(*                                                                         *)
(* The router takes messages from the bus.  While a turn of the session is  *)
(* running they go to the queue of that turn, from where the runner drains  *)
(* them between two steps of the model; otherwise each becomes a dispatch   *)
(* that waits for the session lock.  Turns are identified by the message    *)
(* that opened them.  The history and the checkpoint are in the session's   *)
(* file, the delivery phases in the task store.                             *)
(*                                                                         *)
(* Audit is on, so that the places of a turn are awaits that suspend; a     *)
(* gateway without audit has fewer interleavings.  Left out: the completion *)
(* guard and the claims of the goal (GoalOrchestration), commands other     *)
(* than /stop, automation turns, continuations, ephemeral turns, merging of *)
(* neighbouring user messages, and a cancellation that a runner swallows.   *)
(***************************************************************************)
EXTENDS SequencesExt

CONSTANTS
  User,         \* messages of the user
  Result,       \* results of the session's children
  NoOne,
  QueueSize,    \* size of a turn's queue (20)
  DrainLimit,   \* _MAX_INJECTIONS_PER_TURN (3)
  MaxCycles,    \* _MAX_INJECTION_CYCLES (5)
  MaxRounds,    \* max_iterations
  MaxStops, MaxCrashes, MaxFaults   \* bounds on what the environment does

ASSUME DeliveryAssumption ==
  /\ User \cap Result = {} /\ NoOne \notin User \cup Result
  /\ {QueueSize, DrainLimit, MaxCycles, MaxRounds} \subseteq Nat \ {0}
  /\ {MaxStops, MaxCrashes, MaxFaults} \subseteq Nat
  \* No message is one of the rounds below.
  /\ (User \cup Result)
       \cap [turn : User \cup Result, round : 1..(MaxRounds + 1)] = {}

VARIABLES
  sent,        \* the messages that were put on the bus
  bus,         \* the inbound queue
  line,        \* the dispatches waiting for the session lock
  lock,        \* the message whose dispatch holds it
  routed,      \* whose queue _pending_queues has for the session
  pending,     \* that queue
  turn,        \* the turn of the lock's holder
  history,     \* the messages of the session
  checkpoint,  \* the last step of the unfinished turn, if any
  phase,       \* delivery phase of each result
  child,       \* where the child of each result is
  stopping,    \* is the router busy with /stop?
  dropped,     \* messages lost to /stop, a crash or a failing disk
  stops, crashes, faults

mailVars == <<sent, bus, line, lock, routed, pending>>
fileVars == <<history, checkpoint, phase>>
boundVars == <<stops, crashes, faults>>
vars == <<mailVars, turn, fileVars, child, stopping, dropped, boundVars>>

Message == User \cup Result
\* What one round of the model adds to the conversation: an assistant message
\* with its tool results.
Work == [turn : Message, round : 1..(MaxRounds + 1)]

NoTurn == [place |-> "none", purpose |-> "none", item |-> NoOne,
           rounds |-> 0, cycles |-> 0, batch |-> <<>>, memory |-> <<>>]

Places == {"none", "starting", "restored", "claiming", "noting", "confirming",
           "running", "calling", "draining", "blocked", "drained", "saving",
           "ending", "leaving"}
\* Where CancelledError ends the turn.
Suspended == {"starting", "restored", "claiming", "noting", "confirming",
              "running", "calling", "blocked", "saving"}
\* The turn's coroutine is between two awaits: no other coroutine can step.
Busy == turn.place \in {"draining", "drained"}

Init ==
  /\ sent = {} /\ bus = <<>> /\ line = <<>>
  /\ lock = NoOne /\ routed = NoOne /\ pending = <<>>
  /\ turn = NoTurn
  /\ history = <<>> /\ checkpoint = <<>>
  /\ phase = [r \in Result |-> "none"]
  /\ child = [r \in Result |-> "running"]
  /\ stopping = FALSE /\ dropped = {}
  /\ stops = 0 /\ crashes = 0 /\ faults = 0

-----------------------------------------------------------------------------
(* Channels and children. *)

\* A channel publishes what the user wrote.
Write(u) ==
  /\ ~Busy /\ u \notin sent
  /\ sent' = sent \cup {u}
  /\ bus' = Append(bus, u)
  /\ UNCHANGED <<line, lock, routed, pending, turn, fileVars, child, stopping,
                 dropped, boundVars>>

\* _announce_result: mark_result_ready, the flush, the message.
Ready(r) ==
  /\ ~Busy /\ child[r] = "running"
  /\ phase' = [phase EXCEPT ![r] = "ready"]
  /\ child' = [child EXCEPT ![r] = "announcing"]
  /\ UNCHANGED <<mailVars, turn, history, checkpoint, stopping, dropped, boundVars>>

Announce(r) ==
  /\ ~Busy /\ child[r] = "announcing"
  /\ sent' = sent \cup {r}
  /\ bus' = Append(bus, r)
  /\ child' = [child EXCEPT ![r] = "gone"]
  /\ UNCHANGED <<line, lock, routed, pending, turn, fileVars, stopping, dropped,
                 boundVars>>

-----------------------------------------------------------------------------
(* The router and the dispatches. *)

Queued == routed # NoOne /\ Len(pending) < QueueSize

Route ==
  /\ ~Busy /\ ~stopping /\ bus # <<>>
  /\ bus' = Tail(bus)
  /\ IF Queued
     THEN /\ pending' = Append(pending, Head(bus))
          /\ UNCHANGED line
     ELSE /\ line' = Append(line, Head(bus))
          /\ UNCHANGED pending
  /\ UNCHANGED <<sent, lock, routed, turn, fileVars, child, stopping, dropped,
                 boundVars>>

\* The lock is fair; its holder publishes a queue of its own.
Enter ==
  /\ lock = NoOne /\ line # <<>>
  /\ lock' = Head(line)
  /\ line' = Tail(line)
  /\ routed' = lock'
  /\ pending' = <<>>
  /\ turn' = [NoTurn EXCEPT !.place = "starting"]
  /\ UNCHANGED <<sent, bus, fileVars, child, stopping, dropped, boundVars>>

\* Mutant of Close: the queue stays published after its turn.
CloseForgetful ==
  /\ turn.place = "ending"
  /\ bus' = bus \o pending
  /\ pending' = <<>>
  /\ turn' = [turn EXCEPT !.place = "leaving"]
  /\ UNCHANGED <<sent, line, lock, routed, fileVars, child, stopping, dropped, boundVars>>
\* The finally clause: what the turn did not drain is published again.
Close ==
  /\ turn.place = "ending"
  /\ bus' = bus \o pending
  /\ pending' = <<>> /\ routed' = NoOne
  /\ turn' = [turn EXCEPT !.place = "leaving"]
  /\ UNCHANGED <<sent, line, lock, fileVars, child, stopping, dropped, boundVars>>

Release ==
  /\ turn.place = "leaving"
  /\ lock' = NoOne
  /\ turn' = NoTurn
  /\ UNCHANGED <<sent, bus, line, routed, pending, fileVars, child, stopping,
                 dropped, boundVars>>

-----------------------------------------------------------------------------
(* A turn: restore and build. *)

\* _restore_runtime_checkpoint, with its overlap.
Restored ==
  IF checkpoint = <<>> \/ IsSuffix(checkpoint, history) THEN history
  ELSE history \o checkpoint

\* Mutant of Restore: the checkpoint of an interrupted turn stays where it is.
RestoreNothing ==
  /\ turn.place = "starting"
  /\ turn' = [turn EXCEPT !.place = "restored"]
  /\ UNCHANGED <<mailVars, fileVars, child, stopping, dropped, boundVars>>
Restore ==
  /\ turn.place = "starting"
  /\ history' = Restored /\ checkpoint' = <<>>
  /\ turn' = [turn EXCEPT !.place = "restored"]
  /\ UNCHANGED <<mailVars, phase, child, stopping, dropped, boundVars>>

\* A child announces its result once (ResultContract), so that the claim of a message
\* is never refused, and neither is the refusal modelled.
Claimable(r) == phase[r] \in {"ready", "failed"}

\* A user's message is saved before the model sees it.
BuildUser ==
  /\ turn.place = "restored" /\ lock \in User
  /\ history' = Append(history, lock)
  /\ turn' = [turn EXCEPT !.place = "running"]
  /\ UNCHANGED <<mailVars, checkpoint, phase, child, stopping, dropped, boundVars>>

\* Mutant of BuildResult: the delivery is recorded together with the claim.
BuildResultDelivered ==
  /\ turn.place = "restored" /\ lock \in Result /\ Claimable(lock)
  /\ phase' = [phase EXCEPT ![lock] = "delivered"]
  /\ turn' = [turn EXCEPT !.place = "claiming", !.purpose = "build", !.item = lock]
  /\ UNCHANGED <<mailVars, history, checkpoint, child, stopping, dropped, boundVars>>
BuildResult ==
  /\ turn.place = "restored" /\ lock \in Result /\ Claimable(lock)
  /\ phase' = [phase EXCEPT ![lock] = "claimed"]
  /\ turn' = [turn EXCEPT !.place = "claiming", !.purpose = "build", !.item = lock]
  /\ UNCHANGED <<mailVars, history, checkpoint, child, stopping, dropped, boundVars>>

\* The claimed result becomes a message: of the history for a turn of its own
\* (_persist_subagent_followup), of the batch for a drain.
Take ==
  /\ turn.place = "claiming"
  /\ IF turn.purpose = "build"
     THEN /\ history' = IF Contains(history, turn.item) THEN history
                        ELSE Append(history, turn.item)
          /\ turn' = [turn EXCEPT !.place = "noting"]
     ELSE /\ turn' = [turn EXCEPT !.place = "noting",
                                  !.batch = Append(@, turn.item)]
          /\ UNCHANGED history
  /\ UNCHANGED <<mailVars, checkpoint, phase, child, stopping, dropped, boundVars>>

AfterItem == IF turn.purpose = "build" THEN "running" ELSE "draining"

\* input_injected was recorded.
Noted ==
  /\ turn.place = "noting"
  /\ IF turn.item \in User
     THEN /\ turn' = [turn EXCEPT !.place = AfterItem, !.item = NoOne]
          /\ UNCHANGED phase
     ELSE /\ turn' = [turn EXCEPT !.place = "confirming"]
          /\ phase' = [phase EXCEPT ![turn.item] = "delivered"]
  /\ UNCHANGED <<mailVars, history, checkpoint, child, stopping, dropped, boundVars>>

Confirmed ==
  /\ turn.place = "confirming"
  /\ turn' = [turn EXCEPT !.place = AfterItem, !.item = NoOne]
  /\ UNCHANGED <<mailVars, fileVars, child, stopping, dropped, boundVars>>

-----------------------------------------------------------------------------
(* A turn: the rounds of the model, and the drains between them. *)

ThisRound == [turn |-> lock, round |-> turn.rounds + 1]
Drain == IF turn.cycles < MaxCycles THEN "draining" ELSE "drained"

\* The model calls tools: the assistant message is the checkpoint while they run,
\* and with their results afterwards.
CallTools ==
  /\ turn.place = "running" /\ turn.rounds < MaxRounds
  /\ checkpoint' = <<ThisRound>>
  /\ turn' = [turn EXCEPT !.memory = Append(@, ThisRound), !.rounds = @ + 1,
                          !.purpose = "tools", !.place = "calling"]
  /\ UNCHANGED <<mailVars, history, phase, child, stopping, dropped, boundVars>>

ToolsReturn ==
  /\ turn.place = "calling"
  /\ turn' = [turn EXCEPT !.place = Drain]
  /\ UNCHANGED <<mailVars, fileVars, child, stopping, dropped, boundVars>>

\* The model gives an answer, final unless something was waiting for it; or the
\* rounds are used up.
Answer ==
  /\ turn.place = "running"
  /\ turn' = [turn EXCEPT !.place = Drain,
                          !.purpose = IF turn.rounds < MaxRounds THEN "answer" ELSE "limit"]
  /\ UNCHANGED <<mailVars, fileVars, child, stopping, dropped, boundVars>>

ChildrenRun == \E r \in Result : child[r] # "gone"
DrainMore == pending # <<>> /\ Len(turn.batch) < DrainLimit

\* _append_injection of the next message.
Draw ==
  /\ turn.place \in {"draining", "blocked"} /\ DrainMore
  /\ LET m == Head(pending) IN
       /\ pending' = Tail(pending)
       /\ \/ /\ m \in User
             /\ turn' = [turn EXCEPT !.place = "noting", !.item = m,
                                     !.batch = Append(@, m)]
             /\ UNCHANGED phase
          \/ /\ m \in Result /\ Claimable(m)
             /\ turn' = [turn EXCEPT !.place = "claiming", !.item = m]
             /\ phase' = [phase EXCEPT ![m] = "claimed"]
  /\ UNCHANGED <<sent, bus, line, lock, routed, history, checkpoint, child, stopping,
                 dropped, boundVars>>

\* Nothing there yet, but children of the session are running.
Block ==
  /\ turn.place = "draining" /\ ~DrainMore
  /\ turn.batch = <<>> /\ ChildrenRun
  /\ turn' = [turn EXCEPT !.place = "blocked"]
  /\ UNCHANGED <<mailVars, fileVars, child, stopping, dropped, boundVars>>

DrainOver ==
  \/ turn.place = "draining" /\ ~DrainMore /\ (turn.batch # <<>> \/ ~ChildrenRun)
  \/ turn.place = "blocked"     \* after 300 seconds
  \/ turn.place = "drained"

\* _try_drain_injections goes on with the batch; at the limit the final answer
\* follows it.
Inject ==
  /\ DrainOver /\ turn.batch # <<>>
  /\ LET answer == IF turn.purpose = "answer" THEN <<ThisRound>> ELSE <<>>
         final  == IF turn.purpose = "limit" THEN <<ThisRound>> ELSE <<>>
     IN /\ turn' = [turn EXCEPT !.memory = @ \o answer \o turn.batch \o final,
                       !.batch = <<>>, !.rounds = @ + Len(answer), !.cycles = @ + 1,
                       !.place = IF turn.purpose = "limit" THEN "saving" ELSE "running"]
        /\ checkpoint' = IF answer = <<>> THEN checkpoint ELSE answer
  /\ UNCHANGED <<mailVars, history, phase, child, stopping, dropped, boundVars>>

GoOn ==
  /\ DrainOver /\ turn.batch = <<>> /\ turn.purpose = "tools"
  /\ turn' = [turn EXCEPT !.place = "running"]
  /\ UNCHANGED <<mailVars, fileVars, child, stopping, dropped, boundVars>>

\* The answer is final.
Finish ==
  /\ DrainOver /\ turn.batch = <<>> /\ turn.purpose # "tools"
  /\ turn' = [turn EXCEPT !.memory = Append(@, ThisRound), !.place = "saving"]
  /\ checkpoint' = IF turn.purpose = "answer" THEN <<ThisRound>> ELSE checkpoint
  /\ UNCHANGED <<mailVars, history, phase, child, stopping, dropped, boundVars>>

\* Mutant of Save: the checkpoint of the finished turn stays.
SaveKeepingCheckpoint ==
  /\ turn.place = "saving"
  /\ history' = history \o turn.memory
  /\ turn' = [turn EXCEPT !.memory = <<>>, !.place = "ending"]
  /\ UNCHANGED <<mailVars, checkpoint, phase, child, stopping, dropped, boundVars>>
\* _state_save.
Save ==
  /\ turn.place = "saving"
  /\ history' = history \o turn.memory
  /\ checkpoint' = <<>>
  /\ turn' = [turn EXCEPT !.memory = <<>>, !.place = "ending"]
  /\ UNCHANGED <<mailVars, phase, child, stopping, dropped, boundVars>>

-----------------------------------------------------------------------------
(* What goes wrong. *)

\* What a turn holds that is not in the history.
Held == ToSet(turn.batch) \cup (ToSet(turn.memory) \cap Message)
        \cup ({turn.item, lock} \ {NoOne})
Lose(messages) == dropped' = dropped \cup (messages \ ToSet(history'))

Fault == faults < MaxFaults /\ faults' = faults + 1

\* _drain_injections swallows the exception and goes on with nothing.
GiveUpBatch ==
  /\ turn' = [turn EXCEPT !.batch = <<>>, !.item = NoOne, !.place = "drained"]
  /\ Lose(ToSet(turn.batch) \cup {turn.item})
\* In a turn of its own the exception ends the turn.
GiveUpTurn ==
  /\ turn' = [turn EXCEPT !.item = NoOne, !.memory = <<>>, !.place = "ending"]
  /\ Lose(Held)
GiveUp == IF turn.purpose = "build" THEN GiveUpTurn ELSE GiveUpBatch

\* The session cannot be saved before a user's message is injected.
DrawFails ==
  /\ Fault
  /\ turn.place \in {"draining", "blocked"} /\ DrainMore /\ Head(pending) \in User
  /\ pending' = Tail(pending)
  /\ turn' = [turn EXCEPT !.batch = <<>>, !.place = "drained"]
  /\ history' = history
  /\ Lose(ToSet(turn.batch) \cup {Head(pending)})
  /\ UNCHANGED <<sent, bus, line, lock, routed, checkpoint, phase, child, stopping,
                 stops, crashes>>

\* mark_result_delivered raises, and mark_result_delivery_failed gives the claim back.
ConfirmFails ==
  /\ Fault
  /\ turn.place = "noting" /\ turn.item \in Result
  /\ phase' = [phase EXCEPT ![turn.item] = "failed"]
  /\ history' = history
  /\ GiveUp
  /\ UNCHANGED <<mailVars, checkpoint, child, stopping, stops, crashes>>

\* The goal's mark_delivery raises after the task's; the delivery stands.
GoalMarkFails ==
  /\ Fault
  /\ turn.place = "confirming"
  /\ history' = history
  /\ GiveUp
  /\ UNCHANGED <<mailVars, checkpoint, phase, child, stopping, stops, crashes>>

\* An exception leaves the runner; its checkpoint is for the next turn.
RunFails ==
  /\ Fault
  /\ turn.place \in {"running", "calling"}
  /\ history' = history
  /\ GiveUpTurn
  /\ UNCHANGED <<mailVars, checkpoint, phase, child, stopping, stops, crashes>>

\* Mutant of Stop: what the turn did not drain is thrown away with it.
StopWithQueue ==
  /\ ~Busy /\ ~stopping /\ stops < MaxStops
  /\ stops' = stops + 1 /\ stopping' = TRUE
  /\ line' = <<>>
  /\ turn.place \in Suspended
  /\ history' = Restored /\ checkpoint' = <<>>
  /\ routed' = NoOne /\ pending' = <<>>
  /\ turn' = [NoTurn EXCEPT !.place = "leaving"]
  /\ Lose(ToSet(line) \cup Held)
  /\ UNCHANGED <<sent, bus, lock, phase, child, crashes, faults>>
\* /stop: _cancel_active_tasks cancels the dispatches that wait and the turn that
\* is suspended, which restores its checkpoint and publishes its queue again.
Stop ==
  /\ ~Busy /\ ~stopping /\ stops < MaxStops
  /\ stops' = stops + 1 /\ stopping' = TRUE
  /\ line' = <<>>
  /\ IF turn.place \in Suspended
     THEN /\ history' = Restored /\ checkpoint' = <<>>
          /\ bus' = bus \o pending
          /\ routed' = NoOne /\ pending' = <<>>
          /\ turn' = [NoTurn EXCEPT !.place = "leaving"]
          /\ Lose(ToSet(line) \cup Held)
     ELSE /\ UNCHANGED <<bus, routed, pending, turn, history, checkpoint>>
          /\ Lose(ToSet(line))
  /\ UNCHANGED <<sent, lock, phase, child, crashes, faults>>

\* The dispatches are gone: the children are cancelled, and the queue, if there
\* still is one, is emptied.
Stopped ==
  /\ stopping /\ lock = NoOne
  /\ child' = [r \in Result |-> "gone"]
  /\ routed' = NoOne /\ pending' = <<>>
  /\ stopping' = FALSE
  /\ UNCHANGED <<sent, bus, line, lock, turn, fileVars, dropped, boundVars>>

\* The gateway dies and starts again; nothing announces a result once more.
Crash ==
  /\ crashes < MaxCrashes
  /\ crashes' = crashes + 1
  /\ bus' = <<>> /\ line' = <<>> /\ lock' = NoOne
  /\ routed' = NoOne /\ pending' = <<>>
  /\ turn' = NoTurn
  /\ child' = [r \in Result |-> "gone"]
  /\ stopping' = FALSE
  /\ history' = history
  /\ Lose(ToSet(bus) \cup ToSet(line) \cup ToSet(pending) \cup Held)
  /\ UNCHANGED <<sent, checkpoint, phase, stops, faults>>

TurnStep ==
  \/ Restore \/ BuildUser \/ BuildResult \/ Take \/ Noted \/ Confirmed
  \/ CallTools \/ ToolsReturn \/ Answer \/ Draw \/ Block \/ Inject \/ GoOn \/ Finish \/ Save
  \/ Close \/ Release

Next ==
  \/ \E u \in User : Write(u)
  \/ \E r \in Result : Ready(r) \/ Announce(r)
  \/ Route \/ Enter \/ TurnStep
  \/ DrawFails \/ ConfirmFails \/ GoalMarkFails \/ RunFails
  \/ Stop \/ Stopped \/ Crash

Spec == Init /\ [][Next]_vars

\* The event loop runs what can run; a wait for the model, for an acknowledgement
\* of the audit writer or for a child (300 s) is bounded.
FairSpec ==
  /\ Spec
  /\ WF_vars(Route) /\ WF_vars(Enter) /\ WF_vars(TurnStep) /\ WF_vars(Stopped)

-----------------------------------------------------------------------------
(* What the delivery promises. *)

InFlight ==
  ToSet(bus) \cup ToSet(line) \cup ToSet(turn.batch) \cup ToSet(turn.memory)
  \cup {turn.item, lock} \cup (IF routed = lock THEN ToSet(pending) ELSE {})

TurnState ==
  [place : Places, purpose : {"none", "build", "tools", "answer", "limit"},
   item : Message \cup {NoOne}, rounds : 0..MaxRounds, cycles : 0..MaxCycles,
   batch : Seq(Message), memory : Seq(Message \cup Work)]

\* Every variable stays in its domain.
TypeOK ==
  /\ sent \subseteq Message /\ dropped \subseteq Message
  /\ bus \in Seq(Message) /\ line \in Seq(Message) /\ pending \in Seq(Message)
  /\ Len(pending) <= QueueSize
  /\ lock \in Message \cup {NoOne} /\ routed \in {NoOne, lock}
  /\ turn \in TurnState
  /\ Len(turn.batch) <= DrainLimit
  /\ history \in Seq(Message \cup Work)
  /\ checkpoint \in {<<>>} \cup {<<w>> : w \in Work}
  /\ phase \in [Result -> {"none", "ready", "claimed", "delivered", "failed"}]
  /\ child \in [Result -> {"running", "announcing", "gone"}]
  /\ stopping \in BOOLEAN
  /\ {stops, crashes, faults} \subseteq Nat

\* Neither the routing between bus, queue and lock, nor the limits of queue and
\* drains, nor the end of a turn lose a message: it is on its way or in the
\* history unless /stop, a crash, a failing disk or another exception of the runner
\* (RunFails) took it.
NoSilentLoss == \A m \in sent : m \in InFlight \cup ToSet(history) \cup dropped

\* No message and no round enters the conversation twice, although both history
\* and checkpoint outlive a turn and queues are published again.
ConversationOnce == IsInjective(history \o turn.memory \o turn.batch)

\* A result recorded as delivered is in the conversation, unless it was dropped; one
\* that opened a turn of its own is in the session's file before it is recorded.
DeliveredIsHeard ==
  \A r \in Result : phase[r] = "delivered" =>
    /\ r \in ToSet(history \o turn.memory \o turn.batch) \cup dropped
    /\ lock = r => r \in ToSet(history)

\* What an interrupted turn left in its checkpoint gets into the history before the
\* message of the next turn, never after it.
OldRoundsFirst ==
  [][\A i \in Len(history) + 1 .. Len(history') :
       history'[i] \in Work /\ history'[i].turn # lock => lock \notin ToSet(history)]_vars

\* Whatever is put on the bus gets into the history, unless it is dropped.
EventuallyHeard ==
  \A m \in Message : m \in ToSet(bus) ~> m \in ToSet(history) \cup dropped

\* loop.py:1609-1612: /stop preserves "partial context from the interrupted turn so the
\* user does not lose tool results and assistant messages accumulated before".
\* The code keeps the last round only.
StopKeepsWork ==
  [][~stopping /\ stopping' =>
       \A i \in DOMAIN turn.memory :
         turn.memory[i] \in Work => turn.memory[i] \in ToSet(history' \o turn'.memory)]_vars
=============================================================================

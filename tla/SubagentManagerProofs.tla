----------------------- MODULE SubagentManagerProofs -----------------------
(***************************************************************************)
(* One child task among its cancellers, its worker, the agent and crashes, *)
(* for either executor, with or without audit and any number of crashes:   *)
(* the record moves as ResultContract allows, an exit called confirmed is  *)
(* one, an ended task gives its reservation back, and a run that nobody    *)
(* disturbs reports.                                                       *)
(***************************************************************************)
EXTENDS SubagentManager, TLAPS

Record == [status : Statuses, termination : Terminations,
           delivery : Deliveries, reservation : Reservations]

\* Before the child's try statement, or before it owns a worker.
Early == pc["child"] \in {"scheduled", "startflush", "launching"}
\* After the write of the end.
Finishing == pc["child"] \in {"settling", "endflush", "announcing", "readyflush"}
Untouched == crashes = 0 /\ \A c \in Cancellers : pc[c] = "idle"

\* Who can be where; after a crash only recovery and the agent go on.
Located ==
  /\ pc["child"] \in ChildPlaces /\ pc["agent"] \in AgentPlaces
  /\ \A c \in Cancellers : pc[c] \in CancellerPlaces
  /\ up # "up" => crashes > 0
  /\ pc["child"] \in {"launching", "unlaunching", "registering", "outcome"} =>
       executor = "process"
  /\ crashes > 0 => pc["child"] = "dead" /\ \A c \in Cancellers : pc[c] = "finished"

\* How far the record has got, by the places of those who write it.
RecordKept ==
  /\ task.status \in {"queued", "running"} \cup TerminalStatuses
  /\ pc["child"] \notin {"scheduled", "dead"} => task.status # "queued"
  /\ Early => ~Terminal(task)
  /\ task.termination = "termination_failed" => Terminal(task)
  /\ Finishing => Terminal(task)
  /\ \A c \in Cancellers : pc[c] = "failannounce" => Terminal(task)
  /\ pc["agent"] = "holding" => task.delivery = "claimed_pending_delivery"
  /\ task.reservation \in {"reserved", "settled"}
  /\ Finishing /\ pc["child"] # "settling" => task.reservation = "settled"

\* While the child is early a canceller gets no further than its join, and that has
\* not ended.
Begun ==
  Early =>
    /\ worker = "absent"
    /\ mem \in {"none", "cancel_requested"}
    /\ task.termination \in {"none", "cancel_requested", "grace_waiting"}
    /\ \A c \in Cancellers :
         /\ pc[c] \in {"idle", "recording", "sending", "join", "raised"}
         /\ pc[c] = "join" => cancelled

\* A live worker has a child that waits for it, unless a crash took the child.
WorkerOwned ==
  /\ executor = "asyncio" => worker = "absent"
  /\ Handle => ~cancelled
  /\ worker \in Alive => Handle \/ (crashes > 0 /\ mem = "none")
  /\ \A c \in Cancellers : pc[c] \in {"concluding", "parentwait"} => worker \notin Alive

\* What a child whose cancellers are all idle cannot have met.
Undisturbed ==
  Untouched =>
    /\ ~cancelled /\ marks = {} /\ worker \notin {"asked", "cancelled"}
    /\ pc["child"] \notin {"unlaunching", "outcome"}
    /\ Early \/ pc["child"] \in {"registering", "working"} =>
         mem = "none" /\ task.termination = "none"
    /\ pc["child"] = "reporting" =>
         mem \in {"none", "cooperatively_exited"} /\ task.termination = "none"
    /\ pc["child"] \in {"reporting", "finishing", "settling", "endflush"} => run.announces
    /\ pc["child"] \in {"readyflush", "dead"} =>
         Terminal(task) /\ task.delivery # "not_ready"

IndInv ==
  /\ TypeOK /\ Located /\ RecordKept /\ Begun /\ WorkerOwned /\ Undisturbed
  /\ EndedIsSettled /\ ConfirmedIsGone

\* What the contract sees of a step.
Allowed == [Contract!Next]_<<task.status, task.delivery>>

-----------------------------------------------------------------------------
(* The writes to the record. *)

LEMMA StatusWritten ==
  ASSUME NEW r \in Record, NEW s \in Statuses
  PROVE  /\ WithStatus(r, s) \in Record
         /\ WithStatus(r, s).termination = r.termination
         /\ WithStatus(r, s).delivery = r.delivery
         /\ WithStatus(r, s).reservation = r.reservation
         /\ \/ WithStatus(r, s).status = r.status
            \/ /\ ~Terminal(r) /\ <<r.status, s>> \in StatusMoves
               /\ WithStatus(r, s).status = s
         /\ r.status = "running" /\ s \in TerminalStatuses => WithStatus(r, s).status = s
         /\ r.status = "queued" /\ s = "running" => WithStatus(r, s).status = s
<1>1. r.status = "running" /\ s \in TerminalStatuses => <<r.status, s>> \in StatusMoves
  BY DEF StatusMoves
<1>2. r.status = "queued" /\ s = "running" => <<r.status, s>> \in StatusMoves
  BY DEF StatusMoves
<1>3. r.status \in {"queued", "running"} => ~Terminal(r)
  BY DEF Terminal, TerminalStatuses
<1>4. CASE StatusIgnored(r, s) \/ StatusIllegal(r, s)
  <2>1. WithStatus(r, s) = r
    BY <1>4 DEF WithStatus
  <2> QED
    BY <1>1, <1>2, <1>3, <1>4, <2>1 DEF StatusIgnored, StatusIllegal
<1>5. CASE ~(StatusIgnored(r, s) \/ StatusIllegal(r, s))
  <2>1. WithStatus(r, s) = [r EXCEPT !.status = s]
    BY <1>5 DEF WithStatus
  <2> QED
    BY <1>5, <2>1 DEF StatusIgnored, StatusIllegal, Record
<1> QED
  BY <1>4, <1>5

LEMMA TerminationWritten ==
  ASSUME NEW r \in Record, NEW x \in Terminations
  PROVE  /\ WithTermination(r, x) \in Record
         /\ WithTermination(r, x).delivery = r.delivery
         /\ WithTermination(r, x).reservation = r.reservation
         /\ WithTermination(r, x).termination \in {r.termination, x}
         /\ \/ WithTermination(r, x).status = r.status
            \/ /\ x = "termination_failed" /\ ~Terminal(r)
               /\ WithTermination(r, x).status = "lost"
         /\ x = "termination_failed" /\ ~TerminationIllegal(r, x)
              /\ (r.termination = x => Terminal(r)) =>
              Terminal(WithTermination(r, x))
         /\ x # "termination_failed" => WithTermination(r, x).status = r.status
         /\ WithTermination(r, x).termination = "termination_failed" =>
              r.termination = "termination_failed" \/ Terminal(WithTermination(r, x))
<1>1. CASE TerminationIgnored(r, x) \/ TerminationIllegal(r, x)
  <2>1. WithTermination(r, x) = r
    BY <1>1 DEF WithTermination
  <2> QED
    BY <1>1, <2>1 DEF TerminationIgnored
<1>2. CASE ~(TerminationIgnored(r, x) \/ TerminationIllegal(r, x))
  <2>1. WithTermination(r, x) =
          [r EXCEPT !.termination = x,
                    !.status = IF x = "termination_failed" THEN "lost" ELSE @]
    BY <1>2 DEF WithTermination
  <2> QED
    BY <1>2, <2>1 DEF TerminationIgnored, Record, Terminal, Statuses, TerminalStatuses
<1> QED
  BY <1>1, <1>2

\* An unfinished task can be given up, wherever its record stands.
LEMMA LostIsAMove ==
  ASSUME NEW s \in {"queued", "running"}
  PROVE  <<s, "lost">> \in StatusMoves
BY DEF StatusMoves, TerminalStatuses

-----------------------------------------------------------------------------
(* The places. *)

LEMMA Names == "child" \notin Cancellers /\ "agent" \notin Cancellers
BY ManagerAssumption

\* The step of one coroutine: the others stay where they are.
Places == ChildPlaces \cup CancellerPlaces \cup AgentPlaces

ChildAlone(p) ==
  /\ pc' \in [Actors -> Places]
  /\ pc'["child"] = p /\ pc'["agent"] = pc["agent"]
  /\ \A c \in Cancellers : pc'[c] = pc[c]

CancellerAlone(c, p) ==
  /\ pc' \in [Actors -> Places]
  /\ pc'["child"] = pc["child"] /\ pc'["agent"] = pc["agent"]
  /\ pc'[c] = p /\ \A d \in Cancellers \ {c} : pc'[d] = pc[d]

AgentAlone(p) ==
  /\ pc' \in [Actors -> Places]
  /\ pc'["agent"] = p /\ pc'["child"] = pc["child"]
  /\ \A c \in Cancellers : pc'[c] = pc[c]

LEMMA ChildGoes ==
  ASSUME TypeOK, NEW p \in ChildPlaces, Goto("child", p)
  PROVE  ChildAlone(p)
BY Names DEF TypeOK, Goto, Actors, Places, ChildAlone

LEMMA CancellerGoes ==
  ASSUME TypeOK, NEW c \in Cancellers, NEW p \in CancellerPlaces, Goto(c, p)
  PROVE  CancellerAlone(c, p)
BY Names DEF TypeOK, Goto, Actors, Places, CancellerAlone

LEMMA AgentGoes ==
  ASSUME TypeOK, NEW p \in AgentPlaces, Goto("agent", p)
  PROVE  AgentAlone(p)
BY Names DEF TypeOK, Goto, Actors, Places, AgentAlone

-----------------------------------------------------------------------------
(* What the contract sees of each write. *)

LEMMA SameTables ==
  /\ Contract!StatusMoves = StatusMoves
  /\ Contract!Statuses = Statuses
  /\ Contract!TerminalStatuses = TerminalStatuses
<1>1. Contract!TerminalStatuses = TerminalStatuses
  BY DEF Contract!TerminalStatuses, TerminalStatuses
<1>2. Contract!Statuses = Statuses
  BY <1>1 DEF Contract!Statuses, Statuses
<1>3. Contract!StatusMoves = StatusMoves
  BY <1>1 DEF Contract!StatusMoves, StatusMoves
<1> QED
  BY <1>1, <1>2, <1>3

LEMMA StatusAdvances ==
  ASSUME ~Terminal(task), task'.status \in Statuses,
         <<task.status, task'.status>> \in StatusMoves, task'.delivery = task.delivery
  PROVE  Allowed
<1>1. Contract!Advance
  BY SameTables DEF Contract!Advance, Contract!Ended, Terminal
<1> QED
  BY <1>1 DEF Allowed, Contract!Next

LEMMA RecordTyped == TypeOK => task \in Record
BY DEF TypeOK, Record

LEMMA NothingWritten == UNCHANGED task => Allowed
BY DEF Allowed

LEMMA StatusAllowed ==
  ASSUME TypeOK, NEW s \in Statuses, task' = WithStatus(task, s)
  PROVE  Allowed
<1>1. task \in Record
  BY RecordTyped
<1>2. CASE task'.status = task.status
  BY <1>1, <1>2, StatusWritten DEF Allowed
<1>3. CASE ~Terminal(task) /\ <<task.status, s>> \in StatusMoves /\ task'.status = s
  BY <1>1, <1>3, StatusWritten, StatusAdvances
<1> QED
  BY <1>1, <1>2, <1>3, StatusWritten

LEMMA TerminationAllowed ==
  ASSUME TypeOK, RecordKept, NEW x \in Terminations, task' = WithTermination(task, x)
  PROVE  Allowed
<1>1. task \in Record
  BY RecordTyped
<1>2. CASE task'.status = task.status
  BY <1>1, <1>2, TerminationWritten DEF Allowed
<1>3. CASE ~Terminal(task) /\ task'.status = "lost"
  <2>1. <<task.status, "lost">> \in StatusMoves
    BY <1>3, LostIsAMove DEF RecordKept, Terminal
  <2>2. "lost" \in Statuses
    BY DEF Statuses, TerminalStatuses
  <2>3. task'.delivery = task.delivery
    BY <1>1, TerminationWritten
  <2> QED
    BY <1>3, <2>1, <2>2, <2>3, StatusAdvances
<1> QED
  BY <1>1, <1>2, <1>3, TerminationWritten

LEMMA DeliveryWritten ==
  ASSUME TypeOK, NEW d \in Deliveries, task' = WithDelivery(task, d)
  PROVE  /\ task' \in Record /\ task'.delivery = d
         /\ task'.status = task.status /\ task'.termination = task.termination
         /\ task'.reservation = task.reservation
BY RecordTyped DEF WithDelivery, Record

LEMMA OfferAllowed ==
  ASSUME TypeOK, Terminal(task), ~ReadyIllegal(task), task' = WithDelivery(task, "ready")
  PROVE  Allowed
<1>1. task'.delivery = "ready" /\ task'.status = task.status
  BY DeliveryWritten DEF Deliveries
<1> QED
  BY <1>1, SameTables
  DEF Allowed, Contract!Next, Contract!Offer, Contract!Ended, Terminal, ReadyIllegal

LEMMA TakeAllowed ==
  ASSUME TypeOK, Claimable(task), task' = WithDelivery(task, "claimed_pending_delivery")
  PROVE  Allowed
<1>1. task'.delivery = "claimed_pending_delivery" /\ task'.status = task.status
  BY DeliveryWritten DEF Deliveries
<1> QED
  BY <1>1 DEF Allowed, Contract!Next, Contract!Take, Claimable

LEMMA SettleAllowed ==
  ASSUME TypeOK, task.delivery = "claimed_pending_delivery",
         NEW d \in {"delivered", "delivery_failed"}, task' = WithDelivery(task, d)
  PROVE  Allowed
<1>1. task'.delivery = d /\ task'.status = task.status
  BY DeliveryWritten DEF Deliveries
<1> QED
  BY <1>1 DEF Allowed, Contract!Next, Contract!Settle

-----------------------------------------------------------------------------
(* The child's steps.  A child that steps has not been through a crash. *)

USE DEF Early, Finishing, Untouched, Handle, Alive

LEMMA BeginKeeps ==
  ASSUME IndInv, Begin, UNCHANGED executor
  PROVE  IndInv' /\ Allowed
<1>1. pc["child"] = "scheduled" /\ ChildAlone("startflush")
  BY ChildGoes DEF IndInv, Begin, ChildAt, ChildPlaces
<1>2. /\ task' = WithStatus(task, "running") /\ ~cancelled
      /\ UNCHANGED <<executor, up, mem, marks, cancelled, worker, run, bus, crashes>>
  BY DEF Begin
<1>3. /\ task' \in Record /\ task'.status = "running"
      /\ task'.termination = task.termination /\ task'.delivery = task.delivery
      /\ task'.reservation = task.reservation
  <2>1. "running" \in Statuses /\ task \in Record
    BY RecordTyped DEF IndInv, Statuses
  <2> QED
    BY <1>1, <1>2, <2>1, StatusWritten DEF IndInv, RecordKept, Terminal
<1>4. TypeOK' /\ Located'
  BY <1>1, <1>2, <1>3 DEF IndInv, TypeOK, Located, Record, ChildAlone, Places, ChildPlaces
<1>5. RecordKept' /\ Begun'
  BY <1>1, <1>2, <1>3
  DEF IndInv, RecordKept, Begun, ChildAlone, Terminal, TerminalStatuses
<1>6. WorkerOwned' /\ Undisturbed'
  BY <1>1, <1>2, <1>3
  DEF IndInv, WorkerOwned, Undisturbed, Located, Begun, RecordKept, ChildAlone, Terminal,
    Exits
<1>7. EndedIsSettled' /\ ConfirmedIsGone'
  BY <1>1, <1>2, <1>3
  DEF IndInv, EndedIsSettled, ConfirmedIsGone, Located, WorkerOwned, RecordKept,
    ChildAlone, Terminal
<1>8. Allowed
  BY <1>1, <1>2, <1>3, StatusAllowed DEF IndInv, Statuses
<1> QED
  BY <1>4, <1>5, <1>6, <1>7, <1>8 DEF IndInv

LEMMA CancelledBeforeTryKeeps ==
  ASSUME IndInv, CancelledBeforeTry, UNCHANGED executor
  PROVE  IndInv' /\ Allowed
<1>1. pc["child"] \in {"scheduled", "startflush"} /\ ChildAlone("dead")
  BY ChildGoes DEF IndInv, CancelledBeforeTry, ChildAt, ChildPlaces
<1>2. /\ cancelled /\ cancelled' = FALSE
      /\ UNCHANGED <<executor, task, up, mem, marks, worker, run, bus, crashes>>
  BY DEF CancelledBeforeTry
<1>3. TypeOK' /\ Located'
  BY <1>1, <1>2 DEF IndInv, TypeOK, Located, Record, ChildAlone, Places, ChildPlaces
<1>4. RecordKept' /\ Begun'
  BY <1>1, <1>2 DEF IndInv, RecordKept, Begun, ChildAlone, Terminal, TerminalStatuses
<1>5. WorkerOwned' /\ Undisturbed'
  BY <1>1, <1>2
  DEF IndInv, WorkerOwned, Undisturbed, Located, Begun, RecordKept, ChildAlone, Terminal,
    Exits
<1>6. EndedIsSettled' /\ ConfirmedIsGone'
  BY <1>1, <1>2
  DEF IndInv, EndedIsSettled, ConfirmedIsGone, Located, WorkerOwned, RecordKept,
    ChildAlone, Terminal
<1>7. Allowed
  BY <1>1, <1>2, NothingWritten DEF IndInv
<1> QED
  BY <1>3, <1>4, <1>5, <1>6, <1>7 DEF IndInv

LEMMA LaunchKeeps ==
  ASSUME IndInv, Launch, UNCHANGED executor
  PROVE  IndInv' /\ Allowed
<1>1. /\ pc["child"] = "startflush"
      /\ ChildAlone(IF executor = "process" THEN "launching" ELSE "working")
  BY ChildGoes DEF IndInv, Launch, ChildAt, ChildPlaces
<1>2. /\ ~cancelled
      /\ UNCHANGED <<executor, task, up, mem, marks, cancelled, worker, run, bus, crashes>>
  BY DEF Launch
<1>3. TypeOK' /\ Located'
  BY <1>1, <1>2 DEF IndInv, TypeOK, Located, Record, ChildAlone, Places, ChildPlaces
<1>4. RecordKept' /\ Begun'
  BY <1>1, <1>2 DEF IndInv, RecordKept, Begun, ChildAlone, Terminal, TerminalStatuses
<1>5. WorkerOwned' /\ Undisturbed'
  BY <1>1, <1>2
  DEF IndInv, WorkerOwned, Undisturbed, Located, Begun, RecordKept, ChildAlone, Terminal,
    Exits
<1>6. EndedIsSettled' /\ ConfirmedIsGone'
  BY <1>1, <1>2
  DEF IndInv, EndedIsSettled, ConfirmedIsGone, Located, WorkerOwned, RecordKept,
    ChildAlone, Terminal
<1>7. Allowed
  BY <1>1, <1>2, NothingWritten DEF IndInv
<1> QED
  BY <1>3, <1>4, <1>5, <1>6, <1>7 DEF IndInv

LEMMA WorkerStartsKeeps ==
  ASSUME IndInv, WorkerStarts, UNCHANGED executor
  PROVE  IndInv' /\ Allowed
<1>1. pc["child"] = "launching" /\ ChildAlone("registering")
  BY ChildGoes DEF IndInv, WorkerStarts, ChildAt, ChildPlaces
<1>2. /\ ~cancelled /\ worker' = "running"
      /\ UNCHANGED <<executor, task, up, mem, marks, cancelled, run, bus, crashes>>
  BY DEF WorkerStarts
<1>3. TypeOK' /\ Located'
  BY <1>1, <1>2 DEF IndInv, TypeOK, Located, Record, ChildAlone, Places, ChildPlaces
<1>4. RecordKept' /\ Begun'
  BY <1>1, <1>2 DEF IndInv, RecordKept, Begun, ChildAlone, Terminal, TerminalStatuses
<1>5. WorkerOwned' /\ Undisturbed'
  BY <1>1, <1>2
  DEF IndInv, WorkerOwned, Undisturbed, Located, Begun, RecordKept, ChildAlone, Terminal,
    Exits
<1>6. EndedIsSettled' /\ ConfirmedIsGone'
  BY <1>1, <1>2
  DEF IndInv, EndedIsSettled, ConfirmedIsGone, Located, WorkerOwned, RecordKept,
    ChildAlone, Terminal
<1>7. Allowed
  BY <1>1, <1>2, NothingWritten DEF IndInv
<1> QED
  BY <1>3, <1>4, <1>5, <1>6, <1>7 DEF IndInv

LEMMA WorkerFailsToStartKeeps ==
  ASSUME IndInv, WorkerFailsToStart, UNCHANGED executor
  PROVE  IndInv' /\ Allowed
<1>1. pc["child"] = "launching" /\ ChildAlone("reporting")
  BY ChildGoes DEF IndInv, WorkerFailsToStart, Ends, ChildAt, ChildPlaces
<1>2. /\ ~cancelled /\ run' = [outcome |-> "failed", announces |-> TRUE]
      /\ UNCHANGED <<executor, task, up, mem, marks, cancelled, worker, bus, crashes>>
  BY DEF WorkerFailsToStart, Ends
<1>3. TypeOK' /\ Located'
  BY <1>1, <1>2
  DEF IndInv, TypeOK, Located, Record, ChildAlone, Places, ChildPlaces, TerminalStatuses
<1>4. RecordKept' /\ Begun'
  BY <1>1, <1>2 DEF IndInv, RecordKept, Begun, ChildAlone, Terminal, TerminalStatuses
<1>5. WorkerOwned' /\ Undisturbed'
  BY <1>1, <1>2
  DEF IndInv, WorkerOwned, Undisturbed, Located, Begun, RecordKept, ChildAlone, Terminal,
    Exits
<1>6. EndedIsSettled' /\ ConfirmedIsGone'
  BY <1>1, <1>2
  DEF IndInv, EndedIsSettled, ConfirmedIsGone, Located, WorkerOwned, RecordKept,
    ChildAlone, Terminal
<1>7. Allowed
  BY <1>1, <1>2, NothingWritten DEF IndInv
<1> QED
  BY <1>3, <1>4, <1>5, <1>6, <1>7 DEF IndInv

LEMMA RegisteredKeeps ==
  ASSUME IndInv, Registered, UNCHANGED executor
  PROVE  IndInv' /\ Allowed
<1>1. pc["child"] = "registering" /\ ChildAlone("working")
  BY ChildGoes DEF IndInv, Registered, ChildAt, ChildPlaces
<1>2. UNCHANGED <<executor, task, up, mem, marks, cancelled, worker, run, bus, crashes>>
  BY DEF Registered
<1>3. TypeOK' /\ Located'
  BY <1>1, <1>2 DEF IndInv, TypeOK, Located, Record, ChildAlone, Places, ChildPlaces
<1>4. RecordKept' /\ Begun'
  BY <1>1, <1>2 DEF IndInv, RecordKept, Begun, ChildAlone, Terminal, TerminalStatuses
<1>5. WorkerOwned' /\ Undisturbed'
  BY <1>1, <1>2
  DEF IndInv, WorkerOwned, Undisturbed, Located, Begun, RecordKept, ChildAlone, Terminal,
    Exits
<1>6. EndedIsSettled' /\ ConfirmedIsGone'
  BY <1>1, <1>2
  DEF IndInv, EndedIsSettled, ConfirmedIsGone, Located, WorkerOwned, RecordKept,
    ChildAlone, Terminal
<1>7. Allowed
  BY <1>1, <1>2, NothingWritten DEF IndInv
<1> QED
  BY <1>3, <1>4, <1>5, <1>6, <1>7 DEF IndInv

LEMMA CancelledInStartKeeps ==
  ASSUME IndInv, CancelledInStart, UNCHANGED executor
  PROVE  IndInv' /\ Allowed
<1>1. pc["child"] = "launching" /\ ChildAlone("unlaunching")
  BY ChildGoes DEF IndInv, CancelledInStart, ChildAt, ChildPlaces
<1>2. /\ cancelled /\ cancelled' = FALSE
      /\ UNCHANGED <<executor, task, up, mem, marks, worker, run, bus, crashes>>
  BY DEF CancelledInStart
<1>3. TypeOK' /\ Located'
  BY <1>1, <1>2 DEF IndInv, TypeOK, Located, Record, ChildAlone, Places, ChildPlaces
<1>4. RecordKept' /\ Begun'
  BY <1>1, <1>2 DEF IndInv, RecordKept, Begun, ChildAlone, Terminal, TerminalStatuses
<1>5. WorkerOwned' /\ Undisturbed'
  BY <1>1, <1>2
  DEF IndInv, WorkerOwned, Undisturbed, Located, Begun, RecordKept, ChildAlone, Terminal,
    Exits
<1>6. EndedIsSettled' /\ ConfirmedIsGone'
  BY <1>1, <1>2
  DEF IndInv, EndedIsSettled, ConfirmedIsGone, Located, WorkerOwned, RecordKept,
    ChildAlone, Terminal
<1>7. Allowed
  BY <1>1, <1>2, NothingWritten DEF IndInv
<1> QED
  BY <1>3, <1>4, <1>5, <1>6, <1>7 DEF IndInv

(* The ends of a run. *)

\* What any cancelled end leaves behind; the worker is gone.
LEMMA CancelExits ==
  ASSUME TypeOK, CancelExit
  PROVE  /\ ChildAlone("reporting") /\ cancelled' = FALSE
         /\ run' \in [outcome : TerminalStatuses, announces : BOOLEAN]
         /\ mem' \in Terminations
<1>1. Goto("child", "reporting")
  BY DEF CancelExit, Ends
<1>2. ChildAlone("reporting") /\ cancelled' = FALSE
  BY <1>1, ChildGoes DEF CancelExit, ChildPlaces
<1>3. run' \in [outcome : TerminalStatuses, announces : BOOLEAN]
  <2>1. PICK o \in TerminalStatuses : run' = [outcome |-> o, announces |-> FALSE]
    BY DEF CancelExit, Ends, TerminalStatuses
  <2> QED
    BY <2>1
<1>4. mem' \in Terminations
  BY DEF CancelExit, TypeOK, Terminations
<1> QED
  BY <1>2, <1>3, <1>4

LEMMA WorkerUnstartedKeeps ==
  ASSUME IndInv, WorkerUnstarted, UNCHANGED executor
  PROVE  IndInv' /\ Allowed
<1>1. pc["child"] = "unlaunching" /\ ChildAlone("reporting")
  BY CancelExits DEF IndInv, WorkerUnstarted, ChildAt
<1>2. /\ cancelled' = FALSE
      /\ run' \in [outcome : TerminalStatuses, announces : BOOLEAN] /\ mem' \in Terminations
      /\ UNCHANGED <<executor, task, up, marks, worker, bus, crashes>>
  BY CancelExits DEF IndInv, WorkerUnstarted, ChildAt
<1>3. TypeOK' /\ Located'
  BY <1>1, <1>2 DEF IndInv, TypeOK, Located, Record, ChildAlone, Places, ChildPlaces
<1>4. RecordKept' /\ Begun'
  BY <1>1, <1>2 DEF IndInv, RecordKept, Begun, ChildAlone, Terminal, TerminalStatuses
<1>5. WorkerOwned' /\ Undisturbed'
  BY <1>1, <1>2
  DEF IndInv, WorkerOwned, Undisturbed, Located, Begun, RecordKept, ChildAlone, Terminal,
    Exits
<1>6. EndedIsSettled' /\ ConfirmedIsGone'
  BY <1>1, <1>2
  DEF IndInv, EndedIsSettled, ConfirmedIsGone, Located, WorkerOwned, RecordKept,
    ChildAlone, Terminal
<1>7. Allowed
  BY <1>1, <1>2, NothingWritten DEF IndInv
<1> QED
  BY <1>3, <1>4, <1>5, <1>6, <1>7 DEF IndInv

LEMMA CancelDeliveredKeeps ==
  ASSUME IndInv, CancelDelivered, UNCHANGED executor
  PROVE  IndInv' /\ Allowed
<1>1. pc["child"] \in {"working", "outcome", "endflush"} /\ ChildAlone("reporting")
  BY CancelExits DEF IndInv, CancelDelivered, ChildAt
<1>2. /\ cancelled
      /\ cancelled' = FALSE
      /\ run' \in [outcome : TerminalStatuses, announces : BOOLEAN] /\ mem' \in Terminations
      /\ UNCHANGED <<executor, task, up, marks, worker, bus, crashes>>
  BY CancelExits DEF IndInv, CancelDelivered, ChildAt
<1>3. TypeOK' /\ Located'
  BY <1>1, <1>2 DEF IndInv, TypeOK, Located, Record, ChildAlone, Places, ChildPlaces
<1>4. RecordKept' /\ Begun'
  BY <1>1, <1>2 DEF IndInv, RecordKept, Begun, ChildAlone, Terminal, TerminalStatuses
<1>5. WorkerOwned' /\ Undisturbed'
  BY <1>1, <1>2
  DEF IndInv, WorkerOwned, Undisturbed, Located, Begun, RecordKept, ChildAlone, Terminal,
    Exits
<1>6. EndedIsSettled' /\ ConfirmedIsGone'
  BY <1>1, <1>2
  DEF IndInv, EndedIsSettled, ConfirmedIsGone, Located, WorkerOwned, RecordKept,
    ChildAlone, Terminal
<1>7. Allowed
  BY <1>1, <1>2, NothingWritten DEF IndInv
<1> QED
  BY <1>3, <1>4, <1>5, <1>6, <1>7 DEF IndInv

LEMMA OutcomeKnownKeeps ==
  ASSUME IndInv, OutcomeKnown, UNCHANGED executor
  PROVE  IndInv' /\ Allowed
<1>1. pc["child"] = "outcome" /\ ChildAlone("reporting")
  BY CancelExits DEF IndInv, OutcomeKnown, ChildAt
<1>2. /\ cancelled' = FALSE
      /\ run' \in [outcome : TerminalStatuses, announces : BOOLEAN] /\ mem' \in Terminations
      /\ UNCHANGED <<executor, task, up, marks, worker, bus, crashes>>
  BY CancelExits DEF IndInv, OutcomeKnown, ChildAt
<1>3. TypeOK' /\ Located'
  BY <1>1, <1>2 DEF IndInv, TypeOK, Located, Record, ChildAlone, Places, ChildPlaces
<1>4. RecordKept' /\ Begun'
  BY <1>1, <1>2 DEF IndInv, RecordKept, Begun, ChildAlone, Terminal, TerminalStatuses
<1>5. WorkerOwned' /\ Undisturbed'
  BY <1>1, <1>2
  DEF IndInv, WorkerOwned, Undisturbed, Located, Begun, RecordKept, ChildAlone, Terminal,
    Exits
<1>6. EndedIsSettled' /\ ConfirmedIsGone'
  BY <1>1, <1>2
  DEF IndInv, EndedIsSettled, ConfirmedIsGone, Located, WorkerOwned, RecordKept,
    ChildAlone, Terminal
<1>7. Allowed
  BY <1>1, <1>2, NothingWritten DEF IndInv
<1> QED
  BY <1>3, <1>4, <1>5, <1>6, <1>7 DEF IndInv

LEMMA OutcomeOverdueKeeps ==
  ASSUME IndInv, OutcomeOverdue, UNCHANGED executor
  PROVE  IndInv' /\ Allowed
<1>1. pc["child"] = "outcome" /\ ChildAlone("reporting")
  BY ChildGoes DEF IndInv, OutcomeOverdue, Ends, ChildAt, ChildPlaces
<1>2. /\ mem' = "termination_failed"
      /\ run' = [outcome |-> "lost", announces |-> FALSE]
      /\ UNCHANGED <<executor, task, up, marks, cancelled, worker, bus, crashes>>
  BY DEF OutcomeOverdue, Ends
<1>3. TypeOK' /\ Located'
  BY <1>1, <1>2
  DEF IndInv, TypeOK, Located, Record, ChildAlone, Places, ChildPlaces, TerminalStatuses,
    Terminations
<1>4. RecordKept' /\ Begun'
  BY <1>1, <1>2 DEF IndInv, RecordKept, Begun, ChildAlone, Terminal, TerminalStatuses
<1>5. WorkerOwned' /\ Undisturbed'
  BY <1>1, <1>2
  DEF IndInv, WorkerOwned, Undisturbed, Located, Begun, RecordKept, ChildAlone, Terminal,
    Exits
<1>6. EndedIsSettled' /\ ConfirmedIsGone'
  BY <1>1, <1>2
  DEF IndInv, EndedIsSettled, ConfirmedIsGone, Located, WorkerOwned, RecordKept,
    ChildAlone, Terminal
<1>7. Allowed
  BY <1>1, <1>2, NothingWritten DEF IndInv
<1> QED
  BY <1>3, <1>4, <1>5, <1>6, <1>7 DEF IndInv

LEMMA RunnerReturnsKeeps ==
  ASSUME IndInv, RunnerReturns, UNCHANGED executor
  PROVE  IndInv' /\ Allowed
<1>1. pc["child"] = "working" /\ executor = "asyncio" /\ ChildAlone("reporting")
  BY ChildGoes DEF IndInv, RunnerReturns, Ends, ChildAt, ChildPlaces
<1>2. /\ run'.announces /\ mem' \in {mem, "cooperatively_exited"}
      /\ run' \in [outcome : TerminalStatuses, announces : BOOLEAN] /\ mem' \in Terminations
      /\ UNCHANGED <<executor, task, up, marks, cancelled, worker, bus, crashes>>
  BY DEF IndInv, TypeOK, RunnerReturns, Ends, TerminalStatuses, Terminations
<1>3. TypeOK' /\ Located'
  BY <1>1, <1>2 DEF IndInv, TypeOK, Located, Record, ChildAlone, Places, ChildPlaces
<1>4. RecordKept' /\ Begun'
  BY <1>1, <1>2 DEF IndInv, RecordKept, Begun, ChildAlone, Terminal, TerminalStatuses
<1>5. WorkerOwned' /\ Undisturbed'
  BY <1>1, <1>2
  DEF IndInv, WorkerOwned, Undisturbed, Located, Begun, RecordKept, ChildAlone, Terminal,
    Exits
<1>6. EndedIsSettled' /\ ConfirmedIsGone'
  BY <1>1, <1>2
  DEF IndInv, EndedIsSettled, ConfirmedIsGone, Located, WorkerOwned, RecordKept,
    ChildAlone, Terminal
<1>7. Allowed
  BY <1>1, <1>2, NothingWritten DEF IndInv
<1> QED
  BY <1>3, <1>4, <1>5, <1>6, <1>7 DEF IndInv

LEMMA ExitSeenByChild ==
  ASSUME IndInv, ChildSeesExit
  PROVE  \/ /\ ChildAlone("outcome") /\ mem = "force_kill_requested"
            /\ UNCHANGED <<mem, run>>
         \/ /\ ChildAlone("reporting")
            /\ run' \in [outcome : TerminalStatuses, announces : BOOLEAN]
            /\ mem' \in Terminations
            /\ \/ mem # "none" \/ worker = "cancelled"
               \/ run'.announces /\ mem' \in {mem, "cooperatively_exited"}
<1>1. CASE mem = "termination_failed"
  BY <1>1, CancelExits DEF IndInv, ChildSeesExit
<1>2. CASE mem # "termination_failed" /\ worker = "silent"
  <2>1. CASE mem = "force_kill_requested"
    BY <1>2, <2>1, ChildGoes DEF IndInv, ChildSeesExit, ChildPlaces
  <2>2. CASE mem \in {"cooperatively_exited", "force_killed"}
    BY <1>2, <2>2, CancelExits DEF IndInv, ChildSeesExit, SilentExit
  <2>3. CASE mem \notin {"force_kill_requested", "cooperatively_exited", "force_killed"}
    <3>1. Ends("failed", TRUE) /\ mem' = mem
      BY <1>2, <2>3 DEF ChildSeesExit, SilentExit
    <3> QED
      BY <3>1, ChildGoes DEF IndInv, TypeOK, Ends, ChildPlaces, TerminalStatuses
  <2> QED
    BY <2>1, <2>2, <2>3
<1>3. CASE mem # "termination_failed" /\ worker = "cancelled"
  <2>1. PICK o \in TerminalStatuses : Ends(o, FALSE)
    BY <1>3 DEF ChildSeesExit, TerminalStatuses
  <2>2. mem' \in Terminations
    BY <1>3 DEF IndInv, TypeOK, ChildSeesExit, Terminations
  <2> QED
    BY <1>3, <2>1, <2>2, ChildGoes DEF IndInv, Ends, ChildPlaces
<1>4. CASE mem # "termination_failed" /\ worker \notin {"silent", "cancelled"}
  <2>1. PICK o \in TerminalStatuses : Ends(o, TRUE)
    BY <1>4 DEF ChildSeesExit, TerminalStatuses
  <2>2. mem' \in {mem, "cooperatively_exited"} /\ mem' \in Terminations
    BY <1>4 DEF IndInv, TypeOK, ChildSeesExit, Terminations
  <2> QED
    BY <2>1, <2>2, ChildGoes DEF IndInv, Ends, ChildPlaces
<1> QED
  BY <1>1, <1>2, <1>3, <1>4

LEMMA ChildSeesExitKeeps ==
  ASSUME IndInv, ChildSeesExit, UNCHANGED executor
  PROVE  IndInv' /\ Allowed
<1>1. \/ /\ ChildAlone("outcome") /\ mem = "force_kill_requested"
         /\ UNCHANGED <<mem, run>>
      \/ /\ ChildAlone("reporting")
         /\ run' \in [outcome : TerminalStatuses, announces : BOOLEAN]
         /\ mem' \in Terminations
         /\ \/ mem # "none" \/ worker = "cancelled"
            \/ run'.announces /\ mem' \in {mem, "cooperatively_exited"}
  BY ExitSeenByChild
<1>2. /\ pc["child"] = "working"
      /\ executor = "process" /\ worker \notin Alive /\ cancelled' = FALSE
      /\ UNCHANGED <<executor, task, up, marks, worker, bus, crashes>>
  BY DEF ChildSeesExit, ChildAt, CancelExit, SilentExit, IndInv, TypeOK
<1>3. TypeOK' /\ Located'
  BY <1>1, <1>2
  DEF IndInv, TypeOK, Located, Record, ChildAlone, Places, ChildPlaces, TerminalStatuses
<1>4. RecordKept' /\ Begun'
  BY <1>1, <1>2 DEF IndInv, RecordKept, Begun, ChildAlone, Terminal, TerminalStatuses
<1>5. WorkerOwned' /\ Undisturbed'
  BY <1>1, <1>2
  DEF IndInv, WorkerOwned, Undisturbed, Located, Begun, RecordKept, ChildAlone, Terminal,
    Exits
<1>6. EndedIsSettled' /\ ConfirmedIsGone'
  BY <1>1, <1>2
  DEF IndInv, EndedIsSettled, ConfirmedIsGone, Located, WorkerOwned, RecordKept,
    ChildAlone, Terminal
<1>7. Allowed
  BY <1>1, <1>2, NothingWritten DEF IndInv
<1> QED
  BY <1>3, <1>4, <1>5, <1>6, <1>7 DEF IndInv

(* The steps of the runner and of the worker. *)

LEMMA RunnerSwallowsCancelKeeps ==
  ASSUME IndInv, RunnerSwallowsCancel, UNCHANGED executor
  PROVE  IndInv' /\ Allowed
<1>2. /\ executor = "asyncio" /\ pc["child"] = "working" /\ cancelled /\ cancelled' = FALSE
      /\ UNCHANGED <<pc, executor, task, up, mem, marks, worker, run, bus, crashes>>
  BY DEF RunnerSwallowsCancel, ChildAt
<1>3. TypeOK' /\ Located'
  BY <1>2 DEF IndInv, TypeOK, Located, Record, ChildAlone, Places, ChildPlaces
<1>4. RecordKept' /\ Begun'
  BY <1>2 DEF IndInv, RecordKept, Begun, ChildAlone, Terminal, TerminalStatuses
<1>5. WorkerOwned' /\ Undisturbed'
  BY <1>2
  DEF IndInv, WorkerOwned, Undisturbed, Located, Begun, RecordKept, ChildAlone, Terminal,
    Exits
<1>6. EndedIsSettled' /\ ConfirmedIsGone'
  BY <1>2
  DEF IndInv, EndedIsSettled, ConfirmedIsGone, Located, WorkerOwned, RecordKept,
    ChildAlone, Terminal
<1>7. Allowed
  BY <1>2, NothingWritten DEF IndInv
<1> QED
  BY <1>3, <1>4, <1>5, <1>6, <1>7 DEF IndInv

LEMMA WorkerExitsKeeps ==
  ASSUME IndInv, WorkerExits, UNCHANGED executor
  PROVE  IndInv' /\ Allowed
<1>2. /\ worker \in Alive /\ worker' \in Exits
      /\ worker' = "cancelled" => worker = "asked"
      /\ UNCHANGED <<pc, executor, task, up, mem, marks, cancelled, run, bus, crashes>>
  BY DEF WorkerExits
<1>3. TypeOK' /\ Located'
  BY <1>2 DEF IndInv, TypeOK, Located, Record, ChildAlone, Places, ChildPlaces
<1>4. RecordKept' /\ Begun'
  BY <1>2 DEF IndInv, RecordKept, Begun, ChildAlone, Terminal, TerminalStatuses
<1>5. WorkerOwned' /\ Undisturbed'
  BY <1>2
  DEF IndInv, WorkerOwned, Undisturbed, Located, Begun, RecordKept, ChildAlone, Terminal,
    Exits
<1>6. EndedIsSettled' /\ ConfirmedIsGone'
  BY <1>2
  DEF IndInv, EndedIsSettled, ConfirmedIsGone, Located, WorkerOwned, RecordKept,
    ChildAlone, Terminal
<1>7. Allowed
  BY <1>2, NothingWritten DEF IndInv
<1> QED
  BY <1>3, <1>4, <1>5, <1>6, <1>7 DEF IndInv

(* The record of the end, and the notice. *)

LEMMA ReportTerminationKeeps ==
  ASSUME IndInv, ReportTermination, UNCHANGED executor
  PROVE  IndInv' /\ Allowed
<1>1. pc["child"] = "reporting" /\ (ChildAlone("dead") \/ ChildAlone("finishing"))
  BY ChildGoes DEF IndInv, ReportTermination, ChildAt, ChildPlaces
<1>2. /\ \/ /\ task' = task /\ mem # "none" /\ TerminationIllegal(task, mem)
            /\ ChildAlone("dead")
         \/ /\ (task' = task /\ mem = "none") \/ task' = WithTermination(task, mem)
            /\ ChildAlone("finishing")
      /\ UNCHANGED <<executor, up, mem, marks, cancelled, worker, run, bus, crashes>>
  BY ChildGoes DEF IndInv, ReportTermination, ChildAt, ChildPlaces
<1>3. /\ task' \in Record
      /\ task'.delivery = task.delivery /\ task'.reservation = task.reservation
      /\ task'.termination \in {task.termination, mem}
      /\ Terminal(task) => Terminal(task')
      /\ task'.status = task.status \/ Terminal(task')
      /\ task'.termination = "termination_failed" => Terminal(task')
      /\ pc'["child"] = "dead" => task' = task /\ ~Terminal(task)
      /\ mem \in {"none", "cooperatively_exited"} /\ task.termination = "none" =>
           pc'["child"] = "finishing"
  <2>1. task \in Record /\ mem \in Terminations
    BY RecordTyped DEF IndInv, TypeOK
  <2>2. CASE task' = task
    <3>1. <<"none", "cooperatively_exited">> \in TerminationMoves
      BY DEF TerminationMoves
    <3> QED
      BY <1>1, <1>2, <2>1, <2>2, <3>1
      DEF IndInv, RecordKept, TerminationIllegal, TerminationIgnored, ChildAlone
  <2>3. CASE task' = WithTermination(task, mem) /\ pc'["child"] = "finishing"
    BY <2>1, <2>3, TerminationWritten
    DEF IndInv, RecordKept, Terminal, TerminalStatuses
  <2> QED
    BY <1>2, <2>2, <2>3 DEF ChildAlone
<1>4. TypeOK' /\ Located'
  BY <1>1, <1>2, <1>3 DEF IndInv, TypeOK, Located, Record, ChildAlone, Places, ChildPlaces
<1>5. RecordKept' /\ Begun'
  BY <1>1, <1>2, <1>3
  DEF IndInv, RecordKept, Begun, ChildAlone, Terminal, TerminalStatuses
<1>6. WorkerOwned' /\ Undisturbed'
  BY <1>1, <1>2, <1>3
  DEF IndInv, WorkerOwned, Undisturbed, Located, Begun, RecordKept, ChildAlone, Terminal,
    Exits
<1>7. EndedIsSettled' /\ ConfirmedIsGone'
  BY <1>1, <1>2, <1>3
  DEF IndInv, EndedIsSettled, ConfirmedIsGone, Located, WorkerOwned, RecordKept,
    ChildAlone, Terminal
<1>8. Allowed
  BY <1>1, <1>2, <1>3, NothingWritten, TerminationAllowed DEF IndInv, TypeOK
<1> QED
  BY <1>4, <1>5, <1>6, <1>7, <1>8 DEF IndInv

LEMMA FinishKeeps ==
  ASSUME IndInv, Finish, UNCHANGED executor
  PROVE  IndInv' /\ Allowed
<1>1. pc["child"] = "finishing" /\ ChildAlone("settling")
  BY ChildGoes DEF IndInv, Finish, ChildAt, ChildPlaces
<1>2. /\ task' = WithStatus(task, run.outcome)
      /\ UNCHANGED <<executor, up, mem, marks, cancelled, worker, run, bus, crashes>>
  BY DEF Finish
<1>3. /\ task' \in Record /\ Terminal(task')
      /\ task'.termination = task.termination /\ task'.delivery = task.delivery
      /\ task'.reservation = task.reservation
  <2>1. task \in Record /\ run.outcome \in Statuses /\ run.outcome \in TerminalStatuses
    BY RecordTyped DEF IndInv, TypeOK, Statuses
  <2> QED
    BY <1>1, <1>2, <2>1, StatusWritten DEF IndInv, RecordKept, Terminal
<1>4. TypeOK' /\ Located'
  BY <1>1, <1>2, <1>3 DEF IndInv, TypeOK, Located, Record, ChildAlone, Places, ChildPlaces
<1>5. RecordKept' /\ Begun'
  BY <1>1, <1>2, <1>3
  DEF IndInv, RecordKept, Begun, ChildAlone, Terminal, TerminalStatuses
<1>6. WorkerOwned' /\ Undisturbed'
  BY <1>1, <1>2, <1>3
  DEF IndInv, WorkerOwned, Undisturbed, Located, Begun, RecordKept, ChildAlone, Terminal,
    Exits
<1>7. EndedIsSettled' /\ ConfirmedIsGone'
  BY <1>1, <1>2, <1>3
  DEF IndInv, EndedIsSettled, ConfirmedIsGone, Located, WorkerOwned, RecordKept,
    ChildAlone, Terminal
<1>8. Allowed
  BY <1>1, <1>2, <1>3, StatusAllowed DEF IndInv, TypeOK, Statuses
<1> QED
  BY <1>4, <1>5, <1>6, <1>7, <1>8 DEF IndInv

LEMMA SettleBudgetKeeps ==
  ASSUME IndInv, SettleBudget, UNCHANGED executor
  PROVE  IndInv' /\ Allowed
<1>1. pc["child"] = "settling" /\ ChildAlone("endflush")
  BY ChildGoes DEF IndInv, SettleBudget, ChildAt, ChildPlaces
<1>2. /\ task' = IF task.reservation = "reserved" THEN WithReservation(task, "settled")
                ELSE task
      /\ UNCHANGED <<executor, up, mem, marks, cancelled, worker, run, bus, crashes>>
  BY DEF SettleBudget
<1>3. /\ task' \in Record /\ task'.reservation = "settled"
      /\ task'.termination = task.termination /\ task'.delivery = task.delivery
      /\ task'.status = task.status
  BY <1>2, RecordTyped DEF IndInv, RecordKept, WithReservation, Record, Reservations
<1>4. TypeOK' /\ Located'
  BY <1>1, <1>2, <1>3 DEF IndInv, TypeOK, Located, Record, ChildAlone, Places, ChildPlaces
<1>5. RecordKept' /\ Begun'
  BY <1>1, <1>2, <1>3
  DEF IndInv, RecordKept, Begun, ChildAlone, Terminal, TerminalStatuses
<1>6. WorkerOwned' /\ Undisturbed'
  BY <1>1, <1>2, <1>3
  DEF IndInv, WorkerOwned, Undisturbed, Located, Begun, RecordKept, ChildAlone, Terminal,
    Exits
<1>7. EndedIsSettled' /\ ConfirmedIsGone'
  BY <1>1, <1>2, <1>3
  DEF IndInv, EndedIsSettled, ConfirmedIsGone, Located, WorkerOwned, RecordKept,
    ChildAlone, Terminal
<1>8. Allowed
  BY <1>1, <1>2, <1>3 DEF Allowed
<1> QED
  BY <1>4, <1>5, <1>6, <1>7, <1>8 DEF IndInv

LEMMA EndFlushedKeeps ==
  ASSUME IndInv, EndFlushed, UNCHANGED executor
  PROVE  IndInv' /\ Allowed
<1>1. pc["child"] = "endflush" /\ ChildAlone(IF run.announces THEN "announcing" ELSE "dead")
  BY ChildGoes DEF IndInv, EndFlushed, ChildAt, ChildPlaces
<1>2. /\ cancelled' = FALSE
      /\ UNCHANGED <<executor, task, up, mem, marks, worker, run, bus, crashes>>
  BY DEF EndFlushed
<1>3. TypeOK' /\ Located'
  BY <1>1, <1>2 DEF IndInv, TypeOK, Located, Record, ChildAlone, Places, ChildPlaces
<1>4. RecordKept' /\ Begun'
  BY <1>1, <1>2 DEF IndInv, RecordKept, Begun, ChildAlone, Terminal, TerminalStatuses
<1>5. WorkerOwned' /\ Undisturbed'
  BY <1>1, <1>2
  DEF IndInv, WorkerOwned, Undisturbed, Located, Begun, RecordKept, ChildAlone, Terminal,
    Exits
<1>6. EndedIsSettled' /\ ConfirmedIsGone'
  BY <1>1, <1>2
  DEF IndInv, EndedIsSettled, ConfirmedIsGone, Located, WorkerOwned, RecordKept,
    ChildAlone, Terminal
<1>7. Allowed
  BY <1>1, <1>2, NothingWritten DEF IndInv
<1> QED
  BY <1>3, <1>4, <1>5, <1>6, <1>7 DEF IndInv

LEMMA AnnounceKeeps ==
  ASSUME IndInv, Announce, UNCHANGED executor
  PROVE  IndInv' /\ Allowed
<1>1. pc["child"] = "announcing" /\ (ChildAlone("dead") \/ ChildAlone("readyflush"))
  BY ChildGoes DEF IndInv, Announce, ChildAt, ChildPlaces
<1>2. /\ \/ ReadyIllegal(task) /\ task' = task
         \/ ~ReadyIllegal(task) /\ task' = WithDelivery(task, "ready")
      /\ UNCHANGED <<executor, up, mem, marks, cancelled, worker, run, bus, crashes>>
  BY DEF Announce
<1>3. /\ task' \in Record /\ UNCHANGED <<task.status, task.termination, task.reservation>>
      /\ task'.delivery # "not_ready"
      /\ task.delivery = "claimed_pending_delivery" => task'.delivery = task.delivery
  BY <1>2, RecordTyped, DeliveryWritten DEF IndInv, ReadyIllegal, Deliveries
<1>4. TypeOK' /\ Located'
  BY <1>1, <1>2, <1>3 DEF IndInv, TypeOK, Located, Record, ChildAlone, Places, ChildPlaces
<1>5. RecordKept' /\ Begun'
  BY <1>1, <1>2, <1>3
  DEF IndInv, RecordKept, Begun, ChildAlone, Terminal, TerminalStatuses
<1>6. WorkerOwned' /\ Undisturbed'
  BY <1>1, <1>2, <1>3
  DEF IndInv, WorkerOwned, Undisturbed, Located, Begun, RecordKept, ChildAlone, Terminal,
    Exits
<1>7. EndedIsSettled' /\ ConfirmedIsGone'
  BY <1>1, <1>2, <1>3
  DEF IndInv, EndedIsSettled, ConfirmedIsGone, Located, WorkerOwned, RecordKept,
    ChildAlone, Terminal
<1>8. Allowed
  BY <1>1, <1>2, <1>3, NothingWritten, OfferAllowed DEF IndInv, RecordKept
<1> QED
  BY <1>4, <1>5, <1>6, <1>7, <1>8 DEF IndInv

LEMMA PublishInboundKeeps ==
  ASSUME IndInv, PublishInbound, UNCHANGED executor
  PROVE  IndInv' /\ Allowed
<1>1. pc["child"] = "readyflush" /\ ChildAlone("dead")
  BY ChildGoes DEF IndInv, PublishInbound, ChildAt, ChildPlaces
<1>2. /\ bus' \in Nat /\ cancelled' = FALSE
      /\ UNCHANGED <<executor, task, up, mem, marks, worker, run, crashes>>
  BY DEF IndInv, TypeOK, PublishInbound
<1>3. TypeOK' /\ Located'
  BY <1>1, <1>2 DEF IndInv, TypeOK, Located, Record, ChildAlone, Places, ChildPlaces
<1>4. RecordKept' /\ Begun'
  BY <1>1, <1>2 DEF IndInv, RecordKept, Begun, ChildAlone, Terminal, TerminalStatuses
<1>5. WorkerOwned' /\ Undisturbed'
  BY <1>1, <1>2
  DEF IndInv, WorkerOwned, Undisturbed, Located, Begun, RecordKept, ChildAlone, Terminal,
    Exits
<1>6. EndedIsSettled' /\ ConfirmedIsGone'
  BY <1>1, <1>2
  DEF IndInv, EndedIsSettled, ConfirmedIsGone, Located, WorkerOwned, RecordKept,
    ChildAlone, Terminal
<1>7. Allowed
  BY <1>1, <1>2, NothingWritten DEF IndInv
<1> QED
  BY <1>3, <1>4, <1>5, <1>6, <1>7 DEF IndInv


-----------------------------------------------------------------------------
(* The cancellers' steps.  A canceller that steps has not been through a crash, *)
(* and once it has stepped the run is no longer undisturbed.                     *)

LEMMA RecordsWrites ==
  ASSUME IndInv, NEW c \in Cancellers, NEW x \in Terminations,
         NEW next \in CancellerPlaces, Records(c, x, next)
  PROVE  /\ CancellerAlone(c, next) \/ CancellerAlone(c, "raised")
         /\ task' \in Record
         /\ task'.delivery = task.delivery /\ task'.reservation = task.reservation
         /\ task'.termination \in {task.termination, x}
         /\ Terminal(task) => Terminal(task')
         /\ task'.status = task.status \/ (x = "termination_failed" /\ Terminal(task'))
         /\ x = "termination_failed" => pc'[c] = "raised" \/ Terminal(task')
         /\ task'.termination = "termination_failed" => Terminal(task')
         /\ Allowed
<1>1. task \in Record /\ TypeOK /\ RecordKept
  BY RecordTyped DEF IndInv
<1>2. CASE TerminationIllegal(task, x)
  <2>1. task' = task /\ CancellerAlone(c, "raised")
    BY <1>1, <1>2, CancellerGoes DEF Records, CancellerPlaces
  <2> QED
    BY <1>1, <2>1, NothingWritten DEF RecordKept, CancellerAlone
<1>3. CASE ~TerminationIllegal(task, x)
  <2>1. task' = WithTermination(task, x) /\ CancellerAlone(c, next)
    BY <1>1, <1>3, CancellerGoes DEF Records
  <2>2. Allowed
    BY <1>1, <2>1, TerminationAllowed
  <2> QED
    BY <1>1, <1>3, <2>1, <2>2, TerminationWritten
    DEF RecordKept, Terminal, TerminalStatuses
<1> QED
  BY <1>2, <1>3

LEMMA SendKeeps ==
  ASSUME IndInv, NEW c \in Cancellers, Send(c), UNCHANGED executor
  PROVE  IndInv' /\ Allowed
<1>1. pc[c] = "sending" /\ CancellerAlone(c, IF Handle THEN "inline" ELSE "join")
  BY CancellerGoes DEF IndInv, Send, At, CancellerPlaces
<1>2. /\ cancelled' = IF Handle THEN cancelled ELSE TRUE
      /\ UNCHANGED <<executor, task, up, mem, marks, worker, run, bus, crashes>>
  BY DEF Send
<1>3. TypeOK' /\ Located'
  BY <1>1, <1>2
  DEF IndInv, TypeOK, Located, Record, CancellerAlone, Places, CancellerPlaces
<1>4. RecordKept' /\ Begun'
  BY <1>1, <1>2 DEF IndInv, RecordKept, Begun, CancellerAlone, Terminal, TerminalStatuses
<1>5. WorkerOwned' /\ Undisturbed'
  BY <1>1, <1>2
  DEF IndInv, WorkerOwned, Undisturbed, Located, Begun, RecordKept, CancellerAlone,
    Terminal, Exits
<1>6. EndedIsSettled' /\ ConfirmedIsGone'
  BY <1>1, <1>2
  DEF IndInv, EndedIsSettled, ConfirmedIsGone, Located, WorkerOwned, RecordKept,
    CancellerAlone, Terminal
<1>7. Allowed
  BY <1>1, <1>2, NothingWritten DEF IndInv
<1> QED
  BY <1>3, <1>4, <1>5, <1>6, <1>7 DEF IndInv

LEMMA JoinEndsKeeps ==
  ASSUME IndInv, NEW c \in Cancellers, JoinEnds(c), UNCHANGED executor
  PROVE  IndInv' /\ Allowed
<1>1. /\ pc[c] = "join"
      /\ CancellerAlone(c, IF pc["child"] = "dead" THEN "concluding" ELSE "markfailing")
  BY CancellerGoes DEF IndInv, JoinEnds, At, CancellerPlaces
<1>2. /\ pc["child"] = "dead" \/ ~cancelled
      /\ UNCHANGED <<executor, task, up, mem, marks, cancelled, worker, run, bus, crashes>>
  BY DEF JoinEnds
<1>3. TypeOK' /\ Located'
  BY <1>1, <1>2
  DEF IndInv, TypeOK, Located, Record, CancellerAlone, Places, CancellerPlaces
<1>4. RecordKept' /\ Begun'
  BY <1>1, <1>2 DEF IndInv, RecordKept, Begun, CancellerAlone, Terminal, TerminalStatuses
<1>5. WorkerOwned' /\ Undisturbed'
  BY <1>1, <1>2
  DEF IndInv, WorkerOwned, Undisturbed, Located, Begun, RecordKept, CancellerAlone,
    Terminal, Exits
<1>6. EndedIsSettled' /\ ConfirmedIsGone'
  BY <1>1, <1>2
  DEF IndInv, EndedIsSettled, ConfirmedIsGone, Located, WorkerOwned, RecordKept,
    CancellerAlone, Terminal
<1>7. Allowed
  BY <1>1, <1>2, NothingWritten DEF IndInv
<1> QED
  BY <1>3, <1>4, <1>5, <1>6, <1>7 DEF IndInv

LEMMA WaitForExitKeeps ==
  ASSUME IndInv, NEW c \in Cancellers, WaitForExit(c), UNCHANGED executor
  PROVE  IndInv' /\ Allowed
<1>1. pc[c] = "inline" /\ CancellerAlone(c, IF Handle THEN "grace" ELSE "concluding")
  BY CancellerGoes DEF IndInv, WaitForExit, At, CancellerPlaces
<1>2. UNCHANGED <<executor, task, up, mem, marks, cancelled, worker, run, bus, crashes>>
  BY DEF WaitForExit
<1>3. TypeOK' /\ Located'
  BY <1>1, <1>2
  DEF IndInv, TypeOK, Located, Record, CancellerAlone, Places, CancellerPlaces
<1>4. RecordKept' /\ Begun'
  BY <1>1, <1>2 DEF IndInv, RecordKept, Begun, CancellerAlone, Terminal, TerminalStatuses
<1>5. WorkerOwned' /\ Undisturbed'
  BY <1>1, <1>2
  DEF IndInv, WorkerOwned, Undisturbed, Located, Begun, RecordKept, CancellerAlone,
    Terminal, Exits
<1>6. EndedIsSettled' /\ ConfirmedIsGone'
  BY <1>1, <1>2
  DEF IndInv, EndedIsSettled, ConfirmedIsGone, Located, WorkerOwned, RecordKept,
    CancellerAlone, Terminal
<1>7. Allowed
  BY <1>1, <1>2, NothingWritten DEF IndInv
<1> QED
  BY <1>3, <1>4, <1>5, <1>6, <1>7 DEF IndInv

LEMMA ExitSeenKeeps ==
  ASSUME IndInv, NEW c \in Cancellers, ExitSeen(c), UNCHANGED executor
  PROVE  IndInv' /\ Allowed
<1>1. pc[c] = "grace" /\ CancellerAlone(c, "concluding")
  BY CancellerGoes DEF IndInv, ExitSeen, At, CancellerPlaces
<1>2. /\ worker \notin Alive
      /\ UNCHANGED <<executor, task, up, mem, marks, cancelled, worker, run, bus, crashes>>
  BY DEF ExitSeen
<1>3. TypeOK' /\ Located'
  BY <1>1, <1>2
  DEF IndInv, TypeOK, Located, Record, CancellerAlone, Places, CancellerPlaces
<1>4. RecordKept' /\ Begun'
  BY <1>1, <1>2 DEF IndInv, RecordKept, Begun, CancellerAlone, Terminal, TerminalStatuses
<1>5. WorkerOwned' /\ Undisturbed'
  BY <1>1, <1>2
  DEF IndInv, WorkerOwned, Undisturbed, Located, Begun, RecordKept, CancellerAlone,
    Terminal, Exits
<1>6. EndedIsSettled' /\ ConfirmedIsGone'
  BY <1>1, <1>2
  DEF IndInv, EndedIsSettled, ConfirmedIsGone, Located, WorkerOwned, RecordKept,
    CancellerAlone, Terminal
<1>7. Allowed
  BY <1>1, <1>2, NothingWritten DEF IndInv
<1> QED
  BY <1>3, <1>4, <1>5, <1>6, <1>7 DEF IndInv

LEMMA KillUnconfirmedKeeps ==
  ASSUME IndInv, NEW c \in Cancellers, KillUnconfirmed(c), UNCHANGED executor
  PROVE  IndInv' /\ Allowed
<1>1. pc[c] = "killing" /\ CancellerAlone(c, "markfailing")
  BY CancellerGoes DEF IndInv, KillUnconfirmed, At, CancellerPlaces
<1>2. UNCHANGED <<executor, task, up, mem, marks, cancelled, worker, run, bus, crashes>>
  BY DEF KillUnconfirmed
<1>3. TypeOK' /\ Located'
  BY <1>1, <1>2
  DEF IndInv, TypeOK, Located, Record, CancellerAlone, Places, CancellerPlaces
<1>4. RecordKept' /\ Begun'
  BY <1>1, <1>2 DEF IndInv, RecordKept, Begun, CancellerAlone, Terminal, TerminalStatuses
<1>5. WorkerOwned' /\ Undisturbed'
  BY <1>1, <1>2
  DEF IndInv, WorkerOwned, Undisturbed, Located, Begun, RecordKept, CancellerAlone,
    Terminal, Exits
<1>6. EndedIsSettled' /\ ConfirmedIsGone'
  BY <1>1, <1>2
  DEF IndInv, EndedIsSettled, ConfirmedIsGone, Located, WorkerOwned, RecordKept,
    CancellerAlone, Terminal
<1>7. Allowed
  BY <1>1, <1>2, NothingWritten DEF IndInv
<1> QED
  BY <1>3, <1>4, <1>5, <1>6, <1>7 DEF IndInv

LEMMA ParentWaitEndsKeeps ==
  ASSUME IndInv, NEW c \in Cancellers, ParentWaitEnds(c), UNCHANGED executor
  PROVE  IndInv' /\ Allowed
<1>1. pc[c] = "parentwait" /\ CancellerAlone(c, "concluding")
  BY CancellerGoes DEF IndInv, ParentWaitEnds, At, CancellerPlaces
<1>2. UNCHANGED <<executor, task, up, mem, marks, cancelled, worker, run, bus, crashes>>
  BY DEF ParentWaitEnds
<1>3. TypeOK' /\ Located'
  BY <1>1, <1>2
  DEF IndInv, TypeOK, Located, Record, CancellerAlone, Places, CancellerPlaces
<1>4. RecordKept' /\ Begun'
  BY <1>1, <1>2 DEF IndInv, RecordKept, Begun, CancellerAlone, Terminal, TerminalStatuses
<1>5. WorkerOwned' /\ Undisturbed'
  BY <1>1, <1>2
  DEF IndInv, WorkerOwned, Undisturbed, Located, Begun, RecordKept, CancellerAlone,
    Terminal, Exits
<1>6. EndedIsSettled' /\ ConfirmedIsGone'
  BY <1>1, <1>2
  DEF IndInv, EndedIsSettled, ConfirmedIsGone, Located, WorkerOwned, RecordKept,
    CancellerAlone, Terminal
<1>7. Allowed
  BY <1>1, <1>2, NothingWritten DEF IndInv
<1> QED
  BY <1>3, <1>4, <1>5, <1>6, <1>7 DEF IndInv

LEMMA ConcludeKeeps ==
  ASSUME IndInv, NEW c \in Cancellers, Conclude(c), UNCHANGED executor
  PROVE  IndInv' /\ Allowed
<1>1. pc[c] = "concluding" /\ CancellerAlone(c, "finished")
  BY CancellerGoes DEF IndInv, Conclude, At, CancellerPlaces
<1>2. /\ mem' \in {mem, "cooperatively_exited"}
      /\ UNCHANGED <<executor, task, up, marks, cancelled, worker, run, bus, crashes>>
  BY DEF Conclude
<1>3. TypeOK' /\ Located'
  BY <1>1, <1>2
  DEF IndInv, TypeOK, Located, Record, CancellerAlone, Places, CancellerPlaces,
    Terminations
<1>4. RecordKept' /\ Begun'
  BY <1>1, <1>2 DEF IndInv, RecordKept, Begun, CancellerAlone, Terminal, TerminalStatuses
<1>5. WorkerOwned' /\ Undisturbed'
  BY <1>1, <1>2
  DEF IndInv, WorkerOwned, Undisturbed, Located, Begun, RecordKept, CancellerAlone,
    Terminal, Exits
<1>6. EndedIsSettled' /\ ConfirmedIsGone'
  BY <1>1, <1>2
  DEF IndInv, EndedIsSettled, ConfirmedIsGone, Located, WorkerOwned, RecordKept,
    CancellerAlone, Terminal
<1>7. Allowed
  BY <1>1, <1>2, NothingWritten DEF IndInv
<1> QED
  BY <1>3, <1>4, <1>5, <1>6, <1>7 DEF IndInv

LEMMA FailPublishKeeps ==
  ASSUME IndInv, NEW c \in Cancellers, FailPublish(c), UNCHANGED executor
  PROVE  IndInv' /\ Allowed
<1>1. pc[c] = "failflush" /\ CancellerAlone(c, "finished")
  BY CancellerGoes DEF IndInv, FailPublish, At, CancellerPlaces
<1>2. /\ bus' = bus + 1
      /\ UNCHANGED <<executor, task, up, mem, marks, cancelled, worker, run, crashes>>
  BY DEF FailPublish
<1>3. TypeOK' /\ Located'
  BY <1>1, <1>2
  DEF IndInv, TypeOK, Located, Record, CancellerAlone, Places, CancellerPlaces
<1>4. RecordKept' /\ Begun'
  BY <1>1, <1>2 DEF IndInv, RecordKept, Begun, CancellerAlone, Terminal, TerminalStatuses
<1>5. WorkerOwned' /\ Undisturbed'
  BY <1>1, <1>2
  DEF IndInv, WorkerOwned, Undisturbed, Located, Begun, RecordKept, CancellerAlone,
    Terminal, Exits
<1>6. EndedIsSettled' /\ ConfirmedIsGone'
  BY <1>1, <1>2
  DEF IndInv, EndedIsSettled, ConfirmedIsGone, Located, WorkerOwned, RecordKept,
    CancellerAlone, Terminal
<1>7. Allowed
  BY <1>1, <1>2, NothingWritten DEF IndInv
<1> QED
  BY <1>3, <1>4, <1>5, <1>6, <1>7 DEF IndInv

LEMMA RecordGraceKeeps ==
  ASSUME IndInv, NEW c \in Cancellers, RecordGrace(c), UNCHANGED executor
  PROVE  IndInv' /\ Allowed
<1>1. pc[c] = "recording" /\ (CancellerAlone(c, "sending") \/ CancellerAlone(c, "raised"))
  BY RecordsWrites DEF RecordGrace, At, CancellerPlaces, Terminations
<1>2. /\ worker' = IF Handle /\ worker = "running" THEN "asked" ELSE worker
      /\ UNCHANGED <<executor, up, mem, marks, cancelled, run, bus, crashes>>
  BY DEF RecordGrace
<1>3. /\ task' \in Record /\ Allowed
      /\ task'.delivery = task.delivery /\ task'.reservation = task.reservation
      /\ task'.termination \in {task.termination, "grace_waiting"}
      /\ task'.status = task.status
      /\ task'.termination = "termination_failed" => Terminal(task')
  BY RecordsWrites DEF RecordGrace, CancellerPlaces, Terminations
<1>4. TypeOK' /\ Located'
  BY <1>1, <1>2, <1>3
  DEF IndInv, TypeOK, Located, Record, CancellerAlone, Places, CancellerPlaces,
    Terminations
<1>5. RecordKept' /\ Begun'
  BY <1>1, <1>2, <1>3
  DEF IndInv, RecordKept, Begun, CancellerAlone, Terminal, TerminalStatuses
<1>6. WorkerOwned' /\ Undisturbed'
  BY <1>1, <1>2, <1>3
  DEF IndInv, WorkerOwned, Undisturbed, Located, Begun, RecordKept, CancellerAlone,
    Terminal, Exits
<1>7. EndedIsSettled' /\ ConfirmedIsGone'
  BY <1>1, <1>2, <1>3
  DEF IndInv, EndedIsSettled, ConfirmedIsGone, Located, WorkerOwned, RecordKept,
    CancellerAlone, Terminal
<1> QED
  BY <1>4, <1>5, <1>6, <1>7, <1>3 DEF IndInv

LEMMA GraceExpiresKeeps ==
  ASSUME IndInv, NEW c \in Cancellers, GraceExpires(c), UNCHANGED executor
  PROVE  IndInv' /\ Allowed
<1>1. pc[c] = "grace" /\ (CancellerAlone(c, "killing") \/ CancellerAlone(c, "raised"))
  BY RecordsWrites DEF GraceExpires, At, CancellerPlaces, Terminations
<1>2. /\ mem' = "force_kill_requested"
      /\ UNCHANGED <<executor, up, marks, cancelled, worker, run, bus, crashes>>
  BY DEF GraceExpires
<1>3. /\ task' \in Record /\ Allowed
      /\ task'.delivery = task.delivery /\ task'.reservation = task.reservation
      /\ task'.termination \in {task.termination, "force_kill_requested"}
      /\ task'.status = task.status
      /\ task'.termination = "termination_failed" => Terminal(task')
  BY RecordsWrites DEF GraceExpires, CancellerPlaces, Terminations
<1>4. TypeOK' /\ Located'
  BY <1>1, <1>2, <1>3
  DEF IndInv, TypeOK, Located, Record, CancellerAlone, Places, CancellerPlaces,
    Terminations
<1>5. RecordKept' /\ Begun'
  BY <1>1, <1>2, <1>3
  DEF IndInv, RecordKept, Begun, CancellerAlone, Terminal, TerminalStatuses
<1>6. WorkerOwned' /\ Undisturbed'
  BY <1>1, <1>2, <1>3
  DEF IndInv, WorkerOwned, Undisturbed, Located, Begun, RecordKept, CancellerAlone,
    Terminal, Exits
<1>7. EndedIsSettled' /\ ConfirmedIsGone'
  BY <1>1, <1>2, <1>3
  DEF IndInv, EndedIsSettled, ConfirmedIsGone, Located, WorkerOwned, RecordKept,
    CancellerAlone, Terminal
<1> QED
  BY <1>4, <1>5, <1>6, <1>7, <1>3 DEF IndInv

LEMMA KillConfirmedKeeps ==
  ASSUME IndInv, NEW c \in Cancellers, KillConfirmed(c), UNCHANGED executor
  PROVE  IndInv' /\ Allowed
<1>1. /\ pc[c] = "killing"
      /\ \/ CancellerAlone(c, "concluding") \/ CancellerAlone(c, "parentwait")
         \/ CancellerAlone(c, "raised")
  BY RecordsWrites DEF KillConfirmed, At, CancellerPlaces, Terminations
<1>2. /\ worker \notin Alive /\ mem' = "force_killed"
      /\ UNCHANGED <<executor, up, marks, cancelled, worker, run, bus, crashes>>
  BY DEF KillConfirmed
<1>3. /\ task' \in Record /\ Allowed
      /\ task'.delivery = task.delivery /\ task'.reservation = task.reservation
      /\ task'.termination \in {task.termination, "force_killed"}
      /\ task'.status = task.status
      /\ task'.termination = "termination_failed" => Terminal(task')
  BY RecordsWrites DEF KillConfirmed, CancellerPlaces, Terminations
<1>4. TypeOK' /\ Located'
  BY <1>1, <1>2, <1>3
  DEF IndInv, TypeOK, Located, Record, CancellerAlone, Places, CancellerPlaces,
    Terminations
<1>5. RecordKept' /\ Begun'
  BY <1>1, <1>2, <1>3
  DEF IndInv, RecordKept, Begun, CancellerAlone, Terminal, TerminalStatuses
<1>6. WorkerOwned' /\ Undisturbed'
  BY <1>1, <1>2, <1>3
  DEF IndInv, WorkerOwned, Undisturbed, Located, Begun, RecordKept, CancellerAlone,
    Terminal, Exits
<1>7. EndedIsSettled' /\ ConfirmedIsGone'
  BY <1>1, <1>2, <1>3
  DEF IndInv, EndedIsSettled, ConfirmedIsGone, Located, WorkerOwned, RecordKept,
    CancellerAlone, Terminal
<1> QED
  BY <1>4, <1>5, <1>6, <1>7, <1>3 DEF IndInv

LEMMA RequestKeeps ==
  ASSUME IndInv, NEW c \in Cancellers, Request(c), UNCHANGED executor
  PROVE  IndInv' /\ Allowed
<1>1. /\ pc[c] = "idle" /\ pc["child"] # "dead"
      /\ \/ CancellerAlone(c, "recording") \/ CancellerAlone(c, "sending")
         \/ CancellerAlone(c, "raised")
  BY RecordsWrites, CancellerGoes DEF IndInv, Request, At, CancellerPlaces, Terminations
<1>2. /\ mem' = IF mem = "none" THEN "cancel_requested" ELSE mem
      /\ marks' \subseteq {"timeout", "failed"}
      /\ UNCHANGED <<executor, up, cancelled, worker, run, bus, crashes>>
  BY DEF IndInv, TypeOK, Request
<1>3. /\ task' \in Record /\ Allowed
      /\ task'.delivery = task.delivery /\ task'.reservation = task.reservation
      /\ task'.termination \in {task.termination, "cancel_requested"}
      /\ task'.status = task.status
      /\ task'.termination = "termination_failed" => Terminal(task')
  <2>1. CASE mem = "none"
    BY <2>1, RecordsWrites DEF Request, CancellerPlaces, Terminations
  <2>2. CASE mem # "none"
    BY <2>2, RecordTyped, NothingWritten DEF IndInv, RecordKept, Request
  <2> QED
    BY <2>1, <2>2
<1>4. TypeOK' /\ Located'
  BY <1>1, <1>2, <1>3
  DEF IndInv, TypeOK, Located, Record, CancellerAlone, Places, CancellerPlaces,
    Terminations
<1>5. RecordKept' /\ Begun'
  BY <1>1, <1>2, <1>3
  DEF IndInv, RecordKept, Begun, CancellerAlone, Terminal, TerminalStatuses
<1>6. WorkerOwned' /\ Undisturbed'
  BY <1>1, <1>2, <1>3
  DEF IndInv, WorkerOwned, Undisturbed, Located, Begun, RecordKept, CancellerAlone,
    Terminal, Exits
<1>7. EndedIsSettled' /\ ConfirmedIsGone'
  BY <1>1, <1>2, <1>3
  DEF IndInv, EndedIsSettled, ConfirmedIsGone, Located, WorkerOwned, RecordKept,
    CancellerAlone, Terminal
<1> QED
  BY <1>4, <1>5, <1>6, <1>7, <1>3 DEF IndInv

LEMMA MarkFailedKeeps ==
  ASSUME IndInv, NEW c \in Cancellers, MarkFailed(c), UNCHANGED executor
  PROVE  IndInv' /\ Allowed
<1>1. /\ pc[c] = "markfailing"
      /\ \/ CancellerAlone(c, "failannounce") \/ CancellerAlone(c, "finished")
         \/ CancellerAlone(c, "raised")
  BY RecordsWrites, CancellerGoes
  DEF IndInv, MarkFailed, At, CancellerPlaces, Terminations
<1>2. /\ mem' \in {mem, "termination_failed"}
      /\ marks' \subseteq {"timeout", "failed"}
      /\ UNCHANGED <<executor, up, cancelled, worker, run, bus, crashes>>
  BY DEF IndInv, TypeOK, MarkFailed
<1>3. /\ task' \in Record /\ Allowed
      /\ task'.delivery = task.delivery /\ task'.reservation = task.reservation
      /\ task'.termination \in {task.termination, "termination_failed"}
      /\ Terminal(task) => Terminal(task')
      /\ task'.status = task.status \/ Terminal(task')
      /\ task'.termination = "termination_failed" => Terminal(task')
      /\ pc["child"] = "dead" => task' = task /\ pc'[c] = "finished"
      /\ pc'[c] = "failannounce" => Terminal(task')
  <2>1. CASE pc["child"] = "dead"
    BY <2>1, RecordTyped, NothingWritten, CancellerGoes
    DEF IndInv, RecordKept, MarkFailed, CancellerPlaces, CancellerAlone
  <2>2. CASE pc["child"] # "dead"
    BY <2>2, RecordsWrites DEF MarkFailed, CancellerPlaces, Terminations
  <2> QED
    BY <2>1, <2>2
<1>4. TypeOK' /\ Located'
  BY <1>1, <1>2, <1>3
  DEF IndInv, TypeOK, Located, Record, CancellerAlone, Places, CancellerPlaces,
    Terminations
<1>5. RecordKept' /\ Begun'
  BY <1>1, <1>2, <1>3
  DEF IndInv, RecordKept, Begun, CancellerAlone, Terminal, TerminalStatuses
<1>6. WorkerOwned' /\ Undisturbed'
  BY <1>1, <1>2, <1>3
  DEF IndInv, WorkerOwned, Undisturbed, Located, Begun, RecordKept, CancellerAlone,
    Terminal, Exits
<1>7. EndedIsSettled' /\ ConfirmedIsGone'
  BY <1>1, <1>2, <1>3
  DEF IndInv, EndedIsSettled, ConfirmedIsGone, Located, WorkerOwned, RecordKept,
    CancellerAlone, Terminal
<1> QED
  BY <1>4, <1>5, <1>6, <1>7, <1>3 DEF IndInv

LEMMA FailAnnounceKeeps ==
  ASSUME IndInv, NEW c \in Cancellers, FailAnnounce(c), UNCHANGED executor
  PROVE  IndInv' /\ Allowed
<1>1. /\ pc[c] = "failannounce"
      /\ CancellerAlone(c, "failflush") \/ CancellerAlone(c, "raised")
  BY CancellerGoes DEF IndInv, FailAnnounce, At, CancellerPlaces
<1>2. /\ task' = IF ReadyIllegal(task) THEN task ELSE WithDelivery(task, "ready")
      /\ UNCHANGED <<executor, up, mem, marks, cancelled, worker, run, bus, crashes>>
  BY DEF FailAnnounce
<1>3. /\ task' \in Record /\ UNCHANGED <<task.status, task.termination, task.reservation>>
      /\ task'.delivery = task.delivery \/ task'.delivery # "not_ready"
      /\ task.delivery = "claimed_pending_delivery" => task'.delivery = task.delivery
      /\ Allowed
  <2>1. CASE ReadyIllegal(task)
    BY <1>2, <2>1, RecordTyped, NothingWritten DEF IndInv
  <2>2. CASE ~ReadyIllegal(task)
    BY <1>1, <1>2, <2>2, DeliveryWritten, OfferAllowed
    DEF IndInv, RecordKept, ReadyIllegal, Deliveries
  <2> QED
    BY <2>1, <2>2
<1>4. TypeOK' /\ Located'
  BY <1>1, <1>2, <1>3
  DEF IndInv, TypeOK, Located, Record, CancellerAlone, Places, CancellerPlaces
<1>5. RecordKept' /\ Begun'
  BY <1>1, <1>2, <1>3
  DEF IndInv, RecordKept, Begun, CancellerAlone, Terminal, TerminalStatuses
<1>6. WorkerOwned' /\ Undisturbed'
  BY <1>1, <1>2, <1>3
  DEF IndInv, WorkerOwned, Undisturbed, Located, Begun, RecordKept, CancellerAlone,
    Terminal, Exits
<1>7. EndedIsSettled' /\ ConfirmedIsGone'
  BY <1>1, <1>2, <1>3
  DEF IndInv, EndedIsSettled, ConfirmedIsGone, Located, WorkerOwned, RecordKept,
    CancellerAlone, Terminal
<1> QED
  BY <1>4, <1>5, <1>6, <1>7, <1>3 DEF IndInv


-----------------------------------------------------------------------------
(* The agent, which only delivers, and crashes. *)

LEMMA AgentClaimsKeeps ==
  ASSUME IndInv, AgentClaims, UNCHANGED executor
  PROVE  IndInv' /\ Allowed
<1>1. pc["agent"] = "idle" /\ (AgentAlone("holding") \/ UNCHANGED pc)
  BY AgentGoes DEF IndInv, AgentClaims, AgentPlaces
<1>2. /\ task' = IF Claimable(task) THEN WithDelivery(task, "claimed_pending_delivery")
                ELSE task
      /\ bus' \in Nat
      /\ UNCHANGED <<executor, up, mem, marks, cancelled, worker, run, crashes>>
  BY DEF IndInv, TypeOK, AgentClaims
<1>3. /\ task' \in Record /\ UNCHANGED <<task.status, task.termination, task.reservation>>
      /\ task'.delivery = task.delivery \/ task'.delivery # "not_ready"
      /\ pc'["agent"] = "holding" => task'.delivery = "claimed_pending_delivery"
      /\ Allowed
  <2>1. CASE ~Claimable(task)
    BY <1>2, <2>1, RecordTyped, NothingWritten DEF IndInv, RecordKept, AgentClaims
  <2>2. CASE Claimable(task)
    BY <1>2, <2>2, DeliveryWritten, TakeAllowed DEF IndInv, Deliveries
  <2> QED
    BY <2>1, <2>2
<1>4. TypeOK' /\ Located'
  BY <1>1, <1>2, <1>3 DEF IndInv, TypeOK, Located, Record, AgentAlone, Places, AgentPlaces
<1>5. RecordKept' /\ Begun'
  BY <1>1, <1>2, <1>3
  DEF IndInv, RecordKept, Begun, AgentAlone, Terminal, TerminalStatuses
<1>6. WorkerOwned' /\ Undisturbed'
  BY <1>1, <1>2, <1>3
  DEF IndInv, WorkerOwned, Undisturbed, Located, Begun, RecordKept, AgentAlone, Terminal,
    Exits
<1>7. EndedIsSettled' /\ ConfirmedIsGone'
  BY <1>1, <1>2, <1>3
  DEF IndInv, EndedIsSettled, ConfirmedIsGone, Located, WorkerOwned, RecordKept,
    AgentAlone, Terminal
<1> QED
  BY <1>4, <1>5, <1>6, <1>7, <1>3 DEF IndInv

LEMMA AgentConfirmsKeeps ==
  ASSUME IndInv, AgentConfirms, UNCHANGED executor
  PROVE  IndInv' /\ Allowed
<1>1. pc["agent"] = "holding" /\ AgentAlone("idle")
  BY AgentGoes DEF IndInv, AgentConfirms, AgentPlaces
<1>2. /\ \E d \in {"delivered", "delivery_failed"} : task' = WithDelivery(task, d)
      /\ UNCHANGED <<executor, up, mem, marks, cancelled, worker, run, bus, crashes>>
  BY DEF AgentConfirms
<1>3. /\ task' \in Record /\ UNCHANGED <<task.status, task.termination, task.reservation>>
      /\ task'.delivery # "not_ready" /\ Allowed
  <2>1. PICK d \in {"delivered", "delivery_failed"} : task' = WithDelivery(task, d)
    BY <1>2
  <2> QED
    BY <1>1, <2>1, DeliveryWritten, SettleAllowed DEF IndInv, RecordKept, Deliveries
<1>4. TypeOK' /\ Located'
  BY <1>1, <1>2, <1>3 DEF IndInv, TypeOK, Located, Record, AgentAlone, Places, AgentPlaces
<1>5. RecordKept' /\ Begun'
  BY <1>1, <1>2, <1>3
  DEF IndInv, RecordKept, Begun, AgentAlone, Terminal, TerminalStatuses
<1>6. WorkerOwned' /\ Undisturbed'
  BY <1>1, <1>2, <1>3
  DEF IndInv, WorkerOwned, Undisturbed, Located, Begun, RecordKept, AgentAlone, Terminal,
    Exits
<1>7. EndedIsSettled' /\ ConfirmedIsGone'
  BY <1>1, <1>2, <1>3
  DEF IndInv, EndedIsSettled, ConfirmedIsGone, Located, WorkerOwned, RecordKept,
    AgentAlone, Terminal
<1> QED
  BY <1>4, <1>5, <1>6, <1>7, <1>3 DEF IndInv

LEMMA AgentStoppedKeeps ==
  ASSUME IndInv, AgentStopped, UNCHANGED executor
  PROVE  IndInv' /\ Allowed
<1>1. pc["agent"] = "holding" /\ AgentAlone("idle")
  BY AgentGoes DEF IndInv, AgentStopped, AgentPlaces
<1>2. UNCHANGED <<executor, task, up, mem, marks, cancelled, worker, run, bus, crashes>>
  BY DEF AgentStopped
<1>3. TypeOK' /\ Located'
  BY <1>1, <1>2 DEF IndInv, TypeOK, Located, Record, AgentAlone, Places, AgentPlaces
<1>4. RecordKept' /\ Begun'
  BY <1>1, <1>2 DEF IndInv, RecordKept, Begun, AgentAlone, Terminal, TerminalStatuses
<1>5. WorkerOwned' /\ Undisturbed'
  BY <1>1, <1>2
  DEF IndInv, WorkerOwned, Undisturbed, Located, Begun, RecordKept, AgentAlone, Terminal,
    Exits
<1>6. EndedIsSettled' /\ ConfirmedIsGone'
  BY <1>1, <1>2
  DEF IndInv, EndedIsSettled, ConfirmedIsGone, Located, WorkerOwned, RecordKept,
    AgentAlone, Terminal
<1>7. Allowed
  BY <1>1, <1>2, NothingWritten DEF IndInv
<1> QED
  BY <1>3, <1>4, <1>5, <1>6, <1>7 DEF IndInv

LEMMA CrashKeeps ==
  ASSUME IndInv, Crash, UNCHANGED executor
  PROVE  IndInv' /\ Allowed
<1>1. /\ pc' \in [Actors -> Places]
      /\ pc'["child"] = "dead" /\ pc'["agent"] = "idle"
      /\ \A c \in Cancellers : pc'[c] = "finished"
  BY Names DEF Crash, Actors, Places, ChildPlaces, CancellerPlaces, AgentPlaces
<1>2. /\ up' = "down" /\ mem' = "none" /\ marks' = {} /\ cancelled' = FALSE /\ bus' = 0
      /\ crashes' \in 0..MaxCrashes /\ crashes' > 0
      /\ UNCHANGED <<executor, task, worker, run>>
  BY ManagerAssumption DEF IndInv, TypeOK, Crash
<1>3. TypeOK' /\ Located'
  BY <1>1, <1>2
  DEF IndInv, TypeOK, Located, Record, Places, ChildPlaces, CancellerPlaces, AgentPlaces,
    Terminations
<1>4. RecordKept' /\ Begun'
  BY <1>1, <1>2 DEF IndInv, RecordKept, Begun, Terminal, TerminalStatuses
<1>5. WorkerOwned' /\ Undisturbed'
  BY <1>1, <1>2
  DEF IndInv, WorkerOwned, Undisturbed, Located, Begun, RecordKept, Terminal, Exits
<1>6. EndedIsSettled' /\ ConfirmedIsGone'
  BY <1>1, <1>2
  DEF IndInv, EndedIsSettled, ConfirmedIsGone, Located, WorkerOwned, RecordKept, Terminal
<1>7. Allowed
  BY <1>1, <1>2, NothingWritten DEF IndInv
<1> QED
  BY <1>3, <1>4, <1>5, <1>6, <1>7 DEF IndInv

LEMMA RecoverKeeps ==
  ASSUME IndInv, Recover, UNCHANGED executor
  PROVE  IndInv' /\ Allowed
<1>2. /\ up = "down" /\ up' \in {"up", "refused"}
      /\ task' = task \/ task' = WithTermination(task, "termination_failed")
      /\ UNCHANGED <<pc, executor, mem, marks, cancelled, worker, run, bus, crashes>>
  BY DEF Recover
<1>3. /\ task' \in Record /\ Allowed
      /\ task'.delivery = task.delivery /\ task'.reservation = task.reservation
      /\ task'.termination \in {task.termination, "termination_failed"}
      /\ Terminal(task) => Terminal(task')
      /\ task'.status = task.status \/ Terminal(task')
      /\ task'.termination = "termination_failed" => Terminal(task')
  <2>1. task \in Record /\ "termination_failed" \in Terminations
    BY RecordTyped DEF IndInv, Terminations
  <2>2. CASE task' = task
    BY <2>1, <2>2, NothingWritten DEF IndInv, RecordKept
  <2>3. CASE task' = WithTermination(task, "termination_failed")
    BY <2>1, <2>3, TerminationWritten, TerminationAllowed
    DEF IndInv, RecordKept, Terminal, TerminalStatuses
  <2> QED
    BY <1>2, <2>2, <2>3
<1>4. TypeOK' /\ Located'
  BY <1>2, <1>3 DEF IndInv, TypeOK, Located, Record
<1>5. RecordKept' /\ Begun'
  BY <1>2, <1>3 DEF IndInv, RecordKept, Begun, Located, Terminal, TerminalStatuses
<1>6. WorkerOwned' /\ Undisturbed'
  BY <1>2, <1>3
  DEF IndInv, WorkerOwned, Undisturbed, Located, Begun, RecordKept, Terminal, Exits
<1>7. EndedIsSettled' /\ ConfirmedIsGone'
  BY <1>2, <1>3
  DEF IndInv, EndedIsSettled, ConfirmedIsGone, Located, WorkerOwned, RecordKept, Terminal
<1> QED
  BY <1>4, <1>5, <1>6, <1>7, <1>3 DEF IndInv

-----------------------------------------------------------------------------
(* The theorems. *)

LEMMA IndInvInit == Init => IndInv
<1> SUFFICES ASSUME Init PROVE IndInv
  OBVIOUS
<1>1. /\ pc \in [Actors -> Places] /\ pc["child"] = "scheduled" /\ pc["agent"] = "idle"
      /\ \A c \in Cancellers : pc[c] = "idle"
  BY Names DEF Init, Actors, Places, ChildPlaces, CancellerPlaces, AgentPlaces
<1>2. task \in Record
  BY DEF Init, Record, Statuses, Terminations, Deliveries, Reservations
<1>3. run \in [outcome : TerminalStatuses, announces : BOOLEAN]
  BY DEF Init, TerminalStatuses
<1>4. TypeOK
  <2>1. crashes \in 0..MaxCrashes /\ mem \in Terminations
    BY ManagerAssumption DEF Init, Terminations
  <2> QED
    BY <1>1, <1>2, <1>3, <2>1 DEF Init, TypeOK, Record, Places
<1>5. Located
  BY <1>1 DEF Init, Located, ChildPlaces, CancellerPlaces, AgentPlaces
<1>6. RecordKept /\ Begun
  BY <1>1 DEF Init, RecordKept, Begun, Terminal, TerminalStatuses
<1>7. WorkerOwned /\ Undisturbed
  BY <1>1 DEF Init, WorkerOwned, Undisturbed
<1>8. EndedIsSettled /\ ConfirmedIsGone
  BY <1>1 DEF Init, EndedIsSettled, ConfirmedIsGone
<1> QED
  BY <1>4, <1>5, <1>6, <1>7, <1>8 DEF IndInv

LEMMA NothingStepKeeps ==
  ASSUME IndInv, UNCHANGED <<vars, executor>>
  PROVE  IndInv' /\ Allowed
<1>1. UNCHANGED <<executor, task, up, pc, mem, marks, cancelled, worker, run, bus, crashes>>
  BY DEF vars
<1>2. TypeOK' /\ Located' /\ RecordKept' /\ Begun'
  BY <1>1 DEF IndInv, TypeOK, Located, RecordKept, Begun, Terminal
<1>3. WorkerOwned' /\ Undisturbed' /\ EndedIsSettled' /\ ConfirmedIsGone'
  BY <1>1 DEF IndInv, WorkerOwned, Undisturbed, EndedIsSettled, ConfirmedIsGone, Terminal
<1> QED
  BY <1>1, <1>2, <1>3, NothingWritten DEF IndInv

LEMMA IndInvStep ==
  ASSUME IndInv, [Next /\ UNCHANGED executor]_<<vars, executor>>
  PROVE  IndInv' /\ Allowed
<1>1. CASE UNCHANGED <<vars, executor>>
  BY <1>1, NothingStepKeeps
<1>2. CASE ChildStep /\ UNCHANGED executor
  BY <1>2, BeginKeeps, CancelledBeforeTryKeeps, LaunchKeeps, WorkerStartsKeeps,
    WorkerFailsToStartKeeps, RegisteredKeeps, CancelledInStartKeeps, WorkerUnstartedKeeps,
    CancelDeliveredKeeps, ChildSeesExitKeeps, OutcomeKnownKeeps, OutcomeOverdueKeeps,
    ReportTerminationKeeps, FinishKeeps, SettleBudgetKeeps, EndFlushedKeeps,
    AnnounceKeeps, PublishInboundKeeps
  DEF ChildStep
<1>3. CASE (RunnerStep \/ WorkerExits) /\ UNCHANGED executor
  BY <1>3, RunnerReturnsKeeps, RunnerSwallowsCancelKeeps, WorkerExitsKeeps DEF RunnerStep
<1>4. ASSUME NEW c \in Cancellers, Request(c) \/ CancellerStep(c), UNCHANGED executor
      PROVE  IndInv' /\ Allowed
  BY <1>4, RequestKeeps, RecordGraceKeeps, SendKeeps, JoinEndsKeeps, WaitForExitKeeps,
    ExitSeenKeeps, GraceExpiresKeeps, KillConfirmedKeeps, KillUnconfirmedKeeps,
    ParentWaitEndsKeeps, ConcludeKeeps, MarkFailedKeeps, FailAnnounceKeeps, FailPublishKeeps
  DEF CancellerStep
<1>5. CASE (AgentClaims \/ AgentConfirms \/ AgentStopped) /\ UNCHANGED executor
  BY <1>5, AgentClaimsKeeps, AgentConfirmsKeeps, AgentStoppedKeeps
<1>6. CASE (Crash \/ Recover) /\ UNCHANGED executor
  BY <1>6, CrashKeeps, RecoverKeeps
<1> QED
  BY <1>1, <1>2, <1>3, <1>4, <1>5, <1>6 DEF Next

\* The inductive invariant holds of every behaviour of this part of the code.
THEOREM Inductive == Spec => []IndInv
BY IndInvInit, IndInvStep, PTL DEF Spec

\* Every coroutine is at one of its places and the record has the fields
\* the store writes, whatever is cancelled, lost or crashes.
THEOREM ManagerTypeCorrect == Spec => []TypeOK
<1>1. IndInv => TypeOK
  BY DEF IndInv
<1> QED
  BY <1>1, Inductive, PTL

\* A run that no canceller touched and no crash cut off ends its record and
\* offers its result, for either executor and whatever the worker does.
THEOREM RunReports == Spec => []UncancelledRunReports
<1>1. IndInv => UncancelledRunReports
  BY DEF IndInv, Undisturbed, UncancelledRunReports
<1> QED
  BY <1>1, Inductive, PTL

\* Whichever coroutine writes the end, a task that has ended and whose own
\* coroutine is gone holds no token reservation.
THEOREM ReservationReturned == Spec => []EndedIsSettled
<1>1. IndInv => EndedIsSettled
  BY DEF IndInv
<1> QED
  BY <1>1, Inductive, PTL

\* Neither the memory nor the record calls an exit confirmed while the
\* worker lives, also when a kill races with the exit or with a crash.
THEOREM ExitConfirmed == Spec => []ConfirmedIsGone
<1>1. IndInv => ConfirmedIsGone
  BY DEF IndInv
<1> QED
  BY <1>1, Inductive, PTL

\* The child, its cancellers, the agent and recovery implement the contract of
\* a result: one end, one offer after it, one taker at a time.
THEOREM ContractKept == Spec => KeepsContract
<1>1. Init => Contract!Init
  BY DEF Init, Contract!Init
<1>2. IndInv /\ [Next /\ UNCHANGED executor]_<<vars, executor>> =>
        [Contract!Next]_<<task.status, task.delivery>>
  BY IndInvStep DEF Allowed
<1> QED
  BY <1>1, <1>2, Inductive, PTL DEF Spec, KeepsContract, Contract!Spec
=============================================================================

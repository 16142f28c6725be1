---------------------- MODULE SubagentAdmissionProofs ----------------------
(***************************************************************************)
(* Admission under _spawn_lock, for any number of calls, runs and sessions *)
(* and any limits: the lock excludes, the numbers of running and of durable *)
(* children and the tokens of a session are bounded, no two children work  *)
(* on the same thing, required children are registered, and a call that    *)
(* raises leaves nothing behind.                                           *)
(***************************************************************************)
EXTENDS SubagentAdmission, FiniteSetTheorems, WellFoundedInduction, TLAPS

Record == [status : Statuses \cup {"absent"}, reservation : Reservations, used : Nat]

\* Where a call is tells what it has written so far.
CallWrites ==
  /\ ~up => \A c \in Call : pc[c] \notin Holding
  /\ \A c \in Call :
       /\ pc[c] \in Holding \cup {"idle", "waiting", "refused", "raised"} =>
            child[c] = "none"
       /\ pc[c] = "creating" => task[c].status = "created"
       /\ pc[c] \in {"flushing", "registering", "scheduling", "failing"} =>
            task[c].status = "queued"
       /\ pc[c] \in {"releasing", "raising"} => task[c].status = "failed"
       /\ pc[c] = "raising" => task[c].reservation = "released"
       /\ pc[c] = "scheduling" /\ request[c].required => obligation[c] # "none"

\* The call that holds the lock has seen room for one more child, and only
\* it can take it.
RoomForHolder ==
  \A c \in Call : pc[c] \in Holding => Cardinality(Running) < MaxConcurrent

IndInv ==
  /\ TypeOK /\ LockIsHeld /\ CallWrites
  /\ RoomForHolder /\ ConcurrencyCap
  /\ RequiredIsRegistered /\ RaisedLeavesNothing

-----------------------------------------------------------------------------
(* Lemmas about records and about the table of running tasks. *)

LEMMA RecordStays ==
  ASSUME NEW r \in Record, NEW s \in Statuses
  PROVE  /\ WithStatus(r, s) \in Record
         /\ [r EXCEPT !.status = s] \in Record
         /\ \A b \in Reservations : [r EXCEPT !.reservation = b] \in Record
         /\ WithStatus(r, s).reservation = r.reservation
         /\ Recovered(r) \in Record
  BY DEF Record, WithStatus, Recovered, Statuses, TerminalStatuses

LEMMA RunningFinite == IsFiniteSet(Running) /\ Cardinality(Running) \in Nat
<1>1. Running \subseteq Call
  BY DEF Running
<1>2. IsFiniteSet(Call)
  BY AdmissionAssumption
<1> QED
  BY <1>1, <1>2, FS_Subset, FS_CardinalityType

\* At most one element more means at most one more.
LEMMA OneMore ==
  ASSUME NEW S, IsFiniteSet(S), NEW c, NEW T, T \subseteq S \cup {c}
  PROVE  /\ Cardinality(T) \in Nat /\ Cardinality(T) <= Cardinality(S) + 1
         /\ T \subseteq S => Cardinality(T) <= Cardinality(S)
<1>1. /\ IsFiniteSet(S \cup {c})
      /\ Cardinality(S \cup {c}) = IF c \in S THEN Cardinality(S) ELSE Cardinality(S) + 1
  BY FS_AddElement
<1>2. Cardinality(S) \in Nat
  BY FS_CardinalityType
<1>3. /\ IsFiniteSet(T) /\ Cardinality(T) <= Cardinality(S \cup {c})
  BY <1>1, FS_Subset
<1>4. Cardinality(T) \in Nat
  BY <1>3, FS_CardinalityType
<1>5. T \subseteq S => Cardinality(T) <= Cardinality(S)
  BY FS_Subset
<1> QED
  BY <1>1, <1>2, <1>3, <1>4, <1>5

LEMMA InitInd == Init => IndInv
<1> SUFFICES ASSUME Init PROVE IndInv
  OBVIOUS
<1>1. TypeOK
  BY AdmissionAssumption
  DEF Init, TypeOK, Places, ChildPlaces, Reservations
<1>2. Running = {}
  BY DEF Init, Running
<1>3. Cardinality(Running) = 0
  BY <1>2, FS_EmptySet
<1>4. LockIsHeld /\ CallWrites /\ RoomForHolder
  BY AdmissionAssumption DEF Init, LockIsHeld, CallWrites, RoomForHolder, Holding
<1>5. ConcurrencyCap
  BY <1>3, AdmissionAssumption DEF ConcurrencyCap
<1>6. RequiredIsRegistered /\ RaisedLeavesNothing
  BY <1>2 DEF Init, RequiredIsRegistered, RaisedLeavesNothing
<1> QED
  BY <1>1, <1>4, <1>5, <1>6 DEF IndInv

-----------------------------------------------------------------------------
(* The steps of the children change neither a call nor the lock. *)

ChildStep(c) ==
  \/ Begin(c) \/ Work(c) \/ Vanish(c) \/ ReportStopped(c) \/ Abandon(c)
  \/ End(c) \/ Settle(c) \/ Finish(c) \/ Cleanup(c)

\* What any of them does: only the task c changes, it had a coroutine, it has
\* none afterwards that it did not have before, and its obligation does not vanish.
ChildEffect(c) ==
  /\ UNCHANGED <<pc, request, lock, resolvedBy, up, crashes, faults>>
  /\ child[c] # "none"
  /\ task' \in [Call -> Record] /\ child' \in [Call -> ChildPlaces]
  /\ obligation' \in [Call -> {"none", "running", "succeeded", "failed"}]
  /\ \A d \in Call \ {c} : /\ task'[d] = task[d] /\ child'[d] = child[d]
                           /\ obligation'[d] = obligation[d]
  /\ child'[c] # "none" /\ (child[c] = "gone" => child'[c] = "gone")
  /\ obligation[c] # "none" => obligation'[c] # "none"

LEMMA ChildStepEffect ==
  ASSUME TypeOK, NEW c \in Call, ChildStep(c)
  PROVE  ChildEffect(c)
<1>1. /\ task \in [Call -> Record] /\ child \in [Call -> ChildPlaces]
      /\ obligation \in [Call -> {"none", "running", "succeeded", "failed"}]
      /\ task[c] \in Record
  BY DEF TypeOK, Record
<1>2. {"running", "succeeded", "failed", "lost"} \subseteq Statuses
      /\ "settled" \in Reservations /\ Consumption \subseteq Nat
  BY AdmissionAssumption DEF Statuses, TerminalStatuses, Reservations
<1>3. /\ \A x \in Statuses : WithStatus(task[c], x) \in Record
      /\ [task[c] EXCEPT !.status = "lost"] \in Record
      /\ \A n \in Nat : [task[c] EXCEPT !.reservation = "settled", !.used = n] \in Record
  BY <1>1, <1>2, RecordStays DEF Record
<1>4. CASE Begin(c)
  BY <1>1, <1>2, <1>3, <1>4
  DEF Begin, ChildAt, ChildGoto, goalVars, boundVars, ChildEffect, ChildPlaces
<1>5. CASE Work(c) \/ Vanish(c) \/ Cleanup(c)
  BY <1>1, <1>5
  DEF Work, Vanish, Cleanup, ChildAt, ChildGoto, goalVars, boundVars, ChildEffect, ChildPlaces
<1>6. CASE ReportStopped(c)
  BY <1>1, <1>6 DEF ReportStopped, ChildAt, boundVars, ChildEffect
<1>7. CASE Abandon(c)
  BY <1>1, <1>3, <1>7 DEF Abandon, ChildAt, boundVars, ChildEffect
<1>8. CASE End(c)
  <2>1. PICK outcome \in {"succeeded", "failed"} :
          task' = [task EXCEPT ![c] = WithStatus(@, outcome)]
    BY <1>8 DEF End
  <2>2. WithStatus(task[c], outcome) \in Record
    BY <1>2, <1>3
  <2>3. /\ task' \in [Call -> Record]
        /\ \A d \in Call \ {c} : task'[d] = task[d]
    BY <1>1, <2>1, <2>2
  <2> QED
    BY <1>1, <1>8, <2>3
    DEF End, ChildAt, ChildGoto, goalVars, boundVars, ChildEffect, ChildPlaces
<1>9. CASE Settle(c)
  <2>1. PICK n \in Consumption :
          task' = [task EXCEPT ![c].reservation = "settled", ![c].used = n]
    BY <1>9 DEF Settle
  <2>2. n \in Nat
    BY <1>2
  <2>3. /\ task' \in [Call -> Record]
        /\ \A d \in Call \ {c} : task'[d] = task[d]
    BY <1>1, <1>2, <2>1, <2>2 DEF Record
  <2> QED
    BY <1>1, <1>9, <2>3
    DEF Settle, ChildAt, ChildGoto, goalVars, boundVars, ChildEffect, ChildPlaces
<1>10. CASE Finish(c)
  BY <1>1, <1>10
  DEF Finish, ChildAt, ChildGoto, boundVars, ChildEffect, ChildPlaces
<1> QED
  BY <1>4, <1>5, <1>6, <1>7, <1>8, <1>9, <1>10 DEF ChildStep

LEMMA ChildKeepsInv ==
  ASSUME IndInv, NEW c \in Call, ChildStep(c)
  PROVE  IndInv'
<1>0. ChildEffect(c) /\ TypeOK
  BY ChildStepEffect DEF IndInv
<1>1. TypeOK'
  BY <1>0 DEF ChildEffect, TypeOK, Record
<1>2. LockIsHeld'
  BY <1>0 DEF IndInv, LockIsHeld, ChildEffect
<1>3. CallWrites'
  <2>1. ~up' => \A d \in Call : pc'[d] \notin Holding
    BY <1>0 DEF IndInv, CallWrites, ChildEffect
  <2>2. ASSUME NEW d \in Call, pc[d] \in Holding \cup {"idle", "waiting", "refused", "raised"}
        PROVE  /\ d # c /\ child'[d] = "none"
               /\ task'[d] = task[d] /\ obligation'[d] = obligation[d]
    BY <1>0, <2>2 DEF IndInv, CallWrites, ChildEffect
  <2>3. pc' = pc /\ request' = request
    BY <1>0 DEF ChildEffect
  <2> QED
    BY <2>1, <2>2, <2>3 DEF IndInv, CallWrites, Holding
<1>4. Running' \subseteq Running
  BY <1>0 DEF ChildEffect, Running
<1>5. Cardinality(Running') \in Nat /\ Cardinality(Running') <= Cardinality(Running)
  BY <1>4, RunningFinite, OneMore
<1>6. RoomForHolder' /\ ConcurrencyCap'
  BY <1>0, <1>5, RunningFinite, AdmissionAssumption
  DEF IndInv, RoomForHolder, ConcurrencyCap, ChildEffect
<1>7. RequiredIsRegistered'
  BY <1>0, <1>4 DEF IndInv, RequiredIsRegistered, ChildEffect, Running
<1>8. RaisedLeavesNothing'
  BY <1>0, <1>4 DEF IndInv, RaisedLeavesNothing, ChildEffect, CallWrites
<1> QED
  BY <1>1, <1>2, <1>3, <1>6, <1>7, <1>8 DEF IndInv

-----------------------------------------------------------------------------
(* The steps of a call. *)

\* What every step of a call but Schedule leaves alone.
CallEffect(c) ==
  /\ UNCHANGED <<child, up>>
  /\ pc' \in [Call -> Places] /\ \A d \in Call \ {c} : pc'[d] = pc[d]
  /\ task' \in [Call -> Record] /\ \A d \in Call \ {c} : task'[d] = task[d]
  /\ request' \in [Call -> Requests \cup {Nothing}]
  /\ \A d \in Call : d # c \/ pc[c] # "idle" => request'[d] = request[d]
  /\ obligation' \in [Call -> {"none", "running", "succeeded", "failed"}]
  /\ \A d \in Call \ {c} : obligation'[d] = obligation[d]
  /\ resolvedBy' \in [Call -> Call \cup {NoCall}]
  /\ \A d \in Call : resolvedBy'[d] \in {resolvedBy[d], c, NoCall}
  /\ crashes' \in Nat /\ faults' \in Nat
  /\ up /\ pc[c] \in Holding \cup {"idle", "waiting"}

\* The lock goes with the call that enters or leaves.
LockEffect(c) ==
  \/ lock' = lock /\ (pc[c] \in Holding <=> pc'[c] \in Holding)
  \/ /\ lock = NoCall /\ lock' = c /\ pc[c] \notin Holding /\ pc'[c] \in Holding
     /\ Cardinality(Running) < MaxConcurrent
  \/ lock = c /\ lock' = NoCall /\ pc'[c] \notin Holding

\* What the call has written when it gets to its next place.
Written(c) ==
  /\ pc'[c] = "creating" => task'[c].status = "created"
  /\ pc'[c] \in {"flushing", "registering", "scheduling", "failing"} =>
       task'[c].status = "queued"
  /\ pc'[c] \in {"releasing", "raising"} => task'[c].status = "failed"
  /\ pc'[c] = "raising" => task'[c].reservation = "released"
  /\ pc'[c] = "scheduling" /\ request'[c].required => obligation'[c] # "none"
  /\ pc'[c] = "raised" =>
       /\ task'[c].status = "failed" /\ task'[c].reservation = "released"
       /\ obligation'[c] = "none"
       /\ \A d \in Call : resolvedBy'[d] # c

LEMMA CallKeepsInv ==
  ASSUME IndInv, NEW c \in Call, CallEffect(c), LockEffect(c), Written(c)
  PROVE  IndInv'
<1>1. TypeOK'
  BY DEF IndInv, TypeOK, CallEffect, LockEffect, Record
<1>2. LockIsHeld'
  BY AdmissionAssumption DEF IndInv, LockIsHeld, CallEffect, LockEffect
<1>3. Running' = Running
  BY DEF CallEffect, Running
<1>4. child[c] = "none" /\ child' = child
  BY DEF IndInv, CallWrites, CallEffect
<1>5. CallWrites'
  <2>1. ~up' => \A d \in Call : pc'[d] \notin Holding
    BY DEF CallEffect
  <2>2. ASSUME NEW d \in Call, d # c
        PROVE  /\ pc'[d] = pc[d] /\ child'[d] = child[d] /\ task'[d] = task[d]
               /\ request'[d] = request[d] /\ obligation'[d] = obligation[d]
    BY <2>2 DEF CallEffect
  <2>3. child'[c] = "none"
    BY <1>4
  <2> QED
    BY <2>1, <2>2, <2>3 DEF IndInv, CallWrites, Written
<1>6. RoomForHolder' /\ ConcurrencyCap'
  <2>1. Cardinality(Running') = Cardinality(Running)
    BY <1>3
  <2>2. ASSUME NEW d \in Call, pc'[d] \in Holding
        PROVE  Cardinality(Running) < MaxConcurrent
    BY <2>2 DEF IndInv, RoomForHolder, CallEffect, LockEffect, LockIsHeld
  <2> QED
    BY <2>1, <2>2 DEF IndInv, RoomForHolder, ConcurrencyCap
<1>7. RequiredIsRegistered'
  BY <1>3, <1>4 DEF IndInv, RequiredIsRegistered, CallEffect, Running
<1>8. RaisedLeavesNothing'
  <2>1. ASSUME NEW d \in Call, pc'[d] = "raised", d # c
        PROVE  /\ task'[d].status = "failed" /\ task'[d].reservation = "released"
               /\ obligation'[d] = "none" /\ d \notin Running
               /\ \A e \in Call : resolvedBy'[e] # d
    BY <2>1, AdmissionAssumption DEF IndInv, RaisedLeavesNothing, CallEffect
  <2>2. c \notin Running
    BY <1>4 DEF Running
  <2> QED
    BY <1>3, <2>1, <2>2 DEF RaisedLeavesNothing, Written
<1> QED
  BY <1>1, <1>2, <1>5, <1>6, <1>7, <1>8 DEF IndInv

\* A call takes the lock only when it is free, and holds it until it is over.
LEMMA LockNotMine ==
  ASSUME IndInv, NEW c \in Call
  PROVE  /\ pc[c] \in Holding => lock = c
         /\ pc[c] \notin Holding => lock # c
  BY DEF IndInv, LockIsHeld

\* Every other step of a call has these effects.
LEMMA CallStepEffect ==
  ASSUME IndInv, NEW c \in Call,
         \/ Ask(c) \/ Refuse(c) \/ Admit(c) \/ Queue(c) \/ Flushed(c) \/ Register(c)
         \/ RegisterFails(c) \/ ScheduleFails(c) \/ Fail(c) \/ Release(c) \/ Raise(c)
         \/ CancelTurn(c)
  PROVE  CallEffect(c) /\ LockEffect(c) /\ Written(c)
<1>1. /\ pc \in [Call -> Places] /\ task \in [Call -> Record] /\ task[c] \in Record
      /\ request \in [Call -> Requests \cup {Nothing}]
      /\ obligation \in [Call -> {"none", "running", "succeeded", "failed"}]
      /\ resolvedBy \in [Call -> Call \cup {NoCall}]
      /\ crashes \in Nat /\ faults \in Nat
  BY DEF IndInv, TypeOK, Record
<1>2. /\ pc[c] = "creating" => task[c].status = "created"
      /\ pc[c] \in {"flushing", "registering", "scheduling", "failing"} =>
           task[c].status = "queued"
      /\ pc[c] \in {"releasing", "raising"} => task[c].status = "failed"
      /\ pc[c] = "raising" => task[c].reservation = "released"
  BY DEF IndInv, CallWrites
<1>3. /\ pc[c] \in Holding => lock = c
      /\ pc[c] \notin Holding => lock # c
  BY LockNotMine
<1>4. /\ {"created", "queued", "failed"} \subseteq Statuses
      /\ {"reserved", "released"} \subseteq Reservations
  BY DEF Statuses, TerminalStatuses, Reservations
<1> USE DEF At, Goto, boundVars, goalVars, CallEffect, LockEffect, Written, Holding,
            Places, Over
<1>5. CASE Ask(c)
  BY <1>1, <1>3, <1>5 DEF Ask, Undisturbed
<1>6. CASE Refuse(c)
  BY <1>1, <1>3, <1>6 DEF Refuse, Undisturbed
<1>7. CASE Admit(c)
  <2>1. /\ task' \in [Call -> Record] /\ task'[c].status = "created"
        /\ \A d \in Call \ {c} : task'[d] = task[d]
    BY <1>1, <1>4, <1>7 DEF Admit, Record
  <2> QED
    BY <1>1, <1>3, <1>7, <2>1 DEF Admit, Undisturbed, LockFree, BelowLimits
<1>8. CASE Queue(c)
  <2>1. WithStatus(task[c], "queued") \in Record
    BY <1>1, <1>4, RecordStays
  <2>2. WithStatus(task[c], "queued").status = "queued"
    BY <1>1, <1>2, <1>8
    DEF Queue, WithStatus, StatusIgnored, StatusIllegal, StatusMoves, Terminal,
        TerminalStatuses, Record
  <2>3. /\ task' \in [Call -> Record] /\ task'[c].status = "queued"
        /\ \A d \in Call \ {c} : task'[d] = task[d]
    BY <1>1, <1>8, <2>1, <2>2 DEF Queue
  <2> QED
    BY <1>1, <1>3, <1>8, <2>3 DEF Queue, Undisturbed
<1>9. CASE Flushed(c)
  BY <1>1, <1>2, <1>3, <1>9 DEF Flushed, Undisturbed
<1>10. CASE Register(c)
  BY <1>1, <1>2, <1>3, <1>10 DEF Register, Undisturbed
<1>11. CASE RegisterFails(c) \/ ScheduleFails(c)
  BY <1>1, <1>2, <1>3, <1>11 DEF RegisterFails, ScheduleFails, Undisturbed
<1>12. CASE Fail(c)
  <2>1. WithStatus(task[c], "failed") \in Record
    BY <1>1, <1>4, RecordStays
  <2>2. WithStatus(task[c], "failed").status = "failed"
    BY <1>1, <1>2, <1>12
    DEF Fail, WithStatus, StatusIgnored, StatusIllegal, StatusMoves, Terminal,
        TerminalStatuses, Record
  <2>3. /\ task' \in [Call -> Record] /\ task'[c].status = "failed"
        /\ \A d \in Call \ {c} : task'[d] = task[d]
    BY <1>1, <1>12, <2>1, <2>2 DEF Fail
  <2> QED
    BY <1>1, <1>3, <1>12, <2>3 DEF Fail, Undisturbed
<1>13. CASE Release(c)
  <2>1. /\ task' \in [Call -> Record]
        /\ task'[c].status = task[c].status /\ task'[c].reservation = "released"
        /\ \A d \in Call \ {c} : task'[d] = task[d]
    BY <1>1, <1>4, <1>13 DEF Release, Record
  <2> QED
    BY <1>1, <1>2, <1>3, <1>13, <2>1 DEF Release, Undisturbed
<1>14. CASE Raise(c)
  BY <1>1, <1>2, <1>3, <1>14, AdmissionAssumption DEF Raise, Undisturbed
<1>15. CASE CancelTurn(c)
  BY <1>1, <1>3, <1>15 DEF CancelTurn, LockAfterCancel, FlushPlaces, Undisturbed
<1> QED
  BY <1>5, <1>6, <1>7, <1>8, <1>9, <1>10, <1>11, <1>12, <1>13, <1>14, <1>15

\* The holder starts its child, as it found room for it, and leaves the lock.
LEMMA ScheduleKeepsInv ==
  ASSUME IndInv, NEW c \in Call, Schedule(c)
  PROVE  IndInv'
<1>1. /\ pc[c] = "scheduling" /\ pc[c] \in Holding /\ lock = c /\ lock' = NoCall /\ up
      /\ child \in [Call -> ChildPlaces] /\ pc \in [Call -> Places]
      /\ pc' = [pc EXCEPT ![c] = "started"] /\ child' = [child EXCEPT ![c] = "scheduled"]
      /\ UNCHANGED <<request, task, obligation, resolvedBy, up, crashes, faults>>
  BY LockNotMine
  DEF IndInv, TypeOK, Schedule, At, Goto, Holding, Undisturbed, goalVars, boundVars
<1>2. TypeOK'
  BY <1>1 DEF IndInv, TypeOK, Places, Over, ChildPlaces
<1>3. \A d \in Call : pc'[d] \notin Holding
  BY <1>1 DEF IndInv, LockIsHeld, Holding
<1>4. LockIsHeld'
  BY <1>1, <1>3, AdmissionAssumption DEF LockIsHeld
<1>5. \A d \in Call \ {c} : pc'[d] = pc[d] /\ child'[d] = child[d]
  BY <1>1
<1>6. pc'[c] = "started"
  BY <1>1
<1>7. CallWrites'
  BY <1>1, <1>3, <1>5, <1>6 DEF IndInv, CallWrites, Holding
<1>8. Running' \subseteq Running \cup {c}
  BY <1>5 DEF Running
<1>9. Cardinality(Running') \in Nat /\ Cardinality(Running') <= Cardinality(Running) + 1
  BY <1>8, RunningFinite, OneMore
<1>10. Cardinality(Running) < MaxConcurrent
  BY <1>1 DEF IndInv, RoomForHolder
<1>11. RoomForHolder' /\ ConcurrencyCap'
  BY <1>3, <1>9, <1>10, RunningFinite, AdmissionAssumption
  DEF RoomForHolder, ConcurrencyCap
<1>12. RequiredIsRegistered'
  BY <1>1, <1>8 DEF IndInv, CallWrites, RequiredIsRegistered
<1>13. RaisedLeavesNothing'
  BY <1>1, <1>5, <1>6, <1>8 DEF IndInv, RaisedLeavesNothing
<1> QED
  BY <1>2, <1>4, <1>7, <1>11, <1>12, <1>13 DEF IndInv

-----------------------------------------------------------------------------
(* The gateway. *)

LEMMA CrashKeepsInv ==
  ASSUME IndInv, Crash
  PROVE  IndInv'
<1>0. TypeOK /\ Crash
  BY DEF IndInv
<1>1. TypeOK'
  <2>1. pc' \in [Call -> Places] /\ child' \in [Call -> ChildPlaces]
    BY <1>0 DEF TypeOK, Crash, Places, Over, ChildPlaces
  <2>2. /\ UNCHANGED <<request, task, obligation, resolvedBy, faults>>
        /\ lock' = NoCall /\ up' = FALSE
    BY <1>0 DEF Crash, goalVars
  <2>3. crashes' \in Nat
    BY <1>0 DEF Crash, TypeOK
  <2>4. TypeOK
    BY <1>0
  <2> QED
    BY <2>1, <2>2, <2>3, <2>4 DEF TypeOK
<1>2. \A c \in Call : /\ pc'[c] \notin Holding
                      /\ pc'[c] = pc[c] \/ pc'[c] = "crashed"
                      /\ child[c] = "none" => child'[c] = "none"
                      /\ child'[c] \in {"none", "gone"}
  BY DEF IndInv, TypeOK, Crash, Holding, Over
<1>3. LockIsHeld'
  BY <1>2, AdmissionAssumption DEF LockIsHeld, Crash
<1>4. CallWrites'
  BY <1>2 DEF IndInv, CallWrites, Holding, Crash
<1>5. Running' = {}
  BY <1>2 DEF Running
<1>6. Cardinality(Running') = 0
  BY <1>5, FS_EmptySet
<1>7. RoomForHolder' /\ ConcurrencyCap'
  BY <1>2, <1>6, AdmissionAssumption DEF RoomForHolder, ConcurrencyCap
<1>8. RequiredIsRegistered' /\ RaisedLeavesNothing'
  BY <1>2, <1>5
  DEF IndInv, RequiredIsRegistered, RaisedLeavesNothing, Crash, goalVars
<1> QED
  BY <1>1, <1>3, <1>4, <1>7, <1>8 DEF IndInv

LEMMA RestartKeepsInv ==
  ASSUME IndInv, Restart
  PROVE  IndInv'
<1>1. /\ ~up /\ UNCHANGED <<pc, request, lock, child, resolvedBy, crashes, faults>>
      /\ \A c \in Call : pc[c] \notin Holding
  BY DEF Restart, IndInv, CallWrites
<1>2. \A c \in Call : task[c] \in Record
  BY DEF IndInv, TypeOK, Record
<1>3. /\ task' \in [Call -> Record]
      /\ \A c \in Call : task[c].status = "failed" => task'[c] = task[c]
  <2>1. task' = [c \in Call |-> Recovered(task[c])]
    BY DEF Restart
  <2>2. \A c \in Call : Recovered(task[c]) \in Record
    BY <1>2 DEF Record, Recovered, Statuses, TerminalStatuses
  <2>3. \A c \in Call : task[c].status = "failed" => Recovered(task[c]) = task[c]
    BY DEF Recovered
  <2> QED
    BY <2>1, <2>2, <2>3
<1>4. /\ obligation' \in [Call -> {"none", "running", "succeeded", "failed"}]
      /\ \A c \in Call : obligation'[c] = "none" <=> obligation[c] = "none"
  BY DEF IndInv, TypeOK, Restart
<1>5. TypeOK'
  BY <1>1, <1>3, <1>4 DEF IndInv, TypeOK, Restart, Record
<1>6. LockIsHeld' /\ CallWrites'
  BY <1>1 DEF IndInv, LockIsHeld, CallWrites, Holding
<1>7. Running' = Running
  BY <1>1 DEF Running
<1>8. RoomForHolder' /\ ConcurrencyCap'
  BY <1>1, <1>7 DEF IndInv, RoomForHolder, ConcurrencyCap
<1>9. RequiredIsRegistered'
  BY <1>1, <1>4, <1>7 DEF IndInv, RequiredIsRegistered, Running
<1>10. RaisedLeavesNothing'
  BY <1>1, <1>3, <1>4, <1>7 DEF IndInv, RaisedLeavesNothing
<1> QED
  BY <1>5, <1>6, <1>8, <1>9, <1>10 DEF IndInv

LEMMA NextKeepsInv == IndInv /\ [Next]_vars => IndInv'
<1> SUFFICES ASSUME IndInv, [Next]_vars PROVE IndInv'
  OBVIOUS
<1>1. ASSUME NEW c \in Call, ChildStep(c) PROVE IndInv'
  BY <1>1, ChildKeepsInv
<1>2. ASSUME NEW c \in Call, Schedule(c) PROVE IndInv'
  BY <1>2, ScheduleKeepsInv
<1>3. ASSUME NEW c \in Call,
             \/ Ask(c) \/ Refuse(c) \/ Admit(c) \/ Queue(c) \/ Flushed(c) \/ Register(c)
             \/ RegisterFails(c) \/ ScheduleFails(c) \/ Fail(c) \/ Release(c) \/ Raise(c)
             \/ CancelTurn(c)
      PROVE  IndInv'
  BY <1>3, CallStepEffect, CallKeepsInv
<1>4. CASE Crash
  BY <1>4, CrashKeepsInv
<1>5. CASE Restart
  BY <1>5, RestartKeepsInv
<1>6. CASE UNCHANGED vars
  <2>1. Running' = Running
    BY <1>6 DEF vars, Running
  <2> QED
    BY <1>6, <2>1
    DEF vars, IndInv, TypeOK, LockIsHeld, CallWrites, RoomForHolder, ConcurrencyCap,
        RequiredIsRegistered, RaisedLeavesNothing
<1> QED
  BY <1>1, <1>2, <1>3, <1>4, <1>5, <1>6 DEF Next, CallStep, ChildStep

-----------------------------------------------------------------------------
(* The records of an owner and a session, and the calls with one key. *)

\* What record, obligation and coroutine of a call tell of each other.
Traces ==
  \A c \in Call :
    /\ pc[c] \in {"idle", "waiting"} => task[c].status = "absent"
    /\ pc[c] \in {"idle", "waiting", "creating", "flushing", "registering"} =>
         obligation[c] = "none" /\ \A d \in Call : resolvedBy[d] # c
    /\ pc[c] \in Holding => obligation[c] \in {"none", "running"}
    /\ obligation[c] # "none" \/ child[c] # "none" => task[c].status # "absent"
    /\ child[c] = "scheduled" => task[c].status = "queued"
    /\ child[c] \in {"starting", "working"} =>
         task[c].status = "running" \/ Terminal(task[c])
    /\ child[c] \in {"ended", "settled", "finished"} => Terminal(task[c])
    /\ obligation[c] = "failed" => c \notin Running \/ Terminal(task[c])
    /\ request[c].replaces # NoCall => request[c].required
    /\ pc[c] \in Holding /\ obligation[c] # "none" /\ request[c].replaces # NoCall =>
         resolvedBy[request[c].replaces] = c
    /\ pc[c] \in {"creating", "flushing", "registering"} /\ request[c].replaces # NoCall =>
         resolvedBy[request[c].replaces] = NoCall
    /\ ~up => child[c] \in {"none", "gone"}

\* What may still run, and what may still be replaced; a replacement counts only
\* when the call that makes it is over.
Live(c) == pc[c] \in Holding \/ (c \in Running /\ ~Terminal(task[c]))
Open(c) ==
  /\ obligation[c] # "none"
  /\ resolvedBy[c] # NoCall => pc[resolvedBy[c]] \in Holding
Alive(c) == Live(c) \/ Open(c)

\* Of the calls with one key only one is alive, besides the one it is replacing.
Heir(d, c) == pc[d] \in Holding /\ request[d].replaces = c /\ ~Live(c)
OneHeir ==
  \A c, d \in Call :
    c # d /\ Alive(c) /\ Alive(d) /\ IdempotencyKey(c) = IdempotencyKey(d) =>
      Heir(d, c) \/ Heir(c, d)

KinInv == IndInv /\ Traces /\ OneHeir /\ ChildCaps

\* What every step but Admit does to them.
RecordsKept ==
  \A x \in Call : /\ task'[x].status = "absent" <=> task[x].status = "absent"
                  /\ task[x].status # "absent" => request'[x] = request[x]
Fades ==
  /\ \A x \in Call : Alive(x)' => Alive(x)
  /\ \A x, y \in Call : Alive(x)' /\ Alive(y)' /\ Heir(y, x) => Heir(y, x)'

LEMMA AliveIsRecorded ==
  ASSUME IndInv, Traces, NEW x \in Call, Alive(x)
  PROVE  task[x].status # "absent"
BY DEF IndInv, CallWrites, Traces, Alive, Live, Open, Holding, Running

LEMMA KinFades ==
  ASSUME KinInv, RecordsKept, Fades
  PROVE  OneHeir' /\ ChildCaps'
<1>1. \A x \in Call : task[x].status # "absent" =>
        /\ request'[x] = request[x] /\ IdempotencyKey(x)' = IdempotencyKey(x)
        /\ Owner(x)' = Owner(x) /\ SessionOfCall(x)' = SessionOfCall(x)
  BY DEF RecordsKept, IdempotencyKey, Owner, SessionOfCall
<1>2. OneHeir'
  <2>1. ASSUME NEW c \in Call, NEW d \in Call, c # d, Alive(c)', Alive(d)',
               IdempotencyKey(c)' = IdempotencyKey(d)'
        PROVE  Heir(d, c)' \/ Heir(c, d)'
    <3>1. Alive(c) /\ Alive(d)
      BY <2>1 DEF Fades
    <3>2. IdempotencyKey(c) = IdempotencyKey(d)
      BY <1>1, <2>1, <3>1, AliveIsRecorded DEF KinInv
    <3>3. Heir(d, c) \/ Heir(c, d)
      BY <2>1, <3>1, <3>2 DEF KinInv, OneHeir
    <3> QED
      BY <2>1, <3>3 DEF Fades
  <2> QED
    BY <2>1 DEF OneHeir
<1>3. ChildCaps'
  <2>1. Recorded' = Recorded
    BY DEF RecordsKept, Recorded
  <2>2. ASSUME NEW c \in Recorded
        PROVE  OfOwner(c)' = OfOwner(c) /\ OfSession(c)' = OfSession(c)
    BY <1>1, <2>1 DEF OfOwner, OfSession, Recorded
  <2> QED
    BY <2>1, <2>2 DEF KinInv, ChildCaps
<1> QED
  BY <1>2, <1>3

LEMMA ChildTraces ==
  ASSUME IndInv, Traces, NEW c \in Call, ChildStep(c)
  PROVE  Traces' /\ RecordsKept /\ Fades
<1>1. ChildEffect(c) /\ task[c] \in Record
  BY ChildStepEffect DEF IndInv, TypeOK, Record
<1>2. /\ task'[c].status # "absent" /\ task[c].status # "absent"
      /\ Terminal(task[c]) => Terminal(task'[c])
      /\ obligation'[c] = "none" <=> obligation[c] = "none"
      /\ child'[c] # "scheduled"  \/ (child'[c] = child[c] /\ task'[c] = task[c])
      /\ child'[c] \in {"starting", "working"} =>
           task'[c].status = "running" \/ Terminal(task'[c])
      /\ child'[c] \in {"ended", "settled", "finished"} => Terminal(task'[c])
      /\ obligation'[c] = "failed" => c \notin Running' \/ Terminal(task'[c])
      /\ up
  <2>1. /\ task \in [Call -> Record] /\ child \in [Call -> ChildPlaces]
        /\ obligation \in [Call -> {"none", "running", "succeeded", "failed"}]
    BY DEF IndInv, TypeOK, Record
  <2> USE DEF Traces, Record, WithStatus, StatusIgnored, StatusIllegal, StatusMoves,
              Terminal, TerminalStatuses, ChildAt, ChildGoto, goalVars, boundVars,
              Running, Undisturbed, ChildEffect
  <2>2. CASE Begin(c)
    BY <1>1, <2>1, <2>2 DEF Begin
  <2>3. CASE Work(c) \/ Vanish(c) \/ Cleanup(c)
    BY <1>1, <2>1, <2>3 DEF Work, Vanish, Cleanup
  <2>4. CASE ReportStopped(c)
    BY <1>1, <2>1, <2>4 DEF ReportStopped
  <2>5. CASE Abandon(c)
    BY <1>1, <2>1, <2>5 DEF Abandon
  <2>6. CASE End(c)
    BY <1>1, <2>1, <2>6 DEF End
  <2>7. CASE Settle(c)
    BY <1>1, <2>1, <2>7 DEF Settle
  <2>8. CASE Finish(c)
    BY <1>1, <2>1, <2>8 DEF Finish
  <2> QED
    BY <2>2, <2>3, <2>4, <2>5, <2>6, <2>7, <2>8 DEF ChildStep
<1>3. /\ UNCHANGED <<pc, request, resolvedBy, up>>
      /\ \A d \in Call \ {c} : /\ task'[d] = task[d] /\ child'[d] = child[d]
                               /\ obligation'[d] = obligation[d]
      /\ child[c] # "none" /\ child'[c] # "none" /\ (child[c] = "gone" => child'[c] = "gone")
  BY <1>1 DEF ChildEffect
<1>4. pc[c] \notin Holding \cup {"idle", "waiting"}
  BY <1>3 DEF IndInv, CallWrites
<1>5. Traces'
  BY <1>2, <1>3, <1>4 DEF Traces, Running
<1>6. RecordsKept
  BY <1>2, <1>3 DEF RecordsKept
<1>7. \A x \in Call : (Live(x)' => Live(x)) /\ (Open(x)' <=> Open(x))
  BY <1>2, <1>3 DEF Live, Open, Running
<1>8. Fades
  BY <1>3, <1>7 DEF Fades, Alive, Heir
<1> QED
  BY <1>5, <1>6, <1>8

\* A call that keeps the lock and its obligation.
LEMMA HoldingTraces ==
  ASSUME IndInv, Traces, NEW c \in Call,
         \/ Queue(c) \/ Flushed(c) \/ RegisterFails(c) \/ ScheduleFails(c)
         \/ Fail(c) \/ Release(c)
  PROVE  Traces' /\ RecordsKept /\ Fades
<1>1. CallEffect(c) /\ Written(c) /\ pc \in [Call -> Places]
  BY CallStepEffect DEF IndInv, TypeOK
<1>2. /\ pc[c] \in Holding /\ pc'[c] \in Holding
      /\ pc'[c] \in {"creating", "flushing", "registering"} =>
           pc[c] \in {"creating", "flushing", "registering"}
      /\ UNCHANGED <<request, obligation, resolvedBy>>
  BY <1>1 DEF Queue, Flushed, RegisterFails, ScheduleFails, Fail, Release, At, Goto,
              goalVars, Holding
<1>3. /\ \A d \in Call \ {c} : pc'[d] = pc[d] /\ task'[d] = task[d]
      /\ UNCHANGED <<child, up>>
  BY <1>1 DEF CallEffect
<1>4. child[c] = "none" /\ task[c].status # "absent"
  BY <1>2 DEF IndInv, CallWrites, Holding
<1>5. pc'[c] \notin {"idle", "waiting"} /\ task'[c].status # "absent"
  BY <1>1, <1>2 DEF Written, Holding
<1>6. Traces'
  BY <1>2, <1>3, <1>4, <1>5 DEF Traces, Running
<1>7. RecordsKept
  BY <1>2, <1>3, <1>4, <1>5 DEF RecordsKept
<1>8. \A d \in Call : pc'[d] \in Holding <=> pc[d] \in Holding
  BY <1>2, <1>3
<1>9. \A x \in Call : (Live(x)' <=> Live(x)) /\ (Open(x)' <=> Open(x))
  <2>1. resolvedBy \in [Call -> Call \cup {NoCall}]
    BY DEF IndInv, TypeOK
  <2>2. \A x \in Call : Live(x)' <=> Live(x)
    BY <1>2, <1>3, <1>4, <1>8 DEF Live, Running
  <2> QED
    BY <1>2, <1>8, <2>1, <2>2 DEF Open
<1>10. Fades
  BY <1>2, <1>8, <1>9 DEF Fades, Alive, Heir
<1> QED
  BY <1>6, <1>7, <1>10

\* A call before its admission has no trace.
LEMMA OutsideTraces ==
  ASSUME IndInv, Traces, NEW c \in Call, Ask(c) \/ Refuse(c)
  PROVE  Traces' /\ RecordsKept /\ Fades
<1>1. CallEffect(c) /\ pc \in [Call -> Places]
  BY CallStepEffect DEF IndInv, TypeOK
<1>2. /\ pc[c] \in {"idle", "waiting"} /\ pc'[c] \in {"waiting", "refused"}
      /\ UNCHANGED <<task, obligation, resolvedBy>>
      /\ request'[c].replaces # NoCall => request'[c].required
  <2>1. CASE Ask(c)
    <3>1. PICK q \in Requests :
            (q.replaces # NoCall => q.required) /\ request' = [request EXCEPT ![c] = q]
      BY <2>1 DEF Ask
    <3>2. request'[c] = q
      BY <3>1 DEF IndInv, TypeOK
    <3> QED
      BY <1>1, <2>1, <3>1, <3>2 DEF Ask, At, Goto, goalVars
  <2>2. CASE Refuse(c)
    BY <1>1, <2>2 DEF Refuse, At, Goto, goalVars, Traces
  <2> QED
    BY <2>1, <2>2
<1>3. /\ \A d \in Call \ {c} : pc'[d] = pc[d] /\ request'[d] = request[d]
      /\ UNCHANGED <<child, up>>
  BY <1>1 DEF CallEffect
<1>4. /\ child[c] = "none" /\ task[c].status = "absent" /\ obligation[c] = "none"
      /\ pc[c] \notin Holding /\ pc'[c] \notin Holding
  BY <1>2 DEF IndInv, CallWrites, Traces, Holding
<1>5. Traces'
  BY <1>2, <1>3, <1>4 DEF Traces, Running
<1>6. RecordsKept
  BY <1>2, <1>3, <1>4 DEF RecordsKept
<1>7. \A d \in Call : pc'[d] \in Holding <=> pc[d] \in Holding
  BY <1>3, <1>4
<1>8. \A x \in Call : (Live(x)' <=> Live(x)) /\ (Open(x)' <=> Open(x))
  <2>1. resolvedBy \in [Call -> Call \cup {NoCall}]
    BY DEF IndInv, TypeOK
  <2>2. \A x \in Call : Live(x)' <=> Live(x)
    BY <1>2, <1>3, <1>7 DEF Live, Running
  <2> QED
    BY <1>2, <1>7, <2>1, <2>2 DEF Open
<1>9. \A x, y \in Call : Heir(y, x) => y # c /\ Heir(y, x)'
  BY <1>3, <1>4, <1>7, <1>8 DEF Heir
<1>10. Fades
  BY <1>8, <1>9 DEF Fades, Alive
<1> QED
  BY <1>5, <1>6, <1>10

\* What a registration resolves was to be replaced by it.
LEMMA RegisterTraces ==
  ASSUME IndInv, Traces, NEW c \in Call, Register(c)
  PROVE  Traces' /\ RecordsKept /\ Fades
<1> DEFINE r == request[c].replaces
<1>1. CallEffect(c) /\ pc \in [Call -> Places]
  BY CallStepEffect DEF IndInv, TypeOK
<1>2. /\ pc[c] = "registering" /\ pc'[c] = "scheduling" /\ obligation'[c] = "running"
      /\ UNCHANGED <<request, task, child, up>>
  BY <1>1 DEF Register, At, Goto, IndInv, TypeOK, boundVars, CallEffect
<1>3. \A d \in Call \ {c} : pc'[d] = pc[d] /\ obligation'[d] = obligation[d]
  BY <1>1 DEF CallEffect
<1>4. /\ pc[c] \in Holding /\ pc'[c] \in Holding /\ child[c] = "none"
      /\ task[c].status # "absent" /\ obligation[c] = "none"
      /\ \A d \in Call \ {c} : pc[d] \notin Holding
  <2>1. pc[c] \in Holding /\ pc'[c] \in Holding
    BY <1>2 DEF Holding
  <2>2. \A d \in Call \ {c} : pc[d] \notin Holding
    BY <2>1 DEF IndInv, LockIsHeld
  <2> QED
    BY <1>2, <2>1, <2>2 DEF IndInv, CallWrites, Traces
<1>5. /\ \A x \in Call : resolvedBy'[x] = resolvedBy[x] \/ (x = r /\ resolvedBy'[x] = c)
      /\ r # NoCall => r \in Call /\ resolvedBy'[r] = c
  <2>1. resolvedBy \in [Call -> Call \cup {NoCall}]
    BY DEF IndInv, TypeOK
  <2>2. r \in Call \cup {NoCall}
    BY DEF IndInv, TypeOK, Requests, Nothing
  <2>3. resolvedBy' = IF r = NoCall THEN resolvedBy ELSE [resolvedBy EXCEPT ![r] = c]
    BY DEF Register
  <2> HIDE DEF r
  <2> QED
    BY <2>1, <2>2, <2>3
<1>6. Traces'
  <2>1. ASSUME NEW d \in Call, d # c
        PROVE  pc[d] \notin Holding /\ pc'[d] = pc[d] /\ obligation'[d] = obligation[d]
    BY <1>3, <1>4, <2>1
  <2>2. request'[c] = request[c] /\ c \notin Running
    BY <1>2, <1>4 DEF Running
  <2> QED
    BY <1>2, <1>4, <1>5, <2>1, <2>2 DEF Traces, Running, Holding
<1>7. RecordsKept
  BY <1>2 DEF RecordsKept
<1>8. \A d \in Call : pc'[d] \in Holding <=> pc[d] \in Holding
  BY <1>3, <1>4
<1>9. \A x \in Call : Live(x)' <=> Live(x)
  BY <1>2, <1>8 DEF Live, Running
<1>10. ASSUME NEW x \in Call, Open(x)' PROVE Alive(x)
  <2>1. CASE x = c
    BY <1>4, <2>1 DEF Alive, Live
  <2>2. CASE x # c /\ resolvedBy'[x] = resolvedBy[x]
    <3>1. resolvedBy[x] # NoCall => resolvedBy[x] \in Call
      BY DEF IndInv, TypeOK
    <3> QED
      BY <1>3, <1>8, <1>10, <2>2, <3>1 DEF Alive, Open
  <2>3. CASE x # c /\ x = r /\ resolvedBy'[x] = c
    <3>1. resolvedBy[x] = NoCall
      BY <1>2, <2>3, AdmissionAssumption DEF Traces
    <3> QED
      BY <1>3, <1>10, <2>3, <3>1 DEF Alive, Open
  <2> QED
    BY <1>5, <2>1, <2>2, <2>3
<1>11. Fades
  BY <1>2, <1>8, <1>9, <1>10 DEF Fades, Alive, Heir
<1> QED
  BY <1>6, <1>7, <1>11

\* A call that leaves the lock leaves no second heir behind: it is not alive
\* without an obligation, and with one the other has been resolved by it.
LEMMA OverTraces ==
  ASSUME IndInv, Traces, NEW c \in Call, Schedule(c) \/ Raise(c) \/ CancelTurn(c)
  PROVE  Traces' /\ RecordsKept /\ Fades
<1>1. /\ pc[c] \in Holding \cup {"waiting"} /\ pc'[c] \in {"started", "raised", "cancelled"}
      /\ \A d \in Call \ {c} : /\ pc'[d] = pc[d] /\ child'[d] = child[d]
                               /\ obligation'[d] = obligation[d]
      /\ UNCHANGED <<request, task, up>>
      /\ pc'[c] = "started" => /\ pc[c] = "scheduling" /\ child'[c] = "scheduled"
                               /\ UNCHANGED <<obligation, resolvedBy>>
      /\ pc'[c] # "cancelled" => pc[c] \in Holding
      /\ pc'[c] = "cancelled" => UNCHANGED <<child, obligation, resolvedBy>>
      /\ pc'[c] = "raised" =>
           /\ UNCHANGED child /\ obligation'[c] = "none"
           /\ \A x \in Call : resolvedBy'[x] = IF resolvedBy[x] = c THEN NoCall ELSE resolvedBy[x]
      /\ up
  BY DEF IndInv, TypeOK, Schedule, Raise, CancelTurn, At, Goto, goalVars, boundVars,
         Undisturbed, Holding, FlushPlaces
<1>2. /\ pc[c] = "waiting" => task[c].status = "absent" /\ obligation[c] = "none"
      /\ pc[c] \in Holding => task[c].status # "absent"
      /\ pc[c] = "scheduling" => task[c].status = "queued"
      /\ child[c] = "none" /\ pc'[c] \notin Holding
  BY <1>1 DEF IndInv, CallWrites, Traces, Holding
<1>3. \A d \in Call \ {c} : pc[d] \in Holding => pc[c] \notin Holding
  BY DEF IndInv, LockIsHeld
<1>4. resolvedBy \in [Call -> Call \cup {NoCall}] /\ request[c].replaces \in Call \cup {NoCall}
  BY DEF IndInv, TypeOK, Requests, Nothing
<1>5. Traces'
  <2>1. ASSUME NEW d \in Call, d # c, pc[d] \in Holding
        PROVE  UNCHANGED <<child, obligation, resolvedBy>>
    BY <1>1, <1>3, <2>1 DEF Holding
  <2>2. pc'[c] \notin Holding \cup {"idle", "waiting"}
    BY <1>1, <1>2
  <2>3. \A d, x \in Call : resolvedBy'[x] = d => resolvedBy[x] = d
    BY <1>1, AdmissionAssumption
  <2> QED
    BY <1>1, <1>2, <1>3, <2>1, <2>2, <2>3
    DEF Traces, Running, Terminal, TerminalStatuses, Holding
<1>6. RecordsKept
  BY <1>1 DEF RecordsKept
<1>7. \A d \in Call \ {c} : pc'[d] \in Holding <=> pc[d] \in Holding
  BY <1>1
<1>8. \A x \in Call : Live(x)' => Live(x)
  <2>1. Live(c)' => Live(c)
    BY <1>1, <1>2 DEF Live, Running, Holding
  <2>2. \A x \in Call \ {c} : Live(x)' <=> Live(x)
    BY <1>1, <1>7 DEF Live, Running
  <2> QED
    BY <2>1, <2>2
<1>9. ASSUME NEW x \in Call, Open(x)' PROVE Open(x)
  <2>1. obligation[x] # "none"
    BY <1>1, <1>9 DEF Open
  <2>2. CASE resolvedBy[x] = c
    <3>1. pc[c] \in Holding
      BY <1>1, <1>2, <1>4, <1>9, <2>2, AdmissionAssumption DEF Open
    <3> QED
      BY <2>1, <2>2, <3>1 DEF Open
  <2>3. CASE resolvedBy[x] # c
    <3>1. resolvedBy'[x] = resolvedBy[x]
      BY <1>1, <2>3
    <3> QED
      BY <1>4, <1>7, <1>9, <2>1, <2>3, <3>1 DEF Open
  <2> QED
    BY <2>2, <2>3
<1>10. ASSUME NEW x \in Call, NEW y \in Call, Alive(x)', Alive(y)', Heir(y, x)
       PROVE  Heir(y, x)'
  <2>1. CASE y # c
    BY <1>1, <1>7, <1>8, <1>10, <2>1 DEF Heir
  <2>2. CASE y = c
    <3>1. x # NoCall /\ request[c].replaces = x /\ pc[c] \in Holding /\ x # c
      BY <1>10, <2>2, AdmissionAssumption DEF Heir, Live
    <3>2. obligation[c] # "none" => resolvedBy[x] = c
      BY <3>1 DEF Traces
    <3>3. ~Live(x)'
      BY <1>8, <1>10 DEF Heir
    <3>4. Open(x)'
      BY <1>10, <3>3 DEF Alive
    <3>5. CASE pc'[c] = "raised"
      BY <1>1, <1>2, <1>10, <2>2, <3>5 DEF Alive, Live, Open, Running
    <3>6. CASE pc'[c] # "raised"
      <4>1. obligation[c] # "none"
        BY <1>1, <1>2, <1>10, <2>2, <3>1, <3>6
        DEF Alive, Live, Open, Running, IndInv, CallWrites, Traces
      <4>2. resolvedBy'[x] = c
        BY <1>1, <3>2, <3>6, <4>1
      <4> QED
        BY <1>2, <3>4, <4>2, AdmissionAssumption DEF Open
    <3> QED
      BY <3>5, <3>6
  <2> QED
    BY <2>1, <2>2
<1>11. Fades
  BY <1>8, <1>9, <1>10 DEF Fades, Alive
<1> QED
  BY <1>5, <1>6, <1>11

LEMMA CrashTraces ==
  ASSUME IndInv, Traces, Crash
  PROVE  Traces' /\ RecordsKept /\ Fades
<1>1. /\ UNCHANGED <<request, task, obligation, resolvedBy>>
      /\ \A c \in Call : /\ pc'[c] \notin Holding
                         /\ pc'[c] = pc[c] \/ pc'[c] = "crashed"
                         /\ child[c] = "none" => child'[c] = "none"
                         /\ child'[c] \in {"none", "gone"}
  BY DEF IndInv, TypeOK, Crash, Holding, Over, goalVars
<1>2. Running' = {}
  BY <1>1 DEF Running
<1>3. Traces'
  BY <1>1, <1>2 DEF Traces, Holding
<1>4. RecordsKept
  BY <1>1 DEF RecordsKept
<1>5. ASSUME NEW x \in Call, Alive(x)'
      PROVE  obligation[x] # "none" /\ resolvedBy[x] = NoCall /\ Open(x)
  <2>1. Open(x)'
    BY <1>1, <1>2, <1>5 DEF Alive, Live
  <2>2. resolvedBy[x] \in Call \cup {NoCall}
    BY DEF IndInv, TypeOK
  <2> QED
    BY <1>1, <2>1, <2>2 DEF Open
<1>6. ASSUME NEW x \in Call, NEW y \in Call, Alive(x)', Alive(y)', Heir(y, x)
      PROVE  FALSE
  <2>1. x # NoCall /\ y # NoCall
    BY AdmissionAssumption
  <2>2. pc[y] \in Holding /\ request[y].replaces = x
    BY <1>6 DEF Heir
  <2>3. obligation[y] # "none" /\ resolvedBy[x] = NoCall
    BY <1>5, <1>6
  <2> QED
    BY <2>1, <2>2, <2>3 DEF Traces
<1> QED
  BY <1>3, <1>4, <1>5, <1>6 DEF Fades, Alive

LEMMA RestartTraces ==
  ASSUME IndInv, Traces, Restart
  PROVE  Traces' /\ RecordsKept /\ Fades
<1>1. /\ ~up /\ UNCHANGED <<pc, request, child, resolvedBy>>
      /\ \A c \in Call : pc[c] \notin Holding /\ child[c] \in {"none", "gone"}
  BY DEF Restart, IndInv, CallWrites, Traces
<1>2. \A c \in Call : task'[c].status = "absent" <=> task[c].status = "absent"
  BY DEF Restart, Recovered, IndInv, TypeOK, Record
<1>3. \A c \in Call : obligation'[c] = "none" <=> obligation[c] = "none"
  BY DEF IndInv, TypeOK, Restart
<1>4. Running = {} /\ Running' = {}
  BY <1>1 DEF Running
<1>5. Traces'
  BY <1>1, <1>2, <1>3, <1>4 DEF Traces, Holding
<1>6. RecordsKept
  BY <1>1, <1>2 DEF RecordsKept
<1>7. \A x \in Call : ~Live(x)' /\ (Open(x)' <=> Open(x))
  BY <1>1, <1>3, <1>4 DEF Live, Open
<1>8. Fades
  BY <1>1, <1>7 DEF Fades, Alive, Heir
<1> QED
  BY <1>5, <1>6, <1>8

\* A new record: it is below the limits, and what it shares its key with is
\* over but for the one it is to replace.
LEMMA AdmitKin ==
  ASSUME KinInv, NEW c \in Call, Admit(c)
  PROVE  Traces' /\ OneHeir' /\ ChildCaps'
<1> DEFINE r == request[c].replaces
<1>0. IndInv /\ Traces
  BY DEF KinInv
<1>1. /\ CallEffect(c) /\ Written(c) /\ pc \in [Call -> Places]
  BY <1>0, CallStepEffect DEF IndInv, TypeOK
<1>2. /\ pc[c] = "waiting" /\ pc'[c] = "creating" /\ task'[c].status = "created"
      /\ UNCHANGED <<request, child, obligation, resolvedBy, up>>
      /\ lock = NoCall
  BY <1>1 DEF Admit, At, Goto, goalVars, boundVars, Written, LockFree
<1>3. \A d \in Call \ {c} : pc'[d] = pc[d] /\ task'[d] = task[d]
  BY <1>1 DEF CallEffect
<1>4. /\ child[c] = "none" /\ task[c].status = "absent" /\ obligation[c] = "none"
      /\ \A d \in Call : pc[d] \notin Holding
  <2>1. \A d \in Call : pc[d] \notin Holding
    BY <1>0, <1>2, AdmissionAssumption DEF IndInv, LockIsHeld
  <2> QED
    BY <1>0, <1>2, <2>1 DEF IndInv, CallWrites, Traces
<1>5. BelowLimits(c) /\ Original(c) /\ Registrable(c)
  BY DEF Admit
<1>6. r # NoCall => /\ r \in Call /\ obligation[r] = "failed" /\ resolvedBy[r] = NoCall
                    /\ request[c].required
  <2>1. r \in Call \cup {NoCall}
    BY <1>0 DEF IndInv, TypeOK, Requests, Nothing
  <2>2. r # NoCall => request[c].required
    BY <1>0 DEF Traces
  <2> QED
    BY <1>5, <2>1, <2>2 DEF Registrable, Replaceable
<1>7. Traces'
  <2>1. ASSUME NEW d \in Call, d # c
        PROVE  pc[d] \notin Holding /\ pc'[d] = pc[d] /\ task'[d] = task[d]
    BY <1>3, <1>4, <2>1
  <2>2. c \notin Running
    BY <1>4 DEF Running
  <2> QED
    BY <1>0, <1>2, <1>4, <1>6, <2>1, <2>2 DEF Traces, Running, Holding
<1>8. \A x, y \in Call :
        /\ Owner(x)' = Owner(x) /\ SessionOfCall(x)' = SessionOfCall(x)
        /\ IdempotencyKey(x)' = IdempotencyKey(x)
  BY <1>2 DEF Owner, SessionOfCall, IdempotencyKey
<1>9. \A d \in Call \ {c} : (Alive(d)' => Alive(d)) /\ (Live(d)' <=> Live(d))
  <2>1. \A d \in Call \ {c} : pc'[d] \notin Holding /\ pc[d] \notin Holding
    BY <1>3, <1>4
  <2>2. \A d \in Call \ {c} : Live(d)' <=> Live(d)
    BY <1>2, <1>3, <2>1 DEF Live, Running
  <2>3. ASSUME NEW d \in Call \ {c}, Open(d)' PROVE Alive(d)
    <3>1. obligation[d] # "none" /\ resolvedBy[d] \in Call \cup {NoCall}
      BY <1>0, <1>2, <2>3 DEF Open, IndInv, TypeOK
    <3>2. resolvedBy[d] # c
      BY <1>0, <1>2 DEF Traces
    <3> QED
      BY <1>2, <2>1, <2>3, <3>1, <3>2 DEF Open, Alive
  <2> QED
    BY <2>2, <2>3 DEF Alive
<1>10. ASSUME NEW d \in Call, d # c, Alive(d)', IdempotencyKey(c) = IdempotencyKey(d)
       PROVE  Heir(c, d)'
  <2>1. Alive(d) /\ task[d].status # "absent"
    BY <1>0, <1>9, <1>10, AliveIsRecorded
  <2>2. d \in Duplicates(c)
    BY <1>10, <2>1 DEF Duplicates, Recorded
  <2>3. /\ r \in Call /\ r # NoCall /\ obligation[r] = "failed" /\ resolvedBy[r] = NoCall
        /\ IdempotencyKey(r) = IdempotencyKey(c)
    BY <1>5, <1>6, <2>2, AdmissionAssumption DEF Original, Duplicates, Recorded
  <2>4. Alive(r) /\ ~Live(r)
    BY <1>0, <1>4, <2>3 DEF Alive, Open, Live, Traces
  <2>5. d = r
    <3> HIDE DEF r
    <3> QED
      BY <1>4, <1>10, <2>1, <2>3, <2>4 DEF KinInv, OneHeir, Heir
  <2>6. ~Live(d)'
    BY <1>9, <1>10, <2>4, <2>5
  <2> QED
    BY <1>2, <2>5, <2>6 DEF Heir, Holding
<1>11. OneHeir'
  <2>1. ASSUME NEW x \in Call, NEW y \in Call, x # y, Alive(x)', Alive(y)',
               IdempotencyKey(x) = IdempotencyKey(y)
        PROVE  Heir(x, y)' \/ Heir(y, x)'
    <3>1. x = c \/ y = c
      BY <1>4, <1>9, <2>1 DEF KinInv, OneHeir, Heir
    <3> QED
      BY <1>10, <2>1, <3>1
  <2> QED
    BY <1>8, <2>1 DEF OneHeir
<1>12. ChildCaps'
  <2>1. Recorded' = Recorded \cup {c} /\ Recorded \subseteq Call
    BY <1>2, <1>3 DEF Recorded
  <2>2. /\ IsFiniteSet(OfOwner(c)) /\ IsFiniteSet(OfSession(c))
        /\ Cardinality(OfOwner(c)) < MaxPerRun /\ Cardinality(OfSession(c)) < MaxPerSession
    BY <1>5, <2>1, FS_Subset, AdmissionAssumption DEF OfOwner, OfSession, BelowLimits
  <2>3. /\ Cardinality(OfOwner(c)) \in Nat /\ Cardinality(OfSession(c)) \in Nat
        /\ MaxPerRun \in Nat /\ MaxPerSession \in Nat
    BY <2>2, FS_CardinalityType, AdmissionAssumption
  <2>4. ASSUME NEW x \in Recorded' PROVE Cardinality(OfOwner(x)') <= MaxPerRun
    <3>1. CASE Owner(x) = Owner(c)
      <4>1. OfOwner(x)' \subseteq OfOwner(c) \cup {c}
        BY <1>8, <2>1, <2>4, <3>1 DEF OfOwner
      <4>2. Cardinality(OfOwner(x)') <= Cardinality(OfOwner(c)) + 1
            /\ Cardinality(OfOwner(x)') \in Nat
        BY <2>2, <4>1, OneMore
      <4> QED
        BY <2>2, <2>3, <4>2
    <3>2. CASE Owner(x) # Owner(c)
      <4>1. x \in Recorded /\ OfOwner(x)' = OfOwner(x)
        BY <1>8, <2>1, <2>4, <3>2 DEF OfOwner
      <4> QED
        BY <4>1 DEF KinInv, ChildCaps
    <3> QED
      BY <3>1, <3>2
  <2>5. ASSUME NEW x \in Recorded' PROVE Cardinality(OfSession(x)') <= MaxPerSession
    <3>1. CASE SessionOfCall(x) = SessionOfCall(c)
      <4>1. OfSession(x)' \subseteq OfSession(c) \cup {c}
        BY <1>8, <2>1, <2>5, <3>1 DEF OfSession
      <4>2. Cardinality(OfSession(x)') <= Cardinality(OfSession(c)) + 1
            /\ Cardinality(OfSession(x)') \in Nat
        BY <2>2, <4>1, OneMore
      <4> QED
        BY <2>2, <2>3, <4>2
    <3>2. CASE SessionOfCall(x) # SessionOfCall(c)
      <4>1. x \in Recorded /\ OfSession(x)' = OfSession(x)
        BY <1>8, <2>1, <2>5, <3>2 DEF OfSession
      <4> QED
        BY <4>1 DEF KinInv, ChildCaps
    <3> QED
      BY <3>1, <3>2
  <2> QED
    BY <2>4, <2>5 DEF ChildCaps
<1> QED
  BY <1>7, <1>11, <1>12

LEMMA InitKin == Init => KinInv
<1> SUFFICES ASSUME Init PROVE KinInv
  OBVIOUS
<1>1. IndInv
  BY InitInd
<1>2. Recorded = {} /\ Running = {}
  BY DEF Init, Recorded, Running
<1>3. Traces
  BY <1>2, AdmissionAssumption DEF Init, Traces, Holding, Nothing
<1>4. \A x \in Call : ~Alive(x)
  BY <1>2 DEF Init, Alive, Live, Open, Holding
<1> QED
  BY <1>1, <1>2, <1>3, <1>4 DEF KinInv, OneHeir, ChildCaps

LEMMA NextKeepsKin == KinInv /\ [Next]_vars => KinInv'
<1> SUFFICES ASSUME KinInv, [Next]_vars PROVE KinInv'
  OBVIOUS
<1>0. IndInv /\ Traces
  BY DEF KinInv
<1>1. IndInv'
  BY <1>0, NextKeepsInv
<1>2. ASSUME Traces', RecordsKept, Fades PROVE Traces' /\ OneHeir' /\ ChildCaps'
  BY <1>2, KinFades
<1>3. ASSUME NEW c \in Call, ChildStep(c) PROVE Traces' /\ OneHeir' /\ ChildCaps'
  BY <1>0, <1>2, <1>3, ChildTraces
<1>4. ASSUME NEW c \in Call, Admit(c) PROVE Traces' /\ OneHeir' /\ ChildCaps'
  BY <1>4, AdmitKin
<1>5. ASSUME NEW c \in Call, Ask(c) \/ Refuse(c) PROVE Traces' /\ OneHeir' /\ ChildCaps'
  BY <1>0, <1>2, <1>5, OutsideTraces
<1>6. ASSUME NEW c \in Call,
             \/ Queue(c) \/ Flushed(c) \/ RegisterFails(c) \/ ScheduleFails(c)
             \/ Fail(c) \/ Release(c)
      PROVE  Traces' /\ OneHeir' /\ ChildCaps'
  BY <1>0, <1>2, <1>6, HoldingTraces
<1>7. ASSUME NEW c \in Call, Register(c) PROVE Traces' /\ OneHeir' /\ ChildCaps'
  BY <1>0, <1>2, <1>7, RegisterTraces
<1>8. ASSUME NEW c \in Call, Schedule(c) \/ Raise(c) \/ CancelTurn(c)
      PROVE  Traces' /\ OneHeir' /\ ChildCaps'
  BY <1>0, <1>2, <1>8, OverTraces
<1>9. ASSUME Crash PROVE Traces' /\ OneHeir' /\ ChildCaps'
  BY <1>0, <1>2, <1>9, CrashTraces
<1>10. ASSUME Restart PROVE Traces' /\ OneHeir' /\ ChildCaps'
  BY <1>0, <1>2, <1>10, RestartTraces
<1>11. ASSUME UNCHANGED vars PROVE Traces' /\ OneHeir' /\ ChildCaps'
  <2>1. Traces' /\ RecordsKept
    BY <1>0, <1>11 DEF vars, Traces, RecordsKept, Running
  <2>2. \A x, y \in Call : (Alive(x)' <=> Alive(x)) /\ (Heir(y, x)' <=> Heir(y, x))
    BY <1>11 DEF vars, Alive, Live, Open, Heir, Running
  <2> QED
    BY <1>2, <2>1, <2>2 DEF Fades
<1>12. Traces' /\ OneHeir' /\ ChildCaps'
  BY <1>3, <1>4, <1>5, <1>6, <1>7, <1>8, <1>9, <1>10, <1>11 DEF Next, CallStep, ChildStep
<1> QED
  BY <1>1, <1>12 DEF KinInv

LEMMA HeirsAreNoTwins == KinInv => NoTwins
  BY DEF KinInv, OneHeir, NoTwins, Alive, Live, Heir, Running

-----------------------------------------------------------------------------
(* Sums over finite sets, as MapThenSumSet computes them. *)

LEMMA SetInduction ==
  ASSUME NEW T, 0 \in T, \A n \in Nat : n \in T => n + 1 \in T
  PROVE  Nat \subseteq T
<1> DEFINE C == Nat \ T
<1> SUFFICES ASSUME C # {} PROVE FALSE
  OBVIOUS
<1>1. PICK m \in C : \A k \in C : <<k, m>> \notin OpToRel(<, Nat)
  BY WFMin, NatLessThanWellFounded, Zenon
<1>2. m \in Nat /\ m # 0 /\ \A k \in Nat : k < m => k \in T
  BY <1>1 DEF OpToRel
<1>3. m - 1 \in Nat /\ m = (m - 1) + 1 /\ m - 1 \in T
  BY <1>2
<1> QED
  BY <1>1, <1>3

Pick(s) == CHOOSE x \in s : TRUE

\* g sums w over each set of D.
Adds(g, w, D) ==
  /\ g \in [D -> Nat]
  /\ \A s \in D : g[s] = IF s = {} THEN 0 ELSE w[Pick(s)] + g[s \ {Pick(s)}]
Total(w, C) == CHOOSE g : Adds(g, w, SUBSET C)

LEMMA OneLess ==
  ASSUME NEW s, IsFiniteSet(s), NEW x \in s
  PROVE  /\ IsFiniteSet(s \ {x}) /\ Cardinality(s) \in Nat
         /\ Cardinality(s \ {x}) \in Nat /\ Cardinality(s) = Cardinality(s \ {x}) + 1
<1>1. IsFiniteSet(s \ {x}) /\ Cardinality(s \ {x}) = Cardinality(s) - 1
  BY FS_RemoveElement
<1>2. Cardinality(s) \in Nat /\ Cardinality(s \ {x}) \in Nat
  BY <1>1, FS_CardinalityType
<1> QED
  BY <1>1, <1>2

\* What holds of a set when it holds with any one element less holds of all.
LEMMA SubsetInduction ==
  ASSUME NEW C, IsFiniteSet(C), NEW T,
         \A s \in SUBSET C : (\A x \in s : s \ {x} \in T) => s \in T
  PROVE  SUBSET C \subseteq T
<1> DEFINE N == {n \in Nat : \A s \in SUBSET C : Cardinality(s) = n => s \in T}
<1>1. \A s \in SUBSET C : IsFiniteSet(s) /\ Cardinality(s) \in Nat
  BY FS_Subset, FS_CardinalityType
<1>2. 0 \in N
  <2>1. ASSUME NEW s \in SUBSET C, Cardinality(s) = 0 PROVE s \in T
    <3>1. s = {}
      BY <1>1, <2>1, FS_EmptySet
    <3> QED
      BY <3>1
  <2> QED
    BY <2>1
<1>3. ASSUME NEW n \in Nat, n \in N PROVE n + 1 \in N
  <2>1. ASSUME NEW s \in SUBSET C, Cardinality(s) = n + 1 PROVE s \in T
    <3>1. ASSUME NEW x \in s PROVE s \ {x} \in T
      <4>1. Cardinality(s \ {x}) = n
        BY <1>1, <2>1, <3>1, OneLess
      <4> QED
        BY <1>3, <4>1
    <3> QED
      BY <3>1
  <2> QED
    BY <2>1
<1> HIDE DEF N
<1>4. Nat \subseteq N
  BY <1>2, <1>3, SetInduction
<1> QED
  BY <1>1, <1>4 DEF N

Below(C, n) == {s \in SUBSET C : Cardinality(s) <= n}

LEMMA SumExists ==
  ASSUME NEW C, IsFiniteSet(C), NEW w \in [C -> Nat]
  PROVE  Adds(Total(w, C), w, SUBSET C)
<1> DEFINE N == {n \in Nat : \E g : Adds(g, w, Below(C, n))}
<1>1. \A s \in SUBSET C : /\ IsFiniteSet(s) /\ Cardinality(s) \in Nat
                          /\ Cardinality(s) <= Cardinality(C)
  BY FS_Subset, FS_CardinalityType
<1>2. 0 \in N
  <2>1. \A s \in Below(C, 0) : s = {}
    BY <1>1, FS_EmptySet DEF Below
  <2>2. Adds([s \in Below(C, 0) |-> 0], w, Below(C, 0))
    BY <2>1 DEF Adds
  <2> QED
    BY <2>2
<1>3. ASSUME NEW n \in Nat, n \in N PROVE n + 1 \in N
  <2>1. PICK g : Adds(g, w, Below(C, n))
    BY <1>3
  <2> DEFINE v(s) == IF s = {} THEN 0 ELSE w[Pick(s)] + g[s \ {Pick(s)}]
             h == [s \in Below(C, n + 1) |-> v(s)]
  <2>2. ASSUME NEW s \in Below(C, n + 1), s # {}
        PROVE  Pick(s) \in s /\ Pick(s) \in C /\ s \ {Pick(s)} \in Below(C, n)
    <3>1. Pick(s) \in s
      BY <2>2 DEF Pick, Below
    <3>2. Cardinality(s \ {Pick(s)}) <= n
      <4> DEFINE x == Pick(s)
      <4>1. x \in s /\ IsFiniteSet(s) /\ Cardinality(s) <= n + 1
        BY <1>1, <2>2, <3>1 DEF Below
      <4> HIDE DEF x
      <4>2. Cardinality(s) = Cardinality(s \ {x}) + 1 /\ Cardinality(s \ {x}) \in Nat
            /\ Cardinality(s) \in Nat
        BY <4>1, OneLess
      <4> QED
        BY <4>1, <4>2 DEF x
    <3> QED
      BY <2>2, <3>1, <3>2 DEF Below
  <2>3. \A s \in Below(C, n + 1) : v(s) \in Nat
    BY <2>1, <2>2 DEF Adds
  <2>4. \A s \in Below(C, n) : s \in Below(C, n + 1) /\ v(s) = g[s]
    BY <1>1, <2>1 DEF Adds, Below
  <2>5. Adds(h, w, Below(C, n + 1))
    <3>1. h \in [Below(C, n + 1) -> Nat]
      BY <2>3
    <3>2. ASSUME NEW s \in Below(C, n + 1), s # {}
          PROVE  h[s] = w[Pick(s)] + h[s \ {Pick(s)}]
      <4>1. h[s] = w[Pick(s)] + g[s \ {Pick(s)}]
        BY <3>2
      <4>2. h[s \ {Pick(s)}] = g[s \ {Pick(s)}]
        BY <2>2, <2>4, <3>2
      <4> QED
        BY <4>1, <4>2
    <3>3. {} \in Below(C, n + 1) => h[{}] = 0
      OBVIOUS
    <3> HIDE DEF h
    <3> QED
      BY <3>1, <3>2, <3>3 DEF Adds
  <2> HIDE DEF h, v
  <2>6. \E k : Adds(k, w, Below(C, n + 1))
    BY <2>5
  <2> QED
    BY <2>6
<1>4. Cardinality(C) \in N
  <2> HIDE DEF N
  <2>1. Nat \subseteq N
    BY <1>2, <1>3, SetInduction
  <2> QED
    BY <2>1, FS_CardinalityType
<1>5. Below(C, Cardinality(C)) = SUBSET C
  BY <1>1 DEF Below
<1>6. \E g : Adds(g, w, SUBSET C)
  BY <1>4, <1>5
<1> QED
  BY <1>6 DEF Total

\* The function that a sum over S recurs through.
Recurs(f, w, S) ==
  f = [s \in SUBSET S |-> IF s = {} THEN 0 ELSE w[Pick(s)] + f[s \ {Pick(s)}]]

LEMMA SumUnique ==
  ASSUME NEW C, IsFiniteSet(C), NEW w \in [C -> Nat], NEW S \in SUBSET C, NEW f,
         Recurs(f, w, S)
  PROVE  f[S] = Total(w, C)[S]
<1> DEFINE g == Total(w, C)
           T == {s \in SUBSET S : f[s] = g[s]}
<1>1. Adds(g, w, SUBSET C)
  BY SumExists
<1> HIDE DEF g
<1>2. ASSUME NEW s \in SUBSET S, \A x \in s : s \ {x} \in T PROVE s \in T
  <2>1. s # {} => Pick(s) \in s
    BY DEF Pick
  <2>2. f[s] = IF s = {} THEN 0 ELSE w[Pick(s)] + f[s \ {Pick(s)}]
    BY DEF Recurs
  <2>3. g[s] = IF s = {} THEN 0 ELSE w[Pick(s)] + g[s \ {Pick(s)}]
    BY <1>1 DEF Adds
  <2> QED
    BY <1>2, <2>1, <2>2, <2>3
<1>3. IsFiniteSet(S)
  BY FS_Subset
<1> HIDE DEF T
<1>4. SUBSET S \subseteq T
  BY <1>2, <1>3, SubsetInduction
<1> QED
  BY <1>4 DEF T, g

\* The order in which the elements are taken does not matter.
LEMMA SumTakes ==
  ASSUME NEW C, IsFiniteSet(C), NEW w \in [C -> Nat], NEW S \in SUBSET C, NEW x \in S
  PROVE  /\ Total(w, C)[S] \in Nat /\ Total(w, C)[S \ {x}] \in Nat
         /\ Total(w, C)[S] = w[x] + Total(w, C)[S \ {x}]
<1> DEFINE g == Total(w, C)
           T == {s \in SUBSET C : \A y \in s : g[s] = w[y] + g[s \ {y}]}
<1>1. Adds(g, w, SUBSET C)
  BY SumExists
<1> HIDE DEF g
<1>2. \A s \in SUBSET C : g[s] \in Nat /\ \A y \in s : w[y] \in Nat
  BY <1>1 DEF Adds
<1>3. ASSUME NEW s \in SUBSET C, \A y \in s : s \ {y} \in T PROVE s \in T
  <2> SUFFICES ASSUME NEW y \in s PROVE g[s] = w[y] + g[s \ {y}]
    OBVIOUS
  <2> DEFINE p == Pick(s)
  <2>1. p \in s
    BY DEF Pick
  <2>2. g[s] = w[p] + g[s \ {p}]
    BY <1>1 DEF Adds
  <2> HIDE DEF p
  <2>3. CASE y # p
    <3>1. g[s \ {p}] = w[y] + g[(s \ {p}) \ {y}]
      BY <1>3, <2>1, <2>3
    <3>2. g[s \ {y}] = w[p] + g[(s \ {y}) \ {p}]
      BY <1>3, <2>1, <2>3
    <3>3. (s \ {p}) \ {y} = (s \ {y}) \ {p}
      OBVIOUS
    <3>4. w[p] \in Nat /\ w[y] \in Nat /\ g[(s \ {p}) \ {y}] \in Nat
      BY <1>2, <2>1
    <3> DEFINE a == g[(s \ {p}) \ {y}]
    <3>5. g[s] = w[p] + (w[y] + a) /\ g[s \ {y}] = w[p] + a
      BY <2>2, <3>1, <3>2, <3>3
    <3>6. a \in Nat /\ w[p] \in Nat /\ w[y] \in Nat
      BY <3>4
    <3> HIDE DEF a
    <3> QED
      BY <3>5, <3>6
  <2> QED
    BY <2>2, <2>3
<1> HIDE DEF T
<1>4. SUBSET C \subseteq T
  BY <1>3, SubsetInduction
<1>5. S \ {x} \in SUBSET C
  OBVIOUS
<1> QED
  BY <1>2, <1>4, <1>5 DEF T, g

LEMMA SumMonotone ==
  ASSUME NEW C, IsFiniteSet(C), NEW v \in [C -> Nat], NEW w \in [C -> Nat],
         NEW S \in SUBSET C, \A x \in S : v[x] <= w[x]
  PROVE  Total(v, C)[S] <= Total(w, C)[S]
<1> DEFINE f == Total(v, C)
           g == Total(w, C)
           T == {s \in SUBSET S : f[s] <= g[s]}
<1>1. Adds(f, v, SUBSET C) /\ Adds(g, w, SUBSET C)
  BY SumExists
<1> HIDE DEF f, g
<1>2. ASSUME NEW s \in SUBSET S, \A x \in s : s \ {x} \in T PROVE s \in T
  <2> DEFINE p == Pick(s)
  <2>1. s # {} => p \in s
    BY DEF Pick
  <2>2. f[s] = (IF s = {} THEN 0 ELSE v[p] + f[s \ {p}])
        /\ g[s] = (IF s = {} THEN 0 ELSE w[p] + g[s \ {p}])
    BY <1>1 DEF Adds
  <2> HIDE DEF p
  <2>3. CASE s # {}
    <3>1. f[s \ {p}] <= g[s \ {p}] /\ v[p] <= w[p]
      BY <1>2, <2>1, <2>3
    <3>2. f[s \ {p}] \in Nat /\ g[s \ {p}] \in Nat /\ v[p] \in Nat /\ w[p] \in Nat
      BY <1>1, <2>1, <2>3 DEF Adds
    <3> QED
      BY <2>2, <2>3, <3>1, <3>2
  <2> QED
    BY <2>2, <2>3
<1>3. IsFiniteSet(S)
  BY FS_Subset
<1> HIDE DEF T
<1>4. SUBSET S \subseteq T
  BY <1>2, <1>3, SubsetInduction
<1> QED
  BY <1>4 DEF T, f, g

-----------------------------------------------------------------------------
(* The token budget of a session. *)

Capped(d) == IF Charge(d) < Reserve THEN Charge(d) ELSE Reserve
Weight  == [d \in Call |-> Capped(d)]
Charges == [d \in Call |-> Charge(d)]

\* TokenCap over sums that no order of summation enters.
TokenSums ==
  MaxTokens > 0 => \A c \in Recorded : Total(Weight, Call)[OfSession(c)] <= MaxTokens

\* A child that has not settled yet still has its reservation.
Reserved ==
  \A c \in Call :
    \/ pc[c] \in {"creating", "flushing", "registering", "scheduling"}
    \/ child[c] \in {"scheduled", "starting", "working", "ended"}
    => task[c].reservation = "reserved"

TokenInv == KinInv /\ Reserved /\ TokenSums

\* What every step but Admit does to what the recorded children count for.
Lightens == \A x \in Recorded : Weight'[x] <= Weight[x]

LEMMA WeightFacts ==
  ASSUME TypeOK
  PROVE  /\ Weight \in [Call -> Nat] /\ Charges \in [Call -> Nat]
         /\ \A d \in Call : Weight[d] <= Reserve /\ Weight[d] <= Charges[d]
<1>1. \A d \in Call : task[d].used \in Nat
  BY DEF TypeOK
<1>2. Reserve \in Nat
  BY AdmissionAssumption
<1>3. \A d \in Call : Charge(d) \in Nat
  BY <1>1, <1>2 DEF Charge
<1>4. \A d \in Call : Capped(d) \in Nat /\ Capped(d) <= Reserve /\ Capped(d) <= Charge(d)
  BY <1>2, <1>3 DEF Capped
<1> QED
  BY <1>3, <1>4 DEF Weight, Charges

\* MapThenSumSet computes these totals.
CappedIter(S) ==
  CHOOSE f : f = [s \in SUBSET S |->
    IF s = {} THEN 0 ELSE Capped(Pick(s)) + f[s \ {Pick(s)}]]
ChargeIter(S) ==
  CHOOSE f : f = [s \in SUBSET S |->
    IF s = {} THEN 0 ELSE Charge(Pick(s)) + f[s \ {Pick(s)}]]

LEMMA SumsUnfolded ==
  /\ \A S : MapThenSumSet(LAMBDA d : IF Charge(d) < Reserve THEN Charge(d) ELSE Reserve, S)
              = CappedIter(S)[S]
  /\ \A S : MapThenSumSet(Charge, S) = ChargeIter(S)[S]
BY DEF MapThenSumSet, MapThenFoldSet, CappedIter, ChargeIter, Capped, Pick

LEMMA SumsAreTotals ==
  ASSUME TypeOK, NEW S \in SUBSET Call
  PROVE  /\ CappedIter(S)[S] = Total(Weight, Call)[S]
         /\ ChargeIter(S)[S] = Total(Charges, Call)[S]
<1>0. /\ IsFiniteSet(Call) /\ Weight \in [Call -> Nat] /\ Charges \in [Call -> Nat]
      /\ \A s \in SUBSET S : s # {} => Pick(s) \in s /\ Pick(s) \in Call
  BY AdmissionAssumption, WeightFacts DEF Pick
<1>1. CappedIter(S)[S] = Total(Weight, Call)[S]
  <2> DEFINE g == Total(Weight, Call)
             h == [s \in SUBSET S |-> g[s]]
             f == CappedIter(S)
  <2>1. \A s \in SUBSET S : g[s] = IF s = {} THEN 0 ELSE Weight[Pick(s)] + g[s \ {Pick(s)}]
    BY <1>0, SumExists DEF Adds
  <2> HIDE DEF g
  <2>2. \A s \in SUBSET S : s # {} => Weight[Pick(s)] = Capped(Pick(s))
    BY <1>0 DEF Weight
  <2>3. h = [s \in SUBSET S |-> IF s = {} THEN 0 ELSE Capped(Pick(s)) + h[s \ {Pick(s)}]]
    <3>1. ASSUME NEW s \in SUBSET S
          PROVE  h[s] = IF s = {} THEN 0 ELSE Capped(Pick(s)) + h[s \ {Pick(s)}]
      BY <2>1, <2>2
    <3> QED
      BY <3>1
  <2>4. f = [s \in SUBSET S |-> IF s = {} THEN 0 ELSE Capped(Pick(s)) + f[s \ {Pick(s)}]]
    <3> HIDE DEF h
    <3> QED
      BY <2>3 DEF CappedIter
  <2> HIDE DEF f
  <2>5. Recurs(f, Weight, S)
    BY <2>2, <2>4 DEF Recurs
  <2>6. f[S] = Total(Weight, Call)[S]
    BY <1>0, <2>5, SumUnique
  <2> QED
    BY <2>6 DEF f
<1>2. ChargeIter(S)[S] = Total(Charges, Call)[S]
  <2> DEFINE g == Total(Charges, Call)
             h == [s \in SUBSET S |-> g[s]]
             f == ChargeIter(S)
  <2>1. \A s \in SUBSET S : g[s] = IF s = {} THEN 0 ELSE Charges[Pick(s)] + g[s \ {Pick(s)}]
    BY <1>0, SumExists DEF Adds
  <2> HIDE DEF g
  <2>2. \A s \in SUBSET S : s # {} => Charges[Pick(s)] = Charge(Pick(s))
    BY <1>0 DEF Charges
  <2>3. h = [s \in SUBSET S |-> IF s = {} THEN 0 ELSE Charge(Pick(s)) + h[s \ {Pick(s)}]]
    <3>1. ASSUME NEW s \in SUBSET S
          PROVE  h[s] = IF s = {} THEN 0 ELSE Charge(Pick(s)) + h[s \ {Pick(s)}]
      BY <2>1, <2>2
    <3> QED
      BY <3>1
  <2>4. f = [s \in SUBSET S |-> IF s = {} THEN 0 ELSE Charge(Pick(s)) + f[s \ {Pick(s)}]]
    <3> HIDE DEF h
    <3> QED
      BY <2>3 DEF ChargeIter
  <2> HIDE DEF f
  <2>5. Recurs(f, Charges, S)
    BY <2>2, <2>4 DEF Recurs
  <2>6. f[S] = Total(Charges, Call)[S]
    BY <1>0, <2>5, SumUnique
  <2> QED
    BY <2>6 DEF f
<1> QED
  BY <1>1, <1>2

LEMMA CapIsSums == TypeOK => (TokenCap <=> TokenSums)
<1> SUFFICES ASSUME TypeOK PROVE TokenCap <=> TokenSums
  OBVIOUS
<1>1. \A c \in Recorded : OfSession(c) \in SUBSET Call
  BY DEF OfSession, Recorded
<1>2. \A c \in Recorded :
        MapThenSumSet(LAMBDA d : IF Charge(d) < Reserve THEN Charge(d) ELSE Reserve,
                      OfSession(c)) = Total(Weight, Call)[OfSession(c)]
  BY <1>1, SumsUnfolded, SumsAreTotals
<1> QED
  BY <1>2 DEF TokenCap, TokenSums

LEMMA TokensLighten ==
  ASSUME IndInv, IndInv', TokenSums, RecordsKept, Lightens
  PROVE  TokenSums'
<1>1. /\ Weight \in [Call -> Nat] /\ Weight' \in [Call -> Nat] /\ IsFiniteSet(Call)
      /\ MaxTokens \in Nat
  <2>1. TypeOK /\ TypeOK'
    BY DEF IndInv
  <2>2. (TypeOK => Weight \in [Call -> Nat])'
    BY WeightFacts, PTL
  <2> QED
    BY <2>1, <2>2, WeightFacts, AdmissionAssumption
<1>2. Recorded' = Recorded
  BY DEF RecordsKept, Recorded
<1>3. ASSUME NEW c \in Recorded, MaxTokens > 0
      PROVE  Total(Weight', Call)[OfSession(c)'] <= MaxTokens
  <2>1. OfSession(c)' = OfSession(c)
    BY <1>2 DEF RecordsKept, OfSession, SessionOfCall, Recorded
  <2> DEFINE S == OfSession(c)
             v == Weight'
             w == Weight
  <2>2. /\ S \in SUBSET Call /\ v \in [Call -> Nat] /\ w \in [Call -> Nat]
        /\ \A x \in S : v[x] <= w[x] /\ x \in Call
    BY <1>1 DEF OfSession, Recorded, Lightens
  <2>3. Total(w, Call)[S] <= MaxTokens
    BY <1>3 DEF TokenSums
  <2> HIDE DEF S, v, w
  <2>4. Total(v, Call)[S] <= Total(w, Call)[S]
    BY <1>1, <2>2, SumMonotone
  <2>5. Total(v, Call)[S] \in Nat /\ Total(w, Call)[S] \in Nat
    <3>1. Adds(Total(v, Call), v, SUBSET Call) /\ Adds(Total(w, Call), w, SUBSET Call)
      BY <1>1, <2>2, SumExists
    <3> QED
      BY <2>2, <3>1 DEF Adds
  <2>6. Total(v, Call)[S] <= MaxTokens
    BY <1>1, <2>3, <2>4, <2>5
  <2> QED
    BY <2>1, <2>6 DEF S, v
<1> QED
  BY <1>2, <1>3 DEF TokenSums

\* What is admitted was seen to fit, with its whole reservation.
LEMMA AdmitTokens ==
  ASSUME KinInv, IndInv', TokenSums, NEW c \in Call, Admit(c)
  PROVE  TokenSums'
<1>0. IndInv /\ Traces /\ TypeOK
  BY DEF KinInv, IndInv
<1>1. /\ Weight \in [Call -> Nat] /\ Weight' \in [Call -> Nat] /\ IsFiniteSet(Call)
      /\ Charges \in [Call -> Nat] /\ {MaxTokens, Reserve} \subseteq Nat
      /\ \A d \in Call : Weight[d] <= Charges[d]
  <2>1. TypeOK'
    BY DEF IndInv
  <2>2. (TypeOK => Weight \in [Call -> Nat])'
    BY WeightFacts, PTL
  <2> QED
    BY <1>0, <2>1, <2>2, WeightFacts, AdmissionAssumption
<1>2. /\ request' = request /\ task[c].status = "absent"
      /\ task'[c].reservation = "reserved" /\ task'[c].status # "absent"
      /\ \A d \in Call \ {c} : task'[d] = task[d]
  <2>1. task \in [Call -> Record] /\ pc[c] = "waiting" /\ request' = request
    BY <1>0 DEF TypeOK, Record, Admit, At
  <2>2. task' = [task EXCEPT ![c].status = "created", ![c].reservation = "reserved"]
    BY DEF Admit
  <2> QED
    BY <1>0, <2>1, <2>2 DEF Traces, Record
<1>3. /\ Weight'[c] <= Reserve
      /\ \A d \in Call \ {c} : Weight'[d] = Weight[d]
  <2>1. (TypeOK => \A d \in Call : Weight[d] <= Reserve /\ Weight[d] <= Charges[d])'
    BY WeightFacts, PTL
  <2>2. TypeOK'
    BY DEF IndInv
  <2> QED
    BY <1>2, <2>1, <2>2 DEF Weight, Capped, Charge
<1>4. Recorded' = Recorded \cup {c} /\ c \notin Recorded /\ Recorded \subseteq Call
  BY <1>2 DEF Recorded
<1>5. \A x \in Call : SessionOfCall(x)' = SessionOfCall(x)
  BY <1>2 DEF SessionOfCall
<1> DEFINE v == Weight'
           w == Weight
<1>6. /\ v \in [Call -> Nat] /\ w \in [Call -> Nat]
      /\ \A d \in Call \ {c} : v[d] <= w[d]
  BY <1>1, <1>3
<1>7. ASSUME NEW x \in Recorded', MaxTokens > 0
      PROVE  Total(v, Call)[OfSession(x)'] <= MaxTokens
  <2>1. CASE SessionOfCall(x) = SessionOfCall(c)
    <3> DEFINE S == OfSession(c)
               u == Charges
    <3>1. OfSession(x)' = S \cup {c} /\ c \notin S /\ S \subseteq Call
      BY <1>4, <1>5, <1>7, <2>1 DEF OfSession
    <3>2. Total(u, Call)[S] + Reserve <= MaxTokens
      <4>1. Charged(c) = Total(u, Call)[S]
        BY <1>0, <3>1, SumsUnfolded, SumsAreTotals DEF Charged
      <4> QED
        BY <1>7, <4>1 DEF Admit, WithinBudget
    <3>3. u \in [Call -> Nat] /\ \A d \in S : v[d] <= u[d]
      <4>1. \A d \in S : v[d] \in Nat /\ w[d] \in Nat /\ u[d] \in Nat
                         /\ v[d] <= w[d] /\ w[d] <= u[d]
        BY <1>1, <1>6, <3>1
      <4> QED
        BY <1>1, <4>1
    <3>4. v[c] <= Reserve /\ v[c] \in Nat
      BY <1>3, <1>6
    <3> HIDE DEF S, u, v, w
    <3> DEFINE R == S \cup {c}
    <3>5. R \in SUBSET Call /\ c \in R /\ R \ {c} = S /\ S \in SUBSET Call
      BY <3>1
    <3> HIDE DEF R
    <3>6. /\ Total(v, Call)[R] \in Nat /\ Total(v, Call)[S] \in Nat
          /\ Total(v, Call)[R] = v[c] + Total(v, Call)[S]
      <4>1. /\ Total(v, Call)[R] \in Nat /\ Total(v, Call)[R \ {c}] \in Nat
            /\ Total(v, Call)[R] = v[c] + Total(v, Call)[R \ {c}]
        <5>1. IsFiniteSet(Call) /\ v \in [Call -> Nat]
          BY <1>1, <1>6
        <5>2. ASSUME NEW r \in SUBSET Call, NEW y \in r
              PROVE  /\ Total(v, Call)[r] \in Nat /\ Total(v, Call)[r \ {y}] \in Nat
                     /\ Total(v, Call)[r] = v[y] + Total(v, Call)[r \ {y}]
          BY <5>1, SumTakes
        <5> QED
          BY <3>5, <5>2
      <4> QED
        BY <3>5, <4>1
    <3>7. Total(v, Call)[S] <= Total(u, Call)[S]
      BY <1>1, <1>6, <3>3, <3>5, SumMonotone
    <3>8. Total(u, Call)[S] \in Nat
      <4>1. Adds(Total(u, Call), u, SUBSET Call)
        BY <1>1, <3>3, SumExists
      <4> QED
        BY <3>5, <4>1 DEF Adds
    <3>9. Total(v, Call)[R] <= MaxTokens
      <4> DEFINE a == Total(v, Call)[R]
                 b == Total(v, Call)[S]
                 e == Total(u, Call)[S]
      <4>1. /\ a \in Nat /\ b \in Nat /\ e \in Nat /\ v[c] \in Nat /\ a = v[c] + b
            /\ b <= e /\ e + Reserve <= MaxTokens /\ v[c] <= Reserve
            /\ MaxTokens \in Nat /\ Reserve \in Nat
        BY <1>1, <3>2, <3>4, <3>6, <3>7, <3>8
      <4> HIDE DEF a, b, e
      <4>2. a <= MaxTokens
        BY <4>1
      <4> QED
        BY <4>2 DEF a
    <3> QED
      BY <3>1, <3>9 DEF R
  <2>2. CASE SessionOfCall(x) # SessionOfCall(c)
    <3>1. x \in Recorded /\ OfSession(x)' = OfSession(x) /\ c \notin OfSession(x)
      BY <1>4, <1>5, <1>7, <2>2 DEF OfSession
    <3> DEFINE S == OfSession(x)
    <3>2. S \in SUBSET Call /\ \A d \in S : v[d] <= w[d]
      BY <1>4, <1>6, <3>1 DEF OfSession
    <3>3. Total(w, Call)[S] <= MaxTokens
      BY <1>7, <3>1 DEF TokenSums
    <3> HIDE DEF S, v, w
    <3>4. Total(v, Call)[S] <= Total(w, Call)[S]
      BY <1>1, <1>6, <3>2, SumMonotone
    <3>5. Total(v, Call)[S] \in Nat /\ Total(w, Call)[S] \in Nat
      <4>1. Adds(Total(v, Call), v, SUBSET Call) /\ Adds(Total(w, Call), w, SUBSET Call)
        BY <1>1, <1>6, SumExists
      <4> QED
        BY <3>2, <4>1 DEF Adds
    <3>6. Total(v, Call)[S] <= MaxTokens
      BY <1>1, <3>3, <3>4, <3>5
    <3> QED
      BY <3>1, <3>6 DEF S
  <2> QED
    BY <2>1, <2>2
<1> QED
  BY <1>7 DEF TokenSums

LEMMA InitTokens == Init => TokenInv
<1> SUFFICES ASSUME Init PROVE TokenInv
  OBVIOUS
<1>1. KinInv
  BY InitKin
<1>2. Recorded = {}
  BY DEF Init, Recorded
<1>3. Reserved
  BY DEF Init, Reserved
<1> QED
  BY <1>1, <1>2, <1>3 DEF TokenInv, TokenSums

\* A step of a child: a settlement counts for no more than the reservation.
LEMMA ChildTokens ==
  ASSUME IndInv, Reserved, NEW c \in Call, ChildStep(c)
  PROVE  Reserved' /\ Lightens
<1>1. ChildEffect(c) /\ task[c] \in Record /\ task'[c] \in Record
  BY ChildStepEffect DEF IndInv, TypeOK, Record, ChildEffect
<1>2. /\ \/ task'[c].reservation = task[c].reservation /\ task'[c].used = task[c].used
         \/ task[c].reservation = "reserved" /\ child'[c] = "settled"
      /\ child'[c] \in {"scheduled", "starting", "working", "ended"} =>
           child[c] \in {"scheduled", "starting", "working", "ended"}
  <2>1. task \in [Call -> Record] /\ child \in [Call -> ChildPlaces]
    BY DEF IndInv, TypeOK, Record
  <2> USE DEF WithStatus, ChildAt, ChildGoto, goalVars, boundVars
  <2>2. CASE Begin(c)
    BY <1>1, <2>1, <2>2 DEF Begin, Record
  <2>3. CASE Work(c) \/ Vanish(c) \/ Cleanup(c)
    BY <1>1, <2>1, <2>3 DEF Work, Vanish, Cleanup
  <2>4. CASE ReportStopped(c)
    BY <1>1, <2>1, <2>4 DEF ReportStopped
  <2>5. CASE Abandon(c)
    BY <1>1, <2>1, <2>5 DEF Abandon, Record
  <2>6. CASE End(c)
    BY <1>1, <2>1, <2>6 DEF End, Record
  <2>7. CASE Settle(c)
    BY <1>1, <2>1, <2>7 DEF Settle, Record, Reserved
  <2>8. CASE Finish(c)
    BY <1>1, <2>1, <2>8 DEF Finish
  <2> QED
    BY <2>2, <2>3, <2>4, <2>5, <2>6, <2>7, <2>8 DEF ChildStep
<1>3. pc' = pc /\ \A d \in Call \ {c} : task'[d] = task[d] /\ child'[d] = child[d]
  BY <1>1 DEF ChildEffect
<1>4. pc[c] \notin Holding
  BY <1>1 DEF ChildEffect, IndInv, CallWrites
<1>5. Reserved'
  BY <1>2, <1>3, <1>4 DEF Reserved, Holding
<1>6. \A d \in Call \ {c} : Weight'[d] = Weight[d]
  BY <1>3 DEF Weight, Capped, Charge
<1>7. Weight'[c] <= Weight[c]
  <2>1. (TypeOK => /\ Weight \in [Call -> Nat] /\ Charges \in [Call -> Nat]
                   /\ \A d \in Call : Weight[d] <= Reserve /\ Weight[d] <= Charges[d])'
    BY WeightFacts, PTL
  <2>2. /\ Weight[c] \in Nat /\ Weight'[c] \in Nat /\ Weight'[c] <= Reserve
        /\ Reserve \in Nat
    <3>1. TypeOK /\ TypeOK'
      BY ChildKeepsInv DEF IndInv
    <3> QED
      BY <2>1, <3>1, WeightFacts, AdmissionAssumption
  <2>3. CASE task'[c].reservation = task[c].reservation /\ task'[c].used = task[c].used
    <3>1. Weight'[c] = Weight[c]
      BY <2>3 DEF Weight, Capped, Charge
    <3> QED
      BY <2>2, <3>1
  <2>4. CASE task[c].reservation = "reserved"
    <3>1. Weight[c] = Reserve
      BY <2>2, <2>4 DEF Weight, Capped, Charge
    <3> QED
      BY <2>2, <3>1
  <2> QED
    BY <1>2, <2>3, <2>4
<1>8. \A d \in Call \ {c} : Weight'[d] <= Weight[d]
  BY <1>6, WeightFacts DEF IndInv
<1> QED
  BY <1>5, <1>7, <1>8 DEF Lightens, Recorded

\* A step of a call: only Release touches its reservation, which it returns.
LEMMA CallTokens ==
  ASSUME IndInv, IndInv', Reserved, NEW c \in Call,
         \/ Ask(c) \/ Refuse(c) \/ Queue(c) \/ Flushed(c) \/ Register(c)
         \/ RegisterFails(c) \/ ScheduleFails(c) \/ Fail(c) \/ Release(c) \/ Raise(c)
         \/ CancelTurn(c) \/ Schedule(c)
  PROVE  Reserved' /\ Lightens
<1>1. /\ task[c] \in Record /\ task \in [Call -> Record] /\ pc \in [Call -> Places]
      /\ child \in [Call -> ChildPlaces]
  BY DEF IndInv, TypeOK, Record
<1>2. /\ \A d \in Call \ {c} : pc'[d] = pc[d] /\ task'[d] = task[d] /\ child'[d] = child[d]
      /\ \/ task'[c].reservation = task[c].reservation /\ task'[c].used = task[c].used
         \/ /\ task'[c].reservation = "released" /\ child' = child
            /\ pc[c] = "releasing" /\ pc'[c] = "raising"
      /\ pc'[c] \in {"creating", "flushing", "registering", "scheduling"} =>
           pc[c] \in {"creating", "flushing", "registering", "scheduling"}
      /\ child'[c] # child[c] => pc[c] = "scheduling"
  <2> USE DEF At, Goto, goalVars, boundVars
  <2>1. CASE Ask(c)
    BY <1>1, <2>1 DEF Ask
  <2>2. CASE Refuse(c) \/ Flushed(c) \/ RegisterFails(c) \/ ScheduleFails(c)
    BY <1>1, <2>2 DEF Refuse, Flushed, RegisterFails, ScheduleFails
  <2>3. CASE Queue(c) \/ Fail(c)
    BY <1>1, <2>3 DEF Queue, Fail, WithStatus, Record
  <2>4. CASE Register(c) \/ Raise(c)
    BY <1>1, <2>4 DEF Register, Raise
  <2>5. CASE Release(c)
    BY <1>1, <2>5 DEF Release, Record
  <2>6. CASE CancelTurn(c)
    BY <1>1, <2>6 DEF CancelTurn
  <2>7. CASE Schedule(c)
    BY <1>1, <2>7 DEF Schedule
  <2> QED
    BY <2>1, <2>2, <2>3, <2>4, <2>5, <2>6, <2>7
<1>3. pc[c] = "releasing" => child[c] = "none"
  BY DEF IndInv, CallWrites, Holding
<1>4. Reserved'
  <2>1. ASSUME NEW d \in Call \ {c},
               \/ pc'[d] \in {"creating", "flushing", "registering", "scheduling"}
               \/ child'[d] \in {"scheduled", "starting", "working", "ended"}
        PROVE  task'[d].reservation = "reserved"
    BY <1>2, <2>1 DEF Reserved
  <2>2. ASSUME \/ pc'[c] \in {"creating", "flushing", "registering", "scheduling"}
               \/ child'[c] \in {"scheduled", "starting", "working", "ended"}
        PROVE  task'[c].reservation = "reserved"
    BY <1>2, <1>3, <2>2 DEF Reserved
  <2> QED
    BY <2>1, <2>2 DEF Reserved
<1>5. \A d \in Call : Weight'[d] <= Weight[d]
  <2>1. (TypeOK => /\ Weight \in [Call -> Nat] /\ Charges \in [Call -> Nat]
                   /\ \A d \in Call : Weight[d] <= Reserve /\ Weight[d] <= Charges[d])'
    BY WeightFacts, PTL
  <2>2. \A d \in Call : Weight[d] \in Nat /\ Weight'[d] \in Nat
    <3>1. TypeOK /\ TypeOK'
      BY DEF IndInv
    <3> QED
      BY <2>1, <3>1, WeightFacts
  <2>3. \A d \in Call \ {c} : Weight'[d] = Weight[d]
    BY <1>2 DEF Weight, Capped, Charge
  <2>4. CASE task'[c].reservation = task[c].reservation /\ task'[c].used = task[c].used
    <3>1. Weight'[c] = Weight[c]
      BY <2>4 DEF Weight, Capped, Charge
    <3> QED
      BY <2>2, <2>3, <3>1
  <2>5. CASE task'[c].reservation = "released"
    <3>1. Weight'[c] = 0
      BY <2>5, AdmissionAssumption DEF Weight, Capped, Charge
    <3> QED
      BY <2>2, <2>3, <3>1
  <2> QED
    BY <1>2, <2>4, <2>5
<1> QED
  BY <1>4, <1>5 DEF Lightens, Recorded

LEMMA GatewayTokens ==
  ASSUME IndInv, Reserved, Crash \/ Restart \/ UNCHANGED vars
  PROVE  Reserved' /\ Lightens
<1>1. \A d \in Call : /\ task'[d].reservation = task[d].reservation
                      /\ task'[d].used = task[d].used
                      /\ \/ pc'[d] = pc[d] \/ pc'[d] = "crashed"
                      /\ \/ child'[d] = child[d] \/ child'[d] \in {"none", "gone"}
  <2>1. /\ task \in [Call -> Record] /\ pc \in [Call -> Places]
        /\ child \in [Call -> ChildPlaces]
    BY DEF IndInv, TypeOK, Record
  <2>2. CASE Crash
    BY <2>1, <2>2 DEF Crash
  <2>3. CASE Restart
    BY <2>1, <2>3 DEF Restart, Recovered, Record
  <2>4. CASE UNCHANGED vars
    BY <2>4 DEF vars
  <2> QED
    BY <2>2, <2>3, <2>4
<1>2. Reserved'
  BY <1>1 DEF Reserved
<1>3. \A d \in Call : Weight'[d] = Weight[d] /\ Weight[d] \in Nat
  <2>1. \A d \in Call : Weight[d] \in Nat
    BY WeightFacts DEF IndInv
  <2>2. \A d \in Call : Weight'[d] = Weight[d]
    BY <1>1 DEF Weight, Capped, Charge
  <2> QED
    BY <2>1, <2>2
<1> QED
  BY <1>2, <1>3 DEF Lightens, Recorded

LEMMA AdmitReserved ==
  ASSUME IndInv, Reserved, NEW c \in Call, Admit(c)
  PROVE  Reserved'
<1>1. /\ \A d \in Call \ {c} : pc'[d] = pc[d] /\ task'[d] = task[d]
      /\ child' = child /\ task'[c].reservation = "reserved"
  BY DEF IndInv, TypeOK, Admit, Goto
<1> QED
  BY <1>1 DEF Reserved

LEMMA NextKeepsTokens == TokenInv /\ [Next]_vars => TokenInv'
<1> SUFFICES ASSUME TokenInv, [Next]_vars PROVE TokenInv'
  OBVIOUS
<1>1. KinInv /\ IndInv /\ Traces /\ Reserved /\ TokenSums
  BY DEF TokenInv, KinInv
<1>2. KinInv' /\ IndInv'
  BY <1>1, NextKeepsKin DEF KinInv
<1>3. ASSUME NEW c \in Call, Admit(c) PROVE Reserved' /\ TokenSums'
  BY <1>1, <1>2, <1>3, AdmitReserved, AdmitTokens
<1>4. ASSUME RecordsKept, Lightens PROVE TokenSums'
  BY <1>1, <1>2, <1>4, TokensLighten
<1>5. ASSUME NEW c \in Call, ChildStep(c) PROVE Reserved' /\ TokenSums'
  BY <1>1, <1>4, <1>5, ChildTraces, ChildTokens
<1>6. ASSUME NEW c \in Call,
             \/ Ask(c) \/ Refuse(c) \/ Queue(c) \/ Flushed(c) \/ Register(c)
             \/ RegisterFails(c) \/ ScheduleFails(c) \/ Fail(c) \/ Release(c) \/ Raise(c)
             \/ CancelTurn(c) \/ Schedule(c)
      PROVE  Reserved' /\ TokenSums'
  <2>1. RecordsKept
    BY <1>1, <1>6, OutsideTraces, HoldingTraces, RegisterTraces, OverTraces
  <2> QED
    BY <1>1, <1>2, <1>4, <1>6, <2>1, CallTokens
<1>7. ASSUME Crash \/ Restart \/ UNCHANGED vars PROVE Reserved' /\ TokenSums'
  <2>1. RecordsKept
    <3>1. CASE UNCHANGED vars
      BY <3>1 DEF vars, RecordsKept
    <3> QED
      BY <1>1, <1>7, <3>1, CrashTraces, RestartTraces
  <2> QED
    BY <1>1, <1>4, <1>7, <2>1, GatewayTokens
<1>8. Reserved' /\ TokenSums'
  BY <1>3, <1>5, <1>6, <1>7 DEF Next, CallStep, ChildStep
<1> QED
  BY <1>2, <1>8 DEF TokenInv

THEOREM AdmissionInv == Spec => []IndInv
<1>1. Init => IndInv
  BY InitInd
<1>2. IndInv /\ [Next]_vars => IndInv'
  BY NextKeepsInv
<1> QED
  BY <1>1, <1>2, PTL DEF Spec

\* Every variable stays in its domain.
THEOREM AdmissionTypeCorrect == Spec => []TypeOK
  BY AdmissionInv, PTL DEF IndInv

\* spawn's checks and its entry in the table of running tasks exclude each other's
\* interleavings, with any number of calls, cancellations and crashes.
THEOREM AdmissionsExclude == Spec => []LockIsHeld
  BY AdmissionInv, PTL DEF IndInv

\* The limit on concurrent children holds for every value of the limits.
THEOREM ConcurrencyBounded == Spec => []ConcurrencyCap
  BY AdmissionInv, PTL DEF IndInv

THEOREM KinInvariant == Spec => []KinInv
<1>1. Init => KinInv
  BY InitKin
<1>2. KinInv /\ [Next]_vars => KinInv'
  BY NextKeepsKin
<1> QED
  BY <1>1, <1>2, PTL DEF Spec

\* The limits on the durable children of a run and of a session hold for every value,
\* whatever is refused, undone, cancelled or left by a crash between two calls.
THEOREM ChildrenBounded == Spec => []ChildCaps
  BY KinInvariant, PTL DEF KinInv

\* No two children of one owner are at work on the same specification, for any number of
\* replacements, of which each may fail between its admission and its registration.
THEOREM OneAtWork == Spec => []NoTwins
  BY KinInvariant, HeirsAreNoTwins, PTL

THEOREM TokenInvariant == Spec => []TokenInv
<1>1. Init => TokenInv
  BY InitTokens
<1>2. TokenInv /\ [Next]_vars => TokenInv'
  BY NextKeepsTokens
<1> QED
  BY <1>1, <1>2, PTL DEF Spec

\* What a session's children hold or have used stays below its token budget, for every
\* budget and reservation, in whatever order the children settle.
THEOREM TokensBounded == Spec => []TokenCap
<1>1. TokenInv => TokenCap
  BY CapIsSums DEF TokenInv, KinInv, IndInv
<1> QED
  BY <1>1, TokenInvariant, PTL

\* A required child only ever runs with its obligation in the goal.
THEOREM RequiredRegistered == Spec => []RequiredIsRegistered
  BY AdmissionInv, PTL DEF IndInv

\* A call that raises has undone what it did.
THEOREM RaisedUndone == Spec => []RaisedLeavesNothing
  BY AdmissionInv, PTL DEF IndInv
=============================================================================

---------------------- MODULE GoalOrchestrationProofs ----------------------
(***************************************************************************)
(* The obligations of a goal, for any number of tasks, runs and goals:     *)
(* chains of replacements are chains of attempts, of any length, and the   *)
(* gate and the guard stand for their ends; a stopped obligation has a     *)
(* confirmed exit, and the end of an obligation is final.                  *)
(***************************************************************************)
EXTENDS GoalOrchestration, FiniteSetTheorems, TLAPS

\* What the chain argument needs besides types: only ids given out have a
\* record, and a registration about to be removed has not been replaced.
Bookkeeping ==
  /\ Registered \subseteq used
  /\ \A t \in Tasks : tasks[t].status = "unregistered" => tasks[t].by = NoTask
  /\ starting \in Tasks =>
       /\ starting \in used
       /\ tasks[starting].by = NoTask
       /\ tasks[starting].status \in {"unregistered", "running", "lost"}

IndInv == TypeOK /\ Bookkeeping /\ ChainsAreAttempts /\ StoppedIsConfirmed

\* An entry that does not exist, or one marked lost, is a record.
LEMMA RecordFacts ==
  /\ NoRecord \in Record
  /\ NoRecord.status = "unregistered" /\ NoRecord.by = NoTask
  /\ \A rec \in Record : Lost(rec) \in Record
<1>1. NoRecord.status = "unregistered" /\ NoRecord.by = NoTask
  BY DEF NoRecord
<1>2. NoRecord \in Record
  BY GoalAssumption DEF NoRecord, Record, Terminations
<1>3. ASSUME NEW rec \in Record PROVE Lost(rec) \in Record
  BY DEF Record, Lost, Terminations, TerminalStatuses
<1> QED
  BY <1>1, <1>2, <1>3

LEMMA InitInd == Init => IndInv
<1> SUFFICES ASSUME Init PROVE IndInv
  OBVIOUS
<1>1. \A t \in Tasks : tasks[t] = NoRecord
  BY DEF Init
<1>2. TypeOK
  BY RecordFacts DEF Init, TypeOK
<1>3. \A t \in Tasks : tasks[t].by = NoTask /\ tasks[t].status = "unregistered"
  BY <1>1, RecordFacts
<1>4. Bookkeeping
  BY <1>3, GoalAssumption DEF Init, Bookkeeping, Registered
<1>5. ChainsAreAttempts
  BY <1>3 DEF ChainsAreAttempts
<1>6. StoppedIsConfirmed
  BY <1>3 DEF StoppedIsConfirmed
<1> QED
  BY <1>2, <1>4, <1>5, <1>6 DEF IndInv

\* A step that changes only status and termination of running records keeps
\* the chains, whatever it writes.
LEMMA EndingStep ==
  ASSUME IndInv,
         tasks' \in [Tasks -> Record],
         \A t \in Tasks :
           tasks'[t] # tasks[t] =>
             /\ tasks[t].status = "running"
             /\ tasks'[t].status \in {"running"} \cup TerminalStatuses
             /\ tasks'[t].by = tasks[t].by
             /\ tasks'[t].attempt = tasks[t].attempt
             /\ t = starting => tasks'[t].status = "lost"
             /\ tasks'[t].status \in {"cancelled", "timed_out"} =>
                  tasks'[t].termination \in
                    {"none", "cooperatively_exited", "force_killed"},
         goal' \in {"active", "completed", "ended"}, goals' = goals,
         used' = used, live' \subseteq Tasks, up' \in BOOLEAN,
         starting' = starting \/ starting' = NoTask
  PROVE  IndInv'
<1>1. TypeOK'
  BY GoalAssumption DEF IndInv, TypeOK
<1>2. Bookkeeping'
  BY GoalAssumption DEF IndInv, TypeOK, Bookkeeping, Registered, Record, TerminalStatuses
<1>3. ChainsAreAttempts'
  <2> SUFFICES ASSUME NEW t \in Tasks, tasks'[t].by # NoTask
               PROVE  /\ tasks'[t].status \in TerminalStatuses \ {"succeeded"}
                      /\ tasks'[t].by \in Registered'
                      /\ tasks'[tasks'[t].by].attempt = tasks'[t].attempt + 1
                      /\ \A o \in Tasks : tasks'[o].by = tasks'[t].by => o = t
    BY DEF ChainsAreAttempts
  <2>1. \A u \in Tasks : tasks'[u].by = tasks[u].by /\ tasks'[u].attempt = tasks[u].attempt
    OBVIOUS
  <2>2. tasks[t].status \in TerminalStatuses \ {"succeeded"}
    BY <2>1 DEF IndInv, ChainsAreAttempts
  <2>3. tasks'[t] = tasks[t]
    BY <2>2 DEF TerminalStatuses
  <2>4. tasks[t].by \in Registered /\ tasks[t].by \in Tasks
    BY <2>1 DEF IndInv, ChainsAreAttempts, Registered
  <2>5. tasks[t].by \in Registered'
    BY <2>4 DEF Registered, TerminalStatuses
  <2> QED
    BY <2>1, <2>2, <2>3, <2>4, <2>5 DEF IndInv, ChainsAreAttempts
<1>4. StoppedIsConfirmed'
  BY DEF IndInv, StoppedIsConfirmed
<1> QED
  BY <1>1, <1>2, <1>3, <1>4 DEF IndInv

LEMMA MarkTerminationStep ==
  ASSUME IndInv, NEW t \in Tasks, NEW x \in Reports, MarkTermination(t, x)
  PROVE  IndInv'
<1>1. /\ t \in Tasks /\ tasks[t] \in Record /\ tasks[t].status = "running" /\ t # starting
      /\ x \in Terminations
      /\ tasks \in [Tasks -> Record]
  BY GoalAssumption DEF MarkTermination, Running, IndInv, TypeOK
<1>2. CASE x = "termination_failed"
  <2>1. tasks' = [tasks EXCEPT ![t] = Lost(tasks[t])]
    BY <1>2 DEF MarkTermination
  <2>2. Lost(tasks[t]) \in Record
    BY <1>1, RecordFacts
  <2>3. Lost(tasks[t]).status = "lost" /\ Lost(tasks[t]).by = tasks[t].by
        /\ Lost(tasks[t]).attempt = tasks[t].attempt
    BY <1>1 DEF Lost, Record
  <2> QED
    BY EndingStep, <1>1, <2>1, <2>2, <2>3 DEF MarkTermination, IndInv, TypeOK, TerminalStatuses
<1>3. CASE x # "termination_failed"
  <2>1. tasks' = [tasks EXCEPT ![t] = [tasks[t] EXCEPT !.termination = x]]
    BY <1>3 DEF MarkTermination
  <2> QED
    BY EndingStep, <1>1, <2>1 DEF MarkTermination, IndInv, TypeOK, TerminalStatuses, Record
<1> QED
  BY <1>2, <1>3

LEMMA FinishStep ==
  ASSUME IndInv, NEW t \in Tasks, NEW s \in Outcomes, Finish(t, s)
  PROVE  IndInv'
<1>1. /\ tasks[t] \in Record /\ tasks[t].status = "running" /\ t # starting
      /\ s \in TerminalStatuses
      /\ tasks \in [Tasks -> Record]
  BY GoalAssumption DEF Finish, Running, IndInv, TypeOK
<1> DEFINE unproved == /\ s \in {"cancelled", "timed_out"}
                       /\ tasks[t].termination \notin
                            {"none", "cooperatively_exited", "force_killed"}
<1>2. CASE unproved
  <2>1. tasks' = [tasks EXCEPT ![t] = Lost(tasks[t])]
    BY <1>2 DEF Finish
  <2>2. Lost(tasks[t]) \in Record
    BY <1>1, RecordFacts
  <2>3. Lost(tasks[t]).status = "lost" /\ Lost(tasks[t]).by = tasks[t].by
        /\ Lost(tasks[t]).attempt = tasks[t].attempt
    BY <1>1 DEF Lost, Record
  <2> QED
    BY EndingStep, <1>1, <2>1, <2>2, <2>3 DEF Finish, IndInv, TypeOK, TerminalStatuses
<1>3. CASE ~unproved
  <2>1. tasks' = [tasks EXCEPT ![t] = [tasks[t] EXCEPT !.status = s]]
    BY <1>3 DEF Finish
  <2> QED
    BY EndingStep, <1>1, <1>3, <2>1 DEF Finish, IndInv, TypeOK, TerminalStatuses, Record
<1> QED
  BY <1>2, <1>3

\* Marking the running records without an executor is an ending step; at a
\* crash no registration is under way any more.
LEMMA MarkedLostStep ==
  ASSUME IndInv, NEW executors, tasks' = MarkedLost(executors),
         goal' = goal, goals' = goals, used' = used, live' = live,
         up' \in BOOLEAN, starting' = starting
  PROVE  IndInv'
<1>1. tasks \in [Tasks -> Record]
  BY DEF IndInv, TypeOK
<1>2. \A t \in Tasks :
        /\ Lost(tasks[t]) \in Record
        /\ Lost(tasks[t]).status = "lost"
        /\ Lost(tasks[t]).by = tasks[t].by
        /\ Lost(tasks[t]).attempt = tasks[t].attempt
  BY <1>1, RecordFacts DEF Lost, Record
<1>3. tasks' \in [Tasks -> Record]
  BY <1>1, <1>2 DEF MarkedLost
<1>4. \A t \in Tasks :
        \/ tasks'[t] = tasks[t]
        \/ tasks'[t] = Lost(tasks[t]) /\ tasks[t].status = "running"
  BY DEF MarkedLost, Running
<1> QED
  BY EndingStep, <1>2, <1>3, <1>4 DEF IndInv, TypeOK, TerminalStatuses

LEMMA RecoverStep == ASSUME IndInv, Recover PROVE IndInv'
<1>1. CASE goal = "active"
  BY <1>1, MarkedLostStep DEF Recover
<1>2. CASE goal # "active"
  BY <1>2, EndingStep DEF Recover, IndInv, TypeOK
<1> QED
  BY <1>1, <1>2

\* Steps that leave the obligations alone.
LEMMA QuietStep ==
  ASSUME IndInv,
         \/ \E t \in Tasks : ChildGone(t)
         \/ CompleteGoal \/ EndGoal \/ Crash
         \/ UNCHANGED vars
  PROVE  IndInv'
<1>1. CASE \E t \in Tasks : ChildGone(t)
  BY <1>1, EndingStep DEF ChildGone, IndInv, TypeOK
<1>2. CASE CompleteGoal
  BY <1>2, EndingStep DEF CompleteGoal, Active, IndInv, TypeOK
<1>3. CASE EndGoal
  BY <1>3, EndingStep DEF EndGoal, Active, IndInv, TypeOK
<1>4. CASE Crash
  BY <1>4, EndingStep DEF Crash, IndInv, TypeOK
<1>5. CASE UNCHANGED vars
  BY <1>5, EndingStep DEF vars, IndInv, TypeOK
<1> QED
  BY <1>1, <1>2, <1>3, <1>4, <1>5

\* A new goal starts without obligations, whatever becomes of the children.
LEMMA NewGoalStep == ASSUME IndInv, NewGoal PROVE IndInv'
<1>1. \A t \in Tasks : tasks'[t] = NoRecord
  BY DEF NewGoal
<1>2. tasks' \in [Tasks -> Record]
  BY RecordFacts DEF NewGoal
<1>3. \A t \in Tasks : tasks'[t].by = NoTask /\ tasks'[t].status = "unregistered"
  BY <1>1, RecordFacts
<1>4. TypeOK'
  BY <1>2 DEF NewGoal, IndInv, TypeOK
<1>5. Bookkeeping'
  BY <1>3 DEF NewGoal, IndInv, Bookkeeping, Registered
<1>6. ChainsAreAttempts' /\ StoppedIsConfirmed'
  BY <1>3 DEF ChainsAreAttempts, StoppedIsConfirmed
<1> QED
  BY <1>4, <1>5, <1>6 DEF IndInv

\* A new registration is a fresh end of at most one chain.
LEMMA RegisterStep ==
  ASSUME IndInv, NEW t \in Tasks, NEW r \in Registered \cup {NoTask}, NEW o \in Runs,
         NEW scheduled \in BOOLEAN, Register(t, r, o, scheduled)
  PROVE  IndInv'
<1> DEFINE new == [NoRecord EXCEPT !.status = "running", !.attempt = Attempt(r), !.owner = o]
<1>1. tasks \in [Tasks -> Record] /\ Registered \subseteq Tasks /\ NoTask \notin Tasks
  BY GoalAssumption DEF IndInv, TypeOK, Registered
<1>2. tasks[t].status = "unregistered" /\ tasks[t].by = NoTask /\ t \notin Registered /\ t # r
  BY <1>1 DEF Register, IndInv, Bookkeeping, Registered
<1>3. r # NoTask => /\ r \in Tasks /\ r \in Registered
                    /\ tasks[r].status \in TerminalStatuses \ {"succeeded"}
                    /\ tasks[r].by = NoTask
  BY <1>1 DEF Register, Replaceable
<1>4. Attempt(r) \in Nat /\ (r # NoTask => Attempt(r) = tasks[r].attempt + 1)
  BY <1>1, <1>3 DEF Attempt, Record
<1>5. /\ new \in Record
      /\ new.status = "running" /\ new.by = NoTask
      /\ new.attempt = Attempt(r)
  <2>1. /\ NoRecord.by = NoTask
        /\ NoRecord \in [status : {"unregistered", "running"} \cup TerminalStatuses,
                         termination : Terminations, by : Tasks \cup {NoTask},
                         attempt : Nat, owner : Runs]
    BY RecordFacts DEF Record
  <2> QED
    BY <2>1, <1>4 DEF Record
<1> HIDE DEF new
<1>6. tasks' = [u \in Tasks |->
                  IF u = t THEN new
                  ELSE IF u = r THEN [tasks[u] EXCEPT !.by = t] ELSE tasks[u]]
  BY DEF Register, Entered, new
<1>7. r # NoTask => /\ tasks'[r] \in Record
                    /\ tasks'[r].by = t
                    /\ tasks'[r].status = tasks[r].status
                    /\ tasks'[r].attempt = tasks[r].attempt
                    /\ tasks'[r].termination = tasks[r].termination
  BY <1>1, <1>2, <1>3, <1>6 DEF Record
<1>8. tasks'[t] = new
  BY <1>6
<1>9. \A u \in Tasks : u # t /\ u # r => tasks'[u] = tasks[u]
  BY <1>6
<1>10. tasks' \in [Tasks -> Record]
  <2>1. \A u \in Tasks : tasks'[u] \in Record
    BY <1>1, <1>5, <1>7, <1>8, <1>9
  <2> QED
    BY <2>1, <1>6
<1>11. TypeOK'
  BY <1>10 DEF Register, IndInv, TypeOK
<1>12. Registered' = Registered \cup {t}
  <2>1. \A u \in Tasks : u # t =>
          (tasks'[u].status = "unregistered" <=> tasks[u].status = "unregistered")
    BY <1>1, <1>3, <1>7, <1>9
  <2> QED
    BY <2>1, <1>5, <1>8 DEF Registered
<1>13. Bookkeeping'
  <2>1. Registered' \subseteq used'
    BY <1>12 DEF Register, IndInv, Bookkeeping
  <2>2. \A u \in Tasks : tasks'[u].status = "unregistered" => tasks'[u].by = NoTask
    BY <1>1, <1>3, <1>5, <1>7, <1>8, <1>9 DEF IndInv, Bookkeeping, TerminalStatuses
  <2>3. starting' \in Tasks => starting' = t
    BY <1>1 DEF Register
  <2> QED
    BY <2>1, <2>2, <2>3, <1>5, <1>8 DEF Register, Bookkeeping
<1>14. ChainsAreAttempts'
  <2> SUFFICES ASSUME NEW u \in Tasks, tasks'[u].by # NoTask
               PROVE  /\ tasks'[u].status \in TerminalStatuses \ {"succeeded"}
                      /\ tasks'[u].by \in Registered'
                      /\ tasks'[tasks'[u].by].attempt = tasks'[u].attempt + 1
                      /\ \A v \in Tasks : tasks'[v].by = tasks'[u].by => v = u
    BY DEF ChainsAreAttempts
  <2>1. u # t
    BY <1>5, <1>8
  <2>2. \A v \in Tasks : tasks[v].by # t
    BY <1>1, <1>2 DEF IndInv, ChainsAreAttempts
  <2>3. CASE u = r
    <3>1. \A v \in Tasks : tasks'[v].by = t => v = r
      BY <1>1, <1>5, <1>8, <1>9, <2>2
    <3> QED
      BY <2>3, <3>1, <1>1, <1>3, <1>4, <1>5, <1>7, <1>8, <1>12
  <2>4. CASE u # r
    <3>1. tasks'[u] = tasks[u]
      BY <2>1, <2>4, <1>9
    <3>2. /\ tasks[u].status \in TerminalStatuses \ {"succeeded"}
          /\ tasks[u].by \in Registered
          /\ tasks[tasks[u].by].attempt = tasks[u].attempt + 1
          /\ \A v \in Tasks : tasks[v].by = tasks[u].by => v = u
      BY <3>1 DEF IndInv, ChainsAreAttempts
    <3>3. tasks[u].by # t /\ tasks[u].by \in Tasks
      BY <2>2, <3>2, <1>1
    <3>4. tasks'[tasks[u].by].attempt = tasks[tasks[u].by].attempt
      BY <3>3, <1>3, <1>7, <1>9, <1>1
    <3>5. \A v \in Tasks : tasks'[v].by = tasks[u].by => v = u
      BY <3>1, <3>2, <3>3, <1>1, <1>5, <1>7, <1>8, <1>9
    <3> QED
      BY <3>1, <3>2, <3>4, <3>5, <1>12
  <2> QED
    BY <2>3, <2>4
<1>15. StoppedIsConfirmed'
  <2>1. \A u \in Tasks :
          \/ tasks'[u].status = "running"
          \/ /\ tasks'[u].status = tasks[u].status
             /\ tasks'[u].termination = tasks[u].termination
    BY <1>1, <1>5, <1>7, <1>8, <1>9, <1>3
  <2> QED
    BY <2>1 DEF IndInv, StoppedIsConfirmed
<1> QED
  BY <1>11, <1>13, <1>14, <1>15 DEF IndInv

\* Taking back a registration takes back the resolution it was entered with.
LEMMA RemoveRegistrationStep == ASSUME IndInv, RemoveRegistration PROVE IndInv'
<1>1. tasks \in [Tasks -> Record] /\ NoTask \notin Tasks /\ starting \in Tasks
      /\ Registered \subseteq Tasks
  BY GoalAssumption DEF IndInv, TypeOK, Registered, RemoveRegistration
<1>2. CASE goal # "active"
  BY <1>2, <1>1, EndingStep DEF RemoveRegistration, IndInv, TypeOK
<1>3. CASE goal = "active"
  <2>1. tasks' = [u \in Tasks |->
                    IF u = starting THEN NoRecord
                    ELSE IF tasks[u].by = starting
                           THEN [tasks[u] EXCEPT !.by = NoTask] ELSE tasks[u]]
    BY <1>3 DEF RemoveRegistration
  <2>2. tasks'[starting] = NoRecord
    BY <2>1, <1>1
  <2>3. \A u \in Tasks : u # starting =>
          /\ tasks'[u] \in Record
          /\ tasks'[u].status = tasks[u].status
          /\ tasks'[u].termination = tasks[u].termination
          /\ tasks'[u].attempt = tasks[u].attempt
          /\ tasks'[u].by = IF tasks[u].by = starting THEN NoTask ELSE tasks[u].by
    BY <2>1, <1>1 DEF Record
  <2>4. tasks' \in [Tasks -> Record]
    <3>1. \A u \in Tasks : tasks'[u] \in Record
      BY <2>2, <2>3, RecordFacts
    <3> QED
      BY <3>1, <2>1
  <2>5. TypeOK'
    BY <2>4, <1>1 DEF RemoveRegistration, IndInv, TypeOK
  <2>6. Registered' = Registered \ {starting}
    BY <2>2, <2>3, RecordFacts DEF Registered
  <2>7. Bookkeeping'
    <3>1. Registered' \subseteq used'
      BY <2>6 DEF RemoveRegistration, IndInv, Bookkeeping
    <3>2. \A u \in Tasks : tasks'[u].status = "unregistered" => tasks'[u].by = NoTask
      BY <2>2, <2>3, RecordFacts DEF IndInv, Bookkeeping
    <3> QED
      BY <3>1, <3>2, <1>1 DEF RemoveRegistration, Bookkeeping
  <2>8. ChainsAreAttempts'
    <3> SUFFICES ASSUME NEW u \in Tasks, tasks'[u].by # NoTask
                 PROVE  /\ tasks'[u].status \in TerminalStatuses \ {"succeeded"}
                        /\ tasks'[u].by \in Registered'
                        /\ tasks'[tasks'[u].by].attempt = tasks'[u].attempt + 1
                        /\ \A v \in Tasks : tasks'[v].by = tasks'[u].by => v = u
      BY DEF ChainsAreAttempts
    <3>1. u # starting /\ tasks'[u].by = tasks[u].by /\ tasks[u].by # starting
      BY <2>2, <2>3, RecordFacts
    <3>2. /\ tasks[u].status \in TerminalStatuses \ {"succeeded"}
          /\ tasks[u].by \in Registered
          /\ tasks[tasks[u].by].attempt = tasks[u].attempt + 1
          /\ \A v \in Tasks : tasks[v].by = tasks[u].by => v = u
      BY <3>1 DEF IndInv, ChainsAreAttempts
    <3>3. tasks'[tasks[u].by].attempt = tasks[tasks[u].by].attempt
      BY <3>1, <3>2, <2>3, <1>1
    <3>4. \A v \in Tasks : tasks'[v].by = tasks[u].by => v = u
      BY <3>1, <3>2, <2>2, <2>3, RecordFacts
    <3> QED
      BY <3>1, <3>2, <3>3, <3>4, <2>3, <2>6
  <2>9. StoppedIsConfirmed'
    BY <2>2, <2>3, RecordFacts DEF IndInv, StoppedIsConfirmed
  <2> QED
    BY <2>5, <2>7, <2>8, <2>9 DEF IndInv
<1> QED
  BY <1>2, <1>3

LEMMA NextInd == IndInv /\ [Next]_vars => IndInv'
<1> SUFFICES ASSUME IndInv, [Next]_vars PROVE IndInv'
  OBVIOUS
<1>1. ASSUME NEW t \in Tasks, NEW r \in Registered \cup {NoTask}, NEW o \in Runs,
             NEW scheduled \in BOOLEAN, Register(t, r, o, scheduled)
      PROVE  IndInv'
  BY <1>1, RegisterStep
<1>2. ASSUME NEW t \in Tasks, NEW x \in Reports, MarkTermination(t, x) PROVE IndInv'
  BY <1>2, MarkTerminationStep
<1>3. ASSUME NEW t \in Tasks, NEW s \in Outcomes, Finish(t, s) PROVE IndInv'
  BY <1>3, FinishStep
<1>4. CASE \/ \E t \in Tasks : ChildGone(t)
           \/ CompleteGoal \/ EndGoal \/ Crash \/ UNCHANGED vars
  BY <1>4, QuietStep
<1>5. CASE RemoveRegistration
  BY <1>5, RemoveRegistrationStep
<1>6. CASE SelectLost
  BY <1>6, MarkedLostStep DEF SelectLost, Active, IndInv, TypeOK
<1>7. CASE NewGoal
  BY <1>7, NewGoalStep
<1>8. CASE Recover
  BY <1>8, RecoverStep
<1> QED
  BY <1>1, <1>2, <1>3, <1>4, <1>5, <1>6, <1>7, <1>8 DEF Next

LEMMA Inductive == Spec => []IndInv
BY InitInd, NextInd, PTL DEF Spec

\* The types of the obligations and of what surrounds them
\* (goal_orchestration.py, the dictionary kept in the goal's metadata).
THEOREM GoalTypeCorrect == Spec => []TypeOK
<1>1. IndInv => TypeOK
  BY DEF IndInv
<1> QED
  BY Inductive, <1>1, PTL

\* However replacements, failed registrations, late reports, crashes and new
\* goals follow each other, a replacement (_validate_replacement, register,
\* remove_registration) belongs to one ended task and is its next attempt.
THEOREM ChainsSound == Spec => []ChainsAreAttempts
<1>1. IndInv => ChainsAreAttempts
  BY DEF IndInv
<1> QED
  BY Inductive, <1>1, PTL

\* No report makes an obligation "cancelled" or "timed_out" while the exit of
\* the child is unconfirmed (finish, mark_termination).
THEOREM StoppedConfirmed == Spec => []StoppedIsConfirmed
<1>1. IndInv => StoppedIsConfirmed
  BY DEF IndInv
<1> QED
  BY Inductive, <1>1, PTL

\* While the goal lasts, an obligation that ended keeps its end: finish and
\* mark_termination return early, select and recover_runtime pass it over.
THEOREM ObligationFinal == Spec => ObligationEndsOnce
<1> DEFINE kept(t) == /\ tasks'[t].status = tasks[t].status
                      /\ tasks'[t].termination = tasks[t].termination
           final == \A t \in Tasks :
                      (tasks[t].status \in TerminalStatuses /\ goals' = goals
                         /\ t # starting) => kept(t)
<1>1. IndInv /\ [Next]_vars => [final]_vars
  <2> SUFFICES ASSUME IndInv, Next, NEW u \in Tasks,
                      tasks[u].status \in TerminalStatuses, goals' = goals, u # starting
               PROVE  kept(u)
    OBVIOUS
  <2>0. tasks \in [Tasks -> Record] /\ tasks[u].status # "running"
        /\ tasks[u].status # "unregistered" /\ goals \in Nat
    BY DEF TerminalStatuses, IndInv, TypeOK
  <2>1. ASSUME NEW t \in Tasks, NEW r \in Registered \cup {NoTask}, NEW o \in Runs,
               NEW scheduled \in BOOLEAN, Register(t, r, o, scheduled)
        PROVE  kept(u)
    <3>1. u # t
      BY <2>0, <2>1 DEF Register, IndInv, Bookkeeping, Registered
    <3> QED
      BY <3>1, <2>0, <2>1 DEF Register, Entered, Record
  <2>2. ASSUME NEW t \in Tasks, NEW x \in Reports, MarkTermination(t, x) PROVE kept(u)
    BY <2>2, <2>0 DEF MarkTermination, Running
  <2>3. ASSUME NEW t \in Tasks, NEW s \in Outcomes, Finish(t, s) PROVE kept(u)
    BY <2>3, <2>0 DEF Finish, Running
  <2>4. CASE RemoveRegistration
    BY <2>4, <2>0 DEF RemoveRegistration, Record
  <2>5. CASE SelectLost \/ Recover
    BY <2>5, <2>0 DEF SelectLost, Recover, MarkedLost, Running
  <2>6. CASE NewGoal
    BY <2>6, <2>0 DEF NewGoal
  <2>7. CASE (\E t \in Tasks : ChildGone(t)) \/ CompleteGoal \/ EndGoal \/ Crash
    BY <2>7 DEF ChildGone, CompleteGoal, EndGoal, Crash
  <2> QED
    BY <2>1, <2>2, <2>3, <2>4, <2>5, <2>6, <2>7 DEF Next
<1> QED
  BY Inductive, <1>1, PTL DEF Spec, ObligationEndsOnce
-----------------------------------------------------------------------------
(* Induction over the naturals, with the set of the numbers an assertion    *)
(* holds for in the place of the assertion, and iterated functions.         *)

LEMMA LeastNumber ==
  ASSUME NEW T, T \subseteq Nat, T # {}
  PROVE  \E m \in T : \A k \in T : m <= k
<1>1. PICK m \in T : \A k \in T : <<k, m>> \notin OpToRel(<, Nat)
  BY WFMin, NatLessThanWellFounded
<1>2. \A k \in T : ~(k < m)
  BY <1>1 DEF OpToRel
<1> QED
  BY <1>2

LEMMA SetInduction ==
  ASSUME NEW T, 0 \in T, \A n \in Nat : n \in T => n + 1 \in T
  PROVE  Nat \subseteq T
<1> DEFINE C == Nat \ T
<1> SUFFICES ASSUME C # {} PROVE FALSE
  OBVIOUS
<1>1. \E m \in C : \A k \in C : m <= k
  <2>1. C \subseteq Nat
    OBVIOUS
  <2> HIDE DEF C
  <2> QED
    BY <2>1, LeastNumber
<1>2. PICK m \in C : \A k \in C : m <= k
  BY <1>1
<1>3. m - 1 \in Nat /\ m = (m - 1) + 1 /\ m - 1 \in T
  BY <1>2
<1> QED
  BY <1>3

LEMMA Iteration ==
  ASSUME NEW S, NEW s \in S, NEW g \in [S -> S]
  PROVE  \E f \in [Nat -> S] : f[0] = s /\ \A n \in Nat : f[n + 1] = g[f[n]]
<1> DEFINE Path(n, h) == /\ h \in [0..n -> S] /\ h[0] = s
                         /\ \A i \in 0..(n - 1) : h[i + 1] = g[h[i]]
<1>1. \A n \in Nat : \E h : Path(n, h)
  <2> DEFINE T == {n \in Nat : \E h : Path(n, h)}
  <2>1. 0 \in T
    <3>1. Path(0, [i \in 0..0 |-> s])
      OBVIOUS
    <3> QED
      BY <3>1
  <2>2. ASSUME NEW n \in Nat, n \in T PROVE n + 1 \in T
    <3>1. PICK h : Path(n, h)
      BY <2>2
    <3> DEFINE k == [i \in 0..(n + 1) |-> IF i <= n THEN h[i] ELSE g[h[n]]]
    <3>2. k \in [0..(n + 1) -> S] /\ k[0] = s
      BY <3>1
    <3>3. ASSUME NEW i \in 0..((n + 1) - 1) PROVE k[i + 1] = g[k[i]]
      <4>1. CASE i = n
        BY <4>1
      <4>2. CASE i # n
        BY <3>1, <4>2
      <4> QED
        BY <4>1, <4>2
    <3>4. Path(n + 1, k)
      BY <3>2, <3>3
    <3> QED
      BY <3>4
  <2> HIDE DEF T
  <2>3. Nat \subseteq T
    BY <2>1, <2>2, SetInduction
  <2> QED
    BY <2>3 DEF T
<1>2. ASSUME NEW n \in Nat, NEW h, NEW k, Path(n, h), Path(n + 1, k)
      PROVE  k[n] = h[n]
  <2> DEFINE T == {i \in Nat : i <= n => k[i] = h[i]}
  <2>1. 0 \in T
    BY <1>2
  <2>2. ASSUME NEW i \in Nat, i \in T PROVE i + 1 \in T
    <3> SUFFICES ASSUME i + 1 <= n PROVE k[i + 1] = h[i + 1]
      OBVIOUS
    <3> QED
      BY <1>2, <2>2
  <2> HIDE DEF T
  <2>3. Nat \subseteq T
    BY <2>1, <2>2, SetInduction
  <2> QED
    BY <2>3 DEF T
<1> DEFINE p == [n \in Nat |-> CHOOSE h : Path(n, h)]
           f == [n \in Nat |-> p[n][n]]
<1>3. \A n \in Nat : Path(n, p[n])
  <2> HIDE DEF Path
  <2> QED
    BY <1>1
<1> HIDE DEF p
<1>4. f \in [Nat -> S] /\ f[0] = s
  BY <1>3
<1>5. ASSUME NEW n \in Nat PROVE f[n + 1] = g[f[n]]
  <2>1. p[n + 1][n + 1] = g[p[n + 1][n]]
    BY <1>3
  <2>2. p[n + 1][n] = p[n][n]
    <3>1. Path(n, p[n]) /\ Path(n + 1, p[n + 1])
      BY <1>3
    <3> HIDE DEF Path
    <3> QED
      BY <1>2, <3>1
  <2> QED
    BY <2>1, <2>2
<1> QED
  BY <1>4, <1>5

-----------------------------------------------------------------------------
(* Chains end: what the loops of obligation_status and select_owner find.   *)

Leaf(t) == tasks[t].by = NoTask

\* The recursive functions inside Answering, OwnerRecords and GuardAllows.
After(t) == CHOOSE f : f = [n \in Nat |-> IF n = 0 THEN t ELSE Step(f[n - 1])]
Found(r) ==
  CHOOSE f : f = [n \in Nat |->
    IF n = 0 THEN Owned(r)
    ELSE f[n - 1] \cup {tasks[t].by : t \in f[n - 1] \cap Registered}]
Inside(r, t) ==
  CHOOSE f : f = [n \in Nat |->
    IF n = 0 THEN t
    ELSE IF f[n - 1] \in OwnerRecords(r) THEN Step(f[n - 1]) ELSE f[n - 1]]

LEMMA LoopsUnfolded ==
  /\ \A t : Answering(t) = After(t)[Cardinality(Tasks)]
  /\ \A r : OwnerRecords(r) = Found(r)[Cardinality(Tasks)] \cap Registered
  /\ \A r : GuardAllows(r) <=>
       \A t \in Owned(r) :
         LET last == Inside(r, t)[Cardinality(Tasks)]
         IN  last \in OwnerRecords(r) /\ tasks[last].status = "succeeded"
<1>1. \A t : Answering(t) = After(t)[Cardinality(Tasks)]
  BY DEF Answering, After
<1>2. \A r : OwnerRecords(r) = Found(r)[Cardinality(Tasks)] \cap Registered
  BY DEF OwnerRecords, Found
<1>3. \A r : GuardAllows(r) <=>
        \A t \in Owned(r) :
          LET last == Inside(r, t)[Cardinality(Tasks)]
          IN  last \in OwnerRecords(r) /\ tasks[last].status = "succeeded"
  BY DEF GuardAllows, Inside
<1> QED
  BY <1>1, <1>2, <1>3

LEMMA TaskCount == Cardinality(Tasks) \in Nat
BY GoalAssumption, FS_CardinalityType

\* A turn of the loop stays where nothing replaced the task, and goes to the
\* next attempt otherwise, which no other task goes to.
LEMMA StepFacts ==
  ASSUME IndInv, NEW t \in Tasks
  PROVE  /\ Step(t) \in Tasks
         /\ tasks[t].attempt \in Nat
         /\ Leaf(t) => Step(t) = t
         /\ ~Leaf(t) => /\ Step(t) = tasks[t].by
                        /\ Step(t) \in Registered
                        /\ tasks[Step(t)].attempt = tasks[t].attempt + 1
BY GoalAssumption DEF IndInv, TypeOK, ChainsAreAttempts, Step, Leaf, Record, Registered

LEMMA AfterFacts ==
  ASSUME IndInv, NEW t \in Tasks
  PROVE  /\ After(t) \in [Nat -> Tasks]
         /\ After(t)[0] = t
         /\ \A n \in Nat : After(t)[n + 1] = Step(After(t)[n])
<1> DEFINE g == [u \in Tasks |-> Step(u)]
<1>1. g \in [Tasks -> Tasks]
  BY StepFacts
<1>2. PICK f \in [Nat -> Tasks] : f[0] = t /\ \A n \in Nat : f[n + 1] = g[f[n]]
  <2> HIDE DEF g
  <2> QED
    BY <1>1, Iteration
<1>3. f = [n \in Nat |-> IF n = 0 THEN t ELSE Step(f[n - 1])]
  <2>1. ASSUME NEW n \in Nat, n # 0 PROVE f[n] = Step(f[n - 1])
    <3>1. n - 1 \in Nat /\ (n - 1) + 1 = n
      BY <2>1
    <3>2. f[n] = g[f[n - 1]] /\ f[n - 1] \in Tasks
      BY <1>2, <3>1
    <3> QED
      BY <3>2
  <2> QED
    BY <1>2, <2>1
<1>4. After(t) = [n \in Nat |-> IF n = 0 THEN t ELSE Step(After(t)[n - 1])]
  BY <1>3 DEF After
<1>5. After(t)[0] = t /\ \A n \in Nat : After(t)[n + 1] = Step(After(t)[n])
  BY <1>4
<1>6. ASSUME NEW n \in Nat PROVE After(t)[n] \in Tasks
  <2> DEFINE T == {k \in Nat : After(t)[k] \in Tasks}
  <2>1. 0 \in T /\ \A k \in Nat : k \in T => k + 1 \in T
    BY <1>5, StepFacts
  <2> HIDE DEF T
  <2> QED
    BY <2>1, SetInduction DEF T
<1> QED
  BY <1>4, <1>5, <1>6

LEMMA LeafStays ==
  ASSUME IndInv, NEW t \in Tasks, NEW n \in Nat, Leaf(After(t)[n])
  PROVE  \A m \in Nat : n <= m => After(t)[m] = After(t)[n]
<1> DEFINE T == {k \in Nat : After(t)[n + k] = After(t)[n]}
<1>1. 0 \in T
  OBVIOUS
<1>2. ASSUME NEW k \in Nat, k \in T PROVE k + 1 \in T
  <2>1. After(t)[(n + k) + 1] = Step(After(t)[n + k])
    BY AfterFacts
  <2>2. After(t)[n + k] = After(t)[n] /\ After(t)[n] \in Tasks
    BY <1>2, AfterFacts
  <2>3. Step(After(t)[n]) = After(t)[n]
    BY <2>2, StepFacts
  <2>4. n + (k + 1) = (n + k) + 1
    OBVIOUS
  <2> QED
    BY <2>1, <2>2, <2>3, <2>4
<1> HIDE DEF T
<1>3. Nat \subseteq T
  BY <1>1, <1>2, SetInduction
<1>4. ASSUME NEW m \in Nat, n <= m PROVE After(t)[m] = After(t)[n]
  <2>1. m - n \in T /\ n + (m - n) = m
    BY <1>3, <1>4
  <2> QED
    BY <2>1 DEF T
<1> QED
  BY <1>4

\* As many turns as there are tasks are enough: a longer chain would have
\* two places with the same task, but attempts grow along a chain.
LEMMA ChainEnds ==
  ASSUME IndInv, NEW t \in Tasks
  PROVE  Answering(t) \in Tasks /\ Leaf(Answering(t))
<1> DEFINE N == Cardinality(Tasks)
           a == After(t)
<1>0. N \in Nat /\ a \in [Nat -> Tasks] /\ Answering(t) = a[N]
  BY TaskCount, AfterFacts, LoopsUnfolded
<1> SUFFICES ASSUME ~Leaf(a[N]) PROVE FALSE
  BY <1>0
<1>1. \A n \in 0..N : ~Leaf(a[n])
  BY <1>0, LeafStays
<1>2. \A n \in 0..N : tasks[a[n]].attempt = tasks[t].attempt + n
  <2> DEFINE T == {n \in Nat : n <= N => tasks[a[n]].attempt = tasks[t].attempt + n}
  <2>1. 0 \in T
    <3>1. a[0] = t /\ tasks[t].attempt \in Nat
      BY AfterFacts, StepFacts
    <3> QED
      BY <3>1
  <2>2. ASSUME NEW n \in Nat, n \in T PROVE n + 1 \in T
    <3> SUFFICES ASSUME n + 1 <= N
                 PROVE  tasks[a[n + 1]].attempt = tasks[t].attempt + (n + 1)
      OBVIOUS
    <3>1. n \in 0..N /\ tasks[a[n]].attempt = tasks[t].attempt + n
      BY <1>0, <2>2
    <3>2. a[n + 1] = Step(a[n]) /\ a[n] \in Tasks
      BY AfterFacts
    <3>3. tasks[a[n + 1]].attempt = tasks[a[n]].attempt + 1
      BY <1>1, <3>1, <3>2, StepFacts
    <3>4. tasks[t].attempt \in Nat
      BY StepFacts
    <3> HIDE DEF a
    <3> QED
      BY <3>1, <3>3, <3>4
  <2> HIDE DEF T
  <2>3. Nat \subseteq T
    BY <2>1, <2>2, SetInduction
  <2> QED
    BY <1>0, <2>3 DEF T
<1> DEFINE b == [n \in 0..N |-> a[n]]
<1>3. b \in [0..N -> Tasks] /\ \A m, n \in 0..N : b[m] = b[n] => m = n
  <2>1. tasks[t].attempt \in Nat
    BY StepFacts
  <2>2. ASSUME NEW m \in 0..N, NEW n \in 0..N, a[m] = a[n] PROVE m = n
    <3>1. tasks[t].attempt + m = tasks[t].attempt + n
      BY <1>2, <2>2
    <3> QED
      BY <1>0, <2>1, <3>1
  <2> QED
    BY <1>0, <2>2
<1>4. Cardinality(0..N) <= Cardinality(Tasks)
  <2>1. b \in Injection(0..N, Tasks)
    BY <1>3 DEF Injection, IsInjective
  <2> QED
    BY <2>1, FS_Injection, GoalAssumption
<1>5. Cardinality(0..N) = N + 1
  BY <1>0, FS_Interval
<1> HIDE DEF N
<1> QED
  BY <1>0, <1>4, <1>5 DEF N

\* A task is answered for by whoever answers for its replacement, and a task
\* that nothing replaced by itself.
LEMMA AnsweringFacts ==
  ASSUME IndInv, NEW t \in Tasks
  PROVE  /\ Answering(Step(t)) = Answering(t)
         /\ Leaf(t) => Answering(t) = t
         /\ t \in Registered => Answering(t) \in Registered
<1> DEFINE N == Cardinality(Tasks)
           a == After(t)
           b == After(Step(t))
<1>0. N \in Nat /\ a \in [Nat -> Tasks] /\ Answering(t) = a[N] /\ a[0] = t
  BY TaskCount, AfterFacts, LoopsUnfolded
<1>1. Step(t) \in Tasks /\ Answering(Step(t)) = b[N]
  BY StepFacts, LoopsUnfolded
<1>2. \A n \in Nat : a[n + 1] = Step(a[n])
  BY AfterFacts
<1>3. b[0] = Step(t) /\ \A n \in Nat : b[n + 1] = Step(b[n])
  <2> DEFINE u == Step(t)
  <2>1. u \in Tasks
    BY <1>1
  <2> HIDE DEF u
  <2>2. After(u)[0] = u /\ \A n \in Nat : After(u)[n + 1] = Step(After(u)[n])
    BY <2>1, AfterFacts
  <2> QED
    BY <2>2 DEF u
<1> HIDE DEF a, b
<1>4. a[N + 1] = b[N]
  <2> DEFINE T == {n \in Nat : a[n + 1] = b[n]}
  <2>1. 0 \in T
    <3>1. a[0 + 1] = Step(t) /\ b[0] = Step(t)
      BY <1>0, <1>2, <1>3
    <3> QED
      BY <3>1
  <2>2. ASSUME NEW n \in Nat, n \in T PROVE n + 1 \in T
    <3>1. a[(n + 1) + 1] = Step(a[n + 1]) /\ b[n + 1] = Step(b[n])
      BY <1>2, <1>3
    <3> QED
      BY <2>2, <3>1
  <2> HIDE DEF T
  <2>3. Nat \subseteq T
    BY <2>1, <2>2, SetInduction
  <2> QED
    BY <1>0, <2>3 DEF T
<1>5. a[N + 1] = a[N]
  BY <1>0, ChainEnds, LeafStays DEF a
<1>6. Leaf(t) => a[N] = t
  BY <1>0, LeafStays DEF a
<1>7. t \in Registered => a[N] \in Registered
  <2> SUFFICES ASSUME t \in Registered PROVE a[N] \in Registered
    OBVIOUS
  <2> DEFINE T == {n \in Nat : a[n] \in Registered}
  <2>1. 0 \in T
    BY <1>0
  <2>2. ASSUME NEW n \in Nat, n \in T PROVE n + 1 \in T
    <3>1. a[n + 1] = Step(a[n]) /\ a[n] \in Tasks /\ a[n] \in Registered
      BY <1>0, <1>2, <2>2
    <3>2. Step(a[n]) \in Registered
      BY <3>1, StepFacts
    <3> QED
      BY <3>1, <3>2
  <2> HIDE DEF T
  <2>3. Nat \subseteq T
    BY <2>1, <2>2, SetInduction
  <2> QED
    BY <1>0, <2>3 DEF T
<1> QED
  BY <1>0, <1>1, <1>4, <1>5, <1>6, <1>7

-----------------------------------------------------------------------------
(* The gate, the completion guard and the completed goal. *)

\* Every chain has a beginning: of the tasks a leaf answers for, the one with
\* the least attempt replaced nothing.
LEMMA GateLeaves == ASSUME IndInv PROVE GateIsLeaves
<1> DEFINE Root(t) == \A o \in Registered : tasks[o].by # t
           Leaves == \A t \in Registered : Leaf(t) => tasks[t].status = "succeeded"
<1>0. Registered \subseteq Tasks
  BY DEF Registered
<1>1. ASSUME Leaves PROVE RequiredGate
  <2> SUFFICES ASSUME NEW t \in Registered PROVE Satisfied(t)
    BY DEF RequiredGate
  <2> QED
    BY <1>0, <1>1, ChainEnds, AnsweringFacts DEF Satisfied
<1>2. ASSUME RequiredGate, NEW l \in Registered, Leaf(l)
      PROVE  tasks[l].status = "succeeded"
  <2> DEFINE X == {x \in Registered : Answering(x) = l}
             A == {tasks[x].attempt : x \in X}
  <2>1. l \in X
    BY <1>0, <1>2, AnsweringFacts
  <2>2. A \subseteq Nat /\ A # {}
    BY <1>0, <2>1, StepFacts
  <2>3. PICK m \in A : \A k \in A : m <= k
    <3> HIDE DEF A
    <3> QED
      BY <2>2, LeastNumber
  <2>4. PICK x \in X : tasks[x].attempt = m
    BY <2>3
  <2>5. ASSUME NEW o \in Registered, tasks[o].by = x PROVE FALSE
    <3>1. ~Leaf(o) /\ o \in Tasks /\ x \in Tasks
      BY <1>0, <2>5, GoalAssumption DEF Leaf
    <3>2. Step(o) = x /\ tasks[x].attempt = tasks[o].attempt + 1
          /\ tasks[o].attempt \in Nat
      BY <2>5, <3>1, StepFacts
    <3>3. o \in X
      BY <3>1, <3>2, AnsweringFacts
    <3>4. tasks[o].attempt \in A
      BY <3>3
    <3> HIDE DEF A
    <3>5. m <= tasks[o].attempt
      BY <2>3, <3>4
    <3> QED
      BY <2>4, <3>2, <3>5
  <2>6. x \in Registered /\ Root(x) /\ Answering(x) = l
    BY <2>5
  <2> QED
    BY <1>2, <2>6 DEF RequiredGate, Satisfied
<1> QED
  BY <1>1, <1>2 DEF GateIsLeaves, Leaf

\* What select_owner collects, turn by turn.
LEMMA FoundFacts ==
  ASSUME IndInv, NEW r \in Runs
  PROVE  /\ Found(r)[0] = Owned(r)
         /\ \A n \in Nat :
              Found(r)[n + 1] =
                Found(r)[n] \cup {tasks[t].by : t \in Found(r)[n] \cap Registered}
<1> DEFINE S == SUBSET (Tasks \cup {NoTask})
           more(X) == X \cup {tasks[t].by : t \in X \cap Registered}
           g == [X \in S |-> more(X)]
<1>1. Owned(r) \in S /\ g \in [S -> S]
  BY DEF Owned, Registered, IndInv, TypeOK, Record
<1>2. PICK f \in [Nat -> S] : f[0] = Owned(r) /\ \A n \in Nat : f[n + 1] = g[f[n]]
  <2> HIDE DEF g, S
  <2> QED
    BY <1>1, Iteration
<1>3. f = [n \in Nat |-> IF n = 0 THEN Owned(r) ELSE more(f[n - 1])]
  <2>1. ASSUME NEW n \in Nat, n # 0 PROVE f[n] = more(f[n - 1])
    <3>1. n - 1 \in Nat /\ (n - 1) + 1 = n
      BY <2>1
    <3>2. f[n] = g[f[n - 1]] /\ f[n - 1] \in S
      BY <1>2, <3>1
    <3> QED
      BY <3>2
  <2> HIDE DEF more
  <2> QED
    BY <1>2, <2>1
<1>4. Found(r) = [n \in Nat |-> IF n = 0 THEN Owned(r) ELSE more(Found(r)[n - 1])]
  BY <1>3 DEF Found
<1> HIDE DEF more
<1>5. Found(r)[0] = Owned(r) /\ \A n \in Nat : Found(r)[n + 1] = more(Found(r)[n])
  BY <1>4
<1> QED
  BY <1>5 DEF more

\* The chain of an obligation of the run stays within what select_owner found,
\* so that the guard walks all of it.
LEMMA OwnerHasChains ==
  ASSUME IndInv, NEW r \in Runs, NEW t \in Owned(r)
  PROVE  \A n \in 0..Cardinality(Tasks) : After(t)[n] \in OwnerRecords(r)
<1> DEFINE N == Cardinality(Tasks)
           F == Found(r)
           a == After(t)
<1>0. N \in Nat /\ t \in Registered /\ t \in Tasks /\ Registered \subseteq Tasks
  BY TaskCount DEF Owned, Registered
<1>1. \A n \in Nat : a[n] \in F[n] \cap Registered
  <2> DEFINE T == {n \in Nat : a[n] \in F[n] \cap Registered}
  <2>1. 0 \in T
    BY <1>0, AfterFacts, FoundFacts
  <2>2. ASSUME NEW n \in Nat, n \in T PROVE n + 1 \in T
    <3>1. a[n + 1] = Step(a[n]) /\ a[n] \in Tasks /\ a[n] \in F[n] \cap Registered
      BY <1>0, <2>2, AfterFacts
    <3>2. F[n + 1] = F[n] \cup {tasks[u].by : u \in F[n] \cap Registered}
      BY FoundFacts
    <3>3. Step(a[n]) = a[n] \/ (Step(a[n]) = tasks[a[n]].by /\ Step(a[n]) \in Registered)
      BY <3>1, StepFacts
    <3> HIDE DEF a, F
    <3> QED
      BY <3>1, <3>2, <3>3
  <2> HIDE DEF T
  <2>3. Nat \subseteq T
    BY <2>1, <2>2, SetInduction
  <2> QED
    BY <2>3 DEF T
<1>2. ASSUME NEW n \in 0..N PROVE F[n] \subseteq F[N]
  <2> DEFINE T == {k \in Nat : F[n] \subseteq F[n + k]}
  <2>1. 0 \in T
    OBVIOUS
  <2>2. ASSUME NEW k \in Nat, k \in T PROVE k + 1 \in T
    <3>1. n + k \in Nat /\ n + (k + 1) = (n + k) + 1
      BY <1>0
    <3>2. F[n + k] \subseteq F[(n + k) + 1]
      BY <3>1, FoundFacts
    <3> QED
      BY <2>2, <3>1, <3>2
  <2> HIDE DEF T
  <2>3. N - n \in T /\ n + (N - n) = N
    BY <1>0, <2>1, <2>2, SetInduction
  <2> QED
    BY <2>3 DEF T
<1> QED
  BY <1>0, <1>1, <1>2, LoopsUnfolded

LEMMA GuardGate == ASSUME IndInv PROVE GuardIsGate
<1> SUFFICES ASSUME NEW r \in Runs
             PROVE  GuardAllows(r) <=> \A t \in Owned(r) : Satisfied(t)
  BY DEF GuardIsGate
<1> DEFINE N == Cardinality(Tasks)
<1>0. N \in Nat /\ Owned(r) \subseteq Tasks /\ OwnerRecords(r) \subseteq Tasks
  BY TaskCount, LoopsUnfolded DEF Owned, Registered
<1>1. ASSUME NEW t \in Owned(r) PROVE Inside(r, t)[N] = After(t)[N]
  <2> DEFINE S == Tasks
             go(u) == IF u \in OwnerRecords(r) THEN Step(u) ELSE u
             g == [u \in S |-> go(u)]
  <2>1. g \in [S -> S] /\ t \in S
    BY <1>0, StepFacts
  <2>2. PICK f \in [Nat -> S] : f[0] = t /\ \A n \in Nat : f[n + 1] = g[f[n]]
    <3> HIDE DEF g, S, N
    <3> QED
      BY <2>1, Iteration, SMTT(20)
  <2>3. f = [n \in Nat |-> IF n = 0 THEN t ELSE go(f[n - 1])]
    <3>1. ASSUME NEW n \in Nat, n # 0 PROVE f[n] = go(f[n - 1])
      <4>1. n - 1 \in Nat /\ (n - 1) + 1 = n
        BY <3>1
      <4>2. f[n] = g[f[n - 1]] /\ f[n - 1] \in S
        BY <2>2, <4>1
      <4> QED
        BY <4>2
    <3> HIDE DEF go
    <3> QED
      BY <2>2, <3>1
  <2>4. Inside(r, t) = [n \in Nat |-> IF n = 0 THEN t ELSE go(Inside(r, t)[n - 1])]
    BY <2>3 DEF Inside
  <2> HIDE DEF go
  <2>5. /\ Inside(r, t)[0] = t
        /\ \A n \in Nat : Inside(r, t)[n + 1] = go(Inside(r, t)[n])
    BY <2>4
  <2> DEFINE T == {n \in Nat : n <= N => Inside(r, t)[n] = After(t)[n]}
  <2>6. 0 \in T
    BY <1>0, <2>5, AfterFacts
  <2>7. ASSUME NEW n \in Nat, n \in T PROVE n + 1 \in T
    <3> SUFFICES ASSUME n + 1 <= N PROVE Inside(r, t)[n + 1] = After(t)[n + 1]
      OBVIOUS
    <3>1. n \in 0..N /\ Inside(r, t)[n] = After(t)[n]
      BY <1>0, <2>7
    <3>2. After(t)[n] \in OwnerRecords(r)
      BY <3>1, OwnerHasChains
    <3>3. Inside(r, t)[n + 1] = go(After(t)[n])
      BY <2>5, <3>1
    <3>4. After(t)[n + 1] = Step(After(t)[n])
      BY <1>0, AfterFacts
    <3> QED
      BY <3>2, <3>3, <3>4 DEF go
  <2> HIDE DEF T
  <2>8. Nat \subseteq T
    BY <2>6, <2>7, SetInduction
  <2> QED
    BY <1>0, <2>8 DEF T
<1>2. ASSUME NEW t \in Owned(r) PROVE Answering(t) = After(t)[N] /\ Answering(t) \in OwnerRecords(r)
  BY <1>0, OwnerHasChains, LoopsUnfolded
<1> QED
  BY <1>1, <1>2, LoopsUnfolded DEF Satisfied

\* The gate of update_goal looks at first attempts only (required_gate), and
\* yet says that every obligation nothing replaced has succeeded.
THEOREM GateSound == Spec => []GateIsLeaves
BY Inductive, GateLeaves, PTL

\* The completion guard of a run, which walks the chains in the records that
\* select_owner collected for it, agrees with the obligations themselves, also
\* when other runs made the replacements.
THEOREM GuardSound == Spec => []GuardIsGate
BY Inductive, GuardGate, PTL

\* A goal that is completed was so with every obligation succeeded, and
\* nothing that happens to its children afterwards changes its obligations.
THEOREM CompletionEarned == Spec => []CompletedIsEarned
<1>1. Init => CompletedIsEarned
  BY DEF Init, CompletedIsEarned
<1>2. IndInv /\ CompletedIsEarned /\ [Next]_vars => CompletedIsEarned'
  <2> SUFFICES ASSUME IndInv, CompletedIsEarned, [Next]_vars, goal' = "completed"
               PROVE  \A t \in Registered' :
                        tasks'[t].by = NoTask => tasks'[t].status = "succeeded"
    BY DEF CompletedIsEarned
  <2>1. CASE CompleteGoal
    BY <2>1, GateLeaves DEF CompleteGoal, GateIsLeaves, Registered
  <2>2. CASE goal = "completed" /\ UNCHANGED tasks
    BY <2>2 DEF CompletedIsEarned, Registered
  <2>3. \/ CompleteGoal
        \/ goal = "completed" /\ UNCHANGED tasks
    BY DEF Next, vars, Active, Register, MarkTermination, Finish, ChildGone,
           RemoveRegistration, SelectLost, EndGoal, NewGoal, Crash, Recover
  <2> QED
    BY <2>1, <2>2, <2>3
<1> QED
  BY <1>1, <1>2, Inductive, PTL DEF Spec
=============================================================================

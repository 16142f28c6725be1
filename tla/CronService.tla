---------------------------- MODULE CronService ----------------------------
(***************************************************************************)
(* The scheduler of nanobot.cron: jobs.json, the action log in which        *)
(* processes that do not run the scheduler leave their additions and        *)
(* removals, the job list in the gateway's memory, its timer, and the run   *)
(* of a job asked for by hand.  One step is the code between two awaits.    *)
(* A job is its schedule (0: every Period; t > 0: once, at t), whether it   *)
(* is enabled, whether it is deleted after its run, and the time it is due  *)
(* (0: never).  All user jobs are bound to a chat.                          *)
(***************************************************************************)
EXTENDS Naturals, Sequences, FiniteSetsExt

CONSTANTS
  UserJobs,     \* ids of jobs that users may add
  SystemJobs,   \* ids of the jobs the gateway registers when it boots
  Period,       \* every_ms
  MaxSleep,     \* max_sleep_ms
  Faults,       \* subset of {"crash", "save", "spoil"}
  Bad,          \* an unreadable jobs.json
  MaxTime,      \* bound on the clock
  MaxEdits,     \* bound on the requests of users
  MaxFaults     \* bound on faults

Jobs == UserJobs \cup SystemJobs

JobRec == [sched: 0 .. MaxTime, on: BOOLEAN, once: BOOLEAN, next: 0 .. MaxTime + Period]
JobLists == UNION {[S -> JobRec] : S \in SUBSET Jobs}

ASSUME CronAssumption ==
  /\ Period \in Nat \ {0} /\ MaxSleep \in Nat \ {0}
  /\ MaxTime \in Nat \ {0} /\ MaxEdits \in Nat /\ MaxFaults \in Nat
  /\ Faults \subseteq {"crash", "save", "spoil"}
  /\ UserJobs \cap SystemJobs = {} /\ SystemJobs # {} /\ Bad \notin JobLists

VARIABLES
  now,     \* the clock
  disk,    \* jobs.json: a job list, or Bad
  log,     \* action.jsonl
  phase,   \* "down", "booted" (system jobs registered) or "up" (started)
  mem,     \* _store of the gateway
  timer,   \* "dead", "armed" or "busy" (in _on_timer: _timer_active)
  wake,    \* when an armed timer ends its sleep
  cur,     \* what _on_timer runs: {} or one <<job, due time>>
  rest,    \* what it runs next
  adrift,  \* the jobs _on_timer holds are no longer those of mem
  silent,  \* /stop took the turn _on_timer awaits: no answer comes
  run,     \* for each job the run asked for by hand
  edits, faults, born,
  kept,    \* jobs a caller was told of and nobody took back
  over,    \* jobs removed on request, or deleted after their run
  done,    \* <<job, due time>> the timer has run to the end
  echoed,  \* jobs in memory whose addition a start left in the action log
  lost     \* jobs gone with a log that a merge emptied, or an unreadable file

tick == <<timer, wake, cur, rest, adrift, silent>>
ghosts == <<kept, over, done, echoed, lost>>
vars == <<now, disk, log, phase, mem, tick, run, edits, faults, born, ghosts>>

Without(list, j) == [i \in DOMAIN list \ {j} |-> list[i]]
With(list, j, rec) == [i \in DOMAIN list \cup {j} |-> IF i = j THEN rec ELSE list[i]]
NoJobs == [j \in {} |-> 0]
NoRun == [st |-> "no", drops |-> FALSE]

(* _compute_next_run.                                                       *)
NextRun(sched, t) ==
  IF sched = 0 THEN t + Period ELSE IF sched > t THEN sched ELSE 0

NewJob(sched, once) ==
  [sched |-> sched, on |-> TRUE, once |-> once, next |-> NextRun(sched, now)]

Scheduled(rec) == [rec EXCEPT !.next = IF rec.on THEN NextRun(rec.sched, now) ELSE 0]

\* Mutant of IsDue: a job the timer comes too late for is passed over.
IsDueExactly(rec) == rec.on /\ rec.next = now
IsDue(rec) == rec.on /\ rec.next # 0 /\ rec.next <= now

DeletesItself(rec) == rec.sched # 0 /\ rec.once

(* What _execute_job leaves of job j, run to its end or not.                *)
Ended(list, j) ==
  IF j \notin DOMAIN list THEN list
  ELSE IF DeletesItself(list[j]) THEN Without(list, j)
  ELSE With(list, j, IF list[j].sched = 0
                       THEN [list[j] EXCEPT !.next = NextRun(0, now)]
                       ELSE [list[j] EXCEPT !.on = FALSE, !.next = 0])
-----------------------------------------------------------------------------
(* _merge_action: the lines of the log applied in their order.  The last one  *)
(* about a job decides, and a removal of what is not there changes nothing.   *)
Listed == IF disk = Bad THEN NoJobs ELSE disk
Lines(j) == {p \in DOMAIN log : log[p].job = j}
Decides(j) == log[Max(Lines(j))]
Present(j) == IF Lines(j) = {} THEN j \in DOMAIN Listed ELSE Decides(j).action = "add"
Added == {j \in UserJobs : \E p \in Lines(j) : log[p].action = "add"}
Removed == {j \in UserJobs : \E p \in Lines(j) : log[p].action = "del"}
Merged ==
  [jobs    |-> [j \in {i \in Jobs : Present(i)} |->
                  IF Lines(j) = {} THEN Listed[j] ELSE Decides(j).rec],
   changed |-> Added \cup (Removed \cap DOMAIN Listed) # {}]

\* Mutant of Load: a reading while the timer runs jobs replaces them.
LoadAlways(running) ==
  IF running /\ Merged.changed
    THEN [mem |-> Merged.jobs, disk |-> Merged.jobs, log |-> <<>>, fresh |-> TRUE]
  ELSE [mem |-> Merged.jobs, disk |-> Listed, log |-> log, fresh |-> TRUE]

\* Mutant of Load: the log is emptied and the merged list left to the next save.
LoadUnsaved(running) ==
  [mem |-> Merged.jobs, disk |-> Listed, log |-> IF running THEN <<>> ELSE log, fresh |-> TRUE]

\* Mutant of Load: the log is kept and merged again.
LoadRepeating(running) ==
  [mem |-> Merged.jobs, disk |-> IF running THEN Merged.jobs ELSE Listed,
   log |-> log, fresh |-> TRUE]

(* _load_store, and the files it leaves.  fresh: the list was read anew, so  *)
(* that no run holds a job of it.  While the timer runs jobs the list in     *)
(* memory is used as it is; after an unreadable file, moved aside, too.      *)
Load(running) ==
  IF timer = "busy"
    THEN [mem |-> mem, disk |-> disk, log |-> log, fresh |-> FALSE]
  ELSE IF disk = Bad
    THEN [mem |-> mem, disk |-> NoJobs, log |-> log, fresh |-> FALSE]
  ELSE IF running /\ Merged.changed
    THEN [mem |-> Merged.jobs, disk |-> Merged.jobs, log |-> <<>>, fresh |-> TRUE]
  ELSE [mem |-> Merged.jobs, disk |-> disk, log |-> log, fresh |-> TRUE]

(* A run by hand keeps the job it started from when the list is read anew.   *)
Holding(fresh, list) ==
  [j \in Jobs |->
     IF run[j].st = "live" /\ (fresh \/ j \notin DOMAIN list)
       THEN [st |-> "stale", drops |-> j \in DOMAIN mem /\ DeletesItself(mem[j])]
       ELSE run[j]]

(* A call that ends with m in memory; jobs in gone are removed for good, and *)
(* so are those whose removal was read from the log.                         *)
Read(l, m, gone) ==
  /\ mem' = m /\ log' = l.log
  /\ over' = over \cup gone \cup IF l.log = log THEN {} ELSE Removed
Loaded(l, m, gone) == Read(l, m, gone) /\ run' = Holding(l.fresh, m)

WakeAt(list) ==
  LET due == {list[j].next : j \in {i \in DOMAIN list : list[i].on /\ list[i].next # 0}}
  IN Min({now + MaxSleep} \cup {Max({d, now}) : d \in due})

(* _arm_timer cancels the task of the timer, a busy one too: what that runs  *)
(* is given up unrecorded, what it ran before stays in memory.               *)
Arm(list) ==
  /\ timer' = "armed" /\ wake' = WakeAt(list)
  /\ cur' = {} /\ rest' = {} /\ adrift' = FALSE /\ silent' = FALSE
Dead ==
  /\ timer' = "dead" /\ wake' = 0
  /\ cur' = {} /\ rest' = {} /\ adrift' = FALSE /\ silent' = FALSE

(* The timer's task is left alone; it loses its jobs to a fresh list.        *)
KeepTimer(l) ==
  /\ adrift' = (adrift \/ (timer = "busy" /\ l.fresh))
  /\ UNCHANGED <<timer, wake, cur, rest, silent>>

Fault(kind) == kind \in Faults /\ faults < MaxFaults /\ faults' = faults + 1
-----------------------------------------------------------------------------
Init ==
  /\ now = 1 /\ disk = NoJobs /\ log = <<>> /\ phase = "down" /\ mem = NoJobs
  /\ timer = "dead" /\ wake = 0 /\ cur = {} /\ rest = {} /\ adrift = FALSE
  /\ silent = FALSE
  /\ run = [j \in Jobs |-> NoRun]
  /\ edits = 0 /\ faults = 0 /\ born = SystemJobs
  /\ kept = {} /\ over = {} /\ done = {} /\ echoed = {} /\ lost = {}

Clock ==
  /\ now < MaxTime /\ now' = now + 1
  /\ UNCHANGED <<disk, log, phase, mem, tick, run, edits, faults, born, ghosts>>

(* The gateway boots: register_system_job, once per job, before start.  An   *)
(* unreadable file is moved aside and the boot given up.                     *)
Register ==
  /\ phase = "down"
  /\ IF disk = Bad
       THEN /\ disk' = NoJobs
            /\ UNCHANGED <<log, phase, mem, tick, run, ghosts>>
       ELSE LET l == Load(FALSE)
                m == [j \in DOMAIN l.mem \cup SystemJobs |->
                        IF j \in SystemJobs
                          THEN [sched |-> 0, on |-> TRUE, once |-> FALSE,
                                next |-> NextRun(0, now)]
                          ELSE l.mem[j]]
            IN /\ Loaded(l, m, {}) /\ disk' = m /\ phase' = "booted"
               /\ kept' = kept \cup SystemJobs /\ lost' = lost \ SystemJobs
               /\ UNCHANGED <<tick, done, echoed>>
  /\ UNCHANGED <<now, edits, faults, born>>

(* start: a one-shot job whose time has passed gets no next run.             *)
Start ==
  /\ phase = "booted"
  /\ LET l == Load(TRUE)
         m == [j \in DOMAIN l.mem |->
                 IF l.mem[j].on THEN Scheduled(l.mem[j]) ELSE l.mem[j]]
     IN Loaded(l, m, {}) /\ disk' = m /\ Arm(m)
  /\ phase' = "up"
  /\ echoed' = IF disk = Bad THEN echoed \cup Added ELSE echoed
  /\ UNCHANGED <<now, edits, faults, born, kept, done, lost>>

(* tick and _on_timer up to the first job it awaits.                         *)
Tick ==
  /\ phase = "up" /\ timer = "armed" /\ wake <= now
  /\ \A j \in Jobs : run[j].st # "asked"
  /\ LET l == Load(TRUE)
         due == {<<j, l.mem[j].next>> : j \in {i \in DOMAIN l.mem : IsDue(l.mem[i])}}
     IN /\ Loaded(l, l.mem, {})
        /\ \/ /\ due # {}
              /\ \E p \in due : cur' = {p} /\ rest' = due \ {p}
              /\ timer' = "busy" /\ disk' = l.disk
              /\ UNCHANGED <<wake, adrift, silent, faults, done>>
           \/ due = {} /\ disk' = l.mem /\ Arm(l.mem) /\ UNCHANGED <<faults, done>>
           \/ due = {} /\ disk' = l.disk /\ Dead /\ Fault("save") /\ UNCHANGED done
  /\ UNCHANGED <<now, phase, edits, born, kept, echoed, lost>>

(* The rest of _on_timer: a job has ended, well or not, and is recorded; the *)
(* next one starts, or the list is saved and the timer armed.  When the save *)
(* fails nothing arms it.                                                    *)
FinishTick ==
  /\ timer = "busy" /\ ~silent /\ \A j \in Jobs : run[j].st # "asked"
  /\ \E p \in cur :
       LET m == IF adrift THEN mem ELSE Ended(mem, p[1])
           gone == DOMAIN mem \ DOMAIN m
       IN /\ mem' = m /\ run' = Holding(FALSE, m) /\ kept' = kept \ gone
          /\ \/ /\ rest # {}
                /\ \E q \in rest : cur' = {q} /\ rest' = rest \ {q}
                /\ done' = done \cup {p}
                /\ UNCHANGED <<timer, wake, adrift, silent, disk, faults, over>>
             \/ /\ rest = {} /\ disk' = m /\ Arm(m)
                /\ done' = done \cup {p}
                /\ over' = over \cup ((UserJobs \cap DOMAIN Listed) \ DOMAIN m)
                /\ UNCHANGED faults
             \/ rest = {} /\ Dead /\ Fault("save") /\ done' = {} /\ UNCHANGED <<disk, over>>
  /\ UNCHANGED <<now, log, phase, edits, born, echoed, lost>>

(* list_jobs, get_job, status.                                               *)
Poll ==
  /\ phase = "up"
  /\ LET l == Load(TRUE)
     IN Loaded(l, l.mem, {}) /\ disk' = l.disk /\ KeepTimer(l)
  /\ UNCHANGED <<now, phase, edits, faults, born, kept, done, echoed, lost>>

Edits == edits < MaxEdits /\ edits' = edits + 1

(* The end of a call that changes job j: saved and the timer armed, or an    *)
(* exception out of the save with the change left in memory.                 *)
Changed(l, m, gone) ==
  \/ Loaded(l, m, gone) /\ disk' = m /\ Arm(m) /\ UNCHANGED faults
  \/ Loaded(l, m, {}) /\ disk' = l.disk /\ KeepTimer(l) /\ Fault("save")

(* Job j is rescheduled; after a failed save what is in memory may be undone. *)
Rescheduled(j) == done' = IF faults' = faults THEN {p \in done : p[1] # j} ELSE {}

AddJob(j, sched, once) ==
  /\ phase = "up" /\ j \notin born /\ Edits
  /\ LET l == Load(TRUE)
     IN Changed(l, With(l.mem, j, NewJob(sched, once)), {})
  /\ born' = born \cup {j}
  /\ kept' = IF faults' = faults THEN kept \cup {j} ELSE kept
  /\ Rescheduled(j) /\ UNCHANGED <<now, phase, echoed, lost>>

RemoveJob(j) ==
  /\ phase = "up" /\ Edits
  /\ LET l == Load(TRUE)
     IN j \in DOMAIN l.mem /\ Changed(l, Without(l.mem, j), {j})
  /\ kept' = kept \ {j}
  /\ Rescheduled(j) /\ UNCHANGED <<now, phase, born, echoed, lost>>

(* The handlers of the web UI read the list once more before they change a   *)
(* job; of an unreadable file the second reading finds nothing to change.    *)
EnableJob(j, on) ==
  /\ phase = "up" /\ disk # Bad /\ Edits
  /\ LET l == Load(TRUE)
     IN /\ j \in DOMAIN l.mem
        /\ Changed(l, With(l.mem, j, Scheduled([l.mem[j] EXCEPT !.on = on])), {})
  /\ Rescheduled(j) /\ UNCHANGED <<now, phase, born, kept, echoed, lost>>

UpdateJob(j, sched, once) ==
  /\ phase = "up" /\ disk # Bad /\ Edits
  /\ LET l == Load(TRUE)
     IN /\ j \in DOMAIN l.mem
        /\ Changed(l, With(l.mem, j,
                   Scheduled([l.mem[j] EXCEPT !.sched = sched, !.once = once])), {})
  /\ Rescheduled(j) /\ UNCHANGED <<now, phase, born, kept, echoed, lost>>

(* "run" of the web UI: the check, and run_job in a task of its own that the *)
(* event loop starts before anything the timer awaits can end.               *)
RequestRun(j) ==
  /\ phase = "up" /\ run[j].st = "no" /\ Edits
  /\ LET l == Load(TRUE)
     IN /\ j \in DOMAIN l.mem /\ l.mem[j].on
        /\ Read(l, l.mem, {}) /\ disk' = l.disk /\ KeepTimer(l)
        /\ run' = [Holding(l.fresh, l.mem) EXCEPT ![j].st = "asked"]
  /\ UNCHANGED <<now, phase, faults, born, kept, done, echoed, lost>>

(* run_job up to its await; a job removed or disabled meanwhile is refused,  *)
(* and the timer armed.                                                      *)
BeginRun(j) ==
  /\ run[j].st = "asked"
  /\ LET l == Load(TRUE) IN
       /\ Read(l, l.mem, {}) /\ disk' = l.disk
       /\ \/ /\ j \in DOMAIN l.mem /\ l.mem[j].on
             /\ run' = [Holding(l.fresh, l.mem) EXCEPT ![j].st = "live"]
             /\ KeepTimer(l)
          \/ /\ ~(j \in DOMAIN l.mem /\ l.mem[j].on)
             /\ run' = [Holding(l.fresh, l.mem) EXCEPT ![j] = NoRun]
             /\ Arm(l.mem)
  /\ UNCHANGED <<now, phase, edits, faults, born, kept, done, echoed, lost>>

(* The rest of run_job: what it held is recorded, _store is saved whatever   *)
(* it is by now, and the timer is armed even if that failed.                 *)
FinishRun(j) ==
  /\ run[j].st \in {"live", "stale"}
  /\ LET m == CASE run[j].st = "live" -> Ended(mem, j)
                [] run[j].drops -> Without(mem, j)
                [] OTHER -> mem
         gone == DOMAIN mem \ DOMAIN m
     IN /\ mem' = m /\ Arm(m) /\ kept' = kept \ gone
        /\ run' = [Holding(FALSE, m) EXCEPT ![j] = NoRun]
        /\ \/ disk' = m /\ over' = over \cup gone /\ UNCHANGED <<faults, done>>
           \/ Fault("save") /\ done' = {} /\ UNCHANGED <<disk, over>>
  /\ UNCHANGED <<now, log, phase, edits, born, echoed, lost>>

(* A process beside the gateway: _append_action of an addition, and of the   *)
(* removal of a job it finds in the files.                                   *)
ClientAdd(j, sched, once) ==
  /\ j \notin born /\ Edits
  /\ log' = Append(log, [action |-> "add", job |-> j, rec |-> NewJob(sched, once)])
  /\ born' = born \cup {j} /\ kept' = kept \cup {j}
  /\ UNCHANGED <<now, disk, phase, mem, tick, run, faults, over, done, echoed, lost>>

ClientRemove(j) ==
  /\ disk # Bad /\ j \in DOMAIN Merged.jobs /\ Edits
  /\ log' = Append(log, [action |-> "del", job |-> j])
  /\ kept' = kept \ {j}
  /\ UNCHANGED <<now, disk, phase, mem, tick, run, faults, born, over, done, echoed, lost>>

(* It moves an unreadable file aside as the gateway does.                    *)
ClientRead ==
  /\ disk = Bad /\ disk' = NoJobs
  /\ UNCHANGED <<now, log, phase, mem, tick, run, edits, faults, born, ghosts>>
-----------------------------------------------------------------------------
(* /stop of the chat takes the dispatch of a bound job before its turn began, *)
(* or leaves it deferred: submit() does not return.                          *)
StopTurn ==
  /\ timer = "busy" /\ ~silent /\ \E p \in cur : p[1] \in UserJobs
  /\ silent' = TRUE
  /\ UNCHANGED <<now, disk, log, phase, mem, timer, wake, cur, rest, adrift, run, edits,
                 faults, born, ghosts>>
-----------------------------------------------------------------------------
(* Faults.  A kill, or a stop: it saves nothing either.                      *)
Down ==
  /\ phase' = "down" /\ mem' = NoJobs /\ Dead
  /\ run' = [j \in Jobs |-> NoRun]
  /\ UNCHANGED <<now, edits, born, kept, over, done, echoed>>

Crash == phase # "down" /\ Fault("crash") /\ Down /\ UNCHANGED <<disk, log, lost>>

(* _merge_action empties the log before the jobs it held are saved: what was *)
(* only in the log is lost when the process ends or the save fails there.    *)
Merging == phase # "down" /\ timer # "busy" /\ disk # Bad /\ Merged.changed
LogLost == log' = <<>> /\ lost' = lost \cup (Added \ DOMAIN disk) /\ UNCHANGED disk

CrashInMerge == Merging /\ Fault("crash") /\ Down /\ LogLost

MergeFails ==
  /\ phase = "up" /\ Merging /\ Fault("save") /\ LogLost
  /\ mem' = Merged.jobs /\ run' = Holding(TRUE, mem')
  /\ \/ UNCHANGED tick
     \/ timer = "armed" /\ wake <= now /\ Dead
  /\ UNCHANGED <<now, phase, edits, born, kept, over, done, echoed>>

(* jobs.json becomes unreadable.                                             *)
Spoil ==
  /\ disk # Bad /\ Fault("spoil") /\ disk' = Bad
  /\ lost' = lost \cup (DOMAIN disk \ Added)
  /\ UNCHANGED <<now, log, phase, mem, tick, run, edits, born, kept, over, done, echoed>>
-----------------------------------------------------------------------------
Schedules == {0, now, now + 1} \cap (0 .. MaxTime)

Next ==
  \/ Clock \/ Register \/ Start \/ Tick \/ FinishTick \/ Poll
  \/ \E j \in UserJobs, s \in Schedules, once \in BOOLEAN :
       AddJob(j, s, once) \/ UpdateJob(j, s, once) \/ ClientAdd(j, s, once)
  \/ \E j \in UserJobs : RemoveJob(j) \/ ClientRemove(j) \/ \E on \in BOOLEAN : EnableJob(j, on)
  \/ \E j \in UserJobs : RequestRun(j) \/ BeginRun(j) \/ FinishRun(j)
  \/ ClientRead \/ StopTurn \/ Crash \/ CrashInMerge \/ MergeFails \/ Spoil

Spec == Init /\ [][Next]_vars

(* The clock goes on, an armed timer fires, and what _on_timer awaits ends   *)
(* unless it is silent: AnswerComes of AutomationTurns.  A run by hand, which *)
(* awaits the same, may go on for good.                                      *)
Fairness ==
  /\ WF_vars(Clock) /\ WF_vars(Tick) /\ WF_vars(FinishTick)
  /\ \A j \in UserJobs : WF_vars(BeginRun(j))

FairSpec == Spec /\ Fairness
-----------------------------------------------------------------------------
TypeOK ==
  /\ now \in 0 .. MaxTime /\ (disk = Bad \/ disk \in JobLists) /\ mem \in JobLists
  /\ phase \in {"down", "booted", "up"} /\ timer \in {"dead", "armed", "busy"}
  /\ wake \in 0 .. MaxTime + MaxSleep
  /\ rest \subseteq Jobs \X (1 .. MaxTime) /\ cur \subseteq Jobs \X (1 .. MaxTime)
  /\ adrift \in BOOLEAN /\ silent \in BOOLEAN
  /\ run \in [Jobs -> [st: {"no", "asked", "live", "stale"}, drops: BOOLEAN]]

(* A job somebody was told of (added, or registered at boot) and that nobody *)
(* removed and no run deleted is in jobs.json or waits in the action log, but *)
(* for the two losses of the code: a merge is cut between emptying the log    *)
(* and saving (CrashInMerge, MergeFails), which takes the jobs that only the  *)
(* log had, and jobs.json becomes unreadable, which takes those that it had.  *)
Promised == kept \ lost

NoJobVanishes ==
  \A j \in Promised : \/ disk # Bad /\ j \in DOMAIN disk
                      \/ j \in Added

(* A job that was removed, or deleted after its run, never comes back from   *)
(* the file, the log or the copy a run holds.  (A job is echoed when the file  *)
(* was unreadable at start: the list that register_system_job had merged is   *)
(* saved, the log with its addition stays and is merged once more later.)     *)
GoneStaysGone ==
  \A j \in over \ echoed :
    (disk = Bad \/ j \notin DOMAIN disk) /\ (phase = "up" => j \notin DOMAIN mem)

(* While nobody reschedules the job, the timer does not start a run for a    *)
(* due time it has already run to the end: not after a poll, a run by hand,  *)
(* an edit of another job, a crash or a restart.  (A save that failed may    *)
(* undo what memory had, a second merge of an echoed job its next run.)      *)
RunOncePerDue == [][\A p \in cur' \ cur : p \notin done \/ p[1] \in echoed]_vars

(* A job that is due gets its run, unless it is changed, the gateway goes    *)
(* down, a save failed under the timer, or /stop took the turn of the job the *)
(* timer runs: then the timer, and whatever is due, waits for good.          *)
DueIsRun ==
  \A j \in Jobs, t \in 1 .. MaxTime - MaxSleep :
    (/\ phase = "up" /\ j \in DOMAIN mem /\ mem[j].on /\ mem[j].next = t
     /\ now <= MaxTime - MaxSleep)
      ~> \/ <<j, t>> \in cur \/ phase # "up" \/ timer = "dead" \/ silent
         \/ j \notin DOMAIN mem
         \/ j \in DOMAIN mem /\ (~mem[j].on \/ mem[j].next # t)

(* The docstring of _load_store: "so a transient corruption does not drop    *)
(* live jobs".                                                               *)
CorruptionKeepsJobs ==
  [][(phase = "up" /\ phase' = "up") => DOMAIN mem \ DOMAIN mem' \subseteq over']_vars
=============================================================================

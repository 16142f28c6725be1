------------------------- MODULE CronServiceProofs -------------------------
(***************************************************************************)
(* The jobs of the scheduler, its file and its action log, for any number  *)
(* of jobs, requests and faults: no job that somebody was told of vanishes, *)
(* none that was removed comes back, and the timer runs none twice for one *)
(* due time.                                                               *)
(***************************************************************************)
EXTENDS CronService, WellFoundedInduction, TLAPS

AddLines == [action : {"add"}, job : UserJobs, rec : JobRec]
DelLines == [action : {"del"}, job : UserJobs]

\* The lists of the files; a job that was added once is not added again, so
\* its removal is its last line.
FilesTyped ==
  /\ now \in 0 .. MaxTime /\ (disk = Bad \/ disk \in JobLists) /\ mem \in JobLists
  /\ log \in Seq(AddLines \cup DelLines) /\ faults \in Nat

DelsLast ==
  \A p \in DOMAIN log, q \in DOMAIN log :
    log[p].action = "del" /\ log[q].action = "add" /\ log[p].job = log[q].job => q < p

\* What may be where: file list D, memory M, additions A and removals R of the log,
\* kept k, over o, echoed e, born b.
Books(D, M, A, R, k, o, e, b) ==
  /\ SystemJobs \cup D \cup M \cup A \cup R \cup k \cup o \subseteq b
  /\ A \cup R \cup o \subseteq UserJobs
  /\ k \cap R = {}
  /\ k \subseteq D \cup A
  /\ (o \ e) \cap (D \cup M \cup A) = {}

Told(M, A, k) == k \subseteq M \cup A
Echoing(D, M, A, e) == A \cap (D \cup M) \subseteq e

Asleep ==
  /\ phase \in {"down", "booted", "up"}
  /\ phase # "up" => timer # "busy" /\ \A j \in Jobs : run[j].st = "no"
  /\ DOMAIN run = Jobs

IndInv ==
  /\ FilesTyped /\ DelsLast /\ Asleep
  /\ Books(DOMAIN Listed, DOMAIN mem, Added, Removed, Promised, over, echoed, born)
  /\ phase # "down" => Told(DOMAIN mem, Added, Promised)
  /\ phase = "up" => Echoing(DOMAIN Listed, DOMAIN mem, Added, echoed)

-----------------------------------------------------------------------------
(* Job lists. *)

LEMMA ListIs ==
  ASSUME NEW f
  PROVE  f \in JobLists <=> DOMAIN f \subseteq Jobs /\ f \in [DOMAIN f -> JobRec]
BY DEF JobLists

LEMMA NextRunTyped ==
  ASSUME NEW sched \in 0 .. MaxTime, now \in 0 .. MaxTime
  PROVE  NextRun(sched, now) \in 0 .. MaxTime + Period
BY CronAssumption DEF NextRun

LEMMA NewJobTyped ==
  ASSUME NEW sched \in 0 .. MaxTime, NEW once \in BOOLEAN, now \in 0 .. MaxTime
  PROVE  NewJob(sched, once) \in JobRec
BY NextRunTyped DEF NewJob, JobRec

LEMMA ScheduledTyped ==
  ASSUME NEW rec \in JobRec, now \in 0 .. MaxTime
  PROVE  Scheduled(rec) \in JobRec
<1>1. rec.sched \in 0 .. MaxTime /\ rec.on \in BOOLEAN
  BY DEF JobRec
<1>2. NextRun(rec.sched, now) \in 0 .. MaxTime + Period /\ 0 \in 0 .. MaxTime + Period
  BY <1>1, NextRunTyped, CronAssumption
<1> HIDE DEF NextRun
<1>3. (IF rec.on THEN NextRun(rec.sched, now) ELSE 0) \in 0 .. MaxTime + Period
  BY <1>2
<1> QED
  BY <1>3 DEF Scheduled, JobRec

LEMMA NoJobsTyped == NoJobs \in JobLists /\ DOMAIN NoJobs = {}
BY ListIs DEF NoJobs

LEMMA WithTyped ==
  ASSUME NEW f \in JobLists, NEW j \in Jobs, NEW rec \in JobRec
  PROVE  With(f, j, rec) \in JobLists /\ DOMAIN With(f, j, rec) = DOMAIN f \cup {j}
<1>1. DOMAIN f \subseteq Jobs /\ f \in [DOMAIN f -> JobRec]
  BY ListIs
<1>2. /\ DOMAIN With(f, j, rec) = DOMAIN f \cup {j}
      /\ With(f, j, rec) \in [DOMAIN f \cup {j} -> JobRec]
  BY <1>1 DEF With
<1> QED
  BY <1>1, <1>2, ListIs

LEMMA WithoutTyped ==
  ASSUME NEW f \in JobLists, NEW j
  PROVE  Without(f, j) \in JobLists /\ DOMAIN Without(f, j) = DOMAIN f \ {j}
<1>1. DOMAIN f \subseteq Jobs /\ f \in [DOMAIN f -> JobRec]
  BY ListIs
<1>2. /\ DOMAIN Without(f, j) = DOMAIN f \ {j}
      /\ Without(f, j) \in [DOMAIN f \ {j} -> JobRec]
  BY <1>1 DEF Without
<1> QED
  BY <1>1, <1>2, ListIs

LEMMA EndedTyped ==
  ASSUME NEW f \in JobLists, NEW j, now \in 0 .. MaxTime
  PROVE  /\ Ended(f, j) \in JobLists
         /\ DOMAIN Ended(f, j) \subseteq DOMAIN f
         /\ DOMAIN f \ {j} \subseteq DOMAIN Ended(f, j)
<1>1. DOMAIN f \subseteq Jobs /\ f \in [DOMAIN f -> JobRec]
  BY ListIs
<1>2. CASE j \notin DOMAIN f
  BY <1>2 DEF Ended
<1>3. CASE j \in DOMAIN f /\ DeletesItself(f[j])
  BY <1>3, WithoutTyped DEF Ended
<1>4. CASE j \in DOMAIN f /\ ~DeletesItself(f[j])
  <2> DEFINE r == IF f[j].sched = 0 THEN [f[j] EXCEPT !.next = NextRun(0, now)]
                  ELSE [f[j] EXCEPT !.on = FALSE, !.next = 0]
  <2>1. j \in Jobs /\ f[j] \in JobRec /\ 0 \in 0 .. MaxTime /\ 0 \in 0 .. MaxTime + Period
    BY <1>1, <1>4, CronAssumption
  <2>2. NextRun(0, now) \in 0 .. MaxTime + Period
    BY <2>1, NextRunTyped
  <2>3. r \in JobRec
    BY <2>1, <2>2 DEF JobRec
  <2>4. Ended(f, j) = With(f, j, r)
    BY <1>4 DEF Ended
  <2> HIDE DEF r
  <2>5. With(f, j, r) \in JobLists /\ DOMAIN With(f, j, r) = DOMAIN f \cup {j}
    BY <2>1, <2>3, WithTyped
  <2> QED
    BY <1>4, <2>4, <2>5
<1> QED
  BY <1>2, <1>3, <1>4

-----------------------------------------------------------------------------
(* The action log. *)

LEMMA LeastNumber ==
  ASSUME NEW T, T \subseteq Nat, T # {}
  PROVE  \E m \in T : \A k \in T : m <= k
<1>1. PICK m \in T : \A k \in T : <<k, m>> \notin OpToRel(<, Nat)
  BY WFMin, NatLessThanWellFounded
<1>2. \A k \in T : ~(k < m)
  BY <1>1 DEF OpToRel
<1> QED
  BY <1>2

LEMMA MaxOf ==
  ASSUME NEW n \in Nat, NEW S, S \subseteq 1 .. n, S # {}
  PROVE  Max(S) \in S /\ \A q \in S : q <= Max(S)
<1> DEFINE T == {k \in 0 .. n : \E p \in S : k = n - p}
<1>1. T \subseteq Nat /\ T # {}
  <2>1. PICK p \in S : TRUE
    OBVIOUS
  <2>2. n - p \in T
    BY <2>1
  <2>3. T \subseteq Nat
    OBVIOUS
  <2> HIDE DEF T
  <2> QED
    BY <2>2, <2>3
<1>2. \E m \in T : \A k \in T : m <= k
  <2> HIDE DEF T
  <2> QED
    BY <1>1, LeastNumber
<1>3. PICK p \in S : \A k \in T : n - p <= k
  <2>1. PICK m \in T : \A k \in T : m <= k
    BY <1>2
  <2> QED
    BY <2>1
<1>4. ASSUME NEW q \in S PROVE q <= p
  <2>1. n - q \in T
    OBVIOUS
  <2> QED
    BY <1>3, <2>1
<1>5. \E x \in S : \A y \in S : x >= y
  BY <1>4
<1> QED
  BY <1>5 DEF Max

LEMMA LogLines ==
  ASSUME FilesTyped
  PROVE  /\ Len(log) \in Nat /\ DOMAIN log = 1 .. Len(log)
         /\ \A p \in DOMAIN log : log[p].job \in UserJobs
         /\ \A p \in DOMAIN log : log[p].action = "add" => log[p].rec \in JobRec
         /\ \A p \in DOMAIN log : log[p].action \in {"add", "del"}
<1>1. log \in [1 .. Len(log) -> AddLines \cup DelLines] /\ Len(log) \in Nat
  BY DEF FilesTyped
<1> QED
  BY <1>1 DEF AddLines, DelLines

LEMMA LastLine ==
  ASSUME FilesTyped, NEW j, Lines(j) # {}
  PROVE  /\ Max(Lines(j)) \in DOMAIN log /\ Decides(j).job = j
         /\ Decides(j) = log[Max(Lines(j))]
         /\ \A q \in Lines(j) : q <= Max(Lines(j))
<1>1. Lines(j) \subseteq 1 .. Len(log) /\ Len(log) \in Nat
  BY LogLines DEF Lines
<1>2. Max(Lines(j)) \in Lines(j) /\ \A q \in Lines(j) : q <= Max(Lines(j))
  BY <1>1, MaxOf
<1> QED
  BY <1>2 DEF Lines, Decides

LEMMA PresentIs ==
  ASSUME FilesTyped, DelsLast, NEW j \in Jobs
  PROVE  /\ Present(j) => j \in DOMAIN Listed \cup Added
         /\ j \in (DOMAIN Listed \cup Added) \ Removed => Present(j)
         /\ j \in Removed => ~Present(j)
<1>1. CASE Lines(j) = {}
  BY <1>1 DEF Present, Added, Removed
<1>2. CASE Lines(j) # {}
  <2> DEFINE m == Max(Lines(j))
  <2>1. /\ m \in DOMAIN log /\ log[m].job = j /\ m \in Lines(j)
        /\ \A q \in Lines(j) : q <= m
        /\ Present(j) <=> log[m].action = "add"
    BY <1>2, LastLine DEF Present, Lines
  <2> HIDE DEF m
  <2>2. log[m].action \in {"add", "del"} /\ j \in UserJobs
    BY <2>1, LogLines
  <2>3. log[m].action = "add" => j \in Added
    BY <2>1, <2>2 DEF Added
  <2>4. log[m].action = "del" => j \in Removed
    BY <2>1, <2>2 DEF Removed
  <2>5. ASSUME j \in Removed, log[m].action = "add" PROVE FALSE
    <3>1. PICK p \in Lines(j) : log[p].action = "del"
      BY <2>5 DEF Removed
    <3>2. p \in DOMAIN log /\ log[p].job = j /\ p <= m
      BY <2>1, <3>1 DEF Lines
    <3>3. m < p
      BY <2>1, <2>5, <3>1, <3>2 DEF DelsLast
    <3> QED
      BY <2>1, <3>2, <3>3, LogLines
  <2> QED
    BY <2>1, <2>2, <2>3, <2>4, <2>5
<1> QED
  BY <1>1, <1>2

LEMMA ListedTyped ==
  ASSUME FilesTyped
  PROVE  /\ Listed \in JobLists
         /\ disk # Bad => Listed = disk
         /\ disk = Bad => DOMAIN Listed = {}
BY NoJobsTyped DEF FilesTyped, Listed

LEMMA MergedTyped ==
  ASSUME FilesTyped
  PROVE  /\ Merged.jobs \in JobLists /\ DOMAIN Merged.jobs = {j \in Jobs : Present(j)}
         /\ ~Merged.changed => Added = {}
<1> DEFINE rec(j) == IF Lines(j) = {} THEN Listed[j] ELSE Decides(j).rec
           J == {j \in Jobs : Present(j)}
<1>1. Merged.jobs = [j \in J |-> rec(j)] /\ (~Merged.changed => Added = {})
  BY DEF Merged
<1>2. ASSUME NEW j \in J PROVE rec(j) \in JobRec
  <2>1. CASE Lines(j) = {}
    <3>1. j \in DOMAIN Listed
      BY <2>1 DEF Present
    <3> QED
      BY <2>1, <3>1, ListedTyped, ListIs
  <2>2. CASE Lines(j) # {}
    <3>1. Decides(j).action = "add"
      BY <2>2 DEF Present
    <3> QED
      BY <2>2, <3>1, LastLine, LogLines
  <2> QED
    BY <2>1, <2>2
<1> HIDE DEF rec
<1>3. Merged.jobs \in [J -> JobRec] /\ DOMAIN Merged.jobs = J
  BY <1>1, <1>2
<1>4. J \subseteq Jobs
  OBVIOUS
<1> QED
  BY <1>1, <1>3, <1>4, ListIs

-----------------------------------------------------------------------------
(* Reading the files. *)

\* What a reading leaves in the file and in the log, and what it found removed.
FileOf(l) == IF l.disk = Bad THEN {} ELSE DOMAIN l.disk
AddedIn(l) == IF l.log = log THEN Added ELSE {}
RemovedIn(l) == IF l.log = log THEN Removed ELSE {}
OverBy(l) == over \cup IF l.log = log THEN {} ELSE Removed

LoadedBooks(l) ==
  Books(FileOf(l), DOMAIN l.mem, AddedIn(l), RemovedIn(l), Promised, OverBy(l), echoed, born)

LEMMA LoadTyped ==
  ASSUME FilesTyped, NEW b \in BOOLEAN
  PROVE  /\ Load(b).mem \in JobLists
         /\ Load(b).disk = Bad \/ Load(b).disk \in JobLists
         /\ Load(b).log \in {log, <<>>}
<1>1. mem \in JobLists /\ (disk = Bad \/ disk \in JobLists)
  BY DEF FilesTyped
<1>2. Merged.jobs \in JobLists /\ NoJobs \in JobLists
  BY MergedTyped, NoJobsTyped
<1> HIDE DEF Merged, NoJobs
<1> QED
  BY <1>1, <1>2 DEF Load

\* The books stay in order when the files are read, merged or not.
LEMMA LoadKeepsBooks ==
  ASSUME IndInv, NEW b \in BOOLEAN
  PROVE  /\ LoadedBooks(Load(b))
         /\ phase # "down" \/ (timer # "busy" /\ disk # Bad) =>
              Told(DOMAIN Load(b).mem, AddedIn(Load(b)), Promised)
         /\ b /\ (phase = "up" \/ (timer # "busy" /\ disk # Bad)) =>
              Echoing(FileOf(Load(b)), DOMAIN Load(b).mem, AddedIn(Load(b)), echoed)
<1> DEFINE l == Load(b)
<1>0. /\ FilesTyped /\ DelsLast
      /\ Books(DOMAIN Listed, DOMAIN mem, Added, Removed, Promised, over, echoed, born)
      /\ phase # "down" => Told(DOMAIN mem, Added, Promised)
      /\ phase = "up" => Echoing(DOMAIN Listed, DOMAIN mem, Added, echoed)
  BY DEF IndInv
<1>1. /\ DOMAIN Merged.jobs = {j \in Jobs : Present(j)}
      /\ ~Merged.changed => Added = {}
  BY <1>0, MergedTyped
<1>2. /\ DOMAIN Merged.jobs \subseteq (DOMAIN Listed \cup Added) \ Removed
      /\ Jobs \cap ((DOMAIN Listed \cup Added) \ Removed) \subseteq DOMAIN Merged.jobs
  BY <1>0, <1>1, PresentIs
<1>3. DOMAIN Listed \cup Added \subseteq Jobs
  BY <1>0, ListedTyped, ListIs DEF Books, Jobs
<1>4. DOMAIN NoJobs = {} /\ NoJobs # Bad /\ Merged.jobs # Bad
  BY <1>0, NoJobsTyped, MergedTyped, CronAssumption
<1>5. DOMAIN Listed = IF disk = Bad THEN {} ELSE DOMAIN disk
  BY <1>4 DEF Listed
<1> DEFINE P == DOMAIN Merged.jobs
<1>6. \/ \* as it is
         /\ timer = "busy" \/ disk = Bad
         /\ DOMAIN l.mem = DOMAIN mem /\ FileOf(l) = DOMAIN Listed
         /\ AddedIn(l) = Added /\ RemovedIn(l) = Removed /\ OverBy(l) = over
      \/ \* merged and emptied
         /\ DOMAIN l.mem = P /\ FileOf(l) = P
         /\ \/ AddedIn(l) = {} /\ RemovedIn(l) = {} /\ OverBy(l) = over \cup Removed
            \/ /\ AddedIn(l) = Added /\ RemovedIn(l) = Removed /\ OverBy(l) = over
               /\ Added = {}
      \/ \* merged in memory
         /\ ~b \/ Added = {}
         /\ DOMAIN l.mem = P /\ FileOf(l) = DOMAIN Listed
         /\ AddedIn(l) = Added /\ RemovedIn(l) = Removed /\ OverBy(l) = over
  <2>1. CASE timer = "busy"
    BY <1>5, <2>1 DEF Load, FileOf, AddedIn, RemovedIn, OverBy
  <2>2. CASE timer # "busy" /\ disk = Bad
    BY <1>4, <1>5, <2>2 DEF Load, FileOf, AddedIn, RemovedIn, OverBy
  <2>3. CASE timer # "busy" /\ disk # Bad /\ b /\ Merged.changed
    <3>1. l.mem = Merged.jobs /\ l.disk = Merged.jobs /\ l.log = <<>>
      BY <2>3 DEF Load
    <3>2. log = <<>> => Added = {} /\ Removed = {}
      BY DEF Added, Removed, Lines
    <3> QED
      BY <1>4, <3>1, <3>2 DEF FileOf, AddedIn, RemovedIn, OverBy
  <2>4. CASE timer # "busy" /\ disk # Bad /\ ~(b /\ Merged.changed)
    <3>1. l.mem = Merged.jobs /\ l.disk = disk /\ l.log = log
      BY <2>4 DEF Load
    <3> QED
      BY <1>1, <1>5, <2>4, <3>1 DEF FileOf, AddedIn, RemovedIn, OverBy
  <2> QED
    BY <2>1, <2>2, <2>3, <2>4
<1> HIDE DEF l, P
<1>7. /\ P \subseteq (DOMAIN Listed \cup Added) \ Removed
      /\ (DOMAIN Listed \cup Added) \ Removed \subseteq P
  BY <1>2, <1>3 DEF P
<1>8. LoadedBooks(l)
  BY <1>0, <1>6, <1>7 DEF LoadedBooks, Books
<1>9. phase # "down" \/ (timer # "busy" /\ disk # Bad) =>
        Told(DOMAIN l.mem, AddedIn(l), Promised)
  BY <1>0, <1>6, <1>7 DEF Books, Told
<1>10. b /\ (phase = "up" \/ (timer # "busy" /\ disk # Bad)) =>
         Echoing(FileOf(l), DOMAIN l.mem, AddedIn(l), echoed)
  BY <1>0, <1>6, <1>7 DEF Books, Echoing
<1> QED
  BY <1>8, <1>9, <1>10 DEF l

-----------------------------------------------------------------------------
(* The steps. *)

LEMMA LogAfter ==
  ASSUME FilesTyped, DelsLast, log' \in {log, <<>>}
  PROVE  /\ Added' = (IF log' = log THEN Added ELSE {})
         /\ Removed' = (IF log' = log THEN Removed ELSE {})
         /\ DelsLast' /\ log' \in Seq(AddLines \cup DelLines)
<1>1. CASE log' = log
  BY <1>1 DEF FilesTyped, Added, Removed, Lines, DelsLast
<1>2. CASE log' # log
  <2>0. Len(<<>>) = 0 /\ <<>> \in Seq(AddLines \cup DelLines) /\ DOMAIN <<>> = {}
    OBVIOUS
  <2>1. log' = <<>> /\ DOMAIN log' = {} /\ log' \in Seq(AddLines \cup DelLines)
    BY <1>2, <2>0
  <2>2. Added' = {} /\ Removed' = {}
    BY <2>1 DEF Added, Removed, Lines
  <2>3. DelsLast'
    BY <2>1 DEF DelsLast
  <2> QED
    BY <1>2, <2>1, <2>2, <2>3
<1> QED
  BY <1>1, <1>2

LEMMA ListedAfter ==
  ASSUME disk' = Bad \/ disk' \in JobLists
  PROVE  DOMAIN Listed' = IF disk' = Bad THEN {} ELSE DOMAIN disk'
BY NoJobsTyped DEF Listed

\* What a step has to show that leaves the log alone or empties it.
LEMMA Stored ==
  ASSUME IndInv, log' \in {log, <<>>}, now' \in 0 .. MaxTime, mem' \in JobLists,
         faults' \in {faults, faults + 1},
         disk' = Bad \/ disk' \in JobLists, Asleep',
         NEW D, NEW A, NEW R,
         D = IF disk' = Bad THEN {} ELSE DOMAIN disk',
         A = IF log' = log THEN Added ELSE {},
         R = IF log' = log THEN Removed ELSE {},
         Books(D, DOMAIN mem', A, R, Promised', over', echoed', born'),
         phase' # "down" => Told(DOMAIN mem', A, Promised'),
         phase' = "up" => Echoing(D, DOMAIN mem', A, echoed')
  PROVE  IndInv'
<1>1. FilesTyped /\ DelsLast
  BY DEF IndInv
<1>2. Added' = A /\ Removed' = R /\ DelsLast' /\ log' \in Seq(AddLines \cup DelLines)
  BY <1>1, LogAfter
<1>3. DOMAIN Listed' = D
  BY ListedAfter
<1>4. FilesTyped'
  BY <1>1, <1>2 DEF FilesTyped
<1> QED
  BY <1>2, <1>3, <1>4 DEF IndInv

\* The same of a call that has read the files.
LEMMA Called ==
  ASSUME IndInv, NEW b \in BOOLEAN, NEW l, l = Load(b), log' = l.log,
         now' = now, faults' \in {faults, faults + 1}, mem' \in JobLists,
         disk' = Bad \/ disk' \in JobLists, Asleep',
         NEW D, D = IF disk' = Bad THEN {} ELSE DOMAIN disk',
         Books(D, DOMAIN mem', AddedIn(l), RemovedIn(l), Promised', over', echoed', born'),
         phase' # "down" => Told(DOMAIN mem', AddedIn(l), Promised'),
         phase' = "up" => Echoing(D, DOMAIN mem', AddedIn(l), echoed')
  PROVE  IndInv'
<1>1. FilesTyped /\ log' \in {log, <<>>} /\ now' \in 0 .. MaxTime
  BY LoadTyped DEF IndInv, FilesTyped
<1>2. /\ AddedIn(l) = IF log' = log THEN Added ELSE {}
      /\ RemovedIn(l) = IF log' = log THEN Removed ELSE {}
  BY DEF AddedIn, RemovedIn
<1> QED
  BY <1>1, <1>2, Stored

\* A call that changes no job: its list may be saved.
LEMMA ReadOnly ==
  ASSUME IndInv, phase = "up", NEW l, l = Load(TRUE), Read(l, l.mem, {}),
         disk' \in {l.disk, l.mem}, faults' \in {faults, faults + 1},
         UNCHANGED <<now, phase, born, Promised, echoed>>, Asleep'
  PROVE  IndInv'
<1>1. /\ l.mem \in JobLists /\ (l.disk = Bad \/ l.disk \in JobLists)
      /\ LoadedBooks(l) /\ Told(DOMAIN l.mem, AddedIn(l), Promised)
      /\ Echoing(FileOf(l), DOMAIN l.mem, AddedIn(l), echoed)
  BY LoadTyped, LoadKeepsBooks DEF IndInv
<1>2. mem' = l.mem /\ log' = l.log /\ over' = OverBy(l)
  BY DEF Read, OverBy
<1> DEFINE D == IF disk' = Bad THEN {} ELSE DOMAIN disk'
<1>3. D \in {FileOf(l), DOMAIN l.mem}
  BY <1>1, CronAssumption DEF FileOf
<1> HIDE DEF D
<1>4. Books(D, DOMAIN mem', AddedIn(l), RemovedIn(l), Promised', over', echoed', born')
  BY <1>1, <1>2, <1>3 DEF LoadedBooks, Books, Told
<1>5. Told(DOMAIN mem', AddedIn(l), Promised') /\ Echoing(D, DOMAIN mem', AddedIn(l), echoed')
  BY <1>1, <1>2, <1>3 DEF Told, Echoing
<1>6. disk' = Bad \/ disk' \in JobLists
  BY <1>1
<1> QED
  BY <1>1, <1>2, <1>4, <1>5, <1>6, Called DEF D

LEMMA AwakeAfter ==
  ASSUME IndInv, phase = "up", UNCHANGED phase, DOMAIN run' = Jobs
  PROVE  Asleep'
BY DEF IndInv, Asleep

LEMMA HoldingOfJobs ==
  ASSUME NEW fresh, NEW list
  PROVE  DOMAIN Holding(fresh, list) = Jobs
BY DEF Holding

LEMMA PollKeeps ==
  ASSUME IndInv, Poll
  PROVE  IndInv'
<1> DEFINE l == Load(TRUE)
<1>1. /\ phase = "up" /\ Read(l, l.mem, {}) /\ disk' = l.disk
      /\ run' = Holding(l.fresh, l.mem) /\ UNCHANGED <<now, phase, born, Promised, echoed>>
      /\ faults' \in {faults, faults + 1}
  BY DEF Poll, Loaded, Promised
<1>2. Asleep'
  BY <1>1, AwakeAfter, HoldingOfJobs
<1> QED
  BY <1>1, <1>2, ReadOnly

LEMMA TickKeeps ==
  ASSUME IndInv, Tick
  PROVE  IndInv'
<1> DEFINE l == Load(TRUE)
<1>1. /\ phase = "up" /\ Read(l, l.mem, {}) /\ disk' \in {l.disk, l.mem}
      /\ run' = Holding(l.fresh, l.mem) /\ UNCHANGED <<now, phase, born, Promised, echoed>>
      /\ faults' \in {faults, faults + 1}
  BY DEF Tick, Loaded, Fault, Promised
<1>2. Asleep'
  BY <1>1, AwakeAfter, HoldingOfJobs
<1> QED
  BY <1>1, <1>2, ReadOnly

LEMMA RequestRunKeeps ==
  ASSUME IndInv, NEW j \in UserJobs, RequestRun(j)
  PROVE  IndInv'
<1> DEFINE l == Load(TRUE)
<1>1. /\ phase = "up" /\ Read(l, l.mem, {}) /\ disk' = l.disk
      /\ run' = [Holding(l.fresh, l.mem) EXCEPT ![j].st = "asked"]
      /\ UNCHANGED <<now, phase, born, Promised, echoed>>
      /\ faults' \in {faults, faults + 1}
  BY DEF RequestRun, Promised
<1>2. Asleep'
  <2>1. DOMAIN run' = DOMAIN Holding(l.fresh, l.mem)
    BY <1>1 DEF Holding
  <2> QED
    BY <1>1, <2>1, AwakeAfter, HoldingOfJobs
<1> QED
  BY <1>1, <1>2, ReadOnly

LEMMA BeginRunKeeps ==
  ASSUME IndInv, NEW j \in UserJobs, BeginRun(j)
  PROVE  IndInv'
<1> DEFINE l == Load(TRUE)
<1>1. /\ run[j].st = "asked" /\ Read(l, l.mem, {}) /\ disk' = l.disk
      /\ \/ run' = [Holding(l.fresh, l.mem) EXCEPT ![j].st = "live"]
         \/ run' = [Holding(l.fresh, l.mem) EXCEPT ![j] = NoRun]
      /\ UNCHANGED <<now, phase, born, Promised, echoed>>
      /\ faults' \in {faults, faults + 1}
  BY DEF BeginRun, Promised
<1>2. phase = "up"
  BY <1>1 DEF IndInv, Asleep, Jobs
<1>3. Asleep'
  <2>1. DOMAIN run' = DOMAIN Holding(l.fresh, l.mem)
    BY <1>1 DEF Holding
  <2> QED
    BY <1>1, <1>2, <2>1, AwakeAfter, HoldingOfJobs
<1> QED
  BY <1>1, <1>2, <1>3, ReadOnly

\* A call that changes a job, saved or not.
LEMMA ChangedFacts ==
  ASSUME IndInv, phase = "up", NEW l, l = Load(TRUE), NEW m \in JobLists, NEW gone,
         Changed(l, m, gone), UNCHANGED phase
  PROVE  /\ mem' = m /\ log' = l.log /\ Asleep'
         /\ disk' = Bad \/ disk' \in JobLists
         /\ \/ /\ (IF disk' = Bad THEN {} ELSE DOMAIN disk') = DOMAIN m
               /\ over' = OverBy(l) \cup gone /\ faults' = faults
            \/ /\ (IF disk' = Bad THEN {} ELSE DOMAIN disk') = FileOf(l)
               /\ over' = OverBy(l) /\ faults' = faults + 1 /\ faults' # faults
<1>1. /\ mem' = m /\ log' = l.log /\ run' = Holding(l.fresh, m)
      /\ \/ disk' = m /\ over' = OverBy(l) \cup gone /\ faults' = faults
         \/ disk' = l.disk /\ over' = OverBy(l) /\ faults' = faults + 1
  BY DEF Changed, Loaded, Read, OverBy, Fault
<1>2. Asleep'
  BY <1>1, AwakeAfter, HoldingOfJobs
<1>3. l.disk = Bad \/ l.disk \in JobLists
  BY LoadTyped DEF IndInv
<1>4. CASE disk' = m /\ over' = OverBy(l) \cup gone /\ faults' = faults
  BY <1>1, <1>2, <1>4, CronAssumption
<1>5. CASE disk' = l.disk /\ over' = OverBy(l) /\ faults' = faults + 1
  <2>1. faults' # faults
    BY <1>5 DEF IndInv, FilesTyped
  <2> QED
    BY <1>1, <1>2, <1>3, <1>5, <2>1 DEF FileOf
<1> QED
  BY <1>1, <1>4, <1>5

LEMMA AddJobKeeps ==
  ASSUME IndInv, NEW j \in UserJobs, NEW s \in Schedules, NEW once \in BOOLEAN,
         AddJob(j, s, once)
  PROVE  IndInv'
<1> DEFINE l == Load(TRUE)
           m == With(l.mem, j, NewJob(s, once))
           D == IF disk' = Bad THEN {} ELSE DOMAIN disk'
<1>1. /\ phase = "up" /\ j \notin born /\ Changed(l, m, {})
      /\ born' = born \cup {j}
      /\ Promised' \subseteq IF faults' = faults THEN Promised \cup {j} ELSE Promised
      /\ UNCHANGED <<now, phase, echoed>>
  BY DEF AddJob, Promised
<1>2. /\ l.mem \in JobLists /\ LoadedBooks(l) /\ Told(DOMAIN l.mem, AddedIn(l), Promised)
      /\ Echoing(FileOf(l), DOMAIN l.mem, AddedIn(l), echoed)
  BY <1>1, LoadTyped, LoadKeepsBooks DEF IndInv
<1>3. m \in JobLists /\ DOMAIN m = DOMAIN l.mem \cup {j}
  <2>1. now \in 0 .. MaxTime /\ s \in 0 .. MaxTime
    BY DEF IndInv, FilesTyped, Schedules
  <2>2. NewJob(s, once) \in JobRec /\ j \in Jobs
    BY <2>1, NewJobTyped DEF Jobs
  <2> HIDE DEF l
  <2> QED
    BY <1>2, <2>2, WithTyped
<1>4. /\ mem' = m /\ log' = l.log /\ Asleep' /\ (disk' = Bad \/ disk' \in JobLists)
      /\ over' = OverBy(l) /\ faults' \in {faults, faults + 1}
      /\ \/ D = DOMAIN m /\ Promised' \subseteq Promised \cup {j}
         \/ D = FileOf(l) /\ Promised' \subseteq Promised
  <2> HIDE DEF m
  <2>1. /\ mem' = m /\ log' = l.log /\ Asleep' /\ (disk' = Bad \/ disk' \in JobLists)
        /\ \/ D = DOMAIN m /\ over' = OverBy(l) \cup {} /\ faults' = faults
           \/ D = FileOf(l) /\ over' = OverBy(l) /\ faults' = faults + 1 /\ faults' # faults
    BY <1>1, <1>3, ChangedFacts
  <2> HIDE DEF l, D
  <2> QED
    BY <1>1, <2>1
<1> HIDE DEF l, m, D
<1>5. Books(D, DOMAIN mem', AddedIn(l), RemovedIn(l), Promised', over', echoed', born')
  BY <1>1, <1>2, <1>3, <1>4 DEF LoadedBooks, Books, Told
<1>6. Told(DOMAIN mem', AddedIn(l), Promised') /\ Echoing(D, DOMAIN mem', AddedIn(l), echoed')
  BY <1>1, <1>2, <1>3, <1>4 DEF LoadedBooks, Books, Told, Echoing
<1> QED
  BY <1>1, <1>3, <1>4, <1>5, <1>6, Called DEF l, D

LEMMA RemoveJobKeeps ==
  ASSUME IndInv, NEW j \in UserJobs, RemoveJob(j)
  PROVE  IndInv'
<1> DEFINE l == Load(TRUE)
           m == Without(l.mem, j)
           D == IF disk' = Bad THEN {} ELSE DOMAIN disk'
<1>1. /\ phase = "up" /\ j \in DOMAIN l.mem /\ Changed(l, m, {j})
      /\ Promised' = Promised \ {j} /\ UNCHANGED <<now, phase, born, echoed>>
  BY DEF RemoveJob, Promised
<1>2. /\ l.mem \in JobLists /\ LoadedBooks(l) /\ Told(DOMAIN l.mem, AddedIn(l), Promised)
      /\ Echoing(FileOf(l), DOMAIN l.mem, AddedIn(l), echoed)
  BY <1>1, LoadTyped, LoadKeepsBooks DEF IndInv
<1>3. m \in JobLists /\ DOMAIN m = DOMAIN l.mem \ {j}
  <2> HIDE DEF l
  <2> QED
    BY <1>2, WithoutTyped
<1>4. /\ mem' = m /\ log' = l.log /\ Asleep' /\ (disk' = Bad \/ disk' \in JobLists)
      /\ faults' \in {faults, faults + 1}
      /\ \/ D = DOMAIN m /\ over' = OverBy(l) \cup {j}
         \/ D = FileOf(l) /\ over' = OverBy(l)
  <2> HIDE DEF m
  <2> QED
    BY <1>1, <1>3, ChangedFacts
<1> HIDE DEF l, m, D
<1>5. Books(D, DOMAIN mem', AddedIn(l), RemovedIn(l), Promised', over', echoed', born')
  BY <1>1, <1>2, <1>3, <1>4 DEF LoadedBooks, Books, Told, Echoing
<1>6. Told(DOMAIN mem', AddedIn(l), Promised') /\ Echoing(D, DOMAIN mem', AddedIn(l), echoed')
  BY <1>1, <1>2, <1>3, <1>4 DEF Told, Echoing
<1> QED
  BY <1>1, <1>3, <1>4, <1>5, <1>6, Called DEF l, D

\* A job of the list is changed and stays.
LEMMA RewriteKeeps ==
  ASSUME IndInv, phase = "up", NEW l, l = Load(TRUE), NEW j \in Jobs,
         j \in DOMAIN l.mem, NEW rec \in JobRec, Changed(l, With(l.mem, j, rec), {}),
         UNCHANGED <<now, phase, born, Promised, echoed>>
  PROVE  IndInv'
<1> DEFINE m == With(l.mem, j, rec)
           D == IF disk' = Bad THEN {} ELSE DOMAIN disk'
<1>2. /\ l.mem \in JobLists /\ LoadedBooks(l) /\ Told(DOMAIN l.mem, AddedIn(l), Promised)
      /\ Echoing(FileOf(l), DOMAIN l.mem, AddedIn(l), echoed)
  BY LoadTyped, LoadKeepsBooks DEF IndInv
<1>3. m \in JobLists /\ DOMAIN m = DOMAIN l.mem
  <2>1. m \in JobLists /\ DOMAIN m = DOMAIN l.mem \cup {j}
    BY <1>2, WithTyped
  <2> HIDE DEF m
  <2> QED
    BY <2>1
<1>0. Changed(l, m, {})
  OBVIOUS
<1> HIDE DEF m
<1>4. /\ mem' = m /\ log' = l.log /\ Asleep' /\ (disk' = Bad \/ disk' \in JobLists)
      /\ faults' \in {faults, faults + 1} /\ over' = OverBy(l)
      /\ D = DOMAIN m \/ D = FileOf(l)
  <2>1. /\ mem' = m /\ log' = l.log /\ Asleep' /\ (disk' = Bad \/ disk' \in JobLists)
        /\ \/ D = DOMAIN m /\ over' = OverBy(l) \cup {} /\ faults' = faults
           \/ D = FileOf(l) /\ over' = OverBy(l) /\ faults' = faults + 1
    BY <1>0, <1>3, ChangedFacts
  <2> HIDE DEF D
  <2> QED
    BY <2>1
<1> HIDE DEF D
<1>5. Books(D, DOMAIN mem', AddedIn(l), RemovedIn(l), Promised', over', echoed', born')
  BY <1>2, <1>3, <1>4 DEF LoadedBooks, Books, Told
<1>6. Told(DOMAIN mem', AddedIn(l), Promised') /\ Echoing(D, DOMAIN mem', AddedIn(l), echoed')
  BY <1>2, <1>3, <1>4 DEF Told, Echoing
<1> QED
  BY <1>3, <1>4, <1>5, <1>6, Called DEF D

LEMMA EnableJobKeeps ==
  ASSUME IndInv, NEW j \in UserJobs, NEW on \in BOOLEAN, EnableJob(j, on)
  PROVE  IndInv'
<1> DEFINE l == Load(TRUE)
           old == [l.mem[j] EXCEPT !.on = on]
<1>1. /\ phase = "up" /\ j \in DOMAIN l.mem
      /\ Changed(l, With(l.mem, j, Scheduled(old)), {})
      /\ UNCHANGED <<now, phase, born, Promised, echoed>>
  BY DEF EnableJob, Promised
<1>2. l.mem \in JobLists /\ now \in 0 .. MaxTime
  BY LoadTyped DEF IndInv, FilesTyped
<1> HIDE DEF l
<1>3. old \in JobRec
  <2>1. l.mem[j] \in JobRec
    BY <1>1, <1>2, ListIs
  <2> QED
    BY <2>1 DEF JobRec
<1> HIDE DEF old
<1>4. Scheduled(old) \in JobRec
  BY <1>2, <1>3, ScheduledTyped
<1> QED
  BY <1>1, <1>4, RewriteKeeps DEF l, Jobs

LEMMA UpdateJobKeeps ==
  ASSUME IndInv, NEW j \in UserJobs, NEW s \in Schedules, NEW once \in BOOLEAN,
         UpdateJob(j, s, once)
  PROVE  IndInv'
<1> DEFINE l == Load(TRUE)
           old == [l.mem[j] EXCEPT !.sched = s, !.once = once]
<1>1. /\ phase = "up" /\ j \in DOMAIN l.mem
      /\ Changed(l, With(l.mem, j, Scheduled(old)), {})
      /\ UNCHANGED <<now, phase, born, Promised, echoed>>
  BY DEF UpdateJob, Promised
<1>2. l.mem \in JobLists /\ now \in 0 .. MaxTime /\ s \in 0 .. MaxTime
  BY LoadTyped DEF IndInv, FilesTyped, Schedules
<1> HIDE DEF l
<1>3. old \in JobRec
  <2>1. l.mem[j] \in JobRec
    BY <1>1, <1>2, ListIs
  <2> QED
    BY <1>2, <2>1 DEF JobRec
<1> HIDE DEF old
<1>4. Scheduled(old) \in JobRec
  BY <1>2, <1>3, ScheduledTyped
<1> QED
  BY <1>1, <1>4, RewriteKeeps DEF l, Jobs

LEMMA UntoldLists ==
  ASSUME IndInv
  PROVE  /\ mem \in JobLists /\ (disk = Bad \/ disk \in JobLists) /\ now \in 0 .. MaxTime
         /\ DOMAIN Listed = IF disk = Bad THEN {} ELSE DOMAIN disk
         /\ Books(DOMAIN Listed, DOMAIN mem, Added, Removed, Promised, over, echoed, born)
         /\ phase # "down" => Told(DOMAIN mem, Added, Promised)
         /\ phase = "up" => Echoing(DOMAIN Listed, DOMAIN mem, Added, echoed)
BY NoJobsTyped DEF IndInv, FilesTyped, Listed

LEMMA FinishTickKeeps ==
  ASSUME IndInv, FinishTick
  PROVE  IndInv'
<1>1. PICK p \in cur :
        LET m == IF adrift THEN mem ELSE Ended(mem, p[1])
        IN /\ mem' = m /\ Promised' = Promised \ (DOMAIN mem \ DOMAIN m)
           /\ run' = Holding(FALSE, m)
           /\ \/ disk' = disk /\ over' = over
              \/ disk' = m /\ over' = over \cup ((UserJobs \cap DOMAIN Listed) \ DOMAIN m)
           /\ faults' \in {faults, faults + 1}
  BY DEF FinishTick, Fault, Promised
<1> DEFINE m == IF adrift THEN mem ELSE Ended(mem, p[1])
           D == IF disk' = Bad THEN {} ELSE DOMAIN disk'
<1>2. timer = "busy" /\ UNCHANGED <<now, log, phase, born, echoed>>
  BY DEF FinishTick
<1>3. phase = "up"
  BY <1>2 DEF IndInv, Asleep
<1>4. m \in JobLists /\ DOMAIN m \subseteq DOMAIN mem
  <2>1. Ended(mem, p[1]) \in JobLists /\ DOMAIN Ended(mem, p[1]) \subseteq DOMAIN mem
    BY UntoldLists, EndedTyped
  <2> QED
    BY <2>1, UntoldLists
<1>5. Asleep'
  BY <1>1, <1>2, <1>3, AwakeAfter, HoldingOfJobs
<1> HIDE DEF m
<1>6. /\ mem' = m /\ Promised' = Promised \ (DOMAIN mem \ DOMAIN m)
      /\ \/ D = DOMAIN Listed /\ over' = over
         \/ D = DOMAIN m /\ over' = over \cup ((UserJobs \cap DOMAIN Listed) \ DOMAIN m)
      /\ disk' = Bad \/ disk' \in JobLists
  BY <1>1, <1>4, UntoldLists, CronAssumption DEF m
<1> HIDE DEF D
<1>7. Books(D, DOMAIN mem', Added, Removed, Promised', over', echoed', born')
  BY <1>2, <1>3, <1>4, <1>6, UntoldLists DEF Books, Told, Echoing
<1>8. Told(DOMAIN mem', Added, Promised') /\ Echoing(D, DOMAIN mem', Added, echoed')
  BY <1>2, <1>3, <1>4, <1>6, UntoldLists DEF Told, Echoing
<1>9. log' \in {log, <<>>} /\ now' \in 0 .. MaxTime /\ faults' \in {faults, faults + 1}
  BY <1>1, <1>2, UntoldLists
<1> QED
  BY <1>2, <1>4, <1>5, <1>6, <1>7, <1>8, <1>9, Stored DEF D

LEMMA FinishRunKeeps ==
  ASSUME IndInv, NEW j \in UserJobs, FinishRun(j)
  PROVE  IndInv'
<1> DEFINE m == CASE run[j].st = "live" -> Ended(mem, j)
                  [] run[j].drops -> Without(mem, j)
                  [] OTHER -> mem
           D == IF disk' = Bad THEN {} ELSE DOMAIN disk'
           gone == DOMAIN mem \ DOMAIN m
<1>1. /\ run[j].st \in {"live", "stale"} /\ mem' = m /\ Promised' = Promised \ gone
      /\ run' = [Holding(FALSE, m) EXCEPT ![j] = NoRun]
      /\ \/ disk' = m /\ over' = over \cup gone
         \/ disk' = disk /\ over' = over
      /\ faults' \in {faults, faults + 1}
      /\ UNCHANGED <<now, log, phase, born, echoed>>
  BY DEF FinishRun, Fault, Promised
<1>3. phase = "up"
  BY <1>1 DEF IndInv, Asleep, Jobs
<1>4. m \in JobLists /\ gone \subseteq {j} /\ DOMAIN m \subseteq DOMAIN mem
  <2>1. /\ Ended(mem, j) \in JobLists /\ DOMAIN Ended(mem, j) \subseteq DOMAIN mem
        /\ DOMAIN mem \ {j} \subseteq DOMAIN Ended(mem, j)
    BY UntoldLists, EndedTyped
  <2>2. Without(mem, j) \in JobLists /\ DOMAIN Without(mem, j) = DOMAIN mem \ {j}
    BY UntoldLists, WithoutTyped
  <2>3. m \in {Ended(mem, j), Without(mem, j), mem}
    OBVIOUS
  <2> HIDE DEF m
  <2> QED
    BY <2>1, <2>2, <2>3, UntoldLists
<1>5. Asleep'
  <2>1. DOMAIN run' = DOMAIN Holding(FALSE, m)
    BY <1>1 DEF Holding
  <2> QED
    BY <1>1, <1>3, <2>1, AwakeAfter, HoldingOfJobs
<1> HIDE DEF m
<1>6. /\ mem' = m /\ Promised' = Promised \ gone
      /\ \/ D = DOMAIN Listed /\ over' = over
         \/ D = DOMAIN m /\ over' = over \cup gone
      /\ disk' = Bad \/ disk' \in JobLists
  BY <1>1, <1>4, UntoldLists, CronAssumption
<1>9. log' \in {log, <<>>} /\ now' \in 0 .. MaxTime
  BY <1>1, UntoldLists
<1> HIDE DEF D
<1>7. Books(D, DOMAIN mem', Added, Removed, Promised', over', echoed', born')
  BY <1>1, <1>3, <1>4, <1>6, UntoldLists DEF Books, Told, Echoing
<1>8. Told(DOMAIN mem', Added, Promised') /\ Echoing(D, DOMAIN mem', Added, echoed')
  BY <1>1, <1>3, <1>4, <1>6, UntoldLists DEF Told, Echoing
<1> QED
  BY <1>1, <1>4, <1>5, <1>6, <1>7, <1>8, <1>9, Stored DEF D

\* No run is held at boot.
LEMMA NothingHeld ==
  ASSUME IndInv, phase # "up", NEW fresh, NEW list, NEW j \in Jobs
  PROVE  Holding(fresh, list)[j].st = "no"
BY DEF IndInv, Asleep, Holding

LEMMA RegisterKeeps ==
  ASSUME IndInv, Register
  PROVE  IndInv'
<1> DEFINE l == Load(FALSE)
           new == [sched |-> 0, on |-> TRUE, once |-> FALSE, next |-> NextRun(0, now)]
           m == [j \in DOMAIN l.mem \cup SystemJobs |->
                   IF j \in SystemJobs THEN new ELSE l.mem[j]]
<1>1. phase = "down" /\ timer # "busy" /\ UNCHANGED <<now, born, faults>>
  BY DEF Register, IndInv, Asleep
<1>2. CASE disk = Bad
  <2>1. disk' = NoJobs /\ UNCHANGED <<log, phase, mem, tick, run, ghosts>>
    BY <1>2 DEF Register
  <2>2. Asleep'
    BY <2>1 DEF IndInv, Asleep, tick
  <2>3. /\ disk' \in JobLists /\ DOMAIN Listed = {}
        /\ {} = IF disk' = Bad THEN {} ELSE DOMAIN disk'
    BY <1>2, <2>1, NoJobsTyped, UntoldLists
  <2>4. Books({}, DOMAIN mem', Added, Removed, Promised', over', echoed', born')
    BY <1>1, <2>1, <2>3, UntoldLists DEF ghosts, Promised
  <2>5. log' \in {log, <<>>} /\ now' \in 0 .. MaxTime /\ mem' \in JobLists
    BY <1>1, <2>1, UntoldLists
  <2> QED
    BY <1>1, <2>1, <2>2, <2>3, <2>4, <2>5, Stored
<1>3. CASE disk # Bad
  <2>1. /\ Loaded(l, m, {}) /\ disk' = m /\ phase' = "booted"
        /\ Promised' \subseteq Promised \cup SystemJobs /\ UNCHANGED <<tick, echoed>>
    BY <1>3 DEF Register, Promised
  <2>2. /\ l.mem \in JobLists /\ LoadedBooks(l) /\ Told(DOMAIN l.mem, AddedIn(l), Promised)
    BY <1>1, <1>3, LoadTyped, LoadKeepsBooks DEF IndInv
  <2>3. new \in JobRec
    <3>1. now \in 0 .. MaxTime /\ 0 \in 0 .. MaxTime
      BY UntoldLists, CronAssumption
    <3>2. NextRun(0, now) \in 0 .. MaxTime + Period
      BY <3>1, NextRunTyped
    <3> QED
      BY <3>1, <3>2 DEF JobRec
  <2> HIDE DEF new
  <2>4. m \in JobLists /\ DOMAIN m = DOMAIN l.mem \cup SystemJobs
    <3> HIDE DEF l
    <3>1. DOMAIN l.mem \subseteq Jobs /\ l.mem \in [DOMAIN l.mem -> JobRec]
      BY <2>2, ListIs
    <3>2. /\ DOMAIN m = DOMAIN l.mem \cup SystemJobs
          /\ m \in [DOMAIN l.mem \cup SystemJobs -> JobRec]
      BY <2>3, <3>1
    <3> HIDE DEF m
    <3> QED
      BY <3>1, <3>2, ListIs DEF Jobs
  <2> HIDE DEF m
  <2>5. Asleep'
    <3>1. run' = Holding(l.fresh, m) /\ timer' = timer
      BY <2>1 DEF Loaded, tick
    <3>2. DOMAIN run' = Jobs /\ \A j \in Jobs : run'[j].st = "no"
      BY <1>1, <3>1, NothingHeld, HoldingOfJobs
    <3> QED
      BY <1>1, <2>1, <3>1, <3>2 DEF Asleep
  <2>6. mem' = m /\ log' = l.log /\ over' = OverBy(l)
    BY <2>1 DEF Loaded, Read, OverBy
  <2>7. DOMAIN m = IF disk' = Bad THEN {} ELSE DOMAIN disk'
    BY <2>1, <2>4, CronAssumption
  <2> HIDE DEF l
  <2>8. Books(DOMAIN m, DOMAIN mem', AddedIn(l), RemovedIn(l), Promised', over', echoed',
              born')
    BY <1>1, <2>1, <2>2, <2>4, <2>6, CronAssumption DEF LoadedBooks, Books, Told
  <2>9. Told(DOMAIN mem', AddedIn(l), Promised')
    BY <2>1, <2>2, <2>4, <2>6 DEF Told
  <2> QED
    BY <1>1, <2>1, <2>4, <2>5, <2>6, <2>7, <2>8, <2>9, Called DEF l
<1> QED
  BY <1>2, <1>3

LEMMA StartKeeps ==
  ASSUME IndInv, Start
  PROVE  IndInv'
<1> DEFINE l == Load(TRUE)
           m == [j \in DOMAIN l.mem |->
                   IF l.mem[j].on THEN Scheduled(l.mem[j]) ELSE l.mem[j]]
<1>1. /\ phase = "booted" /\ timer # "busy" /\ phase' = "up"
      /\ Loaded(l, m, {}) /\ disk' = m
      /\ echoed' = IF disk = Bad THEN echoed \cup Added ELSE echoed
      /\ UNCHANGED <<now, born, faults, Promised>>
  BY DEF Start, IndInv, Asleep, Promised
<1>2. l.mem \in JobLists /\ LoadedBooks(l) /\ Told(DOMAIN l.mem, AddedIn(l), Promised)
  BY <1>1, LoadTyped, LoadKeepsBooks DEF IndInv
<1>3. m \in JobLists /\ DOMAIN m = DOMAIN l.mem
  <2> HIDE DEF l
  <2>1. DOMAIN l.mem \subseteq Jobs /\ l.mem \in [DOMAIN l.mem -> JobRec]
    BY <1>2, ListIs
  <2>2. \A j \in DOMAIN l.mem : Scheduled(l.mem[j]) \in JobRec
    BY <2>1, ScheduledTyped, UntoldLists
  <2>3. DOMAIN m = DOMAIN l.mem /\ m \in [DOMAIN l.mem -> JobRec]
    BY <2>1, <2>2
  <2> HIDE DEF m
  <2> QED
    BY <2>1, <2>3, ListIs
<1> HIDE DEF m
<1>4. mem' = m /\ log' = l.log /\ over' = OverBy(l) /\ run' = Holding(l.fresh, m)
  BY <1>1 DEF Loaded, Read, OverBy
<1>5. Asleep'
  BY <1>1, <1>4, HoldingOfJobs DEF Asleep
<1>6. DOMAIN m = IF disk' = Bad THEN {} ELSE DOMAIN disk'
  BY <1>1, <1>3, CronAssumption
<1>7. Echoing(DOMAIN m, DOMAIN m, AddedIn(l), echoed')
  <2>1. CASE disk = Bad
    <3>1. AddedIn(l) \subseteq Added
      BY DEF AddedIn
    <3> QED
      BY <1>1, <2>1, <3>1 DEF Echoing
  <2>2. CASE disk # Bad
    <3>1. Echoing(FileOf(l), DOMAIN l.mem, AddedIn(l), echoed)
      BY <1>1, <2>2, LoadKeepsBooks
    <3> HIDE DEF l
    <3> QED
      BY <1>1, <1>3, <2>2, <3>1 DEF Echoing
  <2> QED
    BY <2>1, <2>2
<1>8. echoed \subseteq echoed'
  BY <1>1
<1> HIDE DEF l
<1>9. Books(DOMAIN m, DOMAIN mem', AddedIn(l), RemovedIn(l), Promised', over', echoed', born')
  BY <1>1, <1>2, <1>3, <1>4, <1>8 DEF LoadedBooks, Books, Told
<1>10. Told(DOMAIN mem', AddedIn(l), Promised')
  BY <1>1, <1>2, <1>3, <1>4 DEF Told
<1> QED
  BY <1>1, <1>3, <1>4, <1>5, <1>6, <1>7, <1>9, <1>10, Called DEF l

\* A process beside the gateway appends a line.
LEMMA Appended ==
  ASSUME IndInv, NEW j \in UserJobs, NEW line \in AddLines \cup DelLines, line.job = j,
         log' = Append(log, line), line.action = "add" => j \notin born
  PROVE  /\ Added' = IF line.action = "add" THEN Added \cup {j} ELSE Added
         /\ Removed' = IF line.action = "del" THEN Removed \cup {j} ELSE Removed
         /\ DelsLast' /\ log' \in Seq(AddLines \cup DelLines)
<1> DEFINE n == Len(log)
<1>1. /\ log \in Seq(AddLines \cup DelLines) /\ n \in Nat /\ DOMAIN log = 1 .. n
      /\ FilesTyped /\ DelsLast
  BY LogLines DEF IndInv, FilesTyped
<1>2. /\ DOMAIN log' = 1 .. n + 1 /\ log'[n + 1] = line
      /\ \A p \in 1 .. n : log'[p] = log[p]
      /\ log' \in Seq(AddLines \cup DelLines)
  BY <1>1
<1> HIDE DEF n
<1>3. DOMAIN log' = DOMAIN log \cup {n + 1} /\ n + 1 \notin DOMAIN log
  BY <1>1, <1>2
<1>4. \A i : Lines(i)' = IF i = j THEN Lines(i) \cup {n + 1} ELSE Lines(i)
  BY <1>1, <1>2, <1>3 DEF Lines
<1>5. \A i : Lines(i) \subseteq 1 .. n
  BY <1>1 DEF Lines
<1>6. Added' = IF line.action = "add" THEN Added \cup {j} ELSE Added
  BY <1>2, <1>4, <1>5 DEF Added
<1>7. Removed' = IF line.action = "del" THEN Removed \cup {j} ELSE Removed
  BY <1>2, <1>4, <1>5 DEF Removed
<1>8. DelsLast'
  <2> SUFFICES ASSUME NEW p \in DOMAIN log', NEW q \in DOMAIN log',
                      log'[p].action = "del", log'[q].action = "add",
                      log'[p].job = log'[q].job
               PROVE  q < p
    BY DEF DelsLast
  <2>1. CASE p \in DOMAIN log /\ q \in DOMAIN log
    BY <1>1, <1>2, <2>1 DEF DelsLast
  <2>2. CASE p = n + 1 /\ q \in DOMAIN log
    BY <1>1, <2>2
  <2>3. CASE q = n + 1
    <3>1. j \notin born /\ log'[p].job = j /\ p # q
      BY <1>2, <2>3
    <3>2. p \in DOMAIN log /\ log[p].action = "del" /\ log[p].job = j
      BY <1>1, <1>2, <1>3, <2>3, <3>1
    <3>3. j \in Removed
      BY <3>2 DEF Removed, Lines
    <3> QED
      BY <3>1, <3>3, UntoldLists DEF Books
  <2> QED
    BY <1>3, <2>1, <2>2, <2>3
<1> QED
  BY <1>2, <1>6, <1>7, <1>8

LEMMA ClientAddKeeps ==
  ASSUME IndInv, NEW j \in UserJobs, NEW s \in Schedules, NEW once \in BOOLEAN,
         ClientAdd(j, s, once)
  PROVE  IndInv'
<1> DEFINE line == [action |-> "add", job |-> j, rec |-> NewJob(s, once)]
<1>1. /\ j \notin born /\ log' = Append(log, line)
      /\ born' = born \cup {j} /\ Promised' \subseteq Promised \cup {j}
      /\ UNCHANGED <<now, disk, phase, mem, tick, run, faults, over, echoed>>
  BY DEF ClientAdd, Promised
<1>2. line \in AddLines
  <2>1. now \in 0 .. MaxTime /\ s \in 0 .. MaxTime
    BY UntoldLists DEF Schedules
  <2> QED
    BY <2>1, NewJobTyped DEF AddLines
<1>3. line.job = j /\ line.action = "add"
  OBVIOUS
<1> HIDE DEF line
<1>4. /\ Added' = Added \cup {j} /\ Removed' = Removed
      /\ DelsLast' /\ log' \in Seq(AddLines \cup DelLines)
  BY <1>1, <1>2, <1>3, Appended
<1>5. Listed' = Listed
  BY <1>1 DEF Listed
<1>6. FilesTyped' /\ Asleep'
  BY <1>1, <1>4 DEF IndInv, FilesTyped, Asleep, tick
<1>7. Books(DOMAIN Listed, DOMAIN mem, Added', Removed', Promised', over', echoed', born')
  BY <1>1, <1>4, UntoldLists DEF Books
<1>8. phase' # "down" => Told(DOMAIN mem, Added', Promised')
  BY <1>1, <1>4, UntoldLists DEF Told
<1>9. phase' = "up" => Echoing(DOMAIN Listed, DOMAIN mem, Added', echoed')
  BY <1>1, <1>4, UntoldLists DEF Echoing, Books
<1> QED
  BY <1>1, <1>4, <1>5, <1>6, <1>7, <1>8, <1>9 DEF IndInv

LEMMA ClientRemoveKeeps ==
  ASSUME IndInv, NEW j \in UserJobs, ClientRemove(j)
  PROVE  IndInv'
<1> DEFINE line == [action |-> "del", job |-> j]
<1>1. /\ j \in DOMAIN Merged.jobs /\ log' = Append(log, line) /\ Promised' = Promised \ {j}
      /\ UNCHANGED <<now, disk, phase, mem, tick, run, faults, born, over, echoed>>
  BY DEF ClientRemove, Promised
<1>2. line \in DelLines /\ line.job = j /\ line.action = "del"
  BY DEF DelLines
<1> HIDE DEF line
<1>4. /\ Added' = Added /\ Removed' = Removed \cup {j}
      /\ DelsLast' /\ log' \in Seq(AddLines \cup DelLines)
  BY <1>1, <1>2, Appended
<1>3. j \in DOMAIN Listed \cup Added
  BY <1>1, MergedTyped, PresentIs DEF IndInv
<1>5. Listed' = Listed
  BY <1>1 DEF Listed
<1>6. FilesTyped' /\ Asleep'
  BY <1>1, <1>4 DEF IndInv, FilesTyped, Asleep, tick
<1>7. Books(DOMAIN Listed, DOMAIN mem, Added', Removed', Promised', over', echoed', born')
  BY <1>1, <1>3, <1>4, UntoldLists DEF Books
<1>8. phase' # "down" => Told(DOMAIN mem, Added', Promised')
  BY <1>1, <1>4, UntoldLists DEF Told
<1>9. phase' = "up" => Echoing(DOMAIN Listed, DOMAIN mem, Added', echoed')
  BY <1>1, <1>4, UntoldLists DEF Echoing
<1> QED
  BY <1>1, <1>4, <1>5, <1>6, <1>7, <1>8, <1>9 DEF IndInv

LEMMA ClientReadKeeps ==
  ASSUME IndInv, ClientRead
  PROVE  IndInv'
<1>1. /\ disk = Bad /\ disk' = NoJobs
      /\ UNCHANGED <<now, log, phase, mem, tick, run, faults, born, Promised, over, echoed>>
  BY DEF ClientRead, ghosts, Promised
<1>2. /\ DOMAIN Listed = {} /\ {} = IF disk' = Bad THEN {} ELSE DOMAIN disk'
      /\ disk' \in JobLists
  BY <1>1, UntoldLists, NoJobsTyped
<1>3. Asleep'
  BY <1>1 DEF IndInv, Asleep, tick
<1>4. log' \in {log, <<>>} /\ now' \in 0 .. MaxTime /\ mem' \in JobLists
  BY <1>1, UntoldLists
<1>5. Books({}, DOMAIN mem', Added, Removed, Promised', over', echoed', born')
  BY <1>1, <1>2, UntoldLists
<1>6. /\ phase' # "down" => Told(DOMAIN mem', Added, Promised')
      /\ phase' = "up" => Echoing({}, DOMAIN mem', Added, echoed')
  BY <1>1, <1>2, UntoldLists
<1> QED
  BY <1>1, <1>2, <1>3, <1>4, <1>5, <1>6, Stored

LEMMA ClockKeeps ==
  ASSUME IndInv, Clock
  PROVE  IndInv'
<1>1. /\ now < MaxTime /\ now' = now + 1
      /\ UNCHANGED <<disk, log, phase, mem, tick, run, faults, born, Promised, over, echoed>>
  BY DEF Clock, ghosts, Promised
<1> DEFINE D == IF disk' = Bad THEN {} ELSE DOMAIN disk'
<1>2. D = DOMAIN Listed /\ log' \in {log, <<>>} /\ mem' \in JobLists
      /\ now' \in 0 .. MaxTime /\ (disk' = Bad \/ disk' \in JobLists)
  BY <1>1, UntoldLists, CronAssumption
<1>3. Asleep'
  BY <1>1 DEF IndInv, Asleep, tick
<1> HIDE DEF D
<1>5. Books(D, DOMAIN mem', Added, Removed, Promised', over', echoed', born')
  BY <1>1, <1>2, UntoldLists
<1>6. /\ phase' # "down" => Told(DOMAIN mem', Added, Promised')
      /\ phase' = "up" => Echoing(D, DOMAIN mem', Added, echoed')
  BY <1>1, <1>2, UntoldLists
<1> QED
  BY <1>1, <1>2, <1>3, <1>5, <1>6, Stored DEF D

LEMMA AsleepWhenDown ==
  ASSUME Down
  PROVE  Asleep'
<1>1. phase' = "down" /\ timer' = "dead" /\ run' = [j \in Jobs |-> NoRun]
  BY DEF Down, Dead
<1> QED
  BY <1>1 DEF Asleep, NoRun

LEMMA CrashKeeps ==
  ASSUME IndInv, Crash
  PROVE  IndInv'
<1>1. /\ phase' = "down" /\ mem' = NoJobs /\ faults' = faults + 1
      /\ UNCHANGED <<now, disk, log, born, Promised, over, echoed>>
  BY DEF Crash, Down, Fault, Promised
<1> DEFINE D == IF disk' = Bad THEN {} ELSE DOMAIN disk'
<1>2. /\ D = DOMAIN Listed /\ log' \in {log, <<>>} /\ mem' \in JobLists /\ DOMAIN mem' = {}
      /\ now' \in 0 .. MaxTime /\ (disk' = Bad \/ disk' \in JobLists)
  BY <1>1, UntoldLists, NoJobsTyped
<1>3. Asleep'
  BY AsleepWhenDown DEF Crash
<1> HIDE DEF D
<1>5. Books(D, DOMAIN mem', Added, Removed, Promised', over', echoed', born')
  BY <1>1, <1>2, UntoldLists DEF Books
<1> QED
  BY <1>1, <1>2, <1>3, <1>5, Stored DEF D

LEMMA SpoilKeeps ==
  ASSUME IndInv, Spoil
  PROVE  IndInv'
<1>1. /\ disk' = Bad /\ faults' = faults + 1
      /\ Promised' \subseteq Promised \ (DOMAIN disk \ Added)
      /\ UNCHANGED <<now, log, phase, mem, tick, run, born, over, echoed>>
      /\ disk # Bad
  BY DEF Spoil, Fault, Promised
<1>2. log' \in {log, <<>>} /\ mem' \in JobLists /\ now' \in 0 .. MaxTime
  BY <1>1, UntoldLists
<1>3. Asleep'
  BY <1>1 DEF IndInv, Asleep, tick
<1>5. Books({}, DOMAIN mem', Added, Removed, Promised', over', echoed', born')
  BY <1>1, <1>2, UntoldLists DEF Books
<1>6. /\ phase' # "down" => Told(DOMAIN mem', Added, Promised')
      /\ phase' = "up" => Echoing({}, DOMAIN mem', Added, echoed')
  BY <1>1, <1>2, UntoldLists DEF Told, Echoing
<1>7. {} = IF disk' = Bad THEN {} ELSE DOMAIN disk'
  BY <1>1
<1> QED
  BY <1>1, <1>2, <1>3, <1>5, <1>6, <1>7, Stored

\* The log is lost: what the file has is all that is left to tell.
LEMMA LogLostFacts ==
  ASSUME IndInv, Merging, LogLost, kept' = kept
  PROVE  /\ Added' = {} /\ Removed' = {}
         /\ DelsLast' /\ log' \in Seq(AddLines \cup DelLines)
         /\ DOMAIN Listed' = DOMAIN Listed /\ (disk' = Bad \/ disk' \in JobLists)
         /\ Promised' \subseteq Promised \cap DOMAIN Listed
<1>1. disk # Bad /\ log' = <<>> /\ UNCHANGED disk
  BY DEF Merging, LogLost
<1>2. /\ Added' = (IF log' = log THEN Added ELSE {})
      /\ Removed' = (IF log' = log THEN Removed ELSE {})
      /\ DelsLast' /\ log' \in Seq(AddLines \cup DelLines)
  BY <1>1, LogAfter DEF IndInv
<1>3. DOMAIN <<>> = {}
  OBVIOUS
<1>4. Added' = {} /\ Removed' = {}
  BY <1>1, <1>3 DEF Added, Removed, Lines
<1>5. DOMAIN Listed' = DOMAIN Listed
  BY <1>1 DEF Listed
<1>6. Promised' \subseteq Promised \ (Added \ DOMAIN Listed)
  BY <1>1, UntoldLists DEF LogLost, Promised
<1>7. Promised \subseteq DOMAIN Listed \cup Added
  BY UntoldLists DEF Books
<1> QED
  BY <1>1, <1>2, <1>4, <1>5, <1>6, <1>7, UntoldLists

LEMMA CrashInMergeKeeps ==
  ASSUME IndInv, CrashInMerge
  PROVE  IndInv'
<1>1. /\ phase' = "down" /\ mem' = NoJobs /\ faults' = faults + 1
      /\ UNCHANGED <<now, born, kept, over, echoed>> /\ Merging /\ LogLost
  BY DEF CrashInMerge, Down, Fault
<1>2. Asleep'
  BY AsleepWhenDown DEF CrashInMerge
<1>3. /\ Added' = {} /\ Removed' = {} /\ DelsLast' /\ log' \in Seq(AddLines \cup DelLines)
      /\ DOMAIN Listed' = DOMAIN Listed /\ (disk' = Bad \/ disk' \in JobLists)
      /\ Promised' \subseteq Promised \cap DOMAIN Listed
  BY <1>1, LogLostFacts
<1>4. mem' \in JobLists /\ DOMAIN mem' = {}
  BY <1>1, NoJobsTyped
<1>5. FilesTyped'
  BY <1>1, <1>3, <1>4 DEF IndInv, FilesTyped
<1>6. Books(DOMAIN Listed', DOMAIN mem', Added', Removed', Promised', over', echoed', born')
  BY <1>1, <1>3, <1>4, UntoldLists DEF Books
<1> QED
  BY <1>1, <1>2, <1>3, <1>5, <1>6 DEF IndInv

LEMMA MergeFailsKeeps ==
  ASSUME IndInv, MergeFails
  PROVE  IndInv'
<1>1. /\ phase = "up" /\ mem' = Merged.jobs /\ faults' = faults + 1
      /\ run' = Holding(TRUE, mem')
      /\ UNCHANGED <<now, phase, born, kept, over, echoed>> /\ Merging /\ LogLost
  BY DEF MergeFails, Fault
<1>2. Asleep'
  BY <1>1, AwakeAfter, HoldingOfJobs
<1>3. /\ Added' = {} /\ Removed' = {} /\ DelsLast' /\ log' \in Seq(AddLines \cup DelLines)
      /\ DOMAIN Listed' = DOMAIN Listed /\ (disk' = Bad \/ disk' \in JobLists)
      /\ Promised' \subseteq Promised \cap DOMAIN Listed
  BY <1>1, LogLostFacts
<1>4. mem' \in JobLists /\ DOMAIN mem' = {j \in Jobs : Present(j)}
  BY <1>1, MergedTyped DEF IndInv
<1>5. FilesTyped'
  BY <1>1, <1>3, <1>4 DEF IndInv, FilesTyped
<1>6. DOMAIN Listed \subseteq Jobs
  BY ListedTyped, ListIs DEF IndInv
<1>7. /\ DOMAIN mem' \subseteq DOMAIN Listed \cup Added
      /\ DOMAIN Listed \ Removed \subseteq DOMAIN mem'
  BY <1>4, <1>6, PresentIs DEF IndInv
<1>8. Books(DOMAIN Listed', DOMAIN mem', Added', Removed', Promised', over', echoed', born')
  BY <1>1, <1>3, <1>7, UntoldLists DEF Books
<1>9. /\ Told(DOMAIN mem', Added', Promised')
      /\ Echoing(DOMAIN Listed', DOMAIN mem', Added', echoed')
  BY <1>3, <1>7, UntoldLists DEF Told, Echoing, Books
<1> QED
  BY <1>1, <1>2, <1>3, <1>5, <1>8, <1>9 DEF IndInv

-----------------------------------------------------------------------------
(* The theorems. *)

LEMMA StopTurnKeeps ==
  ASSUME IndInv, StopTurn
  PROVE  IndInv'
<1>1. /\ UNCHANGED <<now, disk, log, phase, mem, timer, run, faults, born>>
      /\ UNCHANGED <<Promised, over, echoed>>
  BY DEF StopTurn, ghosts, Promised
<1>2. Added' = Added /\ Removed' = Removed /\ Listed' = Listed
  BY <1>1 DEF Added, Removed, Lines, Listed
<1>3. FilesTyped' /\ DelsLast' /\ Asleep'
  BY <1>1 DEF IndInv, FilesTyped, DelsLast, Asleep
<1> QED
  BY <1>1, <1>2, <1>3 DEF IndInv

LEMMA InitHolds == Init => IndInv
<1> SUFFICES ASSUME Init PROVE IndInv
  OBVIOUS
<1>1. /\ now = 1 /\ disk = NoJobs /\ log = <<>> /\ phase = "down" /\ mem = NoJobs
      /\ timer = "dead" /\ run = [j \in Jobs |-> NoRun] /\ faults = 0 /\ born = SystemJobs
      /\ Promised = {} /\ over = {} /\ echoed = {}
  BY DEF Init, Promised
<1>2. log \in Seq(AddLines \cup DelLines) /\ DOMAIN log = {}
  BY <1>1
<1>3. FilesTyped
  BY <1>1, <1>2, NoJobsTyped, CronAssumption DEF FilesTyped
<1>4. DelsLast /\ Added = {} /\ Removed = {}
  BY <1>2 DEF DelsLast, Added, Removed, Lines
<1>5. Asleep
  BY <1>1 DEF Asleep, NoRun
<1>6. DOMAIN Listed = {} /\ DOMAIN mem = {}
  BY <1>1, NoJobsTyped, CronAssumption DEF Listed
<1>7. Books(DOMAIN Listed, DOMAIN mem, Added, Removed, Promised, over, echoed, born)
  BY <1>1, <1>4, <1>6 DEF Books
<1> QED
  BY <1>1, <1>3, <1>4, <1>5, <1>7 DEF IndInv

LEMMA StepKeeps == IndInv /\ [Next]_vars => IndInv'
<1> SUFFICES ASSUME IndInv, [Next]_vars PROVE IndInv'
  OBVIOUS
<1>1. CASE Clock
  BY <1>1, ClockKeeps
<1>2. CASE Register
  BY <1>2, RegisterKeeps
<1>3. CASE Start
  BY <1>3, StartKeeps
<1>4. CASE Tick
  BY <1>4, TickKeeps
<1>5. CASE FinishTick
  BY <1>5, FinishTickKeeps
<1>6. CASE Poll
  BY <1>6, PollKeeps
<1>7. ASSUME NEW j \in UserJobs, NEW s \in Schedules, NEW once \in BOOLEAN,
             AddJob(j, s, once) \/ UpdateJob(j, s, once) \/ ClientAdd(j, s, once)
      PROVE  IndInv'
  BY <1>7, AddJobKeeps, UpdateJobKeeps, ClientAddKeeps
<1>8. ASSUME NEW j \in UserJobs,
             RemoveJob(j) \/ ClientRemove(j) \/ \E on \in BOOLEAN : EnableJob(j, on)
      PROVE  IndInv'
  BY <1>8, RemoveJobKeeps, ClientRemoveKeeps, EnableJobKeeps
<1>9. ASSUME NEW j \in UserJobs, RequestRun(j) \/ BeginRun(j) \/ FinishRun(j)
      PROVE  IndInv'
  BY <1>9, RequestRunKeeps, BeginRunKeeps, FinishRunKeeps
<1>10. CASE ClientRead \/ StopTurn \/ Crash \/ CrashInMerge \/ MergeFails \/ Spoil
  BY <1>10, ClientReadKeeps, StopTurnKeeps, CrashKeeps, CrashInMergeKeeps, MergeFailsKeeps,
     SpoilKeeps
<1>11. CASE UNCHANGED vars
  <2>1. /\ UNCHANGED <<now, disk, log, phase, mem, timer, run, faults, born>>
        /\ UNCHANGED <<Promised, over, echoed>>
    BY <1>11 DEF vars, tick, ghosts, Promised
  <2>2. Added' = Added /\ Removed' = Removed /\ Listed' = Listed
    BY <2>1 DEF Added, Removed, Lines, Listed
  <2>3. FilesTyped' /\ DelsLast' /\ Asleep'
    BY <2>1 DEF IndInv, FilesTyped, DelsLast, Asleep
  <2> QED
    BY <2>1, <2>2, <2>3 DEF IndInv
<1> QED
  BY <1>1, <1>2, <1>3, <1>4, <1>5, <1>6, <1>7, <1>8, <1>9, <1>10, <1>11 DEF Next

(* The books of the scheduler are in order after every step of every         *)
(* behaviour: crashes between any two steps, failing saves, unreadable files  *)
(* and processes beside the gateway, in any number.                          *)
THEOREM Inductive == Spec => []IndInv
BY InitHolds, StepKeeps, PTL DEF Spec

(* jobs.json and the action log together never lose a job that a caller was  *)
(* told of (CronService._merge_action, _save_store, _append_action), but one  *)
(* that a cut merge or an unreadable file took (LogLost and Spoil).           *)
THEOREM NothingVanishes == Spec => []NoJobVanishes
<1>1. IndInv => NoJobVanishes
  <2> SUFFICES ASSUME IndInv PROVE NoJobVanishes
    OBVIOUS
  <2>1. Promised \subseteq DOMAIN Listed \cup Added
    BY UntoldLists DEF Books
  <2> QED
    BY <2>1, UntoldLists DEF NoJobVanishes
<1> QED
  BY <1>1, Inductive, PTL

(* A job that was removed, or deleted after its run, does not come back from *)
(* the file, from the action log or from the copy a run holds.               *)
THEOREM GoneForGood == Spec => []GoneStaysGone
<1>1. IndInv => GoneStaysGone
  <2> SUFFICES ASSUME IndInv PROVE GoneStaysGone
    OBVIOUS
  <2>1. (over \ echoed) \cap (DOMAIN Listed \cup DOMAIN mem) = {}
    BY UntoldLists DEF Books
  <2> QED
    BY <2>1, UntoldLists DEF GoneStaysGone
<1> QED
  BY <1>1, Inductive, PTL

-----------------------------------------------------------------------------
(* The runs of the timer. *)

\* No pair of d that the list has still due; e is excepted.
Quiet(list, d, e) ==
  \A p \in d : p[1] \in DOMAIN list /\ p[1] \notin e =>
                 ~(list[p[1]].on /\ list[p[1]].next = p[2])

Taken == done \cup cur \cup rest

\* The timer runs jobs it knew, for times that have come.
Known ==
  \A p \in Taken : /\ p[1] \in Jobs /\ p[2] \in 1 .. now /\ p[1] \in born
                   /\ p[1] \in Added => p[1] \in echoed

OnceEach == cur \cap rest = {} /\ \A p \in rest : p \notin done \/ p[1] \in echoed

\* A run that was asked for while the timer is busy is not refused.
AskedIsOn ==
  timer = "busy" =>
    \A j \in Jobs : run[j].st = "asked" =>
      done = {} \/ (j \in DOMAIN mem /\ mem[j].on)

QuietUp ==
  phase = "up" => /\ Quiet(mem, done, echoed)
                  /\ timer # "busy" /\ disk # Bad => Quiet(disk, done, echoed)

RunInv == ~adrift /\ Known /\ OnceEach /\ AskedIsOn /\ QuietUp

NoSecondRun == \A p \in cur' \ cur : p \notin done \/ p[1] \in echoed

LEMMA KnownStays ==
  ASSUME Known, now \in Nat, now' \in {now, now + 1}, born \subseteq born',
         echoed \subseteq echoed', Added' \subseteq Added \cup (Jobs \ born),
         Taken' \subseteq Taken
  PROVE  Known'
<1> SUFFICES ASSUME NEW p \in Taken'
             PROVE  /\ p[1] \in Jobs /\ p[2] \in 1 .. now' /\ p[1] \in born'
                    /\ p[1] \in Added' => p[1] \in echoed'
  BY DEF Known
<1>1. /\ p[1] \in Jobs /\ p[2] \in 1 .. now /\ p[1] \in born
      /\ p[1] \in Added => p[1] \in echoed
  BY DEF Known
<1>2. p[2] \in 1 .. now'
  BY <1>1
<1> QED
  BY <1>1, <1>2

LEMMA LogSame ==
  ASSUME IndInv, log' \in {log, <<>>}
  PROVE  Added' \subseteq Added /\ now \in Nat
BY LogAfter DEF IndInv, FilesTyped

\* With nothing done, or for fewer pairs, or with more excepted.
LEMMA QuietLess ==
  ASSUME NEW list, NEW d, NEW e, NEW d1, NEW e1, Quiet(list, d, e),
         d1 \subseteq d, e \subseteq e1
  PROVE  Quiet(list, d1, e1)
BY DEF Quiet

LEMMA QuietNone ==
  ASSUME NEW list, NEW e
  PROVE  Quiet(list, {}, e)
BY DEF Quiet

LEMMA MergedQuiet ==
  ASSUME IndInv, RunInv, phase = "up", timer # "busy", disk # Bad
  PROVE  Quiet(Merged.jobs, done, echoed)
<1>0. FilesTyped /\ Listed = disk
  BY ListedTyped DEF IndInv
<1> SUFFICES ASSUME NEW p \in done, p[1] \in DOMAIN Merged.jobs, p[1] \notin echoed
             PROVE  ~(Merged.jobs[p[1]].on /\ Merged.jobs[p[1]].next = p[2])
  BY DEF Quiet
<1>1. p[1] \in Jobs /\ Present(p[1]) /\ p[1] \notin Added
  BY <1>0, MergedTyped DEF RunInv, Known, Taken
<1>2. Lines(p[1]) = {}
  <2> SUFFICES ASSUME Lines(p[1]) # {} PROVE FALSE
    OBVIOUS
  <2>1. /\ Max(Lines(p[1])) \in DOMAIN log /\ Decides(p[1]).job = p[1]
        /\ Decides(p[1]) = log[Max(Lines(p[1]))] /\ Decides(p[1]).action = "add"
    BY <1>0, <1>1, LastLine DEF Present
  <2>2. p[1] \in UserJobs /\ Max(Lines(p[1])) \in Lines(p[1])
    BY <1>0, <2>1, LogLines DEF Lines
  <2> QED
    BY <1>1, <2>1, <2>2 DEF Added
<1>3. Merged.jobs[p[1]] = disk[p[1]] /\ p[1] \in DOMAIN disk
  BY <1>0, <1>1, <1>2 DEF Merged, Present
<1> QED
  BY <1>3 DEF RunInv, QuietUp, Quiet

LEMMA LoadQuiet ==
  ASSUME IndInv, RunInv, phase = "up", NEW l, l = Load(TRUE)
  PROVE  /\ Quiet(l.mem, done, echoed)
         /\ timer # "busy" /\ l.disk # Bad => Quiet(l.disk, done, echoed)
         /\ timer = "busy" => l.mem = mem /\ l.disk = disk /\ ~l.fresh
         /\ l.log \in {log, <<>>} /\ l.mem \in JobLists
<1>1. l.log \in {log, <<>>} /\ l.mem \in JobLists
  BY LoadTyped DEF IndInv
<1>2. timer # "busy" /\ disk # Bad => Quiet(Merged.jobs, done, echoed)
  BY MergedQuiet
<1>3. Quiet(NoJobs, done, echoed)
  BY NoJobsTyped DEF Quiet
<1>4. /\ Quiet(mem, done, echoed)
      /\ timer # "busy" /\ disk # Bad => Quiet(disk, done, echoed)
  BY DEF RunInv, QuietUp
<1>5. CASE timer = "busy"
  BY <1>1, <1>4, <1>5 DEF Load
<1>6. CASE timer # "busy" /\ disk = Bad
  BY <1>1, <1>3, <1>4, <1>6 DEF Load
<1>7. CASE timer # "busy" /\ disk # Bad
  <2>1. l.mem = Merged.jobs /\ l.disk \in {Merged.jobs, disk}
    BY <1>7 DEF Load
  <2> QED
    BY <1>1, <1>2, <1>4, <1>7, <2>1
<1> QED
  BY <1>5, <1>6, <1>7

LEMMA KnownRead ==
  ASSUME IndInv, RunInv, log' \in {log, <<>>}, now' = now, born \subseteq born',
         echoed \subseteq echoed', Taken' \subseteq Taken
  PROVE  Known'
<1>1. Added' \subseteq Added /\ now \in Nat
  BY LogSame
<1> QED
  BY <1>1, KnownStays DEF RunInv

\* The timer holds no job after the step.
LEMMA Idle ==
  ASSUME Known', timer' # "busy", cur' = {}, rest' = {}, adrift' = FALSE,
         phase' = "up" =>
           Quiet(mem', done', echoed') /\ (disk' # Bad => Quiet(disk', done', echoed'))
  PROVE  RunInv' /\ NoSecondRun
BY DEF RunInv, OnceEach, AskedIsOn, QuietUp, NoSecondRun

LEMMA ReadRuns ==
  ASSUME IndInv, RunInv, phase = "up", NEW l, l = Load(TRUE), Read(l, l.mem, {}),
         disk' = l.disk, KeepTimer(l) \/ (Arm(l.mem) /\ (timer = "busy" => done = {})),
         UNCHANGED <<now, phase, born, echoed, done>>, AskedIsOn'
  PROVE  RunInv' /\ NoSecondRun
<1>1. /\ Quiet(l.mem, done, echoed)
      /\ timer # "busy" /\ l.disk # Bad => Quiet(l.disk, done, echoed)
      /\ timer = "busy" => l.mem = mem /\ l.disk = disk /\ ~l.fresh
      /\ l.log \in {log, <<>>}
  BY LoadQuiet
<1>2. mem' = l.mem /\ log' = l.log
  BY DEF Read
<1>3. CASE KeepTimer(l)
  <2>1. UNCHANGED <<timer, cur, rest>> /\ adrift' = FALSE
    BY <1>1, <1>3 DEF KeepTimer, RunInv
  <2>2. Known'
    BY <1>1, <1>2, <2>1, KnownRead DEF Taken
  <2>3. OnceEach' /\ NoSecondRun
    BY <2>1 DEF RunInv, OnceEach, NoSecondRun
  <2>4. QuietUp'
    BY <1>1, <1>2, <2>1 DEF QuietUp
  <2> QED
    BY <2>1, <2>2, <2>3, <2>4 DEF RunInv
<1>4. CASE Arm(l.mem) /\ (timer = "busy" => done = {})
  <2>1. timer' = "armed" /\ cur' = {} /\ rest' = {} /\ adrift' = FALSE
    BY <1>4 DEF Arm
  <2>2. Known'
    BY <1>1, <1>2, <2>1, KnownRead DEF Taken
  <2>3. disk' # Bad => Quiet(disk', done, echoed)
    BY <1>1, <1>4, QuietNone
  <2> QED
    BY <1>1, <1>2, <2>1, <2>2, <2>3, Idle
<1> QED
  BY <1>3, <1>4

\* A run asked for by hand stays asked for when the list is read.
LEMMA HoldingAsks ==
  ASSUME NEW fresh, NEW list, NEW j \in Jobs, Holding(fresh, list)[j].st = "asked"
  PROVE  run[j].st = "asked"
BY DEF Holding

\* Nobody is refused by a reading: the busy timer's list is not read anew.
LEMMA AskedRead ==
  ASSUME IndInv, RunInv, NEW l, l = Load(TRUE), phase = "up", Read(l, l.mem, {}),
         UNCHANGED done, timer' = timer,
         \A j \in Jobs : run'[j].st = "asked" =>
           run[j].st = "asked" \/ (j \in DOMAIN l.mem /\ l.mem[j].on)
  PROVE  AskedIsOn'
<1>1. timer = "busy" => l.mem = mem
  BY LoadQuiet
<1>2. mem' = l.mem
  BY DEF Read
<1>3. AskedIsOn
  BY DEF RunInv
<1> QED
  BY <1>1, <1>2, <1>3 DEF AskedIsOn

LEMMA PollRuns ==
  ASSUME IndInv, RunInv, Poll
  PROVE  RunInv' /\ NoSecondRun
<1> DEFINE l == Load(TRUE)
<1>1. /\ phase = "up" /\ Read(l, l.mem, {}) /\ run' = Holding(l.fresh, l.mem)
      /\ disk' = l.disk /\ KeepTimer(l) /\ UNCHANGED <<now, phase, born, echoed, done>>
  BY DEF Poll, Loaded
<1>2. \A j \in Jobs : run'[j].st = "asked" => run[j].st = "asked"
  BY <1>1, HoldingAsks
<1>3. timer' = timer
  BY <1>1 DEF KeepTimer
<1>4. AskedIsOn'
  BY <1>1, <1>2, <1>3, AskedRead
<1> QED
  BY <1>1, <1>4, ReadRuns

LEMMA RequestRunRuns ==
  ASSUME IndInv, RunInv, NEW j \in UserJobs, RequestRun(j)
  PROVE  RunInv' /\ NoSecondRun
<1> DEFINE l == Load(TRUE)
           held == Holding(l.fresh, l.mem)
<1>1. /\ phase = "up" /\ Read(l, l.mem, {}) /\ run' = [held EXCEPT ![j].st = "asked"]
      /\ j \in DOMAIN l.mem /\ l.mem[j].on
      /\ disk' = l.disk /\ KeepTimer(l) /\ UNCHANGED <<now, phase, born, echoed, done>>
  BY DEF RequestRun
<1>2. /\ \A i \in Jobs : i # j => run'[i] = held[i]
      /\ \A i \in Jobs : held[i].st = "asked" => run[i].st = "asked"
  BY <1>1, HoldingOfJobs, HoldingAsks
<1> HIDE DEF held
<1>3. \A i \in Jobs : run'[i].st = "asked" =>
        run[i].st = "asked" \/ (i \in DOMAIN l.mem /\ l.mem[i].on)
  BY <1>1, <1>2
<1>4. timer' = timer
  BY <1>1 DEF KeepTimer
<1>5. AskedIsOn'
  BY <1>1, <1>3, <1>4, AskedRead
<1> QED
  BY <1>1, <1>5, ReadRuns

LEMMA BeginRunRuns ==
  ASSUME IndInv, RunInv, NEW j \in UserJobs, BeginRun(j)
  PROVE  RunInv' /\ NoSecondRun
<1> DEFINE l == Load(TRUE)
           held == Holding(l.fresh, l.mem)
<1>1. /\ run[j].st = "asked" /\ Read(l, l.mem, {}) /\ disk' = l.disk
      /\ \/ run' = [held EXCEPT ![j].st = "live"] /\ KeepTimer(l)
         \/ /\ ~(j \in DOMAIN l.mem /\ l.mem[j].on)
            /\ run' = [held EXCEPT ![j] = NoRun] /\ Arm(l.mem)
      /\ UNCHANGED <<now, phase, born, echoed, done>>
  BY DEF BeginRun
<1>2. phase = "up" /\ j \in Jobs
  BY <1>1 DEF IndInv, Asleep, Jobs
<1>3. CASE run' = [held EXCEPT ![j].st = "live"] /\ KeepTimer(l)
  <2>1. /\ \A i \in Jobs : held[i].st = "asked" => run[i].st = "asked"
        /\ DOMAIN held = Jobs
    BY HoldingOfJobs, HoldingAsks
  <2> HIDE DEF held
  <2>2. \A i \in Jobs : run'[i].st = "asked" => run[i].st = "asked"
    BY <1>2, <1>3, <2>1
  <2>3. timer' = timer
    BY <1>3 DEF KeepTimer
  <2>4. AskedIsOn'
    BY <1>1, <1>2, <2>2, <2>3, AskedRead
  <2> QED
    BY <1>1, <1>2, <1>3, <2>4, ReadRuns
<1>4. CASE ~(j \in DOMAIN l.mem /\ l.mem[j].on) /\ Arm(l.mem)
  <2>1. timer = "busy" => l.mem = mem
    BY <1>2, LoadQuiet
  <2>2. timer = "busy" => done = {}
    BY <1>1, <1>2, <1>4, <2>1 DEF RunInv, AskedIsOn
  <2>3. AskedIsOn'
    BY <1>4 DEF Arm, AskedIsOn
  <2> QED
    BY <1>1, <1>2, <1>4, <2>2, <2>3, ReadRuns
<1> QED
  BY <1>1, <1>3, <1>4

\* m has the jobs of f, j apart.
AllBut(f, j, m) == \A i \in DOMAIN m : i # j => i \in DOMAIN f /\ m[i] = f[i]

\* A call that changes job j alone, and reschedules it.
LEMMA ChangedRuns ==
  ASSUME IndInv, RunInv, phase = "up", NEW l, l = Load(TRUE), NEW m, NEW gone, NEW j,
         Changed(l, m, gone), Rescheduled(j),
         AllBut(l.mem, j, m),
         born \subseteq born', UNCHANGED <<now, phase, echoed>>
  PROVE  RunInv' /\ NoSecondRun
<1>1. /\ Quiet(l.mem, done, echoed) /\ l.log \in {log, <<>>}
      /\ timer = "busy" => ~l.fresh
  BY LoadQuiet
<1>2. mem' = m /\ log' = l.log
  BY DEF Changed, Loaded, Read
<1>3. CASE disk' = m /\ Arm(m) /\ UNCHANGED faults
  <2>1. timer' = "armed" /\ cur' = {} /\ rest' = {} /\ adrift' = FALSE
    BY <1>3 DEF Arm
  <2>2. done' = {p \in done : p[1] # j}
    BY <1>3 DEF Rescheduled
  <2>3. Known'
    BY <1>1, <1>2, <2>1, <2>2, KnownRead DEF Taken
  <2>4. Quiet(m, done', echoed)
    BY <1>1, <2>2 DEF Quiet, AllBut
  <2> QED
    BY <1>2, <1>3, <2>1, <2>3, <2>4, Idle
<1>4. CASE KeepTimer(l) /\ Fault("save")
  <2>1. UNCHANGED <<timer, cur, rest>> /\ adrift' = FALSE
    BY <1>1, <1>4 DEF KeepTimer, RunInv
  <2>2. done' = {}
    BY <1>4 DEF Rescheduled, Fault, IndInv, FilesTyped
  <2>3. Known'
    BY <1>1, <1>2, <2>1, <2>2, KnownRead DEF Taken
  <2>4. OnceEach' /\ NoSecondRun /\ AskedIsOn'
    BY <2>1, <2>2 DEF RunInv, OnceEach, NoSecondRun, AskedIsOn
  <2>5. QuietUp'
    BY <2>2 DEF QuietUp, Quiet
  <2> QED
    BY <2>1, <2>3, <2>4, <2>5 DEF RunInv
<1> QED
  BY <1>3, <1>4 DEF Changed

LEMMA WithElse ==
  ASSUME NEW f \in JobLists, NEW j, NEW rec
  PROVE  AllBut(f, j, With(f, j, rec))
BY DEF With, AllBut

LEMMA AddJobRuns ==
  ASSUME IndInv, RunInv, NEW j \in UserJobs, NEW s, NEW once, AddJob(j, s, once)
  PROVE  RunInv' /\ NoSecondRun
<1> DEFINE l == Load(TRUE)
           m == With(l.mem, j, NewJob(s, once))
<1>1. /\ phase = "up" /\ Changed(l, m, {})
      /\ Rescheduled(j) /\ born \subseteq born' /\ UNCHANGED <<now, phase, echoed>>
  BY DEF AddJob
<1>2. l.mem \in JobLists
  BY LoadTyped DEF IndInv
<1>3. AllBut(l.mem, j, m)
  <2> HIDE DEF l
  <2> QED
    BY <1>2, WithElse
<1> HIDE DEF m
<1> QED
  BY <1>1, <1>3, ChangedRuns

LEMMA RemoveJobRuns ==
  ASSUME IndInv, RunInv, NEW j \in UserJobs, RemoveJob(j)
  PROVE  RunInv' /\ NoSecondRun
<1> DEFINE l == Load(TRUE)
<1>1. /\ phase = "up" /\ Changed(l, Without(l.mem, j), {j})
      /\ Rescheduled(j) /\ born \subseteq born' /\ UNCHANGED <<now, phase, echoed>>
  BY DEF RemoveJob
<1>2. AllBut(l.mem, j, Without(l.mem, j))
  BY DEF Without, AllBut
<1> QED
  BY <1>1, <1>2, ChangedRuns

LEMMA EnableJobRuns ==
  ASSUME IndInv, RunInv, NEW j \in UserJobs, NEW on, EnableJob(j, on)
  PROVE  RunInv' /\ NoSecondRun
<1> DEFINE l == Load(TRUE)
           m == With(l.mem, j, Scheduled([l.mem[j] EXCEPT !.on = on]))
<1>1. /\ phase = "up"
      /\ Changed(l, m, {})
      /\ Rescheduled(j) /\ born \subseteq born' /\ UNCHANGED <<now, phase, echoed>>
  BY DEF EnableJob
<1>2. l.mem \in JobLists
  BY LoadTyped DEF IndInv
<1>3. AllBut(l.mem, j, m)
  <2> HIDE DEF l
  <2> QED
    BY <1>2, WithElse
<1> HIDE DEF m
<1> QED
  BY <1>1, <1>3, ChangedRuns

LEMMA UpdateJobRuns ==
  ASSUME IndInv, RunInv, NEW j \in UserJobs, NEW s, NEW once, UpdateJob(j, s, once)
  PROVE  RunInv' /\ NoSecondRun
<1> DEFINE l == Load(TRUE)
           m == With(l.mem, j,
                  Scheduled([l.mem[j] EXCEPT !.sched = s, !.once = once]))
<1>1. /\ phase = "up" /\ Changed(l, m, {})
      /\ Rescheduled(j) /\ born \subseteq born' /\ UNCHANGED <<now, phase, echoed>>
  BY DEF UpdateJob
<1>2. l.mem \in JobLists
  BY LoadTyped DEF IndInv
<1>3. AllBut(l.mem, j, m)
  <2> HIDE DEF l
  <2> QED
    BY <1>2, WithElse
<1> HIDE DEF m
<1> QED
  BY <1>1, <1>3, ChangedRuns

\* The record of an ended job is not due at a time that has come.
LEMMA EndedQuiet ==
  ASSUME NEW f \in JobLists, NEW j, NEW d, NEW e, Quiet(f, d, e), NEW d1,
         now \in 0 .. MaxTime,
         \A p \in d1 : p[2] \in 1 .. now /\ (p \in d \/ p[1] = j)
  PROVE  Quiet(Ended(f, j), d1, e)
<1>1. CASE j \notin DOMAIN f
  BY <1>1 DEF Ended, Quiet
<1>2. CASE j \in DOMAIN f /\ DeletesItself(f[j])
  BY <1>2 DEF Ended, Quiet, Without
<1>3. CASE j \in DOMAIN f /\ ~DeletesItself(f[j])
  <2> DEFINE r == IF f[j].sched = 0 THEN [f[j] EXCEPT !.next = NextRun(0, now)]
                  ELSE [f[j] EXCEPT !.on = FALSE, !.next = 0]
  <2>1. Ended(f, j) = With(f, j, r)
    BY <1>3 DEF Ended
  <2>2. f[j] \in JobRec
    BY <1>3, ListIs
  <2>3. r.on => r.next > now
    BY <2>2, CronAssumption DEF NextRun, JobRec
  <2> HIDE DEF r
  <2>4. \A p \in d1 : p[1] = j => ~(r.on /\ r.next = p[2])
    BY <2>3
  <2> QED
    BY <2>1, <2>4 DEF With, Quiet
<1> QED
  BY <1>1, <1>2, <1>3

LEMMA DoneBefore ==
  ASSUME IndInv, RunInv
  PROVE  now \in 0 .. MaxTime /\ \A p \in Taken : p[2] \in 1 .. now
BY DEF IndInv, FilesTyped, RunInv, Known

LEMMA TickRuns ==
  ASSUME IndInv, RunInv, IndInv', Tick
  PROVE  RunInv' /\ NoSecondRun
<1> DEFINE l == Load(TRUE)
           due == {<<j, l.mem[j].next>> : j \in {i \in DOMAIN l.mem : IsDue(l.mem[i])}}
<1>1. /\ phase = "up" /\ timer = "armed" /\ mem' = l.mem /\ log' = l.log
      /\ \A j \in Jobs : run[j].st # "asked"
      /\ run' = Holding(l.fresh, l.mem) /\ UNCHANGED <<now, phase, born, echoed, done>>
      /\ \/ /\ \E p \in due : cur' = {p} /\ rest' = due \ {p}
            /\ timer' = "busy" /\ UNCHANGED adrift
         \/ disk' = l.mem /\ Arm(l.mem)
         \/ disk' = l.disk /\ Dead
  BY DEF Tick, Loaded, Read
<1>2. /\ Quiet(l.mem, done, echoed)
      /\ l.disk # Bad => Quiet(l.disk, done, echoed)
      /\ l.log \in {log, <<>>} /\ l.mem \in JobLists
  BY <1>1, LoadQuiet
<1>3. \A j \in Jobs : run'[j].st # "asked"
  BY <1>1, HoldingAsks
<1>4. ASSUME NEW q \in due
      PROVE  /\ q[1] \in DOMAIN l.mem /\ l.mem[q[1]].on /\ l.mem[q[1]].next = q[2]
             /\ q[1] \in Jobs /\ q[2] \in 1 .. now
  <2> HIDE DEF l
  <2>1. PICK j \in DOMAIN l.mem : IsDue(l.mem[j]) /\ q = <<j, l.mem[j].next>>
    OBVIOUS
  <2>2. j \in Jobs /\ l.mem[j] \in JobRec /\ now \in Nat
    BY <1>2, ListIs DEF IndInv, FilesTyped
  <2>3. l.mem[j].next \in 1 .. now /\ l.mem[j].on
    BY <2>1, <2>2, CronAssumption DEF IsDue, JobRec
  <2> QED
    BY <2>1, <2>2, <2>3
<1> HIDE DEF l, due
<1>5. CASE \E p \in due : cur' = {p} /\ rest' = due \ {p} /\ timer' = "busy"
           /\ UNCHANGED adrift
  <2>1. cur' \cup rest' = due /\ cur' \cap rest' = {} /\ Taken' = done \cup due
    BY <1>1, <1>5 DEF Taken
  <2>2. \A q \in due : q \notin done \/ q[1] \in echoed
    BY <1>2, <1>4 DEF Quiet
  <2>3. \A q \in due : q[1] \in born' /\ (q[1] \in Added' => q[1] \in echoed')
    <3>1. /\ DOMAIN mem' \subseteq born'
          /\ Added' \cap DOMAIN mem' \subseteq echoed'
      BY <1>1 DEF IndInv, Books, Echoing
    <3> QED
      BY <1>1, <1>4, <3>1
  <2>4. Added' \subseteq Added
    BY <1>1, <1>2, LogSame
  <2>5. Known'
    BY <1>1, <1>4, <2>1, <2>3, <2>4 DEF Known, RunInv, Taken
  <2>6. OnceEach' /\ NoSecondRun
    BY <1>1, <2>1, <2>2 DEF OnceEach, NoSecondRun
  <2>7. AskedIsOn' /\ QuietUp'
    BY <1>1, <1>2, <1>3, <1>5 DEF AskedIsOn, QuietUp
  <2> QED
    BY <1>5, <2>5, <2>6, <2>7 DEF RunInv
<1>6. CASE (disk' = l.mem /\ Arm(l.mem)) \/ (disk' = l.disk /\ Dead)
  <2>1. timer' # "busy" /\ cur' = {} /\ rest' = {} /\ adrift' = FALSE
    BY <1>6 DEF Arm, Dead
  <2>2. Known'
    BY <1>1, <1>2, <2>1, KnownRead DEF Taken
  <2>3. Quiet(mem', done', echoed') /\ (disk' # Bad => Quiet(disk', done', echoed'))
    BY <1>1, <1>2, <1>6
  <2> QED
    BY <2>1, <2>2, <2>3, Idle
<1> QED
  BY <1>1, <1>5, <1>6

LEMMA FinishTickRuns ==
  ASSUME IndInv, RunInv, FinishTick
  PROVE  RunInv' /\ NoSecondRun
<1>1. PICK p \in cur :
        LET m == IF adrift THEN mem ELSE Ended(mem, p[1])
        IN /\ mem' = m /\ run' = Holding(FALSE, m)
           /\ \/ /\ \E q \in rest : cur' = {q} /\ rest' = rest \ {q}
                 /\ done' = done \cup {p} /\ UNCHANGED <<timer, adrift>>
              \/ disk' = m /\ Arm(m) /\ done' = done \cup {p}
              \/ Dead /\ done' = {}
  BY DEF FinishTick
<1> DEFINE m == Ended(mem, p[1])
<1>2. /\ timer = "busy" /\ \A j \in Jobs : run[j].st # "asked"
      /\ UNCHANGED <<now, log, phase, born, echoed>>
  BY DEF FinishTick
<1>3. phase = "up" /\ Quiet(mem, done, echoed) /\ mem \in JobLists
  BY <1>2 DEF IndInv, Asleep, FilesTyped, RunInv, QuietUp
<1>4. /\ mem' = m /\ run' = Holding(FALSE, m)
      /\ \/ /\ \E q \in rest : cur' = {q} /\ rest' = rest \ {q}
            /\ done' = done \cup {p} /\ UNCHANGED <<timer, adrift>>
         \/ disk' = m /\ Arm(m) /\ done' = done \cup {p}
         \/ Dead /\ done' = {}
  BY <1>1 DEF RunInv
<1>5. Quiet(m, done \cup {p}, echoed)
  <2>1. \A q \in done \cup {p} : q[2] \in 1 .. now /\ (q \in done \/ q[1] = p[1])
    BY DoneBefore DEF Taken
  <2>2. now \in 0 .. MaxTime
    BY DoneBefore
  <2> HIDE DEF m
  <2> QED
    BY <1>3, <2>1, <2>2, EndedQuiet DEF m
<1>6. \A j \in Jobs : run'[j].st # "asked"
  BY <1>2, <1>4, HoldingAsks
<1> HIDE DEF m
<1>7. CASE /\ \E q \in rest : cur' = {q} /\ rest' = rest \ {q}
           /\ done' = done \cup {p} /\ UNCHANGED <<timer, adrift>>
  <2>1. PICK q \in rest : cur' = {q} /\ rest' = rest \ {q}
    BY <1>7
  <2>2. Taken' \subseteq Taken /\ p \notin rest
    BY <1>7, <2>1 DEF Taken, RunInv, OnceEach
  <2>3. Known'
    BY <1>2, <2>2, KnownRead
  <2>4. OnceEach' /\ NoSecondRun
    BY <1>2, <1>7, <2>1, <2>2 DEF RunInv, OnceEach, NoSecondRun
  <2>5. AskedIsOn' /\ QuietUp'
    BY <1>2, <1>4, <1>5, <1>6, <1>7 DEF AskedIsOn, QuietUp
  <2> QED
    BY <1>7, <2>3, <2>4, <2>5 DEF RunInv
<1>8. CASE disk' = m /\ Arm(m) /\ done' = done \cup {p}
  <2>1. timer' = "armed" /\ cur' = {} /\ rest' = {} /\ adrift' = FALSE
    BY <1>8 DEF Arm
  <2>2. Taken' \subseteq Taken
    BY <1>8, <2>1 DEF Taken
  <2>3. Known'
    BY <1>2, <2>2, KnownRead
  <2> QED
    BY <1>2, <1>4, <1>5, <1>8, <2>1, <2>3, Idle
<1>9. CASE Dead /\ done' = {}
  <2>1. timer' = "dead" /\ cur' = {} /\ rest' = {} /\ adrift' = FALSE
    BY <1>9 DEF Dead
  <2>2. Known'
    BY <1>9, <2>1 DEF Known, Taken
  <2> QED
    BY <1>9, <2>1, <2>2, Idle, QuietNone
<1> QED
  BY <1>4, <1>7, <1>8, <1>9

LEMMA FinishRunRuns ==
  ASSUME IndInv, RunInv, NEW j \in UserJobs, FinishRun(j)
  PROVE  RunInv' /\ NoSecondRun
<1> DEFINE m == CASE run[j].st = "live" -> Ended(mem, j)
                  [] run[j].drops -> Without(mem, j)
                  [] OTHER -> mem
<1>1. /\ run[j].st \in {"live", "stale"} /\ mem' = m /\ Arm(m)
      /\ (disk' = m /\ done' = done) \/ done' = {}
      /\ UNCHANGED <<now, log, phase, born, echoed>>
  BY DEF FinishRun
<1>2. phase = "up" /\ mem \in JobLists
  BY <1>1 DEF IndInv, Asleep, Jobs, FilesTyped
<1>3. Quiet(mem, done, echoed)
  BY <1>2 DEF RunInv, QuietUp
<1>4. Quiet(Ended(mem, j), done, echoed)
  <2>1. /\ now \in 0 .. MaxTime
        /\ \A q \in done : q[2] \in 1 .. now /\ (q \in done \/ q[1] = j)
    BY DoneBefore DEF Taken
  <2> QED
    BY <1>2, <1>3, <2>1, EndedQuiet
<1>5. Quiet(Without(mem, j), done, echoed)
  BY <1>3 DEF Quiet, Without
<1>6. Quiet(m, done, echoed)
  <2>1. m \in {Ended(mem, j), Without(mem, j), mem}
    OBVIOUS
  <2> HIDE DEF m
  <2> QED
    BY <1>3, <1>4, <1>5, <2>1
<1> HIDE DEF m
<1>7. timer' = "armed" /\ cur' = {} /\ rest' = {} /\ adrift' = FALSE
  BY <1>1 DEF Arm
<1>8. Known'
  BY <1>1, <1>7, KnownRead DEF Taken
<1> QED
  BY <1>1, <1>6, <1>7, <1>8, Idle, QuietNone

\* The timer is left alone.
LEMMA TimerAlone ==
  ASSUME RunInv, UNCHANGED <<tick, done, echoed>>, Known', AskedIsOn', QuietUp'
  PROVE  RunInv' /\ NoSecondRun
BY DEF RunInv, OnceEach, NoSecondRun, tick

LEMMA RegisterRuns ==
  ASSUME IndInv, RunInv, Register
  PROVE  RunInv' /\ NoSecondRun
<1>1. /\ phase' # "up" /\ timer # "busy" /\ UNCHANGED <<now, born, tick, done, echoed>>
      /\ log' \in {log, Load(FALSE).log}
  BY DEF Register, Loaded, Read, ghosts, IndInv, Asleep
<1>2. log' \in {log, <<>>}
  BY <1>1, LoadTyped DEF IndInv
<1>3. Known'
  BY <1>1, <1>2, KnownRead DEF Taken, tick
<1>4. AskedIsOn' /\ QuietUp'
  BY <1>1 DEF AskedIsOn, QuietUp, tick
<1> QED
  BY <1>1, <1>3, <1>4, TimerAlone

LEMMA StartRuns ==
  ASSUME IndInv, RunInv, Start
  PROVE  RunInv' /\ NoSecondRun
<1> DEFINE l == Load(TRUE)
           m == [j \in DOMAIN l.mem |->
                   IF l.mem[j].on THEN Scheduled(l.mem[j]) ELSE l.mem[j]]
<1>1. /\ mem' = m /\ disk' = m /\ log' = l.log /\ Arm(m) /\ echoed \subseteq echoed'
      /\ UNCHANGED <<now, born, done>>
  BY DEF Start, Loaded, Read
<1>2. l.log \in {log, <<>>} /\ l.mem \in JobLists
  BY LoadTyped DEF IndInv
<1>3. timer' = "armed" /\ cur' = {} /\ rest' = {} /\ adrift' = FALSE
  BY <1>1 DEF Arm
<1>4. Quiet(m, done, echoed')
  <2> HIDE DEF l
  <2> SUFFICES ASSUME NEW p \in done, p[1] \in DOMAIN m, m[p[1]].on
               PROVE  m[p[1]].next # p[2]
    BY DEF Quiet
  <2>1. p[2] \in 1 .. now /\ now \in 0 .. MaxTime
    BY DoneBefore DEF Taken
  <2>2. l.mem[p[1]] \in JobRec
    BY <1>2, ListIs
  <2>3. m[p[1]] = Scheduled(l.mem[p[1]]) /\ l.mem[p[1]].on
    OBVIOUS
  <2> HIDE DEF m
  <2>4. m[p[1]].next = NextRun(l.mem[p[1]].sched, now) /\ l.mem[p[1]].sched \in Nat
    BY <2>2, <2>3, CronAssumption DEF Scheduled, JobRec
  <2> QED
    BY <2>1, <2>4, CronAssumption DEF NextRun
<1> HIDE DEF m, l
<1>5. Known'
  BY <1>1, <1>2, <1>3, KnownRead DEF Taken
<1> QED
  BY <1>1, <1>3, <1>4, <1>5, Idle

LEMMA ClientAddRuns ==
  ASSUME IndInv, RunInv, NEW j \in UserJobs, NEW s \in Schedules, NEW once \in BOOLEAN,
         ClientAdd(j, s, once)
  PROVE  RunInv' /\ NoSecondRun
<1> DEFINE line == [action |-> "add", job |-> j, rec |-> NewJob(s, once)]
<1>1. /\ j \notin born /\ log' = Append(log, line) /\ born' = born \cup {j}
      /\ UNCHANGED <<now, disk, phase, mem, tick, run, done, echoed>>
  BY DEF ClientAdd
<1>2. line \in AddLines /\ now \in Nat
  <2>1. now \in 0 .. MaxTime /\ s \in 0 .. MaxTime
    BY UntoldLists DEF Schedules
  <2> QED
    BY <2>1, NewJobTyped DEF AddLines
<1>3. line.job = j /\ line.action = "add"
  OBVIOUS
<1> HIDE DEF line
<1>4. Added' = Added \cup {j} /\ j \in Jobs
  BY <1>1, <1>2, <1>3, Appended DEF Jobs
<1>5. Known'
  BY <1>1, <1>2, <1>4, KnownStays DEF RunInv, Taken, tick
<1>6. AskedIsOn' /\ QuietUp'
  BY <1>1 DEF RunInv, AskedIsOn, QuietUp, tick
<1> QED
  BY <1>1, <1>5, <1>6, TimerAlone

LEMMA ClientRemoveRuns ==
  ASSUME IndInv, RunInv, NEW j \in UserJobs, ClientRemove(j)
  PROVE  RunInv' /\ NoSecondRun
<1> DEFINE line == [action |-> "del", job |-> j]
<1>1. /\ log' = Append(log, line)
      /\ UNCHANGED <<now, disk, phase, mem, tick, run, born, done, echoed>>
  BY DEF ClientRemove
<1>2. line \in DelLines /\ line.job = j /\ line.action = "del" /\ now \in Nat
  BY UntoldLists DEF DelLines
<1> HIDE DEF line
<1>3. Added' = Added
  BY <1>1, <1>2, Appended
<1>4. Known'
  BY <1>1, <1>2, <1>3, KnownStays DEF RunInv, Taken, tick
<1>5. AskedIsOn' /\ QuietUp'
  BY <1>1 DEF RunInv, AskedIsOn, QuietUp, tick
<1> QED
  BY <1>1, <1>4, <1>5, TimerAlone

\* The file becomes unreadable or is moved aside, and the clock goes on.
LEMMA OutsideRuns ==
  ASSUME IndInv, RunInv, ClientRead \/ Spoil \/ Clock
  PROVE  RunInv' /\ NoSecondRun
<1>1. /\ UNCHANGED <<log, phase, mem, tick, run, born, done, echoed>>
      /\ disk' \in {NoJobs, Bad, disk} /\ now' \in {now, now + 1}
  BY DEF ClientRead, Spoil, Clock, ghosts
<1>2. Added' \subseteq Added /\ now \in Nat
  BY <1>1, LogSame
<1>3. Known'
  BY <1>1, <1>2, KnownStays DEF RunInv, Taken, tick
<1>4. Quiet(NoJobs, done, echoed)
  BY NoJobsTyped DEF Quiet
<1>5. AskedIsOn' /\ QuietUp'
  BY <1>1, <1>4 DEF RunInv, AskedIsOn, QuietUp, tick
<1> QED
  BY <1>1, <1>3, <1>5, TimerAlone

LEMMA DownRuns ==
  ASSUME IndInv, RunInv, Crash \/ CrashInMerge
  PROVE  RunInv' /\ NoSecondRun
<1>1. /\ phase' = "down" /\ Dead /\ log' \in {log, <<>>}
      /\ UNCHANGED <<now, born, done, echoed>>
  BY DEF Crash, CrashInMerge, Down, LogLost
<1>2. timer' = "dead" /\ cur' = {} /\ rest' = {} /\ adrift' = FALSE
  BY <1>1 DEF Dead
<1>3. Known'
  BY <1>1, <1>2, KnownRead DEF Taken
<1> QED
  BY <1>1, <1>2, <1>3, Idle

LEMMA MergeFailsRuns ==
  ASSUME IndInv, RunInv, MergeFails
  PROVE  RunInv' /\ NoSecondRun
<1>1. /\ phase = "up" /\ timer # "busy" /\ disk # Bad /\ disk' = disk /\ log' = <<>>
      /\ mem' = Merged.jobs /\ UNCHANGED <<now, phase, born, done, echoed>>
      /\ UNCHANGED tick \/ Dead
  BY DEF MergeFails, Merging, LogLost
<1>2. Quiet(Merged.jobs, done, echoed) /\ Quiet(disk, done, echoed)
  BY <1>1, MergedQuiet DEF RunInv, QuietUp
<1>3. CASE UNCHANGED tick
  <2>1. Known'
    BY <1>1, <1>3, KnownRead DEF Taken, tick
  <2>2. AskedIsOn' /\ QuietUp'
    BY <1>1, <1>2, <1>3 DEF AskedIsOn, QuietUp, tick
  <2> QED
    BY <1>1, <1>3, <2>1, <2>2, TimerAlone
<1>4. CASE Dead
  <2>1. timer' = "dead" /\ cur' = {} /\ rest' = {} /\ adrift' = FALSE
    BY <1>4 DEF Dead
  <2>2. Known'
    BY <1>1, <2>1, KnownRead DEF Taken
  <2> QED
    BY <1>1, <1>2, <2>1, <2>2, Idle
<1> QED
  BY <1>1, <1>3, <1>4

LEMMA StopTurnRuns ==
  ASSUME IndInv, RunInv, StopTurn
  PROVE  RunInv' /\ NoSecondRun
<1>1. /\ UNCHANGED <<now, disk, log, phase, mem, run, born, done, echoed>>
      /\ UNCHANGED <<timer, cur, rest, adrift>>
  BY DEF StopTurn, ghosts
<1>2. Known'
  BY <1>1, KnownRead DEF Taken
<1>3. OnceEach' /\ AskedIsOn' /\ QuietUp' /\ ~adrift'
  BY <1>1 DEF RunInv, OnceEach, AskedIsOn, QuietUp
<1> QED
  BY <1>1, <1>2, <1>3 DEF RunInv, NoSecondRun

LEMMA StepRuns == IndInv /\ IndInv' /\ RunInv /\ [Next]_vars => RunInv' /\ NoSecondRun
<1> SUFFICES ASSUME IndInv, IndInv', RunInv, [Next]_vars PROVE RunInv' /\ NoSecondRun
  OBVIOUS
<1>1. CASE ClientRead \/ Spoil \/ Clock
  BY <1>1, OutsideRuns
<1>2. CASE Register
  BY <1>2, RegisterRuns
<1>3. CASE Start
  BY <1>3, StartRuns
<1>4. CASE Tick
  BY <1>4, TickRuns
<1>5. CASE FinishTick
  BY <1>5, FinishTickRuns
<1>6. CASE Poll
  BY <1>6, PollRuns
<1>7. ASSUME NEW j \in UserJobs, NEW s \in Schedules, NEW once \in BOOLEAN,
             AddJob(j, s, once) \/ UpdateJob(j, s, once) \/ ClientAdd(j, s, once)
      PROVE  RunInv' /\ NoSecondRun
  BY <1>7, AddJobRuns, UpdateJobRuns, ClientAddRuns
<1>8. ASSUME NEW j \in UserJobs,
             RemoveJob(j) \/ ClientRemove(j) \/ \E on \in BOOLEAN : EnableJob(j, on)
      PROVE  RunInv' /\ NoSecondRun
  BY <1>8, RemoveJobRuns, ClientRemoveRuns, EnableJobRuns
<1>9. ASSUME NEW j \in UserJobs, RequestRun(j) \/ BeginRun(j) \/ FinishRun(j)
      PROVE  RunInv' /\ NoSecondRun
  BY <1>9, RequestRunRuns, BeginRunRuns, FinishRunRuns
<1>10. CASE Crash \/ CrashInMerge
  BY <1>10, DownRuns
<1>11. CASE MergeFails
  BY <1>11, MergeFailsRuns
<1>13. CASE StopTurn
  BY <1>13, StopTurnRuns
<1>12. CASE UNCHANGED vars
  <2>1. UNCHANGED <<now, disk, log, phase, mem, tick, run, born, done, echoed>>
    BY <1>12 DEF vars, ghosts
  <2>2. Known'
    BY <2>1, KnownRead DEF Taken, tick
  <2>3. AskedIsOn' /\ QuietUp'
    BY <2>1 DEF RunInv, AskedIsOn, QuietUp, tick
  <2> QED
    BY <2>1, <2>2, <2>3, TimerAlone
<1> QED
  BY <1>1, <1>2, <1>3, <1>4, <1>5, <1>6, <1>7, <1>8, <1>9, <1>10, <1>11, <1>12, <1>13
  DEF Next

(* The timer starts no run for a due time that it has already run to the end, *)
(* whatever polls, runs by hand, edits, failed saves, crashes and restarts    *)
(* come between (CronService._on_timer, _execute_job, _load_store, start).    *)
THEOREM RunsOnce == Spec => RunOncePerDue
<1>1. Init => RunInv
  BY DEF Init, RunInv, Known, Taken, OnceEach, AskedIsOn, QuietUp
<1>2. IndInv /\ IndInv' /\ RunInv /\ [Next]_vars =>
        RunInv' /\ [\A p \in cur' \ cur : p \notin done \/ p[1] \in echoed]_vars
  BY StepRuns DEF NoSecondRun
<1> QED
  BY <1>1, <1>2, Inductive, PTL DEF Spec, RunOncePerDue
=============================================================================

----------------------- MODULE AutomationTurnsProofs -----------------------
(***************************************************************************)
(* What AutomationTurns promises for any number of deliveries, sessions,    *)
(* turns and messages, whatever crashes, stops and faults there are: no     *)
(* delivery is lost, none is in two directories while the gateway runs, and *)
(* none has another turn without a crash or a fault that accounts for it.   *)
(*                                                                         *)
(* The queue is argued about with its own actions, and an automation is     *)
(* answered only when its turn has ended, which is all the queue needs of   *)
(* the loop.                                                                *)
(***************************************************************************)
EXTENDS AutomationTurns, FiniteSetTheorems, SequenceTheorems, TLAPS

File == Nat \cup {Absent}

QueueTypes ==
  /\ made \in [Delivery -> File] /\ inbox \in [Delivery -> File]
  /\ processing \in [Delivery -> File] /\ failed \in [Delivery -> File]
  /\ attempts \in [Delivery -> Nat] /\ batch \in Seq(Delivery)
  /\ up \in BOOLEAN /\ submitted \in BOOLEAN
  /\ (submitted => batch # <<>>) /\ (~up => batch = <<>>)

\* A claimed delivery is in processing or nowhere, once, as it was read.
BatchIsClaimed ==
  /\ \A i \in 1 .. Len(batch) :
       /\ inbox[batch[i]] = Absent /\ failed[batch[i]] = Absent
       /\ processing[batch[i]] \in {Absent, attempts[batch[i]]}
       /\ made[batch[i]] # Absent
  /\ \A i, j \in 1 .. Len(batch) : batch[i] = batch[j] => i = j

\* A second copy is the one the retry of the first would write again.
CopiesAgree ==
  \A d \in Delivery :
    /\ inbox[d] = Absent \/ failed[d] = Absent
    /\ processing[d] # Absent =>
         /\ inbox[d] # Absent => processing[d] + 1 < MaxAttempts
         /\ failed[d] # Absent => processing[d] + 1 >= MaxAttempts

FilesAreMade == \A d \in OnDisk : made[d] # Absent

OneAtATime ==
  up => \A d \in Delivery : processing[d] # Absent => inbox[d] = Absent /\ failed[d] = Absent

QueueInv == QueueTypes /\ BatchIsClaimed /\ CopiesAgree /\ FilesAreMade /\ OneAtATime
-----------------------------------------------------------------------------
(* The queue. *)

LEMMA BatchFacts ==
  ASSUME QueueTypes, batch # <<>>
  PROVE  /\ Len(batch) \in Nat \ {0} /\ First = batch[1] /\ First \in Delivery
         /\ Tail(batch) \in Seq(Delivery) /\ Len(Tail(batch)) = Len(batch) - 1
         /\ \A i \in 1 .. Len(batch) : batch[i] \in Delivery
         /\ \A i \in 1 .. Len(batch) - 1 : Tail(batch)[i] = batch[i + 1]
BY DEF QueueTypes, First

LEMMA Counting == /\ MaxAttempts \in Nat \ {0} /\ Absent \notin Nat
                  /\ \A n \in Nat : n + 1 \in Nat /\ n + 1 # Absent /\ n # Absent
BY QueueAssumption

\* Once the first of the batch is dealt with, its file unlinked or written again.
LEMMA AdvanceKeeps ==
  ASSUME QueueInv, up, batch # <<>>,
         inbox' \in [Delivery -> File], processing' \in [Delivery -> File],
         failed' \in [Delivery -> File],
         processing'[First] = Absent,
         inbox'[First] = Absent \/ failed'[First] = Absent,
         \A d \in Delivery \ {First} :
           inbox'[d] = inbox[d] /\ failed'[d] = failed[d] /\ processing'[d] = processing[d],
         made' = made, up' = up, Advance
  PROVE  QueueInv'
<1> USE DEF QueueInv
<1>0. /\ Len(batch) \in Nat \ {0} /\ First = batch[1] /\ First \in Delivery
      /\ Tail(batch) \in Seq(Delivery) /\ Len(Tail(batch)) = Len(batch) - 1
      /\ \A i \in 1 .. Len(batch) : batch[i] \in Delivery
      /\ \A i \in 1 .. Len(batch) - 1 : Tail(batch)[i] = batch[i + 1]
  BY BatchFacts
<1>a. batch' = Tail(batch) /\ attempts' = attempts /\ submitted' = FALSE
  BY DEF Advance
<1>1. QueueTypes'
  BY <1>0, <1>a DEF QueueTypes
<1>2. BatchIsClaimed'
  <2>1. \A i \in 1 .. Len(batch') :
          /\ i + 1 \in 1 .. Len(batch) /\ batch'[i] = batch[i + 1]
          /\ batch'[i] \in Delivery \ {First}
    BY <1>0, <1>a DEF BatchIsClaimed
  <2> QED
    BY <2>1, <1>0, <1>a DEF BatchIsClaimed
<1>3. CopiesAgree'
  BY <1>0 DEF CopiesAgree
<1>4. FilesAreMade'
  BY <1>0 DEF FilesAreMade, OnDisk, Files, BatchIsClaimed
<1>5. OneAtATime'
  BY <1>0 DEF OneAtATime
<1> QED
  BY <1>1, <1>2, <1>3, <1>4, <1>5

LEMMA RetryFiles ==
  ASSUME QueueInv, batch # <<>>, Retry(First)
  PROVE  /\ inbox' \in [Delivery -> File] /\ processing' \in [Delivery -> File]
         /\ failed' \in [Delivery -> File] /\ First \in Delivery
         /\ processing'[First] = Absent
         /\ inbox'[First] = Absent \/ failed'[First] = Absent
         /\ inbox'[First] # Absent \/ failed'[First] # Absent
         /\ \A d \in Delivery \ {First} :
              inbox'[d] = inbox[d] /\ failed'[d] = failed[d] /\ processing'[d] = processing[d]
<1>0. /\ First = batch[1] /\ First \in Delivery /\ 1 \in 1 .. Len(batch)
      /\ inbox[First] = Absent /\ failed[First] = Absent
  BY BatchFacts DEF QueueInv, BatchIsClaimed
<1>1. attempts[First] \in Nat /\ attempts[First] + 1 \in Nat /\ attempts[First] + 1 # Absent
  BY <1>0, Counting DEF QueueInv, QueueTypes
<1>2. /\ inbox \in [Delivery -> File] /\ processing \in [Delivery -> File]
      /\ failed \in [Delivery -> File] /\ attempts \in [Delivery -> Nat]
  BY DEF QueueInv, QueueTypes
<1>3. /\ processing' = [d \in Delivery |-> IF d = First THEN Absent ELSE processing[d]]
      /\ inbox' = [d \in Delivery |-> IF d = First /\ attempts[First] + 1 < MaxAttempts
                                      THEN attempts[First] + 1 ELSE inbox[d]]
      /\ failed' = [d \in Delivery |-> IF d = First /\ attempts[First] + 1 >= MaxAttempts
                                       THEN attempts[First] + 1 ELSE failed[d]]
  BY DEF Retry, Rewrite, Unlink
<1>4. attempts[First] + 1 >= MaxAttempts <=> ~(attempts[First] + 1 < MaxAttempts)
  <2>1. \A x, y \in Nat : x >= y <=> ~(x < y)
    OBVIOUS
  <2> QED
    BY <2>1, <1>1, Counting
<1>5. /\ inbox' \in [Delivery -> File] /\ processing' \in [Delivery -> File]
      /\ failed' \in [Delivery -> File]
  BY <1>1, <1>2, <1>3 DEF File
<1>6. \A d \in Delivery \ {First} :
        inbox'[d] = inbox[d] /\ failed'[d] = failed[d] /\ processing'[d] = processing[d]
  BY <1>3
<1>7. /\ processing'[First] = Absent
      /\ inbox'[First] = Absent \/ failed'[First] = Absent
      /\ inbox'[First] # Absent \/ failed'[First] # Absent
  BY <1>0, <1>1, <1>3, <1>4
<1> QED
  BY <1>0, <1>5, <1>6, <1>7

LEMMA ClaimKeeps ==
  ASSUME QueueInv, Claim
  PROVE  QueueInv' /\ OnDisk \subseteq OnDisk'
<1> USE DEF QueueInv
<1>n. PICK n \in 1 .. BatchSize : \E q \in [1 .. n -> Files(inbox)] :
        /\ Oldest(q, n) /\ batch' = q
        /\ attempts' = [d \in Delivery |-> IF d \in {q[i] : i \in 1 .. n} THEN inbox[d] ELSE attempts[d]]
        /\ processing' = [d \in Delivery |-> IF d \in {q[i] : i \in 1 .. n} THEN inbox[d] ELSE processing[d]]
        /\ inbox' = [d \in Delivery |-> IF d \in {q[i] : i \in 1 .. n} THEN Absent ELSE inbox[d]]
  BY DEF Claim, Take
<1>0. PICK q \in [1 .. n -> Files(inbox)] :
        /\ Oldest(q, n) /\ batch' = q
        /\ attempts' = [d \in Delivery |-> IF d \in {q[i] : i \in 1 .. n} THEN inbox[d] ELSE attempts[d]]
        /\ processing' = [d \in Delivery |-> IF d \in {q[i] : i \in 1 .. n} THEN inbox[d] ELSE processing[d]]
        /\ inbox' = [d \in Delivery |-> IF d \in {q[i] : i \in 1 .. n} THEN Absent ELSE inbox[d]]
  BY <1>n
<1> DEFINE taken == {q[i] : i \in 1 .. n}
<1>1. /\ up /\ up' = up /\ made' = made /\ failed' = failed /\ submitted' = submitted
      /\ batch = <<>> /\ ~submitted
  BY DEF Claim, QueueTypes
<1>2. /\ n \in Nat \ {0} /\ batch' \in Seq(Delivery) /\ Len(batch') = n /\ batch' # <<>>
      /\ \A i \in 1 .. n : batch'[i] = q[i]
  <2>1. n \in Nat \ {0}
    BY QueueAssumption
  <2>2. q \in [1 .. n -> Delivery]
    BY DEF Files
  <2>3. q \in Seq(Delivery) /\ Len(q) = n
    BY <2>1, <2>2
  <2> QED
    BY <2>1, <2>3, <1>0
<1>3. taken \subseteq Delivery /\ \A d \in taken : inbox[d] \in Nat /\ inbox[d] # Absent
  BY DEF Files, QueueTypes, File
<1>4. \A d \in taken : failed[d] = Absent /\ processing[d] = Absent /\ made[d] # Absent
  BY <1>1, <1>3 DEF OneAtATime, CopiesAgree, FilesAreMade, OnDisk, Files, QueueTypes
<1>5. /\ \A d \in taken : attempts'[d] = inbox[d] /\ processing'[d] = inbox[d] /\ inbox'[d] = Absent
      /\ \A d \in Delivery \ taken :
           attempts'[d] = attempts[d] /\ processing'[d] = processing[d] /\ inbox'[d] = inbox[d]
      /\ inbox' \in [Delivery -> File] /\ processing' \in [Delivery -> File]
      /\ attempts' \in [Delivery -> Nat]
  <2> HIDE DEF taken
  <2>0. /\ attempts' = [d \in Delivery |-> IF d \in taken THEN inbox[d] ELSE attempts[d]]
        /\ processing' = [d \in Delivery |-> IF d \in taken THEN inbox[d] ELSE processing[d]]
        /\ inbox' = [d \in Delivery |-> IF d \in taken THEN Absent ELSE inbox[d]]
    BY <1>0 DEF taken
  <2>1. inbox \in [Delivery -> File] /\ processing \in [Delivery -> File] /\ attempts \in [Delivery -> Nat]
    BY DEF QueueTypes
  <2> QED
    BY <2>0, <2>1, <1>3 DEF File
<1>6. \A i \in 1 .. n : batch'[i] \in taken
  BY <1>2
<1> HIDE DEF taken
<1>7. QueueTypes'
  BY <1>1, <1>2, <1>5 DEF QueueTypes
<1>8. BatchIsClaimed'
  <2>1. \A i \in 1 .. n : /\ inbox'[batch'[i]] = Absent /\ failed'[batch'[i]] = Absent
                          /\ processing'[batch'[i]] = attempts'[batch'[i]] /\ made'[batch'[i]] # Absent
    BY <1>1, <1>4, <1>5, <1>6
  <2>2. ASSUME NEW i \in 1 .. n, NEW j \in 1 .. n, batch'[i] = batch'[j] PROVE i = j
    <3>1. made[q[i]] \in Nat /\ made[q[j]] \in Nat
      <4>1. made \in [Delivery -> File]
        BY DEF QueueTypes
      <4>2. q[i] \in taken /\ q[j] \in taken
        BY <1>2, <1>6
      <4>3. \A d \in taken : made[d] \in File /\ made[d] # Absent
        BY <1>3, <1>4, <4>1
      <4> QED
        BY <4>2, <4>3 DEF File
    <3>2. \A k, l \in 1 .. n : k < l => made[q[k]] < made[q[l]]
      BY <1>0 DEF Oldest
    <3>3. q[i] = q[j]
      BY <2>2, <1>2
    <3>4. ~(i < j) /\ ~(j < i)
      <4> DEFINE x == made[q[i]]
      <4>1. ~(x < x)
        BY <3>1
      <4> QED
        BY <4>1, <3>2, <3>3
    <3> QED
      BY <3>4, <1>2
  <2> QED
    BY <2>1, <2>2, <1>2 DEF BatchIsClaimed
<1>9. CopiesAgree' /\ OneAtATime'
  BY <1>1, <1>3, <1>4, <1>5 DEF CopiesAgree, OneAtATime
<1>10. FilesAreMade' /\ OnDisk \subseteq OnDisk'
  BY <1>1, <1>3, <1>4, <1>5 DEF FilesAreMade, OnDisk, Files
<1> QED
  BY <1>7, <1>8, <1>9, <1>10

\* A step takes no file away but of a delivery in ok, refused, or whose trigger is gone.
Accounted(ok) ==
  /\ \A d \in Delivery : made'[d] # Absent => made[d] # Absent \/ d \in OnDisk'
  /\ \A d \in OnDisk : d \in OnDisk' \/ d \in ok \cup refused' \/ trigger'[d] = "gone"
  /\ refused \subseteq refused'
  /\ \A d \in Delivery : trigger[d] = "gone" => trigger'[d] = "gone"

LEMMA OutsideKeeps ==
  ASSUME QueueInv, trigger \in [Delivery -> {"on", "off", "gone"}], NEW d \in Delivery,
         Enqueue(d) \/ Delete(d) \/ \E on \in BOOLEAN : Enable(d, on)
  PROVE  QueueInv' /\ Accounted({}) /\ trigger' \in [Delivery -> {"on", "off", "gone"}]
<1> USE DEF QueueInv
<1>1. CASE Enqueue(d)
  <2>0. /\ made[d] = Absent /\ inbox' = [inbox EXCEPT ![d] = 0]
        /\ \E n \in Nat : made' = [made EXCEPT ![d] = n]
        /\ UNCHANGED <<processing, failed, trigger, up, batch, attempts, submitted, refused>>
    <3>1. made' = [made EXCEPT ![d] = Cardinality(Files(made))]
      BY <1>1 DEF Enqueue
    <3>2. Cardinality(Files(made)) \in Nat
      BY QueueAssumption, FS_Subset, FS_CardinalityType DEF Files
    <3> QED
      BY <1>1, <3>1, <3>2 DEF Enqueue, runner
  <2>1. inbox[d] = Absent /\ processing[d] = Absent /\ failed[d] = Absent
    BY <2>0 DEF FilesAreMade, OnDisk, Files
  <2>2. \A i \in 1 .. Len(batch) : batch[i] \in Delivery \ {d}
    BY <2>0 DEF BatchIsClaimed, QueueTypes
  <2>3. QueueTypes'
    <3>1. 0 \in File /\ \A n \in Nat : n \in File
      BY DEF File
    <3>2. made \in [Delivery -> File] /\ inbox \in [Delivery -> File]
      BY DEF QueueTypes
    <3>3. inbox' \in [Delivery -> File]
      BY <2>0, <3>1, <3>2
    <3>4. made' \in [Delivery -> File]
      BY <2>0, <3>1, <3>2
    <3> QED
      BY <2>0, <3>3, <3>4 DEF QueueTypes
  <2>4. BatchIsClaimed'
    BY <2>0, <2>2 DEF BatchIsClaimed, QueueTypes
  <2>5. CopiesAgree' /\ FilesAreMade' /\ OneAtATime'
    BY <2>0, <2>1, Counting
    DEF CopiesAgree, FilesAreMade, OneAtATime, OnDisk, Files, QueueTypes
  <2>6. Accounted({})
    BY <2>0, <2>1, Counting DEF Accounted, OnDisk, Files, QueueTypes
  <2> QED
    BY <2>0, <2>3, <2>4, <2>5, <2>6
<1>2. CASE Delete(d)
  <2>0. /\ trigger' = [trigger EXCEPT ![d] = "gone"]
        /\ inbox' = [inbox EXCEPT ![d] = Absent]
        /\ processing' = [processing EXCEPT ![d] = Absent]
        /\ failed' = [failed EXCEPT ![d] = Absent]
        /\ UNCHANGED <<made, up, batch, attempts, submitted, refused>>
    BY <1>2 DEF Delete, runner
  <2>1. QueueTypes'
    BY <2>0 DEF QueueTypes, File
  <2>2. BatchIsClaimed'
    BY <2>0 DEF BatchIsClaimed, QueueTypes
  <2>3. CopiesAgree' /\ FilesAreMade' /\ OneAtATime'
    BY <2>0 DEF CopiesAgree, FilesAreMade, OneAtATime, OnDisk, Files, QueueTypes
  <2>4. Accounted({})
    BY <2>0 DEF Accounted, OnDisk, Files, QueueTypes
  <2> QED
    BY <2>0, <2>1, <2>2, <2>3, <2>4
<1>3. CASE \E on \in BOOLEAN : Enable(d, on)
  <2>0. /\ \E t \in {"on", "off"} : trigger' = [trigger EXCEPT ![d] = t]
        /\ trigger[d] # "gone"
        /\ UNCHANGED <<made, inbox, processing, failed, up, batch, attempts, submitted, refused>>
    BY <1>3 DEF Enable, runner, files
  <2>1. QueueInv'
    BY <2>0
    DEF QueueTypes, BatchIsClaimed, CopiesAgree, FilesAreMade, OneAtATime, OnDisk, Files
  <2>2. Accounted({})
    BY <2>0 DEF Accounted, OnDisk, Files
  <2> QED
    BY <2>0, <2>1, <2>2
<1> QED
  BY <1>1, <1>2, <1>3

LEMMA UnlinkKeeps ==
  ASSUME QueueInv, up, batch # <<>>, Unlink({First}), Advance,
         UNCHANGED <<made, inbox, failed, trigger, up>>, refused \subseteq refused'
  PROVE  QueueInv' /\ First \in Delivery /\ Accounted({First})
<1>1. First \in Delivery /\ (inbox[First] = Absent \/ failed[First] = Absent)
  BY BatchFacts DEF QueueInv, CopiesAgree
<1>2. processing' = [d \in Delivery |-> IF d = First THEN Absent ELSE processing[d]]
  BY DEF Unlink
<1>3. /\ processing' \in [Delivery -> File] /\ processing'[First] = Absent
      /\ \A d \in Delivery \ {First} : processing'[d] = processing[d]
  BY <1>1, <1>2 DEF QueueInv, QueueTypes, File
<1>4. inbox' \in [Delivery -> File] /\ failed' \in [Delivery -> File]
  BY DEF QueueInv, QueueTypes
<1>5. QueueInv'
  BY <1>1, <1>3, <1>4, AdvanceKeeps
<1>6. Accounted({First})
  BY <1>1, <1>3 DEF Accounted, OnDisk, Files
<1> QED
  BY <1>1, <1>5, <1>6

LEMMA LoopKeeps ==
  ASSUME QueueInv, Claim \/ Refuse \/ Submit \/ Fails
  PROVE  QueueInv' /\ trigger' = trigger /\ Accounted({})
<1>1. CASE Claim
  BY <1>1, ClaimKeeps DEF Claim, Accounted
<1>2. CASE Submit
  BY <1>2
  DEF Submit, files, QueueInv, QueueTypes, BatchIsClaimed, CopiesAgree, FilesAreMade,
              OneAtATime, Accounted, OnDisk, Files
<1>3. CASE Refuse
  <2>0. /\ up /\ batch # <<>> /\ Unlink({First}) /\ Advance
        /\ UNCHANGED <<made, inbox, failed, trigger, up>>
        /\ refused' = refused \cup {First}
    BY <1>3 DEF Refuse
  <2>1. QueueInv' /\ Accounted({First})
    BY <2>0, UnlinkKeeps
  <2> QED
    BY <2>0, <2>1 DEF Accounted
<1>4. CASE Fails
  <2>0. /\ up /\ batch # <<>> /\ Retry(First) /\ Advance
        /\ UNCHANGED <<made, trigger, up, refused>>
    BY <1>4 DEF Fails
  <2>1. QueueInv'
    BY <2>0, RetryFiles, AdvanceKeeps
  <2>2. Accounted({})
    BY <2>0, RetryFiles DEF Accounted, OnDisk, Files
  <2> QED
    BY <2>0, <2>1, <2>2
<1> QED
  BY <1>1, <1>2, <1>3, <1>4

\* With nothing claimed and the gateway down a file may have a copy.
LEMMA DownKeeps ==
  ASSUME QueueInv, inbox' \in [Delivery -> File], processing' \in [Delivery -> File],
         failed' \in [Delivery -> File], CopiesAgree', FilesAreMade', made' = made, Ends
  PROVE  QueueInv'
<1>1. up' = FALSE /\ batch' = <<>> /\ submitted' = FALSE /\ attempts' = attempts
  BY DEF Ends
<1>2. batch' \in Seq(Delivery) /\ Len(batch') = 0
  BY <1>1
<1>3. QueueTypes'
  BY <1>1, <1>2 DEF QueueInv, QueueTypes
<1>4. BatchIsClaimed' /\ OneAtATime'
  BY <1>1, <1>2 DEF BatchIsClaimed, OneAtATime
<1> QED
  BY <1>3, <1>4 DEF QueueInv

\* What Rewrite does to the files of set, which are in processing, tried count times.
LEMMA RewriteFiles ==
  ASSUME QueueInv, NEW set \in SUBSET Delivery, NEW count \in [Delivery -> File],
         inbox' = [d \in Delivery |-> IF d \in set /\ count[d] + 1 < MaxAttempts
                                      THEN count[d] + 1 ELSE inbox[d]],
         failed' = [d \in Delivery |-> IF d \in set /\ count[d] + 1 >= MaxAttempts
                                       THEN count[d] + 1 ELSE failed[d]],
         \A d \in set : count[d] # Absent /\ processing[d] \in {Absent, count[d]}
                        /\ (processing[d] = Absent => inbox[d] = Absent /\ failed[d] = Absent)
  PROVE  /\ inbox' \in [Delivery -> File] /\ failed' \in [Delivery -> File]
         /\ \A d \in Delivery : inbox'[d] = Absent \/ failed'[d] = Absent
         /\ \A d \in set : /\ inbox'[d] # Absent \/ failed'[d] # Absent
                           /\ inbox'[d] # Absent => count[d] + 1 < MaxAttempts
                           /\ failed'[d] # Absent => count[d] + 1 >= MaxAttempts
         /\ \A d \in Delivery \ set : inbox'[d] = inbox[d] /\ failed'[d] = failed[d]
<1>0. /\ inbox \in [Delivery -> File] /\ processing \in [Delivery -> File]
      /\ failed \in [Delivery -> File]
  BY DEF QueueInv, QueueTypes
<1>1. \A d \in set : count[d] \in Nat /\ count[d] + 1 \in File /\ count[d] + 1 # Absent
  BY Counting DEF File
<1>3. inbox' \in [Delivery -> File] /\ failed' \in [Delivery -> File]
  BY <1>0, <1>1
<1>4. \A d \in Delivery \ set : inbox'[d] = inbox[d] /\ failed'[d] = failed[d]
  OBVIOUS
<1>5. ASSUME NEW d \in set
      PROVE  /\ inbox'[d] = Absent \/ failed'[d] = Absent
             /\ inbox'[d] # Absent \/ failed'[d] # Absent
             /\ inbox'[d] # Absent => count[d] + 1 < MaxAttempts
             /\ failed'[d] # Absent => count[d] + 1 >= MaxAttempts
  <2>1. count[d] + 1 >= MaxAttempts <=> ~(count[d] + 1 < MaxAttempts)
    <3>1. \A x, y \in Nat : x >= y <=> ~(x < y)
      OBVIOUS
    <3> QED
      BY <3>1, <1>1, Counting
  <2>2. /\ inbox[d] # Absent => count[d] + 1 < MaxAttempts
        /\ failed[d] # Absent => count[d] + 1 >= MaxAttempts
    BY DEF QueueInv, CopiesAgree
  <2> QED
    BY <2>1, <2>2, <1>1
<1>6. \A d \in Delivery : inbox'[d] = Absent \/ failed'[d] = Absent
  BY <1>4, <1>5 DEF QueueInv, CopiesAgree
<1> QED
  BY <1>3, <1>4, <1>5, <1>6

LEMMA BootKeeps ==
  ASSUME QueueInv, Boot \/ CrashInBoot
  PROVE  QueueInv' /\ Accounted({}) /\ trigger' = trigger
<1>0. /\ ~up /\ batch = <<>> /\ submitted = FALSE /\ processing \in [Delivery -> File]
      /\ UNCHANGED <<made, trigger, batch, attempts, submitted, refused>> /\ up' \in BOOLEAN
  BY DEF Boot, CrashInBoot, runner, QueueInv, QueueTypes
<1>1. PICK set \in SUBSET Files(processing) :
        /\ Rewrite(set, processing)
        /\ \/ Unlink(set) /\ set = Files(processing)
           \/ processing' = processing /\ up' = FALSE
  BY <1>0 DEF Boot, CrashInBoot
<1>2. set \subseteq Delivery /\ \A d \in set : processing[d] # Absent
  BY DEF Files
<1>3. /\ inbox' \in [Delivery -> File] /\ failed' \in [Delivery -> File]
      /\ \A d \in Delivery : inbox'[d] = Absent \/ failed'[d] = Absent
      /\ \A d \in set : /\ inbox'[d] # Absent \/ failed'[d] # Absent
                        /\ inbox'[d] # Absent => processing[d] + 1 < MaxAttempts
                        /\ failed'[d] # Absent => processing[d] + 1 >= MaxAttempts
      /\ \A d \in Delivery \ set : inbox'[d] = inbox[d] /\ failed'[d] = failed[d]
  <2>0. PICK count \in [Delivery -> File] : count = processing
    BY <1>0
  <2>1. /\ inbox' = [d \in Delivery |-> IF d \in set /\ count[d] + 1 < MaxAttempts
                                        THEN count[d] + 1 ELSE inbox[d]]
        /\ failed' = [d \in Delivery |-> IF d \in set /\ count[d] + 1 >= MaxAttempts
                                         THEN count[d] + 1 ELSE failed[d]]
    BY <1>1, <2>0 DEF Rewrite
  <2>2. \A d \in set : count[d] # Absent /\ processing[d] \in {Absent, count[d]}
                       /\ (processing[d] = Absent => inbox[d] = Absent /\ failed[d] = Absent)
    BY <1>2, <2>0
  <2>3. set \in SUBSET Delivery
    BY <1>2
  <2>4. /\ inbox' \in [Delivery -> File] /\ failed' \in [Delivery -> File]
        /\ \A d \in Delivery : inbox'[d] = Absent \/ failed'[d] = Absent
        /\ \A d \in set : /\ inbox'[d] # Absent \/ failed'[d] # Absent
                          /\ inbox'[d] # Absent => count[d] + 1 < MaxAttempts
                          /\ failed'[d] # Absent => count[d] + 1 >= MaxAttempts
        /\ \A d \in Delivery \ set : inbox'[d] = inbox[d] /\ failed'[d] = failed[d]
    BY <2>1, <2>2, <2>3, RewriteFiles
  <2> QED
    BY <2>0, <2>4
<1>4. /\ processing' \in [Delivery -> File]
      /\ \A d \in Delivery : processing'[d] \in {Absent, processing[d]}
      /\ \A d \in Delivery \ set : processing'[d] = processing[d]
      /\ up' => \A d \in Delivery : processing'[d] = Absent
  <2>1. CASE Unlink(set) /\ set = Files(processing)
    <3>1. processing' = [d \in Delivery |-> IF d \in set THEN Absent ELSE processing[d]]
      BY <2>1 DEF Unlink
    <3> QED
      BY <1>0, <1>2, <2>1, <3>1 DEF File, Files
  <2>2. CASE processing' = processing /\ up' = FALSE
    BY <1>0, <2>2
  <2> QED
    BY <1>1, <2>1, <2>2
<1>5. CopiesAgree'
  BY <1>3, <1>4 DEF QueueInv, CopiesAgree
<1>6. FilesAreMade' /\ Accounted({})
  BY <1>0, <1>2, <1>3, <1>4 DEF QueueInv, FilesAreMade, Accounted, OnDisk, Files
<1>7. QueueTypes'
  BY <1>0, <1>3, <1>4 DEF QueueInv, QueueTypes
<1>8. Len(batch') = 0
  BY <1>0
<1>9. BatchIsClaimed' /\ OneAtATime'
  BY <1>4, <1>8 DEF BatchIsClaimed, OneAtATime
<1> QED
  BY <1>0, <1>5, <1>6, <1>7, <1>9 DEF QueueInv

LEMMA EndKeeps ==
  ASSUME QueueInv, Shutdown \/ Crash \/ CrashInClaim \/ CrashInRetry
  PROVE  QueueInv' /\ Accounted({}) /\ trigger' = trigger
<1>0. Ends /\ UNCHANGED <<made, trigger, refused>>
  BY DEF Shutdown, Crash, CrashInClaim, CrashInRetry
<1>1. CASE UNCHANGED files
  <2>1. QueueInv'
    BY <1>0, <1>1, DownKeeps
       DEF files, QueueInv, QueueTypes, CopiesAgree, FilesAreMade, OnDisk, Files
  <2> QED
    BY <1>0, <1>1, <2>1 DEF files, Accounted, OnDisk, Files
<1>2. CASE batch # <<>> /\ Retry(First)
  <2>1. CopiesAgree' /\ FilesAreMade' /\ Accounted({})
    BY <1>0, <1>2, RetryFiles, BatchFacts
       DEF QueueInv, CopiesAgree, FilesAreMade, OnDisk, Files, Accounted, BatchIsClaimed
  <2> QED
    BY <1>0, <1>2, <2>1, RetryFiles, DownKeeps
<1>3. CASE batch # <<>> /\ Rewrite({First}, attempts) /\ processing' = processing
  <2>0. /\ First = batch[1] /\ 1 \in 1 .. Len(batch) /\ First \in Delivery
        /\ attempts \in [Delivery -> File] /\ attempts[First] # Absent
    <3>1. First = batch[1] /\ 1 \in 1 .. Len(batch) /\ First \in Delivery
      BY <1>3, BatchFacts DEF QueueInv
    <3>2. attempts \in [Delivery -> Nat]
      BY DEF QueueInv, QueueTypes
    <3> QED
      BY <3>1, <3>2, Counting DEF File
  <2>1. /\ inbox[First] = Absent /\ failed[First] = Absent /\ made[First] # Absent
        /\ processing[First] \in {Absent, attempts[First]}
    BY <2>0 DEF QueueInv, BatchIsClaimed
  <2>2. /\ inbox' \in [Delivery -> File] /\ failed' \in [Delivery -> File]
        /\ \A d \in Delivery : inbox'[d] = Absent \/ failed'[d] = Absent
        /\ inbox'[First] # Absent \/ failed'[First] # Absent
        /\ inbox'[First] # Absent => attempts[First] + 1 < MaxAttempts
        /\ failed'[First] # Absent => attempts[First] + 1 >= MaxAttempts
        /\ \A d \in Delivery \ {First} : inbox'[d] = inbox[d] /\ failed'[d] = failed[d]
    <3>0. PICK count \in [Delivery -> File], set \in SUBSET Delivery :
            count = attempts /\ set = {First}
      BY <2>0
    <3>1. /\ inbox' = [d \in Delivery |-> IF d \in set /\ count[d] + 1 < MaxAttempts
                                          THEN count[d] + 1 ELSE inbox[d]]
          /\ failed' = [d \in Delivery |-> IF d \in set /\ count[d] + 1 >= MaxAttempts
                                           THEN count[d] + 1 ELSE failed[d]]
      BY <1>3, <2>0, <3>0 DEF Rewrite
    <3>2. \A d \in set : count[d] # Absent /\ processing[d] \in {Absent, count[d]}
                         /\ (processing[d] = Absent => inbox[d] = Absent /\ failed[d] = Absent)
      BY <2>0, <2>1, <3>0
    <3>3. /\ inbox' \in [Delivery -> File] /\ failed' \in [Delivery -> File]
          /\ \A d \in Delivery : inbox'[d] = Absent \/ failed'[d] = Absent
          /\ \A d \in set : /\ inbox'[d] # Absent \/ failed'[d] # Absent
                            /\ inbox'[d] # Absent => count[d] + 1 < MaxAttempts
                            /\ failed'[d] # Absent => count[d] + 1 >= MaxAttempts
          /\ \A d \in Delivery \ set : inbox'[d] = inbox[d] /\ failed'[d] = failed[d]
      BY <3>1, <3>2, RewriteFiles
    <3> QED
      BY <3>0, <3>3
  <2>3. CopiesAgree'
    BY <1>3, <2>1, <2>2 DEF QueueInv, CopiesAgree
  <2>4. FilesAreMade' /\ Accounted({})
    BY <1>0, <1>3, <2>1, <2>2 DEF QueueInv, FilesAreMade, OnDisk, Files, Accounted
  <2>5. QueueInv'
    BY <1>0, <1>3, <2>2, <2>3, <2>4, DownKeeps DEF QueueInv, QueueTypes
  <2> QED
    BY <1>0, <2>4, <2>5
<1>4. CASE CrashInClaim
  <2>1. /\ up /\ failed' = failed
        /\ \E n \in 1 .. BatchSize - 1 : \E q \in [1 .. n -> Files(inbox)] :
             Take({q[i] : i \in 1 .. n})
    BY <1>4 DEF CrashInClaim
  <2>2. PICK taken \in SUBSET Files(inbox) : Take(taken)
    BY <2>1
  <2>3. /\ processing' = [d \in Delivery |-> IF d \in taken THEN inbox[d] ELSE processing[d]]
        /\ inbox' = [d \in Delivery |-> IF d \in taken THEN Absent ELSE inbox[d]]
    BY <2>2 DEF Take
  <2>4. /\ inbox \in [Delivery -> File] /\ processing \in [Delivery -> File]
        /\ failed \in [Delivery -> File] /\ Absent \in File
    BY DEF QueueInv, QueueTypes, File
  <2>5. /\ \A d \in taken : /\ d \in Delivery /\ inbox[d] # Absent /\ processing[d] = Absent
                             /\ failed[d] = Absent /\ made[d] # Absent
    BY <2>1 DEF QueueInv, OneAtATime, CopiesAgree, FilesAreMade, OnDisk, Files
  <2>6. /\ inbox' \in [Delivery -> File] /\ processing' \in [Delivery -> File]
        /\ failed' \in [Delivery -> File]
    BY <2>1, <2>3, <2>4
  <2>7. CopiesAgree' /\ FilesAreMade' /\ Accounted({})
    BY <1>0, <2>1, <2>3, <2>5
       DEF QueueInv, CopiesAgree, FilesAreMade, OneAtATime, OnDisk, Files, Accounted
  <2> QED
    BY <1>0, <2>6, <2>7, DownKeeps
<1> QED
  BY <1>1, <1>2, <1>3, <1>4 DEF Shutdown, Crash, CrashInRetry, QueueInv, QueueTypes
-----------------------------------------------------------------------------
(* The loop answers nobody before the turn has ended. *)

Triggers == trigger \in [Delivery -> {"on", "off", "gone"}]

Answers ==
  /\ answer \in [Automation -> {"none", "ok", "error"}]
  /\ \A m \in Automation : answer[m] # "none" => m \in ended

Kept == QueueInv /\ Triggers /\ Answers /\ AtLeastOnce

LEMMA AccountedKeeps ==
  ASSUME AtLeastOnce, NEW ok \in SUBSET ended', Accounted(ok), ended \subseteq ended'
  PROVE  AtLeastOnce'
BY DEF AtLeastOnce, Accounted, OnDisk, Files

LEMMA InitKept == ASSUME Init PROVE Kept
<1>1. QueueTypes
  <2>1. /\ made = NoFiles /\ inbox = NoFiles /\ processing = NoFiles /\ failed = NoFiles
        /\ up = FALSE /\ batch = <<>> /\ submitted = FALSE
        /\ attempts = [d \in Delivery |-> 0]
    BY DEF Init, QueueInit
  <2>2. NoFiles \in [Delivery -> File]
    BY DEF NoFiles, File
  <2>3. batch \in Seq(Delivery) /\ attempts \in [Delivery -> Nat]
    BY <2>1
  <2>4. /\ made \in [Delivery -> File] /\ inbox \in [Delivery -> File]
        /\ processing \in [Delivery -> File] /\ failed \in [Delivery -> File]
    BY <2>1, <2>2
  <2> QED
    BY <2>1, <2>3, <2>4 DEF QueueTypes
<1>2. \A d \in Delivery : /\ made[d] = Absent /\ inbox[d] = Absent
                          /\ processing[d] = Absent /\ failed[d] = Absent
  BY DEF Init, QueueInit, NoFiles
<1>3. Len(batch) = 0
  BY DEF Init, QueueInit
<1>4. BatchIsClaimed /\ CopiesAgree /\ FilesAreMade /\ OneAtATime /\ AtLeastOnce
  BY <1>2, <1>3
  DEF BatchIsClaimed, CopiesAgree, FilesAreMade, OneAtATime, AtLeastOnce, OnDisk, Files
<1>5. Triggers /\ Answers
  BY DEF Init, QueueInit, NoLoop, Triggers, Answers
<1> QED
  BY <1>1, <1>4, <1>5 DEF Kept, QueueInv

LEMMA QueueUnchanged ==
  ASSUME QueueInv, Triggers, UNCHANGED <<made, files, trigger, up, runner, refused>>
  PROVE  QueueInv' /\ Triggers' /\ Accounted({})
<1>1. UNCHANGED <<made, inbox, processing, failed, trigger, up, batch, attempts, submitted, refused>>
  BY DEF files, runner
<1> QED
  BY <1>1 DEF QueueInv, QueueTypes, BatchIsClaimed, CopiesAgree, FilesAreMade, OneAtATime,
              Triggers, Accounted, OnDisk, Files

LEMMA AnsweredKeeps ==
  ASSUME Answers, NEW m, NEW how \in {"ok", "error"}, Answered(m, how)
  PROVE  Answers' /\ ended \subseteq ended'
<1>1. ended' = ended \cup ({m} \cap Automation)
  BY DEF Answered
<1>2. answer' = answer \/ answer' = [answer EXCEPT ![m] = how]
  BY DEF Answered
<1>3. answer' \in [Automation -> {"none", "ok", "error"}]
  BY <1>2 DEF Answers
<1>4. \A a \in Automation : answer'[a] # "none" => a = m \/ answer[a] # "none"
  BY <1>2 DEF Answers
<1> QED
  BY <1>1, <1>3, <1>4 DEF Answers

LEMMA StepKept == ASSUME Kept, [Next]_vars PROVE Kept'
<1> USE DEF Kept
<1>a. ASSUME QueueInv', Triggers', Answers', Accounted({}), ended \subseteq ended' PROVE Kept'
  BY <1>a, AccountedKeeps
<1>b. ASSUME UNCHANGED <<answer, ended>> PROVE Answers' /\ ended \subseteq ended'
  BY <1>b DEF Answers
<1>1. CASE UNCHANGED turnVars /\ \E d \in Delivery : Enqueue(d) \/ Delete(d) \/ \E on \in BOOLEAN : Enable(d, on)
  <2>1. QueueInv' /\ Accounted({}) /\ Triggers'
    BY <1>1, OutsideKeeps DEF Triggers
  <2> QED
    BY <1>1, <1>a, <1>b, <2>1 DEF turnVars, waiters, records
<1>2. CASE UNCHANGED turnVars /\ (CrashInBoot \/ Boot)
  <2>1. QueueInv' /\ Accounted({}) /\ Triggers'
    BY <1>2, BootKeeps DEF Triggers
  <2> QED
    BY <1>2, <1>a, <1>b, <2>1 DEF turnVars, waiters, records
<1>3. CASE UNCHANGED turnVars /\ (Claim \/ Refuse)
  <2>1. QueueInv' /\ Triggers' /\ Accounted({})
    BY <1>3, LoopKeeps DEF Triggers
  <2> QED
    BY <1>3, <1>a, <1>b, <2>1 DEF turnVars, waiters, records
<1>4. CASE SubmitDelivery
  <2>1. QueueInv' /\ Triggers' /\ Accounted({})
    BY <1>4, LoopKeeps DEF SubmitDelivery, Triggers
  <2>2. answer' = [answer EXCEPT ![First] = "none"] /\ ended' = ended
    BY <1>4 DEF SubmitDelivery, Submitted, records
  <2>3. Answers'
    BY <2>2 DEF Answers
  <2> QED
    BY <1>a, <2>1, <2>2, <2>3
<1>5. CASE Done
  <2>1. Complete /\ answer[First] # "none" /\ UNCHANGED <<answer, ended>>
    BY <1>5 DEF Done, Leaves, records
  <2>2. QueueInv' /\ Triggers' /\ First \in Delivery /\ Accounted({First})
    BY <2>1, UnlinkKeeps DEF Triggers, Complete, QueueInv, QueueTypes
  <2>3. First \in ended'
    BY <2>1, <2>2 DEF Answers, Automation
  <2>4. AtLeastOnce'
    BY <2>1, <2>2, <2>3 DEF AtLeastOnce, Accounted, OnDisk, Files
  <2> QED
    BY <1>b, <2>1, <2>2, <2>4
<1>6. CASE DeliveryFails
  <2>1. Fails /\ UNCHANGED <<answer, ended>>
    BY <1>6 DEF DeliveryFails, Leaves, records
  <2>2. QueueInv' /\ Triggers' /\ Accounted({})
    BY <2>1, LoopKeeps DEF Triggers
  <2> QED
    BY <1>a, <1>b, <2>1, <2>2
<1>7. CASE \E c \in CronRun : SubmitCron(c) \/ CronDone(c) \/ GiveUp(c)
  <2> PICK c \in CronRun : SubmitCron(c) \/ CronDone(c) \/ GiveUp(c)
    BY <1>7
  <2>1. CASE SubmitCron(c)
    <3>1. QueueInv' /\ Triggers' /\ Accounted({})
      BY <2>1, QueueUnchanged DEF SubmitCron, Send
    <3>2. answer' = [answer EXCEPT ![c] = "none"] /\ ended' = ended
      BY <2>1 DEF SubmitCron, Submitted, records
    <3>3. Answers'
      BY <3>2 DEF Answers
    <3> QED
      BY <1>a, <3>1, <3>2, <3>3
  <2>2. CASE CronDone(c) \/ GiveUp(c)
    <3>1. UNCHANGED queueVars /\ UNCHANGED <<answer, ended>>
      BY <2>2 DEF CronDone, GiveUp, Leaves, records
    <3>2. QueueInv' /\ Triggers' /\ Accounted({})
      BY <3>1, QueueUnchanged DEF queueVars
    <3> QED
      BY <1>a, <1>b, <3>1, <3>2
  <2> QED
    BY <2>1, <2>2
<1>8. CASE \E u \in User : Write(u)
  <2>1. QueueInv' /\ Triggers' /\ Accounted({})
    BY <1>8, QueueUnchanged DEF Write, Send
  <2> QED
    BY <1>8, <1>a, <1>b, <2>1 DEF Write, waiters, records
<1>9. CASE Route \/ Enter \/ \E s \in Session : Begin(s) \/ Lock(s)
  <2>1. UNCHANGED queueVars /\ UNCHANGED <<answer, ended>>
    BY <1>9 DEF Route, Enter, Begin, Lock, waiters, records
  <2>2. QueueInv' /\ Triggers' /\ Accounted({})
    BY <2>1, QueueUnchanged DEF queueVars
  <2> QED
    BY <1>a, <1>b, <2>1, <2>2
<1>10. CASE Inline \/ \E s \in Session : EndTurn(s) \/ Stop(s)
  <2>1. UNCHANGED queueVars
    BY <1>10 DEF Inline, EndTurn, Stop, Cancelled
  <2>2. QueueInv' /\ Triggers' /\ Accounted({})
    BY <2>1, QueueUnchanged DEF queueVars
  <2>3. PICK s : \/ \E how \in {"ok", "error"} : Answered(holder[s], how)
                 \/ UNCHANGED <<answer, ended>>
    BY <1>10 DEF Inline, EndTurn, Stop, Cancelled, waiters
  <2>4. Answers' /\ ended \subseteq ended'
    <3>1. CASE \E how \in {"ok", "error"} : Answered(holder[s], how)
      <4>0. PICK how \in {"ok", "error"} : Answered(holder[s], how)
        BY <3>1
      <4>m. PICK m : m = holder[s]
        OBVIOUS
      <4>1. Answered(m, how)
        BY <4>0, <4>m DEF Answered
      <4> QED
        BY <4>1, AnsweredKeeps
    <3> QED
      BY <1>b, <2>3, <3>1
  <2> QED
    BY <1>a, <2>2, <2>4
<1>11. CASE (Shutdown \/ Crash \/ CrashInClaim \/ CrashInRetry) /\ LoopEnds
            /\ UNCHANGED <<sent, stops, begun, ended>>
  <2>1. QueueInv' /\ Triggers' /\ Accounted({})
    BY <1>11, EndKeeps DEF Triggers
  <2>2. answer' = [m \in Automation |-> "none"]
    BY <1>11 DEF LoopEnds
  <2>3. Answers'
    BY <2>2 DEF Answers
  <2> QED
    BY <1>11, <1>a, <2>1, <2>3
<1>12. CASE UNCHANGED vars
  <2>1. UNCHANGED queueVars /\ UNCHANGED <<answer, ended>>
    BY <1>12 DEF vars, turnVars, waiters, records
  <2>2. QueueInv' /\ Triggers' /\ Accounted({})
    BY <2>1, QueueUnchanged DEF queueVars
  <2> QED
    BY <1>a, <1>b, <2>1, <2>2
<1> QED
  BY <1>1, <1>2, <1>3, <1>4, <1>5, <1>6, <1>7, <1>8, <1>9, <1>10, <1>11, <1>12 DEF Next

\* No crash, retry, stop or fault loses a delivery: it is in a file until its turn has
\* ended, its trigger was off or gone, or it was deleted.
THEOREM NothingLost == Spec => []AtLeastOnce
<1>1. Kept => AtLeastOnce
  BY DEF Kept
<1> QED
  BY <1>1, InitKept, StepKept, PTL DEF Spec

\* While the gateway runs a delivery is in one directory: no crash between the halves
\* of a retry makes two turns of one delivery out of one claim.
THEOREM OneFile == Spec => []OneCopy
<1>1. Kept => OneCopy
  BY DEF Kept, QueueInv, OneAtATime, CopiesAgree, OneCopy, Files
<1> QED
  BY <1>1, InitKept, StepKept, PTL DEF Spec
-----------------------------------------------------------------------------
(* Deferred automations. *)

\* The message is one that the router makes a dispatch of the session of, or defers.
OwnTurn(s, m) == SessionOf[m] = s /\ m \notin Command

LoopTypes ==
  /\ SessionOf \in [Message -> Session]
  /\ bus \in Seq(Message) /\ line \in [Session -> Seq(Message)]
  /\ fresh \in [Session -> Nat] /\ \A s \in Session : fresh[s] <= Len(line[s])
  /\ holder \in [Session -> Message \cup {NoOne}]
  /\ injected \in [Session -> Seq(User)] /\ deferred \in [Session -> Seq(Automation)]
  /\ \A s \in Session : \A i \in 1 .. Len(deferred[s]) : OwnTurn(s, deferred[s][i])

\* Something of the session is still to come to its end.
Hosted(s) ==
  \/ holder[s] # NoOne \/ line[s] # <<>> \/ s \in bereft
  \/ \E i \in 1 .. Len(bus) : OwnTurn(s, bus[i])

Hosts == \A s \in Session : deferred[s] # <<>> => Hosted(s)

LEMMA InitHosts == ASSUME Init PROVE LoopTypes /\ Hosts
<1>1. /\ bus = <<>>
      /\ line = [s \in Session |-> <<>>] /\ fresh = [s \in Session |-> 0]
      /\ holder = [s \in Session |-> NoOne]
      /\ injected = [s \in Session |-> <<>>] /\ deferred = [s \in Session |-> <<>>]
  BY DEF Init, QueueInit, NoLoop
<1>2. LoopTypes
  BY <1>1, TurnsAssumption DEF LoopTypes
<1> QED
  BY <1>1, <1>2 DEF Hosts

\* Steps that only add to the bus.
LEMMA BusGrows ==
  ASSUME LoopTypes, Hosts, NEW m \in Message, bus' = bus \/ bus' = Append(bus, m),
         UNCHANGED <<line, fresh, holder, injected, deferred, bereft>>
  PROVE  LoopTypes' /\ Hosts'
<1>0. bus \in Seq(Message)
  BY DEF LoopTypes
<1>1. /\ bus' \in Seq(Message)
      /\ \A i \in 1 .. Len(bus) : i \in 1 .. Len(bus') /\ bus'[i] = bus[i]
  <2>1. CASE bus' = bus
    BY <1>0, <2>1
  <2>2. CASE bus' = Append(bus, m)
    BY <1>0, <2>2
  <2> QED
    BY <2>1, <2>2
<1>2. LoopTypes'
  BY <1>1 DEF LoopTypes
<1> QED
  BY <1>1, <1>2 DEF Hosts, Hosted

LEMMA PublishedKeeps ==
  ASSUME LoopTypes, NEW queue \in Seq(Message), NEW s \in Session, NEW left \in Seq(User),
         NEW n \in Nat, n <= Len(deferred[s]), Published(queue, s, left, n)
  PROVE  /\ bus' \in Seq(Message)
         /\ \A i \in 1 .. Len(queue) : i \in 1 .. Len(bus') /\ bus'[i] = queue[i]
         /\ n > 0 => \E i \in 1 .. Len(bus') : OwnTurn(s, bus'[i])
         /\ injected' \in [Session -> Seq(User)] /\ deferred' \in [Session -> Seq(Automation)]
         /\ \A t \in Session : \A i \in 1 .. Len(deferred'[t]) : OwnTurn(t, deferred'[t][i])
         /\ \A t \in Session \ {s} : deferred'[t] = deferred[t]
         /\ deferred'[s] # <<>> => n < Len(deferred[s])
<1> DEFINE q == deferred[s]
           out == SubSeq(q, 1, n)
           kept == SubSeq(q, n + 1, Len(q))
<1>0. /\ q \in Seq(Automation) /\ Len(q) \in Nat /\ n <= Len(q)
      /\ \A i \in 1 .. Len(q) : OwnTurn(s, q[i])
      /\ User \subseteq Message /\ Automation \subseteq Message
  BY DEF LoopTypes, Message
<1>1. /\ out \in Seq(Automation) /\ Len(out) = n
      /\ \A i \in 1 .. n : out[i] = q[i]
  <2> HIDE DEF q
  <2> QED
    BY <1>0
<1>2. /\ kept \in Seq(Automation) /\ Len(kept) = Len(q) - n
      /\ \A i \in 1 .. Len(q) - n : kept[i] = q[i + n]
  <2> HIDE DEF q
  <2> QED
    BY <1>0
<1>3. bus' = (queue \o left) \o out /\ deferred' = [deferred EXCEPT ![s] = kept]
      /\ injected' = [injected EXCEPT ![s] = <<>>]
  BY DEF Published
<1>4. /\ left \in Seq(Message) /\ out \in Seq(Message)
  <2> HIDE DEF out
  <2> QED
    BY <1>0, <1>1
<1>5. /\ bus' \in Seq(Message) /\ Len(bus') = Len(queue) + Len(left) + n
      /\ \A i \in 1 .. Len(queue) : bus'[i] = queue[i]
      /\ \A i \in 1 .. n : bus'[Len(queue) + Len(left) + i] = out[i]
  <2> DEFINE front == queue \o left
  <2> HIDE DEF out, kept
  <2>1. /\ front \in Seq(Message) /\ Len(front) = Len(queue) + Len(left)
        /\ Len(queue) \in Nat /\ Len(left) \in Nat
        /\ \A i \in 1 .. Len(queue) : front[i] = queue[i]
    BY <1>0, <1>4
  <2>2. bus' = front \o out
    BY <1>3
  <2> HIDE DEF front
  <2>3. /\ bus' \in Seq(Message) /\ Len(bus') = Len(front) + n
        /\ \A i \in 1 .. Len(front) : bus'[i] = front[i]
        /\ \A i \in 1 .. n : bus'[Len(front) + i] = out[i]
    <3>1. out \in Seq(Message) /\ Len(out) = n /\ front \in Seq(Message) /\ Len(front) \in Nat
      BY <1>1, <1>4, <2>1
    <3>2. front \o out \in Seq(Message) /\ Len(front \o out) = Len(front) + n
      BY <3>1, ConcatProperties
    <3>3. \A i \in 1 .. Len(front) + n :
            (front \o out)[i] = IF i <= Len(front) THEN front[i] ELSE out[i - Len(front)]
      BY <3>1
    <3>4. \A i \in 1 .. Len(front) : (front \o out)[i] = front[i]
      BY <3>1, <3>3
    <3>5. ASSUME NEW i \in 1 .. n PROVE (front \o out)[Len(front) + i] = out[i]
      <4>1. /\ Len(front) + i \in 1 .. Len(front) + n /\ ~(Len(front) + i <= Len(front))
            /\ (Len(front) + i) - Len(front) = i
        BY <3>1
      <4> QED
        BY <4>1, <3>3
    <3> QED
      BY <2>2, <3>2, <3>4, <3>5
  <2>4. \A i \in 1 .. Len(queue) : i \in 1 .. Len(front)
    BY <2>1
  <2> QED
    BY <2>1, <2>3, <2>4
<1>6. n > 0 => \E i \in 1 .. Len(bus') : OwnTurn(s, bus'[i])
  <2> SUFFICES ASSUME n > 0 PROVE \E i \in 1 .. Len(bus') : OwnTurn(s, bus'[i])
    OBVIOUS
  <2> HIDE DEF out, kept, q
  <2>1. /\ 1 \in 1 .. n /\ 1 \in 1 .. Len(q) /\ Len(queue) \in Nat /\ Len(left) \in Nat
        /\ Len(queue) + Len(left) + 1 \in 1 .. Len(bus')
    BY <1>0, <1>4, <1>5
  <2>2. OwnTurn(s, bus'[Len(queue) + Len(left) + 1])
    <3>1. bus'[Len(queue) + Len(left) + 1] = out[1]
      BY <2>1, <1>5
    <3>2. out[1] = q[1] /\ OwnTurn(s, q[1])
      BY <2>1, <1>0, <1>1
    <3> QED
      BY <3>1, <3>2
  <2> QED
    BY <2>1, <2>2
<1>7. /\ injected' \in [Session -> Seq(User)] /\ deferred' \in [Session -> Seq(Automation)]
      /\ \A t \in Session \ {s} : deferred'[t] = deferred[t]
      /\ deferred'[s] = kept
  <2> HIDE DEF out, kept
  <2> QED
    BY <1>2, <1>3 DEF LoopTypes
<1>8. \A t \in Session : \A i \in 1 .. Len(deferred'[t]) : OwnTurn(t, deferred'[t][i])
  <2> HIDE DEF kept, q
  <2>1. \A i \in 1 .. Len(kept) : OwnTurn(s, kept[i])
    <3> TAKE i \in 1 .. Len(kept)
    <3>1. i \in 1 .. Len(q) - n /\ i + n \in 1 .. Len(q)
      BY <1>0, <1>2
    <3> QED
      BY <3>1, <1>0, <1>2
  <2> QED
    BY <1>7, <2>1 DEF LoopTypes
<1>9. deferred'[s] # <<>> => n < Len(q)
  <2> HIDE DEF kept, q
  <2> QED
    BY <1>0, <1>2, <1>7
<1>10. \A i \in 1 .. Len(queue) : i \in 1 .. Len(bus')
  <2> HIDE DEF q
  <2>1. Len(queue) \in Nat /\ Len(left) \in Nat
    BY <1>0, <1>4
  <2> QED
    BY <1>5, <2>1
<1> QED
  BY <1>5, <1>6, <1>7, <1>8, <1>9, <1>10

\* What the router would make a dispatch of, or defer, is still on the bus.
Stays(q, r) == \A i \in 1 .. Len(q) : q[i] \notin Command => \E j \in 1 .. Len(r) : r[j] = q[i]

LEMMA TailStays ==
  ASSUME NEW q \in Seq(Message), q # <<>>, Head(q) \in Command
  PROVE  Tail(q) \in Seq(Message) /\ Stays(q, Tail(q))
<1> DEFINE r == Tail(q)
<1>1. /\ r \in Seq(Message) /\ Len(r) = Len(q) - 1 /\ Len(q) \in Nat \ {0} /\ Head(q) = q[1]
      /\ \A i \in 1 .. Len(r) : r[i] = q[i + 1]
  OBVIOUS
<1> HIDE DEF r
<1>2. \A i \in 1 .. Len(q) : i = 1 \/ (i - 1 \in 1 .. Len(r) /\ (i - 1) + 1 = i)
  BY <1>1
<1>3. Stays(q, r)
  BY <1>1, <1>2 DEF Stays
<1> QED
  BY <1>1, <1>3 DEF r

\* What becomes of the sessions that a step publishes nothing of.
LEMMA StillHosted ==
  ASSUME LoopTypes, Hosts, NEW t \in Session, deferred'[t] = <<>> \/ deferred[t] # <<>>,
         bereft \subseteq bereft', holder'[t] = holder[t], line'[t] = line[t], Stays(bus, bus')
  PROVE  deferred'[t] # <<>> => Hosted(t)'
<1> SUFFICES ASSUME deferred'[t] # <<>> PROVE Hosted(t)'
  OBVIOUS
<1>1. Hosted(t)
  BY DEF Hosts
<1>2. CASE \E i \in 1 .. Len(bus) : OwnTurn(t, bus[i])
  <2> PICK i \in 1 .. Len(bus) : OwnTurn(t, bus[i])
    BY <1>2
  <2>1. PICK j \in 1 .. Len(bus') : bus'[j] = bus[i]
    BY DEF Stays, OwnTurn
  <2> QED
    BY <2>1 DEF Hosted
<1>3. CASE holder[t] # NoOne \/ line[t] # <<>> \/ t \in bereft
  BY <1>3 DEF Hosted
<1> QED
  BY <1>1, <1>2, <1>3 DEF Hosted

LEMMA RouteHosts == ASSUME LoopTypes, Hosts, Route PROVE LoopTypes' /\ Hosts'
<1> DEFINE m == Head(bus)
           s == SessionOf[m]
<1>1. /\ m \in Message /\ s \in Session /\ bus' = Tail(bus) /\ bus' \in Seq(Message)
      /\ \A i \in 1 .. Len(bus) :
           (i = 1 /\ bus[i] = m) \/ (i - 1 \in 1 .. Len(bus') /\ bus'[i - 1] = bus[i])
  <2>1. bus \in Seq(Message) /\ bus # <<>> /\ bus' = Tail(bus)
    BY DEF Route, LoopTypes
  <2>2. m \in Message /\ bus' \in Seq(Message)
    BY <2>1
  <2>3. m = bus[1] /\ Len(bus) \in Nat /\ Len(bus') = Len(bus) - 1
    BY <2>1
  <2>4. \A i \in 1 .. Len(bus') : bus'[i] = bus[i + 1]
    BY <2>1
  <2> HIDE DEF m
  <2>5. \A i \in 1 .. Len(bus) : i = 1 \/ (i - 1 \in 1 .. Len(bus') /\ (i - 1) + 1 = i)
    BY <2>3
  <2> QED
    BY <2>1, <2>2, <2>3, <2>4, <2>5 DEF LoopTypes
<1>2. UNCHANGED <<holder, bereft>> /\ m \notin Command
  BY DEF Route, records
<1>3. \/ /\ InTurn(s) /\ m \in Automation /\ deferred' = [deferred EXCEPT ![s] = Append(@, m)]
         /\ UNCHANGED <<line, fresh, injected>>
      \/ /\ InTurn(s) /\ m \in User /\ injected' = [injected EXCEPT ![s] = Append(@, m)]
         /\ UNCHANGED <<line, fresh, deferred>>
      \/ /\ line' = [line EXCEPT ![s] = Append(@, m)] /\ fresh' = [fresh EXCEPT ![s] = @ + 1]
         /\ UNCHANGED <<injected, deferred>>
  BY DEF Route
<1>4. InTurn(s) => holder[s] # NoOne
  BY DEF InTurn
<1> HIDE DEF m
<1>h. ASSUME NEW t \in Session, Hosted(t), t # s, line'[t] = line[t] PROVE Hosted(t)'
  <2>1. CASE \E i \in 1 .. Len(bus) : OwnTurn(t, bus[i])
    BY <1>h, <1>1, <2>1 DEF Hosted, OwnTurn
  <2> QED
    BY <1>h, <1>2, <2>1 DEF Hosted
<1> HIDE DEF s
<1>5. CASE InTurn(s) /\ m \in Automation /\ deferred' = [deferred EXCEPT ![s] = Append(@, m)]
           /\ UNCHANGED <<line, fresh, injected>>
  <2>1. deferred[s] \in Seq(Automation) /\ OwnTurn(s, m)
    BY <1>1, <1>2 DEF LoopTypes, OwnTurn, s
  <2>2. /\ Append(deferred[s], m) \in Seq(Automation)
        /\ \A i \in 1 .. Len(Append(deferred[s], m)) :
             Append(deferred[s], m)[i] = m \/ (i \in 1 .. Len(deferred[s]) /\ Append(deferred[s], m)[i] = deferred[s][i])
    BY <1>5, <2>1
  <2>a. /\ deferred' \in [Session -> Seq(Automation)] /\ deferred'[s] = Append(deferred[s], m)
        /\ \A t \in Session \ {s} : deferred'[t] = deferred[t]
    BY <1>1, <1>5, <2>2 DEF LoopTypes
  <2>b. \A i \in 1 .. Len(deferred'[s]) : OwnTurn(s, deferred'[s][i])
    <3>1. \A i \in 1 .. Len(deferred[s]) : OwnTurn(s, deferred[s][i])
      BY <1>1 DEF LoopTypes
    <3> QED
      BY <2>1, <2>2, <2>a, <3>1
  <2>c. \A t \in Session : \A i \in 1 .. Len(deferred'[t]) : OwnTurn(t, deferred'[t][i])
    BY <2>a, <2>b DEF LoopTypes
  <2>3. LoopTypes'
    BY <1>1, <1>2, <1>5, <2>a, <2>c DEF LoopTypes
  <2>4. \A t \in Session : deferred'[t] # <<>> => Hosted(t)'
    <3> TAKE t \in Session
    <3>1. CASE t = s
      BY <1>2, <1>4, <1>5, <3>1 DEF Hosted
    <3>2. CASE t # s
      <4>1. deferred'[t] = deferred[t] /\ line'[t] = line[t]
        BY <1>5, <3>2 DEF LoopTypes
      <4> QED
        BY <1>h, <3>2, <4>1 DEF Hosts
    <3> QED
      BY <3>1, <3>2
  <2> QED
    BY <2>3, <2>4 DEF Hosts
<1>6. CASE InTurn(s) /\ m \in User /\ injected' = [injected EXCEPT ![s] = Append(@, m)]
           /\ UNCHANGED <<line, fresh, deferred>>
  <2>0. injected[s] \in Seq(User) /\ Append(injected[s], m) \in Seq(User)
    <3>1. injected[s] \in Seq(User)
      BY <1>1 DEF LoopTypes
    <3> QED
      BY <1>6, <3>1
  <2>a. injected' \in [Session -> Seq(User)]
    BY <1>6, <2>0 DEF LoopTypes
  <2>1. LoopTypes'
    BY <1>1, <1>2, <1>6, <2>a DEF LoopTypes
  <2>2. \A t \in Session : deferred'[t] # <<>> => Hosted(t)'
    <3> TAKE t \in Session
    <3>1. CASE t = s
      BY <1>2, <1>4, <1>6, <3>1 DEF Hosted
    <3> QED
      BY <1>h, <1>6, <3>1 DEF Hosts
  <2> QED
    BY <2>1, <2>2 DEF Hosts
<1>7. CASE line' = [line EXCEPT ![s] = Append(@, m)] /\ fresh' = [fresh EXCEPT ![s] = @ + 1]
           /\ UNCHANGED <<injected, deferred>>
  <2>0. line[s] \in Seq(Message) /\ fresh[s] \in Nat /\ fresh[s] <= Len(line[s])
    BY <1>1 DEF LoopTypes
  <2>1. /\ Append(line[s], m) \in Seq(Message) /\ Append(line[s], m) # <<>>
        /\ fresh[s] + 1 \in Nat /\ fresh[s] + 1 <= Len(Append(line[s], m))
    BY <2>0, <1>1
  <2>2. /\ line' \in [Session -> Seq(Message)] /\ fresh' \in [Session -> Nat]
        /\ line'[s] = Append(line[s], m) /\ fresh'[s] = fresh[s] + 1
        /\ \A t \in Session \ {s} : line'[t] = line[t] /\ fresh'[t] = fresh[t]
    BY <1>1, <1>7, <2>1 DEF LoopTypes
  <2>3. LoopTypes'
    BY <1>1, <1>2, <1>7, <2>1, <2>2 DEF LoopTypes
  <2>4. \A t \in Session : deferred'[t] # <<>> => Hosted(t)'
    <3> TAKE t \in Session
    <3>1. CASE t = s
      BY <2>1, <2>2, <3>1 DEF Hosted
    <3> QED
      BY <1>h, <1>7, <2>2, <3>1 DEF Hosts
  <2> QED
    BY <2>3, <2>4 DEF Hosts
<1> QED
  BY <1>3, <1>5, <1>6, <1>7

LEMMA LockHosts ==
  ASSUME LoopTypes, Hosts, NEW s \in Session, Begin(s) \/ Lock(s)
  PROVE  LoopTypes' /\ Hosts'
<1>1. CASE Begin(s)
  <2>1. fresh' = [fresh EXCEPT ![s] = 0] /\ UNCHANGED <<bus, line, holder, injected, deferred, bereft>>
    BY <1>1 DEF Begin, records
  <2>2. LoopTypes'
    BY <2>1 DEF LoopTypes
  <2> QED
    BY <2>1, <2>2 DEF Hosts, Hosted
<1>2. CASE Lock(s)
  <2>1. /\ holder[s] = NoOne /\ Len(line[s]) > fresh[s]
        /\ holder' = [holder EXCEPT ![s] = Head(line[s])]
        /\ line' = [line EXCEPT ![s] = Tail(line[s])]
        /\ UNCHANGED <<bus, fresh, injected, deferred, bereft>>
    BY <1>2 DEF Lock, records
  <2>2. line[s] \in Seq(Message) /\ fresh[s] \in Nat /\ Len(line[s]) \in Nat
    BY DEF LoopTypes
  <2>3. /\ Head(line[s]) \in Message /\ Tail(line[s]) \in Seq(Message)
        /\ fresh[s] <= Len(Tail(line[s]))
    BY <2>1, <2>2
  <2>4. LoopTypes'
    BY <2>1, <2>3 DEF LoopTypes
  <2>5. holder'[s] # NoOne
    BY <2>1, <2>3, TurnsAssumption DEF LoopTypes
  <2>6. \A t \in Session : deferred'[t] # <<>> => Hosted(t)'
    <3> TAKE t \in Session
    <3>1. CASE t = s
      BY <2>5, <3>1 DEF Hosted
    <3>2. CASE t # s
      <4>1. holder'[t] = holder[t] /\ line'[t] = line[t]
        BY <2>1, <3>2 DEF LoopTypes
      <4> QED
        BY <2>1, <4>1 DEF Hosts, Hosted
    <3> QED
      BY <3>1, <3>2
  <2> QED
    BY <2>4, <2>6 DEF Hosts
<1> QED
  BY <1>1, <1>2

\* The end of a turn, or of all the dispatches of a session.
LEMMA PublishHosts ==
  ASSUME LoopTypes, Hosts, NEW queue \in Seq(Message), Stays(bus, queue),
         NEW s \in Session, NEW left \in Seq(User), NEW n \in Nat,
         n <= Len(deferred[s]), Published(queue, s, left, n), bereft \subseteq bereft',
         holder' = [holder EXCEPT ![s] = NoOne],
         \/ UNCHANGED <<line, fresh>>
         \/ line' = [line EXCEPT ![s] = <<>>] /\ fresh' = [fresh EXCEPT ![s] = 0],
         \/ n = 0 /\ n < Len(deferred[s]) => s \in bereft'
         \/ holder[s] = NoOne /\ line[s] = <<>>
  PROVE  LoopTypes' /\ Hosts'
<1>1. /\ bus' \in Seq(Message)
      /\ \A i \in 1 .. Len(queue) : i \in 1 .. Len(bus') /\ bus'[i] = queue[i]
      /\ n > 0 => \E i \in 1 .. Len(bus') : OwnTurn(s, bus'[i])
      /\ injected' \in [Session -> Seq(User)] /\ deferred' \in [Session -> Seq(Automation)]
      /\ \A t \in Session : \A i \in 1 .. Len(deferred'[t]) : OwnTurn(t, deferred'[t][i])
      /\ \A t \in Session \ {s} : deferred'[t] = deferred[t]
      /\ deferred'[s] # <<>> => n < Len(deferred[s])
  BY PublishedKeeps
<1>2. /\ line' \in [Session -> Seq(Message)] /\ fresh' \in [Session -> Nat]
      /\ \A t \in Session \ {s} : line'[t] = line[t] /\ fresh'[t] = fresh[t]
      /\ fresh'[s] <= Len(line'[s])
  <2>1. CASE UNCHANGED <<line, fresh>>
    BY <2>1 DEF LoopTypes
  <2>2. CASE line' = [line EXCEPT ![s] = <<>>] /\ fresh' = [fresh EXCEPT ![s] = 0]
    <3>1. <<>> \in Seq(Message) /\ Len(<<>>) = 0
      OBVIOUS
    <3> QED
      BY <2>2, <3>1 DEF LoopTypes
  <2> QED
    BY <2>1, <2>2
<1>3. /\ holder' \in [Session -> Message \cup {NoOne}]
      /\ \A t \in Session \ {s} : holder'[t] = holder[t]
  BY DEF LoopTypes
<1>4. LoopTypes'
  BY <1>1, <1>2, <1>3 DEF LoopTypes
<1>5. Stays(bus, bus')
  BY <1>1 DEF Stays
<1>6. \A t \in Session : deferred'[t] # <<>> => Hosted(t)'
  <2> TAKE t \in Session
  <2>1. CASE t = s /\ (n > 0 \/ s \in bereft')
    BY <1>1, <2>1 DEF Hosted
  <2>2. CASE t = s /\ n = 0 /\ s \notin bereft'
    <3>1. CASE n = 0 /\ n < Len(deferred[s]) => s \in bereft'
      BY <1>1, <2>2, <3>1
    <3>2. CASE holder[s] = NoOne /\ line[s] = <<>>
      <4>1. holder'[s] = holder[s] /\ line'[s] = line[s]
        BY <3>2 DEF LoopTypes
      <4>2. deferred'[s] = <<>> \/ deferred[s] # <<>>
        <5>1. ~(0 < Len(<<>>))
          OBVIOUS
        <5> QED
          BY <1>1, <2>2, <5>1
      <4>3. deferred'[s] # <<>> => Hosted(s)'
        BY <1>5, <4>1, <4>2, StillHosted
      <4> QED
        BY <2>2, <4>3
    <3> QED
      BY <3>1, <3>2
  <2>3. CASE t # s
    <3>1. deferred'[t] = deferred[t] /\ holder'[t] = holder[t] /\ line'[t] = line[t]
      BY <1>1, <1>2, <1>3, <2>3
    <3> QED
      BY <1>5, <3>1, StillHosted
  <2> QED
    BY <2>1, <2>2, <2>3
<1> QED
  BY <1>4, <1>6 DEF Hosts

LEMMA EndTurnHosts ==
  ASSUME LoopTypes, Hosts, NEW s \in Session, EndTurn(s)
  PROVE  LoopTypes' /\ Hosts'
<1>0. /\ deferred[s] \in Seq(Automation) /\ Len(deferred[s]) \in Nat
      /\ injected[s] \in Seq(User) /\ <<>> \in Seq(User)
  BY DEF LoopTypes
<1>1. PICK n \in Nat : n = AtMost(1, s)
  BY <1>0 DEF AtMost
<1>2. PICK left \in Seq(User) : Published(bus, s, left, n)
  <2>1. PICK x \in {<<>>, injected[s]} : Published(bus, s, x, AtMost(1, s))
    BY DEF EndTurn
  <2>2. Published(bus, s, x, n)
    BY <1>1, <2>1 DEF Published
  <2> QED
    BY <1>0, <2>2
<1>3. n <= Len(deferred[s]) /\ ~(n = 0 /\ n < Len(deferred[s]))
  BY <1>0, <1>1 DEF AtMost
<1>4. /\ holder' = [holder EXCEPT ![s] = NoOne] /\ UNCHANGED <<line, fresh, bereft>>
  BY DEF EndTurn
<1>5. bus \in Seq(Message) /\ Stays(bus, bus)
  BY DEF LoopTypes, Stays
<1> QED
  BY <1>2, <1>3, <1>4, <1>5, PublishHosts

LEMMA CancelledHosts ==
  ASSUME LoopTypes, Hosts, NEW s \in Session, NEW queue \in Seq(Message), Stays(bus, queue),
         NEW taken, Cancelled(s, queue, taken)
  PROVE  LoopTypes' /\ Hosts'
<1> DEFINE held == IF holder[s] = NoOne THEN {} ELSE {holder[s]}
           k == Cardinality(held) + Len(line[s]) - fresh[s]
<1>0. /\ deferred[s] \in Seq(Automation) /\ Len(deferred[s]) \in Nat
      /\ injected[s] \in Seq(User)
      /\ line[s] \in Seq(Message) /\ Len(line[s]) \in Nat
      /\ fresh[s] \in Nat /\ fresh[s] <= Len(line[s])
  BY DEF LoopTypes
<1>1. /\ Published(queue, s, injected[s], AtMost(k, s))
      /\ bereft' = IF fresh[s] > 0 THEN bereft \cup {s} ELSE bereft
      /\ line' = [line EXCEPT ![s] = <<>>] /\ fresh' = [fresh EXCEPT ![s] = 0]
      /\ holder' = [holder EXCEPT ![s] = NoOne]
  BY DEF Cancelled
<1>2. /\ holder[s] = NoOne => Cardinality(held) = 0
      /\ holder[s] # NoOne => Cardinality(held) = 1
  BY FS_EmptySet, FS_Singleton
<1>3. k \in Nat /\ (k = 0 => holder[s] = NoOne /\ (fresh[s] > 0 \/ line[s] = <<>>))
  <2> HIDE DEF held
  <2>1. line[s] # <<>> => Len(line[s]) > 0
    BY <1>0
  <2>2. PICK c \in {0, 1} : c = Cardinality(held) /\ (c = 0 => holder[s] = NoOne)
    BY <1>2
  <2>3. k = c + Len(line[s]) - fresh[s]
    BY <2>2
  <2>4. c + Len(line[s]) - fresh[s] \in Nat
    BY <1>0, <2>2
  <2>5. c + Len(line[s]) - fresh[s] = 0 => c = 0 /\ Len(line[s]) = fresh[s]
    BY <1>0, <2>2
  <2> HIDE DEF k
  <2> QED
    BY <1>0, <2>1, <2>2, <2>3, <2>4, <2>5
<1>4. PICK n \in Nat : n = AtMost(k, s)
  <2> HIDE DEF k
  <2> QED
    BY <1>0, <1>3 DEF AtMost
<1>5. PICK left \in Seq(User) : Published(queue, s, left, n)
  <2>1. Published(queue, s, injected[s], n)
    BY <1>1, <1>4 DEF Published
  <2> QED
    BY <1>0, <2>1
<1>6. /\ n <= Len(deferred[s])
      /\ \/ n = 0 /\ n < Len(deferred[s]) => s \in bereft'
         \/ holder[s] = NoOne /\ line[s] = <<>>
  <2>1. bereft' = IF fresh[s] > 0 THEN bereft \cup {s} ELSE bereft
    BY <1>1
  <2> HIDE DEF k
  <2> QED
    BY <1>0, <1>3, <1>4, <2>1 DEF AtMost
<1>7. bereft \subseteq bereft'
  BY <1>1
<1>8. /\ line' = [line EXCEPT ![s] = <<>>] /\ fresh' = [fresh EXCEPT ![s] = 0]
      /\ holder' = [holder EXCEPT ![s] = NoOne]
  BY <1>1
<1> QED
  BY <1>5, <1>6, <1>7, <1>8, PublishHosts

LEMMA InlineHosts == ASSUME LoopTypes, Hosts, Inline PROVE LoopTypes' /\ Hosts'
<1>1. bus \in Seq(Message) /\ bus # <<>> /\ Head(bus) \in Command
  BY DEF Inline, LoopTypes
<1>2. Tail(bus) \in Seq(Message) /\ Stays(bus, Tail(bus))
  BY <1>1, TailStays
<1>3. CASE bus' = Tail(bus) /\ UNCHANGED <<line, fresh, holder, injected, deferred, bereft>>
  <2>1. LoopTypes'
    BY <1>2, <1>3 DEF LoopTypes
  <2>2. \A t \in Session : deferred'[t] # <<>> => Hosted(t)'
    <3> TAKE t \in Session
    <3>1. Stays(bus, bus')
      BY <1>2, <1>3
    <3> QED
      BY <1>3, <3>1, StillHosted
  <2> QED
    BY <2>1, <2>2 DEF Hosts
<1>4. CASE Cancelled(SessionOf[Head(bus)], Tail(bus), {Head(bus)})
  <2>1. PICK s \in Session, m \in Message : s = SessionOf[m] /\ m = Head(bus)
    <3>1. Head(bus) \in Message
      BY <1>1
    <3> QED
      BY <3>1 DEF LoopTypes
  <2>2. PICK queue \in Seq(Message), taken \in SUBSET Message : queue = Tail(bus) /\ taken = {m}
    BY <1>2
  <2>3. Cancelled(s, queue, taken) /\ Stays(bus, queue)
    BY <1>2, <1>4, <2>1, <2>2
  <2> QED
    BY <2>3, CancelledHosts
<1> QED
  BY <1>3, <1>4 DEF Inline

LEMMA StepHosts ==
  ASSUME Kept, LoopTypes, Hosts, [Next]_vars
  PROVE  LoopTypes' /\ Hosts'
<1>s. ASSUME UNCHANGED <<bus, line, fresh, holder, injected, deferred, bereft>>
      PROVE  LoopTypes' /\ Hosts'
  BY <1>s DEF LoopTypes, Hosts, Hosted
<1>1. CASE UNCHANGED turnVars
  BY <1>s, <1>1 DEF turnVars, loop, records
<1>2. CASE SubmitDelivery
  <2>1. First \in Delivery
    BY <1>2, BatchFacts DEF SubmitDelivery, Submit, Kept, QueueInv
  <2>2. PICK m \in Message : m = First
    BY <2>1 DEF Message, Automation
  <2>3. /\ bus' = Append(bus, m)
        /\ UNCHANGED <<line, fresh, holder, injected, deferred, bereft>>
    BY <1>2, <2>2 DEF SubmitDelivery, Submitted, records
  <2> QED
    BY <2>3, BusGrows
<1>3. CASE Done \/ DeliveryFails
  BY <1>s, <1>3 DEF Done, DeliveryFails, Leaves, loop, records
<1>4. CASE \E c \in CronRun : SubmitCron(c) \/ CronDone(c) \/ GiveUp(c)
  <2> PICK c \in CronRun : SubmitCron(c) \/ CronDone(c) \/ GiveUp(c)
    BY <1>4
  <2>1. CASE SubmitCron(c)
    <3>1. /\ c \in Message /\ bus' = Append(bus, c)
          /\ UNCHANGED <<line, fresh, holder, injected, deferred, bereft>>
      BY <2>1 DEF SubmitCron, Submitted, records, Message, Automation
    <3> QED
      BY <3>1, BusGrows
  <2>2. CASE CronDone(c) \/ GiveUp(c)
    BY <1>s, <2>2 DEF CronDone, GiveUp, Leaves, loop, records
  <2> QED
    BY <2>1, <2>2
<1>5. CASE \E u \in User : Write(u)
  <2> PICK u \in User : Write(u)
    BY <1>5
  <2>1. /\ u \in Message /\ bus' = Append(bus, u)
        /\ UNCHANGED <<line, fresh, holder, injected, deferred, bereft>>
    BY DEF Write, records, Message
  <2> QED
    BY <2>1, BusGrows
<1>6. CASE Route
  BY <1>6, RouteHosts
<1>7. CASE Enter
  BY <1>s, <1>7 DEF Enter
<1>8. CASE \E s \in Session : Begin(s) \/ Lock(s) \/ EndTurn(s) \/ Stop(s)
  <2> PICK s \in Session : Begin(s) \/ Lock(s) \/ EndTurn(s) \/ Stop(s)
    BY <1>8
  <2>1. CASE Stop(s)
    <3>1. PICK queue \in Seq(Message), taken \in SUBSET Message : queue = bus /\ taken = {}
      BY DEF LoopTypes
    <3>2. Cancelled(s, queue, taken) /\ Stays(bus, queue)
      BY <2>1, <3>1 DEF Stop, Stays
    <3> QED
      BY <3>2, CancelledHosts
  <2> QED
    BY <2>1, LockHosts, EndTurnHosts
<1>9. CASE LoopEnds
  <2>1. /\ bus' = <<>> /\ line' = [s \in Session |-> <<>>] /\ fresh' = [s \in Session |-> 0]
        /\ holder' = [s \in Session |-> NoOne]
        /\ injected' = [s \in Session |-> <<>>] /\ deferred' = [s \in Session |-> <<>>]
    BY <1>9 DEF LoopEnds
  <2>2. LoopTypes'
    BY <2>1 DEF LoopTypes
  <2> QED
    BY <2>1, <2>2 DEF Hosts
<1>10. CASE UNCHANGED vars
  BY <1>1, <1>10 DEF vars
<1>11. CASE Inline
  BY <1>11, InlineHosts
<1> QED
  BY <1>1, <1>2, <1>3, <1>4, <1>5, <1>6, <1>7, <1>8, <1>9, <1>10, <1>11 DEF Next

\* No automation is left deferred with nothing of its session to publish it, but for a
\* /stop that took a task before its first step.
THEOREM DeferredHosted == Spec => []DeferredHasHost
<1> DEFINE Inv == Kept /\ LoopTypes /\ Hosts
<1>1. Init => Inv
  BY InitKept, InitHosts
<1>2. Inv /\ [Next]_vars => Inv'
  BY StepKept, StepHosts
<1>3. Inv => DeferredHasHost
  <2>1. LoopTypes => DOMAIN bus = 1 .. Len(bus)
    BY DEF LoopTypes
  <2> QED
    BY <2>1 DEF Hosts, Hosted, OwnTurn, DeferredHasHost
<1> QED
  BY <1>1, <1>2, <1>3, PTL DEF Spec
-----------------------------------------------------------------------------
(* Whether a sequence has an element, and not twice. *)

Has(q, x) == \E i \in 1 .. Len(q) : q[i] = x
Once(q, x) == \A i, j \in 1 .. Len(q) : q[i] = x /\ q[j] = x => i = j

LEMMA HasAppend ==
  ASSUME NEW S, NEW q \in Seq(S), NEW y \in S, NEW x
  PROVE  /\ Has(Append(q, y), x) <=> Has(q, x) \/ x = y
         /\ Once(q, x) /\ ~(Has(q, x) /\ x = y) => Once(Append(q, y), x)
<1>1. /\ Len(Append(q, y)) = Len(q) + 1 /\ Len(q) \in Nat
      /\ \A i \in 1 .. Len(q) : Append(q, y)[i] = q[i]
      /\ Append(q, y)[Len(q) + 1] = y
  OBVIOUS
<1> DEFINE r == Append(q, y)
<1> HIDE DEF r
<1>2. \A i \in 1 .. Len(r) : i \in 1 .. Len(q) \/ i = Len(q) + 1
  BY <1>1 DEF r
<1>3. \A i \in 1 .. Len(q) : i \in 1 .. Len(r)
  BY <1>1 DEF r
<1>4. Len(q) + 1 \in 1 .. Len(r)
  BY <1>1 DEF r
<1>5. (\A i \in 1 .. Len(q) : r[i] = q[i]) /\ r[Len(q) + 1] = y
  BY <1>1 DEF r
<1>6. Has(r, x) <=> Has(q, x) \/ x = y
  BY <1>2, <1>3, <1>4, <1>5 DEF Has
<1>7. Once(q, x) /\ ~(Has(q, x) /\ x = y) => Once(r, x)
  BY <1>2, <1>3, <1>4, <1>5 DEF Has, Once
<1> QED
  BY <1>6, <1>7 DEF r

LEMMA HasTail ==
  ASSUME NEW S, NEW q \in Seq(S), q # <<>>, NEW x
  PROVE  /\ Has(q, x) <=> Head(q) = x \/ Has(Tail(q), x)
         /\ Once(q, x) => Once(Tail(q), x) /\ ~(Head(q) = x /\ Has(Tail(q), x))
<1> DEFINE r == Tail(q)
<1>1. /\ Len(r) = Len(q) - 1 /\ Len(q) \in Nat \ {0} /\ Head(q) = q[1]
      /\ \A i \in 1 .. Len(r) : r[i] = q[i + 1]
  OBVIOUS
<1> HIDE DEF r
<1>2. /\ 1 \in 1 .. Len(q)
      /\ \A i \in 1 .. Len(q) : i = 1 \/ (i - 1 \in 1 .. Len(r) /\ (i - 1) + 1 = i)
      /\ \A i \in 1 .. Len(r) : i + 1 \in 1 .. Len(q) /\ i + 1 # 1
      /\ \A i, j \in 1 .. Len(r) : i + 1 = j + 1 => i = j
  BY <1>1
<1>3. Has(q, x) <=> q[1] = x \/ Has(r, x)
  <2>1. ASSUME NEW i \in 1 .. Len(q), q[i] = x, i # 1 PROVE Has(r, x)
    <3>1. i - 1 \in 1 .. Len(r) /\ r[i - 1] = q[(i - 1) + 1] /\ (i - 1) + 1 = i
      BY <1>1, <1>2, <2>1
    <3> QED
      BY <2>1, <3>1 DEF Has
  <2>2. Has(r, x) => Has(q, x)
    BY <1>1, <1>2 DEF Has
  <2> QED
    BY <1>2, <2>1, <2>2 DEF Has
<1>4. Once(q, x) => Once(r, x) /\ ~(q[1] = x /\ Has(r, x))
  BY <1>1, <1>2 DEF Has, Once
<1> QED
  BY <1>1, <1>3, <1>4 DEF r

LEMMA HasConcat ==
  ASSUME NEW S, NEW p \in Seq(S), NEW q \in Seq(S), NEW x
  PROVE  /\ Has(p \o q, x) <=> Has(p, x) \/ Has(q, x)
         /\ Once(p, x) /\ Once(q, x) /\ ~(Has(p, x) /\ Has(q, x)) => Once(p \o q, x)
<1> DEFINE r == p \o q
<1>1. /\ Len(r) = Len(p) + Len(q) /\ Len(p) \in Nat /\ Len(q) \in Nat
      /\ \A i \in 1 .. Len(r) : r[i] = IF i <= Len(p) THEN p[i] ELSE q[i - Len(p)]
  BY ConcatProperties
<1> HIDE DEF r
<1>2. /\ \A i \in 1 .. Len(r) : (i <= Len(p) /\ i \in 1 .. Len(p)) \/ (~(i <= Len(p)) /\ i - Len(p) \in 1 .. Len(q))
      /\ \A i \in 1 .. Len(p) : i \in 1 .. Len(r) /\ i <= Len(p)
      /\ \A i \in 1 .. Len(q) : /\ Len(p) + i \in 1 .. Len(r) /\ ~(Len(p) + i <= Len(p))
                                /\ (Len(p) + i) - Len(p) = i
      /\ \A i, j \in 1 .. Len(r) : i - Len(p) = j - Len(p) => i = j
  BY <1>1
<1>3. Has(r, x) <=> Has(p, x) \/ Has(q, x)
  <2>1. Has(r, x) => Has(p, x) \/ Has(q, x)
    BY <1>1, <1>2 DEF Has
  <2>2. Has(p, x) => Has(r, x)
    BY <1>1, <1>2 DEF Has
  <2>3. Has(q, x) => Has(r, x)
    BY <1>1, <1>2 DEF Has
  <2> QED
    BY <2>1, <2>2, <2>3
<1>4. ASSUME Once(p, x), Once(q, x), ~(Has(p, x) /\ Has(q, x)), NEW i \in 1 .. Len(r), NEW j \in 1 .. Len(r),
             r[i] = x, r[j] = x
      PROVE  i = j
  <2>1. \/ i \in 1 .. Len(p) /\ p[i] = x /\ i <= Len(p)
        \/ i - Len(p) \in 1 .. Len(q) /\ q[i - Len(p)] = x /\ ~(i <= Len(p))
    BY <1>1, <1>2, <1>4
  <2>2. \/ j \in 1 .. Len(p) /\ p[j] = x /\ j <= Len(p)
        \/ j - Len(p) \in 1 .. Len(q) /\ q[j - Len(p)] = x /\ ~(j <= Len(p))
    BY <1>1, <1>2, <1>4
  <2> QED
    BY <2>1, <2>2, <1>2, <1>4 DEF Has, Once
<1>5. Once(p, x) /\ Once(q, x) /\ ~(Has(p, x) /\ Has(q, x)) => Once(r, x)
  BY <1>4 DEF Once
<1> QED
  BY <1>3, <1>5 DEF r

LEMMA HasSubSeq ==
  ASSUME NEW S, NEW q \in Seq(S), NEW a \in Nat, NEW b \in Nat, 1 <= a, b <= Len(q), NEW x
  PROVE  /\ SubSeq(q, a, b) \in Seq(S)
         /\ Has(SubSeq(q, a, b), x) <=> \E i \in a .. b : q[i] = x
         /\ Once(q, x) => Once(SubSeq(q, a, b), x)
<1> DEFINE r == SubSeq(q, a, b)
<1>0. Len(q) \in Nat /\ \A i \in a .. b : i \in 1 .. Len(q)
  OBVIOUS
<1>1. /\ r \in Seq(S) /\ Len(r) \in Nat
      /\ \A i \in 1 .. Len(r) : a + i - 1 \in a .. b /\ r[i] = q[a + i - 1]
      /\ \A i \in a .. b : i - a + 1 \in 1 .. Len(r)
  <2>1. \A i \in a .. b : q[i] \in S
    BY <1>0
  <2>2. /\ r \in Seq(S) /\ Len(r) = IF a <= b THEN b - a + 1 ELSE 0
        /\ \A i \in 1 .. b - a + 1 : r[i] = q[a + i - 1]
    BY <2>1, SubSeqProperties
  <2> HIDE DEF r
  <2>3. \A i \in 1 .. Len(r) : i \in 1 .. b - a + 1 /\ a + i - 1 \in a .. b
    BY <2>2
  <2>4. Len(r) \in Nat /\ \A i \in a .. b : i - a + 1 \in 1 .. Len(r)
    BY <2>2
  <2> QED
    BY <2>2, <2>3, <2>4
<1> HIDE DEF r
<1>2. /\ \A i \in a .. b : a + (i - a + 1) - 1 = i
      /\ \A i, j \in 1 .. Len(r) : a + i - 1 = a + j - 1 => i = j
  BY <1>1
<1>3. Has(r, x) <=> \E i \in a .. b : q[i] = x
  <2>1. Has(r, x) => \E i \in a .. b : q[i] = x
    BY <1>1 DEF Has
  <2>2. ASSUME NEW i \in a .. b, q[i] = x PROVE Has(r, x)
    <3>1. i - a + 1 \in 1 .. Len(r) /\ r[i - a + 1] = q[i]
      BY <1>1, <1>2
    <3> QED
      BY <2>2, <3>1 DEF Has
  <2> QED
    BY <2>1, <2>2
<1>4. Once(q, x) => Once(r, x)
  BY <1>0, <1>1, <1>2 DEF Once
<1> QED
  BY <1>1, <1>3, <1>4 DEF r

LEMMA HasCut ==
  ASSUME NEW S, NEW q \in Seq(S), NEW n \in Nat, n <= Len(q), NEW x
  PROVE  /\ SubSeq(q, 1, n) \in Seq(S) /\ SubSeq(q, n + 1, Len(q)) \in Seq(S)
         /\ Has(q, x) <=> Has(SubSeq(q, 1, n), x) \/ Has(SubSeq(q, n + 1, Len(q)), x)
         /\ Once(q, x) => /\ Once(SubSeq(q, 1, n), x) /\ Once(SubSeq(q, n + 1, Len(q)), x)
                          /\ ~(Has(SubSeq(q, 1, n), x) /\ Has(SubSeq(q, n + 1, Len(q)), x))
<1>0. Len(q) \in Nat /\ n + 1 \in Nat /\ 1 <= n + 1 /\ 1 \in Nat
  OBVIOUS
<1>1. /\ SubSeq(q, 1, n) \in Seq(S)
      /\ Has(SubSeq(q, 1, n), x) <=> \E i \in 1 .. n : q[i] = x
      /\ Once(q, x) => Once(SubSeq(q, 1, n), x)
  BY <1>0, HasSubSeq
<1>2. /\ SubSeq(q, n + 1, Len(q)) \in Seq(S)
      /\ Has(SubSeq(q, n + 1, Len(q)), x) <=> \E i \in n + 1 .. Len(q) : q[i] = x
      /\ Once(q, x) => Once(SubSeq(q, n + 1, Len(q)), x)
  BY <1>0, HasSubSeq
<1>3. \A i \in 1 .. Len(q) : i \in 1 .. n \/ i \in n + 1 .. Len(q)
  BY <1>0
<1>4. /\ \A i \in 1 .. n : i \in 1 .. Len(q)
      /\ \A i \in n + 1 .. Len(q) : i \in 1 .. Len(q) /\ i \notin 1 .. n
  BY <1>0
<1> HIDE DEF Has
<1>5. Has(q, x) <=> (\E i \in 1 .. n : q[i] = x) \/ (\E i \in n + 1 .. Len(q) : q[i] = x)
  BY <1>3, <1>4 DEF Has
<1>6. Once(q, x) => ~((\E i \in 1 .. n : q[i] = x) /\ (\E i \in n + 1 .. Len(q) : q[i] = x))
  BY <1>4 DEF Once
<1> QED
  BY <1>1, <1>2, <1>5, <1>6

LEMMA HasRemoved ==
  ASSUME NEW S, NEW q \in Seq(S), NEW k \in 1 .. Len(q), NEW x
  PROVE  /\ RemoveAt(q, k) \in Seq(S)
         /\ Has(RemoveAt(q, k), x) => Has(q, x)
         /\ Once(q, x) => Once(RemoveAt(q, k), x) /\ (q[k] = x => ~Has(RemoveAt(q, k), x))
<1> DEFINE a == SubSeq(q, 1, k - 1)
           b == SubSeq(q, k + 1, Len(q))
<1>0. Len(q) \in Nat /\ k \in Nat /\ k - 1 \in Nat /\ k + 1 \in Nat /\ 1 <= k + 1 /\ k - 1 <= Len(q) /\ 1 \in Nat
  OBVIOUS
<1>1. /\ a \in Seq(S) /\ (Has(a, x) <=> \E i \in 1 .. k - 1 : q[i] = x)
      /\ Once(q, x) => Once(a, x)
  BY <1>0, HasSubSeq
<1>2. /\ b \in Seq(S) /\ (Has(b, x) <=> \E i \in k + 1 .. Len(q) : q[i] = x)
      /\ Once(q, x) => Once(b, x)
  BY <1>0, HasSubSeq
<1>3. RemoveAt(q, k) = a \o b
  BY DEF RemoveAt
<1> HIDE DEF a, b
<1>4. /\ a \o b \in Seq(S) /\ (Has(a \o b, x) <=> Has(a, x) \/ Has(b, x))
      /\ Once(a, x) /\ Once(b, x) /\ ~(Has(a, x) /\ Has(b, x)) => Once(a \o b, x)
  BY <1>1, <1>2, HasConcat
<1>5. /\ \A i \in 1 .. k - 1 : i \in 1 .. Len(q) /\ i # k /\ i \notin k + 1 .. Len(q)
      /\ \A i \in k + 1 .. Len(q) : i \in 1 .. Len(q) /\ i # k
  BY <1>0
<1>6. Has(a, x) \/ Has(b, x) => Has(q, x)
  BY <1>1, <1>2, <1>5 DEF Has
<1>7. Once(q, x) => ~(Has(a, x) /\ Has(b, x)) /\ (q[k] = x => ~Has(a, x) /\ ~Has(b, x))
  <2> HIDE DEF Has
  <2> QED
    BY <1>1, <1>2, <1>5 DEF Once
<1> QED
  BY <1>1, <1>2, <1>3, <1>4, <1>6, <1>7
-----------------------------------------------------------------------------
(* One turn. *)

TurnTypes ==
  /\ gate \in Seq(Session) /\ begun \in [Delivery -> Nat]
  /\ crashes \in Nat /\ faults \in Nat

Excuses == crashes + faults

\* A dispatch is with its session, and one whose lock is held is at most once at the gate.
Homes ==
  /\ \A t \in Session : \A m \in Message : Has(line[t], m) => SessionOf[m] = t
  /\ \A t \in Session : holder[t] # NoOne => SessionOf[holder[t]] = t
GateOnce == \A t \in Session : Once(gate, t) /\ (Has(gate, t) => holder[t] # NoOne)

\* The delivery loop waits for the turn of d; d may still be submitted.
Held(d) == submitted /\ First = d
Pending(d) == ~Held(d) /\ (made[d] = Absent \/ d \in OnDisk \/ Has(batch, d))

\* The message of d is in one place.
Single(d) ==
  LET s == SessionOf[d]
  IN /\ Once(bus, d) /\ Once(line[s], d) /\ Once(deferred[s], d)
     /\ ~(Has(bus, d) /\ Has(line[s], d)) /\ ~(Has(bus, d) /\ Has(deferred[s], d))
     /\ ~(Has(line[s], d) /\ Has(deferred[s], d))
     /\ holder[s] = d => ~Has(bus, d) /\ ~Has(line[s], d) /\ ~Has(deferred[s], d)

\* It is on its way to a turn; or has one that has not ended.
Due(d) ==
  LET s == SessionOf[d]
  IN \/ Has(bus, d) \/ Has(line[s], d) \/ Has(deferred[s], d)
     \/ holder[s] = d /\ Has(gate, s)
Loose(d) == Due(d) \/ holder[SessionOf[d]] = d

\* Only the submitted delivery has a message, until it is answered, and what may have
\* a turn yet has had none that no crash and no fault excuses.
OneTurn(d) ==
  /\ Single(d)
  /\ Loose(d) => Held(d) /\ answer[d] = "none"
  /\ Pending(d) \/ Due(d) => begun[d] <= Excuses
  /\ begun[d] <= 1 + Excuses

TurnInv == Homes /\ GateOnce /\ \A d \in Delivery : OneTurn(d)

\* What a step of the loop does to the message of d.
Moves(d) ==
  /\ Single(d)' /\ (Due(d)' => Due(d))
  /\ Loose(d)' => Loose(d) /\ answer'[d] = answer[d]

LEMMA LoopStep ==
  ASSUME TurnTypes, TurnInv, Homes', GateOnce', \A d \in Delivery : Moves(d),
         UNCHANGED <<made, files, runner, crashes, faults, begun>>
  PROVE  TurnInv' /\ (gate' \in Seq(Session) => TurnTypes')
<1>1. UNCHANGED <<made, inbox, processing, failed, batch, attempts, submitted, crashes, faults, begun>>
  BY DEF files, runner
<1>2. Excuses' = Excuses
  BY <1>1 DEF Excuses
<1>3. \A d \in Delivery : Held(d)' = Held(d) /\ Pending(d)' = Pending(d)
  BY <1>1 DEF Held, Pending, First, Has, OnDisk, Files
<1>4. ASSUME NEW d \in Delivery PROVE OneTurn(d)'
  BY <1>1, <1>2, <1>3 DEF OneTurn, Moves, TurnInv
<1> QED
  BY <1>1, <1>4 DEF TurnInv, TurnTypes

\* A step of the queue, which leaves the loop alone.
LEMMA QueueStep ==
  ASSUME TurnTypes, TurnInv, UNCHANGED <<loop, answer, begun>>,
         crashes' = crashes, faults' \in {faults, faults + 1},
         \A d \in Delivery : Loose(d) => Held(d)',
         faults' = faults => \A d \in Delivery : Pending(d)' => Pending(d)
  PROVE  TurnTypes' /\ TurnInv'
<1>1. UNCHANGED <<bus, line, holder, gate, deferred, answer, begun>>
  BY DEF loop
<1>2. /\ Excuses \in Nat /\ Excuses' \in Nat /\ Excuses <= Excuses'
      /\ faults' # faults => 1 + Excuses <= Excuses'
  <2>1. crashes \in Nat /\ faults \in Nat
    BY DEF TurnTypes
  <2>2. \A a, b \in Nat : /\ a + b \in Nat /\ a + (b + 1) \in Nat
                           /\ a + b <= a + b /\ 1 + (a + b) = a + (b + 1) /\ a + b <= a + (b + 1)
                           /\ a + (b + 1) <= a + (b + 1)
    OBVIOUS
  <2>3. CASE faults' = faults
    BY <2>1, <2>2, <2>3 DEF Excuses
  <2>4. CASE faults' = faults + 1
    BY <2>1, <2>2, <2>4 DEF Excuses
  <2> QED
    BY <2>3, <2>4
<1>3. Homes' /\ GateOnce'
  BY <1>1 DEF TurnInv, Homes, GateOnce, Has, Once
<1>4. \A d \in Delivery : /\ Single(d)' = Single(d) /\ Due(d)' = Due(d)
                          /\ Loose(d)' = Loose(d)
  BY <1>1 DEF Single, Due, Loose, Has, Once
<1>5. ASSUME NEW d \in Delivery PROVE OneTurn(d)'
  <2>1. /\ Single(d) /\ begun[d] <= 1 + Excuses /\ begun'[d] = begun[d] /\ begun[d] \in Nat
        /\ Pending(d) \/ Due(d) => begun[d] <= Excuses
        /\ Loose(d) => answer'[d] = "none"
    BY <1>1 DEF TurnInv, OneTurn, TurnTypes
  <2>2. begun[d] <= 1 + Excuses'
    BY <1>2, <2>1
  <2>3. Pending(d)' \/ Due(d)' => begun[d] <= Excuses'
    <3>1. CASE faults' = faults
      BY <1>2, <1>4, <2>1, <3>1
    <3>2. CASE faults' # faults
      BY <1>2, <2>1, <3>2
    <3> QED
      BY <3>1, <3>2
  <2> QED
    BY <1>4, <2>1, <2>2, <2>3 DEF OneTurn
<1>6. TurnTypes'
  BY <1>1 DEF TurnTypes
<1> QED
  BY <1>3, <1>5, <1>6 DEF TurnInv

LEMMA DeliveryFacts ==
  \A d \in Delivery : /\ d \in Message /\ d \in Automation /\ d \notin CronRun /\ d \notin User
                      /\ d # NoOne /\ SessionOf[d] \in Session
BY TurnsAssumption DEF Message, Automation

LEMMA WriteMoves ==
  ASSUME LoopTypes, TurnInv, NEW m \in Message \ Delivery, bus' = Append(bus, m),
         UNCHANGED <<line, holder, gate, deferred>>,
         \A d \in Delivery : answer'[d] = answer[d]
  PROVE  Homes' /\ GateOnce' /\ \A d \in Delivery : Moves(d)
<1>1. Homes' /\ GateOnce'
  BY DEF TurnInv, Homes, GateOnce, Has, Once
<1>2. ASSUME NEW d \in Delivery PROVE Moves(d)
  <2>1. /\ Has(bus', d) <=> Has(bus, d)
        /\ Once(bus, d) => Once(bus', d)
    <3>1. bus \in Seq(Message) /\ m \in Message /\ d # m
      BY DEF LoopTypes
    <3> QED
      BY <3>1, HasAppend
  <2>2. /\ \A t : Has(line[t], d)' = Has(line[t], d) /\ Once(line[t], d)' = Once(line[t], d)
        /\ \A t : Has(deferred[t], d)' = Has(deferred[t], d) /\ Once(deferred[t], d)' = Once(deferred[t], d)
        /\ \A t : Has(gate, t)' = Has(gate, t)
    BY DEF Has, Once
  <2> QED
    BY <2>1, <2>2 DEF Moves, Single, Due, Loose, TurnInv, OneTurn
<1> QED
  BY <1>1, <1>2

LEMMA RouteMoves ==
  ASSUME LoopTypes, TurnInv, Route
  PROVE  Homes' /\ GateOnce' /\ \A d \in Delivery : Moves(d)
<1> DEFINE m == Head(bus)
           s == SessionOf[m]
<1>1. /\ bus \in Seq(Message) /\ bus # <<>> /\ bus' = Tail(bus) /\ m \in Message /\ s \in Session
      /\ UNCHANGED <<holder, gate, answer>>
  <2>1. bus \in Seq(Message) /\ bus # <<>> /\ bus' = Tail(bus) /\ UNCHANGED <<holder, gate, answer>>
    BY DEF Route, LoopTypes, waiters
  <2>2. m \in Message
    BY <2>1
  <2> HIDE DEF m
  <2> QED
    BY <2>1, <2>2 DEF LoopTypes
<1>2. \/ /\ m \in Automation /\ deferred' = [deferred EXCEPT ![s] = Append(deferred[s], m)]
         /\ line' = line
      \/ m \in User /\ UNCHANGED <<line, deferred>>
      \/ /\ line' = [line EXCEPT ![s] = Append(line[s], m)]
         /\ deferred' = deferred
  BY DEF Route
<1>3. ASSUME NEW d
      PROVE  /\ Has(bus, d) <=> m = d \/ Has(bus', d)
             /\ Once(bus, d) => Once(bus', d) /\ ~(m = d /\ Has(bus', d))
  BY <1>1, HasTail
<1> HIDE DEF m, s
<1>4. ASSUME NEW d \in Message, NEW t \in Session
      PROVE  /\ Has(line'[t], d) => Has(line[t], d) \/ (t = s /\ d = m /\ deferred' = deferred)
             /\ Has(deferred'[t], d) => Has(deferred[t], d) \/ (t = s /\ d = m /\ line' = line)
             /\ Once(line[t], d) /\ ~(d = m /\ Has(line[t], d)) => Once(line'[t], d)
             /\ Once(deferred[t], d) /\ ~(d = m /\ Has(deferred[t], d)) => Once(deferred'[t], d)
  <2>1. CASE m \in Automation /\ deferred' = [deferred EXCEPT ![s] = Append(deferred[s], m)] /\ line' = line
    <3>1. deferred'[t] = IF t = s THEN Append(deferred[s], m) ELSE deferred[t]
      BY <1>1, <2>1 DEF LoopTypes
    <3>2. CASE t = s
      <4>1. deferred[t] \in Seq(Automation) /\ m \in Automation /\ deferred'[t] = Append(deferred[t], m)
        BY <2>1, <3>1, <3>2 DEF LoopTypes
      <4>2. /\ Has(deferred'[t], d) <=> Has(deferred[t], d) \/ d = m
            /\ Once(deferred[t], d) /\ ~(Has(deferred[t], d) /\ d = m) => Once(deferred'[t], d)
        BY <4>1, HasAppend
      <4> QED
        BY <2>1, <3>2, <4>2
    <3>3. CASE t # s
      BY <2>1, <3>1, <3>3
    <3> QED
      BY <3>2, <3>3
  <2>2. CASE UNCHANGED <<line, deferred>>
    BY <2>2
  <2>3. CASE line' = [line EXCEPT ![s] = Append(line[s], m)] /\ deferred' = deferred
    <3>1. line'[t] = IF t = s THEN Append(line[s], m) ELSE line[t]
      BY <1>1, <2>3 DEF LoopTypes
    <3>2. CASE t = s
      <4>1. line[t] \in Seq(Message) /\ m \in Message /\ line'[t] = Append(line[t], m)
        BY <1>1, <3>1, <3>2 DEF LoopTypes
      <4>2. /\ Has(line'[t], d) <=> Has(line[t], d) \/ d = m
            /\ Once(line[t], d) /\ ~(Has(line[t], d) /\ d = m) => Once(line'[t], d)
        BY <4>1, HasAppend
      <4> QED
        BY <2>3, <3>2, <4>2
    <3>3. CASE t # s
      BY <2>3, <3>1, <3>3
    <3> QED
      BY <3>2, <3>3
  <2> QED
    BY <1>2, <2>1, <2>2, <2>3
<1>5. Homes'
  BY <1>1, <1>4 DEF TurnInv, Homes, s
<1>6. GateOnce'
  BY <1>1 DEF TurnInv, GateOnce
<1>7. ASSUME NEW d \in Delivery PROVE Moves(d)
  <2> DEFINE r == SessionOf[d]
  <2>1. d \in Message /\ r \in Session
    BY DeliveryFacts
  <2>2. Single(d)
    BY DEF TurnInv, OneTurn
  <2>3. /\ Has(bus', d) => Has(bus, d)
        /\ Has(line'[r], d) => Has(line[r], d) \/ (d = m /\ deferred' = deferred)
        /\ Has(deferred'[r], d) => Has(deferred[r], d) \/ (d = m /\ line' = line)
        /\ d = m => Has(bus, d) /\ ~Has(bus', d)
    BY <1>3, <1>4, <2>1, <2>2 DEF Single
  <2>4. Once(bus', d) /\ Once(line'[r], d) /\ Once(deferred'[r], d)
    BY <1>3, <1>4, <2>1, <2>2, <2>3 DEF Single
  <2>5. Single(d)'
    BY <1>1, <2>2, <2>3, <2>4 DEF Single
  <2>6. Due(d)' => Due(d)
    BY <1>1, <2>3 DEF Due
  <2> QED
    BY <1>1, <2>5, <2>6 DEF Moves, Loose
<1> QED
  BY <1>5, <1>6, <1>7

LEMMA LockMoves ==
  ASSUME LoopTypes, TurnTypes, TurnInv, NEW t \in Session, Lock(t)
  PROVE  Homes' /\ GateOnce' /\ gate' \in Seq(Session) /\ \A d \in Delivery : Moves(d)
<1> DEFINE m == Head(line[t])
<1>1. /\ holder[t] = NoOne /\ holder' = [holder EXCEPT ![t] = m]
      /\ line' = [line EXCEPT ![t] = Tail(line[t])] /\ gate' = Append(gate, t)
      /\ UNCHANGED <<bus, deferred, answer>>
      /\ line[t] \in Seq(Message) /\ line[t] # <<>>
  <2>1. line[t] \in Seq(Message) /\ fresh[t] \in Nat /\ Len(line[t]) > fresh[t]
    BY DEF LoopTypes, Lock
  <2> QED
    BY <2>1 DEF Lock, waiters
<1>2. m \in Message
  BY <1>1
<1>3. ASSUME NEW d
      PROVE  /\ Has(line[t], d) <=> m = d \/ Has(Tail(line[t]), d)
             /\ Once(line[t], d) => Once(Tail(line[t]), d) /\ ~(m = d /\ Has(Tail(line[t]), d))
  BY <1>1, HasTail
<1>4. ASSUME NEW x \in Session
      PROVE  /\ Has(gate', x) <=> Has(gate, x) \/ x = t
             /\ Once(gate, x) /\ ~(Has(gate, x) /\ x = t) => Once(gate', x)
  <2>1. gate \in Seq(Session) /\ gate' = Append(gate, t)
    BY <1>1 DEF TurnTypes
  <2> QED
    BY <2>1, HasAppend
<1>5. gate' \in Seq(Session)
  BY <1>1 DEF TurnTypes
<1> DEFINE rest == Tail(line[t])
<1> HIDE DEF m
<1>6. /\ line'[t] = rest /\ \A x \in Session \ {t} : line'[x] = line[x]
      /\ holder'[t] = m /\ \A x \in Session \ {t} : holder'[x] = holder[x]
      /\ m # NoOne
  <2> HIDE DEF rest
  <2>1. line' = [line EXCEPT ![t] = rest]
    BY <1>1 DEF rest
  <2> QED
    BY <1>1, <1>2, <2>1, TurnsAssumption DEF LoopTypes
<1>7. ASSUME NEW d
      PROVE  /\ Has(line[t], d) <=> m = d \/ Has(rest, d)
             /\ Once(line[t], d) => Once(rest, d) /\ ~(m = d /\ Has(rest, d))
  BY <1>3
<1> HIDE DEF rest
<1>8. SessionOf[m] = t
  BY <1>2, <1>7 DEF TurnInv, Homes
<1>9. Homes'
  <2>1. ASSUME NEW x \in Session PROVE \A d \in Message : Has(line'[x], d) => SessionOf[d] = x
    BY <1>6, <1>7 DEF TurnInv, Homes
  <2>2. ASSUME NEW x \in Session, holder'[x] # NoOne PROVE SessionOf[holder'[x]] = x
    BY <1>6, <1>8, <2>2 DEF TurnInv, Homes
  <2> QED
    BY <2>1, <2>2 DEF Homes
<1>10. GateOnce'
  <2>1. ~Has(gate, t)
    BY <1>1 DEF TurnInv, GateOnce
  <2>2. ASSUME NEW x \in Session PROVE Once(gate', x) /\ (Has(gate', x) => holder'[x] # NoOne)
    BY <1>4, <1>6, <2>1 DEF TurnInv, GateOnce
  <2> QED
    BY <2>2 DEF GateOnce
<1>11. ASSUME NEW d \in Delivery PROVE Moves(d)
  <2> DEFINE r == SessionOf[d]
  <2>1. d \in Message /\ r \in Session /\ d # NoOne
    BY DeliveryFacts
  <2>2. Single(d)
    BY DEF TurnInv, OneTurn
  <2>3. /\ Once(line'[r], d) /\ (Has(line'[r], d) => Has(line[r], d))
        /\ holder'[r] = d => ~Has(line'[r], d) /\ (holder[r] = d \/ Has(line[r], d))
    <3>1. CASE r = t
      <4>1. line'[r] = rest /\ holder'[r] = m /\ line[r] = line[t]
        BY <1>6, <3>1
      <4>2. Once(line[t], d)
        BY <2>2, <3>1 DEF Single
      <4>3. Once(rest, d) /\ (Has(rest, d) => Has(line[t], d)) /\ ~(m = d /\ Has(rest, d))
        BY <1>7, <4>2
      <4>4. m = d => Has(line[t], d)
        BY <1>7
      <4> QED
        BY <4>1, <4>3, <4>4
    <3>2. CASE r # t
      <4>1. line'[r] = line[r] /\ holder'[r] = holder[r]
        BY <1>6, <2>1, <3>2
      <4> QED
        BY <2>2, <4>1 DEF Single
    <3> QED
      BY <3>1, <3>2
  <2>4. Single(d)'
    BY <1>1, <2>2, <2>3 DEF Single
  <2>5. holder'[r] = d /\ Has(gate', r) => Due(d)
    <3>1. CASE r = t
      BY <1>1, <2>1, <2>3, <3>1 DEF Due
    <3>2. CASE r # t
      BY <1>4, <1>6, <2>1, <3>2 DEF Due
    <3> QED
      BY <3>1, <3>2
  <2>6. Due(d)' => Due(d)
    BY <1>1, <2>3, <2>5 DEF Due
  <2>7. Loose(d)' => Loose(d)
    BY <2>3, <2>6 DEF Loose, Due
  <2> QED
    BY <1>1, <2>4, <2>6, <2>7 DEF Moves
<1> QED
  BY <1>5, <1>9, <1>10, <1>11

\* The second holds nothing that the first does not, and nothing more often.
Shorter(p, q) == \A x : (Has(q, x) => Has(p, x)) /\ (Once(p, x) => Once(q, x))

LEMMA PublishMoves ==
  ASSUME LoopTypes, TurnInv, NEW queue \in Seq(Message), Shorter(bus, queue),
         NEW t \in Session, NEW left \in Seq(User), NEW n \in Nat,
         n <= Len(deferred[t]), Published(queue, t, left, n),
         holder' = [holder EXCEPT ![t] = NoOne],
         line' = line \/ line' = [line EXCEPT ![t] = <<>>],
         \A x \in Session : /\ Has(gate', x) => Has(gate, x) /\ x # t
                            /\ Once(gate, x) => Once(gate', x),
         \A d \in Delivery : d # holder[t] => answer'[d] = answer[d]
  PROVE  Homes' /\ GateOnce' /\ \A d \in Delivery : Moves(d)
<1> DEFINE q == deferred[t]
           out == SubSeq(q, 1, n)
           kept == SubSeq(q, n + 1, Len(q))
<1>1. /\ q \in Seq(Automation) 
      /\ bus' = (queue \o left) \o out /\ deferred' = [deferred EXCEPT ![t] = kept]
  BY DEF LoopTypes, Published
<1>2. ASSUME NEW d
      PROVE  /\ out \in Seq(Automation) /\ kept \in Seq(Automation)
             /\ Has(q, d) <=> Has(out, d) \/ Has(kept, d)
             /\ Once(q, d) => Once(out, d) /\ Once(kept, d) /\ ~(Has(out, d) /\ Has(kept, d))
  BY <1>1, HasCut
<1> HIDE DEF out, kept
<1>3. /\ queue \o left \in Seq(Message) /\ left \in Seq(Message) /\ out \in Seq(Message)
  BY <1>1, <1>2 DEF Message
<1>4. ASSUME NEW d \in Delivery
      PROVE  /\ Has(bus', d) <=> Has(queue, d) \/ Has(out, d)
             /\ Once(queue, d) /\ Once(out, d) /\ ~(Has(queue, d) /\ Has(out, d)) => Once(bus', d)
  <2>1. ~Has(left, d) /\ Once(left, d)
    <3>1. \A i \in 1 .. Len(left) : left[i] \in User
      OBVIOUS
    <3> QED
      BY <3>1, DeliveryFacts DEF Has, Once
  <2> DEFINE front == queue \o left
  <2>2. /\ Has(front, d) <=> Has(queue, d) \/ Has(left, d)
        /\ Once(queue, d) /\ Once(left, d) /\ ~(Has(queue, d) /\ Has(left, d)) => Once(front, d)
    BY <1>1, <1>3, HasConcat
  <2>3. front \in Seq(Message) /\ bus' = front \o out
    BY <1>1, <1>3
  <2> HIDE DEF front
  <2>4. /\ Has(front \o out, d) <=> Has(front, d) \/ Has(out, d)
        /\ Once(front, d) /\ Once(out, d) /\ ~(Has(front, d) /\ Has(out, d)) => Once(front \o out, d)
    BY <1>3, <2>3, HasConcat
  <2>5. PICK whole : whole = front \o out
    OBVIOUS
  <2>6. /\ Has(whole, d) <=> Has(front, d) \/ Has(out, d)
        /\ Once(front, d) /\ Once(out, d) /\ ~(Has(front, d) /\ Has(out, d)) => Once(whole, d)
    BY <2>4, <2>5
  <2>7. bus' = whole
    BY <2>3, <2>5
  <2> QED
    BY <2>1, <2>2, <2>6, <2>7
<1>5. /\ deferred'[t] = kept /\ \A x \in Session \ {t} : deferred'[x] = deferred[x]
      /\ holder'[t] = NoOne /\ \A x \in Session \ {t} : holder'[x] = holder[x]
  BY <1>1 DEF LoopTypes
<1>6. ASSUME NEW x \in Session, NEW d
      PROVE  /\ Has(line'[x], d) => Has(line[x], d)
             /\ Once(line[x], d) => Once(line'[x], d)
  <2>1. line'[x] = line[x] \/ line'[x] = <<>>
    BY DEF LoopTypes
  <2>2. ~Has(<<>>, d) /\ Once(<<>>, d)
    BY DEF Has, Once
  <2> QED
    BY <2>1, <2>2
<1>7. ASSUME NEW d \in Delivery, Has(out, d) PROVE SessionOf[d] = t
  <2>1. Has(q, d)
    BY <1>2, <1>7
  <2>2. \A i \in 1 .. Len(q) : SessionOf[q[i]] = t
    BY DEF LoopTypes, OwnTurn
  <2> HIDE DEF q
  <2> QED
    BY <2>1, <2>2 DEF Has
<1> HIDE DEF q
<1>8. Homes'
  BY <1>5, <1>6 DEF TurnInv, Homes
<1>9. GateOnce'
  BY <1>5 DEF TurnInv, GateOnce
<1>10. ASSUME NEW d \in Delivery PROVE Moves(d)
  <2> DEFINE s == SessionOf[d]
  <2>1. s \in Session /\ d # NoOne
    BY DeliveryFacts
  <2>2. Single(d)
    BY DEF TurnInv, OneTurn
  <2>a. (Has(queue, d) => Has(bus, d)) /\ Once(queue, d)
    BY <2>2 DEF Shorter, Single
  <2>3. holder'[s] = d => holder[s] = d /\ s # t
    BY <1>5, <2>1
  <2>4. /\ Has(line'[s], d) => Has(line[s], d)
        /\ Once(line[s], d) => Once(line'[s], d)
    BY <1>6, <2>1
  <2>5. /\ Has(bus', d) => Has(bus, d) \/ Has(deferred[s], d)
        /\ Has(deferred'[s], d) => Has(deferred[s], d)
        /\ Once(bus', d) /\ Once(deferred'[s], d)
        /\ ~(Has(bus', d) /\ Has(deferred'[s], d))
    <3>1. CASE s = t
      <4>1. q = deferred[s] /\ deferred'[s] = kept
        BY <1>5, <3>1 DEF q
      <4> QED
        BY <1>2, <1>4, <2>2, <2>a, <4>1 DEF Single
    <3>2. CASE s # t
      <4>1. ~Has(out, d) /\ deferred'[s] = deferred[s]
        BY <1>5, <1>7, <2>1, <3>2
      <4>2. Once(bus', d)
        <5>1. Once(out, d)
          BY <4>1 DEF Has, Once
        <5> QED
          BY <1>4, <2>2, <2>a, <4>1, <5>1 DEF Single
      <4> QED
        BY <1>4, <2>2, <2>a, <4>1, <4>2 DEF Single
    <3> QED
      BY <3>1, <3>2
  <2>6. Single(d)'
    BY <2>2, <2>3, <2>4, <2>5 DEF Single
  <2>7. Due(d)' => Due(d)
    BY <2>1, <2>3, <2>4, <2>5 DEF Due
  <2>8. Loose(d)' => Loose(d)
    BY <2>3, <2>7 DEF Loose
  <2>9. Loose(d)' => d # holder[t]
    <3>1. SUFFICES ASSUME d = holder[t] PROVE ~Loose(d)'
      OBVIOUS
    <3>2. s = t
      BY <2>1, <3>1 DEF TurnInv, Homes
    <3> QED
      BY <1>5, <2>1, <2>2, <2>4, <2>5, <3>1, <3>2 DEF Loose, Due, Single
  <2> QED
    BY <2>6, <2>7, <2>8, <2>9 DEF Moves
<1> QED
  BY <1>8, <1>9, <1>10

LEMMA EndTurnMoves ==
  ASSUME LoopTypes, Answers, TurnTypes, TurnInv, NEW t \in Session, EndTurn(t)
  PROVE  Homes' /\ GateOnce' /\ gate' = gate /\ \A d \in Delivery : Moves(d)
<1>0. /\ deferred[t] \in Seq(Automation) /\ Len(deferred[t]) \in Nat
      /\ injected[t] \in Seq(User) /\ <<>> \in Seq(User)
  BY DEF LoopTypes
<1>1. PICK n \in Nat : n = AtMost(1, t)
  BY <1>0 DEF AtMost
<1>2. PICK left \in Seq(User) : Published(bus, t, left, n)
  <2>1. PICK x \in {<<>>, injected[t]} : Published(bus, t, x, AtMost(1, t))
    BY DEF EndTurn
  <2>2. Published(bus, t, x, n)
    BY <1>1, <2>1 DEF Published
  <2> QED
    BY <1>0, <2>2
<1>3. n <= Len(deferred[t])
  BY <1>0, <1>1 DEF AtMost
<1>4. /\ holder' = [holder EXCEPT ![t] = NoOne] /\ line' = line /\ gate' = gate /\ ~Waits(t)
  BY DEF EndTurn, InTurn
<1>5. \A x \in Session : /\ Has(gate', x) => Has(gate, x) /\ x # t
                         /\ Once(gate, x) => Once(gate', x)
  <2>1. ~Has(gate, t)
    BY <1>4 DEF TurnTypes, Has, Waits
  <2> QED
    BY <1>4, <2>1
<1>6. \A d \in Delivery : d # holder[t] => answer'[d] = answer[d]
  <2>1. PICK how \in {"ok", "error"} : Answered(holder[t], how)
    BY DEF EndTurn
  <2>2. answer' = answer \/ answer' = [answer EXCEPT ![holder[t]] = how]
    BY <2>1 DEF Answered
  <2> QED
    BY <2>2, DeliveryFacts DEF Answers
<1>7. bus \in Seq(Message) /\ Shorter(bus, bus)
  BY DEF LoopTypes, Shorter
<1>8. Homes' /\ GateOnce' /\ \A d \in Delivery : Moves(d)
  BY <1>2, <1>3, <1>4, <1>5, <1>6, <1>7, PublishMoves
<1> QED
  BY <1>4, <1>8

LEMMA CancelledMoves ==
  ASSUME LoopTypes, Answers, TurnTypes, TurnInv, NEW t \in Session,
         NEW queue \in Seq(Message), Shorter(bus, queue), NEW taken, Cancelled(t, queue, taken)
  PROVE  Homes' /\ GateOnce' /\ gate' \in Seq(Session) /\ \A d \in Delivery : Moves(d)
<1> DEFINE held == IF holder[t] = NoOne THEN {} ELSE {holder[t]}
           k == Cardinality(held) + Len(line[t]) - fresh[t]
<1>0. /\ deferred[t] \in Seq(Automation) /\ Len(deferred[t]) \in Nat
      /\ injected[t] \in Seq(User) /\ gate \in Seq(Session) /\ DOMAIN gate = 1 .. Len(gate)
      /\ line[t] \in Seq(Message) /\ Len(line[t]) \in Nat
      /\ fresh[t] \in Nat /\ fresh[t] <= Len(line[t])
  BY DEF LoopTypes, TurnTypes
<1>1. /\ Published(queue, t, injected[t], AtMost(k, t))
      /\ line' = [line EXCEPT ![t] = <<>>]
      /\ holder' = [holder EXCEPT ![t] = NoOne]
      /\ gate' = IF Waits(t) THEN RemoveAt(gate, CHOOSE i \in DOMAIN gate : gate[i] = t) ELSE gate
      /\ IF InTurn(t) THEN Answered(holder[t], "error") ELSE UNCHANGED <<ended, answer>>
  BY DEF Cancelled
<1>2. k \in Nat
  <2>1. Cardinality(held) \in Nat
    <3>1. IsFiniteSet(held)
      BY FS_EmptySet, FS_Singleton
    <3> QED
      BY <3>1, FS_CardinalityType
  <2> HIDE DEF held
  <2> QED
    BY <1>0, <2>1
<1>3. PICK n \in Nat : n = AtMost(k, t)
  <2> HIDE DEF k
  <2> QED
    BY <1>0, <1>2 DEF AtMost
<1>4. n <= Len(deferred[t])
  <2> HIDE DEF k
  <2> QED
    BY <1>0, <1>2, <1>3 DEF AtMost
<1>5. Published(queue, t, injected[t], n)
  BY <1>1, <1>3 DEF Published
<1>6. /\ gate' \in Seq(Session)
      /\ \A x \in Session : /\ Has(gate', x) => Has(gate, x) /\ x # t
                            /\ Once(gate, x) => Once(gate', x)
  <2>1. CASE Waits(t)
    <3> DEFINE i == CHOOSE j \in DOMAIN gate : gate[j] = t
    <3>1. i \in 1 .. Len(gate) /\ gate[i] = t
      BY <1>0, <2>1 DEF Waits
    <3>2. gate' = RemoveAt(gate, i)
      BY <1>1, <2>1
    <3> HIDE DEF i
    <3>3. ASSUME NEW x \in Session
          PROVE  /\ RemoveAt(gate, i) \in Seq(Session)
                 /\ Has(RemoveAt(gate, i), x) => Has(gate, x)
                 /\ Once(gate, x) => Once(RemoveAt(gate, i), x) /\ (gate[i] = x => ~Has(RemoveAt(gate, i), x))
      BY <1>0, <3>1, HasRemoved
    <3>4. Once(gate, t)
      BY DEF TurnInv, GateOnce
    <3> QED
      BY <3>1, <3>2, <3>3, <3>4
  <2>2. CASE ~Waits(t)
    <3>1. ~Has(gate, t)
      BY <1>0, <2>2 DEF Has, Waits
    <3> QED
      BY <1>0, <1>1, <2>2, <3>1
  <2> QED
    BY <2>1, <2>2
<1>7. \A d \in Delivery : d # holder[t] => answer'[d] = answer[d]
  <2>1. answer' = answer \/ answer' = [answer EXCEPT ![holder[t]] = "error"]
    BY <1>1 DEF Answered
  <2> QED
    BY <2>1, DeliveryFacts DEF Answers
<1>8. line' = line \/ line' = [line EXCEPT ![t] = <<>>]
  BY <1>1
<1>9. holder' = [holder EXCEPT ![t] = NoOne]
  BY <1>1
<1> HIDE DEF k
<1>10. Homes' /\ GateOnce' /\ \A d \in Delivery : Moves(d)
  BY <1>0, <1>4, <1>5, <1>6, <1>7, <1>8, <1>9, PublishMoves
<1> QED
  BY <1>6, <1>10

LEMMA InlineMoves ==
  ASSUME LoopTypes, Answers, TurnTypes, TurnInv, Inline
  PROVE  Homes' /\ GateOnce' /\ gate' \in Seq(Session) /\ \A d \in Delivery : Moves(d)
<1>1. bus \in Seq(Message) /\ bus # <<>>
  BY DEF Inline, LoopTypes
<1>2. Tail(bus) \in Seq(Message) /\ Shorter(bus, Tail(bus))
  BY <1>1, HasTail DEF Shorter
<1>3. CASE bus' = Tail(bus) /\ UNCHANGED <<line, holder, gate, deferred, answer>>
  <2>1. Homes' /\ GateOnce' /\ gate' \in Seq(Session)
    BY <1>3 DEF TurnInv, TurnTypes, Homes, GateOnce, Has, Once
  <2>2. ASSUME NEW d \in Delivery PROVE Moves(d)
    <3>1. (Has(bus', d) => Has(bus, d)) /\ (Once(bus, d) => Once(bus', d))
      BY <1>2, <1>3 DEF Shorter
    <3> QED
      BY <1>3, <3>1 DEF TurnInv, OneTurn, Moves, Single, Due, Loose
  <2> QED
    BY <2>1, <2>2
<1>4. CASE Cancelled(SessionOf[Head(bus)], Tail(bus), {Head(bus)})
  <2>1. PICK t \in Session, m \in Message : t = SessionOf[m] /\ m = Head(bus)
    <3>1. Head(bus) \in Message
      BY <1>1
    <3> QED
      BY <3>1 DEF LoopTypes
  <2>2. PICK queue \in Seq(Message), taken \in SUBSET Message : queue = Tail(bus) /\ taken = {m}
    BY <1>2
  <2>3. Cancelled(t, queue, taken) /\ Shorter(bus, queue)
    BY <1>2, <1>4, <2>1, <2>2
  <2> QED
    BY <2>3, CancelledMoves
<1> QED
  BY <1>3, <1>4 DEF Inline, waiters

LEMMA EnterTurn ==
  ASSUME LoopTypes, TurnTypes, TurnInv, Enter
  PROVE  TurnTypes' /\ TurnInv'
<1> DEFINE t == Head(gate)
           m == holder[t]
<1>1. /\ gate \in Seq(Session) /\ gate # <<>> /\ gate' = Tail(gate) /\ begun \in [Delivery -> Nat]
      /\ begun' = IF m \in Delivery THEN [begun EXCEPT ![m] = begun[m] + 1] ELSE begun
      /\ UNCHANGED <<bus, line, holder, deferred, answer, queueVars>>
  BY DEF Enter, TurnTypes, waiters
<1>2. UNCHANGED <<made, inbox, processing, failed, batch, attempts, submitted, crashes, faults>>
  BY <1>1 DEF queueVars, files, runner
<1>3. t \in Session /\ gate' \in Seq(Session)
  BY <1>1
<1> HIDE DEF t
<1>4. ASSUME NEW x
      PROVE  /\ Has(gate, x) <=> t = x \/ Has(gate', x)
             /\ Once(gate, x) => Once(gate', x) /\ ~(t = x /\ Has(gate', x))
  BY <1>1, HasTail DEF t
<1> HIDE DEF m
<1>5. begun' \in [Delivery -> Nat] /\ \A d \in Delivery : begun'[d] = begun[d] + (IF d = m THEN 1 ELSE 0)
  BY <1>1
<1>6. TurnTypes'
  BY <1>2, <1>3, <1>5 DEF TurnTypes
<1>7. Homes'
  BY <1>1 DEF TurnInv, Homes, Has
<1>8. GateOnce'
  BY <1>1, <1>4 DEF TurnInv, GateOnce
<1>9. Excuses' = Excuses /\ Excuses \in Nat
  BY <1>2 DEF Excuses, TurnTypes
<1>10. ASSUME NEW d \in Delivery PROVE OneTurn(d)'
  <2> DEFINE s == SessionOf[d]
  <2>1. s \in Session /\ d # NoOne
    BY DeliveryFacts
  <2>2. /\ OneTurn(d) /\ Single(d) /\ begun[d] \in Nat
    BY <1>1 DEF TurnInv, OneTurn
  <2>3. Single(d)' /\ Held(d)' = Held(d) /\ Pending(d)' = Pending(d) /\ answer'[d] = answer[d]
    BY <1>1, <1>2, <2>2 DEF Single, Held, Pending, First, Has, Once, OnDisk, Files
  <2>4. /\ Due(d)' => Due(d)
        /\ Loose(d)' => Loose(d)
    BY <1>1, <1>4 DEF Due, Loose, Has
  <2>5. CASE d # m
    BY <1>5, <1>9, <2>2, <2>3, <2>4, <2>5 DEF OneTurn
  <2>6. CASE d = m
    <3>1. holder[s] = d /\ t = s
      BY <1>3, <2>1, <2>6 DEF m, TurnInv, Homes
    <3>2. Due(d) /\ Loose(d)
      BY <1>4, <3>1 DEF Due, Loose
    <3>3. begun[d] <= Excuses /\ Held(d) /\ answer[d] = "none"
      BY <2>2, <3>2 DEF OneTurn
    <3>4. ~Has(gate', s)
      BY <1>4, <2>1, <3>1 DEF TurnInv, GateOnce
    <3>5. ~Due(d)'
      BY <1>1, <2>2, <3>1, <3>4 DEF Due, Single, Has
    <3>6. ~Pending(d)'
      BY <2>3, <3>3 DEF Pending
    <3>7. begun'[d] = begun[d] + 1 /\ begun'[d] <= 1 + Excuses
      <4>1. begun'[d] = begun[d] + 1
        BY <1>5, <2>6
      <4>2. begun[d] + 1 <= 1 + Excuses
        BY <1>9, <2>2, <3>3
      <4> QED
        BY <4>1, <4>2
    <3> QED
      BY <1>9, <2>3, <3>3, <3>5, <3>6, <3>7 DEF OneTurn
  <2> QED
    BY <2>5, <2>6
<1> QED
  BY <1>6, <1>7, <1>8, <1>10 DEF TurnInv

LEMMA NoneLoose ==
  ASSUME TurnInv, NEW d \in Delivery, Loose(d)
  PROVE  submitted /\ d = First /\ answer[d] = "none"
BY DEF TurnInv, OneTurn, Held

\* Steps of the queue that no turn answers.
LEMMA QueueTurn ==
  ASSUME QueueInv, TurnTypes, TurnInv, UNCHANGED turnVars,
         \/ \E d \in Delivery : Enqueue(d) \/ Delete(d) \/ \E on \in BOOLEAN : Enable(d, on)
         \/ CrashInBoot \/ Boot \/ Claim \/ Refuse
  PROVE  TurnTypes' /\ TurnInv'
<1>0. UNCHANGED <<loop, answer, begun>>
  BY DEF turnVars, waiters, records
<1>a. ASSUME crashes' = crashes, faults' = faults, \A d \in Delivery : Loose(d) => Held(d)',
             \A d \in Delivery : Pending(d)' => Pending(d)
      PROVE  TurnTypes' /\ TurnInv'
  BY <1>0, <1>a, QueueStep
<1>b. ASSUME ~submitted, NEW d \in Delivery PROVE Loose(d) => Held(d)'
  BY <1>b, NoneLoose
<1>c. ASSUME UNCHANGED runner, NEW d \in Delivery PROVE (Loose(d) => Held(d)') /\ Held(d)' = Held(d)
  BY <1>c, NoneLoose DEF Held, First, runner
<1>1. CASE \E d \in Delivery : Enqueue(d)
  <2> PICK e \in Delivery : Enqueue(e)
    BY <1>1
  <2>1. /\ made[e] = Absent /\ inbox' = [inbox EXCEPT ![e] = 0]
        /\ \A d \in Delivery \ {e} : made'[d] = made[d]
        /\ UNCHANGED <<processing, failed, runner, batch, crashes, faults>>
    BY DEF Enqueue, runner, QueueInv, QueueTypes
  <2>2. ASSUME NEW d \in Delivery PROVE Pending(d)' => Pending(d)
    <3>1. Held(d)' = Held(d) /\ Has(batch, d)' = Has(batch, d)
      BY <1>c, <2>1 DEF Has
    <3>2. CASE d = e
      BY <2>1, <3>1, <3>2 DEF Pending
    <3>3. CASE d # e
      BY <2>1, <3>1, <3>3 DEF Pending, OnDisk, Files
    <3> QED
      BY <3>2, <3>3
  <2> QED
    BY <1>a, <1>c, <2>1, <2>2
<1>2. CASE \E d \in Delivery : Delete(d) \/ \E on \in BOOLEAN : Enable(d, on)
  <2>1. /\ \A d \in Delivery : d \in OnDisk' => d \in OnDisk
        /\ UNCHANGED <<made, runner, batch, crashes, faults>>
    BY <1>2 DEF Delete, Enable, runner, files, OnDisk, Files, QueueInv, QueueTypes
  <2>2. ASSUME NEW d \in Delivery PROVE Pending(d)' => Pending(d)
    BY <1>c, <2>1 DEF Pending, Has
  <2> QED
    BY <1>a, <1>c, <2>1, <2>2
<1>3. CASE CrashInBoot \/ Boot
  <2>1. /\ ~submitted /\ UNCHANGED <<made, runner, batch, crashes, faults>>
    BY <1>3 DEF Boot, CrashInBoot, runner, QueueInv, QueueTypes
  <2>2. PICK set \in SUBSET Files(processing) :
          Rewrite(set, processing) /\ (Unlink(set) \/ processing' = processing)
    BY <1>3 DEF Boot, CrashInBoot
  <2>3. ASSUME NEW d \in Delivery PROVE d \in OnDisk' => d \in OnDisk
    BY <2>2 DEF Rewrite, Unlink, OnDisk, Files
  <2>4. ASSUME NEW d \in Delivery PROVE Pending(d)' => Pending(d)
    BY <1>c, <2>1, <2>3 DEF Pending, Has
  <2> QED
    BY <1>a, <1>b, <2>1, <2>4
<1>4. CASE Claim
  <2>1. ~submitted /\ submitted' = submitted /\ UNCHANGED <<made, failed, crashes, faults>>
    BY <1>4 DEF Claim, QueueInv, QueueTypes
  <2>n. PICK n \in 1 .. BatchSize : \E q \in [1 .. n -> Files(inbox)] :
          /\ batch' = q
          /\ processing' = [d \in Delivery |-> IF d \in {q[i] : i \in 1 .. n} THEN inbox[d] ELSE processing[d]]
          /\ inbox' = [d \in Delivery |-> IF d \in {q[i] : i \in 1 .. n} THEN Absent ELSE inbox[d]]
    BY <1>4 DEF Claim, Take
  <2>2. PICK q \in [1 .. n -> Files(inbox)] :
          /\ batch' = q
          /\ processing' = [d \in Delivery |-> IF d \in {q[i] : i \in 1 .. n} THEN inbox[d] ELSE processing[d]]
          /\ inbox' = [d \in Delivery |-> IF d \in {q[i] : i \in 1 .. n} THEN Absent ELSE inbox[d]]
    BY <2>n
  <2>3. ASSUME NEW d \in Delivery PROVE d \in OnDisk' => d \in OnDisk
    BY <2>1, <2>2 DEF OnDisk, Files
  <2>4. ASSUME NEW d \in Delivery, Has(batch', d) PROVE d \in OnDisk
    <3>1. n \in Nat
      BY QueueAssumption
    <3>2. Len(batch') = n /\ \A i \in 1 .. n : batch'[i] \in Files(inbox)
      BY <2>2, <3>1
    <3> QED
      BY <2>4, <3>2 DEF Has, OnDisk
  <2>5. ASSUME NEW d \in Delivery PROVE Pending(d)' => Pending(d)
    BY <2>1, <2>3, <2>4 DEF Pending, Held, Has
  <2> QED
    BY <1>a, <1>b, <2>1, <2>5
<1>5. CASE Refuse
  <2>1. /\ ~submitted /\ batch # <<>> /\ batch \in Seq(Delivery) /\ batch' = Tail(batch)
        /\ Unlink({First}) /\ UNCHANGED <<made, inbox, failed, crashes, faults>>
    BY <1>5 DEF Refuse, Advance, QueueInv, QueueTypes
  <2>2. ASSUME NEW d \in Delivery PROVE d \in OnDisk' => d \in OnDisk
    BY <2>1 DEF Unlink, OnDisk, Files
  <2>3. ASSUME NEW d \in Delivery PROVE Has(batch', d) => Has(batch, d)
    BY <2>1, HasTail
  <2>4. ASSUME NEW d \in Delivery PROVE Pending(d)' => Pending(d)
    BY <2>1, <2>2, <2>3 DEF Pending, Held, Has
  <2> QED
    BY <1>a, <1>b, <2>1, <2>4
<1> QED
  BY <1>1, <1>2, <1>3, <1>4, <1>5

LEMMA SubmitTurn ==
  ASSUME QueueInv, LoopTypes, Answers, TurnTypes, TurnInv, SubmitDelivery
  PROVE  TurnTypes' /\ TurnInv'
<1>1. /\ ~submitted /\ submitted' = TRUE /\ batch # <<>>
      /\ UNCHANGED <<made, inbox, processing, failed, batch, crashes, faults>>
      /\ answer' = [answer EXCEPT ![First] = "none"] /\ bus' = Append(bus, First)
      /\ UNCHANGED <<line, holder, gate, deferred, begun>>
  BY DEF SubmitDelivery, Submit, Submitted, files, records
<1>2. /\ First \in Delivery /\ Has(batch, First)
  BY <1>1, BatchFacts DEF QueueInv, Has
<1>3. PICK m \in Delivery : m = First /\ First' = m
  BY <1>1, <1>2 DEF First
<1>4. answer'[m] = "none" /\ \A d \in Delivery : answer'[d] = "none" \/ answer'[d] = answer[d]
  BY <1>1, <1>3, DeliveryFacts DEF Answers
<1>5. ASSUME NEW d \in Delivery
      PROVE  /\ Has(bus', d) <=> Has(bus, d) \/ d = m
             /\ Once(bus, d) /\ ~(Has(bus, d) /\ d = m) => Once(bus', d)
  <2>1. bus \in Seq(Message) /\ m \in Message /\ bus' = Append(bus, m)
    BY <1>1, <1>3, DeliveryFacts DEF LoopTypes
  <2> QED
    BY <2>1, HasAppend
<1>6. TurnTypes' /\ Excuses' = Excuses
  BY <1>1 DEF TurnTypes, Excuses
<1>7. Homes' /\ GateOnce'
  BY <1>1 DEF TurnInv, Homes, GateOnce, Has, Once
<1>8. ASSUME NEW d \in Delivery PROVE OneTurn(d)'
  <2>1. ~Loose(d) /\ OneTurn(d)
    BY <1>1, NoneLoose DEF TurnInv
  <2>2. /\ ~Has(bus, d) /\ ~Has(line[SessionOf[d]], d) /\ ~Has(deferred[SessionOf[d]], d)
        /\ holder[SessionOf[d]] # d /\ Single(d)
    BY <2>1 DEF Loose, Due, OneTurn
  <2>3. Single(d)'
    BY <1>1, <1>5, <2>2 DEF Single, Has, Once
  <2>4. Loose(d)' => d = m
    BY <1>1, <1>5, <2>2 DEF Loose, Due, Has
  <2>5. Held(d)' <=> d = m
    BY <1>1, <1>3 DEF Held
  <2>6. Pending(d)' => Pending(d)
    BY <1>1 DEF Pending, Held, Has, OnDisk, Files
  <2>7. Due(d)' => Pending(d)
    BY <1>1, <1>2, <1>3, <2>4 DEF Loose, Pending, Held
  <2>8. begun'[d] = begun[d] /\ begun[d] <= 1 + Excuses /\ (Pending(d) => begun[d] <= Excuses)
    BY <1>1, <2>1 DEF OneTurn
  <2> QED
    BY <1>4, <1>6, <2>3, <2>4, <2>5, <2>6, <2>7, <2>8 DEF OneTurn
<1> QED
  BY <1>6, <1>7, <1>8 DEF TurnInv

\* A delivery that was answered leaves nothing of it to be submitted again.
LEMMA DoneTurn ==
  ASSUME QueueInv, TurnTypes, TurnInv, Done
  PROVE  TurnTypes' /\ TurnInv'
<1>1. /\ submitted /\ batch # <<>> /\ batch' = Tail(batch) /\ submitted' = FALSE
      /\ Unlink({First}) /\ answer[First] # "none"
      /\ UNCHANGED <<made, inbox, failed, crashes, faults>>
      /\ UNCHANGED <<loop, answer, begun>>
  BY DEF Done, Complete, Advance, Leaves, records, QueueInv, QueueTypes
<1>2. /\ Len(batch) \in Nat \ {0} /\ First = batch[1] /\ First \in Delivery
      /\ Len(Tail(batch)) = Len(batch) - 1
      /\ \A i \in 1 .. Len(batch) - 1 : Tail(batch)[i] = batch[i + 1]
  BY <1>1, BatchFacts DEF QueueInv
<1>3. 1 \in 1 .. Len(batch) /\ \A i \in 1 .. Len(batch) - 1 : i + 1 \in 1 .. Len(batch) /\ i + 1 # 1
  BY <1>2
<1>4. /\ inbox[First] = Absent /\ failed[First] = Absent /\ made[First] # Absent
      /\ \A i \in 1 .. Len(batch) : batch[i] = First => i = 1
  BY <1>2, <1>3 DEF QueueInv, BatchIsClaimed
<1>5. \A d \in Delivery : Has(batch', d) => Has(batch, d) /\ d # First
  BY <1>1, <1>2, <1>3, <1>4 DEF Has
<1>6. \A d \in Delivery : d \in OnDisk' => d \in OnDisk /\ d # First
  BY <1>1, <1>4 DEF Unlink, OnDisk, Files
<1>7. \A d \in Delivery : ~Loose(d)
  BY <1>1, NoneLoose
<1>8. \A d \in Delivery : Pending(d)' => Pending(d)
  BY <1>1, <1>4, <1>5, <1>6 DEF Pending, Held
<1> QED
  BY <1>1, <1>7, <1>8, QueueStep

LEMMA FailTurn ==
  ASSUME TurnTypes, TurnInv, DeliveryFails
  PROVE  TurnTypes' /\ TurnInv'
<1>1. /\ crashes' = crashes /\ faults' = faults + 1 /\ (submitted => answer[First] = "ok")
      /\ UNCHANGED <<loop, answer, begun>>
  BY DEF DeliveryFails, Fails, Fault, Leaves, records
<1>2. \A d \in Delivery : ~Loose(d)
  BY <1>1, NoneLoose
<1>3. faults' # faults
  BY <1>1 DEF TurnTypes
<1> QED
  BY <1>1, <1>2, <1>3, QueueStep

\* With the process go all the messages, and a crash excuses one more turn.
LEMMA EndsTurn ==
  ASSUME TurnTypes, TurnInv, Shutdown \/ Crash \/ CrashInClaim \/ CrashInRetry, LoopEnds,
         begun' = begun
  PROVE  TurnTypes' /\ TurnInv'
<1>1. /\ crashes' = crashes + 1 /\ faults' = faults
      /\ bus' = <<>> /\ gate' = <<>> /\ line' = [s \in Session |-> <<>>]
      /\ holder' = [s \in Session |-> NoOne] /\ deferred' = [s \in Session |-> <<>>]
  BY DEF Shutdown, Crash, CrashInClaim, CrashInRetry, LoopEnds
<1>2. \A x : ~Has(<<>>, x) /\ Once(<<>>, x)
  BY DEF Has, Once
<1>3. TurnTypes'
  BY <1>1 DEF TurnTypes
<1>4. Homes' /\ GateOnce'
  BY <1>1, <1>2 DEF Homes, GateOnce
<1>5. Excuses \in Nat /\ Excuses' \in Nat /\ Excuses' = 1 + Excuses
  <2>1. \A a, b \in Nat : (a + 1) + b = 1 + (a + b) /\ a + b \in Nat /\ 1 + (a + b) \in Nat
    OBVIOUS
  <2> QED
    BY <1>1, <2>1 DEF Excuses, TurnTypes
<1>6. ASSUME NEW d \in Delivery PROVE OneTurn(d)'
  <2>1. SessionOf[d] \in Session /\ d # NoOne
    BY DeliveryFacts
  <2>2. Single(d)' /\ ~Loose(d)'
    BY <1>1, <1>2, <2>1 DEF Single, Loose, Due
  <2>3. begun'[d] \in Nat /\ begun'[d] <= 1 + Excuses
    BY DEF TurnTypes, TurnInv, OneTurn
  <2>4. begun'[d] <= Excuses' /\ begun'[d] <= 1 + Excuses'
    BY <1>5, <2>3
  <2> QED
    BY <2>2, <2>4 DEF OneTurn
<1> QED
  BY <1>3, <1>4, <1>6 DEF TurnInv

LEMMA LoopTurn ==
  ASSUME Answers, LoopTypes, TurnTypes, TurnInv,
         \/ \E c \in CronRun : SubmitCron(c) \/ CronDone(c) \/ GiveUp(c)
         \/ \E u \in User : Write(u)
         \/ Route \/ Inline \/ \E s \in Session : Begin(s) \/ Lock(s) \/ EndTurn(s) \/ Stop(s)
  PROVE  TurnTypes' /\ TurnInv'
<1>0. UNCHANGED <<made, files, runner, crashes, faults, begun>>
  BY
  DEF SubmitCron, CronDone, GiveUp, Write, Route, Inline, Begin, Lock, EndTurn, Stop,
      Cancelled, Send, Submitted, Leaves, queueVars, records
<1>a. ASSUME Homes', GateOnce', gate' \in Seq(Session), \A d \in Delivery : Moves(d)
      PROVE  TurnTypes' /\ TurnInv'
  BY <1>0, <1>a, LoopStep
<1>g. gate \in Seq(Session)
  BY DEF TurnTypes
<1>s. ASSUME UNCHANGED <<bus, line, holder, gate, deferred, answer>>
      PROVE  TurnTypes' /\ TurnInv'
  <2>1. Homes' /\ GateOnce'
    BY <1>s DEF TurnInv, Homes, GateOnce, Has, Once
  <2>2. ASSUME NEW d \in Delivery PROVE Moves(d)
    <3>1. Single(d)
      BY DEF TurnInv, OneTurn
    <3>2. Single(d)' = Single(d) /\ Due(d)' = Due(d) /\ Loose(d)' = Loose(d)
      BY <1>s DEF Single, Due, Loose, Has, Once
    <3> QED
      BY <1>s, <3>1, <3>2 DEF Moves
  <2> QED
    BY <1>a, <1>g, <1>s, <2>1, <2>2
<1>m. ASSUME NEW m \in Message \ Delivery, bus' = Append(bus, m),
             UNCHANGED <<line, holder, gate, deferred>>,
             \A d \in Delivery : answer'[d] = answer[d]
      PROVE  TurnTypes' /\ TurnInv'
  <2>1. Homes' /\ GateOnce' /\ \A d \in Delivery : Moves(d)
    BY <1>m, WriteMoves
  <2> QED
    BY <1>a, <1>g, <1>m, <2>1
<1>1. CASE \E c \in CronRun : SubmitCron(c)
  <2> PICK c \in CronRun : SubmitCron(c)
    BY <1>1
  <2>1. /\ bus' = Append(bus, c) /\ answer' = [answer EXCEPT ![c] = "none"]
        /\ UNCHANGED <<line, holder, gate, deferred>>
    BY DEF SubmitCron, Submitted
  <2>2. c \in Message \ Delivery
    BY DeliveryFacts DEF Message, Automation
  <2>3. \A d \in Delivery : answer'[d] = answer[d]
    BY <2>1, DeliveryFacts DEF Answers
  <2> QED
    BY <1>m, <2>1, <2>2, <2>3
<1>2. CASE \E c \in CronRun : CronDone(c) \/ GiveUp(c)
  BY <1>s, <1>2 DEF CronDone, GiveUp, Leaves, loop
<1>3. CASE \E u \in User : Write(u)
  <2> PICK u \in User : Write(u)
    BY <1>3
  <2>1. /\ bus' = Append(bus, u) /\ answer' = answer
        /\ UNCHANGED <<line, holder, gate, deferred>>
    BY DEF Write, waiters
  <2>2. u \in Message \ Delivery
    BY DeliveryFacts DEF Message
  <2> QED
    BY <1>m, <2>1, <2>2
<1>4. CASE Route
  <2>1. gate' = gate
    BY <1>4 DEF Route
  <2> QED
    BY <1>4, <1>a, <1>g, <2>1, RouteMoves
<1>5. CASE \E s \in Session : Begin(s)
  BY <1>s, <1>5 DEF Begin, waiters
<1>6. CASE \E s \in Session : Lock(s)
  BY <1>6, <1>a, LockMoves
<1>7. CASE \E s \in Session : EndTurn(s)
  BY <1>7, <1>a, <1>g, EndTurnMoves
<1>8. CASE \E s \in Session : Stop(s)
  <2> PICK s \in Session : Stop(s)
    BY <1>8
  <2>1. PICK queue \in Seq(Message), taken \in SUBSET Message : queue = bus /\ taken = {}
    BY DEF LoopTypes
  <2>2. Cancelled(s, queue, taken) /\ Shorter(bus, queue)
    BY <2>1 DEF Stop, Shorter
  <2> QED
    BY <1>a, <2>2, CancelledMoves
<1>9. CASE Inline
  BY <1>9, <1>a, InlineMoves
<1> QED
  BY <1>1, <1>2, <1>3, <1>4, <1>5, <1>6, <1>7, <1>8, <1>9

LEMMA InitTurn == ASSUME Init PROVE TurnTypes /\ TurnInv
<1>1. /\ crashes = 0 /\ faults = 0 /\ begun = [d \in Delivery |-> 0]
      /\ bus = <<>> /\ gate = <<>> /\ line = [s \in Session |-> <<>>]
      /\ holder = [s \in Session |-> NoOne] /\ deferred = [s \in Session |-> <<>>]
  BY DEF Init, QueueInit, NoLoop
<1>2. \A x : ~Has(<<>>, x) /\ Once(<<>>, x)
  BY DEF Has, Once
<1>3. TurnTypes
  BY <1>1 DEF TurnTypes
<1>4. Homes /\ GateOnce
  BY <1>1, <1>2 DEF Homes, GateOnce
<1>5. Excuses = 0
  BY <1>1 DEF Excuses
<1>6. ASSUME NEW d \in Delivery PROVE OneTurn(d)
  <2>1. SessionOf[d] \in Session /\ d # NoOne
    BY DeliveryFacts
  <2>2. Single(d) /\ ~Loose(d)
    BY <1>1, <1>2, <2>1 DEF Single, Loose, Due
  <2> QED
    BY <1>1, <1>5, <2>2 DEF OneTurn
<1> QED
  BY <1>3, <1>4, <1>6 DEF TurnInv

LEMMA StepTurn ==
  ASSUME Kept, LoopTypes, TurnTypes, TurnInv, [Next]_vars
  PROVE  TurnTypes' /\ TurnInv'
<1>0. QueueInv /\ Answers
  BY DEF Kept
<1>1. CASE UNCHANGED turnVars /\ (\/ \E d \in Delivery : Enqueue(d) \/ Delete(d) \/ \E on \in BOOLEAN : Enable(d, on)
                                  \/ CrashInBoot \/ Boot \/ Claim \/ Refuse)
  BY <1>0, <1>1, QueueTurn
<1>2. CASE SubmitDelivery
  BY <1>0, <1>2, SubmitTurn
<1>3. CASE Done
  BY <1>0, <1>3, DoneTurn
<1>4. CASE DeliveryFails
  BY <1>4, FailTurn
<1>5. CASE \/ \E c \in CronRun : SubmitCron(c) \/ CronDone(c) \/ GiveUp(c)
           \/ \E u \in User : Write(u)
           \/ Route \/ Inline \/ \E s \in Session : Begin(s) \/ Lock(s) \/ EndTurn(s) \/ Stop(s)
  BY <1>0, <1>5, LoopTurn
<1>6. CASE Enter
  BY <1>6, EnterTurn
<1>7. CASE (Shutdown \/ Crash \/ CrashInClaim \/ CrashInRetry) /\ LoopEnds
            /\ UNCHANGED <<sent, stops, begun, ended>>
  BY <1>7, EndsTurn
<1>8. CASE UNCHANGED vars
  <2>1. UNCHANGED <<loop, answer, begun>> /\ UNCHANGED <<made, files, runner, crashes, faults>>
    BY <1>8 DEF vars, turnVars, queueVars, waiters, records
  <2>2. \A d \in Delivery : Pending(d)' = Pending(d) /\ Held(d)' = Held(d)
    BY <2>1 DEF Pending, Held, First, Has, OnDisk, Files, files, runner
  <2>3. \A d \in Delivery : Loose(d) => Held(d)'
    BY <2>2 DEF TurnInv, OneTurn
  <2> QED
    BY <2>1, <2>2, <2>3, QueueStep
<1> QED
  BY <1>1, <1>2, <1>3, <1>4, <1>5, <1>6, <1>7, <1>8 DEF Next

\* Every turn of a delivery but the first is owed to a crash or a stop of the gateway,
\* or to a fault of its disk: /stop, a deferral and a failed turn repeat nothing.
THEOREM TurnsExcused == Spec => []NoNeedlessTurn
<1> DEFINE Inv == Kept /\ LoopTypes /\ Hosts /\ TurnTypes /\ TurnInv
<1>1. Init => Inv
  BY InitKept, InitHosts, InitTurn
<1>2. Inv /\ [Next]_vars => Inv'
  BY StepKept, StepHosts, StepTurn
<1>3. Inv => NoNeedlessTurn
  <2>1. \A a, b \in Nat : 1 + (a + b) = 1 + a + b
    OBVIOUS
  <2> QED
    BY <2>1 DEF TurnTypes, TurnInv, OneTurn, Excuses, NoNeedlessTurn
<1> QED
  BY <1>1, <1>2, <1>3, PTL DEF Spec
=============================================================================

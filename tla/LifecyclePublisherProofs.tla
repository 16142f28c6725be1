---------------------- MODULE LifecyclePublisherProofs ----------------------
(***************************************************************************)
(* Theorems about LifecyclePublisher for any number of flushing            *)
(* coroutines, events and faults: nothing is marked published that the     *)
(* audit log did not get, nothing is out of order, and what a reader of    *)
(* the log sees is the trail that AuditTrail describes.                    *)
(***************************************************************************)
EXTENDS LifecyclePublisher, TLAPS, WellFoundedInduction, SequenceTheorems,
        FiniteSetTheorems

LEMMA FirstIsLeast ==
  ASSUME NEW S \in SUBSET Nat, S # {}
  PROVE  First(S) \in S /\ \A j \in S : First(S) <= j
<1>1. PICK m \in S : \A k \in S : <<k, m>> \notin OpToRel(<, Nat)
  BY WFMin, NatLessThanWellFounded, Zenon
<1>2. \A k \in S : ~(k < m)
  BY <1>1 DEF OpToRel
<1>3. \A k \in S : m <= k
  BY <1>2
<1> QED BY <1>3 DEF First

-----------------------------------------------------------------------------
(* The inductive invariant. *)

Active == {"ready", "waiting", "acked"}

\* A coroutine at work has something left, and everything before it is
\* either also left or published by now.
CopiesAreSuffixes ==
  \A f \in Flushers :
    /\ flusher[f].pc \in Active => flusher[f].todo # {}
    /\ \A k \in flusher[f].todo :
         1..k \subseteq flusher[f].todo \cup published

\* What a coroutine was told is committed is in the log.
AckedIsLogged ==
  \A f \in Flushers : flusher[f].pc = "acked" => Current(f) \in ToSet(log)

\* A queued item that still has a waiter is the one its waiter waits for.
WaitersMatch ==
  \A i \in DOMAIN queue : \A f \in Flushers :
    queue[i].waiter = f =>
      /\ flusher[f].pc = "waiting"
      /\ queue[i].event = Current(f)
      /\ \A j \in DOMAIN queue : queue[j].waiter = f => i = j

IndInv ==
  /\ TypeOK
  /\ PublishedIsLogged
  /\ PublishedInOrder
  /\ CopiesAreSuffixes
  /\ AckedIsLogged
  /\ WaitersMatch

LEMMA InitInv == Init => IndInv
BY PublisherAssumption
   DEF Init, IndInv, TypeOK, PublishedIsLogged, PublishedInOrder, Idle, Fault,
       CopiesAreSuffixes, AckedIsLogged, WaitersMatch, Active, ToSet

LEMMA AppendEventInv ==
  ASSUME IndInv, AppendEvent
  PROVE  IndInv'
<1>1. /\ appended \in Nat /\ appended' \in 0..MaxEvents
      /\ 1..appended \subseteq 1..appended'
  BY PublisherAssumption DEF IndInv, TypeOK, AppendEvent
<1>2. queue' \in Seq([event : 1..appended', waiter : Flushers \cup {Nobody}])
  <2> DEFINE S == [event : 1..appended, waiter : Flushers \cup {Nobody}]
             T == [event : 1..appended', waiter : Flushers \cup {Nobody}]
  <2>1. S \subseteq T
    BY <1>1
  <2>2. queue \in Seq(S) /\ queue' = queue
    BY DEF IndInv, TypeOK, AppendEvent
  <2> HIDE DEF S, T
  <2>3. queue \in Seq(T)
    BY <2>1, <2>2, SeqMonotonic
  <2> QED BY <2>2, <2>3 DEF T
<1>3. log' \in Seq(1..appended')
  BY <1>1, SeqMonotonic DEF IndInv, TypeOK, AppendEvent
<1>4. TypeOK'
  <2>1. \A g \in Flushers :
          flusher[g] \in [pc : {"idle", "broken", "ready", "waiting", "acked"},
                         todo : SUBSET (1..appended')]
    BY <1>1 DEF IndInv, TypeOK
  <2>2. flusher' \in [Flushers -> [pc : {"idle", "broken", "ready", "waiting",
                                       "acked"},
                                  todo : SUBSET (1..appended')]]
    BY <2>1 DEF IndInv, TypeOK, AppendEvent
  <2> QED BY <1>1, <1>2, <1>3, <2>2 DEF IndInv, TypeOK, AppendEvent
<1>5. CopiesAreSuffixes' /\ PublishedIsLogged' /\ PublishedInOrder'
      /\ AckedIsLogged' /\ WaitersMatch'
  BY DEF IndInv, AppendEvent, CopiesAreSuffixes, PublishedIsLogged,
         PublishedInOrder, AckedIsLogged, WaitersMatch, Current
<1> QED BY <1>4, <1>5 DEF IndInv

LEMMA FlushInv ==
  ASSUME IndInv, NEW f \in Flushers, Flush(f)
  PROVE  IndInv'
<1> DEFINE pending == (1..appended) \ published
<1>1. flusher' = [flusher EXCEPT ![f] = [pc |-> "ready", todo |-> pending]]
      /\ flusher[f].pc \notin Active /\ pending # {}
      /\ UNCHANGED <<appended, published, queue, log, auditOn, silenced, faults>>
  BY DEF Flush, Active
<1>2. flusher \in [Flushers -> [pc : {"idle", "broken"} \cup Active,
                              todo : SUBSET (1..appended)]]
      /\ appended \in Nat
  BY PublisherAssumption DEF IndInv, TypeOK, Active
<1>3. TypeOK'
  BY <1>1 DEF IndInv, TypeOK
<1>4. PublishedIsLogged' /\ PublishedInOrder'
  BY <1>1 DEF IndInv, PublishedIsLogged, PublishedInOrder
<1>5. CopiesAreSuffixes'
  <2>1. \A k \in pending : 1..k \subseteq pending \cup published
    BY <1>2
  <2> HIDE DEF pending
  <2> QED BY <1>1, <1>2, <2>1 DEF IndInv, CopiesAreSuffixes
<1>6. AckedIsLogged'
  BY <1>1, <1>2 DEF IndInv, AckedIsLogged, Current
<1>7. WaitersMatch'
  BY <1>1, <1>2 DEF IndInv, WaitersMatch, Current, Active
<1> QED BY <1>3, <1>4, <1>5, <1>6, <1>7 DEF IndInv

LEMMA FlushSilentlyInv ==
  ASSUME IndInv, FlushSilently
  PROVE  IndInv'
<1> PICK k \in 1..appended : /\ published' = published \cup 1..k
                            /\ silenced' = silenced \cup ((1..k) \ (published \cup ToSet(log)))
  BY DEF FlushSilently
<1>1. /\ appended \in Nat /\ k \in Nat /\ 1..k \subseteq 1..appended
      /\ \A j \in 1..k : 1..j \subseteq 1..k
      /\ UNCHANGED <<appended, queue, log, flusher, auditOn, faults>>
  BY PublisherAssumption DEF IndInv, TypeOK, FlushSilently
<1>2. TypeOK'
  <2>1. published' \subseteq 1..appended /\ silenced' \subseteq 1..appended
    BY <1>1 DEF IndInv, TypeOK
  <2> QED BY <1>1, <2>1 DEF IndInv, TypeOK
<1>3. PublishedIsLogged'
  BY <1>1 DEF IndInv, PublishedIsLogged
<1>4. PublishedInOrder'
  BY <1>1 DEF IndInv, PublishedInOrder
<1>5. CopiesAreSuffixes' /\ AckedIsLogged' /\ WaitersMatch'
  BY <1>1 DEF IndInv, CopiesAreSuffixes, AckedIsLogged, WaitersMatch, Current
<1> QED BY <1>2, <1>3, <1>4, <1>5 DEF IndInv

LEMMA SubmitInv ==
  ASSUME IndInv, NEW f \in Flushers, Submit(f)
  PROVE  IndInv'
<1> DEFINE item == [event |-> Current(f), waiter |-> f]
<1>1. /\ flusher \in [Flushers -> [pc : {"idle", "broken"} \cup Active,
                                 todo : SUBSET (1..appended)]]
      /\ flusher' = [flusher EXCEPT ![f].pc = "waiting"]
      /\ flusher[f].pc = "ready" /\ f # Nobody
      /\ appended \in Nat
      /\ UNCHANGED <<appended, published, log, auditOn, silenced, faults>>
  BY PublisherAssumption DEF IndInv, TypeOK, Active, Submit
<1>2. /\ flusher[f].todo # {} /\ flusher[f].todo \in SUBSET Nat
      /\ flusher[f].todo \subseteq 1..appended
  BY <1>1 DEF IndInv, CopiesAreSuffixes, Active
<1>3. Current(f) \in 1..appended
  BY <1>2, FirstIsLeast DEF Current
<1>4. /\ queue \in Seq([event : 1..appended, waiter : Flushers \cup {Nobody}])
      /\ queue' = Append(queue, item)
      /\ item \in [event : 1..appended, waiter : Flushers \cup {Nobody}]
      /\ item.event = Current(f) /\ item.waiter = f
  BY <1>1, <1>3 DEF IndInv, TypeOK, Submit
<1> HIDE DEF item
<1>5. \A g \in Flushers : flusher'[g].todo = flusher[g].todo
                        /\ (g # f => flusher'[g].pc = flusher[g].pc)
                        /\ flusher'[f].pc = "waiting"
  BY <1>1
<1>6. TypeOK'
  <2>1. queue' \in Seq([event : 1..appended', waiter : Flushers \cup {Nobody}])
    BY <1>1, <1>4
  <2>2. flusher' \in [Flushers -> [pc : {"idle", "broken", "ready", "waiting",
                                       "acked"},
                                  todo : SUBSET (1..appended')]]
    BY <1>1 DEF Active
  <2> QED BY <1>1, <2>1, <2>2 DEF IndInv, TypeOK
<1>7. PublishedIsLogged' /\ PublishedInOrder'
  BY <1>1 DEF IndInv, PublishedIsLogged, PublishedInOrder
<1>8. CopiesAreSuffixes' /\ AckedIsLogged'
  BY <1>1, <1>2, <1>5
     DEF IndInv, CopiesAreSuffixes, AckedIsLogged, Current, Active
<1>9. WaitersMatch'
  <2>1. \A i \in DOMAIN queue : queue[i].waiter # f
    BY <1>1 DEF IndInv, WaitersMatch
  <2>2. /\ DOMAIN queue' = 1..(Len(queue) + 1)
        /\ DOMAIN queue = 1..Len(queue) /\ Len(queue) \in Nat
        /\ \A i \in DOMAIN queue : queue'[i] = queue[i]
        /\ queue'[Len(queue) + 1] = item
    BY <1>4
  <2>3. \A i \in DOMAIN queue' : i \in DOMAIN queue \/ i = Len(queue) + 1
    BY <2>2
  <2>4. \A g \in Flushers : Current(g)' = Current(g)
    BY <1>5 DEF Current
  <2>5. Current(f)' = item.event
    BY <1>4, <2>4
  <2> SUFFICES ASSUME NEW i \in DOMAIN queue', NEW g \in Flushers,
                      queue'[i].waiter = g
               PROVE  /\ flusher'[g].pc = "waiting"
                      /\ queue'[i].event = Current(g)'
                      /\ \A j \in DOMAIN queue' : queue'[j].waiter = g => i = j
    BY DEF WaitersMatch
  <2>6. CASE g = f
    BY <1>4, <1>5, <2>1, <2>2, <2>3, <2>5, <2>6
  <2>7. CASE g # f
    BY <1>4, <1>5, <2>2, <2>3, <2>4, <2>7 DEF IndInv, WaitersMatch
  <2> QED BY <2>6, <2>7
<1> QED BY <1>6, <1>7, <1>8, <1>9 DEF IndInv

LEMMA GiveUpInv ==
  ASSUME IndInv, NEW f \in Flushers, GiveUp(f)
  PROVE  IndInv'
<1>1. /\ flusher \in [Flushers -> [pc : {"idle", "broken"} \cup Active,
                                 todo : SUBSET (1..appended)]]
      /\ flusher' = [flusher EXCEPT ![f] = [pc |-> "broken", todo |-> {}]]
      /\ f # Nobody
      /\ faults' \in 0..MaxFaults
      /\ UNCHANGED <<appended, published, log, auditOn, silenced>>
  BY PublisherAssumption
     DEF IndInv, TypeOK, Active, GiveUp, Abandoned, Broken, Fault
<1>2. /\ Len(queue) \in Nat
      /\ DOMAIN queue = 1..Len(queue) /\ DOMAIN queue' = 1..Len(queue)
      /\ \A i \in DOMAIN queue :
           /\ queue[i] \in [event : 1..appended, waiter : Flushers \cup {Nobody}]
           /\ queue'[i] = IF queue[i].waiter = f
                           THEN [queue[i] EXCEPT !.waiter = Nobody]
                           ELSE queue[i]
  <2> DEFINE S == [event : 1..appended, waiter : Flushers \cup {Nobody}]
  <2>1. queue \in Seq(S)
    BY DEF IndInv, TypeOK
  <2> HIDE DEF S
  <2>2. /\ Len(queue) \in Nat /\ DOMAIN queue = 1..Len(queue)
        /\ \A i \in DOMAIN queue : queue[i] \in S
    BY <2>1
  <2>3. queue' = [i \in DOMAIN queue |->
                   IF queue[i].waiter = f THEN [queue[i] EXCEPT !.waiter = Nobody]
                                          ELSE queue[i]]
    BY DEF GiveUp
  <2> QED BY <2>2, <2>3 DEF S
<1>3. queue' \in Seq([event : 1..appended, waiter : Flushers \cup {Nobody}])
  <2> DEFINE S == [event : 1..appended, waiter : Flushers \cup {Nobody}]
  <2>1. \A i \in 1..Len(queue) : queue'[i] \in S
    BY <1>2
  <2>2. queue' = [i \in 1..Len(queue) |-> queue'[i]]
    BY <1>2 DEF GiveUp
  <2> HIDE DEF S
  <2>3. queue' \in Seq(S)
    BY <1>2, <2>1, <2>2, IsASeq
  <2> QED BY <2>3 DEF S
<1>4. \A g \in Flushers :
        IF g = f THEN flusher'[g].pc = "broken" /\ flusher'[g].todo = {}
                 ELSE flusher'[g] = flusher[g]
  BY <1>1
<1>5. TypeOK'
  <2>1. flusher' \in [Flushers -> [pc : {"idle", "broken", "ready", "waiting",
                                       "acked"},
                                  todo : SUBSET (1..appended')]]
    BY <1>1 DEF Active
  <2> QED BY <1>1, <1>3, <2>1 DEF IndInv, TypeOK
<1>6. PublishedIsLogged' /\ PublishedInOrder'
  BY <1>1 DEF IndInv, PublishedIsLogged, PublishedInOrder
<1>7. CopiesAreSuffixes'
  BY <1>1, <1>4 DEF IndInv, CopiesAreSuffixes, Active
<1>8. AckedIsLogged'
  BY <1>1, <1>4 DEF IndInv, AckedIsLogged, Current
<1>9. WaitersMatch'
  <2>1. \A i \in DOMAIN queue' : \A g \in Flushers :
          queue'[i].waiter = g => /\ g # f
                                 /\ queue[i].waiter = g
                                 /\ queue'[i].event = queue[i].event
    BY <1>1, <1>2, PublisherAssumption
  <2>2. \A g \in Flushers : g # f => /\ flusher'[g].pc = flusher[g].pc
                                    /\ Current(g)' = Current(g)
    BY <1>4 DEF Current
  <2> QED BY <1>2, <2>1, <2>2 DEF IndInv, WaitersMatch
<1> QED BY <1>5, <1>6, <1>7, <1>8, <1>9 DEF IndInv

\* The head of the queue leaves it, and its waiter, if any, moves on to be
\* either "acked" (then the event is in the log) or "broken".
LEMMA WriterInv ==
  ASSUME IndInv, WriterCommit \/ WriterFail
  PROVE  IndInv'
<1> DEFINE item == Head(queue)
           S == [event : 1..appended, waiter : Flushers \cup {Nobody}]
<1>1. /\ flusher \in [Flushers -> [pc : {"idle", "broken"} \cup Active,
                                 todo : SUBSET (1..appended)]]
      /\ faults' \in 0..MaxFaults
      /\ UNCHANGED <<appended, published, auditOn, silenced>>
  BY PublisherAssumption
     DEF IndInv, TypeOK, Active, WriterCommit, WriterFail, Fault
<1>2. queue \in Seq(S) /\ queue # <<>> /\ queue' = Tail(queue)
  BY DEF IndInv, TypeOK, WriterCommit, WriterFail
<1>3. /\ item \in S
      /\ queue[1] = item /\ 1 \in DOMAIN queue
      /\ queue' \in Seq(S)
      /\ DOMAIN queue = 1..Len(queue) /\ Len(queue) \in Nat
      /\ \A i \in DOMAIN queue' : /\ i + 1 \in DOMAIN queue
                                 /\ queue'[i] = queue[i + 1]
                                 /\ i \in Nat /\ i # 0
  <2> HIDE DEF S
  <2> QED BY <1>2
<1>4. item.event \in 1..appended /\ log \in Seq(1..appended)
  BY <1>3 DEF IndInv, TypeOK
<1>5. \/ log' = Append(log, item.event)
      \/ log' = log /\ \A g \in Flushers :
                         flusher'[g].pc = "acked" => flusher[g].pc = "acked"
  <2>1. CASE WriterCommit
    BY <2>1 DEF WriterCommit
  <2>2. CASE WriterFail
    BY <2>2 DEF WriterFail, Abandoned, Broken
  <2> QED BY <2>1, <2>2
<1>6. /\ log' \in Seq(1..appended)
      /\ ToSet(log) \subseteq ToSet(log')
      /\ log' = Append(log, item.event) => item.event \in ToSet(log')
  <2>1. CASE log' = log
    <3>1. item.event \in 1..appended /\ log' # Append(log, item.event)
      BY <1>4, <2>1
    <3> QED BY <1>4, <2>1, <3>1
  <2>2. CASE log' = Append(log, item.event)
    <3> DEFINE e == item.event
    <3>1. e \in 1..appended /\ log \in Seq(1..appended) /\ log' = Append(log, e)
      BY <1>4, <2>2
    <3> HIDE DEF e
    <3>2. /\ log' \in Seq(1..appended)
          /\ Len(log) \in Nat /\ DOMAIN log = 1..Len(log)
          /\ DOMAIN log' = 1..(Len(log) + 1)
          /\ log'[Len(log) + 1] = e
          /\ \A i \in DOMAIN log : log'[i] = log[i] /\ i \in DOMAIN log'
          /\ Len(log) + 1 \in DOMAIN log'
      BY <3>1
    <3>3. ToSet(log) \subseteq ToSet(log') /\ e \in ToSet(log')
      BY <3>2 DEF ToSet
    <3> QED BY <3>2, <3>3 DEF e
  <2> QED BY <1>5, <2>1, <2>2
<1>7. \A g \in Flushers :
        /\ flusher[g] \in [pc : {"idle", "broken"} \cup Active,
                          todo : SUBSET (1..appended)]
        /\ flusher'[g] \in [pc : {"idle", "broken"} \cup Active,
                           todo : SUBSET (1..appended)]
        /\ \/ flusher'[g] = flusher[g] /\ g # item.waiter
           \/ /\ g = item.waiter
              /\ flusher'[g].pc = "acked" /\ flusher'[g].todo = flusher[g].todo
           \/ /\ g = item.waiter
              /\ flusher'[g].pc = "broken" /\ flusher'[g].todo = {}
  <2> TAKE g \in Flushers
  <2>1. flusher[g] \in [pc : {"idle", "broken"} \cup Active,
                        todo : SUBSET (1..appended)]
    BY <1>1
  <2>2. \/ flusher'[g] = flusher[g] /\ g # item.waiter
        \/ /\ g = item.waiter
           /\ \/ flusher'[g] = [flusher[g] EXCEPT !.pc = "acked"]
              \/ flusher'[g] = [pc |-> "broken", todo |-> {}]
    BY DEF WriterCommit, WriterFail, Abandoned, Broken
  <2>3. CASE flusher'[g] = flusher[g] /\ g # item.waiter
    BY <2>1, <2>3
  <2>4. CASE g = item.waiter /\ flusher'[g] = [flusher[g] EXCEPT !.pc = "acked"]
    BY <2>1, <2>4 DEF Active
  <2>5. CASE g = item.waiter /\ flusher'[g] = [pc |-> "broken", todo |-> {}]
    BY <2>1, <2>5
  <2> QED BY <2>2, <2>3, <2>4, <2>5
<1>8. TypeOK'
  <2>1. \A g \in Flushers :
          flusher'[g] \in [pc : {"idle", "broken", "ready", "waiting", "acked"},
                          todo : SUBSET (1..appended')]
    BY <1>1, <1>7 DEF Active
  <2>2. flusher' = [g \in Flushers |-> flusher'[g]]
    BY DEF WriterCommit, WriterFail
  <2>3. flusher' \in [Flushers -> [pc : {"idle", "broken", "ready", "waiting",
                                       "acked"},
                                  todo : SUBSET (1..appended')]]
    BY <2>1, <2>2
  <2> QED BY <1>1, <1>3, <1>6, <2>3 DEF IndInv, TypeOK
<1>9. PublishedIsLogged' /\ PublishedInOrder'
  BY <1>1, <1>6 DEF IndInv, PublishedIsLogged, PublishedInOrder
<1>10. \A g \in Flushers : g = item.waiter =>
         /\ flusher[g].pc = "waiting" /\ item.event = Current(g)
         /\ \A j \in DOMAIN queue : queue[j].waiter = g => j = 1
  BY <1>3 DEF IndInv, WaitersMatch
<1>11. CopiesAreSuffixes'
  <2> SUFFICES ASSUME NEW g \in Flushers
               PROVE  /\ flusher'[g].pc \in Active => flusher'[g].todo # {}
                      /\ \A k \in flusher'[g].todo :
                           1..k \subseteq flusher'[g].todo \cup published
    BY <1>1 DEF CopiesAreSuffixes
  <2> QED BY <1>7, <1>10 DEF IndInv, CopiesAreSuffixes, Active
<1>12. AckedIsLogged'
  <2> SUFFICES ASSUME NEW g \in Flushers, flusher'[g].pc = "acked"
               PROVE  Current(g)' \in ToSet(log')
    BY DEF AckedIsLogged
  <2>2. Current(g)' = Current(g)
    BY <1>7 DEF Current
  <2>3. CASE flusher[g].pc = "acked"
    BY <1>6, <2>2, <2>3 DEF IndInv, AckedIsLogged
  <2>4. CASE flusher[g].pc # "acked"
    <3>1. log' = Append(log, item.event) /\ g = item.waiter
      BY <1>5, <1>7, <2>4
    <3> QED BY <1>6, <1>10, <2>2, <3>1
  <2> QED BY <2>3, <2>4
<1>13. WaitersMatch'
  <2> SUFFICES ASSUME NEW i \in DOMAIN queue', NEW g \in Flushers,
                      queue'[i].waiter = g
               PROVE  /\ flusher'[g].pc = "waiting"
                      /\ queue'[i].event = Current(g)'
                      /\ \A j \in DOMAIN queue' : queue'[j].waiter = g => i = j
    BY DEF WaitersMatch
  <2>1. g # item.waiter
    BY <1>3, <1>10
  <2>2. flusher'[g] = flusher[g] /\ Current(g)' = Current(g)
    BY <1>7, <2>1 DEF Current
  <2>3. /\ i + 1 \in DOMAIN queue /\ queue[i + 1].waiter = g
        /\ queue'[i].event = queue[i + 1].event
    BY <1>3
  <2>4. /\ flusher[g].pc = "waiting" /\ queue[i + 1].event = Current(g)
        /\ \A j \in DOMAIN queue : queue[j].waiter = g => i + 1 = j
    BY <2>3 DEF IndInv, WaitersMatch
  <2>5. \A j \in DOMAIN queue' : queue'[j].waiter = g => i + 1 = j + 1
    BY <1>3, <2>4
  <2>6. \A j \in DOMAIN queue' : i + 1 = j + 1 => i = j
    BY <1>3
  <2> QED BY <2>2, <2>3, <2>4, <2>5, <2>6
<1> QED BY <1>8, <1>9, <1>11, <1>12, <1>13 DEF IndInv

LEMMA MarkPublishedInv ==
  ASSUME IndInv, NEW f \in Flushers, MarkPublished(f)
  PROVE  IndInv'
<1> DEFINE k == Current(f)
           left == flusher[f].todo \ {k}
           entry == IF left = {} THEN Idle ELSE [pc |-> "ready", todo |-> left]
<1>1. /\ flusher \in [Flushers -> [pc : {"idle", "broken"} \cup Active,
                                 todo : SUBSET (1..appended)]]
      /\ flusher[f].pc = "acked"
      /\ appended \in Nat
      /\ published' = published \cup {k}
      /\ flusher' = [flusher EXCEPT ![f] = entry]
      /\ UNCHANGED <<appended, queue, log, auditOn, silenced, faults>>
  BY PublisherAssumption DEF IndInv, TypeOK, Active, MarkPublished
<1>2. /\ flusher[f].todo # {} /\ flusher[f].todo \in SUBSET Nat
      /\ flusher[f].todo \subseteq 1..appended
  BY <1>1 DEF IndInv, CopiesAreSuffixes, Active
<1>3. /\ k \in flusher[f].todo /\ k \in 1..appended
      /\ \A j \in flusher[f].todo : k <= j
  BY <1>2, FirstIsLeast DEF Current
<1>4. 1..k \subseteq published'
  <2>1. 1..k \subseteq flusher[f].todo \cup published
    BY <1>3 DEF IndInv, CopiesAreSuffixes
  <2>2. \A j \in 1..k : j \in flusher[f].todo => j = k
    BY <1>2, <1>3
  <2> HIDE DEF k
  <2> QED BY <1>1, <2>1, <2>2
<1>5. k \in ToSet(log)
  BY <1>1 DEF IndInv, AckedIsLogged
<1> HIDE DEF k
<1>6. /\ entry \in [pc : {"idle", "broken"} \cup Active, todo : SUBSET (1..appended)]
      /\ entry.todo = left
      /\ entry.pc \in Active => entry.todo # {}
      /\ entry.pc \in {"idle", "ready"}
  BY <1>2 DEF Idle, Active
<1> HIDE DEF entry
<1>7. \A g \in Flushers : flusher'[g] = IF g = f THEN entry ELSE flusher[g]
  BY <1>1
<1>8. TypeOK'
  <2>1. flusher' \in [Flushers -> [pc : {"idle", "broken", "ready", "waiting",
                                       "acked"},
                                  todo : SUBSET (1..appended')]]
    BY <1>1, <1>6 DEF Active
  <2> QED BY <1>1, <1>3, <2>1 DEF IndInv, TypeOK
<1>9. PublishedIsLogged' /\ PublishedInOrder'
  BY <1>1, <1>4, <1>5 DEF IndInv, PublishedIsLogged, PublishedInOrder
<1>10. CopiesAreSuffixes'
  <2>1. \A g \in Flushers : \A j \in flusher[g].todo :
          1..j \subseteq flusher[g].todo \cup published
    BY DEF IndInv, CopiesAreSuffixes
  <2>2. \A j \in entry.todo : 1..j \subseteq entry.todo \cup published'
    BY <1>1, <1>6, <2>1
  <2> QED BY <1>1, <1>6, <1>7, <2>1, <2>2 DEF IndInv, CopiesAreSuffixes
<1>11. AckedIsLogged'
  BY <1>1, <1>6, <1>7 DEF IndInv, AckedIsLogged, Current
<1>12. WaitersMatch'
  BY <1>1, <1>7 DEF IndInv, WaitersMatch, Current
<1> QED BY <1>8, <1>9, <1>10, <1>11, <1>12 DEF IndInv

LEMMA CrashInv ==
  ASSUME IndInv, Crash
  PROVE  IndInv'
<1>1. /\ queue' = <<>>
      /\ \A g \in Flushers : flusher'[g].pc = "broken" /\ flusher'[g].todo = {}
      /\ flusher' \in [Flushers -> [pc : {"broken"}, todo : {{}}]]
      /\ auditOn' \in BOOLEAN /\ faults' \in 0..MaxFaults
      /\ UNCHANGED <<appended, published, log, silenced>>
  BY PublisherAssumption DEF IndInv, TypeOK, Crash, Broken, Fault
<1>2. TypeOK'
  BY <1>1 DEF IndInv, TypeOK
<1>3. PublishedIsLogged' /\ PublishedInOrder'
  BY <1>1 DEF IndInv, PublishedIsLogged, PublishedInOrder
<1>4. CopiesAreSuffixes' /\ AckedIsLogged' /\ WaitersMatch'
  BY <1>1 DEF CopiesAreSuffixes, AckedIsLogged, WaitersMatch, Active
<1> QED BY <1>2, <1>3, <1>4 DEF IndInv

LEMMA StutterInv ==
  ASSUME IndInv, UNCHANGED vars
  PROVE  IndInv'
BY DEF vars, IndInv, TypeOK, PublishedIsLogged, PublishedInOrder,
       CopiesAreSuffixes, AckedIsLogged, WaitersMatch, Current

LEMMA Invariance == Spec => []IndInv
<1>1. IndInv /\ [Next]_vars => IndInv'
  BY AppendEventInv, FlushSilentlyInv, FlushInv, SubmitInv, GiveUpInv,
     WriterInv, MarkPublishedInv, CrashInv, StutterInv DEF Next
<1> QED BY InitInv, <1>1, PTL DEF Spec

-----------------------------------------------------------------------------

\* Type correctness of the publisher, for any number of coroutines.
THEOREM PublisherTypeCorrect == Spec => []TypeOK
<1>1. IndInv => TypeOK
  BY DEF IndInv
<1> QED BY <1>1, Invariance, PTL

\* Whatever times out, fails, is cancelled or dies, and however many
\* coroutines flush the same outbox, an event that a process with auditing
\* marked published is durable in the audit log.
THEOREM PublishedLogged == Spec => []PublishedIsLogged
<1>1. IndInv => PublishedIsLogged
  BY DEF IndInv
<1> QED BY <1>1, Invariance, PTL

\* The published part of an outbox is always a prefix of it.
THEOREM PublishedPrefix == Spec => []PublishedInOrder
<1>1. IndInv => PublishedInOrder
  BY DEF IndInv
<1> QED BY <1>1, Invariance, PTL

-----------------------------------------------------------------------------
(* The trail: what a reader of the log sees. *)

\* Every place in the trail is filled.
Filled(s) ==
  \A n \in 1..Cardinality(Firsts(s)) : \E i \in Firsts(s) : Upto(s, i) = n

LEMMA FirstsFinite ==
  ASSUME NEW S, NEW s \in Seq(S)
  PROVE  /\ Firsts(s) \subseteq 1..Len(s) /\ IsFiniteSet(Firsts(s))
         /\ Cardinality(Firsts(s)) \in Nat
         /\ \A i \in Firsts(s) : Upto(s, i) \in Nat /\ Upto(s, i) <= Cardinality(Firsts(s))
<1>1. Firsts(s) \subseteq 1..Len(s)
  BY DEF Firsts
<1>2. IsFiniteSet(1..Len(s))
  BY FS_Interval
<1>3. IsFiniteSet(Firsts(s)) /\ Cardinality(Firsts(s)) \in Nat
  BY <1>1, <1>2, FS_Subset, FS_CardinalityType
<1>4. ASSUME NEW i \in Firsts(s)
      PROVE  Upto(s, i) \in Nat /\ Upto(s, i) <= Cardinality(Firsts(s))
  <2> DEFINE T == {j \in Firsts(s) : j <= i}
  <2>1. T \subseteq Firsts(s) /\ Upto(s, i) = Cardinality(T)
    BY DEF Upto
  <2> HIDE DEF T
  <2> QED BY <1>3, <2>1, FS_Subset, FS_CardinalityType
<1> QED BY <1>1, <1>3, <1>4

\* Append under a name of its own, which the provers leave folded.
Longer(s, e) == Append(s, e)

\* A repeated event changes nothing, a new one is added at the end.
LEMMA Recorded ==
  ASSUME NEW S, NEW s \in Seq(S), NEW e \in S, Filled(s),
         NEW t, t = Longer(s, e)
  PROVE  /\ Filled(t)
         /\ e \in ToSet(s) => DropRepeats(t) = DropRepeats(s)
         /\ e \notin ToSet(s) => /\ DropRepeats(t) = Longer(DropRepeats(s), e)
                                 /\ DropRepeats(s) \in Seq(S)
<1> DEFINE N == Len(s)
           F == Firsts(s)
           C == Cardinality(F)
           Place(u, n) == CHOOSE i \in Firsts(u) : Upto(u, i) = n
<1> USE DEF Longer
<1>1. /\ t \in Seq(S) /\ N \in Nat /\ DOMAIN s = 1..N /\ DOMAIN t = 1..(N + 1)
      /\ \A i \in 1..N : t[i] = s[i] /\ s[i] \in S
      /\ t[N + 1] = e /\ N + 1 \notin 1..N
  OBVIOUS
<1>2. /\ F \subseteq 1..N /\ IsFiniteSet(F) /\ C \in Nat
      /\ \A i \in F : Upto(s, i) \in Nat /\ Upto(s, i) <= C
  BY FirstsFinite
<1>3. \A i \in 1..N : i \in Firsts(t) <=> i \in F
  BY <1>1 DEF Firsts
<1>4. N + 1 \in Firsts(t) <=> e \notin ToSet(s)
  BY <1>1 DEF Firsts, ToSet
<1>5. Firsts(t) = IF e \in ToSet(s) THEN F ELSE F \cup {N + 1}
  <2>1. Firsts(t) \subseteq 1..(N + 1)
    BY <1>1 DEF Firsts
  <2>2. \A i \in 1..(N + 1) : i \in 1..N \/ i = N + 1
    BY <1>1
  <2> HIDE DEF F, N
  <2>3. CASE e \in ToSet(s)
    <3>1. \A i \in Firsts(t) : i \in F
      BY <1>3, <1>4, <2>1, <2>2, <2>3
    <3>2. \A i \in F : i \in Firsts(t)
      BY <1>2, <1>3
    <3> QED BY <2>3, <3>1, <3>2
  <2>4. CASE e \notin ToSet(s)
    BY <1>2, <1>3, <1>4, <2>1, <2>2, <2>4
  <2> QED BY <2>3, <2>4
<1>6. \A i \in F : Upto(t, i) = Upto(s, i)
  <2> TAKE i \in F
  <2>1. {j \in Firsts(t) : j <= i} = {j \in F : j <= i}
    BY <1>1, <1>2, <1>5
  <2> QED BY <2>1 DEF Upto
<1>7. \A n \in 1..C : Place(s, n) \in F /\ Upto(s, Place(s, n)) = n
  BY DEF Filled
<1> HIDE DEF N, F, C
<1>8. CASE e \in ToSet(s)
  <2>1. Firsts(t) = F
    BY <1>5, <1>8
  <2>2. \A n \in 1..C : \E i \in F : Upto(t, i) = n
    BY <1>6, <1>7
  <2>3. Filled(t)
    BY <2>1, <2>2 DEF Filled, C
  <2>4. ASSUME NEW n \in 1..C PROVE Place(t, n) = Place(s, n)
    <3>1. \A i : i \in Firsts(t) /\ Upto(t, i) = n <=> i \in Firsts(s) /\ Upto(s, i) = n
      BY <1>6, <2>1 DEF F
    <3> QED BY <3>1
  <2>5. \A n \in 1..C : t[Place(t, n)] = s[Place(s, n)]
    BY <1>1, <1>2, <1>7, <2>4
  <2>6. /\ DropRepeats(t) = [n \in 1..C |-> t[Place(t, n)]]
        /\ DropRepeats(s) = [n \in 1..C |-> s[Place(s, n)]]
    BY <2>1 DEF DropRepeats, C, F
  <2> HIDE DEF Place
  <2> QED BY <1>8, <2>3, <2>5, <2>6
<1>9. CASE e \notin ToSet(s)
  <2>1. Firsts(t) = F \cup {N + 1} /\ N + 1 \notin F
    BY <1>1, <1>2, <1>5, <1>9
  <2>2. Cardinality(Firsts(t)) = C + 1
    BY <1>2, <2>1, FS_AddElement DEF C
  <2>3. Upto(t, N + 1) = C + 1
    <3>0. \A j \in Firsts(t) : j <= N + 1
      <4>1. N \in Nat /\ N + 1 <= N + 1
        BY <1>1
      <4>2. \A j \in F : j <= N + 1
        BY <1>2, <4>1
      <4> QED BY <2>1, <4>1, <4>2
    <3>1. {j \in Firsts(t) : j <= N + 1} = Firsts(t)
      BY <3>0
    <3> QED BY <2>2, <3>1 DEF Upto
  <2>4. ASSUME NEW n \in 1..C PROVE Place(t, n) = Place(s, n)
    <3>1. \A i : i \in Firsts(t) /\ Upto(t, i) = n <=> i \in Firsts(s) /\ Upto(s, i) = n
      BY <1>2, <1>6, <2>1, <2>3 DEF F
    <3> QED BY <3>1
  <2>5. Place(t, C + 1) = N + 1
    <3>1. \A i \in F : Upto(t, i) # C + 1
      BY <1>2, <1>6
    <3> QED BY <2>1, <2>3, <3>1
  <2>6. Filled(t)
    <3>1. \A n \in 1..(C + 1) : n \in 1..C \/ n = C + 1
      BY <1>2
    <3>2. \A n \in 1..(C + 1) : \E i \in Firsts(t) : Upto(t, i) = n
      <4> TAKE n \in 1..(C + 1)
      <4>1. CASE n \in 1..C
        BY <1>6, <1>7, <2>1, <4>1
      <4>2. CASE n = C + 1
        BY <2>1, <2>3, <4>2
      <4> QED BY <3>1, <4>1, <4>2
    <3> QED BY <2>2, <3>2 DEF Filled
  <2>7. \A n \in 1..C : t[Place(t, n)] = s[Place(s, n)] /\ s[Place(s, n)] \in S
    BY <1>1, <1>2, <1>7, <2>4
  <2>8. t[Place(t, C + 1)] = e
    BY <1>1, <2>5
  <2>9. /\ DropRepeats(t) = [n \in 1..(C + 1) |-> t[Place(t, n)]]
        /\ DropRepeats(s) = [n \in 1..C |-> s[Place(s, n)]]
    BY <2>2 DEF DropRepeats, C, F
  <2> HIDE DEF Place
  <2> DEFINE d == DropRepeats(s)
  <2>10. d \in Seq(S) /\ Len(d) = C
    <3>1. d \in [1..C -> S]
      BY <2>7, <2>9
    <3> HIDE DEF d
    <3> QED BY <1>2, <3>1
  <2>11. Append(d, e) = [n \in 1..(C + 1) |-> IF n = C + 1 THEN e ELSE d[n]]
    <3> HIDE DEF d
    <3>1. /\ Append(d, e) \in [1..(C + 1) -> S] /\ Append(d, e)[C + 1] = e
          /\ \A n \in 1..C : Append(d, e)[n] = d[n]
      <4>1. /\ Append(d, e) \in Seq(S) /\ Len(Append(d, e)) = C + 1
            /\ Append(d, e)[C + 1] = e
        BY <2>10, AppendProperties
      <4>2. \A n \in 1..C : Append(d, e)[n] = d[n]
        BY <2>10, AppendProperties
      <4> QED BY <4>1, <4>2, LenProperties
    <3>2. \A n \in 1..(C + 1) : n \in 1..C \/ n = C + 1
      BY <1>2
    <3> DEFINE a == Append(d, e)
    <3> HIDE DEF a
    <3>3. \A n \in 1..(C + 1) : a[n] = IF n = C + 1 THEN e ELSE d[n]
      BY <1>2, <3>1, <3>2 DEF a
    <3>4. a = [n \in 1..(C + 1) |-> a[n]]
      BY <3>1 DEF a
    <3> QED BY <3>3, <3>4 DEF a
  <2>12. \A n \in 1..(C + 1) : t[Place(t, n)] = IF n = C + 1 THEN e ELSE d[n]
    <3>1. \A n \in 1..(C + 1) : n \in 1..C \/ n = C + 1
      BY <1>2
    <3>2. \A n \in 1..C : d[n] = s[Place(s, n)] /\ n # C + 1
      BY <1>2, <2>9
    <3> HIDE DEF d
    <3> QED BY <2>7, <2>8, <3>1, <3>2
  <2>13. DropRepeats(t) = Append(d, e)
    <3> HIDE DEF d
    <3> QED BY <2>9, <2>11, <2>12
  <2> QED BY <1>9, <2>6, <2>10, <2>13
<1> QED BY <1>8, <1>9

-----------------------------------------------------------------------------
(* The refinement of AuditTrail. *)

\* What is queued is the next event to be published, and one that no process
\* without auditing has waived; such a process has nothing in flight.
InTurn ==
  /\ \A i \in DOMAIN queue :
       1..(queue[i].event - 1) \subseteq published /\ queue[i].event \notin silenced
  /\ ~auditOn => queue = <<>> /\ \A f \in Flushers : flusher[f].pc \notin Active
  /\ \A f \in Flushers : flusher[f].pc \in Active => flusher[f].todo \cap silenced = {}
  /\ silenced \subseteq published

\* The reader sees every event of the log.
TrailKept == Filled(log) /\ ToSet(Trail) = ToSet(log)

TrailInv == IndInv /\ InTurn /\ TrailKept

TrailStep == [AuditTrail!Next]_<<appended, Trail, silenced>>

LEMMA AppendedElements ==
  ASSUME NEW S, NEW s \in Seq(S), NEW e \in S
  PROVE  ToSet(Append(s, e)) = ToSet(s) \cup {e}
<1>1. /\ Len(s) \in Nat /\ DOMAIN s = 1..Len(s)
      /\ DOMAIN Append(s, e) = 1..(Len(s) + 1)
      /\ \A i \in 1..Len(s) : Append(s, e)[i] = s[i]
      /\ Append(s, e)[Len(s) + 1] = e
      /\ \A i \in 1..(Len(s) + 1) : i \in 1..Len(s) \/ i = Len(s) + 1
      /\ \A i \in 1..Len(s) : i \in 1..(Len(s) + 1)
  OBVIOUS
<1> QED BY <1>1 DEF ToSet

LEMMA NothingRecorded == DropRepeats(<<>>) = <<>> /\ Filled(<<>>)
<1> DEFINE p(n) == <<>>[CHOOSE i \in Firsts(<<>>) : Upto(<<>>, i) = n]
<1>1. Firsts(<<>>) = {}
  BY DEF Firsts
<1>2. Cardinality(Firsts(<<>>)) = 0 /\ 1..0 = {}
  BY <1>1, FS_EmptySet
<1>3. DropRepeats(<<>>) = [n \in 1..0 |-> p(n)]
  BY <1>2 DEF DropRepeats
<1> HIDE DEF p
<1> DEFINE q == DropRepeats(<<>>)
<1>4. q \in [1..0 -> Nat]
  BY <1>2, <1>3
<1> HIDE DEF q
<1>5. q \in Seq(Nat) /\ Len(q) = 0
  <2>1. 0 \in Nat
    OBVIOUS
  <2> QED BY <1>4, <2>1
<1>6. DropRepeats(<<>>) = <<>>
  BY <1>5, EmptySeq DEF q
<1>7. Filled(<<>>)
  BY <1>1, <1>2, FS_EmptySet DEF Filled
<1> QED BY <1>6, <1>7

LEMMA TrailInit == Init => AuditTrail!Init /\ TrailInv
<1> SUFFICES ASSUME Init PROVE AuditTrail!Init /\ TrailInv
  OBVIOUS
<1>1. /\ appended = 0 /\ log = <<>> /\ queue = <<>> /\ silenced = {} /\ published = {}
      /\ flusher = [f \in Flushers |-> Idle]
  BY DEF Init
<1>2. InTurn
  BY <1>1 DEF InTurn, Idle, Active
<1>3. Trail = <<>> /\ Filled(log)
  BY <1>1, NothingRecorded DEF Trail
<1>4. TrailKept
  BY <1>1, <1>3 DEF TrailKept
<1>5. AuditTrail!Init
  BY <1>1, <1>3 DEF AuditTrail!Init
<1> QED BY <1>2, <1>4, <1>5, InitInv DEF TrailInv

\* A step that leaves log and waivers alone leaves the trail alone.
LEMMA TrailStays ==
  ASSUME TrailInv, UNCHANGED log
  PROVE  TrailKept' /\ Trail' = Trail
BY DEF TrailInv, TrailKept, Trail

LEMMA AppendEventTrail ==
  ASSUME TrailInv, AppendEvent
  PROVE  InTurn' /\ TrailKept' /\ TrailStep
<1>1. /\ appended' = appended + 1
      /\ UNCHANGED <<published, queue, log, flusher, auditOn, silenced>>
  BY DEF AppendEvent
<1>2. InTurn'
  BY <1>1 DEF TrailInv, InTurn
<1>3. TrailKept' /\ Trail' = Trail
  BY <1>1, TrailStays
<1>4. AuditTrail!Happen
  BY <1>1, <1>3 DEF AuditTrail!Happen
<1> QED BY <1>2, <1>3, <1>4 DEF TrailStep, AuditTrail!Next

\* What a process without auditing marks is waived.
LEMMA FlushSilentlyTrail ==
  ASSUME TrailInv, FlushSilently
  PROVE  InTurn' /\ TrailKept' /\ TrailStep
<1> PICK k \in 1..appended : /\ published' = published \cup 1..k
                            /\ silenced' = silenced \cup ((1..k) \ (published \cup ToSet(log)))
  BY DEF FlushSilently
<1>1. ~auditOn /\ UNCHANGED <<appended, queue, log, flusher, auditOn>>
  BY DEF FlushSilently
<1>2. queue = <<>> /\ \A f \in Flushers : flusher[f].pc \notin Active
  BY <1>1 DEF TrailInv, InTurn
<1>3. DOMAIN queue = {}
  BY <1>2
<1>4. InTurn'
  BY <1>1, <1>2, <1>3 DEF TrailInv, InTurn
<1>5. TrailKept' /\ Trail' = Trail
  BY <1>1, TrailStays
<1>6. ToSet(Trail) = ToSet(log) /\ published \subseteq ToSet(log) \cup silenced
  BY DEF TrailInv, TrailKept, IndInv, PublishedIsLogged
<1>7. AuditTrail!Settled = ToSet(Trail) \cup silenced
  BY DEF AuditTrail!Settled, ToSet
<1>8. silenced' = silenced \cup ((1..k) \ (ToSet(Trail) \cup silenced))
  BY <1>1, <1>6
<1>9. AuditTrail!Waive
  BY <1>1, <1>5, <1>7, <1>8 DEF AuditTrail!Waive
<1> QED BY <1>4, <1>5, <1>9 DEF TrailStep, AuditTrail!Next

LEMMA FlushTrail ==
  ASSUME TrailInv, NEW f \in Flushers, Flush(f)
  PROVE  InTurn' /\ TrailKept' /\ TrailStep
<1> DEFINE pending == (1..appended) \ published
<1>1. /\ auditOn
      /\ flusher' = [flusher EXCEPT ![f] = [pc |-> "ready", todo |-> pending]]
      /\ UNCHANGED <<appended, published, queue, log, auditOn, silenced>>
  BY DEF Flush
<1>2. \A g \in Flushers : flusher'[g] = flusher[g] \/ flusher'[g].todo = pending
  BY <1>1 DEF TrailInv, IndInv, TypeOK
<1>3. pending \cap silenced = {}
  BY DEF TrailInv, InTurn
<1> HIDE DEF pending
<1>4. InTurn'
  BY <1>1, <1>2, <1>3 DEF TrailInv, InTurn
<1>5. TrailKept' /\ Trail' = Trail
  BY <1>1, TrailStays
<1> QED BY <1>1, <1>4, <1>5 DEF TrailStep

LEMMA SubmitTrail ==
  ASSUME TrailInv, NEW f \in Flushers, Submit(f)
  PROVE  InTurn' /\ TrailKept' /\ TrailStep
<1> DEFINE item == [event |-> Current(f), waiter |-> f]
           S == [event : 1..appended, waiter : Flushers \cup {Nobody}]
<1>1. /\ flusher[f].pc = "ready" /\ queue' = Append(queue, item)
      /\ flusher' = [flusher EXCEPT ![f].pc = "waiting"]
      /\ UNCHANGED <<appended, published, log, auditOn, silenced>>
  BY DEF Submit
<1>2. /\ flusher[f].todo # {} /\ flusher[f].todo \subseteq 1..appended
      /\ flusher[f].todo \cap silenced = {} /\ auditOn
      /\ \A k \in flusher[f].todo : 1..k \subseteq flusher[f].todo \cup published
  BY <1>1 DEF TrailInv, InTurn, IndInv, TypeOK, CopiesAreSuffixes, Active
<1>3. /\ Current(f) \in flusher[f].todo /\ Current(f) \in 1..appended
      /\ \A j \in flusher[f].todo : Current(f) <= j
  <2>1. flusher[f].todo \in SUBSET Nat
    BY <1>2
  <2> QED BY <1>2, <2>1, FirstIsLeast DEF Current
<1>4. 1..(Current(f) - 1) \subseteq published
  <2> DEFINE k == Current(f)
  <2>1. k \in Nat /\ \A j \in 1..(k - 1) : j \in 1..k /\ ~(k <= j)
    BY <1>3
  <2> HIDE DEF k
  <2>2. \A j \in 1..(k - 1) : j \in published
    BY <1>2, <1>3, <2>1 DEF k
  <2> QED BY <2>2 DEF k
<1>5. queue \in Seq(S) /\ item \in S
  BY <1>3 DEF TrailInv, IndInv, TypeOK
<1>6. item.event = Current(f)
  OBVIOUS
<1> HIDE DEF item, S
<1>7. \A i \in DOMAIN queue' :
        queue'[i] = item \/ (i \in DOMAIN queue /\ queue'[i] = queue[i])
  BY <1>1, <1>5
<1>8. \A g \in Flushers :
        /\ flusher'[g].todo = flusher[g].todo
        /\ flusher'[g].pc \in Active => flusher[g].pc \in Active
  BY <1>1 DEF TrailInv, IndInv, TypeOK, Active
<1>9. InTurn'
  BY <1>1, <1>2, <1>3, <1>4, <1>6, <1>7, <1>8 DEF TrailInv, InTurn
<1>10. TrailKept' /\ Trail' = Trail
  BY <1>1, TrailStays
<1> QED BY <1>1, <1>9, <1>10 DEF TrailStep

LEMMA GiveUpTrail ==
  ASSUME TrailInv, NEW f \in Flushers, GiveUp(f)
  PROVE  InTurn' /\ TrailKept' /\ TrailStep
<1>1. /\ flusher' = [flusher EXCEPT ![f] = Broken] /\ flusher[f].pc \in Active
      /\ UNCHANGED <<appended, published, log, auditOn, silenced>>
  BY DEF GiveUp, Abandoned, Active
<1>2. /\ DOMAIN queue' = DOMAIN queue
      /\ \A i \in DOMAIN queue : queue'[i].event = queue[i].event
  <2> DEFINE S == [event : 1..appended, waiter : Flushers \cup {Nobody}]
  <2>1. queue \in Seq(S)
    BY DEF TrailInv, IndInv, TypeOK
  <2>2. \A i \in DOMAIN queue : queue[i] \in S
    <3> HIDE DEF S
    <3> QED BY <2>1
  <2> QED BY <2>2 DEF GiveUp
<1>3. \A g \in Flushers : flusher'[g] = flusher[g] \/ flusher'[g].pc \notin Active
  BY <1>1 DEF TrailInv, IndInv, TypeOK, Active, Broken
<1>4. auditOn
  BY <1>1 DEF TrailInv, InTurn
<1>5. InTurn'
  BY <1>1, <1>2, <1>3, <1>4 DEF TrailInv, InTurn
<1>6. TrailKept' /\ Trail' = Trail
  BY <1>1, TrailStays
<1> QED BY <1>1, <1>5, <1>6 DEF TrailStep

LEMMA WriterTrail ==
  ASSUME TrailInv, WriterCommit \/ WriterFail
  PROVE  InTurn' /\ TrailKept' /\ TrailStep
<1> DEFINE S == [event : 1..appended, waiter : Flushers \cup {Nobody}]
           e == Head(queue).event
<1>1. /\ queue # <<>> /\ queue' = Tail(queue)
      /\ log' \in {log, Append(log, e)}
      /\ UNCHANGED <<appended, published, auditOn, silenced>>
  BY DEF WriterCommit, WriterFail
<1>2. queue \in Seq(S) /\ log \in Seq(1..appended)
  BY DEF TrailInv, IndInv, TypeOK
<1>3. /\ Head(queue) = queue[1] /\ 1 \in DOMAIN queue /\ Head(queue) \in S
      /\ \A i \in DOMAIN queue' : i + 1 \in DOMAIN queue /\ queue'[i] = queue[i + 1]
  <2> HIDE DEF S
  <2> QED BY <1>1, <1>2
<1>4. e \in 1..appended /\ 1..(e - 1) \subseteq published /\ e \notin silenced
  BY <1>3 DEF TrailInv, InTurn
<1> HIDE DEF S, e
<1>5. auditOn
  BY <1>1 DEF TrailInv, InTurn
<1>6. \A g \in Flushers :
        /\ flusher'[g].pc \in Active => flusher'[g].todo = flusher[g].todo
        /\ flusher'[g].pc \in Active => flusher[g].pc \in Active
  <2> TAKE g \in Flushers
  <2>0. flusher[g] \in [pc : {"idle", "broken", "ready", "waiting", "acked"},
                        todo : SUBSET (1..appended)]
    BY DEF TrailInv, IndInv, TypeOK
  <2>1. \/ flusher'[g] = flusher[g]
        \/ g = Head(queue).waiter /\ flusher'[g] = [flusher[g] EXCEPT !.pc = "acked"]
        \/ flusher'[g] = Broken
    BY DEF WriterCommit, WriterFail, Abandoned
  <2>2. g = Head(queue).waiter => flusher[g].pc = "waiting"
    BY <1>3 DEF TrailInv, IndInv, WaitersMatch
  <2> QED BY <2>0, <2>1, <2>2 DEF Broken, Active
<1>7. InTurn'
  BY <1>1, <1>3, <1>5, <1>6 DEF TrailInv, InTurn
<1>8. CASE log' = log
  BY <1>1, <1>7, <1>8, TrailStays DEF TrailStep
<1>9. CASE log' = Append(log, e)
  <2>1. /\ Filled(log)
        /\ ToSet(Trail) = ToSet(log) /\ published \subseteq ToSet(log) \cup silenced
    BY DEF TrailInv, TrailKept, IndInv, PublishedIsLogged
  <2> DEFINE T == 1..appended
  <2>0. log \in Seq(T) /\ e \in T /\ Filled(log) /\ log' = Append(log, e)
    BY <1>2, <1>4, <1>9, <2>1
  <2> HIDE DEF T
  <2>2. /\ Filled(log')
        /\ e \in ToSet(log) => Trail' = Trail
        /\ e \notin ToSet(log) => Trail' = Append(Trail, e) /\ Trail \in Seq(T)
    <3>1. log' = Longer(log, e)
      BY <2>0 DEF Longer
    <3>2. /\ Filled(log')
          /\ e \in ToSet(log) => DropRepeats(log') = DropRepeats(log)
          /\ e \notin ToSet(log) => /\ DropRepeats(log') = Longer(DropRepeats(log), e)
                                    /\ DropRepeats(log) \in Seq(T)
      BY <2>0, <3>1, Recorded
    <3>3. Trail = DropRepeats(log) /\ Trail' = DropRepeats(log')
      BY DEF Trail
    <3> HIDE DEF Trail
    <3> QED BY <3>2, <3>3 DEF Longer
  <2>3. ToSet(log') = ToSet(log) \cup {e}
    BY <2>0, AppendedElements
  <2>4. CASE e \in ToSet(log)
    <3>1. TrailKept'
      BY <2>1, <2>2, <2>3, <2>4 DEF TrailKept
    <3> QED BY <1>1, <1>7, <2>2, <2>4, <3>1 DEF TrailStep
  <2>5. CASE e \notin ToSet(log)
    <3>1. ToSet(Trail') = ToSet(Trail) \cup {e}
      <4>1. e \in T /\ Trail \in Seq(T) /\ Trail' = Append(Trail, e)
        BY <2>0, <2>2, <2>5
      <4>2. PICK seen \in Seq(T) : seen = Trail
        BY <4>1
      <4>3. ToSet(Append(seen, e)) = ToSet(seen) \cup {e}
        BY <4>1, AppendedElements
      <4> QED BY <4>1, <4>2, <4>3
    <3>2. TrailKept'
      BY <2>1, <2>2, <2>3, <3>1 DEF TrailKept
    <3>3. AuditTrail!Settled = ToSet(Trail) \cup silenced
      BY DEF AuditTrail!Settled, ToSet
    <3>4. AuditTrail!Record
      BY <1>1, <1>4, <2>1, <2>2, <2>5, <3>3 DEF AuditTrail!Record
    <3> QED BY <1>7, <3>2, <3>4 DEF TrailStep, AuditTrail!Next
  <2> QED BY <2>4, <2>5
<1> QED BY <1>1, <1>8, <1>9

LEMMA MarkPublishedTrail ==
  ASSUME TrailInv, NEW f \in Flushers, MarkPublished(f)
  PROVE  InTurn' /\ TrailKept' /\ TrailStep
<1> DEFINE left == flusher[f].todo \ {Current(f)}
<1>1. /\ flusher[f].pc = "acked" /\ published \subseteq published'
      /\ flusher' = [flusher EXCEPT ![f] =
                       IF left = {} THEN Idle ELSE [pc |-> "ready", todo |-> left]]
      /\ UNCHANGED <<appended, queue, log, auditOn, silenced>>
  BY DEF MarkPublished
<1>2. left \subseteq flusher[f].todo
  OBVIOUS
<1> HIDE DEF left
<1>3. \A g \in Flushers :
        flusher'[g].pc \in Active =>
          flusher[g].pc \in Active /\ flusher'[g].todo \subseteq flusher[g].todo
  BY <1>1, <1>2 DEF TrailInv, IndInv, TypeOK, Active, Idle
<1>4. InTurn'
  BY <1>1, <1>3 DEF TrailInv, InTurn
<1>5. TrailKept' /\ Trail' = Trail
  BY <1>1, TrailStays
<1> QED BY <1>1, <1>4, <1>5 DEF TrailStep

LEMMA CrashTrail ==
  ASSUME TrailInv, Crash
  PROVE  InTurn' /\ TrailKept' /\ TrailStep
<1>1. /\ queue' = <<>> /\ flusher' = [f \in Flushers |-> Broken]
      /\ UNCHANGED <<appended, published, log, silenced>>
  BY DEF Crash
<1>2. DOMAIN <<>> = {}
  OBVIOUS
<1>3. InTurn'
  BY <1>1, <1>2 DEF TrailInv, InTurn, Broken, Active
<1>4. TrailKept' /\ Trail' = Trail
  BY <1>1, TrailStays
<1> QED BY <1>1, <1>3, <1>4 DEF TrailStep

LEMMA TrailInvStep == TrailInv /\ [Next]_vars /\ IndInv' => TrailInv' /\ TrailStep
<1> SUFFICES ASSUME TrailInv, [Next]_vars, IndInv' PROVE TrailInv' /\ TrailStep
  OBVIOUS
<1>1. CASE Next
  BY <1>1, AppendEventTrail, FlushSilentlyTrail, FlushTrail, SubmitTrail, GiveUpTrail,
     WriterTrail, MarkPublishedTrail, CrashTrail DEF Next, TrailInv
<1>2. CASE UNCHANGED vars
  <2>1. UNCHANGED <<appended, published, queue, log, flusher, auditOn, silenced>>
    BY <1>2 DEF vars
  <2>2. InTurn' /\ TrailKept' /\ Trail' = Trail
    BY <2>1, TrailStays DEF TrailInv, InTurn
  <2> QED BY <2>1, <2>2 DEF TrailInv, TrailStep
<1> QED BY <1>1, <1>2

\* The reader of the audit log sees what AuditTrail promises: every lifecycle
\* event once and in order, though flushes overlap, acknowledgements come late
\* or never, events are written twice and the process restarts without
\* auditing.
THEOREM TrailExact == Spec => TrailIsExact
<1>1. Spec => []TrailInv
  BY TrailInit, TrailInvStep, Invariance, PTL DEF Spec
<1>2. TrailInv /\ [Next]_vars /\ IndInv' => [AuditTrail!Next]_AuditTrail!vars
  BY TrailInvStep DEF TrailStep, AuditTrail!vars
<1> QED BY <1>1, <1>2, TrailInit, Invariance, PTL
        DEF Spec, TrailIsExact, AuditTrail!Spec
=============================================================================

------------------------ MODULE ResultDeliveryProofs ------------------------
(***************************************************************************)
(* The delivery of messages and results, for any number of them and any    *)
(* limits: nothing is lost in silence, nothing enters the conversation     *)
(* twice, what is recorded as delivered was heard, and old rounds precede  *)
(* the next turn.  One invariant carries all of it: where every message    *)
(* and every round is (Apart, Known, Placed, RoundsCounted), and how the   *)
(* place of the turn limits what its other parts can be (TurnShape).       *)
(* Sequences are reasoned about as the sets of their elements.             *)
(***************************************************************************)
EXTENDS ResultDelivery, TLAPS

-----------------------------------------------------------------------------
(* Sequences, seen as the sets of their elements. *)

\* What a sequence without elements, with one, or with one more contains.
LEMMA EmptyFacts ==
  /\ ToSet(<<>>) = {}
  /\ IsInjective(<<>>)
BY DEF ToSet, IsInjective

LEMMA SingleFacts ==
  ASSUME NEW x
  PROVE  /\ ToSet(<<x>>) = {x}
         /\ IsInjective(<<x>>)
BY DEF ToSet, IsInjective

LEMMA ElementFacts ==
  ASSUME NEW S, NEW s \in Seq(S)
  PROVE  /\ ToSet(s) \subseteq S
         /\ ToSet(s) = {} <=> s = <<>>
         /\ \A e : Contains(s, e) <=> e \in ToSet(s)
<1>1. ToSet(s) \subseteq S
  BY DEF ToSet
<1>2. ASSUME s # <<>> PROVE s[1] \in ToSet(s)
  BY <1>2 DEF ToSet
<1>3. ASSUME s = <<>> PROVE ToSet(s) = {}
  BY <1>3 DEF ToSet
<1>4. \A e : Contains(s, e) <=> e \in ToSet(s)
  BY DEF ToSet, Contains
<1> QED
  BY <1>1, <1>2, <1>3, <1>4

LEMMA ConcatFacts ==
  ASSUME NEW S, NEW s \in Seq(S), NEW t \in Seq(S)
  PROVE  /\ s \o t \in Seq(S)
         /\ ToSet(s \o t) = ToSet(s) \cup ToSet(t)
         /\ IsInjective(s \o t) <=>
              IsInjective(s) /\ IsInjective(t) /\ ToSet(s) \cap ToSet(t) = {}
<1> DEFINE u == s \o t
<1>1. /\ u \in Seq(S) /\ Len(u) = Len(s) + Len(t)
      /\ DOMAIN u = 1..Len(u) /\ DOMAIN s = 1..Len(s) /\ DOMAIN t = 1..Len(t)
      /\ \A i \in 1..Len(s) : u[i] = s[i]
      /\ \A i \in 1..Len(t) : u[Len(s) + i] = t[i]
  OBVIOUS
<1>2. \A i \in 1..Len(u) : i \in 1..Len(s) \/ \E j \in 1..Len(t) : i = Len(s) + j
  <2> TAKE i \in 1..Len(u)
  <2>1. CASE i > Len(s)
    <3>1. i - Len(s) \in 1..Len(t) /\ i = Len(s) + (i - Len(s))
      BY <1>1, <2>1
    <3> QED
      BY <3>1
  <2> QED
    BY <2>1
<1>3. \A i \in 1..Len(s) : i \in 1..Len(u)
  BY <1>1
<1>4. \A i \in 1..Len(t) : Len(s) + i \in 1..Len(u)
  BY <1>1
<1> HIDE DEF u
<1>5. ToSet(u) = ToSet(s) \cup ToSet(t)
  <2>1. \A i \in 1..Len(u) : u[i] \in ToSet(s) \cup ToSet(t)
    BY <1>1, <1>2 DEF ToSet
  <2>2. \A i \in 1..Len(s) : s[i] \in ToSet(u)
    BY <1>1, <1>3 DEF ToSet
  <2>3. \A i \in 1..Len(t) : t[i] \in ToSet(u)
    BY <1>1, <1>4 DEF ToSet
  <2> QED
    BY <1>1, <2>1, <2>2, <2>3 DEF ToSet
<1>6. ASSUME IsInjective(u)
      PROVE  IsInjective(s) /\ IsInjective(t) /\ ToSet(s) \cap ToSet(t) = {}
  <2>1. \A i, j \in 1..Len(u) : u[i] = u[j] => i = j
    BY <1>1, <1>6 DEF IsInjective
  <2>2. IsInjective(s)
    BY <1>1, <1>3, <2>1 DEF IsInjective
  <2>3. ASSUME NEW i \in 1..Len(t), NEW j \in 1..Len(t), t[i] = t[j] PROVE i = j
    <3>1. Len(s) + i = Len(s) + j
      BY <1>1, <1>4, <2>1, <2>3
    <3> QED
      BY <3>1
  <2>4. IsInjective(t)
    BY <2>3 DEF IsInjective
  <2>5. ASSUME NEW i \in 1..Len(s), NEW j \in 1..Len(t) PROVE s[i] # t[j]
    BY <1>1, <1>3, <1>4, <2>1
  <2>6. ToSet(s) \cap ToSet(t) = {}
    BY <2>5 DEF ToSet
  <2> QED
    BY <2>2, <2>4, <2>6
<1>7. ASSUME IsInjective(s), IsInjective(t), ToSet(s) \cap ToSet(t) = {}
      PROVE  IsInjective(u)
  <2>1. \A i \in 1..Len(s), j \in 1..Len(t) : s[i] # t[j]
    BY <1>7 DEF ToSet
  <2>2. ASSUME NEW i \in 1..Len(u), NEW j \in 1..Len(u), u[i] = u[j] PROVE i = j
    <3>1. \A k, l \in 1..Len(s) : s[k] = s[l] => k = l
      BY <1>1, <1>7 DEF IsInjective
    <3>2. \A k, l \in 1..Len(t) : t[k] = t[l] => k = l
      BY <1>1, <1>7 DEF IsInjective
    <3>3. CASE i \in 1..Len(s)
      <4>1. u[i] = s[i]
        BY <1>1, <3>3
      <4>2. j \in 1..Len(s)
        <5>1. \A k \in 1..Len(t) : j = Len(s) + k => u[j] = t[k]
          BY <1>1
        <5> QED
          BY <1>2, <2>1, <2>2, <3>3, <4>1, <5>1
      <4> QED
        BY <1>1, <2>2, <3>1, <3>3, <4>1, <4>2
    <3>4. CASE i \notin 1..Len(s) /\ j \in 1..Len(s)
      <4>1. PICK k \in 1..Len(t) : i = Len(s) + k
        BY <1>2, <3>4
      <4>2. u[i] = t[k] /\ u[j] = s[j]
        BY <1>1, <3>4, <4>1
      <4> QED
        BY <2>1, <2>2, <3>4, <4>2
    <3>5. CASE i \notin 1..Len(s) /\ j \notin 1..Len(s)
      <4>1. PICK k \in 1..Len(t) : i = Len(s) + k
        BY <1>2, <3>5
      <4>2. PICK l \in 1..Len(t) : j = Len(s) + l
        BY <1>2, <3>5
      <4>3. t[k] = t[l]
        BY <1>1, <2>2, <4>1, <4>2
      <4> QED
        BY <3>2, <4>1, <4>2, <4>3
    <3> QED
      BY <3>3, <3>4, <3>5
  <2> QED
    BY <1>1, <2>2 DEF IsInjective
<1> QED
  BY <1>1, <1>5, <1>6, <1>7 DEF u

LEMMA AppendFacts ==
  ASSUME NEW S, NEW s \in Seq(S), NEW x \in S
  PROVE  /\ Append(s, x) \in Seq(S)
         /\ Len(Append(s, x)) = Len(s) + 1
         /\ ToSet(Append(s, x)) = ToSet(s) \cup {x}
         /\ IsInjective(Append(s, x)) <=> IsInjective(s) /\ x \notin ToSet(s)
<1> DEFINE t == <<x>>
<1>1. Append(s, x) = s \o t /\ t \in Seq(S)
  OBVIOUS
<1>2. IsInjective(t) /\ ToSet(t) = {x}
  BY SingleFacts
<1>3. Append(s, x) \in Seq(S) /\ Len(Append(s, x)) = Len(s) + 1
  OBVIOUS
<1> HIDE DEF t
<1> QED
  BY <1>1, <1>2, <1>3, ConcatFacts

\* The first element leaves the others.
LEMMA TailFacts ==
  ASSUME NEW S, NEW s \in Seq(S), s # <<>>
  PROVE  /\ Head(s) \in S /\ Tail(s) \in Seq(S)
         /\ Len(Tail(s)) = Len(s) - 1
         /\ ToSet(s) = ToSet(Tail(s)) \cup {Head(s)}
         /\ IsInjective(s) => IsInjective(Tail(s)) /\ Head(s) \notin ToSet(Tail(s))
<1> DEFINE first == <<Head(s)>>
           rest == Tail(s)
<1>1. /\ s = first \o rest
      /\ Head(s) \in S /\ rest \in Seq(S) /\ first \in Seq(S)
      /\ Len(rest) = Len(s) - 1
  OBVIOUS
<1>2. IsInjective(first) /\ ToSet(first) = {Head(s)}
  BY SingleFacts
<1> HIDE DEF first, rest
<1>3. /\ ToSet(s) = ToSet(first) \cup ToSet(rest)
      /\ IsInjective(s) =>
           IsInjective(rest) /\ ToSet(first) \cap ToSet(rest) = {}
  BY <1>1, ConcatFacts
<1> QED
  BY <1>1, <1>2, <1>3 DEF rest

-----------------------------------------------------------------------------
(* The inductive invariant. *)

Waiting == ToSet(bus) \cup ToSet(line) \cup ToSet(pending)
Told == ToSet(history)
Memory == ToSet(turn.memory)
Batch == ToSet(turn.batch)
Saved == ToSet(checkpoint)

Injecting == {"tools", "answer", "limit"}
AtHead == turn.place \in {"starting", "restored"}
AtEnd == turn.place \in {"ending", "leaving"}
\* A message is being taken into the turn: the one that opened it, or one of a drain.
Taking == turn.place \in {"claiming", "noting", "confirming"}
Built == Taking /\ turn.purpose = "build"
Drawn == Taking /\ turn.purpose \in Injecting
Collecting == Drawn \/ turn.place \in {"draining", "blocked"}

\* What the place of a turn says of its other parts.
TurnShape ==
  /\ turn.place = "none" <=> lock = NoOne
  /\ Taking <=> turn.item # NoOne
  /\ Taking => Built \/ Drawn
  /\ Built => turn.item = lock /\ lock \in Result
  /\ turn.place \in {"claiming", "confirming"} => turn.item \in Result
  /\ turn.place = "calling" => turn.purpose = "tools"
  /\ turn.place \in {"draining", "blocked", "drained"} => turn.purpose \in Injecting
  /\ turn.batch # <<>> => Collecting
  /\ turn.memory # <<>> =>
       Collecting \/ turn.place \in {"running", "calling", "drained", "saving"}
  /\ Collecting => turn.cycles < MaxCycles
  /\ Collecting \/ turn.place = "drained" =>
       (turn.purpose = "answer" => turn.rounds < MaxRounds)
  /\ Drawn /\ turn.place = "claiming" => Len(turn.batch) < DrainLimit
  /\ turn.place \in {"none", "leaving"} => routed = NoOne
  /\ routed = NoOne => pending = <<>>

\* A message is in one place only, and in the conversation once.
Apart ==
  /\ IsInjective(bus) /\ IsInjective(line) /\ IsInjective(pending)
  /\ IsInjective(history) /\ IsInjective(turn.memory) /\ IsInjective(turn.batch)
  /\ ToSet(bus) \cap ToSet(line) = {}
  /\ ToSet(bus) \cap ToSet(pending) = {}
  /\ ToSet(line) \cap ToSet(pending) = {}
  /\ Waiting \cap (Told \cup Memory \cup Batch \cup {lock, turn.item}) = {}
  /\ Told \cap Memory = {} /\ Told \cap Batch = {} /\ Memory \cap Batch = {}
  /\ Told \cap Saved = {}

\* Only what was sent is anywhere.
Known ==
  /\ Waiting \cup Batch \cup ({lock, turn.item} \ {NoOne}) \subseteq sent
  /\ (Told \cup Memory) \cap Message \subseteq sent

\* When the message that a turn takes is in the conversation, and when not yet.
Placed ==
  /\ AtHead \/ (Built /\ turn.place = "claiming") => lock \notin Told
  /\ Drawn /\ turn.place = "claiming" =>
       turn.item \notin Told \cup Memory \cup Batch \cup {lock}
  /\ Drawn /\ turn.place # "claiming" => turn.item \in Batch
  /\ ~AtHead /\ ~AtEnd /\ lock # NoOne =>
       lock \in Told \/ (Built /\ turn.place = "claiming")
  /\ AtEnd => lock \in Told \cup dropped

\* Rounds are of turns that have begun, and of the lock's turn as they were counted.
RoundsCounted ==
  /\ \A w \in (Told \cup Memory \cup Saved) \cap Work :
       /\ w.turn \in sent \ Waiting
       /\ AtHead => w.turn # lock
       /\ w.turn = lock /\ ~AtEnd /\ turn.place # "saving" => w.round <= turn.rounds
  /\ turn.place \notin {"none", "starting"} => \A w \in Saved : w.turn = lock
  /\ \A w \in Memory \cap Work : w.turn = lock

\* A result is not recorded as delivered before its turn comes.
Undelivered ==
  \A r \in Result :
    /\ child[r] # "gone" => r \notin sent /\ phase[r] # "delivered"
    /\ r \in Waiting => phase[r] # "delivered"

Heard ==
  \A r \in Result : phase[r] = "delivered" =>
    /\ r \in Told \cup Memory \cup Batch \cup dropped
    /\ lock = r => r \in Told

Lossless ==
  sent \subseteq Waiting \cup Told \cup Memory \cup Batch \cup dropped \cup {turn.item, lock}

IndInv ==
  /\ TypeOK /\ TurnShape /\ Apart /\ Known /\ Placed
  /\ RoundsCounted /\ Undelivered /\ Heard /\ Lossless

-----------------------------------------------------------------------------
(* Facts that several steps need. *)

USE DEF Injecting, AtHead, AtEnd, Taking, Built, Drawn, Collecting,
        mailVars, fileVars, boundVars, NoTurn, TurnState

LEMMA Disjoint ==
  /\ NoOne \notin Message
  /\ Message \cap Work = {}
  /\ User \cap Result = {} /\ Message = User \cup Result
BY DeliveryAssumption DEF Message, Work

LEMMA Bounds ==
  QueueSize \in Nat /\ DrainLimit \in Nat /\ MaxCycles \in Nat /\ MaxRounds \in Nat
BY DeliveryAssumption

\* The turn of nobody, and one that begins.
LEMMA NewTurn ==
  ASSUME NEW p \in Places
  PROVE  [NoTurn EXCEPT !.place = p] \in TurnState
<1>1. <<>> \in Seq(Message) /\ <<>> \in Seq(Message \cup Work)
  OBVIOUS
<1>2. 0 \in 0..MaxRounds /\ 0 \in 0..MaxCycles
  BY Bounds
<1>3. [NoTurn EXCEPT !.place = p] =
        [place |-> p, purpose |-> "none", item |-> NoOne,
         rounds |-> 0, cycles |-> 0, batch |-> <<>>, memory |-> <<>>]
  OBVIOUS
<1> QED
  BY <1>1, <1>2, <1>3

LEMMA Empty ==
  ASSUME TypeOK
  PROVE  /\ turn.batch = <<>> <=> Batch = {}
         /\ turn.memory = <<>> <=> Memory = {}
         /\ checkpoint = <<>> <=> Saved = {}
         /\ pending = <<>> <=> ToSet(pending) = {}
         /\ Batch \subseteq Message /\ Saved \subseteq Work
         /\ Waiting \subseteq Message
         /\ Told \subseteq Message \cup Work /\ Memory \subseteq Message \cup Work
<1>1. /\ turn.batch = <<>> <=> Batch = {}
      /\ Batch \subseteq Message
  BY ElementFacts DEF TypeOK, Batch
<1>2. /\ turn.memory = <<>> <=> Memory = {}
      /\ Memory \subseteq Message \cup Work
  BY ElementFacts DEF TypeOK, Memory
<1>3. /\ checkpoint = <<>> <=> Saved = {}
      /\ Saved \subseteq Work
  <2>1. CASE checkpoint = <<>>
    BY <2>1, EmptyFacts DEF Saved
  <2>2. CASE checkpoint # <<>>
    <3>1. PICK w \in Work : checkpoint = <<w>>
      BY <2>2 DEF TypeOK
    <3> QED
      BY <2>2, <3>1, SingleFacts DEF Saved
  <2> QED
    BY <2>1, <2>2
<1>4. /\ pending = <<>> <=> ToSet(pending) = {}
      /\ ToSet(pending) \subseteq Message
  BY ElementFacts DEF TypeOK
<1>5. ToSet(bus) \subseteq Message /\ ToSet(line) \subseteq Message
  BY ElementFacts DEF TypeOK
<1>6. Told \subseteq Message \cup Work
  BY ElementFacts DEF TypeOK, Told
<1> QED
  BY <1>1, <1>2, <1>3, <1>4, <1>5, <1>6 DEF Waiting

\* A message that was never sent is put on the bus.
LEMMA Publish ==
  ASSUME IndInv, NEW m \in Message \ sent,
         sent' = sent \cup {m}, bus' = Append(bus, m),
         UNCHANGED <<line, lock, routed, pending, turn, history, checkpoint, phase, dropped>>
  PROVE  /\ bus' \in Seq(Message) /\ Waiting' = Waiting \cup {m}
         /\ TurnShape' /\ Apart' /\ Known' /\ Placed'
         /\ RoundsCounted' /\ Heard' /\ Lossless'
<1> USE DEF IndInv
<1>1. /\ bus' \in Seq(Message) /\ ToSet(bus') = ToSet(bus) \cup {m}
      /\ IsInjective(bus') <=> IsInjective(bus) /\ m \notin ToSet(bus)
  <2>1. bus \in Seq(Message)
    BY DEF TypeOK
  <2> QED
    BY <2>1, AppendFacts
<1>2. Waiting' = Waiting \cup {m}
  BY <1>1 DEF Waiting
<1>3. UNCHANGED <<Told, Memory, Batch, Saved, ToSet(line), ToSet(pending)>>
  BY DEF Told, Memory, Batch, Saved
<1>4. m \notin Waiting \cup Told \cup Memory \cup Batch \cup {lock, turn.item}
  BY Disjoint DEF Known
<1>5. TurnShape'
  BY DEF TurnShape
<1>6. Apart'
  <2>1. m \notin ToSet(bus) \cup ToSet(line) \cup ToSet(pending)
    BY <1>4 DEF Waiting
  <2> QED
    BY <1>1, <1>2, <1>3, <1>4, <2>1 DEF Apart
<1>7. Known'
  BY <1>2, <1>3 DEF Known
<1>8. Placed'
  BY <1>3 DEF Placed
<1>9. RoundsCounted'
  BY <1>2, <1>3 DEF RoundsCounted
<1>10. Heard'
  BY <1>3 DEF Heard
<1>11. Lossless'
  BY <1>2, <1>3 DEF Lossless
<1> QED
  BY <1>1, <1>2, <1>5, <1>6, <1>7, <1>8, <1>9, <1>10, <1>11

LEMMA WriteStep ==
  ASSUME IndInv, NEW u \in User, Write(u)
  PROVE  IndInv'
<1> USE DEF Write
<1>1. u \in Message \ sent
  BY Disjoint
<1>2. /\ bus' \in Seq(Message) /\ Waiting' = Waiting \cup {u}
      /\ TurnShape' /\ Apart' /\ Known' /\ Placed'
      /\ RoundsCounted' /\ Heard' /\ Lossless'
  BY <1>1, Publish
<1>3. TypeOK'
  BY <1>1, <1>2 DEF IndInv, TypeOK
<1>4. Undelivered'
  BY <1>2, Disjoint DEF IndInv, Undelivered
<1> QED
  BY <1>2, <1>3, <1>4 DEF IndInv

LEMMA AnnounceStep ==
  ASSUME IndInv, NEW r \in Result, Announce(r)
  PROVE  IndInv'
<1> USE DEF Announce
<1>1. r \in Message \ sent /\ phase[r] # "delivered"
  BY Disjoint DEF IndInv, Undelivered
<1>2. /\ bus' \in Seq(Message) /\ Waiting' = Waiting \cup {r}
      /\ TurnShape' /\ Apart' /\ Known' /\ Placed'
      /\ RoundsCounted' /\ Heard' /\ Lossless'
  BY <1>1, Publish
<1>3. TypeOK'
  BY <1>1, <1>2 DEF IndInv, TypeOK
<1>4. Undelivered'
  BY <1>1, <1>2 DEF IndInv, Undelivered, TypeOK
<1> QED
  BY <1>2, <1>3, <1>4 DEF IndInv

LEMMA ReadyStep ==
  ASSUME IndInv, NEW r \in Result, Ready(r)
  PROVE  IndInv'
<1> USE DEF IndInv, Ready
<1>1. UNCHANGED <<Waiting, Told, Memory, Batch, Saved, ToSet(bus), ToSet(line), ToSet(pending)>>
  BY DEF Waiting, Told, Memory, Batch, Saved
<1>2. TypeOK'
  BY DEF TypeOK
<1>3. TurnShape' /\ Known'
  BY <1>1 DEF TurnShape, Known
<1>4. Apart' /\ Lossless'
  BY <1>1 DEF Apart, Lossless
<1>5. Placed' /\ RoundsCounted'
  BY <1>1 DEF Placed, RoundsCounted
<1>6. Undelivered'
  BY <1>1 DEF Undelivered, TypeOK
<1>7. Heard'
  BY <1>1 DEF Heard, TypeOK
<1> QED
  BY <1>2, <1>3, <1>4, <1>5, <1>6, <1>7

LEMMA RouteStep ==
  ASSUME IndInv, Route
  PROVE  IndInv'
<1> USE DEF IndInv, Route
<1> DEFINE m == Head(bus)
<1>1. /\ m \in Message /\ bus' \in Seq(Message)
      /\ ToSet(bus) = ToSet(bus') \cup {m}
      /\ IsInjective(bus') /\ m \notin ToSet(bus')
  <2>1. bus \in Seq(Message) /\ IsInjective(bus)
    BY DEF TypeOK, Apart
  <2> QED
    BY <2>1, TailFacts
<1>2. UNCHANGED <<Told, Memory, Batch, Saved>>
  BY DEF Told, Memory, Batch, Saved
<1>3. m \notin ToSet(line) \cup ToSet(pending)
  BY <1>1 DEF Apart
<1>4. /\ line' \in Seq(Message) /\ pending' \in Seq(Message)
      /\ Len(pending') <= QueueSize
      /\ IsInjective(line') /\ IsInjective(pending')
      /\ \/ ToSet(line') = ToSet(line) \cup {m} /\ ToSet(pending') = ToSet(pending)
         \/ ToSet(line') = ToSet(line) /\ ToSet(pending') = ToSet(pending) \cup {m}
      /\ routed = NoOne => pending' = pending
  <2>1. /\ line \in Seq(Message) /\ pending \in Seq(Message) /\ Len(pending) <= QueueSize
        /\ IsInjective(line) /\ IsInjective(pending)
    BY DEF TypeOK, Apart
  <2>2. QueueSize \in Nat
    BY DeliveryAssumption
  <2>3. CASE Queued
    <3>1. pending' = Append(pending, m) /\ line' = line
      BY <2>3
    <3>2. /\ pending' \in Seq(Message) /\ Len(pending') = Len(pending) + 1
          /\ ToSet(pending') = ToSet(pending) \cup {m} /\ IsInjective(pending')
      BY <1>1, <1>3, <2>1, <3>1, AppendFacts
    <3> QED
      BY <2>1, <2>2, <2>3, <3>1, <3>2 DEF Queued
  <2>4. CASE ~Queued
    <3>1. line' = Append(line, m) /\ pending' = pending
      BY <2>4
    <3>2. /\ line' \in Seq(Message)
          /\ ToSet(line') = ToSet(line) \cup {m} /\ IsInjective(line')
      BY <1>1, <1>3, <2>1, <3>1, AppendFacts
    <3> QED
      BY <2>1, <3>1, <3>2
  <2> QED
    BY <2>3, <2>4
<1> HIDE DEF m
<1>5. Waiting' = Waiting
  BY <1>1, <1>4 DEF Waiting
<1>6. TypeOK'
  BY <1>1, <1>4 DEF TypeOK
<1>7. TurnShape' /\ Known'
  BY <1>2, <1>4, <1>5 DEF TurnShape, Known
<1>8. Apart'
  BY <1>1, <1>2, <1>3, <1>4, <1>5 DEF Apart
<1>9. Placed' /\ RoundsCounted'
  BY <1>2, <1>5 DEF Placed, RoundsCounted
<1>10. Undelivered' /\ Heard' /\ Lossless'
  BY <1>2, <1>5 DEF Undelivered, Heard, Lossless
<1> QED
  BY <1>6, <1>7, <1>8, <1>9, <1>10

LEMMA EnterStep ==
  ASSUME IndInv, Enter
  PROVE  IndInv'
<1> USE DEF IndInv, Enter
<1>1. /\ lock' \in Message /\ line' \in Seq(Message)
      /\ ToSet(line) = ToSet(line') \cup {lock'}
      /\ IsInjective(line') /\ lock' \notin ToSet(line')
  <2>1. line \in Seq(Message) /\ IsInjective(line)
    BY DEF TypeOK, Apart
  <2> QED
    BY <2>1, TailFacts
<1>2. /\ turn.place = "none" /\ turn.item = NoOne
      /\ turn.memory = <<>> /\ turn.batch = <<>> /\ pending = <<>>
  BY DEF TurnShape, TypeOK
<1>3. turn' \in TurnState /\ turn'.batch = <<>>
  BY NewTurn DEF Places
<1>4. UNCHANGED <<Told, Memory, Batch, Saved, ToSet(bus), ToSet(pending)>>
  BY <1>2 DEF Told, Memory, Batch, Saved
<1>5. Memory = {} /\ Batch = {} /\ ToSet(pending) = {}
  BY <1>2, Empty
<1>6. Waiting = Waiting' \cup {lock'} /\ lock' \notin Waiting'
  BY <1>1, <1>2, <1>4 DEF Waiting, Apart
<1>7. lock' # NoOne
  BY <1>1, Disjoint
<1>8. TypeOK'
  BY <1>1, <1>2, <1>3, DeliveryAssumption DEF TypeOK
<1>9. TurnShape' /\ Known'
  BY <1>2, <1>4, <1>6, <1>7 DEF TurnShape, Known
<1>10. Apart'
  BY <1>1, <1>2, <1>4, <1>5, <1>6, Disjoint, Empty DEF Apart
<1>11. Placed'
  BY <1>4, <1>6 DEF Placed, Apart
<1>12. RoundsCounted'
  BY <1>4, <1>5, <1>6 DEF RoundsCounted
<1>13. Undelivered'
  BY <1>6 DEF Undelivered
<1>14. Heard'
  BY <1>4, <1>6 DEF Heard, Undelivered
<1>15. Lossless'
  BY <1>2, <1>4, <1>6, Disjoint DEF Lossless, TypeOK
<1> QED
  BY <1>8, <1>9, <1>10, <1>11, <1>12, <1>13, <1>14, <1>15

LEMMA CloseStep ==
  ASSUME IndInv, Close
  PROVE  IndInv'
<1> USE DEF IndInv, Close
<1>1. /\ bus' \in Seq(Message) /\ ToSet(bus') = ToSet(bus) \cup ToSet(pending)
      /\ IsInjective(bus')
  <2>1. /\ bus \in Seq(Message) /\ IsInjective(bus)
        /\ pending \in Seq(Message) /\ IsInjective(pending)
        /\ ToSet(bus) \cap ToSet(pending) = {}
    BY DEF TypeOK, Apart
  <2> QED
    BY <2>1, ConcatFacts
<1>2. UNCHANGED <<Told, Memory, Batch, Saved, ToSet(line)>> /\ ToSet(pending') = {}
  BY EmptyFacts DEF Told, Memory, Batch, Saved, TypeOK, TurnState
<1>3. UNCHANGED Waiting
  BY <1>1, <1>2 DEF Waiting
<1>4. /\ turn' \in TurnState /\ turn'.place = "leaving"
      /\ turn'.purpose = turn.purpose /\ turn'.item = turn.item
      /\ turn'.batch = turn.batch /\ turn'.memory = turn.memory
  BY DEF TypeOK, Places
<1>5. TypeOK'
  <2>1. TypeOK /\ Len(turn'.batch) <= DrainLimit
    BY <1>4 DEF TypeOK
  <2>2. pending' \in Seq(Message) /\ Len(pending') <= QueueSize
    BY Bounds
  <2>3. lock' \in Message \cup {NoOne} /\ routed' \in {NoOne, lock'}
    BY <2>1 DEF TypeOK
  <2> HIDE DEF IndInv
  <2> QED
    BY <1>1, <1>4, <2>1, <2>2, <2>3 DEF TypeOK
<1>6. TurnShape' /\ Known'
  BY <1>2, <1>3, <1>4 DEF TurnShape, Known, TypeOK
<1>7. Apart'
  BY <1>1, <1>2, <1>3, <1>4, EmptyFacts DEF Apart
<1>8. Placed' /\ RoundsCounted'
  BY <1>2, <1>3, <1>4 DEF Placed, RoundsCounted, TypeOK
<1>9. Undelivered' /\ Heard' /\ Lossless'
  BY <1>2, <1>3, <1>4 DEF Undelivered, Heard, Lossless
<1> QED
  BY <1>5, <1>6, <1>7, <1>8, <1>9

LEMMA ReleaseStep ==
  ASSUME IndInv, Release
  PROVE  IndInv'
<1> USE DEF IndInv, Release
<1>1. turn.item = NoOne /\ turn.memory = <<>> /\ turn.batch = <<>>
  BY DEF TurnShape
<1>2. UNCHANGED <<Told, Memory, Batch, Saved, Waiting, ToSet(bus), ToSet(line), ToSet(pending)>>
  BY <1>1 DEF Told, Memory, Batch, Saved, Waiting
<1>3. NoOne \notin Waiting /\ Memory = {}
  BY <1>1, Disjoint, Empty
<1>4. TypeOK'
  <2>1. turn' \in TurnState /\ turn'.batch = <<>>
    BY NewTurn DEF Places
  <2> QED
    BY <2>1, DeliveryAssumption DEF TypeOK, TurnShape
<1>5. TurnShape' /\ Known'
  BY <1>1, <1>2 DEF TurnShape, Known
<1>6. Apart'
  BY <1>1, <1>2, <1>3 DEF Apart
<1>7. Placed' /\ RoundsCounted'
  BY <1>2, <1>3, Disjoint DEF Placed, RoundsCounted, TypeOK
<1>8. Undelivered' /\ Heard'
  BY <1>2, Disjoint DEF Undelivered, Heard
<1>9. Lossless'
  BY <1>1, <1>2 DEF Lossless, Placed
<1> QED
  BY <1>4, <1>5, <1>6, <1>7, <1>8, <1>9

-----------------------------------------------------------------------------
(* The steps of a turn. *)

Midway == {"running", "calling", "draining", "blocked", "drained"}

\* The turn goes on to another place, and what it held stays what it was.
LEMMA MovesOn ==
  ASSUME IndInv, UNCHANGED <<mailVars, fileVars, child, stopping, dropped, boundVars>>,
         turn.place \in Midway \cup {"noting", "confirming"},
         turn' \in TurnState, turn'.place \in Midway, turn'.item = NoOne,
         turn'.batch = turn.batch, turn'.memory = turn.memory,
         turn'.rounds = turn.rounds
  PROVE  /\ TypeOK' /\ Apart' /\ Known' /\ Placed' /\ RoundsCounted'
         /\ Undelivered' /\ Heard' /\ Lossless'
         /\ lock # NoOne
<1> USE DEF IndInv, Midway
<1>1. UNCHANGED <<Told, Memory, Batch, Saved, Waiting, ToSet(bus), ToSet(line), ToSet(pending)>>
  BY DEF Told, Memory, Batch, Saved, Waiting
<1>2. TypeOK'
  BY DEF TypeOK
<1>3. lock # NoOne
  BY DEF TurnShape
<1>4. Apart' /\ Known'
  BY <1>1, Disjoint, Empty DEF Apart, Known
<1>5. Placed' /\ RoundsCounted'
  BY <1>1 DEF Placed, RoundsCounted
<1>6. Undelivered' /\ Heard'
  BY <1>1 DEF Undelivered, Heard
<1>7. Lossless'
  BY <1>1 DEF Lossless, Placed, TurnShape
<1> QED
  BY <1>2, <1>3, <1>4, <1>5, <1>6, <1>7

LEMMA ToolsReturnStep ==
  ASSUME IndInv, ToolsReturn
  PROVE  IndInv'
<1> USE DEF ToolsReturn, Midway
<1>1. /\ turn' \in TurnState /\ turn'.place = Drain /\ Drain \in {"draining", "drained"}
      /\ turn'.purpose = turn.purpose /\ turn'.item = NoOne /\ turn'.cycles = turn.cycles
      /\ turn'.batch = turn.batch /\ turn'.memory = turn.memory
      /\ turn'.rounds = turn.rounds
  BY DEF Drain, IndInv, TypeOK, TurnShape, Places
<1>2. TurnShape'
  BY <1>1 DEF IndInv, TurnShape, Drain, TypeOK
<1> QED
  BY <1>1, <1>2, MovesOn DEF IndInv

LEMMA AnswerStep ==
  ASSUME IndInv, Answer
  PROVE  IndInv'
<1> USE DEF Answer, Midway
<1>1. /\ turn' \in TurnState /\ turn'.place = Drain /\ Drain \in {"draining", "drained"}
      /\ turn'.purpose = (IF turn.rounds < MaxRounds THEN "answer" ELSE "limit")
      /\ turn'.item = NoOne /\ turn'.cycles = turn.cycles
      /\ turn'.batch = turn.batch /\ turn'.memory = turn.memory
      /\ turn'.rounds = turn.rounds
  BY DEF Drain, IndInv, TypeOK, TurnShape, Places
<1>2. TurnShape'
  BY <1>1 DEF IndInv, TurnShape, Drain, TypeOK
<1> QED
  BY <1>1, <1>2, MovesOn DEF IndInv

LEMMA BlockStep ==
  ASSUME IndInv, Block
  PROVE  IndInv'
<1> USE DEF Block, Midway
<1>1. /\ turn' \in TurnState /\ turn'.place = "blocked"
      /\ turn'.purpose = turn.purpose /\ turn'.item = NoOne /\ turn'.cycles = turn.cycles
      /\ turn'.batch = turn.batch /\ turn'.memory = turn.memory
      /\ turn'.rounds = turn.rounds
  BY DEF IndInv, TypeOK, TurnShape, Places
<1>2. TurnShape'
  BY <1>1 DEF IndInv, TurnShape
<1> QED
  BY <1>1, <1>2, MovesOn DEF IndInv

LEMMA GoOnStep ==
  ASSUME IndInv, GoOn
  PROVE  IndInv'
<1> USE DEF GoOn, DrainOver, Midway
<1>1. /\ turn' \in TurnState /\ turn'.place = "running"
      /\ turn'.purpose = turn.purpose /\ turn'.item = NoOne /\ turn'.cycles = turn.cycles
      /\ turn'.batch = turn.batch /\ turn'.memory = turn.memory
      /\ turn'.rounds = turn.rounds
  BY DEF IndInv, TypeOK, TurnShape, Places
<1>2. TurnShape'
  BY <1>1 DEF IndInv, TurnShape
<1> QED
  BY <1>1, <1>2, MovesOn DEF IndInv

LEMMA ConfirmedStep ==
  ASSUME IndInv, Confirmed
  PROVE  IndInv'
<1> USE DEF Confirmed, Midway
<1>1. /\ turn' \in TurnState
      /\ turn'.place = (IF Built THEN "running" ELSE "draining")
      /\ turn'.purpose = turn.purpose /\ turn'.item = NoOne /\ turn'.cycles = turn.cycles
      /\ turn'.batch = turn.batch /\ turn'.memory = turn.memory
      /\ turn'.rounds = turn.rounds
  BY DEF IndInv, TypeOK, TurnShape, Places, AfterItem
<1>2. TurnShape'
  BY <1>1 DEF IndInv, TurnShape
<1> QED
  BY <1>1, <1>2, MovesOn DEF IndInv

\* What the history is after the checkpoint was restored.
LEMMA RestoredFacts ==
  ASSUME TypeOK, Apart
  PROVE  /\ Restored \in Seq(Message \cup Work) /\ IsInjective(Restored)
         /\ ToSet(Restored) \subseteq Told \cup Saved /\ Told \subseteq ToSet(Restored)
         /\ Restored = history \/ Restored = history \o checkpoint
<1>1. CASE Restored = history
  BY <1>1 DEF TypeOK, Apart, Told
<1>2. CASE Restored = history \o checkpoint
  <2>1. checkpoint \in Seq(Message \cup Work) /\ IsInjective(checkpoint)
    <3>1. CASE checkpoint = <<>>
      BY <3>1, EmptyFacts
    <3>2. CASE checkpoint # <<>>
      <4>1. PICK w \in Work : checkpoint = <<w>>
        BY <3>2 DEF TypeOK
      <4> QED
        BY <4>1, SingleFacts
    <3> QED
      BY <3>1, <3>2
  <2>2. /\ history \in Seq(Message \cup Work) /\ IsInjective(history)
        /\ ToSet(history) \cap ToSet(checkpoint) = {}
    BY DEF TypeOK, Apart, Told, Saved
  <2> QED
    BY <1>2, <2>1, <2>2, ConcatFacts DEF Told, Saved
<1> QED
  BY <1>1, <1>2 DEF Restored

LEMMA RestoreStep ==
  ASSUME IndInv, Restore
  PROVE  IndInv'
<1> USE DEF IndInv, Restore
<1>1. /\ history' \in Seq(Message \cup Work) /\ IsInjective(history')
      /\ Told' \subseteq Told \cup Saved /\ Told \subseteq Told'
  BY RestoredFacts DEF Told
<1>2. /\ turn' \in TurnState /\ turn'.place = "restored"
      /\ turn'.purpose = turn.purpose /\ turn'.item = NoOne /\ turn.item = NoOne
      /\ turn'.batch = <<>> /\ turn.batch = <<>>
      /\ turn'.memory = <<>> /\ turn.memory = <<>>
  BY DEF TypeOK, TurnShape, Places
<1>3. Saved' = {} /\ Memory = {} /\ Batch = {} /\ Memory' = {} /\ Batch' = {}
  BY <1>2, EmptyFacts DEF Saved, Memory, Batch
<1>4. UNCHANGED <<Waiting, ToSet(bus), ToSet(line), ToSet(pending)>>
  BY DEF Waiting
<1>5. lock \in Message
  BY DEF TypeOK, TurnShape
<1>6. Told' \cap Message = Told \cap Message
  BY <1>1, Disjoint, Empty
<1>7. TypeOK'
  BY <1>1, <1>2 DEF TypeOK
<1>8. TurnShape' /\ Known'
  BY <1>2, <1>3, <1>4, <1>6 DEF TurnShape, Known
<1>9. Apart'
  BY <1>1, <1>2, <1>3, <1>4, <1>6, Empty, Disjoint DEF Apart
<1>10. Placed'
  BY <1>2, <1>5, <1>6 DEF Placed
<1>11. RoundsCounted'
  <2>1. ASSUME NEW w \in (Told' \cup Memory' \cup Saved') \cap Work
        PROVE  w.turn \in sent \ Waiting /\ w.turn # lock
    BY <1>1, <1>3 DEF RoundsCounted
  <2> QED
    BY <1>2, <1>3, <1>4, <2>1 DEF RoundsCounted
<1>12. Undelivered' /\ Heard'
  BY <1>1, <1>3, <1>4 DEF Undelivered, Heard
<1>13. Lossless'
  BY <1>1, <1>2, <1>3, <1>4 DEF Lossless
<1> QED
  BY <1>7, <1>8, <1>9, <1>10, <1>11, <1>12, <1>13

LEMMA BuildUserStep ==
  ASSUME IndInv, BuildUser
  PROVE  IndInv'
<1> USE DEF IndInv, BuildUser
<1>1. lock \in Message /\ lock \notin Told
  BY DEF TypeOK, TurnShape, Placed
<1>2. /\ history' \in Seq(Message \cup Work) /\ IsInjective(history')
      /\ Told' = Told \cup {lock}
  <2>1. history \in Seq(Message \cup Work) /\ IsInjective(history)
    BY DEF TypeOK, Apart
  <2> QED
    BY <1>1, <2>1, AppendFacts DEF Told
<1>3. /\ turn' \in TurnState /\ turn'.place = "running"
      /\ turn'.purpose = turn.purpose /\ turn'.item = turn.item /\ turn.item = NoOne
      /\ turn'.rounds = turn.rounds
      /\ turn'.batch = <<>> /\ turn.batch = <<>>
      /\ turn'.memory = <<>> /\ turn.memory = <<>>
  BY DEF TypeOK, TurnShape, Places
<1>4. Memory = {} /\ Batch = {} /\ Memory' = {} /\ Batch' = {} /\ Saved' = Saved
  BY <1>3, EmptyFacts DEF Memory, Batch, Saved
<1>5. UNCHANGED <<Waiting, ToSet(bus), ToSet(line), ToSet(pending)>>
  BY DEF Waiting
<1>6. TypeOK'
  BY <1>2, <1>3 DEF TypeOK
<1>7. TurnShape' /\ Known'
  BY <1>1, <1>2, <1>3, <1>4, <1>5 DEF TurnShape, Known
<1>8. Apart'
  BY <1>1, <1>2, <1>3, <1>4, <1>5, Empty, Disjoint DEF Apart
<1>9. Placed'
  BY <1>2, <1>3 DEF Placed
<1>10. RoundsCounted'
  BY <1>1, <1>2, <1>3, <1>4, <1>5, Disjoint DEF RoundsCounted
<1>11. Undelivered' /\ Heard' /\ Lossless'
  BY <1>2, <1>3, <1>4, <1>5 DEF Undelivered, Heard, Lossless
<1> QED
  BY <1>6, <1>7, <1>8, <1>9, <1>10, <1>11

LEMMA BuildResultStep ==
  ASSUME IndInv, BuildResult
  PROVE  IndInv'
<1> USE DEF IndInv, BuildResult
<1>1. lock \in Message /\ lock # NoOne
  BY Disjoint
<1>2. /\ turn' \in TurnState /\ turn'.place = "claiming"
      /\ turn'.purpose = "build" /\ turn'.item = lock /\ turn.item = NoOne
      /\ turn'.rounds = turn.rounds
      /\ turn'.batch = <<>> /\ turn.batch = <<>>
      /\ turn'.memory = <<>> /\ turn.memory = <<>>
  BY <1>1 DEF TypeOK, TurnShape, Places
<1>3. UNCHANGED <<Told, Memory, Batch, Saved, Waiting, ToSet(bus), ToSet(line), ToSet(pending)>>
  BY <1>2 DEF Told, Memory, Batch, Saved, Waiting
<1>4. TypeOK'
  BY <1>2 DEF TypeOK
<1>5. TurnShape' /\ Known'
  BY <1>1, <1>2, <1>3 DEF TurnShape, Known
<1>6. Apart'
  BY <1>2, <1>3 DEF Apart
<1>7. Placed' /\ RoundsCounted'
  BY <1>2, <1>3 DEF Placed, RoundsCounted
<1>8. Undelivered' /\ Heard'
  BY <1>3 DEF Undelivered, Heard, TypeOK
<1>9. Lossless'
  <2>1. NoOne \notin sent
    BY Disjoint DEF TypeOK
  <2> QED
    BY <1>2, <1>3, <2>1 DEF Lossless
<1> QED
  BY <1>4, <1>5, <1>6, <1>7, <1>8, <1>9

LEMMA TakeStep ==
  ASSUME IndInv, Take
  PROVE  IndInv'
<1> USE DEF IndInv, Take
<1>1. turn.item \in Message /\ lock # NoOne /\ (Built \/ Drawn)
  BY Disjoint DEF TypeOK, TurnShape
<1>2. /\ turn' \in TurnState /\ turn'.place = "noting" /\ turn'.purpose = turn.purpose
      /\ turn'.item = turn.item /\ turn'.memory = turn.memory
      /\ turn'.rounds = turn.rounds /\ turn'.cycles = turn.cycles
      /\ Drawn => turn'.batch = Append(turn.batch, turn.item)
      /\ Built => turn'.batch = turn.batch
  <2>1. turn \in TurnState /\ Append(turn.batch, turn.item) \in Seq(Message)
    BY <1>1 DEF TypeOK
  <2>2. CASE Built
    BY <2>1, <2>2 DEF Places
  <2>3. CASE Drawn
    BY <2>1, <2>3 DEF Places
  <2> QED
    BY <1>1, <2>2, <2>3
<1>3. UNCHANGED <<Memory, Saved, Waiting, ToSet(bus), ToSet(line), ToSet(pending)>>
  BY <1>2 DEF Memory, Saved, Waiting
<1>4. CASE Built
  <2>1. turn.item = lock /\ lock \notin Told
    BY <1>4 DEF TurnShape, Placed
  <2>2. turn.batch = <<>> /\ turn.memory = <<>> /\ turn'.batch = <<>> /\ turn'.memory = <<>>
    BY <1>2, <1>4 DEF TurnShape
  <2>3. /\ history' \in Seq(Message \cup Work) /\ IsInjective(history')
        /\ Told' = Told \cup {lock}
    <3>1. history \in Seq(Message \cup Work) /\ IsInjective(history)
      BY DEF TypeOK, Apart
    <3>2. ~Contains(history, lock)
      BY <2>1, <3>1, ElementFacts DEF Told
    <3>3. history' = Append(history, lock)
      BY <1>4, <2>1, <3>2
    <3> QED
      BY <1>1, <2>1, <3>1, <3>3, AppendFacts DEF Told
  <2>4. Batch = {} /\ Memory = {} /\ Batch' = {}
    BY <2>2, EmptyFacts DEF Batch, Memory
  <2>5. TypeOK'
    BY <1>2, <1>4, <2>3 DEF TypeOK
  <2>6. TurnShape' /\ Known'
    BY <1>1, <1>2, <1>3, <1>4, <2>1, <2>2, <2>3, <2>4 DEF TurnShape, Known
  <2>7. Apart'
    BY <1>1, <1>2, <1>3, <2>1, <2>2, <2>3, <2>4, Empty, Disjoint DEF Apart
  <2>8. Placed' /\ RoundsCounted'
    BY <1>1, <1>2, <1>3, <1>4, <2>1, <2>3, Disjoint DEF Placed, RoundsCounted
  <2>9. Undelivered' /\ Heard' /\ Lossless'
    BY <1>2, <1>3, <2>1, <2>3, <2>4 DEF Undelivered, Heard, Lossless
  <2> QED
    BY <2>5, <2>6, <2>7, <2>8, <2>9
<1>5. CASE Drawn
  <2>1. /\ turn.item \notin Told \cup Memory \cup Batch \cup {lock}
        /\ Len(turn.batch) < DrainLimit
    BY <1>5 DEF Placed, TurnShape
  <2>2. /\ turn'.batch \in Seq(Message) /\ IsInjective(turn'.batch)
        /\ Len(turn'.batch) <= DrainLimit
        /\ Batch' = Batch \cup {turn.item}
    <3>1. turn.batch \in Seq(Message) /\ IsInjective(turn.batch)
      BY DEF TypeOK, Apart
    <3>2. turn'.batch = Append(turn.batch, turn.item) /\ turn.item \notin ToSet(turn.batch)
      BY <1>2, <1>5, <2>1 DEF Batch
    <3>3. /\ Len(turn'.batch) = Len(turn.batch) + 1
          /\ turn'.batch \in Seq(Message) /\ IsInjective(turn'.batch)
          /\ ToSet(turn'.batch) = ToSet(turn.batch) \cup {turn.item}
      BY <1>1, <3>1, <3>2, AppendFacts
    <3>4. Len(turn.batch) \in Nat
      BY <3>1
    <3> QED
      BY <2>1, <3>3, <3>4, Bounds DEF Batch
  <2>3. history' = history /\ Told' = Told
    BY <1>5 DEF Told
  <2>4. TypeOK'
    BY <1>2, <2>2, <2>3 DEF TypeOK
  <2>5. TurnShape' /\ Known'
    BY <1>1, <1>2, <1>3, <1>5, <2>2, <2>3 DEF TurnShape, Known
  <2>6. Apart'
    BY <1>1, <1>2, <1>3, <2>1, <2>2, <2>3 DEF Apart
  <2>7. Placed' /\ RoundsCounted'
    BY <1>2, <1>3, <1>5, <2>2, <2>3 DEF Placed, RoundsCounted
  <2>8. Undelivered' /\ Heard' /\ Lossless'
    BY <1>2, <1>3, <2>2, <2>3 DEF Undelivered, Heard, Lossless
  <2> QED
    BY <2>4, <2>5, <2>6, <2>7, <2>8
<1> QED
  BY <1>1, <1>4, <1>5

LEMMA NotedStep ==
  ASSUME IndInv, Noted
  PROVE  IndInv'
<1> USE DEF Noted
<1>1. CASE turn.item \in User
  <2>1. Drawn
    BY <1>1, Disjoint DEF IndInv, TurnShape
  <2>2. /\ turn' \in TurnState /\ turn'.place = "draining"
        /\ turn'.purpose = turn.purpose /\ turn'.item = NoOne /\ turn'.cycles = turn.cycles
        /\ turn'.batch = turn.batch /\ turn'.memory = turn.memory
        /\ turn'.rounds = turn.rounds
    <3>1. turn' = [turn EXCEPT !.place = "draining", !.item = NoOne]
      BY <1>1, <2>1 DEF AfterItem
    <3>2. turn \in TurnState /\ "draining" \in Places
      BY DEF IndInv, TypeOK, Places
    <3> HIDE DEF Noted
    <3> QED
      BY <3>1, <3>2
  <2>3. TurnShape'
    BY <1>1, <2>1, <2>2 DEF IndInv, TurnShape
  <2>4. UNCHANGED <<mailVars, fileVars, child, stopping, dropped, boundVars>>
    BY <1>1
  <2> QED
    BY <2>2, <2>3, <2>4, MovesOn DEF IndInv, Midway
<1>2. CASE turn.item \notin User
  <2> USE DEF IndInv
  <2>1. turn.item \in Result /\ turn.item \in Message
    BY <1>2, Disjoint DEF TypeOK, TurnShape
  <2>2. /\ turn' \in TurnState /\ turn'.place = "confirming"
        /\ turn'.purpose = turn.purpose /\ turn'.item = turn.item /\ turn'.cycles = turn.cycles
        /\ turn'.batch = turn.batch /\ turn'.memory = turn.memory
        /\ turn'.rounds = turn.rounds
    <3>1. turn' = [turn EXCEPT !.place = "confirming"]
      BY <1>2
    <3>2. turn \in TurnState /\ "confirming" \in Places
      BY DEF TypeOK, Places
    <3> HIDE DEF Noted, IndInv
    <3> QED
      BY <3>1, <3>2
  <2>3. UNCHANGED <<Told, Memory, Batch, Saved, Waiting, ToSet(bus), ToSet(line), ToSet(pending)>>
    BY <2>2 DEF Told, Memory, Batch, Saved, Waiting
  <2>4. phase' = [phase EXCEPT ![turn.item] = "delivered"]
    BY <1>2
  <2>5. TypeOK'
    BY <2>1, <2>2, <2>4 DEF TypeOK
  <2>6. TurnShape' /\ Known'
    BY <2>1, <2>2, <2>3 DEF TurnShape, Known
  <2>7. Apart' /\ Placed'
    BY <2>2, <2>3 DEF Apart, Placed
  <2>8. RoundsCounted' /\ Lossless'
    BY <2>2, <2>3 DEF RoundsCounted, Lossless
  <2>9. turn.item \in Told \cup Batch /\ (turn.item = lock => lock \in Told)
    BY DEF Placed, TurnShape
  <2>10. Heard'
    BY <2>1, <2>3, <2>4, <2>9 DEF Heard, TypeOK
  <2>11. Undelivered'
    <3>1. turn.item \in sent /\ turn.item \notin Waiting
      BY <2>1, Disjoint DEF Known, Apart
    <3> QED
      BY <2>3, <2>4, <3>1 DEF Undelivered, TypeOK
  <2> QED
    BY <2>5, <2>6, <2>7, <2>8, <2>10, <2>11
<1> QED
  BY <1>1, <1>2

\* The round that the model has just finished is new to the conversation.
LEMMA NewRound ==
  ASSUME IndInv, turn.place \in Midway
  PROVE  /\ ThisRound \in Work /\ ThisRound \notin Told \cup Memory \cup Batch
         /\ ThisRound.turn = lock /\ ThisRound.round = turn.rounds + 1
         /\ lock \in sent \ Waiting
<1> USE DEF IndInv, Midway
<1>1. lock \in Message /\ lock \in sent \ Waiting
  BY DEF TypeOK, TurnShape, Known, Apart
<1>2. ThisRound \in Work /\ ThisRound.turn = lock /\ ThisRound.round = turn.rounds + 1
  <2>1. turn.rounds \in 0..MaxRounds
    BY DEF TypeOK
  <2>2. turn.rounds + 1 \in 1..(MaxRounds + 1)
    BY <2>1, Bounds
  <2> HIDE DEF IndInv
  <2> QED
    BY <1>1, <2>2 DEF ThisRound, Work
<1>3. ASSUME ThisRound \in Told \cup Memory PROVE FALSE
  <2>1. turn.rounds + 1 <= turn.rounds
    BY <1>2, <1>3 DEF RoundsCounted
  <2>2. turn.rounds \in Int
    BY Bounds DEF TypeOK
  <2> QED
    BY <2>1, <2>2
<1>4. ThisRound \notin Batch
  BY <1>2, Disjoint, Empty
<1> QED
  BY <1>1, <1>2, <1>3, <1>4

LEMMA CallToolsStep ==
  ASSUME IndInv, CallTools
  PROVE  IndInv'
<1> USE DEF IndInv, CallTools
<1>1. /\ ThisRound \in Work /\ ThisRound \notin Told \cup Memory \cup Batch
      /\ ThisRound.turn = lock /\ ThisRound.round = turn.rounds + 1
      /\ lock \in sent \ Waiting
  BY NewRound DEF Midway
<1>2. /\ turn'.memory \in Seq(Message \cup Work) /\ IsInjective(turn'.memory)
      /\ Memory' = Memory \cup {ThisRound}
      /\ turn'.memory = Append(turn.memory, ThisRound)
  <2>1. turn.memory \in Seq(Message \cup Work) /\ IsInjective(turn.memory)
    BY DEF TypeOK, Apart
  <2>2. turn'.memory = Append(turn.memory, ThisRound)
    BY DEF TypeOK
  <2> QED
    BY <1>1, <2>1, <2>2, AppendFacts DEF Memory
<1>3. /\ turn' \in TurnState /\ turn'.place = "calling" /\ turn'.purpose = "tools"
      /\ turn'.item = NoOne /\ turn.item = NoOne
      /\ turn'.rounds = turn.rounds + 1 /\ turn'.cycles = turn.cycles
      /\ turn'.batch = turn.batch /\ turn.batch = <<>>
  <2>1. turn \in TurnState /\ turn.rounds + 1 \in 0..MaxRounds
    BY Bounds DEF TypeOK
  <2>2. turn.item = NoOne /\ turn.batch = <<>>
    BY DEF TurnShape
  <2> QED
    BY <1>2, <2>1, <2>2 DEF Places
<1>4. UNCHANGED <<Told, Batch, Waiting, ToSet(bus), ToSet(line), ToSet(pending)>>
  BY <1>3 DEF Told, Batch, Waiting
<1>5. Saved' = {ThisRound}
  BY SingleFacts DEF Saved
<1>6. TypeOK'
  BY <1>1, <1>3 DEF TypeOK
<1>7. TurnShape' /\ Known'
  BY <1>1, <1>2, <1>3, <1>4, Disjoint DEF TurnShape, Known
<1>8. Apart'
  BY <1>1, <1>2, <1>3, <1>4, <1>5, Disjoint, Empty DEF Apart
<1>9. Placed'
  BY <1>3, <1>4 DEF Placed
<1>10. RoundsCounted'
  <2>1. turn.rounds \in Int /\ \A w \in Work : w.round \in Int
    BY Bounds DEF TypeOK, Work
  <2> QED
    BY <1>1, <1>2, <1>3, <1>4, <1>5, <2>1 DEF RoundsCounted
<1>11. Undelivered' /\ Heard' /\ Lossless'
  BY <1>2, <1>3, <1>4 DEF Undelivered, Heard, Lossless
<1> QED
  BY <1>6, <1>7, <1>8, <1>9, <1>10, <1>11

LEMMA DrawStep ==
  ASSUME IndInv, Draw
  PROVE  IndInv'
<1> USE DEF IndInv, Draw
<1> DEFINE m == Head(pending)
<1>1. /\ m \in Message /\ pending' \in Seq(Message) /\ Len(pending') <= QueueSize
      /\ ToSet(pending) = ToSet(pending') \cup {m}
      /\ IsInjective(pending') /\ m \notin ToSet(pending')
  <2>1. /\ pending \in Seq(Message) /\ pending # <<>> /\ IsInjective(pending)
        /\ Len(pending) \in Nat /\ Len(pending) <= QueueSize
    BY DEF TypeOK, Apart, DrainMore
  <2>2. pending' = Tail(pending)
    OBVIOUS
  <2>3. Len(pending') = Len(pending) - 1
    BY <2>1, <2>2, TailFacts
  <2> QED
    BY <2>1, <2>2, <2>3, TailFacts, Bounds
<1>2. /\ turn.purpose \in Injecting /\ turn.item = NoOne /\ lock # NoOne
      /\ turn \in TurnState /\ turn.cycles < MaxCycles
      /\ Len(turn.batch) \in Nat /\ Len(turn.batch) < DrainLimit
      /\ turn.purpose = "answer" => turn.rounds < MaxRounds
  BY DEF TurnShape, TypeOK, DrainMore
<1>3. \/ /\ m \in User /\ UNCHANGED phase
         /\ turn' = [turn EXCEPT !.place = "noting", !.item = m, !.batch = Append(@, m)]
      \/ /\ m \in Result /\ phase' = [phase EXCEPT ![m] = "claimed"]
         /\ turn' = [turn EXCEPT !.place = "claiming", !.item = m]
  OBVIOUS
<1>4. /\ m \notin ToSet(bus) /\ m \notin ToSet(line)
      /\ m \notin Told \cup Memory \cup Batch \cup {lock} /\ m \in sent
  BY <1>1 DEF Apart, Waiting, Known
<1> HIDE DEF m
<1>5. Waiting = Waiting' \cup {m} /\ m \notin Waiting'
  BY <1>1, <1>4 DEF Waiting
<1>6. UNCHANGED <<Told, Saved, ToSet(bus), ToSet(line)>>
  BY DEF Told, Saved
<1>7. /\ turn' \in TurnState /\ turn'.purpose = turn.purpose /\ turn'.item = m
      /\ turn'.memory = turn.memory
      /\ turn'.rounds = turn.rounds /\ turn'.cycles = turn.cycles
      /\ \/ /\ m \in User /\ UNCHANGED phase
            /\ turn'.place = "noting" /\ turn'.batch = Append(turn.batch, m)
         \/ /\ m \in Result /\ phase' = [phase EXCEPT ![m] = "claimed"]
            /\ turn'.place = "claiming" /\ turn'.batch = turn.batch
  <2>1. Append(turn.batch, m) \in Seq(Message)
    BY <1>1, <1>2
  <2> QED
    BY <1>1, <1>2, <1>3, <2>1 DEF Places
<1>8. /\ turn'.batch \in Seq(Message) /\ IsInjective(turn'.batch)
      /\ Len(turn'.batch) <= DrainLimit
      /\ turn'.place = "claiming" => Batch' = Batch
      /\ turn'.place = "noting" => Batch' = Batch \cup {m}
  <2>1. turn.batch \in Seq(Message) /\ IsInjective(turn.batch)
    BY DEF TypeOK, Apart
  <2>2. CASE turn'.place = "claiming"
    BY <1>2, <1>7, <2>1, <2>2, Bounds DEF Batch
  <2>3. CASE turn'.place = "noting"
    <3>1. turn'.batch = Append(turn.batch, m) /\ m \notin ToSet(turn.batch)
      BY <1>4, <1>7, <2>3 DEF Batch
    <3>2. /\ turn'.batch \in Seq(Message) /\ IsInjective(turn'.batch)
          /\ Len(turn'.batch) = Len(turn.batch) + 1
          /\ ToSet(turn'.batch) = ToSet(turn.batch) \cup {m}
      BY <1>1, <2>1, <3>1, AppendFacts
    <3> QED
      BY <1>2, <2>3, <3>2, Bounds DEF Batch
  <2> QED
    BY <1>7, <2>2, <2>3
<1>9. Memory' = Memory
  BY <1>7 DEF Memory
<1>10. m # NoOne
  BY <1>1, Disjoint
<1>11. TypeOK'
  BY <1>1, <1>7, <1>8 DEF TypeOK
<1>12. TurnShape'
  BY <1>2, <1>7, <1>8, <1>10, EmptyFacts DEF TurnShape
<1>13. Known'
  BY <1>4, <1>5, <1>6, <1>7, <1>8, <1>9 DEF Known
<1>14. Apart'
  BY <1>1, <1>4, <1>5, <1>6, <1>7, <1>8, <1>9 DEF Apart
<1>15. Placed' /\ RoundsCounted'
  BY <1>2, <1>4, <1>5, <1>6, <1>7, <1>8, <1>9 DEF Placed, RoundsCounted
<1>16. Undelivered'
  BY <1>4, <1>5, <1>7 DEF Undelivered, TypeOK
<1>17. Heard'
  BY <1>4, <1>6, <1>7, <1>8, <1>9 DEF Heard, TypeOK
<1>18. Lossless'
  BY <1>2, <1>5, <1>6, <1>7, <1>8, <1>9, Disjoint DEF Lossless, TypeOK
<1> QED
  BY <1>11, <1>12, <1>13, <1>14, <1>15, <1>16, <1>17, <1>18

LEMMA InjectStep ==
  ASSUME IndInv, Inject
  PROVE  IndInv'
<1> USE DEF IndInv
<1> DEFINE answer == IF turn.purpose = "answer" THEN <<ThisRound>> ELSE <<>>
           final == IF turn.purpose = "limit" THEN <<ThisRound>> ELSE <<>>
<1>1. /\ turn.place \in {"draining", "blocked"} /\ turn.purpose \in Injecting
      /\ turn.item = NoOne /\ lock # NoOne
      /\ turn.cycles < MaxCycles /\ (turn.purpose = "answer" => turn.rounds < MaxRounds)
  BY DEF Inject, DrainOver, TurnShape
<1>2. /\ ThisRound \in Work /\ ThisRound \notin Told \cup Memory \cup Batch
      /\ ThisRound.turn = lock /\ ThisRound.round = turn.rounds + 1
      /\ lock \in sent \ Waiting
  BY <1>1, NewRound DEF Midway
<1>3. /\ turn.batch \in Seq(Message \cup Work) /\ IsInjective(turn.batch)
      /\ turn.memory \in Seq(Message \cup Work) /\ IsInjective(turn.memory)
  BY DEF TypeOK, Apart
<1>4. /\ answer \in Seq(Message \cup Work) /\ IsInjective(answer)
      /\ ToSet(answer) = (IF turn.purpose = "answer" THEN {ThisRound} ELSE {})
      /\ Len(answer) = (IF turn.purpose = "answer" THEN 1 ELSE 0)
      /\ answer = <<>> <=> turn.purpose # "answer"
  <2>1. CASE turn.purpose = "answer"
    BY <1>2, <2>1, SingleFacts
  <2>2. CASE turn.purpose # "answer"
    BY <2>2, EmptyFacts
  <2> QED
    BY <2>1, <2>2
<1>5. /\ final \in Seq(Message \cup Work) /\ IsInjective(final)
      /\ ToSet(final) = (IF turn.purpose = "limit" THEN {ThisRound} ELSE {})
  <2>1. CASE turn.purpose = "limit"
    BY <1>2, <2>1, SingleFacts
  <2>2. CASE turn.purpose # "limit"
    BY <2>2, EmptyFacts
  <2> QED
    BY <2>1, <2>2
<1>6. /\ turn' = [turn EXCEPT !.memory = @ \o answer \o turn.batch \o final,
                     !.batch = <<>>, !.rounds = @ + Len(answer), !.cycles = @ + 1,
                     !.place = IF turn.purpose = "limit" THEN "saving" ELSE "running"]
      /\ checkpoint' = IF answer = <<>> THEN checkpoint ELSE answer
      /\ UNCHANGED <<mailVars, history, phase, child, stopping, dropped, boundVars>>
  BY DEF Inject
<1> HIDE DEF answer, final
<1>7. /\ turn.memory \o answer \o turn.batch \o final \in Seq(Message \cup Work)
      /\ IsInjective(turn.memory \o answer \o turn.batch \o final)
      /\ ToSet(turn.memory \o answer \o turn.batch \o final)
           = Memory \cup Batch \cup ToSet(answer) \cup ToSet(final)
  <2> DEFINE one == turn.memory \o answer
             two == one \o turn.batch
  <2>1. /\ one \in Seq(Message \cup Work) /\ IsInjective(one)
        /\ ToSet(one) = Memory \cup ToSet(answer)
    BY <1>2, <1>3, <1>4, ConcatFacts DEF Memory
  <2> HIDE DEF one
  <2>2. /\ two \in Seq(Message \cup Work) /\ IsInjective(two)
        /\ ToSet(two) = Memory \cup ToSet(answer) \cup Batch
    <3>1. ToSet(one) \cap ToSet(turn.batch) = {}
      BY <1>2, <1>4, <2>1 DEF Batch, Apart
    <3> QED
      BY <1>3, <2>1, <3>1, ConcatFacts DEF Batch
  <2> HIDE DEF two
  <2>3. /\ two \o final \in Seq(Message \cup Work) /\ IsInjective(two \o final)
        /\ ToSet(two \o final) = ToSet(two) \cup ToSet(final)
    <3>1. ToSet(two) \cap ToSet(final) = {}
      BY <1>2, <1>4, <1>5, <2>2
    <3> QED
      BY <1>5, <2>2, <3>1, ConcatFacts
  <2> QED
    BY <2>2, <2>3 DEF one, two
<1>8. /\ turn' \in TurnState
      /\ turn'.place = (IF turn.purpose = "limit" THEN "saving" ELSE "running")
      /\ turn'.purpose = turn.purpose /\ turn'.item = NoOne
      /\ turn'.rounds = turn.rounds + (IF turn.purpose = "answer" THEN 1 ELSE 0)
      /\ turn'.batch = <<>>
      /\ turn'.memory = turn.memory \o answer \o turn.batch \o final
  <2>1. turn \in TurnState /\ <<>> \in Seq(Message)
    BY DEF TypeOK
  <2>2. turn.cycles + 1 \in 0..MaxCycles
    BY <1>1, <2>1, Bounds
  <2>3. turn.rounds + Len(answer) \in 0..MaxRounds
    BY <1>1, <1>4, <2>1, Bounds
  <2> QED
    BY <1>1, <1>4, <1>6, <1>7, <2>1, <2>2, <2>3 DEF Places
<1>9. /\ Batch' = {} /\ IsInjective(turn'.batch) /\ IsInjective(turn'.memory)
      /\ Memory' = Memory \cup Batch \cup ToSet(answer) \cup ToSet(final)
  BY <1>7, <1>8, EmptyFacts DEF Batch, Memory
<1>10. UNCHANGED <<Told, Waiting, ToSet(bus), ToSet(line), ToSet(pending)>>
  BY <1>6 DEF Told, Waiting
<1>11. /\ checkpoint' \in {<<>>} \cup {<<w>> : w \in Work}
       /\ Saved' = (IF turn.purpose = "answer" THEN {ThisRound} ELSE Saved)
  <2>1. CASE turn.purpose = "answer"
    <3>1. checkpoint' = <<ThisRound>>
      BY <1>4, <1>6, <2>1 DEF answer
    <3> QED
      BY <1>2, <2>1, <3>1, SingleFacts DEF Saved
  <2>2. CASE turn.purpose # "answer"
    BY <1>4, <1>6, <2>2 DEF Saved, TypeOK
  <2> QED
    BY <2>1, <2>2
<1>12. TypeOK'
  <2>1. Len(turn'.batch) <= DrainLimit
    BY <1>8, Bounds
  <2> QED
    BY <1>6, <1>8, <1>11, <2>1 DEF TypeOK
<1>13. TurnShape'
  BY <1>1, <1>6, <1>8 DEF TurnShape
<1>14. Known'
  <2>1. Memory' \cap Message \subseteq (Memory \cap Message) \cup Batch
    BY <1>2, <1>4, <1>5, <1>9, Disjoint
  <2> QED
    BY <1>1, <1>6, <1>8, <1>9, <1>10, <2>1 DEF Known
<1>15. Apart'
  <2>1. Waiting \cap Memory' = {}
    BY <1>2, <1>4, <1>5, <1>9, Disjoint, Empty DEF Apart
  <2>2. Told \cap Memory' = {} /\ Told \cap Saved' = {}
    BY <1>2, <1>4, <1>5, <1>9, <1>11 DEF Apart
  <2> QED
    BY <1>1, <1>6, <1>8, <1>9, <1>10, <2>1, <2>2 DEF Apart
<1>16. Placed'
  BY <1>1, <1>6, <1>8, <1>10 DEF Placed
<1>17. RoundsCounted'
  <2>1. /\ turn.rounds \in Int /\ turn'.rounds \in Int /\ turn.rounds <= turn'.rounds
        /\ \A w \in Work : w.round \in Int
    <3>1. turn.rounds \in Int /\ \A w \in Work : w.round \in Int
      BY Bounds DEF TypeOK, Work
    <3> QED
      BY <1>8, <3>1
  <2>2. ASSUME NEW w \in (Told' \cup Memory' \cup Saved') \cap Work
        PROVE  \/ w = ThisRound /\ turn.purpose \in {"answer", "limit"}
               \/ w \in (Told \cup Memory \cup Saved) \cap Work
    BY <1>4, <1>5, <1>9, <1>10, <1>11, Disjoint, Empty
  <2>3. ASSUME NEW w \in (Told' \cup Memory' \cup Saved') \cap Work
        PROVE  /\ w.turn \in sent \ Waiting
               /\ w.turn = lock /\ turn.purpose # "limit" => w.round <= turn'.rounds
    <3>1. CASE w = ThisRound /\ turn.purpose \in {"answer", "limit"}
      BY <1>2, <1>8, <2>1, <3>1
    <3>2. CASE w \in (Told \cup Memory \cup Saved) \cap Work
      BY <1>1, <2>1, <3>2 DEF RoundsCounted
    <3> QED
      BY <2>2, <3>1, <3>2
  <2>4. \A w \in Saved' : w.turn = lock
    BY <1>1, <1>2, <1>11 DEF RoundsCounted
  <2>5. \A w \in Memory' \cap Work : w.turn = lock
    BY <1>2, <1>4, <1>5, <1>9, Disjoint, Empty DEF RoundsCounted
  <2> QED
    BY <1>6, <1>8, <1>10, <2>3, <2>4, <2>5 DEF RoundsCounted
<1>18. Undelivered' /\ Heard' /\ Lossless'
  BY <1>1, <1>6, <1>8, <1>9, <1>10 DEF Undelivered, Heard, Lossless
<1> QED
  BY <1>12, <1>13, <1>14, <1>15, <1>16, <1>17, <1>18

LEMMA FinishStep ==
  ASSUME IndInv, Finish
  PROVE  IndInv'
<1> USE DEF IndInv, Finish
<1>1. /\ turn.place \in {"draining", "blocked", "drained"}
      /\ turn.item = NoOne /\ lock # NoOne
  BY DEF DrainOver, TurnShape
<1>2. /\ ThisRound \in Work /\ ThisRound \notin Told \cup Memory \cup Batch
      /\ ThisRound.turn = lock /\ lock \in sent \ Waiting
  BY <1>1, NewRound DEF Midway
<1>3. /\ turn'.memory \in Seq(Message \cup Work) /\ IsInjective(turn'.memory)
      /\ Memory' = Memory \cup {ThisRound}
      /\ turn'.memory = Append(turn.memory, ThisRound)
  <2>1. turn.memory \in Seq(Message \cup Work) /\ IsInjective(turn.memory)
    BY DEF TypeOK, Apart
  <2>2. turn'.memory = Append(turn.memory, ThisRound)
    BY DEF TypeOK
  <2> QED
    BY <1>2, <2>1, <2>2, AppendFacts DEF Memory
<1>4. /\ turn' \in TurnState /\ turn'.place = "saving" /\ turn'.purpose = turn.purpose
      /\ turn'.item = NoOne /\ turn'.batch = <<>> /\ turn.batch = <<>>
  <2>1. turn \in TurnState
    BY DEF TypeOK
  <2> QED
    BY <1>1, <1>3, <2>1 DEF Places
<1>5. UNCHANGED <<Told, Batch, Waiting, ToSet(bus), ToSet(line), ToSet(pending)>>
  BY <1>4 DEF Told, Batch, Waiting
<1>6. /\ checkpoint' \in {<<>>} \cup {<<w>> : w \in Work}
      /\ Saved' = Saved \/ Saved' = {ThisRound}
  <2>1. CASE turn.purpose = "answer"
    BY <1>2, <2>1, SingleFacts DEF Saved
  <2>2. CASE turn.purpose # "answer"
    BY <2>2 DEF Saved, TypeOK
  <2> QED
    BY <2>1, <2>2
<1>7. TypeOK'
  BY <1>4, <1>6 DEF TypeOK
<1>8. TurnShape' /\ Known'
  BY <1>1, <1>2, <1>3, <1>4, <1>5, Disjoint DEF TurnShape, Known
<1>9. Apart'
  BY <1>1, <1>2, <1>3, <1>4, <1>5, <1>6, Disjoint, Empty DEF Apart
<1>10. Placed' /\ RoundsCounted'
  BY <1>1, <1>2, <1>3, <1>4, <1>5, <1>6 DEF Placed, RoundsCounted
<1>11. Undelivered' /\ Heard' /\ Lossless'
  BY <1>1, <1>3, <1>4, <1>5 DEF Undelivered, Heard, Lossless
<1> QED
  BY <1>7, <1>8, <1>9, <1>10, <1>11

LEMMA SaveStep ==
  ASSUME IndInv, Save
  PROVE  IndInv'
<1> USE DEF IndInv, Save
<1>1. turn.item = NoOne /\ lock # NoOne /\ turn.batch = <<>> /\ lock \in Told
  BY DEF TurnShape, Placed
<1>2. /\ history' \in Seq(Message \cup Work) /\ IsInjective(history')
      /\ Told' = Told \cup Memory
  <2>1. /\ history \in Seq(Message \cup Work) /\ IsInjective(history)
        /\ turn.memory \in Seq(Message \cup Work) /\ IsInjective(turn.memory)
        /\ ToSet(history) \cap ToSet(turn.memory) = {}
    BY DEF TypeOK, Apart, Told, Memory
  <2> QED
    BY <2>1, ConcatFacts DEF Told, Memory
<1>3. /\ turn' \in TurnState /\ turn'.place = "ending" /\ turn'.purpose = turn.purpose
      /\ turn'.item = NoOne /\ turn'.batch = <<>> /\ turn'.memory = <<>>
  <2>1. turn \in TurnState /\ <<>> \in Seq(Message \cup Work)
    BY DEF TypeOK
  <2> QED
    BY <1>1, <2>1 DEF Places
<1>4. UNCHANGED <<Batch, Waiting, ToSet(bus), ToSet(line), ToSet(pending)>>
  BY <1>1, <1>3 DEF Batch, Waiting
<1>5. Memory' = {} /\ Saved' = {} /\ Batch' = {} /\ IsInjective(turn'.memory)
  BY <1>3, EmptyFacts DEF Memory, Saved, Batch
<1>6. TypeOK'
  BY <1>1, <1>2, <1>3, Bounds DEF TypeOK
<1>7. TurnShape' /\ Known'
  BY <1>1, <1>2, <1>3, <1>4, <1>5 DEF TurnShape, Known
<1>8. Apart'
  BY <1>1, <1>2, <1>3, <1>4, <1>5 DEF Apart
<1>9. Placed' /\ RoundsCounted'
  BY <1>1, <1>2, <1>3, <1>4, <1>5 DEF Placed, RoundsCounted
<1>10. Undelivered' /\ Heard' /\ Lossless'
  BY <1>1, <1>2, <1>3, <1>4, <1>5 DEF Undelivered, Heard, Lossless
<1> QED
  BY <1>6, <1>7, <1>8, <1>9, <1>10

-----------------------------------------------------------------------------
(* What goes wrong. *)

\* A drain gives up: what it had collected is lost, the turn goes on.
LEMMA BatchGivenUp ==
  ASSUME IndInv, GiveUpBatch, Drawn, turn.place # "claiming", history' = history,
         UNCHANGED <<mailVars, checkpoint, child, stopping, stops, crashes>>,
         faults' \in Nat,
         phase' \in [Result -> {"none", "ready", "claimed", "delivered", "failed"}],
         \A r \in Result : phase'[r] # phase[r] => phase'[r] = "failed"
  PROVE  IndInv'
<1> USE DEF IndInv, GiveUpBatch
<1>1. lock # NoOne /\ turn.item # NoOne /\ turn.item \in Batch
  BY DEF TurnShape, Placed
<1>2. /\ turn' \in TurnState /\ turn'.place = "drained" /\ turn'.purpose = turn.purpose
      /\ turn'.item = NoOne /\ turn'.batch = <<>> /\ turn'.memory = turn.memory
      /\ turn'.rounds = turn.rounds
  <2>1. turn \in TurnState /\ <<>> \in Seq(Message)
    BY DEF TypeOK
  <2> QED
    BY <2>1 DEF Places
<1>3. UNCHANGED <<Told, Memory, Saved, Waiting, ToSet(bus), ToSet(line), ToSet(pending)>>
  BY <1>2 DEF Told, Memory, Saved, Waiting
<1>4. Batch' = {} /\ IsInjective(turn'.batch)
  BY <1>2, EmptyFacts DEF Batch
<1>5. dropped' = dropped \cup (Batch \ Told)
  BY <1>1, <1>3 DEF Lose, Batch, Told
<1>6. TypeOK'
  <2>1. dropped' \subseteq Message
    BY <1>5, Empty DEF TypeOK
  <2>2. Len(turn'.batch) <= DrainLimit
    BY <1>2, Bounds
  <2> QED
    BY <1>2, <2>1, <2>2 DEF TypeOK
<1>7. TurnShape' /\ Known'
  BY <1>1, <1>2, <1>3, <1>4 DEF TurnShape, Known
<1>8. Apart'
  BY <1>2, <1>3, <1>4, Disjoint, Empty DEF Apart
<1>9. Placed' /\ RoundsCounted'
  BY <1>1, <1>2, <1>3, <1>4 DEF Placed, RoundsCounted
<1>10. Undelivered' /\ Heard'
  BY <1>3, <1>4, <1>5 DEF Undelivered, Heard
<1>11. Lossless'
  BY <1>1, <1>2, <1>3, <1>4, <1>5 DEF Lossless
<1> QED
  BY <1>6, <1>7, <1>8, <1>9, <1>10, <1>11

\* A turn gives up: what it held and has not saved is lost.
LEMMA TurnGivenUp ==
  ASSUME IndInv, GiveUpTurn, history' = history,
         \/ Built /\ turn.place # "claiming"
         \/ turn.place \in {"running", "calling"},
         UNCHANGED <<mailVars, checkpoint, child, stopping, stops, crashes>>,
         faults' \in Nat,
         phase' \in [Result -> {"none", "ready", "claimed", "delivered", "failed"}],
         \A r \in Result : phase'[r] # phase[r] => phase'[r] = "failed"
  PROVE  IndInv'
<1> USE DEF IndInv, GiveUpTurn
<1>1. /\ lock # NoOne /\ lock \in Message /\ turn.batch = <<>> /\ lock \in Told
      /\ turn.item \in {NoOne, lock}
  BY DEF TurnShape, Placed, TypeOK
<1>2. /\ turn' \in TurnState /\ turn'.place = "ending" /\ turn'.purpose = turn.purpose
      /\ turn'.item = NoOne /\ turn'.batch = <<>> /\ turn'.memory = <<>>
  <2>1. turn \in TurnState /\ <<>> \in Seq(Message \cup Work)
    BY DEF TypeOK
  <2> QED
    BY <1>1, <2>1 DEF Places
<1>3. UNCHANGED <<Told, Saved, Waiting, ToSet(bus), ToSet(line), ToSet(pending)>>
  BY <1>2 DEF Told, Saved, Waiting
<1>4. /\ Batch = {} /\ Batch' = {} /\ Memory' = {}
      /\ IsInjective(turn'.batch) /\ IsInjective(turn'.memory)
  BY <1>1, <1>2, EmptyFacts DEF Batch, Memory
<1>5. dropped' = dropped \cup (Memory \cap Message)
  BY <1>1, <1>3, <1>4 DEF Lose, Held, Batch, Memory, Told, Apart
<1>6. TypeOK'
  BY <1>2, <1>5, Bounds DEF TypeOK
<1>7. TurnShape' /\ Known'
  BY <1>1, <1>2, <1>3, <1>4 DEF TurnShape, Known
<1>8. Apart'
  BY <1>2, <1>3, <1>4, Disjoint, Empty DEF Apart
<1>9. Placed' /\ RoundsCounted'
  BY <1>1, <1>2, <1>3, <1>4 DEF Placed, RoundsCounted
<1>10. Undelivered' /\ Heard'
  BY <1>3, <1>4, <1>5, Disjoint DEF Undelivered, Heard
<1>11. Lossless'
  BY <1>1, <1>2, <1>3, <1>4, <1>5 DEF Lossless, TypeOK
<1> QED
  BY <1>6, <1>7, <1>8, <1>9, <1>10, <1>11

LEMMA ConfirmFailsStep ==
  ASSUME IndInv, ConfirmFails
  PROVE  IndInv'
<1> USE DEF ConfirmFails, Fault, GiveUp
<1>1. phase' \in [Result -> {"none", "ready", "claimed", "delivered", "failed"}]
  BY DEF IndInv, TypeOK
<1>2. \A r \in Result : phase'[r] # phase[r] => phase'[r] = "failed"
  BY DEF IndInv, TypeOK
<1>3. faults' \in Nat
  BY DEF IndInv, TypeOK
<1>4. CASE Built
  BY <1>1, <1>2, <1>3, <1>4, TurnGivenUp
<1>5. CASE Drawn
  BY <1>1, <1>2, <1>3, <1>5, BatchGivenUp
<1> QED
  BY <1>4, <1>5 DEF IndInv, TurnShape

LEMMA GoalMarkFailsStep ==
  ASSUME IndInv, GoalMarkFails
  PROVE  IndInv'
<1> USE DEF GoalMarkFails, Fault, GiveUp
<1>1. phase' \in [Result -> {"none", "ready", "claimed", "delivered", "failed"}]
  BY DEF IndInv, TypeOK
<1>2. faults' \in Nat
  BY DEF IndInv, TypeOK
<1>3. CASE Built
  BY <1>1, <1>2, <1>3, TurnGivenUp
<1>4. CASE Drawn
  BY <1>1, <1>2, <1>4, BatchGivenUp
<1> QED
  BY <1>3, <1>4 DEF IndInv, TurnShape

LEMMA RunFailsStep ==
  ASSUME IndInv, RunFails
  PROVE  IndInv'
<1>1. phase' \in [Result -> {"none", "ready", "claimed", "delivered", "failed"}]
  BY DEF RunFails, IndInv, TypeOK
<1>2. faults' \in Nat
  BY DEF RunFails, Fault, IndInv, TypeOK
<1> QED
  BY <1>1, <1>2, TurnGivenUp DEF RunFails

LEMMA DrawFailsStep ==
  ASSUME IndInv, DrawFails
  PROVE  IndInv'
<1> USE DEF IndInv, DrawFails, Fault
<1> DEFINE m == Head(pending)
<1>1. /\ m \in Message /\ pending' \in Seq(Message) /\ Len(pending') <= QueueSize
      /\ ToSet(pending) = ToSet(pending') \cup {m}
      /\ IsInjective(pending') /\ m \notin ToSet(pending')
  <2>1. /\ pending \in Seq(Message) /\ pending # <<>> /\ IsInjective(pending)
        /\ Len(pending) \in Nat /\ Len(pending) <= QueueSize
    BY DEF TypeOK, Apart, DrainMore
  <2>2. pending' = Tail(pending)
    OBVIOUS
  <2>3. Len(pending') = Len(pending) - 1
    BY <2>1, <2>2, TailFacts
  <2> QED
    BY <2>1, <2>2, <2>3, TailFacts, Bounds
<1>2. m \in sent /\ m \notin ToSet(bus) /\ m \notin ToSet(line) /\ m \notin Told
  BY <1>1 DEF Apart, Known, Waiting
<1>3. dropped' = dropped \cup ((Batch \cup {m}) \ Told)
  BY DEF Lose, Batch, Told
<1>4. /\ turn' \in TurnState /\ turn'.place = "drained" /\ turn'.purpose = turn.purpose
      /\ turn'.item = NoOne /\ turn.item = NoOne /\ lock # NoOne
      /\ turn'.batch = <<>> /\ turn'.memory = turn.memory
      /\ turn'.rounds = turn.rounds
  <2>1. turn \in TurnState /\ <<>> \in Seq(Message)
    BY DEF TypeOK
  <2> QED
    BY <2>1 DEF Places, TurnShape
<1> HIDE DEF m
<1>5. Waiting = Waiting' \cup {m} /\ m \notin Waiting'
  BY <1>1, <1>2 DEF Waiting
<1>6. UNCHANGED <<Told, Memory, Saved, ToSet(bus), ToSet(line)>>
  BY <1>4 DEF Told, Memory, Saved
<1>7. Batch' = {} /\ IsInjective(turn'.batch)
  BY <1>4, EmptyFacts DEF Batch
<1>8. TypeOK'
  <2>1. dropped' \subseteq Message
    BY <1>1, <1>3, Empty DEF TypeOK
  <2>2. Len(turn'.batch) <= DrainLimit
    BY <1>4, Bounds
  <2>3. /\ TypeOK
        /\ UNCHANGED <<sent, bus, line, routed, lock, history, checkpoint, phase, child,
                       stopping, stops, crashes>>
        /\ faults' \in Nat
    BY DEF TypeOK
  <2> HIDE DEF IndInv, DrawFails, Fault
  <2> QED
    BY <1>1, <1>4, <2>1, <2>2, <2>3 DEF TypeOK
<1>9. TurnShape'
  BY <1>1, <1>4 DEF TurnShape, DrainMore
<1>10. Known'
  BY <1>4, <1>5, <1>6, <1>7 DEF Known
<1>11. Apart'
  BY <1>1, <1>4, <1>5, <1>6, <1>7, Disjoint, Empty DEF Apart
<1>12. Placed' /\ RoundsCounted'
  BY <1>4, <1>5, <1>6, <1>7 DEF Placed, RoundsCounted
<1>13. Undelivered' /\ Heard'
  BY <1>3, <1>5, <1>6, <1>7 DEF Undelivered, Heard
<1>14. Lossless'
  BY <1>3, <1>4, <1>5, <1>6, <1>7 DEF Lossless
<1> QED
  BY <1>8, <1>9, <1>10, <1>11, <1>12, <1>13, <1>14

LEMMA StopStep ==
  ASSUME IndInv, Stop
  PROVE  IndInv'
<1> USE DEF IndInv, Stop
<1>1. /\ line' = <<>> /\ ToSet(line') = {} /\ IsInjective(line')
      /\ stops' \in Nat /\ stopping' = TRUE
  BY EmptyFacts DEF TypeOK
<1>2. CASE turn.place \in Suspended
  <2>1. /\ history' \in Seq(Message \cup Work) /\ IsInjective(history')
        /\ Told' \subseteq Told \cup Saved /\ Told \subseteq Told'
    BY <1>2, RestoredFacts DEF Told
  <2>2. /\ bus' \in Seq(Message) /\ ToSet(bus') = ToSet(bus) \cup ToSet(pending)
        /\ IsInjective(bus')
    <3>1. /\ bus \in Seq(Message) /\ IsInjective(bus)
          /\ pending \in Seq(Message) /\ IsInjective(pending)
          /\ ToSet(bus) \cap ToSet(pending) = {}
      BY DEF TypeOK, Apart
    <3>2. bus' = bus \o pending
      BY <1>2
    <3> QED
      BY <3>1, <3>2, ConcatFacts
  <2>3. /\ turn' \in TurnState /\ turn'.place = "leaving" /\ turn'.purpose = "none"
        /\ turn'.item = NoOne /\ turn'.batch = <<>> /\ turn'.memory = <<>>
    <3>1. turn' = [NoTurn EXCEPT !.place = "leaving"]
      BY <1>2
    <3> QED
      BY <3>1, NewTurn DEF Places
  <2>4. /\ routed' = NoOne /\ pending' = <<>> /\ checkpoint' = <<>>
        /\ ToSet(pending') = {} /\ Saved' = {} /\ Memory' = {} /\ Batch' = {}
        /\ IsInjective(pending') /\ IsInjective(turn'.memory) /\ IsInjective(turn'.batch)
    BY <1>2, <2>3, EmptyFacts DEF Saved, Memory, Batch
  <2>5. Waiting = Waiting' \cup ToSet(line)
    BY <1>1, <2>2, <2>4 DEF Waiting
  <2>6. dropped' = dropped \cup ((ToSet(line) \cup Batch \cup (Memory \cap Message)
                                   \cup ({turn.item, lock} \ {NoOne})) \ Told')
    BY <1>2 DEF Lose, Held, Batch, Memory, Told
  <2>7. Told' \cap Message = Told \cap Message
    BY <2>1, Disjoint, Empty
  <2>8. TypeOK'
    <3>1. dropped' \subseteq Message
      BY <2>6, Empty DEF TypeOK, Waiting
    <3>2. Len(turn'.batch) <= DrainLimit /\ Len(pending') <= QueueSize
      BY <2>3, <2>4, Bounds
    <3> QED
      BY <1>1, <2>1, <2>2, <2>3, <2>4, <3>1, <3>2 DEF TypeOK
  <2>9. TurnShape' /\ Known'
    BY <1>2, <2>3, <2>4, <2>5, <2>7 DEF TurnShape, Known, Suspended
  <2>10. Apart'
    <3>1. Waiting' \cap Told' = {}
      BY <2>5, <2>7, Empty DEF Apart
    <3> QED
      BY <1>1, <2>1, <2>2, <2>3, <2>4, <2>5, <3>1, Disjoint, Empty DEF Apart
  <2>11. Placed'
    BY <1>2, <2>3, <2>6 DEF Placed, TurnShape, Suspended
  <2>12. RoundsCounted'
    BY <2>1, <2>3, <2>4, <2>5 DEF RoundsCounted
  <2>13. Undelivered' /\ Heard'
    BY <2>1, <2>4, <2>5, <2>6, Disjoint DEF Undelivered, Heard
  <2>14. Lossless'
    BY <2>1, <2>3, <2>4, <2>5, <2>6 DEF Lossless, TypeOK
  <2> QED
    BY <2>8, <2>9, <2>10, <2>11, <2>12, <2>13, <2>14
<1>3. CASE turn.place \notin Suspended
  <2>1. UNCHANGED <<sent, bus, lock, routed, pending, turn, history, checkpoint, phase, child,
                    crashes, faults>>
    BY <1>3
  <2>2. UNCHANGED <<Told, Memory, Batch, Saved, ToSet(bus), ToSet(pending)>>
    BY <2>1 DEF Told, Memory, Batch, Saved
  <2>3. Waiting = Waiting' \cup ToSet(line)
    BY <1>1, <2>2 DEF Waiting
  <2>4. dropped' = dropped \cup (ToSet(line) \ Told)
    BY <1>3, <2>1 DEF Lose, Told
  <2>5. TypeOK'
    <3>1. dropped' \subseteq Message
      BY <2>4, Empty DEF TypeOK, Waiting
    <3> QED
      BY <1>1, <2>1, <3>1 DEF TypeOK
  <2>6. TurnShape' /\ Known'
    BY <2>1, <2>2, <2>3 DEF TurnShape, Known
  <2>7. Apart'
    BY <1>1, <2>1, <2>2, <2>3 DEF Apart
  <2>8. Placed' /\ RoundsCounted'
    BY <2>1, <2>2, <2>3, <2>4 DEF Placed, RoundsCounted
  <2>9. Undelivered' /\ Heard' /\ Lossless'
    BY <2>1, <2>2, <2>3, <2>4 DEF Undelivered, Heard, Lossless
  <2> QED
    BY <2>5, <2>6, <2>7, <2>8, <2>9
<1> QED
  BY <1>2, <1>3

LEMMA StoppedStep ==
  ASSUME IndInv, Stopped
  PROVE  IndInv'
<1> USE DEF IndInv, Stopped
<1>1. UNCHANGED <<routed, pending>>
  BY DEF TurnShape
<1>2. UNCHANGED <<Told, Memory, Batch, Saved, Waiting, ToSet(bus), ToSet(line), ToSet(pending)>>
  BY <1>1 DEF Told, Memory, Batch, Saved, Waiting
<1>3. TypeOK'
  BY <1>1 DEF TypeOK
<1>4. TurnShape' /\ Known'
  BY <1>1, <1>2 DEF TurnShape, Known
<1>5. Apart'
  BY <1>1, <1>2 DEF Apart
<1>6. Placed' /\ RoundsCounted'
  BY <1>2 DEF Placed, RoundsCounted
<1>7. Undelivered' /\ Heard' /\ Lossless'
  BY <1>2 DEF Undelivered, Heard, Lossless
<1> QED
  BY <1>3, <1>4, <1>5, <1>6, <1>7

LEMMA CrashStep ==
  ASSUME IndInv, Crash
  PROVE  IndInv'
<1> USE DEF IndInv, Crash
<1>1. /\ turn' \in TurnState /\ turn'.place = "none" /\ turn'.item = NoOne
      /\ turn'.batch = <<>> /\ turn'.memory = <<>>
  BY NewTurn DEF Places
<1>2. /\ Waiting' = {} /\ ToSet(bus') = {} /\ ToSet(line') = {} /\ ToSet(pending') = {}
      /\ Memory' = {} /\ Batch' = {}
      /\ IsInjective(bus') /\ IsInjective(line') /\ IsInjective(pending')
      /\ IsInjective(turn'.memory) /\ IsInjective(turn'.batch)
  BY <1>1, EmptyFacts DEF Waiting, Memory, Batch
<1>3. UNCHANGED <<Told, Saved>>
  BY DEF Told, Saved
<1>4. dropped' = dropped \cup ((Waiting \cup Batch \cup (Memory \cap Message)
                                 \cup ({turn.item, lock} \ {NoOne})) \ Told)
  BY <1>3 DEF Lose, Held, Waiting, Batch, Memory, Told
<1>5. TypeOK'
  <2>1. dropped' \subseteq Message /\ crashes' \in Nat
    BY <1>4, Empty DEF TypeOK
  <2>2. Len(turn'.batch) <= DrainLimit /\ Len(pending') <= QueueSize
    BY <1>1, Bounds
  <2> QED
    BY <1>1, <2>1, <2>2 DEF TypeOK
<1>6. TurnShape' /\ Known'
  BY <1>1, <1>2, <1>3 DEF TurnShape, Known
<1>7. Apart'
  BY <1>1, <1>2, <1>3 DEF Apart
<1>8. Placed' /\ RoundsCounted'
  BY <1>1, <1>2, <1>3, Disjoint DEF Placed, RoundsCounted, TypeOK
<1>9. Undelivered' /\ Heard'
  BY <1>2, <1>3, <1>4, Disjoint DEF Undelivered, Heard
<1>10. Lossless'
  BY <1>1, <1>2, <1>3, <1>4 DEF Lossless, TypeOK
<1> QED
  BY <1>5, <1>6, <1>7, <1>8, <1>9, <1>10

-----------------------------------------------------------------------------
(* The theorems. *)

LEMMA InitInd == Init => IndInv
<1> SUFFICES ASSUME Init PROVE IndInv
  OBVIOUS
<1> USE DEF Init
<1>1. /\ Waiting = {} /\ Told = {} /\ Memory = {} /\ Batch = {} /\ Saved = {}
      /\ ToSet(bus) = {} /\ ToSet(line) = {} /\ ToSet(pending) = {}
  BY EmptyFacts DEF Waiting, Told, Memory, Batch, Saved
<1>2. /\ turn \in TurnState /\ turn.place = "none" /\ turn.item = NoOne
      /\ turn.batch = <<>> /\ turn.memory = <<>>
  <2>1. "none" \in Places
    BY DEF Places
  <2>2. [NoTurn EXCEPT !.place = "none"] \in TurnState
    BY <2>1, NewTurn
  <2>3. turn = [NoTurn EXCEPT !.place = "none"]
    OBVIOUS
  <2>4. turn \in TurnState
    BY <2>2, <2>3
  <2> QED
    BY <2>4
<1>3. TypeOK
  <2>1. Len(turn.batch) <= DrainLimit /\ Len(pending) <= QueueSize
    BY <1>2, Bounds
  <2>2. /\ phase \in [Result -> {"none", "ready", "claimed", "delivered", "failed"}]
        /\ child \in [Result -> {"running", "announcing", "gone"}]
    OBVIOUS
  <2>3. /\ bus \in Seq(Message) /\ line \in Seq(Message) /\ pending \in Seq(Message)
        /\ history \in Seq(Message \cup Work)
    OBVIOUS
  <2>4. /\ sent \subseteq Message /\ dropped \subseteq Message
        /\ lock \in Message \cup {NoOne} /\ routed \in {NoOne, lock}
        /\ checkpoint \in {<<>>} \cup {<<w>> : w \in Work}
    OBVIOUS
  <2>5. stopping \in BOOLEAN
    OBVIOUS
  <2>6. {stops, crashes, faults} \subseteq Nat
    OBVIOUS
  <2> HIDE DEF Init
  <2> QED
    BY <1>2, <2>1, <2>2, <2>3, <2>4, <2>5, <2>6 DEF TypeOK
<1>4. TurnShape /\ Known /\ Placed
  BY <1>1, <1>2 DEF TurnShape, Known, Placed
<1>5. Apart
  BY <1>1, <1>2, EmptyFacts DEF Apart
<1>6. RoundsCounted
  BY <1>1, <1>2 DEF RoundsCounted
<1>7. Undelivered /\ Heard /\ Lossless
  BY <1>1, <1>2 DEF Undelivered, Heard, Lossless
<1> QED
  BY <1>3, <1>4, <1>5, <1>6, <1>7 DEF IndInv

LEMMA StutterInd ==
  ASSUME IndInv, UNCHANGED vars
  PROVE  IndInv'
<1> USE DEF IndInv, vars
<1>1. UNCHANGED <<Told, Memory, Batch, Saved, Waiting, ToSet(bus), ToSet(line), ToSet(pending)>>
  BY DEF Told, Memory, Batch, Saved, Waiting
<1>2. TypeOK' /\ TurnShape' /\ Known' /\ Placed'
  BY <1>1 DEF TypeOK, TurnShape, Known, Placed
<1>3. Apart' /\ RoundsCounted'
  BY <1>1 DEF Apart, RoundsCounted
<1>4. Undelivered' /\ Heard' /\ Lossless'
  BY <1>1 DEF Undelivered, Heard, Lossless
<1> QED
  BY <1>2, <1>3, <1>4

LEMMA NextInd == IndInv /\ [Next]_vars => IndInv'
<1> SUFFICES ASSUME IndInv, [Next]_vars PROVE IndInv'
  OBVIOUS
<1>1. ASSUME NEW u \in User, Write(u) PROVE IndInv'
  BY <1>1, WriteStep
<1>2. ASSUME NEW r \in Result, Ready(r) \/ Announce(r) PROVE IndInv'
  BY <1>2, ReadyStep, AnnounceStep
<1>3. CASE Route \/ Enter
  BY <1>3, RouteStep, EnterStep
<1>4. CASE TurnStep
  <2>1. CASE Restore \/ BuildUser \/ BuildResult \/ Take \/ Noted \/ Confirmed
    BY <2>1, RestoreStep, BuildUserStep, BuildResultStep, TakeStep, NotedStep, ConfirmedStep
  <2>2. CASE CallTools \/ ToolsReturn \/ Answer \/ Draw \/ Block \/ Inject
    BY <2>2, CallToolsStep, ToolsReturnStep, AnswerStep, DrawStep, BlockStep, InjectStep
  <2>3. CASE GoOn \/ Finish \/ Save \/ Close \/ Release
    BY <2>3, GoOnStep, FinishStep, SaveStep, CloseStep, ReleaseStep
  <2> QED
    BY <1>4, <2>1, <2>2, <2>3 DEF TurnStep
<1>5. CASE DrawFails \/ ConfirmFails \/ GoalMarkFails \/ RunFails
  BY <1>5, DrawFailsStep, ConfirmFailsStep, GoalMarkFailsStep, RunFailsStep
<1>6. CASE Stop \/ Stopped \/ Crash
  BY <1>6, StopStep, StoppedStep, CrashStep
<1>7. CASE UNCHANGED vars
  BY <1>7, StutterInd
<1> QED
  BY <1>1, <1>2, <1>3, <1>4, <1>5, <1>6, <1>7 DEF Next

LEMMA Invariance == Spec => []IndInv
<1>1. Init => IndInv
  BY InitInd
<1>2. IndInv /\ [Next]_vars => IndInv'
  BY NextInd
<1> QED
  BY <1>1, <1>2, PTL DEF Spec

\* The limits of queue, drains, cycles and rounds hold, and every variable stays in
\* its domain.
THEOREM DeliveryTypeCorrect == Spec => []TypeOK
<1>1. IndInv => TypeOK
  BY DEF IndInv
<1> QED
  BY <1>1, Invariance, PTL

\* Routing, draining, closing a queue and its limits lose no message (loop.py, run,
\* _dispatch, _drain_pending).
THEOREM NothingLost == Spec => []NoSilentLoss
<1>1. ASSUME IndInv PROVE NoSilentLoss
  <2>1. (IF routed = lock THEN ToSet(pending) ELSE {}) = ToSet(pending)
    <3>1. CASE routed = lock
      BY <3>1
    <3>2. CASE routed # lock
      BY <1>1, <3>2, EmptyFacts DEF IndInv, TypeOK, TurnShape
    <3> QED
      BY <3>1, <3>2
  <2> QED
    BY <1>1, <2>1 DEF IndInv, Lossless, NoSilentLoss, InFlight, Waiting, Told, Memory, Batch
<1> QED
  BY <1>1, Invariance, PTL

\* The elements of the whole conversation: what is saved and what the turn adds.
LEMMA Conversation ==
  ASSUME IndInv
  PROVE  /\ ToSet(history \o turn.memory \o turn.batch) = Told \cup Memory \cup Batch
         /\ IsInjective(history \o turn.memory \o turn.batch)
<1> DEFINE most == history \o turn.memory
<1>1. /\ history \in Seq(Message \cup Work) /\ turn.memory \in Seq(Message \cup Work)
      /\ turn.batch \in Seq(Message \cup Work)
  BY DEF IndInv, TypeOK
<1>2. /\ most \in Seq(Message \cup Work) /\ IsInjective(most)
      /\ ToSet(most) = Told \cup Memory
  BY <1>1, ConcatFacts DEF IndInv, Apart, Told, Memory
<1> HIDE DEF most
<1>3. ToSet(most) \cap ToSet(turn.batch) = {} /\ IsInjective(turn.batch)
  BY <1>2 DEF IndInv, Apart, Batch
<1>4. /\ ToSet(most \o turn.batch) = Told \cup Memory \cup Batch
      /\ IsInjective(most \o turn.batch)
  BY <1>1, <1>2, <1>3, ConcatFacts DEF Batch
<1> QED
  BY <1>4 DEF most

\* No message and no round of the model enters the conversation twice
\* (_restore_runtime_checkpoint, _persist_subagent_followup, _append_injection).
THEOREM HeardOnce == Spec => []ConversationOnce
<1>1. IndInv => ConversationOnce
  BY Conversation DEF ConversationOnce
<1> QED
  BY <1>1, Invariance, PTL

\* What the task store records as delivered is in the conversation or was dropped by a
\* fault; what opened a turn was saved before (mark_result_delivered's callers).
THEOREM DeliveredHeard == Spec => []DeliveredIsHeard
<1>1. IndInv => DeliveredIsHeard
  BY Conversation DEF IndInv, Heard, DeliveredIsHeard, Told
<1> QED
  BY <1>1, Invariance, PTL

\* What is behind a sequence that grew.
LEMMA Grown ==
  ASSUME NEW S, NEW s \in Seq(S), NEW t \in Seq(S),
         NEW i \in Len(s) + 1 .. Len(s \o t)
  PROVE  (s \o t)[i] \in ToSet(t)
<1>1. i - Len(s) \in DOMAIN t /\ (s \o t)[i] = t[i - Len(s)]
  OBVIOUS
<1> QED
  BY <1>1 DEF ToSet

OldFirst ==
  \A i \in Len(history) + 1 .. Len(history') :
    history'[i] \in Work /\ history'[i].turn # lock => lock \notin Told

LEMMA OldFirstStep ==
  ASSUME IndInv, [Next]_vars
  PROVE  OldFirst
<1>1. CASE history' = history
  <2>1. Len(history) + 1 .. Len(history') = {}
    BY <1>1 DEF IndInv, TypeOK
  <2> QED
    BY <2>1 DEF OldFirst
<1>2. ASSUME NEW t \in Seq(Message \cup Work), history' = history \o t,
             lock \in Told => \A w \in ToSet(t) \cap Work : w.turn = lock
      PROVE  OldFirst
  <2>1. history \in Seq(Message \cup Work)
    BY DEF IndInv, TypeOK
  <2> QED
    BY <1>2, <2>1, Grown DEF OldFirst
<1>3. CASE \E m \in Message : history' = Append(history, m)
  <2>1. PICK m \in Message : history' = Append(history, m)
    BY <1>3
  <2>2. history' = history \o <<m>> /\ <<m>> \in Seq(Message \cup Work)
    BY <2>1 DEF IndInv, TypeOK
  <2>3. ToSet(<<m>>) \cap Work = {}
    BY SingleFacts, Disjoint
  <2> QED
    BY <1>2, <2>2, <2>3
<1>4. CASE Save
  <2>1. history' = history \o turn.memory /\ turn.memory \in Seq(Message \cup Work)
    BY <1>4 DEF Save, IndInv, TypeOK
  <2>2. \A w \in ToSet(turn.memory) \cap Work : w.turn = lock
    BY DEF IndInv, RoundsCounted, Memory
  <2> QED
    BY <1>2, <2>1, <2>2
<1>5. ASSUME history' = Restored, turn.place # "none" PROVE OldFirst
  <2>1. history' = history \/ history' = history \o checkpoint
    BY <1>5 DEF Restored
  <2>2. checkpoint \in Seq(Message \cup Work)
    <3>1. CASE checkpoint = <<>>
      BY <3>1
    <3>2. CASE checkpoint # <<>>
      <4>1. PICK w \in Work : checkpoint = <<w>>
        BY <3>2 DEF IndInv, TypeOK
      <4> QED
        BY <4>1
    <3> QED
      BY <3>1, <3>2
  <2>3. lock \in Told => \A w \in ToSet(checkpoint) \cap Work : w.turn = lock
    BY <1>5 DEF IndInv, RoundsCounted, Placed, Saved
  <2> QED
    BY <1>1, <1>2, <2>1, <2>2, <2>3
<1>6. CASE Restore
  BY <1>5, <1>6 DEF Restore
<1>7. CASE Stop
  BY <1>1, <1>5, <1>7 DEF Stop, Suspended
<1>8. CASE BuildUser
  BY <1>3, <1>8, Disjoint DEF BuildUser
<1>9. CASE Take
  BY <1>1, <1>3, <1>9, Disjoint DEF Take, IndInv, TurnShape
<1> QED
  BY <1>1, <1>4, <1>6, <1>7, <1>8, <1>9
  DEF Next, TurnStep, vars, Write, Ready, Announce, Route, Enter, BuildResult, Noted,
      Confirmed, CallTools, ToolsReturn, Answer, Draw, Block, Inject, GoOn, Finish, Close,
      Release, DrawFails, ConfirmFails, GoalMarkFails, RunFails, Stopped, Crash

\* The round an interrupted turn left in its checkpoint gets into the history before the
\* message of the next turn does (_restore_runtime_checkpoint in _state_restore).
THEOREM OldRoundsPrecede == Spec => OldRoundsFirst
<1>1. IndInv /\ [Next]_vars => [OldFirst]_vars
  BY OldFirstStep
<1> QED
  BY <1>1, Invariance, PTL DEF Spec, OldRoundsFirst, OldFirst, Told
=============================================================================

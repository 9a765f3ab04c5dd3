-------------------------- MODULE TaskQueue_proofs --------------------------
(***************************************************************************)
(* Proofs about TaskQueue for any number of tasks, workers, retries and    *)
(* failures, and any size of a batch.                                      *)
(***************************************************************************)
EXTENDS TaskQueue, FiniteSetTheorems, WellFoundedInduction, TLAPS

Fated == finished \cup dropped \cup lost
InHand == {hand[w] : w \in {v \in Worker : at[v] = "run"}}
Delayed == scheduled \cup due

\* A task has been pushed, or is handled, with at least these attempts; or it
\* waits for a later attempt; or its fate is known.
Ahead(e) ==
    \/ \E x \in Members(ready) \cup InHand : x.task = e.task /\ x.attempts >= e.attempts
    \/ \E x \in Delayed : x.task = e.task /\ x.attempts > e.attempts
    \/ e.task \in Fated

\* What a worker is about to remove from the schedule has been pushed, or is on
\* from there.
PushedFirst ==
    \A w \in Worker : at[w] = "remove" => \A e \in Members(batch[w]) : Ahead(e)

Before(e) == e.task \in Handled => \A a \in 0..MaxRetries : a < e.attempts => runs[e.task][a] > 0

\* Who is at a later attempt has made the earlier ones.
AttemptsMade ==
    /\ \A e \in Members(ready) \cup Delayed : Before(e)
    /\ \A w \in Worker : \A e \in Members(batch[w]) : Before(e)
    /\ \A w \in Worker : at[w] = "run" =>
          hand[w] \in Entry /\ Before(hand[w]) /\ runs[hand[w].task][hand[w].attempts] > 0

\* A task that has a handler is given up only after every attempt was made.
DroppedAfterRetries ==
    \A t \in dropped \cap Handled, a \in 0..MaxRetries : runs[t][a] > 0

\* What is due became so one by one, and has a number of members.
Typed == TypeOK /\ IsFiniteSet(due)

IInv == Typed /\ Accounted /\ PushedFirst /\ AttemptsMade /\ DroppedAfterRetries

-----------------------------------------------------------------------------
(* Sequences and numbers. *)

LEMMA MembersOf ==
    ASSUME NEW S, NEW q \in Seq(S)
    PROVE  /\ Members(q) \subseteq S
           /\ \A r \in Seq(S) : Members(q \o r) = Members(q) \cup Members(r)
           /\ \A e \in S : Members(Append(q, e)) = Members(q) \cup {e}
           /\ q # <<>> => /\ Head(q) \in S /\ Tail(q) \in Seq(S)
                          /\ Members(q) = {Head(q)} \cup Members(Tail(q))
  <1>1. DOMAIN q = 1..Len(q) /\ Len(q) \in Nat
    OBVIOUS
  <1>2. Members(q) \subseteq S
    BY <1>1 DEF Members
  <1>3. ASSUME NEW r \in Seq(S) PROVE Members(q \o r) = Members(q) \cup Members(r)
    <2>1. DOMAIN r = 1..Len(r) /\ Len(r) \in Nat /\ DOMAIN (q \o r) = 1..(Len(q) + Len(r))
      BY <1>1
    <2>2. \A i \in 1..Len(q) : (q \o r)[i] = q[i]
      BY <1>1
    <2>3. \A i \in 1..Len(r) : (q \o r)[Len(q) + i] = r[i]
      BY <1>1, <2>1
    <2>4. Members(q \o r) \subseteq Members(q) \cup Members(r)
      <3> SUFFICES ASSUME NEW i \in 1..(Len(q) + Len(r)) PROVE (q \o r)[i] \in Members(q) \cup Members(r)
        BY <2>1 DEF Members
      <3>1. CASE i <= Len(q)
        BY <1>1, <2>2, <3>1 DEF Members
      <3>2. CASE i > Len(q)
        <4>1. i - Len(q) \in 1..Len(r) /\ i = Len(q) + (i - Len(q))
          BY <1>1, <2>1, <3>2
        <4>2. (q \o r)[i] = r[i - Len(q)]
          BY <2>3, <4>1
        <4> QED
          BY <2>1, <4>1, <4>2 DEF Members
      <3> QED
        BY <1>1, <3>1, <3>2
    <2>5. Members(q) \subseteq Members(q \o r)
      BY <1>1, <2>1, <2>2 DEF Members
    <2>6. Members(r) \subseteq Members(q \o r)
      <3> SUFFICES ASSUME NEW i \in 1..Len(r) PROVE r[i] \in Members(q \o r)
        BY <2>1 DEF Members
      <3>1. Len(q) + i \in DOMAIN (q \o r)
        BY <1>1, <2>1
      <3> QED
        BY <2>3, <3>1 DEF Members
    <2> QED
      BY <2>4, <2>5, <2>6
  <1>4. ASSUME NEW e \in S PROVE Members(Append(q, e)) = Members(q) \cup {e}
    <2>1. DOMAIN Append(q, e) = 1..(Len(q) + 1) /\ Append(q, e)[Len(q) + 1] = e
          /\ \A i \in 1..Len(q) : Append(q, e)[i] = q[i]
      BY <1>1
    <2>2. \A i \in 1..(Len(q) + 1) : i = Len(q) + 1 \/ i \in 1..Len(q)
      BY <1>1
    <2>3. Len(q) + 1 \in 1..(Len(q) + 1) /\ \A i \in 1..Len(q) : i \in 1..(Len(q) + 1)
      BY <1>1
    <2> QED
      BY <1>1, <2>1, <2>2, <2>3 DEF Members
  <1>5. ASSUME q # <<>>
        PROVE  /\ Head(q) \in S /\ Tail(q) \in Seq(S)
               /\ Members(q) = {Head(q)} \cup Members(Tail(q))
    <2>1. Head(q) \in S /\ Tail(q) \in Seq(S) /\ Head(q) = q[1] /\ Len(q) > 0
      BY <1>1, <1>5
    <2>2. DOMAIN Tail(q) = 1..(Len(q) - 1) /\ \A i \in 1..(Len(q) - 1) : Tail(q)[i] = q[i + 1]
      BY <1>1, <1>5, <2>1
    <2>3. Members(Tail(q)) \subseteq Members(q)
      <3> SUFFICES ASSUME NEW i \in 1..(Len(q) - 1) PROVE q[i + 1] \in Members(q)
        BY <2>2 DEF Members
      <3>1. i + 1 \in 1..Len(q)
        BY <1>1
      <3> QED
        BY <1>1, <3>1 DEF Members
    <2>4. Members(q) \subseteq {Head(q)} \cup Members(Tail(q))
      <3> SUFFICES ASSUME NEW i \in 1..Len(q) PROVE q[i] \in {Head(q)} \cup Members(Tail(q))
        BY <1>1 DEF Members
      <3>1. CASE i = 1
        BY <2>1, <3>1
      <3>2. CASE i # 1
        <4>1. i - 1 \in 1..(Len(q) - 1) /\ Tail(q)[i - 1] = q[i]
          BY <1>1, <2>2, <3>2
        <4> QED
          BY <2>2, <4>1 DEF Members
      <3> QED
        BY <3>1, <3>2
    <2>5. Head(q) \in Members(q)
      BY <1>1, <2>1 DEF Members
    <2> QED
      BY <2>1, <2>3, <2>4, <2>5
  <1> QED
    BY <1>2, <1>3, <1>4, <1>5

LEMMA AppendType == ASSUME NEW S, NEW q \in Seq(S), NEW e \in S PROVE Append(q, e) \in Seq(S)
  OBVIOUS

LEMMA ConcatType == ASSUME NEW S, NEW q \in Seq(S), NEW r \in Seq(S) PROVE q \o r \in Seq(S)
  OBVIOUS

LEMMA GreatestAttempt ==
    ASSUME NEW N \in Nat, NEW S \in SUBSET (0..N), S # {}
    PROVE  \E m \in S : \A n \in S : n <= m
  <1> DEFINE T == {k \in Nat : k <= N /\ N - k \in S}
  <1>1. T \subseteq Nat /\ T # {}
    <2>1. PICK n \in S : TRUE
      OBVIOUS
    <2>2. N - n \in Nat /\ N - n <= N /\ N - (N - n) = n
      BY <2>1
    <2> QED
      BY <2>1, <2>2
  <1>2. \E x \in T : \A y \in T : ~ (<<y, x>> \in OpToRel(<, Nat))
    BY <1>1, NatLessThanWellFounded, WFMin
  <1>3. PICK x \in T : \A y \in T : ~ (y < x)
    BY <1>1, <1>2 DEF OpToRel
  <1>4. \A n \in S : n <= N - x
    <2> SUFFICES ASSUME NEW n \in S PROVE n <= N - x
      OBVIOUS
    <2>1. N - n \in T
      OBVIOUS
    <2> QED
      BY <1>1, <1>3, <2>1
  <1> QED
    BY <1>3, <1>4

-----------------------------------------------------------------------------
(* Types. *)

LEMMA TypeInit == Init => Typed
  <1> SUFFICES ASSUME Init PROVE Typed
    OBVIOUS
  <1>1. <<>> \in Seq(Entry)
    OBVIOUS
  <1>2. runs \in [Task -> [0..MaxRetries -> Nat]]
    BY DEF Init
  <1> QED
    BY <1>1, <1>2, FS_EmptySet DEF Init, TypeOK, Typed

LEMMA TypeIngest ==
    ASSUME Typed, NEW t \in Task, Persist(t) \/ Enqueue(t) \/ IngestCut(t)
    PROVE  Typed' /\ UNCHANGED <<scheduled, due, at, batch, hand, fateVars>>
  <1>1. CASE Persist(t)
    BY <1>1 DEF Persist, TypeOK, Typed, redisVars, fateVars
  <1>2. CASE Enqueue(t)
    <2> DEFINE e == [task |-> t, attempts |-> 0]
    <2>1. e \in Entry
      BY BoundsAssumption DEF Entry
    <2>2. ready' = ready \/ ready' = Append(ready, e)
      BY <1>2 DEF Enqueue
    <2>6. ready \in Seq(Entry)
      BY DEF Typed, TypeOK
    <2> HIDE DEF e
    <2>3. ready' \in Seq(Entry)
      BY <2>1, <2>2, <2>6, AppendType
    <2>4. told' \subseteq Task /\ queued' \subseteq Task
      BY <1>2 DEF Enqueue, Typed, TypeOK
    <2>7. faults' = faults \/ faults' = faults + 1
      BY <1>2 DEF Enqueue, Fault
    <2>8. filed' = [filed EXCEPT ![t] = "answered"]
      BY <1>2 DEF Enqueue
    <2>5. faults' \in Nat /\ filed' \in [Task -> {"absent", "persisted", "answered", "cut"}]
      BY <2>7, <2>8 DEF Typed, TypeOK
    <2> QED
      BY <1>2, <2>3, <2>4, <2>5 DEF Enqueue, TypeOK, Typed, fateVars
  <1>3. CASE IngestCut(t)
    BY <1>3 DEF IngestCut, Fault, TypeOK, Typed, redisVars, fateVars
  <1> QED
    BY <1>1, <1>2, <1>3

LEMMA TypeDue ==
    ASSUME Typed, NEW e \in scheduled, BecomesDue(e)
    PROVE  Typed' /\ Delayed' = Delayed
  <1>1. IsFiniteSet(due')
    BY FS_AddElement DEF BecomesDue, Typed
  <1> QED
    BY <1>1 DEF BecomesDue, TypeOK, Typed, ingestVars, fateVars, Delayed

LEMMA ReadingType ==
    ASSUME Typed, NEW q \in Readings
    PROVE  q \in Seq(Entry) /\ Members(q) \subseteq due
  <1> DEFINE n == IF Cardinality(due) < BatchSize THEN Cardinality(due) ELSE BatchSize
  <1>1. n \in Nat
    BY FS_CardinalityType, BoundsAssumption DEF Typed
  <1>2. q \in [1..n -> due]
    BY DEF Readings
  <1>3. due \subseteq Entry
    BY DEF Typed, TypeOK
  <1> HIDE DEF n
  <1>4. q \in Seq(Entry)
    BY <1>1, <1>2, <1>3
  <1> QED
    BY <1>2, <1>4 DEF Members

LEMMA TypeRead == ASSUME Typed, NEW w \in Worker, ReadDue(w) PROVE Typed'
  <1>1. PICK q \in Readings : batch' = [batch EXCEPT ![w] = q]
                              /\ at' = [at EXCEPT ![w] = IF q = <<>> THEN "pop" ELSE "push"]
    BY DEF ReadDue
  <1> QED
    BY <1>1, ReadingType DEF ReadDue, TypeOK, Typed, ingestVars, redisVars, fateVars

LEMMA TypePush == ASSUME Typed, NEW w \in Worker, Push(w) PROVE Typed'
  <1>1. ready' \in Seq(Entry)
    BY ConcatType DEF Push, TypeOK, Typed
  <1> QED
    BY <1>1 DEF Push, TypeOK, Typed, ingestVars, fateVars

LEMMA TypeUnschedule == ASSUME Typed, NEW w \in Worker, Unschedule(w) PROVE Typed'
  <1>1. IsFiniteSet(due')
    BY FS_Difference DEF Unschedule, Typed
  <1>2. <<>> \in Seq(Entry)
    OBVIOUS
  <1> QED
    BY <1>1, <1>2 DEF Unschedule, TypeOK, Typed, ingestVars, fateVars

LEMMA TypePop == ASSUME Typed, NEW w \in Worker, Pop(w) PROVE Typed'
  <1>1. CASE ready = <<>>
    BY <1>1 DEF Pop, TypeOK, Typed, ingestVars
  <1>2. CASE ready # <<>>
    <2>1. Head(ready) \in Entry /\ Tail(ready) \in Seq(Entry)
      BY <1>2, MembersOf DEF TypeOK, Typed
    <2>2. Head(ready).task \in Task /\ Head(ready).attempts \in 0..MaxRetries
      BY <2>1 DEF Entry
    <2>3. CASE Head(ready).task \in Handled
      <3> DEFINE e == Head(ready)
      <3>2. runs' = [runs EXCEPT ![e.task] = [runs[e.task] EXCEPT ![e.attempts] = runs[e.task][e.attempts] + 1]]
            /\ at' = [at EXCEPT ![w] = "run"] /\ hand' = [hand EXCEPT ![w] = e] /\ ready' = Tail(ready)
            /\ UNCHANGED <<dropped, ingestVars, scheduled, due, batch, faults, finished, lost>>
        BY <1>2, <2>3 DEF Pop
      <3>3. e \in Entry /\ e.task \in Task /\ e.attempts \in 0..MaxRetries /\ Tail(ready) \in Seq(Entry)
        BY <2>1, <2>2
      <3> HIDE DEF e
      <3> DEFINE h == runs[e.task]
      <3> DEFINE k == e.attempts
      <3> DEFINE g == [h EXCEPT ![k] = h[k] + 1]
      <3>5. runs \in [Task -> [0..MaxRetries -> Nat]] /\ runs' = [runs EXCEPT ![e.task] = g]
        BY <3>2 DEF TypeOK, Typed
      <3>6. h \in [0..MaxRetries -> Nat] /\ k \in 0..MaxRetries
        BY <3>3, <3>5
      <3> HIDE DEF h, k
      <3>7. g \in [0..MaxRetries -> Nat]
        BY <3>6
      <3> HIDE DEF g
      <3>1. runs' \in [Task -> [0..MaxRetries -> Nat]]
        BY <3>3, <3>5, <3>7
      <3>4. at' \in [Worker -> {"idle", "push", "remove", "pop", "run"}]
            /\ hand' \in [Worker -> Entry \cup {NoTask}]
        BY <3>2, <3>3 DEF TypeOK, Typed
      <3> QED
        BY <3>1, <3>2, <3>3, <3>4 DEF TypeOK, Typed, ingestVars
    <2>4. CASE Head(ready).task \notin Handled
      BY <1>2, <2>1, <2>2, <2>4 DEF Pop, TypeOK, Typed, ingestVars
    <2> QED
      BY <2>3, <2>4
  <1> QED
    BY <1>1, <1>2

LEMMA TypeEnd ==
    ASSUME Typed, AttemptsMade, NEW w \in Worker, Succeed(w) \/ Fail(w) \/ Cut(w)
    PROVE  Typed'
  <1>1. at[w] = "run" => hand[w] \in Entry
    BY DEF AttemptsMade
  <1>2. at[w] = "run" => hand[w].task \in Task /\ hand[w].attempts \in 0..MaxRetries
    BY <1>1 DEF Entry
  <1>3. CASE Succeed(w)
    BY <1>2, <1>3 DEF Succeed, PutDown, TypeOK, Typed, ingestVars, redisVars
  <1>4. CASE Fail(w)
    <2> DEFINE e == [task |-> hand[w].task, attempts |-> hand[w].attempts + 1]
    <2>1. at[w] = "run"
      BY <1>4 DEF Fail
    <2>2. CASE hand[w].attempts + 1 > MaxRetries
      BY <1>2, <1>4, <2>1, <2>2 DEF Fail, PutDown, TypeOK, Typed, ingestVars
    <2>3. CASE ~(hand[w].attempts + 1 > MaxRetries)
      <3>1. e \in Entry
        BY <1>2, <2>1, <2>3, BoundsAssumption DEF Entry
      <3>2. scheduled' = scheduled \cup {e} /\ due' = due \ {e} /\ dropped' = dropped
        BY <1>4, <2>3 DEF Fail, Schedule
      <3>3. IsFiniteSet(due')
        BY <3>2, FS_Difference DEF Typed
      <3> HIDE DEF e
      <3> QED
        BY <1>4, <3>1, <3>2, <3>3 DEF Fail, PutDown, TypeOK, Typed, ingestVars
    <2> QED
      BY <2>2, <2>3
  <1>5. CASE Cut(w)
    <2>1. <<>> \in Seq(Entry)
      OBVIOUS
    <2>2. lost' \subseteq Task
      BY <1>2, <1>5 DEF Cut, TypeOK, Typed
    <2> QED
      BY <1>5, <2>1, <2>2 DEF Cut, Fault, PutDown, TypeOK, Typed, ingestVars, redisVars
  <1> QED
    BY <1>3, <1>4, <1>5

-----------------------------------------------------------------------------
(* Tasks move on. *)

Covered(t) == Held(t) \/ t \in Fated

\* A step that takes no member from the schedule; what it takes from the list
\* or out of a hand is in the schedule with more attempts, or done with.
Onward ==
    /\ \A x \in Members(ready) \cup InHand :
          \/ x \in (Members(ready) \cup InHand)'
          \/ x.task \in Fated'
          \/ \E y \in Delayed' : y.task = x.task /\ y.attempts > x.attempts
    /\ Delayed \subseteq Delayed'
    /\ Fated \subseteq Fated'

LEMMA HeldIn == \A t : Held(t) <=> \E x \in Members(ready) \cup InHand \cup Delayed : x.task = t
  BY DEF Held, InHand, Delayed

LEMMA AreEntries ==
    ASSUME Typed, AttemptsMade
    PROVE  /\ Members(ready) \cup InHand \cup Delayed \subseteq Entry
           /\ \A w \in Worker : Members(batch[w]) \subseteq Entry
           /\ \A e \in Entry : e.task \in Task /\ e.attempts \in 0..MaxRetries
  <1>1. Members(ready) \subseteq Entry /\ \A w \in Worker : Members(batch[w]) \subseteq Entry
    BY MembersOf DEF Typed, TypeOK
  <1>2. InHand \subseteq Entry
    BY DEF InHand, AttemptsMade
  <1>3. Delayed \subseteq Entry
    BY DEF Delayed, Typed, TypeOK
  <1> QED
    BY <1>1, <1>2, <1>3 DEF Entry

LEMMA OnwardKeeps ==
    ASSUME Typed, AttemptsMade, Typed', Onward
    PROVE  /\ \A t : Covered(t) => Covered(t)'
           /\ \A e \in Entry : Ahead(e) => Ahead(e)'
  <1>1. \A t : Covered(t) => Covered(t)'
    BY HeldIn DEF Covered, Onward, Held, InHand, Delayed
  <1>2. ASSUME NEW e \in Entry, Ahead(e) PROVE Ahead(e)'
    <2>1. CASE e.task \in Fated
      BY <2>1 DEF Onward, Ahead
    <2>2. CASE \E x \in Delayed : x.task = e.task /\ x.attempts > e.attempts
      BY <2>2 DEF Onward, Ahead
    <2>3. ASSUME NEW x \in Members(ready) \cup InHand, x.task = e.task, x.attempts >= e.attempts
          PROVE  Ahead(e)'
      <3>1. x.attempts \in Nat /\ e.attempts \in Nat
        BY AreEntries, <2>3
      <3>2. \A y \in Delayed' : y.attempts \in Nat
        BY DEF Typed, TypeOK, Delayed, Entry
      <3> QED
        BY <2>3, <3>1, <3>2 DEF Onward, Ahead
    <2> QED
      BY <1>2, <2>1, <2>2, <2>3 DEF Ahead
  <1> QED
    BY <1>1, <1>2

LEMMA SameHands ==
    ASSUME Typed, NEW w \in Worker, at[w] # "run", NEW s, s # "run",
           at' = [at EXCEPT ![w] = s], hand' = hand
    PROVE  InHand' = InHand
  <1>1. \A v \in Worker : at'[v] = "run" <=> at[v] = "run"
    BY DEF Typed, TypeOK
  <1> QED
    BY <1>1 DEF InHand

LEMMA PutDownHands ==
    ASSUME Typed, NEW w \in Worker, PutDown(w)
    PROVE  /\ InHand \subseteq InHand' \cup (IF at[w] = "run" THEN {hand[w]} ELSE {})
           /\ InHand' \subseteq InHand
           /\ \A v \in Worker : v # w => at'[v] = at[v] /\ hand'[v] = hand[v]
           /\ at'[w] = "idle"
  <1>1. /\ \A v \in Worker : v # w => at'[v] = at[v] /\ hand'[v] = hand[v]
        /\ at'[w] = "idle"
    BY DEF PutDown, Typed, TypeOK
  <1> QED
    BY <1>1 DEF InHand

-----------------------------------------------------------------------------
(* Each step. *)

LEMMA IngestKeeps ==
    ASSUME IInv, NEW t \in Task, Persist(t) \/ Enqueue(t) \/ IngestCut(t)
    PROVE  IInv'
  <1>1. Typed' /\ UNCHANGED <<scheduled, due, at, batch, hand, fateVars>>
    BY TypeIngest DEF IInv
  <1> DEFINE e == [task |-> t, attempts |-> 0]
  <1>2. \/ ready' = ready /\ queued' = queued
        \/ ready' = Append(ready, e) /\ queued' = queued \cup {t}
    BY DEF Persist, Enqueue, IngestCut, redisVars
  <1>3. e \in Entry /\ e.task = t /\ e.attempts = 0
    BY BoundsAssumption DEF Entry
  <1> HIDE DEF e
  <1>4. \/ Members(ready)' = Members(ready) /\ queued' = queued
        \/ Members(ready)' = Members(ready) \cup {e} /\ queued' = queued \cup {t}
    <2>1. ready \in Seq(Entry)
      BY DEF IInv, Typed, TypeOK
    <2>2. Members(Append(ready, e)) = Members(ready) \cup {e}
      BY <1>3, <2>1, MembersOf
    <2> QED
      BY <1>2, <2>2
  <1>5. InHand' = InHand /\ Delayed' = Delayed /\ Fated' = Fated
    BY <1>1 DEF InHand, Delayed, Fated, fateVars
  <1>6. Onward
    BY <1>4, <1>5 DEF Onward
  <1>7. Accounted'
    <2>1. \A x \in queued' : Covered(x)'
      <3>1. \A x \in queued : Covered(x)'
        BY <1>1, <1>6, OnwardKeeps DEF IInv, Accounted, Covered, Fated
      <3>2. Members(ready)' = Members(ready) \cup {e} => Held(t)'
        BY <1>3 DEF Held
      <3> QED
        BY <1>4, <3>1, <3>2 DEF Covered
    <2> QED
      BY <2>1 DEF Accounted, Covered, Fated
  <1>8. PushedFirst'
    <2>1. \A w \in Worker : Members(batch[w]) \subseteq Entry
      BY AreEntries DEF IInv
    <2> SUFFICES ASSUME NEW w \in Worker, at'[w] = "remove", NEW x \in Members(batch'[w])
                 PROVE  Ahead(x)'
      BY DEF PushedFirst
    <2>2. Ahead(x) /\ x \in Entry
      BY <1>1, <2>1 DEF IInv, PushedFirst
    <2> QED
      BY <1>1, <1>6, <2>2, OnwardKeeps DEF IInv
  <1>9. AttemptsMade'
    <2>1. Before(e)'
      BY <1>3 DEF Before
    <2>2. runs' = runs /\ at' = at /\ batch' = batch /\ hand' = hand
      BY <1>1 DEF fateVars
    <2> QED
      BY <1>4, <1>5, <2>1, <2>2 DEF IInv, AttemptsMade, Before
  <1>10. DroppedAfterRetries'
    BY <1>1 DEF IInv, DroppedAfterRetries, fateVars
  <1> QED
    BY <1>1, <1>7, <1>8, <1>9, <1>10 DEF IInv

\* The steps that leave list, schedule, hands and fates as they are.
Still == /\ Members(ready)' = Members(ready) /\ InHand' = InHand /\ Delayed' = Delayed
         /\ finished' = finished /\ dropped' = dropped /\ lost' = lost /\ queued' = queued
         /\ runs' = runs

LEMMA StillKeeps ==
    ASSUME IInv, Still, Typed'
    PROVE  /\ Accounted' /\ DroppedAfterRetries'
           /\ \A e \in Entry : Ahead(e) => Ahead(e)'
           /\ \A e : Before(e) <=> Before(e)'
  <1>1. Onward
    BY DEF Still, Onward, Fated
  <1>2. Accounted'
    BY <1>1, OnwardKeeps DEF IInv, Accounted, Covered, Fated, Still
  <1> QED
    BY <1>1, <1>2, OnwardKeeps DEF IInv, DroppedAfterRetries, Still, Before

LEMMA DueKeeps == ASSUME IInv, NEW e \in scheduled, BecomesDue(e) PROVE IInv'
  <1>1. Typed' /\ Delayed' = Delayed
    BY TypeDue DEF IInv
  <1>2. Still /\ at' = at /\ batch' = batch /\ hand' = hand
    BY <1>1 DEF BecomesDue, Still, InHand, ingestVars, fateVars
  <1>3. \A w \in Worker : Members(batch[w]) \subseteq Entry
    BY AreEntries DEF IInv
  <1>4. PushedFirst'
    <2> SUFFICES ASSUME NEW w \in Worker, at'[w] = "remove", NEW x \in Members(batch'[w])
                 PROVE  Ahead(x)'
      BY DEF PushedFirst
    <2>1. Ahead(x) /\ x \in Entry
      BY <1>2, <1>3 DEF IInv, PushedFirst
    <2> QED
      BY <1>1, <1>2, <2>1, StillKeeps
  <1>5. AttemptsMade'
    BY <1>1, <1>2, StillKeeps DEF IInv, AttemptsMade, Still
  <1> QED
    BY <1>1, <1>2, <1>4, <1>5, StillKeeps DEF IInv

LEMMA ReadKeeps == ASSUME IInv, NEW w \in Worker, ReadDue(w) PROVE IInv'
  <1>1. Typed'
    BY TypeRead DEF IInv
  <1>2. PICK q \in Readings : batch' = [batch EXCEPT ![w] = q]
                              /\ at' = [at EXCEPT ![w] = IF q = <<>> THEN "pop" ELSE "push"]
    BY DEF ReadDue
  <1>3. Members(q) \subseteq Delayed
    BY <1>2, ReadingType DEF IInv, Delayed
  <1>4. InHand' = InHand
    BY <1>2, SameHands DEF IInv, ReadDue
  <1>5. Still /\ hand' = hand
    BY <1>4 DEF ReadDue, Still, Delayed, ingestVars, redisVars, fateVars
  <1>6. batch'[w] = q /\ at'[w] # "remove" /\ at'[w] # "run"
        /\ \A v \in Worker : v # w => batch'[v] = batch[v] /\ at'[v] = at[v]
    BY <1>2 DEF IInv, Typed, TypeOK
  <1>7. \A v \in Worker : Members(batch[v]) \subseteq Entry
    BY AreEntries DEF IInv
  <1>8. PushedFirst'
    <2> SUFFICES ASSUME NEW v \in Worker, at'[v] = "remove", NEW x \in Members(batch'[v])
                 PROVE  Ahead(x)'
      BY DEF PushedFirst
    <2>1. Ahead(x) /\ x \in Entry
      BY <1>6, <1>7 DEF IInv, PushedFirst
    <2> QED
      BY <1>1, <1>5, <2>1, StillKeeps
  <1>9. AttemptsMade'
    <2>1. \A v \in Worker : \A e \in Members(batch'[v]) : Before(e)'
      BY <1>1, <1>3, <1>5, <1>6, StillKeeps DEF IInv, AttemptsMade
    <2>2. \A e \in (Members(ready) \cup Delayed)' : Before(e)'
      BY <1>1, <1>5, StillKeeps DEF IInv, AttemptsMade, Still
    <2>3. \A v \in Worker : at'[v] = "run" => hand'[v] \in Entry /\ Before(hand[v])'
                               /\ runs'[hand'[v].task][hand'[v].attempts] > 0
      BY <1>1, <1>5, <1>6, StillKeeps DEF IInv, AttemptsMade, Still
    <2> QED
      BY <2>1, <2>2, <2>3, <1>5 DEF AttemptsMade
  <1> QED
    BY <1>1, <1>5, <1>8, <1>9, StillKeeps DEF IInv

LEMMA PushKeeps == ASSUME IInv, NEW w \in Worker, Push(w) PROVE IInv'
  <1>1. Typed'
    BY TypePush DEF IInv
  <1>2. at' = [at EXCEPT ![w] = "remove"] /\ at[w] = "push" /\ ready' = ready \o batch[w]
        /\ batch' = batch /\ hand' = hand
    BY DEF Push
  <1>3. Members(ready)' = Members(ready) \cup Members(batch[w])
    <2>1. ready \in Seq(Entry) /\ batch[w] \in Seq(Entry)
      BY DEF IInv, Typed, TypeOK
    <2>2. Members(ready \o batch[w]) = Members(ready) \cup Members(batch[w])
      BY <2>1, MembersOf
    <2> QED
      BY <1>2, <2>2
  <1>4. InHand' = InHand
    BY <1>2, SameHands DEF IInv
  <1>5. Delayed' = Delayed /\ Fated' = Fated /\ queued' = queued /\ runs' = runs /\ dropped' = dropped
    BY DEF Push, Delayed, Fated, ingestVars, fateVars
  <1>6. Onward
    BY <1>3, <1>4, <1>5 DEF Onward
  <1>7. Accounted'
    BY <1>1, <1>5, <1>6, OnwardKeeps DEF IInv, Accounted, Covered, Fated
  <1>8. /\ \A v \in Worker : Members(batch[v]) \subseteq Entry
        /\ \A e \in Entry : e.attempts \in 0..MaxRetries
    BY AreEntries DEF IInv
  <1>9. PushedFirst'
    <2> SUFFICES ASSUME NEW v \in Worker, at'[v] = "remove", NEW x \in Members(batch'[v])
                 PROVE  Ahead(x)'
      BY DEF PushedFirst
    <2>1. x \in Entry /\ x.attempts \in Nat
      BY <1>2, <1>8
    <2>2. CASE v = w
      BY <1>2, <1>3, <2>1, <2>2 DEF Ahead
    <2>3. CASE v # w
      <3>1. Ahead(x)
        BY <1>2, <2>3 DEF IInv, PushedFirst, Typed, TypeOK
      <3> QED
        BY <1>1, <1>6, <2>1, <3>1, OnwardKeeps DEF IInv
    <2> QED
      BY <2>2, <2>3
  <1>10. AttemptsMade'
    <2>1. \A e : Before(e)' <=> Before(e)
      BY <1>5 DEF Before
    <2>2. \A v \in Worker : at'[v] = "run" => at[v] = "run"
      BY <1>2 DEF IInv, Typed, TypeOK
    <2>3. \A e \in (Members(ready) \cup Delayed)' : Before(e)'
      BY <1>3, <1>5, <2>1 DEF IInv, AttemptsMade
    <2>4. \A v \in Worker : \A e \in Members(batch'[v]) : Before(e)'
      BY <1>2, <2>1 DEF IInv, AttemptsMade
    <2>5. \A v \in Worker : at'[v] = "run" => hand'[v] \in Entry /\ Before(hand[v])'
                               /\ runs'[hand'[v].task][hand'[v].attempts] > 0
      BY <1>2, <1>5, <2>1, <2>2 DEF IInv, AttemptsMade
    <2> QED
      BY <1>2, <2>3, <2>4, <2>5 DEF AttemptsMade
  <1>11. DroppedAfterRetries'
    BY <1>5 DEF IInv, DroppedAfterRetries
  <1> QED
    BY <1>1, <1>7, <1>9, <1>10, <1>11 DEF IInv

\* Whatever a worker removes, the task's greatest attempt in the schedule stays
\* or has been pushed.
LEMMA RemovedIsAhead ==
    ASSUME IInv, NEW w \in Worker, Unschedule(w), NEW e \in Delayed
    PROVE  \/ \E x \in Members(ready) \cup InHand \cup Delayed' :
                 x.task = e.task /\ x.attempts >= e.attempts
           \/ e.task \in Fated
  <1> DEFINE D == {x \in Delayed : x.task = e.task}
  <1> DEFINE S == {x.attempts : x \in D}
  <1>1. D \subseteq Entry /\ MaxRetries \in Nat /\ \A x \in Entry : x.attempts \in 0..MaxRetries
    BY AreEntries, BoundsAssumption DEF IInv
  <1>2. S \in SUBSET (0..MaxRetries) /\ S # {} /\ e.attempts \in S
    BY <1>1
  <1>3. PICK m \in S : \A n \in S : n <= m
    BY <1>1, <1>2, GreatestAttempt
  <1>4. PICK x \in D : x.attempts = m
    BY <1>3
  <1>5. x.task = e.task /\ x.attempts >= e.attempts /\ x \in Delayed
    BY <1>2, <1>3, <1>4
  <1>6. CASE x \in Delayed'
    BY <1>5, <1>6
  <1>7. CASE x \notin Delayed'
    <2>1. x \in Members(batch[w]) /\ at[w] = "remove"
      BY <1>5, <1>7 DEF Unschedule, Delayed
    <2>2. Ahead(x)
      BY <2>1 DEF IInv, PushedFirst
    <2>3. ~ \E y \in Delayed : y.task = x.task /\ y.attempts > x.attempts
      <3> SUFFICES ASSUME NEW y \in Delayed, y.task = x.task, y.attempts > x.attempts PROVE FALSE
        OBVIOUS
      <3>1. y \in D /\ y.attempts \in S
        BY <1>5
      <3>2. y.attempts <= x.attempts
        BY <1>3, <1>4, <3>1
      <3>3. y.attempts \in 0..MaxRetries /\ x.attempts \in 0..MaxRetries
        BY <1>1, <3>1
      <3> QED
        BY <3>2, <3>3
    <2>4. CASE e.task \in Fated
      BY <2>4
    <2>5. ASSUME NEW y \in Members(ready) \cup InHand, y.task = x.task, y.attempts >= x.attempts
          PROVE  y.task = e.task /\ y.attempts >= e.attempts
      <3>1. y.attempts \in 0..MaxRetries /\ x.attempts \in 0..MaxRetries /\ e.attempts \in 0..MaxRetries
        BY <1>1, AreEntries DEF IInv
      <3> QED
        BY <1>5, <2>5, <3>1
    <2> QED
      BY <1>5, <2>2, <2>3, <2>4, <2>5 DEF Ahead
  <1> QED
    BY <1>6, <1>7

LEMMA UnscheduleKeeps == ASSUME IInv, NEW w \in Worker, Unschedule(w) PROVE IInv'
  <1>1. Typed'
    BY TypeUnschedule DEF IInv
  <1>2. /\ at[w] = "remove" /\ at' = [at EXCEPT ![w] = "pop"]
        /\ batch' = [batch EXCEPT ![w] = <<>>] /\ hand' = hand /\ ready' = ready
        /\ Delayed' \subseteq Delayed /\ queued' = queued /\ runs' = runs /\ dropped' = dropped
        /\ Fated' = Fated
    BY DEF Unschedule, Delayed, Fated, ingestVars, fateVars
  <1>3. InHand' = InHand
    BY <1>2, SameHands DEF IInv
  <1>4. /\ batch'[w] = <<>> /\ at'[w] = "pop"
        /\ \A v \in Worker : v # w => batch'[v] = batch[v] /\ at'[v] = at[v]
    BY <1>2 DEF IInv, Typed, TypeOK
  <1>5. Members(<<>>) = {}
    BY DEF Members
  <1>6. /\ Members(ready) \cup InHand \cup Delayed \subseteq Entry
        /\ \A e \in Entry : e.attempts \in 0..MaxRetries
        /\ \A v \in Worker : Members(batch[v]) \subseteq Entry
    BY AreEntries DEF IInv
  <1>7. Accounted'
    <2> SUFFICES ASSUME NEW t \in queued PROVE Held(t)' \/ t \in Fated
      BY <1>2 DEF Accounted, Fated
    <2>1. CASE t \in Fated
      BY <2>1
    <2>2. ASSUME NEW x \in Members(ready) \cup InHand, x.task = t PROVE Held(t)'
      BY <1>2, <1>3, <2>2, HeldIn DEF Held, InHand
    <2>3. ASSUME NEW e \in Delayed, e.task = t PROVE Held(t)' \/ t \in Fated
      <3>1. \/ \E x \in Members(ready) \cup InHand \cup Delayed' : x.task = t
            \/ t \in Fated
        BY <2>3, RemovedIsAhead
      <3>2. ASSUME NEW x \in Delayed', x.task = t PROVE Held(t)'
        BY <3>2 DEF Held, Delayed
      <3> QED
        BY <2>2, <3>1, <3>2
    <2>4. Held(t) \/ t \in Fated
      BY DEF IInv, Accounted, Fated
    <2> QED
      BY <2>1, <2>2, <2>3, <2>4, HeldIn
  <1>8. PushedFirst'
    <2> SUFFICES ASSUME NEW v \in Worker, at'[v] = "remove", NEW x \in Members(batch'[v])
                 PROVE  Ahead(x)'
      BY DEF PushedFirst
    <2>1. v # w /\ at[v] = "remove" /\ x \in Members(batch[v])
      BY <1>4
    <2>6. Ahead(x)
      BY <2>1 DEF IInv, PushedFirst
    <2>2. Ahead(x) /\ x \in Entry
      BY <1>6, <2>1, <2>6
    <2>3. CASE x.task \in Fated
      BY <1>2, <2>3 DEF Ahead
    <2>4. CASE \E y \in Members(ready) \cup InHand : y.task = x.task /\ y.attempts >= x.attempts
      BY <1>2, <1>3, <2>4 DEF Ahead
    <2>5. ASSUME NEW e \in Delayed, e.task = x.task, e.attempts > x.attempts PROVE Ahead(x)'
      <3>1. e.attempts \in 0..MaxRetries /\ x.attempts \in 0..MaxRetries
        BY <1>6, <2>2
      <3>2. CASE e.task \in Fated
        BY <2>3, <2>5, <3>2
      <3>3. ASSUME NEW y \in Members(ready) \cup InHand \cup Delayed',
                   y.task = e.task, y.attempts >= e.attempts
            PROVE  Ahead(x)'
        <4>1. y.attempts \in 0..MaxRetries
          BY <1>2, <1>6
        <4>2. y.task = x.task /\ y.attempts > x.attempts /\ y.attempts >= x.attempts
          BY <2>5, <3>1, <3>3, <4>1
        <4>3. CASE y \in Delayed'
          BY <4>2, <4>3 DEF Ahead
        <4>4. CASE y \in Members(ready) \cup InHand
          BY <2>4, <4>2, <4>4
        <4> QED
          BY <4>3, <4>4
      <3> QED
        BY <3>2, <3>3, RemovedIsAhead
    <2> QED
      BY <2>2, <2>3, <2>4, <2>5 DEF Ahead
  <1>9. AttemptsMade'
    <2>1. \A e : Before(e)' <=> Before(e)
      BY <1>2 DEF Before
    <2>2. \A v \in Worker : \A e \in Members(batch'[v]) : Before(e)'
      BY <1>4, <1>5, <2>1 DEF IInv, AttemptsMade
    <2>3. \A v \in Worker : at'[v] = "run" => hand'[v] \in Entry /\ Before(hand[v])'
                               /\ runs'[hand'[v].task][hand'[v].attempts] > 0
      BY <1>2, <1>4, <2>1 DEF IInv, AttemptsMade
    <2>4. \A e \in (Members(ready) \cup Delayed)' : Before(e)'
      BY <1>2, <2>1 DEF IInv, AttemptsMade
    <2> QED
      BY <1>2, <2>2, <2>3, <2>4 DEF AttemptsMade
  <1>10. DroppedAfterRetries'
    BY <1>2 DEF IInv, DroppedAfterRetries
  <1> QED
    BY <1>1, <1>7, <1>8, <1>9, <1>10 DEF IInv

LEMMA PopKeeps == ASSUME IInv, NEW w \in Worker, Pop(w) PROVE IInv'
  <1>1. Typed'
    BY TypePop DEF IInv
  <1>2. /\ at[w] = "pop" /\ batch' = batch /\ Delayed' = Delayed /\ queued' = queued
        /\ finished' = finished /\ lost' = lost
    BY DEF Pop, Delayed, ingestVars
  <1>3. /\ Members(ready) \cup InHand \cup Delayed \subseteq Entry
        /\ \A v \in Worker : Members(batch[v]) \subseteq Entry
        /\ \A e \in Entry : e.task \in Task /\ e.attempts \in 0..MaxRetries
    BY AreEntries DEF IInv
  <1>4. CASE ready = <<>>
    <2>1. at' = [at EXCEPT ![w] = "idle"] /\ UNCHANGED <<ready, hand, dropped, runs>>
      BY <1>4 DEF Pop
    <2>2. InHand' = InHand
      BY <1>2, <2>1, SameHands DEF IInv
    <2>3. Still
      BY <1>2, <2>1, <2>2 DEF Still
    <2>4. \A v \in Worker : at'[v] = at[v] \/ at'[v] = "idle"
      BY <2>1 DEF IInv, Typed, TypeOK
    <2>5. PushedFirst'
      <3> SUFFICES ASSUME NEW v \in Worker, at'[v] = "remove", NEW x \in Members(batch'[v])
                   PROVE  Ahead(x)'
        BY DEF PushedFirst
      <3>1. Ahead(x)
        BY <1>2, <2>4 DEF IInv, PushedFirst
      <3>2. x \in Entry
        BY <1>2, <1>3
      <3> QED
        BY <1>1, <2>3, <3>1, <3>2, StillKeeps
    <2>6. AttemptsMade'
      BY <1>1, <1>2, <2>1, <2>3, <2>4, StillKeeps DEF IInv, AttemptsMade, Still
    <2> QED
      BY <1>1, <2>3, <2>5, <2>6, StillKeeps DEF IInv
  <1>5. CASE ready # <<>>
    <2>0. PICK h : h = Head(ready)
      OBVIOUS
    <2>13. ready' = Tail(ready) /\ ready \in Seq(Entry)
      BY <1>5 DEF Pop, IInv, Typed, TypeOK
    <2>1. h \in Entry /\ Members(ready) = {h} \cup Members(ready')
      BY <1>5, <2>0, <2>13, MembersOf
    <2>2. h.task \in Task /\ h.attempts \in 0..MaxRetries /\ Before(h)
      BY <1>3, <2>1 DEF IInv, AttemptsMade
    <2>3. \/ /\ h.task \in Handled /\ at' = [at EXCEPT ![w] = "run"] /\ hand' = [hand EXCEPT ![w] = h]
             /\ runs' = [runs EXCEPT ![h.task][h.attempts] = @ + 1] /\ dropped' = dropped
          \/ /\ h.task \notin Handled /\ at' = [at EXCEPT ![w] = "idle"] /\ hand' = hand
             /\ runs' = runs /\ dropped' = dropped \cup {h.task}
      BY <1>5, <2>0 DEF Pop
    <2>4. \A v \in Worker : v # w => at'[v] = at[v] /\ hand'[v] = hand[v]
      BY <2>3 DEF IInv, Typed, TypeOK
    <2>14. at \in [Worker -> {"idle", "push", "remove", "pop", "run"}]
           /\ hand \in [Worker -> Entry \cup {NoTask}]
      BY DEF IInv, Typed, TypeOK
    <2>15. at'[w] # "remove" /\ (h.task \in Handled => at'[w] = "run" /\ hand'[w] = h)
      BY <2>3, <2>14
    <2>16. InHand \subseteq InHand'
      BY <1>2, <2>4 DEF InHand
    <2>17. h.task \in Handled => h \in InHand'
      BY <2>15 DEF InHand
    <2>5. InHand \subseteq InHand' /\ at'[w] # "remove"
          /\ (h.task \in Handled => at'[w] = "run" /\ hand'[w] = h /\ h \in InHand')
      BY <2>15, <2>16, <2>17
    <2>6. Onward
      BY <1>2, <2>1, <2>3, <2>5 DEF Onward, Fated
    <2>7. Accounted'
      BY <1>1, <1>2, <2>6, OnwardKeeps DEF IInv, Accounted, Covered, Fated
    <2>8. PushedFirst'
      <3> SUFFICES ASSUME NEW v \in Worker, at'[v] = "remove", NEW x \in Members(batch'[v])
                   PROVE  Ahead(x)'
        BY DEF PushedFirst
      <3>1. Ahead(x)
        BY <1>2, <2>4, <2>5 DEF IInv, PushedFirst
      <3>2. x \in Entry
        BY <1>2, <1>3
      <3> QED
        BY <1>1, <2>6, <3>1, <3>2, OnwardKeeps DEF IInv
    <2>9. /\ \A t \in Task, a \in 0..MaxRetries : runs[t][a] > 0 => runs'[t][a] > 0
          /\ h.task \in Handled => runs'[h.task][h.attempts] > 0
      <3>1. CASE runs' = runs /\ h.task \notin Handled
        BY <3>1
      <3>2. CASE runs' = [runs EXCEPT ![h.task][h.attempts] = @ + 1]
        <4> DEFINE g == runs[h.task]
        <4> DEFINE k == h.attempts
        <4> DEFINE f == [g EXCEPT ![k] = g[k] + 1]
        <4>1. runs \in [Task -> [0..MaxRetries -> Nat]] /\ runs' = [runs EXCEPT ![h.task] = f]
          BY <3>2 DEF IInv, Typed, TypeOK
        <4>2. g \in [0..MaxRetries -> Nat] /\ k \in 0..MaxRetries /\ g = runs[h.task] /\ k = h.attempts
          BY <2>2, <4>1
        <4> HIDE DEF g, k
        <4>3. f[k] > 0 /\ \A a \in 0..MaxRetries : g[a] > 0 => f[a] > 0
          <5>1. g[k] \in Nat /\ f[k] = g[k] + 1
            BY <4>2
          <5>2. \A a \in 0..MaxRetries : a # k => f[a] = g[a]
            BY <4>2
          <5> QED
            BY <5>1, <5>2
        <4> HIDE DEF f
        <4>4. runs'[h.task] = f /\ \A t \in Task : t # h.task => runs'[t] = runs[t]
          BY <2>2, <4>1
        <4> QED
          BY <4>2, <4>3, <4>4
      <3> QED
        BY <2>3, <3>1, <3>2
    <2>10. \A e \in Entry : Before(e) => Before(e)'
      BY <1>3, <2>9 DEF Before
    <2>11. AttemptsMade'
      <3>1. \A e \in (Members(ready) \cup Delayed)' : Before(e)'
        BY <1>2, <1>3, <2>1, <2>10 DEF IInv, AttemptsMade
      <3>2. \A v \in Worker : \A e \in Members(batch'[v]) : Before(e)'
        BY <1>2, <1>3, <2>10 DEF IInv, AttemptsMade
      <3>3. ASSUME NEW v \in Worker, at'[v] = "run"
            PROVE  hand'[v] \in Entry /\ Before(hand[v])' /\ runs'[hand'[v].task][hand'[v].attempts] > 0
        <4>1. CASE v = w
          <5>1. h.task \in Handled /\ hand'[v] = h
            BY <2>3, <2>5, <3>3, <4>1 DEF IInv, Typed, TypeOK
          <5>2. Before(h)'
            BY <2>1, <2>2, <2>10
          <5> QED
            BY <2>1, <2>9, <5>1, <5>2 DEF Before
        <4>2. CASE v # w
          <5>3. PICK e : e = hand[v]
            OBVIOUS
          <5>1. hand'[v] = e /\ e \in Entry /\ Before(e) /\ runs[e.task][e.attempts] > 0
            BY <2>4, <3>3, <4>2, <5>3 DEF IInv, AttemptsMade
          <5>2. Before(e)'
            BY <2>10, <5>1
          <5>4. runs'[e.task][e.attempts] > 0
            BY <1>3, <2>9, <5>1
          <5> QED
            BY <5>1, <5>2, <5>4 DEF Before
        <4> QED
          BY <4>1, <4>2
      <3> QED
        BY <3>1, <3>2, <3>3 DEF AttemptsMade
    <2>12. DroppedAfterRetries'
      <3> SUFFICES ASSUME NEW t \in dropped' \cap Handled, NEW a \in 0..MaxRetries PROVE runs'[t][a] > 0
        BY DEF DroppedAfterRetries
      <3>1. t \in dropped /\ t \in Task
        BY <2>3, HandledAssumption
      <3>2. runs[t][a] > 0
        BY <3>1 DEF IInv, DroppedAfterRetries
      <3> QED
        BY <2>9, <3>1, <3>2
    <2> QED
      BY <1>1, <2>7, <2>8, <2>11, <2>12 DEF IInv
  <1> QED
    BY <1>4, <1>5

LEMMA EndKeeps ==
    ASSUME IInv, NEW w \in Worker, Succeed(w) \/ Fail(w) \/ Cut(w)
    PROVE  IInv'
  <1> DEFINE y == [task |-> hand[w].task, attempts |-> hand[w].attempts + 1]
  <1>1. Typed'
    BY TypeEnd DEF IInv
  <1>2. PutDown(w) /\ ready' = ready /\ queued' = queued /\ runs' = runs
    BY DEF Succeed, Fail, Cut, ingestVars, redisVars
  <1>3. /\ InHand \subseteq InHand' \cup (IF at[w] = "run" THEN {hand[w]} ELSE {})
        /\ \A v \in Worker : v # w => at'[v] = at[v] /\ hand'[v] = hand[v]
        /\ at'[w] = "idle"
    BY <1>2, PutDownHands DEF IInv
  <1>4. at[w] = "run" => /\ hand[w] \in Entry /\ hand[w].attempts \in 0..MaxRetries
                         /\ hand[w].task \in Task
                         /\ Before(hand[w]) /\ runs[hand[w].task][hand[w].attempts] > 0
    BY DEF IInv, AttemptsMade, Entry
  <1>5. \/ /\ Delayed' = Delayed /\ Fated \subseteq Fated'
           /\ at[w] = "run" => hand[w].task \in Fated'
        \/ /\ Delayed' = Delayed \cup {y} /\ Fated' = Fated /\ at[w] = "run" /\ dropped' = dropped
    BY DEF Succeed, Fail, Cut, Schedule, Delayed, Fated, redisVars
  <1>6. Onward
    <2>1. y.task = hand[w].task /\ (at[w] = "run" => y.attempts > hand[w].attempts)
      BY <1>4
    <2> HIDE DEF y
    <2> QED
      BY <1>2, <1>3, <1>5, <2>1 DEF Onward
  <1>7. Accounted'
    BY <1>1, <1>2, <1>6, OnwardKeeps DEF IInv, Accounted, Covered, Fated
  <1>8. \A v \in Worker : Members(batch'[v]) \subseteq Members(batch[v])
    <2>1. Members(<<>>) = {}
      BY DEF Members
    <2>2. batch' = batch \/ batch' = [batch EXCEPT ![w] = <<>>]
      BY DEF Succeed, Fail, Cut
    <2> QED
      BY <2>1, <2>2 DEF IInv, Typed, TypeOK
  <1>9. \A v \in Worker : Members(batch[v]) \subseteq Entry
    BY AreEntries DEF IInv
  <1>10. PushedFirst'
    <2> SUFFICES ASSUME NEW v \in Worker, at'[v] = "remove", NEW x \in Members(batch'[v])
                 PROVE  Ahead(x)'
      BY DEF PushedFirst
    <2>1. at[v] = "remove" /\ x \in Members(batch[v])
      BY <1>3, <1>8
    <2>2. Ahead(x)
      BY <2>1 DEF IInv, PushedFirst
    <2>3. x \in Entry
      BY <1>9, <2>1
    <2> QED
      BY <1>1, <1>6, <2>2, <2>3, OnwardKeeps DEF IInv
  <1>11. AttemptsMade'
    <2>1. \A e : Before(e)' <=> Before(e)
      BY <1>2 DEF Before
    <2>2. at[w] = "run" => Before(y)
      <3> SUFFICES ASSUME at[w] = "run", hand[w].task \in Handled,
                          NEW a \in 0..MaxRetries, a < hand[w].attempts + 1
                   PROVE  runs[hand[w].task][a] > 0
        BY DEF Before
      <3>1. a < hand[w].attempts \/ a = hand[w].attempts
        BY <1>4
      <3> QED
        BY <1>4, <3>1 DEF Before
    <2> HIDE DEF y
    <2>3. \A e \in (Members(ready) \cup Delayed)' : Before(e)'
      BY <1>2, <1>5, <2>1, <2>2 DEF IInv, AttemptsMade
    <2>4. \A v \in Worker : \A e \in Members(batch'[v]) : Before(e)'
      BY <1>8, <2>1 DEF IInv, AttemptsMade
    <2>5. ASSUME NEW v \in Worker, at'[v] = "run"
          PROVE  hand'[v] \in Entry /\ Before(hand[v])' /\ runs'[hand'[v].task][hand'[v].attempts] > 0
      <3>1. at[v] = "run" /\ hand'[v] = hand[v]
        BY <1>3, <2>5
      <3>2. hand[v] \in Entry /\ Before(hand[v]) /\ runs[hand[v].task][hand[v].attempts] > 0
        BY <3>1 DEF IInv, AttemptsMade
      <3>3. Before(hand[v])'
        BY <1>2, <3>1, <3>2 DEF Before
      <3> QED
        BY <1>2, <3>1, <3>2, <3>3
    <2> QED
      BY <2>3, <2>4, <2>5 DEF AttemptsMade
  <1>12. DroppedAfterRetries'
    <2> SUFFICES ASSUME NEW t \in dropped' \cap Handled, NEW a \in 0..MaxRetries PROVE runs[t][a] > 0
      BY <1>2 DEF DroppedAfterRetries
    <2>1. CASE t \in dropped
      BY <2>1 DEF IInv, DroppedAfterRetries
    <2>2. CASE t \notin dropped
      <3>1. at[w] = "run" /\ t = hand[w].task /\ hand[w].attempts + 1 > MaxRetries
        BY <2>2 DEF Succeed, Fail, Cut
      <3>2. a < hand[w].attempts \/ a = hand[w].attempts
        BY <1>4, <3>1, BoundsAssumption
      <3> QED
        BY <1>4, <3>1, <3>2 DEF Before
    <2> QED
      BY <2>1, <2>2
  <1> QED
    BY <1>1, <1>7, <1>10, <1>11, <1>12 DEF IInv

-----------------------------------------------------------------------------
(* The invariant and what follows from it. *)

LEMMA InitInv == Init => IInv
  <1> SUFFICES ASSUME Init PROVE IInv
    OBVIOUS
  <1>1. Members(<<>>) = {}
    BY DEF Members
  <1>2. Accounted /\ PushedFirst /\ AttemptsMade /\ DroppedAfterRetries
    BY <1>1 DEF Init, Accounted, PushedFirst, AttemptsMade, DroppedAfterRetries, Delayed
  <1> QED
    BY <1>2, TypeInit DEF IInv

LEMMA NextInv == IInv /\ [Next]_vars => IInv'
  <1> SUFFICES ASSUME IInv, [Next]_vars PROVE IInv'
    OBVIOUS
  <1>1. ASSUME NEW t \in Task, Persist(t) \/ Enqueue(t) \/ IngestCut(t) PROVE IInv'
    BY <1>1, IngestKeeps
  <1>2. ASSUME NEW e \in scheduled, BecomesDue(e) PROVE IInv'
    BY <1>2, DueKeeps
  <1>3. ASSUME NEW w \in Worker, Round(w) \/ Cut(w) PROVE IInv'
    BY <1>3, ReadKeeps, PushKeeps, UnscheduleKeeps, PopKeeps, EndKeeps DEF Round
  <1>4. CASE UNCHANGED vars
    <2>1. /\ Members(ready)' = Members(ready) /\ InHand' = InHand /\ Delayed' = Delayed
          /\ UNCHANGED vars
      BY <1>4 DEF vars, InHand, Delayed
    <2>2. Typed'
      BY <2>1 DEF IInv, Typed, TypeOK, vars
    <2>3. Still
      BY <2>1 DEF Still, vars
    <2>4. PushedFirst' /\ AttemptsMade'
      BY <2>1 DEF IInv, PushedFirst, AttemptsMade, Ahead, Before, Fated, vars
    <2> QED
      BY <2>2, <2>3, <2>4, StillKeeps DEF IInv
  <1> QED
    BY <1>1, <1>2, <1>3, <1>4 DEF Next

\* The inductive invariant: types, where every queued task is, what a worker may
\* remove from the schedule, and which attempts were made.
THEOREM Inductive == Spec => []IInv
  BY InitInv, NextInv, PTL DEF Spec

\* Every variable stays in its type: in particular no entry of the list, the
\* schedule, a batch or a hand has more attempts than the maximum.
THEOREM TypeCorrect == Spec => []TypeOK
  <1>1. IInv => TypeOK
    BY DEF IInv, Typed
  <1> QED
    BY <1>1, Inductive, PTL

\* However many workers drain, fail and are cut off in between, a queued task is
\* in Redis or in hand until it is handled, given up, or was in hand at a failure.
THEOREM QueuedAreAccounted == Spec => []Accounted
  <1>1. IInv => Accounted
    BY DEF IInv
  <1> QED
    BY <1>1, Inductive, PTL

\* A task with a handler is given up only after every attempt was made.
THEOREM GivenUpAfterRetries == Spec => []DroppedAfterRetries
  <1>1. IInv => DroppedAfterRetries
    BY DEF IInv
  <1> QED
    BY <1>1, Inductive, PTL

-----------------------------------------------------------------------------
(* The fates of tasks: every step is one of TaskFates, or none. *)

\* Whatever is in Redis, in a batch or in hand, or has a fate, was queued, and
\* was so once.
OnlyQueued ==
    /\ \A x \in Members(ready) \cup InHand \cup Delayed : x.task \in queued
    /\ \A w \in Worker : \A x \in Members(batch[w]) : x.task \in queued
    /\ Fated \subseteq queued
    /\ \A t \in queued : filed[t] = "answered"

LEMMA IngestQueued ==
    ASSUME IInv, OnlyQueued, NEW t \in Task, Persist(t) \/ Enqueue(t) \/ IngestCut(t)
    PROVE  OnlyQueued'
  <1> DEFINE e == [task |-> t, attempts |-> 0]
  <1>1. UNCHANGED <<scheduled, due, at, batch, hand, fateVars>>
    BY DEF Persist, Enqueue, IngestCut, redisVars
  <1>2. \/ ready' = ready /\ queued' = queued /\ filed[t] # "answered"
           /\ \A u \in Task \ {t} : filed'[u] = filed[u]
        \/ /\ ready' = Append(ready, e) /\ queued' = queued \cup {t}
           /\ filed' = [filed EXCEPT ![t] = "answered"]
    BY DEF Persist, Enqueue, IngestCut, redisVars, IInv, Typed, TypeOK
  <1>3. e \in Entry /\ e.task = t
    BY BoundsAssumption DEF Entry
  <1> HIDE DEF e
  <1>4. Members(Append(ready, e)) = Members(ready) \cup {e}
    BY <1>3, MembersOf DEF IInv, Typed, TypeOK
  <1>5. InHand' = InHand /\ Delayed' = Delayed /\ Fated' = Fated /\ batch' = batch
    BY <1>1 DEF InHand, Delayed, Fated, fateVars
  <1>6. Members(ready)' \subseteq Members(ready) \cup {e} /\ (e \in Members(ready)' \/ ready' = ready)
    BY <1>2, <1>4
  <1>7. queued \subseteq queued' /\ (ready' = ready \/ t \in queued')
    BY <1>2
  <1>8. \A u \in queued' : filed'[u] = "answered"
    BY <1>2 DEF OnlyQueued, IInv, Typed, TypeOK
  <1>9. \A x \in (Members(ready) \cup InHand \cup Delayed)' : x.task \in queued'
    <2>1. CASE ready' = ready
      BY <1>5, <1>7, <2>1 DEF OnlyQueued, Members
    <2>2. CASE t \in queued'
      BY <1>3, <1>5, <1>6, <1>7, <2>2 DEF OnlyQueued
    <2> QED
      BY <1>7, <2>1, <2>2
  <1> QED
    BY <1>5, <1>7, <1>8, <1>9 DEF OnlyQueued

\* What the other steps put anywhere was somewhere else.
LEMMA OthersQueued ==
    ASSUME OnlyQueued, UNCHANGED <<queued, filed>>,
           \A x \in (Members(ready) \cup InHand \cup Delayed)' :
               \/ \E y \in Members(ready) \cup InHand \cup Delayed : x.task = y.task
               \/ \E w \in Worker : x \in Members(batch[w]),
           \A w \in Worker : \A x \in Members(batch'[w]) :
               x \in Members(batch[w]) \/ x \in Delayed,
           \A t \in Fated' : t \in Fated \/ \E y \in Members(ready) \cup InHand : t = y.task
    PROVE  OnlyQueued'
  BY DEF OnlyQueued

LEMMA RoundQueued ==
    ASSUME IInv, OnlyQueued, NEW w \in Worker, Round(w) \/ Cut(w)
    PROVE  OnlyQueued'
  <1> USE DEF IInv
  <1>1. Members(<<>>) = {}
    BY DEF Members
  <1>2. CASE ReadDue(w)
    <2>1. PICK q \in Readings : batch' = [batch EXCEPT ![w] = q]
                                /\ at' = [at EXCEPT ![w] = IF q = <<>> THEN "pop" ELSE "push"]
      BY <1>2 DEF ReadDue
    <2>2. Members(q) \subseteq Delayed
      BY <2>1, ReadingType DEF Delayed
    <2>3. InHand' = InHand
      BY <1>2, <2>1, SameHands DEF ReadDue
    <2>4. UNCHANGED <<ready, scheduled, due, queued, filed, finished, dropped, lost>>
      BY <1>2 DEF ReadDue, ingestVars, redisVars, fateVars
    <2>5. \A v \in Worker : batch'[v] = batch[v] \/ batch'[v] = q
      BY <2>1 DEF Typed, TypeOK
    <2>6. Members(ready)' = Members(ready) /\ Delayed' = Delayed /\ Fated' = Fated
      BY <2>4 DEF Members, Delayed, Fated
    <2> QED
      BY <2>2, <2>3, <2>4, <2>5, <2>6, OthersQueued
  <1>3. CASE Push(w)
    <2>1. Members(ready)' = Members(ready) \cup Members(batch[w])
      <3>1. ready \in Seq(Entry) /\ batch[w] \in Seq(Entry)
        BY DEF Typed, TypeOK
      <3>2. Members(ready \o batch[w]) = Members(ready) \cup Members(batch[w])
        BY <3>1, MembersOf
      <3> QED
        BY <1>3, <3>2 DEF Push
    <2>2. InHand' = InHand
      BY <1>3, SameHands DEF Push
    <2>3. UNCHANGED <<batch, queued, filed>> /\ Delayed' = Delayed /\ Fated' = Fated
      BY <1>3 DEF Push, ingestVars, fateVars, Delayed, Fated
    <2> QED
      BY <2>1, <2>2, <2>3, OthersQueued
  <1>4. CASE Unschedule(w)
    <2>1. InHand' = InHand
      BY <1>4, SameHands DEF Unschedule
    <2>2. UNCHANGED <<queued, filed>> /\ Delayed' \subseteq Delayed /\ Fated' = Fated
          /\ Members(ready)' = Members(ready)
      BY <1>4 DEF Unschedule, ingestVars, fateVars, Delayed, Fated, Members
    <2>3. \A v \in Worker : batch'[v] = batch[v] \/ batch'[v] = <<>>
      BY <1>4 DEF Unschedule, Typed, TypeOK
    <2> QED
      BY <1>1, <2>1, <2>2, <2>3, OthersQueued
  <1>5. CASE Pop(w)
    <2>1. UNCHANGED <<queued, filed, batch>> /\ Delayed' = Delayed
      BY <1>5 DEF Pop, ingestVars, Delayed
    <2>2. CASE ready = <<>>
      <3>1. InHand' = InHand
        BY <1>5, <2>2, SameHands DEF Pop
      <3>2. Members(ready)' = Members(ready) /\ Fated' = Fated
        BY <1>5, <2>2 DEF Pop, Members, Fated
      <3> QED
        BY <2>1, <3>1, <3>2, OthersQueued
    <2>3. CASE ready # <<>>
      <3>1. PICK h : h = Head(ready)
        OBVIOUS
      <3>2. ready' = Tail(ready) /\ ready \in Seq(Entry)
        BY <1>5, <2>3 DEF Pop, Typed, TypeOK
      <3>3. h \in Entry /\ Members(ready) = {h} \cup Members(ready')
        BY <2>3, <3>1, <3>2, MembersOf
      <3>4. \A v \in Worker : \/ at'[v] = at[v] /\ hand'[v] = hand[v]
                              \/ at'[v] # "run"
                              \/ hand'[v] = h
        BY <1>5, <2>3, <3>1 DEF Pop, Typed, TypeOK
      <3>5. InHand' \subseteq InHand \cup {h}
        BY <3>4 DEF InHand
      <3>6. Fated' \subseteq Fated \cup {h.task}
        BY <1>5, <2>3, <3>1 DEF Pop, Fated
      <3>7. Members(ready)' \subseteq Members(ready) /\ h \in Members(ready)
        BY <3>3
      <3> QED
        BY <2>1, <3>5, <3>6, <3>7, OthersQueued
    <2> QED
      BY <2>2, <2>3
  <1>6. CASE Succeed(w) \/ Fail(w) \/ Cut(w)
    <2> DEFINE y == [task |-> hand[w].task, attempts |-> hand[w].attempts + 1]
    <2>1. UNCHANGED <<ready, queued, filed>> /\ PutDown(w)
      BY <1>6 DEF Succeed, Fail, Cut, ingestVars, redisVars
    <2>2. InHand' \subseteq InHand /\ (at[w] = "run" => hand[w] \in InHand)
      BY <2>1, PutDownHands DEF InHand
    <2>3. y.task = hand[w].task
      OBVIOUS
    <2>4. Delayed' \subseteq Delayed \cup {y} /\ (at[w] = "run" \/ Delayed' = Delayed)
      BY <1>6 DEF Succeed, Fail, Cut, Schedule, Delayed, redisVars
    <2>5. Fated' \subseteq Fated \cup {hand[w].task} /\ (at[w] = "run" \/ Fated' = Fated)
      BY <1>6 DEF Succeed, Fail, Cut, Fated
    <2>6. \A v \in Worker : batch'[v] = batch[v] \/ batch'[v] = <<>>
      BY <1>6 DEF Succeed, Fail, Cut, Typed, TypeOK
    <2>7. Members(ready)' = Members(ready)
      BY <2>1 DEF Members
    <2> HIDE DEF y
    <2> QED
      BY <1>1, <2>1, <2>2, <2>3, <2>4, <2>5, <2>6, <2>7, OthersQueued
  <1> QED
    BY <1>2, <1>3, <1>4, <1>5, <1>6 DEF Round

LEMMA NextQueued == IInv /\ OnlyQueued /\ [Next]_vars => OnlyQueued'
  <1> SUFFICES ASSUME IInv, OnlyQueued, [Next]_vars PROVE OnlyQueued'
    OBVIOUS
  <1>1. ASSUME NEW e \in scheduled, BecomesDue(e) PROVE OnlyQueued'
    <2>1. Delayed' = Delayed /\ Members(ready)' = Members(ready) /\ InHand' = InHand /\ Fated' = Fated
          /\ UNCHANGED <<queued, filed, batch>>
      BY <1>1 DEF BecomesDue, Delayed, Members, InHand, Fated, ingestVars, fateVars
    <2> QED
      BY <2>1, OthersQueued
  <1>2. CASE UNCHANGED vars
    BY <1>2 DEF vars, OnlyQueued, Members, InHand, Delayed, Fated
  <1> QED
    BY <1>1, <1>2, IngestQueued, RoundQueued DEF Next

\* So the open tasks of TaskFates are those that were queued and have no fate yet.
Opened == {t \in Task : Held(t)} \ Fated
Made == {e \in Entry : runs[e.task][e.attempts] > 0}
fatesVars == <<Opened, Made, finished, dropped, lost, faults>>

LEMMA OpenIsQueued == ASSUME IInv, OnlyQueued PROVE Opened = queued \ Fated
  <1>1. queued \subseteq Task
    BY DEF IInv, Typed, TypeOK
  <1>2. \A t : Held(t) => t \in queued
    BY HeldIn DEF OnlyQueued
  <1>3. \A t \in queued : Held(t) \/ t \in Fated
    BY DEF IInv, Accounted, Fated
  <1> QED
    BY <1>1, <1>2, <1>3 DEF Opened

LEMMA TypedFates ==
    ASSUME IInv
    PROVE  /\ Made \subseteq Entry
           /\ \A t \in Task, a \in 0..MaxRetries :
                 /\ [task |-> t, attempts |-> a] \in Made <=> runs[t][a] > 0
                 /\ [task |-> t, attempts |-> a] \in Entry
  BY DEF Made, Entry

\* Who pops a task with a handler makes an attempt that is due.
LEMMA PopTries ==
    ASSUME IInv, OnlyQueued, Opened = queued \ Fated, Opened' = (queued \ Fated)',
           NEW w \in Worker, Pop(w)
    PROVE  TF!Next \/ UNCHANGED fatesVars
  <1>1. CASE ready = <<>>
    BY <1>1 DEF Pop, ingestVars, fatesVars, Made, Fated
  <1>2. CASE ready # <<>>
    <2>0. PICK h : h = Head(ready)
      OBVIOUS
    <2>1. h \in Members(ready)
      BY <1>2, <2>0, MembersOf DEF IInv, Typed, TypeOK
    <2>2. h \in Entry /\ Before(h) /\ h.task \in queued
      BY <2>1, AreEntries DEF IInv, AttemptsMade, OnlyQueued
    <2>3. h.task \in Task /\ h.attempts \in 0..MaxRetries
      BY <2>2, AreEntries DEF IInv
    <2>4. PICK t \in Task, a \in 0..MaxRetries : t = h.task /\ a = h.attempts
      BY <2>3
    <2>5. UNCHANGED <<queued, faults, finished, lost>>
      BY DEF Pop, ingestVars
    <2>6. t \in Opened \cup Fated
      BY <2>2, <2>4
    <2>7. CASE t \in Handled
      <3>1. runs' = [runs EXCEPT ![t][a] = @ + 1] /\ dropped' = dropped
        BY <1>2, <2>0, <2>4, <2>7 DEF Pop
      <3>2. Made' = Made \cup {[task |-> t, attempts |-> a]}
        <4>1. runs \in [Task -> [0..MaxRetries -> Nat]]
          BY DEF IInv, Typed, TypeOK
        <4>2. PICK f : f = [runs[t] EXCEPT ![a] = @ + 1]
          OBVIOUS
        <4>3. f[a] > 0 /\ \A b \in 0..MaxRetries : b # a => f[b] = runs[t][b]
          <5>1. PICK g : g = runs[t]
            OBVIOUS
          <5>2. g \in [0..MaxRetries -> Nat]
            BY <4>1, <5>1
          <5>3. f = [g EXCEPT ![a] = @ + 1]
            BY <4>2, <5>1
          <5>4. f[a] = g[a] + 1 /\ g[a] \in Nat
            BY <5>2, <5>3
          <5>5. \A b \in 0..MaxRetries : b # a => f[b] = g[b]
            BY <5>2, <5>3
          <5> QED
            BY <5>1, <5>4, <5>5
        <4>4. runs'[t] = f /\ \A u \in Task : u # t => runs'[u] = runs[u]
          BY <3>1, <4>1, <4>2
        <4>5. ASSUME NEW e \in Entry PROVE e \in Made' <=> e \in Made \/ e = [task |-> t, attempts |-> a]
          <5>1. e.task \in Task /\ e.attempts \in 0..MaxRetries
                /\ e = [task |-> e.task, attempts |-> e.attempts]
            BY DEF Entry
          <5>2. CASE e.task = t /\ e.attempts = a
            BY <4>3, <4>4, <5>1, <5>2 DEF Made
          <5>3. CASE e.task = t /\ e.attempts # a
            BY <4>3, <4>4, <5>1, <5>3 DEF Made
          <5>4. CASE e.task # t
            BY <4>4, <5>1, <5>4 DEF Made
          <5> QED
            BY <5>2, <5>3, <5>4
        <4> QED
          BY <4>5, TypedFates DEF Made
      <3>3. Opened' = Opened
        BY <2>5, <3>1 DEF Fated
      <3>4. a # 0 => [task |-> t, attempts |-> a - 1] \in Made
        <4> SUFFICES ASSUME a # 0 PROVE [task |-> t, attempts |-> a - 1] \in Made
          OBVIOUS
        <4>1. a - 1 \in 0..MaxRetries /\ a - 1 < a
          BY BoundsAssumption
        <4>2. runs[t][a - 1] > 0
          BY <2>2, <2>4, <2>7, <4>1 DEF Before
        <4> QED
          BY <4>1, <4>2, TypedFates
      <3>5. TF!Try(t, a)
        BY <2>5, <2>6, <2>7, <3>1, <3>2, <3>3, <3>4
        DEF TF!Try, TF!Known, TF!Settled, TF!Tried, Opened, Made, Fated
      <3> QED
        BY <3>5 DEF TF!Next
    <2>8. CASE t \notin Handled
      <3>1. dropped' = dropped \cup {t} /\ runs' = runs
        BY <1>2, <2>0, <2>4, <2>8 DEF Pop
      <3>2. Opened' = Opened \ {t} /\ Made' = Made
        BY <2>5, <3>1 DEF Fated, Made
      <3>3. TF!GiveUp(t)
        BY <2>5, <2>6, <2>8, <3>1, <3>2
        DEF TF!GiveUp, TF!Close, TF!Known, TF!Settled, Opened, Made, Fated
      <3> QED
        BY <3>3 DEF TF!Next
    <2> QED
      BY <2>7, <2>8
  <1> QED
    BY <1>1, <1>2

\* Who has a task in hand has made its attempt, and all before it.
LEMMA EndSettles ==
    ASSUME IInv, OnlyQueued, Opened = queued \ Fated, Opened' = (queued \ Fated)',
           NEW w \in Worker, Succeed(w) \/ Fail(w) \/ Cut(w)
    PROVE  TF!Next \/ UNCHANGED fatesVars
  <1>1. queued' = queued /\ runs' = runs /\ Made' = Made
    BY DEF Succeed, Fail, Cut, ingestVars, Made
  <1>2. CASE at[w] # "run"
    <2>1. UNCHANGED <<finished, dropped, lost>> /\ faults' = faults + 1
      BY <1>2 DEF Succeed, Fail, Cut, Fault
    <2>2. Opened' = Opened
      BY <1>1, <2>1 DEF Fated
    <2>3. TF!Fault
      BY <1>1, <2>1, <2>2 DEF TF!Fault, Opened, Made, Fated
    <2> QED
      BY <2>3 DEF TF!Next
  <1>3. CASE at[w] = "run"
    <2>1. hand[w] \in Entry /\ Before(hand[w]) /\ runs[hand[w].task][hand[w].attempts] > 0
      BY <1>3 DEF IInv, AttemptsMade
    <2>2. PICK t \in Task, a \in 0..MaxRetries : t = hand[w].task /\ a = hand[w].attempts
      BY <2>1 DEF Entry
    <2>3. [task |-> t, attempts |-> a] \in Made
      BY <2>1, <2>2, TypedFates
    <2>4. t \in Opened \cup Fated
      <3>1. t \in queued
        BY <1>3, <2>2 DEF OnlyQueued, InHand
      <3> QED
        BY <3>1
    <2>5. CASE Succeed(w)
      <3>1. finished' = finished \cup {t} /\ UNCHANGED <<dropped, lost, faults>>
        BY <2>2, <2>5 DEF Succeed
      <3>2. Opened' = Opened \ {t}
        BY <1>1, <3>1 DEF Fated
      <3>3. TF!Succeed(t)
        BY <1>1, <2>3, <2>4, <3>1, <3>2
        DEF TF!Succeed, TF!Close, TF!Known, TF!Settled, TF!Tried, Opened, Made, Fated
      <3> QED
        BY <3>3 DEF TF!Next
    <2>6. CASE Cut(w)
      <3>1. lost' = lost \cup {t} /\ UNCHANGED <<finished, dropped>> /\ faults' = faults + 1
        BY <1>3, <2>2, <2>6 DEF Cut, Fault
      <3>2. Opened' = Opened \ {t}
        BY <1>1, <3>1 DEF Fated
      <3>3. TF!Lose(t)
        BY <1>1, <2>3, <2>4, <3>1, <3>2
        DEF TF!Lose, TF!Close, TF!Known, TF!Settled, TF!Tried, Opened, Made, Fated
      <3> QED
        BY <3>3 DEF TF!Next
    <2>7. CASE Fail(w) /\ a + 1 > MaxRetries
      <3>1. dropped' = dropped \cup {t} /\ UNCHANGED <<finished, lost, faults>>
        BY <2>2, <2>7 DEF Fail
      <3>2. Opened' = Opened \ {t}
        BY <1>1, <3>1 DEF Fated
      <3>3. ASSUME t \in Handled, NEW b \in 0..MaxRetries PROVE [task |-> t, attempts |-> b] \in Made
        <4>1. b < a \/ b = a
          BY <2>7, BoundsAssumption
        <4>2. runs[t][b] > 0
          BY <2>1, <2>2, <3>3, <4>1 DEF Before
        <4> QED
          BY <4>2, TypedFates
      <3>4. TF!GiveUp(t)
        BY <1>1, <2>4, <3>1, <3>2, <3>3
        DEF TF!GiveUp, TF!Close, TF!Known, TF!Settled, TF!Tried, Opened, Made, Fated
      <3> QED
        BY <3>4 DEF TF!Next
    <2>8. CASE Fail(w) /\ ~(a + 1 > MaxRetries)
      BY <1>1, <2>2, <2>8 DEF Fail, fatesVars, Fated
    <2> QED
      BY <2>5, <2>6, <2>7, <2>8
  <1> QED
    BY <1>2, <1>3

LEMMA IngestOpens ==
    ASSUME IInv, OnlyQueued, Opened = queued \ Fated, Opened' = (queued \ Fated)',
           NEW t \in Task, Persist(t) \/ Enqueue(t) \/ IngestCut(t)
    PROVE  TF!Next \/ UNCHANGED fatesVars
  <1>1. UNCHANGED <<finished, dropped, lost>> /\ Made' = Made /\ Fated' = Fated
    BY DEF Persist, Enqueue, IngestCut, redisVars, fateVars, Made, Fated
  <1>2. CASE queued' = queued /\ faults' = faults
    BY <1>1, <1>2 DEF fatesVars
  <1>3. CASE queued' = queued /\ faults' = faults + 1
    <2>1. TF!Fault
      BY <1>1, <1>3 DEF TF!Fault, Opened, Made, Fated
    <2> QED
      BY <2>1 DEF TF!Next
  <1>4. CASE Enqueue(t) /\ queued' = queued \cup {t} /\ faults' = faults
    <2>1. t \notin queued
      BY <1>4 DEF Enqueue, OnlyQueued
    <2>2. t \notin Opened \cup Fated
      BY <2>1 DEF OnlyQueued
    <2>3. Opened' = Opened \cup {t}
      BY <1>1, <1>4, <2>2
    <2>4. TF!Enqueue(t)
      BY <1>1, <1>4, <2>2, <2>3 DEF TF!Enqueue, TF!Known, TF!Settled, Opened, Made, Fated
    <2> QED
      BY <2>4 DEF TF!Next
  <1> QED
    BY <1>2, <1>3, <1>4 DEF Persist, Enqueue, IngestCut, ingestVars, redisVars, Fault

LEMMA StepKeepsFates ==
    ASSUME IInv, OnlyQueued, Opened = queued \ Fated, Opened' = (queued \ Fated)', [Next]_vars
    PROVE  TF!Next \/ UNCHANGED fatesVars
  <1>1. ASSUME NEW w \in Worker, ReadDue(w) \/ Push(w) \/ Unschedule(w) PROVE UNCHANGED fatesVars
    BY <1>1 DEF ReadDue, Push, Unschedule, ingestVars, fateVars, fatesVars, Made, Fated
  <1>2. ASSUME NEW e \in scheduled, BecomesDue(e) PROVE UNCHANGED fatesVars
    BY <1>2 DEF BecomesDue, ingestVars, fateVars, fatesVars, Made, Fated
  <1>3. CASE UNCHANGED vars
    BY <1>3 DEF vars, fatesVars, Made, Fated
  <1> QED
    BY <1>1, <1>2, <1>3, IngestOpens, PopTries, EndSettles DEF Next, Round

\* The queue implements what TaskFates promises of it, however drains of any
\* number of workers interleave and wherever they are cut off.
THEOREM QueueKeepsFates == Spec => KeepsFates
  <1>1. Init => TF!Init /\ OnlyQueued
    <2> SUFFICES ASSUME Init PROVE TF!Init /\ OnlyQueued
      OBVIOUS
    <2>1. Members(<<>>) = {}
      BY DEF Members
    <2>2. \A t : ~Held(t)
      BY <2>1 DEF Init, Held
    <2>3. Made = {}
      BY DEF Init, Made, Entry
    <2> QED
      BY <2>1, <2>2, <2>3 DEF Init, TF!Init, OnlyQueued, InHand, Delayed, Fated, Made
  <1>2. IInv /\ OnlyQueued => Opened = queued \ Fated
    BY OpenIsQueued
  <1>3. IInv /\ OnlyQueued /\ Opened = queued \ Fated /\ (Opened = queued \ Fated)' /\ [Next]_vars
            => [TF!Next]_<<{t \in Task : Held(t)} \ (finished \cup dropped \cup lost),
                           {e \in Entry : runs[e.task][e.attempts] > 0},
                           finished, dropped, lost, faults>>
    BY StepKeepsFates DEF fatesVars, Opened, Made, Fated
  <1> QED
    BY InitInv, NextInv, NextQueued, <1>1, <1>2, <1>3, PTL DEF Spec, KeepsFates, TF!Spec

-----------------------------------------------------------------------------
(* How often an attempt is handled. *)

W == Cardinality(Worker)

EntryOf(t, a) == [task |-> t, attempts |-> a]
Positions(q, e) == {i \in DOMAIN q : q[i] = e}

\* Workers that may push e once more before they read the schedule again: they
\* have read it, or can while it is there, unless they have pushed it already.
Draining(w, e) == at[w] \in {"push", "remove"} /\ e \in Members(batch[w])
MayPush(w, e) == \/ at[w] = "push" /\ e \in Members(batch[w])
                 \/ e \in Delayed /\ ~Draining(w, e)
Pushers(e) == {w \in Worker : MayPush(w, e)}
Runners(e) == {w \in Worker : at[w] = "run" /\ hand[w] = e}

\* Attempt a of t, as it was or will be handled: the former have been pushed.
Pushed(t, a) == runs[t][a] + Cardinality(Positions(ready, EntryOf(t, a)))
Demand(t, a) == Pushed(t, a) + Cardinality(Pushers(EntryOf(t, a)))

\* A retry is scheduled when the attempt before it ends, and then every worker
\* may push it; so does a worker that was cut off, once more.
RunnersBefore(t, a) == Cardinality(Runners(EntryOf(t, a - 1)))
RetryIsPaid(t, a) == Demand(t, a) + W * RunnersBefore(t, a) <= W * runs[t][a - 1] + faults

\* A task is filed once ...
PushedOnce(t) == Pushed(t, 0) <= (IF filed[t] = "answered" THEN 1 ELSE 0)

\* ... and its first attempt is never in the schedule.
OnlyRetries ==
    /\ \A e \in Delayed : e.attempts > 0
    /\ \A w \in Worker : \A e \in Members(batch[w]) : e.attempts > 0

NoneTwice(q) == \A i, j \in DOMAIN q : q[i] = q[j] => i = j

RInv ==
    /\ \A t \in Task : PushedOnce(t) /\ \A a \in 1..MaxRetries : RetryIsPaid(t, a)
    /\ OnlyRetries
    /\ \A w \in Worker : NoneTwice(batch[w])

\* The three ways in which a step changes demand and supply.
LEMMA Budget ==
    ASSUME NEW n \in Nat, NEW d \in Nat, NEW g \in Nat, NEW r \in Nat, NEW f \in Nat,
           NEW d2 \in Nat, NEW g2 \in Nat, NEW r2 \in Nat, NEW f2 \in Nat,
           d + n * g <= n * r + f,
           \/ d2 + f <= d + f2 /\ g2 = g /\ r2 = r
           \/ d2 <= d + n /\ g2 + 1 = g /\ r2 = r /\ f <= f2
           \/ d2 <= d /\ g2 = g + 1 /\ r2 = r + 1 /\ f2 = f
    PROVE  d2 + n * g2 <= n * r2 + f2
  <1>1. \A k \in Nat : n * (k + 1) = n * k + n /\ n * k \in Nat
    OBVIOUS
  <1>2. CASE d2 + f <= d + f2 /\ g2 = g /\ r2 = r
    BY <1>1, <1>2
  <1>3. CASE d2 <= d + n /\ g2 + 1 = g /\ r2 = r /\ f <= f2
    BY <1>1, <1>3
  <1>4. CASE d2 <= d /\ g2 = g + 1 /\ r2 = r + 1 /\ f2 = f
    BY <1>1, <1>4
  <1> QED
    BY <1>2, <1>3, <1>4

LEMMA PositionsFinite ==
    ASSUME NEW S, NEW q \in Seq(S), NEW e
    PROVE  /\ IsFiniteSet(Positions(q, e)) /\ Cardinality(Positions(q, e)) \in Nat
           /\ Positions(q, e) \subseteq 1..Len(q)
  <1>1. DOMAIN q = 1..Len(q) /\ Len(q) \in Nat
    OBVIOUS
  <1>2. IsFiniteSet(1..Len(q))
    BY <1>1, FS_Interval
  <1>3. Positions(q, e) \subseteq 1..Len(q)
    BY <1>1 DEF Positions
  <1> QED
    BY <1>2, <1>3, FS_Subset, FS_CardinalityType

LEMMA PositionsAppend ==
    ASSUME NEW S, NEW q \in Seq(S), NEW x \in S, NEW e
    PROVE  Cardinality(Positions(Append(q, x), e))
              = Cardinality(Positions(q, e)) + (IF x = e THEN 1 ELSE 0)
  <1>1. DOMAIN q = 1..Len(q) /\ Len(q) \in Nat
    OBVIOUS
  <1>2. DOMAIN Append(q, x) = 1..(Len(q) + 1) /\ Append(q, x)[Len(q) + 1] = x
        /\ \A i \in 1..Len(q) : Append(q, x)[i] = q[i]
    BY <1>1
  <1>3. \A i \in 1..(Len(q) + 1) : i = Len(q) + 1 \/ i \in 1..Len(q)
    BY <1>1
  <1>4. Len(q) + 1 \notin 1..Len(q) /\ Len(q) + 1 \in 1..(Len(q) + 1)
        /\ \A i \in 1..Len(q) : i \in 1..(Len(q) + 1)
    BY <1>1
  <1>5. CASE x = e
    <2>1. Positions(Append(q, x), e) = Positions(q, e) \cup {Len(q) + 1}
      BY <1>1, <1>2, <1>3, <1>4, <1>5 DEF Positions
    <2>2. Len(q) + 1 \notin Positions(q, e)
      BY <1>1, <1>4 DEF Positions
    <2> QED
      BY <1>5, <2>1, <2>2, PositionsFinite, FS_AddElement
  <1>6. CASE x # e
    <2>1. Positions(Append(q, x), e) = Positions(q, e)
      BY <1>1, <1>2, <1>3, <1>4, <1>6 DEF Positions
    <2> QED
      BY <1>6, <2>1, PositionsFinite
  <1> QED
    BY <1>5, <1>6

LEMMA PositionsTail ==
    ASSUME NEW S, NEW q \in Seq(S), q # <<>>, NEW e
    PROVE  Cardinality(Positions(q, e))
              = Cardinality(Positions(Tail(q), e)) + (IF Head(q) = e THEN 1 ELSE 0)
  <1> DEFINE P == Positions(Tail(q), e)
             Q == Positions(q, e) \ {1}
             f == [i \in P |-> i + 1]
  <1>1. /\ Len(q) \in Nat /\ Len(q) > 0 /\ DOMAIN q = 1..Len(q) /\ Tail(q) \in Seq(S)
        /\ DOMAIN Tail(q) = 1..(Len(q) - 1)
        /\ \A i \in 1..(Len(q) - 1) : Tail(q)[i] = q[i + 1]
        /\ Head(q) = q[1]
    OBVIOUS
  <1>2. IsFiniteSet(P) /\ Cardinality(P) \in Nat /\ P \subseteq Nat
    <2>1. Len(Tail(q)) \in Nat
      BY <1>1
    <2>2. 1..Len(Tail(q)) \subseteq Nat
      BY <2>1
    <2> QED
      BY <1>1, <2>2, PositionsFinite
  <1>3. \A i \in P : i + 1 \in Q
    <2> SUFFICES ASSUME NEW i \in P PROVE i + 1 \in Q
      OBVIOUS
    <2>1. i \in 1..(Len(q) - 1) /\ Tail(q)[i] = e
      BY <1>1 DEF Positions
    <2>2. i + 1 \in 1..Len(q) /\ i + 1 # 1 /\ q[i + 1] = e
      BY <1>1, <2>1
    <2> QED
      BY <1>1, <2>2 DEF Positions
  <1>4. \A k \in Q : \E i \in P : k = i + 1
    <2> SUFFICES ASSUME NEW k \in Q PROVE \E i \in P : k = i + 1
      OBVIOUS
    <2>1. k \in 1..Len(q) /\ k # 1 /\ q[k] = e
      BY <1>1 DEF Positions
    <2>2. k - 1 \in 1..(Len(q) - 1) /\ k = (k - 1) + 1
      BY <1>1, <2>1
    <2>3. Tail(q)[k - 1] = e
      BY <1>1, <2>1, <2>2
    <2>4. k - 1 \in P
      BY <1>1, <2>2, <2>3 DEF Positions
    <2> QED
      BY <2>2, <2>4
  <1> HIDE DEF P, Q
  <1>5. f \in Bijection(P, Q)
    <2>1. f \in [P -> Q] /\ \A i, j \in P : f[i] = f[j] => i = j
      BY <1>2, <1>3
    <2>2. \A k \in Q : \E i \in P : f[i] = k
      BY <1>4
    <2> QED
      BY <2>1, <2>2 DEF Bijection, Injection, IsInjective, Surjection
  <1>6. IsFiniteSet(Q) /\ Cardinality(Q) = Cardinality(P)
    BY <1>2, <1>5, FS_Bijection DEF ExistsBijection
  <1>7. Positions(q, e) = Q \cup (IF Head(q) = e THEN {1} ELSE {}) /\ 1 \notin Q
    BY <1>1 DEF Positions, Q
  <1>8. Cardinality(Q \cup {1}) = Cardinality(Q) + 1
    BY <1>2, <1>6, <1>7, FS_AddElement
  <1>9. CASE Head(q) = e
    BY <1>2, <1>6, <1>7, <1>8, <1>9 DEF P
  <1>10. CASE Head(q) # e
    <2>1. Positions(q, e) = Q
      BY <1>7, <1>10
    <2> QED
      BY <1>2, <1>6, <1>10, <2>1 DEF P
  <1> QED
    BY <1>9, <1>10

LEMMA PositionsConcat ==
    ASSUME NEW S, NEW q \in Seq(S), NEW r \in Seq(S), NoneTwice(r), NEW e
    PROVE  Cardinality(Positions(q \o r, e))
              = Cardinality(Positions(q, e)) + (IF e \in Members(r) THEN 1 ELSE 0)
  <1>1. /\ DOMAIN q = 1..Len(q) /\ Len(q) \in Nat /\ DOMAIN r = 1..Len(r) /\ Len(r) \in Nat
        /\ DOMAIN (q \o r) = 1..(Len(q) + Len(r))
    OBVIOUS
  <1>2. \A i \in 1..Len(q) : (q \o r)[i] = q[i]
    BY <1>1
  <1>3. \A i \in 1..Len(r) : (q \o r)[Len(q) + i] = r[i]
    BY <1>1
  <1>4. \A k \in 1..(Len(q) + Len(r)) :
           k \in 1..Len(q) \/ (k - Len(q) \in 1..Len(r) /\ k = Len(q) + (k - Len(q)))
    BY <1>1
  <1>5. /\ \A i \in 1..Len(q) : i \in 1..(Len(q) + Len(r))
        /\ \A i \in 1..Len(r) : Len(q) + i \in 1..(Len(q) + Len(r)) /\ Len(q) + i \notin 1..Len(q)
    BY <1>1
  <1>6. CASE e \notin Members(r)
    <2>1. Positions(q \o r, e) = Positions(q, e)
      BY <1>1, <1>2, <1>3, <1>4, <1>5, <1>6 DEF Positions, Members
    <2> QED
      BY <1>6, <2>1, PositionsFinite
  <1>7. CASE e \in Members(r)
    <2>1. PICK j \in 1..Len(r) : r[j] = e /\ \A i \in 1..Len(r) : r[i] = e => i = j
      BY <1>1, <1>7 DEF Members, NoneTwice
    <2>2. Positions(q \o r, e) \subseteq Positions(q, e) \cup {Len(q) + j}
      <3> SUFFICES ASSUME NEW k \in 1..(Len(q) + Len(r)), (q \o r)[k] = e
                   PROVE  k \in Positions(q, e) \/ k = Len(q) + j
        BY <1>1 DEF Positions
      <3>1. CASE k \in 1..Len(q)
        BY <1>1, <1>2, <3>1 DEF Positions
      <3>2. CASE k - Len(q) \in 1..Len(r) /\ k = Len(q) + (k - Len(q))
        <4>1. (q \o r)[k] = r[k - Len(q)]
          BY <1>3, <3>2
        <4>2. k - Len(q) = j
          BY <2>1, <3>2, <4>1
        <4> QED
          BY <3>2, <4>2
      <3> QED
        BY <1>4, <3>1, <3>2
    <2>3. Positions(q, e) \cup {Len(q) + j} \subseteq Positions(q \o r, e)
      BY <1>1, <1>2, <1>3, <1>5, <2>1 DEF Positions
    <2>4. Len(q) + j \notin Positions(q, e)
      BY <1>1, <1>5, <2>1 DEF Positions
    <2>5. Positions(q \o r, e) = Positions(q, e) \cup {Len(q) + j}
      BY <2>2, <2>3
    <2> QED
      BY <1>7, <2>4, <2>5, PositionsFinite, FS_AddElement
  <1> QED
    BY <1>6, <1>7

LEMMA Subsets ==
    ASSUME IsFiniteSet(Worker), NEW S \in SUBSET Worker
    PROVE  /\ IsFiniteSet(S) /\ Cardinality(S) \in Nat /\ W \in Nat /\ Cardinality(S) <= W
  BY FS_Subset, FS_CardinalityType DEF W

\* All of it are numbers, before a step and after.
LEMMA Numbers ==
    ASSUME IsFiniteSet(Worker), Typed, Typed', NEW t \in Task, NEW a \in 0..MaxRetries
    PROVE  /\ runs[t][a] \in Nat /\ runs'[t][a] \in Nat
           /\ Cardinality(Positions(ready, EntryOf(t, a))) \in Nat
           /\ Cardinality(Positions(ready', EntryOf(t, a))) \in Nat
           /\ Pushed(t, a) \in Nat /\ Pushed(t, a)' \in Nat
           /\ Demand(t, a) \in Nat /\ Demand(t, a)' \in Nat
           /\ W \in Nat /\ faults \in Nat /\ faults' \in Nat
  <1>1. runs[t][a] \in Nat /\ runs'[t][a] \in Nat /\ ready \in Seq(Entry) /\ ready' \in Seq(Entry)
        /\ faults \in Nat /\ faults' \in Nat
    BY DEF Typed, TypeOK
  <1>2. /\ Cardinality(Positions(ready, EntryOf(t, a))) \in Nat
        /\ Cardinality(Positions(ready', EntryOf(t, a))) \in Nat
    BY <1>1, PositionsFinite
  <1>3. /\ Cardinality(Pushers(EntryOf(t, a))) \in Nat /\ Cardinality(Pushers(EntryOf(t, a))') \in Nat
        /\ W \in Nat
    <2>1. Pushers(EntryOf(t, a)) \in SUBSET Worker /\ Pushers(EntryOf(t, a))' \in SUBSET Worker
      BY DEF Pushers
    <2> QED
      BY <2>1, Subsets
  <1>4. Pushed(t, a) \in Nat /\ Pushed(t, a)' \in Nat
    <2>1. Pushed(t, a)' = runs'[t][a] + Cardinality(Positions(ready', EntryOf(t, a)))
      BY DEF Pushed, Positions
    <2>2. Pushed(t, a) \in Nat
      BY <1>1, <1>2 DEF Pushed
    <2>3. Pushed(t, a)' \in Nat
      BY <1>1, <1>2, <2>1
    <2> QED
      BY <2>2, <2>3
  <1>5. Demand(t, a) \in Nat /\ Demand(t, a)' \in Nat
    BY <1>3, <1>4 DEF Demand
  <1> QED
    BY <1>1, <1>2, <1>3, <1>4, <1>5

\* What a step may do to an attempt and the one before it.
Change(t, a) ==
    \/ /\ Demand(t, a)' + faults <= Demand(t, a) + faults'
       /\ RunnersBefore(t, a)' = RunnersBefore(t, a) /\ runs'[t][a - 1] = runs[t][a - 1]
    \/ /\ Demand(t, a)' <= Demand(t, a) + W
       /\ RunnersBefore(t, a)' + 1 = RunnersBefore(t, a) /\ runs'[t][a - 1] = runs[t][a - 1]
       /\ faults <= faults'
    \/ /\ Demand(t, a)' <= Demand(t, a)
       /\ RunnersBefore(t, a)' = RunnersBefore(t, a) + 1 /\ runs'[t][a - 1] = runs[t][a - 1] + 1
       /\ faults' = faults

LEMMA ChangeIsPaid ==
    ASSUME IsFiniteSet(Worker), Typed, Typed', NEW t \in Task, NEW a \in 1..MaxRetries,
           RetryIsPaid(t, a), Change(t, a)
    PROVE  RetryIsPaid(t, a)'
  <1>1. a \in 0..MaxRetries /\ a - 1 \in 0..MaxRetries
    BY BoundsAssumption
  <1>2. /\ Demand(t, a) \in Nat /\ Demand(t, a)' \in Nat /\ W \in Nat /\ faults \in Nat /\ faults' \in Nat
        /\ runs[t][a - 1] \in Nat /\ runs'[t][a - 1] \in Nat
    BY <1>1, Numbers
  <1>3. RunnersBefore(t, a) \in Nat /\ RunnersBefore(t, a)' \in Nat
    <2>1. Runners(EntryOf(t, a - 1)) \in SUBSET Worker /\ Runners(EntryOf(t, a - 1))' \in SUBSET Worker
      BY DEF Runners
    <2> QED
      BY <2>1, Subsets DEF RunnersBefore
  <1> QED
    BY <1>2, <1>3, Budget DEF Change, RetryIsPaid

\* A step that changes neither who runs, nor what was pushed, nor who may push.
LEMMA NothingPushed ==
    ASSUME IsFiniteSet(Worker), Typed, Typed', RInv, UNCHANGED runs, faults <= faults',
           \A e \in Entry : /\ Positions(ready', e) = Positions(ready, e)
                            /\ Pushers(e)' \subseteq Pushers(e)
                            /\ Runners(e)' = Runners(e)
    PROVE  \A t \in Task, a \in 1..MaxRetries : Change(t, a)
  <1> SUFFICES ASSUME NEW t \in Task, NEW a \in 1..MaxRetries PROVE Change(t, a)
    OBVIOUS
  <1>1. a \in 0..MaxRetries /\ a - 1 \in 0..MaxRetries
    BY BoundsAssumption
  <1>2. EntryOf(t, a) \in Entry /\ EntryOf(t, a - 1) \in Entry
    BY <1>1 DEF Entry, EntryOf
  <1>3. Cardinality(Pushers(EntryOf(t, a))') <= Cardinality(Pushers(EntryOf(t, a)))
    <2>1. Pushers(EntryOf(t, a)) \in SUBSET Worker
      BY DEF Pushers
    <2> QED
      BY <1>2, <2>1, Subsets, FS_Subset
  <1>4. /\ Cardinality(Pushers(EntryOf(t, a))) \in Nat /\ Cardinality(Pushers(EntryOf(t, a))') \in Nat
    <2>1. Pushers(EntryOf(t, a)) \in SUBSET Worker /\ Pushers(EntryOf(t, a))' \in SUBSET Worker
      BY DEF Pushers
    <2> QED
      BY <2>1, Subsets
  <1>5. Pushed(t, a)' = Pushed(t, a) /\ Pushed(t, a) \in Nat /\ faults \in Nat /\ faults' \in Nat
    BY <1>1, <1>2, Numbers DEF Pushed
  <1>6. RunnersBefore(t, a)' = RunnersBefore(t, a)
    BY <1>2 DEF RunnersBefore
  <1>7. Demand(t, a)' + faults <= Demand(t, a) + faults'
    BY <1>3, <1>4, <1>5 DEF Demand
  <1> QED
    BY <1>6, <1>7 DEF Change

LEMMA QuietStep ==
    ASSUME IsFiniteSet(Worker), Typed, Typed', RInv, UNCHANGED <<ready, runs>>, faults <= faults',
           \A t \in Task : filed[t] = "answered" => filed'[t] = "answered",
           \A e \in Entry : Pushers(e)' \subseteq Pushers(e) /\ Runners(e)' = Runners(e),
           OnlyRetries', \A w \in Worker : NoneTwice(batch'[w])
    PROVE  RInv'
  <1>1. \A e \in Entry : Positions(ready', e) = Positions(ready, e)
    OBVIOUS
  <1>2. \A t \in Task, a \in 1..MaxRetries : Change(t, a)
    BY <1>1, NothingPushed
  <1>3. \A t \in Task, a \in 1..MaxRetries : RetryIsPaid(t, a)'
    BY <1>2, ChangeIsPaid DEF RInv
  <1>4. ASSUME NEW t \in Task PROVE PushedOnce(t)'
    <2>1. 0 \in 0..MaxRetries
      BY BoundsAssumption
    <2>2. Pushed(t, 0)' = Pushed(t, 0) /\ Pushed(t, 0) \in Nat
      BY <2>1, Numbers DEF Pushed, Positions
    <2> QED
      BY <2>2 DEF RInv, PushedOnce
  <1>5. \A w \in Worker : NoneTwice(batch[w])'
    BY DEF NoneTwice
  <1> QED
    BY <1>3, <1>4, <1>5 DEF RInv

LEMMA RunnersStay ==
    ASSUME Typed, NEW w \in Worker, at[w] # "run", NEW s, s # "run",
           at' = [at EXCEPT ![w] = s], hand' = hand, NEW e
    PROVE  Runners(e)' = Runners(e)
  <1>1. \A v \in Worker : at'[v] = "run" <=> at[v] = "run"
    BY DEF Typed, TypeOK
  <1> QED
    BY <1>1 DEF Runners

LEMMA IngestPaid ==
    ASSUME IsFiniteSet(Worker), IInv, IInv', RInv, NEW t \in Task, Persist(t) \/ IngestCut(t)
    PROVE  RInv'
  <1>1. /\ UNCHANGED <<ready, runs, scheduled, due, at, batch, hand>>
        /\ faults <= faults' /\ \A x \in Task : filed[x] = "answered" => filed'[x] = "answered"
    BY DEF Persist, IngestCut, Fault, redisVars, fateVars, IInv, Typed, TypeOK
  <1>2. \A e \in Entry : Pushers(e)' \subseteq Pushers(e) /\ Runners(e)' = Runners(e)
    BY <1>1 DEF Pushers, MayPush, Draining, Runners, Delayed
  <1>3. OnlyRetries' /\ \A w \in Worker : NoneTwice(batch'[w])
    BY <1>1 DEF RInv, OnlyRetries, Delayed
  <1> QED
    BY <1>1, <1>2, <1>3, QuietStep DEF IInv

LEMMA DuePaid ==
    ASSUME IsFiniteSet(Worker), IInv, IInv', RInv, NEW x \in scheduled, BecomesDue(x)
    PROVE  RInv'
  <1>1. Delayed' = Delayed
    BY TypeDue DEF IInv
  <1>2. UNCHANGED <<ready, runs, at, batch, hand, faults, filed>> /\ faults \in Nat
    BY DEF BecomesDue, ingestVars, fateVars, IInv, Typed, TypeOK
  <1>3. \A e \in Entry : Pushers(e)' \subseteq Pushers(e) /\ Runners(e)' = Runners(e)
    BY <1>1, <1>2 DEF Pushers, MayPush, Draining, Runners
  <1>4. OnlyRetries' /\ \A w \in Worker : NoneTwice(batch'[w])
    BY <1>1, <1>2 DEF RInv, OnlyRetries
  <1> QED
    BY <1>2, <1>3, <1>4, QuietStep DEF IInv

\* Who reads the schedule could have pushed what is there before.
LEMMA ReadPaid ==
    ASSUME IsFiniteSet(Worker), IInv, IInv', RInv, NEW w \in Worker, ReadDue(w)
    PROVE  RInv'
  <1>1. PICK q \in Readings : batch' = [batch EXCEPT ![w] = q]
                              /\ at' = [at EXCEPT ![w] = IF q = <<>> THEN "pop" ELSE "push"]
    BY DEF ReadDue
  <1>2. Members(q) \subseteq Delayed /\ NoneTwice(q)
    <2>1. q \in Seq(Entry) /\ Members(q) \subseteq due
      BY ReadingType DEF IInv
    <2>2. NoneTwice(q)
      BY DEF Readings, NoneTwice
    <2> QED
      BY <2>1, <2>2 DEF Delayed
  <1>3. UNCHANGED <<ready, runs, hand, faults, filed>> /\ Delayed' = Delayed /\ at[w] = "idle"
        /\ faults \in Nat
    BY DEF ReadDue, ingestVars, redisVars, fateVars, Delayed, IInv, Typed, TypeOK
  <1>4. /\ batch'[w] = q /\ at'[w] \in {"pop", "push"}
        /\ \A v \in Worker : v # w => batch'[v] = batch[v] /\ at'[v] = at[v]
    BY <1>1 DEF IInv, Typed, TypeOK
  <1>5. ASSUME NEW e \in Entry PROVE Pushers(e)' \subseteq Pushers(e) /\ Runners(e)' = Runners(e)
    <2>1. ASSUME NEW v \in Worker, MayPush(v, e)' PROVE MayPush(v, e)
      <3>1. CASE v = w
        BY <1>2, <1>3, <1>4, <2>1, <3>1 DEF MayPush, Draining
      <3>2. CASE v # w
        BY <1>3, <1>4, <2>1, <3>2 DEF MayPush, Draining
      <3> QED
        BY <3>1, <3>2
    <2>2. Runners(e)' = Runners(e)
      BY <1>1, <1>3, RunnersStay DEF IInv
    <2> QED
      BY <2>1, <2>2 DEF Pushers
  <1>6. OnlyRetries'
    BY <1>2, <1>3, <1>4 DEF RInv, OnlyRetries
  <1>7. \A v \in Worker : NoneTwice(batch'[v])
    BY <1>2, <1>4 DEF RInv
  <1> QED
    BY <1>3, <1>5, <1>6, <1>7, QuietStep DEF IInv

LEMMA EmptyBatch == Members(<<>>) = {} /\ NoneTwice(<<>>)
  BY DEF Members, NoneTwice

LEMMA UnschedulePaid ==
    ASSUME IsFiniteSet(Worker), IInv, IInv', RInv, NEW w \in Worker, Unschedule(w)
    PROVE  RInv'
  <1>1. /\ UNCHANGED <<ready, runs, hand, faults, filed>> /\ at[w] = "remove" /\ faults \in Nat
        /\ at' = [at EXCEPT ![w] = "pop"]
        /\ Delayed' = Delayed \ Members(batch[w])
    BY DEF Unschedule, ingestVars, fateVars, Delayed, IInv, Typed, TypeOK
  <1>2. /\ batch'[w] = <<>> /\ at'[w] = "pop"
        /\ \A v \in Worker : v # w => batch'[v] = batch[v] /\ at'[v] = at[v]
    BY DEF Unschedule, IInv, Typed, TypeOK
  <1>3. ASSUME NEW e \in Entry PROVE Pushers(e)' \subseteq Pushers(e) /\ Runners(e)' = Runners(e)
    <2>1. ASSUME NEW v \in Worker, MayPush(v, e)' PROVE MayPush(v, e)
      <3>1. CASE v = w
        BY <1>1, <1>2, <2>1, <3>1, EmptyBatch DEF MayPush, Draining
      <3>2. CASE v # w
        BY <1>1, <1>2, <2>1, <3>2 DEF MayPush, Draining
      <3> QED
        BY <3>1, <3>2
    <2>2. Runners(e)' = Runners(e)
      BY <1>1, RunnersStay DEF IInv
    <2> QED
      BY <2>1, <2>2 DEF Pushers
  <1>4. OnlyRetries' /\ \A v \in Worker : NoneTwice(batch'[v])
    BY <1>1, <1>2, EmptyBatch DEF RInv, OnlyRetries
  <1> QED
    BY <1>1, <1>3, <1>4, QuietStep DEF IInv

LEMMA PushPaid ==
    ASSUME IsFiniteSet(Worker), IInv, IInv', RInv, NEW w \in Worker, Push(w)
    PROVE  RInv'
  <1>1. /\ UNCHANGED <<runs, batch, hand, faults, filed>> /\ at[w] = "push" /\ faults \in Nat
        /\ at' = [at EXCEPT ![w] = "remove"] /\ ready' = ready \o batch[w] /\ Delayed' = Delayed
    BY DEF Push, ingestVars, fateVars, Delayed, IInv, Typed, TypeOK
  <1>2. at'[w] = "remove" /\ \A v \in Worker : v # w => at'[v] = at[v]
    BY <1>1 DEF IInv, Typed, TypeOK
  <1>3. ASSUME NEW e \in Entry
        PROVE  /\ Cardinality(Positions(ready', e)) = Cardinality(Positions(ready, e))
                                                    + (IF e \in Members(batch[w]) THEN 1 ELSE 0)
               /\ Cardinality(Positions(ready, e)) \in Nat
    <2>1. ready \in Seq(Entry) /\ batch[w] \in Seq(Entry) /\ NoneTwice(batch[w])
      BY DEF IInv, Typed, TypeOK, RInv
    <2> QED
      BY <1>1, <2>1, PositionsConcat, PositionsFinite
  <1>4. ASSUME NEW e \in Entry
        PROVE  /\ Cardinality(Pushers(e))' + (IF e \in Members(batch[w]) THEN 1 ELSE 0)
                     = Cardinality(Pushers(e))
               /\ Cardinality(Pushers(e)) \in Nat /\ Cardinality(Pushers(e))' \in Nat
               /\ Runners(e)' = Runners(e)
    <2>1. Pushers(e) \in SUBSET Worker /\ Pushers(e)' \in SUBSET Worker
      BY DEF Pushers
    <2>5. Cardinality(Pushers(e)) \in Nat /\ Cardinality(Pushers(e)') \in Nat /\ IsFiniteSet(Pushers(e))
      BY <2>1, Subsets
    <2>6. Runners(e)' = Runners(e)
      BY <1>1, RunnersStay DEF IInv
    <2>2. ASSUME NEW v \in Worker, v # w PROVE MayPush(v, e)' <=> MayPush(v, e)
      BY <1>1, <1>2, <2>2 DEF MayPush, Draining
    <2>3. CASE e \in Members(batch[w])
      <3>1. MayPush(w, e) /\ ~MayPush(w, e)'
        BY <1>1, <1>2, <2>3 DEF MayPush, Draining
      <3>2. Pushers(e)' = Pushers(e) \ {w} /\ w \in Pushers(e)
        BY <2>2, <3>1 DEF Pushers
      <3>3. Cardinality(Pushers(e) \ {w}) = Cardinality(Pushers(e)) - 1
        BY <2>5, <3>2, FS_RemoveElement
      <3> QED
        BY <2>3, <2>5, <2>6, <3>2, <3>3
    <2>4. CASE e \notin Members(batch[w])
      <3>1. MayPush(w, e)' <=> MayPush(w, e)
        BY <1>1, <1>2, <2>4 DEF MayPush, Draining
      <3>2. Pushers(e)' = Pushers(e)
        BY <2>2, <3>1 DEF Pushers
      <3> QED
        BY <2>4, <2>5, <2>6, <3>2
    <2> QED
      BY <2>3, <2>4
  <1>5. ASSUME NEW t \in Task, NEW a \in 1..MaxRetries PROVE RetryIsPaid(t, a)'
    <2>1. a \in 0..MaxRetries /\ a - 1 \in 0..MaxRetries
      BY BoundsAssumption
    <2>2. EntryOf(t, a) \in Entry /\ EntryOf(t, a - 1) \in Entry
      BY <2>1 DEF Entry, EntryOf
    <2>3. Pushed(t, a)' = Pushed(t, a) + (IF EntryOf(t, a) \in Members(batch[w]) THEN 1 ELSE 0)
          /\ Pushed(t, a) \in Nat
      <3>1. Pushed(t, a)' = runs[t][a] + Cardinality(Positions(ready', EntryOf(t, a)))
        BY <1>1 DEF Pushed, Positions
      <3> QED
        BY <1>3, <2>1, <2>2, <3>1, Numbers DEF Pushed, IInv
    <2>4. Demand(t, a)' = Demand(t, a)
      BY <1>4, <2>2, <2>3 DEF Demand
    <2>5. RunnersBefore(t, a)' = RunnersBefore(t, a)
      BY <1>4, <2>2 DEF RunnersBefore
    <2> QED
      BY <1>1, <2>4, <2>5 DEF RetryIsPaid, RInv
  <1>6. ASSUME NEW t \in Task PROVE PushedOnce(t)'
    <2>1. EntryOf(t, 0) \in Entry /\ EntryOf(t, 0) \notin Members(batch[w])
      BY BoundsAssumption DEF Entry, EntryOf, RInv, OnlyRetries
    <2>2. Pushed(t, 0)' = runs[t][0] + Cardinality(Positions(ready', EntryOf(t, 0)))
      BY <1>1 DEF Pushed, Positions
    <2>3. Pushed(t, 0)' = Pushed(t, 0)
      BY <1>3, <2>1, <2>2 DEF Pushed
    <2> QED
      BY <1>1, <2>3 DEF RInv, PushedOnce
  <1>7. OnlyRetries' /\ \A v \in Worker : NoneTwice(batch[v])'
    BY <1>1 DEF RInv, OnlyRetries, NoneTwice
  <1> QED
    BY <1>5, <1>6, <1>7 DEF RInv

\* A task is pushed once when it is filed.
LEMMA EnqueuePaid ==
    ASSUME IsFiniteSet(Worker), IInv, IInv', RInv, NEW x \in Task, Enqueue(x)
    PROVE  RInv'
  <1> DEFINE n == EntryOf(x, 0)
  <1>1. /\ UNCHANGED <<runs, batch, hand, at, scheduled, due>> /\ Delayed' = Delayed
        /\ faults \in Nat /\ faults' \in Nat /\ faults <= faults'
        /\ filed[x] = "persisted" /\ filed'[x] = "answered"
        /\ \A t \in Task : t # x => filed'[t] = filed[t]
        /\ ready' = ready \/ ready' = Append(ready, n)
    <2>1. /\ UNCHANGED <<runs, batch, hand, at, scheduled, due>> /\ Delayed' = Delayed
          /\ filed[x] = "persisted" /\ filed' = [filed EXCEPT ![x] = "answered"]
      BY DEF Enqueue, fateVars, Delayed
    <2>2. faults \in Nat /\ (faults' = faults \/ faults' = faults + 1)
      BY DEF Enqueue, Fault, IInv, Typed, TypeOK
    <2>3. ready' = ready \/ ready' = Append(ready, n)
      BY DEF Enqueue, EntryOf
    <2>4. filed'[x] = "answered" /\ \A t \in Task : t # x => filed'[t] = filed[t]
      BY <2>1 DEF IInv, Typed, TypeOK
    <2> QED
      BY <2>1, <2>2, <2>3, <2>4
  <1>2. n \in Entry /\ ready \in Seq(Entry)
    BY BoundsAssumption DEF Entry, EntryOf, IInv, Typed, TypeOK
  <1>3. \A e \in Entry : Pushers(e)' = Pushers(e) /\ Runners(e)' = Runners(e)
    BY <1>1 DEF Pushers, MayPush, Draining, Runners
  <1>4. \A e \in Entry : /\ Cardinality(Positions(ready, e)) \in Nat
                         /\ e # n => Cardinality(Positions(ready', e)) = Cardinality(Positions(ready, e))
                         /\ Cardinality(Positions(ready', e)) <= Cardinality(Positions(ready, e)) + 1
                         /\ Cardinality(Positions(ready', e)) \in Nat
    <2>1. CASE ready' = ready
      BY <1>2, <2>1, PositionsFinite
    <2>2. CASE ready' = Append(ready, n)
      <3> HIDE DEF n
      <3> QED
        BY <1>2, <2>2, PositionsFinite, PositionsAppend
    <2> QED
      BY <1>1, <2>1, <2>2
  <1>5. ASSUME NEW t \in Task, NEW a \in 1..MaxRetries PROVE RetryIsPaid(t, a)'
    <2>1. a \in 0..MaxRetries /\ a - 1 \in 0..MaxRetries
      BY BoundsAssumption
    <2>2. EntryOf(t, a) \in Entry /\ EntryOf(t, a - 1) \in Entry /\ EntryOf(t, a) # n
      BY <2>1 DEF Entry, EntryOf
    <2>3. Pushed(t, a)' = runs[t][a] + Cardinality(Positions(ready', EntryOf(t, a)))
      BY <1>1 DEF Pushed, Positions
    <2>4. Pushed(t, a)' = Pushed(t, a)
      BY <1>4, <2>2, <2>3 DEF Pushed
    <2>5. Demand(t, a)' = Demand(t, a) /\ RunnersBefore(t, a)' = RunnersBefore(t, a)
      BY <1>3, <2>2, <2>4 DEF Demand, RunnersBefore
    <2>8. Demand(t, a) \in Nat
      BY <2>1, Numbers DEF IInv
    <2>6. Demand(t, a)' + faults <= Demand(t, a) + faults'
      BY <1>1, <2>5, <2>8
    <2>7. Change(t, a)
      BY <1>1, <2>5, <2>6 DEF Change
    <2> QED
      BY <2>7, ChangeIsPaid DEF RInv, IInv
  <1>6. ASSUME NEW t \in Task PROVE PushedOnce(t)'
    <2>1. EntryOf(t, 0) \in Entry /\ (t # x => EntryOf(t, 0) # n) /\ runs[t][0] \in Nat
      BY BoundsAssumption DEF Entry, EntryOf, IInv, Typed, TypeOK
    <2>2. Pushed(t, 0)' = runs[t][0] + Cardinality(Positions(ready', EntryOf(t, 0)))
      BY <1>1 DEF Pushed, Positions
    <2>3. CASE t # x
      <3>1. Pushed(t, 0)' = Pushed(t, 0)
        BY <1>4, <2>1, <2>2, <2>3 DEF Pushed
      <3> QED
        BY <1>1, <2>3, <3>1 DEF RInv, PushedOnce
    <2>4. CASE t = x
      <3>1. Pushed(t, 0) <= 0
        BY <1>1, <2>4 DEF RInv, PushedOnce
      <3>2. Pushed(t, 0)' <= 1
        BY <1>4, <2>1, <2>2, <3>1 DEF Pushed
      <3> QED
        BY <1>1, <2>4, <3>2 DEF PushedOnce
    <2> QED
      BY <2>3, <2>4
  <1>7. OnlyRetries' /\ \A v \in Worker : NoneTwice(batch[v])'
    BY <1>1 DEF RInv, OnlyRetries, NoneTwice
  <1> QED
    BY <1>5, <1>6, <1>7 DEF RInv

\* What is popped was pushed, and is handled once.
LEMMA PopCounts ==
    ASSUME IInv, NEW w \in Worker, Pop(w), ready # <<>>, NEW h, h = Head(ready),
           NEW t \in Task, NEW a \in 0..MaxRetries
    PROVE  /\ h.task \in Handled =>
                 runs'[t][a] = runs[t][a] + (IF h = EntryOf(t, a) THEN 1 ELSE 0)
           /\ h.task \notin Handled => runs'[t][a] = runs[t][a]
           /\ Cardinality(Positions(ready, EntryOf(t, a)))
                 = Cardinality(Positions(ready', EntryOf(t, a))) + (IF h = EntryOf(t, a) THEN 1 ELSE 0)
  <1>1. ready \in Seq(Entry) /\ ready' = Tail(ready) /\ h \in Entry
    BY MembersOf DEF Pop, IInv, Typed, TypeOK
  <1>2. h.task \in Task /\ h.attempts \in 0..MaxRetries /\ (h = EntryOf(t, a) <=> h.task = t /\ h.attempts = a)
    BY <1>1 DEF Entry, EntryOf
  <1>3. Cardinality(Positions(ready, EntryOf(t, a)))
           = Cardinality(Positions(ready', EntryOf(t, a))) + (IF h = EntryOf(t, a) THEN 1 ELSE 0)
    BY <1>1, PositionsTail
  <1>4. runs \in [Task -> [0..MaxRetries -> Nat]]
    BY DEF IInv, Typed, TypeOK
  <1>5. CASE h.task \in Handled
    <2> DEFINE g == runs[h.task]
               k == h.attempts
               f == [g EXCEPT ![k] = g[k] + 1]
    <2>1. runs' = [runs EXCEPT ![h.task] = f]
      BY <1>5 DEF Pop
    <2>2. g \in [0..MaxRetries -> Nat] /\ k \in 0..MaxRetries /\ g = runs[h.task] /\ k = h.attempts
      BY <1>2, <1>4
    <2> HIDE DEF g, k
    <2>3. g[a] \in Nat /\ (k = a => f[a] = g[a] + 1) /\ (k # a => f[a] = g[a])
      BY <2>2
    <2> HIDE DEF f
    <2>4. runs'[t] = IF h.task = t THEN f ELSE runs[t]
      BY <1>2, <1>4, <2>1
    <2>6. runs[t][a] \in Nat
      BY <1>4
    <2>7. h = EntryOf(t, a) => runs'[t][a] = runs[t][a] + 1
      BY <1>2, <2>2, <2>3, <2>4
    <2>8. h # EntryOf(t, a) => runs'[t][a] = runs[t][a]
      BY <1>2, <2>2, <2>3, <2>4
    <2>5. runs'[t][a] = runs[t][a] + (IF h = EntryOf(t, a) THEN 1 ELSE 0)
      BY <2>6, <2>7, <2>8
    <2> QED
      BY <1>3, <1>5, <2>5
  <1>6. CASE h.task \notin Handled
    BY <1>3, <1>6 DEF Pop
  <1> QED
    BY <1>5, <1>6

LEMMA PopPaid ==
    ASSUME IsFiniteSet(Worker), IInv, IInv', RInv, NEW w \in Worker, Pop(w)
    PROVE  RInv'
  <1>1. /\ UNCHANGED <<batch, faults, filed>> /\ Delayed' = Delayed /\ at[w] = "pop" /\ faults \in Nat
    BY DEF Pop, ingestVars, Delayed, IInv, Typed, TypeOK
  <1>2. at'[w] \in {"run", "idle"} /\ \A v \in Worker : v # w => at'[v] = at[v] /\ hand'[v] = hand[v]
    BY DEF Pop, IInv, Typed, TypeOK
  <1>3. ASSUME NEW e PROVE Pushers(e)' = Pushers(e)
    <2>1. \A v \in Worker : MayPush(v, e)' <=> MayPush(v, e)
      BY <1>1, <1>2 DEF MayPush, Draining
    <2> QED
      BY <2>1 DEF Pushers
  <1>4. OnlyRetries' /\ (\A v \in Worker : NoneTwice(batch'[v])) /\ \A v \in Worker : NoneTwice(batch[v])'
    BY <1>1 DEF RInv, OnlyRetries, NoneTwice
  <1>5. CASE ready = <<>>
    <2>1. at' = [at EXCEPT ![w] = "idle"] /\ UNCHANGED <<ready, hand, runs>>
      BY <1>5 DEF Pop
    <2>2. \A e \in Entry : Runners(e)' = Runners(e)
      BY <1>1, <2>1, RunnersStay DEF IInv
    <2> QED
      BY <1>1, <1>3, <1>4, <2>1, <2>2, QuietStep DEF IInv
  <1>6. CASE ready # <<>>
    <2>0. PICK h : h = Head(ready)
      OBVIOUS
    <2>1. \/ h.task \in Handled /\ at' = [at EXCEPT ![w] = "run"] /\ hand' = [hand EXCEPT ![w] = h]
          \/ h.task \notin Handled /\ at' = [at EXCEPT ![w] = "idle"] /\ hand' = hand
      BY <1>6, <2>0 DEF Pop
    <2>2. ASSUME NEW t \in Task, NEW a \in 0..MaxRetries
          PROVE  /\ Pushed(t, a)' <= Pushed(t, a) /\ Pushed(t, a)' \in Nat /\ Pushed(t, a) \in Nat
                 /\ runs'[t][a] = runs[t][a] + (IF h.task \in Handled /\ h = EntryOf(t, a) THEN 1 ELSE 0)
      <3>1. /\ h.task \in Handled =>
                 runs'[t][a] = runs[t][a] + (IF h = EntryOf(t, a) THEN 1 ELSE 0)
            /\ h.task \notin Handled => runs'[t][a] = runs[t][a]
            /\ Cardinality(Positions(ready, EntryOf(t, a)))
                 = Cardinality(Positions(ready', EntryOf(t, a))) + (IF h = EntryOf(t, a) THEN 1 ELSE 0)
        BY <1>6, <2>0, PopCounts
      <3>2. runs[t][a] \in Nat
        BY DEF IInv, Typed, TypeOK
      <3>3. runs'[t][a] = runs[t][a] + (IF h.task \in Handled /\ h = EntryOf(t, a) THEN 1 ELSE 0)
        BY <3>1, <3>2
      <3>4. Pushed(t, a)' = runs'[t][a] + Cardinality(Positions(ready', EntryOf(t, a)))
        BY DEF Pushed, Positions
      <3>5. Pushed(t, a)' \in Nat /\ Pushed(t, a) \in Nat
            /\ Cardinality(Positions(ready', EntryOf(t, a))) \in Nat
        BY Numbers DEF IInv
      <3>6. Pushed(t, a)' <= Pushed(t, a)
        BY <3>1, <3>2, <3>3, <3>4, <3>5 DEF Pushed
      <3> QED
        BY <3>3, <3>5, <3>6
    <2>3. ASSUME NEW e PROVE
             /\ h.task \in Handled /\ h = e => Runners(e)' = Runners(e) \cup {w} /\ w \notin Runners(e)
             /\ ~(h.task \in Handled /\ h = e) => Runners(e)' = Runners(e)
      <3>1. CASE h.task \in Handled
        <4>1. at'[w] = "run" /\ hand'[w] = h
          BY <2>1, <3>1 DEF IInv, Typed, TypeOK
        <4> QED
          BY <1>1, <1>2, <3>1, <4>1 DEF Runners
      <3>2. CASE h.task \notin Handled
        BY <1>1, <2>1, <3>2, RunnersStay DEF IInv
      <3> QED
        BY <3>1, <3>2
    <2>4. ASSUME NEW t \in Task, NEW a \in 1..MaxRetries PROVE RetryIsPaid(t, a)'
      <3>1. a \in 0..MaxRetries /\ a - 1 \in 0..MaxRetries
        BY BoundsAssumption
      <3>2. Demand(t, a)' <= Demand(t, a) /\ Demand(t, a)' \in Nat /\ Demand(t, a) \in Nat
        <4>1. Pushers(EntryOf(t, a)) \in SUBSET Worker
          BY DEF Pushers
        <4>2. Cardinality(Pushers(EntryOf(t, a))) \in Nat
          BY <4>1, Subsets
        <4> QED
          BY <1>3, <2>2, <3>1, <4>2 DEF Demand
      <3>3. Runners(EntryOf(t, a - 1)) \in SUBSET Worker
        BY DEF Runners
      <3>4. CASE h.task \in Handled /\ h = EntryOf(t, a - 1)
        <4>1. RunnersBefore(t, a)' = RunnersBefore(t, a) + 1
          BY <2>3, <3>3, <3>4, Subsets, FS_AddElement DEF RunnersBefore
        <4>2. runs'[t][a - 1] = runs[t][a - 1] + 1
          BY <2>2, <3>1, <3>4
        <4> QED
          BY <1>1, <3>2, <4>1, <4>2, ChangeIsPaid DEF Change, RInv, IInv
      <3>5. CASE ~(h.task \in Handled /\ h = EntryOf(t, a - 1))
        <4>1. RunnersBefore(t, a)' = RunnersBefore(t, a)
          BY <2>3, <3>5 DEF RunnersBefore
        <4>2. runs'[t][a - 1] = runs[t][a - 1]
          <5>1. runs[t][a - 1] \in Nat
            BY <3>1 DEF IInv, Typed, TypeOK
          <5> QED
            BY <2>2, <3>1, <3>5, <5>1
        <4>3. Demand(t, a)' + faults <= Demand(t, a) + faults'
          BY <1>1, <3>2
        <4> QED
          BY <4>1, <4>2, <4>3, ChangeIsPaid DEF Change, RInv, IInv
      <3> QED
        BY <3>4, <3>5
    <2>5. ASSUME NEW t \in Task PROVE PushedOnce(t)'
      <3>1. Pushed(t, 0)' <= Pushed(t, 0) /\ Pushed(t, 0)' \in Nat /\ Pushed(t, 0) \in Nat
        BY <2>2, BoundsAssumption
      <3> QED
        BY <1>1, <3>1 DEF RInv, PushedOnce
    <2> QED
      BY <1>4, <2>4, <2>5 DEF RInv
  <1> QED
    BY <1>5, <1>6

LEMMA RunnerLeaves ==
    ASSUME IsFiniteSet(Worker), Typed, NEW w \in Worker, PutDown(w), NEW e
    PROVE  /\ at[w] = "run" /\ hand[w] = e => Cardinality(Runners(e))' + 1 = Cardinality(Runners(e))
           /\ ~(at[w] = "run" /\ hand[w] = e) => Cardinality(Runners(e))' = Cardinality(Runners(e))
  <1>1. /\ at'[w] = "idle"
        /\ \A v \in Worker : v # w => at'[v] = at[v] /\ hand'[v] = hand[v]
    BY DEF PutDown, Typed, TypeOK
  <1>2. Runners(e)' = Runners(e) \ {w}
    BY <1>1 DEF Runners
  <1>3. Runners(e) \in SUBSET Worker
    BY DEF Runners
  <1>4. IsFiniteSet(Runners(e)) /\ Cardinality(Runners(e)) \in Nat
    BY <1>3, Subsets
  <1>5. CASE at[w] = "run" /\ hand[w] = e
    <2>1. w \in Runners(e)
      BY <1>5 DEF Runners
    <2>2. Cardinality(Runners(e) \ {w}) = Cardinality(Runners(e)) - 1
      BY <1>4, <2>1, FS_RemoveElement
    <2> QED
      BY <1>2, <1>4, <1>5, <2>2
  <1>6. CASE ~(at[w] = "run" /\ hand[w] = e)
    <2>1. w \notin Runners(e)
      BY <1>6 DEF Runners
    <2>2. Runners(e)' = Runners(e)
      BY <1>2, <2>1
    <2> QED
      BY <1>6, <2>2
  <1> QED
    BY <1>5, <1>6

\* Whoever ends an attempt lets everyone push the next one; whoever is cut off
\* may read the schedule and push again.
LEMMA EndPushers ==
    ASSUME IInv, NEW w \in Worker, Succeed(w) \/ Fail(w) \/ Cut(w), NEW e \in Entry,
           ~(at[w] = "run" /\ hand[w] = EntryOf(e.task, e.attempts - 1))
    PROVE  \/ Pushers(e)' \subseteq Pushers(e) /\ faults' = faults
           \/ Pushers(e)' \subseteq Pushers(e) \cup {w} /\ faults' = faults + 1
  <1>1. /\ at'[w] = "idle"
        /\ \A v \in Worker : v # w => at'[v] = at[v] /\ batch'[v] = batch[v]
    BY DEF Succeed, Fail, Cut, PutDown, IInv, Typed, TypeOK
  <1>2. CASE Cut(w)
    <2>1. Delayed' = Delayed /\ faults' = faults + 1
      BY <1>2 DEF Cut, Fault, redisVars, Delayed
    <2>2. ASSUME NEW v \in Worker, v # w PROVE MayPush(v, e)' <=> MayPush(v, e)
      BY <1>1, <2>1, <2>2 DEF MayPush, Draining
    <2> QED
      BY <2>1, <2>2 DEF Pushers
  <1>3. CASE Succeed(w) \/ Fail(w)
    <2>1. at[w] = "run" /\ faults' = faults /\ batch' = batch
      BY <1>3 DEF Succeed, Fail
    <2>2. e \in Delayed' => e \in Delayed
      <3>1. CASE Succeed(w)
        BY <3>1 DEF Succeed, redisVars, Delayed
      <3>2. CASE Fail(w)
        <4>1. hand[w] \in Entry /\ hand[w].task \in Task /\ hand[w].attempts \in 0..MaxRetries
          BY <2>1 DEF IInv, AttemptsMade, Entry
        <4>2. hand[w] = EntryOf(hand[w].task, hand[w].attempts)
          BY <4>1 DEF Entry, EntryOf
        <4> DEFINE y == [task |-> hand[w].task, attempts |-> hand[w].attempts + 1]
        <4>3. e # y
          <5> SUFFICES ASSUME e = y PROVE FALSE
            OBVIOUS
          <5>1. e.task = hand[w].task /\ e.attempts = hand[w].attempts + 1
            OBVIOUS
          <5>2. e.attempts - 1 = hand[w].attempts
            BY <4>1, <5>1
          <5> QED
            BY <2>1, <4>2, <5>1, <5>2
        <4>4. UNCHANGED <<scheduled, due>> \/ (scheduled' = scheduled \cup {y} /\ due' = due \ {y})
          BY <3>2 DEF Fail, Schedule
        <4> HIDE DEF y
        <4> QED
          BY <4>3, <4>4 DEF Delayed
      <3> QED
        BY <1>3, <3>1, <3>2
    <2>3. ASSUME NEW v \in Worker, MayPush(v, e)' PROVE MayPush(v, e)
      <3>1. CASE v = w
        BY <1>1, <2>1, <2>2, <2>3, <3>1 DEF MayPush, Draining
      <3>2. CASE v # w
        BY <1>1, <2>1, <2>2, <2>3, <3>2 DEF MayPush, Draining
      <3> QED
        BY <3>1, <3>2
    <2> QED
      BY <2>1, <2>3 DEF Pushers
  <1> QED
    BY <1>2, <1>3

LEMMA EndPaid ==
    ASSUME IsFiniteSet(Worker), IInv, IInv', RInv, NEW w \in Worker, Succeed(w) \/ Fail(w) \/ Cut(w)
    PROVE  RInv'
  <1>1. /\ UNCHANGED <<ready, runs, filed>> /\ PutDown(w)
        /\ faults \in Nat /\ faults' \in Nat /\ faults <= faults'
    BY DEF Succeed, Fail, Cut, Fault, ingestVars, redisVars, IInv, Typed, TypeOK
  <1>2. \A t \in Task, a \in 0..MaxRetries : Pushed(t, a)' = Pushed(t, a) /\ Pushed(t, a) \in Nat
    BY <1>1, Numbers DEF Pushed, Positions, IInv
  <1>3. ASSUME NEW t \in Task, NEW a \in 1..MaxRetries PROVE RetryIsPaid(t, a)'
    <2> DEFINE e == EntryOf(t, a)
    <2>1. a \in 0..MaxRetries /\ a - 1 \in 0..MaxRetries
      BY BoundsAssumption
    <2>2. e \in Entry /\ e.task = t /\ e.attempts = a
      BY <2>1 DEF Entry, EntryOf
    <2>3. Pushers(e) \in SUBSET Worker /\ Pushers(e)' \in SUBSET Worker
      BY DEF Pushers
    <2>4. /\ IsFiniteSet(Pushers(e)) /\ Cardinality(Pushers(e)) \in Nat
          /\ Cardinality(Pushers(e)') \in Nat /\ Cardinality(Pushers(e)') <= W /\ W \in Nat
      BY <2>3, Subsets
    <2>5. Demand(t, a)' = Pushed(t, a)' + Cardinality(Pushers(e)')
          /\ Demand(t, a) = Pushed(t, a) + Cardinality(Pushers(e))
      BY DEF Demand
    <2>6. runs'[t][a - 1] = runs[t][a - 1]
      BY <1>1
    <2>7. CASE at[w] = "run" /\ hand[w] = EntryOf(t, a - 1)
      <3>1. RunnersBefore(t, a)' + 1 = RunnersBefore(t, a)
        BY <1>1, <2>7, RunnerLeaves DEF RunnersBefore, IInv
      <3>2. Demand(t, a)' <= Demand(t, a) + W
        BY <1>2, <2>1, <2>4, <2>5
      <3>3. Change(t, a)
        BY <1>1, <2>6, <3>1, <3>2 DEF Change
      <3> QED
        BY <3>3, ChangeIsPaid DEF RInv, IInv
    <2>8. CASE ~(at[w] = "run" /\ hand[w] = EntryOf(t, a - 1))
      <3>1. RunnersBefore(t, a)' = RunnersBefore(t, a)
        BY <1>1, <2>8, RunnerLeaves DEF RunnersBefore, IInv
      <3>2. \/ Pushers(e)' \subseteq Pushers(e) /\ faults' = faults
            \/ Pushers(e)' \subseteq Pushers(e) \cup {w} /\ faults' = faults + 1
        BY <2>2, <2>8, EndPushers
      <3>3. \A S : S \subseteq Pushers(e) => Cardinality(S) <= Cardinality(Pushers(e))
        BY <2>4, FS_Subset
      <3>4. \A S : S \subseteq Pushers(e) \cup {w} => Cardinality(S) <= Cardinality(Pushers(e)) + 1
        <4>1. /\ IsFiniteSet(Pushers(e) \cup {w}) /\ Cardinality(Pushers(e) \cup {w}) \in Nat
              /\ Cardinality(Pushers(e) \cup {w}) <= Cardinality(Pushers(e)) + 1
          <5>1. CASE w \in Pushers(e)
            <6>1. Pushers(e) \cup {w} = Pushers(e)
              BY <5>1
            <6>2. \A n \in Nat : n <= n + 1
              OBVIOUS
            <6>3. Cardinality(Pushers(e)) <= Cardinality(Pushers(e)) + 1
              BY <2>4, <6>2
            <6> QED
              BY <2>4, <6>1, <6>3
          <5>2. CASE w \notin Pushers(e)
            <6>1. IsFiniteSet(Pushers(e) \cup {w})
                  /\ Cardinality(Pushers(e) \cup {w}) = Cardinality(Pushers(e)) + 1
              BY <2>4, <5>2, FS_AddElement
            <6> QED
              BY <2>4, <6>1
          <5> QED
            BY <5>1, <5>2
        <4>2. \A S : S \subseteq Pushers(e) \cup {w} =>
                 Cardinality(S) <= Cardinality(Pushers(e) \cup {w}) /\ Cardinality(S) \in Nat
          BY <4>1, FS_Subset, FS_CardinalityType
        <4> QED
          BY <2>4, <4>1, <4>2
      <3>5. Cardinality(Pushers(e)') + faults <= Cardinality(Pushers(e)) + faults'
        BY <1>1, <2>4, <3>2, <3>3, <3>4
      <3>6. Demand(t, a)' + faults <= Demand(t, a) + faults'
        BY <1>1, <1>2, <2>1, <2>4, <2>5, <3>5
      <3>7. Change(t, a)
        BY <2>6, <3>1, <3>6 DEF Change
      <3> QED
        BY <3>7, ChangeIsPaid DEF RInv, IInv
    <2> QED
      BY <2>7, <2>8
  <1>4. ASSUME NEW t \in Task PROVE PushedOnce(t)'
    <2>1. Pushed(t, 0)' = Pushed(t, 0)
      BY <1>2, BoundsAssumption
    <2> QED
      BY <1>1, <2>1 DEF RInv, PushedOnce
  <1>5. \A v \in Worker : batch'[v] = batch[v] \/ batch'[v] = <<>>
    BY DEF Succeed, Fail, Cut, IInv, Typed, TypeOK
  <1>6. \A e \in Delayed' : e.attempts > 0
    <2>1. CASE Succeed(w) \/ Cut(w)
      BY <2>1 DEF Succeed, Cut, redisVars, Delayed, RInv, OnlyRetries
    <2>2. CASE Fail(w)
      <3> DEFINE y == [task |-> hand[w].task, attempts |-> hand[w].attempts + 1]
      <3>1. hand[w].attempts \in 0..MaxRetries
        BY <2>2 DEF Fail, IInv, AttemptsMade, Entry
      <3>2. y.attempts > 0
        BY <3>1, BoundsAssumption
      <3>3. UNCHANGED <<scheduled, due>> \/ (scheduled' = scheduled \cup {y} /\ due' = due \ {y})
        BY <2>2 DEF Fail, Schedule
      <3> HIDE DEF y
      <3> QED
        BY <3>2, <3>3 DEF Delayed, RInv, OnlyRetries
    <2> QED
      BY <2>1, <2>2
  <1>7. OnlyRetries' /\ \A v \in Worker : NoneTwice(batch[v])'
    <2>1. \A v \in Worker : \A e \in Members(batch'[v]) : e.attempts > 0
      BY <1>5, EmptyBatch DEF RInv, OnlyRetries
    <2>2. \A v \in Worker : NoneTwice(batch'[v])
      BY <1>5, EmptyBatch DEF RInv
    <2> QED
      BY <1>6, <2>1, <2>2 DEF OnlyRetries, NoneTwice, Members
  <1> QED
    BY <1>3, <1>4, <1>7 DEF RInv

LEMMA InitPaid == IsFiniteSet(Worker) /\ Init => RInv
  <1> SUFFICES ASSUME IsFiniteSet(Worker), Init PROVE RInv
    OBVIOUS
  <1>1. Typed /\ Delayed = {} /\ (\A w \in Worker : batch[w] = <<>> /\ at[w] = "idle")
        /\ ready = <<>> /\ faults = 0
    BY TypeInit DEF Init, Delayed
  <1>2. ASSUME NEW e PROVE Positions(ready, e) = {} /\ Pushers(e) = {} /\ Runners(e) = {}
    BY <1>1 DEF Positions, Pushers, Runners, MayPush
  <1>3. Cardinality({}) = 0 /\ W \in Nat
    BY FS_EmptySet, FS_CardinalityType DEF W
  <1>4. \A t \in Task, a \in 0..MaxRetries : runs[t][a] = 0
    BY DEF Init
  <1>5. \A t \in Task : PushedOnce(t)
    BY <1>2, <1>3, <1>4, BoundsAssumption DEF PushedOnce, Pushed
  <1>6. ASSUME NEW t \in Task, NEW a \in 1..MaxRetries PROVE RetryIsPaid(t, a)
    <2>1. a \in 0..MaxRetries /\ a - 1 \in 0..MaxRetries
      BY BoundsAssumption
    <2>2. Demand(t, a) = 0 /\ RunnersBefore(t, a) = 0 /\ runs[t][a - 1] = 0
      <3>1. /\ Cardinality(Positions(ready, EntryOf(t, a))) = 0
            /\ Cardinality(Pushers(EntryOf(t, a))) = 0
            /\ Cardinality(Runners(EntryOf(t, a - 1))) = 0
        BY <1>2, <1>3
      <3> QED
        BY <1>4, <2>1, <3>1 DEF Demand, Pushed, RunnersBefore
    <2> QED
      BY <1>1, <1>3, <2>2 DEF RetryIsPaid
  <1>7. OnlyRetries /\ \A w \in Worker : NoneTwice(batch[w])
    BY <1>1, EmptyBatch DEF OnlyRetries
  <1> QED
    BY <1>5, <1>6, <1>7 DEF RInv

LEMMA NextPaid == IsFiniteSet(Worker) /\ IInv /\ IInv' /\ RInv /\ [Next]_vars => RInv'
  <1> SUFFICES ASSUME IsFiniteSet(Worker), IInv, IInv', RInv, [Next]_vars PROVE RInv'
    OBVIOUS
  <1>1. ASSUME NEW t \in Task, Persist(t) \/ Enqueue(t) \/ IngestCut(t) PROVE RInv'
    BY <1>1, IngestPaid, EnqueuePaid
  <1>2. ASSUME NEW e \in scheduled, BecomesDue(e) PROVE RInv'
    BY <1>2, DuePaid
  <1>3. ASSUME NEW w \in Worker, Round(w) \/ Cut(w) PROVE RInv'
    BY <1>3, ReadPaid, PushPaid, UnschedulePaid, PopPaid, EndPaid DEF Round
  <1>4. CASE UNCHANGED vars
    <2>1. \A e \in Entry : Pushers(e)' = Pushers(e) /\ Runners(e)' = Runners(e)
      BY <1>4 DEF vars, Pushers, MayPush, Draining, Runners, Delayed
    <2>2. OnlyRetries' /\ \A w \in Worker : NoneTwice(batch'[w])
      BY <1>4 DEF vars, RInv, OnlyRetries, Delayed
    <2>3. faults' = faults /\ faults \in Nat
      BY <1>4 DEF vars, IInv, Typed, TypeOK
    <2> QED
      BY <1>4, <2>1, <2>2, <2>3, QuietStep DEF vars, IInv
  <1> QED
    BY <1>1, <1>2, <1>3, <1>4 DEF Next

LEMMA PaidIsBounded == IsFiniteSet(Worker) /\ IInv /\ RInv => RunsBounded
  <1> SUFFICES ASSUME IsFiniteSet(Worker), IInv, RInv, NEW t \in Task
               PROVE  /\ runs[t][0] <= 1
                      /\ \A a \in 1..MaxRetries : runs[t][a] <= W * runs[t][a - 1] + faults
    BY DEF RunsBounded, W
  <1>1. W \in Nat /\ faults \in Nat /\ \A a \in 0..MaxRetries : runs[t][a] \in Nat
    BY FS_CardinalityType DEF W, IInv, Typed, TypeOK
  <1>2. \A a \in 0..MaxRetries : Cardinality(Positions(ready, EntryOf(t, a))) \in Nat
    BY PositionsFinite DEF IInv, Typed, TypeOK
  <1>3. runs[t][0] <= 1
    <2>1. Pushed(t, 0) <= 1 /\ 0 \in 0..MaxRetries
      BY BoundsAssumption, <1>1, <1>2 DEF RInv, PushedOnce, Pushed
    <2> QED
      BY <1>1, <1>2, <2>1 DEF Pushed
  <1>4. ASSUME NEW a \in 1..MaxRetries PROVE runs[t][a] <= W * runs[t][a - 1] + faults
    <2>1. a \in 0..MaxRetries /\ a - 1 \in 0..MaxRetries
      BY BoundsAssumption
    <2>2. Pushers(EntryOf(t, a)) \in SUBSET Worker /\ Runners(EntryOf(t, a - 1)) \in SUBSET Worker
      BY DEF Pushers, Runners
    <2>3. Cardinality(Pushers(EntryOf(t, a))) \in Nat /\ RunnersBefore(t, a) \in Nat
      BY <2>2, Subsets DEF RunnersBefore
    <2>4. runs[t][a] <= Demand(t, a)
      BY <1>1, <1>2, <2>1, <2>3 DEF Demand, Pushed
    <2>5. Demand(t, a) \in Nat /\ W * RunnersBefore(t, a) \in Nat /\ W * runs[t][a - 1] \in Nat
      BY <1>1, <1>2, <2>1, <2>3 DEF Demand, Pushed
    <2>6. Demand(t, a) + W * RunnersBefore(t, a) <= W * runs[t][a - 1] + faults
      BY DEF RInv, RetryIsPaid
    <2>7. runs[t][a] \in Nat
      BY <1>1, <2>1
    <2> HIDE DEF Demand, RunnersBefore
    <2> QED
      BY <1>1, <2>4, <2>5, <2>6, <2>7
  <1> QED
    BY <1>3, <1>4

\* However many workers drain at once, and wherever they are cut off, the first
\* attempt of a task is handled once, and each retry at most as often as every
\* worker can push it for each time the attempt before it was handled, and once
\* more for each failure.
THEOREM RunsStayBounded == ASSUME IsFiniteSet(Worker) PROVE Spec => []RunsBounded
  <1>1. Init => IInv /\ RInv
    BY InitInv, InitPaid
  <1>2. (IInv /\ RInv) /\ [Next]_vars => (IInv /\ RInv)'
    BY NextInv, NextPaid
  <1>3. IInv /\ RInv => RunsBounded
    BY PaidIsBounded
  <1> QED
    BY <1>1, <1>2, <1>3, PTL DEF Spec
=============================================================================

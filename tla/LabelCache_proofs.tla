-------------------------- MODULE LabelCache_proofs --------------------------
(***************************************************************************)
(* What labels and names a resolution answers with, when it is refused, and*)
(* how many labels a name can get, for any number of callers and processes,*)
(* any number of labels and any times.                                     *)
(***************************************************************************)
EXTENDS LabelCache, ListCache_proofs, WellFoundedInduction

\* At first no two objects have one name.
InitiallyDistinct == \A i, j \in DOMAIN Initial : Initial[i] = Initial[j] => i = j

\* At every time no two objects have one name.
NamesDiffer == Unique /\ InitiallyDistinct

Using == {"ready", "creating", "created"}

\* What a caller asks for, and what it has before it has a list.
Asks(r) ==
  /\ r.at \notin Ended =>
       /\ Len(r.want) <= MaxLabels
       /\ \/ r.op = "ids" /\ r.want \in Seq(Names)
          \/ r.op = "names" /\ r.want \in Seq(IDs) /\ r.at \notin {"creating", "created"}
  /\ r.at \in {"waiting", "listing", "listed"} => r.out = <<>>
  /\ r.at \notin {"listed", "created"} => r.reply = {}

\* Each label found had at time t, or after, the name it was found for.
FoundSince(obj, r, t) == \A i \in DOMAIN r.out : Was(obj, r.out[i], r.want[i], t)

\* How long the list fetched at f has been in use at time t: longer by a call
\* for each label that was created, and if none was looked up, then all were.
InUseSince(obj, r, f, t) ==
  \/ FoundSince(obj, r, f) /\ t - f < TTL + Timeout * Len(r.out)
  \/ /\ Len(r.out) > 0 /\ FoundSince(obj, r, f - Timeout)
     /\ t - f < TTL + Timeout * (Len(r.out) - 1)

\* The reply is about the next name, and about a label that is not in list e.
Made(e, r) ==
  \E i \in IDs : /\ r.reply = {[id |-> i, name |-> r.want[Len(r.out) + 1]]}
                 /\ \A p \in e.list : p.id # i

\* What a caller knows that is let in to entry e.
Uses(obj, now, e, r) ==
  r.at \in Using =>
    /\ e.known
    /\ r.op = "names" => now - e.fetchedAt < TTL
    /\ r.op = "ids" =>
         LET t == IF r.at = "ready" THEN now ELSE r.since
         IN e.fetchedAt <= t /\ Len(r.out) <= Len(r.want) /\ InUseSince(obj, r, e.fetchedAt, t)
    /\ r.at \in {"creating", "created"} =>
         /\ Len(r.out) < Len(r.want)
         /\ \A p \in e.list : p.name # r.want[Len(r.out) + 1]
    /\ r.at = "created" => r.reply = {} \/ Made(e, r)

\* No ID, and no name, is in a list twice.
Keyed(list) == \A p, q \in list : p.id = q.id => p = q
Named(list) == \A p, q \in list : p.name = q.name => p = q

Callings == \A c \in Callers : Asks(caller[c]) /\ Uses(objects, clock, entry[Home[c]], caller[c])

Lists(obj, list, t) == Keyed(list) /\ (NamesDiffer => Named(list)) /\ (OnePage => Full(obj, list, t))

Complete ==
  /\ NamesDiffer => \A i, j \in Live : objects[i].name = objects[j].name => i = j
  /\ \A e \in Entries : entry[e].known => Lists(objects, entry[e].list, entry[e].fetchedAt - Timeout)
  /\ \A c \in Callers : caller[c].at = "listed" => Lists(objects, caller[c].reply, caller[c].since)

IInv == CacheInv /\ Callings /\ Complete

\* The entries that may make a label named n without having lost a response.
\* One whose list is about to be replaced is judged by the new list.
Has(list, n) == \E p \in list : p.name = n

MayMake(n) ==
  {e \in Entries :
     IF \E c \in Callers : Home[c] = e /\ caller[c].at = "listed"
     THEN \E c \in Callers : Home[c] = e /\ caller[c].at = "listed" /\ ~Has(caller[c].reply, n)
     ELSE /\ entry[e].known /\ ~Has(entry[e].list, n)
          /\ ~\E c \in Callers : Home[c] = e /\ caller[c].at = "created" /\ Has(caller[c].reply, n)}

Bearers(n) == {i \in Live : objects[i].name = n}

Accounted ==
  \A n \in Names :
    Cardinality(Bearers(n)) + Cardinality(MayMake(n)) <=
      Cardinality(Entries) + (MaxFaults - left.faults) + (MaxChanges - left.changes)
-----------------------------------------------------------------------------
(***************************************************************************)
(* The operators the model is built from.                                  *)
(***************************************************************************)

\* Naturals are well-ordered.
LEMMA Least ==
  ASSUME NEW T \in SUBSET Nat, T # {}
  PROVE  \E x \in T : \A y \in T : x <= y
  <1>1. PICK x \in T : \A y \in T : ~(<<y, x>> \in OpToRel(<, Nat))
    BY NatLessThanWellFounded, WFMin
  <1>2. \A y \in T : ~(y < x)
    BY <1>1 DEF OpToRel
  <1> QED BY <1>2

\* The least and the greatest of numbers up to N.
LEMMA Extremes ==
  ASSUME NEW N \in Nat, NEW T \in SUBSET (1..N), T # {}
  PROVE  /\ Min(T) \in T /\ \A y \in T : Min(T) <= y
         /\ Max(T) \in T
  <1>1. \E x \in T : \A y \in T : x <= y
    <2>1. T \in SUBSET Nat
      OBVIOUS
    <2> QED BY <2>1, Least
  <1>2. \E x \in T : \A y \in T : x >= y
    <2> DEFINE M == {N - y : y \in T}
    <2>1. M \in SUBSET Nat /\ M # {}
      <3>1. \A y \in T : N - y \in Nat
        OBVIOUS
      <3> QED BY <3>1
    <2>2. PICK m \in M : \A k \in M : m <= k
      BY <2>1, Least
    <2>3. PICK x \in T : m = N - x
      BY <2>2
    <2>4. \A y \in T : N - x <= N - y
      BY <2>2, <2>3
    <2> QED BY <2>3, <2>4
  <1> QED BY <1>1, <1>2 DEF Min, Max

\* What the loop of Kept has after each element.
Table(kept, w, S) ==
  kept = [i \in 0..Len(w) |->
    IF i = 0 THEN <<>> ELSE IF w[i] \in S THEN Append(kept[i - 1], w[i]) ELSE kept[i - 1]]

\* s holds those of the first i elements of w, of set T, that are in S.
Collected(s, w, T, S, i) ==
  /\ s \in Seq(T \cap S) /\ Len(s) <= i
  /\ \A x : x \in Range(s) <=> x \in S /\ \E j \in 1..i : x = w[j]

\* The loop's table, for sequences of any length.
LEMMA KeptTable ==
  ASSUME NEW T, NEW w \in Seq(T), NEW S,
         NEW kept, Table(kept, w, S)
  PROVE  \A i \in 0..Len(w) : Collected(kept[i], w, T, S, i)
  <1> DEFINE Right(i) == Collected(kept[i], w, T, S, i)
             Wrong == {i \in 0..Len(w) : ~Right(i)}
  <1>1. Right(0)
    <2>1. kept[0] = <<>>
      BY DEF Table
    <2> QED BY <2>1 DEF Range, Collected
  <1>2. ASSUME NEW i \in 1..Len(w), Right(i - 1)
        PROVE  Right(i)
    <2>1. w[i] \in T /\ i - 1 \in 0..Len(w) /\ i \in 0..Len(w) /\ i # 0
      OBVIOUS
    <2>2. kept[i] = IF w[i] \in S THEN Append(kept[i - 1], w[i]) ELSE kept[i - 1]
      BY <2>1 DEF Table
    <2>3. \A x : (\E j \in 1..i : x = w[j]) <=> (\E j \in 1..(i - 1) : x = w[j]) \/ x = w[i]
      <3>1. \A j \in 1..i : j \in 1..(i - 1) \/ j = i
        OBVIOUS
      <3>2. \A j \in 1..(i - 1) : j \in 1..i
        OBVIOUS
      <3> QED BY <3>1, <3>2
    <2>4. CASE w[i] \in S
      <3> DEFINE s == kept[i - 1]
      <3>1. /\ s \in Seq(T \cap S) /\ Len(s) <= i - 1
            /\ \A x : x \in Range(s) <=> x \in S /\ \E j \in 1..(i - 1) : x = w[j]
        BY <1>2 DEF Collected
      <3>2. kept[i] = Append(s, w[i]) /\ w[i] \in T \cap S
        BY <2>1, <2>2, <2>4
      <3> HIDE DEF s
      <3>3. /\ Append(s, w[i]) \in Seq(T \cap S) /\ Len(Append(s, w[i])) = Len(s) + 1
            /\ Len(s) \in Nat
        BY <3>1, <3>2
      <3>4. Range(Append(s, w[i])) = Range(s) \cup {w[i]}
        <4>1. \A j \in DOMAIN Append(s, w[i]) :
                (j \in DOMAIN s /\ Append(s, w[i])[j] = s[j]) \/ Append(s, w[i])[j] = w[i]
          BY <3>1, <3>2
        <4>2. \A j \in DOMAIN s : j \in DOMAIN Append(s, w[i]) /\ Append(s, w[i])[j] = s[j]
          BY <3>1, <3>2
        <4>3. Len(s) + 1 \in DOMAIN Append(s, w[i]) /\ Append(s, w[i])[Len(s) + 1] = w[i]
          BY <3>1, <3>2
        <4> QED BY <4>1, <4>2, <4>3 DEF Range
      <3>5. Len(kept[i]) <= i
        BY <3>1, <3>2, <3>3
      <3> QED BY <2>3, <2>4, <3>1, <3>2, <3>3, <3>4, <3>5 DEF Collected
    <2>5. CASE w[i] \notin S
      <3>1. kept[i] = kept[i - 1]
        BY <2>2, <2>5
      <3>2. Len(kept[i - 1]) <= i
        BY <1>2 DEF Collected
      <3> QED BY <1>2, <2>3, <2>5, <3>1, <3>2 DEF Collected
    <2> QED BY <2>4, <2>5
  <1> HIDE DEF Right
  <1>3. Wrong = {}
    <2> SUFFICES ASSUME Wrong # {} PROVE FALSE
      OBVIOUS
    <2>1. Wrong \in SUBSET Nat
      OBVIOUS
    <2>2. PICK i \in Wrong : \A j \in Wrong : i <= j
      BY <2>1, Least
    <2>3. i \in 1..Len(w) /\ i - 1 \in 0..Len(w) /\ i - 1 \notin Wrong
      BY <1>1, <2>2
    <2> QED BY <1>2, <2>2, <2>3
  <1> QED BY <1>3 DEF Right

\* There is such a table.
LEMMA KeptExists ==
  ASSUME NEW T, NEW w \in Seq(T), NEW S
  PROVE  \E kept : Table(kept, w, S)
  <1> DEFINE Step(f, i) ==
               IF i = 0 THEN <<>> ELSE IF w[i] \in S THEN Append(f[i - 1], w[i]) ELSE f[i - 1]
             Upto(n) == \E f : f = [i \in 0..n |-> Step(f, i)]
             Wrong == {n \in 0..Len(w) : ~Upto(n)}
  <1>1. Upto(0)
    <2> DEFINE f == [i \in 0..0 |-> <<>>]
    <2>1. f = [i \in 0..0 |-> Step(f, i)]
      OBVIOUS
    <2> QED BY <2>1
  <1>2. ASSUME NEW n \in 1..Len(w), Upto(n - 1)
        PROVE  Upto(n)
    <2>1. PICK f : f = [i \in 0..(n - 1) |-> Step(f, i)]
      BY <1>2
    <2> DEFINE g == [i \in 0..n |-> IF i = n THEN Step(f, n) ELSE f[i]]
    <2>2. \A i \in 0..n : g[i] = Step(g, i)
      <3>1. \A i \in 0..(n - 1) : f[i] = Step(f, i) /\ g[i] = f[i]
        <4> HIDE DEF Step
        <4>1. \A i \in 0..(n - 1) : f[i] = Step(f, i)
          BY <2>1
        <4>2. \A i \in 0..(n - 1) : i \in 0..n /\ i # n
          OBVIOUS
        <4> QED BY <4>1, <4>2
      <3>2. \A i \in 0..n : i # 0 => i - 1 \in 0..(n - 1)
        OBVIOUS
      <3>3. \A i \in 0..n : i # n => i \in 0..(n - 1)
        OBVIOUS
      <3> HIDE DEF g
      <3>4. ASSUME NEW i \in 0..n PROVE Step(g, i) = Step(f, i)
        BY <3>1, <3>2
      <3>5. g[n] = Step(f, n)
        BY DEF g
      <3> QED BY <3>1, <3>3, <3>4, <3>5
    <2>3. g = [i \in 0..n |-> g[i]]
      OBVIOUS
    <2> HIDE DEF g
    <2>4. g = [i \in 0..n |-> Step(g, i)]
      BY <2>2, <2>3
    <2> QED BY <2>4
  <1> HIDE DEF Upto
  <1>3. Wrong = {}
    <2> SUFFICES ASSUME Wrong # {} PROVE FALSE
      OBVIOUS
    <2>1. Wrong \in SUBSET Nat
      OBVIOUS
    <2>2. PICK n \in Wrong : \A m \in Wrong : n <= m
      BY <2>1, Least
    <2>3. n \in 1..Len(w) /\ n - 1 \in 0..Len(w) /\ n - 1 \notin Wrong
      BY <1>1, <2>2
    <2> QED BY <1>2, <2>2, <2>3
  <1>4. Upto(Len(w))
    BY <1>3
  <1> QED BY <1>4 DEF Upto, Table

\* The elements of w that are in S are kept, and no others.
LEMMA KeptElements ==
  ASSUME NEW T, NEW w \in Seq(T), NEW S
  PROVE  /\ Kept(w, S) \in Seq(T \cap S) /\ Len(Kept(w, S)) <= Len(w)
         /\ Range(Kept(w, S)) = Range(w) \cap S
  <1> DEFINE table == CHOOSE f : f = [i \in 0..Len(w) |->
        IF i = 0 THEN <<>> ELSE IF w[i] \in S THEN Append(f[i - 1], w[i]) ELSE f[i - 1]]
  <1>1. Kept(w, S) = table[Len(w)]
    BY DEF Kept
  <1>2. Table(table, w, S)
    <2>1. table = CHOOSE f : Table(f, w, S)
      BY DEF Table
    <2> HIDE DEF table
    <2> QED BY <2>1, KeptExists, Zenon
  <1> HIDE DEF table
  <1>3. Len(w) \in 0..Len(w)
    OBVIOUS
  <1>4. \A x : x \in Range(w) <=> \E j \in 1..Len(w) : x = w[j]
    BY DEF Range
  <1>5. \A i \in 0..Len(w) : Collected(table[i], w, T, S, i)
    BY <1>2, KeptTable, Zenon
  <1> QED BY <1>1, <1>3, <1>4, <1>5 DEF Collected

\* A sequence that holds one element once.
LEMMA OneElement ==
  ASSUME NEW x
  PROVE  SetToSeq({x}) = <<x>>
  <1>1. Cardinality({x}) = 1
    BY FS_Singleton
  <1>2. <<x>> \in [1..1 -> {x}] /\ IsInjective(<<x>>)
    BY DEF IsInjective
  <1>3. \A f \in [1..1 -> {x}] : f = <<x>>
    OBVIOUS
  <1> QED BY <1>1, <1>2, <1>3 DEF SetToSeq
-----------------------------------------------------------------------------
(***************************************************************************)
(* What every step keeps.                                                  *)
(***************************************************************************)

\* No two objects come to have one name.
StillDiffer == NamesDiffer => \A i, j \in Live' : objects'[i].name = objects'[j].name => i = j

\* If one object gets a name now, and only one that is free, then names differ.
LEMMA GainsDiffer ==
  ASSUME IInv, NEW k, NEW n, Gains(k, n)
  PROVE  Traced /\ StillDiffer
  <1>1. Unique => \A i \in Live : k \in Live' => objects[i].name # n
    BY DEF Gains, Free, InUse
  <1> QED BY <1>1 DEF Gains, Traced, StillDiffer, NamesDiffer, IInv, Complete

\* A list that was full of old objects stays so.
LEMMA ListsStay ==
  ASSUME CacheInv, NEW list, NEW t \in Int, t <= clock, Lists(objects, list, t), Traced
  PROVE  Lists(objects', list, t)
  <1>1. OnePage => Full(objects', list, t)
    BY FullStays DEF Lists, CacheInv
  <1> QED BY <1>1 DEF Lists

\* Labels that were found are still so.
LEMMA FoundStay ==
  ASSUME CacheInv, NEW r \in Caller, NEW t \in Int, t <= clock, Remembered,
         FoundSince(objects, r, t), r.want \in Seq(Names), Len(r.out) <= Len(r.want)
  PROVE  FoundSince(objects', r, t)
  <1>1. \A i \in DOMAIN r.out : i \in DOMAIN r.want /\ r.want[i] \in Names
    BY DEF Caller
  <1>2. \A i \in DOMAIN objects : i \in Int
    BY DEF CacheInv, TypeOK
  <1>3. ASSUME NEW i \in DOMAIN r.out
        PROVE  Was(objects', r.out[i], r.want[i], t)
    <2>1. Was(objects, r.out[i], r.want[i], t) /\ r.want[i] \in Names
      BY <1>1 DEF FoundSince
    <2>2. r.out[i] \in Int
      BY <1>2, <2>1 DEF Was
    <2> QED BY <2>1, <2>2 DEF Remembered
  <1> QED BY <1>3 DEF FoundSince

\* What a caller knows stays true while it does not move.
LEMMA UsesStay ==
  ASSUME CacheInv, NEW d \in Callers, Remembered, Asks(caller[d]),
         Uses(objects, clock, entry[Home[d]], caller[d])
  PROVE  Uses(objects', clock, entry[Home[d]], caller[d])
  <1> DEFINE r == caller[d]
             e == entry[Home[d]]
  <1>1. r \in Caller /\ e.fetchedAt \in Int /\ e.fetchedAt <= clock /\ clock \in Int
    BY Parameters, Typed DEF CacheInv, TypeOK, Timed
  <1>2. Uses(objects, clock, e, r) /\ Asks(r)
    OBVIOUS
  <1> SUFFICES ASSUME r.at \in Using PROVE Uses(objects', clock, e, r)
    BY DEF Uses
  <1> HIDE DEF r, e
  <1>3. ASSUME r.op = "ids", NEW t, InUseSince(objects, r, e.fetchedAt, t), Len(r.out) <= Len(r.want)
        PROVE  InUseSince(objects', r, e.fetchedAt, t)
    <2>1. r.want \in Seq(Names)
      BY <1>2, <1>3 DEF Asks, Using, Ended
    <2>2. FoundSince(objects, r, e.fetchedAt) => FoundSince(objects', r, e.fetchedAt)
      BY <1>1, <1>3, <2>1, FoundStay
    <2>3. e.fetchedAt - Timeout \in Int /\ e.fetchedAt - Timeout <= clock
      BY <1>1, Parameters
    <2>4. FoundSince(objects, r, e.fetchedAt - Timeout) => FoundSince(objects', r, e.fetchedAt - Timeout)
      BY <1>1, <1>3, <2>1, <2>3, FoundStay
    <2> QED BY <1>3, <2>2, <2>4 DEF InUseSince
  <1> QED BY <1>2, <1>3 DEF Uses

\* One caller moves, and the entry it may write is its own, which it locks.
LEMMA CallingMoves ==
  ASSUME IInv, CacheInv', NEW c \in Callers, NEW r, caller' = [caller EXCEPT ![c] = r],
         clock' = clock, Remembered, Traced, StillDiffer,
         entry' = entry \/ c \in lock[Home[c]],
         \A e \in Entries : e # Home[c] => entry'[e] = entry[e],
         Asks(r), Uses(objects', clock, entry'[Home[c]], r),
         entry'[Home[c]].known =>
           Lists(objects', entry'[Home[c]].list, entry'[Home[c]].fetchedAt - Timeout),
         r.at = "listed" => Lists(objects', r.reply, r.since)
  PROVE  IInv'
  <1>1. caller'[c] = r /\ \A d \in Callers : d # c => caller'[d] = caller[d]
    BY DEF IInv, CacheInv, TypeOK
  <1>2. Callings'
    <2>1. ASSUME NEW d \in Callers, d # c
          PROVE  Uses(objects', clock, entry'[Home[d]], caller[d])
      <3>1. Uses(objects', clock, entry[Home[d]], caller[d])
        BY UsesStay DEF IInv, Callings
      <3>2. CASE caller[d].at \notin Using
        BY <3>2 DEF Uses
      <3>3. CASE caller[d].at \in Using
        <4>1. d \in lock[Home[d]]
          BY <3>3 DEF IInv, CacheInv, Exclusive, Holding, Using
        <4>2. entry'[Home[d]] = entry[Home[d]]
          <5>1. CASE Home[d] = Home[c]
            BY <2>1, <4>1, <5>1, Parameters DEF IInv, CacheInv, Exclusive
          <5> QED BY <5>1, Parameters
        <4> QED BY <3>1, <4>2
      <3> QED BY <3>2, <3>3
    <2> QED BY <1>1, <2>1 DEF IInv, Callings
  <1>3. ASSUME NEW e \in Entries, e # Home[c], entry[e].known
        PROVE  Lists(objects', entry[e].list, entry[e].fetchedAt - Timeout)
    <2>1. entry[e].fetchedAt - Timeout \in Int /\ entry[e].fetchedAt - Timeout <= clock
      BY Typed, Parameters DEF IInv, CacheInv, Timed
    <2>2. Lists(objects, entry[e].list, entry[e].fetchedAt - Timeout)
      BY <1>3 DEF IInv, Complete
    <2> QED BY <2>1, <2>2, ListsStay DEF IInv
  <1>4. ASSUME NEW d \in Callers, d # c, caller[d].at = "listed"
        PROVE  Lists(objects', caller[d].reply, caller[d].since)
    <2>1. caller[d].since \in Int /\ caller[d].since <= clock
      BY <1>4, Typed DEF IInv, CacheInv, Timed, InFlight, Holding
    <2>2. Lists(objects, caller[d].reply, caller[d].since)
      BY <1>4 DEF IInv, Complete
    <2> QED BY <2>1, <2>2, ListsStay DEF IInv
  <1>5. Complete'
    BY <1>1, <1>3, <1>4 DEF Complete, StillDiffer
  <1> QED BY <1>2, <1>5 DEF IInv
-----------------------------------------------------------------------------
(***************************************************************************)
(* The steps up to the list.                                               *)
(***************************************************************************)

\* One caller moves and nothing else does.
LEMMA CallerMovesOn ==
  ASSUME IInv, CacheInv', NEW c \in Callers, NEW r, caller' = [caller EXCEPT ![c] = r],
         clock' = clock, objects' = objects, entry' = entry,
         Asks(r), Uses(objects, clock, entry[Home[c]], r),
         r.at = "listed" => Lists(objects, r.reply, r.since)
  PROVE  IInv'
  <1>1. Remembered /\ Traced /\ StillDiffer
    BY DEF Remembered, Traced, StillDiffer, Live, IInv, Complete
  <1>2. entry[Home[c]].known => Lists(objects, entry[Home[c]].list, entry[Home[c]].fetchedAt - Timeout)
    BY Parameters DEF IInv, Complete
  <1> QED BY <1>1, <1>2, CallingMoves

\* At first nobody asks and no list is known.
LEMMA LabelsInit == ASSUME Init PROVE IInv
  <1>1. CacheInv
    BY InitSound
  <1>2. \A c \in Callers : caller[c].at = "idle" /\ caller[c].reply = {}
    BY DEF Init
  <1>3. Callings
    BY <1>2 DEF Callings, Asks, Uses, Using, Ended
  <1>4. \A i \in DOMAIN objects : i \in DOMAIN Initial /\ objects[i].name = Initial[i]
    BY DEF Init, NewObject
  <1>5. \A e \in Entries : entry[e].known = FALSE
    BY DEF Init
  <1>6. Complete
    BY <1>2, <1>4, <1>5 DEF Complete, NamesDiffer, InitiallyDistinct, Live
  <1> QED BY <1>1, <1>3, <1>6 DEF IInv

\* A new call has neither list nor label.
LEMMA BeginKeeps ==
  ASSUME IInv, NEW c \in Callers, NEW o, NEW w, Begin(c, o, w), Len(w) <= MaxLabels,
         \/ o = "ids" /\ w \in Seq(Names)
         \/ o = "names" /\ w \in Seq(IDs)
  PROVE  IInv'
  <1>1. o \in Operations /\ w \in Seq(Names \cup IDs)
    BY DEF Operations
  <1>2. CacheInv'
    BY <1>1, BeginSound DEF IInv
  <1> DEFINE r == [at |-> "waiting", op |-> o, want |-> w, out |-> <<>>, since |-> clock,
                   reply |-> {}]
  <1>3. /\ caller' = [caller EXCEPT ![c] = r] /\ entry' = entry /\ clock' = clock
        /\ objects' = objects
    BY DEF Begin
  <1>4. Asks(r) /\ r.at = "waiting"
    BY DEF Asks, Ended
  <1> HIDE DEF r
  <1>5. Uses(objects, clock, entry[Home[c]], r)
    BY <1>4 DEF Uses, Using
  <1> QED BY <1>2, <1>3, <1>4, <1>5, CallerMovesOn

\* Names are asked for without the empty ones, IDs as they are.
LEMMA ResolveKeeps ==
  ASSUME IInv, NEW c \in Callers, ResolveLabels(c) \/ ResolveNames(c)
  PROVE  IInv'
  <1>1. CASE ResolveLabels(c)
    <2> DEFINE T == Names \cup {Blank}
               S == Names \ {Blank}
    <2>1. PICK w \in BoundedSeq(T, MaxLabels) : Begin(c, "ids", Kept(w, S))
      BY <1>1 DEF ResolveLabels
    <2>2. w \in Seq(T) /\ Len(w) <= MaxLabels /\ Len(w) \in Nat
      BY LabelsAssumption DEF BoundedSeq, SeqOf
    <2>3. Kept(w, S) \in Seq(T \cap S) /\ Len(Kept(w, S)) <= Len(w)
      BY <2>2, KeptElements
    <2>4. T \cap S = S
      OBVIOUS
    <2>5. Kept(w, S) \in Seq(Names)
      BY <2>3, <2>4
    <2>6. Len(Kept(w, S)) <= MaxLabels
      BY <2>2, <2>3, <2>5, LabelsAssumption
    <2> QED BY <2>1, <2>5, <2>6, BeginKeeps
  <1>2. CASE ResolveNames(c)
    <2>1. PICK w \in BoundedSeq(DOMAIN objects, MaxLabels) : Begin(c, "names", w)
      BY <1>2 DEF ResolveNames
    <2>2. DOMAIN objects \subseteq IDs
      BY Parameters DEF IInv, CacheInv, TypeOK, IDs
    <2>3. w \in Seq(IDs) /\ Len(w) <= MaxLabels
      BY <2>2, LabelsAssumption DEF BoundedSeq, SeqOf
    <2> QED BY <2>1, <2>3, BeginKeeps
  <1> QED BY <1>1, <1>2

\* A list that is used at once is fresh.
LEMMA AcquireKeeps ==
  ASSUME IInv, NEW c \in Callers, Acquire(c)
  PROVE  IInv'
  <1> DEFINE r == [caller[c] EXCEPT !.since = clock,
                                    !.at = IF Fresh(Home[c]) THEN "ready" ELSE "listing"]
  <1>1. CacheInv'
    BY AcquireSound DEF IInv
  <1>2. caller' = [caller EXCEPT ![c] = r] /\ entry' = entry /\ clock' = clock /\ objects' = objects
    BY DEF Acquire
  <1>3. caller[c] \in Caller /\ caller[c].at = "waiting" /\ Asks(caller[c])
    BY DEF IInv, Callings, CacheInv, TypeOK, Acquire
  <1>4. /\ r.want = caller[c].want /\ r.op = caller[c].op /\ r.out = caller[c].out
        /\ r.reply = caller[c].reply /\ r.at = IF Fresh(Home[c]) THEN "ready" ELSE "listing"
    BY <1>3 DEF Caller
  <1> HIDE DEF r
  <1>5. r.out = <<>> /\ r.reply = {} /\ Len(r.out) = 0
    BY <1>3, <1>4 DEF Asks
  <1>6. Asks(r)
    BY <1>3, <1>4, <1>5 DEF Asks, Ended
  <1>7. Uses(objects, clock, entry[Home[c]], r)
    <2> SUFFICES ASSUME Fresh(Home[c]), r.at = "ready"
                 PROVE  Uses(objects, clock, entry[Home[c]], r)
      BY <1>4 DEF Uses, Using
    <2>1. entry[Home[c]].known /\ clock - entry[Home[c]].fetchedAt < TTL
      BY DEF Fresh
    <2>2. entry[Home[c]].fetchedAt <= clock
      BY Parameters DEF IInv, CacheInv, Timed
    <2>3. FoundSince(objects, r, entry[Home[c]].fetchedAt)
      BY <1>5 DEF FoundSince
    <2>4. TTL + Timeout * Len(r.out) = TTL
      BY <1>5, Parameters
    <2>5. InUseSince(objects, r, entry[Home[c]].fetchedAt, clock)
      BY <2>1, <2>3, <2>4 DEF InUseSince
    <2>6. Len(r.out) <= Len(r.want)
      BY <1>3, <1>4, <1>5 DEF Caller
    <2> QED BY <2>1, <2>2, <2>5, <2>6 DEF Uses
  <1>8. r.at # "listed"
    BY <1>4
  <1> QED BY <1>1, <1>2, <1>6, <1>7, <1>8, CallerMovesOn

\* What is served says of every object on the page what is true.
LEMMA PageListed ==
  ASSUME IInv, NEW t
  PROVE  Lists(objects, Page, t)
  <1>1. \A p \in Page : \E i \in Live : p = [id |-> i, name |-> objects[i].name]
    BY DEF Page
  <1>2. Keyed(Page)
    BY <1>1 DEF Keyed
  <1>3. NamesDiffer => Named(Page)
    BY <1>1 DEF Named, IInv, Complete
  <1>4. OnePage => Full(objects, Page, t)
    BY PageIsWhole DEF Full, Live, IInv, CacheInv
  <1> QED BY <1>2, <1>3, <1>4 DEF Lists

\* What is served is a list.
LEMMA ListServedKeeps ==
  ASSUME IInv, NEW c \in Callers, ListServed(c)
  PROVE  IInv'
  <1> DEFINE r == [caller[c] EXCEPT !.at = "listed", !.reply = Page]
  <1>1. CacheInv'
    BY ListServedSound DEF IInv
  <1>2. caller' = [caller EXCEPT ![c] = r] /\ entry' = entry /\ clock' = clock /\ objects' = objects
    BY DEF ListServed
  <1>3. caller[c] \in Caller /\ caller[c].at = "listing" /\ Asks(caller[c])
    BY DEF IInv, Callings, CacheInv, TypeOK, ListServed
  <1>4. /\ r.want = caller[c].want /\ r.op = caller[c].op /\ r.out = caller[c].out
        /\ r.reply = Page /\ r.at = "listed"
    BY <1>3 DEF Caller
  <1> HIDE DEF r
  <1>5. Asks(r)
    BY <1>3, <1>4 DEF Asks, Ended
  <1>6. Uses(objects, clock, entry[Home[c]], r)
    BY <1>4 DEF Uses, Using
  <1> QED BY <1>1, <1>2, <1>4, <1>5, <1>6, PageListed, CallerMovesOn

\* The entry's new list is full of what is older than its call.
LEMMA ListReturnsKeeps ==
  ASSUME IInv, NEW c \in Callers, ListReturns(c)
  PROVE  IInv'
  <1> DEFINE r == [caller[c] EXCEPT !.at = "ready", !.reply = {}]
             f == [known |-> TRUE, list |-> caller[c].reply, fetchedAt |-> clock]
  <1>1. CacheInv'
    BY ListReturnsSound DEF IInv
  <1>2. /\ caller' = [caller EXCEPT ![c] = r] /\ entry' = [entry EXCEPT ![Home[c]] = f]
        /\ clock' = clock /\ objects' = objects
    BY DEF ListReturns
  <1>3. caller[c] \in Caller /\ caller[c].at = "listed" /\ Asks(caller[c])
    BY DEF IInv, Callings, CacheInv, TypeOK, ListReturns
  <1>4. /\ r.want = caller[c].want /\ r.op = caller[c].op /\ r.out = caller[c].out
        /\ r.reply = {} /\ r.at = "ready"
    BY <1>3 DEF Caller
  <1>5. f.known /\ f.list = caller[c].reply /\ f.fetchedAt = clock
    OBVIOUS
  <1> HIDE DEF r, f
  <1>6. entry'[Home[c]] = f /\ \A e \in Entries : e # Home[c] => entry'[e] = entry[e]
    BY <1>2, Parameters DEF IInv, CacheInv, TypeOK
  <1>7. c \in lock[Home[c]]
    BY <1>3 DEF IInv, CacheInv, Exclusive, Holding
  <1>8. r.out = <<>> /\ Len(r.out) = 0 /\ Asks(r)
    BY <1>3, <1>4 DEF Asks, Ended
  <1>9. clock \in Int /\ clock - clock < TTL /\ clock <= clock
    BY Typed, Parameters DEF IInv, CacheInv
  <1>10. Uses(objects, clock, f, r)
    <2>1. FoundSince(objects, r, clock)
      BY <1>8 DEF FoundSince
    <2>2. TTL + Timeout * Len(r.out) = TTL
      BY <1>8, Parameters
    <2>3. InUseSince(objects, r, clock, clock)
      BY <1>9, <2>1, <2>2 DEF InUseSince
    <2>4. Len(r.out) <= Len(r.want)
      BY <1>3, <1>4, <1>8 DEF Caller
    <2> QED BY <1>4, <1>5, <1>9, <2>3, <2>4 DEF Uses
  <1>11. Lists(objects, f.list, f.fetchedAt - Timeout)
    <2>1. Lists(objects, caller[c].reply, caller[c].since)
      BY <1>3 DEF IInv, Complete
    <2>2. clock - Timeout <= caller[c].since /\ caller[c].since \in Int
      BY <1>3, <1>9, Typed, Parameters DEF IInv, CacheInv, Timed, InFlight, Holding
    <2>3. \A i \in DOMAIN objects : objects[i].since \in Int
      <3>1. \A i \in DOMAIN objects : objects[i] \in Object
        BY DEF IInv, CacheInv, TypeOK
      <3> QED BY <3>1, Parameters DEF Object
    <2>4. Full(objects, caller[c].reply, caller[c].since) => Full(objects, caller[c].reply, clock - Timeout)
      BY <1>9, <2>2, <2>3, Parameters DEF Full
    <2> QED BY <1>5, <2>1, <2>4 DEF Lists
  <1>12. Remembered /\ Traced /\ StillDiffer
    BY <1>2 DEF Remembered, Traced, StillDiffer, Live, IInv, Complete
  <1>13. r.at # "listed"
    BY <1>4
  <1> QED BY <1>1, <1>2, <1>6, <1>7, <1>8, <1>10, <1>11, <1>12, <1>13, CallingMoves

\* A call that has ended waits for nothing.
LEMMA FinishKeeps ==
  ASSUME IInv, CacheInv', NEW c \in Callers, NEW at \in Ended, NEW out, Finish(c, at, out),
         UNCHANGED <<clock, objects, entry>>
  PROVE  IInv'
  <1> DEFINE r == [at |-> at, op |-> "none", want |-> <<>>, out |-> out, since |-> 0, reply |-> {}]
  <1>1. caller' = [caller EXCEPT ![c] = r]
    BY DEF Finish
  <1>2. r.at = at /\ r.reply = {} /\ r.at \notin Using /\ r.at # "listed"
    BY DEF Ended, Using
  <1>3. Asks(r)
    BY <1>2 DEF Asks, Ended
  <1> HIDE DEF r
  <1>4. Uses(objects, clock, entry[Home[c]], r)
    BY <1>2 DEF Uses
  <1> QED BY <1>1, <1>2, <1>3, <1>4, CallerMovesOn

\* A call that fails has ended.
LEMMA CallFailsKeeps ==
  ASSUME IInv, NEW c \in Callers, CallFails(c)
  PROVE  IInv'
  <1>1. CacheInv' /\ "failed" \in Ended
    BY CallFailsSound DEF IInv, Ended
  <1> QED BY <1>1, FinishKeeps DEF CallFails
-----------------------------------------------------------------------------
(***************************************************************************)
(* Looking names and IDs up.                                               *)
(***************************************************************************)

\* Time for more calls is more time.
LEMMA MoreTime ==
  ASSUME NEW d \in Int, NEW a \in Int, NEW b \in Int, a <= b, d < TTL + Timeout * a
  PROVE  d < TTL + Timeout * b
  <1>1. Timeout * a <= Timeout * b /\ Timeout * a \in Int /\ Timeout * b \in Int
    BY TimeAssumption
  <1> QED BY <1>1, TimeAssumption

\* What was so at time t or after was so after any earlier time.
LEMMA WasBefore ==
  ASSUME CacheInv, NEW i, NEW n \in Names, NEW t \in Int, NEW u \in Int, u <= t, Was(objects, i, n, t)
  PROVE  Was(objects, i, n, u) /\ i \in IDs
  <1>1. i \in DOMAIN objects /\ objects[i] \in Object
    BY DEF Was, CacheInv, TypeOK
  <1>2. objects[i].held[n] \in Int
    BY <1>1, Parameters DEF Object
  <1>3. i \in IDs
    BY <1>1, Parameters DEF CacheInv, TypeOK, IDs
  <1> QED BY <1>2, <1>3 DEF Was

\* The label found for a name is one of that name on the list.
LEMMA ByNameListed ==
  ASSUME CacheInv, NEW e \in Entries, NEW n, Knows(e, n)
  PROVE  \E p \in entry[e].list : p.name = n /\ p.id = ByName(e, n)
  <1> DEFINE T == {p.id : p \in {p \in entry[e].list : p.name = n}}
  <1>1. T \subseteq 1..MaxObjects
    BY Typed DEF CacheInv, Pair, IDs
  <1>2. T # {}
    BY DEF Knows
  <1>3. Max(T) \in T
    BY <1>1, <1>2, Extremes, BudgetAssumption
  <1> QED BY <1>3 DEF ByName

\* The list's word for a name is as old as the list.
LEMMA ByNameWas ==
  ASSUME CacheInv, NEW e \in Entries, NEW n \in Names, Knows(e, n)
  PROVE  /\ Was(objects, ByName(e, n), n, entry[e].fetchedAt - Timeout)
         /\ ByName(e, n) \in IDs
  <1>1. PICK p \in entry[e].list : p.name = n /\ p.id = ByName(e, n)
    BY ByNameListed
  <1>2. Was(objects, ByName(e, n), n, entry[e].fetchedAt - Timeout)
    BY <1>1 DEF CacheInv, Sourced
  <1>3. p \in Pair
    BY <1>1, Typed DEF CacheInv
  <1> QED BY <1>1, <1>2, <1>3 DEF Pair

\* A caller in the loop over the names.
LEMMA Looping ==
  ASSUME IInv, NEW c \in Callers, caller[c].at \in Using, caller[c].op = "ids"
  PROVE  /\ caller[c] \in Caller /\ entry[Home[c]].known /\ clock \in Int
         /\ entry[Home[c]].fetchedAt \in Int /\ entry[Home[c]].fetchedAt - Timeout \in Int
         /\ caller[c].want \in Seq(Names) /\ Len(caller[c].want) <= MaxLabels
         /\ Len(caller[c].out) \in Nat /\ Len(caller[c].want) \in Nat
         /\ Len(caller[c].out) <= Len(caller[c].want)
         /\ caller[c].out \in Seq(Names \cup IDs)
         /\ caller[c].at = "ready" =>
              /\ entry[Home[c]].fetchedAt <= clock /\ caller[c].reply = {}
              /\ InUseSince(objects, caller[c], entry[Home[c]].fetchedAt, clock)
         /\ caller[c].at \in {"creating", "created"} =>
              /\ entry[Home[c]].fetchedAt <= caller[c].since
              /\ Len(caller[c].out) < Len(caller[c].want)
              /\ ~Knows(Home[c], Creating(c)) /\ Creating(c) \in Names
              /\ InUseSince(objects, caller[c], entry[Home[c]].fetchedAt, caller[c].since)
         /\ caller[c].at = "creating" => caller[c].reply = {}
         /\ caller[c].at = "created" =>
              caller[c].reply = {} \/ Made(entry[Home[c]], caller[c])
  <1>1. Home[c] \in Entries /\ Uses(objects, clock, entry[Home[c]], caller[c]) /\ Asks(caller[c])
    BY Parameters DEF IInv, Callings
  <1>2. caller[c] \in Caller /\ clock \in Int /\ entry[Home[c]].fetchedAt \in Int
    BY <1>1, Typed DEF IInv, CacheInv, TypeOK
  <1>3. /\ caller[c].want \in Seq(Names) /\ Len(caller[c].want) <= MaxLabels
        /\ caller[c].at \in {"ready", "creating"} => caller[c].reply = {}
    BY <1>1 DEF Asks, Using, Ended
  <1>4. caller[c].out \in Seq(Names \cup IDs)
    BY <1>2 DEF Caller
  <1>5. Len(caller[c].out) < Len(caller[c].want) => Creating(c) \in Names
    BY <1>3, <1>4 DEF Creating
  <1>6. /\ entry[Home[c]].known
        /\ LET t == IF caller[c].at = "ready" THEN clock ELSE caller[c].since
           IN /\ entry[Home[c]].fetchedAt <= t /\ Len(caller[c].out) <= Len(caller[c].want)
              /\ InUseSince(objects, caller[c], entry[Home[c]].fetchedAt, t)
        /\ caller[c].at \in {"creating", "created"} =>
             /\ Len(caller[c].out) < Len(caller[c].want)
             /\ \A p \in entry[Home[c]].list : p.name # caller[c].want[Len(caller[c].out) + 1]
        /\ caller[c].at = "created" => caller[c].reply = {} \/ Made(entry[Home[c]], caller[c])
    BY <1>1 DEF Uses
  <1>7. caller[c].at \in {"creating", "created"} => ~Knows(Home[c], Creating(c))
    BY <1>6 DEF Knows, Creating
  <1>8. entry[Home[c]].fetchedAt - Timeout \in Int
    BY <1>2, Parameters
  <1> QED BY <1>2, <1>3, <1>4, <1>5, <1>6, <1>7, <1>8

\* What the loop has found when it comes to place i.
LEMMA FoundUpTo ==
  ASSUME IInv, NEW c \in Callers, caller[c].at = "ready", caller[c].op = "ids",
         NEW i \in Len(caller[c].out) + 1..Len(caller[c].want) + 1,
         \A j \in Len(caller[c].out) + 1..i - 1 : Knows(Home[c], caller[c].want[j]),
         NEW r, r.want = caller[c].want, r.out = FoundBefore(c, i)
  PROVE  /\ r.out \in Seq(Names \cup IDs) /\ Len(r.out) = i - 1
         /\ InUseSince(objects, r, entry[Home[c]].fetchedAt, clock)
  <1> DEFINE old == caller[c]
             f == entry[Home[c]].fetchedAt
             t == f - Timeout
  <1>1. /\ old.out \in Seq(Names \cup IDs) /\ old.want \in Seq(Names) /\ Len(old.out) \in Nat
        /\ Len(old.want) \in Nat /\ Len(old.out) <= Len(old.want)
        /\ f \in Int /\ t \in Int /\ clock \in Int /\ Home[c] \in Entries
        /\ InUseSince(objects, old, f, clock)
    BY Looping, Parameters DEF Using
  <1>2. i \in Nat /\ DOMAIN old.out = 1..Len(old.out) /\ r.want = old.want
        /\ \A j \in 1..i - 1 : j \in 1..Len(old.want)
    BY <1>1
  <1>3. /\ DOMAIN r.out = 1..i - 1
        /\ \A j \in 1..i - 1 :
             r.out[j] = IF j \in 1..Len(old.out) THEN old.out[j] ELSE ByName(Home[c], old.want[j])
    BY <1>2 DEF FoundBefore
  <1>4. \A j \in 1..i - 1 : j \notin 1..Len(old.out) =>
          /\ Was(objects, r.out[j], r.want[j], t) /\ r.out[j] \in IDs
    <2> TAKE j \in 1..i - 1
    <2> HAVE j \notin 1..Len(old.out)
    <2>1. j \in Len(old.out) + 1..i - 1 /\ old.want[j] \in Names
      BY <1>1, <1>2
    <2>2. Knows(Home[c], old.want[j])
      BY <2>1
    <2>3. r.out[j] = ByName(Home[c], old.want[j]) /\ r.want[j] = old.want[j]
      BY <1>2, <1>3
    <2> QED BY <1>1, <2>1, <2>2, <2>3, ByNameWas DEF IInv
  <1>5. r.out \in Seq(Names \cup IDs) /\ Len(r.out) = i - 1
    <2>1. \A j \in 1..i - 1 : r.out[j] \in Names \cup IDs
      <3> TAKE j \in 1..i - 1
      <3>1. CASE j \in 1..Len(old.out)
        <4>1. r.out[j] = old.out[j]
          BY <1>3, <3>1
        <4> HIDE DEF old
        <4> QED BY <1>1, <3>1, <4>1
      <3>2. CASE j \notin 1..Len(old.out)
        BY <1>4, <3>2
      <3> QED BY <3>1, <3>2
    <2>2. r.out = [j \in 1..i - 1 |-> r.out[j]]
      BY <1>3 DEF FoundBefore
    <2>3. i - 1 \in Nat
      BY <1>1
    <2> QED BY <2>1, <2>2, <2>3
  <1>6. CASE i = Len(old.out) + 1
    <2>1. i - 1 = Len(old.out)
      BY <1>1, <1>6
    <2>2. \A u : FoundSince(objects, old, u) => FoundSince(objects, r, u)
      BY <1>2, <1>3, <2>1 DEF FoundSince
    <2> QED BY <1>1, <1>5, <2>1, <2>2 DEF InUseSince
  <1>7. CASE i # Len(old.out) + 1
    <2>1. Len(old.out) <= i - 2 /\ i - 2 \in Int /\ i - 1 > 0
      BY <1>1, <1>7
    <2>2. \A j \in 1..Len(old.out) : Was(objects, old.out[j], old.want[j], t)
      <3> TAKE j \in 1..Len(old.out)
      <3>1. Was(objects, old.out[j], old.want[j], f) \/ Was(objects, old.out[j], old.want[j], t)
        BY <1>1, <1>2 DEF InUseSince, FoundSince
      <3>2. old.want[j] \in Names /\ t <= f
        <4>1. j \in 1..Len(old.want)
          BY <1>1
        <4>2. t <= f
          BY <1>1, Parameters
        <4> HIDE DEF old, f, t
        <4> QED BY <1>1, <4>1, <4>2
      <3> QED BY <1>1, <3>1, <3>2, WasBefore DEF IInv
    <2>3. FoundSince(objects, r, t)
      <3>1. ASSUME NEW j \in DOMAIN r.out
            PROVE  Was(objects, r.out[j], r.want[j], t)
        BY <1>2, <1>3, <1>4, <2>2
      <3> QED BY <3>1 DEF FoundSince
    <2>4. clock - f < TTL + Timeout * Len(old.out)
      <3>1. CASE clock - f < TTL + Timeout * Len(old.out)
        BY <3>1
      <3>2. CASE clock - f < TTL + Timeout * (Len(old.out) - 1)
        <4>1. Len(old.out) - 1 \in Int /\ Len(old.out) - 1 <= Len(old.out) /\ Len(old.out) \in Int
              /\ clock - f \in Int
          BY SMTT(30), <1>1
        <4> QED BY <3>2, <4>1, MoreTime
      <3> QED BY <1>1, <3>1, <3>2 DEF InUseSince
    <2>5. Len(r.out) - 1 = i - 2 /\ Len(r.out) > 0
      BY <1>2, <1>5, <2>1
    <2>6. clock - f \in Int /\ Len(old.out) \in Int /\ Len(r.out) - 1 \in Int
          /\ Len(old.out) <= Len(r.out) - 1
      BY <1>1, <2>1, <2>5
    <2>7. clock - f < TTL + Timeout * (Len(r.out) - 1)
      BY <2>4, <2>6, MoreTime
    <2> HIDE DEF f, t, old
    <2>8. FoundSince(objects, r, f - Timeout)
      BY <2>3 DEF t
    <2> QED BY <1>5, <2>5, <2>7, <2>8 DEF InUseSince, f
  <1> HIDE DEF old, f, t
  <1> QED BY <1>6, <1>7

\* The first name that is not in the map, and what is found up to it.
LEMMA FirstMissing ==
  ASSUME IInv, NEW c \in Callers, caller[c].at = "ready", caller[c].op = "ids", Missing(c) # {}
  PROVE  LET m == Min(Missing(c))
         IN /\ m \in Len(caller[c].out) + 1..Len(caller[c].want)
            /\ ~Knows(Home[c], caller[c].want[m])
            /\ \A j \in Len(caller[c].out) + 1..m - 1 : Knows(Home[c], caller[c].want[j])
  <1> DEFINE m == Min(Missing(c))
  <1>1. Len(caller[c].out) \in Nat /\ Len(caller[c].want) \in Nat
    BY Looping DEF Using
  <1>2. Missing(c) \in SUBSET (1..Len(caller[c].want))
    BY <1>1 DEF Missing
  <1>3. m \in Missing(c) /\ \A k \in Missing(c) : m <= k
    BY <1>1, <1>2, Extremes
  <1> HIDE DEF m
  <1>4. m \in Len(caller[c].out) + 1..Len(caller[c].want) /\ ~Knows(Home[c], caller[c].want[m])
    BY <1>3 DEF Missing
  <1>5. ASSUME NEW j \in Len(caller[c].out) + 1..m - 1
        PROVE  Knows(Home[c], caller[c].want[j])
    <2>1. j \in Len(caller[c].out) + 1..Len(caller[c].want) /\ ~(m <= j)
      BY <1>1, <1>4
    <2> QED BY <1>3, <2>1 DEF Missing
  <1> QED BY <1>4, <1>5 DEF m

\* The invariant of all caches is kept by a caller that goes on without its entry.
LEMMA GoesOnSound ==
  ASSUME CacheInv, NEW c \in Callers, NEW r \in Caller, caller' = [caller EXCEPT ![c] = r],
         UNCHANGED <<clock, entry, lock, left>>, objects' \in Seq(Object), Len(objects') <= MaxObjects,
         Remembered, caller[c].at \in Holding, r.at \in {"creating", "created"},
         r.since <= clock, clock - r.since <= Timeout,
         r.at = "created" => \A p \in r.reply : Was(objects', p.id, p.name, r.since)
  PROVE  CacheInv'
  <1>1. TypeOK'
    BY DEF CacheInv, TypeOK
  <1>2. Exclusive' /\ c \in lock[Home[c]]
    BY LockMoves DEF CacheInv, Exclusive, Holding
  <1>3. Home[c] \in Entries
    BY Parameters
  <1>4. entry'[Home[c]].fetchedAt <= clock
    BY <1>3 DEF CacheInv, Timed
  <1>5. ASSUME NEW p \in entry'[Home[c]].list
        PROVE  Was(objects', p.id, p.name, entry'[Home[c]].fetchedAt - Timeout)
    <2>1. /\ p.id \in Int /\ p.name \in Names /\ clock \in Int /\ entry[Home[c]].fetchedAt \in Int
          /\ p \in entry[Home[c]].list
      BY <1>3, <1>5, Typed DEF CacheInv
    <2>2. entry[Home[c]].fetchedAt - Timeout <= clock /\ entry[Home[c]].fetchedAt - Timeout \in Int
      BY <1>4, <2>1, Parameters
    <2>3. Was(objects, p.id, p.name, entry[Home[c]].fetchedAt - Timeout)
      BY <1>3, <2>1 DEF CacheInv, Sourced
    <2> QED BY <2>1, <2>2, <2>3 DEF Remembered
  <1>6. r.at \notin {"listing", "listed"}
    OBVIOUS
  <1> QED BY <1>1, <1>2, <1>4, <1>5, <1>6, CallerMoves

\* The loop ends, or comes to a name to be created.
LEMMA LookUpKeeps ==
  ASSUME IInv, NEW c \in Callers, LookUp(c)
  PROVE  IInv'
  <1>1. /\ caller[c].at = "ready" /\ caller[c].op = "ids"
        /\ UNCHANGED <<clock, objects, entry, left>> /\ left' \in Budget
    BY DEF LookUp, IInv, CacheInv, TypeOK
  <1>2. CASE Missing(c) = {}
    <2> DEFINE i == Len(caller[c].want) + 1
               r == [want |-> caller[c].want, out |-> FoundBefore(c, i)]
    <2>1. i \in Len(caller[c].out) + 1..Len(caller[c].want) + 1
      BY <1>1, Looping DEF Using
    <2>2. \A j \in Len(caller[c].out) + 1..i - 1 : Knows(Home[c], caller[c].want[j])
      BY <1>1, <1>2, Looping DEF Missing, Using
    <2>3. r.want = caller[c].want /\ r.out = FoundBefore(c, i)
      OBVIOUS
    <2> HIDE DEF r
    <2>4. r.out \in Seq(Names \cup IDs)
      BY <1>1, <2>1, <2>2, <2>3, FoundUpTo
    <2>5. Finish(c, "done", r.out) /\ "done" \in Ended
      BY <1>2, <2>3 DEF LookUp, Ended
    <2>6. CacheInv'
      BY <1>1, <2>4, <2>5, FinishSound DEF IInv
    <2> QED BY <1>1, <2>5, <2>6, FinishKeeps
  <1>3. CASE Missing(c) # {}
    <2> DEFINE m == Min(Missing(c))
               r == [caller[c] EXCEPT !.at = "creating", !.since = clock, !.out = FoundBefore(c, m)]
    <2>1. /\ m \in Len(caller[c].out) + 1..Len(caller[c].want)
          /\ ~Knows(Home[c], caller[c].want[m])
          /\ \A j \in Len(caller[c].out) + 1..m - 1 : Knows(Home[c], caller[c].want[j])
      BY <1>1, <1>3, FirstMissing
    <2>2. caller' = [caller EXCEPT ![c] = r] /\ lock' = lock
      BY <1>3 DEF LookUp
    <2>3. /\ caller[c] \in Caller /\ Len(caller[c].out) \in Nat /\ Len(caller[c].want) \in Nat
          /\ caller[c].want \in Seq(Names) /\ Len(caller[c].want) <= MaxLabels
          /\ caller[c].reply = {} /\ entry[Home[c]].known /\ entry[Home[c]].fetchedAt <= clock
      BY <1>1, Looping DEF Using
    <2>4. /\ r.at = "creating" /\ r.since = clock /\ r.out = FoundBefore(c, m)
          /\ r.want = caller[c].want /\ r.op = "ids" /\ r.reply = {}
      BY <1>1, <2>3 DEF Caller
    <2> HIDE DEF r
    <2>5. m \in Len(caller[c].out) + 1..Len(caller[c].want) + 1 /\ m \in Nat
      BY <2>1, <2>3
    <2> HIDE DEF m
    <2>6. /\ r.out \in Seq(Names \cup IDs) /\ Len(r.out) = m - 1
          /\ InUseSince(objects, r, entry[Home[c]].fetchedAt, clock)
      BY <1>1, <2>1, <2>4, <2>5, FoundUpTo
    <2>7. r \in Caller
      <3>1. r = [caller[c] EXCEPT !.at = "creating", !.since = clock, !.out = r.out]
        BY <2>4 DEF r
      <3>2. clock \in 0..MaxTime /\ "creating" \in Holding
        BY DEF IInv, CacheInv, TypeOK, Holding
      <3> QED BY <2>3, <2>6, <3>1, <3>2 DEF Caller
    <2>8. clock <= clock /\ clock - clock <= Timeout
      BY Typed, Parameters DEF IInv, CacheInv
    <2>9. Remembered /\ objects' \in Seq(Object) /\ Len(objects') <= MaxObjects
      BY <1>1 DEF Remembered, IInv, CacheInv, TypeOK
    <2>10. CacheInv'
      <3>1. caller[c].at \in Holding /\ r.at \in {"creating", "created"} /\ r.at # "created"
        BY <1>1, <2>4 DEF Holding
      <3> QED BY <1>1, <2>2, <2>4, <2>7, <2>8, <2>9, <3>1, GoesOnSound DEF IInv
    <2>11. Asks(r)
      BY <2>3, <2>4 DEF Asks, Ended
    <2>12. Uses(objects, clock, entry[Home[c]], r)
      <3>1. Len(r.out) < Len(r.want) /\ Len(r.out) <= Len(r.want) /\ Len(r.out) + 1 = m
        BY <2>1, <2>3, <2>4, <2>5, <2>6
      <3>2. \A p \in entry[Home[c]].list : p.name # r.want[Len(r.out) + 1]
        BY <2>1, <2>4, <3>1 DEF Knows
      <3> QED BY <2>3, <2>4, <2>6, <3>1, <3>2 DEF Uses
    <2>13. r.at # "listed"
      BY <2>4
    <2> QED BY <1>1, <2>2, <2>10, <2>11, <2>12, <2>13, CallerMovesOn
  <1> QED BY <1>2, <1>3

\* What LookUpNames answers with: the names of the labels that are known.
KnownPairs(c) == {p \in entry[Home[c]].list : p.id = ByName(Home[c], p.name)}
KnownAsked(c) == Kept(caller[c].want, {p.id : p \in KnownPairs(c)})
NamesFound(c) ==
  [k \in DOMAIN KnownAsked(c) |-> (CHOOSE p \in KnownPairs(c) : p.id = KnownAsked(c)[k]).name]

LEMMA NamesAnswered ==
  ASSUME IInv, NEW c \in Callers, LookUpNames(c)
  PROVE  /\ Finish(c, "done", NamesFound(c)) /\ UNCHANGED <<clock, objects, entry, left>>
         /\ caller[c].at = "ready" /\ caller[c].op = "names"
         /\ caller[c].want \in Seq(IDs) /\ NamesFound(c) \in Seq(Names)
         /\ Home[c] \in Entries /\ KnownPairs(c) \subseteq entry[Home[c]].list
         /\ \A k \in DOMAIN NamesFound(c) : \E p \in KnownPairs(c) :
              p.id \in Range(caller[c].want) /\ NamesFound(c)[k] = p.name
         /\ \A p \in KnownPairs(c) : p.id \in Range(caller[c].want) =>
              \E q \in KnownPairs(c) : q.id = p.id /\ q.name \in Range(NamesFound(c))
  <1> DEFINE S == {p.id : p \in KnownPairs(c)}
             found == KnownAsked(c)
  <1>1. caller[c].at = "ready" /\ caller[c].op = "names" /\ UNCHANGED <<clock, objects, entry, left>>
    BY DEF LookUpNames
  <1>2. Finish(c, "done", NamesFound(c))
    BY DEF LookUpNames, NamesFound, KnownAsked, KnownPairs
  <1>3. caller[c].want \in Seq(IDs) /\ Home[c] \in Entries
    BY <1>1, Parameters DEF IInv, Callings, Asks, Ended
  <1>4. /\ found \in Seq(IDs \cap S)
        /\ Range(found) = Range(caller[c].want) \cap S
    BY <1>3, KeptElements DEF KnownAsked
  <1>5. \A k \in DOMAIN found : found[k] \in Range(found)
    BY DEF Range
  <1> HIDE DEF found
  <1>6. /\ DOMAIN NamesFound(c) = DOMAIN found
        /\ \A k \in DOMAIN found : NamesFound(c)[k] = (CHOOSE p \in KnownPairs(c) : p.id = found[k]).name
    BY DEF NamesFound, found
  <1>7. ASSUME NEW k \in DOMAIN found
        PROVE  \E p \in KnownPairs(c) :
                 p.id = found[k] /\ p.id \in Range(caller[c].want) /\ NamesFound(c)[k] = p.name
    <2>1. \E p \in KnownPairs(c) : p.id = found[k]
      BY <1>4, <1>5, <1>7
    <2> DEFINE p == CHOOSE p \in KnownPairs(c) : p.id = found[k]
    <2>2. p \in KnownPairs(c) /\ p.id = found[k]
      BY <2>1
    <2>3. NamesFound(c)[k] = p.name
      BY <1>6, <1>7
    <2> HIDE DEF p
    <2> QED BY <1>4, <1>5, <1>7, <2>2, <2>3
  <1>8. KnownPairs(c) \subseteq entry[Home[c]].list
    BY DEF KnownPairs
  <1>9. \A p \in KnownPairs(c) : p.name \in Names
    BY <1>3, <1>8, Typed DEF IInv, CacheInv
  <1>10. NamesFound(c) \in Seq(Names)
    <2>1. DOMAIN found = 1..Len(found) /\ Len(found) \in Nat
      BY <1>4
    <2>2. \A k \in 1..Len(found) : NamesFound(c)[k] \in Names
      BY <1>7, <1>9, <2>1
    <2>3. NamesFound(c) = [k \in 1..Len(found) |-> NamesFound(c)[k]]
      BY <2>1 DEF NamesFound, found
    <2> QED BY <2>1, <2>2, <2>3
  <1>11. ASSUME NEW p \in KnownPairs(c), p.id \in Range(caller[c].want)
         PROVE  \E q \in KnownPairs(c) : q.id = p.id /\ q.name \in Range(NamesFound(c))
    <2>1. p.id \in Range(found)
      BY <1>4, <1>11
    <2>2. PICK k \in DOMAIN found : found[k] = p.id
      BY <2>1 DEF Range
    <2>3. PICK q \in KnownPairs(c) : q.id = found[k] /\ NamesFound(c)[k] = q.name
      BY <1>7
    <2>4. NamesFound(c)[k] \in Range(NamesFound(c))
      BY <1>6 DEF Range
    <2> QED BY <2>2, <2>3, <2>4
  <1> QED BY <1>1, <1>2, <1>3, <1>6, <1>7, <1>8, <1>10, <1>11

\* A call that asks for names ends.
LEMMA LookUpNamesKeeps ==
  ASSUME IInv, NEW c \in Callers, LookUpNames(c)
  PROVE  IInv'
  <1>1. NamesFound(c) \in Seq(Names \cup IDs) /\ left' \in Budget /\ "done" \in Ended
    BY NamesAnswered DEF IInv, CacheInv, TypeOK, Ended
  <1>2. CacheInv'
    BY <1>1, NamesAnswered, FinishSound DEF IInv
  <1> QED BY <1>1, <1>2, NamesAnswered, FinishKeeps
-----------------------------------------------------------------------------
(***************************************************************************)
(* Creating labels.                                                        *)
(***************************************************************************)

\* A caller that creates asks for labels.
LEMMA CreatorAsks ==
  ASSUME IInv, NEW c \in Callers, caller[c].at \in {"creating", "created"}
  PROVE  /\ caller[c].op = "ids" /\ caller[c].at \in Using /\ Home[c] \in Entries
         /\ Asks(caller[c]) /\ Uses(objects, clock, entry[Home[c]], caller[c])
         /\ caller[c].since <= clock /\ clock - caller[c].since <= Timeout
         /\ caller[c].since \in Int /\ clock \in Int /\ caller[c].at \in Holding
         /\ c \in lock[Home[c]]
  <1>1. Asks(caller[c]) /\ Uses(objects, clock, entry[Home[c]], caller[c]) /\ Home[c] \in Entries
    BY Parameters DEF IInv, Callings
  <1>2. caller[c].op = "ids" /\ caller[c].at \in Using /\ caller[c].at \in InFlight
    BY <1>1 DEF Asks, Ended, Using, InFlight, Holding
  <1>3. c \in lock[Home[c]] /\ caller[c].at \in Holding
    BY <1>2 DEF IInv, CacheInv, Exclusive, InFlight
  <1> QED BY <1>1, <1>2, <1>3, Typed DEF IInv, CacheInv, Timed

\* A label that is created is new, and refused if its name is not free.
LEMMA CreateServedKeeps ==
  ASSUME IInv, NEW c \in Callers, CreateServed(c)
  PROVE  IInv'
  <1> DEFINE n == Creating(c)
             e == entry[Home[c]]
             i == Len(objects) + 1
             new == {[id |-> i, name |-> n]}
  <1>1. caller[c].at = "creating" /\ UNCHANGED <<clock, entry, lock, left>>
    BY DEF CreateServed
  <1>2. /\ caller[c].op = "ids" /\ caller[c].at \in Using /\ caller[c].at \in Holding
        /\ Asks(caller[c]) /\ Uses(objects, clock, e, caller[c]) /\ Home[c] \in Entries
        /\ caller[c].since <= clock /\ clock - caller[c].since <= Timeout
        /\ c \in lock[Home[c]]
    BY <1>1, CreatorAsks
  <1>3. /\ caller[c] \in Caller /\ n \in Names /\ caller[c].reply = {} /\ e.known
        /\ Len(caller[c].out) < Len(caller[c].want)
    BY <1>1, <1>2, Looping
  <1>4. objects \in Seq(Object) /\ Len(objects) \in Nat
    BY DEF IInv, CacheInv, TypeOK
  <1>5. CASE ~Free(n)
    <2> DEFINE r == [caller[c] EXCEPT !.at = "created"]
    <2>1. caller' = [caller EXCEPT ![c] = r] /\ objects' = objects
      BY <1>5 DEF CreateServed
    <2>2. /\ r \in Caller /\ r.at = "created" /\ r.reply = {} /\ r.want = caller[c].want
          /\ r.out = caller[c].out /\ r.op = "ids" /\ r.since = caller[c].since
      BY <1>2, <1>3 DEF Caller, Holding
    <2> HIDE DEF r
    <2>3. Remembered /\ objects' \in Seq(Object) /\ Len(objects') <= MaxObjects
      BY <2>1 DEF Remembered, IInv, CacheInv, TypeOK
    <2>4. CacheInv'
      BY <1>1, <1>2, <2>1, <2>2, <2>3, GoesOnSound DEF IInv
    <2>5. Asks(r)
      BY <1>1, <1>2, <2>2 DEF Asks, Ended
    <2>6. Uses(objects, clock, e, r)
      BY <1>1, <1>2, <2>2 DEF Uses, InUseSince, FoundSince
    <2>7. r.at # "listed"
      BY <2>2
    <2> QED BY <1>1, <2>1, <2>4, <2>5, <2>6, <2>7, CallerMovesOn
  <1>6. CASE Free(n)
    <2> DEFINE r == [caller[c] EXCEPT !.at = "created", !.reply = new]
    <2>1. caller' = [caller EXCEPT ![c] = r] /\ AddObject(n)
      BY <1>6 DEF CreateServed
    <2>2. i \in IDs /\ objects' = Append(objects, NewObject(n, clock))
      BY <1>4, <2>1, BudgetAssumption DEF AddObject, IDs
    <2>3. new \subseteq Pair
      BY <1>3, <2>2 DEF Pair
    <2>4. /\ r \in Caller /\ r.at = "created" /\ r.reply = new /\ r.want = caller[c].want
          /\ r.out = caller[c].out /\ r.op = "ids" /\ r.since = caller[c].since
      BY <1>2, <1>3, <2>3 DEF Caller, Holding
    <2> HIDE DEF r
    <2>5. Remembered /\ objects' \in Seq(Object) /\ Len(objects') <= MaxObjects
      BY <1>3, <2>1, AddRemembers DEF IInv, CacheInv
    <2>6. \A p \in new : Was(objects', p.id, p.name, r.since)
      <3> DEFINE o == NewObject(n, clock)
      <3>1. o \in Object /\ o.gone = FALSE /\ o.name = n
        BY <1>3, Parameters DEF NewObject, Object, IInv, CacheInv, TypeOK
      <3> HIDE DEF o
      <3>2. objects' = Append(objects, o)
        BY <2>2 DEF o
      <3>3. i \in DOMAIN objects' /\ objects'[i] = o
        BY <1>4, <3>1, <3>2
      <3> HIDE DEF n, i
      <3>4. Was(objects', i, n, r.since)
        BY <3>1, <3>3 DEF Was
      <3> QED BY <3>4
    <2>7. CacheInv'
      BY <1>1, <1>2, <2>1, <2>4, <2>5, <2>6, GoesOnSound DEF IInv
    <2>8. Traced /\ StillDiffer
      BY <1>3, <1>6, <2>1, AddGains, GainsDiffer DEF IInv, CacheInv
    <2>9. Asks(r)
      BY <1>1, <1>2, <2>4 DEF Asks, Ended
    <2>10. Made(e, r)
      <3>1. \A p \in e.list : p.id # i
        <4>1. \A p \in e.list : p.id \in DOMAIN objects
          BY <1>2 DEF IInv, CacheInv, Sourced, Was
        <4> QED BY <1>4, <4>1
      <3>2. r.reply = {[id |-> i, name |-> r.want[Len(r.out) + 1]]}
        BY <2>4 DEF Creating
      <3> HIDE DEF i, e
      <3> QED BY <2>2, <3>1, <3>2 DEF Made
    <2>11. Uses(objects', clock, e, r)
      <3>1. Uses(objects', clock, e, caller[c])
        BY <1>2, <2>5, UsesStay DEF IInv
      <3> HIDE DEF e
      <3> QED BY <1>1, <1>2, <2>4, <2>10, <3>1 DEF Uses, InUseSince, FoundSince
    <2>12. Lists(objects', e.list, e.fetchedAt - Timeout)
      <3>1. e.fetchedAt - Timeout \in Int /\ e.fetchedAt - Timeout <= clock
        BY <1>2, Typed, Parameters DEF IInv, CacheInv, Timed
      <3>2. Lists(objects, e.list, e.fetchedAt - Timeout)
        BY <1>2, <1>3 DEF IInv, Complete
      <3> QED BY <2>8, <3>1, <3>2, ListsStay DEF IInv
    <2>13. entry' = entry /\ clock' = clock /\ r.at # "listed"
      BY <1>1, <2>4
    <2> QED BY <2>1, <2>4, <2>5, <2>7, <2>8, <2>9, <2>11, <2>12, <2>13, CallingMoves
  <1> QED BY <1>5, <1>6

\* What a created label adds.
LEMMA CreateReturnsAdds ==
  ASSUME IInv, NEW c \in Callers, CreateReturns(c), caller[c].reply # {}
  PROVE  \E i \in IDs : LET n == Creating(c) IN
           /\ caller[c].reply = {[id |-> i, name |-> n]}
           /\ \A p \in entry[Home[c]].list : p.id # i /\ p.name # n
           /\ n \in Names
           /\ Was(objects, i, n, caller[c].since)
           /\ entry'[Home[c]] = [entry[Home[c]] EXCEPT !.list = @ \cup caller[c].reply]
           /\ \A e \in Entries : e # Home[c] => entry'[e] = entry[e]
           /\ entry' = [entry EXCEPT ![Home[c]].list = @ \cup caller[c].reply]
           /\ caller' = [caller EXCEPT ![c] = [caller[c] EXCEPT !.at = "ready", !.reply = {},
                                                               !.out = Append(caller[c].out, i)]]
  <1>1. caller[c].at = "created" /\ caller[c].op = "ids" /\ caller[c].at \in Using /\ Home[c] \in Entries
    BY CreatorAsks DEF CreateReturns
  <1>2. PICK i \in IDs : /\ caller[c].reply = {[id |-> i, name |-> caller[c].want[Len(caller[c].out) + 1]]}
                         /\ \A p \in entry[Home[c]].list : p.id # i
    BY <1>1, Looping DEF Made
  <1> DEFINE n == Creating(c)
  <1>3. caller[c].reply = {[id |-> i, name |-> n]}
    BY <1>2 DEF Creating
  <1>4. n \in Names /\ ~Knows(Home[c], n) /\ caller[c].out \in Seq(Names \cup IDs)
    BY <1>1, Looping
  <1> HIDE DEF n
  <1>5. Was(objects, i, n, caller[c].since)
    <2> DEFINE p == [id |-> i, name |-> n]
    <2>1. p \in caller[c].reply /\ p.id = i /\ p.name = n
      BY <1>3
    <2> HIDE DEF p
    <2>2. Was(objects, p.id, p.name, caller[c].since)
      BY <1>1, <2>1 DEF IInv, CacheInv, Sourced
    <2> QED BY <2>1, <2>2
  <1>6. {p.id : p \in caller[c].reply} = {i}
    BY <1>3
  <1>7. SetToSeq({p.id : p \in caller[c].reply}) = <<i>>
    BY <1>6, OneElement
  <1>8. caller[c].out \o <<i>> = Append(caller[c].out, i)
    BY <1>2, <1>4
  <1>9. caller' = [caller EXCEPT ![c] = [caller[c] EXCEPT !.at = "ready", !.reply = {},
                                                          !.out = Append(caller[c].out, i)]]
    <2> DEFINE s == SetToSeq({p.id : p \in caller[c].reply})
               q == [caller[c] EXCEPT !.at = "ready", !.reply = {}, !.out = @ \o s]
               r == [caller[c] EXCEPT !.at = "ready", !.reply = {}, !.out = Append(caller[c].out, i)]
    <2>1. caller' = [caller EXCEPT ![c] = q]
      BY DEF CreateReturns
    <2> HIDE DEF s
    <2>2. caller[c].out \o s = Append(caller[c].out, i)
      BY <1>7, <1>8 DEF s
    <2>3. q = r
      <3>1. caller[c] \in Caller
        BY DEF IInv, CacheInv, TypeOK
      <3> QED BY <2>2, <3>1 DEF Caller
    <2> HIDE DEF q, r
    <2>4. caller' = [caller EXCEPT ![c] = r]
      BY <2>1, <2>3
    <2> QED BY <2>4 DEF r
  <1>10. entry' = [entry EXCEPT ![Home[c]].list = @ \cup caller[c].reply]
    BY DEF CreateReturns
  <1>11. /\ entry'[Home[c]] = [entry[Home[c]] EXCEPT !.list = @ \cup caller[c].reply]
         /\ \A e \in Entries : e # Home[c] => entry'[e] = entry[e]
    BY <1>1, <1>10 DEF IInv, CacheInv, TypeOK
  <1>12. \A p \in entry[Home[c]].list : p.name # n
    BY <1>4 DEF Knows
  <1> QED BY <1>2, <1>3, <1>4, <1>5, <1>9, <1>10, <1>11, <1>12 DEF n

\* A call more that may have taken its full time.
LEMMA OneCallMore ==
  ASSUME NEW a \in Int, NEW now \in Int, NEW then \in Int, NEW f \in Int,
         now - then <= Timeout, then - f < TTL + Timeout * a
  PROVE  now - f < TTL + Timeout * (a + 1)
<1>1. PICK p, q : p = Timeout * a /\ q = Timeout * (a + 1)
  OBVIOUS
<1>2. p \in Int /\ q = p + Timeout
  BY <1>1, TimeAssumption
<1>3. then - f < TTL + p
  BY <1>1
<1>4. now - f < TTL + q
  BY <1>2, <1>3, TimeAssumption
<1> QED BY <1>1, <1>4

\* A label that was created is on the list from then on.
LEMMA CreateReturnsKeeps ==
  ASSUME IInv, NEW c \in Callers, CreateReturns(c)
  PROVE  IInv'
  <1>1. caller[c].at = "created" /\ UNCHANGED <<clock, objects, left>> /\ left' \in Budget
    BY DEF CreateReturns, IInv, CacheInv, TypeOK
  <1>2. /\ caller[c].op = "ids" /\ caller[c].at \in Using /\ caller[c].at \in Holding
        /\ Asks(caller[c]) /\ Uses(objects, clock, entry[Home[c]], caller[c]) /\ Home[c] \in Entries
        /\ caller[c].since <= clock /\ clock - caller[c].since <= Timeout
        /\ caller[c].since \in Int /\ clock \in Int /\ c \in lock[Home[c]]
    BY <1>1, CreatorAsks
  <1>3. CASE caller[c].reply = {}
    <2>1. Finish(c, "refused", <<>>) /\ entry' = entry
      BY <1>3 DEF CreateReturns
    <2>2. <<>> \in Seq(Names \cup IDs) /\ "refused" \in Ended
      BY DEF Ended
    <2>3. CacheInv'
      BY <1>1, <2>1, <2>2, FinishSound DEF IInv
    <2> QED BY <1>1, <2>1, <2>2, <2>3, FinishKeeps
  <1>4. CASE caller[c].reply # {}
    <2> DEFINE n == Creating(c)
               e == entry[Home[c]]
    <2>1. PICK i \in IDs :
            /\ caller[c].reply = {[id |-> i, name |-> n]}
            /\ \A p \in e.list : p.id # i /\ p.name # n
            /\ n \in Names
            /\ Was(objects, i, n, caller[c].since)
            /\ entry'[Home[c]] = [e EXCEPT !.list = @ \cup caller[c].reply]
            /\ \A d \in Entries : d # Home[c] => entry'[d] = entry[d]
            /\ entry' = [entry EXCEPT ![Home[c]].list = @ \cup caller[c].reply]
            /\ caller' = [caller EXCEPT ![c] = [caller[c] EXCEPT !.at = "ready", !.reply = {},
                                                                !.out = Append(caller[c].out, i)]]
      BY <1>4, CreateReturnsAdds
    <2> DEFINE r == [caller[c] EXCEPT !.at = "ready", !.reply = {}, !.out = Append(caller[c].out, i)]
               f == entry'[Home[c]]
               l == Len(caller[c].out)
               pair == [id |-> i, name |-> n]
    <2>2. caller' = [caller EXCEPT ![c] = r] /\ lock' = lock
      BY <1>4, <2>1 DEF CreateReturns
    <2>3. /\ caller[c] \in Caller /\ l \in Nat /\ caller[c].out \in Seq(Names \cup IDs)
          /\ e.known /\ e.fetchedAt \in Int /\ e.fetchedAt - Timeout \in Int
          /\ e.fetchedAt <= caller[c].since /\ l < Len(caller[c].want)
          /\ caller[c].want \in Seq(Names) /\ Len(caller[c].want) \in Nat
          /\ InUseSince(objects, caller[c], e.fetchedAt, caller[c].since)
      BY <1>1, <1>2, Looping
    <2>4. /\ r.at = "ready" /\ r.reply = {} /\ r.out = Append(caller[c].out, i)
          /\ r.want = caller[c].want /\ r.op = "ids"
      BY <1>2, <2>3 DEF Caller
    <2>5. r.out \in Seq(Names \cup IDs) /\ Len(r.out) = l + 1
          /\ r.out[l + 1] = i /\ \A j \in 1..l : r.out[j] = caller[c].out[j]
      BY <2>1, <2>3, <2>4
    <2>6. r \in Caller
      BY <2>3, <2>4, <2>5 DEF Caller, Holding
    <2>7. e \in Entry
      BY <1>2 DEF IInv, CacheInv, TypeOK
    <2>8. /\ f \in Entry /\ f.known /\ f.fetchedAt = e.fetchedAt
          /\ f.list = e.list \cup {pair}
      <3>1. pair \in Pair
        BY <2>1 DEF Pair
      <3> QED BY <2>1, <2>3, <2>7, <3>1 DEF Entry
    <2>9. pair.id = i /\ pair.name = n
      OBVIOUS
    <2>10. n = r.want[l + 1] /\ n \in Names
      BY <2>1, <2>4 DEF Creating
    <2>11. Was(objects, i, n, e.fetchedAt) /\ Was(objects, i, n, e.fetchedAt - Timeout)
      <3>1. e.fetchedAt - Timeout <= caller[c].since
        BY <2>3, <1>2, Parameters
      <3> QED BY <1>2, <2>1, <2>3, <3>1, WasBefore DEF IInv
    <2> HIDE DEF r, f, e, pair, n
    <2>12. entry' = [entry EXCEPT ![Home[c]] = f]
      BY <1>2, <2>1 DEF f, IInv, CacheInv, TypeOK
    <2>13. Remembered /\ Traced /\ StillDiffer
      BY <1>1 DEF Remembered, Traced, StillDiffer, Live, IInv, Complete
    <2>14. CacheInv'
      <3>1. TypeOK'
        BY <1>1, <2>2, <2>6, <2>8, <2>12 DEF IInv, CacheInv, TypeOK
      <3>2. Exclusive'
        BY <1>2, <2>2, <2>4, LockMoves DEF IInv, CacheInv, Holding
      <3>3. f.fetchedAt <= clock
        BY <1>2, <2>3, <2>8
      <3>4. ASSUME NEW p \in f.list
            PROVE  Was(objects', p.id, p.name, f.fetchedAt - Timeout)
        BY <1>1, <1>2, <2>8, <2>9, <2>11, <3>4 DEF e, IInv, CacheInv, Sourced
      <3>5. r.at \notin InFlight /\ r.at \notin {"listing", "listed", "created"}
        BY <2>4 DEF InFlight
      <3>6. clock' = clock
        BY <1>1
      <3> QED
        BY ZenonT(30), <1>2, <2>1, <2>2, <2>6, <2>13, <3>1, <3>2, <3>3, <3>4, <3>5, <3>6, CallerMoves DEF f, IInv
    <2>15. Asks(r)
      BY <1>1, <1>2, <2>4 DEF Asks, Ended
    <2>16. InUseSince(objects, r, f.fetchedAt, clock)
      <3>1. \A t : FoundSince(objects, caller[c], t) /\ Was(objects, i, n, t) => FoundSince(objects, r, t)
        <4>1. DOMAIN r.out = 1..l + 1 /\ DOMAIN caller[c].out = 1..l
          BY <2>3, <2>5
        <4>2. \A j \in 1..l + 1 : j \in 1..l \/ j = l + 1
          BY <2>3
        <4> HIDE DEF l
        <4> QED BY <2>4, <2>5, <2>10, <4>1, <4>2 DEF FoundSince
      <3>2. \A a \in Int : caller[c].since - e.fetchedAt < TTL + Timeout * a =>
              clock - e.fetchedAt < TTL + Timeout * (a + 1)
        <4>1. /\ caller[c].since \in Int /\ clock \in Int /\ e.fetchedAt \in Int
              /\ clock - caller[c].since <= Timeout
          BY <1>2, <2>3
        <4> QED BY <4>1, OneCallMore
      <3>3. Len(r.out) - 1 = l /\ Len(r.out) > 0 /\ l - 1 \in Int /\ l - 1 + 1 = l /\ l \in Int
        BY <2>3, <2>5
      <3>4. CASE /\ FoundSince(objects, caller[c], e.fetchedAt)
                 /\ caller[c].since - e.fetchedAt < TTL + Timeout * l
        <4>1. clock - e.fetchedAt < TTL + Timeout * Len(r.out)
          BY <2>5, <3>2, <3>3, <3>4
        <4> QED BY <2>8, <2>11, <3>1, <3>4, <4>1 DEF InUseSince
      <3>5. CASE /\ FoundSince(objects, caller[c], e.fetchedAt - Timeout)
                 /\ caller[c].since - e.fetchedAt < TTL + Timeout * (l - 1)
        <4>1. clock - e.fetchedAt < TTL + Timeout * (Len(r.out) - 1)
          <5>1. clock - e.fetchedAt < TTL + Timeout * (l - 1 + 1)
            BY <3>2, <3>3, <3>5
          <5> QED BY <3>3, <5>1
        <4> QED BY <2>8, <2>11, <3>1, <3>3, <3>5, <4>1 DEF InUseSince
      <3> QED BY <2>3, <3>4, <3>5 DEF InUseSince
    <2>17. Uses(objects', clock, f, r)
      <3>1. f.fetchedAt <= clock /\ Len(r.out) <= Len(r.want)
        BY <1>2, <2>3, <2>4, <2>5, <2>8
      <3> QED BY <1>1, <2>4, <2>8, <2>16, <3>1 DEF Uses
    <2>18. Lists(objects', f.list, f.fetchedAt - Timeout)
      <3>1. Lists(objects, e.list, e.fetchedAt - Timeout)
        BY <1>2, <2>3 DEF e, IInv, Complete
      <3>2. Keyed(e.list) => Keyed(f.list)
        BY <2>1, <2>8, <2>9 DEF Keyed
      <3>3. Named(e.list) => Named(f.list)
        BY <2>1, <2>8, <2>9 DEF Named
      <3>4. \A t : Full(objects, e.list, t) => Full(objects, f.list, t)
        BY <2>8 DEF Full
      <3> QED BY <1>1, <2>8, <3>1, <3>2, <3>3, <3>4 DEF Lists
    <2>19. clock' = clock /\ r.at # "listed"
      BY <1>1, <2>4
    <2> QED
      BY <1>2, <2>1, <2>2, <2>13, <2>14, <2>15, <2>17, <2>18, <2>19, CallingMoves DEF f
  <1> QED BY <1>3, <1>4
-----------------------------------------------------------------------------
(***************************************************************************)
(* The theorems.                                                           *)
(***************************************************************************)

\* Users move no caller and no entry.
LEMMA UsersKeep ==
  ASSUME IInv, Users
  PROVE  IInv'
  <1>1. CacheInv' /\ Remembered /\ Traced /\ StillDiffer
    BY UsersSound, UsersRemember, UsersGain, GainsDiffer DEF IInv, CacheInv
  <1>2. UNCHANGED <<clock, entry, lock, caller>>
    BY DEF Users
  <1>3. Callings'
    <2>1. ASSUME NEW d \in Callers PROVE Uses(objects', clock, entry[Home[d]], caller[d])
      BY <1>1, UsesStay DEF IInv, Callings
    <2> QED BY <1>2, <2>1 DEF IInv, Callings
  <1>4. ASSUME NEW e \in Entries, entry[e].known
        PROVE  Lists(objects', entry[e].list, entry[e].fetchedAt - Timeout)
    <2>1. entry[e].fetchedAt - Timeout \in Int /\ entry[e].fetchedAt - Timeout <= clock
      BY Typed, Parameters DEF IInv, CacheInv, Timed
    <2> QED BY <1>1, <1>4, <2>1, ListsStay DEF IInv, Complete
  <1>5. ASSUME NEW d \in Callers, caller[d].at = "listed"
        PROVE  Lists(objects', caller[d].reply, caller[d].since)
    <2>1. caller[d].since \in Int /\ caller[d].since <= clock
      BY <1>5, Typed DEF IInv, CacheInv, Timed, InFlight, Holding
    <2> QED BY <1>1, <1>5, <2>1, ListsStay DEF IInv, Complete
  <1>6. Complete'
    BY <1>1, <1>2, <1>4, <1>5 DEF Complete, StillDiffer
  <1> QED BY <1>1, <1>3, <1>6 DEF IInv

\* Time does not pass while a caller uses the list.
LEMMA TickKeeps ==
  ASSUME IInv, Tick
  PROVE  IInv'
  <1>1. /\ UNCHANGED <<objects, entry, lock, caller>>
        /\ \A c \in Callers : caller[c].at # "ready"
    BY DEF Tick
  <1>2. ASSUME NEW c \in Callers
        PROVE  Uses(objects, clock', entry[Home[c]], caller[c])
    BY <1>1 DEF IInv, Callings, Uses, Asks, Using, Ended
  <1>3. Callings'
    BY <1>1, <1>2 DEF IInv, Callings
  <1>4. Complete'
    BY <1>1 DEF IInv, Complete, Live
  <1> QED BY <1>3, <1>4, TickSound DEF IInv

\* The invariant is inductive: one case for each action.
LEMMA NextKeeps ==
  ASSUME IInv, [Next]_vars
  PROVE  IInv'
  <1>1. CASE UNCHANGED vars
    BY <1>1 DEF vars, IInv, Callings, Complete, Live, CacheInv, TypeOK, Exclusive, Timed, Needed, Sourced
  <1>2. ASSUME NEW c \in Callers,
               ResolveLabels(c) \/ ResolveNames(c) \/ CallerSteps(c) \/ CallFails(c)
        PROVE  IInv'
    BY <1>2, ResolveKeeps, AcquireKeeps, ListServedKeeps, ListReturnsKeeps, CallFailsKeeps,
       LookUpKeeps, LookUpNamesKeeps, CreateServedKeeps, CreateReturnsKeeps DEF CallerSteps, Steps
  <1> QED BY <1>1, <1>2, UsersKeep, TickKeeps DEF Next

\* The inductive invariant of the cache.
THEOREM AlwaysIInv == Spec => []IInv
  <1>1. Init => IInv
    BY LabelsInit
  <1>2. IInv /\ [Next]_vars => IInv'
    BY NextKeeps
  <1> QED BY <1>1, <1>2, PTL DEF Spec

\* All state keeps its type.
THEOREM LabelsTyped == Spec => []TypeOK
  <1>1. IInv => TypeOK
    BY DEF IInv, CacheInv
  <1> QED BY <1>1, AlwaysIInv, PTL

\* The steps that end a call with an answer or a refusal.
LEMMA OnlyTheseEnd ==
  ASSUME IInv, Next, NEW d \in Callers, NEW op, NEW at \in {"done", "refused"}, Ends(d, op, at)
  PROVE  /\ op = "ids" /\ at = "done" => LookUp(d) /\ Missing(d) = {}
         /\ op = "ids" /\ at = "refused" => CreateReturns(d) /\ caller[d].reply = {}
         /\ op = "names" /\ at = "done" => LookUpNames(d)
  <1>1. caller \in [Callers -> Caller] /\ caller[d].at \notin Ended /\ caller[d].op = op
        /\ caller'[d].at = at
    BY DEF IInv, CacheInv, TypeOK, Ends
  <1>2. caller'[d].at \in {"done", "refused"} /\ caller'[d] # caller[d]
    BY <1>1 DEF Ended
  <1>3. ASSUME NEW c \in Callers,
               \/ ResolveLabels(c) \/ ResolveNames(c) \/ Acquire(c) \/ ListServed(c) \/ ListReturns(c)
               \/ CreateServed(c) \/ CallFails(c)
        PROVE  FALSE
    <2>1. ASSUME NEW r, caller' = [caller EXCEPT ![c] = r], r.at \notin {"done", "refused"}
          PROVE  FALSE
      BY <1>1, <1>2, <2>1
    <2>2. caller[c] \in Caller
      BY <1>1
    <2>3. ASSUME NEW o, NEW w, Begin(c, o, w) PROVE FALSE
      <3> DEFINE r == [at |-> "waiting", op |-> o, want |-> w, out |-> <<>>, since |-> clock,
                       reply |-> {}]
      <3>1. caller' = [caller EXCEPT ![c] = r] /\ r.at = "waiting"
        BY <2>3 DEF Begin
      <3> HIDE DEF r
      <3> QED BY <2>1, <3>1
    <2>4. CASE Acquire(c)
      <3> DEFINE r == [caller[c] EXCEPT !.since = clock,
                                        !.at = IF Fresh(Home[c]) THEN "ready" ELSE "listing"]
      <3>1. caller' = [caller EXCEPT ![c] = r] /\ r.at \in {"ready", "listing"}
        BY <2>2, <2>4 DEF Acquire, Caller
      <3> HIDE DEF r
      <3> QED BY <2>1, <3>1
    <2>5. CASE ListServed(c)
      <3> DEFINE r == [caller[c] EXCEPT !.at = "listed", !.reply = Page]
      <3>1. caller' = [caller EXCEPT ![c] = r] /\ r.at = "listed"
        BY <2>2, <2>5 DEF ListServed, Caller
      <3> HIDE DEF r
      <3> QED BY <2>1, <3>1
    <2>6. CASE ListReturns(c)
      <3> DEFINE r == [caller[c] EXCEPT !.at = "ready", !.reply = {}]
      <3>1. caller' = [caller EXCEPT ![c] = r] /\ r.at = "ready"
        BY <2>2, <2>6 DEF ListReturns, Caller
      <3> HIDE DEF r
      <3> QED BY <2>1, <3>1
    <2>7. CASE CreateServed(c)
      <3> DEFINE new == {[id |-> Len(objects) + 1, name |-> Creating(c)]}
                 r == IF Free(Creating(c)) THEN [caller[c] EXCEPT !.at = "created", !.reply = new]
                                           ELSE [caller[c] EXCEPT !.at = "created"]
      <3>1. caller' = [caller EXCEPT ![c] = r]
        BY <2>7 DEF CreateServed
      <3> HIDE DEF new
      <3>2. r.at = "created"
        BY <2>2 DEF Caller
      <3> HIDE DEF r
      <3> QED BY <2>1, <3>1, <3>2
    <2>8. CASE CallFails(c)
      <3> DEFINE r == [at |-> "failed", op |-> "none", want |-> <<>>, out |-> <<>>, since |-> 0,
                       reply |-> {}]
      <3>1. caller' = [caller EXCEPT ![c] = r] /\ r.at = "failed"
        BY <2>8 DEF CallFails, Finish
      <3> HIDE DEF r
      <3> QED BY <2>1, <3>1
    <2> QED BY <1>3, <2>3, <2>4, <2>5, <2>6, <2>7, <2>8 DEF ResolveLabels, ResolveNames
  <1>4. PICK c \in Callers : LookUp(c) \/ LookUpNames(c) \/ CreateReturns(c)
    <2>1. ~Users /\ ~Tick
      BY <1>2 DEF Users, Tick
    <2> QED BY <1>3, <2>1 DEF Next, CallerSteps, Steps
  <1>5. c = d
    BY <1>1, <1>2, <1>4 DEF LookUp, LookUpNames, CreateReturns, Finish
  <1>6. CASE LookUp(d)
    <2>1. caller[d].op = "ids" /\ caller[d].at = "ready"
      BY <1>6 DEF LookUp
    <2>2. CASE Missing(d) = {}
      <3> DEFINE r == [at |-> "done", op |-> "none", want |-> <<>>,
                       out |-> FoundBefore(d, Len(caller[d].want) + 1), since |-> 0, reply |-> {}]
      <3>1. caller' = [caller EXCEPT ![d] = r] /\ r.at = "done"
        BY <1>6, <2>2 DEF LookUp, Finish
      <3> HIDE DEF r
      <3> QED BY <1>1, <1>6, <2>1, <2>2, <3>1
    <2>3. CASE Missing(d) # {}
      <3> DEFINE r == [caller[d] EXCEPT !.at = "creating", !.since = clock,
                                        !.out = FoundBefore(d, Min(Missing(d)))]
      <3>1. caller' = [caller EXCEPT ![d] = r]
        BY <1>6, <2>3 DEF LookUp
      <3>2. r.at = "creating"
        BY <1>1 DEF Caller
      <3> HIDE DEF r
      <3> QED BY <1>1, <1>2, <3>1, <3>2
    <2> QED BY <2>2, <2>3
  <1>7. CASE LookUpNames(d)
    <2> DEFINE r == [at |-> "done", op |-> "none", want |-> <<>>, out |-> NamesFound(d),
                     since |-> 0, reply |-> {}]
    <2>1. caller' = [caller EXCEPT ![d] = r] /\ r.at = "done" /\ caller[d].op = "names"
      BY <1>7, NamesAnswered DEF Finish
    <2> HIDE DEF r
    <2> QED BY <1>1, <1>7, <2>1
  <1>8. CASE CreateReturns(d)
    <2>1. caller[d].op = "ids"
      BY <1>8, CreatorAsks DEF CreateReturns
    <2>2. CASE caller[d].reply = {}
      <3> DEFINE r == [at |-> "refused", op |-> "none", want |-> <<>>, out |-> <<>>,
                       since |-> 0, reply |-> {}]
      <3>1. caller' = [caller EXCEPT ![d] = r] /\ r.at = "refused"
        BY <1>8, <2>2 DEF CreateReturns, Finish
      <3> HIDE DEF r
      <3> QED BY <1>1, <1>8, <2>1, <2>2, <3>1
    <2>3. CASE caller[d].reply # {}
      <3>1. PICK i : caller' = [caller EXCEPT ![d] = [caller[d] EXCEPT !.at = "ready", !.reply = {},
                                                         !.out = Append(caller[d].out, i)]]
        BY <1>8, <2>3, CreateReturnsAdds
      <3> DEFINE r == [caller[d] EXCEPT !.at = "ready", !.reply = {},
                                        !.out = Append(caller[d].out, i)]
      <3>2. caller' = [caller EXCEPT ![d] = r]
        BY <3>1
      <3>3. r.at = "ready"
        BY <1>1 DEF Caller
      <3> HIDE DEF r
      <3> QED BY <1>1, <1>2, <3>2, <3>3
    <2> QED BY <2>2, <2>3
  <1> QED BY <1>4, <1>5, <1>6, <1>7, <1>8

\* Lists that are long in use are so because of creations, of which there are few.
LEMMA NotTooOld ==
  ASSUME CacheInv, NEW r, NEW f \in Int, InUseSince(objects, r, f, clock),
         Len(r.out) \in Nat, Len(r.out) <= MaxLabels, r.want \in Seq(Names),
         Len(r.out) <= Len(r.want), r.out \in Seq(Names \cup IDs)
  PROVE  FoundSince(objects, r, clock - Age + 1)
  <1> DEFINE l == Len(r.out)
             u == clock - Age + 1
  <1>1. clock \in Int /\ MaxLabels \in Int /\ l \in Int /\ l - 1 \in Int
    BY Typed, LabelsAssumption DEF CacheInv
  <1>2. Timeout * MaxLabels \in Int /\ Age \in Int /\ u \in Int
    BY <1>1, TimeAssumption DEF Age
  <1>3. \A i \in DOMAIN r.out : r.want[i] \in Names
    OBVIOUS
  <1>4. ASSUME NEW t \in Int, u <= t, FoundSince(objects, r, t)
        PROVE  FoundSince(objects, r, u)
    <2>1. ASSUME NEW i \in DOMAIN r.out PROVE Was(objects, r.out[i], r.want[i], u)
      BY <1>2, <1>3, <1>4, <2>1, WasBefore DEF FoundSince
    <2> QED BY <2>1 DEF FoundSince
  <1>5. CASE FoundSince(objects, r, f) /\ clock - f < TTL + Timeout * l
    <2>1. clock - f < TTL + Timeout * MaxLabels
      BY <1>1, <1>5, MoreTime
    <2>2. u <= f
      BY <1>1, <1>2, <2>1, Parameters DEF Age
    <2> HIDE DEF u
    <2> QED BY <1>4, <1>5, <2>2 DEF u
  <1>6. CASE FoundSince(objects, r, f - Timeout) /\ clock - f < TTL + Timeout * (l - 1)
    <2>1. clock - f < TTL + Timeout * (MaxLabels - 1)
      <3>1. MaxLabels - 1 \in Int /\ l - 1 <= MaxLabels - 1 /\ clock - f \in Int
        BY <1>1
      <3> QED BY <1>1, <1>6, <3>1, MoreTime
    <2>2. Timeout * (MaxLabels - 1) = Timeout * MaxLabels - Timeout
      BY <1>1, TimeAssumption
    <2>3. f - Timeout \in Int /\ u <= f - Timeout
      BY <1>1, <1>2, <2>1, <2>2, Parameters DEF Age
    <2> HIDE DEF u
    <2> QED BY <1>4, <1>6, <2>3 DEF u
  <1> QED BY <1>5, <1>6 DEF InUseSince

\* Each label answered for a name had that name not longer ago than a list is
\* used, a call lists and the labels of the call take to create.
THEOREM LabelsAreCurrent == Spec => CurrentLabels
  <1> DEFINE Recent ==
        \A c \in Callers : Ends(c, "ids", "done") =>
          /\ Len(caller'[c].out) = Len(caller[c].want)
          /\ \A i \in DOMAIN caller[c].want :
               NamedSince(caller'[c].out[i], caller[c].want[i], clock - Age + 1)
  <1>1. IInv /\ [Next]_vars => [Recent]_vars
    <2> SUFFICES ASSUME IInv, Next, NEW c \in Callers, Ends(c, "ids", "done")
                 PROVE  /\ Len(caller'[c].out) = Len(caller[c].want)
                        /\ \A i \in DOMAIN caller[c].want :
                             NamedSince(caller'[c].out[i], caller[c].want[i], clock - Age + 1)
      OBVIOUS
    <2>1. LookUp(c) /\ Missing(c) = {}
      BY OnlyTheseEnd
    <2>2. caller[c].at = "ready" /\ caller[c].op = "ids" /\ caller[c].at \in Using
      BY <2>1 DEF LookUp, Using
    <2>3. /\ Len(caller[c].out) \in Nat /\ Len(caller[c].want) \in Nat
          /\ Len(caller[c].out) <= Len(caller[c].want) /\ Len(caller[c].want) <= MaxLabels
          /\ caller[c].want \in Seq(Names) /\ entry[Home[c]].fetchedAt \in Int
      BY <2>2, Looping
    <2> DEFINE i == Len(caller[c].want) + 1
               r == [want |-> caller[c].want, out |-> FoundBefore(c, i)]
    <2>4. i \in Len(caller[c].out) + 1..Len(caller[c].want) + 1 /\ i - 1 = Len(caller[c].want)
      BY <2>3
    <2>5. \A j \in Len(caller[c].out) + 1..i - 1 : Knows(Home[c], caller[c].want[j])
      BY <2>1, <2>3 DEF Missing
    <2>6. r.want = caller[c].want /\ r.out = FoundBefore(c, i)
      OBVIOUS
    <2> HIDE DEF r
    <2>7. /\ r.out \in Seq(Names \cup IDs) /\ Len(r.out) = i - 1
          /\ InUseSince(objects, r, entry[Home[c]].fetchedAt, clock)
      BY <2>2, <2>4, <2>5, <2>6, FoundUpTo
    <2>8. caller'[c].out = r.out
      <3>1. Finish(c, "done", r.out) /\ caller \in [Callers -> Caller]
        BY <2>1, <2>6 DEF LookUp, IInv, CacheInv, TypeOK
      <3> QED BY <3>1 DEF Finish
    <2>9. FoundSince(objects, r, clock - Age + 1)
      BY <2>3, <2>4, <2>6, <2>7, NotTooOld DEF IInv
    <2>10. DOMAIN r.out = DOMAIN caller[c].want
      BY <2>3, <2>4, <2>7
    <2> QED BY <2>4, <2>6, <2>7, <2>8, <2>9, <2>10 DEF FoundSince, Was, NamedSince, Live
  <1> QED BY <1>1, AlwaysIInv, PTL DEF Spec, CurrentLabels

\* Where a list call brings every label, a creation is refused only if the name
\* was taken since the list was made, which the caller's next list will show.
THEOREM RefusalsAreRecent == ASSUME OnePage PROVE Spec => RefusalsExpire
  <1> DEFINE Recent ==
        \A c \in Callers : Ends(c, "ids", "refused") =>
          \A i \in Live : objects[i].name = Creating(c) => objects[i].since > clock - Age - Timeout
  <1>1. IInv /\ [Next]_vars => [Recent]_vars
    <2> SUFFICES ASSUME IInv, Next, NEW c \in Callers, Ends(c, "ids", "refused"),
                        NEW i \in Live, objects[i].name = Creating(c)
                 PROVE  objects[i].since > clock - Age - Timeout
      OBVIOUS
    <2>1. CreateReturns(c) /\ caller[c].at = "created"
      BY OnlyTheseEnd DEF CreateReturns
    <2> DEFINE f == entry[Home[c]].fetchedAt
               l == Len(caller[c].out)
    <2>2. /\ caller[c].op = "ids" /\ caller[c].at \in Using /\ Home[c] \in Entries
          /\ clock - caller[c].since <= Timeout /\ caller[c].since \in Int /\ clock \in Int
      BY <2>1, CreatorAsks
    <2>3. /\ ~Knows(Home[c], Creating(c)) /\ entry[Home[c]].known
          /\ l \in Nat /\ Len(caller[c].want) \in Nat /\ l < Len(caller[c].want)
          /\ Len(caller[c].want) <= MaxLabels /\ f \in Int
          /\ InUseSince(objects, caller[c], f, caller[c].since)
      BY <2>1, <2>2, Looping
    <2>4. Full(objects, entry[Home[c]].list, f - Timeout)
      BY <2>2, <2>3 DEF IInv, Complete, Lists
    <2>5. ~(objects[i].since < f - Timeout)
      <3>1. [id |-> i, name |-> objects[i].name] \notin entry[Home[c]].list
        <4> DEFINE p == [id |-> i, name |-> objects[i].name]
        <4>1. p.name = Creating(c)
          OBVIOUS
        <4> HIDE DEF p
        <4>2. p \notin entry[Home[c]].list
          BY <2>3, <4>1 DEF Knows
        <4> QED BY <4>2 DEF p
      <3> QED BY <2>4, <3>1 DEF Full, Live
    <2>6. objects[i].since \in Int
      <3>1. objects[i] \in Object
        BY DEF Live, IInv, CacheInv, TypeOK
      <3> QED BY <3>1, Parameters DEF Object
    <2>7. caller[c].since - f < TTL + Timeout * (MaxLabels - 1)
      <3>1. MaxLabels - 1 \in Int /\ l \in Int /\ l - 1 \in Int /\ l <= MaxLabels - 1
            /\ l - 1 <= MaxLabels - 1 /\ caller[c].since - f \in Int
        BY SMTT(30), <2>2, <2>3, LabelsAssumption
      <3> QED BY <2>3, <3>1, MoreTime DEF InUseSince
    <2>8. Timeout * (MaxLabels - 1) = Timeout * MaxLabels - Timeout /\ Timeout * MaxLabels \in Int
      BY TimeAssumption, LabelsAssumption
    <2> DEFINE all == Timeout * MaxLabels
    <2>9. caller[c].since - f < TTL + all - Timeout /\ all \in Int /\ Age = TTL + all
      BY <2>7, <2>8, Parameters DEF Age
    <2>10. f \in Int
      BY <2>3
    <2> HIDE DEF f, all
    <2> QED BY SMTT(30), <2>2, <2>5, <2>6, <2>9, <2>10, Parameters
  <1> QED BY <1>1, AlwaysIInv, PTL DEF Spec, RefusalsExpire

\* Each name answered was not long ago the name of a label asked for; and where a
\* list call brings every label and no two labels have one name, a label that has
\* kept its name since then is not dropped.
THEOREM NamesAreCurrent == ASSUME OnePage, NamesDiffer PROVE Spec => CurrentNames
  <1> DEFINE Recent ==
        \A c \in Callers : Ends(c, "names", "done") =>
          /\ \A n \in Range(caller'[c].out) : \E i \in Range(caller[c].want) :
               NamedSince(i, n, clock - TTL - Timeout + 1)
          /\ \A i \in Range(caller[c].want) \cap Live :
               objects[i].since <= clock - TTL - Timeout =>
                 objects[i].name \in Range(caller'[c].out)
  <1>1. IInv /\ [Next]_vars => [Recent]_vars
    <2> SUFFICES ASSUME IInv, Next, NEW c \in Callers, Ends(c, "names", "done")
                 PROVE  /\ \A n \in Range(caller'[c].out) : \E i \in Range(caller[c].want) :
                             NamedSince(i, n, clock - TTL - Timeout + 1)
                        /\ \A i \in Range(caller[c].want) \cap Live :
                             objects[i].since <= clock - TTL - Timeout =>
                               objects[i].name \in Range(caller'[c].out)
      OBVIOUS
    <2>1. LookUpNames(c)
      BY OnlyTheseEnd
    <2> DEFINE e == entry[Home[c]]
               u == clock - TTL - Timeout + 1
    <2>2. /\ Finish(c, "done", NamesFound(c)) /\ caller[c].at = "ready" /\ caller[c].op = "names"
          /\ Home[c] \in Entries /\ KnownPairs(c) \subseteq e.list
          /\ \A k \in DOMAIN NamesFound(c) : \E p \in KnownPairs(c) :
               p.id \in Range(caller[c].want) /\ NamesFound(c)[k] = p.name
          /\ \A p \in KnownPairs(c) : p.id \in Range(caller[c].want) =>
               \E q \in KnownPairs(c) : q.id = p.id /\ q.name \in Range(NamesFound(c))
      BY <2>1, NamesAnswered
    <2>3. caller'[c].out = NamesFound(c)
      BY <2>2 DEF Finish, IInv, CacheInv, TypeOK
    <2>4. e.known /\ clock - e.fetchedAt < TTL
      BY <2>2 DEF IInv, Callings, Uses, Using
    <2>5. clock \in Int /\ e.fetchedAt \in Int /\ u \in Int /\ e.fetchedAt - Timeout \in Int
          /\ u <= e.fetchedAt - Timeout
      BY SMTT(30), <2>2, <2>4, Typed, Parameters DEF IInv, CacheInv
    <2>6. ASSUME NEW n \in Range(NamesFound(c))
          PROVE  \E i \in Range(caller[c].want) : NamedSince(i, n, u)
      <3>1. PICK p \in KnownPairs(c) : p.id \in Range(caller[c].want) /\ n = p.name
        BY <2>2, <2>6 DEF Range
      <3>2. Was(objects, p.id, n, e.fetchedAt - Timeout) /\ n \in Names
        BY <2>2, <3>1, Typed DEF IInv, CacheInv, Sourced
      <3>3. Was(objects, p.id, n, u)
        BY <2>5, <3>2, WasBefore DEF IInv
      <3> QED BY <3>1, <3>3 DEF Was, NamedSince, Live
    <2>7. ASSUME NEW i \in Range(caller[c].want) \cap Live, objects[i].since <= clock - TTL - Timeout
          PROVE  objects[i].name \in Range(NamesFound(c))
      <3> DEFINE p == [id |-> i, name |-> objects[i].name]
      <3>1. Lists(objects, e.list, e.fetchedAt - Timeout)
        BY <2>2, <2>4 DEF IInv, Complete
      <3>2. objects[i].since < e.fetchedAt - Timeout
        <4>1. objects[i] \in Object
          BY DEF Live, IInv, CacheInv, TypeOK
        <4>2. objects[i].since \in Int
          BY <4>1, Parameters DEF Object
        <4>3. clock - TTL - Timeout < e.fetchedAt - Timeout /\ clock - TTL - Timeout \in Int
              /\ e.fetchedAt - Timeout \in Int
          BY <2>4, <2>5, Parameters
        <4> HIDE DEF e, p
        <4> QED BY <2>7, <4>2, <4>3
      <3>3. p \in e.list
        BY <3>1, <3>2 DEF Lists, Full, Live
      <3>4. p.id = i /\ p.name = objects[i].name
        OBVIOUS
      <3> HIDE DEF p
      <3>5. PICK q \in e.list : q.name = p.name /\ q.id = ByName(Home[c], p.name)
        BY <2>2, <3>3, ByNameListed DEF Knows, IInv
      <3>6. q = p
        BY <3>1, <3>3, <3>5 DEF Lists, Named
      <3>7. p \in KnownPairs(c)
        BY <3>3, <3>5, <3>6 DEF KnownPairs
      <3>8. PICK k \in KnownPairs(c) : k.id = i /\ k.name \in Range(NamesFound(c))
        BY <2>2, <3>4, <3>7
      <3>9. k = p
        BY <2>2, <3>1, <3>3, <3>4, <3>8 DEF Lists, Keyed
      <3> QED BY <3>4, <3>8, <3>9
    <2> QED BY <2>3, <2>6, <2>7
  <1> QED BY <1>1, AlwaysIInv, PTL DEF Spec, CurrentNames
-----------------------------------------------------------------------------
(***************************************************************************)
(* How many labels a name gets.                                            *)
(***************************************************************************)

\* At most one element more, and one less.
LEMMA OneMore ==
  ASSUME NEW S, IsFiniteSet(S), NEW x, NEW T, T \subseteq S \cup {x}
  PROVE  IsFiniteSet(T) /\ Cardinality(T) \in Nat /\ Cardinality(S) \in Nat
         /\ Cardinality(T) <= Cardinality(S) + 1
  <1>1. IsFiniteSet(S \cup {x}) /\ Cardinality(S \cup {x}) <= Cardinality(S) + 1
        /\ Cardinality(S) \in Nat
    BY FS_AddElement, FS_CardinalityType
  <1>2. IsFiniteSet(T) /\ Cardinality(T) <= Cardinality(S \cup {x})
    BY <1>1, FS_Subset
  <1>3. Cardinality(T) \in Nat /\ Cardinality(S \cup {x}) \in Nat
    BY <1>1, <1>2, FS_CardinalityType
  <1> QED BY <1>1, <1>2, <1>3

LEMMA OneLess ==
  ASSUME NEW S, IsFiniteSet(S), NEW x \in S, NEW T, T \subseteq S \ {x}
  PROVE  Cardinality(T) + 1 <= Cardinality(S) /\ Cardinality(T) \in Nat /\ Cardinality(S) \in Nat
  <1>1. IsFiniteSet(S \ {x}) /\ Cardinality(S \ {x}) = Cardinality(S) - 1 /\ Cardinality(S) \in Nat
    BY FS_RemoveElement, FS_CardinalityType
  <1>2. IsFiniteSet(T) /\ Cardinality(T) <= Cardinality(S \ {x})
    BY <1>1, FS_Subset
  <1>3. Cardinality(T) \in Nat
    BY <1>2, FS_CardinalityType
  <1> QED BY <1>1, <1>2, <1>3

\* What is counted is finite.
LEMMA Counted ==
  ASSUME CacheInv, IsFiniteSet(Entries), NEW n
  PROVE  /\ IsFiniteSet(Bearers(n)) /\ IsFiniteSet(MayMake(n))
         /\ Cardinality(Bearers(n)) \in Nat /\ Cardinality(MayMake(n)) \in Nat
         /\ Cardinality(MayMake(n)) <= Cardinality(Entries) /\ Cardinality(Entries) \in Nat
         /\ left.faults \in Int /\ left.faults <= MaxFaults
         /\ left.changes \in Int /\ left.changes <= MaxChanges
  <1>1. Bearers(n) \subseteq 1..Len(objects) /\ Len(objects) \in Nat
    BY DEF CacheInv, TypeOK, Bearers, Live
  <1>2. IsFiniteSet(1..Len(objects))
    BY <1>1, FS_Interval
  <1>3. IsFiniteSet(Bearers(n))
    BY <1>1, <1>2, FS_Subset
  <1>4. MayMake(n) \subseteq Entries
    BY DEF MayMake
  <1>5. IsFiniteSet(MayMake(n)) /\ Cardinality(MayMake(n)) <= Cardinality(Entries)
    BY <1>4, FS_Subset
  <1>6. left \in Budget
    BY DEF CacheInv, TypeOK
  <1>7. left.faults \in 0..MaxFaults /\ left.changes \in 0..MaxChanges
    BY <1>6 DEF Budget
  <1> QED BY <1>3, <1>5, <1>7, FS_CardinalityType, Parameters

Slack == Cardinality(Entries) + (MaxFaults - left.faults) + (MaxChanges - left.changes)

Paid(n) == Cardinality(Bearers(n)) + Cardinality(MayMake(n)) <= Slack

\* How sets B of bearers and M of entries may become B1 and M1 when d more
\* labels are accounted for: a label comes at the cost of d, or of an entry.
Balanced(B, M, B1, M1, d) ==
  \E x, y :
    \/ B1 \subseteq B /\ M1 \subseteq M /\ d >= 0
    \/ B1 \subseteq B \cup {x} /\ M1 \subseteq M /\ d >= 1
    \/ B1 \subseteq B /\ M1 \subseteq M \cup {y} /\ d >= 1
    \/ B1 \subseteq B \cup {x} /\ y \in M /\ M1 \subseteq M \ {y} /\ d >= 0

\* Then they are as many as before, and d more at most.
LEMMA Balances ==
  ASSUME NEW B, NEW M, NEW B1, NEW M1, NEW d \in Int, IsFiniteSet(B), IsFiniteSet(M),
         Balanced(B, M, B1, M1, d)
  PROVE  Cardinality(B1) + Cardinality(M1) <= Cardinality(B) + Cardinality(M) + d
  <1>1. PICK x, y :
          \/ B1 \subseteq B /\ M1 \subseteq M /\ d >= 0
          \/ B1 \subseteq B \cup {x} /\ M1 \subseteq M /\ d >= 1
          \/ B1 \subseteq B /\ M1 \subseteq M \cup {y} /\ d >= 1
          \/ B1 \subseteq B \cup {x} /\ y \in M /\ M1 \subseteq M \ {y} /\ d >= 0
    BY DEF Balanced
  <1>2. /\ Cardinality(B) \in Nat /\ Cardinality(M) \in Nat
        /\ B1 \subseteq B => Cardinality(B1) <= Cardinality(B) /\ Cardinality(B1) \in Nat
        /\ M1 \subseteq M => Cardinality(M1) <= Cardinality(M) /\ Cardinality(M1) \in Nat
    BY FS_Subset, FS_CardinalityType
  <1>3. B1 \subseteq B \cup {x} => Cardinality(B1) <= Cardinality(B) + 1 /\ Cardinality(B1) \in Nat
    BY OneMore
  <1>4. M1 \subseteq M \cup {y} => Cardinality(M1) <= Cardinality(M) + 1 /\ Cardinality(M1) \in Nat
    BY OneMore
  <1>5. y \in M /\ M1 \subseteq M \ {y} =>
          Cardinality(M1) + 1 <= Cardinality(M) /\ Cardinality(M1) \in Nat
    BY OneLess
  <1> QED BY <1>1, <1>2, <1>3, <1>4, <1>5

\* So a name stays paid for.
LEMMA StaysPaid ==
  ASSUME CacheInv, CacheInv', IsFiniteSet(Entries), NEW n, Paid(n),
         Balanced(Bearers(n), MayMake(n), Bearers(n)', MayMake(n)',
                  (left.faults - left'.faults) + (left.changes - left'.changes))
  PROVE  Paid(n)'
  <1> DEFINE d == (left.faults - left'.faults) + (left.changes - left'.changes)
             before == Cardinality(Bearers(n)) + Cardinality(MayMake(n))
             after == Cardinality(Bearers(n)') + Cardinality(MayMake(n)')
  <1>1. /\ IsFiniteSet(Bearers(n)) /\ IsFiniteSet(MayMake(n)) /\ before \in Int
        /\ Cardinality(Entries) \in Int /\ before <= Slack
        /\ left.faults \in Int /\ left.changes \in Int
    BY Counted DEF Paid
  <1>2. left'.faults \in Int /\ left'.changes \in Int
    BY DEF CacheInv, TypeOK, Budget
  <1>3. d \in Int
    BY <1>1, <1>2
  <1>4. after <= before + d
    <2> HIDE DEF d
    <2>1. Balanced(Bearers(n), MayMake(n), Bearers(n)', MayMake(n)', d)
      BY DEF d
    <2> QED BY <1>1, <1>3, <2>1, Balances
  <1>5. after \in Int
    <2>1. Bearers(n)' \subseteq 1..Len(objects') /\ Len(objects') \in Nat
      BY DEF CacheInv, TypeOK, Bearers, Live
    <2>2. MayMake(n)' \subseteq Entries
      BY DEF MayMake
    <2>3. IsFiniteSet(1..Len(objects'))
      BY <2>1, FS_Interval
    <2>4. IsFiniteSet(Bearers(n)') /\ IsFiniteSet(MayMake(n)')
      BY <2>1, <2>2, <2>3, FS_Subset
    <2>5. Cardinality(Bearers(n)') \in Nat /\ Cardinality(MayMake(n)') \in Nat
      BY <2>4, FS_CardinalityType
    <2> QED BY <2>5
  <1>6. Slack' = Slack + d /\ Slack \in Int
    <2>1. MaxFaults \in Int /\ MaxChanges \in Int /\ Cardinality(Entries) \in Int
          /\ left.faults \in Int /\ left.changes \in Int
      BY <1>1, Parameters
    <2> HIDE DEF before, after
    <2> QED BY <1>2, <2>1 DEF Slack
  <1>7. after <= Slack'
    <2> HIDE DEF d, before, after
    <2> QED BY <1>1, <1>3, <1>4, <1>5, <1>6
  <1> QED BY <1>7 DEF Paid

\* A name that no label bears is paid for.
LEMMA NoneBears ==
  ASSUME CacheInv', IsFiniteSet(Entries), NEW n, Bearers(n)' = {}
  PROVE  Paid(n)'
  <1>1. left'.faults \in 0..MaxFaults /\ left'.changes \in 0..MaxChanges
    BY DEF CacheInv, TypeOK, Budget
  <1>2. Cardinality(Bearers(n)') = 0
    BY FS_EmptySet
  <1>3. Cardinality(MayMake(n)') <= Cardinality(Entries) /\ Cardinality(MayMake(n)') \in Nat
        /\ Cardinality(Entries) \in Nat
    <2>1. MayMake(n)' \subseteq Entries
      BY DEF MayMake
    <2> QED BY <2>1, FS_Subset, FS_CardinalityType
  <1>4. Cardinality(Bearers(n)') + Cardinality(MayMake(n)') <= Slack'
    BY SMTT(30), <1>1, <1>2, <1>3, Parameters DEF Slack
  <1> QED BY <1>4 DEF Paid

\* Whether a caller with record r leaves entry e free to make a label named n.
MakesWith(e, r, n) ==
  IF r.at = "listed" THEN ~Has(r.reply, n)
  ELSE e.known /\ ~Has(e.list, n) /\ ~(r.at = "created" /\ Has(r.reply, n))

\* A caller that is not let in decides nothing.
LEMMA OutsiderMoves ==
  ASSUME CacheInv, NEW c \in Callers, NEW r, caller' = [caller EXCEPT ![c] = r], entry' = entry,
         caller[c].at \notin {"listed", "created"}, r.at \notin {"listed", "created"}
  PROVE  \A n : MayMake(n)' = MayMake(n)
  <1>1. caller'[c] = r /\ \A d \in Callers : d # c => caller'[d] = caller[d]
    BY DEF CacheInv, TypeOK
  <1> QED BY <1>1 DEF MayMake

\* The caller that is let in decides for its entry, and for no other.
LEMMA InsiderMoves ==
  ASSUME CacheInv, NEW c \in Callers, NEW r, caller' = [caller EXCEPT ![c] = r],
         c \in lock[Home[c]], \A e \in Entries : e # Home[c] => entry'[e] = entry[e]
  PROVE  \A n : /\ \A e \in MayMake(n)' : e # Home[c] => e \in MayMake(n)
                /\ Home[c] \in MayMake(n)' <=> MakesWith(entry'[Home[c]], r, n)
                /\ Home[c] \in MayMake(n) <=> MakesWith(entry[Home[c]], caller[c], n)
  <1>1. caller'[c] = r /\ \A d \in Callers : d # c => caller'[d] = caller[d]
    BY DEF CacheInv, TypeOK
  <1>2. \A d \in Callers : d # c /\ Home[d] = Home[c] => caller[d].at \notin {"listed", "created"}
    BY Parameters DEF CacheInv, Exclusive, Holding
  <1>3. Home[c] \in Entries
    BY Parameters
  <1> TAKE n
  <1>4. \A e \in MayMake(n)' : e # Home[c] => e \in MayMake(n)
    BY <1>1 DEF MayMake
  <1>5. Home[c] \in MayMake(n)' <=> MakesWith(entry'[Home[c]], r, n)
    BY <1>1, <1>2, <1>3 DEF MayMake, MakesWith
  <1>6. Home[c] \in MayMake(n) <=> MakesWith(entry[Home[c]], caller[c], n)
    BY <1>2, <1>3 DEF MayMake, MakesWith
  <1> QED BY <1>4, <1>5, <1>6

\* What a step must do to leave name n paid for.
Settled(n) ==
  \/ Bearers(n)' = {}
  \/ Balanced(Bearers(n), MayMake(n), Bearers(n)', MayMake(n)',
              (left.faults - left'.faults) + (left.changes - left'.changes))

\* Steps that decide nothing, and make nothing.
LEMMA SettledIdle ==
  ASSUME CacheInv, left'.faults = left.faults, left'.changes = left.changes,
         NEW n, Bearers(n)' \subseteq Bearers(n), MayMake(n)' \subseteq MayMake(n)
  PROVE  Settled(n)
  <1>1. left \in Budget
    BY DEF CacheInv, TypeOK
  <1>2. left.faults \in Int /\ left.changes \in Int
    BY <1>1 DEF Budget
  <1>3. (left.faults - left'.faults) + (left.changes - left'.changes) >= 0
    BY <1>2
  <1> QED BY <1>3 DEF Settled, Balanced

\* The caller that is let in moves on with what it knew.
LEMMA SettledInside ==
  ASSUME CacheInv, NEW c \in Callers, NEW r, caller' = [caller EXCEPT ![c] = r],
         caller[c].at \in Holding, \A e \in Entries : e # Home[c] => entry'[e] = entry[e],
         objects' = objects, left' = left,
         NEW n, MakesWith(entry'[Home[c]], r, n) => MakesWith(entry[Home[c]], caller[c], n)
  PROVE  Settled(n)
  <1>1. c \in lock[Home[c]]
    BY DEF CacheInv, Exclusive
  <1>2. MayMake(n)' \subseteq MayMake(n)
    <2>1. \A e \in MayMake(n)' : e # Home[c] => e \in MayMake(n)
      BY <1>1, InsiderMoves
    <2>2. Home[c] \in MayMake(n)' => Home[c] \in MayMake(n)
      BY <1>1, InsiderMoves
    <2> QED BY <2>1, <2>2
  <1>3. Bearers(n)' \subseteq Bearers(n)
    BY DEF Bearers, Live
  <1> QED BY <1>2, <1>3, SettledIdle

LEMMA BeginSettled ==
  ASSUME CacheInv, NEW c \in Callers, NEW o, NEW w, Begin(c, o, w), NEW n
  PROVE  Settled(n)
  <1> DEFINE r == [at |-> "waiting", op |-> o, want |-> w, out |-> <<>>, since |-> clock, reply |-> {}]
  <1>1. caller' = [caller EXCEPT ![c] = r] /\ r.at = "waiting" /\ caller[c].at \in Ended
        /\ entry' = entry /\ objects' = objects
    BY DEF Begin
  <1> HIDE DEF r
  <1>2. MayMake(n)' = MayMake(n)
    BY <1>1, OutsiderMoves DEF Ended
  <1>3. Bearers(n)' = Bearers(n)
    BY <1>1 DEF Bearers, Live
  <1>4. left \in Budget
    BY DEF CacheInv, TypeOK
  <1>5. left'.faults = left.faults /\ left'.changes = left.changes
    BY <1>4 DEF Begin, Budget
  <1> QED BY <1>2, <1>3, <1>5, SettledIdle

LEMMA AcquireSettled ==
  ASSUME CacheInv, NEW c \in Callers, Acquire(c), NEW n
  PROVE  Settled(n)
  <1> DEFINE r == [caller[c] EXCEPT !.since = clock,
                                    !.at = IF Fresh(Home[c]) THEN "ready" ELSE "listing"]
  <1>1. caller[c] \in Caller
    BY DEF CacheInv, TypeOK
  <1>2. caller' = [caller EXCEPT ![c] = r] /\ r.at \in {"ready", "listing"} /\ caller[c].at = "waiting"
        /\ entry' = entry /\ objects' = objects /\ left' = left
    BY <1>1 DEF Acquire, Caller
  <1> HIDE DEF r
  <1>3. MayMake(n)' = MayMake(n)
    BY <1>2, OutsiderMoves
  <1>4. Bearers(n)' = Bearers(n)
    BY <1>2 DEF Bearers, Live
  <1> QED BY <1>2, <1>3, <1>4, SettledIdle

\* A page without the name says that no label bears it now.
LEMMA ListServedSettled ==
  ASSUME CacheInv, OnePage, NEW c \in Callers, ListServed(c), NEW n
  PROVE  Settled(n)
  <1> DEFINE r == [caller[c] EXCEPT !.at = "listed", !.reply = Page]
  <1>1. caller[c] \in Caller
    BY DEF CacheInv, TypeOK
  <1>2. caller' = [caller EXCEPT ![c] = r] /\ r.at = "listed" /\ r.reply = Page
        /\ caller[c].at \in Holding /\ entry' = entry /\ objects' = objects /\ left' = left
    BY <1>1 DEF ListServed, Caller, Holding
  <1> HIDE DEF r
  <1>3. CASE Has(Page, n)
    <2>1. ~MakesWith(entry'[Home[c]], r, n)
      BY <1>2, <1>3 DEF MakesWith
    <2> QED BY <1>2, <2>1, SettledInside
  <1>4. CASE ~Has(Page, n)
    <2>1. Bearers(n) = {}
      BY <1>4, PageIsWhole DEF Has, Bearers, CacheInv
    <2>2. Bearers(n)' = {}
      BY <1>2, <2>1 DEF Bearers, Live
    <2> QED BY <2>2 DEF Settled
  <1> QED BY <1>3, <1>4

LEMMA ListReturnsSettled ==
  ASSUME CacheInv, NEW c \in Callers, ListReturns(c), NEW n
  PROVE  Settled(n)
  <1> DEFINE r == [caller[c] EXCEPT !.at = "ready", !.reply = {}]
  <1>1. caller[c] \in Caller /\ Home[c] \in Entries /\ entry \in [Entries -> Entry]
    BY Parameters DEF CacheInv, TypeOK
  <1>2. caller' = [caller EXCEPT ![c] = r] /\ r.at = "ready" /\ caller[c].at = "listed"
        /\ caller[c].at \in Holding /\ objects' = objects /\ left' = left
    BY <1>1 DEF ListReturns, Caller, Holding
  <1>3. /\ \A e \in Entries : e # Home[c] => entry'[e] = entry[e]
        /\ entry'[Home[c]].known /\ entry'[Home[c]].list = caller[c].reply
    BY <1>1 DEF ListReturns
  <1> HIDE DEF r
  <1>4. MakesWith(entry'[Home[c]], r, n) => MakesWith(entry[Home[c]], caller[c], n)
    BY <1>2, <1>3 DEF MakesWith
  <1> QED BY <1>2, <1>3, <1>4, SettledInside

\* A caller that returns, and one that goes on with the loop.
LEMMA FinishSettled ==
  ASSUME CacheInv, NEW c \in Callers, NEW at, NEW out, Finish(c, at, out), at # "listed",
         at # "created", caller[c].at \in {"ready", "created"}, caller[c].reply = {},
         entry' = entry, objects' = objects, left' = left, NEW n
  PROVE  Settled(n)
  <1> DEFINE r == [at |-> at, op |-> "none", want |-> <<>>, out |-> out, since |-> 0, reply |-> {}]
  <1>1. caller' = [caller EXCEPT ![c] = r] /\ r.at = at /\ caller[c].at \in Holding
    BY DEF Finish, Holding
  <1> HIDE DEF r
  <1>2. MakesWith(entry'[Home[c]], r, n) => MakesWith(entry[Home[c]], caller[c], n)
    BY <1>1 DEF MakesWith, Has
  <1> QED BY <1>1, <1>2, SettledInside

LEMMA LookUpSettled ==
  ASSUME IInv, NEW c \in Callers, LookUp(c), NEW n
  PROVE  Settled(n)
  <1>1. caller[c] \in Caller /\ CacheInv
    BY DEF IInv, CacheInv, TypeOK
  <1>2. caller[c].at = "ready" /\ caller[c].reply = {} /\ caller[c].at \in Holding
        /\ entry' = entry /\ objects' = objects /\ left' = left
    BY DEF LookUp, Holding, IInv, Callings, Asks
  <1>3. CASE Missing(c) = {}
    <2>1. Finish(c, "done", FoundBefore(c, Len(caller[c].want) + 1))
      BY <1>3 DEF LookUp
    <2> DEFINE out == FoundBefore(c, Len(caller[c].want) + 1)
    <2> HIDE DEF out
    <2>2. Finish(c, "done", out)
      BY <2>1 DEF out
    <2> QED BY <1>1, <1>2, <2>2, FinishSettled
  <1>4. CASE Missing(c) # {}
    <2> DEFINE r == [caller[c] EXCEPT !.at = "creating", !.since = clock,
                                      !.out = FoundBefore(c, Min(Missing(c)))]
    <2>1. caller' = [caller EXCEPT ![c] = r]
      BY <1>4 DEF LookUp
    <2>2. r.at = "creating"
      BY <1>1 DEF Caller
    <2> HIDE DEF r
    <2>3. MakesWith(entry'[Home[c]], r, n) => MakesWith(entry[Home[c]], caller[c], n)
      BY <1>2, <2>2 DEF MakesWith
    <2> QED BY <1>1, <1>2, <2>1, <2>3, SettledInside
  <1> QED BY <1>3, <1>4

LEMMA LookUpNamesSettled ==
  ASSUME IInv, NEW c \in Callers, LookUpNames(c), NEW n
  PROVE  Settled(n)
  <1>1. Finish(c, "done", NamesFound(c)) /\ CacheInv
    BY NamesAnswered DEF IInv
  <1>2. caller[c].at = "ready" /\ caller[c].reply = {}
        /\ entry' = entry /\ objects' = objects /\ left' = left
    BY DEF LookUpNames, IInv, Callings, Asks
  <1> QED BY <1>1, <1>2, FinishSettled

\* Only the object that gains the name may come to bear it.
LEMMA GainsBears ==
  ASSUME NEW k, NEW m, Gains(k, m), NEW n
  PROVE  /\ Bearers(n)' \subseteq Bearers(n) \cup {k}
         /\ m # n => Bearers(n)' \subseteq Bearers(n)
  BY DEF Gains, Bearers

\* A label that is created costs its entry's right to create it.
LEMMA CreateServedSettled ==
  ASSUME IInv, NEW c \in Callers, CreateServed(c), NEW n
  PROVE  Settled(n)
  <1> DEFINE m == Creating(c)
             h == Home[c]
             new == {[id |-> Len(objects) + 1, name |-> m]}
  <1>1. caller[c].at = "creating" /\ UNCHANGED <<clock, entry, lock, left>>
    BY DEF CreateServed
  <1>2. caller[c].op = "ids" /\ caller[c].at \in Using /\ caller[c].at \in Holding /\ h \in Entries
        /\ c \in lock[h] /\ CacheInv
    BY <1>1, CreatorAsks DEF IInv
  <1>3. /\ caller[c] \in Caller /\ m \in Names /\ caller[c].reply = {} /\ entry[h].known
        /\ ~Knows(h, m)
    BY <1>1, <1>2, Looping
  <1> HIDE DEF m, h
  <1>4. CASE ~Free(m)
    <2> DEFINE r == [caller[c] EXCEPT !.at = "created"]
    <2>1. caller' = [caller EXCEPT ![c] = r] /\ objects' = objects
      BY <1>4 DEF CreateServed, m
    <2>2. r.at = "created" /\ r.reply = {}
      BY <1>3 DEF Caller
    <2> HIDE DEF r
    <2>3. MakesWith(entry'[h], r, n) => MakesWith(entry[h], caller[c], n)
      BY <1>1, <2>2 DEF MakesWith, Has
    <2> QED BY <1>1, <1>2, <2>1, <2>3, SettledInside DEF h
  <1>5. CASE Free(m)
    <2> DEFINE r == [caller[c] EXCEPT !.at = "created", !.reply = new]
    <2>1. caller' = [caller EXCEPT ![c] = r] /\ AddObject(m)
      BY <1>5 DEF CreateServed, m
    <2>2. r.at = "created" /\ r.reply = new
      BY <1>3 DEF Caller
    <2>3. \A k : Has(new, k) <=> k = m
      BY DEF Has
    <2> HIDE DEF r, new
    <2>4. /\ \A e \in MayMake(n)' : e # h => e \in MayMake(n)
          /\ h \in MayMake(n)' <=> MakesWith(entry'[h], r, n)
          /\ h \in MayMake(n) <=> MakesWith(entry[h], caller[c], n)
      BY <1>1, <1>2, <2>1, InsiderMoves DEF h
    <2>7. Gains(Len(objects) + 1, m)
      BY <1>2, <1>3, <1>5, <2>1, AddGains DEF CacheInv
    <2>5. CASE n # m
      <3>1. MayMake(n)' \subseteq MayMake(n)
        BY <1>1, <2>2, <2>4 DEF MakesWith
      <3>2. Bearers(n)' \subseteq Bearers(n)
        BY <2>5, <2>7, GainsBears
      <3> QED BY <1>1, <1>2, <3>1, <3>2, SettledIdle
    <2>6. CASE n = m
      <3>1. h \in MayMake(n)
        BY <1>1, <1>3, <2>4, <2>6 DEF MakesWith, Knows, Has
      <3>2. h \notin MayMake(n)'
        BY <2>2, <2>3, <2>4, <2>6 DEF MakesWith
      <3>3. MayMake(n)' \subseteq MayMake(n) \ {h}
        BY <2>4, <3>2
      <3>4. Bearers(n)' \subseteq Bearers(n) \cup {Len(objects) + 1}
        BY <2>7, GainsBears
      <3>5. (left.faults - left'.faults) + (left.changes - left'.changes) >= 0
        <4>1. left \in Budget
          BY <1>2 DEF CacheInv, TypeOK
        <4>2. left.faults \in Int /\ left.changes \in Int
          BY <4>1 DEF Budget
        <4> QED BY <1>1, <4>2
      <3> QED BY <3>1, <3>3, <3>4, <3>5 DEF Settled, Balanced
    <2> QED BY <2>5, <2>6
  <1> QED BY <1>4, <1>5

\* The created label is known from the response, and then from the list.
LEMMA CreateReturnsSettled ==
  ASSUME IInv, NEW c \in Callers, CreateReturns(c), NEW n
  PROVE  Settled(n)
  <1>1. /\ caller[c].at = "created" /\ caller[c].at \in Holding /\ objects' = objects /\ left' = left
        /\ caller[c] \in Caller /\ CacheInv
    BY DEF CreateReturns, Holding, IInv, CacheInv, TypeOK
  <1>2. CASE caller[c].reply = {}
    <2>1. Finish(c, "refused", <<>>) /\ entry' = entry
      BY <1>2 DEF CreateReturns
    <2> QED BY <1>1, <1>2, <2>1, FinishSettled
  <1>3. CASE caller[c].reply # {}
    <2>1. PICK i \in IDs :
            /\ entry'[Home[c]] = [entry[Home[c]] EXCEPT !.list = @ \cup caller[c].reply]
            /\ \A e \in Entries : e # Home[c] => entry'[e] = entry[e]
            /\ caller' = [caller EXCEPT ![c] = [caller[c] EXCEPT !.at = "ready", !.reply = {},
                                                               !.out = Append(caller[c].out, i)]]
      BY <1>3, CreateReturnsAdds
    <2> DEFINE r == [caller[c] EXCEPT !.at = "ready", !.reply = {}, !.out = Append(caller[c].out, i)]
    <2>2. caller' = [caller EXCEPT ![c] = r]
      BY <2>1
    <2>3. r.at = "ready"
      BY <1>1 DEF Caller
    <2> HIDE DEF r
    <2>4. entry[Home[c]] \in Entry
      BY <1>1, Parameters DEF CacheInv, TypeOK
    <2>5. entry'[Home[c]].known = entry[Home[c]].known
          /\ entry'[Home[c]].list = entry[Home[c]].list \cup caller[c].reply
      BY <2>1, <2>4 DEF Entry
    <2>6. MakesWith(entry'[Home[c]], r, n) => MakesWith(entry[Home[c]], caller[c], n)
      BY <1>1, <2>3, <2>5 DEF MakesWith, Has
    <2> QED BY <1>1, <2>1, <2>2, <2>6, SettledInside
  <1> QED BY <1>2, <1>3

\* A lost response may leave its entry free to create again.
LEMMA CallFailsSettled ==
  ASSUME CacheInv, NEW c \in Callers, CallFails(c), NEW n
  PROVE  Settled(n)
  <1> DEFINE r == [at |-> "failed", op |-> "none", want |-> <<>>, out |-> <<>>, since |-> 0, reply |-> {}]
  <1>1. caller' = [caller EXCEPT ![c] = r] /\ entry' = entry /\ objects' = objects
    BY DEF CallFails, Finish
  <1> HIDE DEF r
  <1>2. c \in lock[Home[c]]
    BY DEF CallFails, InFlight, CacheInv, Exclusive
  <1>3. \A e \in MayMake(n)' : e # Home[c] => e \in MayMake(n)
    BY <1>1, <1>2, InsiderMoves
  <1>4. MayMake(n)' \subseteq MayMake(n) \cup {Home[c]}
    BY <1>3
  <1>5. Bearers(n)' \subseteq Bearers(n)
    BY <1>1 DEF Bearers, Live
  <1>6. (left.faults - left'.faults) + (left.changes - left'.changes) >= 1
    <2>1. left \in Budget
      BY DEF CacheInv, TypeOK
    <2>2. left.faults \in Int /\ left.changes \in Int
      BY <2>1 DEF Budget
    <2>3. left'.faults = left.faults - 1 /\ left'.changes = left.changes
      BY <2>1 DEF CallFails, Budget
    <2> QED BY <2>2, <2>3
  <1> QED BY <1>4, <1>5, <1>6 DEF Settled, Balanced

\* A user gives a name to one label.
LEMMA UsersSettled ==
  ASSUME CacheInv, Users, NEW n
  PROVE  Settled(n)
  <1>1. MayMake(n)' = MayMake(n)
    BY DEF Users, MayMake
  <1>2. (left.faults - left'.faults) + (left.changes - left'.changes) >= 1
    <2>1. left \in Budget
      BY DEF CacheInv, TypeOK
    <2>2. left.faults \in Int /\ left.changes \in Int
      BY <2>1 DEF Budget
    <2>3. left'.faults = left.faults /\ left'.changes = left.changes - 1
      BY <2>1 DEF Users, Budget
    <2> QED BY <2>2, <2>3
  <1>3. \E x : Bearers(n)' \subseteq Bearers(n) \cup {x}
    BY UsersGain, GainsBears DEF CacheInv
  <1> QED BY <1>1, <1>2, <1>3 DEF Settled, Balanced

\* Each step leaves every name paid for.
LEMMA NextSettled ==
  ASSUME IInv, OnePage, Next, NEW n
  PROVE  Settled(n)
  <1>1. CacheInv
    BY DEF IInv
  <1>2. ASSUME NEW c \in Callers,
               ResolveLabels(c) \/ ResolveNames(c) \/ CallerSteps(c) \/ CallFails(c)
        PROVE  Settled(n)
    <2>1. CASE ResolveLabels(c) \/ ResolveNames(c)
      BY <1>1, <2>1, BeginSettled DEF ResolveLabels, ResolveNames
    <2>2. CASE Steps(c)
      BY <1>1, <2>2, AcquireSettled, ListServedSettled, ListReturnsSettled DEF Steps
    <2> QED BY <1>1, <1>2, <2>1, <2>2, LookUpSettled, LookUpNamesSettled, CreateServedSettled,
               CreateReturnsSettled, CallFailsSettled DEF CallerSteps
  <1>3. CASE Tick
    <2>1. UNCHANGED <<objects, entry, caller, left>>
      BY <1>3 DEF Tick
    <2>2. Bearers(n)' = Bearers(n) /\ MayMake(n)' = MayMake(n)
      BY <2>1 DEF Bearers, Live, MayMake
    <2> QED BY <1>1, <2>1, <2>2, SettledIdle
  <1> QED BY <1>1, <1>2, <1>3, UsersSettled DEF Next

\* Where a list call brings every label and no name is there twice at first, the
\* labels a name has, and those that may still be made for it, are paid for: one
\* for each process, one for each lost response, one for each change of a user.
THEOREM AlwaysAccounted ==
  ASSUME OnePage, IsFiniteSet(Entries), Entries # {}, InitiallyDistinct
  PROVE  Spec => []Accounted
  <1>1. Init => Accounted
    <2> SUFFICES ASSUME Init, NEW n \in Names PROVE Paid(n)
      BY DEF Accounted, Paid, Slack
    <2>1. MayMake(n) = {}
      BY DEF Init, MayMake
    <2>2. \A i, j \in Bearers(n) : i = j
      BY Parameters DEF Init, Bearers, Live, NewObject, InitiallyDistinct
    <2>3. PICK x : Bearers(n) \subseteq {x}
      <3>1. CASE Bearers(n) = {}
        BY <3>1
      <3>2. ASSUME NEW i \in Bearers(n) PROVE Bearers(n) \subseteq {i}
        BY <2>2
      <3> QED BY <3>1, <3>2
    <2>4. Cardinality(Bearers(n)) <= 1 /\ Cardinality(Bearers(n)) \in Nat
      <3>1. IsFiniteSet({x}) /\ Cardinality({x}) = 1
        BY FS_Singleton
      <3>2. IsFiniteSet(Bearers(n)) /\ Cardinality(Bearers(n)) <= Cardinality({x})
        BY <2>3, <3>1, FS_Subset
      <3> QED BY <3>1, <3>2, FS_CardinalityType
    <2>5. Cardinality(Entries) >= 1 /\ Cardinality(Entries) \in Nat
      BY FS_EmptySet, FS_CardinalityType
    <2>6. Cardinality(MayMake(n)) = 0
      BY <2>1, FS_EmptySet
    <2>7. left.faults = MaxFaults /\ left.changes = MaxChanges
      BY DEF Init
    <2> QED BY <2>4, <2>5, <2>6, <2>7, Parameters DEF Paid, Slack
  <1>2. IInv /\ Accounted /\ [Next]_vars => Accounted'
    <2> SUFFICES ASSUME IInv, Accounted, [Next]_vars, NEW n \in Names PROVE Paid(n)'
      BY DEF Accounted, Paid, Slack
    <2>1. Paid(n)
      BY DEF Accounted, Paid, Slack
    <2>2. CacheInv /\ CacheInv'
      BY NextKeeps DEF IInv
    <2>3. CASE UNCHANGED vars
      BY <2>1, <2>3 DEF vars, Paid, Slack, Bearers, MayMake, Live
    <2>4. CASE Next
      <3>1. Settled(n)
        BY <2>4, NextSettled
      <3> QED BY <2>1, <2>2, <3>1, StaysPaid, NoneBears DEF Settled
    <2> QED BY <2>3, <2>4
  <1> QED BY <1>1, <1>2, AlwaysIInv, PTL DEF Spec

\* So a name gets one label for each process, and another one only by a lost
\* response or by a user's doing.
THEOREM LabelsArePaidFor ==
  ASSUME OnePage, IsFiniteSet(Entries), Entries # {}, InitiallyDistinct
  PROVE  Spec => []DuplicatesNeedCause
  <1>1. IInv /\ Accounted => DuplicatesNeedCause
    <2> SUFFICES ASSUME IInv, Accounted, NEW n \in Names
                 PROVE  Cardinality(Bearers(n)) <= Slack
      BY DEF DuplicatesNeedCause, Bearers, Slack
    <2>1. Cardinality(Bearers(n)) \in Nat /\ Cardinality(MayMake(n)) \in Nat
      BY Counted DEF IInv
    <2>2. left.faults \in Int /\ left.changes \in Int /\ Cardinality(Entries) \in Int
      BY Counted DEF IInv
    <2>3. Slack \in Int
      BY <2>2, Parameters DEF Slack
    <2>4. Cardinality(Bearers(n)) + Cardinality(MayMake(n)) <= Slack
      BY DEF Accounted, Slack
    <2> QED BY <2>1, <2>3, <2>4
  <1> QED BY <1>1, AlwaysIInv, AlwaysAccounted, PTL
=============================================================================

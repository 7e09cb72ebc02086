--------------------------- MODULE ListCache_proofs --------------------------
(***************************************************************************)
(* What every step of the caches of internal/sync keeps, whatever is done  *)
(* with a list once there is one.                                          *)
(***************************************************************************)
EXTENDS ListCache, FiniteSetTheorems, TLAPS

\* A call in flight has not lasted longer than it can, and no list is from the
\* future.
Timed ==
  /\ \A e \in Entries : entry[e].fetchedAt <= clock
  /\ \A c \in Callers : caller[c].at \in InFlight =>
       caller[c].since <= clock /\ clock - caller[c].since <= Timeout

\* A list is only asked for when the last one is too old.
Needed ==
  \A c \in Callers : caller[c].at \in {"listing", "listed"} /\ entry[Home[c]].known =>
    clock - entry[Home[c]].fetchedAt >= TTL

\* NamedSince of a given sequence of objects.
Was(obj, i, n, t) ==
  /\ i \in DOMAIN obj
  /\ (~obj[i].gone /\ obj[i].name = n) \/ obj[i].held[n] >= t

\* What a list says was true when it was made.
Sourced ==
  /\ \A e \in Entries : \A p \in entry[e].list :
       Was(objects, p.id, p.name, entry[e].fetchedAt - Timeout)
  /\ \A c \in Callers : caller[c].at \in {"listed", "created"} =>
       \A p \in caller[c].reply : Was(objects, p.id, p.name, caller[c].since)

CacheInv == TypeOK /\ Exclusive /\ Timed /\ Needed /\ Sourced

\* What no step forgets.
Remembered ==
  \A i \in Int, n \in Names, t \in Int :
    t <= clock /\ Was(objects, i, n, t) => Was(objects', i, n, t)

\* A list call brings every object.
OnePage == PageSize >= MaxObjects

\* A list made at time t or after holds every object that had its name before.
Full(obj, list, t) ==
  \A i \in DOMAIN obj : ~obj[i].gone /\ obj[i].since < t =>
    [id |-> i, name |-> obj[i].name] \in list

\* An object has the name it had, or got it now.
Traced ==
  \A i \in Live' :
    \/ objects'[i].since = clock
    \/ i \in Live /\ objects'[i].name = objects[i].name /\ objects'[i].since = objects[i].since

\* Nothing but object k comes to have a name, and it gets n now, if it is free.
Gains(k, n) ==
  \A i \in Live' :
    \/ i # k /\ i \in Live /\ objects'[i] = objects[i]
    \/ i = k /\ objects'[i].name = n /\ objects'[i].since = clock /\ Free(n)

\* What is assumed of the constants.
LEMMA Parameters ==
  /\ Home \in [Callers -> Entries]
  /\ Initial \in Seq(Names) /\ Len(Initial) <= MaxObjects
  /\ TTL \in Int /\ TTL >= 1 /\ Timeout \in Int /\ Timeout >= 0
  /\ MaxTime \in Int /\ MaxTime >= 0 /\ MaxObjects \in Int
  /\ MaxCalls \in Int /\ MaxCalls >= 0 /\ MaxFaults \in Int /\ MaxFaults >= 0
  /\ MaxChanges \in Int /\ MaxChanges >= 0
  BY HomeAssumption, InitialAssumption, TimeAssumption, BudgetAssumption

\* A budget that is not used up can be drawn on.
LEMMA Spent ==
  ASSUME TypeOK
  PROVE  /\ left.calls > 0 => [left EXCEPT !.calls = @ - 1] \in Budget
         /\ left.faults > 0 => [left EXCEPT !.faults = @ - 1] \in Budget
         /\ left.changes > 0 => [left EXCEPT !.changes = @ - 1] \in Budget
  <1>1. left \in Budget
    BY DEF TypeOK
  <1>2. left.calls \in 0..MaxCalls /\ left.faults \in 0..MaxFaults /\ left.changes \in 0..MaxChanges
    BY <1>1 DEF Budget
  <1>3. left.calls > 0 => left.calls - 1 \in 0..MaxCalls
    BY <1>2, Parameters
  <1>4. left.faults > 0 => left.faults - 1 \in 0..MaxFaults
    BY <1>2, Parameters
  <1>5. left.changes > 0 => left.changes - 1 \in 0..MaxChanges
    BY <1>2, Parameters
  <1>6. left.calls > 0 => [left EXCEPT !.calls = @ - 1] \in Budget
    BY <1>1, <1>3 DEF Budget
  <1>7. left.faults > 0 => [left EXCEPT !.faults = @ - 1] \in Budget
    BY <1>1, <1>4 DEF Budget
  <1>8. left.changes > 0 => [left EXCEPT !.changes = @ - 1] \in Budget
    BY <1>1, <1>5 DEF Budget
  <1> QED BY <1>6, <1>7, <1>8

\* Replacing an element of a sequence keeps the others.
LEMMA Replaced ==
  ASSUME NEW S, NEW s \in Seq(S), NEW i \in DOMAIN s, NEW x \in S
  PROVE  /\ [s EXCEPT ![i] = x] \in Seq(S)
         /\ DOMAIN [s EXCEPT ![i] = x] = DOMAIN s /\ Len([s EXCEPT ![i] = x]) = Len(s)
         /\ \A j \in DOMAIN s : j # i => [s EXCEPT ![i] = x][j] = s[j]
         /\ [s EXCEPT ![i] = x][i] = x
  OBVIOUS

\* A new object takes nothing from the others.
LEMMA AddRemembers ==
  ASSUME TypeOK, NEW n \in Names, AddObject(n)
  PROVE  Remembered /\ objects' \in Seq(Object) /\ Len(objects') <= MaxObjects
  <1>1. NewObject(n, clock) \in Object
    BY Parameters DEF NewObject, Object, TypeOK
  <1>2. objects' \in Seq(Object) /\ Len(objects') = Len(objects) + 1 /\ Len(objects') <= MaxObjects
    BY <1>1, Parameters DEF AddObject, TypeOK
  <1>3. \A i \in DOMAIN objects : i \in DOMAIN objects' /\ objects'[i] = objects[i]
    BY <1>1 DEF AddObject, TypeOK
  <1> QED BY <1>2, <1>3 DEF Remembered, Was

\* Renaming or deleting an object notes until when it had its name.
LEMMA UsersRemember ==
  ASSUME TypeOK, Users
  PROVE  Remembered /\ objects' \in Seq(Object) /\ Len(objects') <= MaxObjects
  <1>1. CASE \E n \in Names : UserAdds(n)
    BY <1>1, AddRemembers DEF UserAdds
  <1>2. ASSUME NEW i \in DOMAIN objects, NEW n \in Names, UserRenames(i, n)
        PROVE  Remembered /\ objects' \in Seq(Object) /\ Len(objects') <= MaxObjects
    <2>1. /\ DOMAIN objects' = DOMAIN objects /\ Len(objects') = Len(objects)
          /\ objects' \in Seq(Object)
          /\ \A j \in DOMAIN objects : j # i => objects'[j] = objects[j]
          /\ objects'[i].held = [objects[i].held EXCEPT ![objects[i].name] = clock]
      <3> DEFINE o == [name |-> n, gone |-> FALSE, since |-> clock, held |-> HeldTillNow(i)]
      <3>1. objects \in Seq(Object) /\ objects[i] \in Object /\ clock \in 0..MaxTime
        BY DEF TypeOK
      <3>2. HeldTillNow(i) \in [Names -> -1..MaxTime]
        BY <3>1 DEF Object, HeldTillNow
      <3>3. o \in Object /\ o.held = HeldTillNow(i)
        BY <3>1, <3>2 DEF Object
      <3>4. objects' = [objects EXCEPT ![i] = o]
        BY <1>2, <3>1 DEF UserRenames, Object
      <3> HIDE DEF o
      <3> QED BY <3>1, <3>3, <3>4, Replaced DEF HeldTillNow
    <2>2. \A m \in Names, t \in Int : t <= clock /\ Was(objects, i, m, t) => Was(objects', i, m, t)
      <3>1. objects[i] \in Object /\ clock \in Int
        BY DEF TypeOK
      <3> QED BY <2>1, <3>1 DEF Was, Object
    <2>3. \A j \in DOMAIN objects, m \in Names, t \in Int :
            j # i /\ Was(objects, j, m, t) => Was(objects', j, m, t)
      BY <2>1 DEF Was
    <2>4. \A j, m, t : Was(objects, j, m, t) => j \in DOMAIN objects
      BY DEF Was
    <2> QED BY <2>1, <2>2, <2>3, <2>4 DEF Remembered, TypeOK
  <1>3. ASSUME NEW i \in DOMAIN objects, UserDeletes(i)
        PROVE  Remembered /\ objects' \in Seq(Object) /\ Len(objects') <= MaxObjects
    <2>1. /\ DOMAIN objects' = DOMAIN objects /\ Len(objects') = Len(objects)
          /\ objects' \in Seq(Object)
          /\ \A j \in DOMAIN objects : j # i => objects'[j] = objects[j]
          /\ objects'[i].held = [objects[i].held EXCEPT ![objects[i].name] = clock]
      <3> DEFINE o == [name |-> objects[i].name, gone |-> TRUE, since |-> objects[i].since, held |-> HeldTillNow(i)]
      <3>1. objects \in Seq(Object) /\ objects[i] \in Object /\ clock \in 0..MaxTime
        BY DEF TypeOK
      <3>2. HeldTillNow(i) \in [Names -> -1..MaxTime]
        BY <3>1 DEF Object, HeldTillNow
      <3>3. o \in Object /\ o.held = HeldTillNow(i)
        BY <3>1, <3>2 DEF Object
      <3>4. objects' = [objects EXCEPT ![i] = o]
        BY <1>3, <3>1 DEF UserDeletes, Object
      <3> HIDE DEF o
      <3> QED BY <3>1, <3>3, <3>4, Replaced DEF HeldTillNow
    <2>2. \A m \in Names, t \in Int : t <= clock /\ Was(objects, i, m, t) => Was(objects', i, m, t)
      <3>1. objects[i] \in Object /\ clock \in Int
        BY DEF TypeOK
      <3> QED BY <2>1, <3>1 DEF Was, Object
    <2>3. \A j \in DOMAIN objects, m \in Names, t \in Int :
            j # i /\ Was(objects, j, m, t) => Was(objects', j, m, t)
      BY <2>1 DEF Was
    <2>4. \A j, m, t : Was(objects, j, m, t) => j \in DOMAIN objects
      BY DEF Was
    <2> QED BY <2>1, <2>2, <2>3, <2>4 DEF Remembered, TypeOK
  <1> QED BY <1>1, <1>2, <1>3 DEF Users

\* A new object gets its name, and only a free one, now.
LEMMA AddGains ==
  ASSUME TypeOK, NEW n \in Names, AddObject(n), Free(n)
  PROVE  Gains(Len(objects) + 1, n)
  <1> DEFINE o == NewObject(n, clock)
  <1>1. objects \in Seq(Object) /\ o \in Object /\ o.since = clock /\ o.name = n
    BY Parameters DEF TypeOK, NewObject, Object
  <1>2. objects' = Append(objects, o)
    BY DEF AddObject
  <1> HIDE DEF o
  <1>3. Len(objects) \in Nat /\ DOMAIN objects = 1..Len(objects)
    BY <1>1
  <1>4. DOMAIN objects' = 1..Len(objects) + 1 /\ objects'[Len(objects) + 1] = o
    BY <1>1, <1>2
  <1>5. \A i \in 1..Len(objects) : objects'[i] = objects[i] /\ i # Len(objects) + 1
    BY <1>1, <1>2
  <1>6. \A i \in 1..Len(objects) + 1 : i \in 1..Len(objects) \/ i = Len(objects) + 1
    BY <1>3
  <1> QED BY <1>1, <1>3, <1>4, <1>5, <1>6 DEF Gains, Live

\* A user's change gives one object a name, or none.
LEMMA UsersGain ==
  ASSUME TypeOK, Users
  PROVE  \E k, n : Gains(k, n)
  <1>1. CASE \E n \in Names : UserAdds(n)
    BY <1>1, AddGains DEF UserAdds
  <1>2. ASSUME NEW i \in DOMAIN objects, NEW o, objects' = [objects EXCEPT ![i] = o],
               o.gone \/ (o.since = clock /\ Free(o.name))
        PROVE  Gains(i, o.name)
    <2>1. /\ DOMAIN objects' = DOMAIN objects /\ objects'[i] = o
          /\ \A j \in DOMAIN objects : j # i => objects'[j] = objects[j]
      BY <1>2 DEF TypeOK
    <2> QED BY <1>2, <2>1 DEF Gains, Live
  <1>3. ASSUME NEW i \in DOMAIN objects, NEW n \in Names, UserRenames(i, n)
        PROVE  \E k, m : Gains(k, m)
    <2> DEFINE o == [name |-> n, gone |-> FALSE, since |-> clock, held |-> HeldTillNow(i)]
    <2>1. objects' = [objects EXCEPT ![i] = o] /\ o.since = clock /\ o.name = n /\ Free(n)
      BY <1>3 DEF UserRenames
    <2> HIDE DEF o
    <2> QED BY <1>2, <2>1
  <1>4. ASSUME NEW i \in DOMAIN objects, UserDeletes(i)
        PROVE  \E k, m : Gains(k, m)
    <2> DEFINE o == [name |-> objects[i].name, gone |-> TRUE, since |-> objects[i].since,
                     held |-> HeldTillNow(i)]
    <2>1. objects' = [objects EXCEPT ![i] = o] /\ o.gone
      BY <1>4 DEF UserDeletes
    <2> HIDE DEF o
    <2>2. Gains(i, o.name)
      BY <1>2, <2>1
    <2> QED BY <2>2
  <1> QED BY <1>1, <1>3, <1>4 DEF Users

\* A list that was full of old objects stays so.
LEMMA FullStays ==
  ASSUME TypeOK, NEW list, NEW t \in Int, t <= clock, Full(objects, list, t), Traced
  PROVE  Full(objects', list, t)
  <1> SUFFICES ASSUME NEW i \in DOMAIN objects', ~objects'[i].gone, objects'[i].since < t
               PROVE  [id |-> i, name |-> objects'[i].name] \in list
    BY DEF Full
  <1>1. i \in Live' /\ clock \in Int
    BY DEF Live, TypeOK
  <1>2. i \in Live /\ objects'[i].name = objects[i].name /\ objects'[i].since = objects[i].since
    BY <1>1 DEF Traced
  <1> QED BY <1>2 DEF Full, Live

\* One page holds all the objects there can be.
LEMMA PageIsWhole ==
  ASSUME TypeOK, OnePage
  PROVE  \A i \in Live : [id |-> i, name |-> objects[i].name] \in Page
  <1>1. \A i \in Live : Cardinality({k \in Live : k <= i}) <= PageSize
    <2> TAKE i \in Live
    <2>1. IsFiniteSet(1..MaxObjects) /\ Cardinality(1..MaxObjects) = MaxObjects
      <3>1. MaxObjects \in Nat
        BY BudgetAssumption
      <3> QED BY <3>1, FS_Interval
    <2>2. {k \in Live : k <= i} \subseteq 1..MaxObjects
      BY Parameters DEF TypeOK, Live
    <2>3. Cardinality({k \in Live : k <= i}) <= MaxObjects /\ Cardinality({k \in Live : k <= i}) \in Nat
      BY <2>1, <2>2, FS_Subset, FS_CardinalityType
    <2> QED BY <2>3, TimeAssumption, BudgetAssumption DEF OnePage
  <1> QED BY <1>1 DEF Page

\* Types of the parts of an entry, a caller and a pair.
LEMMA Typed ==
  ASSUME TypeOK
  PROVE  /\ clock \in Int
         /\ \A e \in Entries : entry[e].fetchedAt \in Int /\ entry[e].list \subseteq Pair
         /\ \A c \in Callers : caller[c].since \in Int /\ caller[c].reply \subseteq Pair
         /\ \A p \in Pair : p.id \in Int /\ p.name \in Names
  <1>1. clock \in Int
    BY DEF TypeOK
  <1>2. \A e \in Entries : entry[e] \in Entry
    BY DEF TypeOK
  <1>3. \A e \in Entries : entry[e].fetchedAt \in Int /\ entry[e].list \subseteq Pair
    BY <1>2 DEF Entry
  <1>4. \A c \in Callers : caller[c] \in Caller
    BY DEF TypeOK
  <1>5. \A c \in Callers : caller[c].since \in Int /\ caller[c].reply \subseteq Pair
    BY <1>4 DEF Caller
  <1>6. \A p \in Pair : p.id \in Int /\ p.name \in Names
    BY DEF Pair, IDs
  <1> QED BY <1>1, <1>3, <1>5, <1>6

\* Who holds the mutex of an entry stays clear, whether a caller takes it, keeps
\* what it has, or gives it back.
LEMMA LockMoves ==
  ASSUME TypeOK, Exclusive, NEW c \in Callers, NEW r, caller' = [caller EXCEPT ![c] = r],
         \/ r.at \in Holding /\ lock[Home[c]] = {} /\ lock' = [lock EXCEPT ![Home[c]] = {c}]
         \/ (r.at \in Holding <=> caller[c].at \in Holding) /\ lock' = lock
         \/ r.at \notin Holding /\ lock' = [lock EXCEPT ![Home[c]] = @ \ {c}]
  PROVE  Exclusive'
  <1>1. \A d \in Callers : Home[d] \in Entries
    BY Parameters
  <1>2. caller'[c] = r /\ \A d \in Callers : d # c => caller'[d] = caller[d]
    BY DEF TypeOK
  <1>3. CASE r.at \in Holding /\ lock[Home[c]] = {} /\ lock' = [lock EXCEPT ![Home[c]] = {c}]
    <2>1. lock'[Home[c]] = {c} /\ \A e \in Entries : e # Home[c] => lock'[e] = lock[e]
      BY <1>3, <1>1 DEF TypeOK
    <2>2. \A d \in Callers : d # c /\ Home[d] = Home[c] => caller[d].at \notin Holding
      BY <1>3 DEF Exclusive
    <2> QED BY <1>1, <1>2, <1>3, <2>1, <2>2 DEF Exclusive, TypeOK
  <1>4. CASE (r.at \in Holding <=> caller[c].at \in Holding) /\ lock' = lock
    BY <1>1, <1>2, <1>4 DEF Exclusive, TypeOK
  <1>5. CASE r.at \notin Holding /\ lock' = [lock EXCEPT ![Home[c]] = @ \ {c}]
    <2>1. /\ lock'[Home[c]] = lock[Home[c]] \ {c}
          /\ \A e \in Entries : e # Home[c] => lock'[e] = lock[e]
      BY <1>5, <1>1 DEF TypeOK
    <2> QED BY <1>1, <1>2, <1>5, <2>1 DEF Exclusive, TypeOK
  <1> QED BY <1>3, <1>4, <1>5

\* What the other callers and entries know stays true when caller c moves on.
LEMMA CallerMoves ==
  ASSUME CacheInv, NEW c \in Callers, NEW r \in Caller, TypeOK', Exclusive', Remembered,
         clock' = clock, caller' = [caller EXCEPT ![c] = r],
         entry' = entry \/ c \in lock[Home[c]],
         \A e \in Entries : e # Home[c] => entry'[e] = entry[e],
         entry'[Home[c]].fetchedAt <= clock,
         \A p \in entry'[Home[c]].list :
           Was(objects', p.id, p.name, entry'[Home[c]].fetchedAt - Timeout),
         r.at \in InFlight => r.since <= clock /\ clock - r.since <= Timeout,
         r.at \in {"listing", "listed"} =>
           (entry'[Home[c]].known => clock - entry'[Home[c]].fetchedAt >= TTL),
         r.at \in {"listed", "created"} => \A p \in r.reply : Was(objects', p.id, p.name, r.since)
  PROVE  CacheInv'
  <1>1. \A d \in Callers : Home[d] \in Entries
    BY Parameters
  <1>2. caller'[c] = r /\ \A d \in Callers : d # c => caller'[d] = caller[d]
    BY Parameters DEF CacheInv, TypeOK
  <1>3. Timed'
    BY <1>1, <1>2 DEF CacheInv, Timed
  <1>4. Needed'
    <2>1. ASSUME NEW d \in Callers, d # c, caller[d].at \in {"listing", "listed"}
          PROVE  entry'[Home[d]] = entry[Home[d]]
      <3>1. d \in lock[Home[d]]
        BY <2>1 DEF CacheInv, Exclusive, Holding
      <3>2. CASE Home[d] = Home[c]
        BY <1>1, <2>1, <3>1, <3>2 DEF CacheInv, Exclusive
      <3> QED BY <1>1, <3>2
    <2> QED BY <1>1, <1>2, <2>1 DEF CacheInv, Needed
  <1>5. Sourced'
    <2>1. ASSUME NEW e \in Entries, e # Home[c], NEW p \in entry'[e].list
          PROVE  Was(objects', p.id, p.name, entry'[e].fetchedAt - Timeout)
      <3>1. /\ entry'[e] = entry[e] /\ entry[e].fetchedAt \in Int /\ entry[e].fetchedAt <= clock
            /\ p.id \in Int /\ p.name \in Names /\ clock \in Int
        BY <2>1, Typed DEF CacheInv, Timed
      <3>2. Was(objects, p.id, p.name, entry[e].fetchedAt - Timeout)
        BY <2>1, <3>1 DEF CacheInv, Sourced
      <3> QED BY <3>1, <3>2, Parameters DEF Remembered
    <2>2. ASSUME NEW d \in Callers, d # c, caller[d].at \in {"listed", "created"},
                 NEW p \in caller[d].reply
          PROVE  Was(objects', p.id, p.name, caller[d].since)
      <3>1. caller[d].since \in Int /\ caller[d].since <= clock
        BY <2>2, Typed DEF CacheInv, Timed, InFlight, Holding
      <3>2. p.id \in Int /\ p.name \in Names
        BY <2>2, Typed DEF CacheInv
      <3>3. Was(objects, p.id, p.name, caller[d].since)
        BY <2>2 DEF CacheInv, Sourced
      <3> QED BY <3>1, <3>2, <3>3 DEF Remembered
    <2>3. \A e \in Entries : \A p \in entry'[e].list :
            Was(objects', p.id, p.name, entry'[e].fetchedAt - Timeout)
      BY <2>1
    <2>4. \A d \in Callers : caller'[d].at \in {"listed", "created"} =>
            \A p \in caller'[d].reply : Was(objects', p.id, p.name, caller'[d].since)
      BY <1>2, <2>2
    <2> QED BY <2>3, <2>4 DEF Sourced
  <1> QED BY <1>3, <1>4, <1>5 DEF CacheInv
\* A new call waits for the mutex and holds nothing.
LEMMA BeginSound ==
  ASSUME CacheInv, NEW c \in Callers, NEW o \in Operations, NEW w \in Seq(Names \cup IDs),
         Begin(c, o, w)
  PROVE  CacheInv'
  <1> DEFINE r == [at |-> "waiting", op |-> o, want |-> w, out |-> <<>>, since |-> clock,
                   reply |-> {}]
  <1>1. r \in Caller
    BY DEF CacheInv, TypeOK, Caller
  <1>2. /\ caller' = [caller EXCEPT ![c] = r] /\ entry' = entry /\ lock' = lock
        /\ clock' = clock /\ objects' = objects /\ caller[c].at \in Ended
    BY DEF Begin
  <1>3. r.at = "waiting" /\ left' \in Budget
    BY Spent DEF Begin, CacheInv
  <1> HIDE DEF r
  <1>4. TypeOK'
    BY <1>1, <1>2, <1>3 DEF CacheInv, TypeOK
  <1>5. Exclusive'
    BY <1>2, <1>3, LockMoves DEF CacheInv, Holding, Ended
  <1> QED
    BY <1>1, <1>2, <1>3, <1>4, <1>5, CallerMoves, Parameters
       DEF CacheInv, Remembered, Timed, Sourced, InFlight, Holding

\* The mutex goes to one caller, which lists only if the list is too old.
LEMMA AcquireSound ==
  ASSUME CacheInv, NEW c \in Callers, Acquire(c)
  PROVE  CacheInv'
  <1> DEFINE r == [caller[c] EXCEPT !.since = clock,
                                    !.at = IF Fresh(Home[c]) THEN "ready" ELSE "listing"]
  <1>1. caller[c] \in Caller /\ clock \in 0..MaxTime
    BY Parameters DEF CacheInv, TypeOK
  <1>2. r \in Caller /\ r.since = clock /\ r.at = IF Fresh(Home[c]) THEN "ready" ELSE "listing"
    BY <1>1 DEF Caller, Holding
  <1>3. /\ caller' = [caller EXCEPT ![c] = r] /\ entry' = entry
        /\ lock' = [lock EXCEPT ![Home[c]] = {c}] /\ lock[Home[c]] = {}
        /\ clock' = clock /\ objects' = objects /\ left' = left
    BY DEF Acquire
  <1> HIDE DEF r
  <1>4. TypeOK'
    BY <1>2, <1>3 DEF CacheInv, TypeOK
  <1>5. Exclusive'
    BY <1>2, <1>3, LockMoves DEF CacheInv, Holding
  <1>6. r.at = "listing" => (entry[Home[c]].known => clock - entry[Home[c]].fetchedAt >= TTL)
    BY <1>1, <1>2, Typed, Parameters DEF Fresh, CacheInv
  <1>7. Remembered
    BY <1>3 DEF Remembered
  <1>8. /\ entry'[Home[c]].fetchedAt <= clock
        /\ \A p \in entry'[Home[c]].list :
             Was(objects', p.id, p.name, entry'[Home[c]].fetchedAt - Timeout)
    BY <1>3, Parameters DEF CacheInv, Timed, Sourced
  <1>9. r.at \notin {"listed", "created"} /\ (r.since <= clock /\ clock - r.since <= Timeout)
    BY <1>1, <1>2, Parameters
  <1> QED
    BY <1>2, <1>3, <1>4, <1>5, <1>6, <1>7, <1>8, <1>9, CallerMoves

\* The service answers with what is true now.
LEMMA ListServedSound ==
  ASSUME CacheInv, NEW c \in Callers, ListServed(c)
  PROVE  CacheInv'
  <1> DEFINE r == [caller[c] EXCEPT !.at = "listed", !.reply = Page]
  <1>1. caller[c] \in Caller /\ clock \in 0..MaxTime /\ objects \in Seq(Object)
        /\ DOMAIN objects \subseteq IDs
    BY Parameters DEF CacheInv, TypeOK, IDs
  <1>2. Page \subseteq Pair
    <2>1. \A i \in Live : i \in IDs /\ objects[i] \in Object
      BY <1>1 DEF Live
    <2>2. \A i \in Live : [id |-> i, name |-> objects[i].name] \in Pair
      BY <2>1 DEF Pair, Object
    <2>3. \A p \in Page : \E i \in Live : p = [id |-> i, name |-> objects[i].name]
      BY DEF Page
    <2> QED BY <2>2, <2>3
  <1>3. r \in Caller /\ r.since = caller[c].since /\ r.at = "listed" /\ r.reply = Page
    BY <1>1, <1>2 DEF Caller, Holding
  <1>4. /\ caller' = [caller EXCEPT ![c] = r] /\ caller[c].at = "listing"
        /\ entry' = entry /\ lock' = lock
        /\ clock' = clock /\ objects' = objects /\ left' = left
    BY DEF ListServed
  <1>5. \A t : \A p \in Page : Was(objects, p.id, p.name, t)
    <2>1. \A p \in Page : \E i \in Live : p = [id |-> i, name |-> objects[i].name]
      BY DEF Page
    <2> QED BY <2>1 DEF Was, Live
  <1> HIDE DEF r
  <1>6. TypeOK'
    BY <1>3, <1>4 DEF CacheInv, TypeOK
  <1>7. Exclusive'
    BY <1>3, <1>4, LockMoves DEF CacheInv, Holding
  <1> QED
    BY <1>1, <1>3, <1>4, <1>5, <1>6, <1>7, CallerMoves, Parameters
       DEF CacheInv, Remembered, Timed, Needed, Sourced, InFlight, Holding

\* The entry's new list is as old as its call, at most.
LEMMA ListReturnsSound ==
  ASSUME CacheInv, NEW c \in Callers, ListReturns(c)
  PROVE  CacheInv'
  <1> DEFINE r == [caller[c] EXCEPT !.at = "ready", !.reply = {}]
             f == [known |-> TRUE, list |-> caller[c].reply, fetchedAt |-> clock]
  <1>1. caller[c] \in Caller /\ clock \in 0..MaxTime /\ Home[c] \in Entries
    BY Parameters DEF CacheInv, TypeOK
  <1>2. r \in Caller /\ r.at = "ready"
    BY <1>1 DEF Caller, Holding
  <1>3. f \in Entry /\ f.known /\ f.list = caller[c].reply /\ f.fetchedAt = clock
    BY <1>1 DEF Entry, Caller
  <1>4. /\ caller' = [caller EXCEPT ![c] = r] /\ caller[c].at = "listed"
        /\ entry' = [entry EXCEPT ![Home[c]] = f] /\ lock' = lock
        /\ clock' = clock /\ objects' = objects /\ left' = left
    BY DEF ListReturns
  <1> HIDE DEF r, f
  <1>5. TypeOK'
    BY <1>2, <1>3, <1>4 DEF CacheInv, TypeOK
  <1>6. Exclusive' /\ c \in lock[Home[c]]
    BY <1>2, <1>4, LockMoves DEF CacheInv, Exclusive, Holding
  <1>7. entry'[Home[c]] = f /\ \A e \in Entries : e # Home[c] => entry'[e] = entry[e]
    BY <1>1, <1>4 DEF CacheInv, TypeOK
  <1>8. ASSUME NEW p \in f.list
        PROVE  Was(objects', p.id, p.name, f.fetchedAt - Timeout)
    <2>1. caller[c].since \in Int /\ p.id \in Int /\ p.name \in Names
      BY <1>3, <1>8, Typed DEF CacheInv
    <2>2. Was(objects, p.id, p.name, caller[c].since)
      BY <1>3, <1>4, <1>8 DEF CacheInv, Sourced
    <2>3. f.fetchedAt - Timeout <= caller[c].since /\ caller[c].since <= clock
      BY <1>1, <1>3, <1>4, <2>1, Parameters DEF CacheInv, Timed, InFlight, Holding
    <2>4. p.id \in DOMAIN objects => objects[p.id].held[p.name] \in Int
      <3>1. p.id \in DOMAIN objects => objects[p.id] \in Object
        BY DEF CacheInv, TypeOK
      <3> QED BY <2>1, <3>1, Parameters DEF Object
    <2> QED BY <1>1, <1>3, <1>4, <2>1, <2>2, <2>3, <2>4, Parameters DEF Was
  <1>9. Remembered
    BY <1>4 DEF Remembered
  <1>10. r.at \notin InFlight /\ r.at \notin {"listing", "listed", "created"}
    BY <1>2 DEF InFlight, Holding
  <1>11. /\ entry'[Home[c]].fetchedAt <= clock
         /\ \A p \in entry'[Home[c]].list :
              Was(objects', p.id, p.name, entry'[Home[c]].fetchedAt - Timeout)
    BY <1>1, <1>3, <1>7, <1>8
  <1> QED
    BY <1>2, <1>4, <1>5, <1>6, <1>7, <1>9, <1>10, <1>11, CallerMoves

\* A call that ends gives back the mutex and knows nothing any more.
LEMMA FinishSound ==
  ASSUME CacheInv, NEW c \in Callers, NEW at \in Ended, NEW out \in Seq(Names \cup IDs),
         Finish(c, at, out), UNCHANGED <<clock, objects, entry>>,
         left' \in Budget
  PROVE  CacheInv'
  <1> DEFINE r == [at |-> at, op |-> "none", want |-> <<>>, out |-> out, since |-> 0, reply |-> {}]
  <1>1. r \in Caller /\ r.at = at
    BY Parameters DEF Caller, Operations
  <1>2. /\ caller' = [caller EXCEPT ![c] = r]
        /\ lock' = [lock EXCEPT ![Home[c]] = @ \ {c}]
    BY DEF Finish
  <1> HIDE DEF r
  <1>3. TypeOK'
    BY <1>1, <1>2 DEF CacheInv, TypeOK
  <1>4. Exclusive'
    BY <1>1, <1>2, LockMoves DEF CacheInv, Holding, Ended
  <1> QED
    BY <1>1, <1>2, <1>3, <1>4, CallerMoves, Parameters
       DEF CacheInv, Remembered, Timed, Sourced, InFlight, Holding, Ended

\* A call that fails unlocks and stores nothing.
LEMMA CallFailsSound ==
  ASSUME CacheInv, NEW c \in Callers, CallFails(c)
  PROVE  CacheInv'
  <1>1. left' \in Budget
    BY Spent DEF CallFails, CacheInv
  <1>2. <<>> \in Seq(Names \cup IDs) /\ "failed" \in Ended
    BY DEF Ended
  <1> QED BY <1>1, <1>2, FinishSound DEF CallFails

\* Users change objects only, and nothing that was so is forgotten.
LEMMA UsersSound ==
  ASSUME CacheInv, Users
  PROVE  CacheInv'
  <1>1. Remembered /\ objects' \in Seq(Object) /\ Len(objects') <= MaxObjects
    BY UsersRemember DEF CacheInv
  <1>2. /\ clock' = clock /\ entry' = entry /\ lock' = lock /\ caller' = caller
        /\ left' = [left EXCEPT !.changes = @ - 1] /\ left.changes > 0
    BY DEF Users
  <1>3. TypeOK'
    BY <1>1, <1>2, Spent DEF CacheInv, TypeOK
  <1>4. Exclusive' /\ Timed' /\ Needed'
    BY <1>2 DEF CacheInv, Exclusive, Timed, Needed
  <1>5. ASSUME NEW e \in Entries, NEW p \in entry[e].list
        PROVE  Was(objects', p.id, p.name, entry[e].fetchedAt - Timeout)
    <2>1. /\ entry[e].fetchedAt \in Int /\ entry[e].fetchedAt <= clock /\ clock \in Int
          /\ p.id \in Int /\ p.name \in Names
      BY <1>5, Typed DEF CacheInv, Timed
    <2>2. Was(objects, p.id, p.name, entry[e].fetchedAt - Timeout)
      BY <1>5 DEF CacheInv, Sourced
    <2> QED BY SMTT(30), <1>1, <2>1, <2>2, Parameters DEF Remembered
  <1>6. ASSUME NEW c \in Callers, caller[c].at \in {"listed", "created"}, NEW p \in caller[c].reply
        PROVE  Was(objects', p.id, p.name, caller[c].since)
    <2>1. /\ caller[c].since \in Int /\ caller[c].since <= clock
          /\ p.id \in Int /\ p.name \in Names
      BY <1>6, Typed DEF CacheInv, Timed, InFlight, Holding
    <2>2. Was(objects, p.id, p.name, caller[c].since)
      BY <1>6 DEF CacheInv, Sourced
    <2> QED BY <1>1, <2>1, <2>2 DEF Remembered
  <1> QED BY <1>2, <1>3, <1>4, <1>5, <1>6 DEF CacheInv, Sourced

\* Time stands still for calls that have taken their time.
LEMMA TickSound ==
  ASSUME CacheInv, Tick
  PROVE  CacheInv'
  <1>1. /\ clock' = clock + 1 /\ clock < MaxTime /\ objects' = objects /\ entry' = entry
        /\ lock' = lock /\ caller' = caller /\ left' = left
        /\ \A c \in Callers : caller[c].at \in InFlight => clock - caller[c].since < Timeout
    BY DEF Tick
  <1>2. TypeOK'
    BY <1>1, Parameters DEF CacheInv, TypeOK
  <1>3. Exclusive'
    BY <1>1 DEF CacheInv, Exclusive
  <1>4. Timed' /\ Needed'
    BY <1>1, Typed, Parameters DEF CacheInv, Timed, Needed
  <1>5. Sourced'
    BY <1>1 DEF CacheInv, Sourced
  <1> QED BY <1>2, <1>3, <1>4, <1>5 DEF CacheInv

\* The invariant holds of the empty cache.
LEMMA InitSound == Init => CacheInv
  <1> SUFFICES ASSUME Init PROVE CacheInv
    OBVIOUS
  <1> DEFINE r == [at |-> "idle", op |-> "none", want |-> <<>>, out |-> <<>>, since |-> 0,
                   reply |-> {}]
             f == [known |-> FALSE, list |-> {}, fetchedAt |-> 0]
  <1>1. r \in Caller /\ r.at = "idle"
    BY Parameters DEF Caller, Ended, Operations
  <1>2. f \in Entry /\ f.list = {} /\ f.fetchedAt = 0
    BY Parameters DEF Entry
  <1>3. /\ \A c \in Callers : caller[c] = r
        /\ \A e \in Entries : entry[e] = f
        /\ clock = 0 /\ \A e \in Entries : lock[e] = {}
    BY DEF Init
  <1>4. \A n \in Names : NewObject(n, 0) \in Object
    BY Parameters DEF NewObject, Object
  <1>5. objects \in Seq(Object) /\ Len(objects) = Len(Initial)
    BY <1>4, Parameters DEF Init
  <1>6. TypeOK
    <2> HIDE DEF r, f
    <2>1. caller \in [Callers -> Caller] /\ entry \in [Entries -> Entry]
      BY <1>1, <1>2 DEF Init, r, f
    <2>2. lock \in [Entries -> SUBSET Callers] /\ clock \in 0..MaxTime
      BY Parameters DEF Init
    <2>3. left \in Budget
      BY Parameters DEF Init, Budget
    <2> QED BY <1>5, <2>1, <2>2, <2>3, Parameters DEF TypeOK
  <1> HIDE DEF r, f
  <1>7. Exclusive /\ Timed /\ Needed /\ Sourced
    BY <1>1, <1>2, <1>3, Parameters DEF Exclusive, Timed, Needed, Sourced, Holding, InFlight, Ended
  <1> QED BY <1>6, <1>7 DEF CacheInv
=============================================================================

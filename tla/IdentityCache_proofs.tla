------------------------- MODULE IdentityCache_proofs -------------------------
(***************************************************************************)
(* What matching accounts of the two services by address may rely on, for  *)
(* any users, members, overrides, callers and times.                       *)
(***************************************************************************)
EXTENDS IdentityCache, FiniteSetTheorems, TLAPS

Inside(w) == IF w = "members" THEN {"listing", "listed"} ELSE {"searching", "searched"}

\* A mutex is held by who is inside, alone.
Locked ==
  \A w \in Waiting :
    /\ lock[w] = {c \in Callers : caller[c].at \in Inside(w)}
    /\ \A c, d \in lock[w] : c = d

\* What is asked for is not known, or was known for too long.
Needed(r) ==
  /\ r.at \in Inside("members") => roster.expiry <= clock
  /\ r.at \in Inside("logins") => found[r.email].expiry <= clock

\* What a caller knows of the accounts was true when it was told.
Informed(r) ==
  /\ r.at \notin Ended =>
       r.who \in (IF r.op = "member" THEN Logins ELSE Members) /\ r.begun <= clock
  /\ r.at \in Calling => r.since <= clock /\ clock - r.since <= Timeout
  /\ r.at \in {"asking", "asked"} => r.op = "member" /\ r.email \in {None, Noreply}
  /\ r.at = "asked" =>
       r.match \in Address /\ (r.match \in Emails => Had(r.who, r.match, 0))
  /\ r.at \in Inside("members") \cup {"members"} /\ r.op = "member" =>
       r.email \in Emails \cup {Noreply} /\ (r.email \in Emails => Had(r.who, r.email, 0))
  /\ r.at = "listed" =>
       \A m \in Members : r.list[m] \in Emails => Had(m, r.list[m], r.since)
  /\ r.at \in Inside("logins") \cup {"logins"} =>
       r.op = "user" /\ r.email \in Emails /\ Had(r.who, r.email, r.begun - Age + 1)
  /\ r.at = "searched" =>
       r.match \in Logins \cup {None} /\ (r.match # None => Had(r.match, r.email, r.since))

\* What the caches say was true an age before they expire.
Sourced ==
  /\ roster.expiry <= clock + TTL
  /\ \A m \in Members : roster.list[m] \in Emails => Had(m, roster.list[m], roster.expiry - Age)
  /\ \A e \in Emails :
       /\ found[e].expiry <= clock + TTL
       /\ found[e].login # None => Had(found[e].login, e, found[e].expiry - Age)

IInv ==
  /\ TypeOK /\ Locked /\ Sourced
  /\ \A c \in Callers : Needed(caller[c]) /\ Informed(caller[c])

LEMMA Parameters ==
  /\ TTL \in Int /\ TTL >= 1 /\ Timeout \in Int /\ Timeout >= 0
  /\ Age \in Int /\ Age >= 1 /\ Age = TTL + Timeout
  /\ MaxTime \in Int /\ MaxTime >= 0
  /\ MaxCalls \in Int /\ MaxCalls >= 0 /\ MaxFaults \in Int /\ MaxFaults >= 0
  /\ MaxChanges \in Int /\ MaxChanges >= 0
  BY TimeAssumption, BudgetAssumption DEF Age

Budget == [calls : 0..MaxCalls, faults : 0..MaxFaults, changes : 0..MaxChanges]

\* A budget that is not used up can be drawn on.
LEMMA Spent ==
  ASSUME TypeOK
  PROVE  /\ left.calls > 0 => [left EXCEPT !.calls = @ - 1] \in Budget
         /\ left.faults > 0 => [left EXCEPT !.faults = @ - 1] \in Budget
         /\ left.changes > 0 => [left EXCEPT !.changes = @ - 1] \in Budget
  <1>1. left \in Budget
    BY DEF TypeOK, Budget
  <1>2. left.calls > 0 => left.calls - 1 \in 0..MaxCalls
    BY <1>1, Parameters DEF Budget
  <1>3. left.faults > 0 => left.faults - 1 \in 0..MaxFaults
    BY <1>1, Parameters DEF Budget
  <1>4. left.changes > 0 => left.changes - 1 \in 0..MaxChanges
    BY <1>1, Parameters DEF Budget
  <1>5. left.calls > 0 => [left EXCEPT !.calls = @ - 1] \in Budget
    BY <1>1, <1>2 DEF Budget
  <1>6. left.faults > 0 => [left EXCEPT !.faults = @ - 1] \in Budget
    BY <1>1, <1>3 DEF Budget
  <1>7. left.changes > 0 => [left EXCEPT !.changes = @ - 1] \in Budget
    BY <1>1, <1>4 DEF Budget
  <1> QED BY <1>5, <1>6, <1>7
-----------------------------------------------------------------------------
(***************************************************************************)
(* What users and time leave alone.                                        *)
(***************************************************************************)

Remembered ==
  \A x \in People, e \in Emails, t \in Int : t <= clock /\ Had(x, e, t) => Had(x, e, t)'

\* Whoever had an address at some time will always have had it then.
LEMMA NothingForgotten ==
  ASSUME TypeOK, Users
  PROVE  Remembered
  <1>1. PICK y \in People : \E a \in Address \ {address[y]} :
          /\ address' = [address EXCEPT ![y] = a]
          /\ held' = IF address[y] = None THEN held
                     ELSE [held EXCEPT ![y][address[y]] = clock]
    BY DEF Users
  <1>2. address \in [People -> Address] /\ held \in [People -> [Emails -> -1..MaxTime]]
    BY DEF TypeOK
  <1>3. None \notin Emails
    BY NamesAssumption
  <1> SUFFICES ASSUME NEW x \in People, NEW e \in Emails, NEW t \in Int, t <= clock, Had(x, e, t)
               PROVE  Had(x, e, t)'
    BY DEF Remembered
  <1>4. CASE address[x] = e
    <2>1. CASE x = y
      <3>1. address[y] = e /\ address[y] # None
        BY <1>3, <1>4, <2>1
      <3>2. held' = [held EXCEPT ![y][e] = clock]
        BY <1>1, <3>1
      <3>3. held'[x][e] = clock
        BY <1>2, <2>1, <3>2
      <3> QED BY <3>3 DEF Had
    <2>2. CASE x # y
      <3>1. address'[x] = address[x]
        BY <1>1, <1>2, <2>2
      <3> QED BY <3>1, <1>4 DEF Had
    <2> QED BY <2>1, <2>2
  <1>5. CASE held[x][e] >= t
    <2>1. CASE held' = held
      BY <2>1, <1>5 DEF Had
    <2>2. CASE address[y] # None
      <3>1. held' = [held EXCEPT ![y][address[y]] = clock]
        BY <1>1, <2>2
      <3>2. held'[x][e] \in {held[x][e], clock}
        BY <1>2, <3>1
      <3> QED BY <3>2, <1>5 DEF Had
    <2> QED BY <1>1, <2>1, <2>2
  <1> QED BY <1>4, <1>5 DEF Had

\* What a caller was told stays true.
LEMMA InformedStays ==
  ASSUME TypeOK, Remembered, clock' = clock, NEW r \in Caller, Informed(r)
  PROVE  Informed(r)'
  <1>1. clock \in Int /\ clock >= 0 /\ None \notin Emails
    BY NamesAssumption DEF TypeOK
  <1>2. r.begun \in Int /\ r.since \in Int
    BY DEF Caller
  <1>3. r.at = "asked" /\ r.match \in Emails => Had(r.who, r.match, 0)'
    BY <1>1 DEF Informed, Remembered, Ended, People
  <1>4. r.at \in Inside("members") \cup {"members"} /\ r.op = "member" /\ r.email \in Emails
          => Had(r.who, r.email, 0)'
    BY <1>1 DEF Informed, Remembered, Ended, People, Inside
  <1>5. r.at = "listed" => \A m \in Members : r.list[m] \in Emails => Had(m, r.list[m], r.since)'
    BY <1>1, <1>2 DEF Informed, Remembered, Calling, People
  <1>6. r.at \in Inside("logins") \cup {"logins"} => Had(r.who, r.email, r.begun - Age + 1)'
    <2>1. r.begun <= clock => r.begun - Age + 1 \in Int /\ r.begun - Age + 1 <= clock
      BY <1>1, <1>2, Parameters
    <2> QED BY <2>1 DEF Informed, Remembered, Ended, People, Inside
  <1>7. r.at = "searched" /\ r.match # None => Had(r.match, r.email, r.since)'
    BY <1>1, <1>2 DEF Informed, Remembered, Calling, People, Inside
  <1> QED BY <1>3, <1>4, <1>5, <1>6, <1>7 DEF Informed

\* So does what the caches say.
LEMMA SourcedStays ==
  ASSUME TypeOK, Sourced, Remembered, clock' = clock, roster' = roster, found' = found
  PROVE  Sourced'
  <1>1. clock \in Int /\ roster.expiry \in Int /\ \A e \in Emails : found[e].expiry \in Int
    BY Parameters DEF TypeOK, ForgeCacheEntry
  <1>2. \A m \in Members : roster.list[m] \in Emails =>
          Had(m, roster.list[m], roster.expiry - Age)'
    <2>1. roster.expiry - Age \in Int /\ roster.expiry - Age <= clock
      BY <1>1, Parameters DEF Sourced
    <2> QED BY <2>1 DEF Sourced, Remembered, People
  <1>3. ASSUME NEW e \in Emails, found[e].login # None
        PROVE  Had(found[e].login, e, found[e].expiry - Age)'
    <2>1. found[e].expiry - Age \in Int /\ found[e].expiry - Age <= clock
      BY <1>1, Parameters DEF Sourced
    <2>2. found[e].login \in People
      BY <1>3 DEF TypeOK, ForgeCacheEntry, People
    <2> QED BY <1>3, <2>1, <2>2 DEF Sourced, Remembered
  <1> QED BY <1>2, <1>3 DEF Sourced
-----------------------------------------------------------------------------
(***************************************************************************)
(* One step of a caller.                                                   *)
(***************************************************************************)

\* The caller whose step it is ends it as r, with the mutex of what it is inside
\* and no other; a cache is only written by the caller inside.
Moves(c, r) ==
  /\ caller' = [caller EXCEPT ![c] = r]
  /\ clock' = clock /\ address' = address /\ since' = since /\ held' = held
  /\ \A w \in Waiting :
       /\ r.at \in Inside(w) => lock[w] \subseteq {c}
       /\ lock'[w] = IF r.at \in Inside(w) THEN {c} ELSE lock[w] \ {c}
  /\ roster' = roster \/ c \in lock["members"]
  /\ found' = found \/ c \in lock["logins"]

\* Such a step keeps the invariant of the mutexes and of what callers know.
LEMMA MovesSound ==
  ASSUME IInv, NEW c \in Callers, NEW r \in Caller, Moves(c, r), Informed(r), Needed(r)'
  PROVE  /\ caller' \in [Callers -> Caller]
         /\ Locked'
         /\ \A d \in Callers : Needed(caller[d])' /\ Informed(caller[d])'
  <1>1. caller \in [Callers -> Caller]
    BY DEF IInv, TypeOK
  <1>2. caller' \in [Callers -> Caller] /\ caller'[c] = r
        /\ \A d \in Callers : d # c => caller'[d] = caller[d]
    BY <1>1 DEF Moves
  <1>3. Locked'
    <2> SUFFICES ASSUME NEW w \in Waiting
                 PROVE  /\ lock'[w] = {d \in Callers : caller'[d].at \in Inside(w)}
                        /\ \A d, e \in lock'[w] : d = e
      BY DEF Locked, Inside
    <2>1. lock[w] = {d \in Callers : caller[d].at \in Inside(w)} /\ \A d, e \in lock[w] : d = e
      BY DEF IInv, Locked
    <2>2. r.at \in Inside(w) => lock[w] \subseteq {c}
      BY DEF Moves
    <2>3. lock'[w] = IF r.at \in Inside(w) THEN {c} ELSE lock[w] \ {c}
      BY DEF Moves
    <2>4. ASSUME NEW d \in Callers
          PROVE  d \in lock'[w] <=> caller'[d].at \in Inside(w)
      <3>1. CASE d = c
        BY <1>2, <2>3, <3>1
      <3>2. CASE d # c
        BY <1>2, <2>1, <2>2, <2>3, <3>2
      <3> QED BY <3>1, <3>2
    <2>5. lock'[w] \subseteq Callers
      BY <2>1, <2>3
    <2> QED BY <2>1, <2>3, <2>4, <2>5
  <1>4. Remembered
    BY DEF Remembered, Moves, Had
  <1>5. \A q \in Caller : Informed(q) => Informed(q)'
    BY <1>4, InformedStays DEF IInv, Moves
  <1>6. ASSUME NEW d \in Callers
        PROVE  \E q \in Caller : caller'[d] = q /\ Informed(q)'
    <2>1. CASE d = c
      BY <1>2, <1>5, <2>1
    <2>2. CASE d # c
      BY <1>1, <1>2, <1>5, <2>2 DEF IInv
    <2> QED BY <2>1, <2>2
  <1>7. ASSUME NEW d \in Callers
        PROVE  Informed(caller[d])'
    <2>1. PICK q \in Caller : caller'[d] = q /\ Informed(q)'
      BY <1>6
    <2> QED BY <2>1 DEF Informed, Had
  <1>8. ASSUME NEW d \in Callers
        PROVE  Needed(caller[d])'
    <2>1. CASE d = c
      BY <1>2, <2>1 DEF Needed
    <2>2. CASE d # c
      <3>1. d \notin lock["members"] \/ roster' = roster
        BY <2>2 DEF IInv, Locked, Moves, Waiting
      <3>2. d \notin lock["logins"] \/ found' = found
        BY <2>2 DEF IInv, Locked, Moves, Waiting
      <3>3. \A w \in Waiting : caller[d].at \in Inside(w) => d \in lock[w]
        BY DEF IInv, Locked
      <3>4. caller[d].at \in Inside("members") => roster' = roster
        BY <3>1, <3>3 DEF Waiting
      <3>5. caller[d].at \in Inside("logins") => found' = found
        BY <3>2, <3>3 DEF Waiting
      <3>6. caller'[d] = caller[d] /\ clock' = clock
        BY <1>2, <2>2 DEF Moves
      <3>7. Needed(caller[d])
        BY DEF IInv
      <3> QED BY <3>4, <3>5, <3>6, <3>7 DEF Needed
    <2> QED BY <2>1, <2>2
  <1> QED BY <1>2, <1>3, <1>7, <1>8

\* If it writes neither cache, the whole invariant.
LEMMA PlainMove ==
  ASSUME IInv, NEW c \in Callers, NEW r \in Caller, Moves(c, r), Informed(r), Needed(r),
         roster' = roster, found' = found, lock' \in [Waiting -> SUBSET Callers],
         left' \in Budget
  PROVE  IInv'
  <1>1. Needed(r)'
    BY DEF Needed, Moves
  <1>2. /\ caller' \in [Callers -> Caller] /\ Locked'
        /\ \A d \in Callers : Needed(caller[d])' /\ Informed(caller[d])'
    BY <1>1, MovesSound
  <1>3. Sourced'
    BY SourcedStays DEF IInv, Moves, Remembered, Had
  <1>4. TypeOK'
    BY <1>2 DEF IInv, TypeOK, Moves, Budget
  <1> QED BY <1>2, <1>3, <1>4 DEF IInv
-----------------------------------------------------------------------------
(***************************************************************************)
(* The records a step ends with.                                           *)
(***************************************************************************)

Ending(a) == [Idle EXCEPT !.at = "done", !.answer = a]

LEMMA IdleTyped == Idle \in Caller
  BY Parameters DEF Idle, Caller, Ended, NobodyListed, Address

LEMMA EndingSound ==
  ASSUME NEW a \in People \cup {None}
  PROVE  /\ Ending(a) \in Caller /\ Ending(a).at = "done" /\ Ending(a).answer = a
         /\ Informed(Ending(a)) /\ Needed(Ending(a))
         /\ \A w \in Waiting : Ending(a).at \notin Inside(w)
  <1>1. Idle \in Caller
    BY IdleTyped
  <1>2. Ending(a) \in Caller /\ Ending(a).at = "done" /\ Ending(a).answer = a
    BY <1>1 DEF Ending, Caller, Ended
  <1> QED BY <1>2 DEF Informed, Needed, Inside, Ended, Calling

\* What Asks makes of the caller.
Asking(c, w, e) ==
  LET r == [caller[c] EXCEPT !.at = w, !.email = e]
  IN [r EXCEPT !.match = None, !.list = NobodyListed, !.since = 0]

LEMMA AskingTyped ==
  ASSUME TypeOK, NEW c \in Callers, NEW w \in Waiting, NEW e \in Address \cup {Noreply}
  PROVE  /\ Asking(c, w, e) \in Caller
         /\ Asking(c, w, e).at = w /\ Asking(c, w, e).email = e
         /\ Asking(c, w, e).op = caller[c].op /\ Asking(c, w, e).who = caller[c].who
         /\ Asking(c, w, e).begun = caller[c].begun
  <1> DEFINE r == [caller[c] EXCEPT !.at = w, !.email = e]
  <1>1. caller[c] \in Caller
    BY DEF TypeOK
  <1>2. r \in Caller /\ r.at = w /\ r.email = e /\ r.op = caller[c].op /\ r.who = caller[c].who
        /\ r.begun = caller[c].begun
    BY <1>1 DEF Caller
  <1>3. Asking(c, w, e) = [r EXCEPT !.match = None, !.list = NobodyListed, !.since = 0]
    BY DEF Asking
  <1>4. 0 \in 0..MaxTime /\ None \in Address /\ NobodyListed \in [Members -> Address]
    BY Parameters DEF NobodyListed, Address
  <1> HIDE DEF r
  <1> QED BY <1>2, <1>3, <1>4 DEF Caller

\* What Goes makes of the caller.
Going(c, at) == [caller[c] EXCEPT !.at = at, !.since = clock]

LEMMA GoingTyped ==
  ASSUME TypeOK, NEW c \in Callers, NEW at \in Calling
  PROVE  /\ Going(c, at) \in Caller /\ Going(c, at).at = at /\ Going(c, at).since = clock
         /\ Going(c, at).email = caller[c].email /\ Going(c, at).op = caller[c].op
         /\ Going(c, at).who = caller[c].who /\ Going(c, at).begun = caller[c].begun
  <1> DEFINE r == [caller[c] EXCEPT !.at = at]
  <1>1. caller[c] \in Caller /\ clock \in 0..MaxTime
    BY DEF TypeOK
  <1>2. r \in Caller /\ r.at = at /\ r.email = caller[c].email /\ r.op = caller[c].op
        /\ r.who = caller[c].who /\ r.begun = caller[c].begun
    BY <1>1 DEF Caller
  <1>3. Going(c, at) = [r EXCEPT !.since = clock]
    BY <1>1 DEF Going, Caller
  <1> HIDE DEF r
  <1> QED BY <1>1, <1>2, <1>3 DEF Caller

\* What was so at some time or after, was so after any earlier time.
LEMMA HadBefore ==
  ASSUME TypeOK, NEW x \in People, NEW e \in Emails, NEW t \in Int, Had(x, e, t),
         NEW u \in Int, u <= t
  PROVE  Had(x, e, u)
  <1>1. held[x][e] \in -1..MaxTime
    BY DEF TypeOK
  <1> QED BY <1>1, Parameters DEF Had

\* UseList on a list that is not too old.
LEMMA UseListSound ==
  ASSUME IInv, NEW c \in Callers, caller[c].at \in {"members", "listed"},
         NEW l \in [Members -> Address], UseList(c, l),
         \A m \in Members : l[m] \in Emails => Had(m, l[m], clock - Age + 1)
  PROVE  \E r \in Caller :
           /\ caller' = [caller EXCEPT ![c] = r]
           /\ r.at \in {"done", "logins"} /\ Informed(r) /\ Needed(r)
           /\ r.at = "done" /\ r.answer # None =>
                /\ caller[c].op = "member"
                /\ \E e \in Emails : Had(caller[c].who, e, 0) /\ Had(r.answer, e, clock - Age + 1)
  <1>1. caller[c] \in Caller /\ TypeOK /\ Informed(caller[c])
    BY DEF IInv, TypeOK
  <1>2. Noreply \notin Address /\ None \notin Emails
    BY NamesAssumption DEF Address, None, Noreply
  <1>3. ASSUME NEW m \in MemberWith(caller[c].email, l), caller[c].op = "member", Answer(c, m)
        PROVE  \E r \in Caller :
                 /\ caller' = [caller EXCEPT ![c] = r]
                 /\ r.at \in {"done", "logins"} /\ Informed(r) /\ Needed(r)
                 /\ r.at = "done" /\ r.answer # None =>
                      /\ caller[c].op = "member"
                      /\ \E e \in Emails : /\ Had(caller[c].who, e, 0)
                                           /\ Had(r.answer, e, clock - Age + 1)
    <2>1. m \in Members /\ l[m] = caller[c].email
      BY DEF MemberWith
    <2>2. caller[c].email \in Emails /\ Had(caller[c].who, caller[c].email, 0)
      BY <1>1, <1>2, <1>3, <2>1 DEF Informed, Inside
    <2>3. Had(m, caller[c].email, clock - Age + 1)
      BY <2>1, <2>2
    <2>4. m \in People \cup {None}
      BY <2>1 DEF People
    <2>5. caller' = [caller EXCEPT ![c] = Ending(m)]
      BY <1>3 DEF Answer, Ending
    <2>6. /\ Ending(m) \in Caller /\ Ending(m).at = "done" /\ Ending(m).answer = m
          /\ Informed(Ending(m)) /\ Needed(Ending(m))
      BY <2>4, EndingSound
    <2>7. \E e \in Emails : Had(caller[c].who, e, 0) /\ Had(Ending(m).answer, e, clock - Age + 1)
      BY <2>2, <2>3, <2>6
    <2>8. Ending(m) \in Caller
      BY <2>6
    <2> WITNESS Ending(m) \in Caller
    <2> QED BY <1>3, <2>5, <2>6, <2>7
  <1>4. CASE Answer(c, None)
    <2>1. caller' = [caller EXCEPT ![c] = Ending(None)]
      BY <1>4 DEF Answer, Ending
    <2> QED BY <2>1, EndingSound
  <1>5. CASE caller[c].op = "user" /\ l[caller[c].who] # None /\ Asks(c, "logins", l[caller[c].who])
    <2> DEFINE e == l[caller[c].who]
               r == Asking(c, "logins", e)
    <2>1. caller[c].who \in Members /\ caller[c].begun <= clock
      BY <1>1, <1>5 DEF Informed, Ended
    <2>2. e \in Emails
      BY <1>5, <2>1 DEF Address
    <2>3. Had(caller[c].who, e, clock - Age + 1)
      BY <2>1, <2>2
    <2>4. Had(caller[c].who, e, caller[c].begun - Age + 1)
      <3>1. clock \in Int /\ caller[c].begun \in Int
        BY <1>1 DEF TypeOK, Caller
      <3>2. /\ clock - Age + 1 \in Int /\ caller[c].begun - Age + 1 \in Int
            /\ caller[c].begun - Age + 1 <= clock - Age + 1
        BY <2>1, <3>1, Parameters
      <3>3. caller[c].who \in People
        BY <2>1 DEF People
      <3> QED BY <1>1, <2>2, <2>3, <3>2, <3>3, HadBefore
    <2>5. e \in Address \cup {Noreply} /\ "logins" \in Waiting
      BY <2>2 DEF Address, Waiting
    <2>6. /\ r \in Caller /\ r.at = "logins" /\ r.email = e /\ r.op = "user"
          /\ r.who = caller[c].who /\ r.begun = caller[c].begun
      BY <1>1, <1>5, <2>5, AskingTyped
    <2>7. caller' = [caller EXCEPT ![c] = r]
      BY <1>5 DEF Asks, Asking
    <2> HIDE DEF r, e
    <2>8. Informed(r) /\ Needed(r)
      BY <2>1, <2>2, <2>4, <2>6 DEF Informed, Needed, Ended, Calling, Inside
    <2> QED BY <2>6, <2>7, <2>8
  <1>6. \/ \E m \in MemberWith(caller[c].email, l) : caller[c].op = "member" /\ Answer(c, m)
        \/ Answer(c, None)
        \/ caller[c].op = "user" /\ l[caller[c].who] # None /\ Asks(c, "logins", l[caller[c].who])
    BY DEF UseList
  <1> QED BY <1>3, <1>4, <1>5, <1>6
-----------------------------------------------------------------------------
(***************************************************************************)
(* The mutexes: a caller stays where it is, enters or leaves.              *)
(***************************************************************************)

Locks(c, r) ==
  /\ lock' \in [Waiting -> SUBSET Callers]
  /\ \A w \in Waiting :
       /\ r.at \in Inside(w) => lock[w] \subseteq {c}
       /\ lock'[w] = IF r.at \in Inside(w) THEN {c} ELSE lock[w] \ {c}

LEMMA StaySound ==
  ASSUME IInv, NEW c \in Callers, NEW r, lock' = lock,
         \A w \in Waiting : r.at \in Inside(w) <=> caller[c].at \in Inside(w)
  PROVE  Locks(c, r)
  <1>1. lock \in [Waiting -> SUBSET Callers]
    BY DEF IInv, TypeOK
  <1>2. ASSUME NEW w \in Waiting
        PROVE  /\ r.at \in Inside(w) => lock[w] = {c}
               /\ r.at \notin Inside(w) => lock[w] \ {c} = lock[w]
    <2>1. lock[w] = {d \in Callers : caller[d].at \in Inside(w)} /\ \A d, e \in lock[w] : d = e
      BY DEF IInv, Locked
    <2> QED BY <2>1
  <1> QED BY <1>1, <1>2 DEF Locks

LEMMA EnterSound ==
  ASSUME IInv, NEW c \in Callers, NEW r, NEW w \in Waiting, lock[w] = {},
         \A v \in Waiting : caller[c].at \notin Inside(v),
         r.at \in Inside(w), lock' = [lock EXCEPT ![w] = {c}]
  PROVE  Locks(c, r)
  <1>1. lock \in [Waiting -> SUBSET Callers]
    BY DEF IInv, TypeOK
  <1>2. ASSUME NEW v \in Waiting, v # w
        PROVE  r.at \notin Inside(v) /\ lock[v] \ {c} = lock[v] /\ lock'[v] = lock[v]
    <2>1. lock[v] = {d \in Callers : caller[d].at \in Inside(v)}
      BY DEF IInv, Locked
    <2> QED BY <1>1, <1>2, <2>1 DEF Waiting, Inside
  <1>3. lock' \in [Waiting -> SUBSET Callers] /\ lock'[w] = {c}
    BY <1>1
  <1> QED BY <1>2, <1>3 DEF Locks

LEMMA LeaveSound ==
  ASSUME IInv, NEW c \in Callers, NEW r, NEW w \in Waiting,
         caller[c].at \in Inside(w), \A v \in Waiting : r.at \notin Inside(v), Unlock(c, w)
  PROVE  Locks(c, r) /\ c \in lock[w]
  <1>1. lock \in [Waiting -> SUBSET Callers] /\ lock' = [lock EXCEPT ![w] = lock[w] \ {c}]
    BY DEF IInv, TypeOK, Unlock
  <1>2. ASSUME NEW v \in Waiting, v # w
        PROVE  lock[v] \ {c} = lock[v] /\ lock'[v] = lock[v]
    <2>1. lock[v] = {d \in Callers : caller[d].at \in Inside(v)}
      BY DEF IInv, Locked
    <2> QED BY <1>1, <1>2, <2>1 DEF Waiting, Inside
  <1>3. lock' \in [Waiting -> SUBSET Callers] /\ lock'[w] = lock[w] \ {c}
    BY <1>1
  <1>4. c \in lock[w]
    BY DEF IInv, Locked
  <1> QED BY <1>2, <1>3, <1>4 DEF Locks

\* A step that writes neither cache.
LEMMA Step ==
  ASSUME IInv, NEW c \in Callers, NEW r \in Caller, caller' = [caller EXCEPT ![c] = r],
         Locks(c, r), Informed(r), Needed(r), left' \in Budget,
         UNCHANGED <<clock, address, since, held, roster, found>>
  PROVE  IInv'
  <1>1. Moves(c, r)
    BY DEF Moves, Locks
  <1> QED BY <1>1, PlainMove DEF Locks
-----------------------------------------------------------------------------
(***************************************************************************)
(* Each action.                                                            *)
(***************************************************************************)

LEMMA LeftKept == ASSUME IInv, left' = left PROVE left' \in Budget
  BY DEF IInv, TypeOK, Budget

LEMMA BeginsSound ==
  ASSUME IInv, NEW c \in Callers, NEW r \in Caller, Begins(c, r), Informed(r), Needed(r),
         \A w \in Waiting : r.at \notin Inside(w)
  PROVE  IInv'
  <1>1. left' \in Budget
    BY Spent DEF IInv, Begins
  <1>2. \A w \in Waiting : caller[c].at \notin Inside(w)
    BY DEF Begins, Ended, Inside
  <1>3. Locks(c, r)
    BY <1>2, StaySound DEF Begins
  <1> QED BY <1>1, <1>3, Step DEF Begins

LEMMA ResolvePlaneMemberSound ==
  ASSUME IInv, NEW c \in Callers, ResolvePlaneMember(c)
  PROVE  IInv'
  <1>1. PICK u \in Logins, e \in {Noreply, None} \cup Emails :
          LET r == [Idle EXCEPT !.op = "member", !.who = u, !.email = e]
          IN \/ u \in DOMAIN Override
                /\ Begins(c, [Idle EXCEPT !.at = "done", !.answer = Override[u]])
             \/ e \in {Noreply, None} /\ Begins(c, [r EXCEPT !.at = "asking", !.since = clock])
             \/ e \in Emails /\ Had(u, e, 0) /\ Begins(c, [r EXCEPT !.at = "members"])
    BY DEF ResolvePlaneMember
  <1> DEFINE r == [Idle EXCEPT !.op = "member", !.who = u, !.email = e]
  <1>2. clock \in 0..MaxTime /\ clock >= 0
    BY DEF IInv, TypeOK
  <1>3. r \in Caller /\ r.op = "member" /\ r.who = u /\ r.email = e /\ r.begun = 0
    BY IdleTyped, Parameters DEF Caller, Address, People, Idle
  <1> HIDE DEF r
  <1>4. CASE u \in DOMAIN Override /\ Begins(c, Ending(Override[u]))
    <2>1. Override[u] \in People \cup {None}
      BY <1>4, OverrideAssumption DEF People
    <2> QED BY <1>4, <2>1, EndingSound, BeginsSound
  <1>5. CASE e \in {Noreply, None} /\ Begins(c, [r EXCEPT !.at = "asking", !.since = clock])
    <2> DEFINE q == [r EXCEPT !.at = "asking", !.since = clock]
    <2>1. q \in Caller /\ q.at = "asking" /\ q.since = clock /\ q.op = "member" /\ q.who = u
          /\ q.email = e /\ q.begun = 0
      BY <1>2, <1>3 DEF Caller, Calling
    <2> HIDE DEF q
    <2>2. Informed(q) /\ Needed(q) /\ \A w \in Waiting : q.at \notin Inside(w)
      BY <1>2, <1>5, <2>1, Parameters DEF Informed, Needed, Inside, Ended, Calling
    <2>3. Begins(c, q)
      BY <1>5 DEF q
    <2> QED BY <2>1, <2>2, <2>3, BeginsSound
  <1>6. CASE e \in Emails /\ Had(u, e, 0) /\ Begins(c, [r EXCEPT !.at = "members"])
    <2> DEFINE q == [r EXCEPT !.at = "members"]
    <2>1. q \in Caller /\ q.at = "members" /\ q.op = "member" /\ q.who = u
          /\ q.email = e /\ q.begun = 0
      BY <1>3 DEF Caller, Waiting
    <2> HIDE DEF q
    <2>2. Informed(q) /\ Needed(q) /\ \A w \in Waiting : q.at \notin Inside(w)
      BY <1>2, <1>6, <2>1 DEF Informed, Needed, Inside, Ended, Calling
    <2>3. Begins(c, q)
      BY <1>6 DEF q
    <2> QED BY <2>1, <2>2, <2>3, BeginsSound
  <1> QED BY <1>1, <1>4, <1>5, <1>6 DEF r, Ending

LEMMA ResolveForgeUserSound ==
  ASSUME IInv, NEW c \in Callers, ResolveForgeUser(c)
  PROVE  IInv'
  <1>1. PICK m \in Members :
          LET r == [Idle EXCEPT !.op = "user", !.who = m, !.begun = clock]
          IN \/ \E u \in DOMAIN Override : Begins(c, [Idle EXCEPT !.at = "done", !.answer = u])
             \/ Begins(c, [r EXCEPT !.at = "members"])
    BY DEF ResolveForgeUser
  <1> DEFINE r == [Idle EXCEPT !.op = "user", !.who = m, !.begun = clock]
             q == [r EXCEPT !.at = "members"]
  <1>2. clock \in 0..MaxTime
    BY DEF IInv, TypeOK
  <1>3. r \in Caller /\ r.op = "user" /\ r.who = m /\ r.begun = clock
    BY <1>2, IdleTyped DEF Caller, People
  <1> HIDE DEF r
  <1>4. q \in Caller /\ q.at = "members" /\ q.op = "user" /\ q.who = m /\ q.begun = clock
    BY <1>3 DEF Caller, Waiting
  <1> HIDE DEF q
  <1>5. Informed(q) /\ Needed(q) /\ \A w \in Waiting : q.at \notin Inside(w)
    BY <1>2, <1>4 DEF Informed, Needed, Inside, Ended, Calling
  <1>6. ASSUME NEW u \in DOMAIN Override, Begins(c, Ending(u))
        PROVE  IInv'
    <2>1. u \in People \cup {None}
      BY OverrideAssumption DEF People
    <2> QED BY <1>6, <2>1, EndingSound, BeginsSound
  <1>7. CASE Begins(c, q)
    BY <1>4, <1>5, <1>7, BeginsSound
  <1> QED BY <1>1, <1>6, <1>7 DEF q, r, Ending

LEMMA AskServedSound ==
  ASSUME IInv, NEW c \in Callers, AskServed(c)
  PROVE  IInv'
  <1> DEFINE r == [caller[c] EXCEPT !.at = "asked", !.match = address[caller[c].who]]
  <1>1. caller[c] \in Caller /\ Informed(caller[c]) /\ caller[c].at = "asking"
    BY DEF IInv, TypeOK, AskServed
  <1>2. caller[c].who \in Logins /\ caller[c].who \in People
    BY <1>1 DEF Informed, Ended, People
  <1>3. address[caller[c].who] \in Address
    BY <1>2 DEF IInv, TypeOK
  <1>4. /\ r \in Caller /\ r.at = "asked" /\ r.match = address[caller[c].who]
        /\ r.op = caller[c].op /\ r.who = caller[c].who /\ r.email = caller[c].email
        /\ r.begun = caller[c].begun /\ r.since = caller[c].since
    BY <1>1, <1>3 DEF Caller, Calling
  <1>5. caller' = [caller EXCEPT ![c] = r]
    BY DEF AskServed
  <1> HIDE DEF r
  <1>6. Informed(r)
    BY <1>1, <1>3, <1>4 DEF Informed, Had, Ended, Calling, Inside
  <1>7. Needed(r) /\ \A w \in Waiting : r.at \in Inside(w) <=> caller[c].at \in Inside(w)
    BY <1>1, <1>4 DEF Needed, Inside
  <1>8. Locks(c, r) /\ left' \in Budget
    BY <1>7, StaySound, LeftKept DEF AskServed
  <1> QED BY <1>4, <1>5, <1>6, <1>7, <1>8, Step DEF AskServed

\* With an address, the placeholder or none, after a search by login.
LEMMA AskEndsSound ==
  ASSUME IInv, NEW c \in Callers, caller[c].at \in {"asking", "asked"},
         NEW e \in Address \cup {Noreply}, e \in Emails => Had(caller[c].who, e, 0),
         AskEnds(c, e), left' \in Budget,
         UNCHANGED <<clock, address, since, held, roster, found, lock>>
  PROVE  IInv'
  <1>1. caller[c] \in Caller /\ Informed(caller[c])
    BY DEF IInv, TypeOK
  <1>2. \A w \in Waiting : caller[c].at \notin Inside(w)
    BY DEF Inside
  <1>3. CASE e = None
    <2>1. caller' = [caller EXCEPT ![c] = Ending(None)]
      BY <1>3 DEF AskEnds, Answer, Ending
    <2>2. Ending(None) \in Caller /\ Informed(Ending(None)) /\ Needed(Ending(None))
      BY EndingSound
    <2>3. \A w \in Waiting : Ending(None).at \notin Inside(w)
      BY EndingSound
    <2>4. Locks(c, Ending(None))
      BY <1>2, <2>3, StaySound
    <2> QED BY <2>1, <2>2, <2>4, Step
  <1>4. CASE e # None
    <2> DEFINE r == Asking(c, "members", e)
    <2>1. /\ r \in Caller /\ r.at = "members" /\ r.email = e
          /\ r.op = caller[c].op /\ r.who = caller[c].who /\ r.begun = caller[c].begun
      BY AskingTyped DEF IInv, Waiting
    <2>2. caller' = [caller EXCEPT ![c] = r]
      BY <1>4 DEF AskEnds, Asks, Asking
    <2> HIDE DEF r
    <2>3. e \in Emails \cup {Noreply}
      BY <1>4 DEF Address
    <2>4. Informed(r)
      BY <1>1, <2>1, <2>3 DEF Informed, Ended, Calling, Inside
    <2>5. Needed(r) /\ \A w \in Waiting : r.at \in Inside(w) <=> caller[c].at \in Inside(w)
      BY <1>2, <2>1 DEF Needed, Inside
    <2>6. Locks(c, r)
      BY <2>5, StaySound
    <2> QED BY <2>1, <2>2, <2>4, <2>5, <2>6, Step
  <1> QED BY <1>3, <1>4

\* The address a caller was asked with is none that can be looked for.
LEMMA AskedWith ==
  ASSUME IInv, NEW c \in Callers, caller[c].at \in {"asking", "asked"}
  PROVE  caller[c].email \in Address \cup {Noreply} /\ caller[c].email \notin Emails
  BY NamesAssumption DEF IInv, TypeOK, Caller, Informed

LEMMA AskReturnsSound ==
  ASSUME IInv, NEW c \in Callers, AskReturns(c)
  PROVE  IInv'
  <1> DEFINE e == IF caller[c].match # None THEN caller[c].match ELSE caller[c].email
  <1>1. caller[c].at = "asked" /\ AskEnds(c, e)
    BY DEF AskReturns
  <1>2. Informed(caller[c])
    BY DEF IInv
  <1>3. e \in Address \cup {Noreply} /\ (e \in Emails => Had(caller[c].who, e, 0))
    BY <1>1, <1>2, AskedWith DEF Informed
  <1>4. left' \in Budget
    BY LeftKept DEF AskReturns
  <1> HIDE DEF e
  <1> QED BY <1>1, <1>3, <1>4, AskEndsSound DEF AskReturns

\* What the members' list says is not too old while it is fresh.
LEMMA RosterCurrent ==
  ASSUME IInv, FreshRoster
  PROVE  /\ roster.list \in [Members -> Address]
         /\ \A m \in Members : roster.list[m] \in Emails => Had(m, roster.list[m], clock - Age + 1)
  <1>1. TypeOK /\ clock \in Int /\ roster.expiry \in Int
    BY Parameters DEF IInv, TypeOK
  <1>2. /\ roster.expiry - Age \in Int /\ clock - Age + 1 \in Int
        /\ clock - Age + 1 <= roster.expiry - Age
    BY <1>1, Parameters DEF FreshRoster
  <1>3. \A m \in Members : roster.list[m] \in Emails => Had(m, roster.list[m], clock - Age + 1)
    BY <1>1, <1>2, HadBefore DEF IInv, Sourced, People
  <1> QED BY <1>3 DEF IInv, TypeOK

LEMMA AcquireMembersSound ==
  ASSUME IInv, NEW c \in Callers, AcquireMembers(c)
  PROVE  IInv'
  <1>1. caller[c].at = "members" /\ lock["members"] = {} /\ left' \in Budget
    BY LeftKept DEF AcquireMembers
  <1>2. \A w \in Waiting : caller[c].at \notin Inside(w)
    BY <1>1 DEF Inside
  <1>3. CASE FreshRoster /\ UseList(c, roster.list) /\ UNCHANGED lock
    <2>1. PICK r \in Caller : /\ caller' = [caller EXCEPT ![c] = r]
                              /\ r.at \in {"done", "logins"} /\ Informed(r) /\ Needed(r)
      BY <1>1, <1>3, RosterCurrent, UseListSound
    <2>2. \A w \in Waiting : r.at \notin Inside(w)
      BY <2>1 DEF Inside
    <2>3. Locks(c, r)
      BY <1>2, <1>3, <2>2, StaySound
    <2> QED BY <1>1, <2>1, <2>3, Step DEF AcquireMembers
  <1>4. CASE ~FreshRoster /\ Goes(c, "listing") /\ lock' = [lock EXCEPT !["members"] = {c}]
    <2> DEFINE r == Going(c, "listing")
    <2>1. caller' = [caller EXCEPT ![c] = r]
      BY <1>4 DEF Goes, Going
    <2>2. /\ r \in Caller /\ r.at = "listing" /\ r.since = clock /\ r.email = caller[c].email
          /\ r.op = caller[c].op /\ r.who = caller[c].who /\ r.begun = caller[c].begun
      BY GoingTyped DEF IInv, Calling
    <2>3. clock \in Int /\ roster.expiry \in Int /\ Informed(caller[c])
      BY Parameters DEF IInv, TypeOK
    <2> HIDE DEF r
    <2>4. Informed(r)
      BY <1>1, <2>2, <2>3, Parameters DEF Informed, Ended, Calling, Inside
    <2>5. Needed(r)
      BY <1>4, <2>2, <2>3 DEF Needed, Inside, FreshRoster
    <2>6. r.at \in Inside("members") /\ "members" \in Waiting
      BY <2>2 DEF Inside, Waiting
    <2>7. Locks(c, r)
      BY <1>1, <1>2, <1>4, <2>6, EnterSound
    <2> QED BY <1>1, <2>1, <2>2, <2>4, <2>5, <2>7, Step DEF AcquireMembers
  <1> QED BY <1>3, <1>4 DEF AcquireMembers

LEMMA ListServedSound ==
  ASSUME IInv, NEW c \in Callers, ListServed(c)
  PROVE  IInv'
  <1> DEFINE now == [m \in Members |-> address[m]]
             r == [caller[c] EXCEPT !.at = "listed", !.list = now]
  <1>1. caller[c] \in Caller /\ Informed(caller[c]) /\ Needed(caller[c]) /\ caller[c].at = "listing"
    BY DEF IInv, TypeOK, ListServed
  <1>2. now \in [Members -> Address] /\ \A m \in Members : now[m] = address[m]
    BY DEF IInv, TypeOK, People
  <1>3. caller' = [caller EXCEPT ![c] = r]
    BY DEF ListServed
  <1> HIDE DEF now
  <1>4. /\ r \in Caller /\ r.at = "listed" /\ r.list = now
        /\ r.op = caller[c].op /\ r.who = caller[c].who /\ r.email = caller[c].email
        /\ r.begun = caller[c].begun /\ r.since = caller[c].since
    BY <1>1, <1>2 DEF Caller, Calling
  <1> HIDE DEF r
  <1>5. Informed(r)
    BY <1>1, <1>2, <1>4 DEF Informed, Had, Ended, Calling, Inside
  <1>6. Needed(r) /\ \A w \in Waiting : r.at \in Inside(w) <=> caller[c].at \in Inside(w)
    BY <1>1, <1>4 DEF Needed, Inside
  <1>7. Locks(c, r) /\ left' \in Budget
    BY <1>6, StaySound, LeftKept DEF ListServed
  <1> QED BY <1>3, <1>4, <1>5, <1>6, <1>7, Step DEF ListServed

\* What a list in hand says is not too old.
LEMMA ListCurrent ==
  ASSUME IInv, NEW c \in Callers, caller[c].at = "listed"
  PROVE  /\ caller[c].list \in [Members -> Address]
         /\ \A m \in Members : caller[c].list[m] \in Emails =>
              /\ Had(m, caller[c].list[m], clock - Timeout)
              /\ Had(m, caller[c].list[m], clock - Age + 1)
  <1>1. TypeOK /\ clock \in Int /\ caller[c] \in Caller /\ Informed(caller[c])
    BY DEF IInv, TypeOK
  <1>2. caller[c].since \in Int /\ clock - caller[c].since <= Timeout
    BY <1>1 DEF Caller, Informed, Calling
  <1>3. /\ clock - Timeout \in Int /\ clock - Age + 1 \in Int
        /\ clock - Timeout <= caller[c].since /\ clock - Age + 1 <= caller[c].since
    BY <1>1, <1>2, Parameters
  <1>4. caller[c].list \in [Members -> Address]
    BY <1>1 DEF Caller
  <1>5. \A m \in Members : caller[c].list[m] \in Emails =>
          Had(m, caller[c].list[m], caller[c].since)
    BY <1>1 DEF Informed
  <1>6. \A m \in Members : caller[c].list[m] \in Emails =>
          /\ Had(m, caller[c].list[m], clock - Timeout)
          /\ Had(m, caller[c].list[m], clock - Age + 1)
    BY <1>1, <1>2, <1>3, <1>5, HadBefore DEF People
  <1> QED BY <1>4, <1>6

LEMMA ListReturnsSound ==
  ASSUME IInv, NEW c \in Callers, ListReturns(c)
  PROVE  IInv'
  <1>1. caller[c].at = "listed" /\ "members" \in Waiting /\ left' \in Budget
    BY LeftKept DEF ListReturns, Waiting
  <1>2. PICK r \in Caller : /\ caller' = [caller EXCEPT ![c] = r]
                            /\ r.at \in {"done", "logins"} /\ Informed(r)
    BY <1>1, ListCurrent, UseListSound DEF ListReturns
  <1>3. \A w \in Waiting : r.at \notin Inside(w)
    BY <1>2 DEF Inside
  <1>4. Locks(c, r) /\ c \in lock["members"]
    BY <1>1, <1>3, LeaveSound DEF ListReturns, Inside
  <1>5. Moves(c, r)
    BY <1>2, <1>4 DEF Moves, Locks, ListReturns
  <1>6. Needed(r)'
    BY <1>2 DEF Needed, Inside
  <1>7. /\ caller' \in [Callers -> Caller] /\ Locked'
        /\ \A d \in Callers : Needed(caller[d])' /\ Informed(caller[d])'
    BY <1>2, <1>5, <1>6, MovesSound
  <1>8. roster'.list = caller[c].list /\ roster'.expiry = clock + TTL
    BY DEF ListReturns
  <1>9. clock \in 0..MaxTime
    BY DEF IInv, TypeOK
  <1>10. Sourced'
    <2>1. roster'.expiry - Age = clock - Timeout
      BY <1>8, <1>9, Parameters
    <2>2. \A m \in Members : roster'.list[m] \in Emails =>
            Had(m, roster'.list[m], roster'.expiry - Age)
      BY <1>1, <1>8, <2>1, ListCurrent
    <2>3. \A e \in Emails : /\ found[e].expiry <= clock + TTL
                            /\ found[e].login # None => Had(found[e].login, e, found[e].expiry - Age)
      BY DEF IInv, Sourced
    <2>4. roster'.expiry <= clock + TTL
      BY <1>8, <1>9, Parameters
    <2> QED BY <2>2, <2>3, <2>4 DEF Sourced, Had, ListReturns
  <1>11. roster' \in [list : [Members -> Address], expiry : 0..MaxTime + TTL]
    <2>1. clock + TTL \in 0..MaxTime + TTL
      BY <1>9, Parameters
    <2> QED BY <1>1, <2>1, ListCurrent DEF ListReturns
  <1>12. TypeOK'
    BY <1>1, <1>4, <1>7, <1>11 DEF IInv, TypeOK, ListReturns, Locks, Budget
  <1> QED BY <1>7, <1>10, <1>12 DEF IInv

LEMMA AcquireLoginsSound ==
  ASSUME IInv, NEW c \in Callers, AcquireLogins(c)
  PROVE  IInv'
  <1>1. caller[c].at = "logins" /\ lock["logins"] = {} /\ left' \in Budget
    BY LeftKept DEF AcquireLogins
  <1>2. \A w \in Waiting : caller[c].at \notin Inside(w)
    BY <1>1 DEF Inside
  <1>3. Informed(caller[c]) /\ caller[c].email \in Emails
    BY <1>1 DEF IInv, Informed
  <1>4. CASE Answer(c, found[caller[c].email].login) /\ UNCHANGED lock
    <2> DEFINE a == found[caller[c].email].login
    <2>1. a \in People \cup {None}
      BY <1>3 DEF IInv, TypeOK, ForgeCacheEntry, People
    <2>2. caller' = [caller EXCEPT ![c] = Ending(a)]
      BY <1>4 DEF Answer, Ending
    <2> HIDE DEF a
    <2>3. /\ Ending(a) \in Caller /\ Informed(Ending(a)) /\ Needed(Ending(a))
          /\ \A w \in Waiting : Ending(a).at \notin Inside(w)
      BY <2>1, EndingSound
    <2>4. Locks(c, Ending(a))
      BY <1>2, <1>4, <2>3, StaySound
    <2> QED BY <1>1, <2>2, <2>3, <2>4, Step DEF AcquireLogins
  <1>5. CASE /\ ~FreshLogin(caller[c].email) /\ Goes(c, "searching")
             /\ lock' = [lock EXCEPT !["logins"] = {c}]
    <2> DEFINE r == Going(c, "searching")
    <2>1. caller' = [caller EXCEPT ![c] = r]
      BY <1>5 DEF Goes, Going
    <2>2. /\ r \in Caller /\ r.at = "searching" /\ r.since = clock /\ r.email = caller[c].email
          /\ r.op = caller[c].op /\ r.who = caller[c].who /\ r.begun = caller[c].begun
      BY GoingTyped DEF IInv, Calling
    <2>3. clock \in Int /\ found[caller[c].email].expiry \in Int
      BY <1>3, Parameters DEF IInv, TypeOK, ForgeCacheEntry
    <2> HIDE DEF r
    <2>4. Informed(r)
      BY <1>1, <1>3, <2>2, <2>3, Parameters DEF Informed, Ended, Calling, Inside
    <2>5. Needed(r)
      BY <1>5, <2>2, <2>3 DEF Needed, Inside, FreshLogin
    <2>6. r.at \in Inside("logins") /\ "logins" \in Waiting
      BY <2>2 DEF Inside, Waiting
    <2>7. Locks(c, r)
      BY <1>1, <1>2, <1>5, <2>6, EnterSound
    <2> QED BY <1>1, <2>1, <2>2, <2>4, <2>5, <2>7, Step DEF AcquireLogins
  <1> QED BY <1>4, <1>5 DEF AcquireLogins

LEMMA SearchServedSound ==
  ASSUME IInv, NEW c \in Callers, SearchServed(c)
  PROVE  IInv'
  <1>1. caller[c] \in Caller /\ Informed(caller[c]) /\ Needed(caller[c])
        /\ caller[c].at = "searching"
    BY DEF IInv, TypeOK, SearchServed
  <1>2. PICK u \in IF LoginWith(caller[c].email) = {} THEN {None} ELSE LoginWith(caller[c].email) :
          caller' = [caller EXCEPT ![c] = [caller[c] EXCEPT !.at = "searched", !.match = u]]
    BY DEF SearchServed
  <1> DEFINE r == [caller[c] EXCEPT !.at = "searched", !.match = u]
  <1>3. u \in Logins \cup {None} /\ (u # None => address[u] = caller[c].email)
    BY DEF LoginWith
  <1>4. /\ r \in Caller /\ r.at = "searched" /\ r.match = u
        /\ r.op = caller[c].op /\ r.who = caller[c].who /\ r.email = caller[c].email
        /\ r.begun = caller[c].begun /\ r.since = caller[c].since
    BY <1>1, <1>3 DEF Caller, Calling, People, Address
  <1>5. caller' = [caller EXCEPT ![c] = r]
    BY <1>2
  <1> HIDE DEF r
  <1>6. Informed(r)
    BY <1>1, <1>3, <1>4 DEF Informed, Had, Ended, Calling, Inside
  <1>7. Needed(r) /\ \A w \in Waiting : r.at \in Inside(w) <=> caller[c].at \in Inside(w)
    BY <1>1, <1>4 DEF Needed, Inside
  <1>8. Locks(c, r) /\ left' \in Budget
    BY <1>7, StaySound, LeftKept DEF SearchServed
  <1> QED BY <1>4, <1>5, <1>6, <1>7, <1>8, Step DEF SearchServed

\* What a search in hand found is not too old.
LEMMA MatchCurrent ==
  ASSUME IInv, NEW c \in Callers, caller[c].at = "searched"
  PROVE  /\ caller[c].email \in Emails /\ caller[c].match \in Logins \cup {None}
         /\ caller[c].op = "user"
         /\ caller[c].match # None =>
              /\ Had(caller[c].match, caller[c].email, clock - Timeout)
              /\ Had(caller[c].match, caller[c].email, clock - Age + 1)
  <1>1. TypeOK /\ clock \in Int /\ caller[c] \in Caller /\ Informed(caller[c])
    BY DEF IInv, TypeOK
  <1>2. caller[c].since \in Int /\ clock - caller[c].since <= Timeout
    BY <1>1 DEF Caller, Informed, Calling
  <1>3. /\ clock - Timeout \in Int /\ clock - Age + 1 \in Int
        /\ clock - Timeout <= caller[c].since /\ clock - Age + 1 <= caller[c].since
    BY <1>1, <1>2, Parameters
  <1>4. /\ caller[c].email \in Emails /\ caller[c].match \in Logins \cup {None}
        /\ caller[c].op = "user"
        /\ caller[c].match # None => Had(caller[c].match, caller[c].email, caller[c].since)
    BY <1>1 DEF Informed, Inside
  <1> QED BY <1>1, <1>2, <1>3, <1>4, HadBefore DEF People

LEMMA SearchReturnsSound ==
  ASSUME IInv, NEW c \in Callers, SearchReturns(c)
  PROVE  IInv'
  <1> DEFINE e == caller[c].email
             u == caller[c].match
             new == [login |-> u, expiry |-> clock + TTL]
  <1>1. caller[c].at = "searched" /\ "logins" \in Waiting /\ left' \in Budget
    BY LeftKept DEF SearchReturns, Waiting
  <1>2. e \in Emails /\ u \in Logins \cup {None} /\ u \in People \cup {None}
        /\ (u # None => Had(u, e, clock - Timeout))
    BY <1>1, MatchCurrent DEF People
  <1>3. caller' = [caller EXCEPT ![c] = Ending(u)] /\ found' = [found EXCEPT ![e] = new]
    BY DEF SearchReturns, Answer, Ending
  <1>4. clock \in 0..MaxTime /\ found \in [Emails -> ForgeCacheEntry]
    BY DEF IInv, TypeOK
  <1>5. new \in ForgeCacheEntry /\ new.login = u /\ new.expiry = clock + TTL
    BY <1>2, <1>4, Parameters DEF ForgeCacheEntry
  <1> HIDE DEF e, u, new
  <1>6. PICK r \in Caller : /\ caller' = [caller EXCEPT ![c] = r] /\ Informed(r)
                            /\ \A w \in Waiting : r.at \notin Inside(w)
    BY <1>2, <1>3, EndingSound
  <1>7. Locks(c, r) /\ c \in lock["logins"]
    BY <1>1, <1>6, LeaveSound DEF SearchReturns, Inside
  <1>8. Moves(c, r)
    BY <1>6, <1>7 DEF Moves, Locks, SearchReturns
  <1>9. Needed(r)'
    BY <1>6 DEF Needed, Waiting
  <1>10. /\ caller' \in [Callers -> Caller] /\ Locked'
         /\ \A d \in Callers : Needed(caller[d])' /\ Informed(caller[d])'
    BY <1>6, <1>8, <1>9, MovesSound
  <1>11. found' \in [Emails -> ForgeCacheEntry] /\ found'[e] = new
         /\ \A f \in Emails : f # e => found'[f] = found[f]
    BY <1>2, <1>3, <1>4, <1>5
  <1>12. Sourced'
    <2>1. clock + TTL - Age = clock - Timeout
      BY <1>4, Parameters
    <2>2. ASSUME NEW f \in Emails
          PROVE  /\ found'[f].expiry <= clock + TTL
                 /\ found'[f].login # None => Had(found'[f].login, f, found'[f].expiry - Age)
      <3>1. CASE f = e
        BY <1>2, <1>4, <1>5, <1>11, <2>1, <3>1, Parameters
      <3>2. CASE f # e
        BY <1>11, <3>2 DEF IInv, Sourced
      <3> QED BY <3>1, <3>2
    <2>3. /\ roster.expiry <= clock + TTL
          /\ \A m \in Members : roster.list[m] \in Emails =>
               Had(m, roster.list[m], roster.expiry - Age)
      BY DEF IInv, Sourced
    <2> QED BY <2>2, <2>3 DEF Sourced, Had, SearchReturns
  <1>13. TypeOK'
    BY <1>1, <1>7, <1>10, <1>11 DEF IInv, TypeOK, SearchReturns, Locks, Budget
  <1> QED BY <1>10, <1>12, <1>13 DEF IInv

LEMMA CallFailsSound ==
  ASSUME IInv, NEW c \in Callers, CallFails(c)
  PROVE  IInv'
  <1>1. left' \in Budget
    BY Spent DEF IInv, CallFails
  <1>2. CASE caller[c].at \in {"asking", "asked"} /\ AskEnds(c, caller[c].email) /\ UNCHANGED lock
    <2>1. caller[c].email \in Address \cup {Noreply} /\ caller[c].email \notin Emails
      BY <1>2, AskedWith
    <2> QED BY <1>1, <1>2, <2>1, AskEndsSound DEF CallFails
  <1>3. ASSUME NEW w \in Waiting, caller[c].at \in Inside(w), Answer(c, None), Unlock(c, w)
        PROVE  IInv'
    <2>1. caller' = [caller EXCEPT ![c] = Ending(None)]
      BY <1>3 DEF Answer, Ending
    <2>2. Ending(None) \in Caller /\ Informed(Ending(None)) /\ Needed(Ending(None))
      BY EndingSound
    <2>3. \A v \in Waiting : Ending(None).at \notin Inside(v)
      BY EndingSound
    <2>4. Locks(c, Ending(None))
      BY <1>3, <2>3, LeaveSound
    <2> QED BY <1>1, <2>1, <2>2, <2>4, Step DEF CallFails
  <1>4. CASE caller[c].at \in {"listing", "listed"} /\ Answer(c, None) /\ Unlock(c, "members")
    BY <1>3, <1>4 DEF Waiting, Inside
  <1>5. CASE caller[c].at \in {"searching", "searched"} /\ Answer(c, None) /\ Unlock(c, "logins")
    BY <1>3, <1>5 DEF Waiting, Inside
  <1> QED BY <1>2, <1>4, <1>5 DEF CallFails

LEMMA UsersSound ==
  ASSUME IInv, Users
  PROVE  IInv'
  <1>1. Remembered /\ clock' = clock
    BY NothingForgotten DEF IInv, Users
  <1>2. Sourced'
    BY <1>1, SourcedStays DEF IInv, Users
  <1>3. ASSUME NEW c \in Callers
        PROVE  Needed(caller[c])' /\ Informed(caller[c])'
    <2>1. caller[c] \in Caller /\ TypeOK /\ Informed(caller[c]) /\ Needed(caller[c])
      BY DEF IInv, TypeOK
    <2>2. \A q \in Caller : Informed(q) => Informed(q)'
      BY <1>1, <2>1, InformedStays
    <2>3. PICK q \in Caller : q = caller[c] /\ Informed(q)'
      BY <2>1, <2>2
    <2>4. caller'[c] = q
      BY <2>3 DEF Users
    <2>5. Informed(caller[c])'
      BY <2>3, <2>4 DEF Informed, Had
    <2> QED BY <2>1, <2>5 DEF Users, Needed
  <1>4. PICK x \in People : \E a \in Address :
          /\ address' = [address EXCEPT ![x] = a]
          /\ held' = IF address[x] = None THEN held ELSE [held EXCEPT ![x][address[x]] = clock]
          /\ since' = [since EXCEPT ![x] = clock]
    BY DEF Users
  <1>5. /\ clock \in 0..MaxTime /\ clock \in -1..MaxTime
        /\ address \in [People -> Address] /\ since \in [People -> -1..MaxTime]
        /\ held \in [People -> [Emails -> -1..MaxTime]]
    BY Parameters DEF IInv, TypeOK
  <1>6. address' \in [People -> Address] /\ since' \in [People -> -1..MaxTime]
    BY <1>4, <1>5
  <1>7. held' \in [People -> [Emails -> -1..MaxTime]]
    <2>1. CASE address[x] = None
      BY <1>4, <1>5, <2>1
    <2>2. CASE address[x] # None
      <3>1. address[x] \in Emails
        BY <1>5, <2>2 DEF Address
      <3>2. [held[x] EXCEPT ![address[x]] = clock] \in [Emails -> -1..MaxTime]
        BY <1>5, <3>1
      <3>3. held' = [held EXCEPT ![x] = [held[x] EXCEPT ![address[x]] = clock]]
        BY <1>4, <2>2
      <3> QED BY <1>5, <3>2, <3>3
    <2> QED BY <2>1, <2>2
  <1>8. left' \in Budget
    BY Spent DEF IInv, Users
  <1>9. TypeOK'
    BY <1>6, <1>7, <1>8 DEF IInv, TypeOK, Users, Budget
  <1> QED BY <1>2, <1>3, <1>9 DEF IInv, Users, Locked

\* A call that may last a tick longer is not over its time afterwards.
LEMMA TickSound ==
  ASSUME IInv, Tick
  PROVE  IInv'
  <1>1. clock \in Int /\ clock' = clock + 1 /\ clock' \in 0..MaxTime
    BY Parameters DEF IInv, TypeOK, Tick
  <1>2. /\ roster.expiry \in Int /\ \A e \in Emails : found[e].expiry \in Int
    BY Parameters DEF IInv, TypeOK, ForgeCacheEntry
  <1>3. Sourced'
    BY <1>1, <1>2, Parameters DEF IInv, Sourced, Tick, Had
  <1>4. ASSUME NEW c \in Callers
        PROVE  Needed(caller[c])' /\ Informed(caller[c])'
    <2>1. caller[c] \in Caller /\ Informed(caller[c]) /\ Needed(caller[c])
          /\ caller[c].since \in Int /\ caller[c].begun \in Int
      BY DEF IInv, TypeOK, Caller
    <2>2. caller[c].at \in Inside("logins") => caller[c].email \in Emails
      BY <2>1 DEF Informed
    <2>3. Needed(caller[c])'
      BY <1>1, <1>2, <2>1, <2>2 DEF Needed, Tick
    <2>4. caller[c].at \in Calling => clock' - caller[c].since <= Timeout
      BY <1>1, <2>1, Parameters DEF Tick
    <2>5. /\ caller[c].at \in Calling => caller[c].since <= clock'
          /\ caller[c].at \notin Ended => caller[c].begun <= clock'
      BY <1>1, <2>1 DEF Informed
    <2>6. Informed(caller[c])'
      BY <2>1, <2>4, <2>5 DEF Informed, Had, Tick
    <2> QED BY <2>3, <2>6
  <1>5. TypeOK'
    BY <1>1 DEF IInv, TypeOK, Tick
  <1> QED BY <1>3, <1>4, <1>5 DEF IInv, Tick, Locked

LEMMA InitSound == Init => IInv
  <1> SUFFICES ASSUME Init PROVE IInv
    OBVIOUS
  <1>1. 0 \in 0..MaxTime /\ 0 \in 0..MaxTime + TTL
    BY Parameters
  <1>2. left \in Budget
    BY Parameters DEF Init, Budget
  <1>3. NobodyListed \in [Members -> Address] /\ \A m \in Members : NobodyListed[m] \notin Emails
    BY NamesAssumption DEF NobodyListed, Address
  <1>4. address \in [People -> Address]
    BY InitialAssumption DEF Init
  <1>5. caller \in [Callers -> Caller] /\ \A c \in Callers : caller[c].at = "idle"
    BY IdleTyped DEF Init, Idle
  <1>6. TypeOK
    <2>1. held \in [People -> [Emails -> -1..MaxTime]]
      BY Parameters DEF Init
    <2>2. roster \in [list : [Members -> Address], expiry : 0..MaxTime + TTL]
      BY <1>1, <1>3 DEF Init
    <2>3. found \in [Emails -> ForgeCacheEntry]
      BY <1>1 DEF Init, ForgeCacheEntry
    <2>4. since \in [People -> -1..MaxTime] /\ lock \in [Waiting -> SUBSET Callers]
      <3>1. -1 \in -1..MaxTime
        BY Parameters
      <3> QED BY <3>1 DEF Init
    <2> QED BY <1>1, <1>2, <1>4, <1>5, <2>1, <2>2, <2>3, <2>4 DEF Init, TypeOK, Budget
  <1>7. Locked
    BY <1>5 DEF Init, Locked, Inside
  <1>8. Sourced
    BY <1>3, Parameters DEF Init, Sourced
  <1>9. \A c \in Callers : Needed(caller[c]) /\ Informed(caller[c])
    BY <1>5 DEF Needed, Informed, Inside, Ended, Calling
  <1> QED BY <1>6, <1>7, <1>8, <1>9 DEF IInv

LEMMA NextSound ==
  ASSUME IInv, [Next]_vars
  PROVE  IInv'
  <1>1. CASE Users
    BY <1>1, UsersSound
  <1>2. CASE Tick
    BY <1>2, TickSound
  <1>3. ASSUME NEW c \in Callers,
               \/ ResolvePlaneMember(c) \/ ResolveForgeUser(c) \/ CallerSteps(c) \/ CallFails(c)
        PROVE  IInv'
    BY <1>3, ResolvePlaneMemberSound, ResolveForgeUserSound, AskServedSound, AskReturnsSound,
       AcquireMembersSound, ListServedSound, ListReturnsSound, AcquireLoginsSound,
       SearchServedSound, SearchReturnsSound, CallFailsSound DEF CallerSteps
  <1>4. CASE UNCHANGED vars
    <2>1. TypeOK'
      BY <1>4 DEF vars, IInv, TypeOK
    <2>2. Locked'
      BY <1>4 DEF vars, IInv, Locked
    <2>3. Sourced'
      BY <1>4 DEF vars, IInv, Sourced, Had
    <2>4. ASSUME NEW c \in Callers PROVE (Needed(caller[c]) /\ Informed(caller[c]))'
      <3>1. Needed(caller[c]) /\ Informed(caller[c])
        BY DEF IInv
      <3> QED BY <3>1, <1>4 DEF vars, Needed, Informed, Had
    <2> QED BY <2>1, <2>2, <2>3, <2>4 DEF IInv
  <1> QED BY <1>1, <1>2, <1>3, <1>4 DEF Next
-----------------------------------------------------------------------------
(***************************************************************************)
(* What follows.                                                           *)
(***************************************************************************)

LEMMA Invariance == Spec => []IInv
  <1> USE DEF IInv
  <1> QED BY InitSound, NextSound, PTL DEF Spec

\* Everything the resolvers keep has its type: an entry found for an address is a
\* user of the forge or nobody, and a list maps members to addresses.
THEOREM AccountsTyped == Spec => []TypeOK
  <1>1. IInv => TypeOK
    BY DEF IInv
  <1> QED BY <1>1, Invariance, PTL

\* A mutex is held by the caller inside and by nobody else, for any number of
\* callers and whatever fails (listPlaneMembers, lookupForgeByEmail).
THEOREM MutexesHeld == Spec => []MutexHeld
  <1>1. IInv => MutexHeld
    <2> SUFFICES ASSUME IInv PROVE MutexHeld
      OBVIOUS
    <2>1. ASSUME NEW w \in Waiting
          PROVE  Cardinality(lock[w]) <= 1
      <3>1. \A c, d \in lock[w] : c = d
        BY DEF IInv, Locked
      <3>2. CASE lock[w] = {}
        BY <3>2, FS_EmptySet
      <3>3. ASSUME NEW c \in lock[w]
            PROVE  Cardinality(lock[w]) <= 1
        <4>1. lock[w] = {c}
          BY <3>1
        <4> QED BY <4>1, FS_Singleton
      <3> QED BY <3>2, <3>3
    <2> QED BY <2>1 DEF IInv, Locked, MutexHeld, Waiting, Inside
  <1> QED BY <1>1, Invariance, PTL

\* Only the caller inside writes a cache, once what it held is too old.
LEMMA WrittenWhenTooOld ==
  ASSUME IInv, [Next]_vars
  PROVE  /\ roster' # roster => roster'.expiry - roster.expiry >= TTL
         /\ \A e \in Emails : found'[e] # found[e] => found'[e].expiry - found[e].expiry >= TTL
  <1>1. clock \in Int /\ roster.expiry \in Int /\ \A e \in Emails : found[e].expiry \in Int
    BY Parameters DEF IInv, TypeOK, ForgeCacheEntry
  <1>2. ASSUME NEW c \in Callers, ListReturns(c)
        PROVE  roster'.expiry - roster.expiry >= TTL /\ found' = found
    <2>1. roster.expiry <= clock
      BY <1>2 DEF IInv, Needed, Inside, ListReturns
    <2>2. roster'.expiry = clock + TTL
      BY <1>2 DEF ListReturns
    <2> QED BY <1>1, <1>2, <2>1, <2>2, Parameters DEF ListReturns
  <1>3. ASSUME NEW c \in Callers, SearchReturns(c), NEW e \in Emails, found'[e] # found[e]
        PROVE  found'[e].expiry - found[e].expiry >= TTL
    <2>1. e = caller[c].email
      BY <1>3 DEF IInv, TypeOK, SearchReturns
    <2>2. found[e].expiry <= clock
      BY <1>3, <2>1 DEF IInv, Needed, Inside, SearchReturns
    <2>3. found'[e].expiry = clock + TTL
      BY <1>3, <2>1 DEF IInv, TypeOK, SearchReturns
    <2> QED BY <1>1, <2>2, <2>3, Parameters
  <1>4. \/ roster' = roster /\ found' = found
        \/ \E c \in Callers : ListReturns(c) \/ SearchReturns(c)
    <2>1. Users \/ Tick \/ UNCHANGED vars => roster' = roster /\ found' = found
      BY DEF Users, Tick, vars
    <2>2. ASSUME NEW c \in Callers
          PROVE  ResolvePlaneMember(c) \/ ResolveForgeUser(c) => roster' = roster /\ found' = found
      BY DEF ResolvePlaneMember, ResolveForgeUser, Begins
    <2>3. ASSUME NEW c \in Callers
          PROVE  AskServed(c) \/ AskReturns(c) \/ AcquireMembers(c) \/ ListServed(c)
                   => roster' = roster /\ found' = found
      BY DEF AskServed, AskReturns, AcquireMembers, ListServed
    <2>4. ASSUME NEW c \in Callers
          PROVE  AcquireLogins(c) \/ SearchServed(c) \/ CallFails(c)
                   => roster' = roster /\ found' = found
      BY DEF AcquireLogins, SearchServed, CallFails
    <2> QED BY <2>1, <2>2, <2>3, <2>4 DEF Next, CallerSteps
  <1>5. \A c \in Callers : SearchReturns(c) => roster' = roster
    BY DEF SearchReturns
  <1> QED BY <1>2, <1>3, <1>4, <1>5

\* Callers that come together share one call, for any number of them and any times
\* (listPlaneMembers, lookupForgeByEmail).
THEOREM CallsShared == Spec => OneCallPerWindow
  <1>1. IInv /\ [Next]_vars =>
          [/\ roster' # roster /\ roster.expiry # 0 => roster'.expiry - roster.expiry >= TTL
           /\ \A e \in Emails : found'[e] # found[e] /\ found[e].expiry # 0 =>
                found'[e].expiry - found[e].expiry >= TTL]_vars
    BY WrittenWhenTooOld
  <1> QED BY <1>1, Invariance, PTL DEF Spec, OneCallPerWindow

\* A caller is moved by its own steps.
LEMMA OwnStep ==
  ASSUME IInv, [Next]_vars, NEW c \in Callers, caller[c].at \notin Ended, caller'[c] # caller[c]
  PROVE  CallerSteps(c) \/ CallFails(c)
  <1>1. caller \in [Callers -> Caller]
    BY DEF IInv, TypeOK
  <1>2. ~(Users \/ Tick \/ UNCHANGED vars)
    BY DEF Users, Tick, vars
  <1>3. PICK d \in Callers :
          ResolvePlaneMember(d) \/ ResolveForgeUser(d) \/ CallerSteps(d) \/ CallFails(d)
    BY <1>2 DEF Next
  <1>4. \E r : caller' = [caller EXCEPT ![d] = r]
    <2>1. ResolvePlaneMember(d) \/ ResolveForgeUser(d) => \E r : caller' = [caller EXCEPT ![d] = r]
      BY DEF ResolvePlaneMember, ResolveForgeUser, Begins
    <2>2. \A e : AskEnds(d, e) => \E r : caller' = [caller EXCEPT ![d] = r]
      BY DEF AskEnds, Answer, Asks
    <2>3. \A l : UseList(d, l) => \E r : caller' = [caller EXCEPT ![d] = r]
      BY DEF UseList, Answer, Asks
    <2>4. AskServed(d) \/ AskReturns(d) \/ ListServed(d) \/ ListReturns(d)
            => \E r : caller' = [caller EXCEPT ![d] = r]
      BY <2>2, <2>3 DEF AskServed, AskReturns, ListServed, ListReturns
    <2>5. AcquireMembers(d) => \E r : caller' = [caller EXCEPT ![d] = r]
      BY <2>3 DEF AcquireMembers, Goes
    <2>6. AcquireLogins(d) \/ SearchServed(d) \/ SearchReturns(d)
            => \E r : caller' = [caller EXCEPT ![d] = r]
      BY DEF AcquireLogins, SearchServed, SearchReturns, Goes, Answer
    <2>7. CallFails(d) => \E r : caller' = [caller EXCEPT ![d] = r]
      BY <2>2 DEF CallFails, Answer
    <2> QED BY <1>3, <2>1, <2>4, <2>5, <2>6, <2>7 DEF CallerSteps
  <1>5. d = c
    BY <1>1, <1>4
  <1>6. ~ResolvePlaneMember(c) /\ ~ResolveForgeUser(c)
    BY DEF ResolvePlaneMember, ResolveForgeUser, Begins
  <1> QED BY <1>3, <1>5, <1>6

\* The account a caller is answered shares an address with the one it asked for.
LEMMA AnswerCurrent ==
  ASSUME IInv, [Next]_vars, NEW c \in Callers, caller[c].at \notin Ended,
         caller'[c].at = "done", caller'[c].answer # None
  PROVE  \/ /\ caller[c].op = "member"
            /\ \E e \in Emails : /\ Had(caller[c].who, e, 0)
                                 /\ Had(caller'[c].answer, e, clock - Age + 1)
         \/ /\ caller[c].op = "user"
            /\ \E e \in Emails : /\ Had(caller[c].who, e, caller[c].begun - Age + 1)
                                 /\ Had(caller'[c].answer, e, clock - Age + 1)
  <1>1. caller \in [Callers -> Caller] /\ TypeOK /\ Informed(caller[c])
    BY DEF IInv, TypeOK
  <1>2. caller'[c] # caller[c]
    BY DEF Ended
  <1>3. CallerSteps(c) \/ CallFails(c)
    BY <1>2, OwnStep
  <1>4. ~Answer(c, None)
    <2> SUFFICES ASSUME Answer(c, None) PROVE FALSE
      OBVIOUS
    <2>1. caller' = [caller EXCEPT ![c] = Ending(None)]
      BY DEF Answer, Ending
    <2> QED BY <1>1, <2>1, EndingSound
  <1>5. ASSUME NEW w \in Waiting, NEW e \in Address \cup {Noreply}, Asks(c, w, e)
        PROVE  FALSE
    <2>1. caller' = [caller EXCEPT ![c] = Asking(c, w, e)]
      BY <1>5 DEF Asks, Asking
    <2>2. Asking(c, w, e).at = w
      BY <1>1, AskingTyped
    <2> QED BY <1>1, <2>1, <2>2 DEF Waiting
  <1>6. ASSUME NEW at \in Calling, Goes(c, at)
        PROVE  FALSE
    <2>1. caller'[c].at = at
      BY <1>1, <1>6 DEF Goes, Caller
    <2> QED BY <2>1 DEF Calling
  <1>7. ASSUME NEW e \in Address \cup {Noreply}, AskEnds(c, e)
        PROVE  FALSE
    BY <1>4, <1>5, <1>7 DEF AskEnds, Waiting
  <1>8. ASSUME NEW l \in [Members -> Address], UseList(c, l), caller[c].at \in {"members", "listed"},
               \A m \in Members : l[m] \in Emails => Had(m, l[m], clock - Age + 1)
        PROVE  /\ caller[c].op = "member"
               /\ \E e \in Emails : /\ Had(caller[c].who, e, 0)
                                    /\ Had(caller'[c].answer, e, clock - Age + 1)
    <2>1. PICK r \in Caller :
            /\ caller' = [caller EXCEPT ![c] = r]
            /\ r.at = "done" /\ r.answer # None =>
                 /\ caller[c].op = "member"
                 /\ \E e \in Emails : Had(caller[c].who, e, 0) /\ Had(r.answer, e, clock - Age + 1)
      BY <1>8, UseListSound
    <2>2. caller'[c] = r
      BY <1>1, <2>1
    <2> QED BY <2>1, <2>2
  <1>9. CASE AskServed(c)
    <2>1. caller'[c].at = "asked"
      BY <1>1, <1>9 DEF AskServed, Caller
    <2> QED BY <2>1
  <1>10. CASE AskReturns(c)
    <2>1. caller[c].email \in Address \cup {Noreply} /\ caller[c].match \in Address
      BY <1>1, <1>10 DEF AskReturns, Informed, Caller
    <2> QED BY <1>7, <1>10, <2>1 DEF AskReturns
  <1>11. CASE AcquireMembers(c)
    <2>1. FreshRoster /\ UseList(c, roster.list)
      BY <1>6, <1>11 DEF AcquireMembers, Calling
    <2> QED BY <1>8, <1>11, <2>1, RosterCurrent DEF AcquireMembers
  <1>12. CASE ListServed(c)
    <2>1. caller'[c].at = "listed"
      BY <1>1, <1>12 DEF ListServed, Caller
    <2> QED BY <2>1
  <1>13. CASE ListReturns(c)
    BY <1>8, <1>13, ListCurrent DEF ListReturns
  <1>14. CASE AcquireLogins(c)
    <2> DEFINE e == caller[c].email
    <2>1. FreshLogin(e) /\ Answer(c, found[e].login)
      BY <1>6, <1>14 DEF AcquireLogins, Calling
    <2>2. caller[c].op = "user" /\ e \in Emails /\ Had(caller[c].who, e, caller[c].begun - Age + 1)
      BY <1>1, <1>14 DEF AcquireLogins, Informed
    <2>3. caller'[c].answer = found[e].login
      <3>1. caller' = [caller EXCEPT ![c] = Ending(found[e].login)]
        BY <2>1 DEF Answer, Ending
      <3>2. found[e].login \in People \cup {None}
        BY <1>1, <2>2 DEF TypeOK, ForgeCacheEntry, People
      <3> QED BY <1>1, <3>1, <3>2, EndingSound
    <2>4. found[e].login # None
      BY <2>3
    <2>5. Had(found[e].login, e, found[e].expiry - Age) /\ found[e].login \in People
      BY <1>1, <2>2, <2>4 DEF IInv, Sourced, TypeOK, ForgeCacheEntry, People
    <2>6. clock \in Int /\ found[e].expiry \in Int
      BY <1>1, <2>2, Parameters DEF TypeOK, ForgeCacheEntry
    <2>7. /\ found[e].expiry - Age \in Int /\ clock - Age + 1 \in Int
          /\ clock - Age + 1 <= found[e].expiry - Age
      BY <2>1, <2>6, Parameters DEF FreshLogin
    <2>8. Had(found[e].login, e, clock - Age + 1)
      BY <1>1, <2>2, <2>5, <2>7, HadBefore
    <2> QED BY <2>2, <2>3, <2>8
  <1>15. CASE SearchServed(c)
    <2>1. caller'[c].at = "searched"
      BY <1>1, <1>15 DEF SearchServed, Caller
    <2> QED BY <2>1
  <1>16. CASE SearchReturns(c)
    <2>1. caller[c].op = "user" /\ caller[c].email \in Emails
          /\ Had(caller[c].who, caller[c].email, caller[c].begun - Age + 1)
      BY <1>1, <1>16 DEF SearchReturns, Informed, Inside
    <2>2. caller'[c].answer = caller[c].match
      <3>1. caller' = [caller EXCEPT ![c] = Ending(caller[c].match)]
        BY <1>16 DEF SearchReturns, Answer, Ending
      <3>2. caller[c].match \in People \cup {None}
        BY <1>16, MatchCurrent DEF SearchReturns, People
      <3> QED BY <1>1, <3>1, <3>2, EndingSound
    <2>3. Had(caller[c].match, caller[c].email, clock - Age + 1)
      BY <1>16, <2>2, MatchCurrent DEF SearchReturns
    <2> QED BY <2>1, <2>2, <2>3
  <1>17. CASE CallFails(c)
    <2>1. caller[c].email \in Address \cup {Noreply}
      BY <1>1 DEF Caller
    <2> QED BY <1>4, <1>7, <1>17, <2>1 DEF CallFails
  <1> QED BY <1>3, <1>9, <1>10, <1>11, <1>12, <1>13, <1>14, <1>15, <1>16, <1>17 DEF CallerSteps

\* A forge user is never taken for a member with whom it had no address in common
\* within a time-to-live and a call (ResolvePlaneMember).
THEOREM MembersCurrent == Spec => MemberCurrent
  <1>1. IInv /\ [Next]_vars =>
          [\A c \in Callers : Ends(c, "member") /\ caller'[c].answer # None =>
             \E e \in Emails : /\ Had(caller[c].who, e, 0)
                               /\ Had(caller'[c].answer, e, clock - Age + 1)]_vars
    BY AnswerCurrent DEF Ends
  <1> QED BY <1>1, Invariance, PTL DEF Spec, MemberCurrent

\* Nor a member for a stranger on the forge, although its address was read before the
\* search waited for its mutex (ResolveForgeUser).
THEOREM LoginsCurrent == Spec => LoginCurrent
  <1>1. IInv /\ [Next]_vars =>
          [\A c \in Callers : Ends(c, "user") /\ caller'[c].answer # None =>
             \E e \in Emails : /\ Had(caller[c].who, e, caller[c].begun - Age + 1)
                               /\ Had(caller'[c].answer, e, clock - Age + 1)]_vars
    BY AnswerCurrent DEF Ends
  <1> QED BY <1>1, Invariance, PTL DEF Spec, LoginCurrent
-----------------------------------------------------------------------------
(***************************************************************************)
(* Who is not found.                                                       *)
(***************************************************************************)

\* A list made at time t or after shows every address a member had before.
Shows(l, t) == \A m \in Members : since[m] < t => l[m] = address[m]

\* If nobody was found with address e at time t or after, nobody had it before.
Searched(u, e, t) == u = None => \A v \in Logins : address[v] = e => since[v] >= t

\* An account whose address nobody changed has had none.
NotSeen(x) == address[x] = None \/ since[x] # -1

\* What a caller makes of the accounts' addresses; who has none when asked for had
\* none to be found.
Knows(r) ==
  /\ r.at = "asked" /\ r.match = None => NotSeen(r.who)
  /\ r.at = "listed" => Shows(r.list, r.since)
  /\ r.at = "searched" => Searched(r.match, r.email, r.since)
  /\ r.at \in Inside("logins") \cup {"logins"} =>
       (since[r.who] <= r.begun - Age => r.email = address[r.who])

\* Who goes on with the placeholder had no address to be found, if asking did not fail.
Asked(r) ==
  r.at \in Inside("members") \cup {"members"} /\ r.op = "member" /\ r.email = Noreply =>
    NotSeen(r.who)

Complete ==
  /\ \A x \in People, e \in Emails : since[x] = -1 => held[x][e] = -1
  /\ Shows(roster.list, roster.expiry - Age)
  /\ \A e \in Emails : Searched(found[e].login, e, found[e].expiry - Age)
  /\ \A c \in Callers : Knows(caller[c])
  /\ left.faults = MaxFaults => \A c \in Callers : Asked(caller[c])

\* One caller moves, and what it stores is complete.
LEMMA KnowsMoves ==
  ASSUME IInv, Complete, NEW c \in Callers, NEW r, caller' = [caller EXCEPT ![c] = r],
         UNCHANGED <<address, since, held>>, Knows(r),
         left'.faults = MaxFaults => left.faults = MaxFaults /\ Asked(r),
         Shows(roster'.list, roster'.expiry - Age),
         \A e \in Emails : Searched(found'[e].login, e, found'[e].expiry - Age)
  PROVE  Complete'
  <1>1. caller'[c] = r /\ \A d \in Callers : d # c => caller'[d] = caller[d]
    BY DEF IInv, TypeOK
  <1>2. \A d \in Callers : Knows(caller[d])'
    BY <1>1 DEF Complete, Knows, Shows, Searched, NotSeen
  <1>3. left'.faults = MaxFaults => \A d \in Callers : Asked(caller[d])'
    BY <1>1 DEF Complete, Asked, NotSeen
  <1>4. Shows(roster.list, roster.expiry - Age)'
    BY DEF Shows
  <1>5. \A e \in Emails : Searched(found[e].login, e, found[e].expiry - Age)'
    BY DEF Searched
  <1> QED BY <1>2, <1>3, <1>4, <1>5 DEF Complete

\* It may store nothing.
LEMMA KnowsOn ==
  ASSUME IInv, Complete, NEW c \in Callers, NEW r, caller' = [caller EXCEPT ![c] = r],
         UNCHANGED <<address, since, held, roster, found>>, Knows(r),
         left'.faults = MaxFaults => left.faults = MaxFaults /\ Asked(r)
  PROVE  Complete'
  BY KnowsMoves DEF Complete

\* A caller that has ended knows nothing.
LEMMA EndingKnows ==
  ASSUME NEW a \in People \cup {None}
  PROVE  Knows(Ending(a)) /\ Asked(Ending(a))
  <1>1. Ending(a).at = "done"
    BY EndingSound
  <1> QED BY <1>1 DEF Knows, Asked, Inside

LEMMA BeginsComplete ==
  ASSUME IInv, Complete, NEW c \in Callers, NEW r, Begins(c, r), Knows(r), Asked(r)
  PROVE  Complete'
  <1>1. left'.faults = left.faults
    BY DEF Begins, IInv, TypeOK
  <1> QED BY <1>1, KnowsOn DEF Begins

LEMMA ResolvePlaneMemberComplete ==
  ASSUME IInv, Complete, NEW c \in Callers, ResolvePlaneMember(c)
  PROVE  Complete'
  <1>1. PICK u \in Logins, e \in {Noreply, None} \cup Emails :
          LET r == [Idle EXCEPT !.op = "member", !.who = u, !.email = e]
          IN \/ u \in DOMAIN Override
                /\ Begins(c, [Idle EXCEPT !.at = "done", !.answer = Override[u]])
             \/ e \in {Noreply, None} /\ Begins(c, [r EXCEPT !.at = "asking", !.since = clock])
             \/ e \in Emails /\ Had(u, e, 0) /\ Begins(c, [r EXCEPT !.at = "members"])
    BY DEF ResolvePlaneMember
  <1> DEFINE r == [Idle EXCEPT !.op = "member", !.who = u, !.email = e]
             p == [r EXCEPT !.at = "asking", !.since = clock]
             q == [r EXCEPT !.at = "members"]
  <1>2. p.at = "asking" /\ q.at = "members" /\ q.email = e
    BY DEF Idle
  <1>3. e \in Emails => e # Noreply
    BY NamesAssumption
  <1> HIDE DEF p, q
  <1>4. CASE u \in DOMAIN Override /\ Begins(c, Ending(Override[u]))
    <2>1. Override[u] \in People \cup {None}
      BY <1>4, OverrideAssumption DEF People
    <2> QED BY <1>4, <2>1, EndingKnows, BeginsComplete
  <1>5. CASE Begins(c, p)
    BY <1>2, <1>5, BeginsComplete DEF Knows, Asked, Inside
  <1>6. CASE e \in Emails /\ Begins(c, q)
    BY <1>2, <1>3, <1>6, BeginsComplete DEF Knows, Asked, Inside
  <1> QED BY <1>1, <1>4, <1>5, <1>6 DEF p, q, Ending

LEMMA ResolveForgeUserComplete ==
  ASSUME IInv, Complete, NEW c \in Callers, ResolveForgeUser(c)
  PROVE  Complete'
  <1>1. PICK m \in Members :
          LET r == [Idle EXCEPT !.op = "user", !.who = m, !.begun = clock]
          IN \/ \E u \in DOMAIN Override : Begins(c, [Idle EXCEPT !.at = "done", !.answer = u])
             \/ Begins(c, [r EXCEPT !.at = "members"])
    BY DEF ResolveForgeUser
  <1> DEFINE r == [Idle EXCEPT !.op = "user", !.who = m, !.begun = clock]
             q == [r EXCEPT !.at = "members"]
  <1>2. q.at = "members" /\ q.op = "user"
    BY DEF Idle
  <1> HIDE DEF q
  <1>3. ASSUME NEW u \in DOMAIN Override, Begins(c, Ending(u))
        PROVE  Complete'
    <2>1. u \in People \cup {None}
      BY OverrideAssumption DEF People
    <2> QED BY <1>3, <2>1, EndingKnows, BeginsComplete
  <1>4. CASE Begins(c, q)
    BY <1>2, <1>4, BeginsComplete DEF Knows, Asked, Inside
  <1> QED BY <1>1, <1>3, <1>4 DEF q, Ending

\* Whoever has no address when asked for has not been given one before.
LEMMA AskServedComplete ==
  ASSUME IInv, Complete, NEW c \in Callers, AskServed(c)
  PROVE  Complete'
  <1> DEFINE r == [caller[c] EXCEPT !.at = "asked", !.match = address[caller[c].who]]
  <1>1. caller[c] \in Caller
    BY DEF IInv, TypeOK
  <1>2. r.at = "asked" /\ r.match = address[caller[c].who] /\ r.who = caller[c].who
        /\ caller' = [caller EXCEPT ![c] = r]
    BY <1>1 DEF Caller, AskServed
  <1> HIDE DEF r
  <1>3. Knows(r) /\ Asked(r)
    BY <1>2 DEF Knows, Asked, Inside, NotSeen
  <1> QED BY <1>2, <1>3, KnowsOn DEF AskServed

LEMMA AskEndsComplete ==
  ASSUME IInv, Complete, NEW c \in Callers, caller[c].at \in {"asking", "asked"},
         NEW e \in Address \cup {Noreply}, AskEnds(c, e),
         UNCHANGED <<address, since, held, roster, found>>,
         left'.faults = MaxFaults => left.faults = MaxFaults /\ (e = Noreply => NotSeen(caller[c].who))
  PROVE  Complete'
  <1>1. CASE e = None
    <2>1. caller' = [caller EXCEPT ![c] = Ending(None)]
      BY <1>1 DEF AskEnds, Answer, Ending
    <2>2. Knows(Ending(None)) /\ Asked(Ending(None))
      BY EndingKnows
    <2> QED BY <2>1, <2>2, KnowsOn
  <1>2. CASE e # None
    <2> DEFINE r == Asking(c, "members", e)
    <2>1. r.at = "members" /\ r.email = e /\ r.who = caller[c].who
      BY AskingTyped DEF IInv, Waiting
    <2>2. caller' = [caller EXCEPT ![c] = r]
      BY <1>2 DEF AskEnds, Asks, Asking
    <2> HIDE DEF r
    <2>3. Knows(r) /\ ((e = Noreply => NotSeen(caller[c].who)) => Asked(r))
      BY <2>1 DEF Knows, Asked, Inside
    <2> QED BY <2>2, <2>3, KnowsOn
  <1> QED BY <1>1, <1>2

LEMMA AskReturnsComplete ==
  ASSUME IInv, Complete, NEW c \in Callers, AskReturns(c)
  PROVE  Complete'
  <1> DEFINE e == IF caller[c].match # None THEN caller[c].match ELSE caller[c].email
  <1>1. caller[c].at = "asked" /\ AskEnds(c, e) /\ left' = left
    BY DEF AskReturns
  <1>2. Informed(caller[c])
    BY DEF IInv
  <1>3. e \in Address \cup {Noreply}
    BY <1>1, <1>2, AskedWith DEF Informed
  <1>4. e = Noreply => caller[c].match = None
    <2>1. Noreply \notin Address
      BY NamesAssumption DEF Address, None, Noreply
    <2> QED BY <1>1, <1>2, <2>1 DEF Informed
  <1>5. e = Noreply => NotSeen(caller[c].who)
    BY <1>1, <1>4 DEF Complete, Knows
  <1> HIDE DEF e
  <1> QED BY <1>1, <1>3, <1>5, AskEndsComplete DEF AskReturns

\* What a list that is not too old is used for.
LEMMA UseListComplete ==
  ASSUME IInv, Complete, NEW c \in Callers, caller[c].at \in {"members", "listed"},
         NEW l \in [Members -> Address], NEW t \in Int, clock - Age < t, Shows(l, t), UseList(c, l)
  PROVE  \E r : caller' = [caller EXCEPT ![c] = r] /\ Knows(r) /\ Asked(r)
  <1>1. TypeOK /\ Informed(caller[c]) /\ clock \in Int /\ caller[c].begun \in Int
    BY DEF IInv, TypeOK, Caller
  <1>2. ASSUME NEW a \in People \cup {None}, Answer(c, a)
        PROVE  \E r : caller' = [caller EXCEPT ![c] = r] /\ Knows(r) /\ Asked(r)
    <2>1. caller' = [caller EXCEPT ![c] = Ending(a)]
      BY <1>2 DEF Answer, Ending
    <2> QED BY <2>1, EndingKnows
  <1>3. ASSUME caller[c].op = "user", Asks(c, "logins", l[caller[c].who])
        PROVE  \E r : caller' = [caller EXCEPT ![c] = r] /\ Knows(r) /\ Asked(r)
    <2> DEFINE who == caller[c].who
               r == Asking(c, "logins", l[who])
    <2>1. who \in Members /\ caller[c].begun <= clock
      BY <1>1, <1>3 DEF Informed, Ended
    <2>2. l[who] \in Address \cup {Noreply} /\ "logins" \in Waiting
      BY <2>1 DEF Waiting
    <2>3. /\ r.at = "logins" /\ r.email = l[who] /\ r.who = who /\ r.begun = caller[c].begun
      BY <1>1, <2>2, AskingTyped
    <2>4. caller' = [caller EXCEPT ![c] = r]
      BY <1>3 DEF Asks, Asking
    <2> HIDE DEF r, who
    <2>5. since[who] \in Int
      BY <1>1, <2>1 DEF TypeOK, People
    <2>6. since[who] <= r.begun - Age => since[who] < t
      BY <1>1, <2>1, <2>3, <2>5, Parameters
    <2>7. Knows(r) /\ Asked(r)
      BY <2>1, <2>3, <2>6 DEF Knows, Asked, Inside, Shows
    <2> QED BY <2>4, <2>7
  <1> QED BY <1>2, <1>3 DEF UseList, MemberWith, People

\* A fresh list shows what was so an age ago.
LEMMA RosterShows ==
  ASSUME IInv, Complete, FreshRoster
  PROVE  /\ roster.list \in [Members -> Address] /\ roster.expiry - Age \in Int
         /\ clock - Age < roster.expiry - Age /\ Shows(roster.list, roster.expiry - Age)
  <1>1. clock \in Int /\ roster.expiry \in Int
    BY Parameters DEF IInv, TypeOK
  <1> QED BY <1>1, Parameters DEF IInv, TypeOK, Complete, FreshRoster

LEMMA AcquireMembersComplete ==
  ASSUME IInv, Complete, NEW c \in Callers, AcquireMembers(c)
  PROVE  Complete'
  <1>1. caller[c].at = "members"
    BY DEF AcquireMembers
  <1>2. CASE FreshRoster /\ UseList(c, roster.list)
    <2>1. PICK r : caller' = [caller EXCEPT ![c] = r] /\ Knows(r) /\ Asked(r)
      BY <1>1, <1>2, RosterShows, UseListComplete
    <2> QED BY <2>1, KnowsOn DEF AcquireMembers
  <1>3. CASE Goes(c, "listing")
    <2> DEFINE r == Going(c, "listing")
    <2>1. caller' = [caller EXCEPT ![c] = r]
      BY <1>3 DEF Goes, Going
    <2>2. /\ r.at = "listing" /\ r.email = caller[c].email /\ r.op = caller[c].op
          /\ r.who = caller[c].who
      BY GoingTyped DEF IInv, Calling
    <2> HIDE DEF r
    <2>3. Knows(r) /\ (Asked(caller[c]) => Asked(r))
      BY <1>1, <2>2 DEF Knows, Asked, Inside
    <2>4. left.faults = MaxFaults => Asked(caller[c])
      BY DEF Complete
    <2> QED BY <2>1, <2>3, <2>4, KnowsOn DEF AcquireMembers
  <1> QED BY <1>2, <1>3 DEF AcquireMembers

\* A list shows every member's address of now.
LEMMA ListServedComplete ==
  ASSUME IInv, Complete, NEW c \in Callers, ListServed(c)
  PROVE  Complete'
  <1> DEFINE now == [m \in Members |-> address[m]]
             r == [caller[c] EXCEPT !.at = "listed", !.list = now]
  <1>1. caller[c] \in Caller /\ caller[c].at = "listing"
    BY DEF IInv, TypeOK, ListServed
  <1>2. /\ r.at = "listed" /\ r.list = now /\ r.op = caller[c].op
        /\ r.who = caller[c].who /\ r.email = caller[c].email
    BY <1>1 DEF Caller
  <1>3. caller' = [caller EXCEPT ![c] = r]
    BY DEF ListServed
  <1>4. Shows(now, r.since)
    BY DEF Shows
  <1> HIDE DEF r, now
  <1>5. Knows(r) /\ (Asked(caller[c]) => Asked(r))
    BY <1>1, <1>2, <1>4 DEF Knows, Asked, Inside
  <1>6. left.faults = MaxFaults => Asked(caller[c])
    BY DEF Complete
  <1> QED BY <1>3, <1>5, <1>6, KnowsOn DEF ListServed

\* A list comes at most a call after it was made.
LEMMA ListShows ==
  ASSUME IInv, Complete, NEW c \in Callers, caller[c].at = "listed"
  PROVE  /\ caller[c].list \in [Members -> Address] /\ clock \in Int
         /\ caller[c].since \in Int /\ clock - Timeout <= caller[c].since
         /\ clock - Age < caller[c].since /\ Shows(caller[c].list, caller[c].since)
  <1>1. caller[c] \in Caller /\ clock \in Int /\ Informed(caller[c]) /\ Knows(caller[c])
    BY DEF IInv, TypeOK, Complete
  <1>2. caller[c].list \in [Members -> Address] /\ caller[c].since \in Int
        /\ clock - caller[c].since <= Timeout
    BY <1>1 DEF Caller, Informed, Calling
  <1> QED BY <1>1, <1>2, Parameters DEF Knows

LEMMA ListReturnsComplete ==
  ASSUME IInv, Complete, NEW c \in Callers, ListReturns(c)
  PROVE  Complete'
  <1>1. caller[c].at = "listed" /\ UseList(c, caller[c].list)
        /\ roster' = [list |-> caller[c].list, expiry |-> clock + TTL]
    BY DEF ListReturns
  <1>2. PICK r : caller' = [caller EXCEPT ![c] = r] /\ Knows(r) /\ Asked(r)
    BY <1>1, ListShows, UseListComplete
  <1>3. Shows(roster'.list, roster'.expiry - Age)
    <2>1. roster'.list = caller[c].list /\ roster'.expiry = clock + TTL
      BY <1>1
    <2>2. roster'.expiry - Age <= caller[c].since /\ roster'.expiry - Age \in Int
      BY <1>1, <2>1, ListShows, Parameters
    <2>3. \A m \in Members : since[m] \in Int
      BY DEF IInv, TypeOK, People
    <2>4. \A m \in Members : since[m] < roster'.expiry - Age => since[m] < caller[c].since
      BY <1>1, <2>2, <2>3, ListShows
    <2> QED BY <1>1, <2>1, <2>4, ListShows DEF Shows
  <1>4. UNCHANGED <<address, since, held, found, left>>
    BY DEF ListReturns
  <1> QED BY <1>2, <1>3, <1>4, KnowsMoves DEF Complete

LEMMA AcquireLoginsComplete ==
  ASSUME IInv, Complete, NEW c \in Callers, AcquireLogins(c)
  PROVE  Complete'
  <1>1. caller[c].at = "logins" /\ caller[c].email \in Emails /\ Knows(caller[c])
    BY DEF AcquireLogins, IInv, Informed, Complete
  <1>2. CASE Answer(c, found[caller[c].email].login)
    <2> DEFINE a == found[caller[c].email].login
    <2>1. a \in People \cup {None}
      BY <1>1 DEF IInv, TypeOK, ForgeCacheEntry, People
    <2>2. caller' = [caller EXCEPT ![c] = Ending(a)]
      BY <1>2 DEF Answer, Ending
    <2> QED BY <2>1, <2>2, EndingKnows, KnowsOn DEF AcquireLogins
  <1>3. CASE Goes(c, "searching")
    <2> DEFINE r == Going(c, "searching")
    <2>1. caller' = [caller EXCEPT ![c] = r]
      BY <1>3 DEF Goes, Going
    <2>2. /\ r.at = "searching" /\ r.email = caller[c].email /\ r.op = caller[c].op
          /\ r.who = caller[c].who /\ r.begun = caller[c].begun
      BY GoingTyped DEF IInv, Calling
    <2> HIDE DEF r
    <2>3. Knows(r) /\ Asked(r)
      BY <1>1, <2>2 DEF Knows, Asked, Inside
    <2> QED BY <2>1, <2>3, KnowsOn DEF AcquireLogins
  <1> QED BY <1>2, <1>3 DEF AcquireLogins

\* A search finds somebody if there is somebody.
LEMMA SearchServedComplete ==
  ASSUME IInv, Complete, NEW c \in Callers, SearchServed(c)
  PROVE  Complete'
  <1>1. PICK u \in IF LoginWith(caller[c].email) = {} THEN {None} ELSE LoginWith(caller[c].email) :
          caller' = [caller EXCEPT ![c] = [caller[c] EXCEPT !.at = "searched", !.match = u]]
    BY DEF SearchServed
  <1> DEFINE r == [caller[c] EXCEPT !.at = "searched", !.match = u]
  <1>2. caller[c] \in Caller /\ caller[c].at = "searching" /\ Knows(caller[c])
    BY DEF IInv, TypeOK, SearchServed, Complete
  <1>3. /\ r.at = "searched" /\ r.match = u /\ r.email = caller[c].email
        /\ r.who = caller[c].who /\ r.begun = caller[c].begun
    BY <1>2 DEF Caller
  <1>4. caller' = [caller EXCEPT ![c] = r]
    BY <1>1
  <1> HIDE DEF r
  <1>5. u = None => LoginWith(caller[c].email) = {}
    BY <1>1, NamesAssumption DEF LoginWith, People
  <1>6. Searched(r.match, r.email, r.since)
    BY <1>3, <1>5 DEF Searched, LoginWith
  <1>7. Knows(r) /\ Asked(r)
    BY <1>2, <1>3, <1>6 DEF Knows, Asked, Inside
  <1> QED BY <1>4, <1>7, KnowsOn DEF SearchServed

\* What was searched for comes at most a call after it was looked at.
LEMMA SearchKnows ==
  ASSUME IInv, Complete, NEW c \in Callers, caller[c].at = "searched"
  PROVE  /\ caller[c].since \in Int /\ clock \in Int /\ clock - Timeout <= caller[c].since
         /\ Searched(caller[c].match, caller[c].email, caller[c].since)
  <1>1. caller[c] \in Caller /\ clock \in Int /\ Informed(caller[c]) /\ Knows(caller[c])
    BY DEF IInv, TypeOK, Complete
  <1>2. caller[c].since \in Int /\ clock - caller[c].since <= Timeout
    BY <1>1 DEF Caller, Informed, Calling
  <1> QED BY <1>1, <1>2, Parameters DEF Knows

LEMMA SearchReturnsComplete ==
  ASSUME IInv, Complete, NEW c \in Callers, SearchReturns(c)
  PROVE  Complete'
  <1> DEFINE e == caller[c].email
             a == caller[c].match
             f == [login |-> a, expiry |-> clock + TTL]
  <1>1. caller[c].at = "searched" /\ e \in Emails /\ a \in People \cup {None}
    BY DEF SearchReturns, IInv, Informed, People, Inside
  <1>2. caller' = [caller EXCEPT ![c] = Ending(a)]
    BY DEF SearchReturns, Answer, Ending
  <1>3. found' = [found EXCEPT ![e] = f] /\ f.login = a /\ f.expiry = clock + TTL
    BY DEF SearchReturns
  <1>4. Searched(a, e, caller[c].since) /\ caller[c].since \in Int
        /\ f.expiry - Age <= caller[c].since /\ f.expiry - Age \in Int
    BY <1>1, <1>3, SearchKnows, Parameters
  <1> HIDE DEF f
  <1>5. Searched(f.login, e, f.expiry - Age)
    <2>1. \A v \in Logins : since[v] \in Int
      BY DEF IInv, TypeOK, People
    <2> QED BY <1>3, <1>4, <2>1 DEF Searched
  <1>6. \A d \in Emails : Searched(found'[d].login, d, found'[d].expiry - Age)
    <2>1. found'[e] = f /\ \A d \in Emails : d # e => found'[d] = found[d]
      BY <1>1, <1>3 DEF IInv, TypeOK
    <2> HIDE DEF e
    <2>2. ASSUME NEW d \in Emails PROVE Searched(found'[d].login, d, found'[d].expiry - Age)
      <3>1. CASE d = e
        BY <1>5, <2>1, <3>1
      <3>2. CASE d # e
        BY <2>1, <3>2 DEF Complete
      <3> QED BY <3>1, <3>2
    <2> QED BY <2>2
  <1>7. UNCHANGED <<address, since, held, roster, left>>
    BY DEF SearchReturns
  <1> QED BY <1>1, <1>2, <1>6, <1>7, EndingKnows, KnowsMoves DEF Complete

\* After a failure nothing is said of who comes without an address.
LEMMA CallFailsComplete ==
  ASSUME IInv, Complete, NEW c \in Callers, CallFails(c)
  PROVE  Complete'
  <1>1. left'.faults # MaxFaults
    <2>1. left \in Budget
      BY DEF IInv, TypeOK, Budget
    <2>2. left.faults \in 0..MaxFaults /\ left'.faults = left.faults - 1
      BY <2>1 DEF CallFails, Budget
    <2> QED BY <2>2, Parameters
  <1>2. UNCHANGED <<address, since, held, roster, found>>
    BY DEF CallFails
  <1>3. CASE caller[c].at \in {"asking", "asked"} /\ AskEnds(c, caller[c].email)
    BY <1>1, <1>2, <1>3, AskedWith, AskEndsComplete
  <1>4. CASE Answer(c, None)
    <2>1. caller' = [caller EXCEPT ![c] = Ending(None)]
      BY <1>4 DEF Answer, Ending
    <2> QED BY <1>1, <1>2, <2>1, EndingKnows, KnowsOn
  <1> QED BY <1>3, <1>4 DEF CallFails

\* An address that changes does so now; no list or search was made after that.
LEMMA UsersComplete ==
  ASSUME IInv, Complete, Users
  PROVE  Complete'
  <1>1. PICK x \in People : \E a \in Address :
          /\ address' = [address EXCEPT ![x] = a]
          /\ held' = IF address[x] = None THEN held ELSE [held EXCEPT ![x][address[x]] = clock]
          /\ since' = [since EXCEPT ![x] = clock]
    BY DEF Users
  <1>2. /\ clock \in Int /\ clock >= 0 /\ address \in [People -> Address]
        /\ since \in [People -> -1..MaxTime] /\ held \in [People -> [Emails -> -1..MaxTime]]
    BY DEF IInv, TypeOK
  <1>3. /\ since'[x] = clock
        /\ \A y \in People : y # x =>
             since'[y] = since[y] /\ address'[y] = address[y] /\ held'[y] = held[y]
    BY <1>1, <1>2
  <1>4. UNCHANGED <<roster, found, caller>>
    BY DEF Users
  <1>5. left'.faults = left.faults
    BY DEF Users, IInv, TypeOK
  <1>6. ASSUME NEW l, NEW t \in Int, t <= clock, Shows(l, t)
        PROVE  \A m \in Members : since'[m] < t => l[m] = address'[m]
    BY <1>2, <1>3, <1>6 DEF Shows, People
  <1>7. ASSUME NEW u, NEW e, NEW t \in Int, t <= clock, Searched(u, e, t)
        PROVE  u = None => \A v \in Logins : address'[v] = e => since'[v] >= t
    BY <1>2, <1>3, <1>7 DEF Searched, People
  <1>8. \A y \in People : NotSeen(y) => NotSeen(y)'
    BY <1>2, <1>3 DEF NotSeen
  <1>9. ASSUME NEW c \in Callers
        PROVE  Knows(caller[c])' /\ (Asked(caller[c]) => Asked(caller[c])')
    <2> DEFINE r == caller[c]
    <2>1. r \in Caller /\ Informed(r) /\ Knows(r) /\ r.since \in Int /\ r.begun \in Int /\ r' = r
      BY <1>4 DEF IInv, TypeOK, Complete, Caller
    <2>2. r.at \notin Ended => r.who \in People /\ r.begun <= clock
      BY <2>1 DEF Informed, People
    <2>3. r.at \in Calling => r.since <= clock
      BY <2>1 DEF Informed
    <2>4. r.at = "listed" => \A m \in Members : since'[m] < r.since => r.list[m] = address'[m]
      BY <1>6, <2>1, <2>3 DEF Knows, Calling
    <2>5. r.at = "searched" =>
            (r.match = None => \A v \in Logins : address'[v] = r.email => since'[v] >= r.since)
      BY <1>7, <2>1, <2>3 DEF Knows, Calling
    <2>6. r.at \in Inside("logins") \cup {"logins"} =>
            (since'[r.who] <= r.begun - Age => r.email = address'[r.who])
      BY <1>2, <1>3, <2>1, <2>2, Parameters DEF Knows, Inside, Ended
    <2>7. ASSUME r.at \notin Ended, NotSeen(r.who)
          PROVE  NotSeen(r.who)'
      <3>1. r.who' = r.who /\ r.who \in People
        BY <2>1, <2>2, <2>7
      <3> HIDE DEF r
      <3> QED BY <1>2, <1>3, <2>7, <3>1 DEF NotSeen
    <2>8. r.at = "asked" \/ r.at \in Inside("members") \cup {"members"} => r.at \notin Ended
      BY DEF Inside, Ended
    <2>9. r.at = "asked" /\ r.match = None => NotSeen(r.who)'
      BY <2>1, <2>7, <2>8 DEF Knows
    <2>10. Asked(r) => (r.at \in Inside("members") \cup {"members"} /\ r.op = "member"
                          /\ r.email = Noreply => NotSeen(r.who)')
      BY <2>7, <2>8 DEF Asked
    <2> QED BY <1>4, <2>4, <2>5, <2>6, <2>9, <2>10 DEF Knows, Asked, Shows, Searched, NotSeen
  <1>10. \A y \in People, e \in Emails : since'[y] = -1 => held'[y][e] = -1
    BY <1>2, <1>3 DEF Complete
  <1>11. Shows(roster.list, roster.expiry - Age)'
    <2>1. roster.expiry - Age \in Int /\ roster.expiry - Age <= clock
      BY <1>2, Parameters DEF IInv, TypeOK, Sourced
    <2> QED BY <1>4, <1>6, <2>1 DEF Complete, Shows
  <1>12. ASSUME NEW e \in Emails
         PROVE  Searched(found[e].login, e, found[e].expiry - Age)'
    <2>1. found[e].expiry - Age \in Int /\ found[e].expiry - Age <= clock
      BY <1>2, Parameters DEF IInv, TypeOK, ForgeCacheEntry, Sourced
    <2>2. Searched(found[e].login, e, found[e].expiry - Age)
      BY DEF Complete
    <2> QED BY <1>4, <1>7, <2>1, <2>2 DEF Searched
  <1> QED BY <1>5, <1>9, <1>10, <1>11, <1>12 DEF Complete

LEMMA InitComplete == Init => Complete
  <1> SUFFICES ASSUME Init PROVE Complete
    OBVIOUS
  <1>1. \A c \in Callers : caller[c].at = "idle"
    BY DEF Init, Idle
  <1>2. \A x \in People : since[x] = -1 /\ \A e \in Emails : held[x][e] = -1
    BY DEF Init
  <1>3. roster.expiry = 0 /\ \A e \in Emails : found[e].expiry = 0
    BY DEF Init
  <1>4. Shows(roster.list, roster.expiry - Age)
    BY <1>2, <1>3, Parameters DEF Shows, People
  <1>5. \A e \in Emails : Searched(found[e].login, e, found[e].expiry - Age)
    BY <1>2, <1>3, Parameters DEF Searched, People
  <1>6. \A c \in Callers : Knows(caller[c]) /\ Asked(caller[c])
    BY <1>1 DEF Knows, Asked, Inside
  <1> QED BY <1>2, <1>4, <1>5, <1>6 DEF Complete

LEMMA NextComplete ==
  ASSUME IInv, Complete, [Next]_vars
  PROVE  Complete'
  <1>1. CASE Tick \/ UNCHANGED vars
    <2>1. UNCHANGED <<address, since, held, roster, found, caller, left>>
      BY <1>1 DEF Tick, vars
    <2> QED BY <2>1 DEF Complete, Knows, Asked, Shows, Searched, NotSeen
  <1>2. ASSUME NEW c \in Callers,
               \/ ResolvePlaneMember(c) \/ ResolveForgeUser(c) \/ CallerSteps(c) \/ CallFails(c)
        PROVE  Complete'
    BY <1>2, ResolvePlaneMemberComplete, ResolveForgeUserComplete, AskServedComplete,
       AskReturnsComplete, AcquireMembersComplete, ListServedComplete, ListReturnsComplete,
       AcquireLoginsComplete, SearchServedComplete, SearchReturnsComplete, CallFailsComplete
       DEF CallerSteps
  <1> QED BY <1>1, <1>2, UsersComplete DEF Next

LEMMA AlwaysComplete == Spec => []Complete
  BY InitComplete, NextComplete, Invariance, PTL DEF Spec

\* When a caller may be answered that there is nobody.
Excused(c) ==
  /\ caller[c].op = "user" =>
       \A u \in Logins : /\ address[u] # None
                         /\ address[u] = address[caller[c].who]
                         /\ since[caller[c].who] <= caller[c].begun - Age
                         => since[u] > clock - Age
  /\ caller[c].op = "member" =>
       \A m \in Members : /\ address[m] # None
                          /\ address[m] = address[caller[c].who]
                          /\ since[caller[c].who] = -1
                          => since[m] > clock - Age

\* A list misses nobody it was made long enough after.
LEMMA ListMisses ==
  ASSUME IInv, Complete, NEW c \in Callers,
         caller[c].op = "member" /\ caller[c].email = Noreply => left.faults = MaxFaults,
         caller[c].at \in {"members", "listed"}, NEW l \in [Members -> Address], NEW t \in Int,
         clock - Age < t, Shows(l, t), UseList(c, l), caller'[c].at = "done", caller'[c].answer = None
  PROVE  Excused(c)
  <1> DEFINE who == caller[c].who
             e == caller[c].email
  <1>1. /\ TypeOK /\ Informed(caller[c]) /\ clock \in Int
        /\ caller[c].begun \in Int /\ caller[c] \in Caller
    <2>1. TypeOK /\ Informed(caller[c])
      BY DEF IInv
    <2>2. clock \in Int /\ caller[c] \in Caller
      BY <2>1 DEF TypeOK
    <2> QED BY <2>1, <2>2 DEF Caller
  <1>2. ASSUME NEW a \in People, Answer(c, a)
        PROVE  FALSE
    <2>1. caller' = [caller EXCEPT ![c] = Ending(a)] /\ a \in People \cup {None}
      BY <1>2 DEF Answer, Ending
    <2>2. caller'[c].answer = a
      BY <1>1, <2>1, EndingSound DEF TypeOK
    <2> QED BY <2>2, NamesAssumption
  <1>3. CASE caller[c].op = "user"
    <2>1. who \in Members /\ who \in People /\ caller[c].begun <= clock
      BY <1>1, <1>3 DEF Informed, Ended, People
    <2>2. ~Asks(c, "logins", l[who])
      <3> SUFFICES ASSUME Asks(c, "logins", l[who]) PROVE FALSE
        OBVIOUS
      <3>1. caller' = [caller EXCEPT ![c] = Asking(c, "logins", l[who])]
        BY DEF Asks, Asking
      <3>2. Asking(c, "logins", l[who]).at = "logins"
        BY <1>1, <2>1, AskingTyped DEF Waiting
      <3> QED BY <1>1, <3>1, <3>2 DEF TypeOK
    <2>3. l[who] = None
      BY <1>3, <2>2 DEF UseList
    <2>4. since[who] \in Int
      BY <1>1, <2>1 DEF TypeOK
    <2>5. since[who] <= caller[c].begun - Age => address[who] = None
      <3> HIDE DEF who
      <3>1. since[who] <= caller[c].begun - Age => since[who] < t
        BY <1>1, <2>1, <2>4, Parameters
      <3> QED BY <2>1, <2>3, <3>1 DEF Shows
    <2> QED BY <1>3, <2>5 DEF Excused
  <1>4. CASE caller[c].op = "member"
    <2>1. who \in People /\ e \in Emails \cup {Noreply} /\ (e \in Emails => Had(who, e, 0))
      BY <1>1, <1>4 DEF Informed, Ended, People, Inside
    <2>2. MemberWith(e, l) = {}
      BY <1>2, <1>4 DEF UseList, MemberWith, People
    <2>3. ASSUME NEW m \in Members, address[m] # None, address[m] = address[who], since[who] = -1,
                 ~(since[m] > clock - Age)
          PROVE  FALSE
      <3>1. e \in Emails
        <4>1. e = Noreply => Asked(caller[c])
          BY <1>4 DEF Complete
        <4>2. e # Noreply
          BY <1>1, <1>4, <2>3, <4>1 DEF Asked, NotSeen, Inside
        <4> QED BY <2>1, <4>2
      <3>2. address[who] = e
        BY <2>1, <2>3, <3>1 DEF Had, Complete
      <3>3. since[m] \in Int
        BY <1>1 DEF TypeOK, People
      <3>4. since[m] < t
        BY <1>1, <2>3, <3>3, Parameters
      <3>5. l[m] = e
        BY <2>3, <3>2, <3>4 DEF Shows
      <3> QED BY <2>2, <3>5 DEF MemberWith
    <2> QED BY <1>4, <2>3 DEF Excused
  <1> QED BY <1>1, <1>3, <1>4 DEF Caller

\* A search misses nobody either.
LEMMA SearchMisses ==
  ASSUME IInv, Complete, NEW c \in Callers, caller[c].at \in {"logins", "searched"},
         NEW t \in Int, clock - Age < t, Searched(None, caller[c].email, t)
  PROVE  Excused(c)
  <1>1. TypeOK /\ Informed(caller[c]) /\ Knows(caller[c]) /\ clock \in Int
    BY DEF IInv, TypeOK, Complete
  <1>2. caller[c].op = "user"
    BY <1>1 DEF Informed, Inside
  <1>3. since[caller[c].who] <= caller[c].begun - Age => caller[c].email = address[caller[c].who]
    BY <1>1 DEF Knows, Inside
  <1>4. \A v \in Logins : since[v] \in Int
    BY <1>1 DEF TypeOK, People
  <1>5. \A v \in Logins : address[v] = caller[c].email => since[v] > clock - Age
    BY <1>1, <1>4, Parameters DEF Searched
  <1> QED BY <1>2, <1>3, <1>5 DEF Excused

\* Who is answered that there is nobody, and none of whose own calls has failed, is
\* excused.
LEMMA OnlyExcused ==
  ASSUME IInv, Complete, [Next]_vars, NEW c \in Callers, caller[c].at \notin Ended,
         caller'[c].at = "done", caller'[c].answer = None, left'.faults = left.faults,
         caller[c].op = "member" /\ caller[c].email = Noreply => left.faults = MaxFaults
  PROVE  Excused(c)
  <1>1. caller \in [Callers -> Caller] /\ TypeOK /\ Informed(caller[c])
    BY DEF IInv, TypeOK
  <1>2. ~CallFails(c)
    <2>1. left \in Budget
      BY DEF IInv, TypeOK, Budget
    <2>2. left.faults \in 0..MaxFaults /\ (CallFails(c) => left'.faults = left.faults - 1)
      BY <2>1 DEF CallFails, Budget
    <2> QED BY <2>2, Parameters
  <1>3. CallerSteps(c)
    BY <1>2, OwnStep DEF Ended
  <1>5. ASSUME NEW at \in Calling, Goes(c, at)
        PROVE  FALSE
    <2>1. caller'[c].at = at
      BY <1>1, <1>5 DEF Goes, Caller
    <2> QED BY <2>1 DEF Calling
  <1>6. CASE AskServed(c) \/ ListServed(c) \/ SearchServed(c)
    <2>1. AskServed(c) => caller'[c].at = "asked"
      BY <1>1 DEF AskServed, Caller
    <2>2. ListServed(c) => caller'[c].at = "listed"
      BY <1>1 DEF ListServed, Caller
    <2>3. SearchServed(c) => caller'[c].at = "searched"
      BY <1>1 DEF SearchServed, Caller
    <2> QED BY <1>6, <2>1, <2>2, <2>3
  <1>7. CASE AskReturns(c)
    <2> DEFINE e == IF caller[c].match # None THEN caller[c].match ELSE caller[c].email
    <2>1. caller[c].at = "asked" /\ AskEnds(c, e) /\ caller[c].op = "member"
      BY <1>1, <1>7 DEF AskReturns, Informed
    <2>2. e \in Address \cup {Noreply}
      BY <1>1, <2>1, AskedWith DEF Informed
    <2>3. e = None
      <3> SUFFICES ASSUME Asks(c, "members", e) PROVE FALSE
        BY <2>1 DEF AskEnds
      <3>1. caller' = [caller EXCEPT ![c] = Asking(c, "members", e)]
        BY DEF Asks, Asking
      <3>2. Asking(c, "members", e).at = "members"
        BY <1>1, <2>2, AskingTyped DEF Waiting
      <3> QED BY <1>1, <3>1, <3>2
    <2>4. NotSeen(caller[c].who)
      BY <2>1, <2>3 DEF Complete, Knows
    <2> QED BY <2>1, <2>4 DEF Excused, NotSeen
  <1>8. CASE AcquireMembers(c)
    <2>1. FreshRoster /\ UseList(c, roster.list) /\ caller[c].at = "members"
      BY <1>5, <1>8 DEF AcquireMembers, Calling
    <2> QED BY <2>1, RosterShows, ListMisses
  <1>9. CASE ListReturns(c)
    <2>1. caller[c].at = "listed" /\ UseList(c, caller[c].list)
      BY <1>9 DEF ListReturns
    <2> QED BY <2>1, ListShows, ListMisses
  <1>10. CASE AcquireLogins(c)
    <2> DEFINE e == caller[c].email
    <2>1. FreshLogin(e) /\ Answer(c, found[e].login) /\ caller[c].at = "logins"
      BY <1>5, <1>10 DEF AcquireLogins, Calling
    <2>2. e \in Emails
      BY <1>1, <2>1 DEF Informed
    <2>3. found[e].login = None
      <3>1. caller' = [caller EXCEPT ![c] = Ending(found[e].login)]
        BY <2>1 DEF Answer, Ending
      <3>2. found[e].login \in People \cup {None}
        BY <1>1, <2>2 DEF TypeOK, ForgeCacheEntry, People
      <3> QED BY <1>1, <3>1, <3>2, EndingSound
    <2>4. /\ clock - Age < found[e].expiry - Age /\ found[e].expiry - Age \in Int
          /\ Searched(None, e, found[e].expiry - Age)
      <3>1. clock \in Int /\ found[e].expiry \in Int
        BY <1>1, <2>2, Parameters DEF TypeOK, ForgeCacheEntry
      <3> QED BY <2>1, <2>2, <2>3, <3>1, Parameters DEF FreshLogin, Complete
    <2> QED BY <2>1, <2>4, SearchMisses
  <1>11. CASE SearchReturns(c)
    <2>1. caller[c].at = "searched" /\ Answer(c, caller[c].match)
      BY <1>11 DEF SearchReturns
    <2>2. caller[c].match = None
      <3>1. caller' = [caller EXCEPT ![c] = Ending(caller[c].match)]
        BY <2>1 DEF Answer, Ending
      <3>2. caller[c].match \in People \cup {None}
        BY <2>1, MatchCurrent DEF People
      <3> QED BY <1>1, <3>1, <3>2, EndingSound
    <2>3. clock - Age < caller[c].since
      BY <2>1, SearchKnows, Parameters
    <2> QED BY <2>1, <2>2, <2>3, SearchKnows, SearchMisses
  <1> QED BY <1>3, <1>6, <1>7, <1>8, <1>9, <1>10, <1>11 DEF CallerSteps

\* Nobody is answered only as long after the two accounts got the same address as a list
\* or a find is kept and a call takes; a call of others that fails changes nothing.
THEOREM MissesAreRecent == Spec => MissesExpire
  <1> DEFINE Recent ==
        left'.faults = left.faults => \A c \in Callers :
          /\ Ends(c, "user") /\ caller'[c].answer = None =>
               \A u \in Logins : /\ address[u] # None
                                 /\ address[u] = address[caller[c].who]
                                 /\ since[caller[c].who] <= caller[c].begun - Age
                                 => since[u] > clock - Age
          /\ /\ Ends(c, "member") /\ caller'[c].answer = None
             /\ caller[c].email = Noreply => left.faults = MaxFaults
             => \A m \in Members : /\ address[m] # None
                                   /\ address[m] = address[caller[c].who]
                                   /\ since[caller[c].who] = -1
                                   => since[m] > clock - Age
  <1>1. IInv /\ Complete /\ [Next]_vars => [Recent]_vars
    <2> SUFFICES ASSUME IInv, Complete, [Next]_vars PROVE Recent
      OBVIOUS
    <2>1. ASSUME left'.faults = left.faults, NEW c \in Callers,
                 caller[c].at \notin Ended, caller'[c].at = "done", caller'[c].answer = None,
                 caller[c].op = "member" /\ caller[c].email = Noreply => left.faults = MaxFaults
          PROVE  Excused(c)
      BY <2>1, OnlyExcused
    <2> QED BY <2>1 DEF Ends, Excused
  <1> QED BY <1>1, Invariance, AlwaysComplete, PTL DEF Spec, MissesExpire
=============================================================================

-------------------------- MODULE StateCache_proofs --------------------------
(***************************************************************************)
(* What a name is answered with is not older than the code means it to be, *)
(* for any number of callers and processes and any times.                  *)
(***************************************************************************)
EXTENDS StateCache, ListCache_proofs

\* A caller that may read the list has one that is fresh, and asks for a name.
Ready ==
  \A c \in Callers :
    /\ caller[c].at = "ready" =>
         entry[Home[c]].known /\ clock - entry[Home[c]].fetchedAt < TTL
    /\ caller[c].at \notin Ended => \E n \in Names : caller[c].want = <<n>>

IInv == CacheInv /\ Ready

\* One caller moves, and the entry it may write is its own, which it locks.
LEMMA ReadyMoves ==
  ASSUME IInv, CacheInv', NEW c \in Callers, NEW r, caller' = [caller EXCEPT ![c] = r],
         clock' = clock, entry' = entry \/ c \in lock[Home[c]],
         \A e \in Entries : e # Home[c] => entry'[e] = entry[e],
         r.at = "ready" => entry'[Home[c]].known /\ clock - entry'[Home[c]].fetchedAt < TTL,
         r.at \notin Ended => \E n \in Names : r.want = <<n>>
  PROVE  Ready'
  <1>1. caller'[c] = r /\ \A d \in Callers : d # c => caller'[d] = caller[d]
    BY DEF IInv, CacheInv, TypeOK
  <1>2. ASSUME NEW d \in Callers, d # c, caller[d].at = "ready"
        PROVE  entry'[Home[d]] = entry[Home[d]]
    <2>1. d \in lock[Home[d]]
      BY <1>2 DEF IInv, CacheInv, Exclusive, Holding
    <2>2. CASE Home[d] = Home[c]
      BY <1>2, <2>1, <2>2, Parameters DEF IInv, CacheInv, Exclusive
    <2> QED BY <2>2, Parameters
  <1> QED BY <1>1, <1>2 DEF IInv, Ready

\* At first no caller has a list to read.
LEMMA StateInit == Init => IInv
  <1> SUFFICES ASSUME Init PROVE IInv
    OBVIOUS
  <1>1. \A c \in Callers : caller[c].at = "idle"
    BY DEF Init
  <1> QED BY <1>1, InitSound DEF IInv, Ready, Ended

\* A new call does not read the list yet.
LEMMA BeginReady ==
  ASSUME IInv, NEW c \in Callers, ResolveStateID(c)
  PROVE  IInv'
  <1>1. PICK n \in Names : Begin(c, "state", <<n>>)
    BY DEF ResolveStateID
  <1>2. CacheInv'
    <2>1. <<n>> \in Seq(Names \cup IDs) /\ "state" \in Operations
      BY DEF Operations
    <2> QED BY <1>1, <2>1, BeginSound DEF IInv
  <1> DEFINE r == [at |-> "waiting", op |-> "state", want |-> <<n>>, out |-> <<>>,
                   since |-> clock, reply |-> {}]
  <1>3. caller' = [caller EXCEPT ![c] = r] /\ entry' = entry /\ clock' = clock
    BY <1>1 DEF Begin
  <1>4. r.at = "waiting" /\ r.want = <<n>>
    OBVIOUS
  <1> HIDE DEF r
  <1> QED BY <1>2, <1>3, <1>4, ReadyMoves DEF IInv

\* A caller goes on to read the list only if it is fresh.
LEMMA AcquireReady ==
  ASSUME IInv, NEW c \in Callers, Acquire(c)
  PROVE  IInv'
  <1> DEFINE r == [caller[c] EXCEPT !.since = clock,
                                    !.at = IF Fresh(Home[c]) THEN "ready" ELSE "listing"]
  <1>1. CacheInv'
    BY AcquireSound DEF IInv
  <1>2. caller' = [caller EXCEPT ![c] = r] /\ entry' = entry /\ clock' = clock
    BY DEF Acquire
  <1>3. caller[c] \in Caller /\ caller[c].at = "waiting"
    BY DEF IInv, CacheInv, TypeOK, Acquire
  <1>4. r.want = caller[c].want /\ (r.at = "ready" => Fresh(Home[c]))
    BY <1>3 DEF Caller
  <1>5. \E n \in Names : r.want = <<n>>
    BY <1>3, <1>4 DEF IInv, Ready, Ended
  <1> HIDE DEF r
  <1> QED BY <1>1, <1>2, <1>4, <1>5, ReadyMoves DEF IInv, Fresh

\* A caller whose list call is served does not read the cache yet.
LEMMA ListServedReady ==
  ASSUME IInv, NEW c \in Callers, ListServed(c)
  PROVE  IInv'
  <1> DEFINE r == [caller[c] EXCEPT !.at = "listed", !.reply = Page]
  <1>1. CacheInv'
    BY ListServedSound DEF IInv
  <1>2. caller' = [caller EXCEPT ![c] = r] /\ entry' = entry /\ clock' = clock
    BY DEF ListServed
  <1>3. caller[c] \in Caller /\ caller[c].at = "listing"
    BY DEF IInv, CacheInv, TypeOK, ListServed
  <1>4. r.want = caller[c].want /\ r.at = "listed"
    BY <1>3 DEF Caller
  <1>5. \E n \in Names : r.want = <<n>>
    BY <1>3, <1>4 DEF IInv, Ready, Ended
  <1> HIDE DEF r
  <1> QED BY <1>1, <1>2, <1>4, <1>5, ReadyMoves DEF IInv

\* What ListReturns does to the entry of its caller.
LEMMA ListReturnsEntry ==
  ASSUME IInv, NEW c \in Callers, ListReturns(c)
  PROVE  /\ entry'[Home[c]].known /\ entry'[Home[c]].fetchedAt = clock
         /\ \A e \in Entries : e # Home[c] => entry'[e] = entry[e]
         /\ c \in lock[Home[c]]
  <1> DEFINE f == [known |-> TRUE, list |-> caller[c].reply, fetchedAt |-> clock]
  <1>1. entry' = [entry EXCEPT ![Home[c]] = f] /\ entry \in [Entries -> Entry]
    BY DEF ListReturns, IInv, CacheInv, TypeOK
  <1>2. f.known /\ f.fetchedAt = clock
    OBVIOUS
  <1> HIDE DEF f
  <1>3. c \in lock[Home[c]]
    BY DEF ListReturns, IInv, CacheInv, Exclusive, Holding
  <1> QED BY <1>1, <1>2, <1>3, Parameters

\* A caller goes on to read the list it has just stored.
LEMMA ListReturnsReady ==
  ASSUME IInv, NEW c \in Callers, ListReturns(c)
  PROVE  IInv'
  <1> DEFINE r == [caller[c] EXCEPT !.at = "ready", !.reply = {}]
  <1>1. CacheInv'
    BY ListReturnsSound DEF IInv
  <1>2. caller' = [caller EXCEPT ![c] = r] /\ clock' = clock
    BY DEF ListReturns
  <1>3. caller[c] \in Caller /\ caller[c].at = "listed"
    BY DEF IInv, CacheInv, TypeOK, ListReturns
  <1>4. r.want = caller[c].want /\ r.at = "ready"
    BY <1>3 DEF Caller
  <1>5. \E n \in Names : r.want = <<n>>
    BY <1>3, <1>4 DEF IInv, Ready, Ended
  <1>6. clock \in Int /\ clock - clock < TTL
    BY Typed, Parameters DEF IInv, CacheInv
  <1> HIDE DEF r
  <1> QED BY <1>1, <1>2, <1>4, <1>5, <1>6, ListReturnsEntry, ReadyMoves DEF IInv

\* Where a caller is when it has finished.
LEMMA FinishReady ==
  ASSUME IInv, CacheInv', NEW c \in Callers, NEW at \in Ended, NEW out, Finish(c, at, out),
         UNCHANGED <<clock, entry>>
  PROVE  /\ IInv'
         /\ caller'[c].at = at /\ caller'[c].out = out
         /\ \A d \in Callers : d # c => caller'[d] = caller[d]
  <1> DEFINE r == [at |-> at, op |-> "none", want |-> <<>>, out |-> out, since |-> 0, reply |-> {}]
  <1>1. caller' = [caller EXCEPT ![c] = r]
    BY DEF Finish
  <1>2. r.at = at /\ r.out = out /\ at # "ready"
    BY DEF Ended
  <1> HIDE DEF r
  <1>3. Ready'
    BY <1>1, <1>2, ReadyMoves DEF IInv
  <1> QED BY <1>1, <1>2, <1>3 DEF IInv, CacheInv, TypeOK

\* A call that fails answers nobody.
LEMMA CallFailsReady ==
  ASSUME IInv, NEW c \in Callers, CallFails(c)
  PROVE  /\ IInv' /\ entry' = entry
         /\ \A d \in Callers : caller'[d].at \in {"done", "missed"} => caller'[d] = caller[d]
  <1>1. CacheInv' /\ entry' = entry /\ clock' = clock
    BY CallFailsSound DEF IInv, CallFails
  <1>2. "failed" \in Ended
    BY DEF Ended
  <1> QED BY <1>1, <1>2, FinishReady DEF CallFails

\* What a caller that may answer knows.
LEMMA AnswerFacts ==
  ASSUME IInv, NEW c \in Callers, Answer(c)
  PROVE  /\ Home[c] \in Entries /\ entry[Home[c]].known
         /\ clock \in Int /\ entry[Home[c]].fetchedAt \in Int
         /\ clock - entry[Home[c]].fetchedAt < TTL
         /\ caller[c].want[1] \in Names
         /\ Found(c) \subseteq IDs
         /\ \A i \in Found(c) :
              Was(objects, i, caller[c].want[1], entry[Home[c]].fetchedAt - Timeout)
  <1>1. Home[c] \in Entries /\ caller[c].at = "ready"
    BY Parameters DEF Answer
  <1>2. entry[Home[c]].known /\ clock - entry[Home[c]].fetchedAt < TTL
    BY <1>1 DEF IInv, Ready
  <1>3. PICK n \in Names : caller[c].want = <<n>>
    BY <1>1 DEF IInv, Ready, Ended
  <1>4. clock \in Int /\ entry[Home[c]].fetchedAt \in Int /\ entry[Home[c]].list \subseteq Pair
    BY <1>1, Typed DEF IInv, CacheInv
  <1>5. Found(c) = {p.id : p \in {p \in entry[Home[c]].list : p.name = n}}
    BY <1>3 DEF Found
  <1>6. \A p \in entry[Home[c]].list : p.id \in IDs
    BY <1>4 DEF Pair
  <1>7. \A p \in entry[Home[c]].list :
          Was(objects, p.id, p.name, entry[Home[c]].fetchedAt - Timeout)
    BY <1>1 DEF IInv, CacheInv, Sourced
  <1> QED BY <1>1, <1>2, <1>3, <1>4, <1>5, <1>6, <1>7

\* A caller answers with what the list holds of its name, or misses.
LEMMA AnswerReady ==
  ASSUME IInv, NEW c \in Callers, Answer(c)
  PROVE  /\ IInv' /\ entry' = entry
         /\ \A d \in Callers : d # c => caller'[d] = caller[d]
         /\ \/ caller'[c].at = "missed" /\ Found(c) = {}
            \/ caller'[c].at = "done" /\ \E i \in Found(c) : caller'[c].out = <<i>>
  <1>1. UNCHANGED <<clock, objects, entry>> /\ left' \in Budget
    BY DEF Answer, IInv, CacheInv, TypeOK
  <1>2. "done" \in Ended /\ "missed" \in Ended
    BY DEF Ended
  <1>3. CASE Found(c) = {} /\ Finish(c, "missed", <<>>)
    <2>1. <<>> \in Seq(Names \cup IDs)
      OBVIOUS
    <2>2. CacheInv'
      BY <1>1, <1>2, <1>3, <2>1, FinishSound DEF IInv
    <2> QED BY <1>1, <1>2, <1>3, <2>2, FinishReady
  <1>4. ASSUME NEW i \in Found(c), Finish(c, "done", <<i>>)
        PROVE  /\ IInv' /\ caller'[c].at = "done" /\ caller'[c].out = <<i>>
               /\ \A d \in Callers : d # c => caller'[d] = caller[d]
    <2>1. <<i>> \in Seq(Names \cup IDs)
      BY AnswerFacts
    <2>2. CacheInv'
      BY <1>1, <1>2, <1>4, <2>1, FinishSound DEF IInv
    <2> QED BY <1>1, <1>2, <1>4, <2>2, FinishReady
  <1> QED BY <1>1, <1>3, <1>4 DEF Answer

\* Users change no entry and no caller.
LEMMA UsersReady ==
  ASSUME IInv, Users
  PROVE  IInv' /\ entry' = entry /\ caller' = caller
  BY UsersSound DEF IInv, Users, Ready

\* Time does not pass while a caller may read the list.
LEMMA TickReady ==
  ASSUME IInv, Tick
  PROVE  IInv' /\ entry' = entry /\ caller' = caller
  <1>1. /\ entry' = entry /\ caller' = caller
        /\ \A c \in Callers : caller[c].at # "ready"
    BY DEF Tick
  <1> QED BY <1>1, TickSound DEF IInv, Ready

\* The invariant is inductive: one case for each action.
LEMMA NextReady == IInv /\ [Next]_vars => IInv'
  <1> SUFFICES ASSUME IInv, [Next]_vars PROVE IInv'
    OBVIOUS
  <1>1. CASE UNCHANGED vars
    BY <1>1 DEF vars, IInv, Ready, CacheInv, TypeOK, Exclusive, Timed, Needed, Sourced
  <1>2. ASSUME NEW c \in Callers, ResolveStateID(c) \/ CallerSteps(c) \/ CallFails(c)
        PROVE  IInv'
    BY <1>2, BeginReady, AcquireReady, ListServedReady, ListReturnsReady, CallFailsReady,
       AnswerReady DEF CallerSteps, Steps
  <1> QED BY <1>1, <1>2, UsersReady, TickReady DEF Next

\* The inductive invariant of the cache.
THEOREM AlwaysIInv == Spec => []IInv
  BY StateInit, NextReady, PTL DEF Spec

\* All state keeps its type.
THEOREM StatesTyped == Spec => []TypeOK
  <1>1. IInv => TypeOK
    BY DEF IInv, CacheInv
  <1> QED BY <1>1, AlwaysIInv, PTL

\* Callers of an entry share its list calls: two lists are never stored less
\* than the time-to-live apart, however many callers come at once.
THEOREM CallersShareLists == Spec => OneListPerWindow
  <1> DEFINE Apart ==
        \A e \in Entries :
          entry'[e].fetchedAt # entry[e].fetchedAt /\ entry[e].known =>
            entry'[e].fetchedAt - entry[e].fetchedAt >= TTL
  <1>1. IInv /\ [Next]_vars => [Apart]_vars
    <2> SUFFICES ASSUME IInv, Next PROVE Apart
      OBVIOUS
    <2>1. ASSUME NEW c \in Callers, ListReturns(c) PROVE Apart
      <3>1. entry[Home[c]].known => clock - entry[Home[c]].fetchedAt >= TTL
        BY <2>1 DEF IInv, CacheInv, Needed, ListReturns
      <3> QED BY <2>1, <3>1, ListReturnsEntry
    <2>2. ASSUME entry' = entry PROVE Apart
      BY <2>2
    <2>3. ASSUME NEW c \in Callers, ResolveStateID(c) \/ Acquire(c) \/ ListServed(c)
          PROVE  entry' = entry
      BY <2>3 DEF ResolveStateID, Begin, Acquire, ListServed
    <2> HIDE DEF Apart
    <2> QED
      BY <2>1, <2>2, <2>3, CallFailsReady, AnswerReady, UsersReady, TickReady
         DEF Next, CallerSteps, Steps
  <1> QED BY <1>1, AlwaysIInv, PTL DEF Spec, OneListPerWindow

\* Only the step Answer ends a call with an answer or a miss.
LEMMA OnlyAnswersEnd ==
  ASSUME IInv, Next, NEW d \in Callers, caller[d].at \notin Ended,
         caller'[d].at \in {"done", "missed"}
  PROVE  Answer(d)
  <1>1. caller \in [Callers -> Caller]
    BY DEF IInv, CacheInv, TypeOK
  <1>2. ASSUME NEW c \in Callers, ResolveStateID(c) \/ Steps(c)
        PROVE  FALSE
    <2>1. caller'[d] = caller[d] \/ caller'[d].at \in {"waiting", "ready", "listing", "listed"}
      <3>1. CASE ResolveStateID(c)
        BY <1>1, <3>1 DEF ResolveStateID, Begin
      <3>2. CASE Acquire(c)
        <4>1. c = d => caller'[d].at \in {"ready", "listing"}
          BY <1>1, <3>2 DEF Acquire, Caller
        <4> QED BY <1>1, <3>2, <4>1 DEF Acquire
      <3>3. CASE ListServed(c)
        <4>1. c = d => caller'[d].at = "listed"
          BY <1>1, <3>3 DEF ListServed, Caller
        <4> QED BY <1>1, <3>3, <4>1 DEF ListServed
      <3>4. CASE ListReturns(c)
        <4>1. c = d => caller'[d].at = "ready"
          BY <1>1, <3>4 DEF ListReturns, Caller
        <4> QED BY <1>1, <3>4, <4>1 DEF ListReturns
      <3> QED BY <1>2, <3>1, <3>2, <3>3, <3>4 DEF Steps
    <2> QED BY <2>1 DEF Ended
  <1>3. ASSUME NEW c \in Callers, Answer(c), c # d
        PROVE  FALSE
    BY <1>3, AnswerReady DEF Ended
  <1>4. ASSUME NEW c \in Callers, CallFails(c)
        PROVE  FALSE
    BY <1>4, CallFailsReady DEF Ended
  <1>5. caller' = caller => FALSE
    BY DEF Ended
  <1> QED BY <1>2, <1>3, <1>4, <1>5, UsersReady, TickReady DEF Next, CallerSteps

\* An answer was true not longer ago than a list is used and a call takes.
THEOREM AnswersAreCurrent == Spec => Current
  <1> DEFINE Recent ==
        \A c \in Callers : Ends(c, "done") =>
          NamedSince(caller'[c].out[1], caller[c].want[1], clock - TTL - Timeout + 1)
  <1>1. IInv /\ [Next]_vars => [Recent]_vars
    <2> SUFFICES ASSUME IInv, Next, NEW c \in Callers, Ends(c, "done")
                 PROVE  NamedSince(caller'[c].out[1], caller[c].want[1],
                                   clock - TTL - Timeout + 1)
      OBVIOUS
    <2>1. Answer(c)
      BY OnlyAnswersEnd DEF Ends
    <2>2. PICK i \in Found(c) : caller'[c].out = <<i>>
      BY <2>1, AnswerReady DEF Ends
    <2> DEFINE n == caller[c].want[1]
    <2>3. Was(objects, i, n, entry[Home[c]].fetchedAt - Timeout) /\ i \in IDs /\ n \in Names
      BY <2>1, AnswerFacts
    <2>4. entry[Home[c]].fetchedAt - Timeout >= clock - TTL - Timeout + 1
      BY <2>1, AnswerFacts, Parameters
    <2>5. i \in DOMAIN objects => objects[i].held[n] \in Int
      <3>1. i \in DOMAIN objects => objects[i] \in Object
        BY DEF IInv, CacheInv, TypeOK
      <3> QED BY <2>3, <3>1, Parameters DEF Object
    <2>6. Was(objects, i, n, clock - TTL - Timeout + 1)
      BY <2>1, <2>3, <2>4, <2>5, AnswerFacts, Parameters DEF Was
    <2> QED BY <2>2, <2>6 DEF Was, NamedSince, Live
  <1> QED BY <1>1, AlwaysIInv, PTL DEF Spec, Current
-----------------------------------------------------------------------------
(***************************************************************************)
(* What is missing.                                                        *)
(***************************************************************************)

\* A list holds every state that had its name before the list was made.
Whole ==
  /\ \A e \in Entries : entry[e].known => Full(objects, entry[e].list, entry[e].fetchedAt - Timeout)
  /\ \A c \in Callers : caller[c].at = "listed" => Full(objects, caller[c].reply, caller[c].since)

\* A caller that moves and stores nothing needs a whole list only when one came.
LEMMA WholeMoves ==
  ASSUME IInv, Whole, NEW c \in Callers, NEW r, caller' = [caller EXCEPT ![c] = r],
         entry' = entry, objects' = objects, r.at = "listed" => Full(objects, r.reply, r.since)
  PROVE  Whole'
  <1>1. caller'[c] = r /\ \A d \in Callers : d # c => caller'[d] = caller[d]
    BY DEF IInv, CacheInv, TypeOK
  <1> QED BY <1>1 DEF Whole

LEMMA BeginWhole ==
  ASSUME IInv, Whole, NEW c \in Callers, NEW o, NEW w, Begin(c, o, w)
  PROVE  Whole'
  <1> DEFINE r == [at |-> "waiting", op |-> o, want |-> w, out |-> <<>>, since |-> clock, reply |-> {}]
  <1>1. caller' = [caller EXCEPT ![c] = r] /\ r.at = "waiting" /\ entry' = entry /\ objects' = objects
    BY DEF Begin
  <1> HIDE DEF r
  <1> QED BY <1>1, WholeMoves

LEMMA AcquireWhole ==
  ASSUME IInv, Whole, NEW c \in Callers, Acquire(c)
  PROVE  Whole'
  <1> DEFINE r == [caller[c] EXCEPT !.since = clock,
                                    !.at = IF Fresh(Home[c]) THEN "ready" ELSE "listing"]
  <1>1. caller[c] \in Caller
    BY DEF IInv, CacheInv, TypeOK
  <1>2. caller' = [caller EXCEPT ![c] = r] /\ r.at # "listed" /\ entry' = entry /\ objects' = objects
    BY <1>1 DEF Acquire, Caller
  <1> HIDE DEF r
  <1> QED BY <1>2, WholeMoves

\* The one page that is served holds every state there is.
LEMMA ListServedWhole ==
  ASSUME IInv, OnePage, Whole, NEW c \in Callers, ListServed(c)
  PROVE  Whole'
  <1> DEFINE r == [caller[c] EXCEPT !.at = "listed", !.reply = Page]
  <1>1. caller[c] \in Caller
    BY DEF IInv, CacheInv, TypeOK
  <1>2. caller' = [caller EXCEPT ![c] = r] /\ r.reply = Page /\ entry' = entry /\ objects' = objects
    BY <1>1 DEF ListServed, Caller
  <1> HIDE DEF r
  <1>3. Full(objects, Page, r.since)
    BY PageIsWhole DEF Full, Live, IInv, CacheInv
  <1> QED BY <1>2, <1>3, WholeMoves

\* A list is stored at most a call after it was made.
LEMMA ListReturnsWhole ==
  ASSUME IInv, Whole, NEW c \in Callers, ListReturns(c)
  PROVE  Whole'
  <1> DEFINE r == [caller[c] EXCEPT !.at = "ready", !.reply = {}]
             f == [known |-> TRUE, list |-> caller[c].reply, fetchedAt |-> clock]
  <1>1. /\ caller[c] \in Caller /\ caller \in [Callers -> Caller] /\ entry \in [Entries -> Entry]
        /\ Home[c] \in Entries /\ caller[c].at = "listed"
    BY Parameters DEF IInv, CacheInv, TypeOK, ListReturns
  <1>2. caller' = [caller EXCEPT ![c] = r] /\ r.at = "ready" /\ objects' = objects
    BY <1>1 DEF ListReturns, Caller
  <1>3. entry' = [entry EXCEPT ![Home[c]] = f] /\ f.list = caller[c].reply /\ f.fetchedAt = clock
    BY DEF ListReturns
  <1> HIDE DEF r, f
  <1>4. caller'[c] = r /\ \A d \in Callers : d # c => caller'[d] = caller[d]
    BY <1>1, <1>2
  <1>5. entry'[Home[c]] = f /\ \A e \in Entries : e # Home[c] => entry'[e] = entry[e]
    BY <1>1, <1>3
  <1>6. Full(objects, caller[c].reply, caller[c].since)
    BY <1>1 DEF Whole
  <1>7. clock - Timeout <= caller[c].since /\ clock \in Int /\ caller[c].since \in Int
    BY <1>1, Typed, Parameters DEF IInv, CacheInv, Timed, InFlight, Holding
  <1>8. \A i \in DOMAIN objects : objects[i].since \in Int
    <2>1. \A i \in DOMAIN objects : objects[i] \in Object
      BY DEF IInv, CacheInv, TypeOK
    <2> QED BY <2>1 DEF Object
  <1>9. Full(objects, f.list, f.fetchedAt - Timeout)
    BY <1>3, <1>6, <1>7, <1>8, Parameters DEF Full
  <1> QED BY <1>2, <1>4, <1>5, <1>9 DEF Whole

LEMMA FinishWhole ==
  ASSUME IInv, Whole, NEW c \in Callers, NEW at \in Ended, NEW out, Finish(c, at, out),
         UNCHANGED <<objects, entry>>
  PROVE  Whole'
  <1> DEFINE r == [at |-> at, op |-> "none", want |-> <<>>, out |-> out, since |-> 0, reply |-> {}]
  <1>1. caller' = [caller EXCEPT ![c] = r] /\ r.at # "listed"
    BY DEF Finish, Ended
  <1> HIDE DEF r
  <1> QED BY <1>1, WholeMoves

\* A state that gets a name gets it now, which no list was made after.
LEMMA UsersWhole ==
  ASSUME IInv, Whole, Users
  PROVE  Whole'
  <1>1. Traced /\ UNCHANGED <<entry, caller>> /\ TypeOK
    BY UsersGain DEF Gains, Traced, Users, IInv, CacheInv
  <1>2. ASSUME NEW e \in Entries, entry[e].known
        PROVE  Full(objects', entry[e].list, entry[e].fetchedAt - Timeout)
    <2>1. entry[e].fetchedAt - Timeout \in Int /\ entry[e].fetchedAt - Timeout <= clock
      BY Typed, Parameters DEF IInv, CacheInv, Timed
    <2> QED BY <1>1, <1>2, <2>1, FullStays DEF Whole
  <1>3. ASSUME NEW c \in Callers, caller[c].at = "listed"
        PROVE  Full(objects', caller[c].reply, caller[c].since)
    <2>1. caller[c].since \in Int /\ caller[c].since <= clock
      BY <1>3, Typed DEF IInv, CacheInv, Timed, InFlight, Holding
    <2> QED BY <1>1, <1>3, <2>1, FullStays DEF Whole
  <1> QED BY <1>1, <1>2, <1>3 DEF Whole

\* Where a list call brings every state, lists are whole.
THEOREM AlwaysWhole == ASSUME OnePage PROVE Spec => []Whole
  <1>1. Init => Whole
    BY DEF Init, Whole
  <1>2. IInv /\ Whole /\ [Next]_vars => Whole'
    <2> SUFFICES ASSUME IInv, Whole, [Next]_vars PROVE Whole'
      OBVIOUS
    <2>1. CASE UNCHANGED vars
      BY <2>1 DEF vars, Whole
    <2>2. ASSUME NEW c \in Callers, ResolveStateID(c) \/ Steps(c)
          PROVE  Whole'
      BY <2>2, BeginWhole, AcquireWhole, ListServedWhole, ListReturnsWhole DEF ResolveStateID, Steps
    <2>3. ASSUME NEW c \in Callers, Answer(c)
          PROVE  Whole'
      <3>1. "missed" \in Ended /\ "done" \in Ended /\ UNCHANGED <<objects, entry>>
        BY <2>3 DEF Ended, Answer
      <3>2. \E at \in Ended : \E out : Finish(c, at, out)
        BY <2>3, <3>1 DEF Answer
      <3> QED BY <3>1, <3>2, FinishWhole
    <2>4. ASSUME NEW c \in Callers, CallFails(c)
          PROVE  Whole'
      <3>1. "failed" \in Ended /\ UNCHANGED <<objects, entry>> /\ Finish(c, "failed", <<>>)
        BY <2>4 DEF Ended, CallFails
      <3> QED BY <3>1, FinishWhole
    <2>5. CASE Tick
      BY <2>5 DEF Tick, Whole
    <2> QED BY <2>1, <2>2, <2>3, <2>4, <2>5, UsersWhole DEF Next, CallerSteps
  <1> QED BY <1>1, <1>2, AlwaysIInv, PTL DEF Spec

\* Where a list call brings every state, a name is reported missing only as long
\* after a state took it as a list is used and a call takes.
THEOREM MissesAreRecent == ASSUME OnePage PROVE Spec => MissesExpire
  <1> DEFINE Recent ==
        \A c \in Callers : Ends(c, "missed") =>
          \A i \in Live : objects[i].name = caller[c].want[1] =>
            objects[i].since > clock - TTL - Timeout
  <1>1. IInv /\ Whole /\ [Next]_vars => [Recent]_vars
    <2> SUFFICES ASSUME IInv, Whole, Next, NEW c \in Callers, Ends(c, "missed"),
                        NEW i \in Live, objects[i].name = caller[c].want[1]
                 PROVE  objects[i].since > clock - TTL - Timeout
      OBVIOUS
    <2> DEFINE e == entry[Home[c]]
               p == [id |-> i, name |-> objects[i].name]
    <2>1. Answer(c)
      BY OnlyAnswersEnd DEF Ends
    <2>2. Found(c) = {}
      BY <2>1, AnswerReady DEF Ends
    <2>3. p \notin e.list
      <3>1. p.name = caller[c].want[1]
        OBVIOUS
      <3> HIDE DEF p
      <3> QED BY <2>2, <3>1 DEF Found
    <2>4. /\ Full(objects, e.list, e.fetchedAt - Timeout) /\ clock - e.fetchedAt < TTL
          /\ clock \in Int /\ e.fetchedAt \in Int
      BY <2>1, AnswerFacts DEF Whole
    <2>5. ~(objects[i].since < e.fetchedAt - Timeout)
      BY <2>3, <2>4 DEF Full, Live
    <2>6. objects[i].since \in Int
      <3>1. objects[i] \in Object
        BY DEF Live, IInv, CacheInv, TypeOK
      <3> QED BY <3>1 DEF Object
    <2> HIDE DEF e, p
    <2> QED BY <2>4, <2>5, <2>6, Parameters
  <1> QED BY <1>1, AlwaysIInv, AlwaysWhole, PTL DEF Spec, MissesExpire
=============================================================================

----------------------------- MODULE IdentityCache ----------------------------
(***************************************************************************)
(* Identity resolution, internal/sync/identity.go: an account on one       *)
(* service is matched with one on the other, by the configured overrides or*)
(* else by e-mail address.  Plane's members are listed once per            *)
(* time-to-live; what a search of the forge found for an address, or that  *)
(* it found nothing, is kept as long.  Each of the two caches has a mutex, *)
(* held across the call that fills it; no caller holds both.               *)
(*                                                                         *)
(* Addresses are equal when they differ in case only.  As in ListCache a   *)
(* remote call is two steps, and steps inside the process take no time.    *)
(* The variables since and held and the caller's begun are history.        *)
(***************************************************************************)
EXTENDS Integers, FiniteSets

CONSTANTS
  Callers,    \* goroutines of one process
  Logins,     \* users of the forge
  Members,    \* members of the Plane workspace
  Emails,     \* addresses
  Override,   \* the users map of the configuration
  Initial,    \* the addresses accounts may have at first
  TTL, Timeout,
  MaxTime, MaxCalls, MaxFaults, MaxChanges   \* bounds

None == "none"
Noreply == "noreply"   \* the placeholder a webhook carries for an address

People == Logins \cup Members
Address == Emails \cup {None}

ASSUME OverrideAssumption ==
  DOMAIN Override \subseteq Logins /\ \A u \in DOMAIN Override : Override[u] \in Members
ASSUME NamesAssumption == {None, Noreply} \cap (Emails \cup People) = {}
ASSUME InitialAssumption == Initial \subseteq [People -> Address]
ASSUME TimeAssumption == TTL \in Nat \ {0} /\ Timeout \in Nat
ASSUME BudgetAssumption ==
  MaxTime \in Nat /\ MaxCalls \in Nat /\ MaxFaults \in Nat /\ MaxChanges \in Nat

VARIABLES
  clock,
  address,   \* each account's address
  since,     \* since when; -1 if it was always so
  held,      \* until when it had an address it has no more
  roster,    \* the list of members, and when it expires
  found,     \* the login found for each address, and when that expires
  lock,      \* the holder of each cache's mutex, as a set
  caller,
  left

vars == <<clock, address, since, held, roster, found, lock, caller, left>>

Calling == {"asking", "asked", "listing", "listed", "searching", "searched"}
Waiting == {"members", "logins"}
Ended == {"idle", "done"}
NobodyListed == [m \in Members |-> None]

Caller == [at : Calling \cup Waiting \cup Ended, op : {"member", "user"}, who : People \cup {None},
           email : Address \cup {Noreply}, match : People \cup Address,
           list : [Members -> Address], answer : People \cup {None},
           begun : 0..MaxTime, since : 0..MaxTime]

Idle == [at |-> "idle", op |-> "user", who |-> None, email |-> None, match |-> None,
         list |-> NobodyListed, answer |-> None, begun |-> 0, since |-> 0]

\* An entry without a login says that nobody was found.
ForgeCacheEntry == [login : Logins \cup {None}, expiry : 0..MaxTime + TTL]

TypeOK ==
  /\ clock \in 0..MaxTime
  /\ address \in [People -> Address] /\ since \in [People -> -1..MaxTime]
  /\ held \in [People -> [Emails -> -1..MaxTime]]
  /\ roster \in [list : [Members -> Address], expiry : 0..MaxTime + TTL]
  /\ found \in [Emails -> ForgeCacheEntry]
  /\ lock \in [Waiting -> SUBSET Callers]
  /\ caller \in [Callers -> Caller]
  /\ left \in [calls : 0..MaxCalls, faults : 0..MaxFaults, changes : 0..MaxChanges]

Init ==
  /\ clock = 0
  /\ address \in Initial /\ since = [x \in People |-> -1]
  /\ held = [x \in People |-> [e \in Emails |-> -1]]
  /\ roster = [list |-> NobodyListed, expiry |-> 0]
  /\ found = [e \in Emails |-> [login |-> None, expiry |-> 0]]
  /\ lock = [w \in Waiting |-> {}]
  /\ caller = [c \in Callers |-> Idle]
  /\ left = [calls |-> MaxCalls, faults |-> MaxFaults, changes |-> MaxChanges]

\* Account x had address e at time t or after.
Had(x, e, t) == address[x] = e \/ held[x][e] >= t
-----------------------------------------------------------------------------
\* Somebody gets, changes or loses an address.
Users ==
  /\ left.changes > 0
  /\ \E x \in People : \E e \in Address \ {address[x]} :
       /\ address' = [address EXCEPT ![x] = e]
       /\ held' = IF address[x] = None THEN held ELSE [held EXCEPT ![x][address[x]] = clock]
       /\ since' = [since EXCEPT ![x] = clock]
  /\ left' = [left EXCEPT !.changes = @ - 1]
  /\ UNCHANGED <<clock, roster, found, lock, caller>>

Goes(c, at) == caller' = [caller EXCEPT ![c] = [@ EXCEPT !.at = at, !.since = clock]]
Answer(c, a) == caller' = [caller EXCEPT ![c] = [Idle EXCEPT !.at = "done", !.answer = a]]
Unlock(c, w) == lock' = [lock EXCEPT ![w] = @ \ {c}]

\* On to the mutex of a cache, with address e to look for.
Asks(c, w, e) ==
  LET r == [caller[c] EXCEPT !.at = w, !.email = e]
  IN caller' = [caller EXCEPT ![c] = [r EXCEPT !.match = None, !.list = NobodyListed, !.since = 0]]

Begins(c, r) ==
  /\ caller[c].at \in Ended /\ left.calls > 0
  /\ caller' = [caller EXCEPT ![c] = r]
  /\ left' = [left EXCEPT !.calls = @ - 1]
  /\ UNCHANGED <<clock, address, since, held, roster, found, lock>>

\* The webhook of user u carries an address it has or had, the placeholder or
\* nothing.
ResolvePlaneMember(c) ==
  \E u \in Logins, e \in {Noreply, None} \cup Emails :
    LET r == [Idle EXCEPT !.op = "member", !.who = u, !.email = e]
    IN \/ /\ u \in DOMAIN Override
          /\ Begins(c, [Idle EXCEPT !.at = "done", !.answer = Override[u]])
       \/ /\ u \notin DOMAIN Override /\ e \in {Noreply, None}
          /\ Begins(c, [r EXCEPT !.at = "asking", !.since = clock])
       \/ /\ u \notin DOMAIN Override /\ e \in Emails /\ Had(u, e, 0)
          /\ Begins(c, [r EXCEPT !.at = "members"])

\* The map of overrides is gone through in any order.
ResolveForgeUser(c) ==
  \E m \in Members :
    LET r == [Idle EXCEPT !.op = "user", !.who = m, !.begun = clock]
        overrides == {u \in DOMAIN Override : Override[u] = m}
    IN \/ \E u \in overrides : Begins(c, [Idle EXCEPT !.at = "done", !.answer = u])
       \/ overrides = {} /\ Begins(c, [r EXCEPT !.at = "members"])
-----------------------------------------------------------------------------
(***************************************************************************)
(* lookupRealForgeEmail: a search by login, never cached.                  *)
(***************************************************************************)
AskServed(c) ==
  /\ caller[c].at = "asking"
  /\ caller' = [caller EXCEPT ![c] = [@ EXCEPT !.at = "asked", !.match = address[caller[c].who]]]
  /\ UNCHANGED <<clock, address, since, held, roster, found, lock, left>>

\* With an address, or with the placeholder, the members are looked through.
AskEnds(c, e) ==
  IF e = None THEN Answer(c, None) ELSE Asks(c, "members", e)

AskReturns(c) ==
  /\ caller[c].at = "asked"
  /\ AskEnds(c, IF caller[c].match # None THEN caller[c].match ELSE caller[c].email)
  /\ UNCHANGED <<clock, address, since, held, roster, found, lock, left>>
-----------------------------------------------------------------------------
(***************************************************************************)
(* listPlaneMembers, and what either resolver makes of the list.           *)
(***************************************************************************)
MemberWith(e, l) == {m \in Members : l[m] = e}

\* The sender's address is looked for among the members, or the member's address
\* is taken to search the forge with.
UseList(c, l) ==
  \/ /\ caller[c].op = "member"
     /\ \/ \E m \in MemberWith(caller[c].email, l) : Answer(c, m)
        \/ MemberWith(caller[c].email, l) = {} /\ Answer(c, None)
  \/ /\ caller[c].op = "user"
     /\ \/ l[caller[c].who] = None /\ Answer(c, None)
        \/ l[caller[c].who] # None /\ Asks(c, "logins", l[caller[c].who])

\* Mutant of FreshRoster: the list is used for ever.
RosterKept == roster.expiry # 0

FreshRoster == clock < roster.expiry

AcquireMembers(c) ==
  /\ caller[c].at = "members" /\ lock["members"] = {}
  /\ \/ FreshRoster /\ UseList(c, roster.list) /\ UNCHANGED lock
     \/ ~FreshRoster /\ Goes(c, "listing") /\ lock' = [lock EXCEPT !["members"] = {c}]
  /\ UNCHANGED <<clock, address, since, held, roster, found, left>>

ListServed(c) ==
  /\ caller[c].at = "listing"
  /\ caller' = [caller EXCEPT ![c] = [@ EXCEPT !.at = "listed",
                                              !.list = [m \in Members |-> address[m]]]]
  /\ UNCHANGED <<clock, address, since, held, roster, found, lock, left>>

ListReturns(c) ==
  /\ caller[c].at = "listed"
  /\ roster' = [list |-> caller[c].list, expiry |-> clock + TTL]
  /\ UseList(c, caller[c].list)
  /\ Unlock(c, "members")
  /\ UNCHANGED <<clock, address, since, held, found, left>>
-----------------------------------------------------------------------------
(***************************************************************************)
(* lookupForgeByEmail.                                                     *)
(***************************************************************************)
FreshLogin(e) == clock < found[e].expiry

\* Mutant of AcquireLogins: the entry is looked at before the mutex is taken.
LookBeforeLock(c) ==
  /\ caller[c].at = "logins"
  /\ \/ FreshLogin(caller[c].email) /\ Answer(c, found[caller[c].email].login)
     \/ ~FreshLogin(caller[c].email) /\ Goes(c, "searching")
  /\ UNCHANGED <<clock, address, since, held, roster, found, lock, left>>

AcquireLogins(c) ==
  /\ caller[c].at = "logins" /\ lock["logins"] = {}
  /\ \/ /\ FreshLogin(caller[c].email)
        /\ Answer(c, found[caller[c].email].login)
        /\ UNCHANGED lock
     \/ /\ ~FreshLogin(caller[c].email)
        /\ Goes(c, "searching")
        /\ lock' = [lock EXCEPT !["logins"] = {c}]
  /\ UNCHANGED <<clock, address, since, held, roster, found, left>>

LoginWith(e) == {u \in Logins : address[u] = e}

\* Of the users found those with another address are left out.
SearchServed(c) ==
  /\ caller[c].at = "searching"
  /\ \E u \in IF LoginWith(caller[c].email) = {} THEN {None} ELSE LoginWith(caller[c].email) :
       caller' = [caller EXCEPT ![c] = [@ EXCEPT !.at = "searched", !.match = u]]
  /\ UNCHANGED <<clock, address, since, held, roster, found, lock, left>>

SearchReturns(c) ==
  /\ caller[c].at = "searched"
  /\ found' = [found EXCEPT ![caller[c].email] =
                 [login |-> caller[c].match, expiry |-> clock + TTL]]
  /\ Answer(c, caller[c].match)
  /\ Unlock(c, "logins")
  /\ UNCHANGED <<clock, address, since, held, roster, left>>
-----------------------------------------------------------------------------
\* Mutant of CallFails: a failed search leaves its mutex locked.
CallFailsLocked(c) ==
  /\ left.faults > 0
  /\ caller[c].at \in {"searching", "searched"} /\ Answer(c, None)
  /\ left' = [left EXCEPT !.faults = @ - 1]
  /\ UNCHANGED <<clock, address, since, held, roster, found, lock>>

\* Mutant of CallFails: a failed search is kept as one that found nobody.
CallFailsKept(c) ==
  /\ left.faults > 0
  /\ caller[c].at \in {"searching", "searched"} /\ Answer(c, None) /\ Unlock(c, "logins")
  /\ found' = [found EXCEPT ![caller[c].email] = [login |-> None, expiry |-> clock + TTL]]
  /\ left' = [left EXCEPT !.faults = @ - 1]
  /\ UNCHANGED <<clock, address, since, held, roster>>

\* A remote call ends with an error, served or not: nothing is kept, and the
\* resolver goes on with less or answers that it knows nobody.
CallFails(c) ==
  /\ left.faults > 0
  /\ \/ caller[c].at \in {"asking", "asked"} /\ AskEnds(c, caller[c].email) /\ UNCHANGED lock
     \/ caller[c].at \in {"listing", "listed"} /\ Answer(c, None) /\ Unlock(c, "members")
     \/ caller[c].at \in {"searching", "searched"} /\ Answer(c, None) /\ Unlock(c, "logins")
  /\ left' = [left EXCEPT !.faults = @ - 1]
  /\ UNCHANGED <<clock, address, since, held, roster, found>>

\* Nobody waits for time to pass but who waits for a call to end, and no call
\* takes longer than Timeout.
Tick ==
  /\ clock < MaxTime
  /\ \A c \in Callers :
       /\ caller[c].at \in Waiting => lock[caller[c].at] # {}
       /\ caller[c].at \in Calling => clock - caller[c].since < Timeout
  /\ clock' = clock + 1
  /\ UNCHANGED <<address, since, held, roster, found, lock, caller, left>>

CallerSteps(c) ==
  \/ AskServed(c) \/ AskReturns(c)
  \/ AcquireMembers(c) \/ ListServed(c) \/ ListReturns(c)
  \/ AcquireLogins(c) \/ SearchServed(c) \/ SearchReturns(c)

Next ==
  \/ Users
  \/ \E c \in Callers : ResolvePlaneMember(c) \/ ResolveForgeUser(c) \/ CallerSteps(c) \/ CallFails(c)
  \/ Tick

Spec == Init /\ [][Next]_vars
-----------------------------------------------------------------------------
Ends(c, op) ==
  caller[c].at \notin Ended /\ caller[c].op = op /\ caller'[c].at = "done"

\* How long before it is used something in a cache may have been true.
Age == TTL + Timeout

\* A forge user is never taken for a member with whom it has no address in
\* common, at most as long ago as the list of members may be old.
MemberCurrent ==
  [][\A c \in Callers : Ends(c, "member") /\ caller'[c].answer # None =>
       \E e \in Emails : /\ Had(caller[c].who, e, 0)
                         /\ Had(caller'[c].answer, e, clock - Age + 1)]_vars

\* Nor is a member taken for a stranger on the forge, although its address is
\* read before the search's mutex is waited for.
LoginCurrent ==
  [][\A c \in Callers : Ends(c, "user") /\ caller'[c].answer # None =>
       \E e \in Emails : /\ Had(caller[c].who, e, caller[c].begun - Age + 1)
                         /\ Had(caller'[c].answer, e, clock - Age + 1)]_vars

\* Nobody is answered only as long after the two accounts got the same address (a
\* webhook may still carry an older one, unless there was none): that nobody was found
\* is kept no longer than a find.  Only who asked a call that failed is answered so for
\* want of luck, at that step or, by the placeholder, after it; a failure leaves nothing
\* behind for others.
MissesExpire ==
  [][left'.faults = left.faults => \A c \in Callers :
       /\ Ends(c, "user") /\ caller'[c].answer = None =>
            \A u \in Logins : /\ address[u] # None
                              /\ address[u] = address[caller[c].who]
                              /\ since[caller[c].who] <= caller[c].begun - Age
                              => since[u] > clock - Age
       /\ /\ Ends(c, "member") /\ caller'[c].answer = None
          /\ caller[c].email = Noreply => left.faults = MaxFaults
          => \A m \in Members : /\ address[m] # None
                                /\ address[m] = address[caller[c].who]
                                /\ since[caller[c].who] = -1
                                => since[m] > clock - Age]_vars

\* Callers that come together share one call: what was listed or found is
\* replaced only when it is too old, whatever was found.
OneCallPerWindow ==
  [][/\ roster' # roster /\ roster.expiry # 0 => roster'.expiry - roster.expiry >= TTL
     /\ \A e \in Emails : found'[e] # found[e] /\ found[e].expiry # 0 =>
          found'[e].expiry - found[e].expiry >= TTL]_vars

\* A mutex is held by the caller of the call it guards and by nobody else, so no
\* failure leaves one locked and no caller waits for one while it holds another.
MutexHeld ==
  /\ lock["members"] = {c \in Callers : caller[c].at \in {"listing", "listed"}}
  /\ lock["logins"] = {c \in Callers : caller[c].at \in {"searching", "searched"}}
  /\ \A w \in Waiting : Cardinality(lock[w]) <= 1
=============================================================================

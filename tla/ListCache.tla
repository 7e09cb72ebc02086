------------------------------ MODULE ListCache ------------------------------
(***************************************************************************)
(* The part that the caches of internal/sync have in common: one entry per *)
(* project or repository in each process, filled by one call that lists the*)
(* named objects (states, labels) of the service, used for a time-to-live, *)
(* and guarded by a mutex that is held across that call.                   *)
(*                                                                         *)
(* Callers are the goroutines that resolve names.  A remote call is two    *)
(* steps, its effect on the service and the return of its response, and    *)
(* time may pass before each.  Steps inside the process take no time.      *)
(*                                                                         *)
(* objects[i].since and objects[i].held are history: no step reads them.   *)
(***************************************************************************)
EXTENDS Integers, Sequences, FiniteSets

CONSTANTS
  Entries,     \* the cache entries of one project, one per process
  Callers,     \* goroutines
  Home,        \* the entry each caller's process has
  Names,       \* names of objects
  Initial,     \* the names in use at first
  Unique,      \* the service refuses a name that is in use
  TTL,         \* how long a list is used
  Timeout,     \* how long a remote call can take
  PageSize,    \* objects on the one page a list call asks for
  MaxTime, MaxObjects, MaxCalls, MaxFaults, MaxChanges  \* bounds

ASSUME HomeAssumption == Home \in [Callers -> Entries]
ASSUME InitialAssumption == Initial \in Seq(Names) /\ Len(Initial) <= MaxObjects
ASSUME UniqueAssumption == Unique \in BOOLEAN
ASSUME TimeAssumption == TTL \in Nat \ {0} /\ Timeout \in Nat /\ PageSize \in Nat
ASSUME BudgetAssumption ==
  MaxTime \in Nat /\ MaxObjects \in Nat /\ MaxCalls \in Nat /\ MaxFaults \in Nat /\ MaxChanges \in Nat

VARIABLES
  clock,
  objects,   \* of the service; an object's ID is its place
  entry,     \* what each entry holds
  lock,      \* the caller that holds an entry's mutex, as a set
  caller,    \* what each caller is doing
  left       \* what is left of the budgets

vars == <<clock, objects, entry, lock, caller, left>>

IDs == 1..MaxObjects
Pair == [id : IDs, name : Names]

Object == [name : Names, gone : BOOLEAN, since : 0..MaxTime, held : [Names -> -1..MaxTime]]
Entry == [known : BOOLEAN, list : SUBSET Pair, fetchedAt : 0..MaxTime]

Holding == {"ready", "listing", "listed", "creating", "created"}
InFlight == Holding \ {"ready"}
Ended == {"idle", "done", "missed", "refused", "failed"}
Operations == {"none", "state", "ids", "names"}
Caller == [at : Holding \cup Ended \cup {"waiting"}, op : Operations, want : Seq(Names \cup IDs),
           out : Seq(Names \cup IDs), since : 0..MaxTime, reply : SUBSET Pair]

Budget == [calls : 0..MaxCalls, faults : 0..MaxFaults, changes : 0..MaxChanges]

TypeOK ==
  /\ clock \in 0..MaxTime
  /\ objects \in Seq(Object) /\ Len(objects) <= MaxObjects
  /\ entry \in [Entries -> Entry]
  /\ lock \in [Entries -> SUBSET Callers]
  /\ caller \in [Callers -> Caller]
  /\ left \in Budget

NewObject(n, t) ==
  [name |-> n, gone |-> FALSE, since |-> t, held |-> [m \in Names |-> -1]]

Init ==
  /\ clock = 0
  /\ objects = [i \in DOMAIN Initial |-> NewObject(Initial[i], 0)]
  /\ entry = [e \in Entries |-> [known |-> FALSE, list |-> {}, fetchedAt |-> 0]]
  /\ lock = [e \in Entries |-> {}]
  /\ caller = [c \in Callers |-> [at |-> "idle", op |-> "none", want |-> <<>>, out |-> <<>>,
                                  since |-> 0, reply |-> {}]]
  /\ left = [calls |-> MaxCalls, faults |-> MaxFaults, changes |-> MaxChanges]
-----------------------------------------------------------------------------
(***************************************************************************)
(* The service and its users.                                              *)
(***************************************************************************)
Live == {i \in DOMAIN objects : ~objects[i].gone}
InUse(n) == \E i \in Live : objects[i].name = n
Free(n) == Unique => ~InUse(n)

\* The first page of a list.
Page == {[id |-> i, name |-> objects[i].name] :
           i \in {j \in Live : Cardinality({k \in Live : k <= j}) <= PageSize}}

AddObject(n) ==
  /\ Len(objects) < MaxObjects
  /\ objects' = Append(objects, NewObject(n, clock))

UserAdds(n) == Free(n) /\ AddObject(n)

\* Object i loses its name now.
HeldTillNow(i) == [objects[i].held EXCEPT ![objects[i].name] = clock]

UserRenames(i, n) ==
  /\ i \in Live /\ n # objects[i].name /\ Free(n)
  /\ objects' = [objects EXCEPT ![i] = [name |-> n, gone |-> FALSE, since |-> clock,
                                       held |-> HeldTillNow(i)]]

UserDeletes(i) ==
  /\ i \in Live
  /\ objects' = [objects EXCEPT ![i] = [name |-> objects[i].name, gone |-> TRUE,
                                       since |-> objects[i].since, held |-> HeldTillNow(i)]]

Users ==
  /\ left.changes > 0
  /\ \/ \E n \in Names : UserAdds(n)
     \/ \E i \in DOMAIN objects, n \in Names : UserRenames(i, n)
     \/ \E i \in DOMAIN objects : UserDeletes(i)
  /\ left' = [left EXCEPT !.changes = @ - 1]
  /\ UNCHANGED <<clock, entry, lock, caller>>
-----------------------------------------------------------------------------
(***************************************************************************)
(* The callers.                                                            *)
(***************************************************************************)
\* Mutant of Fresh: a list is used for ever.
FreshForever(e) == entry[e].known

\* A list is used until it is TTL old.
Fresh(e) == entry[e].known /\ clock - entry[e].fetchedAt < TTL

Begin(c, o, w) ==
  /\ caller[c].at \in Ended /\ left.calls > 0
  /\ caller' = [caller EXCEPT ![c] = [at |-> "waiting", op |-> o, want |-> w, out |-> <<>>,
                                      since |-> clock, reply |-> {}]]
  /\ left' = [left EXCEPT !.calls = @ - 1]
  /\ UNCHANGED <<clock, objects, entry, lock>>

\* Mutant of Acquire: the mutex does not keep others out.
AcquireAnyway(c) ==
  /\ caller[c].at = "waiting"
  /\ lock' = [lock EXCEPT ![Home[c]] = {c}]
  /\ caller' = [caller EXCEPT ![c] = [@ EXCEPT !.since = clock,
                                      !.at = IF Fresh(Home[c]) THEN "ready" ELSE "listing"]]
  /\ UNCHANGED <<clock, objects, entry, left>>

\* Mutant of Acquire: the entry is stamped before the call, not after it.
AcquireAndStamp(c) ==
  /\ caller[c].at = "waiting" /\ lock[Home[c]] = {}
  /\ lock' = [lock EXCEPT ![Home[c]] = {c}]
  /\ caller' = [caller EXCEPT ![c] = [@ EXCEPT !.since = clock,
                                      !.at = IF Fresh(Home[c]) THEN "ready" ELSE "listing"]]
  /\ entry' = [entry EXCEPT ![Home[c]].fetchedAt = IF Fresh(Home[c]) THEN @ ELSE clock]
  /\ UNCHANGED <<clock, objects, left>>

\* Lock, and use the list or ask for a new one.
Acquire(c) ==
  /\ caller[c].at = "waiting" /\ lock[Home[c]] = {}
  /\ lock' = [lock EXCEPT ![Home[c]] = {c}]
  /\ caller' = [caller EXCEPT ![c] = [@ EXCEPT !.since = clock,
                                      !.at = IF Fresh(Home[c]) THEN "ready" ELSE "listing"]]
  /\ UNCHANGED <<clock, objects, entry, left>>

ListServed(c) ==
  /\ caller[c].at = "listing"
  /\ caller' = [caller EXCEPT ![c] = [@ EXCEPT !.at = "listed", !.reply = Page]]
  /\ UNCHANGED <<clock, objects, entry, lock, left>>

\* Mutant of ListReturns: the entry gets its expiry for the time it was fetched.
ListReturnsExpiry(c) ==
  /\ caller[c].at = "listed"
  /\ entry' = [entry EXCEPT ![Home[c]] =
                 [known |-> TRUE, list |-> caller[c].reply, fetchedAt |-> clock + TTL]]
  /\ caller' = [caller EXCEPT ![c] = [@ EXCEPT !.at = "ready", !.reply = {}]]
  /\ UNCHANGED <<clock, objects, lock, left>>

\* The list is stored, with the time its response came.
ListReturns(c) ==
  /\ caller[c].at = "listed"
  /\ entry' = [entry EXCEPT ![Home[c]] =
                 [known |-> TRUE, list |-> caller[c].reply, fetchedAt |-> clock]]
  /\ caller' = [caller EXCEPT ![c] = [@ EXCEPT !.at = "ready", !.reply = {}]]
  /\ UNCHANGED <<clock, objects, lock, left>>

\* Return, which unlocks.
Finish(c, at, out) ==
  /\ lock' = [lock EXCEPT ![Home[c]] = @ \ {c}]
  /\ caller' = [caller EXCEPT ![c] = [at |-> at, op |-> "none", want |-> <<>>, out |-> out,
                                      since |-> 0, reply |-> {}]]

\* Mutant of CallFails: an error leaves the entry locked.
CallFailsLocked(c) ==
  /\ caller[c].at \in InFlight /\ left.faults > 0
  /\ caller' = [caller EXCEPT ![c] = [at |-> "failed", op |-> "none", want |-> <<>>, out |-> <<>>,
                                      since |-> 0, reply |-> {}]]
  /\ left' = [left EXCEPT !.faults = @ - 1]
  /\ UNCHANGED <<clock, objects, entry, lock>>

\* A remote call ends with an error, before or after it took effect.
CallFails(c) ==
  /\ caller[c].at \in InFlight /\ left.faults > 0
  /\ Finish(c, "failed", <<>>)
  /\ left' = [left EXCEPT !.faults = @ - 1]
  /\ UNCHANGED <<clock, objects, entry>>

Steps(c) == Acquire(c) \/ ListServed(c) \/ ListReturns(c)

\* Nothing in the process waits for time to pass but a remote call, and no
\* remote call takes longer than Timeout.
Tick ==
  /\ clock < MaxTime
  /\ \A c \in Callers :
       /\ caller[c].at # "ready"
       /\ caller[c].at = "waiting" => lock[Home[c]] # {}
       /\ caller[c].at \in InFlight => clock - caller[c].since < Timeout
  /\ clock' = clock + 1
  /\ UNCHANGED <<objects, entry, lock, caller, left>>
-----------------------------------------------------------------------------
\* Two lists stored in one entry are at least TTL apart: callers that come
\* together share one call, however long it takes.
OneListPerWindow ==
  [][\A e \in Entries :
       entry'[e].fetchedAt # entry[e].fetchedAt /\ entry[e].known =>
         entry'[e].fetchedAt - entry[e].fetchedAt >= TTL]_vars

\* Who is let in is who holds the mutex, and there is one of them.
Exclusive ==
  /\ \A c \in Callers : caller[c].at \in Holding <=> c \in lock[Home[c]]
  /\ \A e \in Entries : \A c \in lock[e] : Home[c] = e /\ lock[e] = {c}

\* Object i had name n at time t or after.
NamedSince(i, n, t) ==
  \/ i \in Live /\ objects[i].name = n
  \/ i \in DOMAIN objects /\ objects[i].held[n] >= t
=============================================================================

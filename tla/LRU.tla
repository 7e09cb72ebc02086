--------------------------------- MODULE LRU ---------------------------------
(***************************************************************************)
(* The loop-break cache of internal/idemp/lru.go: a doubly linked list of  *)
(* keys, most recent first, and a map from a key's string to its list      *)
(* element.  One mutex is held for the whole of each call, so a call is one*)
(* step.                                                                   *)
(*                                                                         *)
(* The variables clock and last are history: no call reads them.           *)
(***************************************************************************)
EXTENDS Integers, Sequences

CONSTANTS
  Sources, Events, Targets,  \* what keys are made of; none holds a "|"
  Capacity,                  \* the capacity asked for, whatever its sign
  Elements,                  \* list elements the allocator may return
  MaxRecords                 \* bound on the number of calls of Record

\* lruKey.
Keys == [src : Sources, eventID : Events, targetObjID : Targets]

ASSUME CapacityAssumption == Capacity \in Int
ASSUME BoundAssumption == MaxRecords \in Nat

VARIABLES
  ll,      \* the elements of the list, front first
  value,   \* the key each element handed out holds
  idx,     \* the map from strings to elements
  last, clock, answer

vars == <<ll, value, idx, last, clock, answer>>

\* NewLRU.
cap == IF Capacity < 1 THEN 1 ELSE Capacity

\* lruKey.string: the fields joined by a bar, which neither a source nor a
\* delivery ID contains, so that two keys never have one string.
KeyString(k) == <<k.src, "|", k.eventID, "|", k.targetObjID>>

Strings == {KeyString(k) : k \in Keys}

Listed == {ll[i] : i \in DOMAIN ll}

TypeOK ==
  /\ ll \in Seq(Elements) /\ Len(ll) <= cap
  /\ Listed \subseteq DOMAIN value /\ \A el \in DOMAIN value : value[el] \in Keys
  /\ DOMAIN idx \subseteq Strings /\ \A s \in DOMAIN idx : idx[s] \in Elements
  /\ clock \in 0..MaxRecords
  /\ last \in [Keys -> 0..clock]

Init ==
  /\ ll = <<>> /\ value = <<>> /\ idx = <<>>
  /\ last = [k \in Keys |-> 0] /\ clock = 0 /\ answer = [op |-> "none"]

Returns(op, k, result) == answer' = [op |-> op, key |-> k, result |-> result]

Seen(k) ==
  /\ Returns("seen", k, KeyString(k) \in DOMAIN idx)
  /\ UNCHANGED <<ll, value, idx, last, clock>>

\* Mutant of Bumped: a key recorded again keeps its place.
NotBumped(el) == ll

\* list.MoveToFront.
Bumped(el) ==
  LET p == CHOOSE i \in DOMAIN ll : ll[i] = el
  IN [i \in DOMAIN ll |-> IF i = 1 THEN el ELSE IF i <= p THEN ll[i - 1] ELSE ll[i]]

\* list.PushFront.
Pushed(el) == [i \in 1..(Len(ll) + 1) |-> IF i = 1 THEN el ELSE ll[i - 1]]

\* What the eviction loop leaves of a list: its first cap elements.
Kept(list) == [i \in {j \in DOMAIN list : j <= cap} |-> list[i]]

\* Mutant of Unmapped: the map keeps the strings of evicted elements.
NeverUnmapped(list) == {}

\* The strings the eviction loop deletes from the map.
Unmapped(list) == {KeyString(value'[list[i]]) : i \in {j \in DOMAIN list : j > cap}}

Refresh(k) ==
  /\ KeyString(k) \in DOMAIN idx
  /\ ll' = Bumped(idx[KeyString(k)])
  /\ UNCHANGED <<value, idx>>
  /\ Returns("record", k, FALSE)

\* The map gets the new element first and loses the evicted ones after.
Insert(k) ==
  /\ KeyString(k) \notin DOMAIN idx
  /\ \E el \in Elements \ Listed :
       /\ value' = [e \in Listed \cup {el} |-> IF e = el THEN k ELSE value[e]]
       /\ ll' = Kept(Pushed(el))
       /\ idx' = [s \in (DOMAIN idx \cup {KeyString(k)}) \ Unmapped(Pushed(el)) |->
                    IF s = KeyString(k) THEN el ELSE idx[s]]
  /\ Returns("record", k, TRUE)

Record(k) ==
  /\ clock < MaxRecords
  /\ Refresh(k) \/ Insert(k)
  /\ clock' = clock + 1
  /\ last' = [last EXCEPT ![k] = clock + 1]

Next == \E k \in Keys : Seen(k) \/ Record(k)

Spec == Init /\ [][Next]_vars
-----------------------------------------------------------------------------
\* List and map agree: the map leads from each listed key's string to its
\* element and holds nothing else, so nothing leaks when elements are evicted
\* and no key is listed twice.
Coherent ==
  /\ DOMAIN idx = {KeyString(value[el]) : el \in Listed}
  /\ \A s \in DOMAIN idx : idx[s] \in Listed /\ KeyString(value[idx[s]]) = s
  /\ \A i, j \in DOMAIN ll : i # j => value[ll[i]] # value[ll[j]]

\* The list is ordered by recency, and whatever was pushed out of a full list is
\* older than everything in it.
Ordered ==
  /\ \A i, j \in DOMAIN ll : i < j => last[value[ll[i]]] > last[value[ll[j]]]
  /\ \A i \in DOMAIN ll : last[value[ll[i]]] # 0
  /\ \A k \in Keys : last[k] # 0 /\ (\A i \in DOMAIN ll : value[ll[i]] # k) =>
       Len(ll) = cap /\ \A i \in DOMAIN ll : last[value[ll[i]]] > last[k]

\* Seen and Record answer as a window over the cap most recent keys does.
Promise == INSTANCE Recency
PromiseSpec == Promise!RecencySpec
=============================================================================

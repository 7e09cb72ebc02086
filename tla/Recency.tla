------------------------------- MODULE Recency -------------------------------
(***************************************************************************)
(* What the loop-break cache of internal/idemp promises its callers,       *)
(* whatever it is made of: a key is seen if it is one of the Window keys   *)
(* recorded most recently.                                                 *)
(***************************************************************************)
EXTENDS Integers, FiniteSets

CONSTANTS
  Keys,        \* (source, event, target) triples
  Capacity,    \* the capacity asked for
  MaxRecords   \* bound on the number of calls of Record

VARIABLES
  last,    \* when a key was last recorded, 0 if never
  clock,   \* number of calls of Record
  answer   \* the last call and what it returned

\* "A non-positive capacity is clamped to 1."
Window == IF Capacity < 1 THEN 1 ELSE Capacity

Newer(k) == {j \in Keys : last[j] > last[k]}

Recent(k) == last[k] # 0 /\ Cardinality(Newer(k)) < Window

RecencyInit ==
  /\ last = [k \in Keys |-> 0]
  /\ clock = 0
  /\ answer = [op |-> "none"]

\* True if the key was not there.
Recorded(k) ==
  /\ clock < MaxRecords
  /\ answer' = [op |-> "record", key |-> k, result |-> ~Recent(k)]
  /\ clock' = clock + 1
  /\ last' = [last EXCEPT ![k] = clock + 1]

\* Looking does not make a key more recent.
Looked(k) ==
  /\ answer' = [op |-> "seen", key |-> k, result |-> Recent(k)]
  /\ UNCHANGED <<last, clock>>

RecencyNext == \E k \in Keys : Recorded(k) \/ Looked(k)

RecencySpec == RecencyInit /\ [][RecencyNext]_<<last, clock, answer>>
=============================================================================

------------------------------ MODULE StateCache -----------------------------
(***************************************************************************)
(* State resolution, internal/sync/state.go: a name from the configured    *)
(* state map is looked up in the project's list of states.                 *)
(***************************************************************************)
EXTENDS ListCache

\* The states in the list that have the name asked for.
Found(c) == {p.id : p \in {p \in entry[Home[c]].list : p.name = caller[c].want[1]}}

\* The first of them is answered.
Answer(c) ==
  /\ caller[c].at = "ready"
  /\ \/ Found(c) = {} /\ Finish(c, "missed", <<>>)
     \/ \E i \in Found(c) : (\A j \in Found(c) : i <= j) /\ Finish(c, "done", <<i>>)
  /\ UNCHANGED <<clock, objects, entry, left>>

\* ResolveStateID with a mapped name; without one it returns before the cache.
ResolveStateID(c) == \E n \in Names : Begin(c, "state", <<n>>)

CallerSteps(c) == Steps(c) \/ Answer(c)

Next ==
  \/ Users
  \/ \E c \in Callers : ResolveStateID(c) \/ CallerSteps(c) \/ CallFails(c)
  \/ Tick

Spec == Init /\ [][Next]_vars

\* Remote calls end and goroutines are scheduled.
FairSpec == Spec /\ \A c \in Callers : WF_vars(CallerSteps(c))
-----------------------------------------------------------------------------
Ends(c, at) == caller[c].at \notin Ended /\ caller'[c].at = at

\* A state answered for a name had that name within the time a list is used and
\* a call takes.
Current ==
  [][\A c \in Callers : Ends(c, "done") =>
       NamedSince(caller'[c].out[1], caller[c].want[1], clock - TTL - Timeout + 1)]_vars

\* A name is reported missing only as long after a state took it.
MissesExpire ==
  [][\A c \in Callers : Ends(c, "missed") =>
       \A i \in Live : objects[i].name = caller[c].want[1] =>
         objects[i].since > clock - TTL - Timeout]_vars

\* Every resolution ends: no error leaves the mutex locked.
Answered == \A c \in Callers : caller[c].at = "waiting" ~> caller[c].at \in Ended
=============================================================================

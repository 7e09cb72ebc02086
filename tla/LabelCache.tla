------------------------------ MODULE LabelCache -----------------------------
(***************************************************************************)
(* Label resolution, internal/sync/labels.go: names are turned into label  *)
(* IDs, and labels the list lacks are created; IDs are turned into names.  *)
(* Both use the same entry, and hold its mutex until they return.          *)
(***************************************************************************)
EXTENDS ListCache, FiniteSetsExt, SequencesExt

CONSTANTS
  Ops,        \* what callers ask for: "ids" of names, or "names" of IDs
  Blank,      \* the empty name
  MaxLabels   \* bound on the labels one call asks for

ASSUME LabelsAssumption == MaxLabels \in Nat

\* What the loops collect: the elements of w that are in S, in order.
Kept(w, S) ==
  LET kept[i \in 0..Len(w)] ==
        IF i = 0 THEN <<>>
        ELSE IF w[i] \in S THEN Append(kept[i - 1], w[i]) ELSE kept[i - 1]
  IN  kept[Len(w)]

\* byName: of two labels with one name the list's last is in the map.
ByName(e, n) == Max({p.id : p \in {p \in entry[e].list : p.name = n}})
Knows(e, n) == \E p \in entry[e].list : p.name = n

\* Empty names are skipped.
ResolveLabels(c) ==
  /\ "ids" \in Ops
  /\ \E w \in BoundedSeq(Names \cup {Blank}, MaxLabels) :
       w # <<>> /\ Begin(c, "ids", Kept(w, Names \ {Blank}))

\* A webhook carries the IDs of labels that were there when it was sent.
ResolveNames(c) ==
  /\ "names" \in Ops
  /\ \E w \in BoundedSeq(DOMAIN objects, MaxLabels) : w # <<>> /\ Begin(c, "names", w)

\* The places of the names still to be resolved that are not in the map.
Missing(c) ==
  {i \in Len(caller[c].out) + 1..Len(caller[c].want) : ~Knows(Home[c], caller[c].want[i])}

\* What the loop has found when it comes to place i.
FoundBefore(c, i) ==
  [j \in 1..(i - 1) |-> IF j \in DOMAIN caller[c].out THEN caller[c].out[j]
                        ELSE ByName(Home[c], caller[c].want[j])]

\* The loop over the names, up to the next one to be created.
LookUp(c) ==
  /\ caller[c].at = "ready" /\ caller[c].op = "ids"
  /\ IF Missing(c) = {}
     THEN Finish(c, "done", FoundBefore(c, Len(caller[c].want) + 1))
     ELSE /\ caller' = [caller EXCEPT ![c] = [@ EXCEPT !.at = "creating", !.since = clock,
                                              !.out = FoundBefore(c, Min(Missing(c)))]]
          /\ UNCHANGED lock
  /\ UNCHANGED <<clock, objects, entry, left>>

\* IDs that are not in the map are dropped.
LookUpNames(c) ==
  LET known == {p \in entry[Home[c]].list : p.id = ByName(Home[c], p.name)}
      found == Kept(caller[c].want, {p.id : p \in known})
  IN /\ caller[c].at = "ready" /\ caller[c].op = "names"
     /\ Finish(c, "done", [k \in DOMAIN found |-> (CHOOSE p \in known : p.id = found[k]).name])
     /\ UNCHANGED <<clock, objects, entry, left>>

\* The name whose label a caller creates.
Creating(c) == caller[c].want[Len(caller[c].out) + 1]

\* The service creates the label, or refuses its name.
CreateServed(c) ==
  /\ caller[c].at = "creating"
  /\ IF Free(Creating(c))
     THEN /\ AddObject(Creating(c))
          /\ caller' = [caller EXCEPT ![c] = [@ EXCEPT !.at = "created",
                          !.reply = {[id |-> Len(objects) + 1, name |-> Creating(c)]}]]
     ELSE /\ caller' = [caller EXCEPT ![c] = [@ EXCEPT !.at = "created"]]
          /\ UNCHANGED objects
  /\ UNCHANGED <<clock, entry, lock, left>>

\* Mutant of CreateReturns: new labels are put before those found.
CreateReturnsFirst(c) ==
  /\ caller[c].at = "created" /\ caller[c].reply # {}
  /\ entry' = [entry EXCEPT ![Home[c]].list = @ \cup caller[c].reply]
  /\ caller' = [caller EXCEPT ![c] = [@ EXCEPT !.at = "ready", !.reply = {},
                  !.out = SetToSeq({p.id : p \in caller[c].reply}) \o @]]
  /\ UNCHANGED <<lock, clock, objects, left>>

\* A new label goes into the map, and the loop on; an error ends the call.
CreateReturns(c) ==
  /\ caller[c].at = "created"
  /\ IF caller[c].reply = {}
     THEN Finish(c, "refused", <<>>) /\ UNCHANGED entry
     ELSE /\ entry' = [entry EXCEPT ![Home[c]].list = @ \cup caller[c].reply]
          /\ caller' = [caller EXCEPT ![c] = [@ EXCEPT !.at = "ready", !.reply = {},
                          !.out = caller[c].out \o SetToSeq({p.id : p \in caller[c].reply})]]
          /\ UNCHANGED lock
  /\ UNCHANGED <<clock, objects, left>>

CallerSteps(c) == Steps(c) \/ LookUp(c) \/ LookUpNames(c) \/ CreateServed(c) \/ CreateReturns(c)

Next ==
  \/ Users
  \/ \E c \in Callers : ResolveLabels(c) \/ ResolveNames(c) \/ CallerSteps(c) \/ CallFails(c)
  \/ Tick

Spec == Init /\ [][Next]_vars

\* Remote calls end and goroutines are scheduled.
FairSpec == Spec /\ \A c \in Callers : WF_vars(CallerSteps(c))
-----------------------------------------------------------------------------
Ends(c, op, at) == caller[c].at \notin Ended /\ caller[c].op = op /\ caller'[c].at = at

\* How old can be what a call relies on when it ends: the list was used until
\* it was TTL old, and took a call to fetch; each creation takes another.
Age == TTL + Timeout * MaxLabels

\* Each label answered for a name had that name a short time ago.
CurrentLabels ==
  [][\A c \in Callers : Ends(c, "ids", "done") =>
       /\ Len(caller'[c].out) = Len(caller[c].want)
       /\ \A i \in DOMAIN caller[c].want :
            NamedSince(caller'[c].out[i], caller[c].want[i], clock - Age + 1)]_vars

\* Each name answered was a short time ago the name of a label asked for, and a
\* label that has kept its name since then is not dropped.
CurrentNames ==
  [][\A c \in Callers : Ends(c, "names", "done") =>
       /\ \A n \in Range(caller'[c].out) : \E i \in Range(caller[c].want) :
            NamedSince(i, n, clock - TTL - Timeout + 1)
       /\ \A i \in Range(caller[c].want) \cap Live :
            objects[i].since <= clock - TTL - Timeout =>
              objects[i].name \in Range(caller'[c].out)]_vars

\* A creation is refused only for a name that was taken a short time ago, so
\* waiting helps.
RefusalsExpire ==
  [][\A c \in Callers : Ends(c, "ids", "refused") =>
       \A i \in Live : objects[i].name = Creating(c) =>
         objects[i].since > clock - Age - Timeout]_vars

\* Where the service allows it, a name gets one label per process, and a second
\* one only by a lost response or by a user's doing.
DuplicatesNeedCause ==
  \A n \in Names :
    Cardinality({i \in Live : objects[i].name = n}) <=
      Cardinality(Entries) + (MaxFaults - left.faults) + (MaxChanges - left.changes)

\* Every resolution ends: no error leaves the mutex locked.
Answered == \A c \in Callers : caller[c].at = "waiting" ~> caller[c].at \in Ended
=============================================================================

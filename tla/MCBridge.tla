------------------------------ MODULE MCBridge ------------------------------
(***************************************************************************)
(* The instances of BridgeProperties that TLC checks.                      *)
(***************************************************************************)
EXTENDS BridgeRefinement, TLC

\* Handlers are interchangeable.
HandlerSymmetry == Permutations(Workers)

NoBudget == [a \in Outside |-> 0]

\* Both forge states mapped, as in the sample configuration.
FullMap == [s \in ForgeStates |-> IF s = "open" THEN "todo" ELSE "done"]

NoPulls == [a \in PullActions |-> None]

\* Pull requests opened and merged move the item; a closed one does not.
SomePulls == [NoPulls EXCEPT !["opened"] = "review", !["merged"] = "done"]

LinkOf(r, p) == [repo |-> r, project |-> p, identifies |-> p, stateMap |-> FullMap,
                 prStateMap |-> NoPulls]

\* One repository, one project.
OneLink == {<<LinkOf("r1", "p1")>>}

\* The same, with both forge states mapped or with the closed one left alone.
FullOrPartial == {<<LinkOf("r1", "p1")>>,
                  <<[LinkOf("r1", "p1") EXCEPT !.stateMap["closed"] = None]>>}

\* One repository with pull request automation.
PullLink == {<<[LinkOf("r1", "p1") EXCEPT !.prStateMap = SomePulls]>>}

\* Two repositories feed one project; then the second moves to a project of its
\* own, or the first is no longer linked.
Rewired == {<<LinkOf("r1", "p1"), LinkOf("r2", "p1")>>,
            <<LinkOf("r1", "p1"), LinkOf("r2", "p2")>>,
            <<LinkOf("r2", "p1")>>}

-----------------------------------------------------------------------------
(***************************************************************************)
(* What users and faults may do in each run: one of a few scenarios.       *)
(***************************************************************************)

\* One issue's life, or a thread with comments from both ends, under two faults.
SerialBudgets ==
  {[NoBudget EXCEPT !["open"] = 1, !["edit"] = 1, !["flip"] = 2, !["fault"] = 2],
   [NoBudget EXCEPT !["open"] = 1, !["comment"] = 2, !["remark"] = 1, !["fault"] = 2]}

\* An issue and a work item created at the same time, an edit, a fault.
BothCreate ==
  [NoBudget EXCEPT !["open"] = 1, !["create"] = 1, !["edit"] = 1, !["fault"] = 1]

\* Comments on both ends of a mirrored issue, with another work item around.
BothComment ==
  [NoBudget EXCEPT !["open"] = 1, !["create"] = 1, !["comment"] = 1, !["remark"] = 1]

\* The same thread, with comments touched on the forge.
CommentsTouched ==
  [NoBudget EXCEPT !["open"] = 1, !["comment"] = 1, !["remark"] = 1, !["recomment"] = 2]

\* The same thread, with comments touched on Plane and the item deleted.
ItemDeleted ==
  [NoBudget EXCEPT !["open"] = 1, !["comment"] = 1, !["remark"] = 1,
                   !["touch"] = 1, !["delete"] = 1]

\* A pull request, an edit and a Plane user work on one item.
ItemMoves ==
  [NoBudget EXCEPT !["open"] = 1, !["edit"] = 1, !["pull"] = 1, !["move"] = 1,
                   !["delete"] = 1]

\* The same thread, with a restart in the middle of handlers.
Restarted ==
  [NoBudget EXCEPT !["open"] = 1, !["comment"] = 1, !["remark"] = 1, !["restart"] = 1]

CrossingBudgets ==
  {BothCreate, BothComment, CommentsTouched, ItemDeleted, ItemMoves, Restarted}

\* An issue and a work item around a restart, or an issue and a comment under a fault.
RewiredBudgets ==
  {[NoBudget EXCEPT !["open"] = 1, !["create"] = 1, !["restart"] = 1],
   [NoBudget EXCEPT !["open"] = 1, !["comment"] = 1, !["fault"] = 1]}

\* An issue and a comment under a fault.
OneFault == {[NoBudget EXCEPT !["open"] = 1, !["comment"] = 1, !["fault"] = 1]}

PlaneBornBudgets == {[NoBudget EXCEPT !["create"] = 1, !["comment"] = 1]}
=============================================================================

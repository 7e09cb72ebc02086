--------------------------- MODULE BridgeRefinement ---------------------------
(***************************************************************************)
(* The bridge and its services implement Mirroring.  Of each stored object *)
(* only its place and its origin count; texts, states, webhooks and        *)
(* handlers are hidden.                                                    *)
(***************************************************************************)
EXTENDS BridgeInvariant

ThreadOf(place, original) == [at |-> place, of |-> original]
RemarkOf(thread, original) == [on |-> thread, of |-> original]

Mirror == INSTANCE Mirroring WITH
  Links <- {l \in Repos \X Projects : Linked(l[1], l[2])},
  CommentsMarked <- KeepsCommentMarker,
  issue <- [n \in DOMAIN issues |-> ThreadOf(issues[n].repo, issues[n].by)],
  item <- [t \in DOMAIN items |-> ThreadOf(items[t].project, items[t].ref)],
  issueComment <- [c \in DOMAIN issueComments |->
                     RemarkOf(issueComments[c].issue, issueComments[c].by)],
  itemComment <- [c \in DOMAIN itemComments |->
                    RemarkOf(itemComments[c].item, itemComments[c].by)]

\* Every step of the bridge, its services and their users is invisible in
\* Mirroring or one of its steps: only users' originals are copied, threads over
\* links, comments to the counterpart of their thread, and nothing a copy points
\* to is changed later.  In the code: HandleForgeIssue, HandleForgeComment,
\* HandlePlaneWorkItem and HandlePlaneComment with the marker checks before them.
MirroringSpec == Mirror!Spec
=============================================================================

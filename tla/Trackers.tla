------------------------------ MODULE Trackers ------------------------------
(***************************************************************************)
(* The two services the bridge relays between: a forge (Forgejo or Gitea)  *)
(* with its repositories, and a Plane workspace with its projects.  Each   *)
(* keeps issues and comments, and queues a webhook for every change to     *)
(* them, whoever made it.  This module holds both stores, the webhook      *)
(* queue, and what the services' own users do.                             *)
(*                                                                         *)
(* None of this is code of the repository: it is what the bridge's clients *)
(* and handlers (internal/forge, internal/plane, internal/sync) rely on.   *)
(*                                                                         *)
(* Text is abstracted to what the bridge's decisions tell apart.  A title  *)
(* and a body are a revision number; of a body we also know whether it     *)
(* ends with a loop-break marker.                                          *)
(***************************************************************************)
EXTENDS Integers, Sequences, FiniteSets

CONSTANTS
  Repos,              \* forge repositories ("owner/repo")
  Projects,           \* Plane projects
  PlaneStates,        \* workflow states of a project
  DefaultState,       \* the state Plane gives a work item created without one
  KeepsBodyMarker,    \* Plane keeps HTML comments in a work item description
  KeepsCommentMarker, \* Plane keeps HTML comments in a comment
  UniqueRefs,         \* Plane refuses a second item with the same external ref
  Budgets             \* how often each kind of outside step may happen: one of them holds

\* Everything that happens to the bridge from outside, each with a budget.
Outside == {"open", "edit", "flip", "comment", "recomment", "pull", "create",
            "move", "delete", "remark", "touch", "fault", "restart"}

ASSUME DefaultAssumption == DefaultState \in PlaneStates
ASSUME SwitchAssumption == /\ KeepsBodyMarker \in BOOLEAN
                           /\ KeepsCommentMarker \in BOOLEAN
                           /\ UniqueRefs \in BOOLEAN
ASSUME BudgetsAssumption == Budgets \subseteq [Outside -> Nat]

VARIABLES
  issues,         \* forge issues; an index is the issue number
  issueComments,  \* forge comments
  items,          \* Plane work items
  itemComments,   \* Plane comments
  hooks,          \* every webhook ever queued; an index is a delivery ID
  due,            \* the deliveries the sender still has to attempt
  spent           \* how often each kind of outside step has happened

trackerVars == <<issues, issueComments, items, itemComments, hooks, due, spent>>

IssueKinds == {"opened", "edited", "closed", "reopened"}
PullKinds == {"pr_opened", "pr_reopened", "pr_merged", "pr_closed", "pr_edited",
              "pr_review"}
ForgeKinds == IssueKinds \cup PullKinds \cup {"issue_comment", "issue_comment_touched"}
PlaneKinds == {"item_created", "item_updated", "item_deleted", "item_comment",
               "item_comment_touched"}

\* `by' is the id of the object on the other side this one was copied from by
\* the bridge, 0 if a user made it.  `ref' is the external reference Plane
\* stores with an item the bridge created, 0 for any other item.
Issue == [repo : Repos, by : Nat, rev : Nat, open : BOOLEAN, marked : BOOLEAN]
Item == [project : Projects, ref : Nat, repo : Repos \cup {"-"}, rev : Nat,
         state : PlaneStates, live : BOOLEAN]
IssueComment == [issue : Nat, by : Nat, marked : BOOLEAN]
ItemComment == [item : Nat, by : Nat, marked : BOOLEAN]

\* A webhook payload is a snapshot taken when the change was made: the object
\* (`on'), the comment if there is one, the revision, and which of the two
\* bodies in the payload end with a marker.  `home' is the repository or project.
Hook == [kind : ForgeKinds \cup PlaneKinds, home : Repos \cup Projects, on : Nat,
         comment : Nat, rev : Nat, bodyMarked : BOOLEAN, commentMarked : BOOLEAN]

TrackersTypeOK ==
  /\ issues \in Seq(Issue)
  /\ issueComments \in Seq(IssueComment)
  /\ items \in Seq(Item)
  /\ itemComments \in Seq(ItemComment)
  /\ hooks \in Seq(Hook)
  /\ due \subseteq DOMAIN hooks
  /\ spent \in [Outside -> Nat]

TrackersInit ==
  /\ issues = <<>> /\ issueComments = <<>>
  /\ items = <<>> /\ itemComments = <<>>
  /\ hooks = <<>> /\ due = {}
  /\ spent = [act \in Outside |-> 0]

\* The bounds on a run.
Spend(act) ==
  /\ \E b \in Budgets : spent[act] < b[act] /\ \A a \in Outside : spent[a] <= b[a]
  /\ spent' = [spent EXCEPT ![act] = @ + 1]

Queue(h) == hooks' = Append(hooks, h) /\ due' = due \cup {Len(hooks) + 1}

IssueHook(kind, n, issue) ==
  [kind |-> kind, home |-> issue.repo, on |-> n, comment |-> 0, rev |-> issue.rev,
   bodyMarked |-> issue.marked, commentMarked |-> FALSE]

\* The payload of a forge comment event carries the issue, body included.
IssueCommentHook(kind, c, comment, issue) ==
  [kind |-> kind, home |-> issue.repo, on |-> comment.issue, comment |-> c,
   rev |-> issue.rev, bodyMarked |-> issue.marked, commentMarked |-> comment.marked]

\* Only a description the bridge wrote can end with a marker.
ItemHook(kind, n, item) ==
  [kind |-> kind, home |-> item.project, on |-> n, comment |-> 0, rev |-> item.rev,
   bodyMarked |-> item.ref # 0 /\ KeepsBodyMarker, commentMarked |-> FALSE]

\* The payload of a Plane comment event does not carry the work item's body.
ItemCommentHook(kind, c, comment, item) ==
  [kind |-> kind, home |-> item.project, on |-> comment.item, comment |-> c, rev |-> 0,
   bodyMarked |-> FALSE, commentMarked |-> comment.marked]
-----------------------------------------------------------------------------
(***************************************************************************)
(* The REST calls that change a store, and the webhook each one causes.    *)
(* Both users and the bridge go through them.                              *)
(***************************************************************************)

PostIssue(issue) ==
  /\ issues' = Append(issues, issue)
  /\ Queue(IssueHook("opened", Len(issues) + 1, issue))
  /\ UNCHANGED <<issueComments, items, itemComments>>

PatchIssue(n, issue, kind) ==
  /\ issues' = [issues EXCEPT ![n] = issue]
  /\ Queue(IssueHook(kind, n, issue))
  /\ UNCHANGED <<issueComments, items, itemComments>>

PostIssueComment(comment) ==
  /\ issueComments' = Append(issueComments, comment)
  /\ Queue(IssueCommentHook("issue_comment", Len(issueComments) + 1, comment,
                            issues[comment.issue]))
  /\ UNCHANGED <<issues, items, itemComments>>

PostItem(item) ==
  /\ items' = Append(items, item)
  /\ Queue(ItemHook("item_created", Len(items) + 1, item))
  /\ UNCHANGED <<issues, issueComments, itemComments>>

PatchItem(t, item, kind) ==
  /\ items' = [items EXCEPT ![t] = item]
  /\ Queue(ItemHook(kind, t, item))
  /\ UNCHANGED <<issues, issueComments, itemComments>>

PostItemComment(comment) ==
  /\ itemComments' = Append(itemComments, comment)
  /\ Queue(ItemCommentHook("item_comment", Len(itemComments) + 1, comment,
                           items[comment.item]))
  /\ UNCHANGED <<issues, issueComments, items>>

\* Mutant of WithRef: looks for another number than the one stamped on the item.
WithOtherRef(project, repo, n) ==
  {t \in DOMAIN items : /\ items[t].live
                        /\ items[t].project = project
                        /\ items[t].repo = repo
                        /\ items[t].ref = n + 1}

\* Live items of a project that carry the external reference (repo, n).
WithRef(project, repo, n) ==
  {t \in DOMAIN items : /\ items[t].live
                        /\ items[t].project = project
                        /\ items[t].repo = repo
                        /\ items[t].ref = n}
-----------------------------------------------------------------------------
(***************************************************************************)
(* What users do.  A user of either side never fakes a marker or an        *)
(* external reference, but may edit the marker out of an issue body the    *)
(* bridge wrote.                                                           *)
(***************************************************************************)

ForgeUserOpens(r) ==
  /\ Spend("open")
  /\ PostIssue([repo |-> r, by |-> 0, rev |-> 1, open |-> TRUE, marked |-> FALSE])

ForgeUserEdits(n) ==
  /\ Spend("edit")
  /\ \E m \in {issues[n].marked, FALSE} :
       PatchIssue(n, [issues[n] EXCEPT !.rev = @ + 1, !.marked = m], "edited")

ForgeUserFlips(n) ==
  /\ Spend("flip")
  /\ PatchIssue(n, [issues[n] EXCEPT !.open = ~@],
                IF issues[n].open THEN "closed" ELSE "reopened")

ForgeUserComments(n) ==
  /\ Spend("comment")
  /\ PostIssueComment([issue |-> n, by |-> 0, marked |-> FALSE])

\* Edits or deletes a comment; an edit may remove its marker.
ForgeUserTouchesComment(c) ==
  /\ Spend("recomment")
  /\ Queue(IssueCommentHook("issue_comment_touched", c,
                            [issueComments[c] EXCEPT !.marked = FALSE],
                            issues[issueComments[c].issue]))
  /\ UNCHANGED <<issues, issueComments, items, itemComments>>

\* A pull request naming item t as [IDENTIFIER-t] changes.
ForgeUserPulls(r, kind, t) ==
  /\ Spend("pull")
  /\ Queue([kind |-> kind, home |-> r, on |-> t, comment |-> 0, rev |-> 0,
            bodyMarked |-> FALSE, commentMarked |-> FALSE])
  /\ UNCHANGED <<issues, issueComments, items, itemComments>>

PlaneUserCreates(p) ==
  /\ Spend("create")
  /\ PostItem([project |-> p, ref |-> 0, repo |-> "-", rev |-> 1,
               state |-> DefaultState, live |-> TRUE])

PlaneUserMoves(t, s) ==
  /\ items[t].live /\ items[t].state # s
  /\ Spend("move")
  /\ PatchItem(t, [items[t] EXCEPT !.state = s], "item_updated")

PlaneUserDeletes(t) ==
  /\ items[t].live
  /\ Spend("delete")
  /\ PatchItem(t, [items[t] EXCEPT !.live = FALSE], "item_deleted")

PlaneUserComments(t) ==
  /\ items[t].live
  /\ Spend("remark")
  /\ PostItemComment([item |-> t, by |-> 0, marked |-> FALSE])

PlaneUserTouchesComment(c) ==
  /\ Spend("touch")
  /\ Queue(ItemCommentHook("item_comment_touched", c,
                           [itemComments[c] EXCEPT !.marked = FALSE],
                           items[itemComments[c].item]))
  /\ UNCHANGED <<issues, issueComments, items, itemComments>>

UserStep ==
  \/ \E r \in Repos : ForgeUserOpens(r)
  \/ \E n \in DOMAIN issues : \/ ForgeUserEdits(n)
                              \/ ForgeUserFlips(n)
                              \/ ForgeUserComments(n)
  \/ \E c \in DOMAIN issueComments : ForgeUserTouchesComment(c)
  \/ \E r \in Repos, kind \in PullKinds, t \in DOMAIN items : ForgeUserPulls(r, kind, t)
  \/ \E p \in Projects : PlaneUserCreates(p)
  \/ \E t \in DOMAIN items : \/ \E s \in PlaneStates : PlaneUserMoves(t, s)
                             \/ PlaneUserDeletes(t)
                             \/ PlaneUserComments(t)
  \/ \E c \in DOMAIN itemComments : PlaneUserTouchesComment(c)
=============================================================================

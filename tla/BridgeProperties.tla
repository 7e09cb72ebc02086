-------------------------- MODULE BridgeProperties --------------------------
(***************************************************************************)
(* What the bridge promises its two services, and the fairness under which *)
(* it promises that something happens.                                     *)
(***************************************************************************)
EXTENDS Bridge

IssueIds == DOMAIN issues
ItemIds == DOMAIN items

\* Nothing is on its way: no delivery left to attempt, no handler running.
Quiet == due = {} /\ \A w \in Workers : worker[w].pc = "idle"

\* An issue a forge user opened in a linked repository.
Mirrorable(n) == issues[n].by = 0 /\ LinkForRepo(issues[n].repo) # {}

Mirrors(n) == {t \in ItemIds : items[t].ref = n /\ items[t].repo = issues[n].repo}
-----------------------------------------------------------------------------
(***************************************************************************)
(* Safety.                                                                 *)
(***************************************************************************)

\* The loop is broken for issues: what the bridge copies is always a user's
\* original, never a copy it made itself.  In the code: the marker check of
\* handleForge and the external_source gate of handlePlaneWorkItemCreated.
NoBounce ==
  /\ \A n \in IssueIds : issues[n].by # 0 => items[issues[n].by].ref = 0
  /\ \A t \in ItemIds : items[t].ref # 0 => issues[items[t].ref].by = 0

\* The loop is broken for comments: a comment the bridge wrote on the forge is
\* never copied to Plane; one it wrote on Plane is never copied to the forge, as
\* long as Plane keeps its marker.  Markers are all that stops a comment.
CommentsBounceOnce ==
  /\ \A c \in DOMAIN itemComments :
       itemComments[c].by # 0 => issueComments[itemComments[c].by].by = 0
  /\ KeepsCommentMarker =>
       \A c \in DOMAIN issueComments :
         issueComments[c].by # 0 => itemComments[issueComments[c].by].by = 0

\* A copied comment ends up on the counterpart of the thread it was written on,
\* although its parent is looked up by one call and commented on by another.
RightThread ==
  /\ \A c \in DOMAIN itemComments :
       LET k == itemComments[c].by
       IN k # 0 => items[itemComments[c].item].ref = issueComments[k].issue
  /\ \A c \in DOMAIN issueComments :
       LET k == issueComments[c].by
       IN k # 0 => items[itemComments[k].item].ref = issueComments[c].issue

\* A copy is on the other end of a link of the original's repository or project:
\* an item refers to its issue's very repository; an issue is in the repository
\* of the first link of its item's project.
RightProject ==
  /\ \A t \in ItemIds : items[t].ref # 0 =>
       /\ issues[items[t].ref].repo = items[t].repo
       /\ \E cfg \in Configs : \E k \in DOMAIN cfg :
            cfg[k].repo = items[t].repo /\ cfg[k].project = items[t].project
  /\ \A n \in IssueIds : issues[n].by # 0 =>
       \E cfg \in Configs : \E k \in DOMAIN cfg :
         /\ cfg[k].repo = issues[n].repo
         /\ cfg[k].project = items[issues[n].by].project
         /\ \A j \in 1..(k - 1) : cfg[j].project # cfg[k].project

\* No two live work items of a project carry the same reference: the look-up
\* before the create keeps them apart (HandleForgeIssue's "no duplicate").
OneMirror ==
  \A t, u \in ItemIds :
    /\ t # u /\ items[t].live /\ items[u].live
    /\ items[t].ref # 0 /\ items[t].ref = items[u].ref
    => items[t].project # items[u].project

\* Once nothing is on its way, every issue a forge user opened in a linked
\* repository has a live work item with its current text, in the state
\* configured for its current state.
Converged ==
  Quiet => \A n \in IssueIds : Mirrorable(n) =>
    \E t \in Mirrors(n), k \in LinkForRepo(issues[n].repo) :
      LET want == links[k].stateMap[IF issues[n].open THEN "open" ELSE "closed"]
      IN /\ items[t].live /\ items[t].rev = issues[n].rev
         /\ want # None => items[t].state = want

\* Once nothing is on its way, no comment of a user on a mirrored thread was
\* lost, in either direction.
NoCommentLost ==
  Quiet =>
    /\ \A c \in DOMAIN issueComments :
         /\ issueComments[c].by = 0 /\ Mirrorable(issueComments[c].issue)
         => \E k \in DOMAIN itemComments : itemComments[k].by = c
    /\ \A c \in DOMAIN itemComments :
         /\ itemComments[c].by = 0 /\ items[itemComments[c].item].ref # 0
         => \E k \in DOMAIN issueComments : issueComments[k].by = c

\* Copies beyond the first of the same original.
Extra(comments) ==
  Cardinality({c \in DOMAIN comments : comments[c].by # 0})
    - Cardinality({comments[c].by : c \in DOMAIN comments} \ {0})

ExtraItems ==
  Cardinality({t \in ItemIds : items[t].ref # 0})
    - Cardinality({items[t].ref : t \in ItemIds} \ {0})

\* A second copy of anything is the price of a failure: of a lost response or
\* answer, or of a restart in the middle of some handlers.  Without failures the
\* bridge copies every original at most once, in any interleaving.
DuplicatesNeedFailures ==
  ExtraItems + Extra(issues) + Extra(itemComments) + Extra(issueComments)
    <= spent["fault"] + Cardinality(Workers) * spent["restart"]

\* README of internal/sync, of a redelivered comment: the loop-break LRU
\* "short-circuits the second delivery before it even reaches the engine".
SecondDeliveryStopped ==
  [][\A w \in Workers :
       /\ worker[w].pc = "idle" /\ worker'[w].pc # "idle"
       /\ hooks[worker'[w].hook].kind = "issue_comment"
       => worker'[w].hook \notin recorded]_vars

\* README of internal/sync: "any comment added on either side appears on the
\* other", for the threads of linked repositories and projects.
EveryCommentAppears ==
  Quiet =>
    /\ \A c \in DOMAIN issueComments :
         /\ issueComments[c].by = 0
         /\ LinkForRepo(issues[issueComments[c].issue].repo) # {}
         => \E k \in DOMAIN itemComments : itemComments[k].by = c
    /\ \A c \in DOMAIN itemComments :
         /\ itemComments[c].by = 0
         /\ LinkForPlaneProject(items[itemComments[c].item].project) # {}
         => \E k \in DOMAIN issueComments : issueComments[k].by = c

\* Text edits never move an item: a step that takes over an issue's text and
\* also changes the state is the reconciliation of a repeated "opened".
EditsKeepState ==
  [][\A t \in ItemIds :
       items'[t].rev # items[t].rev /\ items'[t].state # items[t].state
       => \E w \in Workers : Evt(w).kind = "opened" /\ worker[w].item = t]_vars
-----------------------------------------------------------------------------
(***************************************************************************)
(* Liveness.  A goroutine that runs is scheduled, and its remote calls end *)
(* (the clients time out after 30 s); the senders keep sending what is due.*)
(***************************************************************************)

Fairness ==
  /\ WF_vars(\E d \in DOMAIN hooks : Dismiss(d) \/ \E w \in Workers : Begin(w, d))
  /\ \A w \in Workers : WF_vars(Lookup(w) \/ Write(w) \/ Answer(w))

FairSpec == Spec /\ Fairness

\* Traffic dies out: once the users stop, so does the bridge.  A copy that was
\* copied back would keep the two services busy for ever.
Settles == <>[]Quiet

\* The opening of issue n is due, and its repository is linked.
Opening(n) ==
  /\ n \in IssueIds /\ Mirrorable(n)
  /\ \E d \in due : hooks[d].kind = "opened" /\ hooks[d].on = n

\* An issue opened in a linked repository gets its work item in the end, whatever
\* overtakes or interrupts its delivery, if senders repeat what was not answered;
\* unless the process is started again without a link for the repository.
EventuallyMirrored ==
  \A n \in UNION {1..b["open"] : b \in Budgets} :
    Opening(n) ~> (n \in IssueIds /\ (Mirrors(n) # {} \/ LinkForRepo(issues[n].repo) = {}))
=============================================================================

------------------------------- MODULE Bridge -------------------------------
(***************************************************************************)
(* plane-forge-bridge between the two services of Trackers: the webhook    *)
(* handlers of internal/server and the translator of internal/sync.        *)
(*                                                                         *)
(* Every accepted delivery runs in a goroutine of its own, here a worker.  *)
(* A handler is a look-up on Plane, a write on the other side, and an      *)
(* answer to the sender; each is one step, so handlers interleave between  *)
(* any two remote calls, as goroutines (or replicas) do.  The resolvers    *)
(* called between look-up and write (states, labels, members) change none  *)
(* of the state kept here: they only fail like any other remote call.      *)
(***************************************************************************)
EXTENDS Trackers

CONSTANTS
  Workers,  \* handlers that may run at the same time
  Configs,  \* the link lists an operator may start the process with
  Ordered,  \* each side sends a delivery only after the one before was answered
  Retries,  \* a sender repeats a delivery that got no answer, or a 500
  None      \* no state configured

ForgeStates == {"open", "closed"}
PullActions == {"opened", "merged", "closed"}

\* `identifies' is the project the link's project_identifier names; nothing in
\* the configuration loader ties it to the link's own project.
Link == [repo : Repos, project : Projects, identifies : Projects,
         stateMap : [ForgeStates -> PlaneStates \cup {None}],
         prStateMap : [PullActions -> PlaneStates \cup {None}]]

ASSUME WorkersAssumption == Workers # {}
ASSUME ConfigsAssumption == Configs \subseteq Seq(Link) /\ Configs # {}
ASSUME SenderAssumption == Ordered \in BOOLEAN /\ Retries \in BOOLEAN
ASSUME NamesAssumption == None \notin PlaneStates /\ "-" \notin Repos

VARIABLES
  links,     \* the configured links, in the order of the configuration file
  worker,    \* what each handler is doing
  recorded   \* deliveries of which a (source, delivery, target) was recorded

vars == <<trackerVars, links, worker, recorded>>

\* `item' is the work item the look-up found, 0 if there is none.  The outcome
\* is `done' if it names the object written, `skipped' if nothing was (both are
\* answered 202), `failed' for an error (500).  `heard' says the sender still
\* waits for the answer.
Worker == [pc : {"idle", "lookup", "write", "answer"}, hook : Nat, item : Nat,
           outcome : {"none", "done", "skipped", "failed"}, heard : BOOLEAN]

Idle == [pc |-> "idle", hook |-> 0, item |-> 0, outcome |-> "none", heard |-> FALSE]

TypeOK ==
  /\ TrackersTypeOK
  /\ links \in Configs
  /\ worker \in [Workers -> Worker]
  /\ \A w \in Workers : worker[w].pc # "idle" => worker[w].hook \in DOMAIN hooks
  /\ recorded \subseteq DOMAIN hooks

Init ==
  /\ TrackersInit
  /\ links \in Configs
  /\ worker = [w \in Workers |-> Idle]
  /\ recorded = {}
-----------------------------------------------------------------------------
(***************************************************************************)
(* Routing a delivery: the loop-break marker, then the kind and the link.  *)
(***************************************************************************)

\* Mutant of LinkForRepo: whatever the repository, the first link.
AnyLinkForRepo(r) == {k \in DOMAIN links : k = 1}

\* The first link of the configuration for a repository or a project, as the
\* set of its positions: empty or a singleton.
LinkForRepo(r) ==
  {k \in DOMAIN links : /\ links[k].repo = r
                        /\ \A j \in 1..(k - 1) : links[j].repo # r}

LinkForPlaneProject(p) ==
  {k \in DOMAIN links : /\ links[k].project = p
                        /\ \A j \in 1..(k - 1) : links[j].project # p}

\* Mutant of MarkerPresent: a marker in a comment is not looked for.
MarkerInBody(h) == h.bodyMarked

\* Where the server looks for a marker: the comment and the issue or item.
MarkerPresent(h) == h.bodyMarked \/ h.commentMarked

PRActionKey(kind) ==
  CASE kind \in {"pr_opened", "pr_reopened"} -> "opened"
    [] kind = "pr_merged" -> "merged"
    [] kind = "pr_closed" -> "closed"
    [] OTHER -> "none"

\* A pull request event moves an item only if the link opted in and maps it.
PRState(k, kind) ==
  IF PRActionKey(kind) = "none" THEN None ELSE links[k].prStateMap[PRActionKey(kind)]

\* The events the translator looks an item up for before it can act.
NeedsLookup(h) ==
  \/ /\ h.kind \in IssueKinds \cup {"issue_comment"}
     /\ LinkForRepo(h.home) # {}
  \/ /\ h.kind \in PullKinds
     /\ \E k \in LinkForRepo(h.home) : PRState(k, h.kind) # None
  \/ h.kind = "item_comment"

\* Mutant of MirrorsItem: no external_source gate, markers alone break the loop.
MirrorsAnyItem(h) == h.kind = "item_created" /\ LinkForPlaneProject(h.home) # {}

\* A new work item is mirrored unless its external_source says the bridge made it.
MirrorsItem(h) ==
  /\ h.kind = "item_created"
  /\ LinkForPlaneProject(h.home) # {}
  /\ items[h.on].ref = 0

Acted(h) == ~MarkerPresent(h) /\ (NeedsLookup(h) \/ MirrorsItem(h))

SideOf(d) == IF hooks[d].kind \in ForgeKinds THEN "forge" ELSE "plane"

Busy(d) == \E w \in Workers : worker[w].hook = d /\ worker[w].heard

Deliverable(d) ==
  /\ d \in due
  /\ Ordered => \A e \in 1..(d - 1) : SideOf(e) = SideOf(d) => e \notin due /\ ~Busy(e)

\* Mutant of Dismiss: an echo is refused with an error, so the sender repeats it.
DismissWithError(d) ==
  /\ Deliverable(d) /\ ~Acted(hooks[d])
  /\ UNCHANGED vars

\* Marker found (200), or no remote call to make (202): answered at once.
Dismiss(d) ==
  /\ Deliverable(d) /\ ~Acted(hooks[d])
  /\ due' = due \ {d}
  /\ UNCHANGED <<issues, issueComments, items, itemComments, hooks, spent, links,
                 worker, recorded>>

Begin(w, d) ==
  /\ worker[w].pc = "idle"
  /\ Deliverable(d) /\ Acted(hooks[d])
  /\ due' = due \ {d}
  /\ worker' = [worker EXCEPT ![w] =
       [Idle EXCEPT !.pc = IF NeedsLookup(hooks[d]) THEN "lookup" ELSE "write",
                    !.hook = d, !.heard = TRUE]]
  /\ UNCHANGED <<issues, issueComments, items, itemComments, hooks, spent, links, recorded>>
-----------------------------------------------------------------------------
(***************************************************************************)
(* The look-up.                                                            *)
(***************************************************************************)

\* The delivery a worker handles.
Evt(w) == hooks[worker[w].hook]

At(w, pc, kinds) == worker[w].pc = pc /\ Evt(w).kind \in kinds

To(w, pc, t) == worker' = [worker EXCEPT ![w] = [@ EXCEPT !.pc = pc, !.item = t]]

Answering(w, outcome) ==
  worker' = [worker EXCEPT ![w] = [@ EXCEPT !.pc = "answer", !.outcome = outcome]]

\* GetIssueByExternalRef: with several matches Plane may return any of them.
LookupByRef(w) ==
  /\ At(w, "lookup", IssueKinds \cup {"issue_comment"})
  /\ \E k \in LinkForRepo(Evt(w).home) :
       LET found == WithRef(links[k].project, links[k].repo, Evt(w).on)
       IN \/ \E t \in found : To(w, "write", t)
          \/ found = {} /\ Evt(w).kind = "opened" /\ To(w, "write", 0)
          \/ found = {} /\ Evt(w).kind # "opened" /\ Answering(w, "skipped")
  /\ UNCHANGED <<trackerVars, links, recorded>>

\* GetIssueBySequenceID, in the project the link's identifier names.
LookupBySequence(w) ==
  /\ At(w, "lookup", PullKinds)
  /\ \E k \in LinkForRepo(Evt(w).home) :
       LET t == Evt(w).on
       IN IF items[t].live /\ items[t].project = links[k].identifies
            THEN To(w, "write", t)
            ELSE Answering(w, "skipped")
  /\ UNCHANGED <<trackerVars, links, recorded>>

\* GetIssue, then parseExternalRef: an item that mirrors nothing is skipped, a
\* deleted one is an error.
LookupParent(w) ==
  /\ At(w, "lookup", {"item_comment"})
  /\ LET t == Evt(w).on
     IN \/ items[t].live /\ items[t].ref # 0 /\ To(w, "write", t)
        \/ items[t].live /\ items[t].ref = 0 /\ Answering(w, "skipped")
        \/ ~items[t].live /\ Answering(w, "failed")
  /\ UNCHANGED <<trackerVars, links, recorded>>

Lookup(w) == LookupByRef(w) \/ LookupBySequence(w) \/ LookupParent(w)
-----------------------------------------------------------------------------
(***************************************************************************)
(* The write.  Once the service has applied it, its response reaches the   *)
(* handler or is lost; a lost response is an error to the handler.         *)
(***************************************************************************)

\* A remote call goes wrong for want of luck, or at no cost once the sender has
\* hung up: that cancels the context all of the handler's calls run under.
Fault(w) == IF worker[w].heard THEN Spend("fault") ELSE UNCHANGED spent

\* Mutant of Applied: a response that arrived may still be reported as an error.
AppliedOrMisread(w) ==
  \/ Answering(w, "done") /\ UNCHANGED spent
  \/ Answering(w, "failed") /\ UNCHANGED spent

Applied(w) ==
  \/ Answering(w, "done") /\ UNCHANGED spent
  \/ Answering(w, "failed") /\ Fault(w)

Refused(w) ==
  /\ Answering(w, "failed")
  /\ UNCHANGED trackerVars

\* Mutant of Mapped: an unmapped state is sent all the same.
MappedBlindly(state, otherwise) == state

\* The state an item gets from a mapped name, or keeps when there is none.
Mapped(state, otherwise) == IF state = None THEN otherwise ELSE state

\* handleOpened, absent branch.
CreateItem(w) ==
  /\ At(w, "write", {"opened"}) /\ worker[w].item = 0
  /\ \E k \in LinkForRepo(Evt(w).home) :
       IF UniqueRefs /\ WithRef(links[k].project, links[k].repo, Evt(w).on) # {}
         THEN Refused(w)
         ELSE /\ PostItem([project |-> links[k].project, ref |-> Evt(w).on,
                           repo |-> links[k].repo, rev |-> Evt(w).rev,
                           state |-> Mapped(links[k].stateMap["open"], DefaultState),
                           live |-> TRUE])
              /\ Applied(w)
  /\ UNCHANGED <<links, recorded>>

\* UpdateIssue answers 404 for an item deleted since the look-up, or one that
\* is not in the project it is addressed in.
Update(w, item) ==
  IF items[worker[w].item].live /\ \E k \in LinkForRepo(Evt(w).home) :
                                     links[k].project = items[worker[w].item].project
    THEN PatchItem(worker[w].item, item, "item_updated") /\ Applied(w)
    ELSE Refused(w)

\* handleOpened, present branch: title, body and the open state.
Reconcile(w) ==
  /\ At(w, "write", {"opened"}) /\ worker[w].item # 0
  /\ \E k \in LinkForRepo(Evt(w).home) :
       Update(w, [items[worker[w].item] EXCEPT
                    !.rev = Evt(w).rev,
                    !.state = Mapped(links[k].stateMap["open"], @)])
  /\ UNCHANGED <<links, recorded>>

\* Mutant of UpdateText: an edit also sets the open state.
UpdateTextAndState(w) ==
  /\ At(w, "write", {"edited"})
  /\ \E k \in LinkForRepo(Evt(w).home) :
       Update(w, [items[worker[w].item] EXCEPT
                    !.rev = Evt(w).rev,
                    !.state = Mapped(links[k].stateMap["open"], @)])
  /\ UNCHANGED <<links, recorded>>

\* handleEdited: title and body, never the state.
UpdateText(w) ==
  /\ At(w, "write", {"edited"})
  /\ Update(w, [items[worker[w].item] EXCEPT !.rev = Evt(w).rev])
  /\ UNCHANGED <<links, recorded>>

\* Mutant of ForgeState: every state change closes.
ClosedState(kind) == "closed"

\* The forge state an event reports.
ForgeState(kind) == IF kind = "closed" THEN "closed" ELSE "open"

\* handleStateChange: only the state, and none if it is not mapped.
UpdateState(w) ==
  /\ At(w, "write", {"closed", "reopened"})
  /\ \E k \in LinkForRepo(Evt(w).home) :
       Update(w, [items[worker[w].item] EXCEPT
                    !.state = Mapped(links[k].stateMap[ForgeState(Evt(w).kind)], @)])
  /\ UNCHANGED <<links, recorded>>

\* HandleForgePullRequest, after the look-up.
MoveForPull(w) ==
  /\ At(w, "write", PullKinds)
  /\ \E k \in LinkForRepo(Evt(w).home) :
       Update(w, [items[worker[w].item] EXCEPT
                    !.state = Mapped(PRState(k, Evt(w).kind), @)])
  /\ UNCHANGED <<links, recorded>>

\* Mutant of CommentOnItem: the issue number is taken for the work item.
CommentOnNumber(w) ==
  /\ At(w, "write", {"issue_comment"})
  /\ Evt(w).on \in DOMAIN items
  /\ PostItemComment([item |-> Evt(w).on, by |-> Evt(w).comment,
                      marked |-> KeepsCommentMarker])
  /\ Applied(w)
  /\ UNCHANGED <<links, recorded>>

\* handleForgeCommentCreated.
CommentOnItem(w) ==
  /\ At(w, "write", {"issue_comment"})
  /\ IF items[worker[w].item].live
       THEN /\ PostItemComment([item |-> worker[w].item, by |-> Evt(w).comment,
                                marked |-> KeepsCommentMarker])
            /\ Applied(w)
       ELSE Refused(w)
  /\ UNCHANGED <<links, recorded>>

\* handlePlaneCommentCreated: the issue is named by the item's reference alone.
CommentOnIssue(w) ==
  /\ At(w, "write", {"item_comment"})
  /\ PostIssueComment([issue |-> items[worker[w].item].ref, by |-> Evt(w).comment,
                       marked |-> TRUE])
  /\ Applied(w)
  /\ UNCHANGED <<links, recorded>>

\* handlePlaneWorkItemCreated, after the resolvers.
CreateIssue(w) ==
  /\ At(w, "write", {"item_created"})
  /\ \E k \in LinkForPlaneProject(Evt(w).home) :
       PostIssue([repo |-> links[k].repo, by |-> Evt(w).on, rev |-> Evt(w).rev,
                  open |-> TRUE, marked |-> TRUE])
  /\ Applied(w)
  /\ UNCHANGED <<links, recorded>>

Write(w) ==
  \/ CreateItem(w) \/ Reconcile(w) \/ UpdateText(w) \/ UpdateState(w)
  \/ MoveForPull(w) \/ CommentOnItem(w) \/ CommentOnIssue(w) \/ CreateIssue(w)
-----------------------------------------------------------------------------
(***************************************************************************)
(* The answer, and what can go wrong with a delivery.                      *)
(***************************************************************************)

Requeued(ds) == due' = IF Retries THEN due \cup ds ELSE due

\* dispatch*: record the delivery if the outcome names a target, then respond.
Answer(w) ==
  /\ worker[w].pc = "answer"
  /\ recorded' = IF worker[w].outcome = "done" THEN recorded \cup {worker[w].hook} ELSE recorded
  /\ IF worker[w].outcome = "failed" /\ worker[w].heard
       THEN Requeued({worker[w].hook}) ELSE UNCHANGED due
  /\ worker' = [worker EXCEPT ![w] = Idle]
  /\ UNCHANGED <<issues, issueComments, items, itemComments, hooks, spent, links>>

\* Mutant of CallFails: the failure is swallowed and the event acknowledged.
CallFailsQuietly(w) ==
  /\ worker[w].pc \in {"lookup", "write"}
  /\ Fault(w)
  /\ Answering(w, "skipped")
  /\ UNCHANGED <<issues, issueComments, items, itemComments, hooks, due, links, recorded>>

\* A remote call fails before it takes effect: timeout, 5xx, cancelled request.
CallFails(w) ==
  /\ worker[w].pc \in {"lookup", "write"}
  /\ Fault(w)
  /\ Answering(w, "failed")
  /\ UNCHANGED <<issues, issueComments, items, itemComments, hooks, due, links, recorded>>

\* The sender gives up waiting and hangs up; until it notices, the handler goes on.
SenderTimesOut(w) ==
  /\ worker[w].pc # "idle" /\ worker[w].heard
  /\ Spend("fault")
  /\ worker' = [worker EXCEPT ![w].heard = FALSE]
  /\ Requeued({worker[w].hook})
  /\ UNCHANGED <<issues, issueComments, items, itemComments, hooks, links, recorded>>

\* The process dies and starts again, possibly with another configuration.
Restart ==
  /\ Spend("restart")
  /\ links' \in Configs
  /\ Requeued({worker[w].hook : w \in {v \in Workers : worker[v].heard}})
  /\ worker' = [w \in Workers |-> Idle]
  /\ recorded' = {}
  /\ UNCHANGED <<issues, issueComments, items, itemComments, hooks>>

Users == UserStep /\ UNCHANGED <<links, worker, recorded>>

Next ==
  \/ Users
  \/ \E d \in DOMAIN hooks : Dismiss(d) \/ \E w \in Workers : Begin(w, d)
  \/ \E w \in Workers : \/ Lookup(w) \/ Write(w) \/ Answer(w)
                        \/ CallFails(w) \/ SenderTimesOut(w)
  \/ Restart

Spec == Init /\ [][Next]_vars
=============================================================================

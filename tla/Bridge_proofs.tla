---------------------------- MODULE Bridge_proofs ----------------------------
(***************************************************************************)
(* Proof that Traceable is an invariant of Spec, for every set of          *)
(* repositories, projects, handlers and configurations, every budget and   *)
(* both behaviours of senders and of Plane; of the safety properties that  *)
(* follow from it; that an issue has at most one live item in a project    *)
(* where the code can keep it so (AtMostOne); that each failure costs at   *)
(* most so many copies too many (Paid); that senders who wait and repeat   *)
(* lose no comment (NothingLost); and that with one handler every copy     *)
(* comes to agree with its original (InStep).                              *)
(*                                                                         *)
(* Every step only adds objects and hooks, or changes what an object's     *)
(* origin does not depend on (Grows).  So what is known of an object, a    *)
(* hook or a handler stays true, and a step only has to establish it for   *)
(* what it adds.                                                           *)
(***************************************************************************)
EXTENDS BridgeInvariant, SequenceTheorems, FiniteSetTheorems, TLAPS

\* Appending to a sequence keeps its elements and adds one.
LEMMA Appended ==
  ASSUME NEW S, NEW s \in Seq(S), NEW e \in S, NEW t, t = Append(s, e)
  PROVE  /\ t \in Seq(S)
         /\ DOMAIN t = DOMAIN s \cup {Len(s) + 1}
         /\ Len(s) + 1 \notin DOMAIN s
         /\ \A i \in DOMAIN s : t[i] = s[i]
         /\ t[Len(s) + 1] = e
BY LenProperties

\* Replacing an element of a sequence keeps the others.
LEMMA Replaced ==
  ASSUME NEW S, NEW s \in Seq(S), NEW i \in DOMAIN s, NEW e \in S, NEW t,
         t = [s EXCEPT ![i] = e]
  PROVE  /\ t \in Seq(S)
         /\ DOMAIN t = DOMAIN s
         /\ \A j \in DOMAIN s : t[j] = IF j = i THEN e ELSE s[j]
<1>1. i \in 1..Len(s) /\ DOMAIN s = 1..Len(s)
  BY LenProperties
<1>2. /\ t \in Seq(S) /\ Len(t) = Len(s)
      /\ \A j \in 1..Len(s) : t[j] = IF j = i THEN e ELSE s[j]
  BY <1>1, ExceptSeq
<1>3. DOMAIN t = 1..Len(t)
  BY <1>2, LenProperties
<1> QED BY <1>1, <1>2, <1>3

\* What an element of a sequence is.
LEMMA Element ==
  ASSUME NEW S, NEW s \in Seq(S), NEW i \in DOMAIN s
  PROVE  s[i] \in S
BY LenProperties, ElementOfSeq

\* What no step ever takes back: objects, hooks, and what an object's origin is.
Grows ==
  /\ \A n \in IssueIds : /\ n \in IssueIds'
                         /\ issues'[n].by = issues[n].by
                         /\ issues'[n].repo = issues[n].repo
  /\ \A t \in ItemIds : /\ t \in ItemIds'
                        /\ items'[t].ref = items[t].ref
                        /\ items'[t].repo = items[t].repo
                        /\ items'[t].project = items[t].project
  /\ \A c \in DOMAIN issueComments : /\ c \in DOMAIN issueComments'
                                     /\ issueComments'[c] = issueComments[c]
  /\ \A c \in DOMAIN itemComments : /\ c \in DOMAIN itemComments'
                                    /\ itemComments'[c] = itemComments[c]
  /\ \A d \in DOMAIN hooks : d \in DOMAIN hooks' /\ hooks'[d] = hooks[d]
-----------------------------------------------------------------------------
(***************************************************************************)
(* What is known stays known when the stores grow.                         *)
(***************************************************************************)

\* A step that only lets the stores grow leaves a traceable issue traceable.
LEMMA IssueStaysOK ==
  ASSUME NEW x, Grows, IssueOK(x)
  PROVE  IssueOK(x)'
BY DEF Grows, IssueOK, LinkedFirst

LEMMA ItemStaysOK ==
  ASSUME NEW x, Grows, ItemOK(x)
  PROVE  ItemOK(x)'
BY DEF Grows, ItemOK, Linked

\* The same of a comment on an issue: its original does not go away.
LEMMA IssueCommentStaysOK ==
  ASSUME NEW x, Grows, StoresOK, IssueCommentOK(x)
  PROVE  IssueCommentOK(x)'
<1>1. x.issue \in IssueIds'
  BY DEF Grows, IssueCommentOK
<1>2. ASSUME x.by # 0
      PROVE  /\ x.by \in (DOMAIN itemComments)'
             /\ (items[itemComments[x.by].item].ref = x.issue)'
             /\ (KeepsCommentMarker => itemComments[x.by].by = 0)'
  <2>1. x.by \in DOMAIN itemComments /\ itemComments[x.by].item \in ItemIds
    BY <1>2 DEF StoresOK, IssueCommentOK, ItemCommentOK
  <2> QED BY <1>2, <2>1 DEF Grows, IssueCommentOK
<1> QED BY <1>1, <1>2 DEF IssueCommentOK

\* The same of a comment on a work item.
LEMMA ItemCommentStaysOK ==
  ASSUME NEW x, Grows, ItemCommentOK(x)
  PROVE  ItemCommentOK(x)'
BY DEF Grows, ItemCommentOK

LEMMA HookStaysOK ==
  ASSUME NEW h, Grows, HookOK(h)
  PROVE  HookOK(h)'
<1>1. /\ h.kind \in IssueKinds \cup {"issue_comment", "issue_comment_touched"} =>
           h.on \in IssueIds' /\ h.home = issues'[h.on].repo
      /\ h.kind = "opened" /\ issues'[h.on].by # 0 => h.bodyMarked
  BY DEF Grows, HookOK, IssueKinds
<1>2. /\ h.kind \in PlaneKinds => h.on \in ItemIds' /\ h.home = items'[h.on].project
      /\ h.kind \in PullKinds => h.on \in ItemIds'
  BY DEF Grows, HookOK
<1>3. /\ (h.kind = "issue_comment" =>
            /\ h.comment \in DOMAIN issueComments
            /\ issueComments[h.comment].issue = h.on
            /\ issueComments[h.comment].by # 0 => h.commentMarked)'
      /\ (h.kind = "item_comment" =>
            /\ h.comment \in DOMAIN itemComments
            /\ itemComments[h.comment].item = h.on
            /\ KeepsCommentMarker /\ itemComments[h.comment].by # 0 => h.commentMarked)'
  BY DEF Grows, HookOK
<1> QED BY <1>1, <1>2, <1>3 DEF HookOK

\* The same of a handler: what it has looked up stays what it was.
LEMMA HandlerStaysOK ==
  ASSUME NEW v, Grows, StoresOK, HandlerOK(v)
  PROVE  HandlerOK(v)'
<1>a. CASE v.pc = "idle"
  BY <1>a DEF HandlerOK
<1> SUFFICES ASSUME v.pc # "idle" PROVE HandlerOK(v)'
  BY <1>a
<1> DEFINE h == hooks[v.hook]
<1>1. v.hook \in DOMAIN hooks /\ v.hook \in DOMAIN hooks' /\ hooks'[v.hook] = h
  BY DEF HandlerOK, Grows
<1>2. HookOK(h)
  BY <1>1 DEF StoresOK
<1>3. h.kind = "item_created" => h.on \in ItemIds
  BY <1>2 DEF HookOK, PlaneKinds
<1>4. v.item # 0 => v.item \in ItemIds /\ v.item \in ItemIds'
                    /\ items'[v.item].ref = items[v.item].ref
  BY DEF HandlerOK, Grows
<1>5. h.kind = "item_created" => items'[h.on].ref = 0
  BY <1>3 DEF HandlerOK, Grows
<1>6. ~MarkerPresent(h)
  BY DEF HandlerOK
<1>7. v.pc = "write" =>
         /\ h.kind \notin {"opened", "item_created"} => v.item # 0
         /\ h.kind = "issue_comment" => items'[v.item].ref = h.on
         /\ h.kind = "item_comment" => v.item = h.on /\ items'[v.item].ref # 0
  BY <1>4 DEF HandlerOK
<1> HIDE DEF h
<1>8. (~MarkerPresent(hooks[v.hook]))'
  BY <1>1, <1>6 DEF MarkerPresent
<1> QED BY <1>1, <1>4, <1>5, <1>7, <1>8 DEF HandlerOK
-----------------------------------------------------------------------------
(***************************************************************************)
(* The REST calls, and what they need to keep the stores sound.            *)
(***************************************************************************)

\* TrackersTypeOK without the budgets, which the REST calls do not touch.
StoreTypes ==
  /\ issues \in Seq(Issue)
  /\ issueComments \in Seq(IssueComment)
  /\ items \in Seq(Item)
  /\ itemComments \in Seq(ItemComment)
  /\ hooks \in Seq(Hook)
  /\ due \subseteq DOMAIN hooks

\* Queueing a webhook adds that one and changes none that was queued.
LEMMA Queued ==
  ASSUME StoreTypes, NEW h \in Hook, Queue(h)
  PROVE  /\ hooks' \in Seq(Hook)
         /\ due' \subseteq DOMAIN hooks'
         /\ \A d \in DOMAIN hooks : d \in DOMAIN hooks' /\ hooks'[d] = hooks[d]
         /\ \A d \in DOMAIN hooks' : d \in DOMAIN hooks \/ hooks'[d] = h
<1>1. /\ hooks' \in Seq(Hook)
      /\ DOMAIN hooks' = DOMAIN hooks \cup {Len(hooks) + 1}
      /\ \A d \in DOMAIN hooks : hooks'[d] = hooks[d]
      /\ hooks'[Len(hooks) + 1] = h
  <2>1. hooks \in Seq(Hook) /\ hooks' = Append(hooks, h)
    BY DEF StoreTypes, Queue
  <2> QED BY <2>1, Appended
<1> QED BY <1>1 DEF StoreTypes, Queue

\* A traceable webhook can be queued.
LEMMA HooksStayOK ==
  ASSUME StoreTypes, StoresOK, Grows, NEW h \in Hook, Queue(h), HookOK(h)'
  PROVE  (\A d \in DOMAIN hooks : HookOK(hooks[d]))'
<1> SUFFICES ASSUME NEW d \in DOMAIN hooks' PROVE HookOK(hooks[d])'
  OBVIOUS
<1>1. CASE hooks'[d] = h
  BY <1>1 DEF HookOK
<1>2. CASE d \in DOMAIN hooks
  <2>1. PICK g : g = hooks[d] OBVIOUS
  <2>2. HookOK(g)
    BY <1>2, <2>1 DEF StoresOK
  <2>3. HookOK(g)'
    BY <2>2, HookStaysOK
  <2>4. hooks'[d] = g
    BY <1>2, <2>1 DEF Grows
  <2> QED BY <2>3, <2>4 DEF HookOK
<1> QED BY <1>1, <1>2, Queued

\* A store stays sound if each of its elements is an old one or sound itself.
LEMMA IssuesStayOK ==
  ASSUME StoresOK, Grows,
         \A j \in DOMAIN issues' : \/ j \in DOMAIN issues /\ issues'[j] = issues[j]
                                  \/ IssueOK(issues'[j])
  PROVE  (\A j \in IssueIds : IssueOK(issues[j]))'
<1> SUFFICES ASSUME NEW j \in DOMAIN issues' PROVE IssueOK(issues[j])'
  BY DEF IssueIds
<1>1. PICK y : y = issues'[j] OBVIOUS
<1>2. IssueOK(y)
  BY <1>1 DEF StoresOK, IssueIds
<1>3. IssueOK(y)'
  BY <1>2, IssueStaysOK
<1> QED BY <1>1, <1>3 DEF IssueOK

\* Work items stay traceable when those that changed are.
LEMMA ItemsStayOK ==
  ASSUME StoresOK, Grows,
         \A j \in DOMAIN items' : \/ j \in DOMAIN items /\ items'[j] = items[j]
                                  \/ ItemOK(items'[j])
  PROVE  (\A j \in ItemIds : ItemOK(items[j]))'
<1> SUFFICES ASSUME NEW j \in DOMAIN items' PROVE ItemOK(items[j])'
  BY DEF ItemIds
<1>1. PICK y : y = items'[j] OBVIOUS
<1>2. ItemOK(y)
  BY <1>1 DEF StoresOK, ItemIds
<1>3. ItemOK(y)'
  BY <1>2, ItemStaysOK
<1> QED BY <1>1, <1>3 DEF ItemOK

\* Comments on issues stay traceable when those that changed are.
LEMMA IssueCommentsStayOK ==
  ASSUME StoresOK, Grows,
         \A j \in DOMAIN issueComments' : \/ j \in DOMAIN issueComments /\ issueComments'[j] = issueComments[j]
                                  \/ IssueCommentOK(issueComments'[j])
  PROVE  (\A j \in DOMAIN issueComments : IssueCommentOK(issueComments[j]))'
<1> SUFFICES ASSUME NEW j \in DOMAIN issueComments' PROVE IssueCommentOK(issueComments[j])'
  OBVIOUS
<1>1. PICK y : y = issueComments'[j] OBVIOUS
<1>2. IssueCommentOK(y)
  BY <1>1 DEF StoresOK
<1>3. IssueCommentOK(y)'
  BY <1>2, IssueCommentStaysOK
<1> QED BY <1>1, <1>3 DEF IssueCommentOK

\* Comments on work items stay traceable when those that changed are.
LEMMA ItemCommentsStayOK ==
  ASSUME StoresOK, Grows,
         \A j \in DOMAIN itemComments' : \/ j \in DOMAIN itemComments /\ itemComments'[j] = itemComments[j]
                                  \/ ItemCommentOK(itemComments'[j])
  PROVE  (\A j \in DOMAIN itemComments : ItemCommentOK(itemComments[j]))'
<1> SUFFICES ASSUME NEW j \in DOMAIN itemComments' PROVE ItemCommentOK(itemComments[j])'
  OBVIOUS
<1>1. PICK y : y = itemComments'[j] OBVIOUS
<1>2. ItemCommentOK(y)
  BY <1>1 DEF StoresOK
<1>3. ItemCommentOK(y)'
  BY <1>2, ItemCommentStaysOK
<1> QED BY <1>1, <1>3 DEF ItemCommentOK

\* A new issue: a user's, or a copy of a user's item that shows the marker.
LEMMA PostIssueSound ==
  ASSUME StoreTypes, StoresOK,
         NEW x \in Issue, IssueOK(x), x.by # 0 => x.marked,
         PostIssue(x)
  PROVE  Grows /\ StoreTypes' /\ StoresOK'
<1> DEFINE N == Len(issues) + 1
<1>1. /\ issues' \in Seq(Issue)
      /\ DOMAIN issues' = DOMAIN issues \cup {N}
      /\ \A j \in DOMAIN issues : issues'[j] = issues[j]
      /\ issues'[N] = x
  <2>1. issues \in Seq(Issue) /\ issues' = Append(issues, x)
    BY DEF StoreTypes, PostIssue
  <2> QED BY <2>1, Appended
<1>2. PICK h : h = IssueHook("opened", N, x)
  OBVIOUS
<1>3. h \in Hook /\ Queue(h)
  <2>1. N \in Nat
    BY LenProperties DEF StoreTypes
  <2> QED BY <1>2, <2>1 DEF PostIssue, IssueHook, Hook, Issue, ForgeKinds, IssueKinds
<1>4. Grows
  BY <1>1, <1>3, Queued DEF Grows, PostIssue, IssueIds, ItemIds
<1>5. HookOK(h)'
  BY <1>1, <1>2 DEF HookOK, IssueHook, IssueIds, PlaneKinds, PullKinds
<1>6. StoreTypes'
  BY <1>1, <1>3, Queued DEF StoreTypes, PostIssue
<1>7. (\A j \in IssueIds : IssueOK(issues[j]))'
  BY <1>1, <1>4, IssuesStayOK
<1>8. (\A j \in ItemIds : ItemOK(items[j]))'
  BY <1>4, ItemsStayOK DEF PostIssue
<1>9. (\A j \in DOMAIN issueComments : IssueCommentOK(issueComments[j]))'
  BY <1>4, IssueCommentsStayOK DEF PostIssue
<1>10. (\A j \in DOMAIN itemComments : ItemCommentOK(itemComments[j]))'
  BY <1>4, ItemCommentsStayOK DEF PostIssue
<1> QED BY <1>3, <1>4, <1>5, <1>6, <1>7, <1>8, <1>9, <1>10, HooksStayOK DEF StoresOK

\* A change to an issue, whose origin it keeps.
LEMMA PatchIssueSound ==
  ASSUME StoreTypes, StoresOK,
         NEW n \in IssueIds, NEW x \in Issue, NEW kind \in {"edited", "closed", "reopened"},
         x.by = issues[n].by, x.repo = issues[n].repo,
         PatchIssue(n, x, kind)
  PROVE  Grows /\ StoreTypes' /\ StoresOK'
<1>1. /\ issues' \in Seq(Issue)
      /\ DOMAIN issues' = DOMAIN issues
      /\ \A j \in DOMAIN issues : issues'[j] = IF j = n THEN x ELSE issues[j]
  <2>1. issues \in Seq(Issue) /\ issues' = [issues EXCEPT ![n] = x]
    BY DEF StoreTypes, PatchIssue
  <2> QED BY <2>1, Replaced DEF IssueIds
<1>2. PICK h : h = IssueHook(kind, n, x)
  OBVIOUS
<1>3. h \in Hook /\ Queue(h)
  <2>1. n \in Nat
    BY LenProperties DEF StoreTypes, IssueIds
  <2> QED BY <1>2, <2>1 DEF PatchIssue, IssueHook, Hook, Issue, ForgeKinds, IssueKinds
<1>4. Grows
  BY <1>1, <1>3, Queued DEF Grows, PatchIssue, IssueIds, ItemIds
<1>5. HookOK(h)'
  BY <1>1, <1>2 DEF HookOK, IssueHook, IssueIds, PlaneKinds, PullKinds
<1>6. StoreTypes'
  BY <1>1, <1>3, Queued DEF StoreTypes, PatchIssue
<1>7. (\A j \in IssueIds : IssueOK(issues[j]))'
  <2>1. IssueOK(x)
    BY DEF StoresOK, IssueOK
  <2> QED BY <1>1, <1>4, <2>1, IssuesStayOK
<1>8. (\A j \in ItemIds : ItemOK(items[j]))'
  BY <1>4, ItemsStayOK DEF PatchIssue
<1>9. (\A j \in DOMAIN issueComments : IssueCommentOK(issueComments[j]))'
  BY <1>4, IssueCommentsStayOK DEF PatchIssue
<1>10. (\A j \in DOMAIN itemComments : ItemCommentOK(itemComments[j]))'
  BY <1>4, ItemCommentsStayOK DEF PatchIssue
<1> QED BY <1>3, <1>4, <1>5, <1>6, <1>7, <1>8, <1>9, <1>10, HooksStayOK DEF StoresOK

\* A new item: a user's, or a copy of a user's issue.
LEMMA PostItemSound ==
  ASSUME StoreTypes, StoresOK,
         NEW x \in Item, ItemOK(x),
         PostItem(x)
  PROVE  Grows /\ StoreTypes' /\ StoresOK'
<1> DEFINE N == Len(items) + 1
<1>1. /\ items' \in Seq(Item)
      /\ DOMAIN items' = DOMAIN items \cup {N}
      /\ \A j \in DOMAIN items : items'[j] = items[j]
      /\ items'[N] = x
  <2>1. items \in Seq(Item) /\ items' = Append(items, x)
    BY DEF StoreTypes, PostItem
  <2> QED BY <2>1, Appended
<1>2. PICK h : h = ItemHook("item_created", N, x)
  OBVIOUS
<1>3. h \in Hook /\ Queue(h)
  <2>1. N \in Nat
    BY LenProperties DEF StoreTypes
  <2>2. (x.ref # 0 /\ KeepsBodyMarker) \in BOOLEAN
    BY SwitchAssumption
  <2> QED BY <1>2, <2>1, <2>2 DEF PostItem, ItemHook, Hook, Item, PlaneKinds
<1>4. Grows
  BY <1>1, <1>3, Queued DEF Grows, PostItem, IssueIds, ItemIds
<1>5. HookOK(h)'
  BY <1>1, <1>2 DEF HookOK, ItemHook, ItemIds, IssueKinds, PullKinds
<1>6. StoreTypes'
  BY <1>1, <1>3, Queued DEF StoreTypes, PostItem
<1>7. (\A j \in IssueIds : IssueOK(issues[j]))'
  BY <1>4, IssuesStayOK DEF PostItem
<1>8. (\A j \in ItemIds : ItemOK(items[j]))'
  BY <1>1, <1>4, ItemsStayOK
<1>9. (\A j \in DOMAIN issueComments : IssueCommentOK(issueComments[j]))'
  BY <1>4, IssueCommentsStayOK DEF PostItem
<1>10. (\A j \in DOMAIN itemComments : ItemCommentOK(itemComments[j]))'
  BY <1>4, ItemCommentsStayOK DEF PostItem
<1> QED BY <1>3, <1>4, <1>5, <1>6, <1>7, <1>8, <1>9, <1>10, HooksStayOK DEF StoresOK

\* A change to an item, whose origin and place it keeps.
LEMMA PatchItemSound ==
  ASSUME StoreTypes, StoresOK,
         NEW t \in ItemIds, NEW x \in Item, NEW kind \in {"item_updated", "item_deleted"},
         x.ref = items[t].ref, x.repo = items[t].repo, x.project = items[t].project,
         PatchItem(t, x, kind)
  PROVE  Grows /\ StoreTypes' /\ StoresOK'
<1>1. /\ items' \in Seq(Item)
      /\ DOMAIN items' = DOMAIN items
      /\ \A j \in DOMAIN items : items'[j] = IF j = t THEN x ELSE items[j]
  <2>1. items \in Seq(Item) /\ items' = [items EXCEPT ![t] = x]
    BY DEF StoreTypes, PatchItem
  <2> QED BY <2>1, Replaced DEF ItemIds
<1>2. PICK h : h = ItemHook(kind, t, x)
  OBVIOUS
<1>3. h \in Hook /\ Queue(h)
  <2>1. t \in Nat
    BY LenProperties DEF StoreTypes, ItemIds
  <2>2. (x.ref # 0 /\ KeepsBodyMarker) \in BOOLEAN
    BY SwitchAssumption
  <2> QED BY <1>2, <2>1, <2>2 DEF PatchItem, ItemHook, Hook, Item, PlaneKinds
<1>4. Grows
  BY <1>1, <1>3, Queued DEF Grows, PatchItem, IssueIds, ItemIds
<1>5. HookOK(h)'
  BY <1>1, <1>2 DEF HookOK, ItemHook, ItemIds, IssueKinds, PullKinds
<1>6. StoreTypes'
  BY <1>1, <1>3, Queued DEF StoreTypes, PatchItem
<1>7. (\A j \in IssueIds : IssueOK(issues[j]))'
  BY <1>4, IssuesStayOK DEF PatchItem
<1>8. (\A j \in ItemIds : ItemOK(items[j]))'
  <2>1. ItemOK(x)
    BY DEF StoresOK, ItemOK
  <2> QED BY <1>1, <1>4, <2>1, ItemsStayOK
<1>9. (\A j \in DOMAIN issueComments : IssueCommentOK(issueComments[j]))'
  BY <1>4, IssueCommentsStayOK DEF PatchItem
<1>10. (\A j \in DOMAIN itemComments : ItemCommentOK(itemComments[j]))'
  BY <1>4, ItemCommentsStayOK DEF PatchItem
<1> QED BY <1>3, <1>4, <1>5, <1>6, <1>7, <1>8, <1>9, <1>10, HooksStayOK DEF StoresOK

\* A new forge comment: a user's, or a copy that shows the marker.
LEMMA PostIssueCommentSound ==
  ASSUME StoreTypes, StoresOK,
         NEW x \in IssueComment, IssueCommentOK(x), x.by # 0 => x.marked,
         PostIssueComment(x)
  PROVE  Grows /\ StoreTypes' /\ StoresOK'
<1> DEFINE N == Len(issueComments) + 1
<1>1. /\ issueComments' \in Seq(IssueComment)
      /\ DOMAIN issueComments' = DOMAIN issueComments \cup {N}
      /\ \A j \in DOMAIN issueComments : issueComments'[j] = issueComments[j]
      /\ issueComments'[N] = x
  <2>1. issueComments \in Seq(IssueComment) /\ issueComments' = Append(issueComments, x)
    BY DEF StoreTypes, PostIssueComment
  <2> QED BY <2>1, Appended
<1>2. PICK h : h = IssueCommentHook("issue_comment", N, x, issues[x.issue])
  OBVIOUS
<1>3. h \in Hook /\ Queue(h)
  <2>1. N \in Nat
    BY LenProperties DEF StoreTypes
  <2>2. issues[x.issue] \in Issue
    BY Element DEF StoreTypes, IssueCommentOK, IssueIds
  <2> QED BY <1>2, <2>1, <2>2 DEF PostIssueComment, IssueCommentHook, Hook, Issue, IssueComment, ForgeKinds
<1>4. Grows
  BY <1>1, <1>3, Queued DEF Grows, PostIssueComment, IssueIds, ItemIds
<1>5. HookOK(h)'
  <2>1. x.issue \in IssueIds' /\ issues'[x.issue] = issues[x.issue]
    BY DEF PostIssueComment, IssueCommentOK, IssueIds
  <2> QED BY <1>1, <1>2, <2>1 DEF HookOK, IssueCommentHook, PlaneKinds, PullKinds
<1>6. StoreTypes'
  BY <1>1, <1>3, Queued DEF StoreTypes, PostIssueComment
<1>7. (\A j \in IssueIds : IssueOK(issues[j]))'
  BY <1>4, IssuesStayOK DEF PostIssueComment
<1>8. (\A j \in ItemIds : ItemOK(items[j]))'
  BY <1>4, ItemsStayOK DEF PostIssueComment
<1>9. (\A j \in DOMAIN issueComments : IssueCommentOK(issueComments[j]))'
  BY <1>1, <1>4, IssueCommentsStayOK
<1>10. (\A j \in DOMAIN itemComments : ItemCommentOK(itemComments[j]))'
  BY <1>4, ItemCommentsStayOK DEF PostIssueComment
<1> QED BY <1>3, <1>4, <1>5, <1>6, <1>7, <1>8, <1>9, <1>10, HooksStayOK DEF StoresOK

\* A new Plane comment: a user's, or a copy that shows the marker if Plane keeps it.
LEMMA PostItemCommentSound ==
  ASSUME StoreTypes, StoresOK,
         NEW x \in ItemComment, ItemCommentOK(x),
         KeepsCommentMarker /\ x.by # 0 => x.marked,
         PostItemComment(x)
  PROVE  Grows /\ StoreTypes' /\ StoresOK'
<1> DEFINE N == Len(itemComments) + 1
<1>1. /\ itemComments' \in Seq(ItemComment)
      /\ DOMAIN itemComments' = DOMAIN itemComments \cup {N}
      /\ \A j \in DOMAIN itemComments : itemComments'[j] = itemComments[j]
      /\ itemComments'[N] = x
  <2>1. itemComments \in Seq(ItemComment) /\ itemComments' = Append(itemComments, x)
    BY DEF StoreTypes, PostItemComment
  <2> QED BY <2>1, Appended
<1>2. PICK h : h = ItemCommentHook("item_comment", N, x, items[x.item])
  OBVIOUS
<1>3. h \in Hook /\ Queue(h)
  <2>1. N \in Nat
    BY LenProperties DEF StoreTypes
  <2>2. items[x.item] \in Item
    BY Element DEF StoreTypes, ItemCommentOK, ItemIds
  <2> QED BY <1>2, <2>1, <2>2 DEF PostItemComment, ItemCommentHook, Hook, Item, ItemComment, PlaneKinds
<1>4. Grows
  BY <1>1, <1>3, Queued DEF Grows, PostItemComment, IssueIds, ItemIds
<1>5. HookOK(h)'
  <2>1. x.item \in ItemIds' /\ items'[x.item] = items[x.item]
    BY DEF PostItemComment, ItemCommentOK, ItemIds
  <2> QED BY <1>1, <1>2, <2>1 DEF HookOK, ItemCommentHook, IssueKinds, PullKinds
<1>6. StoreTypes'
  BY <1>1, <1>3, Queued DEF StoreTypes, PostItemComment
<1>7. (\A j \in IssueIds : IssueOK(issues[j]))'
  BY <1>4, IssuesStayOK DEF PostItemComment
<1>8. (\A j \in ItemIds : ItemOK(items[j]))'
  BY <1>4, ItemsStayOK DEF PostItemComment
<1>9. (\A j \in DOMAIN issueComments : IssueCommentOK(issueComments[j]))'
  BY <1>4, IssueCommentsStayOK DEF PostItemComment
<1>10. (\A j \in DOMAIN itemComments : ItemCommentOK(itemComments[j]))'
  BY <1>1, <1>4, ItemCommentsStayOK
<1> QED BY <1>3, <1>4, <1>5, <1>6, <1>7, <1>8, <1>9, <1>10, HooksStayOK DEF StoresOK

\* A hook alone, for an event that changes no object kept here.
LEMMA QueueSound ==
  ASSUME StoreTypes, StoresOK, NEW h \in Hook, HookOK(h), Queue(h),
         UNCHANGED <<issues, issueComments, items, itemComments>>
  PROVE  Grows /\ StoreTypes' /\ StoresOK'
<1>1. Grows
  BY Queued DEF Grows, IssueIds, ItemIds
<1>2. HookOK(h)'
  BY <1>1, HookStaysOK
<1>3. StoreTypes'
  BY Queued DEF StoreTypes
<1>4. /\ (\A j \in IssueIds : IssueOK(issues[j]))'
      /\ (\A j \in ItemIds : ItemOK(items[j]))'
  BY <1>1, IssuesStayOK, ItemsStayOK
<1>5. /\ (\A j \in DOMAIN issueComments : IssueCommentOK(issueComments[j]))'
      /\ (\A j \in DOMAIN itemComments : ItemCommentOK(itemComments[j]))'
  BY <1>1, IssueCommentsStayOK, ItemCommentsStayOK
<1> QED BY <1>1, <1>2, <1>3, <1>4, <1>5, HooksStayOK DEF StoresOK

\* A step that leaves all stores alone, but for what is due.
LEMMA StillSound ==
  ASSUME StoreTypes, StoresOK, UNCHANGED <<issues, issueComments, items, itemComments, hooks>>,
         due' \subseteq DOMAIN hooks
  PROVE  Grows /\ StoreTypes' /\ StoresOK'
<1>1. Grows
  BY DEF Grows, IssueIds, ItemIds
<1>2. StoreTypes'
  BY DEF StoreTypes
<1>3. /\ (\A j \in IssueIds : IssueOK(issues[j]))'
      /\ (\A j \in ItemIds : ItemOK(items[j]))'
  BY <1>1, IssuesStayOK, ItemsStayOK
<1>4. /\ (\A j \in DOMAIN issueComments : IssueCommentOK(issueComments[j]))'
      /\ (\A j \in DOMAIN itemComments : ItemCommentOK(itemComments[j]))'
  BY <1>1, IssueCommentsStayOK, ItemCommentsStayOK
<1>5. (\A d \in DOMAIN hooks : HookOK(hooks[d]))'
  <2> SUFFICES ASSUME NEW d \in DOMAIN hooks PROVE HookOK(hooks[d])'
    OBVIOUS
  <2>1. PICK g : g = hooks[d] OBVIOUS
  <2>2. HookOK(g)
    BY <2>1 DEF StoresOK
  <2>3. HookOK(g)'
    BY <1>1, <2>2, HookStaysOK
  <2> QED BY <2>1, <2>3 DEF HookOK
<1> QED BY <1>1, <1>2, <1>3, <1>4, <1>5 DEF StoresOK
-----------------------------------------------------------------------------
(***************************************************************************)
(* What users do.                                                          *)
(***************************************************************************)

\* Spending one act of a budget leaves a budget.
LEMMA Spent ==
  ASSUME spent \in [Outside -> Nat], NEW act \in Outside, Spend(act)
  PROVE  spent' \in [Outside -> Nat]
BY DEF Spend

LEMMA ForgeUserSound ==
  ASSUME TrackersTypeOK, StoresOK, NEW n \in IssueIds,
         ForgeUserEdits(n) \/ ForgeUserFlips(n) \/ ForgeUserComments(n)
  PROVE  Grows /\ StoreTypes' /\ StoresOK' /\ spent' \in [Outside -> Nat]
<1>0. StoreTypes /\ spent \in [Outside -> Nat]
  BY DEF TrackersTypeOK, StoreTypes
<1>i. issues[n] \in Issue
  BY <1>0, Element DEF StoreTypes, IssueIds
<1>1. CASE ForgeUserEdits(n)
  <2>1. PICK m \in {issues[n].marked, FALSE} :
          PatchIssue(n, [issues[n] EXCEPT !.rev = @ + 1, !.marked = m], "edited")
    BY <1>1 DEF ForgeUserEdits
  <2>2. PICK x : x = [issues[n] EXCEPT !.rev = @ + 1, !.marked = m]
    OBVIOUS
  <2>3. x \in Issue /\ x.by = issues[n].by /\ x.repo = issues[n].repo
    <3>1. issues[n].marked \in BOOLEAN
      BY <1>i DEF Issue
    <3>2. m \in BOOLEAN
      BY <3>1
    <3>3. PICK y : y = [issues[n] EXCEPT !.rev = @ + 1]
      OBVIOUS
    <3>4. y \in Issue /\ y.by = issues[n].by /\ y.repo = issues[n].repo
      BY <1>i, <3>3 DEF Issue
    <3>5. x = [y EXCEPT !.marked = m]
      BY <2>2, <3>3
    <3> QED BY <3>2, <3>4, <3>5 DEF Issue
  <2>4. PatchIssue(n, x, "edited")
    BY <2>1, <2>2
  <2>5. spent' \in [Outside -> Nat]
    BY <1>0, <1>1, Spent DEF ForgeUserEdits, Outside
  <2> QED BY <1>0, <2>3, <2>4, <2>5, PatchIssueSound
<1>2. CASE ForgeUserFlips(n)
  <2>1. PICK x, kind : /\ x = [issues[n] EXCEPT !.open = ~@]
                       /\ kind = IF issues[n].open THEN "closed" ELSE "reopened"
    OBVIOUS
  <2>2. x \in Issue /\ x.by = issues[n].by /\ x.repo = issues[n].repo
    <3>1. PICK b \in BOOLEAN : b = ~issues[n].open
      OBVIOUS
    <3>2. x = [issues[n] EXCEPT !.open = b]
      BY <2>1, <3>1, Zenon
    <3> QED BY <1>i, <3>2 DEF Issue
  <2>3. PatchIssue(n, x, kind) /\ kind \in {"edited", "closed", "reopened"}
    BY <1>2, <2>1 DEF ForgeUserFlips
  <2>4. spent' \in [Outside -> Nat]
    BY <1>0, <1>2, Spent DEF ForgeUserFlips, Outside
  <2> QED BY <1>0, <2>2, <2>3, <2>4, PatchIssueSound
<1>3. CASE ForgeUserComments(n)
  <2>1. PICK x : x = [issue |-> n, by |-> 0, marked |-> FALSE]
    OBVIOUS
  <2>2. n \in Nat
    BY <1>0, LenProperties DEF StoreTypes, IssueIds
  <2>3. x \in IssueComment /\ IssueCommentOK(x) /\ x.by = 0
    BY <2>1, <2>2 DEF IssueComment, IssueCommentOK
  <2>4. PostIssueComment(x)
    BY <1>3, <2>1 DEF ForgeUserComments
  <2>5. spent' \in [Outside -> Nat]
    BY <1>0, <1>3, Spent DEF ForgeUserComments, Outside
  <2> QED BY <1>0, <2>3, <2>4, <2>5, PostIssueCommentSound
<1> QED BY <1>1, <1>2, <1>3

\* A comment edited or deleted on the forge, and its webhook, are traceable.
LEMMA ForgeUserTouchesCommentSound ==
  ASSUME TrackersTypeOK, StoresOK, NEW c \in DOMAIN issueComments, ForgeUserTouchesComment(c)
  PROVE  Grows /\ StoreTypes' /\ StoresOK' /\ spent' \in [Outside -> Nat]
<1>1. PICK h : h = IssueCommentHook("issue_comment_touched", c,
                                    [issueComments[c] EXCEPT !.marked = FALSE],
                                    issues[issueComments[c].issue])
  OBVIOUS
<1>2. StoreTypes /\ spent' \in [Outside -> Nat]
  BY Spent DEF TrackersTypeOK, StoreTypes, ForgeUserTouchesComment, Outside
<1>3. issueComments[c] \in IssueComment /\ issueComments[c].issue \in IssueIds /\ c \in Nat
  BY <1>2, Element, LenProperties DEF StoreTypes, StoresOK, IssueCommentOK
<1>4. issues[issueComments[c].issue] \in Issue
  BY <1>2, <1>3, Element DEF StoreTypes, IssueIds
<1>5. h \in Hook
  BY <1>1, <1>3, <1>4 DEF Hook, IssueCommentHook, IssueComment, Issue, ForgeKinds
<1>6. HookOK(h)
  BY <1>1, <1>3 DEF HookOK, IssueCommentHook, IssueComment, PlaneKinds, PullKinds
<1> QED BY <1>1, <1>2, <1>5, <1>6, QueueSound DEF ForgeUserTouchesComment

\* An issue a user opens is an original.
LEMMA ForgeUserOpensSound ==
  ASSUME TrackersTypeOK, StoresOK, NEW r \in Repos, ForgeUserOpens(r)
  PROVE  Grows /\ StoreTypes' /\ StoresOK' /\ spent' \in [Outside -> Nat]
<1>1. PICK x : x = [repo |-> r, by |-> 0, rev |-> 1, open |-> TRUE, marked |-> FALSE]
  OBVIOUS
<1>2. x \in Issue /\ IssueOK(x) /\ x.by = 0
  BY <1>1 DEF Issue, IssueOK
<1>3. PostIssue(x)
  BY <1>1 DEF ForgeUserOpens
<1>4. StoreTypes /\ spent' \in [Outside -> Nat]
  BY Spent DEF TrackersTypeOK, StoreTypes, ForgeUserOpens, Outside
<1> QED BY <1>2, <1>3, <1>4, PostIssueSound

\* The webhook of a pull request is about no copy at all.
LEMMA ForgeUserPullsSound ==
  ASSUME TrackersTypeOK, StoresOK, NEW r \in Repos, NEW kind \in PullKinds,
         NEW t \in ItemIds, ForgeUserPulls(r, kind, t)
  PROVE  Grows /\ StoreTypes' /\ StoresOK' /\ spent' \in [Outside -> Nat]
<1>1. PICK h : h = [kind |-> kind, home |-> r, on |-> t, comment |-> 0, rev |-> 0,
                    bodyMarked |-> FALSE, commentMarked |-> FALSE]
  OBVIOUS
<1>2. StoreTypes /\ spent' \in [Outside -> Nat]
  BY Spent DEF TrackersTypeOK, StoreTypes, ForgeUserPulls, Outside
<1>3. t \in Nat
  BY <1>2, LenProperties DEF StoreTypes, ItemIds
<1>4. h \in Hook
  BY <1>1, <1>3 DEF Hook, ForgeKinds
<1>5. HookOK(h)
  BY <1>1 DEF HookOK, IssueKinds, PullKinds, PlaneKinds
<1> QED BY <1>1, <1>2, <1>4, <1>5, QueueSound DEF ForgeUserPulls

\* A work item a user creates is an original.
LEMMA PlaneUserCreatesSound ==
  ASSUME TrackersTypeOK, StoresOK, NEW p \in Projects, PlaneUserCreates(p)
  PROVE  Grows /\ StoreTypes' /\ StoresOK' /\ spent' \in [Outside -> Nat]
<1>1. PICK x : x = [project |-> p, ref |-> 0, repo |-> "-", rev |-> 1,
                    state |-> DefaultState, live |-> TRUE]
  OBVIOUS
<1>2. x \in Item /\ ItemOK(x)
  BY <1>1, DefaultAssumption DEF Item, ItemOK
<1>3. PostItem(x)
  BY <1>1 DEF PlaneUserCreates
<1>4. StoreTypes /\ spent' \in [Outside -> Nat]
  BY Spent DEF TrackersTypeOK, StoreTypes, PlaneUserCreates, Outside
<1> QED BY <1>2, <1>3, <1>4, PostItemSound

\* Moves, deletions and comments of Plane users keep the origin of an item.
LEMMA PlaneUserSound ==
  ASSUME TrackersTypeOK, StoresOK, NEW t \in ItemIds, NEW s \in PlaneStates,
         PlaneUserMoves(t, s) \/ PlaneUserDeletes(t) \/ PlaneUserComments(t)
  PROVE  Grows /\ StoreTypes' /\ StoresOK' /\ spent' \in [Outside -> Nat]
<1>0. StoreTypes /\ spent \in [Outside -> Nat]
  BY DEF TrackersTypeOK, StoreTypes
<1>i. items[t] \in Item
  BY <1>0, Element DEF StoreTypes, ItemIds
<1>1. CASE PlaneUserMoves(t, s)
  <2>1. PICK x : x = [items[t] EXCEPT !.state = s]
    OBVIOUS
  <2>2. /\ x \in Item /\ x.ref = items[t].ref
        /\ x.repo = items[t].repo /\ x.project = items[t].project
    BY <1>i, <2>1 DEF Item
  <2>3. PatchItem(t, x, "item_updated")
    BY <1>1, <2>1 DEF PlaneUserMoves
  <2>4. spent' \in [Outside -> Nat]
    BY <1>0, <1>1, Spent DEF PlaneUserMoves, Outside
  <2> QED BY <1>0, <2>2, <2>3, <2>4, PatchItemSound
<1>2. CASE PlaneUserDeletes(t)
  <2>1. PICK x : x = [items[t] EXCEPT !.live = FALSE]
    OBVIOUS
  <2>2. /\ x \in Item /\ x.ref = items[t].ref
        /\ x.repo = items[t].repo /\ x.project = items[t].project
    BY <1>i, <2>1 DEF Item
  <2>3. PatchItem(t, x, "item_deleted")
    BY <1>2, <2>1 DEF PlaneUserDeletes
  <2>4. spent' \in [Outside -> Nat]
    BY <1>0, <1>2, Spent DEF PlaneUserDeletes, Outside
  <2> QED BY <1>0, <2>2, <2>3, <2>4, PatchItemSound
<1>3. CASE PlaneUserComments(t)
  <2>1. PICK x : x = [item |-> t, by |-> 0, marked |-> FALSE]
    OBVIOUS
  <2>2. t \in Nat
    BY <1>0, LenProperties DEF StoreTypes, ItemIds
  <2>3. x \in ItemComment /\ ItemCommentOK(x) /\ x.by = 0
    BY <2>1, <2>2 DEF ItemComment, ItemCommentOK
  <2>4. PostItemComment(x)
    BY <1>3, <2>1 DEF PlaneUserComments
  <2>5. spent' \in [Outside -> Nat]
    BY <1>0, <1>3, Spent DEF PlaneUserComments, Outside
  <2> QED BY <1>0, <2>3, <2>4, <2>5, PostItemCommentSound
<1> QED BY <1>1, <1>2, <1>3

\* A comment edited or deleted on Plane, and its webhook, are traceable.
LEMMA PlaneUserTouchesCommentSound ==
  ASSUME TrackersTypeOK, StoresOK, NEW c \in DOMAIN itemComments, PlaneUserTouchesComment(c)
  PROVE  Grows /\ StoreTypes' /\ StoresOK' /\ spent' \in [Outside -> Nat]
<1>1. PICK h : h = ItemCommentHook("item_comment_touched", c,
                                   [itemComments[c] EXCEPT !.marked = FALSE],
                                   items[itemComments[c].item])
  OBVIOUS
<1>2. StoreTypes /\ spent' \in [Outside -> Nat]
  BY Spent DEF TrackersTypeOK, StoreTypes, PlaneUserTouchesComment, Outside
<1>3. itemComments[c] \in ItemComment /\ itemComments[c].item \in ItemIds /\ c \in Nat
  BY <1>2, Element, LenProperties DEF StoreTypes, StoresOK, ItemCommentOK
<1>4. items[itemComments[c].item] \in Item
  BY <1>2, <1>3, Element DEF StoreTypes, ItemIds
<1>5. h \in Hook
  BY <1>1, <1>3, <1>4 DEF Hook, ItemCommentHook, ItemComment, Item, PlaneKinds
<1>6. HookOK(h)
  BY <1>1, <1>3 DEF HookOK, ItemCommentHook, ItemComment, IssueKinds, PullKinds
<1> QED BY <1>1, <1>2, <1>5, <1>6, QueueSound DEF PlaneUserTouchesComment

\* Every act of a user leaves the stores traceable.
LEMMA UserStepSound ==
  ASSUME TrackersTypeOK, StoresOK, UserStep
  PROVE  Grows /\ StoreTypes' /\ StoresOK' /\ spent' \in [Outside -> Nat]
<1>1. CASE \E r \in Repos : ForgeUserOpens(r)
  BY <1>1, ForgeUserOpensSound
<1>2. CASE \E n \in IssueIds : ForgeUserEdits(n) \/ ForgeUserFlips(n) \/ ForgeUserComments(n)
  BY <1>2, ForgeUserSound
<1>3. CASE \E c \in DOMAIN issueComments : ForgeUserTouchesComment(c)
  BY <1>3, ForgeUserTouchesCommentSound
<1>4. CASE \E r \in Repos, kind \in PullKinds, t \in ItemIds : ForgeUserPulls(r, kind, t)
  BY <1>4, ForgeUserPullsSound
<1>5. CASE \E p \in Projects : PlaneUserCreates(p)
  BY <1>5, PlaneUserCreatesSound
<1>6. CASE \E t \in ItemIds : \/ \E s \in PlaneStates : PlaneUserMoves(t, s)
                              \/ PlaneUserDeletes(t)
                              \/ PlaneUserComments(t)
  BY <1>6, PlaneUserSound, DefaultAssumption
<1>7. CASE \E c \in DOMAIN itemComments : PlaneUserTouchesComment(c)
  BY <1>7, PlaneUserTouchesCommentSound
<1> QED BY <1>1, <1>2, <1>3, <1>4, <1>5, <1>6, <1>7 DEF UserStep, IssueIds, ItemIds
-----------------------------------------------------------------------------
(***************************************************************************)
(* The handlers.                                                           *)
(***************************************************************************)

\* A handler goes on, knowing what it must in the state it leaves.
HandlersMove ==
  /\ worker' \in [Workers -> Worker]
  /\ \A w \in Workers : worker'[w] = worker[w] \/ HandlerOK(worker'[w])

\* What every step must do to preserve Traceable.
SoundStep ==
  /\ Grows /\ StoreTypes' /\ StoresOK' /\ spent' \in [Outside -> Nat]
  /\ links' \in Configs /\ recorded' \subseteq DOMAIN hooks'
  /\ HandlersMove

\* What the lemmas on the actions show of each is enough for the invariant.
LEMMA SoundStepPreserves ==
  ASSUME Traceable, SoundStep
  PROVE  Traceable'
<1>1. (\A w \in Workers : HandlerOK(worker[w]))'
  <2> SUFFICES ASSUME NEW w \in Workers PROVE HandlerOK(worker[w])'
    OBVIOUS
  <2>1. PICK v : v = worker'[w] OBVIOUS
  <2>2. HandlerOK(v)
    BY <2>1 DEF Traceable, SoundStep, HandlersMove
  <2>3. HandlerOK(v)'
    BY <2>2, HandlerStaysOK DEF Traceable, SoundStep
  <2> QED BY <2>1, <2>3 DEF HandlerOK
<1>2. (\A w \in Workers : worker[w].pc # "idle" => worker[w].hook \in DOMAIN hooks)'
  BY <1>1 DEF HandlerOK
<1>3. TypeOK'
  BY <1>2 DEF SoundStep, HandlersMove, StoreTypes, TypeOK, TrackersTypeOK
<1> QED BY <1>1, <1>3 DEF Traceable, SoundStep

\* A link found by repository is one of the configured links of that repository.
LEMMA RepoLink ==
  ASSUME links \in Configs, NEW r, NEW k \in LinkForRepo(r)
  PROVE  links[k] \in Link /\ links[k].repo = r /\ Linked(r, links[k].project)
<1>1. k \in DOMAIN links /\ links[k].repo = r
  BY DEF LinkForRepo
<1>2. links \in Seq(Link)
  BY ConfigsAssumption
<1>3. links[k] \in Link
  BY <1>1, <1>2, Element
<1> QED BY <1>1, <1>3 DEF Linked

\* A link found by project is the first configured link of that project.
LEMMA ProjectLink ==
  ASSUME links \in Configs, NEW p, NEW k \in LinkForPlaneProject(p)
  PROVE  links[k] \in Link /\ LinkedFirst(links[k].repo, p)
<1>1. /\ k \in DOMAIN links /\ links[k].project = p
      /\ \A j \in 1..(k - 1) : links[j].project # p
  BY DEF LinkForPlaneProject
<1>2. links \in Seq(Link)
  BY ConfigsAssumption
<1>3. links[k] \in Link
  BY <1>1, <1>2, Element
<1> QED BY <1>1, <1>3 DEF LinkedFirst

\* What is known of a running handler and its delivery.
LEMMA Handling ==
  ASSUME Traceable, NEW w \in Workers, worker[w].pc # "idle"
  PROVE  /\ worker[w] \in Worker /\ HandlerOK(worker[w])
         /\ worker[w].hook \in DOMAIN hooks
         /\ Evt(w) \in Hook /\ HookOK(Evt(w)) /\ ~MarkerPresent(Evt(w))
<1>1. worker[w] \in Worker /\ HandlerOK(worker[w]) /\ worker[w].hook \in DOMAIN hooks
  BY DEF Traceable, TypeOK, HandlerOK
<1>2. hooks \in Seq(Hook)
  BY DEF Traceable, TypeOK, TrackersTypeOK
<1>3. Evt(w) \in Hook
  BY <1>1, <1>2, Element DEF Evt
<1>4. HookOK(Evt(w))
  BY <1>1 DEF Evt, Traceable, StoresOK
<1>5. ~MarkerPresent(Evt(w))
  BY <1>1 DEF HandlerOK, Evt
<1> QED BY <1>1, <1>3, <1>4, <1>5

\* A handler that has its answer needs to know nothing more.
LEMMA AnswerMoves ==
  ASSUME Traceable, NEW w \in Workers, worker[w].pc # "idle",
         NEW v \in Worker, v.pc = "answer", v.hook = worker[w].hook, v.item = worker[w].item,
         worker' = [worker EXCEPT ![w] = v]
  PROVE  HandlersMove
<1>1. worker \in [Workers -> Worker]
  BY DEF Traceable, TypeOK
<1>2. HandlerOK(v)
  BY DEF Traceable, HandlerOK
<1> QED BY <1>1, <1>2 DEF HandlersMove

\* A handler that has its outcome goes on to answer, and no other handler moves.
LEMMA AnsweringMoves ==
  ASSUME Traceable, NEW w \in Workers, worker[w].pc # "idle",
         NEW outcome \in {"done", "skipped", "failed"}, Answering(w, outcome)
  PROVE  HandlersMove
<1>1. PICK v : v = [worker[w] EXCEPT !.pc = "answer", !.outcome = outcome]
  OBVIOUS
<1>2. worker[w] \in Worker
  BY DEF Traceable, TypeOK
<1>3. v = [pc |-> "answer", hook |-> worker[w].hook, item |-> worker[w].item,
           outcome |-> outcome, heard |-> worker[w].heard]
  BY <1>1, <1>2 DEF Worker
<1>4. /\ v \in Worker /\ v.pc = "answer"
      /\ v.hook = worker[w].hook /\ v.item = worker[w].item
  BY <1>2, <1>3 DEF Worker
<1>5. worker' = [worker EXCEPT ![w] = v]
  BY <1>1 DEF Answering
<1> QED BY <1>4, <1>5, AnswerMoves

\* The same of a handler whose call was applied, whether it heard so or not.
LEMMA AppliedMoves ==
  ASSUME Traceable, NEW w \in Workers, worker[w].pc # "idle", Applied(w)
  PROVE  HandlersMove /\ spent' \in [Outside -> Nat]
<1>1. HandlersMove
  BY AnsweringMoves DEF Applied
<1>2. spent \in [Outside -> Nat]
  BY DEF Traceable, TypeOK, TrackersTypeOK
<1>3. spent' \in [Outside -> Nat]
  BY <1>2, Spent DEF Applied, Fault, Outside
<1> QED BY <1>1, <1>3

\* A step of handlers and senders that leaves the two services alone.
LEMMA NoCallSound ==
  ASSUME Traceable, HandlersMove, spent' \in [Outside -> Nat], links' \in Configs,
         recorded' \subseteq DOMAIN hooks, due' \subseteq DOMAIN hooks,
         UNCHANGED <<issues, issueComments, items, itemComments, hooks>>
  PROVE  SoundStep
<1>1. StoreTypes /\ StoresOK
  BY DEF Traceable, TypeOK, TrackersTypeOK, StoreTypes
<1>2. Grows /\ StoreTypes' /\ StoresOK'
  BY <1>1, StillSound
<1> QED BY <1>2 DEF SoundStep

\* What such a step leaves alone stays well-typed.
LEMMA Typed ==
  ASSUME Traceable
  PROVE  /\ StoreTypes /\ StoresOK /\ spent \in [Outside -> Nat]
         /\ links \in Configs /\ worker \in [Workers -> Worker]
         /\ recorded \subseteq DOMAIN hooks
BY DEF Traceable, TypeOK, TrackersTypeOK, StoreTypes

\* A delivery that is answered without a handler changes no store.
LEMMA DismissSound ==
  ASSUME Traceable, NEW d, Dismiss(d)
  PROVE  SoundStep
<1>1. HandlersMove
  BY Typed DEF Dismiss, HandlersMove
<1> QED BY <1>1, NoCallSound, Typed DEF Dismiss, StoreTypes

\* A handler begins with a webhook and nothing looked up.
LEMMA BeginSound ==
  ASSUME Traceable, NEW w \in Workers, NEW d \in DOMAIN hooks, Begin(w, d)
  PROVE  SoundStep
<1>1. PICK v : v = [Idle EXCEPT !.pc = IF NeedsLookup(hooks[d]) THEN "lookup" ELSE "write",
                                !.hook = d, !.heard = TRUE]
  OBVIOUS
<1>2. v = [pc |-> IF NeedsLookup(hooks[d]) THEN "lookup" ELSE "write", hook |-> d,
           item |-> 0, outcome |-> "none", heard |-> TRUE]
  BY <1>1 DEF Idle
<1>3. d \in Nat
  BY Typed, LenProperties DEF StoreTypes
<1>4. v \in Worker
  BY <1>2, <1>3 DEF Worker
<1>5. ~MarkerPresent(hooks[d]) /\ (NeedsLookup(hooks[d]) \/ MirrorsItem(hooks[d]))
  BY DEF Begin, Acted
<1>6. hooks[d].kind = "item_created" => items[hooks[d].on].ref = 0
  <2>1. hooks[d].kind = "item_created" => ~NeedsLookup(hooks[d])
    BY DEF NeedsLookup, IssueKinds, PullKinds
  <2> QED BY <1>5, <2>1 DEF MirrorsItem
<1>7. v.pc = "write" => hooks[d].kind = "item_created"
  BY <1>2, <1>5 DEF MirrorsItem
<1>8. HandlerOK(v)
  BY <1>2, <1>5, <1>6, <1>7 DEF HandlerOK
<1>9. worker' = [worker EXCEPT ![w] = v]
  BY <1>1 DEF Begin
<1>10. HandlersMove
  BY <1>4, <1>8, <1>9, Typed DEF HandlersMove
<1> QED BY <1>10, NoCallSound, Typed DEF Begin, StoreTypes

\* A look-up that found item t lets the handler write, if t is the item it takes it for.
LEMMA FoundMoves ==
  ASSUME Traceable, NEW w \in Workers, worker[w].pc # "idle",
         NEW t \in Nat, t # 0 => t \in ItemIds,
         Evt(w).kind \notin {"opened", "item_created"} => t # 0,
         Evt(w).kind = "issue_comment" => items[t].ref = Evt(w).on,
         Evt(w).kind = "item_comment" => t = Evt(w).on /\ items[t].ref # 0,
         To(w, "write", t)
  PROVE  HandlersMove
<1>1. PICK v : v = [worker[w] EXCEPT !.pc = "write", !.item = t]
  OBVIOUS
<1>2. worker[w] \in Worker
  BY Typed
<1>3. v = [pc |-> "write", hook |-> worker[w].hook, item |-> t,
           outcome |-> worker[w].outcome, heard |-> worker[w].heard]
  BY <1>1, <1>2 DEF Worker
<1>4. v \in Worker
  BY <1>2, <1>3 DEF Worker
<1>5. HandlerOK(v)
  BY <1>3, Handling DEF HandlerOK, Evt
<1>6. worker' = [worker EXCEPT ![w] = v]
  BY <1>1 DEF To
<1> QED BY <1>4, <1>5, <1>6, Typed DEF HandlersMove

\* What a look-up finds is the counterpart it was made for.
LEMMA LookupSound ==
  ASSUME Traceable, NEW w \in Workers, Lookup(w)
  PROVE  SoundStep
<1>1. worker[w].pc = "lookup" /\ UNCHANGED <<trackerVars, links, recorded>>
  BY DEF Lookup, LookupByRef, LookupBySequence, LookupParent, At
<1>2. HandlersMove
  <2>1. CASE LookupByRef(w)
    <3>1. PICK k \in LinkForRepo(Evt(w).home) :
            \/ \E t \in WithRef(links[k].project, links[k].repo, Evt(w).on) : To(w, "write", t)
            \/ Evt(w).kind = "opened" /\ To(w, "write", 0)
            \/ Answering(w, "skipped")
      BY <2>1 DEF LookupByRef
    <3>2. CASE \E t \in WithRef(links[k].project, links[k].repo, Evt(w).on) : To(w, "write", t)
      <4>1. PICK t \in WithRef(links[k].project, links[k].repo, Evt(w).on) : To(w, "write", t)
        BY <3>2
      <4>2. t \in ItemIds /\ items[t].ref = Evt(w).on
        BY DEF WithRef, ItemIds
      <4>3. t \in Nat /\ t # 0
        BY <4>2, Typed, LenProperties DEF StoreTypes, ItemIds
      <4>4. Evt(w).kind # "item_comment"
        BY <2>1 DEF LookupByRef, At, IssueKinds
      <4> QED BY <1>1, <4>1, <4>2, <4>3, <4>4, FoundMoves
    <3>3. CASE Evt(w).kind = "opened" /\ To(w, "write", 0)
      BY <1>1, <3>3, FoundMoves
    <3>4. CASE Answering(w, "skipped")
      BY <1>1, <3>4, AnsweringMoves
    <3> QED BY <3>1, <3>2, <3>3, <3>4
  <2>2. CASE LookupBySequence(w)
    <3>1. CASE To(w, "write", Evt(w).on)
      <4>1. Evt(w).kind \in PullKinds
        BY <2>2 DEF LookupBySequence, At
      <4>2. Evt(w).on \in ItemIds
        BY <1>1, <4>1, Handling DEF HookOK
      <4>3. Evt(w).on \in Nat /\ Evt(w).on # 0
        BY <4>2, Typed, LenProperties DEF StoreTypes, ItemIds
      <4>4. Evt(w).kind \notin {"issue_comment", "item_comment"}
        BY <4>1 DEF PullKinds
      <4> QED BY <1>1, <3>1, <4>2, <4>3, <4>4, FoundMoves
    <3>2. CASE Answering(w, "skipped")
      BY <1>1, <3>2, AnsweringMoves
    <3> QED BY <2>2, <3>1, <3>2 DEF LookupBySequence
  <2>3. CASE LookupParent(w)
    <3>1. CASE items[Evt(w).on].ref # 0 /\ To(w, "write", Evt(w).on)
      <4>1. Evt(w).kind = "item_comment"
        BY <2>3 DEF LookupParent, At
      <4>2. Evt(w).on \in ItemIds
        BY <1>1, <4>1, Handling DEF HookOK, PlaneKinds
      <4>3. Evt(w).on \in Nat /\ Evt(w).on # 0
        BY <4>2, Typed, LenProperties DEF StoreTypes, ItemIds
      <4> QED BY <1>1, <3>1, <4>1, <4>2, <4>3, FoundMoves
    <3>2. CASE Answering(w, "skipped")
      BY <1>1, <3>2, AnsweringMoves
    <3>3. CASE Answering(w, "failed")
      BY <1>1, <3>3, AnsweringMoves
    <3> QED BY <2>3, <3>1, <3>2, <3>3 DEF LookupParent
  <2> QED BY <2>1, <2>2, <2>3 DEF Lookup
<1> QED BY <1>1, <1>2, NoCallSound, Typed DEF trackerVars, StoreTypes

\* A call that is refused changes no store.
LEMMA RefusedSound ==
  ASSUME Traceable, NEW w \in Workers, worker[w].pc # "idle", Refused(w),
         UNCHANGED <<links, recorded>>
  PROVE  SoundStep
<1>1. HandlersMove
  BY AnsweringMoves DEF Refused
<1> QED BY <1>1, NoCallSound, Typed DEF Refused, trackerVars, StoreTypes

\* A write that was applied: the stores as the call leaves them, and the answer.
LEMMA WriteSound ==
  ASSUME Traceable, NEW w \in Workers, worker[w].pc # "idle",
         Grows, StoreTypes', StoresOK', Applied(w), UNCHANGED <<links, recorded>>
  PROVE  SoundStep
<1>1. HandlersMove /\ spent' \in [Outside -> Nat]
  BY AppliedMoves
<1>2. recorded' \subseteq DOMAIN hooks'
  BY Typed DEF Grows
<1> QED BY <1>1, <1>2, Typed DEF SoundStep

\* An update that keeps an item's origin keeps it traceable.
LEMMA UpdateSound ==
  ASSUME Traceable, NEW w \in Workers, worker[w].pc # "idle", worker[w].item \in ItemIds,
         NEW x \in Item, x.ref = items[worker[w].item].ref,
         x.repo = items[worker[w].item].repo, x.project = items[worker[w].item].project,
         Update(w, x), UNCHANGED <<links, recorded>>
  PROVE  SoundStep
<1>1. CASE PatchItem(worker[w].item, x, "item_updated") /\ Applied(w)
  <2>1. PICK t : t = worker[w].item
    OBVIOUS
  <2>2. Grows /\ StoreTypes' /\ StoresOK'
    BY <1>1, <2>1, PatchItemSound, Typed
  <2> QED BY <1>1, <2>2, WriteSound
<1>2. CASE Refused(w)
  BY <1>2, RefusedSound
<1> QED BY <1>1, <1>2 DEF Update

\* The state an item gets is a state of Plane.
LEMMA MappedState ==
  ASSUME NEW state \in PlaneStates \cup {None}, NEW otherwise \in PlaneStates
  PROVE  Mapped(state, otherwise) \in PlaneStates
BY DEF Mapped

\* A write that addresses the item the look-up found has found one.
LEMMA FoundItem ==
  ASSUME Traceable, NEW w \in Workers, worker[w].pc = "write", worker[w].item # 0
  PROVE  worker[w].item \in ItemIds /\ items[worker[w].item] \in Item
<1>1. worker[w].item \in ItemIds
  BY Handling DEF HandlerOK
<1> QED BY <1>1, Typed, Element DEF StoreTypes, ItemIds

\* The item made for an opened issue refers to it, over a configured link.
LEMMA CreateItemSound ==
  ASSUME Traceable, NEW w \in Workers, CreateItem(w)
  PROVE  SoundStep
<1>1. worker[w].pc = "write" /\ Evt(w).kind = "opened" /\ UNCHANGED <<links, recorded>>
  BY DEF CreateItem, At
<1>2. PICK k \in LinkForRepo(Evt(w).home) :
        \/ Refused(w)
        \/ /\ PostItem([project |-> links[k].project, ref |-> Evt(w).on,
                        repo |-> links[k].repo, rev |-> Evt(w).rev,
                        state |-> Mapped(links[k].stateMap["open"], DefaultState),
                        live |-> TRUE])
           /\ Applied(w)
  BY DEF CreateItem
<1>3. CASE Refused(w)
  BY <1>1, <1>3, RefusedSound
<1>4. CASE ~Refused(w)
  <2>1. PICK x : x = [project |-> links[k].project, ref |-> Evt(w).on,
                      repo |-> links[k].repo, rev |-> Evt(w).rev,
                      state |-> Mapped(links[k].stateMap["open"], DefaultState),
                      live |-> TRUE]
    OBVIOUS
  <2>2. PostItem(x) /\ Applied(w)
    BY <1>2, <1>4, <2>1
  <2>3. /\ links[k] \in Link /\ links[k].repo = Evt(w).home
        /\ Linked(Evt(w).home, links[k].project)
    BY RepoLink, Typed
  <2>4. Evt(w) \in Hook /\ HookOK(Evt(w)) /\ ~Evt(w).bodyMarked
    BY <1>1, Handling DEF MarkerPresent
  <2>5. x \in Item
    <3>1. links[k].stateMap["open"] \in PlaneStates \cup {None}
      BY <2>3 DEF Link, ForgeStates
    <3>2. x.state \in PlaneStates
      BY <2>1, <3>1, MappedState, DefaultAssumption
    <3> QED BY <2>1, <2>3, <2>4, <3>2 DEF Item, Link, Hook
  <2>6. ItemOK(x)
    BY <1>1, <2>1, <2>3, <2>4 DEF HookOK, ItemOK, IssueKinds
  <2>7. Grows /\ StoreTypes' /\ StoresOK'
    BY <2>2, <2>5, <2>6, PostItemSound, Typed
  <2> QED BY <1>1, <2>2, <2>7, WriteSound
<1> QED BY <1>3, <1>4

\* An update of the item found that changes its text and its state at most.
LEMMA ItemUpdateSound ==
  ASSUME Traceable, NEW w \in Workers, worker[w].pc = "write", worker[w].item # 0,
         NEW r \in Nat, NEW s \in PlaneStates,
         Update(w, [items[worker[w].item] EXCEPT !.rev = r, !.state = s]),
         UNCHANGED <<links, recorded>>
  PROVE  SoundStep
<1>1. worker[w].item \in ItemIds /\ items[worker[w].item] \in Item
  BY FoundItem
<1>2. PICK x : x = [items[worker[w].item] EXCEPT !.rev = r, !.state = s]
  OBVIOUS
<1>3. /\ x \in Item /\ x.ref = items[worker[w].item].ref
      /\ x.repo = items[worker[w].item].repo /\ x.project = items[worker[w].item].project
  BY <1>1, <1>2 DEF Item
<1>4. Update(w, x)
  BY <1>2
<1> QED BY <1>1, <1>3, <1>4, UpdateSound

\* Reconciling an item keeps its origin.
LEMMA ReconcileSound ==
  ASSUME Traceable, NEW w \in Workers, Reconcile(w)
  PROVE  SoundStep
<1>1. worker[w].pc = "write" /\ worker[w].item # 0 /\ UNCHANGED <<links, recorded>>
  BY DEF Reconcile, At
<1>2. items[worker[w].item] \in Item
  BY <1>1, FoundItem
<1>3. PICK k \in LinkForRepo(Evt(w).home) :
        Update(w, [items[worker[w].item] EXCEPT
                     !.rev = Evt(w).rev,
                     !.state = Mapped(links[k].stateMap["open"], @)])
  BY DEF Reconcile
<1>4. PICK s : s = Mapped(links[k].stateMap["open"], items[worker[w].item].state)
  OBVIOUS
<1>5. s \in PlaneStates
  <2>1. links[k].stateMap["open"] \in PlaneStates \cup {None}
    BY RepoLink, Typed DEF Link, ForgeStates
  <2> QED BY <1>2, <1>4, <2>1, MappedState DEF Item
<1>6. Evt(w).rev \in Nat
  BY <1>1, Handling DEF Hook
<1>7. Update(w, [items[worker[w].item] EXCEPT !.rev = Evt(w).rev, !.state = s])
  BY <1>2, <1>3, <1>4 DEF Item
<1> QED BY <1>1, <1>5, <1>6, <1>7, ItemUpdateSound

\* Updating an item's text keeps its origin.
LEMMA UpdateTextSound ==
  ASSUME Traceable, NEW w \in Workers, UpdateText(w)
  PROVE  SoundStep
<1>1. /\ worker[w].pc = "write" /\ Evt(w).kind = "edited"
      /\ UNCHANGED <<links, recorded>>
  BY DEF UpdateText, At
<1>2. worker[w].item # 0
  BY <1>1, Handling DEF HandlerOK, Evt
<1>3. items[worker[w].item] \in Item
  BY <1>1, <1>2, FoundItem
<1>4. PICK s : s = items[worker[w].item].state
  OBVIOUS
<1>5. s \in PlaneStates /\ Evt(w).rev \in Nat
  BY <1>1, <1>3, <1>4, Handling DEF Hook, Item
<1>6. [items[worker[w].item] EXCEPT !.rev = Evt(w).rev] =
        [items[worker[w].item] EXCEPT !.rev = Evt(w).rev, !.state = s]
  BY <1>3, <1>4 DEF Item
<1>7. Update(w, [items[worker[w].item] EXCEPT !.rev = Evt(w).rev, !.state = s])
  BY <1>6 DEF UpdateText
<1> QED BY <1>1, <1>2, <1>5, <1>7, ItemUpdateSound

\* An update of the item found that changes its state at most.
LEMMA StateUpdateSound ==
  ASSUME Traceable, NEW w \in Workers, worker[w].pc = "write", worker[w].item # 0,
         NEW state \in PlaneStates \cup {None},
         Update(w, [items[worker[w].item] EXCEPT !.state = Mapped(state, @)]),
         UNCHANGED <<links, recorded>>
  PROVE  SoundStep
<1>1. items[worker[w].item] \in Item
  BY FoundItem
<1>2. PICK r, s : /\ r = items[worker[w].item].rev
                  /\ s = Mapped(state, items[worker[w].item].state)
  OBVIOUS
<1>3. r \in Nat /\ s \in PlaneStates
  BY <1>1, <1>2, MappedState DEF Item
<1>4. [items[worker[w].item] EXCEPT !.state = Mapped(state, @)] =
        [items[worker[w].item] EXCEPT !.rev = r, !.state = s]
  BY <1>1, <1>2 DEF Item
<1>5. Update(w, [items[worker[w].item] EXCEPT !.rev = r, !.state = s])
  BY <1>4
<1> QED BY <1>3, <1>5, ItemUpdateSound

\* Updating an item's state keeps its origin.
LEMMA UpdateStateSound ==
  ASSUME Traceable, NEW w \in Workers, UpdateState(w)
  PROVE  SoundStep
<1>1. /\ worker[w].pc = "write" /\ Evt(w).kind \in {"closed", "reopened"}
      /\ UNCHANGED <<links, recorded>>
  BY DEF UpdateState, At
<1>2. worker[w].item # 0
  BY <1>1, Handling DEF HandlerOK, Evt
<1>3. PICK k \in LinkForRepo(Evt(w).home) :
        Update(w, [items[worker[w].item] EXCEPT
                     !.state = Mapped(links[k].stateMap[ForgeState(Evt(w).kind)], @)])
  BY DEF UpdateState
<1>4. PICK s : s = links[k].stateMap[ForgeState(Evt(w).kind)]
  OBVIOUS
<1>5. s \in PlaneStates \cup {None}
  BY <1>4, RepoLink, Typed DEF Link, ForgeStates, ForgeState
<1>6. Update(w, [items[worker[w].item] EXCEPT !.state = Mapped(s, @)])
  BY <1>3, <1>4
<1> QED BY <1>1, <1>2, <1>5, <1>6, StateUpdateSound

\* Moving an item for a pull request keeps its origin.
LEMMA MoveForPullSound ==
  ASSUME Traceable, NEW w \in Workers, MoveForPull(w)
  PROVE  SoundStep
<1>1. worker[w].pc = "write" /\ Evt(w).kind \in PullKinds /\ UNCHANGED <<links, recorded>>
  BY DEF MoveForPull, At
<1>2. worker[w].item # 0
  BY <1>1, Handling DEF HandlerOK, Evt, PullKinds
<1>3. PICK k \in LinkForRepo(Evt(w).home) :
        Update(w, [items[worker[w].item] EXCEPT
                     !.state = Mapped(PRState(k, Evt(w).kind), @)])
  BY DEF MoveForPull
<1>4. PICK s : s = PRState(k, Evt(w).kind)
  OBVIOUS
<1>5. s \in PlaneStates \cup {None}
  <2>1. links[k].prStateMap \in [PullActions -> PlaneStates \cup {None}]
    BY RepoLink, Typed DEF Link
  <2>2. PRActionKey(Evt(w).kind) \in PullActions \cup {"none"}
    BY DEF PRActionKey, PullActions
  <2> QED BY <1>4, <2>1, <2>2 DEF PRState, PullActions
<1>6. Update(w, [items[worker[w].item] EXCEPT !.state = Mapped(s, @)])
  BY <1>3, <1>4
<1> QED BY <1>1, <1>2, <1>5, <1>6, StateUpdateSound

\* The issue a comment was written on is the one the item found refers to, and
\* the comment is a user's: the bridge's own carry a marker.
LEMMA CommentOnItemSound ==
  ASSUME Traceable, NEW w \in Workers, CommentOnItem(w)
  PROVE  SoundStep
<1>1. /\ worker[w].pc = "write" /\ Evt(w).kind = "issue_comment"
      /\ UNCHANGED <<links, recorded>>
  BY DEF CommentOnItem, At
<1>2. CASE Refused(w)
  BY <1>1, <1>2, RefusedSound
<1>3. CASE ~Refused(w)
  <2>1. PICK x : x = [item |-> worker[w].item, by |-> Evt(w).comment,
                      marked |-> KeepsCommentMarker]
    OBVIOUS
  <2>2. PostItemComment(x) /\ Applied(w)
    BY <1>3, <2>1 DEF CommentOnItem
  <2>3. /\ worker[w].item # 0 /\ items[worker[w].item].ref = Evt(w).on
    BY <1>1, Handling DEF HandlerOK, Evt
  <2>4. worker[w].item \in ItemIds
    BY <1>1, <2>3, FoundItem
  <2>5. Evt(w) \in Hook /\ HookOK(Evt(w)) /\ ~Evt(w).commentMarked
    BY <1>1, Handling DEF MarkerPresent
  <2>6. x \in ItemComment
    <3>1. worker[w].item \in Nat
      BY Typed DEF Worker
    <3> QED BY <2>1, <2>5, <3>1, SwitchAssumption DEF ItemComment, Hook
  <2>7. ItemCommentOK(x)
    BY <1>1, <2>1, <2>3, <2>4, <2>5 DEF HookOK, ItemCommentOK
  <2>8. KeepsCommentMarker => x.marked
    BY <2>1
  <2>9. Grows /\ StoreTypes' /\ StoresOK'
    BY <2>2, <2>6, <2>7, <2>8, PostItemCommentSound, Typed
  <2> QED BY <1>1, <2>2, <2>9, WriteSound
<1> QED BY <1>2, <1>3

\* The comment written on an issue is the copy of one on its work item.
LEMMA CommentOnIssueSound ==
  ASSUME Traceable, NEW w \in Workers, CommentOnIssue(w)
  PROVE  SoundStep
<1>1. /\ worker[w].pc = "write" /\ Evt(w).kind = "item_comment"
      /\ UNCHANGED <<links, recorded>>
  BY DEF CommentOnIssue, At
<1>2. PICK x : x = [issue |-> items[worker[w].item].ref, by |-> Evt(w).comment,
                    marked |-> TRUE]
  OBVIOUS
<1>3. PostIssueComment(x) /\ Applied(w)
  BY <1>2 DEF CommentOnIssue
<1>4. /\ worker[w].item = Evt(w).on /\ worker[w].item # 0
      /\ items[worker[w].item].ref # 0
  BY <1>1, Handling DEF HandlerOK, Evt
<1>5. worker[w].item \in ItemIds /\ items[worker[w].item] \in Item
  BY <1>1, <1>4, FoundItem
<1>6. ItemOK(items[worker[w].item])
  BY <1>5, Typed DEF StoresOK
<1>7. Evt(w) \in Hook /\ HookOK(Evt(w)) /\ ~Evt(w).commentMarked
  BY <1>1, Handling DEF MarkerPresent
<1>8. x \in IssueComment
  BY <1>2, <1>5, <1>7 DEF IssueComment, Hook, Item
<1>9. IssueCommentOK(x)
  BY <1>1, <1>2, <1>4, <1>6, <1>7 DEF HookOK, ItemOK, IssueCommentOK
<1>10. Grows /\ StoreTypes' /\ StoresOK'
  BY <1>2, <1>3, <1>8, <1>9, PostIssueCommentSound, Typed
<1> QED BY <1>1, <1>3, <1>10, WriteSound

\* The issue made for a work item is its copy, over a configured link.
LEMMA CreateIssueSound ==
  ASSUME Traceable, NEW w \in Workers, CreateIssue(w)
  PROVE  SoundStep
<1>1. /\ worker[w].pc = "write" /\ Evt(w).kind = "item_created"
      /\ Applied(w) /\ UNCHANGED <<links, recorded>>
  BY DEF CreateIssue, At
<1>2. PICK k \in LinkForPlaneProject(Evt(w).home) :
        PostIssue([repo |-> links[k].repo, by |-> Evt(w).on, rev |-> Evt(w).rev,
                   open |-> TRUE, marked |-> TRUE])
  BY DEF CreateIssue
<1>3. PICK x : x = [repo |-> links[k].repo, by |-> Evt(w).on, rev |-> Evt(w).rev,
                    open |-> TRUE, marked |-> TRUE]
  OBVIOUS
<1>4. PostIssue(x)
  BY <1>2, <1>3
<1>5. links[k] \in Link /\ LinkedFirst(links[k].repo, Evt(w).home)
  BY ProjectLink, Typed
<1>6. Evt(w) \in Hook /\ HookOK(Evt(w)) /\ items[Evt(w).on].ref = 0
  BY <1>1, Handling DEF HandlerOK, Evt
<1>7. x \in Issue
  BY <1>3, <1>5, <1>6 DEF Issue, Link, Hook
<1>8. IssueOK(x)
  BY <1>1, <1>3, <1>5, <1>6 DEF HookOK, IssueOK, PlaneKinds
<1>9. Grows /\ StoreTypes' /\ StoresOK'
  BY <1>3, <1>4, <1>7, <1>8, PostIssueSound, Typed
<1> QED BY <1>1, <1>9, WriteSound

\* Answering records a delivery and frees the handler.
LEMMA AnswerSound ==
  ASSUME Traceable, NEW w \in Workers, Answer(w)
  PROVE  SoundStep
<1>1. worker[w].hook \in DOMAIN hooks
  BY Handling DEF Answer
<1>2. Idle \in Worker /\ HandlerOK(Idle)
  BY DEF Idle, Worker, HandlerOK
<1>3. HandlersMove
  BY <1>2, Typed DEF Answer, HandlersMove
<1>4. due' \subseteq DOMAIN hooks /\ recorded' \subseteq DOMAIN hooks
  BY <1>1, Typed DEF Answer, Requeued, StoreTypes
<1> QED BY <1>3, <1>4, NoCallSound, Typed DEF Answer

\* A call that fails changes no store.
LEMMA CallFailsSound ==
  ASSUME Traceable, NEW w \in Workers, CallFails(w)
  PROVE  SoundStep
<1>1. HandlersMove
  BY AnsweringMoves DEF CallFails
<1>2. spent' \in [Outside -> Nat]
  BY Spent, Typed DEF CallFails, Fault, Outside
<1> QED BY <1>1, <1>2, NoCallSound, Typed DEF CallFails, StoreTypes

\* A sender that gives up changes what a handler is heard by, nothing else.
LEMMA SenderTimesOutSound ==
  ASSUME Traceable, NEW w \in Workers, SenderTimesOut(w)
  PROVE  SoundStep
<1>1. /\ worker[w] \in Worker /\ HandlerOK(worker[w])
      /\ worker[w].hook \in DOMAIN hooks /\ worker[w].pc # "idle"
  BY Handling DEF SenderTimesOut
<1>2. PICK v : v = [worker[w] EXCEPT !.heard = FALSE]
  OBVIOUS
<1>3. v = [pc |-> worker[w].pc, hook |-> worker[w].hook, item |-> worker[w].item,
           outcome |-> worker[w].outcome, heard |-> FALSE]
  BY <1>1, <1>2 DEF Worker
<1>4. v \in Worker /\ HandlerOK(v)
  BY <1>1, <1>3 DEF Worker, HandlerOK
<1>5. worker' = [worker EXCEPT ![w] = v]
  BY <1>2 DEF SenderTimesOut
<1>6. HandlersMove
  BY <1>4, <1>5, Typed DEF HandlersMove
<1>7. spent' \in [Outside -> Nat]
  BY Spent, Typed DEF SenderTimesOut, Outside
<1>8. due' \subseteq DOMAIN hooks
  BY <1>1, Typed DEF SenderTimesOut, Requeued, StoreTypes
<1> QED BY <1>6, <1>7, <1>8, NoCallSound, Typed DEF SenderTimesOut

\* A restart forgets the handlers and keeps the stores.
LEMMA RestartSound ==
  ASSUME Traceable, Restart
  PROVE  SoundStep
<1>1. Idle \in Worker /\ HandlerOK(Idle)
  BY DEF Idle, Worker, HandlerOK
<1>2. HandlersMove
  BY <1>1 DEF Restart, HandlersMove
<1>3. {worker[w].hook : w \in {v \in Workers : worker[v].heard}} \subseteq DOMAIN hooks
  BY DEF Traceable, HandlerOK
<1>4. due' \subseteq DOMAIN hooks
  BY <1>3, Typed DEF Restart, Requeued, StoreTypes
<1>5. spent' \in [Outside -> Nat]
  BY Spent, Typed DEF Restart, Outside
<1> QED BY <1>2, <1>4, <1>5, NoCallSound, Typed DEF Restart

\* Users act beside the handlers and do not move them.
LEMMA UsersSound ==
  ASSUME Traceable, Users
  PROVE  SoundStep
<1>1. Grows /\ StoreTypes' /\ StoresOK' /\ spent' \in [Outside -> Nat]
  BY UserStepSound DEF Users, Traceable, TypeOK
<1>2. recorded' \subseteq DOMAIN hooks'
  BY <1>1, Typed DEF Users, Grows
<1> QED BY <1>1, <1>2, Typed DEF Users, SoundStep, HandlersMove
-----------------------------------------------------------------------------
(***************************************************************************)
(* The theorems.                                                           *)
(***************************************************************************)

\* At first there is nothing to trace.
LEMMA InitSound ==
  ASSUME Init
  PROVE  Traceable
<1>1. /\ issues = <<>> /\ issueComments = <<>> /\ items = <<>>
      /\ itemComments = <<>> /\ hooks = <<>> /\ due = {} /\ spent = [act \in Outside |-> 0]
      /\ links \in Configs /\ worker = [w \in Workers |-> Idle] /\ recorded = {}
  BY DEF Init, TrackersInit
<1>2. Idle \in Worker /\ HandlerOK(Idle) /\ Idle.pc = "idle"
  BY DEF Idle, Worker, HandlerOK
<1>3. \A S : <<>> \in Seq(S) /\ DOMAIN <<>> = {}
  BY EmptySeq
<1>4. TrackersTypeOK
  BY <1>1, <1>3 DEF TrackersTypeOK
<1>5. TypeOK
  BY <1>1, <1>2, <1>4 DEF TypeOK
<1>6. StoresOK
  BY <1>1, <1>3 DEF StoresOK, IssueIds, ItemIds
<1>7. \A w \in Workers : HandlerOK(worker[w])
  BY <1>1, <1>2
<1> QED BY <1>5, <1>6, <1>7 DEF Traceable

\* Every step is sound: one case for each action.
LEMMA StepSound ==
  ASSUME Traceable, [Next]_vars
  PROVE  SoundStep
<1>1. CASE Users
  BY <1>1, UsersSound
<1>2. CASE \E d \in DOMAIN hooks : Dismiss(d) \/ \E w \in Workers : Begin(w, d)
  BY <1>2, DismissSound, BeginSound
<1>3. ASSUME NEW w \in Workers,
             Lookup(w) \/ Write(w) \/ Answer(w) \/ CallFails(w) \/ SenderTimesOut(w)
      PROVE  SoundStep
  <2>1. CASE Write(w)
    BY <2>1, CreateItemSound, ReconcileSound, UpdateTextSound, UpdateStateSound,
       MoveForPullSound, CommentOnItemSound, CommentOnIssueSound, CreateIssueSound
       DEF Write
  <2> QED BY <1>3, <2>1, LookupSound, AnswerSound, CallFailsSound, SenderTimesOutSound
<1>4. CASE Restart
  BY <1>4, RestartSound
<1>5. CASE UNCHANGED vars
  <2>1. HandlersMove
    BY <1>5, Typed DEF vars, HandlersMove
  <2> QED BY <1>5, <2>1, NoCallSound, Typed DEF vars, trackerVars, StoreTypes
<1> QED BY <1>1, <1>2, <1>3, <1>4, <1>5 DEF Next

\* The invariant is inductive.
LEMMA NextSound ==
  ASSUME Traceable, [Next]_vars
  PROVE  Traceable'
BY StepSound, SoundStepPreserves

\* Every copy can always be traced to a user's original over a configured link,
\* and no handler is on its way to break that: the handlers' checks (markers,
\* external references, links) suffice in any interleaving, with any faults,
\* repeated deliveries and restarts.
THEOREM AlwaysTraceable == Spec => []Traceable
<1>1. Init => Traceable
  BY InitSound
<1>2. Traceable /\ [Next]_vars => Traceable'
  BY NextSound
<1> QED BY <1>1, <1>2, PTL DEF Spec

\* All state keeps its type; every delivery due, handled or recorded exists.
THEOREM TypeCorrect == Spec => []TypeOK
<1>1. Traceable => TypeOK
  BY DEF Traceable
<1> QED BY <1>1, AlwaysTraceable, PTL

\* No issue or work item the bridge made is ever copied back.
THEOREM IssuesNeverBounce == Spec => []NoBounce
<1>1. Traceable => NoBounce
  BY DEF Traceable, StoresOK, IssueOK, ItemOK, NoBounce
<1> QED BY <1>1, AlwaysTraceable, PTL

\* No comment the bridge wrote is ever copied back, as far as its marker survives.
THEOREM CommentsNeverBounce == Spec => []CommentsBounceOnce
<1>1. Traceable => CommentsBounceOnce
  BY DEF Traceable, StoresOK, IssueCommentOK, ItemCommentOK, CommentsBounceOnce
<1> QED BY <1>1, AlwaysTraceable, PTL

\* A copied comment is on the counterpart of the thread it was written on.
THEOREM CommentsFollowThreads == Spec => []RightThread
<1>1. Traceable => RightThread
  BY DEF Traceable, StoresOK, IssueCommentOK, ItemCommentOK, RightThread
<1> QED BY <1>1, AlwaysTraceable, PTL

\* A copy is in the repository or project a configuration links the original's to.
THEOREM CopiesFollowLinks == Spec => []RightProject
<1>1. Traceable => RightProject
  BY DEF Traceable, StoresOK, IssueOK, ItemOK, Linked, LinkedFirst, RightProject
<1> QED BY <1>1, AlwaysTraceable, PTL
-----------------------------------------------------------------------------
(***************************************************************************)
(* One mirror.                                                             *)
(***************************************************************************)

\* The items a step adds or brings to life refer to no issue.
Dwindles ==
  /\ Grows
  /\ \A t \in ItemIds' : items'[t].ref # 0 /\ items'[t].live => t \in ItemIds /\ items[t].live

\* An item changed in place keeps its reference, and stays deleted if it was.
LEMMA PatchDwindles ==
  ASSUME Traceable, Grows, NEW t \in ItemIds, NEW x, x.live => items[t].live,
         items' = [items EXCEPT ![t] = x]
  PROVE  Dwindles
BY DEF Dwindles, ItemIds

\* So do items that no step touches.
LEMMA StillDwindles ==
  ASSUME Grows, UNCHANGED items
  PROVE  Dwindles
BY DEF Dwindles, ItemIds

\* Users make no item that refers to an issue.
LEMMA UsersDwindle ==
  ASSUME Traceable, Grows, Users
  PROVE  Dwindles
<1>1. CASE UNCHANGED items
  BY <1>1, StillDwindles
<1>2. ASSUME NEW p \in Projects, PlaneUserCreates(p)
      PROVE  Dwindles
  <2>1. PICK x : /\ x = [project |-> p, ref |-> 0, repo |-> "-", rev |-> 1,
                         state |-> DefaultState, live |-> TRUE]
                 /\ items' = Append(items, x)
    BY <1>2 DEF PlaneUserCreates, PostItem
  <2>2. x \in Item /\ x.ref = 0
    BY <2>1, DefaultAssumption DEF Item
  <2>3. items \in Seq(Item)
    BY Typed DEF StoreTypes
  <2>4. /\ DOMAIN items' = DOMAIN items \cup {Len(items) + 1}
        /\ \A t \in DOMAIN items : items'[t] = items[t]
        /\ items'[Len(items) + 1].ref = 0
    BY <2>1, <2>2, <2>3, Appended
  <2> QED BY <2>4 DEF Dwindles, ItemIds
<1>3. ASSUME NEW t \in DOMAIN items,
             (\E s \in PlaneStates : PlaneUserMoves(t, s)) \/ PlaneUserDeletes(t)
      PROVE  Dwindles
  <2>1. items[t] \in Item
    BY Typed, Element DEF StoreTypes
  <2>2. CASE PlaneUserDeletes(t)
    BY <2>1, <2>2, PatchDwindles DEF PlaneUserDeletes, PatchItem, ItemIds, Item
  <2>3. ASSUME NEW s \in PlaneStates, PlaneUserMoves(t, s)
        PROVE  Dwindles
    BY <2>1, <2>3, PatchDwindles DEF PlaneUserMoves, PatchItem, ItemIds, Item
  <2> QED BY <1>3, <2>2, <2>3
<1>4. ASSUME NEW n, ForgeUserOpens(n) \/ ForgeUserEdits(n) \/ ForgeUserFlips(n) \/ ForgeUserComments(n)
                    \/ ForgeUserTouchesComment(n) \/ PlaneUserComments(n) \/ PlaneUserTouchesComment(n)
      PROVE  UNCHANGED items
  BY <1>4 DEF ForgeUserOpens, ForgeUserEdits, ForgeUserFlips, ForgeUserComments,
              ForgeUserTouchesComment, PlaneUserComments, PlaneUserTouchesComment,
              PostIssue, PatchIssue, PostIssueComment, PostItemComment
<1>5. ASSUME NEW r, NEW kind, NEW t, ForgeUserPulls(r, kind, t)
      PROVE  UNCHANGED items
  BY <1>5 DEF ForgeUserPulls
<1> QED BY <1>1, <1>2, <1>3, <1>4, <1>5 DEF Users, UserStep

\* Nor does a handler's update.
LEMMA UpdateDwindles ==
  ASSUME Traceable, Grows, NEW w \in Workers, worker[w].pc = "write", worker[w].item # 0,
         NEW x, x.live = items[worker[w].item].live, Update(w, x)
  PROVE  Dwindles
<1>1. worker[w].item \in ItemIds
  BY FoundItem
<1>2. CASE PatchItem(worker[w].item, x, "item_updated")
  BY <1>1, <1>2, PatchDwindles DEF PatchItem
<1>3. CASE Refused(w)
  BY <1>3, StillDwindles DEF Refused, trackerVars
<1> QED BY <1>2, <1>3 DEF Update

\* Nor does any write but the creation of an item.
LEMMA WriteDwindles ==
  ASSUME Traceable, Grows, NEW w \in Workers, Write(w), ~CreateItem(w)
  PROVE  Dwindles
<1>1. CASE CommentOnItem(w) \/ CommentOnIssue(w) \/ CreateIssue(w)
  BY <1>1, StillDwindles DEF CommentOnItem, CommentOnIssue, CreateIssue, PostItemComment,
                             PostIssueComment, PostIssue, Refused, trackerVars
<1>2. CASE Reconcile(w) \/ UpdateText(w) \/ UpdateState(w) \/ MoveForPull(w)
  <2>1. worker[w].pc = "write"
    BY <1>2 DEF Reconcile, UpdateText, UpdateState, MoveForPull, At
  <2>2. worker[w].item # 0
    <3>1. CASE Reconcile(w)
      BY <3>1 DEF Reconcile
    <3>2. CASE UpdateText(w) \/ UpdateState(w) \/ MoveForPull(w)
      <4>1. Evt(w).kind \notin {"opened", "item_created"}
        BY <3>2 DEF UpdateText, UpdateState, MoveForPull, At, PullKinds
      <4> QED BY <2>1, <4>1, Handling DEF HandlerOK, Evt
    <3> QED BY <1>2, <3>1, <3>2
  <2>3. items[worker[w].item] \in Item
    BY <2>1, <2>2, FoundItem
  <2>4. CASE Reconcile(w)
    BY <2>1, <2>2, <2>3, <2>4, UpdateDwindles DEF Reconcile, Item
  <2>5. CASE UpdateText(w)
    BY <2>1, <2>2, <2>3, <2>5, UpdateDwindles DEF UpdateText, Item
  <2>6. CASE UpdateState(w)
    BY <2>1, <2>2, <2>3, <2>6, UpdateDwindles DEF UpdateState, Item
  <2>7. CASE MoveForPull(w)
    BY <2>1, <2>2, <2>3, <2>7, UpdateDwindles DEF MoveForPull, Item
  <2> QED BY <1>2, <2>4, <2>5, <2>6, <2>7
<1> QED BY <1>1, <1>2 DEF Write

\* So no step does but that one.
LEMMA StepDwindles ==
  ASSUME Traceable, [Next]_vars, ~\E w \in Workers : CreateItem(w)
  PROVE  Dwindles
<1>1. Grows
  BY StepSound DEF SoundStep
<1>2. CASE Users
  BY <1>1, <1>2, UsersDwindle
<1>3. CASE \E w \in Workers : Write(w)
  BY <1>1, <1>3, WriteDwindles
<1>4. CASE UNCHANGED items
  BY <1>1, <1>4, StillDwindles
<1>5. ASSUME NEW w \in Workers, Lookup(w) \/ Answer(w) \/ CallFails(w) \/ SenderTimesOut(w)
      PROVE  UNCHANGED items
  BY <1>5 DEF Lookup, LookupByRef, LookupBySequence, LookupParent, Answer, CallFails,
              SenderTimesOut, trackerVars
<1>6. CASE \E d \in DOMAIN hooks : Dismiss(d) \/ \E w \in Workers : Begin(w, d)
  BY <1>4, <1>6 DEF Dismiss, Begin
<1>7. CASE Restart \/ UNCHANGED vars
  BY <1>4, <1>7 DEF Restart, vars, trackerVars
<1> QED BY <1>2, <1>3, <1>4, <1>5, <1>6, <1>7 DEF Next

\* Then items stay what they are: at most one for each issue.
LEMMA OneMirrorStays ==
  ASSUME OneMirror, Dwindles
  PROVE  OneMirror'
<1> SUFFICES ASSUME NEW t \in ItemIds', NEW u \in ItemIds', t # u, items'[t].live, items'[u].live,
                    items'[t].ref # 0, items'[t].ref = items'[u].ref
             PROVE  items'[t].project # items'[u].project
  BY DEF OneMirror
<1>1. /\ t \in ItemIds /\ items[t].live /\ u \in ItemIds /\ items[u].live
  BY DEF Dwindles
<1>2. /\ items'[t].ref = items[t].ref /\ items'[t].project = items[t].project
      /\ items'[u].ref = items[u].ref /\ items'[u].project = items[u].project
  BY <1>1 DEF Dwindles, Grows
<1> QED BY <1>1, <1>2 DEF OneMirror

\* And what was not there when a handler looked does not appear.
LEMMA RefStays ==
  ASSUME Dwindles, NEW p, NEW r, NEW n, n # 0, WithRef(p, r, n) = {}
  PROVE  WithRef(p, r, n)' = {}
<1> SUFFICES ASSUME NEW t \in DOMAIN items', items'[t].live, items'[t].project = p,
                    items'[t].repo = r, items'[t].ref = n
             PROVE  FALSE
  BY DEF WithRef
<1>1. t \in DOMAIN items /\ items[t].live
  BY DEF Dwindles, ItemIds
<1>2. items[t].project = p /\ items[t].repo = r /\ items[t].ref = n
  BY <1>1 DEF Dwindles, Grows, ItemIds
<1> QED BY <1>1, <1>2 DEF WithRef

\* A repository has one link at most.
LEMMA OneLink ==
  ASSUME links \in Configs, NEW r, NEW j \in LinkForRepo(r), NEW k \in LinkForRepo(r)
  PROVE  j = k
<1>1. links \in Seq(Link)
  BY ConfigsAssumption
<1>2. j \in Nat /\ k \in Nat /\ j >= 1 /\ k >= 1
  BY <1>1, LenProperties DEF LinkForRepo
<1> QED BY <1>2 DEF LinkForRepo

\* The handler is about to create an item, for the delivery it has been handling.
StillWriting(w) ==
  worker'[w].pc = "write" /\ worker'[w].item = 0 =>
    worker[w].pc = "write" /\ worker[w].item = 0 /\ worker'[w].hook = worker[w].hook

\* A handler that goes on to create nothing still finds nothing.
LEMMA AbsentStays ==
  ASSUME Traceable, Absent, Dwindles, UNCHANGED links, NEW w \in Workers, StillWriting(w),
         worker'[w].pc = "write", Evt(w).kind' = "opened", worker'[w].item = 0,
         NEW k \in LinkForRepo(Evt(w).home)'
  PROVE  WithRef(links[k].project, links[k].repo, Evt(w).on)' = {}
<1>1. worker[w].pc = "write" /\ worker[w].item = 0 /\ worker'[w].hook = worker[w].hook
  BY DEF StillWriting
<1>2. /\ worker[w].hook \in DOMAIN hooks /\ HookOK(Evt(w))
  BY <1>1, Handling
<1>3. Evt(w)' = Evt(w)
  BY <1>1, <1>2 DEF Evt, Dwindles, Grows
<1>4. k \in LinkForRepo(Evt(w).home)
  BY <1>3 DEF LinkForRepo
<1>5. WithRef(links[k].project, links[k].repo, Evt(w).on) = {}
  BY <1>1, <1>3, <1>4 DEF Absent
<1>6. Evt(w).on # 0
  <2>1. Evt(w).on \in IssueIds
    BY <1>2, <1>3 DEF HookOK, IssueKinds
  <2> QED BY <2>1, Typed, LenProperties DEF StoreTypes, IssueIds
<1> QED BY <1>3, <1>5, <1>6, RefStays

\* A look-up lets a handler create an item only if it found none.
LEMMA LookupAbsent ==
  ASSUME Traceable, Absent, NEW v \in Workers, Lookup(v)
  PROVE  Absent'
<1>1. worker[v].pc = "lookup" /\ UNCHANGED <<trackerVars, links>>
  BY DEF Lookup, LookupByRef, LookupBySequence, LookupParent, At
<1>2. Grows
  BY <1>1 DEF trackerVars, Grows, IssueIds, ItemIds
<1>3. Dwindles
  BY <1>1, <1>2, StillDwindles DEF trackerVars
<1>4. worker \in [Workers -> Worker]
  BY Typed
<1>5. /\ worker'[v].hook = worker[v].hook
      /\ \A w \in Workers \ {v} : worker'[w] = worker[w]
  BY ZenonT(30), <1>4 DEF Lookup, LookupByRef, LookupBySequence, LookupParent, To, Answering, Worker
<1>6. Evt(v)' = Evt(v)
  BY <1>1, <1>5 DEF Evt, trackerVars
<1>7. ASSUME worker'[v].pc = "write", Evt(v).kind = "opened", worker'[v].item = 0,
             NEW j \in LinkForRepo(Evt(v).home)
      PROVE  WithRef(links[j].project, links[j].repo, Evt(v).on) = {}
  <2>1. LookupByRef(v)
    BY <1>7 DEF Lookup, LookupBySequence, LookupParent, At, PullKinds
  <2>2. PICK k \in LinkForRepo(Evt(v).home) :
          LET found == WithRef(links[k].project, links[k].repo, Evt(v).on)
          IN \/ \E t \in found : To(v, "write", t)
             \/ found = {}
             \/ Answering(v, "skipped")
    BY <2>1 DEF LookupByRef
  <2>3. ~Answering(v, "skipped")
    BY <1>4, <1>7 DEF Answering, Worker
  <2>4. ~\E t \in WithRef(links[k].project, links[k].repo, Evt(v).on) : To(v, "write", t)
    <3> SUFFICES ASSUME NEW t \in WithRef(links[k].project, links[k].repo, Evt(v).on),
                        To(v, "write", t)
                 PROVE  FALSE
      OBVIOUS
    <3>1. t \in DOMAIN items
      BY DEF WithRef
    <3>2. t # 0
      BY <3>1, Typed, LenProperties DEF StoreTypes
    <3>3. worker'[v].item = t
      BY <1>4 DEF To, Worker
    <3> QED BY <1>7, <3>2, <3>3
  <2>5. k = j
    BY Typed, OneLink
  <2> QED BY <2>2, <2>3, <2>4, <2>5
<1> SUFFICES ASSUME NEW w \in Workers, worker'[w].pc = "write", Evt(w).kind' = "opened",
                    worker'[w].item = 0, NEW k \in LinkForRepo(Evt(w).home)'
             PROVE  WithRef(links[k].project, links[k].repo, Evt(w).on)' = {}
  BY DEF Absent
<1>8. CASE w = v
  <2>1. k \in LinkForRepo(Evt(v).home)
    BY <1>1, <1>6, <1>8 DEF LinkForRepo
  <2>2. WithRef(links[k].project, links[k].repo, Evt(v).on) = {}
    BY <1>6, <1>7, <1>8, <2>1
  <2> QED BY <1>1, <1>6, <1>8, <2>2 DEF WithRef, trackerVars
<1>9. CASE w # v
  <2>1. StillWriting(w)
    BY <1>5, <1>9 DEF StillWriting
  <2> QED BY <1>1, <1>3, <2>1, AbsentStays
<1> QED BY <1>8, <1>9

\* Whatever a write comes to, its handler goes on to answer and no other moves.
LEMMA WriteMoves ==
  ASSUME worker \in [Workers -> Worker], NEW w \in Workers, Write(w)
  PROVE  /\ worker'[w].pc = "answer"
         /\ \A v \in Workers \ {w} : worker'[v] = worker[v]
<1>1. Applied(w) \/ Refused(w)
  <2>1. CASE Reconcile(w) \/ UpdateText(w) \/ UpdateState(w) \/ MoveForPull(w)
    BY <2>1 DEF Reconcile, UpdateText, UpdateState, MoveForPull, Update
  <2>2. CASE CreateItem(w) \/ CommentOnItem(w) \/ CommentOnIssue(w) \/ CreateIssue(w)
    BY <2>2 DEF CreateItem, CommentOnItem, CommentOnIssue, CreateIssue
  <2> QED BY <2>1, <2>2 DEF Write
<1>2. \E outcome : Answering(w, outcome)
  BY <1>1 DEF Applied, Refused
<1> QED BY <1>2 DEF Answering, Worker

\* No step that creates no item takes Absent away.
LEMMA StepAbsent ==
  ASSUME Traceable, Absent, [Next]_vars, Dwindles
  PROVE  Absent'
<1>0. worker \in [Workers -> Worker]
  BY Typed
<1>1. CASE \E v \in Workers : Lookup(v)
  BY <1>1, LookupAbsent
<1>2. CASE Restart
  <2>1. \A w \in Workers : worker'[w].pc # "write"
    BY <1>2 DEF Restart, Idle
  <2> QED BY <2>1 DEF Absent
<1>3. CASE UNCHANGED links /\ \A w \in Workers : StillWriting(w) \/ Evt(w).kind' # "opened"
  <2> SUFFICES ASSUME NEW w \in Workers, worker'[w].pc = "write", Evt(w).kind' = "opened",
                      worker'[w].item = 0, NEW k \in LinkForRepo(Evt(w).home)'
               PROVE  WithRef(links[k].project, links[k].repo, Evt(w).on)' = {}
    BY DEF Absent
  <2> QED BY <1>3, AbsentStays
<1>4. CASE Users \/ UNCHANGED vars \/ \E d \in DOMAIN hooks : Dismiss(d)
  BY <1>3, <1>4 DEF Users, Dismiss, vars, StillWriting
<1>5. ASSUME NEW v \in Workers, NEW d \in DOMAIN hooks, Begin(v, d)
      PROVE  Absent'
  <2>1. /\ UNCHANGED <<links, hooks>>
        /\ worker'[v].pc = (IF NeedsLookup(hooks[d]) THEN "lookup" ELSE "write")
        /\ worker'[v].hook = d
        /\ \A w \in Workers \ {v} : worker'[w] = worker[w]
        /\ NeedsLookup(hooks[d]) \/ MirrorsItem(hooks[d])
    BY <1>0, <1>5 DEF Begin, Idle, Acted
  <2>2. StillWriting(v) \/ Evt(v).kind' # "opened"
    BY <2>1 DEF StillWriting, Evt, MirrorsItem
  <2>3. \A w \in Workers \ {v} : StillWriting(w)
    BY <2>1 DEF StillWriting
  <2> QED BY <1>3, <2>1, <2>2, <2>3
<1>6. ASSUME NEW v \in Workers, Write(v) \/ Answer(v) \/ CallFails(v) \/ SenderTimesOut(v)
      PROVE  Absent'
  <2>1. UNCHANGED links /\ \A w \in Workers \ {v} : worker'[w] = worker[w]
    <3>1. CASE Write(v)
      <4>1. UNCHANGED links
        BY <3>1 DEF Write, CreateItem, Reconcile, UpdateText, UpdateState, MoveForPull,
              CommentOnItem, CommentOnIssue, CreateIssue
      <4> QED BY <1>0, <3>1, <4>1, WriteMoves
    <3>2. CASE Answer(v) \/ CallFails(v) \/ SenderTimesOut(v)
      BY <1>0, <3>2 DEF Answer, CallFails, SenderTimesOut, Answering
    <3> QED BY <1>6, <3>1, <3>2
  <2>2. StillWriting(v)
    <3>1. CASE Write(v)
      BY <1>0, <3>1, WriteMoves DEF StillWriting
    <3>2. CASE Answer(v) \/ CallFails(v)
      <4>1. worker'[v].pc # "write"
        <5>1. CASE Answer(v)
          BY <1>0, <5>1 DEF Answer, Idle
        <5>2. CASE Answering(v, "failed")
          BY <1>0, <5>2 DEF Answering, Worker
        <5> QED BY <3>2, <5>1, <5>2 DEF CallFails
      <4> QED BY <4>1 DEF StillWriting
    <3>3. CASE SenderTimesOut(v)
      <4>1. worker'[v] = [worker[v] EXCEPT !.heard = FALSE] /\ worker[v] \in Worker
        BY <1>0, <3>3 DEF SenderTimesOut
      <4> QED BY <4>1 DEF StillWriting, Worker
    <3> QED BY <1>6, <3>1, <3>2, <3>3
  <2> QED BY <1>3, <2>1, <2>2 DEF StillWriting
<1> QED BY <1>1, <1>2, <1>4, <1>5, <1>6 DEF Next

\* An item is only created for an issue that has none in its project.
LEMMA CreateItemKeepsOne ==
  ASSUME Traceable, AtMostOne, NEW w \in Workers, CreateItem(w)
  PROVE  OneMirror'
<1>1. worker[w].pc = "write" /\ Evt(w).kind = "opened" /\ worker[w].item = 0
  BY DEF CreateItem, At
<1>2. HookOK(Evt(w)) /\ Evt(w) \in Hook
  BY <1>1, Handling
<1>3. PICK k \in LinkForRepo(Evt(w).home) :
        \/ Refused(w)
        \/ /\ ~(UniqueRefs /\ WithRef(links[k].project, links[k].repo, Evt(w).on) # {})
           /\ PostItem([project |-> links[k].project, ref |-> Evt(w).on, repo |-> links[k].repo,
                        rev |-> Evt(w).rev,
                        state |-> Mapped(links[k].stateMap["open"], DefaultState), live |-> TRUE])
  BY DEF CreateItem
<1>4. CASE Refused(w)
  BY <1>4 DEF Refused, trackerVars, AtMostOne, OneMirror, ItemIds
<1>5. CASE ~Refused(w)
  <2>1. WithRef(links[k].project, links[k].repo, Evt(w).on) = {}
    BY <1>1, <1>3, <1>5 DEF AtMostOne, Absent
  <2>2. PICK x : /\ x = [project |-> links[k].project, ref |-> Evt(w).on, repo |-> links[k].repo,
                         rev |-> Evt(w).rev,
                         state |-> Mapped(links[k].stateMap["open"], DefaultState), live |-> TRUE]
                 /\ items' = Append(items, x)
    BY <1>3, <1>5 DEF PostItem
  <2>3. items \in Seq(Item) /\ links \in Configs
    BY Typed DEF StoreTypes
  <2>4. links[k] \in Link /\ links[k].repo = Evt(w).home
    BY <2>3, RepoLink
  <2>5. x \in Item
    <3>1. Mapped(links[k].stateMap["open"], DefaultState) \in PlaneStates
      BY <2>4, MappedState, DefaultAssumption DEF Link, ForgeStates
    <3> QED BY <1>2, <2>2, <2>4, <3>1 DEF Item, Link, Hook
  <2>6. /\ DOMAIN items' = DOMAIN items \cup {Len(items) + 1}
        /\ \A t \in DOMAIN items : items'[t] = items[t]
        /\ items'[Len(items) + 1] = x
    BY <2>2, <2>3, <2>5, Appended
  <2>7. ASSUME NEW t \in ItemIds, items[t].live, items[t].ref # 0, items[t].ref = x.ref
        PROVE  items[t].project # x.project
    <3>1. issues[items[t].ref].repo = items[t].repo
      BY <2>7 DEF Traceable, StoresOK, ItemOK
    <3>2. Evt(w).home = issues[Evt(w).on].repo
      BY <1>1, <1>2 DEF HookOK, IssueKinds
    <3> QED BY <2>1, <2>2, <2>4, <2>7, <3>1, <3>2 DEF WithRef, ItemIds
  <2> QED BY <2>6, <2>7 DEF OneMirror, ItemIds, AtMostOne
<1> QED BY <1>4, <1>5

LEMMA InitAtMostOne ==
  ASSUME Init
  PROVE  AtMostOne
<1>1. items = <<>> /\ \A w \in Workers : worker[w].pc = "idle"
  BY DEF Init, TrackersInit, Idle
<1>2. DOMAIN items = {}
  BY <1>1, EmptySeq
<1> QED BY <1>1, <1>2 DEF AtMostOne, OneMirror, Absent, ItemIds

LEMMA StepAtMostOne ==
  ASSUME Traceable, AtMostOne, [Next]_vars, UniqueRefs \/ \E w : Workers = {w}
  PROVE  AtMostOne'
<1>1. CASE ~\E w \in Workers : CreateItem(w)
  <2>1. Dwindles
    BY <1>1, StepDwindles
  <2> QED BY <2>1, OneMirrorStays, StepAbsent DEF AtMostOne
<1>2. ASSUME NEW w \in Workers, CreateItem(w)
      PROVE  AtMostOne'
  <2>1. OneMirror'
    BY <1>2, CreateItemKeepsOne
  <2>2. CASE Workers = {w}
    <3>1. worker'[w].pc = "answer"
      BY <1>2, Typed, WriteMoves DEF Write
    <3> QED BY <2>1, <2>2, <3>1 DEF AtMostOne, Absent
  <2> QED BY <2>1, <2>2 DEF AtMostOne
<1> QED BY <1>1, <1>2

\* An issue has at most one live item in a project, in any order of deliveries,
\* repetitions, failures and restarts, if Plane refuses a reference that is in use or
\* deliveries are handled one at a time: the look-up before the create is enough for
\* one handler, and without Plane's check not for two (run `concurrent').
THEOREM OneItemPerIssue ==
  ASSUME UniqueRefs \/ \E w : Workers = {w}
  PROVE  Spec => []OneMirror
<1>1. Init => Traceable /\ AtMostOne
  BY InitSound, InitAtMostOne
<1>2. Traceable /\ AtMostOne /\ [Next]_vars => Traceable' /\ AtMostOne'
  BY NextSound, StepAtMostOne
<1>3. Traceable /\ AtMostOne => OneMirror
  BY DEF AtMostOne
<1> QED BY <1>1, <1>2, <1>3, PTL DEF Spec
-----------------------------------------------------------------------------
(***************************************************************************)
(* Claims.                                                                 *)
(***************************************************************************)

\* A claim less, or a failure more, leaves enough to pay with.
LEMMA SpareLess ==
  ASSUME NEW T, NEW S \in SUBSET T, NEW n \in Nat, NEW m \in Nat, n <= m, Spare(T, n)
  PROVE  Spare(S, m)
<1>1. PICK extra \in SUBSET T : /\ IsFiniteSet(extra) /\ Cardinality(extra) <= n
                                /\ \A x, y \in T \ extra : x.of = y.of => x = y
  BY DEF Spare
<1>2. extra \cap S \in SUBSET extra
  OBVIOUS
<1>3. /\ IsFiniteSet(extra \cap S) /\ Cardinality(extra \cap S) <= Cardinality(extra)
      /\ Cardinality(extra) \in Nat /\ Cardinality(extra \cap S) \in Nat
  BY <1>1, <1>2, FS_Subset, FS_CardinalityType
<1>4. Cardinality(extra \cap S) <= m
  BY <1>1, <1>3
<1>5. \A x, y \in S \ (extra \cap S) : x.of = y.of => x = y
  BY <1>1
<1> QED BY <1>3, <1>4, <1>5 DEF Spare

\* A claim to an original nobody has a claim to costs nothing.
LEMMA SpareFresh ==
  ASSUME NEW T, NEW n \in Nat, NEW b, \A x \in T : x.of # b.of, Spare(T, n)
  PROVE  Spare(T \cup {b}, n)
<1>1. PICK extra \in SUBSET T : /\ IsFiniteSet(extra) /\ Cardinality(extra) <= n
                                /\ \A x, y \in T \ extra : x.of = y.of => x = y
  BY DEF Spare
<1>2. extra \in SUBSET (T \cup {b})
  OBVIOUS
<1>3. \A x, y \in (T \cup {b}) \ extra : x.of = y.of => x = y
  BY <1>1
<1> QED BY <1>1, <1>2, <1>3 DEF Spare

\* Nor does a claim that takes the place of another to the same original.
LEMMA SpareSwap ==
  ASSUME NEW T, NEW n \in Nat, NEW a \in T, NEW b, b.of = a.of, Spare(T, n)
  PROVE  Spare((T \ {a}) \cup {b}, n)
<1>1. PICK extra \in SUBSET T : /\ IsFiniteSet(extra) /\ Cardinality(extra) <= n
                                /\ \A x, y \in T \ extra : x.of = y.of => x = y
  BY DEF Spare
<1>2. CASE a \in extra
  <2> DEFINE rest == (extra \ {a}) \cup {b}
  <2>1. IsFiniteSet(extra \ {a}) /\ Cardinality(extra \ {a}) = Cardinality(extra) - 1
    BY <1>1, <1>2, FS_RemoveElement
  <2>2. IsFiniteSet(rest) /\ Cardinality(rest) <= Cardinality(extra \ {a}) + 1
    <3>1. Cardinality(extra \ {a}) \in Nat
      BY <2>1, FS_CardinalityType
    <3>2. /\ IsFiniteSet(rest)
          /\ Cardinality(rest) = IF b \in extra \ {a} THEN Cardinality(extra \ {a})
                                 ELSE Cardinality(extra \ {a}) + 1
      BY <2>1, FS_AddElement, Zenon
    <3> QED BY <3>1, <3>2
  <2>3. Cardinality(rest) <= n
    BY <1>1, <2>1, <2>2, FS_CardinalityType
  <2>4. rest \in SUBSET ((T \ {a}) \cup {b})
    OBVIOUS
  <2>5. \A x, y \in ((T \ {a}) \cup {b}) \ rest : x.of = y.of => x = y
    BY <1>1
  <2> QED BY <2>2, <2>3, <2>4, <2>5 DEF Spare
<1>3. CASE a \notin extra
  <2>1. extra \in SUBSET ((T \ {a}) \cup {b})
    BY <1>3
  <2>2. \A x, y \in ((T \ {a}) \cup {b}) \ extra : x.of = y.of => x = y
    BY <1>1, <1>3
  <2> QED BY <1>1, <2>1, <2>2 DEF Spare
<1> QED BY <1>2, <1>3

\* Any other new claim costs one failure.
LEMMA SparePaid ==
  ASSUME NEW T, NEW n \in Nat, NEW D, IsFiniteSet(D), Spare(T, n)
  PROVE  Spare(T \cup D, n + Cardinality(D))
<1>1. PICK extra \in SUBSET T : /\ IsFiniteSet(extra) /\ Cardinality(extra) <= n
                                /\ \A x, y \in T \ extra : x.of = y.of => x = y
  BY DEF Spare
<1>2. /\ IsFiniteSet(extra \cup D)
      /\ Cardinality(extra \cup D) = Cardinality(extra) + Cardinality(D) - Cardinality(extra \cap D)
  BY <1>1, FS_Union
<1>3. /\ Cardinality(extra) \in Nat /\ Cardinality(D) \in Nat /\ Cardinality(extra \cap D) \in Nat
  BY <1>1, FS_CardinalityType, FS_Intersection
<1>4. Cardinality(extra \cup D) <= n + Cardinality(D)
  BY <1>1, <1>2, <1>3
<1>5. extra \cup D \in SUBSET (T \cup D)
  OBVIOUS
<1>6. \A x, y \in (T \cup D) \ (extra \cup D) : x.of = y.of => x = y
  BY <1>1
<1> QED BY <1>2, <1>4, <1>5, <1>6 DEF Spare

\* The same of a single claim.
LEMMA SparePaidOne ==
  ASSUME NEW T, NEW n \in Nat, NEW b, Spare(T, n)
  PROVE  Spare(T \cup {b}, n + 1)
<1>1. IsFiniteSet({b}) /\ Cardinality({b}) = 1
  BY FS_Singleton
<1> QED BY <1>1, SparePaid
-----------------------------------------------------------------------------
\* The originals there are.
Originals ==
  {<<"opened", n>> : n \in IssueIds} \cup {<<"item_created", t>> : t \in ItemIds}
    \cup {<<"issue_comment", c>> : c \in DOMAIN issueComments}
    \cup {<<"item_comment", c>> : c \in DOMAIN itemComments}

\* A webhook of a kind that leads to copies is about an original there is.
LEMMA HookClaims ==
  ASSUME NEW h, HookOK(h), h.kind \in Creating
  PROVE  Original(h) \in Originals
BY DEF HookOK, Creating, Original, Originals, IssueKinds, PlaneKinds

\* So is every claim.
LEMMA ClaimsKnown ==
  ASSUME Traceable, NEW x \in Claims
  PROVE  x.of \in Originals
<1>1. CASE x \in ItemClaims
  <2>1. PICK t \in ItemIds : items[t].ref # 0 /\ x = Claim("item", t, <<"opened", items[t].ref>>)
    BY <1>1 DEF ItemClaims
  <2>2. items[t].ref \in IssueIds
    BY <2>1 DEF Traceable, StoresOK, ItemOK
  <2> QED BY <2>1, <2>2 DEF Claim, Originals
<1>2. CASE x \in IssueClaims
  <2>1. PICK n \in IssueIds : issues[n].by # 0 /\ x = Claim("issue", n, <<"item_created", issues[n].by>>)
    BY <1>2 DEF IssueClaims
  <2>2. issues[n].by \in ItemIds
    BY <2>1 DEF Traceable, StoresOK, IssueOK
  <2> QED BY <2>1, <2>2 DEF Claim, Originals
<1>3. CASE x \in ItemCommentClaims
  <2>1. PICK c \in DOMAIN itemComments :
          itemComments[c].by # 0 /\ x = Claim("item_comment", c, <<"issue_comment", itemComments[c].by>>)
    BY <1>3 DEF ItemCommentClaims
  <2>2. itemComments[c].by \in DOMAIN issueComments
    BY <2>1 DEF Traceable, StoresOK, ItemCommentOK
  <2> QED BY <2>1, <2>2 DEF Claim, Originals
<1>4. CASE x \in IssueCommentClaims
  <2>1. PICK c \in DOMAIN issueComments :
          issueComments[c].by # 0 /\ x = Claim("issue_comment", c, <<"item_comment", issueComments[c].by>>)
    BY <1>4 DEF IssueCommentClaims
  <2>2. issueComments[c].by \in DOMAIN itemComments
    BY <2>1 DEF Traceable, StoresOK, IssueCommentOK
  <2> QED BY <2>1, <2>2 DEF Claim, Originals
<1>5. CASE x \in DueClaims
  <2>1. PICK d \in due : hooks[d].kind \in Creating /\ x = Claim("due", d, Original(hooks[d]))
    BY <1>5 DEF DueClaims
  <2>2. HookOK(hooks[d])
    BY Typed DEF StoreTypes, Traceable, StoresOK
  <2> QED BY <2>1, <2>2, HookClaims DEF Claim
<1>6. CASE x \in HandlerClaims
  <2>1. PICK w \in Workers : /\ Promising(worker[w]) /\ Evt(w).kind \in Creating
                             /\ x = Claim("handler", w, Original(Evt(w)))
    BY <1>6 DEF HandlerClaims
  <2>2. HookOK(Evt(w))
    BY <2>1, Handling DEF Promising
  <2> QED BY <2>1, <2>2, HookClaims DEF Claim
<1> QED BY <1>1, <1>2, <1>3, <1>4, <1>5, <1>6 DEF Claims
-----------------------------------------------------------------------------
\* The claims that need no handler.
StoreClaims == ItemClaims \cup IssueClaims \cup ItemCommentClaims \cup IssueCommentClaims
                 \cup DueClaims

\* A step adds the claims B, and one to an original that was not there before.
Gains(B) == \E c : c.of \notin Originals /\ StoreClaims' \subseteq StoreClaims \cup {c} \cup B

\* Appending adds one element, whatever it is.
LEMMA Added ==
  ASSUME NEW S, NEW s \in Seq(S), NEW e, NEW t, t = Append(s, e)
  PROVE  /\ DOMAIN t = DOMAIN s \cup {Len(s) + 1}
         /\ Len(s) + 1 \notin DOMAIN s /\ Len(s) + 1 # 0
         /\ \A i \in DOMAIN s : t[i] = s[i] /\ i < Len(s) + 1
         /\ t[Len(s) + 1] = e
<1>1. s \in Seq(S \cup {e}) /\ e \in S \cup {e}
  OBVIOUS
<1>2. Len(s) \in Nat
  BY LenProperties
<1> QED BY <1>1, <1>2, Appended

\* A queued webhook is a claim if it leads to a copy.
LEMMA QueueClaims ==
  ASSUME Traceable, NEW h, Queue(h)
  PROVE  DueClaims' \subseteq DueClaims \cup
           (IF h.kind \in Creating THEN {Claim("due", Len(hooks) + 1, Original(h))} ELSE {})
<1>1. hooks \in Seq(Hook) /\ due \subseteq DOMAIN hooks
  BY Typed DEF StoreTypes
<1>2. /\ hooks'[Len(hooks) + 1] = h
      /\ \A d \in DOMAIN hooks : hooks'[d] = hooks[d]
      /\ due' = due \cup {Len(hooks) + 1}
  BY <1>1, Added DEF Queue
<1> SUFFICES ASSUME NEW d \in due', hooks'[d].kind \in Creating
             PROVE  Claim("due", d, Original(hooks'[d])) \in DueClaims \cup
                      (IF h.kind \in Creating THEN {Claim("due", Len(hooks) + 1, Original(h))} ELSE {})
  BY DEF DueClaims, Claim, Original
<1> QED BY <1>1, <1>2 DEF DueClaims

\* The claims of objects that are there already.
LEMMA ItemClaimsStay ==
  ASSUME DOMAIN items' = DOMAIN items, \A t \in DOMAIN items : items'[t].ref = items[t].ref
  PROVE  ItemClaims' = ItemClaims
BY DEF ItemClaims, ItemIds, Claim

\* The same of issues.
LEMMA IssueClaimsStay ==
  ASSUME DOMAIN issues' = DOMAIN issues, \A n \in DOMAIN issues : issues'[n].by = issues[n].by
  PROVE  IssueClaims' = IssueClaims
BY DEF IssueClaims, IssueIds, Claim

\* The same of comments.
LEMMA CommentClaimsStay ==
  /\ UNCHANGED itemComments => ItemCommentClaims' = ItemCommentClaims
  /\ UNCHANGED issueComments => IssueCommentClaims' = IssueCommentClaims
BY DEF ItemCommentClaims, IssueCommentClaims, Claim

\* A posted issue is a claim to what it was copied from, and its webhook one to it.
LEMMA PostIssueClaims ==
  ASSUME Traceable, NEW x, PostIssue(x)
  PROVE  Gains(IF x.by = 0 THEN {} ELSE {Claim("issue", Len(issues) + 1, <<"item_created", x.by>>)})
<1>1. issues \in Seq(Issue) /\ issues' = Append(issues, x)
  BY Typed DEF StoreTypes, PostIssue
<1>2. /\ DOMAIN issues' = DOMAIN issues \cup {Len(issues) + 1}
      /\ Len(issues) + 1 \notin DOMAIN issues
      /\ \A n \in DOMAIN issues : issues'[n] = issues[n]
      /\ issues'[Len(issues) + 1] = x
  BY <1>1, Added
<1>3. IssueClaims' \subseteq IssueClaims \cup
        (IF x.by = 0 THEN {} ELSE {Claim("issue", Len(issues) + 1, <<"item_created", x.by>>)})
  BY <1>2 DEF IssueClaims, IssueIds, Claim
<1>4. UNCHANGED <<ItemClaims, ItemCommentClaims, IssueCommentClaims>>
  BY ItemClaimsStay, CommentClaimsStay DEF PostIssue
<1>5. DueClaims' \subseteq DueClaims \cup {Claim("due", Len(hooks) + 1, <<"opened", Len(issues) + 1>>)}
  <2>1. PICK h : h = IssueHook("opened", Len(issues) + 1, x)
    OBVIOUS
  <2>2. h.kind = "opened" /\ h.on = Len(issues) + 1 /\ Queue(h)
    BY <2>1 DEF IssueHook, PostIssue
  <2> QED BY <2>2, QueueClaims DEF Original
<1>6. PICK c : c = Claim("due", Len(hooks) + 1, <<"opened", Len(issues) + 1>>)
  OBVIOUS
<1>7. c.of \notin Originals
  BY <1>2, <1>6 DEF Claim, Originals, IssueIds
<1> QED BY <1>3, <1>4, <1>5, <1>6, <1>7 DEF Gains, StoreClaims

\* The same of an item.
LEMMA PostItemClaims ==
  ASSUME Traceable, NEW x, PostItem(x)
  PROVE  Gains(IF x.ref = 0 THEN {} ELSE {Claim("item", Len(items) + 1, <<"opened", x.ref>>)})
<1>1. items \in Seq(Item) /\ items' = Append(items, x)
  BY Typed DEF StoreTypes, PostItem
<1>2. /\ DOMAIN items' = DOMAIN items \cup {Len(items) + 1}
      /\ Len(items) + 1 \notin DOMAIN items
      /\ \A n \in DOMAIN items : items'[n] = items[n]
      /\ items'[Len(items) + 1] = x
  BY <1>1, Added
<1>3. ItemClaims' \subseteq ItemClaims \cup
        (IF x.ref = 0 THEN {} ELSE {Claim("item", Len(items) + 1, <<"opened", x.ref>>)})
  BY <1>2 DEF ItemClaims, ItemIds, Claim
<1>4. UNCHANGED <<IssueClaims, ItemCommentClaims, IssueCommentClaims>>
  BY IssueClaimsStay, CommentClaimsStay DEF PostItem
<1>5. DueClaims' \subseteq DueClaims \cup {Claim("due", Len(hooks) + 1, <<"item_created", Len(items) + 1>>)}
  <2>1. PICK h : h = ItemHook("item_created", Len(items) + 1, x)
    OBVIOUS
  <2>2. h.kind = "item_created" /\ h.on = Len(items) + 1 /\ Queue(h)
    BY <2>1 DEF ItemHook, PostItem
  <2> QED BY <2>2, QueueClaims DEF Original
<1>6. PICK c : c = Claim("due", Len(hooks) + 1, <<"item_created", Len(items) + 1>>)
  OBVIOUS
<1>7. c.of \notin Originals
  BY <1>2, <1>6 DEF Claim, Originals, ItemIds
<1> QED BY <1>3, <1>4, <1>5, <1>6, <1>7 DEF Gains, StoreClaims

\* The same of a comment on an issue.
LEMMA PostIssueCommentClaims ==
  ASSUME Traceable, NEW x, PostIssueComment(x)
  PROVE  Gains(IF x.by = 0 THEN {}
               ELSE {Claim("issue_comment", Len(issueComments) + 1, <<"item_comment", x.by>>)})
<1>1. issueComments \in Seq(IssueComment) /\ issueComments' = Append(issueComments, x)
  BY Typed DEF StoreTypes, PostIssueComment
<1>2. /\ DOMAIN issueComments' = DOMAIN issueComments \cup {Len(issueComments) + 1}
      /\ Len(issueComments) + 1 \notin DOMAIN issueComments
      /\ \A c \in DOMAIN issueComments : issueComments'[c] = issueComments[c]
      /\ issueComments'[Len(issueComments) + 1] = x
  BY <1>1, Added
<1>3. IssueCommentClaims' \subseteq IssueCommentClaims \cup
        (IF x.by = 0 THEN {}
         ELSE {Claim("issue_comment", Len(issueComments) + 1, <<"item_comment", x.by>>)})
  BY <1>2 DEF IssueCommentClaims, Claim
<1>4. UNCHANGED <<ItemClaims, IssueClaims, ItemCommentClaims>>
  BY ItemClaimsStay, IssueClaimsStay, CommentClaimsStay DEF PostIssueComment
<1>5. DueClaims' \subseteq DueClaims \cup
        {Claim("due", Len(hooks) + 1, <<"issue_comment", Len(issueComments) + 1>>)}
  <2>1. PICK h : h = IssueCommentHook("issue_comment", Len(issueComments) + 1, x, issues[x.issue])
    OBVIOUS
  <2>2. h.kind = "issue_comment" /\ h.comment = Len(issueComments) + 1 /\ Queue(h)
    BY <2>1 DEF IssueCommentHook, PostIssueComment
  <2> QED BY <2>2, QueueClaims DEF Original
<1>6. PICK c : c = Claim("due", Len(hooks) + 1, <<"issue_comment", Len(issueComments) + 1>>)
  OBVIOUS
<1>7. c.of \notin Originals
  BY <1>2, <1>6 DEF Claim, Originals
<1> QED BY <1>3, <1>4, <1>5, <1>6, <1>7 DEF Gains, StoreClaims

\* The same of a comment on an item.
LEMMA PostItemCommentClaims ==
  ASSUME Traceable, NEW x, PostItemComment(x)
  PROVE  Gains(IF x.by = 0 THEN {}
               ELSE {Claim("item_comment", Len(itemComments) + 1, <<"issue_comment", x.by>>)})
<1>1. itemComments \in Seq(ItemComment) /\ itemComments' = Append(itemComments, x)
  BY Typed DEF StoreTypes, PostItemComment
<1>2. /\ DOMAIN itemComments' = DOMAIN itemComments \cup {Len(itemComments) + 1}
      /\ Len(itemComments) + 1 \notin DOMAIN itemComments
      /\ \A c \in DOMAIN itemComments : itemComments'[c] = itemComments[c]
      /\ itemComments'[Len(itemComments) + 1] = x
  BY <1>1, Added
<1>3. ItemCommentClaims' \subseteq ItemCommentClaims \cup
        (IF x.by = 0 THEN {}
         ELSE {Claim("item_comment", Len(itemComments) + 1, <<"issue_comment", x.by>>)})
  BY <1>2 DEF ItemCommentClaims, Claim
<1>4. UNCHANGED <<ItemClaims, IssueClaims, IssueCommentClaims>>
  BY ItemClaimsStay, IssueClaimsStay, CommentClaimsStay DEF PostItemComment
<1>5. DueClaims' \subseteq DueClaims \cup
        {Claim("due", Len(hooks) + 1, <<"item_comment", Len(itemComments) + 1>>)}
  <2>1. PICK h : h = ItemCommentHook("item_comment", Len(itemComments) + 1, x, items[x.item])
    OBVIOUS
  <2>2. h.kind = "item_comment" /\ h.comment = Len(itemComments) + 1 /\ Queue(h)
    BY <2>1 DEF ItemCommentHook, PostItemComment
  <2> QED BY <2>2, QueueClaims DEF Original
<1>6. PICK c : c = Claim("due", Len(hooks) + 1, <<"item_comment", Len(itemComments) + 1>>)
  OBVIOUS
<1>7. c.of \notin Originals
  BY <1>2, <1>6 DEF Claim, Originals
<1> QED BY <1>3, <1>4, <1>5, <1>6, <1>7 DEF Gains, StoreClaims

\* A change to an object that is there, and its webhook, are no claims.
LEMMA QuietQueueClaims ==
  ASSUME Traceable, NEW h, Queue(h), h.kind \notin Creating,
         DOMAIN issues' = DOMAIN issues, \A n \in DOMAIN issues : issues'[n].by = issues[n].by,
         DOMAIN items' = DOMAIN items, \A t \in DOMAIN items : items'[t].ref = items[t].ref,
         UNCHANGED <<issueComments, itemComments>>
  PROVE  StoreClaims' \subseteq StoreClaims
<1>1. DueClaims' \subseteq DueClaims
  BY QueueClaims
<1>2. UNCHANGED <<ItemClaims, IssueClaims, IssueCommentClaims, ItemCommentClaims>>
  BY ItemClaimsStay, IssueClaimsStay, CommentClaimsStay
<1> QED BY <1>1, <1>2 DEF StoreClaims

\* So are issues and items changed in place.
LEMMA PatchIssueClaims ==
  ASSUME Traceable, NEW n \in IssueIds, NEW x, x.by = issues[n].by, NEW kind, kind \notin Creating,
         PatchIssue(n, x, kind)
  PROVE  StoreClaims' \subseteq StoreClaims
<1>1. PICK h : h = IssueHook(kind, n, x)
  OBVIOUS
<1>2. Queue(h) /\ h.kind = kind
  BY <1>1 DEF PatchIssue, IssueHook
<1>3. DOMAIN issues' = DOMAIN issues /\ \A m \in DOMAIN issues : issues'[m].by = issues[m].by
  BY DEF PatchIssue, IssueIds
<1> QED BY <1>2, <1>3, QuietQueueClaims DEF PatchIssue

LEMMA PatchItemClaims ==
  ASSUME Traceable, NEW t \in ItemIds, NEW x, x.ref = items[t].ref, NEW kind, kind \notin Creating,
         PatchItem(t, x, kind)
  PROVE  StoreClaims' \subseteq StoreClaims
<1>1. PICK h : h = ItemHook(kind, t, x)
  OBVIOUS
<1>2. Queue(h) /\ h.kind = kind
  BY <1>1 DEF PatchItem, ItemHook
<1>3. DOMAIN items' = DOMAIN items /\ \A u \in DOMAIN items : items'[u].ref = items[u].ref
  BY DEF PatchItem, ItemIds
<1> QED BY <1>2, <1>3, QuietQueueClaims DEF PatchItem

\* What is not due any more is no claim any more.
LEMMA DueLess ==
  ASSUME UNCHANGED <<issues, issueComments, items, itemComments, hooks>>, due' \subseteq due
  PROVE  StoreClaims' \subseteq StoreClaims
<1>1. DueClaims' \subseteq DueClaims
  BY DEF DueClaims, Claim, Original
<1>2. UNCHANGED <<ItemClaims, IssueClaims, IssueCommentClaims, ItemCommentClaims>>
  BY ItemClaimsStay, IssueClaimsStay, CommentClaimsStay
<1> QED BY <1>1, <1>2 DEF StoreClaims
-----------------------------------------------------------------------------
(***************************************************************************)
(* What the failures so far pay for.                                       *)
(***************************************************************************)
LEMMA PriceType ==
  ASSUME Traceable, IsFiniteSet(Workers)
  PROVE  Price \in Nat /\ Cardinality(Workers) \in Nat
<1>1. spent["fault"] \in Nat /\ spent["restart"] \in Nat
  BY Typed DEF Outside
<1>2. Cardinality(Workers) \in Nat
  BY FS_CardinalityType
<1>3. \A m, n \in Nat : m * n \in Nat
  OBVIOUS
<1> QED BY <1>1, <1>2, <1>3 DEF Price

\* What a step of the outside adds to it.
LEMMA PriceSpent ==
  ASSUME Traceable, IsFiniteSet(Workers), NEW act \in Outside, Spend(act)
  PROVE  Price' = Price + (CASE act = "fault" -> 1
                             [] act = "restart" -> Cardinality(Workers)
                             [] OTHER -> 0)
<1>1. spent \in [Outside -> Nat] /\ spent' = [spent EXCEPT ![act] = @ + 1]
  BY Typed DEF Spend
<1>2. Cardinality(Workers) \in Nat
  BY FS_CardinalityType
<1>3. \A m, n \in Nat : m * (n + 1) = m * n + m /\ m * n \in Nat
  OBVIOUS
<1>4. CASE act = "restart"
  <2>1. spent'["restart"] = spent["restart"] + 1 /\ spent'["fault"] = spent["fault"]
    BY <1>1, <1>4 DEF Outside
  <2>2. spent["fault"] \in Nat /\ spent["restart"] \in Nat
    BY <1>1 DEF Outside
  <2>3. Cardinality(Workers) * spent'["restart"]
          = Cardinality(Workers) * spent["restart"] + Cardinality(Workers)
    BY <1>2, <1>3, <2>1, <2>2
  <2>4. Cardinality(Workers) * spent["restart"] \in Nat
    BY <1>2, <1>3, <2>2
  <2> QED BY <1>2, <1>4, <2>1, <2>2, <2>3, <2>4 DEF Price
<1>5. CASE act # "restart"
  <2>1. /\ spent'["restart"] = spent["restart"]
        /\ spent'["fault"] = IF act = "fault" THEN spent["fault"] + 1 ELSE spent["fault"]
    BY <1>1, <1>5 DEF Outside
  <2>2. spent["fault"] \in Nat /\ spent["restart"] \in Nat
    BY <1>1 DEF Outside
  <2>3. Cardinality(Workers) * spent["restart"] \in Nat
    BY <1>2, <1>3, <2>2
  <2> QED BY <1>5, <2>1, <2>2, <2>3 DEF Price
<1> QED BY <1>4, <1>5

\* What the invariant asks of a step.
LEMMA PaysStays ==
  ASSUME Traceable, Traceable', IsFiniteSet(Workers), NEW T, Claims' \subseteq T,
         NEW n \in Nat, Spare(T, n), n <= Price'
  PROVE  Paid'
<1>1. Price' \in Nat
  <2>1. spent'["fault"] \in Nat /\ spent'["restart"] \in Nat
    BY DEF Traceable, TypeOK, TrackersTypeOK, Outside
  <2>2. Cardinality(Workers) \in Nat
    BY FS_CardinalityType
  <2>3. \A k, m \in Nat : k * m \in Nat
    OBVIOUS
  <2> QED BY <2>1, <2>2, <2>3 DEF Price
<1>2. Spare(Claims', Price')
  BY <1>1, SpareLess
<1> QED BY <1>2 DEF Paid
-----------------------------------------------------------------------------
(***************************************************************************)
(* What each step does to the claims.                                      *)
(***************************************************************************)

\* A step that leaves its handlers no more than they had.
Keeps(w) == Promising(worker'[w]) => Promising(worker[w]) /\ worker'[w].hook = worker[w].hook

\* Then they have no more claims either.
LEMMA HandlersKeep ==
  ASSUME Traceable, Grows, \A w \in Workers : Keeps(w)
  PROVE  HandlerClaims' \subseteq HandlerClaims
<1> SUFFICES ASSUME NEW w \in Workers, Promising(worker'[w]), Evt(w).kind' \in Creating
             PROVE  Claim("handler", w, Original(Evt(w)))' \in HandlerClaims
  BY DEF HandlerClaims
<1>1. Promising(worker[w]) /\ worker'[w].hook = worker[w].hook
  BY DEF Keeps
<1>2. worker[w].hook \in DOMAIN hooks
  BY <1>1, Handling DEF Promising
<1>3. Evt(w)' = Evt(w)
  BY <1>1, <1>2 DEF Evt, Grows
<1> QED BY <1>1, <1>3 DEF HandlerClaims, Claim, Original

\* The claim of a handler, to what the delivery it handles is about.
HandlerClaim(w) == Claim("handler", w, Original(Evt(w)))

\* A handler that has answered has no claim any more.
LEMMA HandlerLeaves ==
  ASSUME Traceable, Grows, NEW w \in Workers, ~Promising(worker'[w]),
         \A v \in Workers : Keeps(v)
  PROVE  HandlerClaims' \subseteq HandlerClaims \ {HandlerClaim(w)}
<1>1. HandlerClaims' \subseteq HandlerClaims
  BY HandlersKeep
<1>2. ASSUME NEW x \in HandlerClaims'
      PROVE  x.id # w
  <2>1. PICK v \in Workers : Promising(worker'[v]) /\ x = Claim("handler", v, Original(Evt(v)))'
    BY DEF HandlerClaims
  <2>2. x.id = v
    BY <2>1 DEF Claim
  <2> QED BY <2>1, <2>2
<1>3. HandlerClaim(w).id = w
  BY DEF HandlerClaim, Claim
<1> QED BY <1>1, <1>2, <1>3

\* A handler at work on a delivery that leads to a copy has a claim.
LEMMA HandlerClaimThere ==
  ASSUME NEW w \in Workers, Promising(worker[w]), Evt(w).kind \in Creating
  PROVE  HandlerClaim(w) \in Claims /\ HandlerClaim(w).of = Original(Evt(w))
<1>1. HandlerClaim(w) \in HandlerClaims
  BY DEF HandlerClaims, HandlerClaim
<1> QED BY <1>1 DEF Claims, HandlerClaim, Claim

\* No claim of the stores is one of a handler.
LEMMA NoHandler ==
  ASSUME NEW w
  PROVE  HandlerClaim(w) \notin StoreClaims
<1>1. HandlerClaim(w).is = "handler"
  BY DEF HandlerClaim, Claim
<1>2. ASSUME NEW x \in StoreClaims
      PROVE  x.is # "handler"
  BY DEF StoreClaims, ItemClaims, IssueClaims, ItemCommentClaims, IssueCommentClaims,
         DueClaims, Claim
<1> QED BY <1>1, <1>2

\* A step that adds no claim, or one to something new.
LEMMA PaidFresh ==
  ASSUME Traceable, Traceable', Paid, IsFiniteSet(Workers), Price <= Price',
         Gains({}), HandlerClaims' \subseteq HandlerClaims
  PROVE  Paid'
<1>1. PICK c : c.of \notin Originals /\ StoreClaims' \subseteq StoreClaims \cup {c}
  BY DEF Gains
<1>2. \A x \in Claims : x.of # c.of
  BY <1>1, ClaimsKnown
<1>3. Claims' \subseteq Claims \cup {c}
  BY <1>1 DEF Claims, StoreClaims
<1>4. Price \in Nat
  BY PriceType
<1>5. Spare(Claims \cup {c}, Price)
  BY <1>2, <1>4, SpareFresh DEF Paid
<1> QED BY <1>3, <1>4, <1>5, PaysStays

\* A step that turns a claim into another, and may add one to something new.
LEMMA PaidSwap ==
  ASSUME Traceable, Traceable', Paid, IsFiniteSet(Workers), Price <= Price',
         NEW a \in Claims, NEW b, b.of = a.of, NEW c, c.of \notin Originals,
         Claims' \subseteq ((Claims \ {a}) \cup {b}) \cup {c}
  PROVE  Paid'
<1>1. Price \in Nat
  BY PriceType
<1>2. Spare((Claims \ {a}) \cup {b}, Price)
  BY <1>1, SpareSwap DEF Paid
<1>3. \A x \in (Claims \ {a}) \cup {b} : x.of # c.of
  BY ClaimsKnown
<1>4. Spare(((Claims \ {a}) \cup {b}) \cup {c}, Price)
  BY <1>1, <1>2, <1>3, SpareFresh
<1> QED BY <1>1, <1>4, PaysStays

\* A failure, which adds a claim, and may add one to something new.
LEMMA PaidFault ==
  ASSUME Traceable, Traceable', Paid, IsFiniteSet(Workers), Spend("fault"),
         NEW b, NEW c, c.of \notin Originals, Claims' \subseteq (Claims \cup {c}) \cup {b}
  PROVE  Paid'
<1>1. Price \in Nat
  BY PriceType
<1>2. Price' = Price + 1
  BY PriceSpent DEF Outside
<1>3. \A x \in Claims : x.of # c.of
  BY ClaimsKnown
<1>4. Spare(Claims \cup {c}, Price)
  BY <1>1, <1>3, SpareFresh DEF Paid
<1>5. Spare((Claims \cup {c}) \cup {b}, Price + 1)
  BY <1>1, <1>4, SparePaidOne
<1> QED BY <1>1, <1>2, <1>5, PaysStays

\* Something that is not there.
LEMMA Unknown == \E c : c.of \notin Originals
<1>1. PICK c : c = Claim("none", 0, <<"none", 0>>)
  OBVIOUS
<1>2. c.of = <<"none", 0>>
  BY <1>1 DEF Claim
<1>3. c.of \notin Originals
  BY <1>2 DEF Originals
<1> QED BY <1>3

\* A step that adds no claim to the stores.
LEMMA NoGain ==
  ASSUME StoreClaims' \subseteq StoreClaims
  PROVE  Gains({})
BY Unknown DEF Gains

\* No step lowers the price.
LEMMA PriceStays ==
  ASSUME Traceable, IsFiniteSet(Workers),
         UNCHANGED spent \/ \E act \in Outside : Spend(act)
  PROVE  Price <= Price'
<1>1. Price \in Nat /\ Cardinality(Workers) \in Nat
  BY PriceType
<1>2. CASE UNCHANGED spent
  BY <1>1, <1>2 DEF Price
<1>3. ASSUME NEW act \in Outside, Spend(act)
      PROVE  Price <= Price'
  <2>1. Price' = Price + (CASE act = "fault" -> 1
                             [] act = "restart" -> Cardinality(Workers)
                             [] OTHER -> 0)
    BY <1>3, PriceSpent
  <2>2. CASE act = "fault"
    BY <1>1, <2>1, <2>2
  <2>3. CASE act = "restart"
    BY <1>1, <2>1, <2>3
  <2>4. CASE act \notin {"fault", "restart"}
    BY <1>1, <2>1, <2>4
  <2> QED BY <2>2, <2>3, <2>4
<1> QED BY <1>2, <1>3

\* What forge users do leads to new things only.
LEMMA ForgeUserGains ==
  ASSUME Traceable, NEW n \in IssueIds,
         ForgeUserEdits(n) \/ ForgeUserFlips(n) \/ ForgeUserComments(n)
  PROVE  Gains({})
<1>i. issues[n] \in Issue
  BY Typed, Element DEF StoreTypes, IssueIds
<1>1. CASE ForgeUserEdits(n)
  <2>1. PICK m \in {issues[n].marked, FALSE} :
          PatchIssue(n, [issues[n] EXCEPT !.rev = @ + 1, !.marked = m], "edited")
    BY <1>1 DEF ForgeUserEdits
  <2>2. PICK x : x = [issues[n] EXCEPT !.rev = @ + 1, !.marked = m]
    OBVIOUS
  <2>3. x.by = issues[n].by
    BY <1>i, <2>2 DEF Issue
  <2>4. PatchIssue(n, x, "edited")
    BY <2>1, <2>2
  <2> QED BY <2>3, <2>4, PatchIssueClaims, NoGain DEF Creating
<1>2. CASE ForgeUserFlips(n)
  <2>1. PICK x, kind : /\ x = [issues[n] EXCEPT !.open = ~@]
                       /\ kind = IF issues[n].open THEN "closed" ELSE "reopened"
    OBVIOUS
  <2>2. x.by = issues[n].by
    BY <1>i, <2>1 DEF Issue
  <2>3. PatchIssue(n, x, kind) /\ kind \notin Creating
    BY <1>2, <2>1 DEF ForgeUserFlips, Creating
  <2> QED BY <2>2, <2>3, PatchIssueClaims, NoGain
<1>3. CASE ForgeUserComments(n)
  <2>1. PICK x : x = [issue |-> n, by |-> 0, marked |-> FALSE]
    OBVIOUS
  <2>2. PostIssueComment(x) /\ x.by = 0
    BY <1>3, <2>1 DEF ForgeUserComments
  <2> QED BY <2>2, PostIssueCommentClaims
<1> QED BY <1>1, <1>2, <1>3

\* A webhook alone, of a kind that leads to no copy.
LEMMA QuietGains ==
  ASSUME Traceable, NEW h, Queue(h), h.kind \notin Creating,
         UNCHANGED <<issues, issueComments, items, itemComments>>
  PROVE  Gains({})
BY QuietQueueClaims, NoGain

\* So does what Plane's users do.
LEMMA PlaneUserGains ==
  ASSUME Traceable, NEW t \in ItemIds,
         PlaneUserDeletes(t) \/ PlaneUserComments(t) \/ \E s \in PlaneStates : PlaneUserMoves(t, s)
  PROVE  Gains({})
<1>i. items[t] \in Item
  BY Typed, Element DEF StoreTypes, ItemIds
<1>1. CASE PlaneUserDeletes(t)
  <2>1. PICK x : x = [items[t] EXCEPT !.live = FALSE]
    OBVIOUS
  <2>2. x.ref = items[t].ref /\ PatchItem(t, x, "item_deleted")
    BY <1>i, <1>1, <2>1 DEF Item, PlaneUserDeletes
  <2> QED BY <2>2, PatchItemClaims, NoGain DEF Creating
<1>2. ASSUME NEW s \in PlaneStates, PlaneUserMoves(t, s)
      PROVE  Gains({})
  <2>1. PICK x : x = [items[t] EXCEPT !.state = s]
    OBVIOUS
  <2>2. x.ref = items[t].ref /\ PatchItem(t, x, "item_updated")
    BY <1>i, <1>2, <2>1 DEF Item, PlaneUserMoves
  <2> QED BY <2>2, PatchItemClaims, NoGain DEF Creating
<1>3. CASE PlaneUserComments(t)
  <2>1. PICK x : x = [item |-> t, by |-> 0, marked |-> FALSE]
    OBVIOUS
  <2>2. PostItemComment(x) /\ x.by = 0
    BY <1>3, <2>1 DEF PlaneUserComments
  <2> QED BY <2>2, PostItemCommentClaims
<1> QED BY <1>1, <1>2, <1>3

\* Whatever a user does, and it is an act of the outside.
LEMMA UserGains ==
  ASSUME Traceable, UserStep
  PROVE  Gains({}) /\ \E act \in Outside : Spend(act)
<1>1. ASSUME NEW r, ForgeUserOpens(r)
      PROVE  Gains({}) /\ Spend("open")
  <2>1. PICK x : x = [repo |-> r, by |-> 0, rev |-> 1, open |-> TRUE, marked |-> FALSE]
    OBVIOUS
  <2>2. PostIssue(x) /\ x.by = 0
    BY <1>1, <2>1 DEF ForgeUserOpens
  <2> QED BY <1>1, <2>2, PostIssueClaims DEF ForgeUserOpens
<1>2. ASSUME NEW p, PlaneUserCreates(p)
      PROVE  Gains({}) /\ Spend("create")
  <2>1. PICK x : x = [project |-> p, ref |-> 0, repo |-> "-", rev |-> 1,
                      state |-> DefaultState, live |-> TRUE]
    OBVIOUS
  <2>2. PostItem(x) /\ x.ref = 0
    BY <1>2, <2>1 DEF PlaneUserCreates
  <2> QED BY <1>2, <2>2, PostItemClaims DEF PlaneUserCreates
<1>3. ASSUME NEW n \in DOMAIN issues,
             ForgeUserEdits(n) \/ ForgeUserFlips(n) \/ ForgeUserComments(n)
      PROVE  Gains({}) /\ \E act \in Outside : Spend(act)
  <2>1. Spend("edit") \/ Spend("flip") \/ Spend("comment")
    BY <1>3 DEF ForgeUserEdits, ForgeUserFlips, ForgeUserComments
  <2> QED BY <1>3, <2>1, ForgeUserGains DEF IssueIds, Outside
<1>4. ASSUME NEW t \in DOMAIN items, PlaneUserDeletes(t) \/ PlaneUserComments(t)
                                       \/ \E s \in PlaneStates : PlaneUserMoves(t, s)
      PROVE  Gains({}) /\ \E act \in Outside : Spend(act)
  <2>1. Spend("delete") \/ Spend("remark") \/ Spend("move")
    BY <1>4 DEF PlaneUserDeletes, PlaneUserComments, PlaneUserMoves
  <2> QED BY <1>4, <2>1, PlaneUserGains DEF ItemIds, Outside
<1>5. ASSUME NEW c, ForgeUserTouchesComment(c)
      PROVE  Gains({}) /\ Spend("recomment")
  <2>1. PICK h : h = IssueCommentHook("issue_comment_touched", c,
                                      [issueComments[c] EXCEPT !.marked = FALSE],
                                      issues[issueComments[c].issue])
    OBVIOUS
  <2>2. h.kind = "issue_comment_touched" /\ Queue(h)
    BY <1>5, <2>1 DEF IssueCommentHook, ForgeUserTouchesComment
  <2> QED BY <1>5, <2>2, QuietGains DEF ForgeUserTouchesComment, Creating
<1>6. ASSUME NEW c, PlaneUserTouchesComment(c)
      PROVE  Gains({}) /\ Spend("touch")
  <2>1. PICK h : h = ItemCommentHook("item_comment_touched", c,
                                     [itemComments[c] EXCEPT !.marked = FALSE],
                                     items[itemComments[c].item])
    OBVIOUS
  <2>2. h.kind = "item_comment_touched" /\ Queue(h)
    BY <1>6, <2>1 DEF ItemCommentHook, PlaneUserTouchesComment
  <2> QED BY <1>6, <2>2, QuietGains DEF PlaneUserTouchesComment, Creating
<1>7. ASSUME NEW r, NEW kind \in PullKinds, NEW t, ForgeUserPulls(r, kind, t)
      PROVE  Gains({}) /\ Spend("pull")
  <2>1. PICK h : h = [kind |-> kind, home |-> r, on |-> t, comment |-> 0, rev |-> 0,
                      bodyMarked |-> FALSE, commentMarked |-> FALSE]
    OBVIOUS
  <2>2. h.kind \notin Creating /\ Queue(h)
    BY <1>7, <2>1 DEF ForgeUserPulls, PullKinds, Creating
  <2> QED BY <1>7, <2>2, QuietGains DEF ForgeUserPulls
<1> QED BY <1>1, <1>2, <1>3, <1>4, <1>5, <1>6, <1>7 DEF UserStep, Outside

\* A user's step leaves the copies paid for.
LEMMA UsersPaid ==
  ASSUME Traceable, Traceable', Paid, IsFiniteSet(Workers), Users
  PROVE  Paid'
<1>1. Gains({}) /\ Price <= Price'
  BY UserGains, PriceStays DEF Users
<1>2. \A w \in Workers : Keeps(w)
  BY DEF Users, Keeps
<1>3. Grows
  BY StepSound DEF Next, SoundStep
<1> QED BY <1>1, <1>2, <1>3, HandlersKeep, PaidFresh
-----------------------------------------------------------------------------
\* Whatever a handler writes is a copy of what its delivery is about, or no copy.
LEMMA UpdateGains ==
  ASSUME Traceable, NEW w \in Workers, worker[w].pc = "write", worker[w].item # 0,
         NEW x, x.ref = items[worker[w].item].ref, Update(w, x)
  PROVE  Gains({})
<1>1. worker[w].item \in ItemIds
  BY FoundItem
<1>2. CASE PatchItem(worker[w].item, x, "item_updated")
  BY <1>1, <1>2, PatchItemClaims, NoGain DEF Creating
<1>3. CASE Refused(w)
  BY <1>3, DueLess, NoGain DEF Refused, trackerVars
<1> QED BY <1>2, <1>3 DEF Update

\* A refused write adds nothing.
LEMMA RefusedGains ==
  ASSUME NEW w \in Workers, Refused(w)
  PROVE  Gains({})
BY DueLess, NoGain DEF Refused, trackerVars

\* Adding nothing is adding something at most.
LEMMA GainsLess ==
  ASSUME NEW b, Gains({})
  PROVE  Gains({b})
BY DEF Gains

\* CreateItem, CommentOnItem, CommentOnIssue and CreateIssue make a copy.
LEMMA CopyGains ==
  ASSUME Traceable, NEW w \in Workers,
         CreateItem(w) \/ CommentOnItem(w) \/ CommentOnIssue(w) \/ CreateIssue(w)
  PROVE  Evt(w).kind \in Creating /\ \E b : b.of = Original(Evt(w)) /\ Gains({b})
<1>1. CASE CreateItem(w)
  <2>0. Evt(w).kind = "opened"
    BY <1>1 DEF CreateItem, At
  <2>1. PICK b : b = Claim("item", Len(items) + 1, <<"opened", Evt(w).on>>)
    OBVIOUS
  <2>2. b.of = Original(Evt(w))
    BY <2>0, <2>1 DEF Claim, Original
  <2>3. CASE Refused(w)
    BY <2>0, <2>2, <2>3, RefusedGains, GainsLess DEF Creating
  <2>4. CASE ~Refused(w)
    <3>1. PICK k \in LinkForRepo(Evt(w).home) :
            PostItem([project |-> links[k].project, ref |-> Evt(w).on,
                      repo |-> links[k].repo, rev |-> Evt(w).rev,
                      state |-> Mapped(links[k].stateMap["open"], DefaultState),
                      live |-> TRUE])
      BY <1>1, <2>4 DEF CreateItem
    <3>2. PICK x : x = [project |-> links[k].project, ref |-> Evt(w).on,
                        repo |-> links[k].repo, rev |-> Evt(w).rev,
                        state |-> Mapped(links[k].stateMap["open"], DefaultState),
                        live |-> TRUE]
      OBVIOUS
    <3>3. PostItem(x) /\ x.ref = Evt(w).on
      BY <3>1, <3>2
    <3>4. Gains({}) \/ Gains({b})
      BY <2>1, <3>3, PostItemClaims
    <3> QED BY <2>0, <2>2, <3>4, GainsLess DEF Creating
  <2> QED BY <2>3, <2>4
<1>2. CASE CommentOnItem(w)
  <2>0. Evt(w).kind = "issue_comment"
    BY <1>2 DEF CommentOnItem, At
  <2>1. PICK b : b = Claim("item_comment", Len(itemComments) + 1, <<"issue_comment", Evt(w).comment>>)
    OBVIOUS
  <2>2. b.of = Original(Evt(w))
    BY <2>0, <2>1 DEF Claim, Original
  <2>3. CASE Refused(w)
    BY <2>0, <2>2, <2>3, RefusedGains, GainsLess DEF Creating
  <2>4. CASE ~Refused(w)
    <3>1. PICK x : x = [item |-> worker[w].item, by |-> Evt(w).comment,
                        marked |-> KeepsCommentMarker]
      OBVIOUS
    <3>2. PostItemComment(x) /\ x.by = Evt(w).comment
      BY <1>2, <2>4, <3>1 DEF CommentOnItem
    <3>3. Gains({}) \/ Gains({b})
      BY <2>1, <3>2, PostItemCommentClaims
    <3> QED BY <2>0, <2>2, <3>3, GainsLess DEF Creating
  <2> QED BY <2>3, <2>4
<1>3. CASE CommentOnIssue(w)
  <2>0. Evt(w).kind = "item_comment"
    BY <1>3 DEF CommentOnIssue, At
  <2>1. PICK b : b = Claim("issue_comment", Len(issueComments) + 1, <<"item_comment", Evt(w).comment>>)
    OBVIOUS
  <2>2. b.of = Original(Evt(w))
    BY <2>0, <2>1 DEF Claim, Original
  <2>3. PICK x : x = [issue |-> items[worker[w].item].ref, by |-> Evt(w).comment,
                      marked |-> TRUE]
    OBVIOUS
  <2>4. PostIssueComment(x) /\ x.by = Evt(w).comment
    BY <1>3, <2>3 DEF CommentOnIssue
  <2>5. Gains({}) \/ Gains({b})
    BY <2>1, <2>4, PostIssueCommentClaims
  <2> QED BY <2>0, <2>2, <2>5, GainsLess DEF Creating
<1>4. CASE CreateIssue(w)
  <2>0. Evt(w).kind = "item_created"
    BY <1>4 DEF CreateIssue, At
  <2>1. PICK b : b = Claim("issue", Len(issues) + 1, <<"item_created", Evt(w).on>>)
    OBVIOUS
  <2>2. b.of = Original(Evt(w))
    BY <2>0, <2>1 DEF Claim, Original
  <2>3. PICK k \in LinkForPlaneProject(Evt(w).home) :
          PostIssue([repo |-> links[k].repo, by |-> Evt(w).on, rev |-> Evt(w).rev,
                     open |-> TRUE, marked |-> TRUE])
    BY <1>4 DEF CreateIssue
  <2>4. PICK x : x = [repo |-> links[k].repo, by |-> Evt(w).on, rev |-> Evt(w).rev,
                      open |-> TRUE, marked |-> TRUE]
    OBVIOUS
  <2>5. PostIssue(x) /\ x.by = Evt(w).on
    BY <2>3, <2>4
  <2>6. Gains({}) \/ Gains({b})
    BY <2>1, <2>5, PostIssueClaims
  <2> QED BY <2>0, <2>2, <2>6, GainsLess DEF Creating
<1> QED BY <1>1, <1>2, <1>3, <1>4

\* The other writes make none.
LEMMA EditGains ==
  ASSUME Traceable, NEW w \in Workers,
         Reconcile(w) \/ UpdateText(w) \/ UpdateState(w) \/ MoveForPull(w)
  PROVE  Gains({})
<1>1. worker[w].pc = "write"
  BY DEF Reconcile, UpdateText, UpdateState, MoveForPull, At
<1>2. worker[w].item # 0
  <2>1. CASE Reconcile(w)
    BY <2>1 DEF Reconcile
  <2>2. CASE UpdateText(w) \/ UpdateState(w) \/ MoveForPull(w)
    <3>1. Evt(w).kind \notin {"opened", "item_created"}
      BY <2>2 DEF UpdateText, UpdateState, MoveForPull, At, PullKinds
    <3> QED BY <1>1, <3>1, Handling DEF HandlerOK, Evt
  <2> QED BY <2>1, <2>2
<1>3. items[worker[w].item] \in Item
  BY <1>1, <1>2, FoundItem
<1>4. CASE Reconcile(w)
  BY <1>1, <1>2, <1>3, <1>4, UpdateGains DEF Reconcile, Item
<1>5. CASE UpdateText(w)
  BY <1>1, <1>2, <1>3, <1>5, UpdateGains DEF UpdateText, Item
<1>6. CASE UpdateState(w)
  BY <1>1, <1>2, <1>3, <1>6, UpdateGains DEF UpdateState, Item
<1>7. CASE MoveForPull(w)
  BY <1>1, <1>2, <1>3, <1>7, UpdateGains DEF MoveForPull, Item
<1> QED BY <1>4, <1>5, <1>6, <1>7

\* What a write reports, and what that leaves of its handler.
LEMMA WriteOutcome ==
  ASSUME Traceable, NEW w \in Workers, Write(w)
  PROVE  /\ worker[w].pc = "write"
         /\ \A v \in Workers : Keeps(v)
         /\ \/ ~Promising(worker'[w]) /\ (UNCHANGED spent \/ Spend("fault"))
            \/ Spend("fault")
            \/ UNCHANGED trackerVars
<1>0. worker \in [Workers -> Worker]
  BY Typed
<1>1. Applied(w) \/ Refused(w)
  <2>1. CASE Reconcile(w) \/ UpdateText(w) \/ UpdateState(w) \/ MoveForPull(w)
    BY <2>1 DEF Reconcile, UpdateText, UpdateState, MoveForPull, Update
  <2>2. CASE CreateItem(w) \/ CommentOnItem(w) \/ CommentOnIssue(w) \/ CreateIssue(w)
    BY <2>2 DEF CreateItem, CommentOnItem, CommentOnIssue, CreateIssue
  <2> QED BY <2>1, <2>2 DEF Write
<1>2. worker[w].pc = "write"
  BY DEF Write, CreateItem, Reconcile, UpdateText, UpdateState, MoveForPull, CommentOnItem,
         CommentOnIssue, CreateIssue, At
<1>3. PICK outcome \in {"done", "failed"} : Answering(w, outcome)
  BY <1>1 DEF Applied, Refused
<1>4. /\ worker'[w].pc = "answer" /\ worker'[w].outcome = outcome
      /\ worker'[w].hook = worker[w].hook /\ worker'[w].heard = worker[w].heard
      /\ \A v \in Workers \ {w} : worker'[v] = worker[v]
  BY <1>0, <1>3 DEF Answering, Worker
<1>5. \A v \in Workers : Keeps(v)
  BY <1>2, <1>4 DEF Keeps, Promising
<1>6. CASE Refused(w)
  BY <1>2, <1>5, <1>6 DEF Refused
<1>7. CASE Applied(w)
  <2>1. CASE worker'[w].outcome = "done"
    <3>1. ~Promising(worker'[w])
      BY <1>4, <2>1 DEF Promising
    <3> QED BY <1>2, <1>5, <1>7, <3>1 DEF Applied, Fault
  <2>2. CASE worker'[w].outcome # "done"
    <3>1. ~Answering(w, "done")
      BY <1>0, <2>2 DEF Answering, Worker
    <3>2. Fault(w)
      BY <1>7, <3>1 DEF Applied
    <3>3. CASE worker[w].heard
      BY <1>2, <1>5, <3>2, <3>3 DEF Fault
    <3>4. CASE ~worker[w].heard
      <4>1. ~Promising(worker'[w])
        BY <1>4, <3>4 DEF Promising
      <4> QED BY <1>2, <1>5, <3>2, <3>4, <4>1 DEF Fault
    <3> QED BY <3>3, <3>4
  <2> QED BY <2>1, <2>2
<1> QED BY <1>1, <1>6, <1>7

\* A copy takes the claim of the handler that made it, or costs a failure.
LEMMA WritePaid ==
  ASSUME Traceable, Traceable', Paid, IsFiniteSet(Workers), NEW w \in Workers, Write(w)
  PROVE  Paid'
<1>1. Grows
  BY StepSound DEF Next, SoundStep
<1>2. /\ worker[w].pc = "write" /\ \A v \in Workers : Keeps(v)
      /\ \/ ~Promising(worker'[w]) /\ (UNCHANGED spent \/ Spend("fault"))
         \/ Spend("fault")
         \/ UNCHANGED trackerVars
  BY WriteOutcome
<1>3. UNCHANGED trackerVars => UNCHANGED spent
  BY DEF trackerVars
<1>4. Price <= Price'
  BY <1>2, <1>3, PriceStays DEF Outside
<1>5. HandlerClaims' \subseteq HandlerClaims
  BY <1>1, <1>2, HandlersKeep
<1>6. CASE Gains({})
  BY <1>4, <1>5, <1>6, PaidFresh
<1>7. CASE CreateItem(w) \/ CommentOnItem(w) \/ CommentOnIssue(w) \/ CreateIssue(w)
  <2>1. Evt(w).kind \in Creating
    BY <1>7, CopyGains
  <2>2. PICK b : b.of = Original(Evt(w)) /\ Gains({b})
    BY <1>7, CopyGains
  <2>3. PICK c : c.of \notin Originals /\ StoreClaims' \subseteq (StoreClaims \cup {c}) \cup {b}
    BY <2>2 DEF Gains
  <2>4. CASE Spend("fault")
    <3>1. Claims' \subseteq (Claims \cup {c}) \cup {b}
      BY <1>5, <2>3 DEF Claims, StoreClaims
    <3> QED BY <2>3, <2>4, <3>1, PaidFault
  <2>5. CASE ~Promising(worker'[w])
    <3>1. HandlerClaims' \subseteq HandlerClaims \ {HandlerClaim(w)}
      BY <1>1, <1>2, <2>5, HandlerLeaves
    <3>2. HandlerClaim(w) \in Claims /\ b.of = HandlerClaim(w).of
      BY <1>2, <2>1, <2>2, HandlerClaimThere DEF Promising
    <3>3. HandlerClaim(w) \notin StoreClaims
      BY NoHandler
    <3>4. Claims' = StoreClaims' \cup HandlerClaims' /\ Claims = StoreClaims \cup HandlerClaims
      BY DEF Claims, StoreClaims
    <3>5. Claims' \subseteq ((Claims \ {HandlerClaim(w)}) \cup {b}) \cup {c}
      BY <2>3, <3>1, <3>3, <3>4
    <3> QED BY <1>4, <2>3, <3>2, <3>5, PaidSwap
  <2>6. CASE UNCHANGED trackerVars
    <3>1. Gains({})
      BY <2>6, DueLess, NoGain DEF trackerVars
    <3> QED BY <3>1, <1>6
  <2> QED BY <1>2, <2>4, <2>5, <2>6
<1>8. CASE Reconcile(w) \/ UpdateText(w) \/ UpdateState(w) \/ MoveForPull(w)
  BY <1>6, <1>8, EditGains
<1> QED BY <1>7, <1>8 DEF Write

\* Looking up and failing leave a handler its claim at most.
LEMMA NoCallPaid ==
  ASSUME Traceable, Traceable', Paid, IsFiniteSet(Workers), [Next]_vars,
         UNCHANGED <<issues, issueComments, items, itemComments, hooks>>, due' \subseteq due,
         UNCHANGED spent \/ Spend("fault"), \A w \in Workers : Keeps(w)
  PROVE  Paid'
<1>1. Gains({})
  BY DueLess, NoGain
<1>2. Price <= Price'
  BY PriceStays DEF Outside
<1>3. Grows
  BY StepSound DEF SoundStep
<1> QED BY <1>1, <1>2, <1>3, HandlersKeep, PaidFresh

\* So a look-up and a failed call leave the copies paid for.
LEMMA LookupPaid ==
  ASSUME Traceable, Traceable', Paid, IsFiniteSet(Workers), NEW w \in Workers,
         Lookup(w) \/ CallFails(w)
  PROVE  Paid'
<1>0. worker \in [Workers -> Worker]
  BY Typed
<1>1. worker[w].pc \in {"lookup", "write"}
  BY DEF Lookup, LookupByRef, LookupBySequence, LookupParent, At, CallFails
<1>2. (\E t : To(w, "write", t)) \/ \E outcome : Answering(w, outcome)
  <2>1. CASE LookupByRef(w)
    BY <2>1 DEF LookupByRef
  <2>2. CASE LookupBySequence(w)
    BY <2>2 DEF LookupBySequence
  <2>3. CASE LookupParent(w)
    BY <2>3 DEF LookupParent
  <2>4. CASE CallFails(w)
    BY <2>4 DEF CallFails
  <2> QED BY <2>1, <2>2, <2>3, <2>4 DEF Lookup
<1>3. worker'[w].hook = worker[w].hook /\ \A v \in Workers \ {w} : worker'[v] = worker[v]
  BY <1>0, <1>2 DEF To, Answering, Worker
<1>4. \A v \in Workers : Keeps(v)
  BY <1>1, <1>3 DEF Keeps, Promising
<1>5. /\ UNCHANGED <<issues, issueComments, items, itemComments, hooks, due>>
      /\ UNCHANGED spent \/ Spend("fault")
  BY DEF Lookup, LookupByRef, LookupBySequence, LookupParent, CallFails, Fault, trackerVars
<1> QED BY <1>4, <1>5, NoCallPaid DEF Next

\* A delivery dropped is a claim less.
LEMMA DismissPaid ==
  ASSUME Traceable, Traceable', Paid, IsFiniteSet(Workers), NEW d \in DOMAIN hooks, Dismiss(d)
  PROVE  Paid'
<1>1. \A w \in Workers : Keeps(w)
  BY DEF Dismiss, Keeps
<1> QED BY <1>1, NoCallPaid DEF Dismiss, Next

\* A delivery taken up passes its claim on to its handler.
LEMMA BeginPaid ==
  ASSUME Traceable, Traceable', Paid, IsFiniteSet(Workers), NEW w \in Workers,
         NEW d \in DOMAIN hooks, Begin(w, d)
  PROVE  Paid'
<1>0. worker \in [Workers -> Worker] /\ due \subseteq DOMAIN hooks
  BY Typed DEF StoreTypes
<1>1. /\ d \in due /\ due' = due \ {d} /\ worker[w].pc = "idle"
      /\ UNCHANGED <<issues, issueComments, items, itemComments, hooks, spent>>
  BY DEF Begin, Deliverable
<1>2. worker'[w].hook = d /\ \A v \in Workers \ {w} : worker'[v] = worker[v]
  BY <1>0 DEF Begin, Idle
<1>3. Evt(w)' = hooks[d]
  BY <1>1, <1>2 DEF Evt
<1>p. Price <= Price'
  BY <1>1, PriceStays
<1>g. Grows
  BY StepSound DEF Next, SoundStep
<1>4. CASE hooks[d].kind \in Creating
  <2>1. PICK a, b : a = Claim("due", d, Original(hooks[d])) /\ b = HandlerClaim(w)'
    OBVIOUS
  <2>2. a.of = Original(hooks[d]) /\ b.of = Original(hooks[d]) /\ a.is = "due" /\ a.id = d
    BY <1>3, <2>1 DEF Claim, HandlerClaim, Original
  <2>3. a \in DueClaims
    BY <1>1, <1>4, <2>1 DEF DueClaims
  <2>4. DueClaims' \subseteq DueClaims \ {a}
    <3> SUFFICES ASSUME NEW e \in due \ {d}, hooks[e].kind \in Creating
                 PROVE  Claim("due", e, Original(hooks[e])) \in DueClaims \ {a}
      BY <1>1 DEF DueClaims, Claim, Original
    <3>1. Claim("due", e, Original(hooks[e])).id = e
      BY DEF Claim
    <3> QED BY <2>2, <3>1 DEF DueClaims
  <2>5. UNCHANGED <<ItemClaims, IssueClaims, IssueCommentClaims, ItemCommentClaims>>
    BY <1>1, ItemClaimsStay, IssueClaimsStay, CommentClaimsStay
  <2>6. a \notin ItemClaims /\ a \notin IssueClaims /\ a \notin IssueCommentClaims
        /\ a \notin ItemCommentClaims /\ a \notin HandlerClaims
    BY <2>2 DEF ItemClaims, IssueClaims, IssueCommentClaims, ItemCommentClaims, HandlerClaims, Claim
  <2>7. HandlerClaims' \subseteq HandlerClaims \cup {b}
    <3> SUFFICES ASSUME NEW v \in Workers, Promising(worker'[v]), Evt(v).kind' \in Creating
                 PROVE  Claim("handler", v, Original(Evt(v)))' \in HandlerClaims \cup {b}
      BY DEF HandlerClaims
    <3>1. CASE v = w
      BY <2>1, <3>1 DEF HandlerClaim
    <3>2. CASE v # w
      BY <1>1, <1>2, <3>2 DEF HandlerClaims, Evt, Claim, Original
    <3> QED BY <3>1, <3>2
  <2>8. PICK c : c.of \notin Originals
    BY Unknown
  <2>9. a \in Claims /\ Claims' \subseteq ((Claims \ {a}) \cup {b}) \cup {c}
    BY <2>3, <2>4, <2>5, <2>6, <2>7 DEF Claims
  <2> QED BY <1>p, <2>2, <2>8, <2>9, PaidSwap
<1>5. CASE hooks[d].kind \notin Creating
  <2>1. HandlerClaims' \subseteq HandlerClaims
    <3> SUFFICES ASSUME NEW v \in Workers, Promising(worker'[v]), Evt(v).kind' \in Creating
                 PROVE  Claim("handler", v, Original(Evt(v)))' \in HandlerClaims
      BY DEF HandlerClaims
    <3>1. v # w
      BY <1>3, <1>5
    <3> QED BY <1>1, <1>2, <3>1 DEF HandlerClaims, Evt, Claim, Original
  <2>2. Gains({})
    BY <1>1, DueLess, NoGain
  <2> QED BY <1>p, <2>1, <2>2, PaidFresh
<1> QED BY <1>4, <1>5

\* What a sender will repeat is a claim more.
LEMMA RequeuedClaims ==
  ASSUME Traceable, NEW ds \in SUBSET DOMAIN hooks, Requeued(ds),
         UNCHANGED <<issues, issueComments, items, itemComments, hooks>>
  PROVE  StoreClaims' \subseteq StoreClaims \cup {Claim("due", d, Original(hooks[d])) :
                                                   d \in {e \in ds : hooks[e].kind \in Creating}}
<1>1. due' \subseteq due \cup ds
  BY DEF Requeued
<1>2. DueClaims' \subseteq DueClaims \cup {Claim("due", d, Original(hooks[d])) :
                                            d \in {e \in ds : hooks[e].kind \in Creating}}
  <2> SUFFICES ASSUME NEW d \in due', hooks[d].kind \in Creating
               PROVE  Claim("due", d, Original(hooks[d])) \in DueClaims \cup
                        {Claim("due", e, Original(hooks[e])) :
                           e \in {g \in ds : hooks[g].kind \in Creating}}
    BY DEF DueClaims, Claim, Original
  <2>1. CASE d \in due
    BY <2>1 DEF DueClaims
  <2>2. CASE d \in ds
    BY <2>2
  <2> QED BY <1>1, <2>1, <2>2
<1>3. UNCHANGED <<ItemClaims, IssueClaims, IssueCommentClaims, ItemCommentClaims>>
  BY ItemClaimsStay, IssueClaimsStay, CommentClaimsStay
<1> QED BY <1>2, <1>3 DEF StoreClaims

\* An answer ends a handler's claim, or passes it on to the delivery's repetition.
LEMMA AnswerPaid ==
  ASSUME Traceable, Traceable', Paid, IsFiniteSet(Workers), NEW w \in Workers, Answer(w)
  PROVE  Paid'
<1>0. worker \in [Workers -> Worker]
  BY Typed
<1>1. /\ worker[w].pc = "answer" /\ worker'[w] = Idle
      /\ \A v \in Workers \ {w} : worker'[v] = worker[v]
      /\ UNCHANGED <<issues, issueComments, items, itemComments, hooks, spent>>
  BY <1>0 DEF Answer
<1>2. ~Promising(worker'[w]) /\ \A v \in Workers : Keeps(v)
  BY <1>1 DEF Idle, Promising, Keeps
<1>3. CASE worker[w].outcome = "failed" /\ worker[w].heard
  <2>1. worker[w].hook \in DOMAIN hooks
    BY <1>1, Handling
  <2>2. PICK d : d = worker[w].hook
    OBVIOUS
  <2>3. StoreClaims' \subseteq StoreClaims \cup {Claim("due", e, Original(hooks[e])) :
                                                  e \in {g \in {d} : hooks[g].kind \in Creating}}
    BY <1>1, <1>3, <2>1, <2>2, RequeuedClaims DEF Answer
  <2>4. Grows
    BY StepSound DEF Next, SoundStep
  <2>5. HandlerClaims' \subseteq HandlerClaims \ {HandlerClaim(w)}
    BY <1>2, <2>4, HandlerLeaves
  <2>6. CASE Evt(w).kind \in Creating
    <3>1. PICK b : b = Claim("due", d, Original(hooks[d]))
      OBVIOUS
    <3>2. HandlerClaim(w) \in Claims /\ HandlerClaim(w).of = Original(Evt(w))
      BY <1>1, <1>3, <2>6, HandlerClaimThere DEF Promising
    <3>3. b.of = Original(Evt(w))
      BY <2>2, <3>1 DEF Claim, Evt
    <3>4. StoreClaims' \subseteq StoreClaims \cup {b}
      BY <2>3, <3>1
    <3>5. HandlerClaim(w) \notin StoreClaims
      BY NoHandler
    <3>6. PICK c : c.of \notin Originals
      BY Unknown
    <3>7. Claims' \subseteq ((Claims \ {HandlerClaim(w)}) \cup {b}) \cup {c}
      BY <2>5, <3>4, <3>5 DEF Claims, StoreClaims
    <3>8. Price <= Price'
      BY <1>1, PriceStays
    <3> QED BY <3>2, <3>3, <3>6, <3>7, <3>8, PaidSwap
  <2>7. CASE Evt(w).kind \notin Creating
    <3>1. StoreClaims' \subseteq StoreClaims
      BY <2>2, <2>3, <2>7 DEF Evt
    <3>2. Price <= Price'
      BY <1>1, PriceStays
    <3> QED BY <2>5, <3>1, <3>2, NoGain, PaidFresh
  <2> QED BY <2>6, <2>7
<1>4. CASE ~(worker[w].outcome = "failed" /\ worker[w].heard)
  <2>1. UNCHANGED due
    BY <1>4 DEF Answer
  <2> QED BY <1>1, <1>2, <2>1, NoCallPaid DEF Next
<1> QED BY <1>3, <1>4

\* A sender that hangs up has the delivery handled once more: a failure.
LEMMA SenderTimesOutPaid ==
  ASSUME Traceable, Traceable', Paid, IsFiniteSet(Workers), NEW w \in Workers, SenderTimesOut(w)
  PROVE  Paid'
<1>0. worker \in [Workers -> Worker]
  BY Typed
<1>1. worker[w].hook \in DOMAIN hooks
  BY Handling DEF SenderTimesOut
<1>2. PICK d : d = worker[w].hook
  OBVIOUS
<1>3. PICK b : b = Claim("due", d, Original(hooks[d]))
  OBVIOUS
<1>4. StoreClaims' \subseteq StoreClaims \cup {Claim("due", e, Original(hooks[e])) :
                                                e \in {g \in {d} : hooks[g].kind \in Creating}}
  BY <1>1, <1>2, RequeuedClaims DEF SenderTimesOut
<1>5. StoreClaims' \subseteq StoreClaims \cup {b}
  BY <1>3, <1>4
<1>6. /\ worker'[w] = [worker[w] EXCEPT !.heard = FALSE]
      /\ \A v \in Workers \ {w} : worker'[v] = worker[v]
  BY <1>0 DEF SenderTimesOut
<1>7. \A v \in Workers : Keeps(v)
  BY <1>0, <1>6 DEF Keeps, Promising, Worker
<1>8. Grows
  BY StepSound DEF Next, SoundStep
<1>9. HandlerClaims' \subseteq HandlerClaims
  BY <1>7, <1>8, HandlersKeep
<1>10. PICK c : c.of \notin Originals
  BY Unknown
<1>11. Claims' \subseteq (Claims \cup {c}) \cup {b}
  BY <1>5, <1>9 DEF Claims, StoreClaims
<1> QED BY <1>10, <1>11, PaidFault DEF SenderTimesOut

\* A restart has the deliveries of all handlers repeated: as many as they are.
LEMMA RestartPaid ==
  ASSUME Traceable, Traceable', Paid, IsFiniteSet(Workers), Restart
  PROVE  Paid'
<1> DEFINE H == {w \in Workers : worker[w].heard}
           hookClaim(w) == Claim("due", worker[w].hook, Original(Evt(w)))
           D == {hookClaim(w) : w \in H}
<1>1. IsFiniteSet(H) /\ Cardinality(H) <= Cardinality(Workers) /\ Cardinality(H) \in Nat
  BY FS_Subset, FS_CardinalityType
<1>2. IsFiniteSet(D) /\ Cardinality(D) <= Cardinality(H)
  <2>1. PICK f : f = [w \in H |-> hookClaim(w)]
    OBVIOUS
  <2>2. f \in [H -> D] /\ \A x \in D : \E w \in H : f[w] = x
    BY <2>1
  <2>3. f \in Surjection(H, D)
    BY <2>2 DEF Surjection
  <2> QED BY <1>1, <2>3, FS_Surjection
<1>3. \A w \in H : worker[w].hook \in DOMAIN hooks
  BY Handling DEF Traceable, HandlerOK
<1>4. StoreClaims' \subseteq StoreClaims \cup D
  <2>1. PICK ds : ds = {worker[w].hook : w \in H}
    OBVIOUS
  <2>2. ds \in SUBSET DOMAIN hooks /\ Requeued(ds)
    BY <1>3, <2>1 DEF Restart
  <2>3. StoreClaims' \subseteq StoreClaims \cup {Claim("due", d, Original(hooks[d])) :
                                                  d \in {e \in ds : hooks[e].kind \in Creating}}
    BY <2>2, RequeuedClaims DEF Restart
  <2>4. \A d \in ds : Claim("due", d, Original(hooks[d])) \in D
    BY <2>1 DEF Evt
  <2> QED BY <2>3, <2>4
<1>5. HandlerClaims' = {}
  BY DEF Restart, HandlerClaims, Idle, Promising
<1>6. Claims' \subseteq Claims \cup D
  BY <1>4, <1>5 DEF Claims, StoreClaims
<1>7. Price \in Nat /\ Cardinality(Workers) \in Nat
  BY PriceType
<1>8. Price' = Price + Cardinality(Workers)
  BY <1>7, PriceSpent DEF Restart, Outside
<1>9. Cardinality(D) \in Nat
  BY <1>2, FS_CardinalityType
<1>10. Spare(Claims \cup D, Price + Cardinality(D))
  BY <1>2, <1>7, SparePaid DEF Paid
<1> HIDE DEF D, H
<1>11. Price + Cardinality(D) \in Nat /\ Price + Cardinality(D) <= Price'
  BY <1>1, <1>2, <1>7, <1>8, <1>9
<1> QED BY <1>6, <1>10, <1>11, PaysStays

\* At the start there is nothing to claim.
LEMMA InitPaid ==
  ASSUME Init, IsFiniteSet(Workers)
  PROVE  Paid
<1>1. Claims = {}
  BY DEF Init, TrackersInit, Idle, Claims, ItemClaims, IssueClaims, ItemCommentClaims,
         IssueCommentClaims, DueClaims, HandlerClaims, Promising, ItemIds, IssueIds
<1>2. IsFiniteSet({}) /\ Cardinality({}) = 0
  BY FS_EmptySet
<1>3. Price \in Nat
  <2>1. Traceable
    BY InitSound
  <2> QED BY <2>1, PriceType
<1>4. Cardinality({}) <= Price
  BY <1>2, <1>3
<1> QED BY <1>1, <1>2, <1>4 DEF Paid, Spare

\* Every step does.
LEMMA StepPaid ==
  ASSUME Traceable, Traceable', Paid, IsFiniteSet(Workers), [Next]_vars
  PROVE  Paid'
<1>1. CASE UNCHANGED vars
  <2>1. \A w \in Workers : Keeps(w)
    BY <1>1 DEF vars, Keeps
  <2> QED BY <1>1, <2>1, NoCallPaid DEF vars, trackerVars
<1>2. CASE \E d \in DOMAIN hooks : Dismiss(d) \/ \E w \in Workers : Begin(w, d)
  BY <1>2, DismissPaid, BeginPaid
<1>3. CASE \E w \in Workers : \/ Lookup(w) \/ Write(w) \/ Answer(w)
                              \/ CallFails(w) \/ SenderTimesOut(w)
  BY <1>3, LookupPaid, WritePaid, AnswerPaid, SenderTimesOutPaid
<1>4. CASE Users
  BY <1>4, UsersPaid
<1>5. CASE Restart
  BY <1>5, RestartPaid
<1> QED BY <1>1, <1>2, <1>3, <1>4, <1>5 DEF Next
-----------------------------------------------------------------------------
\* Of the copies A of the originals by[c], all but those whose claims are extra
\* are the only ones of their originals.
LEMMA ExtraCopies ==
  ASSUME NEW A, IsFiniteSet(A), NEW by, DOMAIN by = A, NEW claim, DOMAIN claim = A,
         \A c, d \in A : claim[c] = claim[d] => c = d,
         NEW extra, IsFiniteSet(extra),
         \A c, d \in A : claim[c] \notin extra /\ claim[d] \notin extra /\ by[c] = by[d] => c = d,
         NEW B, \A c \in A : by[c] \in B, \A b \in B : \E c \in A : by[c] = b,
         NEW C, \A c \in A : claim[c] \in C
  PROVE  /\ Cardinality(A) \in Nat /\ Cardinality(B) \in Nat
         /\ Cardinality(extra \cap C) \in Nat
         /\ Cardinality(A) - Cardinality(B) <= Cardinality(extra \cap C)
<1> DEFINE E == extra \cap C
           R == {c \in A : claim[c] \in extra}
           K == A \ R
<1>1. IsFiniteSet(E) /\ Cardinality(E) \in Nat
  BY FS_Intersection, FS_CardinalityType
<1>2. IsFiniteSet(B) /\ Cardinality(B) \in Nat
  <2>1. PICK f : f = [c \in A |-> by[c]]
    OBVIOUS
  <2>2. f \in [A -> B] /\ \A b \in B : \E c \in A : f[c] = b
    BY <2>1
  <2>3. f \in Surjection(A, B)
    BY <2>2 DEF Surjection
  <2> QED BY <2>3, FS_Surjection, FS_CardinalityType
<1>3. /\ IsFiniteSet(R) /\ Cardinality(R) \in Nat
      /\ IsFiniteSet(K) /\ Cardinality(K) \in Nat
  <2>1. IsFiniteSet(R) /\ IsFiniteSet(K)
    BY FS_Subset
  <2> QED BY <2>1, FS_CardinalityType
<1>4. Cardinality(R) <= Cardinality(E)
  <2>1. PICK f : f = [c \in R |-> claim[c]]
    OBVIOUS
  <2>2. f \in [R -> E] /\ \A c, d \in R : f[c] = f[d] => c = d
    BY <2>1
  <2>3. f \in Injection(R, E)
    BY <2>2 DEF Injection, IsInjective
  <2> QED BY <1>1, <2>3, FS_Injection
<1>5. Cardinality(K) <= Cardinality(B)
  <2>1. PICK f : f = [c \in K |-> by[c]]
    OBVIOUS
  <2>2. f \in [K -> B] /\ \A c, d \in K : f[c] = f[d] => c = d
    BY <2>1
  <2>3. f \in Injection(K, B)
    BY <2>2 DEF Injection, IsInjective
  <2> QED BY <1>2, <2>3, FS_Injection
<1>6. Cardinality(A) = Cardinality(K) + Cardinality(R)
  <2>1. A = K \cup R /\ K \cap R = {}
    OBVIOUS
  <2>2. Cardinality(K \cup R) = Cardinality(K) + Cardinality(R) - Cardinality(K \cap R)
    BY <1>3, FS_Union
  <2>3. Cardinality(K \cap R) = 0
    BY <2>1, FS_EmptySet
  <2> HIDE DEF K, R
  <2> QED BY <1>3, <2>1, <2>2, <2>3
<1> HIDE DEF E, R, K
<1>7. Cardinality(A) - Cardinality(B) <= Cardinality(E) /\ Cardinality(A) \in Nat
  BY <1>1, <1>2, <1>3, <1>4, <1>5, <1>6
<1> QED BY <1>1, <1>2, <1>7 DEF E

\* The elements of a sequence are finitely many.
LEMMA FiniteDomain ==
  ASSUME NEW S, NEW s \in Seq(S), NEW A \in SUBSET DOMAIN s
  PROVE  IsFiniteSet(A)
<1>1. DOMAIN s = 1..Len(s) /\ Len(s) \in Nat
  BY LenProperties
<1>2. IsFiniteSet(1..Len(s))
  BY <1>1, FS_Interval
<1> QED BY <1>1, <1>2, FS_Subset

\* Disjoint finite sets add up.
LEMMA DisjointUnion ==
  ASSUME NEW S, NEW T, IsFiniteSet(S), IsFiniteSet(T), S \cap T = {}
  PROVE  IsFiniteSet(S \cup T) /\ Cardinality(S \cup T) = Cardinality(S) + Cardinality(T)
<1>1. /\ IsFiniteSet(S \cup T)
      /\ Cardinality(S \cup T) = Cardinality(S) + Cardinality(T) - Cardinality(S \cap T)
  BY FS_Union
<1>2. Cardinality(S \cap T) = 0
  BY FS_EmptySet
<1>3. Cardinality(S) \in Nat /\ Cardinality(T) \in Nat
  BY FS_CardinalityType
<1> QED BY <1>1, <1>2, <1>3

\* The claims among extra of the four kinds are at most all of them.
LEMMA FourParts ==
  ASSUME NEW extra, IsFiniteSet(extra), NEW A, NEW B, NEW C, NEW D,
         A \cap B = {}, (A \cup B) \cap C = {}, ((A \cup B) \cup C) \cap D = {}
  PROVE  Cardinality(extra \cap A) + Cardinality(extra \cap B) + Cardinality(extra \cap C)
           + Cardinality(extra \cap D) <= Cardinality(extra)
<1> DEFINE a == extra \cap A
           b == extra \cap B
           c == extra \cap C
           d == extra \cap D
<1>1. /\ IsFiniteSet(a) /\ IsFiniteSet(b) /\ IsFiniteSet(c) /\ IsFiniteSet(d)
  BY FS_Intersection
<1>2. /\ Cardinality(a) \in Nat /\ Cardinality(b) \in Nat /\ Cardinality(c) \in Nat
      /\ Cardinality(d) \in Nat /\ Cardinality(extra) \in Nat
  BY <1>1, FS_CardinalityType
<1>3. a \cap b = {} /\ (a \cup b) \cap c = {} /\ ((a \cup b) \cup c) \cap d = {}
      /\ ((a \cup b) \cup c) \cup d \in SUBSET extra
  OBVIOUS
<1> HIDE DEF a, b, c, d
<1>4. IsFiniteSet(a \cup b) /\ Cardinality(a \cup b) = Cardinality(a) + Cardinality(b)
  BY <1>1, <1>3, DisjointUnion
<1>5. /\ IsFiniteSet((a \cup b) \cup c)
      /\ Cardinality((a \cup b) \cup c) = Cardinality(a \cup b) + Cardinality(c)
  BY <1>1, <1>3, <1>4, DisjointUnion
<1>6. Cardinality(((a \cup b) \cup c) \cup d) = Cardinality((a \cup b) \cup c) + Cardinality(d)
  BY <1>1, <1>3, <1>5, DisjointUnion
<1>7. Cardinality(((a \cup b) \cup c) \cup d) <= Cardinality(extra)
  BY <1>3, FS_Subset
<1>8. Cardinality(a) + Cardinality(b) + Cardinality(c) + Cardinality(d) <= Cardinality(extra)
  BY <1>2, <1>4, <1>5, <1>6, <1>7
<1> QED BY <1>8 DEF a, b, c, d

\* What copies of one kind, with the claims T, cost.
LEMMA CopiesCost ==
  ASSUME NEW s, IsFiniteSet(DOMAIN s), NEW kind, NEW origin, NEW T,
         \A c \in DOMAIN s : s[c].by # 0 => Claim(kind, c, <<origin, s[c].by>>) \in T,
         NEW extra, IsFiniteSet(extra), \A x, y \in T \ extra : x.of = y.of => x = y
  PROVE  /\ Extra(s) <= Cardinality(extra \cap T)
         /\ Extra(s) \in Int /\ Cardinality(extra \cap T) \in Nat
<1> DEFINE A == {c \in DOMAIN s : s[c].by # 0}
<1>1. IsFiniteSet(A)
  BY FS_Subset
<1>2. PICK by : by = [c \in A |-> s[c].by]
  OBVIOUS
<1>3. PICK claim : claim = [c \in A |-> Claim(kind, c, <<origin, s[c].by>>)]
  OBVIOUS
<1>b. PICK B : B = {s[c].by : c \in DOMAIN s} \ {0}
  OBVIOUS
<1>4. /\ \A c \in A : by[c] \in B /\ claim[c] \in T
      /\ \A b \in B : \E c \in A : by[c] = b
  BY <1>2, <1>3, <1>b
<1>5. \A c \in A : claim[c].id = c /\ claim[c].of = <<origin, by[c]>>
  BY <1>2, <1>3 DEF Claim
<1>6. /\ Cardinality(A) \in Nat /\ Cardinality(B) \in Nat
      /\ Cardinality(extra \cap T) \in Nat
      /\ Cardinality(A) - Cardinality(B) <= Cardinality(extra \cap T)
  <2> HIDE DEF A
  <2>1. \A c, d \in A : claim[c] = claim[d] => c = d
    BY <1>5
  <2>2. \A c, d \in A : claim[c] \notin extra /\ claim[d] \notin extra /\ by[c] = by[d] => c = d
    <3> SUFFICES ASSUME NEW c \in A, NEW d \in A, claim[c] \notin extra, claim[d] \notin extra,
                        by[c] = by[d]
                 PROVE  c = d
      OBVIOUS
    <3>1. claim[c].of = claim[d].of
      BY <1>5
    <3>2. claim[c] = claim[d]
      BY <1>4, <3>1
    <3> QED BY <2>1, <3>2
  <2>3. DOMAIN by = A /\ DOMAIN claim = A
    BY <1>2, <1>3
  <2> QED BY ZenonT(30), <1>1, <1>4, <2>1, <2>2, <2>3, ExtraCopies
<1>7. Extra(s) = Cardinality(A) - Cardinality(B)
  BY <1>b DEF Extra
<1> HIDE DEF A
<1> QED BY <1>6, <1>7

\* All four kinds together cost at most what failures have paid for.
LEMMA PaidMeans ==
  ASSUME Traceable, Paid, IsFiniteSet(Workers)
  PROVE  DuplicatesNeedFailures
<1>1. PICK extra \in SUBSET Claims : /\ IsFiniteSet(extra) /\ Cardinality(extra) <= Price
                                     /\ \A x, y \in Claims \ extra : x.of = y.of => x = y
  BY DEF Paid, Spare
<1>2. StoreTypes
  BY Typed
<1>3. /\ IsFiniteSet(DOMAIN issues) /\ IsFiniteSet(DOMAIN items)
      /\ IsFiniteSet(DOMAIN issueComments) /\ IsFiniteSet(DOMAIN itemComments)
  BY <1>2, FiniteDomain DEF StoreTypes
<1>4. /\ \A x, y \in ItemClaims \ extra : x.of = y.of => x = y
      /\ \A x, y \in IssueClaims \ extra : x.of = y.of => x = y
      /\ \A x, y \in ItemCommentClaims \ extra : x.of = y.of => x = y
      /\ \A x, y \in IssueCommentClaims \ extra : x.of = y.of => x = y
  BY <1>1 DEF Claims
<1>5. /\ Extra(issues) <= Cardinality(extra \cap IssueClaims)
      /\ Extra(issues) \in Int /\ Cardinality(extra \cap IssueClaims) \in Nat
  <2>1. \A n \in DOMAIN issues : issues[n].by # 0 =>
          Claim("issue", n, <<"item_created", issues[n].by>>) \in IssueClaims
    BY DEF IssueClaims, IssueIds
  <2> QED BY <1>1, <1>3, <1>4, <2>1, CopiesCost
<1>6. /\ Extra(itemComments) <= Cardinality(extra \cap ItemCommentClaims)
      /\ Extra(itemComments) \in Int /\ Cardinality(extra \cap ItemCommentClaims) \in Nat
  <2>1. \A c \in DOMAIN itemComments : itemComments[c].by # 0 =>
          Claim("item_comment", c, <<"issue_comment", itemComments[c].by>>) \in ItemCommentClaims
    BY DEF ItemCommentClaims
  <2> QED BY <1>1, <1>3, <1>4, <2>1, CopiesCost
<1>7. /\ Extra(issueComments) <= Cardinality(extra \cap IssueCommentClaims)
      /\ Extra(issueComments) \in Int /\ Cardinality(extra \cap IssueCommentClaims) \in Nat
  <2>1. \A c \in DOMAIN issueComments : issueComments[c].by # 0 =>
          Claim("issue_comment", c, <<"item_comment", issueComments[c].by>>) \in IssueCommentClaims
    BY DEF IssueCommentClaims
  <2> QED BY <1>1, <1>3, <1>4, <2>1, CopiesCost
<1>8. /\ ExtraItems <= Cardinality(extra \cap ItemClaims)
      /\ ExtraItems \in Int /\ Cardinality(extra \cap ItemClaims) \in Nat
  <2>1. PICK s : s = [t \in ItemIds |-> [by |-> items[t].ref]]
    OBVIOUS
  <2>2. DOMAIN s = DOMAIN items /\ \A t \in ItemIds : s[t].by = items[t].ref
    BY <2>1 DEF ItemIds
  <2>3. \A t \in DOMAIN s : s[t].by # 0 =>
          Claim("item", t, <<"opened", s[t].by>>) \in ItemClaims
    BY <2>2 DEF ItemClaims, ItemIds
  <2>4. /\ Extra(s) <= Cardinality(extra \cap ItemClaims)
        /\ Extra(s) \in Int /\ Cardinality(extra \cap ItemClaims) \in Nat
    BY <1>1, <1>3, <1>4, <2>2, <2>3, CopiesCost
  <2>5. Extra(s) = ExtraItems
    <3>1. {t \in DOMAIN s : s[t].by # 0} = {t \in ItemIds : items[t].ref # 0}
      BY <2>2 DEF ItemIds
    <3>2. {s[t].by : t \in DOMAIN s} = {items[t].ref : t \in ItemIds}
      BY <2>2 DEF ItemIds
    <3> QED BY <3>1, <3>2 DEF Extra, ExtraItems
  <2> QED BY <2>4, <2>5
<1>9. Cardinality(extra \cap ItemClaims) + Cardinality(extra \cap IssueClaims)
        + Cardinality(extra \cap ItemCommentClaims) + Cardinality(extra \cap IssueCommentClaims)
        <= Cardinality(extra)
  <2>1. /\ \A x \in ItemClaims : x.is = "item"
        /\ \A x \in IssueClaims : x.is = "issue"
        /\ \A x \in ItemCommentClaims : x.is = "item_comment"
        /\ \A x \in IssueCommentClaims : x.is = "issue_comment"
    BY DEF ItemClaims, IssueClaims, ItemCommentClaims, IssueCommentClaims, Claim
  <2>2. /\ ItemClaims \cap IssueClaims = {}
        /\ (ItemClaims \cup IssueClaims) \cap ItemCommentClaims = {}
        /\ ((ItemClaims \cup IssueClaims) \cup ItemCommentClaims) \cap IssueCommentClaims = {}
    BY <2>1
  <2> QED BY <1>1, <2>2, FourParts
<1>10. Cardinality(extra) \in Nat /\ Price \in Nat
  BY <1>1, PriceType, FS_CardinalityType
<1>11. ExtraItems + Extra(issues) + Extra(itemComments) + Extra(issueComments) <= Price
  BY <1>1, <1>5, <1>6, <1>7, <1>8, <1>9, <1>10
<1> QED BY <1>11 DEF DuplicatesNeedFailures, Price

\* Copies beyond the first of an original are never more than the failures so far
\* account for: one for a lost response, a sender that hung up or a failed call, and
\* one of every handler for a restart.  Without failures the handlers copy everything
\* at most once, in any order and interleaving.
THEOREM DuplicatesArePaidFor ==
  ASSUME IsFiniteSet(Workers)
  PROVE  Spec => []DuplicatesNeedFailures
<1>1. Init => Traceable /\ Paid
  BY InitSound, InitPaid
<1>2. Traceable /\ Paid /\ [Next]_vars => Traceable' /\ Paid'
  BY NextSound, StepPaid
<1>3. Traceable /\ Paid => DuplicatesNeedFailures
  BY PaidMeans
<1> QED BY <1>1, <1>2, <1>3, PTL DEF Spec
-----------------------------------------------------------------------------
(***************************************************************************)
(* No comment is lost.                                                     *)
(***************************************************************************)

\* A process that is started again has the links it had.
KeepsLinks == (\E cfg : Configs = {cfg}) \/ \A b \in Budgets : b["restart"] = 0

\* Plane users delete no items.
KeepsItems == \A b \in Budgets : b["delete"] = 0

ItemsLive == \A t \in ItemIds : items[t].live => items'[t].live

\* What a step does to the two services: nothing, or one of these calls.
Calls ==
  \/ UNCHANGED <<issues, issueComments, items, itemComments, hooks>>
  \/ \E x : PostIssue(x) /\ x.open /\ (x.by = 0 => ~x.marked)
  \/ \E n \in IssueIds : \E x : \E kind \in {"edited", "closed", "reopened"} :
       /\ PatchIssue(n, x, kind) /\ x.by = issues[n].by /\ (x.marked => issues[n].marked)
       /\ x.rev = IF kind = "edited" THEN issues[n].rev + 1 ELSE issues[n].rev
       /\ x.open = IF kind = "edited" THEN issues[n].open ELSE kind = "reopened"
  \/ \E x : PostIssueComment(x) /\ (x.by = 0 => ~x.marked)
  \/ \E x : PostItem(x)
  \/ \E t \in ItemIds : \E x : \E kind \in {"item_updated", "item_deleted"} :
       PatchItem(t, x, kind) /\ (KeepsItems => x.live = items[t].live)
  \/ \E x : PostItemComment(x) /\ (x.by = 0 => ~x.marked)
  \/ \E h : /\ Queue(h) /\ h.kind \notin IssueKinds \cup {"issue_comment", "item_comment"}
            /\ UNCHANGED <<issues, issueComments, items, itemComments>>

\* Only what a scenario allows happens.
LEMMA Affordable ==
  ASSUME spent \in [Outside -> Nat], NEW act \in Outside, Spend(act)
  PROVE  \E b \in Budgets : b[act] # 0
<1>1. PICK b \in Budgets : spent[act] < b[act]
  BY DEF Spend
<1>2. b[act] \in Nat /\ spent[act] \in Nat
  BY BudgetsAssumption
<1> QED BY <1>1, <1>2

LEMMA PatchCalls ==
  ASSUME NEW n \in IssueIds, NEW x, NEW kind \in {"edited", "closed", "reopened"},
         PatchIssue(n, x, kind), x.by = issues[n].by, x.marked => issues[n].marked,
         x.rev = IF kind = "edited" THEN issues[n].rev + 1 ELSE issues[n].rev,
         x.open = IF kind = "edited" THEN issues[n].open ELSE kind = "reopened"
  PROVE  Calls
BY DEF Calls

\* Users make no marked text.
LEMMA UsersCall ==
  ASSUME Traceable, Users
  PROVE  Calls
<1>1. ASSUME NEW r \in Repos, ForgeUserOpens(r)
      PROVE  Calls
  BY <1>1 DEF ForgeUserOpens, Calls
<1>2. ASSUME NEW n \in DOMAIN issues, ForgeUserEdits(n) \/ ForgeUserFlips(n)
      PROVE  Calls
  <2>1. issues[n] \in Issue /\ n \in IssueIds
    BY Typed, Element DEF StoreTypes, IssueIds
  <2>2. CASE ForgeUserEdits(n)
    <3>1. PICK m \in {issues[n].marked, FALSE} :
            PatchIssue(n, [issues[n] EXCEPT !.rev = issues[n].rev + 1, !.marked = m], "edited")
      BY <2>2 DEF ForgeUserEdits
    <3>2. PICK x : x = [issues[n] EXCEPT !.rev = issues[n].rev + 1, !.marked = m]
      OBVIOUS
    <3>3. /\ x.by = issues[n].by /\ x.marked = m
          /\ x.rev = issues[n].rev + 1 /\ x.open = issues[n].open
      BY <2>1, <3>2 DEF Issue
    <3> QED BY <2>1, <3>1, <3>2, <3>3, PatchCalls
  <2>3. CASE ForgeUserFlips(n)
    <3>1. PICK x : /\ x = [issues[n] EXCEPT !.open = ~issues[n].open]
                   /\ PatchIssue(n, x, IF issues[n].open THEN "closed" ELSE "reopened")
      BY <2>3 DEF ForgeUserFlips
    <3>2. /\ x.by = issues[n].by /\ x.marked = issues[n].marked /\ x.rev = issues[n].rev
          /\ x.open = ~issues[n].open /\ issues[n].open \in BOOLEAN
      BY <2>1, <3>1 DEF Issue
    <3>3. CASE issues[n].open
      BY <2>1, <3>1, <3>2, <3>3, PatchCalls
    <3>4. CASE ~issues[n].open
      BY <2>1, <3>1, <3>2, <3>4, PatchCalls
    <3> QED BY <3>3, <3>4
  <2> QED BY <1>2, <2>2, <2>3
<1>3. ASSUME NEW n, ForgeUserComments(n) \/ PlaneUserComments(n)
      PROVE  Calls
  BY <1>3 DEF ForgeUserComments, PlaneUserComments, Calls
<1>4. ASSUME NEW c, ForgeUserTouchesComment(c) \/ PlaneUserTouchesComment(c)
      PROVE  Calls
  BY <1>4 DEF ForgeUserTouchesComment, PlaneUserTouchesComment, Calls, IssueCommentHook,
              ItemCommentHook, IssueKinds
<1>5. ASSUME NEW r, NEW kind \in PullKinds, NEW t, ForgeUserPulls(r, kind, t)
      PROVE  Calls
  <2>1. kind \notin IssueKinds \cup {"issue_comment", "item_comment"}
    BY DEF PullKinds, IssueKinds
  <2> QED BY <1>5, <2>1 DEF ForgeUserPulls, Calls
<1>6. ASSUME NEW p, PlaneUserCreates(p)
      PROVE  Calls
  BY <1>6 DEF PlaneUserCreates, Calls
<1>7. ASSUME NEW t \in DOMAIN items, NEW s, PlaneUserMoves(t, s)
      PROVE  Calls
  <2>1. items[t] \in Item /\ t \in ItemIds
    BY Typed, Element DEF StoreTypes, ItemIds
  <2>2. PICK x : x = [items[t] EXCEPT !.state = s] /\ PatchItem(t, x, "item_updated")
    BY <1>7 DEF PlaneUserMoves
  <2>3. x.live = items[t].live
    BY <2>1, <2>2 DEF Item
  <2> QED BY <2>1, <2>2, <2>3 DEF Calls
<1>8. ASSUME NEW t \in DOMAIN items, PlaneUserDeletes(t)
      PROVE  Calls
  <2>1. ~KeepsItems
    BY <1>8, Typed, Affordable DEF PlaneUserDeletes, KeepsItems, Outside
  <2>2. PICK x : x = [items[t] EXCEPT !.live = FALSE] /\ PatchItem(t, x, "item_deleted")
    BY <1>8 DEF PlaneUserDeletes
  <2> QED BY <2>1, <2>2 DEF Calls, ItemIds
<1> QED BY <1>1, <1>2, <1>3, <1>4, <1>5, <1>6, <1>7, <1>8 DEF Users, UserStep

\* Handlers mark what they copy, and what is copied from has a number.
LEMMA UpdateCalls ==
  ASSUME Traceable, NEW w \in Workers, worker[w].pc = "write", worker[w].item # 0,
         NEW x, x.live = items[worker[w].item].live, Update(w, x)
  PROVE  Calls
<1>1. worker[w].item \in ItemIds
  BY FoundItem
<1>2. CASE PatchItem(worker[w].item, x, "item_updated")
  BY <1>1, <1>2 DEF Calls
<1>3. CASE Refused(w)
  BY <1>3 DEF Calls, Refused, trackerVars
<1> QED BY <1>2, <1>3 DEF Update

LEMMA WriteCalls ==
  ASSUME Traceable, NEW w \in Workers, Write(w)
  PROVE  Calls
<1>1. worker[w].pc = "write"
  BY DEF Write, CreateItem, Reconcile, UpdateText, UpdateState, MoveForPull, CommentOnItem,
         CommentOnIssue, CreateIssue, At
<1>2. HookOK(Evt(w)) /\ Evt(w) \in Hook
  BY <1>1, Handling
<1>3. CASE Refused(w)
  BY <1>3 DEF Calls, Refused, trackerVars
<1>4. CASE CreateItem(w)
  BY <1>3, <1>4 DEF CreateItem, Calls
<1>5. CASE CommentOnItem(w)
  <2>1. Evt(w).comment # 0
    <3>1. Evt(w).comment \in DOMAIN issueComments
      BY <1>2, <1>5 DEF CommentOnItem, At, HookOK
    <3> QED BY <3>1, Typed, LenProperties DEF StoreTypes
  <2> QED BY <1>3, <1>5, <2>1 DEF CommentOnItem, Calls
<1>6. CASE CommentOnIssue(w)
  <2>1. Evt(w).comment # 0
    <3>1. Evt(w).comment \in DOMAIN itemComments
      BY <1>2, <1>6 DEF CommentOnIssue, At, HookOK
    <3> QED BY <3>1, Typed, LenProperties DEF StoreTypes
  <2> QED BY <1>6, <2>1 DEF CommentOnIssue, Calls
<1>7. CASE CreateIssue(w)
  <2>1. Evt(w).on # 0
    <3>1. Evt(w).on \in ItemIds
      BY <1>2, <1>7 DEF CreateIssue, At, HookOK, PlaneKinds
    <3> QED BY <3>1, Typed, LenProperties DEF StoreTypes, ItemIds
  <2> QED BY <1>7, <2>1 DEF CreateIssue, Calls
<1>8. CASE Reconcile(w) \/ UpdateText(w) \/ UpdateState(w) \/ MoveForPull(w)
  <2>2. worker[w].item # 0
    <3>1. CASE Reconcile(w)
      BY <3>1 DEF Reconcile
    <3>2. CASE UpdateText(w) \/ UpdateState(w) \/ MoveForPull(w)
      <4>1. Evt(w).kind \notin {"opened", "item_created"}
        BY <3>2 DEF UpdateText, UpdateState, MoveForPull, At, PullKinds
      <4> QED BY <1>1, <4>1, Handling DEF HandlerOK, Evt
    <3> QED BY <1>8, <3>1, <3>2
  <2>3. items[worker[w].item] \in Item
    BY <1>1, <2>2, FoundItem
  <2>4. CASE Reconcile(w)
    BY <1>1, <2>2, <2>3, <2>4, UpdateCalls DEF Reconcile, Item
  <2>5. CASE UpdateText(w)
    BY <1>1, <2>2, <2>3, <2>5, UpdateCalls DEF UpdateText, Item
  <2>6. CASE UpdateState(w)
    BY <1>1, <2>2, <2>3, <2>6, UpdateCalls DEF UpdateState, Item
  <2>7. CASE MoveForPull(w)
    BY <1>1, <2>2, <2>3, <2>7, UpdateCalls DEF MoveForPull, Item
  <2> QED BY <1>8, <2>4, <2>5, <2>6, <2>7
<1> QED BY <1>4, <1>5, <1>6, <1>7, <1>8 DEF Write

\* So nothing but these calls ever happens to the two services.
LEMMA StepCalls ==
  ASSUME Traceable, [Next]_vars
  PROVE  Calls
<1>1. CASE UNCHANGED <<issues, issueComments, items, itemComments, hooks>>
  BY <1>1 DEF Calls
<1>2. ASSUME NEW w \in Workers, Lookup(w) \/ Answer(w) \/ CallFails(w) \/ SenderTimesOut(w)
      PROVE  UNCHANGED <<issues, issueComments, items, itemComments, hooks>>
  BY <1>2 DEF Lookup, LookupByRef, LookupBySequence, LookupParent, Answer, CallFails,
              SenderTimesOut, trackerVars
<1>3. CASE \E d \in DOMAIN hooks : Dismiss(d) \/ \E w \in Workers : Begin(w, d)
  BY <1>1, <1>3 DEF Dismiss, Begin
<1>4. CASE Restart \/ UNCHANGED vars
  BY <1>1, <1>4 DEF Restart, vars, trackerVars
<1> QED BY <1>1, <1>2, <1>3, <1>4, UsersCall, WriteCalls DEF Next

\* Links and items stay where they are.
LEMMA LinksStay ==
  ASSUME Traceable, Traceable', KeepsLinks, [Next]_vars
  PROVE  UNCHANGED links
<1>1. CASE Restart
  <2>1. \E cfg : Configs = {cfg}
    BY <1>1, Typed, Affordable DEF Restart, KeepsLinks, Outside
  <2>2. links \in Configs /\ links' \in Configs
    BY <1>1, Typed DEF Restart
  <2> QED BY <2>1, <2>2
<1>2. ASSUME NEW w \in Workers, Lookup(w) \/ Write(w) \/ Answer(w) \/ CallFails(w) \/ SenderTimesOut(w)
      PROVE  UNCHANGED links
  BY <1>2 DEF Lookup, LookupByRef, LookupBySequence, LookupParent, Answer, CallFails,
              SenderTimesOut, Write, CreateItem, Reconcile, UpdateText, UpdateState, MoveForPull,
              CommentOnItem, CommentOnIssue, CreateIssue
<1>3. CASE \E d \in DOMAIN hooks : Dismiss(d) \/ \E w \in Workers : Begin(w, d)
  BY <1>3 DEF Dismiss, Begin
<1> QED BY <1>1, <1>2, <1>3 DEF Next, Users, vars

LEMMA ItemsStay ==
  ASSUME Traceable, KeepsItems, Calls
  PROVE  ItemsLive
<1>1. items \in Seq(Item)
  BY Typed DEF StoreTypes
<1>2. CASE UNCHANGED items
  BY <1>2 DEF ItemsLive
<1>3. ASSUME NEW x, PostItem(x)
      PROVE  ItemsLive
  BY <1>1, <1>3, Added DEF PostItem, ItemsLive, ItemIds
<1>4. ASSUME NEW t \in ItemIds, NEW x, NEW kind, PatchItem(t, x, kind), x.live = items[t].live
      PROVE  ItemsLive
  BY <1>4 DEF PatchItem, ItemsLive, ItemIds
<1> QED BY <1>2, <1>3, <1>4 DEF Calls, PostIssue, PatchIssue, PostIssueComment, PostItemComment
-----------------------------------------------------------------------------
\* A webhook queued is the last, and leaves those before it where they are.
LEMMA QueueAdds ==
  ASSUME Traceable, NEW h, Queue(h)
  PROVE  /\ DOMAIN hooks' = DOMAIN hooks \cup {Len(hooks) + 1}
         /\ \A d \in DOMAIN hooks : hooks'[d] = hooks[d] /\ d < Len(hooks) + 1
         /\ hooks'[Len(hooks) + 1] = h
         /\ due' = due \cup {Len(hooks) + 1}
<1>1. hooks \in Seq(Hook) /\ hooks' = Append(hooks, h)
  BY Typed DEF StoreTypes, Queue
<1> QED BY <1>1, Added DEF Queue

\* What was announced stays so, and a queued webhook announces what it is about.
LEMMA QueueAnnounces ==
  ASSUME Traceable, NEW h, Queue(h)
  PROVE  /\ \A n : IssueAnnounced(n) => IssueAnnounced(n)'
         /\ \A kind, c : CommentAnnounced(kind, c) => CommentAnnounced(kind, c)'
         /\ CommentAnnounced(h.kind, h.comment)'
         /\ h.kind = "opened" /\ h.on \notin IssueIds => IssueAnnounced(h.on)'
<1> DEFINE new == Len(hooks) + 1
<1>1. /\ DOMAIN hooks' = DOMAIN hooks \cup {new}
      /\ \A d \in DOMAIN hooks : hooks'[d] = hooks[d] /\ d < new
      /\ hooks'[new] = h
  BY QueueAdds
<1>2. ASSUME NEW n, IssueAnnounced(n)
      PROVE  IssueAnnounced(n)'
  <2>1. PICK d \in DOMAIN hooks :
          /\ hooks[d].kind = "opened" /\ hooks[d].on = n
          /\ \A e \in DOMAIN hooks : hooks[e].kind = "issue_comment" /\ hooks[e].on = n => d < e
    BY <1>2 DEF IssueAnnounced
  <2> HIDE DEF new
  <2>2. \A e \in DOMAIN hooks' : hooks'[e].kind = "issue_comment" /\ hooks'[e].on = n => d < e
    BY <1>1, <2>1
  <2> QED BY <1>1, <2>1, <2>2 DEF IssueAnnounced
<1>3. ASSUME NEW kind, NEW c, CommentAnnounced(kind, c)
      PROVE  CommentAnnounced(kind, c)'
  BY <1>1, <1>3 DEF CommentAnnounced
<1>4. CommentAnnounced(h.kind, h.comment)'
  BY <1>1 DEF CommentAnnounced
<1>5. ASSUME h.kind = "opened", h.on \notin IssueIds
      PROVE  IssueAnnounced(h.on)'
  <2>1. \A e \in DOMAIN hooks : hooks[e].kind = "issue_comment" => hooks[e].on # h.on
    <3>1. \A e \in DOMAIN hooks : HookOK(hooks[e])
      BY Typed DEF StoresOK
    <3> QED BY <1>5, <3>1 DEF HookOK
  <2> HIDE DEF new
  <2>2. \A e \in DOMAIN hooks' : hooks'[e].kind = "issue_comment" /\ hooks'[e].on = h.on => new < e
    BY <1>1, <1>5, <2>1
  <2> QED BY <1>1, <1>5, <2>2 DEF IssueAnnounced
<1> QED BY <1>2, <1>3, <1>4, <1>5

LEMMA AnnouncedBy ==
  ASSUME Traceable, Announced, NEW h, Queue(h),
         DOMAIN issues' = DOMAIN issues \cup {n \in {h.on} : h.kind = "opened"},
         DOMAIN issueComments' = DOMAIN issueComments \cup
                                   {c \in {h.comment} : h.kind = "issue_comment"},
         DOMAIN itemComments' = DOMAIN itemComments \cup
                                  {c \in {h.comment} : h.kind = "item_comment"}
  PROVE  Announced'
<1>1. /\ \A n : IssueAnnounced(n) => IssueAnnounced(n)'
      /\ \A kind, c : CommentAnnounced(kind, c) => CommentAnnounced(kind, c)'
      /\ CommentAnnounced(h.kind, h.comment)'
      /\ h.kind = "opened" /\ h.on \notin IssueIds => IssueAnnounced(h.on)'
  BY QueueAnnounces
<1>2. \A n \in DOMAIN issues' : IssueAnnounced(n)'
  BY <1>1 DEF Announced, IssueIds
<1>3. \A c \in DOMAIN issueComments' : CommentAnnounced("issue_comment", c)'
  BY <1>1 DEF Announced
<1>4. \A c \in DOMAIN itemComments' : CommentAnnounced("item_comment", c)'
  BY <1>1 DEF Announced
<1> QED BY <1>2, <1>3, <1>4 DEF Announced, IssueIds

\* No call leaves an object unannounced.
LEMMA CallsAnnounce ==
  ASSUME Traceable, Announced, Calls
  PROVE  Announced'
<1>0. /\ issues \in Seq(Issue) /\ issueComments \in Seq(IssueComment)
      /\ items \in Seq(Item) /\ itemComments \in Seq(ItemComment)
  BY Typed DEF StoreTypes
<1>1. CASE UNCHANGED <<issues, issueComments, items, itemComments, hooks>>
  BY <1>1 DEF Announced, IssueAnnounced, CommentAnnounced, IssueIds
<1>3. ASSUME NEW x, PostIssue(x)
      PROVE  Announced'
  <2>1. PICK h : h = IssueHook("opened", Len(issues) + 1, x)
    OBVIOUS
  <2>2. h.kind = "opened" /\ h.on = Len(issues) + 1
    BY <2>1 DEF IssueHook
  <2>3. /\ Queue(h) /\ DOMAIN issues' = DOMAIN issues \cup {Len(issues) + 1}
        /\ UNCHANGED <<issueComments, itemComments>>
    BY <1>0, <1>3, <2>1, Added DEF PostIssue
  <2> QED BY <2>2, <2>3, AnnouncedBy
<1>4. ASSUME NEW n \in IssueIds, NEW x, NEW kind \in {"edited", "closed", "reopened"},
             PatchIssue(n, x, kind)
      PROVE  Announced'
  <2>1. PICK h : h = IssueHook(kind, n, x)
    OBVIOUS
  <2>2. /\ Queue(h) /\ DOMAIN issues' = DOMAIN issues
        /\ UNCHANGED <<issueComments, itemComments>>
    BY <1>4, <2>1 DEF PatchIssue
  <2>3. h.kind \notin {"opened", "issue_comment", "item_comment"}
    BY <2>1 DEF IssueHook
  <2> QED BY <2>2, <2>3, AnnouncedBy
<1>5. ASSUME NEW x, PostIssueComment(x)
      PROVE  Announced'
  <2>1. PICK h : h = IssueCommentHook("issue_comment", Len(issueComments) + 1, x, issues[x.issue])
    OBVIOUS
  <2>2. h.kind = "issue_comment" /\ h.comment = Len(issueComments) + 1
    BY <2>1 DEF IssueCommentHook
  <2>3. /\ Queue(h) /\ DOMAIN issueComments' = DOMAIN issueComments \cup {Len(issueComments) + 1}
        /\ UNCHANGED <<issues, itemComments>>
    BY <1>0, <1>5, <2>1, Added DEF PostIssueComment
  <2> QED BY <2>2, <2>3, AnnouncedBy
<1>6. ASSUME NEW x, PostItemComment(x)
      PROVE  Announced'
  <2>1. PICK h : h = ItemCommentHook("item_comment", Len(itemComments) + 1, x, items[x.item])
    OBVIOUS
  <2>2. h.kind = "item_comment" /\ h.comment = Len(itemComments) + 1
    BY <2>1 DEF ItemCommentHook
  <2>3. /\ Queue(h) /\ DOMAIN itemComments' = DOMAIN itemComments \cup {Len(itemComments) + 1}
        /\ UNCHANGED <<issues, issueComments>>
    BY <1>0, <1>6, <2>1, Added DEF PostItemComment
  <2> QED BY <2>2, <2>3, AnnouncedBy
<1>7. ASSUME NEW h, Queue(h), h.kind \notin {"opened", "issue_comment", "item_comment"},
             UNCHANGED <<issues, issueComments, itemComments>>
      PROVE  Announced'
  BY <1>7, AnnouncedBy
<1>8. ASSUME NEW x, PostItem(x)
      PROVE  Announced'
  BY <1>7, <1>8 DEF PostItem, ItemHook
<1>9. ASSUME NEW t, NEW x, NEW kind \in {"item_updated", "item_deleted"}, PatchItem(t, x, kind)
      PROVE  Announced'
  BY <1>7, <1>9 DEF PatchItem, ItemHook
<1>10. ASSUME NEW h, Queue(h), h.kind \notin IssueKinds \cup {"issue_comment", "item_comment"},
              UNCHANGED <<issues, issueComments, items, itemComments>>
       PROVE  Announced'
  BY <1>7, <1>10 DEF IssueKinds
<1> QED BY <1>1, <1>3, <1>4, <1>5, <1>6, <1>8, <1>9, <1>10 DEF Calls

\* What is known of a webhook's markers stays known.
LEMMA HookStaysUnmarked ==
  ASSUME NEW h, Grows, HookOK(h), HookUnmarked(h)
  PROVE  HookUnmarked(h)'
<1>1. h.kind \in IssueKinds \cup {"issue_comment"} => h.on \in DOMAIN issues
  BY DEF HookOK, IssueIds
<1>2. h.kind = "issue_comment" => h.comment \in DOMAIN issueComments
  BY DEF HookOK
<1>3. h.kind = "item_comment" => h.comment \in DOMAIN itemComments
  BY DEF HookOK
<1>4. /\ h.on \in DOMAIN issues => issues'[h.on].by = issues[h.on].by
      /\ h.comment \in DOMAIN issueComments => issueComments'[h.comment] = issueComments[h.comment]
      /\ h.comment \in DOMAIN itemComments => itemComments'[h.comment] = itemComments[h.comment]
  BY DEF Grows, IssueIds
<1> QED BY <1>1, <1>2, <1>3, <1>4 DEF HookUnmarked

LEMMA QueueUnmarked ==
  ASSUME Traceable, Grows, Unmarked, NEW h, Queue(h), HookUnmarked(h)',
         \A n \in IssueIds' : issues'[n].by = 0 => ~issues'[n].marked
  PROVE  Unmarked'
<1> SUFFICES ASSUME NEW d \in DOMAIN hooks' PROVE HookUnmarked(hooks[d])'
  BY DEF Unmarked
<1>1. CASE hooks'[d] = h
  BY <1>1 DEF HookUnmarked
<1>2. CASE d \in DOMAIN hooks
  <2>1. PICK g : g = hooks[d]
    OBVIOUS
  <2>2. HookOK(g) /\ HookUnmarked(g)
    BY <1>2, <2>1, Typed DEF StoresOK, Unmarked
  <2>3. HookUnmarked(g)'
    BY <2>2, HookStaysUnmarked
  <2>4. hooks'[d] = g
    BY <1>2, <2>1 DEF Grows
  <2> QED BY <2>3, <2>4 DEF HookUnmarked
<1> QED BY <1>1, <1>2, QueueAdds

\* No call shows a marker on what a user wrote.
LEMMA CallsUnmarked ==
  ASSUME Traceable, Traceable', Grows, Unmarked, Calls
  PROVE  Unmarked'
<1>0. /\ issues \in Seq(Issue) /\ issueComments \in Seq(IssueComment)
      /\ itemComments \in Seq(ItemComment)
  BY Typed DEF StoreTypes
<1>1. CASE UNCHANGED <<issues, issueComments, items, itemComments, hooks>>
  BY <1>1 DEF Unmarked, HookUnmarked, IssueIds
<1>2. ASSUME NEW h, Queue(h), HookUnmarked(h)', UNCHANGED issues
      PROVE  Unmarked'
  BY <1>2, QueueUnmarked DEF Unmarked, IssueIds
<1>3. ASSUME NEW x, PostIssue(x), x.by = 0 => ~x.marked
      PROVE  Unmarked'
  <2>1. PICK h : h = IssueHook("opened", Len(issues) + 1, x)
    OBVIOUS
  <2>2. /\ h.kind = "opened" /\ h.on = Len(issues) + 1 /\ h.bodyMarked = x.marked
        /\ h.commentMarked = FALSE
    BY <2>1 DEF IssueHook
  <2>3. /\ Queue(h) /\ DOMAIN issues' = DOMAIN issues \cup {Len(issues) + 1}
        /\ issues'[Len(issues) + 1] = x /\ \A n \in DOMAIN issues : issues'[n] = issues[n]
    BY <1>0, <1>3, <2>1, Added DEF PostIssue
  <2>4. HookUnmarked(h)'
    BY <1>3, <2>2, <2>3 DEF HookUnmarked, IssueKinds
  <2>5. \A n \in IssueIds' : issues'[n].by = 0 => ~issues'[n].marked
    BY <1>3, <2>3 DEF Unmarked, IssueIds
  <2> QED BY <2>3, <2>4, <2>5, QueueUnmarked
<1>4. ASSUME NEW n \in IssueIds, NEW x, NEW kind \in {"edited", "closed", "reopened"},
             PatchIssue(n, x, kind), x.by = issues[n].by, x.marked => issues[n].marked
      PROVE  Unmarked'
  <2>1. PICK h : h = IssueHook(kind, n, x)
    OBVIOUS
  <2>2. /\ h.kind = kind /\ h.on = n /\ h.bodyMarked = x.marked /\ h.commentMarked = FALSE
        /\ h.kind \notin {"issue_comment", "item_comment"}
    BY <2>1 DEF IssueHook
  <2>3. Queue(h) /\ HookUnmarked(h)'
    <3>1. issues'[n].by = issues[n].by
      BY DEF Grows
    <3>2. issues[n].by = 0 => ~x.marked
      BY <1>4 DEF Unmarked
    <3> QED BY <1>4, <2>1, <2>2, <3>1, <3>2 DEF PatchIssue, HookUnmarked
  <2>4. \A m \in IssueIds' : issues'[m].by = 0 => ~issues'[m].marked
    BY <1>4 DEF PatchIssue, Unmarked, IssueIds
  <2> QED BY <2>3, <2>4, QueueUnmarked
<1>5. ASSUME NEW x, PostIssueComment(x), x.by = 0 => ~x.marked
      PROVE  Unmarked'
  <2>1. PICK h : h = IssueCommentHook("issue_comment", Len(issueComments) + 1, x, issues[x.issue])
    OBVIOUS
  <2>2. /\ h.kind = "issue_comment" /\ h.on = x.issue /\ h.comment = Len(issueComments) + 1
        /\ h.bodyMarked = issues[x.issue].marked /\ h.commentMarked = x.marked
    BY <2>1 DEF IssueCommentHook
  <2>3. /\ Queue(h) /\ UNCHANGED issues
        /\ DOMAIN issueComments' = DOMAIN issueComments \cup {Len(issueComments) + 1}
        /\ issueComments'[Len(issueComments) + 1] = x
    BY <1>0, <1>5, <2>1, Added DEF PostIssueComment
  <2>4. x.issue \in IssueIds
    <3>1. \A c \in DOMAIN issueComments' : issueComments'[c].issue \in IssueIds'
      BY DEF Traceable, StoresOK, IssueCommentOK
    <3> QED BY <2>3, <3>1 DEF IssueIds
  <2>5. HookUnmarked(h)'
    BY <1>5, <2>2, <2>3, <2>4 DEF HookUnmarked, Unmarked, IssueKinds
  <2> QED BY <1>2, <2>3, <2>5
<1>6. ASSUME NEW x, PostItemComment(x), x.by = 0 => ~x.marked
      PROVE  Unmarked'
  <2>1. PICK h : h = ItemCommentHook("item_comment", Len(itemComments) + 1, x, items[x.item])
    OBVIOUS
  <2>2. /\ h.kind = "item_comment" /\ h.comment = Len(itemComments) + 1
        /\ h.bodyMarked = FALSE /\ h.commentMarked = x.marked
    BY <2>1 DEF ItemCommentHook
  <2>3. /\ Queue(h) /\ UNCHANGED issues
        /\ DOMAIN itemComments' = DOMAIN itemComments \cup {Len(itemComments) + 1}
        /\ itemComments'[Len(itemComments) + 1] = x
    BY <1>0, <1>6, <2>1, Added DEF PostItemComment
  <2>4. HookUnmarked(h)'
    BY <1>6, <2>2, <2>3 DEF HookUnmarked, IssueKinds
  <2> QED BY <1>2, <2>3, <2>4
<1>7. ASSUME NEW h, Queue(h), h.kind \notin IssueKinds \cup {"issue_comment", "item_comment"},
             UNCHANGED issues
      PROVE  Unmarked'
  BY <1>2, <1>7 DEF HookUnmarked
<1>8. ASSUME NEW x, PostItem(x)
      PROVE  Unmarked'
  BY <1>7, <1>8 DEF PostItem, ItemHook, IssueKinds
<1>9. ASSUME NEW t, NEW x, NEW kind \in {"item_updated", "item_deleted"}, PatchItem(t, x, kind)
      PROVE  Unmarked'
  BY <1>7, <1>9 DEF PatchItem, ItemHook, IssueKinds
<1> QED BY <1>1, <1>3, <1>4, <1>5, <1>6, <1>7, <1>8, <1>9 DEF Calls
-----------------------------------------------------------------------------
\* What is settled stays so while links and items stay.
Steady == Grows /\ ItemsLive /\ UNCHANGED links

LEMMA StepSteady ==
  ASSUME Traceable, KeepsLinks, KeepsItems, [Next]_vars
  PROVE  Steady /\ Traceable' /\ Calls
<1>1. Grows
  BY StepSound DEF SoundStep
<1>2. Traceable'
  BY NextSound
<1>3. Calls
  BY StepCalls
<1> QED BY <1>1, <1>2, <1>3, LinksStay, ItemsStay DEF Steady

LEMMA PresentStays ==
  ASSUME Steady, NEW n \in IssueIds
  PROVE  /\ Mirrorable(n)' = Mirrorable(n)
         /\ Present(n) => Present(n)'
<1>1. /\ issues'[n].by = issues[n].by /\ issues'[n].repo = issues[n].repo
      /\ UNCHANGED links
  BY DEF Steady, Grows
<1>2. LinkForRepo(issues[n].repo)' = LinkForRepo(issues[n].repo)
  BY <1>1 DEF LinkForRepo
<1>3. ASSUME NEW p, NEW r, NEW t \in WithRef(p, r, n)
      PROVE  t \in WithRef(p, r, n)'
  <2>1. t \in ItemIds /\ items[t].live /\ items[t].project = p /\ items[t].repo = r /\ items[t].ref = n
    BY <1>3 DEF WithRef, ItemIds
  <2>2. /\ t \in ItemIds' /\ items'[t].live
        /\ items'[t].project = p /\ items'[t].repo = r /\ items'[t].ref = n
    BY <2>1 DEF Steady, Grows, ItemsLive
  <2> QED BY <2>2 DEF WithRef, ItemIds
<1>4. ASSUME Present(n)
      PROVE  Present(n)'
  <2> SUFFICES ASSUME NEW k \in LinkForRepo(issues[n].repo)
               PROVE  WithRef(links[k].project, links[k].repo, n)' # {}
    BY <1>2 DEF Present
  <2>1. PICK t : t \in WithRef(links[k].project, links[k].repo, n)
    BY <1>4 DEF Present
  <2>2. PICK p, r : p = links[k].project /\ r = links[k].repo
    OBVIOUS
  <2>3. t \in WithRef(p, r, n)'
    BY <1>3, <2>1, <2>2
  <2>4. p = links'[k].project /\ r = links'[k].repo
    BY <1>1, <2>2
  <2> QED BY <2>3, <2>4 DEF WithRef
<1> QED BY <1>1, <1>2, <1>4 DEF Mirrorable

LEMMA SettledStays ==
  ASSUME Traceable, Steady, NEW d \in DOMAIN hooks, Settled(d)
  PROVE  Settled(d)'
<1>1. PICK h : h = hooks[d]
  OBVIOUS
<1>2. HookOK(h) /\ hooks'[d] = h
  BY <1>1, Typed DEF StoresOK, Steady, Grows
<1>3. ASSUME h.kind = "opened", Mirrorable(h.on)'
      PROVE  Present(h.on)'
  <2>1. h.on \in IssueIds
    BY <1>2, <1>3 DEF HookOK, IssueKinds
  <2> QED BY <1>1, <1>3, <2>1, PresentStays DEF Settled
<1>4. ASSUME h.kind = "issue_comment", issueComments'[h.comment].by = 0, Mirrorable(h.on)'
      PROVE  \E c \in DOMAIN itemComments' : itemComments'[c].by = h.comment
  <2>1. h.on \in IssueIds /\ h.comment \in DOMAIN issueComments
    BY <1>2, <1>4 DEF HookOK
  <2>2. Mirrorable(h.on) /\ issueComments[h.comment].by = 0
    BY <1>4, <2>1, PresentStays DEF Steady, Grows
  <2>3. PICK c \in DOMAIN itemComments : itemComments[c].by = h.comment
    BY <1>1, <1>4, <2>2 DEF Settled
  <2> QED BY <2>3 DEF Steady, Grows
<1>5. ASSUME h.kind = "item_comment", itemComments'[h.comment].by = 0, items'[h.on].ref # 0
      PROVE  \E c \in DOMAIN issueComments' : issueComments'[c].by = h.comment
  <2>1. h.on \in ItemIds /\ h.comment \in DOMAIN itemComments
    BY <1>2, <1>5 DEF HookOK, PlaneKinds
  <2>2. items[h.on].ref # 0 /\ itemComments[h.comment].by = 0
    BY <1>5, <2>1 DEF Steady, Grows
  <2>3. PICK c \in DOMAIN issueComments : issueComments[c].by = h.comment
    BY <1>1, <1>5, <2>2 DEF Settled
  <2> QED BY <2>3 DEF Steady, Grows
<1> QED BY <1>2, <1>3, <1>4, <1>5 DEF Settled

\* A running handler keeps its delivery, and what the delivery says.
LEMMA SameEvent ==
  ASSUME Traceable, Grows, NEW w \in Workers, worker[w].pc # "idle",
         worker'[w].hook = worker[w].hook
  PROVE  Evt(w)' = Evt(w)
<1>1. worker[w].hook \in DOMAIN hooks
  BY Handling
<1> QED BY <1>1 DEF Evt, Grows

\* What a step must do for Followed to stay.
LEMMA FollowedStays ==
  ASSUME Traceable, Traceable', Followed, Steady,
         \A d \in DOMAIN hooks' : d \in DOMAIN hooks \/ d \in due',
         \A d \in DOMAIN hooks : Pending(d) => Pending(d)' \/ Settled(d)',
         \A w \in Workers : Finds(worker[w])' =>
           \/ Finds(worker[w]) /\ worker'[w].hook = worker[w].hook
           \/ Mirrorable(Evt(w).on)' => Present(Evt(w).on)'
  PROVE  Followed'
<1>1. ASSUME NEW d \in DOMAIN hooks'
      PROVE  Pending(d)' \/ Settled(d)'
  <2>1. CASE d \in due'
    BY <2>1 DEF Pending
  <2>2. CASE d \in DOMAIN hooks
    BY <2>2, SettledStays DEF Followed
  <2> QED BY <2>1, <2>2
<1>2. ASSUME NEW w \in Workers, Finds(worker[w])', Mirrorable(Evt(w).on)'
      PROVE  Present(Evt(w).on)'
  <2>1. CASE Finds(worker[w]) /\ worker'[w].hook = worker[w].hook
    <3>1. worker[w].pc # "idle" /\ Evt(w).kind \in {"opened", "issue_comment"}
      BY <2>1 DEF Finds, Evt
    <3>2. PICK n : n = Evt(w).on
      OBVIOUS
    <3>3. Evt(w)'.on = n
      BY <2>1, <3>1, <3>2, SameEvent DEF Steady
    <3>4. n \in IssueIds
      BY <3>1, <3>2, Handling DEF HookOK, IssueKinds
    <3>5. Mirrorable(n)' /\ (Present(n)' => Present(Evt(w).on)')
      BY <1>2, <3>3 DEF Mirrorable, Present
    <3>6. Present(n)
      BY <2>1, <3>2, <3>4, <3>5, PresentStays DEF Followed
    <3> QED BY <3>4, <3>5, <3>6, PresentStays
  <2> QED BY <1>2, <2>1
<1> QED BY <1>1, <1>2 DEF Followed
-----------------------------------------------------------------------------
\* A call queues what it adds, and takes nothing off the queue.
LEMMA CallsQueue ==
  ASSUME Traceable, Calls
  PROVE  \A d \in DOMAIN hooks' : d \in DOMAIN hooks \/ d \in due'
<1>1. ASSUME NEW h, Queue(h)
      PROVE  \A d \in DOMAIN hooks' : d \in DOMAIN hooks \/ d \in due'
  BY <1>1, QueueAdds
<1> QED BY <1>1 DEF Calls, PostIssue, PatchIssue, PostItem, PatchItem, PostIssueComment,
                    PostItemComment

LEMMA UsersQueue ==
  ASSUME Users
  PROVE  due \subseteq due'
BY DEF Users, UserStep, ForgeUserOpens, ForgeUserEdits, ForgeUserFlips, ForgeUserComments,
       ForgeUserTouchesComment, ForgeUserPulls, PlaneUserCreates, PlaneUserMoves,
       PlaneUserDeletes, PlaneUserComments, PlaneUserTouchesComment, Queue, PostIssue,
       PatchIssue, PostItem, PatchItem, PostIssueComment, PostItemComment

LEMMA WriteQueues ==
  ASSUME NEW w \in Workers, Write(w)
  PROVE  due \subseteq due'
<1>1. CASE Refused(w)
  BY <1>1 DEF Refused, trackerVars
<1>2. ASSUME NEW x, Update(w, x)
      PROVE  due \subseteq due'
  BY <1>1, <1>2 DEF Update, PatchItem, Queue
<1>3. CASE CreateItem(w)
  BY <1>1, <1>3 DEF CreateItem, PostItem, Queue
<1>4. CASE CommentOnItem(w)
  BY <1>1, <1>4 DEF CommentOnItem, PostItemComment, Queue
<1>5. CASE CommentOnIssue(w) \/ CreateIssue(w)
  BY <1>5 DEF CommentOnIssue, CreateIssue, PostIssueComment, PostIssue, Queue
<1>6. CASE Reconcile(w) \/ UpdateText(w) \/ UpdateState(w) \/ MoveForPull(w)
  BY <1>2, <1>6 DEF Reconcile, UpdateText, UpdateState, MoveForPull
<1> QED BY <1>3, <1>4, <1>5, <1>6 DEF Write

\* A handler that stays keeps its delivery pending.
LEMMA HandlerKeepsPending ==
  ASSUME NEW w \in Workers, NEW d, worker'[w].hook = d, worker'[w].heard, Promising(worker'[w])
  PROVE  Pending(d)'
<1>1. Promising(worker[w])'
  BY DEF Promising
<1> QED BY <1>1 DEF Pending

\* A step of one handler leaves the deliveries of the others pending.
LEMMA OthersStayPending ==
  ASSUME NEW w \in Workers, \A v \in Workers \ {w} : worker'[v] = worker[v],
         NEW d, d \in due => d \in due' \/ Pending(d)', Pending(d),
         worker[w].hook = d /\ worker[w].heard /\ Promising(worker[w]) =>
           Pending(d)' \/ Settled(d)'
  PROVE  Pending(d)' \/ Settled(d)'
<1>1. CASE d \in due
  BY <1>1 DEF Pending
<1>2. ASSUME NEW v \in Workers \ {w}, worker[v].hook = d, worker[v].heard, Promising(worker[v])
      PROVE  Pending(d)'
  <2>1. worker'[v] = worker[v]
    OBVIOUS
  <2>2. worker'[v].hook = d /\ worker'[v].heard /\ Promising(worker'[v])
    BY <1>2, <2>1
  <2> QED BY <2>2, HandlerKeepsPending
<1> QED BY <1>1, <1>2 DEF Pending

\* Users leave everything pending.
LEMMA UsersFollow ==
  ASSUME Traceable, Traceable', Followed, Steady, Calls, Users
  PROVE  Followed'
<1>1. UNCHANGED worker /\ due \subseteq due'
  BY UsersQueue DEF Users
<1>2. \A d : Pending(d) => Pending(d)'
  BY <1>1 DEF Pending, Promising
<1>3. ASSUME NEW w \in Workers, Finds(worker[w])'
      PROVE  Finds(worker[w]) /\ worker'[w].hook = worker[w].hook
  <2>1. worker'[w] = worker[w]
    BY <1>1
  <2>2. worker[w].pc # "idle" => worker[w].hook \in DOMAIN hooks
    BY Handling
  <2> QED BY <1>3, <2>1, <2>2 DEF Finds, Steady, Grows
<1> QED BY <1>2, <1>3, CallsQueue, FollowedStays

\* What is dismissed is settled: nothing of a user's carries a marker, and no
\* event of a linked repository is without a look-up.
LEMMA DismissedSettled ==
  ASSUME Traceable, Unmarked, NEW d \in DOMAIN hooks, ~Acted(hooks[d])
  PROVE  Settled(d)
<1>1. PICK h : h = hooks[d]
  OBVIOUS
<1>2. HookOK(h) /\ HookUnmarked(h)
  BY <1>1, Typed DEF StoresOK, Unmarked
<1>3. ~(h.kind = "opened" /\ Mirrorable(h.on))
  <2> SUFFICES ASSUME h.kind = "opened", Mirrorable(h.on)
               PROVE  FALSE
    OBVIOUS
  <2>1. ~MarkerPresent(h)
    BY <1>2 DEF HookUnmarked, Mirrorable, MarkerPresent, IssueKinds
  <2>2. h.home = issues[h.on].repo
    BY <1>2 DEF HookOK, IssueKinds
  <2>3. NeedsLookup(h)
    BY <2>2 DEF Mirrorable, NeedsLookup, IssueKinds
  <2> QED BY <1>1, <2>1, <2>3 DEF Acted
<1>4. ~(h.kind = "issue_comment" /\ issueComments[h.comment].by = 0 /\ Mirrorable(h.on))
  <2> SUFFICES ASSUME h.kind = "issue_comment", issueComments[h.comment].by = 0, Mirrorable(h.on)
               PROVE  FALSE
    OBVIOUS
  <2>1. ~MarkerPresent(h)
    BY <1>2 DEF HookUnmarked, Mirrorable, MarkerPresent, IssueKinds
  <2>2. h.home = issues[h.on].repo
    BY <1>2 DEF HookOK
  <2>3. NeedsLookup(h)
    BY <2>2 DEF Mirrorable, NeedsLookup
  <2> QED BY <1>1, <2>1, <2>3 DEF Acted
<1>5. ~(h.kind = "item_comment" /\ itemComments[h.comment].by = 0)
  <2> SUFFICES ASSUME h.kind = "item_comment", itemComments[h.comment].by = 0
               PROVE  FALSE
    OBVIOUS
  <2>1. ~MarkerPresent(h)
    BY <1>2 DEF HookUnmarked, MarkerPresent
  <2> QED BY <1>1, <2>1 DEF Acted, NeedsLookup
<1> QED BY <1>1, <1>3, <1>4, <1>5 DEF Settled

LEMMA DismissFollows ==
  ASSUME Traceable, Traceable', Followed, Steady, Unmarked, NEW d \in DOMAIN hooks, Dismiss(d)
  PROVE  Followed'
<1>1. UNCHANGED <<worker, hooks>> /\ due' = due \ {d} /\ ~Acted(hooks[d])
  BY DEF Dismiss
<1>2. Settled(d)'
  BY <1>1, DismissedSettled, SettledStays
<1>3. \A e : e # d /\ Pending(e) => Pending(e)'
  BY <1>1 DEF Pending, Promising
<1>4. ASSUME NEW w \in Workers, Finds(worker[w])'
      PROVE  Finds(worker[w]) /\ worker'[w].hook = worker[w].hook
  BY <1>1, <1>4 DEF Finds
<1> QED BY <1>1, <1>2, <1>3, <1>4, FollowedStays

\* A comment's handler begins after the issue's is done.
LEMMA BeginFollows ==
  ASSUME Traceable, Traceable', Followed, Steady, Announced, Ordered,
         NEW w \in Workers, NEW d \in DOMAIN hooks, Begin(w, d)
  PROVE  Followed'
<1>1. /\ worker[w].pc = "idle" /\ Deliverable(d) /\ Acted(hooks[d]) /\ due' = due \ {d}
      /\ worker' = [worker EXCEPT ![w] =
           [Idle EXCEPT !.pc = IF NeedsLookup(hooks[d]) THEN "lookup" ELSE "write",
                        !.hook = d, !.heard = TRUE]]
      /\ UNCHANGED hooks
  BY DEF Begin
<1>2. /\ worker'[w].pc = IF NeedsLookup(hooks[d]) THEN "lookup" ELSE "write"
      /\ worker'[w].hook = d /\ worker'[w].heard /\ worker'[w].item = 0
      /\ \A v \in Workers \ {w} : worker'[v] = worker[v]
  BY <1>1, Typed DEF Idle
<1>3. Pending(d)'
  BY <1>2, HandlerKeepsPending DEF Promising
<1>4. ASSUME NEW e \in DOMAIN hooks, Pending(e)
      PROVE  Pending(e)' \/ Settled(e)'
  <2>1. e \in due => e \in due' \/ Pending(e)'
    BY <1>1, <1>3
  <2>2. ~Promising(worker[w])
    BY <1>1 DEF Promising
  <2> QED BY <1>2, <1>4, <2>1, <2>2, OthersStayPending
<1>5. ASSUME hooks[d].kind = "issue_comment", Mirrorable(hooks[d].on)
      PROVE  Present(hooks[d].on)
  <2>1. PICK n : n = hooks[d].on
    OBVIOUS
  <2>2. n \in IssueIds
    BY <1>5, <2>1, Typed DEF StoresOK, HookOK
  <2>3. PICK e \in DOMAIN hooks : hooks[e].kind = "opened" /\ hooks[e].on = n /\ e < d
    BY <1>5, <2>1, <2>2 DEF Announced, IssueAnnounced
  <2>4. e \in 1..(d - 1)
    <3>1. hooks \in Seq(Hook)
      BY Typed DEF StoreTypes
    <3>2. DOMAIN hooks = 1..Len(hooks) /\ Len(hooks) \in Nat
      BY <3>1, LenProperties
    <3> QED BY <2>3, <3>2
  <2>5. SideOf(e) = SideOf(d)
    BY <1>5, <2>3 DEF SideOf, ForgeKinds, IssueKinds
  <2>6. e \notin due /\ ~Busy(e)
    BY <1>1, <2>4, <2>5 DEF Deliverable
  <2>7. ~Pending(e)
    BY <2>6 DEF Pending, Busy
  <2>8. Settled(e)
    BY <2>7 DEF Followed
  <2> QED BY <1>5, <2>1, <2>3, <2>8 DEF Settled
<1>6. ASSUME NEW v \in Workers, Finds(worker[v])'
      PROVE  \/ Finds(worker[v]) /\ worker'[v].hook = worker[v].hook
             \/ Mirrorable(Evt(v).on)' => Present(Evt(v).on)'
  <2>1. CASE v # w
    BY <1>1, <1>2, <1>6, <2>1 DEF Finds
  <2>2. CASE v = w
    <3>1. hooks[d].kind = "issue_comment"
      BY <1>1, <1>2, <1>6, <2>2 DEF Finds
    <3>2. PICK n : n = hooks[d].on
      OBVIOUS
    <3>3. n \in IssueIds
      BY <3>1, <3>2, Typed DEF StoresOK, HookOK
    <3>4. Evt(v)'.on = n
      BY <1>1, <1>2, <2>2, <3>2 DEF Evt
    <3>5. Mirrorable(n)' => Present(n)'
      BY <1>5, <3>1, <3>2, <3>3, PresentStays
    <3> QED BY <3>4, <3>5 DEF Mirrorable, Present
  <2> QED BY <2>1, <2>2
<1> QED BY <1>1, <1>4, <1>6, FollowedStays

\* A handler answers only what is settled, or with an error.
LEMMA AnswersFollow ==
  ASSUME Traceable, Traceable', Followed, Steady,
         NEW w \in Workers, worker[w].pc # "idle", NEW h, h = worker[w].hook,
         NEW outcome, Answering(w, outcome), due \subseteq due',
         \A d \in DOMAIN hooks' : d \in DOMAIN hooks \/ d \in due',
         outcome = "failed" \/ Settled(h)'
  PROVE  Followed'
<1>1. /\ worker'[w].pc = "answer" /\ worker'[w].outcome = outcome
      /\ worker'[w].hook = worker[w].hook /\ worker'[w].heard = worker[w].heard
      /\ \A v \in Workers \ {w} : worker'[v] = worker[v]
  BY Typed DEF Answering, Worker
<1>2. ASSUME NEW d \in DOMAIN hooks, Pending(d)
      PROVE  Pending(d)' \/ Settled(d)'
  <2>1. ASSUME worker[w].hook = d, worker[w].heard
        PROVE  Pending(d)' \/ Settled(d)'
    <3>1. CASE outcome = "failed"
      <4>1. Promising(worker'[w])
        BY <1>1, <2>1, <3>1 DEF Promising
      <4> QED BY <1>1, <2>1, <4>1, HandlerKeepsPending
    <3> QED BY <2>1, <3>1
  <2> QED BY <1>1, <1>2, <2>1, OthersStayPending
<1>3. ASSUME NEW v \in Workers, Finds(worker[v])'
      PROVE  Finds(worker[v]) /\ worker'[v].hook = worker[v].hook
  <2>1. worker[v].pc # "idle" /\ worker'[v].hook = worker[v].hook
    BY <1>1, <1>3 DEF Finds
  <2>2. Evt(v)' = Evt(v)
    BY <2>1, SameEvent DEF Steady
  <2>3. hooks'[worker'[v].hook] = hooks[worker[v].hook]
    BY <2>2 DEF Evt
  <2>4. v # w => worker'[v] = worker[v]
    BY <1>1
  <2> QED BY <1>1, <1>3, <2>1, <2>3, <2>4 DEF Finds
<1> QED BY <1>2, <1>3, FollowedStays

\* A handler goes on to write once it has found what it needs.
LEMMA FoundFollows ==
  ASSUME Traceable, Traceable', Followed, Steady,
         NEW w \in Workers, worker[w].pc # "idle",
         NEW t, To(w, "write", t), UNCHANGED <<due, hooks>>,
         Evt(w).kind = "opened" /\ t # 0 => Present(Evt(w).on)
  PROVE  Followed'
<1>1. /\ worker'[w].pc = "write" /\ worker'[w].item = t
      /\ worker'[w].hook = worker[w].hook /\ worker'[w].heard = worker[w].heard
      /\ \A v \in Workers \ {w} : worker'[v] = worker[v]
  BY Typed DEF To, Worker
<1>2. ASSUME NEW d \in DOMAIN hooks, Pending(d)
      PROVE  Pending(d)' \/ Settled(d)'
  <2>1. ASSUME worker[w].hook = d, worker[w].heard
        PROVE  Pending(d)' \/ Settled(d)'
    BY <1>1, <2>1, HandlerKeepsPending DEF Promising
  <2> QED BY <1>1, <1>2, <2>1, OthersStayPending
<1>3. ASSUME NEW v \in Workers, Finds(worker[v])'
      PROVE  \/ Finds(worker[v]) /\ worker'[v].hook = worker[v].hook
             \/ Mirrorable(Evt(v).on)' => Present(Evt(v).on)'
  <2>1. CASE v # w
    BY <1>1, <1>3, <2>1 DEF Finds
  <2>2. CASE v = w
    <3>1. CASE Evt(w).kind = "issue_comment"
      BY <1>1, <2>2, <3>1 DEF Finds, Evt
    <3>2. CASE Evt(w).kind # "issue_comment"
      <4>1. Evt(w)' = Evt(w)
        BY <1>1, SameEvent DEF Steady
      <4>2. Evt(w).kind = "opened" /\ t # 0
        BY <1>1, <1>3, <2>2, <3>2 DEF Finds, Evt
      <4>3. PICK n : n = Evt(w).on
        OBVIOUS
      <4>4. n \in IssueIds
        BY <4>2, <4>3, Handling DEF HookOK, IssueKinds
      <4>5. Present(n)'
        BY <4>2, <4>3, <4>4, PresentStays
      <4>6. Evt(v)'.on = n
        BY <2>2, <4>1, <4>3
      <4> QED BY <4>5, <4>6 DEF Present
    <3> QED BY <3>1, <3>2
  <2> QED BY <2>1, <2>2
<1> QED BY <1>2, <1>3, FollowedStays

\* A reference that is there, or is not, says whether the issue is mirrored.
LEMMA PresentByLink ==
  ASSUME Traceable, NEW n, NEW k \in LinkForRepo(issues[n].repo)
  PROVE  Present(n) <=> WithRef(links[k].project, links[k].repo, n) # {}
BY OneLink, Typed DEF Present

\* A look-up skips only what is settled.
LEMMA LookupFollows ==
  ASSUME Traceable, Traceable', Followed, Steady, NEW w \in Workers, Lookup(w)
  PROVE  Followed'
<1>1. worker[w].pc = "lookup" /\ UNCHANGED <<due, hooks, issues, items, issueComments, itemComments>>
  BY DEF Lookup, LookupByRef, LookupBySequence, LookupParent, At, trackerVars
<1>2. Evt(w) = hooks[worker[w].hook] /\ worker[w].hook \in DOMAIN hooks /\ HookOK(Evt(w))
  BY <1>1, Handling DEF Evt
<1> PICK h : h = worker[w].hook
  OBVIOUS
<1>3. ASSUME Answering(w, "failed")
      PROVE  Followed'
  BY <1>1, <1>3, AnswersFollow
<1>4. ASSUME Answering(w, "skipped"), Settled(worker[w].hook)
      PROVE  Followed'
  <2>1. Settled(h)'
    BY <1>2, <1>4, SettledStays
  <2> QED BY <1>1, <1>4, <2>1, AnswersFollow
<1>5. CASE LookupByRef(w)
  <2>1. PICK k \in LinkForRepo(Evt(w).home) :
          LET found == WithRef(links[k].project, links[k].repo, Evt(w).on)
          IN \/ \E t \in found : To(w, "write", t)
             \/ found = {} /\ Evt(w).kind = "opened" /\ To(w, "write", 0)
             \/ found = {} /\ Evt(w).kind # "opened" /\ Answering(w, "skipped")
    BY <1>5 DEF LookupByRef
  <2>2. Evt(w).kind \in IssueKinds \cup {"issue_comment"} /\ Evt(w).home = issues[Evt(w).on].repo
    BY <1>2, <1>5 DEF LookupByRef, At, HookOK
  <2>3. Present(Evt(w).on) <=> WithRef(links[k].project, links[k].repo, Evt(w).on) # {}
    BY <2>1, <2>2, PresentByLink
  <2>4. ASSUME NEW t \in WithRef(links[k].project, links[k].repo, Evt(w).on), To(w, "write", t)
        PROVE  Followed'
    BY <1>1, <2>3, <2>4, FoundFollows
  <2>5. ASSUME To(w, "write", 0)
        PROVE  Followed'
    BY <1>1, <2>5, FoundFollows
  <2>6. ASSUME ~Present(Evt(w).on), Evt(w).kind # "opened"
        PROVE  Settled(worker[w].hook)
    <3>1. Evt(w).kind = "issue_comment" => Finds(worker[w])
      BY <1>1, <1>2 DEF Finds
    <3>2. Evt(w).kind = "issue_comment" => ~Mirrorable(Evt(w).on)
      BY <2>6, <3>1 DEF Followed
    <3>3. Evt(w).kind # "item_comment"
      BY <2>2 DEF IssueKinds
    <3> QED BY <1>2, <2>6, <3>2, <3>3 DEF Settled
  <2> QED BY <1>4, <2>1, <2>3, <2>4, <2>5, <2>6
<1>6. CASE LookupBySequence(w)
  <2>1. Evt(w).kind \notin {"opened", "issue_comment", "item_comment"}
    BY <1>6 DEF LookupBySequence, At, PullKinds
  <2>2. Settled(worker[w].hook)
    BY <1>2, <2>1 DEF Settled
  <2>3. ASSUME NEW t, To(w, "write", t)
        PROVE  Followed'
    BY <1>1, <2>1, <2>3, FoundFollows
  <2> QED BY <1>4, <1>6, <2>2, <2>3 DEF LookupBySequence
<1>7. CASE LookupParent(w)
  <2>1. Evt(w).kind = "item_comment"
    BY <1>7 DEF LookupParent, At
  <2>2. items[Evt(w).on].ref = 0 => Settled(worker[w].hook)
    BY <1>2, <2>1 DEF Settled
  <2>3. ASSUME NEW t, To(w, "write", t)
        PROVE  Followed'
    BY <1>1, <2>1, <2>3, FoundFollows
  <2> QED BY <1>3, <1>4, <1>7, <2>2, <2>3 DEF LookupParent
<1> QED BY <1>5, <1>6, <1>7 DEF Lookup

\* A write that was applied has settled its delivery.
LEMMA WriteFollows ==
  ASSUME Traceable, Traceable', Followed, Steady, Calls, NEW w \in Workers, Write(w)
  PROVE  Followed'
<1>1. worker[w].pc = "write"
  BY DEF Write, CreateItem, Reconcile, UpdateText, UpdateState, MoveForPull, CommentOnItem,
         CommentOnIssue, CreateIssue, At
<1>2. Evt(w) = hooks[worker[w].hook] /\ worker[w].hook \in DOMAIN hooks /\ HookOK(Evt(w))
  BY <1>1, Handling DEF Evt
<1>3. due \subseteq due' /\ \A d \in DOMAIN hooks' : d \in DOMAIN hooks \/ d \in due'
  BY WriteQueues, CallsQueue
<1> PICK d : d = worker[w].hook
  OBVIOUS
<1>4. d \in DOMAIN hooks /\ hooks[d] = Evt(w) /\ hooks'[d] = Evt(w)
  BY <1>2 DEF Steady, Grows
<1>5. CASE Refused(w)
  BY <1>1, <1>3, <1>5, AnswersFollow DEF Refused
<1>6. ASSUME Applied(w), Settled(d)'
      PROVE  Followed'
  BY <1>1, <1>3, <1>6, AnswersFollow DEF Applied
<1>7. CASE Evt(w).kind \notin {"opened", "issue_comment", "item_comment"}
  <2>1. Settled(d)'
    BY <1>4, <1>7 DEF Settled
  <2>2. Refused(w) \/ Applied(w)
    BY <1>7 DEF Write, CreateItem, Reconcile, UpdateText, UpdateState, MoveForPull,
                CommentOnItem, CommentOnIssue, CreateIssue, Update, At
  <2> QED BY <1>5, <1>6, <2>1, <2>2
<1>8. CASE CreateItem(w)
  <2>1. PICK k \in LinkForRepo(Evt(w).home) :
          \/ Refused(w)
          \/ /\ \E x : /\ x.project = links[k].project /\ x.repo = links[k].repo
                       /\ x.ref = Evt(w).on /\ x.live /\ PostItem(x)
             /\ Applied(w)
    BY <1>8 DEF CreateItem
  <2>2. ASSUME NEW x, x.project = links[k].project, x.repo = links[k].repo, x.ref = Evt(w).on,
               x.live, PostItem(x)
        PROVE  Settled(d)'
    <3>1. Evt(w).kind = "opened" /\ Evt(w).on \in IssueIds /\ Evt(w).home = issues[Evt(w).on].repo
      BY <1>2, <1>8 DEF CreateItem, At, HookOK, IssueKinds
    <3>2. Len(items) + 1 \in DOMAIN items' /\ items'[Len(items) + 1] = x
      <4>1. items \in Seq(Item)
        BY Typed DEF StoreTypes
      <4> QED BY <2>2, <4>1, Added DEF PostItem
    <3>3. PICK n : n = Evt(w).on
      OBVIOUS
    <3>4. UNCHANGED <<links, issues>>
      BY <2>2 DEF Steady, PostItem
    <3>5. k \in LinkForRepo(issues[n].repo)'
      BY <2>1, <3>1, <3>3, <3>4 DEF LinkForRepo
    <3>6. WithRef(links[k].project, links[k].repo, n)' # {}
      BY <2>2, <3>2, <3>3, <3>4 DEF WithRef
    <3>7. \A j \in LinkForRepo(issues[n].repo)' : j = k
      <4>1. PICK r : r = issues'[n].repo
        OBVIOUS
      <4>2. LinkForRepo(issues[n].repo)' = LinkForRepo(r)
        BY <3>4, <4>1 DEF LinkForRepo
      <4> QED BY <3>5, <4>2, OneLink, Typed
    <3>8. Present(n)'
      BY <3>6, <3>7 DEF Present
    <3> QED BY <1>4, <3>1, <3>3, <3>8 DEF Settled
  <2> QED BY <1>5, <1>6, <2>1, <2>2
<1>9. CASE Reconcile(w)
  <2>1. Evt(w).kind = "opened" /\ worker[w].item # 0 /\ (Refused(w) \/ Applied(w))
    BY <1>9 DEF Reconcile, At, Update
  <2>2. Mirrorable(Evt(w).on) => Present(Evt(w).on)
    BY <1>1, <1>2, <2>1 DEF Followed, Finds
  <2>3. Settled(d)
    BY <1>4, <2>1, <2>2 DEF Settled
  <2>4. Settled(d)'
    BY <1>4, <2>3, SettledStays
  <2> QED BY <1>5, <1>6, <2>1, <2>4
<1>10. CASE CommentOnItem(w)
  <2>1. \/ Refused(w)
        \/ Applied(w) /\ \E x : x.by = Evt(w).comment /\ PostItemComment(x)
    BY <1>10 DEF CommentOnItem
  <2>2. ASSUME NEW x, x.by = Evt(w).comment, PostItemComment(x)
        PROVE  Settled(d)'
    <3>1. itemComments \in Seq(ItemComment) /\ Evt(w).kind = "issue_comment"
      BY <1>10, Typed DEF StoreTypes, CommentOnItem, At
    <3>2. Len(itemComments) + 1 \in DOMAIN itemComments' /\ itemComments'[Len(itemComments) + 1] = x
      BY <2>2, <3>1, Added DEF PostItemComment
    <3> QED BY <1>4, <2>2, <3>1, <3>2 DEF Settled
  <2> QED BY <1>5, <1>6, <2>1, <2>2
<1>11. CASE CommentOnIssue(w)
  <2>1. Applied(w) /\ \E x : x.by = Evt(w).comment /\ PostIssueComment(x)
    BY <1>11 DEF CommentOnIssue
  <2>2. ASSUME NEW x, x.by = Evt(w).comment, PostIssueComment(x)
        PROVE  Settled(d)'
    <3>1. issueComments \in Seq(IssueComment) /\ Evt(w).kind = "item_comment"
      BY <1>11, Typed DEF StoreTypes, CommentOnIssue, At
    <3>2. Len(issueComments) + 1 \in DOMAIN issueComments' /\ issueComments'[Len(issueComments) + 1] = x
      BY <2>2, <3>1, Added DEF PostIssueComment
    <3> QED BY <1>4, <2>2, <3>1, <3>2 DEF Settled
  <2> QED BY <1>6, <2>1, <2>2
<1>12. CASE UpdateText(w) \/ UpdateState(w) \/ MoveForPull(w) \/ CreateIssue(w)
  <2>1. Evt(w).kind \notin {"opened", "issue_comment", "item_comment"}
    BY <1>12 DEF UpdateText, UpdateState, MoveForPull, CreateIssue, At, PullKinds
  <2> QED BY <1>7, <2>1
<1> QED BY <1>8, <1>9, <1>10, <1>11, <1>12 DEF Write

\* An error is answered to a sender that repeats the delivery.
LEMMA AnswerFollows ==
  ASSUME Traceable, Traceable', Followed, Steady, Retries, NEW w \in Workers, Answer(w)
  PROVE  Followed'
<1>1. /\ worker[w].pc = "answer" /\ worker'[w] = Idle /\ due \subseteq due' /\ UNCHANGED hooks
      /\ \A v \in Workers \ {w} : worker'[v] = worker[v]
      /\ worker[w].outcome = "failed" /\ worker[w].heard => worker[w].hook \in due'
  BY Typed DEF Answer, Requeued
<1>2. ASSUME NEW d \in DOMAIN hooks, Pending(d)
      PROVE  Pending(d)' \/ Settled(d)'
  <2>1. ASSUME worker[w].hook = d, worker[w].heard, Promising(worker[w])
        PROVE  Pending(d)'
    BY <1>1, <2>1 DEF Promising, Pending
  <2> QED BY <1>1, <1>2, <2>1, OthersStayPending
<1>3. ASSUME NEW v \in Workers, Finds(worker[v])'
      PROVE  Finds(worker[v]) /\ worker'[v].hook = worker[v].hook
  <2>1. v # w
    BY <1>1, <1>3 DEF Finds, Idle
  <2> QED BY <1>1, <1>3, <2>1 DEF Finds
<1> QED BY <1>1, <1>2, <1>3, FollowedStays

LEMMA CallFailsFollows ==
  ASSUME Traceable, Traceable', Followed, Steady, NEW w \in Workers, CallFails(w)
  PROVE  Followed'
<1>1. worker[w].pc # "idle" /\ Answering(w, "failed") /\ UNCHANGED <<due, hooks>>
  BY DEF CallFails
<1>2. PICK h : h = worker[w].hook
  OBVIOUS
<1> QED BY <1>1, <1>2, AnswersFollow

\* A sender that gives up repeats the delivery.
LEMMA TimeoutFollows ==
  ASSUME Traceable, Traceable', Followed, Steady, Retries, NEW w \in Workers, SenderTimesOut(w)
  PROVE  Followed'
<1>1. /\ worker' = [worker EXCEPT ![w].heard = FALSE]
      /\ due \subseteq due' /\ worker[w].hook \in due' /\ UNCHANGED hooks
  BY DEF SenderTimesOut, Requeued
<1>2. \A v \in Workers : /\ worker'[v].pc = worker[v].pc /\ worker'[v].hook = worker[v].hook
                         /\ worker'[v].item = worker[v].item
                         /\ v # w => worker'[v] = worker[v]
  BY <1>1, Typed DEF Worker
<1>3. ASSUME NEW d \in DOMAIN hooks, Pending(d)
      PROVE  Pending(d)' \/ Settled(d)'
  <2>1. worker[w].hook = d => Pending(d)'
    BY <1>1 DEF Pending
  <2>2. d \in due => d \in due'
    BY <1>1
  <2> QED BY <1>2, <1>3, <2>1, <2>2, OthersStayPending
<1>4. ASSUME NEW v \in Workers, Finds(worker[v])'
      PROVE  Finds(worker[v]) /\ worker'[v].hook = worker[v].hook
  BY <1>1, <1>2, <1>4 DEF Finds
<1> QED BY <1>1, <1>3, <1>4, FollowedStays

\* So does one whose connection dies with the process.
LEMMA RestartFollows ==
  ASSUME Traceable, Traceable', Followed, Steady, Retries, Restart
  PROVE  Followed'
<1>1. /\ due \subseteq due' /\ UNCHANGED hooks
      /\ \A w \in Workers : worker'[w] = Idle /\ (worker[w].heard => worker[w].hook \in due')
  BY DEF Restart, Requeued
<1>2. \A d : Pending(d) => Pending(d)'
  BY <1>1 DEF Pending
<1>3. \A w \in Workers : ~Finds(worker[w])'
  BY <1>1 DEF Finds, Idle
<1> QED BY <1>1, <1>2, <1>3, FollowedStays

\* Nothing is lost at first, and no step loses anything.
LEMMA InitLosesNothing ==
  ASSUME Init
  PROVE  NothingLost
<1>1. /\ issues = <<>> /\ issueComments = <<>> /\ itemComments = <<>> /\ hooks = <<>>
      /\ \A w \in Workers : worker[w] = Idle
  BY DEF Init, TrackersInit
<1> QED BY <1>1 DEF NothingLost, Announced, Unmarked, Followed, Finds, Idle, IssueIds

LEMMA StepLosesNothing ==
  ASSUME Traceable, NothingLost, Ordered, Retries, KeepsLinks, KeepsItems, [Next]_vars
  PROVE  NothingLost'
<1>1. Steady /\ Grows /\ Traceable' /\ Calls
  BY StepSteady DEF Steady
<1>2. Announced /\ Unmarked /\ Followed
  BY DEF NothingLost
<1>3. Announced' /\ Unmarked'
  BY <1>1, <1>2, CallsAnnounce, CallsUnmarked
<1>4. Followed'
  <2>1. CASE UNCHANGED vars
    <3>1. \A d : Pending(d) => Pending(d)'
      BY <2>1 DEF vars, trackerVars, Pending, Promising
    <3>2. \A w \in Workers : Finds(worker[w])' => Finds(worker[w]) /\ worker'[w].hook = worker[w].hook
      BY <2>1 DEF vars, trackerVars, Finds
    <3>3. UNCHANGED hooks
      BY <2>1 DEF vars, trackerVars
    <3> QED BY <1>1, <1>2, <3>1, <3>2, <3>3, FollowedStays
  <2>2. CASE Users
    BY <1>1, <1>2, <2>2, UsersFollow
  <2>3. ASSUME NEW d \in DOMAIN hooks, Dismiss(d)
        PROVE  Followed'
    BY <1>1, <1>2, <2>3, DismissFollows
  <2>4. ASSUME NEW d \in DOMAIN hooks, NEW w \in Workers, Begin(w, d)
        PROVE  Followed'
    BY <1>1, <1>2, <2>4, BeginFollows
  <2>5. ASSUME NEW w \in Workers, Lookup(w)
        PROVE  Followed'
    BY <1>1, <1>2, <2>5, LookupFollows
  <2>6. ASSUME NEW w \in Workers, Write(w)
        PROVE  Followed'
    BY <1>1, <1>2, <2>6, WriteFollows
  <2>7. ASSUME NEW w \in Workers, Answer(w) \/ CallFails(w) \/ SenderTimesOut(w)
        PROVE  Followed'
    BY <1>1, <1>2, <2>7, AnswerFollows, CallFailsFollows, TimeoutFollows
  <2>8. CASE Restart
    BY <1>1, <1>2, <2>8, RestartFollows
  <2> QED BY <2>1, <2>2, <2>3, <2>4, <2>5, <2>6, <2>7, <2>8 DEF Next
<1> QED BY <1>3, <1>4 DEF NothingLost

\* Once nothing is pending all is settled, and what is announced was copied.
LEMMA NothingLostArrives ==
  ASSUME Traceable, NothingLost
  PROVE  NoCommentLost
<1> SUFFICES ASSUME Quiet
             PROVE  /\ \A c \in DOMAIN issueComments :
                         /\ issueComments[c].by = 0 /\ Mirrorable(issueComments[c].issue)
                         => \E k \in DOMAIN itemComments : itemComments[k].by = c
                    /\ \A c \in DOMAIN itemComments :
                         /\ itemComments[c].by = 0 /\ items[itemComments[c].item].ref # 0
                         => \E k \in DOMAIN issueComments : issueComments[k].by = c
  BY DEF NoCommentLost
<1>1. ASSUME NEW d \in DOMAIN hooks
      PROVE  Settled(d) /\ HookOK(hooks[d])
  <2>1. HookOK(hooks[d])
    BY Typed DEF StoresOK
  <2>2. \A w \in Workers : ~worker[w].heard
    BY DEF Traceable, HandlerOK, Quiet
  <2>3. ~Pending(d)
    BY <2>2 DEF Quiet, Pending
  <2> QED BY <2>1, <2>3 DEF NothingLost, Followed
<1>2. ASSUME NEW c \in DOMAIN issueComments, issueComments[c].by = 0,
             Mirrorable(issueComments[c].issue)
      PROVE  \E k \in DOMAIN itemComments : itemComments[k].by = c
  <2>1. PICK d \in DOMAIN hooks : hooks[d].kind = "issue_comment" /\ hooks[d].comment = c
    BY DEF NothingLost, Announced, CommentAnnounced
  <2>2. hooks[d].on = issueComments[c].issue
    BY <1>1, <2>1 DEF HookOK
  <2> QED BY <1>1, <1>2, <2>1, <2>2 DEF Settled
<1>3. ASSUME NEW c \in DOMAIN itemComments, itemComments[c].by = 0,
             items[itemComments[c].item].ref # 0
      PROVE  \E k \in DOMAIN issueComments : issueComments[k].by = c
  <2>1. PICK d \in DOMAIN hooks : hooks[d].kind = "item_comment" /\ hooks[d].comment = c
    BY DEF NothingLost, Announced, CommentAnnounced
  <2>2. hooks[d].on = itemComments[c].item
    BY <1>1, <2>1 DEF HookOK
  <2> QED BY <1>1, <1>3, <2>1, <2>2 DEF Settled
<1> QED BY <1>2, <1>3

\* NoCommentLost, for any number of handlers, any failures and any restarts, as
\* long as each side waits for the answer to a delivery before it sends the next
\* and repeats what was not acknowledged, the links stay, and nobody deletes a
\* work item: HandleForgeComment and HandlePlaneComment copy every comment of a
\* user on a mirrored thread, and no comment is handled before its issue is.
THEOREM CommentsArrive ==
  ASSUME Ordered, Retries, KeepsLinks, KeepsItems
  PROVE  Spec => []NoCommentLost
<1>1. Init => Traceable /\ NothingLost
  BY InitSound, InitLosesNothing
<1>2. Traceable /\ NothingLost /\ [Next]_vars => (Traceable /\ NothingLost)'
  BY NextSound, StepLosesNothing
<1>3. Traceable /\ NothingLost => NoCommentLost
  BY NothingLostArrives
<1> QED BY <1>1, <1>2, <1>3, PTL DEF Spec
-----------------------------------------------------------------------------
(***************************************************************************)
(* The copy comes to agree with the original.                              *)
(***************************************************************************)

\* Plane users move no items, and no link has pull requests move them.
KeepsStates ==
  /\ \A b \in Budgets : b["move"] = 0
  /\ \A cfg \in Configs : \A k \in DOMAIN cfg : \A act \in PullActions :
       cfg[k].prStateMap[act] = None

\* Webhooks are numbered as they are queued.
LEMMA HooksNumbered ==
  ASSUME Traceable, Traceable', Grows
  PROVE  /\ \A d \in DOMAIN hooks' : d \in Nat
         /\ \A d \in DOMAIN hooks', e \in DOMAIN hooks : d <= e => d \in DOMAIN hooks
         /\ \A d \in DOMAIN hooks : d \in Nat /\ d \in DOMAIN hooks' /\ hooks'[d] = hooks[d]
<1>1. hooks \in Seq(Hook)
  BY Typed DEF StoreTypes
<1>2. hooks' \in Seq(Hook)
  BY DEF Traceable, TypeOK, TrackersTypeOK
<1>3. /\ DOMAIN hooks = 1..Len(hooks) /\ Len(hooks) \in Nat
      /\ DOMAIN hooks' = 1..Len(hooks') /\ Len(hooks') \in Nat
  BY <1>1, <1>2, LenProperties
<1> QED BY <1>3 DEF Grows

\* Of a forge event, only what it says and the links decide whether it is acted on.
LEMMA ActedStays ==
  ASSUME UNCHANGED links, NEW h, h.kind \in ForgeKinds
  PROVE  Acted(h)' = Acted(h)
<1>1. \A r : LinkForRepo(r)' = LinkForRepo(r)
  BY DEF LinkForRepo
<1>2. \A k, kind : PRState(k, kind)' = PRState(k, kind)
  BY DEF PRState
<1>3. NeedsLookup(h)' = NeedsLookup(h)
  BY <1>1, <1>2 DEF NeedsLookup
<1>4. h.kind # "item_created"
  BY DEF ForgeKinds, IssueKinds, PullKinds
<1> QED BY <1>3, <1>4 DEF Acted, MirrorsItem, MarkerPresent

\* Most steps only move handlers on: they take nothing off the queue, put back only
\* what is in hand, and a handler without a sender leaves its delivery there.
Proceeds ==
  /\ due \subseteq due'
  /\ \A d \in DOMAIN hooks : d \in due' => d \in due \/ InHand(d)
  /\ \A w \in Workers : worker'[w].pc # "idle" =>
       /\ worker[w].pc # "idle" /\ worker'[w].hook = worker[w].hook
       /\ worker[w].heard => worker'[w].heard \/ worker[w].hook \in due'

LEMMA AnsweringProceeds ==
  ASSUME worker \in [Workers -> Worker], NEW w \in Workers, worker[w].pc # "idle",
         NEW outcome, Answering(w, outcome), due \subseteq due',
         \A d \in DOMAIN hooks : d \in due' => d \in due
  PROVE  Proceeds
<1>1. \A v \in Workers : /\ worker'[v].hook = worker[v].hook /\ worker'[v].heard = worker[v].heard
                         /\ v # w => worker'[v] = worker[v]
  BY DEF Answering, Worker
<1> QED BY <1>1 DEF Proceeds

LEMMA QueueNoneBack ==
  ASSUME Traceable, NEW h, Queue(h)
  PROVE  due \subseteq due' /\ \A d \in DOMAIN hooks : d \in due' => d \in due
BY QueueAdds

LEMMA UsersProceed ==
  ASSUME Traceable, Users
  PROVE  Proceeds
<1>1. \E h : Queue(h)
  BY DEF Users, UserStep, ForgeUserOpens, ForgeUserEdits, ForgeUserFlips, ForgeUserComments,
         ForgeUserTouchesComment, ForgeUserPulls, PlaneUserCreates, PlaneUserMoves,
         PlaneUserDeletes, PlaneUserComments, PlaneUserTouchesComment, PostIssue,
         PatchIssue, PostItem, PatchItem, PostIssueComment, PostItemComment
<1>2. UNCHANGED worker
  BY DEF Users
<1> QED BY <1>1, <1>2, QueueNoneBack DEF Proceeds

LEMMA WriteProceeds ==
  ASSUME Traceable, NEW w \in Workers, Write(w)
  PROVE  Proceeds
<1>1. worker[w].pc # "idle" /\ worker \in [Workers -> Worker]
  BY Typed DEF Write, CreateItem, Reconcile, UpdateText, UpdateState, MoveForPull, CommentOnItem,
         CommentOnIssue, CreateIssue, At
<1>2. CASE Refused(w)
  BY <1>1, <1>2, AnsweringProceeds DEF Refused, trackerVars
<1>3. ASSUME NEW h, Queue(h), Applied(w)
      PROVE  Proceeds
  <2>1. \E outcome : Answering(w, outcome)
    BY <1>3 DEF Applied
  <2> QED BY <1>1, <1>3, <2>1, QueueNoneBack, AnsweringProceeds
<1>4. ASSUME NEW x, Update(w, x)
      PROVE  Proceeds
  BY <1>2, <1>3, <1>4 DEF Update, PatchItem
<1>5. CASE CreateItem(w)
  BY <1>2, <1>3, <1>5 DEF CreateItem, PostItem
<1>6. CASE CommentOnItem(w)
  BY <1>2, <1>3, <1>6 DEF CommentOnItem, PostItemComment
<1>7. CASE CommentOnIssue(w)
  BY <1>3, <1>7 DEF CommentOnIssue, PostIssueComment
<1>8. CASE CreateIssue(w)
  BY <1>3, <1>8 DEF CreateIssue, PostIssue
<1>9. CASE Reconcile(w) \/ UpdateText(w) \/ UpdateState(w) \/ MoveForPull(w)
  BY <1>4, <1>9 DEF Reconcile, UpdateText, UpdateState, MoveForPull
<1> QED BY <1>5, <1>6, <1>7, <1>8, <1>9 DEF Write

LEMMA StepProceeds ==
  ASSUME Traceable, Retries, [Next]_vars,
         ~\E d \in DOMAIN hooks : Dismiss(d) \/ \E w \in Workers : Begin(w, d)
  PROVE  Proceeds
<1>1. worker \in [Workers -> Worker]
  BY Typed
<1>2. CASE UNCHANGED vars
  BY <1>2 DEF vars, trackerVars, Proceeds
<1>3. ASSUME NEW w \in Workers, Lookup(w)
      PROVE  Proceeds
  <2>1. worker[w].pc # "idle" /\ UNCHANGED due
    BY <1>3 DEF Lookup, LookupByRef, LookupBySequence, LookupParent, At, trackerVars
  <2>2. (\E t : To(w, "write", t)) \/ (\E outcome : Answering(w, outcome))
    BY <1>3 DEF Lookup, LookupByRef, LookupBySequence, LookupParent
  <2>3. ASSUME NEW t, To(w, "write", t)
        PROVE  Proceeds
    <3>1. \A v \in Workers : /\ worker'[v].hook = worker[v].hook /\ worker'[v].heard = worker[v].heard
                             /\ v # w => worker'[v] = worker[v]
      BY <1>1, <2>3 DEF To, Worker
    <3> QED BY <2>1, <3>1 DEF Proceeds
  <2> QED BY <1>1, <2>1, <2>2, <2>3, AnsweringProceeds
<1>4. ASSUME NEW w \in Workers, Answer(w)
      PROVE  Proceeds
  <2>1. /\ worker[w].pc = "answer" /\ worker'[w].pc = "idle"
        /\ \A v \in Workers : v # w => worker'[v] = worker[v]
        /\ due \subseteq due' /\ due' \subseteq due \cup {worker[w].hook}
    BY <1>1, <1>4 DEF Answer, Idle, Requeued
  <2> QED BY <2>1 DEF Proceeds, InHand
<1>5. ASSUME NEW w \in Workers, CallFails(w)
      PROVE  Proceeds
  BY <1>1, <1>5, AnsweringProceeds DEF CallFails
<1>6. ASSUME NEW w \in Workers, SenderTimesOut(w)
      PROVE  Proceeds
  <2>1. /\ worker[w].pc # "idle" /\ due' = due \cup {worker[w].hook}
        /\ \A v \in Workers : /\ worker'[v].pc = worker[v].pc /\ worker'[v].hook = worker[v].hook
                              /\ v # w => worker'[v] = worker[v]
    BY <1>1, <1>6 DEF SenderTimesOut, Requeued, Worker
  <2> QED BY <2>1 DEF Proceeds, InHand
<1>7. CASE Restart
  <2>1. /\ \A w \in Workers : worker'[w].pc = "idle"
        /\ due \subseteq due'
        /\ \A d \in due' : d \in due \/ \E w \in Workers : worker[w].heard /\ worker[w].hook = d
    BY <1>7 DEF Restart, Idle, Requeued
  <2>2. \A w \in Workers : worker[w].heard => worker[w].pc # "idle"
    BY DEF Traceable, HandlerOK
  <2> QED BY <2>1, <2>2 DEF Proceeds, InHand
<1> QED BY <1>2, <1>3, <1>4, <1>5, <1>6, <1>7, UsersProceed, WriteProceeds DEF Next

\* Of the forge's hooks, those before and after a step.
LEMMA SideStays ==
  ASSUME Grows, NEW d \in DOMAIN hooks
  PROVE  SideOf(d)' = SideOf(d)
<1>1. hooks'[d] = hooks[d]
  BY DEF Grows
<1> QED BY <1>1 DEF SideOf

LEMMA ProceedsInOrder ==
  ASSUME Traceable, Traceable', Steady, InOrder, Proceeds,
         \A d \in DOMAIN hooks' : d \in DOMAIN hooks \/ d \in due'
  PROVE  InOrder'
<1>0. Grows /\ UNCHANGED links
  BY DEF Steady
<1>1. ASSUME NEW d \in DOMAIN hooks', NEW e \in DOMAIN hooks',
             SideOf(d)' = "forge", SideOf(e)' = "forge", d < e, d \in due' \/ InHand(d)'
      PROVE  e \in due'
  <2>1. CASE e \notin DOMAIN hooks
    BY <2>1
  <2>2. CASE e \in DOMAIN hooks
    <3>1. d \in DOMAIN hooks
      BY <1>0, <1>1, <2>2, HooksNumbered
    <3>2. SideOf(d) = "forge" /\ SideOf(e) = "forge"
      BY <1>0, <1>1, <2>2, <3>1, SideStays
    <3>3. InHand(d)' => InHand(d)
      BY DEF InHand, Proceeds
    <3>4. d \in due \/ InHand(d)
      BY <1>1, <3>1, <3>3 DEF Proceeds
    <3> QED BY <1>1, <2>2, <3>1, <3>2, <3>4 DEF InOrder, Proceeds
  <2> QED BY <2>1, <2>2
<1>2. ASSUME NEW w \in Workers, worker'[w].pc # "idle", SideOf(worker[w].hook)' = "forge"
      PROVE  Acted(Evt(w))' /\ (worker'[w].heard \/ worker'[w].hook \in due')
  <2>1. /\ worker[w].pc # "idle" /\ worker'[w].hook = worker[w].hook
        /\ worker[w].heard => worker'[w].heard \/ worker[w].hook \in due'
    BY <1>2 DEF Proceeds
  <2>2. worker[w].hook \in DOMAIN hooks /\ Evt(w)' = Evt(w)
    BY <1>0, <2>1, Handling, SameEvent
  <2>3. PICK h : h = Evt(w)
    OBVIOUS
  <2>4. SideOf(worker[w].hook) = "forge" /\ h.kind \in ForgeKinds
    BY <1>2, <2>1, <2>2, <2>3 DEF SideOf, Evt
  <2>5. Acted(h) /\ (worker[w].heard \/ worker[w].hook \in due)
    BY <2>1, <2>3, <2>4 DEF InOrder
  <2>6. Acted(h)'
    BY <1>0, <2>4, <2>5, ActedStays
  <2>7. Acted(Evt(w))'
    BY <2>2, <2>3, <2>6
  <2> QED BY <2>1, <2>5, <2>7 DEF Proceeds
<1> QED BY <1>1, <1>2 DEF InOrder

LEMMA DismissInOrder ==
  ASSUME Traceable, Traceable', Steady, InOrder, Ordered, NEW d \in DOMAIN hooks, Dismiss(d)
  PROVE  InOrder'
<1>0. Grows /\ UNCHANGED <<links, hooks, worker>> /\ due' = due \ {d} /\ ~Acted(hooks[d])
      /\ Deliverable(d)
  BY DEF Steady, Dismiss
<1>1. ASSUME NEW c \in DOMAIN hooks, NEW e \in DOMAIN hooks,
             SideOf(c) = "forge", SideOf(e) = "forge", c < e, c \in due' \/ InHand(c)
      PROVE  e \in due'
  <2>1. e \in due
    BY <1>0, <1>1 DEF InOrder
  <2>2. e # d
    <3> SUFFICES ASSUME e = d PROVE FALSE
      OBVIOUS
    <3>1. c \in 1..(d - 1)
      <4>1. hooks \in Seq(Hook)
        BY Typed DEF StoreTypes
      <4>2. DOMAIN hooks = 1..Len(hooks) /\ Len(hooks) \in Nat
        BY <4>1, LenProperties
      <4> QED BY <1>1, <4>2
    <3>2. c \notin due /\ ~Busy(c)
      BY <1>0, <1>1, <3>1 DEF Deliverable
    <3>3. PICK w \in Workers : worker[w].pc # "idle" /\ worker[w].hook = c
      BY <1>0, <1>1, <3>2 DEF InHand
    <3> QED BY <1>1, <3>2, <3>3 DEF InOrder, Busy
  <2> QED BY <1>0, <2>1, <2>2
<1>2. ASSUME NEW w \in Workers, worker[w].pc # "idle", SideOf(worker[w].hook) = "forge"
      PROVE  Acted(Evt(w))' /\ (worker[w].heard \/ worker[w].hook \in due')
  <2>1. PICK h : h = Evt(w)
    OBVIOUS
  <2>2. h.kind \in ForgeKinds /\ Acted(h) /\ (worker[w].heard \/ worker[w].hook \in due)
    BY <1>2, <2>1 DEF SideOf, Evt, InOrder
  <2>3. Acted(h)'
    BY <1>0, <2>2, ActedStays
  <2>4. worker[w].hook # d
    BY <1>0, <2>1, <2>2 DEF Evt
  <2>5. Evt(w)' = h
    BY <1>0, <2>1 DEF Evt
  <2> QED BY <1>0, <2>2, <2>3, <2>4, <2>5
<1>3. \A c \in DOMAIN hooks : SideOf(c)' = SideOf(c) /\ InHand(c)' = InHand(c)
  BY <1>0 DEF SideOf, InHand
<1>4. ASSUME NEW w \in Workers, worker'[w].pc # "idle", SideOf(worker[w].hook)' = "forge"
      PROVE  Acted(Evt(w))' /\ (worker'[w].heard \/ worker'[w].hook \in due')
  BY <1>0, <1>2, <1>4 DEF SideOf
<1> QED BY <1>0, <1>1, <1>3, <1>4 DEF InOrder

LEMMA BeginInOrder ==
  ASSUME Traceable, Traceable', Steady, InOrder, Ordered,
         NEW w \in Workers, Workers = {w}, NEW d \in DOMAIN hooks, Begin(w, d)
  PROVE  InOrder'
<1>0. /\ Grows /\ UNCHANGED <<links, hooks>> /\ due' = due \ {d} /\ d \in due /\ Acted(hooks[d])
      /\ Deliverable(d) /\ worker[w].pc = "idle"
      /\ worker'[w].hook = d /\ worker'[w].heard
  BY Typed DEF Steady, Begin, Deliverable, Idle
<1>1. ASSUME NEW c \in DOMAIN hooks, NEW e \in DOMAIN hooks,
             SideOf(c) = "forge", SideOf(e) = "forge", c < e, c \in due' \/ InHand(c)'
      PROVE  e \in due'
  <2>1. InHand(c)' => c = d
    BY <1>0 DEF InHand
  <2>2. c \in due
    BY <1>0, <1>1, <2>1
  <2>3. e \in due
    BY <1>1, <2>2 DEF InOrder
  <2>4. e # d
    <3> SUFFICES ASSUME e = d PROVE FALSE
      OBVIOUS
    <3>1. c \in 1..(d - 1)
      <4>1. hooks \in Seq(Hook)
        BY Typed DEF StoreTypes
      <4>2. DOMAIN hooks = 1..Len(hooks) /\ Len(hooks) \in Nat
        BY <4>1, LenProperties
      <4> QED BY <1>1, <4>2
    <3> QED BY <1>0, <1>1, <2>2, <3>1 DEF Deliverable
  <2> QED BY <1>0, <2>3, <2>4
<1>2. ASSUME SideOf(worker[w].hook)' = "forge"
      PROVE  Acted(Evt(w))'
  <2>1. PICK h : h = hooks[d]
    OBVIOUS
  <2>2. h.kind \in ForgeKinds
    BY <1>0, <1>2, <2>1 DEF SideOf
  <2>3. Acted(h)'
    BY <1>0, <2>1, <2>2, ActedStays
  <2>4. Evt(w)' = h
    BY <1>0, <2>1 DEF Evt
  <2> QED BY <2>3, <2>4
<1>3. \A c \in DOMAIN hooks : SideOf(c)' = SideOf(c)
  BY <1>0 DEF SideOf
<1>4. \A v \in Workers : v = w
  OBVIOUS
<1> QED BY <1>0, <1>1, <1>2, <1>3, <1>4 DEF InOrder

LEMMA StepInOrder ==
  ASSUME Traceable, Traceable', Steady, Calls, InOrder, Ordered, Retries,
         NEW w, Workers = {w}, [Next]_vars
  PROVE  InOrder'
<1>1. CASE \E d \in DOMAIN hooks : Dismiss(d)
  BY <1>1, DismissInOrder
<1>2. CASE \E d \in DOMAIN hooks : \E v \in Workers : Begin(v, d)
  BY <1>2, BeginInOrder
<1>3. CASE ~\E d \in DOMAIN hooks : Dismiss(d) \/ \E v \in Workers : Begin(v, d)
  BY <1>3, StepProceeds, CallsQueue, ProceedsInOrder
<1> QED BY <1>1, <1>2, <1>3
-----------------------------------------------------------------------------
\* The items of an issue, and that they stay its items.
LEMMA CopiesMeans ==
  ASSUME NEW n, NEW t \in Copies(n)
  PROVE  /\ t \in ItemIds /\ items[t].live /\ items[t].ref = n
         /\ \E k \in LinkForRepo(issues[n].repo) :
              items[t].project = links[k].project /\ items[t].repo = links[k].repo
BY DEF Copies, WithRef, ItemIds

LEMMA CopiesAre ==
  ASSUME NEW n, NEW t \in ItemIds, items[t].live, items[t].ref = n,
         NEW k \in LinkForRepo(issues[n].repo),
         items[t].project = links[k].project, items[t].repo = links[k].repo
  PROVE  t \in Copies(n)
BY DEF Copies, WithRef, ItemIds

LEMMA CopiesStay ==
  ASSUME Steady, NEW n \in IssueIds, NEW t \in ItemIds
  PROVE  /\ t \in Copies(n) => t \in Copies(n)'
         /\ t \in Copies(n)' /\ items[t].live => t \in Copies(n)
<1>1. /\ issues'[n].repo = issues[n].repo /\ UNCHANGED links /\ t \in ItemIds'
      /\ items'[t].ref = items[t].ref /\ items'[t].repo = items[t].repo
      /\ items'[t].project = items[t].project
      /\ items[t].live => items'[t].live
  BY DEF Steady, Grows, ItemsLive
<1>2. LinkForRepo(issues[n].repo)' = LinkForRepo(issues[n].repo)
  BY <1>1 DEF LinkForRepo
<1>3. ASSUME t \in Copies(n)
      PROVE  t \in Copies(n)'
  <2>1. PICK k \in LinkForRepo(issues[n].repo) :
          t \in WithRef(links[k].project, links[k].repo, n)
    BY <1>3 DEF Copies
  <2>2. t \in WithRef(links[k].project, links[k].repo, n)'
    BY <1>1, <2>1 DEF WithRef, ItemIds
  <2> QED BY <1>2, <2>2 DEF Copies
<1>4. ASSUME t \in Copies(n)', items[t].live
      PROVE  t \in Copies(n)
  <2>1. PICK k \in LinkForRepo(issues[n].repo)' :
          t \in WithRef(links[k].project, links[k].repo, n)'
    BY <1>4 DEF Copies
  <2>2. t \in WithRef(links[k].project, links[k].repo, n)
    BY <1>1, <1>4, <2>1 DEF WithRef, ItemIds
  <2> QED BY <1>2, <2>1, <2>2 DEF Copies
<1> QED BY <1>3, <1>4

\* With one item to an issue, an issue has one copy.
LEMMA OneCopy ==
  ASSUME Traceable, OneMirror, NEW n \in IssueIds, NEW t \in Copies(n), NEW u \in Copies(n)
  PROVE  t = u
<1>1. n # 0
  <2>1. issues \in Seq(Issue)
    BY Typed DEF StoreTypes
  <2> QED BY <2>1, LenProperties DEF IssueIds
<1>2. PICK k \in LinkForRepo(issues[n].repo) : items[t].project = links[k].project
  BY CopiesMeans
<1>3. PICK j \in LinkForRepo(issues[n].repo) : items[u].project = links[j].project
  BY CopiesMeans
<1>4. j = k
  BY OneLink, Typed
<1>5. /\ t \in ItemIds /\ items[t].live /\ items[t].ref = n
      /\ u \in ItemIds /\ items[u].live /\ items[u].ref = n
  BY CopiesMeans
<1> QED BY <1>1, <1>2, <1>3, <1>4, <1>5 DEF OneMirror

\* What a handler of an issue event leaves in an item of the issue.
Written(w, t) ==
  /\ Evt(w).kind \in IssueKinds /\ items'[t].ref = Evt(w).on
  /\ t \in ItemIds => items[t].live
  /\ IF Evt(w).kind \in TextKinds
       THEN items'[t].rev = Evt(w).rev
       ELSE t \in ItemIds /\ items'[t].rev = items[t].rev
  /\ IF Evt(w).kind \in StateKinds
       THEN \A k \in LinkForRepo(Evt(w).home) :
              LET want == links[k].stateMap[ForgeState(Evt(w).kind)]
              IN want # None => items'[t].state = want
       ELSE t \in ItemIds /\ items'[t].state = items[t].state

Others(t) == \A u \in ItemIds' \ {t} : u \in ItemIds /\ items'[u] = items[u]

\* What a write does to the items: nothing, or one is written.
Writes(w) ==
  \/ UNCHANGED items /\ (worker'[w].outcome = "failed" \/ Evt(w).kind \notin IssueKinds)
  \/ \E t \in Copies(Evt(w).on)' : Written(w, t) /\ Others(t)

LEMMA RefusedWrites ==
  ASSUME Traceable, NEW w \in Workers, Refused(w)
  PROVE  Writes(w)
BY Typed DEF Refused, Answering, Writes, trackerVars, Worker

LEMMA UpdateWrites ==
  ASSUME Traceable, Steady, FoundCopy, NEW w \in Workers, worker[w].pc = "write",
         Evt(w).kind \in IssueKinds, worker[w].item # 0, NEW x \in Item, Update(w, x),
         Evt(w).kind \in TextKinds => x.rev = Evt(w).rev,
         Evt(w).kind \notin TextKinds => x.rev = items[worker[w].item].rev,
         Evt(w).kind \in StateKinds =>
           \A k \in LinkForRepo(Evt(w).home) :
              LET want == links[k].stateMap[ForgeState(Evt(w).kind)]
              IN want # None => x.state = want,
         Evt(w).kind \notin StateKinds => x.state = items[worker[w].item].state
  PROVE  Writes(w)
<1>1. CASE Refused(w)
  BY <1>1, RefusedWrites
<1>2. CASE PatchItem(worker[w].item, x, "item_updated")
  <2>1. PICK t : t = worker[w].item
    OBVIOUS
  <2>2. t \in Copies(Evt(w).on) /\ Evt(w).on \in IssueIds
    BY <2>1, Handling DEF FoundCopy, HookOK
  <2>3. t \in ItemIds /\ items[t].live /\ items[t].ref = Evt(w).on
    BY <2>2, CopiesMeans
  <2>4. PICK n : n = Evt(w).on
    OBVIOUS
  <2>5. t \in Copies(n)'
    BY <2>2, <2>3, <2>4, CopiesStay
  <2>6. Evt(w)' = Evt(w)
    <3>1. worker'[w].hook = worker[w].hook
      <4>1. \E outcome : Answering(w, outcome)
        BY DEF Update, Applied, Refused
      <4> QED BY <4>1, Typed DEF Answering, Worker
    <3> QED BY <3>1, SameEvent DEF Steady
  <2>7. t \in Copies(Evt(w).on)'
    BY <2>4, <2>5, <2>6 DEF Copies
  <2>8. items'[t] = x /\ \A u \in ItemIds' \ {t} : u \in ItemIds /\ items'[u] = items[u]
    BY <1>2, <2>1, <2>3 DEF PatchItem, ItemIds
  <2>9. items'[t].ref = Evt(w).on
    BY <2>3 DEF Steady, Grows
  <2>10. Written(w, t)
    BY <2>1, <2>3, <2>8, <2>9 DEF Written
  <2> QED BY <2>7, <2>8, <2>10 DEF Writes, Others
<1> QED BY <1>1, <1>2 DEF Update

LEMMA CreateWrites ==
  ASSUME Traceable, Traceable', Steady, NEW w \in Workers, CreateItem(w)
  PROVE  Writes(w)
<1>1. /\ Evt(w).kind = "opened" /\ Evt(w).on \in IssueIds /\ worker[w].pc = "write"
      /\ Evt(w).home = issues[Evt(w).on].repo
  BY Handling DEF CreateItem, At, HookOK, IssueKinds
<1>2. PICK k \in LinkForRepo(Evt(w).home) :
        \/ Refused(w)
        \/ /\ \E x : /\ x.project = links[k].project /\ x.repo = links[k].repo
                     /\ x.ref = Evt(w).on /\ x.live /\ x.rev = Evt(w).rev
                     /\ x.state = Mapped(links[k].stateMap["open"], DefaultState) /\ PostItem(x)
           /\ Applied(w)
  BY DEF CreateItem
<1>3. CASE Refused(w)
  BY <1>3, RefusedWrites
<1>4. ASSUME NEW x, x.project = links[k].project, x.repo = links[k].repo, x.ref = Evt(w).on, x.live,
             x.rev = Evt(w).rev, x.state = Mapped(links[k].stateMap["open"], DefaultState),
             PostItem(x), Applied(w)
      PROVE  Writes(w)
  <2>1. PICK t : t = Len(items) + 1
    OBVIOUS
  <2>2. /\ t \in ItemIds' /\ t \notin ItemIds /\ items'[t] = x
        /\ \A u \in ItemIds' \ {t} : u \in ItemIds /\ items'[u] = items[u]
    <3>1. items \in Seq(Item)
      BY Typed DEF StoreTypes
    <3> QED BY <1>4, <2>1, <3>1, Added DEF PostItem, ItemIds
  <2>3. PICK n : n = Evt(w).on
    OBVIOUS
  <2>4. Evt(w)' = Evt(w)
    <3>1. worker'[w].hook = worker[w].hook
      <4>1. \E outcome : Answering(w, outcome)
        BY <1>4 DEF Applied
      <4> QED BY <4>1, Typed DEF Answering, Worker
    <3> QED BY <1>1, <3>1, SameEvent DEF Steady
  <2>5. UNCHANGED <<issues, links>>
    BY <1>4 DEF PostItem, Steady
  <2>6. k \in LinkForRepo(issues[n].repo)'
    BY <1>1, <2>3, <2>5 DEF LinkForRepo
  <2>7. t \in WithRef(links[k].project, links[k].repo, n)'
    BY <1>4, <2>2, <2>3, <2>5 DEF WithRef, ItemIds
  <2>8. t \in Copies(n)'
    BY <2>6, <2>7 DEF Copies
  <2>9. t \in Copies(Evt(w).on)'
    BY <2>3, <2>4, <2>8 DEF Copies
  <2>10. \A j \in LinkForRepo(Evt(w).home) :
           LET want == links[j].stateMap[ForgeState(Evt(w).kind)]
           IN want # None => items'[t].state = want
    <3>1. \A j \in LinkForRepo(Evt(w).home) : j = k
      BY <1>2, OneLink, Typed
    <3> QED BY <1>1, <1>4, <2>2, <3>1 DEF Mapped, ForgeState
  <2>11. Written(w, t)
    BY <1>1, <1>4, <2>2, <2>10 DEF Written, IssueKinds, TextKinds, StateKinds
  <2> QED BY <2>2, <2>9, <2>11 DEF Writes, Others
<1> QED BY <1>2, <1>3, <1>4

\* No pull request moves an item, so no handler of one gets as far as writing.
LEMMA NoMoves ==
  ASSUME Traceable, InOrder, KeepsStates, NEW w \in Workers
  PROVE  ~MoveForPull(w)
<1> SUFFICES ASSUME MoveForPull(w) PROVE FALSE
  OBVIOUS
<1>1. worker[w].pc # "idle" /\ Evt(w).kind \in PullKinds
  BY DEF MoveForPull, At
<1>2. SideOf(worker[w].hook) = "forge"
  BY <1>1 DEF SideOf, Evt, ForgeKinds
<1>3. Acted(Evt(w))
  BY <1>1, <1>2 DEF InOrder
<1>4. PICK k \in LinkForRepo(Evt(w).home) : PRState(k, Evt(w).kind) # None
  BY <1>1, <1>3 DEF Acted, NeedsLookup, MirrorsItem, PullKinds, IssueKinds
<1>5. PRActionKey(Evt(w).kind) \in PullActions
  BY <1>4 DEF PRState, PRActionKey, PullActions
<1>6. links \in Configs /\ k \in DOMAIN links
  BY Typed DEF LinkForRepo
<1> QED BY <1>4, <1>5, <1>6 DEF PRState, KeepsStates

LEMMA WriteWrites ==
  ASSUME Traceable, Traceable', Steady, FoundCopy, InOrder, KeepsStates,
         NEW w \in Workers, Write(w)
  PROVE  Writes(w)
<1>1. worker[w].pc = "write"
  BY DEF Write, CreateItem, Reconcile, UpdateText, UpdateState, MoveForPull, CommentOnItem,
         CommentOnIssue, CreateIssue, At
<1>2. CASE CommentOnItem(w) \/ CommentOnIssue(w) \/ CreateIssue(w)
  <2>1. Evt(w).kind \notin IssueKinds
    BY <1>2 DEF CommentOnItem, CommentOnIssue, CreateIssue, At, IssueKinds
  <2>2. UNCHANGED items
    BY <1>2 DEF CommentOnItem, CommentOnIssue, CreateIssue, Refused, trackerVars, PostItemComment,
                PostIssueComment, PostIssue
  <2> QED BY <2>1, <2>2 DEF Writes
<1>3. ASSUME Reconcile(w) \/ UpdateText(w) \/ UpdateState(w)
      PROVE  /\ worker[w].item # 0 /\ worker[w].item \in ItemIds /\ items[worker[w].item] \in Item
             /\ Evt(w).kind \in IssueKinds /\ Evt(w) \in Hook /\ Evt(w).rev \in Nat
             /\ links \in Configs
  <2>1. worker[w].item # 0 /\ Evt(w).kind \in IssueKinds
    <3>1. Evt(w).kind \in IssueKinds
      BY <1>3 DEF Reconcile, UpdateText, UpdateState, At, IssueKinds
    <3>2. CASE Reconcile(w)
      BY <3>1, <3>2 DEF Reconcile
    <3>3. CASE UpdateText(w) \/ UpdateState(w)
      <4>1. Evt(w).kind \notin {"opened", "item_created"}
        BY <3>3 DEF UpdateText, UpdateState, At
      <4> QED BY <1>1, <3>1, <4>1, Handling DEF HandlerOK, Evt
    <3> QED BY <1>3, <3>2, <3>1, <3>3
  <2>2. Evt(w) \in Hook
    BY <1>1, Handling
  <2> QED BY <1>1, <2>1, <2>2, FoundItem, Typed DEF Hook
<1> DEFINE item == items[worker[w].item]
<1>4. CASE Reconcile(w)
  <2>1. PICK k \in LinkForRepo(Evt(w).home) :
          Update(w, [item EXCEPT !.rev = Evt(w).rev,
                                 !.state = Mapped(links[k].stateMap["open"], item.state)])
    BY <1>4 DEF Reconcile
  <2>2. PICK x : x = [item EXCEPT !.rev = Evt(w).rev,
                                  !.state = Mapped(links[k].stateMap["open"], item.state)]
    OBVIOUS
  <2>3. links[k].stateMap["open"] \in PlaneStates \cup {None}
    <3>1. links[k] \in Link
      BY <1>3, <1>4, <2>1, RepoLink
    <3> QED BY <3>1 DEF Link, ForgeStates
  <2>4. /\ x \in Item /\ x.rev = Evt(w).rev
        /\ x.state = Mapped(links[k].stateMap["open"], item.state)
    BY <1>3, <1>4, <2>2, <2>3, MappedState DEF Item
  <2>5. Evt(w).kind = "opened"
    BY <1>4 DEF Reconcile, At
  <2>6. \A j \in LinkForRepo(Evt(w).home) :
           LET want == links[j].stateMap[ForgeState(Evt(w).kind)]
           IN want # None => x.state = want
    <3>1. \A j \in LinkForRepo(Evt(w).home) : j = k
      BY <1>3, <1>4, <2>1, OneLink
    <3> QED BY <2>4, <2>5, <3>1 DEF Mapped, ForgeState
  <2> QED BY <1>1, <1>3, <1>4, <2>1, <2>2, <2>4, <2>5, <2>6, UpdateWrites DEF TextKinds, StateKinds
<1>5. CASE UpdateText(w)
  <2>1. PICK x : x = [item EXCEPT !.rev = Evt(w).rev] /\ Update(w, x)
    BY <1>5 DEF UpdateText
  <2>2. x \in Item /\ x.rev = Evt(w).rev /\ x.state = item.state
    BY <1>3, <1>5, <2>1 DEF Item
  <2>3. Evt(w).kind = "edited"
    BY <1>5 DEF UpdateText, At
  <2> QED BY <1>1, <1>3, <1>5, <2>1, <2>2, <2>3, UpdateWrites DEF TextKinds, StateKinds
<1>6. CASE UpdateState(w)
  <2>1. PICK k \in LinkForRepo(Evt(w).home) :
          Update(w, [item EXCEPT
                       !.state = Mapped(links[k].stateMap[ForgeState(Evt(w).kind)], item.state)])
    BY <1>6 DEF UpdateState
  <2>2. PICK x : x = [item EXCEPT
                        !.state = Mapped(links[k].stateMap[ForgeState(Evt(w).kind)], item.state)]
    OBVIOUS
  <2>3. links[k].stateMap[ForgeState(Evt(w).kind)] \in PlaneStates \cup {None}
    <3>1. links[k] \in Link
      BY <1>3, <1>6, <2>1, RepoLink
    <3> QED BY <3>1 DEF Link, ForgeStates, ForgeState
  <2>4. /\ x \in Item /\ x.rev = item.rev
        /\ x.state = Mapped(links[k].stateMap[ForgeState(Evt(w).kind)], item.state)
    BY <1>3, <1>6, <2>2, <2>3, MappedState DEF Item
  <2>5. Evt(w).kind \in {"closed", "reopened"}
    BY <1>6 DEF UpdateState, At
  <2>6. \A j \in LinkForRepo(Evt(w).home) :
           LET want == links[j].stateMap[ForgeState(Evt(w).kind)]
           IN want # None => x.state = want
    <3>1. \A j \in LinkForRepo(Evt(w).home) : j = k
      BY <1>3, <1>6, <2>1, OneLink
    <3> QED BY <2>4, <3>1 DEF Mapped
  <2> QED BY <1>1, <1>3, <1>6, <2>1, <2>2, <2>4, <2>5, <2>6, UpdateWrites DEF TextKinds, StateKinds
<1> QED BY <1>2, <1>4, <1>5, <1>6, NoMoves, CreateWrites DEF Write
-----------------------------------------------------------------------------
\* An item that no handler of an issue event has to do with.
Left(t) == IF t \in ItemIds THEN items'[t] = items[t] ELSE items'[t].ref = 0

LEMMA UsersLeaveItems ==
  ASSUME Traceable, KeepsItems, KeepsStates, Users
  PROVE  \A t \in ItemIds' : Left(t)
<1>1. spent \in [Outside -> Nat] /\ "move" \in Outside /\ "delete" \in Outside
  BY Typed DEF Outside
<1>2. ~Spend("move") /\ ~Spend("delete")
  BY <1>1, Affordable DEF KeepsStates, KeepsItems
<1>3. ASSUME NEW p, PlaneUserCreates(p)
      PROVE  \A t \in ItemIds' : Left(t)
  <2>1. PICK x : PostItem(x) /\ x.ref = 0
    BY <1>3 DEF PlaneUserCreates
  <2>2. items \in Seq(Item)
    BY Typed DEF StoreTypes
  <2>3. items' = Append(items, x)
    BY <2>1 DEF PostItem
  <2> QED BY <2>1, <2>2, <2>3, Added DEF Left, ItemIds
<1>4. CASE \A p \in Projects : ~PlaneUserCreates(p)
  <2>1. UNCHANGED items
    BY <1>2, <1>4 DEF Users, UserStep, ForgeUserOpens, ForgeUserEdits, ForgeUserFlips, ForgeUserComments,
         ForgeUserTouchesComment, ForgeUserPulls, PlaneUserMoves,
         PlaneUserDeletes, PlaneUserComments, PlaneUserTouchesComment, PostIssue,
         PatchIssue, PostIssueComment, PostItemComment
  <2> QED BY <2>1 DEF Left, ItemIds
<1> QED BY <1>3, <1>4

\* Only handlers of issue events write to the items of issues.
LEMMA StepItems ==
  ASSUME Traceable, Traceable', Steady, FoundCopy, InOrder, KeepsItems, KeepsStates, [Next]_vars,
         NEW t \in ItemIds'
  PROVE  Left(t) \/ \E w \in Workers : Write(w) /\ Written(w, t)
<1>1. CASE Users
  BY <1>1, UsersLeaveItems
<1>2. ASSUME NEW w \in Workers, Write(w)
      PROVE  Left(t) \/ Written(w, t)
  <2>1. Writes(w)
    BY <1>2, WriteWrites
  <2> QED BY <2>1 DEF Writes, Others, Left, ItemIds
<1>3. CASE ~Users /\ ~\E w \in Workers : Write(w)
  <2>1. UNCHANGED items
    BY <1>3 DEF Next, vars, trackerVars, Dismiss, Begin, Lookup, LookupByRef, LookupBySequence,
                LookupParent, Answer, CallFails, SenderTimesOut, Restart
  <2> QED BY <2>1 DEF Left, ItemIds
<1> QED BY <1>1, <1>2, <1>3

\* What a step tells of the issues: nothing, or that one is new or has changed.
NoNews ==
  UNCHANGED issues /\ \A d \in DOMAIN hooks' : d \in DOMAIN hooks \/ hooks'[d].kind \notin IssueKinds

News(d) ==
  LET h == hooks'[d]
      n == h.on
  IN /\ DOMAIN hooks' = DOMAIN hooks \cup {d} /\ d \notin DOMAIN hooks
     /\ \A e \in DOMAIN hooks : e < d
     /\ h.kind \in IssueKinds /\ n \in IssueIds' /\ h.rev = issues'[n].rev
     /\ \A m \in IssueIds' \ {n} : m \in IssueIds /\ issues'[m] = issues[m]
     /\ IF h.kind = "opened"
          THEN n \notin IssueIds /\ issues'[n].open
          ELSE n \in IssueIds
     /\ h.kind = "edited" =>
          issues'[n].open = issues[n].open /\ issues'[n].rev = issues[n].rev + 1
     /\ h.kind \in {"closed", "reopened"} =>
          issues'[n].open = (h.kind = "reopened") /\ issues'[n].rev = issues[n].rev

LEMMA QueueNoNews ==
  ASSUME Traceable, NEW h, Queue(h), h.kind \notin IssueKinds, UNCHANGED issues
  PROVE  NoNews
BY QueueAdds DEF NoNews

LEMMA CallsNews ==
  ASSUME Traceable, Traceable', Calls
  PROVE  NoNews \/ \E d \in DOMAIN hooks' : News(d)
<1>1. CASE UNCHANGED <<issues, hooks>>
  BY <1>1 DEF NoNews
<1>2. ASSUME NEW h, Queue(h), h.kind \notin IssueKinds, UNCHANGED issues
      PROVE  NoNews
  BY <1>2, QueueNoNews
<1>3. ASSUME NEW x, PostIssue(x), x.open
      PROVE  \E d \in DOMAIN hooks' : News(d)
  <2>1. PICK n : n = Len(issues) + 1
    OBVIOUS
  <2>2. /\ DOMAIN issues' = DOMAIN issues \cup {n} /\ n \notin DOMAIN issues
        /\ \A i \in DOMAIN issues : issues'[i] = issues[i]
        /\ issues'[n] = x
    <3>1. issues \in Seq(Issue)
      BY Typed DEF StoreTypes
    <3> QED BY <1>3, <2>1, <3>1, Added DEF PostIssue
  <2>3. PICK h : h = IssueHook("opened", n, x) /\ Queue(h)
    BY <1>3, <2>1 DEF PostIssue
  <2>4. h.kind = "opened" /\ h.on = n /\ h.rev = x.rev
    BY <2>3 DEF IssueHook
  <2>5. PICK d : d = Len(hooks) + 1
    OBVIOUS
  <2>6. /\ DOMAIN hooks' = DOMAIN hooks \cup {d} /\ hooks'[d] = h
        /\ \A e \in DOMAIN hooks : e < d
    BY <2>3, <2>5, QueueAdds
  <2>7. d \notin DOMAIN hooks
    <3>1. hooks \in Seq(Hook)
      BY Typed DEF StoreTypes
    <3> QED BY <2>5, <3>1, LenProperties
  <2> QED BY <1>3, <2>2, <2>4, <2>6, <2>7 DEF News, IssueIds, IssueKinds
<1>4. ASSUME NEW n \in IssueIds, NEW x, NEW kind \in {"edited", "closed", "reopened"},
             PatchIssue(n, x, kind),
             x.rev = IF kind = "edited" THEN issues[n].rev + 1 ELSE issues[n].rev,
             x.open = IF kind = "edited" THEN issues[n].open ELSE kind = "reopened"
      PROVE  \E d \in DOMAIN hooks' : News(d)
  <2>1. /\ DOMAIN issues' = DOMAIN issues /\ issues'[n] = x
        /\ \A m \in DOMAIN issues : m # n => issues'[m] = issues[m]
    BY <1>4 DEF PatchIssue, IssueIds
  <2>2. PICK h : h = IssueHook(kind, n, x) /\ Queue(h)
    BY <1>4 DEF PatchIssue
  <2>3. h.kind = kind /\ h.on = n /\ h.rev = x.rev
    BY <2>2 DEF IssueHook
  <2>4. PICK d : d = Len(hooks) + 1
    OBVIOUS
  <2>5. /\ DOMAIN hooks' = DOMAIN hooks \cup {d} /\ hooks'[d] = h
        /\ \A e \in DOMAIN hooks : e < d
    BY <2>2, <2>4, QueueAdds
  <2>6. d \notin DOMAIN hooks
    <3>1. hooks \in Seq(Hook)
      BY Typed DEF StoreTypes
    <3> QED BY <2>4, <3>1, LenProperties
  <2> QED BY <1>4, <2>1, <2>3, <2>5, <2>6 DEF News, IssueIds, IssueKinds
<1>5. ASSUME NEW x, PostIssueComment(x)
      PROVE  NoNews
  <2>1. PICK h : h.kind = "issue_comment" /\ Queue(h)
    BY <1>5 DEF PostIssueComment, IssueCommentHook
  <2> QED BY <1>2, <1>5, <2>1 DEF PostIssueComment, IssueKinds
<1>6. ASSUME NEW x, PostItemComment(x)
      PROVE  NoNews
  <2>1. PICK h : h.kind = "item_comment" /\ Queue(h)
    BY <1>6 DEF PostItemComment, ItemCommentHook
  <2> QED BY <1>2, <1>6, <2>1 DEF PostItemComment, IssueKinds
<1>7. ASSUME NEW x, PostItem(x)
      PROVE  NoNews
  <2>1. PICK h : h.kind = "item_created" /\ Queue(h)
    BY <1>7 DEF PostItem, ItemHook
  <2> QED BY <1>2, <1>7, <2>1 DEF PostItem, IssueKinds
<1>8. ASSUME NEW t, NEW x, NEW kind \in {"item_updated", "item_deleted"}, PatchItem(t, x, kind)
      PROVE  NoNews
  <2>1. PICK h : h.kind = kind /\ Queue(h)
    BY <1>8 DEF PatchItem, ItemHook
  <2> QED BY <1>2, <1>8, <2>1 DEF PatchItem, IssueKinds
<1> QED BY <1>1, <1>2, <1>3, <1>4, <1>5, <1>6, <1>7, <1>8 DEF Calls

\* Revisions are numbers, and references and issue events name issues.
Numbered ==
  /\ \A n \in IssueIds : issues[n].rev \in Nat /\ issues[n].open \in BOOLEAN
  /\ \A t \in ItemIds : items[t].rev \in Nat /\ (items[t].ref # 0 => items[t].ref \in IssueIds)
  /\ \A d \in DOMAIN hooks :
       /\ hooks[d].rev \in Nat
       /\ hooks[d].kind \in IssueKinds =>
            /\ hooks[d].on \in IssueIds
            /\ hooks[d].home = issues[hooks[d].on].repo

LEMMA Revisions == Traceable => Numbered
<1> SUFFICES ASSUME Traceable PROVE Numbered
  OBVIOUS
<1>1. \A d \in DOMAIN hooks : HookOK(hooks[d]) /\ hooks[d] \in Hook
  BY Typed, Element DEF StoresOK, StoreTypes
<1>2. \A n \in IssueIds : issues[n] \in Issue
  BY Typed, Element DEF IssueIds, StoreTypes
<1>3. \A t \in ItemIds : items[t] \in Item /\ ItemOK(items[t])
  BY Typed, Element DEF ItemIds, StoreTypes, StoresOK
<1> QED BY <1>1, <1>2, <1>3 DEF HookOK, Hook, Issue, Item, ItemOK, Numbered

LEMMA RevisionsNext == Traceable' => Numbered'
BY Revisions, PTL

LEMMA TextsGrow ==
  ASSUME Traceable, Traceable', Grows, NoNews \/ \E d \in DOMAIN hooks' : News(d),
         NEW n \in IssueIds
  PROVE  issues[n].rev <= issues'[n].rev
<1>1. issues[n].rev \in Nat /\ n \in IssueIds'
  BY Revisions DEF Grows, Numbered
<1>2. CASE NoNews
  BY <1>1, <1>2 DEF NoNews
<1>3. ASSUME NEW d, News(d)
      PROVE  issues[n].rev <= issues'[n].rev
  <2>1. CASE n # hooks'[d].on
    BY SMTT(30), <1>1, <1>3, <2>1 DEF News
  <2>2. CASE n = hooks'[d].on
    BY SMTT(30), <1>1, <1>3, <2>2 DEF News, IssueKinds
  <2> QED BY <2>1, <2>2
<1> QED BY <1>2, <1>3

\* Nothing is later than the issue is.
LEMMA StepVersioned ==
  ASSUME Traceable, Traceable', Steady, Calls, FoundCopy, InOrder, Versioned,
         KeepsItems, KeepsStates, [Next]_vars
  PROVE  Versioned'
<1>0. Grows /\ (NoNews \/ \E d \in DOMAIN hooks' : News(d))
  BY CallsNews DEF Steady
<1> DEFINE OfIssue(d) == hooks'[d].kind \in IssueKinds
<1>1. /\ \A n \in IssueIds' : issues'[n].rev \in Nat
      /\ \A t \in ItemIds' : items'[t].rev \in Nat /\ (items'[t].ref # 0 => items'[t].ref \in IssueIds')
      /\ \A d \in DOMAIN hooks' : hooks'[d].rev \in Nat /\ (OfIssue(d) => hooks'[d].on \in IssueIds')
  BY RevisionsNext DEF Numbered
<1>2. \A d \in DOMAIN hooks : d \in Nat /\ d \in DOMAIN hooks' /\ hooks'[d] = hooks[d]
  BY <1>0, HooksNumbered
<1>3. ASSUME NEW d \in DOMAIN hooks', OfIssue(d)
      PROVE  hooks'[d].rev <= issues'[hooks'[d].on].rev
  <2>1. CASE d \in DOMAIN hooks
    <3>1. PICK h : h = hooks[d]
      OBVIOUS
    <3>2. h.on \in IssueIds /\ h.rev <= issues[h.on].rev /\ hooks'[d] = h /\ h.rev \in Nat
      BY <1>2, <1>3, <2>1, <3>1, Revisions DEF Versioned, Numbered
    <3>3. issues[h.on].rev <= issues'[h.on].rev /\ issues[h.on].rev \in Nat
      BY <1>0, <3>2, TextsGrow, Revisions DEF Numbered
    <3>4. issues'[h.on].rev \in Nat
      BY <1>1, <1>3, <3>2
    <3> QED BY <3>2, <3>3, <3>4
  <2>2. CASE d \notin DOMAIN hooks
    <3>1. hooks'[d].rev = issues'[hooks'[d].on].rev
      BY <1>0, <1>3, <2>2 DEF NoNews, News
    <3> QED BY <1>1, <1>3, <3>1
  <2> QED BY <2>1, <2>2
<1>4. ASSUME NEW d \in DOMAIN hooks', NEW e \in DOMAIN hooks', OfIssue(d), OfIssue(e),
             hooks'[d].on = hooks'[e].on, d <= e
      PROVE  hooks'[d].rev <= hooks'[e].rev
  <2>1. CASE e \in DOMAIN hooks
    <3>1. d \in DOMAIN hooks
      BY <1>0, <1>4, <2>1, HooksNumbered
    <3> QED BY <1>2, <1>4, <2>1, <3>1 DEF Versioned
  <2>2. CASE e \notin DOMAIN hooks
    <3>1. hooks'[e].rev = issues'[hooks'[e].on].rev
      BY <1>0, <1>4, <2>2 DEF NoNews, News
    <3> QED BY <1>3, <1>4, <3>1
  <2> QED BY <2>1, <2>2
<1>5. ASSUME NEW t \in ItemIds', items'[t].ref # 0
      PROVE  items'[t].rev <= issues'[items'[t].ref].rev
  <2>1. PICK n : n = items'[t].ref
    OBVIOUS
  <2>2. n \in IssueIds' /\ items'[t].rev \in Nat /\ issues'[n].rev \in Nat
    BY <1>1, <1>5, <2>1
  <2>3. CASE t \in ItemIds /\ items'[t].rev = items[t].rev
    <3>1. n \in IssueIds /\ items[t].rev <= issues[n].rev
      BY <1>0, <1>5, <2>1, <2>3, Revisions DEF Versioned, Grows, Numbered
    <3>2. issues[n].rev <= issues'[n].rev /\ issues[n].rev \in Nat
      BY <1>0, <3>1, TextsGrow, Revisions DEF Numbered
    <3> QED BY <2>1, <2>2, <2>3, <3>1, <3>2
  <2>4. ASSUME NEW w \in Workers, Write(w), Written(w, t), Evt(w).kind \in TextKinds
        PROVE  items'[t].rev <= issues'[n].rev
    <3>1. PICK d : d = worker[w].hook
      OBVIOUS
    <3>2. worker[w].pc # "idle"
      BY <2>4, WriteOutcome
    <3>3. d \in DOMAIN hooks /\ hooks[d] = Evt(w)
      BY <3>1, <3>2, Handling DEF Evt
    <3>4. hooks'[d] = hooks[d] /\ d \in DOMAIN hooks' /\ OfIssue(d) /\ hooks'[d].on = n
          /\ items'[t].rev = hooks'[d].rev
      BY <1>2, <2>1, <2>4, <3>3 DEF Written
    <3> QED BY <1>3, <3>4
  <2>5. Left(t) \/ \E w \in Workers : Write(w) /\ Written(w, t)
    BY StepItems
  <2> QED BY <1>5, <2>1, <2>3, <2>4, <2>5 DEF Left, Written
<1>6. Versioned'
  BY <1>3, <1>4, <1>5 DEF Versioned
<1> QED BY <1>6

\* What is announced remains so, and each change is announced.
LEMMA TextStaysAnnounced ==
  ASSUME Traceable, Traceable', Grows, NoNews \/ \E d \in DOMAIN hooks' : News(d),
         \A n \in IssueIds : TextAnnounced(n)
  PROVE  (\A n \in IssueIds : TextAnnounced(n))'
<1> SUFFICES ASSUME NEW n \in IssueIds'
             PROVE  TextAnnounced(n)'
  OBVIOUS
<1>1. ASSUME n \in IssueIds, issues'[n].rev = issues[n].rev
      PROVE  TextAnnounced(n)'
  <2>1. PICK d \in DOMAIN hooks :
          hooks[d].kind \in TextKinds /\ hooks[d].on = n /\ hooks[d].rev = issues[n].rev
    BY <1>1 DEF TextAnnounced
  <2>2. d \in DOMAIN hooks' /\ hooks'[d] = hooks[d]
    BY HooksNumbered
  <2> QED BY <1>1, <2>1, <2>2 DEF TextAnnounced
<1>2. CASE NoNews
  BY <1>1, <1>2 DEF NoNews, IssueIds
<1>3. ASSUME NEW d \in DOMAIN hooks', News(d)
      PROVE  TextAnnounced(n)'
  <2>1. CASE n # hooks'[d].on \/ hooks'[d].kind \in {"closed", "reopened"}
    BY <1>1, <1>3, <2>1 DEF News
  <2>2. CASE n = hooks'[d].on /\ hooks'[d].kind \in TextKinds
    BY <1>3, <2>2 DEF News, TextAnnounced
  <2> QED BY <1>3, <2>1, <2>2 DEF News, IssueKinds, TextKinds
<1> QED BY <1>2, <1>3

LEMMA LastStays ==
  ASSUME Traceable, Traceable', Grows, NEW d \in DOMAIN hooks,
         \A e \in DOMAIN hooks' :
           hooks'[e].kind \in StateKinds /\ hooks'[e].on = hooks[d].on => e \in DOMAIN hooks
  PROVE  LastOfState(d)' = LastOfState(d)
<1>1. \A e \in DOMAIN hooks : e \in DOMAIN hooks' /\ hooks'[e] = hooks[e]
  BY HooksNumbered
<1>2. LastOfState(d) => LastOfState(d)'
  BY <1>1 DEF LastOfState
<1>3. LastOfState(d)' => LastOfState(d)
  BY <1>1 DEF LastOfState
<1>4. LastOfState(d) \in BOOLEAN /\ LastOfState(d)' \in BOOLEAN
  BY DEF LastOfState
<1> QED BY <1>2, <1>3, <1>4

LEMMA StateStaysAnnounced ==
  ASSUME Traceable, Traceable', Grows, NoNews \/ \E d \in DOMAIN hooks' : News(d),
         \A n \in IssueIds : StateAnnounced(n)
  PROVE  (\A n \in IssueIds : StateAnnounced(n))'
<1> SUFFICES ASSUME NEW n \in IssueIds'
             PROVE  StateAnnounced(n)'
  OBVIOUS
<1>1. ASSUME n \in IssueIds, issues'[n].open = issues[n].open,
             \A e \in DOMAIN hooks' :
               hooks'[e].kind \in StateKinds /\ hooks'[e].on = n => e \in DOMAIN hooks
      PROVE  StateAnnounced(n)'
  <2>1. PICK d \in DOMAIN hooks :
          /\ LastOfState(d) /\ hooks[d].on = n
          /\ ForgeState(hooks[d].kind) = IF issues[n].open THEN "open" ELSE "closed"
    BY <1>1 DEF StateAnnounced
  <2>2. d \in DOMAIN hooks' /\ hooks'[d] = hooks[d]
    BY HooksNumbered
  <2>3. LastOfState(d)'
    BY <1>1, <2>1, LastStays
  <2> QED BY <1>1, <2>1, <2>2, <2>3 DEF StateAnnounced
<1>2. CASE NoNews
  BY <1>1, <1>2 DEF NoNews, IssueIds, StateKinds, IssueKinds
<1>3. ASSUME NEW d \in DOMAIN hooks', News(d)
      PROVE  StateAnnounced(n)'
  <2>1. CASE n # hooks'[d].on
    BY <1>1, <1>3, <2>1 DEF News
  <2>2. CASE hooks'[d].kind = "edited"
    BY <1>1, <1>3, <2>2 DEF News, StateKinds
  <2>3. CASE n = hooks'[d].on /\ hooks'[d].kind \in StateKinds
    <3>1. LastOfState(d)'
      <4>1. DOMAIN hooks' = DOMAIN hooks \cup {d} /\ \A e \in DOMAIN hooks : e < d
        BY <1>3 DEF News
      <4>2. \A e \in DOMAIN hooks' : e \in Nat
        BY HooksNumbered
      <4>3. \A e \in DOMAIN hooks' : e <= d
        BY <4>1, <4>2
      <4> QED BY <2>3, <4>3 DEF LastOfState
    <3>2. (ForgeState(hooks[d].kind) = IF issues[n].open THEN "open" ELSE "closed")'
      BY <1>3, <2>3 DEF News, ForgeState, StateKinds
    <3> QED BY <2>3, <3>1, <3>2 DEF StateAnnounced
  <2> QED BY <1>3, <2>1, <2>2, <2>3 DEF News, IssueKinds, StateKinds
<1> QED BY <1>2, <1>3
-----------------------------------------------------------------------------
LEMMA StillPending ==
  ASSUME NEW w \in Workers, \A v \in Workers \ {w} : worker'[v] = worker[v],
         NEW d, d \in due => d \in due', Pending(d),
         worker[w].hook = d /\ worker[w].heard /\ Promising(worker[w]) =>
           worker'[w].hook = d /\ worker'[w].heard /\ Promising(worker'[w])
  PROVE  Pending(d)'
<1>1. CASE d \in due
  BY <1>1 DEF Pending
<1>2. ASSUME NEW v \in Workers, worker[v].hook = d, worker[v].heard, Promising(worker[v])
      PROVE  Pending(d)'
  <2>1. worker'[v].hook = d /\ worker'[v].heard /\ Promising(worker'[v])
    BY <1>2
  <2> QED BY <2>1, HandlerKeepsPending
<1> QED BY <1>1, <1>2 DEF Pending

\* A handler of an event is still pending with its answer, if that is an error.
LEMMA FailingIsPending ==
  ASSUME Traceable, NEW w \in Workers, NEW outcome, Answering(w, outcome),
         NEW d, d \in due => d \in due', Pending(d),
         worker[w].hook = d => outcome = "failed"
  PROVE  Pending(d)'
<1>1. /\ worker'[w].hook = worker[w].hook /\ worker'[w].heard = worker[w].heard
      /\ worker'[w].pc = "answer" /\ worker'[w].outcome = outcome
      /\ \A v \in Workers \ {w} : worker'[v] = worker[v]
  BY Typed DEF Answering, Worker
<1>2. worker[w].hook = d /\ worker[w].heard /\ Promising(worker[w]) =>
        worker'[w].hook = d /\ worker'[w].heard /\ Promising(worker'[w])
  BY <1>1 DEF Promising
<1> QED BY <1>1, <1>2, StillPending

\* An event of an issue without an item, and of no link, is given up for good reason.
LEMMA NoCopies ==
  ASSUME Traceable, Unmarked, NEW d \in DOMAIN hooks, hooks[d].kind \in IssueKinds,
         ~Acted(hooks[d])
  PROVE  Copies(hooks[d].on) = {}
<1>1. PICK h : h = hooks[d]
  OBVIOUS
<1>2. HookUnmarked(h) /\ h.on \in IssueIds /\ h.home = issues[h.on].repo /\ h.kind \in IssueKinds
  BY <1>1, Revisions DEF Unmarked, Numbered
<1>3. SUFFICES ASSUME NEW t \in Copies(h.on) PROVE FALSE
  BY <1>1
<1>4. /\ t \in ItemIds /\ items[t].ref = h.on
      /\ LinkForRepo(issues[h.on].repo) # {}
  BY <1>3, CopiesMeans
<1>5. h.on # 0
  <2>1. issues \in Seq(Issue)
    BY Typed DEF StoreTypes
  <2> QED BY <1>2, <2>1, LenProperties DEF IssueIds
<1>6. issues[h.on].by = 0
  BY <1>4, <1>5, Typed DEF StoresOK, ItemOK
<1>7. ~MarkerPresent(h)
  BY <1>2, <1>6 DEF HookUnmarked, MarkerPresent
<1>8. NeedsLookup(h)
  BY <1>2, <1>4 DEF NeedsLookup
<1> QED BY <1>1, <1>7, <1>8 DEF Acted

LEMMA CopiesByLink ==
  ASSUME Traceable, NEW n, NEW k \in LinkForRepo(issues[n].repo)
  PROVE  Copies(n) = WithRef(links[k].project, links[k].repo, n)
<1>1. \A j \in LinkForRepo(issues[n].repo) : j = k
  BY OneLink, Typed
<1> QED BY <1>1 DEF Copies

LEMMA SameCopies ==
  ASSUME UNCHANGED <<issues, items, links>>, NEW n
  PROVE  Copies(n)' = Copies(n)
BY DEF Copies, WithRef, LinkForRepo

LEMMA LookupReleases ==
  ASSUME Traceable, NEW w \in Workers, Lookup(w),
         NEW d \in DOMAIN hooks, hooks[d].kind \in IssueKinds, Pending(d), ~Pending(d)',
         NEW n, n = hooks[d].on
  PROVE  Copies(n)' = {}
<1>1. UNCHANGED <<issues, items, links, due>>
  BY DEF Lookup, LookupByRef, LookupBySequence, LookupParent, trackerVars
<1>2. ~\E t : To(w, "write", t)
  <2> SUFFICES ASSUME NEW t, To(w, "write", t) PROVE Pending(d)'
    OBVIOUS
  <2>1. /\ worker'[w].hook = worker[w].hook /\ worker'[w].heard = worker[w].heard
        /\ worker'[w].pc = "write" /\ \A v \in Workers \ {w} : worker'[v] = worker[v]
    BY Typed DEF To, Worker
  <2> QED BY <1>1, <2>1, StillPending DEF Promising
<1>3. worker[w].hook = d
  <2> SUFFICES ASSUME worker[w].hook # d PROVE Pending(d)'
    OBVIOUS
  <2>1. \E outcome : Answering(w, outcome)
    BY <1>2 DEF Lookup, LookupByRef, LookupBySequence, LookupParent
  <2> QED BY <1>1, <2>1, FailingIsPending
<1>4. n \in IssueIds /\ hooks[d].home = issues[n].repo
  BY Revisions DEF Numbered
<1>5. PICK k \in LinkForRepo(issues[n].repo) : WithRef(links[k].project, links[k].repo, n) = {}
  <2>1. LookupByRef(w)
    BY <1>3 DEF Lookup, LookupBySequence, LookupParent, At, Evt, IssueKinds, PullKinds
  <2> QED BY <1>2, <1>3, <1>4, <2>1 DEF LookupByRef, Evt
<1>6. Copies(n) = {}
  BY <1>5, CopiesByLink
<1> QED BY <1>1, <1>6, SameCopies

LEMMA WriteReleases ==
  ASSUME Traceable, Traceable', Steady, InOrder, FoundCopy, KeepsStates, NEW w \in Workers, Write(w),
         NEW d \in DOMAIN hooks, hooks[d].kind \in IssueKinds, Pending(d), ~Pending(d)',
         NEW n, n = hooks[d].on
  PROVE  worker[w].hook = d /\ \E t \in Copies(n)' : Written(w, t)
<1>1. /\ worker[w].pc = "write" /\ worker'[w].pc = "answer" /\ due \subseteq due'
      /\ \A v \in Workers \ {w} : worker'[v] = worker[v]
  BY WriteMoves, WriteQueues, WriteOutcome, Typed
<1>2. worker'[w].hook = worker[w].hook /\ (worker[w].heard => worker'[w].heard \/ worker[w].hook \in due')
  BY <1>1, WriteProceeds DEF Proceeds
<1>3. worker[w].hook = d
  BY <1>1, StillPending
<1>4. worker'[w].outcome # "failed"
  <2> SUFFICES ASSUME worker'[w].outcome = "failed" PROVE Pending(d)'
    OBVIOUS
  <2>1. CASE d \in due'
    BY <2>1 DEF Pending
  <2>2. CASE d \notin due'
    <3>1. worker[w].heard
      <4>1. d \notin due
        BY <1>1, <2>2
      <4>2. SideOf(d) = "forge"
        BY DEF SideOf, ForgeKinds
      <4> QED BY <1>1, <1>3, <4>1, <4>2 DEF InOrder
    <3>2. worker'[w].hook = d /\ worker'[w].heard /\ Promising(worker'[w])
      BY <1>1, <1>2, <1>3, <2>2, <3>1 DEF Promising
    <3> QED BY <3>2, HandlerKeepsPending
  <2> QED BY <2>1, <2>2
<1>5. Evt(w) = hooks[d] /\ Evt(w)' = Evt(w)
  BY <1>1, <1>2, <1>3, SameEvent DEF Evt, Steady
<1>6. PICK t \in Copies(Evt(w).on)' : Written(w, t)
  BY <1>4, <1>5, WriteWrites DEF Writes
<1>7. t \in Copies(n)'
  BY <1>5, <1>6 DEF Copies
<1> QED BY <1>3, <1>6, <1>7

\* An event stops being pending when its issue has no item to write to, or when a
\* handler of it wrote to the item.
LEMMA StepReleases ==
  ASSUME Traceable, Traceable', Steady, InOrder, FoundCopy, Unmarked, Retries, KeepsStates,
         [Next]_vars,
         NEW d \in DOMAIN hooks, hooks[d].kind \in IssueKinds, Pending(d), ~Pending(d)',
         NEW n, n = hooks[d].on
  PROVE  \/ Copies(n)' = {}
         \/ \E w \in Workers : /\ Write(w) /\ worker[w].hook = d
                               /\ \E t \in Copies(n)' : Written(w, t)
<1>1. ~UNCHANGED vars
  BY DEF vars, trackerVars, Pending, Promising
<1>2. ~Users
  BY UsersQueue DEF Users, Pending, Promising
<1>3. ASSUME NEW e \in DOMAIN hooks, Dismiss(e)
      PROVE  Copies(n)' = {}
  <2>1. /\ UNCHANGED <<issues, items, links, worker>> /\ due' = due \ {e}
        /\ ~Acted(hooks[e])
    BY <1>3 DEF Dismiss
  <2>2. e = d
    BY <2>1 DEF Pending, Promising
  <2> QED BY <2>1, <2>2, NoCopies, SameCopies
<1>4. ASSUME NEW e \in DOMAIN hooks, NEW w \in Workers, Begin(w, e)
      PROVE  Pending(d)'
  <2>1. /\ due' = due \ {e} /\ worker[w].pc = "idle"
        /\ worker'[w].hook = e /\ worker'[w].heard /\ worker'[w].pc \in {"lookup", "write"}
        /\ \A v \in Workers \ {w} : worker'[v] = worker[v]
    BY <1>4, Typed DEF Begin, Idle
  <2>2. CASE d = e
    BY <2>1, <2>2, HandlerKeepsPending DEF Promising
  <2>3. CASE d # e
    BY <2>1, <2>3, StillPending DEF Promising
  <2> QED BY <2>2, <2>3
<1>5. ASSUME NEW w \in Workers, Lookup(w)
      PROVE  Copies(n)' = {}
  BY <1>5, LookupReleases
<1>6. ASSUME NEW w \in Workers, Write(w)
      PROVE  worker[w].hook = d /\ \E t \in Copies(n)' : Written(w, t)
  BY <1>6, WriteReleases
<1>7. ASSUME NEW w \in Workers, Answer(w)
      PROVE  Pending(d)'
  <2>1. /\ worker[w].pc = "answer" /\ due \subseteq due'
        /\ worker[w].outcome = "failed" /\ worker[w].heard => worker[w].hook \in due'
        /\ \A v \in Workers \ {w} : worker'[v] = worker[v]
    BY <1>7, Typed DEF Answer, Requeued
  <2>2. CASE worker[w].hook = d /\ worker[w].heard /\ Promising(worker[w])
    BY <2>1, <2>2 DEF Promising, Pending
  <2> QED BY <2>1, <2>2, StillPending
<1>8. ASSUME NEW w \in Workers, CallFails(w)
      PROVE  Pending(d)'
  BY <1>8, FailingIsPending DEF CallFails
<1>9. ASSUME NEW w \in Workers, SenderTimesOut(w)
      PROVE  Pending(d)'
  <2>1. /\ due' = due \cup {worker[w].hook}
        /\ \A v \in Workers \ {w} : worker'[v] = worker[v]
    BY <1>9, Typed DEF SenderTimesOut, Requeued
  <2>2. CASE worker[w].hook = d
    BY <2>1, <2>2 DEF Pending
  <2> QED BY <2>1, <2>2, StillPending
<1>10. CASE Restart
  <2>1. due' = due \cup {worker[w].hook : w \in {v \in Workers : worker[v].heard}}
    BY <1>10 DEF Restart, Requeued
  <2> QED BY <2>1 DEF Pending
<1> QED BY <1>1, <1>2, <1>3, <1>4, <1>5, <1>6, <1>7, <1>8, <1>9, <1>10 DEF Next
-----------------------------------------------------------------------------
\* An issue has at most one copy.
Single == \A n \in IssueIds : \A t, u \in Copies(n) : t = u

LEMMA CopiesSingle == Traceable /\ OneMirror => Single
BY OneCopy DEF Single

LEMMA CopiesSingleNext == Traceable' /\ OneMirror' => Single'
BY CopiesSingle, PTL

\* What becomes of an item of an issue, seen from an event of the issue that is not
\* pending afterwards: it is written by the event's own handler or, if the event was
\* over before, by that of a later one; or it is left alone.
LEMMA CopyWritten ==
  ASSUME Traceable, Traceable', Steady, InOrder, FoundCopy, Unmarked, OneMirror',
         Retries, KeepsItems, KeepsStates, [Next]_vars,
         NEW d \in DOMAIN hooks, hooks[d].kind \in IssueKinds, ~Pending(d)',
         NEW n, n = hooks[d].on, NEW t \in Copies(n)'
  PROVE  \/ \E w \in Workers : Write(w) /\ Written(w, t) /\ worker[w].hook = d
         \/ /\ ~Pending(d)
            /\ t \in ItemIds => t \in Copies(n)
            /\ \/ t \in ItemIds /\ items'[t] = items[t]
               \/ \E w \in Workers : /\ Write(w) /\ Written(w, t)
                                     /\ Evt(w).on = n /\ d <= worker[w].hook
<1>0. Grows
  BY DEF Steady
<1>1. n \in IssueIds /\ n \in IssueIds' /\ n # 0
  <2>1. issues \in Seq(Issue)
    BY Typed DEF StoreTypes
  <2>2. n \in IssueIds
    BY Revisions DEF Numbered
  <2> QED BY <1>0, <2>1, <2>2, LenProperties DEF IssueIds, Grows
<1>2. t \in ItemIds' /\ items'[t].live /\ items'[t].ref = n
  BY DEF Copies, WithRef, ItemIds
<1>3. CASE Pending(d)
  <2>1. PICK w \in Workers : /\ Write(w) /\ worker[w].hook = d
                             /\ \E u \in Copies(n)' : Written(w, u)
    BY <1>3, StepReleases
  <2>2. \A u \in Copies(n)' : u = t
    BY <1>1, CopiesSingleNext DEF Single
  <2> QED BY <2>1, <2>2
<1>4. CASE ~Pending(d)
  <2>1. ASSUME t \in ItemIds, items[t].live
        PROVE  t \in Copies(n)
    BY <1>1, <2>1, CopiesStay
  <2>2. CASE Left(t)
    BY <1>1, <1>2, <1>4, <2>1, <2>2 DEF Left
  <2>3. ASSUME NEW w \in Workers, Write(w), Written(w, t)
        PROVE  Evt(w).on = n /\ d <= worker[w].hook
    <3>1. worker[w].pc # "idle" /\ Evt(w).on = n /\ Evt(w).kind \in IssueKinds
      BY <1>2, <2>3, WriteOutcome DEF Written
    <3>2. PICK e : e = worker[w].hook
      OBVIOUS
    <3>3. e \in DOMAIN hooks /\ SideOf(e) = "forge" /\ SideOf(d) = "forge" /\ InHand(e)
      BY <3>1, <3>2, Handling DEF SideOf, ForgeKinds, InHand, Evt
    <3>4. d \notin due
      BY <1>4 DEF Pending
    <3>5. ~(e < d)
      BY <3>3, <3>4 DEF InOrder
    <3>6. d \in Nat /\ e \in Nat
      BY <1>0, <3>3, HooksNumbered
    <3> QED BY <3>1, <3>2, <3>5, <3>6
  <2>4. CASE \E w \in Workers : Write(w) /\ Written(w, t)
    BY <1>4, <2>1, <2>3, <2>4 DEF Written
  <2> QED BY <1>2, <2>2, <2>4, StepItems
<1> QED BY <1>3, <1>4

LEMMA TextStaysTaken ==
  ASSUME Traceable, Traceable', Steady, InOrder, Versioned, FoundCopy, Unmarked, OneMirror', Taken,
         Retries, KeepsItems, KeepsStates, [Next]_vars,
         NEW d \in DOMAIN hooks, hooks[d].kind \in TextKinds, ~Pending(d)'
  PROVE  TextTaken(d)'
<1>1. PICK n : n = hooks[d].on
  OBVIOUS
<1>2. hooks'[d] = hooks[d] /\ hooks[d].kind \in IssueKinds
  BY HooksNumbered DEF Steady, TextKinds, IssueKinds
<1>3. ASSUME NEW t \in Copies(n)'
      PROVE  hooks[d].rev <= items'[t].rev
  <2>0. hooks[d].rev \in Nat
    BY Revisions DEF Numbered
  <2>1. ASSUME NEW w \in Workers, Write(w), Written(w, t), worker[w].hook = d
        PROVE  hooks[d].rev <= items'[t].rev
    <3>1. Evt(w) = hooks[d]
      BY <2>1 DEF Evt
    <3> QED BY <2>0, <2>1, <3>1 DEF Written
  <2>2. ASSUME ~Pending(d), t \in Copies(n), items'[t].rev = items[t].rev
        PROVE  hooks[d].rev <= items'[t].rev
    BY <1>1, <2>2 DEF Taken, TextTaken
  <2>3. ASSUME NEW w \in Workers, Write(w), Written(w, t), Evt(w).on = n, d <= worker[w].hook,
               Evt(w).kind \in TextKinds
        PROVE  hooks[d].rev <= items'[t].rev
    <3>1. worker[w].hook \in DOMAIN hooks
      BY <2>3, WriteOutcome, Handling
    <3>2. hooks[d].rev <= Evt(w).rev
      BY <1>1, <1>2, <2>3, <3>1 DEF Versioned, Evt, TextKinds, IssueKinds
    <3> QED BY <2>3, <3>2 DEF Written
  <2> QED BY <1>1, <1>2, <2>1, <2>2, <2>3, CopyWritten DEF Written
<1> QED BY <1>1, <1>2, <1>3 DEF TextTaken, Copies

LEMMA StateStaysTaken ==
  ASSUME Traceable, Traceable', Steady, InOrder, FoundCopy, Unmarked, OneMirror', Taken,
         Retries, KeepsItems, KeepsStates, [Next]_vars,
         NEW d \in DOMAIN hooks, LastOfState(d), ~Pending(d)'
  PROVE  StateTaken(d)'
<1>1. PICK n : n = hooks[d].on
  OBVIOUS
<1>2. hooks'[d] = hooks[d] /\ hooks[d].kind \in IssueKinds /\ hooks[d].kind \in StateKinds
  BY HooksNumbered DEF Steady, StateKinds, IssueKinds, LastOfState
<1>3. /\ n \in IssueIds /\ hooks[d].home = issues[n].repo /\ issues'[n].repo = issues[n].repo
      /\ UNCHANGED links /\ d \in Nat
  BY <1>1, <1>2, Revisions, HooksNumbered DEF Numbered, Steady, Grows
<1>4. ASSUME NEW t \in Copies(n)', NEW k \in LinkForRepo(hooks[d].home),
             links[k].stateMap[ForgeState(hooks[d].kind)] # None
      PROVE  items'[t].state = links[k].stateMap[ForgeState(hooks[d].kind)]
  <2>1. ASSUME NEW w \in Workers, Write(w), Written(w, t), worker[w].hook = d
        PROVE  items'[t].state = links[k].stateMap[ForgeState(hooks[d].kind)]
    <3>1. Evt(w) = hooks[d]
      BY <2>1 DEF Evt
    <3> QED BY <1>2, <1>4, <2>1, <3>1 DEF Written
  <2>2. ASSUME ~Pending(d), t \in Copies(n), items'[t].state = items[t].state
        PROVE  items'[t].state = links[k].stateMap[ForgeState(hooks[d].kind)]
    BY <1>1, <1>3, <1>4, <2>2 DEF Taken, StateTaken
  <2>3. ASSUME NEW w \in Workers, Write(w), Written(w, t), Evt(w).on = n, d <= worker[w].hook,
               Evt(w).kind \in StateKinds
        PROVE  worker[w].hook = d
    <3>1. worker[w].hook \in DOMAIN hooks
      BY <2>3, WriteOutcome, Handling
    <3>2. worker[w].hook <= d /\ worker[w].hook \in Nat
      BY <1>1, <2>3, <3>1, HooksNumbered DEF LastOfState, Evt, Steady
    <3> QED BY <1>3, <2>3, <3>2
  <2> QED BY <1>1, <1>2, <2>1, <2>2, <2>3, CopyWritten DEF Written
<1>5. LinkForRepo(issues[n].repo)' = LinkForRepo(hooks[d].home)
  BY <1>3 DEF LinkForRepo
<1> QED BY <1>1, <1>2, <1>3, <1>4, <1>5 DEF StateTaken, Copies
-----------------------------------------------------------------------------
LEMMA StepTaken ==
  ASSUME Traceable, Traceable', Steady, Calls, InOrder, Versioned, FoundCopy, Unmarked,
         OneMirror', Taken, Retries, KeepsItems, KeepsStates, [Next]_vars
  PROVE  Taken'
<1>0. Grows
  BY DEF Steady
<1>1. \A d \in DOMAIN hooks : hooks'[d] = hooks[d]
  BY <1>0, HooksNumbered
<1>2. ASSUME NEW d \in DOMAIN hooks', d \notin DOMAIN hooks
      PROVE  Pending(d)'
  BY <1>2, CallsQueue DEF Pending
<1>3. ASSUME NEW d \in DOMAIN hooks', hooks'[d].kind \in TextKinds
      PROVE  Pending(d)' \/ TextTaken(d)'
  BY <1>1, <1>2, <1>3, TextStaysTaken
<1>4. ASSUME NEW d \in DOMAIN hooks', LastOfState(d)'
      PROVE  Pending(d)' \/ StateTaken(d)'
  <2>1. CASE d \in DOMAIN hooks
    <3>1. LastOfState(d)
      <4>1. \A e \in DOMAIN hooks : e \in DOMAIN hooks' /\ hooks'[e] = hooks[e]
        BY <1>0, HooksNumbered
      <4> QED BY <1>4, <2>1, <4>1 DEF LastOfState
    <3> QED BY <2>1, <3>1, StateStaysTaken
  <2> QED BY <1>2, <2>1
<1> QED BY <1>3, <1>4 DEF Taken

\* What a look-up finds is the issue's.
LEMMA LookupFoundCopy ==
  ASSUME Traceable, NEW w \in Workers, Lookup(w), worker'[w].pc = "write", worker'[w].item # 0,
         Evt(w).kind \in IssueKinds
  PROVE  worker'[w].item \in Copies(Evt(w).on)
<1>1. LookupByRef(w)
  BY DEF Lookup, LookupBySequence, LookupParent, At, IssueKinds, PullKinds
<1>2. PICK k \in LinkForRepo(Evt(w).home) :
        \/ \E t \in WithRef(links[k].project, links[k].repo, Evt(w).on) : To(w, "write", t)
        \/ To(w, "write", 0)
        \/ Answering(w, "skipped")
  BY <1>1 DEF LookupByRef
<1>3. /\ ~Answering(w, "skipped") /\ ~To(w, "write", 0)
      /\ \A t : To(w, "write", t) => worker'[w].item = t
  BY Typed DEF Answering, To, Worker
<1>4. worker'[w].item \in WithRef(links[k].project, links[k].repo, Evt(w).on)
  BY <1>2, <1>3
<1>5. worker[w].pc # "idle"
  BY <1>1 DEF LookupByRef, At
<1>6. Evt(w).home = issues[Evt(w).on].repo
  BY <1>5, Handling DEF HookOK
<1> QED BY <1>2, <1>4, <1>6 DEF Copies

LEMMA StepFoundCopy ==
  ASSUME Traceable, Traceable', Steady, FoundCopy, [Next]_vars
  PROVE  FoundCopy'
<1> SUFFICES ASSUME NEW w \in Workers, worker'[w].pc = "write", Evt(w).kind' \in IssueKinds,
                    worker'[w].item # 0
             PROVE  worker'[w].item \in Copies(Evt(w).on)'
  BY DEF FoundCopy
<1>0. worker \in [Workers -> Worker]
  BY Typed
<1>1. ASSUME worker[w].pc # "idle", worker'[w].hook = worker[w].hook,
             Evt(w).kind \in IssueKinds => worker'[w].item \in Copies(Evt(w).on)
      PROVE  worker'[w].item \in Copies(Evt(w).on)'
  <2>1. PICK h : h = Evt(w)
    OBVIOUS
  <2>2. Evt(w)' = h
    BY <1>1, <2>1, SameEvent DEF Steady
  <2>3. h.on \in IssueIds /\ worker'[w].item \in Copies(h.on)
    BY <1>1, <2>1, <2>2, Handling DEF HookOK
  <2>4. worker'[w].item \in Copies(h.on)'
    BY <2>3, CopiesMeans, CopiesStay
  <2> QED BY <2>2, <2>4 DEF Copies
<1>2. CASE Lookup(w)
  <2>1. worker[w].pc # "idle" /\ worker'[w].hook = worker[w].hook
    BY ZenonT(30), <1>0, <1>2 DEF Lookup, LookupByRef, LookupBySequence, LookupParent, To, Answering, Worker, At
  <2> QED BY <1>1, <1>2, <2>1, LookupFoundCopy
<1>3. CASE /\ worker[w].pc = "write" /\ worker'[w].hook = worker[w].hook
           /\ worker'[w].item = worker[w].item
  BY <1>1, <1>3 DEF FoundCopy
<1>4. CASE worker'[w] = worker[w]
  BY <1>3, <1>4
<1>5. ~(Write(w) \/ Answer(w) \/ CallFails(w) \/ Restart)
  <2>1. ~Write(w)
    BY <1>0, WriteMoves
  <2>2. ~Answer(w) /\ ~Restart
    BY <1>0 DEF Answer, Restart, Idle
  <2>3. ~CallFails(w)
    BY <1>0 DEF CallFails, Answering, Worker
  <2> QED BY <2>1, <2>2, <2>3
<1>6. \A d \in DOMAIN hooks : ~Begin(w, d)
  BY <1>0 DEF Begin, Idle
<1>7. CASE SenderTimesOut(w)
  <2>1. worker'[w] = [worker[w] EXCEPT !.heard = FALSE] /\ worker[w] \in Worker
    BY <1>0, <1>7 DEF SenderTimesOut
  <2> QED BY <1>3, <2>1 DEF Worker
<1>8. ASSUME NEW v \in Workers \ {w}, Write(v)
      PROVE  worker'[w] = worker[w]
  BY <1>0, <1>8, WriteMoves
<1>9. ASSUME NEW v \in Workers \ {w}, Lookup(v) \/ Answer(v) \/ CallFails(v) \/ SenderTimesOut(v)
      PROVE  worker'[w] = worker[w]
  BY <1>0, <1>9 DEF Lookup, LookupByRef, LookupBySequence, LookupParent, To, Answering, Answer,
                    CallFails, SenderTimesOut
<1>10. ASSUME NEW v \in Workers \ {w}, NEW d, Begin(v, d)
       PROVE  worker'[w] = worker[w]
  BY <1>0, <1>10 DEF Begin
<1>11. CASE Users \/ UNCHANGED vars \/ \E d \in DOMAIN hooks : Dismiss(d)
  BY <1>4, <1>11 DEF Users, Dismiss, vars
<1> QED BY <1>2, <1>4, <1>5, <1>6, <1>7, <1>8, <1>9, <1>10, <1>11 DEF Next
-----------------------------------------------------------------------------
LEMMA InitInStep ==
  ASSUME Init
  PROVE  InStep
<1>1. /\ issues = <<>> /\ items = <<>> /\ hooks = <<>>
      /\ \A w \in Workers : worker[w] = Idle
  BY DEF Init, TrackersInit
<1> QED BY <1>1 DEF InStep, InOrder, Versioned, Taken, FoundCopy, Idle, IssueIds, ItemIds

LEMMA StepInStep ==
  ASSUME Traceable, AtMostOne, NothingLost, InStep,
         Ordered, Retries, KeepsLinks, KeepsItems, KeepsStates, NEW w, Workers = {w}, [Next]_vars
  PROVE  AtMostOne' /\ NothingLost' /\ InStep'
<1>1. Steady /\ Grows /\ Traceable' /\ Calls
  BY StepSteady DEF Steady
<1>2. AtMostOne' /\ OneMirror'
  BY StepAtMostOne DEF AtMostOne
<1>3. NothingLost'
  BY StepLosesNothing
<1>4. Unmarked /\ InOrder /\ Versioned /\ Taken /\ FoundCopy
  BY DEF NothingLost, InStep
<1>5. InOrder'
  BY <1>1, <1>4, StepInOrder
<1>6. Versioned'
  BY <1>1, <1>4, StepVersioned
<1>7. Taken'
  BY <1>1, <1>2, <1>4, StepTaken
<1>8. FoundCopy'
  BY <1>1, <1>4, StepFoundCopy
<1>9. (\A n \in IssueIds : TextAnnounced(n) /\ StateAnnounced(n))'
  <2>1. (\A n \in IssueIds : TextAnnounced(n)) /\ (\A n \in IssueIds : StateAnnounced(n))
    BY DEF InStep
  <2>2. (\A n \in IssueIds : TextAnnounced(n))' /\ (\A n \in IssueIds : StateAnnounced(n))'
    BY <1>1, <2>1, CallsNews, TextStaysAnnounced, StateStaysAnnounced
  <2> QED BY <2>2
<1> QED BY <1>2, <1>3, <1>5, <1>6, <1>7, <1>8, <1>9 DEF InStep

\* Once nothing is pending, each mirrored issue has its item, which has taken over
\* the last text and the last state announced.
LEMMA InStepConverges ==
  ASSUME Traceable, NothingLost, InStep
  PROVE  Converged
<1> SUFFICES ASSUME Quiet, NEW n \in IssueIds, Mirrorable(n)
             PROVE  \E t \in Mirrors(n), k \in LinkForRepo(issues[n].repo) :
                      LET want == links[k].stateMap[IF issues[n].open THEN "open" ELSE "closed"]
                      IN /\ items[t].live /\ items[t].rev = issues[n].rev
                         /\ want # None => items[t].state = want
  BY DEF Converged
<1>1. \A d \in DOMAIN hooks : ~Pending(d)
  <2>1. \A w \in Workers : ~worker[w].heard
    BY DEF Traceable, HandlerOK, Quiet
  <2> QED BY <2>1 DEF Quiet, Pending
<1>2. PICK k \in LinkForRepo(issues[n].repo) : TRUE
  BY DEF Mirrorable
<1>3. Present(n)
  <2>1. PICK d \in DOMAIN hooks : hooks[d].kind = "opened" /\ hooks[d].on = n
    BY DEF NothingLost, Announced, IssueAnnounced
  <2> QED BY <1>1, <2>1 DEF NothingLost, Followed, Settled
<1>4. PICK t \in WithRef(links[k].project, links[k].repo, n) : TRUE
  BY <1>2, <1>3 DEF Present
<1>5. links[k].repo = issues[n].repo
  BY <1>2, Typed, RepoLink
<1>6. t \in ItemIds /\ items[t].live /\ items[t].ref = n /\ t \in Mirrors(n) /\ t \in Copies(n)
  BY <1>2, <1>4, <1>5 DEF WithRef, Mirrors, Copies, ItemIds
<1>7. items[t].rev = issues[n].rev
  <2>1. PICK d \in DOMAIN hooks :
          hooks[d].kind \in TextKinds /\ hooks[d].on = n /\ hooks[d].rev = issues[n].rev
    BY DEF InStep, TextAnnounced
  <2>2. issues[n].rev <= items[t].rev
    BY <1>1, <1>6, <2>1 DEF InStep, Taken, TextTaken
  <2>3. items[t].rev <= issues[n].rev
    <3>1. n # 0
      <4>1. issues \in Seq(Issue)
        BY Typed DEF StoreTypes
      <4> QED BY <4>1, LenProperties DEF IssueIds
    <3> QED BY <1>6, <3>1 DEF InStep, Versioned
  <2>4. items[t].rev \in Nat /\ issues[n].rev \in Nat
    BY <1>6, Revisions DEF Numbered
  <2> QED BY <2>2, <2>3, <2>4
<1>8. LET want == links[k].stateMap[IF issues[n].open THEN "open" ELSE "closed"]
      IN want # None => items[t].state = want
  <2>1. PICK d \in DOMAIN hooks :
          /\ LastOfState(d) /\ hooks[d].on = n
          /\ ForgeState(hooks[d].kind) = IF issues[n].open THEN "open" ELSE "closed"
    BY DEF InStep, StateAnnounced
  <2>2. StateTaken(d)
    BY <1>1, <2>1 DEF InStep, Taken
  <2> QED BY <1>2, <1>6, <2>1, <2>2 DEF StateTaken
<1> QED BY <1>2, <1>6, <1>7, <1>8

\* Converged, in any order of failures, repetitions and restarts, if deliveries come
\* one at a time and in order, what is not acknowledged comes again, and nobody but
\* the issue handlers moves or deletes a work item: handleOpened, handleEdited and
\* handleStateChange bring every mirrored issue's item its text and state.
THEOREM CopiesConverge ==
  ASSUME \E w : Workers = {w}, Ordered, Retries, KeepsLinks, KeepsItems, KeepsStates
  PROVE  Spec => []Converged
<1>1. Init => Traceable /\ AtMostOne /\ NothingLost /\ InStep
  BY InitSound, InitAtMostOne, InitLosesNothing, InitInStep
<1>2. Traceable /\ AtMostOne /\ NothingLost /\ InStep /\ [Next]_vars
        => (Traceable /\ AtMostOne /\ NothingLost /\ InStep)'
  <2> SUFFICES ASSUME Traceable, AtMostOne, NothingLost, InStep, [Next]_vars
               PROVE  (Traceable /\ AtMostOne /\ NothingLost /\ InStep)'
    OBVIOUS
  <2>1. PICK w : Workers = {w}
    OBVIOUS
  <2>2. AtMostOne' /\ NothingLost' /\ InStep'
    BY <2>1, StepInStep
  <2>3. Traceable'
    BY NextSound
  <2> QED BY <2>2, <2>3
<1>3. Traceable /\ NothingLost /\ InStep => Converged
  BY InStepConverges
<1> QED BY <1>1, <1>2, <1>3, PTL DEF Spec
=============================================================================

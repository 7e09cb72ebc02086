----------------------- MODULE BridgeRefinement_proofs -----------------------
(***************************************************************************)
(* Proof that the bridge and its services implement Mirroring, and that a  *)
(* step that takes over a text moves no item but for a repeated opening.   *)
(***************************************************************************)
EXTENDS BridgeRefinement, Bridge_proofs

Threads == [at : Repos \cup Projects, of : Nat]
Remarks == [on : Nat, of : Nat]

\* The abstract state, as BridgeRefinement maps it.
ForgeThreads == [n \in DOMAIN issues |-> ThreadOf(issues[n].repo, issues[n].by)]
PlaneThreads == [t \in DOMAIN items |-> ThreadOf(items[t].project, items[t].ref)]
ForgeRemarks == [c \in DOMAIN issueComments |->
                   RemarkOf(issueComments[c].issue, issueComments[c].by)]
PlaneRemarks == [c \in DOMAIN itemComments |->
                   RemarkOf(itemComments[c].item, itemComments[c].by)]

\* A step adds one object at most, and changes only issues or items in place.
Appends ==
  \/ /\ \E x : issues' = Append(issues, x)
     /\ UNCHANGED <<issueComments, items, itemComments>>
  \/ /\ \E x : items' = Append(items, x)
     /\ UNCHANGED <<issues, issueComments, itemComments>>
  \/ /\ \E x : issueComments' = Append(issueComments, x)
     /\ UNCHANGED <<issues, items, itemComments>>
  \/ /\ \E x : itemComments' = Append(itemComments, x)
     /\ UNCHANGED <<issues, issueComments, items>>
  \/ /\ DOMAIN issues' = DOMAIN issues /\ DOMAIN items' = DOMAIN items
     /\ UNCHANGED <<issueComments, itemComments>>

\* A user's step is one REST call.
LEMMA UsersAppend ==
  ASSUME Users
  PROVE  Appends
<1>1. ASSUME NEW n \in DOMAIN issues, ForgeUserEdits(n) \/ ForgeUserFlips(n) \/ ForgeUserComments(n)
      PROVE  Appends
  BY <1>1 DEF ForgeUserEdits, ForgeUserFlips, ForgeUserComments, PatchIssue,
              PostIssueComment, Appends
<1>2. ASSUME NEW t \in DOMAIN items,
             (\E s \in PlaneStates : PlaneUserMoves(t, s)) \/ PlaneUserDeletes(t) \/ PlaneUserComments(t)
      PROVE  Appends
  BY <1>2 DEF PlaneUserMoves, PlaneUserDeletes, PlaneUserComments, PatchItem,
              PostItemComment, Appends
<1>3. ASSUME (\E r \in Repos : ForgeUserOpens(r)) \/ (\E p \in Projects : PlaneUserCreates(p))
      PROVE  Appends
  BY <1>3 DEF ForgeUserOpens, PlaneUserCreates, PostIssue, PostItem, Appends
<1>4. ASSUME \/ \E c \in DOMAIN issueComments : ForgeUserTouchesComment(c)
             \/ \E c \in DOMAIN itemComments : PlaneUserTouchesComment(c)
             \/ \E r \in Repos, kind \in PullKinds, t \in DOMAIN items : ForgeUserPulls(r, kind, t)
      PROVE  Appends
  BY <1>4 DEF ForgeUserTouchesComment, PlaneUserTouchesComment, ForgeUserPulls, Appends
<1> QED BY <1>1, <1>2, <1>3, <1>4 DEF Users, UserStep

\* A handler's update is refused or one REST call.
LEMMA UpdateAppends ==
  ASSUME NEW w, NEW x, Update(w, x)
  PROVE  Appends
BY DEF Update, Refused, PatchItem, trackerVars, Appends

\* A handler's write is refused or one REST call.
LEMMA WriteAppends ==
  ASSUME NEW w \in Workers, Write(w)
  PROVE  Appends
<1>1. CASE Reconcile(w) \/ UpdateText(w) \/ UpdateState(w) \/ MoveForPull(w)
  BY <1>1, UpdateAppends DEF Reconcile, UpdateText, UpdateState, MoveForPull
<1>2. CASE CreateItem(w)
  BY <1>2 DEF CreateItem, Refused, PostItem, trackerVars, Appends
<1>3. CASE CommentOnItem(w)
  BY <1>3 DEF CommentOnItem, Refused, PostItemComment, trackerVars, Appends
<1>4. CASE CommentOnIssue(w)
  BY <1>4 DEF CommentOnIssue, PostIssueComment, Appends
<1>5. CASE CreateIssue(w)
  BY <1>5 DEF CreateIssue, PostIssue, Appends
<1> QED BY <1>1, <1>2, <1>3, <1>4, <1>5 DEF Write

\* Every step adds one object at most.
LEMMA StepAppends ==
  ASSUME [Next]_vars
  PROVE  Appends
<1>1. CASE \E w \in Workers : Write(w)
  BY <1>1, WriteAppends
<1>2. CASE UNCHANGED <<issues, issueComments, items, itemComments>>
  BY <1>2 DEF Appends
<1>3. CASE \E d \in DOMAIN hooks : Dismiss(d) \/ \E w \in Workers : Begin(w, d)
  BY <1>2, <1>3 DEF Dismiss, Begin
<1>4. CASE \E w \in Workers : Lookup(w) \/ Answer(w) \/ CallFails(w) \/ SenderTimesOut(w)
  BY <1>2, <1>4 DEF Lookup, LookupByRef, LookupBySequence, LookupParent, Answer,
                    CallFails, SenderTimesOut, trackerVars
<1>5. CASE Restart \/ UNCHANGED vars
  BY <1>2, <1>5 DEF Restart, vars, trackerVars
<1> QED BY <1>1, <1>3, <1>4, <1>5, UsersAppend DEF Next
-----------------------------------------------------------------------------
\* A sequence with one more element than another is the other with it appended.
LEMMA OneMore ==
  ASSUME NEW S, NEW s \in Seq(S), NEW t \in Seq(S), NEW e \in S,
         DOMAIN t = DOMAIN s \cup {Len(s) + 1},
         \A i \in DOMAIN s : t[i] = s[i], t[Len(s) + 1] = e
  PROVE  t = Append(s, e)
<1>1. /\ Append(s, e) \in Seq(S) /\ Len(Append(s, e)) = Len(s) + 1
      /\ \A i \in 1..Len(s) : Append(s, e)[i] = s[i]
      /\ Append(s, e)[Len(s) + 1] = e
  BY AppendProperties
<1>2. DOMAIN s = 1..Len(s) /\ DOMAIN t = 1..Len(t) /\ Len(s) \in Nat /\ Len(t) \in Nat
  BY LenProperties
<1>3. Len(t) = Len(s) + 1
  BY <1>2
<1>4. \A i \in 1..Len(t) : t[i] = Append(s, e)[i]
  BY <1>1, <1>2, <1>3
<1> QED BY <1>1, <1>3, <1>4, SeqEqual

\* What a function on the domain of a sequence is.
LEMMA MappedSeq ==
  ASSUME NEW S, NEW T, NEW s \in Seq(S), NEW f,
         f \in [DOMAIN s -> T]
  PROVE  f \in Seq(T) /\ Len(f) = Len(s) /\ DOMAIN f = DOMAIN s
<1>1. DOMAIN s = 1..Len(s) /\ Len(s) \in Nat
  BY LenProperties
<1>2. f \in [1..Len(s) -> T]
  BY <1>1
<1>3. f \in Seq(T)
  BY <1>1, <1>2, SeqDef
<1>4. DOMAIN f = 1..Len(f) /\ DOMAIN f = 1..Len(s) /\ Len(f) \in Nat
  BY <1>2, <1>3, LenProperties
<1> QED BY <1>1, <1>3, <1>4

\* The mapped stores are sequences of their kind, of the same length.
MappedStores ==
  /\ ForgeThreads \in Seq(Threads) /\ PlaneThreads \in Seq(Threads)
  /\ ForgeRemarks \in Seq(Remarks) /\ PlaneRemarks \in Seq(Remarks)
  /\ Len(ForgeThreads) = Len(issues) /\ Len(PlaneThreads) = Len(items)
  /\ Len(ForgeRemarks) = Len(issueComments) /\ Len(PlaneRemarks) = Len(itemComments)

LEMMA MappedTypes == StoreTypes => MappedStores
<1> SUFFICES ASSUME StoreTypes PROVE MappedStores
  OBVIOUS
<1>1. /\ issues \in Seq(Issue) /\ items \in Seq(Item)
      /\ issueComments \in Seq(IssueComment) /\ itemComments \in Seq(ItemComment)
  BY DEF StoreTypes
<1>2. ASSUME NEW n \in DOMAIN issues
      PROVE  ThreadOf(issues[n].repo, issues[n].by) \in Threads
  <2>1. issues[n] \in Issue
    BY <1>1, Element
  <2> QED BY <2>1 DEF ThreadOf, Threads, Issue
<1>3. ASSUME NEW t \in DOMAIN items
      PROVE  ThreadOf(items[t].project, items[t].ref) \in Threads
  <2>1. items[t] \in Item
    BY <1>1, Element
  <2> QED BY <2>1 DEF ThreadOf, Threads, Item
<1>4. ASSUME NEW c \in DOMAIN issueComments
      PROVE  RemarkOf(issueComments[c].issue, issueComments[c].by) \in Remarks
  <2>1. issueComments[c] \in IssueComment
    BY <1>1, Element
  <2> QED BY <2>1 DEF RemarkOf, Remarks, IssueComment
<1>5. ASSUME NEW c \in DOMAIN itemComments
      PROVE  RemarkOf(itemComments[c].item, itemComments[c].by) \in Remarks
  <2>1. itemComments[c] \in ItemComment
    BY <1>1, Element
  <2> QED BY <2>1 DEF RemarkOf, Remarks, ItemComment
<1>6. /\ ForgeThreads \in [DOMAIN issues -> Threads]
      /\ PlaneThreads \in [DOMAIN items -> Threads]
      /\ ForgeRemarks \in [DOMAIN issueComments -> Remarks]
      /\ PlaneRemarks \in [DOMAIN itemComments -> Remarks]
  BY <1>2, <1>3, <1>4, <1>5 DEF ForgeThreads, PlaneThreads, ForgeRemarks, PlaneRemarks
<1> QED BY <1>1, <1>6, MappedSeq DEF MappedStores

\* The same of the next state.
LEMMA MappedTypesNext == StoreTypes' => MappedStores'
BY MappedTypes, PTL

\* A sequence that got one more element got one of its kind.
LEMMA Appending ==
  ASSUME NEW S, NEW s \in Seq(S), NEW t \in Seq(S), NEW x, t = Append(s, x)
  PROVE  /\ x \in S
         /\ DOMAIN t = DOMAIN s \cup {Len(s) + 1}
         /\ \A i \in DOMAIN s : t[i] = s[i]
         /\ t[Len(s) + 1] = x
<1> DEFINE T == S \cup {x}
<1>1. s \in Seq(T) /\ x \in T
  BY SeqMonotonic
<1> HIDE DEF T
<1>2. /\ DOMAIN t = DOMAIN s \cup {Len(s) + 1}
      /\ \A i \in DOMAIN s : t[i] = s[i]
      /\ t[Len(s) + 1] = x
  BY <1>1, Appended
<1>3. Len(s) + 1 \in DOMAIN t
  BY <1>2
<1>4. t[Len(s) + 1] \in S
  BY <1>3, Element
<1> QED BY <1>2, <1>4

\* What a step that lets the stores grow does to the four mapped stores.
LEMMA MappedSame ==
  ASSUME Grows
  PROVE  /\ DOMAIN issues' = DOMAIN issues => ForgeThreads' = ForgeThreads
         /\ DOMAIN items' = DOMAIN items => PlaneThreads' = PlaneThreads
         /\ issueComments' = issueComments => ForgeRemarks' = ForgeRemarks
         /\ itemComments' = itemComments => PlaneRemarks' = PlaneRemarks
BY DEF Grows, IssueIds, ItemIds, ForgeThreads, PlaneThreads, ForgeRemarks, PlaneRemarks

\* The bridge's state, as the state of Mirroring.
LEMMA MappedVars ==
  /\ Mirror!vars = <<ForgeThreads, PlaneThreads, ForgeRemarks, PlaneRemarks>>
  /\ Mirror!vars' = <<ForgeThreads, PlaneThreads, ForgeRemarks, PlaneRemarks>>'
BY DEF Mirror!vars, ForgeThreads, PlaneThreads, ForgeRemarks, PlaneRemarks
-----------------------------------------------------------------------------
(***************************************************************************)
(* Each kind of step is a step of Mirroring.                               *)
(***************************************************************************)

\* The invariant, the part of it that a mapped step is built from.
Sound == StoreTypes /\ StoreTypes' /\ StoresOK' /\ Grows

\* A new issue is a user's, or the copy of a user's item over a link.
LEMMA NewIssueOpens ==
  ASSUME Sound, NEW x, issues' = Append(issues, x),
         UNCHANGED <<issueComments, items, itemComments>>
  PROVE  Mirror!Next
<1> DEFINE e == ThreadOf(x.repo, x.by)
<1>1. /\ issues \in Seq(Issue) /\ issues' \in Seq(Issue) /\ items \in Seq(Item)
      /\ ForgeThreads \in Seq(Threads) /\ ForgeThreads' \in Seq(Threads)
      /\ Len(ForgeThreads) = Len(issues)
      /\ DOMAIN PlaneThreads = DOMAIN items /\ DOMAIN ForgeThreads = DOMAIN issues
  BY MappedTypes, MappedTypesNext DEF Sound, MappedStores, StoreTypes, ForgeThreads, PlaneThreads
<1>2. /\ x \in Issue
      /\ DOMAIN issues' = DOMAIN issues \cup {Len(issues) + 1}
      /\ \A i \in DOMAIN issues : issues'[i] = issues[i]
      /\ issues'[Len(issues) + 1] = x
  BY <1>1, Appending
<1>3. e \in Threads
  BY <1>2 DEF ThreadOf, Threads, Issue
<1>4. /\ DOMAIN ForgeThreads' = DOMAIN ForgeThreads \cup {Len(ForgeThreads) + 1}
      /\ \A i \in DOMAIN ForgeThreads : ForgeThreads'[i] = ForgeThreads[i]
      /\ ForgeThreads'[Len(ForgeThreads) + 1] = e
  BY <1>1, <1>2 DEF ForgeThreads
<1>5. ForgeThreads' = Append(ForgeThreads, e)
  <2> HIDE DEF e
  <2> QED BY <1>1, <1>3, <1>4, OneMore
<1>6. /\ PlaneThreads' = PlaneThreads /\ ForgeRemarks' = ForgeRemarks
      /\ PlaneRemarks' = PlaneRemarks
  BY MappedSame DEF Sound
<1>7. IssueOK(x)'
  BY <1>2 DEF Sound, StoresOK, IssueIds
<1>8. ASSUME x.by # 0
      PROVE  /\ x.by \in DOMAIN items /\ items[x.by].ref = 0
             /\ Linked(x.repo, items[x.by].project)
             /\ items[x.by].project \in Projects
  <2>1. x.by \in DOMAIN items /\ items[x.by].ref = 0 /\ Linked(x.repo, items[x.by].project)
    BY <1>7, <1>8 DEF IssueOK, LinkedFirst, Linked, ItemIds
  <2>2. items[x.by] \in Item
    BY <1>1, <2>1, Element
  <2> QED BY <2>1, <2>2 DEF Item
<1>9. x.repo \in Repos /\ x.by \in {0} \cup DOMAIN PlaneThreads
  BY <1>1, <1>2, <1>8 DEF Issue
<1>10. Mirror!OpenIssue(x.repo, x.by)
  BY <1>1, <1>5, <1>6, <1>8, <1>9 DEF Mirror!OpenIssue, Mirror!Originals, ForgeThreads, PlaneThreads,
     ForgeRemarks, PlaneRemarks, ThreadOf
<1> QED BY <1>9, <1>10 DEF Mirror!Next, PlaneThreads

\* A new work item is a user's, or the copy of a user's issue over a link.
LEMMA NewItemOpens ==
  ASSUME Sound, NEW x, items' = Append(items, x),
         UNCHANGED <<issues, issueComments, itemComments>>
  PROVE  Mirror!Next
<1> DEFINE e == ThreadOf(x.project, x.ref)
<1>1. /\ items \in Seq(Item) /\ items' \in Seq(Item) /\ issues \in Seq(Issue)
      /\ PlaneThreads \in Seq(Threads) /\ PlaneThreads' \in Seq(Threads)
      /\ Len(PlaneThreads) = Len(items)
      /\ DOMAIN PlaneThreads = DOMAIN items /\ DOMAIN ForgeThreads = DOMAIN issues
  BY MappedTypes, MappedTypesNext DEF Sound, MappedStores, StoreTypes, ForgeThreads, PlaneThreads
<1>2. /\ x \in Item
      /\ DOMAIN items' = DOMAIN items \cup {Len(items) + 1}
      /\ \A i \in DOMAIN items : items'[i] = items[i]
      /\ items'[Len(items) + 1] = x
  BY <1>1, Appending
<1>3. e \in Threads
  BY <1>2 DEF ThreadOf, Threads, Item
<1>4. /\ DOMAIN PlaneThreads' = DOMAIN PlaneThreads \cup {Len(PlaneThreads) + 1}
      /\ \A i \in DOMAIN PlaneThreads : PlaneThreads'[i] = PlaneThreads[i]
      /\ PlaneThreads'[Len(PlaneThreads) + 1] = e
  BY <1>1, <1>2 DEF PlaneThreads
<1>5. PlaneThreads' = Append(PlaneThreads, e)
  <2> HIDE DEF e
  <2> QED BY <1>1, <1>3, <1>4, OneMore
<1>6. /\ ForgeThreads' = ForgeThreads /\ ForgeRemarks' = ForgeRemarks
      /\ PlaneRemarks' = PlaneRemarks
  BY MappedSame DEF Sound
<1>7. ItemOK(x)'
  BY <1>2 DEF Sound, StoresOK, ItemIds
<1>8. ASSUME x.ref # 0
      PROVE  /\ x.ref \in DOMAIN issues /\ issues[x.ref].by = 0
             /\ Linked(issues[x.ref].repo, x.project)
             /\ issues[x.ref].repo \in Repos
  <2>1. x.ref \in DOMAIN issues /\ issues[x.ref].by = 0 /\ Linked(issues[x.ref].repo, x.project)
    BY <1>7, <1>8 DEF ItemOK, Linked, IssueIds
  <2>2. issues[x.ref] \in Issue
    BY <1>1, <2>1, Element
  <2> QED BY <2>1, <2>2 DEF Issue
<1>9. x.project \in Projects /\ x.ref \in {0} \cup DOMAIN ForgeThreads
  BY <1>1, <1>2, <1>8 DEF Item
<1>10. Mirror!OpenItem(x.project, x.ref)
  BY <1>1, <1>5, <1>6, <1>8, <1>9 DEF Mirror!OpenItem, Mirror!Originals, ForgeThreads,
     PlaneThreads, ForgeRemarks, PlaneRemarks, ThreadOf
<1> QED BY <1>9, <1>10 DEF Mirror!Next, ForgeThreads

\* A new comment on an issue is a user's, or the copy of one on its counterpart.
LEMMA NewIssueCommentAppears ==
  ASSUME Sound, NEW x, issueComments' = Append(issueComments, x),
         UNCHANGED <<issues, items, itemComments>>
  PROVE  Mirror!Next
<1> DEFINE e == RemarkOf(x.issue, x.by)
<1>1. /\ issueComments \in Seq(IssueComment) /\ issueComments' \in Seq(IssueComment)
      /\ itemComments \in Seq(ItemComment)
      /\ ForgeRemarks \in Seq(Remarks) /\ ForgeRemarks' \in Seq(Remarks)
      /\ Len(ForgeRemarks) = Len(issueComments)
      /\ DOMAIN ForgeRemarks = DOMAIN issueComments
      /\ DOMAIN PlaneRemarks = DOMAIN itemComments
      /\ DOMAIN ForgeThreads = DOMAIN issues /\ DOMAIN PlaneThreads = DOMAIN items
  BY MappedTypes, MappedTypesNext
     DEF Sound, MappedStores, StoreTypes, ForgeThreads, PlaneThreads, ForgeRemarks, PlaneRemarks
<1>2. /\ x \in IssueComment
      /\ DOMAIN issueComments' = DOMAIN issueComments \cup {Len(issueComments) + 1}
      /\ \A i \in DOMAIN issueComments : issueComments'[i] = issueComments[i]
      /\ issueComments'[Len(issueComments) + 1] = x
  BY <1>1, Appending
<1>3. e \in Remarks
  BY <1>2 DEF RemarkOf, Remarks, IssueComment
<1>4. /\ DOMAIN ForgeRemarks' = DOMAIN ForgeRemarks \cup {Len(ForgeRemarks) + 1}
      /\ \A i \in DOMAIN ForgeRemarks : ForgeRemarks'[i] = ForgeRemarks[i]
      /\ ForgeRemarks'[Len(ForgeRemarks) + 1] = e
  BY <1>1, <1>2 DEF ForgeRemarks
<1>5. ForgeRemarks' = Append(ForgeRemarks, e)
  <2> HIDE DEF e
  <2> QED BY <1>1, <1>3, <1>4, OneMore
<1>6. /\ ForgeThreads' = ForgeThreads /\ PlaneThreads' = PlaneThreads
      /\ PlaneRemarks' = PlaneRemarks
  BY MappedSame DEF Sound
<1>7. IssueCommentOK(x)' /\ \A c \in DOMAIN itemComments : ItemCommentOK(itemComments[c])'
  BY <1>2 DEF Sound, StoresOK
<1>8. ASSUME x.by # 0
      PROVE  /\ x.by \in DOMAIN itemComments
             /\ itemComments[x.by].item \in DOMAIN items
             /\ items[itemComments[x.by].item].ref = x.issue
             /\ KeepsCommentMarker => itemComments[x.by].by = 0
  BY <1>7, <1>8 DEF IssueCommentOK, ItemCommentOK, ItemIds
<1>9. x.issue \in DOMAIN ForgeThreads /\ x.by \in {0} \cup DOMAIN PlaneRemarks
  BY <1>1, <1>7, <1>8 DEF IssueCommentOK, IssueIds
<1>10. Mirror!CommentOnIssue(x.issue, x.by)
  BY <1>1, <1>5, <1>6, <1>8, <1>9 DEF Mirror!CommentOnIssue, Mirror!Originals,
     ForgeThreads, PlaneThreads, ForgeRemarks, PlaneRemarks, ThreadOf, RemarkOf
<1> QED BY <1>9, <1>10 DEF Mirror!Next, ForgeThreads, PlaneRemarks

\* A new comment on an item is a user's, or the copy of a user's on its counterpart.
LEMMA NewItemCommentAppears ==
  ASSUME Sound, NEW x, itemComments' = Append(itemComments, x),
         UNCHANGED <<issues, issueComments, items>>
  PROVE  Mirror!Next
<1> DEFINE e == RemarkOf(x.item, x.by)
<1>1. /\ itemComments \in Seq(ItemComment) /\ itemComments' \in Seq(ItemComment)
      /\ PlaneRemarks \in Seq(Remarks) /\ PlaneRemarks' \in Seq(Remarks)
      /\ Len(PlaneRemarks) = Len(itemComments)
      /\ DOMAIN ForgeRemarks = DOMAIN issueComments
      /\ DOMAIN PlaneRemarks = DOMAIN itemComments
      /\ DOMAIN PlaneThreads = DOMAIN items
  BY MappedTypes, MappedTypesNext
     DEF Sound, MappedStores, StoreTypes, PlaneThreads, ForgeRemarks, PlaneRemarks
<1>2. /\ x \in ItemComment
      /\ DOMAIN itemComments' = DOMAIN itemComments \cup {Len(itemComments) + 1}
      /\ \A i \in DOMAIN itemComments : itemComments'[i] = itemComments[i]
      /\ itemComments'[Len(itemComments) + 1] = x
  BY <1>1, Appending
<1>3. e \in Remarks
  BY <1>2 DEF RemarkOf, Remarks, ItemComment
<1>4. /\ DOMAIN PlaneRemarks' = DOMAIN PlaneRemarks \cup {Len(PlaneRemarks) + 1}
      /\ \A i \in DOMAIN PlaneRemarks : PlaneRemarks'[i] = PlaneRemarks[i]
      /\ PlaneRemarks'[Len(PlaneRemarks) + 1] = e
  BY <1>1, <1>2 DEF PlaneRemarks
<1>5. PlaneRemarks' = Append(PlaneRemarks, e)
  <2> HIDE DEF e
  <2> QED BY <1>1, <1>3, <1>4, OneMore
<1>6. /\ ForgeThreads' = ForgeThreads /\ PlaneThreads' = PlaneThreads
      /\ ForgeRemarks' = ForgeRemarks
  BY MappedSame DEF Sound
<1>7. ItemCommentOK(x)'
  BY <1>2 DEF Sound, StoresOK
<1>8. ASSUME x.by # 0
      PROVE  /\ x.by \in DOMAIN issueComments
             /\ items[x.item].ref = issueComments[x.by].issue
             /\ issueComments[x.by].by = 0
  BY <1>7, <1>8 DEF ItemCommentOK
<1>9. x.item \in DOMAIN PlaneThreads /\ x.by \in {0} \cup DOMAIN ForgeRemarks
  BY <1>1, <1>7, <1>8 DEF ItemCommentOK, ItemIds
<1>10. Mirror!CommentOnItem(x.item, x.by)
  BY <1>1, <1>5, <1>6, <1>8, <1>9 DEF Mirror!CommentOnItem, Mirror!Originals,
     ForgeThreads, PlaneThreads, ForgeRemarks, PlaneRemarks, ThreadOf, RemarkOf
<1> QED BY <1>9, <1>10 DEF Mirror!Next, PlaneThreads, ForgeRemarks
-----------------------------------------------------------------------------
\* Every step of the bridge is a step of Mirroring, or leaves its state alone.
LEMMA StepMirrors ==
  ASSUME Traceable, [Next]_vars
  PROVE  [Mirror!Next]_(Mirror!vars)
<1>1. SoundStep /\ Appends
  BY StepSound, StepAppends
<1>2. Sound
  BY <1>1 DEF SoundStep, Sound, Traceable, TypeOK, TrackersTypeOK, StoreTypes
<1>3. CASE \E x : issues' = Append(issues, x) /\ UNCHANGED <<issueComments, items, itemComments>>
  BY <1>2, <1>3, NewIssueOpens
<1>4. CASE \E x : items' = Append(items, x) /\ UNCHANGED <<issues, issueComments, itemComments>>
  BY <1>2, <1>4, NewItemOpens
<1>5. CASE \E x : issueComments' = Append(issueComments, x) /\ UNCHANGED <<issues, items, itemComments>>
  BY <1>2, <1>5, NewIssueCommentAppears
<1>6. CASE \E x : itemComments' = Append(itemComments, x) /\ UNCHANGED <<issues, issueComments, items>>
  BY <1>2, <1>6, NewItemCommentAppears
<1>7. CASE /\ DOMAIN issues' = DOMAIN issues /\ DOMAIN items' = DOMAIN items
           /\ UNCHANGED <<issueComments, itemComments>>
  <2>1. /\ ForgeThreads' = ForgeThreads /\ PlaneThreads' = PlaneThreads
        /\ ForgeRemarks' = ForgeRemarks /\ PlaneRemarks' = PlaneRemarks
    BY <1>2, <1>7, MappedSame DEF Sound
  <2> QED BY <2>1, MappedVars
<1> QED BY <1>1, <1>3, <1>4, <1>5, <1>6, <1>7 DEF Appends

\* At first both services are empty, here and in Mirroring.
LEMMA InitMirrors == Init => Mirror!Init
<1> SUFFICES ASSUME Init PROVE Mirror!Init
  OBVIOUS
<1>1. issues = <<>> /\ issueComments = <<>> /\ items = <<>> /\ itemComments = <<>>
  BY DEF Init, TrackersInit
<1>2. ForgeThreads = <<>> /\ PlaneThreads = <<>> /\ ForgeRemarks = <<>> /\ PlaneRemarks = <<>>
  BY <1>1 DEF ForgeThreads, PlaneThreads, ForgeRemarks, PlaneRemarks
<1> QED BY <1>2 DEF Mirror!Init, ForgeThreads, PlaneThreads, ForgeRemarks, PlaneRemarks

\* The bridge with its services implements Mirroring: users' originals are all
\* that is ever copied, each over a link or to its thread's counterpart, in any
\* interleaving, with any faults, repeated deliveries and restarts.
THEOREM BridgeMirrors == Spec => MirroringSpec
<1>1. Traceable /\ [Next]_vars => [Mirror!Next]_(Mirror!vars)
  BY StepMirrors
<1> QED BY <1>1, InitMirrors, AlwaysTraceable, PTL DEF Spec, MirroringSpec, Mirror!Spec
-----------------------------------------------------------------------------
(***************************************************************************)
(* A step that takes over a text moves no item but for a repeated opening. *)
(***************************************************************************)

\* The text of item t and its state change in one step.
Overwritten(t) == items'[t].rev # items[t].rev /\ items'[t].state # items[t].state

\* A new item overwrites none.
LEMMA PostOverwritesNone ==
  ASSUME items \in Seq(Item), NEW x, x \in Item, items' = Append(items, x),
         NEW t \in ItemIds
  PROVE  ~Overwritten(t)
BY Appended DEF ItemIds, Overwritten

\* A step that replaces one item overwrites at most that one.
LEMMA PatchOverwritesOne ==
  ASSUME items \in Seq(Item), NEW u, NEW x, items' = [items EXCEPT ![u] = x],
         NEW t \in ItemIds, Overwritten(t)
  PROVE  t = u /\ items[u] \in Item /\ items'[u] = x
<1>1. t = u
  BY DEF ItemIds, Overwritten
<1> QED BY <1>1, Element DEF ItemIds

\* Users move items or delete them; they do not do both at once.
LEMMA UsersOverwriteNone ==
  ASSUME items \in Seq(Item), UserStep, NEW t \in ItemIds
  PROVE  ~Overwritten(t)
<1>1. CASE items' = items
  BY <1>1 DEF Overwritten
<1>2. ASSUME NEW p \in Projects, PlaneUserCreates(p)
      PROVE  ~Overwritten(t)
  <2>1. [project |-> p, ref |-> 0, repo |-> "-", rev |-> 1,
         state |-> DefaultState, live |-> TRUE] \in Item
    BY DefaultAssumption DEF Item
  <2> QED BY <1>2, <2>1, PostOverwritesNone DEF PlaneUserCreates, PostItem
<1>3. ASSUME NEW u \in DOMAIN items, NEW s, PlaneUserMoves(u, s), Overwritten(t)
      PROVE  FALSE
  <2>1. /\ t = u /\ items[u] \in Item
        /\ items'[u] = [items[u] EXCEPT !.state = s]
    BY <1>3, PatchOverwritesOne DEF PlaneUserMoves, PatchItem
  <2> QED BY <1>3, <2>1 DEF Overwritten, Item
<1>4. ASSUME NEW u \in DOMAIN items, PlaneUserDeletes(u), Overwritten(t)
      PROVE  FALSE
  <2>1. /\ t = u /\ items[u] \in Item
        /\ items'[u] = [items[u] EXCEPT !.live = FALSE]
    BY <1>4, PatchOverwritesOne DEF PlaneUserDeletes, PatchItem
  <2> QED BY <1>4, <2>1 DEF Overwritten, Item
<1>5. \/ items' = items
      \/ \E p \in Projects : PlaneUserCreates(p)
      \/ \E u \in DOMAIN items : \/ \E s \in PlaneStates : PlaneUserMoves(u, s)
                                 \/ PlaneUserDeletes(u)
  BY DEF UserStep, ForgeUserOpens, ForgeUserEdits, ForgeUserFlips, ForgeUserComments,
         ForgeUserTouchesComment, ForgeUserPulls, PlaneUserComments, PlaneUserTouchesComment,
         PostIssue, PatchIssue, PostIssueComment, PostItemComment
<1> QED BY <1>1, <1>2, <1>3, <1>4, <1>5

\* An update replaces the item the handler found, if it changes any.
LEMMA UpdateOverwritesFound ==
  ASSUME items \in Seq(Item), NEW w, NEW x, Update(w, x), NEW t \in ItemIds, Overwritten(t)
  PROVE  /\ t = worker[w].item /\ items[t] \in Item /\ items'[t] = x
<1>1. items' = items \/ items' = [items EXCEPT ![worker[w].item] = x]
  BY DEF Update, Refused, PatchItem, trackerVars
<1>2. CASE items' = items
  BY <1>2 DEF Overwritten
<1>3. CASE items' = [items EXCEPT ![worker[w].item] = x]
  BY <1>3, PatchOverwritesOne
<1> QED BY <1>1, <1>2, <1>3

\* Of the handlers' writes, only the reconciliation changes both.
LEMMA WriteOverwritesOpened ==
  ASSUME Traceable, SoundStep, NEW w \in Workers, Write(w), NEW t \in ItemIds, Overwritten(t)
  PROVE  Evt(w).kind = "opened" /\ worker[w].item = t
<1>1. items \in Seq(Item) /\ items' \in Seq(Item)
  BY DEF Traceable, TypeOK, TrackersTypeOK, SoundStep, StoreTypes
<1>2. CASE CreateItem(w)
  <2>1. items' = items \/ \E x : items' = Append(items, x)
    BY <1>2 DEF CreateItem, Refused, PostItem, trackerVars
  <2>2. ASSUME NEW x, items' = Append(items, x)
        PROVE  FALSE
    BY <1>1, <2>2, Appending, PostOverwritesNone
  <2> QED BY <2>1, <2>2 DEF Overwritten
<1>3. CASE Reconcile(w)
  BY <1>1, <1>3, UpdateOverwritesFound DEF Reconcile, At
<1>4. CASE UpdateText(w)
  <2>1. items[t] \in Item /\ items'[t] = [items[t] EXCEPT !.rev = Evt(w).rev]
    BY <1>1, <1>4, UpdateOverwritesFound DEF UpdateText
  <2> QED BY <2>1 DEF Overwritten, Item
<1>5. ASSUME NEW s, Update(w, [items[worker[w].item] EXCEPT !.state = s])
      PROVE  FALSE
  <2>1. items[t] \in Item /\ items'[t] = [items[t] EXCEPT !.state = s]
    BY <1>1, <1>5, UpdateOverwritesFound
  <2> QED BY <2>1 DEF Overwritten, Item
<1>6. CASE UpdateState(w)
  <2>1. PICK k \in LinkForRepo(Evt(w).home) :
          Update(w, [items[worker[w].item] EXCEPT
            !.state = Mapped(links[k].stateMap[ForgeState(Evt(w).kind)], @)])
    BY <1>6 DEF UpdateState
  <2> QED BY <1>5, <2>1
<1>7. CASE MoveForPull(w)
  <2>1. PICK k \in LinkForRepo(Evt(w).home) :
          Update(w, [items[worker[w].item] EXCEPT
            !.state = Mapped(PRState(k, Evt(w).kind), @)])
    BY <1>7 DEF MoveForPull
  <2> QED BY <1>5, <2>1
<1>8. CASE CommentOnItem(w) \/ CommentOnIssue(w) \/ CreateIssue(w)
  <2>1. items' = items
    BY <1>8 DEF CommentOnItem, CommentOnIssue, CreateIssue, Refused, PostItemComment,
                PostIssueComment, PostIssue, trackerVars
  <2> QED BY <2>1 DEF Overwritten
<1> QED BY <1>2, <1>3, <1>4, <1>6, <1>7, <1>8 DEF Write

\* Of all steps, only the reconciliation of a repeated opening changes both.
LEMMA StepOverwritesOpened ==
  ASSUME Traceable, [Next]_vars, NEW t \in ItemIds, Overwritten(t)
  PROVE  \E w \in Workers : Evt(w).kind = "opened" /\ worker[w].item = t
<1>1. SoundStep /\ items \in Seq(Item)
  BY StepSound DEF Traceable, TypeOK, TrackersTypeOK
<1>2. items' # items
  BY DEF Overwritten
<1>3. CASE Users
  BY <1>1, <1>3, UsersOverwriteNone DEF Users
<1>4. CASE \E w \in Workers : Write(w)
  BY <1>1, <1>4, WriteOverwritesOpened
<1>5. CASE \E d \in DOMAIN hooks : Dismiss(d) \/ \E w \in Workers : Begin(w, d)
  BY <1>2, <1>5 DEF Dismiss, Begin
<1>6. CASE \E w \in Workers : Lookup(w) \/ Answer(w) \/ CallFails(w) \/ SenderTimesOut(w)
  BY <1>2, <1>6 DEF Lookup, LookupByRef, LookupBySequence, LookupParent, Answer,
                    CallFails, SenderTimesOut, trackerVars
<1>7. CASE Restart \/ UNCHANGED vars
  BY <1>2, <1>7 DEF Restart, vars, trackerVars
<1> QED BY <1>3, <1>4, <1>5, <1>6, <1>7 DEF Next

\* The text of a work item and its state never change in one step, but when the
\* opening of its issue is repeated: an edit on the forge cannot move an item.
THEOREM TextAndStateApart == Spec => EditsKeepState
<1>1. Traceable /\ [Next]_vars =>
        [\A t \in ItemIds :
           items'[t].rev # items[t].rev /\ items'[t].state # items[t].state
           => \E w \in Workers : Evt(w).kind = "opened" /\ worker[w].item = t]_vars
  BY StepOverwritesOpened DEF Overwritten
<1> QED BY <1>1, AlwaysTraceable, PTL DEF Spec, EditsKeepState
=============================================================================

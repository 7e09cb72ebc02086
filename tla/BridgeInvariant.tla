--------------------------- MODULE BridgeInvariant ---------------------------
(***************************************************************************)
(* The inductive invariant behind the safety properties of the bridge: what*)
(* every stored object, every queued webhook and every running handler     *)
(* carries with it from the moment it appears.                             *)
(***************************************************************************)
EXTENDS BridgeProperties

\* Some configuration links repository r to project p.
Linked(r, p) == \E cfg \in Configs : \E k \in DOMAIN cfg :
                  cfg[k].repo = r /\ cfg[k].project = p

\* The same by the first link of the project, the one work items follow.
LinkedFirst(r, p) == \E cfg \in Configs : \E k \in DOMAIN cfg :
                       /\ cfg[k].repo = r /\ cfg[k].project = p
                       /\ \A j \in 1..(k - 1) : cfg[j].project # cfg[k].project

\* A copy comes from a user's item of a linked project.
IssueOK(x) ==
  x.by # 0 => /\ x.by \in ItemIds
              /\ items[x.by].ref = 0
              /\ LinkedFirst(x.repo, items[x.by].project)

\* A copy comes from a user's issue of the repository it names.
ItemOK(x) ==
  x.ref # 0 => /\ x.ref \in IssueIds
               /\ issues[x.ref].by = 0
               /\ issues[x.ref].repo = x.repo
               /\ Linked(x.repo, x.project)

IssueCommentOK(x) ==
  /\ x.issue \in IssueIds
  /\ x.by # 0 => /\ x.by \in DOMAIN itemComments
                 /\ items[itemComments[x.by].item].ref = x.issue
                 /\ KeepsCommentMarker => itemComments[x.by].by = 0

ItemCommentOK(x) ==
  /\ x.item \in ItemIds
  /\ x.by # 0 => /\ x.by \in DOMAIN issueComments
                 /\ items[x.item].ref = issueComments[x.by].issue
                 /\ issueComments[x.by].by = 0

\* A payload names existing objects, and the first webhook of a text the bridge
\* wrote shows its marker, unless Plane stripped it.
HookOK(h) ==
  /\ h.kind \in IssueKinds \cup {"issue_comment", "issue_comment_touched"} =>
       h.on \in IssueIds /\ h.home = issues[h.on].repo
  /\ h.kind \in PlaneKinds => h.on \in ItemIds /\ h.home = items[h.on].project
  /\ h.kind \in PullKinds => h.on \in ItemIds
  /\ h.kind = "opened" /\ issues[h.on].by # 0 => h.bodyMarked
  /\ h.kind = "issue_comment" =>
       /\ h.comment \in DOMAIN issueComments
       /\ issueComments[h.comment].issue = h.on
       /\ issueComments[h.comment].by # 0 => h.commentMarked
  /\ h.kind = "item_comment" =>
       /\ h.comment \in DOMAIN itemComments
       /\ itemComments[h.comment].item = h.on
       /\ KeepsCommentMarker /\ itemComments[h.comment].by # 0 => h.commentMarked

\* What a handler (a value of worker) knows of the delivery it handles and of
\* the item it found.
HandlerOK(v) ==
  /\ v.heard => v.pc # "idle"
  /\ v.pc # "idle" =>
       /\ v.hook \in DOMAIN hooks
       /\ ~MarkerPresent(hooks[v.hook])
       /\ hooks[v.hook].kind = "item_created" => items[hooks[v.hook].on].ref = 0
       /\ v.item # 0 => v.item \in ItemIds
  /\ v.pc = "write" =>
       /\ hooks[v.hook].kind \notin {"opened", "item_created"} => v.item # 0
       /\ hooks[v.hook].kind = "issue_comment" => items[v.item].ref = hooks[v.hook].on
       /\ hooks[v.hook].kind = "item_comment" =>
            v.item = hooks[v.hook].on /\ items[v.item].ref # 0

StoresOK ==
  /\ \A n \in IssueIds : IssueOK(issues[n])
  /\ \A t \in ItemIds : ItemOK(items[t])
  /\ \A c \in DOMAIN issueComments : IssueCommentOK(issueComments[c])
  /\ \A c \in DOMAIN itemComments : ItemCommentOK(itemComments[c])
  /\ \A d \in DOMAIN hooks : HookOK(hooks[d])

\* Every copy can be traced to a user's original, over a configured link, and
\* everything on its way keeps it so: the invariant that NoBounce,
\* CommentsBounceOnce, RightThread and RightProject follow from.
Traceable == TypeOK /\ StoresOK /\ \A w \in Workers : HandlerOK(worker[w])
-----------------------------------------------------------------------------
(***************************************************************************)
(* What keeps copies single.                                               *)
(***************************************************************************)

\* A handler about to create an item found none, and there still is none.
Absent ==
  \A w \in Workers :
    worker[w].pc = "write" /\ Evt(w).kind = "opened" /\ worker[w].item = 0 =>
      \A k \in LinkForRepo(Evt(w).home) :
        WithRef(links[k].project, links[k].repo, Evt(w).on) = {}

\* OneMirror, and what it rests on: Plane's own check, or the handler's.
AtMostOne == OneMirror /\ (UniqueRefs \/ Absent)

\* The events whose handlers make a copy, and the original they make it of.
Creating == {"opened", "item_created", "issue_comment", "item_comment"}
Original(h) ==
  <<h.kind, IF h.kind \in {"opened", "item_created"} THEN h.on ELSE h.comment>>

\* A handler (a value of worker) that may make a copy, or have its delivery repeated.
Promising(v) ==
  \/ v.pc \in {"lookup", "write"}
  \/ v.pc = "answer" /\ v.outcome = "failed" /\ v.heard

\* A claim is a copy of an original, or what may become one.
Claim(kind, id, original) == [is |-> kind, id |-> id, of |-> original]

ItemClaims ==
  {Claim("item", t, <<"opened", items[t].ref>>) : t \in {u \in ItemIds : items[u].ref # 0}}
IssueClaims ==
  {Claim("issue", n, <<"item_created", issues[n].by>>) : n \in {m \in IssueIds : issues[m].by # 0}}
ItemCommentClaims ==
  {Claim("item_comment", c, <<"issue_comment", itemComments[c].by>>) :
     c \in {k \in DOMAIN itemComments : itemComments[k].by # 0}}
IssueCommentClaims ==
  {Claim("issue_comment", c, <<"item_comment", issueComments[c].by>>) :
     c \in {k \in DOMAIN issueComments : issueComments[k].by # 0}}
DueClaims ==
  {Claim("due", d, Original(hooks[d])) : d \in {e \in due : hooks[e].kind \in Creating}}
HandlerClaims ==
  {Claim("handler", w, Original(Evt(w))) :
     w \in {v \in Workers : Promising(worker[v]) /\ Evt(v).kind \in Creating}}

Claims == ItemClaims \cup IssueClaims \cup ItemCommentClaims \cup IssueCommentClaims
            \cup DueClaims \cup HandlerClaims

\* All but n of the claims are claims to originals of their own.
Spare(claims, n) ==
  \E extra \in SUBSET claims :
    /\ IsFiniteSet(extra) /\ Cardinality(extra) <= n
    /\ \A x, y \in claims \ extra : x.of = y.of => x = y

\* A failure pays for each claim too many: a fault for one, a restart for one of
\* every handler.
Price == spent["fault"] + Cardinality(Workers) * spent["restart"]

Paid == Spare(Claims, Price)
-----------------------------------------------------------------------------
(***************************************************************************)
(* What keeps comments from being lost.                                    *)
(***************************************************************************)

\* A delivery the sender has to attempt, or is waiting for and may have to repeat.
Pending(d) ==
  \/ d \in due
  \/ \E w \in Workers : worker[w].hook = d /\ worker[w].heard /\ Promising(worker[w])

\* The issue is mirrored where its repository's link says.
Present(n) ==
  \A k \in LinkForRepo(issues[n].repo) : WithRef(links[k].project, links[k].repo, n) # {}

\* Nothing is left to do for a delivery: its issue is there, its comment copied.
Settled(d) ==
  LET h == hooks[d]
  IN /\ h.kind = "opened" /\ Mirrorable(h.on) => Present(h.on)
     /\ h.kind = "issue_comment" /\ issueComments[h.comment].by = 0 /\ Mirrorable(h.on) =>
          \E c \in DOMAIN itemComments : itemComments[c].by = h.comment
     /\ h.kind = "item_comment" /\ itemComments[h.comment].by = 0 /\ items[h.on].ref # 0 =>
          \E c \in DOMAIN issueComments : issueComments[c].by = h.comment

\* Every issue and comment is announced, an issue before the comments on it.
IssueAnnounced(n) ==
  \E d \in DOMAIN hooks :
    /\ hooks[d].kind = "opened" /\ hooks[d].on = n
    /\ \A e \in DOMAIN hooks : hooks[e].kind = "issue_comment" /\ hooks[e].on = n => d < e

CommentAnnounced(kind, c) ==
  \E d \in DOMAIN hooks : hooks[d].kind = kind /\ hooks[d].comment = c

Announced ==
  /\ \A n \in IssueIds : IssueAnnounced(n)
  /\ \A c \in DOMAIN issueComments : CommentAnnounced("issue_comment", c)
  /\ \A c \in DOMAIN itemComments : CommentAnnounced("item_comment", c)

\* What a user wrote has no marker, which would keep it from being copied.
HookUnmarked(h) ==
  /\ h.kind \in IssueKinds \cup {"issue_comment"} /\ issues[h.on].by = 0 => ~h.bodyMarked
  /\ h.kind \in IssueKinds => ~h.commentMarked
  /\ h.kind = "issue_comment" /\ issueComments[h.comment].by = 0 => ~h.commentMarked
  /\ h.kind = "item_comment" =>
       ~h.bodyMarked /\ (itemComments[h.comment].by = 0 => ~h.commentMarked)

Unmarked ==
  /\ \A n \in IssueIds : issues[n].by = 0 => ~issues[n].marked
  /\ \A d \in DOMAIN hooks : HookUnmarked(hooks[d])

\* A handler that has a comment to copy, or has found the item of an issue.
Finds(v) ==
  /\ v.pc # "idle"
  /\ \/ hooks[v.hook].kind = "issue_comment"
     \/ hooks[v.hook].kind = "opened" /\ v.pc = "write" /\ v.item # 0

\* Nothing is given up before it is settled, and what the settling of a comment
\* needs is there when its handler begins.
Followed ==
  /\ \A d \in DOMAIN hooks : Pending(d) \/ Settled(d)
  /\ \A w \in Workers : Finds(worker[w]) /\ Mirrorable(Evt(w).on) => Present(Evt(w).on)

NothingLost == Announced /\ Unmarked /\ Followed
-----------------------------------------------------------------------------
(***************************************************************************)
(* What makes a copy agree with its original.                              *)
(***************************************************************************)

\* The events that bring an item its text, and its state.
TextKinds == {"opened", "edited"}
StateKinds == {"opened", "closed", "reopened"}

InHand(d) == \E w \in Workers : worker[w].pc # "idle" /\ worker[w].hook = d

\* The forge's deliveries come in order: none is over before those queued earlier.
InOrder ==
  /\ \A d, e \in DOMAIN hooks :
       /\ SideOf(d) = "forge" /\ SideOf(e) = "forge" /\ d < e
       /\ d \in due \/ InHand(d)
       => e \in due
  /\ \A w \in Workers :
       worker[w].pc # "idle" /\ SideOf(worker[w].hook) = "forge" =>
         Acted(Evt(w)) /\ (worker[w].heard \/ worker[w].hook \in due)

\* Later webhooks of an issue have later texts, and no copy has a later one than
\* the issue itself.
Versioned ==
  /\ \A d, e \in DOMAIN hooks :
       /\ hooks[d].kind \in IssueKinds /\ hooks[e].kind \in IssueKinds
       /\ hooks[d].on = hooks[e].on /\ d <= e
       => hooks[d].rev <= hooks[e].rev
  /\ \A d \in DOMAIN hooks :
       hooks[d].kind \in IssueKinds => hooks[d].rev <= issues[hooks[d].on].rev
  /\ \A t \in ItemIds : items[t].ref # 0 => items[t].rev <= issues[items[t].ref].rev

LastOfState(d) ==
  /\ hooks[d].kind \in StateKinds
  /\ \A e \in DOMAIN hooks :
       hooks[e].kind \in StateKinds /\ hooks[e].on = hooks[d].on => e <= d

\* What an issue is now was announced.
TextAnnounced(n) ==
  \E d \in DOMAIN hooks :
    hooks[d].kind \in TextKinds /\ hooks[d].on = n /\ hooks[d].rev = issues[n].rev

StateAnnounced(n) ==
  \E d \in DOMAIN hooks :
    /\ LastOfState(d) /\ hooks[d].on = n
    /\ ForgeState(hooks[d].kind) = IF issues[n].open THEN "open" ELSE "closed"

\* The items of an issue under its repository's link.
Copies(n) ==
  UNION {WithRef(links[k].project, links[k].repo, n) : k \in LinkForRepo(issues[n].repo)}

TextTaken(d) == \A t \in Copies(hooks[d].on) : hooks[d].rev <= items[t].rev

StateTaken(d) ==
  \A t \in Copies(hooks[d].on), k \in LinkForRepo(issues[hooks[d].on].repo) :
    LET want == links[k].stateMap[ForgeState(hooks[d].kind)]
    IN want # None => items[t].state = want

\* What was announced is taken over or still pending: every text, for a copy only
\* goes on to later ones, and the last state.
Taken ==
  /\ \A d \in DOMAIN hooks : hooks[d].kind \in TextKinds => Pending(d) \/ TextTaken(d)
  /\ \A d \in DOMAIN hooks : LastOfState(d) => Pending(d) \/ StateTaken(d)

\* A handler that found an item writes to one of the issue's.
FoundCopy ==
  \A w \in Workers :
    worker[w].pc = "write" /\ Evt(w).kind \in IssueKinds /\ worker[w].item # 0 =>
      worker[w].item \in Copies(Evt(w).on)

InStep ==
  /\ InOrder /\ Versioned /\ Taken /\ FoundCopy
  /\ \A n \in IssueIds : TextAnnounced(n) /\ StateAnnounced(n)
=============================================================================

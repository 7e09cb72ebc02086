------------------------------ MODULE Mirroring ------------------------------
(***************************************************************************)
(* What the bridge promises the users of its two services, whatever it is  *)
(* made of.  Each service holds threads (issues, work items) and comments  *)
(* on them, and each of these is either an original, written by a user, or *)
(* a copy of an original of the other service.  A thread is copied over a  *)
(* link; a comment on a thread is copied to the thread's counterpart.  The *)
(* origin of a thread or comment never changes afterwards.                 *)
(***************************************************************************)
EXTENDS Integers, Sequences

CONSTANTS
  Repos, Projects,
  Links,            \* the pairs of a repository and a project that are linked
  CommentsMarked    \* a copied comment can be told from an original one

\* `of' is the position of the original of a copy, 0 for an original; `at' is the
\* repository or project of a thread, `on' the thread of a comment.
VARIABLES issue, item, issueComment, itemComment

vars == <<issue, item, issueComment, itemComment>>

Originals(things) == {i \in DOMAIN things : things[i].of = 0}

Init == issue = <<>> /\ item = <<>> /\ issueComment = <<>> /\ itemComment = <<>>

\* An issue, a user's (t = 0) or the copy of work item t.
OpenIssue(r, t) ==
  /\ t # 0 => t \in Originals(item) /\ <<r, item[t].at>> \in Links
  /\ issue' = Append(issue, [at |-> r, of |-> t])
  /\ UNCHANGED <<item, issueComment, itemComment>>

\* A work item, a user's (n = 0) or the copy of issue n.
OpenItem(p, n) ==
  /\ n # 0 => n \in Originals(issue) /\ <<issue[n].at, p>> \in Links
  /\ item' = Append(item, [at |-> p, of |-> n])
  /\ UNCHANGED <<issue, issueComment, itemComment>>

\* A comment on issue n, a user's (c = 0) or the copy of Plane comment c.
CommentOnIssue(n, c) ==
  /\ c # 0 => /\ item[itemComment[c].on].of = n
              /\ CommentsMarked => c \in Originals(itemComment)
  /\ issueComment' = Append(issueComment, [on |-> n, of |-> c])
  /\ UNCHANGED <<issue, item, itemComment>>

\* A comment on work item t, a user's (c = 0) or the copy of forge comment c.
CommentOnItem(t, c) ==
  /\ c # 0 => c \in Originals(issueComment) /\ item[t].of = issueComment[c].on
  /\ itemComment' = Append(itemComment, [on |-> t, of |-> c])
  /\ UNCHANGED <<issue, item, issueComment>>

Next ==
  \/ \E r \in Repos, t \in {0} \cup DOMAIN item : OpenIssue(r, t)
  \/ \E p \in Projects, n \in {0} \cup DOMAIN issue : OpenItem(p, n)
  \/ \E n \in DOMAIN issue, c \in {0} \cup DOMAIN itemComment : CommentOnIssue(n, c)
  \/ \E t \in DOMAIN item, c \in {0} \cup DOMAIN issueComment : CommentOnItem(t, c)

Spec == Init /\ [][Next]_vars
=============================================================================

------------------------------ MODULE MCProcess ------------------------------
(***************************************************************************)
(* Three kinds of runs: one meets every single mistake in the file and the *)
(* environment, one takes every delivery under a few configurations, and   *)
(* one is told to stop while two handlers run.                             *)
(***************************************************************************)
EXTENDS Process, TLC

CONSTANTS any, one, two

GoodLink == [repo |-> "good", project |-> "good", identifier |-> "good",
             prKeys |-> {"opened", "merged"}]

GoodFile == [read |-> "decoded",
             settings |-> [s \in Settings |-> IF s = "log_level" THEN "" ELSE "good"],
             links |-> <<GoodLink>>, users |-> {"good"}, capacity |-> 0]

NoOverride == [s \in Overridable |-> ""]

\* Files with one mistake, or none.
Files ==
  {GoodFile}
    \cup {[GoodFile EXCEPT !.read = r] : r \in {"missing", "malformed"}}
    \cup {[GoodFile EXCEPT !.settings[s] = v] : s \in Settings, v \in {"", "bad"}}
    \cup {[GoodFile EXCEPT !.links[1][f] = v] : f \in {"repo", "project", "identifier"}, v \in {"", "bad"}}
    \cup {[GoodFile EXCEPT !.links[1].prKeys = {"other"}], [GoodFile EXCEPT !.users = {"bad"}],
          [GoodFile EXCEPT !.links = <<>>], [GoodFile EXCEPT !.links = <<GoodLink, GoodLink>>]}
    \cup {[GoodFile EXCEPT !.capacity = c] : c \in {-1, 1}}

Environments ==
  {NoOverride} \cup {[NoOverride EXCEPT ![s] = v] : s \in Overridable, v \in {"good", "bad"}}

Served == {GoodFile, [GoodFile EXCEPT !.links = <<>>],
           [GoodFile EXCEPT !.links[1].identifier = ""]}

MCStarts ==
  [file : Files, env : Environments, senders : {{}}]
    \cup [file : Served, env : {[NoOverride EXCEPT !["plane_secret_env"] = v] : v \in {"", "bad"}},
          senders : {{any}}]
    \cup [file : {GoodFile}, env : {NoOverride}, senders : {{one, two}}]

Sound == [side |-> "forge", flaws |-> {}, event |-> "issues", action |-> "opened",
          objects |-> {"issue"}, marked |-> {}, linked |-> TRUE, names |-> TRUE,
          merged |-> FALSE, copy |-> FALSE]

SideOf(event) == IF event \in PlaneEvents THEN "plane" ELSE "forge"

\* What an event's payload may lack.
Carried(event) ==
  CASE event = "issues" -> {"issue"}
    [] event = "issue_comment" -> {"issue", "comment"}
    [] event \in {"pull_request", "pull_request_review"} -> {"pull_request", "review"}
    [] event = "issue" -> {"work_item"}
    [] event = "comment" -> {"comment"}
    [] OTHER -> {}

\* Every event, action and lack of objects, as long as nothing is wrong before.
Wellformed ==
  UNION {{[Sound EXCEPT !.side = SideOf(e), !.event = e, !.action = a, !.objects = o, !.marked = m,
                        !.linked = b[1], !.names = b[2], !.merged = b[3], !.copy = b[4]] :
            a \in {"opened", "closed", "labeled", "created", "edited", "create", "delete", "other"},
            o \in SUBSET Carried(e),
            m \in {{}, Carried(e) \ {"issue"}},
            b \in {<<TRUE, TRUE, TRUE, FALSE>>, <<TRUE, FALSE, FALSE, TRUE>>,
                   <<FALSE, TRUE, FALSE, FALSE>>}} :
          e \in ForgeEvents \cup PlaneEvents \cup {"other"}}

\* Two flaws at a time, of an event of either side or of none.
Flawed ==
  {[Sound EXCEPT !.side = side, !.event = e, !.action = "create", !.flaws = {f, g}] :
     side \in {"forge", "plane"}, e \in {"issues", "comment", "other"}, f \in Flaws, g \in Flaws}

MCDeliveries == (any :> Wellformed \cup Flawed)
             @@ (one :> {Sound, [Sound EXCEPT !.flaws = {"broken_off"}]})
             @@ (two :> {Sound, [Sound EXCEPT !.side = "plane", !.event = "issue", !.action = "create",
                                              !.objects = {"work_item"}]})
=============================================================================

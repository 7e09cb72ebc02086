------------------------------- MODULE Webhook -------------------------------
(***************************************************************************)
(* What the server makes of one webhook, up to the first remote call: the  *)
(* body, the signature, the parsers of internal/forge and internal/plane,  *)
(* the loop-break marker, and the translator's gates that need no call.    *)
(*                                                                         *)
(* The way through is a sequence of gates.  The first that applies answers *)
(* the delivery; one that reads an object the event does not carry stops   *)
(* the handler with a nil dereference.                                     *)
(***************************************************************************)
EXTENDS ConfigLoad

\* The actions an event is known with, of the events whose action is looked at.
KnownActions ==
  [issues |-> {"opened", "edited", "closed", "reopened", "labeled"},
   issue_comment |-> {"created", "edited", "deleted"},
   pull_request |-> {"opened", "edited", "closed", "reopened"},
   issue |-> {"create", "update", "delete"},
   comment |-> {"create", "update", "delete"}]

PlaneEvents == {"issue", "comment"}
ForgeEvents == {"issues", "issue_comment", "pull_request", "pull_request_review", "push"}
Actions == UNION {KnownActions[e] : e \in DOMAIN KnownActions}

Objects == {"issue", "comment", "pull_request", "review", "work_item"}

\* What can be wrong with a request before its event is looked at.
Flaws == {"too_large", "broken_off", "unsigned", "forged", "no_event", "garbled", "ill_typed"}

\* `objects' are in the body and not null, those in `marked' end in a marker.
\* `linked': the repository or project is one of the configuration's; `names':
\* the pull request names a work item; `merged': it was merged; `copy': the
\* item's external_source says the bridge made it.
Delivery == [side : {"forge", "plane"}, flaws : SUBSET Flaws,
             event : ForgeEvents \cup PlaneEvents \cup {"other"}, action : Actions \cup {"other"},
             objects : SUBSET Objects, marked : SUBSET Objects,
             linked : BOOLEAN, names : BOOLEAN, merged : BOOLEAN, copy : BOOLEAN]

\* The objects the parser puts in the event.
Parsed(d) ==
  d.objects \cap CASE d.event = "issues" -> {"issue"}
                   [] d.event = "issue_comment" -> {"issue", "comment"}
                   [] d.event = "pull_request" -> {"pull_request"}
                   [] d.event = "pull_request_review" -> {"pull_request", "review"}
                   [] d.event = "issue" -> {"work_item"}
                   [] d.event = "comment" -> {"comment"}
                   [] OTHER -> {}

\* The first link for the repository, or the project, of a delivery.
LinkFor(config, d) ==
  {k \in DOMAIN config.links :
     /\ d.linked
     /\ LET field == IF d.side = "forge" THEN "repo" ELSE "project"
        IN /\ config.links[k][field] = "good"
           /\ \A j \in 1..(k - 1) : config.links[j][field] # "good"}
-----------------------------------------------------------------------------
Gate(reads, applies, answer) == [reads |-> reads, applies |-> applies, answer |-> answer]

\* readBody and VerifySignature, and the event header, alike on both sides.
\* `secret' is what the configuration resolved for the side.
Checks(secret, d) ==
  << Gate({}, "too_large" \in d.flaws, "413"),
     Gate({}, "broken_off" \in d.flaws, "400"),
     Gate({}, secret = "", "500"),
     Gate({}, "unsigned" \in d.flaws \/ "forged" \in d.flaws, "401"),
     Gate({}, "no_event" \in d.flaws, "400") >>

Unknown(d) == d.event \in DOMAIN KnownActions /\ d.action \notin KnownActions[d.event]

\* The object without which the forge's parser refuses an event.
Required(event) ==
  CASE event = "issues" -> {"issue"}
    [] event = "issue_comment" -> {"comment"}
    [] event = "pull_request" -> {"pull_request"}
    [] event = "pull_request_review" -> {"review"}
    [] OTHER -> {}

\* forge.Parse: the event's name is looked at before the body.
ForgeParse(d) ==
  << Gate({}, d.event \notin ForgeEvents, "204"),
     Gate({}, d.flaws \cap {"garbled", "ill_typed"} # {}, "400"),
     Gate({}, Unknown(d), "204"),
     Gate({}, ~(Required(d.event) \subseteq d.objects), "400") >>

\* plane.Parse: the body is decoded first, its data only for a known event; data
\* that is missing or null is no error.
PlaneParse(d) ==
  << Gate({}, "garbled" \in d.flaws, "400"),
     Gate({}, d.event \notin PlaneEvents, "204"),
     Gate({}, Unknown(d), "204"),
     Gate({}, "ill_typed" \in d.flaws, "400") >>

\* markerFromForge, markerFromPlane: every object the event has is looked at.
MarkerGate(d) ==
  << Gate({}, d.marked \cap Parsed(d) \cap {"issue", "comment", "pull_request", "work_item"} # {},
          "200") >>

ForgeIssue(config, d) ==
  << Gate({}, d.action = "labeled", "202"),
     Gate({}, LinkFor(config, d) = {}, "202"),
     Gate({"issue"}, TRUE, "calls") >>

ForgeComment(config, d) ==
  << Gate({}, LinkFor(config, d) = {}, "202"),
     Gate({}, d.action # "created", "202"),
     Gate({}, "issue" \notin Parsed(d), "422"),
     Gate({"issue", "comment"}, TRUE, "calls") >>

\* The key of pr_state_map an event stands for.
ActionKey(d) ==
  CASE d.action \in {"opened", "reopened"} -> "opened"
    [] d.action = "closed" /\ d.merged -> "merged"
    [] d.action = "closed" /\ ~d.merged -> "closed"
    [] OTHER -> ""

ForgePullRequest(config, d) ==
  << Gate({}, \A k \in LinkFor(config, d) :
                config.links[k].identifier = "" \/ config.links[k].prKeys = {}, "202"),
     Gate({}, d.event = "pull_request_review", "202"),
     Gate({}, "pull_request" \notin Parsed(d), "422"),
     Gate({"pull_request"}, ~d.names, "202"),
     Gate({"pull_request"}, \A k \in LinkFor(config, d) :
                              ActionKey(d) \notin config.links[k].prKeys, "202"),
     Gate({"pull_request"}, TRUE, "calls") >>

\* Mutant of PlaneWorkItem: a missing item is only expected of a deletion.
PlaneWorkItemUnguarded(config, d) ==
  << Gate({}, d.action = "delete" /\ "work_item" \notin Parsed(d), "202"),
     Gate({"work_item"}, LinkFor(config, d) = {} \/ d.action # "create" \/ d.copy, "202"),
     Gate({"work_item"}, TRUE, "calls") >>

\* Creation goes on to the link's repository, which must be owner/repo.
PlaneWorkItem(config, d) ==
  << Gate({}, "work_item" \notin Parsed(d), IF d.action = "delete" THEN "202" ELSE "422"),
     Gate({"work_item"}, LinkFor(config, d) = {}, "202"),
     Gate({}, d.action # "create", "202"),
     Gate({"work_item"}, d.copy, "202"),
     Gate({}, \E k \in LinkFor(config, d) : config.links[k].repo # "good", "500"),
     Gate({"work_item"}, TRUE, "calls") >>

PlaneComment(d) ==
  << Gate({}, d.action # "create", "202"),
     Gate({}, "comment" \notin Parsed(d), "422"),
     Gate({"comment"}, TRUE, "calls") >>

\* The dispatch on the kind of an event; a kind without a handler is acknowledged.
Dispatch(config, d) ==
  CASE d.event = "issues" -> ForgeIssue(config, d)
    [] d.event = "issue_comment" -> ForgeComment(config, d)
    [] d.event \in {"pull_request", "pull_request_review"} -> ForgePullRequest(config, d)
    [] d.event = "issue" -> PlaneWorkItem(config, d)
    [] d.event = "comment" -> PlaneComment(d)
    [] OTHER -> << Gate({}, TRUE, "202") >>

\* The secret a side's signatures are checked with, "" if its variable is empty.
Secret(config, side) ==
  LET name == IF side = "forge" THEN "forge_secret_env" ELSE "plane_secret_env"
  IN IF config.settings[name] = "good" THEN "good" ELSE ""

Gates(config, d) ==
  Checks(Secret(config, d.side), d)
    \o (IF d.side = "forge" THEN ForgeParse(d) ELSE PlaneParse(d))
    \o MarkerGate(d)
    \o Dispatch(config, d)

\* How a delivery fares: the answer of its first gate to apply, "calls" if its
\* handler goes on to a remote call, "panic" if it reads what is not there.
Verdict(config, d) ==
  LET gates == Gates(config, d)
      Stops(k) == gates[k].applies \/ ~(gates[k].reads \subseteq Parsed(d))
      k == CHOOSE i \in DOMAIN gates : Stops(i) /\ \A j \in 1..(i - 1) : ~Stops(j)
  IN IF gates[k].reads \subseteq Parsed(d) THEN gates[k].answer ELSE "panic"

\* What a handler may look up before it writes: an item by its reference, to
\* create it if there is none; an item that must be there; one by its sequence
\* number; the item a comment is on.
Lookups == {"ref_or_create", "ref", "sequence", "parent", "none"}

LookupOf(d) ==
  CASE d.event = "issues" /\ d.action = "opened" -> "ref_or_create"
    [] d.event = "issues" /\ d.action # "opened" -> "ref"
    [] d.event = "issue_comment" -> "ref"
    [] d.event = "pull_request" -> "sequence"
    [] d.event = "comment" -> "parent"
    [] OTHER -> "none"
=============================================================================

---------------------------- MODULE Process_proofs ----------------------------
(***************************************************************************)
(* What one run of the program may rely on, for any files, environments,   *)
(* deliveries and timeouts.                                                *)
(***************************************************************************)
EXTENDS Process, WellFoundedInduction, TLAPS

\* A configuration as the loader lets it through.
Sound(config) ==
  /\ \A s \in SecretNames \cup Formed : config.settings[s] = "good"
  /\ \A k \in DOMAIN config.links : /\ config.links[k].repo = "good"
                                    /\ config.links[k].project = "good"
                                    /\ config.links[k].identifier # "bad"
  /\ config.capacity >= 1

Running == pc \in {"up", "draining", "collect"}

-----------------------------------------------------------------------------
(***************************************************************************)
(* The gates.                                                              *)
(***************************************************************************)

\* A gate that answers 500 never applies and reads nothing.
SafeGate ==
  {g \in [reads : SUBSET Objects, applies : BOOLEAN, answer : Codes \cup {"calls"}] :
     g.answer = "500" => ~g.applies /\ g.reads = {}}

LEMMA TupleInSeq ==
  ASSUME NEW S
  PROVE  /\ \A a \in S : <<a>> \in Seq(S)
         /\ \A a, b, c \in S : <<a, b, c>> \in Seq(S)
         /\ \A a, b, c, d \in S : <<a, b, c, d>> \in Seq(S)
         /\ \A a, b, c, d, e, f \in S : <<a, b, c, d, e, f>> \in Seq(S)
OBVIOUS

LEMMA SecretThere ==
  ASSUME NEW config, Sound(config), NEW side
  PROVE  Secret(config, side) = "good"
BY DEF Sound, Secret, SecretNames

LEMMA ChecksSafe ==
  ASSUME NEW d
  PROVE  Checks("good", d) \in Seq(SafeGate)
<1>1. Gate({}, "too_large" \in d.flaws, "413") \in SafeGate
  BY DEF Gate, SafeGate, Codes
<1>2. Gate({}, "broken_off" \in d.flaws, "400") \in SafeGate
  BY DEF Gate, SafeGate, Codes
<1>3. Gate({}, "good" = "", "500") \in SafeGate
  BY DEF Gate, SafeGate, Codes
<1>4. Gate({}, "unsigned" \in d.flaws \/ "forged" \in d.flaws, "401") \in SafeGate
  BY DEF Gate, SafeGate, Codes
<1>5. Gate({}, "no_event" \in d.flaws, "400") \in SafeGate
  BY DEF Gate, SafeGate, Codes
<1>6. QED
  BY <1>1, <1>2, <1>3, <1>4, <1>5 DEF Checks

LEMMA ForgeParseSafe ==
  ASSUME NEW d
  PROVE  ForgeParse(d) \in Seq(SafeGate)
<1>1. Gate({}, d.event \notin ForgeEvents, "204") \in SafeGate
  BY DEF Gate, SafeGate, Codes
<1>2. Gate({}, d.flaws \cap {"garbled", "ill_typed"} # {}, "400") \in SafeGate
  BY DEF Gate, SafeGate, Codes
<1>3. Gate({}, Unknown(d), "204") \in SafeGate
  BY DEF Gate, SafeGate, Codes, Unknown
<1>4. Gate({}, ~(Required(d.event) \subseteq d.objects), "400") \in SafeGate
  BY DEF Gate, SafeGate, Codes
<1>5. QED
  BY <1>1, <1>2, <1>3, <1>4 DEF ForgeParse

LEMMA PlaneParseSafe ==
  ASSUME NEW d
  PROVE  PlaneParse(d) \in Seq(SafeGate)
<1>1. Gate({}, "garbled" \in d.flaws, "400") \in SafeGate
  BY DEF Gate, SafeGate, Codes
<1>2. Gate({}, d.event \notin PlaneEvents, "204") \in SafeGate
  BY DEF Gate, SafeGate, Codes
<1>3. Gate({}, Unknown(d), "204") \in SafeGate
  BY DEF Gate, SafeGate, Codes, Unknown
<1>4. Gate({}, "ill_typed" \in d.flaws, "400") \in SafeGate
  BY DEF Gate, SafeGate, Codes
<1>5. QED
  BY <1>1, <1>2, <1>3, <1>4 DEF PlaneParse

LEMMA MarkerGateSafe ==
  ASSUME NEW d
  PROVE  MarkerGate(d) \in Seq(SafeGate)
<1>1. Gate({}, d.marked \cap Parsed(d) \cap {"issue", "comment", "pull_request", "work_item"} # {},
           "200") \in SafeGate
  BY DEF Gate, SafeGate, Codes
<1>2. QED
  BY <1>1 DEF MarkerGate

\* A sequence of gates that ends: some gate applies whatever comes.
Ends(gates) == /\ gates \in Seq(SafeGate) /\ Len(gates) > 0
               /\ gates[Len(gates)].applies = TRUE

LEMMA ForgeIssueEnds ==
  ASSUME NEW config, NEW d
  PROVE  Ends(ForgeIssue(config, d))
<1>1. Gate({}, d.action = "labeled", "202") \in SafeGate
  BY DEF Gate, SafeGate, Codes
<1>2. Gate({}, LinkFor(config, d) = {}, "202") \in SafeGate
  BY DEF Gate, SafeGate, Codes
<1>3. Gate({"issue"}, TRUE, "calls") \in SafeGate
  BY DEF Gate, SafeGate, Codes, Objects
<1>4. QED
  <2> DEFINE gates == ForgeIssue(config, d)
  <2>1. gates \in Seq(SafeGate)
    BY Zenon, TupleInSeq, <1>1, <1>2, <1>3 DEF ForgeIssue
  <2>2. Len(gates) = 3 /\ gates[3].applies = TRUE
    BY DEF ForgeIssue, Gate
  <2>3. QED
    BY <2>1, <2>2 DEF Ends

LEMMA ForgeCommentEnds ==
  ASSUME NEW config, NEW d
  PROVE  Ends(ForgeComment(config, d))
<1>1. Gate({}, LinkFor(config, d) = {}, "202") \in SafeGate
  BY DEF Gate, SafeGate, Codes
<1>2. Gate({}, d.action # "created", "202") \in SafeGate
  BY DEF Gate, SafeGate, Codes
<1>3. Gate({}, "issue" \notin Parsed(d), "422") \in SafeGate
  BY DEF Gate, SafeGate, Codes
<1>4. Gate({"issue", "comment"}, TRUE, "calls") \in SafeGate
  BY DEF Gate, SafeGate, Codes, Objects
<1>5. QED
  <2> DEFINE gates == ForgeComment(config, d)
  <2>1. gates \in Seq(SafeGate)
    BY Zenon, TupleInSeq, <1>1, <1>2, <1>3, <1>4 DEF ForgeComment
  <2>2. Len(gates) = 4 /\ gates[4].applies = TRUE
    BY DEF ForgeComment, Gate
  <2>3. QED
    BY <2>1, <2>2 DEF Ends

LEMMA ForgePullRequestEnds ==
  ASSUME NEW config, NEW d
  PROVE  Ends(ForgePullRequest(config, d))
<1>1. Gate({}, \A k \in LinkFor(config, d) :
                 config.links[k].identifier = "" \/ config.links[k].prKeys = {}, "202") \in SafeGate
  BY DEF Gate, SafeGate, Codes
<1>2. Gate({}, d.event = "pull_request_review", "202") \in SafeGate
  BY DEF Gate, SafeGate, Codes
<1>3. Gate({}, "pull_request" \notin Parsed(d), "422") \in SafeGate
  BY DEF Gate, SafeGate, Codes
<1>4. Gate({"pull_request"}, ~d.names, "202") \in SafeGate
  BY DEF Gate, SafeGate, Codes, Objects
<1>5. Gate({"pull_request"}, \A k \in LinkFor(config, d) :
             ActionKey(d) \notin config.links[k].prKeys, "202") \in SafeGate
  BY DEF Gate, SafeGate, Codes, Objects
<1>6. Gate({"pull_request"}, TRUE, "calls") \in SafeGate
  BY DEF Gate, SafeGate, Codes, Objects
<1>7. QED
  <2> DEFINE gates == ForgePullRequest(config, d)
  <2>1. gates \in Seq(SafeGate)
    BY ZenonT(30), TupleInSeq, <1>1, <1>2, <1>3, <1>4, <1>5, <1>6 DEF ForgePullRequest
  <2>2. Len(gates) = 6 /\ gates[6].applies = TRUE
    BY DEF ForgePullRequest, Gate
  <2>3. QED
    BY <2>1, <2>2 DEF Ends

LEMMA PlaneWorkItemEnds ==
  ASSUME NEW config, Sound(config), NEW d \in Delivery
  PROVE  Ends(PlaneWorkItem(config, d))
<1>1. Gate({}, "work_item" \notin Parsed(d), IF d.action = "delete" THEN "202" ELSE "422")
        \in SafeGate
  BY DEF Gate, SafeGate, Codes
<1>2. Gate({"work_item"}, LinkFor(config, d) = {}, "202") \in SafeGate
  BY DEF Gate, SafeGate, Codes, Objects
<1>3. Gate({}, d.action # "create", "202") \in SafeGate
  BY DEF Gate, SafeGate, Codes
<1>4. Gate({"work_item"}, d.copy, "202") \in SafeGate
  BY DEF Gate, SafeGate, Codes, Objects, Delivery
<1>5. Gate({}, \E k \in LinkFor(config, d) : config.links[k].repo # "good", "500") \in SafeGate
  <2>1. ~ \E k \in LinkFor(config, d) : config.links[k].repo # "good"
    BY DEF LinkFor, Sound
  <2>2. QED
    BY <2>1 DEF Gate, SafeGate, Codes
<1>6. Gate({"work_item"}, TRUE, "calls") \in SafeGate
  BY DEF Gate, SafeGate, Codes, Objects
<1>7. QED
  <2> DEFINE gates == PlaneWorkItem(config, d)
  <2>1. gates \in Seq(SafeGate)
    BY Zenon, TupleInSeq, <1>1, <1>2, <1>3, <1>4, <1>5, <1>6 DEF PlaneWorkItem
  <2>2. Len(gates) = 6 /\ gates[6].applies = TRUE
    BY DEF PlaneWorkItem, Gate
  <2>3. QED
    BY <2>1, <2>2 DEF Ends

LEMMA PlaneCommentEnds ==
  ASSUME NEW d
  PROVE  Ends(PlaneComment(d))
<1>1. Gate({}, d.action # "create", "202") \in SafeGate
  BY DEF Gate, SafeGate, Codes
<1>2. Gate({}, "comment" \notin Parsed(d), "422") \in SafeGate
  BY DEF Gate, SafeGate, Codes
<1>3. Gate({"comment"}, TRUE, "calls") \in SafeGate
  BY DEF Gate, SafeGate, Codes, Objects
<1>4. QED
  <2> DEFINE gates == PlaneComment(d)
  <2>1. gates \in Seq(SafeGate)
    BY Zenon, TupleInSeq, <1>1, <1>2, <1>3 DEF PlaneComment
  <2>2. Len(gates) = 3 /\ gates[3].applies = TRUE
    BY DEF PlaneComment, Gate
  <2>3. QED
    BY <2>1, <2>2 DEF Ends

LEMMA DispatchEnds ==
  ASSUME NEW config, Sound(config), NEW d \in Delivery
  PROVE  Ends(Dispatch(config, d))
<1>1. Ends(<< Gate({}, TRUE, "202") >>)
  <2> DEFINE gates == << Gate({}, TRUE, "202") >>
  <2>1. Gate({}, TRUE, "202") \in SafeGate
    BY DEF Gate, SafeGate, Codes
  <2>2. gates \in Seq(SafeGate)
    BY Zenon, TupleInSeq, <2>1
  <2>3. Len(gates) = 1 /\ gates[1].applies = TRUE
    BY DEF Gate
  <2> HIDE DEF gates
  <2>4. Ends(gates)
    BY <2>2, <2>3 DEF Ends
  <2>5. QED
    BY <2>4 DEF gates
<1>2. QED
  BY <1>1, ForgeIssueEnds, ForgeCommentEnds, ForgePullRequestEnds, PlaneWorkItemEnds,
     PlaneCommentEnds DEF Dispatch

LEMMA GatesEnd ==
  ASSUME NEW config, Sound(config), NEW d \in Delivery
  PROVE  Ends(Gates(config, d))
<1> DEFINE checks == Checks("good", d)
           parse == IF d.side = "forge" THEN ForgeParse(d) ELSE PlaneParse(d)
           marker == MarkerGate(d)
           dispatch == Dispatch(config, d)
<1>1. checks \in Seq(SafeGate)
  BY ChecksSafe
<1>2. parse \in Seq(SafeGate)
  BY ForgeParseSafe, PlaneParseSafe
<1>3. marker \in Seq(SafeGate)
  BY MarkerGateSafe
<1>4. Ends(dispatch)
  BY DispatchEnds
<1>5. Gates(config, d) = checks \o parse \o marker \o dispatch
  BY SecretThere DEF Gates
<1> HIDE DEF checks, parse, marker, dispatch
<1>6. Ends(checks \o parse \o marker \o dispatch)
  <2>1. checks \o parse \o marker \in Seq(SafeGate)
    BY <1>1, <1>2, <1>3
  <2> DEFINE before == checks \o parse \o marker
  <2> HIDE DEF before
  <2>2. before \in Seq(SafeGate)
    BY <2>1 DEF before
  <2>3. Ends(before \o dispatch)
    BY <2>2, <1>4 DEF Ends
  <2>4. QED
    BY <2>3 DEF before
<1>7. QED
  BY <1>5, <1>6

LEMMA Least ==
  ASSUME NEW T \in SUBSET Nat, T # {}
  PROVE  \E x \in T : \A y \in T : x <= y
<1>1. PICK x \in T : \A y \in T : ~(<<y, x>> \in OpToRel(<, Nat))
  BY NatLessThanWellFounded, WFMin
<1>2. \A y \in T : ~(y < x)
  BY <1>1 DEF OpToRel
<1>3. QED
  BY <1>2

\* Gates that read nothing.
Blind(gates) == \A k \in DOMAIN gates : gates[k].reads = {}

\* A gate that reads an object the event may lack comes after one that applies then.
Guarded(gates, d) ==
  \A k \in DOMAIN gates : \/ gates[k].reads \subseteq Parsed(d)
                          \/ \E j \in 1..(k - 1) : gates[j].applies

\* Five of them.
LEMMA BlindTuple ==
  ASSUME NEW a, NEW b, NEW c, NEW d, NEW e,
         a.reads = {}, b.reads = {}, c.reads = {}, d.reads = {}, e.reads = {}
  PROVE  Blind(<<a, b, c, d, e>>)
BY DEF Blind

\* The checks, the parsers and the marker read no object.
LEMMA BlindGates ==
  ASSUME NEW secret, NEW d
  PROVE  /\ Blind(Checks(secret, d)) /\ Blind(ForgeParse(d)) /\ Blind(PlaneParse(d))
         /\ Blind(MarkerGate(d))
<1>1. Blind(Checks(secret, d))
  <2>1. PICK a, b, c, e, f : /\ a = Gate({}, "too_large" \in d.flaws, "413")
                             /\ b = Gate({}, "broken_off" \in d.flaws, "400")
                             /\ c = Gate({}, secret = "", "500")
                             /\ e = Gate({}, "unsigned" \in d.flaws \/ "forged" \in d.flaws, "401")
                             /\ f = Gate({}, "no_event" \in d.flaws, "400")
    OBVIOUS
  <2>2. a.reads = {} /\ b.reads = {} /\ c.reads = {} /\ e.reads = {} /\ f.reads = {}
    BY <2>1 DEF Gate
  <2>3. Checks(secret, d) = <<a, b, c, e, f>>
    BY <2>1, Zenon DEF Checks
  <2> QED BY <2>2, <2>3, BlindTuple
<1>2. Blind(ForgeParse(d))
  BY DEF Blind, ForgeParse, Gate
<1>3. Blind(PlaneParse(d))
  BY DEF Blind, PlaneParse, Gate
<1>4. Blind(MarkerGate(d))
  BY DEF Blind, MarkerGate, Gate
<1> QED BY <1>1, <1>2, <1>3, <1>4

\* What a parser lets through has the objects its event requires.
LEMMA ParserRequires ==
  ASSUME NEW d,
         \A k \in DOMAIN (IF d.side = "forge" THEN ForgeParse(d) ELSE PlaneParse(d)) :
           ~(IF d.side = "forge" THEN ForgeParse(d) ELSE PlaneParse(d))[k].applies
  PROVE  Required(d.event) \subseteq d.objects
<1>1. CASE d.side = "forge"
  <2>1. 4 \in DOMAIN ForgeParse(d) /\ ForgeParse(d)[4].applies = ~(Required(d.event) \subseteq d.objects)
    BY DEF ForgeParse, Gate
  <2> QED BY <1>1, <2>1
<1>2. CASE d.side # "forge"
  <2>1. 2 \in DOMAIN PlaneParse(d) /\ PlaneParse(d)[2].applies = (d.event \notin PlaneEvents)
    BY DEF PlaneParse, Gate
  <2>2. d.event \in {"issue", "comment"}
    BY <1>2, <2>1 DEF PlaneEvents
  <2> QED BY <2>2 DEF Required
<1> QED BY <1>1, <1>2

\* The gate at g, which applies if o is missing, guards those behind it that read o.
LEMMA GuardedFrom ==
  ASSUME NEW gates, NEW n \in Nat, DOMAIN gates = 1..n, NEW d, NEW g \in 1..n, NEW o,
         gates[g].applies = (o \notin Parsed(d)),
         \A k \in 1..n : \/ gates[k].reads \subseteq Parsed(d)
                         \/ k > g /\ gates[k].reads \subseteq Parsed(d) \cup {o}
  PROVE  Guarded(gates, d)
<1> SUFFICES ASSUME NEW k \in 1..n
             PROVE  \/ gates[k].reads \subseteq Parsed(d)
                    \/ \E j \in 1..(k - 1) : gates[j].applies
  BY DEF Guarded
<1>1. CASE gates[k].reads \subseteq Parsed(d)
  BY <1>1
<1>2. CASE ~(gates[k].reads \subseteq Parsed(d))
  <2>1. g \in 1..(k - 1) /\ o \notin Parsed(d)
    BY <1>2
  <2>2. gates[g].applies
    BY <2>1
  <2> QED BY <2>1, <2>2
<1> QED BY <1>1, <1>2

\* Behind the parsers, no handler reads an object before it knows that it is there.
LEMMA DispatchGuarded ==
  ASSUME NEW config, NEW d \in Delivery, Required(d.event) \subseteq d.objects
  PROVE  Guarded(Dispatch(config, d), d)
<1>1. CASE d.event = "issues"
  <2>1. "issue" \in Parsed(d)
    BY <1>1 DEF Required, Parsed
  <2>2. Guarded(ForgeIssue(config, d), d)
    BY <2>1 DEF Guarded, ForgeIssue, Gate
  <2> QED BY <1>1, <2>2 DEF Dispatch
<1>2. CASE d.event = "issue_comment"
  <2>1. "comment" \in Parsed(d)
    BY <1>2 DEF Required, Parsed
  <2> DEFINE gates == ForgeComment(config, d)
  <2>2. /\ DOMAIN gates = 1..4 /\ gates[1].reads = {} /\ gates[2].reads = {} /\ gates[3].reads = {}
        /\ gates[4].reads = {"issue", "comment"} /\ gates[3].applies = ("issue" \notin Parsed(d))
    BY DEF ForgeComment, Gate
  <2> HIDE DEF gates
  <2>3. \A k \in 1..4 : \/ gates[k].reads \subseteq Parsed(d)
                        \/ k > 3 /\ gates[k].reads \subseteq Parsed(d) \cup {"issue"}
    BY <2>1, <2>2
  <2>4. DOMAIN gates = 1..4 /\ gates[3].applies = ("issue" \notin Parsed(d))
    BY <2>2
  <2>5. PICK g \in 1..4 : g = 3
    OBVIOUS
  <2>6. Guarded(gates, d)
    <3>1. /\ gates[g].applies = ("issue" \notin Parsed(d))
          /\ \A k \in 1..4 : \/ gates[k].reads \subseteq Parsed(d)
                             \/ k > g /\ gates[k].reads \subseteq Parsed(d) \cup {"issue"}
      BY <2>4, <2>3, <2>5
    <3> QED BY <2>4, <3>1, 4 \in Nat, GuardedFrom, Zenon
  <2> QED BY <1>2, <2>6 DEF Dispatch, gates
<1>3. CASE d.event \in {"pull_request", "pull_request_review"}
  <2> DEFINE gates == ForgePullRequest(config, d)
  <2>1. PICK off, unnamed, unmapped :
          /\ off = (\A k \in LinkFor(config, d) :
                      config.links[k].identifier = "" \/ config.links[k].prKeys = {})
          /\ unnamed = ~d.names
          /\ unmapped = (\A k \in LinkFor(config, d) : ActionKey(d) \notin config.links[k].prKeys)
    OBVIOUS
  <2>2. gates = << Gate({}, off, "202"), Gate({}, d.event = "pull_request_review", "202"),
                   Gate({}, "pull_request" \notin Parsed(d), "422"),
                   Gate({"pull_request"}, unnamed, "202"), Gate({"pull_request"}, unmapped, "202"),
                   Gate({"pull_request"}, TRUE, "calls") >>
    BY <2>1, Zenon DEF ForgePullRequest
  <2> HIDE DEF gates
  <2>3. /\ DOMAIN gates = 1..6 /\ gates[1].reads = {} /\ gates[2].reads = {} /\ gates[3].reads = {}
        /\ \A k \in 4..6 : gates[k].reads = {"pull_request"}
        /\ gates[3].applies = ("pull_request" \notin Parsed(d))
    BY <2>2 DEF Gate
  <2>4. \A k \in 1..6 : \/ gates[k].reads \subseteq Parsed(d)
                        \/ k > 3 /\ gates[k].reads \subseteq Parsed(d) \cup {"pull_request"}
    BY <2>3
  <2>5. DOMAIN gates = 1..6 /\ gates[3].applies = ("pull_request" \notin Parsed(d))
    BY <2>3
  <2>6. PICK g \in 1..6 : g = 3
    OBVIOUS
  <2>7. Guarded(gates, d)
    <3>1. /\ gates[g].applies = ("pull_request" \notin Parsed(d))
          /\ \A k \in 1..6 : \/ gates[k].reads \subseteq Parsed(d)
                             \/ k > g /\ gates[k].reads \subseteq Parsed(d) \cup {"pull_request"}
      BY <2>5, <2>4, <2>6
    <3> QED BY <2>5, <3>1, 6 \in Nat, GuardedFrom, Zenon
  <2> QED BY <1>3, <2>7 DEF Dispatch, gates
<1>4. CASE d.event = "issue"
  <2> DEFINE gates == PlaneWorkItem(config, d)
  <2>1. /\ DOMAIN gates = 1..6 /\ gates[1].reads = {}
        /\ \A k \in 2..6 : gates[k].reads \in {{}, {"work_item"}}
        /\ gates[1].applies = ("work_item" \notin Parsed(d))
    BY DEF PlaneWorkItem, Gate
  <2> HIDE DEF gates
  <2>2. \A k \in 1..6 : \/ gates[k].reads \subseteq Parsed(d)
                        \/ k > 1 /\ gates[k].reads \subseteq Parsed(d) \cup {"work_item"}
    BY <2>1
  <2>3. Guarded(gates, d)
    BY <2>1, <2>2, 6 \in Nat, 1 \in 1..6, GuardedFrom, Zenon
  <2> QED BY <1>4, <2>3 DEF Dispatch, gates
<1>5. CASE d.event = "comment"
  <2> DEFINE gates == PlaneComment(d)
  <2>1. /\ DOMAIN gates = 1..3 /\ gates[1].reads = {} /\ gates[2].reads = {}
        /\ gates[3].reads = {"comment"} /\ gates[2].applies = ("comment" \notin Parsed(d))
    BY DEF PlaneComment, Gate
  <2> HIDE DEF gates
  <2>2. \A k \in 1..3 : \/ gates[k].reads \subseteq Parsed(d)
                        \/ k > 2 /\ gates[k].reads \subseteq Parsed(d) \cup {"comment"}
    BY <2>1
  <2>3. Guarded(gates, d)
    BY <2>1, <2>2, 3 \in Nat, 2 \in 1..3, GuardedFrom, Zenon
  <2> QED BY <1>5, <2>3 DEF Dispatch, gates
<1>6. CASE d.event \notin {"issues", "issue_comment", "pull_request", "pull_request_review",
                           "issue", "comment"}
  <2>1. Dispatch(config, d) = << Gate({}, TRUE, "202") >>
    BY <1>6 DEF Dispatch
  <2>2. Guarded(<< Gate({}, TRUE, "202") >>, d)
    BY DEF Guarded, Gate
  <2> QED BY <2>1, <2>2
<1> QED BY <1>1, <1>2, <1>3, <1>4, <1>5, <1>6

\* Gates that read nothing guard those behind them.
LEMMA BlindGuard ==
  ASSUME NEW d, NEW S, NEW before \in Seq(S), NEW after \in Seq(S), Blind(before),
         (\A j \in DOMAIN before : ~before[j].applies) => Guarded(after, d)
  PROVE  Guarded(before \o after, d)
<1> DEFINE all == before \o after
<1>1. /\ Len(before) \in Nat /\ Len(after) \in Nat
      /\ DOMAIN before = 1..Len(before) /\ DOMAIN after = 1..Len(after)
      /\ DOMAIN all = 1..(Len(before) + Len(after))
      /\ \A j \in 1..Len(before) : all[j] = before[j]
      /\ \A j \in 1..Len(after) : all[Len(before) + j] = after[j]
  OBVIOUS
<1> HIDE DEF all
<1> SUFFICES ASSUME NEW k \in DOMAIN all, ~(all[k].reads \subseteq Parsed(d))
             PROVE  \E j \in 1..(k - 1) : all[j].applies
  BY DEF Guarded, all
<1>2. k > Len(before)
  BY <1>1 DEF Blind
<1>3. CASE \E j \in DOMAIN before : before[j].applies
  BY <1>1, <1>2, <1>3
<1>4. CASE \A j \in DOMAIN before : ~before[j].applies
  <2>1. PICK i \in DOMAIN after : k = Len(before) + i
    <3>1. k - Len(before) \in 1..Len(after) /\ k = Len(before) + (k - Len(before))
      BY <1>1, <1>2
    <3> QED BY <1>1, <3>1
  <2>2. PICK j \in 1..(i - 1) : after[j].applies
    BY <1>1, <1>4, <2>1 DEF Guarded
  <2>3. Len(before) + j \in 1..(k - 1) /\ all[Len(before) + j] = after[j]
    BY <1>1, <2>1, <2>2
  <2> QED BY <2>2, <2>3
<1> QED BY <1>3, <1>4

\* All gates together are guarded.
LEMMA GatesGuarded ==
  ASSUME NEW config, Sound(config), NEW d \in Delivery
  PROVE  Guarded(Gates(config, d), d)
<1> DEFINE checks == Checks("good", d)
           parse == IF d.side = "forge" THEN ForgeParse(d) ELSE PlaneParse(d)
           marker == MarkerGate(d)
           dispatch == Dispatch(config, d)
<1>1. checks \in Seq(SafeGate) /\ parse \in Seq(SafeGate) /\ marker \in Seq(SafeGate)
      /\ dispatch \in Seq(SafeGate)
  BY ChecksSafe, ForgeParseSafe, PlaneParseSafe, MarkerGateSafe, DispatchEnds DEF Ends
<1>2. Gates(config, d) = checks \o parse \o marker \o dispatch
  BY SecretThere DEF Gates
<1>3. Blind(checks) /\ Blind(parse) /\ Blind(marker)
  BY BlindGates
<1>4. (\A k \in DOMAIN parse : ~parse[k].applies) => Guarded(dispatch, d)
  BY ParserRequires, DispatchGuarded
<1> HIDE DEF checks, parse, marker, dispatch
<1>5. checks \o parse \o marker \o dispatch = checks \o (parse \o (marker \o dispatch))
  BY SMTT(30), <1>1
<1>6. marker \o dispatch \in Seq(SafeGate) /\ parse \o (marker \o dispatch) \in Seq(SafeGate)
  BY <1>1
<1>7. (\A k \in DOMAIN parse : ~parse[k].applies) => Guarded(marker \o dispatch, d)
  BY <1>1, <1>3, <1>4, BlindGuard
<1>8. Guarded(parse \o (marker \o dispatch), d)
  BY <1>1, <1>3, <1>6, <1>7, BlindGuard
<1>9. Guarded(checks \o (parse \o (marker \o dispatch)), d)
  BY <1>1, <1>3, <1>6, <1>8, BlindGuard
<1> QED BY <1>2, <1>5, <1>9

\* Some gate is the first to stop a delivery; it never answers 500, and never reads
\* an object that is not there.
LEMMA VerdictSafe ==
  ASSUME NEW config, Sound(config), NEW d \in Delivery
  PROVE  Verdict(config, d) \in (Codes \ {"500"}) \cup {"calls"}
<1> DEFINE gates == Gates(config, d)
           Halts(k) == gates[k].applies \/ ~(gates[k].reads \subseteq Parsed(d))
           First(k) == /\ k \in DOMAIN gates /\ Halts(k)
                       /\ \A j \in 1..(k - 1) : ~Halts(j)
<1>1. gates \in Seq(SafeGate) /\ Len(gates) > 0 /\ gates[Len(gates)].applies = TRUE
  BY GatesEnd DEF Ends
<1>g. Guarded(gates, d)
  BY GatesGuarded
<1> HIDE DEF gates
<1>2. \E k : First(k)
  <2> DEFINE S == {k \in DOMAIN gates : Halts(k)}
  <2>1. S \subseteq Nat /\ Len(gates) \in S
    BY <1>1
  <2>2. PICK k \in S : \A j \in S : k <= j
    BY <2>1, Least
  <2>3. QED
    BY <2>1, <2>2, <1>1
<1> DEFINE k == CHOOSE i \in DOMAIN gates : Halts(i) /\ \A j \in 1..(i - 1) : ~Halts(j)
<1>3. First(k)
  BY <1>2, Zenon
<1>a. Verdict(config, d) = IF gates[k].reads \subseteq Parsed(d) THEN gates[k].answer ELSE "panic"
  BY Zenon DEF Verdict, gates
<1> HIDE DEF k
<1>4. gates[k] \in SafeGate
  BY <1>1, <1>3
<1>5. gates[k].reads \subseteq Parsed(d)
  BY <1>3, <1>g DEF Guarded
<1>6. QED
  BY <1>3, <1>a, <1>4, <1>5 DEF SafeGate
-----------------------------------------------------------------------------
(***************************************************************************)
(* The loader.                                                             *)
(***************************************************************************)

LEMMA ResolvedTyped ==
  ASSUME NEW file \in File, NEW env \in Environment
  PROVE  Resolved(file, env) \in File
<1> DEFINE settings == [s \in Settings |-> IF s \in Overridable /\ env[s] # "" THEN env[s]
                                          ELSE file.settings[s]]
           completed == [s \in Settings |-> IF s = "log_level" /\ settings[s] = "" THEN "good"
                                           ELSE settings[s]]
           overridden == Overridden(file, env)
<1>1. settings \in [Settings -> Values]
  BY DEF File, Environment
<1>2. completed \in [Settings -> Values]
  BY <1>1 DEF Values
<1>3. overridden \in File /\ overridden.settings = settings
  BY <1>1 DEF Overridden, File
<1> HIDE DEF overridden, settings
<1>4. Completed(overridden) \in File
  <2> DEFINE cap == IF overridden.capacity = 0 THEN defaultLRUCapacity ELSE overridden.capacity
  <2>1. cap \in Int
    BY <1>3 DEF File, defaultLRUCapacity
  <2>3. Completed(overridden) = [overridden EXCEPT !.settings = completed, !.capacity = cap]
    BY <1>3 DEF Completed
  <2> HIDE DEF cap, completed
  <2>4. [overridden EXCEPT !.settings = completed, !.capacity = cap] \in File
    BY <1>2, <1>3, <2>1 DEF File
  <2>5. QED
    BY <2>3, <2>4
<1>5. QED
  BY <1>4 DEF Resolved, overridden

LEMMA Positive == \A n \in Int : n > 0 => n >= 1
OBVIOUS

\* What the loader lets through is sound.
LEMMA LoadedSound ==
  ASSUME NEW file \in File, NEW env \in Environment, LoadError(file, env) = ""
  PROVE  Sound(Resolved(file, env))
<1> DEFINE config == Resolved(file, env)
<1>1. config \in File
  BY ResolvedTyped
<1> HIDE DEF config
<1>2. ErrorOf(config) = ""
  BY DEF LoadError, config
<1>3. Valid(config) /\ SecretsFound(config)
  BY <1>1, <1>2 DEF ErrorOf, File
<1>4. Sound(config)
  <2>1. \A s \in SecretNames \cup Formed : config.settings[s] = "good"
    BY <1>3 DEF Valid, SecretsFound
  <2>2. \A k \in DOMAIN config.links : /\ config.links[k].repo = "good"
                                      /\ config.links[k].project = "good"
                                      /\ config.links[k].identifier # "bad"
    BY <1>3 DEF Valid, LinkValid
  <2>3. config.capacity >= 1
    <3>1. config.capacity > 0
      BY <1>3 DEF Valid
    <3>2. config.capacity \in Int
      BY <1>1 DEF File
    <3>3. QED
      BY <3>1, <3>2, Positive
  <2>4. QED
    BY <2>1, <2>2, <2>3 DEF Sound
<1>5. QED
  BY <1>4 DEF config
-----------------------------------------------------------------------------
(***************************************************************************)
(* The inductive invariant.                                                *)
(***************************************************************************)

\* Of one connection.
ConnectionOK(c) ==
  /\ c \in Connection
  /\ c.at = "lookup" => c.lookup # "none" /\ c.calls = 1
  /\ c.at = "write" => c.calls > 0
  /\ c.at \in {"answering", "answered"} => c.answer \in Codes
  /\ c.answer = "500" => c.calls > 0
  /\ c.at # "panicked"

LiveStages == {"open", "reading", "lookup", "write", "answering"}

\* Of one connection and main: none is alive but in a process that serves; while
\* it drains, each is as old as the shutdown; none is cut off before the end.
PlaceOK(c) ==
  /\ c.at \in LiveStages => pc \in {"up", "draining"}
  /\ c.at \in LiveStages /\ pc = "draining" => c.age >= drained
  /\ c.at = "cut" => pc = "exited"
  /\ c.at = "cut" => exit # "clean"
  /\ c.at = "cut" /\ exit = "error" /\ errCh # "err" => c.age >= DrainTimeout

\* Of main and the goroutine that serves: only a shutdown closes the listener
\* without an error.
MainOK ==
  /\ start \in Starts
  /\ pc \in {"boot", "up", "draining", "collect", "exited"}
  /\ exit \in {"", "clean", "error", "killed"}
  /\ signalled \in BOOLEAN /\ drained \in 0..DrainTimeout
  /\ listener \in {"none", "open", "closing", "closed"} /\ errCh \in {"", "nil", "err"}
  /\ (exit = "") = (pc # "exited")
  /\ pc \in {"draining", "collect"} => signalled
  /\ exit = "clean" => signalled
  /\ listener = "open" => pc = "up"
  /\ listener = "closing" => pc \in {"draining", "collect"}
  /\ pc \in {"boot", "up"} => errCh # "nil" /\ drained = 0
  /\ pc = "boot" => errCh = ""
  /\ Running => Sound(Config)

IInv ==
  /\ MainOK
  /\ conn \in [Requests -> Connection]
  /\ \A r \in Requests : ConnectionOK(conn[r]) /\ PlaceOK(conn[r])

LEMMA InitOK == Init => IInv
<1>1. Fresh \in Connection /\ ConnectionOK(Fresh)
  BY MaxCallsAssumption DEF Fresh, Connection, ConnectionOK, Lookups, Codes
<1>2. ASSUME Init PROVE IInv
  <2>1. MainOK
    <3>1. pc = "boot" /\ errCh = "" /\ exit = "" /\ ~Running /\ errCh # "nil" /\ drained = 0
      BY <1>2 DEF Init, Running
    <3>2. 0 \in 0..DrainTimeout
      BY TimesAssumption
    <3>3. QED
      BY <1>2, <3>1, <3>2 DEF Init, MainOK
  <2>2. conn \in [Requests -> Connection]
    BY <1>1, <1>2 DEF Init
  <2>3. \A r \in Requests : conn[r] = Fresh
    BY <1>2 DEF Init
  <2>4. PlaceOK(Fresh)
    BY DEF PlaceOK, Fresh, LiveStages
  <2>5. QED
    BY <1>1, <2>1, <2>2, <2>3, <2>4, Zenon DEF IInv
<1>3. QED
  BY <1>2

\* A step of one connection that leaves main alone.
LEMMA ConnectionStep ==
  ASSUME IInv, NEW r \in Requests, NEW c, Becomes(r, c), ConnectionOK(c), PlaceOK(c)
  PROVE  IInv'
<1>1. MainOK'
  BY DEF IInv, MainOK, Becomes, Running, Config
<1>2. conn' \in [Requests -> Connection]
  BY DEF IInv, Becomes, ConnectionOK
<1>3. ASSUME NEW q \in Requests
      PROVE  ConnectionOK(conn[q])' /\ PlaceOK(conn[q])'
  <2>1. conn'[q] = c \/ conn'[q] = conn[q]
    BY DEF IInv, Becomes
  <2>2. UNCHANGED <<pc, drained, exit, errCh>>
    BY DEF Becomes
  <2>3. QED
    BY <2>1, <2>2 DEF IInv, ConnectionOK, PlaceOK
<1>4. QED
  BY <1>1, <1>2, <1>3 DEF IInv
-----------------------------------------------------------------------------
(***************************************************************************)
(* Steps of main and of the goroutine that serves.                         *)
(***************************************************************************)

\* The end of the process, for whatever reason.
LEMMA ExitStep ==
  ASSUME IInv, NEW how \in {"clean", "error", "killed"}, Exit(how), pc # "exited",
         how = "clean" => signalled /\ (\A r \in Requests : conn[r].at \notin LiveStages),
         how = "error" => \/ errCh = "err"
                          \/ \A r \in Requests :
                               conn[r].at \in LiveStages => conn[r].age >= DrainTimeout
  PROVE  IInv'
<1>1. MainOK'
  BY DEF IInv, MainOK, Exit, Running
<1>2. Fresh \in Connection
  BY MaxCallsAssumption DEF Fresh, Connection, Lookups, Codes
<1>3. ASSUME NEW r \in Requests
      PROVE  ConnectionOK(conn'[r]) /\ PlaceOK(conn[r])'
  <2>0. ConnectionOK(conn[r]) /\ PlaceOK(conn[r]) /\ conn[r] \in Connection
    BY DEF IInv, ConnectionOK
  <2>1. CASE Handled(r)
    <3>1. conn'[r] = [conn[r] EXCEPT !.at = "cut"]
      BY <2>1 DEF Exit
    <3>2. /\ conn'[r].at = "cut" /\ conn'[r] \in Connection
          /\ conn'[r].answer = conn[r].answer /\ conn'[r].calls = conn[r].calls
          /\ conn'[r].age = conn[r].age
      BY <2>0, <3>1 DEF Connection
    <3>3. conn[r].at \in LiveStages
      BY <2>1 DEF Handled, LiveStages
    <3>4. pc' = "exited" /\ exit' = how /\ errCh' = errCh
      BY DEF Exit
    <3>5. ConnectionOK(conn'[r])
      BY <2>0, <3>2 DEF ConnectionOK
    <3>6. PlaceOK(conn[r])'
      BY <3>2, <3>3, <3>4 DEF PlaceOK, LiveStages
    <3>7. QED
      BY <3>5, <3>6
  <2>2. CASE ~Handled(r) /\ Alive(r)
    <3>1. conn'[r] = [Fresh EXCEPT !.at = "dropped"]
      BY <2>2 DEF Exit
    <3>2. /\ conn'[r].at = "dropped" /\ conn'[r] \in Connection /\ conn'[r].answer = ""
      BY <1>2, <3>1 DEF Connection, Fresh
    <3>3. QED
      BY <3>2 DEF ConnectionOK, PlaceOK, LiveStages
  <2>3. CASE ~Handled(r) /\ ~Alive(r)
    <3>1. conn'[r] = conn[r]
      BY <2>3 DEF Exit
    <3>2. conn[r].at \notin LiveStages /\ conn[r].at # "cut"
      BY <2>0, <2>3 DEF Alive, LiveStages, PlaceOK
    <3>3. QED
      BY <2>0, <3>1, <3>2 DEF PlaceOK
  <2>4. QED
    BY <2>1, <2>2, <2>3
<1>4. conn' \in [Requests -> Connection]
  <2>1. conn' = [r \in Requests |-> conn'[r]]
    BY DEF Exit
  <2>2. \A r \in Requests : conn'[r] \in Connection
    BY <1>3 DEF ConnectionOK
  <2>3. QED
    BY <2>1, <2>2
<1>5. QED
  BY <1>1, <1>3, <1>4 DEF IInv, ConnectionOK

\* A step of main, or of the goroutine that serves, that leaves the connections
\* alone.
LEMMA QuietStep ==
  ASSUME IInv, MainOK', UNCHANGED conn, UNCHANGED exit, UNCHANGED drained,
         pc # "exited", pc' # "exited",
         \/ pc' = pc
         \/ pc = "boot"
         \/ pc' = "draining" /\ drained = 0
         \/ \A r \in Requests : conn[r].at \notin LiveStages
  PROVE  IInv'
<1>1. \A r \in Requests : ConnectionOK(conn'[r])
  BY DEF IInv
<1>2. ASSUME NEW r \in Requests PROVE PlaceOK(conn[r])'
  <2>1. PlaceOK(conn[r]) /\ conn[r] \in Connection
    BY DEF IInv
  <2>2. conn[r].age \in Nat
    BY <2>1 DEF Connection
  <2>3. pc \in {"boot", "up", "draining", "collect"} /\ pc' \in {"boot", "up", "draining", "collect"}
    BY DEF IInv, MainOK
  <2>4. QED
    BY <2>1, <2>2, <2>3 DEF PlaceOK, LiveStages
<1>3. QED
  BY <1>1, <1>2 DEF IInv, ConnectionOK

LEMMA LoadStep == IInv /\ Load => IInv'
<1> SUFFICES ASSUME IInv, Load PROVE IInv'
  OBVIOUS
<1>1. start \in Starts /\ start.file \in File /\ start.env \in Environment
  BY StartsAssumption DEF IInv, MainOK
<1>2. pc = "boot" /\ \A r \in Requests : conn[r].at \notin LiveStages
  BY DEF Load, IInv, PlaceOK
<1>3. CASE LoadError(start.file, start.env) # ""
  <2>1. Exit("error")
    BY <1>3 DEF Load
  <2>2. QED
    BY <1>2, <2>1, ExitStep
<1>4. CASE LoadError(start.file, start.env) = ""
  <2>1. Sound(Config)
    BY <1>1, <1>4, LoadedSound DEF Config
  <2>2. pc' = "up" /\ UNCHANGED <<start, exit, signalled, drained, listener, errCh, conn>>
    BY <1>4 DEF Load
  <2>3. Sound(Config)'
    BY <2>1, <2>2 DEF Config
  <2>4. MainOK'
    BY <1>2, <2>2, <2>3 DEF IInv, MainOK
  <2>5. QED
    BY <1>2, <2>2, <2>4, QuietStep
<1>5. QED
  BY <1>3, <1>4

LEMMA SignalStep == IInv /\ Signal => IInv'
<1> SUFFICES ASSUME IInv, Signal PROVE IInv'
  OBVIOUS
<1>1. CASE pc = "boot" /\ Exit("killed")
  BY <1>1, ExitStep
<1>2. CASE pc \in {"up", "draining", "collect"} /\ signalled' = TRUE
           /\ UNCHANGED <<start, pc, exit, drained, listener, errCh, conn>>
  <2>1. MainOK'
    BY <1>2 DEF IInv, MainOK, Running, Config
  <2>2. QED
    BY <1>2, <2>1, QuietStep
<1>3. QED
  BY <1>1, <1>2 DEF Signal

LEMMA KillStep == IInv /\ Kill => IInv'
BY ExitStep DEF Kill

LEMMA ShutdownStep == IInv /\ Shutdown => IInv'
<1> SUFFICES ASSUME IInv, Shutdown PROVE IInv'
  OBVIOUS
<1>1. MainOK'
  BY DEF IInv, MainOK, Shutdown, Running, Config
<1>2. QED
  BY <1>1, QuietStep DEF Shutdown, IInv, MainOK

LEMMA ServerFailedStep == IInv /\ ServerFailed => IInv'
<1> SUFFICES ASSUME IInv, ServerFailed PROVE IInv'
  OBVIOUS
<1>1. errCh = "err" /\ pc = "up"
  BY DEF IInv, MainOK, ServerFailed
<1>2. Exit("error")
  BY <1>1 DEF ServerFailed
<1>3. QED
  BY <1>1, <1>2, ExitStep

LEMMA DrainedStep == IInv /\ Drained => IInv'
<1> SUFFICES ASSUME IInv, Drained PROVE IInv'
  OBVIOUS
<1>1. MainOK'
  BY DEF IInv, MainOK, Drained, Running, Config
<1>2. \A r \in Requests : conn[r].at \notin LiveStages
  BY DEF Drained, Alive, LiveStages
<1>3. QED
  BY <1>1, <1>2, QuietStep DEF Drained

LEMMA DrainGivesUpStep == IInv /\ DrainGivesUp => IInv'
<1> SUFFICES ASSUME IInv, DrainGivesUp PROVE IInv'
  OBVIOUS
<1>1. pc = "draining" /\ Exit("error") /\ drained = DrainTimeout
  BY DEF DrainGivesUp
<1>2. \A r \in Requests : conn[r].at \in LiveStages => conn[r].age >= DrainTimeout
  BY <1>1 DEF IInv, PlaceOK
<1>3. QED
  BY <1>1, <1>2, ExitStep

LEMMA CollectStep == IInv /\ Collect => IInv'
<1> SUFFICES ASSUME IInv, Collect PROVE IInv'
  OBVIOUS
<1>1. pc = "collect" /\ signalled /\ errCh \in {"nil", "err"}
  BY DEF IInv, MainOK, Collect
<1>2. \A r \in Requests : conn[r].at \notin LiveStages
  BY <1>1 DEF IInv, PlaceOK
<1>3. CASE errCh = "nil"
  <2>1. Exit("clean")
    BY <1>3 DEF Collect
  <2>2. QED
    BY <1>1, <1>2, <2>1, ExitStep DEF IInv, MainOK
<1>4. CASE errCh = "err"
  <2>1. Exit("error")
    BY <1>4 DEF Collect
  <2>2. QED
    BY <1>1, <1>4, <2>1, ExitStep
<1>5. QED
  BY <1>1, <1>3, <1>4

LEMMA ServeStep == IInv /\ Serve => IInv'
<1> SUFFICES ASSUME IInv, Serve PROVE IInv'
  OBVIOUS
<1>1. UNCHANGED <<start, pc, exit, signalled, drained, conn>>
  BY DEF Serve, Listen, ServeFails, ServeEnds
<1>2. pc # "exited" /\ MainOK'
  <2>1. CASE Listen
    BY <2>1 DEF IInv, MainOK, Listen, Sends, Running, Config
  <2>2. CASE ServeFails
    BY <2>2 DEF IInv, MainOK, ServeFails, Sends, Running, Config
  <2>3. CASE ServeEnds
    BY <2>3 DEF IInv, MainOK, ServeEnds, Sends, Running, Config
  <2>4. QED
    BY <2>1, <2>2, <2>3 DEF Serve
<1>3. QED
  BY <1>1, <1>2, QuietStep
-----------------------------------------------------------------------------
(***************************************************************************)
(* Steps of a request, and of time.                                        *)
(***************************************************************************)

LEMMA AcceptStep ==
  ASSUME NEW r \in Requests
  PROVE  IInv /\ Accept(r) => IInv'
<1> SUFFICES ASSUME IInv, Accept(r) PROVE IInv'
  OBVIOUS
<1> DEFINE c == [conn[r] EXCEPT !.at = "open"]
<1>1. Becomes(r, c)
  BY DEF Accept
<1>2. conn[r] \in Connection /\ ConnectionOK(conn[r]) /\ pc = "up" /\ exit = ""
  BY DEF Accept, IInv, MainOK
<1>3. /\ c \in Connection /\ c.at = "open" /\ c.answer = conn[r].answer
      /\ c.calls = conn[r].calls
  BY <1>2 DEF Connection
<1> HIDE DEF c
<1>4. ConnectionOK(c) /\ PlaceOK(c)
  BY <1>2, <1>3 DEF ConnectionOK, PlaceOK, LiveStages
<1>5. QED
  BY <1>1, <1>4, ConnectionStep

\* A handler's next connection: as old as it was, or of no further interest.
LEMMA HandlerStep ==
  ASSUME IInv, NEW r \in Requests, NEW c, Becomes(r, c), ConnectionOK(c),
         conn[r].at \in LiveStages, c.at # "cut",
         c.at \in LiveStages => c.age = conn[r].age
  PROVE  IInv'
<1>1. PlaceOK(conn[r])
  BY DEF IInv
<1>2. PlaceOK(c)
  BY <1>1 DEF PlaceOK
<1>3. QED
  BY <1>2, ConnectionStep

LEMMA DropStep ==
  ASSUME NEW r \in Requests
  PROVE  IInv /\ (Drop(r) \/ HeaderRead(r)) => IInv'
<1> SUFFICES ASSUME IInv, Drop(r) \/ HeaderRead(r) PROVE IInv'
  OBVIOUS
<1>1. conn[r] \in Connection /\ ConnectionOK(conn[r]) /\ conn[r].at \in LiveStages
  BY DEF IInv, Drop, HeaderRead, LiveStages
<1>2. CASE Drop(r)
  <2> DEFINE c == [Fresh EXCEPT !.at = "dropped"]
  <2>1. Becomes(r, c)
    BY <1>2 DEF Drop
  <2>a. Fresh \in Connection /\ Fresh.answer = ""
    BY MaxCallsAssumption DEF Fresh, Connection, Lookups, Codes
  <2>2. c \in Connection /\ c.at = "dropped" /\ c.answer = ""
    BY <2>a DEF Connection
  <2> HIDE DEF c
  <2>3. ConnectionOK(c) /\ c.at \notin LiveStages /\ c.at # "cut"
    BY <2>2 DEF ConnectionOK, LiveStages
  <2>4. QED
    BY <1>1, <2>1, <2>3, HandlerStep
<1>3. CASE HeaderRead(r)
  <2> DEFINE c == [conn[r] EXCEPT !.at = "reading"]
  <2>1. Becomes(r, c)
    BY <1>3 DEF HeaderRead
  <2>2. /\ c \in Connection /\ c.at = "reading" /\ c.answer = conn[r].answer
        /\ c.calls = conn[r].calls /\ c.age = conn[r].age
    BY <1>1 DEF Connection
  <2> HIDE DEF c
  <2>3. ConnectionOK(c)
    BY <1>1, <2>2 DEF ConnectionOK
  <2>4. QED
    BY <1>1, <2>1, <2>2, <2>3, HandlerStep
<1>4. QED
  BY <1>2, <1>3

\* A call starts, or an answer is decided on.
LEMMA CallingOK ==
  ASSUME NEW c \in Connection, NEW lookup \in Lookups
  PROVE  /\ ConnectionOK(Calling(c, lookup)) /\ Calling(c, lookup).age = c.age
         /\ Calling(c, lookup).at \in {"lookup", "write"}
<1> DEFINE n == Calling(c, lookup)
<1>1. /\ n \in Connection /\ n.at = (IF lookup = "none" THEN "write" ELSE "lookup")
      /\ n.lookup = lookup /\ n.calls = 1 /\ n.answer = c.answer /\ n.age = c.age
  <2>1. 1 \in 0..MaxCalls
    BY MaxCallsAssumption
  <2> DEFINE at == IF lookup = "none" THEN "write" ELSE "lookup"
             half == [c EXCEPT !.at = at, !.lookup = lookup]
  <2>2. n = [half EXCEPT !.calls = 1, !.call = 0]
    BY DEF Calling
  <2>3. at \in {"lookup", "write"}
    OBVIOUS
  <2> HIDE DEF n, at
  <2>4. half \in Connection /\ half.at = at /\ half.lookup = lookup
        /\ half.answer = c.answer /\ half.age = c.age
    BY <2>3 DEF Connection
  <2> HIDE DEF half
  <2>5. /\ n \in Connection /\ n.at = at /\ n.lookup = lookup /\ n.calls = 1
        /\ n.answer = c.answer /\ n.age = c.age
    BY <2>1, <2>2, <2>4 DEF Connection
  <2>6. QED
    BY <2>5 DEF at
<1> HIDE DEF n
<1>2. ConnectionOK(n) /\ n.at \in {"lookup", "write"}
  BY <1>1 DEF ConnectionOK
<1>3. QED
  BY <1>1, <1>2 DEF n

LEMMA AnsweringOK ==
  ASSUME NEW c \in Connection, NEW code \in Codes, code = "500" => c.calls > 0
  PROVE  /\ ConnectionOK(Answering(c, code)) /\ Answering(c, code).age = c.age
         /\ Answering(c, code).at = "answering"
<1> DEFINE n == Answering(c, code)
<1>1. /\ n \in Connection /\ n.at = "answering" /\ n.calls = c.calls
      /\ n.answer = code /\ n.age = c.age
  BY DEF Answering, Connection
<1> HIDE DEF n
<1>2. ConnectionOK(n)
  BY <1>1 DEF ConnectionOK
<1>3. QED
  BY <1>1, <1>2 DEF n

LEMMA HandleStep ==
  ASSUME NEW r \in Requests
  PROVE  IInv /\ Handle(r) => IInv'
<1> SUFFICES ASSUME IInv, Handle(r) PROVE IInv'
  OBVIOUS
<1>1. conn[r] \in Connection /\ ConnectionOK(conn[r]) /\ conn[r].at = "reading" /\ Running
  BY DEF IInv, Handle, PlaceOK, LiveStages, Running
<1>2. Sound(Config)
  BY <1>1 DEF IInv, MainOK
<1>3. PICK d \in Deliveries[r] :
        Becomes(r, CASE Verdict(Config, d) = "panic" -> [conn[r] EXCEPT !.at = "panicked"]
                     [] Verdict(Config, d) = "calls" -> Calling(conn[r], LookupOf(d))
                     [] OTHER -> Answering(conn[r], Verdict(Config, d)))
  BY Zenon DEF Handle
<1>4. d \in Delivery /\ LookupOf(d) \in Lookups
  BY DeliveriesAssumption DEF LookupOf, Lookups
<1> DEFINE verdict == Verdict(Config, d)
<1>5. verdict \in (Codes \ {"500"}) \cup {"calls"}
  BY <1>2, <1>4, VerdictSafe
<1>6. /\ verdict = "calls" => Becomes(r, Calling(conn[r], LookupOf(d)))
      /\ verdict \in Codes => Becomes(r, Answering(conn[r], verdict))
  BY <1>3 DEF Codes
<1> HIDE DEF verdict
<1>8. CASE verdict = "calls"
  <2> DEFINE c == Calling(conn[r], LookupOf(d))
  <2>1. ConnectionOK(c) /\ c.age = conn[r].age /\ c.at # "cut"
    BY <1>1, <1>4, CallingOK
  <2>2. Becomes(r, c)
    BY <1>6, <1>8
  <2>3. QED
    BY <1>1, <2>1, <2>2, HandlerStep DEF LiveStages
<1>9. CASE verdict \in Codes \ {"500"}
  <2> DEFINE c == Answering(conn[r], verdict)
  <2>1. ConnectionOK(c) /\ c.age = conn[r].age /\ c.at # "cut"
    BY <1>1, <1>9, AnsweringOK
  <2>2. Becomes(r, c)
    BY <1>6, <1>9
  <2>3. QED
    BY <1>1, <2>1, <2>2, HandlerStep DEF LiveStages
<1>10. QED
  BY <1>5, <1>8, <1>9

\* A call returns and another one starts, or the handler answers.
LEMMA ReturnStep ==
  ASSUME IInv, NEW r \in Requests, conn[r].at \in {"lookup", "write"},
         \/ /\ conn[r].calls < MaxCalls
            /\ Becomes(r, [conn[r] EXCEPT !.at = "write", !.calls = conn[r].calls + 1, !.call = 0])
         \/ Becomes(r, Answering(conn[r], "202"))
         \/ Becomes(r, Answering(conn[r], "500"))
  PROVE  IInv'
<1>1. /\ conn[r] \in Connection /\ ConnectionOK(conn[r]) /\ conn[r].at \in LiveStages
      /\ conn[r].calls \in 0..MaxCalls /\ conn[r].calls > 0
  <2>1. conn[r] \in Connection /\ ConnectionOK(conn[r])
    BY DEF IInv
  <2>2. conn[r].calls \in 0..MaxCalls
    BY <2>1 DEF Connection
  <2>3. conn[r].calls > 0
    BY <2>1 DEF ConnectionOK
  <2>4. QED
    BY <2>1, <2>2, <2>3 DEF LiveStages
<1>2. CASE /\ conn[r].calls < MaxCalls
           /\ Becomes(r, [conn[r] EXCEPT !.at = "write", !.calls = conn[r].calls + 1, !.call = 0])
  <2> DEFINE n == conn[r].calls + 1
             c == [conn[r] EXCEPT !.at = "write", !.calls = n, !.call = 0]
  <2>1. n \in 0..MaxCalls /\ n > 0
    BY <1>1, <1>2, MaxCallsAssumption
  <2>2. Becomes(r, c)
    BY <1>2
  <2> HIDE DEF n
  <2>3. /\ c \in Connection /\ c.at = "write" /\ c.calls = n
        /\ c.answer = conn[r].answer /\ c.age = conn[r].age
    BY <1>1, <2>1 DEF Connection
  <2> HIDE DEF c
  <2>4. ConnectionOK(c)
    BY <2>1, <2>3 DEF ConnectionOK
  <2>5. QED
    BY <1>1, <2>2, <2>3, <2>4, HandlerStep
<1>3. ASSUME NEW code \in {"202", "500"}, Becomes(r, Answering(conn[r], code))
      PROVE  IInv'
  <2> DEFINE c == Answering(conn[r], code)
  <2>1. code \in Codes
    BY DEF Codes
  <2>2. ConnectionOK(c) /\ c.age = conn[r].age /\ c.at # "cut"
    BY <1>1, <2>1, AnsweringOK
  <2>3. Becomes(r, c)
    BY <1>3
  <2>4. QED
    BY <1>1, <2>2, <2>3, HandlerStep
<1>4. QED
  BY <1>2, <1>3

LEMMA LookupReturnsStep ==
  ASSUME NEW r \in Requests
  PROVE  IInv /\ LookupReturns(r) => IInv'
<1> SUFFICES ASSUME IInv, LookupReturns(r) PROVE IInv'
  OBVIOUS
<1>1. conn[r].at = "lookup" /\ ConnectionOK(conn[r])
  BY DEF LookupReturns, IInv
<1>2. conn[r].calls < MaxCalls
  BY <1>1, MaxCallsAssumption DEF ConnectionOK
<1>3. \/ Becomes(r, [conn[r] EXCEPT !.at = "write", !.calls = conn[r].calls + 1, !.call = 0])
      \/ Becomes(r, Answering(conn[r], "202"))
      \/ Becomes(r, Answering(conn[r], "500"))
  BY DEF LookupReturns
<1>4. QED
  BY <1>1, <1>2, <1>3, ReturnStep

LEMMA WriteReturnsStep ==
  ASSUME NEW r \in Requests
  PROVE  IInv /\ WriteReturns(r) => IInv'
<1> SUFFICES ASSUME IInv, WriteReturns(r) PROVE IInv'
  OBVIOUS
<1>1. conn[r].at = "write" /\ conn[r] \in Connection
  BY DEF WriteReturns, IInv
<1> DEFINE n == conn[r].calls + 1
<1>2. \/ conn[r].calls < MaxCalls /\ Becomes(r, [conn[r] EXCEPT !.calls = n, !.call = 0])
      \/ Becomes(r, Answering(conn[r], "202"))
      \/ Becomes(r, Answering(conn[r], "500"))
  BY DEF WriteReturns
<1>3. [conn[r] EXCEPT !.calls = n, !.call = 0]
        = [conn[r] EXCEPT !.at = "write", !.calls = n, !.call = 0]
  <2> HIDE DEF n
  <2>1. QED
    BY <1>1 DEF Connection
<1>4. QED
  BY <1>1, <1>2, <1>3, ReturnStep

LEMMA RespondStep ==
  ASSUME NEW r \in Requests
  PROVE  IInv /\ Respond(r) => IInv'
<1> SUFFICES ASSUME IInv, Respond(r) PROVE IInv'
  OBVIOUS
<1> DEFINE c == [conn[r] EXCEPT !.at = "answered", !.age = 0, !.lookup = "none"]
<1>1. conn[r] \in Connection /\ ConnectionOK(conn[r]) /\ conn[r].at = "answering"
  BY DEF IInv, Respond
<1>2. Becomes(r, c)
  BY DEF Respond
<1>3. "none" \in Lookups
  BY DEF Lookups
<1>4. /\ c \in Connection /\ c.at = "answered" /\ c.answer = conn[r].answer
      /\ c.calls = conn[r].calls
  BY <1>1, <1>3 DEF Connection
<1> HIDE DEF c
<1>5. ConnectionOK(c) /\ c.at \notin LiveStages /\ c.at # "cut"
  BY <1>1, <1>4 DEF ConnectionOK, LiveStages
<1>6. QED
  BY <1>1, <1>2, <1>5, HandlerStep DEF LiveStages

LEMMA TickStep == IInv /\ Tick => IInv'
<1> SUFFICES ASSUME IInv, Tick PROVE IInv'
  OBVIOUS
<1>1. /\ UNCHANGED <<start, pc, exit, signalled, listener, errCh>> /\ pc # "exited"
      /\ drained' = IF pc = "draining" THEN drained + 1 ELSE drained
      /\ pc = "draining" => drained < DrainTimeout
  BY DEF Tick
<1>2. drained \in Nat /\ DrainTimeout \in Nat /\ ReadTimeout \in Nat
  <2>1. DrainTimeout \in Nat /\ ReadTimeout \in Nat
    BY TimesAssumption
  <2>2. drained \in 0..DrainTimeout
    BY DEF IInv, MainOK
  <2>3. QED
    BY <2>1, <2>2
<1>3. MainOK'
  <2>0. drained \in 0..DrainTimeout
    BY DEF IInv, MainOK
  <2>1. drained' \in 0..DrainTimeout
    BY <1>1, <1>2, <2>0
  <2>2. UNCHANGED Running /\ UNCHANGED Config
    BY <1>1 DEF Running, Config
  <2>3. pc \in {"boot", "up"} => drained' = 0
    BY <1>1 DEF IInv, MainOK
  <2>4. QED
    BY <1>1, <2>1, <2>2, <2>3 DEF IInv, MainOK, Running, Config
<1>4. ASSUME NEW r \in Requests
      PROVE  ConnectionOK(conn'[r]) /\ PlaceOK(conn[r])'
  <2>1. conn[r] \in Connection /\ ConnectionOK(conn[r]) /\ PlaceOK(conn[r])
    BY DEF IInv
  <2>2. CASE ~Alive(r)
    <3>1. conn'[r] = conn[r]
      BY <2>2 DEF Tick
    <3>2. conn[r].at \notin LiveStages
      BY <2>2 DEF Alive, LiveStages
    <3>3. QED
      BY <1>1, <2>1, <3>1, <3>2 DEF PlaceOK
  <2>3. CASE Alive(r)
    <3> DEFINE age == IF conn[r].age < ReadTimeout \/ conn[r].age < DrainTimeout
                        THEN conn[r].age + 1 ELSE conn[r].age
               call == IF conn[r].at \in {"lookup", "write"} THEN conn[r].call + 1
                       ELSE conn[r].call
    <3>1. conn'[r] = [conn[r] EXCEPT !.age = age, !.call = call]
      BY <2>3 DEF Tick
    <3>2. conn[r].age \in Nat /\ conn[r].call \in Nat
      BY <2>1 DEF Connection
    <3>3. age \in Nat /\ call \in Nat
      BY <3>2
    <3>4. pc = "draining" /\ conn[r].age >= drained => age >= drained'
      BY <1>1, <1>2, <3>2
    <3> HIDE DEF age, call
    <3>5. /\ conn'[r] \in Connection /\ conn'[r].at = conn[r].at
          /\ conn'[r].calls = conn[r].calls /\ conn'[r].lookup = conn[r].lookup
          /\ conn'[r].answer = conn[r].answer /\ conn'[r].age = age
      BY <2>1, <3>1, <3>3 DEF Connection
    <3>6. ConnectionOK(conn'[r])
      BY <2>1, <3>5 DEF ConnectionOK
    <3>7. conn[r].at \in LiveStages /\ conn[r].at # "cut"
      BY <2>3 DEF Alive, LiveStages
    <3>8. PlaceOK(conn[r])'
      BY <1>1, <2>1, <3>4, <3>5, <3>7 DEF PlaceOK
    <3>9. QED
      BY <3>6, <3>8
  <2>4. QED
    BY <2>2, <2>3
<1>5. conn' \in [Requests -> Connection]
  <2>1. conn' = [r \in Requests |-> conn'[r]]
    BY DEF Tick
  <2>2. \A r \in Requests : conn'[r] \in Connection
    BY <1>4 DEF ConnectionOK
  <2>3. QED
    BY <2>1, <2>2
<1>6. QED
  BY <1>3, <1>4, <1>5 DEF IInv, ConnectionOK

LEMMA StutterStep == IInv /\ UNCHANGED vars => IInv'
<1> SUFFICES ASSUME IInv, UNCHANGED vars PROVE IInv'
  OBVIOUS
<1>1. UNCHANGED <<start, pc, exit, signalled, drained, listener, errCh, conn>>
  BY DEF vars
<1>2. MainOK'
  BY <1>1 DEF IInv, MainOK, Running, Config
<1>3. ASSUME NEW r \in Requests PROVE PlaceOK(conn[r])'
  BY <1>1 DEF IInv, PlaceOK
<1>4. QED
  BY <1>1, <1>2, <1>3 DEF IInv

LEMMA Inductive == IInv /\ [Next]_vars => IInv'
<1>1. IInv /\ Main => IInv'
  BY LoadStep, ShutdownStep, ServerFailedStep, DrainedStep, DrainGivesUpStep, CollectStep DEF Main
<1>2. ASSUME IInv, NEW r \in Requests, Accept(r) \/ Handler(r)
      PROVE  IInv'
  BY <1>2, AcceptStep, DropStep, HandleStep, LookupReturnsStep, WriteReturnsStep, RespondStep
  DEF Handler
<1>3. IInv /\ Gone => IInv'
  BY StutterStep DEF Gone
<1>4. QED
  BY <1>1, <1>2, <1>3, ServeStep, SignalStep, KillStep, TickStep, StutterStep DEF Next

LEMMA Invariance == Spec => []IInv
BY InitOK, Inductive, PTL DEF Spec
-----------------------------------------------------------------------------
(***************************************************************************)
(* What it comes to.                                                       *)
(***************************************************************************)

\* Every variable keeps its type, whatever is delivered.
THEOREM Typed == Spec => []TypeOK
<1>1. IInv => TypeOK
  BY DEF IInv, MainOK, ConnectionOK, TypeOK
<1>2. QED
  BY <1>1, Invariance, PTL

\* Exit status 0 means that somebody asked the process to stop and that no request
\* it had begun to handle was lost (ListenAndServe, run).
THEOREM ExitIsHonest == Spec => []CleanExit
<1>1. IInv => CleanExit
  BY DEF IInv, MainOK, PlaceOK, CleanExit
<1>2. QED
  BY <1>1, Invariance, PTL

\* However long the grace period and the calls are, a shutdown only cuts off what
\* was connected for the whole of it (ListenAndServe, Shutdown's context).
THEOREM GraceIsGranted == Spec => []CutOffsAreOld
<1>1. IInv => CutOffsAreOld
  BY DEF IInv, PlaceOK, CutOffsAreOld
<1>2. QED
  BY <1>1, Invariance, PTL

\* No delivery is answered 500 for what its bytes and the configuration decide
\* (the handlers of internal/server, behind a configuration the loader let through).
THEOREM DecisionsStand == Spec => []DecidedForGood
<1>1. IInv => DecidedForGood
  BY DEF IInv, ConnectionOK, DecidedForGood
<1>2. QED
  BY <1>1, Invariance, PTL

\* Whatever a request carries or lacks, its handler reads no object that is not there:
\* behind the parsers each handler of internal/sync looks for it first.
THEOREM HandlersNeverPanic == Spec => []NeverPanics
<1>1. IInv => NeverPanics
  BY DEF IInv, ConnectionOK, NeverPanics
<1>2. QED
  BY <1>1, Invariance, PTL

\* What serves requests runs with a sound configuration, of whatever file and
\* environment it is made (internal/mapping).
THEOREM ServedSoundly == Spec => []ServedSound
<1>1. IInv => ServedSound
  BY DEF IInv, MainOK, Running, Sound, ServedSound
<1>2. QED
  BY <1>1, Invariance, PTL
=============================================================================

-------------------------------- MODULE Texts --------------------------------
(***************************************************************************)
(* A text on its way through the bridge: a user writes it, a handler copies*)
(* it to the other side, the other side announces the copy, and a handler  *)
(* has to know it for what it is.  And a pull request, whose texts name a  *)
(* work item.                                                              *)
(***************************************************************************)
EXTENDS Marker, PullRef

CONSTANTS
  MaxTokens,     \* bound on what a user writes
  Titles, Bodies, Branches  \* bound on the pull requests

ASSUME TextBoundsAssumption ==
  /\ MaxTokens \in Nat
  /\ Titles \cup Bodies \subseteq Seq(Reference) /\ Branches \subseteq Branch

VARIABLES
  text,   \* what the user wrote
  copied, \* what it was copied as, and for which delivery; or what became of it
  copy,   \* the copy
  pull    \* a pull request, and the number found in it

textVars == <<text, copied, copy, pull>>

Nothing == [as |-> "nothing"]

TextsInit == text = <<>> /\ copied = Nothing /\ copy = <<>> /\ pull = Nothing

Write(token) ==
  /\ copied = Nothing /\ pull = Nothing /\ Len(text) < MaxTokens
  /\ text' = Append(text, token)
  /\ UNCHANGED <<copied, copy, pull>>

\* The server's marker gate: a text that ends in a marker goes no further.
Dismiss ==
  /\ copied = Nothing /\ pull = Nothing /\ Extract(text) # NoMarker
  /\ copied' = [as |-> "dismissed"]
  /\ UNCHANGED <<text, copy, pull>>

\* handleOpened, handleEdited, handleForgeCommentCreated.
CopyFromForge(id, mapped) ==
  /\ copied = Nothing /\ pull = Nothing /\ Extract(text) = NoMarker
  /\ copied' = [as |-> "item", src |-> "forge", id |-> id, mapped |-> mapped]
  /\ copy' = RenderDescription(text, id, mapped)
  /\ UNCHANGED <<text, pull>>

\* handlePlaneCommentCreated: the author is always taken for mapped.
CopyFromPlane(id) ==
  /\ copied = Nothing /\ pull = Nothing /\ Extract(text) = NoMarker
  /\ copied' = [as |-> "comment", src |-> "plane", id |-> id, mapped |-> TRUE]
  /\ copy' = RenderComment(text, "plane", id, TRUE)
  /\ UNCHANGED <<text, pull>>

\* handlePlaneWorkItemCreated.
CopyItem(id) ==
  /\ copied = Nothing /\ pull = Nothing /\ Extract(text) = NoMarker
  /\ copied' = [as |-> "issue", src |-> "plane", id |-> id, mapped |-> TRUE]
  /\ copy' = RenderPlaneWorkItemDescription(text, id)
  /\ UNCHANGED <<text, pull>>

\* The service stores the copy.  It may end it in a line end, or in none.
Store ==
  /\ copied.as \in {"item", "comment", "issue"}
  /\ copy' \in {Trimmed(copy), Append(copy, NewLine)}
  /\ copied' = [copied EXCEPT !.as = "stored"]
  /\ UNCHANGED <<text, pull>>

\* HandleForgePullRequest up to the look-up.
Pull ==
  /\ text = <<>> /\ copied = Nothing /\ pull = Nothing
  /\ \E title \in Titles, body \in Bodies, branch \in Branches :
       pull' = [as |-> "pull", title |-> title, body |-> body, branch |-> branch,
                found |-> ParsePRRef(title, body, branch)]
  /\ UNCHANGED <<text, copied, copy>>

\* On to another text.
Forget ==
  /\ copied.as \in {"stored", "dismissed"} \/ pull # Nothing
  /\ text' = <<>> /\ copied' = Nothing /\ copy' = <<>> /\ pull' = Nothing

TextsNext ==
  \/ \E token \in Typed : Write(token)
  \/ Dismiss
  \/ \E id \in ValidIDs \cup OtherIDs :
       \/ \E mapped \in BOOLEAN : CopyFromForge(id, mapped)
       \/ CopyFromPlane(id) \/ CopyItem(id)
  \/ Store \/ Forget \/ Pull

TextsSpec == TextsInit /\ [][TextsNext]_textVars
-----------------------------------------------------------------------------
Copied == copied.as \notin {"nothing", "dismissed"}

\* A copy is known for the bridge's own, and for the delivery's it was made for,
\* whatever markers, quotes and white space the user's text holds and whatever the
\* service does to its end; only if the delivery's ID is none that a marker can hold
\* is it taken for a user's (Wrap, Extract).
EchoRecognised ==
  Copied => Extract(copy) = IF copied.id \in ValidIDs THEN Stamp(copied.src, copied.id)
                            ELSE NoMarker

\* A copy holds the user's text from its beginning to its last word, below a preface
\* exactly if the author is unmapped, and nothing else but markers and white space;
\* the markers that count are taken off again without a loss (the renderers, Strip).
TextKept ==
  Copied =>
    LET above == IF copied.mapped THEN <<>> ELSE Preface
        kept == Trimmed(above \o text)
    IN /\ IsPrefix(kept, copy) /\ IsPrefix(kept, Strip(copy))
       /\ \A k \in (Len(kept) + 1)..Len(copy) :
            copy[k] \in White \cup {PlaneRefMarker, Stamp(copied.src, copied.id)}

\* What a title or a body says, its first reference by the link's own identifier, and
\* what a branch says; each is a set, empty or a singleton.
Heading(refs) ==
  {refs[k].number : k \in {j \in DOMAIN refs :
     refs[j].names = "same" /\ \A i \in 1..(j - 1) : refs[i].names # "same"}}

OfBranch(branch) ==
  IF branch.names # "other" /\ branch.rest # "letter" THEN {branch.number} ELSE {}

\* The item a pull request moves is the one its title says, else its body, else its
\* branch: a number of no use in one place, 0 or more than an int, neither counts nor
\* hides a good one in the next, and only where no place has any is no item moved.
\* Of several items one moves (parsePRRef).
PullNamesItem ==
  pull # Nothing =>
    LET title == Heading(pull.title) \cap 1..MaxInt
        body == Heading(pull.body) \cap 1..MaxInt
        branch == OfBranch(pull.branch) \cap 1..MaxInt
    IN /\ pull.found = 0 <=> title \cup body \cup branch = {}
       /\ title # {} => pull.found \in title
       /\ title = {} /\ body # {} => pull.found \in body
       /\ title \cup body = {} /\ branch # {} => pull.found \in branch
=============================================================================

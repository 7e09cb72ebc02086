-------------------------------- MODULE Marker --------------------------------
(***************************************************************************)
(* The texts the bridge writes and reads (internal/idemp/marker.go and the *)
(* renderers of internal/sync).                                            *)
(*                                                                         *)
(* A text is a sequence of tokens: a word, white space, a line end (with or*)
(* without a carriage return), a loop-break marker, the marker that names a*)
(* work item, or a line of the preface.  What looks like a marker but is   *)
(* not well-formed is a word.                                              *)
(***************************************************************************)
EXTENDS Integers, SequencesExt

CONSTANTS
  ValidIDs,   \* delivery IDs a marker can hold: letters, digits, - and _
  OtherIDs    \* delivery IDs it cannot hold, such as none at all

ASSUME IDsAssumption == ValidIDs \cap OtherIDs = {}

Word == [is |-> "word"]
Blank == [is |-> "blank"]
NewLine == [is |-> "newline"]
Quoted == [is |-> "quoted"]
PlaneRefMarker == [is |-> "plane_ref"]
Stamp(src, id) == [is |-> "marker", src |-> src, id |-> id]
NoMarker == [is |-> "none"]

White == {Blank, NewLine}

\* What a user may type or paste.
Typed == White \cup {Word, PlaneRefMarker}
           \cup {Stamp(src, id) : src \in {"forge", "plane"}, id \in ValidIDs}

\* strings.TrimRight of white space.
Trimmed(text) == SubSeq(text, 1, SelectLastInSeq(text, LAMBDA t : t \notin White))

\* A marker counts if only white space follows it.
Extract(text) ==
  LET trimmed == Trimmed(text)
  IN IF trimmed # <<>> /\ Last(trimmed).is = "marker" THEN Last(trimmed) ELSE NoMarker

\* The text without such a marker and the white space around it.
Strip(text) == IF Extract(text) = NoMarker THEN text ELSE Trimmed(Front(Trimmed(text)))

\* A blank line between a text and what is put below it.
Gap(text) ==
  CASE text = <<>> -> <<>>
    [] text # <<>> /\ Last(text) = NewLine -> <<NewLine>>
    [] OTHER -> <<NewLine, NewLine>>

\* A delivery ID the marker cannot hold leaves the text as it is.
Wrap(text, src, id) ==
  IF id \notin ValidIDs \/ Extract(text) = Stamp(src, id) THEN text
  ELSE text \o Gap(text) \o <<Stamp(src, id)>>

\* unmappedAuthorPreface.
Preface == <<Quoted, NewLine, Quoted, NewLine, NewLine>>

\* Mutant of RenderComment: authors are named if they are known.
RenderCommentInverted(text, src, id, mapped) ==
  Wrap((IF mapped THEN Preface ELSE <<>>) \o text, src, id)

RenderComment(text, src, id, mapped) ==
  Wrap((IF mapped THEN <<>> ELSE Preface) \o text, src, id)

RenderDescription(text, id, mapped) == RenderComment(text, "forge", id, mapped)

\* Mutant of RenderPlaneWorkItemDescription: the two markers change places.
RenderRefLast(text, id) ==
  LET wrapped == Wrap(text, "plane", id) IN wrapped \o Gap(wrapped) \o <<PlaneRefMarker>>

RenderPlaneWorkItemDescription(text, id) ==
  Wrap(text \o Gap(text) \o <<PlaneRefMarker>>, "plane", id)
=============================================================================

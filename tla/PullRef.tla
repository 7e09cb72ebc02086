------------------------------- MODULE PullRef -------------------------------
(***************************************************************************)
(* Which work item a pull request is about (internal/sync/pullrequest.go). *)
(*                                                                         *)
(* A title or a body is a sequence of the bracket references in it, as     *)
(* [PFB-42].  `names' says what the identifier is to the link's: the same, *)
(* the same but for the case, or another.  A branch is taken apart into an *)
(* identifier, a number and what follows the number, if it can be.         *)
(***************************************************************************)
EXTENDS Integers, SequencesExt

CONSTANTS
  Numbers,   \* numbers as written, of any size
  MaxInt     \* the largest int

ASSUME NumbersAssumption == Numbers \subseteq Nat /\ MaxInt \in Nat

Names == {"same", "same_but_case", "other"}

Reference == [names : Names, number : Numbers]

Branch == [names : Names, number : Numbers, rest : {"", "-", "letter"}]

\* Only the first match of the pattern counts: the bracket reference's is exact,
\* and 0 stands for no match.
BracketMatch(text) ==
  LET first == SelectInSeq(text, LAMBDA ref : ref.names = "same")
  IN IF first = 0 THEN 0 ELSE text[first].number

\* The branch's pattern ignores the case but wants the number to end.
BranchMatch(branch) ==
  IF branch.names # "other" /\ branch.rest # "letter" THEN branch.number ELSE 0

\* firstMatch, strconv.Atoi: 0 and what exceeds an int are no references.
Usable(n) == n \in 1..MaxInt

FirstUsable(found) ==
  LET first == SelectInSeq(found, Usable) IN IF first = 0 THEN 0 ELSE found[first]

\* Mutant of ParsePRRef: what is matched first is final, if it is of use or not.
ParseFirstMatch(title, body, branch) ==
  LET found == <<BracketMatch(title), BracketMatch(body), BranchMatch(branch)>>
      first == SelectInSeq(found, LAMBDA n : n # 0)
  IN IF first # 0 /\ Usable(found[first]) THEN found[first] ELSE 0

\* The sequence number of the item, 0 for none.
ParsePRRef(title, body, branch) ==
  FirstUsable(<<BracketMatch(title), BracketMatch(body), BranchMatch(branch)>>)
=============================================================================

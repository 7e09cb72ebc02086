--------------------------- MODULE MCIdentityCache ---------------------------
(***************************************************************************)
(* The instance of IdentityCache that TLC checks.                          *)
(***************************************************************************)
EXTENDS IdentityCache, TLC

CONSTANTS c1, c2, x, y

\* Callers are interchangeable, and so are addresses.
IdentitySymmetry == Permutations({c1, c2}) \cup Permutations({x, y})

\* One forge user is mapped to a member by the configuration, one is not.
OneOverride == "hal" :> "maud"

\* The unmapped user and member share an address or do not, with the mapped ones
\* in their way or without any.
FewAddresses ==
  {a \in [People -> Address] :
     /\ a["mary"] # None
     /\ a["ann"] \in {a["mary"], None}
     /\ a["hal"] = a["maud"] /\ a["hal"] \in {a["mary"], None}}
=============================================================================

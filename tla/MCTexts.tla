------------------------------- MODULE MCTexts -------------------------------
(***************************************************************************)
(* The two halves of the loop break, the marker in a text and the cache of *)
(* deliveries.  They share no state, so each is explored with the other at *)
(* rest.                                                                   *)
(***************************************************************************)
EXTENDS Texts, LRU

Refs(numbers) == [names : Names, number : numbers]

MCTitles == {<<>>} \cup {<<a>> : a \in Refs(Numbers)} \cup {<<a, b>> : a, b \in Refs(Numbers)}

MCBodies == {<<>>} \cup {<<a>> : a \in Refs({0, 1, 3})}

MCInit == Init /\ TextsInit

MCNext ==
  \/ text = <<>> /\ copied = Nothing /\ pull = Nothing /\ Next /\ UNCHANGED textVars
  \/ answer = [op |-> "none"] /\ TextsNext /\ UNCHANGED vars

MCSpec == MCInit /\ [][MCNext]_<<vars, textVars>>
=============================================================================

----------------------------- MODULE MCLabelCache ----------------------------
EXTENDS LabelCache, TLC

CONSTANTS c1, c2, c3, e1, e2, bug, docs, blank

\* One process, and two of them.
OneHome == [c \in Callers |-> e1]
ThreeInTwo == [c \in Callers |-> IF c = c3 THEN e2 ELSE e1]

NoLabel == <<>>
OneLabel == <<bug>>
=============================================================================

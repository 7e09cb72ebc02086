----------------------------- MODULE MCStateCache ----------------------------
EXTENDS StateCache, TLC

CONSTANTS c1, c2, c3, e1, todo, done

OneHome == [c \in Callers |-> e1]
OneState == <<todo>>
=============================================================================

----------------------------- MODULE MCConstProp -----------------------------
\* One integer and one real variable, short straight-line programs with calls
\* and block boundaries.
EXTENDS ConstProp

TwoVars == {"i", "x"}
OneReal == {"x"}
Integers123 == {[type |-> "INTEGER", half |-> 2 * n] : n \in 1 .. 3}
WithReal == {[type |-> "INTEGER", half |-> 2], [type |-> "REAL", half |-> 5]}
WithReals == Integers123 \cup WithReal
Add == {"+"}
AddAndSubtract == {"+", "-"}
=============================================================================

------------------------------ MODULE MCExecute ------------------------------
\* Model checking compiled programs against the meaning of their source.
EXTENDS Execute

Conditions == {"IF", "WHILE", "NOT", "LPAREN", "AND", "OR"}
Functions == {"FUNCTION", "RETURN", "CALL", "IF", "INVERSE", "NOT", "AND", "OR"}
Loops == {"IF", "FOR", "WHILE"}
=============================================================================

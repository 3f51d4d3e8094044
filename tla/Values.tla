------------------------------- MODULE Values -------------------------------
\* Tokens and numbers, as the source, the file and the machine have them in
\* common.  Real numbers are counted in halves: 1.5 is 3.
EXTENDS Integers, Sequences

Tok(t, v) == [t |-> t, v |-> v]

\* C's division, and its conversion of a real to int: towards zero.
Quot(x, y) ==
  LET q == (IF x < 0 THEN -x ELSE x) \div (IF y < 0 THEN -y ELSE y)
  IN  IF (x < 0) = (y < 0) THEN q ELSE -q
ToInt(halves) == Quot(halves, 2)

=============================================================================

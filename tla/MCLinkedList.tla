---------------------------- MODULE MCLinkedList ----------------------------
\* Model checking linked lists of up to four nodes, which are interchangeable.
EXTENDS LinkedList, TLC

CONSTANTS a, b, c, d
FourNodes == {a, b, c, d}
Symmetric == Permutations(FourNodes)
=============================================================================

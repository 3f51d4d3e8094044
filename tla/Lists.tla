-------------------------------- MODULE Lists --------------------------------
\* What LinkedListNode promises (linked_list.h): the nodes form lists, each node
\* being in one of them.
EXTENDS SequencesExt

CONSTANT Nodes

VARIABLE lists    \* a set of nonempty sequences

Init == lists = {}

Has(l, n) == \E i \in DOMAIN l : l[i] = n
Place(l, n) == CHOOSE i \in DOMAIN l : l[i] = n
Without(l, n) == RemoveAt(l, Place(l, n))

Create(n) == (\A l \in lists : ~Has(l, n)) /\ lists' = lists \cup {<<n>>}

\* x, alone so far, next to n: behind it, or in front of it.
Insert(n, x) ==
  \E l \in lists, behind \in {0, 1} :
    /\ Has(l, n) /\ <<x>> \in lists /\ x # n
    /\ lists' = (lists \ {l, <<x>>}) \cup {InsertAt(l, Place(l, n) + behind, x)}

TakeOut(n) ==
  \E l \in lists :
    Has(l, n) /\ lists' = ((lists \ {l}) \cup {Without(l, n), <<n>>}) \ {<<>>}

Destroy(n) == \E l \in lists : Has(l, n) /\ lists' = ((lists \ {l}) \cup {Without(l, n)}) \ {<<>>}

Next == \E n \in Nodes : Create(n) \/ TakeOut(n) \/ Destroy(n) \/ \E x \in Nodes : Insert(n, x)

Spec == Init /\ [][Next]_lists

=============================================================================

----------------------------- MODULE LinkedList -----------------------------
\* class LinkedListNode (linked_list.cc): a node with its neighbours, and the two
\* iterators over a list.
\*
\* The caller's part is what the commented-out BUG_IFs ask (a node that is added
\* belongs to no list) and, while an iterator is in use, that the nodes it has
\* still to come to are left where they are.
EXTENDS Naturals, Sequences

CONSTANTS
  Nodes,   \* the nodes there may be
  NULL

ASSUME NodesAssumption == NULL \notin Nodes

VARIABLES
  alive,       \* nodes constructed and not destroyed
  next, prev,  \* m_next and m_prev
  it           \* an iterator: direction, m_current, and what it has returned

vars == <<alive, next, prev, it>>

\* ---- iterators -----------------------------------------------------------------------

\* The nodes from n on, by next or prev; none from NULL.
Walk(by, n) ==
  LET walk[x \in Nodes \cup {NULL}] == IF x = NULL THEN <<>> ELSE <<x>> \o walk[by[x]]
  IN  walk[n]

NoIterator == [dir |-> "none", current |-> NULL, seen |-> <<>>, whole |-> <<>>]

Start(dir, n) ==
  /\ n \in alive
  /\ it' = [dir |-> dir, current |-> n, seen |-> <<>>,
            whole |-> Walk(IF dir = "down" THEN next ELSE prev, n)]
  /\ UNCHANGED <<alive, next, prev>>

\* TopDown(node), BottomUp(node)
TopDown == it.current = NULL /\ \E n \in alive : Start("down", n)
BottomUp == it.current = NULL /\ \E n \in alive : Start("up", n)

\* Mutant: BottomUp goes the way of TopDown.
OnwardDown(dir, n) == next[n]
Onward(dir, n) == IF dir = "down" THEN next[n] ELSE prev[n]
FetchAndAdvance ==
  /\ it.current # NULL
  /\ it' = [it EXCEPT !.current = Onward(it.dir, @), !.seen = Append(@, it.current)]
  /\ UNCHANGED <<alive, next, prev>>

\* n is not ahead of the iterator.
MayChange(n) ==
  LET ahead == Walk(IF it.dir = "down" THEN next ELSE prev, it.current)
  IN  \A i \in DOMAIN ahead : ahead[i] # n

\* ---- operations -------------------------------------------------------------------------

New(n) ==
  /\ n \notin alive
  /\ alive' = alive \cup {n}
  /\ next' = [next EXCEPT ![n] = NULL] /\ prev' = [prev EXCEPT ![n] = NULL]
  /\ UNCHANGED it

Fresh(n, x) ==
  /\ n \in alive /\ x \in alive /\ x # n
  /\ next[x] = NULL /\ prev[x] = NULL
  /\ MayChange(n) /\ MayChange(x)

\* n->AddNext(x)
\* Mutant: the node that was behind n is not linked to x.
AddNextCuts(n, x) ==
  /\ Fresh(n, x)
  /\ next' = [next EXCEPT ![n] = x]
  /\ prev' = [p \in Nodes |-> IF p = x THEN n ELSE IF p = next[n] THEN NULL ELSE prev[p]]
  /\ UNCHANGED <<alive, it>>
AddNext(n, x) ==
  /\ Fresh(n, x)
  /\ next' = [next EXCEPT ![x] = next[n], ![n] = x]
  /\ prev' = [p \in Nodes |-> IF p = x THEN n ELSE IF p = next[n] THEN x ELSE prev[p]]
  /\ UNCHANGED <<alive, it>>

\* n->AddPrev(x)
AddPrev(n, x) ==
  /\ Fresh(n, x)
  /\ prev' = [prev EXCEPT ![x] = prev[n], ![n] = x]
  /\ next' = [p \in Nodes |-> IF p = x THEN n ELSE IF p = prev[n] THEN x ELSE next[p]]
  /\ UNCHANGED <<alive, it>>

\* The neighbours of n are linked to each other, n to nobody.
\* Mutant: prev of the node behind n still points to n.
UnlinkedNextOnly(n) ==
  /\ next' = [p \in Nodes |-> IF p = n THEN NULL ELSE IF p = prev[n] THEN next[n] ELSE next[p]]
  /\ prev' = [prev EXCEPT ![n] = NULL]
Unlinked(n) ==
  /\ next' = [p \in Nodes |-> IF p = n THEN NULL ELSE IF p = prev[n] THEN next[n] ELSE next[p]]
  /\ prev' = [p \in Nodes |-> IF p = n THEN NULL ELSE IF p = next[n] THEN prev[n] ELSE prev[p]]

Remove(n) == n \in alive /\ MayChange(n) /\ Unlinked(n) /\ UNCHANGED <<alive, it>>

\* ~LinkedListNode(): Remove(), and the node is gone.
Destroy(n) ==
  /\ n \in alive /\ MayChange(n) /\ Unlinked(n)
  /\ alive' = alive \ {n}
  /\ UNCHANGED it

Init ==
  /\ alive = {} /\ it = NoIterator
  /\ next = [n \in Nodes |-> NULL] /\ prev = [n \in Nodes |-> NULL]

Next ==
  \/ TopDown \/ BottomUp \/ FetchAndAdvance
  \/ \E n \in Nodes : New(n) \/ Remove(n) \/ Destroy(n)
                      \/ \E x \in Nodes : AddNext(n, x) \/ AddPrev(n, x)

Spec == Init /\ [][Next]_vars

\* ---- properties ----------------------------------------------------------------------------

\* Neighbours agree, nobody is its own neighbour, and no node that lives refers to
\* one that has been destroyed.
DoublyLinked ==
  /\ alive \subseteq Nodes
  /\ next \in [Nodes -> alive \cup {NULL}] /\ prev \in [Nodes -> alive \cup {NULL}]
  /\ \A n \in Nodes : next[n] # NULL => prev[next[n]] = n
  /\ \A n \in Nodes : prev[n] # NULL => next[prev[n]] = n
  /\ \A n \in Nodes : next[n] # n /\ prev[n] # n
  /\ \A n \in Nodes \ alive : next[n] = NULL /\ prev[n] = NULL

\* An iteration returns the nodes of the list it was started on, each once and in
\* order, though nodes it has returned are removed, destroyed or given new
\* neighbours before it ends.
VisitsAll ==
  it.seen \o Walk(IF it.dir = "down" THEN next ELSE prev, it.current) = it.whole

\* The pointers implement lists: First() and Last() of a node are the ends of the
\* list it is in.
First(n) == LET back == Walk(prev, n) IN back[Len(back)]
Last(n) == LET on == Walk(next, n) IN on[Len(on)]
AsLists == {Walk(next, First(n)) : n \in alive}
Promised == INSTANCE Lists WITH lists <- AsLists
ImplementsLists == Promised!Spec

=============================================================================

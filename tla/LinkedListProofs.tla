-------------------------- MODULE LinkedListProofs --------------------------
\* Proof that the pointers of linked_list.cc form lists, that the operations do
\* to these lists what Lists promises, and that an iterator sees its list, for any
\* number of nodes.
EXTENDS LinkedList, Integers, TLAPS, WellFoundedInduction, SequenceTheorems

\* ---- walking ------------------------------------------------------------------------

\* Induction over lists: a set of natural numbers has a smallest member.
LEMMA Smallest ==
  ASSUME NEW T, T \subseteq Nat, T # {}
  PROVE  \E m \in T : \A k \in T : m <= k
<1>1. IsWellFoundedOn(OpToRel(<, Nat), Nat)
  BY NatLessThanWellFounded
<1>2. PICK m \in T : \A k \in T : ~ (<<k, m>> \in OpToRel(<, Nat))
  BY <1>1, WFMin
<1>3. ASSUME NEW k \in T PROVE m <= k
  <2>1. ~ (<<k, m>> \in OpToRel(<, Nat))
    BY <1>2
  <2>2. <<k, m>> \in Nat \X Nat
    OBVIOUS
  <2>3. ~ (k < m)
    BY <2>1, <2>2 DEF OpToRel
  <2>. QED BY <2>3
<1>. QED BY <1>3

\* w are the nodes from x on, up to one that has NULL behind it.
Chain(by, x, w) ==
  /\ w \in Seq(Nodes)
  /\ x = IF w = <<>> THEN NULL ELSE w[1]
  /\ \A j \in 1 .. Len(w) : by[w[j]] = IF j < Len(w) THEN w[j + 1] ELSE NULL

\* Every node begins a chain: there are no rings.
Chained(by) == \A x \in Nodes : \E w : Chain(by, x, w)

\* A chain is its first node and the chain behind it.
LEMMA ChainTail ==
  ASSUME NodesAssumption, NEW by, NEW x, NEW w, Chain(by, x, w), x # NULL
  PROVE  /\ x \in Nodes /\ Chain(by, by[x], Tail(w)) /\ w = <<x>> \o Tail(w)
         /\ Len(w) > 0 /\ Len(Tail(w)) = Len(w) - 1
<1>1. w \in Seq(Nodes) /\ w # <<>> /\ x = w[1] /\ Len(w) \in Nat /\ Len(w) > 0
  BY DEF Chain
<1>2. /\ Tail(w) \in Seq(Nodes) /\ Len(Tail(w)) = Len(w) - 1
      /\ \A j \in 1 .. Len(w) - 1 : Tail(w)[j] = w[j + 1]
  BY <1>1
<1>3. by[x] = IF Tail(w) = <<>> THEN NULL ELSE Tail(w)[1]
  <2>1. by[w[1]] = IF 1 < Len(w) THEN w[2] ELSE NULL
    BY <1>1 DEF Chain
  <2>2. Tail(w) = <<>> <=> ~ (1 < Len(w))
    <3>. DEFINE t == Tail(w)
    <3>1. t \in Seq(Nodes) /\ Len(t) = Len(w) - 1
      BY <1>2
    <3>. HIDE DEF t
    <3>2. t = <<>> <=> Len(t) = 0
      BY <3>1, EmptySeq
    <3>3. t = <<>> <=> ~ (1 < Len(w))
      BY <1>1, <3>1, <3>2
    <3>. QED BY <3>3 DEF t
  <2>. QED BY <1>1, <1>2, <2>1, <2>2
<1>4. ASSUME NEW j \in 1 .. Len(Tail(w))
      PROVE  by[Tail(w)[j]] = IF j < Len(Tail(w)) THEN Tail(w)[j + 1] ELSE NULL
  <2>1. j + 1 \in 1 .. Len(w) /\ Tail(w)[j] = w[j + 1]
    BY <1>1, <1>2
  <2>2. by[w[j + 1]] = IF j + 1 < Len(w) THEN w[j + 2] ELSE NULL
    BY <2>1, <1>1 DEF Chain
  <2>3. j < Len(Tail(w)) <=> j + 1 < Len(w)
    BY <1>1, <1>2
  <2>4. j < Len(Tail(w)) => Tail(w)[j + 1] = w[j + 2]
    BY <1>1, <1>2
  <2>. QED BY <2>1, <2>2, <2>3, <2>4
<1>5. w = <<x>> \o Tail(w)
  <2>. DEFINE v == <<x>> \o Tail(w)
  <2>1. x \in Nodes /\ <<x>> \in Seq(Nodes) /\ Len(<<x>>) = 1 /\ <<x>>[1] = x
    BY <1>1
  <2>2. /\ v \in Seq(Nodes) /\ Len(v) = Len(w)
        /\ \A j \in 1 .. Len(w) : v[j] = IF j = 1 THEN x ELSE Tail(w)[j - 1]
    BY <1>1, <1>2, <2>1
  <2>. HIDE DEF v
  <2>3. \A j \in 1 .. Len(w) : v[j] = w[j]
    BY <1>1, <1>2, <2>2
  <2>4. v = w
    BY <1>1, <2>2, <2>3
  <2>. QED BY <2>4 DEF v
<1>. QED BY <1>1, <1>2, <1>3, <1>4, <1>5 DEF Chain

\* Nothing is behind NULL.
LEMMA ChainEnd ==
  ASSUME NodesAssumption, NEW by, NEW w, Chain(by, NULL, w)
  PROVE  w = <<>>
BY DEF Chain, NodesAssumption

\* There is one chain from a node: where two that differ are shortest, the chains
\* behind their first node differ too.
LEMMA ChainsAgree ==
  ASSUME NodesAssumption, NEW by, NEW x, NEW v, NEW w, Chain(by, x, v), Chain(by, x, w)
  PROVE  v = w
<1>. DEFINE T == {k \in Nat : \E y, p, q : /\ Chain(by, y, p) /\ Chain(by, y, q)
                                           /\ Len(p) = k /\ p # q}
<1>1. SUFFICES ASSUME v # w PROVE FALSE
  OBVIOUS
<1>2. T \subseteq Nat /\ Len(v) \in T
  <2>1. Len(v) \in Nat
    BY DEF Chain
  <2>. QED BY <1>1, <2>1
<1>3. PICK m \in T : \A k \in T : m <= k
  BY <1>2, Smallest
<1>4. PICK y, p, q : Chain(by, y, p) /\ Chain(by, y, q) /\ Len(p) = m /\ p # q
  BY <1>3
<1>5. y # NULL
  BY <1>4, ChainEnd
<1>a. /\ Chain(by, by[y], Tail(p)) /\ p = <<y>> \o Tail(p)
      /\ Len(p) > 0 /\ Len(Tail(p)) = Len(p) - 1
  BY <1>4, <1>5, ChainTail
<1>b. Chain(by, by[y], Tail(q)) /\ q = <<y>> \o Tail(q)
  BY <1>4, <1>5, ChainTail, SMTT(40)
<1>6. Tail(p) # Tail(q) /\ Len(Tail(p)) = m - 1
  BY <1>4, <1>a, <1>b
<1>7. m \in Nat /\ m > 0
  BY <1>2, <1>3, <1>4, <1>a
<1>8. m - 1 \in Nat
  BY <1>7, SMTT(40)
<1>9. m - 1 \in T
  BY <1>6, <1>8, <1>a, <1>b
<1>. HIDE DEF T
<1>10. m <= m - 1
  BY <1>3, <1>9
<1>. QED BY <1>7, <1>10

\* A walk visits the chain.
LEMMA Walks ==
  ASSUME NodesAssumption, NEW by, Chained(by), NEW x, NEW w, Chain(by, x, w)
  PROVE  Walk(by, x) = w
<1>. DEFINE F(f) == [y \in Nodes \cup {NULL} |-> IF y = NULL THEN <<>> ELSE <<y>> \o f[by[y]]]
            C(y) == CHOOSE v : Chain(by, y, v)
            f == [y \in Nodes \cup {NULL} |-> C(y)]
            W == CHOOSE g : g = F(g)
<1>1. Chain(by, NULL, <<>>)
  BY DEF Chain
<1>2. \A y \in Nodes \cup {NULL} : Chain(by, y, f[y])
  BY <1>1 DEF Chained
<1>. HIDE DEF f
<1>3. f[NULL] = <<>>
  BY <1>2, ChainEnd
<1>4. ASSUME NEW y \in Nodes PROVE f[y] = <<y>> \o f[by[y]]
  <2>1. Chain(by, y, f[y]) /\ y # NULL
    BY <1>2 DEF NodesAssumption
  <2>2. Chain(by, by[y], Tail(f[y])) /\ f[y] = <<y>> \o Tail(f[y])
    BY <2>1, ChainTail
  <2>3. by[y] \in Nodes \cup {NULL}
    BY <2>2, ChainTail
  <2>4. f[by[y]] = Tail(f[y])
    BY <1>2, <2>2, <2>3, ChainsAgree
  <2>. QED BY <2>2, <2>4
<1>5. f = F(f)
  <2>. DEFINE D == Nodes \cup {NULL}
  <2>. HIDE DEF C
  <2>1. f = [y \in D |-> f[y]]
    BY DEF f
  <2>2. \A y \in D : f[y] = IF y = NULL THEN <<>> ELSE <<y>> \o f[by[y]]
    BY <1>3, <1>4
  <2>. HIDE DEF D
  <2>3. f = [y \in D |-> IF y = NULL THEN <<>> ELSE <<y>> \o f[by[y]]]
    BY <2>1, <2>2, SMTT(40)
  <2>. QED BY <2>3 DEF D
<1>6. W = F(W)
  BY <1>5
<1>7. \A y : Walk(by, y) = W[y]
  BY DEF Walk
<1>. HIDE DEF W
<1>8. W[NULL] = <<>> /\ \A y \in Nodes : W[y] = <<y>> \o W[by[y]]
  BY <1>6 DEF NodesAssumption
<1>. DEFINE T == {k \in Nat : \E y, p : Chain(by, y, p) /\ Len(p) = k /\ W[y] # p}
<1>9. SUFFICES ASSUME W[x] # w PROVE FALSE
  BY <1>7
<1>10. T \subseteq Nat /\ Len(w) \in T
  <2>1. Len(w) \in Nat
    BY DEF Chain
  <2>. QED BY <1>9, <2>1
<1>11. PICK m \in T : \A k \in T : m <= k
  BY <1>10, Smallest
<1>12. PICK y, p : Chain(by, y, p) /\ Len(p) = m /\ W[y] # p
  BY <1>11
<1>13. y # NULL
  BY <1>8, <1>12, ChainEnd
<1>14. /\ y \in Nodes /\ Chain(by, by[y], Tail(p)) /\ p = <<y>> \o Tail(p)
       /\ Len(Tail(p)) = m - 1 /\ m > 0
  BY <1>12, <1>13, ChainTail
<1>15. W[by[y]] # Tail(p)
  BY <1>8, <1>12, <1>14
<1>16. m \in Nat /\ m > 0
  BY <1>10, <1>11, <1>14
<1>17. m - 1 \in Nat
  BY <1>16
<1>18. m - 1 \in T
  BY <1>14, <1>15, <1>17
<1>. HIDE DEF T
<1>19. m <= m - 1
  BY <1>11, <1>18
<1>. QED BY <1>16, <1>19


\* ---- lists --------------------------------------------------------------------------

\* The pointers nx and pv of the nodes in A form the lists L: every node of A is at
\* one place of one list, and the nodes next to it there are those it points to.
Form(A, nx, pv, L) ==
  /\ A \subseteq Nodes
  /\ nx \in [Nodes -> Nodes \cup {NULL}] /\ pv \in [Nodes -> Nodes \cup {NULL}]
  /\ \A l \in L : l \in Seq(A) /\ l # <<>>
  /\ \A n \in A : \E l \in L : \E i \in 1 .. Len(l) : l[i] = n
  /\ \A l, m \in L : \A i \in 1 .. Len(l), j \in 1 .. Len(m) : l[i] = m[j] => l = m /\ i = j
  /\ \A l \in L : \A i \in 1 .. Len(l) : /\ nx[l[i]] = IF i < Len(l) THEN l[i + 1] ELSE NULL
                                         /\ pv[l[i]] = IF i > 1 THEN l[i - 1] ELSE NULL
  /\ \A n \in Nodes \ A : nx[n] = NULL /\ pv[n] = NULL

\* Lists are sequences of nodes, and a node is at one place.
LEMMA InNodes ==
  ASSUME NEW A, NEW nx, NEW pv, NEW L, Form(A, nx, pv, L), NEW l \in L
  PROVE  /\ l \in Seq(Nodes) /\ l \in Seq(A) /\ l # <<>> /\ Len(l) \in Nat /\ Len(l) > 0
         /\ \A j \in 1 .. Len(l) : l[j] \in Nodes /\ l[j] \in A
<1>1. A \subseteq Nodes /\ l \in Seq(A) /\ l # <<>>
  BY DEF Form
<1>2. Len(l) \in Nat /\ Len(l) > 0 /\ l \in [1 .. Len(l) -> A]
  BY <1>1
<1>3. l \in [1 .. Len(l) -> Nodes]
  BY <1>1, <1>2
<1>. QED BY <1>1, <1>2, <1>3

\* A node is at one place of one list.
LEMMA OnePlace ==
  ASSUME NEW A, NEW nx, NEW pv, NEW L, Form(A, nx, pv, L), NEW l \in L, NEW m \in L,
         NEW i \in 1 .. Len(l), NEW j \in 1 .. Len(m), l[i] = m[j]
  PROVE  l = m /\ i = j
BY DEF Form

\* What the pointers of a node say of its list.
LEMMA Pointers ==
  ASSUME NEW A, NEW nx, NEW pv, NEW L, Form(A, nx, pv, L), NEW l \in L, NEW i \in 1 .. Len(l)
  PROVE  /\ nx[l[i]] = IF i < Len(l) THEN l[i + 1] ELSE NULL
         /\ pv[l[i]] = IF i > 1 THEN l[i - 1] ELSE NULL
BY DEF Form

\* The nodes behind one in its list are its chain by next, those in front of it its
\* chain by prev.
Onwards(l, i) == [j \in 1 .. Len(l) + 1 - i |-> l[i + j - 1]]
Backwards(l, i) == [j \in 1 .. i |-> l[i + 1 - j]]

\* Next() walks a list onwards, Prev() backwards.
LEMMA ListChains ==
  ASSUME NodesAssumption, NEW A, NEW nx, NEW pv, NEW L, Form(A, nx, pv, L),
         NEW l \in L, NEW i \in 1 .. Len(l)
  PROVE  Chain(nx, l[i], Onwards(l, i)) /\ Chain(pv, l[i], Backwards(l, i))
<1>1. /\ l \in Seq(Nodes) /\ Len(l) \in Nat /\ \A j \in 1 .. Len(l) : l[j] \in Nodes
  BY InNodes
<1>2. \A j \in 1 .. Len(l) : /\ nx[l[j]] = IF j < Len(l) THEN l[j + 1] ELSE NULL
                             /\ pv[l[j]] = IF j > 1 THEN l[j - 1] ELSE NULL
  BY DEF Form
<1>3. Chain(nx, l[i], Onwards(l, i))
  <2>. DEFINE w == Onwards(l, i)
              k == Len(l) + 1 - i
  <2>1. k \in Nat /\ k > 0 /\ \A j \in 1 .. k : i + j - 1 \in 1 .. Len(l) /\ l[i + j - 1] \in Nodes
    BY <1>1
  <2>2. w \in [1 .. k -> Nodes] /\ \A j \in 1 .. k : w[j] = l[i + j - 1]
    BY <2>1 DEF Onwards
  <2>. HIDE DEF w
  <2>3. w \in Seq(Nodes) /\ Len(w) = k
    <3>. HIDE DEF k
    <3>. QED BY <2>1, <2>2
  <2>4. w # <<>> /\ w[1] = l[i]
    BY <1>1, <2>1, <2>2, <2>3
  <2>5. ASSUME NEW j \in 1 .. k PROVE nx[w[j]] = IF j < k THEN w[j + 1] ELSE NULL
    <3>1. w[j] = l[i + j - 1] /\ i + j - 1 \in 1 .. Len(l)
      BY <2>1, <2>2
    <3>2. nx[w[j]] = IF i + j - 1 < Len(l) THEN l[i + j] ELSE NULL
      BY <1>1, <1>2, <3>1
    <3>3. j < k => w[j + 1] = l[i + j]
      BY <1>1, <2>2
    <3>. QED BY <1>1, <3>2, <3>3
  <2>6. Chain(nx, l[i], w)
    BY <2>3, <2>4, <2>5 DEF Chain
  <2>. QED BY <2>6 DEF w
<1>4. Chain(pv, l[i], Backwards(l, i))
  <2>. DEFINE w == Backwards(l, i)
  <2>1. i \in Nat /\ i > 0 /\ \A j \in 1 .. i : i + 1 - j \in 1 .. Len(l) /\ l[i + 1 - j] \in Nodes
    BY <1>1
  <2>2. w \in [1 .. i -> Nodes] /\ \A j \in 1 .. i : w[j] = l[i + 1 - j]
    BY <2>1 DEF Backwards
  <2>. HIDE DEF w
  <2>3. w \in Seq(Nodes) /\ Len(w) = i
    BY <2>1, <2>2
  <2>4. w # <<>> /\ w[1] = l[i]
    BY <1>1, <2>1, <2>2, <2>3
  <2>5. ASSUME NEW j \in 1 .. i PROVE pv[w[j]] = IF j < i THEN w[j + 1] ELSE NULL
    <3>1. w[j] = l[i + 1 - j] /\ i + 1 - j \in 1 .. Len(l)
      BY <2>1, <2>2
    <3>2. pv[w[j]] = IF i + 1 - j > 1 THEN l[i - j] ELSE NULL
      BY <1>1, <1>2, <3>1
    <3>3. j < i => w[j + 1] = l[i - j]
      BY <1>1, <2>2
    <3>. QED BY <1>1, <3>2, <3>3
  <2>6. Chain(pv, l[i], w)
    BY <2>3, <2>4, <2>5 DEF Chain
  <2>. QED BY <2>6 DEF w
<1>. QED BY <1>3, <1>4

\* There are no rings.
LEMMA NoRings ==
  ASSUME NodesAssumption, NEW A, NEW nx, NEW pv, NEW L, Form(A, nx, pv, L)
  PROVE  Chained(nx) /\ Chained(pv)
<1>1. ASSUME NEW x \in Nodes PROVE (\E w : Chain(nx, x, w)) /\ (\E w : Chain(pv, x, w))
  <2>1. CASE x \in A
    <3>1. PICK l \in L : \E i \in 1 .. Len(l) : l[i] = x
      BY <2>1 DEF Form
    <3>2. PICK i \in 1 .. Len(l) : l[i] = x
      BY <3>1
    <3>. QED BY <3>2, ListChains
  <2>2. CASE x \notin A
    <3>1. nx[x] = NULL /\ pv[x] = NULL
      BY <2>2 DEF Form
    <3>2. <<x>> \in Seq(Nodes) /\ Len(<<x>>) = 1 /\ <<x>>[1] = x /\ <<x>> # <<>>
      OBVIOUS
    <3>3. Chain(nx, x, <<x>>) /\ Chain(pv, x, <<x>>)
      BY <3>1, <3>2 DEF Chain
    <3>. QED BY <3>3
  <2>. QED BY <2>1, <2>2
<1>. QED BY <1>1 DEF Chained

\* The lists are those the model finds by walking from the first nodes.
LEMMA Found ==
  ASSUME NodesAssumption, NEW A, NEW nx, NEW pv, NEW L, Form(A, nx, pv, L)
  PROVE  {Walk(nx, LET back == Walk(pv, n) IN back[Len(back)]) : n \in A} = L
<1>. DEFINE first(n) == LET back == Walk(pv, n) IN back[Len(back)]
<1>1. ASSUME NEW l \in L, NEW i \in 1 .. Len(l) PROVE Walk(nx, first(l[i])) = l
  <2>1. l \in Seq(Nodes) /\ Len(l) \in Nat /\ Len(l) > 0 /\ i \in Nat /\ i > 0
    BY InNodes
  <2>2. 1 \in 1 .. Len(l)
    BY <2>1
  <2>3. Walk(pv, l[i]) = Backwards(l, i) /\ Walk(nx, l[1]) = Onwards(l, 1)
    BY <2>2, ListChains, NoRings, Walks
  <2>4. Len(Backwards(l, i)) = i /\ Backwards(l, i)[i] = l[1]
    BY <2>1 DEF Backwards
  <2>5. Onwards(l, 1) = l
    <3>1. /\ Len(l) + 1 - 1 = Len(l)
          /\ \A j \in 1 .. Len(l) : l[1 + j - 1] = l[j]
      BY <2>1
    <3>2. Onwards(l, 1) = [j \in 1 .. Len(l) |-> l[j]]
      BY <3>1 DEF Onwards
    <3>3. l = [j \in 1 .. Len(l) |-> l[j]]
      BY <2>1
    <3>. QED BY <3>2, <3>3
  <2>. QED BY <2>3, <2>4, <2>5
<1>. HIDE DEF first
<1>2. ASSUME NEW n \in A PROVE Walk(nx, first(n)) \in L
  <2>1. PICK l \in L : \E i \in 1 .. Len(l) : l[i] = n
    BY DEF Form
  <2>. QED BY <1>1, <2>1
<1>3. ASSUME NEW l \in L PROVE \E n \in A : Walk(nx, first(n)) = l
  <2>1. l \in Seq(A) /\ l # <<>>
    BY DEF Form
  <2>2. 1 \in 1 .. Len(l) /\ l[1] \in A
    BY <2>1
  <2>. QED BY <1>1, <2>2
<1>4. {Walk(nx, first(n)) : n \in A} = L
  BY <1>2, <1>3
<1>. QED BY <1>4 DEF first

\* Neighbours agree.
LEMMA Agreeing ==
  ASSUME NodesAssumption, NEW L, Form(alive, next, prev, L)
  PROVE  DoublyLinked
<1>1. /\ alive \subseteq Nodes /\ NULL \notin Nodes
      /\ next \in [Nodes -> Nodes \cup {NULL}] /\ prev \in [Nodes -> Nodes \cup {NULL}]
      /\ \A n \in Nodes \ alive : next[n] = NULL /\ prev[n] = NULL
  BY DEF Form, NodesAssumption
<1>2. ASSUME NEW n \in alive
      PROVE  /\ next[n] \in alive \cup {NULL} /\ prev[n] \in alive \cup {NULL}
             /\ next[n] # NULL => prev[next[n]] = n
             /\ prev[n] # NULL => next[prev[n]] = n
             /\ next[n] # n /\ prev[n] # n
  <2>1. PICK l \in L : \E i \in 1 .. Len(l) : l[i] = n
    BY DEF Form
  <2>2. PICK i \in 1 .. Len(l) : l[i] = n
    BY <2>1
  <2>3. Len(l) \in Nat /\ \A j \in 1 .. Len(l) : l[j] \in alive
    BY InNodes
  <2>4. \A j \in 1 .. Len(l) : /\ next[l[j]] = IF j < Len(l) THEN l[j + 1] ELSE NULL
                               /\ prev[l[j]] = IF j > 1 THEN l[j - 1] ELSE NULL
    BY Pointers
  <2>5. \A j \in 1 .. Len(l) : l[j] = n => j = i
    BY <2>2, OnePlace
  <2>6. /\ i < Len(l) => i + 1 \in 1 .. Len(l) /\ i + 1 > 1 /\ (i + 1) - 1 = i
        /\ i > 1 => i - 1 \in 1 .. Len(l) /\ i - 1 < Len(l) /\ (i - 1) + 1 = i
    BY <2>3
  <2>7. CASE i < Len(l)
    <3>1. next[n] = l[i + 1] /\ prev[l[i + 1]] = l[i] /\ l[i + 1] \in alive /\ l[i + 1] # n
      BY <2>2, <2>3, <2>4, <2>5, <2>6, <2>7
    <3>2. CASE i > 1
      <4>1. prev[n] = l[i - 1] /\ next[l[i - 1]] = l[i] /\ l[i - 1] \in alive /\ l[i - 1] # n
        BY <2>2, <2>3, <2>4, <2>5, <2>6, <3>2
      <4>. QED BY <2>2, <3>1, <4>1
    <3>3. CASE ~ (i > 1)
      <4>1. prev[n] = NULL
        BY <2>2, <2>4, <3>3
      <4>. QED BY <1>1, <2>2, <3>1, <4>1
    <3>. QED BY <3>2, <3>3
  <2>8. CASE ~ (i < Len(l))
    <3>1. next[n] = NULL
      BY <2>2, <2>4, <2>8
    <3>2. CASE i > 1
      <4>1. prev[n] = l[i - 1] /\ next[l[i - 1]] = l[i] /\ l[i - 1] \in alive /\ l[i - 1] # n
        BY <2>2, <2>3, <2>4, <2>5, <2>6, <3>2
      <4>. QED BY <1>1, <2>2, <3>1, <4>1
    <3>3. CASE ~ (i > 1)
      <4>1. prev[n] = NULL
        BY <2>2, <2>4, <3>3
      <4>. QED BY <1>1, <2>2, <3>1, <4>1
    <3>. QED BY <3>2, <3>3
  <2>. QED BY <2>7, <2>8
<1>3. \A n \in Nodes : next[n] \in alive \cup {NULL} /\ prev[n] \in alive \cup {NULL}
  BY <1>1, <1>2
<1>4. next \in [Nodes -> alive \cup {NULL}] /\ prev \in [Nodes -> alive \cup {NULL}]
  BY <1>1, <1>3
<1>. QED BY <1>1, <1>2, <1>4 DEF DoublyLinked

\* ---- operations ------------------------------------------------------------------------

\* A sequence of members of a set.
LEMMA SeqOf ==
  ASSUME NEW A, NEW B, NEW l \in Seq(A), \A i \in 1 .. Len(l) : l[i] \in B
  PROVE  l \in Seq(B)
<1>1. Len(l) \in Nat /\ l \in [1 .. Len(l) -> A]
  OBVIOUS
<1>2. l \in [1 .. Len(l) -> B]
  BY <1>1
<1>. QED BY <1>1, <1>2

\* A node that nothing points to is a list of its own.
LEMMA Creating ==
  ASSUME NodesAssumption, NEW A, NEW nx, NEW pv, NEW L, Form(A, nx, pv, L), NEW n \in Nodes \ A
  PROVE  Form(A \cup {n}, nx, pv, L \cup {<<n>>})
<1>. DEFINE B == A \cup {n}
            M == L \cup {<<n>>}
<1>1. /\ <<n>> \in Seq(B) /\ <<n>> # <<>> /\ Len(<<n>>) = 1 /\ <<n>>[1] = n
      /\ nx[n] = NULL /\ pv[n] = NULL
  BY DEF Form
<1>2. ASSUME NEW l \in L
      PROVE l \in Seq(B) /\ l # <<>> /\ Len(l) \in Nat /\ \A i \in 1 .. Len(l) : l[i] \in A
  <2>1. l \in Seq(A) /\ l # <<>> /\ Len(l) \in Nat /\ \A i \in 1 .. Len(l) : l[i] \in A
    BY InNodes
  <2>. QED BY <2>1, SeqOf
<1>3. \A l \in M : l \in Seq(B) /\ l # <<>>
  BY <1>1, <1>2
<1>4. \A y \in B : \E l \in M : \E i \in 1 .. Len(l) : l[i] = y
  <2>1. \A y \in A : \E l \in M : \E i \in 1 .. Len(l) : l[i] = y
    BY DEF Form
  <2>2. 1 \in 1 .. Len(<<n>>)
    BY <1>1
  <2>. QED BY <1>1, <2>1, <2>2
<1>5. ASSUME NEW l \in M, NEW m \in M, NEW i \in 1 .. Len(l), NEW j \in 1 .. Len(m), l[i] = m[j]
      PROVE  l = m /\ i = j
  <2>1. CASE l \in L /\ m \in L
    BY <1>5, <2>1 DEF Form
  <2>2. CASE l = <<n>>
    <3>1. i = 1 /\ l[i] = n
      BY <1>1, <2>2
    <3>2. m = <<n>>
      BY <1>2, <1>5, <3>1
    <3>. QED BY <1>1, <2>2, <3>1, <3>2
  <2>3. CASE m = <<n>>
    <3>1. j = 1 /\ m[j] = n
      BY <1>1, <2>3
    <3>2. l = <<n>>
      BY <1>2, <1>5, <3>1
    <3>. QED BY <1>1, <2>3, <3>1, <3>2
  <2>. QED BY <2>1, <2>2, <2>3
<1>6. ASSUME NEW l \in M, NEW i \in 1 .. Len(l)
      PROVE  /\ nx[l[i]] = IF i < Len(l) THEN l[i + 1] ELSE NULL
             /\ pv[l[i]] = IF i > 1 THEN l[i - 1] ELSE NULL
  <2>1. CASE l \in L
    BY <2>1 DEF Form
  <2>2. CASE l = <<n>>
    <3>1. i = 1 /\ l[i] = n /\ Len(l) = 1
      BY <1>1, <2>2
    <3>. QED BY <1>1, <3>1
  <2>. QED BY <2>1, <2>2
<1>7. /\ B \subseteq Nodes
      /\ nx \in [Nodes -> Nodes \cup {NULL}] /\ pv \in [Nodes -> Nodes \cup {NULL}]
      /\ \A y \in Nodes \ B : nx[y] = NULL /\ pv[y] = NULL
  BY DEF Form
<1>. HIDE DEF B, M
<1>8. Form(B, nx, pv, M)
  BY <1>3, <1>4, <1>5, <1>6, <1>7 DEF Form
<1>. QED BY <1>8 DEF B, M

\* m is l with x at place p.
Inserted(l, p, x, m) ==
  /\ Len(m) = Len(l) + 1
  /\ \A k \in 1 .. Len(l) + 1 : m[k] = IF k < p THEN l[k] ELSE IF k = p THEN x ELSE l[k - 1]

\* A node that was alone is added at place p of a list.
LEMMA Inserting ==
  ASSUME NodesAssumption, NEW A, NEW nx, NEW pv, NEW L, Form(A, nx, pv, L),
         NEW x \in A, <<x>> \in L, NEW l \in L, l # <<x>>, NEW p \in 1 .. Len(l) + 1,
         NEW m \in Seq(A), Inserted(l, p, x, m),
         NEW nx2 \in [Nodes -> Nodes \cup {NULL}], NEW pv2 \in [Nodes -> Nodes \cup {NULL}],
         \A q \in Nodes :
           /\ nx2[q] = IF q = x THEN (IF p <= Len(l) THEN l[p] ELSE NULL)
                       ELSE IF p > 1 /\ q = l[p - 1] THEN x ELSE nx[q]
           /\ pv2[q] = IF q = x THEN (IF p > 1 THEN l[p - 1] ELSE NULL)
                       ELSE IF p <= Len(l) /\ q = l[p] THEN x ELSE pv[q]
  PROVE  Form(A, nx2, pv2, (L \ {l, <<x>>}) \cup {m})
<1>. DEFINE rest == L \ {l, <<x>>}
            M == rest \cup {m}
            old(k) == IF k < p THEN k ELSE k - 1
<1>1. /\ Len(l) \in Nat /\ Len(l) > 0 /\ \A k \in 1 .. Len(l) : l[k] \in A /\ l[k] \in Nodes
      /\ Len(<<x>>) = 1 /\ <<x>>[1] = x /\ x \in Nodes /\ A \subseteq Nodes
  <2>1. A \subseteq Nodes
    BY DEF Form
  <2>2. Len(l) \in Nat /\ Len(l) > 0 /\ \A k \in 1 .. Len(l) : l[k] \in A /\ l[k] \in Nodes
    BY InNodes
  <2>. QED BY <2>1, <2>2
<1>2. \A k \in 1 .. Len(l) : l[k] # x
  <2>1. ASSUME NEW k \in 1 .. Len(l), l[k] = x PROVE FALSE
    <3>1. 1 \in 1 .. Len(<<x>>) /\ l[k] = <<x>>[1]
      BY <1>1, <2>1
    <3>2. l = <<x>>
      BY <3>1, OnePlace
    <3>. QED BY <3>2
  <2>. QED BY <2>1
<1>3. /\ Len(m) = Len(l) + 1 /\ m # <<>> /\ p \in 1 .. Len(m) /\ m[p] = x
      /\ \A k \in 1 .. Len(m) : k # p => old(k) \in 1 .. Len(l) /\ m[k] = l[old(k)]
  BY <1>1 DEF Inserted
<1>4. \A v \in rest : \A k \in 1 .. Len(v) :
        v[k] # x /\ v[k] \in Nodes /\ \A j \in 1 .. Len(l) : v[k] # l[j]
  <2>. SUFFICES ASSUME NEW v \in rest, NEW k \in 1 .. Len(v)
                PROVE  v[k] # x /\ v[k] \in Nodes /\ \A j \in 1 .. Len(l) : v[k] # l[j]
    OBVIOUS
  <2>1. v[k] # x
    BY <1>1, OnePlace
  <2>2. v[k] \in Nodes
    BY InNodes
  <2>3. \A j \in 1 .. Len(l) : v[k] # l[j]
    BY OnePlace
  <2>. QED BY <2>1, <2>2, <2>3
<1>5. \A v \in M : v \in Seq(A) /\ v # <<>>
  BY <1>3, InNodes
<1>6. ASSUME NEW y \in A PROVE \E v \in M : \E k \in 1 .. Len(v) : v[k] = y
  <2>1. PICK v \in L : \E k \in 1 .. Len(v) : v[k] = y
    BY DEF Form
  <2>2. PICK k \in 1 .. Len(v) : v[k] = y
    BY <2>1
  <2>3. CASE v = l
    <3>. DEFINE j == IF k < p THEN k ELSE k + 1
    <3>1. j \in 1 .. Len(m) /\ j # p /\ old(j) = k
      BY <1>1, <1>3, <2>3
    <3>. HIDE DEF j, old
    <3>2. m[j] = y
      BY <1>3, <2>2, <2>3, <3>1
    <3>. QED BY <3>1, <3>2
  <2>4. CASE v = <<x>>
    <3>1. y = x
      BY <1>1, <2>2, <2>4
    <3>. QED BY <1>3, <3>1
  <2>. QED BY <2>2, <2>3, <2>4
<1>7. ASSUME NEW v \in M, NEW w \in M, NEW i \in 1 .. Len(v), NEW j \in 1 .. Len(w), v[i] = w[j]
      PROVE  v = w /\ i = j
  <2>1. CASE v \in rest /\ w \in rest
    BY <1>7, <2>1, OnePlace
  <2>2. \A u \in rest : \A k \in 1 .. Len(u), h \in 1 .. Len(m) : u[k] # m[h]
    <3>1. SUFFICES ASSUME NEW u \in rest, NEW k \in 1 .. Len(u), NEW h \in 1 .. Len(m)
                   PROVE  u[k] # m[h]
      OBVIOUS
    <3>2. u[k] # x /\ \A g \in 1 .. Len(l) : u[k] # l[g]
      BY <1>4
    <3>. HIDE DEF rest
    <3>3. CASE h = p
      BY <1>3, <3>2, <3>3
    <3>4. CASE h # p
      <4>. DEFINE g == old(h)
      <4>1. g \in 1 .. Len(l) /\ m[h] = l[g]
        BY <1>3, <3>4
      <4>. HIDE DEF g, old
      <4>. QED BY <3>2, <4>1
    <3>. QED BY <3>3, <3>4
  <2>3. CASE v = m /\ w = m
    <3>1. CASE i = p \/ j = p
      <4>. HIDE DEF old
      <4>1. i = p /\ j = p
        BY <1>2, <1>3, <1>7, <2>3, <3>1, SMTT(30)
      <4>. QED BY <2>3, <4>1
    <3>2. CASE i # p /\ j # p
      <4>1. l[old(i)] = l[old(j)] /\ old(i) \in 1 .. Len(l) /\ old(j) \in 1 .. Len(l)
        BY <1>3, <1>7, <2>3, <3>2
      <4>. HIDE DEF old
      <4>2. old(i) = old(j)
        BY <4>1, OnePlace
      <4>. QED BY <1>1, <1>3, <2>3, <3>2, <4>2 DEF old
    <3>. QED BY <3>1, <3>2
  <2>. QED BY <1>7, <2>1, <2>2, <2>3
<1>8. ASSUME NEW v \in rest, NEW i \in 1 .. Len(v)
      PROVE  /\ nx2[v[i]] = IF i < Len(v) THEN v[i + 1] ELSE NULL
             /\ pv2[v[i]] = IF i > 1 THEN v[i - 1] ELSE NULL
  <2>1. /\ nx[v[i]] = IF i < Len(v) THEN v[i + 1] ELSE NULL
        /\ pv[v[i]] = IF i > 1 THEN v[i - 1] ELSE NULL
    BY Pointers
  <2>2. v[i] # x /\ v[i] \in Nodes /\ ~ (p > 1 /\ v[i] = l[p - 1]) /\ ~ (p <= Len(l) /\ v[i] = l[p])
    BY <1>1, <1>4
  <2>3. nx2[v[i]] = nx[v[i]] /\ pv2[v[i]] = pv[v[i]]
    BY <2>2
  <2>. QED BY <2>1, <2>3
<1>9. ASSUME NEW i \in 1 .. Len(m)
      PROVE  /\ nx2[m[i]] = IF i < Len(m) THEN m[i + 1] ELSE NULL
             /\ pv2[m[i]] = IF i > 1 THEN m[i - 1] ELSE NULL
  <2>1. \A k \in 1 .. Len(l) : /\ nx[l[k]] = IF k < Len(l) THEN l[k + 1] ELSE NULL
                               /\ pv[l[k]] = IF k > 1 THEN l[k - 1] ELSE NULL
    BY Pointers
  <2>2. \A k, j \in 1 .. Len(l) : l[k] = l[j] => k = j
    BY OnePlace
  <2>3. \A k \in 1 .. Len(l) :
          /\ nx2[l[k]] = IF k = p - 1 THEN x ELSE IF k < Len(l) THEN l[k + 1] ELSE NULL
          /\ pv2[l[k]] = IF k = p THEN x ELSE IF k > 1 THEN l[k - 1] ELSE NULL
    <3>. SUFFICES ASSUME NEW k \in 1 .. Len(l)
                  PROVE  /\ nx2[l[k]] = IF k = p - 1 THEN x ELSE IF k < Len(l) THEN l[k + 1] ELSE NULL
                         /\ pv2[l[k]] = IF k = p THEN x ELSE IF k > 1 THEN l[k - 1] ELSE NULL
      OBVIOUS
    <3>1. l[k] # x /\ l[k] \in Nodes
      BY <1>1, <1>2
    <3>2. (p > 1 /\ l[k] = l[p - 1]) <=> k = p - 1
      BY <1>1, <2>2
    <3>3. (p <= Len(l) /\ l[k] = l[p]) <=> k = p
      BY <1>1, <2>2
    <3>4. /\ nx2[l[k]] = IF k = p - 1 THEN x ELSE nx[l[k]]
          /\ pv2[l[k]] = IF k = p THEN x ELSE pv[l[k]]
      BY <3>1, <3>2, <3>3
    <3>. QED BY <2>1, <3>4
  <2>4. \A k \in 1 .. Len(l) + 1 : m[k] = IF k < p THEN l[k] ELSE IF k = p THEN x ELSE l[k - 1]
    BY DEF Inserted
  <2>5. CASE i = p
    <3>1. /\ m[i] = x
          /\ i < Len(m) => m[i + 1] = l[p]
          /\ i > 1 => m[i - 1] = l[p - 1]
      BY <1>1, <1>3, <2>4, <2>5
    <3>2. /\ nx2[x] = IF p <= Len(l) THEN l[p] ELSE NULL
          /\ pv2[x] = IF p > 1 THEN l[p - 1] ELSE NULL
      BY <1>1
    <3>. QED BY <1>1, <1>3, <2>5, <3>1, <3>2
  <2>6. CASE i < p
    <3>1. m[i] = l[i] /\ i \in 1 .. Len(l)
      BY <1>1, <2>4, <2>6
    <3>2. /\ m[i + 1] = IF i = p - 1 THEN x ELSE l[i + 1]
          /\ i < Len(m) /\ (i = p - 1 \/ i < Len(l))
          /\ i > 1 => m[i - 1] = l[i - 1]
      BY <1>1, <1>3, <2>4, <2>6
    <3>3. i # p
      BY <2>6
    <3>. QED BY <2>3, <3>1, <3>2, <3>3
  <2>7. CASE i > p
    <3>1. m[i] = l[i - 1] /\ i - 1 \in 1 .. Len(l)
      BY <1>1, <1>3, <2>4, <2>7
    <3>2. /\ i < Len(m) <=> i - 1 < Len(l)
          /\ i < Len(m) => m[i + 1] = l[i]
          /\ i > 1 /\ m[i - 1] = IF i - 1 = p THEN x ELSE l[i - 2]
          /\ i - 1 # p - 1 /\ (i - 1 = p \/ i - 1 > 1)
      BY <1>1, <1>3, <2>4, <2>7
    <3>3. /\ nx2[l[i - 1]] = IF i - 1 < Len(l) THEN l[i] ELSE NULL
          /\ pv2[l[i - 1]] = IF i - 1 = p THEN x ELSE l[i - 2]
      BY <1>1, <2>3, <3>1, <3>2
    <3>. QED BY <3>1, <3>2, <3>3
  <2>. QED BY <2>5, <2>6, <2>7
<1>10. ASSUME NEW y \in Nodes \ A PROVE nx2[y] = NULL /\ pv2[y] = NULL
  <2>1. nx[y] = NULL /\ pv[y] = NULL
    BY DEF Form
  <2>2. y # x /\ ~ (p > 1 /\ y = l[p - 1]) /\ ~ (p <= Len(l) /\ y = l[p])
    BY <1>1
  <2>. QED BY <2>1, <2>2
<1>11. \A v \in M : \A i \in 1 .. Len(v) : /\ nx2[v[i]] = IF i < Len(v) THEN v[i + 1] ELSE NULL
                                           /\ pv2[v[i]] = IF i > 1 THEN v[i - 1] ELSE NULL
  <2>. HIDE DEF rest, old
  <2>. QED BY <1>8, <1>9
<1>. HIDE DEF M
<1>12. A \subseteq Nodes
  BY <1>1
<1>13. Form(A, nx2, pv2, M)
  BY <1>5, <1>6, <1>7, <1>10, <1>11, <1>12 DEF Form
<1>. QED BY <1>13 DEF M

\* r is l without the node at place p.
TakenFrom(l, p, r) ==
  /\ Len(r) = Len(l) - 1
  /\ \A k \in 1 .. Len(l) - 1 : r[k] = IF k < p THEN l[k] ELSE l[k + 1]

\* The neighbours of a node are linked to each other, and it to nobody.
LEMMA Removing ==
  ASSUME NodesAssumption, NEW A, NEW nx, NEW pv, NEW L, Form(A, nx, pv, L),
         NEW l \in L, NEW p \in 1 .. Len(l), NEW n, n = l[p],
         NEW r \in Seq(A), TakenFrom(l, p, r),
         NEW nx2 \in [Nodes -> Nodes \cup {NULL}], NEW pv2 \in [Nodes -> Nodes \cup {NULL}],
         \A q \in Nodes :
           /\ nx2[q] = IF q = n THEN NULL ELSE IF q = pv[n] THEN nx[n] ELSE nx[q]
           /\ pv2[q] = IF q = n THEN NULL ELSE IF q = nx[n] THEN pv[n] ELSE pv[q]
  PROVE  Form(A \ {n}, nx2, pv2, ((L \ {l}) \cup {r}) \ {<<>>})
<1>. DEFINE rest == L \ {l}
            M == (rest \cup {r}) \ {<<>>}
            old(k) == IF k < p THEN k ELSE k + 1
<1>1. /\ Len(l) \in Nat /\ Len(l) > 0 /\ \A k \in 1 .. Len(l) : l[k] \in A /\ l[k] \in Nodes
      /\ n \in A /\ n \in Nodes /\ NULL \notin Nodes /\ A \subseteq Nodes
  <2>1. A \subseteq Nodes
    BY DEF Form
  <2>2. Len(l) \in Nat /\ Len(l) > 0 /\ \A k \in 1 .. Len(l) : l[k] \in A /\ l[k] \in Nodes
    BY InNodes
  <2>. QED BY <2>1, <2>2 DEF NodesAssumption
<1>2. \A k, j \in 1 .. Len(l) : l[k] = l[j] => k = j
  BY OnePlace
<1>3. \A k \in 1 .. Len(l) : /\ nx[l[k]] = IF k < Len(l) THEN l[k + 1] ELSE NULL
                             /\ pv[l[k]] = IF k > 1 THEN l[k - 1] ELSE NULL
  BY Pointers
<1>4. /\ Len(r) = Len(l) - 1 /\ Len(r) \in Nat
      /\ \A k \in 1 .. Len(r) : old(k) \in 1 .. Len(l) /\ old(k) # p /\ r[k] = l[old(k)]
  BY <1>1 DEF TakenFrom
<1>5. \A k \in 1 .. Len(l) : k # p => l[k] # n
  BY <1>2
<1>6. \A v \in rest : \A k \in 1 .. Len(v) :
        v[k] # n /\ v[k] \in A /\ \A j \in 1 .. Len(l) : v[k] # l[j]
  <2>. SUFFICES ASSUME NEW v \in rest, NEW k \in 1 .. Len(v)
                PROVE  v[k] \in A /\ \A j \in 1 .. Len(l) : v[k] # l[j]
    OBVIOUS
  <2>1. v[k] \in A
    BY InNodes
  <2>2. \A j \in 1 .. Len(l) : v[k] # l[j]
    BY OnePlace
  <2>. QED BY <2>1, <2>2
<1>7. ASSUME NEW k \in 1 .. Len(r) PROVE r[k] # n /\ r[k] \in A
  <2>1. old(k) \in 1 .. Len(l) /\ old(k) # p /\ r[k] = l[old(k)]
    BY <1>4
  <2>. HIDE DEF old
  <2>. QED BY <1>1, <1>5, <2>1
<1>8. ASSUME NEW v \in M PROVE v \in Seq(A \ {n}) /\ v # <<>>
  <2>1. v \in Seq(A) /\ \A k \in 1 .. Len(v) : v[k] \in A \ {n}
    BY <1>6, <1>7, InNodes
  <2>. QED BY <2>1, SeqOf
<1>9. ASSUME NEW y \in A \ {n} PROVE \E v \in M : \E k \in 1 .. Len(v) : v[k] = y
  <2>1. PICK v \in L : \E k \in 1 .. Len(v) : v[k] = y
    BY DEF Form
  <2>2. PICK k \in 1 .. Len(v) : v[k] = y
    BY <2>1
  <2>3. CASE v # l
    BY <2>2, <2>3, InNodes
  <2>4. CASE v = l
    <3>. DEFINE j == IF k < p THEN k ELSE k - 1
    <3>1. k # p
      BY <2>2, <2>4
    <3>2. j \in 1 .. Len(r) /\ old(j) = k
      BY <1>1, <1>4, <2>4, <3>1
    <3>. HIDE DEF j, old
    <3>3. r[j] = y
      BY <1>4, <2>2, <2>4, <3>2
    <3>4. r # <<>>
      BY <3>2, EmptySeq
    <3>. QED BY <3>2, <3>3, <3>4
  <2>. QED BY <2>3, <2>4
<1>10. ASSUME NEW v \in M, NEW w \in M, NEW i \in 1 .. Len(v), NEW j \in 1 .. Len(w), v[i] = w[j]
       PROVE  v = w /\ i = j
  <2>1. CASE v \in rest /\ w \in rest
    BY <1>10, <2>1, OnePlace
  <2>2. \A u \in rest : \A k \in 1 .. Len(u), h \in 1 .. Len(r) : u[k] # r[h]
    <3>. HIDE DEF old
    <3>. QED BY <1>4, <1>6, SMTT(40)
  <2>3. CASE v = r /\ w = r
    <3>1. l[old(i)] = l[old(j)] /\ old(i) \in 1 .. Len(l) /\ old(j) \in 1 .. Len(l)
      BY <1>4, <1>10, <2>3
    <3>2. old(i) = old(j)
      <4>. HIDE DEF old
      <4>. QED BY <1>2, <3>1
    <3>. QED BY <1>1, <1>4, <2>3, <3>2
  <2>. QED BY <1>10, <2>1, <2>2, <2>3
<1>11. ASSUME NEW v \in rest, NEW i \in 1 .. Len(v)
       PROVE  /\ nx2[v[i]] = IF i < Len(v) THEN v[i + 1] ELSE NULL
              /\ pv2[v[i]] = IF i > 1 THEN v[i - 1] ELSE NULL
  <2>1. /\ nx[v[i]] = IF i < Len(v) THEN v[i + 1] ELSE NULL
        /\ pv[v[i]] = IF i > 1 THEN v[i - 1] ELSE NULL
    BY Pointers
  <2>2. v[i] \in Nodes /\ v[i] # n /\ v[i] # pv[n] /\ v[i] # nx[n]
    BY <1>1, <1>3, <1>6
  <2>3. nx2[v[i]] = nx[v[i]] /\ pv2[v[i]] = pv[v[i]]
    BY <2>2
  <2>. QED BY <2>1, <2>3
<1>12. ASSUME NEW i \in 1 .. Len(r)
       PROVE  /\ nx2[r[i]] = IF i < Len(r) THEN r[i + 1] ELSE NULL
              /\ pv2[r[i]] = IF i > 1 THEN r[i - 1] ELSE NULL
  <2>1. \A k \in 1 .. Len(l) : k # p =>
          /\ nx2[l[k]] = IF k = p - 1 THEN (IF p < Len(l) THEN l[p + 1] ELSE NULL)
                         ELSE IF k < Len(l) THEN l[k + 1] ELSE NULL
          /\ pv2[l[k]] = IF k = p + 1 THEN (IF p > 1 THEN l[p - 1] ELSE NULL)
                         ELSE IF k > 1 THEN l[k - 1] ELSE NULL
    <3>. SUFFICES ASSUME NEW k \in 1 .. Len(l), k # p
         PROVE  /\ nx2[l[k]] = IF k = p - 1 THEN (IF p < Len(l) THEN l[p + 1] ELSE NULL)
                               ELSE IF k < Len(l) THEN l[k + 1] ELSE NULL
                /\ pv2[l[k]] = IF k = p + 1 THEN (IF p > 1 THEN l[p - 1] ELSE NULL)
                               ELSE IF k > 1 THEN l[k - 1] ELSE NULL
      OBVIOUS
    <3>1. l[k] # n /\ l[k] \in Nodes /\ l[k] # NULL
      BY <1>1, <1>5
    <3>2. l[k] = pv[n] <=> k = p - 1
      BY <1>1, <1>2, <1>3, <3>1
    <3>3. l[k] = nx[n] <=> k = p + 1
      BY <1>1, <1>2, <1>3, <3>1
    <3>4. /\ nx2[l[k]] = IF k = p - 1 THEN nx[n] ELSE nx[l[k]]
          /\ pv2[l[k]] = IF k = p + 1 THEN pv[n] ELSE pv[l[k]]
      BY <3>1, <3>2, <3>3
    <3>. QED BY <1>3, <3>4
  <2>2. \A k \in 1 .. Len(l) - 1 : r[k] = IF k < p THEN l[k] ELSE l[k + 1]
    BY DEF TakenFrom
  <2>3. CASE i < p
    <3>1. r[i] = l[i] /\ i \in 1 .. Len(l) /\ i # p /\ i # p + 1
      BY <1>1, <1>4, <2>2, <2>3
    <3>2. /\ i < Len(r) => r[i + 1] = IF i = p - 1 THEN l[p + 1] ELSE l[i + 1]
          /\ i < Len(r) <=> IF i = p - 1 THEN p < Len(l) ELSE i < Len(l)
          /\ i > 1 => r[i - 1] = l[i - 1]
      BY <1>1, <1>4, <2>2, <2>3
    <3>. QED BY <2>1, <3>1, <3>2
  <2>4. CASE ~ (i < p)
    <3>1. r[i] = l[i + 1] /\ i + 1 \in 1 .. Len(l) /\ i + 1 # p /\ i + 1 # p - 1
      BY <1>1, <1>4, <2>2, <2>4
    <3>2. /\ i < Len(r) => r[i + 1] = l[i + 2]
          /\ i < Len(r) <=> i + 1 < Len(l)
          /\ i > 1 => r[i - 1] = IF i + 1 = p + 1 THEN l[p - 1] ELSE l[i]
          /\ i > 1 <=> IF i + 1 = p + 1 THEN p > 1 ELSE TRUE
          /\ i + 1 > 1
      <4>1. /\ Len(l) \in Nat /\ p \in 1 .. Len(l) /\ Len(r) = Len(l) - 1
            /\ i \in 1 .. Len(l) - 1 /\ ~ (i < p)
        BY <1>1, <1>4, <2>4
      <4>2. i < Len(r) => r[i + 1] = l[i + 2]
        BY <2>2, <4>1
      <4>3. i > 1 => r[i - 1] = IF i + 1 = p + 1 THEN l[p - 1] ELSE l[i]
        BY <2>2, <4>1
      <4>4. /\ i < Len(r) <=> i + 1 < Len(l)
            /\ i > 1 <=> IF i + 1 = p + 1 THEN p > 1 ELSE TRUE
            /\ i + 1 > 1
        BY <4>1
      <4>. QED BY <4>2, <4>3, <4>4
    <3>3. /\ nx2[l[i + 1]] = IF i + 1 < Len(l) THEN l[i + 2] ELSE NULL
          /\ pv2[l[i + 1]] = IF i + 1 = p + 1 THEN (IF p > 1 THEN l[p - 1] ELSE NULL) ELSE l[i]
      BY <1>1, <2>1, <3>1, <3>2
    <3>. QED BY <3>1, <3>2, <3>3
  <2>. QED BY <2>3, <2>4
<1>13. ASSUME NEW y \in Nodes \ (A \ {n}) PROVE nx2[y] = NULL /\ pv2[y] = NULL
  <2>1. y # n => nx[y] = NULL /\ pv[y] = NULL /\ y \notin A
    BY DEF Form
  <2>2. pv[n] \in A \cup {NULL} /\ nx[n] \in A \cup {NULL}
    <3>1. /\ nx[n] = IF p < Len(l) THEN l[p + 1] ELSE NULL
          /\ pv[n] = IF p > 1 THEN l[p - 1] ELSE NULL
      BY <1>3
    <3>2. /\ p < Len(l) => p + 1 \in 1 .. Len(l)
          /\ p > 1 => p - 1 \in 1 .. Len(l)
      BY <1>1
    <3>. QED BY <1>1, <3>1, <3>2
  <2>. QED BY <1>1, <2>1, <2>2
<1>14. \A v \in M : \A i \in 1 .. Len(v) : /\ nx2[v[i]] = IF i < Len(v) THEN v[i + 1] ELSE NULL
                                           /\ pv2[v[i]] = IF i > 1 THEN v[i - 1] ELSE NULL
  <2>. HIDE DEF rest, old
  <2>. QED BY <1>11, <1>12
<1>. HIDE DEF M
<1>15. A \ {n} \subseteq Nodes
  BY <1>1
<1>16. Form(A \ {n}, nx2, pv2, M)
  BY <1>8, <1>9, <1>10, <1>13, <1>14, <1>15 DEF Form
<1>. QED BY <1>16 DEF M

\* Adding and taking out, as Lists does it.
LEMMA InsertingAt ==
  ASSUME NEW A, NEW l \in Seq(A), NEW p \in 1 .. Len(l) + 1, NEW x \in A
  PROVE  Promised!InsertAt(l, p, x) \in Seq(A) /\ Inserted(l, p, x, Promised!InsertAt(l, p, x))
<1>. DEFINE n == Len(l)
            q == p - 1
            before == SubSeq(l, 1, q)
            behind == SubSeq(l, p, n)
            m == before \o <<x>> \o behind
<1>1. n \in Nat /\ q \in 0 .. n /\ p = q + 1 /\ q \in Nat /\ \A k \in 1 .. n : l[k] \in A
  OBVIOUS
<1>. HIDE DEF n, q
<1>2. before \in Seq(A) /\ Len(before) = q /\ \A k \in 1 .. q : before[k] = l[k]
  <2>1. \A k \in 1 .. q : l[k] \in A
    BY <1>1
  <2>. QED BY <1>1, <2>1, SubSeqProperties
<1>3. behind \in Seq(A) /\ Len(behind) = n - q /\ \A k \in 1 .. n - q : behind[k] = l[p + k - 1]
  <2>1. p \in Int /\ n \in Int /\ \A k \in p .. n : l[k] \in A
    BY <1>1
  <2>2. /\ behind \in Seq(A) /\ Len(behind) = IF p <= n THEN n - p + 1 ELSE 0
        /\ \A k \in 1 .. n - p + 1 : behind[k] = l[p + k - 1]
    BY <2>1, SubSeqProperties
  <2>. HIDE DEF behind
  <2>. QED BY <1>1, <2>2
<1>. HIDE DEF before, behind
<1>4. /\ before \o <<x>> \in Seq(A) /\ Len(before \o <<x>>) = q + 1
      /\ \A k \in 1 .. q + 1 : (before \o <<x>>)[k] = IF k <= q THEN l[k] ELSE x
  BY <1>1, <1>2
<1>. DEFINE b == before \o <<x>>
<1>5. /\ b \in Seq(A) /\ Len(b) = q + 1
      /\ \A k \in 1 .. q + 1 : b[k] = IF k <= q THEN l[k] ELSE x
  BY <1>4
<1>. HIDE DEF b
<1>6. /\ b \o behind \in Seq(A) /\ Len(b \o behind) = n + 1
      /\ \A k \in 1 .. n + 1 : (b \o behind)[k] = IF k <= q + 1 THEN b[k] ELSE behind[k - (q + 1)]
  BY <1>1, <1>3, <1>5
<1>7. m = b \o behind
  BY DEF b
<1>. HIDE DEF m
<1>8. /\ m \in Seq(A) /\ Len(m) = n + 1
      /\ \A k \in 1 .. n + 1 : m[k] = IF k <= q + 1 THEN b[k] ELSE behind[k - (q + 1)]
  BY <1>6, <1>7
<1>9. ASSUME NEW k \in 1 .. n + 1 PROVE m[k] = IF k < p THEN l[k] ELSE IF k = p THEN x ELSE l[k - 1]
  <2>1. CASE k <= q + 1
    BY <1>1, <1>5, <1>8, <2>1
  <2>2. CASE ~ (k <= q + 1)
    <3>. DEFINE j == k - (q + 1)
    <3>1. j \in 1 .. n - q /\ p + j - 1 = k - 1
      BY <1>1, <2>2
    <3>. HIDE DEF j
    <3>2. behind[j] = l[k - 1]
      BY <1>3, <3>1
    <3>. QED BY <1>1, <1>8, <2>2, <3>2 DEF j
  <2>. QED BY <2>1, <2>2
<1>10. Promised!InsertAt(l, p, x) = m
  BY DEF m, before, behind, n, q, Promised!InsertAt
<1>. QED BY <1>8, <1>9, <1>10 DEF Inserted, n

\* RemoveAt of Lists takes one node out and closes the gap.
LEMMA TakingFrom ==
  ASSUME NEW A, NEW l \in Seq(A), NEW p \in 1 .. Len(l)
  PROVE  Promised!RemoveAt(l, p) \in Seq(A) /\ TakenFrom(l, p, Promised!RemoveAt(l, p))
<1>. DEFINE n == Len(l)
            q == p - 1
            before == SubSeq(l, 1, q)
            behind == SubSeq(l, p + 1, n)
            m == before \o behind
<1>1. n \in Nat /\ p \in 1 .. n /\ q \in Nat /\ p = q + 1 /\ \A k \in 1 .. n : l[k] \in A
  OBVIOUS
<1>. HIDE DEF n, q
<1>2. before \in Seq(A) /\ Len(before) = q /\ \A k \in 1 .. q : before[k] = l[k]
  <2>1. \A k \in 1 .. q : l[k] \in A
    BY <1>1
  <2>. QED BY <1>1, <2>1, SubSeqProperties
<1>3. behind \in Seq(A) /\ Len(behind) = n - p /\ \A k \in 1 .. n - p : behind[k] = l[p + k]
  <2>1. p + 1 \in Int /\ n \in Int /\ \A k \in p + 1 .. n : l[k] \in A
    BY <1>1
  <2>2. /\ behind \in Seq(A) /\ Len(behind) = IF p + 1 <= n THEN n - (p + 1) + 1 ELSE 0
        /\ \A k \in 1 .. n - (p + 1) + 1 : behind[k] = l[(p + 1) + k - 1]
    BY <2>1, SubSeqProperties
  <2>. HIDE DEF behind
  <2>. QED BY <1>1, <2>2
<1>. HIDE DEF before, behind
<1>4. /\ before \o behind \in Seq(A) /\ Len(before \o behind) = n - 1
      /\ \A k \in 1 .. n - 1 : (before \o behind)[k] = IF k <= q THEN before[k] ELSE behind[k - q]
  <2>1. /\ before \o behind \in Seq(A) /\ Len(before \o behind) = Len(before) + Len(behind)
        /\ \A k \in 1 .. Len(before) + Len(behind) :
             (before \o behind)[k] = IF k <= Len(before) THEN before[k] ELSE behind[k - Len(before)]
    BY <1>2, <1>3, ConcatProperties
  <2>2. Len(before) = q /\ Len(before) + Len(behind) = n - 1
    BY <1>1, <1>2, <1>3
  <2>. QED BY <2>1, <2>2
<1>5. m \in Seq(A) /\ Len(m) = n - 1 /\ \A k \in 1 .. n - 1 : m[k] = IF k <= q THEN before[k] ELSE behind[k - q]
  BY <1>4
<1>. HIDE DEF m
<1>6. ASSUME NEW k \in 1 .. n - 1 PROVE m[k] = IF k < p THEN l[k] ELSE l[k + 1]
  <2>1. CASE k <= q
    BY <1>1, <1>2, <1>5, <2>1
  <2>2. CASE ~ (k <= q)
    <3>. DEFINE j == k - q
    <3>1. j \in 1 .. n - p /\ p + j = k + 1
      BY <1>1, <2>2
    <3>. HIDE DEF j
    <3>2. behind[j] = l[k + 1]
      BY <1>3, <3>1
    <3>. QED BY <1>1, <1>5, <2>2, <3>2 DEF j
  <2>. QED BY <2>1, <2>2
<1>7. Promised!RemoveAt(l, p) = m
  BY DEF m, before, behind, n, q, Promised!RemoveAt
<1>. QED BY <1>5, <1>6, <1>7 DEF TakenFrom, n

\* The place of a node in its list.
LEMMA Placed ==
  ASSUME NEW A, NEW nx, NEW pv, NEW L, Form(A, nx, pv, L), NEW l \in L, NEW i \in 1 .. Len(l)
  PROVE  Promised!Has(l, l[i]) /\ Promised!Place(l, l[i]) = i
<1>1. DOMAIN l = 1 .. Len(l)
  BY InNodes
<1>2. \A j \in DOMAIN l : l[j] = l[i] => j = i
  BY <1>1, OnePlace
<1>. QED BY <1>1, <1>2 DEF Promised!Has, Promised!Place


\* What one operation promises to do to the lists.
Promise(L, M) ==
  \E n \in Nodes :
    \/ (\A l \in L : ~ Promised!Has(l, n)) /\ M = L \cup {<<n>>}
    \/ \E l \in L : /\ Promised!Has(l, n)
                    /\ M = ((L \ {l}) \cup {Promised!Without(l, n), <<n>>}) \ {<<>>}
    \/ \E l \in L : /\ Promised!Has(l, n)
                    /\ M = ((L \ {l}) \cup {Promised!Without(l, n)}) \ {<<>>}
    \/ \E x \in Nodes : \E l \in L : \E behind \in {0, 1} :
         /\ Promised!Has(l, n) /\ <<x>> \in L /\ x # n
         /\ M = (L \ {l, <<x>>}) \cup {Promised!InsertAt(l, Promised!Place(l, n) + behind, x)}

\* The lists after a step.
Goes(L) == \E M : Form(alive', next', prev', M) /\ Promise(L, M)

\* LinkedListNode() makes a list of one node.
LEMMA NewGoes ==
  ASSUME NodesAssumption, NEW L, Form(alive, next, prev, L), NEW n \in Nodes, New(n)
  PROVE  Goes(L)
<1>1. n \in Nodes \ alive /\ alive' = alive \cup {n}
  BY DEF New
<1>2. next' = next /\ prev' = prev
  <2>1. next[n] = NULL /\ prev[n] = NULL /\ next \in [Nodes -> Nodes \cup {NULL}]
        /\ prev \in [Nodes -> Nodes \cup {NULL}]
    BY <1>1 DEF Form
  <2>. QED BY <2>1 DEF New
<1>3. Form(alive', next', prev', L \cup {<<n>>})
  BY <1>1, <1>2, Creating
<1>4. \A l \in L : ~ Promised!Has(l, n)
  <2>. SUFFICES ASSUME NEW l \in L PROVE ~ Promised!Has(l, n)
    OBVIOUS
  <2>1. DOMAIN l = 1 .. Len(l) /\ \A i \in 1 .. Len(l) : l[i] \in alive
    BY InNodes
  <2>. QED BY <1>1, <2>1 DEF Promised!Has
<1>5. Promise(L, L \cup {<<n>>})
  BY <1>4 DEF Promise
<1>. QED BY <1>3, <1>5 DEF Goes

\* A node that points nowhere is alone.
LEMMA Alone ==
  ASSUME NodesAssumption, NEW L, Form(alive, next, prev, L), NEW x \in alive,
         next[x] = NULL, prev[x] = NULL
  PROVE  <<x>> \in L
<1>1. PICK l \in L : \E i \in 1 .. Len(l) : l[i] = x
  BY DEF Form
<1>2. PICK i \in 1 .. Len(l) : l[i] = x
  BY <1>1
<1>3. l \in Seq(Nodes) /\ Len(l) \in Nat /\ NULL \notin Nodes /\ \A j \in 1 .. Len(l) : l[j] \in Nodes
  BY InNodes DEF NodesAssumption
<1>4. /\ next[x] = IF i < Len(l) THEN l[i + 1] ELSE NULL
      /\ prev[x] = IF i > 1 THEN l[i - 1] ELSE NULL
  BY <1>2, Pointers
<1>5. ~ (i < Len(l))
  <2>1. i < Len(l) => i + 1 \in 1 .. Len(l)
    BY <1>3
  <2>. QED BY <1>3, <1>4, <2>1
<1>6. ~ (i > 1)
  <2>1. i > 1 => i - 1 \in 1 .. Len(l)
    BY <1>3
  <2>. QED BY <1>3, <1>4, <2>1
<1>7. i = 1 /\ Len(l) = 1
  <2>1. \A k \in Nat : \A j \in 1 .. k : ~ (j < k) /\ ~ (j > 1) => j = 1 /\ k = 1
    OBVIOUS
  <2>2. Len(l) \in Nat
    BY <1>3
  <2>. QED BY <1>5, <1>6, <2>1, <2>2, Zenon
<1>8. l = <<x>>
  BY <1>2, <1>3, <1>7
<1>. QED BY <1>8

\* AddNext() puts a lone node behind another one.
LEMMA AddNextGoes ==
  ASSUME NodesAssumption, NEW L, Form(alive, next, prev, L),
         NEW n \in Nodes, NEW x \in Nodes, AddNext(n, x)
  PROVE  Goes(L)
<1>1. /\ n \in alive /\ x \in alive /\ x # n /\ next[x] = NULL /\ prev[x] = NULL
      /\ alive' = alive
      /\ next' = [next EXCEPT ![x] = next[n], ![n] = x]
      /\ prev' = [p \in Nodes |-> IF p = x THEN n ELSE IF p = next[n] THEN x ELSE prev[p]]
  BY DEF AddNext, Fresh
<1>2. <<x>> \in L
  BY <1>1, Alone
<1>3. PICK l \in L : \E i \in 1 .. Len(l) : l[i] = n
  BY <1>1 DEF Form
<1>4. PICK i \in 1 .. Len(l) : l[i] = n
  BY <1>3
<1>5. l \in Seq(alive) /\ Len(l) \in Nat /\ NULL \notin Nodes /\ \A j \in 1 .. Len(l) : l[j] \in Nodes
  BY InNodes DEF NodesAssumption
<1>6. l # <<x>>
  BY <1>1, <1>4
<1>. DEFINE p == i + 1
            m == Promised!InsertAt(l, p, x)
<1>7. p \in 1 .. Len(l) + 1 /\ p > 1 /\ p - 1 = i
  BY <1>5
<1>8. next[n] = IF p <= Len(l) THEN l[p] ELSE NULL
  <2>1. next[n] = IF i < Len(l) THEN l[i + 1] ELSE NULL
    BY <1>4, Pointers
  <2>. QED BY <1>5, <2>1
<1>9. m \in Seq(alive) /\ Inserted(l, p, x, m)
  BY <1>1, <1>5, <1>7, InsertingAt
<1>10. /\ next \in [Nodes -> Nodes \cup {NULL}] /\ prev \in [Nodes -> Nodes \cup {NULL}]
       /\ next' \in [Nodes -> Nodes \cup {NULL}] /\ prev' \in [Nodes -> Nodes \cup {NULL}]
  <2>1. next \in [Nodes -> Nodes \cup {NULL}] /\ prev \in [Nodes -> Nodes \cup {NULL}]
    BY DEF Form
  <2>. QED BY <1>1, <2>1
<1>. HIDE DEF p
<1>11. \A q \in Nodes :
         /\ next'[q] = IF q = x THEN (IF p <= Len(l) THEN l[p] ELSE NULL)
                       ELSE IF p > 1 /\ q = l[p - 1] THEN x ELSE next[q]
         /\ prev'[q] = IF q = x THEN (IF p > 1 THEN l[p - 1] ELSE NULL)
                       ELSE IF p <= Len(l) /\ q = l[p] THEN x ELSE prev[q]
  BY <1>1, <1>4, <1>5, <1>7, <1>8, <1>10
<1>. HIDE DEF m
<1>12. Form(alive', next', prev', (L \ {l, <<x>>}) \cup {m})
  BY <1>1, <1>2, <1>6, <1>7, <1>9, <1>10, <1>11, Inserting, ZenonT(60)
<1>13. Promised!Has(l, n) /\ Promised!Place(l, n) = i
  BY <1>4, Placed
<1>14. Promise(L, (L \ {l, <<x>>}) \cup {m})
  BY <1>1, <1>2, <1>13 DEF Promise, m, p
<1>. QED BY <1>12, <1>14 DEF Goes

\* AddPrev() puts it in front.
LEMMA AddPrevGoes ==
  ASSUME NodesAssumption, NEW L, Form(alive, next, prev, L),
         NEW n \in Nodes, NEW x \in Nodes, AddPrev(n, x)
  PROVE  Goes(L)
<1>1. /\ n \in alive /\ x \in alive /\ x # n /\ next[x] = NULL /\ prev[x] = NULL
      /\ alive' = alive
      /\ prev' = [prev EXCEPT ![x] = prev[n], ![n] = x]
      /\ next' = [p \in Nodes |-> IF p = x THEN n ELSE IF p = prev[n] THEN x ELSE next[p]]
  BY DEF AddPrev, Fresh
<1>2. <<x>> \in L
  BY <1>1, Alone
<1>3. PICK l \in L : \E i \in 1 .. Len(l) : l[i] = n
  BY <1>1 DEF Form
<1>4. PICK i \in 1 .. Len(l) : l[i] = n
  BY <1>3
<1>5. l \in Seq(alive) /\ Len(l) \in Nat /\ NULL \notin Nodes /\ \A j \in 1 .. Len(l) : l[j] \in Nodes
  BY InNodes DEF NodesAssumption
<1>6. l # <<x>>
  BY <1>1, <1>4
<1>. DEFINE m == Promised!InsertAt(l, i, x)
<1>7. i \in 1 .. Len(l) + 1 /\ i <= Len(l) /\ i \in Nat /\ i + 0 = i
  BY <1>5
<1>8. prev[n] = IF i > 1 THEN l[i - 1] ELSE NULL
  BY <1>4, Pointers
<1>9. m \in Seq(alive) /\ Inserted(l, i, x, m)
  BY <1>1, <1>5, <1>7, InsertingAt
<1>10. /\ next \in [Nodes -> Nodes \cup {NULL}] /\ prev \in [Nodes -> Nodes \cup {NULL}]
       /\ next' \in [Nodes -> Nodes \cup {NULL}] /\ prev' \in [Nodes -> Nodes \cup {NULL}]
  <2>1. next \in [Nodes -> Nodes \cup {NULL}] /\ prev \in [Nodes -> Nodes \cup {NULL}]
    BY DEF Form
  <2>. QED BY <1>1, <2>1
<1>11. \A q \in Nodes :
         /\ next'[q] = IF q = x THEN (IF i <= Len(l) THEN l[i] ELSE NULL)
                       ELSE IF i > 1 /\ q = l[i - 1] THEN x ELSE next[q]
         /\ prev'[q] = IF q = x THEN (IF i > 1 THEN l[i - 1] ELSE NULL)
                       ELSE IF i <= Len(l) /\ q = l[i] THEN x ELSE prev[q]
  BY <1>1, <1>4, <1>5, <1>7, <1>8, <1>10
<1>. HIDE DEF m
<1>p. PICK p : p = i
  OBVIOUS
<1>q. /\ p \in 1 .. Len(l) + 1 /\ Inserted(l, p, x, m)
      /\ \A q \in Nodes :
           /\ next'[q] = IF q = x THEN (IF p <= Len(l) THEN l[p] ELSE NULL)
                         ELSE IF p > 1 /\ q = l[p - 1] THEN x ELSE next[q]
           /\ prev'[q] = IF q = x THEN (IF p > 1 THEN l[p - 1] ELSE NULL)
                         ELSE IF p <= Len(l) /\ q = l[p] THEN x ELSE prev[q]
  BY <1>7, <1>9, <1>11, <1>p
<1>12. Form(alive', next', prev', (L \ {l, <<x>>}) \cup {m})
  <2>1. x \in alive /\ <<x>> \in L /\ l # <<x>> /\ alive' = alive /\ m \in Seq(alive)
        /\ next' \in [Nodes -> Nodes \cup {NULL}] /\ prev' \in [Nodes -> Nodes \cup {NULL}]
    BY <1>1, <1>2, <1>6, <1>9, <1>10
  <2>2. Form(alive, next', prev', (L \ {l, <<x>>}) \cup {m})
    BY <1>q, <2>1, Inserting
  <2>. QED BY <2>1, <2>2
<1>13. Promised!Has(l, n) /\ Promised!Place(l, n) = i
  BY <1>4, Placed
<1>14. Promise(L, (L \ {l, <<x>>}) \cup {m})
  BY <1>1, <1>2, <1>7, <1>13 DEF Promise, m
<1>. QED BY <1>12, <1>14 DEF Goes

\* Remove() and the destructor: the list of n without n.
LEMMA UnlinkedForm ==
  ASSUME NodesAssumption, NEW L, Form(alive, next, prev, L), NEW n \in alive, Unlinked(n)
  PROVE  \E l \in L : /\ Promised!Has(l, n)
                      /\ Form(alive \ {n}, next', prev',
                              ((L \ {l}) \cup {Promised!Without(l, n)}) \ {<<>>})
<1>3. PICK l \in L : \E i \in 1 .. Len(l) : l[i] = n
  BY DEF Form
<1>4. PICK i \in 1 .. Len(l) : l[i] = n
  BY <1>3
<1>5. l \in Seq(alive)
  BY InNodes
<1>6. Promised!Has(l, n) /\ Promised!Place(l, n) = i
  BY <1>4, Placed
<1>7. Promised!Without(l, n) = Promised!RemoveAt(l, i)
  BY <1>6 DEF Promised!Without
<1>8. Promised!RemoveAt(l, i) \in Seq(alive) /\ TakenFrom(l, i, Promised!RemoveAt(l, i))
  BY <1>5, TakingFrom
<1>9. /\ next \in [Nodes -> Nodes \cup {NULL}] /\ prev \in [Nodes -> Nodes \cup {NULL}]
      /\ n \in Nodes
  BY DEF Form
<1>10. /\ next' = [p \in Nodes |-> IF p = n THEN NULL ELSE IF p = prev[n] THEN next[n] ELSE next[p]]
       /\ prev' = [p \in Nodes |-> IF p = n THEN NULL ELSE IF p = next[n] THEN prev[n] ELSE prev[p]]
  BY DEF Unlinked
<1>11. next' \in [Nodes -> Nodes \cup {NULL}] /\ prev' \in [Nodes -> Nodes \cup {NULL}]
  BY <1>9, <1>10
<1>12. \A q \in Nodes :
         /\ next'[q] = IF q = n THEN NULL ELSE IF q = prev[n] THEN next[n] ELSE next[q]
         /\ prev'[q] = IF q = n THEN NULL ELSE IF q = next[n] THEN prev[n] ELSE prev[q]
  BY <1>10
<1>13. Form(alive \ {n}, next', prev', ((L \ {l}) \cup {Promised!RemoveAt(l, i)}) \ {<<>>})
  BY <1>4, <1>8, <1>11, <1>12, Removing
<1>. QED BY <1>6, <1>7, <1>13

\* Remove() takes a node out of its list and leaves it alone.
LEMMA RemoveGoes ==
  ASSUME NodesAssumption, NEW L, Form(alive, next, prev, L), NEW n \in Nodes, Remove(n)
  PROVE  Goes(L)
<1>1. n \in alive /\ Unlinked(n) /\ alive' = alive
  BY DEF Remove
<1>2. PICK l \in L : /\ Promised!Has(l, n)
                     /\ Form(alive \ {n}, next', prev',
                             ((L \ {l}) \cup {Promised!Without(l, n)}) \ {<<>>})
  BY <1>1, UnlinkedForm
<1>. DEFINE K == ((L \ {l}) \cup {Promised!Without(l, n)}) \ {<<>>}
            M == ((L \ {l}) \cup {Promised!Without(l, n), <<n>>}) \ {<<>>}
<1>3. M = K \cup {<<n>>}
  <2>1. <<n>> # <<>>
    OBVIOUS
  <2>. QED BY <2>1
<1>4. (alive \ {n}) \cup {n} = alive' /\ n \in Nodes \ (alive \ {n})
  BY <1>1
<1>5. Form(alive \ {n}, next', prev', K)
  BY <1>2
<1>. HIDE DEF K
<1>6. Form((alive \ {n}) \cup {n}, next', prev', K \cup {<<n>>})
  BY <1>4, <1>5, Creating
<1>7. Promise(L, M)
  BY <1>2 DEF Promise
<1>. QED BY <1>3, <1>4, <1>6, <1>7 DEF Goes

\* The destructor takes it out and forgets it.
LEMMA DestroyGoes ==
  ASSUME NodesAssumption, NEW L, Form(alive, next, prev, L), NEW n \in Nodes, Destroy(n)
  PROVE  Goes(L)
<1>1. n \in alive /\ Unlinked(n) /\ alive' = alive \ {n}
  BY DEF Destroy
<1>2. PICK l \in L : /\ Promised!Has(l, n)
                     /\ Form(alive \ {n}, next', prev',
                             ((L \ {l}) \cup {Promised!Without(l, n)}) \ {<<>>})
  BY <1>1, UnlinkedForm
<1>3. Promise(L, ((L \ {l}) \cup {Promised!Without(l, n)}) \ {<<>>})
  BY <1>2 DEF Promise
<1>. QED BY <1>1, <1>2, <1>3 DEF Goes


\* ---- the invariant ----------------------------------------------------------------------

\* The pointers form lists, and an iterator has before it what it has not returned.
Lists == \E L : Form(alive, next, prev, L)
Way == IF it.dir = "down" THEN next ELSE prev
Iterating ==
  /\ it \in [dir : {"none", "down", "up"}, current : alive \cup {NULL},
             seen : Seq(Nodes), whole : Seq(Nodes)]
  /\ VisitsAll
IInv == Lists /\ Iterating

\* No iterator moves the lists, and what does keeps Lists' promises.
LEMMA StepGoes ==
  ASSUME NodesAssumption, NEW L, Form(alive, next, prev, L), [Next]_vars
  PROVE  \/ UNCHANGED <<alive, next, prev>>
         \/ Goes(L)
<1>1. CASE UNCHANGED vars
  BY <1>1 DEF vars
<1>2. CASE TopDown \/ BottomUp \/ FetchAndAdvance
  BY <1>2 DEF TopDown, BottomUp, FetchAndAdvance, Start
<1>3. CASE \E n \in Nodes : New(n) \/ Remove(n) \/ Destroy(n)
                            \/ \E x \in Nodes : AddNext(n, x) \/ AddPrev(n, x)
  BY <1>3, NewGoes, RemoveGoes, DestroyGoes, AddNextGoes, AddPrevGoes
<1>. QED BY <1>1, <1>2, <1>3 DEF Next

\* No node, no list.
LEMMA ListsInit == ASSUME NodesAssumption, Init PROVE Form(alive, next, prev, {})
BY DEF Init, Form

\* The pointers go on forming lists.
LEMMA ListsNext == ASSUME NodesAssumption, Lists, [Next]_vars PROVE Lists'
<1>1. PICK L : Form(alive, next, prev, L)
  BY DEF Lists
<1>2. \E M : Form(alive', next', prev', M)
  BY <1>1, StepGoes DEF Goes
<1>. QED BY <1>2 DEF Lists

\* A chain, also from nowhere.
LEMMA SomeChain ==
  ASSUME NodesAssumption, NEW by, Chained(by), NEW c \in Nodes \cup {NULL}
  PROVE  \E w : Chain(by, c, w) /\ Walk(by, c) = w /\ w \in Seq(Nodes)
<1>1. Chain(by, NULL, <<>>)
  BY DEF Chain
<1>2. PICK w : Chain(by, c, w)
  BY <1>1 DEF Chained
<1>3. Walk(by, c) = w
  BY <1>2, Walks
<1>. QED BY <1>2, <1>3 DEF Chain

\* None of T is ahead of c; and no node gets a new neighbour but those of T and
\* the ones that point to them.
Apart(by, c, T) == \A n \in T : \A i \in DOMAIN Walk(by, c) : Walk(by, c)[i] # n
Spared(by, by2, T) == \A q \in Nodes : q \notin T /\ by[q] \notin T => by2[q] = by[q]

\* Then the nodes ahead stay what they were.
LEMMA Ahead ==
  ASSUME NodesAssumption, NEW by, NEW by2, Chained(by), Chained(by2), NEW c \in Nodes \cup {NULL},
         NEW T \in SUBSET Nodes, Apart(by, c, T), Spared(by, by2, T)
  PROVE  Walk(by2, c) = Walk(by, c) /\ c \notin T
<1>1. PICK w : Chain(by, c, w) /\ Walk(by, c) = w
  BY SomeChain
<1>2. /\ w \in Seq(Nodes) /\ Len(w) \in Nat /\ DOMAIN w = 1 .. Len(w)
      /\ \A i \in 1 .. Len(w) : w[i] \in Nodes
      /\ NULL \notin T
  BY <1>1 DEF Chain, NodesAssumption
<1>3. \A i \in 1 .. Len(w) : w[i] \notin T
  BY <1>1, <1>2 DEF Apart
<1>4. ASSUME NEW i \in 1 .. Len(w) PROVE by2[w[i]] = IF i < Len(w) THEN w[i + 1] ELSE NULL
  <2>1. by[w[i]] = IF i < Len(w) THEN w[i + 1] ELSE NULL
    BY <1>1 DEF Chain
  <2>2. by[w[i]] \notin T
    <3>1. CASE i < Len(w)
      <4>1. i + 1 \in 1 .. Len(w)
        BY <1>2, <3>1
      <4>. QED BY <1>3, <2>1, <3>1, <4>1
    <3>2. CASE ~ (i < Len(w))
      BY <1>2, <2>1, <3>2
    <3>. QED BY <3>1, <3>2
  <2>. QED BY <1>2, <1>3, <2>1, <2>2 DEF Spared
<1>5. Chain(by2, c, w)
  BY <1>1, <1>4 DEF Chain
<1>6. Walk(by2, c) = w
  BY <1>5, Walks
<1>7. c \notin T
  <2>1. CASE w = <<>>
    BY <1>1, <2>1 DEF Chain, NodesAssumption
  <2>2. CASE w # <<>>
    <3>1. c = w[1] /\ 1 \in 1 .. Len(w)
      BY <1>1, <1>2, <2>2 DEF Chain
    <3>. QED BY <1>3, <3>1
  <2>. QED BY <2>1, <2>2
<1>. QED BY <1>1, <1>6, <1>7

\* Which nodes get new neighbours: those of T, and those that point to them.
LEMMA Disturbed ==
  ASSUME NodesAssumption, DoublyLinked, NEW T \in SUBSET Nodes,
         \E n \in Nodes :
           \/ New(n) /\ T = {}
           \/ (Remove(n) \/ Destroy(n)) /\ T = {n}
           \/ \E x \in Nodes : (AddNext(n, x) \/ AddPrev(n, x)) /\ T = {n, x}
  PROVE  /\ Spared(next, next', T) /\ Spared(prev, prev', T)
         /\ \A n \in T : MayChange(n)
         /\ it' = it /\ alive \subseteq alive' \cup T
<1>1. /\ next \in [Nodes -> alive \cup {NULL}] /\ prev \in [Nodes -> alive \cup {NULL}]
      /\ \A n \in Nodes : next[n] # NULL => prev[next[n]] = n
      /\ \A n \in Nodes : prev[n] # NULL => next[prev[n]] = n
      /\ \A n \in Nodes \ alive : next[n] = NULL /\ prev[n] = NULL
      /\ NULL \notin Nodes
  BY DEF DoublyLinked, NodesAssumption
<1>2. PICK n \in Nodes :
           \/ New(n) /\ T = {}
           \/ (Remove(n) \/ Destroy(n)) /\ T = {n}
           \/ \E x \in Nodes : (AddNext(n, x) \/ AddPrev(n, x)) /\ T = {n, x}
  OBVIOUS
<1>3. CASE New(n) /\ T = {}
  BY <1>1, <1>3 DEF New, Spared
<1>4. CASE (Remove(n) \/ Destroy(n)) /\ T = {n}
  <2>1. Unlinked(n) /\ MayChange(n) /\ it' = it /\ alive \subseteq alive' \cup {n}
    BY <1>4 DEF Remove, Destroy
  <2>2. \A q \in Nodes : q # n /\ next[q] # n => next'[q] = next[q]
    BY <1>1, <2>1 DEF Unlinked
  <2>3. \A q \in Nodes : q # n /\ prev[q] # n => prev'[q] = prev[q]
    BY <1>1, <2>1 DEF Unlinked
  <2>. QED BY <1>4, <2>1, <2>2, <2>3 DEF Spared
<1>5. ASSUME NEW x \in Nodes, AddNext(n, x), T = {n, x}
      PROVE  /\ Spared(next, next', T) /\ Spared(prev, prev', T)
             /\ MayChange(n) /\ MayChange(x) /\ it' = it /\ alive' = alive
  <2>1. MayChange(n) /\ MayChange(x) /\ it' = it /\ alive' = alive
    BY <1>5 DEF AddNext, Fresh
  <2>2. \A q \in Nodes : q # n /\ q # x => next'[q] = next[q]
    BY <1>1, <1>5 DEF AddNext
  <2>3. \A q \in Nodes : q # x /\ prev[q] # n => prev'[q] = prev[q]
    BY <1>1, <1>5 DEF AddNext
  <2>. QED BY <1>5, <2>1, <2>2, <2>3 DEF Spared
<1>6. ASSUME NEW x \in Nodes, AddPrev(n, x), T = {n, x}
      PROVE  /\ Spared(next, next', T) /\ Spared(prev, prev', T)
             /\ MayChange(n) /\ MayChange(x) /\ it' = it /\ alive' = alive
  <2>1. MayChange(n) /\ MayChange(x) /\ it' = it /\ alive' = alive
    BY <1>6 DEF AddPrev, Fresh
  <2>2. \A q \in Nodes : q # n /\ q # x => prev'[q] = prev[q]
    BY <1>1, <1>6 DEF AddPrev
  <2>3. \A q \in Nodes : q # x /\ next[q] # n => next'[q] = next[q]
    BY <1>1, <1>6 DEF AddPrev
  <2>. QED BY <1>6, <2>1, <2>2, <2>3 DEF Spared
<1>7. CASE \E x \in Nodes : (AddNext(n, x) \/ AddPrev(n, x)) /\ T = {n, x}
  <2>1. PICK x \in Nodes : (AddNext(n, x) \/ AddPrev(n, x)) /\ T = {n, x}
    BY <1>7
  <2>2. CASE AddNext(n, x)
    BY <1>5, <2>1, <2>2
  <2>3. CASE AddPrev(n, x)
    BY <1>6, <2>1, <2>3
  <2>. QED BY <2>1, <2>2, <2>3
<1>. QED BY <1>2, <1>3, <1>4, <1>7

\* What has been returned and what is ahead stay what they are together.
LEMMA OperationIterates ==
  ASSUME NodesAssumption, Iterating, NEW L, Form(alive, next, prev, L),
         NEW M, Form(alive', next', prev', M),
         NEW n \in Nodes, New(n) \/ Remove(n) \/ Destroy(n)
                          \/ \E x \in Nodes : AddNext(n, x) \/ AddPrev(n, x)
  PROVE  Iterating'
<1>1. PICK T \in SUBSET Nodes :
        \/ New(n) /\ T = {}
        \/ (Remove(n) \/ Destroy(n)) /\ T = {n}
        \/ \E x \in Nodes : (AddNext(n, x) \/ AddPrev(n, x)) /\ T = {n, x}
  <2>1. {} \subseteq Nodes /\ {n} \subseteq Nodes /\ \A x \in Nodes : {n, x} \subseteq Nodes
    OBVIOUS
  <2>. QED BY <2>1
<1>2. DoublyLinked
  BY Agreeing
<1>3. /\ Spared(next, next', T) /\ Spared(prev, prev', T)
      /\ \A x \in T : MayChange(x)
      /\ it' = it /\ alive \subseteq alive' \cup T
  BY <1>1, <1>2, Disturbed
<1>4. Chained(next) /\ Chained(prev) /\ Chained(next') /\ Chained(prev') /\ alive \subseteq Nodes
  <2>1. Chained(next) /\ Chained(prev)
    BY NoRings
  <2>2. Chained(next') /\ Chained(prev')
    BY NoRings
  <2>. QED BY <2>1, <2>2 DEF Form
<1>. DEFINE c == it.current
<1>5. /\ it \in [dir : {"none", "down", "up"}, current : alive \cup {NULL},
                 seen : Seq(Nodes), whole : Seq(Nodes)]
      /\ it.seen \o Walk(Way, c) = it.whole
  BY DEF Iterating, VisitsAll, Way
<1>6. c \in alive \cup {NULL} /\ c \in Nodes \cup {NULL}
  BY <1>4, <1>5
<1>7. Apart(Way, c, T)
  BY <1>3 DEF MayChange, Way, Apart
<1>. HIDE DEF c
<1>8. Walk(Way', c) = Walk(Way, c) /\ c \notin T
  <2>1. CASE it.dir = "down"
    <3>1. Way = next /\ Way' = next'
      BY <1>3, <2>1 DEF Way
    <3>2. Apart(next, c, T)
      BY <1>7, <3>1
    <3>3. Walk(next', c) = Walk(next, c) /\ c \notin T
      BY <1>3, <1>4, <1>6, <3>2, Ahead
    <3>. QED BY <3>1, <3>3
  <2>2. CASE it.dir # "down"
    <3>1. Way = prev /\ Way' = prev'
      BY <1>3, <2>2 DEF Way
    <3>2. Apart(prev, c, T)
      BY <1>7, <3>1
    <3>3. Walk(prev', c) = Walk(prev, c) /\ c \notin T
      BY <1>3, <1>4, <1>6, <3>2, Ahead
    <3>. QED BY <3>1, <3>3
  <2>. QED BY <2>1, <2>2
<1>9. it'.seen \o Walk(Way', it'.current) = it'.whole
  BY <1>3, <1>5, <1>8 DEF c
<1>10. it' \in [dir : {"none", "down", "up"}, current : alive' \cup {NULL},
                seen : Seq(Nodes), whole : Seq(Nodes)]
  <2>1. c \in alive' \cup {NULL}
    BY <1>3, <1>6, <1>8
  <2>. QED BY <1>3, <1>5, <2>1 DEF c
<1>. QED BY <1>9, <1>10 DEF Iterating, VisitsAll, Way

\* TopDown and BottomUp: the whole list from the node is ahead.
LEMMA StartIterates ==
  ASSUME NodesAssumption, NEW L, Form(alive, next, prev, L),
         NEW dir \in {"down", "up"}, NEW n \in alive, Start(dir, n)
  PROVE  Iterating'
<1>. DEFINE by == IF dir = "down" THEN next ELSE prev
<1>1. /\ it' = [dir |-> dir, current |-> n, seen |-> <<>>, whole |-> Walk(by, n)]
      /\ alive' = alive /\ next' = next /\ prev' = prev
  BY DEF Start
<1>2. Chained(by) /\ n \in Nodes \cup {NULL}
  <2>1. Chained(next) /\ Chained(prev)
    BY NoRings
  <2>. QED BY <2>1 DEF Form
<1>3. Way' = by
  BY <1>1 DEF Way
<1>. HIDE DEF by
<1>4. Walk(by, n) \in Seq(Nodes)
  BY <1>2, SomeChain
<1>5. <<>> \o Walk(by, n) = Walk(by, n)
  BY <1>4, ConcatEmptySeq
<1>6. it'.seen \o Walk(Way', it'.current) = it'.whole
  BY <1>1, <1>3, <1>5
<1>7. it' \in [dir : {"none", "down", "up"}, current : alive' \cup {NULL},
               seen : Seq(Nodes), whole : Seq(Nodes)]
  <2>1. <<>> \in Seq(Nodes)
    OBVIOUS
  <2>. QED BY <1>1, <1>4, <2>1
<1>. QED BY <1>6, <1>7 DEF Iterating, VisitsAll, Way

\* The first node ahead is returned.
LEMMA FetchIterates ==
  ASSUME NodesAssumption, Iterating, NEW L, Form(alive, next, prev, L), FetchAndAdvance
  PROVE  Iterating'
<1>. DEFINE c == it.current
<1>1. /\ it \in [dir : {"none", "down", "up"}, current : alive \cup {NULL},
                 seen : Seq(Nodes), whole : Seq(Nodes)]
      /\ it.seen \o Walk(Way, c) = it.whole
  BY DEF Iterating, VisitsAll, Way
<1>2. /\ c # NULL /\ c \in alive
      /\ it' = [it EXCEPT !.current = Way[c], !.seen = Append(it.seen, c)]
      /\ alive' = alive /\ next' = next /\ prev' = prev
  BY <1>1 DEF FetchAndAdvance, Onward, Way
<1>3. /\ it'.dir = it.dir /\ it'.whole = it.whole
      /\ it'.current = Way[c] /\ it'.seen = Append(it.seen, c)
  BY <1>1, <1>2
<1>4. Way' = Way
  BY <1>2, <1>3 DEF Way
<1>5. Chained(Way) /\ c \in Nodes
  <2>1. Chained(next) /\ Chained(prev)
    BY NoRings
  <2>2. c \in Nodes
    BY <1>2 DEF Form
  <2>. QED BY <2>1, <2>2 DEF Way
<1>6. Way[c] \in alive \cup {NULL}
  BY <1>2, <1>5, Agreeing DEF DoublyLinked, Way
<1>. DEFINE s == it.seen
<1>7. s \in Seq(Nodes)
  BY <1>1
<1>. HIDE DEF c, s
<1>8. PICK w : Chain(Way, c, w) /\ Walk(Way, c) = w /\ w \in Seq(Nodes)
  BY <1>5, SomeChain
<1>9. /\ Chain(Way, Way[c], Tail(w)) /\ w = <<c>> \o Tail(w) /\ Len(w) > 0
  BY <1>2, <1>8, ChainTail
<1>10. Walk(Way, Way[c]) = Tail(w) /\ Tail(w) \in Seq(Nodes)
  <2>1. Walk(Way, Way[c]) = Tail(w)
    BY <1>5, <1>9, Walks
  <2>. QED BY <1>9, <2>1 DEF Chain
<1>11. Append(s, c) \o Tail(w) = s \o w
  <2>1. Append(s, c) = s \o <<c>> /\ <<c>> \in Seq(Nodes)
    BY <1>5, <1>7, AppendIsConcat
  <2>2. (s \o <<c>>) \o Tail(w) = s \o (<<c>> \o Tail(w))
    BY <1>7, <1>10, <2>1, ConcatAssociative
  <2>. QED BY <1>9, <2>1, <2>2
<1>12. it'.seen \o Walk(Way', it'.current) = it'.whole
  BY <1>1, <1>3, <1>4, <1>8, <1>10, <1>11 DEF c, s
<1>13. it' \in [dir : {"none", "down", "up"}, current : alive' \cup {NULL},
                seen : Seq(Nodes), whole : Seq(Nodes)]
  <2>1. Append(s, c) \in Seq(Nodes)
    BY <1>5, <1>7
  <2>. QED BY <1>1, <1>2, <1>6, <2>1 DEF c, s
<1>. QED BY <1>12, <1>13 DEF Iterating, VisitsAll, Way

\* Every step keeps the invariant,
LEMMA Inductive == ASSUME NodesAssumption, IInv, [Next]_vars PROVE IInv'
<1>1. Lists /\ Iterating /\ Lists'
  BY ListsNext DEF IInv
<1>2. PICK L : Form(alive, next, prev, L)
  BY <1>1 DEF Lists
<1>3. PICK M : Form(alive', next', prev', M)
  BY <1>1 DEF Lists
<1>4. CASE UNCHANGED vars
  BY <1>1, <1>4 DEF vars, Iterating, VisitsAll, IInv
<1>5. CASE TopDown
  <2>1. PICK n \in alive : Start("down", n)
    BY <1>5 DEF TopDown
  <2>. QED BY <1>1, <1>2, <2>1, StartIterates DEF IInv
<1>6. CASE BottomUp
  <2>1. PICK n \in alive : Start("up", n)
    BY <1>6 DEF BottomUp
  <2>. QED BY <1>1, <1>2, <2>1, StartIterates DEF IInv
<1>7. CASE FetchAndAdvance
  BY <1>1, <1>2, <1>7, FetchIterates DEF IInv
<1>8. CASE \E n \in Nodes : New(n) \/ Remove(n) \/ Destroy(n)
                            \/ \E x \in Nodes : AddNext(n, x) \/ AddPrev(n, x)
  BY <1>1, <1>2, <1>3, <1>8, OperationIterates DEF IInv
<1>. QED BY <1>4, <1>5, <1>6, <1>7, <1>8 DEF Next

\* which holds initially,
LEMMA Initial == ASSUME NodesAssumption, Init PROVE IInv
<1>1. Form(alive, next, prev, {})
  BY ListsInit
<1>2. Chained(prev)
  BY <1>1, NoRings
<1>3. it = [dir |-> "none", current |-> NULL, seen |-> <<>>, whole |-> <<>>]
  BY DEF Init, NoIterator
<1>4. Way = prev /\ it.current = NULL /\ it.seen = <<>> /\ it.whole = <<>>
  BY <1>3 DEF Way
<1>5. Chain(prev, NULL, <<>>)
  BY DEF Chain
<1>6. Walk(prev, NULL) = <<>>
  BY <1>2, <1>5, Walks
<1>7. <<>> \o <<>> = <<>> /\ <<>> \in Seq(Nodes)
  BY ConcatEmptySeq
<1>8. it.seen \o Walk(Way, it.current) = it.whole
  BY <1>4, <1>6, <1>7
<1>9. it \in [dir : {"none", "down", "up"}, current : alive \cup {NULL},
              seen : Seq(Nodes), whole : Seq(Nodes)]
  BY <1>3, <1>7
<1>. QED BY <1>1, <1>8, <1>9 DEF IInv, Lists, Iterating, VisitsAll, Way

\* ---- theorems ---------------------------------------------------------------------------

\* and so always.
LEMMA IInvHolds == Spec => []IInv
<1>1. Init => IInv
  BY Initial, NodesAssumption
<1>2. IInv /\ [Next]_vars => IInv'
  BY Inductive, NodesAssumption
<1>. QED BY <1>1, <1>2, PTL DEF Spec

\* The pointers of linked_list.cc agree, and form no ring, whatever nodes are
\* constructed, added next to others, removed and destroyed.
THEOREM DoublyLinkedHolds == Spec => []DoublyLinked
<1>1. IInv => DoublyLinked
  BY Agreeing, NodesAssumption DEF IInv, Lists
<1>. QED BY <1>1, IInvHolds, PTL

\* IteratorTopDown and IteratorBottomUp return every node of the list they were
\* started on, in order, though nodes they have passed are removed, destroyed or
\* given new neighbours meanwhile.
THEOREM VisitsAllHolds == Spec => []VisitsAll
<1>1. IInv => VisitsAll
  BY DEF IInv, Iterating
<1>. QED BY <1>1, IInvHolds, PTL

\* The lists that First() and the walk from it find are always sequences that
\* Lists allows: a step constructs, inserts, takes out or destroys one node of
\* them, and moves no other.
THEOREM ImplementsListsHolds == Spec => ImplementsLists
<1>1. Init => Promised!Init
  BY DEF Init, Promised!Init, AsLists
<1>2. IInv /\ [Next]_vars => [Promised!Next]_AsLists
  <2>1. SUFFICES ASSUME IInv, [Next]_vars PROVE Promised!Next \/ AsLists' = AsLists
    OBVIOUS
  <2>2. PICK L : Form(alive, next, prev, L)
    BY <2>1 DEF IInv, Lists
  <2>3. AsLists = L
    BY <2>2, Found, NodesAssumption DEF AsLists, First
  <2>4. CASE UNCHANGED <<alive, next, prev>>
    BY <2>4 DEF AsLists, First
  <2>5. CASE Goes(L)
    <3>1. PICK M : Form(alive', next', prev', M) /\ Promise(L, M)
      BY <2>5 DEF Goes
    <3>2. AsLists' = M
      BY <3>1, Found, NodesAssumption DEF AsLists, First
    <3>3. Promise(AsLists, AsLists')
      BY <2>3, <3>1, <3>2
    <3>4. Promised!Next
      BY <3>3 DEF Promise, Promised!Next, Promised!Create, Promised!Insert,
                  Promised!TakeOut, Promised!Destroy
    <3>. QED BY <3>4
  <2>. QED BY <2>1, <2>2, <2>4, <2>5, StepGoes, NodesAssumption
<1>. QED BY <1>1, <1>2, IInvHolds, PTL DEF Spec, ImplementsLists, Promised!Spec

=============================================================================

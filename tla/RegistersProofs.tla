--------------------------- MODULE RegistersProofs ---------------------------
\* Proofs about register allocation: for pools of every size, symbols in use have
\* registers of their own and the prologue saves what the function writes.
EXTENDS Registers, WellFoundedInduction, FiniteSetTheorems, TLAPS

\* ---- the table ---------------------------------------------------------------------

\* A non-empty set of natural numbers has a least element.
LEMMA LeastNat ==
  ASSUME NEW S, S \subseteq Nat, S # {}
  PROVE  \E i \in S : \A j \in S : i <= j
<1>. DEFINE R == {pair \in Nat \X Nat : pair[1] < pair[2]}
<1>1. IsWellFoundedOn(R, Nat)
  BY NatLessThanWellFounded DEF OpToRel
<1>. HIDE DEF R
<1>2. PICK i \in S : \A j \in S : <<j, i>> \notin R
  BY <1>1, WFMin
<1>3. \A j \in S : ~(j < i)
  BY <1>2 DEF R
<1>. QED BY <1>3

\* Register numbers are natural numbers, and NOREG is none of them.
LEMMA RegsNat == Regs \subseteq Nat /\ NOREG \notin Regs /\ NOREG = -1
BY SizeAssumption DEF Regs, NOREG

\* Acquire() returns a vacant register, or NOREG.
LEMMA AcquireVacant ==
  ASSUME NEW t \in [Regs -> Int], Acquire(t) # NOREG
  PROVE  Acquire(t) \in Regs /\ t[Acquire(t)] = VACANT
<1>. DEFINE vacant == {r \in Regs : t[r] = VACANT}
<1>1. vacant # {} /\ Acquire(t) = CHOOSE r \in vacant : \A s \in vacant : r <= s
  BY DEF Acquire
<1>2. vacant \subseteq Nat
  BY RegsNat
<1>3. \E r \in vacant : \A s \in vacant : r <= s
  BY <1>1, <1>2, LeastNat
<1>. HIDE DEF vacant
<1>4. Acquire(t) \in vacant
  BY <1>1, <1>3
<1>. QED BY <1>4 DEF vacant

\* The loop of function_prologue() comes to every register that is in use, and to
\* no other: each is the next one of the register in use before it.
LEMMA WalkedAll ==
  ASSUME NEW t \in [Regs -> Int]
  PROVE  Walked(t) = {r \in Regs : t[r] > 0}
<1>. DEFINE later(p) == {r \in Regs : r > p /\ t[r] > 0}
<1>1. \A p : NextAllocated(t, p) = IF later(p) = {} THEN NOREG
                                   ELSE CHOOSE r \in later(p) : \A s \in later(p) : r <= s
  BY DEF NextAllocated
<1>2. ASSUME NEW r \in Walked(t) PROVE r \in Regs /\ t[r] > 0
  <2>1. PICK p \in Regs \cup {NOREG} : NextAllocated(t, p) = r
    BY DEF Walked
  <2>2. r \in Regs /\ later(p) # {}
    BY <1>1, <2>1, RegsNat DEF Walked
  <2>3. later(p) \subseteq Nat
    BY RegsNat
  <2>4. \E q \in later(p) : \A s \in later(p) : q <= s
    BY <2>2, <2>3, LeastNat
  <2>. HIDE DEF later
  <2>5. r \in later(p)
    BY <1>1, <2>1, <2>2, <2>4
  <2>. QED BY <2>5 DEF later
<1>3. ASSUME NEW r \in Regs, t[r] > 0 PROVE r \in Walked(t)
  <2>. DEFINE before == {p \in Regs \cup {NOREG} : p < r /\ (p = NOREG \/ t[p] > 0)}
              gaps == {r - p : p \in before}
  <2>1. r \in Nat
    BY RegsNat
  <2>2. NOREG \in before
    BY <2>1, RegsNat
  <2>3. before \subseteq Int /\ \A p \in before : r - p \in Nat
    <3>1. ASSUME NEW p \in before PROVE p \in Int /\ p < r
      BY RegsNat
    <3>2. \A p \in before : p \in Int /\ r - p \in Nat
      BY <2>1, <3>1
    <3>. QED BY <3>2
  <2>4. gaps \subseteq Nat /\ gaps # {}
    BY <2>2, <2>3
  <2>5. PICK gap \in gaps : \A g \in gaps : gap <= g
    BY <2>4, LeastNat
  <2>6. PICK p \in before : \A q \in before : r - p <= r - q
    BY <2>5
  <2>7. p \in Int /\ p < r /\ (p = NOREG \/ t[p] > 0) /\ p \in Regs \cup {NOREG}
    BY <2>3, <2>6
  <2>8. r \in later(p)
    BY <1>3, <2>1, <2>7
  <2>9. ASSUME NEW q \in later(p) PROVE r <= q
    <3>1. q \in Nat /\ q > p /\ q \in Regs /\ t[q] > 0
      BY RegsNat
    <3>2. CASE q < r
      <4>1. q \in before
        BY <3>1, <3>2
      <4>2. r - p <= r - q
        BY <2>6, <4>1
      <4>. QED BY <2>1, <2>7, <3>1, <4>2
    <3>. QED BY <2>1, <3>1, <3>2
  <2>10. \A x \in later(p) : x \in Nat
    BY RegsNat
  <2>. HIDE DEF later, before, gaps
  <2>11. \A x \in later(p) : (\A s \in later(p) : x <= s) => x = r
    BY <2>1, <2>8, <2>9, <2>10
  <2>12. NextAllocated(t, p) = r
    <3>. DEFINE least == CHOOSE x \in later(p) : \A s \in later(p) : x <= s
    <3>1. least \in later(p) /\ \A s \in later(p) : least <= s
      BY <2>8, <2>9
    <3>2. NextAllocated(t, p) = least
      BY <1>1, <2>8
    <3>. HIDE DEF least
    <3>. QED BY <2>11, <3>1, <3>2
  <2>. QED BY <2>7, <2>12 DEF Walked
<1>4. Walked(t) \subseteq Regs
  BY DEF Walked
<1>. QED BY <1>2, <1>3, <1>4

\* ---- the invariant ------------------------------------------------------------------

\* The pool counts one reference for a register a symbol holds and none for the
\* others; while the function is being parsed, its usage table marks what its
\* code writes.
Counted ==
  /\ \A g, h \in held : g[2] = h[2] => g = h
  /\ \A h \in held : h[1] < created /\ h[2] \notin Reserved /\ table[h[2]] = 1
  /\ \A r \in Regs \ Reserved : table[r] # VACANT => \E h \in held : h[2] = r
Marked ==
  /\ phase = "function" => \A r \in Regs : r \in touched <=> usage[r] > 0
  /\ PrologueSavesTouched
IInv == TypeOK /\ ReservedKept /\ Counted /\ Marked

\* A symbol created with register r, and what Touch() makes of the usage table.
LEMMA MarkedBy ==
  ASSUME NEW r \in Regs, TypeOK, Marked,
         usage' = Mirror(usage, r), Touch(r), saved' = saved, phase' \in {phase, "bug"}
  PROVE  Marked' /\ usage' \in [Regs -> Nat] /\ touched' \subseteq Regs
<1>1. usage \in [Regs -> Nat] /\ touched \subseteq Regs
  BY DEF TypeOK
<1>2. usage' = [usage EXCEPT ![r] = @ + 1]
  BY DEF Mirror
<1>3. usage' \in [Regs -> Nat] /\ usage'[r] > 0 /\ \A s \in Regs \ {r} : usage'[s] = usage[s]
  BY <1>1, <1>2
<1>4. touched' = IF phase = "function" THEN touched \cup {r} ELSE touched
  BY DEF Touch
<1>. QED BY <1>1, <1>3, <1>4 DEF Marked, PrologueSavesTouched

\* Every step keeps the invariant.
LEMMA Inductive == ASSUME IInv, [Next]_vars PROVE IInv'
<1>1. /\ table \in [Regs -> Int] /\ \A r \in Regs : table[r] >= NOREG
      /\ usage \in [Regs -> Nat] /\ held \subseteq Nat \X Regs /\ created \in 0 .. MaxSymbols
      /\ MaxSymbols \in Nat /\ Reserved \subseteq Regs /\ LR \in Regs
      /\ touched \subseteq Regs /\ saved \subseteq Regs
  BY RegistersAssumption DEF IInv, TypeOK, Regs
<1>2. CASE UNCHANGED vars
  BY <1>2 DEF vars, IInv, TypeOK, ReservedKept, Counted, Marked, PrologueSavesTouched
<1>3. CASE NewSymbol
  <2>. DEFINE r == Acquire(table)
  <2>1. /\ r # NOREG /\ table' = [table EXCEPT ![r] = 1] /\ usage' = Mirror(usage, r)
        /\ held' = held \cup {<<created, r>>} /\ Touch(r) /\ created' = created + 1
        /\ saved' = saved /\ phase' = phase /\ created < MaxSymbols
    BY <1>3 DEF NewSymbol
  <2>2. r \in Regs /\ table[r] = VACANT
    BY <1>1, <2>1, AcquireVacant
  <2>. HIDE DEF r
  <2>3. r \notin Reserved /\ \A h \in held : h[2] # r
    BY <2>2 DEF IInv, ReservedKept, Counted, NOREG, VACANT
  <2>4. Marked' /\ usage' \in [Regs -> Nat] /\ touched' \subseteq Regs
    BY <2>1, <2>2, MarkedBy DEF IInv
  <2>5. table' \in [Regs -> Int] /\ table'[r] = 1 /\ \A s \in Regs \ {r} : table'[s] = table[s]
    BY <1>1, <2>1, <2>2
  <2>6. TypeOK'
    <3>1. \A s \in Regs : table'[s] >= NOREG
      BY <1>1, <2>5 DEF NOREG
    <3>2. held' \subseteq Nat \X Regs /\ created' \in 0 .. MaxSymbols
      BY <1>1, <2>1, <2>2
    <3>. QED BY <1>1, <2>1, <2>4, <2>5, <3>1, <3>2 DEF IInv, TypeOK
  <2>7. ReservedKept'
    BY <1>1, <2>1, <2>3, <2>5 DEF IInv, ReservedKept
  <2>8. Counted'
    <3>1. \A g, h \in held' : g[2] = h[2] => g = h
      BY <2>1, <2>3 DEF IInv, Counted
    <3>2. ASSUME NEW h \in held' PROVE h[1] < created' /\ h[2] \notin Reserved /\ table'[h[2]] = 1
      <4>1. CASE h \in held
        BY <1>1, <2>1, <2>3, <2>5, <4>1 DEF IInv, Counted
      <4>2. CASE h = <<created, r>>
        BY <1>1, <2>1, <2>3, <2>5, <4>2
      <4>. QED BY <2>1, <4>1, <4>2
    <3>3. ASSUME NEW s \in Regs \ Reserved, table'[s] # VACANT
          PROVE  \E h \in held' : h[2] = s
      <4>1. CASE s = r
        <5>1. <<created, r>> \in held' /\ <<created, r>>[2] = s
          BY <2>1, <4>1
        <5>. QED BY <5>1
      <4>2. CASE s # r
        <5>1. table[s] # VACANT
          BY <2>5, <3>3, <4>2
        <5>. QED BY <2>1, <5>1 DEF IInv, Counted
      <4>. QED BY <4>1, <4>2
    <3>. QED BY <3>1, <3>2, <3>3 DEF Counted
  <2>. QED BY <2>4, <2>6, <2>7, <2>8 DEF IInv
<1>4. CASE ScratchTemp
  <2>. DEFINE r == Acquire(table)
              acquired == [table EXCEPT ![r] = 1]
  <2>1. /\ r # NOREG /\ table' = Release(acquired, r) /\ usage' = Mirror(usage, r)
        /\ phase' = (IF CanRelease(acquired, r) THEN phase ELSE "bug")
        /\ held' = held /\ Touch(r) /\ created' = created + 1
        /\ saved' = saved /\ created < MaxSymbols
    BY <1>4 DEF ScratchTemp
  <2>2. r \in Regs /\ table[r] = VACANT
    BY <1>1, <2>1, AcquireVacant
  <2>3. acquired \in [Regs -> Int] /\ acquired[r] = 1 /\ \A s \in Regs \ {r} : acquired[s] = table[s]
    BY <1>1, <2>2
  <2>. HIDE DEF r, acquired
  <2>4. phase' = phase
    BY <2>1, <2>3 DEF CanRelease
  <2>5. table' = table
    <3>1. table' = [acquired EXCEPT ![r] = acquired[r] - 1]
      BY <2>1 DEF Release
    <3>2. table' \in [Regs -> Int] /\ \A s \in Regs : table'[s] = table[s]
      BY <1>1, <2>2, <2>3, <3>1 DEF VACANT
    <3>. QED BY <1>1, <3>2
  <2>6. Marked' /\ usage' \in [Regs -> Nat] /\ touched' \subseteq Regs
    BY <2>1, <2>2, <2>4, MarkedBy DEF IInv
  <2>7. TypeOK'
    BY <1>1, <2>1, <2>4, <2>5, <2>6 DEF IInv, TypeOK
  <2>8. ReservedKept' /\ Counted'
    BY <1>1, <2>1, <2>4, <2>5 DEF IInv, ReservedKept, Counted
  <2>. QED BY <2>6, <2>7, <2>8 DEF IInv
<1>5. CASE OutOfRegisters
  BY <1>5 DEF OutOfRegisters, IInv, TypeOK, ReservedKept, Counted, Marked, PrologueSavesTouched
<1>6. CASE Call
  <2>1. /\ usage' = Mirror(usage, LR) /\ Touch(LR)
        /\ table' = table /\ held' = held /\ saved' = saved /\ created' = created /\ phase' = phase
    BY <1>6 DEF Call
  <2>2. Marked' /\ usage' \in [Regs -> Nat] /\ touched' \subseteq Regs
    BY <1>1, <2>1, MarkedBy DEF IInv
  <2>. QED BY <2>1, <2>2 DEF IInv, TypeOK, ReservedKept, Counted
<1>7. CASE Prologue
  <2>1. /\ phase = "function" /\ saved' = Walked(usage) /\ phase' = "main"
        /\ UNCHANGED <<table, usage, held, touched, created>>
    BY <1>7 DEF Prologue
  <2>2. usage \in [Regs -> Int]
    BY <1>1
  <2>3. Walked(usage) = {r \in Regs : usage[r] > 0}
    BY <2>2, WalkedAll
  <2>4. saved' = touched
    BY <1>1, <2>1, <2>3 DEF IInv, Marked
  <2>. QED BY <1>1, <2>1, <2>4
           DEF IInv, TypeOK, ReservedKept, Counted, Marked, PrologueSavesTouched
<1>8. CASE Finished
  BY <1>2, <1>8 DEF Finished
<1>. QED BY <1>2, <1>3, <1>4, <1>5, <1>6, <1>7, <1>8 DEF Next

\* The invariant holds from the beginning: LR, FP and SP are reserved.
LEMMA Initial == Init => IInv
<1>1. SUFFICES ASSUME Init PROVE IInv
  OBVIOUS
<1>2. /\ table = [r \in Regs |-> IF r \in Reserved THEN NOREG ELSE VACANT]
      /\ usage = [r \in Regs |-> IF r \in {} THEN NOREG ELSE VACANT]
      /\ held = {} /\ touched = {} /\ saved = {} /\ created = 0 /\ phase = "function"
  BY <1>1 DEF Init, Table
<1>3. MaxSymbols \in Nat /\ Reserved \subseteq Regs
  BY RegistersAssumption DEF Regs
<1>4. TypeOK
  BY <1>2, <1>3 DEF TypeOK, NOREG, VACANT
<1>5. ReservedKept
  BY <1>2, <1>3 DEF ReservedKept
<1>6. Counted /\ Marked
  BY <1>2 DEF Counted, Marked, PrologueSavesTouched, VACANT
<1>. QED BY <1>4, <1>5, <1>6 DEF IInv

\* The number of symbols that hold a register is the count of its references.
LEMMA CountedDistinct == IInv => DistinctRegisters
<1>1. SUFFICES ASSUME IInv PROVE DistinctRegisters
  OBVIOUS
<1>2. ASSUME NEW r \in Regs \ Reserved PROVE table[r] = Cardinality({h \in held : h[2] = r})
  <2>. DEFINE holders == {h \in held : h[2] = r}
  <2>1. CASE \E h \in held : h[2] = r
    <3>1. PICK h \in held : h[2] = r
      BY <2>1
    <3>2. holders = {h}
      BY <1>1, <3>1 DEF IInv, Counted
    <3>3. table[r] = 1
      BY <1>1, <3>1 DEF IInv, Counted
    <3>. QED BY <3>2, <3>3, FS_Singleton
  <2>2. CASE ~\E h \in held : h[2] = r
    <3>1. holders = {}
      BY <2>2
    <3>2. table[r] = 0
      BY <1>1, <2>2 DEF IInv, Counted, VACANT
    <3>. QED BY <3>1, <3>2, FS_EmptySet
  <2>. QED BY <2>1, <2>2
<1>. QED BY <1>1, <1>2 DEF IInv, Counted, DistinctRegisters

\* ---- the theorems -----------------------------------------------------------------------

\* Type correctness of the tables, for pools of every size.
THEOREM TypeCorrect == Spec => []TypeOK
<1>1. IInv => TypeOK
  BY DEF IInv
<1>2. IInv /\ [Next]_vars => IInv'
  BY Inductive
<1>. QED BY <1>1, <1>2, Initial, PTL DEF Spec

\* "Each time a variable symbol is created, it is allocated a distinct register",
\* and the pool's counts are those of the symbols that hold registers.
THEOREM RegistersAreDistinct == Spec => []DistinctRegisters
<1>1. IInv /\ [Next]_vars => IInv'
  BY Inductive
<1>. QED BY <1>1, Initial, CountedDistinct, PTL DEF Spec

\* LR, FP and SP stay out of the pool and CRegAlloc::Release never meets its BUG_IF.
THEOREM ReservedAreKept == Spec => []ReservedKept
<1>1. IInv => ReservedKept
  BY DEF IInv
<1>2. IInv /\ [Next]_vars => IInv'
  BY Inductive
<1>. QED BY <1>1, <1>2, Initial, PTL DEF Spec

\* The prologue saves exactly the registers the function has acquired, and LR if it
\* calls: all that its code can write.
THEOREM PrologueSaves == Spec => []PrologueSavesTouched
<1>1. IInv => PrologueSavesTouched
  BY DEF IInv, Marked
<1>2. IInv /\ [Next]_vars => IInv'
  BY Inductive
<1>. QED BY <1>1, <1>2, Initial, PTL DEF Spec

=============================================================================

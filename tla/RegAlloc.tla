------------------------------ MODULE RegAlloc ------------------------------
\* class CRegAlloc (storage.cc): the reference-counting table from which the
\* pools of registers and their usage mirrors are made.  A table maps a register
\* to NOREG (reserved), VACANT or the number of its references.
EXTENDS Integers

CONSTANT NREGS    \* size of every table

ASSUME SizeAssumption == NREGS \in Nat \ {0}

NOREG == -1
VACANT == 0
Regs == 0 .. NREGS - 1

\* The constructor.
Table(reserved) == [r \in Regs |-> IF r \in reserved THEN NOREG ELSE VACANT]

\* Acquire(): the first vacant register, or NOREG.
\* Mutant: the scan takes reserved registers, too.
AcquireReserved(t) ==
  LET vacant == {r \in Regs : t[r] = VACANT \/ t[r] = NOREG}
  IN  IF vacant = {} THEN NOREG ELSE CHOOSE r \in vacant : \A s \in vacant : r <= s
Acquire(t) ==
  LET vacant == {r \in Regs : t[r] = VACANT}
  IN  IF vacant = {} THEN NOREG ELSE CHOOSE r \in vacant : \A s \in vacant : r <= s

\* Mirror(addr)
\* Mutant: it marks the register the way the constructor does.
MirrorMarks(t, addr) == [t EXCEPT ![addr] = NOREG]
Mirror(t, addr) == [t EXCEPT ![addr] = @ + 1]

\* Release(addr); it is a bug to release what is not allocated.
CanRelease(t, addr) == t[addr] > 0
\* Mutant: the count is compared, not decremented.
ReleaseNothing(t, addr) == t
Release(t, addr) == [t EXCEPT ![addr] = @ - 1]

\* NextAllocated(current); FirstAllocated() is NextAllocated(NOREG).
\* Mutant: the scan starts one register too late.
NextAllocatedSkips(t, current) ==
  LET later == {r \in Regs : r > current + 1 /\ t[r] > 0}
  IN  IF later = {} THEN NOREG ELSE CHOOSE r \in later : \A s \in later : r <= s
NextAllocated(t, current) ==
  LET later == {r \in Regs : r > current /\ t[r] > 0}
  IN  IF later = {} THEN NOREG ELSE CHOOSE r \in later : \A s \in later : r <= s
\* The registers the loop from FirstAllocated() by NextAllocated() comes to: each
\* is the next one of NOREG or of a register in use.
Walked(t) ==
  {r \in Regs : \E p \in Regs \cup {NOREG} :
                (p = NOREG \/ t[p] > 0) /\ NextAllocated(t, p) = r}

=============================================================================

------------------------------ MODULE Registers ------------------------------
\* Register allocation of rcc: the pool of INTEGER registers symbols are given,
\* and the mirror in currentScope->regUsage from which the function's prologue is
\* made when its body has been parsed (newSymbol and newTemp of symbol.cc,
\* function_prologue of semantic_rules.cc).  The pool of REAL registers is the
\* same without reserved registers.
EXTENDS RegAlloc, FiniteSets

CONSTANTS
  Reserved,   \* registers preallocated for LR, FP and SP
  LR,         \* the link register, one of them
  MaxSymbols  \* bound on the symbols created

ASSUME RegistersAssumption ==
  /\ MaxSymbols \in Nat
  /\ Reserved \subseteq 0 .. NREGS - 1 /\ LR \in Reserved

VARIABLES
  table,    \* m_allocTable of regPool[INTEGER]
  usage,    \* m_allocTable of currentScope->regUsage[INTEGER]
  held,     \* the register of every symbol that is still in use
  touched,  \* registers the function has acquired, and LR if it calls
  saved,    \* registers the prologue pushes and the epilogue pops
  created,  \* symbols created so far
  phase     \* "function", "main", "error", "bug"

vars == <<table, usage, held, touched, saved, created, phase>>

\* ---- symbols ----------------------------------------------------------------------

Generating == phase \in {"function", "main"}

\* The code of the function writes register r.
Touch(r) == touched' = IF phase = "function" THEN touched \cup {r} ELSE touched

\* AcquireOrThrow(): out of registers is a compile error.
OutOfRegisters ==
  /\ Generating /\ created < MaxSymbols
  /\ Acquire(table) = NOREG
  /\ phase' = "error"
  /\ UNCHANGED <<table, usage, held, touched, saved, created>>

\* newSymbol(), and newTemp() for a value that is kept: acquire and mirror.
NewSymbol ==
  /\ Generating /\ created < MaxSymbols
  /\ LET r == Acquire(table)
     IN  /\ r # NOREG
         /\ table' = [table EXCEPT ![r] = 1]
         /\ usage' = Mirror(usage, r)
         /\ held' = held \cup {<<created, r>>}
         /\ Touch(r)
  /\ created' = created + 1
  /\ UNCHANGED <<saved, phase>>

\* newTemp() for the comparison register of bpfac_relOp(), or for the constant
\* that stor() stores: released in the same function, after the instruction that
\* reads it.  The usage table keeps it.
ScratchTemp ==
  /\ Generating /\ created < MaxSymbols
  /\ LET r == Acquire(table)
         acquired == [table EXCEPT ![r] = 1]
     IN  /\ r # NOREG
         /\ usage' = Mirror(usage, r)
         /\ table' = Release(acquired, r)
         /\ phase' = IF CanRelease(acquired, r) THEN phase ELSE "bug"
         /\ Touch(r)
  /\ created' = created + 1
  /\ UNCHANGED <<held, saved>>

\* exp_call(): the call touches LR.
Call ==
  /\ Generating
  /\ usage' = Mirror(usage, LR)
  /\ usage[LR] < 2     \* bound on the calls counted
  /\ Touch(LR)
  /\ UNCHANGED <<table, held, saved, created, phase>>

\* function_prologue(): walk the usage table; then the main program is parsed.
Prologue ==
  /\ phase = "function"
  /\ saved' = Walked(usage)
  /\ phase' = "main"
  /\ UNCHANGED <<table, usage, held, touched, created>>

Init ==
  /\ table = Table(Reserved) /\ usage = Table({})
  /\ held = {} /\ touched = {} /\ saved = {} /\ created = 0
  /\ phase = "function"

Finished == (~Generating \/ created = MaxSymbols) /\ UNCHANGED vars

Next == NewSymbol \/ ScratchTemp \/ OutOfRegisters \/ Call \/ Prologue \/ Finished

Spec == Init /\ [][Next]_vars

\* ---- properties ---------------------------------------------------------------------

TypeOK ==
  /\ table \in [Regs -> Int] /\ \A r \in Regs : table[r] >= NOREG
  /\ usage \in [Regs -> Nat]
  /\ held \subseteq (Nat \X Regs)
  /\ touched \subseteq Regs /\ saved \subseteq Regs
  /\ created \in 0 .. MaxSymbols
  /\ phase \in {"function", "main", "error", "bug"}

\* "Each time a variable symbol is created, it is allocated a distinct
\* register": no two symbols in use share one, however temporaries are released
\* and registers are reused in between; and the table counts what is held.
DistinctRegisters ==
  /\ \A g, h \in held : g[2] = h[2] => g = h
  /\ \A r \in Regs \ Reserved : table[r] = Cardinality({h \in held : h[2] = r})

\* LR, FP and SP are never given to a symbol and never released (the BUG_IF of
\* CRegAlloc::Release cannot fire).
ReservedKept ==
  /\ phase # "bug"
  /\ \A r \in Reserved : table[r] = NOREG

\* The prologue pushes exactly the registers the function has acquired, those that
\* were released again included, and LR only if the function calls; its code writes
\* no other one, so a call changes no register of its caller.
PrologueSavesTouched == phase = "main" => saved = touched

=============================================================================

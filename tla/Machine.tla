------------------------------ MODULE Machine ------------------------------
\* The emulator's machine: execute_line of rxemu/rx.c as operators on a record
\*   ireg, rreg : IREG and RREG;   imem, rmem : IMEM and RMEM;
\*   out : what was printed, as pairs of a type and a value in halves.
\* An instruction is what ReadLine of Loader returns.  Real values are counted
\* in halves and rounded towards zero to them.
EXTENDS Loader

CONSTANT MemSize     \* "Limit on number of memory entries"

ASSUME MachineAssumption == MemSize \in Nat \ {0}

\* Globals of C are 0.
Zeroed ==
  [ireg |-> [r \in 0 .. RegFileSize - 1 |-> 0], rreg |-> [r \in 0 .. RegFileSize - 1 |-> 0],
   imem |-> [a \in 0 .. MemSize - 1 |-> 0], rmem |-> [a \in 0 .. MemSize - 1 |-> 0],
   out |-> <<>>]

\* ---- operands -----------------------------------------------------------------

IVal(m, a) == IF a.const THEN a.v ELSE m.ireg[a.v]
RVal(m, a) == IF a.const THEN a.v ELSE m.rreg[a.v]
SetI(m, i, v) == [m EXCEPT !.ireg[i.a1.v] = v]
SetR(m, i, v) == [m EXCEPT !.rreg[i.a1.v] = v]

\* ---- the cases of the switch ----------------------------------------------------

\* IASN, IPRT, IINP; "input" is the number scanf finds.
MoveInt(m, i, input) ==
  CASE i.op = "COPYI" -> SetI(m, i, IVal(m, i.a2))
    [] i.op = "PRNTI" -> [m EXCEPT !.out = Append(@, <<"I", 2 * IVal(m, i.a1)>>)]
    [] i.op = "READI" -> SetI(m, i, input)

\* RASN, RPRT, RINP
MoveReal(m, i, input) ==
  CASE i.op = "COPYR" -> SetR(m, i, RVal(m, i.a2))
    [] i.op = "PRNTR" -> [m EXCEPT !.out = Append(@, <<"R", RVal(m, i.a1)>>)]
    [] i.op = "READR" -> SetR(m, i, 2 * input)

Holds(test, x, y) ==
  CASE test \in {"SEQUI", "SEQUR"} -> x = y
    [] test \in {"SNEQI", "SNEQR"} -> x # y
    [] test \in {"SLETI", "SLETR"} -> x < y
    [] test \in {"SGRTI", "SGRTR"} -> x > y

CompareInt(m, i) == SetI(m, i, IF Holds(i.op, IVal(m, i.a2), IVal(m, i.a3)) THEN 1 ELSE 0)
CompareReal(m, i) == SetI(m, i, IF Holds(i.op, RVal(m, i.a2), RVal(m, i.a3)) THEN 1 ELSE 0)

ArithInt(m, i) ==
  LET x == IVal(m, i.a2)
      y == IVal(m, i.a3)
  IN  SetI(m, i, CASE i.op = "ADD2I" -> x + y
                   [] i.op = "SUBTI" -> x - y
                   [] i.op = "MULTI" -> x * y
                   [] i.op = "DIVDI" -> Quot(x, y))

ArithReal(m, i) ==
  LET x == RVal(m, i.a2)
      y == RVal(m, i.a3)
  IN  SetR(m, i, CASE i.op = "ADD2R" -> x + y
                   [] i.op = "SUBTR" -> x - y
                   [] i.op = "MULTR" -> Quot(x * y, 2)
                   [] i.op = "DIVDR" -> Quot(2 * x, y))

\* ILOD, ISTR, RLOD, RSTR; the two memories have the same addresses.
Cell(m, i) == IVal(m, i.a2) + IVal(m, i.a3)
MemoryInt(m, i) ==
  IF i.op = "LOADI" THEN SetI(m, i, m.imem[Cell(m, i)])
  ELSE [m EXCEPT !.imem[Cell(m, i)] = m.ireg[i.a1.v]]
MemoryReal(m, i) ==
  IF i.op = "LOADR" THEN SetR(m, i, m.rmem[Cell(m, i)])
  ELSE [m EXCEPT !.rmem[Cell(m, i)] = m.rreg[i.a1.v]]

Convert(m, i) ==
  IF i.op = "CITOR" THEN SetR(m, i, 2 * IVal(m, i.a2)) ELSE SetI(m, i, ToInt(RVal(m, i.a2)))

\* JLINK leaves the line after it in IREG[0]; the other jumps change nothing.
\* Mutant: it leaves its own line.
JumpLinksHere(m, i, line) == IF i.op = "JLINK" THEN [m EXCEPT !.ireg[0] = line] ELSE m
Jump(m, i, line) == IF i.op = "JLINK" THEN [m EXCEPT !.ireg[0] = line + 1] ELSE m

Executed(m, i, line, input) ==
  CASE i.op \in {"COPYI", "PRNTI", "READI"} -> MoveInt(m, i, input)
    [] i.op \in {"COPYR", "PRNTR", "READR"} -> MoveReal(m, i, input)
    [] i.op \in {"SEQUI", "SNEQI", "SLETI", "SGRTI"} -> CompareInt(m, i)
    [] i.op \in RealTests -> CompareReal(m, i)
    [] i.op \in {"ADD2I", "SUBTI", "MULTI", "DIVDI"} -> ArithInt(m, i)
    [] i.op \in RealOps -> ArithReal(m, i)
    [] i.op \in {"LOADI", "STORI"} -> MemoryInt(m, i)
    [] i.op \in {"LOADR", "STORR"} -> MemoryReal(m, i)
    [] i.op \in {"CITOR", "CRTOI"} -> Convert(m, i)
    [] i.op \in DOMAIN Jumps -> Jump(m, i, line)

\* next_line
NextLine(m, i, line) ==
  CASE i.op \in {"UJUMP", "JLINK"} -> i.a1.v
    [] i.op = "BREQZ" /\ IVal(m, i.a1) = 0 -> i.a2.v
    [] i.op = "BNEQZ" /\ IVal(m, i.a1) # 0 -> i.a2.v
    [] i.op = "RETRN" -> m.ireg[0]
    [] i.op = "HALT" -> 0
    [] OTHER -> line + 1

\* What C leaves undefined: a register or memory cell that does not exist, and
\* an integer divided by 0.
RegistersOf(i) == {a.v : a \in {x \in {i.a1, i.a2, i.a3} : ~x.const}}
Undefined(m, i) ==
  \/ ~RegistersOf(i) \subseteq 0 .. RegFileSize - 1
  \/ i.op \in {"LOADI", "STORI", "LOADR", "STORR"} /\ Cell(m, i) \notin 0 .. MemSize - 1
  \/ i.op = "DIVDI" /\ IVal(m, i.a3) = 0

=============================================================================

------------------------------ MODULE Convention ------------------------------
\* Where in a call the machine is, by the instructions emitted, and what the calling
\* convention promises of FP and SP there.
\*
\* From the cell FP points to, memory holds: old FP (-1), the return value (0),
\* the arguments (1 and 2), and from 3 on the registers the prologue saved.
EXTENDS Calls

Code == cc.code

\* The instruction of line n was emitted for the same item as that of l.
SameItem(n, l) == Code[n].block = Code[l].block /\ Code[n].item = Code[l].item

\* In the middle of a call: FP belongs to the callee; the callee has returned.
FPMoved(l) ==
  \E n \in 1 .. l - 1 :
    /\ SameItem(n, l) /\ Code[n].op = "ADD2I" /\ Code[n].dest = <<FP>>
    /\ \A o \in n .. l - 1 : ~(Code[o].op = "LOADI" /\ Code[o].dest = <<FP>>)
CalledBack(l) == \E n \in 1 .. l - 1 : SameItem(n, l) /\ Code[n].op = "JLINK"

\* The epilogue has begun: the activation is over.
Leaving(l) == Code[l].block = "leave" /\ Code[l - 1].block = "leave"

BlockItems(block) == IF block = "fun" THEN src.fun ELSE src.main
\* The item line l is at; the main block's before it has begun and after HALT.
PC(l) ==
  CASE l = 0 -> Len(src.main) + 1
    [] l # 0 /\ Code[l].block = "skip" -> 0
    [] l # 0 /\ Code[l].block = "prologue" -> 0
    [] l # 0 /\ Code[l].block = "leave" -> Len(src.fun) + 1
    [] l # 0 /\ Code[l].block \in {"fun", "main"} ->
         IF Code[l].item = 0 THEN 0 ELSE Skipping(BlockItems(Code[l].block), Code[l].item)

InFunction(l) == l # 0 /\ Code[l].block \in {"prologue", "fun", "leave"}

Loaded == phase = "run"
FPReg == m.ireg[FP.v]
SPReg == m.ireg[SP.v]

\* ---- properties ---------------------------------------------------------------------

\* Pushes and pops balance: outside of a call SP is just above the frame that
\* belongs to the running activation, and at 0 in the main block.
BalancedStack ==
  Loaded /\ line # 0 /\ PC(line) > 0 /\ ~FPMoved(line) /\ ~Leaving(line) =>
    IF InFunction(line) THEN SPReg = FPReg + 3 + Len(cc.saved)
    ELSE SPReg = 0 /\ FPReg = 0

=============================================================================

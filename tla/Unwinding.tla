------------------------------ MODULE Unwinding ------------------------------
\* The activations, read off the emulator's registers and memory as the calling
\* convention lays them out, and what the convention promises.
EXTENDS Convention

\* Register x of an activation: in the register, or, while it waits for the
\* activation with frame callee, in the cell where the prologue saved it.
Register(x, callee) ==
  LET saved == {k \in DOMAIN cc.saved : callee # 0 /\ cc.saved[k] = <<x>>}
      cell  == callee + 2 + CHOOSE k \in saved : TRUE
  IN  IF x.t = "I" THEN IF saved = {} THEN m.ireg[x.v] ELSE m.imem[cell]
      ELSE IF saved = {} THEN m.rreg[x.v] ELSE m.rmem[cell]

InHalves(type, v) == IF type = "I" THEN 2 * v ELSE v
CellValue(type, a) == InHalves(type, IF type = "I" THEN m.imem[a] ELSE m.rmem[a])

BlockNames(block, pc) ==
  Known(ToSet(IF block = "fun" THEN src.params \o src.locals ELSE src.vars), BlockItems(block), pc)

Env(block, pc, callee) ==
  IF pc = 0 THEN <<>>
  ELSE [n \in BlockNames(block, pc) |-> InHalves(cc.names[n].t, Register(cc.names[n], callee))]

MainFrame(l, callee) ==
  [code |-> "main", pc |-> PC(l), env |-> Env("main", PC(l), callee), args |-> <<>>, ret |-> 0]
FunFrame(l, fp, callee) ==
  [code |-> "fun", pc |-> PC(l), env |-> Env("fun", PC(l), callee),
   args |-> IF PC(l) = 0 THEN [n \in 1 .. 2 |-> CellValue(src.types[src.params[n]], fp + n)]
            ELSE <<>>,
   ret |-> CellValue(src.ret, fp)]

\* The cell an activation's frame is built on, from the FP register.
FrameOf(l, fp) == IF FPMoved(l) THEN m.imem[fp - 1] ELSE fp

\* The activations: one at line l with register FP, which waits for the one with
\* frame callee (0: it is running), and its callers.  (The one-element sets make
\* TLC evaluate line and frame once.)
RECURSIVE Unwind(_, _, _)
Unwind(l, fpReg, callee) ==
  IF ~InFunction(l) THEN <<MainFrame(l, callee)>>
  ELSE CHOOSE frames \in
    {(IF Leaving(l) THEN <<>> ELSE <<FunFrame(l, fp, callee)>>) \o Unwind(back, fp, saver) :
       <<fp, saver, back>> \in
         {LET saves == Code[l].block # "prologue"
          IN  <<f, IF saves THEN f ELSE callee, Register(LR, IF saves THEN f ELSE callee)>> :
            f \in {FrameOf(l, fpReg)}}} : TRUE

Unstarted == [code |-> "main", pc |-> 0, env |-> <<>>, args |-> <<>>, ret |-> 0]
Stack == IF Loaded THEN Unwind(line, FPReg, 0) ELSE <<Unstarted>>
Result ==
  CASE ~Loaded \/ line = 0 -> <<>>
    [] Loaded /\ line # 0 ->
         CASE Leaving(line) -> <<CellValue(src.ret, FPReg)>>
           [] ~Leaving(line) /\ CalledBack(line) ->
                <<CellValue(src.ret, IF FPMoved(line) THEN FPReg ELSE SPReg + 1)>>
           [] OTHER -> <<>>

Abstract ==
  INSTANCE Activations WITH src <- src, stack <- Stack, result <- Result, out <- m.out

\* ---- properties ---------------------------------------------------------------------

\* Generated code stays inside the machine: no line, register or memory cell
\* that does not exist is used, whatever the calls, and no line is refused.
TypeOK ==
  /\ src \in Programs
  /\ phase \in {"function", "fun", "program", "main", "output", "load", "run", "error"}
  /\ line \in 0 .. Len(prog)
  /\ Running => ~Undefined(m, prog[line])

\* Registers, memory and link register implement activations of which each has
\* variables of its own: a call gets its arguments, casts them, returns its value
\* to the caller, and the caller finds its variables and temporaries unchanged,
\* however deep the recursion and whatever registers are reused.
ImplementsActivations == Abstract!Spec

\* Whatever is read, a loaded program comes to HALT: recursion with a base case ends,
\* every return goes back to the line behind its call.
Terminates == Loaded ~> Ended

=============================================================================

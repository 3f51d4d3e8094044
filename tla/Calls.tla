-------------------------------- MODULE Calls --------------------------------
\* Code generation of rcc for a function and the main block that calls it, and
\* the run of that code on the emulator: the calling convention from the
\* semantic rules (semantic_rules.cc, code.cc) to the machine (rxemu/rx.c).
\*
\* "cc" is the compiler: register pools and usage mirrors per type, the register
\* of every name, the emitted code.  An instruction carries, besides opcode and
\* operands, the block and item it was emitted for; nothing depends on that but
\* the refinement mapping.  Labels are tokens; where lists of them are patched
\* is the subject of ControlFlow.
EXTENDS RegAlloc, Machine, Items, SequencesExt

CONSTANTS
  Programs,   \* the programs compiled
  Inputs      \* the numbers typed in

ASSUME ProgramsAssumption == \A p \in Programs : Accepted(p)

VARIABLES
  src,      \* the program
  phase,    \* what rcc and rx are doing
  cc,       \* the state of the compiler
  file,     \* the output file, as far as rx has not read it
  prog,     \* the program as loaded
  m, line   \* the machine and its current_line

vars == <<src, phase, cc, file, prog, m, line>>

\* ---- symbols ----------------------------------------------------------------------

LR == Tok("I", 0)
FP == Tok("I", 1)
SP == Tok("I", 2)
Const(n) == Tok("int", n)

\* ValueIsSet() and Type()
IsConst(x) == x.t \in {"int", "real"}
IsInt(x) == x.t \in {"I", "int"}

NoCode == [pool  |-> [I |-> Table({0, 1, 2}), R |-> Table({})],
           usage |-> [I |-> Table({}), R |-> Table({})],
           names |-> <<>>, code |-> <<>>, saved |-> <<>>, block |-> "skip", item |-> 0]

\* newTemp() and newSymbol(), with registers enough: the register the next call acquires, and the call.
Fresh(c, type) == Tok(type, Acquire(c.pool[type]))
NewTemp(c, type) ==
  LET r == Acquire(c.pool[type])
  IN  [c EXCEPT !.pool[type] = [@ EXCEPT ![r] = 1], !.usage[type] = Mirror(@, r)]
NewName(c, n, type) ==
  [NewTemp(c, type) EXCEPT
     !.names = [k \in DOMAIN @ \cup {n} |-> IF k = n THEN Fresh(c, type) ELSE @[k]]]

\* regPool[]->Release() of a scratch temporary.
Free(c, x) == [c EXCEPT !.pool[x.t] = Release(@, x.v)]

\* currentScope->Get() and newConst()
Sym(c, x) == IF x.t = "name" THEN c.names[x.v] ELSE x

\* ---- instructions -----------------------------------------------------------------

Emit(c, op, dest, src0, src1) ==
  [c EXCEPT !.code = Append(@, [op |-> op, dest |-> dest, src0 |-> src0, src1 |-> src1,
                                block |-> c.block, item |-> c.item])]
Emit3(c, op, dest, a, b) == Emit(c, op, <<dest>>, <<a>>, <<b>>)
Emit2(c, op, dest, a) == Emit(c, op, <<dest>>, <<a>>, <<>>)
EmitJump(c, op, l) == Emit(c, op, <<>>, <<l>>, <<>>)
EmitLabel(c, l) == Emit(c, "LABEL", <<>>, <<l>>, <<>>)

\* copy(); a REAL does not fit into an INTEGER.
Copy(c, dest, x) ==
  Emit2(c, CASE IsInt(dest) /\ IsInt(x) -> "COPYI"
             [] ~IsInt(dest) /\ IsInt(x) -> "CITOR"
             [] OTHER -> "COPYR", dest, x)

\* The conversion of an INTEGER operand to a REAL temporary.
Real(c, x) == IF IsInt(x) THEN Fresh(c, "R") ELSE x
ToReal(c, x) == IF IsInt(x) THEN Emit2(NewTemp(c, "R"), "CITOR", Real(c, x), x) ELSE c

\* arith() and comp(): INTEGER instructions for two INTEGERs, REAL ones otherwise.
Typed(c, ops, dest, x, y) ==
  IF IsInt(x) /\ IsInt(y) THEN Emit3(c, ops[1], dest, x, y)
  ELSE LET c1 == ToReal(c, x)
       IN  Emit3(ToReal(c1, y), ops[2], dest, Real(c, x), Real(c1, y))

ArithOps(op) ==
  CASE op = "+" -> <<"ADD2I", "ADD2R">>
    [] op = "-" -> <<"SUBTI", "SUBTR">>
    [] op = "*" -> <<"MULTI", "MULTR">>
    [] op = "/" -> <<"DIVDI", "DIVDR">>
\* The machine has no "<=" and ">=": their negations.
CompOps(op) ==
  CASE op = "==" -> <<"SEQUI", "SEQUR">>
    [] op = "<>" -> <<"SNEQI", "SNEQR">>
    [] op \in {"<", ">="} -> <<"SLETI", "SLETR">>
    [] op \in {">", "<="} -> <<"SGRTI", "SGRTR">>
Negated(op) == op \in {"<=", ">="}

\* load() and stor(); a constant is stored through a scratch temporary.
Load(c, dest, base, offset) ==
  Emit3(c, IF IsInt(dest) THEN "LOADI" ELSE "LOADR", dest, base, Const(offset))
Stor(c, x, base, offset) ==
  LET type == IF IsInt(x) THEN "I" ELSE "R"
      op   == IF IsInt(x) THEN "STORI" ELSE "STORR"
      a    == Fresh(c, type)
  IN  IF IsConst(x)
      THEN Free(Emit3(Copy(NewTemp(c, type), a, x), op, a, base, Const(offset)), a)
      ELSE Emit3(c, op, x, base, Const(offset))

\* push() and pop() of a queue of symbols, <<>> standing for NULL: the cells
\* first, then SP, and the other way round.  FP "catches up-to-date value of SP"
\* when it is pushed.
\* Mutant: it catches the cell it is stored in.
PushedFPBehind(c, x, i) ==
  IF x = FP THEN Emit3(Stor(c, x, SP, i - 1), "ADD2I", FP, SP, Const(i - 1))
  ELSE Stor(c, x, SP, i - 1)
Pushed(c, x, i) ==
  IF x = FP THEN Emit3(Stor(c, x, SP, i - 1), "ADD2I", FP, SP, Const(i))
  ELSE Stor(c, x, SP, i - 1)
Push(c, q) ==
  Emit3(FoldLeftDomain(LAMBDA d, i : IF q[i] = <<>> THEN d ELSE Pushed(d, q[i][1], i), c, q),
        "ADD2I", SP, SP, Const(Len(q)))
\* Mutant: only what is loaded is taken off the stack.
PopLoaded(c, q) ==
  FoldLeftDomain(LAMBDA d, i : IF q[i] = <<>> THEN d ELSE Load(d, q[i][1], SP, i - 1),
                 Emit3(c, "SUBTI", SP, SP, Const(Len(SelectSeq(q, LAMBDA x : x # <<>>)))), q)
Pop(c, q) ==
  FoldLeftDomain(LAMBDA d, i : IF q[i] = <<>> THEN d ELSE Load(d, q[i][1], SP, i - 1),
                 Emit3(c, "SUBTI", SP, SP, Const(Len(q))), q)

\* ---- the semantic rules, one per item ------------------------------------------------

\* CastIfRequired() throws when an argument or a return value is REAL and the
\* signature says INTEGER, copy() when a variable is.
Mismatch(c, i) ==
  CASE i.kind = "assn" -> IsInt(c.names[i.dest]) /\ ~IsInt(Sym(c, i.x))
    [] i.kind = "call" -> \E n \in 1 .. 2 : /\ src.types[src.params[n]] = "I"
                                            /\ ~IsInt(Sym(c, <<i.x, i.y>>[n]))
    [] i.kind = "return" -> src.ret = "I" /\ ~IsInt(Sym(c, i.x))
    [] OTHER -> FALSE

Cast(c, x, type) == IF type = "R" THEN Real(c, x) ELSE x
CastCode(c, x, type) == IF type = "R" THEN ToReal(c, x) ELSE c

\* arithOp(): DestSymbolType() of the operands.
ArithCode(c, i) ==
  LET x == Sym(c, i.x)
      y == Sym(c, i.y)
      type == IF IsInt(x) /\ IsInt(y) THEN "I" ELSE "R"
      d == NewName(c, i.dest, type)
  IN  Typed(d, ArithOps(i.op), d.names[i.dest], x, y)

\* A label, by the block and item it belongs to.
At(kind, c, item) == Tok(kind, IF c.block = "fun" THEN item ELSE -item)

\* bpfac_relOp(), which leaves the condition by a branch when the comparison, or
\* its negation, says so, and marker m1 of "IF bexp THEN m1 stmt".
IfCode(c, i) ==
  LET cmp  == Fresh(c, "I")
      then == At("then", c, c.item)
      fi   == At("fi", c, Matching(IF c.block = "fun" THEN src.fun ELSE src.main, c.item))
      test == Typed(NewTemp(c, "I"), CompOps(i.op), cmp, Sym(c, i.x), Sym(c, i.y))
      exit == Emit(test, IF Negated(i.op) THEN "BNEQZ" ELSE "BREQZ", <<>>, <<cmp>>, <<fi>>)
  IN  EmitLabel(Free(EmitJump(exit, "UJUMP", then), cmp), then)

\* enforce_valid_nextlist(), unless the statement ends in another IF; then the
\* label of marker m6 or of the end of the block.
FiCode(c) ==
  LET items == IF c.block = "fun" THEN src.fun ELSE src.main
      fi    == At("fi", c, c.item)
      jump  == IF items[c.item - 1].kind = "fi" THEN c ELSE EmitJump(c, "UJUMP", fi)
  IN  EmitLabel(jump, fi)

\* exp_call(): "If we perform function call, 'this' is not a leaf function, so LR
\* should be stored."
\* Mutant: LR is not touched.
TouchLRNever(c) == c
TouchLR(c) == [c EXCEPT !.usage["I"] = Mirror(@, LR.v)]
CallCode(c, i) ==
  LET d  == NewName(c, i.dest, src.ret)
      t  == [n \in 1 .. 2 |-> src.types[src.params[n]]]
      c1 == CastCode(d, Sym(c, i.x), t[1])
      c2 == TouchLR(CastCode(c1, Sym(c, i.y), t[2]))
      p  == <<Cast(d, Sym(c, i.x), t[1]), Cast(c1, Sym(c, i.y), t[2])>>
      jump == EmitJump(Push(c2, <<<<FP>>, <<>>, <<p[1]>>, <<p[2]>>>>), "JLINK", Const(2))
  IN  Pop(jump, <<<<FP>>, <<d.names[i.dest]>>, <<>>, <<>>>>)

\* return_exp(): store_retval(), and a jump to the epilogue.
ReturnCode(c, i) ==
  LET x == Sym(c, i.x)
      stored == Stor(CastCode(c, x, src.ret), Cast(c, x, src.ret), FP, 0)
  IN  EmitJump([stored EXCEPT !.item = Len(src.fun) + 1], "UJUMP", Tok("leave", 0))

ItemCode(c, i) ==
  CASE i.kind = "assn" -> Copy(c, c.names[i.dest], Sym(c, i.x))
    [] i.kind = "arith" -> ArithCode(c, i)
    [] i.kind = "read" ->
         LET dest == c.names[i.dest] IN Emit(c, IF IsInt(dest) THEN "READI" ELSE "READR", <<dest>>, <<>>, <<>>)
    [] i.kind = "write" ->
         LET x == Sym(c, i.x) IN Emit(c, IF IsInt(x) THEN "PRNTI" ELSE "PRNTR", <<>>, <<x>>, <<>>)
    [] i.kind = "if" -> IfCode(c, i)
    [] i.kind = "fi" -> FiCode(c)
    [] i.kind = "call" -> CallCode(c, i)
    [] i.kind = "return" -> ReturnCode(c, i)

\* ---- the blocks ------------------------------------------------------------------------

NewNames(c, names) == FoldLeft(LAMBDA d, n : NewName(d, n, src.types[n]), c, names)

\* Marker m2 and func_arg; blk_enter() with load_argument(), from behind the
\* return value; the declarations.
HeaderCode(c) ==
  LET skip == EmitJump(c, "UJUMP", Tok("skip", 0))
      args == NewNames(EmitLabel([skip EXCEPT !.block = "fun"], Tok("prologue", 0)), src.params)
      loaded == FoldLeftDomain(LAMBDA d, i : Load(d, d.names[src.params[i]], FP, i),
                               args, src.params)
  IN  NewNames(loaded, src.locals)

\* The queue function_prologue() gathers from the usage tables.
Touched(c, type) ==
  FlattenSeq([r \in 1 .. NREGS |-> IF r - 1 \in Walked(c.usage[type]) THEN <<<<Tok(type, r - 1)>>>>
                                   ELSE <<>>])
Saved(c) == Touched(c, "I") \o Touched(c, "R")

\* function_prologue(): code of its own, spliced in at the marker;
\* function_epilogue(); the skip label.
FunctionEndCode(c) ==
  LET prologue == Push([c EXCEPT !.code = <<>>, !.block = "prologue", !.item = 0], Saved(c)).code
      at == CHOOSE n \in DOMAIN c.code : c.code[n].op = "LABEL" /\ c.code[n].src0[1].t = "prologue"
      spliced == [c EXCEPT !.code = SubSeq(@, 1, at - 1) \o prologue \o SubSeq(@, at, Len(@)),
                           !.block = "leave", !.saved = Saved(c)]
      left == Pop(EmitLabel(spliced, Tok("leave", 0)), Saved(c))
  IN  EmitLabel(Emit(left, "RETRN", <<>>, <<>>, <<>>), Tok("skip", 0))

\* main_init() and the declarations of the main block.
MainCode(c) ==
  NewNames(Copy(Copy([c EXCEPT !.block = "main", !.item = 0], FP, Const(0)), SP, Const(0)),
           src.vars)

\* ---- rcc --------------------------------------------------------------------------------

Compile(p, c) == phase' = p /\ cc' = c /\ UNCHANGED <<src, file, prog, m, line>>

FunctionHeader == phase = "function" /\ Compile("fun", [HeaderCode(cc) EXCEPT !.item = 1])

CodeItem ==
  /\ phase \in {"fun", "main"}
  /\ LET items == IF phase = "fun" THEN src.fun ELSE src.main
     IN  /\ cc.item \in DOMAIN items
         /\ IF Mismatch(cc, items[cc.item]) THEN Compile("error", cc)
            ELSE Compile(phase, [ItemCode(cc, items[cc.item]) EXCEPT !.item = cc.item + 1])

FunctionEnd == phase = "fun" /\ cc.item = Len(src.fun) + 1 /\ Compile("program", FunctionEndCode(cc))

MainHeader == phase = "program" /\ Compile("main", [MainCode(cc) EXCEPT !.item = 1])

MainEnd ==
  /\ phase = "main" /\ cc.item = Len(src.main) + 1
  /\ Compile("output", Emit(EmitLabel(cc, Tok("halt", 0)), "HALT", <<>>, <<>>, <<>>))

\* CalcLabelAddress(1) gives labels their values, Disp() leaves the LABELs out.
Sized(code) ==
  FlattenSeq([n \in DOMAIN code |-> IF code[n].op = "LABEL" THEN <<>> ELSE <<code[n]>>])
Address(l) ==
  LET at == CHOOSE n \in DOMAIN cc.code : cc.code[n].op = "LABEL" /\ cc.code[n].src0[1] = l
  IN  1 + Len(Sized(SubSeq(cc.code, 1, at)))
Valued(i) ==
  LET value(x) == IF IsConst(x) \/ x.t \in {"I", "R"} THEN x ELSE Const(Address(x))
  IN  [i EXCEPT !.src0 = [n \in DOMAIN @ |-> value(@[n])], !.src1 = [n \in DOMAIN @ |-> value(@[n])]]

WriteFile ==
  /\ phase = "output"
  /\ \E code \in {Sized([n \in DOMAIN cc.code |-> Valued(cc.code[n])])} :
       /\ cc' = [cc EXCEPT !.code = code]
       /\ file' = FlattenSeq([l \in DOMAIN code |-> Written(code[l])])
  /\ phase' = "load"
  /\ UNCHANGED <<src, prog, m, line>>

\* ---- rx ---------------------------------------------------------------------------------

\* One turn of load_program's loop.  A line is stored when its opcode has been
\* recognised, the AsmSize-th one past the arrays, whose last index is AsmSize - 1.
\* Of a word that is no opcode nothing is stored: the file is rejected.
LoadLine ==
  /\ phase = "load" /\ file # <<>>
  /\ LET read    == ReadLine(file)
         outside == Len(prog) + 1 >= AsmSize /\ read.inst.op \in Opcodes
     IN  /\ prog' = Append(prog, read.inst)
         /\ file' = read.rest
         /\ phase' = CASE outside -> "overrun"
                       [] ~outside /\ read.error -> "rejected"
                       [] OTHER -> phase
  /\ UNCHANGED <<src, cc, m, line>>

Start ==
  /\ phase = "load" /\ file = <<>>
  /\ phase' = "run" /\ line' = 1
  /\ UNCHANGED <<src, cc, file, prog, m>>

Running == phase = "run" /\ line \in DOMAIN prog

Execute ==
  /\ Running /\ ~Undefined(m, prog[line])
  /\ \E input \in IF prog[line].op \in {"READI", "READR"} THEN Inputs ELSE {0} :
       m' = Executed(m, prog[line], line, input)
  /\ line' = NextLine(m, prog[line], line)
  /\ UNCHANGED <<src, phase, cc, file, prog>>

Init ==
  /\ src \in Programs
  /\ phase = "function" /\ cc = NoCode
  /\ file = <<>> /\ prog = <<>> /\ m = Zeroed /\ line = 0

Ended == phase \in {"error", "rejected", "overrun"} \/ (phase = "run" /\ ~Running)
Finished == Ended /\ UNCHANGED vars

Next ==
  \/ FunctionHeader \/ CodeItem \/ FunctionEnd \/ MainHeader \/ MainEnd \/ WriteFile
  \/ LoadLine \/ Start \/ Execute \/ Finished

\* run_program() is a loop that executes lines as long as there is one.
Spec == Init /\ [][Next]_vars /\ WF_vars(Execute)

\* ---- properties ---------------------------------------------------------------------

\* rx loads what rcc emitted: every operand in the role the emulator reads it in,
\* registers in their file and constants in the instruction's type, and nothing more.
Meant(i) ==
  LET given == i.dest \o i.src0 \o i.src1
      real(n) == Shape(i.op)[n] = "r"
  IN  [n \in DOMAIN given |->
         LET x == given[n] IN
         CASE x.t \in {"I", "R"} -> Arg(FALSE, x.v)
           [] x.t = "int" -> Arg(TRUE, IF real(n) THEN 2 * x.v ELSE x.v)
           [] x.t = "real" -> Arg(TRUE, x.v)]
FileMeansCode ==
  /\ phase = "run" => Len(prog) = Len(cc.code)
  /\ \A l \in DOMAIN prog :
       /\ prog[l].op = cc.code[l].op
       /\ \A n \in DOMAIN Meant(cc.code[l]) :
            <<prog[l].a1, prog[l].a2, prog[l].a3>>[n] = Meant(cc.code[l])[n]

=============================================================================

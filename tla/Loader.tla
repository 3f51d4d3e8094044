------------------------------- MODULE Loader -------------------------------
\* The file between rcc and the emulator: one instruction as rcc writes it
\* (operator<< of code.cc and symbol.cc) and as load_program of rxemu/rx.c reads
\* it.
\*
\* A file is a sequence of tokens [t, v]: an opcode, a register of file "I" or
\* "R" with its number, an "int" or a "real" constant (in
\* halves), or "junk" of one word.
EXTENDS Values

CONSTANTS
  AsmSize,      \* "Limit on number of lines"
  RegFileSize   \* "Number of registers"

ASSUME LoaderAssumption == AsmSize \in Nat \ {0} /\ RegFileSize \in Nat \ {0}

\* ---- writing ------------------------------------------------------------------

\* operator<<: the opcode, DEST, SRC0 and SRC1, leaving out NULL operands
\* (empty sequences here).
\* Mutant: the operands in the order of enum ARGS.
WrittenInArgsOrder(i) == <<Tok(i.op, 0)>> \o i.src0 \o i.src1 \o i.dest
Written(i) == <<Tok(i.op, 0)>> \o i.dest \o i.src0 \o i.src1

\* ---- reading --------------------------------------------------------------------

\* What load_program reads behind an opcode into Arg1, Arg2 and Arg3, an operand
\* of every kind being read by its function: "I", "R" get_reg; "i"
\* get_ireg_or_iconst; "r" get_rreg_or_rconst; "n" get_iconst; "-" nothing.
IntOps == {"SEQUI", "SNEQI", "SLETI", "SGRTI", "ADD2I", "SUBTI", "MULTI", "DIVDI",
           "LOADI", "STORI"}
RealTests == {"SEQUR", "SNEQR", "SLETR", "SGRTR"}
RealOps == {"ADD2R", "SUBTR", "MULTR", "DIVDR"}
Moves == [COPYI |-> <<"I", "i", "-">>, PRNTI |-> <<"i", "-", "-">>, READI |-> <<"I", "-", "-">>,
          COPYR |-> <<"R", "r", "-">>, PRNTR |-> <<"r", "-", "-">>, READR |-> <<"R", "-", "-">>,
          CITOR |-> <<"R", "i", "-">>, CRTOI |-> <<"I", "r", "-">>]
Jumps == [UJUMP |-> <<"n", "-", "-">>, JLINK |-> <<"n", "-", "-">>,
          BREQZ |-> <<"i", "n", "-">>, BNEQZ |-> <<"i", "n", "-">>,
          RETRN |-> <<"-", "-", "-">>, HALT |-> <<"-", "-", "-">>]
Opcodes == IntOps \cup RealTests \cup RealOps \cup {"LOADR", "STORR"}
           \cup DOMAIN Moves \cup DOMAIN Jumps

Shape(op) ==
  CASE op \in IntOps -> <<"I", "i", "i">>
    [] op \in RealTests -> <<"I", "r", "r">>
    [] op \in RealOps -> <<"R", "r", "r">>
    [] op \in {"LOADR", "STORR"} -> <<"R", "i", "i">>
    [] op \in DOMAIN Moves -> Moves[op]
    [] op \in DOMAIN Jumps -> Jumps[op]

\* An operand as it is stored, and what is left of the file.
Arg(const, v) == [const |-> const, v |-> v]
Got(const, v, rest) == [arg |-> Arg(const, v), rest |-> rest]

NextIs(s, kinds) == s # <<>> /\ Head(s).t \in kinds

\* get_reg(): a register number out of bounds is reported but returned.
GetReg(s, file) ==
  IF NextIs(s, {file}) THEN Got(FALSE, Head(s).v, Tail(s)) ELSE Got(FALSE, -1, s)
Reported(s, file) == NextIs(s, {file}) => Head(s).v < 0 \/ Head(s).v > RegFileSize

\* fscanf("%d"): of a real constant it takes the integer part and leaves the rest.
ScanInt(s) ==
  IF Head(s).t = "int" THEN Got(TRUE, Head(s).v, Tail(s))
  ELSE Got(TRUE, ToInt(Head(s).v), <<Tok("junk", 0)>> \o Tail(s))

\* fscanf("%f")
ScanReal(s) ==
  Got(TRUE, IF Head(s).t = "int" THEN 2 * Head(s).v ELSE Head(s).v, Tail(s))

Constants == {"int", "real"}

Read(kind, s) ==
  CASE kind \in {"I", "R"} -> GetReg(s, kind)
    [] kind = "i" -> IF NextIs(s, Constants) THEN ScanInt(s) ELSE GetReg(s, "I")
    [] kind = "r" -> IF NextIs(s, Constants) THEN ScanReal(s) ELSE GetReg(s, "R")
    [] kind = "n" -> IF NextIs(s, Constants) THEN ScanInt(s) ELSE Got(TRUE, -1, s)
    [] kind = "-" -> Got(FALSE, 0, s)

\* The integer field is -1: the sign of a failed read, and of the constants -1
\* and, truncated, -1.5.
\* Mutant: the integer field of a real constant is not looked at.
IsErrorOfInts(kind, arg) == kind # "r" /\ arg.v = -1
IsError(kind, arg) ==
  IF kind = "r" /\ arg.const THEN ToInt(arg.v) = -1 ELSE kind # "-" /\ arg.v = -1

\* One turn of load_program's loop: the instruction, what is left of the file,
\* and whether to stop.
ReadLine(s) ==
  LET op    == Head(s).t
      shape == IF op \in Opcodes THEN Shape(op) ELSE <<"-", "-", "-">>
      one   == Read(shape[1], Tail(s))
      two   == Read(shape[2], one.rest)
      three == Read(shape[3], two.rest)
  IN  [inst  |-> [op |-> op, a1 |-> one.arg, a2 |-> two.arg, a3 |-> three.arg],
       rest  |-> three.rest,
       error |-> \/ op \notin Opcodes
                 \/ IsError(shape[1], one.arg)
                 \/ IsError(shape[2], two.arg)
                 \/ IsError(shape[3], three.arg)]

=============================================================================

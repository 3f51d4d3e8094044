------------------------------ MODULE Toolchain ------------------------------
\* The two programs and the files between them: rcc reads a source and writes a
\* file of instructions, rx loads such a file (main.cc, input_scanner.lex,
\* symbol.h, rxemu/rx.c).  Commands follow each other at a prompt.
\*
\* The grammar is cut down to a function and a main block of "write" and
\* "return" statements over INTEGER variables and products, without the
\* punctuation that carries no choice.  The code of what has been parsed is
\* generated by the actions of Calls, which this module runs when the parser has
\* come to its end: until then nothing of it can be seen.
EXTENDS Calls, Scanner

CONSTANTS
  Sources,      \* what may have been written, and the commands given: see MCToolchain
  MaxCommands,  \* bound on the commands given
  ReadOnly      \* files that cannot be written

ASSUME MaxCommandsAssumption == MaxCommands \in Nat

VARIABLES
  written,  \* the source and the hand-written file, as meant, and the commands
  fs,       \* the files: a name's text and instructions
  cmd,      \* the last command
  given,    \* commands given so far
  exit,     \* the status of the last command
  rcc       \* the parser: text, position, place in the grammar, scope

tvars == <<written, fs, cmd, given, exit, rcc>>

\* ---- what has been written ------------------------------------------------------------

\* A source w is a text of which it is known which words are the program (tokens,
\* at places) and which stretches are comments.  Behind a word, a comment or
\* nothing there is a word, a comment, or no token at all.
Boundaries(w) ==
  {1} \cup {w.places[n] + 1 : n \in DOMAIN w.places} \cup {c[2] + 1 : c \in w.comments}
NoToken(text, p) == p \notin DOMAIN text \/ text[p] \notin Tokens \/ NeverEnds(text, p)

\* A line of a hand-written file is its first word and what is behind it, up to the
\* next opcode.
IsLine(words) ==
  /\ IsList(words) /\ words # <<>> /\ \A n \in DOMAIN words : words[n].v \in Int
  /\ words[1].t \notin {"I", "R"} \cup Constants
  /\ \A n \in 2 .. Len(words) : words[n].t \notin Opcodes

AsMeant(w) ==
  /\ w.text \in Seq(ToSet(w.text)) /\ w.tokens \in Seq(Tokens) /\ w.places \in Seq(DOMAIN w.text)
  /\ Len(w.places) = Len(w.tokens)
  /\ \A n \in DOMAIN w.places :
       w.text[w.places[n]] = w.tokens[n] /\ ~Opens(w.text, w.places[n])
  /\ \A i, j \in DOMAIN w.places : i < j => w.places[i] < w.places[j]
  /\ \A c \in w.comments :
       /\ c[1] \in DOMAIN w.text /\ c[2] \in DOMAIN w.text
       /\ IsComment(w.text, c[1], c[2])
       /\ \A n \in DOMAIN w.places : w.places[n] \notin c[1] .. c[2]
  /\ \A p \in Boundaries(w) :
       \/ p \in ToSet(w.places)
       \/ \E c \in w.comments : c[1] = p
       \/ NoToken(w.text, p)
  /\ IsList(w.hand) /\ \A l \in DOMAIN w.hand : IsLine(w.hand[l])

ASSUME SourcesAssumption == \A w \in Sources : AsMeant(w)

\* ---- files --------------------------------------------------------------------------

EmptyFile == [text |-> <<>>, asm |-> <<>>]

\* A file as the scanner and as load_program see it: opcodes look like
\* identifiers and words are no opcodes.
Pieces(f) == f.text \o [n \in DOMAIN f.asm |-> f.asm[n].t]
Instructions(f) == [n \in DOMAIN f.text |-> Tok(f.text[n], 0)] \o f.asm

\* Mutant: a file that is there is written over.
TruncatedIfNew(files) ==
  [f \in files \cup DOMAIN fs |-> IF f \in DOMAIN fs THEN fs[f] ELSE EmptyFile]
Truncated(files) ==
  [f \in files \cup DOMAIN fs |-> IF f \in files THEN EmptyFile ELSE fs[f]]

\* ---- the command line -----------------------------------------------------------------

\* parse_cmdline_args(): -dbg takes the argument behind it, whatever it is.
Consumed(args) ==
  LET taken[i \in 0 .. Len(args)] ==
        i > 1 /\ args[i - 1] = "-dbg" /\ ~taken[i - 1]
  IN  {i \in DOMAIN args : taken[i]}
Names(args) ==
  LET at == {i \in DOMAIN args \ Consumed(args) : args[i] \notin {"-help", "-dbg", "-const"}}
  IN  [n \in 1 .. Cardinality(at) |->
         args[CHOOSE i \in at : Cardinality({j \in at : j <= i}) = n]]
Usage(args) ==
  Len(Names(args)) > 2 \/ \E i \in DOMAIN args \ Consumed(args) : args[i] = "-help"

InFile(args) == IF Names(args) = <<>> THEN "stdin" ELSE Names(args)[1]
OutFile(args) ==
  CASE Len(Names(args)) = 0 -> "stdout"
    [] Len(Names(args)) = 1 -> Names(args)[1] \o ".rsk"
    [] OTHER -> Names(args)[2]
\* The last argument of a -dbg counts, and is forgotten when it cannot be opened.
DebugFile(args) ==
  {args[i] : i \in {j \in Consumed(args) : \A k \in Consumed(args) : k <= j}} \ ReadOnly

\* ---- starting and ending a command ------------------------------------------------------

NoProgram == [ret |-> "I", params |-> <<>>, locals |-> <<>>, vars |-> <<>>, types |-> <<>>,
              fun |-> <<>>, main |-> <<>>]
NoParser == [text |-> <<>>, pos |-> 1, at |-> "start", block |-> "fun", scope |-> {},
             left |-> <<>>, op |-> "", stmt |-> "", returned |-> FALSE, got |-> <<>>]

Give(command) ==
  /\ phase = "prompt" /\ given < MaxCommands
  /\ command \in written.commands
  /\ cmd' = command /\ given' = given + 1
  /\ UNCHANGED <<written, cc, m, line>>

Exit(status) == exit' = status /\ phase' = "prompt"

\* The first words of the debug text, and its last one when the parser has come to
\* its end: no program gets farther in it.
DebugText == <<"Start", "Compilation">>
DebugEnd == <<Tok("Ok", 0)>>
ASSUME DebugAssumption == DebugText \in Seq(Identifiers)

\* rcc ends: the debug text, kept in its buffer up to now, is written, and then the
\* code, kept in another one, each from the beginning of its file.  Where that is
\* the same file the code covers the text, whose end may show behind it.
WithDebug(f, end) ==
  IF f.asm = <<>> THEN [text |-> DebugText, asm |-> <<>>]
  ELSE [text |-> <<>>, asm |-> f.asm \o end]
RccEnds(status) ==
  /\ Exit(status)
  /\ \E end \in {<<>>, DebugEnd} :
       fs' = [f \in DOMAIN fs |->
                IF f \in DebugFile(Tail(cmd)) THEN WithDebug(fs[f], end) ELSE fs[f]]

\* Nothing has been opened for writing yet.
RccRefuses ==
  \E command \in written.commands :
    LET args == Tail(command) IN
    /\ Head(command) = "rcc" /\ Give(command)
    /\ Usage(args) \/ InFile(args) \notin DOMAIN fs \/ OutFile(args) \in ReadOnly
    /\ Exit(1)
    /\ UNCHANGED <<fs, rcc, src, file, prog>>

\* The output files are truncated when nothing of the input has been read.
RccStarts ==
  \E command \in written.commands :
    LET args == Tail(command) IN
    /\ Head(command) = "rcc"
    /\ phase = "prompt" /\ given < MaxCommands
    /\ ~Usage(args) /\ InFile(args) \in DOMAIN fs /\ OutFile(args) \notin ReadOnly
    /\ fs' = Truncated({OutFile(args)} \cup DebugFile(args))
    /\ rcc' = [NoParser EXCEPT !.text = Pieces(fs'[InFile(args)])]
    /\ cmd' = command /\ given' = given + 1
    /\ phase' = "parse"
    /\ src' = NoProgram /\ cc' = NoCode /\ file' = <<>> /\ prog' = <<>>
    /\ UNCHANGED <<written, exit, m, line>>

\* ---- the scanner ------------------------------------------------------------------------

Parsing == phase = "parse"
Word == rcc.text[rcc.pos]
InText == rcc.pos \in DOMAIN rcc.text

Comment ==
  /\ Parsing /\ Opens(rcc.text, rcc.pos)
  /\ LET next == Eat(rcc.text)[rcc.pos + 2]
     IN  IF next = 0 THEN RccEnds(1) /\ UNCHANGED rcc    \* "open comment at end of file"
         ELSE rcc' = [rcc EXCEPT !.pos = next] /\ UNCHANGED <<exit, phase, fs>>
  /\ UNCHANGED <<written, cmd, given, src, cc, file, prog, m, line>>

\* "undefined symbol", "unexpected end of file"
LexicalError ==
  /\ Parsing
  /\ InText => Word \notin Tokens
  /\ RccEnds(1)
  /\ UNCHANGED <<written, cmd, given, rcc, src, cc, file, prog, m, line>>

\* yylex() returns this token.
Token == Parsing /\ InText /\ Word \in Tokens /\ ~Opens(rcc.text, rcc.pos)
TokenIs(place, words) == Token /\ rcc.at \in place /\ Word \in words
\* Mutant: the character behind the word is taken with it.
MovedOn == [rcc EXCEPT !.pos = @ + 2, !.got = Append(@, Text(Word))]
Moved == [rcc EXCEPT !.pos = @ + 1, !.got = Append(@, Text(Word))]

\* ---- the parser -------------------------------------------------------------------------

\* A step of the parser to another place of the grammar.
Go(parser, place) ==
  /\ rcc' = [parser EXCEPT !.at = place]
  /\ UNCHANGED <<written, fs, cmd, given, exit, phase, cc, file, prog, m, line>>

Fail ==
  /\ RccEnds(1)
  /\ rcc' = Moved
  /\ UNCHANGED <<written, cmd, given, src, cc, file, prog, m, line>>

Expected(place) ==
  CASE place = "start" -> {"function"}
    [] place = "params" -> Identifiers
    [] place \in {"locals", "vars"} -> Identifiers \cup {"begin"}
    [] place = "statement" -> {"write", "return", "end"}
    [] place = "operand" -> Identifiers
    [] place = "operator" -> MulOps \cup {";"}
    [] place = "program" -> {"program"}

\* yyerror()
SyntaxError == Token /\ Word \notin Expected(rcc.at) /\ Fail

FunctionWord == TokenIs({"start"}, {"function"}) /\ Go(Moved, "params") /\ UNCHANGED src

\* CScopeInfo::Add() throws when the name is known, Get() when it is not.  There
\* is one scope for the whole program.
\* Mutants: the entry is written, or taken, without a look for it.
CanAddAnything(name) == TRUE
CanAdd(name) == name \notin rcc.scope
CanGetAnything(name) == TRUE
CanGet(name) == name \in rcc.scope

\* func_arg with blk_enter(), and dcl: a variable is declared.
Declare ==
  /\ TokenIs({"params", "locals", "vars"}, Identifiers)
  /\ IF CanAdd(Text(Word))
     THEN LET n == Text(Word)
              typed == [src EXCEPT !.types = [k \in DOMAIN @ \cup {n} |-> IF k = n THEN "I" ELSE @[k]]]
          IN  /\ Go([Moved EXCEPT !.scope = @ \cup {n}],
                    IF rcc.at = "params" /\ Len(src.params) = 1 THEN "locals" ELSE rcc.at)
              /\ src' = CASE rcc.at = "params" -> [typed EXCEPT !.params = Append(@, n)]
                          [] rcc.at = "locals" -> [typed EXCEPT !.locals = Append(@, n)]
                          [] rcc.at = "vars" -> [typed EXCEPT !.vars = Append(@, n)]
     ELSE Fail

BeginWord == TokenIs({"locals", "vars"}, {"begin"}) /\ Go(Moved, "statement") /\ UNCHANGED src

StatementWord ==
  /\ TokenIs({"statement"}, {"write", "return"})
  /\ Go([Moved EXCEPT !.stmt = Word, !.left = <<>>], "operand")
  /\ UNCHANGED src

Items == IF rcc.block = "fun" THEN src.fun ELSE src.main
WithItem(i) ==
  IF rcc.block = "fun" THEN [src EXCEPT !.fun = Append(@, i)]
  ELSE [src EXCEPT !.main = Append(@, i)]

\* factor : ID, and term : term MULOP factor.
Operand ==
  /\ TokenIs({"operand"}, Identifiers)
  /\ IF ~CanGet(Text(Word)) THEN Fail
     ELSE LET x == Name(Text(Word))
              t == "@" \o rcc.block \o ToString(Len(Items))
          IN  IF rcc.left = <<>>
              THEN Go([Moved EXCEPT !.left = <<x>>], "operator") /\ UNCHANGED src
              ELSE /\ Go([Moved EXCEPT !.left = <<Name(t)>>], "operator")
                   /\ src' = WithItem(ArithItem(t, rcc.left[1], rcc.op, x))

Operator ==
  TokenIs({"operator"}, MulOps) /\ Go([Moved EXCEPT !.op = Word], "operand") /\ UNCHANGED src

\* write and return, whose retlist is kept up to the end of the block.
Reduce ==
  /\ TokenIs({"operator"}, {";"})
  /\ Go([Moved EXCEPT !.returned = @ \/ rcc.stmt = "return"], "statement")
  /\ src' = WithItem(IF rcc.stmt = "write" THEN WriteItem(rcc.left[1]) ELSE ReturnItem(rcc.left[1]))

FunctionEndWord ==
  /\ rcc.block = "fun" /\ TokenIs({"statement"}, {"end"})
  /\ Go([Moved EXCEPT !.block = "main", !.returned = FALSE], "program")
  /\ UNCHANGED src

ProgramWord == TokenIs({"program"}, {"program"}) /\ Go(Moved, "vars") /\ UNCHANGED src

\* main_function: "'return' statement used (somewhere) in code block that does
\* not belong to a function" is found here; otherwise the code is complete.
\* Mutant: the list is not looked at.
ReturnsNever == FALSE
Returns == rcc.returned
ProgramEnd ==
  /\ rcc.block = "main" /\ TokenIs({"statement"}, {"end"})
  /\ IF Returns THEN Fail
     ELSE /\ rcc' = Moved /\ phase' = "function"
          /\ UNCHANGED <<written, fs, cmd, given, exit, src, cc, file, prog, m, line>>

\* ---- the output ---------------------------------------------------------------------------

\* AcquireOrThrow()
OutOfRegisters == \E n \in DOMAIN cc.names : cc.names[n].v = NOREG
RegistersRunOut ==
  /\ phase \in {"fun", "program", "main", "output"} /\ OutOfRegisters
  /\ RccEnds(1)
  /\ UNCHANGED <<written, cmd, given, rcc, src, cc, file, prog, m, line>>

Translate ==
  /\ ~OutOfRegisters
  /\ FunctionHeader \/ CodeItem \/ FunctionEnd \/ MainHeader \/ MainEnd
  /\ UNCHANGED tvars

\* emit.Disp(machout); return 0.
RccWrites ==
  /\ ~OutOfRegisters /\ WriteFile
  /\ fs' = [fs EXCEPT ![OutFile(Tail(cmd))] = [text |-> <<>>, asm |-> file']]
  /\ UNCHANGED <<written, cmd, given, exit, rcc>>
RccExits ==
  /\ phase = "load" /\ Head(cmd) = "rcc"
  /\ RccEnds(0)
  /\ UNCHANGED <<written, cmd, given, rcc, src, cc, file, prog, m, line>>

\* ---- rx -------------------------------------------------------------------------------------

\* main() and the fopen() of load_program().  The status "error" is returned
\* without having been set unless lines have been run.
AnyStatus == {0, 1}
RxStarts ==
  \E command \in written.commands :
    /\ Head(command) = "rx" /\ Give(command)
    /\ prog' = <<>>
    /\ IF Len(command) = 2 /\ command[2] \in DOMAIN fs
       THEN phase' = "load" /\ file' = Instructions(fs[command[2]]) /\ UNCHANGED exit
       ELSE (\E status \in AnyStatus : Exit(status)) /\ UNCHANGED file
    /\ UNCHANGED <<fs, rcc, src>>

RxLoads == Head(cmd) = "rx" /\ LoadLine /\ UNCHANGED tvars

\* What the lines do when they are run is the subject of Calls.
RxExits ==
  /\ Head(cmd) = "rx"
  /\ phase \in {"rejected", "overrun"} \/ (phase = "load" /\ file = <<>>)
  /\ \E status \in IF phase = "load" /\ prog # <<>> THEN {0} ELSE AnyStatus : Exit(status)
  /\ UNCHANGED <<written, fs, cmd, given, rcc, src, cc, file, prog, m, line>>

\* ---- the specification ------------------------------------------------------------------------

TInit ==
  /\ written \in Sources
  /\ fs = [f \in {"p", "stdin", "h"} |->
             IF f = "h" THEN [text |-> <<>>, asm |-> FlattenSeq(written.hand)]
             ELSE [text |-> written.text, asm |-> <<>>]]
  /\ cmd = <<"">> /\ given = 0 /\ exit = 0 /\ rcc = NoParser
  /\ src = NoProgram /\ phase = "prompt" /\ cc = NoCode
  /\ file = <<>> /\ prog = <<>> /\ m = Zeroed /\ line = 0

LoggedOut == phase = "prompt" /\ given = MaxCommands /\ UNCHANGED <<vars, tvars>>

TNext ==
  \/ RccRefuses \/ RccStarts
  \/ Comment \/ LexicalError \/ SyntaxError
  \/ FunctionWord \/ Declare \/ BeginWord \/ StatementWord \/ Operand \/ Operator \/ Reduce
  \/ FunctionEndWord \/ ProgramWord \/ ProgramEnd
  \/ RegistersRunOut \/ Translate \/ RccWrites \/ RccExits
  \/ RxStarts \/ RxLoads \/ RxExits
  \/ LoggedOut

TSpec == TInit /\ [][TNext]_<<vars, tvars>>

\* ---- properties -----------------------------------------------------------------------------

TypeOK ==
  /\ phase \in {"prompt", "parse", "function", "fun", "program", "main", "output", "load",
               "rejected", "overrun"}
  /\ given \in 0 .. MaxCommands /\ exit \in 0 .. 1
  /\ rcc.pos \in 1 .. Len(rcc.text) + 1
  /\ \A f \in DOMAIN fs : fs[f].text = <<>> \/ fs[f].asm = <<>>
  /\ phase = "parse" => src.types = [n \in rcc.scope |-> "I"]

\* What Calls assumes of its programs is what the parser makes sure of: wherever code
\* is generated each name is declared, or a temporary, before it is used, in its type.
ParsedIsAccepted ==
  phase \in {"function", "fun", "program", "main", "output"} => Accepted(src)

\* Two names of the source that denote the same symbol.
SameStart(x, y) ==
  x = y \/ (/\ Len(x) >= NameLimit /\ Len(y) >= NameLimit
            /\ SubSeq(x, 1, NameLimit) = SubSeq(y, 1, NameLimit))

Uses(stmt) == {stmt[i] : i \in {j \in DOMAIN stmt : stmt[j] \in Identifiers}}
Products(block) == Len(SelectSeq(FlattenSeq(block), LAMBDA t : t \in MulOps))

\* What the language asks of a program: each name declared once, in front of its
\* uses, a function's variables being known in the main block, too; no return in
\* the main block; no more variables and temporaries than registers.
Legal(w) ==
  LET declared == w.params \o w.locals \o w.vars
      known(names, stmt) == \A x \in Uses(stmt) : \E y \in ToSet(names) : SameStart(x, y)
  IN  /\ w.intact
      /\ \A i, j \in DOMAIN declared : SameStart(declared[i], declared[j]) => i = j
      /\ \A i \in DOMAIN w.fun : known(w.params \o w.locals, w.fun[i])
      /\ \A i \in DOMAIN w.main : known(declared, w.main[i]) /\ w.main[i][1] # "return"
      /\ 3 + Len(declared) + Products(w.fun \o w.main) <= NREGS

AfterRcc == given > 0 /\ phase = "prompt" /\ Head(cmd) = "rcc"
Opened ==
  LET args == Tail(cmd)
  IN  ~Usage(args) /\ InFile(args) \in DOMAIN fs /\ OutFile(args) \notin ReadOnly
Out == fs[OutFile(Tail(cmd))]
Debugged == OutFile(Tail(cmd)) \in DebugFile(Tail(cmd))

\* A legal source gives status 0; anything else, an output file that is the source
\* itself included, gives status 1.  rx takes a file of code down to HALT if it is not
\* too long, with register numbers up to RegFileSize, one more than there are.
Compiled ==
  /\ cmd = <<"rx", "p.rsk">> /\ cmd[2] \in DOMAIN fs
  /\ fs[cmd[2]].asm # <<>> /\ Last(fs[cmd[2]].asm) = Tok("HALT", 0)
CompilesTheLegal ==
  /\ AfterRcc /\ Opened => (exit = 0 <=> rcc.text = written.text /\ Legal(written))
  /\ Compiled =>
       /\ phase # "rejected"
       /\ phase = "overrun" => Len(prog) = AsmSize
       /\ \A l \in DOMAIN prog : RegistersOf(prog[l]) \subseteq 0 .. RegFileSize

\* Status 0 comes with a file that holds code, any other with one that holds none:
\* never a part of the code and never that of an earlier run, wherever the
\* compilation has failed.  Unless it is the debug file, too, it holds nothing else,
\* and the code goes down to the HALT of the main block.
CompleteOrNothing ==
  AfterRcc /\ Opened =>
    /\ exit = 0 <=> Out.asm # <<>>
    /\ ~Debugged => Out.text = <<>> /\ (exit = 0 => Last(Out.asm) = Tok("HALT", 0))

\* Comments, whatever stars and slashes they hold, are taken out and nothing else:
\* the parser has got the words in front of the position reached, names cut.
TokensAreUncommented ==
  rcc.text = written.text =>
    rcc.got = LET before == Cardinality({i \in DOMAIN written.places : written.places[i] < rcc.pos})
              IN  [i \in 1 .. before |-> Text(written.tokens[i])]

Writes(w) == SelectSeq(w.fun \o w.main, LAMBDA stmt : stmt[1] = "write")
Printed == LET at == {n \in DOMAIN Out.asm : Out.asm[n].t = "PRNTI"}
           IN  [k \in 1 .. Cardinality(at) |->
                  Out.asm[1 + CHOOSE n \in at : Cardinality({o \in at : o <= n}) = k]]

\* In the output file two names are one register exactly if they agree in the
\* characters that count, in whichever block they are declared or used.
SameNameSameRegister ==
  AfterRcc /\ Opened /\ exit = 0 =>
    \A i, j \in {n \in DOMAIN Writes(written) : Len(Writes(written)[n]) = 3} :
      Printed[i] = Printed[j] <=> SameStart(Writes(written)[i][2], Writes(written)[j][2])

\* A line that is what its opcode asks for, and -1 nowhere.
Allowed == [I |-> {"I"}, R |-> {"R"}, i |-> {"I", "int"}, r |-> {"R", "int", "real"}, n |-> {"int"}]
MinusOne(x) == IF x.t = "real" THEN ToInt(x.v) = -1 ELSE x.v = -1
Fits(x, kind) == kind # "-" /\ x.t \in Allowed[kind] /\ ~MinusOne(x)
Operands(words) == Tail(words)
WellFormed(words) ==
  /\ words[1].t \in Opcodes /\ Len(Operands(words)) <= 3
  /\ \A n \in 1 .. 3 : LET kind == Shape(words[1].t)[n] IN
       IF n <= Len(Operands(words)) THEN Fits(Operands(words)[n], kind) ELSE kind = "-"
Means(inst, words) ==
  /\ inst.op = words[1].t
  /\ \A n \in DOMAIN Operands(words) :
       LET x == Operands(words)[n] IN
       <<inst.a1, inst.a2, inst.a3>>[n] =
         Arg(x.t \in Constants, IF x.t = "int" /\ Shape(inst.op)[n] = "r" THEN 2 * x.v ELSE x.v)

ByHand == cmd = <<"rx", "h">> /\ fs["h"] = [text |-> <<>>, asm |-> FlattenSeq(written.hand)]
Malformed == {l \in DOMAIN written.hand : ~WellFormed(written.hand[l])}
Stop == IF Malformed = {} THEN Len(written.hand) + 1 ELSE First(Malformed)

\* rx runs a file line by line as written, if it is well-formed.  It stops at the
\* first line that is not (or, when that has a word too many, at that word), and it
\* leaves its arrays only by storing the AsmSize-th of its lines.
RunsWhatIsWritten ==
  /\ ByHand /\ phase = "rejected" => Malformed # {} /\ Len(prog) \in {Stop, Stop + 1}
  /\ ByHand /\ phase = "overrun" =>
       /\ Len(prog) = AsmSize /\ AsmSize \in DOMAIN written.hand /\ Stop >= AsmSize
       /\ prog[AsmSize].op = written.hand[AsmSize][1].t /\ prog[AsmSize].op \in Opcodes
  /\ ByHand /\ phase = "load" /\ file = <<>> =>
       /\ Malformed = {} /\ Len(prog) = Len(written.hand)
       /\ \A l \in DOMAIN prog : Means(prog[l], written.hand[l])

\* The size of the program is limited to AsmSize lines: as many can be loaded.
LinesFit == phase = "overrun" => Len(prog) > AsmSize

=============================================================================

---------------------------- MODULE ControlFlow ----------------------------
\* The one-pass translation of control flow: the LALR parser of input_parser.y
\* with the semantic actions that emit jumps and labels and backpatch them
\* (semantic_rules.cc).  One TLA+ action per bison reduction that runs code,
\* one for each group of token shifts in front of it.  The input is not a
\* variable: every choice of an action is a choice of the next tokens, so the
\* behaviours are the parses of all the programs of at most MaxSize tokens.
\*
\* Symbols, types, registers and constant propagation do not influence which
\* labels and jumps are emitted; expressions keep only whether they call the
\* function.
EXTENDS CodeBlock

CONSTANTS
  MaxSize,   \* bound: tokens that open a construct in one program
  Tokens     \* the optional constructs the programs may use

ASSUME SizeAssumption == MaxSize \in Nat
ASSUME TokensAssumption ==
  Tokens \subseteq {"FUNCTION", "RETURN", "CALL", "IF", "FOR", "WHILE",
                    "NOT", "LPAREN", "AND", "OR", "INVERSE"}

VARIABLES
  emit,              \* the global code block "emit" and the label symbols
  stack,             \* bison's stack of grammar symbols with their values
  stmt_has_nextlist, \* static flag of input_parser.y
  noElse,            \* the lookahead token is known not to be ELSE
  func,              \* "none", "current" (currentFunc # NULL), "known"
  lrTouched,         \* LR is mirrored in currentScope->regUsage
  size,              \* tokens so far; also numbers the pieces of source
  status             \* "parsing", "done", "error" (diagnosed), "bug"

vars == <<emit, stack, stmt_has_nextlist, noElse, func, lrTouched, size, status>>

\* ---- the parser stack -----------------------------------------------------

\* A stack entry: the grammar symbol (a marker with the place it stands in,
\* which is what bison's LR state knows) and the fields of its %union value.
\* An empty set is a NULL CBPList; label 0 is a NULL label.
ListNames == {"nextlist", "retlist", "truelist", "falselist", "dest"}

Symbols ==
  {"m2", "func_arg", "function", "m4", "program", "m0", "list", "m6", "blk",
   "stmt", "assn", "return", "cntrl", "IF", "FOR", "WHILE", "m5.else", "m5.for",
   "m1.then", "m1.else", "m1.cond", "m1.update", "m1.body", "m1.loop", "m1.do",
   "m1.or", "m1.and", "bexp", "bterm", "bfac", "bpfac", "NOT", "LPAREN"}

Entry == [sym : Symbols, nextlist : SUBSET Nat, retlist : SUBSET Nat,
          truelist : SUBSET Nat, falselist : SUBSET Nat, dest : SUBSET Nat,
          label : Nat]

Plain(s) == [sym |-> s, nextlist |-> {}, retlist |-> {}, truelist |-> {},
             falselist |-> {}, dest |-> {}, label |-> 0]

Marker(s, l, d) == [sym |-> s, nextlist |-> {}, retlist |-> {}, truelist |-> {},
                    falselist |-> {}, dest |-> d, label |-> l]
Bool(s, t, f) == [sym |-> s, nextlist |-> {}, retlist |-> {}, truelist |-> t,
                  falselist |-> f, dest |-> {}, label |-> 0]
Stmt(s, n, r) == [sym |-> s, nextlist |-> n, retlist |-> r, truelist |-> {},
                  falselist |-> {}, dest |-> {}, label |-> 0]

\* The default action $$ = $1 of a unit production.
As(s, e) == [e EXCEPT !.sym = s]

\* The k-th value from the top, $n of a rule of length n being Val(1).
Val(k) == stack[Len(stack) - k + 1]

\* The symbols on top of the stack are those of rhs, in order.
OnTop(rhs) ==
  /\ Len(rhs) <= Len(stack)
  /\ \A i \in DOMAIN rhs : stack[Len(stack) - Len(rhs) + i].sym = rhs[i]

Shift(e) == stack' = Append(stack, e)
Reduce(k, e) == stack' = Append(SubSeq(stack, 1, Len(stack) - k), e)

\* Where a statement, respectively an operand of a condition, may begin.
StmtContext == {"m6", "m1.then", "m1.else", "FOR", "m1.update", "m1.body", "m1.do"}
BoolContext == {"IF", "m1.cond", "m1.loop", "m1.or", "m1.and", "NOT", "LPAREN"}

ExpectStmt == stack # <<>> /\ Val(1).sym \in StmtContext
ExpectBool == stack # <<>> /\ Val(1).sym \in BoolContext

\* The places of marker m1 in the rules of cntrl, bexp and bterm.
M1Sites ==
  { <<<<"IF", "bexp">>, "m1.then">>,
    <<<<"IF", "bexp", "m1.then", "stmt", "m5.else">>, "m1.else">>,
    <<<<"FOR", "stmt">>, "m1.cond">>,
    <<<<"FOR", "stmt", "m1.cond", "bexp">>, "m1.update">>,
    <<<<"m1.update", "stmt", "m5.for">>, "m1.body">>,
    <<<<"WHILE">>, "m1.loop">>,
    <<<<"m1.loop", "bexp">>, "m1.do">>,
    <<<<"bexp">>, "m1.or">>,
    <<<<"bterm">>, "m1.and">> }

\* The sites the explored part of the language reaches.
ActiveSites ==
  {site \in M1Sites : /\ site[2] = "m1.or" => "OR" \in Tokens
                      /\ site[2] = "m1.and" => "AND" \in Tokens}

\* ---- the status of the compilation ------------------------------------------

Parsing == status = "parsing"

\* A BUG_IF of the emitter ends the compilation with an internal error.
Continue(b) ==
  /\ emit' = b
  /\ status' = IF b.ok THEN "parsing" ELSE "bug"

Room == size < MaxSize
Count == size' = size + 1

\* ---- program, function, main ------------------------------------------------

\* m2: jump around the function; its label is the prologue's splice marker.
\* The skip label stays open in "dest" until the function is reduced.
M2 ==
  /\ Parsing /\ stack = <<>> /\ Room /\ "FUNCTION" \in Tokens
  /\ LET skip == FreshLabel(emit)
         prologue == skip + 1
     IN  /\ Continue(Label(Ujump(NewLabel(NewLabel(emit)), skip), prologue))
         /\ Shift(Marker("m2", prologue, {skip}))
  /\ Count
  /\ UNCHANGED <<stmt_has_nextlist, noElse, func, lrTouched>>

\* func_ret and func_arg: "@function" becomes the current function and a name
\* of the scope.
FuncHeader ==
  /\ Parsing /\ OnTop(<<"m2">>)
  /\ Shift(Plain("func_arg"))
  /\ func' = "current"
  /\ UNCHANGED <<emit, stmt_has_nextlist, noElse, lrTouched, size, status>>

\* function : m2 func_ret func_arg blk -- prologue, epilogue, skip label.
Function ==
  /\ Parsing /\ OnTop(<<"m2", "func_arg", "blk">>)
  /\ LET m2 == Val(3)
         blk == Val(1)
         leave == FreshLabel(emit)
         save == <<Inst("SAVE", 0, IF lrTouched THEN 1 ELSE 0)>>
         spliced == Splice(emit, m2.label, save)
         left == IF blk.nextlist \cup blk.retlist = {}
                 THEN spliced
                 ELSE BackpatchIfAny(BackpatchIfAny(Mark(spliced), blk.nextlist, leave),
                                     blk.retlist, leave)
         epilogue == Emit(Emit(left, Inst("RESTORE", 0, IF lrTouched THEN 1 ELSE 0)),
                          Inst("RETRN", 0, 0))
     IN  Continue(Label(epilogue, CHOOSE l \in m2.dest : TRUE))
  /\ Reduce(3, Plain("function"))
  /\ UNCHANGED <<stmt_has_nextlist, noElse, func, lrTouched, size>>

\* function : eps
NoFunction ==
  /\ Parsing /\ stack = <<>>
  /\ Shift(Plain("function"))
  /\ UNCHANGED <<emit, stmt_has_nextlist, noElse, func, lrTouched, size, status>>

\* m4: main_init() clears FP and SP.
M4 ==
  /\ Parsing /\ OnTop(<<"function">>)
  /\ Continue(Emit(Emit(emit, Inst("COPYI", 0, 0)), Inst("COPYI", 0, 0)))
  /\ Shift(Plain("m4"))
  /\ UNCHANGED <<stmt_has_nextlist, noElse, func, lrTouched, size>>

\* main_function : m4 PROGRAM blk -- a return outside of the function is an
\* error; jumps to the end of the program are patched to a label before HALT.
MainFunction ==
  /\ Parsing /\ OnTop(<<"function", "m4", "blk">>)
  /\ LET blk == Val(1)
         ended == IF blk.nextlist = {} THEN emit
                  ELSE Backpatch(Mark(emit), blk.nextlist, FreshLabel(emit))
     IN  IF blk.retlist # {}
         THEN status' = "error" /\ UNCHANGED emit
         ELSE /\ emit' = Emit(ended, Inst("HALT", 0, 0))
              /\ status' = IF ended.ok THEN "done" ELSE "bug"
  /\ Reduce(3, Plain("program"))
  /\ UNCHANGED <<stmt_has_nextlist, noElse, func, lrTouched, size>>

\* yyerror(), scanner_error() and the CCompilationExceptions of names and
\* types: the compilation is abandoned and its state is gone with the process.
CompileError ==
  /\ Parsing
  /\ status' = "error"
  /\ emit' = EmptyBlock /\ stack' = <<>>
  /\ stmt_has_nextlist' = FALSE /\ noElse' = FALSE /\ lrTouched' = FALSE
  /\ func' = "none" /\ size' = 0

\* ---- blocks and statement lists -------------------------------------------

\* blk : m0 declarations BEGIN -- blk_enter() loads the two arguments when
\* this is the body of the function; then list : eps.
OpenBlk ==
  /\ Parsing /\ Room
  /\ ExpectStmt \/ OnTop(<<"m2", "func_arg">>) \/ OnTop(<<"function", "m4">>)
  /\ IF func = "current"
     THEN /\ Continue(Emit(Emit(emit, Inst("LOADI", 0, 0)), Inst("LOADI", 0, 0)))
          /\ func' = "known"
     ELSE UNCHANGED <<emit, status, func>>
  /\ stack' = Append(Append(stack, Plain("m0")), Plain("list"))
  /\ Count /\ noElse' = FALSE
  /\ UNCHANGED <<stmt_has_nextlist, lrTouched>>

\* m6: a label in front of the next statement, only if the last statement
\* left a nextlist.
M6 ==
  /\ Parsing /\ OnTop(<<"list">>) /\ Room
  /\ IF stmt_has_nextlist
     THEN Continue(Mark(emit)) /\ Shift(Marker("m6", FreshLabel(emit), {}))
     ELSE UNCHANGED <<emit, status>> /\ Shift(Plain("m6"))
  /\ stmt_has_nextlist' = FALSE
  /\ UNCHANGED <<noElse, func, lrTouched, size>>

\* list : list m6 stmt
ReduceList ==
  /\ Parsing /\ OnTop(<<"list", "m6", "stmt">>)
  /\ Continue(BackpatchIfAny(emit, Val(3).nextlist, Val(2).label))
  /\ Reduce(3, Stmt("list", Val(1).nextlist, Val(3).retlist \cup Val(1).retlist))
  /\ UNCHANGED <<stmt_has_nextlist, noElse, func, lrTouched, size>>

\* blk : m0 declarations BEGIN list END
CloseBlk ==
  /\ Parsing /\ OnTop(<<"m0", "list">>)
  /\ Reduce(2, As("blk", Val(1)))
  /\ noElse' = FALSE
  /\ UNCHANGED <<emit, stmt_has_nextlist, func, lrTouched, size, status>>

\* Mutant: the flag for m6 is set only when it was set before.
StmtUnitFlagLost ==
  /\ Parsing
  /\ \E s \in {"assn", "cntrl", "return", "blk"}, c \in StmtContext : OnTop(<<c, s>>)
  /\ Reduce(1, As("stmt", Val(1)))
  /\ stmt_has_nextlist' = (stmt_has_nextlist /\ Val(1).nextlist # {})
  /\ UNCHANGED <<emit, noElse, func, lrTouched, size, status>>

\* stmt : assn | cntrl | read | write | return | blk
StmtUnit ==
  /\ Parsing
  /\ \E s \in {"assn", "cntrl", "return", "blk"}, c \in StmtContext : OnTop(<<c, s>>)
  /\ Reduce(1, As("stmt", Val(1)))
  /\ stmt_has_nextlist' = (Val(1).nextlist # {})
  /\ UNCHANGED <<emit, noElse, func, lrTouched, size, status>>

\* ---- simple statements ------------------------------------------------------

\* An expression that calls the function emits JLINK and touches LR; it is an
\* error when there is no function.
Exps == IF func = "none" \/ "CALL" \notin Tokens THEN {"pure"} ELSE {"pure", "call"}

EmitExp(b, e) == IF e = "call" THEN Emit(b, Inst("JLINK", 0, size)) ELSE b

\* Mutant: exp_call() does not touch LR.
TouchLRNever(e) == UNCHANGED lrTouched
TouchLR(e) == lrTouched' = (lrTouched \/ e = "call")

\* assn, read and write: one visible operation.
Assn(e) ==
  /\ Parsing /\ ExpectStmt /\ Room
  /\ Continue(Emit(EmitExp(emit, e), Inst("OP", 0, size)))
  /\ TouchLR(e)
  /\ Shift(Plain("assn"))
  /\ Count /\ noElse' = FALSE
  /\ UNCHANGED <<stmt_has_nextlist, func>>

\* return_exp(): store the value, jump to a label that is still to come.
Return(e) ==
  /\ Parsing /\ ExpectStmt /\ Room
  /\ func = "known" /\ "RETURN" \in Tokens
  /\ LET stored == Emit(EmitExp(emit, e), Inst("OP", 0, size))
     IN  /\ Continue(JumpFresh(stored))
         /\ Shift(Stmt("return", {}, {FreshLabel(stored)}))
  /\ TouchLR(e)
  /\ Count /\ noElse' = FALSE
  /\ UNCHANGED <<stmt_has_nextlist, func>>

\* ---- conditions -------------------------------------------------------------

\* bpfac : exp RELOP exp -- bpfac_relOp(): two jumps to two labels that are
\* still to come.  For <= and >= the emitted comparison is the negation and
\* the roles of the labels are swapped.
RelOp(e, inverse) ==
  /\ Parsing /\ ExpectBool /\ Room
  /\ LET truelabel == FreshLabel(emit)
         falselabel == truelabel + 1
         two == EmitExp(NewLabel(NewLabel(emit)), e)
         straight == Ujump(Emit(Emit(two, Inst("CMP", 0, size)),
                                Inst("BREQZ", falselabel, 0)), truelabel)
         negated == Ujump(Emit(Emit(two, Inst("CMPN", 0, size)),
                               Inst("BNEQZ", truelabel, 0)), falselabel)
     IN  IF inverse
         THEN Continue(negated) /\ Shift(Bool("bpfac", {falselabel}, {truelabel}))
         ELSE Continue(straight) /\ Shift(Bool("bpfac", {truelabel}, {falselabel}))
  /\ TouchLR(e)
  /\ Count /\ noElse' = FALSE
  /\ UNCHANGED <<stmt_has_nextlist, func>>

\* NOT and the parenthesis of a condition.
ShiftBool ==
  /\ Parsing /\ ExpectBool /\ Room
  /\ \E t \in {"NOT", "LPAREN"} \cap Tokens : Shift(Plain(t))
  /\ Count /\ noElse' = FALSE
  /\ UNCHANGED <<emit, stmt_has_nextlist, func, lrTouched, status>>

\* bfac : bpfac, bterm : bfac, bexp : bterm
BoolUnit ==
  /\ Parsing
  /\ \/ OnTop(<<"bpfac">>) /\ Reduce(1, As("bfac", Val(1)))
     \/ /\ OnTop(<<"bfac">>) /\ ~OnTop(<<"NOT", "bfac">>) /\ ~OnTop(<<"m1.and", "bfac">>)
        /\ Reduce(1, As("bterm", Val(1)))
     \/ /\ OnTop(<<"bterm">>) /\ ~OnTop(<<"m1.or", "bterm">>)
        /\ Reduce(1, As("bexp", Val(1)))
  /\ UNCHANGED <<emit, stmt_has_nextlist, noElse, func, lrTouched, size, status>>

\* bpfac : LPAREN bexp RPAREN
Paren ==
  /\ Parsing /\ OnTop(<<"LPAREN", "bexp">>)
  /\ Reduce(2, As("bpfac", Val(1)))
  /\ UNCHANGED <<emit, stmt_has_nextlist, noElse, func, lrTouched, size, status>>

\* Mutant: NOT copies one list twice.
NotAliased ==
  /\ Parsing /\ OnTop(<<"NOT", "bfac">>)
  /\ Reduce(2, Bool("bfac", Val(1).falselist, Val(1).falselist))
  /\ UNCHANGED <<emit, stmt_has_nextlist, noElse, func, lrTouched, size, status>>

\* bfac : NOT bfac
Not ==
  /\ Parsing /\ OnTop(<<"NOT", "bfac">>)
  /\ Reduce(2, Bool("bfac", Val(1).falselist, Val(1).truelist))
  /\ UNCHANGED <<emit, stmt_has_nextlist, noElse, func, lrTouched, size, status>>

\* Mutant: AND patches the list of its right operand.
AndWrongOperand ==
  /\ Parsing /\ OnTop(<<"bterm", "m1.and", "bfac">>)
  /\ Continue(Backpatch(emit, Val(1).truelist, Val(2).label))
  /\ Reduce(3, Bool("bterm", Val(1).truelist, Val(3).falselist \cup Val(1).falselist))
  /\ UNCHANGED <<stmt_has_nextlist, noElse, func, lrTouched, size>>

\* bterm : bterm AND m1 bfac
And ==
  /\ Parsing /\ OnTop(<<"bterm", "m1.and", "bfac">>)
  /\ Continue(Backpatch(emit, Val(3).truelist, Val(2).label))
  /\ Reduce(3, Bool("bterm", Val(1).truelist, Val(3).falselist \cup Val(1).falselist))
  /\ UNCHANGED <<stmt_has_nextlist, noElse, func, lrTouched, size>>

\* Mutant: OR goes on with the right operand when the left one is true.
OrSwapped ==
  /\ Parsing /\ OnTop(<<"bexp", "m1.or", "bterm">>)
  /\ Continue(Backpatch(emit, Val(3).truelist, Val(2).label))
  /\ Reduce(3, Bool("bexp", Val(3).falselist \cup Val(1).truelist, Val(1).falselist))
  /\ UNCHANGED <<stmt_has_nextlist, noElse, func, lrTouched, size>>

\* bexp : bexp OR m1 bterm
Or ==
  /\ Parsing /\ OnTop(<<"bexp", "m1.or", "bterm">>)
  /\ Continue(Backpatch(emit, Val(3).falselist, Val(2).label))
  /\ Reduce(3, Bool("bexp", Val(3).truelist \cup Val(1).truelist, Val(1).falselist))
  /\ UNCHANGED <<stmt_has_nextlist, noElse, func, lrTouched, size>>

\* ---- control statements -----------------------------------------------------

ShiftCntrl ==
  /\ Parsing /\ ExpectStmt /\ Room
  /\ \E t \in {"IF", "FOR", "WHILE"} \cap Tokens : Shift(Plain(t))
  /\ Count /\ noElse' = FALSE
  /\ UNCHANGED <<emit, stmt_has_nextlist, func, lrTouched, status>>

\* m1: a label here.
M1 ==
  /\ Parsing
  /\ \E site \in ActiveSites : /\ OnTop(site[1])
                           /\ Shift(Marker(site[2], FreshLabel(emit), {}))
  /\ Continue(Mark(emit))
  /\ noElse' = FALSE
  /\ UNCHANGED <<stmt_has_nextlist, func, lrTouched, size>>

\* m5: a jump to a label still to come, after the THEN branch when an ELSE
\* follows (a nested IF takes the ELSE first) and after the update of a FOR.
M5 ==
  /\ Parsing
  /\ Continue(JumpFresh(emit))
  /\ \/ /\ OnTop(<<"IF", "bexp", "m1.then", "stmt">>) /\ ~noElse
        /\ Shift(Marker("m5.else", 0, {FreshLabel(emit)}))
     \/ /\ OnTop(<<"m1.update", "stmt">>)
        /\ Shift(Marker("m5.for", 0, {FreshLabel(emit)}))
  /\ noElse' = FALSE
  /\ UNCHANGED <<stmt_has_nextlist, func, lrTouched, size>>

\* enforce_valid_nextlist(): a statement that may fall through gets a jump.
\* Mutant: the list is made, the jump is not emitted.
EnforcedSilently(b, nextlist) == IF nextlist = {} THEN NewLabel(b) ELSE b
Enforced(b, nextlist) == IF nextlist = {} THEN JumpFresh(b) ELSE b
\* Mutant: the new jump is emitted, the list stays NULL.
EnforcedListNull(b, nextlist) == nextlist
EnforcedList(b, nextlist) == IF nextlist = {} THEN {FreshLabel(b)} ELSE nextlist

\* cntrl : IF bexp THEN m1 stmt ELSE m5 m1 stmt
IfElse ==
  /\ Parsing /\ OnTop(<<"IF", "bexp", "m1.then", "stmt", "m5.else", "m1.else", "stmt">>)
  /\ LET bexp == Val(6)
         patched == Backpatch(Backpatch(emit, bexp.truelist, Val(5).label),
                              bexp.falselist, Val(2).label)
         nextlist == Val(3).dest \cup Val(4).nextlist
                       \cup EnforcedList(patched, Val(1).nextlist)
     IN  /\ Continue(Enforced(patched, Val(1).nextlist))
         /\ Reduce(7, Stmt("cntrl", nextlist, Val(4).retlist \cup Val(1).retlist))
  /\ UNCHANGED <<stmt_has_nextlist, noElse, func, lrTouched, size>>

\* cntrl : IF bexp THEN m1 stmt -- reduced when the lookahead is not ELSE.
IfThen ==
  /\ Parsing /\ OnTop(<<"IF", "bexp", "m1.then", "stmt">>)
  /\ LET bexp == Val(3)
         patched == Backpatch(emit, bexp.truelist, Val(2).label)
     IN  /\ Continue(Enforced(patched, Val(1).nextlist))
         /\ Reduce(4, Stmt("cntrl", bexp.falselist \cup EnforcedList(patched, Val(1).nextlist),
                           Val(1).retlist))
  /\ noElse' = TRUE
  /\ UNCHANGED <<stmt_has_nextlist, func, lrTouched, size>>

\* Mutant: a control statement in the update leads back to the update, not to the
\* condition.
ForRepeatsUpdate ==
  /\ Parsing
  /\ OnTop(<<"FOR", "stmt", "m1.cond", "bexp", "m1.update", "stmt", "m5.for", "m1.body", "stmt">>)
  /\ LET init == Val(8)
         cond == Val(7).label
         bexp == Val(6)
         update == Val(4)
         body == Val(1)
         entered == Backpatch(BackpatchIfAny(emit, init.nextlist, cond),
                              bexp.truelist, Val(2).label)
         looped == Backpatch(Enforced(entered, body.nextlist),
                             EnforcedList(entered, body.nextlist), Val(5).label)
     IN  /\ Continue(BackpatchIfAny(Backpatch(looped, Val(3).dest, cond), update.nextlist, Val(5).label))
         /\ Reduce(9, Stmt("cntrl", bexp.falselist,
                           init.retlist \cup update.retlist \cup body.retlist))
  /\ UNCHANGED <<stmt_has_nextlist, noElse, func, lrTouched, size>>

\* cntrl : FOR LPAREN stmt m1 bexp SEMICOLON m1 stmt m5 RPAREN m1 stmt
For ==
  /\ Parsing
  /\ OnTop(<<"FOR", "stmt", "m1.cond", "bexp", "m1.update", "stmt", "m5.for", "m1.body", "stmt">>)
  /\ LET init == Val(8)
         cond == Val(7).label
         bexp == Val(6)
         update == Val(4)
         body == Val(1)
         entered == Backpatch(BackpatchIfAny(emit, init.nextlist, cond),
                              bexp.truelist, Val(2).label)
         looped == Backpatch(Enforced(entered, body.nextlist),
                             EnforcedList(entered, body.nextlist), Val(5).label)
     IN  /\ Continue(Backpatch(looped, Val(3).dest \cup update.nextlist, cond))
         /\ Reduce(9, Stmt("cntrl", bexp.falselist,
                           init.retlist \cup update.retlist \cup body.retlist))
  /\ UNCHANGED <<stmt_has_nextlist, noElse, func, lrTouched, size>>

\* cntrl : WHILE m1 bexp DO m1 stmt
While ==
  /\ Parsing /\ OnTop(<<"WHILE", "m1.loop", "bexp", "m1.do", "stmt">>)
  /\ LET bexp == Val(3)
         body == Val(1)
         entered == Backpatch(emit, bexp.truelist, Val(2).label)
     IN  /\ Continue(Backpatch(Enforced(entered, body.nextlist),
                               EnforcedList(entered, body.nextlist), Val(4).label))
         /\ Reduce(5, Stmt("cntrl", bexp.falselist, body.retlist))
  /\ UNCHANGED <<stmt_has_nextlist, noElse, func, lrTouched, size>>

\* ---- the parser -------------------------------------------------------------

Init ==
  /\ emit = EmptyBlock /\ stack = <<>>
  /\ stmt_has_nextlist = FALSE /\ noElse = FALSE /\ lrTouched = FALSE
  /\ func = "none" /\ size = 0 /\ status = "parsing"

\* The process has exited.
Finished == ~Parsing /\ UNCHANGED vars

\* Tokens that carry an expression, and every other step of the parser.
Operation(e) ==
  \/ Assn(e) \/ Return(e)
  \/ \E inverse \in {FALSE} \cup {"INVERSE" \in Tokens} : RelOp(e, inverse)

Rule ==
  \/ M2 \/ FuncHeader \/ Function \/ NoFunction \/ M4 \/ MainFunction
  \/ OpenBlk \/ M6 \/ ReduceList \/ CloseBlk \/ StmtUnit
  \/ ShiftBool \/ BoolUnit \/ Paren \/ Not \/ And \/ Or
  \/ ShiftCntrl \/ M1 \/ M5 \/ IfElse \/ IfThen \/ For \/ While
  \/ CompileError

Next == Rule \/ Finished \/ \E e \in Exps : Operation(e)

Spec == Init /\ [][Next]_vars

\* ---- properties ---------------------------------------------------------------

TypeOK ==
  /\ emit \in Block
  /\ stack \in Seq(Entry)
  /\ stmt_has_nextlist \in BOOLEAN /\ noElse \in BOOLEAN /\ lrTouched \in BOOLEAN
  /\ func \in {"none", "current", "known"}
  /\ size \in Nat
  /\ status \in {"parsing", "done", "error", "bug"}

\* No semantic action ever backpatches through a NULL list or to a NULL label,
\* overrides a patched label, or fails to find the splice marker: none of the
\* BUG_IFs of Patch() (symbol.cc:109) and Splice() (code.cc:66) can fire, and
\* the unchecked "->Backpatch" calls of input_parser.y are safe.
NoInternalBug == status # "bug"

\* When the compiler writes its output, every jump goes to a label that was
\* emitted; otherwise operator<< (symbol.cc:126) would print a label's name
\* where the emulator expects an address.
JumpsResolved ==
  status = "done" => \A l \in Targets(emit) : Resolves(emit, l)

\* No label is emitted twice: CalcLabelAddress (code.cc:80) would give it the
\* address of the later one only.
LabelsUnique ==
  \A i \in DOMAIN emit.code : emit.code[i].op = "LABEL" =>
    \A j \in DOMAIN emit.code \ {i} :
      ~ (emit.code[j].op = "LABEL" /\ emit.code[j].label = emit.code[i].label)

\* A label waits for its target in at most one list of at most one value on
\* the stack, and it is neither emitted nor patched while it waits: merging
\* and patching consume lists (backpatch.cc) and must not share labels.
OpenListsDisjoint ==
  \A i \in DOMAIN stack, m \in ListNames : \A l \in stack[i][m] :
    /\ emit.next[l] = 0 /\ l \notin Defined(emit)
    /\ \A j \in DOMAIN stack, n \in ListNames :
         l \in stack[j][n] => i = j /\ m = n

\* Every jump emitted so far is accounted for while parsing: it resolves, or
\* its label waits in a list of the stack.  A list dropped by a semantic
\* action would lose a jump here, long before the output is written.
NoJumpLost ==
  Parsing => \A l \in Targets(emit) :
               \/ Resolves(emit, l)
               \/ \E i \in DOMAIN stack, n \in ListNames : l \in stack[i][n]

\* Control never falls off the end of a condition, nor off the end of a
\* statement that left a nextlist: the code before the next label ends in a
\* jump, which is why m6, not the fall-through, decides where it goes on.
NoFallThrough ==
  Parsing /\ stack # <<>> =>
    LET top == stack[Len(stack)]
    IN  top.truelist \cup top.falselist \cup top.nextlist # {} =>
          /\ emit.code # <<>>
          /\ emit.code[Len(emit.code)].op = "UJUMP"

\* A patched label keeps its target (CSymbol::Patch is "write once"), although
\* AddNext() resets the m_next of whatever label it is patched to.
PatchIsWriteOnce ==
  [][status' # "error" =>
       \A l \in DOMAIN emit.next : emit.next[l] # 0 => emit'.next[l] = emit.next[l]]_vars

=============================================================================

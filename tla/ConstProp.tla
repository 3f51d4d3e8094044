------------------------------ MODULE ConstProp ------------------------------
\* Constant propagation (rcc -const): what the compiler knows about the values
\* of variables inside a basic block, and what the code it emits computes.
\* arithOp(), assnOp() and StopConstPropagation() of semantic_rules.cc, the
\* value status of CSymbol (symbol.cc), calc() (calc.cc).
\*
\* The actions are the semantic actions in the order the parser runs them, which
\* inside a basic block is also the order in which the emitted code runs.  The
\* model therefore carries two memories: "mem" is what the emitted code stores,
\* "ideal" what the source says.  Numbers are counted in halves so that the
\* literal 2.5 exists; only + and - are modelled.
EXTENDS Integers, Sequences, FiniteSets

CONSTANTS
  Vars,       \* the declared variables
  RealVars,   \* those of type real
  Literals,   \* numbers that occur in the source: [type, half]
  Ops,        \* subset of {"+", "-"}
  MaxHalf,    \* bound on the magnitude of numbers, in halves
  MaxSteps    \* bound on the semantic actions of one program

ASSUME ConstPropAssumption ==
  /\ RealVars \subseteq Vars
  /\ Ops \subseteq {"+", "-"}
  /\ MaxHalf \in Nat /\ MaxSteps \in Nat
  /\ \A l \in Literals : /\ l.type \in {"INTEGER", "REAL"} /\ l.half \in 0 .. MaxHalf
                         /\ l.type = "INTEGER" => l.half % 2 = 0

VARIABLES
  status,   \* m_valueStatus of each variable: "INVALID" or "VALID"
  value,    \* m_value of each variable
  pending,  \* the queue constPropagationPending
  exp,      \* $$.place of the expression being reduced, <<>> between statements
  mem,      \* what the emitted code has stored in the variable's register
  ideal,    \* what the source says the variable holds
  kept,     \* history: no unknown value has been stored in a known variable
  sums,     \* history: only integers have been named or read, and only + applied
  steps

vars == <<status, value, pending, exp, mem, ideal, kept, sums, steps>>

\* ---- numbers as text ----------------------------------------------------------

\* The text of a number: its type is what DiscoverType sees (a '.'), and text
\* without any digit is no operand at all for the emulator.
Number(l) == [type |-> l.type, half |-> l.half, digits |-> TRUE]
NoDigits == [type |-> "INTEGER", half |-> 0, digits |-> FALSE]
Text == {t \in [type : {"INTEGER", "REAL"}, half : -MaxHalf .. MaxHalf, digits : BOOLEAN] :
           t.digits \/ t = NoDigits}

Type(v) == IF v \in RealVars THEN "REAL" ELSE "INTEGER"

Apply(op, a, b) == IF op = "+" THEN a + b ELSE a - b

\* bc's answer, cut at the first character that is not a digit: the minus sign of
\* a negative number, the point of a real one.
CutAnswer(half) ==
  IF half < 0 THEN NoDigits ELSE Number([type |-> "INTEGER", half |-> (half \div 2) * 2])

\* bc needs a second operand, and a first one unless "-" can be taken for its sign;
\* else it answers nothing and calc() looks at a buffer that has not been set.
Answered(op, a, b) == b.digits /\ (a.digits \/ op = "-")
Unset == {NoDigits} \cup {CutAnswer(half) : half \in 0 .. MaxHalf}

\* calc(): the texts it may return.
\* Mutant: the first operand is used twice.
CalcTwice(op, a, b) ==
  IF Answered(op, a, a) THEN {CutAnswer(Apply(op, a.half, a.half))} ELSE Unset
Calc(op, a, b) ==
  IF Answered(op, a, b) THEN {CutAnswer(Apply(op, a.half, b.half))} ELSE Unset

\* ---- places -------------------------------------------------------------------

\* The symbol an expression is reduced to: a variable, a constant or a
\* temporary; "run" is what the emitted code finds there, "should" what the
\* source means.  With a constant that has no digits the code finds nothing (rx
\* takes no such file); it counts as 0.
VarPlace(v) == [kind |-> "var", var |-> v, text |-> NoDigits,
                type |-> Type(v), run |-> mem[v], should |-> ideal[v]]
ConstPlace(t, should) == [kind |-> "const", var |-> "", text |-> t,
                          type |-> t.type, run |-> t.half, should |-> should]
TempPlace(type, run, should) == [kind |-> "temp", var |-> "", text |-> NoDigits,
                                 type |-> type, run |-> run, should |-> should]

Operands == {VarPlace(v) : v \in Vars} \cup {ConstPlace(Number(l), l.half) : l \in Literals}

\* CSymbol::ValueIsSet and GetValue
ValueIsSet(p) == p.kind = "const" \/ (p.kind = "var" /\ status[p.var] = "VALID")
GetValue(p) == IF p.kind = "const" THEN p.text ELSE value[p.var]

\* DestSymbolType
DestType(p, q) == IF p.type = "INTEGER" /\ q.type = "INTEGER" THEN "INTEGER" ELSE "REAL"

\* arithOp(): fold two known operands, else emit the instruction; the places that
\* may come of it.
ArithOp(op, p, q) ==
  LET should == Apply(op, p.should, q.should)
  IN  IF ValueIsSet(p) /\ ValueIsSet(q)
      THEN {ConstPlace(t, should) : t \in Calc(op, GetValue(p), GetValue(q))}
      ELSE {TempPlace(DestType(p, q), Apply(op, p.run, q.run), should)}

InBounds(p) == p.run \in -MaxHalf .. MaxHalf /\ p.should \in -MaxHalf .. MaxHalf

\* ---- actions --------------------------------------------------------------------

Step == steps < MaxSteps /\ steps' = steps + 1

IsSummand(p) == p.kind = "const" => p.type = "INTEGER"
IsKept(v) == kept' = (kept /\ status[v] = "INVALID")

\* factor : ID | NUM
Operand ==
  /\ Step /\ exp = <<>>
  /\ \E p \in Operands : exp' = <<p>> /\ sums' = (sums /\ IsSummand(p))
  /\ UNCHANGED <<status, value, pending, mem, ideal, kept>>

\* exp : exp ADDOP term
Arith ==
  /\ Step /\ exp # <<>>
  /\ \E op \in Ops, q \in Operands :
       /\ sums' = (sums /\ op = "+" /\ IsSummand(q))
       /\ \E r \in ArithOp(op, exp[1], q) : InBounds(r) /\ exp' = <<r>>
  /\ UNCHANGED <<status, value, pending, mem, ideal, kept>>

\* The text a variable is given, in its own type.  That of a real variable gets ".0"
\* when it has no point, even if it has no digit either.
Converted(v, t) ==
  IF t.digits \/ Type(v) = "INTEGER" THEN [t EXCEPT !.type = Type(v)]
  ELSE Number([type |-> "REAL", half |-> 0])

\* Mutants: the text is taken as it is; a known value is never replaced.
SetValueAsIs(v, t) ==
  /\ status' = [status EXCEPT ![v] = "VALID"]
  /\ value' = [value EXCEPT ![v] = t]
SetValueOnce(v, t) ==
  /\ status' = [status EXCEPT ![v] = "VALID"]
  /\ value' = IF status[v] = "VALID" THEN value
              ELSE [value EXCEPT ![v] = Converted(v, t)]

\* CSymbol::SetValue
SetValue(v, t) ==
  /\ status' = [status EXCEPT ![v] = "VALID"]
  /\ value' = [value EXCEPT ![v] = Converted(v, t)]

\* assn : ID ASSIGN exp -- assnOp(): copy, and remember a known value.  A real
\* value for an integer variable is a compile error.
Assn(v) ==
  /\ Step /\ exp # <<>>
  /\ ~ (Type(v) = "INTEGER" /\ exp[1].type = "REAL")
  /\ mem' = [mem EXCEPT ![v] = exp[1].run]
  /\ ideal' = [ideal EXCEPT ![v] = exp[1].should]
  /\ IF ValueIsSet(exp[1])
     THEN SetValue(v, GetValue(exp[1])) /\ pending' = Append(pending, v) /\ UNCHANGED kept
     ELSE IsKept(v) /\ UNCHANGED <<status, value, pending>>
  /\ exp' = <<>>
  /\ UNCHANGED sums

\* read : READ LPAREN ID RPAREN -- the instruction, and nothing else.
Read(v) ==
  /\ Step /\ exp = <<>>
  /\ IsKept(v)
  /\ \E n \in {l \in Literals : l.type = Type(v)} :
       /\ mem' = [mem EXCEPT ![v] = n.half] /\ ideal' = [ideal EXCEPT ![v] = n.half]
       /\ sums' = (sums /\ n.type = "INTEGER")
  /\ UNCHANGED <<status, value, pending, exp>>

\* Mutants: only the first symbol of the queue is discarded; the queue is
\* emptied and the symbols keep their values.
StopConstPropagationClears == UNCHANGED status /\ pending' = <<>>
StopConstPropagationOnce ==
  /\ status' = [v \in Vars |-> IF pending # <<>> /\ v = pending[1]
                               THEN "INVALID" ELSE status[v]]
  /\ pending' = IF pending = <<>> THEN pending ELSE Tail(pending)

\* StopConstPropagation()
StopConstPropagation ==
  /\ status' = [v \in Vars |-> IF \E i \in DOMAIN pending : pending[i] = v
                               THEN "INVALID" ELSE status[v]]
  /\ pending' = <<>>

\* jlink: a call inside an expression or a statement; the callee restores every
\* register it touches.
Call ==
  /\ Step
  /\ StopConstPropagation
  /\ UNCHANGED <<value, exp, mem, ideal, kept, sums>>

\* ujump, breqz, bneqz, label: the end of the basic block.  Control may arrive
\* at the next one from elsewhere, with other values in the variables.
Boundary ==
  /\ Step /\ exp = <<>>
  /\ StopConstPropagation
  /\ \E m \in [Vars -> {l.half : l \in {n \in Literals : n.type = "INTEGER"}}] :
       mem' = m /\ ideal' = m
  /\ UNCHANGED <<value, exp, kept, sums>>

Init ==
  /\ status = [v \in Vars |-> "INVALID"]
  /\ value = [v \in Vars |-> NoDigits]
  /\ pending = <<>> /\ exp = <<>>
  /\ mem = [v \in Vars |-> 0] /\ ideal = mem
  /\ kept = TRUE /\ sums = TRUE
  /\ steps = 0

Next == \/ Operand \/ Arith \/ Call \/ Boundary
        \/ \E v \in Vars : Assn(v) \/ Read(v)

Spec == Init /\ [][Next]_vars

\* ---- properties -------------------------------------------------------------------

TypeOK ==
  /\ status \in [Vars -> {"INVALID", "VALID"}]
  /\ value \in [Vars -> Text]
  /\ \A v \in Vars : status[v] = "VALID" => value[v].type = Type(v)
  /\ pending \in Seq(Vars)
  /\ mem \in [Vars -> -MaxHalf .. MaxHalf] /\ ideal \in [Vars -> -MaxHalf .. MaxHalf]
  /\ kept \in BOOLEAN /\ sums \in BOOLEAN
  /\ steps \in 0 .. MaxSteps

\* Whatever the compiler knows will be forgotten at the end of the basic block:
\* a known variable is always in the queue StopConstPropagation() empties.
KnownIsPending ==
  \A v \in Vars : status[v] = "VALID" => \E i \in DOMAIN pending : pending[i] = v

\* "Upon jump instruction or label symbol values are discarded": no variable is
\* known at the beginning of a basic block.
NothingKnownInNewBlock ==
  [][Boundary => \A v \in Vars : status'[v] = "INVALID"]_vars

\* As long as no unknown value has been stored in a known variable, the value the
\* compiler knows is the value the emitted code has stored.
KnownIsStored ==
  kept => \A v \in Vars : status[v] = "VALID" => value[v].half = mem[v]

\* Folding does not change the program: what the emitted code stores is what
\* the source says, and every folded operand can be read back by the emulator.
FoldingIsRight ==
  /\ mem = ideal
  /\ exp # <<>> /\ exp[1].kind = "const" => exp[1].text.digits

\* So it is as long as the program does without what calc() and assnOp() get
\* wrong: it adds integers and keeps what is known.
FoldingKeepsMeaning == kept /\ sums => FoldingIsRight

=============================================================================

--------------------------- MODULE ConstPropProofs ---------------------------
\* Proofs about constant propagation, for any variables, literals and bounds.
EXTENDS ConstProp, TLAPS

Bounded == -MaxHalf .. MaxHalf

Place == [kind : {"var", "const", "temp"}, var : Vars \cup {""}, text : Text,
          type : {"INTEGER", "REAL"}, run : Bounded, should : Bounded]

\* What $$.place may hold: at most one place; a variable's place names it.
PlaceOK ==
  \/ exp = <<>>
  \/ \E p \in Place : exp = <<p>> /\ (p.kind = "var" => p.var \in Vars)

TypeInv == TypeOK /\ PlaceOK

\* The empty text.
LEMMA NoDigitsType ==
  NoDigits \in Text /\ 0 \in Bounded /\ NoDigits.type = "INTEGER" /\ NoDigits.half = 0
  BY ConstPropAssumption DEF Text, Bounded, NoDigits

\* The type of a text.
LEMMA TextType == ASSUME NEW t \in Text PROVE t.type \in {"INTEGER", "REAL"}
  BY DEF Text

\* The number a text stands for.
LEMMA NumberType ==
  ASSUME NEW l \in Literals
  PROVE  Number(l) \in Text /\ l.half \in Bounded /\ l.half \in Nat
         /\ Number(l).half = l.half
  BY ConstPropAssumption DEF Number, Text, Bounded

\* An operand of an expression is a place.
LEMMA OperandType ==
  ASSUME TypeOK, NEW p \in Operands
  PROVE  p \in Place /\ (p.kind = "var" => p.var \in Vars)
  <1>1. CASE \E v \in Vars : p = VarPlace(v)
    <2>1. PICK v \in Vars : p = VarPlace(v)
      BY <1>1
    <2>2. mem[v] \in Bounded /\ ideal[v] \in Bounded /\ Type(v) \in {"INTEGER", "REAL"}
      BY DEF TypeOK, Type, Bounded
    <2> QED BY <2>1, <2>2, NoDigitsType DEF VarPlace, Place
  <1>2. CASE \E l \in Literals : p = ConstPlace(Number(l), l.half)
    <2>1. PICK l \in Literals : p = ConstPlace(Number(l), l.half)
      BY <1>2
    <2>2. Number(l).type \in {"INTEGER", "REAL"}
      BY NumberType, TextType
    <2> QED BY <2>1, <2>2, NumberType DEF ConstPlace, Place
  <1> QED BY <1>1, <1>2 DEF Operands

\* bc's answer is text when it stays within the bounds.
LEMMA CutType ==
  ASSUME NEW half, CutAnswer(half).half \in Bounded
  PROVE  CutAnswer(half) \in Text
  <1> DEFINE h == (half \div 2) * 2
  <1>1. CutAnswer(half) = IF half < 0 THEN NoDigits
                          ELSE [type |-> "INTEGER", half |-> h, digits |-> TRUE]
    BY DEF CutAnswer, Number
  <1>2. CASE half < 0
    BY <1>1, <1>2, NoDigitsType
  <1>3. CASE ~ (half < 0)
    <2> HIDE DEF h
    <2> QED BY <1>1, <1>3 DEF Text, Bounded
  <1> QED BY <1>2, <1>3

\* What folding computes is text when it stays within the bounds.
LEMMA CalcType ==
  ASSUME NEW op, NEW a \in Text, NEW b \in Text,
         NEW t \in Calc(op, a, b), t.half \in Bounded
  PROVE  t \in Text
  <1>1. t = NoDigits \/ \E half : t = CutAnswer(half)
    BY DEF Calc, Unset
  <1> QED BY <1>1, CutType, NoDigitsType

\* What a place is known to hold is text, and folding within the bounds gives a place.
LEMMA KnownType ==
  ASSUME TypeOK, NEW p \in Place, p.kind = "var" => p.var \in Vars, ValueIsSet(p)
  PROVE  GetValue(p) \in Text
  BY DEF ValueIsSet, GetValue, Place, TypeOK

\* The place of a constant.
LEMMA ConstPlaceType ==
  ASSUME NEW t, NEW should
  PROVE  /\ ConstPlace(t, should).run = t.half /\ ConstPlace(t, should).should = should
         /\ ConstPlace(t, should).kind = "const" /\ ConstPlace(t, should).text = t
         /\ t \in Text /\ t.half \in Bounded /\ should \in Bounded
              => ConstPlace(t, should) \in Place
  <1>1. t \in Text => t.type \in {"INTEGER", "REAL"}
    BY TextType
  <1> QED BY <1>1 DEF ConstPlace, Place

\* The place of a temporary.
LEMMA TempPlaceType ==
  ASSUME NEW type \in {"INTEGER", "REAL"}, NEW run, NEW should
  PROVE  /\ TempPlace(type, run, should).run = run /\ TempPlace(type, run, should).should = should
         /\ TempPlace(type, run, should).kind = "temp"
         /\ run \in Bounded /\ should \in Bounded => TempPlace(type, run, should) \in Place
  BY NoDigitsType DEF TempPlace, Place

\* The places that may come of an operation, folded or not.
LEMMA ArithType ==
  ASSUME TypeOK, NEW op,
         NEW p \in Place, p.kind = "var" => p.var \in Vars,
         NEW q \in Place, q.kind = "var" => q.var \in Vars,
         NEW r \in ArithOp(op, p, q), InBounds(r)
  PROVE  r \in Place /\ r.kind # "var"
  <1> DEFINE should == Apply(op, p.should, q.should)
  <1>1. CASE ValueIsSet(p) /\ ValueIsSet(q)
    <2>1. PICK t \in Calc(op, GetValue(p), GetValue(q)) : r = ConstPlace(t, should)
      BY <1>1 DEF ArithOp
    <2> HIDE DEF should
    <2>2. t.half \in Bounded /\ should \in Bounded
      BY <2>1, ConstPlaceType DEF InBounds, Bounded
    <2>3. t \in Text
      BY <1>1, <2>2, KnownType, CalcType
    <2> QED BY <2>1, <2>2, <2>3, ConstPlaceType
  <1>2. CASE ~ (ValueIsSet(p) /\ ValueIsSet(q))
    <2> DEFINE run == Apply(op, p.run, q.run)
    <2>1. r = TempPlace(DestType(p, q), run, should)
      BY <1>2 DEF ArithOp
    <2> HIDE DEF run, should
    <2>2. DestType(p, q) \in {"INTEGER", "REAL"}
      BY DEF DestType
    <2>3. run \in Bounded /\ should \in Bounded
      BY <2>1, <2>2, TempPlaceType DEF InBounds, Bounded
    <2> QED BY <2>1, <2>2, <2>3, TempPlaceType
  <1> QED BY <1>1, <1>2

\* A text in the type of a variable.
LEMMA ConvertedType ==
  ASSUME NEW v \in Vars, NEW t \in Text
  PROVE  /\ Converted(v, t) \in Text /\ Converted(v, t).type = Type(v)
         /\ Converted(v, t).half = t.half /\ (t.digits => Converted(v, t).digits)
  <1>1. Type(v) \in {"INTEGER", "REAL"}
    BY DEF Type
  <1>2. CASE t = NoDigits
    <2>1. CASE Type(v) = "INTEGER"
      <3>1. Converted(v, t) = NoDigits
        BY <1>2, <2>1 DEF Converted, NoDigits
      <3> QED BY <1>2, <2>1, <3>1, NoDigitsType DEF NoDigits
    <2>2. CASE Type(v) # "INTEGER"
      <3>1. Converted(v, t) = [type |-> "REAL", half |-> 0, digits |-> TRUE]
        BY <1>2, <2>2 DEF Converted, NoDigits, Number
      <3>2. Type(v) = "REAL"
        BY <1>1, <2>2
      <3>3. Converted(v, t) \in Text
        BY <3>1, NoDigitsType DEF Text, Bounded
      <3> QED BY <1>2, <3>1, <3>2, <3>3, NoDigitsType
    <2> QED BY <2>1, <2>2
  <1>3. CASE t # NoDigits
    <2>1. t \in [type : {"INTEGER", "REAL"}, half : -MaxHalf .. MaxHalf, digits : BOOLEAN]
      BY DEF Text
    <2>2. t.digits /\ Converted(v, t) = [t EXCEPT !.type = Type(v)]
      BY <1>3 DEF Text, Converted
    <2>3. [t EXCEPT !.type = Type(v)] = [type |-> Type(v), half |-> t.half, digits |-> t.digits]
      BY <2>1
    <2> QED BY <1>1, <2>1, <2>2, <2>3 DEF Text
  <1> QED BY <1>2, <1>3

\* Giving a variable a value.
LEMMA SetValueType ==
  ASSUME TypeOK, NEW v \in Vars, NEW t \in Text, SetValue(v, t)
  PROVE  /\ status' \in [Vars -> {"INVALID", "VALID"}]
         /\ value' \in [Vars -> Text]
         /\ status'[v] = "VALID" /\ value'[v].half = t.half
         /\ (t.digits => value'[v].digits) /\ value'[v].type = Type(v)
         /\ \A w \in Vars \ {v} : status'[w] = status[w] /\ value'[w] = value[w]
  BY ConvertedType DEF SetValue, TypeOK

\* The types hold when the compiler starts.
LEMMA TypeInit == Init => TypeInv
  <1> SUFFICES ASSUME Init PROVE TypeInv
    OBVIOUS
  <1>1. /\ status \in [Vars -> {"INVALID", "VALID"}] /\ value \in [Vars -> Text]
        /\ \A v \in Vars : status[v] = "VALID" => value[v].type = Type(v)
    BY NoDigitsType DEF Init
  <1>2. 0 \in -MaxHalf .. MaxHalf /\ 0 \in 0 .. MaxSteps
    BY ConstPropAssumption
  <1> QED BY <1>1, <1>2 DEF Init, TypeInv, TypeOK, PlaceOK

\* Steps stay within their bound.
LEMMA StepType == ASSUME TypeInv, Step PROVE steps' \in 0 .. MaxSteps
  BY ConstPropAssumption DEF TypeInv, TypeOK, Step

\* Discarding the pending symbols.
LEMMA StopType ==
  ASSUME TypeOK, StopConstPropagation
  PROVE  /\ status' \in [Vars -> {"INVALID", "VALID"}] /\ pending' = <<>>
         /\ pending' \in Seq(Vars)
         /\ \A v \in Vars : status'[v] = "VALID" => status[v] = "VALID"
  BY DEF TypeOK, StopConstPropagation

\* Every step keeps the types.
LEMMA TypeNext == TypeInv /\ [Next]_vars => TypeInv'
  <1> SUFFICES ASSUME TypeInv, [Next]_vars PROVE TypeInv'
    OBVIOUS
  <1>t. TypeOK /\ PlaceOK
    BY DEF TypeInv
  <1>1. CASE Operand
    <2>1. PICK p \in Operands : exp' = <<p>> /\ sums' = (sums /\ IsSummand(p))
      BY <1>1 DEF Operand
    <2>2. PlaceOK' /\ sums' \in BOOLEAN
      BY <1>t, <2>1, OperandType DEF PlaceOK
    <2>3. steps' \in 0 .. MaxSteps
      BY <1>1, StepType DEF Operand
    <2> QED BY <1>1, <1>t, <2>2, <2>3 DEF Operand, TypeInv, TypeOK
  <1>2. CASE Arith
    <2>1. PICK p \in Place : exp = <<p>> /\ (p.kind = "var" => p.var \in Vars)
      BY <1>2, <1>t DEF Arith, PlaceOK
    <2>2. PICK op \in Ops, q \in Operands :
            /\ sums' = (sums /\ op = "+" /\ IsSummand(q))
            /\ \E r \in ArithOp(op, p, q) : InBounds(r) /\ exp' = <<r>>
      BY <1>2, <2>1 DEF Arith
    <2>3. q \in Place /\ (q.kind = "var" => q.var \in Vars)
      BY <1>t, OperandType
    <2>4. PlaceOK'
      BY <1>t, <2>1, <2>2, <2>3, ArithType DEF PlaceOK
    <2>5. steps' \in 0 .. MaxSteps
      BY <1>2, StepType DEF Arith
    <2> QED BY <1>2, <1>t, <2>4, <2>5 DEF Arith, TypeInv, TypeOK
  <1>3. CASE Call
    <2>1. steps' \in 0 .. MaxSteps
      BY <1>3, StepType DEF Call
    <2>2. /\ status' \in [Vars -> {"INVALID", "VALID"}] /\ pending' \in Seq(Vars)
          /\ \A v \in Vars : status'[v] = "VALID" => status[v] = "VALID"
      BY <1>3, <1>t, StopType DEF Call
    <2> QED BY <1>3, <1>t, <2>1, <2>2 DEF Call, TypeInv, TypeOK, PlaceOK
  <1>4. CASE Boundary
    <2>1. steps' \in 0 .. MaxSteps
      BY <1>4, StepType DEF Boundary
    <2>2. /\ status' \in [Vars -> {"INVALID", "VALID"}] /\ pending' \in Seq(Vars)
          /\ \A v \in Vars : status'[v] = "VALID" => status[v] = "VALID"
      BY <1>4, <1>t, StopType DEF Boundary
    <2>3. {l.half : l \in {n \in Literals : n.type = "INTEGER"}} \subseteq -MaxHalf .. MaxHalf
      BY NumberType DEF Bounded
    <2>4. mem' \in [Vars -> -MaxHalf .. MaxHalf] /\ ideal' \in [Vars -> -MaxHalf .. MaxHalf]
      BY <1>4, <2>3 DEF Boundary
    <2> QED BY <1>4, <1>t, <2>1, <2>2, <2>4 DEF Boundary, TypeInv, TypeOK, PlaceOK
  <1>5. ASSUME NEW v \in Vars, Assn(v)
        PROVE  TypeInv'
    <2>1. steps' \in 0 .. MaxSteps
      BY <1>5, StepType DEF Assn
    <2>2. PICK p \in Place : exp = <<p>> /\ (p.kind = "var" => p.var \in Vars)
      BY <1>5, <1>t DEF Assn, PlaceOK
    <2>3. p.run \in Bounded /\ p.should \in Bounded
      BY DEF Place
    <2>4. mem' \in [Vars -> -MaxHalf .. MaxHalf] /\ ideal' \in [Vars -> -MaxHalf .. MaxHalf]
      BY <1>5, <1>t, <2>2, <2>3 DEF Assn, TypeOK, Bounded
    <2>5. /\ status' \in [Vars -> {"INVALID", "VALID"}] /\ value' \in [Vars -> Text]
          /\ \A w \in Vars : status'[w] = "VALID" => value'[w].type = Type(w)
          /\ pending' \in Seq(Vars)
      <3>1. CASE ValueIsSet(p)
        <4>1. SetValue(v, GetValue(p)) /\ pending' = Append(pending, v)
          BY <1>5, <2>2, <3>1 DEF Assn
        <4>2. GetValue(p) \in Text
          BY <1>t, <2>2, <3>1, KnownType
        <4>3. pending' \in Seq(Vars)
          BY <1>t, <4>1 DEF TypeOK
        <4>4. /\ status' \in [Vars -> {"INVALID", "VALID"}] /\ value' \in [Vars -> Text]
              /\ value'[v].type = Type(v)
              /\ \A w \in Vars \ {v} : status'[w] = status[w] /\ value'[w] = value[w]
          BY <1>t, <4>1, <4>2, SetValueType
        <4> QED BY <1>t, <4>3, <4>4 DEF TypeOK
      <3>2. CASE ~ ValueIsSet(p)
        BY <1>5, <1>t, <2>2, <3>2 DEF Assn, TypeOK
      <3> QED BY <3>1, <3>2
    <2>6. PlaceOK'
      BY <1>5 DEF Assn, PlaceOK
    <2>7. kept' \in BOOLEAN /\ sums' \in BOOLEAN
      BY <1>5, <1>t DEF Assn, IsKept, TypeOK
    <2> QED BY <2>1, <2>4, <2>5, <2>6, <2>7 DEF TypeInv, TypeOK
  <1>6. ASSUME NEW v \in Vars, Read(v)
        PROVE  TypeInv'
    <2>1. steps' \in 0 .. MaxSteps
      BY <1>6, StepType DEF Read
    <2>2. mem' \in [Vars -> -MaxHalf .. MaxHalf] /\ ideal' \in [Vars -> -MaxHalf .. MaxHalf]
      BY <1>6, <1>t, NumberType DEF Read, TypeOK, Bounded
    <2>3. kept' \in BOOLEAN /\ sums' \in BOOLEAN
      BY <1>6 DEF Read, IsKept
    <2> QED BY <1>6, <1>t, <2>1, <2>2, <2>3 DEF Read, TypeInv, TypeOK, PlaceOK
  <1>7. CASE UNCHANGED vars
    BY <1>7, <1>t DEF vars, TypeInv, TypeOK, PlaceOK
  <1> QED BY <1>1, <1>2, <1>3, <1>4, <1>5, <1>6, <1>7 DEF Next

\* Type correctness: known values are text of the type of their variable, and
\* $$.place is a variable, a constant or a temporary within the bounds.
THEOREM TypeCorrect == Spec => [](TypeOK /\ PlaceOK)
  BY TypeInit, TypeNext, PTL DEF Spec, TypeInv

\* ---- nothing is known across basic blocks ------------------------------------

\* Every step keeps known variables in the queue.
LEMMA PendingNext == TypeInv /\ KnownIsPending /\ [Next]_vars => KnownIsPending'
  <1> SUFFICES ASSUME TypeInv, KnownIsPending, [Next]_vars PROVE KnownIsPending'
    OBVIOUS
  <1>t. TypeOK /\ pending \in Seq(Vars)
    BY DEF TypeInv, TypeOK
  <1>1. ASSUME NEW v \in Vars, Assn(v)
        PROVE  KnownIsPending'
    <2>1. CASE ValueIsSet(exp[1])
      <3>1. pending' = Append(pending, v) /\ status' = [status EXCEPT ![v] = "VALID"]
        BY <1>1, <2>1 DEF Assn, SetValue
      <3>2. /\ pending'[Len(pending) + 1] = v /\ Len(pending) + 1 \in DOMAIN pending'
            /\ \A i \in DOMAIN pending : i \in DOMAIN pending' /\ pending'[i] = pending[i]
        BY <1>t, <3>1
      <3>3. \A w \in Vars \ {v} : status'[w] = status[w]
        BY <1>t, <3>1 DEF TypeOK
      <3> QED BY <3>2, <3>3 DEF KnownIsPending
    <2>2. CASE ~ ValueIsSet(exp[1])
      BY <1>1, <2>2 DEF Assn, KnownIsPending
    <2> QED BY <2>1, <2>2
  <1>2. CASE Call \/ Boundary
    BY <1>2 DEF Call, Boundary, StopConstPropagation, KnownIsPending
  <1>3. CASE Operand \/ Arith \/ \E v \in Vars : Read(v)
    BY <1>3 DEF Operand, Arith, Read, KnownIsPending
  <1>4. CASE UNCHANGED vars
    BY <1>4 DEF vars, KnownIsPending
  <1> QED BY <1>1, <1>2, <1>3, <1>4 DEF Next

\* The end of a basic block finds every known variable in the queue.
LEMMA BoundaryForgets ==
  ASSUME TypeInv, KnownIsPending, Boundary, NEW v \in Vars
  PROVE  status'[v] = "INVALID"
  <1>1. status[v] = "INVALID" \/ \E i \in DOMAIN pending : pending[i] = v
    BY DEF KnownIsPending, TypeInv, TypeOK
  <1>2. status'[v] = IF \E i \in DOMAIN pending : pending[i] = v THEN "INVALID" ELSE status[v]
    BY DEF Boundary, StopConstPropagation
  <1> QED BY <1>1, <1>2

\* A variable the compiler knows a value of is in the queue that
\* StopConstPropagation() empties, in every program.
THEOREM AllKnownArePending == Spec => []KnownIsPending
  <1>1. Init => KnownIsPending
    BY DEF Init, KnownIsPending
  <1> QED BY <1>1, TypeInit, TypeNext, PendingNext, PTL DEF Spec

\* Therefore the end of a basic block forgets every value: no jump or label
\* lets knowledge through to code that is reached another way.
THEOREM BlocksStartUnknown == Spec => NothingKnownInNewBlock
  <1>1. TypeInv /\ KnownIsPending /\ [Next]_vars
          => [Boundary => \A v \in Vars : status'[v] = "INVALID"]_vars
    BY BoundaryForgets
  <1>2. Init => KnownIsPending
    BY DEF Init, KnownIsPending
  <1> QED BY <1>1, <1>2, TypeInit, TypeNext, PendingNext, PTL DEF Spec, NothingKnownInNewBlock

\* ---- what is known is what is stored ------------------------------------------

\* A place that names a variable or a constant still holds its value when the
\* instruction that reads it is emitted.
PlaceIsStored ==
  exp # <<>> => /\ exp[1].kind = "var" => exp[1].run = mem[exp[1].var]
                /\ exp[1].kind = "const" => exp[1].run = exp[1].text.half

StoreInv == KnownIsStored /\ PlaceIsStored

\* Every step keeps known values and the store in agreement.
LEMMA StoreNext ==
  ASSUME TypeInv, KnownIsPending, StoreInv, [Next]_vars
  PROVE  StoreInv'
  <1>t. TypeOK
    BY DEF TypeInv
  <1>1. CASE Operand
    <2>1. PICK p \in Operands : exp' = <<p>>
      BY <1>1 DEF Operand
    <2>2. /\ p.kind = "var" => p.run = mem[p.var]
          /\ p.kind = "const" => p.run = p.text.half
      <3>1. CASE \E v \in Vars : p = VarPlace(v)
        BY <3>1 DEF VarPlace
      <3>2. CASE \E l \in Literals : p = ConstPlace(Number(l), l.half)
        BY <3>2, ConstPlaceType
      <3> QED BY <3>1, <3>2 DEF Operands
    <2> QED BY <1>1, <2>1, <2>2 DEF Operand, StoreInv, KnownIsStored, PlaceIsStored
  <1>2. CASE Arith
    <2>1. PICK op \in Ops, q \in Operands : \E r \in ArithOp(op, exp[1], q) : exp' = <<r>>
      BY <1>2 DEF Arith
    <2>2. PICK r \in ArithOp(op, exp[1], q) : exp' = <<r>>
      BY <2>1
    <2>3. \/ \E t, should : r = ConstPlace(t, should)
          \/ \E type, run, should : r = TempPlace(type, run, should)
      BY <2>2 DEF ArithOp
    <2>4. r.kind # "var" /\ (r.kind = "const" => r.run = r.text.half)
      <3>1. ASSUME NEW t, NEW should, r = ConstPlace(t, should)
            PROVE  r.kind # "var" /\ r.run = r.text.half
        BY <3>1, ConstPlaceType
      <3>2. ASSUME NEW type, NEW run, NEW should, r = TempPlace(type, run, should)
            PROVE  r.kind = "temp"
        BY <3>2 DEF TempPlace
      <3> QED BY <2>3, <3>1, <3>2
    <2> QED BY <1>2, <2>2, <2>4 DEF Arith, StoreInv, KnownIsStored, PlaceIsStored
  <1>3. CASE Call
    <2>1. \A v \in Vars : status'[v] = "VALID" => status[v] = "VALID"
      BY <1>3, <1>t, StopType DEF Call
    <2> QED BY <1>3, <2>1 DEF Call, StoreInv, KnownIsStored, PlaceIsStored
  <1>4. CASE Boundary
    <2>1. \A v \in Vars : status'[v] = "INVALID"
      BY <1>4, BoundaryForgets
    <2>2. exp' = <<>>
      BY <1>4 DEF Boundary
    <2> QED BY <2>1, <2>2 DEF StoreInv, KnownIsStored, PlaceIsStored
  <1>5. ASSUME NEW v \in Vars, Assn(v)
        PROVE  StoreInv'
    <2>1. PICK p \in Place : exp = <<p>> /\ (p.kind = "var" => p.var \in Vars)
      BY <1>5 DEF Assn, TypeInv, PlaceOK
    <2>2. mem' = [mem EXCEPT ![v] = p.run] /\ exp' = <<>>
      BY <1>5, <2>1 DEF Assn
    <2>3. mem'[v] = p.run /\ \A w \in Vars \ {v} : mem'[w] = mem[w]
      BY <1>t, <2>2 DEF TypeOK
    <2>4. ASSUME kept' PROVE \A w \in Vars : status'[w] = "VALID" => value'[w].half = mem'[w]
      <3>0. kept
        BY <1>5, <2>4 DEF Assn, IsKept
      <3>1. CASE ValueIsSet(p)
        <4>1. SetValue(v, GetValue(p))
          BY <1>5, <2>1, <3>1 DEF Assn
        <4>2. GetValue(p).half = p.run
          <5>1. CASE p.kind = "const"
            BY <2>1, <5>1 DEF GetValue, StoreInv, PlaceIsStored
          <5>2. CASE p.kind # "const"
            <6>1. p.var \in Vars /\ p.kind = "var" /\ status[p.var] = "VALID"
              BY <2>1, <3>1, <5>2 DEF ValueIsSet
            <6> QED BY <2>1, <3>0, <5>2, <6>1 DEF GetValue, StoreInv, PlaceIsStored, KnownIsStored
          <5> QED BY <5>1, <5>2
        <4>3. /\ value'[v].half = GetValue(p).half
              /\ \A w \in Vars \ {v} : status'[w] = status[w] /\ value'[w] = value[w]
          BY <1>t, <2>1, <3>1, <4>1, KnownType, SetValueType
        <4> QED BY <2>3, <3>0, <4>2, <4>3 DEF StoreInv, KnownIsStored
      <3>2. CASE ~ ValueIsSet(p)
        <4>1. status[v] = "INVALID" /\ status' = status /\ value' = value
          BY <1>5, <2>1, <2>4, <3>2 DEF Assn, IsKept
        <4> QED BY <2>3, <3>0, <4>1 DEF StoreInv, KnownIsStored
      <3> QED BY <3>1, <3>2
    <2> QED BY <2>2, <2>4 DEF StoreInv, KnownIsStored, PlaceIsStored
  <1>6. ASSUME NEW v \in Vars, Read(v)
        PROVE  StoreInv'
    <2>1. /\ kept' => kept /\ status[v] = "INVALID"
          /\ status' = status /\ value' = value /\ exp' = <<>>
      BY <1>6 DEF Read, IsKept
    <2>2. \A w \in Vars \ {v} : mem'[w] = mem[w]
      BY <1>6, <1>t DEF Read, TypeOK
    <2> QED BY <2>1, <2>2 DEF StoreInv, KnownIsStored, PlaceIsStored
  <1>7. CASE UNCHANGED vars
    BY <1>7 DEF vars, StoreInv, KnownIsStored, PlaceIsStored
  <1> QED BY <1>1, <1>2, <1>3, <1>4, <1>5, <1>6, <1>7 DEF Next

\* As long as a program has not overwritten a known variable by an unknown value,
\* the value the compiler knows is the one the emitted code has stored.  The
\* condition is what assnOp() and read() leave to the program.
THEOREM KnownValuesAreStored == Spec => []KnownIsStored
  <1>1. Init => KnownIsPending /\ StoreInv
    BY DEF Init, KnownIsPending, StoreInv, KnownIsStored, PlaceIsStored
  <1>2. TypeInv /\ KnownIsPending /\ StoreInv /\ [Next]_vars => StoreInv'
    BY StoreNext
  <1>3. StoreInv => KnownIsStored
    BY DEF StoreInv
  <1> QED BY <1>1, <1>2, <1>3, TypeInit, TypeNext, PendingNext, PTL DEF Spec

\* ---- folding sums of integers ---------------------------------------------------

\* A natural number, in halves.
Whole(n) == n \in Nat /\ n % 2 = 0

\* Integers are added alike by the compiler and by the emulator.
LEMMA WholeSum ==
  ASSUME NEW a, NEW b, Whole(a), Whole(b)
  PROVE  Whole(a + b) /\ a + b >= 0 /\ ((a + b) \div 2) * 2 = a + b
  BY DEF Whole

\* The integers of the source.
LEMMA WholeLiteral ==
  ASSUME NEW l \in Literals, l.type = "INTEGER"
  PROVE  Whole(l.half) /\ Number(l).half = l.half /\ Number(l).digits
  BY ConstPropAssumption DEF Whole, Number

\* A place computes what the source says, a whole number that can be read back.
PlaceFolds(p) ==
  p.run = p.should /\ Whole(p.run) /\ (p.kind = "const" => p.text.digits)

Folding ==
  /\ mem = ideal
  /\ \A v \in Vars : Whole(mem[v]) /\ (status[v] = "VALID" => value[v].digits)
  /\ exp # <<>> => PlaceFolds(exp[1])

FoldInv == kept /\ sums => Folding

\* An operand is worth the same, folded or not.
LEMMA OperandFolds ==
  ASSUME TypeOK, Folding, NEW p \in Operands, IsSummand(p)
  PROVE  /\ PlaceFolds(p)
         /\ p.kind = "var" => p.run = mem[p.var]
         /\ p.kind = "const" => p.run = p.text.half
  <1>1. CASE \E v \in Vars : p = VarPlace(v)
    BY <1>1 DEF VarPlace, PlaceFolds, Folding
  <1>2. CASE \E l \in Literals : p = ConstPlace(Number(l), l.half)
    <2>1. PICK l \in Literals : p = ConstPlace(Number(l), l.half)
      BY <1>2
    <2>2. l.type = "INTEGER"
      BY <2>1 DEF IsSummand, ConstPlace, Number
    <2> QED BY <2>1, <2>2, WholeLiteral, ConstPlaceType DEF PlaceFolds
  <1> QED BY <1>1, <1>2 DEF Operands

\* A known operand's text is the number the emitted code would have read.
LEMMA KnownFolds ==
  ASSUME TypeOK, kept, Folding, KnownIsStored, NEW p \in Place,
         p.kind = "var" => p.var \in Vars /\ p.run = mem[p.var],
         p.kind = "const" => p.run = p.text.half,
         PlaceFolds(p), ValueIsSet(p)
  PROVE  GetValue(p).half = p.run /\ GetValue(p).digits
  <1>1. CASE p.kind = "const"
    BY <1>1 DEF GetValue, PlaceFolds
  <1>2. CASE p.kind # "const"
    <2>1. p.var \in Vars /\ status[p.var] = "VALID" /\ p.run = mem[p.var]
      BY <1>2 DEF ValueIsSet
    <2> QED BY <1>2, <2>1 DEF GetValue, Folding, KnownIsStored
  <1> QED BY <1>1, <1>2

\* A sum is worth the same, folded or not.
LEMMA ArithFolds ==
  ASSUME TypeOK, kept, Folding, KnownIsStored,
         NEW p \in Place, p.kind = "var" => p.var \in Vars /\ p.run = mem[p.var],
         p.kind = "const" => p.run = p.text.half, PlaceFolds(p),
         NEW q \in Place, q.kind = "var" => q.var \in Vars /\ q.run = mem[q.var],
         q.kind = "const" => q.run = q.text.half, PlaceFolds(q),
         NEW r \in ArithOp("+", p, q)
  PROVE  PlaceFolds(r)
  <1>2. \A a, b : Apply("+", a, b) = a + b
    BY DEF Apply
  <1>3. /\ Whole(p.run + q.run) /\ p.run + q.run >= 0
        /\ ((p.run + q.run) \div 2) * 2 = p.run + q.run
        /\ p.run = p.should /\ q.run = q.should
    BY WholeSum DEF PlaceFolds
  <1>4. CASE ValueIsSet(p) /\ ValueIsSet(q)
    <2> DEFINE t == Number([type |-> "INTEGER", half |-> p.run + q.run])
    <2>1. /\ GetValue(p).half = p.run /\ GetValue(p).digits
          /\ GetValue(q).half = q.run /\ GetValue(q).digits
      BY <1>4, KnownFolds
    <2>2. Calc("+", GetValue(p), GetValue(q)) = {CutAnswer(p.run + q.run)}
      BY <1>2, <2>1 DEF Calc, Answered
    <2>3. CutAnswer(p.run + q.run) = t
      <3>1. ~ (p.run + q.run < 0)
        BY <1>3 DEF Whole
      <3> QED BY <1>3, <3>1 DEF CutAnswer
    <2>4. t.half = p.run + q.run /\ t.digits
      BY DEF Number
    <2>5. r = ConstPlace(t, p.run + q.run)
      BY <1>2, <1>3, <1>4, <2>2, <2>3 DEF ArithOp
    <2> HIDE DEF t
    <2> QED BY <1>3, <2>4, <2>5, ConstPlaceType DEF PlaceFolds
  <1>5. CASE ~ (ValueIsSet(p) /\ ValueIsSet(q))
    <2>1. r = TempPlace(DestType(p, q), p.run + q.run, p.run + q.run)
      BY <1>2, <1>3, <1>5 DEF ArithOp
    <2>2. DestType(p, q) \in {"INTEGER", "REAL"}
      BY DEF DestType
    <2>3. r.kind = "temp"
      BY <2>1, <2>2, TempPlaceType
    <2> QED BY <1>3, <2>1, <2>2, <2>3, TempPlaceType DEF PlaceFolds
  <1> QED BY <1>4, <1>5

\* Every step keeps folding right, if it leaves the program to integer sums.
LEMMA FoldNext ==
  ASSUME TypeInv, KnownIsPending, StoreInv, FoldInv, [Next]_vars
  PROVE  FoldInv'
  <1> SUFFICES ASSUME kept', sums' PROVE Folding'
    BY DEF FoldInv
  <1>0. kept /\ sums
    <2>1. CASE Operand \/ Arith \/ Call \/ Boundary
      BY <2>1 DEF Operand, Arith, Call, Boundary
    <2>2. CASE \E v \in Vars : Assn(v) \/ Read(v)
      BY <2>2 DEF Assn, Read, IsKept
    <2>3. CASE UNCHANGED vars
      BY <2>3 DEF vars
    <2> QED BY <2>1, <2>2, <2>3 DEF Next
  <1>t. TypeOK /\ kept /\ Folding /\ KnownIsStored /\ PlaceIsStored
    BY <1>0 DEF TypeInv, StoreInv, FoldInv
  <1>1. CASE Operand
    <2>1. PICK p \in Operands : exp' = <<p>> /\ IsSummand(p)
      BY <1>1 DEF Operand
    <2> QED BY <1>1, <1>t, <2>1, OperandFolds DEF Operand, Folding, PlaceFolds
  <1>2. CASE Arith
    <2>1. PICK p \in Place : exp = <<p>> /\ (p.kind = "var" => p.var \in Vars)
      BY <1>2 DEF Arith, TypeInv, PlaceOK
    <2>2. PICK q \in Operands : IsSummand(q) /\ \E r \in ArithOp("+", p, q) : exp' = <<r>>
      BY <1>2, <2>1 DEF Arith
    <2>3. q \in Place /\ (q.kind = "var" => q.var \in Vars)
      BY <1>t, OperandType
    <2>4. /\ PlaceFolds(p)
          /\ p.kind = "var" => p.run = mem[p.var]
          /\ p.kind = "const" => p.run = p.text.half
      BY <1>t, <2>1 DEF Folding, PlaceIsStored
    <2>5. \A r \in ArithOp("+", p, q) : PlaceFolds(r)
      BY <1>t, <2>1, <2>2, <2>3, <2>4, OperandFolds, ArithFolds
    <2> QED BY <1>2, <1>t, <2>2, <2>5 DEF Arith, Folding, PlaceFolds
  <1>3. CASE Call
    <2>1. \A v \in Vars : status'[v] = "VALID" => status[v] = "VALID"
      BY <1>3, <1>t, StopType DEF Call
    <2> QED BY <1>3, <1>t, <2>1 DEF Call, Folding, PlaceFolds
  <1>4. CASE Boundary
    <2>1. \A v \in Vars : status'[v] = "INVALID"
      BY <1>4, BoundaryForgets
    <2>2. mem' = ideal' /\ \A v \in Vars : Whole(mem'[v])
      BY <1>4, WholeLiteral DEF Boundary
    <2>3. exp' = <<>>
      BY <1>4 DEF Boundary
    <2> QED BY <2>1, <2>2, <2>3 DEF Folding
  <1>5. ASSUME NEW v \in Vars, Assn(v)
        PROVE  Folding'
    <2>1. PICK p \in Place : exp = <<p>> /\ (p.kind = "var" => p.var \in Vars)
      BY <1>5 DEF Assn, TypeInv, PlaceOK
    <2>2. /\ PlaceFolds(p)
          /\ p.kind = "var" => p.run = mem[p.var]
          /\ p.kind = "const" => p.run = p.text.half
      BY <1>t, <2>1 DEF Folding, PlaceIsStored
    <2>3. /\ mem' = [mem EXCEPT ![v] = p.run] /\ ideal' = [ideal EXCEPT ![v] = p.should]
          /\ exp' = <<>>
      BY <1>5, <2>1 DEF Assn
    <2>4. mem' = ideal' /\ \A w \in Vars : Whole(mem'[w])
      BY <1>t, <2>2, <2>3 DEF Folding, PlaceFolds, TypeOK
    <2>5. \A w \in Vars : status'[w] = "VALID" => value'[w].digits
      <3>1. CASE ValueIsSet(p)
        <4>1. SetValue(v, GetValue(p))
          BY <1>5, <2>1, <3>1 DEF Assn
        <4>2. GetValue(p) \in Text /\ GetValue(p).digits
          BY <1>t, <2>1, <2>2, <3>1, KnownType, KnownFolds
        <4>3. /\ GetValue(p).digits => value'[v].digits
              /\ \A w \in Vars \ {v} : status'[w] = status[w] /\ value'[w] = value[w]
          BY <1>t, <4>1, <4>2, SetValueType
        <4> QED BY <1>t, <4>2, <4>3 DEF Folding
      <3>2. CASE ~ ValueIsSet(p)
        BY <1>5, <1>t, <2>1, <3>2 DEF Assn, Folding
      <3> QED BY <3>1, <3>2
    <2> QED BY <2>3, <2>4, <2>5 DEF Folding
  <1>6. ASSUME NEW v \in Vars, Read(v)
        PROVE  Folding'
    <2>1. PICK n \in Literals : /\ n.type = "INTEGER" /\ mem' = [mem EXCEPT ![v] = n.half]
                                /\ ideal' = [ideal EXCEPT ![v] = n.half]
      BY <1>6 DEF Read
    <2>2. mem' = ideal' /\ \A w \in Vars : Whole(mem'[w])
      BY <1>t, <2>1, WholeLiteral DEF Folding, TypeOK
    <2>3. status' = status /\ value' = value /\ exp' = <<>>
      BY <1>6 DEF Read
    <2> QED BY <1>t, <2>2, <2>3 DEF Folding
  <1>7. CASE UNCHANGED vars
    BY <1>7, <1>t DEF vars, Folding, PlaceFolds
  <1> QED BY <1>1, <1>2, <1>3, <1>4, <1>5, <1>6, <1>7 DEF Next

\* Folding is right where the findings do not apply: as long as a program over
\* integers has computed sums only and overwritten no known variable by an unknown
\* value, what the emitted code stores is what the source says.
THEOREM SumsFoldRight == Spec => []FoldingKeepsMeaning
  <1>1. Init => KnownIsPending /\ StoreInv /\ FoldInv
    BY DEF Init, KnownIsPending, StoreInv, KnownIsStored, PlaceIsStored, FoldInv, Folding, Whole
  <1>2. TypeInv /\ KnownIsPending /\ StoreInv /\ [Next]_vars => StoreInv'
    BY StoreNext
  <1>3. TypeInv /\ KnownIsPending /\ StoreInv /\ FoldInv /\ [Next]_vars => FoldInv'
    BY FoldNext
  <1>4. FoldInv => FoldingKeepsMeaning
    BY DEF FoldInv, Folding, FoldingKeepsMeaning, FoldingIsRight, PlaceFolds
  <1> QED BY <1>1, <1>2, <1>3, <1>4, TypeInit, TypeNext, PendingNext, PTL DEF Spec

=============================================================================

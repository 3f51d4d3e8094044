-------------------------- MODULE ControlFlowProofs --------------------------
\* Proofs about the translation of control flow, for programs of every size.
\*
\* No jump is ever lost: the lists of labels on the parser stack hold exactly
\* the labels that still wait for their target, so every backpatch finds what
\* it needs and every jump of a complete program resolves, whatever the program.
\* From this follows what the code looks like around its labels: no label is
\* emitted twice, and where labels wait the code ends in a jump.
EXTENDS ControlFlow, WellFoundedInduction, SequenceTheorems, TLAPS

\* ---- blocks ---------------------------------------------------------------

\* Emitting appends one instruction and changes nothing else.
LEMMA EmitType ==
  ASSUME NEW b \in Block, NEW i \in Instruction
  PROVE  /\ Emit(b, i) \in Block
         /\ Emit(b, i).code = Append(b.code, i)
         /\ Emit(b, i).next = b.next
         /\ Emit(b, i).ok = b.ok
  BY SMTT(40) DEF Emit, Block

\* A new label is the last one and points to nothing.
LEMMA NewLabelType ==
  ASSUME NEW b \in Block
  PROVE  /\ NewLabel(b) \in Block
         /\ NewLabel(b).code = b.code
         /\ NewLabel(b).ok = b.ok
         /\ NewLabel(b).next = Append(b.next, 0)
         /\ FreshLabel(b) \in Nat \ {0}
  <1>1. NewLabel(b) = [code |-> b.code, next |-> Append(b.next, 0), ok |-> b.ok]
    BY SMTT(40) DEF NewLabel, Block
  <1>2. b.next \in Seq(Nat) /\ b.code \in Seq(Instruction) /\ b.ok \in BOOLEAN
    BY DEF Block
  <1>3. Append(b.next, 0) \in Seq(Nat) /\ Len(b.next) \in Nat
    BY <1>2
  <1> QED BY <1>1, <1>2, <1>3 DEF Block, FreshLabel

\* Backpatching keeps the code and the number of labels.
LEMMA BackpatchNext ==
  ASSUME NEW b \in Block, NEW L, NEW t \in Nat
  PROVE  /\ Backpatch(b, L, t).next \in Seq(Nat)
         /\ Len(Backpatch(b, L, t).next) = Len(b.next)
         /\ \A l \in 1 .. Len(b.next) :
              Backpatch(b, L, t).next[l] = IF l \in L THEN t ELSE IF l = t THEN 0 ELSE b.next[l]
  <1> DEFINE nx == [l \in 1 .. Len(b.next) |->
                     IF l \in L THEN t ELSE IF l = t THEN 0 ELSE b.next[l]]
  <1>1. b.next \in Seq(Nat) /\ DOMAIN b.next = 1 .. Len(b.next)
    BY DEF Block
  <1>2. nx \in Seq(Nat) /\ Len(nx) = Len(b.next)
    BY <1>1
  <1>3. Backpatch(b, L, t).next = nx
    BY <1>1 DEF Backpatch
  <1> QED BY <1>2, <1>3

\* Backpatching makes a block of a block.
LEMMA BackpatchType ==
  ASSUME NEW b \in Block, NEW L, NEW t \in Nat
  PROVE  Backpatch(b, L, t) \in Block /\ Backpatch(b, L, t).code = b.code
  <1> DEFINE nx == Backpatch(b, L, t).next
  <1>1. b.code \in Seq(Instruction) /\ b.ok \in BOOLEAN
    BY DEF Block
  <1>2. nx \in Seq(Nat)
    BY BackpatchNext
  <1>3. Backpatch(b, L, t) = [code |-> b.code, next |-> nx, ok |-> b.ok /\ CanPatch(b, L, t)]
    BY DEF Backpatch
  <1>4. (b.ok /\ CanPatch(b, L, t)) \in BOOLEAN
    BY <1>1
  <1> HIDE DEF nx
  <1> QED BY <1>1, <1>2, <1>3, <1>4 DEF Block

\* Every operation of the emitter yields a block.
LEMMA Closed ==
  ASSUME NEW b \in Block, NEW l \in Nat, NEW id \in Nat, NEW L
  PROVE  /\ Label(b, l) \in Block
         /\ Ujump(b, l) \in Block
         /\ Mark(b) \in Block
         /\ JumpFresh(b) \in Block
         /\ BackpatchIfAny(b, L, l) \in Block
         /\ Enforced(b, L) \in Block
  <1>1. \A c \in Block, k \in Nat : Label(c, k) \in Block /\ Ujump(c, k) \in Block
    BY EmitType DEF Label, Ujump, Inst, Instruction, JumpOps
  <1>2. Mark(b) \in Block /\ JumpFresh(b) \in Block
    BY <1>1, NewLabelType DEF Mark, JumpFresh
  <1>3. BackpatchIfAny(b, L, l) \in Block
    BY BackpatchType DEF BackpatchIfAny
  <1> QED BY <1>1, <1>2, <1>3 DEF Enforced

\* The instructions the semantic actions emit are instructions.
LEMMA InstType ==
  ASSUME NEW l \in Nat, NEW id \in Nat
  PROVE  \A op \in JumpOps \cup DataOps \cup LinkOps \cup {"LABEL"} :
           Inst(op, l, id) \in Instruction
  BY DEF Inst, Instruction

\* A non-empty set of natural numbers has a least element.
LEMMA LeastNat ==
  ASSUME NEW S, S \subseteq Nat, S # {}
  PROVE  \E i \in S : \A j \in S : i <= j
  <1> DEFINE R == {ss \in Nat \X Nat : ss[1] < ss[2]}
  <1>1. IsWellFoundedOn(R, Nat)
    BY NatLessThanWellFounded DEF OpToRel
  <1> HIDE DEF R
  <1>2. PICK i \in S : \A j \in S : ~ (<<j, i>> \in R)
    BY <1>1, WFMin
  <1>3. \A j \in S : ~ (j < i)
    BY <1>2 DEF R
  <1> QED BY <1>2, <1>3

\* A splice inserts in front of an instruction of the block.
LEMMA SpliceType ==
  ASSUME NEW b \in Block, NEW marker \in Nat, NEW sub \in Seq(Instruction)
  PROVE  Splice(b, marker, sub) \in Block
  <1>1. b.next \in Seq(Nat) /\ b.code \in Seq(Instruction) /\ b.ok \in BOOLEAN
    BY DEF Block
  <1>2. CASE SpliceAt(b, marker) = {}
    BY <1>2 DEF Splice, Block
  <1>3. CASE SpliceAt(b, marker) # {}
    <2> DEFINE at == CHOOSE i \in SpliceAt(b, marker) :
                       \A j \in SpliceAt(b, marker) : i <= j
    <2>1. SpliceAt(b, marker) \subseteq 1 .. Len(b.code)
      BY <1>1 DEF SpliceAt
    <2>2. \E i \in SpliceAt(b, marker) : \A j \in SpliceAt(b, marker) : i <= j
      BY <1>3, <2>1, LeastNat
    <2>3. at \in 1 .. Len(b.code)
      BY <2>1, <2>2
    <2> HIDE DEF at
    <2>4. SubSeq(b.code, 1, at - 1) \in Seq(Instruction)
      BY <1>1, <2>3
    <2>5. SubSeq(b.code, at, Len(b.code)) \in Seq(Instruction)
      BY <1>1, <2>3
    <2>6. SubSeq(b.code, 1, at - 1) \o sub \o SubSeq(b.code, at, Len(b.code))
            \in Seq(Instruction)
      BY <2>4, <2>5
    <2> QED BY <1>1, <1>3, <2>6 DEF Splice, at, Block
  <1> QED BY <1>2, <1>3

\* ---- the parser stack ---------------------------------------------------------

\* The values semantic actions build are stack entries.
LEMMA PlainType ==
  ASSUME NEW s \in Symbols
  PROVE  Plain(s) \in Entry /\ Plain(s).sym = s
  BY DEF Plain, Entry

\* The value of a marker.
LEMMA MarkerType ==
  ASSUME NEW s \in Symbols, NEW l \in Nat, NEW d \in SUBSET Nat
  PROVE  Marker(s, l, d) \in Entry /\ Marker(s, l, d).sym = s /\ Marker(s, l, d).dest = d
  BY DEF Marker, Entry

\* The value of a condition.
LEMMA BoolType ==
  ASSUME NEW s \in Symbols, NEW t \in SUBSET Nat, NEW f \in SUBSET Nat
  PROVE  Bool(s, t, f) \in Entry /\ Bool(s, t, f).sym = s
  BY DEF Bool, Entry

\* The value of a statement.
LEMMA StmtType ==
  ASSUME NEW s \in Symbols, NEW n \in SUBSET Nat, NEW r \in SUBSET Nat
  PROVE  Stmt(s, n, r) \in Entry /\ Stmt(s, n, r).sym = s
  BY DEF Stmt, Entry

\* The default action of a unit production.
LEMMA AsType ==
  ASSUME NEW s \in Symbols, NEW e \in Entry
  PROVE  As(s, e) \in Entry /\ As(s, e).sym = s
  BY DEF As, Entry

\* Marker m2 always carries the skip label the function is closed with.
M2Skips(s) == \A i \in DOMAIN s : s[i].sym = "m2" => s[i].dest # {}

TypeInv == TypeOK /\ M2Skips(stack)

\* What a rule reads on top of the stack are entries.
LEMMA ValType ==
  ASSUME stack \in Seq(Entry), NEW k \in 1 .. Len(stack)
  PROVE  /\ Val(k) \in Entry
         /\ Val(k) = stack[Len(stack) - k + 1]
         /\ Len(stack) - k + 1 \in DOMAIN stack
  BY DEF Val

\* A shift and a reduction leave a stack of entries.
LEMMA ShiftType ==
  ASSUME TypeInv, NEW e \in Entry, e.sym = "m2" => e.dest # {}, Shift(e)
  PROVE  stack' \in Seq(Entry) /\ M2Skips(stack')
  BY DEF TypeInv, TypeOK, Shift, M2Skips

\* Popping k entries and pushing one.
LEMMA ReduceType ==
  ASSUME TypeInv, NEW k \in 1 .. Len(stack), NEW e \in Entry, e.sym # "m2", Reduce(k, e)
  PROVE  stack' \in Seq(Entry) /\ M2Skips(stack')
  <1> DEFINE rest == SubSeq(stack, 1, Len(stack) - k)
  <1>1. stack \in Seq(Entry) /\ stack' = Append(rest, e)
    BY DEF TypeInv, TypeOK, Reduce
  <1>2. rest \in Seq(Entry) /\ Len(rest) = Len(stack) - k
        /\ \A i \in 1 .. Len(rest) : rest[i] = stack[i] /\ i \in DOMAIN stack
    BY <1>1
  <1> HIDE DEF rest
  <1>3. \A i \in 1 .. Len(rest) : stack[i].sym = "m2" => stack[i].dest # {}
    BY <1>2 DEF TypeInv, M2Skips
  <1> QED BY <1>1, <1>2, <1>3, SMTT(40) DEF M2Skips

\* A unit production, with or without brackets.
LEMMA AsReduceType ==
  ASSUME TypeInv, NEW k \in 1 .. Len(stack), NEW s \in Symbols \ {"m2"},
         Reduce(k, As(s, Val(1)))
  PROVE  stack' \in Seq(Entry) /\ M2Skips(stack')
  <1>1. 1 \in 1 .. Len(stack) /\ stack \in Seq(Entry)
    BY DEF TypeInv, TypeOK
  <1>2. As(s, Val(1)) \in Entry /\ As(s, Val(1)).sym # "m2"
    BY <1>1, ValType, AsType
  <1> QED BY <1>2, ReduceType

\* A rule's right-hand side lies on the stack.
LEMMA OnTopLen ==
  ASSUME stack \in Seq(Entry), NEW rhs \in Seq(Symbols), OnTop(rhs)
  PROVE  /\ Len(rhs) <= Len(stack)
         /\ \A k \in 1 .. Len(rhs) : Val(k).sym = rhs[Len(rhs) - k + 1]
  <1>1. Len(rhs) <= Len(stack) /\ Len(rhs) \in Nat /\ DOMAIN rhs = 1 .. Len(rhs)
    BY DEF OnTop
  <1> SUFFICES ASSUME NEW k \in 1 .. Len(rhs)
               PROVE  Val(k).sym = rhs[Len(rhs) - k + 1]
    BY <1>1
  <1>2. Len(rhs) - k + 1 \in DOMAIN rhs
    BY <1>1
  <1>3. Len(stack) - Len(rhs) + (Len(rhs) - k + 1) = Len(stack) - k + 1
    BY <1>1
  <1> QED BY <1>2, <1>3 DEF OnTop, Val

\* Counting a token.
LEMMA CountType == ASSUME TypeInv, Count PROVE size' \in Nat
  BY DEF TypeInv, TypeOK, Count

\* Continuing with a block.
LEMMA ContinueType ==
  ASSUME NEW b \in Block, Continue(b)
  PROVE  emit' \in Block /\ status' \in {"parsing", "done", "error", "bug"}
  BY DEF Continue

\* ---- type correctness ------------------------------------------------------------

\* The types hold when the parser starts.
LEMMA TypeInit == Init => TypeInv
  <1> SUFFICES ASSUME Init PROVE TypeInv
    OBVIOUS
  <1>1. EmptyBlock \in Block
    BY DEF EmptyBlock, Block
  <1>2. stack \in Seq(Entry) /\ M2Skips(stack)
    BY DEF Init, M2Skips
  <1> QED BY <1>1, <1>2 DEF Init, TypeInv, TypeOK

\* The actions that open the program and the function.
LEMMA TypeHeader ==
  ASSUME TypeInv, M2 \/ FuncHeader \/ NoFunction \/ M4 \/ CompileError \/ Finished
  PROVE  TypeInv'
  <1> USE DEF Parsing, Room, Count
  <1>t. emit \in Block /\ size \in Nat /\ stack \in Seq(Entry)
    BY DEF TypeInv, TypeOK
  <1>1. CASE M2
    <2> DEFINE skip == FreshLabel(emit)
               one == NewLabel(emit)
               two == NewLabel(one)
               b == Label(Ujump(two, skip), skip + 1)
               e == Marker("m2", skip + 1, {skip})
    <2>1. skip \in Nat /\ skip + 1 \in Nat /\ two \in Block
      BY <1>t, NewLabelType
    <2>2. b \in Block
      BY <2>1, Closed
    <2>3. {skip} \in SUBSET Nat /\ {skip} # {} /\ "m2" \in Symbols
      BY <2>1 DEF Symbols
    <2>3a. e \in Entry /\ e.dest # {}
      BY <2>1, <2>3, MarkerType
    <2>4. Continue(b) /\ Shift(e)
      BY <1>1 DEF M2
    <2> HIDE DEF b, e, skip
    <2>5. emit' \in Block /\ status' \in {"parsing", "done", "error", "bug"}
      BY <2>2, <2>4, ContinueType
    <2>6. stack' \in Seq(Entry) /\ M2Skips(stack')
      BY <2>3a, <2>4, ShiftType
    <2> QED BY <1>1, <2>5, <2>6 DEF M2, TypeInv, TypeOK
  <1>2. CASE FuncHeader
    <2>1. stack' \in Seq(Entry) /\ M2Skips(stack')
      BY <1>2, PlainType, ShiftType DEF Symbols, FuncHeader
    <2> QED BY <1>2, <2>1 DEF FuncHeader, TypeInv, TypeOK
  <1>3. CASE NoFunction
    <2>1. stack' \in Seq(Entry) /\ M2Skips(stack')
      BY <1>3, PlainType, ShiftType DEF Symbols, NoFunction
    <2> QED BY <1>3, <2>1 DEF NoFunction, TypeInv, TypeOK
  <1>4. CASE M4
    <2>1. stack' \in Seq(Entry) /\ M2Skips(stack')
      BY <1>4, PlainType, ShiftType DEF Symbols, M4
    <2>2. Inst("COPYI", 0, 0) \in Instruction
      BY InstType DEF DataOps
    <2>3. Emit(Emit(emit, Inst("COPYI", 0, 0)), Inst("COPYI", 0, 0)) \in Block
      BY <1>t, <2>2, EmitType
    <2>4. emit' \in Block /\ status' \in {"parsing", "done", "error", "bug"}
      BY <1>4, <2>3, ContinueType DEF M4
    <2> QED BY <1>4, <2>1, <2>4 DEF M4, TypeInv, TypeOK
  <1>5. CASE CompileError
    <2>1. EmptyBlock \in Block
      BY DEF EmptyBlock, Block
    <2>2. stack' \in Seq(Entry) /\ M2Skips(stack')
      BY <1>5 DEF CompileError, M2Skips
    <2> QED BY <1>5, <2>1, <2>2 DEF CompileError, TypeInv, TypeOK
  <1>6. CASE Finished
    BY <1>6 DEF Finished, vars, TypeInv, TypeOK, M2Skips
  <1> QED BY <1>1, <1>2, <1>3, <1>4, <1>5, <1>6

\* A fresh label and the lists of an entry are (sets of) numbers.
LEMMA ListType ==
  ASSUME NEW e \in Entry
  PROVE  /\ e.nextlist \in SUBSET Nat /\ e.retlist \in SUBSET Nat
         /\ e.truelist \in SUBSET Nat /\ e.falselist \in SUBSET Nat
         /\ e.dest \in SUBSET Nat /\ e.label \in Nat
  BY DEF Entry

\* enforce_valid_nextlist makes a block and a list.
LEMMA EnforcedType ==
  ASSUME NEW b \in Block, NEW n \in SUBSET Nat
  PROVE  EnforcedList(b, n) \in SUBSET Nat
  BY NewLabelType DEF EnforcedList

\* The actions that close the function and the program.
LEMMA TypeClose ==
  ASSUME TypeInv, Function \/ MainFunction
  PROVE  TypeInv'
  <1>t. emit \in Block /\ stack \in Seq(Entry)
    BY DEF TypeInv, TypeOK
  <1>1. CASE Function
    <2> DEFINE save == Inst("SAVE", 0, IF lrTouched THEN 1 ELSE 0)
               spliced == Splice(emit, Val(3).label, <<save>>)
               leave == FreshLabel(emit)
               left == IF Val(1).nextlist \cup Val(1).retlist = {}
                       THEN spliced
                       ELSE BackpatchIfAny(
                              BackpatchIfAny(Mark(spliced), Val(1).nextlist, leave),
                              Val(1).retlist, leave)
               restore == Inst("RESTORE", 0, IF lrTouched THEN 1 ELSE 0)
               retrn == Inst("RETRN", 0, 0)
               b == Label(Emit(Emit(left, restore), retrn), CHOOSE l \in Val(3).dest : TRUE)
    <2>1. OnTop(<<"m2", "func_arg", "blk">>) /\ Continue(b) /\ Reduce(3, Plain("function"))
      BY <1>1 DEF Function
    <2>2. Len(stack) \in Nat /\ 3 <= Len(stack) /\ Val(3).sym = "m2"
      BY <1>t, <2>1 DEF OnTop, Val
    <2>3. Val(1) \in Entry /\ Val(3) \in Entry
      BY <1>t, <2>2, ValType
    <2>4. Val(3).dest # {}
      <3>1. Val(3) = stack[Len(stack) - 3 + 1] /\ Len(stack) - 3 + 1 \in DOMAIN stack
        BY <1>t, <2>2, ValType
      <3> QED BY <2>2, <3>1 DEF TypeInv, M2Skips
    <2>5. Val(3).label \in Nat /\ (CHOOSE l \in Val(3).dest : TRUE) \in Nat
      BY <2>3, <2>4, ListType
    <2>6. save \in Instruction
          /\ restore \in Instruction /\ retrn \in Instruction
      BY InstType DEF DataOps, LinkOps
    <2> HIDE DEF save
    <2>7. spliced \in Block
      <3>1. <<save>> \in Seq(Instruction)
        BY <2>6
      <3> QED BY <1>t, <2>5, <3>1, SpliceType
    <2>8. leave \in Nat
      BY <1>t, NewLabelType
    <2> HIDE DEF spliced, leave, restore, retrn
    <2>9. left \in Block
      BY <2>7, <2>8, Closed
    <2> HIDE DEF left
    <2>10. b \in Block
      <3>1. Emit(Emit(left, restore), retrn) \in Block
        BY <2>6, <2>9, EmitType
      <3> QED BY <2>5, <3>1, Closed
    <2> HIDE DEF b
    <2>11. emit' \in Block /\ status' \in {"parsing", "done", "error", "bug"}
      BY <2>1, <2>10, ContinueType
    <2>12. stack' \in Seq(Entry) /\ M2Skips(stack')
      BY <2>1, <2>2, PlainType, ReduceType DEF Symbols
    <2> QED BY <1>1, <2>11, <2>12 DEF Function, TypeInv, TypeOK
  <1>2. CASE MainFunction
    <2> DEFINE ended == IF Val(1).nextlist = {} THEN emit
                        ELSE Backpatch(Mark(emit), Val(1).nextlist, FreshLabel(emit))
    <2>1. OnTop(<<"function", "m4", "blk">>) /\ Reduce(3, Plain("program"))
      BY <1>2 DEF MainFunction
    <2>2. Len(stack) \in Nat /\ 3 <= Len(stack)
      BY <1>t, <2>1 DEF OnTop
    <2>3. stack' \in Seq(Entry) /\ M2Skips(stack')
      BY <2>1, <2>2, PlainType, ReduceType DEF Symbols
    <2>4. ended \in Block
      BY <1>t, NewLabelType, Closed, BackpatchType
    <2>5. Inst("HALT", 0, 0) \in Instruction
      BY InstType DEF LinkOps
    <2>6. Emit(ended, Inst("HALT", 0, 0)) \in Block
      BY <2>4, <2>5, EmitType
    <2>7. /\ emit' \in {emit, Emit(ended, Inst("HALT", 0, 0))}
          /\ status' \in {"done", "error", "bug"}
      BY <1>2 DEF MainFunction
    <2> HIDE DEF ended
    <2> QED BY <1>2, <1>t, <2>3, <2>6, <2>7 DEF MainFunction, TypeInv, TypeOK
  <1> QED BY <1>1, <1>2

\* The actions of blocks and statement lists.
LEMMA TypeLists ==
  ASSUME TypeInv, OpenBlk \/ M6 \/ ReduceList \/ CloseBlk \/ StmtUnit
  PROVE  TypeInv'
  <1>t. emit \in Block /\ size \in Nat /\ stack \in Seq(Entry)
    BY DEF TypeInv, TypeOK
  <1>1. CASE OpenBlk
    <2> DEFINE b == Emit(Emit(emit, Inst("LOADI", 0, 0)), Inst("LOADI", 0, 0))
    <2>1. b \in Block
      BY <1>t, InstType, EmitType DEF DataOps
    <2>2. /\ emit' \in Block
          /\ status' \in {"parsing", "done", "error", "bug"}
          /\ func' \in {"none", "current", "known"}
      <3>1. CASE func = "current"
        <4>1. Continue(b) /\ func' = "known"
          BY <1>1, <3>1 DEF OpenBlk
        <4> QED BY <2>1, <4>1, ContinueType
      <3>2. CASE func # "current"
        BY <1>1, <3>2 DEF OpenBlk, TypeInv, TypeOK
      <3> QED BY <3>1, <3>2
    <2>3. stack' \in Seq(Entry) /\ M2Skips(stack')
      <3>1. stack' = Append(Append(stack, Plain("m0")), Plain("list"))
        BY <1>1 DEF OpenBlk
      <3>2. Plain("m0") \in Entry /\ Plain("list") \in Entry
            /\ Plain("m0").sym # "m2" /\ Plain("list").sym # "m2"
        BY PlainType DEF Symbols
      <3> QED BY <1>t, <3>1, <3>2 DEF TypeInv, M2Skips
    <2> QED BY <1>1, <2>2, <2>3, CountType DEF OpenBlk, TypeInv, TypeOK
  <1>2. CASE M6
    <2>1. /\ emit' \in Block
          /\ status' \in {"parsing", "done", "error", "bug"}
          /\ stack' \in Seq(Entry) /\ M2Skips(stack')
      <3>1. CASE stmt_has_nextlist
        <4>1. Continue(Mark(emit)) /\ Shift(Marker("m6", FreshLabel(emit), {}))
          BY <1>2, <3>1 DEF M6
        <4>2. Mark(emit) \in Block /\ FreshLabel(emit) \in Nat
          BY <1>t, NewLabelType, Closed
        <4>3. emit' \in Block /\ status' \in {"parsing", "done", "error", "bug"}
          BY <4>1, <4>2, ContinueType
        <4>4. stack' \in Seq(Entry) /\ M2Skips(stack')
          BY <4>1, <4>2, MarkerType, ShiftType DEF Symbols
        <4> QED BY <4>3, <4>4
      <3>2. CASE ~ stmt_has_nextlist
        <4>1. stack' \in Seq(Entry) /\ M2Skips(stack')
          BY <1>2, <3>2, PlainType, ShiftType DEF M6, Symbols
        <4> QED BY <1>2, <3>2, <4>1 DEF M6, TypeInv, TypeOK
      <3> QED BY <3>1, <3>2
    <2> QED BY <1>2, <2>1 DEF M6, TypeInv, TypeOK
  <1>3. CASE ReduceList
    <2> DEFINE b == BackpatchIfAny(emit, Val(3).nextlist, Val(2).label)
               e == Stmt("list", Val(1).nextlist, Val(3).retlist \cup Val(1).retlist)
    <2>1. Continue(b) /\ Reduce(3, e) /\ OnTop(<<"list", "m6", "stmt">>)
      BY <1>3 DEF ReduceList
    <2>2. Len(stack) \in Nat /\ 3 <= Len(stack)
      BY <1>t, <2>1 DEF OnTop
    <2>3. Val(1) \in Entry /\ Val(2) \in Entry /\ Val(3) \in Entry
      BY <1>t, <2>2, ValType
    <2>4. b \in Block
      BY <1>t, <2>3, ListType, Closed
    <2>5. e \in Entry /\ e.sym # "m2"
      BY <2>3, ListType, StmtType DEF Symbols
    <2> HIDE DEF b, e
    <2>6. emit' \in Block /\ status' \in {"parsing", "done", "error", "bug"}
      BY <2>1, <2>4, ContinueType
    <2>7. stack' \in Seq(Entry) /\ M2Skips(stack')
      BY <2>1, <2>2, <2>5, ReduceType
    <2> QED BY <1>3, <2>6, <2>7 DEF ReduceList, TypeInv, TypeOK
  <1>4. CASE CloseBlk
    <2>1. 2 \in 1 .. Len(stack) /\ Reduce(2, As("blk", Val(1)))
      BY <1>t, <1>4 DEF CloseBlk, OnTop
    <2>2. stack' \in Seq(Entry) /\ M2Skips(stack')
      BY <2>1, AsReduceType DEF Symbols
    <2> QED BY <1>4, <2>2 DEF CloseBlk, TypeInv, TypeOK
  <1>5. CASE StmtUnit
    <2>1. 1 \in 1 .. Len(stack) /\ Reduce(1, As("stmt", Val(1)))
      BY <1>t, <1>5 DEF StmtUnit, OnTop
    <2>2. stack' \in Seq(Entry) /\ M2Skips(stack')
      BY <2>1, AsReduceType DEF Symbols
    <2> QED BY <1>5, <2>2 DEF StmtUnit, TypeInv, TypeOK
  <1> QED BY <1>1, <1>2, <1>3, <1>4, <1>5

\* The actions that shift a token or emit an expression.
LEMMA TypeTokens ==
  ASSUME TypeInv, NEW e, Assn(e) \/ Return(e)
  PROVE  TypeInv'
  <1>t. emit \in Block /\ size \in Nat /\ stack \in Seq(Entry)
    BY DEF TypeInv, TypeOK
  <1> DEFINE stored == Emit(EmitExp(emit, e), Inst("OP", 0, size))
  <1>1. stored \in Block
    <2>1. Inst("OP", 0, size) \in Instruction /\ Inst("JLINK", 0, size) \in Instruction
      BY <1>t, InstType DEF DataOps, LinkOps
    <2>2. EmitExp(emit, e) \in Block
      BY <1>t, <2>1, EmitType DEF EmitExp
    <2> QED BY <2>1, <2>2, EmitType
  <1> HIDE DEF stored
  <1>2. TouchLR(e) => lrTouched' \in BOOLEAN
    BY DEF TouchLR, TypeInv, TypeOK
  <1>3. CASE Assn(e)
    <2>1. Continue(stored) /\ Shift(Plain("assn")) /\ TouchLR(e)
      BY <1>3 DEF Assn, stored
    <2>2. emit' \in Block /\ status' \in {"parsing", "done", "error", "bug"}
      BY <1>1, <2>1, ContinueType
    <2>3. stack' \in Seq(Entry) /\ M2Skips(stack')
      BY <2>1, PlainType, ShiftType DEF Symbols
    <2> QED BY <1>2, <1>3, <2>1, <2>2, <2>3, CountType DEF Assn, TypeInv, TypeOK
  <1>4. CASE Return(e)
    <2>1. /\ Continue(JumpFresh(stored)) /\ TouchLR(e)
          /\ Shift(Stmt("return", {}, {FreshLabel(stored)}))
      BY <1>4 DEF Return, stored
    <2>2. JumpFresh(stored) \in Block /\ {FreshLabel(stored)} \in SUBSET Nat
      BY <1>1, NewLabelType, Closed
    <2>3. emit' \in Block /\ status' \in {"parsing", "done", "error", "bug"}
      BY <2>1, <2>2, ContinueType
    <2>4. stack' \in Seq(Entry) /\ M2Skips(stack')
      BY <2>1, <2>2, StmtType, ShiftType DEF Symbols
    <2> QED BY <1>2, <1>4, <2>1, <2>3, <2>4, CountType DEF Return, TypeInv, TypeOK
  <1> QED BY <1>3, <1>4

\* A comparison: two labels, two jumps.
LEMMA TypeRelOp ==
  ASSUME TypeInv, NEW e, NEW inverse, RelOp(e, inverse)
  PROVE  TypeInv'
  <1>t. emit \in Block /\ size \in Nat
    BY DEF TypeInv, TypeOK
  <1> DEFINE truelabel == FreshLabel(emit)
             falselabel == truelabel + 1
             two == EmitExp(NewLabel(NewLabel(emit)), e)
             cmp == Inst("CMP", 0, size)
             cmpn == Inst("CMPN", 0, size)
             breqz == Inst("BREQZ", falselabel, 0)
             bneqz == Inst("BNEQZ", truelabel, 0)
             straight == Ujump(Emit(Emit(two, cmp), breqz), truelabel)
             negated == Ujump(Emit(Emit(two, cmpn), bneqz), falselabel)
  <1>1. truelabel \in Nat /\ falselabel \in Nat
    BY <1>t, NewLabelType
  <1>2. /\ cmp \in Instruction /\ cmpn \in Instruction
        /\ breqz \in Instruction /\ bneqz \in Instruction
        /\ Inst("JLINK", 0, size) \in Instruction
    BY <1>t, <1>1, InstType DEF DataOps, JumpOps, LinkOps
  <1>3. two \in Block
    BY <1>t, <1>2, NewLabelType, EmitType DEF EmitExp
  <1>a. CASE inverse
    <2>1. Continue(negated) /\ Shift(Bool("bpfac", {falselabel}, {truelabel}))
      BY <1>a DEF RelOp
    <2> HIDE DEF cmp, cmpn, breqz, bneqz, two, truelabel, falselabel
    <2>2. negated \in Block
      BY <1>1, <1>2, <1>3, EmitType, Closed
    <2>3. {falselabel} \in SUBSET Nat /\ {truelabel} \in SUBSET Nat
      BY <1>1
    <2>4. stack' \in Seq(Entry) /\ M2Skips(stack')
      BY <2>1, <2>3, BoolType, ShiftType DEF Symbols
    <2>5. emit' \in Block /\ status' \in {"parsing", "done", "error", "bug"}
      BY <2>1, <2>2, ContinueType
    <2> QED BY <2>4, <2>5, CountType DEF RelOp, TouchLR, TypeInv, TypeOK
  <1>b. CASE ~ inverse
    <2>1. Continue(straight) /\ Shift(Bool("bpfac", {truelabel}, {falselabel}))
      BY <1>b DEF RelOp
    <2> HIDE DEF cmp, cmpn, breqz, bneqz, two, truelabel, falselabel
    <2>2. straight \in Block
      BY <1>1, <1>2, <1>3, EmitType, Closed
    <2>3. {falselabel} \in SUBSET Nat /\ {truelabel} \in SUBSET Nat
      BY <1>1
    <2>4. stack' \in Seq(Entry) /\ M2Skips(stack')
      BY <2>1, <2>3, BoolType, ShiftType DEF Symbols
    <2>5. emit' \in Block /\ status' \in {"parsing", "done", "error", "bug"}
      BY <2>1, <2>2, ContinueType
    <2> QED BY <2>4, <2>5, CountType DEF RelOp, TouchLR, TypeInv, TypeOK
  <1> QED BY <1>a, <1>b

\* The rules of conditions.
LEMMA TypeConditions ==
  ASSUME TypeInv, ShiftBool \/ ShiftCntrl \/ BoolUnit \/ Paren \/ Not \/ And \/ Or
  PROVE  TypeInv'
  <1>t. emit \in Block /\ stack \in Seq(Entry)
    BY DEF TypeInv, TypeOK
  <1>1. CASE ShiftBool
    <2>1. stack' \in Seq(Entry) /\ M2Skips(stack')
      BY <1>1, PlainType, ShiftType DEF ShiftBool, Symbols
    <2> QED BY <1>1, <2>1, CountType DEF ShiftBool, TypeInv, TypeOK
  <1>2. CASE ShiftCntrl
    <2>1. stack' \in Seq(Entry) /\ M2Skips(stack')
      BY <1>2, PlainType, ShiftType DEF ShiftCntrl, Symbols
    <2> QED BY <1>2, <2>1, CountType DEF ShiftCntrl, TypeInv, TypeOK
  <1>3. CASE BoolUnit
    <2>1. PICK s \in {"bfac", "bterm", "bexp"} : 1 \in 1 .. Len(stack) /\ Reduce(1, As(s, Val(1)))
      BY <1>t, <1>3 DEF BoolUnit, OnTop
    <2>2. stack' \in Seq(Entry) /\ M2Skips(stack')
      BY <2>1, AsReduceType DEF Symbols
    <2> QED BY <1>3, <2>2 DEF BoolUnit, TypeInv, TypeOK
  <1>4. CASE Paren
    <2>1. 2 \in 1 .. Len(stack) /\ Reduce(2, As("bpfac", Val(1)))
      BY <1>t, <1>4 DEF Paren, OnTop
    <2>2. stack' \in Seq(Entry) /\ M2Skips(stack')
      BY <2>1, AsReduceType DEF Symbols
    <2> QED BY <1>4, <2>2 DEF Paren, TypeInv, TypeOK
  <1>5. CASE Not
    <2>1. 2 \in 1 .. Len(stack) /\ Reduce(2, Bool("bfac", Val(1).falselist, Val(1).truelist))
      BY <1>t, <1>5 DEF Not, OnTop
    <2>2. Val(1) \in Entry
      BY <1>t, <2>1, ValType
    <2>3. stack' \in Seq(Entry) /\ M2Skips(stack')
      BY <2>1, <2>2, ListType, BoolType, ReduceType DEF Symbols
    <2> QED BY <1>5, <2>3 DEF Not, TypeInv, TypeOK
  <1>6. CASE And
    <2>1. /\ Len(stack) \in Nat /\ 3 <= Len(stack)
          /\ Continue(Backpatch(emit, Val(3).truelist, Val(2).label))
          /\ Reduce(3, Bool("bterm", Val(1).truelist, Val(3).falselist \cup Val(1).falselist))
      BY <1>t, <1>6 DEF And, OnTop
    <2>2. Val(1) \in Entry /\ Val(2) \in Entry /\ Val(3) \in Entry
      BY <1>t, <2>1, ValType
    <2>3. stack' \in Seq(Entry) /\ M2Skips(stack')
      BY <2>1, <2>2, ListType, BoolType, ReduceType DEF Symbols
    <2>4. emit' \in Block /\ status' \in {"parsing", "done", "error", "bug"}
      BY <1>t, <2>1, <2>2, ListType, BackpatchType, ContinueType
    <2> QED BY <1>6, <2>3, <2>4 DEF And, TypeInv, TypeOK
  <1>7. CASE Or
    <2>1. /\ Len(stack) \in Nat /\ 3 <= Len(stack)
          /\ Continue(Backpatch(emit, Val(3).falselist, Val(2).label))
          /\ Reduce(3, Bool("bexp", Val(3).truelist \cup Val(1).truelist, Val(1).falselist))
      BY <1>t, <1>7 DEF Or, OnTop
    <2>2. Val(1) \in Entry /\ Val(2) \in Entry /\ Val(3) \in Entry
      BY <1>t, <2>1, ValType
    <2>3. stack' \in Seq(Entry) /\ M2Skips(stack')
      BY <2>1, <2>2, ListType, BoolType, ReduceType DEF Symbols
    <2>4. emit' \in Block /\ status' \in {"parsing", "done", "error", "bug"}
      BY <1>t, <2>1, <2>2, ListType, BackpatchType, ContinueType
    <2> QED BY <1>7, <2>3, <2>4 DEF Or, TypeInv, TypeOK
  <1> QED BY <1>1, <1>2, <1>3, <1>4, <1>5, <1>6, <1>7

\* The markers inside control statements and conditions.
LEMMA TypeMarkers ==
  ASSUME TypeInv, M1 \/ M5
  PROVE  TypeInv'
  <1>t. emit \in Block /\ FreshLabel(emit) \in Nat
        /\ Mark(emit) \in Block /\ JumpFresh(emit) \in Block
    BY NewLabelType, Closed DEF TypeInv, TypeOK
  <1>1. CASE M1
    <2>1. PICK s \in Symbols \ {"m2"} : Shift(Marker(s, FreshLabel(emit), {}))
      BY <1>1 DEF M1, ActiveSites, M1Sites, Symbols
    <2>2. stack' \in Seq(Entry) /\ M2Skips(stack')
      BY <1>t, <2>1, MarkerType, ShiftType
    <2>3. emit' \in Block /\ status' \in {"parsing", "done", "error", "bug"}
      BY <1>t, <1>1, ContinueType DEF M1
    <2> QED BY <1>1, <2>2, <2>3 DEF M1, TypeInv, TypeOK
  <1>2. CASE M5
    <2>1. PICK s \in Symbols \ {"m2"} : Shift(Marker(s, 0, {FreshLabel(emit)}))
      BY <1>2 DEF M5, Symbols
    <2>2. stack' \in Seq(Entry) /\ M2Skips(stack')
      BY <1>t, <2>1, MarkerType, ShiftType
    <2>3. emit' \in Block /\ status' \in {"parsing", "done", "error", "bug"}
      BY <1>t, <1>2, ContinueType DEF M5
    <2> QED BY <1>2, <2>2, <2>3 DEF M5, TypeInv, TypeOK
  <1> QED BY <1>1, <1>2

\* The rules of control statements.
LEMMA TypeControl ==
  ASSUME TypeInv, IfElse \/ IfThen \/ For \/ While
  PROVE  TypeInv'
  <1>t. emit \in Block /\ stack \in Seq(Entry)
    BY DEF TypeInv, TypeOK
  <1>1. CASE IfElse
    <2> DEFINE one == Backpatch(emit, Val(6).truelist, Val(5).label)
               patched == Backpatch(one, Val(6).falselist, Val(2).label)
               b == Enforced(patched, Val(1).nextlist)
               n == Val(3).dest \cup Val(4).nextlist \cup EnforcedList(patched, Val(1).nextlist)
               r == Val(4).retlist \cup Val(1).retlist
    <2>1. Len(stack) \in Nat /\ 7 <= Len(stack)
      BY <1>t, <1>1 DEF IfElse, OnTop
    <2>2. Continue(b) /\ Reduce(7, Stmt("cntrl", n, r)) /\ UNCHANGED <<stmt_has_nextlist, noElse, func, lrTouched, size>>
      BY <1>1 DEF IfElse
    <2>3. /\ Val(1) \in Entry /\ Val(2) \in Entry /\ Val(3) \in Entry
          /\ Val(4) \in Entry /\ Val(5) \in Entry /\ Val(6) \in Entry
      BY <1>t, <2>1, ValType
    <2>4. one \in Block
      BY <1>t, <2>3, ListType, BackpatchType
    <2> HIDE DEF one
    <2>5. patched \in Block
      BY <2>3, <2>4, ListType, BackpatchType
    <2> HIDE DEF patched
    <2>6. b \in Block /\ n \in SUBSET Nat /\ r \in SUBSET Nat
      BY <2>3, <2>5, ListType, Closed, EnforcedType
    <2> HIDE DEF b, n, r
    <2>7. stack' \in Seq(Entry) /\ M2Skips(stack')
      BY <2>1, <2>2, <2>6, StmtType, ReduceType DEF Symbols
    <2>8. emit' \in Block /\ status' \in {"parsing", "done", "error", "bug"}
      BY <2>2, <2>6, ContinueType
    <2> QED BY <2>2, <2>7, <2>8 DEF TypeInv, TypeOK
  <1>2. CASE IfThen
    <2> DEFINE patched == Backpatch(emit, Val(3).truelist, Val(2).label)
               b == Enforced(patched, Val(1).nextlist)
               n == Val(3).falselist \cup EnforcedList(patched, Val(1).nextlist)
               r == Val(1).retlist
    <2>1. Len(stack) \in Nat /\ 4 <= Len(stack)
      BY <1>t, <1>2 DEF IfThen, OnTop
    <2>2. /\ Continue(b) /\ Reduce(4, Stmt("cntrl", n, r))
          /\ noElse' = TRUE /\ UNCHANGED <<stmt_has_nextlist, func, lrTouched, size>>
      BY <1>2 DEF IfThen
    <2>3. Val(1) \in Entry /\ Val(2) \in Entry /\ Val(3) \in Entry
      BY <1>t, <2>1, ValType
    <2>4. patched \in Block
      BY <1>t, <2>3, ListType, BackpatchType
    <2> HIDE DEF patched
    <2>5. b \in Block /\ n \in SUBSET Nat /\ r \in SUBSET Nat
      BY <2>3, <2>4, ListType, Closed, EnforcedType
    <2> HIDE DEF b, n, r
    <2>6. stack' \in Seq(Entry) /\ M2Skips(stack')
      BY <2>1, <2>2, <2>5, StmtType, ReduceType DEF Symbols
    <2>7. emit' \in Block /\ status' \in {"parsing", "done", "error", "bug"}
      BY <2>2, <2>5, ContinueType
    <2> QED BY <2>2, <2>6, <2>7 DEF TypeInv, TypeOK
  <1>3. CASE For
    <2> DEFINE cond == Val(7).label
               one == BackpatchIfAny(emit, Val(8).nextlist, cond)
               entered == Backpatch(one, Val(6).truelist, Val(2).label)
               two == Enforced(entered, Val(1).nextlist)
               looped == Backpatch(two, EnforcedList(entered, Val(1).nextlist), Val(5).label)
               b == Backpatch(looped, Val(3).dest \cup Val(4).nextlist, cond)
               n == Val(6).falselist
               r == Val(8).retlist \cup Val(4).retlist \cup Val(1).retlist
    <2>1. Len(stack) \in Nat /\ 9 <= Len(stack)
      BY <1>t, <1>3 DEF For, OnTop
    <2>2. Continue(b) /\ Reduce(9, Stmt("cntrl", n, r)) /\ UNCHANGED <<stmt_has_nextlist, noElse, func, lrTouched, size>>
      BY <1>3 DEF For
    <2>3. /\ Val(1) \in Entry /\ Val(2) \in Entry /\ Val(3) \in Entry
          /\ Val(4) \in Entry /\ Val(5) \in Entry /\ Val(6) \in Entry
          /\ Val(7) \in Entry /\ Val(8) \in Entry
      BY <1>t, <2>1, ValType
    <2>4. one \in Block /\ cond \in Nat
      BY <1>t, <2>3, ListType, Closed
    <2> HIDE DEF one, cond
    <2>5. entered \in Block
      BY <2>3, <2>4, ListType, BackpatchType
    <2> HIDE DEF entered
    <2>6. two \in Block
      BY <2>3, <2>5, ListType, Closed
    <2> HIDE DEF two
    <2>7. looped \in Block
      BY <2>3, <2>6, ListType, BackpatchType
    <2> HIDE DEF looped
    <2>8. b \in Block /\ n \in SUBSET Nat /\ r \in SUBSET Nat
      BY <2>3, <2>4, <2>7, ListType, BackpatchType
    <2> HIDE DEF b, n, r
    <2>9. stack' \in Seq(Entry) /\ M2Skips(stack')
      BY <2>1, <2>2, <2>8, StmtType, ReduceType DEF Symbols
    <2>10. emit' \in Block /\ status' \in {"parsing", "done", "error", "bug"}
      BY <2>2, <2>8, ContinueType
    <2> QED BY <2>2, <2>9, <2>10 DEF TypeInv, TypeOK
  <1>4. CASE While
    <2> DEFINE entered == Backpatch(emit, Val(3).truelist, Val(2).label)
               two == Enforced(entered, Val(1).nextlist)
               b == Backpatch(two, EnforcedList(entered, Val(1).nextlist), Val(4).label)
    <2>1. Len(stack) \in Nat /\ 5 <= Len(stack)
      BY <1>t, <1>4 DEF While, OnTop
    <2>2. /\ Continue(b) /\ Reduce(5, Stmt("cntrl", Val(3).falselist, Val(1).retlist))
          /\ UNCHANGED <<stmt_has_nextlist, noElse, func, lrTouched, size>>
      BY <1>4 DEF While
    <2>3. /\ Val(1) \in Entry /\ Val(2) \in Entry /\ Val(3) \in Entry
          /\ Val(4) \in Entry
      BY <1>t, <2>1, ValType
    <2>4. entered \in Block
      BY <1>t, <2>3, ListType, BackpatchType
    <2> HIDE DEF entered
    <2>5. two \in Block
      BY <2>3, <2>4, ListType, Closed
    <2> HIDE DEF two
    <2>6. b \in Block
      BY <2>3, <2>5, ListType, BackpatchType
    <2> HIDE DEF b
    <2>7. stack' \in Seq(Entry) /\ M2Skips(stack')
      BY <2>1, <2>2, <2>3, ListType, StmtType, ReduceType DEF Symbols
    <2>8. emit' \in Block /\ status' \in {"parsing", "done", "error", "bug"}
      BY <2>2, <2>6, ContinueType
    <2> QED BY <2>2, <2>7, <2>8 DEF TypeInv, TypeOK
  <1> QED BY <1>1, <1>2, <1>3, <1>4

\* Type correctness: whatever program is compiled, the emitted code is a block
\* and bison's stack holds values of %union; marker m2 has its skip label.
THEOREM TypeCorrect == Spec => [](TypeOK /\ M2Skips(stack))
  <1>1. ASSUME TypeInv, [Next]_vars
        PROVE  TypeInv'
    <2>1. CASE UNCHANGED vars
      BY <1>1, <2>1 DEF vars, TypeInv, TypeOK, M2Skips
    <2>2. CASE \E e \in Exps : Operation(e)
      BY <1>1, <2>2, TypeTokens, TypeRelOp DEF Operation
    <2>3. CASE Finished
      BY <1>1, <2>3, TypeHeader
    <2>4. CASE Rule
      BY <1>1, <2>4, TypeHeader, TypeClose, TypeLists, TypeConditions, TypeMarkers,
         TypeControl DEF Rule
    <2> QED BY <1>1, <2>1, <2>2, <2>3, <2>4 DEF Next
  <1>2. TypeInv => TypeOK /\ M2Skips(stack)
    BY DEF TypeInv
  <1> QED BY <1>1, <1>2, TypeInit, PTL DEF Spec

\* ---- a block and its open labels -----------------------------------------------

\* b is sound when the labels in open, and no other label of a jump, wait for
\* their target: they are neither emitted nor patched.  Every other label of a
\* jump is emitted, or patched to an emitted label, which ends the chain.
Sound(b, open) ==
  /\ b \in Block /\ b.ok
  /\ open \subseteq Labels(b) /\ Defined(b) \subseteq Labels(b)
  /\ \A l \in open : b.next[l] = 0 /\ l \notin Defined(b)
  /\ \A l \in Defined(b) : b.next[l] = 0
  /\ \A l \in Labels(b) : b.next[l] # 0 => b.next[l] \in Defined(b)
  /\ Targets(b) \subseteq Labels(b)
  /\ \A l \in Targets(b) : l \in Defined(b) \/ b.next[l] # 0 \/ l \in open

\* c comes after b: what is emitted and what is patched stays so.
After(b, c) ==
  /\ Labels(b) \subseteq Labels(c) /\ Defined(b) \subseteq Defined(c)
  /\ \A l \in Labels(b) : b.next[l] # 0 => c.next[l] = b.next[l]

\* Emitting and patching in several calls.
LEMMA AfterTransitive ==
  ASSUME NEW b, NEW c, NEW d, After(b, c), After(c, d)
  PROVE  After(b, d)
  BY DEF After

\* Emitting nothing.
LEMMA AfterSelf == \A b : After(b, b)
  BY DEF After

\* Labels are positive numbers.
LEMMA LabelsType ==
  ASSUME NEW b \in Block
  PROVE  /\ Labels(b) \subseteq Nat \ {0}
         /\ DOMAIN b.next = Labels(b)
         /\ FreshLabel(b) \notin Labels(b)
         /\ \A l \in Labels(b) : b.next[l] \in Nat
  BY DEF Block, Labels, FreshLabel

\* An open label resolves once nothing is open.
LEMMA SoundResolves ==
  ASSUME NEW b, NEW open, Sound(b, open), NEW l \in Targets(b), l \notin open
  PROVE  Resolves(b, l)
  <1>1. CASE l \in Defined(b)
    BY <1>1 DEF Sound, Resolves
  <1>2. CASE b.next[l] # 0
    BY <1>2 DEF Sound, Resolves
  <1> QED BY <1>1, <1>2 DEF Sound

\* Where a label is emitted, and where it is jumped to.
LEMMA DefinedAt ==
  \A b, l : l \in Defined(b) <=> \E j \in DOMAIN b.code : b.code[j].op = "LABEL" /\ b.code[j].label = l
  BY DEF Defined

\* Where a label is jumped to.
LEMMA TargetAt ==
  \A b, l : l \in Targets(b) <=> \E j \in DOMAIN b.code : b.code[j].op \in JumpOps /\ b.code[j].label = l
  BY DEF Targets

\* Emitting adds what its instruction defines or jumps to.
LEMMA EmitLabels ==
  ASSUME NEW b \in Block, NEW i \in Instruction
  PROVE  /\ Labels(Emit(b, i)) = Labels(b)
         /\ Defined(Emit(b, i)) = IF i.op = "LABEL" THEN Defined(b) \cup {i.label} ELSE Defined(b)
         /\ Targets(Emit(b, i)) = IF i.op \in JumpOps THEN Targets(b) \cup {i.label} ELSE Targets(b)
  <1> DEFINE c == Emit(b, i)
             n == Len(b.code)
  <1>0. c.next = b.next /\ c.code = Append(b.code, i)
    BY EmitType
  <1>1. b.code \in Seq(Instruction) /\ n \in Nat
    BY DEF Block
  <1>2. /\ DOMAIN c.code = 1 .. n + 1 /\ DOMAIN b.code = 1 .. n
        /\ \A j \in 1 .. n : c.code[j] = b.code[j]
        /\ c.code[n + 1] = i
    BY <1>0, <1>1
  <1> HIDE DEF c, n
  <1>3. Labels(c) = Labels(b)
    BY <1>0 DEF Labels
  <1>4. \A l : l \in Defined(c) <=> l \in Defined(b) \/ (i.op = "LABEL" /\ l = i.label)
    <2> SUFFICES ASSUME NEW l
                 PROVE  l \in Defined(c) <=> l \in Defined(b) \/ (i.op = "LABEL" /\ l = i.label)
      OBVIOUS
    <2>1. l \in Defined(c) => l \in Defined(b) \/ (i.op = "LABEL" /\ l = i.label)
      BY <1>1, <1>2, DefinedAt
    <2>2. l \in Defined(b) => l \in Defined(c)
      BY <1>1, <1>2, DefinedAt
    <2>3. i.op = "LABEL" /\ l = i.label => l \in Defined(c)
      BY <1>1, <1>2, DefinedAt
    <2> QED BY <2>1, <2>2, <2>3
  <1>5. \A l : l \in Targets(c) <=> l \in Targets(b) \/ (i.op \in JumpOps /\ l = i.label)
    <2> SUFFICES ASSUME NEW l
                 PROVE  l \in Targets(c) <=> l \in Targets(b) \/ (i.op \in JumpOps /\ l = i.label)
      OBVIOUS
    <2>1. l \in Targets(c) => l \in Targets(b) \/ (i.op \in JumpOps /\ l = i.label)
      BY <1>1, <1>2, TargetAt
    <2>2. l \in Targets(b) => l \in Targets(c)
      BY <1>1, <1>2, TargetAt
    <2>3. i.op \in JumpOps /\ l = i.label => l \in Targets(c)
      BY <1>1, <1>2, TargetAt
    <2> QED BY <2>1, <2>2, <2>3
  <1> QED BY <1>3, <1>4, <1>5 DEF c

\* ---- every operation of the emitter keeps a block sound --------------------------

\* An instruction that is no jump and no label.
LEMMA EmitPlainSound ==
  ASSUME NEW b, NEW open, Sound(b, open), NEW i \in Instruction, i.op \notin JumpOps \cup {"LABEL"}
  PROVE  Sound(Emit(b, i), open) /\ After(b, Emit(b, i)) /\ FreshLabel(Emit(b, i)) = FreshLabel(b)
  <1>1. b \in Block
    BY DEF Sound
  <1>2. /\ Labels(Emit(b, i)) = Labels(b) /\ Defined(Emit(b, i)) = Defined(b)
        /\ Targets(Emit(b, i)) = Targets(b)
    BY <1>1, EmitLabels
  <1>3. Emit(b, i) \in Block /\ Emit(b, i).next = b.next /\ Emit(b, i).ok = b.ok
    BY <1>1, EmitType
  <1> QED BY <1>2, <1>3 DEF Sound, After, FreshLabel

\* A jump to an open label, or to one that resolves.
LEMMA EmitJumpSound ==
  ASSUME NEW b, NEW open, Sound(b, open), NEW i \in Instruction, i.op \in JumpOps,
         i.label \in open
  PROVE  Sound(Emit(b, i), open) /\ After(b, Emit(b, i)) /\ FreshLabel(Emit(b, i)) = FreshLabel(b)
  <1>1. b \in Block /\ i.op # "LABEL"
    BY DEF Sound, JumpOps
  <1>2. /\ Labels(Emit(b, i)) = Labels(b) /\ Defined(Emit(b, i)) = Defined(b)
        /\ Targets(Emit(b, i)) = Targets(b) \cup {i.label}
    BY <1>1, EmitLabels
  <1>3. Emit(b, i) \in Block /\ Emit(b, i).next = b.next /\ Emit(b, i).ok = b.ok
    BY <1>1, EmitType
  <1> QED BY <1>2, <1>3 DEF Sound, After, FreshLabel

\* newLabel() opens a label.
LEMMA NewLabelSound ==
  ASSUME NEW b, NEW open, Sound(b, open)
  PROVE  /\ Sound(NewLabel(b), open \cup {FreshLabel(b)})
         /\ After(b, NewLabel(b))
         /\ FreshLabel(b) \notin open
         /\ FreshLabel(NewLabel(b)) = FreshLabel(b) + 1
  <1> DEFINE c == NewLabel(b)
             n == FreshLabel(b)
  <1>1. b \in Block
    BY DEF Sound
  <1>2. /\ c \in Block /\ c.code = b.code /\ c.ok = b.ok /\ c.next = Append(b.next, 0)
        /\ n \in Nat \ {0}
    BY <1>1, NewLabelType
  <1>3. b.next \in Seq(Nat) /\ n = Len(b.next) + 1
    BY <1>1 DEF Block, FreshLabel
  <1>4. /\ Labels(c) = Labels(b) \cup {n} /\ n \notin Labels(b)
        /\ c.next[n] = 0 /\ \A l \in Labels(b) : c.next[l] = b.next[l]
        /\ FreshLabel(c) = n + 1
    BY <1>2, <1>3 DEF Labels, FreshLabel
  <1>5. Defined(c) = Defined(b) /\ Targets(c) = Targets(b)
    BY <1>2 DEF Defined, Targets
  <1> HIDE DEF c, n
  <1>6. Sound(c, open \cup {n}) /\ n \notin open
    BY <1>2, <1>4, <1>5 DEF Sound
  <1>7. After(b, c)
    BY <1>4, <1>5 DEF After
  <1> QED BY <1>4, <1>6, <1>7 DEF c, n

\* An open label is emitted and no longer open.
LEMMA LabelSound ==
  ASSUME NEW b, NEW open, NEW l, Sound(b, open \cup {l}), l \notin open
  PROVE  /\ Sound(Label(b, l), open)
         /\ After(b, Label(b, l))
         /\ l \in Defined(Label(b, l))
         /\ FreshLabel(Label(b, l)) = FreshLabel(b)
  <1> DEFINE i == Inst("LABEL", l, 0)
             c == Label(b, l)
  <1>1. b \in Block /\ l \in Nat
    BY LabelsType DEF Sound
  <1>2. i \in Instruction /\ i.op = "LABEL" /\ i.label = l
    BY <1>1, InstType DEF Inst
  <1>3. "LABEL" \notin JumpOps
    BY DEF JumpOps
  <1>4. c = Emit(b, i)
    BY DEF Label
  <1> HIDE DEF i, c
  <1>5. /\ Labels(c) = Labels(b) /\ Defined(c) = Defined(b) \cup {l}
        /\ Targets(c) = Targets(b)
    BY <1>1, <1>2, <1>3, <1>4, EmitLabels
  <1>6. c \in Block /\ c.next = b.next /\ c.ok = b.ok
    BY <1>1, <1>2, <1>4, EmitType
  <1>7. Sound(c, open)
    BY <1>5, <1>6 DEF Sound
  <1>8. After(b, c) /\ l \in Defined(c) /\ FreshLabel(c) = FreshLabel(b)
    BY <1>5, <1>6 DEF After, FreshLabel
  <1> QED BY <1>7, <1>8 DEF c

\* A list of open labels is patched to an emitted label.
LEMMA BackpatchSound ==
  ASSUME NEW b, NEW open, NEW L, Sound(b, open \cup L), L \cap open = {}, L # {},
         NEW t \in Defined(b)
  PROVE  /\ Sound(Backpatch(b, L, t), open)
         /\ After(b, Backpatch(b, L, t))
         /\ FreshLabel(Backpatch(b, L, t)) = FreshLabel(b)
  <1> DEFINE c == Backpatch(b, L, t)
  <1>1. /\ b \in Block /\ b.ok /\ L \subseteq Labels(b) /\ t \in Labels(b)
        /\ t \notin L /\ t \notin open /\ b.next[t] = 0 /\ \A l \in L : b.next[l] = 0
    BY DEF Sound
  <1>2. t \in Nat \ {0}
    BY <1>1, LabelsType
  <1>3. CanPatch(b, L, t)
    BY <1>1, <1>2 DEF CanPatch
  <1>4. /\ c \in Block /\ c.code = b.code /\ c.ok
        /\ Len(c.next) = Len(b.next)
        /\ \A l \in Labels(b) : c.next[l] = IF l \in L THEN t ELSE IF l = t THEN 0 ELSE b.next[l]
    <2>1. c \in Block /\ c.code = b.code
      BY <1>1, <1>2, BackpatchType
    <2>2. c.ok
      BY <1>1, <1>3 DEF Backpatch
    <2>3. Len(c.next) = Len(b.next)
      BY <1>1, <1>2, BackpatchNext
    <2>4. \A l \in Labels(b) : c.next[l] = IF l \in L THEN t ELSE IF l = t THEN 0 ELSE b.next[l]
      BY <1>1, <1>2, BackpatchNext DEF Labels
    <2> QED BY <2>1, <2>2, <2>3, <2>4
  <1> HIDE DEF c
  <1>5. Labels(c) = Labels(b) /\ Defined(c) = Defined(b) /\ Targets(c) = Targets(b)
    BY <1>4 DEF Labels, Defined, Targets
  <1>6. /\ \A l \in L : c.next[l] = t
        /\ \A l \in Labels(b) \ L : c.next[l] = b.next[l]
    BY <1>1, <1>4
  <1>7. Sound(c, open)
    BY <1>1, <1>2, <1>3, <1>4, <1>5, <1>6, ZenonT(60) DEF Sound
  <1>8. After(b, c) /\ FreshLabel(c) = FreshLabel(b)
    BY <1>1, <1>4, <1>5, <1>6 DEF After, FreshLabel
  <1> QED BY <1>7, <1>8 DEF c

\* A jump to an open label.
LEMMA UjumpSound ==
  ASSUME NEW b, NEW open, Sound(b, open), NEW l \in open
  PROVE  /\ Sound(Ujump(b, l), open) /\ After(b, Ujump(b, l))
         /\ FreshLabel(Ujump(b, l)) = FreshLabel(b)
  <1> DEFINE i == Inst("UJUMP", l, 0)
  <1>1. l \in Nat
    BY LabelsType DEF Sound
  <1>2. i \in Instruction /\ i.op \in JumpOps /\ i.label = l
    BY <1>1, InstType DEF Inst, JumpOps
  <1>3. Ujump(b, l) = Emit(b, i)
    BY DEF Ujump
  <1> HIDE DEF i
  <1> QED BY <1>2, <1>3, EmitJumpSound

\* m1: a new label, emitted at once.
LEMMA MarkSound ==
  ASSUME NEW b, NEW open, Sound(b, open)
  PROVE  /\ Sound(Mark(b), open) /\ After(b, Mark(b))
         /\ FreshLabel(b) \in Defined(Mark(b)) /\ FreshLabel(b) \in Nat \ {0}
  <1> DEFINE n == FreshLabel(b)
             c == NewLabel(b)
  <1>1. Sound(c, open \cup {n}) /\ After(b, c) /\ n \notin open
    BY NewLabelSound
  <1>2. n \in Nat \ {0}
    BY NewLabelType DEF Sound
  <1>3. Mark(b) = Label(c, n)
    BY DEF Mark
  <1> HIDE DEF n, c
  <1>4. Sound(Label(c, n), open) /\ After(c, Label(c, n)) /\ n \in Defined(Label(c, n))
    BY <1>1, LabelSound
  <1>5. After(b, Label(c, n))
    BY <1>1, <1>4, AfterTransitive
  <1> QED BY <1>2, <1>3, <1>4, <1>5 DEF n

\* m5: a new label, jumped to at once and open.
LEMMA JumpFreshSound ==
  ASSUME NEW b, NEW open, Sound(b, open)
  PROVE  /\ Sound(JumpFresh(b), open \cup {FreshLabel(b)}) /\ After(b, JumpFresh(b))
         /\ FreshLabel(b) \notin open /\ FreshLabel(b) \in Nat \ {0}
  <1> DEFINE n == FreshLabel(b)
             c == NewLabel(b)
  <1>1. Sound(c, open \cup {n}) /\ After(b, c) /\ n \notin open
    BY NewLabelSound
  <1>2. n \in Nat \ {0}
    BY NewLabelType DEF Sound
  <1>3. JumpFresh(b) = Ujump(c, n)
    BY DEF JumpFresh
  <1> HIDE DEF n, c
  <1>4. Sound(Ujump(c, n), open \cup {n}) /\ After(c, Ujump(c, n))
    BY <1>1, UjumpSound
  <1>5. After(b, Ujump(c, n))
    BY <1>1, <1>4, AfterTransitive
  <1> QED BY <1>1, <1>2, <1>3, <1>4, <1>5 DEF n

\* enforce_valid_nextlist(): the list is not empty afterwards.
LEMMA EnforcedSound ==
  ASSUME NEW b, NEW open, NEW L, Sound(b, open \cup L), L \cap open = {}
  PROVE  /\ Sound(Enforced(b, L), open \cup EnforcedList(b, L)) /\ After(b, Enforced(b, L))
         /\ EnforcedList(b, L) # {} /\ EnforcedList(b, L) \cap open = {}
         /\ EnforcedList(b, L) \in SUBSET Nat
  <1>1. CASE L = {}
    <2>1. Sound(b, open)
      BY <1>1
    <2>2. EnforcedList(b, L) = {FreshLabel(b)} /\ Enforced(b, L) = JumpFresh(b)
      BY <1>1 DEF EnforcedList, Enforced
    <2> QED BY <2>1, <2>2, JumpFreshSound
  <1>2. CASE L # {}
    <2>1. EnforcedList(b, L) = L /\ Enforced(b, L) = b
      BY <1>2 DEF EnforcedList, Enforced
    <2>2. L \in SUBSET Nat
      BY LabelsType DEF Sound
    <2> QED BY <1>2, <2>1, <2>2, AfterSelf
  <1> QED BY <1>1, <1>2

\* A list that may be NULL is patched if it is not.
LEMMA BackpatchIfAnySound ==
  ASSUME NEW b, NEW open, NEW L, Sound(b, open \cup L), L \cap open = {},
         NEW t, L # {} => t \in Defined(b)
  PROVE  /\ Sound(BackpatchIfAny(b, L, t), open) /\ After(b, BackpatchIfAny(b, L, t))
         /\ FreshLabel(BackpatchIfAny(b, L, t)) = FreshLabel(b)
  <1>1. CASE L = {}
    <2>1. Sound(b, open) /\ BackpatchIfAny(b, L, t) = b
      BY <1>1 DEF BackpatchIfAny
    <2> QED BY <2>1, AfterSelf
  <1>2. CASE L # {}
    <2>1. BackpatchIfAny(b, L, t) = Backpatch(b, L, t)
      BY <1>2 DEF BackpatchIfAny
    <2> QED BY <1>2, <2>1, BackpatchSound
  <1> QED BY <1>1, <1>2

\* A call inside an expression emits JLINK.
LEMMA EmitExpSound ==
  ASSUME NEW b, NEW open, Sound(b, open), NEW e, size \in Nat
  PROVE  /\ Sound(EmitExp(b, e), open) /\ After(b, EmitExp(b, e))
         /\ FreshLabel(EmitExp(b, e)) = FreshLabel(b)
  <1> DEFINE i == Inst("JLINK", 0, size)
  <1>1. i \in Instruction
    BY InstType DEF LinkOps
  <1>2. i.op \notin JumpOps \cup {"LABEL"}
    BY DEF Inst, JumpOps
  <1>3. EmitExp(b, e) = Emit(b, i) \/ EmitExp(b, e) = b
    BY DEF EmitExp
  <1> HIDE DEF i
  <1> QED BY <1>1, <1>2, <1>3, EmitPlainSound, AfterSelf

\* c is b with i inserted at place at.
Inserted(b, c, i, at) ==
  /\ at \in 1 .. Len(b.code)
  /\ DOMAIN c.code = 1 .. Len(b.code) + 1 /\ DOMAIN b.code = 1 .. Len(b.code)
  /\ \A j \in 1 .. at - 1 : c.code[j] = b.code[j]
  /\ c.code[at] = i
  /\ \A j \in at + 1 .. Len(b.code) + 1 : c.code[j] = b.code[j - 1]

\* The prologue's one instruction is put in front of the marker, and the code from
\* there on moves by one place.
LEMMA SplicePlaces ==
  ASSUME NEW b \in Block, NEW m \in Nat, m \in Defined(b), NEW i \in Instruction
  PROVE  /\ Splice(b, m, <<i>>) \in Block
         /\ Splice(b, m, <<i>>).next = b.next /\ Splice(b, m, <<i>>).ok = b.ok
         /\ \E at \in SpliceAt(b, m) : /\ \A j \in SpliceAt(b, m) : at <= j
                                    /\ Inserted(b, Splice(b, m, <<i>>), i, at)
  <1> DEFINE c == Splice(b, m, <<i>>)
             at == CHOOSE k \in SpliceAt(b, m) : \A j \in SpliceAt(b, m) : k <= j
             n == Len(b.code)
  <1>1. b \in Block /\ b.code \in Seq(Instruction) /\ b.next \in Seq(Nat) /\ n \in Nat
    BY DEF Block
  <1>2. SpliceAt(b, m) # {} /\ SpliceAt(b, m) \subseteq 1 .. n
    BY <1>1, DefinedAt DEF SpliceAt
  <1>3. at \in 1 .. n /\ at \in SpliceAt(b, m) /\ \A j \in SpliceAt(b, m) : at <= j
    <2>1. \E k \in SpliceAt(b, m) : \A j \in SpliceAt(b, m) : k <= j
      BY <1>2, LeastNat
    <2> QED BY <1>2, <2>1
  <1>4. c = [code |-> SubSeq(b.code, 1, at - 1) \o <<i>> \o SubSeq(b.code, at, n),
             next |-> b.next, ok |-> b.ok]
    BY <1>1, <1>2 DEF Splice, Block
  <1>5. c \in Block
    <2>1. m \in Nat /\ <<i>> \in Seq(Instruction)
      BY <1>1
    <2> QED BY <1>1, <2>1, SpliceType
  <1>n. n = Len(b.code)
    OBVIOUS
  <1> HIDE DEF c, at, n
  <1>6. /\ c.next = b.next /\ c.ok = b.ok
        /\ c.code = SubSeq(b.code, 1, at - 1) \o <<i>> \o SubSeq(b.code, at, n)
    BY <1>4
  <1>7. /\ DOMAIN c.code = 1 .. n + 1 /\ DOMAIN b.code = 1 .. n
        /\ \A j \in 1 .. at - 1 : c.code[j] = b.code[j]
        /\ c.code[at] = i
        /\ \A j \in at + 1 .. n + 1 : c.code[j] = b.code[j - 1]
    <2> DEFINE A == SubSeq(b.code, 1, at - 1)
               B == SubSeq(b.code, at, n)
    <2>1. /\ A \in Seq(Instruction) /\ Len(A) = at - 1
          /\ \A j \in 1 .. at - 1 : A[j] = b.code[j]
      BY <1>1, <1>n, <1>3
    <2>2. /\ B \in Seq(Instruction) /\ Len(B) = n - at + 1
          /\ \A j \in 1 .. n - at + 1 : B[j] = b.code[at + j - 1]
      <3>1. B \in Seq(Instruction)
        BY <1>1, <1>n, <1>3
      <3>2. Len(B) = n - at + 1
        BY <1>1, <1>n, <1>3
      <3>3. \A j \in 1 .. n - at + 1 : B[j] = b.code[at + j - 1]
        BY <1>1, <1>n, <1>3
      <3> QED BY <3>1, <3>2, <3>3
    <2>3. c.code = (A \o <<i>>) \o B
      BY <1>6
    <2> HIDE DEF A, B
    <2>4. /\ A \o <<i>> \in Seq(Instruction) /\ Len(A \o <<i>>) = at
          /\ (A \o <<i>>)[at] = i
          /\ \A j \in 1 .. at - 1 : (A \o <<i>>)[j] = b.code[j]
      <3>1. A \o <<i>> = Append(A, i)
        BY <2>1
      <3>2. Append(A, i) \in Seq(Instruction) /\ Len(Append(A, i)) = at /\ Append(A, i)[at] = i
        BY <2>1, <1>3, <1>1
      <3>3. \A j \in 1 .. at - 1 : Append(A, i)[j] = A[j]
        BY <2>1, <1>3, <1>1
      <3> QED BY <2>1, <3>1, <3>2, <3>3
    <2> DEFINE C == A \o <<i>>
    <2> HIDE DEF C
    <2>5. C \in Seq(Instruction) /\ Len(C) = at /\ C[at] = i /\ \A j \in 1 .. at - 1 : C[j] = b.code[j]
      BY <2>4 DEF C
    <2>6. c.code = C \o B
      BY <2>3 DEF C
    <2>7. /\ Len(c.code) = n + 1 /\ c.code \in Seq(Instruction)
          /\ \A j \in 1 .. at : c.code[j] = C[j]
          /\ \A j \in 1 .. n - at + 1 : c.code[at + j] = B[j]
      <3>1. Len(C \o B) = Len(C) + Len(B) /\ C \o B \in Seq(Instruction)
        BY <2>2, <2>5, ConcatProperties
      <3>2. \A j \in 1 .. Len(C) : (C \o B)[j] = C[j]
        BY <2>2, <2>5
      <3>3. \A j \in 1 .. Len(B) : (C \o B)[Len(C) + j] = B[j]
        <4> SUFFICES ASSUME NEW j \in 1 .. Len(B) PROVE (C \o B)[Len(C) + j] = B[j]
          OBVIOUS
        <4>1. /\ Len(C) \in Nat /\ Len(B) \in Nat /\ ~ (Len(C) + j <= Len(C))
              /\ Len(C) + j \in 1 .. Len(C) + Len(B) /\ Len(C) + j - Len(C) = j
          BY <2>2, <2>5
        <4> QED BY <2>2, <2>5, <4>1
      <3>4. at + (n - at + 1) = n + 1
        BY <1>1, <1>3
      <3> QED BY <2>2, <2>5, <2>6, <3>1, <3>2, <3>3, <3>4
    <2>8. \A j \in at + 1 .. n + 1 : c.code[j] = b.code[j - 1]
      <3> SUFFICES ASSUME NEW j \in at + 1 .. n + 1 PROVE c.code[j] = b.code[j - 1]
        OBVIOUS
      <3>1. j - at \in 1 .. n - at + 1 /\ at + (j - at) = j /\ at + (j - at) - 1 = j - 1
        BY <1>1, <1>3
      <3> QED BY <2>2, <2>7, <3>1
    <2>9. \A j \in 1 .. at - 1 : j \in 1 .. at
      BY <1>1, <1>3
    <2>10. c.code[at] = i /\ \A j \in 1 .. at - 1 : c.code[j] = b.code[j]
      BY <1>3, <2>5, <2>7, <2>9
    <2>11. DOMAIN c.code = 1 .. n + 1 /\ DOMAIN b.code = 1 .. n
      BY <1>1, <1>n, <2>7
    <2> QED BY <2>8, <2>10, <2>11
  <1>8. Inserted(b, c, i, at)
    BY <1>3, <1>7, <1>n DEF Inserted
  <1> QED BY <1>3, <1>5, <1>6, <1>8 DEF c

\* The prologue's instructions are no jumps and no labels.
LEMMA SpliceSound ==
  ASSUME NEW b, NEW open, Sound(b, open), NEW m \in Defined(b), NEW i \in Instruction,
         i.op \notin JumpOps \cup {"LABEL"}
  PROVE  /\ Sound(Splice(b, m, <<i>>), open) /\ After(b, Splice(b, m, <<i>>))
         /\ FreshLabel(Splice(b, m, <<i>>)) = FreshLabel(b)
  <1> DEFINE c == Splice(b, m, <<i>>)
             n == Len(b.code)
  <1>1. b \in Block /\ m \in Nat
    BY LabelsType DEF Sound
  <1>2. c \in Block /\ c.next = b.next /\ c.ok = b.ok /\ \E at : Inserted(b, c, i, at)
    BY <1>1, SplicePlaces
  <1>n. n = Len(b.code) /\ n \in Nat
    BY <1>1 DEF Block
  <1> HIDE DEF c, n
  <1>3. PICK at : Inserted(b, c, i, at)
    BY <1>2
  <1>5. c \in Block
    BY <1>2
  <1>6. c.next = b.next /\ c.ok = b.ok
    BY <1>2
  <1>7. /\ DOMAIN c.code = 1 .. n + 1 /\ DOMAIN b.code = 1 .. n
        /\ \A j \in 1 .. at - 1 : c.code[j] = b.code[j]
        /\ c.code[at] = i
        /\ \A j \in at + 1 .. n + 1 : c.code[j] = b.code[j - 1]
    BY <1>n, <1>3 DEF Inserted
  <1>a. at \in 1 .. n /\ n \in Nat
    BY <1>n, <1>3 DEF Inserted
  <1>8. \A j \in 1 .. n : \E k \in 1 .. n + 1 : c.code[k] = b.code[j]
    <2> SUFFICES ASSUME NEW j \in 1 .. n PROVE \E k \in 1 .. n + 1 : c.code[k] = b.code[j]
      OBVIOUS
    <2>1. CASE j < at
      <3>1. j \in 1 .. at - 1 /\ j \in 1 .. n + 1
        BY <1>a, <2>1
      <3> QED BY <1>7, <3>1
    <2>2. CASE ~ (j < at)
      <3>1. j + 1 \in at + 1 .. n + 1 /\ j + 1 \in 1 .. n + 1 /\ j + 1 - 1 = j
        BY <1>a, <2>2
      <3> QED BY <1>7, <3>1
    <2> QED BY <2>1, <2>2
  <1>9. \A k \in 1 .. n + 1 : c.code[k] = i \/ \E j \in 1 .. n : c.code[k] = b.code[j]
    <2> SUFFICES ASSUME NEW k \in 1 .. n + 1, k # at
                 PROVE  \E j \in 1 .. n : c.code[k] = b.code[j]
      BY <1>7
    <2>1. CASE k < at
      <3>1. k \in 1 .. at - 1 /\ k \in 1 .. n
        BY <1>a, <2>1
      <3> QED BY <1>7, <3>1
    <2>2. CASE ~ (k < at)
      <3>1. k \in at + 1 .. n + 1 /\ k - 1 \in 1 .. n
        BY <1>a, <2>2
      <3> QED BY <1>7, <3>1
    <2> QED BY <2>1, <2>2
  <1>p. i.op # "LABEL" /\ i.op \notin JumpOps
    OBVIOUS
  <1>10. \A l : l \in Defined(c) <=> l \in Defined(b)
    <2> SUFFICES ASSUME NEW l PROVE l \in Defined(c) <=> l \in Defined(b)
      OBVIOUS
    <2>1. l \in Defined(c) => l \in Defined(b)
      <3> SUFFICES ASSUME l \in Defined(c) PROVE l \in Defined(b)
        OBVIOUS
      <3>1. PICK k \in DOMAIN c.code : c.code[k].op = "LABEL" /\ c.code[k].label = l
        BY DefinedAt
      <3>2. c.code[k] # i /\ k \in 1 .. n + 1
        BY <1>7, <1>p, <3>1
      <3>3. PICK j \in 1 .. n : c.code[k] = b.code[j]
        BY <1>9, <3>2
      <3>4. j \in DOMAIN b.code /\ b.code[j].op = "LABEL" /\ b.code[j].label = l
        BY <1>7, <3>1, <3>3
      <3> QED BY <3>4, DefinedAt
    <2>2. l \in Defined(b) => l \in Defined(c)
      <3> SUFFICES ASSUME l \in Defined(b) PROVE l \in Defined(c)
        OBVIOUS
      <3>1. PICK j \in DOMAIN b.code : b.code[j].op = "LABEL" /\ b.code[j].label = l
        BY DefinedAt
      <3>2. PICK k \in 1 .. n + 1 : c.code[k] = b.code[j]
        BY <1>7, <1>8
      <3>3. k \in DOMAIN c.code /\ c.code[k].op = "LABEL" /\ c.code[k].label = l
        BY <1>7, <3>1, <3>2
      <3> QED BY <3>3, DefinedAt
    <2> QED BY <2>1, <2>2
  <1>11. \A l : l \in Targets(c) <=> l \in Targets(b)
    <2> SUFFICES ASSUME NEW l PROVE l \in Targets(c) <=> l \in Targets(b)
      OBVIOUS
    <2>1. l \in Targets(c) => l \in Targets(b)
      <3> SUFFICES ASSUME l \in Targets(c) PROVE l \in Targets(b)
        OBVIOUS
      <3>1. PICK k \in DOMAIN c.code : c.code[k].op \in JumpOps /\ c.code[k].label = l
        BY TargetAt
      <3>2. c.code[k] # i /\ k \in 1 .. n + 1
        BY <1>7, <1>p, <3>1
      <3>3. PICK j \in 1 .. n : c.code[k] = b.code[j]
        BY <1>9, <3>2
      <3>4. j \in DOMAIN b.code /\ b.code[j].op \in JumpOps /\ b.code[j].label = l
        BY <1>7, <3>1, <3>3
      <3> QED BY <3>4, TargetAt
    <2>2. l \in Targets(b) => l \in Targets(c)
      <3> SUFFICES ASSUME l \in Targets(b) PROVE l \in Targets(c)
        OBVIOUS
      <3>1. PICK j \in DOMAIN b.code : b.code[j].op \in JumpOps /\ b.code[j].label = l
        BY TargetAt
      <3>2. PICK k \in 1 .. n + 1 : c.code[k] = b.code[j]
        BY <1>7, <1>8
      <3>3. k \in DOMAIN c.code /\ c.code[k].op \in JumpOps /\ c.code[k].label = l
        BY <1>7, <3>1, <3>2
      <3> QED BY <3>3, TargetAt
    <2> QED BY <2>1, <2>2
  <1>12. Defined(c) = Defined(b) /\ Targets(c) = Targets(b) /\ Labels(c) = Labels(b)
    BY <1>6, <1>10, <1>11 DEF Labels
  <1>13. Sound(c, open)
    BY <1>5, <1>6, <1>12 DEF Sound
  <1>14. After(b, c) /\ FreshLabel(c) = FreshLabel(b)
    BY <1>6, <1>12 DEF After, FreshLabel
  <1> QED BY <1>13, <1>14 DEF c

\* ---- the invariant of the parser stack -----------------------------------------

BoolSymbols == {"bexp", "bterm", "bfac", "bpfac"}
StmtSymbols == {"stmt", "assn", "return", "cntrl", "blk", "list"}
DestSymbols == {"m2", "m5.else", "m5.for"}
LabelSymbols == {"m2", "m1.then", "m1.else", "m1.cond", "m1.update", "m1.body", "m1.loop",
                 "m1.do", "m1.or", "m1.and"}

\* The labels that wait in the lists of an entry, and of a stack.
Open(e) == e.nextlist \cup e.retlist \cup e.truelist \cup e.falselist \cup e.dest
OpenLabels(s) == UNION {Open(s[i]) : i \in DOMAIN s}

\* What every symbol promises about its value: conditions wait in two lists,
\* markers carry emitted labels, other symbols have no lists.
WellFormed(e, defined) ==
  /\ IF e.sym \in BoolSymbols
     THEN e.truelist # {} /\ e.falselist # {} /\ e.truelist \cap e.falselist = {}
     ELSE e.truelist = {} /\ e.falselist = {}
  /\ IF e.sym \in StmtSymbols
     THEN e.nextlist \cap e.retlist = {}
     ELSE e.nextlist = {} /\ e.retlist = {}
  /\ IF e.sym \in DestSymbols THEN \E l \in e.dest : e.dest = {l} ELSE e.dest = {}
  /\ e.sym \in LabelSymbols => e.label \in defined
  /\ e.sym = "m6" => e.label \in defined \cup {0}

StackInv(s, defined) ==
  /\ \A i \in DOMAIN s : WellFormed(s[i], defined)
  /\ \A i, j \in DOMAIN s : i # j => Open(s[i]) \cap Open(s[j]) = {}
  /\ \A i \in DOMAIN s : s[i].sym \in {"m2", "function"} => i = 1
  /\ \A i \in DOMAIN s : s[i].sym = "m6" =>
       i > 1 /\ (s[i - 1].nextlist # {} => s[i].label # 0)

\* The flag m6 goes by agrees with the nextlist it decides for.
FlagInv(s, flag) ==
  s # <<>> => (s[Len(s)].sym \in {"stmt", "list"} /\ s[Len(s)].nextlist # {} => flag)

BackpatchInv ==
  /\ StackInv(stack, Defined(emit))
  /\ FlagInv(stack, stmt_has_nextlist)
  /\ status # "bug"
  /\ Parsing => Sound(emit, OpenLabels(stack))
  /\ ~Parsing => OpenLabels(stack) = {}
  /\ status = "done" => Sound(emit, {})

\* ---- pushing and popping ---------------------------------------------------------

\* The open labels of an entry, by the class of its symbol.
LEMMA BoolOpen ==
  ASSUME NEW e \in Entry, NEW D, WellFormed(e, D), e.sym \in BoolSymbols
  PROVE  /\ Open(e) = e.truelist \cup e.falselist /\ e.truelist \cap e.falselist = {}
         /\ e.truelist # {} /\ e.falselist # {}
         /\ e.truelist \in SUBSET Nat /\ e.falselist \in SUBSET Nat
  <1>1. e.sym \notin StmtSymbols /\ e.sym \notin DestSymbols
    BY DEF BoolSymbols, StmtSymbols, DestSymbols
  <1> QED BY <1>1 DEF WellFormed, Open, Entry

\* A statement waits in its nextlist and its retlist.
LEMMA StmtOpen ==
  ASSUME NEW e \in Entry, NEW D, WellFormed(e, D), e.sym \in StmtSymbols
  PROVE  /\ Open(e) = e.nextlist \cup e.retlist /\ e.nextlist \cap e.retlist = {}
         /\ e.nextlist \in SUBSET Nat /\ e.retlist \in SUBSET Nat
  <1>1. e.sym \notin BoolSymbols /\ e.sym \notin DestSymbols
    BY DEF BoolSymbols, StmtSymbols, DestSymbols
  <1> QED BY <1>1 DEF WellFormed, Open, Entry

\* A marker that jumps waits for the end of its jump.
LEMMA DestOpen ==
  ASSUME NEW e \in Entry, NEW D, WellFormed(e, D), e.sym \in DestSymbols
  PROVE  /\ Open(e) = e.dest /\ \E l \in Nat : e.dest = {l}
  <1>1. e.sym \notin BoolSymbols /\ e.sym \notin StmtSymbols
    BY DEF BoolSymbols, StmtSymbols, DestSymbols
  <1> QED BY <1>1 DEF WellFormed, Open, Entry

\* Tokens and markers that label a place wait for nothing.
LEMMA NothingOpen ==
  ASSUME NEW e \in Entry, NEW D, WellFormed(e, D),
         e.sym \notin BoolSymbols, e.sym \notin StmtSymbols, e.sym \notin DestSymbols
  PROVE  Open(e) = {}
  BY DEF WellFormed, Open

\* The values the rules build are well-formed.
LEMMA PlainFormed ==
  ASSUME NEW s \in Symbols, NEW D, s \notin BoolSymbols, s \notin DestSymbols,
         s \notin LabelSymbols
  PROVE  /\ Plain(s) \in Entry /\ Plain(s).sym = s /\ WellFormed(Plain(s), D)
         /\ Open(Plain(s)) = {} /\ Plain(s).nextlist = {}
  BY PlainType DEF Plain, WellFormed, Open

\* A marker with an emitted label.
LEMMA LabelFormed ==
  ASSUME NEW s \in LabelSymbols \ {"m2"}, NEW D, NEW l \in D, l \in Nat
  PROVE  /\ Marker(s, l, {}) \in Entry /\ Marker(s, l, {}).sym = s
         /\ WellFormed(Marker(s, l, {}), D) /\ Open(Marker(s, l, {})) = {}
  <1>1. /\ s \in Symbols /\ s # "m6" /\ s \notin BoolSymbols /\ s \notin StmtSymbols
        /\ s \notin DestSymbols
    BY DEF Symbols, BoolSymbols, StmtSymbols, DestSymbols, LabelSymbols
  <1> QED BY <1>1, MarkerType DEF Marker, WellFormed, Open

\* A condition with two lists of its own.
LEMMA BoolFormed ==
  ASSUME NEW s \in BoolSymbols, NEW D, NEW t \in SUBSET Nat, NEW f \in SUBSET Nat,
         t # {}, f # {}, t \cap f = {}
  PROVE  /\ Bool(s, t, f) \in Entry /\ Bool(s, t, f).sym = s
         /\ WellFormed(Bool(s, t, f), D) /\ Open(Bool(s, t, f)) = t \cup f
  <1>1. /\ s \in Symbols /\ s # "m6" /\ s \notin StmtSymbols
        /\ s \notin DestSymbols /\ s \notin LabelSymbols
    BY DEF Symbols, BoolSymbols, StmtSymbols, DestSymbols, LabelSymbols
  <1> QED BY <1>1, BoolType DEF Bool, WellFormed, Open

\* A statement with two lists of its own.
LEMMA StmtFormed ==
  ASSUME NEW s \in StmtSymbols, NEW D, NEW n \in SUBSET Nat, NEW r \in SUBSET Nat,
         n \cap r = {}
  PROVE  /\ Stmt(s, n, r) \in Entry /\ Stmt(s, n, r).sym = s /\ Stmt(s, n, r).nextlist = n
         /\ WellFormed(Stmt(s, n, r), D) /\ Open(Stmt(s, n, r)) = n \cup r
  <1>1. /\ s \in Symbols /\ s # "m6" /\ s \notin BoolSymbols
        /\ s \notin DestSymbols /\ s \notin LabelSymbols
    BY DEF Symbols, BoolSymbols, StmtSymbols, DestSymbols, LabelSymbols
  <1> QED BY <1>1, StmtType DEF Stmt, WellFormed, Open

\* A unit production hands the lists on.
LEMMA AsFormed ==
  ASSUME NEW e \in Entry, NEW D, WellFormed(e, D), NEW s,
         \/ s \in BoolSymbols /\ e.sym \in BoolSymbols
         \/ s \in StmtSymbols /\ e.sym \in StmtSymbols
  PROVE  /\ As(s, e) \in Entry /\ As(s, e).sym = s /\ As(s, e).nextlist = e.nextlist
         /\ WellFormed(As(s, e), D) /\ Open(As(s, e)) = Open(e)
  <1>1. /\ s \in Symbols /\ s # "m6" /\ s \notin DestSymbols /\ s \notin LabelSymbols
        /\ e.sym \notin DestSymbols /\ (s \in BoolSymbols <=> e.sym \in BoolSymbols)
        /\ (s \in StmtSymbols <=> e.sym \in StmtSymbols)
    BY DEF Symbols, BoolSymbols, StmtSymbols, DestSymbols, LabelSymbols
  <1>2. As(s, e) = [sym |-> s, nextlist |-> e.nextlist, retlist |-> e.retlist,
                    truelist |-> e.truelist, falselist |-> e.falselist,
                    dest |-> e.dest, label |-> e.label]
    BY DEF As, Entry
  <1>3. As(s, e) \in Entry
    BY <1>1, AsType
  <1> QED BY <1>1, <1>2, <1>3 DEF WellFormed, Open

\* Emitting more keeps an entry well-formed.
LEMMA FormedAfter ==
  ASSUME NEW e, NEW D, NEW E, WellFormed(e, D), D \subseteq E
  PROVE  WellFormed(e, E)
  BY DEF WellFormed

\* In which entry an open label waits.
LEMMA OpenAt == \A s, l : l \in OpenLabels(s) <=> \E i \in DOMAIN s : l \in Open(s[i])
  BY DEF OpenLabels

\* A prefix of a stack.
LEMMA PrefixInv ==
  ASSUME NEW s \in Seq(Entry), NEW D, StackInv(s, D), NEW n \in 0 .. Len(s)
  PROVE  SubSeq(s, 1, n) \in Seq(Entry) /\ StackInv(SubSeq(s, 1, n), D)
  <1> DEFINE r == SubSeq(s, 1, n)
  <1>1. /\ r \in Seq(Entry) /\ DOMAIN r = 1 .. n /\ DOMAIN s = 1 .. Len(s)
        /\ \A i \in 1 .. n : r[i] = s[i] /\ i \in DOMAIN s
    BY DEF r
  <1> HIDE DEF r
  <1>2. \A i \in DOMAIN r : r[i].sym = "m6" =>
          i > 1 /\ (r[i - 1].nextlist # {} => r[i].label # 0)
    <2> SUFFICES ASSUME NEW i \in DOMAIN r, r[i].sym = "m6"
                 PROVE  i > 1 /\ (r[i - 1].nextlist # {} => r[i].label # 0)
      OBVIOUS
    <2>1. i \in 1 .. n /\ r[i] = s[i] /\ i \in DOMAIN s
      BY <1>1
    <2>2. i > 1 /\ (s[i - 1].nextlist # {} => s[i].label # 0)
      BY <2>1 DEF StackInv
    <2>3. i - 1 \in 1 .. n
      BY <2>1, <2>2
    <2> QED BY <1>1, <2>1, <2>2, <2>3
  <1>3. \A i \in DOMAIN r : WellFormed(r[i], D) /\ (r[i].sym \in {"m2", "function"} => i = 1)
    BY <1>1 DEF StackInv
  <1>4. \A i, j \in DOMAIN r : i # j => Open(r[i]) \cap Open(r[j]) = {}
    BY <1>1 DEF StackInv
  <1> QED BY <1>1, <1>2, <1>3, <1>4 DEF StackInv, r

\* A push on a stack.
LEMMA PushInv ==
  ASSUME NEW s \in Seq(Entry), NEW D, StackInv(s, D), NEW e \in Entry,
         NEW E, D \subseteq E, WellFormed(e, E), Open(e) \cap OpenLabels(s) = {},
         e.sym \in {"m2", "function"} => s = <<>>,
         e.sym = "m6" => s # <<>> /\ (s[Len(s)].nextlist # {} => e.label # 0)
  PROVE  /\ Append(s, e) \in Seq(Entry) /\ StackInv(Append(s, e), E)
         /\ OpenLabels(Append(s, e)) = OpenLabels(s) \cup Open(e)
  <1> DEFINE r == Append(s, e)
             n == Len(s)
  <1>1. /\ r \in Seq(Entry) /\ n \in Nat /\ DOMAIN r = 1 .. n + 1 /\ DOMAIN s = 1 .. n
        /\ r[n + 1] = e /\ \A i \in 1 .. n : r[i] = s[i]
    OBVIOUS
  <1>1a. s # <<>> => n > 0
    BY <1>1
  <1>1b. s = <<>> => n = 0
    BY <1>1
  <1> HIDE DEF r, n
  <1>1c. \A i \in DOMAIN r : i \in 1 .. n \/ i = n + 1
    BY <1>1
  <1>2. \A i \in DOMAIN r : WellFormed(r[i], E)
    <2>1. \A i \in 1 .. n : WellFormed(s[i], E)
      BY <1>1, FormedAfter DEF StackInv
    <2> QED BY <1>1, <1>1c, <2>1
  <1>3. \A i \in 1 .. n : Open(s[i]) \cap Open(e) = {}
    BY <1>1, OpenAt
  <1>4. \A i, j \in DOMAIN r : i # j => Open(r[i]) \cap Open(r[j]) = {}
    <2> SUFFICES ASSUME NEW i \in DOMAIN r, NEW j \in DOMAIN r, i # j
                 PROVE  Open(r[i]) \cap Open(r[j]) = {}
      OBVIOUS
    <2>1. CASE i \in 1 .. n /\ j \in 1 .. n
      BY <1>1, <2>1 DEF StackInv
    <2>2. CASE i = n + 1 /\ j \in 1 .. n
      BY <1>1, <1>3, <2>2
    <2>3. CASE j = n + 1 /\ i \in 1 .. n
      BY <1>1, <1>3, <2>3
    <2> QED BY <1>1c, <2>1, <2>2, <2>3
  <1>5. \A i \in DOMAIN r : r[i].sym \in {"m2", "function"} => i = 1
    <2>1. \A i \in 1 .. n : s[i].sym \in {"m2", "function"} => i = 1
      BY <1>1 DEF StackInv
    <2>2. e.sym \in {"m2", "function"} => n + 1 = 1
      BY <1>1b
    <2> QED BY <1>1, <1>1c, <2>1, <2>2
  <1>6. \A i \in DOMAIN r : r[i].sym = "m6" =>
          i > 1 /\ (r[i - 1].nextlist # {} => r[i].label # 0)
    <2> SUFFICES ASSUME NEW i \in DOMAIN r, r[i].sym = "m6"
                 PROVE  i > 1 /\ (r[i - 1].nextlist # {} => r[i].label # 0)
      OBVIOUS
    <2>1. CASE i \in 1 .. n
      <3>1. i > 1 /\ (s[i - 1].nextlist # {} => s[i].label # 0)
        BY <1>1, <2>1 DEF StackInv
      <3>2. i - 1 \in 1 .. n
        BY <1>1, <2>1, <3>1
      <3> QED BY <1>1, <2>1, <3>1, <3>2
    <2>2. CASE i = n + 1
      <3>1. e.sym = "m6"
        BY <1>1, <2>2
      <3>2. n > 0 /\ (s[n].nextlist # {} => e.label # 0)
        BY <1>1a, <3>1 DEF n
      <3>3. n \in 1 .. n /\ i - 1 = n /\ i > 1
        BY <1>1, <2>2, <3>2
      <3> QED BY <1>1, <2>2, <3>2, <3>3
    <2> QED BY <1>1c, <2>1, <2>2
  <1>7. StackInv(r, E)
    BY <1>2, <1>4, <1>5, <1>6 DEF StackInv
  <1>8. \A l : l \in OpenLabels(r) <=> l \in OpenLabels(s) \/ l \in Open(e)
    <2> SUFFICES ASSUME NEW l PROVE l \in OpenLabels(r) <=> l \in OpenLabels(s) \/ l \in Open(e)
      OBVIOUS
    <2>1. l \in OpenLabels(r) => l \in OpenLabels(s) \/ l \in Open(e)
      BY <1>1, <1>1c, OpenAt
    <2>2. l \in OpenLabels(s) => l \in OpenLabels(r)
      <3> SUFFICES ASSUME l \in OpenLabels(s) PROVE l \in OpenLabels(r)
        OBVIOUS
      <3>1. PICK i \in 1 .. n : l \in Open(s[i])
        BY <1>1, OpenAt
      <3>2. i \in DOMAIN r /\ r[i] = s[i]
        BY <1>1
      <3> QED BY <3>1, <3>2, OpenAt
    <2>3. l \in Open(e) => l \in OpenLabels(r)
      <3>1. n + 1 \in DOMAIN r
        BY <1>1
      <3> QED BY <1>1, <3>1, OpenAt
    <2> QED BY <2>1, <2>2, <2>3
  <1>9. OpenLabels(r) = OpenLabels(s) \cup Open(e)
    BY <1>8
  <1> QED BY <1>1, <1>7, <1>9 DEF r

\* What is left of the stack when the k topmost entries are popped.
Rest(k) == SubSeq(stack, 1, Len(stack) - k)

\* What the top k entries wait for, and what the rest does.
LEMMA Popped ==
  ASSUME stack \in Seq(Entry), NEW D, StackInv(stack, D), NEW k \in 1 .. Len(stack)
  PROVE  /\ OpenLabels(Rest(k - 1)) = OpenLabels(Rest(k)) \cup Open(Val(k))
         /\ OpenLabels(Rest(k)) \cap Open(Val(k)) = {}
         /\ Val(k) \in Entry /\ WellFormed(Val(k), D)
  <1> DEFINE n == Len(stack) - k
             r == Rest(k)
             s == Rest(k - 1)
  <1>1. n \in Nat /\ n + 1 \in 1 .. Len(stack) /\ Len(stack) - (k - 1) = n + 1
    OBVIOUS
  <1>2. Val(k) = stack[n + 1] /\ Val(k) \in Entry /\ n + 1 \in DOMAIN stack
    BY <1>1, ValType
  <1>3. r = SubSeq(stack, 1, n) /\ s = SubSeq(stack, 1, n + 1)
    BY <1>1 DEF Rest
  <1> HIDE DEF n, r, s
  <1>4. /\ DOMAIN r = 1 .. n /\ DOMAIN s = 1 .. n + 1
        /\ \A i \in 1 .. n : r[i] = stack[i] /\ i \in DOMAIN stack
        /\ \A i \in 1 .. n + 1 : s[i] = stack[i]
    BY <1>1, <1>3
  <1>5. \A i \in 1 .. n : i \in 1 .. n + 1 /\ i # n + 1
    BY <1>1
  <1>6. \A i \in 1 .. n + 1 : i \in 1 .. n \/ i = n + 1
    BY <1>1
  <1>7. n + 1 \in 1 .. n + 1
    BY <1>1
  <1>8. \A l : l \in OpenLabels(s) <=> l \in OpenLabels(r) \/ l \in Open(Val(k))
    <2> SUFFICES ASSUME NEW l
                 PROVE  l \in OpenLabels(s) <=> l \in OpenLabels(r) \/ l \in Open(Val(k))
      OBVIOUS
    <2>1. l \in OpenLabels(s) => l \in OpenLabels(r) \/ l \in Open(Val(k))
      <3> SUFFICES ASSUME l \in OpenLabels(s)
                   PROVE  l \in OpenLabels(r) \/ l \in Open(Val(k))
        OBVIOUS
      <3>1. PICK i \in 1 .. n + 1 : l \in Open(stack[i])
        BY <1>4, OpenAt
      <3>2. CASE i = n + 1
        BY <1>2, <3>1, <3>2
      <3>3. CASE i \in 1 .. n
        BY <1>4, <3>1, <3>3, OpenAt
      <3> QED BY <1>6, <3>2, <3>3
    <2>2. l \in OpenLabels(r) => l \in OpenLabels(s)
      BY <1>4, <1>5, OpenAt
    <2>3. l \in Open(Val(k)) => l \in OpenLabels(s)
      BY <1>2, <1>4, <1>7, OpenAt
    <2> QED BY <2>1, <2>2, <2>3
  <1>9. \A l : ~ (l \in OpenLabels(r) /\ l \in Open(Val(k)))
    <2> SUFFICES ASSUME NEW l, l \in OpenLabels(r), l \in Open(Val(k)) PROVE FALSE
      OBVIOUS
    <2>1. PICK i \in 1 .. n : l \in Open(stack[i])
      BY <1>4, OpenAt, ZenonT(60)
    <2>2. i \in DOMAIN stack /\ i # n + 1
      BY <1>4, <1>5
    <2> QED BY <1>2, <2>1, <2>2 DEF StackInv
  <1>10. WellFormed(Val(k), D)
    BY <1>2 DEF StackInv
  <1> QED BY <1>2, <1>8, <1>9, <1>10 DEF r, s

\* Popping nothing.
LEMMA RestNone ==
  ASSUME stack \in Seq(Entry)
  PROVE  Rest(0) = stack
  <1>1. Len(stack) - 0 = Len(stack)
    BY LenProperties
  <1> QED BY <1>1 DEF Rest

\* A shift is a reduction of nothing.
LEMMA ShiftReduces ==
  ASSUME stack \in Seq(Entry), NEW e, Shift(e)
  PROVE  Reduce(0, e)
  BY RestNone DEF Shift, Reduce, Rest

\* Every rule that goes on: it pops k entries, pushes e and continues with b.
LEMMA Advance ==
  ASSUME stack \in Seq(Entry), BackpatchInv, Parsing, NEW k \in 0 .. Len(stack),
         NEW e \in Entry, Reduce(k, e),
         NEW b, Continue(b), After(emit, b), Sound(b, OpenLabels(Rest(k)) \cup Open(e)),
         OpenLabels(Rest(k)) \cap Open(e) = {}, WellFormed(e, Defined(b)),
         e.sym \in {"m2", "function"} => k = Len(stack),
         e.sym = "m6" => k = 0 /\ stack # <<>> /\ (Val(1).nextlist # {} => e.label # 0),
         e.sym \in {"stmt", "list"} /\ e.nextlist # {} => stmt_has_nextlist'
  PROVE  BackpatchInv' /\ After(emit, emit')
  <1> DEFINE r == Rest(k)
  <1>1. b \in Block /\ b.ok
    BY DEF Sound
  <1>2. emit' = b /\ status' = "parsing"
    BY <1>1 DEF Continue
  <1>3. Len(stack) - k \in 0 .. Len(stack)
    BY LenProperties
  <1>4. r \in Seq(Entry) /\ StackInv(r, Defined(emit))
    BY <1>3, PrefixInv DEF Rest, BackpatchInv
  <1>5. stack' = Append(r, e)
    BY DEF Reduce, Rest
  <1>6. Defined(emit) \subseteq Defined(b)
    BY DEF After
  <1>7. k = Len(stack) => r = <<>>
    <2>1. Len(stack) - Len(stack) = 0
      BY LenProperties
    <2> QED BY <2>1 DEF Rest
  <1>8. e.sym = "m6" => r # <<>> /\ (r[Len(r)].nextlist # {} => e.label # 0)
    <2>1. Val(1) = stack[Len(stack)]
      BY LenProperties DEF Val
    <2> QED BY <2>1, RestNone
  <1> HIDE DEF r
  <1>9. /\ stack' \in Seq(Entry) /\ StackInv(stack', Defined(b))
        /\ OpenLabels(stack') = OpenLabels(r) \cup Open(e)
    BY <1>4, <1>5, <1>6, <1>7, <1>8, PushInv DEF r
  <1>10. stack'[Len(stack')] = e
    BY <1>4, <1>5
  <1>11. FlagInv(stack, stmt_has_nextlist)'
    BY <1>10 DEF FlagInv
  <1>12. Sound(emit', OpenLabels(stack'))
    BY <1>2, <1>9 DEF r
  <1>13. StackInv(stack', Defined(emit'))
    BY <1>2, <1>9
  <1> QED BY <1>2, <1>11, <1>12, <1>13 DEF BackpatchInv, Parsing

\* Rules that emit nothing continue with the block there is.
LEMMA Stays ==
  ASSUME Parsing, UNCHANGED <<emit, status>>, NEW open, Sound(emit, open)
  PROVE  Continue(emit)
  BY DEF Parsing, Continue, Sound

\* What a rule starts from.
LEMMA Start ==
  ASSUME TypeInv, BackpatchInv, Parsing
  PROVE  /\ emit \in Block /\ stack \in Seq(Entry) /\ size \in Nat /\ Len(stack) \in Nat
         /\ Sound(emit, OpenLabels(Rest(0))) /\ StackInv(stack, Defined(emit))
         /\ Defined(emit) \subseteq Nat \ {0}
  <1>1. emit \in Block /\ stack \in Seq(Entry) /\ size \in Nat
    BY DEF TypeInv, TypeOK
  <1>2. Sound(emit, OpenLabels(stack)) /\ StackInv(stack, Defined(emit))
    BY DEF BackpatchInv
  <1>3. Defined(emit) \subseteq Nat \ {0}
    BY <1>1, <1>2, LabelsType DEF Sound
  <1> QED BY <1>1, <1>2, <1>3, RestNone, LenProperties

Kept == BackpatchInv' /\ After(emit, emit')

\* The classes of the symbols.
LEMMA Classes ==
  /\ \A s \in {"bexp", "bterm", "bfac", "bpfac"} : s \in BoolSymbols
  /\ \A s \in {"stmt", "assn", "return", "cntrl", "blk", "list"} : s \in StmtSymbols
  /\ \A s \in {"func_arg", "function", "m4", "program", "m0", "m6", "IF", "FOR", "WHILE",
               "NOT", "LPAREN"} :
       /\ s \in Symbols /\ s \notin BoolSymbols /\ s \notin StmtSymbols
       /\ s \notin DestSymbols /\ s \notin LabelSymbols
  /\ \A s \in LabelSymbols \ {"m2"} :
       s \notin BoolSymbols /\ s \notin StmtSymbols /\ s \notin DestSymbols
  BY DEF Symbols, BoolSymbols, StmtSymbols, DestSymbols, LabelSymbols

\* ---- conditions --------------------------------------------------------------------

\* NOT exchanges the two lists.
LEMMA KeptNot ==
  ASSUME TypeInv, BackpatchInv, Not
  PROVE  Kept
  <1> DEFINE V == Val(1)
             e == Bool("bfac", V.falselist, V.truelist)
  <1>1. /\ Parsing /\ OnTop(<<"NOT", "bfac">>) /\ Reduce(2, e)
        /\ UNCHANGED <<emit, status>>
    BY DEF Not
  <1>2. /\ stack \in Seq(Entry) /\ Len(stack) \in Nat /\ StackInv(stack, Defined(emit))
        /\ Sound(emit, OpenLabels(Rest(0)))
    BY <1>1, Start
  <1>3. 2 <= Len(stack) /\ Val(2).sym = "NOT" /\ Val(1).sym = "bfac"
    BY <1>1, <1>2 DEF OnTop, Val
  <1>4. /\ OpenLabels(Rest(0)) = OpenLabels(Rest(1)) \cup Open(V)
        /\ OpenLabels(Rest(1)) \cap Open(V) = {}
        /\ V \in Entry /\ WellFormed(V, Defined(emit))
    BY <1>2, <1>3, Popped
  <1>5. OpenLabels(Rest(1)) = OpenLabels(Rest(2))
    <2>1. /\ OpenLabels(Rest(1)) = OpenLabels(Rest(2)) \cup Open(Val(2))
          /\ Val(2) \in Entry /\ WellFormed(Val(2), Defined(emit))
      BY <1>2, <1>3, Popped
    <2> QED BY <1>3, <2>1, NothingOpen, Classes
  <1>6. /\ Open(V) = V.truelist \cup V.falselist /\ V.truelist \cap V.falselist = {}
        /\ V.truelist # {} /\ V.falselist # {}
        /\ V.truelist \in SUBSET Nat /\ V.falselist \in SUBSET Nat
    BY <1>3, <1>4, BoolOpen, Classes
  <1> HIDE DEF V
  <1>7. /\ e \in Entry /\ e.sym = "bfac" /\ WellFormed(e, Defined(emit))
        /\ Open(e) = Open(V)
    <2> DEFINE t == V.falselist
               f == V.truelist
    <2>1. /\ t \in SUBSET Nat /\ f \in SUBSET Nat /\ t # {} /\ f # {} /\ t \cap f = {}
          /\ t \cup f = Open(V) /\ "bfac" \in BoolSymbols
      BY <1>6, Classes
    <2>2. e = Bool("bfac", t, f)
      OBVIOUS
    <2> HIDE DEF t, f, e
    <2>3. e \in Entry /\ e.sym = "bfac" /\ WellFormed(e, Defined(emit)) /\ Open(e) = t \cup f
      BY <2>1, <2>2, BoolFormed
    <2> QED BY <2>1, <2>3
  <1> HIDE DEF e
  <1>8. OpenLabels(Rest(0)) = OpenLabels(Rest(2)) \cup Open(e) /\ OpenLabels(Rest(2)) \cap Open(e) = {}
    BY <1>4, <1>5, <1>7
  <1>9. Continue(emit) /\ After(emit, emit)
    BY <1>1, <1>2, Stays, AfterSelf
  <1> QED BY <1>1, <1>2, <1>3, <1>7, <1>8, <1>9, Advance DEF Kept

Sides(e, p, q) ==
  \/ p = e.truelist /\ q = e.falselist
  \/ p = e.falselist /\ q = e.truelist
Joined(e, q, t, f) ==
  \/ t = e.truelist /\ f = q \cup e.falselist
  \/ t = q \cup e.truelist /\ f = e.falselist

\* AND and OR patch the list p of the left operand to the marker in front of the
\* right one; the other list q joins one of the right operand's.
LEMMA KeptJoin ==
  ASSUME TypeInv, BackpatchInv, Parsing, 3 <= Len(stack), NEW s \in BoolSymbols,
         Val(3).sym \in BoolSymbols, Val(2).sym \in LabelSymbols \ {"m2"},
         Val(1).sym \in BoolSymbols, NEW p, NEW q, NEW t, NEW f,
         Sides(Val(3), p, q), Joined(Val(1), q, t, f),
         Continue(Backpatch(emit, p, Val(2).label)), Reduce(3, Bool(s, t, f))
  PROVE  Kept
  <1> DEFINE V == Val(1)
             W == Val(3)
             e == Bool(s, t, f)
             b == Backpatch(emit, p, Val(2).label)
  <1>1. Reduce(3, e) /\ Continue(b)
    OBVIOUS
  <1>2. /\ stack \in Seq(Entry) /\ Len(stack) \in Nat /\ StackInv(stack, Defined(emit))
        /\ Sound(emit, OpenLabels(Rest(0)))
    BY Start
  <1>3. 1 \in 1 .. Len(stack) /\ 2 \in 1 .. Len(stack) /\ 3 \in 1 .. Len(stack)
    BY <1>2
  <1>4. /\ OpenLabels(Rest(0)) = OpenLabels(Rest(1)) \cup Open(V)
        /\ OpenLabels(Rest(1)) \cap Open(V) = {}
        /\ V \in Entry /\ WellFormed(V, Defined(emit))
    BY <1>2, <1>3, Popped
  <1>5. OpenLabels(Rest(1)) = OpenLabels(Rest(2)) /\ Val(2).label \in Defined(emit)
    <2>1. /\ OpenLabels(Rest(1)) = OpenLabels(Rest(2)) \cup Open(Val(2))
          /\ Val(2) \in Entry /\ WellFormed(Val(2), Defined(emit))
      BY <1>2, <1>3, Popped
    <2> QED BY <2>1, NothingOpen, Classes DEF WellFormed
  <1>6. /\ OpenLabels(Rest(2)) = OpenLabels(Rest(3)) \cup Open(W)
        /\ OpenLabels(Rest(3)) \cap Open(W) = {}
        /\ W \in Entry /\ WellFormed(W, Defined(emit))
    BY <1>2, <1>3, Popped
  <1>7. /\ Open(V) = V.truelist \cup V.falselist /\ V.truelist \cap V.falselist = {}
        /\ V.truelist # {} /\ V.falselist # {}
        /\ V.truelist \in SUBSET Nat /\ V.falselist \in SUBSET Nat
    BY <1>4, BoolOpen
  <1>8. /\ Open(W) = p \cup q /\ p \cap q = {} /\ p # {} /\ q # {}
        /\ p \in SUBSET Nat /\ q \in SUBSET Nat
    BY <1>6, BoolOpen DEF Sides
  <1> DEFINE T == V.truelist
             F == V.falselist
  <1>9. (t = T /\ f = q \cup F) \/ (t = q \cup T /\ f = F)
    BY DEF Joined
  <1>10. Open(V) = T \cup F /\ T \cap F = {} /\ T # {} /\ F # {} /\ T \in SUBSET Nat /\ F \in SUBSET Nat
    BY <1>7
  <1> HIDE DEF V, W, T, F
  <1> DEFINE open == OpenLabels(Rest(3)) \cup (q \cup Open(V))
  <1>11. OpenLabels(Rest(0)) = open \cup p /\ p \cap open = {} /\ q \cap Open(V) = {}
         /\ OpenLabels(Rest(3)) \cap (q \cup Open(V)) = {}
    BY <1>4, <1>5, <1>6, <1>8
  <1> HIDE DEF open
  <1>12. Sound(b, open) /\ After(emit, b)
    BY <1>2, <1>5, <1>8, <1>11, BackpatchSound
  <1>13. t \cup f = q \cup Open(V)
    BY <1>9, <1>10
  <1>s. t \in SUBSET Nat /\ f \in SUBSET Nat /\ t # {} /\ f # {} /\ t \cap f = {}
    BY <1>8, <1>9, <1>10, <1>11
  <1>e. e = Bool(s, t, f)
    OBVIOUS
  <1> HIDE DEF e, b
  <1>14. /\ e \in Entry /\ e.sym = s /\ WellFormed(e, Defined(b)) /\ Open(e) = t \cup f
    <2>1. Bool(s, t, f) \in Entry /\ Bool(s, t, f).sym = s
      BY <1>s, BoolFormed
    <2>2. WellFormed(Bool(s, t, f), Defined(b))
      BY <1>s, BoolFormed
    <2>3. Open(Bool(s, t, f)) = t \cup f
      BY DEF Open, Bool
    <2> QED BY <1>e, <2>1, <2>2, <2>3
  <1>15. OpenLabels(Rest(3)) \cap Open(e) = {} /\ Sound(b, OpenLabels(Rest(3)) \cup Open(e))
    BY <1>11, <1>12, <1>13, <1>14 DEF open
  <1>16. e.sym \notin {"m2", "function", "m6", "stmt", "list"}
    BY <1>14 DEF BoolSymbols
  <1> QED BY <1>1, <1>2, <1>3, <1>12, <1>14, <1>15, <1>16, Advance DEF Kept

\* A unit production, with nothing or a symbol without lists below it.
LEMMA KeptAs ==
  ASSUME TypeInv, BackpatchInv, Parsing, NEW k \in 1 .. 2, k <= Len(stack), NEW s,
         k = 2 => Val(2).sym \in {"LPAREN", "m0"},
         \/ s \in BoolSymbols /\ Val(1).sym \in BoolSymbols
         \/ s \in StmtSymbols /\ Val(1).sym \in StmtSymbols,
         s \in {"stmt", "list"} /\ Val(1).nextlist # {} => stmt_has_nextlist',
         Reduce(k, As(s, Val(1))), UNCHANGED <<emit, status>>
  PROVE  Kept
  <1> DEFINE V == Val(1)
             e == As(s, V)
  <1>1. /\ stack \in Seq(Entry) /\ Len(stack) \in Nat /\ StackInv(stack, Defined(emit))
        /\ Sound(emit, OpenLabels(Rest(0)))
    BY Start
  <1>2. 1 \in 1 .. Len(stack) /\ k \in 0 .. Len(stack) /\ (k = 1 \/ k = 2)
    BY <1>1
  <1>3. /\ OpenLabels(Rest(0)) = OpenLabels(Rest(1)) \cup Open(V)
        /\ OpenLabels(Rest(1)) \cap Open(V) = {}
        /\ V \in Entry /\ WellFormed(V, Defined(emit))
    BY <1>1, <1>2, Popped
  <1>4. OpenLabels(Rest(1)) = OpenLabels(Rest(k))
    <2>1. CASE k = 2
      <3>1. 2 \in 1 .. Len(stack)
        BY <1>1, <2>1
      <3>2. /\ OpenLabels(Rest(1)) = OpenLabels(Rest(2)) \cup Open(Val(2))
            /\ Val(2) \in Entry /\ WellFormed(Val(2), Defined(emit))
        BY <1>1, <3>1, Popped
      <3> QED BY <2>1, <3>2, NothingOpen, Classes
    <2> QED BY <1>2, <2>1
  <1>5. /\ e \in Entry /\ e.sym = s /\ e.nextlist = V.nextlist
        /\ WellFormed(e, Defined(emit)) /\ Open(e) = Open(V)
    BY <1>3, AsFormed
  <1>6. Reduce(k, e) /\ (s \in {"stmt", "list"} /\ V.nextlist # {} => stmt_has_nextlist')
    OBVIOUS
  <1> HIDE DEF V, e
  <1>7. /\ OpenLabels(Rest(k)) \cap Open(e) = {} /\ Sound(emit, OpenLabels(Rest(k)) \cup Open(e))
    BY <1>1, <1>3, <1>4, <1>5
  <1>8. e.sym \notin {"m2", "function", "m6"}
    BY <1>5 DEF BoolSymbols, StmtSymbols
  <1>9. Continue(emit) /\ After(emit, emit)
    BY <1>1, Stays, AfterSelf
  <1> QED BY <1>1, <1>2, <1>5, <1>6, <1>7, <1>8, <1>9, Advance DEF Kept

\* Unit productions, parentheses, AND and OR.
LEMMA KeptConditions ==
  ASSUME TypeInv, BackpatchInv, BoolUnit \/ Paren \/ And \/ Or
  PROVE  Kept
  <1>t. stack \in Seq(Entry) /\ Len(stack) \in Nat
    BY LenProperties DEF TypeInv, TypeOK
  <1>1. CASE BoolUnit
    <2>1. /\ Parsing /\ UNCHANGED <<emit, status>>
          /\ \/ OnTop(<<"bpfac">>) /\ Reduce(1, As("bfac", Val(1)))
             \/ OnTop(<<"bfac">>) /\ Reduce(1, As("bterm", Val(1)))
             \/ OnTop(<<"bterm">>) /\ Reduce(1, As("bexp", Val(1)))
      BY <1>1 DEF BoolUnit
    <2>2. 1 <= Len(stack) /\ Val(1).sym \in BoolSymbols
      BY <1>t, <2>1, Classes DEF OnTop, Val
    <2>3. PICK s \in {"bfac", "bterm", "bexp"} : Reduce(1, As(s, Val(1)))
      BY <2>1
    <2>4. s \in BoolSymbols /\ s \notin {"stmt", "list"} /\ 1 \in 1 .. 2 /\ 1 # 2
      BY Classes
    <2> QED BY <2>1, <2>2, <2>3, <2>4, KeptAs
  <1>2. CASE Paren
    <2>1. /\ Parsing /\ UNCHANGED <<emit, status>> /\ OnTop(<<"LPAREN", "bexp">>)
          /\ Reduce(2, As("bpfac", Val(1)))
      BY <1>2 DEF Paren
    <2>2. 2 <= Len(stack) /\ Val(1).sym = "bexp" /\ Val(2).sym = "LPAREN"
      BY <1>t, <2>1 DEF OnTop, Val
    <2>3. "bpfac" \in BoolSymbols /\ Val(1).sym \in BoolSymbols /\ 2 \in 1 .. 2
      BY <2>2, Classes
    <2> QED BY <2>1, <2>2, <2>3, KeptAs
  <1>3. CASE And
    <2> DEFINE f == Val(3).falselist \cup Val(1).falselist
    <2>1. /\ Parsing /\ OnTop(<<"bterm", "m1.and", "bfac">>)
          /\ Continue(Backpatch(emit, Val(3).truelist, Val(2).label))
          /\ Reduce(3, Bool("bterm", Val(1).truelist, f))
      BY <1>3 DEF And
    <2>2. 3 <= Len(stack) /\ Val(3).sym = "bterm" /\ Val(2).sym = "m1.and" /\ Val(1).sym = "bfac"
      BY <1>t, <2>1 DEF OnTop, Val
    <2>3. /\ "bterm" \in BoolSymbols /\ Val(3).sym \in BoolSymbols /\ Val(1).sym \in BoolSymbols
          /\ Val(2).sym \in LabelSymbols \ {"m2"}
      BY <2>2 DEF BoolSymbols, LabelSymbols
    <2>4. /\ Sides(Val(3), Val(3).truelist, Val(3).falselist)
          /\ Joined(Val(1), Val(3).falselist, Val(1).truelist, f)
      BY DEF Sides, Joined
    <2> QED BY <2>1, <2>2, <2>3, <2>4, KeptJoin
  <1>4. CASE Or
    <2> DEFINE t == Val(3).truelist \cup Val(1).truelist
    <2>1. /\ Parsing /\ OnTop(<<"bexp", "m1.or", "bterm">>)
          /\ Continue(Backpatch(emit, Val(3).falselist, Val(2).label))
          /\ Reduce(3, Bool("bexp", t, Val(1).falselist))
      BY <1>4 DEF Or
    <2>2. 3 <= Len(stack) /\ Val(3).sym = "bexp" /\ Val(2).sym = "m1.or" /\ Val(1).sym = "bterm"
      BY <1>t, <2>1 DEF OnTop, Val
    <2>3. /\ "bexp" \in BoolSymbols /\ Val(3).sym \in BoolSymbols /\ Val(1).sym \in BoolSymbols
          /\ Val(2).sym \in LabelSymbols \ {"m2"}
      BY <2>2 DEF BoolSymbols, LabelSymbols
    <2>4. /\ Sides(Val(3), Val(3).falselist, Val(3).truelist)
          /\ Joined(Val(1), Val(3).truelist, t, Val(1).falselist)
      BY DEF Sides, Joined
    <2> QED BY <2>1, <2>2, <2>3, <2>4, KeptJoin
  <1> QED BY <1>1, <1>2, <1>3, <1>4

\* ---- tokens and markers ----------------------------------------------------------

\* A shift of e, whose open labels are new.
LEMMA Shifted ==
  ASSUME TypeInv, BackpatchInv, Parsing, NEW e \in Entry, Shift(e), NEW b, Continue(b),
         After(emit, b), Sound(b, OpenLabels(Rest(0)) \cup Open(e)),
         OpenLabels(Rest(0)) \cap Open(e) = {}, WellFormed(e, Defined(b)),
         e.sym \in {"m2", "function"} => stack = <<>>,
         e.sym = "m6" => stack # <<>> /\ (Val(1).nextlist # {} => e.label # 0),
         e.sym \notin {"stmt", "list"}
  PROVE  Kept
  <1>1. stack \in Seq(Entry) /\ Len(stack) \in Nat
    BY Start
  <1>2. Reduce(0, e)
    BY <1>1, ShiftReduces
  <1>3. stack = <<>> => 0 = Len(stack)
    OBVIOUS
  <1> QED BY <1>1, <1>2, <1>3, Advance DEF Kept

\* A shift of a symbol without a value.
LEMMA ShiftedPlain ==
  ASSUME TypeInv, BackpatchInv, Parsing,
         NEW s \in {"func_arg", "function", "m4", "IF", "FOR", "WHILE", "NOT", "LPAREN", "assn"},
         s = "function" => stack = <<>>, Shift(Plain(s)), NEW b, Continue(b),
         After(emit, b), Sound(b, OpenLabels(Rest(0)))
  PROVE  Kept
  <1>1. /\ s \in Symbols /\ s \notin BoolSymbols /\ s \notin DestSymbols
        /\ s \notin LabelSymbols /\ s \notin {"m2", "m6", "stmt", "list"}
    BY DEF Symbols, BoolSymbols, DestSymbols, LabelSymbols
  <1> DEFINE e == Plain(s)
  <1>2. e \in Entry /\ e.sym = s /\ WellFormed(e, Defined(b)) /\ Open(e) = {}
    BY <1>1, PlainFormed
  <1>3. Shift(e)
    OBVIOUS
  <1> HIDE DEF e
  <1>4. Sound(b, OpenLabels(Rest(0)) \cup Open(e)) /\ OpenLabels(Rest(0)) \cap Open(e) = {}
    BY <1>2
  <1> QED BY <1>1, <1>2, <1>3, <1>4, Shifted

\* Tokens and markers that wait for nothing.
LEMMA KeptShifts ==
  ASSUME TypeInv, BackpatchInv, FuncHeader \/ NoFunction \/ M4 \/ ShiftBool \/ ShiftCntrl
  PROVE  Kept
  <1>p. Parsing
    BY DEF FuncHeader, NoFunction, M4, ShiftBool, ShiftCntrl
  <1>t. emit \in Block /\ Sound(emit, OpenLabels(Rest(0))) /\ After(emit, emit)
    BY <1>p, Start, AfterSelf
  <1>1. CASE M4
    <2> DEFINE i == Inst("COPYI", 0, 0)
               c == Emit(emit, i)
               b == Emit(c, i)
    <2>1. Continue(b) /\ Shift(Plain("m4"))
      BY <1>1 DEF M4
    <2>2. i \in Instruction /\ i.op \notin JumpOps \cup {"LABEL"}
      BY InstType DEF Inst, DataOps, JumpOps
    <2> HIDE DEF i
    <2>3. Sound(c, OpenLabels(Rest(0))) /\ After(emit, c)
      BY <1>t, <2>2, EmitPlainSound
    <2> HIDE DEF c
    <2>4. Sound(b, OpenLabels(Rest(0))) /\ After(c, b)
      BY <2>2, <2>3, EmitPlainSound
    <2> HIDE DEF b
    <2>5. After(emit, b)
      BY <2>3, <2>4, AfterTransitive
    <2> QED BY <1>p, <2>1, <2>4, <2>5, ShiftedPlain
  <1>2. CASE FuncHeader \/ NoFunction \/ ShiftBool \/ ShiftCntrl
    <2>1. UNCHANGED <<emit, status>>
      BY <1>2 DEF FuncHeader, NoFunction, ShiftBool, ShiftCntrl
    <2>2. Continue(emit)
      BY <1>p, <1>t, <2>1, Stays
    <2>3. \E s \in {"func_arg", "function", "IF", "FOR", "WHILE", "NOT", "LPAREN"} :
            Shift(Plain(s)) /\ (s = "function" => stack = <<>>)
      BY <1>2 DEF FuncHeader, NoFunction, ShiftBool, ShiftCntrl
    <2> QED BY <1>p, <1>t, <2>2, <2>3, ShiftedPlain
  <1> QED BY <1>1, <1>2

\* m2 opens the skip label and emits the prologue's.
LEMMA KeptM2 ==
  ASSUME TypeInv, BackpatchInv, M2
  PROVE  Kept
  <1> DEFINE skip == FreshLabel(emit)
             open == OpenLabels(Rest(0))
             one == NewLabel(emit)
             two == NewLabel(one)
             three == Ujump(two, skip)
             b == Label(three, skip + 1)
             e == Marker("m2", skip + 1, {skip})
  <1>1. Parsing /\ stack = <<>> /\ Continue(b) /\ Shift(e)
    BY DEF M2
  <1>2. emit \in Block /\ Sound(emit, open)
    BY <1>1, Start
  <1>3. skip \in Nat \ {0}
    BY <1>2, NewLabelType
  <1>4. /\ Sound(one, open \cup {skip}) /\ After(emit, one) /\ skip \notin open
        /\ FreshLabel(one) = skip + 1
    BY <1>2, NewLabelSound
  <1> HIDE DEF skip, open, one
  <1>5. /\ Sound(two, (open \cup {skip}) \cup {skip + 1}) /\ After(one, two)
        /\ skip + 1 \notin open \cup {skip}
    BY <1>4, NewLabelSound
  <1> HIDE DEF two
  <1>6. Sound(three, (open \cup {skip}) \cup {skip + 1}) /\ After(two, three)
    BY <1>5, UjumpSound
  <1> HIDE DEF three
  <1>7. Sound(b, open \cup {skip}) /\ After(three, b) /\ skip + 1 \in Defined(b)
    BY <1>5, <1>6, LabelSound
  <1> HIDE DEF b
  <1>8. After(emit, b)
    BY <1>4, <1>5, <1>6, <1>7, AfterTransitive
  <1>9. e \in Entry /\ e.sym = "m2" /\ WellFormed(e, Defined(b)) /\ Open(e) = {skip}
    <2>1. /\ "m2" \in Symbols /\ "m2" \notin BoolSymbols /\ "m2" \notin StmtSymbols
          /\ "m2" \in DestSymbols
      BY DEF Symbols, BoolSymbols, StmtSymbols, DestSymbols
    <2>2. skip + 1 \in Nat /\ {skip} \in SUBSET Nat
      BY <1>3
    <2>3. e \in Entry
      BY <2>1, <2>2, MarkerType
    <2> QED BY <1>7, <2>1, <2>3 DEF Marker, WellFormed, Open
  <1> HIDE DEF e
  <1>10. Sound(b, open \cup Open(e)) /\ open \cap Open(e) = {}
    BY <1>4, <1>7, <1>9
  <1> QED BY <1>1, <1>8, <1>9, <1>10, Shifted DEF open

\* m1: the label is emitted.
LEMMA KeptM1 ==
  ASSUME TypeInv, BackpatchInv, M1
  PROVE  Kept
  <1> DEFINE n == FreshLabel(emit)
             b == Mark(emit)
  <1>1. /\ Parsing /\ Continue(b)
        /\ \E site \in M1Sites : Shift(Marker(site[2], n, {}))
    BY DEF M1, ActiveSites
  <1>2. Sound(emit, OpenLabels(Rest(0)))
    BY <1>1, Start
  <1>3. /\ Sound(b, OpenLabels(Rest(0))) /\ After(emit, b) /\ n \in Defined(b) /\ n \in Nat
    BY <1>2, MarkSound
  <1> HIDE DEF n, b
  <1>4. PICK site \in M1Sites : Shift(Marker(site[2], n, {}))
    BY <1>1
  <1>5. site[2] \in LabelSymbols \ {"m2"}
    BY DEF M1Sites, LabelSymbols
  <1> DEFINE e == Marker(site[2], n, {})
  <1>6. e \in Entry /\ e.sym = site[2] /\ WellFormed(e, Defined(b)) /\ Open(e) = {}
    BY <1>3, <1>5, LabelFormed
  <1>7. Shift(e)
    BY <1>4
  <1> HIDE DEF e
  <1>8. e.sym \notin {"m2", "function", "m6", "stmt", "list"}
    BY <1>5, <1>6 DEF LabelSymbols
  <1>9. Sound(b, OpenLabels(Rest(0)) \cup Open(e)) /\ OpenLabels(Rest(0)) \cap Open(e) = {}
    BY <1>3, <1>6
  <1> QED BY <1>1, <1>3, <1>6, <1>7, <1>8, <1>9, Shifted

\* m5: the label of the jump waits in dest.
LEMMA KeptM5 ==
  ASSUME TypeInv, BackpatchInv, M5
  PROVE  Kept
  <1> DEFINE n == FreshLabel(emit)
             b == JumpFresh(emit)
  <1>1. /\ Parsing /\ Continue(b)
        /\ \E s \in {"m5.else", "m5.for"} : Shift(Marker(s, 0, {n}))
    BY DEF M5
  <1>2. Sound(emit, OpenLabels(Rest(0)))
    BY <1>1, Start
  <1>3. /\ Sound(b, OpenLabels(Rest(0)) \cup {n}) /\ After(emit, b)
        /\ n \notin OpenLabels(Rest(0)) /\ n \in Nat
    BY <1>2, JumpFreshSound
  <1> HIDE DEF n, b
  <1>4. PICK s \in {"m5.else", "m5.for"} : Shift(Marker(s, 0, {n}))
    BY <1>1
  <1>5. /\ s \in Symbols /\ s \notin BoolSymbols /\ s \notin StmtSymbols /\ s \in DestSymbols
        /\ s \notin LabelSymbols /\ s \notin {"m2", "function", "m6", "stmt", "list"}
    BY DEF Symbols, BoolSymbols, StmtSymbols, DestSymbols, LabelSymbols
  <1> DEFINE e == Marker(s, 0, {n})
  <1>6. e \in Entry /\ e.sym = s
    BY <1>3, <1>5, MarkerType
  <1>7. WellFormed(e, Defined(b)) /\ Open(e) = {n}
    BY <1>5 DEF Marker, WellFormed, Open
  <1>8. Shift(e)
    BY <1>4
  <1> HIDE DEF e
  <1>9. Sound(b, OpenLabels(Rest(0)) \cup Open(e)) /\ OpenLabels(Rest(0)) \cap Open(e) = {}
    BY <1>3, <1>7
  <1> QED BY <1>1, <1>3, <1>5, <1>6, <1>7, <1>8, <1>9, Shifted

\* ---- simple statements and comparisons ---------------------------------------------

\* The instruction that does the work of a statement.
LEMMA OpSound ==
  ASSUME NEW b, NEW open, Sound(b, open), NEW op \in DataOps, size \in Nat
  PROVE  /\ Sound(Emit(b, Inst(op, 0, size)), open) /\ After(b, Emit(b, Inst(op, 0, size)))
         /\ FreshLabel(Emit(b, Inst(op, 0, size))) = FreshLabel(b)
  <1> DEFINE i == Inst(op, 0, size)
  <1>1. i \in Instruction /\ i.op = op
    BY InstType DEF Inst
  <1>2. op \notin JumpOps \cup {"LABEL"}
    BY DEF DataOps, JumpOps
  <1> HIDE DEF i
  <1>3. i.op \notin JumpOps \cup {"LABEL"}
    BY <1>1, <1>2
  <1>4. Sound(Emit(b, i), open) /\ After(b, Emit(b, i)) /\ FreshLabel(Emit(b, i)) = FreshLabel(b)
    BY <1>1, <1>3, EmitPlainSound
  <1> QED BY <1>4 DEF i

\* Assignment, read and write: an operation, no jump.
LEMMA KeptAssn ==
  ASSUME TypeInv, BackpatchInv, NEW x, Assn(x)
  PROVE  Kept
  <1> DEFINE open == OpenLabels(Rest(0))
             one == EmitExp(emit, x)
             b == Emit(one, Inst("OP", 0, size))
  <1>1. Parsing /\ Continue(b) /\ Shift(Plain("assn"))
    BY DEF Assn
  <1>2. Sound(emit, open) /\ size \in Nat
    BY <1>1, Start
  <1> HIDE DEF open
  <1>3. Sound(one, open) /\ After(emit, one)
    BY <1>2, EmitExpSound
  <1> HIDE DEF one
  <1>4. Sound(b, open) /\ After(one, b)
    BY <1>2, <1>3, OpSound DEF DataOps
  <1> HIDE DEF b
  <1>5. After(emit, b)
    BY <1>3, <1>4, AfterTransitive
  <1> QED BY <1>1, <1>4, <1>5, ShiftedPlain DEF open

\* A return waits for the end of the function in its retlist.
LEMMA KeptReturn ==
  ASSUME TypeInv, BackpatchInv, NEW x, Return(x)
  PROVE  Kept
  <1> DEFINE open == OpenLabels(Rest(0))
             one == EmitExp(emit, x)
             stored == Emit(one, Inst("OP", 0, size))
             b == JumpFresh(stored)
             n == FreshLabel(stored)
             e == Stmt("return", {}, {n})
  <1>1. Parsing /\ Continue(b) /\ Shift(e)
    BY DEF Return
  <1>2. Sound(emit, open) /\ size \in Nat
    BY <1>1, Start
  <1> HIDE DEF open
  <1>3. Sound(one, open) /\ After(emit, one)
    BY <1>2, EmitExpSound
  <1> HIDE DEF one
  <1>4. Sound(stored, open) /\ After(one, stored)
    BY <1>2, <1>3, OpSound DEF DataOps
  <1> HIDE DEF stored
  <1>5. Sound(b, open \cup {n}) /\ After(stored, b) /\ n \notin open /\ n \in Nat
    BY <1>4, JumpFreshSound
  <1> HIDE DEF b, n
  <1>6. After(emit, b)
    BY <1>3, <1>4, <1>5, AfterTransitive
  <1>7. /\ e \in Entry /\ e.sym = "return" /\ WellFormed(e, Defined(b)) /\ Open(e) = {n}
    <2> DEFINE N == {}
               R == {n}
    <2>1. N \in SUBSET Nat /\ R \in SUBSET Nat /\ N \cap R = {} /\ "return" \in StmtSymbols
      BY <1>5, Classes
    <2>2. e = Stmt("return", N, R)
      OBVIOUS
    <2> HIDE DEF N, R, e
    <2>3. e \in Entry /\ e.sym = "return" /\ WellFormed(e, Defined(b)) /\ Open(e) = N \cup R
      BY <2>1, <2>2, StmtFormed
    <2> QED BY <2>3 DEF N, R
  <1> HIDE DEF e
  <1>8. Sound(b, open \cup Open(e)) /\ open \cap Open(e) = {}
    BY <1>5, <1>7
  <1> QED BY <1>1, <1>6, <1>7, <1>8, Shifted DEF open

\* A conditional jump to an open label.
LEMMA BranchSound ==
  ASSUME NEW b, NEW open, Sound(b, open), NEW op \in JumpOps, NEW l \in open
  PROVE  Sound(Emit(b, Inst(op, l, 0)), open) /\ After(b, Emit(b, Inst(op, l, 0)))
  <1> DEFINE i == Inst(op, l, 0)
  <1>1. l \in Nat
    BY LabelsType DEF Sound
  <1>2. i \in Instruction /\ i.op = op /\ i.label = l
    BY <1>1, InstType DEF Inst
  <1> HIDE DEF i
  <1>3. Sound(Emit(b, i), open) /\ After(b, Emit(b, i))
    BY <1>2, EmitJumpSound
  <1> QED BY <1>3 DEF i

\* A comparison opens two labels and jumps to both.
LEMMA TestSound ==
  ASSUME NEW b, NEW open, NEW l1 \in open, NEW l2 \in open, Sound(b, open),
         NEW cmp \in DataOps, NEW branch \in JumpOps, size \in Nat
  PROVE  LET c == Ujump(Emit(Emit(b, Inst(cmp, 0, size)), Inst(branch, l1, 0)), l2)
         IN  Sound(c, open) /\ After(b, c)
  <1> DEFINE one == Emit(b, Inst(cmp, 0, size))
             two == Emit(one, Inst(branch, l1, 0))
             c == Ujump(two, l2)
  <1>1. Sound(one, open) /\ After(b, one)
    BY OpSound
  <1> HIDE DEF one
  <1>2. Sound(two, open) /\ After(one, two)
    BY <1>1, BranchSound
  <1> HIDE DEF two
  <1>3. Sound(c, open) /\ After(two, c)
    BY <1>2, UjumpSound
  <1> HIDE DEF c
  <1>4. After(b, c)
    BY <1>1, <1>2, <1>3, AfterTransitive
  <1> QED BY <1>3, <1>4 DEF c, two, one

\* A comparison waits in a truelist and a falselist of one label each.
LEMMA KeptRelOp ==
  ASSUME TypeInv, BackpatchInv, NEW x, NEW inverse, RelOp(x, inverse)
  PROVE  Kept
  <1> DEFINE open == OpenLabels(Rest(0))
             tl == FreshLabel(emit)
             fl == tl + 1
             one == NewLabel(emit)
             two == NewLabel(one)
             three == EmitExp(two, x)
             straight == Ujump(Emit(Emit(three, Inst("CMP", 0, size)), Inst("BREQZ", fl, 0)), tl)
             negated == Ujump(Emit(Emit(three, Inst("CMPN", 0, size)), Inst("BNEQZ", tl, 0)), fl)
             both == open \cup {tl, fl}
  <1>1. /\ Parsing
        /\ \/ Continue(negated) /\ Shift(Bool("bpfac", {fl}, {tl}))
           \/ Continue(straight) /\ Shift(Bool("bpfac", {tl}, {fl}))
    BY DEF RelOp
  <1>2. emit \in Block /\ Sound(emit, open) /\ size \in Nat
    BY <1>1, Start
  <1>3. tl \in Nat \ {0}
    BY <1>2, NewLabelType
  <1>4. Sound(one, open \cup {tl}) /\ After(emit, one) /\ tl \notin open /\ FreshLabel(one) = fl
    BY <1>2, NewLabelSound
  <1>5. fl \in Nat /\ tl \in Nat /\ tl # fl
    BY <1>3
  <1> HIDE DEF tl, fl, one, open
  <1>6. Sound(two, (open \cup {tl}) \cup {fl}) /\ After(one, two) /\ fl \notin open
    BY <1>4, NewLabelSound
  <1>7. (open \cup {tl}) \cup {fl} = both /\ tl \in both /\ fl \in both
    OBVIOUS
  <1> HIDE DEF two, both
  <1>8. Sound(three, both) /\ After(two, three)
    BY <1>2, <1>6, <1>7, EmitExpSound
  <1> HIDE DEF three
  <1>9. Sound(straight, both) /\ After(three, straight)
    BY <1>2, <1>7, <1>8, TestSound DEF DataOps, JumpOps
  <1>10. Sound(negated, both) /\ After(three, negated)
    BY <1>2, <1>7, <1>8, TestSound DEF DataOps, JumpOps
  <1> HIDE DEF straight, negated
  <1>11. ASSUME NEW t, NEW f, NEW b, Sound(b, both), After(three, b),
                (t = tl /\ f = fl) \/ (t = fl /\ f = tl),
                Continue(b), Shift(Bool("bpfac", {t}, {f}))
         PROVE  Kept
    <2> DEFINE e == Bool("bpfac", {t}, {f})
    <2>1. After(emit, b)
      BY <1>4, <1>6, <1>8, <1>11, AfterTransitive
    <2>2. /\ {t} \in SUBSET Nat /\ {f} \in SUBSET Nat /\ {t} # {} /\ {f} # {} /\ {t} \cap {f} = {}
          /\ "bpfac" \in BoolSymbols
      BY <1>5, <1>11, Classes
    <2>3. e \in Entry /\ e.sym = "bpfac" /\ WellFormed(e, Defined(b))
      BY <2>2, BoolFormed
    <2>4. Open(e) = {tl, fl}
      <3>1. Open(e) = {t} \cup {f}
        BY DEF Open, Bool
      <3> QED BY <1>11, <3>1
    <2>5. Shift(e)
      BY <1>11
    <2> HIDE DEF e
    <2>6. Sound(b, open \cup Open(e)) /\ open \cap Open(e) = {}
      BY <1>4, <1>6, <1>11, <2>4 DEF both
    <2> QED BY <1>1, <1>11, <2>1, <2>3, <2>5, <2>6, Shifted DEF open
  <1> QED BY <1>1, <1>9, <1>10, <1>11

\* ---- statement lists and blocks -------------------------------------------------------

\* m6: its label exists if the last statement left a nextlist.
LEMMA KeptM6 ==
  ASSUME TypeInv, BackpatchInv, M6
  PROVE  Kept
  <1>p. Parsing /\ OnTop(<<"list">>)
    BY DEF M6
  <1>1. /\ stack \in Seq(Entry) /\ Len(stack) \in Nat /\ Sound(emit, OpenLabels(Rest(0)))
    BY <1>p, Start
  <1>2. 1 <= Len(stack) /\ Val(1).sym = "list" /\ Val(1) = stack[Len(stack)]
    BY <1>p, <1>1 DEF OnTop, Val
  <1>3. stack # <<>>
    BY <1>2
  <1>4. Val(1).nextlist # {} => stmt_has_nextlist
    BY <1>2, <1>3 DEF BackpatchInv, FlagInv
  <1>m. "m6" \in Symbols /\ "m6" \notin BoolSymbols /\ "m6" \notin StmtSymbols
        /\ "m6" \notin DestSymbols /\ "m6" \notin LabelSymbols
    BY Classes
  <1>5. CASE stmt_has_nextlist
    <2> DEFINE n == FreshLabel(emit)
               b == Mark(emit)
               e == Marker("m6", n, {})
    <2>1. Continue(b) /\ Shift(e)
      BY <1>5 DEF M6
    <2>2. /\ Sound(b, OpenLabels(Rest(0))) /\ After(emit, b) /\ n \in Defined(b) /\ n \in Nat \ {0}
      BY <1>1, MarkSound
    <2> HIDE DEF n, b
    <2>3. e \in Entry /\ e.sym = "m6" /\ e.label = n
      BY <1>m, <2>2, MarkerType DEF Marker
    <2>4. WellFormed(e, Defined(b)) /\ Open(e) = {}
      BY <1>m, <2>2 DEF Marker, WellFormed, Open
    <2> HIDE DEF e
    <2>5. Sound(b, OpenLabels(Rest(0)) \cup Open(e)) /\ OpenLabels(Rest(0)) \cap Open(e) = {}
      BY <2>2, <2>4
    <2> QED BY <1>p, <1>3, <2>1, <2>2, <2>3, <2>4, <2>5, Shifted
  <1>6. CASE ~ stmt_has_nextlist
    <2> DEFINE e == Plain("m6")
    <2>1. UNCHANGED <<emit, status>> /\ Shift(e)
      BY <1>6 DEF M6
    <2>2. Continue(emit) /\ After(emit, emit)
      BY <1>p, <1>1, <2>1, Stays, AfterSelf
    <2>3. e \in Entry /\ e.sym = "m6" /\ e.label = 0
      BY <1>m, PlainType DEF Plain
    <2>4. WellFormed(e, Defined(emit)) /\ Open(e) = {}
      BY <1>m DEF Plain, WellFormed, Open
    <2> HIDE DEF e
    <2>5. Sound(emit, OpenLabels(Rest(0)) \cup Open(e)) /\ OpenLabels(Rest(0)) \cap Open(e) = {}
      BY <1>1, <2>4
    <2>6. Val(1).nextlist = {}
      BY <1>4, <1>6
    <2> QED BY <1>p, <1>3, <2>1, <2>2, <2>3, <2>4, <2>5, <2>6, Shifted
  <1> QED BY <1>5, <1>6

\* list : list m6 stmt.
LEMMA KeptReduceList ==
  ASSUME TypeInv, BackpatchInv, ReduceList
  PROVE  Kept
  <1> DEFINE V == Val(1)
             W == Val(3)
             e == Stmt("list", V.nextlist, W.retlist \cup V.retlist)
             b == BackpatchIfAny(emit, W.nextlist, Val(2).label)
  <1>1. /\ Parsing /\ OnTop(<<"list", "m6", "stmt">>) /\ Reduce(3, e) /\ Continue(b)
        /\ UNCHANGED stmt_has_nextlist
    BY DEF ReduceList
  <1>2. /\ stack \in Seq(Entry) /\ Len(stack) \in Nat /\ StackInv(stack, Defined(emit))
        /\ Sound(emit, OpenLabels(Rest(0)))
    BY <1>1, Start
  <1>3. 3 <= Len(stack) /\ Val(3).sym = "list" /\ Val(2).sym = "m6" /\ Val(1).sym = "stmt"
    BY <1>1, <1>2 DEF OnTop, Val
  <1>4. /\ OpenLabels(Rest(0)) = OpenLabels(Rest(1)) \cup Open(V)
        /\ OpenLabels(Rest(1)) \cap Open(V) = {}
        /\ V \in Entry /\ WellFormed(V, Defined(emit))
    BY <1>2, <1>3, Popped
  <1>5. OpenLabels(Rest(1)) = OpenLabels(Rest(2)) /\ Val(2).label \in Defined(emit) \cup {0}
    <2>1. /\ OpenLabels(Rest(1)) = OpenLabels(Rest(2)) \cup Open(Val(2))
          /\ Val(2) \in Entry /\ WellFormed(Val(2), Defined(emit))
      BY <1>2, <1>3, Popped
    <2> QED BY <1>3, <2>1, NothingOpen, Classes DEF WellFormed
  <1>6. /\ OpenLabels(Rest(2)) = OpenLabels(Rest(3)) \cup Open(W)
        /\ OpenLabels(Rest(3)) \cap Open(W) = {}
        /\ W \in Entry /\ WellFormed(W, Defined(emit))
    BY <1>2, <1>3, Popped
  <1>7. /\ Open(V) = V.nextlist \cup V.retlist /\ V.nextlist \cap V.retlist = {}
        /\ V.nextlist \in SUBSET Nat /\ V.retlist \in SUBSET Nat
    BY <1>3, <1>4, StmtOpen, Classes
  <1>8. /\ Open(W) = W.nextlist \cup W.retlist /\ W.nextlist \cap W.retlist = {}
        /\ W.nextlist \in SUBSET Nat /\ W.retlist \in SUBSET Nat
    BY <1>3, <1>6, StmtOpen, Classes
  <1>9. W.nextlist # {} => Val(2).label # 0
    <2>1. /\ Val(2) = stack[Len(stack) - 1] /\ W = stack[Len(stack) - 1 - 1]
          /\ Len(stack) - 1 \in DOMAIN stack
      BY <1>2, <1>3 DEF Val
    <2> QED BY <1>3, <2>1 DEF StackInv, BackpatchInv
  <1>10. V.nextlist # {} => stmt_has_nextlist
    <2>1. V = stack[Len(stack)] /\ stack # <<>>
      BY <1>2, <1>3 DEF Val
    <2> QED BY <1>3, <2>1 DEF BackpatchInv, FlagInv
  <1> DEFINE N == V.nextlist
             R == W.retlist \cup V.retlist
             L == W.nextlist
             open == OpenLabels(Rest(3)) \cup (N \cup R)
  <1>11. OpenLabels(Rest(0)) = open \cup L /\ L \cap open = {}
    BY <1>4, <1>5, <1>6, <1>7, <1>8
  <1>12. N \cap R = {} /\ OpenLabels(Rest(3)) \cap (N \cup R) = {}
    BY <1>4, <1>5, <1>6, <1>7, <1>8
  <1>13. N \in SUBSET Nat /\ R \in SUBSET Nat
    BY <1>7, <1>8
  <1>14. /\ Reduce(3, Stmt("list", N, R)) /\ b = BackpatchIfAny(emit, L, Val(2).label)
         /\ (L # {} => Val(2).label \in Defined(emit)) /\ (N # {} => stmt_has_nextlist')
    BY <1>1, <1>5, <1>9, <1>10
  <1> HIDE DEF V, W, N, R, L, b, e
  <1>15. Sound(b, open) /\ After(emit, b)
    BY <1>2, <1>11, <1>14, BackpatchIfAnySound
  <1> DEFINE g == Stmt("list", N, R)
  <1>16. /\ g \in Entry /\ g.sym = "list" /\ g.nextlist = N /\ WellFormed(g, Defined(b))
         /\ Open(g) = N \cup R
    <2>1. "list" \in StmtSymbols
      BY Classes
    <2>2. g \in Entry /\ g.sym = "list" /\ g.nextlist = N /\ WellFormed(g, Defined(b))
      BY <1>12, <1>13, <2>1, StmtFormed
    <2>3. Open(g) = N \cup R
      BY DEF Open, Stmt
    <2> QED BY <2>2, <2>3
  <1>17. Reduce(3, g)
    BY <1>14
  <1> HIDE DEF g
  <1>18. OpenLabels(Rest(3)) \cap Open(g) = {} /\ Sound(b, OpenLabels(Rest(3)) \cup Open(g))
    BY <1>12, <1>15, <1>16
  <1> QED BY <1>1, <1>2, <1>3, <1>14, <1>15, <1>16, <1>17, <1>18, Advance DEF Kept

\* The end of a block, and a statement of any kind.
LEMMA KeptUnits ==
  ASSUME TypeInv, BackpatchInv, CloseBlk \/ StmtUnit
  PROVE  Kept
  <1>t. stack \in Seq(Entry) /\ Len(stack) \in Nat
    BY LenProperties DEF TypeInv, TypeOK
  <1>1. CASE CloseBlk
    <2>1. /\ Parsing /\ UNCHANGED <<emit, status>> /\ OnTop(<<"m0", "list">>)
          /\ Reduce(2, As("blk", Val(1)))
      BY <1>1 DEF CloseBlk
    <2>2. 2 <= Len(stack) /\ Val(1).sym = "list" /\ Val(2).sym = "m0"
      BY <1>t, <2>1 DEF OnTop, Val
    <2>3. "blk" \in StmtSymbols /\ Val(1).sym \in StmtSymbols /\ 2 \in 1 .. 2
      BY <2>2, Classes
    <2> QED BY <2>1, <2>2, <2>3, KeptAs
  <1>2. CASE StmtUnit
    <2>1. /\ Parsing /\ UNCHANGED <<emit, status>> /\ Reduce(1, As("stmt", Val(1)))
          /\ stmt_has_nextlist' = (Val(1).nextlist # {})
          /\ \E s \in {"assn", "cntrl", "return", "blk"}, c \in StmtContext : OnTop(<<c, s>>)
      BY <1>2 DEF StmtUnit
    <2>2. PICK s \in {"assn", "cntrl", "return", "blk"}, c \in StmtContext : OnTop(<<c, s>>)
      BY <2>1
    <2>3. 2 <= Len(stack) /\ Val(1).sym = s
      BY <1>t, <2>2 DEF OnTop, Val
    <2>4. "stmt" \in StmtSymbols /\ Val(1).sym \in StmtSymbols /\ 1 \in 1 .. 2 /\ 1 # 2 /\ 1 <= Len(stack)
      BY <1>t, <2>2, <2>3, Classes
    <2>5. Val(1).nextlist # {} => stmt_has_nextlist'
      BY <2>1
    <2> QED BY <2>1, <2>4, <2>5, KeptAs
  <1> QED BY <1>1, <1>2

\* blk : m0 declarations BEGIN, and the empty list behind it.
LEMMA KeptOpenBlk ==
  ASSUME TypeInv, BackpatchInv, OpenBlk
  PROVE  Kept
  <1> DEFINE i == Inst("LOADI", 0, 0)
             c == Emit(emit, i)
             b == Emit(c, i)
             m0 == Plain("m0")
             list == Plain("list")
             open == OpenLabels(stack)
  <1>1. /\ Parsing /\ stack' = Append(Append(stack, m0), list)
        /\ Continue(b) \/ UNCHANGED <<emit, status>>
    BY DEF OpenBlk
  <1>2. /\ emit \in Block /\ stack \in Seq(Entry) /\ StackInv(stack, Defined(emit))
        /\ Sound(emit, open)
    BY <1>1, Start DEF BackpatchInv
  <1>3. i \in Instruction /\ i.op \notin JumpOps \cup {"LABEL"}
    BY InstType DEF Inst, DataOps, JumpOps
  <1>4. /\ m0 \in Entry /\ m0.sym = "m0" /\ Open(m0) = {}
        /\ list \in Entry /\ list.sym = "list" /\ Open(list) = {} /\ list.nextlist = {}
        /\ \A D : WellFormed(m0, D) /\ WellFormed(list, D)
    <2>1. /\ "m0" \in Symbols /\ "m0" \notin BoolSymbols /\ "m0" \notin DestSymbols
          /\ "m0" \notin LabelSymbols
          /\ "list" \in Symbols /\ "list" \notin BoolSymbols /\ "list" \notin DestSymbols
          /\ "list" \notin LabelSymbols
      BY DEF Symbols, BoolSymbols, DestSymbols, LabelSymbols
    <2> QED BY <2>1, PlainFormed
  <1> HIDE DEF i, m0, list, open
  <1>5. Sound(c, open) /\ After(emit, c)
    BY <1>2, <1>3, EmitPlainSound
  <1> HIDE DEF c
  <1>6. Sound(b, open) /\ After(c, b)
    BY <1>3, <1>5, EmitPlainSound
  <1> HIDE DEF b
  <1>7. After(emit, b)
    BY <1>5, <1>6, AfterTransitive
  <1>8. Sound(emit', open) /\ After(emit, emit') /\ status' = "parsing"
    <2>1. CASE Continue(b)
      BY <1>6, <1>7, <2>1 DEF Continue, Sound
    <2>2. CASE UNCHANGED <<emit, status>>
      BY <1>1, <1>2, <2>2, AfterSelf DEF Parsing
    <2> QED BY <1>1, <2>1, <2>2
  <1> DEFINE r == Append(stack, m0)
  <1>9. r \in Seq(Entry) /\ StackInv(r, Defined(emit)) /\ OpenLabels(r) = open
    BY <1>2, <1>4, PushInv, ZenonT(60) DEF open
  <1> HIDE DEF r
  <1>10. Defined(emit) \subseteq Defined(emit')
    BY <1>8 DEF After
  <1>11. /\ Append(r, list) \in Seq(Entry) /\ StackInv(Append(r, list), Defined(emit'))
         /\ OpenLabels(Append(r, list)) = open
    BY <1>4, <1>9, <1>10, PushInv, ZenonT(60)
  <1>12. stack' = Append(r, list) /\ stack'[Len(stack')] = list
    BY <1>1, <1>9 DEF r
  <1>13. FlagInv(stack, stmt_has_nextlist)'
    BY <1>4, <1>12 DEF FlagInv
  <1>14. StackInv(stack', Defined(emit')) /\ Sound(emit', OpenLabels(stack'))
    BY <1>8, <1>11, <1>12
  <1> QED BY <1>8, <1>13, <1>14 DEF BackpatchInv, Parsing, Kept

\* ---- control statements ------------------------------------------------------------------

\* What a rule finds at place k, by the class of the symbol there.
LEMMA AtBool ==
  ASSUME TypeInv, BackpatchInv, Parsing, NEW k \in 1 .. Len(stack), Val(k).sym = "bexp"
  PROVE  /\ OpenLabels(Rest(k - 1)) =
              OpenLabels(Rest(k)) \cup (Val(k).truelist \cup Val(k).falselist)
         /\ OpenLabels(Rest(k)) \cap (Val(k).truelist \cup Val(k).falselist) = {}
         /\ Val(k).truelist \cap Val(k).falselist = {} /\ Val(k).truelist # {}
         /\ Val(k).falselist # {}
         /\ Val(k).truelist \in SUBSET Nat /\ Val(k).falselist \in SUBSET Nat
  <1>1. stack \in Seq(Entry) /\ StackInv(stack, Defined(emit)) /\ Val(k).sym \in BoolSymbols
    BY Start, Classes
  <1>2. /\ OpenLabels(Rest(k - 1)) = OpenLabels(Rest(k)) \cup Open(Val(k))
        /\ OpenLabels(Rest(k)) \cap Open(Val(k)) = {}
        /\ Val(k) \in Entry /\ WellFormed(Val(k), Defined(emit))
    BY <1>1, Popped
  <1> QED BY <1>1, <1>2, BoolOpen

\* A statement or a block at place k.
LEMMA AtStmt ==
  ASSUME TypeInv, BackpatchInv, Parsing, NEW k \in 1 .. Len(stack), Val(k).sym \in {"stmt", "blk"}
  PROVE  /\ OpenLabels(Rest(k - 1)) =
              OpenLabels(Rest(k)) \cup (Val(k).nextlist \cup Val(k).retlist)
         /\ OpenLabels(Rest(k)) \cap (Val(k).nextlist \cup Val(k).retlist) = {}
         /\ Val(k).nextlist \cap Val(k).retlist = {}
         /\ Val(k).nextlist \in SUBSET Nat /\ Val(k).retlist \in SUBSET Nat
  <1>1. stack \in Seq(Entry) /\ StackInv(stack, Defined(emit)) /\ Val(k).sym \in StmtSymbols
    BY Start, Classes
  <1>2. /\ OpenLabels(Rest(k - 1)) = OpenLabels(Rest(k)) \cup Open(Val(k))
        /\ OpenLabels(Rest(k)) \cap Open(Val(k)) = {}
        /\ Val(k) \in Entry /\ WellFormed(Val(k), Defined(emit))
    BY <1>1, Popped
  <1> QED BY <1>1, <1>2, StmtOpen

\* A marker with a label at place k.
LEMMA AtMarker ==
  ASSUME TypeInv, BackpatchInv, Parsing, NEW k \in 1 .. Len(stack),
         Val(k).sym \in LabelSymbols \ {"m2"}
  PROVE  /\ OpenLabels(Rest(k - 1)) = OpenLabels(Rest(k))
         /\ Val(k).label \in Defined(emit)
  <1>1. stack \in Seq(Entry) /\ StackInv(stack, Defined(emit))
    BY Start
  <1>2. /\ OpenLabels(Rest(k - 1)) = OpenLabels(Rest(k)) \cup Open(Val(k))
        /\ Val(k) \in Entry /\ WellFormed(Val(k), Defined(emit))
    BY <1>1, Popped
  <1> QED BY <1>2, NothingOpen, Classes DEF WellFormed

\* A marker that jumps at place k.
LEMMA AtDest ==
  ASSUME TypeInv, BackpatchInv, Parsing, NEW k \in 1 .. Len(stack), Val(k).sym \in DestSymbols
  PROVE  /\ OpenLabels(Rest(k - 1)) = OpenLabels(Rest(k)) \cup Val(k).dest
         /\ OpenLabels(Rest(k)) \cap Val(k).dest = {}
         /\ \E l \in Nat : Val(k).dest = {l}
         /\ Val(k).sym = "m2" => Val(k).label \in Defined(emit)
  <1>1. stack \in Seq(Entry) /\ StackInv(stack, Defined(emit))
    BY Start
  <1>2. /\ OpenLabels(Rest(k - 1)) = OpenLabels(Rest(k)) \cup Open(Val(k))
        /\ OpenLabels(Rest(k)) \cap Open(Val(k)) = {}
        /\ Val(k) \in Entry /\ WellFormed(Val(k), Defined(emit))
    BY <1>1, Popped
  <1>3. Val(k).sym = "m2" => Val(k).label \in Defined(emit)
    BY <1>2 DEF WellFormed, LabelSymbols
  <1> QED BY <1>1, <1>2, <1>3, DestOpen

\* A token at place k.
LEMMA AtToken ==
  ASSUME TypeInv, BackpatchInv, Parsing, NEW k \in 1 .. Len(stack),
         Val(k).sym \in {"IF", "FOR", "WHILE", "func_arg", "m4", "function"}
  PROVE  OpenLabels(Rest(k - 1)) = OpenLabels(Rest(k))
  <1>1. stack \in Seq(Entry) /\ StackInv(stack, Defined(emit))
    BY Start
  <1>2. /\ OpenLabels(Rest(k - 1)) = OpenLabels(Rest(k)) \cup Open(Val(k))
        /\ Val(k) \in Entry /\ WellFormed(Val(k), Defined(emit))
    BY <1>1, Popped
  <1> QED BY <1>2, NothingOpen, Classes

\* A control statement pops k entries, whose labels are those of n, those of r
\* and what was patched.
LEMMA Controlled ==
  ASSUME TypeInv, BackpatchInv, Parsing, NEW k \in 1 .. Len(stack),
         NEW n \in SUBSET Nat, NEW r \in SUBSET Nat, n \cap r = {},
         OpenLabels(Rest(k)) \cap (n \cup r) = {},
         NEW b, Continue(b), After(emit, b), Sound(b, OpenLabels(Rest(k)) \cup (n \cup r)),
         Reduce(k, Stmt("cntrl", n, r))
  PROVE  Kept
  <1> DEFINE e == Stmt("cntrl", n, r)
  <1>1. stack \in Seq(Entry) /\ k \in 0 .. Len(stack) /\ "cntrl" \in StmtSymbols
    BY Start, Classes
  <1>2. e \in Entry /\ e.sym = "cntrl" /\ WellFormed(e, Defined(b))
    <2>1. e \in Entry
      BY StmtType DEF Symbols
    <2>2. WellFormed(e, Defined(b))
      BY <1>1, StmtFormed
    <2> QED BY <2>1, <2>2 DEF Stmt
  <1>3. Open(e) = n \cup r
    BY DEF Open, Stmt
  <1>4. Reduce(k, e)
    OBVIOUS
  <1> HIDE DEF e
  <1>5. OpenLabels(Rest(k)) \cap Open(e) = {} /\ Sound(b, OpenLabels(Rest(k)) \cup Open(e))
    BY <1>3
  <1> QED BY <1>1, <1>2, <1>4, <1>5, Advance DEF Kept

\* IF without ELSE: the condition may skip the branch.
LEMMA KeptIfThen ==
  ASSUME TypeInv, BackpatchInv, IfThen
  PROVE  Kept
  <1> DEFINE T == Val(3).truelist
             F == Val(3).falselist
             l == Val(2).label
             N == Val(1).nextlist
             r == Val(1).retlist
             patched == Backpatch(emit, T, l)
             b == Enforced(patched, N)
             E == EnforcedList(patched, N)
             R0 == OpenLabels(Rest(0))
             R1 == OpenLabels(Rest(1))
             R2 == OpenLabels(Rest(2))
             R3 == OpenLabels(Rest(3))
             R4 == OpenLabels(Rest(4))
  <1>1. /\ Parsing /\ OnTop(<<"IF", "bexp", "m1.then", "stmt">>)
        /\ Continue(b) /\ Reduce(4, Stmt("cntrl", F \cup E, r))
    BY DEF IfThen
  <1>2. stack \in Seq(Entry) /\ Len(stack) \in Nat /\ Sound(emit, R0)
    BY <1>1, Start
  <1>3. /\ 4 <= Len(stack) /\ Val(4).sym = "IF" /\ Val(3).sym = "bexp"
        /\ Val(2).sym = "m1.then" /\ Val(1).sym = "stmt"
    BY <1>1, <1>2 DEF OnTop, Val
  <1>4. R0 = R1 \cup (N \cup r) /\ R1 \cap (N \cup r) = {} /\ N \cap r = {} /\ r \in SUBSET Nat
    BY <1>1, <1>2, <1>3, AtStmt
  <1>5. R1 = R2 /\ l \in Defined(emit)
    BY <1>1, <1>2, <1>3, AtMarker DEF LabelSymbols
  <1>6. /\ R2 = R3 \cup (T \cup F) /\ R3 \cap (T \cup F) = {} /\ T \cap F = {} /\ T # {}
        /\ F \in SUBSET Nat
    BY <1>1, <1>2, <1>3, AtBool
  <1>7. R3 = R4
    BY <1>1, <1>2, <1>3, AtToken
  <1>8. 4 \in 1 .. Len(stack)
    BY <1>2, <1>3
  <1> HIDE DEF T, F, l, N, r, R0, R1, R2, R3, R4
  <1> DEFINE rest == R4 \cup (F \cup r)
  <1>9. R0 = (rest \cup N) \cup T /\ T \cap (rest \cup N) = {} /\ N \cap rest = {}
    BY <1>4, <1>5, <1>6, <1>7
  <1>10. R4 \cap (F \cup r) = {} /\ F \cap r = {}
    BY <1>4, <1>5, <1>6, <1>7
  <1> HIDE DEF rest
  <1>11. Sound(patched, rest \cup N) /\ After(emit, patched)
    BY <1>2, <1>5, <1>6, <1>9, BackpatchSound
  <1> HIDE DEF patched
  <1>12. Sound(b, rest \cup E) /\ After(patched, b) /\ E \cap rest = {} /\ E \in SUBSET Nat
    BY <1>9, <1>11, EnforcedSound
  <1> HIDE DEF b, E
  <1>13. After(emit, b)
    BY <1>11, <1>12, AfterTransitive
  <1> DEFINE n == F \cup E
  <1>14. /\ n \in SUBSET Nat /\ n \cap r = {} /\ R4 \cap (n \cup r) = {}
         /\ R4 \cup (n \cup r) = rest \cup E
    BY <1>6, <1>10, <1>12 DEF rest
  <1>15. Reduce(4, Stmt("cntrl", n, r))
    BY <1>1
  <1> HIDE DEF n
  <1>16. Sound(b, R4 \cup (n \cup r))
    BY <1>12, <1>14
  <1> QED BY <1>1, <1>4, <1>8, <1>13, <1>14, <1>15, <1>16, Controlled DEF R4

\* WHILE: the body jumps back to the condition.
LEMMA KeptWhile ==
  ASSUME TypeInv, BackpatchInv, While
  PROVE  Kept
  <1> DEFINE T == Val(3).truelist
             F == Val(3).falselist
             l == Val(2).label
             loop == Val(4).label
             N == Val(1).nextlist
             r == Val(1).retlist
             entered == Backpatch(emit, T, l)
             two == Enforced(entered, N)
             E == EnforcedList(entered, N)
             b == Backpatch(two, E, loop)
             R0 == OpenLabels(Rest(0))
             R1 == OpenLabels(Rest(1))
             R2 == OpenLabels(Rest(2))
             R3 == OpenLabels(Rest(3))
             R4 == OpenLabels(Rest(4))
             R5 == OpenLabels(Rest(5))
  <1>1. /\ Parsing /\ OnTop(<<"WHILE", "m1.loop", "bexp", "m1.do", "stmt">>)
        /\ Continue(b) /\ Reduce(5, Stmt("cntrl", F, r))
    BY DEF While
  <1>2. stack \in Seq(Entry) /\ Len(stack) \in Nat /\ Sound(emit, R0)
    BY <1>1, Start
  <1>3. /\ 5 <= Len(stack) /\ Val(5).sym = "WHILE" /\ Val(4).sym = "m1.loop"
        /\ Val(3).sym = "bexp" /\ Val(2).sym = "m1.do" /\ Val(1).sym = "stmt"
    BY <1>1, <1>2 DEF OnTop, Val
  <1>4. R0 = R1 \cup (N \cup r) /\ R1 \cap (N \cup r) = {} /\ N \cap r = {} /\ r \in SUBSET Nat
    BY <1>1, <1>2, <1>3, AtStmt
  <1>5. R1 = R2 /\ l \in Defined(emit)
    BY <1>1, <1>2, <1>3, AtMarker DEF LabelSymbols
  <1>6. /\ R2 = R3 \cup (T \cup F) /\ R3 \cap (T \cup F) = {} /\ T \cap F = {} /\ T # {}
        /\ F \in SUBSET Nat
    BY <1>1, <1>2, <1>3, AtBool
  <1>7. R3 = R4 /\ loop \in Defined(emit)
    BY <1>1, <1>2, <1>3, AtMarker DEF LabelSymbols
  <1>7a. R4 = R5
    BY <1>1, <1>2, <1>3, AtToken
  <1>8. 5 \in 1 .. Len(stack)
    BY <1>2, <1>3
  <1> HIDE DEF T, F, l, loop, N, r, R0, R1, R2, R3, R4, R5
  <1> DEFINE rest == R5 \cup (F \cup r)
  <1>9. R0 = (rest \cup N) \cup T /\ T \cap (rest \cup N) = {} /\ N \cap rest = {}
    BY <1>4, <1>5, <1>6, <1>7, <1>7a
  <1>10. R5 \cap (F \cup r) = {} /\ F \cap r = {}
    BY <1>4, <1>5, <1>6, <1>7, <1>7a
  <1>r. rest = R5 \cup (F \cup r)
    OBVIOUS
  <1> HIDE DEF rest
  <1>11. Sound(entered, rest \cup N) /\ After(emit, entered)
    BY <1>2, <1>5, <1>6, <1>9, BackpatchSound
  <1> HIDE DEF entered
  <1>12. Sound(two, rest \cup E) /\ After(entered, two) /\ E \cap rest = {} /\ E # {}
    BY <1>9, <1>11, EnforcedSound
  <1>13. loop \in Defined(two)
    BY <1>7, <1>11, <1>12 DEF After
  <1> HIDE DEF two, E
  <1>14. Sound(b, rest) /\ After(two, b)
    BY <1>12, <1>13, BackpatchSound
  <1> HIDE DEF b
  <1>15. After(emit, b)
    BY <1>11, <1>12, <1>14, AfterTransitive
  <1>16. Sound(b, R5 \cup (F \cup r))
    BY <1>14, <1>r
  <1> QED BY <1>1, <1>4, <1>6, <1>8, <1>10, <1>15, <1>16, Controlled DEF R5

\* IF with ELSE: m5 jumps over the second branch.
LEMMA KeptIfElse ==
  ASSUME TypeInv, BackpatchInv, IfElse
  PROVE  Kept
  <1> DEFINE T == Val(6).truelist
             F == Val(6).falselist
             l1 == Val(5).label
             l2 == Val(2).label
             N4 == Val(4).nextlist
             r4 == Val(4).retlist
             d == Val(3).dest
             N == Val(1).nextlist
             r == Val(1).retlist
             one == Backpatch(emit, T, l1)
             patched == Backpatch(one, F, l2)
             b == Enforced(patched, N)
             E == EnforcedList(patched, N)
             R0 == OpenLabels(Rest(0))
             R1 == OpenLabels(Rest(1))
             R2 == OpenLabels(Rest(2))
             R3 == OpenLabels(Rest(3))
             R4 == OpenLabels(Rest(4))
             R5 == OpenLabels(Rest(5))
             R6 == OpenLabels(Rest(6))
             R7 == OpenLabels(Rest(7))
  <1>1. /\ Parsing
        /\ OnTop(<<"IF", "bexp", "m1.then", "stmt", "m5.else", "m1.else", "stmt">>)
        /\ Continue(b) /\ Reduce(7, Stmt("cntrl", d \cup N4 \cup E, r4 \cup r))
    BY DEF IfElse
  <1>2. stack \in Seq(Entry) /\ Len(stack) \in Nat /\ Sound(emit, R0)
    BY <1>1, Start
  <1>3. /\ 7 <= Len(stack) /\ Val(7).sym = "IF" /\ Val(6).sym = "bexp"
        /\ Val(5).sym = "m1.then" /\ Val(4).sym = "stmt" /\ Val(3).sym = "m5.else"
        /\ Val(2).sym = "m1.else" /\ Val(1).sym = "stmt"
    BY <1>1, <1>2, SMTT(40) DEF OnTop, Val
  <1>4. R0 = R1 \cup (N \cup r) /\ R1 \cap (N \cup r) = {} /\ N \cap r = {} /\ r \in SUBSET Nat
    BY <1>1, <1>2, <1>3, AtStmt
  <1>5. R1 = R2 /\ l2 \in Defined(emit)
    BY <1>1, <1>2, <1>3, AtMarker DEF LabelSymbols
  <1>6. R2 = R3 \cup d /\ R3 \cap d = {} /\ d \in SUBSET Nat
    <2>1. Val(3).sym \in DestSymbols /\ 3 \in 1 .. Len(stack)
      BY <1>2, <1>3 DEF DestSymbols
    <2>2. R2 = R3 \cup d /\ R3 \cap d = {} /\ \E l \in Nat : d = {l}
      BY <1>1, <2>1, AtDest
    <2> QED BY <2>2
  <1>7. /\ R3 = R4 \cup (N4 \cup r4) /\ R4 \cap (N4 \cup r4) = {} /\ N4 \cap r4 = {}
        /\ N4 \in SUBSET Nat /\ r4 \in SUBSET Nat
    BY <1>1, <1>2, <1>3, AtStmt
  <1>8. R4 = R5 /\ l1 \in Defined(emit)
    BY <1>1, <1>2, <1>3, AtMarker DEF LabelSymbols
  <1>9. /\ R5 = R6 \cup (T \cup F) /\ R6 \cap (T \cup F) = {} /\ T \cap F = {}
        /\ T # {} /\ F # {}
    BY <1>1, <1>2, <1>3, AtBool
  <1>10. R6 = R7
    BY <1>1, <1>2, <1>3, AtToken
  <1>11. 7 \in 1 .. Len(stack)
    BY <1>2, <1>3
  <1> HIDE DEF T, F, l1, l2, N4, r4, d, N, r, R0, R1, R2, R3, R4, R5, R6, R7
  <1> DEFINE rest == R7 \cup (d \cup N4 \cup (r4 \cup r))
  <1>12. /\ R0 = ((rest \cup N) \cup F) \cup T /\ T \cap ((rest \cup N) \cup F) = {}
         /\ F \cap (rest \cup N) = {} /\ N \cap rest = {}
    BY <1>4, <1>5, <1>6, <1>7, <1>8, <1>9, <1>10
  <1>13. R7 \cap (d \cup N4 \cup (r4 \cup r)) = {} /\ (d \cup N4) \cap (r4 \cup r) = {}
    BY <1>4, <1>5, <1>6, <1>7, <1>8, <1>9, <1>10
  <1>r. rest = R7 \cup (d \cup N4 \cup (r4 \cup r))
    OBVIOUS
  <1> HIDE DEF rest
  <1>14. Sound(one, (rest \cup N) \cup F) /\ After(emit, one)
    BY <1>2, <1>8, <1>9, <1>12, BackpatchSound
  <1>15. l2 \in Defined(one)
    BY <1>5, <1>14 DEF After
  <1> HIDE DEF one
  <1>16. Sound(patched, rest \cup N) /\ After(one, patched)
    BY <1>9, <1>12, <1>14, <1>15, BackpatchSound
  <1> HIDE DEF patched
  <1>17. Sound(b, rest \cup E) /\ After(patched, b) /\ E \cap rest = {} /\ E \in SUBSET Nat
    BY <1>12, <1>16, EnforcedSound
  <1> HIDE DEF b, E
  <1>18. After(emit, b)
    BY <1>14, <1>16, <1>17, AfterTransitive
  <1> DEFINE n == d \cup N4 \cup E
             rr == r4 \cup r
  <1>19. n \in SUBSET Nat /\ rr \in SUBSET Nat
    BY <1>4, <1>6, <1>7, <1>17
  <1>20. /\ n \cap rr = {} /\ R7 \cap (n \cup rr) = {}
         /\ R7 \cup (n \cup rr) = rest \cup E
    BY <1>13, <1>17, <1>r
  <1>21. Reduce(7, Stmt("cntrl", n, rr))
    BY <1>1
  <1> HIDE DEF n, rr
  <1>22. Sound(b, R7 \cup (n \cup rr))
    BY <1>17, <1>20
  <1> QED BY <1>1, <1>11, <1>18, <1>19, <1>20, <1>21, <1>22, Controlled DEF R7

\* FOR: the body jumps to the update, the update to the condition.
LEMMA KeptFor ==
  ASSUME TypeInv, BackpatchInv, For
  PROVE  Kept
  <1> DEFINE N8 == Val(8).nextlist
             r8 == Val(8).retlist
             cond == Val(7).label
             T == Val(6).truelist
             F == Val(6).falselist
             l5 == Val(5).label
             N4 == Val(4).nextlist
             r4 == Val(4).retlist
             d == Val(3).dest
             l2 == Val(2).label
             N == Val(1).nextlist
             r == Val(1).retlist
             one == BackpatchIfAny(emit, N8, cond)
             entered == Backpatch(one, T, l2)
             two == Enforced(entered, N)
             E == EnforcedList(entered, N)
             looped == Backpatch(two, E, l5)
             b == Backpatch(looped, d \cup N4, cond)
             R0 == OpenLabels(Rest(0))
             R1 == OpenLabels(Rest(1))
             R2 == OpenLabels(Rest(2))
             R3 == OpenLabels(Rest(3))
             R4 == OpenLabels(Rest(4))
             R5 == OpenLabels(Rest(5))
             R6 == OpenLabels(Rest(6))
             R7 == OpenLabels(Rest(7))
             R8 == OpenLabels(Rest(8))
             R9 == OpenLabels(Rest(9))
  <1>1. /\ Parsing
        /\ OnTop(<<"FOR", "stmt", "m1.cond", "bexp", "m1.update", "stmt", "m5.for", "m1.body", "stmt">>)
        /\ Continue(b) /\ Reduce(9, Stmt("cntrl", F, r8 \cup r4 \cup r))
    BY DEF For
  <1>2. stack \in Seq(Entry) /\ Len(stack) \in Nat /\ Sound(emit, R0)
    BY <1>1, Start
  <1>3. /\ 9 <= Len(stack) /\ Val(9).sym = "FOR" /\ Val(8).sym = "stmt"
        /\ Val(7).sym = "m1.cond" /\ Val(6).sym = "bexp" /\ Val(5).sym = "m1.update"
        /\ Val(4).sym = "stmt" /\ Val(3).sym = "m5.for" /\ Val(2).sym = "m1.body"
        /\ Val(1).sym = "stmt"
    <2> DEFINE rhs == <<"FOR", "stmt", "m1.cond", "bexp", "m1.update", "stmt", "m5.for",
                        "m1.body", "stmt">>
    <2>1. rhs \in Seq(Symbols) /\ Len(rhs) = 9
      BY DEF Symbols
    <2>2. /\ rhs[1] = "FOR" /\ rhs[2] = "stmt" /\ rhs[3] = "m1.cond" /\ rhs[4] = "bexp"
          /\ rhs[5] = "m1.update" /\ rhs[6] = "stmt" /\ rhs[7] = "m5.for"
          /\ rhs[8] = "m1.body" /\ rhs[9] = "stmt"
      OBVIOUS
    <2>3. OnTop(rhs)
      BY <1>1
    <2> HIDE DEF rhs
    <2>4. 9 <= Len(stack) /\ \A k \in 1 .. 9 : Val(k).sym = rhs[9 - k + 1]
      BY <1>2, <2>1, <2>3, OnTopLen
    <2>5. \A k \in 1 .. 9 : Val(k).sym = rhs[10 - k]
      BY <2>4
    <2> QED BY <2>2, <2>4, <2>5
  <1>4. R0 = R1 \cup (N \cup r) /\ R1 \cap (N \cup r) = {} /\ N \cap r = {} /\ r \in SUBSET Nat
    BY <1>1, <1>2, <1>3, AtStmt
  <1>5. R1 = R2 /\ l2 \in Defined(emit)
    BY <1>1, <1>2, <1>3, AtMarker DEF LabelSymbols
  <1>6. R2 = R3 \cup d /\ R3 \cap d = {} /\ d # {}
    <2>1. Val(3).sym \in DestSymbols /\ 3 \in 1 .. Len(stack)
      BY <1>2, <1>3 DEF DestSymbols
    <2>2. R2 = R3 \cup d /\ R3 \cap d = {} /\ \E l \in Nat : d = {l}
      BY <1>1, <2>1, AtDest
    <2> QED BY <2>2
  <1>7. /\ R3 = R4 \cup (N4 \cup r4) /\ R4 \cap (N4 \cup r4) = {} /\ N4 \cap r4 = {}
        /\ r4 \in SUBSET Nat
    BY <1>1, <1>2, <1>3, AtStmt
  <1>8. R4 = R5 /\ l5 \in Defined(emit)
    BY <1>1, <1>2, <1>3, AtMarker DEF LabelSymbols
  <1>9. /\ R5 = R6 \cup (T \cup F) /\ R6 \cap (T \cup F) = {} /\ T \cap F = {}
        /\ T # {} /\ F \in SUBSET Nat
    BY <1>1, <1>2, <1>3, AtBool
  <1>10. R6 = R7 /\ cond \in Defined(emit)
    BY <1>1, <1>2, <1>3, AtMarker DEF LabelSymbols
  <1>11. /\ R7 = R8 \cup (N8 \cup r8) /\ R8 \cap (N8 \cup r8) = {} /\ N8 \cap r8 = {}
         /\ r8 \in SUBSET Nat
    BY <1>1, <1>2, <1>3, AtStmt
  <1>12. R8 = R9
    BY <1>1, <1>2, <1>3, AtToken
  <1>13. 9 \in 1 .. Len(stack)
    BY <1>2, <1>3
  <1> HIDE DEF N8, r8, cond, T, F, l5, N4, r4, d, l2, N, r,
               R0, R1, R2, R3, R4, R5, R6, R7, R8, R9
  <1> DEFINE rr == r8 \cup r4 \cup r
             rest == R9 \cup (F \cup rr)
             L == d \cup N4
  <1>14. R9 \cap (F \cup rr) = {} /\ F \cap rr = {} /\ rr \in SUBSET Nat
    BY <1>4, <1>5, <1>6, <1>7, <1>8, <1>9, <1>10, <1>11, <1>12
  <1>15. R0 = (((rest \cup L) \cup N) \cup T) \cup N8
    BY <1>4, <1>5, <1>6, <1>7, <1>8, <1>9, <1>10, <1>11, <1>12
  <1>16. L \cap rest = {} /\ L # {}
    BY <1>4, <1>5, <1>6, <1>7, <1>8, <1>9, <1>10, <1>11, <1>12
  <1>17. N \cap (rest \cup L) = {}
    BY <1>4, <1>5, <1>6, <1>7, <1>8, <1>9, <1>10, <1>11, <1>12
  <1>18. T \cap ((rest \cup L) \cup N) = {}
    BY <1>4, <1>5, <1>6, <1>7, <1>8, <1>9, <1>10, <1>11, <1>12
  <1>19. N8 \cap (((rest \cup L) \cup N) \cup T) = {}
    BY <1>4, <1>5, <1>6, <1>7, <1>8, <1>9, <1>10, <1>11, <1>12
  <1>r. rest = R9 \cup (F \cup rr) /\ b = Backpatch(looped, L, cond)
        /\ Reduce(9, Stmt("cntrl", F, rr))
    BY <1>1
  <1> HIDE DEF rest, L, rr
  <1>20. Sound(one, ((rest \cup L) \cup N) \cup T) /\ After(emit, one)
    BY <1>2, <1>10, <1>15, <1>19, BackpatchIfAnySound
  <1>21. l2 \in Defined(one) /\ l5 \in Defined(one) /\ cond \in Defined(one)
    BY <1>5, <1>8, <1>10, <1>20 DEF After
  <1> HIDE DEF one
  <1>22. Sound(entered, (rest \cup L) \cup N) /\ After(one, entered)
    BY <1>9, <1>18, <1>20, <1>21, BackpatchSound
  <1> HIDE DEF entered
  <1>23. /\ Sound(two, (rest \cup L) \cup E) /\ After(entered, two)
         /\ E \cap (rest \cup L) = {} /\ E # {}
    BY <1>17, <1>22, EnforcedSound
  <1>24. l5 \in Defined(two) /\ cond \in Defined(two)
    BY <1>21, <1>22, <1>23 DEF After
  <1> HIDE DEF two, E
  <1>25. Sound(looped, rest \cup L) /\ After(two, looped)
    BY <1>23, <1>24, BackpatchSound
  <1>26. cond \in Defined(looped)
    BY <1>24, <1>25 DEF After
  <1> HIDE DEF looped
  <1>27. Sound(b, rest) /\ After(looped, b)
    BY <1>16, <1>25, <1>26, <1>r, BackpatchSound
  <1> HIDE DEF b
  <1>28. After(emit, b)
    BY <1>20, <1>22, <1>23, <1>25, <1>27, AfterTransitive
  <1>29. Sound(b, R9 \cup (F \cup rr))
    BY <1>27, <1>r
  <1> QED BY <1>1, <1>9, <1>13, <1>14, <1>28, <1>29, <1>r, Controlled DEF R9

\* ---- the ends of the function and of the program -------------------------------------

\* An instruction that is neither a jump nor a label; a list of one of them.
LEMMA LinkSound ==
  ASSUME NEW b, NEW open, Sound(b, open), NEW op \in {"SAVE", "RESTORE", "RETRN", "HALT"},
         NEW id \in Nat
  PROVE  /\ Inst(op, 0, id) \in Instruction
         /\ Inst(op, 0, id).op \notin JumpOps \cup {"LABEL"}
         /\ Sound(Emit(b, Inst(op, 0, id)), open) /\ After(b, Emit(b, Inst(op, 0, id)))
  <1>1. Inst(op, 0, id) \in Instruction /\ Inst(op, 0, id).op = op
    BY DEF Inst, Instruction, DataOps, LinkOps
  <1>2. op \notin JumpOps \cup {"LABEL"}
    BY DEF JumpOps
  <1> QED BY <1>1, <1>2, EmitPlainSound

\* Nothing waits on an empty stack.
LEMMA NothingWaits == OpenLabels(<<>>) = {}
  BY DEF OpenLabels

\* The whole stack is popped.
LEMMA RestAll ==
  ASSUME stack \in Seq(Entry), 3 = Len(stack)
  PROVE  OpenLabels(Rest(3)) = {}
  <1>1. Len(stack) - 3 = 0
    OBVIOUS
  <1>2. Rest(3) = <<>>
    <2>1. SubSeq(stack, 1, 0) = <<>>
      BY SubSeqEmpty
    <2> QED BY <1>1, <2>1 DEF Rest
  <1> QED BY <1>2, NothingWaits

\* The prologue is spliced in, the returns and the skip label are resolved.
LEMMA KeptFunction ==
  ASSUME TypeInv, BackpatchInv, Function
  PROVE  Kept
  <1> DEFINE N == Val(1).nextlist
             r == Val(1).retlist
             marker == Val(3).label
             d == Val(3).dest
             lr == IF lrTouched THEN 1 ELSE 0
             leave == FreshLabel(emit)
             spliced == Splice(emit, marker, <<Inst("SAVE", 0, lr)>>)
             marked == Mark(spliced)
             half == BackpatchIfAny(marked, N, leave)
             whole == BackpatchIfAny(half, r, leave)
             left == IF N \cup r = {} THEN spliced ELSE whole
             restored == Emit(left, Inst("RESTORE", 0, lr))
             returned == Emit(restored, Inst("RETRN", 0, 0))
             skip == CHOOSE l \in d : TRUE
             b == Label(returned, skip)
             e == Plain("function")
             R0 == OpenLabels(Rest(0))
             R1 == OpenLabels(Rest(1))
             R2 == OpenLabels(Rest(2))
             R3 == OpenLabels(Rest(3))
  <1>1. Parsing /\ OnTop(<<"m2", "func_arg", "blk">>) /\ Continue(b) /\ Reduce(3, e)
    BY DEF Function
  <1>2. /\ stack \in Seq(Entry) /\ Len(stack) \in Nat /\ Sound(emit, R0)
        /\ StackInv(stack, Defined(emit))
    BY <1>1, Start
  <1>3. 3 <= Len(stack) /\ Val(3).sym = "m2" /\ Val(2).sym = "func_arg" /\ Val(1).sym = "blk"
    BY <1>1, <1>2, SMTT(40) DEF OnTop, Val
  <1>4. R0 = R1 \cup (N \cup r) /\ R1 \cap (N \cup r) = {} /\ N \cap r = {}
    BY <1>1, <1>2, <1>3, AtStmt
  <1>5. R1 = R2
    BY <1>1, <1>2, <1>3, AtToken
  <1>6. R2 = R3 \cup d /\ R3 \cap d = {} /\ d = {skip} /\ marker \in Defined(emit)
    <2>1. Val(3).sym \in DestSymbols /\ 3 \in 1 .. Len(stack)
      BY <1>2, <1>3 DEF DestSymbols
    <2>2. /\ R2 = R3 \cup d /\ R3 \cap d = {} /\ \E l \in Nat : d = {l}
          /\ marker \in Defined(emit)
      BY <1>1, <1>3, <2>1, AtDest
    <2> QED BY <2>2
  <1>7. Len(stack) = 3
    <2>1. Len(stack) - 2 \in DOMAIN stack /\ stack[Len(stack) - 2].sym = "m2"
      BY <1>2, <1>3 DEF Val
    <2>2. Len(stack) - 2 = 1
      BY <1>2, <2>1 DEF StackInv
    <2> QED BY <1>2, <2>2
  <1>8. R3 = {}
    BY <1>2, <1>7, RestAll
  <1>9. lr \in Nat
    OBVIOUS
  <1> HIDE DEF N, r, marker, d, lr, skip, R0, R1, R2, R3
  <1>10. R0 = ({skip} \cup r) \cup N /\ N \cap ({skip} \cup r) = {} /\ r \cap {skip} = {}
    BY <1>4, <1>5, <1>6, <1>8
  <1>11. Sound(spliced, ({skip} \cup r) \cup N) /\ After(emit, spliced) /\ FreshLabel(spliced) = leave
    BY <1>2, <1>6, <1>9, <1>10, LinkSound, SpliceSound, ZenonT(60)
  <1> HIDE DEF spliced, leave
  <1>12. Sound(left, {skip}) /\ After(spliced, left)
    <2>1. CASE N \cup r = {}
      <3>1. left = spliced /\ ({skip} \cup r) \cup N = {skip}
        BY <2>1
      <3> QED BY <3>1, <1>11, AfterSelf
    <2>2. CASE N \cup r # {}
      <3>1. Sound(marked, ({skip} \cup r) \cup N) /\ After(spliced, marked) /\ leave \in Defined(marked)
        BY <1>11, MarkSound
      <3> HIDE DEF marked
      <3>2. Sound(half, {skip} \cup r) /\ After(marked, half)
        BY <1>10, <3>1, BackpatchIfAnySound
      <3>3. leave \in Defined(half)
        BY <3>1, <3>2 DEF After
      <3> HIDE DEF half
      <3>4. Sound(whole, {skip}) /\ After(half, whole)
        BY <1>10, <3>2, <3>3, BackpatchIfAnySound
      <3> HIDE DEF whole
      <3>5. left = whole
        BY <2>2
      <3> QED BY <3>1, <3>2, <3>4, <3>5, AfterTransitive
    <2> QED BY <2>1, <2>2
  <1> HIDE DEF left
  <1>13. Sound(restored, {skip}) /\ After(left, restored)
    BY <1>9, <1>12, LinkSound
  <1> HIDE DEF restored
  <1>14. Sound(returned, {skip}) /\ After(restored, returned)
    BY <1>13, LinkSound
  <1> HIDE DEF returned
  <1>15. Sound(b, {}) /\ After(returned, b)
    <2>1. Sound(returned, {} \cup {skip}) /\ skip \notin {}
      BY <1>14
    <2> QED BY <2>1, LabelSound
  <1> HIDE DEF b
  <1>16. After(emit, b)
    BY <1>11, <1>12, <1>13, <1>14, <1>15, AfterTransitive
  <1>17. e \in Entry /\ e.sym = "function" /\ WellFormed(e, Defined(b)) /\ Open(e) = {}
    BY PlainFormed, Classes
  <1> HIDE DEF e
  <1>18. R3 \cup Open(e) = {} /\ R3 \cap Open(e) = {} /\ 3 \in 0 .. Len(stack)
    BY <1>7, <1>8, <1>17
  <1>19. Sound(b, OpenLabels(Rest(3)) \cup Open(e)) /\ OpenLabels(Rest(3)) \cap Open(e) = {}
    BY <1>15, <1>18 DEF R3
  <1> QED BY <1>1, <1>2, <1>7, <1>16, <1>17, <1>18, <1>19, Advance DEF Kept

\* Nothing waits any more when only a plain symbol is left.
LEMMA KeptProgram ==
  ASSUME stack' = <<Plain("program")>>, status' \in {"done", "error"},
         status' = "done" => Sound(emit', {})
  PROVE  BackpatchInv'
  <1> DEFINE e == Plain("program")
             D == Defined(emit')
  <1>1. e.sym = "program" /\ WellFormed(e, D) /\ Open(e) = {} /\ e.nextlist = {}
    BY PlainFormed, Classes
  <1> HIDE DEF e, D
  <1>2. Len(<<e>>) = 1 /\ DOMAIN <<e>> = {1} /\ <<e>>[1] = e
    OBVIOUS
  <1>3. StackInv(<<e>>, D)
    BY <1>1, <1>2 DEF StackInv
  <1>4. OpenLabels(<<e>>) = {}
    BY <1>1, <1>2 DEF OpenLabels
  <1>5. FlagInv(<<e>>, stmt_has_nextlist')
    BY <1>1, <1>2 DEF FlagInv
  <1>6. stack' = <<e>>
    BY DEF e
  <1> QED BY <1>3, <1>4, <1>5, <1>6 DEF BackpatchInv, Parsing, D

\* The jumps to the end of the program are patched in front of HALT; nothing
\* waits below the body of the program.
LEMMA KeptMain ==
  ASSUME TypeInv, BackpatchInv, MainFunction
  PROVE  BackpatchInv' /\ (status' # "error" => After(emit, emit'))
  <1> DEFINE N == Val(1).nextlist
             r == Val(1).retlist
             leave == FreshLabel(emit)
             patched == Backpatch(Mark(emit), N, leave)
             ended == IF N = {} THEN emit ELSE patched
             b == Emit(ended, Inst("HALT", 0, 0))
             R0 == OpenLabels(Rest(0))
             R1 == OpenLabels(Rest(1))
             R2 == OpenLabels(Rest(2))
             R3 == OpenLabels(Rest(3))
  <1>1. Parsing /\ OnTop(<<"function", "m4", "blk">>) /\ Reduce(3, Plain("program"))
    BY DEF MainFunction
  <1>m. IF r # {} THEN status' = "error"
        ELSE emit' = b /\ status' = IF ended.ok THEN "done" ELSE "bug"
    BY DEF MainFunction
  <1>2. /\ stack \in Seq(Entry) /\ Len(stack) \in Nat /\ Sound(emit, R0)
        /\ StackInv(stack, Defined(emit))
    BY <1>1, Start
  <1>3. 3 <= Len(stack) /\ Val(3).sym = "function" /\ Val(2).sym = "m4" /\ Val(1).sym = "blk"
    BY <1>1, <1>2 DEF OnTop, Val
  <1>4. R0 = R1 \cup (N \cup r)
    BY <1>1, <1>2, <1>3, AtStmt
  <1>5. R1 = R2 /\ R2 = R3
    BY <1>1, <1>2, <1>3, AtToken
  <1>6. Len(stack) = 3
    <2>1. Len(stack) - 2 \in DOMAIN stack /\ stack[Len(stack) - 2].sym = "function"
      BY <1>2, <1>3 DEF Val
    <2>2. Len(stack) - 2 = 1
      BY <1>2, <2>1 DEF StackInv
    <2> QED BY <1>2, <2>2
  <1>7. R3 = {}
    BY <1>2, <1>6, RestAll
  <1>8. stack' = <<Plain("program")>>
    <2> DEFINE e == Plain("program")
    <2>1. Len(stack) - 3 = 0
      BY <1>6
    <2>2. SubSeq(stack, 1, Len(stack) - 3) = <<>>
      <3>1. SubSeq(stack, 1, 0) = <<>>
        BY SubSeqEmpty
      <3> QED BY <2>1, <3>1
    <2>3. e \in Entry
      BY PlainType DEF Symbols
    <2>4. Reduce(3, e)
      BY <1>1
    <2> HIDE DEF e
    <2>5. stack' = Append(<<>>, e)
      BY <2>2, <2>4 DEF Reduce
    <2>6. stack' = <<e>>
      BY <2>3, <2>5
    <2> QED BY <2>6 DEF e
  <1> HIDE DEF N, r, R0, R1, R2, R3
  <1>9. CASE r # {}
    <2>1. status' = "error"
      BY <1>9, <1>m
    <2> QED BY <1>8, <2>1, KeptProgram
  <1>10. CASE r = {}
    <2>1. R0 = {} \cup N /\ N \cap {} = {}
      BY <1>4, <1>5, <1>7, <1>10
    <2>2. Sound(ended, {}) /\ After(emit, ended)
      <3>1. CASE N = {}
        <4>1. ended = emit /\ R0 = {}
          BY <2>1, <3>1
        <4> QED BY <1>2, <4>1, AfterSelf
      <3>2. CASE N # {}
        <4>1. Sound(Mark(emit), {} \cup N) /\ After(emit, Mark(emit)) /\ leave \in Defined(Mark(emit))
          BY <1>2, <2>1, MarkSound
        <4>2. Sound(patched, {}) /\ After(Mark(emit), patched)
          BY <2>1, <3>2, <4>1, BackpatchSound
        <4> HIDE DEF patched
        <4>3. ended = patched
          BY <3>2
        <4> QED BY <4>1, <4>2, <4>3, AfterTransitive
      <3> QED BY <3>1, <3>2
    <2> HIDE DEF ended
    <2>3. Sound(b, {}) /\ After(ended, b)
      BY <2>2, LinkSound
    <2>4. emit' = b /\ status' = "done"
      BY <1>m, <1>10, <2>2 DEF Sound
    <2> HIDE DEF b
    <2>5. After(emit, b)
      BY <2>2, <2>3, AfterTransitive
    <2>6. BackpatchInv'
      BY <1>8, <2>3, <2>4, KeptProgram
    <2> QED BY <2>4, <2>5, <2>6
  <1> QED BY <1>9, <1>10

\* ---- the theorems ------------------------------------------------------------------------

\* The block the compiler starts with.
LEMMA EmptySound == Sound(EmptyBlock, {})
  BY DEF EmptyBlock, Block, Sound, Labels, Defined, Targets

\* Nothing is on the stack, nothing waits.
LEMMA EmptyInv ==
  ASSUME NEW D, NEW flag
  PROVE  StackInv(<<>>, D) /\ FlagInv(<<>>, flag) /\ OpenLabels(<<>>) = {}
  BY NothingWaits DEF StackInv, FlagInv

\* The invariant holds when the parser starts.
LEMMA BackpatchInit == Init => BackpatchInv
  BY EmptySound, EmptyInv DEF Init, BackpatchInv, Parsing

\* What every step keeps, and what it does to the emitted code.
LEMMA BackpatchStep ==
  ASSUME TypeInv, BackpatchInv, [Next]_vars
  PROVE  BackpatchInv' /\ (status' # "error" => After(emit, emit'))
  <1>1. CASE UNCHANGED vars
    BY <1>1, AfterSelf DEF vars, BackpatchInv, Parsing
  <1>2. CASE Finished
    <2>1. UNCHANGED vars
      BY <1>2 DEF Finished
    <2> QED BY <1>1, <2>1
  <1>3. CASE \E e \in Exps : Operation(e)
    BY <1>3, KeptAssn, KeptReturn, KeptRelOp DEF Operation, Kept
  <1>4. CASE Rule
    <2>1. CASE MainFunction
      BY <2>1, KeptMain
    <2>2. CASE CompileError
      <3>1. stack' = <<>> /\ status' = "error"
        BY <2>2 DEF CompileError
      <3> QED BY <3>1, EmptyInv DEF BackpatchInv, Parsing
    <2>3. CASE \/ M2 \/ FuncHeader \/ Function \/ NoFunction \/ M4
               \/ OpenBlk \/ M6 \/ ReduceList \/ CloseBlk \/ StmtUnit
      BY <2>3, KeptM2, KeptShifts, KeptFunction, KeptOpenBlk, KeptM6, KeptReduceList,
         KeptUnits DEF Kept
    <2>4. CASE \/ ShiftBool \/ BoolUnit \/ Paren \/ Not \/ And \/ Or
               \/ ShiftCntrl \/ M1 \/ M5
      BY <2>4, KeptShifts, KeptConditions, KeptNot, KeptM1, KeptM5 DEF Kept
    <2>5. CASE IfElse \/ IfThen \/ For \/ While
      BY <2>5, KeptIfElse, KeptIfThen, KeptFor, KeptWhile DEF Kept
    <2> QED BY <1>4, <2>1, <2>2, <2>3, <2>4, <2>5 DEF Rule
  <1> QED BY <1>1, <1>2, <1>3, <1>4 DEF Next

\* The labels that wait are exactly those of the lists on the parser stack,
\* and every other jump resolves: what the semantic actions of
\* input_parser.y maintain between them.
THEOREM Backpatched == Spec => [](TypeInv /\ BackpatchInv)
  <1>1. Init => TypeInv /\ BackpatchInv
    BY TypeInit, BackpatchInit
  <1>2. ASSUME TypeInv, BackpatchInv, [Next]_vars
        PROVE  BackpatchInv'
    BY <1>2, BackpatchStep
  <1>3. Spec => []TypeInv
    BY TypeCorrect, PTL DEF TypeInv
  <1> QED BY <1>1, <1>2, <1>3, PTL DEF Spec

\* No BUG_IF of Patch() and Splice() fires and no NULL list is backpatched,
\* whatever program is compiled.
THEOREM NoInternalBugHolds == Spec => []NoInternalBug
  <1>1. BackpatchInv => NoInternalBug
    BY DEF BackpatchInv, NoInternalBug
  <1> QED BY <1>1, Backpatched, PTL

\* Every jump of a complete program goes to an emitted label.
THEOREM JumpsResolvedHolds == Spec => []JumpsResolved
  <1>1. BackpatchInv => JumpsResolved
    BY SoundResolves DEF BackpatchInv, JumpsResolved
  <1> QED BY <1>1, Backpatched, PTL

\* While parsing, every jump resolves or its label waits in a list of the stack.
THEOREM NoJumpLostHolds == Spec => []NoJumpLost
  <1>1. ASSUME BackpatchInv PROVE NoJumpLost
    <2> SUFFICES ASSUME Parsing, NEW l \in Targets(emit), ~ Resolves(emit, l)
                 PROVE  \E i \in DOMAIN stack, n \in ListNames : l \in stack[i][n]
      BY DEF NoJumpLost
    <2>1. l \in OpenLabels(stack)
      BY <1>1, SoundResolves DEF BackpatchInv
    <2>2. PICK i \in DOMAIN stack : l \in Open(stack[i])
      BY <2>1, OpenAt
    <2>3. \/ l \in stack[i]["nextlist"] \/ l \in stack[i]["retlist"]
          \/ l \in stack[i]["truelist"] \/ l \in stack[i]["falselist"]
          \/ l \in stack[i]["dest"]
      BY <2>2 DEF Open
    <2> QED BY <2>3 DEF ListNames
  <1> QED BY <1>1, Backpatched, PTL

\* A label waits in one list of one value, neither emitted nor patched.
THEOREM OpenListsDisjointHolds == Spec => []OpenListsDisjoint
  <1>1. ASSUME TypeInv, BackpatchInv PROVE OpenListsDisjoint
    <2> SUFFICES ASSUME NEW i \in DOMAIN stack, NEW m \in ListNames, NEW l \in stack[i][m]
                 PROVE  /\ emit.next[l] = 0 /\ l \notin Defined(emit)
                        /\ \A j \in DOMAIN stack, n \in ListNames :
                             l \in stack[j][n] => i = j /\ m = n
      BY DEF OpenListsDisjoint
    <2>1. \A j \in DOMAIN stack, n \in ListNames : l \in stack[j][n] => l \in Open(stack[j])
      BY DEF ListNames, Open
    <2>2. l \in OpenLabels(stack)
      BY <2>1, OpenAt
    <2>3. Parsing /\ emit.next[l] = 0 /\ l \notin Defined(emit)
      BY <1>1, <2>2 DEF BackpatchInv, Sound
    <2>4. \A j \in DOMAIN stack, n \in ListNames : l \in stack[j][n] => i = j
      BY <1>1, <2>1 DEF BackpatchInv, StackInv
    <2>5. \A n \in ListNames : l \in stack[i][n] => m = n
      <3> DEFINE e == stack[i]
      <3>1. WellFormed(e, Defined(emit))
        BY <1>1 DEF BackpatchInv, StackInv
      <3> HIDE DEF e
      <3>2. /\ e.truelist \cap e.falselist = {}
            /\ e.truelist \cup e.falselist # {} => e.sym \in BoolSymbols
        BY <3>1 DEF WellFormed
      <3>3. /\ e.nextlist \cap e.retlist = {}
            /\ e.nextlist \cup e.retlist # {} => e.sym \in StmtSymbols
        BY <3>1 DEF WellFormed
      <3>4. e.dest # {} => e.sym \in DestSymbols
        BY <3>1 DEF WellFormed
      <3>5. /\ BoolSymbols \cap StmtSymbols = {} /\ BoolSymbols \cap DestSymbols = {}
            /\ StmtSymbols \cap DestSymbols = {}
        BY DEF BoolSymbols, StmtSymbols, DestSymbols
      <3>6. \A n \in ListNames : l \in e[n] /\ l \in e[m] => m = n
        BY <3>2, <3>3, <3>4, <3>5 DEF ListNames
      <3> QED BY <3>6 DEF e
    <2> QED BY <2>3, <2>4, <2>5
  <1> QED BY <1>1, Backpatched, PTL

\* A patched label keeps its target for ever: whatever list is backpatched
\* later, its labels and its target are not among the patched ones.
THEOREM PatchIsWriteOnceHolds == Spec => PatchIsWriteOnce
  <1>1. ASSUME TypeInv, BackpatchInv, [Next]_vars
        PROVE  [status' # "error" =>
                  \A l \in DOMAIN emit.next : emit.next[l] # 0 => emit'.next[l] = emit.next[l]]_vars
    <2>1. DOMAIN emit.next = Labels(emit)
      BY <1>1, LabelsType DEF TypeInv, TypeOK
    <2>2. status' # "error" => After(emit, emit')
      BY <1>1, BackpatchStep
    <2> QED BY <2>1, <2>2 DEF After
  <1> QED BY <1>1, Backpatched, PTL DEF Spec, PatchIsWriteOnce

\* ---- every operation of the emitter keeps labels unique -------------------------

\* A label is emitted at most once, and only after it has been created.
Unique(b) ==
  /\ b \in Block
  /\ \A i, j \in DOMAIN b.code :
       b.code[i].op = "LABEL" /\ b.code[j].op = "LABEL" /\ b.code[i].label = b.code[j].label
         => i = j
  /\ Defined(b) \subseteq Labels(b)

\* An instruction that is no label, or is one that has not been emitted yet.
LEMMA EmitUnique ==
  ASSUME NEW b, Unique(b), NEW i \in Instruction,
         i.op = "LABEL" => i.label \in Labels(b) /\ i.label \notin Defined(b)
  PROVE  Unique(Emit(b, i))
  <1> DEFINE c == Emit(b, i)
             n == Len(b.code)
  <1>1. b \in Block /\ b.code \in Seq(Instruction) /\ n \in Nat
    BY DEF Unique, Block
  <1>2. c \in Block /\ c.code = Append(b.code, i)
    BY <1>1, EmitType
  <1>3. /\ DOMAIN c.code = 1 .. n + 1 /\ DOMAIN b.code = 1 .. n
        /\ \A j \in 1 .. n : c.code[j] = b.code[j]
        /\ c.code[n + 1] = i
    BY <1>1, <1>2
  <1>4. /\ Labels(c) = Labels(b)
        /\ Defined(c) = IF i.op = "LABEL" THEN Defined(b) \cup {i.label} ELSE Defined(b)
    BY <1>1, EmitLabels
  <1> HIDE DEF c, n
  <1>5. ASSUME NEW j \in DOMAIN c.code, NEW k \in DOMAIN c.code, c.code[j].op = "LABEL",
               c.code[k].op = "LABEL", c.code[j].label = c.code[k].label
        PROVE  j = k
    <2>1. ASSUME NEW x \in 1 .. n, c.code[x].op = "LABEL", i.op = "LABEL"
          PROVE  c.code[x].label # i.label
      BY <1>3, <2>1, DefinedAt
    <2>2. CASE j \in 1 .. n /\ k \in 1 .. n
      BY <1>3, <1>5, <2>2 DEF Unique
    <2>3. CASE j \notin 1 .. n \/ k \notin 1 .. n
      <3>1. \A x \in DOMAIN c.code : x \in 1 .. n \/ x = n + 1
        BY <1>1, <1>3
      <3> QED BY <1>3, <1>5, <2>1, <2>3, <3>1
    <2> QED BY <2>2, <2>3
  <1>6. Defined(c) \subseteq Labels(c)
    BY <1>4 DEF Unique
  <1> QED BY <1>2, <1>5, <1>6 DEF Unique, c

\* A block with the same code and as many labels.
LEMMA SameCodeUnique ==
  ASSUME NEW b, Unique(b), NEW c \in Block, c.code = b.code, Labels(b) \subseteq Labels(c)
  PROVE  Unique(c) /\ Defined(c) = Defined(b)
  <1>1. Defined(c) = Defined(b)
    BY DEF Defined
  <1> QED BY <1>1 DEF Unique

\* A new label has not been emitted.
LEMMA NewLabelUnique ==
  ASSUME NEW b, Unique(b)
  PROVE  /\ Unique(NewLabel(b)) /\ Defined(NewLabel(b)) = Defined(b)
         /\ FreshLabel(b) \in Labels(NewLabel(b)) /\ FreshLabel(b) \notin Labels(b)
         /\ FreshLabel(b) \notin Defined(b) /\ FreshLabel(b) \in Nat
         /\ Labels(NewLabel(b)) = Labels(b) \cup {FreshLabel(b)}
  <1>1. b \in Block /\ Defined(b) \subseteq Labels(b)
    BY DEF Unique
  <1>2. /\ NewLabel(b) \in Block /\ NewLabel(b).code = b.code
        /\ NewLabel(b).next = Append(b.next, 0) /\ FreshLabel(b) \in Nat
    BY <1>1, NewLabelType
  <1>3. b.next \in Seq(Nat) /\ Len(b.next) \in Nat
    BY <1>1 DEF Block
  <1>4. Labels(NewLabel(b)) = Labels(b) \cup {FreshLabel(b)} /\ FreshLabel(b) \notin Labels(b)
    <2>1. Len(NewLabel(b).next) = Len(b.next) + 1
      BY <1>2, <1>3
    <2> QED BY <1>3, <2>1 DEF Labels, FreshLabel
  <1>5. Unique(NewLabel(b)) /\ Defined(NewLabel(b)) = Defined(b)
    BY <1>2, <1>4, SameCodeUnique
  <1> QED BY <1>1, <1>2, <1>4, <1>5

\* Instructions that are no labels.
LEMMA PlainUnique ==
  ASSUME NEW b, Unique(b), NEW op \in (JumpOps \cup DataOps \cup LinkOps) \ {"LABEL"},
         NEW l \in Nat, NEW id \in Nat
  PROVE  /\ Unique(Emit(b, Inst(op, l, id))) /\ Defined(Emit(b, Inst(op, l, id))) = Defined(b)
         /\ Labels(Emit(b, Inst(op, l, id))) = Labels(b)
  <1> DEFINE i == Inst(op, l, id)
  <1>1. i \in Instruction /\ i.op # "LABEL" /\ b \in Block
    BY DEF Inst, Instruction, Unique
  <1> HIDE DEF i
  <1>2. Unique(Emit(b, i))
    BY <1>1, EmitUnique
  <1>3. Defined(Emit(b, i)) = Defined(b) /\ Labels(Emit(b, i)) = Labels(b)
    BY <1>1, EmitLabels
  <1> QED BY <1>2, <1>3 DEF i

\* A jump.
LEMMA UjumpUnique ==
  ASSUME NEW b, Unique(b), NEW l \in Nat
  PROVE  Unique(Ujump(b, l)) /\ Defined(Ujump(b, l)) = Defined(b) /\ Labels(Ujump(b, l)) = Labels(b)
  <1>1. "UJUMP" \in (JumpOps \cup DataOps \cup LinkOps) \ {"LABEL"} /\ 0 \in Nat
    BY DEF JumpOps
  <1> QED BY <1>1, PlainUnique DEF Ujump

\* A label that has been created and not been emitted.
LEMMA LabelUnique ==
  ASSUME NEW b, Unique(b), NEW l \in Labels(b), l \notin Defined(b), l \in Nat
  PROVE  /\ Unique(Label(b, l)) /\ Defined(Label(b, l)) = Defined(b) \cup {l}
         /\ Labels(Label(b, l)) = Labels(b)
  <1> DEFINE i == Inst("LABEL", l, 0)
  <1>1. i \in Instruction /\ i.op = "LABEL" /\ i.label = l /\ b \in Block
    BY DEF Inst, Instruction, Unique
  <1> HIDE DEF i
  <1>2. Unique(Emit(b, i)) /\ Defined(Emit(b, i)) = Defined(b) \cup {l} /\ Labels(Emit(b, i)) = Labels(b)
    BY <1>1, EmitUnique, EmitLabels
  <1> QED BY <1>2 DEF Label, i

\* The bodies of markers m1 and m5.
LEMMA MarkUnique ==
  ASSUME NEW b, Unique(b)
  PROVE  /\ Unique(Mark(b)) /\ Defined(Mark(b)) = Defined(b) \cup {FreshLabel(b)}
         /\ Labels(b) \subseteq Labels(Mark(b))
         /\ Unique(JumpFresh(b))
  <1> DEFINE c == NewLabel(b)
             l == FreshLabel(b)
  <1>1. /\ Unique(c) /\ Defined(c) = Defined(b) /\ l \in Labels(c) /\ l \notin Defined(b) /\ l \in Nat
        /\ Labels(b) \subseteq Labels(c)
    BY NewLabelUnique
  <1>2. Mark(b) = Label(c, l) /\ JumpFresh(b) = Ujump(c, l)
    BY DEF Mark, JumpFresh
  <1> HIDE DEF c
  <1>3. Unique(Label(c, l)) /\ Defined(Label(c, l)) = Defined(c) \cup {l} /\ Labels(Label(c, l)) = Labels(c)
    BY <1>1, LabelUnique
  <1>4. Unique(Ujump(c, l))
    BY <1>1, UjumpUnique
  <1> QED BY <1>1, <1>2, <1>3, <1>4

\* Patching emits nothing.
LEMMA BackpatchUnique ==
  ASSUME NEW b, Unique(b), NEW L, NEW t \in Nat
  PROVE  /\ Unique(Backpatch(b, L, t)) /\ Defined(Backpatch(b, L, t)) = Defined(b)
         /\ Unique(BackpatchIfAny(b, L, t)) /\ Defined(BackpatchIfAny(b, L, t)) = Defined(b)
         /\ Labels(BackpatchIfAny(b, L, t)) = Labels(b)
         /\ Backpatch(b, L, t).code = b.code /\ BackpatchIfAny(b, L, t).code = b.code
  <1>1. b \in Block
    BY DEF Unique
  <1>2. Backpatch(b, L, t) \in Block /\ Backpatch(b, L, t).code = b.code
    BY <1>1, BackpatchType
  <1>3. Labels(Backpatch(b, L, t)) = Labels(b)
    BY <1>1, BackpatchNext DEF Labels
  <1>4. Unique(Backpatch(b, L, t)) /\ Defined(Backpatch(b, L, t)) = Defined(b)
    BY <1>2, <1>3, SameCodeUnique
  <1> QED BY <1>2, <1>3, <1>4 DEF BackpatchIfAny

\* enforce_valid_nextlist() emits a jump at most.
LEMMA EnforcedUnique ==
  ASSUME NEW b, Unique(b), NEW L
  PROVE  Unique(Enforced(b, L))
  BY MarkUnique DEF Enforced

\* A call in an expression.
LEMMA EmitExpUnique ==
  ASSUME NEW b, Unique(b), NEW e, size \in Nat
  PROVE  Unique(EmitExp(b, e)) /\ Labels(EmitExp(b, e)) = Labels(b)
  <1>1. "JLINK" \in (JumpOps \cup DataOps \cup LinkOps) \ {"LABEL"} /\ 0 \in Nat
    BY DEF LinkOps
  <1>2. /\ Unique(Emit(b, Inst("JLINK", 0, size)))
        /\ Labels(Emit(b, Inst("JLINK", 0, size))) = Labels(b)
    BY <1>1, PlainUnique
  <1> QED BY <1>2 DEF EmitExp

\* The prologue moves labels and adds none.
LEMMA SpliceUnique ==
  ASSUME NEW b, Unique(b), NEW m \in Nat, m \in Defined(b), NEW i \in Instruction, i.op # "LABEL"
  PROVE  /\ Unique(Splice(b, m, <<i>>)) /\ Defined(Splice(b, m, <<i>>)) \subseteq Defined(b)
         /\ Labels(Splice(b, m, <<i>>)) = Labels(b)
  <1> DEFINE c == Splice(b, m, <<i>>)
             n == Len(b.code)
  <1>1. b \in Block /\ n \in Nat
    BY DEF Unique, Block
  <1>2. c \in Block /\ c.next = b.next /\ \E at : Inserted(b, c, i, at)
    BY <1>1, SplicePlaces
  <1>n. n = Len(b.code)
    OBVIOUS
  <1> HIDE DEF c, n
  <1>3. PICK at : Inserted(b, c, i, at)
    BY <1>2
  <1>4. /\ at \in 1 .. n /\ DOMAIN c.code = 1 .. n + 1 /\ DOMAIN b.code = 1 .. n
        /\ \A j \in 1 .. at - 1 : c.code[j] = b.code[j]
        /\ c.code[at] = i
        /\ \A j \in at + 1 .. n + 1 : c.code[j] = b.code[j - 1]
    BY <1>3, <1>n DEF Inserted
  <1> DEFINE from(j) == IF j < at THEN j ELSE j - 1
  <1>5. \A j \in DOMAIN c.code : c.code[j].op = "LABEL" =>
          j # at /\ from(j) \in DOMAIN b.code /\ c.code[j] = b.code[from(j)]
    <2> SUFFICES ASSUME NEW j \in 1 .. n + 1, c.code[j].op = "LABEL"
                 PROVE  j # at /\ from(j) \in 1 .. n /\ c.code[j] = b.code[from(j)]
      BY <1>4
    <2>1. j # at
      BY <1>4
    <2>2. CASE j < at
      <3>1. j \in 1 .. at - 1 /\ from(j) = j /\ j \in 1 .. n
        BY <1>1, <1>4, <2>2
      <3> QED BY <1>4, <2>1, <3>1
    <2>3. CASE ~ (j < at)
      <3>1. j \in at + 1 .. n + 1 /\ from(j) = j - 1 /\ j - 1 \in 1 .. n
        BY <1>1, <1>4, <2>1, <2>3
      <3> QED BY <1>4, <2>1, <3>1
    <2> QED BY <2>2, <2>3
  <1>6. ASSUME NEW j \in DOMAIN c.code, NEW k \in DOMAIN c.code, c.code[j].op = "LABEL",
               c.code[k].op = "LABEL", c.code[j].label = c.code[k].label
        PROVE  j = k
    <2>1. from(j) = from(k) /\ j # at /\ k # at
      BY <1>5, <1>6 DEF Unique
    <2>2. j \in Nat /\ k \in Nat /\ at \in Nat
      BY <1>1, <1>4
    <2> QED BY <2>1, <2>2
  <1>7. Defined(c) \subseteq Defined(b)
    <2> SUFFICES ASSUME NEW l \in Defined(c) PROVE l \in Defined(b)
      OBVIOUS
    <2>1. PICK j \in DOMAIN c.code : c.code[j].op = "LABEL" /\ c.code[j].label = l
      BY DefinedAt
    <2>2. from(j) \in DOMAIN b.code /\ c.code[j] = b.code[from(j)]
      BY <1>5, <2>1
    <2> QED BY <2>1, <2>2, DefinedAt
  <1>8. Labels(c) = Labels(b)
    BY <1>2 DEF Labels
  <1> QED BY <1>2, <1>6, <1>7, <1>8 DEF Unique, c

\* ---- every step keeps labels unique ---------------------------------------------------

\* The block the compiler starts with, and the one a failed compilation leaves.
LEMMA EmptyUnique == Unique(EmptyBlock)
  BY DEF EmptyBlock, Block, Unique, Labels, Defined

\* Instructions of the rules that are no labels.
LEMMA OpsUnique ==
  ASSUME NEW b, Unique(b), NEW id \in Nat
  PROVE  \A op \in {"OP", "CMP", "CMPN", "COPYI", "LOADI", "RESTORE", "RETRN", "HALT"} :
           /\ Unique(Emit(b, Inst(op, 0, id))) /\ Defined(Emit(b, Inst(op, 0, id))) = Defined(b)
           /\ Labels(Emit(b, Inst(op, 0, id))) = Labels(b)
  <1> SUFFICES ASSUME NEW op \in {"OP", "CMP", "CMPN", "COPYI", "LOADI", "RESTORE", "RETRN", "HALT"}
               PROVE  /\ Unique(Emit(b, Inst(op, 0, id)))
                      /\ Defined(Emit(b, Inst(op, 0, id))) = Defined(b)
                      /\ Labels(Emit(b, Inst(op, 0, id))) = Labels(b)
    OBVIOUS
  <1>1. op \in (JumpOps \cup DataOps \cup LinkOps) \ {"LABEL"} /\ 0 \in Nat
    BY DEF DataOps, LinkOps
  <1> QED BY <1>1, PlainUnique

\* The code of the block the rule started from.
LEMMA Labelled ==
  ASSUME TypeInv
  PROVE  /\ emit \in Block /\ stack \in Seq(Entry) /\ size \in Nat /\ Len(stack) \in Nat
         /\ \A k \in 1 .. Len(stack) : Val(k).label \in Nat
  <1>1. emit \in Block /\ stack \in Seq(Entry) /\ size \in Nat
    BY DEF TypeInv, TypeOK
  <1> QED BY <1>1, ValType, ListType, LenProperties

\* Marker m2 jumps to one new label and emits another.
LEMMA UniqueM2 ==
  ASSUME TypeInv, Unique(emit), M2
  PROVE  Unique(emit')
  <1> DEFINE skip == FreshLabel(emit)
             one == NewLabel(emit)
             two == NewLabel(one)
             three == Ujump(two, skip)
  <1>1. emit' = Label(three, skip + 1) /\ emit \in Block
    BY Labelled DEF M2, Continue
  <1>2. Unique(one) /\ skip \in Nat
    BY NewLabelUnique
  <1>3. FreshLabel(one) = skip + 1
    <2>1. one.next = Append(emit.next, 0) /\ emit.next \in Seq(Nat)
      BY <1>1, NewLabelType DEF Block
    <2>2. Len(one.next) = Len(emit.next) + 1
      BY <2>1
    <2> QED BY <2>2 DEF FreshLabel
  <1> HIDE DEF one, skip
  <1>4. Unique(two) /\ skip + 1 \in Labels(two) /\ skip + 1 \notin Defined(two) /\ skip + 1 \in Nat
    BY <1>2, <1>3, NewLabelUnique
  <1> HIDE DEF two
  <1>5. Unique(three) /\ skip + 1 \in Labels(three) /\ skip + 1 \notin Defined(three)
    BY <1>2, <1>4, UjumpUnique
  <1> HIDE DEF three
  <1> QED BY <1>1, <1>4, <1>5, LabelUnique

\* The rules that may emit a marker's label, and those that only jump.
LEMMA UniqueMarks ==
  ASSUME TypeInv, Unique(emit), M1 \/ M5 \/ M6
  PROVE  Unique(emit')
  <1>1. Unique(Mark(emit)) /\ Unique(JumpFresh(emit))
    BY MarkUnique
  <1>2. emit' \in {emit, Mark(emit), JumpFresh(emit)}
    BY DEF M1, M5, M6, Continue
  <1> QED BY <1>1, <1>2

\* A comparison ends in a jump.
LEMMA TestJumps ==
  ASSUME TypeInv, Unique(emit), NEW e, NEW inverse, RelOp(e, inverse)
  PROVE  \E b, l : Unique(b) /\ l \in Nat /\ emit' = Ujump(b, l)
  <1>1. size \in Nat
    BY Labelled
  <1> DEFINE l == FreshLabel(emit)
             one == NewLabel(emit)
             two == NewLabel(one)
             three == EmitExp(two, e)
             test(cmp, branch, x) ==
               Emit(Emit(three, Inst(cmp, 0, size)), Inst(branch, x, 0))
  <1>2. \/ emit' = Ujump(test("CMP", "BREQZ", l + 1), l)
        \/ emit' = Ujump(test("CMPN", "BNEQZ", l), l + 1)
    BY DEF RelOp, Continue
  <1>3. Unique(one) /\ l \in Nat
    BY NewLabelUnique
  <1> HIDE DEF one, l
  <1>4. Unique(two)
    BY <1>3, NewLabelUnique
  <1> HIDE DEF two
  <1>5. Unique(three)
    BY <1>1, <1>4, EmitExpUnique
  <1> HIDE DEF three
  <1>6. ASSUME NEW cmp \in {"CMP", "CMPN"}, NEW branch \in {"BREQZ", "BNEQZ"}, NEW x \in Nat
        PROVE  Unique(test(cmp, branch, x))
    <2> DEFINE four == Emit(three, Inst(cmp, 0, size))
    <2>1. Unique(four)
      BY <1>1, <1>5, OpsUnique
    <2>2. branch \in (JumpOps \cup DataOps \cup LinkOps) \ {"LABEL"}
      BY DEF JumpOps
    <2> HIDE DEF four
    <2>3. Unique(Emit(four, Inst(branch, x, 0)))
      BY <1>1, <2>1, <2>2, PlainUnique
    <2> QED BY <2>3 DEF four
  <1>7. l + 1 \in Nat
    BY <1>3
  <1> HIDE DEF test
  <1> QED BY <1>2, <1>3, <1>6, <1>7

\* Statements and conditions; the start of a block and of the main program.
LEMMA UniqueTokens ==
  ASSUME TypeInv, Unique(emit), NEW e, NEW inverse,
         Assn(e) \/ Return(e) \/ RelOp(e, inverse) \/ M4 \/ OpenBlk
  PROVE  Unique(emit')
  <1>1. size \in Nat /\ 0 \in Nat
    BY Labelled
  <1>2. Unique(EmitExp(emit, e))
    BY <1>1, EmitExpUnique
  <1>3. CASE Assn(e)
    <2>1. emit' = Emit(EmitExp(emit, e), Inst("OP", 0, size))
      BY <1>3 DEF Assn, Continue
    <2> QED BY <1>1, <1>2, <2>1, OpsUnique
  <1>4. CASE Return(e)
    <2> DEFINE stored == Emit(EmitExp(emit, e), Inst("OP", 0, size))
    <2>1. emit' = JumpFresh(stored)
      BY <1>4 DEF Return, Continue
    <2>2. Unique(stored)
      BY <1>1, <1>2, OpsUnique
    <2> HIDE DEF stored
    <2> QED BY <2>1, <2>2, MarkUnique
  <1>5. CASE RelOp(e, inverse)
    BY <1>5, TestJumps, UjumpUnique
  <1>6. CASE M4 \/ OpenBlk
    <2> DEFINE copied == Emit(emit, Inst("COPYI", 0, 0))
               loaded == Emit(emit, Inst("LOADI", 0, 0))
    <2>1. emit' \in {emit, Emit(copied, Inst("COPYI", 0, 0)), Emit(loaded, Inst("LOADI", 0, 0))}
      BY <1>6 DEF M4, OpenBlk, Continue
    <2>2. Unique(copied) /\ Unique(loaded)
      BY <1>1, OpsUnique
    <2> HIDE DEF copied, loaded
    <2>3. Unique(Emit(copied, Inst("COPYI", 0, 0))) /\ Unique(Emit(loaded, Inst("LOADI", 0, 0)))
      BY <1>1, <2>2, OpsUnique
    <2> QED BY <2>1, <2>3
  <1> QED BY <1>3, <1>4, <1>5, <1>6

\* The rules that patch and emit a jump at most.
LEMMA UniqueControl ==
  ASSUME TypeInv, Unique(emit), ReduceList \/ And \/ Or \/ IfElse \/ IfThen \/ For \/ While
  PROVE  Unique(emit')
  <1>1. Len(stack) \in Nat /\ \A k \in 1 .. Len(stack) : Val(k).label \in Nat
    BY Labelled
  <1>2. CASE ReduceList \/ And \/ Or
    <2>1. 2 \in 1 .. Len(stack)
      BY <1>1, <1>2 DEF ReduceList, And, Or, OnTop
    <2>2. \A L : Unique(Backpatch(emit, L, Val(2).label)) /\ Unique(BackpatchIfAny(emit, L, Val(2).label))
      BY <1>1, <2>1, BackpatchUnique
    <2> QED BY <1>2, <2>2 DEF ReduceList, And, Or, Continue
  <1>3. CASE IfElse
    <2> DEFINE one == Backpatch(emit, Val(6).truelist, Val(5).label)
               two == Backpatch(one, Val(6).falselist, Val(2).label)
    <2>1. emit' = Enforced(two, Val(1).nextlist) /\ 2 \in 1 .. Len(stack) /\ 5 \in 1 .. Len(stack)
      BY <1>1, <1>3 DEF IfElse, OnTop, Continue
    <2>2. Unique(one)
      BY <1>1, <2>1, BackpatchUnique
    <2> HIDE DEF one
    <2>3. Unique(two)
      BY <1>1, <2>1, <2>2, BackpatchUnique
    <2> HIDE DEF two
    <2> QED BY <2>1, <2>3, EnforcedUnique
  <1>4. CASE IfThen
    <2> DEFINE one == Backpatch(emit, Val(3).truelist, Val(2).label)
    <2>1. emit' = Enforced(one, Val(1).nextlist) /\ 2 \in 1 .. Len(stack)
      BY <1>1, <1>4 DEF IfThen, OnTop, Continue
    <2>2. Unique(one)
      BY <1>1, <2>1, BackpatchUnique
    <2> HIDE DEF one
    <2> QED BY <2>1, <2>2, EnforcedUnique
  <1>5. CASE For
    <2> DEFINE one == BackpatchIfAny(emit, Val(8).nextlist, Val(7).label)
               entered == Backpatch(one, Val(6).truelist, Val(2).label)
               two == Enforced(entered, Val(1).nextlist)
               looped == Backpatch(two, EnforcedList(entered, Val(1).nextlist), Val(5).label)
    <2>1. /\ emit' = Backpatch(looped, Val(3).dest \cup Val(4).nextlist, Val(7).label)
          /\ \A k \in {2, 5, 7} : k \in 1 .. Len(stack)
      BY <1>1, <1>5, SMTT(40) DEF For, OnTop, Continue
    <2>2. Val(2).label \in Nat /\ Val(5).label \in Nat /\ Val(7).label \in Nat
      BY <1>1, <2>1
    <2>3. Unique(one)
      BY <2>2, BackpatchUnique
    <2> HIDE DEF one
    <2>4. Unique(entered)
      BY <2>2, <2>3, BackpatchUnique
    <2> HIDE DEF entered
    <2>5. Unique(two)
      BY <2>4, EnforcedUnique
    <2> HIDE DEF two
    <2>6. Unique(looped)
      BY <2>2, <2>5, BackpatchUnique
    <2> HIDE DEF looped
    <2> QED BY <2>1, <2>2, <2>6, BackpatchUnique
  <1>6. CASE While
    <2> DEFINE entered == Backpatch(emit, Val(3).truelist, Val(2).label)
               two == Enforced(entered, Val(1).nextlist)
    <2>1. /\ emit' = Backpatch(two, EnforcedList(entered, Val(1).nextlist), Val(4).label)
          /\ \A k \in {2, 4} : k \in 1 .. Len(stack)
      BY <1>1, <1>6 DEF While, OnTop, Continue
    <2>2. Val(2).label \in Nat /\ Val(4).label \in Nat
      BY <1>1, <2>1
    <2>3. Unique(entered)
      BY <2>2, BackpatchUnique
    <2> HIDE DEF entered
    <2>4. Unique(two)
      BY <2>3, EnforcedUnique
    <2> HIDE DEF two
    <2> QED BY <2>1, <2>2, <2>4, BackpatchUnique
  <1> QED BY <1>2, <1>3, <1>4, <1>5, <1>6

\* The ends of the function and of the program: the skip label waits in m2 up to
\* here, so it has not been emitted.
LEMMA UniqueEnds ==
  ASSUME TypeInv, BackpatchInv, Unique(emit), Function \/ MainFunction
  PROVE  Unique(emit')
  <1>1. stack \in Seq(Entry) /\ Len(stack) \in Nat /\ 0 \in Nat
    BY Labelled
  <1>f. ASSUME Function
        PROVE  /\ Parsing /\ OnTop(<<"m2", "func_arg", "blk">>)
               /\ 3 \in 1 .. Len(stack) /\ Val(3).sym = "m2"
    <2>1. Parsing /\ OnTop(<<"m2", "func_arg", "blk">>)
      BY <1>f DEF Function
    <2>2. Len(<<"m2", "func_arg", "blk">>) = 3
      OBVIOUS
    <2>3. 3 <= Len(stack) /\ Val(3).sym = "m2"
      BY <1>1, <2>1, <2>2 DEF OnTop, Val
    <2> QED BY <1>1, <2>1, <2>3
  <1>2. CASE Function
    <2> DEFINE m == Val(3).label
               N == Val(1).nextlist
               r == Val(1).retlist
               lr == IF lrTouched THEN 1 ELSE 0
               leave == FreshLabel(emit)
               skip == CHOOSE l \in Val(3).dest : TRUE
               spliced == Splice(emit, m, <<Inst("SAVE", 0, lr)>>)
               marked == Mark(spliced)
               half == BackpatchIfAny(marked, N, leave)
               whole == BackpatchIfAny(half, r, leave)
               left == IF N \cup r = {} THEN spliced ELSE whole
               restored == Emit(left, Inst("RESTORE", 0, lr))
               returned == Emit(restored, Inst("RETRN", 0, 0))
    <2>1. Parsing /\ OnTop(<<"m2", "func_arg", "blk">>) /\ emit' = Label(returned, skip)
      BY <1>2 DEF Function, Continue
    <2>2. 3 \in 1 .. Len(stack) /\ Val(3).sym = "m2"
      BY <1>2, <1>f
    <2>3. /\ OpenLabels(Rest(2)) = OpenLabels(Rest(3)) \cup Val(3).dest
          /\ Val(3).dest = {skip} /\ skip \in Nat /\ m \in Defined(emit)
      <3>1. /\ OpenLabels(Rest(3 - 1)) = OpenLabels(Rest(3)) \cup Val(3).dest
            /\ \E l \in Nat : Val(3).dest = {l}
            /\ m \in Defined(emit)
        BY <2>1, <2>2, AtDest DEF DestSymbols
      <3> QED BY <3>1
    <2>4. skip \in OpenLabels(Rest(0))
      <3>1. 1 \in 1 .. Len(stack) /\ 2 \in 1 .. Len(stack) /\ StackInv(stack, Defined(emit))
        BY <1>1, <2>1, <2>2, Start
      <3>2. /\ OpenLabels(Rest(1 - 1)) = OpenLabels(Rest(1)) \cup Open(Val(1))
            /\ OpenLabels(Rest(2 - 1)) = OpenLabels(Rest(2)) \cup Open(Val(2))
        BY <1>1, <3>1, Popped
      <3> QED BY <2>3, <3>2
    <2>5. skip \in Labels(emit) /\ skip \notin Defined(emit)
      BY <2>1, <2>4, Start DEF Sound
    <2>6. m \in Nat /\ lr \in Nat
      BY <1>1, <2>2, Labelled
    <2> HIDE DEF skip, lr, m, N, r
    <2>7. /\ Unique(spliced) /\ Defined(spliced) \subseteq Defined(emit)
          /\ Labels(spliced) = Labels(emit) /\ FreshLabel(spliced) = leave
      <3> DEFINE i == Inst("SAVE", 0, lr)
      <3>1. i \in Instruction /\ i.op # "LABEL"
        BY <2>6 DEF Inst, Instruction, DataOps
      <3> HIDE DEF i
      <3>2. /\ Unique(Splice(emit, m, <<i>>)) /\ Defined(Splice(emit, m, <<i>>)) \subseteq Defined(emit)
            /\ Labels(Splice(emit, m, <<i>>)) = Labels(emit)
        BY <2>3, <2>6, <3>1, SpliceUnique
      <3>3. Splice(emit, m, <<i>>).next = emit.next
        BY <2>3, <2>6, <3>1, SplicePlaces DEF Unique
      <3> QED BY <3>2, <3>3 DEF i, FreshLabel
    <2>8. leave \in Nat /\ leave # skip
      BY <2>5, NewLabelUnique
    <2> HIDE DEF spliced, leave
    <2>9. /\ Unique(marked) /\ Defined(marked) = Defined(spliced) \cup {leave}
          /\ Labels(spliced) \subseteq Labels(marked)
      BY <2>7, MarkUnique
    <2> HIDE DEF marked
    <2>10. Unique(half) /\ Defined(half) = Defined(marked) /\ Labels(half) = Labels(marked)
      BY <2>8, <2>9, BackpatchUnique
    <2> HIDE DEF half
    <2>11. Unique(whole) /\ Defined(whole) = Defined(half) /\ Labels(whole) = Labels(half)
      BY <2>8, <2>10, BackpatchUnique
    <2> HIDE DEF whole
    <2>12. Unique(left) /\ skip \in Labels(left) /\ skip \notin Defined(left)
      BY <2>5, <2>7, <2>8, <2>9, <2>10, <2>11
    <2> HIDE DEF left
    <2>13. Unique(restored) /\ skip \in Labels(restored) /\ skip \notin Defined(restored)
      BY <2>6, <2>12, OpsUnique
    <2> HIDE DEF restored
    <2>14. Unique(returned) /\ skip \in Labels(returned) /\ skip \notin Defined(returned)
      BY <1>1, <2>13, OpsUnique
    <2> HIDE DEF returned
    <2> QED BY <2>1, <2>3, <2>14, LabelUnique
  <1>3. CASE MainFunction
    <2> DEFINE leave == FreshLabel(emit)
               patched == Backpatch(Mark(emit), Val(1).nextlist, leave)
               ended == IF Val(1).nextlist = {} THEN emit ELSE patched
    <2>1. emit' \in {emit, Emit(ended, Inst("HALT", 0, 0))}
      BY <1>3 DEF MainFunction
    <2>2. Unique(Mark(emit)) /\ leave \in Nat
      BY MarkUnique, NewLabelUnique
    <2> HIDE DEF leave
    <2>3. Unique(patched)
      BY <2>2, BackpatchUnique
    <2> HIDE DEF patched
    <2>4. Unique(ended)
      BY <2>3
    <2> HIDE DEF ended
    <2>5. Unique(Emit(ended, Inst("HALT", 0, 0)))
      BY <1>1, <2>4, OpsUnique
    <2> QED BY <2>1, <2>5
  <1> QED BY <1>2, <1>3

\* The emitted code of a reachable state.
UniqueInv == Unique(emit)

\* No step emits a label a second time.
LEMMA UniqueStep ==
  ASSUME TypeInv, BackpatchInv, UniqueInv, [Next]_vars
  PROVE  UniqueInv'
  <1> SUFFICES Unique(emit')
    BY DEF UniqueInv
  <1>0. Unique(emit)
    BY DEF UniqueInv
  <1>1. CASE UNCHANGED vars \/ Finished
    BY <1>0, <1>1 DEF Finished, vars
  <1>2. CASE \E e \in Exps : Operation(e)
    BY <1>0, <1>2, UniqueTokens DEF Operation
  <1>3. CASE Rule
    <2>1. CASE FuncHeader \/ NoFunction \/ CloseBlk \/ StmtUnit \/ ShiftBool \/ BoolUnit
               \/ Paren \/ Not \/ ShiftCntrl
      BY <1>0, <2>1
         DEF FuncHeader, NoFunction, CloseBlk, StmtUnit, ShiftBool, BoolUnit, Paren, Not, ShiftCntrl
    <2>2. CASE CompileError
      BY <2>2, EmptyUnique DEF CompileError
    <2>3. CASE M2 \/ M4 \/ OpenBlk \/ M6 \/ M1 \/ M5
      BY <1>0, <2>3, UniqueM2, UniqueTokens, UniqueMarks
    <2>4. CASE Function \/ MainFunction
      BY <1>0, <2>4, UniqueEnds
    <2>5. CASE ReduceList \/ And \/ Or \/ IfElse \/ IfThen \/ For \/ While
      BY <1>0, <2>5, UniqueControl
    <2> QED BY <1>3, <2>1, <2>2, <2>3, <2>4, <2>5 DEF Rule
  <1> QED BY <1>1, <1>2, <1>3 DEF Next

\* In programs of every size no label is emitted twice, so CalcLabelAddress gives
\* each the one address it has.
THEOREM LabelsUniqueHolds == Spec => []LabelsUnique
  <1>1. Init => UniqueInv
    BY EmptyUnique DEF Init, UniqueInv
  <1>2. ASSUME TypeInv, BackpatchInv, UniqueInv, [Next]_vars
        PROVE  UniqueInv'
    BY <1>2, UniqueStep
  <1>3. UniqueInv => LabelsUnique
    BY DEF UniqueInv, Unique, LabelsUnique
  <1> QED BY <1>1, <1>2, <1>3, Backpatched, PTL DEF Spec


\* ---- where labels wait, the code ends in a jump ---------------------------------

\* The labels of a value that wait for the next label or statement.
Waiting(e) == e.truelist \cup e.falselist \cup e.nextlist

LastJumps(b) == b.code # <<>> /\ b.code[Len(b.code)].op = "UJUMP"

\* NoFallThrough in every state, whether or not the parser goes on.
Lands == stack # <<>> => (Waiting(stack[Len(stack)]) # {} => LastJumps(emit))

\* Tokens, markers and statements without a nextlist let nothing wait.
LEMMA NoneWaiting ==
  \A s, l, d : /\ Waiting(Plain(s)) = {} /\ Waiting(Marker(s, l, d)) = {}
               /\ Waiting(Stmt(s, {}, d)) = {}
  BY DEF Waiting, Plain, Marker, Stmt

\* ujump() is the last instruction.
LEMMA UjumpLast ==
  ASSUME NEW b \in Block, NEW l \in Nat
  PROVE  LastJumps(Ujump(b, l))
  <1> DEFINE i == Inst("UJUMP", l, 0)
  <1>1. i \in Instruction /\ i.op = "UJUMP"
    BY DEF Inst, Instruction, JumpOps
  <1> HIDE DEF i
  <1>2. b.code \in Seq(Instruction) /\ Emit(b, i).code = Append(b.code, i)
    BY <1>1, EmitType DEF Block
  <1>3. Append(b.code, i) # <<>> /\ Append(b.code, i)[Len(Append(b.code, i))] = i
    BY <1>1, <1>2
  <1> QED BY <1>1, <1>2, <1>3 DEF LastJumps, Ujump, i

\* Backpatching emits nothing.
LEMMA BackpatchCode ==
  \A b, L, t : Backpatch(b, L, t).code = b.code /\ BackpatchIfAny(b, L, t).code = b.code
  BY DEF Backpatch, BackpatchIfAny

\* enforce_valid_nextlist() leaves a jump at the end.
LEMMA EnforcedLast ==
  ASSUME NEW b, Unique(b), NEW L, L # {} => LastJumps(b)
  PROVE  LastJumps(Enforced(b, L))
  <1>1. NewLabel(b) \in Block /\ FreshLabel(b) \in Nat
    BY NewLabelUnique DEF Unique
  <1>2. LastJumps(JumpFresh(b))
    BY <1>1, UjumpLast DEF JumpFresh
  <1> QED BY <1>2 DEF Enforced

\* A rule changes one value of the stack, the one it pushes.
LEMMA Landed ==
  ASSUME stack \in Seq(Entry), NEW k \in 0 .. Len(stack), NEW e, Reduce(k, e),
         Waiting(e) # {} => LastJumps(emit')
  PROVE  Lands'
  <1>1. Len(stack) - k \in 0 .. Len(stack)
    BY LenProperties
  <1> DEFINE r == SubSeq(stack, 1, Len(stack) - k)
  <1>2. r \in Seq(Entry) /\ stack' = Append(r, e)
    BY <1>1 DEF Reduce
  <1> HIDE DEF r
  <1>3. stack'[Len(stack')] = e
    BY <1>2
  <1> QED BY <1>3 DEF Lands

\* Rules that push a value nothing waits in.
LEMMA LandsQuietly ==
  ASSUME TypeInv, NEW e,
         \/ M2 \/ FuncHeader \/ Function \/ NoFunction \/ M4 \/ MainFunction \/ M6
         \/ ShiftBool \/ ShiftCntrl \/ M1 \/ M5 \/ Assn(e) \/ Return(e)
  PROVE  Lands'
  <1>1. stack \in Seq(Entry) /\ Len(stack) \in Nat
    BY Labelled
  <1>2. Len(<<"m2", "func_arg", "blk">>) = 3 /\ Len(<<"function", "m4", "blk">>) = 3
    OBVIOUS
  <1>3. CASE Function \/ MainFunction
    <2>1. 3 <= Len(stack)
      BY <1>2, <1>3 DEF Function, MainFunction, OnTop
    <2>2. \E s : Reduce(3, Plain(s))
      BY <1>3 DEF Function, MainFunction
    <2> QED BY <1>1, <2>1, <2>2, NoneWaiting, Landed
  <1>4. CASE \/ M2 \/ FuncHeader \/ NoFunction \/ M4 \/ M6 \/ ShiftBool \/ ShiftCntrl
             \/ M1 \/ M5 \/ Assn(e) \/ Return(e)
    <2>1. \E s, l, d, v : Shift(v) /\ v \in {Plain(s), Marker(s, l, d), Stmt(s, {}, d)}
      <3>1. CASE FuncHeader \/ NoFunction \/ M4 \/ ShiftBool \/ ShiftCntrl \/ Assn(e)
        BY <3>1 DEF FuncHeader, NoFunction, M4, ShiftBool, ShiftCntrl, Assn
      <3>2. CASE M2
        BY <3>2 DEF M2
      <3>3. CASE M1
        <4>1. \E s, l, d : Shift(Marker(s, l, d))
          BY <3>3 DEF M1
        <4> QED BY <4>1
      <3>4. CASE M5
        <4>1. \E s, l, d : Shift(Marker(s, l, d))
          BY <3>4 DEF M5
        <4> QED BY <4>1
      <3>5. CASE M6
        <4>1. \E s, l, d : Shift(Marker(s, l, d)) \/ Shift(Plain(s))
          BY <3>5 DEF M6
        <4> QED BY <4>1
      <3>6. CASE Return(e)
        <4>1. \E s, d : Shift(Stmt(s, {}, d))
          BY <3>6 DEF Return
        <4> QED BY <4>1
      <3> QED BY <1>4, <3>1, <3>2, <3>3, <3>4, <3>5, <3>6
    <2>2. PICK v : Shift(v) /\ Waiting(v) = {}
      BY <2>1, NoneWaiting
    <2>3. Reduce(0, v) /\ 0 \in 0 .. Len(stack)
      BY <1>1, <2>2, ShiftReduces
    <2> QED BY <1>1, <2>2, <2>3, Landed
  <1> QED BY <1>3, <1>4

\* Rules that pass the labels of the last value on, and emit nothing.
LEMMA LandsAsBefore ==
  ASSUME TypeInv, BackpatchInv, Lands,
         CloseBlk \/ StmtUnit \/ BoolUnit \/ Paren \/ Not \/ And \/ Or \/ ReduceList
  PROVE  Lands'
  <1> DEFINE V == Val(1)
  <1>p. Parsing
    BY DEF CloseBlk, StmtUnit, BoolUnit, Paren, Not, And, Or, ReduceList
  <1>1. stack \in Seq(Entry) /\ Len(stack) \in Nat /\ StackInv(stack, Defined(emit))
    BY <1>p, Start
  <1>2. /\ Len(<<"m0", "list">>) = 2 /\ Len(<<"LPAREN", "bexp">>) = 2 /\ Len(<<"NOT", "bfac">>) = 2
        /\ Len(<<"bterm", "m1.and", "bfac">>) = 3 /\ Len(<<"bexp", "m1.or", "bterm">>) = 3
        /\ Len(<<"list", "m6", "stmt">>) = 3 /\ Len(<<"bpfac">>) = 1 /\ Len(<<"bfac">>) = 1
        /\ Len(<<"bterm">>) = 1
    OBVIOUS
  <1>3. emit'.code = emit.code
    BY BackpatchCode DEF CloseBlk, StmtUnit, BoolUnit, Paren, Not, And, Or, ReduceList, Continue
  <1>4. ASSUME NEW k \in 1 .. 3, k <= Len(stack), NEW e, Reduce(k, e),
               Waiting(e) # {} => Waiting(V) # {}
        PROVE  Lands'
    <2>1. k \in 0 .. Len(stack) /\ stack # <<>> /\ V = stack[Len(stack)]
      BY <1>1, <1>4 DEF Val
    <2>2. Waiting(e) # {} => LastJumps(emit')
      BY <1>3, <1>4, <2>1 DEF Lands, LastJumps
    <2> QED BY <1>1, <1>4, <2>1, <2>2, Landed
  <1>5. CASE CloseBlk \/ StmtUnit \/ BoolUnit \/ Paren
    <2>1. \E k, s : k \in 1 .. 2 /\ k <= Len(stack) /\ Reduce(k, As(s, V))
      <3>1. CASE CloseBlk \/ Paren
        BY <1>2, <3>1 DEF CloseBlk, Paren, OnTop
      <3>2. CASE BoolUnit
        <4>1. /\ \E s : OnTop(<<s>>)
              /\ \E s : Reduce(1, As(s, V))
          BY <3>2 DEF BoolUnit
        <4>2. 1 <= Len(stack)
          BY <1>1, <4>1 DEF OnTop
        <4> QED BY <1>1, <4>1, <4>2
      <3>3. CASE StmtUnit
        <4>1. /\ \E c, s : OnTop(<<c, s>>)
              /\ Reduce(1, As("stmt", V))
          BY <3>3 DEF StmtUnit
        <4>2. 1 <= Len(stack)
          BY <1>1, <4>1 DEF OnTop
        <4> QED BY <1>1, <4>1, <4>2
      <3> QED BY <1>5, <3>1, <3>2, <3>3
    <2>2. 1 \in 1 .. Len(stack)
      BY <1>1, <2>1
    <2>3. V \in Entry
      BY <1>1, <2>2, Popped
    <2>4. \A s : Waiting(As(s, V)) = Waiting(V)
      BY <2>3 DEF As, Waiting, Entry
    <2> HIDE DEF V
    <2> QED BY <1>4, <2>1, <2>4
  <1>6. CASE Not \/ And \/ Or
    <2>1. \E k, e : k \in 2 .. 3 /\ k <= Len(stack) /\ Reduce(k, e)
      BY <1>2, <1>6 DEF Not, And, Or, OnTop
    <2>2. Len(stack) >= 2 /\ V.sym \in {"bfac", "bterm"}
      BY <1>1, <1>2, <1>6 DEF Not, And, Or, OnTop, Val
    <2>3. 1 \in 1 .. Len(stack) /\ V.sym \in BoolSymbols
      BY <1>1, <2>2, Classes
    <2>4. WellFormed(V, Defined(emit))
      BY <1>1, <2>3, Popped
    <2>5. Waiting(V) # {}
      BY <2>3, <2>4 DEF WellFormed, Waiting
    <2> HIDE DEF V
    <2> QED BY <1>4, <2>1, <2>5
  <1>7. CASE ReduceList
    <2>1. 3 <= Len(stack) /\ \E r : Reduce(3, Stmt("list", V.nextlist, r))
      BY <1>2, <1>7 DEF ReduceList, OnTop
    <2>2. \A r : Waiting(Stmt("list", V.nextlist, r)) # {} => Waiting(V) # {}
      BY DEF Waiting, Stmt
    <2> HIDE DEF V
    <2> QED BY <1>4, <2>1, <2>2
  <1> QED BY <1>5, <1>6, <1>7

\* Control statements end in the jump of their last statement, or get one.
LEMMA LandsControl ==
  ASSUME TypeInv, BackpatchInv, Unique(emit), Lands, IfElse \/ IfThen \/ For \/ While
  PROVE  Lands'
  <1>p. Parsing
    BY DEF IfElse, IfThen, For, While
  <1>1. stack \in Seq(Entry) /\ Len(stack) \in Nat /\ StackInv(stack, Defined(emit))
    BY <1>p, Start
  <1>l. /\ Len(<<"IF", "bexp", "m1.then", "stmt", "m5.else", "m1.else", "stmt">>) = 7
        /\ Len(<<"IF", "bexp", "m1.then", "stmt">>) = 4
        /\ Len(<<"WHILE", "m1.loop", "bexp", "m1.do", "stmt">>) = 5
        /\ Len(<<"FOR", "stmt", "m1.cond", "bexp", "m1.update", "stmt", "m5.for", "m1.body",
                 "stmt">>) = 9
    OBVIOUS
  <1>2. \E k, e : k \in {4, 5, 7, 9} /\ k <= Len(stack) /\ Reduce(k, e)
    <2>2. CASE IfElse
      BY <1>l, <2>2 DEF IfElse, OnTop
    <2>3. CASE IfThen
      BY <1>l, <2>3 DEF IfThen, OnTop
    <2>4. CASE For
      BY <1>l, <2>4 DEF For, OnTop
    <2>5. CASE While
      BY <1>l, <2>5 DEF While, OnTop
    <2> QED BY <2>2, <2>3, <2>4, <2>5
  <1>3. stack # <<>> /\ Val(1) = stack[Len(stack)]
    BY <1>1, <1>2 DEF Val
  <1>4. Val(1).nextlist # {} => LastJumps(emit)
    BY <1>3 DEF Lands, Waiting
  <1>5. \E b : /\ Unique(b) /\ b.code = emit.code
               /\ emit'.code = Enforced(b, Val(1).nextlist).code
    <2>1. \A k \in 1 .. Len(stack) : Val(k).label \in Nat
      BY Labelled
    <2>2. \A k \in 1 .. 7 : IfElse \/ For => Val(k).label \in Nat
      <3>1. IfElse \/ For => 7 <= Len(stack)
        BY <1>l DEF IfElse, For, OnTop
      <3> QED BY <1>1, <2>1, <3>1
    <2>3. \A k \in 1 .. 4 : Val(k).label \in Nat
      <3>1. 4 <= Len(stack)
        BY <1>1, <1>2
      <3> QED BY <1>1, <2>1, <3>1
    <2>4. CASE IfElse
      <3> DEFINE half == Backpatch(emit, Val(6).truelist, Val(5).label)
                 whole == Backpatch(half, Val(6).falselist, Val(2).label)
      <3>1. emit' = Enforced(whole, Val(1).nextlist)
        BY <2>4 DEF IfElse, Continue
      <3>2. Unique(half) /\ half.code = emit.code
        BY <2>2, <2>4, BackpatchUnique, BackpatchCode
      <3> HIDE DEF half
      <3>3. Unique(whole) /\ whole.code = half.code
        BY <2>2, <2>4, <3>2, BackpatchUnique, BackpatchCode
      <3> HIDE DEF whole
      <3> QED BY <3>1, <3>2, <3>3
    <2>5. CASE IfThen \/ While
      <3> DEFINE entered == Backpatch(emit, Val(3).truelist, Val(2).label)
      <3>1. emit'.code = Enforced(entered, Val(1).nextlist).code
        BY <2>5, BackpatchCode DEF IfThen, While, Continue
      <3>2. Unique(entered) /\ entered.code = emit.code
        BY <2>3, BackpatchUnique, BackpatchCode
      <3> HIDE DEF entered
      <3> QED BY <3>1, <3>2
    <2>6. CASE For
      <3> DEFINE begun == BackpatchIfAny(emit, Val(8).nextlist, Val(7).label)
                 entered == Backpatch(begun, Val(6).truelist, Val(2).label)
      <3>1. emit'.code = Enforced(entered, Val(1).nextlist).code
        BY <2>6, BackpatchCode DEF For, Continue
      <3>2. Unique(begun) /\ begun.code = emit.code
        BY <2>2, <2>6, BackpatchUnique, BackpatchCode
      <3> HIDE DEF begun
      <3>3. Unique(entered) /\ entered.code = begun.code
        BY <2>2, <2>6, <3>2, BackpatchUnique, BackpatchCode
      <3> HIDE DEF entered
      <3> QED BY <3>1, <3>2, <3>3
    <2> QED BY <2>4, <2>5, <2>6
  <1>6. LastJumps(emit')
    BY <1>4, <1>5, EnforcedLast DEF LastJumps
  <1>7. PICK k, e : k \in {4, 5, 7, 9} /\ k <= Len(stack) /\ Reduce(k, e)
    BY <1>2
  <1>8. k \in 0 .. Len(stack)
    BY <1>1, <1>7
  <1> QED BY <1>1, <1>6, <1>7, <1>8, Landed

\* Control falls off no condition and off no statement that left a nextlist,
\* in programs of every size: the code there ends in a jump.
THEOREM NoFallThroughHolds == Spec => []NoFallThrough
  <1>1. Init => UniqueInv /\ Lands
    BY EmptyUnique DEF Init, UniqueInv, Lands
  <1>2. ASSUME TypeInv, BackpatchInv, UniqueInv, Lands, [Next]_vars
        PROVE  Lands'
    <2>0. Unique(emit) /\ stack \in Seq(Entry) /\ Len(stack) \in Nat
      BY <1>2, Labelled DEF UniqueInv
    <2>1. CASE UNCHANGED vars \/ Finished
      BY <1>2, <2>1 DEF Finished, vars, Lands, LastJumps, Waiting
    <2>2. CASE \E e \in Exps : Operation(e)
      <3> PICK e : Operation(e)
        BY <2>2
      <3>1. CASE Assn(e) \/ Return(e)
        BY <1>2, <3>1, LandsQuietly
      <3>2. CASE \E inverse : RelOp(e, inverse)
        <4>1. \E b, l : Unique(b) /\ l \in Nat /\ emit' = Ujump(b, l)
          BY <1>2, <2>0, <3>2, TestJumps
        <4>2. LastJumps(emit')
          BY <4>1, UjumpLast DEF Unique
        <4>3. PICK v : Shift(v)
          BY <3>2 DEF RelOp
        <4>4. Reduce(0, v) /\ 0 \in 0 .. Len(stack)
          BY <2>0, <4>3, ShiftReduces
        <4> QED BY <2>0, <4>2, <4>4, Landed
      <3> QED BY <3>1, <3>2 DEF Operation
    <2>3. CASE Rule
      <3>1. CASE \/ M2 \/ FuncHeader \/ Function \/ NoFunction \/ M4 \/ MainFunction \/ M6
                 \/ ShiftBool \/ ShiftCntrl \/ M1 \/ M5
        BY <1>2, <3>1, LandsQuietly
      <3>2. CASE CompileError
        BY <3>2 DEF CompileError, Lands
      <3>3. CASE OpenBlk
        <4> DEFINE s == Append(stack, Plain("m0"))
        <4>1. stack' = Append(s, Plain("list"))
          BY <3>3 DEF OpenBlk
        <4>2. s \in Seq(Entry) /\ Plain("list") \in Entry
          BY <2>0 DEF Entry, Plain, Symbols
        <4> HIDE DEF s
        <4>3. stack'[Len(stack')] = Plain("list")
          BY <4>1, <4>2
        <4> QED BY <4>3, NoneWaiting DEF Lands
      <3>4. CASE CloseBlk \/ StmtUnit \/ BoolUnit \/ Paren \/ Not \/ And \/ Or \/ ReduceList
        BY <1>2, <3>4, LandsAsBefore
      <3>5. CASE IfElse \/ IfThen \/ For \/ While
        BY <1>2, <2>0, <3>5, LandsControl
      <3> QED BY <2>3, <3>1, <3>2, <3>3, <3>4, <3>5 DEF Rule
    <2> QED BY <1>2, <2>1, <2>2, <2>3 DEF Next
  <1>3. Lands => NoFallThrough
    BY DEF Lands, NoFallThrough, Waiting, LastJumps
  <1>4. ASSUME TypeInv, BackpatchInv, UniqueInv, [Next]_vars
        PROVE  UniqueInv'
    BY <1>4, UniqueStep
  <1> QED BY <1>1, <1>2, <1>3, <1>4, Backpatched, PTL DEF Spec

=============================================================================

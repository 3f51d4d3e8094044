--------------------------- MODULE EmulationProofs ---------------------------
\* Every compiled program keeps the emulator inside its code and its calls
\* balanced, whatever the program and however long it runs.
\*
\* First the shape of the code: the function's instructions are a block of their
\* own in front of the program's, and the jumps of either stay in it, because
\* their labels are of different ages.  Then the run: where the emulator is says
\* where the return addresses of the calls in progress are.
EXTENDS Emulation, ControlFlowProofs, FiniteSetTheorems

\* ---- the shape of the code -------------------------------------------------------

BodyOps == {"OP", "CMP", "CMPN", "COPYI", "LOADI", "JLINK", "LABEL"} \cup JumpOps

\* An instruction of the body of the function or of the program: its label is
\* above L, and it calls only if there is something to call.
BodyInst(i, L, calls) ==
  /\ i.op \in BodyOps
  /\ i.op \in JumpOps \cup {"LABEL"} => i.label > L
  /\ i.op = "JLINK" => calls

\* The code behind position S up to position E is such a body, and the labels
\* above L are patched among themselves.
Body(b, S, E, L, calls) ==
  /\ \A p \in S + 1 .. E : BodyInst(b.code[p], L, calls)
  /\ \A l \in L + 1 .. Len(b.next) : b.next[l] = 0 \/ b.next[l] > L

\* The first S positions are a complete function that owns the labels up to L: the
\* jump around it, prologue, body, epilogue and the label behind it.
Sealed(b, S, L) ==
  /\ S \in 6 .. Len(b.code) /\ L \in 2 .. Len(b.next)
  /\ b.code[1].op = "UJUMP" /\ b.code[1].label = 1
  /\ b.code[2].op = "SAVE" /\ b.code[2].id \in {0, 1}
  /\ b.code[3].op = "LABEL" /\ b.code[3].label = 2
  /\ \A p \in 4 .. S - 3 : /\ BodyInst(b.code[p], 2, b.code[2].id = 1)
                           /\ b.code[p].op \in JumpOps \cup {"LABEL"} => b.code[p].label <= L
  /\ b.code[S - 2].op = "RESTORE" /\ b.code[S - 2].id = b.code[2].id
  /\ b.code[S - 1].op = "RETRN"
  /\ b.code[S].op = "LABEL" /\ b.code[S].label = 1
  /\ b.next[1] = 0
  /\ \A l \in 3 .. L : b.next[l] = 0 \/ b.next[l] \in 3 .. L

\* The labels of an entry of the stack are above L; marker m2 has those of the
\* function itself.
Above(e, L) == e.sym # "m2" => \A l \in Open(e) \cup {e.label} : l = 0 \/ l > L
AllAbove(s, L) == \A i \in DOMAIN s : Above(s[i], L)

\* No function has been compiled.
Without ==
  /\ func = "none" /\ (stack # <<>> => stack[1].sym # "m2")
  /\ Body(emit, 0, Len(emit.code), 0, FALSE)
  /\ stack = <<>> => emit = EmptyBlock

\* The function is being compiled: behind the jump around it and the label of its
\* prologue only its body has been emitted.
Inside ==
  /\ stack # <<>> /\ stack[1].sym = "m2" /\ stack[1].label = 2 /\ stack[1].dest = {1}
  /\ Len(emit.code) >= 2 /\ Len(emit.next) >= 2
  /\ emit.code[1].op = "UJUMP" /\ emit.code[1].label = 1
  /\ emit.code[2].op = "LABEL" /\ emit.code[2].label = 2
  /\ Body(emit, 2, Len(emit.code), 2, lrTouched)
  /\ AllAbove(stack, 2)

\* The function has been compiled.
Behind ==
  /\ stack # <<>> /\ stack[1].sym # "m2"
  /\ \E S \in Nat, L \in Nat :
       Sealed(emit, S, L) /\ Body(emit, S, Len(emit.code), L, TRUE) /\ AllAbove(stack, L)

\* The complete code: with a function in front or without, HALT at the end.
Layout(b, S, L) ==
  /\ S \in Nat /\ L \in Nat /\ Len(b.code) > S
  /\ (S = 0 /\ L = 0) \/ Sealed(b, S, L)
  /\ Body(b, S, Len(b.code) - 1, L, S # 0)
  /\ b.code[Len(b.code)].op = "HALT"

LayoutInv ==
  /\ Parsing => Without \/ Inside \/ Behind
  /\ status = "done" => \E S, L : Layout(emit, S, L)

\* ---- growing code ------------------------------------------------------------------

\* b is a with more body instructions, whose labels are above L, behind it; what
\* is patched are labels above L, to labels above L.
Grown(a, b, L, calls) ==
  /\ a \in Block /\ b \in Block /\ L \in 0 .. Len(a.next)
  /\ Len(a.next) <= Len(b.next) /\ Len(a.code) <= Len(b.code)
  /\ \A p \in 1 .. Len(a.code) : b.code[p] = a.code[p]
  /\ \A p \in Len(a.code) + 1 .. Len(b.code) : BodyInst(b.code[p], L, calls)
  /\ \A l \in 1 .. L : b.next[l] = a.next[l]
  /\ \A l \in L + 1 .. Len(b.next) : b.next[l] = 0 \/ b.next[l] > L

\* Emitting nothing.
LEMMA GrownSelf ==
  ASSUME NEW b \in Block, NEW S, NEW E, NEW L \in 0 .. Len(b.next), NEW calls,
         Body(b, S, E, L, calls), NEW more
  PROVE  Grown(b, b, L, more)
  <1>1. Len(b.code) \in Nat /\ Len(b.next) \in Nat
    BY DEF Block
  <1> QED BY <1>1 DEF Grown, Body

\* The lengths of a block and its places.
LEMMA BlockType ==
  ASSUME NEW b \in Block
  PROVE  /\ Len(b.code) \in Nat /\ Len(b.next) \in Nat
         /\ DOMAIN b.code = 1 .. Len(b.code) /\ DOMAIN b.next = 1 .. Len(b.next)
         /\ \A p \in 1 .. Len(b.code) : b.code[p] \in Instruction
         /\ \A l \in 1 .. Len(b.next) : b.next[l] \in Nat
         /\ FreshLabel(b) = Len(b.next) + 1
  BY DEF Block, FreshLabel

\* One more instruction of a body.
LEMMA GrownEmit ==
  ASSUME NEW a, NEW b, NEW L, NEW calls, Grown(a, b, L, calls),
         NEW i \in Instruction, BodyInst(i, L, calls)
  PROVE  Grown(a, Emit(b, i), L, calls) /\ FreshLabel(Emit(b, i)) = FreshLabel(b)
  <1> DEFINE c == Emit(b, i)
             n == Len(b.code)
  <1>1. a \in Block /\ b \in Block
    BY DEF Grown
  <1>2. c \in Block /\ c.code = Append(b.code, i) /\ c.next = b.next
    BY <1>1, EmitType
  <1>3. b.code \in Seq(Instruction) /\ n \in Nat /\ Len(a.code) \in Nat
    BY <1>1 DEF Block
  <1>4. Len(c.code) = n + 1 /\ c.code[n + 1] = i /\ \A p \in 1 .. n : c.code[p] = b.code[p]
    BY <1>2, <1>3
  <1>n. n = Len(b.code)
    OBVIOUS
  <1> HIDE DEF c, n
  <1>5. \A p \in Len(a.code) + 1 .. n + 1 : p \in Len(a.code) + 1 .. n \/ p = n + 1
    BY <1>3
  <1>6. \A p \in Len(a.code) + 1 .. Len(c.code) : BodyInst(c.code[p], L, calls)
    <2> SUFFICES ASSUME NEW p \in Len(a.code) + 1 .. Len(c.code)
                 PROVE  BodyInst(c.code[p], L, calls)
      OBVIOUS
    <2>1. CASE p = n + 1
      BY <1>4, <2>1
    <2>2. CASE p \in Len(a.code) + 1 .. n
      <3>1. p \in 1 .. n
        BY <1>3, <2>2
      <3> QED BY <1>4, <1>n, <2>2, <3>1 DEF Grown
    <2> QED BY <1>4, <1>5, <2>1, <2>2
  <1>7. Len(a.code) <= n /\ \A p \in 1 .. Len(a.code) : p \in 1 .. n /\ b.code[p] = a.code[p]
    BY <1>3, <1>n DEF Grown
  <1>8. Grown(a, c, L, calls)
    BY <1>1, <1>2, <1>3, <1>4, <1>6, <1>7 DEF Grown
  <1> QED BY <1>2, <1>8 DEF c, FreshLabel

\* An instruction that is no jump, label or call.
LEMMA GrownPlain ==
  ASSUME NEW a, NEW b, NEW L, NEW calls, Grown(a, b, L, calls),
         NEW op \in {"OP", "CMP", "CMPN", "COPYI", "LOADI"}, NEW id \in Nat
  PROVE  /\ Grown(a, Emit(b, Inst(op, 0, id)), L, calls)
         /\ FreshLabel(Emit(b, Inst(op, 0, id))) = FreshLabel(b)
  <1> DEFINE i == Inst(op, 0, id)
  <1>1. i \in Instruction /\ i.op = op
    BY DEF Inst, Instruction, DataOps
  <1>2. op \in BodyOps /\ op \notin JumpOps \cup {"LABEL", "JLINK"}
    BY DEF BodyOps, JumpOps
  <1> HIDE DEF i
  <1>3. BodyInst(i, L, calls)
    BY <1>1, <1>2 DEF BodyInst
  <1>4. Grown(a, Emit(b, i), L, calls) /\ FreshLabel(Emit(b, i)) = FreshLabel(b)
    BY <1>1, <1>3, GrownEmit
  <1> QED BY <1>4 DEF i

\* A jump, or a label.
LEMMA GrownJump ==
  ASSUME NEW a, NEW b, NEW L, NEW calls, Grown(a, b, L, calls),
         NEW op \in JumpOps \cup {"LABEL"}, NEW l \in Nat, l > L
  PROVE  /\ Grown(a, Emit(b, Inst(op, l, 0)), L, calls)
         /\ FreshLabel(Emit(b, Inst(op, l, 0))) = FreshLabel(b)
  <1> DEFINE i == Inst(op, l, 0)
  <1>1. i \in Instruction /\ i.op = op /\ i.label = l
    BY DEF Inst, Instruction
  <1>2. op \in BodyOps /\ op # "JLINK"
    BY DEF BodyOps, JumpOps
  <1> HIDE DEF i
  <1>3. BodyInst(i, L, calls)
    BY <1>1, <1>2 DEF BodyInst
  <1>4. Grown(a, Emit(b, i), L, calls) /\ FreshLabel(Emit(b, i)) = FreshLabel(b)
    BY <1>1, <1>3, GrownEmit
  <1> QED BY <1>4 DEF i

\* A new label is above those of the code so far.
LEMMA GrownNewLabel ==
  ASSUME NEW a, NEW b, NEW L, NEW calls, Grown(a, b, L, calls)
  PROVE  /\ Grown(a, NewLabel(b), L, calls)
         /\ FreshLabel(b) > L /\ FreshLabel(b) \in Nat
         /\ FreshLabel(NewLabel(b)) = FreshLabel(b) + 1
  <1> DEFINE c == NewLabel(b)
             n == Len(b.next)
  <1>1. a \in Block /\ b \in Block /\ n \in Nat /\ b.next \in Seq(Nat) /\ Len(a.next) \in Nat
    BY DEF Grown, Block
  <1>2. c \in Block /\ c.code = b.code /\ c.next = Append(b.next, 0)
    BY <1>1, NewLabelType
  <1>3. Len(c.next) = n + 1 /\ c.next[n + 1] = 0 /\ \A l \in 1 .. n : c.next[l] = b.next[l]
    BY <1>1, <1>2
  <1>n. n = Len(b.next) /\ L \in 0 .. n
    BY <1>1 DEF Grown
  <1> HIDE DEF c, n
  <1>4. \A l \in 1 .. L : l \in 1 .. n /\ c.next[l] = a.next[l]
    BY <1>1, <1>3, <1>n DEF Grown
  <1>5. \A l \in L + 1 .. n + 1 : (l \in 1 .. n /\ l \in L + 1 .. n) \/ l = n + 1
    BY <1>1, <1>n
  <1>6. \A l \in L + 1 .. Len(c.next) : c.next[l] = 0 \/ c.next[l] > L
    BY <1>3, <1>5, <1>n DEF Grown
  <1>7. Len(a.next) <= Len(c.next)
    BY <1>1, <1>3, <1>n DEF Grown
  <1>8. Grown(a, c, L, calls)
    BY <1>1, <1>2, <1>4, <1>6, <1>7 DEF Grown
  <1>9. FreshLabel(b) = n + 1 /\ FreshLabel(c) = n + 2
    BY <1>3, <1>n, <1>1 DEF FreshLabel
  <1> QED BY <1>1, <1>8, <1>9, <1>n DEF c

\* Labels above L are patched to a label above L, or to none.
LEMMA GrownBackpatch ==
  ASSUME NEW a, NEW b, NEW L, NEW calls, Grown(a, b, L, calls),
         NEW P, \A l \in P : l = 0 \/ l > L, NEW t \in Nat, t = 0 \/ t > L
  PROVE  /\ Grown(a, Backpatch(b, P, t), L, calls)
         /\ Grown(a, BackpatchIfAny(b, P, t), L, calls)
         /\ FreshLabel(Backpatch(b, P, t)) = FreshLabel(b)
         /\ FreshLabel(BackpatchIfAny(b, P, t)) = FreshLabel(b)
  <1> DEFINE c == Backpatch(b, P, t)
             n == Len(b.next)
  <1>1. a \in Block /\ b \in Block /\ n \in Nat /\ L \in 0 .. n /\ L \in Nat
    BY BlockType DEF Grown
  <1>2. c \in Block /\ c.code = b.code
    BY <1>1, BackpatchType
  <1>3. /\ Len(c.next) = n
        /\ \A l \in 1 .. n : c.next[l] = IF l \in P THEN t ELSE IF l = t THEN 0 ELSE b.next[l]
    BY <1>1, BackpatchNext
  <1>n. n = Len(b.next)
    OBVIOUS
  <1> HIDE DEF c, n
  <1>4. \A l \in 1 .. L : c.next[l] = a.next[l]
    <2> SUFFICES ASSUME NEW l \in 1 .. L PROVE c.next[l] = a.next[l]
      OBVIOUS
    <2>1. l \in 1 .. n /\ l \notin P /\ l # t
      BY <1>1
    <2> QED BY <1>3, <2>1 DEF Grown
  <1>5. \A l \in L + 1 .. n : c.next[l] = 0 \/ c.next[l] > L
    <2> SUFFICES ASSUME NEW l \in L + 1 .. n PROVE c.next[l] = 0 \/ c.next[l] > L
      OBVIOUS
    <2>1. l \in 1 .. n /\ (b.next[l] = 0 \/ b.next[l] > L)
      BY <1>1, <1>n DEF Grown
    <2> QED BY <1>3, <2>1
  <1>6. Grown(a, c, L, calls)
    BY <1>2, <1>3, <1>4, <1>5, <1>n DEF Grown
  <1>7. FreshLabel(c) = FreshLabel(b)
    BY <1>3, <1>n DEF FreshLabel
  <1> QED BY <1>6, <1>7 DEF c, BackpatchIfAny

\* Marker m1, marker m5 and enforce_valid_nextlist.
LEMMA GrownMark ==
  ASSUME NEW a, NEW b, NEW L, NEW calls, Grown(a, b, L, calls)
  PROVE  /\ Grown(a, Mark(b), L, calls) /\ Grown(a, JumpFresh(b), L, calls)
         /\ FreshLabel(b) > L /\ FreshLabel(b) \in Nat
  <1> DEFINE c == NewLabel(b)
             l == FreshLabel(b)
  <1>1. Grown(a, c, L, calls) /\ l > L /\ l \in Nat
    BY GrownNewLabel
  <1>2. Mark(b) = Emit(c, Inst("LABEL", l, 0)) /\ JumpFresh(b) = Emit(c, Inst("UJUMP", l, 0))
    BY DEF Mark, JumpFresh, Label, Ujump
  <1>3. "UJUMP" \in JumpOps
    BY DEF JumpOps
  <1> HIDE DEF c, l
  <1>4. Grown(a, Emit(c, Inst("LABEL", l, 0)), L, calls) /\ Grown(a, Emit(c, Inst("UJUMP", l, 0)), L, calls)
    BY <1>1, <1>3, GrownJump
  <1> QED BY <1>1, <1>2, <1>4 DEF l

\* A statement's nextlist is made, or it is there.
LEMMA GrownEnforced ==
  ASSUME NEW a, NEW b, NEW L, NEW calls, Grown(a, b, L, calls),
         NEW P, \A l \in P : l = 0 \/ l > L
  PROVE  /\ Grown(a, Enforced(b, P), L, calls)
         /\ \A l \in EnforcedList(b, P) : l = 0 \/ l > L
  BY GrownMark DEF Enforced, EnforcedList

\* An expression that calls.
LEMMA GrownExp ==
  ASSUME NEW a, NEW b, NEW L, NEW calls, Grown(a, b, L, calls), size \in Nat,
         NEW e, e = "call" => calls
  PROVE  /\ Grown(a, EmitExp(b, e), L, calls)
         /\ FreshLabel(EmitExp(b, e)) = FreshLabel(b)
  <1> DEFINE i == Inst("JLINK", 0, size)
  <1>1. i \in Instruction /\ i.op = "JLINK"
    BY DEF Inst, Instruction, LinkOps
  <1>2. "JLINK" \in BodyOps /\ "JLINK" \notin JumpOps \cup {"LABEL"}
    BY DEF BodyOps, JumpOps
  <1>3. EmitExp(b, e) = IF e = "call" THEN Emit(b, i) ELSE b
    BY DEF EmitExp
  <1> HIDE DEF i
  <1>4. e = "call" => BodyInst(i, L, calls)
    BY <1>1, <1>2 DEF BodyInst
  <1> QED BY <1>1, <1>3, <1>4, GrownEmit

\* ---- what the rules do to the stack ---------------------------------------------------

\* Labels above L, or none.
High(P, L) == \A l \in P : l = 0 \/ l > L

\* Marker m2 stays at the bottom.
Bottom ==
  /\ stack' # <<>>
  /\ stack'[1].sym = "m2" <=> (stack # <<>> /\ stack[1].sym = "m2")
  /\ stack # <<>> /\ stack[1].sym = "m2" => stack'[1] = stack[1]

\* The labels of the values a rule pops are above L.
LEMMA TopHigh ==
  ASSUME stack \in Seq(Entry), NEW L, AllAbove(stack, L), NEW k \in 1 .. Len(stack),
         Val(k).sym # "m2"
  PROVE  /\ High(Val(k).nextlist, L) /\ High(Val(k).retlist, L) /\ High(Val(k).truelist, L)
         /\ High(Val(k).falselist, L) /\ High(Val(k).dest, L)
         /\ Val(k).label = 0 \/ Val(k).label > L
         /\ Val(k).label \in Nat
  <1>1. Val(k) = stack[Len(stack) - k + 1] /\ Len(stack) - k + 1 \in DOMAIN stack /\ Val(k) \in Entry
    BY ValType
  <1>2. Above(Val(k), L)
    BY <1>1 DEF AllAbove
  <1>3. \A l \in Open(Val(k)) \cup {Val(k).label} : l = 0 \/ l > L
    BY <1>2 DEF Above
  <1>4. Val(k).label \in Nat
    BY <1>1 DEF Entry
  <1> QED BY <1>3, <1>4 DEF Open, High

\* A rule without m2 on its right-hand side.
LEMMA TopSymbols ==
  ASSUME stack \in Seq(Entry), NEW rhs \in Seq(Symbols \ {"m2"}), OnTop(rhs)
  PROVE  /\ Len(rhs) \in 0 .. Len(stack)
         /\ \A k \in 1 .. Len(rhs) : k \in 1 .. Len(stack) /\ Val(k).sym # "m2"
  <1>1. rhs \in Seq(Symbols) /\ Len(rhs) \in Nat /\ Len(stack) \in Nat
        /\ \A i \in 1 .. Len(rhs) : rhs[i] \in Symbols \ {"m2"}
    OBVIOUS
  <1>2. Len(rhs) <= Len(stack) /\ \A k \in 1 .. Len(rhs) : Val(k).sym = rhs[Len(rhs) - k + 1]
    BY <1>1, OnTopLen
  <1>3. \A k \in 1 .. Len(rhs) : Len(rhs) - k + 1 \in 1 .. Len(rhs)
    BY <1>1
  <1> QED BY <1>1, <1>2, <1>3

\* Popping values and pushing one with labels above L.
LEMMA Pushed ==
  ASSUME stack \in Seq(Entry), NEW L, AllAbove(stack, L), NEW k \in 0 .. Len(stack),
         \A j \in 1 .. k : Val(j).sym # "m2",
         NEW e, e.sym # "m2", High(Open(e), L), e.label = 0 \/ e.label > L, Reduce(k, e)
  PROVE  AllAbove(stack', L) /\ Bottom
  <1> DEFINE n == Len(stack) - k
             r == SubSeq(stack, 1, n)
  <1>1. n \in Nat /\ n <= Len(stack) /\ Len(stack) \in Nat /\ DOMAIN stack = 1 .. Len(stack)
    OBVIOUS
  <1>k. k = Len(stack) - n
    BY <1>1
  <1>2. r \in Seq(Entry) /\ Len(r) = n /\ \A i \in 1 .. n : r[i] = stack[i]
    <2> HIDE DEF n
    <2> QED BY <1>1
  <1>3. stack' = Append(r, e)
    BY DEF Reduce
  <1> HIDE DEF r
  <1>4. /\ Len(stack') = n + 1 /\ DOMAIN stack' = 1 .. n + 1 /\ stack'[n + 1] = e
        /\ \A i \in 1 .. n : stack'[i] = stack[i]
    BY <1>1, <1>2, <1>3
  <1> HIDE DEF n
  <1>5. Above(e, L)
    BY DEF Above, High
  <1>6. AllAbove(stack', L)
    <2> SUFFICES ASSUME NEW i \in 1 .. n + 1 PROVE Above(stack'[i], L)
      BY <1>4 DEF AllAbove
    <2>1. CASE i = n + 1
      BY <1>4, <1>5, <2>1
    <2>2. CASE i \in 1 .. n
      BY <1>1, <1>4, <2>2 DEF AllAbove
    <2> QED BY <1>1, <2>1, <2>2
  <1>7. stack' # <<>>
    BY <1>1, <1>4
  <1>8. CASE n = 0
    <2>1. stack'[1] = e
      BY <1>4, <1>8
    <2>2. stack # <<>> => stack[1].sym # "m2"
      <3> SUFFICES ASSUME stack # <<>> PROVE stack[1].sym # "m2"
        OBVIOUS
      <3>1. Len(stack) \in 1 .. k /\ Len(stack) - Len(stack) + 1 = 1
        BY <1>1, <1>8, <1>k
      <3> QED BY <3>1 DEF Val
    <2> QED BY <1>6, <1>7, <2>1, <2>2 DEF Bottom
  <1>9. CASE n # 0
    <2>1. stack # <<>> /\ stack'[1] = stack[1]
      BY <1>1, <1>4, <1>9
    <2> QED BY <1>6, <1>7, <2>1 DEF Bottom
  <1> QED BY <1>8, <1>9

\* A shift.
LEMMA PushedShift ==
  ASSUME stack \in Seq(Entry), NEW L, AllAbove(stack, L),
         NEW e, e.sym # "m2", High(Open(e), L), e.label = 0 \/ e.label > L, Shift(e)
  PROVE  AllAbove(stack', L) /\ Bottom
  <1>1. Reduce(0, e)
    BY ShiftReduces
  <1>2. 0 \in 0 .. Len(stack) /\ \A j \in 1 .. 0 : Val(j).sym # "m2"
    BY LenProperties
  <1> QED BY <1>1, <1>2, Pushed

\* The values the rules build have the labels they are given.
LEMMA PlainHigh ==
  ASSUME NEW L, NEW s
  PROVE  Plain(s).sym = s /\ Plain(s).label = 0 /\ High(Open(Plain(s)), L)
  BY DEF Plain, Open, High

\* A marker.
LEMMA MarkerHigh ==
  ASSUME NEW L, NEW s, NEW l, NEW d, High(d, L)
  PROVE  /\ Marker(s, l, d).sym = s /\ Marker(s, l, d).label = l
         /\ High(Open(Marker(s, l, d)), L)
  BY DEF Marker, Open, High

\* A condition.
LEMMA BoolHigh ==
  ASSUME NEW L, NEW s, NEW t, NEW f, High(t, L), High(f, L)
  PROVE  Bool(s, t, f).sym = s /\ Bool(s, t, f).label = 0 /\ High(Open(Bool(s, t, f)), L)
  BY DEF Bool, Open, High

\* A statement.
LEMMA StmtHigh ==
  ASSUME NEW L, NEW s, NEW n, NEW r, High(n, L), High(r, L)
  PROVE  Stmt(s, n, r).sym = s /\ Stmt(s, n, r).label = 0 /\ High(Open(Stmt(s, n, r)), L)
  BY DEF Stmt, Open, High

\* ---- every rule but M2, Function and MainFunction ---------------------------------------

\* What a rule starts from when the labels of the code it may change are above L.
From(L, calls) == Grown(emit, emit, L, calls) /\ AllAbove(stack, L)

\* What it ends with.
Keeps(L, calls) == Grown(emit, emit', L, calls) /\ AllAbove(stack', L) /\ Bottom

\* Shifts of tokens and markers without labels.
LEMMA KeepsShifts ==
  ASSUME TypeInv, NEW L, NEW calls, From(L, calls),
         FuncHeader \/ NoFunction \/ M4 \/ ShiftBool \/ ShiftCntrl
  PROVE  Keeps(L, calls)
  <1>t. stack \in Seq(Entry)
    BY DEF TypeInv, TypeOK
  <1>1. \E s \in {"func_arg", "function", "m4", "NOT", "LPAREN", "IF", "FOR", "WHILE"} :
          Shift(Plain(s))
    BY DEF FuncHeader, NoFunction, M4, ShiftBool, ShiftCntrl
  <1>2. AllAbove(stack', L) /\ Bottom
    BY <1>t, <1>1, PlainHigh, PushedShift DEF From
  <1>3. CASE M4
    <2> DEFINE one == Emit(emit, Inst("COPYI", 0, 0))
    <2>1. emit' = Emit(one, Inst("COPYI", 0, 0))
      BY <1>3 DEF M4, Continue
    <2>2. Grown(emit, one, L, calls)
      BY GrownPlain DEF From
    <2> HIDE DEF one
    <2>3. Grown(emit, emit', L, calls)
      BY <2>1, <2>2, GrownPlain
    <2> QED BY <1>2, <2>3 DEF Keeps
  <1>4. CASE ~M4
    <2>1. emit' = emit
      BY <1>4 DEF FuncHeader, NoFunction, ShiftBool, ShiftCntrl
    <2> QED BY <1>2, <2>1 DEF Keeps, From
  <1> QED BY <1>3, <1>4

\* A unit production, with or without brackets.
LEMMA PushedAs ==
  ASSUME stack \in Seq(Entry), NEW L, AllAbove(stack, L), NEW k \in 1 .. Len(stack),
         \A j \in 1 .. k : Val(j).sym # "m2",
         NEW s, s # "m2", Reduce(k, As(s, Val(1)))
  PROVE  AllAbove(stack', L) /\ Bottom
  <1> DEFINE V == Val(1)
             e == As(s, V)
  <1>0. 1 \in 1 .. Len(stack) /\ 1 \in 1 .. k /\ k \in 0 .. Len(stack) /\ Reduce(k, e)
    OBVIOUS
  <1>1. /\ High(V.nextlist, L) /\ High(V.retlist, L) /\ High(V.truelist, L)
        /\ High(V.falselist, L) /\ High(V.dest, L) /\ (V.label = 0 \/ V.label > L)
    BY <1>0, TopHigh
  <1>2. V \in Entry
    BY <1>0, ValType
  <1> HIDE DEF V
  <1>3. /\ e.sym = s /\ e.label = V.label /\ e.nextlist = V.nextlist /\ e.retlist = V.retlist
        /\ e.truelist = V.truelist /\ e.falselist = V.falselist /\ e.dest = V.dest
    BY <1>2 DEF As, Entry
  <1> HIDE DEF e
  <1>4. High(Open(e), L)
    BY <1>1, <1>3 DEF High, Open
  <1> QED BY <1>0, <1>1, <1>3, <1>4, Pushed

\* Unit productions, brackets and NOT.
LEMMA KeepsUnits ==
  ASSUME TypeInv, NEW L, NEW calls, From(L, calls),
         CloseBlk \/ StmtUnit \/ BoolUnit \/ Paren \/ Not
  PROVE  Keeps(L, calls)
  <1>t. stack \in Seq(Entry) /\ Len(stack) \in Nat /\ AllAbove(stack, L)
    BY LenProperties DEF TypeInv, TypeOK, From
  <1>1. emit' = emit
    BY DEF CloseBlk, StmtUnit, BoolUnit, Paren, Not
  <1>2. CASE CloseBlk \/ Paren
    <2>1. /\ OnTop(<<"m0", "list">>) \/ OnTop(<<"LPAREN", "bexp">>)
          /\ \E s \in {"blk", "bpfac"} : Reduce(2, As(s, Val(1)))
      BY <1>2 DEF CloseBlk, Paren
    <2>2. 2 \in 1 .. Len(stack) /\ \A j \in 1 .. 2 : Val(j).sym # "m2"
      BY <1>t, <2>1 DEF OnTop, Val
    <2>3. AllAbove(stack', L) /\ Bottom
      BY <1>t, <2>1, <2>2, PushedAs
    <2> QED BY <1>1, <2>3 DEF Keeps, From
  <1>3. CASE StmtUnit \/ BoolUnit
    <2>1. PICK s \in {"stmt", "bfac", "bterm", "bexp"} : Reduce(1, As(s, Val(1)))
      BY <1>3 DEF StmtUnit, BoolUnit
    <2>2. 1 \in 1 .. Len(stack) /\ \A j \in 1 .. 1 : Val(j).sym # "m2"
      <3>1. CASE StmtUnit
        <4>1. PICK t \in {"assn", "cntrl", "return", "blk"}, c \in StmtContext : OnTop(<<c, t>>)
          BY <3>1 DEF StmtUnit
        <4> QED BY <1>t, <4>1 DEF OnTop, Val
      <3>2. CASE BoolUnit
        <4>1. OnTop(<<"bpfac">>) \/ OnTop(<<"bfac">>) \/ OnTop(<<"bterm">>)
          BY <3>2 DEF BoolUnit
        <4> QED BY <1>t, <4>1 DEF OnTop, Val
      <3> QED BY <1>3, <3>1, <3>2
    <2>3. AllAbove(stack', L) /\ Bottom
      BY <1>t, <2>1, <2>2, PushedAs
    <2> QED BY <1>1, <2>3 DEF Keeps, From
  <1>4. CASE Not
    <2>1. OnTop(<<"NOT", "bfac">>) /\ Reduce(2, Bool("bfac", Val(1).falselist, Val(1).truelist))
      BY <1>4 DEF Not
    <2>2. 2 \in 0 .. Len(stack) /\ 1 \in 1 .. Len(stack) /\ \A j \in 1 .. 2 : Val(j).sym # "m2"
      BY <1>t, <2>1 DEF OnTop, Val
    <2>3. High(Val(1).falselist, L) /\ High(Val(1).truelist, L)
      BY <1>t, <2>2, TopHigh
    <2>4. AllAbove(stack', L) /\ Bottom
      BY <1>t, <2>1, <2>2, <2>3, BoolHigh, Pushed, ZenonT(60)
    <2> QED BY <1>1, <2>4 DEF Keeps, From
  <1> QED BY <1>2, <1>3, <1>4

\* AND and OR.
LEMMA KeepsJoin ==
  ASSUME TypeInv, NEW L, NEW calls, From(L, calls), And \/ Or
  PROVE  Keeps(L, calls)
  <1> DEFINE V == Val(1)
             W == Val(3)
             l == Val(2).label
  <1>t. stack \in Seq(Entry) /\ Len(stack) \in Nat /\ AllAbove(stack, L)
    BY LenProperties DEF TypeInv, TypeOK, From
  <1>1. OnTop(<<"bterm", "m1.and", "bfac">>) \/ OnTop(<<"bexp", "m1.or", "bterm">>)
    BY DEF And, Or
  <1>2. 3 \in 0 .. Len(stack) /\ \A j \in 1 .. 3 : j \in 1 .. Len(stack) /\ Val(j).sym # "m2"
    BY <1>t, <1>1 DEF OnTop, Val
  <1>3. \E s \in {"bterm", "bexp"}, t \in {V.truelist, W.truelist \cup V.truelist},
           f \in {W.falselist \cup V.falselist, V.falselist},
           P \in {W.truelist, W.falselist} :
             /\ Reduce(3, Bool(s, t, f))
             /\ Continue(Backpatch(emit, P, l))
    BY DEF And, Or
  <1>4. /\ High(V.truelist, L) /\ High(V.falselist, L) /\ High(W.truelist, L)
        /\ High(W.falselist, L) /\ l \in Nat /\ (l = 0 \/ l > L)
    <2>1. 1 \in 1 .. 3 /\ 2 \in 1 .. 3 /\ 3 \in 1 .. 3
      OBVIOUS
    <2> QED BY <1>t, <1>2, <2>1, TopHigh
  <1> HIDE DEF V, W, l
  <1>5. PICK s, t, f, P :
             /\ s \in {"bterm", "bexp"} /\ High(t, L) /\ High(f, L) /\ High(P, L)
             /\ Reduce(3, Bool(s, t, f)) /\ emit' = Backpatch(emit, P, l)
    BY <1>3, <1>4 DEF High, Continue
  <1>6. Grown(emit, emit', L, calls)
    BY <1>4, <1>5, GrownBackpatch DEF From, High
  <1>7. AllAbove(stack', L) /\ Bottom
    BY <1>t, <1>2, <1>5, BoolHigh, Pushed
  <1> QED BY <1>6, <1>7 DEF Keeps

\* Markers m1 and m5.
LEMMA KeepsMarkers ==
  ASSUME TypeInv, NEW L, NEW calls, From(L, calls), M1 \/ M5
  PROVE  Keeps(L, calls)
  <1> DEFINE l == FreshLabel(emit)
  <1>t. stack \in Seq(Entry) /\ AllAbove(stack, L)
    BY DEF TypeInv, TypeOK, From
  <1>1. /\ Grown(emit, Mark(emit), L, calls) /\ Grown(emit, JumpFresh(emit), L, calls)
        /\ l > L /\ l \in Nat
    BY GrownMark DEF From
  <1>2. High({}, L) /\ High({l}, L)
    BY <1>1 DEF High
  <1>3. CASE M1
    <2>1. PICK site \in M1Sites : Shift(Marker(site[2], l, {}))
      BY <1>3 DEF M1, ActiveSites
    <2>2. site[2] # "m2" /\ emit' = Mark(emit)
      BY <1>3, <2>1 DEF M1Sites, M1, Continue
    <2>3. AllAbove(stack', L) /\ Bottom
      BY <1>t, <1>1, <1>2, <2>1, <2>2, MarkerHigh, PushedShift, SMTT(30)
    <2> QED BY <1>1, <2>2, <2>3 DEF Keeps
  <1>4. CASE M5
    <2>1. PICK s \in {"m5.else", "m5.for"} : Shift(Marker(s, 0, {l}))
      BY <1>4 DEF M5
    <2>2. emit' = JumpFresh(emit)
      BY <1>4 DEF M5, Continue
    <2>3. AllAbove(stack', L) /\ Bottom
      BY <1>t, <1>1, <1>2, <2>1, MarkerHigh, PushedShift
    <2> QED BY <1>1, <2>2, <2>3 DEF Keeps
  <1> QED BY <1>3, <1>4

\* Marker m6 labels the place between two statements, if it must.
LEMMA KeepsM6 ==
  ASSUME TypeInv, NEW L, NEW calls, From(L, calls), M6
  PROVE  Keeps(L, calls)
  <1> DEFINE l == FreshLabel(emit)
  <1>t. stack \in Seq(Entry) /\ AllAbove(stack, L)
    BY DEF TypeInv, TypeOK, From
  <1>1. Grown(emit, Mark(emit), L, calls) /\ l > L /\ l \in Nat
    BY GrownMark DEF From
  <1>2. High({}, L)
    BY DEF High
  <1>3. CASE stmt_has_nextlist
    <2>1. emit' = Mark(emit) /\ Shift(Marker("m6", l, {}))
      BY <1>3 DEF M6, Continue
    <2>2. AllAbove(stack', L) /\ Bottom
      BY <1>t, <1>1, <1>2, <2>1, MarkerHigh, PushedShift
    <2> QED BY <1>1, <2>1, <2>2 DEF Keeps
  <1>4. CASE ~stmt_has_nextlist
    <2>1. emit' = emit /\ Shift(Plain("m6"))
      BY <1>4 DEF M6
    <2>2. AllAbove(stack', L) /\ Bottom
      BY <1>t, <2>1, PlainHigh, PushedShift
    <2> QED BY <2>1, <2>2 DEF Keeps, From
  <1> QED BY <1>3, <1>4

\* A statement joins its list.
LEMMA KeepsReduceList ==
  ASSUME TypeInv, NEW L, NEW calls, From(L, calls), ReduceList
  PROVE  Keeps(L, calls)
  <1> DEFINE P == Val(3).nextlist
             l == Val(2).label
             n == Val(1).nextlist
             r == Val(3).retlist \cup Val(1).retlist
  <1>t. stack \in Seq(Entry) /\ Len(stack) \in Nat /\ AllAbove(stack, L)
    BY LenProperties DEF TypeInv, TypeOK, From
  <1>1. /\ OnTop(<<"list", "m6", "stmt">>) /\ Reduce(3, Stmt("list", n, r))
        /\ emit' = BackpatchIfAny(emit, P, l)
    BY DEF ReduceList, Continue
  <1>2. 3 \in 0 .. Len(stack) /\ \A j \in 1 .. 3 : j \in 1 .. Len(stack) /\ Val(j).sym # "m2"
    BY <1>t, <1>1 DEF OnTop, Val
  <1>3. High(P, L) /\ High(n, L) /\ High(r, L) /\ l \in Nat /\ (l = 0 \/ l > L)
    <2>1. 1 \in 1 .. 3 /\ 2 \in 1 .. 3 /\ 3 \in 1 .. 3
      OBVIOUS
    <2>2. High(P, L) /\ High(n, L) /\ l \in Nat /\ (l = 0 \/ l > L)
      BY <1>t, <1>2, <2>1, TopHigh
    <2>3. High(Val(3).retlist, L) /\ High(Val(1).retlist, L)
      BY <1>t, <1>2, <2>1, TopHigh
    <2> QED BY <2>2, <2>3 DEF High
  <1> HIDE DEF P, l, n, r
  <1>4. Grown(emit, emit', L, calls)
    BY <1>1, <1>3, GrownBackpatch DEF From, High
  <1>5. AllAbove(stack', L) /\ Bottom
    BY <1>t, <1>1, <1>2, <1>3, StmtHigh, Pushed
  <1> QED BY <1>4, <1>5 DEF Keeps

\* The function's arguments, if a block opens its body.
LEMMA KeepsOpenBlk ==
  ASSUME TypeInv, NEW L, NEW calls, From(L, calls), OpenBlk
  PROVE  Keeps(L, calls)
  <1> DEFINE one == Emit(emit, Inst("LOADI", 0, 0))
             e == Plain("m0")
             f == Plain("list")
             s == Append(stack, e)
  <1>t. stack \in Seq(Entry) /\ Len(stack) \in Nat /\ AllAbove(stack, L)
    BY LenProperties DEF TypeInv, TypeOK, From
  <1>1. emit' = emit \/ emit' = Emit(one, Inst("LOADI", 0, 0))
    BY DEF OpenBlk, Continue
  <1>2. stack' = Append(s, f)
    BY DEF OpenBlk
  <1>3. Grown(emit, one, L, calls)
    BY GrownPlain DEF From
  <1> HIDE DEF one
  <1>4. Grown(emit, emit', L, calls)
    BY <1>1, <1>3, GrownPlain DEF From
  <1>5. Above(e, L) /\ Above(f, L) /\ e \in Entry /\ e.sym = "m0"
    BY PlainHigh, PlainType DEF Above, High, Symbols
  <1> HIDE DEF e, f
  <1>6. /\ s \in Seq(Entry) /\ Len(s) = Len(stack) + 1 /\ s[Len(stack) + 1] = e
        /\ \A i \in 1 .. Len(stack) : s[i] = stack[i]
    BY <1>t, <1>5
  <1> HIDE DEF s
  <1>7. /\ Len(stack') = Len(stack) + 2 /\ stack'[Len(stack) + 2] = f
        /\ DOMAIN stack' = 1 .. Len(stack) + 2
        /\ \A i \in 1 .. Len(stack) + 1 : stack'[i] = s[i]
    BY <1>t, <1>2, <1>6
  <1>8. stack'[Len(stack) + 1] = e /\ \A i \in 1 .. Len(stack) : stack'[i] = stack[i]
    BY <1>t, <1>6, <1>7
  <1>9. AllAbove(stack', L)
    <2> SUFFICES ASSUME NEW i \in 1 .. Len(stack) + 2 PROVE Above(stack'[i], L)
      BY <1>7 DEF AllAbove
    <2>1. CASE i \in 1 .. Len(stack)
      BY <1>t, <1>8, <2>1 DEF AllAbove
    <2>2. CASE i = Len(stack) + 1 \/ i = Len(stack) + 2
      BY <1>5, <1>7, <1>8, <2>2
    <2> QED BY <1>t, <2>1, <2>2
  <1>10. Bottom
    <2>1. stack' # <<>>
      BY <1>t, <1>7
    <2>2. CASE Len(stack) = 0
      <3>1. stack = <<>> /\ stack'[1].sym # "m2"
        BY <1>t, <1>5, <1>8, <2>2
      <3> QED BY <2>1, <3>1 DEF Bottom
    <2>3. CASE Len(stack) # 0
      <3>1. stack # <<>> /\ stack'[1] = stack[1]
        BY <1>t, <1>8, <2>3
      <3> QED BY <2>1, <3>1 DEF Bottom
    <2> QED BY <2>2, <2>3
  <1> QED BY <1>4, <1>9, <1>10 DEF Keeps

\* Assignments, returns and comparisons may call.
LEMMA KeepsOperation ==
  ASSUME TypeInv, NEW L, NEW calls, From(L, calls), NEW e, e = "call" => calls, Operation(e)
  PROVE  Keeps(L, calls)
  <1>t. /\ stack \in Seq(Entry) /\ AllAbove(stack, L) /\ size \in Nat
        /\ Grown(emit, emit, L, calls)
    BY DEF TypeInv, TypeOK, From
  <1>h. High({}, L)
    BY DEF High
  <1>1. CASE Assn(e)
    <2> DEFINE one == EmitExp(emit, e)
    <2>1. emit' = Emit(one, Inst("OP", 0, size)) /\ Shift(Plain("assn"))
      BY <1>1 DEF Assn, Continue
    <2>2. Grown(emit, one, L, calls)
      BY <1>t, GrownExp
    <2> HIDE DEF one
    <2>3. Grown(emit, emit', L, calls)
      BY <1>t, <2>1, <2>2, GrownPlain
    <2>4. AllAbove(stack', L) /\ Bottom
      BY <1>t, <2>1, PlainHigh, PushedShift
    <2> QED BY <2>3, <2>4 DEF Keeps
  <1>2. CASE Return(e)
    <2> DEFINE one == EmitExp(emit, e)
               stored == Emit(one, Inst("OP", 0, size))
               l == FreshLabel(stored)
    <2>1. emit' = JumpFresh(stored) /\ Shift(Stmt("return", {}, {l}))
      BY <1>2 DEF Return, Continue
    <2>2. Grown(emit, one, L, calls)
      BY <1>t, GrownExp
    <2> HIDE DEF one
    <2>3. Grown(emit, stored, L, calls)
      BY <1>t, <2>2, GrownPlain
    <2> HIDE DEF stored
    <2>4. Grown(emit, emit', L, calls) /\ l > L
      BY <2>1, <2>3, GrownMark
    <2>5. High({l}, L)
      BY <2>4 DEF High
    <2>6. AllAbove(stack', L) /\ Bottom
      BY <1>t, <1>h, <2>1, <2>5, StmtHigh, PushedShift
    <2> QED BY <2>4, <2>6 DEF Keeps
  <1>3. CASE \E inverse \in {FALSE} \cup {"INVERSE" \in Tokens} : RelOp(e, inverse)
    <2> DEFINE t == FreshLabel(emit)
               f == t + 1
               zero == NewLabel(emit)
               one == NewLabel(zero)
               two == EmitExp(one, e)
               cmpS == Emit(two, Inst("CMP", 0, size))
               cmpN == Emit(two, Inst("CMPN", 0, size))
               brS == Emit(cmpS, Inst("BREQZ", f, 0))
               brN == Emit(cmpN, Inst("BNEQZ", t, 0))
    <2>1. \/ emit' = Ujump(brN, f) /\ Shift(Bool("bpfac", {f}, {t}))
          \/ emit' = Ujump(brS, t) /\ Shift(Bool("bpfac", {t}, {f}))
      BY <1>3 DEF RelOp, Continue
    <2>2. Grown(emit, zero, L, calls) /\ t > L /\ t \in Nat
      BY <1>t, GrownNewLabel
    <2>3. L \in Nat
      BY <1>t, BlockType DEF Grown
    <2> HIDE DEF t, zero
    <2>4. Grown(emit, one, L, calls)
      BY <2>2, GrownNewLabel
    <2>5. f \in Nat /\ f > L /\ High({f}, L) /\ High({t}, L)
      BY <2>2, <2>3 DEF High
    <2> HIDE DEF one, f
    <2>6. Grown(emit, two, L, calls)
      BY <1>t, <2>4, GrownExp
    <2> HIDE DEF two
    <2>7. Grown(emit, cmpS, L, calls) /\ Grown(emit, cmpN, L, calls)
      BY <1>t, <2>6, GrownPlain
    <2> HIDE DEF cmpS, cmpN
    <2>8. "BREQZ" \in JumpOps /\ "BNEQZ" \in JumpOps /\ "UJUMP" \in JumpOps
      BY DEF JumpOps
    <2>9. Grown(emit, brS, L, calls) /\ Grown(emit, brN, L, calls)
      BY <2>2, <2>5, <2>7, <2>8, GrownJump
    <2> HIDE DEF brS, brN
    <2>10. Grown(emit, Ujump(brN, f), L, calls) /\ Grown(emit, Ujump(brS, t), L, calls)
      BY <2>2, <2>5, <2>8, <2>9, GrownJump DEF Ujump
    <2>11. PICK p, q : High(p, L) /\ High(q, L) /\ Shift(Bool("bpfac", p, q))
      BY <2>1, <2>5
    <2>12. AllAbove(stack', L) /\ Bottom
      BY <1>t, <2>11, BoolHigh, PushedShift
    <2> QED BY <2>1, <2>10, <2>12 DEF Keeps
  <1> QED BY <1>1, <1>2, <1>3 DEF Operation

\* ---- control statements --------------------------------------------------------------

\* The labels of a value are above L.
Tall(v, L) ==
  /\ High(v.nextlist, L) /\ High(v.retlist, L) /\ High(v.truelist, L)
  /\ High(v.falselist, L) /\ High(v.dest, L)
  /\ v.label \in Nat /\ (v.label = 0 \/ v.label > L)

\* All the values of a right-hand side.
LEMMA TopTall ==
  ASSUME TypeInv, NEW L, NEW calls, From(L, calls), NEW n \in 1 .. Len(stack),
         \A j \in 1 .. n : Val(j).sym # "m2"
  PROVE  \A j \in 1 .. n : Tall(Val(j), L)
  <1>t. stack \in Seq(Entry) /\ Len(stack) \in Nat /\ AllAbove(stack, L)
    BY LenProperties DEF TypeInv, TypeOK, From
  <1> SUFFICES ASSUME NEW j \in 1 .. n PROVE Tall(Val(j), L)
    OBVIOUS
  <1>1. j \in 1 .. Len(stack) /\ Val(j).sym # "m2"
    BY <1>t
  <1>2. /\ High(Val(j).nextlist, L) /\ High(Val(j).retlist, L) /\ High(Val(j).truelist, L)
        /\ High(Val(j).falselist, L) /\ High(Val(j).dest, L)
        /\ Val(j).label = 0 \/ Val(j).label > L
        /\ Val(j).label \in Nat
    BY <1>t, <1>1, TopHigh
  <1> QED BY <1>2 DEF Tall

\* Lists are merged.
LEMMA HighUnion ==
  ASSUME NEW P, NEW Q, NEW L, High(P, L), High(Q, L)
  PROVE  High(P \cup Q, L)
  BY DEF High

\* The statement replaces its parts.
LEMMA KeepsReduced ==
  ASSUME TypeInv, NEW L, NEW calls, From(L, calls), NEW n \in 1 .. Len(stack),
         \A j \in 1 .. n : Val(j).sym # "m2",
         NEW p, NEW q, High(p, L), High(q, L), Reduce(n, Stmt("cntrl", p, q)),
         Grown(emit, emit', L, calls)
  PROVE  Keeps(L, calls)
  <1>t. stack \in Seq(Entry) /\ Len(stack) \in Nat /\ AllAbove(stack, L) /\ n \in 0 .. Len(stack)
    BY LenProperties DEF TypeInv, TypeOK, From
  <1>1. AllAbove(stack', L) /\ Bottom
    BY <1>t, StmtHigh, Pushed, SMTT(30)
  <1> QED BY <1>1 DEF Keeps

\* IF with ELSE.
LEMMA KeepsIfElse ==
  ASSUME TypeInv, NEW L, NEW calls, From(L, calls), IfElse
  PROVE  Keeps(L, calls)
  <1> DEFINE bexp == Val(6)
             then == Val(5)
             stmt == Val(4)
             m5 == Val(3)
             else == Val(2)
             last == Val(1)
             first == Backpatch(emit, bexp.truelist, then.label)
             patched == Backpatch(first, bexp.falselist, else.label)
             P == m5.dest \cup stmt.nextlist \cup EnforcedList(patched, last.nextlist)
  <1>t. stack \in Seq(Entry) /\ Len(stack) \in Nat
    BY LenProperties DEF TypeInv, TypeOK
  <1>1. /\ OnTop(<<"IF", "bexp", "m1.then", "stmt", "m5.else", "m1.else", "stmt">>)
        /\ emit' = Enforced(patched, last.nextlist)
        /\ Reduce(7, Stmt("cntrl", P, stmt.retlist \cup last.retlist))
    BY DEF IfElse, Continue
  <1>2. 7 \in 1 .. Len(stack) /\ \A j \in 1 .. 7 : Val(j).sym # "m2"
    BY <1>t, <1>1, SMTT(30) DEF OnTop, Val
  <1>3. \A j \in 1 .. 7 : Tall(Val(j), L)
    BY <1>2, TopTall
  <1>4. /\ Tall(bexp, L) /\ Tall(then, L) /\ Tall(stmt, L) /\ Tall(m5, L) /\ Tall(else, L)
        /\ Tall(last, L)
    BY <1>3
  <1> HIDE DEF bexp, then, stmt, m5, else, last
  <1>5. Grown(emit, first, L, calls)
    BY <1>4, GrownBackpatch DEF From, Tall, High
  <1> HIDE DEF first
  <1>6. Grown(emit, patched, L, calls)
    BY <1>4, <1>5, GrownBackpatch DEF Tall, High
  <1> HIDE DEF patched
  <1>7. Grown(emit, emit', L, calls) /\ High(EnforcedList(patched, last.nextlist), L)
    BY <1>1, <1>4, <1>6, GrownEnforced DEF Tall, High
  <1>8. High(P, L) /\ High(stmt.retlist \cup last.retlist, L)
    BY <1>4, <1>7, HighUnion DEF Tall
  <1> HIDE DEF P
  <1> QED BY <1>1, <1>2, <1>7, <1>8, KeepsReduced

\* IF without ELSE.
LEMMA KeepsIfThen ==
  ASSUME TypeInv, NEW L, NEW calls, From(L, calls), IfThen
  PROVE  Keeps(L, calls)
  <1> DEFINE bexp == Val(3)
             then == Val(2)
             last == Val(1)
             patched == Backpatch(emit, bexp.truelist, then.label)
             P == bexp.falselist \cup EnforcedList(patched, last.nextlist)
  <1>t. stack \in Seq(Entry) /\ Len(stack) \in Nat
    BY LenProperties DEF TypeInv, TypeOK
  <1>1. /\ OnTop(<<"IF", "bexp", "m1.then", "stmt">>)
        /\ emit' = Enforced(patched, last.nextlist)
        /\ Reduce(4, Stmt("cntrl", P, last.retlist))
    BY DEF IfThen, Continue
  <1>2. 4 \in 1 .. Len(stack) /\ \A j \in 1 .. 4 : Val(j).sym # "m2"
    BY <1>t, <1>1 DEF OnTop, Val
  <1>3. \A j \in 1 .. 4 : Tall(Val(j), L)
    BY <1>2, TopTall
  <1>4. Tall(bexp, L) /\ Tall(then, L) /\ Tall(last, L)
    BY <1>3
  <1> HIDE DEF bexp, then, last
  <1>5. Grown(emit, patched, L, calls)
    BY <1>4, GrownBackpatch DEF From, Tall, High
  <1> HIDE DEF patched
  <1>6. Grown(emit, emit', L, calls) /\ High(EnforcedList(patched, last.nextlist), L)
    BY <1>1, <1>4, <1>5, GrownEnforced DEF Tall, High
  <1>7. High(P, L) /\ High(last.retlist, L)
    BY <1>4, <1>6, HighUnion DEF Tall
  <1> HIDE DEF P
  <1> QED BY <1>1, <1>2, <1>6, <1>7, KeepsReduced

\* FOR.
LEMMA KeepsFor ==
  ASSUME TypeInv, NEW L, NEW calls, From(L, calls), For
  PROVE  Keeps(L, calls)
  <1> DEFINE init == Val(8)
             cond == Val(7)
             bexp == Val(6)
             m1u == Val(5)
             update == Val(4)
             m5 == Val(3)
             m1b == Val(2)
             last == Val(1)
             first == BackpatchIfAny(emit, init.nextlist, cond.label)
             entered == Backpatch(first, bexp.truelist, m1b.label)
             forced == Enforced(entered, last.nextlist)
             P == EnforcedList(entered, last.nextlist)
             looped == Backpatch(forced, P, m1u.label)
             Q == m5.dest \cup update.nextlist
             R == init.retlist \cup update.retlist \cup last.retlist
  <1>t. stack \in Seq(Entry) /\ Len(stack) \in Nat
    BY LenProperties DEF TypeInv, TypeOK
  <1>1. /\ OnTop(<<"FOR", "stmt", "m1.cond", "bexp", "m1.update", "stmt", "m5.for", "m1.body", "stmt">>)
        /\ emit' = Backpatch(looped, Q, cond.label)
        /\ Reduce(9, Stmt("cntrl", bexp.falselist, R))
    BY DEF For, Continue
  <1>2. 9 \in 1 .. Len(stack) /\ \A j \in 1 .. 9 : Val(j).sym # "m2"
    <2> DEFINE rhs == <<"FOR", "stmt", "m1.cond", "bexp", "m1.update", "stmt", "m5.for",
                        "m1.body", "stmt">>
    <2>1. rhs \in Seq(Symbols \ {"m2"}) /\ Len(rhs) = 9
      BY DEF Symbols
    <2>2. OnTop(rhs)
      BY <1>1
    <2> HIDE DEF rhs
    <2>3. /\ Len(rhs) \in 0 .. Len(stack)
          /\ \A k \in 1 .. Len(rhs) : k \in 1 .. Len(stack) /\ Val(k).sym # "m2"
      BY <1>t, <2>1, <2>2, TopSymbols
    <2> QED BY <1>t, <2>1, <2>3
  <1>3. \A j \in 1 .. 9 : Tall(Val(j), L)
    BY <1>2, TopTall
  <1>4. /\ Tall(init, L) /\ Tall(cond, L) /\ Tall(bexp, L) /\ Tall(m1u, L) /\ Tall(update, L)
        /\ Tall(m5, L) /\ Tall(m1b, L) /\ Tall(last, L)
    BY <1>3
  <1> HIDE DEF init, cond, bexp, m1u, update, m5, m1b, last
  <1>5. Grown(emit, first, L, calls)
    BY <1>4, GrownBackpatch DEF From, Tall, High
  <1> HIDE DEF first
  <1>6. Grown(emit, entered, L, calls)
    BY <1>4, <1>5, GrownBackpatch DEF Tall, High
  <1> HIDE DEF entered
  <1>7. Grown(emit, forced, L, calls) /\ High(P, L)
    BY <1>4, <1>6, GrownEnforced DEF Tall, High
  <1> HIDE DEF forced, P
  <1>8. Grown(emit, looped, L, calls)
    BY <1>4, <1>7, GrownBackpatch DEF Tall, High
  <1> HIDE DEF looped
  <1>9. High(Q, L) /\ High(R, L) /\ High(bexp.falselist, L)
    BY <1>4, HighUnion DEF Tall
  <1> HIDE DEF Q, R
  <1>10. Grown(emit, emit', L, calls)
    BY <1>1, <1>4, <1>8, <1>9, GrownBackpatch DEF Tall, High
  <1> QED BY <1>1, <1>2, <1>9, <1>10, KeepsReduced

\* WHILE.
LEMMA KeepsWhile ==
  ASSUME TypeInv, NEW L, NEW calls, From(L, calls), While
  PROVE  Keeps(L, calls)
  <1> DEFINE loop == Val(4)
             bexp == Val(3)
             do == Val(2)
             last == Val(1)
             entered == Backpatch(emit, bexp.truelist, do.label)
             forced == Enforced(entered, last.nextlist)
             P == EnforcedList(entered, last.nextlist)
  <1>t. stack \in Seq(Entry) /\ Len(stack) \in Nat
    BY LenProperties DEF TypeInv, TypeOK
  <1>1. /\ OnTop(<<"WHILE", "m1.loop", "bexp", "m1.do", "stmt">>)
        /\ emit' = Backpatch(forced, P, loop.label)
        /\ Reduce(5, Stmt("cntrl", bexp.falselist, last.retlist))
    BY DEF While, Continue
  <1>2. 5 \in 1 .. Len(stack) /\ \A j \in 1 .. 5 : Val(j).sym # "m2"
    BY <1>t, <1>1, SMTT(40) DEF OnTop, Val
  <1>3. \A j \in 1 .. 5 : Tall(Val(j), L)
    BY <1>2, TopTall
  <1>4. Tall(loop, L) /\ Tall(bexp, L) /\ Tall(do, L) /\ Tall(last, L)
    BY <1>3
  <1> HIDE DEF loop, bexp, do, last
  <1>5. Grown(emit, entered, L, calls)
    BY <1>4, GrownBackpatch DEF From, Tall, High
  <1> HIDE DEF entered
  <1>6. Grown(emit, forced, L, calls) /\ High(P, L)
    BY <1>4, <1>5, GrownEnforced DEF Tall, High
  <1> HIDE DEF forced, P
  <1>7. Grown(emit, emit', L, calls) /\ High(bexp.falselist, L) /\ High(last.retlist, L)
    BY <1>1, <1>4, <1>6, GrownBackpatch DEF Tall, High
  <1> QED BY <1>1, <1>2, <1>7, KeepsReduced

\* A step that is not about the function or the end of the program.
Ordinary(calls) ==
  \/ FuncHeader \/ NoFunction \/ M4 \/ OpenBlk \/ M6 \/ ReduceList \/ CloseBlk \/ StmtUnit
  \/ ShiftBool \/ BoolUnit \/ Paren \/ Not \/ And \/ Or
  \/ ShiftCntrl \/ M1 \/ M5 \/ IfElse \/ IfThen \/ For \/ While
  \/ \E e \in Exps : (e = "call" => calls) /\ Operation(e)

\* They keep the code growing, above the labels they started from.
LEMMA KeepsOrdinary ==
  ASSUME TypeInv, NEW L, NEW calls, From(L, calls), Ordinary(calls)
  PROVE  Keeps(L, calls)
  <1>1. CASE FuncHeader \/ NoFunction \/ M4 \/ ShiftBool \/ ShiftCntrl
    BY <1>1, KeepsShifts
  <1>2. CASE CloseBlk \/ StmtUnit \/ BoolUnit \/ Paren \/ Not
    BY <1>2, KeepsUnits
  <1>3. CASE And \/ Or
    BY <1>3, KeepsJoin
  <1>4. CASE M1 \/ M5
    BY <1>4, KeepsMarkers
  <1>5. CASE OpenBlk \/ M6 \/ ReduceList
    BY <1>5, KeepsOpenBlk, KeepsM6, KeepsReduceList
  <1>6. CASE IfElse \/ IfThen \/ For \/ While
    BY <1>6, KeepsIfElse, KeepsIfThen, KeepsFor, KeepsWhile
  <1>7. CASE \E e \in Exps : (e = "call" => calls) /\ Operation(e)
    BY <1>7, KeepsOperation
  <1> QED BY <1>1, <1>2, <1>3, <1>4, <1>5, <1>6, <1>7 DEF Ordinary

\* ---- the phases of the parse -----------------------------------------------------------

\* A body that grows is a body; what it may call it may go on calling.
LEMMA GrownBody ==
  ASSUME NEW a, NEW b, NEW S \in Nat, NEW L, NEW calls, NEW before, before => calls,
         Grown(a, b, L, calls), Body(a, S, Len(a.code), L, before)
  PROVE  Body(b, S, Len(b.code), L, calls)
  <1>1. a \in Block /\ b \in Block /\ Len(a.code) \in Nat /\ Len(b.code) \in Nat
    BY BlockType DEF Grown
  <1>2. ASSUME NEW p \in S + 1 .. Len(b.code) PROVE BodyInst(b.code[p], L, calls)
    <2>1. CASE p \in S + 1 .. Len(a.code)
      <3>1. BodyInst(a.code[p], L, before) /\ p \in 1 .. Len(a.code)
        BY <1>1, <2>1 DEF Body
      <3>2. b.code[p] = a.code[p]
        BY <3>1 DEF Grown
      <3> QED BY <3>1, <3>2 DEF BodyInst
    <2>2. CASE p \in Len(a.code) + 1 .. Len(b.code)
      BY <2>2 DEF Grown
    <2> QED BY <1>1, <2>1, <2>2
  <1> QED BY <1>2 DEF Body, Grown

\* A complete function stays as it is.
LEMMA GrownSealed ==
  ASSUME NEW a, NEW b, NEW S, NEW L, NEW calls, Grown(a, b, L, calls), Sealed(a, S, L)
  PROVE  Sealed(b, S, L)
  <1>1. /\ S \in 6 .. Len(a.code) /\ L \in 2 .. Len(a.next)
        /\ Len(a.code) \in Nat /\ Len(b.code) \in Nat /\ Len(a.next) \in Nat /\ Len(b.next) \in Nat
    BY BlockType DEF Grown, Sealed
  <1>2. S \in 6 .. Len(b.code) /\ L \in 2 .. Len(b.next)
    BY <1>1 DEF Grown
  <1>3. \A p \in 1 .. S : b.code[p] = a.code[p]
    BY <1>1 DEF Grown
  <1>4. \A l \in 1 .. L : b.next[l] = a.next[l]
    BY DEF Grown
  <1>5. /\ 1 \in 1 .. S /\ 2 \in 1 .. S /\ 3 \in 1 .. S /\ S - 2 \in 1 .. S /\ S - 1 \in 1 .. S
        /\ S \in 1 .. S /\ \A p \in 4 .. S - 3 : p \in 1 .. S
    BY <1>1
  <1>6. 1 \in 1 .. L /\ \A l \in 3 .. L : l \in 1 .. L
    BY <1>1
  <1> QED BY <1>2, <1>3, <1>4, <1>5, <1>6 DEF Sealed

\* An ordinary step does not end the compilation, and does not know of the function
\* before its header has been read; a call touches the link register.
LEMMA OrdinarySteps ==
  ASSUME TypeInv, Parsing, Ordinary(TRUE)
  PROVE  /\ status' # "done"
         /\ func' # func => OnTop(<<"m2">>) \/ func = "current"
         /\ lrTouched' \in BOOLEAN /\ (lrTouched => lrTouched')
         /\ Ordinary(lrTouched') /\ (func = "none" => Ordinary(FALSE))
  <1>t. lrTouched \in BOOLEAN /\ status = "parsing"
    BY DEF TypeInv, TypeOK, Parsing
  <1>1. CASE \E e \in Exps : Operation(e)
    <2>1. PICK e \in Exps : Operation(e)
      BY <1>1
    <2>2. /\ status' # "done" /\ UNCHANGED func
          /\ lrTouched' = (lrTouched \/ e = "call")
      BY <2>1 DEF Operation, Assn, Return, RelOp, TouchLR, Continue
    <2>3. func = "none" => e = "pure"
      BY DEF Exps
    <2>4. Ordinary(lrTouched')
      BY <2>1, <2>2 DEF Ordinary
    <2>5. func = "none" => Ordinary(FALSE)
      BY <2>1, <2>3 DEF Ordinary
    <2> QED BY <1>t, <2>2, <2>4, <2>5
  <1>2. CASE FuncHeader \/ NoFunction \/ M4 \/ OpenBlk \/ M6 \/ ReduceList \/ CloseBlk \/ StmtUnit
    <2>1. status' # "done" /\ UNCHANGED lrTouched
      BY <1>t, <1>2
      DEF FuncHeader, NoFunction, M4, OpenBlk, M6, ReduceList, CloseBlk, StmtUnit, Continue
    <2>2. func' # func => OnTop(<<"m2">>) \/ func = "current"
      BY <1>2 DEF FuncHeader, NoFunction, M4, OpenBlk, M6, ReduceList, CloseBlk, StmtUnit
    <2>3. Ordinary(lrTouched') /\ Ordinary(FALSE)
      BY <1>2 DEF Ordinary
    <2> QED BY <1>t, <2>1, <2>2, <2>3
  <1>3. CASE ShiftBool \/ BoolUnit \/ Paren \/ Not \/ And \/ Or \/ ShiftCntrl
    <2>1. status' # "done" /\ UNCHANGED <<func, lrTouched>>
      BY <1>t, <1>3 DEF ShiftBool, BoolUnit, Paren, Not, And, Or, ShiftCntrl, Continue
    <2>2. Ordinary(lrTouched') /\ Ordinary(FALSE)
      BY <1>3 DEF Ordinary
    <2> QED BY <1>t, <2>1, <2>2
  <1>4. CASE M1 \/ M5 \/ IfElse \/ IfThen \/ For \/ While
    <2>1. status' # "done" /\ UNCHANGED <<func, lrTouched>>
      BY <1>t, <1>4 DEF M1, M5, IfElse, IfThen, For, While, Continue
    <2>2. Ordinary(lrTouched') /\ Ordinary(FALSE)
      BY <1>4 DEF Ordinary
    <2> QED BY <1>t, <2>1, <2>2
  <1> QED BY <1>1, <1>2, <1>3, <1>4 DEF Ordinary

\* Marker m2 and the reduced function are nowhere but at the bottom of the stack.
LEMMA AtBottom ==
  ASSUME TypeInv, BackpatchInv, NEW k \in 1 .. Len(stack), Val(k).sym \in {"m2", "function"}
  PROVE  k = Len(stack) /\ stack # <<>> /\ Val(k) = stack[1]
  <1>1. stack \in Seq(Entry) /\ Len(stack) \in Nat
    BY LenProperties DEF TypeInv, TypeOK
  <1>2. Val(k) = stack[Len(stack) - k + 1] /\ Len(stack) - k + 1 \in DOMAIN stack
    BY <1>1, ValType
  <1>3. Len(stack) - k + 1 = 1
    BY <1>2 DEF BackpatchInv, StackInv
  <1> QED BY <1>1, <1>2, <1>3

\* Every label is positive.
LEMMA AllAboveNone ==
  ASSUME stack \in Seq(Entry)
  PROVE  AllAbove(stack, 0)
  <1> SUFFICES ASSUME NEW i \in DOMAIN stack, NEW l \in Open(stack[i]) \cup {stack[i].label}
               PROVE  l = 0 \/ l > 0
    BY DEF AllAbove, Above
  <1>1. stack[i] \in Entry
    OBVIOUS
  <1>2. Open(stack[i]) \in SUBSET Nat /\ stack[i].label \in Nat
    BY <1>1 DEF Entry, Open
  <1> QED BY <1>2

\* An ordinary step without a function.
LEMMA WithoutKept ==
  ASSUME TypeInv, BackpatchInv, Parsing, Without, Ordinary(TRUE)
  PROVE  Without'
  <1>t. stack \in Seq(Entry) /\ emit \in Block /\ Len(emit.next) \in Nat
    BY BlockType DEF TypeInv, TypeOK
  <1>1. Body(emit, 0, Len(emit.code), 0, FALSE) /\ func = "none"
        /\ (stack # <<>> => stack[1].sym # "m2")
    BY DEF Without
  <1>z. 0 \in 0 .. Len(emit.next)
    BY <1>t
  <1>2. Grown(emit, emit, 0, FALSE)
    BY <1>t, <1>z, <1>1, GrownSelf
  <1>3. Ordinary(FALSE)
    BY <1>1, OrdinarySteps
  <1>4. Keeps(0, FALSE)
    BY <1>t, <1>2, <1>3, AllAboveNone, KeepsOrdinary DEF From
  <1>5. Body(emit', 0, Len(emit'.code), 0, FALSE)
    BY <1>1, <1>4, GrownBody DEF Keeps
  <1>6. stack' # <<>> /\ stack'[1].sym # "m2"
    BY <1>1, <1>4 DEF Keeps, Bottom
  <1>7. ~ OnTop(<<"m2">>)
    <2> SUFFICES ASSUME OnTop(<<"m2">>) PROVE FALSE
      OBVIOUS
    <2>1. 1 \in 1 .. Len(stack) /\ Val(1).sym = "m2"
      BY <1>t DEF OnTop, Val
    <2> QED BY <1>1, <2>1, AtBottom
  <1>8. func' = "none"
    BY <1>1, <1>7, OrdinarySteps
  <1> QED BY <1>5, <1>6, <1>8 DEF Without

\* An ordinary step inside the function.
LEMMA InsideKept ==
  ASSUME TypeInv, BackpatchInv, Parsing, Inside, Ordinary(TRUE)
  PROVE  Inside'
  <1>t. stack \in Seq(Entry) /\ emit \in Block /\ Len(emit.next) \in Nat /\ Len(emit.code) \in Nat
    BY BlockType DEF TypeInv, TypeOK
  <1>1. Ordinary(lrTouched') /\ lrTouched' \in BOOLEAN /\ (lrTouched => lrTouched')
    BY OrdinarySteps
  <1>2. Body(emit, 2, Len(emit.code), 2, lrTouched) /\ 2 \in 0 .. Len(emit.next)
    BY <1>t DEF Inside
  <1>3. From(2, lrTouched')
    BY <1>t, <1>2, GrownSelf DEF From, Inside
  <1>4. Keeps(2, lrTouched')
    BY <1>1, <1>3, KeepsOrdinary
  <1>5. Body(emit', 2, Len(emit'.code), 2, lrTouched')
    BY <1>1, <1>2, <1>4, GrownBody DEF Keeps
  <1>6. stack' # <<>> /\ stack'[1] = stack[1] /\ AllAbove(stack', 2)
    BY <1>4 DEF Keeps, Bottom, Inside
  <1>7. /\ 1 \in 1 .. Len(emit.code) /\ 2 \in 1 .. Len(emit.code)
        /\ Len(emit'.code) \in Nat /\ Len(emit'.next) \in Nat
    BY <1>t, <1>4, BlockType DEF Inside, Keeps, Grown
  <1>8. /\ Len(emit'.code) >= 2 /\ Len(emit'.next) >= 2
        /\ emit'.code[1] = emit.code[1] /\ emit'.code[2] = emit.code[2]
    BY <1>t, <1>4, <1>7 DEF Keeps, Grown, Inside
  <1> QED BY <1>5, <1>6, <1>8 DEF Inside

\* An ordinary step behind the function.
LEMMA BehindKept ==
  ASSUME TypeInv, BackpatchInv, Parsing, Behind, Ordinary(TRUE)
  PROVE  Behind'
  <1>t. stack \in Seq(Entry) /\ emit \in Block /\ Len(emit.next) \in Nat
    BY BlockType DEF TypeInv, TypeOK
  <1>1. PICK S \in Nat, L \in Nat :
          Sealed(emit, S, L) /\ Body(emit, S, Len(emit.code), L, TRUE) /\ AllAbove(stack, L)
    BY DEF Behind
  <1>2. L \in 0 .. Len(emit.next)
    BY <1>t, <1>1 DEF Sealed
  <1>3. From(L, TRUE)
    BY <1>t, <1>1, <1>2, GrownSelf DEF From
  <1>4. Keeps(L, TRUE)
    BY <1>3, KeepsOrdinary
  <1>5. Body(emit', S, Len(emit'.code), L, TRUE)
    BY <1>1, <1>4, GrownBody DEF Keeps
  <1>6. Sealed(emit', S, L)
    BY <1>1, <1>4, GrownSealed DEF Keeps
  <1>7. stack' # <<>> /\ stack'[1].sym # "m2" /\ AllAbove(stack', L)
    BY <1>4 DEF Keeps, Bottom, Behind
  <1> QED BY <1>5, <1>6, <1>7 DEF Behind

\* ---- the function and the program are completed ------------------------------------------

\* Marker m2 begins the code with the jump around the function.
LEMMA M2Opens ==
  ASSUME TypeInv, Parsing, LayoutInv, M2
  PROVE  status' # "done" /\ Inside'
  <1> DEFINE a == NewLabel(emit)
             b == NewLabel(a)
             jump == Inst("UJUMP", 1, 0)
             mark == Inst("LABEL", 2, 0)
             c == Emit(b, jump)
             d == Emit(c, mark)
  <1>1. stack = <<>> /\ emit = EmptyBlock
    BY DEF LayoutInv, Without, Inside, Behind, M2
  <1>2. emit \in Block /\ emit.code = <<>> /\ emit.next = <<>> /\ FreshLabel(emit) = 1
    BY <1>1 DEF EmptyBlock, Block, FreshLabel
  <1>3. emit' = d /\ status' # "done" /\ stack' = Append(stack, Marker("m2", 2, {1}))
    BY <1>2 DEF M2, Continue, Label, Ujump, Shift
  <1>4. a \in Block /\ a.code = <<>> /\ a.next = <<0>>
    BY <1>2, NewLabelType
  <1> HIDE DEF a
  <1>5. b \in Block /\ b.code = <<>> /\ Len(b.next) = 2
    <2>1. b \in Block /\ b.code = a.code /\ b.next = Append(a.next, 0)
      BY <1>4, NewLabelType
    <2> QED BY <1>4, <2>1
  <1> HIDE DEF b
  <1>6. jump \in Instruction /\ mark \in Instruction
    BY InstType DEF JumpOps
  <1>7. /\ jump.op = "UJUMP" /\ jump.label = 1 /\ mark.op = "LABEL" /\ mark.label = 2
    BY DEF Inst
  <1> HIDE DEF jump, mark
  <1>8. c \in Block /\ c.code = <<jump>> /\ Len(c.next) = 2
    BY <1>5, <1>6, EmitType
  <1> HIDE DEF c
  <1>9. d \in Block /\ Len(d.code) = 2 /\ d.code[1] = jump /\ d.code[2] = mark /\ Len(d.next) = 2
    <2>1. d \in Block /\ d.code = Append(c.code, mark) /\ d.next = c.next
      BY <1>6, <1>8, EmitType
    <2> QED BY <1>8, <2>1
  <1> HIDE DEF d
  <1>10. /\ Len(emit'.code) = 2 /\ Len(emit'.next) = 2
         /\ emit'.code[1] = jump /\ emit'.code[2] = mark
    BY <1>3, <1>9
  <1>11. Body(emit', 2, Len(emit'.code), 2, lrTouched')
    BY <1>10 DEF Body
  <1>12. /\ stack' # <<>> /\ stack'[1] = Marker("m2", 2, {1}) /\ DOMAIN stack' = {1}
    BY <1>1, <1>3
  <1>13. stack'[1].sym = "m2" /\ stack'[1].label = 2 /\ stack'[1].dest = {1}
    BY <1>12 DEF Marker
  <1>14. AllAbove(stack', 2)
    BY <1>12, <1>13 DEF AllAbove, Above
  <1> QED BY <1>3, <1>7, <1>10, <1>11, <1>12, <1>13, <1>14 DEF Inside

\* The prologue is spliced in at the second position.
LEMMA Prologue ==
  ASSUME NEW b \in Block, Len(b.code) >= 2,
         b.code[1].op = "UJUMP", b.code[1].label = 1,
         b.code[2].op = "LABEL", b.code[2].label = 2, NEW i \in Instruction
  PROVE  LET c == Splice(b, 2, <<i>>)
         IN  /\ c \in Block /\ c.next = b.next /\ Len(c.code) = Len(b.code) + 1
             /\ c.code[1] = b.code[1] /\ c.code[2] = i /\ c.code[3] = b.code[2]
             /\ \A p \in 4 .. Len(b.code) + 1 : c.code[p] = b.code[p - 1]
  <1> DEFINE c == Splice(b, 2, <<i>>)
             n == Len(b.code)
  <1>1. n \in Nat /\ n >= 2 /\ DOMAIN b.code = 1 .. n /\ 1 \in DOMAIN b.code /\ 2 \in DOMAIN b.code
    BY BlockType
  <1>2. 2 \in Defined(b)
    BY <1>1, DefinedAt
  <1>3. 2 \in SpliceAt(b, 2) /\ 1 \notin SpliceAt(b, 2)
    BY <1>1 DEF SpliceAt
  <1>4. PICK at \in SpliceAt(b, 2) : (\A j \in SpliceAt(b, 2) : at <= j) /\ Inserted(b, c, i, at)
    BY <1>2, SplicePlaces
  <1>5. at = 2
    BY <1>1, <1>3, <1>4 DEF Inserted
  <1>6. c \in Block /\ c.next = b.next
    BY <1>2, SplicePlaces
  <1> HIDE DEF c
  <1>7. DOMAIN c.code = 1 .. n + 1 /\ Len(c.code) = n + 1
    BY <1>1, <1>4, <1>6, BlockType DEF Inserted
  <1>8. /\ \A j \in 1 .. 1 : c.code[j] = b.code[j]
        /\ c.code[2] = i
        /\ \A j \in 3 .. n + 1 : c.code[j] = b.code[j - 1]
    BY <1>1, <1>4, <1>5 DEF Inserted
  <1>9. 1 \in 1 .. 1 /\ 3 \in 3 .. n + 1 /\ 3 - 1 = 2 /\ \A p \in 4 .. n + 1 : p \in 3 .. n + 1
    BY <1>1
  <1>10. /\ c.code[1] = b.code[1] /\ c.code[3] = b.code[2]
         /\ \A p \in 4 .. n + 1 : c.code[p] = b.code[p - 1]
    BY <1>8, <1>9
  <1> QED BY <1>6, <1>7, <1>8, <1>10 DEF c

\* c is b with the three instructions i, j and k behind it.
Longer(b, c, i, j, k) ==
  /\ c \in Block /\ c.next = b.next /\ Len(c.code) = Len(b.code) + 3
  /\ \A p \in 1 .. Len(b.code) : c.code[p] = b.code[p]
  /\ c.code[Len(b.code) + 1] = i /\ c.code[Len(b.code) + 2] = j
  /\ c.code[Len(b.code) + 3] = k

\* The epilogue and the label behind the function.
LEMMA Epilogue ==
  ASSUME NEW b \in Block, NEW i \in Instruction, NEW j \in Instruction, NEW k \in Instruction,
         NEW c, c = Emit(Emit(Emit(b, i), j), k)
  PROVE  Longer(b, c, i, j, k)
  <1> DEFINE n == Len(b.code)
             d == Emit(b, i)
             e == Emit(d, j)
  <1>1. b.code \in Seq(Instruction) /\ n \in Nat
    BY DEF Block
  <1>2. d \in Block /\ d.code = Append(b.code, i) /\ d.next = b.next
    BY EmitType
  <1> HIDE DEF d
  <1>3. e \in Block /\ e.code = Append(d.code, j) /\ e.next = b.next
    BY <1>2, EmitType
  <1>d. c = Emit(e, k)
    BY DEF d, e
  <1> HIDE DEF e
  <1>f. Emit(e, k) \in Block /\ Emit(e, k).code = Append(e.code, k) /\ Emit(e, k).next = e.next
    BY <1>3, EmitType
  <1>4. c \in Block /\ c.code = Append(e.code, k) /\ c.next = b.next
    BY <1>3, <1>d, <1>f
  <1>5. /\ d.code \in Seq(Instruction) /\ Len(d.code) = n + 1 /\ d.code[n + 1] = i
        /\ \A p \in 1 .. n : d.code[p] = b.code[p]
    BY <1>1, <1>2
  <1>6. /\ e.code \in Seq(Instruction) /\ Len(e.code) = n + 2 /\ e.code[n + 2] = j
        /\ \A p \in 1 .. n + 1 : e.code[p] = d.code[p]
    BY <1>1, <1>3, <1>5
  <1>7. /\ Len(c.code) = n + 3 /\ c.code[n + 3] = k
        /\ \A p \in 1 .. n + 2 : c.code[p] = e.code[p]
    BY <1>1, <1>4, <1>6
  <1>8. /\ \A p \in 1 .. n : p \in 1 .. n + 1 /\ p \in 1 .. n + 2
        /\ n + 1 \in 1 .. n + 1 /\ n + 1 \in 1 .. n + 2 /\ n + 2 \in 1 .. n + 2
    BY <1>1
  <1>9. /\ \A p \in 1 .. n : c.code[p] = b.code[p]
        /\ c.code[n + 1] = i /\ c.code[n + 2] = j
    BY <1>5, <1>6, <1>7, <1>8
  <1> QED BY <1>4, <1>7, <1>9 DEF Longer

\* What a label of a sound block is patched to, and what its code names, are labels.
LEMMA SoundLabels ==
  ASSUME NEW b, NEW open, Sound(b, open)
  PROVE  /\ \A p \in 1 .. Len(b.code) : b.code[p].op \in JumpOps \cup {"LABEL"} =>
              b.code[p].label \in 1 .. Len(b.next)
         /\ \A l \in 1 .. Len(b.next) : b.next[l] = 0 \/ b.next[l] \in 1 .. Len(b.next)
  <1>1. DOMAIN b.code = 1 .. Len(b.code)
    BY BlockType DEF Sound
  <1>2. Labels(b) = 1 .. Len(b.next) /\ Targets(b) \subseteq Labels(b) /\ Defined(b) \subseteq Labels(b)
    BY DEF Sound, Labels
  <1>3. ASSUME NEW p \in 1 .. Len(b.code), b.code[p].op \in JumpOps \cup {"LABEL"}
        PROVE  b.code[p].label \in 1 .. Len(b.next)
    <2>1. b.code[p].label \in Targets(b) \/ b.code[p].label \in Defined(b)
      BY <1>1, <1>3, TargetAt, DefinedAt
    <2> QED BY <1>2, <2>1
  <1>4. \A l \in 1 .. Len(b.next) : b.next[l] = 0 \/ b.next[l] \in 1 .. Len(b.next)
    BY <1>2 DEF Sound
  <1> QED BY <1>3, <1>4

\* The function on the stack.
LEMMA FunctionTop ==
  ASSUME TypeInv, BackpatchInv, Parsing, Inside, OnTop(<<"m2", "func_arg", "blk">>)
  PROVE  /\ Len(stack) = 3 /\ Val(3) = stack[1]
         /\ High(Val(1).nextlist, 2) /\ High(Val(1).retlist, 2)
         /\ emit.next[1] = 0
  <1>t. stack \in Seq(Entry) /\ Len(stack) \in Nat /\ AllAbove(stack, 2)
    BY LenProperties DEF TypeInv, TypeOK, Inside
  <1>1. 3 \in 1 .. Len(stack) /\ Val(3).sym = "m2" /\ Val(1).sym = "blk"
    BY <1>t DEF OnTop, Val
  <1>2. Len(stack) = 3 /\ stack # <<>> /\ Val(3) = stack[1]
    BY <1>1, AtBottom
  <1>3. High(Val(1).nextlist, 2) /\ High(Val(1).retlist, 2)
    <2>1. 1 \in 1 .. Len(stack) /\ Val(1).sym # "m2"
      BY <1>1
    <2> QED BY <1>t, <2>1, TopHigh
  <1>4. 1 \in OpenLabels(stack)
    <2>1. 1 \in Open(stack[1]) /\ 1 \in DOMAIN stack
      BY <1>t, <1>2 DEF Inside, Open
    <2> QED BY <2>1, OpenAt
  <1>5. emit.next[1] = 0
    BY <1>4 DEF BackpatchInv, Sound
  <1> QED BY <1>2, <1>3, <1>5

\* The prologue is spliced in, and the code behind it is the body, still.
LEMMA FunctionBody ==
  ASSUME TypeInv, Inside, NEW i \in Instruction
  PROVE  LET c == Splice(emit, 2, <<i>>)
         IN  /\ Grown(c, c, 2, lrTouched) /\ FreshLabel(c) = FreshLabel(emit)
             /\ c.next = emit.next /\ Len(c.code) >= 3
             /\ c.code[1].op = "UJUMP" /\ c.code[1].label = 1 /\ c.code[2] = i
             /\ c.code[3].op = "LABEL" /\ c.code[3].label = 2
             /\ \A p \in 4 .. Len(c.code) : BodyInst(c.code[p], 2, lrTouched)
  <1> DEFINE c == Splice(emit, 2, <<i>>)
             n == Len(emit.code)
  <1>t. emit \in Block /\ n \in Nat /\ n >= 2 /\ Len(emit.next) \in Nat /\ Len(emit.next) >= 2
    BY BlockType DEF TypeInv, TypeOK, Inside
  <1>1. /\ c \in Block /\ c.next = emit.next /\ Len(c.code) = n + 1
        /\ c.code[1] = emit.code[1] /\ c.code[2] = i /\ c.code[3] = emit.code[2]
        /\ \A p \in 4 .. n + 1 : c.code[p] = emit.code[p - 1]
    <2>1. /\ emit.code[1].op = "UJUMP" /\ emit.code[1].label = 1
          /\ emit.code[2].op = "LABEL" /\ emit.code[2].label = 2
      BY DEF Inside
    <2> QED BY <1>t, <2>1, Prologue
  <1> HIDE DEF c
  <1>2. \A p \in 4 .. n + 1 : BodyInst(c.code[p], 2, lrTouched)
    <2> SUFFICES ASSUME NEW p \in 4 .. n + 1 PROVE BodyInst(c.code[p], 2, lrTouched)
      OBVIOUS
    <2>1. p - 1 \in 2 + 1 .. n
      BY <1>t
    <2>2. BodyInst(emit.code[p - 1], 2, lrTouched)
      BY <2>1 DEF Inside, Body
    <2> QED BY <1>1, <2>2
  <1>3. Body(c, 3, n + 1, 2, lrTouched)
    <2>1. \A l \in 2 + 1 .. Len(c.next) : c.next[l] = 0 \/ c.next[l] > 2
      BY <1>1 DEF Inside, Body
    <2> QED BY <1>2, <2>1 DEF Body
  <1>4. 2 \in 0 .. Len(c.next)
    BY <1>t, <1>1
  <1>5. Grown(c, c, 2, lrTouched)
    BY <1>1, <1>3, <1>4, GrownSelf
  <1>6. FreshLabel(c) = FreshLabel(emit)
    BY <1>1 DEF FreshLabel
  <1>7. Len(c.code) >= 3
    BY <1>t, <1>1
  <1>8. /\ c.code[1].op = "UJUMP" /\ c.code[1].label = 1
        /\ c.code[3].op = "LABEL" /\ c.code[3].label = 2
    BY <1>1 DEF Inside
  <1> QED BY <1>1, <1>2, <1>5, <1>6, <1>7, <1>8 DEF c

\* When the block of the function is complete, the function is.
LEMMA FunctionCloses ==
  ASSUME TypeInv, BackpatchInv, BackpatchInv', Parsing, Inside, Function
  PROVE  status' # "done" /\ (status' = "parsing" => Behind')
  <1> DEFINE m2 == Val(3)
             blk == Val(1)
             leave == FreshLabel(emit)
             id == IF lrTouched THEN 1 ELSE 0
             save == Inst("SAVE", 0, id)
             restore == Inst("RESTORE", 0, id)
             retrn == Inst("RETRN", 0, 0)
             mark == Inst("LABEL", 1, 0)
             spliced == Splice(emit, 2, <<save>>)
             marked == Mark(spliced)
             once == BackpatchIfAny(marked, blk.nextlist, leave)
             twice == BackpatchIfAny(once, blk.retlist, leave)
             left == IF blk.nextlist \cup blk.retlist = {} THEN spliced ELSE twice
             n == Len(left.code)
             S == n + 3
             L == Len(left.next)
  <1>t. /\ stack \in Seq(Entry) /\ emit \in Block /\ lrTouched \in BOOLEAN
        /\ Len(emit.code) \in Nat /\ Len(emit.next) \in Nat
    BY BlockType DEF TypeInv, TypeOK
  <1>1. OnTop(<<"m2", "func_arg", "blk">>) /\ Reduce(3, Plain("function"))
    BY DEF Function
  <1>2. /\ Len(stack) = 3 /\ m2 = stack[1] /\ High(blk.nextlist, 2) /\ High(blk.retlist, 2)
        /\ emit.next[1] = 0
    BY <1>1, FunctionTop
  <1>3. m2.label = 2 /\ m2.dest = {1} /\ (CHOOSE l \in m2.dest : TRUE) = 1
    BY <1>2 DEF Inside
  <1>4. Continue(Label(Emit(Emit(left, restore), retrn), 1))
    BY <1>3 DEF Function
  <1>5. emit' = Emit(Emit(Emit(left, restore), retrn), mark) /\ status' # "done"
    BY <1>4 DEF Continue, Label
  <1>6. /\ save \in Instruction /\ restore \in Instruction /\ retrn \in Instruction
        /\ mark \in Instruction
        /\ save.op = "SAVE" /\ save.id = id /\ restore.op = "RESTORE" /\ restore.id = id
        /\ retrn.op = "RETRN" /\ mark.op = "LABEL" /\ mark.label = 1
    BY InstType DEF Inst, DataOps, LinkOps
  <1>7. id \in {0, 1} /\ (lrTouched <=> id = 1)
    OBVIOUS
  <1> HIDE DEF m2, blk, id, save, restore, retrn, mark
  <1>8. /\ Grown(spliced, spliced, 2, lrTouched) /\ FreshLabel(spliced) = leave
        /\ spliced.next = emit.next /\ Len(spliced.code) >= 3
        /\ spliced.code[1].op = "UJUMP" /\ spliced.code[1].label = 1 /\ spliced.code[2] = save
        /\ spliced.code[3].op = "LABEL" /\ spliced.code[3].label = 2
        /\ \A p \in 4 .. Len(spliced.code) : BodyInst(spliced.code[p], 2, lrTouched)
    BY <1>6, FunctionBody
  <1> HIDE DEF spliced
  <1>9. Grown(spliced, marked, 2, lrTouched) /\ leave > 2 /\ leave \in Nat
    BY <1>8, GrownMark
  <1> HIDE DEF marked, leave
  <1>10. Grown(spliced, left, 2, lrTouched)
    <2>1. BackpatchIfAny(marked, blk.nextlist, leave) = marked
            \/ BackpatchIfAny(marked, blk.nextlist, leave) = Backpatch(marked, blk.nextlist, leave)
      BY DEF BackpatchIfAny
    <2>2. Grown(spliced, once, 2, lrTouched)
      BY <1>2, <1>9, GrownBackpatch DEF High
    <2> HIDE DEF once
    <2>3. Grown(spliced, twice, 2, lrTouched)
      BY <1>2, <1>9, <2>2, GrownBackpatch DEF High
    <2> HIDE DEF twice
    <2> QED BY <1>8, <2>3
  <1> HIDE DEF once, twice, left
  <1>11. left \in Block /\ n \in Nat /\ L \in Nat
    BY <1>10, BlockType DEF Grown
  <1>12. /\ n >= 3 /\ L >= 2
         /\ left.code[1].op = "UJUMP" /\ left.code[1].label = 1 /\ left.code[2] = save
         /\ left.code[3].op = "LABEL" /\ left.code[3].label = 2
         /\ left.next[1] = 0
    <2>1. Len(spliced.code) \in Nat /\ Len(spliced.code) <= n /\ 2 <= L
      BY <1>t, <1>8, <1>10, <1>11, BlockType DEF Grown, Inside
    <2>2. 1 \in 1 .. Len(spliced.code) /\ 2 \in 1 .. Len(spliced.code) /\ 3 \in 1 .. Len(spliced.code)
      BY <1>8, <2>1
    <2>3. \A p \in 1 .. Len(spliced.code) : left.code[p] = spliced.code[p]
      BY <1>10 DEF Grown
    <2>4. left.next[1] = spliced.next[1]
      BY <1>10 DEF Grown
    <2> QED BY <1>2, <1>8, <1>11, <2>1, <2>2, <2>3, <2>4, SMTT(30)
  <1>13. \A p \in 4 .. n : BodyInst(left.code[p], 2, lrTouched)
    <2>1. Body(spliced, 3, Len(spliced.code), 2, lrTouched)
      BY <1>8 DEF Body, Grown
    <2>2. Body(left, 3, n, 2, lrTouched)
      BY <1>10, <2>1, GrownBody
    <2> QED BY <2>2 DEF Body
  <1>14. /\ emit' \in Block /\ emit'.next = left.next /\ Len(emit'.code) = S
         /\ \A p \in 1 .. n : emit'.code[p] = left.code[p]
         /\ emit'.code[n + 1] = restore /\ emit'.code[n + 2] = retrn /\ emit'.code[n + 3] = mark
    <2>1. left \in Block /\ restore \in Instruction /\ retrn \in Instruction /\ mark \in Instruction
      BY <1>6, <1>11
    <2>2. emit' = Emit(Emit(Emit(left, restore), retrn), mark)
      BY <1>5
    <2>3. Longer(left, emit', restore, retrn, mark)
      BY <2>1, <2>2, Epilogue
    <2> QED BY <2>3 DEF Longer
  <1>15. CASE status' = "parsing"
    <2>1. Sound(emit', OpenLabels(stack'))
      BY <1>15 DEF BackpatchInv, Parsing
    <2>2. /\ \A p \in 1 .. S : emit'.code[p].op \in JumpOps \cup {"LABEL"} => emit'.code[p].label \in 1 .. L
          /\ \A l \in 1 .. L : emit'.next[l] = 0 \/ emit'.next[l] \in 1 .. L
      BY <1>14, <2>1, SoundLabels
    <2>3. S \in 6 .. Len(emit'.code) /\ L \in 2 .. Len(emit'.next) /\ S - 3 = n /\ S - 2 = n + 1 /\ S - 1 = n + 2
      BY <1>11, <1>12, <1>14
    <2>4. 1 \in 1 .. n /\ 2 \in 1 .. n /\ 3 \in 1 .. n
      BY <1>11, <1>12
    <2>5. /\ emit'.code[1].op = "UJUMP" /\ emit'.code[1].label = 1
          /\ emit'.code[2].op = "SAVE" /\ emit'.code[2].id = id
          /\ emit'.code[3].op = "LABEL" /\ emit'.code[3].label = 2
      BY <1>6, <1>12, <1>14, <2>4
    <2>6. ASSUME NEW p \in 4 .. n
          PROVE  /\ BodyInst(emit'.code[p], 2, id = 1)
                 /\ emit'.code[p].op \in JumpOps \cup {"LABEL"} => emit'.code[p].label <= L
      <3>1. p \in 1 .. n /\ p \in 1 .. S
        BY <1>11
      <3>2. BodyInst(emit'.code[p], 2, id = 1)
        BY <1>7, <1>13, <1>14, <3>1 DEF BodyInst
      <3> QED BY <1>11, <2>2, <3>1, <3>2
    <2>7. ASSUME NEW l \in 3 .. L
          PROVE  emit'.next[l] = 0 \/ emit'.next[l] \in 3 .. L
      <3>1. l \in 1 .. L /\ l \in 2 + 1 .. L
        BY <1>11
      <3>2. emit'.next[l] = 0 \/ emit'.next[l] > 2
        BY <1>10, <1>14, <3>1 DEF Grown
      <3> QED BY <1>11, <2>2, <3>1, <3>2
    <2>8. Sealed(emit', S, L)
      BY <1>6, <1>7, <1>12, <1>14, <2>3, <2>5, <2>6, <2>7 DEF Sealed
    <2>9. Body(emit', S, Len(emit'.code), L, TRUE)
      <3>1. S + 1 .. Len(emit'.code) = {} /\ L + 1 .. Len(emit'.next) = {}
        BY <1>11, <1>14
      <3> QED BY <3>1 DEF Body
    <2>10. /\ stack' # <<>> /\ stack'[1].sym # "m2" /\ AllAbove(stack', L)
      <3>1. stack' = Append(SubSeq(stack, 1, 0), Plain("function"))
        BY <1>1, <1>2 DEF Reduce
      <3>2. SubSeq(stack, 1, 0) = <<>>
        BY <1>t
      <3>3. DOMAIN stack' = {1} /\ stack' # <<>> /\ stack'[1] = Plain("function")
        BY <3>1, <3>2
      <3>4. Above(Plain("function"), L) /\ Plain("function").sym # "m2"
        BY PlainHigh DEF Above, High
      <3> QED BY <3>3, <3>4 DEF AllAbove
    <2>11. S \in Nat /\ L \in Nat
      BY <1>11
    <2> HIDE DEF S, L
    <2>12. Behind'
      BY <2>8, <2>9, <2>10, <2>11 DEF Behind
    <2> QED BY <1>5, <2>12
  <1> QED BY <1>5, <1>15

\* One more instruction behind a block.
LEMMA Longer1 ==
  ASSUME NEW b \in Block, NEW i \in Instruction, NEW c, c = Emit(b, i)
  PROVE  /\ c \in Block /\ c.next = b.next /\ Len(c.code) = Len(b.code) + 1
         /\ c.code[Len(b.code) + 1] = i
         /\ \A p \in 1 .. Len(b.code) : c.code[p] = b.code[p]
  <1> DEFINE n == Len(b.code)
  <1>1. b.code \in Seq(Instruction) /\ n \in Nat
    BY DEF Block
  <1>2. c \in Block /\ c.code = Append(b.code, i) /\ c.next = b.next
    BY EmitType
  <1> QED BY <1>1, <1>2

\* HALT behind the body of the program.
LEMMA HaltLayout ==
  ASSUME NEW b \in Block, NEW S \in Nat, NEW L \in Nat, S <= Len(b.code),
         (S = 0 /\ L = 0) \/ Sealed(b, S, L), Body(b, S, Len(b.code), L, S # 0),
         NEW i \in Instruction, i.op = "HALT", NEW c, c = Emit(b, i)
  PROVE  Layout(c, S, L)
  <1> DEFINE n == Len(b.code)
  <1>1. n \in Nat
    BY BlockType
  <1>2. /\ c.next = b.next /\ Len(c.code) = n + 1 /\ c.code[n + 1] = i
        /\ \A p \in 1 .. n : c.code[p] = b.code[p]
    BY Longer1
  <1>n. n = Len(b.code)
    OBVIOUS
  <1> HIDE DEF n
  <1>3. ASSUME Sealed(b, S, L) PROVE Sealed(c, S, L)
    <2>1. S \in 6 .. n /\ L \in 2 .. Len(b.next)
      BY <1>3, <1>n DEF Sealed
    <2>2. /\ 1 \in 1 .. n /\ 2 \in 1 .. n /\ 3 \in 1 .. n /\ S - 2 \in 1 .. n /\ S - 1 \in 1 .. n
          /\ S \in 1 .. n /\ \A p \in 4 .. S - 3 : p \in 1 .. n
      BY <1>1, <2>1
    <2>3. S \in 6 .. Len(c.code)
      BY <1>1, <1>2, <2>1
    <2> QED BY <1>2, <1>3, <2>2, <2>3, ZenonT(60) DEF Sealed
  <1>4. Body(c, S, Len(c.code) - 1, L, S # 0)
    <2>1. Len(c.code) - 1 = n /\ \A p \in S + 1 .. n : p \in 1 .. n
      BY <1>1, <1>2
    <2> QED BY <1>2, <1>n, <2>1 DEF Body
  <1>5. Len(c.code) > S /\ c.code[Len(c.code)].op = "HALT"
    BY <1>1, <1>2, <1>n
  <1> QED BY <1>3, <1>4, <1>5 DEF Layout

\* The program is completed.
LEMMA MainCloses ==
  ASSUME TypeInv, BackpatchInv, Parsing, LayoutInv, MainFunction, status' = "done"
  PROVE  \E S, L : Layout(emit', S, L)
  <1> DEFINE blk == Val(1)
             l == FreshLabel(emit)
             marked == Mark(emit)
             ended == IF blk.nextlist = {} THEN emit ELSE Backpatch(marked, blk.nextlist, l)
             halt == Inst("HALT", 0, 0)
  <1>t. /\ stack \in Seq(Entry) /\ emit \in Block /\ Len(stack) \in Nat
        /\ Len(emit.code) \in Nat /\ Len(emit.next) \in Nat
    BY BlockType, LenProperties DEF TypeInv, TypeOK
  <1>1. emit' = Emit(ended, halt)
    BY DEF MainFunction
  <1>2. halt \in Instruction /\ halt.op = "HALT"
    BY DEF Inst, Instruction, LinkOps
  <1>3. OnTop(<<"function", "m4", "blk">>)
    BY DEF MainFunction
  <1>4. 3 \in 1 .. Len(stack) /\ Val(3).sym = "function" /\ Val(1).sym = "blk" /\ 1 \in 1 .. Len(stack)
    BY <1>t, <1>3 DEF OnTop, Val
  <1>5. stack # <<>> /\ stack[1].sym # "m2"
    BY <1>4, AtBottom
  <1> HIDE DEF halt
  <1>6. PICK S \in Nat, L \in Nat :
          /\ (S = 0 /\ L = 0) \/ Sealed(emit, S, L)
          /\ Body(emit, S, Len(emit.code), L, S # 0) /\ AllAbove(stack, L)
    <2>1. CASE Without
      BY <1>t, <2>1, AllAboveNone DEF Without
    <2>2. CASE Behind
      <3>1. PICK S \in Nat, L \in Nat :
              Sealed(emit, S, L) /\ Body(emit, S, Len(emit.code), L, TRUE) /\ AllAbove(stack, L)
        BY <2>2 DEF Behind
      <3>2. S # 0
        BY <3>1 DEF Sealed
      <3>3. Body(emit, S, Len(emit.code), L, S # 0)
        BY <3>1, <3>2 DEF Body, BodyInst
      <3> QED BY <3>1, <3>3
    <2>3. ~ Inside
      BY <1>5 DEF Inside
    <2> QED BY <2>1, <2>2, <2>3 DEF LayoutInv
  <1>7. S <= Len(emit.code) /\ L \in 0 .. Len(emit.next)
    BY <1>t, <1>6 DEF Sealed
  <1>8. Grown(emit, emit, L, S # 0)
    BY <1>t, <1>6, <1>7, GrownSelf
  <1>9. Grown(emit, marked, L, S # 0) /\ l > L /\ l \in Nat
    BY <1>8, GrownMark
  <1>10. High(blk.nextlist, L)
    BY <1>t, <1>4, <1>6, TopHigh
  <1> HIDE DEF blk, l, marked
  <1>11. Grown(emit, ended, L, S # 0)
    BY <1>8, <1>9, <1>10, GrownBackpatch DEF High
  <1> HIDE DEF ended
  <1>12. ended \in Block /\ Len(ended.code) \in Nat /\ Len(emit.code) <= Len(ended.code)
    BY <1>11, BlockType DEF Grown
  <1>13. S <= Len(ended.code)
    BY <1>t, <1>7, <1>12
  <1>14. Body(ended, S, Len(ended.code), L, S # 0)
    BY <1>6, <1>11, GrownBody
  <1>15. (S = 0 /\ L = 0) \/ Sealed(ended, S, L)
    BY <1>6, <1>11, GrownSealed
  <1>16. Layout(emit', S, L)
    BY <1>1, <1>2, <1>12, <1>13, <1>14, <1>15, HaltLayout
  <1> QED BY <1>16

\* ---- every step keeps the shape of the code -------------------------------------------------

\* The shape of no code at all.
LEMMA LayoutInit == Init => LayoutInv
  <1> SUFFICES ASSUME Init PROVE LayoutInv
    OBVIOUS
  <1>1. emit = EmptyBlock /\ stack = <<>> /\ func = "none" /\ status = "parsing"
    BY DEF Init
  <1>2. Len(emit.code) = 0 /\ Len(emit.next) = 0
    BY <1>1 DEF EmptyBlock
  <1>3. Body(emit, 0, Len(emit.code), 0, FALSE)
    BY <1>2 DEF Body
  <1> QED BY <1>1, <1>3 DEF LayoutInv, Without, Parsing

\* The shape of the code follows the parse.
LEMMA LayoutStep ==
  ASSUME TypeInv, BackpatchInv, BackpatchInv', LayoutInv, [Next]_vars
  PROVE  LayoutInv'
  <1>1. CASE UNCHANGED vars
    BY <1>1 DEF vars, LayoutInv, Without, Inside, Behind, Parsing
  <1>2. CASE Next
    <2>1. CASE Finished
      BY <1>1, <2>1 DEF Finished
    <2>2. CASE CompileError
      BY <2>2 DEF CompileError, LayoutInv, Parsing
    <2>3. CASE M2
      <3>1. Parsing
        BY <2>3 DEF M2
      <3> QED BY <2>3, <3>1, M2Opens DEF LayoutInv
    <2>4. CASE Function
      <3>1. Parsing /\ OnTop(<<"m2", "func_arg", "blk">>)
        BY <2>4 DEF Function
      <3>2. stack \in Seq(Entry) /\ Len(stack) \in Nat
        BY LenProperties DEF TypeInv, TypeOK
      <3>3. 3 \in 1 .. Len(stack) /\ Val(3).sym = "m2"
        BY <3>1, <3>2 DEF OnTop, Val
      <3>4. Inside
        BY <3>1, <3>3, AtBottom DEF LayoutInv, Without, Behind
      <3> QED BY <2>4, <3>1, <3>4, FunctionCloses DEF LayoutInv, Parsing
    <2>5. CASE MainFunction
      <3>1. Parsing /\ status' # "parsing"
        BY <2>5 DEF MainFunction, Parsing
      <3> QED BY <2>5, <3>1, MainCloses DEF LayoutInv, Parsing
    <2>6. CASE Ordinary(TRUE)
      <3>1. Parsing
        BY <2>6 DEF Ordinary, FuncHeader, NoFunction, M4, OpenBlk, M6, ReduceList, CloseBlk,
           StmtUnit, ShiftBool, BoolUnit, Paren, Not, And, Or, ShiftCntrl, M1, M5, IfElse,
           IfThen, For, While, Operation, Assn, Return, RelOp
      <3>2. status' # "done"
        BY <2>6, <3>1, OrdinarySteps
      <3>3. Without' \/ Inside' \/ Behind'
        BY <2>6, <3>1, WithoutKept, InsideKept, BehindKept DEF LayoutInv
      <3> QED BY <3>2, <3>3 DEF LayoutInv
    <2>7. Ordinary(TRUE) \/ M2 \/ Function \/ MainFunction \/ CompileError \/ Finished
      BY <1>2 DEF Next, Rule, Ordinary
    <2> QED BY <2>1, <2>2, <2>3, <2>4, <2>5, <2>6, <2>7
  <1> QED BY <1>1, <1>2

\* ---- lines of the output -------------------------------------------------------------------

\* The number of lines up to position p of the code.
Upto(p) == Cardinality(Lines(p))

\* A finite set has finitely many lines.
LEMMA LinesFinite ==
  ASSUME NEW p \in Nat
  PROVE  IsFiniteSet(Lines(p)) /\ Upto(p) \in Nat
  <1>1. IsFiniteSet(1 .. p)
    BY FS_Interval
  <1>2. Lines(p) \in SUBSET (1 .. p)
    BY DEF Lines
  <1>3. IsFiniteSet(Lines(p))
    BY <1>1, <1>2, FS_Subset
  <1> QED BY <1>3, FS_CardinalityType DEF Upto

\* There are no lines before the first position.
LEMMA NoLines == Upto(0) = 0
  <1>1. Lines(0) = {}
    BY DEF Lines
  <1> QED BY <1>1, FS_EmptySet DEF Upto

\* One position further: a label takes no line.
LEMMA NextLine ==
  ASSUME NEW p \in Nat
  PROVE  Upto(p + 1) = IF emit.code[p + 1].op = "LABEL" THEN Upto(p) ELSE Upto(p) + 1
  <1>1. IsFiniteSet(Lines(p)) /\ p + 1 \notin Lines(p)
    BY LinesFinite DEF Lines
  <1>2. Lines(p + 1) = IF emit.code[p + 1].op = "LABEL" THEN Lines(p) ELSE Lines(p) \cup {p + 1}
    BY DEF Lines
  <1> QED BY <1>1, <1>2, FS_AddElement DEF Upto

\* Further positions have no fewer lines.
LEMMA MoreLines ==
  ASSUME NEW p \in Nat, NEW q \in Nat, p <= q
  PROVE  Upto(p) <= Upto(q)
  <1>1. Lines(p) \in SUBSET Lines(q)
    BY DEF Lines
  <1> QED BY <1>1, LinesFinite, FS_Subset DEF Upto

\* A position with an instruction on it begins a line.
LEMMA NewLine ==
  ASSUME NEW p \in Nat, NEW q \in Nat, p < q, emit.code[q].op # "LABEL"
  PROVE  Upto(p) < Upto(q)
  <1>1. q - 1 \in Nat /\ p <= q - 1 /\ q - 1 + 1 = q
    OBVIOUS
  <1>2. Upto(p) <= Upto(q - 1)
    BY <1>1, MoreLines
  <1>3. Upto(q) = Upto(q - 1) + 1
    BY <1>1, NextLine
  <1>4. Upto(p) \in Nat /\ Upto(q - 1) \in Nat
    BY <1>1, LinesFinite
  <1> QED BY <1>2, <1>3, <1>4

\* The instruction at position p is on line Upto(p).
LEMMA LineAt ==
  ASSUME emit \in Block, NEW p \in 1 .. Len(emit.code), emit.code[p].op # "LABEL"
  PROVE  Line(Upto(p)) = emit.code[p] /\ Upto(p) \in 1 .. LineCount
  <1> DEFINE N == Len(emit.code)
  <1>1. N \in Nat
    BY BlockType
  <1>2. p \in Lines(N)
    BY DEF Lines
  <1>3. ASSUME NEW q \in Lines(N), Cardinality(Lines(q)) = Upto(p)
        PROVE  q = p
    <2>1. q \in Nat /\ p \in Nat /\ emit.code[q].op # "LABEL" /\ Upto(q) = Upto(p)
      BY <1>1, <1>3 DEF Lines, Upto
    <2>2. ~ (p < q) /\ ~ (q < p)
      BY <2>1, NewLine, LinesFinite, SMTT(40)
    <2> QED BY <2>1, <2>2
  <1>4. (CHOOSE q \in Lines(N) : Cardinality(Lines(q)) = Upto(p)) = p
    BY <1>2, <1>3 DEF Upto
  <1>5. Upto(p) \in 1 .. Upto(N)
    <2>1. Upto(0) < Upto(p) /\ Upto(p) <= Upto(N)
      BY <1>1, NewLine, MoreLines
    <2> QED BY <1>1, <2>1, NoLines, LinesFinite
  <1> QED BY <1>4, <1>5 DEF Line, LineCount, Upto

\* Every line is that of a position.
LEMMA LinePlace ==
  ASSUME emit \in Block, NEW n \in 1 .. LineCount
  PROVE  \E p \in 1 .. Len(emit.code) :
           emit.code[p].op # "LABEL" /\ Upto(p) = n /\ Line(n) = emit.code[p]
  <1> DEFINE N == Len(emit.code)
             R == {p \in Nat : Upto(p) >= n}
  <1>1. N \in Nat /\ LineCount = Upto(N) /\ n \in Nat /\ n > 0
    BY BlockType, LinesFinite DEF LineCount, Upto
  <1>2. N \in R
    BY <1>1
  <1>3. PICK p \in R : \A q \in R : p <= q
    <2>1. R \subseteq Nat /\ R # {}
      BY <1>2
    <2> HIDE DEF R
    <2> QED BY <2>1, LeastNat
  <1>4. p \in Nat /\ p # 0 /\ p <= N
    BY <1>1, <1>2, <1>3, NoLines
  <1>5. p - 1 \in Nat /\ p - 1 + 1 = p /\ p \in 1 .. N
    BY <1>1, <1>4
  <1>6. Upto(p - 1) < n
    BY <1>1, <1>3, <1>5, LinesFinite
  <1>7. emit.code[p].op # "LABEL" /\ Upto(p) = n
    <2>1. Upto(p) = IF emit.code[p].op = "LABEL" THEN Upto(p - 1) ELSE Upto(p - 1) + 1
      BY <1>5, NextLine
    <2>2. Upto(p) >= n /\ Upto(p - 1) \in Nat
      BY <1>3, <1>5, LinesFinite
    <2> QED BY <1>1, <1>6, <2>1, <2>2
  <1>8. Line(n) = emit.code[p]
    BY <1>5, <1>7, LineAt
  <1> QED BY <1>5, <1>7, <1>8

\* ---- where jumps go ----------------------------------------------------------------------

\* In a complete program the chain of patched labels has at most two of them.
LEMMA LastLabel ==
  ASSUME Sound(emit, {})
  PROVE  \A l \in Labels(emit) : Last[l] = IF emit.next[l] = 0 THEN l ELSE emit.next[l]
  <1> DEFINE K == Labels(emit)
             f == [l \in K |-> IF emit.next[l] = 0 THEN l ELSE emit.next[l]]
  <1>1. \A l \in K : emit.next[l] # 0 => emit.next[l] \in K /\ emit.next[emit.next[l]] = 0
    BY DEF Sound
  <1> HIDE DEF K
  <1>2. f = [l \in K |-> IF emit.next[l] = 0 THEN l ELSE f[emit.next[l]]]
    BY <1>1
  <1>3. \E g : g = [l \in K |-> IF emit.next[l] = 0 THEN l ELSE g[emit.next[l]]]
    BY <1>2
  <1>4. Last = [l \in K |-> IF emit.next[l] = 0 THEN l ELSE Last[emit.next[l]]]
    BY <1>3 DEF Last, K
  <1> HIDE DEF f
  <1>5. ASSUME NEW l \in K
        PROVE  Last[l] = IF emit.next[l] = 0 THEN l ELSE emit.next[l]
    <2>1. CASE emit.next[l] = 0
      BY <1>4, <2>1
    <2>2. CASE emit.next[l] # 0
      <3>1. emit.next[l] \in K /\ emit.next[emit.next[l]] = 0
        BY <1>1, <2>2
      <3>2. Last[emit.next[l]] = emit.next[l]
        BY <1>4, <3>1
      <3> QED BY <1>4, <2>2, <3>2
    <2> QED BY <2>1, <2>2
  <1> QED BY <1>5 DEF K

\* The address of a jump is that of the line behind its label.
LEMMA JumpPlace ==
  ASSUME Sound(emit, {}), NEW l \in Targets(emit)
  PROVE  /\ l \in 1 .. Len(emit.next)
         /\ \E at \in 1 .. Len(emit.code) :
              /\ emit.code[at].op = "LABEL"
              /\ emit.code[at].label = IF emit.next[l] = 0 THEN l ELSE emit.next[l]
              /\ Address(l) = 1 + Upto(at)
  <1> DEFINE t == IF emit.next[l] = 0 THEN l ELSE emit.next[l]
  <1>1. l \in Labels(emit) /\ DOMAIN emit.code = 1 .. Len(emit.code)
    BY BlockType DEF Sound
  <1>2. t \in Defined(emit)
    BY <1>1 DEF Sound
  <1>3. Last[l] = t
    BY <1>1, LastLabel
  <1> HIDE DEF t
  <1>4. \E p \in DOMAIN emit.code : emit.code[p].op = "LABEL" /\ emit.code[p].label = t
    BY <1>2, DefinedAt
  <1> DEFINE at == CHOOSE p \in DOMAIN emit.code : emit.code[p].op = "LABEL" /\ emit.code[p].label = Last[l]
  <1>5. at \in 1 .. Len(emit.code) /\ emit.code[at].op = "LABEL" /\ emit.code[at].label = t
    BY <1>1, <1>3, <1>4
  <1>6. Address(l) = 1 + Upto(at)
    BY DEF Address, StartAddress, Upto
  <1> QED BY <1>1, <1>5, <1>6 DEF Labels, t

\* ---- the shape of the output -----------------------------------------------------------------

\* An instruction of a body whose jumps go to the lines from low to high.
Within(i, low, high, calls) ==
  /\ i.op \in BodyOps \ {"LABEL"}
  /\ i.op \in JumpOps => Address(i.label) \in low .. high
  /\ i.op = "JLINK" => calls

\* The output is the function on the first A lines, if there is one, and the
\* program, and control stays in either but by calls and returns.
Program(A) ==
  /\ A \in Nat /\ LineCount \in Nat /\ A < LineCount
  /\ A = 0 \/ /\ A >= 4
              /\ Line(1).op = "UJUMP" /\ Address(Line(1).label) = A + 1
              /\ Line(2).op = "SAVE"
              /\ \A n \in 3 .. A - 2 : Within(Line(n), 3, A - 1, Line(2).id = 1)
              /\ Line(A - 1).op = "RESTORE" /\ Line(A - 1).id = Line(2).id
              /\ Line(A).op = "RETRN"
  /\ \A n \in A + 1 .. LineCount - 1 : Within(Line(n), A + 1, LineCount, A # 0)
  /\ Line(LineCount).op = "HALT"
  /\ SavesLR <=> A # 0 /\ Line(2).id = 1

\* Where the lines of a complete function are.
LEMMA FunctionLines ==
  ASSUME emit \in Block, NEW S, NEW L, Sealed(emit, S, L)
  PROVE  /\ Upto(1) = 1 /\ Upto(2) = 2 /\ Upto(3) = 2 /\ Upto(S) >= 4 /\ Upto(S) \in Nat
         /\ Upto(S - 3) = Upto(S) - 2 /\ Upto(S - 2) = Upto(S) - 1 /\ Upto(S - 1) = Upto(S)
         /\ \A p \in 3 .. S - 3 : Upto(p) \in 2 .. Upto(S) - 2
  <1>1. S \in Nat /\ S >= 6 /\ Len(emit.code) \in Nat
    BY BlockType DEF Sealed
  <1>2. /\ emit.code[1].op # "LABEL" /\ emit.code[2].op # "LABEL" /\ emit.code[3].op = "LABEL"
        /\ emit.code[S - 2].op # "LABEL" /\ emit.code[S - 1].op # "LABEL" /\ emit.code[S].op = "LABEL"
    BY DEF Sealed
  <1>3. Upto(1) = 1
    <2>1. Upto(0 + 1) = Upto(0) + 1
      BY <1>2, NextLine
    <2> QED BY <2>1, NoLines
  <1>4. Upto(2) = 2
    <2>1. Upto(1 + 1) = Upto(1) + 1
      BY <1>2, NextLine
    <2> QED BY <1>3, <2>1
  <1>5. Upto(3) = 2
    <2>1. Upto(2 + 1) = Upto(2)
      BY <1>2, NextLine
    <2> QED BY <1>4, <2>1
  <1>6. S - 3 \in Nat /\ S - 3 + 1 = S - 2 /\ S - 2 \in Nat /\ S - 2 + 1 = S - 1 /\ S - 1 \in Nat
        /\ S - 1 + 1 = S /\ 3 <= S - 3
    BY <1>1
  <1>7. Upto(S - 2) = Upto(S - 3) + 1 /\ Upto(S - 1) = Upto(S - 2) + 1 /\ Upto(S) = Upto(S - 1)
    BY <1>2, <1>6, NextLine
  <1>8. Upto(S - 3) \in Nat /\ Upto(S - 3) >= 2
    BY <1>5, <1>6, LinesFinite, MoreLines
  <1>9. ASSUME NEW p \in 3 .. S - 3 PROVE Upto(p) \in 2 .. Upto(S) - 2
    <2>1. p \in Nat /\ 3 <= p /\ p <= S - 3
      BY <1>6
    <2>2. Upto(3) <= Upto(p) /\ Upto(p) <= Upto(S - 3) /\ Upto(p) \in Nat
      BY <1>6, <2>1, MoreLines, LinesFinite
    <2> QED BY <1>5, <1>7, <1>8, <2>2
  <1> QED BY <1>3, <1>4, <1>5, <1>7, <1>8, <1>9

\* The labels in a complete function and behind it.
LEMMA LabelPlaces ==
  ASSUME emit \in Block, NEW S, NEW L, Layout(emit, S, L),
         NEW at \in 1 .. Len(emit.code), emit.code[at].op = "LABEL"
  PROVE  /\ emit.code[at].label = 1 /\ S # 0 => at = S
         /\ emit.code[at].label \in 3 .. L => at \in 4 .. S - 3
         /\ emit.code[at].label > L => at \in S + 1 .. Len(emit.code) - 1
  <1> DEFINE N == Len(emit.code)
             l == emit.code[at].label
  <1>1. /\ N \in Nat /\ S \in Nat /\ L \in Nat /\ N > S /\ at # N
        /\ l \in Nat
    BY BlockType DEF Layout, Instruction
  <1>2. CASE at \in S + 1 .. N
    <2>1. at \in S + 1 .. N - 1
      BY <1>1, <1>2
    <2>2. l > L
      BY <2>1 DEF Layout, Body, BodyInst
    <2>3. S # 0 => L >= 2
      BY DEF Layout, Sealed
    <2> QED BY <1>1, <2>1, <2>2, <2>3
  <1>3. CASE at \in 1 .. S
    <2>1. Sealed(emit, S, L) /\ S >= 6 /\ L >= 2
      <3>1. Sealed(emit, S, L)
        BY <1>1, <1>3 DEF Layout
      <3>2. Len(emit.next) \in Nat
        BY BlockType
      <3>3. S \in 6 .. Len(emit.code) /\ L \in 2 .. Len(emit.next)
        BY <3>1 DEF Sealed
      <3> QED BY <1>1, <3>1, <3>2, <3>3
    <2>2. /\ emit.code[1].op # "LABEL" /\ emit.code[2].op # "LABEL" /\ emit.code[3].label = 2
          /\ emit.code[S - 2].op # "LABEL" /\ emit.code[S - 1].op # "LABEL"
          /\ emit.code[S].label = 1
      BY <2>1 DEF Sealed
    <2>3. at = 1 \/ at = 2 \/ at = 3 \/ at \in 4 .. S - 3 \/ at = S - 2 \/ at = S - 1 \/ at = S
      BY <1>1, <1>3, <2>1, SMTT(40)
    <2>4. CASE at \in 4 .. S - 3
      <3>1. l > 2 /\ l <= L
        BY <2>1, <2>4 DEF Sealed, BodyInst
      <3> QED BY <1>1, <2>4, <3>1
    <2> QED BY <1>1, <2>1, <2>2, <2>3, <2>4, SMTT(30)
  <1> QED BY <1>1, <1>2, <1>3

\* The jump around the function goes to the line behind it.
LEMMA SkipJump ==
  ASSUME Sound(emit, {}), NEW S, NEW L, Layout(emit, S, L), S # 0
  PROVE  Address(emit.code[1].label) = Upto(S) + 1
  <1>1. emit \in Block /\ 1 \in 1 .. Len(emit.code) /\ DOMAIN emit.code = 1 .. Len(emit.code)
    BY BlockType DEF Sound, Layout
  <1>2. /\ emit.code[1].op = "UJUMP" /\ emit.code[1].label = 1 /\ emit.next[1] = 0
        /\ S \in Nat
    BY DEF Layout, Sealed
  <1>3. 1 \in Targets(emit)
    BY <1>1, <1>2, TargetAt DEF JumpOps
  <1>4. PICK at \in 1 .. Len(emit.code) :
          emit.code[at].op = "LABEL" /\ emit.code[at].label = 1 /\ Address(1) = 1 + Upto(at)
    BY <1>2, <1>3, JumpPlace
  <1>5. at = S
    BY <1>1, <1>4, LabelPlaces
  <1> QED BY <1>2, <1>4, <1>5, LinesFinite

\* A jump in the function stays there.
LEMMA FunctionJump ==
  ASSUME Sound(emit, {}), NEW S, NEW L, Layout(emit, S, L),
         NEW p \in 4 .. S - 3, emit.code[p].op \in JumpOps
  PROVE  Address(emit.code[p].label) \in 3 .. Upto(S) - 1
  <1> DEFINE l == emit.code[p].label
             t == IF emit.next[l] = 0 THEN l ELSE emit.next[l]
  <1>1. /\ emit \in Block /\ DOMAIN emit.code = 1 .. Len(emit.code) /\ Len(emit.code) \in Nat
        /\ S \in Nat /\ L \in Nat /\ S < Len(emit.code)
    BY BlockType DEF Sound, Layout
  <1>2. Sealed(emit, S, L)
    BY <1>1 DEF Layout
  <1>3. l > 2 /\ l <= L /\ p \in DOMAIN emit.code
    BY <1>1, <1>2, SMTT(40) DEF Sealed, BodyInst
  <1>4. l \in Targets(emit)
    BY <1>3, TargetAt
  <1>5. /\ l \in 1 .. Len(emit.next)
        /\ \E at \in 1 .. Len(emit.code) :
             emit.code[at].op = "LABEL" /\ emit.code[at].label = t /\ Address(l) = 1 + Upto(at)
    BY <1>4, JumpPlace
  <1>6. t \in 3 .. L
    <2>1. l \in 3 .. L
      BY <1>1, <1>3, <1>5
    <2> QED BY <1>2, <2>1 DEF Sealed
  <1> HIDE DEF l, t
  <1>7. PICK at \in 1 .. Len(emit.code) :
          emit.code[at].op = "LABEL" /\ emit.code[at].label = t /\ Address(l) = 1 + Upto(at)
    BY <1>5
  <1>8. at \in 4 .. S - 3
    BY <1>1, <1>6, <1>7, LabelPlaces
  <1>9. at \in 3 .. S - 3
    BY <1>1, <1>8
  <1>10. Upto(at) \in 2 .. Upto(S) - 2 /\ Upto(S) \in Nat
    BY <1>1, <1>2, <1>9, FunctionLines
  <1>11. Address(l) \in 3 .. Upto(S) - 1
    BY <1>7, <1>10
  <1> QED BY <1>11 DEF l

\* A jump in the program stays there.
LEMMA ProgramJump ==
  ASSUME Sound(emit, {}), NEW S, NEW L, Layout(emit, S, L),
         NEW p \in S + 1 .. Len(emit.code) - 1, emit.code[p].op \in JumpOps
  PROVE  Address(emit.code[p].label) \in Upto(S) + 1 .. LineCount
  <1> DEFINE l == emit.code[p].label
             t == IF emit.next[l] = 0 THEN l ELSE emit.next[l]
             N == Len(emit.code)
  <1>1. /\ emit \in Block /\ DOMAIN emit.code = 1 .. N /\ N \in Nat
        /\ S \in Nat /\ L \in Nat /\ S < N
    BY BlockType DEF Sound, Layout
  <1>2. l > L /\ p \in DOMAIN emit.code
    BY <1>1 DEF Layout, Body, BodyInst
  <1>3. l \in Targets(emit)
    BY <1>2, TargetAt
  <1>4. /\ l \in 1 .. Len(emit.next)
        /\ \E at \in 1 .. N :
             emit.code[at].op = "LABEL" /\ emit.code[at].label = t /\ Address(l) = 1 + Upto(at)
    BY <1>3, JumpPlace
  <1>5. t > L
    <2>1. l \in L + 1 .. Len(emit.next)
      BY <1>1, <1>2, <1>4
    <2> QED BY <1>2, <2>1 DEF Layout, Body
  <1> HIDE DEF l, t
  <1>6. PICK at \in 1 .. N :
          emit.code[at].op = "LABEL" /\ emit.code[at].label = t /\ Address(l) = 1 + Upto(at)
    BY <1>4
  <1>7. at \in S + 1 .. N - 1
    BY <1>1, <1>5, <1>6, LabelPlaces
  <1>8. Upto(S) <= Upto(at) /\ Upto(at) <= Upto(N - 1) /\ Upto(S) \in Nat /\ Upto(at) \in Nat
    <2>1. S \in 0 .. N /\ at \in Nat /\ N - 1 \in Nat /\ S <= at /\ at <= N - 1
      BY <1>1, <1>7
    <2> HIDE DEF N
    <2>2. Upto(S) \in Nat /\ Upto(at) \in Nat
      BY <1>1, <2>1, LinesFinite
    <2>3. Upto(S) <= Upto(at)
      BY <1>1, <2>1, MoreLines
    <2>4. Upto(at) <= Upto(N - 1)
      BY <2>1, MoreLines
    <2> QED BY <2>2, <2>3, <2>4
  <1>9. LineCount = Upto(N - 1) + 1
    <2>1. emit.code[N].op # "LABEL" /\ N - 1 \in Nat /\ N - 1 + 1 = N
      BY <1>1 DEF Layout
    <2> QED BY <2>1, NextLine DEF LineCount, Upto
  <1>10. Address(l) \in Upto(S) + 1 .. LineCount
    <2>1. Upto(N - 1) \in Nat
      <3>1. N - 1 \in Nat
        BY <1>1
      <3> QED BY <3>1, LinesFinite
    <2> QED BY <1>6, <1>8, <1>9, <2>1
  <1> QED BY <1>10 DEF l

\* Whether the function saves the link register.
LEMMA Saves ==
  ASSUME emit \in Block, NEW S, NEW L, Layout(emit, S, L)
  PROVE  SavesLR <=> (S # 0 /\ emit.code[2].id = 1)
  <1>1. /\ DOMAIN emit.code = 1 .. Len(emit.code) /\ Len(emit.code) \in Nat
        /\ S \in Nat /\ L \in Nat /\ S < Len(emit.code)
    BY BlockType DEF Layout
  <1>b. "SAVE" \notin BodyOps
    BY DEF BodyOps, JumpOps
  <1>2. ASSUME NEW p \in 1 .. Len(emit.code), emit.code[p].op = "SAVE"
        PROVE  S # 0 /\ p = 2
    <2>1. ~ (p \in S + 1 .. Len(emit.code) - 1)
      BY <1>b, <1>2 DEF Layout, Body, BodyInst
    <2>2. p # Len(emit.code)
      BY <1>2 DEF Layout
    <2>3. p \in 1 .. S
      BY <1>1, <2>1, <2>2
    <2>4. Sealed(emit, S, L)
      BY <1>1, <2>3 DEF Layout
    <2>5. ~ (p \in 4 .. S - 3)
      BY <1>b, <1>2, <2>4 DEF Sealed, BodyInst
    <2>6. p # 1 /\ p # 3 /\ p # S - 2 /\ p # S - 1 /\ p # S
      BY <1>2, <2>4 DEF Sealed
    <2> QED BY <1>1, <2>3, <2>5, <2>6
  <1>3. ASSUME S # 0 PROVE 2 \in 1 .. Len(emit.code) /\ emit.code[2].op = "SAVE"
    <2>1. Sealed(emit, S, L)
      BY <1>1, <1>3 DEF Layout
    <2> QED BY <1>1, <2>1 DEF Sealed
  <1> QED BY <1>1, <1>2, <1>3 DEF SavesLR

\* The shape of the code is that of the output.
LEMMA LayoutLines ==
  ASSUME Sound(emit, {}), NEW S, NEW L, Layout(emit, S, L)
  PROVE  Program(Upto(S))
  <1> DEFINE A == Upto(S)
             N == Len(emit.code)
  <1>1. /\ emit \in Block /\ N \in Nat /\ S \in Nat /\ L \in Nat /\ S < N
        /\ A \in Nat /\ LineCount \in Nat /\ LineCount = Upto(N)
    BY BlockType, LinesFinite DEF Sound, Layout, LineCount, Upto
  <1>2. Line(LineCount).op = "HALT" /\ A < LineCount
    <2>1. emit.code[N].op = "HALT" /\ N \in 1 .. N
      BY <1>1 DEF Layout
    <2>2. Line(Upto(N)) = emit.code[N]
      BY <1>1, <2>1, LineAt
    <2>3. Upto(S) < Upto(N)
      BY <1>1, <2>1, NewLine
    <2> QED BY <1>1, <2>1, <2>2, <2>3
  <1>3. A = 0 <=> S = 0
    <2>1. S # 0 => A >= 4
      BY <1>1, FunctionLines DEF Layout
    <2> QED BY <1>1, <2>1, NoLines
  <1>4. ASSUME NEW n \in A + 1 .. LineCount - 1
        PROVE  Within(Line(n), A + 1, LineCount, A # 0)
    <2>1. n \in 1 .. LineCount
      BY <1>1
    <2>2. PICK p \in 1 .. N : emit.code[p].op # "LABEL" /\ Upto(p) = n /\ Line(n) = emit.code[p]
      BY <1>1, <2>1, LinePlace
    <2>3. p # N /\ ~ (p <= S)
      BY <1>1, <2>2, MoreLines
    <2>4. p \in S + 1 .. N - 1
      BY <1>1, <2>3
    <2>5. BodyInst(emit.code[p], L, S # 0)
      BY <2>4 DEF Layout, Body
    <2>6. emit.code[p].op \in JumpOps => Address(emit.code[p].label) \in A + 1 .. LineCount
      BY <2>4, ProgramJump
    <2> QED BY <1>3, <2>2, <2>5, <2>6 DEF Within, BodyInst
  <1>5. ASSUME S # 0
        PROVE  /\ A >= 4
               /\ Line(1).op = "UJUMP" /\ Address(Line(1).label) = A + 1
               /\ Line(2) = emit.code[2] /\ Line(2).op = "SAVE"
               /\ \A n \in 3 .. A - 2 : Within(Line(n), 3, A - 1, Line(2).id = 1)
               /\ Line(A - 1).op = "RESTORE" /\ Line(A - 1).id = Line(2).id
               /\ Line(A).op = "RETRN"
    <2>1. Sealed(emit, S, L)
      BY <1>5 DEF Layout
    <2>2. S >= 6
      BY <1>1, <2>1 DEF Sealed
    <2>3. /\ Upto(1) = 1 /\ Upto(2) = 2 /\ Upto(3) = 2 /\ A >= 4
          /\ Upto(S - 3) = A - 2 /\ Upto(S - 2) = A - 1 /\ Upto(S - 1) = A
      BY <1>1, <2>1, FunctionLines
    <2>4. 1 \in 1 .. N /\ 2 \in 1 .. N /\ S - 2 \in 1 .. N /\ S - 1 \in 1 .. N
      BY <1>1, <2>2
    <2>5. /\ emit.code[1].op = "UJUMP" /\ emit.code[2].op = "SAVE"
          /\ emit.code[S - 2].op = "RESTORE" /\ emit.code[S - 2].id = emit.code[2].id
          /\ emit.code[S - 1].op = "RETRN"
      BY <2>1 DEF Sealed
    <2>6. /\ Line(Upto(1)) = emit.code[1] /\ Line(Upto(2)) = emit.code[2]
          /\ Line(Upto(S - 2)) = emit.code[S - 2] /\ Line(Upto(S - 1)) = emit.code[S - 1]
      BY <1>1, <2>4, <2>5, LineAt
    <2>7. /\ Line(1) = emit.code[1] /\ Line(2) = emit.code[2]
          /\ Line(A - 1) = emit.code[S - 2] /\ Line(A) = emit.code[S - 1]
      BY <2>3, <2>6
    <2>8. Address(Line(1).label) = A + 1
      BY <1>5, <2>7, SkipJump
    <2>9. ASSUME NEW n \in 3 .. A - 2
          PROVE  Within(Line(n), 3, A - 1, emit.code[2].id = 1)
      <3>1. n \in 1 .. LineCount
        BY <1>1, <1>2
      <3>2. PICK p \in 1 .. N : emit.code[p].op # "LABEL" /\ Upto(p) = n /\ Line(n) = emit.code[p]
        BY <1>1, <3>1, LinePlace
      <3>3. p # 1 /\ p # 2 /\ p # 3 /\ ~ (S - 2 <= p)
        BY <1>1, <2>2, <2>3, <3>2, MoreLines, SMTT(30)
      <3>4. p \in 4 .. S - 3
        BY <1>1, <2>2, <3>3
      <3>5. BodyInst(emit.code[p], 2, emit.code[2].id = 1)
        BY <2>1, <3>4 DEF Sealed
      <3>6. emit.code[p].op \in JumpOps => Address(emit.code[p].label) \in 3 .. A - 1
        BY <3>4, FunctionJump
      <3> QED BY <3>2, <3>5, <3>6 DEF Within, BodyInst
    <2> QED BY <2>3, <2>5, <2>7, <2>8, <2>9
  <1>6. SavesLR <=> A # 0 /\ Line(2).id = 1
    BY <1>1, <1>3, <1>5, Saves
  <1> HIDE DEF A
  <1>7. Program(A)
    BY <1>1, <1>2, <1>3, <1>4, <1>5, <1>6 DEF Program
  <1> QED BY <1>7 DEF A

\* ---- the run -----------------------------------------------------------------------------------

\* The return addresses of the calls in progress: the first call was made by the
\* program, the others by the function.
Stacked(r, A, n) ==
  /\ r \in Seq(1 .. n)
  /\ \A i \in 1 .. Len(r) : r[i] \in IF i = 1 THEN A + 1 .. n ELSE 3 .. A - 1

\* Where control is says where the return addresses are: in the program there are
\* none, in the body of the function they are all saved, and in front of the
\* prologue and behind the epilogue the last of them is in the link register.  A
\* function that does not call leaves its one there.
RunAt(A) ==
  /\ pc \in {0, 1} \/ pc > A => depth = 0 /\ frames = <<>>
  /\ pc \in 2 .. A /\ ~ SavesLR => frames = <<>> /\ depth = 1 /\ lr \in A + 1 .. LineCount
  /\ pc \in 3 .. A - 1 /\ SavesLR => Stacked(frames, A, LineCount) /\ depth = Len(frames) /\ depth > 0
  /\ pc \in {2, A} \cap (2 .. A) /\ SavesLR =>
       Stacked(Append(frames, lr), A, LineCount) /\ depth = Len(frames) + 1

\* The registers of the emulator and what is known of the last event.
Registers ==
  /\ pc \in 0 .. LineCount /\ cmp \in {0, 1} /\ lr \in 0 .. LineCount
  /\ frames \in Seq(1 .. LineCount) /\ depth \in Nat
  /\ event = NoEvent => pc = 0 /\ lr = 0 /\ frames = <<>> /\ depth = 0
  /\ pc = 0 => event \in {NoEvent, HaltEvent}

RunInv ==
  /\ Registers
  /\ status # "done" => event = NoEvent
  /\ status = "done" => \E S, L, A : Layout(emit, S, L) /\ A = Upto(S) /\ RunAt(A)

\* The output of the same code is the same.
LEMMA SameLines ==
  ASSUME emit' = emit
  PROVE  /\ LineCount' = LineCount /\ (SavesLR' <=> SavesLR)
         /\ \A p : Upto(p)' = Upto(p)
  BY DEF LineCount, Upto, Lines, SavesLR

\* What an instruction must do for the invariant to go on.
LEMMA Runs ==
  ASSUME status = "done", UNCHANGED vars, NEW S, NEW L, Layout(emit, S, L),
         NEW A, A = Upto(S), Registers', RunAt(A)'
  PROVE  RunInv'
  <1>1. emit' = emit /\ status' = "done"
    BY DEF vars
  <1>2. A = Upto(S)'
    BY <1>1, SameLines
  <1> QED BY <1>1, <1>2 DEF RunInv

\* ---- one step for each instruction ---------------------------------------------------------------

\* The emulator is at line pc of a complete program.
Executing(A) ==
  /\ pc \in 1 .. LineCount /\ Registers /\ RunAt(A) /\ Program(A)
  /\ LineCount' = LineCount /\ (SavesLR' <=> SavesLR)

\* The events differ from no event.
LEMMA Happens ==
  /\ \A id : OpEvent(id) # NoEvent /\ CallEvent(id) # NoEvent
  /\ \A id, outcome : TestEvent(id, outcome) # NoEvent
  /\ ReturnEvent # NoEvent /\ HaltEvent # NoEvent /\ Ready # NoEvent
  BY DEF OpEvent, CallEvent, TestEvent, ReturnEvent, HaltEvent, Ready, NoEvent

\* The places of a line: the jump around the function, its prologue, its body, its
\* epilogue and its return, the program, and its end.
LEMMA Places ==
  ASSUME NEW A, Program(A), pc \in 1 .. LineCount
  PROVE  \/ A >= 4 /\ pc = 1 /\ Line(pc).op = "UJUMP" /\ Address(Line(pc).label) = A + 1
         \/ A >= 4 /\ pc = 2 /\ Line(pc).op = "SAVE" /\ (SavesLR <=> Line(pc).id = 1)
         \/ A >= 4 /\ pc \in 3 .. A - 2 /\ Within(Line(pc), 3, A - 1, SavesLR)
         \/ A >= 4 /\ pc = A - 1 /\ Line(pc).op = "RESTORE" /\ (SavesLR <=> Line(pc).id = 1)
         \/ A >= 4 /\ pc = A /\ Line(pc).op = "RETRN"
         \/ pc \in A + 1 .. LineCount - 1 /\ Within(Line(pc), A + 1, LineCount, A >= 4)
         \/ pc = LineCount /\ Line(pc).op = "HALT"
  <1>1. A \in Nat /\ LineCount \in Nat /\ (A = 0 \/ A >= 4)
    BY DEF Program
  <1>2. CASE pc \in A + 1 .. LineCount - 1
    <2>1. Within(Line(pc), A + 1, LineCount, A # 0)
      BY <1>2 DEF Program
    <2> QED BY <1>1, <1>2, <2>1 DEF Within
  <1>3. CASE A >= 4 /\ pc \in 3 .. A - 2
    <2>1. Within(Line(pc), 3, A - 1, Line(2).id = 1)
      BY <1>1, <1>3 DEF Program
    <2>2. SavesLR <=> Line(2).id = 1
      BY <1>1, <1>3 DEF Program
    <2> QED BY <1>1, <1>3, <2>1, <2>2 DEF Within
  <1>4. CASE A >= 4 /\ pc \in {1, 2, A - 1, A}
    <2>1. /\ Line(1).op = "UJUMP" /\ Address(Line(1).label) = A + 1
          /\ Line(2).op = "SAVE" /\ Line(A - 1).op = "RESTORE" /\ Line(A - 1).id = Line(2).id
          /\ Line(A).op = "RETRN" /\ (SavesLR <=> Line(2).id = 1)
      BY <1>1, <1>4 DEF Program
    <2> QED BY <1>4, <2>1
  <1>5. CASE pc = LineCount
    BY <1>5 DEF Program
  <1>6. \/ pc \in A + 1 .. LineCount - 1 \/ pc = LineCount
        \/ A >= 4 /\ (pc \in 3 .. A - 2 \/ pc \in {1, 2, A - 1, A})
    BY <1>1
  <1> QED BY <1>2, <1>3, <1>4, <1>5, <1>6

\* An instruction of a body either stays in it or calls.
LEMMA BodySteps ==
  ASSUME NEW low \in Nat, NEW high \in Nat, pc \in low .. high - 1, cmp \in {0, 1},
         NEW calls, Within(Line(pc), low, high, calls), Instruct(Line(pc))
  PROVE  \/ /\ pc' \in low .. high /\ UNCHANGED <<lr, frames, depth>> /\ cmp' \in {0, 1}
            /\ event' = event \/ event' # NoEvent
         \/ /\ calls /\ pc' = 2 /\ lr' = pc + 1 /\ depth' = depth + 1
            /\ UNCHANGED <<cmp, frames>> /\ event' # NoEvent
  <1> DEFINE i == Line(pc)
  <1>1. /\ i.op \in {"OP", "CMP", "CMPN", "COPYI", "LOADI", "JLINK"} \cup JumpOps
        /\ i.op \in JumpOps => Address(i.label) \in low .. high
        /\ i.op = "JLINK" => calls
    BY DEF Within, BodyOps
  <1>2. pc + 1 \in low .. high
    OBVIOUS
  <1> HIDE DEF i
  <1>3. Instruct(i)
    BY DEF i
  <1>4. CASE IOp(i)
    BY <1>2, <1>4, Happens DEF IOp
  <1>5. CASE ICompare(i)
    BY <1>2, <1>5, Happens DEF ICompare
  <1>6. CASE IMove(i)
    BY <1>2, <1>6 DEF IMove
  <1>7. CASE IJump(i)
    BY <1>1, <1>2, <1>7 DEF IJump
  <1>8. CASE IJlink(i)
    BY <1>1, <1>8, Happens DEF IJlink, FunctionAddress
  <1>9. ~ ISave(i) /\ ~ IRestore(i) /\ ~ IRetrn(i) /\ ~ IHalt(i)
    BY <1>1 DEF ISave, IRestore, IRetrn, IHalt, JumpOps
  <1> QED BY <1>3, <1>4, <1>5, <1>6, <1>7, <1>8, <1>9 DEF Instruct

\* In the program there are no return addresses, wherever it goes on.
LEMMA InProgram ==
  ASSUME NEW A \in Nat, A < pc', depth' = 0, frames' = <<>>, pc' \in Nat
  PROVE  RunAt(A)'
  <1>1. pc' \notin 2 .. A /\ pc' \notin 3 .. A - 1
    OBVIOUS
  <1> QED BY <1>1 DEF RunAt

\* A call.
LEMMA CallStep ==
  ASSUME NEW A \in Nat, A >= 4, Executing(A), pc' = 2, depth' = depth + 1, frames' = frames,
         lr' \in 1 .. LineCount,
         SavesLR => Stacked(Append(frames, lr'), A, LineCount) /\ depth = Len(frames),
         ~ SavesLR => frames = <<>> /\ depth = 0 /\ lr' \in A + 1 .. LineCount
  PROVE  RunAt(A)'
  <1>1. LineCount' = LineCount /\ (SavesLR' <=> SavesLR)
    BY DEF Executing
  <1>2. pc' \notin {0, 1} /\ ~ (pc' > A) /\ pc' \notin 3 .. A - 1
    OBVIOUS
  <1>3. SavesLR => Stacked(Append(frames', lr'), A, LineCount')
    BY <1>1
  <1>4. ~ SavesLR => depth' = 1
    OBVIOUS
  <1> QED BY <1>1, <1>2, <1>3, <1>4 DEF RunAt

\* The first return address.
LEMMA FirstAddress ==
  ASSUME NEW A \in Nat, NEW n \in Nat, NEW x \in A + 1 .. n
  PROVE  Stacked(Append(<<>>, x), A, n)
  <1>1. x \in 1 .. n /\ <<>> \in Seq(1 .. n)
    OBVIOUS
  <1>2. Append(<<>>, x) \in Seq(1 .. n) /\ Len(Append(<<>>, x)) = 1 /\ Append(<<>>, x)[1] = x
    BY <1>1
  <1> QED BY <1>2 DEF Stacked

\* One more return address.
LEMMA MoreAddresses ==
  ASSUME NEW A \in Nat, NEW n \in Nat, A <= n, NEW r, Stacked(r, A, n), r # <<>>,
         NEW x \in 3 .. A - 1
  PROVE  Stacked(Append(r, x), A, n)
  <1>1. r \in Seq(1 .. n) /\ x \in 1 .. n /\ Len(r) > 0
    BY DEF Stacked
  <1>2. /\ Append(r, x) \in Seq(1 .. n) /\ Len(Append(r, x)) = Len(r) + 1
        /\ Append(r, x)[Len(r) + 1] = x
        /\ \A i \in 1 .. Len(r) : Append(r, x)[i] = r[i]
    BY <1>1
  <1> QED BY <1>1, <1>2 DEF Stacked

\* The last return address and the ones below it.
LEMMA LastAddress ==
  ASSUME NEW A \in Nat, NEW n \in Nat, NEW r \in Seq(1 .. n), NEW x \in 0 .. n,
         Stacked(Append(r, x), A, n)
  PROVE  /\ Stacked(r, A, n)
         /\ r = <<>> => x \in A + 1 .. n
         /\ r # <<>> => x \in 3 .. A - 1
  <1> DEFINE q == Append(r, x)
  <1>1. /\ Len(q) = Len(r) + 1 /\ q[Len(r) + 1] = x /\ Len(r) \in Nat
        /\ \A i \in 1 .. Len(r) : q[i] = r[i]
    OBVIOUS
  <1> HIDE DEF q
  <1>2. \A i \in 1 .. Len(q) : q[i] \in IF i = 1 THEN A + 1 .. n ELSE 3 .. A - 1
    BY DEF Stacked, q
  <1>3. \A i \in 1 .. Len(r) : r[i] \in IF i = 1 THEN A + 1 .. n ELSE 3 .. A - 1
    BY <1>1, <1>2
  <1>4. x \in IF Len(r) = 0 THEN A + 1 .. n ELSE 3 .. A - 1
    BY <1>1, <1>2
  <1>5. r = <<>> <=> Len(r) = 0
    OBVIOUS
  <1> QED BY <1>3, <1>4, <1>5 DEF Stacked

\* A sequence is what is below its last element, and that.
LEMMA TakenApart ==
  ASSUME NEW T, NEW r \in Seq(T), r # <<>>
  PROVE  /\ SubSeq(r, 1, Len(r) - 1) \in Seq(T)
         /\ Len(SubSeq(r, 1, Len(r) - 1)) = Len(r) - 1
         /\ Append(SubSeq(r, 1, Len(r) - 1), r[Len(r)]) = r
         /\ r[Len(r)] \in T
  <1> DEFINE k == Len(r) - 1
             q == SubSeq(r, 1, k)
  <1>1. Len(r) \in Nat \ {0} /\ k \in Nat /\ k + 1 = Len(r)
    OBVIOUS
  <1> HIDE DEF k
  <1>a. \A i \in 1 .. k : r[i] \in T
    BY <1>1
  <1>b. q \in Seq(T) /\ Len(q) = k /\ \A i \in 1 .. k : q[i] = r[i]
    BY <1>1, <1>a
  <1>2. q \in Seq(T) /\ Len(q) = Len(r) - 1 /\ \A i \in 1 .. Len(r) - 1 : q[i] = r[i]
    BY <1>1, <1>b DEF k
  <1>3. r[Len(r)] \in T
    BY <1>1
  <1> HIDE DEF q
  <1>4. /\ Append(q, r[Len(r)]) \in Seq(T) /\ Len(Append(q, r[Len(r)])) = Len(r)
        /\ \A i \in 1 .. Len(r) : Append(q, r[Len(r)])[i] = r[i]
    BY <1>1, <1>2, <1>3
  <1> DEFINE s == Append(q, r[Len(r)])
  <1>5. s \in Seq(T) /\ Len(s) = Len(r) /\ \A i \in 1 .. Len(r) : s[i] = r[i]
    BY <1>4
  <1> HIDE DEF s
  <1>6. s = r
    BY <1>5
  <1> QED BY <1>2, <1>3, <1>6 DEF q, s, k

\* What every instruction must leave.
Left(A) ==
  /\ pc' \in 0 .. LineCount /\ cmp' \in {0, 1} /\ lr' \in 0 .. LineCount
  /\ frames' \in Seq(1 .. LineCount) /\ depth' \in Nat
  /\ event = NoEvent \/ event' = event \/ event' # NoEvent
  /\ pc' = 0 => event' = HaltEvent
  /\ RunAt(A)'

\* A step that leaves control where Left says keeps what is known of the run.
LEMMA Leaves ==
  ASSUME NEW A, Executing(A), Left(A)
  PROVE  Registers' /\ RunAt(A)'
  <1>1. LineCount' = LineCount /\ pc # 0 /\ event # NoEvent
    BY DEF Executing, Registers
  <1>2. event' # NoEvent
    BY <1>1 DEF Left
  <1> QED BY <1>1, <1>2 DEF Registers, Left

\* The jump around the function.
LEMMA AroundStep ==
  ASSUME NEW A \in Nat, A >= 4, A < LineCount, LineCount \in Nat, Executing(A),
         pc = 1, Line(pc).op = "UJUMP", Address(Line(pc).label) = A + 1, Instruct(Line(pc))
  PROVE  Left(A)
  <1> DEFINE i == Line(pc)
  <1>1. IJump(i)
    BY DEF Instruct, IOp, ICompare, IMove, ISave, IRestore, IJlink, IRetrn, IHalt
  <1>2. pc' = A + 1 /\ UNCHANGED <<cmp, lr, frames, depth, event>>
    BY <1>1 DEF IJump
  <1>3. depth = 0 /\ frames = <<>>
    BY DEF Executing, RunAt
  <1> HIDE DEF i
  <1>4. RunAt(A)'
    BY <1>2, <1>3, InProgram
  <1> QED BY <1>2, <1>4 DEF Left, Executing, Registers

\* The prologue.
LEMMA PrologueStep ==
  ASSUME NEW A \in Nat, A >= 4, A < LineCount, LineCount \in Nat, Executing(A),
         pc = 2, Line(pc).op = "SAVE", SavesLR <=> Line(pc).id = 1, Instruct(Line(pc))
  PROVE  Left(A)
  <1> DEFINE i == Line(pc)
  <1>1. ISave(i)
    BY DEF Instruct, IOp, ICompare, IMove, IRestore, IJump, JumpOps, IJlink, IRetrn, IHalt
  <1>2. /\ frames' = IF SavesLR THEN Append(frames, lr) ELSE frames
        /\ pc' = 3 /\ UNCHANGED <<cmp, lr, depth, event>>
    BY <1>1 DEF ISave
  <1> HIDE DEF i
  <1>3. /\ LineCount' = LineCount /\ (SavesLR' <=> SavesLR) /\ Registers
        /\ ~ SavesLR => frames = <<>> /\ depth = 1 /\ lr \in A + 1 .. LineCount
        /\ SavesLR => Stacked(Append(frames, lr), A, LineCount) /\ depth = Len(frames) + 1
    BY DEF Executing, RunAt
  <1>4. /\ frames \in Seq(1 .. LineCount) /\ Len(frames) \in Nat
        /\ Len(Append(frames, lr)) = Len(frames) + 1
    BY <1>3 DEF Registers
  <1>5. pc' \notin {0, 1} /\ ~ (pc' > A) /\ pc' # 2 /\ pc' # A /\ pc' \in 3 .. A - 1
    BY <1>2
  <1>6. frames' \in Seq(1 .. LineCount)
    BY <1>2, <1>3, <1>4 DEF Stacked
  <1>7. CASE SavesLR
    <2>1. /\ Stacked(frames', A, LineCount') /\ depth' = Len(frames') /\ depth' > 0
      BY <1>2, <1>3, <1>4, <1>7
    <2>2. RunAt(A)'
      BY <1>3, <1>5, <1>7, <2>1 DEF RunAt
    <2> QED BY <1>2, <1>3, <1>5, <1>6, <2>2 DEF Left, Registers
  <1>8. CASE ~ SavesLR
    <2>1. frames' = <<>> /\ depth' = 1 /\ lr' \in A + 1 .. LineCount'
      BY <1>2, <1>3, <1>8
    <2>2. RunAt(A)'
      BY <1>3, <1>5, <1>8, <2>1 DEF RunAt
    <2> QED BY <1>2, <1>3, <1>5, <1>6, <2>2 DEF Left, Registers
  <1> QED BY <1>7, <1>8

\* The epilogue.
LEMMA EpilogueStep ==
  ASSUME NEW A \in Nat, A >= 4, A < LineCount, LineCount \in Nat, Executing(A),
         pc = A - 1, Line(pc).op = "RESTORE", SavesLR <=> Line(pc).id = 1, Instruct(Line(pc))
  PROVE  Left(A)
  <1> DEFINE i == Line(pc)
  <1>1. IRestore(i)
    BY DEF Instruct, IOp, ICompare, IMove, ISave, IJump, JumpOps, IJlink, IRetrn, IHalt
  <1>2. /\ IF SavesLR
           THEN lr' = frames[Len(frames)] /\ frames' = SubSeq(frames, 1, Len(frames) - 1)
           ELSE UNCHANGED <<lr, frames>>
        /\ pc' = A /\ UNCHANGED <<cmp, depth, event>>
    BY <1>1 DEF IRestore
  <1> HIDE DEF i
  <1>3. /\ LineCount' = LineCount /\ (SavesLR' <=> SavesLR) /\ Registers
        /\ ~ SavesLR => frames = <<>> /\ depth = 1 /\ lr \in A + 1 .. LineCount
        /\ SavesLR => Stacked(frames, A, LineCount) /\ depth = Len(frames) /\ depth > 0
    BY DEF Executing, RunAt
  <1>4. pc' \notin {0, 1} /\ ~ (pc' > A) /\ pc' \notin 3 .. A - 1
    BY <1>2
  <1>5. CASE SavesLR
    <2>1. frames \in Seq(1 .. LineCount) /\ frames # <<>>
      BY <1>3, <1>5 DEF Registers
    <2>2. /\ frames' \in Seq(1 .. LineCount) /\ Len(frames') = Len(frames) - 1
          /\ Append(frames', lr') = frames /\ lr' \in 1 .. LineCount
      BY <1>2, <1>5, <2>1, TakenApart
    <2>3. Stacked(Append(frames', lr'), A, LineCount') /\ depth' = Len(frames') + 1
      BY <1>2, <1>3, <1>5, <2>1, <2>2
    <2>4. RunAt(A)'
      BY <1>3, <1>4, <1>5, <2>3 DEF RunAt
    <2> QED BY <1>2, <1>3, <2>2, <2>4 DEF Left, Registers
  <1>6. CASE ~ SavesLR
    <2>1. frames' = <<>> /\ depth' = 1 /\ lr' \in A + 1 .. LineCount'
      BY <1>2, <1>3, <1>6
    <2>2. RunAt(A)'
      BY <1>3, <1>4, <1>6, <2>1 DEF RunAt
    <2>3. frames' \in Seq(1 .. LineCount) /\ lr' \in 0 .. LineCount
      BY <1>2, <1>3, <1>6 DEF Registers
    <2> QED BY <1>2, <1>3, <2>2, <2>3 DEF Left, Registers
  <1> QED BY <1>5, <1>6

\* The return from the function.
LEMMA ReturnStep ==
  ASSUME NEW A \in Nat, A >= 4, A < LineCount, LineCount \in Nat, Executing(A),
         pc = A, Line(pc).op = "RETRN", Instruct(Line(pc))
  PROVE  Left(A)
  <1> DEFINE i == Line(pc)
  <1>1. IRetrn(i)
    BY DEF Instruct, IOp, ICompare, IMove, ISave, IRestore, IJump, JumpOps, IJlink, IHalt
  <1>2. pc' = lr /\ depth' = depth - 1 /\ event' # NoEvent /\ UNCHANGED <<cmp, lr, frames>>
    BY <1>1, Happens DEF IRetrn
  <1> HIDE DEF i
  <1>3. /\ LineCount' = LineCount /\ (SavesLR' <=> SavesLR) /\ Registers
        /\ ~ SavesLR => frames = <<>> /\ depth = 1 /\ lr \in A + 1 .. LineCount
        /\ SavesLR => Stacked(Append(frames, lr), A, LineCount) /\ depth = Len(frames) + 1
    BY DEF Executing, RunAt
  <1>4. CASE frames = <<>>
    <2>1. lr \in A + 1 .. LineCount /\ depth = 1
      <3>1. frames \in Seq(1 .. LineCount) /\ lr \in 0 .. LineCount
        BY <1>3 DEF Registers
      <3>2. SavesLR => lr \in A + 1 .. LineCount
        BY <1>3, <1>4, <3>1, LastAddress
      <3>3. Len(frames) = 0
        BY <1>4
      <3> QED BY <1>3, <3>2, <3>3
    <2>2. RunAt(A)'
      BY <1>2, <1>4, <2>1, InProgram
    <2> QED BY <1>2, <1>3, <2>1, <2>2 DEF Left, Registers
  <1>5. CASE frames # <<>>
    <2>1. frames \in Seq(1 .. LineCount) /\ lr \in 0 .. LineCount /\ SavesLR /\ Len(frames) > 0
      BY <1>3, <1>5 DEF Registers
    <2>2. lr \in 3 .. A - 1 /\ Stacked(frames, A, LineCount)
      BY <1>3, <1>5, <2>1, LastAddress
    <2>3. /\ pc' \notin {0, 1} /\ ~ (pc' > A) /\ pc' # 2 /\ pc' # A
          /\ depth' = Len(frames') /\ depth' > 0
      BY <1>2, <1>3, <2>1, <2>2
    <2>4. RunAt(A)'
      BY <1>2, <1>3, <2>1, <2>2, <2>3 DEF RunAt
    <2> QED BY <1>2, <1>3, <2>1, <2>2, <2>3, <2>4 DEF Left, Registers
  <1> QED BY <1>4, <1>5

\* The body of the function.
LEMMA FunctionStep ==
  ASSUME NEW A \in Nat, A >= 4, A < LineCount, LineCount \in Nat, Executing(A),
         pc \in 3 .. A - 2, Within(Line(pc), 3, A - 1, SavesLR), Instruct(Line(pc))
  PROVE  Left(A)
  <1>1. /\ LineCount' = LineCount /\ (SavesLR' <=> SavesLR) /\ Registers
        /\ ~ SavesLR => frames = <<>> /\ depth = 1 /\ lr \in A + 1 .. LineCount
        /\ SavesLR => Stacked(frames, A, LineCount) /\ depth = Len(frames) /\ depth > 0
    BY DEF Executing, RunAt
  <1>2. /\ 3 \in Nat /\ A - 1 \in Nat /\ pc \in 3 .. (A - 1) - 1 /\ cmp \in {0, 1}
    BY <1>1 DEF Registers
  <1>3. \/ /\ pc' \in 3 .. A - 1 /\ UNCHANGED <<lr, frames, depth>> /\ cmp' \in {0, 1}
           /\ event' = event \/ event' # NoEvent
        \/ /\ SavesLR /\ pc' = 2 /\ lr' = pc + 1 /\ depth' = depth + 1
           /\ UNCHANGED <<cmp, frames>> /\ event' # NoEvent
    BY <1>2, BodySteps
  <1>4. CASE /\ pc' \in 3 .. A - 1 /\ UNCHANGED <<lr, frames, depth>> /\ cmp' \in {0, 1}
             /\ event' = event \/ event' # NoEvent
    <2>1. pc' \notin {0, 1} /\ ~ (pc' > A) /\ pc' # 2 /\ pc' # A
      BY <1>4
    <2>2. RunAt(A)'
      BY <1>1, <1>4, <2>1 DEF RunAt
    <2> QED BY <1>1, <1>4, <2>1, <2>2 DEF Left, Registers
  <1>5. CASE /\ SavesLR /\ pc' = 2 /\ lr' = pc + 1 /\ depth' = depth + 1
             /\ UNCHANGED <<cmp, frames>> /\ event' # NoEvent
    <2>1. lr' \in 3 .. A - 1 /\ lr' \in 1 .. LineCount
      BY <1>5
    <2>2. frames # <<>>
      BY <1>1, <1>5
    <2>3. Stacked(Append(frames, lr'), A, LineCount)
      BY <1>1, <1>5, <2>1, <2>2, MoreAddresses
    <2>4. RunAt(A)'
      BY <1>1, <1>5, <2>1, <2>3, CallStep
    <2> QED BY <1>1, <1>5, <2>1, <2>4 DEF Left, Registers
  <1> QED BY <1>3, <1>4, <1>5

\* The program.
LEMMA ProgramStep ==
  ASSUME NEW A \in Nat, A < LineCount, LineCount \in Nat, Executing(A),
         pc \in A + 1 .. LineCount - 1, Within(Line(pc), A + 1, LineCount, A >= 4),
         Instruct(Line(pc))
  PROVE  Left(A)
  <1>1. /\ LineCount' = LineCount /\ (SavesLR' <=> SavesLR) /\ Registers
        /\ depth = 0 /\ frames = <<>>
    BY DEF Executing, RunAt
  <1>2. A + 1 \in Nat /\ cmp \in {0, 1}
    BY <1>1 DEF Registers
  <1>3. \/ /\ pc' \in A + 1 .. LineCount /\ UNCHANGED <<lr, frames, depth>> /\ cmp' \in {0, 1}
           /\ event' = event \/ event' # NoEvent
        \/ /\ A >= 4 /\ pc' = 2 /\ lr' = pc + 1 /\ depth' = depth + 1
           /\ UNCHANGED <<cmp, frames>> /\ event' # NoEvent
    BY <1>2, BodySteps
  <1>4. CASE /\ pc' \in A + 1 .. LineCount /\ UNCHANGED <<lr, frames, depth>> /\ cmp' \in {0, 1}
             /\ event' = event \/ event' # NoEvent
    <2>1. pc' \in Nat /\ A < pc' /\ pc' # 0 /\ depth' = 0 /\ frames' = <<>>
      BY <1>1, <1>4
    <2>2. RunAt(A)'
      BY <2>1, InProgram
    <2> QED BY <1>1, <1>4, <2>1, <2>2 DEF Left, Registers
  <1>5. CASE /\ A >= 4 /\ pc' = 2 /\ lr' = pc + 1 /\ depth' = depth + 1
             /\ UNCHANGED <<cmp, frames>> /\ event' # NoEvent
    <2>1. lr' \in A + 1 .. LineCount /\ lr' \in 1 .. LineCount
      BY <1>5
    <2>2. Stacked(Append(frames, lr'), A, LineCount) /\ depth = Len(frames)
      BY <1>1, <2>1, FirstAddress
    <2>3. RunAt(A)'
      BY <1>1, <1>5, <2>1, <2>2, CallStep
    <2> QED BY <1>1, <1>5, <2>1, <2>3 DEF Left, Registers
  <1> QED BY <1>3, <1>4, <1>5

\* The end of the program.
LEMMA HaltStep ==
  ASSUME NEW A \in Nat, A < LineCount, LineCount \in Nat, Executing(A),
         pc = LineCount, Line(pc).op = "HALT", Instruct(Line(pc))
  PROVE  Left(A)
  <1> DEFINE i == Line(pc)
  <1>1. IHalt(i)
    BY DEF Instruct, IOp, ICompare, IMove, ISave, IRestore, IJump, JumpOps, IJlink, IRetrn
  <1>2. pc' = 0 /\ event' = HaltEvent /\ UNCHANGED <<cmp, lr, frames, depth>>
    BY <1>1 DEF IHalt
  <1> HIDE DEF i
  <1>3. Registers /\ depth = 0 /\ frames = <<>>
    BY DEF Executing, RunAt
  <1>4. pc' \notin 2 .. A /\ pc' \notin 3 .. A - 1
    BY <1>2
  <1>5. RunAt(A)'
    BY <1>2, <1>3, <1>4 DEF RunAt
  <1> QED BY <1>2, <1>3, <1>5, Happens DEF Left, Registers

\* Every instruction.
LEMMA InstructStep ==
  ASSUME NEW A, Executing(A), Instruct(Line(pc))
  PROVE  Registers' /\ RunAt(A)'
  <1>1. A \in Nat /\ LineCount \in Nat /\ A < LineCount /\ Program(A) /\ pc \in 1 .. LineCount
    BY DEF Executing, Program
  <1>2. Left(A)
    BY <1>1, Places, AroundStep, PrologueStep, FunctionStep, EpilogueStep, ReturnStep,
       ProgramStep, HaltStep
  <1> QED BY <1>2, Leaves

\* ---- the invariant of a run ----------------------------------------------------------------------

EmuInv == TypeInv /\ BackpatchInv /\ LayoutInv /\ RunInv

\* A complete program has the shape.
LEMMA Complete ==
  ASSUME BackpatchInv, status = "done", NEW S, NEW L, Layout(emit, S, L)
  PROVE  Program(Upto(S))
  <1>1. Sound(emit, {})
    BY DEF BackpatchInv
  <1> QED BY <1>1, LayoutLines

\* Nothing runs initially.
LEMMA RunInit ==
  EmuInit => RunInv
  <1> SUFFICES ASSUME EmuInit PROVE RunInv
    OBVIOUS
  <1>1. status # "done" /\ emit \in Block
    BY TypeInit DEF EmuInit, Init, TypeInv, TypeOK
  <1>2. LineCount \in Nat
    BY <1>1, BlockType, LinesFinite DEF LineCount, Upto
  <1>3. Registers
    BY <1>2 DEF Registers, EmuInit
  <1> QED BY <1>1, <1>3 DEF RunInv, EmuInit

\* The compiler stops for good.
LEMMA Stopped ==
  ASSUME ~ Parsing, Next
  PROVE  UNCHANGED vars
  <1>1. ~ Ordinary(TRUE)
    BY DEF Ordinary, FuncHeader, NoFunction, M4, OpenBlk, M6, ReduceList, CloseBlk,
       StmtUnit, ShiftBool, BoolUnit, Paren, Not, And, Or, ShiftCntrl, M1, M5, IfElse,
       IfThen, For, While, Operation, Assn, Return, RelOp
  <1>2. ~ M2 /\ ~ Function /\ ~ MainFunction /\ ~ CompileError
    BY DEF M2, Function, MainFunction, CompileError
  <1>3. Ordinary(TRUE) \/ M2 \/ Function \/ MainFunction \/ CompileError \/ Finished
    BY DEF Next, Rule, Ordinary
  <1> QED BY <1>1, <1>2, <1>3 DEF Finished

\* While the compiler runs the emulator does not.
LEMMA CompileStep ==
  ASSUME RunInv, LayoutInv', emit' \in Block, Next, UNCHANGED runVars
  PROVE  RunInv'
  <1>1. UNCHANGED <<pc, cmp, lr, frames, depth, event>>
    BY DEF runVars
  <1>2. CASE ~ Parsing
    <2>1. UNCHANGED vars
      BY <1>2, Stopped
    <2>2. emit' = emit /\ status' = status
      BY <2>1 DEF vars
    <2>3. LineCount' = LineCount /\ (SavesLR' <=> SavesLR) /\ \A p : Upto(p)' = Upto(p)
      BY <2>2, SameLines
    <2>4. Registers'
      BY <1>1, <2>3 DEF RunInv, Registers
    <2>5. \A A : RunAt(A) => RunAt(A)'
      BY <1>1, <2>3 DEF RunAt
    <2> QED BY <1>1, <2>2, <2>3, <2>4, <2>5 DEF RunInv
  <1>3. CASE Parsing
    <2>1. /\ event' = NoEvent /\ pc' = 0 /\ lr' = 0 /\ frames' = <<>> /\ depth' = 0
          /\ cmp' \in {0, 1}
      BY <1>1, <1>3 DEF RunInv, Registers, Parsing
    <2>2. LineCount' \in Nat
      <3> DEFINE n == Len(emit'.code)
                 P == {p \in 1 .. n : emit'.code[p].op # "LABEL"}
      <3>1. n \in Nat
        BY DEF Block
      <3> HIDE DEF n
      <3>2. IsFiniteSet(1 .. n) /\ P \in SUBSET (1 .. n)
        BY <3>1, FS_Interval
      <3> HIDE DEF P
      <3>3. Cardinality(P) \in Nat
        BY <3>2, FS_Subset, FS_CardinalityType
      <3> QED BY <3>3 DEF P, n, LineCount, Lines
    <2>3. Registers'
      BY <2>1, <2>2 DEF Registers
    <2>4. \A A : RunAt(A)'
      <3>1. \A A : pc' \notin 2 .. A /\ pc' \notin 3 .. A - 1
        BY <2>1
      <3> QED BY <2>1, <3>1 DEF RunAt
    <2>5. status' = "done" => \E S, L : Layout(emit, S, L)'
      BY DEF LayoutInv
    <2> QED BY <2>1, <2>3, <2>4, <2>5 DEF RunInv
  <1> QED BY <1>2, <1>3

\* The program is loaded.
LEMMA LoadStep ==
  ASSUME BackpatchInv, RunInv, Load
  PROVE  RunInv'
  <1>1. status = "done" /\ event = NoEvent /\ event' = Ready /\ pc' = 1
        /\ UNCHANGED <<vars, cmp, lr, frames, depth>>
    BY DEF Load
  <1>2. PICK S, L, A : Layout(emit, S, L) /\ A = Upto(S) /\ RunAt(A)
    BY <1>1 DEF RunInv
  <1>3. Program(A)
    BY <1>1, <1>2, Complete
  <1>4. LineCount' = LineCount /\ (SavesLR' <=> SavesLR)
    BY <1>1, SameLines DEF vars
  <1>5. /\ Registers /\ lr = 0 /\ frames = <<>> /\ depth = 0
    BY <1>1 DEF RunInv, Registers
  <1>6. A \in Nat /\ LineCount \in Nat /\ A < LineCount /\ (A = 0 \/ A >= 4)
    BY <1>3 DEF Program
  <1>7. Registers'
    BY <1>1, <1>4, <1>5, <1>6, Happens DEF Registers
  <1>8. RunAt(A)'
    <2>1. pc' \notin 2 .. A /\ pc' \notin 3 .. A - 1
      BY <1>1
    <2> QED BY <1>1, <1>5, <2>1 DEF RunAt
  <1> QED BY <1>1, <1>2, <1>7, <1>8, Runs

\* An instruction is executed.
LEMMA ExecuteStep ==
  ASSUME BackpatchInv, RunInv, ExecuteLine
  PROVE  RunInv'
  <1>1. status = "done" /\ pc \in 1 .. LineCount /\ Instruct(Line(pc)) /\ UNCHANGED vars
    BY DEF ExecuteLine, Running
  <1>2. PICK S, L, A : Layout(emit, S, L) /\ A = Upto(S) /\ RunAt(A)
    BY <1>1 DEF RunInv
  <1>3. Program(A)
    BY <1>1, <1>2, Complete
  <1>4. LineCount' = LineCount /\ (SavesLR' <=> SavesLR)
    BY <1>1, SameLines DEF vars
  <1>5. Executing(A)
    BY <1>1, <1>2, <1>3, <1>4 DEF Executing, RunInv
  <1>6. Registers' /\ RunAt(A)'
    BY <1>1, <1>5, InstructStep
  <1> QED BY <1>1, <1>2, <1>6, Runs

\* Nothing happens.
LEMMA RunStutter ==
  ASSUME RunInv, UNCHANGED emuVars
  PROVE  RunInv'
  <1>1. UNCHANGED <<pc, cmp, lr, frames, depth, event>> /\ emit' = emit /\ status' = status
    BY DEF emuVars, runVars, vars
  <1>2. LineCount' = LineCount /\ (SavesLR' <=> SavesLR) /\ \A p : Upto(p)' = Upto(p)
    BY <1>1, SameLines
  <1>3. Registers'
    BY <1>1, <1>2 DEF RunInv, Registers
  <1>4. \A A : RunAt(A) => RunAt(A)'
    BY <1>1, <1>2 DEF RunAt
  <1> QED BY <1>1, <1>2, <1>3, <1>4 DEF RunInv

\* Running a program does not change it: a behaviour of compiler and emulator is
\* one of the compiler.
LEMMA Compiles == EmuSpec => Spec
  <1>1. EmuInit => Init
    BY DEF EmuInit
  <1>2. [EmuNext]_emuVars => [Next]_vars
    BY DEF EmuNext, Load, ExecuteLine, emuVars
  <1> QED BY <1>1, <1>2, PTL DEF EmuSpec, Spec

\* At every moment of compiling and running: the shape of the code that the
\* parser has emitted so far, and, while the emulator runs it, where the return
\* address of every call in progress is.
THEOREM RunsInShape == EmuSpec => [](LayoutInv /\ RunInv)
  <1>1. EmuInit => LayoutInv /\ RunInv
    BY LayoutInit, RunInit DEF EmuInit
  <1>2. ASSUME TypeInv, BackpatchInv, TypeInv', BackpatchInv', LayoutInv, RunInv,
               [EmuNext]_emuVars
        PROVE  LayoutInv' /\ RunInv'
    <2>1. [Next]_vars
      BY <1>2 DEF EmuNext, Load, ExecuteLine, emuVars
    <2>2. LayoutInv'
      BY <1>2, <2>1, LayoutStep
    <2>3. CASE Next /\ UNCHANGED runVars
      <3>1. emit' \in Block
        BY <1>2 DEF TypeInv, TypeOK
      <3> QED BY <1>2, <2>2, <2>3, <3>1, CompileStep
    <2>4. CASE Load
      BY <1>2, <2>2, <2>4, LoadStep
    <2>5. CASE ExecuteLine
      BY <1>2, <2>2, <2>5, ExecuteStep
    <2>6. CASE UNCHANGED emuVars
      BY <1>2, <2>2, <2>6, RunStutter
    <2> QED BY <1>2, <2>3, <2>4, <2>5, <2>6 DEF EmuNext
  <1> QED BY <1>1, <1>2, Compiles, Backpatched, PTL DEF EmuSpec

\* Of every program, however long: the program counter and the link register never
\* leave it, neither by a jump that was patched nor by a return.
THEOREM RunTypeOKHolds == EmuSpec => []RunTypeOK
  <1>1. RunInv => RunTypeOK
    BY DEF RunInv, Registers, RunTypeOK
  <1> QED BY <1>1, RunsInShape, PTL

\* A run of a compiled program never ends but at its HALT.
THEOREM EndsByHaltHolds == EmuSpec => []EndsByHalt
  <1>1. RunInv => EndsByHalt
    BY DEF RunInv, Registers, EndsByHalt, Running
  <1> QED BY <1>1, RunsInShape, PTL

\* The prologue that Function() splices in behind the jump over the function, and
\* its epilogue, save and restore one link register for every call in progress if
\* the function calls, and none if it does not.
THEOREM FramesMatchCallsHolds == EmuSpec => []FramesMatchCalls
  <1>1. ASSUME BackpatchInv, RunInv PROVE FramesMatchCalls
    <2> SUFFICES ASSUME status = "done", pc \in 1 .. LineCount, Line(pc).op # "RETRN",
                        Line(pc).op \in {"OP", "CMP", "CMPN", "JLINK", "HALT"}
                 PROVE  Len(frames) = IF SavesLR THEN depth ELSE 0
      BY DEF FramesMatchCalls, AtEvent, Running
    <2>1. PICK S, L, A : Layout(emit, S, L) /\ A = Upto(S) /\ RunAt(A)
      BY <1>1 DEF RunInv
    <2>2. Program(A)
      BY <1>1, <2>1, Complete
    <2>3. A \in Nat /\ A < LineCount /\ LineCount \in Nat
      BY <2>2 DEF Program
    <2>4. \/ A >= 4 /\ pc \in 3 .. A - 2
          \/ pc \in A + 1 .. LineCount - 1
          \/ pc = LineCount
      BY <2>2, Places
    <2>5. CASE A >= 4 /\ pc \in 3 .. A - 2
      BY <2>1, <2>3, <2>5 DEF RunAt
    <2>6. CASE pc > A
      <3>1. depth = 0 /\ frames = <<>>
        BY <2>1, <2>6 DEF RunAt
      <3> QED BY <3>1
    <2> QED BY <2>3, <2>4, <2>5, <2>6
  <1> QED BY <1>1, RunsInShape, Compiles, Backpatched, PTL

=============================================================================

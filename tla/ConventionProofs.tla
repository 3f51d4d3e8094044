-------------------------- MODULE ConventionProofs --------------------------
\* Pushes and pops balance, for every program the parser lets through, every input and however
\* deep the calls: the proof of BalancedStack.
\*
\* First the compiler: every instruction takes a call from one stage to the next (Passes), and
\* every semantic rule leaves the code at the stage where it found it (Standing).  Then the
\* output: what held of the instructions holds of the lines of the file (Laid).  Then the
\* machine: what an instruction does to LR, FP and SP and to the cells they point to (Runs), and
\* how the frames of the activations in progress lie in memory at every line (Active).
EXTENDS CallsProofs, Convention

\* ---- where the code stands in a call ------------------------------------------------------

\* What the machine is doing in front of an instruction: executing a block ("level"),
\* calling - FP is stored, FP belongs to the callee, SP is behind its arguments - or called
\* back, SP being above the callee's frame and then on it.  In the function, before its
\* registers are saved or after they have been restored, LR holds the return address
\* ("bare"), which is in memory as soon as it is saved.
Stages == {"level", "stored", "moved", "pushed", "back", "popped", "saved", "bare"}
InCall == {"moved", "pushed", "back", "popped"}
AtEnds == {"saved", "bare"}
FunBlocks == {"fun", "prologue", "leave"}
In(block) == IF block \in FunBlocks THEN "fun" ELSE "main"

\* Not LR, FP or SP.
Ordinary(x) == x.t = "I" => x.v \notin {0, 1, 2}

\* The block a label belongs to.
LabelOf(l) ==
  IF l.t \in {"skip", "halt"} THEN "main"
  ELSE IF l.t \in {"leave", "prologue"} THEN "fun"
  ELSE IF l.t \in {"then", "fi"} THEN (IF l.v > 0 THEN "fun" ELSE "main") ELSE "none"

PlainOps == Opcodes \ {"STORI", "STORR", "UJUMP", "JLINK", "BREQZ", "BNEQZ", "RETRN", "HALT"}
Writers == {"SEQUI", "SNEQI", "SLETI", "SGRTI", "ADD2I", "SUBTI", "MULTI", "DIVDI", "LOADI",
            "COPYI", "READI", "CRTOI"} \cup RealTests
Plain(i) == i.op \in PlainOps /\ (i.op \in Writers => Len(i.dest) = 1 /\ Ordinary(i.dest[1]))
Store(i, base, k) ==
  i.op \in {"STORI", "STORR"} /\ Len(i.dest) = 1 /\ i.src0 = <<base>> /\ i.src1 = <<Const(k)>>
OnSP(i, op, x, k) == i.op = op /\ i.dest = <<x>> /\ i.src0 = <<SP>> /\ i.src1 = <<Const(k)>>

\* The return address is among the registers q a prologue saves: LR is the first of them.
Kept(q) == q # <<>> /\ q[1] = <<LR>>
Ends(q) == IF Kept(q) THEN "saved" ELSE "bare"

\* How instruction i leads from stage a to stage b of block f.
Passes(q, a, f, i, b) ==
  \/ a = b /\ a \in {"level", "moved", "bare"} /\ Plain(i)
  \/ a = "level" /\ b = "level" /\ f = "fun" /\ Store(i, FP, 0)
  \/ /\ a = "level" /\ b = "level" /\ f = "main"
     /\ i.op = "COPYI" /\ i.dest \in {<<FP>>, <<SP>>} /\ i.src0 = <<Const(0)>>
  \/ a = "level" /\ b = "stored" /\ OnSP(i, "STORI", FP, 0)
  \/ a = "stored" /\ b = "moved" /\ OnSP(i, "ADD2I", FP, 1)
  \/ a = "moved" /\ b = "moved" /\ \E k \in Nat \ {0} : Store(i, SP, k)
  \/ a = "moved" /\ b = "pushed" /\ OnSP(i, "ADD2I", SP, 4)
  \/ a = "pushed" /\ b = "back" /\ i.op = "JLINK" /\ i.dest = <<>> /\ i.src0 = <<Const(2)>>
  \/ a = "back" /\ b = "popped" /\ OnSP(i, "SUBTI", SP, 4)
  \/ a = "popped" /\ b = "level" /\ OnSP(i, "LOADI", FP, 0)
  \/ /\ f = "fun"
     /\ \/ a = "bare" /\ b = "bare" /\ ~Kept(q) /\ \E k \in Nat : Store(i, SP, k)
        \/ a = "bare" /\ b = "saved" /\ Kept(q) /\ OnSP(i, "STORI", LR, 0)
        \/ a = "saved" /\ b = "saved" /\ \E k \in Nat \ {0} : Store(i, SP, k)
        \/ a = Ends(q) /\ b = "level" /\ OnSP(i, "ADD2I", SP, Len(q))
        \/ a = "level" /\ b = Ends(q) /\ OnSP(i, "SUBTI", SP, Len(q))
        \/ a = "saved" /\ b = "bare" /\ OnSP(i, "LOADI", LR, 0)

\* And where it goes on: behind an unconditional jump anything may follow.
Stays(a, f, i) ==
  /\ a = "level"
  /\ \/ i.op = "LABEL" /\ LabelOf(i.src0[1]) = f
     \/ /\ i.op \in {"BREQZ", "BNEQZ"} /\ LabelOf(i.src1[1]) = f
        /\ i.dest = <<>> /\ i.src0 = <<i.src0[1]>> /\ i.src1 = <<i.src1[1]>>
Departs(a, f, i) ==
  \/ /\ a = "level" /\ i.op = "UJUMP" /\ LabelOf(i.src0[1]) = f
     /\ i.dest = <<>> /\ i.src0 = <<i.src0[1]>>
  \/ a = "bare" /\ f = "fun" /\ i.op = "RETRN"
  \/ a = "level" /\ f = "main" /\ i.op = "HALT"
Step(q, a, f, i, b, g) ==
  \/ g = f /\ (Passes(q, a, f, i, b) \/ (Stays(a, f, i) /\ b = a))
  \/ b \in {"level", "bare"} /\ Departs(a, f, i)

\* at[n] and in[n] are the stage and the block in front of instruction n.
Marks(code, at, in) ==
  at \in [1 .. Len(code) + 1 -> Stages] /\ in \in [1 .. Len(code) + 1 -> {"fun", "main"}]
SameItems(i, j) == i.block = j.block /\ i.item = j.item
Ruled(w, code, at, in, n) ==
  /\ Step(w.saved, at[n], in[n], code[n], at[n + 1], in[n + 1])
  /\ code[n].op # "LABEL" => in[n] = In(code[n].block)
  /\ at[n] \in InCall => n > 1 /\ SameItems(code[n - 1], code[n])
  /\ at[n] \in AtEnds => \/ code[n].block = "prologue"
                         \/ (code[n].block = "leave" /\ n > 1 /\ code[n - 1].block = "leave")
Staged(w, code, at, in) ==
  /\ Marks(code, at, in)
  /\ \A n \in 1 .. Len(code) : Ruled(w, code, at, in, n)
  /\ \A n \in DOMAIN w.start : n <= Len(code) + 1 /\ <<at[n], in[n]>> = w.start[n]

\* The registers of the convention are not given to anybody, and not saved but LR.
Guarded(c) ==
  /\ \A r \in {0, 1, 2} \cap Regs : c.pool["I"][r] = NOREG
  /\ \A r \in {1, 2} \cap Regs : c.usage["I"][r] = 0
  /\ c.usage["I"][0] \in Nat
  /\ \A n \in DOMAIN c.names : Ordinary(c.names[n])
\* A function with a call uses LR, and so saves it.
LinkNoted(c, w) ==
  \A n \in 1 .. Len(c.code) :
    c.code[n].op = "JLINK" /\ c.code[n].block \in FunBlocks =>
      IF w.done THEN Kept(w.saved) ELSE c.usage["I"][0] > 0
\* Jumps go to labels there are, or to pending ones.
Targets(i) ==
  IF i.op = "UJUMP" THEN {i.src0[1]} ELSE IF i.op \in {"BREQZ", "BNEQZ"} THEN {i.src1[1]} ELSE {}
IsLabel(i, l) == i.op = "LABEL" /\ i.src0[1] = l
HasLabel(c, l) == \E k \in 1 .. Len(c.code) : IsLabel(c.code[k], l)
Bound(c, pending) ==
  \A n \in 1 .. Len(c.code) : \A l \in Targets(c.code[n]) : l \in pending \/ HasLabel(c, l)
\* The place of the marker of the prologue.
IsMarker(i) == i.op = "LABEL" /\ i.src0[1].t = "prologue"
MarkedAt(c, k) == \A n \in 1 .. Len(c.code) : IsMarker(c.code[n]) => n = k
\* The next instruction is for the same item as the last.
Here(c, a) ==
  /\ a \in InCall => /\ Len(c.code) > 0 /\ c.code[Len(c.code)].block = c.block
                     /\ c.code[Len(c.code)].item = c.item
  /\ a \in AtEnds => \/ c.block = "prologue"
                     \/ /\ c.block = "leave" /\ Len(c.code) > 0
                        /\ c.code[Len(c.code)].block = "leave"
Standing(c, w, a, f) ==
  /\ w.start \in Seq(Stages \X {"fun", "main"}) /\ (w.linked => c.usage["I"][0] > 0)
  /\ Guarded(c) /\ LinkNoted(c, w) /\ Bound(c, w.pending) /\ MarkedAt(c, w.marker) /\ Here(c, a)
  /\ \E at, in : /\ Staged(w, c.code, at, in)
                 /\ at[Len(c.code) + 1] = a /\ in[Len(c.code) + 1] = f

\* One more instruction.
MayEmit(c, w, a, f, b, g, d, i) ==
  /\ c \in CC /\ d \in CC /\ b \in Stages /\ g \in {"fun", "main"} /\ Standing(c, w, a, f)
  /\ i.op # "LABEL" => f = In(c.block)
  /\ i = [op |-> i.op, dest |-> i.dest, src0 |-> i.src0, src1 |-> i.src1,
          block |-> c.block, item |-> c.item]
  /\ Step(w.saved, a, f, i, b, g)
  /\ b \in AtEnds => c.block \in {"prologue", "leave"}
  /\ i.op = "JLINK" /\ c.block \in FunBlocks => ~w.done /\ w.linked
  /\ \A l \in Targets(i) : l \in w.pending \/ HasLabel(c, l)
  /\ IsMarker(i) => w.marker = Len(c.code) + 1
LEMMA Emits ==
  ASSUME NEW c, NEW w, NEW a, NEW f, NEW b, NEW g, NEW d, NEW i,
         MayEmit(c, w, a, f, b, g, d, i), d = Emit(c, i.op, i.dest, i.src0, i.src1)
  PROVE  Standing(d, w, b, g)
<1>. PICK op, dest, src0, src1 : op = i.op /\ dest = i.dest /\ src0 = i.src0 /\ src1 = i.src1
  OBVIOUS
<1>. /\ c \in CC /\ d \in CC /\ b \in Stages /\ g \in {"fun", "main"} /\ Standing(c, w, a, f)
     /\ op # "LABEL" => f = In(c.block)
  BY DEF MayEmit
<1>. /\ d = Emit(c, op, dest, src0, src1)
     /\ i = [op |-> op, dest |-> dest, src0 |-> src0, src1 |-> src1,
             block |-> c.block, item |-> c.item]
  BY DEF MayEmit
<1>. Step(w.saved, a, f, i, b, g)
  BY DEF MayEmit
<1>. /\ b \in AtEnds => c.block \in {"prologue", "leave"}
     /\ op = "JLINK" /\ c.block \in FunBlocks => ~w.done /\ w.linked
  BY DEF MayEmit
<1>. /\ \A l \in Targets(i) : l \in w.pending \/ HasLabel(c, l)
     /\ IsMarker(i) => w.marker = Len(c.code) + 1
  BY DEF MayEmit
<1>1. /\ c.code \in Seq(Emitted) /\ d.code = Append(c.code, i) /\ d.block = c.block
      /\ d.item = c.item /\ d.pool = c.pool /\ d.usage = c.usage /\ d.names = c.names
  <2>1. c = [pool |-> c.pool, usage |-> c.usage, names |-> c.names, code |-> c.code,
             saved |-> c.saved, block |-> c.block, item |-> c.item]
    BY Unfolded
  <2>. QED BY <2>1, Fields DEF Emit
<1>. DEFINE L == Len(c.code)
<1>2. /\ L \in Nat /\ Len(d.code) = L + 1 /\ d.code[L + 1] = i
      /\ \A n \in 1 .. L : d.code[n] = c.code[n]
  <2>1. DOMAIN c.code = 1 .. L /\ L \in Nat
    BY <1>1
  <2>. QED BY <1>1, <2>1 DEF Emit
<1>. HIDE DEF L
<1>3. Guarded(d)
  BY <1>1 DEF Guarded, Standing
<1>4. LinkNoted(d, w)
  <2>1. w.linked => c.usage["I"][0] > 0
    BY DEF Standing
  <2>. QED BY <1>1, <1>2, <2>1 DEF LinkNoted, Standing, L
<1>5. Bound(d, w.pending)
  <2>1. ASSUME NEW l, HasLabel(c, l) PROVE HasLabel(d, l)
    BY <1>2, <2>1 DEF HasLabel, L
  <2>2. ASSUME NEW n \in 1 .. L, NEW l \in Targets(d.code[n]) PROVE l \in w.pending \/ HasLabel(d, l)
    BY <1>2, <2>1, <2>2 DEF Standing, Bound, L
  <2>3. ASSUME NEW l \in Targets(d.code[L + 1]) PROVE l \in w.pending \/ HasLabel(d, l)
    BY <1>2, <2>1, <2>3
  <2>4. \A n \in 1 .. L + 1 : n \in 1 .. L \/ n = L + 1
    BY <1>2
  <2>. QED BY <1>2, <2>2, <2>3, <2>4 DEF Bound
<1>6. MarkedAt(d, w.marker)
  <2>1. ASSUME NEW n \in 1 .. L, IsMarker(d.code[n]) PROVE n = w.marker
    BY <1>2, <2>1 DEF MarkedAt, Standing, L
  <2>2. \A n \in 1 .. L + 1 : n \in 1 .. L \/ n = L + 1
    BY <1>2
  <2>3. IsMarker(d.code[L + 1]) => L + 1 = w.marker
    BY <1>2 DEF L
  <2>. QED BY <1>2, <2>1, <2>2, <2>3 DEF MarkedAt
<1>7. Here(d, b)
  <2>1. i.block = c.block /\ i.item = c.item
    OBVIOUS
  <2>. QED BY <1>1, <1>2, <2>1 DEF Here
<1>8. PICK at, in : /\ Staged(w, c.code, at, in) /\ at[L + 1] = a /\ in[L + 1] = f
  BY DEF Standing, L
<1>. DEFINE at2 == [n \in 1 .. L + 2 |-> IF n = L + 2 THEN b ELSE at[n]]
            in2 == [n \in 1 .. L + 2 |-> IF n = L + 2 THEN g ELSE in[n]]
<1>9. Marks(d.code, at2, in2)
  <2>1. at \in [1 .. L + 1 -> Stages] /\ in \in [1 .. L + 1 -> {"fun", "main"}]
    BY <1>8 DEF Staged, Marks, L
  <2>2. \A n \in 1 .. L + 2 : n # L + 2 => n \in 1 .. L + 1
    BY <1>2
  <2>3. Len(d.code) + 1 = L + 2
    BY <1>2
  <2>. QED BY <2>1, <2>2, <2>3 DEF Marks
<1>10. \A n \in 1 .. L + 1 : at2[n] = at[n] /\ in2[n] = in[n]
  BY <1>2
<1>11. at2[L + 2] = b /\ in2[L + 2] = g
  BY <1>2
<1>. HIDE DEF at2, in2
<1>12. ASSUME NEW n \in 1 .. L PROVE Ruled(w, d.code, at2, in2, n)
  <2>1. Ruled(w, c.code, at, in, n)
    BY <1>8 DEF Staged, L
  <2>2. /\ n \in 1 .. L + 1 /\ n + 1 \in 1 .. L + 1 /\ n \in Nat /\ L \in Nat
        /\ n > 1 => n - 1 \in 1 .. L
    BY <1>2
  <2>3. /\ at2[n] = at[n] /\ in2[n] = in[n] /\ at2[n + 1] = at[n + 1] /\ in2[n + 1] = in[n + 1]
        /\ d.code[n] = c.code[n] /\ (n > 1 => d.code[n - 1] = c.code[n - 1])
    BY <1>2, <1>10, <2>2
  <2>. QED BY <2>1, <2>3 DEF Ruled
<1>13. ASSUME NEW n, n = L + 1 PROVE Ruled(w, d.code, at2, in2, n)
  <2>1. /\ at2[n] = a /\ in2[n] = f /\ at2[n + 1] = b /\ in2[n + 1] = g
        /\ d.code[n] = i /\ n - 1 = L
    <3>1. at2[L + 1] = a /\ in2[L + 1] = f /\ n + 1 = L + 2 /\ n - 1 = L
      BY <1>2, <1>8, <1>10, <1>13
    <3>. QED BY <1>2, <1>11, <1>13, <3>1
  <2>2. i.block = c.block /\ i.item = c.item
    OBVIOUS
  <2>3. Here(c, a)
    BY DEF Standing
  <2>4. L > 0 => n > 1 /\ d.code[n - 1] = c.code[L]
    BY <1>2, <1>13, <2>1
  <2>5. a \in InCall => n > 1 /\ SameItems(d.code[n - 1], i)
    BY <2>2, <2>3, <2>4 DEF Here, SameItems, L
  <2>6. a \in AtEnds => \/ i.block = "prologue"
                        \/ (i.block = "leave" /\ n > 1 /\ d.code[n - 1].block = "leave")
    BY <2>2, <2>3, <2>4 DEF Here, L
  <2>. QED BY <2>1, <2>2, <2>5, <2>6 DEF Ruled
<1>14. Staged(w, d.code, at2, in2)
  <2>1. \A n \in 1 .. L + 1 : n \in 1 .. L \/ n = L + 1
    BY <1>2
  <2>2. \A n \in 1 .. Len(d.code) : Ruled(w, d.code, at2, in2, n)
    BY <1>2, <1>12, <1>13, <2>1
  <2>3. \A n \in DOMAIN w.start :
          n <= Len(d.code) + 1 /\ <<at2[n], in2[n]>> = w.start[n]
    <3>1. w.start \in Seq(Stages \X {"fun", "main"})
      BY DEF Standing
    <3>2. DOMAIN w.start \subseteq 1 .. L + 1
      <4>1. \A n \in DOMAIN w.start : n <= L + 1 /\ n \in Nat \ {0}
        BY <1>8, <3>1 DEF Staged, L
      <4>. QED BY <1>2, <4>1
    <3>. QED BY <1>2, <1>8, <1>10, <3>2 DEF Staged, L
  <2>. QED BY <1>8, <1>9, <2>2, <2>3 DEF Staged
<1>15. Len(d.code) + 1 = L + 2 /\ (w.linked => d.usage["I"][0] > 0)
  BY <1>1, <1>2 DEF Standing
<1>. QED BY <1>1, <1>2, <1>3, <1>4, <1>5, <1>6, <1>7, <1>11, <1>14, <1>15 DEF Standing, L

\* The same with the instruction put together.
LEMMA EmitStands ==
  ASSUME NEW c \in CC, NEW w, NEW a, NEW b \in Stages, NEW g \in {"fun", "main"},
         NEW f, Standing(c, w, a, f),
         NEW op, op # "LABEL" => f = In(c.block), NEW dest, NEW src0, NEW src1,
         NEW d \in CC, d = Emit(c, op, dest, src0, src1),
         NEW i, i = [op |-> op, dest |-> dest, src0 |-> src0, src1 |-> src1,
                     block |-> c.block, item |-> c.item],
         Step(w.saved, a, f, i, b, g),
         b \in AtEnds => c.block \in {"prologue", "leave"},
         op = "JLINK" /\ c.block \in FunBlocks => ~w.done /\ w.linked,
         \A l \in Targets(i) : l \in w.pending \/ HasLabel(c, l),
         IsMarker(i) => w.marker = Len(c.code) + 1
  PROVE  Standing(d, w, b, g) /\ d.code[Len(d.code)] = i /\ Len(d.code) = Len(c.code) + 1
<1>1. i.op = op /\ i.dest = dest /\ i.src0 = src0 /\ i.src1 = src1
  OBVIOUS
<1>2. MayEmit(c, w, a, f, b, g, d, i)
  BY <1>1 DEF MayEmit
<1>3. Standing(d, w, b, g)
  BY <1>1, <1>2, Emits
<1>4. c.code \in Seq(Emitted) /\ d.code = Append(c.code, i)
  BY Fields DEF Emit
<1>. QED BY <1>3, <1>4

\* When it is neither a label nor a jump.
LEMMA StepStands ==
  ASSUME NEW c \in CC, NEW w, NEW a, NEW b \in Stages, Standing(c, w, a, In(c.block)),
         NEW op, op \notin {"LABEL", "JLINK", "UJUMP", "BREQZ", "BNEQZ"},
         NEW dest, NEW src0, NEW src1, NEW d \in CC, d = Emit(c, op, dest, src0, src1),
         NEW i, i = [op |-> op, dest |-> dest, src0 |-> src0, src1 |-> src1,
                     block |-> c.block, item |-> c.item],
         Passes(w.saved, a, In(c.block), i, b), b \in AtEnds => c.block \in {"prologue", "leave"}
  PROVE  Standing(d, w, b, In(c.block))
<1>1. i.op = op
  OBVIOUS
<1>2. Targets(i) = {} /\ ~IsMarker(i)
  BY <1>1 DEF Targets, IsMarker
<1>3. PICK f : f = In(c.block) /\ f \in {"fun", "main"}
  BY DEF In
<1>4. Step(w.saved, a, f, i, b, f) /\ Standing(c, w, a, f)
  BY <1>3 DEF Step
<1>5. op = "JLINK" /\ c.block \in FunBlocks => ~w.done /\ w.linked
  OBVIOUS
<1>6. (\A l \in Targets(i) : l \in w.pending \/ HasLabel(c, l)) /\ (IsMarker(i) => w.marker = Len(c.code) + 1)
  BY <1>2
<1>7. op # "LABEL" => f = In(c.block)
  BY <1>3
<1>8. Standing(d, w, b, f)
  BY <1>3, <1>4, <1>5, <1>6, <1>7, EmitStands
<1>. QED BY <1>3, <1>8

\* The same code by a compiler that still guards the registers.
LEMMA SameCodeStands ==
  ASSUME NEW c, NEW w, NEW a, NEW f, Standing(c, w, a, f), NEW d, Guarded(d),
         d.code = c.code, d.block = c.block, d.item = c.item,
         c.usage["I"][0] > 0 => d.usage["I"][0] > 0
  PROVE  Standing(d, w, a, f)
<1>1. LinkNoted(d, w)
  BY DEF LinkNoted, Standing
<1>2. Bound(d, w.pending)
  BY DEF Bound, HasLabel, Standing
<1>3. MarkedAt(d, w.marker) /\ Here(d, a)
  BY DEF MarkedAt, Here, Standing
<1>. QED BY <1>1, <1>2, <1>3 DEF Standing

\* Register 0 is LR.
LEMMA ZeroIsReg == 0 \in Regs /\ Regs \subseteq Int
BY SizeAssumption DEF Regs

\* What Acquire returns is vacant.
LEMMA AcquiredVacant ==
  ASSUME NEW t, Acquire(t) # NOREG
  PROVE  Acquire(t) \in Regs /\ t[Acquire(t)] = VACANT
<1>. DEFINE vacant == {r \in Regs : t[r] = VACANT}
<1>1. vacant # {}
  BY DEF Acquire
<1>2. vacant \subseteq Nat
  BY SizeAssumption DEF Regs
<1>. HIDE DEF vacant
<1>3. \E r \in vacant : \A s \in vacant : r <= s
  BY <1>1, <1>2, Smallest
<1>4. (CHOOSE r \in vacant : \A s \in vacant : r <= s) \in vacant
  BY <1>3
<1>5. Acquire(t) = CHOOSE r \in vacant : \A s \in vacant : r <= s
  BY <1>1 DEF vacant, Acquire
<1>. QED BY <1>4, <1>5 DEF vacant

\* A new temporary is not a register of the convention.
LEMMA FreshOrdinary ==
  ASSUME NEW c, Guarded(c), NEW type \in {"I", "R"}
  PROVE  Ordinary(Fresh(c, type)) /\ (type = "I" => Acquire(c.pool["I"]) \notin {0, 1, 2})
<1>1. PICK r : r = Acquire(c.pool["I"])
  OBVIOUS
<1>2. r \notin {0, 1, 2}
  <2>1. CASE r = NOREG
    BY <2>1 DEF NOREG
  <2>2. CASE r # NOREG
    <3>1. r \in Regs /\ c.pool["I"][r] = VACANT
      BY <1>1, <2>2, AcquiredVacant
    <3>. QED BY <3>1 DEF Guarded, NOREG, VACANT
  <2>. QED BY <2>1, <2>2
<1>. QED BY <1>1, <1>2 DEF Fresh, Tok, Ordinary

\* newTemp().
LEMMA NewTempStands ==
  ASSUME NEW c \in CC, NEW type \in {"I", "R"}, NEW w, NEW a, NEW f, Standing(c, w, a, f),
         NEW d, d = NewTemp(c, type)
  PROVE  Standing(d, w, a, f) /\ Ordinary(Fresh(c, type))
<1>. DEFINE r == Acquire(c.pool[type])
            t == [c.pool[type] EXCEPT ![r] = 1]
            s == Mirror(c.usage[type], r)
<1>1. Guarded(c)
  BY DEF Standing
<1>2. /\ Ordinary(Fresh(c, type)) /\ (type = "I" => r \notin {0, 1, 2}) /\ r \in Int
  BY <1>1, FreshOrdinary, Acquired, RegNumbers
<1>3. d = [pool |-> [c.pool EXCEPT ![type] = t], usage |-> [c.usage EXCEPT ![type] = s],
           names |-> c.names, code |-> c.code, saved |-> c.saved, block |-> c.block,
           item |-> c.item]
  <2>1. c = [pool |-> c.pool, usage |-> c.usage, names |-> c.names, code |-> c.code,
             saved |-> c.saved, block |-> c.block, item |-> c.item]
    BY Unfolded
  <2>2. c.pool[type] = [c.pool EXCEPT ![type] = t][type] \/ TRUE
    OBVIOUS
  <2>. QED BY <2>1, Fields DEF NewTemp
<1>4. c.pool \in [{"I", "R"} -> Tables] /\ c.usage \in [{"I", "R"} -> Tables]
  BY Fields
<1>5. /\ d.pool["I"] = IF type = "I" THEN t ELSE c.pool["I"]
      /\ d.usage["I"] = IF type = "I" THEN s ELSE c.usage["I"]
  BY <1>3, <1>4
<1>6. /\ type = "I" => \A k \in {0, 1, 2} \cap Regs : t[k] = c.pool["I"][k]
      /\ type = "I" => \A k \in {0, 1, 2} \cap Regs : s[k] = c.usage["I"][k]
  <2>1. c.pool[type] \in [Regs -> Int] /\ c.usage[type] \in [Regs -> Int]
    BY <1>4 DEF Tables
  <2>. QED BY <1>2, <2>1 DEF Mirror
<1>. HIDE DEF r, t, s
<1>7. \A k \in {0, 1, 2} \cap Regs :
        d.pool["I"][k] = c.pool["I"][k] /\ d.usage["I"][k] = c.usage["I"][k]
  BY <1>5, <1>6
<1>8. Guarded(d)
  <2>1. d.usage["I"][0] = c.usage["I"][0] /\ d.names = c.names
    BY <1>3, <1>7, ZeroIsReg
  <2>2. \A k \in {0, 1, 2} \cap Regs : d.pool["I"][k] = NOREG
    BY <1>1, <1>7 DEF Guarded
  <2>3. \A k \in {1, 2} \cap Regs : d.usage["I"][k] = 0
    BY <1>1, <1>7 DEF Guarded
  <2>. QED BY <1>1, <2>1, <2>2, <2>3 DEF Guarded
<1>9. d.usage["I"][0] = c.usage["I"][0]
  BY <1>7, ZeroIsReg
<1>10. d.code = c.code /\ d.block = c.block /\ d.item = c.item
  BY <1>3
<1>. QED BY <1>2, <1>8, <1>9, <1>10, SameCodeStands

\* The release of a temporary.
LEMMA FreeStands ==
  ASSUME NEW c \in CC, NEW x \in Symbols, Ordinary(x), NEW w, NEW a, NEW f, Standing(c, w, a, f),
         NEW d, d = Free(c, x)
  PROVE  Standing(d, w, a, f)
<1>. DEFINE t == Release(c.pool[x.t], x.v)
<1>1. Guarded(c) /\ x.t \in {"I", "R"}
  BY SymbolIsToken DEF Standing
<1>3. d = [pool |-> [c.pool EXCEPT ![x.t] = t], usage |-> c.usage,
           names |-> c.names, code |-> c.code, saved |-> c.saved, block |-> c.block,
           item |-> c.item]
  <2>1. c = [pool |-> c.pool, usage |-> c.usage, names |-> c.names, code |-> c.code,
             saved |-> c.saved, block |-> c.block, item |-> c.item]
    BY Unfolded
  <2>. QED BY <2>1, Fields DEF Free
<1>4. c.pool \in [{"I", "R"} -> Tables]
  BY Fields
<1>5. d.pool["I"] = IF x.t = "I" THEN t ELSE c.pool["I"]
  BY <1>1, <1>3, <1>4
<1>6. x.t = "I" => \A k \in {0, 1, 2} \cap Regs : t[k] = c.pool["I"][k]
  <2>1. c.pool[x.t] \in [Regs -> Int]
    BY <1>1, <1>4 DEF Tables
  <2>. QED BY <2>1 DEF Release, Ordinary
<1>. HIDE DEF t
<1>7. \A k \in {0, 1, 2} \cap Regs : d.pool["I"][k] = c.pool["I"][k]
  BY <1>5, <1>6
<1>8. Guarded(d)
  <2>1. d.usage = c.usage /\ d.names = c.names
    BY <1>3
  <2>. QED BY <1>1, <1>7, <2>1 DEF Guarded
<1>. QED BY <1>3, <1>8, SameCodeStands

\* newSymbol().
LEMMA NewNameStands ==
  ASSUME NEW c \in CC, NEW n \in AllNames, NEW type \in {"I", "R"}, type \in Types,
         NEW w, NEW a, NEW f, Standing(c, w, a, f), NEW d, d = NewName(c, n, type)
  PROVE  Standing(d, w, a, f) /\ Ordinary(d.names[n])
<1>. DEFINE e == NewTemp(c, type)
<1>1. Standing(e, w, a, f) /\ Ordinary(Fresh(c, type)) /\ e \in CC /\ e.names = c.names
  BY NewTempStands, NewTempAfter DEF After
<1>2. /\ DOMAIN d.names = DOMAIN c.names \cup {n} /\ d.names[n] = Fresh(c, type)
      /\ d.code = c.code
  BY NewNameAfter
<1>3. /\ d.pool = e.pool /\ d.usage = e.usage /\ d.code = e.code /\ d.block = e.block
      /\ d.item = e.item
      /\ d.names = [k \in DOMAIN e.names \cup {n} |-> IF k = n THEN Fresh(c, type) ELSE e.names[k]]
  <2>1. e = [pool |-> e.pool, usage |-> e.usage, names |-> e.names, code |-> e.code,
             saved |-> e.saved, block |-> e.block, item |-> e.item]
    BY <1>1, Unfolded
  <2>2. d = [e EXCEPT !.names = [k \in DOMAIN @ \cup {n} |-> IF k = n THEN Fresh(c, type) ELSE @[k]]]
    BY DEF NewName
  <2>. HIDE DEF e
  <2>. QED BY <2>1, <2>2
<1>. HIDE DEF e
<1>4. Guarded(d)
  <2>1. Guarded(e)
    BY <1>1 DEF Standing
  <2>2. \A k \in DOMAIN d.names : Ordinary(d.names[k])
    BY <1>1, <1>3, <2>1 DEF Guarded
  <2>. QED BY <1>3, <2>1, <2>2 DEF Guarded
<1>. QED BY <1>1, <1>2, <1>3, <1>4, SameCodeStands

\* A call notes that LR is used.
LEMMA TouchStands ==
  ASSUME NEW c \in CC, NEW w, NEW a, NEW f, Standing(c, w, a, f), NEW d, d = TouchLR(c)
  PROVE  Standing(d, w, a, f) /\ d.usage["I"][0] > 0
<1>1. d = [pool |-> c.pool, usage |-> [c.usage EXCEPT !["I"] = Mirror(c.usage["I"], 0)],
           names |-> c.names, code |-> c.code, saved |-> c.saved, block |-> c.block,
           item |-> c.item]
  <2>1. c = [pool |-> c.pool, usage |-> c.usage, names |-> c.names, code |-> c.code,
             saved |-> c.saved, block |-> c.block, item |-> c.item]
    BY Unfolded
  <2>2. LR.v = 0
    BY DEF LR, Tok
  <2>3. d = [c EXCEPT !.usage["I"] = Mirror(@, 0)]
    BY <2>2 DEF TouchLR
  <2>. QED BY <2>1, <2>3, Fields
<1>2. c.usage \in [{"I", "R"} -> Tables]
  BY Fields
<1>3. d.usage["I"] = Mirror(c.usage["I"], 0) /\ c.usage["I"] \in [Regs -> Int]
  BY <1>1, <1>2 DEF Tables
<1>4. /\ d.usage["I"][0] = c.usage["I"][0] + 1
      /\ \A k \in {1, 2} \cap Regs : d.usage["I"][k] = c.usage["I"][k]
  BY <1>3, ZeroIsReg DEF Mirror
<1>5. Guarded(c)
  BY DEF Standing
<1>6. Guarded(d) /\ d.usage["I"][0] > 0
  BY <1>1, <1>4, <1>5 DEF Guarded
<1>. QED BY <1>1, <1>6, SameCodeStands

\* ---- instructions where they stand ------------------------------------------------------

\* Plain instructions are no jumps and no labels.
LEMMA PlainKinds ==
  ASSUME NEW op \in PlainOps
  PROVE  op \in Opcodes /\ op \notin {"LABEL", "JLINK", "UJUMP", "BREQZ", "BNEQZ", "HALT", "RETRN"}
BY DEF PlainOps, Opcodes, IntOps, RealTests, RealOps, Moves, Jumps

\* A plain instruction.
LEMMA PlainStands ==
  ASSUME NEW c \in CC, NEW w, NEW a \in {"level", "moved", "bare"}, Standing(c, w, a, In(c.block)),
         NEW op \in PlainOps, NEW dest, NEW src0, NEW src1,
         op \in Writers => Len(dest) = 1 /\ Ordinary(dest[1]),
         NEW d \in CC, d = Emit(c, op, dest, src0, src1)
  PROVE  Standing(d, w, a, In(c.block))
<1>1. op \notin {"LABEL", "JLINK", "UJUMP", "BREQZ", "BNEQZ", "HALT", "RETRN"}
  BY PlainKinds
<1>2. PICK i : i = [op |-> op, dest |-> dest, src0 |-> src0, src1 |-> src1,
                    block |-> c.block, item |-> c.item]
  OBVIOUS
<1>3. i.op = op /\ i.dest = dest
  BY <1>2
<1>4. Passes(w.saved, a, In(c.block), i, a)
  BY <1>3 DEF Passes, Plain
<1>5. a \in AtEnds => c.block \in {"prologue", "leave"}
  BY DEF Standing, Here
<1>6. a \in Stages
  BY DEF Stages
<1>. QED BY <1>1, <1>2, <1>4, <1>5, <1>6, StepStands

\* Stages an expression is computed in.
Computing == {"level", "moved"}

\* copy() to a register that is not one of the convention.
LEMMA CopyStands ==
  ASSUME NEW c \in CC, NEW w, NEW a \in Computing, Standing(c, w, a, In(c.block)),
         NEW x \in Symbols, Ordinary(x), NEW y \in Data, ~(IsInt(x) /\ ~IsInt(y)),
         NEW d, d = Copy(c, x, y)
  PROVE  Standing(d, w, a, In(c.block))
<1>1. d \in CC
  BY CopyAfter DEF After
<1>2. PICK op : op \in {"COPYI", "CITOR", "COPYR"} /\ d = Emit(c, op, <<x>>, <<y>>, <<>>)
  BY DEF Copy, Emit2
<1>3. op \in PlainOps
  BY <1>2 DEF PlainOps, Opcodes, Moves
<1>. QED BY <1>1, <1>2, <1>3, PlainStands DEF Computing

\* The conversion to REAL.
LEMMA ToRealStands ==
  ASSUME NEW c \in CC, NEW w, NEW a \in Computing, Standing(c, w, a, In(c.block)),
         NEW x \in Data, NEW d, d = ToReal(c, x)
  PROVE  Standing(d, w, a, In(c.block))
<1>1. d \in CC
  BY ToRealAfter DEF After
<1>2. ASSUME IsInt(x) PROVE Standing(d, w, a, In(c.block))
  <2>1. PICK e : e = NewTemp(c, "R")
    OBVIOUS
  <2>2. e \in CC /\ e.block = c.block /\ Standing(e, w, a, In(c.block))
    BY <2>1, NewTempAfter, NewTempStands DEF After
  <2>3. d = Emit(e, "CITOR", <<Fresh(c, "R")>>, <<x>>, <<>>)
    BY <1>2, <2>1 DEF ToReal, Real, Emit2
  <2>4. "CITOR" \in PlainOps /\ "CITOR" \notin Writers
    BY DEF PlainOps, Opcodes, Moves, Writers, RealTests
  <2>. QED BY <1>1, <2>2, <2>3, <2>4, PlainStands DEF Computing
<1>. QED BY <1>2 DEF ToReal

\* arith() and comp().
LEMMA TypedStands ==
  ASSUME NEW c \in CC, NEW w, NEW a \in Computing, Standing(c, w, a, In(c.block)),
         NEW x \in Symbols, Ordinary(x), NEW y \in Data, NEW z \in Data,
         NEW int \in IntOps \ {"STORI"}, NEW real \in RealTests \cup RealOps,
         IsInt(y) /\ IsInt(z) => x.t = "I",
         ~(IsInt(y) /\ IsInt(z)) => x.t = IF real \in RealTests THEN "I" ELSE "R",
         NEW d, d = Typed(c, <<int, real>>, x, y, z)
  PROVE  Standing(d, w, a, In(c.block))
<1>1. d \in CC
  BY TypedAfter DEF After
<1>2. int \in PlainOps /\ real \in PlainOps
  BY DEF PlainOps, Opcodes, IntOps, RealTests, RealOps
<1>3. ASSUME IsInt(y), IsInt(z) PROVE Standing(d, w, a, In(c.block))
  <2>1. d = Emit(c, int, <<x>>, <<y>>, <<z>>)
    BY <1>3 DEF Typed, Emit3
  <2>. QED BY <1>1, <1>2, <2>1, PlainStands DEF Computing
<1>4. ASSUME ~(IsInt(y) /\ IsInt(z)) PROVE Standing(d, w, a, In(c.block))
  <2>1. PICK c1 : c1 = ToReal(c, y)
    OBVIOUS
  <2>2. c1 \in CC /\ c1.block = c.block /\ Standing(c1, w, a, In(c.block))
    BY <2>1, ToRealAfter, ToRealStands DEF After
  <2>3. PICK c2 : c2 = ToReal(c1, z)
    OBVIOUS
  <2>4. c2 \in CC /\ c2.block = c.block /\ Standing(c2, w, a, In(c.block))
    BY <2>2, <2>3, ToRealAfter, ToRealStands DEF After
  <2>5. d = Emit(c2, real, <<x>>, <<Real(c, y)>>, <<Real(c1, z)>>)
    BY <1>4, <2>1, <2>3 DEF Typed, Emit3
  <2>. QED BY <1>1, <1>2, <2>4, <2>5, PlainStands DEF Computing
<1>. QED BY <1>3, <1>4

\* load() to a register that is not one of the convention.
LEMMA LoadStands ==
  ASSUME NEW c \in CC, NEW w, NEW a \in {"level", "moved", "bare"}, Standing(c, w, a, In(c.block)),
         NEW x \in Symbols, Ordinary(x), NEW base \in {FP, SP}, NEW offset \in Int,
         NEW d, d = Load(c, x, base, offset)
  PROVE  Standing(d, w, a, In(c.block))
<1>1. d \in CC
  BY LoadAfter DEF After
<1>2. PICK op : /\ op \in {"LOADI", "LOADR"}
                /\ d = Emit(c, op, <<x>>, <<base>>, <<Const(offset)>>)
  BY DEF Load, Emit3
<1>3. op \in PlainOps
  BY <1>2 DEF PlainOps, Opcodes, IntOps
<1>. QED BY <1>1, <1>2, <1>3, PlainStands

\* Where memory is written at an offset from FP or SP, and how it goes on.
Stores(q, a, f, base, k) ==
  \/ a = "level" /\ f = "fun" /\ base = FP /\ k = 0
  \/ a = "moved" /\ base = SP /\ k \in Nat \ {0}
  \/ a = "bare" /\ ~Kept(q) /\ f = "fun" /\ base = SP /\ k \in Nat
  \/ a = "saved" /\ f = "fun" /\ base = SP /\ k \in Nat \ {0}

\* The instruction of stor().
LEMMA StoreStands ==
  ASSUME NEW c \in CC, NEW w, NEW a, Standing(c, w, a, In(c.block)),
         NEW base, NEW k, Stores(w.saved, a, In(c.block), base, k),
         NEW x, NEW op \in {"STORI", "STORR"}, NEW d \in CC, d = Emit3(c, op, x, base, Const(k))
  PROVE  Standing(d, w, a, In(c.block))
<1>1. PICK i : i = [op |-> op, dest |-> <<x>>, src0 |-> <<base>>, src1 |-> <<Const(k)>>,
                    block |-> c.block, item |-> c.item]
  OBVIOUS
<1>2. Store(i, base, k)
  BY <1>1 DEF Store
<1>3. Passes(w.saved, a, In(c.block), i, a)
  BY <1>2 DEF Passes, Stores
<1>4. a \in AtEnds => c.block \in {"prologue", "leave"}
  BY DEF Standing, Here
<1>5. a \in Stages /\ op \notin {"LABEL", "JLINK", "UJUMP", "BREQZ", "BNEQZ"}
  BY DEF Stages, Stores
<1>6. d = Emit(c, op, <<x>>, <<base>>, <<Const(k)>>)
  BY DEF Emit3
<1>. QED BY <1>1, <1>3, <1>4, <1>5, <1>6, StepStands

\* stor(): a constant goes through a scratch temporary.
LEMMA StorStands ==
  ASSUME NEW c \in CC, NEW w, NEW a, Standing(c, w, a, In(c.block)),
         NEW base \in {FP, SP}, NEW k \in Int, Stores(w.saved, a, In(c.block), base, k),
         NEW x \in Data, IsConst(x) => a \in Computing,
         NEW d, d = Stor(c, x, base, k)
  PROVE  Standing(d, w, a, In(c.block))
<1>. DEFINE type == IF IsInt(x) THEN "I" ELSE "R"
            op   == IF IsInt(x) THEN "STORI" ELSE "STORR"
            y    == Fresh(c, type)
<1>1. type \in {"I", "R"} /\ op \in {"STORI", "STORR"}
  OBVIOUS
<1>2. y \in Symbols /\ y.t = type
  BY <1>1, FreshSymbol
<1>3. ASSUME IsConst(x) PROVE Standing(d, w, a, In(c.block))
  <2>1. PICK c1 : c1 = NewTemp(c, type)
    OBVIOUS
  <2>2. c1 \in CC /\ c1.block = c.block /\ Standing(c1, w, a, In(c.block)) /\ Ordinary(y)
    <3>. HIDE DEF type
    <3>. QED BY <1>1, <2>1, NewTempAfter, NewTempStands DEF After
  <2>3. PICK c2 : c2 = Copy(c1, y, x)
    OBVIOUS
  <2>4. ~(IsInt(y) /\ ~IsInt(x))
    BY <1>2 DEF IsInt
  <2>5. c2 \in CC /\ c2.block = c.block /\ Standing(c2, w, a, In(c.block))
    <3>. HIDE DEF type, op, y
    <3>1. After(c1, c2)
      BY <1>2, <2>2, <2>3, <2>4, CopyAfter
    <3>2. Standing(c2, w, a, In(c1.block))
      BY <1>2, <1>3, <2>2, <2>3, <2>4, CopyStands
    <3>. QED BY <2>2, <3>1, <3>2 DEF After
  <2>6. PICK c3 : c3 = Emit3(c2, op, y, base, Const(k))
    OBVIOUS
  <2>7. y.t = (IF op \in {"LOADR", "STORR"} THEN "R" ELSE "I")
        /\ op \in {"LOADI", "STORI", "ADD2I", "SUBTI", "LOADR", "STORR"}
    BY <1>2
  <2>8. c3 \in CC /\ c3.block = c.block /\ Standing(c3, w, a, In(c.block))
    <3>. HIDE DEF type, op, y
    <3>1. After(c2, c3)
      BY <1>2, <2>5, <2>6, <2>7, CellAfter
    <3>2. c3 \in CC /\ c3.block = c.block
      BY <2>5, <3>1 DEF After
    <3>3. Standing(c3, w, a, In(c2.block))
      BY <1>1, <2>5, <2>6, <3>2, StoreStands
    <3>. QED BY <2>5, <3>2, <3>3
  <2>9. d = Free(c3, y)
    BY <1>3, <2>1, <2>3, <2>6 DEF Stor
  <2>. HIDE DEF type, op, y
  <2>. QED BY <1>2, <2>2, <2>8, <2>9, FreeStands
<1>4. ASSUME ~IsConst(x) PROVE Standing(d, w, a, In(c.block))
  <2>1. d = Emit3(c, op, x, base, Const(k))
    BY <1>4 DEF Stor
  <2>2. d \in CC
    BY StorAfter DEF After
  <2>. HIDE DEF op
  <2>. QED BY <1>1, <2>1, <2>2, StoreStands
<1>. QED BY <1>3, <1>4

\* A jump to a label there is or there will be; what comes behind it, only a jump leads to.
LEMMA JumpStands ==
  ASSUME NEW c \in CC, NEW w, Standing(c, w, "level", In(c.block)),
         NEW l \in TokenOf(Int), l.t \in Labels, LabelOf(l) = In(c.block),
         l \in w.pending \/ HasLabel(c, l),
         NEW g \in {"fun", "main"}, NEW d, d = EmitJump(c, "UJUMP", l)
  PROVE  After(c, d) /\ d.names = c.names /\ Standing(d, w, "level", g)
<1>1. After(c, d) /\ d.names = c.names
  <2>1. "UJUMP" \in Opcodes /\ l.t \in Takes("n", Labels)
    BY Shapes DEF Takes
  <2>. QED BY <2>1, Shapes, SourceAfter DEF EmitJump
<1>2. PICK i : i = [op |-> "UJUMP", dest |-> <<>>, src0 |-> <<l>>, src1 |-> <<>>,
                    block |-> c.block, item |-> c.item]
  OBVIOUS
<1>3. Departs("level", In(c.block), i) /\ Targets(i) = {l} /\ ~IsMarker(i)
  BY <1>2 DEF Departs, Targets, IsMarker
<1>4. Step(w.saved, "level", In(c.block), i, "level", g)
  BY <1>3 DEF Step
<1>5. d = Emit(c, "UJUMP", <<>>, <<l>>, <<>>)
  BY DEF EmitJump
<1>6. "level" \in Stages /\ "level" \notin AtEnds /\ d \in CC
  BY <1>1 DEF Stages, AtEnds, After
<1>. QED BY <1>1, <1>2, <1>3, <1>4, <1>5, <1>6, EmitStands

\* A label.
LEMMA LabelStands ==
  ASSUME NEW c \in CC, NEW w, NEW l \in TokenOf(Int), Standing(c, w, "level", LabelOf(l)),
         l.t = "prologue" => w.marker = Len(c.code) + 1, NEW d, d = EmitLabel(c, l)
  PROVE  Standing(d, w, "level", LabelOf(l)) /\ HasLabel(d, l)
<1>1. d \in CC
  BY LabelAfter DEF After
<1>2. PICK i : i = [op |-> "LABEL", dest |-> <<>>, src0 |-> <<l>>, src1 |-> <<>>,
                    block |-> c.block, item |-> c.item]
  OBVIOUS
<1>3. Stays("level", LabelOf(l), i) /\ Targets(i) = {} /\ (IsMarker(i) => l.t = "prologue")
      /\ IsLabel(i, l)
  BY <1>2 DEF Stays, Targets, IsMarker, IsLabel
<1>4. Step(w.saved, "level", LabelOf(l), i, "level", LabelOf(l))
  BY <1>3 DEF Step
<1>5. d = Emit(c, "LABEL", <<>>, <<l>>, <<>>)
  BY DEF EmitLabel
<1>6. "level" \in Stages /\ "level" \notin AtEnds /\ LabelOf(l) \in {"fun", "main"}
  <2>1. PICK at, in : Staged(w, c.code, at, in) /\ in[Len(c.code) + 1] = LabelOf(l)
    BY DEF Standing
  <2>2. Len(c.code) \in Nat
    BY Fields
  <2>3. Len(c.code) + 1 \in 1 .. Len(c.code) + 1
    BY <2>2
  <2>4. in[Len(c.code) + 1] \in {"fun", "main"}
    BY <2>1, <2>3 DEF Staged, Marks
  <2>. QED BY <2>1, <2>4 DEF Stages, AtEnds
<1>7. Standing(d, w, "level", LabelOf(l)) /\ d.code[Len(d.code)] = i /\ Len(d.code) = Len(c.code) + 1
  <2>1. IsMarker(i) => w.marker = Len(c.code) + 1
    BY <1>3
  <2>2. \A t \in Targets(i) : t \in w.pending \/ HasLabel(c, t)
    BY <1>3
  <2>3. PICK op, b, f, none, one : /\ op = "LABEL" /\ b = "level" /\ f = LabelOf(l) /\ none = <<>> /\ one = <<l>>
    OBVIOUS
  <2>4. /\ Standing(c, w, b, f) /\ Step(w.saved, b, f, i, b, f) /\ b \in Stages /\ b \notin AtEnds
        /\ f \in {"fun", "main"} /\ op # "JLINK" /\ d = Emit(c, op, none, one, none)
        /\ (op # "LABEL" => f = In(c.block))
        /\ i = [op |-> op, dest |-> none, src0 |-> one, src1 |-> none,
                block |-> c.block, item |-> c.item]
    BY <1>2, <1>4, <1>5, <1>6, <2>3
  <2>5. (b \in AtEnds => c.block \in {"prologue", "leave"})
        /\ (op = "JLINK" /\ c.block \in FunBlocks => ~w.done /\ w.linked)
    BY <2>4
  <2>6. Standing(d, w, b, f)
    <3>1. MayEmit(c, w, b, f, b, f, d, i)
      BY <1>1, <2>1, <2>2, <2>4, <2>5 DEF MayEmit
    <3>2. d = Emit(c, op, none, one, none)
      BY <2>4
    <3>3. op = i.op /\ none = i.dest /\ one = i.src0 /\ none = i.src1
      BY <2>4
    <3>. QED BY <3>1, <3>2, <3>3, Emits
  <2>7. c.code \in Seq(Emitted) /\ d.code = Append(c.code, i)
    BY <1>2, <1>5, Fields DEF Emit
  <2>8. d.code[Len(d.code)] = i /\ Len(d.code) = Len(c.code) + 1
    BY <2>7
  <2>. QED BY <2>3, <2>6, <2>8
<1>8. Len(d.code) \in 1 .. Len(d.code)
  BY <1>7, Fields
<1>. QED BY <1>3, <1>7, <1>8 DEF HasLabel

\* A branch.
LEMMA BranchStands ==
  ASSUME NEW c \in CC, NEW w, Standing(c, w, "level", In(c.block)),
         NEW op \in {"BREQZ", "BNEQZ"}, NEW x \in Symbols, x.t = "I",
         NEW l \in TokenOf(Int), l.t \in Labels, LabelOf(l) = In(c.block), l \in w.pending,
         NEW d, d = Emit(c, op, <<>>, <<x>>, <<l>>)
  PROVE  Standing(d, w, "level", In(c.block))
<1>1. d \in CC
  <2>1. op \in Opcodes /\ Shape(op) = <<"i", "n", "-">>
    BY Shapes
  <2>2. l.t \in Takes("n", Labels) /\ x.t \in Takes("i", Labels) /\ x \in TokenOf(Int)
    BY SymbolIsToken DEF Takes
  <2>. QED BY <2>1, <2>2, SourcesAfter DEF After
<1>2. PICK i : i = [op |-> op, dest |-> <<>>, src0 |-> <<x>>, src1 |-> <<l>>,
                    block |-> c.block, item |-> c.item]
  OBVIOUS
<1>3. Stays("level", In(c.block), i) /\ Targets(i) = {l} /\ ~IsMarker(i)
  BY <1>2 DEF Stays, Targets, IsMarker
<1>4. Step(w.saved, "level", In(c.block), i, "level", In(c.block))
  BY <1>3 DEF Step
<1>5. "level" \in Stages /\ "level" \notin AtEnds /\ In(c.block) \in {"fun", "main"}
  BY DEF Stages, AtEnds, In
<1>. QED BY <1>1, <1>2, <1>3, <1>4, <1>5, EmitStands

\* A label that is there need not be waited for.
LEMMA SettledStands ==
  ASSUME NEW c, NEW w, NEW a, NEW f, Standing(c, w, a, f),
         NEW v, v.saved = w.saved, v.start = w.start, v.marker = w.marker, v.done = w.done,
         v.linked => c.usage["I"][0] > 0, \A l \in w.pending : l \in v.pending \/ HasLabel(c, l)
  PROVE  Standing(c, v, a, f)
<1>1. Bound(c, v.pending) /\ LinkNoted(c, v)
  BY DEF Standing, Bound, LinkNoted
<1>2. ASSUME NEW at, NEW in, Staged(w, c.code, at, in) PROVE Staged(v, c.code, at, in)
  BY <1>2 DEF Staged, Ruled
<1>. QED BY <1>1, <1>2 DEF Standing

\* The last of the first i numbers.
LEMMA LastOf ==
  ASSUME NEW i \in Nat \ {0}
  PROVE  Max(1 .. i) = i /\ (1 .. i) \ {i} = 1 .. i - 1 /\ 1 .. i # {}
<1>1. 1 .. i \in SUBSET (1 .. i) /\ 1 .. i # {} /\ i \in 1 .. i /\ i \in Nat
  OBVIOUS
<1>2. Max(1 .. i) \in 1 .. i /\ \A k \in 1 .. i : k <= Max(1 .. i)
  BY <1>1, Greatest
<1>. QED BY <1>1, <1>2

\* The states of the compiler that go on from c, with no name more.
Later(c) == {e \in CC : After(c, e)}
Same(c) == {e \in CC : After(c, e) /\ e.names = c.names}

\* The turns of push(),
PushSteps(t, c, d, q) ==
  /\ t[0] = c /\ t[Len(q)] = d
  /\ \A i \in 1 .. Len(q) : t[i] = IF q[i] = <<>> THEN t[i - 1] ELSE Pushed(t[i - 1], q[i][1], i)
\* The states a fold of pushes goes through.
LEMMA PushTurns ==
  ASSUME NEW c \in CC, NEW q, Queue(q), NEW d, d = PushedAll(c, q)
  PROVE  \E t \in [0 .. Len(q) -> Same(c)] : PushSteps(t, c, d, q)
<1>. DEFINE N == Len(q)
            r == [i \in DOMAIN q |-> i]
            V == Same(c)
            F(e, i) == IF q[i] = <<>> THEN e ELSE Pushed(e, q[i][1], i)
            G == [p \in (1 .. N) \X V |-> F(p[2], p[1])]
            H(iter) == [s \in SUBSET DOMAIN r |->
                          IF s = {} THEN c ELSE F(iter[s \ {Max(s)}], r[Max(s)])]
            chosen == CHOOSE iter : iter = H(iter)
<1>1. d = chosen[DOMAIN r]
  BY DEF PushedAll
<1>2. N \in Nat /\ DOMAIN q = 1 .. N /\ DOMAIN r = 1 .. N /\ \A i \in 1 .. N : r[i] = i
  BY DEF Queue
<1>3. c \in V
  BY Reflexive DEF Same, Later
<1>4. ASSUME NEW e \in V, NEW i \in 1 .. N PROVE F(e, i) \in V
  <2>1. e \in CC /\ After(c, e) /\ e.names = c.names
    BY DEF Same
  <2>2. i \in Int
    BY <1>2
  <2>3. PICK y : y = q[i] /\ (y = <<>> \/ y[1] \in Data)
    BY DEF Queue
  <2>4. PICK f : f = IF y = <<>> THEN e ELSE Pushed(e, y[1], i)
    OBVIOUS
  <2>5. f \in CC /\ After(c, f) /\ f.names = c.names
    <3>. HIDE DEF V, N
    <3>. QED BY <2>1, <2>2, <2>3, <2>4, PushStep
  <2>. QED BY <2>3, <2>4, <2>5 DEF Same, Later
<1>. HIDE DEF F, N, r, V
<1>5. G \in [(1 .. N) \X V -> V]
  BY <1>4
<1>6. PICK it \in [SUBSET (1 .. N) -> V] : Iterates(it, N, c, G)
  BY <1>2, <1>3, <1>5, Iterated
<1>7. it = H(it)
  <2>1. ASSUME NEW s \in SUBSET (1 .. N), s # {}
        PROVE  G[<<Max(s), it[s \ {Max(s)}]>>] = F(it[s \ {Max(s)}], r[Max(s)])
    <3>1. Max(s) \in 1 .. N
      BY <1>2, <2>1, Greatest
    <3>2. it[s \ {Max(s)}] \in V
      OBVIOUS
    <3>. QED BY <1>2, <3>1, <3>2
  <2>. HIDE DEF G
  <2>. QED BY <1>2, <1>6, <2>1 DEF Iterates
<1>8. chosen = H(chosen)
  <2>. HIDE DEF H
  <2>. QED BY <1>7
<1>. HIDE DEF chosen
<1>9. /\ chosen[{}] = c
      /\ \A s \in SUBSET (1 .. N) : s # {} => chosen[s] = F(chosen[s \ {Max(s)}], r[Max(s)])
  BY <1>2, <1>8
<1>. DEFINE J == [s \in SUBSET (1 .. N) |-> V]
<1>10. ASSUME NEW s \in SUBSET (1 .. N), s # {}, Max(s) \in s,
              chosen[s \ {Max(s)}] \in J[s \ {Max(s)}]
       PROVE  chosen[s] \in J[s]
  <2>1. Max(s) \in 1 .. N /\ r[Max(s)] = Max(s) /\ chosen[s \ {Max(s)}] \in V
    BY <1>2, <1>10
  <2>2. chosen[s] = F(chosen[s \ {Max(s)}], Max(s))
    BY <1>9, <1>10, <2>1
  <2>3. PICK e \in V, i \in 1 .. N : e = chosen[s \ {Max(s)}] /\ i = Max(s)
    BY <2>1
  <2>4. chosen[s] \in V
    BY <1>4, <2>2, <2>3
  <2>. QED BY <2>4
<1>11. chosen[{}] \in J[{}]
  BY <1>3, <1>9
<1>12. ASSUME NEW i \in 0 .. N PROVE chosen[1 .. i] \in V
  <2>1. i \in Nat /\ 1 .. i \subseteq 1 .. N
    BY <1>2
  <2>2. ASSUME NEW s \in SUBSET (1 .. i), s # {}, Max(s) \in s, \A k \in s : k <= Max(s),
               chosen[s \ {Max(s)}] \in J[s \ {Max(s)}]
        PROVE  chosen[s] \in J[s]
    <3>1. s \in SUBSET (1 .. N)
      BY <2>1
    <3>. HIDE DEF J
    <3>. QED BY <1>10, <2>2, <3>1
  <2>3. chosen[1 .. i] \in J[1 .. i]
    <3>. HIDE DEF J
    <3>. QED BY <1>11, <2>1, <2>2, Folded
  <2>. QED BY <2>1, <2>3
<1>13. ASSUME NEW i \in 1 .. N PROVE chosen[1 .. i] = F(chosen[1 .. i - 1], i)
  <2>1. Max(1 .. i) = i /\ (1 .. i) \ {i} = 1 .. i - 1 /\ 1 .. i # {}
    <3>1. i \in Nat \ {0}
      BY <1>2
    <3>. QED BY <3>1, LastOf
  <2>2. 1 .. i \in SUBSET (1 .. N)
    BY <1>2
  <2>. QED BY <1>2, <1>9, <2>1, <2>2
<1>. DEFINE t == [i \in 0 .. N |-> chosen[1 .. i]]
<1>14. t \in [0 .. N -> V]
  BY <1>12
<1>15. t[0] = c /\ t[N] = d
  <2>1. 1 .. 0 = {} /\ 0 \in 0 .. N /\ N \in 0 .. N
    BY <1>2
  <2>. QED BY <1>1, <1>2, <1>9, <2>1
<1>16. \A i \in 1 .. N : t[i] = F(t[i - 1], i)
  <2>1. \A i \in 1 .. N : i \in 0 .. N /\ i - 1 \in 0 .. N
    BY <1>2
  <2>. QED BY <1>13, <2>1
<1>. HIDE DEF t
<1>. QED BY <1>14, <1>15, <1>16 DEF F, V, N, PushSteps

\* of pop(),
PopSteps(t, c, d, q) ==
  /\ t[0] = c /\ t[Len(q)] = d
  /\ \A i \in 1 .. Len(q) : t[i] = IF q[i] = <<>> THEN t[i - 1] ELSE Load(t[i - 1], q[i][1], SP, i - 1)
\* The states a fold of pops goes through.
LEMMA PopTurns ==
  ASSUME NEW c \in CC, NEW q, Registers(q), NEW d, d = PopAll(c, q)
  PROVE  \E t \in [0 .. Len(q) -> Same(c)] : PopSteps(t, c, d, q)
<1>. DEFINE N == Len(q)
            r == [i \in DOMAIN q |-> i]
            V == Same(c)
            F(e, i) == IF q[i] = <<>> THEN e ELSE Load(e, q[i][1], SP, i - 1)
            G == [p \in (1 .. N) \X V |-> F(p[2], p[1])]
            H(iter) == [s \in SUBSET DOMAIN r |->
                          IF s = {} THEN c ELSE F(iter[s \ {Max(s)}], r[Max(s)])]
            chosen == CHOOSE iter : iter = H(iter)
<1>1. d = chosen[DOMAIN r]
  BY DEF PopAll
<1>2. N \in Nat /\ DOMAIN q = 1 .. N /\ DOMAIN r = 1 .. N /\ \A i \in 1 .. N : r[i] = i
  BY DEF Registers, Queue
<1>3. c \in V
  BY Reflexive DEF Same, Later
<1>4. ASSUME NEW e \in V, NEW i \in 1 .. N PROVE F(e, i) \in V
  <2>1. e \in CC /\ After(c, e) /\ e.names = c.names
    BY DEF Same
  <2>2. i \in Int
    BY <1>2
  <2>3. PICK y : y = q[i] /\ (y = <<>> \/ y[1] \in Symbols)
    BY DEF Registers
  <2>4. PICK f : f = IF y = <<>> THEN e ELSE Load(e, y[1], SP, i - 1)
    OBVIOUS
  <2>5. f \in CC /\ After(c, f) /\ f.names = c.names
    <3>. HIDE DEF V, N
    <3>. QED BY <2>1, <2>2, <2>3, <2>4, PopStep
  <2>. QED BY <2>3, <2>4, <2>5 DEF Same, Later
<1>. HIDE DEF F, N, r, V
<1>5. G \in [(1 .. N) \X V -> V]
  BY <1>4
<1>6. PICK it \in [SUBSET (1 .. N) -> V] : Iterates(it, N, c, G)
  BY <1>2, <1>3, <1>5, Iterated
<1>7. it = H(it)
  <2>1. ASSUME NEW s \in SUBSET (1 .. N), s # {}
        PROVE  G[<<Max(s), it[s \ {Max(s)}]>>] = F(it[s \ {Max(s)}], r[Max(s)])
    <3>1. Max(s) \in 1 .. N
      BY <1>2, <2>1, Greatest
    <3>2. it[s \ {Max(s)}] \in V
      OBVIOUS
    <3>. QED BY <1>2, <3>1, <3>2
  <2>. HIDE DEF G
  <2>. QED BY <1>2, <1>6, <2>1 DEF Iterates
<1>8. chosen = H(chosen)
  <2>. HIDE DEF H
  <2>. QED BY <1>7
<1>. HIDE DEF chosen
<1>9. /\ chosen[{}] = c
      /\ \A s \in SUBSET (1 .. N) : s # {} => chosen[s] = F(chosen[s \ {Max(s)}], r[Max(s)])
  BY <1>2, <1>8
<1>. DEFINE J == [s \in SUBSET (1 .. N) |-> V]
<1>10. ASSUME NEW s \in SUBSET (1 .. N), s # {}, Max(s) \in s,
              chosen[s \ {Max(s)}] \in J[s \ {Max(s)}]
       PROVE  chosen[s] \in J[s]
  <2>1. Max(s) \in 1 .. N /\ r[Max(s)] = Max(s) /\ chosen[s \ {Max(s)}] \in V
    BY <1>2, <1>10
  <2>2. chosen[s] = F(chosen[s \ {Max(s)}], Max(s))
    BY <1>9, <1>10, <2>1
  <2>3. PICK e \in V, i \in 1 .. N : e = chosen[s \ {Max(s)}] /\ i = Max(s)
    BY <2>1
  <2>4. chosen[s] \in V
    BY <1>4, <2>2, <2>3
  <2>. QED BY <2>4
<1>11. chosen[{}] \in J[{}]
  BY <1>3, <1>9
<1>12. ASSUME NEW i \in 0 .. N PROVE chosen[1 .. i] \in V
  <2>1. i \in Nat /\ 1 .. i \subseteq 1 .. N
    BY <1>2
  <2>2. ASSUME NEW s \in SUBSET (1 .. i), s # {}, Max(s) \in s, \A k \in s : k <= Max(s),
               chosen[s \ {Max(s)}] \in J[s \ {Max(s)}]
        PROVE  chosen[s] \in J[s]
    <3>1. s \in SUBSET (1 .. N)
      BY <2>1
    <3>. HIDE DEF J
    <3>. QED BY <1>10, <2>2, <3>1
  <2>3. chosen[1 .. i] \in J[1 .. i]
    <3>. HIDE DEF J
    <3>. QED BY <1>11, <2>1, <2>2, Folded
  <2>. QED BY <2>1, <2>3
<1>13. ASSUME NEW i \in 1 .. N PROVE chosen[1 .. i] = F(chosen[1 .. i - 1], i)
  <2>1. Max(1 .. i) = i /\ (1 .. i) \ {i} = 1 .. i - 1 /\ 1 .. i # {}
    <3>1. i \in Nat \ {0}
      BY <1>2
    <3>. QED BY <3>1, LastOf
  <2>2. 1 .. i \in SUBSET (1 .. N)
    BY <1>2
  <2>. QED BY <1>2, <1>9, <2>1, <2>2
<1>. DEFINE t == [i \in 0 .. N |-> chosen[1 .. i]]
<1>14. t \in [0 .. N -> V]
  BY <1>12
<1>15. t[0] = c /\ t[N] = d
  <2>1. 1 .. 0 = {} /\ 0 \in 0 .. N /\ N \in 0 .. N
    BY <1>2
  <2>. QED BY <1>1, <1>2, <1>9, <2>1
<1>16. \A i \in 1 .. N : t[i] = F(t[i - 1], i)
  <2>1. \A i \in 1 .. N : i \in 0 .. N /\ i - 1 \in 0 .. N
    BY <1>2
  <2>. QED BY <1>13, <2>1
<1>. HIDE DEF t
<1>. QED BY <1>14, <1>15, <1>16 DEF F, V, N, PopSteps

\* of load_argument()
LoadSteps(t, c, d, q) ==
  /\ t[0] = c /\ t[Len(q)] = d
  /\ \A i \in 1 .. Len(q) : t[i] = Load(t[i - 1], t[i - 1].names[q[i]], FP, i)
\* The states LoadArgs goes through.
LEMMA LoadTurns ==
  ASSUME NEW c \in CC, NEW q, Len(q) \in Nat, DOMAIN q = 1 .. Len(q),
         \A i \in 1 .. Len(q) : q[i] \in DOMAIN c.names, NEW d, d = LoadArgsAll(c, q)
  PROVE  \E t \in [0 .. Len(q) -> Same(c)] : LoadSteps(t, c, d, q)
<1>. DEFINE N == Len(q)
            r == [i \in DOMAIN q |-> i]
            V == Same(c)
            F(e, i) == Load(e, e.names[q[i]], FP, i)
            G == [p \in (1 .. N) \X V |-> F(p[2], p[1])]
            H(iter) == [s \in SUBSET DOMAIN r |->
                          IF s = {} THEN c ELSE F(iter[s \ {Max(s)}], r[Max(s)])]
            chosen == CHOOSE iter : iter = H(iter)
<1>1. d = chosen[DOMAIN r]
  BY DEF LoadArgsAll
<1>2. N \in Nat /\ DOMAIN q = 1 .. N /\ DOMAIN r = 1 .. N /\ \A i \in 1 .. N : r[i] = i
  OBVIOUS
<1>3. c \in V
  BY Reflexive DEF Same, Later
<1>4. ASSUME NEW e \in V, NEW i \in 1 .. N PROVE F(e, i) \in V
  <2>1. e \in CC /\ After(c, e) /\ e.names = c.names
    BY DEF Same
  <2>2. i \in Int
    BY <1>2
  <2>3. PICK y : y = q[i] /\ (y \in DOMAIN c.names)
    BY <1>2
  <2>6. PICK x \in Symbols : x = c.names[y]
    BY <2>3, Fields
  <2>4. PICK f : f = Load(e, x, FP, i)
    OBVIOUS
  <2>5. f \in CC /\ After(c, f) /\ f.names = c.names
    <3>. HIDE DEF V, N
    <3>. QED BY <2>1, <2>2, <2>3, <2>4, <2>6, LoadStep
  <2>. QED BY <2>1, <2>3, <2>4, <2>5, <2>6 DEF Same
<1>. HIDE DEF F, N, r, V
<1>5. G \in [(1 .. N) \X V -> V]
  BY <1>4
<1>6. PICK it \in [SUBSET (1 .. N) -> V] : Iterates(it, N, c, G)
  BY <1>2, <1>3, <1>5, Iterated
<1>7. it = H(it)
  <2>1. ASSUME NEW s \in SUBSET (1 .. N), s # {}
        PROVE  G[<<Max(s), it[s \ {Max(s)}]>>] = F(it[s \ {Max(s)}], r[Max(s)])
    <3>1. Max(s) \in 1 .. N
      BY <1>2, <2>1, Greatest
    <3>2. it[s \ {Max(s)}] \in V
      OBVIOUS
    <3>. QED BY <1>2, <3>1, <3>2
  <2>. HIDE DEF G
  <2>. QED BY <1>2, <1>6, <2>1 DEF Iterates
<1>8. chosen = H(chosen)
  <2>. HIDE DEF H
  <2>. QED BY <1>7
<1>. HIDE DEF chosen
<1>9. /\ chosen[{}] = c
      /\ \A s \in SUBSET (1 .. N) : s # {} => chosen[s] = F(chosen[s \ {Max(s)}], r[Max(s)])
  BY <1>2, <1>8
<1>. DEFINE J == [s \in SUBSET (1 .. N) |-> V]
<1>10. ASSUME NEW s \in SUBSET (1 .. N), s # {}, Max(s) \in s,
              chosen[s \ {Max(s)}] \in J[s \ {Max(s)}]
       PROVE  chosen[s] \in J[s]
  <2>1. Max(s) \in 1 .. N /\ r[Max(s)] = Max(s) /\ chosen[s \ {Max(s)}] \in V
    BY <1>2, <1>10
  <2>2. chosen[s] = F(chosen[s \ {Max(s)}], Max(s))
    BY <1>9, <1>10, <2>1
  <2>3. PICK e \in V, i \in 1 .. N : e = chosen[s \ {Max(s)}] /\ i = Max(s)
    BY <2>1
  <2>4. chosen[s] \in V
    BY <1>4, <2>2, <2>3
  <2>. QED BY <2>4
<1>11. chosen[{}] \in J[{}]
  BY <1>3, <1>9
<1>12. ASSUME NEW i \in 0 .. N PROVE chosen[1 .. i] \in V
  <2>1. i \in Nat /\ 1 .. i \subseteq 1 .. N
    BY <1>2
  <2>2. ASSUME NEW s \in SUBSET (1 .. i), s # {}, Max(s) \in s, \A k \in s : k <= Max(s),
               chosen[s \ {Max(s)}] \in J[s \ {Max(s)}]
        PROVE  chosen[s] \in J[s]
    <3>1. s \in SUBSET (1 .. N)
      BY <2>1
    <3>. HIDE DEF J
    <3>. QED BY <1>10, <2>2, <3>1
  <2>3. chosen[1 .. i] \in J[1 .. i]
    <3>. HIDE DEF J
    <3>. QED BY <1>11, <2>1, <2>2, Folded
  <2>. QED BY <2>1, <2>3
<1>13. ASSUME NEW i \in 1 .. N PROVE chosen[1 .. i] = F(chosen[1 .. i - 1], i)
  <2>1. Max(1 .. i) = i /\ (1 .. i) \ {i} = 1 .. i - 1 /\ 1 .. i # {}
    <3>1. i \in Nat \ {0}
      BY <1>2
    <3>. QED BY <3>1, LastOf
  <2>2. 1 .. i \in SUBSET (1 .. N)
    BY <1>2
  <2>. QED BY <1>2, <1>9, <2>1, <2>2
<1>. DEFINE t == [i \in 0 .. N |-> chosen[1 .. i]]
<1>14. t \in [0 .. N -> V]
  BY <1>12
<1>15. t[0] = c /\ t[N] = d
  <2>1. 1 .. 0 = {} /\ 0 \in 0 .. N /\ N \in 0 .. N
    BY <1>2
  <2>. QED BY <1>1, <1>2, <1>9, <2>1
<1>16. \A i \in 1 .. N : t[i] = F(t[i - 1], i)
  <2>1. \A i \in 1 .. N : i \in 0 .. N /\ i - 1 \in 0 .. N
    BY <1>2
  <2>. QED BY <1>13, <2>1
<1>. HIDE DEF t
<1>. QED BY <1>14, <1>15, <1>16 DEF F, V, N, LoadSteps

\* and of the declarations.
NameSteps(t, c, d, q) ==
  /\ t[0] = c /\ t[Len(q)] = d
  /\ \A i \in 1 .. Len(q) : t[i] = NewName(t[i - 1], q[i], src.types[q[i]])
\* The states a sequence of declarations goes through.
LEMMA NameTurns ==
  ASSUME NEW c \in CC, NEW q, Len(q) \in Nat, DOMAIN q = 1 .. Len(q),
         \A i \in 1 .. Len(q) : q[i] \in AllNames /\ src.types[q[i]] \in Types, NEW d, d = NewNamesAll(c, q)
  PROVE  \E t \in [0 .. Len(q) -> Later(c)] : NameSteps(t, c, d, q)
<1>. DEFINE N == Len(q)
            V == Later(c)
            F(e, i) == NewName(e, q[i], src.types[q[i]])
            G == [p \in (1 .. N) \X V |-> F(p[2], p[1])]
            H(iter) == [s \in SUBSET DOMAIN q |->
                          IF s = {} THEN c ELSE F(iter[s \ {Max(s)}], Max(s))]
            chosen == CHOOSE iter : iter = H(iter)
<1>1. d = chosen[DOMAIN q]
  BY DEF NewNamesAll
<1>2. N \in Nat /\ DOMAIN q = 1 .. N
  OBVIOUS
<1>3. c \in V
  BY Reflexive DEF Same, Later
<1>4. ASSUME NEW e \in V, NEW i \in 1 .. N PROVE F(e, i) \in V
  <2>1. e \in CC /\ After(c, e)
    BY DEF Later
  <2>3. PICK y : y = q[i] /\ (y \in AllNames /\ src.types[y] \in Types)
    BY <1>2
  <2>4. PICK f : f = NewName(e, y, src.types[y])
    OBVIOUS
  <2>5. f \in CC /\ After(c, f)
    <3>. HIDE DEF V, N
    <3>. QED BY <2>1, <2>3, <2>4, NewNamesStep
  <2>. QED BY <2>3, <2>4, <2>5 DEF Same, Later
<1>. HIDE DEF F, N, V
<1>5. G \in [(1 .. N) \X V -> V]
  BY <1>4
<1>6. PICK it \in [SUBSET (1 .. N) -> V] : Iterates(it, N, c, G)
  BY <1>2, <1>3, <1>5, Iterated
<1>7. it = H(it)
  <2>1. ASSUME NEW s \in SUBSET (1 .. N), s # {}
        PROVE  G[<<Max(s), it[s \ {Max(s)}]>>] = F(it[s \ {Max(s)}], Max(s))
    <3>1. Max(s) \in 1 .. N
      BY <1>2, <2>1, Greatest
    <3>2. it[s \ {Max(s)}] \in V
      OBVIOUS
    <3>. QED BY <1>2, <3>1, <3>2
  <2>. HIDE DEF G
  <2>. QED BY <1>2, <1>6, <2>1 DEF Iterates
<1>8. chosen = H(chosen)
  <2>. HIDE DEF H
  <2>. QED BY <1>7
<1>. HIDE DEF chosen
<1>9. /\ chosen[{}] = c
      /\ \A s \in SUBSET (1 .. N) : s # {} => chosen[s] = F(chosen[s \ {Max(s)}], Max(s))
  BY <1>2, <1>8
<1>. DEFINE J == [s \in SUBSET (1 .. N) |-> V]
<1>10. ASSUME NEW s \in SUBSET (1 .. N), s # {}, Max(s) \in s,
              chosen[s \ {Max(s)}] \in J[s \ {Max(s)}]
       PROVE  chosen[s] \in J[s]
  <2>1. Max(s) \in 1 .. N /\ s \ {Max(s)} \in SUBSET (1 .. N) /\ chosen[s \ {Max(s)}] \in V
    BY <1>10
  <2>2. chosen[s] = F(chosen[s \ {Max(s)}], Max(s))
    BY <1>9, <1>10
  <2>3. PICK e \in V, i \in 1 .. N : e = chosen[s \ {Max(s)}] /\ i = Max(s)
    BY <2>1
  <2>4. chosen[s] \in V
    BY <1>4, <2>2, <2>3
  <2>. QED BY <2>4
<1>11. chosen[{}] \in J[{}]
  BY <1>3, <1>9
<1>12. ASSUME NEW i \in 0 .. N PROVE chosen[1 .. i] \in V
  <2>1. i \in Nat /\ 1 .. i \subseteq 1 .. N
    BY <1>2
  <2>2. ASSUME NEW s \in SUBSET (1 .. i), s # {}, Max(s) \in s, \A k \in s : k <= Max(s),
               chosen[s \ {Max(s)}] \in J[s \ {Max(s)}]
        PROVE  chosen[s] \in J[s]
    <3>1. s \in SUBSET (1 .. N)
      BY <2>1
    <3>. HIDE DEF J
    <3>. QED BY <1>10, <2>2, <3>1
  <2>3. chosen[1 .. i] \in J[1 .. i]
    <3>. HIDE DEF J
    <3>. QED BY <1>11, <2>1, <2>2, Folded
  <2>. QED BY <2>1, <2>3
<1>13. ASSUME NEW i \in 1 .. N PROVE chosen[1 .. i] = F(chosen[1 .. i - 1], i)
  <2>1. Max(1 .. i) = i /\ (1 .. i) \ {i} = 1 .. i - 1 /\ 1 .. i # {}
    <3>1. i \in Nat \ {0}
      BY <1>2
    <3>. QED BY <3>1, LastOf
  <2>2. 1 .. i \in SUBSET (1 .. N)
    BY <1>2
  <2>. QED BY <1>2, <1>9, <2>1, <2>2
<1>. DEFINE t == [i \in 0 .. N |-> chosen[1 .. i]]
<1>14. t \in [0 .. N -> V]
  BY <1>12
<1>15. t[0] = c /\ t[N] = d
  <2>1. 1 .. 0 = {} /\ 0 \in 0 .. N /\ N \in 0 .. N
    BY <1>2
  <2>. QED BY <1>1, <1>2, <1>9, <2>1
<1>16. \A i \in 1 .. N : t[i] = F(t[i - 1], i)
  <2>1. \A i \in 1 .. N : i \in 0 .. N /\ i - 1 \in 0 .. N
    BY <1>2
  <2>. QED BY <1>13, <2>1
<1>. HIDE DEF t
<1>. QED BY <1>14, <1>15, <1>16 DEF F, V, N, NameSteps

\* What holds at 0 and goes from every number to the next holds up to N.
LEMMA Counted ==
  ASSUME NEW N \in Nat, NEW B, 0 \in B, \A i \in 1 .. N : i - 1 \in B => i \in B
  PROVE  \A i \in 0 .. N : i \in B
<1>. DEFINE Bad == {i \in 0 .. N : i \notin B}
<1>1. SUFFICES ASSUME Bad # {} PROVE FALSE
  OBVIOUS
<1>2. Bad \subseteq Nat
  OBVIOUS
<1>3. PICK k \in Bad : \A i \in Bad : k <= i
  <2>. HIDE DEF Bad
  <2>. QED BY <1>1, <1>2, Smallest
<1>4. k \in 1 .. N /\ k \notin B /\ k - 1 \notin Bad
  BY <1>3
<1>. QED BY <1>4

\* Declarations.
LEMMA NamesStand ==
  ASSUME NEW c \in CC, NEW q, Len(q) \in Nat, DOMAIN q = 1 .. Len(q),
         \A i \in 1 .. Len(q) : q[i] \in AllNames /\ src.types[q[i]] \in Types,
         NEW w, NEW a, NEW f, Standing(c, w, a, f), NEW d, d = NewNames(c, q)
  PROVE  Standing(d, w, a, f)
<1>1. d = NewNamesAll(c, q)
  BY NewNamesFolds
<1>2. PICK t \in [0 .. Len(q) -> Later(c)] : NameSteps(t, c, d, q)
  BY <1>1, NameTurns
<1>. DEFINE B == {i \in 0 .. Len(q) : Standing(t[i], w, a, f)}
<1>3. ASSUME NEW i \in 1 .. Len(q), i - 1 \in B PROVE i \in B
  <2>1. PICK e, y, type : /\ e \in CC /\ e = t[i - 1] /\ y = q[i] /\ type = src.types[y]
                           /\ Standing(e, w, a, f)
    BY <1>2, <1>3 DEF Later
  <2>2. t[i] = NewName(e, y, type) /\ y \in AllNames /\ type \in Types /\ type \in {"I", "R"}
    BY <1>2, <2>1 DEF Types, NameSteps
  <2>3. Standing(t[i], w, a, f)
    BY <2>1, <2>2, NewNameStands
  <2>. QED BY <2>3
<1>4. 0 \in B
  BY <1>2 DEF NameSteps
<1>5. Len(q) \in 0 .. Len(q)
  OBVIOUS
<1>6. Len(q) \in B
  <2>. HIDE DEF B
  <2>. QED BY <1>3, <1>4, <1>5, Counted
<1>. QED BY <1>2, <1>6 DEF NameSteps

\* The arguments.
LEMMA ArgsStand ==
  ASSUME NEW c \in CC, NEW q, Len(q) \in Nat, DOMAIN q = 1 .. Len(q),
         \A i \in 1 .. Len(q) : q[i] \in DOMAIN c.names,
         NEW w, Standing(c, w, "level", In(c.block)), NEW d, d = LoadArgsAll(c, q)
  PROVE  Standing(d, w, "level", In(c.block))
<1>2. PICK t \in [0 .. Len(q) -> Same(c)] : LoadSteps(t, c, d, q)
  BY LoadTurns
<1>. DEFINE B == {i \in 0 .. Len(q) : Standing(t[i], w, "level", In(c.block))}
<1>3. ASSUME NEW i \in 1 .. Len(q), i - 1 \in B PROVE i \in B
  <2>1. PICK e, x : /\ e \in CC /\ e = t[i - 1] /\ x = e.names[q[i]] /\ e.names = c.names
                    /\ e.block = c.block /\ Standing(e, w, "level", In(c.block))
    BY <1>2, <1>3 DEF After, Same
  <2>2. t[i] = Load(e, x, FP, i) /\ q[i] \in DOMAIN e.names /\ i \in Int
    BY <1>2, <2>1 DEF LoadSteps
  <2>3. x \in Symbols /\ Ordinary(x)
    <3>1. x \in Symbols
      BY <2>1, <2>2, Fields
    <3>2. Guarded(e)
      BY <2>1 DEF Standing
    <3>. QED BY <2>1, <2>2, <3>1, <3>2 DEF Guarded
  <2>4. Standing(t[i], w, "level", In(c.block))
    BY <2>1, <2>2, <2>3, LoadStands
  <2>. QED BY <2>4
<1>4. 0 \in B
  BY <1>2 DEF LoadSteps
<1>5. Len(q) \in 0 .. Len(q)
  OBVIOUS
<1>6. Len(q) \in B
  <2>. HIDE DEF B
  <2>. QED BY <1>3, <1>4, <1>5, Counted
<1>. QED BY <1>2, <1>6 DEF LoadSteps

\* An instruction on SP that leads from a to b.
LEMMA OnSPStands ==
  ASSUME NEW c \in CC, NEW w, NEW a, NEW b \in Stages, Standing(c, w, a, In(c.block)),
         NEW op \in {"STORI", "ADD2I", "SUBTI", "LOADI"}, NEW x \in Symbols, x.t = "I", NEW k \in Int,
         \A i : OnSP(i, op, x, k) => Passes(w.saved, a, In(c.block), i, b),
         b \in AtEnds => c.block \in {"prologue", "leave"},
         NEW d, d = Emit3(c, op, x, SP, Const(k))
  PROVE  After(c, d) /\ d.names = c.names /\ Standing(d, w, b, In(c.block))
<1>1. After(c, d) /\ d.names = c.names
  BY Fixed, CellAfter
<1>2. PICK i, dest, src0, src1 :
        /\ dest = <<x>> /\ src0 = <<SP>> /\ src1 = <<Const(k)>>
        /\ i = [op |-> op, dest |-> dest, src0 |-> src0, src1 |-> src1,
               block |-> c.block, item |-> c.item]
  OBVIOUS
<1>3. OnSP(i, op, x, k)
  BY <1>2 DEF OnSP
<1>4. Passes(w.saved, a, In(c.block), i, b)
  BY <1>3
<1>5. d = Emit(c, op, dest, src0, src1) /\ d \in CC
  BY <1>1, <1>2 DEF Emit3, After
<1>6. op \notin {"LABEL", "JLINK", "UJUMP", "BREQZ", "BNEQZ"}
  OBVIOUS
<1>7. Standing(d, w, b, In(c.block))
  BY <1>2, <1>4, <1>5, <1>6, StepStands
<1>. QED BY <1>1, <1>7

\* One operand is pushed, FP is not.
LEMMA OperandPushed ==
  ASSUME NEW c, NEW x, x # FP, NEW n PROVE Pushed(c, x, n) = Stor(c, x, SP, n - 1)
BY DEF Pushed

\* FP is pushed first: it is stored and then moved.
LEMMA FPPushed ==
  ASSUME NEW c \in CC, NEW w, Standing(c, w, "level", In(c.block)), NEW d, d = Pushed(c, FP, 1)
  PROVE  d \in CC /\ After(c, d) /\ Standing(d, w, "moved", In(c.block))
<1>1. PICK e : e = Emit3(c, "STORI", FP, SP, Const(0))
  OBVIOUS
<1>2. d = Emit3(e, "ADD2I", FP, SP, Const(1))
  <2>1. IsInt(FP) /\ ~IsConst(FP) /\ 1 - 1 = 0
    BY DEF IsInt, IsConst, FP, Tok
  <2>2. Stor(c, FP, SP, 1 - 1) = e
    BY <1>1, <2>1 DEF Stor
  <2>. QED BY <2>2 DEF Pushed
<1>3. {"stored", "moved"} \subseteq Stages /\ "stored" \notin AtEnds /\ "moved" \notin AtEnds
  BY DEF Stages, AtEnds
<1>4. \A i : OnSP(i, "STORI", FP, 0) => Passes(w.saved, "level", In(c.block), i, "stored")
  BY DEF Passes
<1>5. After(c, e) /\ Standing(e, w, "stored", In(c.block))
  BY <1>1, <1>3, <1>4, Fixed, OnSPStands
<1>6. e \in CC /\ e.block = c.block /\ Standing(e, w, "stored", In(e.block))
  BY <1>5 DEF After
<1>7. \A i : OnSP(i, "ADD2I", FP, 1) => Passes(w.saved, "stored", In(e.block), i, "moved")
  BY DEF Passes
<1>8. After(e, d) /\ Standing(d, w, "moved", In(e.block))
  <2>1. FP \in Symbols /\ FP.t = "I" /\ 1 \in Int
    BY Fixed
  <2>. QED BY <1>2, <1>3, <1>6, <1>7, <2>1, OnSPStands
<1>9. d \in CC /\ After(c, d)
  BY <1>5, <1>8, Transitive DEF After
<1>. QED BY <1>6, <1>8, <1>9

\* An operand is stored above SP.
LEMMA ArgStored ==
  ASSUME NEW c \in CC, NEW w, Standing(c, w, "moved", In(c.block)), NEW x \in Data, x # FP,
         NEW n \in Nat, n > 1, NEW d, d = Pushed(c, x, n)
  PROVE  d \in CC /\ After(c, d) /\ Standing(d, w, "moved", In(c.block))
<1>1. n - 1 \in Nat \ {0} /\ n - 1 \in Int
  OBVIOUS
<1>2. PICK k : k = n - 1
  OBVIOUS
<1>3. d = Stor(c, x, SP, k)
  BY <1>2, OperandPushed
<1>4. Stores(w.saved, "moved", In(c.block), SP, k) /\ "moved" \in Computing /\ k \in Int
  BY <1>1, <1>2 DEF Stores, Computing
<1>5. After(c, d) /\ Standing(d, w, "moved", In(c.block))
  BY <1>3, <1>4, StorAfter, StorStands
<1>. QED BY <1>5 DEF After

\* The call pushes FP, a cell for the return value and the arguments.
LEMMA CallPushStands ==
  ASSUME NEW c \in CC, NEW w, Standing(c, w, "level", In(c.block)),
         NEW x \in Data, NEW y \in Data, x # FP, y # FP,
         NEW d, d = Push(c, <<<<FP>>, <<>>, <<x>>, <<y>>>>)
  PROVE  After(c, d) /\ d.names = c.names /\ Standing(d, w, "pushed", In(c.block))
<1>1. PICK q : q = <<<<FP>>, <<>>, <<x>>, <<y>>>>
  OBVIOUS
<1>2. /\ Len(q) = 4 /\ q[1] # <<>> /\ q[1][1] = FP /\ q[2] = <<>> /\ q[3] # <<>> /\ q[3][1] = x
      /\ q[4] # <<>> /\ q[4][1] = y /\ q = [n \in 1 .. 4 |-> q[n]]
  BY <1>1
<1>3. Queue(q)
  <2>1. FP \in Data
    BY Fixed DEF Data
  <2>2. \A n \in 1 .. 4 : n = 1 \/ n = 2 \/ n = 3 \/ n = 4
    OBVIOUS
  <2>3. \A n \in 1 .. 4 : q[n] = <<>> \/ q[n][1] \in Data
    BY <1>2, <2>1, <2>2
  <2>. QED BY <1>2, <2>3 DEF Queue
<1>4. PICK e : e = PushedAll(c, q)
  OBVIOUS
<1>5. PICK t \in [0 .. Len(q) -> Same(c)] : PushSteps(t, c, e, q)
  BY <1>3, <1>4, PushTurns
<1>6. PICK t1, t2, t3, t4 : t1 = t[1] /\ t2 = t[2] /\ t3 = t[3] /\ t4 = t[4]
  OBVIOUS
<1>7. /\ t1 = Pushed(c, FP, 1) /\ t2 = t1 /\ t3 = Pushed(t2, x, 3) /\ t4 = Pushed(t3, y, 4) /\ e = t4
  <2>1. /\ t[1] = (IF q[1] = <<>> THEN t[0] ELSE Pushed(t[0], q[1][1], 1))
        /\ t[2] = (IF q[2] = <<>> THEN t[1] ELSE Pushed(t[1], q[2][1], 2))
        /\ t[3] = (IF q[3] = <<>> THEN t[2] ELSE Pushed(t[2], q[3][1], 3))
        /\ t[4] = (IF q[4] = <<>> THEN t[3] ELSE Pushed(t[3], q[4][1], 4))
        /\ t[0] = c /\ t[4] = e
    BY <1>2, <1>5 DEF PushSteps
  <2>. QED BY <1>2, <1>6, <2>1
<1>8. t1 \in CC /\ After(c, t1) /\ Standing(t1, w, "moved", In(c.block))
  BY <1>7, FPPushed
<1>9. t1.block = c.block
  BY <1>8 DEF After
<1>10. t3 \in CC /\ After(t1, t3) /\ Standing(t3, w, "moved", In(c.block))
  BY <1>7, <1>8, <1>9, ArgStored
<1>11. t3.block = c.block
  BY <1>9, <1>10 DEF After
<1>12. t4 \in CC /\ After(t3, t4) /\ Standing(t4, w, "moved", In(c.block))
  BY <1>7, <1>10, <1>11, ArgStored, SMTT(40)
<1>13. t4.block = c.block
  BY <1>11, <1>12 DEF After
<1>14. d = Emit3(t4, "ADD2I", SP, SP, Const(4))
  BY <1>1, <1>2, <1>4, <1>7, PushFolds
<1>15. \A i : OnSP(i, "ADD2I", SP, 4) => Passes(w.saved, "moved", In(t4.block), i, "pushed")
  BY DEF Passes
<1>16. "pushed" \in Stages /\ "pushed" \notin AtEnds
  BY DEF Stages, AtEnds
<1>17. Standing(d, w, "pushed", In(t4.block))
  BY <1>12, <1>13, <1>14, <1>15, <1>16, Fixed, OnSPStands
<1>18. After(c, d) /\ d.names = c.names
  BY <1>1, <1>3, PushAfter
<1>. QED BY <1>13, <1>17, <1>18

\* JLINK comes back.
LEMMA LinkStands ==
  ASSUME NEW c \in CC, NEW w, Standing(c, w, "pushed", In(c.block)),
         c.block \in FunBlocks => ~w.done /\ w.linked, NEW d, d = EmitJump(c, "JLINK", Const(2))
  PROVE  After(c, d) /\ d.names = c.names /\ Standing(d, w, "back", In(c.block))
<1>1. After(c, d) /\ d.names = c.names
  BY Fixed, JumpAfter
<1>2. PICK i, src0, none, op : /\ none = <<>> /\ src0 = <<Const(2)>> /\ op = "JLINK"
        /\ i = [op |-> op, dest |-> none, src0 |-> src0, src1 |-> none,
               block |-> c.block, item |-> c.item]
  OBVIOUS
<1>3. PICK f : f = In(c.block) /\ f \in {"fun", "main"}
  BY DEF In
<1>4. i.op = "JLINK" /\ i.dest = <<>> /\ i.src0 = <<Const(2)>>
  BY <1>2
<1>5. PICK a, b : a = "pushed" /\ b = "back" /\ b \in Stages /\ b \notin AtEnds
  BY DEF Stages, AtEnds
<1>6. Passes(w.saved, a, f, i, b)
  BY <1>4, <1>5 DEF Passes
<1>7. Step(w.saved, a, f, i, b, f) /\ Standing(c, w, a, f)
  BY <1>3, <1>5, <1>6 DEF Step
<1>8. Targets(i) = {} /\ ~IsMarker(i)
  BY <1>4 DEF Targets, IsMarker
<1>9. d = Emit(c, op, none, src0, none) /\ d \in CC
  BY <1>1, <1>2 DEF EmitJump, After
<1>10. (\A l \in Targets(i) : l \in w.pending \/ HasLabel(c, l)) /\ (IsMarker(i) => w.marker = Len(c.code) + 1)
  BY <1>8
<1>11. Standing(d, w, b, f)
  BY <1>2, <1>3, <1>5, <1>7, <1>9, <1>10, EmitStands, SMTT(40)
<1>. QED BY <1>1, <1>3, <1>5, <1>11

\* FP and the return value are popped.
LEMMA CallPopStands ==
  ASSUME NEW c \in CC, NEW w, Standing(c, w, "back", In(c.block)), NEW x \in Symbols, Ordinary(x),
         NEW d, d = Pop(c, <<<<FP>>, <<x>>, <<>>, <<>>>>)
  PROVE  Standing(d, w, "level", In(c.block))
<1>1. PICK q : q = <<<<FP>>, <<x>>, <<>>, <<>>>>
  OBVIOUS
<1>2. /\ Len(q) = 4 /\ q[1] # <<>> /\ q[1][1] = FP /\ q[2] # <<>> /\ q[2][1] = x /\ q[3] = <<>>
      /\ q[4] = <<>> /\ q = [n \in 1 .. 4 |-> q[n]]
  BY <1>1
<1>3. Registers(q)
  <2>1. FP \in Symbols /\ FP \in Data /\ x \in Data
    BY Fixed DEF Data
  <2>2. \A n \in 1 .. 4 : n = 1 \/ n = 2 \/ n = 3 \/ n = 4
    OBVIOUS
  <2>3. \A n \in 1 .. 4 : q[n] = <<>> \/ (q[n][1] \in Data /\ q[n][1] \in Symbols)
    BY <1>2, <2>1, <2>2
  <2>. QED BY <1>2, <2>3 DEF Queue, Registers
<1>4. PICK e : e = Emit3(c, "SUBTI", SP, SP, Const(4))
  OBVIOUS
<1>5. "popped" \in Stages /\ "popped" \notin AtEnds /\ "level" \in Stages /\ "level" \notin AtEnds
  BY DEF Stages, AtEnds
<1>6. \A i : OnSP(i, "SUBTI", SP, 4) => Passes(w.saved, "back", In(c.block), i, "popped")
  BY DEF Passes
<1>7. After(c, e) /\ Standing(e, w, "popped", In(c.block))
  <2>1. SP \in Symbols /\ SP.t = "I" /\ 4 \in Int
    BY Fixed
  <2>. QED BY <1>4, <1>5, <1>6, <2>1, OnSPStands
<1>8. e \in CC /\ e.block = c.block /\ Standing(e, w, "popped", In(e.block))
  BY <1>7 DEF After
<1>9. d = PopAll(e, q)
  BY <1>1, <1>2, <1>4, PopFolds
<1>10. PICK t \in [0 .. Len(q) -> Same(e)] : PopSteps(t, e, d, q)
  BY <1>3, <1>8, <1>9, PopTurns
<1>11. PICK t1 : t1 = Load(e, FP, SP, 0)
  OBVIOUS
<1>12. d = Load(t1, x, SP, 1)
  <2>1. /\ t[1] = (IF q[1] = <<>> THEN t[0] ELSE Load(t[0], q[1][1], SP, 1 - 1))
        /\ t[2] = (IF q[2] = <<>> THEN t[1] ELSE Load(t[1], q[2][1], SP, 2 - 1))
        /\ t[3] = (IF q[3] = <<>> THEN t[2] ELSE Load(t[2], q[3][1], SP, 3 - 1))
        /\ t[4] = (IF q[4] = <<>> THEN t[3] ELSE Load(t[3], q[4][1], SP, 4 - 1))
        /\ t[0] = e /\ t[4] = d
    BY <1>2, <1>10 DEF PopSteps
  <2>2. 1 - 1 = 0 /\ 2 - 1 = 1
    OBVIOUS
  <2>. QED BY <1>2, <1>11, <2>1, <2>2
<1>13. t1 = Emit3(e, "LOADI", FP, SP, Const(0))
  BY <1>11 DEF Load, IsInt, FP, Tok
<1>14. \A i : OnSP(i, "LOADI", FP, 0) => Passes(w.saved, "popped", In(e.block), i, "level")
  BY DEF Passes
<1>15. After(e, t1) /\ Standing(t1, w, "level", In(e.block))
  <2>1. FP \in Symbols /\ FP.t = "I" /\ 0 \in Int
    BY Fixed
  <2>. QED BY <1>5, <1>8, <1>13, <1>14, <2>1, OnSPStands
<1>16. t1 \in CC /\ t1.block = c.block /\ Standing(t1, w, "level", In(t1.block))
  BY <1>8, <1>15 DEF After
<1>17. PICK base, n \in Int : base = SP /\ n = 1
  OBVIOUS
<1>18. Standing(d, w, "level", In(t1.block))
  BY <1>12, <1>16, <1>17, LoadStands
<1>. QED BY <1>16, <1>18

\* What an item reads or writes is not a register of the convention.
LEMMA NamedOrdinary ==
  ASSUME NEW c \in CC, NEW w, NEW a, NEW f, Standing(c, w, a, f), NEW n \in DOMAIN c.names
  PROVE  c.names[n] \in Symbols /\ c.names[n] \in Data /\ Ordinary(c.names[n])
<1>1. c.names[n] \in Symbols
  BY Fields
<1>2. Guarded(c)
  BY DEF Standing
<1>. QED BY <1>1, <1>2 DEF Guarded, Data

\* The symbol of a usable operand is not FP, nor any register of the convention if it is a name.
LEMMA SymOrdinary ==
  ASSUME NEW c \in CC, NEW w, NEW a, NEW f, Standing(c, w, a, f), NEW x, Usable(x, DOMAIN c.names)
  PROVE  Sym(c, x) \in Data /\ Sym(c, x) # FP
<1>1. Sym(c, x) \in Data
  BY SymData
<1>2. ASSUME x.t = "name" PROVE Ordinary(Sym(c, x))
  <2>1. x.v \in DOMAIN c.names /\ Sym(c, x) = c.names[x.v]
    BY <1>2 DEF Usable, Sym
  <2>. QED BY <2>1, NamedOrdinary
<1>3. ASSUME x.t # "name" PROVE Ordinary(Sym(c, x))
  BY <1>3 DEF Usable, Sym, Ordinary
<1>4. ~Ordinary(FP)
  BY DEF Ordinary, FP, Tok
<1>. QED BY <1>1, <1>2, <1>3, <1>4

\* The labels of an item belong to its block.
LEMMA AtLabel ==
  ASSUME NEW c, c.block \in {"fun", "main"}, NEW n \in Nat \ {0}, NEW kind \in {"then", "fi"}
  PROVE  /\ LabelOf(At(kind, c, n)) = In(c.block)
         /\ At(kind, c, n) \in TokenOf(Int) /\ At(kind, c, n).t = kind
<1>1. kind \in Labels /\ n \in Int
  BY DEF Labels
<1>2. At(kind, c, n) \in TokenOf(Int)
  BY <1>1, AtToken
<1>. QED BY <1>2 DEF LabelOf, At, In, Tok, FunBlocks

\* An assignment.
LEMMA AssnStands ==
  ASSUME NEW c \in CC, NEW w, Standing(c, w, "level", In(c.block)),
         NEW i, i.kind = "assn", Usable(i.x, DOMAIN c.names), i.dest \in DOMAIN c.names,
         ~Mismatch(c, i), NEW d, d = ItemCode(c, i)
  PROVE  Standing(d, w, "level", In(c.block))
<1>1. PICK x, y : x = c.names[i.dest] /\ y = Sym(c, i.x)
  OBVIOUS
<1>2. x \in Symbols /\ Ordinary(x) /\ y \in Data
  BY <1>1, NamedOrdinary, SymOrdinary
<1>3. ~(IsInt(x) /\ ~IsInt(y))
  BY <1>1 DEF Mismatch
<1>4. d = Copy(c, x, y)
  BY <1>1 DEF ItemCode
<1>. QED BY <1>2, <1>3, <1>4, CopyStands DEF Computing

\* An arithmetic expression.
LEMMA ArithStands ==
  ASSUME NEW c \in CC, NEW w, Standing(c, w, "level", In(c.block)),
         NEW i, i.kind = "arith", i.op \in {"+", "-", "*", "/"}, i.dest \in AllNames,
         Usable(i.x, DOMAIN c.names), Usable(i.y, DOMAIN c.names),
         AllInteger => i.x.t # "real" /\ i.y.t # "real", NEW d, d = ItemCode(c, i)
  PROVE  Standing(d, w, "level", In(c.block))
<1>1. PICK x, y, type : /\ x = Sym(c, i.x) /\ y = Sym(c, i.y)
                        /\ type = IF IsInt(x) /\ IsInt(y) THEN "I" ELSE "R"
  OBVIOUS
<1>2. PICK e, z : e = NewName(c, i.dest, type) /\ z = e.names[i.dest]
  OBVIOUS
<1>3. d = Typed(e, ArithOps(i.op), z, x, y)
  BY <1>1, <1>2 DEF ItemCode, ArithCode
<1>4. x \in Data /\ y \in Data /\ type \in {"I", "R"}
  BY <1>1, SymOrdinary
<1>5. type \in Types
  <2>1. AllInteger => IsInt(x) /\ IsInt(y)
    BY <1>1, SymData
  <2>. QED BY <1>1, <2>1 DEF Types
<1>6. Standing(e, w, "level", In(c.block)) /\ Ordinary(z)
  BY <1>2, <1>4, <1>5, NewNameStands
<1>7. e \in CC /\ e.block = c.block /\ z = Fresh(c, type)
  BY <1>2, <1>4, <1>5, NewNameAfter DEF After
<1>8. z \in Symbols /\ z.t = type
  BY <1>4, <1>7, FreshSymbol
<1>9. PICK int \in IntOps \ {"STORI"}, real \in RealOps : ArithOps(i.op) = <<int, real>>
  BY DEF ArithOps, IntOps, RealOps
<1>10. Standing(e, w, "level", In(e.block)) /\ "level" \in Computing /\ real \notin RealTests
  BY <1>6, <1>7 DEF Computing, RealOps, RealTests
<1>11. Standing(d, w, "level", In(e.block))
  BY <1>1, <1>3, <1>4, <1>6, <1>7, <1>8, <1>9, <1>10, TypedStands
<1>. QED BY <1>7, <1>11

\* READ.
LEMMA ReadStands ==
  ASSUME NEW c \in CC, NEW w, Standing(c, w, "level", In(c.block)),
         NEW i, i.kind = "read", i.dest \in DOMAIN c.names, NEW d, d = ItemCode(c, i)
  PROVE  Standing(d, w, "level", In(c.block))
<1>1. PICK x : x = c.names[i.dest] /\ x \in Symbols /\ Ordinary(x)
  BY NamedOrdinary
<1>2. PICK op : op \in {"READI", "READR"} /\ d = Emit(c, op, <<x>>, <<>>, <<>>)
  BY <1>1 DEF ItemCode
<1>3. op \in PlainOps
  BY <1>2 DEF PlainOps, Opcodes, Moves
<1>4. d \in CC
  BY ReadAfter DEF After
<1>. QED BY <1>1, <1>2, <1>3, <1>4, PlainStands

\* WRITE.
LEMMA WriteStands ==
  ASSUME NEW c \in CC, NEW w, Standing(c, w, "level", In(c.block)),
         NEW i, i.kind = "write", Usable(i.x, DOMAIN c.names), NEW d, d = ItemCode(c, i)
  PROVE  Standing(d, w, "level", In(c.block))
<1>1. PICK x : x = Sym(c, i.x)
  OBVIOUS
<1>2. PICK op : op \in {"PRNTI", "PRNTR"} /\ d = Emit(c, op, <<>>, <<x>>, <<>>)
  BY <1>1 DEF ItemCode
<1>3. op \in PlainOps /\ op \notin Writers
  BY <1>2 DEF PlainOps, Opcodes, Moves, Writers, RealTests
<1>4. d \in CC
  BY WriteAfter DEF After
<1>. QED BY <1>2, <1>3, <1>4, PlainStands

\* At another block or item, in between two of them.
LEMMA MovedOn ==
  ASSUME NEW c, NEW w, NEW f, Standing(c, w, "level", f),
         NEW d, d.code = c.code, d.pool = c.pool, d.usage = c.usage, d.names = c.names
  PROVE  Standing(d, w, "level", f)
<1>1. Here(d, "level")
  BY DEF Here, InCall, AtEnds
<1>2. Guarded(d) /\ LinkNoted(d, w) /\ Bound(d, w.pending) /\ MarkedAt(d, w.marker)
  BY DEF Standing, Guarded, LinkNoted, Bound, MarkedAt, HasLabel
<1>. QED BY <1>1, <1>2 DEF Standing

\* The outline with other labels to come.
Awaiting(w, pending) ==
  [saved |-> w.saved, start |-> w.start, pending |-> pending, marker |-> w.marker,
   done |-> w.done, linked |-> w.linked]
\* More labels may be awaited than before.
LEMMA AwaitingStands ==
  ASSUME NEW c, NEW w, NEW a, NEW f, Standing(c, w, a, f), NEW pending,
         \A l \in w.pending : l \in pending \/ HasLabel(c, l)
  PROVE  Standing(c, Awaiting(w, pending), a, f)
<1>1. PICK v : v = Awaiting(w, pending)
  OBVIOUS
<1>2. /\ v.saved = w.saved /\ v.start = w.start /\ v.marker = w.marker /\ v.done = w.done
      /\ v.linked = w.linked /\ v.pending = pending
  BY <1>1 DEF Awaiting
<1>3. v.linked => c.usage["I"][0] > 0
  BY <1>2 DEF Standing
<1>4. Standing(c, v, a, f)
  BY <1>2, <1>3, SettledStands
<1>. QED BY <1>1, <1>4

\* And back.
LEMMA SettledBack ==
  ASSUME NEW c, NEW w, NEW a, NEW f, NEW pending, Standing(c, Awaiting(w, pending), a, f),
         \A l \in pending : l \in w.pending \/ HasLabel(c, l)
  PROVE  Standing(c, w, a, f)
<1>1. PICK v : v = Awaiting(w, pending)
  OBVIOUS
<1>2. /\ v.saved = w.saved /\ v.start = w.start /\ v.marker = w.marker /\ v.done = w.done
      /\ v.linked = w.linked /\ v.pending = pending
  BY <1>1 DEF Awaiting
<1>3. w.linked => c.usage["I"][0] > 0
  BY <1>1, <1>2 DEF Standing
<1>4. Standing(c, v, a, f)
  BY <1>1
<1>. QED BY <1>2, <1>3, <1>4, SettledStands

\* The end of an IF: its label is there.
LEMMA FiStands ==
  ASSUME NEW c \in CC, NEW w, Standing(c, w, "level", In(c.block)), c.block \in {"fun", "main"},
         c.item \in Nat \ {0}, At("fi", c, c.item) \in w.pending,
         NEW i, i.kind = "fi", NEW d, d = ItemCode(c, i)
  PROVE  Standing(d, w, "level", In(c.block)) /\ HasLabel(d, At("fi", c, c.item))
<1>1. PICK fi : fi = At("fi", c, c.item)
  OBVIOUS
<1>2. fi \in TokenOf(Int) /\ fi.t = "fi" /\ LabelOf(fi) = In(c.block) /\ fi \in w.pending
  BY <1>1, AtLabel
<1>3. PICK e : e \in {c, EmitJump(c, "UJUMP", fi)} /\ d = EmitLabel(e, fi)
  BY <1>1 DEF ItemCode, FiCode
<1>4. "fi" \in Labels /\ In(c.block) \in {"fun", "main"}
  BY DEF Labels, In
<1>5. e \in CC /\ e.block = c.block /\ Standing(e, w, "level", LabelOf(fi))
  <2>1. CASE e = c
    BY <1>2, <2>1
  <2>2. CASE e = EmitJump(c, "UJUMP", fi)
    <3>1. After(c, e) /\ Standing(e, w, "level", In(c.block))
      BY <1>2, <1>4, <2>2, JumpStands
    <3>. QED BY <1>2, <3>1 DEF After
  <2>. QED BY <1>3, <2>1, <2>2
<1>6. Standing(d, w, "level", LabelOf(fi)) /\ HasLabel(d, fi)
  BY <1>2, <1>3, <1>5, LabelStands
<1>. QED BY <1>1, <1>2, <1>6

\* RETURN.
LEMMA ReturnStands ==
  ASSUME NEW c \in CC, NEW w, Standing(c, w, "level", In(c.block)), c.block = "fun",
         Tok("leave", 0) \in w.pending, NEW i, i.kind = "return", Usable(i.x, DOMAIN c.names),
         Len(src.fun) \in Nat, NEW d, d = ItemCode(c, i)
  PROVE  Standing(d, w, "level", In(c.block))
<1>1. PICK x \in Data : x = Sym(c, i.x)
  BY SymData
<1>2. PICK y : y = Cast(c, x, src.ret)
  OBVIOUS
<1>3. PICK c1 : c1 = CastCode(c, x, src.ret)
  OBVIOUS
<1>4. PICK c2 : c2 = Stor(c1, y, FP, 0)
  OBVIOUS
<1>5. PICK c3 : c3 = [c2 EXCEPT !.item = Len(src.fun) + 1]
  OBVIOUS
<1>6. PICK leave : leave = Tok("leave", 0)
  OBVIOUS
<1>7. leave \in TokenOf(Int) /\ leave.t \in Labels /\ LabelOf(leave) = In(c.block)
  <2>1. "leave" \in Labels /\ In(c.block) = "fun"
    BY DEF Labels, In, FunBlocks
  <2>2. leave \in TokenOf(Int) /\ leave.t = "leave"
    BY <1>6, <2>1, LabelToken DEF Tok
  <2>. QED BY <2>1, <2>2 DEF LabelOf
<1>8. d = EmitJump(c3, "UJUMP", leave)
  BY <1>1, <1>2, <1>3, <1>4, <1>5, <1>6 DEF ItemCode, ReturnCode
<1>9. c1 \in CC /\ c1.block = c.block /\ y \in Data
  BY <1>2, <1>3, CastAfter DEF After
<1>10. Standing(c1, w, "level", In(c1.block))
  BY <1>3, <1>9, ToRealStands DEF CastCode, Computing
<1>11. c2 \in CC /\ c2.block = c.block
  BY <1>4, <1>9, StorAfter DEF After
<1>12. Standing(c2, w, "level", In(c1.block))
  <2>1. Stores(w.saved, "level", In(c1.block), FP, 0) /\ "level" \in Computing /\ 0 \in Int
    BY <1>9 DEF Stores, Computing, In, FunBlocks
  <2>2. PICK k, base : k = 0 /\ base = FP
    OBVIOUS
  <2>. QED BY <1>4, <1>9, <1>10, <2>1, <2>2, StorStands
<1>13. After(c2, c3) /\ c3.names = c2.names
  <2>1. PICK n \in Int : n = Len(src.fun) + 1
    OBVIOUS
  <2>2. c3 = [c2 EXCEPT !.item = n]
    BY <1>5, <2>1
  <2>. QED BY <1>11, <2>2, Numbered
<1>14. c3 \in CC /\ c3.block = c.block
  BY <1>11, <1>13 DEF After
<1>15. Standing(c3, w, "level", In(c3.block))
  <2>1. c2 = [pool |-> c2.pool, usage |-> c2.usage, names |-> c2.names, code |-> c2.code,
              saved |-> c2.saved, block |-> c2.block, item |-> c2.item]
    BY <1>11, Unfolded
  <2>2. c3.code = c2.code /\ c3.pool = c2.pool /\ c3.usage = c2.usage
    BY <1>5, <2>1
  <2>. QED BY <1>9, <1>12, <1>13, <1>14, <2>2, MovedOn
<1>16. In(c.block) \in {"fun", "main"} /\ leave \in w.pending /\ LabelOf(leave) = In(c3.block)
  BY <1>6, <1>7, <1>14 DEF In
<1>. QED BY <1>7, <1>8, <1>14, <1>15, <1>16, JumpStands

\* A call.
LEMMA CallStands ==
  ASSUME NEW c \in CC, NEW w, Standing(c, w, "level", In(c.block)),
         NEW i, i.kind = "call", i.dest \in AllNames, src.ret \in {"I", "R"}, src.ret \in Types,
         Usable(i.x, DOMAIN c.names), Usable(i.y, DOMAIN c.names),
         c.block \in FunBlocks => ~w.done, NEW d, d = ItemCode(c, i)
  PROVE  Standing(d, w, "level", In(c.block))
<1>1. PICK x \in Data : x = Sym(c, i.x)
  BY SymData
<1>2. PICK y \in Data : y = Sym(c, i.y)
  BY SymData
<1>3. PICK t : t = [n \in 1 .. 2 |-> src.types[src.params[n]]]
  OBVIOUS
<1>4. PICK e : e = NewName(c, i.dest, src.ret)
  OBVIOUS
<1>5. PICK c1 : c1 = CastCode(e, x, t[1])
  OBVIOUS
<1>6. PICK c2 : c2 = CastCode(c1, y, t[2])
  OBVIOUS
<1>7. PICK c3 : c3 = TouchLR(c2)
  OBVIOUS
<1>8. PICK p1 : p1 = Cast(e, x, t[1])
  OBVIOUS
<1>9. PICK p2 : p2 = Cast(c1, y, t[2])
  OBVIOUS
<1>11. PICK c4 : c4 = Push(c3, <<<<FP>>, <<>>, <<p1>>, <<p2>>>>)
  OBVIOUS
<1>12. PICK c5 : c5 = EmitJump(c4, "JLINK", Const(2))
  OBVIOUS
<1>13. PICK z : z = e.names[i.dest]
  BY SMTT(40)
<1>15. d = Pop(c5, <<<<FP>>, <<z>>, <<>>, <<>>>>)
  <2>1. <<p1, p2>>[1] = p1 /\ <<p1, p2>>[2] = p2
    OBVIOUS
  <2>2. d = CallCode(c, i)
    BY DEF ItemCode
  <2>. QED BY <1>1, <1>2, <1>3, <1>4, <1>5, <1>6, <1>7, <1>8, <1>9, <1>11, <1>12, <1>13,
              <2>1, <2>2 DEF CallCode
<1>16. e \in CC /\ e.block = c.block /\ i.dest \in DOMAIN e.names
  BY <1>4, NewNameAfter DEF After
<1>17. Standing(e, w, "level", In(e.block)) /\ z \in Symbols /\ Ordinary(z)
  BY <1>4, <1>13, <1>16, NewNameStands, Fields
<1>18. x # FP /\ y # FP
  BY <1>1, <1>2, SymOrdinary
<1>19. c1 \in CC /\ c1.block = c.block /\ p1 \in Data
  BY <1>5, <1>8, <1>16, CastAfter DEF After
<1>20. Standing(c1, w, "level", In(c1.block))
  <2>1. Standing(c1, w, "level", In(e.block))
    BY <1>5, <1>16, <1>17, ToRealStands DEF CastCode, Computing
  <2>. QED BY <1>16, <1>19, <2>1
<1>21. c2 \in CC /\ c2.block = c.block /\ p2 \in Data
  BY <1>6, <1>9, <1>19, CastAfter DEF After
<1>22. Standing(c2, w, "level", In(c2.block))
  <2>1. Standing(c2, w, "level", In(c1.block))
    BY <1>6, <1>19, <1>20, ToRealStands DEF CastCode, Computing
  <2>. QED BY <1>19, <1>21, <2>1
<1>23. p1 # FP /\ p2 # FP
  <2>1. FP.t = "I" /\ Fresh(e, "R").t = "R" /\ Fresh(c1, "R").t = "R"
    BY Fixed, FreshSymbol
  <2>. QED BY <1>8, <1>9, <1>18, <2>1 DEF Cast, Real
<1>24. c3 \in CC /\ c3.block = c.block
  BY <1>7, <1>21, TouchAfter DEF After
<1>25. Standing(c3, w, "level", In(c3.block)) /\ c3.usage["I"][0] > 0
  BY <1>7, <1>21, <1>22, <1>24, TouchStands
<1>26. PICK v : v = [saved |-> w.saved, start |-> w.start, pending |-> w.pending,
                     marker |-> w.marker, done |-> w.done, linked |-> TRUE]
  OBVIOUS
<1>27. /\ v.saved = w.saved /\ v.start = w.start /\ v.marker = w.marker /\ v.done = w.done
       /\ v.linked /\ v.pending = w.pending
  BY <1>26
<1>28. Standing(c3, v, "level", In(c3.block))
  BY <1>25, <1>27, SettledStands
<1>29. After(c3, c4) /\ Standing(c4, v, "pushed", In(c3.block))
  BY <1>11, <1>19, <1>21, <1>23, <1>24, <1>28, CallPushStands
<1>30. c4 \in CC /\ c4.block = c.block /\ Standing(c4, v, "pushed", In(c4.block))
  BY <1>24, <1>29 DEF After
<1>31. After(c4, c5) /\ Standing(c5, v, "back", In(c4.block))
  BY <1>12, <1>27, <1>30, LinkStands
<1>32. c5 \in CC /\ c5.block = c.block /\ Standing(c5, v, "back", In(c5.block))
  BY <1>30, <1>31 DEF After
<1>33. Standing(d, v, "level", In(c5.block))
  BY <1>15, <1>17, <1>32, CallPopStands
<1>34. d.usage["I"][0] > 0
  BY <1>27, <1>33 DEF Standing
<1>. QED BY <1>27, <1>32, <1>33, <1>34, SettledStands

\* The label of an IF is emitted where that of its FI will be jumped to.
LEMMA LeaveStands ==
  ASSUME NEW c \in CC, NEW w, Standing(c, w, "level", In(c.block)),
         NEW then \in TokenOf(Int), then.t = "then", LabelOf(then) = In(c.block),
         NEW x \in Symbols, Ordinary(x), NEW c1, c1 = EmitJump(c, "UJUMP", then),
         NEW c2, c2 = Free(c1, x), NEW d, d = EmitLabel(c2, then)
  PROVE  Standing(d, w, "level", In(c.block))
<1>1. PICK pending : pending = w.pending \cup {then}
  OBVIOUS
<1>2. PICK v : v = Awaiting(w, pending)
  OBVIOUS
<1>3. Standing(c, v, "level", In(c.block)) /\ then \in v.pending
  BY <1>1, <1>2, AwaitingStands DEF Awaiting
<1>4. then.t \in Labels /\ In(c.block) \in {"fun", "main"}
  BY DEF Labels, In
<1>5. After(c, c1) /\ Standing(c1, v, "level", In(c.block))
  BY <1>3, <1>4, JumpStands
<1>6. c1 \in CC /\ c1.block = c.block
  BY <1>5 DEF After
<1>7. Standing(c2, v, "level", In(c.block))
  BY <1>5, <1>6, FreeStands
<1>8. c2 \in CC /\ c2.block = c.block
  BY <1>6, FreeAfter DEF After
<1>9. Standing(d, v, "level", LabelOf(then)) /\ HasLabel(d, then)
  <2>1. then.t # "prologue" /\ Standing(c2, v, "level", LabelOf(then))
    BY <1>7
  <2>. QED BY <1>8, <2>1, LabelStands
<1>10. Standing(d, Awaiting(w, pending), "level", In(c.block))
  BY <1>2, <1>9
<1>11. \A l \in pending : l \in w.pending \/ HasLabel(d, l)
  BY <1>1, <1>9
<1>. QED BY <1>10, <1>11, SettledBack

\* The condition of an IF.
LEMMA IfStands ==
  ASSUME NEW c \in CC, NEW w, Standing(c, w, "level", In(c.block)), c.block \in {"fun", "main"},
         c.item \in Nat \ {0}, NEW i, i.kind = "if", i.op \in {"==", "<>", "<", "<=", ">", ">="},
         Usable(i.x, DOMAIN c.names), Usable(i.y, DOMAIN c.names),
         NEW k \in Nat \ {0}, k = Matching(IF c.block = "fun" THEN src.fun ELSE src.main, c.item),
         At("fi", c, k) \in w.pending, NEW d, d = ItemCode(c, i)
  PROVE  Standing(d, w, "level", In(c.block))
<1>1. PICK x \in Data : x = Sym(c, i.x)
  BY SymData
<1>2. PICK y \in Data : y = Sym(c, i.y)
  BY SymData
<1>3. PICK int \in IntOps \ {"STORI"}, real \in RealTests : CompOps(i.op) = <<int, real>>
  BY DEF CompOps, IntOps, RealTests
<1>4. PICK cmp \in Symbols : cmp = Fresh(c, "I") /\ cmp.t = "I"
  BY FreshSymbol
<1>5. PICK then : then = At("then", c, c.item)
  OBVIOUS
<1>6. then \in TokenOf(Int) /\ then.t = "then" /\ LabelOf(then) = In(c.block)
  BY <1>5, AtLabel
<1>7. PICK fi : fi = At("fi", c, k)
  OBVIOUS
<1>8. fi \in TokenOf(Int) /\ fi.t = "fi" /\ LabelOf(fi) = In(c.block) /\ fi \in w.pending
  BY <1>7, AtLabel
<1>9. PICK c1 : c1 = NewTemp(c, "I")
  OBVIOUS
<1>10. PICK c2 : c2 = Typed(c1, <<int, real>>, cmp, x, y)
  OBVIOUS
<1>11. PICK branch \in {"BREQZ", "BNEQZ"} : branch = IF Negated(i.op) THEN "BNEQZ" ELSE "BREQZ"
  OBVIOUS
<1>12. PICK c3 : c3 = Emit(c2, branch, <<>>, <<cmp>>, <<fi>>)
  OBVIOUS
<1>13. PICK c4 : c4 = EmitJump(c3, "UJUMP", then)
  OBVIOUS
<1>14. PICK c5 : c5 = Free(c4, cmp)
  OBVIOUS
<1>15. d = EmitLabel(c5, then)
  BY <1>1, <1>2, <1>3, <1>4, <1>5, <1>7, <1>9, <1>10, <1>11, <1>12, <1>13, <1>14
     DEF ItemCode, IfCode
<1>16. c1 \in CC /\ c1.block = c.block
  BY <1>9, NewTempAfter DEF After
<1>17. Standing(c1, w, "level", In(c1.block)) /\ Ordinary(cmp)
  <2>1. Standing(c1, w, "level", In(c.block)) /\ Ordinary(Fresh(c, "I"))
    BY <1>9, NewTempStands
  <2>. QED BY <1>4, <1>16, <2>1
<1>18. c2 \in CC /\ c2.block = c.block
  <2>1. After(c1, c2)
    BY <1>4, <1>10, <1>16, TypedAfter
  <2>. QED BY <1>16, <2>1 DEF After
<1>19. Standing(c2, w, "level", In(c2.block))
  <2>1. PICK a \in Computing : a = "level"
    BY DEF Computing
  <2>2. Standing(c1, w, a, In(c1.block))
    BY <1>17, <2>1
  <2>3. real \in RealTests \cup RealOps
    OBVIOUS
  <2>4. Standing(c2, w, a, In(c1.block))
    BY <1>4, <1>10, <1>16, <1>17, <2>2, <2>3, TypedStands
  <2>. QED BY <1>16, <1>18, <2>1, <2>4
<1>20. c3 \in CC /\ c3.block = c.block
  <2>1. branch \in Opcodes /\ Shape(branch) = <<"i", "n", "-">>
    BY Shapes
  <2>2. fi.t \in Takes("n", Labels) /\ cmp.t \in Takes("i", Labels) /\ cmp \in TokenOf(Int)
    BY <1>4, <1>8, SymbolIsToken DEF Takes, Labels
  <2>3. After(c2, c3)
    BY <1>8, <1>12, <1>18, <2>1, <2>2, SourcesAfter
  <2>. QED BY <1>18, <2>3 DEF After
<1>21. Standing(c3, w, "level", In(c3.block))
  <2>1. fi.t \in Labels /\ LabelOf(fi) = In(c2.block)
    BY <1>8, <1>18 DEF Labels
  <2>2. Standing(c3, w, "level", In(c2.block))
    BY <1>4, <1>8, <1>12, <1>18, <1>19, <2>1, BranchStands
  <2>. QED BY <1>18, <1>20, <2>2
<1>22. LabelOf(then) = In(c3.block)
  BY <1>6, <1>20
<1>23. Standing(d, w, "level", In(c3.block))
  BY <1>6, <1>13, <1>14, <1>15, <1>17, <1>20, <1>21, <1>22, LeaveStands
<1>. QED BY <1>20, <1>23

\* An item: "fi" items have the labels of the outline.
LEMMA ItemStands ==
  ASSUME NEW c \in CC, NEW w, Standing(c, w, "level", In(c.block)), c.block \in {"fun", "main"},
         NEW items, NEW j \in Nat \ {0}, NEW names, names \subseteq DOMAIN c.names,
         AcceptedItem(items, j, names), c.item = j, j \in DOMAIN items, items[j].dest \in AllNames,
         items = IF c.block = "fun" THEN src.fun ELSE src.main,
         src.ret \in {"I", "R"}, Len(src.fun) \in Nat, Len(items) \in Nat, ~Mismatch(c, items[j]),
         items[j].kind = "return" => c.block = "fun" /\ Tok("leave", 0) \in w.pending,
         c.block \in FunBlocks => ~w.done,
         \A k \in j .. Len(items) : items[k].kind = "fi" => At("fi", c, k) \in w.pending,
         NEW d, d = ItemCode(c, items[j])
  PROVE  /\ Standing(d, w, "level", In(c.block))
         /\ items[j].kind = "fi" => HasLabel(d, At("fi", c, j))
<1>1. PICK i : i = items[j]
  OBVIOUS
<1>2. Usable(i.x, DOMAIN c.names) /\ Usable(i.y, DOMAIN c.names)
  BY <1>1 DEF AcceptedItem, Usable
<1>3. CASE i.kind = "assn"
  <2>1. i.dest \in DOMAIN c.names
    BY <1>1, <1>3 DEF AcceptedItem
  <2>. QED BY <1>1, <1>2, <1>3, <2>1, AssnStands
<1>4. CASE i.kind = "arith"
  <2>1. i.dest \in AllNames /\ i.op \in {"+", "-", "*", "/"}
    BY <1>1, <1>4 DEF AcceptedItem
  <2>2. AllInteger => i.x.t # "real" /\ i.y.t # "real"
    BY <1>1 DEF AllInteger
  <2>. QED BY <1>1, <1>2, <1>4, <2>1, <2>2, ArithStands
<1>5. CASE i.kind = "read"
  <2>1. i.dest \in DOMAIN c.names
    BY <1>1, <1>5 DEF AcceptedItem
  <2>. QED BY <1>1, <1>5, <2>1, ReadStands
<1>6. CASE i.kind = "write"
  BY <1>1, <1>2, <1>6, WriteStands
<1>7. CASE i.kind = "if"
  <2>1. /\ i.op \in {"==", "<>", "<", "<=", ">", ">="}
        /\ \E k \in j + 1 .. Len(items) : EndsIf(items, j, k)
    BY <1>1, <1>7 DEF AcceptedItem
  <2>2. PICK k : k = Matching(items, j)
    OBVIOUS
  <2>3. k \in j + 1 .. Len(items) /\ items[k].kind = "fi"
    <3>1. j \in Int
      OBVIOUS
    <3>. QED BY <2>1, <2>2, <3>1, MatchingFi
  <2>4. At("fi", c, k) \in w.pending /\ k \in Nat \ {0}
    BY <2>3
  <2>5. k = Matching(IF c.block = "fun" THEN src.fun ELSE src.main, c.item)
    BY <2>2
  <2>6. Standing(d, w, "level", In(c.block))
    BY <1>1, <1>2, <1>7, <2>1, <2>4, <2>5, IfStands
  <2>. QED BY <1>1, <1>7, <2>6
<1>8. CASE i.kind = "fi"
  <2>1. At("fi", c, c.item) \in w.pending /\ c.item \in Nat \ {0}
    BY <1>1, <1>8
  <2>. QED BY <1>1, <1>8, <2>1, FiStands
<1>9. CASE i.kind = "call"
  <2>1. i.dest \in AllNames /\ src.ret \in Types
    BY <1>1 DEF Types, AllInteger
  <2>. QED BY <1>1, <1>2, <1>9, <2>1, CallStands
<1>10. CASE i.kind = "return"
  BY <1>1, <1>2, <1>10, ReturnStands
<1>11. i.kind \in {"assn", "arith", "read", "write", "if", "fi", "call", "return"}
  BY <1>1 DEF AcceptedItem
<1>. QED BY <1>1, <1>3, <1>4, <1>5, <1>6, <1>7, <1>8, <1>9, <1>10, <1>11

\* An outline of code to be, or of code that is there, from the start.
Outline(q, pending) ==
  [saved |-> q, start |-> <<<<"level", "main">>>>, pending |-> pending, marker |-> 2,
   done |-> FALSE, linked |-> FALSE]

\* There is no code yet.
LEMMA NoCodeStands ==
  ASSUME NEW q, NEW pending
  PROVE  Standing(NoCode, Outline(q, pending), "level", "main")
<1>1. PICK w : w = Outline(q, pending)
  OBVIOUS
<1>2. PICK c : c = NoCode
  OBVIOUS
<1>3. /\ w.saved = q /\ w.start = <<<<"level", "main">>>> /\ ~w.linked
  BY <1>1 DEF Outline
<1>4. "level" \in Stages /\ "level" \notin InCall /\ "level" \notin AtEnds
  BY DEF Stages, InCall, AtEnds
<1>5. w.start \in Seq(Stages \X {"fun", "main"})
  BY <1>3, <1>4
<1>6. Guarded(c)
  <2>1. /\ c.pool["I"] = Table({0, 1, 2}) /\ c.usage["I"] = Table({}) /\ c.names = <<>>
    BY <1>2 DEF NoCode
  <2>2. 0 \in Regs
    BY ZeroIsReg
  <2>3. DOMAIN c.names = {}
    BY <2>1
  <2>4. \A r \in {0, 1, 2} \cap Regs : c.pool["I"][r] = NOREG
    BY <2>1 DEF Table
  <2>5. \A r \in Regs : c.usage["I"][r] = 0
    BY <2>1 DEF Table, VACANT
  <2>6. c.usage["I"][0] \in Nat
    BY <2>2, <2>5
  <2>. QED BY <2>3, <2>4, <2>5, <2>6 DEF Guarded
<1>7. c.code = <<>> /\ Len(c.code) = 0
  BY <1>2 DEF NoCode
<1>8. LinkNoted(c, w) /\ Bound(c, w.pending) /\ MarkedAt(c, w.marker)
  BY <1>7 DEF LinkNoted, Bound, MarkedAt
<1>9. Here(c, "level")
  BY <1>4 DEF Here
<1>10. PICK at, in : at = [n \in 1 .. 1 |-> "level"] /\ in = [n \in 1 .. 1 |-> "main"]
  OBVIOUS
<1>11. at[1] = "level" /\ in[1] = "main"
  BY <1>10
<1>12. Marks(c.code, at, in)
  BY <1>4, <1>7, <1>10 DEF Marks
<1>13. Staged(w, c.code, at, in)
  <2>1. \A n \in 1 .. Len(c.code) : Ruled(w, c.code, at, in, n)
    BY <1>7
  <2>2. DOMAIN w.start = {1} /\ w.start[1] = <<"level", "main">>
    BY <1>3
  <2>3. \A n \in DOMAIN w.start : n <= Len(c.code) + 1 /\ <<at[n], in[n]>> = w.start[n]
    BY <1>7, <1>11, <2>2
  <2>. QED BY <1>12, <2>1, <2>3 DEF Staged
<1>14. Standing(c, w, "level", "main")
  <2>1. at[Len(c.code) + 1] = "level" /\ in[Len(c.code) + 1] = "main"
    BY <1>7, <1>11
  <2>2. \E at1, in1 : /\ Staged(w, c.code, at1, in1)
                      /\ at1[Len(c.code) + 1] = "level" /\ in1[Len(c.code) + 1] = "main"
    BY <1>13, <2>1
  <2>. QED BY <1>3, <1>5, <1>6, <1>8, <1>9, <2>2 DEF Standing
<1>. QED BY <1>1, <1>2, <1>14

\* The header of the function: the jump over it, the marker, the arguments.
LEMMA HeaderStands ==
  ASSUME Accepted(src), NEW q, NEW pending, Tok("skip", 0) \in pending, NEW d, d = HeaderCode(NoCode)
  PROVE  /\ Standing(d, Outline(q, pending), "level", "fun")
         /\ d.code[1].op # "LABEL" /\ Len(d.code) > 0
<1>0. PICK w : w = Outline(q, pending)
  OBVIOUS
<1>1. PICK c : c = NoCode
  OBVIOUS
<1>2. PICK c1 : c1 = EmitJump(c, "UJUMP", Tok("skip", 0))
  OBVIOUS
<1>3. PICK c2 : c2 = [c1 EXCEPT !.block = "fun"]
  OBVIOUS
<1>4. PICK c3 : c3 = EmitLabel(c2, Tok("prologue", 0))
  OBVIOUS
<1>5. PICK c4 : c4 = NewNames(c3, src.params)
  OBVIOUS
<1>6. PICK c5 : c5 = LoadArgsAll(c4, src.params)
  OBVIOUS
<1>7. d = NewNames(c5, src.locals)
  BY <1>1, <1>2, <1>3, <1>4, <1>5, <1>6, HeaderFolds
<1>8. c \in CC /\ Standing(c, w, "level", "main") /\ c.block = "skip" /\ c.code = <<>>
  BY <1>0, <1>1, NoCodeStands, NoCodeType DEF NoCode
<1>9. w.marker = 2 /\ w.pending = pending
  BY <1>0 DEF Outline
<1>10. PICK skip, marker : skip = Tok("skip", 0) /\ marker = Tok("prologue", 0)
  OBVIOUS
<1>11. /\ skip \in TokenOf(Int) /\ skip.t \in Labels /\ LabelOf(skip) = "main"
       /\ marker \in TokenOf(Int) /\ marker.t = "prologue" /\ LabelOf(marker) = "fun"
  <2>1. "skip" \in Labels /\ "prologue" \in Labels
    BY DEF Labels
  <2>2. skip \in TokenOf(Int) /\ marker \in TokenOf(Int)
    BY <1>10, <2>1, LabelToken
  <2>3. skip.t = "skip" /\ marker.t = "prologue"
    BY <1>10 DEF Tok
  <2>. QED BY <2>1, <2>2, <2>3 DEF LabelOf
<1>12. After(c, c1) /\ Standing(c1, w, "level", "fun")
  <2>1. PICK g \in {"fun", "main"} : g = "fun"
    OBVIOUS
  <2>2. In(c.block) = "main"
    BY <1>8 DEF In, FunBlocks
  <2>3. Standing(c, w, "level", In(c.block)) /\ LabelOf(skip) = In(c.block) /\ skip \in w.pending
    BY <1>8, <1>9, <1>10, <1>11, <2>2
  <2>4. c1 = EmitJump(c, "UJUMP", skip)
    BY <1>2, <1>10
  <2>5. After(c, c1) /\ Standing(c1, w, "level", g)
    BY <1>8, <1>11, <2>3, <2>4, JumpStands
  <2>. QED BY <2>1, <2>5
<1>13. c1.code[1].op = "UJUMP" /\ Len(c1.code) = 1
  <2>1. PICK i : i = [op |-> "UJUMP", dest |-> <<>>, src0 |-> <<Tok("skip", 0)>>, src1 |-> <<>>,
                      block |-> c.block, item |-> c.item]
    OBVIOUS
  <2>2. c1.code = Append(c.code, i)
    BY <1>1, <1>2, <2>1 DEF EmitJump, Emit, NoCode
  <2>3. c1.code = <<i>>
    BY <1>8, <2>2
  <2>. QED BY <2>1, <2>3
<1>14. c1 \in CC
  BY <1>12 DEF After
<1>15. c2 \in CC /\ c2.block = "fun" /\ c2.code = c1.code /\ Standing(c2, w, "level", "fun")
  <2>1. c2 = [pool |-> c1.pool, usage |-> c1.usage, names |-> c1.names, code |-> c1.code,
              saved |-> c1.saved, block |-> "fun", item |-> c1.item]
    BY <1>3, <1>14, Unfolded
  <2>2. "fun" \in Blocks
    BY DEF Blocks
  <2>3. c2 \in CC
    BY <1>14, <2>1, <2>2, Fields DEF CC
  <2>4. /\ c2.code = c1.code /\ c2.pool = c1.pool /\ c2.usage = c1.usage /\ c2.names = c1.names
        /\ c2.block = "fun"
    BY <2>1
  <2>5. Standing(c2, w, "level", "fun")
    BY <1>12, <2>4, MovedOn
  <2>. QED BY <2>3, <2>4, <2>5
<1>16. After(c2, c3)
  BY <1>4, <1>10, <1>11, <1>15, LabelAfter
<1>17. c3 \in CC /\ c3.block = "fun"
  BY <1>15, <1>16 DEF After
<1>18. Standing(c3, w, "level", "fun")
  <2>0. Len(c2.code) = 1
    BY <1>13, <1>15
  <2>1. marker.t = "prologue" => w.marker = Len(c2.code) + 1
    BY <1>9, <2>0
  <2>2. Standing(c2, w, "level", LabelOf(marker)) /\ c3 = EmitLabel(c2, marker)
    BY <1>4, <1>10, <1>11, <1>15
  <2>3. Standing(c3, w, "level", LabelOf(marker))
    BY <1>11, <1>15, <2>1, <2>2, LabelStands
  <2>. QED BY <1>11, <2>3
<1>19. PICK p : p = src.params
  OBVIOUS
<1>20. /\ Len(p) \in Nat /\ DOMAIN p = 1 .. Len(p) /\ Elements(p) = {p[i] : i \in 1 .. Len(p)}
       /\ \A i \in 1 .. Len(p) : p[i] \in AllNames /\ src.types[p[i]] \in Types
  BY <1>19, Listed
<1>21. After(c3, c4) /\ Elements(p) \subseteq DOMAIN c4.names
  <2>1. After(c3, c4) /\ {p[i] : i \in 1 .. Len(p)} \subseteq DOMAIN c4.names
    BY <1>5, <1>17, <1>19, <1>20, NewNamesAfter
  <2>. QED BY <1>20, <2>1
<1>22. Standing(c4, w, "level", "fun")
  <2>1. c4 = NewNames(c3, p)
    BY <1>5, <1>19
  <2>. QED BY <1>17, <1>18, <1>20, <2>1, NamesStand
<1>23. c4 \in CC /\ c4.block = "fun"
  BY <1>17, <1>21 DEF After
<1>24. \A i \in 1 .. Len(p) : p[i] \in DOMAIN c4.names
  BY <1>20, <1>21
<1>25. In("fun") = "fun"
  BY DEF In, FunBlocks
<1>26. Standing(c5, w, "level", "fun") /\ After(c4, c5)
  <2>1. c5 = LoadArgsAll(c4, p) /\ Standing(c4, w, "level", In(c4.block))
    BY <1>6, <1>19, <1>22, <1>23, <1>25
  <2>2. Standing(c5, w, "level", In(c4.block))
    BY <1>20, <1>23, <1>24, <2>1, ArgsStand
  <2>3. After(c4, c5)
    BY <1>20, <1>23, <1>24, <2>1, LoadArgsFold
  <2>. QED BY <1>23, <1>25, <2>2, <2>3
<1>27. c5 \in CC
  BY <1>26 DEF After
<1>28. PICK l : l = src.locals
  OBVIOUS
<1>29. /\ Len(l) \in Nat /\ DOMAIN l = 1 .. Len(l)
       /\ \A i \in 1 .. Len(l) : l[i] \in AllNames /\ src.types[l[i]] \in Types
  BY <1>28, Listed
<1>30. d = NewNames(c5, l)
  BY <1>7, <1>28
<1>31. Standing(d, w, "level", "fun")
  BY <1>26, <1>27, <1>29, <1>30, NamesStand
<1>32. After(c5, d)
  BY <1>27, <1>29, <1>30, NewNamesAfter
<1>33. After(c3, c4) /\ After(c4, c5) /\ After(c2, c3)
  BY <1>16, <1>21, <1>26
<1>34. After(c2, c4)
  BY <1>15, <1>33, Transitive
<1>35. After(c2, c5)
  BY <1>15, <1>33, <1>34, Transitive
<1>36. After(c2, d)
  BY <1>15, <1>32, <1>35, Transitive
<1>37. d.code[1] = c1.code[1] /\ Len(d.code) >= 1
  BY <1>13, <1>15, <1>36 DEF After
<1>38. Len(d.code) \in Nat
  BY <1>32, Fields DEF After
<1>. QED BY <1>0, <1>13, <1>31, <1>37, <1>38

\* The registers a prologue saves, of which only the first can be one of the convention.
Saves(q, used) ==
  /\ Registers(q) /\ q \in Seq(Seq(TokenOf(Int))) /\ (Kept(q) <=> used)
  /\ \A n \in 1 .. Len(q) : /\ q[n] # <<>> /\ q[n][1] \in Symbols
                            /\ IF used /\ n = 1 THEN q[n][1] = LR ELSE Ordinary(q[n][1])

\* A walk comes to registers in use, and to register 0 if it is.
LEMMA WalkedInUse ==
  ASSUME NEW t \in Tables, NEW r \in Walked(t)
  PROVE  r \in Regs /\ t[r] > 0
<1>1. r \in Regs /\ \E p : NextAllocated(t, p) = r
  BY DEF Walked
<1>2. PICK p : NextAllocated(t, p) = r
  BY <1>1
<1>3. PICK later : later = {k \in Regs : k > p /\ t[k] > 0}
  OBVIOUS
<1>4. r = IF later = {} THEN NOREG ELSE CHOOSE k \in later : \A s \in later : k <= s
  BY <1>2, <1>3 DEF NextAllocated
<1>5. later \subseteq Nat
  BY <1>3, SizeAssumption DEF Regs
<1>6. r # NOREG
  BY <1>1, SizeAssumption DEF Regs, NOREG
<1>7. later # {}
  BY <1>4, <1>6
<1>8. \E k \in later : \A s \in later : k <= s
  BY <1>5, <1>7, Smallest
<1>9. r \in later
  BY <1>4, <1>7, <1>8
<1>. QED BY <1>3, <1>9

\* If LR is in use, the walk over the table meets it.
LEMMA ZeroWalked ==
  ASSUME NEW t \in Tables, t[0] > 0
  PROVE  0 \in Walked(t)
<1>1. 0 \in Regs /\ Regs \subseteq Nat
  BY SizeAssumption DEF Regs
<1>2. PICK later : later = {k \in Regs : k > NOREG /\ t[k] > 0}
  OBVIOUS
<1>3. 0 \in later /\ later \subseteq Nat
  <2>1. 0 > NOREG
    BY DEF NOREG
  <2>2. later \subseteq Regs
    BY <1>2
  <2>. QED BY <1>1, <1>2, <2>1, <2>2
<1>4. NextAllocated(t, NOREG) = CHOOSE k \in later : \A s \in later : k <= s
  BY <1>2, <1>3 DEF NextAllocated
<1>5. \E k \in later : \A s \in later : k <= s
  BY <1>3
<1>6. PICK r : r = CHOOSE k \in later : \A s \in later : k <= s
  OBVIOUS
<1>7. r \in later /\ \A s \in later : r <= s
  BY <1>5, <1>6
<1>8. NextAllocated(t, NOREG) = 0
  <2>1. r <= 0 /\ 0 <= r
    BY <1>3, <1>7
  <2>. QED BY <1>3, <1>4, <1>6, <1>7, <2>1
<1>. QED BY <1>1, <1>8 DEF Walked

\* Lists of the registers of the convention that are not LR are empty.
Others == {<<x>> : x \in {y \in Symbols : Ordinary(y)}}

\* And meets it first: the other registers are none of LR, FP and SP.
LEMMA TouchedOthers ==
  ASSUME NEW c \in CC, Guarded(c)
  PROVE  /\ Touched(c, "R") \in Seq(Others)
         /\ \E rest \in Seq(Others) :
              Touched(c, "I") = IF c.usage["I"][0] > 0 THEN <<<<LR>>>> \o rest ELSE rest
<1>. DEFINE seqs(type) == [r \in 1 .. NREGS |-> IF r - 1 \in Walked(c.usage[type])
                                                THEN <<<<Tok(type, r - 1)>>>> ELSE <<>>]
<1>1. NREGS \in Nat \ {0}
  BY SizeAssumption
<1>2. ASSUME NEW type \in {"I", "R"}, NEW r \in 1 .. NREGS, type = "R" \/ r > 1
      PROVE  seqs(type)[r] \in Seq(Others)
  <2>1. r - 1 \in Int /\ c.usage[type] \in Tables
    BY <1>1, Fields
  <2>2. PICK x : x = Tok(type, r - 1)
    OBVIOUS
  <2>3. x \in Symbols /\ x.t = type /\ x.v = r - 1
    BY <2>1, <2>2 DEF Tok, Symbols
  <2>4. CASE r - 1 \in Walked(c.usage[type])
    <3>1. Ordinary(x)
      <4>1. CASE type = "R"
        BY <2>3, <4>1 DEF Ordinary
      <4>2. CASE type = "I" /\ r > 1
        <5>1. r - 1 \in Regs /\ c.usage["I"][r - 1] > 0
          BY <2>1, <2>4, <4>2, WalkedInUse
        <5>2. r - 1 \notin {1, 2}
          BY <5>1 DEF Guarded
        <5>3. r - 1 # 0
          BY <1>1, <4>2
        <5>. QED BY <2>3, <5>2, <5>3 DEF Ordinary
      <4>. QED BY <1>2, <4>1, <4>2
    <3>2. PICK y \in Others : y = <<x>>
      BY <2>3, <3>1 DEF Others
    <3>3. seqs(type)[r] = <<y>>
      BY <2>2, <2>4, <3>2
    <3>. QED BY <3>3
  <2>5. CASE r - 1 \notin Walked(c.usage[type])
    BY <2>5
  <2>. QED BY <2>4, <2>5
<1>3. Touched(c, "R") = FlattenSeq(seqs("R")) /\ Touched(c, "I") = FlattenSeq(seqs("I"))
  BY DEF Touched
<1>4. /\ Len(seqs("R")) = NREGS /\ Len(seqs("I")) = NREGS
      /\ seqs("I")[1] = IF 0 \in Walked(c.usage["I"]) THEN <<<<Tok("I", 0)>>>> ELSE <<>>
  BY <1>1
<1>5. \A r \in 1 .. NREGS : seqs("R")[r] \in Seq(Others)
  BY <1>2
<1>6. \A r \in 2 .. NREGS : seqs("I")[r] \in Seq(Others)
  BY <1>1, <1>2
<1>. PICK real, int : real = seqs("R") /\ int = seqs("I")
  OBVIOUS
<1>. HIDE DEF seqs
<1>7. Parts(Others, real, NREGS)
  BY <1>1, <1>4, <1>5 DEF Parts
<1>8. Touched(c, "R") \in Seq(Others)
  BY <1>1, <1>3, <1>7, FlattenType
<1>. DEFINE tail == [r \in 1 .. NREGS - 1 |-> int[r + 1]]
<1>9. /\ NREGS - 1 \in Nat /\ Len(tail) = NREGS - 1 /\ (NREGS = 1 => tail = <<>>)
      /\ \A r \in 1 .. NREGS - 1 : tail[r] = int[r + 1]
  BY <1>1
<1>10. \A r \in 1 .. NREGS - 1 : tail[r] \in Seq(Others)
  BY <1>1, <1>6
<1>11. PICK t : t = tail
  OBVIOUS
<1>. HIDE DEF tail
<1>12. PICK rest : rest = FlattenSeq(t)
  OBVIOUS
<1>13. rest \in Seq(Others)
  <2>1. PICK n \in Nat : n = NREGS - 1
    BY <1>9
  <2>2. Parts(Others, t, n)
    BY <1>1, <1>9, <1>10, <1>11, <2>1 DEF Parts
  <2>. QED BY <1>12, <2>2, FlattenType
<1>14. PICK S : S = {<<x>> : x \in Symbols}
  OBVIOUS
<1>15. Others \subseteq S
  BY <1>14 DEF Others
<1>16. Parts(S, int, NREGS)
  <2>1. \A r \in 2 .. NREGS : int[r] \in Seq(S)
    BY <1>6, <1>15, SeqMonotonic
  <2>2. PICK z \in Symbols : z = Tok("I", 0)
    <3>1. LR \in Symbols /\ LR = Tok("I", 0)
      BY DEF LR, Tok, Symbols
    <3>. QED BY <3>1
  <2>3. PICK y \in S : y = <<Tok("I", 0)>>
    BY <1>14, <2>2
  <2>4. <<y>> \in Seq(S) /\ <<>> \in Seq(S)
    OBVIOUS
  <2>5. int[1] \in Seq(S)
    BY <1>4, <2>3, <2>4
  <2>6. \A r \in 1 .. NREGS : r = 1 \/ r \in 2 .. NREGS
    BY <1>1
  <2>. QED BY <1>1, <1>4, <2>1, <2>5, <2>6 DEF Parts
<1>17. FlattenSeq(int) = int[1] \o rest
  <2>1. PICK N \in Nat \ {0} : N = NREGS
    BY <1>1
  <2>2. /\ Parts(S, int, N) /\ Len(t) = N - 1 /\ (N = 1 => t = <<>>)
        /\ \A i \in 1 .. N - 1 : t[i] = int[i + 1]
    BY <1>9, <1>11, <1>16, <2>1
  <2>. QED BY <1>12, <2>2, FlattenFirst
<1>18. c.usage["I"] \in Tables
  BY Fields
<1>19. 0 \in Walked(c.usage["I"]) <=> c.usage["I"][0] > 0
  BY <1>18, WalkedInUse, ZeroWalked
<1>20. Tok("I", 0) = LR /\ <<>> \o rest = rest
  BY <1>13, ConcatProperties DEF LR
<1>21. Touched(c, "I") = IF c.usage["I"][0] > 0 THEN <<<<LR>>>> \o rest ELSE rest
  BY <1>3, <1>4, <1>17, <1>19, <1>20
<1>. QED BY <1>8, <1>13, <1>21

\* What is saved: LR, if it is used, and registers of variables and temporaries.
LEMMA SavedSaves ==
  ASSUME NEW c \in CC, Guarded(c), NEW q, q = Saved(c)
  PROVE  Saves(q, c.usage["I"][0] > 0)
<1>1. PICK rest \in Seq(Others) :
        Touched(c, "I") = IF c.usage["I"][0] > 0 THEN <<<<LR>>>> \o rest ELSE rest
  BY TouchedOthers
<1>2. PICK r \in Seq(Others) : r = rest \o Touched(c, "R")
  BY TouchedOthers, ConcatProperties
<1>3. PICK used \in BOOLEAN : used <=> c.usage["I"][0] > 0
  OBVIOUS
<1>4. PICK S : S = Others \cup {<<LR>>}
  OBVIOUS
<1>5. PICK head \in Seq(S) : head = <<<<LR>>>>
  <2>1. PICK y \in S : y = <<LR>>
    BY <1>4
  <2>2. <<y>> \in Seq(S)
    OBVIOUS
  <2>. QED BY <2>1, <2>2
<1>6. rest \in Seq(S) /\ Touched(c, "R") \in Seq(S) /\ r \in Seq(S)
  BY <1>2, <1>4, TouchedOthers, SeqMonotonic
<1>7. q = IF used THEN head \o r ELSE r
  <2>1. (head \o rest) \o Touched(c, "R") = head \o (rest \o Touched(c, "R"))
    <3>1. Associates(head, rest, Touched(c, "R"))
      BY <1>6, Associative
    <3>. QED BY <3>1 DEF Associates
  <2>. QED BY <1>1, <1>2, <1>3, <1>5, <2>1 DEF Saved
<1>8. Registers(q) /\ q \in Seq(Seq(TokenOf(Int)))
  BY SavedType
<1>9. \A y \in Others : y # <<>> /\ y[1] \in Symbols /\ Ordinary(y[1])
  BY DEF Others
<1>10. Len(r) \in Nat /\ \A n \in 1 .. Len(r) : r[n] \in Others
  BY LenProperties, ElementOfSeq
<1>11. LR \in Symbols /\ LR.t = "I" /\ LR.v = 0
  BY DEF LR, Tok, Symbols
<1>12. ~Ordinary(LR)
  BY <1>11 DEF Ordinary
<1>13. CASE used
  <2>1. /\ Len(head) = 1 /\ head[1] = <<LR>> /\ Len(q) = 1 + Len(r)
        /\ q[1] = <<LR>> /\ \A n \in 1 .. Len(r) : q[1 + n] = r[n]
    <3>1. Len(head) = 1 /\ head[1] = <<LR>>
      BY <1>5
    <3>2. /\ Len(head \o r) = Len(head) + Len(r)
          /\ \A n \in 1 .. Len(head) + Len(r) :
               (head \o r)[n] = IF n <= Len(head) THEN head[n] ELSE r[n - Len(head)]
      BY <1>6, ConcatProperties
    <3>3. \A n \in 1 .. Len(r) : 1 + n \in 1 .. Len(head) + Len(r) /\ ~(1 + n <= 1) /\ (1 + n) - 1 = n
      BY <1>10, <3>1
    <3>4. 1 \in 1 .. Len(head) + Len(r)
      BY <1>10, <3>1
    <3>. QED BY <1>7, <1>13, <3>1, <3>2, <3>3, <3>4
  <2>2. Kept(q)
    BY <1>10, <2>1 DEF Kept
  <2>3. ASSUME NEW n \in 1 .. Len(q)
        PROVE  /\ q[n] # <<>> /\ q[n][1] \in Symbols
               /\ IF used /\ n = 1 THEN q[n][1] = LR ELSE Ordinary(q[n][1])
    <3>1. CASE n = 1
      BY <1>11, <1>13, <2>1, <3>1
    <3>2. CASE n # 1
      <4>1. PICK k \in 1 .. Len(r) : n = 1 + k
        <5>1. n - 1 \in 1 .. Len(r) /\ n = 1 + (n - 1)
          BY <1>10, <2>1, <3>2
        <5>. QED BY <5>1
      <4>2. q[n] \in Others
        BY <1>10, <2>1, <4>1
      <4>. QED BY <1>9, <3>2, <4>2
    <3>. QED BY <3>1, <3>2
  <2>. QED BY <1>3, <1>8, <1>13, <2>2, <2>3 DEF Saves
<1>14. CASE ~used
  <2>1. q = r
    BY <1>7, <1>14
  <2>2. \A n \in 1 .. Len(q) : q[n] # <<>> /\ q[n][1] \in Symbols /\ Ordinary(q[n][1])
    BY <1>9, <1>10, <2>1
  <2>3. ~Kept(q)
    <3>1. SUFFICES ASSUME q # <<>>, q[1] = <<LR>> PROVE FALSE
      BY DEF Kept
    <3>2. 1 \in 1 .. Len(q)
      BY <1>10, <2>1, <3>1, EmptySeq
    <3>3. q[1][1] = LR
      BY <3>1
    <3>. QED BY <1>12, <2>2, <3>2, <3>3
  <2>. QED BY <1>3, <1>8, <1>14, <2>2, <2>3 DEF Saves
<1>. QED BY <1>13, <1>14

\* A prologue is code of its own, that begins where a call leads to.
Separate(q) ==
  [saved |-> q, start |-> <<<<"bare", "fun">>>>, pending |-> {}, marker |-> 0,
   done |-> TRUE, linked |-> FALSE]

\* The code of a prologue, emitted apart, starts in front of the saved registers.
LEMMA SeparateStands ==
  ASSUME NEW c \in CC, Guarded(c), c.code = <<>>, c.block = "prologue", NEW q
  PROVE  Standing(c, Separate(q), "bare", "fun")
<1>1. PICK w : w = Separate(q)
  OBVIOUS
<1>3. w.saved = q /\ w.start = <<<<"bare", "fun">>>> /\ ~w.linked
  BY <1>1 DEF Separate
<1>4. "bare" \in Stages /\ "bare" \notin InCall
  BY DEF Stages, InCall
<1>5. w.start \in Seq(Stages \X {"fun", "main"})
  BY <1>3, <1>4
<1>7. Len(c.code) = 0
  OBVIOUS
<1>8. LinkNoted(c, w) /\ Bound(c, w.pending) /\ MarkedAt(c, w.marker)
  BY <1>7 DEF LinkNoted, Bound, MarkedAt
<1>9. Here(c, "bare")
  BY <1>4 DEF Here
<1>10. PICK at, in : at = [n \in 1 .. 1 |-> "bare"] /\ in = [n \in 1 .. 1 |-> "fun"]
  OBVIOUS
<1>11. at[1] = "bare" /\ in[1] = "fun"
  BY <1>10
<1>12. Marks(c.code, at, in)
  BY <1>4, <1>7, <1>10 DEF Marks
<1>13. Staged(w, c.code, at, in)
  <2>1. \A n \in 1 .. Len(c.code) : Ruled(w, c.code, at, in, n)
    BY <1>7
  <2>2. DOMAIN w.start = {1} /\ w.start[1] = <<"bare", "fun">>
    BY <1>3
  <2>3. \A n \in DOMAIN w.start : n <= Len(c.code) + 1 /\ <<at[n], in[n]>> = w.start[n]
    BY <1>7, <1>11, <2>2
  <2>. QED BY <1>12, <2>1, <2>3 DEF Staged
<1>14. Standing(c, w, "bare", "fun")
  <2>1. at[Len(c.code) + 1] = "bare" /\ in[Len(c.code) + 1] = "fun"
    BY <1>7, <1>11
  <2>2. \E at1, in1 : /\ Staged(w, c.code, at1, in1)
                      /\ at1[Len(c.code) + 1] = "bare" /\ in1[Len(c.code) + 1] = "fun"
    BY <1>13, <2>1
  <2>. QED BY <1>3, <1>5, <1>8, <1>9, <2>2 DEF Standing
<1>. QED BY <1>1, <1>14

\* Where a prologue stands when i registers are saved.
AfterSaving(q, i) == IF i = 0 \/ ~Kept(q) THEN "bare" ELSE "saved"
Ending == {"prologue", "leave"}

\* One more register.
LEMMA SavingStands ==
  ASSUME NEW c \in CC, c.block \in Ending, NEW q, NEW used, Saves(q, used),
         NEW i \in 1 .. Len(q), NEW w, w.saved = q, Standing(c, w, AfterSaving(q, i - 1), "fun"),
         NEW d, d = Pushed(c, q[i][1], i)
  PROVE  Standing(d, w, AfterSaving(q, i), "fun")
<1>1. PICK x \in Symbols : x = q[i][1]
  BY DEF Saves
<1>2. Len(q) \in Nat
  BY DEF Saves, Registers, Queue
<1>3. i - 1 \in Nat /\ i - 1 \in Int /\ (i # 1 => i - 1 # 0) /\ i # 0
  BY <1>2
<1>4. In(c.block) = "fun"
  BY DEF In, FunBlocks, Ending
<1>5. LR.t = "I" /\ LR.v = 0 /\ FP.t = "I" /\ FP.v = 1
  BY DEF LR, FP, Tok
<1>6. IF used /\ i = 1 THEN x = LR ELSE Ordinary(x)
  BY <1>1 DEF Saves
<1>7. x # FP
  BY <1>5, <1>6 DEF Ordinary
<1>8. PICK k \in Int : k = i - 1
  BY <1>3
<1>9. d = Stor(c, x, SP, k)
  BY <1>1, <1>7, <1>8, OperandPushed
<1>10. x \in Data /\ ~IsConst(x) /\ (x.t = "I" \/ x.t = "R")
  BY DEF Data, Symbols, IsConst
<1>11. CASE used /\ i = 1
  <2>1. x = LR /\ k = 0 /\ Kept(q)
    BY <1>6, <1>8, <1>11 DEF Saves
  <2>2. IsInt(x)
    BY <1>5, <2>1 DEF IsInt
  <2>3. d = Emit3(c, "STORI", x, SP, Const(k))
    BY <1>9, <1>10, <2>2 DEF Stor
  <2>4. AfterSaving(q, i - 1) = "bare" /\ AfterSaving(q, i) = "saved"
    BY <1>11, <2>1 DEF AfterSaving
  <2>5. PICK a, b, f : a = "bare" /\ b = "saved" /\ f = In(c.block)
    OBVIOUS
  <2>6. \A j : OnSP(j, "STORI", x, k) => Passes(w.saved, a, f, j, b)
    BY <1>4, <2>1, <2>5 DEF Passes
  <2>7. b \in Stages /\ x.t = "I" /\ Standing(c, w, a, In(c.block))
    BY <1>4, <1>5, <2>1, <2>4, <2>5 DEF Stages
  <2>8. Standing(d, w, b, In(c.block))
    <3>1. PICK op \in {"STORI", "ADD2I", "SUBTI", "LOADI"} : op = "STORI"
      OBVIOUS
    <3>2. d = Emit3(c, op, x, SP, Const(k)) /\ \A j : OnSP(j, op, x, k) => Passes(w.saved, a, In(c.block), j, b)
      BY <2>3, <2>5, <2>6, <3>1
    <3>3. b \in AtEnds => c.block \in {"prologue", "leave"}
      BY DEF Ending
    <3>. QED BY <2>7, <3>2, <3>3, OnSPStands
  <2>. QED BY <1>4, <2>4, <2>5, <2>8
<1>12. CASE ~(used /\ i = 1)
  <2>1. PICK a : a = AfterSaving(q, i)
    OBVIOUS
  <2>2. AfterSaving(q, i - 1) = a
    BY <1>3, <1>12, <2>1 DEF AfterSaving, Saves
  <2>3. Stores(w.saved, a, In(c.block), SP, k)
    <3>1. CASE Kept(q)
      <4>1. i # 1 /\ a = "saved"
        BY <1>3, <1>12, <2>1, <3>1 DEF AfterSaving, Saves
      <4>2. k \in Nat \ {0}
        BY <1>3, <1>8, <4>1
      <4>. QED BY <1>4, <4>1, <4>2 DEF Stores
    <3>2. CASE ~Kept(q)
      <4>1. a = "bare" /\ k \in Nat
        BY <1>3, <1>8, <2>1, <3>2 DEF AfterSaving
      <4>. QED BY <1>4, <3>2, <4>1 DEF Stores
    <3>. QED BY <3>1, <3>2
  <2>4. PICK base \in {FP, SP} : base = SP
    OBVIOUS
  <2>5. Standing(c, w, a, In(c.block)) /\ Stores(w.saved, a, In(c.block), base, k) /\ d = Stor(c, x, base, k)
    BY <1>4, <1>9, <2>2, <2>3, <2>4
  <2>6. Standing(d, w, a, In(c.block))
    BY <1>10, <2>5, StorStands
  <2>. QED BY <1>4, <2>1, <2>6
<1>. QED BY <1>11, <1>12

\* The prologue.
LEMMA PrologueStands ==
  ASSUME NEW c \in CC, c.block \in Ending, NEW q, NEW used, Saves(q, used),
         NEW w, w.saved = q, Standing(c, w, "bare", "fun"), NEW d, d = Push(c, q)
  PROVE  After(c, d) /\ Standing(d, w, "level", "fun")
<1>1. Queue(q) /\ Len(q) \in Nat
  BY DEF Saves, Registers, Queue
<1>2. PICK e : e = PushedAll(c, q)
  OBVIOUS
<1>3. PICK t \in [0 .. Len(q) -> Same(c)] : PushSteps(t, c, e, q)
  BY <1>1, <1>2, PushTurns
<1>4. PICK B : B = {i \in 0 .. Len(q) : Standing(t[i], w, AfterSaving(q, i), "fun")}
  OBVIOUS
<1>5. 0 \in B
  BY <1>1, <1>3, <1>4 DEF PushSteps, AfterSaving
<1>6. ASSUME NEW i \in 1 .. Len(q), i - 1 \in B PROVE i \in B
  <2>1. PICK g, h : g = t[i - 1] /\ h = t[i]
    OBVIOUS
  <2>2. i - 1 \in 0 .. Len(q) /\ i \in 0 .. Len(q)
    BY <1>1
  <2>3. g \in CC /\ g.block = c.block
    BY <1>3, <2>1, <2>2 DEF Same, After
  <2>4. h = Pushed(g, q[i][1], i)
    <3>1. q[i] # <<>>
      BY DEF Saves
    <3>. QED BY <1>3, <2>1, <3>1 DEF PushSteps
  <2>5. Standing(g, w, AfterSaving(q, i - 1), "fun")
    BY <1>4, <1>6, <2>1
  <2>6. Standing(h, w, AfterSaving(q, i), "fun")
    BY <2>3, <2>4, <2>5, SavingStands
  <2>. QED BY <1>4, <2>1, <2>2, <2>6
<1>7. \A i \in 0 .. Len(q) : i \in B
  BY <1>1, <1>5, <1>6, Counted
<1>8. Standing(e, w, AfterSaving(q, Len(q)), "fun")
  <2>1. Len(q) \in 0 .. Len(q) /\ t[Len(q)] = e
    BY <1>1, <1>3 DEF PushSteps
  <2>. QED BY <1>4, <1>7, <2>1
<1>9. AfterSaving(q, Len(q)) = Ends(q)
  <2>1. Kept(q) => Len(q) # 0
    BY <1>1 DEF Kept, Queue
  <2>. QED BY <2>1 DEF AfterSaving, Ends
<1>10. e \in CC /\ e.block = c.block
  <2>1. After(c, e)
    BY <1>1, <1>2, PushFold
  <2>. QED BY <2>1 DEF After
<1>11. In(e.block) = "fun"
  BY <1>10 DEF In, FunBlocks, Ending
<1>12. d = Emit3(e, "ADD2I", SP, SP, Const(Len(q)))
  BY <1>2, PushFolds
<1>13. PICK a, b, k, f : a = Ends(q) /\ b = "level" /\ k = Len(q) /\ f = In(e.block)
  OBVIOUS
<1>14. \A i : OnSP(i, "ADD2I", SP, k) => Passes(w.saved, a, f, i, b)
  BY <1>11, <1>13 DEF Passes
<1>15. b \in Stages /\ b \notin AtEnds /\ k \in Int /\ SP \in Symbols /\ SP.t = "I"
  BY <1>1, <1>13, Fixed DEF Stages, AtEnds
<1>16. PICK op \in {"STORI", "ADD2I", "SUBTI", "LOADI"} : op = "ADD2I"
  OBVIOUS
<1>17. /\ Standing(e, w, a, In(e.block)) /\ d = Emit3(e, op, SP, SP, Const(k))
       /\ \A i : OnSP(i, op, SP, k) => Passes(w.saved, a, In(e.block), i, b)
  BY <1>8, <1>9, <1>11, <1>12, <1>13, <1>14, <1>16
<1>18. Standing(d, w, b, In(e.block))
  BY <1>10, <1>15, <1>17, OnSPStands
<1>19. After(c, d)
  BY <1>1, PushAfter
<1>. QED BY <1>11, <1>13, <1>18, <1>19

\* Where an epilogue stands when i registers are restored,
AfterLoading(q, i) == IF i = 0 THEN Ends(q) ELSE "bare"

\* and one more.
LEMMA LoadingStands ==
  ASSUME NEW c \in CC, c.block \in Ending, NEW q, NEW used, Saves(q, used),
         NEW i \in 1 .. Len(q), NEW w, w.saved = q, Standing(c, w, AfterLoading(q, i - 1), "fun"),
         NEW d, d = Load(c, q[i][1], SP, i - 1)
  PROVE  Standing(d, w, AfterLoading(q, i), "fun")
<1>1. PICK x \in Symbols : x = q[i][1]
  BY DEF Saves
<1>2. Len(q) \in Nat
  BY DEF Saves, Registers, Queue
<1>3. i - 1 \in Nat /\ i - 1 \in Int /\ (i # 1 => i - 1 # 0) /\ i # 0
  BY <1>2
<1>4. In(c.block) = "fun"
  BY DEF In, FunBlocks, Ending
<1>5. LR.t = "I"
  BY DEF LR, Tok
<1>6. IF used /\ i = 1 THEN x = LR ELSE Ordinary(x)
  BY <1>1 DEF Saves
<1>7. PICK k \in Int : k = i - 1
  BY <1>3
<1>8. AfterLoading(q, i) = "bare"
  BY <1>3 DEF AfterLoading
<1>9. CASE used /\ i = 1
  <2>1. x = LR /\ k = 0 /\ Kept(q) /\ x.t = "I"
    BY <1>5, <1>6, <1>7, <1>9 DEF Saves
  <2>2. d = Emit3(c, "LOADI", x, SP, Const(k))
    BY <1>1, <1>7, <2>1 DEF Load, IsInt
  <2>3. AfterLoading(q, i - 1) = "saved"
    BY <1>9, <2>1 DEF AfterLoading, Ends
  <2>4. PICK a, b, f : a = "saved" /\ b = "bare" /\ f = In(c.block)
    OBVIOUS
  <2>5. \A j : OnSP(j, "LOADI", x, k) => Passes(w.saved, a, f, j, b)
    BY <1>4, <2>1, <2>4 DEF Passes
  <2>6. b \in Stages /\ Standing(c, w, a, In(c.block))
    BY <1>4, <2>3, <2>4 DEF Stages
  <2>7. PICK op \in {"STORI", "ADD2I", "SUBTI", "LOADI"} : op = "LOADI"
    OBVIOUS
  <2>8. /\ d = Emit3(c, op, x, SP, Const(k))
        /\ \A j : OnSP(j, op, x, k) => Passes(w.saved, a, In(c.block), j, b)
    BY <2>2, <2>4, <2>5, <2>7
  <2>9. Standing(d, w, b, In(c.block))
    <3>1. x.t = "I" /\ (b \in AtEnds => c.block \in {"prologue", "leave"})
      BY <2>1 DEF Ending
    <3>. QED BY <2>6, <2>8, <3>1, OnSPStands
  <2>. QED BY <1>4, <1>8, <2>4, <2>9
<1>10. CASE ~(used /\ i = 1)
  <2>1. PICK a \in {"level", "moved", "bare"} : a = "bare"
    OBVIOUS
  <2>2. AfterLoading(q, i - 1) = a
    BY <1>3, <1>10, <2>1 DEF AfterLoading, Ends, Saves
  <2>3. PICK base \in {FP, SP} : base = SP
    OBVIOUS
  <2>4. Ordinary(x) /\ Standing(c, w, a, In(c.block)) /\ d = Load(c, x, base, k)
    BY <1>1, <1>4, <1>6, <1>7, <1>10, <2>2, <2>3
  <2>5. Standing(d, w, a, In(c.block))
    BY <2>4, LoadStands
  <2>. QED BY <1>4, <1>8, <2>1, <2>5
<1>. QED BY <1>9, <1>10

\* The epilogue.
LEMMA EpilogueStands ==
  ASSUME NEW c \in CC, c.block \in Ending, NEW q, NEW used, Saves(q, used),
         NEW w, w.saved = q, Standing(c, w, "level", "fun"), Len(c.code) > 0,
         c.code[Len(c.code)].block = "leave", NEW d, d = Pop(c, q)
  PROVE  After(c, d) /\ Standing(d, w, "bare", "fun")
<1>1. Registers(q) /\ Len(q) \in Nat
  BY DEF Saves, Registers, Queue
<1>2. PICK e : e = Emit3(c, "SUBTI", SP, SP, Const(Len(q)))
  OBVIOUS
<1>3. In(c.block) = "fun"
  BY DEF In, FunBlocks, Ending
<1>4. PICK a, b, k, f : a = "level" /\ b = Ends(q) /\ k = Len(q) /\ f = In(c.block)
  OBVIOUS
<1>5. \A i : OnSP(i, "SUBTI", SP, k) => Passes(w.saved, a, f, i, b)
  BY <1>3, <1>4 DEF Passes
<1>6. b \in Stages /\ k \in Int /\ SP \in Symbols /\ SP.t = "I"
  BY <1>1, <1>4, Fixed DEF Stages, Ends
<1>7. PICK op \in {"STORI", "ADD2I", "SUBTI", "LOADI"} : op = "SUBTI"
  OBVIOUS
<1>8. /\ Standing(c, w, a, In(c.block)) /\ e = Emit3(c, op, SP, SP, Const(k))
      /\ \A i : OnSP(i, op, SP, k) => Passes(w.saved, a, In(c.block), i, b)
  BY <1>2, <1>3, <1>4, <1>5, <1>7
<1>9. After(c, e) /\ Standing(e, w, b, In(c.block))
  BY <1>6, <1>8, OnSPStands, ZenonT(60) DEF Ending
<1>10. e \in CC /\ e.block = c.block
  BY <1>9 DEF After
<1>11. d = PopAll(e, q)
  BY <1>2, PopFolds
<1>12. PICK t \in [0 .. Len(q) -> Same(e)] : PopSteps(t, e, d, q)
  BY <1>1, <1>10, <1>11, PopTurns
<1>13. PICK B : B = {i \in 0 .. Len(q) : Standing(t[i], w, AfterLoading(q, i), "fun")}
  OBVIOUS
<1>14. 0 \in B
  BY <1>1, <1>3, <1>4, <1>9, <1>12, <1>13 DEF PopSteps, AfterLoading
<1>15. ASSUME NEW i \in 1 .. Len(q), i - 1 \in B PROVE i \in B
  <2>1. PICK g, h : g = t[i - 1] /\ h = t[i]
    OBVIOUS
  <2>2. i - 1 \in 0 .. Len(q) /\ i \in 0 .. Len(q)
    BY <1>1
  <2>3. g \in CC /\ g.block = c.block
    BY <1>10, <1>12, <2>1, <2>2 DEF Same, After
  <2>4. h = Load(g, q[i][1], SP, i - 1)
    <3>1. q[i] # <<>>
      BY DEF Saves
    <3>. QED BY <1>12, <2>1, <3>1 DEF PopSteps
  <2>5. Standing(g, w, AfterLoading(q, i - 1), "fun")
    BY <1>13, <1>15, <2>1
  <2>6. Standing(h, w, AfterLoading(q, i), "fun")
    BY <2>3, <2>4, <2>5, LoadingStands
  <2>. QED BY <1>13, <2>1, <2>2, <2>6
<1>16. \A i \in 0 .. Len(q) : i \in B
  BY <1>1, <1>14, <1>15, Counted
<1>17. Standing(d, w, AfterLoading(q, Len(q)), "fun")
  <2>1. Len(q) \in 0 .. Len(q) /\ t[Len(q)] = d
    BY <1>1, <1>12 DEF PopSteps
  <2>. QED BY <1>13, <1>16, <2>1
<1>18. AfterLoading(q, Len(q)) = "bare"
  <2>1. Kept(q) => Len(q) # 0
    BY <1>1 DEF Kept, Queue, Registers
  <2>. QED BY <2>1 DEF AfterLoading, Ends
<1>19. After(c, d)
  BY <1>1, PopAfter
<1>. QED BY <1>17, <1>18, <1>19

\* The code k is that of code with the sequence p behind its first instruction.
Spliced(k, code, p) ==
  /\ Len(code) \in Nat \ {0} /\ Len(p) \in Nat /\ Len(k) = Len(code) + Len(p)
  /\ k[1] = code[1]
  /\ \A n \in 1 .. Len(p) : k[n + 1] = p[n]
  /\ \A n \in 2 .. Len(code) : k[n + Len(p)] = code[n]

\* What Splice() puts behind the first instruction is all there, in its order.
LEMMA SplicedCode ==
  ASSUME NEW S, NEW code \in Seq(S), Len(code) > 1, NEW p \in Seq(S),
         NEW k, k = SubSeq(code, 1, 2 - 1) \o p \o SubSeq(code, 2, Len(code))
  PROVE  Spliced(k, code, p) /\ k \in Seq(S)
<1>1. Len(code) \in Nat /\ Len(p) \in Nat /\ \A n \in 1 .. Len(code) : code[n] \in S
  BY LenProperties, ElementOfSeq
<1>2. PICK before : before = SubSeq(code, 1, 1)
  OBVIOUS
<1>3. PICK behind : behind = SubSeq(code, 2, Len(code))
  OBVIOUS
<1>4. before \in Seq(S) /\ Len(before) = 1 /\ before[1] = code[1]
  <2>1. \A i \in 1 .. 1 : code[i] \in S
    BY <1>1
  <2>. QED BY <1>1, <1>2, <2>1, SubSeqProperties
<1>5. /\ behind \in Seq(S) /\ Len(behind) = Len(code) - 1
      /\ \A n \in 1 .. Len(code) - 1 : behind[n] = code[n + 1]
  <2>1. \A i \in 2 .. Len(code) : code[i] \in S
    BY <1>1
  <2>2. behind \in Seq(S) /\ Len(behind) = Len(code) - 1
    BY <1>1, <1>3, <2>1, SubSeqProperties
  <2>3. \A n \in 1 .. Len(code) - 1 : behind[n] = code[n + 1]
    BY <1>1, <1>3
  <2>. QED BY <2>2, <2>3
<1>6. k = before \o p \o behind
  BY <1>2, <1>3
<1>7. /\ k \in Seq(S) /\ Len(k) = Len(before) + Len(p) + Len(behind)
      /\ \A n \in 1 .. Len(before) : k[n] = before[n]
      /\ \A n \in 1 .. Len(p) : k[Len(before) + n] = p[n]
      /\ \A n \in 1 .. Len(behind) : k[Len(before) + Len(p) + n] = behind[n]
  <2>1. before \in Seq(S) /\ behind \in Seq(S)
    BY <1>4, <1>5
  <2>2. /\ before \o p \o behind \in Seq(S)
        /\ Len(before \o p \o behind) = Len(before) + Len(p) + Len(behind)
        /\ \A n \in 1 .. Len(before) : (before \o p \o behind)[n] = before[n]
        /\ \A n \in 1 .. Len(p) : (before \o p \o behind)[Len(before) + n] = p[n]
        /\ \A n \in 1 .. Len(behind) :
             (before \o p \o behind)[Len(before) + Len(p) + n] = behind[n]
    BY <2>1, Behind
  <2>. QED BY <1>6, <2>2, Zenon
<1>8. Len(k) = Len(code) + Len(p) /\ k[1] = code[1]
  <2>1. 1 \in 1 .. Len(before)
    BY <1>4
  <2>2. k[1] = before[1]
    BY <1>7, <2>1
  <2>3. Len(k) = 1 + Len(p) + (Len(code) - 1)
    BY <1>4, <1>5, <1>7
  <2>4. \A a, b \in Nat : 1 + a + (b - 1) = b + a
    OBVIOUS
  <2>5. Len(code) \in Nat /\ Len(p) \in Nat
    BY <1>1
  <2>6. Len(k) = Len(code) + Len(p)
    BY <2>3, <2>4, <2>5
  <2>7. k[1] = code[1]
    BY <1>4, <2>2
  <2>. QED BY <2>6, <2>7
<1>9. ASSUME NEW n \in 1 .. Len(p) PROVE k[n + 1] = p[n]
  <2>1. Len(before) + n = n + 1
    BY <1>1, <1>4
  <2>2. k[Len(before) + n] = p[n]
    BY <1>7
  <2>. QED BY <2>1, <2>2
<1>10. ASSUME NEW n \in 2 .. Len(code) PROVE k[n + Len(p)] = code[n]
  <2>1. PICK j : j = n - 1
    OBVIOUS
  <2>2. j \in 1 .. Len(code) - 1 /\ j + 1 = n
    BY <1>1, <2>1
  <2>3. j \in 1 .. Len(behind) /\ Len(before) + Len(p) + j = n + Len(p)
    BY <1>1, <1>4, <1>5, <2>1, <2>2
  <2>4. k[Len(before) + Len(p) + j] = behind[j]
    BY <1>7, <2>3
  <2>5. behind[j] = code[j + 1]
    BY <1>5, <2>2
  <2>. QED BY <2>2, <2>3, <2>4, <2>5
<1>11. Len(code) \in Nat \ {0}
  BY <1>1
<1>. QED BY <1>1, <1>7, <1>8, <1>9, <1>10, <1>11 DEF Spliced

\* The marker is where the function begins.
LEMMA MarkerStage ==
  ASSUME NEW w, NEW code, NEW at, NEW in, NEW n, Ruled(w, code, at, in, n), IsMarker(code[n])
  PROVE  at[n] = "level" /\ in[n] = "fun"
<1>1. code[n].op = "LABEL" /\ code[n].src0[1].t = "prologue"
  BY DEF IsMarker
<1>2. LabelOf(code[n].src0[1]) = "fun"
  BY <1>1 DEF LabelOf
<1>3. "LABEL" \notin PlainOps
  BY DEF PlainOps, Opcodes, IntOps, RealTests, RealOps, Moves, Jumps
<1>4. ASSUME NEW q, NEW a, NEW f, NEW b PROVE ~Passes(q, a, f, code[n], b)
  BY <1>1, <1>3 DEF Passes, Plain, Store, OnSP
<1>5. ASSUME NEW a, NEW f PROVE ~Departs(a, f, code[n])
  BY <1>1 DEF Departs
<1>6. Stays(at[n], in[n], code[n])
  BY <1>4, <1>5 DEF Ruled, Step
<1>. QED BY <1>1, <1>2, <1>6 DEF Stays

\* The jump over the function leads out of the code in front of it.
LEMMA SkipDeparts ==
  ASSUME NEW q, NEW i, NEW b, Step(q, "level", "main", i, b, "fun")
  PROVE  Departs("level", "main", i)
BY DEF Step

\* There are stages, and they end at a in block f.
StagedTo(w, code, a, f) ==
  \E at, in : /\ Staged(w, code, at, in)
              /\ at[Len(code) + 1] = a /\ in[Len(code) + 1] = f

\* The stages of code with a prologue in it.
LEMMA SpliceStaged ==
  ASSUME NEW w, w.start = <<<<"level", "main">>>>, NEW code, NEW a, NEW f, StagedTo(w, code, a, f),
         code[1].op # "LABEL", Len(code) > 1, IsMarker(code[2]),
         NEW v, v.start = <<<<"bare", "fun">>>>, v.saved = w.saved,
         NEW p, StagedTo(v, p, "level", "fun"), NEW k, Spliced(k, code, p),
         NEW u, u.start = <<<<"level", "main">>, <<"bare", "fun">>>>, u.saved = w.saved
  PROVE  StagedTo(u, k, a, f)
<1>21. PICK at, in : /\ Staged(w, code, at, in)
                     /\ at[Len(code) + 1] = a /\ in[Len(code) + 1] = f
  BY DEF StagedTo
<1>22. PICK at1, in1 : /\ Staged(v, p, at1, in1)
                       /\ at1[Len(p) + 1] = "level" /\ in1[Len(p) + 1] = "fun"
  BY DEF StagedTo
<1>1. PICK L \in Nat : L = Len(code)
  BY DEF Spliced
<1>2. PICK P \in Nat : P = Len(p)
  BY DEF Spliced
<1>3. /\ L > 1 /\ Len(k) = L + P /\ k[1] = code[1]
      /\ \A n \in 1 .. P : k[n + 1] = p[n]
      /\ \A n \in 2 .. L : k[n + P] = code[n]
  BY <1>1, <1>2 DEF Spliced
<1>4. /\ at \in [1 .. L + 1 -> Stages] /\ in \in [1 .. L + 1 -> {"fun", "main"}]
      /\ \A n \in 1 .. L : Ruled(w, code, at, in, n)
      /\ at[1] = "level" /\ in[1] = "main"
  <2>1. DOMAIN w.start = {1} /\ w.start[1] = <<"level", "main">>
    OBVIOUS
  <2>2. <<at[1], in[1]>> = <<"level", "main">>
    BY <1>21, <2>1 DEF Staged
  <2>. QED BY <1>1, <1>21, <2>2 DEF Staged, Marks
<1>5. /\ at1 \in [1 .. P + 1 -> Stages] /\ in1 \in [1 .. P + 1 -> {"fun", "main"}]
      /\ \A n \in 1 .. P : Ruled(v, p, at1, in1, n)
      /\ at1[1] = "bare" /\ in1[1] = "fun" /\ at1[P + 1] = "level" /\ in1[P + 1] = "fun"
  <2>1. DOMAIN v.start = {1} /\ v.start[1] = <<"bare", "fun">>
    OBVIOUS
  <2>2. <<at1[1], in1[1]>> = <<"bare", "fun">>
    BY <1>22, <2>1 DEF Staged
  <2>. QED BY <1>2, <1>22, <2>2 DEF Staged, Marks
<1>6. at[2] = "level" /\ in[2] = "fun"
  <2>1. Ruled(w, code, at, in, 2)
    BY <1>3, <1>4
  <2>. QED BY <2>1, MarkerStage
<1>7. PICK at2 : at2 = [n \in 1 .. L + P + 1 |-> IF n = 1 THEN at[1]
                                                 ELSE IF n <= P + 1 THEN at1[n - 1] ELSE at[n - P]]
  OBVIOUS
<1>8. PICK in2 : in2 = [n \in 1 .. L + P + 1 |-> IF n = 1 THEN in[1]
                                                 ELSE IF n <= P + 1 THEN in1[n - 1] ELSE in[n - P]]
  OBVIOUS
<1>9. at2[1] = "level" /\ in2[1] = "main"
  BY <1>4, <1>7, <1>8
<1>10. ASSUME NEW n \in 1 .. P + 1 PROVE at2[n + 1] = at1[n] /\ in2[n + 1] = in1[n]
  <2>1. n + 1 \in 1 .. L + P + 1 /\ n + 1 # 1 /\ (n + 1) - 1 = n
    BY <1>3
  <2>2. CASE n <= P
    BY <1>7, <1>8, <2>1, <2>2
  <2>3. CASE n = P + 1
    <3>1. ~(n + 1 <= P + 1) /\ (n + 1) - P = 2
      BY <2>3
    <3>2. at2[n + 1] = at[2] /\ in2[n + 1] = in[2]
      BY <1>7, <1>8, <2>1, <3>1
    <3>. QED BY <1>5, <1>6, <2>3, <3>2
  <2>. QED BY <2>2, <2>3
<1>11. ASSUME NEW n \in 2 .. L + 1 PROVE at2[n + P] = at[n] /\ in2[n + P] = in[n]
  <2>1. n + P \in 1 .. L + P + 1 /\ n + P # 1 /\ ~(n + P <= P + 1) /\ (n + P) - P = n
    BY <1>3, SMTT(40)
  <2>. QED BY <1>7, <1>8, <2>1
<1>12. Marks(k, at2, in2)
  <2>1. ASSUME NEW n \in 1 .. L + P + 1 PROVE at2[n] \in Stages /\ in2[n] \in {"fun", "main"}
    <3>1. CASE n = 1
      BY <1>9, <3>1 DEF Stages
    <3>2. CASE n # 1 /\ n <= P + 1
      <4>1. PICK j : j = n - 1
        OBVIOUS
      <4>2. j \in 1 .. P + 1 /\ j + 1 = n
        BY <3>2, <4>1
      <4>3. at2[j + 1] = at1[j] /\ in2[j + 1] = in1[j]
        BY <1>10, <4>2
      <4>4. at1[j] \in Stages /\ in1[j] \in {"fun", "main"}
        BY <1>5, <4>2
      <4>. QED BY <4>2, <4>3, <4>4
    <3>3. CASE n > P + 1
      <4>1. PICK j : j = n - P
        OBVIOUS
      <4>2. j \in 2 .. L + 1 /\ j + P = n /\ j \in 1 .. L + 1
        BY <3>3, <4>1
      <4>3. at2[j + P] = at[j] /\ in2[j + P] = in[j]
        BY <1>11, <4>2
      <4>4. at[j] \in Stages /\ in[j] \in {"fun", "main"}
        BY <1>4, <4>2
      <4>. QED BY <4>2, <4>3, <4>4
    <3>. QED BY <3>1, <3>2, <3>3
  <2>2. at2 \in [1 .. L + P + 1 -> Stages] /\ in2 \in [1 .. L + P + 1 -> {"fun", "main"}]
    BY <1>7, <1>8, <2>1
  <2>. QED BY <1>3, <2>2 DEF Marks
<1>13. "level" \notin InCall /\ "level" \notin AtEnds
  BY DEF InCall, AtEnds
<1>14. Ruled(u, k, at2, in2, 1)
  <2>1. Ruled(w, code, at, in, 1) /\ 1 \in 1 .. P + 1
    BY <1>1, <1>3, <1>4
  <2>2. at2[1 + 1] = "bare" /\ in2[1 + 1] = "fun"
    BY <1>5, <1>10, <2>1
  <2>3. Step(w.saved, "level", "main", code[1], at[1 + 1], "fun")
    BY <1>4, <1>6, <2>1 DEF Ruled
  <2>4. Departs("level", "main", code[1])
    BY <2>3, SkipDeparts
  <2>5. Step(u.saved, at2[1], in2[1], k[1], at2[1 + 1], in2[1 + 1])
    BY <1>3, <1>9, <2>2, <2>4 DEF Step
  <2>6. k[1].op # "LABEL" => in2[1] = In(k[1].block)
    BY <1>3, <1>4, <1>9, <2>1 DEF Ruled
  <2>. QED BY <1>9, <1>13, <2>5, <2>6 DEF Ruled
<1>15. ASSUME NEW n \in 1 .. P PROVE Ruled(u, k, at2, in2, n + 1)
  <2>1. /\ n \in 1 .. P + 1 /\ n + 1 \in 1 .. P + 1 /\ (n + 1) - 1 = n /\ n + 1 > 1
    OBVIOUS
  <2>2. /\ at2[n + 1] = at1[n] /\ in2[n + 1] = in1[n] /\ at2[(n + 1) + 1] = at1[n + 1]
        /\ in2[(n + 1) + 1] = in1[n + 1] /\ k[n + 1] = p[n]
    BY <1>3, <1>10, <2>1
  <2>3. Ruled(v, p, at1, in1, n)
    BY <1>5
  <2>4. n > 1 => k[n] = p[n - 1]
    <3>1. n > 1 => n - 1 \in 1 .. P /\ (n - 1) + 1 = n
      OBVIOUS
    <3>. QED BY <1>3, <3>1
  <2>5. Step(u.saved, at2[n + 1], in2[n + 1], k[n + 1], at2[(n + 1) + 1], in2[(n + 1) + 1])
    BY <2>2, <2>3 DEF Ruled
  <2>6. k[n + 1].op # "LABEL" => in2[n + 1] = In(k[n + 1].block)
    BY <2>2, <2>3 DEF Ruled
  <2>7. at2[n + 1] \in InCall => SameItems(k[(n + 1) - 1], k[n + 1])
    BY <2>1, <2>2, <2>3, <2>4 DEF Ruled
  <2>8. at2[n + 1] \in AtEnds => \/ k[n + 1].block = "prologue"
                                 \/ (k[n + 1].block = "leave" /\ k[(n + 1) - 1].block = "leave")
    BY <2>1, <2>2, <2>3, <2>4 DEF Ruled
  <2>. QED BY <2>1, <2>5, <2>6, <2>7, <2>8 DEF Ruled
<1>16. ASSUME NEW n \in 2 .. L PROVE Ruled(u, k, at2, in2, n + P)
  <2>1. /\ n \in 2 .. L + 1 /\ n + 1 \in 2 .. L + 1 /\ (n + P) + 1 = (n + 1) + P /\ n + P > 1
        /\ n \in 1 .. L
    BY <1>3, SMTT(40)
  <2>2. /\ at2[n + P] = at[n] /\ in2[n + P] = in[n] /\ at2[(n + P) + 1] = at[n + 1]
        /\ in2[(n + P) + 1] = in[n + 1] /\ k[n + P] = code[n]
    BY <1>3, <1>11, <2>1
  <2>3. Ruled(w, code, at, in, n)
    BY <1>4, <2>1
  <2>4. n # 2 => k[(n + P) - 1] = code[n - 1]
    <3>1. n # 2 => n - 1 \in 2 .. L /\ (n - 1) + P = (n + P) - 1
      OBVIOUS
    <3>. QED BY <1>3, <3>1
  <2>5. n = 2 => at2[n + P] \notin InCall /\ at2[n + P] \notin AtEnds
    BY <1>6, <1>13, <2>2
  <2>6. Step(u.saved, at2[n + P], in2[n + P], k[n + P], at2[(n + P) + 1], in2[(n + P) + 1])
    BY <2>2, <2>3 DEF Ruled
  <2>7. k[n + P].op # "LABEL" => in2[n + P] = In(k[n + P].block)
    BY <2>2, <2>3 DEF Ruled
  <2>8. at2[n + P] \in InCall => SameItems(k[(n + P) - 1], k[n + P])
    BY <2>2, <2>3, <2>4, <2>5 DEF Ruled
  <2>9. at2[n + P] \in AtEnds => \/ k[n + P].block = "prologue"
                                 \/ (k[n + P].block = "leave" /\ k[(n + P) - 1].block = "leave")
    BY <2>2, <2>3, <2>4, <2>5 DEF Ruled
  <2>. QED BY <2>1, <2>6, <2>7, <2>8, <2>9 DEF Ruled
<1>17. ASSUME NEW n \in 1 .. Len(k) PROVE Ruled(u, k, at2, in2, n)
  <2>1. CASE n = 1
    BY <1>14, <2>1
  <2>2. CASE n # 1 /\ n <= P + 1
    <3>1. n - 1 \in 1 .. P /\ (n - 1) + 1 = n
      BY <2>2
    <3>. QED BY <1>15, <3>1
  <2>3. CASE n > P + 1
    <3>1. n - P \in 2 .. L /\ (n - P) + P = n
      BY <1>3, <2>3
    <3>. QED BY <1>16, <3>1
  <2>4. n = 1 \/ (n # 1 /\ n <= P + 1) \/ n > P + 1
    BY <1>3
  <2>. QED BY <2>1, <2>2, <2>3, <2>4
<1>18. \A n \in DOMAIN u.start : n <= Len(k) + 1 /\ <<at2[n], in2[n]>> = u.start[n]
  <2>1. DOMAIN u.start = {1, 2} /\ u.start[1] = <<"level", "main">> /\ u.start[2] = <<"bare", "fun">>
    OBVIOUS
  <2>2. at2[2] = "bare" /\ in2[2] = "fun"
    <3>1. 1 \in 1 .. P + 1
      OBVIOUS
    <3>2. at2[1 + 1] = at1[1] /\ in2[1 + 1] = in1[1]
      BY <1>10, <3>1
    <3>. QED BY <1>5, <3>2
  <2>3. 1 <= Len(k) + 1 /\ 2 <= Len(k) + 1
    BY <1>3
  <2>. QED BY <1>9, <2>1, <2>2, <2>3
<1>19. Staged(u, k, at2, in2)
  BY <1>12, <1>17, <1>18 DEF Staged
<1>20. at2[Len(k) + 1] = at[L + 1] /\ in2[Len(k) + 1] = in[L + 1]
  <2>1. L + 1 \in 2 .. L + 1 /\ (L + 1) + P = Len(k) + 1
    BY <1>3
  <2>. QED BY <1>11, <2>1
<1>. QED BY <1>1, <1>19, <1>20, <1>21 DEF StagedTo

\* The outline of code with a prologue of P instructions in it.
Joined(q, P, pending) ==
  [saved |-> q, start |-> <<<<"level", "main">>, <<"bare", "fun">>>>, pending |-> pending,
   marker |-> 2 + P, done |-> TRUE, linked |-> FALSE]

\* Where the instructions of spliced code are from.
From(k, code, p, n) ==
  \/ n = 1 /\ 1 \in 1 .. Len(code) /\ k[n] = code[1]
  \/ \E j \in 1 .. Len(p) : n = j + 1 /\ k[n] = p[j]
  \/ \E j \in 2 .. Len(code) : n = j + Len(p) /\ k[n] = code[j]
\* Every instruction of the spliced code is one of either part.
LEMMA SplicedFrom ==
  ASSUME NEW k, NEW code, NEW p, Spliced(k, code, p), NEW n \in 1 .. Len(k)
  PROVE  From(k, code, p, n)
<1>1. PICK L \in Nat \ {0} : L = Len(code)
  BY DEF Spliced
<1>2. PICK P \in Nat : P = Len(p)
  BY DEF Spliced
<1>3. n \in 1 .. L + P
  BY <1>1, <1>2 DEF Spliced
<1>4. CASE n = 1
  BY <1>1, <1>4 DEF Spliced, From
<1>5. CASE n # 1 /\ n <= P + 1
  <2>1. PICK j : j = n - 1
    OBVIOUS
  <2>2. j \in 1 .. P /\ n = j + 1
    BY <1>3, <1>5, <2>1
  <2>3. k[j + 1] = p[j]
    BY <1>2, <2>2 DEF Spliced
  <2>. QED BY <1>2, <2>2, <2>3 DEF From
<1>6. CASE n > P + 1
  <2>1. PICK j : j = n - P
    OBVIOUS
  <2>2. j \in 2 .. L /\ n = j + P
    BY <1>3, <1>6, <2>1
  <2>3. k[j + P] = code[j]
    BY <1>1, <1>2, <2>2 DEF Spliced
  <2>. QED BY <1>1, <1>2, <2>2, <2>3 DEF From
<1>7. n = 1 \/ (n # 1 /\ n <= P + 1) \/ n > P + 1
  BY <1>3
<1>. QED BY <1>4, <1>5, <1>6, <1>7

\* And where they are.
LEMMA SplicedTo ==
  ASSUME NEW k, NEW code, NEW p, Spliced(k, code, p)
  PROVE  /\ \A n \in 1 .. Len(code) : \E j \in 1 .. Len(k) : k[j] = code[n]
         /\ \A n \in 1 .. Len(p) : \E j \in 1 .. Len(k) : k[j] = p[n]
<1>1. PICK L \in Nat \ {0} : L = Len(code)
  BY DEF Spliced
<1>2. PICK P \in Nat : P = Len(p)
  BY DEF Spliced
<1>3. Len(k) = L + P
  BY <1>1, <1>2 DEF Spliced
<1>4. ASSUME NEW n \in 1 .. Len(code) PROVE \E j \in 1 .. Len(k) : k[j] = code[n]
  <2>1. CASE n = 1
    <3>1. 1 \in 1 .. Len(k) /\ k[1] = code[1]
      BY <1>3 DEF Spliced
    <3>. QED BY <2>1, <3>1
  <2>2. CASE n # 1
    <3>1. n \in 2 .. L /\ n + P \in 1 .. Len(k)
      BY <1>1, <1>3, <2>2
    <3>2. k[n + P] = code[n]
      BY <1>1, <1>2, <3>1 DEF Spliced
    <3>. QED BY <3>1, <3>2
  <2>. QED BY <2>1, <2>2
<1>5. ASSUME NEW n \in 1 .. Len(p) PROVE \E j \in 1 .. Len(k) : k[j] = p[n]
  <2>1. n + 1 \in 1 .. Len(k)
    BY <1>2, <1>3
  <2>2. k[n + 1] = p[n]
    BY DEF Spliced
  <2>. QED BY <2>1, <2>2
<1>. QED BY <1>4, <1>5

\* The prologue is spliced in where its marker is.
LEMMA SplicedStands ==
  ASSUME NEW c \in CC, NEW q, NEW pending, Standing(c, Outline(q, pending), "level", "fun"),
         c.code[1].op # "LABEL", Len(c.code) > 1, IsMarker(c.code[2]), NEW used, Saves(q, used),
         c.usage["I"][0] > 0 => used,
         NEW e \in CC, Standing(e, Separate(q), "level", "fun"),
         NEW d \in CC, Spliced(d.code, c.code, e.code), d.pool = c.pool, d.usage = c.usage,
         d.names = c.names
  PROVE  Standing(d, Joined(q, Len(e.code), pending), "level", "fun")
<1>1. PICK w : w = Outline(q, pending)
  OBVIOUS
<1>2. PICK v : v = Separate(q)
  OBVIOUS
<1>3. PICK u : u = Joined(q, Len(e.code), pending)
  OBVIOUS
<1>4. /\ w.saved = q /\ w.start = <<<<"level", "main">>>> /\ w.pending = pending
      /\ w.marker = 2 /\ ~w.done
  BY <1>1 DEF Outline
<1>5. /\ v.saved = q /\ v.start = <<<<"bare", "fun">>>> /\ v.pending = {} /\ v.marker = 0 /\ v.done
  BY <1>2 DEF Separate
<1>6. /\ u.saved = q /\ u.start = <<<<"level", "main">>, <<"bare", "fun">>>> /\ u.pending = pending
      /\ u.marker = 2 + Len(e.code) /\ u.done /\ ~u.linked
  BY <1>3 DEF Joined
<1>7. Guarded(d)
  <2>1. Guarded(c)
    BY DEF Standing
  <2>. QED BY <2>1 DEF Guarded
<1>8. LinkNoted(d, u)
  <2>1. LinkNoted(c, w) /\ LinkNoted(e, v)
    BY <1>1, <1>2 DEF Standing
  <2>2. ASSUME NEW n \in 1 .. Len(d.code), d.code[n].op = "JLINK", d.code[n].block \in FunBlocks
        PROVE  Kept(q)
    <3>1. ASSUME NEW j \in 1 .. Len(c.code), d.code[n] = c.code[j] PROVE Kept(q)
      <4>1. c.usage["I"][0] > 0
        BY <1>4, <2>1, <2>2, <3>1 DEF LinkNoted
      <4>. QED BY <4>1 DEF Saves
    <3>2. ASSUME NEW j \in 1 .. Len(e.code), d.code[n] = e.code[j] PROVE Kept(q)
      BY <1>5, <2>1, <2>2, <3>2 DEF LinkNoted
    <3>3. 2 .. Len(c.code) \subseteq 1 .. Len(c.code)
      OBVIOUS
    <3>4. From(d.code, c.code, e.code, n)
      BY SplicedFrom
    <3>. QED BY <3>1, <3>2, <3>3, <3>4 DEF From
  <2>. QED BY <1>6, <2>2 DEF LinkNoted
<1>9. Bound(d, u.pending)
  <2>1. Bound(c, w.pending) /\ Bound(e, v.pending)
    BY <1>1, <1>2 DEF Standing
  <2>2. ASSUME NEW l, HasLabel(c, l) \/ HasLabel(e, l) PROVE HasLabel(d, l)
    BY <2>2, SplicedTo, SMTT(40) DEF HasLabel
  <2>3. ASSUME NEW n \in 1 .. Len(d.code), NEW l \in Targets(d.code[n])
        PROVE  l \in pending \/ HasLabel(d, l)
    <3>1. ASSUME NEW j \in 1 .. Len(c.code), d.code[n] = c.code[j]
          PROVE  l \in pending \/ HasLabel(c, l)
      BY <1>4, <2>1, <3>1 DEF Bound
    <3>2. ASSUME NEW j \in 1 .. Len(e.code), d.code[n] = e.code[j] PROVE HasLabel(e, l)
      BY <1>5, <2>1, <3>2 DEF Bound
    <3>3. 2 .. Len(c.code) \subseteq 1 .. Len(c.code)
      OBVIOUS
    <3>4. From(d.code, c.code, e.code, n)
      BY SplicedFrom
    <3>. QED BY <2>2, <3>1, <3>2, <3>3, <3>4 DEF From
  <2>. QED BY <1>6, <2>3 DEF Bound
<1>10. MarkedAt(d, u.marker)
  <2>1. MarkedAt(c, 2) /\ MarkedAt(e, 0)
    BY <1>1, <1>2, <1>4, <1>5 DEF Standing
  <2>2. ASSUME NEW n \in 1 .. Len(d.code), IsMarker(d.code[n]) PROVE n = 2 + Len(e.code)
    <3>1. 1 # 2 /\ Len(e.code) \in Nat
      BY Fields
    <3>2. ASSUME 1 \in 1 .. Len(c.code), d.code[n] = c.code[1] PROVE FALSE
      BY <2>1, <2>2, <3>1, <3>2 DEF MarkedAt
    <3>3. ASSUME NEW j \in 1 .. Len(e.code), d.code[n] = e.code[j] PROVE FALSE
      <4>1. j # 0
        BY <3>1
      <4>. QED BY <2>1, <2>2, <3>3, <4>1 DEF MarkedAt
    <3>4. ASSUME NEW j \in 2 .. Len(c.code), n = j + Len(e.code), d.code[n] = c.code[j]
          PROVE  n = 2 + Len(e.code)
      <4>1. j \in 1 .. Len(c.code)
        OBVIOUS
      <4>. QED BY <2>1, <2>2, <3>4, <4>1 DEF MarkedAt
    <3>5. From(d.code, c.code, e.code, n)
      BY SplicedFrom
    <3>. QED BY <3>2, <3>3, <3>4, <3>5 DEF From
  <2>. QED BY <1>6, <2>2 DEF MarkedAt
<1>11. Here(d, "level")
  BY DEF Here, InCall, AtEnds
<1>12. u.start \in Seq(Stages \X {"fun", "main"})
  <2>1. <<"level", "main">> \in Stages \X {"fun", "main"} /\ <<"bare", "fun">> \in Stages \X {"fun", "main"}
    BY DEF Stages
  <2>. QED BY <1>6, <2>1
<1>13. PICK code, p, k : code = c.code /\ p = e.code /\ k = d.code
  OBVIOUS
<1>14. /\ StagedTo(w, code, "level", "fun") /\ StagedTo(v, p, "level", "fun")
       /\ code[1].op # "LABEL" /\ Len(code) > 1 /\ IsMarker(code[2]) /\ Spliced(k, code, p)
  BY <1>1, <1>2, <1>13 DEF Standing, StagedTo
<1>15. StagedTo(u, k, "level", "fun")
  <2>1. v.saved = w.saved /\ u.saved = w.saved
    BY <1>4, <1>5, <1>6
  <2>2. /\ w.start = <<<<"level", "main">>>> /\ v.start = <<<<"bare", "fun">>>>
        /\ u.start = <<<<"level", "main">>, <<"bare", "fun">>>>
    BY <1>4, <1>5, <1>6
  <2>. QED BY <1>14, <2>1, <2>2, SpliceStaged
<1>16. Standing(d, u, "level", "fun")
  BY <1>6, <1>7, <1>8, <1>9, <1>10, <1>11, <1>12, <1>13, <1>15 DEF Standing, StagedTo
<1>. QED BY <1>3, <1>16

\* The labels the code of a function waits for, besides those of its IFs.
Leaves == {Tok("leave", 0), Tok("skip", 0)}

\* A label that is there remains.
LEMMA LabelStays ==
  ASSUME NEW c \in CC, NEW d, After(c, d), NEW l, HasLabel(c, l)
  PROVE  HasLabel(d, l)
<1>1. PICK n \in 1 .. Len(c.code) : IsLabel(c.code[n], l)
  BY DEF HasLabel
<1>2. Len(c.code) \in Nat /\ Len(d.code) \in Nat /\ Len(c.code) <= Len(d.code)
  BY Fields DEF After
<1>3. n \in 1 .. Len(d.code) /\ d.code[n] = c.code[n]
  BY <1>2 DEF After
<1>. QED BY <1>1, <1>3 DEF HasLabel

\* The steps of FunctionEndCode: the compiler in front of the prologue, the place of its
\* marker, and code e spliced in there.
Separated(c) == [c EXCEPT !.code = <<>>, !.block = "prologue", !.item = 0]
MarkerOf(c) ==
  CHOOSE n \in DOMAIN c.code : c.code[n].op = "LABEL" /\ c.code[n].src0[1].t = "prologue"
Splicing(c, p, q) ==
  [c EXCEPT !.code = SubSeq(@, 1, MarkerOf(c) - 1) \o p \o SubSeq(@, MarkerOf(c), Len(@)),
            !.block = "leave", !.saved = q]

\* The marker is where the outline says.
LEMMA MarkerFound ==
  ASSUME NEW c \in CC, HasPrologue(c), MarkedAt(c, 2)
  PROVE  /\ Len(c.code) > 1 /\ IsMarker(c.code[2])
         /\ MarkerOf(c) = 2
<1>1. Len(c.code) \in Nat /\ DOMAIN c.code = 1 .. Len(c.code)
  BY Fields
<1>2. PICK k \in 1 .. Len(c.code) : IsMarker(c.code[k])
  BY DEF HasPrologue, IsMarker
<1>3. k = 2
  BY <1>2 DEF MarkedAt
<1>4. \A n \in DOMAIN c.code : IsMarker(c.code[n]) <=> n = 2
  BY <1>1, <1>2, <1>3 DEF MarkedAt
<1>5. Len(c.code) > 1 /\ 2 \in DOMAIN c.code
  BY <1>1, <1>3
<1>6. (CHOOSE n \in DOMAIN c.code : IsMarker(c.code[n])) = 2
  BY <1>4, <1>5
<1>. QED BY <1>2, <1>3, <1>5, <1>6 DEF IsMarker, MarkerOf

\* The prologue, spliced in.
LEMMA SplicingStands ==
  ASSUME NEW c \in CC, NEW q, q = Saved(c), Standing(c, Outline(q, Leaves), "level", "fun"),
         c.code[1].op # "LABEL", HasPrologue(c),
         NEW e, e = Push(Separated(c), q), NEW d, d = Splicing(c, e.code, q)
  PROVE  /\ d \in CC /\ d.block = "leave" /\ d.saved = q /\ e.code \in Seq(Emitted)
         /\ Standing(d, Joined(q, Len(e.code), Leaves), "level", "fun")
         /\ Len(d.code) > 1 /\ d.code[1] = c.code[1]
<1>1. Guarded(c) /\ MarkedAt(c, 2)
  <2>1. Outline(q, Leaves).marker = 2
    BY DEF Outline
  <2>. QED BY <2>1 DEF Standing
<1>2. Saves(q, c.usage["I"][0] > 0)
  BY <1>1, SavedSaves
<1>3. q \in Seq(Seq(TokenOf(Int))) /\ Registers(q) /\ Queue(q)
  BY SavedType DEF Registers
<1>4. PICK c1 : c1 = [c EXCEPT !.code = <<>>, !.block = "prologue", !.item = 0]
  OBVIOUS
<1>5. c1 \in CC /\ c1.code = <<>> /\ c1.block = "prologue" /\ Guarded(c1)
  <2>1. c1 = [pool |-> c.pool, usage |-> c.usage, names |-> c.names, code |-> <<>>,
              saved |-> c.saved, block |-> "prologue", item |-> 0]
    BY <1>4 DEF CC
  <2>2. c.saved \in Seq(Seq(TokenOf(Int))) /\ "prologue" \in Blocks
    BY Fields DEF Blocks
  <2>3. PICK k \in Seq(Emitted) : k = <<>>
    <3>1. <<>> \in Seq(Emitted)
      BY None
    <3>. QED BY <3>1
  <2>4. PICK s \in Seq(Seq(TokenOf(Int))), b \in Blocks, n \in Int :
          s = c.saved /\ b = "prologue" /\ n = 0
    BY <2>2
  <2>5. c1 = [pool |-> c.pool, usage |-> c.usage, names |-> c.names, code |-> k,
              saved |-> s, block |-> b, item |-> n]
    BY <2>1, <2>3, <2>4
  <2>6. c1 \in CC /\ c1.code = k /\ c1.block = b
    BY <2>5, Made
  <2>7. c1.pool = c.pool /\ c1.usage = c.usage /\ c1.names = c.names
    BY <2>1
  <2>8. Guarded(c1)
    BY <1>1, <2>7 DEF Guarded
  <2>. QED BY <2>3, <2>4, <2>6, <2>8
<1>6. e = Push(c1, q)
  BY <1>4 DEF Separated
<1>7. e \in CC /\ Standing(e, Separate(q), "level", "fun")
  <2>1. PICK v : v = Separate(q)
    OBVIOUS
  <2>2. v.saved = q /\ Standing(c1, v, "bare", "fun")
    BY <1>5, <2>1, SeparateStands DEF Separate
  <2>3. c1.block \in Ending
    BY <1>5 DEF Ending
  <2>4. PICK used : used = (c.usage["I"][0] > 0)
    OBVIOUS
  <2>5. c1 \in CC /\ Saves(q, used)
    BY <1>2, <1>5, <2>4
  <2>6. After(c1, e) /\ Standing(e, v, "level", "fun")
    BY <1>6, <2>2, <2>3, <2>5, PrologueStands
  <2>. QED BY <2>1, <2>6 DEF After
<1>8. /\ Len(c.code) > 1 /\ IsMarker(c.code[2]) /\ MarkerOf(c) = 2
  BY <1>1, MarkerFound
<1>9. PICK k : k = SubSeq(c.code, 1, 2 - 1) \o e.code \o SubSeq(c.code, 2, Len(c.code))
  OBVIOUS
<1>10. Spliced(k, c.code, e.code) /\ k \in Seq(Emitted)
  <2>1. PICK code \in Seq(Emitted), p \in Seq(Emitted) : code = c.code /\ p = e.code
    BY <1>7, Fields
  <2>2. Len(code) > 1 /\ k = SubSeq(code, 1, 2 - 1) \o p \o SubSeq(code, 2, Len(code))
    BY <1>8, <1>9, <2>1
  <2>3. Spliced(k, code, p) /\ k \in Seq(Emitted)
    BY <2>2, SplicedCode
  <2>. QED BY <2>1, <2>3
<1>11. d = [pool |-> c.pool, usage |-> c.usage, names |-> c.names, code |-> k, saved |-> q,
            block |-> "leave", item |-> c.item]
  <2>1. d = [c EXCEPT !.code = k, !.block = "leave", !.saved = q]
    BY <1>8, <1>9 DEF Splicing
  <2>. QED BY <2>1 DEF CC
<1>12. d \in CC /\ d.block = "leave" /\ d.code = k
  <2>1. "leave" \in Blocks /\ c.item \in Int
    BY Fields DEF Blocks
  <2>2. PICK s \in Seq(Seq(TokenOf(Int))), b \in Blocks, n \in Int : s = q /\ b = "leave" /\ n = c.item
    BY <1>3, <2>1
  <2>3. PICK k1 \in Seq(Emitted) : k1 = k
    BY <1>10
  <2>4. PICK d1 : d1 = [pool |-> c.pool, usage |-> c.usage, names |-> c.names, code |-> k1,
                        saved |-> s, block |-> b, item |-> n]
    OBVIOUS
  <2>5. d1 \in CC /\ d1.block = b /\ d1.code = k1
    BY <2>4, Made
  <2>6. d = d1
    BY <1>11, <2>2, <2>3, <2>4
  <2>. QED BY <2>2, <2>3, <2>5, <2>6
<1>13. d.saved = q /\ d.pool = c.pool /\ d.usage = c.usage /\ d.names = c.names
  BY <1>11
<1>14. Standing(d, Joined(q, Len(e.code), Leaves), "level", "fun")
  <2>1. PICK used : used = (c.usage["I"][0] > 0)
    OBVIOUS
  <2>2. Saves(q, used) /\ (c.usage["I"][0] > 0 => used)
    BY <1>2, <2>1
  <2>3. PICK pending : pending = Leaves
    OBVIOUS
  <2>4. Spliced(d.code, c.code, e.code) /\ Standing(c, Outline(q, pending), "level", "fun")
    BY <1>10, <1>12, <2>3
  <2>5. Standing(d, Joined(q, Len(e.code), pending), "level", "fun")
    BY <1>7, <1>8, <1>12, <1>13, <2>2, <2>4, SplicedStands
  <2>. QED BY <2>3, <2>5
<1>15. Len(d.code) > 1 /\ d.code[1] = c.code[1]
  <2>1. PICK L, P : L = Len(c.code) /\ P = Len(e.code)
    OBVIOUS
  <2>2. L \in Nat /\ P \in Nat
    BY <1>10, <2>1 DEF Spliced
  <2>3. L > 1 /\ Len(k) = L + P /\ k[1] = c.code[1]
    BY <1>8, <1>10, <2>1 DEF Spliced
  <2>4. Len(k) > 1
    BY <2>2, <2>3
  <2>. QED BY <1>12, <2>3, <2>4
<1>. QED BY <1>7, <1>12, <1>13, <1>14, <1>15, Fields

\* The return to the caller; what comes behind it, only a jump leads to.
LEMMA RetrnStands ==
  ASSUME NEW c \in CC, In(c.block) = "fun", NEW w, Standing(c, w, "bare", In(c.block)),
         NEW d, d = Emit(c, "RETRN", <<>>, <<>>, <<>>)
  PROVE  After(c, d) /\ Standing(d, w, "level", "main")
<1>1. After(c, d)
  <2>1. PICK op \in Opcodes : op = "RETRN"
    BY Shapes
  <2>2. Shape(op)[1] = "-" /\ Shape(op)[2] = "-" /\ Shape(op)[3] = "-"
    BY <2>1, Shapes
  <2>3. d = Emit(c, op, <<>>, <<>>, <<>>)
    BY <2>1
  <2>. QED BY <2>2, <2>3, BareAfter
<1>2. PICK i : i = [op |-> "RETRN", dest |-> <<>>, src0 |-> <<>>, src1 |-> <<>>,
                    block |-> c.block, item |-> c.item]
  OBVIOUS
<1>3. Departs("bare", "fun", i) /\ Targets(i) = {} /\ ~IsMarker(i)
  BY <1>2 DEF Departs, Targets, IsMarker
<1>4. Step(w.saved, "bare", In(c.block), i, "level", "main")
  BY <1>3 DEF Step
<1>5. "level" \in Stages /\ "level" \notin AtEnds /\ d \in CC /\ "main" \in {"fun", "main"}
  BY <1>1 DEF Stages, AtEnds, After
<1>6. d = Emit(c, "RETRN", <<>>, <<>>, <<>>)
  OBVIOUS
<1>. QED BY <1>1, <1>2, <1>3, <1>4, <1>5, <1>6, EmitStands

\* The end of the function: the code is joined, and stands in the main block.
LEMMA FunctionEndStands ==
  ASSUME NEW c \in CC, NEW q, q = Saved(c), Standing(c, Outline(q, Leaves), "level", "fun"),
         c.code[1].op # "LABEL", HasPrologue(c), NEW d, d = FunctionEndCode(c)
  PROVE  /\ \E P \in Nat : Standing(d, Joined(q, P, {}), "level", "main")
         /\ d.saved = q /\ Len(d.code) > 1 /\ d.code[1].op # "LABEL"
<1>1. PICK e : e = Push(Separated(c), q)
  OBVIOUS
<1>3. PICK c2 : c2 = Splicing(c, e.code, q)
  OBVIOUS
<1>4. PICK P : P = Len(e.code)
  OBVIOUS
<1>5. PICK w : w = Joined(q, P, Leaves)
  OBVIOUS
<1>6. /\ c2 \in CC /\ c2.block = "leave" /\ c2.saved = q /\ P \in Nat
      /\ Standing(c2, w, "level", "fun") /\ Len(c2.code) > 1 /\ c2.code[1] = c.code[1]
  <2>1. /\ c2 \in CC /\ c2.block = "leave" /\ c2.saved = q /\ e.code \in Seq(Emitted)
        /\ Standing(c2, Joined(q, Len(e.code), Leaves), "level", "fun")
        /\ Len(c2.code) > 1 /\ c2.code[1] = c.code[1]
    BY <1>1, <1>3, SplicingStands
  <2>. QED BY <1>4, <1>5, <2>1, LenProperties
<1>7. PICK leave, skip : leave = Tok("leave", 0) /\ skip = Tok("skip", 0)
  OBVIOUS
<1>8. /\ leave \in TokenOf(Int) /\ leave.t = "leave" /\ LabelOf(leave) = "fun"
      /\ skip \in TokenOf(Int) /\ skip.t = "skip" /\ LabelOf(skip) = "main"
  BY <1>7, LabelToken DEF Tok, LabelOf, Labels
<1>9. PICK c3 : c3 = EmitLabel(c2, leave)
  OBVIOUS
<1>10. After(c2, c3) /\ Standing(c3, w, "level", "fun") /\ HasLabel(c3, leave)
  <2>1. After(c2, c3)
    BY <1>6, <1>8, <1>9, LabelAfter
  <2>2. Standing(c2, w, "level", LabelOf(leave)) /\ (leave.t = "prologue" => w.marker = Len(c2.code) + 1)
    BY <1>6, <1>8
  <2>3. Standing(c3, w, "level", LabelOf(leave)) /\ HasLabel(c3, leave)
    BY <1>6, <1>8, <1>9, <2>2, LabelStands
  <2>. QED BY <1>8, <2>1, <2>3
<1>11. c3 \in CC /\ c3.block = "leave" /\ Len(c3.code) > 0 /\ c3.code[Len(c3.code)].block = "leave"
  <2>1. c3 \in CC /\ c3.block = "leave"
    BY <1>6, <1>10 DEF After
  <2>2. PICK i : i = [op |-> "LABEL", dest |-> <<>>, src0 |-> <<leave>>, src1 |-> <<>>,
                      block |-> c2.block, item |-> c2.item]
    OBVIOUS
  <2>3. c3.code = Append(c2.code, i)
    BY <1>6, <1>9, <2>2 DEF EmitLabel, Emit, CC
  <2>4. Len(c2.code) \in Nat
    BY <1>6, Fields
  <2>5. Len(c3.code) = Len(c2.code) + 1 /\ c3.code[Len(c2.code) + 1] = i
    <3>1. c2.code \in Seq(Emitted)
      BY <1>6, Fields
    <3>2. PICK s \in Seq(Emitted) : s = c2.code
      BY <3>1
    <3>. QED BY <2>3, <3>2
  <2>. QED BY <1>6, <2>1, <2>2, <2>4, <2>5
<1>12. Saves(q, c.usage["I"][0] > 0) /\ Registers(q)
  <2>1. Guarded(c)
    BY DEF Standing
  <2>. QED BY <2>1, SavedSaves DEF Saves
<1>13. PICK c4 : c4 = Pop(c3, q)
  OBVIOUS
<1>14. After(c3, c4) /\ Standing(c4, w, "bare", "fun") /\ c4 \in CC /\ c4.block = "leave"
  <2>1. PICK used : used = (c.usage["I"][0] > 0)
    OBVIOUS
  <2>2. Saves(q, used) /\ c3.block \in Ending /\ w.saved = q
    BY <1>5, <1>11, <1>12, <2>1 DEF Ending, Joined
  <2>3. After(c3, c4) /\ Standing(c4, w, "bare", "fun")
    BY <1>10, <1>11, <1>13, <2>2, EpilogueStands
  <2>. QED BY <1>11, <2>3 DEF After
<1>15. PICK c5 : c5 = Emit(c4, "RETRN", <<>>, <<>>, <<>>)
  OBVIOUS
<1>16. After(c4, c5) /\ Standing(c5, w, "level", "main") /\ c5 \in CC
  <2>2. In(c4.block) = "fun" /\ Standing(c4, w, "bare", In(c4.block))
    BY <1>14 DEF In, FunBlocks
  <2>1. After(c4, c5) /\ Standing(c5, w, "level", "main")
    BY <1>14, <1>15, <2>2, RetrnStands, SMTT(40)
  <2>. QED BY <2>1 DEF After
<1>17. d = EmitLabel(c5, skip)
  BY <1>1, <1>3, <1>7, <1>9, <1>13, <1>15
  DEF FunctionEndCode, Splicing, Separated, MarkerOf
<1>18. After(c5, d) /\ Standing(d, w, "level", "main") /\ HasLabel(d, skip)
  <2>1. After(c5, d)
    BY <1>8, <1>16, <1>17, LabelAfter
  <2>2. Standing(c5, w, "level", LabelOf(skip)) /\ (skip.t = "prologue" => w.marker = Len(c5.code) + 1)
    BY <1>8, <1>16
  <2>3. Standing(d, w, "level", LabelOf(skip)) /\ HasLabel(d, skip)
    BY <1>8, <1>16, <1>17, <2>2, LabelStands
  <2>. QED BY <1>8, <2>1, <2>3
<1>19. After(c3, d) /\ After(c2, d)
  <2>1. After(c3, c5)
    BY <1>11, <1>14, <1>16, Transitive
  <2>2. After(c3, d)
    BY <1>11, <1>18, <2>1, Transitive
  <2>3. After(c2, d)
    BY <1>6, <1>10, <2>2, Transitive
  <2>. QED BY <2>2, <2>3
<1>20. HasLabel(d, leave)
  BY <1>10, <1>11, <1>19, LabelStays
<1>21. Standing(d, Joined(q, P, {}), "level", "main")
  <2>1. \A l \in w.pending : l \in {} \/ HasLabel(d, l)
    BY <1>5, <1>7, <1>18, <1>20 DEF Joined, Leaves
  <2>2. PICK v : v = Awaiting(w, {})
    OBVIOUS
  <2>3. Standing(d, v, "level", "main")
    BY <1>18, <2>1, <2>2, AwaitingStands
  <2>4. v = Joined(q, P, {})
    BY <1>5, <2>2 DEF Awaiting, Joined
  <2>. QED BY <2>3, <2>4
<1>22. d.saved = q /\ Len(d.code) > 1 /\ d.code[1] = c2.code[1]
  <2>1. Len(c2.code) \in Nat /\ Len(d.code) \in Nat /\ Len(c2.code) <= Len(d.code) /\ d \in CC
    BY <1>6, <1>19, Fields DEF After
  <2>2. 1 \in 1 .. Len(c2.code) /\ Len(d.code) > 1
    BY <1>6, <2>1
  <2>3. d.saved = c2.saved /\ d.code[1] = c2.code[1]
    BY <1>19, <2>2 DEF After
  <2>. QED BY <1>6, <2>2, <2>3
<1>. QED BY <1>6, <1>21, <1>22

\* The label of the FI at item k, and those of the items from j on.
FiLabel(block, k) == Tok("fi", IF block = "fun" THEN k ELSE -k)
Waited(block, items, j) ==
  {FiLabel(block, k) : k \in {n \in j .. Len(items) : items[n].kind = "fi"}}

\* Behind an item its label, if it has one, is there.
LEMMA NextItemStands ==
  ASSUME NEW c \in CC, c.block \in {"fun", "main"}, NEW items, NEW j \in Nat \ {0},
         NEW names, names \subseteq DOMAIN c.names, AcceptedItem(items, j, names), c.item = j,
         j \in DOMAIN items, items[j].dest \in AllNames,
         items = IF c.block = "fun" THEN src.fun ELSE src.main,
         src.ret \in {"I", "R"}, Len(src.fun) \in Nat, Len(items) \in Nat, ~Mismatch(c, items[j]),
         NEW rest, NEW w, w.pending = Waited(c.block, items, j) \cup rest,
         Standing(c, w, "level", In(c.block)),
         items[j].kind = "return" => c.block = "fun" /\ Tok("leave", 0) \in rest,
         c.block \in FunBlocks => ~w.done,
         NEW d, d = [ItemCode(c, items[j]) EXCEPT !.item = j + 1]
  PROVE  Standing(d, Awaiting(w, Waited(c.block, items, j + 1) \cup rest), "level", In(c.block))
<1>1. PICK e : e = ItemCode(c, items[j])
  OBVIOUS
<1>2. \A k : At("fi", c, k) = FiLabel(c.block, k)
  BY DEF At, FiLabel
<1>3. items[j].kind = "return" => c.block = "fun" /\ Tok("leave", 0) \in w.pending
  OBVIOUS
<1>4. ASSUME NEW k \in j .. Len(items), items[k].kind = "fi" PROVE At("fi", c, k) \in w.pending
  BY <1>2, <1>4 DEF Waited
<1>5. /\ Standing(e, w, "level", In(c.block))
      /\ items[j].kind = "fi" => HasLabel(e, At("fi", c, j))
  BY <1>1, <1>3, <1>4, ItemStands
<1>6. PICK v : v = Awaiting(w, Waited(c.block, items, j + 1) \cup rest)
  OBVIOUS
<1>7. Standing(e, v, "level", In(c.block))
  <2>1. PICK pending : pending = Waited(c.block, items, j + 1) \cup rest
    OBVIOUS
  <2>2. ASSUME NEW l \in w.pending PROVE l \in pending \/ HasLabel(e, l)
    <3>1. CASE l \in rest
      BY <2>1, <3>1
    <3>2. CASE l \in Waited(c.block, items, j)
      <4>1. PICK k \in j .. Len(items) : items[k].kind = "fi" /\ l = FiLabel(c.block, k)
        BY <3>2 DEF Waited
      <4>2. CASE k = j
        BY <1>2, <1>5, <4>1, <4>2
      <4>3. CASE k # j
        <5>1. k \in j + 1 .. Len(items)
          BY <4>3
        <5>. QED BY <2>1, <4>1, <5>1 DEF Waited
      <4>. QED BY <4>2, <4>3
    <3>. QED BY <2>2, <3>1, <3>2
  <2>3. Standing(e, Awaiting(w, pending), "level", In(c.block))
    BY <1>5, <2>2, AwaitingStands
  <2>. QED BY <1>6, <2>1, <2>3
<1>8. e \in CC
  <2>1. After(c, e)
    BY <1>1, ItemAfter
  <2>. QED BY <2>1 DEF After
<1>9. d.code = e.code /\ d.pool = e.pool /\ d.usage = e.usage /\ d.names = e.names
  BY <1>1, <1>8 DEF CC
<1>10. Standing(d, v, "level", In(c.block))
  BY <1>7, <1>9, MovedOn
<1>. QED BY <1>6, <1>10

\* FP and SP are set to 0.
LEMMA ZeroStands ==
  ASSUME NEW c \in CC, c.block = "main", NEW w, Standing(c, w, "level", "main"),
         NEW x \in {FP, SP}, NEW d, d = Copy(c, x, Const(0))
  PROVE  After(c, d) /\ Standing(d, w, "level", "main")
<1>1. x \in Symbols /\ Const(0) \in Data /\ IsInt(Const(0)) /\ IsInt(x)
  BY Fixed DEF Data, IsInt
<1>2. After(c, d) /\ d \in CC
  BY <1>1, CopyAfter, SMTT(40) DEF After
<1>3. PICK op, dest, src0, none : /\ op = "COPYI" /\ dest = <<x>> /\ src0 = <<Const(0)>> /\ none = <<>>
  OBVIOUS
<1>4. d = Emit(c, op, dest, src0, none)
  BY <1>1, <1>3 DEF Copy, Emit2
<1>5. PICK i : i = [op |-> op, dest |-> dest, src0 |-> src0, src1 |-> none,
                    block |-> c.block, item |-> c.item]
  OBVIOUS
<1>6. In(c.block) = "main"
  BY DEF In, FunBlocks
<1>7. PICK a : a = "level" /\ a \in Stages /\ a \notin AtEnds
  BY DEF Stages, AtEnds
<1>8. Passes(w.saved, a, In(c.block), i, a)
  BY <1>3, <1>5, <1>6, <1>7 DEF Passes
<1>9. Standing(c, w, a, In(c.block))
  BY <1>6, <1>7
<1>10. Standing(d, w, a, In(c.block))
  <2>1. op \notin {"LABEL", "JLINK", "UJUMP", "BREQZ", "BNEQZ"}
    BY <1>3
  <2>. QED BY <1>2, <1>4, <1>5, <1>7, <1>8, <1>9, <2>1, StepStands
<1>. QED BY <1>2, <1>6, <1>7, <1>10

\* The header of the main block.
LEMMA MainStands ==
  ASSUME Accepted(src), NEW c \in CC, NEW w, Standing(c, w, "level", "main"), NEW d, d = MainCode(c)
  PROVE  /\ Standing(d, w, "level", "main") /\ d.saved = c.saved
         /\ Len(c.code) <= Len(d.code) /\ \A n \in 1 .. Len(c.code) : d.code[n] = c.code[n]
<1>1. PICK c1 : c1 = [c EXCEPT !.block = "main", !.item = 0]
  OBVIOUS
<1>2. PICK c2 : c2 = Copy(c1, FP, Const(0))
  OBVIOUS
<1>3. PICK c3 : c3 = Copy(c2, SP, Const(0))
  OBVIOUS
<1>4. PICK q : q = src.vars
  OBVIOUS
<1>5. d = NewNames(c3, q)
  BY <1>1, <1>2, <1>3, <1>4 DEF MainCode
<1>6. /\ c1 \in CC /\ c1.block = "main" /\ c1.names = c.names /\ c1.code = c.code
      /\ c1.pool = c.pool /\ c1.usage = c.usage /\ c1.saved = c.saved
  <2>1. "main" \in Blocks
    BY DEF Blocks
  <2>2. c1 = [pool |-> c.pool, usage |-> c.usage, names |-> c.names, code |-> c.code,
              saved |-> c.saved, block |-> "main", item |-> 0]
    BY <1>1 DEF CC
  <2>3. c.code \in Seq(Emitted) /\ c.saved \in Seq(Seq(TokenOf(Int)))
    BY Fields
  <2>4. PICK k \in Seq(Emitted), s \in Seq(Seq(TokenOf(Int))), b \in Blocks, n \in Int :
          k = c.code /\ s = c.saved /\ b = "main" /\ n = 0
    BY <2>1, <2>3
  <2>5. c1 = [pool |-> c.pool, usage |-> c.usage, names |-> c.names, code |-> k,
              saved |-> s, block |-> b, item |-> n]
    BY <2>2, <2>4
  <2>6. c1 \in CC /\ c1.names = c.names /\ c1.block = b
    BY <2>5, Made
  <2>. QED BY <2>2, <2>4, <2>6
<1>7. Standing(c1, w, "level", "main")
  BY <1>6, MovedOn
<1>8. After(c1, c2) /\ Standing(c2, w, "level", "main")
  BY <1>2, <1>6, <1>7, ZeroStands
<1>9. c2 \in CC /\ c2.block = "main"
  BY <1>6, <1>8 DEF After
<1>10. After(c2, c3) /\ Standing(c3, w, "level", "main")
  BY <1>3, <1>8, <1>9, ZeroStands
<1>11. c3 \in CC
  BY <1>10 DEF After
<1>12. /\ Len(q) \in Nat /\ DOMAIN q = 1 .. Len(q)
       /\ \A i \in 1 .. Len(q) : q[i] \in AllNames /\ src.types[q[i]] \in Types
  BY <1>4, Listed
<1>13. After(c3, d)
  BY <1>5, <1>11, <1>12, NewNamesAfter
<1>14. Standing(d, w, "level", "main")
  BY <1>5, <1>10, <1>11, <1>12, NamesStand
<1>15. After(c1, d)
  <2>1. After(c1, c3)
    BY <1>6, <1>8, <1>10, Transitive
  <2>. QED BY <1>6, <1>13, <2>1, Transitive
<1>. QED BY <1>6, <1>14, <1>15 DEF After

\* HALT is the last instruction.
LEMMA HaltStands ==
  ASSUME NEW c \in CC, In(c.block) = "main", NEW w, Standing(c, w, "level", In(c.block)),
         NEW d, d = Emit(c, "HALT", <<>>, <<>>, <<>>)
  PROVE  After(c, d) /\ Standing(d, w, "level", "main") /\ d.code[Len(d.code)].op = "HALT"
<1>1. After(c, d)
  <2>1. PICK op \in Opcodes : op = "HALT"
    BY Shapes
  <2>2. Shape(op)[1] = "-" /\ Shape(op)[2] = "-" /\ Shape(op)[3] = "-"
    BY <2>1, Shapes
  <2>3. d = Emit(c, op, <<>>, <<>>, <<>>)
    BY <2>1
  <2>. QED BY <2>2, <2>3, BareAfter
<1>2. PICK i : i = [op |-> "HALT", dest |-> <<>>, src0 |-> <<>>, src1 |-> <<>>,
                    block |-> c.block, item |-> c.item]
  OBVIOUS
<1>3. Departs("level", In(c.block), i) /\ Targets(i) = {} /\ ~IsMarker(i) /\ i.op = "HALT"
  BY <1>2 DEF Departs, Targets, IsMarker
<1>4. Step(w.saved, "level", In(c.block), i, "level", "main")
  BY <1>3 DEF Step
<1>5. "level" \in Stages /\ "level" \notin AtEnds /\ d \in CC /\ "main" \in {"fun", "main"}
  BY <1>1 DEF Stages, AtEnds, After
<1>6. d = Emit(c, "HALT", <<>>, <<>>, <<>>)
  OBVIOUS
<1>7. Standing(d, w, "level", "main")
  BY <1>1, <1>2, <1>3, <1>4, <1>5, <1>6, EmitStands, SMTT(40)
<1>8. d.code[Len(d.code)] = i
  <2>1. d.code = Append(c.code, i)
    BY <1>2, <1>6 DEF Emit, CC
  <2>. QED BY <2>1, Fields
<1>. QED BY <1>1, <1>3, <1>7, <1>8

\* The end of the main block.
LEMMA MainEndStands ==
  ASSUME NEW c \in CC, In(c.block) = "main", NEW w, Standing(c, w, "level", "main"),
         NEW d, d = Emit(EmitLabel(c, Tok("halt", 0)), "HALT", <<>>, <<>>, <<>>)
  PROVE  /\ After(c, d) /\ Standing(d, w, "level", "main") /\ d.code[Len(d.code)].op = "HALT"
<1>1. PICK e, halt : halt = Tok("halt", 0) /\ e = EmitLabel(c, halt)
  OBVIOUS
<1>2. halt \in TokenOf(Int) /\ LabelOf(halt) = "main" /\ halt.t # "prologue"
  BY <1>1, LabelToken DEF Tok, Labels, LabelOf
<1>3. After(c, e)
  BY <1>1, <1>2, LabelAfter
<1>4. e \in CC /\ In(e.block) = "main"
  BY <1>3 DEF After
<1>5. Standing(e, w, "level", LabelOf(halt))
  <2>1. Standing(c, w, "level", LabelOf(halt)) /\ (halt.t = "prologue" => w.marker = Len(c.code) + 1)
    BY <1>2
  <2>. QED BY <1>1, <1>2, <2>1, LabelStands
<1>6. d = Emit(e, "HALT", <<>>, <<>>, <<>>)
  BY <1>1
<1>7. After(e, d) /\ Standing(d, w, "level", "main") /\ d.code[Len(d.code)].op = "HALT"
  <2>1. Standing(e, w, "level", In(e.block))
    BY <1>2, <1>4, <1>5
  <2>. QED BY <1>4, <1>6, <2>1, HaltStands
<1>8. After(c, d)
  BY <1>3, <1>7, Transitive
<1>. QED BY <1>7, <1>8

\* ---- the code in every phase --------------------------------------------------------------

FunStands(c, items) ==
  /\ Len(c.code) > 0 /\ c.code[1].op # "LABEL"
  /\ \A q : Standing(c, Outline(q, Waited("fun", items, c.item) \cup Leaves), "level", "fun")
MainAt(c, pending) ==
  /\ Len(c.code) > 1 /\ c.code[1].op # "LABEL"
  /\ \E P \in Nat : Standing(c, Joined(c.saved, P, pending), "level", "main")
Compiles ==
  /\ phase = "function" => cc = NoCode
  /\ phase = "fun" => FunStands(cc, src.fun)
  /\ phase = "program" => MainAt(cc, {})
  /\ phase = "main" => MainAt(cc, Waited("main", src.main, cc.item))
  /\ phase = "output" => MainAt(cc, {}) /\ cc.code[Len(cc.code)].op = "HALT"

\* The header of the function,
LEMMA HeaderCompiles ==
  ASSUME IInv, Compiles, FunctionHeader
  PROVE  Compiles'
<1>1. /\ src' = src /\ phase' = "fun" /\ phase = "function" /\ cc = NoCode
      /\ cc' = [HeaderCode(NoCode) EXCEPT !.item = 1]
  BY DEF FunctionHeader, Compile, Compiles
<1>2. Accepted(src) /\ cc \in CC
  BY <1>1 DEF IInv, Compiling
<1>3. PICK d, e : d = HeaderCode(NoCode) /\ e = cc'
  OBVIOUS
<1>4. d \in CC
  BY <1>1, <1>2, <1>3, HeaderAfter
<1>5. e.code = d.code /\ e.pool = d.pool /\ e.usage = d.usage /\ e.names = d.names
  BY <1>1, <1>3, <1>4 DEF CC
<1>6. ASSUME NEW q PROVE Standing(e, Outline(q, Waited("fun", src.fun, e.item) \cup Leaves), "level", "fun")
  <2>1. PICK w, pending : /\ pending = Waited("fun", src.fun, e.item) \cup Leaves
                          /\ w = Outline(q, pending)
    OBVIOUS
  <2>2. Tok("skip", 0) \in pending
    BY <2>1 DEF Leaves
  <2>3. Standing(d, w, "level", "fun")
    BY <1>2, <1>3, <2>1, <2>2, HeaderStands
  <2>4. Standing(e, w, "level", "fun")
    BY <1>5, <2>3, MovedOn
  <2>. QED BY <2>1, <2>4
<1>7. Len(d.code) > 0 /\ d.code[1].op # "LABEL"
  <2>1. PICK q, pending : q = <<>> /\ pending = Leaves
    OBVIOUS
  <2>2. Tok("skip", 0) \in pending
    BY <2>1 DEF Leaves
  <2>. QED BY <1>2, <1>3, <2>2, HeaderStands
<1>8. FunStands(e, src.fun)
  BY <1>5, <1>6, <1>7 DEF FunStands
<1>9. FunStands(cc', src'.fun)
  BY <1>1, <1>3, <1>8
<1>. QED BY <1>1, <1>9 DEF Compiles

\* Behind an item the code stands where it stood in front of it.
LEMMA ItemCompiles ==
  ASSUME IInv, CodeItem, phase' # "error",
         NEW items, items = IF phase = "fun" THEN src.fun ELSE src.main,
         NEW rest, phase = "fun" => Tok("leave", 0) \in rest,
         NEW w, w.pending = Waited(phase, items, cc.item) \cup rest, phase = "fun" => ~w.done,
         Standing(cc, w, "level", In(phase))
  PROVE  /\ src' = src /\ phase' = phase /\ cc'.item = cc.item + 1
         /\ Standing(cc', Awaiting(w, Waited(phase, items, cc.item + 1) \cup rest), "level", In(phase))
         /\ cc'.saved = cc.saved
         /\ Len(cc.code) <= Len(cc'.code) /\ \A n \in 1 .. Len(cc.code) : cc'.code[n] = cc.code[n]
<1>1. src' = src /\ phase \in {"fun", "main"}
  BY DEF CodeItem, Compile
<1>2. Accepted(src) /\ cc \in CC
  BY <1>1 DEF IInv, Compiling
<1>3. /\ src.ret \in {"I", "R"} /\ Len(src.fun) \in Nat /\ Len(src.main) \in Nat
      /\ DOMAIN src.fun = 1 .. Len(src.fun) /\ DOMAIN src.main = 1 .. Len(src.main)
  BY <1>2, Formed
<1>5. PICK j \in Nat \ {0} : j = cc.item /\ j \in DOMAIN items
  <2>1. cc.item \in DOMAIN items
    BY DEF CodeItem
  <2>2. DOMAIN items \subseteq Nat \ {0}
    BY <1>3
  <2>. QED BY <2>1, <2>2
<1>6. PICK known : known = Known(IF phase = "fun" THEN Declared ELSE InMain, items, j)
  OBVIOUS
<1>7. /\ (phase = "fun" => InFun(cc)) /\ (phase = "main" => InTheMain(cc))
  BY DEF IInv
<1>8. known \subseteq DOMAIN cc.names /\ cc.block = phase
  BY <1>1, <1>5, <1>6, <1>7 DEF InFun, InTheMain
<1>10. AcceptedItem(items, j, known)
  BY <1>1, <1>2, <1>5, <1>6, Formed
<1>11. ~Mismatch(cc, items[j])
  BY <1>5 DEF CodeItem, Compile
<1>12. phase' = phase /\ cc' = [ItemCode(cc, items[j]) EXCEPT !.item = j + 1]
  BY <1>5, <1>11 DEF CodeItem, Compile
<1>13. items[j].dest \in AllNames
  BY <1>1, <1>5 DEF AllNames, Results
<1>14. items[j].kind = "return" => phase = "fun"
  BY <1>1, <1>2, <1>5 DEF Accepted
<1>15. PICK c \in CC : c = cc
  BY <1>2
<1>16. /\ c.block \in {"fun", "main"} /\ c.item = j /\ known \subseteq DOMAIN c.names
       /\ items = IF c.block = "fun" THEN src.fun ELSE src.main
       /\ ~Mismatch(c, items[j]) /\ w.pending = Waited(c.block, items, j) \cup rest
       /\ Standing(c, w, "level", In(c.block))
  BY <1>1, <1>5, <1>8, <1>11, <1>15
<1>17. /\ items[j].kind = "return" => c.block = "fun" /\ Tok("leave", 0) \in rest
       /\ c.block \in FunBlocks => ~w.done
  BY <1>8, <1>14, <1>15, <1>16 DEF FunBlocks
<1>18. PICK d : d = [ItemCode(c, items[j]) EXCEPT !.item = j + 1]
  OBVIOUS
<1>19. Len(items) \in Nat
  BY <1>3
<1>20. Standing(d, Awaiting(w, Waited(c.block, items, j + 1) \cup rest), "level", In(c.block))
  BY <1>3, <1>5, <1>10, <1>13, <1>16, <1>17, <1>18, <1>19, NextItemStands
<1>21. PICK e : e = ItemCode(c, items[j])
  OBVIOUS
<1>22. After(c, e)
  BY <1>3, <1>5, <1>10, <1>13, <1>16, <1>21, ItemAfter
<1>23. e \in CC
  BY <1>22 DEF After
<1>24. After(e, d) /\ d.item = j + 1
  <2>1. PICK n \in Int : n = j + 1
    OBVIOUS
  <2>2. d = [e EXCEPT !.item = n]
    BY <1>18, <1>21, <2>1
  <2>. QED BY <1>23, <2>1, <2>2, Numbered
<1>25. After(c, d)
  BY <1>22, <1>24, Transitive
<1>26. d = cc'
  BY <1>12, <1>15, <1>18
<1>. QED BY <1>1, <1>5, <1>8, <1>12, <1>15, <1>20, <1>24, <1>25, <1>26 DEF After

\* Items,
LEMMA CodeItemCompiles ==
  ASSUME IInv, Compiles, CodeItem
  PROVE  Compiles'
<1>1. phase \in {"fun", "main"} /\ phase' \in {phase, "error"}
  BY DEF CodeItem, Compile
<1>2. CASE phase' = "error"
  BY <1>2 DEF Compiles
<1>3. PICK e : e = cc'
  OBVIOUS
<1>4. CASE phase' # "error" /\ phase = "fun"
  <2>1. PICK items : items = src.fun
    OBVIOUS
  <2>2. FunStands(cc, items)
    BY <1>4, <2>1 DEF Compiles
  <2>3. Tok("leave", 0) \in Leaves /\ In(phase) = "fun" /\ Len(cc.code) \in Nat
    BY <1>4, Fields DEF Leaves, In, FunBlocks, IInv, Compiling
  <2>4. ASSUME NEW q
        PROVE  /\ src' = src /\ phase' = phase /\ e.item = cc.item + 1
               /\ Standing(e, Outline(q, Waited("fun", items, cc.item + 1) \cup Leaves), "level", "fun")
               /\ Len(cc.code) <= Len(e.code) /\ \A n \in 1 .. Len(cc.code) : e.code[n] = cc.code[n]
    <3>1. PICK w : w = Outline(q, Waited("fun", items, cc.item) \cup Leaves)
      OBVIOUS
    <3>2. Standing(cc, w, "level", In(phase))
      BY <2>2, <2>3, <3>1 DEF FunStands
    <3>3. w.pending = Waited(phase, items, cc.item) \cup Leaves /\ ~w.done
      BY <1>4, <3>1 DEF Outline
    <3>4. items = IF phase = "fun" THEN src.fun ELSE src.main
      BY <1>4, <2>1
    <3>5. /\ src' = src /\ phase' = phase /\ cc'.item = cc.item + 1
          /\ Standing(cc', Awaiting(w, Waited(phase, items, cc.item + 1) \cup Leaves), "level", In(phase))
          /\ Len(cc.code) <= Len(cc'.code) /\ \A n \in 1 .. Len(cc.code) : cc'.code[n] = cc.code[n]
      BY <1>4, <2>3, <3>2, <3>3, <3>4, ItemCompiles
    <3>6. Awaiting(w, Waited("fun", items, cc.item + 1) \cup Leaves) =
            Outline(q, Waited("fun", items, cc.item + 1) \cup Leaves)
      BY <3>1 DEF Awaiting, Outline
    <3>. QED BY <1>3, <1>4, <2>3, <3>5, <3>6
  <2>5. src' = src /\ phase' = phase /\ e.item = cc.item + 1
    BY <2>4
  <2>6. e.code[1] = cc.code[1] /\ Len(e.code) > 0
    <3>1. Len(cc.code) <= Len(e.code) /\ \A n \in 1 .. Len(cc.code) : e.code[n] = cc.code[n]
      BY <2>4
    <3>2. 1 \in 1 .. Len(cc.code) /\ Len(e.code) \in Int
      BY <2>2, <2>3, <1>4, CodeItemIInv, <1>3 DEF FunStands
    <3>. QED BY <2>2, <2>3, <3>1, <3>2 DEF FunStands
  <2>7. FunStands(e, items)
    BY <2>2, <2>4, <2>5, <2>6 DEF FunStands
  <2>. QED BY <1>3, <1>4, <2>1, <2>5, <2>7 DEF Compiles
<1>5. CASE phase' # "error" /\ phase = "main"
  <2>1. PICK items : items = src.main
    OBVIOUS
  <2>2. MainAt(cc, Waited("main", items, cc.item))
    BY <1>5, <2>1 DEF Compiles
  <2>3. PICK P \in Nat : Standing(cc, Joined(cc.saved, P, Waited("main", items, cc.item)), "level", "main")
    BY <2>2 DEF MainAt
  <2>4. In(phase) = "main" /\ Len(cc.code) \in Nat
    BY <1>5, Fields DEF In, FunBlocks, IInv, Compiling
  <2>5. PICK w, none : /\ w = Joined(cc.saved, P, Waited("main", items, cc.item))
                       /\ none = {}
    OBVIOUS
  <2>6. Standing(cc, w, "level", In(phase)) /\ w.pending = Waited(phase, items, cc.item) \cup none
    BY <1>5, <2>3, <2>4, <2>5 DEF Joined
  <2>7. items = IF phase = "fun" THEN src.fun ELSE src.main
    BY <1>5, <2>1
  <2>8. /\ src' = src /\ phase' = phase /\ cc'.item = cc.item + 1 /\ cc'.saved = cc.saved
        /\ Standing(cc', Awaiting(w, Waited(phase, items, cc.item + 1) \cup none), "level", In(phase))
        /\ Len(cc.code) <= Len(cc'.code) /\ \A n \in 1 .. Len(cc.code) : cc'.code[n] = cc.code[n]
    BY <1>5, <2>6, <2>7, ItemCompiles
  <2>9. Awaiting(w, Waited("main", items, e.item) \cup none) =
          Joined(e.saved, P, Waited("main", items, e.item))
    BY <1>3, <2>5, <2>8 DEF Awaiting, Joined
  <2>10. Standing(e, Joined(e.saved, P, Waited("main", items, e.item)), "level", "main")
    BY <1>3, <1>5, <2>4, <2>8, <2>9
  <2>11. Len(e.code) > 1 /\ e.code[1] = cc.code[1]
    <3>1. 1 \in 1 .. Len(cc.code) /\ Len(cc.code) > 1
      BY <2>2, <2>4 DEF MainAt
    <3>2. Len(e.code) \in Int
      BY <1>3, <1>5, CodeItemIInv, Fields DEF IInv, Compiling
    <3>. QED BY <1>3, <2>4, <2>8, <3>1, <3>2
  <2>12. MainAt(e, Waited("main", items, e.item))
    BY <2>2, <2>10, <2>11 DEF MainAt
  <2>. QED BY <1>3, <1>5, <2>1, <2>8, <2>12 DEF Compiles
<1>. QED BY <1>1, <1>2, <1>4, <1>5

\* Behind the last item nothing is waited for.
LEMMA NoneWaited ==
  ASSUME NEW block, NEW items, Len(items) \in Nat
  PROVE  Waited(block, items, Len(items) + 1) = {}
<1>1. PICK j : j = Len(items) + 1
  OBVIOUS
<1>2. j .. Len(items) = {}
  BY <1>1
<1>. QED BY <1>1, <1>2 DEF Waited

\* the end of the function,
LEMMA FunctionEndCompiles ==
  ASSUME IInv, Compiles, FunctionEnd
  PROVE  Compiles'
<1>1. phase = "fun" /\ cc.item = Len(src.fun) + 1 /\ phase' = "program" /\ cc' = FunctionEndCode(cc)
  BY DEF FunctionEnd, Compile
<1>2. Accepted(src) /\ cc \in CC /\ HasPrologue(cc)
  BY <1>1 DEF IInv, Compiling, InFun
<1>3. Waited("fun", src.fun, cc.item) \cup Leaves = Leaves
  <2>1. Len(src.fun) \in Nat
    BY <1>2, Formed
  <2>. QED BY <1>1, <2>1, NoneWaited
<1>4. FunStands(cc, src.fun)
  BY <1>1 DEF Compiles
<1>5. PICK q, d : q = Saved(cc) /\ d = FunctionEndCode(cc)
  OBVIOUS
<1>6. Standing(cc, Outline(q, Leaves), "level", "fun") /\ cc.code[1].op # "LABEL"
  BY <1>3, <1>4 DEF FunStands
<1>7. PICK c \in CC : c = cc
  BY <1>2
<1>8. /\ \E P \in Nat : Standing(d, Joined(q, P, {}), "level", "main")
      /\ d.saved = q /\ Len(d.code) > 1 /\ d.code[1].op # "LABEL"
  BY <1>2, <1>5, <1>6, <1>7, FunctionEndStands
<1>9. MainAt(d, {})
  BY <1>8 DEF MainAt
<1>. QED BY <1>1, <1>5, <1>9 DEF Compiles

\* the header of the main block,
LEMMA MainHeaderCompiles ==
  ASSUME IInv, Compiles, MainHeader
  PROVE  Compiles'
<1>1. /\ src' = src /\ phase = "program" /\ phase' = "main"
      /\ cc' = [MainCode(cc) EXCEPT !.item = 1]
  BY DEF MainHeader, Compile
<1>2. Accepted(src) /\ cc \in CC
  BY <1>1 DEF IInv, Compiling
<1>3. MainAt(cc, {})
  BY <1>1 DEF Compiles
<1>4. PICK P \in Nat : Standing(cc, Joined(cc.saved, P, {}), "level", "main")
  BY <1>3 DEF MainAt
<1>5. PICK d, e, w : d = MainCode(cc) /\ e = cc' /\ w = Joined(cc.saved, P, {})
  OBVIOUS
<1>6. PICK c \in CC : c = cc
  BY <1>2
<1>7. /\ Standing(d, w, "level", "main") /\ d.saved = c.saved
      /\ Len(c.code) <= Len(d.code) /\ \A n \in 1 .. Len(c.code) : d.code[n] = c.code[n]
  BY <1>2, <1>4, <1>5, <1>6, MainStands
<1>8. d \in CC
  BY <1>2, <1>5, MainAfter
<1>9. /\ e.code = d.code /\ e.pool = d.pool /\ e.usage = d.usage /\ e.names = d.names
      /\ e.saved = c.saved /\ e.item = 1
  BY <1>1, <1>5, <1>7, <1>8 DEF CC
<1>10. PICK pending : pending = Waited("main", src.main, e.item)
  OBVIOUS
<1>11. Standing(e, w, "level", "main")
  BY <1>7, <1>9, MovedOn
<1>12. Standing(e, Awaiting(w, pending), "level", "main")
  <2>1. \A l \in w.pending : l \in pending \/ HasLabel(e, l)
    BY <1>5 DEF Joined
  <2>. QED BY <1>11, <2>1, AwaitingStands
<1>13. Awaiting(w, pending) = Joined(e.saved, P, pending)
  BY <1>5, <1>6, <1>9 DEF Awaiting, Joined
<1>14. Len(e.code) > 1 /\ e.code[1].op # "LABEL"
  <2>1. Len(c.code) > 1 /\ c.code[1].op # "LABEL"
    BY <1>3, <1>6 DEF MainAt
  <2>2. Len(c.code) \in Nat /\ Len(d.code) \in Nat
    BY <1>8, Fields
  <2>3. 1 \in 1 .. Len(c.code)
    BY <2>1, <2>2
  <2>. QED BY <1>7, <1>9, <2>1, <2>2, <2>3
<1>15. MainAt(e, pending)
  BY <1>12, <1>13, <1>14 DEF MainAt
<1>. QED BY <1>1, <1>5, <1>10, <1>15 DEF Compiles

\* and its end.
LEMMA MainEndCompiles ==
  ASSUME IInv, Compiles, MainEnd
  PROVE  Compiles'
<1>1. /\ phase = "main" /\ cc.item = Len(src.main) + 1 /\ phase' = "output"
      /\ cc' = Emit(EmitLabel(cc, Tok("halt", 0)), "HALT", <<>>, <<>>, <<>>)
  BY DEF MainEnd, Compile
<1>2. Accepted(src) /\ cc \in CC /\ cc.block = "main"
  BY <1>1 DEF IInv, Compiling, InTheMain
<1>3. Waited("main", src.main, cc.item) = {}
  <2>1. Len(src.main) \in Nat
    BY <1>2, Formed
  <2>. QED BY <1>1, <2>1, NoneWaited
<1>4. MainAt(cc, {})
  BY <1>1, <1>3 DEF Compiles
<1>5. PICK P \in Nat : Standing(cc, Joined(cc.saved, P, {}), "level", "main")
  BY <1>4 DEF MainAt
<1>6. PICK c, d, w : /\ c \in CC /\ c = cc /\ w = Joined(cc.saved, P, {})
                    /\ d = Emit(EmitLabel(c, Tok("halt", 0)), "HALT", <<>>, <<>>, <<>>)
  BY <1>2
<1>7. In(c.block) = "main" /\ Standing(c, w, "level", "main")
  BY <1>2, <1>5, <1>6 DEF In, FunBlocks
<1>8. /\ After(c, d) /\ Standing(d, w, "level", "main") /\ d.code[Len(d.code)].op = "HALT"
  BY <1>6, <1>7, MainEndStands
<1>9. Len(d.code) > 1 /\ d.code[1].op # "LABEL" /\ d.saved = c.saved
  <2>1. Len(c.code) > 1 /\ c.code[1].op # "LABEL"
    BY <1>4, <1>6 DEF MainAt
  <2>2. Len(c.code) \in Nat /\ Len(d.code) \in Nat
    BY <1>8, Fields DEF After
  <2>3. 1 \in 1 .. Len(c.code)
    BY <2>1, <2>2
  <2>. QED BY <1>8, <2>1, <2>2, <2>3 DEF After
<1>10. MainAt(d, {})
  BY <1>6, <1>8, <1>9 DEF MainAt
<1>. QED BY <1>1, <1>6, <1>8, <1>10 DEF Compiles

\* ---- the lines of the file --------------------------------------------------------------

\* C[i] of the first i instructions are not LABELs.
Counts(C, q, N) ==
  /\ C \in [0 .. N -> Nat] /\ C[0] = 0
  /\ \A i \in 1 .. N : C[i] = C[i - 1] + IF q[i].op = "LABEL" THEN 0 ELSE 1

\* One instruction further.
LEMMA CountsNext ==
  ASSUME NEW C, NEW q, NEW N \in Nat, Counts(C, q, N), NEW i \in 1 .. N
  PROVE  /\ C[i] \in Nat /\ C[i - 1] \in Nat
         /\ q[i].op = "LABEL" => C[i] = C[i - 1]
         /\ q[i].op # "LABEL" => C[i] = C[i - 1] + 1
<1>1. i \in 0 .. N /\ i - 1 \in 0 .. N
  OBVIOUS
<1>. QED BY <1>1 DEF Counts

\* The numbers depend on nothing else.
LEMMA CountsUnique ==
  ASSUME NEW C, NEW q, NEW N \in Nat, Counts(C, q, N),
         NEW D, NEW p, NEW K \in 0 .. N, Counts(D, p, K),
         \A i \in 1 .. K : p[i].op = "LABEL" <=> q[i].op = "LABEL"
  PROVE  \A i \in 0 .. K : D[i] = C[i]
<1>1. PICK B : B = {i \in 0 .. K : D[i] = C[i]}
  OBVIOUS
<1>2. 0 \in B
  BY <1>1 DEF Counts
<1>3. ASSUME NEW i \in 1 .. K, i - 1 \in B PROVE i \in B
  <2>1. D[i - 1] = C[i - 1] /\ i \in 0 .. K /\ i \in 1 .. N
    BY <1>1, <1>3
  <2>2. D[i] = C[i]
    BY <2>1, CountsNext
  <2>. QED BY <1>1, <2>1, <2>2
<1>4. \A i \in 0 .. K : i \in B
  BY <1>2, <1>3, Counted
<1>. QED BY <1>1, <1>4

\* They grow,
LEMMA CountsGrow ==
  ASSUME NEW C, NEW q, NEW N \in Nat, Counts(C, q, N), NEW i \in 0 .. N
  PROVE  \A j \in i .. N : C[i] <= C[j]
<1>1. PICK B : B = {j \in 0 .. N : i <= j => C[i] <= C[j]}
  OBVIOUS
<1>2. \A j \in 0 .. N : C[j] \in Nat
  BY DEF Counts
<1>3. 0 \in B
  BY <1>1, <1>2
<1>4. ASSUME NEW j \in 1 .. N, j - 1 \in B PROVE j \in B
  <2>1. j \in 0 .. N /\ j - 1 \in 0 .. N
    OBVIOUS
  <2>2. C[j - 1] <= C[j] /\ C[j] \in Nat /\ C[j - 1] \in Nat /\ C[i] \in Nat
    BY <1>2, <2>1, CountsNext
  <2>3. i <= j => C[i] <= C[j]
    <3>1. CASE i <= j - 1
      BY <1>1, <1>4, <2>2, <3>1
    <3>2. CASE i = j
      BY <2>2, <3>2
    <3>. QED BY <3>1, <3>2
  <2>. QED BY <1>1, <2>1, <2>3
<1>5. \A j \in 0 .. N : j \in B
  BY <1>3, <1>4, Counted
<1>. QED BY <1>1, <1>5

\* and an instruction has its number for itself.
LEMMA CountsApart ==
  ASSUME NEW C, NEW q, NEW N \in Nat, Counts(C, q, N), NEW i \in 1 .. N, NEW j \in 1 .. N,
         q[i].op # "LABEL", q[j].op # "LABEL", C[i] = C[j]
  PROVE  i = j
<1>1. ASSUME NEW a \in 1 .. N, NEW b \in 1 .. N, a < b, q[b].op # "LABEL" PROVE C[a] < C[b]
  <2>1. a \in 0 .. N /\ b - 1 \in a .. N
    BY <1>1
  <2>2. C[a] <= C[b - 1]
    BY <2>1, CountsGrow
  <2>3. C[b] = C[b - 1] + 1 /\ C[b - 1] \in Nat /\ C[a] \in Nat
    BY <1>1, CountsNext
  <2>. QED BY <2>2, <2>3
<1>2. C[i] \in Nat /\ C[j] \in Nat
  BY CountsNext
<1>. QED BY <1>1, <1>2

\* Every number is that of an instruction.
LEMMA CountsAll ==
  ASSUME NEW C, NEW q, NEW N \in Nat, Counts(C, q, N), NEW l \in 1 .. C[N]
  PROVE  \E i \in 1 .. N : q[i].op # "LABEL" /\ C[i] = l
<1>1. \A j \in 0 .. N : C[j] \in Nat
  BY DEF Counts
<1>2. PICK T : T = {i \in 0 .. N : l <= C[i]}
  OBVIOUS
<1>3. N \in T /\ T \subseteq Nat
  BY <1>1, <1>2
<1>4. PICK i \in T : \A j \in T : i <= j
  BY <1>3, Smallest
<1>5. C[0] = 0
  BY DEF Counts
<1>6. i \in 1 .. N
  BY <1>2, <1>5
<1>7. i - 1 \notin T /\ i - 1 \in 0 .. N
  BY <1>4, <1>6
<1>8. C[i - 1] < l /\ l <= C[i]
  BY <1>1, <1>2, <1>6, <1>7
<1>9. q[i].op # "LABEL" /\ C[i] = l
  BY <1>6, <1>8, CountsNext
<1>. QED BY <1>6, <1>9

\* An instruction is on the line of its number.
LEMMA SizedLines ==
  ASSUME NEW S, NEW q, NEW N \in Nat, Len(q) = N, DOMAIN q = 1 .. N, \A i \in 1 .. N : q[i] \in S,
         NEW s, s = Sized(q)
  PROVE  \E C : /\ Counts(C, q, N) /\ s \in Seq(S) /\ Len(s) = C[N]
                /\ \A i \in 1 .. N : q[i].op # "LABEL" => s[C[i]] = q[i]
<1>1. PICK seqs : seqs = [n \in 1 .. N |-> IF q[n].op = "LABEL" THEN <<>> ELSE <<q[n]>>]
  OBVIOUS
<1>2. s = FlattenSeq(seqs) /\ Len(seqs) = N
  BY <1>1 DEF Sized
<1>3. ASSUME NEW n \in 1 .. N PROVE seqs[n] \in Seq(S)
  <2>1. CASE q[n].op = "LABEL"
    BY <1>1, <2>1, None
  <2>2. CASE q[n].op # "LABEL"
    BY <1>1, <2>2, One
  <2>. QED BY <2>1, <2>2
<1>4. N = 0 => seqs = <<>>
  BY <1>1
<1>5. Parts(S, seqs, N)
  BY <1>2, <1>3, <1>4 DEF Parts
<1>6. PICK F \in [0 .. N -> Seq(S)] : Joins(F, seqs, N)
  BY <1>5, Flattened
<1>7. /\ F[0] = <<>> /\ s = F[N] /\ \A i \in 1 .. N : F[i] = F[i - 1] \o seqs[i]
  BY <1>2, <1>6 DEF Joins
<1>8. PICK C : C = [i \in 0 .. N |-> Len(F[i])]
  OBVIOUS
<1>9. \A i \in 0 .. N : F[i] \in Seq(S) /\ C[i] = Len(F[i]) /\ C[i] \in Nat
  BY <1>6, <1>8
<1>10. ASSUME NEW i \in 1 .. N
       PROVE  /\ q[i].op = "LABEL" => F[i] = F[i - 1]
              /\ q[i].op # "LABEL" => F[i] = Append(F[i - 1], q[i])
  <2>1. i \in 0 .. N /\ i - 1 \in 0 .. N
    OBVIOUS
  <2>2. PICK f \in Seq(S) : f = F[i - 1]
    BY <1>9, <2>1
  <2>3. F[i] = f \o seqs[i]
    BY <1>7, <2>2
  <2>4. f \o <<>> = f
    BY ConcatEmptySeq
  <2>5. PICK x \in S : x = q[i]
    OBVIOUS
  <2>6. f \o <<x>> = Append(f, x)
    BY AppendIsConcat
  <2>. QED BY <1>1, <2>2, <2>3, <2>4, <2>5, <2>6
<1>11. ASSUME NEW i \in 1 .. N
       PROVE  /\ C[i] = C[i - 1] + IF q[i].op = "LABEL" THEN 0 ELSE 1
              /\ q[i].op # "LABEL" => F[i][C[i]] = q[i]
              /\ C[i - 1] <= C[i] /\ \A n \in 1 .. C[i - 1] : F[i][n] = F[i - 1][n]
  <2>1. i \in 0 .. N /\ i - 1 \in 0 .. N
    OBVIOUS
  <2>2. PICK f \in Seq(S), x \in S : f = F[i - 1] /\ x = q[i]
    BY <1>9, <2>1
  <2>3. /\ Len(Append(f, x)) = Len(f) + 1 /\ Append(f, x)[Len(f) + 1] = x /\ Len(f) \in Nat
        /\ \A n \in 1 .. Len(f) : Append(f, x)[n] = f[n]
    OBVIOUS
  <2>4. C[i - 1] = Len(f) /\ C[i] = Len(F[i])
    BY <1>9, <2>1, <2>2
  <2>5. CASE q[i].op = "LABEL"
    BY <1>10, <2>2, <2>3, <2>4, <2>5, SMTT(40)
  <2>6. CASE q[i].op # "LABEL"
    <3>1. F[i] = Append(f, x)
      BY <1>10, <2>2, <2>6
    <3>2. C[i] = Len(f) + 1
      BY <2>3, <2>4, <3>1
    <3>3. F[i][C[i]] = q[i]
      BY <2>2, <2>3, <3>1, <3>2
    <3>4. \A n \in 1 .. C[i - 1] : F[i][n] = F[i - 1][n]
      BY <2>2, <2>3, <2>4, <3>1
    <3>. QED BY <2>3, <2>4, <2>6, <3>2, <3>3, <3>4
  <2>. QED BY <2>5, <2>6
<1>12. Counts(C, q, N)
  <2>1. C \in [0 .. N -> Nat]
    BY <1>8, <1>9
  <2>2. C[0] = 0
    BY <1>7, <1>8
  <2>. QED BY <1>11, <2>1, <2>2 DEF Counts
<1>13. ASSUME NEW i \in 1 .. N, q[i].op # "LABEL" PROVE s[C[i]] = q[i]
  <2>1. PICK B : B = {j \in 0 .. N : i <= j => C[i] <= C[j] /\ F[j][C[i]] = q[i]}
    OBVIOUS
  <2>2. 0 \in B
    BY <2>1
  <2>3. ASSUME NEW j \in 1 .. N, j - 1 \in B PROVE j \in B
    <3>1. j \in 0 .. N /\ j - 1 \in 0 .. N /\ i \in 0 .. N /\ i - 1 \in 0 .. N
      OBVIOUS
    <3>2. C[j] \in Nat /\ C[j - 1] \in Nat /\ C[i] \in Nat /\ C[i - 1] \in Nat
      BY <1>9, <3>1
    <3>3. CASE i = j
      BY <1>11, <1>13, <2>1, <3>1, <3>2, <3>3
    <3>4. CASE i <= j - 1
      <4>1. C[i] <= C[j - 1] /\ F[j - 1][C[i]] = q[i]
        BY <2>1, <2>3, <3>4
      <4>2. C[i] = C[i - 1] + 1
        BY <1>11, <1>13
      <4>3. C[i] \in 1 .. C[j - 1]
        BY <3>2, <4>1, <4>2
      <4>4. C[j - 1] <= C[j] /\ F[j][C[i]] = F[j - 1][C[i]]
        BY <1>11, <4>3
      <4>5. C[i] <= C[j] /\ F[j][C[i]] = q[i]
        BY <3>2, <4>1, <4>4, SMTT(40)
      <4>. QED BY <2>1, <3>1, <4>5
    <3>5. CASE i > j
      BY <2>1, <3>1, <3>5
    <3>. QED BY <3>3, <3>4, <3>5
  <2>4. \A j \in 0 .. N : j \in B
    BY <2>2, <2>3, Counted
  <2>5. N \in B
    BY <2>4
  <2>. QED BY <1>7, <2>1, <2>5
<1>14. s \in Seq(S) /\ Len(s) = C[N]
  BY <1>7, <1>9
<1>. QED BY <1>12, <1>13, <1>14

\* The places of the instructions that are not LABELs.
Places(pos, C, q, N) ==
  /\ pos \in [1 .. C[N] -> 1 .. N]
  /\ \A l \in 1 .. C[N] : q[pos[l]].op # "LABEL" /\ C[pos[l]] = l
  /\ \A i \in 1 .. N : q[i].op # "LABEL" => C[i] \in 1 .. C[N] /\ pos[C[i]] = i
\* Every line is the line of one instruction.
LEMMA Placed ==
  ASSUME NEW C, NEW q, NEW N \in Nat, Counts(C, q, N)
  PROVE  \E pos : Places(pos, C, q, N)
<1>1. PICK pos : pos = [l \in 1 .. C[N] |-> CHOOSE i \in 1 .. N : q[i].op # "LABEL" /\ C[i] = l]
  OBVIOUS
<1>2. ASSUME NEW l \in 1 .. C[N] PROVE pos[l] \in 1 .. N /\ q[pos[l]].op # "LABEL" /\ C[pos[l]] = l
  <2>1. \E i \in 1 .. N : q[i].op # "LABEL" /\ C[i] = l
    BY CountsAll
  <2>. QED BY <1>1, <2>1
<1>3. ASSUME NEW i \in 1 .. N, q[i].op # "LABEL" PROVE C[i] \in 1 .. C[N] /\ pos[C[i]] = i
  <2>1. i \in 0 .. N /\ N \in i .. N
    OBVIOUS
  <2>2. C[i] <= C[N]
    BY <2>1, CountsGrow
  <2>3. C[i] = C[i - 1] + 1 /\ C[i - 1] \in Nat
    BY <1>3, CountsNext
  <2>4. C[N] \in Nat
    BY DEF Counts
  <2>5. C[i] \in 1 .. C[N]
    BY <2>2, <2>3, <2>4
  <2>6. PICK j : j = pos[C[i]]
    OBVIOUS
  <2>7. j \in 1 .. N /\ q[j].op # "LABEL" /\ C[j] = C[i]
    BY <1>2, <2>5, <2>6
  <2>8. j = i
    BY <1>3, <2>7, CountsApart
  <2>. QED BY <2>5, <2>6, <2>8
<1>4. pos \in [1 .. C[N] -> 1 .. N]
  BY <1>1, <1>2
<1>. QED BY <1>2, <1>3, <1>4 DEF Places

\* A LABEL changes nothing.
LEMMA LabelPasses ==
  ASSUME NEW q, NEW a, NEW f, NEW i, NEW b, NEW g, Step(q, a, f, i, b, g), i.op = "LABEL"
  PROVE  a = "level" /\ b = a /\ g = f /\ LabelOf(i.src0[1]) = f
<1>1. "LABEL" \notin PlainOps
  BY PlainKinds
<1>2. ~Plain(i)
  BY <1>1 DEF Plain
<1>3. ~Passes(q, a, f, i, b) /\ ~Departs(a, f, i)
  BY <1>2 DEF Passes, Departs, Store, OnSP
<1>. QED BY <1>3 DEF Step, Stays

\* The line that follows instruction n - 1 is in the stage of instruction n.
Settled(at, in, pos, C, N, n) ==
  \E l \in 1 .. C[N] : l = C[n - 1] + 1 /\ at[pos[l]] = at[n] /\ in[pos[l]] = in[n]
\* LABELs have no line, and leave the stage as it is.
LEMMA Settles ==
  ASSUME NEW w, NEW code, NEW at, NEW in, Staged(w, code, at, in),
         NEW N \in Nat \ {0}, N = Len(code), code[N].op # "LABEL",
         NEW C, Counts(C, code, N), NEW pos, Places(pos, C, code, N)
  PROVE  \A n \in 1 .. N : Settled(at, in, pos, C, N, n)
<1>1. PICK K \in Nat : K = N - 1
  OBVIOUS
<1>2. PICK B : B = {i \in 0 .. K : Settled(at, in, pos, C, N, N - i)}
  OBVIOUS
<1>3. ASSUME NEW n \in 1 .. N, code[n].op # "LABEL" PROVE Settled(at, in, pos, C, N, n)
  <2>1. C[n] = C[n - 1] + 1
    BY <1>3, CountsNext
  <2>2. C[n] \in 1 .. C[N] /\ pos[C[n]] = n
    BY <1>3 DEF Places
  <2>. QED BY <2>1, <2>2 DEF Settled
<1>4. 0 \in B
  <2>1. N \in 1 .. N /\ N - 0 = N
    OBVIOUS
  <2>2. Settled(at, in, pos, C, N, N)
    BY <1>3, <2>1
  <2>. QED BY <1>1, <1>2, <2>1, <2>2
<1>5. ASSUME NEW i \in 1 .. K, i - 1 \in B PROVE i \in B
  <2>1. PICK n \in 1 .. N : n = N - i
    BY <1>1
  <2>2. n + 1 = N - (i - 1) /\ n + 1 \in 1 .. N /\ n + 1 - 1 = n
    BY <1>1, <2>1
  <2>3. Settled(at, in, pos, C, N, n + 1)
    BY <1>2, <1>5, <2>2
  <2>4. CASE code[n].op = "LABEL"
    <3>1. Step(w.saved, at[n], in[n], code[n], at[n + 1], in[n + 1])
      BY DEF Staged, Ruled
    <3>2. at[n + 1] = at[n] /\ in[n + 1] = in[n]
      BY <2>4, <3>1, LabelPasses
    <3>3. C[n] = C[n - 1]
      BY <2>4, CountsNext
    <3>4. Settled(at, in, pos, C, N, n)
      BY <2>2, <2>3, <3>2, <3>3 DEF Settled
    <3>. QED BY <1>2, <2>1, <3>4
  <2>5. CASE code[n].op # "LABEL"
    BY <1>2, <1>3, <2>1, <2>5
  <2>. QED BY <2>4, <2>5
<1>6. \A i \in 0 .. K : i \in B
  BY <1>4, <1>5, Counted
<1>7. ASSUME NEW n \in 1 .. N PROVE Settled(at, in, pos, C, N, n)
  <2>1. PICK i \in 0 .. K : i = N - n
    BY <1>1
  <2>2. N - i = n
    BY <2>1
  <2>. QED BY <1>2, <1>6, <2>1, <2>2
<1>. QED BY <1>7

\* The value of a list of one,
LEMMA ValuedOne ==
  ASSUME NEW x, NEW p, p = ValuedSeq(<<x>>)
  PROVE  p = <<Value(x)>> /\ (x.t \in {"I", "R", "int", "real"} => p = <<x>>)
<1>1. p = <<Value(x)>>
  BY DEF ValuedSeq
<1>2. x.t \in {"I", "R", "int", "real"} => Value(x) = x
  BY DEF Value, IsConst
<1>. QED BY <1>1, <1>2

\* and of the registers of the convention and of constants.
LEMMA ValuedSame ==
  ASSUME NEW i, NEW v, v.op = i.op, v.dest = i.dest, v.src0 = ValuedSeq(i.src0), v.src1 = ValuedSeq(i.src1)
  PROVE  /\ Plain(i) => Plain(v)
         /\ \A base \in {FP, SP} : \A k : Store(i, base, k) => Store(v, base, k)
         /\ \A op, x, k : OnSP(i, op, x, k) => OnSP(v, op, x, k)
         /\ \A k : i.src0 = <<Const(k)>> => v.src0 = <<Const(k)>>
<1>1. ASSUME NEW k PROVE Const(k).t = "int" /\ FP.t = "I" /\ SP.t = "I"
  BY DEF Const, FP, SP, Tok
<1>2. ASSUME NEW k PROVE ValuedSeq(<<Const(k)>>) = <<Const(k)>>
  <2>1. PICK x, p : x = Const(k) /\ p = ValuedSeq(<<x>>)
    OBVIOUS
  <2>2. x.t \in {"I", "R", "int", "real"}
    BY <1>1, <2>1
  <2>3. p = <<x>>
    BY <2>1, <2>2, ValuedOne
  <2>. QED BY <2>1, <2>3
<1>3. ASSUME NEW base \in {FP, SP} PROVE ValuedSeq(<<base>>) = <<base>>
  <2>1. PICK p : p = ValuedSeq(<<base>>)
    OBVIOUS
  <2>2. base.t \in {"I", "R", "int", "real"}
    BY <1>1
  <2>3. p = <<base>>
    BY <2>1, <2>2, ValuedOne
  <2>. QED BY <2>1, <2>3
<1>4. Plain(i) => Plain(v)
  BY DEF Plain
<1>5. \A base \in {FP, SP} : \A k : Store(i, base, k) => Store(v, base, k)
  BY <1>2, <1>3 DEF Store
<1>6. \A op, x, k : OnSP(i, op, x, k) => OnSP(v, op, x, k)
  BY <1>2, <1>3 DEF OnSP
<1>7. \A k : i.src0 = <<Const(k)>> => v.src0 = <<Const(k)>>
  BY <1>2
<1>. QED BY <1>4, <1>5, <1>6, <1>7

\* An instruction passes on with its labels' values as it did with its labels.
LEMMA ValuedPasses ==
  ASSUME NEW i \in Emitted, NEW q, NEW a, NEW f, NEW b, Passes(q, a, f, i, b), NEW v, v = Valued(i)
  PROVE  Passes(q, a, f, v, b)
<1>1. v.op = i.op /\ v.dest = i.dest /\ v.src0 = ValuedSeq(i.src0) /\ v.src1 = ValuedSeq(i.src1)
  BY ValuedFields
<1>2. /\ Plain(i) => Plain(v)
      /\ \A base \in {FP, SP} : \A k : Store(i, base, k) => Store(v, base, k)
      /\ \A op, x, k : OnSP(i, op, x, k) => OnSP(v, op, x, k)
      /\ \A k : i.src0 = <<Const(k)>> => v.src0 = <<Const(k)>>
  BY <1>1, ValuedSame
<1>. QED BY <1>1, <1>2 DEF Passes

\* ---- the stages of the lines ------------------------------------------------------------

\* A jump to line x of block f.
Goes(code, at, in, x, f) ==
  \E v \in 1 .. Len(code) : x = Const(v) /\ at[v] = "level" /\ in[v] = f
\* What line n does to the stage of a call, and where it goes on.
Continues(q, code, at, in, n) ==
  \/ /\ n < Len(code) /\ in[n + 1] = in[n]
     /\ Passes(q, at[n], in[n], code[n], at[n + 1])
  \/ /\ n < Len(code) /\ in[n + 1] = in[n] /\ at[n] = "level" /\ at[n + 1] = "level"
     /\ code[n].op \in {"BREQZ", "BNEQZ"} /\ Goes(code, at, in, code[n].src1[1], in[n])
     /\ code[n].dest = <<>> /\ code[n].src0 = <<code[n].src0[1]>>
     /\ code[n].src1 = <<code[n].src1[1]>>
  \/ /\ at[n] = "level" /\ code[n].op = "UJUMP" /\ Goes(code, at, in, code[n].src0[1], in[n])
     /\ code[n].dest = <<>> /\ code[n].src0 = <<code[n].src0[1]>>
  \/ at[n] = "bare" /\ in[n] = "fun" /\ code[n].op = "RETRN"
  \/ at[n] = "level" /\ in[n] = "main" /\ code[n].op = "HALT"
\* Only a call leads into the middle of a call.
Follows(q, code, at, in, n) ==
  n < Len(code) /\ at[n + 1] \in InCall => Passes(q, at[n], in[n], code[n], at[n + 1])
LineRuled(q, code, at, in, n) ==
  /\ in[n] = In(code[n].block)
  /\ Continues(q, code, at, in, n) /\ Follows(q, code, at, in, n)
  /\ at[n] \in InCall => n > 1 /\ SameItems(code[n - 1], code[n])
  /\ at[n] \in AtEnds => \/ code[n].block = "prologue"
                         \/ (code[n].block = "leave" /\ n > 1 /\ code[n - 1].block = "leave")
  /\ code[n].op = "JLINK" /\ in[n] = "fun" => Kept(q)
Laid(q, code, at, in) ==
  /\ Len(code) \in Nat /\ Len(code) > 1
  /\ at \in [1 .. Len(code) -> Stages] /\ in \in [1 .. Len(code) -> {"fun", "main"}]
  /\ at[1] = "level" /\ in[1] = "main" /\ at[2] = "bare" /\ in[2] = "fun"
  /\ \A n \in 1 .. Len(code) : LineRuled(q, code, at, in, n)

\* The lines of the file are the instructions that are not LABELs, with the values of the labels.
Output(c) == Sized([n \in DOMAIN c.code |-> Valued(c.code[n])])
\* The lines of the output are those of the instructions that are no LABELs, in order.
LEMMA ValuedLines ==
  ASSUME cc \in CC, NEW s, s = Output(cc), NEW N, N = Len(cc.code)
  PROVE  \E C, pos : /\ Counts(C, cc.code, N) /\ Places(pos, C, cc.code, N)
                     /\ Len(s) = C[N] /\ C[N] \in Nat
                     /\ \A l \in 1 .. C[N] : s[l] = Valued(cc.code[pos[l]])
<1>1. N \in Nat /\ DOMAIN cc.code = 1 .. N /\ \A n \in 1 .. N : cc.code[n] \in Emitted
  BY Fields, ElementOfSeq
<1>2. PICK q : q = [n \in 1 .. N |-> Valued(cc.code[n])]
  OBVIOUS
<1>3. Len(q) = N /\ DOMAIN q = 1 .. N /\ \A n \in 1 .. N : q[n] = Valued(cc.code[n])
  BY <1>1, <1>2
<1>4. s = Sized(q)
  BY <1>1, <1>2 DEF Output
<1>5. PICK S : S = {q[n] : n \in 1 .. N}
  OBVIOUS
<1>6. \A n \in 1 .. N : q[n] \in S
  BY <1>5
<1>7. PICK C : /\ Counts(C, q, N) /\ s \in Seq(S) /\ Len(s) = C[N]
               /\ \A i \in 1 .. N : q[i].op # "LABEL" => s[C[i]] = q[i]
  <2>1. PICK K \in Nat : K = N
    BY <1>1
  <2>2. Len(q) = K /\ DOMAIN q = 1 .. K /\ \A i \in 1 .. K : q[i] \in S
    BY <1>3, <1>6, <2>1
  <2>3. \E D : /\ Counts(D, q, K) /\ s \in Seq(S) /\ Len(s) = D[K]
               /\ \A i \in 1 .. K : q[i].op # "LABEL" => s[D[i]] = q[i]
    BY <1>4, <2>2, SizedLines
  <2>. QED BY <2>1, <2>3
<1>8. \A n \in 1 .. N : q[n].op = cc.code[n].op
  <2>1. ASSUME NEW n \in 1 .. N PROVE q[n].op = cc.code[n].op
    <3>1. PICK i \in Emitted : i = cc.code[n]
      BY <1>1
    <3>2. Valued(i).op = i.op
      BY ValuedFields
    <3>. QED BY <1>3, <3>1, <3>2
  <2>. QED BY <2>1
<1>9. Counts(C, cc.code, N)
  BY <1>7, <1>8 DEF Counts
<1>10. PICK pos : Places(pos, C, cc.code, N)
  BY <1>1, <1>9, Placed
<1>11. ASSUME NEW l \in 1 .. C[N] PROVE s[l] = Valued(cc.code[pos[l]])
  <2>1. PICK i \in 1 .. N : i = pos[l] /\ cc.code[i].op # "LABEL" /\ C[i] = l
    BY <1>10 DEF Places
  <2>. QED BY <1>3, <1>7, <1>8, <2>1
<1>12. C[N] \in Nat
  BY <1>1, <1>9 DEF Counts
<1>. QED BY <1>7, <1>9, <1>10, <1>11, <1>12

\* A label's address is the number of the line behind it.
LEMMA AddressOf ==
  ASSUME cc \in CC, NEW N, N = Len(cc.code), NEW C, Counts(C, cc.code, N),
         NEW l, HasLabel(cc, l)
  PROVE  \E p \in 1 .. N : IsLabel(cc.code[p], l) /\ Address(l) = 1 + C[p]
<1>1. N \in Nat /\ DOMAIN cc.code = 1 .. N /\ cc.code \in Seq(Emitted)
  BY Fields
<1>2. \E p \in DOMAIN cc.code : cc.code[p].op = "LABEL" /\ cc.code[p].src0[1] = l
  BY <1>1 DEF HasLabel, IsLabel
<1>3. PICK p : p = CHOOSE n \in DOMAIN cc.code : cc.code[n].op = "LABEL" /\ cc.code[n].src0[1] = l
  OBVIOUS
<1>4. p \in 1 .. N /\ cc.code[p].op = "LABEL" /\ cc.code[p].src0[1] = l
  BY <1>1, <1>2, <1>3
<1>5. PICK q : q = SubSeq(cc.code, 1, p)
  OBVIOUS
<1>6. Len(q) = p /\ DOMAIN q = 1 .. p /\ \A i \in 1 .. p : q[i] = cc.code[i]
  BY <1>1, <1>4, <1>5
<1>7. Address(l) = 1 + Len(Sized(q))
  BY <1>3, <1>5 DEF Address
<1>8. PICK S : S = {q[n] : n \in 1 .. p}
  OBVIOUS
<1>9. PICK s : s = Sized(q)
  OBVIOUS
<1>10. PICK D : Counts(D, q, p) /\ Len(s) = D[p]
  <2>1. PICK K \in Nat : K = p
    BY <1>4
  <2>2. Len(q) = K /\ DOMAIN q = 1 .. K /\ \A i \in 1 .. K : q[i] \in S
    BY <1>6, <1>8, <2>1
  <2>3. \E D : /\ Counts(D, q, K) /\ s \in Seq(S) /\ Len(s) = D[K]
               /\ \A i \in 1 .. K : q[i].op # "LABEL" => s[D[i]] = q[i]
    BY <1>9, <2>2, SizedLines, SMTT(40)
  <2>. QED BY <2>1, <2>3
<1>11. \A i \in 0 .. p : D[i] = C[i]
  <2>1. p \in 0 .. N /\ \A i \in 1 .. p : q[i].op = "LABEL" <=> cc.code[i].op = "LABEL"
    BY <1>1, <1>4, <1>6
  <2>. QED BY <1>1, <1>10, <2>1, CountsUnique
<1>12. D[p] = C[p]
  BY <1>4, <1>11
<1>. QED BY <1>4, <1>7, <1>9, <1>10, <1>12 DEF IsLabel

\* The lines labels stand for are level.
LEMMA TargetLaid ==
  ASSUME cc \in CC, NEW w, NEW at, NEW in, Staged(w, cc.code, at, in),
         NEW N \in Nat \ {0}, N = Len(cc.code), cc.code[N].op = "HALT",
         NEW C, Counts(C, cc.code, N), NEW pos, Places(pos, C, cc.code, N),
         NEW l, HasLabel(cc, l), LabelOf(l) \in {"fun", "main"}
  PROVE  \E v \in 1 .. C[N] : /\ Value(l) = Const(v)
                              /\ at[pos[v]] = "level" /\ in[pos[v]] = LabelOf(l)
<1>1. PICK p \in 1 .. N : IsLabel(cc.code[p], l) /\ Address(l) = 1 + C[p]
  BY AddressOf
<1>2. cc.code[p].op = "LABEL" /\ cc.code[p].src0[1] = l
  BY <1>1 DEF IsLabel
<1>3. p + 1 \in 1 .. N /\ p + 1 - 1 = p
  BY <1>2
<1>4. cc.code[N].op # "LABEL"
  OBVIOUS
<1>5. Settled(at, in, pos, C, N, p + 1)
  BY <1>3, <1>4, Settles
<1>6. PICK v \in 1 .. C[N] : v = C[p] + 1 /\ at[pos[v]] = at[p + 1] /\ in[pos[v]] = in[p + 1]
  BY <1>3, <1>5 DEF Settled
<1>7. Step(w.saved, at[p], in[p], cc.code[p], at[p + 1], in[p + 1])
  BY DEF Staged, Ruled
<1>8. at[p + 1] = "level" /\ in[p + 1] = LabelOf(l)
  BY <1>2, <1>7, LabelPasses
<1>9. ~(IsConst(l) \/ l.t \in {"I", "R"})
  BY DEF LabelOf, IsConst
<1>10. Value(l) = Const(Address(l))
  BY <1>9 DEF Value
<1>11. Address(l) = v
  <2>1. C[p] \in Nat
    BY CountsNext
  <2>. QED BY <1>1, <1>6, <2>1
<1>. QED BY <1>6, <1>8, <1>10, <1>11

\* What stands at the instruction of a line, and what is needed of the code for it.
Settling(w, at, in, N, C, pos, s) ==
  /\ Staged(w, cc.code, at, in) /\ N \in Nat \ {0} /\ N = Len(cc.code) /\ cc.code[N].op = "HALT"
  /\ Counts(C, cc.code, N) /\ Places(pos, C, cc.code, N) /\ Len(s) = C[N] /\ C[N] \in Nat
  /\ \A l \in 1 .. C[N] : s[l] = Valued(cc.code[pos[l]])
AtLines(at, pos, s) == [l \in 1 .. Len(s) |-> at[pos[l]]]

\* The line behind a line, and the one in front of it.
LEMMA LineBehind ==
  ASSUME NEW w, NEW at, NEW in, NEW N, NEW C, NEW pos, NEW s, Settling(w, at, in, N, C, pos, s),
         NEW l \in 1 .. Len(s), NEW n, n = pos[l]
  PROVE  /\ n \in 1 .. N /\ C[n] = l /\ cc.code[n].op # "LABEL"
         /\ n < N => l < Len(s) /\ at[pos[l + 1]] = at[n + 1] /\ in[pos[l + 1]] = in[n + 1]
         /\ n > 1 /\ at[n] # "level" => l > 1 /\ pos[l - 1] = n - 1
<1>1. n \in 1 .. N /\ C[n] = l /\ cc.code[n].op # "LABEL" /\ N \in Nat /\ Len(s) = C[N]
  BY DEF Settling, Places
<1>2. ASSUME n < N PROVE l < Len(s) /\ at[pos[l + 1]] = at[n + 1] /\ in[pos[l + 1]] = in[n + 1]
  <2>1. n + 1 \in 1 .. N /\ n + 1 - 1 = n
    BY <1>1, <1>2
  <2>2. Settled(at, in, pos, C, N, n + 1)
    <3>1. /\ Staged(w, cc.code, at, in) /\ N \in Nat \ {0} /\ N = Len(cc.code) /\ cc.code[N].op # "LABEL"
          /\ Counts(C, cc.code, N) /\ Places(pos, C, cc.code, N)
      BY DEF Settling
    <3>2. \A k \in 1 .. N : Settled(at, in, pos, C, N, k)
      BY <3>1, Settles
    <3>. QED BY <2>1, <3>2
  <2>3. PICK k \in 1 .. C[N] : k = C[n] + 1 /\ at[pos[k]] = at[n + 1] /\ in[pos[k]] = in[n + 1]
    <3>1. PICK j : j = n + 1 /\ Settled(at, in, pos, C, N, j)
      BY <2>2
    <3>2. \E k \in 1 .. C[N] : k = C[j - 1] + 1 /\ at[pos[k]] = at[j] /\ in[pos[k]] = in[j]
      BY <3>1 DEF Settled
    <3>3. j - 1 = n
      BY <1>1, <3>1
    <3>. QED BY <3>1, <3>2, <3>3
  <2>4. k = l + 1
    BY <1>1, <2>3
  <2>5. C[N] \in Nat
    BY DEF Settling
  <2>. QED BY <1>1, <2>3, <2>4, <2>5
<1>3. ASSUME n > 1, at[n] # "level" PROVE l > 1 /\ pos[l - 1] = n - 1
  <2>1. PICK k \in 1 .. N : k = n - 1 /\ k + 1 = n
    BY <1>1, <1>3
  <2>2. Step(w.saved, at[k], in[k], cc.code[k], at[n], in[n])
    BY <2>1 DEF Settling, Staged, Ruled
  <2>3. cc.code[k].op # "LABEL"
    BY <1>3, <2>2, LabelPasses
  <2>4. C[k] \in 1 .. C[N] /\ pos[C[k]] = k
    BY <2>3 DEF Settling, Places
  <2>5. C[n] = C[n - 1] + 1 /\ C[n - 1] \in Nat
    <3>1. Counts(C, cc.code, N) /\ N \in Nat
      BY DEF Settling
    <3>. QED BY <1>1, <3>1, CountsNext
  <2>. QED BY <1>1, <2>1, <2>4, <2>5, SMTT(40)
<1>. QED BY <1>1, <1>2, <1>3

\* The target of a jump.
LEMMA JumpLaid ==
  ASSUME NEW w, NEW at, NEW in, NEW N, NEW C, NEW pos, NEW s, Settling(w, at, in, N, C, pos, s),
         cc \in CC, NEW n \in 1 .. N, Bound(cc, {}), NEW l \in Targets(cc.code[n]),
         LabelOf(l) \in {"fun", "main"}
  PROVE  Goes(s, AtLines(at, pos, s), AtLines(in, pos, s), Value(l), LabelOf(l))
<1>1. HasLabel(cc, l)
  BY DEF Bound, Settling
<1>2. \E v \in 1 .. C[N] : /\ Value(l) = Const(v)
                           /\ at[pos[v]] = "level" /\ in[pos[v]] = LabelOf(l)
  BY <1>1, TargetLaid DEF Settling
<1>3. PICK v \in 1 .. C[N] : Value(l) = Const(v) /\ at[pos[v]] = "level" /\ in[pos[v]] = LabelOf(l)
  BY <1>2
<1>4. v \in 1 .. Len(s)
  BY DEF Settling
<1>. QED BY <1>3, <1>4 DEF Goes, AtLines

\* Where a line leads to.
LEMMA LineContinues ==
  ASSUME NEW w, NEW at, NEW in, NEW N, NEW C, NEW pos, NEW s, Settling(w, at, in, N, C, pos, s),
         cc \in CC, Bound(cc, {}), NEW l \in 1 .. Len(s), NEW a, a = AtLines(at, pos, s),
         NEW f, f = AtLines(in, pos, s)
  PROVE  Continues(w.saved, s, a, f, l) /\ Follows(w.saved, s, a, f, l)
<1>1. PICK n : n = pos[l]
  OBVIOUS
<1>2. /\ n \in 1 .. N /\ C[n] = l /\ cc.code[n].op # "LABEL"
      /\ n < N => l < Len(s) /\ at[pos[l + 1]] = at[n + 1] /\ in[pos[l + 1]] = in[n + 1]
  BY <1>1, LineBehind
<1>3. Len(s) \in Nat /\ l \in 1 .. Len(s) /\ N \in Nat /\ Len(s) = C[N]
  BY DEF Settling
<1>4. PICK i \in Emitted : i = cc.code[n]
  <2>1. N = Len(cc.code) /\ cc.code \in Seq(Emitted)
    BY Fields DEF Settling
  <2>. QED BY <1>2, <2>1, ElementOfSeq
<1>5. PICK v : v = s[l] /\ v = Valued(i)
  BY <1>1, <1>3, <1>4 DEF Settling
<1>6. v.op = i.op /\ v.dest = i.dest /\ v.src0 = ValuedSeq(i.src0) /\ v.src1 = ValuedSeq(i.src1)
  BY <1>5, ValuedFields
<1>7. a[l] = at[n] /\ f[l] = in[n]
  BY <1>1 DEF AtLines
<1>8. n < N => l < Len(s) /\ a[l + 1] = at[n + 1] /\ f[l + 1] = in[n + 1]
  BY <1>2, <1>3 DEF AtLines
<1>9. Step(w.saved, at[n], in[n], i, at[n + 1], in[n + 1])
  BY <1>2, <1>4 DEF Settling, Staged, Ruled
<1>10. n = N => i.op = "HALT"
  BY <1>4 DEF Settling
<1>11. in[n] \in {"fun", "main"}
  BY <1>2, <1>3 DEF Settling, Staged, Marks
<1>12. CASE Passes(w.saved, at[n], in[n], i, at[n + 1]) /\ in[n + 1] = in[n]
  <2>1. i.op # "HALT"
    <3>1. "HALT" \notin PlainOps
      BY PlainKinds
    <3>. QED BY <1>12, <3>1 DEF Passes, Plain, Store, OnSP
  <2>2. n < N
    BY <1>2, <1>3, <1>10, <2>1
  <2>3. Passes(w.saved, at[n], in[n], v, at[n + 1])
    BY <1>5, <1>12, ValuedPasses
  <2>. QED BY <1>5, <1>7, <1>8, <1>12, <2>2, <2>3 DEF Continues, Follows
<1>13. CASE Stays(at[n], in[n], i) /\ at[n + 1] = at[n] /\ in[n + 1] = in[n]
  <2>1. /\ i.op \in {"BREQZ", "BNEQZ"} /\ LabelOf(i.src1[1]) = in[n] /\ at[n] = "level"
        /\ i.dest = <<>> /\ i.src0 = <<i.src0[1]>> /\ i.src1 = <<i.src1[1]>>
    BY <1>2, <1>4, <1>13 DEF Stays
  <2>2. n < N
    BY <1>2, <1>3, <1>10, <2>1
  <2>3. PICK x, y : x = i.src0[1] /\ y = i.src1[1]
    OBVIOUS
  <2>4. y \in Targets(cc.code[n]) /\ LabelOf(y) \in {"fun", "main"}
    BY <1>4, <1>11, <2>1, <2>3 DEF Targets
  <2>5. Goes(s, a, f, Value(y), LabelOf(y))
    BY <1>2, <2>4, JumpLaid
  <2>6. v.src0 = <<Value(x)>> /\ v.src1 = <<Value(y)>>
    BY <1>6, <2>1, <2>3, ValuedOne
  <2>7. v.src0[1] = Value(x) /\ v.src1[1] = Value(y)
    BY <2>6
  <2>8. Follows(w.saved, s, a, f, l)
    BY <1>8, <1>13, <2>1, <2>2 DEF Follows, InCall
  <2>. QED BY <1>5, <1>6, <1>7, <1>8, <1>13, <2>1, <2>2, <2>3, <2>5, <2>6, <2>7, <2>8 DEF Continues
<1>14. CASE Departs(at[n], in[n], i) /\ at[n + 1] \in {"level", "bare"}
  <2>3. Follows(w.saved, s, a, f, l)
    <3>1. CASE n < N
      BY <1>8, <1>14, <3>1 DEF Follows, InCall
    <3>2. CASE n = N
      <4>1. ~(l < Len(s))
        BY <1>2, <1>3, <3>2
      <4>. QED BY <4>1 DEF Follows
    <3>. QED BY <1>2, <1>3, <3>1, <3>2
  <2>1. CASE i.op = "UJUMP"
    <3>1. /\ LabelOf(i.src0[1]) = in[n] /\ at[n] = "level"
          /\ i.dest = <<>> /\ i.src0 = <<i.src0[1]>>
      BY <1>14, <2>1 DEF Departs
    <3>3. PICK x : x = i.src0[1]
      OBVIOUS
    <3>4. x \in Targets(cc.code[n]) /\ LabelOf(x) \in {"fun", "main"}
      BY <1>4, <1>11, <2>1, <3>1, <3>3 DEF Targets
    <3>5. Goes(s, a, f, Value(x), LabelOf(x))
      BY <1>2, <3>4, JumpLaid
    <3>6. v.src0 = <<Value(x)>>
      BY <1>6, <3>1, <3>3, ValuedOne
    <3>7. v.src0[1] = Value(x)
      BY <3>6
    <3>. QED BY <1>5, <1>6, <1>7, <2>1, <2>3, <3>1, <3>3, <3>5, <3>6, <3>7 DEF Continues
  <2>2. CASE i.op # "UJUMP"
    BY <1>5, <1>6, <1>7, <1>14, <2>2, <2>3 DEF Continues, Departs
  <2>. QED BY <2>1, <2>2
<1>. QED BY <1>9, <1>12, <1>13, <1>14 DEF Step

\* A line by itself.
LEMMA LineLaid ==
  ASSUME NEW w, w.done, NEW at, NEW in, NEW N, NEW C, NEW pos, NEW s,
         Settling(w, at, in, N, C, pos, s), cc \in CC, Bound(cc, {}), LinkNoted(cc, w),
         NEW l \in 1 .. Len(s), NEW a, a = AtLines(at, pos, s), NEW f, f = AtLines(in, pos, s)
  PROVE  LineRuled(w.saved, s, a, f, l)
<1>1. PICK n : n = pos[l]
  OBVIOUS
<1>2. /\ n \in 1 .. N /\ cc.code[n].op # "LABEL"
      /\ n > 1 /\ at[n] # "level" => l > 1 /\ pos[l - 1] = n - 1
  BY <1>1, LineBehind
<1>3. Len(s) \in Nat /\ l \in 1 .. Len(s) /\ N \in Nat /\ Len(s) = C[N] /\ N = Len(cc.code)
  BY DEF Settling
<1>4. ASSUME NEW k \in 1 .. N
      PROVE  /\ Valued(cc.code[k]).op = cc.code[k].op /\ Valued(cc.code[k]).block = cc.code[k].block
             /\ Valued(cc.code[k]).item = cc.code[k].item
  <2>1. PICK i \in Emitted : i = cc.code[k]
    BY <1>3, Fields, ElementOfSeq
  <2>2. Valued(i).op = i.op /\ Valued(i).block = i.block /\ Valued(i).item = i.item
    BY ValuedFields
  <2>. QED BY <2>1, <2>2
<1>5. s[l] = Valued(cc.code[n]) /\ a[l] = at[n] /\ f[l] = in[n]
  BY <1>1, <1>3 DEF Settling, AtLines
<1>6. PICK i : i = cc.code[n] /\ s[l].op = i.op /\ s[l].block = i.block /\ s[l].item = i.item
  BY <1>2, <1>4, <1>5
<1>7. /\ in[n] = In(i.block)
      /\ at[n] \in InCall => n > 1 /\ SameItems(cc.code[n - 1], i)
      /\ at[n] \in AtEnds => \/ i.block = "prologue"
                             \/ (i.block = "leave" /\ n > 1 /\ cc.code[n - 1].block = "leave")
  BY <1>2, <1>3, <1>6 DEF Settling, Staged, Ruled
<1>8. ASSUME n > 1, at[n] # "level"
      PROVE  l > 1 /\ s[l - 1].block = cc.code[n - 1].block /\ s[l - 1].item = cc.code[n - 1].item
  <2>1. PICK k \in 1 .. Len(s) : k = l - 1 /\ l > 1
    BY <1>2, <1>3, <1>8
  <2>2. PICK j \in 1 .. N : j = n - 1
    BY <1>2, <1>3, <1>8
  <2>3. s[k] = Valued(cc.code[j])
    BY <1>2, <1>3, <1>8, <2>1, <2>2 DEF Settling
  <2>. QED BY <1>4, <2>1, <2>2, <2>3
<1>9. a[l] \in InCall => l > 1 /\ SameItems(s[l - 1], s[l])
  BY <1>5, <1>6, <1>7, <1>8 DEF SameItems, InCall
<1>10. a[l] \in AtEnds => \/ s[l].block = "prologue"
                          \/ (s[l].block = "leave" /\ l > 1 /\ s[l - 1].block = "leave")
  BY <1>5, <1>6, <1>7, <1>8 DEF AtEnds
<1>11. s[l].op = "JLINK" /\ f[l] = "fun" => Kept(w.saved)
  <2>1. f[l] = "fun" => i.block \in FunBlocks
    BY <1>5, <1>7 DEF In
  <2>. QED BY <1>2, <1>3, <1>6, <2>1 DEF LinkNoted
<1>12. Continues(w.saved, s, a, f, l) /\ Follows(w.saved, s, a, f, l)
  BY LineContinues
<1>. QED BY <1>5, <1>6, <1>7, <1>9, <1>10, <1>11, <1>12 DEF LineRuled

\* The code as rx gets it.
LEMMA OutputLaid ==
  ASSUME cc \in CC, MainAt(cc, {}), cc.code[Len(cc.code)].op = "HALT", NEW s, s = Output(cc)
  PROVE  \E at, in : Laid(cc.saved, s, at, in)
<1>1. PICK N \in Nat \ {0} : N = Len(cc.code)
  BY Fields DEF MainAt
<1>2. PICK P \in Nat : Standing(cc, Joined(cc.saved, P, {}), "level", "main")
  BY DEF MainAt
<1>3. PICK w : w = Joined(cc.saved, P, {})
  OBVIOUS
<1>4. w.saved = cc.saved /\ w.start = <<<<"level", "main">>, <<"bare", "fun">>>> /\ w.pending = {} /\ w.done
  BY <1>3 DEF Joined
<1>5. Standing(cc, w, "level", "main")
  BY <1>2, <1>3
<1>6. PICK at, in : Staged(w, cc.code, at, in)
  BY <1>5 DEF Standing
<1>7. LinkNoted(cc, w) /\ Bound(cc, {})
  BY <1>4, <1>5 DEF Standing
<1>8. PICK C, pos : /\ Counts(C, cc.code, N) /\ Places(pos, C, cc.code, N)
                    /\ Len(s) = C[N] /\ C[N] \in Nat
                    /\ \A l \in 1 .. C[N] : s[l] = Valued(cc.code[pos[l]])
  BY <1>1, ValuedLines
<1>9. Settling(w, at, in, N, C, pos, s)
  BY <1>1, <1>6, <1>8 DEF Settling
<1>10. PICK a, f : a = AtLines(at, pos, s) /\ f = AtLines(in, pos, s)
  OBVIOUS
<1>11. ASSUME NEW l \in 1 .. Len(s) PROVE LineRuled(w.saved, s, a, f, l)
  BY <1>4, <1>7, <1>9, <1>10, LineLaid
<1>12. at \in [1 .. N + 1 -> Stages] /\ in \in [1 .. N + 1 -> {"fun", "main"}]
  BY <1>1, <1>6 DEF Staged, Marks
<1>13. a \in [1 .. Len(s) -> Stages] /\ f \in [1 .. Len(s) -> {"fun", "main"}]
  <2>1. \A l \in 1 .. Len(s) : pos[l] \in 1 .. N + 1
    BY <1>1, <1>8 DEF Places
  <2>. QED BY <1>10, <1>12, <2>1 DEF AtLines
<1>14. N > 1 /\ cc.code[1].op # "LABEL" /\ 1 \in 1 .. N /\ 2 \in 1 .. N
  BY <1>1 DEF MainAt
<1>15. at[1] = "level" /\ in[1] = "main" /\ at[2] = "bare" /\ in[2] = "fun"
  <2>1. 1 \in DOMAIN w.start /\ 2 \in DOMAIN w.start
    BY <1>4
  <2>2. <<at[1], in[1]>> = w.start[1] /\ <<at[2], in[2]>> = w.start[2]
    BY <1>6, <2>1 DEF Staged
  <2>. QED BY <1>4, <2>2
<1>16. cc.code[2].op # "LABEL"
  <2>1. Step(w.saved, at[2], in[2], cc.code[2], at[2 + 1], in[2 + 1])
    BY <1>1, <1>6, <1>14 DEF Staged, Ruled
  <2>. QED BY <1>15, <2>1, LabelPasses
<1>17. C[1] = 1 /\ C[2] = 2
  <2>1. C[0] = 0 /\ 1 - 1 = 0 /\ 2 - 1 = 1
    BY <1>8 DEF Counts
  <2>2. C[1] = C[1 - 1] + 1
    BY <1>8, <1>14, CountsNext
  <2>3. C[2] = C[2 - 1] + 1
    BY <1>8, <1>14, <1>16, CountsNext
  <2>. QED BY <2>1, <2>2, <2>3
<1>18. 1 \in 1 .. Len(s) /\ 2 \in 1 .. Len(s) /\ pos[1] = 1 /\ pos[2] = 2
  <2>1. C[1] \in 1 .. C[N] /\ pos[C[1]] = 1 /\ C[2] \in 1 .. C[N] /\ pos[C[2]] = 2
    BY <1>8, <1>14, <1>16 DEF Places
  <2>. QED BY <1>8, <1>17, <2>1
<1>19. a[1] = "level" /\ f[1] = "main" /\ a[2] = "bare" /\ f[2] = "fun"
  BY <1>10, <1>15, <1>18 DEF AtLines
<1>20. Len(s) \in Nat /\ Len(s) > 1
  BY <1>8, <1>18
<1>21. Laid(w.saved, s, a, f)
  BY <1>11, <1>13, <1>19, <1>20 DEF Laid
<1>. QED BY <1>4, <1>21

\* ---- what a line does to the machine ----------------------------------------------------

Machined(d) ==
  /\ d = [ireg |-> d.ireg, rreg |-> d.rreg, imem |-> d.imem, rmem |-> d.rmem, out |-> d.out]
  /\ d.ireg = [r \in 0 .. RegFileSize - 1 |-> d.ireg[r]]
  /\ d.imem = [a \in 0 .. MemSize - 1 |-> d.imem[a]]
\* Instruction i, loaded from c.
LoadedFrom(V, i, c) ==
  Symbols \subseteq TokenOf(V) /\ c \in Loadable(V) /\ Matches(i, c)

\* Its operands.
LEMMA Operands ==
  ASSUME NEW V, NEW i, NEW c, LoadedFrom(V, i, c), NEW a, a = Given(c)
  PROVE  /\ i.op = c.op /\ c.op \in Opcodes /\ Suits(c.op, a, {})
         /\ c.dest \in Seq(Symbols) /\ c.src0 \in Seq(TokenOf(V)) /\ c.src1 \in Seq(TokenOf(V))
         /\ Len(a) >= 1 => i.a1 = MeantArg(Shape(c.op)[1], a[1])
         /\ Len(a) >= 2 => i.a2 = MeantArg(Shape(c.op)[2], a[2])
         /\ Len(a) >= 3 => i.a3 = MeantArg(Shape(c.op)[3], a[3])
<1>1. /\ DOMAIN Meant(c) = 1 .. Len(a)
      /\ \A n \in DOMAIN Meant(c) : Meant(c)[n] = MeantArg(Shape(c.op)[n], a[n])
  BY MeantOperands DEF LoadedFrom
<1>2. /\ i.op = c.op /\ c.op \in Opcodes /\ Suits(c.op, a, {})
      /\ c.dest \in Seq(Symbols) /\ c.src0 \in Seq(TokenOf(V)) /\ c.src1 \in Seq(TokenOf(V))
  BY DEF LoadedFrom, Matches, Loadable, Instruction
<1>3. Len(a) \in 0 .. 3
  BY <1>2 DEF Suits
<1>4. \A n \in 1 .. Len(a) : <<i.a1, i.a2, i.a3>>[n] = MeantArg(Shape(c.op)[n], a[n])
  BY <1>1 DEF LoadedFrom, Matches
<1>5. Len(a) >= 1 => i.a1 = MeantArg(Shape(c.op)[1], a[1])
  BY <1>3, <1>4
<1>6. Len(a) >= 2 => i.a2 = MeantArg(Shape(c.op)[2], a[2])
  BY <1>3, <1>4
<1>7. Len(a) >= 3 => i.a3 = MeantArg(Shape(c.op)[3], a[3])
  BY <1>3, <1>4
<1>. QED BY <1>2, <1>5, <1>6, <1>7

\* Those in their lists.
InLists(a, c, D, E, F) ==
  /\ D \in Nat /\ E \in Nat /\ F \in Nat /\ Len(a) = D + E + F
  /\ \A n \in 1 .. D : a[n] = c.dest[n]
  /\ \A n \in 1 .. E : a[D + n] = c.src0[n]
  /\ \A n \in 1 .. F : a[D + E + n] = c.src1[n]
\* The operands of a loaded line are those of the instruction.
LEMMA GivenLists ==
  ASSUME NEW V, NEW i, NEW c, LoadedFrom(V, i, c), NEW a, a = Given(c),
         NEW D, D = Len(c.dest), NEW E, E = Len(c.src0), NEW F, F = Len(c.src1)
  PROVE  InLists(a, c, D, E, F)
<1>1. PICK S : S = Symbols \cup TokenOf(V)
  OBVIOUS
<1>2. PICK d \in Seq(Symbols), e \in Seq(TokenOf(V)), f \in Seq(TokenOf(V)) :
        d = c.dest /\ e = c.src0 /\ f = c.src1
  BY Operands
<1>3. d \in Seq(S) /\ e \in Seq(S) /\ f \in Seq(S)
  <2>1. Symbols \subseteq S /\ TokenOf(V) \subseteq S
    BY <1>1
  <2>. QED BY <2>1, SeqMonotonic
<1>4. a = d \o e \o f
  BY <1>2 DEF Given
<1>5. /\ Len(a) = Len(d) + Len(e) + Len(f)
      /\ \A n \in 1 .. Len(d) : a[n] = d[n]
      /\ \A n \in 1 .. Len(e) : a[Len(d) + n] = e[n]
      /\ \A n \in 1 .. Len(f) : a[Len(d) + Len(e) + n] = f[n]
  BY <1>3, <1>4, Behind
<1>6. D = Len(d) /\ E = Len(e) /\ F = Len(f)
  BY <1>2
<1>7. D \in Nat /\ E \in Nat /\ F \in Nat
  BY <1>6, LenProperties
<1>8. /\ Len(a) = D + E + F
      /\ \A n \in 1 .. D : a[n] = d[n]
      /\ \A n \in 1 .. E : a[D + n] = e[n]
      /\ \A n \in 1 .. F : a[D + E + n] = f[n]
  BY <1>5, <1>6
<1>. QED BY <1>2, <1>7, <1>8 DEF InLists

\* Three operands, two, or one.
LEMMA ThreeOperands ==
  ASSUME NEW V, NEW i, NEW c, LoadedFrom(V, i, c), NEW y, NEW z,
         Len(c.dest) = 1, c.src0 = <<y>>, c.src1 = <<z>>
  PROVE  /\ i.a1 = MeantArg(Shape(c.op)[1], c.dest[1]) /\ i.a2 = MeantArg(Shape(c.op)[2], y)
         /\ i.a3 = MeantArg(Shape(c.op)[3], z)
<1>1. PICK a : a = Given(c)
  OBVIOUS
<1>2. PICK D : D = Len(c.dest)
  OBVIOUS
<1>21. PICK E : E = Len(c.src0)
  OBVIOUS
<1>22. PICK F : F = Len(c.src1)
  OBVIOUS
<1>23. D = 1 /\ E = 1 /\ F = 1
  BY <1>2, <1>21, <1>22
<1>24. InLists(a, c, D, E, F)
  BY <1>1, <1>2, <1>21, <1>22, GivenLists
<1>3. /\ Len(a) = D + E + F /\ \A n \in 1 .. D : a[n] = c.dest[n]
      /\ \A n \in 1 .. E : a[D + n] = c.src0[n]
      /\ \A n \in 1 .. F : a[D + E + n] = c.src1[n]
  BY <1>24 DEF InLists
<1>4. Len(a) = 3 /\ a[1] = c.dest[1] /\ a[2] = y /\ a[3] = z
  <2>1. D + E + F = 3 /\ D + 1 = 2 /\ D + E + 1 = 3
    BY <1>23
  <2>2. a[1] = c.dest[1] /\ a[D + 1] = c.src0[1] /\ a[D + E + 1] = c.src1[1]
    BY <1>23, <1>3
  <2>3. c.src0[1] = y /\ c.src1[1] = z
    OBVIOUS
  <2>. QED BY <1>3, <2>1, <2>2, <2>3
<1>5. /\ Len(a) >= 1 => i.a1 = MeantArg(Shape(c.op)[1], a[1])
      /\ Len(a) >= 2 => i.a2 = MeantArg(Shape(c.op)[2], a[2])
      /\ Len(a) >= 3 => i.a3 = MeantArg(Shape(c.op)[3], a[3])
  BY <1>1, Operands
<1>6. Len(a) >= 1 /\ Len(a) >= 2 /\ Len(a) >= 3
  BY <1>4
<1>. QED BY <1>4, <1>5, <1>6

\* An instruction with a destination has it as its first operand.
LEMMA FirstOperand ==
  ASSUME NEW V, NEW i, NEW c, LoadedFrom(V, i, c), Len(c.dest) = 1
  PROVE  /\ i.a1 = MeantArg(Shape(c.op)[1], c.dest[1]) /\ c.dest[1].t \in Takes(Shape(c.op)[1], {})
         /\ \A y : c.src0 = <<y>> => i.a2 = MeantArg(Shape(c.op)[2], y)
<1>1. PICK a : a = Given(c)
  OBVIOUS
<1>21. PICK D : D = Len(c.dest)
  OBVIOUS
<1>22. PICK E : E = Len(c.src0)
  OBVIOUS
<1>23. PICK F : F = Len(c.src1)
  OBVIOUS
<1>2. D = 1 /\ D = Len(c.dest) /\ E = Len(c.src0) /\ F = Len(c.src1)
  BY <1>21, <1>22, <1>23
<1>24. InLists(a, c, D, E, F)
  BY <1>1, <1>21, <1>22, <1>23, GivenLists
<1>3. /\ Len(a) = D + E + F /\ E \in Nat /\ F \in Nat /\ \A n \in 1 .. D : a[n] = c.dest[n]
      /\ \A n \in 1 .. E : a[D + n] = c.src0[n]
  BY <1>24 DEF InLists
<1>4. Len(a) >= 1 /\ a[1] = c.dest[1]
  <2>1. D = 1
    BY <1>2
  <2>2. \A n \in 1 .. D : a[n] = c.dest[n]
    BY <1>3
  <2>3. Len(a) = D + E + F /\ E \in Nat /\ F \in Nat
    BY <1>3
  <2>4. Len(a) >= 1
    BY <2>1, <2>3
  <2>. QED BY <2>1, <2>2, <2>4
<1>5. ASSUME NEW y, c.src0 = <<y>> PROVE Len(a) >= 2 /\ a[2] = y
  <2>1. c.src0[1] = y /\ E = 1
    BY <1>2, <1>5
  <2>2. a[D + 1] = y /\ D + 1 = 2
    BY <1>2, <1>3, <2>1
  <2>. QED BY <1>2, <1>3, <2>1, <2>2
<1>6. c.dest[1].t \in Takes(Shape(c.op)[1], {})
  <2>1. Suits(c.op, a, {})
    BY <1>1, Operands
  <2>. QED BY <1>4, <2>1 DEF Suits
<1>. QED BY <1>1, <1>4, <1>5, <1>6, Operands

\* And one without it starts with its first source.
LEMMA JumpOperands ==
  ASSUME NEW V, NEW i, NEW c, LoadedFrom(V, i, c), NEW x, c.dest = <<>>, c.src0 = <<x>>
  PROVE  /\ i.a1 = MeantArg(Shape(c.op)[1], x)
         /\ \A y : c.src1 = <<y>> => i.a2 = MeantArg(Shape(c.op)[2], y)
<1>1. PICK a : a = Given(c)
  OBVIOUS
<1>21. PICK D : D = Len(c.dest)
  OBVIOUS
<1>22. PICK E : E = Len(c.src0)
  OBVIOUS
<1>23. PICK F : F = Len(c.src1)
  OBVIOUS
<1>2. D = 0 /\ E = 1 /\ D = Len(c.dest) /\ E = Len(c.src0) /\ F = Len(c.src1)
  BY <1>21, <1>22, <1>23
<1>24. InLists(a, c, D, E, F)
  BY <1>1, <1>21, <1>22, <1>23, GivenLists
<1>3. /\ Len(a) = D + E + F /\ F \in Nat
      /\ \A n \in 1 .. E : a[D + n] = c.src0[n]
      /\ \A n \in 1 .. F : a[D + E + n] = c.src1[n]
  BY <1>24 DEF InLists
<1>4. Len(a) >= 1 /\ a[1] = x
  <2>1. c.src0[1] = x
    OBVIOUS
  <2>2. a[D + 1] = x /\ D + 1 = 1
    BY <1>2, <1>3, <2>1
  <2>. QED BY <1>2, <1>3, <2>2
<1>5. ASSUME NEW y, c.src1 = <<y>> PROVE Len(a) >= 2 /\ a[2] = y
  <2>1. c.src1[1] = y /\ F = 1
    BY <1>2, <1>5
  <2>2. a[D + E + 1] = y /\ D + E + 1 = 2
    BY <1>2, <1>3, <2>1
  <2>. QED BY <1>2, <1>3, <2>1, <2>2
<1>. QED BY <1>1, <1>4, <1>5, Operands

\* Registers of the convention, and constants, as operands.
LEMMA Meanings ==
  ASSUME NEW k
  PROVE  /\ \A kind : /\ MeantArg(kind, LR) = Arg(FALSE, 0) /\ MeantArg(kind, FP) = Arg(FALSE, 1)
                      /\ MeantArg(kind, SP) = Arg(FALSE, 2)
         /\ \A kind \in {"i", "n"} : MeantArg(kind, Const(k)) = Arg(TRUE, k)
         /\ Arg(TRUE, k).const = TRUE /\ Arg(TRUE, k).v = k
         /\ Arg(FALSE, k).const = FALSE /\ Arg(FALSE, k).v = k
<1>1. LR.t = "I" /\ LR.v = 0 /\ FP.t = "I" /\ FP.v = 1 /\ SP.t = "I" /\ SP.v = 2
  BY DEF LR, FP, SP, Tok
<1>2. Const(k).t = "int" /\ Const(k).v = k
  BY DEF Const, Tok
<1>. QED BY <1>1, <1>2 DEF MeantArg, Arg

\* ---- what an instruction does to the machine --------------------------------------------

IRegs == 0 .. RegFileSize - 1
Cells == 0 .. MemSize - 1

\* Setting an integer register.
LEMMA SetsOne ==
  ASSUME NEW d, Machined(d), NEW i, NEW v, NEW e, e = SetI(d, i, v)
  PROVE  /\ Machined(e) /\ e.imem = d.imem
         /\ \A r \in IRegs : r # i.a1.v => e.ireg[r] = d.ireg[r]
         /\ i.a1.v \in IRegs => e.ireg[i.a1.v] = v
<1>1. e = [d EXCEPT !.ireg = [d.ireg EXCEPT ![i.a1.v] = v]]
  BY DEF SetI
<1>2. d = [ireg |-> d.ireg, rreg |-> d.rreg, imem |-> d.imem, rmem |-> d.rmem, out |-> d.out]
  BY DEF Machined
<1>3. e = [ireg |-> [d.ireg EXCEPT ![i.a1.v] = v], rreg |-> d.rreg, imem |-> d.imem,
           rmem |-> d.rmem, out |-> d.out]
  BY <1>1, <1>2
<1>4. /\ e = [ireg |-> e.ireg, rreg |-> e.rreg, imem |-> e.imem, rmem |-> e.rmem, out |-> e.out]
      /\ e.ireg = [d.ireg EXCEPT ![i.a1.v] = v] /\ e.imem = d.imem
  BY <1>3
<1>5. d.ireg = [r \in IRegs |-> d.ireg[r]] /\ d.imem = [a \in Cells |-> d.imem[a]]
  BY DEF Machined, IRegs, Cells
<1>6. e.ireg = [r \in IRegs |-> e.ireg[r]]
  BY <1>4, <1>5
<1>7. /\ \A r \in IRegs : r # i.a1.v => e.ireg[r] = d.ireg[r]
      /\ i.a1.v \in IRegs => e.ireg[i.a1.v] = v
  BY <1>4, <1>5
<1>. QED BY <1>4, <1>5, <1>6, <1>7 DEF Machined, IRegs, Cells

\* Changing nothing that counts here.
LEMMA SetsNone ==
  ASSUME NEW d, Machined(d), NEW v, NEW e,
         \/ e = [d EXCEPT !.out = v]
         \/ e = [d EXCEPT !.rreg = v]
         \/ e = [d EXCEPT !.rmem = v]
  PROVE  Machined(e) /\ e.imem = d.imem /\ e.ireg = d.ireg
<1>1. d = [ireg |-> d.ireg, rreg |-> d.rreg, imem |-> d.imem, rmem |-> d.rmem, out |-> d.out]
  BY DEF Machined
<1>2. \/ e = [ireg |-> d.ireg, rreg |-> d.rreg, imem |-> d.imem, rmem |-> d.rmem, out |-> v]
      \/ e = [ireg |-> d.ireg, rreg |-> v, imem |-> d.imem, rmem |-> d.rmem, out |-> d.out]
      \/ e = [ireg |-> d.ireg, rreg |-> d.rreg, imem |-> d.imem, rmem |-> v, out |-> d.out]
  BY <1>1
<1>3. /\ e = [ireg |-> e.ireg, rreg |-> e.rreg, imem |-> e.imem, rmem |-> e.rmem, out |-> e.out]
      /\ e.ireg = d.ireg /\ e.imem = d.imem
  BY <1>2
<1>. QED BY <1>3 DEF Machined

\* What an instruction leaves alone.
Unset(d, i, e) ==
  /\ Machined(e)
  /\ i.op \notin Writers \cup {"JLINK"} => e.ireg = d.ireg
  /\ i.op \in Writers => \A r \in IRegs : r # i.a1.v => e.ireg[r] = d.ireg[r]
  /\ i.op # "STORI" => e.imem = d.imem
\* Execution changes the register it writes, and the memory only where it stores.
LEMMA Executing ==
  ASSUME NEW d, Machined(d), NEW i, i.op \in Opcodes, NEW l, NEW x, NEW e, e = Executed(d, i, l, x)
  PROVE  Unset(d, i, e)
<1>0. \A v : LET f == SetI(d, i, v)
             IN  /\ Machined(f) /\ f.imem = d.imem /\ \A r \in IRegs : r # i.a1.v => f.ireg[r] = d.ireg[r]
  BY SetsOne
<1>01. \A v : LET f == SetR(d, i, v) IN Machined(f) /\ f.imem = d.imem /\ f.ireg = d.ireg
  BY SetsNone DEF SetR
<1>1. CASE i.op \in {"COPYI", "PRNTI", "READI"}
  <2>1. e = MoveInt(d, i, x)
    BY <1>1 DEF Executed, RealTests, RealOps, Jumps
  <2>2. CASE i.op = "COPYI"
    <3>1. e = SetI(d, i, IVal(d, i.a2)) BY <2>1, <2>2 DEF MoveInt
    <3>. QED BY <3>1, <2>2, <1>0 DEF Unset, Writers
  <2>3. CASE i.op = "PRNTI"
    <3>0. PICK v : v = Append(d.out, <<"I", 2 * IVal(d, i.a1)>>)
      OBVIOUS
    <3>1. e = [d EXCEPT !.out = v]
      BY <2>1, <2>3, <3>0 DEF MoveInt
    <3>. QED BY <3>1, <2>3, SetsNone DEF Unset, Writers, RealTests
  <2>4. CASE i.op = "READI"
    <3>1. e = SetI(d, i, x) BY <2>1, <2>4 DEF MoveInt
    <3>. QED BY <3>1, <2>4, <1>0 DEF Unset, Writers
  <2>. QED BY <1>1, <2>2, <2>3, <2>4
<1>2. CASE i.op \in {"COPYR", "PRNTR", "READR"}
  <2>1. e = MoveReal(d, i, x)
    BY <1>2 DEF Executed, RealTests, RealOps, Jumps
  <2>2. Machined(e) /\ e.imem = d.imem /\ e.ireg = d.ireg
    <3>1. CASE i.op = "COPYR" BY <1>01, <3>1, <2>1 DEF MoveReal
    <3>2. CASE i.op = "PRNTR"
      <4>1. PICK v : v = Append(d.out, <<"R", RVal(d, i.a1)>>)
        OBVIOUS
      <4>2. e = [d EXCEPT !.out = v]
        BY <2>1, <3>2, <4>1 DEF MoveReal
      <4>. QED BY <4>2, SetsNone
    <3>3. CASE i.op = "READR" BY <1>01, <3>3, <2>1 DEF MoveReal
    <3>. QED BY <1>2, <3>1, <3>2, <3>3
  <2>. QED BY <2>2, <1>2 DEF Unset, Writers, RealTests
<1>3. CASE i.op \in {"SEQUI", "SNEQI", "SLETI", "SGRTI"}
  <2>1. e = CompareInt(d, i)
    BY <1>3 DEF Executed, RealTests, RealOps, Jumps
  <2>. QED BY <2>1, <1>3, <1>0 DEF CompareInt, Unset, Writers
<1>4. CASE i.op \in RealTests
  <2>1. e = CompareReal(d, i)
    BY <1>4 DEF Executed, RealTests, RealOps, Jumps
  <2>. QED BY <2>1, <1>4, <1>0 DEF CompareReal, Unset, Writers, RealTests
<1>5. CASE i.op \in {"ADD2I", "SUBTI", "MULTI", "DIVDI"}
  <2>1. e = ArithInt(d, i)
    BY <1>5 DEF Executed, RealTests, RealOps, Jumps
  <2>. QED BY <2>1, <1>5, <1>0 DEF ArithInt, Unset, Writers
<1>6. CASE i.op \in RealOps
  <2>1. e = ArithReal(d, i)
    BY <1>6 DEF Executed, RealTests, RealOps, Jumps
  <2>. QED BY <2>1, <1>6, <1>01 DEF ArithReal, Unset, Writers, RealTests, RealOps
<1>7. CASE i.op = "LOADI"
  <2>1. e = SetI(d, i, d.imem[Cell(d, i)])
    BY <1>7 DEF Executed, RealTests, RealOps, Jumps, MemoryInt
  <2>. QED BY <2>1, <1>7, <1>0 DEF Unset, Writers
<1>8. CASE i.op = "STORI"
  <2>1. e = [d EXCEPT !.imem = [d.imem EXCEPT ![Cell(d, i)] = d.ireg[i.a1.v]]]
    BY <1>8 DEF Executed, RealTests, RealOps, Jumps, MemoryInt
  <2>2. d = [ireg |-> d.ireg, rreg |-> d.rreg, imem |-> d.imem, rmem |-> d.rmem, out |-> d.out]
    BY DEF Machined
  <2>3. e = [ireg |-> d.ireg, rreg |-> d.rreg, imem |-> [d.imem EXCEPT ![Cell(d, i)] = d.ireg[i.a1.v]],
             rmem |-> d.rmem, out |-> d.out]
    BY <2>1, <2>2
  <2>4. /\ e = [ireg |-> e.ireg, rreg |-> e.rreg, imem |-> e.imem, rmem |-> e.rmem, out |-> e.out]
        /\ e.ireg = d.ireg /\ e.imem = [d.imem EXCEPT ![Cell(d, i)] = d.ireg[i.a1.v]]
    BY <2>3
  <2>5. d.ireg = [r \in IRegs |-> d.ireg[r]] /\ d.imem = [a \in Cells |-> d.imem[a]]
    BY DEF Machined, IRegs, Cells
  <2>6. e.imem = [a \in Cells |-> e.imem[a]]
    BY <2>4, <2>5
  <2>. QED BY <2>4, <2>5, <2>6, <1>8 DEF Machined, Unset, Writers, RealTests, IRegs, Cells
<1>9. CASE i.op \in {"LOADR", "STORR"}
  <2>1. e = MemoryReal(d, i)
    BY <1>9 DEF Executed, RealTests, RealOps, Jumps
  <2>2. Machined(e) /\ e.imem = d.imem /\ e.ireg = d.ireg
    <3>1. CASE i.op = "LOADR" BY <1>01, <3>1, <2>1 DEF MemoryReal
    <3>2. CASE i.op = "STORR"
      <4>0. PICK v : v = [d.rmem EXCEPT ![Cell(d, i)] = d.rreg[i.a1.v]]
        OBVIOUS
      <4>1. e = [d EXCEPT !.rmem = v]
        BY <3>2, <2>1, <4>0 DEF MemoryReal
      <4>. QED BY <4>1, SetsNone
    <3>. QED BY <1>9, <3>1, <3>2
  <2>. QED BY <2>2, <1>9 DEF Unset, Writers, RealTests
<1>10. CASE i.op = "CITOR"
  <2>1. e = SetR(d, i, 2 * IVal(d, i.a2))
    BY <1>10 DEF Executed, RealTests, RealOps, Jumps, Convert
  <2>. QED BY <2>1, <1>10, <1>01 DEF Unset, Writers, RealTests
<1>11. CASE i.op = "CRTOI"
  <2>1. e = SetI(d, i, ToInt(RVal(d, i.a2)))
    BY <1>11 DEF Executed, RealTests, RealOps, Jumps, Convert
  <2>. QED BY <2>1, <1>11, <1>0 DEF Unset, Writers
<1>12. CASE i.op \in {"UJUMP", "BREQZ", "BNEQZ", "RETRN", "HALT"}
  <2>1. e = d
    BY <1>12 DEF Executed, RealTests, RealOps, Jumps, Jump
  <2>. QED BY <2>1, <1>12 DEF Unset, Writers, RealTests
<1>13. CASE i.op = "JLINK"
  <2>1. e = Jump(d, i, l)
    BY <1>13 DEF Executed, RealTests, RealOps, Jumps
  <2>2. e = [d EXCEPT !.ireg = [d.ireg EXCEPT ![0] = l + 1]]
    BY <2>1, <1>13 DEF Jump
  <2>3. d = [ireg |-> d.ireg, rreg |-> d.rreg, imem |-> d.imem, rmem |-> d.rmem, out |-> d.out]
    BY DEF Machined
  <2>4. e = [ireg |-> [d.ireg EXCEPT ![0] = l + 1], rreg |-> d.rreg, imem |-> d.imem,
             rmem |-> d.rmem, out |-> d.out]
    BY <2>2, <2>3
  <2>5. /\ e = [ireg |-> e.ireg, rreg |-> e.rreg, imem |-> e.imem, rmem |-> e.rmem, out |-> e.out]
        /\ e.ireg = [d.ireg EXCEPT ![0] = l + 1] /\ e.imem = d.imem
    BY <2>4
  <2>6. d.ireg = [r \in IRegs |-> d.ireg[r]] /\ d.imem = [a \in Cells |-> d.imem[a]]
    BY DEF Machined, IRegs, Cells
  <2>7. e.ireg = [r \in IRegs |-> e.ireg[r]]
    BY <2>5, <2>6
  <2>. QED BY <2>5, <2>6, <2>7, <1>13 DEF Machined, Unset, Writers, RealTests, IRegs, Cells
<1>14. i.op \in IntOps \cup RealTests \cup RealOps \cup {"LOADR", "STORR"}
                \cup {"COPYI", "PRNTI", "READI", "COPYR", "PRNTR", "READR", "CITOR", "CRTOI"}
                \cup {"UJUMP", "JLINK", "BREQZ", "BNEQZ", "RETRN", "HALT"}
  BY DEF Opcodes, Moves, Jumps
<1>. QED BY <1>14, <1>1, <1>2, <1>3, <1>4, <1>5, <1>6, <1>7, <1>8, <1>9, <1>10, <1>11, <1>12, <1>13 DEF IntOps

\* ---- the instructions of the convention -------------------------------------------------

\* Instruction i, loaded from c, takes machine d to e and line l to n.
Runs(V, i, c, d, e, l, n) ==
  /\ RegFileSize > 2 /\ LoadedFrom(V, i, c) /\ Machined(d) /\ ~Undefined(d, i) /\ n = NextLine(d, i, l)
  /\ \E x : e = Executed(d, i, l, x)
Alike(d, e, S) == \A r \in S : e.ireg[r] = d.ireg[r]
Conventional == {0, 1, 2}

\* So does every line that has been loaded.
LEMMA RunsUnset ==
  ASSUME NEW V, NEW i, NEW c, NEW d, NEW e, NEW l, NEW n, Runs(V, i, c, d, e, l, n)
  PROVE  i.op = c.op /\ c.op \in Opcodes /\ Unset(d, i, e) /\ Machined(e) /\ Conventional \subseteq IRegs
<1>1. i.op = c.op /\ c.op \in Opcodes
  BY Operands DEF Runs
<1>2. PICK x : e = Executed(d, i, l, x)
  BY DEF Runs
<1>3. Unset(d, i, e)
  BY <1>1, <1>2, Executing DEF Runs
<1>4. Conventional \subseteq IRegs
  BY LoaderAssumption DEF Conventional, IRegs, Runs
<1>. QED BY <1>1, <1>3, <1>4 DEF Unset

\* Behind all but the jumps comes the next line.
LEMMA RunsOn ==
  ASSUME NEW V, NEW i, NEW c, NEW d, NEW e, NEW l, NEW n, Runs(V, i, c, d, e, l, n),
         c.op \notin {"UJUMP", "JLINK", "BREQZ", "BNEQZ", "RETRN", "HALT"}
  PROVE  n = l + 1
BY RunsUnset, ZenonT(60) DEF Runs, NextLine

\* A plain instruction leaves LR, FP, SP and the memory alone.
LEMMA PlainRuns ==
  ASSUME NEW V, NEW i, NEW c, NEW d, NEW e, NEW l, NEW n, Runs(V, i, c, d, e, l, n), Plain(c)
  PROVE  n = l + 1 /\ e.imem = d.imem /\ Alike(d, e, Conventional)
<1>1. i.op = c.op /\ c.op \in Opcodes /\ Unset(d, i, e) /\ Conventional \subseteq IRegs
  BY RunsUnset
<1>2. n = l + 1 /\ c.op # "STORI" /\ c.op # "JLINK"
  BY RunsOn DEF Plain, PlainOps
<1>3. CASE c.op \in Writers
  <2>1. Len(c.dest) = 1 /\ Ordinary(c.dest[1])
    BY <1>3 DEF Plain
  <2>2. i.a1 = MeantArg(Shape(c.op)[1], c.dest[1]) /\ c.dest[1].t \in Takes(Shape(c.op)[1], {})
    BY <2>1, FirstOperand DEF Runs
  <2>3. Shape(c.op)[1] = "I"
    <3>1. c.op \in IntOps \cup RealTests \cup {"COPYI", "READI", "CRTOI"}
      BY <1>3 DEF Writers, IntOps
    <3>2. Shape("CRTOI")[1] = "I"
      BY DEF Shape, Moves, Jumps, IntOps, RealTests, RealOps
    <3>. QED BY <3>1, <3>2, Shapes
  <2>4. c.dest[1].t = "I"
    BY <2>2, <2>3 DEF Takes
  <2>5. i.a1.v = c.dest[1].v
    BY <2>2, <2>4 DEF MeantArg, Arg
  <2>6. i.a1.v \notin Conventional
    BY <2>1, <2>4, <2>5 DEF Ordinary, Conventional
  <2>. QED BY <1>1, <1>2, <1>3, <2>6 DEF Unset, Alike
<1>4. CASE c.op \notin Writers
  BY <1>1, <1>2, <1>4 DEF Unset, Alike
<1>. QED BY <1>3, <1>4

\* The address of a memory instruction on FP or SP.
LEMMA OnBase ==
  ASSUME NEW V, NEW i, NEW c, NEW d, NEW e, NEW l, NEW n, Runs(V, i, c, d, e, l, n),
         Len(c.dest) = 1, NEW base \in {FP, SP}, NEW k, c.src0 = <<base>>, c.src1 = <<Const(k)>>,
         c.op \in {"ADD2I", "SUBTI", "LOADI", "STORI", "LOADR", "STORR"}
  PROVE  /\ IVal(d, i.a2) = d.ireg[base.v] /\ IVal(d, i.a3) = k
         /\ Cell(d, i) = d.ireg[base.v] + k
         /\ c.dest[1] \in {LR, FP, SP} => i.a1.v = c.dest[1].v
<1>1. /\ i.a1 = MeantArg(Shape(c.op)[1], c.dest[1]) /\ i.a2 = MeantArg(Shape(c.op)[2], base)
      /\ i.a3 = MeantArg(Shape(c.op)[3], Const(k))
  BY ThreeOperands DEF Runs
<1>2. Shape(c.op)[2] = "i" /\ Shape(c.op)[3] = "i"
  BY Shapes DEF IntOps
<1>3. i.a3 = Arg(TRUE, k)
  BY <1>1, <1>2, Meanings, ZenonT(90)
<1>4. i.a2 = Arg(FALSE, base.v)
  <2>1. FP.t = "I" /\ SP.t = "I"
    BY DEF FP, SP, Tok
  <2>. QED BY <1>1, <2>1 DEF MeantArg
<1>5. c.dest[1] \in {LR, FP, SP} => i.a1.v = c.dest[1].v
  <2>1. LR.t = "I" /\ FP.t = "I" /\ SP.t = "I"
    BY DEF LR, FP, SP, Tok
  <2>. QED BY <1>1, <2>1 DEF MeantArg, Arg
<1>6. IVal(d, i.a2) = d.ireg[base.v] /\ IVal(d, i.a3) = k
  BY <1>3, <1>4 DEF IVal, Arg
<1>. QED BY <1>5, <1>6 DEF Cell

\* A store changes one cell, the one it names.
LEMMA StoreRuns ==
  ASSUME NEW V, NEW i, NEW c, NEW d, NEW e, NEW l, NEW n, Runs(V, i, c, d, e, l, n),
         NEW base \in {FP, SP}, NEW k, Store(c, base, k)
  PROVE  /\ n = l + 1 /\ Alike(d, e, Conventional)
         /\ \A a \in Cells : a # d.ireg[base.v] + k => e.imem[a] = d.imem[a]
         /\ c.op = "STORI" => d.ireg[base.v] + k \in Cells
         /\ c.op = "STORI" /\ c.dest[1] \in {LR, FP, SP} =>
              e.imem[d.ireg[base.v] + k] = d.ireg[c.dest[1].v]
<1>1. i.op = c.op /\ c.op \in Opcodes /\ Unset(d, i, e) /\ Conventional \subseteq IRegs
  BY RunsUnset
<1>2. c.op \in {"STORI", "STORR"} /\ Len(c.dest) = 1 /\ c.src0 = <<base>> /\ c.src1 = <<Const(k)>>
  BY DEF Store
<1>3. n = l + 1
  BY <1>2, RunsOn
<1>4. Alike(d, e, Conventional)
  <2>1. c.op \notin Writers \cup {"JLINK"}
    BY <1>2 DEF Writers, RealTests
  <2>. QED BY <1>1, <2>1 DEF Unset, Alike
<1>5. Cell(d, i) = d.ireg[base.v] + k /\ (c.dest[1] \in {LR, FP, SP} => i.a1.v = c.dest[1].v)
  BY <1>2, OnBase
<1>6. CASE c.op = "STORR"
  BY <1>1, <1>3, <1>4, <1>6 DEF Unset
<1>7. CASE c.op = "STORI"
  <2>1. PICK x : e = Executed(d, i, l, x)
    BY DEF Runs
  <2>2. e = [d EXCEPT !.imem = [d.imem EXCEPT ![Cell(d, i)] = d.ireg[i.a1.v]]]
    BY <1>1, <1>7, <2>1 DEF Executed, RealTests, RealOps, Jumps, MemoryInt
  <2>3. d = [ireg |-> d.ireg, rreg |-> d.rreg, imem |-> d.imem, rmem |-> d.rmem, out |-> d.out]
        /\ d.imem = [a \in Cells |-> d.imem[a]]
    BY DEF Machined, Runs, Cells
  <2>4. e.imem = [d.imem EXCEPT ![Cell(d, i)] = d.ireg[i.a1.v]]
    BY <2>2, <2>3
  <2>5. Cell(d, i) \in Cells
    BY <1>1, <1>7 DEF Runs, Undefined, Cells
  <2>. QED BY <1>3, <1>4, <1>5, <2>3, <2>4, <2>5
<1>. QED BY <1>2, <1>6, <1>7

\* FP or SP is set to SP moved by k.
LEMMA MoveRuns ==
  ASSUME NEW V, NEW i, NEW c, NEW d, NEW e, NEW l, NEW n, Runs(V, i, c, d, e, l, n),
         NEW op \in {"ADD2I", "SUBTI"}, NEW x \in {FP, SP}, NEW k, OnSP(c, op, x, k)
  PROVE  /\ n = l + 1 /\ e.imem = d.imem /\ Alike(d, e, Conventional \ {x.v})
         /\ e.ireg[x.v] = (IF op = "ADD2I" THEN d.ireg[2] + k ELSE d.ireg[2] - k)
<1>1. i.op = c.op /\ c.op \in Opcodes /\ Unset(d, i, e) /\ Conventional \subseteq IRegs
  BY RunsUnset
<1>2. c.op = op /\ c.dest = <<x>> /\ c.src0 = <<SP>> /\ c.src1 = <<Const(k)>>
  BY DEF OnSP
<1>3. n = l + 1
  BY <1>2, RunsOn
<1>4. FP.v = 1 /\ SP.v = 2
  BY DEF FP, SP, Tok
<1>5. Len(c.dest) = 1 /\ c.dest[1] = x
  BY <1>2
<1>6. IVal(d, i.a2) = d.ireg[2] /\ IVal(d, i.a3) = k /\ i.a1.v = x.v
  <2>1. /\ IVal(d, i.a2) = d.ireg[SP.v] /\ IVal(d, i.a3) = k
        /\ c.dest[1] \in {LR, FP, SP} => i.a1.v = c.dest[1].v
    BY <1>2, <1>5, OnBase
  <2>. QED BY <2>1, <1>4, <1>5
<1>7. PICK v : v = IF op = "ADD2I" THEN d.ireg[2] + k ELSE d.ireg[2] - k
  OBVIOUS
<1>8. e = SetI(d, i, v)
  <2>1. PICK y : e = Executed(d, i, l, y)
    BY SMTT(40) DEF Runs
  <2>2. e = ArithInt(d, i)
    BY <1>1, <1>2, <2>1 DEF Executed, RealTests, RealOps, Jumps
  <2>. QED BY <1>1, <1>2, <1>6, <1>7, <2>2 DEF ArithInt
<1>9. e.ireg[x.v] = v
  <2>1. x.v \in IRegs
    BY <1>1, <1>4 DEF Conventional
  <2>2. Machined(d)
    BY DEF Runs
  <2>3. i.a1.v \in IRegs => e.ireg[i.a1.v] = v
    BY <1>8, <2>2, SetsOne
  <2>. QED BY <1>6, <2>1, <2>3
<1>10. e.imem = d.imem /\ Alike(d, e, Conventional \ {x.v})
  <2>1. c.op \in Writers /\ c.op # "STORI"
    BY <1>2 DEF Writers
  <2>. QED BY <1>1, <1>6, <2>1 DEF Unset, Alike
<1>. QED BY <1>3, <1>7, <1>9, <1>10

\* FP or LR is taken off the stack.
LEMMA LoadRuns ==
  ASSUME NEW V, NEW i, NEW c, NEW d, NEW e, NEW l, NEW n, Runs(V, i, c, d, e, l, n),
         NEW x \in {FP, LR}, NEW k, OnSP(c, "LOADI", x, k)
  PROVE  /\ n = l + 1 /\ e.imem = d.imem /\ Alike(d, e, Conventional \ {x.v})
         /\ e.ireg[x.v] = d.imem[d.ireg[2] + k]
<1>1. i.op = c.op /\ c.op \in Opcodes /\ Unset(d, i, e) /\ Conventional \subseteq IRegs
  BY RunsUnset
<1>2. c.op = "LOADI" /\ c.dest = <<x>> /\ c.src0 = <<SP>> /\ c.src1 = <<Const(k)>>
  BY DEF OnSP
<1>3. n = l + 1
  BY <1>2, RunsOn
<1>4. FP.v = 1 /\ SP.v = 2 /\ LR.v = 0
  BY DEF FP, SP, LR, Tok
<1>5. Len(c.dest) = 1 /\ c.dest[1] = x
  BY <1>2
<1>6. Cell(d, i) = d.ireg[2] + k /\ i.a1.v = x.v
  <2>1. /\ Cell(d, i) = d.ireg[SP.v] + k
        /\ c.dest[1] \in {LR, FP, SP} => i.a1.v = c.dest[1].v
    BY <1>2, <1>5, OnBase, SMTT(40)
  <2>. QED BY <2>1, <1>4, <1>5
<1>8. e = SetI(d, i, d.imem[Cell(d, i)])
  <2>1. PICK y : e = Executed(d, i, l, y)
    BY DEF Runs
  <2>. QED BY <1>1, <1>2, <2>1 DEF Executed, RealTests, RealOps, Jumps, MemoryInt
<1>9. e.ireg[x.v] = d.imem[Cell(d, i)]
  <2>1. x.v \in IRegs
    BY <1>1, <1>4 DEF Conventional
  <2>2. Machined(d)
    BY DEF Runs
  <2>3. i.a1.v \in IRegs => e.ireg[i.a1.v] = d.imem[Cell(d, i)]
    BY <1>8, <2>2, SetsOne
  <2>. QED BY <1>6, <2>1, <2>3
<1>10. e.imem = d.imem /\ Alike(d, e, Conventional \ {x.v})
  <2>1. c.op \in Writers /\ c.op # "STORI"
    BY <1>2 DEF Writers
  <2>. QED BY <1>1, <1>6, <2>1 DEF Unset, Alike
<1>. QED BY <1>3, <1>6, <1>9, <1>10

\* FP and SP at the beginning of the main block.
LEMMA ZeroRuns ==
  ASSUME NEW V, NEW i, NEW c, NEW d, NEW e, NEW l, NEW n, Runs(V, i, c, d, e, l, n),
         NEW x \in {FP, SP}, c.op = "COPYI", c.dest = <<x>>, c.src0 = <<Const(0)>>
  PROVE  /\ n = l + 1 /\ e.imem = d.imem /\ Alike(d, e, Conventional \ {x.v})
         /\ e.ireg[x.v] = 0
<1>1. i.op = c.op /\ c.op \in Opcodes /\ Unset(d, i, e) /\ Conventional \subseteq IRegs
  BY RunsUnset
<1>3. n = l + 1
  BY RunsOn
<1>4. FP.v = 1 /\ SP.v = 2 /\ FP.t = "I" /\ SP.t = "I"
  BY DEF FP, SP, Tok
<1>5. Len(c.dest) = 1 /\ c.dest[1] = x
  OBVIOUS
<1>6. i.a1.v = x.v /\ IVal(d, i.a2) = 0
  <2>1. LoadedFrom(V, i, c)
    BY DEF Runs
  <2>2. /\ i.a1 = MeantArg(Shape(c.op)[1], c.dest[1])
        /\ \A y : c.src0 = <<y>> => i.a2 = MeantArg(Shape(c.op)[2], y)
    BY <1>5, <2>1, FirstOperand
  <2>3. PICK z : z = 0
    OBVIOUS
  <2>4. c.src0 = <<Const(z)>>
    BY <2>3
  <2>5. i.a2 = MeantArg(Shape(c.op)[2], Const(z))
    BY <2>2, <2>4
  <2>6. Shape(c.op)[2] = "i"
    BY Shapes
  <2>7. i.a2 = Arg(TRUE, z)
    BY <2>5, <2>6, Meanings, ZenonT(60)
  <2>8. i.a1.v = x.v
    BY <2>2, <1>4, <1>5 DEF MeantArg, Arg
  <2>. QED BY <2>3, <2>7, <2>8 DEF IVal, Arg
<1>8. e = SetI(d, i, 0)
  <2>1. PICK y : e = Executed(d, i, l, y)
    BY DEF Runs
  <2>2. e = MoveInt(d, i, y)
    BY <1>1, <2>1 DEF Executed, RealTests, RealOps, Jumps
  <2>. QED BY <1>1, <1>6, <2>2 DEF MoveInt
<1>9. e.ireg[x.v] = 0
  <2>1. x.v \in IRegs
    BY <1>1, <1>4 DEF Conventional
  <2>2. Machined(d)
    BY DEF Runs
  <2>3. PICK v : v = 0
    OBVIOUS
  <2>4. e = SetI(d, i, v)
    BY <1>8, <2>3
  <2>5. i.a1.v \in IRegs => e.ireg[i.a1.v] = v
    BY <2>2, <2>4, SetsOne
  <2>. QED BY <1>6, <2>1, <2>3, <2>5
<1>10. e.imem = d.imem /\ Alike(d, e, Conventional \ {x.v})
  <2>1. c.op \in Writers /\ c.op # "STORI"
    BY DEF Writers
  <2>. QED BY <1>1, <1>6, <2>1 DEF Unset, Alike
<1>. QED BY <1>3, <1>9, <1>10

\* The jumps.
LEMMA LinkRuns ==
  ASSUME NEW V, NEW i, NEW c, NEW d, NEW e, NEW l, NEW n, Runs(V, i, c, d, e, l, n),
         c.op = "JLINK", c.dest = <<>>, c.src0 = <<Const(2)>>
  PROVE  /\ n = 2 /\ e.imem = d.imem /\ Alike(d, e, {1, 2}) /\ e.ireg[0] = l + 1
<1>1. i.op = c.op /\ c.op \in Opcodes /\ Unset(d, i, e) /\ Conventional \subseteq IRegs
  BY RunsUnset
<1>2. n = 2
  <2>1. PICK z : z = 2
    OBVIOUS
  <2>2. c.src0 = <<Const(z)>> /\ LoadedFrom(V, i, c)
    BY <2>1 DEF Runs
  <2>3. PICK y : y = Const(z)
    OBVIOUS
  <2>4. c.src0 = <<y>>
    BY <2>2, <2>3
  <2>5. i.a1 = MeantArg(Shape(c.op)[1], y)
    BY <2>2, <2>4, JumpOperands
  <2>6. Shape(c.op)[1] = "n"
    BY Shapes
  <2>7. i.a1 = Arg(TRUE, z)
    BY <2>3, <2>5, <2>6, Meanings, ZenonT(60)
  <2>8. n = i.a1.v
    BY <1>1 DEF Runs, NextLine
  <2>. QED BY <2>1, <2>7, <2>8 DEF Arg
<1>3. PICK x : e = Executed(d, i, l, x)
  BY DEF Runs
<1>4. e = Jump(d, i, l)
  BY <1>1, <1>3 DEF Executed, RealTests, RealOps, Jumps
<1>5. e = [d EXCEPT !.ireg = [d.ireg EXCEPT ![0] = l + 1]]
  BY <1>1, <1>4 DEF Jump
<1>6. d = [ireg |-> d.ireg, rreg |-> d.rreg, imem |-> d.imem, rmem |-> d.rmem, out |-> d.out]
      /\ d.ireg = [r \in IRegs |-> d.ireg[r]]
  BY DEF Machined, Runs, IRegs
<1>7. e.ireg = [d.ireg EXCEPT ![0] = l + 1] /\ e.imem = d.imem
  BY <1>5, <1>6
<1>. QED BY <1>1, <1>2, <1>6, <1>7 DEF Alike, Conventional

\* A jump changes nothing but the line.
LEMMA JumpRuns ==
  ASSUME NEW V, NEW i, NEW c, NEW d, NEW e, NEW l, NEW n, Runs(V, i, c, d, e, l, n),
         c.op \in {"UJUMP", "BREQZ", "BNEQZ", "RETRN", "HALT"}
  PROVE  /\ e.imem = d.imem /\ Alike(d, e, Conventional)
         /\ c.op = "RETRN" => n = d.ireg[0]
         /\ c.op = "HALT" => n = 0
         /\ \A v : c.op = "UJUMP" /\ c.dest = <<>> /\ c.src0 = <<Const(v)>> => n = v
         /\ \A v, x : c.op \in {"BREQZ", "BNEQZ"} /\ c.dest = <<>> /\ c.src0 = <<x>>
                        /\ c.src1 = <<Const(v)>> => n \in {v, l + 1}
<1>1. i.op = c.op /\ c.op \in Opcodes /\ Unset(d, i, e) /\ Conventional \subseteq IRegs
  BY RunsUnset
<1>2. c.op \notin Writers \cup {"JLINK"} /\ c.op # "STORI"
  BY DEF Writers, RealTests
<1>3. e.imem = d.imem /\ Alike(d, e, Conventional)
  BY <1>1, <1>2 DEF Unset, Alike
<1>4. n = NextLine(d, i, l) /\ LoadedFrom(V, i, c)
  BY DEF Runs
<1>5. (c.op = "RETRN" => n = d.ireg[0]) /\ (c.op = "HALT" => n = 0)
  BY <1>1, <1>4 DEF NextLine
<1>6. ASSUME NEW v, c.op = "UJUMP", c.dest = <<>>, c.src0 = <<Const(v)>> PROVE n = v
  <2>1. PICK y : y = Const(v)
    OBVIOUS
  <2>2. c.src0 = <<y>>
    BY <1>6, <2>1
  <2>3. i.a1 = MeantArg(Shape(c.op)[1], y)
    BY <1>4, <1>6, <2>2, JumpOperands
  <2>4. Shape(c.op)[1] = "n"
    BY <1>6, Shapes
  <2>5. i.a1 = Arg(TRUE, v)
    BY <2>1, <2>3, <2>4, Meanings, ZenonT(60)
  <2>6. n = i.a1.v
    BY <1>1, <1>4, <1>6 DEF NextLine
  <2>. QED BY <2>5, <2>6 DEF Arg
<1>7. ASSUME NEW v, NEW x, c.op \in {"BREQZ", "BNEQZ"}, c.dest = <<>>, c.src0 = <<x>>,
             c.src1 = <<Const(v)>>
      PROVE  n \in {v, l + 1}
  <2>1. PICK y : y = Const(v)
    OBVIOUS
  <2>2. c.src1 = <<y>>
    BY <1>7, <2>1
  <2>3. i.a2 = MeantArg(Shape(c.op)[2], y)
    BY <1>4, <1>7, <2>2, JumpOperands
  <2>4. Shape(c.op)[2] = "n"
    BY <1>7, Shapes
  <2>5. i.a2 = Arg(TRUE, v)
    BY <2>1, <2>3, <2>4, Meanings, ZenonT(60)
  <2>6. n \in {i.a2.v, l + 1}
    BY <1>1, <1>4, <1>7 DEF NextLine
  <2>. QED BY <2>5, <2>6 DEF Arg
<1>. QED BY <1>3, <1>5, <1>6, <1>7

\* ---- the activations on the stack -------------------------------------------------------

\* F are the addresses of the frames, o is the one of the activation that runs, 0 in the main
\* block; s registers are saved behind a frame.  Frames do not overlap.
Frames(F, f, o, s) ==
  /\ F \subseteq Nat \ {0} /\ f \in {"main", "fun"}
  /\ f = "main" => F = {} /\ o = 0
  /\ f = "fun" => o \in F /\ \A g \in F : g <= o
  /\ \A g, h \in F : g < h => g + 4 + s <= h
\* Where SP is in front of a statement.
Above(f, o, s) == IF f = "main" THEN 0 ELSE o + 3 + s
\* Cell a of the memory holds v.
Held(d, a, v) == a \in Cells /\ d.imem[a] = v
\* In front of a frame there is the old FP: 0, or the caller's frame, right below.
Chained(d, F, s) ==
  \A g \in F : \/ g = 1 /\ Held(d, 0, 0)
               \/ \E e \in F : g = e + 4 + s /\ Held(d, g - 1, e)
\* Line r is one to return to from frame g.
Back(code, at, in, g, r) ==
  r \in 1 .. Len(code) /\ at[r] = "back" /\ in[r] = IF g = 1 THEN "main" ELSE "fun"
\* The return addresses are in memory, or, in front of the prologue and behind the epilogue, in LR.
\* A function that does not save LR does not call.
Returning(q, code, at, in, d, F, o, a) ==
  IF Kept(q)
  THEN /\ \A g \in F : ~(a = "bare" /\ g = o) => g + 3 \in Cells /\ Back(code, at, in, g, d.imem[g + 3])
       /\ a = "bare" => Back(code, at, in, o, d.ireg[0])
  ELSE a # "saved" /\ F \subseteq {1} /\ (F # {} => Back(code, at, in, 1, d.ireg[0]))
\* FP and SP.
Pointers(d, a, o, b) ==
  /\ a \in {"level", "stored"} => d.ireg[1] = o /\ d.ireg[2] = b
  /\ a \in InCall => d.ireg[1] = b + 1 /\ d.ireg[2] = IF a \in {"pushed", "back"} THEN b + 4 ELSE b
  /\ a \in InCall \cup {"stored"} => Held(d, b, o)
  /\ a \in AtEnds => d.ireg[1] = o /\ d.ireg[2] = o + 3
Active(q, code, at, in, d, F, o, a, f) ==
  /\ Len(q) \in Nat /\ (Kept(q) => Len(q) > 0)
  /\ Frames(F, f, o, Len(q)) /\ Chained(d, F, Len(q)) /\ Returning(q, code, at, in, d, F, o, a)
  /\ Pointers(d, a, o, Above(f, o, Len(q)))

\* Nothing that counts is changed.
LEMMA QuietActive ==
  ASSUME NEW q, NEW code, NEW at, NEW in, NEW d, NEW e, NEW F, NEW o, NEW a, NEW f,
         Active(q, code, at, in, d, F, o, a, f), e.imem = d.imem, Alike(d, e, Conventional)
  PROVE  Active(q, code, at, in, e, F, o, a, f)
<1>1. e.ireg[0] = d.ireg[0] /\ e.ireg[1] = d.ireg[1] /\ e.ireg[2] = d.ireg[2]
  BY DEF Alike, Conventional
<1>2. \A x, v : Held(d, x, v) <=> Held(e, x, v)
  BY DEF Held
<1>3. Chained(e, F, Len(q))
  BY <1>2 DEF Active, Chained
<1>4. Returning(q, code, at, in, e, F, o, a)
  BY <1>1 DEF Active, Returning
<1>5. Pointers(e, a, o, Above(f, o, Len(q)))
  BY <1>1, <1>2 DEF Active, Pointers
<1>. QED BY <1>3, <1>4, <1>5 DEF Active

\* A store at x, above the running activation's return address.
Clear(q, a, f, o, x) ==
  /\ x \in Nat
  /\ f = "fun" => x >= o
  /\ f = "fun" /\ Kept(q) /\ a # "bare" => x # o + 3
\* A store that spares the chain of frames and the return addresses keeps both.
LEMMA StoreActive ==
  ASSUME NEW q, NEW code, NEW at, NEW in, NEW d, NEW e, NEW F, NEW o, NEW a, NEW f,
         Active(q, code, at, in, d, F, o, a, f), Alike(d, e, Conventional), NEW x,
         \A y \in Cells : y # x => e.imem[y] = d.imem[y], Clear(q, a, f, o, x)
  PROVE  Chained(e, F, Len(q)) /\ Returning(q, code, at, in, e, F, o, a)
<1>1. PICK s \in Nat : s = Len(q)
  BY DEF Active
<1>2. Frames(F, f, o, s) /\ Chained(d, F, s) /\ Returning(q, code, at, in, d, F, o, a)
  BY <1>1 DEF Active
<1>3. \A g \in F : f = "fun" /\ g \in Nat \ {0} /\ o \in Nat /\ x \in Nat /\ g <= o /\ o <= x
  BY <1>2 DEF Frames, Clear
<1>4. Chained(e, F, s)
  <2>. SUFFICES ASSUME NEW g \in F
                PROVE  \/ g = 1 /\ Held(e, 0, 0)
                       \/ \E h \in F : g = h + 4 + s /\ Held(e, g - 1, h)
    BY DEF Chained
  <2>1. g - 1 # x /\ g \in Nat /\ (g = 1 => 0 # x)
    BY <1>3
  <2>2. \/ g = 1 /\ Held(d, 0, 0)
        \/ \E h \in F : g = h + 4 + s /\ Held(d, g - 1, h)
    BY <1>2 DEF Chained
  <2>. QED BY <2>1, <2>2 DEF Held
<1>5. Returning(q, code, at, in, e, F, o, a)
  <2>1. e.ireg[0] = d.ireg[0]
    BY DEF Alike, Conventional
  <2>2. CASE Kept(q)
    <3>1. ASSUME NEW g \in F, ~(a = "bare" /\ g = o)
          PROVE  g + 3 \in Cells /\ Back(code, at, in, g, e.imem[g + 3])
      <4>1. g + 3 \in Cells /\ Back(code, at, in, g, d.imem[g + 3])
        BY <1>2, <2>2, <3>1 DEF Returning
      <4>2. g + 3 # x
        <5>1. CASE g = o
          BY <2>2, <3>1, <5>1, <1>3 DEF Clear
        <5>2. CASE g # o
          <6>1. g < o /\ o \in F
            BY <1>2, <1>3, <5>2 DEF Frames
          <6>2. g + 4 + s <= o
            BY <1>2, <6>1 DEF Frames
          <6>. QED BY <6>2, <1>3
        <5>. QED BY <5>1, <5>2
      <4>. QED BY <4>1, <4>2
    <3>2. a = "bare" => Back(code, at, in, o, e.ireg[0])
      BY <1>2, <2>1, <2>2 DEF Returning
    <3>. QED BY <2>2, <3>1, <3>2 DEF Returning
  <2>3. CASE ~Kept(q)
    BY <1>2, <2>1, <2>3 DEF Returning
  <2>. QED BY <2>2, <2>3
<1>. QED BY <1>1, <1>4, <1>5

\* The numbers in Active.
LEMMA ActiveNumbers ==
  ASSUME NEW q, NEW code, NEW at, NEW in, NEW d, NEW F, NEW o, NEW a, NEW f,
         Active(q, code, at, in, d, F, o, a, f)
  PROVE  \E s, b \in Nat : /\ s = Len(q) /\ b = Above(f, o, s) /\ o \in Nat /\ f \in {"main", "fun"}
                           /\ Kept(q) => s > 0
                           /\ f = "main" => o = 0 /\ b = 0 /\ F = {}
                           /\ f = "fun" => o > 0 /\ b = o + 3 + s /\ o \in F
<1>1. PICK s \in Nat : s = Len(q)
  BY DEF Active
<1>2. Frames(F, f, o, s) /\ (Kept(q) => s > 0)
  BY <1>1 DEF Active
<1>3. CASE f = "main"
  <2>1. o = 0 /\ F = {} /\ Above(f, o, s) = 0
    BY <1>2, <1>3 DEF Frames, Above
  <2>. QED BY <1>1, <1>2, <1>3, <2>1
<1>4. CASE f = "fun"
  <2>0. o \in F /\ F \subseteq Nat \ {0}
    BY <1>2, <1>4 DEF Frames
  <2>1. o \in F /\ o \in Nat /\ o > 0 /\ Above(f, o, s) = o + 3 + s
    BY <2>0, <1>4 DEF Above
  <2>2. o + 3 + s \in Nat
    BY <2>1
  <2>. QED BY <1>1, <1>2, <1>4, <2>1, <2>2
<1>. QED BY <1>2, <1>3, <1>4 DEF Frames

\* An activation's data being where they were, stage b follows when FP, SP and LR are right.
LEMMA ShiftActive ==
  ASSUME NEW q, NEW code, NEW at, NEW in, NEW d, NEW e, NEW F, NEW o, NEW a, NEW f,
         Active(q, code, at, in, d, F, o, a, f), NEW b, e.imem = d.imem,
         Returning(q, code, at, in, e, F, o, b), Pointers(e, b, o, Above(f, o, Len(q)))
  PROVE  Active(q, code, at, in, e, F, o, b, f)
BY DEF Active, Chained, Held

\* A stage that is not at the ends, reached without touching LR.
LEMMA ReturningSame ==
  ASSUME NEW q, NEW code, NEW at, NEW in, NEW d, NEW e, NEW F, NEW o, NEW a,
         Returning(q, code, at, in, d, F, o, a), e.imem = d.imem, e.ireg[0] = d.ireg[0], NEW b,
         b # "saved" \/ Kept(q), (a = "bare" \/ b = "bare") => ~Kept(q)
  PROVE  Returning(q, code, at, in, e, F, o, b)
BY DEF Returning

\* ---- the stages, one by one -------------------------------------------------------------

\* Line i takes stage a to stage b.
Shifts(q, code, at, in, V, i, c, d, e, l, n, F, o, a, f) ==
  Active(q, code, at, in, d, F, o, a, f) /\ Runs(V, i, c, d, e, l, n)

\* The old FP is stored.
LEMMA FPStored ==
  ASSUME NEW q, NEW code, NEW at, NEW in, NEW V, NEW i, NEW c, NEW d, NEW e, NEW l, NEW n,
         NEW F, NEW o, NEW a, NEW f, Shifts(q, code, at, in, V, i, c, d, e, l, n, F, o, a, f),
         a = "level", OnSP(c, "STORI", FP, 0)
  PROVE  n = l + 1 /\ Active(q, code, at, in, e, F, o, "stored", f)
<1>1. PICK s, b \in Nat : /\ s = Len(q) /\ b = Above(f, o, s) /\ o \in Nat /\ f \in {"main", "fun"}
                          /\ Kept(q) => s > 0
                          /\ f = "main" => o = 0 /\ b = 0 /\ F = {}
                          /\ f = "fun" => o > 0 /\ b = o + 3 + s /\ o \in F
  BY ActiveNumbers DEF Shifts
<1>2. d.ireg[1] = o /\ d.ireg[2] = b
  BY <1>1 DEF Shifts, Active, Pointers
<1>3. PICK k : k = 0
  OBVIOUS
<1>4. Store(c, SP, k) /\ c.op = "STORI" /\ c.dest[1] = FP
  BY <1>3 DEF OnSP, Store
<1>5. FP.v = 1 /\ SP.v = 2
  BY DEF FP, SP, Tok
<1>6. /\ n = l + 1 /\ Alike(d, e, Conventional)
      /\ \A y \in Cells : y # d.ireg[SP.v] + k => e.imem[y] = d.imem[y]
      /\ d.ireg[SP.v] + k \in Cells /\ e.imem[d.ireg[SP.v] + k] = d.ireg[FP.v]
  <2>1. Runs(V, i, c, d, e, l, n)
    BY DEF Shifts
  <2>2. /\ n = l + 1 /\ Alike(d, e, Conventional)
        /\ \A y \in Cells : y # d.ireg[SP.v] + k => e.imem[y] = d.imem[y]
        /\ c.op = "STORI" => d.ireg[SP.v] + k \in Cells
        /\ c.op = "STORI" /\ c.dest[1] \in {LR, FP, SP} =>
             e.imem[d.ireg[SP.v] + k] = d.ireg[c.dest[1].v]
    BY <1>4, <2>1, StoreRuns
  <2>. QED BY <1>4, <2>2
<1>7. d.ireg[SP.v] + k = b
  BY <1>2, <1>3, <1>5
<1>8. Held(e, b, o)
  BY <1>2, <1>5, <1>6, <1>7 DEF Held
<1>9. \A y \in Cells : y # b => e.imem[y] = d.imem[y]
  BY <1>6, <1>7
<1>10. Clear(q, a, f, o, b)
  BY <1>1 DEF Clear
<1>11. Active(q, code, at, in, d, F, o, a, f)
  BY DEF Shifts
<1>12. Chained(e, F, Len(q)) /\ Returning(q, code, at, in, e, F, o, a)
  BY <1>6, <1>9, <1>10, <1>11, StoreActive
<1>13. Returning(q, code, at, in, e, F, o, "stored")
  BY <1>12 DEF Returning
<1>14. e.ireg[1] = o /\ e.ireg[2] = b
  BY <1>2, <1>6 DEF Alike, Conventional
<1>15. Pointers(e, "stored", o, Above(f, o, Len(q)))
  BY <1>1, <1>8, <1>14 DEF Pointers, InCall, AtEnds
<1>. QED BY <1>6, <1>11, <1>12, <1>13, <1>15 DEF Active

\* The arguments are stored; and the return value; registers are saved.
LEMMA OtherStored ==
  ASSUME NEW q, NEW code, NEW at, NEW in, NEW V, NEW i, NEW c, NEW d, NEW e, NEW l, NEW n,
         NEW F, NEW o, NEW a, NEW f, Shifts(q, code, at, in, V, i, c, d, e, l, n, F, o, a, f),
         NEW base \in {FP, SP}, NEW k \in Nat, Store(c, base, k),
         \/ a = "moved" /\ base = SP /\ k > 0
         \/ a = "level" /\ f = "fun" /\ base = FP /\ k = 0
         \/ a = "bare" /\ f = "fun" /\ ~Kept(q) /\ base = SP
         \/ a = "saved" /\ f = "fun" /\ base = SP /\ k > 0
  PROVE  n = l + 1 /\ Active(q, code, at, in, e, F, o, a, f)
<1>1. PICK s, b \in Nat : /\ s = Len(q) /\ b = Above(f, o, s) /\ o \in Nat /\ f \in {"main", "fun"}
                          /\ Kept(q) => s > 0
                          /\ f = "main" => o = 0 /\ b = 0 /\ F = {}
                          /\ f = "fun" => o > 0 /\ b = o + 3 + s /\ o \in F
  BY ActiveNumbers DEF Shifts
<1>2. Pointers(d, a, o, b)
  BY <1>1 DEF Shifts, Active
<1>3. FP.v = 1 /\ SP.v = 2 /\ FP # SP
  BY DEF FP, SP, Tok
<1>4. /\ n = l + 1 /\ Alike(d, e, Conventional)
      /\ \A y \in Cells : y # d.ireg[base.v] + k => e.imem[y] = d.imem[y]
  <2>1. Runs(V, i, c, d, e, l, n)
    BY DEF Shifts
  <2>. QED BY <2>1, StoreRuns
<1>5. PICK x : x = d.ireg[base.v] + k
  OBVIOUS
<1>6. Clear(q, a, f, o, x) /\ (a = "moved" => x # b)
  <2>1. CASE a = "moved" /\ base = SP /\ k > 0
    <3>1. x = b + k
      BY <1>2, <1>3, <1>5, <2>1 DEF Pointers, InCall
    <3>. QED BY <1>1, <2>1, <3>1 DEF Clear
  <2>2. CASE a = "level" /\ f = "fun" /\ base = FP /\ k = 0
    <3>1. x = o
      BY <1>1, <1>2, <1>3, <1>5, <2>2 DEF Pointers
    <3>. QED BY <1>1, <2>2, <3>1 DEF Clear
  <2>3. CASE a = "bare" /\ f = "fun" /\ ~Kept(q) /\ base = SP
    <3>1. x = o + 3 + k
      BY <1>1, <1>2, <1>3, <1>5, <2>3 DEF Pointers, AtEnds
    <3>. QED BY <1>1, <2>3, <3>1 DEF Clear
  <2>4. CASE a = "saved" /\ f = "fun" /\ base = SP /\ k > 0
    <3>1. x = o + 3 + k
      BY <1>1, <1>2, <1>3, <1>5, <2>4 DEF Pointers, AtEnds
    <3>. QED BY <1>1, <2>4, <3>1 DEF Clear
  <2>. QED BY <2>1, <2>2, <2>3, <2>4
<1>7. Active(q, code, at, in, d, F, o, a, f)
  BY DEF Shifts
<1>8. \A y \in Cells : y # x => e.imem[y] = d.imem[y]
  BY <1>4, <1>5
<1>9. Chained(e, F, Len(q)) /\ Returning(q, code, at, in, e, F, o, a)
  BY <1>4, <1>6, <1>7, <1>8, StoreActive
<1>10. e.ireg[1] = d.ireg[1] /\ e.ireg[2] = d.ireg[2]
  BY <1>4 DEF Alike, Conventional
<1>11. Pointers(e, a, o, b)
  <2>1. a = "moved" => Held(e, b, o)
    BY <1>2, <1>6, <1>8 DEF Pointers, Held, InCall
  <2>2. a \in {"moved", "level", "bare", "saved"}
    OBVIOUS
  <2>. QED BY <1>2, <1>10, <2>1, <2>2 DEF Pointers, InCall, AtEnds
<1>. QED BY <1>1, <1>4, <1>7, <1>9, <1>11 DEF Active

\* The return address is saved.
LEMMA LRStored ==
  ASSUME NEW q, NEW code, NEW at, NEW in, NEW V, NEW i, NEW c, NEW d, NEW e, NEW l, NEW n,
         NEW F, NEW o, NEW a, NEW f, Shifts(q, code, at, in, V, i, c, d, e, l, n, F, o, a, f),
         a = "bare", f = "fun", Kept(q), OnSP(c, "STORI", LR, 0)
  PROVE  n = l + 1 /\ Active(q, code, at, in, e, F, o, "saved", f)
<1>1. PICK s, b \in Nat : /\ s = Len(q) /\ b = Above(f, o, s) /\ o \in Nat /\ f \in {"main", "fun"}
                          /\ Kept(q) => s > 0
                          /\ f = "main" => o = 0 /\ b = 0 /\ F = {}
                          /\ f = "fun" => o > 0 /\ b = o + 3 + s /\ o \in F
  BY ActiveNumbers DEF Shifts
<1>2. d.ireg[1] = o /\ d.ireg[2] = o + 3
  BY <1>1 DEF Shifts, Active, Pointers, AtEnds
<1>3. PICK k : k = 0
  OBVIOUS
<1>4. Store(c, SP, k) /\ c.op = "STORI" /\ c.dest[1] = LR
  BY <1>3 DEF OnSP, Store
<1>5. LR.v = 0 /\ SP.v = 2
  BY DEF LR, SP, Tok
<1>6. /\ n = l + 1 /\ Alike(d, e, Conventional)
      /\ \A y \in Cells : y # d.ireg[SP.v] + k => e.imem[y] = d.imem[y]
      /\ d.ireg[SP.v] + k \in Cells /\ e.imem[d.ireg[SP.v] + k] = d.ireg[LR.v]
  <2>1. Runs(V, i, c, d, e, l, n)
    BY DEF Shifts
  <2>2. /\ n = l + 1 /\ Alike(d, e, Conventional)
        /\ \A y \in Cells : y # d.ireg[SP.v] + k => e.imem[y] = d.imem[y]
        /\ c.op = "STORI" => d.ireg[SP.v] + k \in Cells
        /\ c.op = "STORI" /\ c.dest[1] \in {LR, FP, SP} =>
             e.imem[d.ireg[SP.v] + k] = d.ireg[c.dest[1].v]
    BY <1>4, <2>1, StoreRuns
  <2>. QED BY <1>4, <2>2
<1>7. PICK x : x = o + 3
  OBVIOUS
<1>8. d.ireg[SP.v] + k = x
  BY <1>1, <1>2, <1>3, <1>5, <1>7
<1>9. \A y \in Cells : y # x => e.imem[y] = d.imem[y]
  BY <1>6, <1>8
<1>10. Clear(q, a, f, o, x)
  BY <1>1, <1>7 DEF Clear
<1>11. Active(q, code, at, in, d, F, o, a, f)
  BY DEF Shifts
<1>12. Chained(e, F, Len(q)) /\ Returning(q, code, at, in, e, F, o, a)
  BY <1>6, <1>9, <1>10, <1>11, StoreActive
<1>13. Returning(q, code, at, in, e, F, o, "saved")
  <2>1. x \in Cells /\ e.imem[x] = d.ireg[0]
    BY <1>5, <1>6, <1>8
  <2>2. Back(code, at, in, o, d.ireg[0])
    BY <1>11 DEF Active, Returning
  <2>3. o + 3 \in Cells /\ Back(code, at, in, o, e.imem[o + 3])
    BY <1>7, <2>1, <2>2
  <2>4. \A g \in F : g # o => g + 3 \in Cells /\ Back(code, at, in, g, e.imem[g + 3])
    BY <1>12 DEF Returning
  <2>. QED BY <2>3, <2>4 DEF Returning
<1>14. e.ireg[1] = o /\ e.ireg[2] = o + 3
  BY <1>2, <1>6 DEF Alike, Conventional
<1>15. Pointers(e, "saved", o, Above(f, o, Len(q)))
  BY <1>14 DEF Pointers, InCall, AtEnds
<1>. QED BY <1>6, <1>11, <1>12, <1>13, <1>15 DEF Active

\* FP and SP are moved: FP to the callee's frame, SP behind its arguments, and back; at the end
\* of the prologue and the beginning of the epilogue.
MoveOf(q, a, f, c, op, x, k, b) ==
  /\ OnSP(c, op, x, k)
  /\ \/ a = "stored" /\ b = "moved" /\ op = "ADD2I" /\ x = FP /\ k = 1
     \/ a = "moved" /\ b = "pushed" /\ op = "ADD2I" /\ x = SP /\ k = 4
     \/ a = "back" /\ b = "popped" /\ op = "SUBTI" /\ x = SP /\ k = 4
     \/ f = "fun" /\ a = Ends(q) /\ b = "level" /\ op = "ADD2I" /\ x = SP /\ k = Len(q)
     \/ f = "fun" /\ a = "level" /\ b = Ends(q) /\ op = "SUBTI" /\ x = SP /\ k = Len(q)
\* An instruction that moves FP or SP takes the frames to its next stage.
LEMMA Moved ==
  ASSUME NEW q, NEW code, NEW at, NEW in, NEW V, NEW i, NEW c, NEW d, NEW e, NEW l, NEW n,
         NEW F, NEW o, NEW a, NEW f, Shifts(q, code, at, in, V, i, c, d, e, l, n, F, o, a, f),
         NEW op \in {"ADD2I", "SUBTI"}, NEW x \in {FP, SP}, NEW k, NEW b,
         MoveOf(q, a, f, c, op, x, k, b)
  PROVE  n = l + 1 /\ Active(q, code, at, in, e, F, o, b, f)
<1>1. PICK s, t \in Nat : /\ s = Len(q) /\ t = Above(f, o, s) /\ o \in Nat /\ f \in {"main", "fun"}
                          /\ Kept(q) => s > 0
                          /\ f = "main" => o = 0 /\ t = 0 /\ F = {}
                          /\ f = "fun" => o > 0 /\ t = o + 3 + s /\ o \in F
  BY ActiveNumbers DEF Shifts
<1>2. Active(q, code, at, in, d, F, o, a, f) /\ Pointers(d, a, o, t)
  BY <1>1 DEF Shifts, Active
<1>3. FP.v = 1 /\ SP.v = 2
  BY DEF FP, SP, Tok
<1>4. /\ n = l + 1 /\ e.imem = d.imem /\ Alike(d, e, Conventional \ {x.v})
      /\ e.ireg[x.v] = (IF op = "ADD2I" THEN d.ireg[2] + k ELSE d.ireg[2] - k)
  <2>1. Runs(V, i, c, d, e, l, n) /\ OnSP(c, op, x, k)
    BY DEF Shifts, MoveOf
  <2>. QED BY <2>1, MoveRuns, SMTT(40)
<1>5. /\ e.ireg[0] = d.ireg[0]
      /\ x = FP => e.ireg[2] = d.ireg[2] /\ e.ireg[1] = IF op = "ADD2I" THEN d.ireg[2] + k ELSE d.ireg[2] - k
      /\ x = SP => e.ireg[1] = d.ireg[1] /\ e.ireg[2] = IF op = "ADD2I" THEN d.ireg[2] + k ELSE d.ireg[2] - k
  BY <1>3, <1>4 DEF Alike, Conventional
<1>6. Returning(q, code, at, in, e, F, o, b)
  <2>1. Returning(q, code, at, in, d, F, o, a)
    BY <1>2 DEF Active
  <2>2. (b # "saved" \/ Kept(q)) /\ ((a = "bare" \/ b = "bare") => ~Kept(q))
    BY DEF MoveOf, Ends
  <2>. QED BY <1>4, <1>5, <2>1, <2>2, ReturningSame
<1>7. \A y, z : Held(d, y, z) <=> Held(e, y, z)
  BY <1>4 DEF Held
<1>8. Pointers(e, b, o, t)
  <2>1. CASE a = "stored" /\ b = "moved" /\ op = "ADD2I" /\ x = FP /\ k = 1
    <3>1. d.ireg[2] = t /\ Held(d, t, o)
      BY <1>2, <2>1 DEF Pointers
    <3>2. e.ireg[2] = t /\ e.ireg[1] = t + 1
      BY <1>5, <2>1, <3>1
    <3>. QED BY <1>7, <2>1, <3>1, <3>2 DEF Pointers, InCall, AtEnds
  <2>2. CASE a = "moved" /\ b = "pushed" /\ op = "ADD2I" /\ x = SP /\ k = 4
    <3>1. d.ireg[2] = t /\ Held(d, t, o) /\ d.ireg[1] = t + 1
      BY <1>2, <2>2 DEF Pointers, InCall
    <3>2. e.ireg[2] = t + 4 /\ e.ireg[1] = t + 1
      BY <1>5, <2>2, <3>1
    <3>. QED BY <1>7, <2>2, <3>1, <3>2 DEF Pointers, InCall, AtEnds
  <2>3. CASE a = "back" /\ b = "popped" /\ op = "SUBTI" /\ x = SP /\ k = 4
    <3>1. d.ireg[2] = t + 4 /\ Held(d, t, o) /\ d.ireg[1] = t + 1
      BY <1>2, <2>3 DEF Pointers, InCall
    <3>2. e.ireg[2] = t /\ e.ireg[1] = t + 1
      BY <1>5, <2>3, <3>1
    <3>. QED BY <1>7, <2>3, <3>1, <3>2 DEF Pointers, InCall, AtEnds
  <2>4. CASE f = "fun" /\ a = Ends(q) /\ b = "level" /\ op = "ADD2I" /\ x = SP /\ k = Len(q)
    <3>0. a \in AtEnds
      BY <2>4 DEF Ends, AtEnds
    <3>1. d.ireg[1] = o /\ d.ireg[2] = o + 3
      BY <1>2, <3>0 DEF Pointers
    <3>2. e.ireg[1] = o /\ e.ireg[2] = t
      BY <1>1, <1>5, <2>4, <3>1
    <3>. QED BY <2>4, <3>2 DEF Pointers, InCall, AtEnds
  <2>5. CASE f = "fun" /\ a = "level" /\ b = Ends(q) /\ op = "SUBTI" /\ x = SP /\ k = Len(q)
    <3>0. b \in AtEnds
      BY <2>5 DEF Ends, AtEnds
    <3>1. d.ireg[1] = o /\ d.ireg[2] = t
      BY <1>2, <2>5 DEF Pointers
    <3>2. e.ireg[1] = o /\ e.ireg[2] = o + 3
      BY <1>1, <1>5, <2>5, <3>1
    <3>. QED BY <3>0, <3>2 DEF Pointers, InCall, AtEnds
  <2>. QED BY <2>1, <2>2, <2>3, <2>4, <2>5 DEF MoveOf
<1>9. Pointers(e, b, o, Above(f, o, Len(q)))
  BY <1>1, <1>8
<1>. QED BY <1>2, <1>4, <1>6, <1>9, ShiftActive

\* The caller's FP is loaded.
LEMMA FPLoaded ==
  ASSUME NEW q, NEW code, NEW at, NEW in, NEW V, NEW i, NEW c, NEW d, NEW e, NEW l, NEW n,
         NEW F, NEW o, NEW a, NEW f, Shifts(q, code, at, in, V, i, c, d, e, l, n, F, o, a, f),
         a = "popped", OnSP(c, "LOADI", FP, 0)
  PROVE  n = l + 1 /\ Active(q, code, at, in, e, F, o, "level", f)
<1>1. PICK s, t \in Nat : /\ s = Len(q) /\ t = Above(f, o, s) /\ o \in Nat /\ f \in {"main", "fun"}
                          /\ Kept(q) => s > 0
                          /\ f = "main" => o = 0 /\ t = 0 /\ F = {}
                          /\ f = "fun" => o > 0 /\ t = o + 3 + s /\ o \in F
  BY ActiveNumbers DEF Shifts
<1>2. Active(q, code, at, in, d, F, o, a, f) /\ Pointers(d, a, o, t)
  BY <1>1 DEF Shifts, Active
<1>3. FP.v = 1 /\ SP.v = 2
  BY DEF FP, SP, Tok
<1>4. PICK k : k = 0
  OBVIOUS
<1>5. /\ n = l + 1 /\ e.imem = d.imem /\ Alike(d, e, Conventional \ {FP.v})
      /\ e.ireg[FP.v] = d.imem[d.ireg[2] + k]
  <2>1. Runs(V, i, c, d, e, l, n) /\ OnSP(c, "LOADI", FP, k)
    BY <1>4 DEF Shifts
  <2>. QED BY <2>1, LoadRuns
<1>6. d.ireg[2] = t /\ Held(d, t, o)
  BY <1>2 DEF Pointers, InCall
<1>7. e.ireg[0] = d.ireg[0] /\ e.ireg[2] = t /\ e.ireg[1] = o
  <2>1. d.ireg[2] + k = t
    BY <1>1, <1>4, <1>6
  <2>2. e.ireg[1] = d.imem[t]
    BY <1>3, <1>5, <2>1
  <2>. QED BY <1>3, <1>5, <1>6, <2>2 DEF Alike, Conventional, Held
<1>8. Returning(q, code, at, in, e, F, o, "level")
  <2>1. Returning(q, code, at, in, d, F, o, a)
    BY <1>2 DEF Active
  <2>. QED BY <1>5, <1>7, <2>1, ReturningSame
<1>9. Pointers(e, "level", o, Above(f, o, Len(q)))
  BY <1>1, <1>7 DEF Pointers, InCall, AtEnds
<1>. QED BY <1>2, <1>5, <1>8, <1>9, ShiftActive

\* The return address is loaded.
LEMMA LRLoaded ==
  ASSUME NEW q, NEW code, NEW at, NEW in, NEW V, NEW i, NEW c, NEW d, NEW e, NEW l, NEW n,
         NEW F, NEW o, NEW a, NEW f, Shifts(q, code, at, in, V, i, c, d, e, l, n, F, o, a, f),
         a = "saved", f = "fun", OnSP(c, "LOADI", LR, 0)
  PROVE  n = l + 1 /\ Active(q, code, at, in, e, F, o, "bare", f)
<1>1. PICK s, t \in Nat : /\ s = Len(q) /\ t = Above(f, o, s) /\ o \in Nat /\ f \in {"main", "fun"}
                          /\ Kept(q) => s > 0
                          /\ f = "main" => o = 0 /\ t = 0 /\ F = {}
                          /\ f = "fun" => o > 0 /\ t = o + 3 + s /\ o \in F
  BY ActiveNumbers DEF Shifts
<1>2. Active(q, code, at, in, d, F, o, a, f) /\ Pointers(d, a, o, t)
  BY <1>1 DEF Shifts, Active
<1>3. LR.v = 0 /\ SP.v = 2
  BY DEF LR, SP, Tok
<1>4. PICK k : k = 0
  OBVIOUS
<1>5. /\ n = l + 1 /\ e.imem = d.imem /\ Alike(d, e, Conventional \ {LR.v})
      /\ e.ireg[LR.v] = d.imem[d.ireg[2] + k]
  <2>1. Runs(V, i, c, d, e, l, n) /\ OnSP(c, "LOADI", LR, k)
    BY <1>4 DEF Shifts
  <2>. QED BY <2>1, LoadRuns
<1>6. d.ireg[1] = o /\ d.ireg[2] = o + 3
  BY <1>2 DEF Pointers, AtEnds
<1>7. e.ireg[1] = o /\ e.ireg[2] = o + 3 /\ e.ireg[0] = d.imem[o + 3]
  <2>1. d.ireg[2] + k = o + 3
    BY <1>1, <1>4, <1>6
  <2>2. e.ireg[0] = d.imem[o + 3]
    BY <1>3, <1>5, <2>1
  <2>. QED BY <1>3, <1>5, <1>6, <2>2 DEF Alike, Conventional
<1>8. Returning(q, code, at, in, e, F, o, "bare")
  <2>1. Returning(q, code, at, in, d, F, o, a) /\ o \in F
    BY <1>1, <1>2 DEF Active
  <2>2. Kept(q) /\ \A g \in F : g + 3 \in Cells /\ Back(code, at, in, g, d.imem[g + 3])
    BY <2>1 DEF Returning
  <2>. QED BY <1>5, <1>7, <2>1, <2>2 DEF Returning
<1>9. Pointers(e, "bare", o, Above(f, o, Len(q)))
  BY <1>7 DEF Pointers, InCall, AtEnds
<1>. QED BY <1>2, <1>5, <1>8, <1>9, ShiftActive

\* The main block's first instructions.
LEMMA Zeroes ==
  ASSUME NEW q, NEW code, NEW at, NEW in, NEW V, NEW i, NEW c, NEW d, NEW e, NEW l, NEW n,
         NEW F, NEW o, NEW a, NEW f, Shifts(q, code, at, in, V, i, c, d, e, l, n, F, o, a, f),
         a = "level", f = "main",
         c.op = "COPYI", c.dest \in {<<FP>>, <<SP>>}, c.src0 = <<Const(0)>>
  PROVE  n = l + 1 /\ Active(q, code, at, in, e, F, o, "level", f)
<1>1. PICK s, t \in Nat : /\ s = Len(q) /\ t = Above(f, o, s) /\ o \in Nat /\ f \in {"main", "fun"}
                          /\ Kept(q) => s > 0
                          /\ f = "main" => o = 0 /\ t = 0 /\ F = {}
                          /\ f = "fun" => o > 0 /\ t = o + 3 + s /\ o \in F
  BY ActiveNumbers DEF Shifts
<1>2. Active(q, code, at, in, d, F, o, a, f) /\ Pointers(d, a, o, t)
  BY <1>1 DEF Shifts, Active
<1>3. FP.v = 1 /\ SP.v = 2
  BY DEF FP, SP, Tok
<1>4. d.ireg[1] = 0 /\ d.ireg[2] = 0
  BY <1>1, <1>2 DEF Pointers
<1>5. PICK x \in {FP, SP} : c.dest = <<x>>
  OBVIOUS
<1>6. /\ n = l + 1 /\ e.imem = d.imem /\ Alike(d, e, Conventional \ {x.v})
      /\ e.ireg[x.v] = 0
  <2>1. Runs(V, i, c, d, e, l, n)
    BY DEF Shifts
  <2>. QED BY <1>5, <2>1, ZeroRuns, SMTT(40)
<1>7. Alike(d, e, Conventional)
  BY <1>3, <1>4, <1>5, <1>6 DEF Alike, Conventional
<1>. QED BY <1>2, <1>6, <1>7, QuietActive

\* The call: the function begins.
IsCall(c) == c.op = "JLINK" /\ c.dest = <<>> /\ c.src0 = <<Const(2)>>
Resumes(code, at, in, l, f) == l + 1 \in 1 .. Len(code) /\ at[l + 1] = "back" /\ in[l + 1] = f
Begun(q, code, at, in, e) == \E G, p : Active(q, code, at, in, e, G, p, "bare", "fun")
\* A call begins the function, with the place to return to in LR.
LEMMA Called ==
  ASSUME NEW q, NEW code, NEW at, NEW in, NEW V, NEW i, NEW c, NEW d, NEW e, NEW l, NEW n,
         NEW F, NEW o, NEW a, NEW f, Shifts(q, code, at, in, V, i, c, d, e, l, n, F, o, a, f),
         a = "pushed", IsCall(c), f = "fun" => Kept(q), Resumes(code, at, in, l, f)
  PROVE  n = 2 /\ Begun(q, code, at, in, e)
<1>1. PICK s, t \in Nat : /\ s = Len(q) /\ t = Above(f, o, s) /\ o \in Nat /\ f \in {"main", "fun"}
                          /\ Kept(q) => s > 0
                          /\ f = "main" => o = 0 /\ t = 0 /\ F = {}
                          /\ f = "fun" => o > 0 /\ t = o + 3 + s /\ o \in F
  BY ActiveNumbers DEF Shifts
<1>2. /\ Pointers(d, a, o, t) /\ Frames(F, f, o, s) /\ Chained(d, F, s)
      /\ Returning(q, code, at, in, d, F, o, a)
  BY <1>1 DEF Shifts, Active
<1>3. /\ n = 2 /\ e.imem = d.imem /\ Alike(d, e, {1, 2}) /\ e.ireg[0] = l + 1
  <2>1. Runs(V, i, c, d, e, l, n)
    BY DEF Shifts
  <2>. QED BY <2>1, LinkRuns DEF IsCall
<1>4. PICK p \in Nat : p = t + 1
  OBVIOUS
<1>5. PICK G : G = F \cup {p}
  OBVIOUS
<1>6. d.ireg[1] = t + 1 /\ d.ireg[2] = t + 4 /\ Held(d, t, o)
  BY <1>2 DEF Pointers, InCall
<1>7. e.ireg[1] = p /\ e.ireg[2] = p + 3
  <2>1. e.ireg[1] = t + 1 /\ e.ireg[2] = t + 4
    BY <1>3, <1>6 DEF Alike
  <2>. QED BY <1>4, <2>1
<1>8. \A g \in F : g \in Nat \ {0} /\ g + 4 + s <= p
  <2>. SUFFICES ASSUME NEW g \in F PROVE g \in Nat \ {0} /\ g + 4 + s <= p
    OBVIOUS
  <2>1. g \in Nat \ {0}
    BY <1>2 DEF Frames
  <2>2. f = "fun" /\ g <= o /\ p = o + 4 + s
    BY <1>1, <1>2, <1>4 DEF Frames
  <2>3. CASE g = o
    BY <1>1, <2>2, <2>3
  <2>4. CASE g # o
    <3>1. o \in F /\ g < o
      BY <1>1, <2>1, <2>2, <2>4
    <3>2. g + 4 + s <= o
      BY <1>2, <3>1 DEF Frames
    <3>. QED BY <1>1, <2>1, <2>2, <3>2
  <2>. QED BY <2>1, <2>3, <2>4
<1>9. Frames(G, "fun", p, s)
  <2>1. G \subseteq Nat \ {0}
    BY <1>4, <1>5, <1>8
  <2>2. p \in G /\ \A g \in G : g <= p
    BY <1>4, <1>5, <1>8
  <2>3. ASSUME NEW g \in G, NEW h \in G, g < h PROVE g + 4 + s <= h
    <3>1. CASE h = p
      <4>1. g # p
        BY <2>3, <3>1, <1>4
      <4>. QED BY <1>5, <1>8, <3>1, <4>1
    <3>2. CASE h # p
      <4>1. h \in F /\ h \in Nat /\ h + 4 + s <= p
        BY <1>5, <1>8, <3>2
      <4>2. g # p
        BY <2>3, <4>1, <1>4
      <4>. QED BY <1>2, <1>5, <2>3, <4>1, <4>2 DEF Frames
    <3>. QED BY <3>1, <3>2
  <2>. QED BY <2>1, <2>2, <2>3 DEF Frames
<1>10. Chained(e, G, s)
  <2>. SUFFICES ASSUME NEW g \in G
                PROVE  \/ g = 1 /\ Held(e, 0, 0)
                       \/ \E h \in G : g = h + 4 + s /\ Held(e, g - 1, h)
    BY DEF Chained
  <2>0. \A y, z : Held(d, y, z) <=> Held(e, y, z)
    BY <1>3 DEF Held
  <2>1. CASE g \in F
    BY <1>2, <1>5, <2>0, <2>1 DEF Chained
  <2>2. CASE g = p /\ f = "main"
    <3>1. o = 0 /\ t = 0 /\ p = 1
      BY <1>1, <1>4, <2>2
    <3>. QED BY <1>6, <2>0, <2>2, <3>1
  <2>3. CASE g = p /\ f = "fun"
    <3>1. o \in G /\ p = o + 4 + s /\ p - 1 = t
      BY <1>1, <1>4, <1>5, <2>3
    <3>. QED BY <1>6, <2>0, <2>3, <3>1
  <2>. QED BY <1>1, <1>5, <2>1, <2>2, <2>3
<1>11. Back(code, at, in, p, l + 1)
  <2>1. p = 1 <=> f = "main"
    BY <1>1, <1>4
  <2>. QED BY <1>1, <2>1 DEF Back, Resumes
<1>12. Returning(q, code, at, in, e, G, p, "bare")
  <2>1. CASE Kept(q)
    <3>1. \A g \in F : g + 3 \in Cells /\ Back(code, at, in, g, d.imem[g + 3])
      BY <1>2, <2>1 DEF Returning
    <3>2. \A g \in G : g # p => g + 3 \in Cells /\ Back(code, at, in, g, e.imem[g + 3])
      BY <1>3, <1>5, <3>1
    <3>. QED BY <1>3, <1>11, <2>1, <3>2 DEF Returning
  <2>2. CASE ~Kept(q)
    <3>1. f = "main" /\ p = 1 /\ G = {1}
      BY <1>1, <1>4, <1>5, <2>2
    <3>. QED BY <1>3, <1>11, <2>2, <3>1 DEF Returning
  <2>. QED BY <2>1, <2>2
<1>13. Pointers(e, "bare", p, Above("fun", p, s))
  BY <1>7 DEF Pointers, InCall, AtEnds
<1>14. Active(q, code, at, in, e, G, p, "bare", "fun")
  BY <1>1, <1>9, <1>10, <1>12, <1>13 DEF Active
<1>. QED BY <1>3, <1>14 DEF Begun

\* The return.
LEMMA Returned ==
  ASSUME NEW q, NEW code, NEW at, NEW in, NEW V, NEW i, NEW c, NEW d, NEW e, NEW l, NEW n,
         NEW F, NEW o, NEW a, NEW f, Shifts(q, code, at, in, V, i, c, d, e, l, n, F, o, a, f),
         a = "bare", f = "fun", c.op = "RETRN"
  PROVE  n \in 1 .. Len(code) /\ \E G, p : Active(q, code, at, in, e, G, p, at[n], in[n])
<1>1. PICK s, t \in Nat : /\ s = Len(q) /\ t = Above(f, o, s) /\ o \in Nat /\ f \in {"main", "fun"}
                          /\ Kept(q) => s > 0
                          /\ f = "main" => o = 0 /\ t = 0 /\ F = {}
                          /\ f = "fun" => o > 0 /\ t = o + 3 + s /\ o \in F
  BY ActiveNumbers DEF Shifts
<1>2. /\ Pointers(d, a, o, t) /\ Frames(F, f, o, s) /\ Chained(d, F, s) /\ o \in F
      /\ Returning(q, code, at, in, d, F, o, a)
  BY <1>1 DEF Shifts, Active
<1>3. e.imem = d.imem /\ Alike(d, e, Conventional) /\ n = d.ireg[0]
  <2>1. Runs(V, i, c, d, e, l, n)
    BY DEF Shifts
  <2>. QED BY <2>1, JumpRuns
<1>4. e.ireg[0] = d.ireg[0] /\ e.ireg[1] = d.ireg[1] /\ e.ireg[2] = d.ireg[2]
  BY <1>3 DEF Alike, Conventional
<1>5. Back(code, at, in, o, n)
  <2>1. CASE Kept(q)
    BY <1>2, <1>3, <2>1 DEF Returning
  <2>2. CASE ~Kept(q)
    <3>1. o = 1 /\ F # {}
      BY <1>2, <2>2 DEF Returning
    <3>. QED BY <1>2, <1>3, <2>2, <3>1 DEF Returning
  <2>. QED BY <2>1, <2>2
<1>6. n \in 1 .. Len(code) /\ at[n] = "back" /\ in[n] = IF o = 1 THEN "main" ELSE "fun"
  BY <1>5 DEF Back
<1>7. PICK G : G = F \ {o}
  OBVIOUS
<1>8. e.ireg[1] = o /\ e.ireg[2] = o + 3
  BY <1>2, <1>4 DEF Pointers, AtEnds
<1>9. \A y, z : Held(d, y, z) <=> Held(e, y, z)
  BY <1>3 DEF Held
<1>10. \A g \in F : g \in Nat \ {0} /\ g <= o
  BY <1>1, <1>2 DEF Frames
<1>11. \A g \in G : g \in F /\ g \in Nat \ {0} /\ g + 4 + s <= o
  <2>. SUFFICES ASSUME NEW g \in G PROVE g \in F /\ g \in Nat \ {0} /\ g + 4 + s <= o
    OBVIOUS
  <2>1. g \in F /\ g \in Nat \ {0} /\ g < o
    BY <1>1, <1>7, <1>10
  <2>. QED BY <1>2, <2>1 DEF Frames
<1>12. Chained(e, G, s)
  <2>. SUFFICES ASSUME NEW g \in G
                PROVE  \/ g = 1 /\ Held(e, 0, 0)
                       \/ \E h \in G : g = h + 4 + s /\ Held(e, g - 1, h)
    BY DEF Chained
  <2>1. g \in F /\ g + 4 + s <= o /\ g \in Nat
    BY <1>11
  <2>2. \/ g = 1 /\ Held(d, 0, 0)
        \/ \E h \in F : g = h + 4 + s /\ Held(d, g - 1, h)
    BY <1>2, <2>1 DEF Chained
  <2>3. CASE g = 1 /\ Held(d, 0, 0)
    BY <1>9, <2>3
  <2>4. CASE \E h \in F : g = h + 4 + s /\ Held(d, g - 1, h)
    <3>1. PICK h \in F : g = h + 4 + s /\ Held(d, g - 1, h)
      BY <2>4
    <3>2. h \in Nat /\ h # o
      BY <1>1, <1>10, <2>1, <3>1
    <3>. QED BY <1>7, <1>9, <3>1, <3>2
  <2>. QED BY <2>2, <2>3, <2>4
<1>14. \A p : Returning(q, code, at, in, e, G, p, "back")
  <2>. SUFFICES ASSUME NEW p PROVE Returning(q, code, at, in, e, G, p, "back")
    OBVIOUS
  <2>1. CASE Kept(q)
    <3>1. \A g \in G : g + 3 \in Cells /\ Back(code, at, in, g, d.imem[g + 3])
      BY <1>2, <1>7, <2>1 DEF Returning
    <3>. QED BY <1>3, <2>1, <3>1 DEF Returning
  <2>2. CASE ~Kept(q)
    <3>1. G = {}
      BY <1>2, <1>7, <2>2 DEF Returning
    <3>. QED BY <2>2, <3>1 DEF Returning
  <2>. QED BY <2>1, <2>2
<1>15. CASE o = 1
  <2>1. G = {}
    BY <1>1, <1>11, <1>15
  <2>2. PICK z : z = 0
    OBVIOUS
  <2>3. Held(d, 0, 0)
    <3>1. \/ o = 1 /\ Held(d, 0, 0)
          \/ \E h \in F : o = h + 4 + s /\ Held(d, o - 1, h)
      BY <1>2 DEF Chained
    <3>2. \A h \in F : o # h + 4 + s
      BY <1>1, <1>10, <1>15
    <3>. QED BY <3>1, <3>2
  <2>4. Above("main", z, s) = 0
    BY DEF Above
  <2>5. Pointers(e, "back", z, Above("main", z, s))
    <3>1. e.ireg[1] = 1 /\ e.ireg[2] = 4 /\ Held(e, 0, z)
      BY <1>8, <1>9, <1>15, <2>2, <2>3
    <3>. QED BY <2>4, <3>1 DEF Pointers, InCall, AtEnds
  <2>6. Frames(G, "main", z, s)
    BY <2>1, <2>2 DEF Frames
  <2>7. Active(q, code, at, in, e, G, z, "back", "main")
    BY <1>1, <1>12, <1>14, <2>5, <2>6 DEF Active
  <2>. QED BY <1>6, <1>15, <2>7
<1>16. CASE o # 1
  <2>1. PICK p \in F : o = p + 4 + s /\ Held(d, o - 1, p)
    BY <1>2, <1>16 DEF Chained
  <2>2. p \in Nat \ {0} /\ p # o /\ p \in G
    BY <1>1, <1>7, <1>10, <2>1
  <2>3. Above("fun", p, s) = o - 1
    BY <1>1, <2>1, <2>2 DEF Above
  <2>4. Pointers(e, "back", p, o - 1)
    <3>1. e.ireg[1] = (o - 1) + 1 /\ e.ireg[2] = (o - 1) + 4 /\ Held(e, o - 1, p)
      BY <1>1, <1>8, <1>9, <2>1
    <3>. QED BY <3>1 DEF Pointers, InCall, AtEnds
  <2>5. \A g \in G : g <= p
    <3>. SUFFICES ASSUME NEW g \in G, p < g PROVE FALSE
      BY <1>11, <2>2
    <3>1. p + 4 + s <= g /\ g + 4 + s <= o /\ g \in Nat
      BY <1>2, <1>11, <2>2 DEF Frames
    <3>. QED BY <1>1, <2>1, <2>2, <3>1
  <2>6. Frames(G, "fun", p, s)
    BY <1>2, <1>11, <2>2, <2>5 DEF Frames
  <2>7. Active(q, code, at, in, e, G, p, "back", "fun")
    BY <1>1, <1>12, <1>14, <2>3, <2>4, <2>6 DEF Active
  <2>. QED BY <1>6, <1>16, <2>7
<1>. QED BY <1>15, <1>16

\* A line that passes on to the next one.
LEMMA PassesActive ==
  ASSUME NEW q, NEW code, NEW at, NEW in, NEW V, NEW i, NEW c, NEW d, NEW e, NEW l, NEW n,
         NEW F, NEW o, NEW a, NEW f, Shifts(q, code, at, in, V, i, c, d, e, l, n, F, o, a, f),
         NEW b, Passes(q, a, f, c, b), c.op # "JLINK"
  PROVE  n = l + 1 /\ Active(q, code, at, in, e, F, o, b, f)
<1>0. Active(q, code, at, in, d, F, o, a, f) /\ Runs(V, i, c, d, e, l, n)
  BY DEF Shifts
<1>1. CASE a = b /\ Plain(c)
  <2>1. n = l + 1 /\ e.imem = d.imem /\ Alike(d, e, Conventional)
    BY <1>0, <1>1, PlainRuns
  <2>. QED BY <1>0, <1>1, <2>1, QuietActive
<1>2. CASE a = b /\ \E base \in {FP, SP} : \E k \in Nat : /\ Store(c, base, k)
                      /\ \/ a = "moved" /\ base = SP /\ k > 0
                         \/ a = "level" /\ f = "fun" /\ base = FP /\ k = 0
                         \/ a = "bare" /\ f = "fun" /\ ~Kept(q) /\ base = SP
                         \/ a = "saved" /\ f = "fun" /\ base = SP /\ k > 0
  <2>1. PICK base \in {FP, SP} : \E k \in Nat : /\ Store(c, base, k)
                      /\ \/ a = "moved" /\ base = SP /\ k > 0
                         \/ a = "level" /\ f = "fun" /\ base = FP /\ k = 0
                         \/ a = "bare" /\ f = "fun" /\ ~Kept(q) /\ base = SP
                         \/ a = "saved" /\ f = "fun" /\ base = SP /\ k > 0
    BY <1>2
  <2>2. PICK k \in Nat : /\ Store(c, base, k)
                         /\ \/ a = "moved" /\ base = SP /\ k > 0
                            \/ a = "level" /\ f = "fun" /\ base = FP /\ k = 0
                            \/ a = "bare" /\ f = "fun" /\ ~Kept(q) /\ base = SP
                            \/ a = "saved" /\ f = "fun" /\ base = SP /\ k > 0
    BY <2>1
  <2>3. n = l + 1 /\ Active(q, code, at, in, e, F, o, a, f)
    BY <2>2, OtherStored
  <2>. QED BY <1>2, <2>3
<1>3. CASE /\ a = "level" /\ b = "level" /\ f = "main"
           /\ c.op = "COPYI" /\ c.dest \in {<<FP>>, <<SP>>} /\ c.src0 = <<Const(0)>>
  <2>1. n = l + 1 /\ Active(q, code, at, in, e, F, o, "level", f)
    BY <1>3, Zeroes
  <2>. QED BY <1>3, <2>1
<1>4. CASE a = "level" /\ b = "stored" /\ OnSP(c, "STORI", FP, 0)
  BY <1>4, FPStored
<1>5. CASE \E op \in {"ADD2I", "SUBTI"} : \E x \in {FP, SP} : \E k : MoveOf(q, a, f, c, op, x, k, b)
  <2>1. PICK op \in {"ADD2I", "SUBTI"} : \E x \in {FP, SP} : \E k : MoveOf(q, a, f, c, op, x, k, b)
    BY <1>5
  <2>2. PICK x \in {FP, SP} : \E k : MoveOf(q, a, f, c, op, x, k, b)
    BY <2>1
  <2>3. PICK k : MoveOf(q, a, f, c, op, x, k, b)
    BY <2>2
  <2>. QED BY <2>3, Moved
<1>6. CASE a = "popped" /\ b = "level" /\ OnSP(c, "LOADI", FP, 0)
  BY <1>6, FPLoaded
<1>7. CASE f = "fun" /\ a = "bare" /\ b = "saved" /\ Kept(q) /\ OnSP(c, "STORI", LR, 0)
  BY <1>7, LRStored
<1>8. CASE f = "fun" /\ a = "saved" /\ b = "bare" /\ OnSP(c, "LOADI", LR, 0)
  BY <1>8, LRLoaded
<1>9. \/ a = b /\ Plain(c)
      \/ a = b /\ \E base \in {FP, SP} : \E k \in Nat : /\ Store(c, base, k)
                      /\ \/ a = "moved" /\ base = SP /\ k > 0
                         \/ a = "level" /\ f = "fun" /\ base = FP /\ k = 0
                         \/ a = "bare" /\ f = "fun" /\ ~Kept(q) /\ base = SP
                         \/ a = "saved" /\ f = "fun" /\ base = SP /\ k > 0
      \/ /\ a = "level" /\ b = "level" /\ f = "main"
         /\ c.op = "COPYI" /\ c.dest \in {<<FP>>, <<SP>>} /\ c.src0 = <<Const(0)>>
      \/ a = "level" /\ b = "stored" /\ OnSP(c, "STORI", FP, 0)
      \/ \E op \in {"ADD2I", "SUBTI"} : \E x \in {FP, SP} : \E k : MoveOf(q, a, f, c, op, x, k, b)
      \/ a = "popped" /\ b = "level" /\ OnSP(c, "LOADI", FP, 0)
      \/ f = "fun" /\ a = "bare" /\ b = "saved" /\ Kept(q) /\ OnSP(c, "STORI", LR, 0)
      \/ f = "fun" /\ a = "saved" /\ b = "bare" /\ OnSP(c, "LOADI", LR, 0)
  <2>1. CASE a = b /\ a \in {"level", "moved", "bare"} /\ Plain(c)
    BY <2>1
  <2>2. CASE a = "level" /\ b = "level" /\ f = "fun" /\ Store(c, FP, 0)
    BY <2>2
  <2>3. CASE a = "moved" /\ b = "moved" /\ \E k \in Nat \ {0} : Store(c, SP, k)
    <3>1. PICK k \in Nat \ {0} : Store(c, SP, k)
      BY <2>3
    <3>. QED BY <2>3, <3>1
  <2>4. CASE f = "fun" /\ a = "bare" /\ b = "bare" /\ ~Kept(q) /\ \E k \in Nat : Store(c, SP, k)
    BY <2>4
  <2>5. CASE f = "fun" /\ a = "saved" /\ b = "saved" /\ \E k \in Nat \ {0} : Store(c, SP, k)
    <3>1. PICK k \in Nat \ {0} : Store(c, SP, k)
      BY <2>5
    <3>. QED BY <2>5, <3>1
  <2>6. CASE \/ a = "stored" /\ b = "moved" /\ OnSP(c, "ADD2I", FP, 1)
             \/ a = "moved" /\ b = "pushed" /\ OnSP(c, "ADD2I", SP, 4)
             \/ a = "back" /\ b = "popped" /\ OnSP(c, "SUBTI", SP, 4)
             \/ f = "fun" /\ a = Ends(q) /\ b = "level" /\ OnSP(c, "ADD2I", SP, Len(q))
             \/ f = "fun" /\ a = "level" /\ b = Ends(q) /\ OnSP(c, "SUBTI", SP, Len(q))
    <3>1. \/ MoveOf(q, a, f, c, "ADD2I", FP, 1, b) \/ MoveOf(q, a, f, c, "ADD2I", SP, 4, b)
          \/ MoveOf(q, a, f, c, "SUBTI", SP, 4, b) \/ MoveOf(q, a, f, c, "ADD2I", SP, Len(q), b)
          \/ MoveOf(q, a, f, c, "SUBTI", SP, Len(q), b)
      BY <2>6 DEF MoveOf
    <3>. QED BY <3>1
  <2>7. CASE \/ /\ a = "level" /\ b = "level" /\ f = "main"
                /\ c.op = "COPYI" /\ c.dest \in {<<FP>>, <<SP>>} /\ c.src0 = <<Const(0)>>
             \/ a = "level" /\ b = "stored" /\ OnSP(c, "STORI", FP, 0)
             \/ a = "popped" /\ b = "level" /\ OnSP(c, "LOADI", FP, 0)
             \/ f = "fun" /\ a = "bare" /\ b = "saved" /\ Kept(q) /\ OnSP(c, "STORI", LR, 0)
             \/ f = "fun" /\ a = "saved" /\ b = "bare" /\ OnSP(c, "LOADI", LR, 0)
    BY <2>7
  <2>. QED BY <2>1, <2>2, <2>3, <2>4, <2>5, <2>6, <2>7 DEF Passes
<1>. QED BY <1>1, <1>2, <1>3, <1>4, <1>5, <1>6, <1>7, <1>8, <1>9

\* Where the machine is: in front of a line, with the frames of the activations there are.
StandsAt(q, code, at, in, d, n) ==
  n \in 1 .. Len(code) /\ \E F, o : Active(q, code, at, in, d, F, o, at[n], in[n])

\* Every line leads to another, or to the end.
LEMMA LineActive ==
  ASSUME NEW q, NEW code, NEW at, NEW in, Laid(q, code, at, in),
         NEW V, NEW i, NEW d, NEW e, NEW l, StandsAt(q, code, at, in, d, l),
         NEW c, c = code[l], NEW n, Runs(V, i, c, d, e, l, n)
  PROVE  n = 0 \/ StandsAt(q, code, at, in, e, n)
<1>1. PICK N \in Nat : N = Len(code) /\ N > 1
  BY DEF Laid
<1>2. l \in 1 .. N /\ LineRuled(q, code, at, in, l)
  BY <1>1 DEF StandsAt, Laid
<1>3. PICK F, o : Active(q, code, at, in, d, F, o, at[l], in[l])
  BY DEF StandsAt
<1>4. PICK a, f : a = at[l] /\ f = in[l]
  OBVIOUS
<1>5. Shifts(q, code, at, in, V, i, c, d, e, l, n, F, o, a, f)
  BY <1>3, <1>4 DEF Shifts
<1>6. CASE l < N /\ in[l + 1] = f /\ Passes(q, a, f, c, at[l + 1])
  <2>1. l + 1 \in 1 .. N
    BY <1>2, <1>6
  <2>2. CASE c.op = "JLINK"
    <3>1. a = "pushed" /\ at[l + 1] = "back" /\ c.dest = <<>> /\ c.src0 = <<Const(2)>>
      BY <1>6, <2>2 DEF Passes, OnSP, Store, Plain, PlainOps
    <3>2. f = "fun" => Kept(q)
      BY <1>2, <1>4, <2>2 DEF LineRuled
    <3>3. l + 1 \in 1 .. Len(code)
      BY <1>1, <2>1
    <3>4. n = 2 /\ Begun(q, code, at, in, e)
      <4>1. a = "pushed" /\ IsCall(c)
        BY <2>2, <3>1 DEF IsCall
      <4>2. Resumes(code, at, in, l, f)
        BY <1>6, <3>1, <3>3 DEF Resumes
      <4>3. f = "fun" => Kept(q)
        BY <3>2
      <4>. QED BY <1>5, <4>1, <4>2, <4>3, Called
    <3>5. at[2] = "bare" /\ in[2] = "fun" /\ 2 \in 1 .. Len(code)
      BY <1>1 DEF Laid
    <3>. QED BY <3>4, <3>5 DEF StandsAt, Begun
  <2>3. CASE c.op # "JLINK"
    <3>1. n = l + 1 /\ Active(q, code, at, in, e, F, o, at[l + 1], f)
      BY <1>5, <1>6, <2>3, PassesActive
    <3>. QED BY <1>1, <1>6, <2>1, <3>1 DEF StandsAt
  <2>. QED BY <2>2, <2>3
<1>7. ASSUME c.op \in {"UJUMP", "BREQZ", "BNEQZ"}
      PROVE  Active(q, code, at, in, e, F, o, a, f)
  <2>1. e.imem = d.imem /\ Alike(d, e, Conventional)
    BY <1>7, JumpRuns
  <2>. QED BY <1>3, <1>4, <2>1, QuietActive
<1>8. CASE /\ l < N /\ in[l + 1] = f /\ a = "level" /\ at[l + 1] = "level"
           /\ c.op \in {"BREQZ", "BNEQZ"} /\ Goes(code, at, in, c.src1[1], f)
           /\ c.dest = <<>> /\ c.src0 = <<c.src0[1]>> /\ c.src1 = <<c.src1[1]>>
  <2>1. PICK v \in 1 .. N : c.src1[1] = Const(v) /\ at[v] = "level" /\ in[v] = f
    BY <1>1, <1>8 DEF Goes
  <2>2. PICK x : c.src0 = <<x>>
    BY <1>8
  <2>3. c.src1 = <<Const(v)>>
    BY <1>8, <2>1
  <2>4. n \in {v, l + 1}
    BY <1>8, <2>2, <2>3, JumpRuns
  <2>5. n \in 1 .. N /\ at[n] = a /\ in[n] = f
    BY <1>2, <1>8, <2>1, <2>4
  <2>6. Active(q, code, at, in, e, F, o, at[n], in[n])
    BY <1>7, <1>8, <2>5
  <2>. QED BY <1>1, <2>5, <2>6 DEF StandsAt
<1>9. CASE /\ a = "level" /\ c.op = "UJUMP" /\ Goes(code, at, in, c.src0[1], f)
           /\ c.dest = <<>> /\ c.src0 = <<c.src0[1]>>
  <2>1. PICK v \in 1 .. N : c.src0[1] = Const(v) /\ at[v] = "level" /\ in[v] = f
    BY <1>1, <1>9 DEF Goes
  <2>3. c.src0 = <<Const(v)>>
    BY <1>9, <2>1
  <2>4. n = v
    BY <1>9, <2>3, JumpRuns
  <2>6. Active(q, code, at, in, e, F, o, at[n], in[n])
    BY <1>7, <1>9, <2>1, <2>4
  <2>. QED BY <1>1, <2>1, <2>4, <2>6 DEF StandsAt
<1>10. CASE a = "bare" /\ f = "fun" /\ c.op = "RETRN"
  <2>1. n \in 1 .. Len(code) /\ \E G, p : Active(q, code, at, in, e, G, p, at[n], in[n])
    BY <1>5, <1>10, Returned
  <2>. QED BY <2>1 DEF StandsAt
<1>11. CASE a = "level" /\ f = "main" /\ c.op = "HALT"
  BY <1>11, JumpRuns
<1>12. Continues(q, code, at, in, l)
  BY <1>2 DEF LineRuled
<1>. QED BY <1>1, <1>4, <1>6, <1>8, <1>9, <1>10, <1>11, <1>12 DEF Continues

\* ---- the invariant ----------------------------------------------------------------------

\* Until the program is loaded nothing has run; then a line has its place, and the machine
\* stands in front of one, or has stopped.
Loadability(c) == Len(c.saved) \in Nat /\ (Kept(c.saved) => Len(c.saved) > 0)
Stacked ==
  /\ phase # "run" => m = Zeroed
  /\ phase = "run" => Machined(m)
  /\ phase \in {"load", "run"} =>
       /\ Loadability(cc)
       /\ \E at, in : /\ Laid(cc.saved, cc.code, at, in)
                      /\ phase = "run" => line = 0 \/ StandsAt(cc.saved, cc.code, at, in, m, line)
StackInv == IInv /\ Compiles /\ Stacked

\* The machine that has not run.
LEMMA ZeroedMachine == Machined(Zeroed) /\ \A r \in IRegs : Zeroed.ireg[r] = 0
<1>1. /\ Zeroed = [ireg |-> Zeroed.ireg, rreg |-> Zeroed.rreg, imem |-> Zeroed.imem,
                   rmem |-> Zeroed.rmem, out |-> Zeroed.out]
      /\ Zeroed.ireg = [r \in IRegs |-> 0] /\ Zeroed.imem = [a \in Cells |-> 0]
  BY DEF Zeroed, IRegs, Cells
<1>2. Zeroed.ireg = [r \in IRegs |-> Zeroed.ireg[r]] /\ Zeroed.imem = [a \in Cells |-> Zeroed.imem[a]]
  BY <1>1
<1>. QED BY <1>1, <1>2 DEF Machined, IRegs, Cells

\* The invariant holds before anything is compiled.
LEMMA InitStackInv ==
  ASSUME Init
  PROVE  StackInv
<1>1. IInv
  BY InitIInv
<1>2. Compiles
  BY DEF Init, Compiles
<1>3. Stacked
  BY DEF Init, Stacked
<1>. QED BY <1>1, <1>2, <1>3 DEF StackInv

\* The steps of rcc,
LEMMA CompilingStackInv ==
  ASSUME StackInv, FunctionHeader \/ CodeItem \/ FunctionEnd \/ MainHeader \/ MainEnd
  PROVE  StackInv'
<1>0. IInv /\ Compiles /\ Stacked
  BY DEF StackInv
<1>1. IInv'
  BY <1>0, HeaderIInv, CodeItemIInv, FunctionEndIInv, MainHeaderIInv, MainEndIInv
<1>2. Compiles'
  BY <1>0, HeaderCompiles, CodeItemCompiles, FunctionEndCompiles, MainHeaderCompiles, MainEndCompiles
<1>3. m' = m /\ phase # "run" /\ phase' \notin {"load", "run"}
  BY DEF FunctionHeader, CodeItem, FunctionEnd, MainHeader, MainEnd, Compile
<1>4. Stacked'
  BY <1>0, <1>3 DEF Stacked
<1>. QED BY <1>1, <1>2, <1>4 DEF StackInv

\* writing the file,
LEMMA WriteFileStackInv ==
  ASSUME StackInv, WriteFile
  PROVE  StackInv'
<1>0. IInv /\ Compiles /\ Stacked /\ phase = "output" /\ phase' = "load" /\ m' = m
  BY DEF StackInv, WriteFile
<1>1. IInv'
  BY <1>0, WriteFileIInv
<1>2. Compiles'
  BY <1>0 DEF Compiles
<1>3. cc \in CC
  BY <1>0 DEF IInv, Compiling
<1>4. MainAt(cc, {}) /\ cc.code[Len(cc.code)].op = "HALT"
  BY <1>0 DEF Compiles
<1>5. PICK s : s = Output(cc)
  OBVIOUS
<1>6. cc' = [cc EXCEPT !.code = s]
  BY <1>5 DEF WriteFile, Output
<1>7. cc'.code = s /\ cc'.saved = cc.saved
  BY <1>3, <1>6 DEF CC
<1>8. PICK at, in : Laid(cc.saved, s, at, in)
  BY <1>3, <1>4, <1>5, OutputLaid
<1>9. Loadability(cc)
  <2>1. cc.saved \in Seq(Seq(TokenOf(Int)))
    BY <1>3, Fields
  <2>. QED BY <2>1, EmptySeq, LenProperties DEF Loadability, Kept
<1>10. Stacked'
  BY <1>0, <1>7, <1>8, <1>9 DEF Stacked, Loadability
<1>. QED BY <1>1, <1>2, <1>10 DEF StackInv

\* loading,
LEMMA LoadLineStackInv ==
  ASSUME StackInv, LoadLine
  PROVE  StackInv'
<1>0. IInv /\ Compiles /\ Stacked /\ phase = "load" /\ m' = m /\ cc' = cc
  BY DEF StackInv, LoadLine
<1>1. IInv'
  BY <1>0, LoadLineIInv
<1>2. phase' \in {"overrun", "rejected", "load"}
  BY <1>0 DEF LoadLine
<1>3. Compiles'
  BY <1>2 DEF Compiles
<1>4. Stacked'
  BY <1>0, <1>2 DEF Stacked
<1>. QED BY <1>1, <1>3, <1>4 DEF StackInv

\* and starting keep it.
LEMMA StartStackInv ==
  ASSUME RegFileSize > 2, StackInv, Start
  PROVE  StackInv'
<1>0. IInv /\ Compiles /\ Stacked /\ phase = "load" /\ m' = m /\ cc' = cc /\ phase' = "run" /\ line' = 1
  BY DEF StackInv, Start
<1>1. IInv'
  BY <1>0, StartIInv
<1>2. Compiles'
  BY <1>0 DEF Compiles
<1>3. m = Zeroed /\ Machined(m) /\ m.ireg[1] = 0 /\ m.ireg[2] = 0
  <2>1. 1 \in IRegs /\ 2 \in IRegs
    BY LoaderAssumption DEF IRegs
  <2>. QED BY <1>0, <2>1, ZeroedMachine DEF Stacked
<1>4. PICK at, in : Laid(cc.saved, cc.code, at, in)
  BY <1>0 DEF Stacked
<1>5. Loadability(cc)
  BY <1>0 DEF Stacked
<1>6. PICK q, code : q = cc.saved /\ code = cc.code
  OBVIOUS
<1>7. Laid(q, code, at, in)
  BY <1>4, <1>6
<1>8. 1 \in 1 .. Len(code) /\ at[1] = "level" /\ in[1] = "main"
  BY <1>7 DEF Laid
<1>9. PICK z : z = 0
  OBVIOUS
<1>10. PICK F : F = {}
  OBVIOUS
<1>11. Active(q, code, at, in, m, F, z, "level", "main")
  <2>1. Frames(F, "main", z, Len(q))
    BY <1>9, <1>10 DEF Frames
  <2>2. Chained(m, F, Len(q))
    BY <1>10 DEF Chained
  <2>3. Returning(q, code, at, in, m, F, z, "level")
    BY <1>10 DEF Returning
  <2>4. Pointers(m, "level", z, Above("main", z, Len(q)))
    BY <1>3, <1>9 DEF Pointers, Above, InCall, AtEnds
  <2>. QED BY <1>5, <1>6, <2>1, <2>2, <2>3, <2>4 DEF Active, Loadability
<1>12. PICK n : n = 1
  OBVIOUS
<1>13. StandsAt(q, code, at, in, m, n)
  BY <1>8, <1>11, <1>12 DEF StandsAt
<1>14. StandsAt(cc.saved, cc.code, at, in, m, n)
  BY <1>6, <1>13
<1>15. Stacked'
  <2>1. Laid(cc'.saved, cc'.code, at, in) /\ Loadability(cc') /\ m' = m /\ Machined(m') /\ line' = n
    BY <1>0, <1>3, <1>4, <1>5, <1>12
  <2>2. StandsAt(cc'.saved, cc'.code, at, in, m', line')
    BY <1>0, <1>14, <2>1
  <2>. QED BY <1>0, <2>1, <2>2 DEF Stacked
<1>. QED BY <1>1, <1>2, <1>15 DEF StackInv

\* A step of the machine keeps it, too.
LEMMA ExecuteStackInv ==
  ASSUME RegFileSize > 2, StackInv, Execute
  PROVE  StackInv'
<1>0. /\ IInv /\ Compiles /\ Stacked /\ phase = "run" /\ line \in DOMAIN prog
      /\ cc' = cc /\ phase' = phase /\ UNCHANGED <<src, file, prog>>
  BY DEF StackInv, Execute, Running
<1>1. IInv'
  BY <1>0, RestIInv
<1>2. Compiles'
  BY <1>0 DEF Compiles
<1>3. PICK V, P : Loads(cc.code, prog, V, P)
  BY <1>0 DEF IInv, Loading
<1>4. PICK q, code : q = cc.saved /\ code = cc.code
  OBVIOUS
<1>5. Loadability(cc) /\ Machined(m)
  BY <1>0 DEF Stacked
<1>6. PICK at, in : Laid(q, code, at, in) /\ (line = 0 \/ StandsAt(q, code, at, in, m, line))
  BY <1>0, <1>4 DEF Stacked
<1>7. PICK l : l = line
  OBVIOUS
<1>8. /\ Symbols \subseteq TokenOf(V) /\ code \in Seq(Loadable(V)) /\ prog \in Seq(P)
      /\ Len(prog) <= Len(code) /\ \A n \in 1 .. Len(prog) : Matches(prog[n], code[n])
  BY <1>3, <1>4 DEF Loads
<1>9. l \in 1 .. Len(prog) /\ l # 0
  BY <1>0, <1>7, <1>8, LenProperties
<1>10. l \in 1 .. Len(code)
  <2>1. Len(prog) \in Nat /\ Len(code) \in Nat
    BY <1>8, LenProperties
  <2>. QED BY <1>8, <1>9, <2>1
<1>11. PICK i, c : i = prog[l] /\ c = code[l]
  OBVIOUS
<1>12. LoadedFrom(V, i, c)
  <2>1. c \in Loadable(V)
    BY <1>8, <1>10, <1>11, ElementOfSeq
  <2>2. Matches(i, c)
    BY <1>8, <1>9, <1>11
  <2>. QED BY <1>8, <2>1, <2>2 DEF LoadedFrom
<1>13. PICK x : m' = Executed(m, i, l, x)
  BY <1>7, <1>11 DEF Execute
<1>14. line' = NextLine(m, i, l) /\ ~Undefined(m, i)
  BY <1>7, <1>11 DEF Execute
<1>15. PICK d : d = m
  OBVIOUS
<1>16. PICK e : e = m'
  OBVIOUS
<1>17. PICK n : n = line'
  OBVIOUS
<1>18. Runs(V, i, c, d, e, l, n)
  BY <1>5, <1>12, <1>13, <1>14, <1>15, <1>16, <1>17 DEF Runs
<1>19. StandsAt(q, code, at, in, d, l) /\ Laid(q, code, at, in)
  BY <1>6, <1>7, <1>9, <1>15
<1>20. n = 0 \/ StandsAt(q, code, at, in, e, n)
  BY <1>11, <1>18, <1>19, LineActive
<1>21. Machined(e)
  BY <1>18, RunsUnset
<1>22. Stacked'
  <2>1. Machined(m')
    BY <1>16, <1>21
  <2>2. cc'.saved = q /\ cc'.code = code /\ Loadability(cc') /\ phase' = "run"
    BY <1>0, <1>4, <1>5
  <2>3. line' = 0 \/ StandsAt(q, code, at, in, m', line')
    BY <1>16, <1>17, <1>20
  <2>. QED BY <1>19, <2>1, <2>2, <2>3 DEF Stacked
<1>. QED BY <1>1, <1>2, <1>22 DEF StackInv

\* And every step keeps it.
LEMMA NextStackInv ==
  ASSUME RegFileSize > 2, StackInv, [Next]_vars
  PROVE  StackInv'
<1>1. CASE FunctionHeader \/ CodeItem \/ FunctionEnd \/ MainHeader \/ MainEnd
  BY <1>1, CompilingStackInv
<1>2. CASE WriteFile
  BY <1>2, WriteFileStackInv
<1>3. CASE LoadLine
  BY <1>3, LoadLineStackInv
<1>4. CASE Start
  BY <1>4, StartStackInv
<1>5. CASE Execute
  BY <1>5, ExecuteStackInv
<1>6. CASE Finished \/ UNCHANGED vars
  <2>1. UNCHANGED vars
    BY <1>6 DEF Finished
  <2>2. IInv /\ Compiles /\ Stacked
    BY DEF StackInv
  <2>3. IInv'
    BY <2>1, <2>2, RestIInv DEF vars
  <2>4. Compiles'
    BY <2>1, <2>2 DEF vars, Compiles
  <2>5. Stacked'
    BY <2>1, <2>2 DEF vars, Stacked
  <2>. QED BY <2>3, <2>4, <2>5 DEF StackInv
<1>. QED BY <1>1, <1>2, <1>3, <1>4, <1>5, <1>6 DEF Next

\* ---- what the invariant says of FP and SP -----------------------------------------------

\* In the middle of a call FP belongs to the callee: the line that moved it is one of those
\* for the same item.
MovedFor(code, l) ==
  \E n \in 1 .. l - 1 :
    /\ SameItems(code[n], code[l]) /\ code[n].op = "ADD2I" /\ code[n].dest = <<FP>>
    /\ \A o \in n .. l - 1 : ~(code[o].op = "LOADI" /\ code[o].dest = <<FP>>)
\* In the stages of a call FP has been moved for the callee.
LEMMA InCallMoved ==
  ASSUME NEW q, NEW code, NEW at, NEW in, Laid(q, code, at, in)
  PROVE  \A l \in 1 .. Len(code) : at[l] \in InCall => MovedFor(code, l)
<1>1. PICK N \in Nat : N = Len(code) /\ N > 1
  BY DEF Laid
<1>2. \A l \in 1 .. N : LineRuled(q, code, at, in, l)
  BY <1>1 DEF Laid
<1>. DEFINE P(k) == k \in 1 .. N => (at[k] \in InCall => MovedFor(code, k))
<1>4. ASSUME NEW k \in Nat, k + 1 \in 1 .. N, P(k), at[k + 1] \in InCall PROVE MovedFor(code, k + 1)
  <2>1. k + 1 > 1 /\ SameItems(code[(k + 1) - 1], code[k + 1])
    BY <1>2, <1>4 DEF LineRuled
  <2>2. k \in 1 .. N /\ k < N /\ (k + 1) - 1 = k
    BY <1>4, <2>1
  <2>3. Passes(q, at[k], in[k], code[k], at[k + 1])
    <3>1. Follows(q, code, at, in, k)
      BY <1>2, <2>2 DEF LineRuled
    <3>. QED BY <1>1, <1>4, <2>2, <3>1 DEF Follows
  <2>4. SameItems(code[k], code[k + 1])
    BY <2>1, <2>2
  <2>5. CASE at[k] = "stored"
    <3>1. OnSP(code[k], "ADD2I", FP, 1)
      BY <1>4, <2>3, <2>5 DEF Passes, InCall, Ends
    <3>2. code[k].op = "ADD2I" /\ code[k].dest = <<FP>>
      BY <3>1 DEF OnSP
    <3>3. k \in 1 .. (k + 1) - 1 /\ \A o \in k .. (k + 1) - 1 : o = k
      BY <2>2
    <3>. QED BY <2>4, <3>2, <3>3 DEF MovedFor
  <2>6. CASE at[k] \in InCall
    <3>1. PICK n \in 1 .. k - 1 :
            /\ SameItems(code[n], code[k]) /\ code[n].op = "ADD2I" /\ code[n].dest = <<FP>>
            /\ \A o \in n .. k - 1 : ~(code[o].op = "LOADI" /\ code[o].dest = <<FP>>)
      BY <1>4, <2>2, <2>6 DEF MovedFor
    <3>2. ~(code[k].op = "LOADI" /\ code[k].dest = <<FP>>)
      <4>1. FP.t = "I" /\ FP.v = 1
        BY DEF FP, Tok
      <4>2. ~Ordinary(FP)
        BY <4>1 DEF Ordinary
      <4>3. Plain(code[k]) => ~(code[k].op = "LOADI" /\ code[k].dest = <<FP>>)
        BY <4>2 DEF Plain, Writers
      <4>4. at[k + 1] # "level" /\ at[k] \notin {"bare", "saved", "level", "stored"}
        BY <1>4, <2>6 DEF InCall
      <4>5. \/ Plain(code[k]) \/ \E j \in Nat \ {0} : Store(code[k], SP, j)
            \/ OnSP(code[k], "ADD2I", SP, 4) \/ code[k].op = "JLINK" \/ OnSP(code[k], "SUBTI", SP, 4)
        BY <2>3, <2>6, <4>4 DEF Passes, InCall, Ends
      <4>. QED BY <4>3, <4>5 DEF Store, OnSP
    <3>3. SameItems(code[n], code[k + 1])
      BY <2>4, <3>1 DEF SameItems
    <3>4. n \in 1 .. (k + 1) - 1 /\ \A o \in n .. (k + 1) - 1 : o = k \/ o \in n .. k - 1
      BY <2>2, <3>1
    <3>. QED BY <3>1, <3>2, <3>3, <3>4 DEF MovedFor
  <2>7. at[k] = "stored" \/ at[k] \in InCall
    BY <1>4, <2>3 DEF Passes, InCall, Ends
  <2>. QED BY <2>5, <2>6, <2>7
<1>5. PICK B : B = {k \in 0 .. N : P(k)}
  OBVIOUS
<1>6. 0 \in B
  BY <1>5
<1>7. ASSUME NEW k \in 1 .. N, k - 1 \in B PROVE k \in B
  <2>1. PICK j \in Nat : j = k - 1
    OBVIOUS
  <2>2. j + 1 = k /\ P(j) /\ j + 1 \in 1 .. N
    BY <1>5, <1>7, <2>1
  <2>3. at[j + 1] \in InCall => MovedFor(code, j + 1)
    BY <1>4, <2>2
  <2>. QED BY <1>5, <2>2, <2>3
<1>8. \A k \in 0 .. N : k \in B
  BY <1>6, <1>7, Counted
<1>. QED BY <1>1, <1>5, <1>8

\* So wherever BalancedStack looks, a statement begins, or the old FP has been stored.
LEMMA StackInvBalanced ==
  ASSUME StackInv
  PROVE  BalancedStack
<1>1. SUFFICES ASSUME phase = "run", line # 0, PC(line) > 0, ~FPMoved(line), ~Leaving(line)
               PROVE  IF InFunction(line) THEN SPReg = FPReg + 3 + Len(cc.saved)
                      ELSE SPReg = 0 /\ FPReg = 0
  BY DEF BalancedStack, Loaded
<1>2. PICK q, code, l : q = cc.saved /\ code = cc.code /\ l = line
  OBVIOUS
<1>3. PICK at, in : Laid(q, code, at, in) /\ StandsAt(q, code, at, in, m, l)
  BY <1>1, <1>2 DEF StackInv, Stacked
<1>4. PICK N \in Nat : N = Len(code) /\ l \in 1 .. N /\ LineRuled(q, code, at, in, l)
  BY <1>3 DEF Laid, StandsAt
<1>5. PICK F, o : Active(q, code, at, in, m, F, o, at[l], in[l])
  BY <1>3 DEF StandsAt
<1>6. at[l] \notin InCall
  <2>1. MovedFor(code, l) <=> FPMoved(l)
    BY <1>2 DEF MovedFor, FPMoved, SameItem, SameItems, Code
  <2>2. at[l] \in InCall => MovedFor(code, l)
    BY <1>3, <1>4, InCallMoved
  <2>. QED BY <1>1, <1>2, <2>1, <2>2
<1>7. at[l] \notin AtEnds
  <2>1. code[l].block = "prologue" => PC(l) = 0
    BY <1>1, <1>2 DEF PC, Code
  <2>2. ~(code[l].block = "leave" /\ code[l - 1].block = "leave")
    BY <1>1, <1>2 DEF Leaving, Code
  <2>3. code[l].block # "prologue"
    BY <1>1, <1>2, <2>1
  <2>. QED BY <1>4, <2>2, <2>3 DEF LineRuled
<1>8. at[l] \in {"level", "stored"}
  <2>1. at[l] \in Stages
    BY <1>3, <1>4 DEF Laid
  <2>. QED BY <1>6, <1>7, <2>1 DEF Stages, InCall, AtEnds
<1>9. PICK s, b \in Nat : /\ s = Len(q) /\ b = Above(in[l], o, s) /\ o \in Nat /\ in[l] \in {"main", "fun"}
                          /\ Kept(q) => s > 0
                          /\ in[l] = "main" => o = 0 /\ b = 0 /\ F = {}
                          /\ in[l] = "fun" => o > 0 /\ b = o + 3 + s /\ o \in F
  BY <1>5, ActiveNumbers
<1>10. m.ireg[1] = o /\ m.ireg[2] = b
  BY <1>5, <1>8, <1>9 DEF Active, Pointers
<1>11. FPReg = o /\ SPReg = b
  <2>1. FP.v = 1 /\ SP.v = 2
    BY DEF FP, SP, Tok
  <2>. QED BY <1>10, <2>1 DEF FPReg, SPReg
<1>12. InFunction(l) <=> in[l] = "fun"
  <2>1. in[l] = In(code[l].block)
    BY <1>4 DEF LineRuled
  <2>. QED BY <1>1, <1>2, <2>1 DEF InFunction, Code, In, FunBlocks
<1>. QED BY <1>2, <1>9, <1>11, <1>12

\* BalancedStack holds in every state of every run, on a machine that has LR, FP and SP.
THEOREM BalancedStackHolds == ASSUME RegFileSize > 2 PROVE Spec => []BalancedStack
<1>1. StackInv /\ [Next]_vars => StackInv'
  BY NextStackInv
<1>2. Init => StackInv
  BY InitStackInv
<1>3. StackInv => BalancedStack
  BY StackInvBalanced
<1>. QED BY <1>1, <1>2, <1>3, PTL DEF Spec

=============================================================================

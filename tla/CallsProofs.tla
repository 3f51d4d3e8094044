----------------------------- MODULE CallsProofs -----------------------------
\* Proof that rx loads what rcc emitted, for every program the parser lets through.
EXTENDS Calls, TLAPS, WellFoundedInduction, SequenceTheorems

\* A set of natural numbers has a smallest member.
LEMMA Smallest ==
  ASSUME NEW T, T \subseteq Nat, T # {}
  PROVE  \E m0 \in T : \A k \in T : m0 <= k
<1>1. IsWellFoundedOn(OpToRel(<, Nat), Nat)
  BY NatLessThanWellFounded
<1>2. PICK x \in T : \A k \in T : ~ (<<k, x>> \in OpToRel(<, Nat))
  BY <1>1, WFMin
<1>3. ASSUME NEW k \in T PROVE x <= k
  <2>1. ~ (<<k, x>> \in OpToRel(<, Nat))
    BY <1>2
  <2>2. <<k, x>> \in Nat \X Nat
    OBVIOUS
  <2>3. ~ (k < x)
    BY <2>1, <2>2 DEF OpToRel
  <2>. QED BY <2>3
<1>. QED BY <1>3

\* ---- the state of the compiler ---------------------------------------------------------

Labels == {"then", "fi", "leave", "skip", "prologue", "halt"}
\* Operands: registers, constants and labels, with numbers from V.
TokenOf(V) == [t : {"I", "R", "int", "real"} \cup Labels, v : V]
Symbols == [t : {"I", "R"}, v : Int]
Constant == [t : {"int", "real"}, v : Int]

\* What may stand where the emulator reads an operand of this kind.
Takes(kind, labels) ==
  CASE kind = "I" -> {"I"}
    [] kind = "R" -> {"R"}
    [] kind = "i" -> {"I", "int"}
    [] kind = "r" -> {"R", "int", "real"}
    [] kind = "n" -> {"int"} \cup labels
    [] kind = "-" -> {}

Given(i) == i.dest \o i.src0 \o i.src1
Suits(op, a, labels) ==
  /\ op \in Opcodes /\ Len(a) \in 0 .. 3
  /\ \A n \in 1 .. 3 : IF n <= Len(a) THEN a[n].t \in Takes(Shape(op)[n], labels)
                       ELSE Shape(op)[n] = "-"
Blocks == {"skip", "fun", "prologue", "leave", "main"}
Instruction(V) ==
  [op : Opcodes \cup {"LABEL"}, dest : Seq(Symbols), src0 : Seq(TokenOf(V)),
   src1 : Seq(TokenOf(V)), block : Blocks, item : Int]
Emitted == {i \in Instruction(Int) : i.op = "LABEL" \/ Suits(i.op, Given(i), Labels)}

\* What the program declares, and all names it has.
Elements(list) == {list[n] : n \in DOMAIN list}
Declared == Elements(src.params) \cup Elements(src.locals)
InMain == Known(Declared, src.fun, Len(src.fun) + 1) \cup Elements(src.vars)
Results(items) == {items[n].dest : n \in DOMAIN items}
AllNames == Declared \cup Elements(src.vars) \cup Results(src.fun) \cup Results(src.main)

Tables == [Regs -> Int]
\* A program without REAL: none declared, returned or written.
AllInteger ==
  /\ src.ret = "I" /\ \A n \in Declared \cup Elements(src.vars) : src.types[n] = "I"
  /\ \A items \in {src.fun, src.main} : \A j \in DOMAIN items :
       items[j].x.t # "real" /\ items[j].y.t # "real"
\* The types of its names, and what they name.
Types == IF AllInteger THEN {"I"} ELSE {"I", "R"}
Variables == {x \in Symbols : x.t \in Types}
Named == UNION {[D -> Variables] : D \in SUBSET AllNames}
CC == [pool : [{"I", "R"} -> Tables], usage : [{"I", "R"} -> Tables], names : Named,
       code : Seq(Emitted), saved : Seq(Seq(TokenOf(Int))), block : Blocks, item : Int]

\* The code d of the compiler goes on where that of c ended, and no name is lost.
After(c, d) ==
  /\ d \in CC
  /\ d.block = c.block /\ d.saved = c.saved
  /\ DOMAIN c.names \subseteq DOMAIN d.names
  /\ Len(c.code) <= Len(d.code)
  /\ \A n \in 1 .. Len(c.code) : d.code[n] = c.code[n]

\* After is transitive,
LEMMA Transitive ==
  ASSUME NEW a \in CC, NEW b, NEW c, After(a, b), After(b, c)
  PROVE  After(a, c)
<1>1. a.code \in Seq(Emitted) /\ b.code \in Seq(Emitted) /\ c.code \in Seq(Emitted)
  BY DEF After, CC
<1>2. Len(a.code) <= Len(c.code) /\ \A n \in 1 .. Len(a.code) : c.code[n] = a.code[n]
  BY <1>1 DEF After
<1>. QED BY <1>2 DEF After

\* and reflexive.
LEMMA Reflexive == ASSUME NEW a \in CC PROVE After(a, a)
BY DEF After, CC

\* The types of the fields of the compiler's state.
LEMMA Fields ==
  ASSUME NEW c \in CC
  PROVE  /\ c.pool \in [{"I", "R"} -> Tables] /\ c.usage \in [{"I", "R"} -> Tables]
         /\ c.names \in Named /\ c.code \in Seq(Emitted) /\ c.saved \in Seq(Seq(TokenOf(Int)))
         /\ c.block \in Blocks /\ c.item \in Int
         /\ \A n \in DOMAIN c.names :
              n \in AllNames /\ c.names[n] \in Symbols /\ c.names[n].t \in Types
<1>1. /\ c.pool \in [{"I", "R"} -> Tables] /\ c.usage \in [{"I", "R"} -> Tables]
      /\ c.names \in Named /\ c.code \in Seq(Emitted) /\ c.saved \in Seq(Seq(TokenOf(Int)))
      /\ c.block \in Blocks /\ c.item \in Int
  BY DEF CC
<1>2. PICK D \in SUBSET AllNames : c.names \in [D -> Variables]
  BY <1>1 DEF Named
<1>3. \A n \in DOMAIN c.names : n \in AllNames /\ c.names[n] \in Variables
  BY <1>2
<1>. QED BY <1>1, <1>3 DEF Variables

\* ---- registers --------------------------------------------------------------------------

\* Acquire returns a register of the table, or NOREG,
LEMMA Acquired == ASSUME NEW t PROVE Acquire(t) \in Regs \cup {NOREG}
<1>. DEFINE vacant == {r \in Regs : t[r] = VACANT}
<1>1. CASE vacant = {}
  BY <1>1 DEF Acquire
<1>2. CASE vacant # {}
  <2>1. vacant \subseteq Nat
    BY SizeAssumption DEF Regs
  <2>. HIDE DEF vacant
  <2>2. \E r \in vacant : \A s \in vacant : r <= s
    BY <1>2, <2>1, Smallest
  <2>3. (CHOOSE r \in vacant : \A s \in vacant : r <= s) \in vacant
    BY <2>2
  <2>4. Acquire(t) = CHOOSE r \in vacant : \A s \in vacant : r <= s
    BY <1>2 DEF vacant, Acquire
  <2>. QED BY <2>3, <2>4 DEF vacant
<1>. QED BY <1>1, <1>2

\* which is a number either way.
LEMMA RegNumbers == Regs \cup {NOREG} \subseteq Int
BY SizeAssumption DEF Regs, NOREG

\* A new temporary is a register of its type.
LEMMA FreshSymbol ==
  ASSUME NEW c, NEW type \in {"I", "R"}
  PROVE  Fresh(c, type) \in Symbols /\ Fresh(c, type).t = type
<1>1. Acquire(c.pool[type]) \in Int
  BY Acquired, RegNumbers
<1>. QED BY <1>1 DEF Fresh, Tok, Symbols

\* Registers are operands,
LEMMA SymbolIsToken == ASSUME NEW x \in Symbols PROVE x \in TokenOf(Int) /\ x.t \in {"I", "R"}
BY DEF Symbols, TokenOf

\* and so are constants.
LEMMA ConstantIsToken == ASSUME NEW x \in Constant PROVE x \in TokenOf(Int) /\ x.t \in {"int", "real"}
BY DEF Constant, TokenOf

\* Changing one register of a table.
LEMMA TableChanges ==
  ASSUME NEW t \in Tables, NEW r \in Int
  PROVE  /\ [t EXCEPT ![r] = 1] \in Tables /\ Mirror(t, r) \in Tables /\ Release(t, r) \in Tables
<1>1. t \in [Regs -> Int]
  BY DEF Tables
<1>2. ASSUME NEW v \in Int PROVE [t EXCEPT ![r] = v] \in Tables
  BY <1>1 DEF Tables
<1>3. r \in Regs => t[r] + 1 \in Int /\ t[r] - 1 \in Int
  BY <1>1
<1>4. [t EXCEPT ![r] = t[r] + 1] \in Tables
  BY <1>1, <1>3 DEF Tables
<1>5. [t EXCEPT ![r] = t[r] - 1] \in Tables
  BY <1>1, <1>3 DEF Tables
<1>6. [t EXCEPT ![r] = 1] \in Tables
  BY <1>2
<1>. QED BY <1>4, <1>5, <1>6 DEF Mirror, Release

\* New tables are all that is new.
LEMMA Tabled ==
  ASSUME NEW c \in CC, NEW d, NEW p \in [{"I", "R"} -> Tables], NEW u \in [{"I", "R"} -> Tables],
         d = [pool |-> p, usage |-> u, names |-> c.names, code |-> c.code, saved |-> c.saved,
              block |-> c.block, item |-> c.item]
  PROVE  After(c, d) /\ d.names = c.names /\ d.code = c.code
<1>1. d \in CC
  BY DEF CC
<1>2. /\ d.names = c.names /\ d.code = c.code /\ d.block = c.block /\ d.item = c.item
  OBVIOUS
<1>3. Len(c.code) \in Nat
  BY Fields
<1>. QED BY <1>1, <1>2, <1>3 DEF After

\* A state is the record of its fields.
LEMMA Unfolded ==
  ASSUME NEW c \in CC
  PROVE  c = [pool |-> c.pool, usage |-> c.usage, names |-> c.names, code |-> c.code,
              saved |-> c.saved, block |-> c.block, item |-> c.item]
BY DEF CC

\* newTemp() only goes on,
LEMMA NewTempAfter ==
  ASSUME NEW c \in CC, NEW type \in {"I", "R"}
  PROVE  /\ After(c, NewTemp(c, type))
         /\ NewTemp(c, type).names = c.names /\ NewTemp(c, type).code = c.code
<1>. DEFINE r == Acquire(c.pool[type])
            t == [c.pool[type] EXCEPT ![r] = 1]
            s == Mirror(c.usage[type], r)
            p == [c.pool EXCEPT ![type] = t]
            u == [c.usage EXCEPT ![type] = s]
<1>1. r \in Int
  BY Acquired, RegNumbers
<1>2. c.pool[type] \in Tables /\ c.usage[type] \in Tables
  BY Fields
<1>3. t \in Tables /\ s \in Tables
  <2>. HIDE DEF r
  <2>. QED BY <1>1, <1>2, TableChanges
<1>4. NewTemp(c, type) = [c EXCEPT !.pool[type] = t, !.usage[type] = s]
  BY DEF NewTemp
<1>. HIDE DEF t, s
<1>5. p \in [{"I", "R"} -> Tables] /\ u \in [{"I", "R"} -> Tables]
  BY <1>3, Fields
<1>7. [c EXCEPT !.pool[type] = t, !.usage[type] = s] = [c EXCEPT !.pool = p, !.usage = u]
  <2>1. [c EXCEPT !.pool[type] = t] = [c EXCEPT !.pool = p]
    BY Zenon
  <2>2. [c EXCEPT !.pool[type] = t].usage = c.usage
    BY Unfolded
  <2>. QED BY <2>1, <2>2
<1>6. NewTemp(c, type) =
        [pool |-> p, usage |-> u, names |-> c.names, code |-> c.code, saved |-> c.saved,
         block |-> c.block, item |-> c.item]
  <2>1. NewTemp(c, type) = [c EXCEPT !.pool = p, !.usage = u]
    BY <1>4, <1>7
  <2>. HIDE DEF p, u
  <2>. QED BY <2>1, Unfolded, ZenonT(60)
<1>. HIDE DEF p, u
<1>. QED BY <1>5, <1>6, Tabled

\* and so does the release of a temporary.
LEMMA FreeAfter ==
  ASSUME NEW c \in CC, NEW x \in Symbols
  PROVE  After(c, Free(c, x)) /\ Free(c, x).names = c.names /\ Free(c, x).code = c.code
<1>. DEFINE t == Release(c.pool[x.t], x.v)
            p == [c.pool EXCEPT ![x.t] = t]
<1>1. x.t \in {"I", "R"} /\ x.v \in Int
  BY RegNumbers DEF Symbols
<1>2. c.pool[x.t] \in Tables
  BY <1>1, Fields
<1>3. t \in Tables
  BY <1>1, <1>2, TableChanges
<1>4. Free(c, x) = [c EXCEPT !.pool[x.t] = t]
  BY DEF Free
<1>. HIDE DEF t
<1>5. p \in [{"I", "R"} -> Tables]
  BY <1>1, <1>3, Fields
<1>6. Free(c, x) =
        [pool |-> p, usage |-> c.usage, names |-> c.names, code |-> c.code, saved |-> c.saved,
         block |-> c.block, item |-> c.item]
  BY <1>4, Unfolded
<1>. HIDE DEF p
<1>. QED BY <1>5, <1>6, Fields, Tabled

\* newSymbol() makes one more name known.
LEMMA NewNameAfter ==
  ASSUME NEW c \in CC, NEW n \in AllNames, NEW type \in {"I", "R"}, type \in Types
  PROVE  /\ After(c, NewName(c, n, type)) /\ NewName(c, n, type).code = c.code
         /\ DOMAIN NewName(c, n, type).names = DOMAIN c.names \cup {n}
         /\ NewName(c, n, type).names[n] = Fresh(c, type)
<1>. DEFINE d == NewTemp(c, type)
            x == Fresh(c, type)
            f == [k \in DOMAIN d.names \cup {n} |-> IF k = n THEN x ELSE d.names[k]]
<1>1. After(c, d) /\ d.names = c.names /\ d.code = c.code /\ x \in Symbols /\ x.t = type
  BY NewTempAfter, FreshSymbol
<1>. HIDE DEF d, x
<1>2. d \in CC
  BY <1>1 DEF After
<1>3. /\ DOMAIN d.names \cup {n} \in SUBSET AllNames
      /\ \A k \in DOMAIN d.names : d.names[k] \in Variables
      /\ x \in Variables
  BY <1>1, <1>2, Fields DEF Variables
<1>4. f \in [DOMAIN d.names \cup {n} -> Variables]
  BY <1>3
<1>5. f \in Named
  BY <1>3, <1>4 DEF Named
<1>6. NewName(c, n, type) = [d EXCEPT !.names = f]
  BY DEF NewName, d, x
<1>7. DOMAIN f = DOMAIN d.names \cup {n} /\ f[n] = x
  OBVIOUS
<1>. HIDE DEF f
<1>. DEFINE e == [d EXCEPT !.names = f]
<1>8. /\ e \in CC /\ e.names = f /\ e.code = d.code /\ e.block = d.block
      /\ e.saved = d.saved
  BY <1>2, <1>5 DEF CC
<1>. HIDE DEF e
<1>9. Len(d.code) \in Nat
  BY <1>2, Fields
<1>10. After(d, e)
  BY <1>7, <1>8, <1>9 DEF After
<1>11. After(c, e)
  BY <1>1, <1>10, Transitive
<1>. QED BY <1>1, <1>6, <1>7, <1>8, <1>11 DEF e, x

\* ---- instructions -----------------------------------------------------------------------

\* What the emulator reads behind the opcodes rcc uses.
LEMMA Shapes ==
  /\ \A op \in IntOps : op \in Opcodes /\ Shape(op) = <<"I", "i", "i">>
  /\ \A op \in RealTests : op \in Opcodes /\ Shape(op) = <<"I", "r", "r">>
  /\ \A op \in RealOps : op \in Opcodes /\ Shape(op) = <<"R", "r", "r">>
  /\ \A op \in {"LOADR", "STORR"} : op \in Opcodes /\ Shape(op) = <<"R", "i", "i">>
  /\ {"COPYI", "PRNTI", "READI", "COPYR", "PRNTR", "READR", "CITOR"} \subseteq Opcodes
  /\ Shape("COPYI") = <<"I", "i", "-">> /\ Shape("PRNTI") = <<"i", "-", "-">>
  /\ Shape("READI") = <<"I", "-", "-">> /\ Shape("COPYR") = <<"R", "r", "-">>
  /\ Shape("PRNTR") = <<"r", "-", "-">> /\ Shape("READR") = <<"R", "-", "-">>
  /\ Shape("CITOR") = <<"R", "i", "-">>
  /\ {"UJUMP", "JLINK", "BREQZ", "BNEQZ", "RETRN", "HALT"} \subseteq Opcodes
  /\ Shape("UJUMP") = <<"n", "-", "-">> /\ Shape("JLINK") = <<"n", "-", "-">>
  /\ Shape("BREQZ") = <<"i", "n", "-">> /\ Shape("BNEQZ") = <<"i", "n", "-">>
  /\ Shape("RETRN") = <<"-", "-", "-">> /\ Shape("HALT") = <<"-", "-", "-">>
<1>1. \A op \in IntOps : op \in Opcodes /\ Shape(op) = <<"I", "i", "i">>
  BY DEF Opcodes, Shape, IntOps, RealTests, RealOps, Moves, Jumps
<1>2. \A op \in RealTests : op \in Opcodes /\ Shape(op) = <<"I", "r", "r">>
  BY DEF Opcodes, Shape, IntOps, RealTests, RealOps, Moves, Jumps
<1>3. \A op \in RealOps : op \in Opcodes /\ Shape(op) = <<"R", "r", "r">>
  BY DEF Opcodes, Shape, IntOps, RealTests, RealOps, Moves, Jumps
<1>4. \A op \in {"LOADR", "STORR"} : op \in Opcodes /\ Shape(op) = <<"R", "i", "i">>
  BY DEF Opcodes, Shape, IntOps, RealTests, RealOps, Moves, Jumps
<1>5. \A op \in {"COPYI", "PRNTI", "READI", "COPYR", "PRNTR", "READR", "CITOR"} :
        op \in DOMAIN Moves /\ op \in Opcodes /\ Shape(op) = Moves[op]
  BY DEF Opcodes, Shape, IntOps, RealTests, RealOps, Moves, Jumps
<1>6. /\ Moves["COPYI"] = <<"I", "i", "-">> /\ Moves["PRNTI"] = <<"i", "-", "-">>
      /\ Moves["READI"] = <<"I", "-", "-">> /\ Moves["COPYR"] = <<"R", "r", "-">>
      /\ Moves["PRNTR"] = <<"r", "-", "-">> /\ Moves["READR"] = <<"R", "-", "-">>
      /\ Moves["CITOR"] = <<"R", "i", "-">>
  BY DEF Moves
<1>7. \A op \in {"UJUMP", "JLINK", "BREQZ", "BNEQZ", "RETRN", "HALT"} :
        op \in DOMAIN Jumps /\ op \in Opcodes /\ Shape(op) = Jumps[op]
  BY DEF Opcodes, Shape, IntOps, RealTests, RealOps, Moves, Jumps
<1>8. /\ Jumps["UJUMP"] = <<"n", "-", "-">> /\ Jumps["JLINK"] = <<"n", "-", "-">>
      /\ Jumps["BREQZ"] = <<"i", "n", "-">> /\ Jumps["BNEQZ"] = <<"i", "n", "-">>
      /\ Jumps["RETRN"] = <<"-", "-", "-">> /\ Jumps["HALT"] = <<"-", "-", "-">>
  BY DEF Jumps
<1>. QED BY <1>1, <1>2, <1>3, <1>4, <1>5, <1>6, <1>7, <1>8

\* An instruction whose operands suit its opcode is emitted behind what is there.
LEMMA EmitAfter ==
  ASSUME NEW c \in CC, NEW op \in Opcodes \cup {"LABEL"},
         NEW dest \in Seq(Symbols), NEW src0 \in Seq(TokenOf(Int)), NEW src1 \in Seq(TokenOf(Int)),
         op = "LABEL" \/ Suits(op, dest \o src0 \o src1, Labels),
         NEW d, d = Emit(c, op, dest, src0, src1)
  PROVE  After(c, d) /\ d.names = c.names /\ Len(d.code) = Len(c.code) + 1
<1>. DEFINE i == [op |-> op, dest |-> dest, src0 |-> src0, src1 |-> src1,
                  block |-> c.block, item |-> c.item]
<1>1. i \in Instruction(Int)
  BY Fields DEF Instruction
<1>2. i \in Emitted
  BY <1>1 DEF Emitted, Given
<1>3. d = [c EXCEPT !.code = Append(c.code, i)]
  BY DEF Emit
<1>. HIDE DEF i
<1>4. /\ Append(c.code, i) \in Seq(Emitted) /\ Len(Append(c.code, i)) = Len(c.code) + 1
      /\ Len(c.code) \in Nat /\ \A n \in 1 .. Len(c.code) : Append(c.code, i)[n] = c.code[n]
  BY <1>2, Fields
<1>5. d = [pool |-> c.pool, usage |-> c.usage, names |-> c.names, code |-> Append(c.code, i),
           saved |-> c.saved, block |-> c.block, item |-> c.item]
  BY <1>3, Unfolded
<1>6. d \in CC
  BY <1>4, <1>5, Fields DEF CC
<1>. QED BY <1>4, <1>5, <1>6 DEF After

Data == Symbols \cup Constant

\* Data is what a semantic rule computes with: registers and constants, not labels.
LEMMA Datum ==
  ASSUME NEW x \in Data
  PROVE  /\ x \in TokenOf(Int) /\ x.t \in {"I", "R", "int", "real"}
         /\ IsInt(x) <=> x.t \in Takes("i", Labels)
         /\ ~IsInt(x) => x.t \in Takes("r", Labels)
         /\ ~IsInt(x) /\ ~IsConst(x) => x.t = "R"
         /\ IsConst(x) => x.t \in {"int", "real"}
BY SymbolIsToken, ConstantIsToken DEF Data, IsInt, IsConst, Takes

\* The operands of an instruction, one behind the other.
LEMMA Behind ==
  ASSUME NEW S, NEW a \in Seq(S), NEW b \in Seq(S), NEW c \in Seq(S), NEW e, e = a \o b \o c
  PROVE  /\ e \in Seq(S) /\ Len(e) = Len(a) + Len(b) + Len(c)
         /\ \A n \in 1 .. Len(a) : e[n] = a[n]
         /\ \A n \in 1 .. Len(b) : e[Len(a) + n] = b[n]
         /\ \A n \in 1 .. Len(c) : e[Len(a) + Len(b) + n] = c[n]
<1>1. PICK d \in Seq(S) : d = a \o b
  BY ConcatProperties
<1>2. Len(d) = Len(a) + Len(b) /\ \A i \in 1 .. Len(a) + Len(b) : d[i] = IF i <= Len(a) THEN a[i] ELSE b[i - Len(a)]
  BY <1>1, ConcatProperties
<1>3. e = d \o c
  BY <1>1
<1>4. /\ e \in Seq(S) /\ Len(e) = Len(d) + Len(c)
      /\ \A i \in 1 .. Len(d) + Len(c) : e[i] = IF i <= Len(d) THEN d[i] ELSE c[i - Len(d)]
  BY <1>3, ConcatProperties
<1>5. Len(a) \in Nat /\ Len(b) \in Nat /\ Len(c) \in Nat
  OBVIOUS
<1>6. \A n \in 1 .. Len(a) : e[n] = a[n]
  BY <1>2, <1>4, <1>5
<1>7. \A n \in 1 .. Len(b) : e[Len(a) + n] = b[n]
  BY <1>2, <1>4, <1>5
<1>8. \A n \in 1 .. Len(c) : e[Len(a) + Len(b) + n] = c[n]
  BY <1>2, <1>4, <1>5
<1>9. Len(e) = Len(a) + Len(b) + Len(c)
  BY <1>2, <1>4
<1>. QED BY <1>4, <1>6, <1>7, <1>8, <1>9

\* Operand lists of one.
LEMMA One == ASSUME NEW S, NEW x \in S PROVE <<x>> \in Seq(S) /\ Len(<<x>>) = 1 /\ <<x>>[1] = x
OBVIOUS

\* And of none.
LEMMA None == ASSUME NEW S PROVE <<>> \in Seq(S) /\ Len(<<>>) = 0
OBVIOUS

\* Operands stand at most alone.
LEMMA Suited ==
  ASSUME NEW T, NEW op \in Opcodes, NEW labels, NEW a \in Seq(T), NEW b \in Seq(T), NEW c \in Seq(T),
         Len(a) \in 0 .. 1, Len(b) \in 0 .. 1, Len(c) \in 0 .. 1,
         Len(a) = 1 => a[1].t \in Takes(Shape(op)[1], labels),
         Len(b) = 1 => b[1].t \in Takes(Shape(op)[Len(a) + 1], labels),
         Len(c) = 1 => c[1].t \in Takes(Shape(op)[Len(a) + Len(b) + 1], labels),
         \A n \in 1 .. 3 : n > Len(a) + Len(b) + Len(c) => Shape(op)[n] = "-"
  PROVE  Suits(op, a \o b \o c, labels)
<1>0. Len(a) \in {0, 1} /\ Len(b) \in {0, 1} /\ Len(c) \in {0, 1}
  OBVIOUS
<1>1. PICK e : e = a \o b \o c
  OBVIOUS
<1>2. /\ e \in Seq(T) /\ Len(e) = Len(a) + Len(b) + Len(c)
      /\ \A n \in 1 .. Len(a) : e[n] = a[n]
      /\ \A n \in 1 .. Len(b) : e[Len(a) + n] = b[n]
      /\ \A n \in 1 .. Len(c) : e[Len(a) + Len(b) + n] = c[n]
  BY <1>1, Behind
<1>3. ASSUME NEW n \in 1 .. 3, n <= Len(e) PROVE e[n].t \in Takes(Shape(op)[n], labels)
  <2>1. CASE n <= Len(a)
    BY <1>2, <2>1
  <2>2. CASE n > Len(a) /\ n <= Len(a) + Len(b)
    <3>0. PICK k \in {0, 1}, l \in {0, 1} : k = Len(a) /\ l = Len(b)
      BY <1>0
    <3>00. n > k /\ n <= k + l
      BY <2>2, <3>0
    <3>01. n = k + 1 /\ l = 1
      BY <3>00
    <3>1. n = Len(a) + 1 /\ Len(b) = 1
      BY <3>0, <3>01
    <3>2. e[Len(a) + 1] = b[1]
      BY <1>2, <3>1
    <3>. QED BY <3>1, <3>2
  <2>3. CASE n > Len(a) + Len(b)
    <3>1. n = Len(a) + Len(b) + 1 /\ Len(c) = 1
      BY <1>0, <1>2, <1>3, <2>3
    <3>2. e[Len(a) + Len(b) + 1] = c[1]
      BY <1>2, <3>1
    <3>. QED BY <3>1, <3>2
  <2>. QED BY <2>1, <2>2, <2>3
<1>4. Len(e) \in 0 .. 3
  BY <1>0, <1>2, SMTT(40)
<1>5. ASSUME NEW n \in 1 .. 3, ~(n <= Len(e)) PROVE Shape(op)[n] = "-"
  BY <1>0, <1>2, <1>5
<1>6. Suits(op, e, labels)
  BY <1>3, <1>4, <1>5 DEF Suits
<1>. QED BY <1>1, <1>6

\* Emit, by the number and the kinds of the operands;
LEMMA EmitAll ==
  ASSUME NEW c \in CC, NEW op \in Opcodes, NEW a \in Seq(Symbols), a \in Seq(TokenOf(Int)), NEW b \in Seq(TokenOf(Int)),
         NEW e \in Seq(TokenOf(Int)), Len(a) \in 0 .. 1, Len(b) \in 0 .. 1, Len(e) \in 0 .. 1,
         Len(a) = 1 => a[1].t \in Takes(Shape(op)[1], Labels),
         Len(b) = 1 => b[1].t \in Takes(Shape(op)[Len(a) + 1], Labels),
         Len(e) = 1 => e[1].t \in Takes(Shape(op)[Len(a) + Len(b) + 1], Labels),
         \A n \in 1 .. 3 : n > Len(a) + Len(b) + Len(e) => Shape(op)[n] = "-",
         NEW d, d = Emit(c, op, a, b, e)
  PROVE  After(c, d) /\ d.names = c.names
<1>1. Suits(op, a \o b \o e, Labels)
  BY Suited
<1>. QED BY <1>1, EmitAfter

\* with a destination and two sources;
LEMMA Emit3After ==
  ASSUME NEW c \in CC, NEW op \in Opcodes, NEW x \in Symbols, NEW y \in TokenOf(Int), NEW z \in TokenOf(Int),
         x.t \in Takes(Shape(op)[1], Labels), y.t \in Takes(Shape(op)[2], Labels),
         z.t \in Takes(Shape(op)[3], Labels),
         NEW d, d = Emit3(c, op, x, y, z)
  PROVE  After(c, d) /\ d.names = c.names
<1>1. PICK a \in Seq(Symbols) : a = <<x>> /\ Len(a) = 1 /\ a[1] = x /\ a \in Seq(TokenOf(Int))
  BY One, None, SymbolIsToken
<1>2. PICK b \in Seq(TokenOf(Int)) : b = <<y>> /\ Len(b) = 1 /\ b[1] = y
  BY One, None
<1>3. PICK e \in Seq(TokenOf(Int)) : e = <<z>> /\ Len(e) = 1 /\ e[1] = z
  BY One, None
<1>4. \A n \in 1 .. 3 : n > Len(a) + Len(b) + Len(e) => Shape(op)[n] = "-"
  BY <1>1, <1>2, <1>3
<1>5. Len(a) \in 0 .. 1 /\ Len(b) \in 0 .. 1 /\ Len(e) \in 0 .. 1
  BY <1>1, <1>2, <1>3
<1>6. /\ Len(a) = 1 => a[1].t \in Takes(Shape(op)[1], Labels)
      /\ Len(b) = 1 => b[1].t \in Takes(Shape(op)[Len(a) + 1], Labels)
      /\ Len(e) = 1 => e[1].t \in Takes(Shape(op)[Len(a) + Len(b) + 1], Labels)
  BY <1>1, <1>2, <1>3
<1>7. d = Emit(c, op, a, b, e)
  BY <1>1, <1>2, <1>3 DEF Emit3
<1>8. a \in Seq(TokenOf(Int))
  BY <1>1
<1>. QED BY <1>4, <1>5, <1>6, <1>7, <1>8, EmitAll

\* with a destination and one source;
LEMMA Emit2After ==
  ASSUME NEW c \in CC, NEW op \in Opcodes, NEW x \in Symbols, NEW y \in TokenOf(Int),
         x.t \in Takes(Shape(op)[1], Labels), y.t \in Takes(Shape(op)[2], Labels),
         Shape(op)[3] = "-",
         NEW d, d = Emit2(c, op, x, y)
  PROVE  After(c, d) /\ d.names = c.names
<1>1. PICK a \in Seq(Symbols) : a = <<x>> /\ Len(a) = 1 /\ a[1] = x /\ a \in Seq(TokenOf(Int))
  BY One, None, SymbolIsToken
<1>2. PICK b \in Seq(TokenOf(Int)) : b = <<y>> /\ Len(b) = 1 /\ b[1] = y
  BY One, None
<1>3. PICK e \in Seq(TokenOf(Int)) : e = <<>> /\ Len(e) = 0
  BY One, None
<1>4. \A n \in 1 .. 3 : n > Len(a) + Len(b) + Len(e) => Shape(op)[n] = "-"
  BY <1>1, <1>2, <1>3
<1>5. Len(a) \in 0 .. 1 /\ Len(b) \in 0 .. 1 /\ Len(e) \in 0 .. 1
  BY <1>1, <1>2, <1>3
<1>6. /\ Len(a) = 1 => a[1].t \in Takes(Shape(op)[1], Labels)
      /\ Len(b) = 1 => b[1].t \in Takes(Shape(op)[Len(a) + 1], Labels)
      /\ Len(e) = 1 => e[1].t \in Takes(Shape(op)[Len(a) + Len(b) + 1], Labels)
  BY <1>1, <1>2, <1>3
<1>7. d = Emit(c, op, a, b, e)
  BY <1>1, <1>2, <1>3 DEF Emit2
<1>8. a \in Seq(TokenOf(Int))
  BY <1>1
<1>. QED BY <1>4, <1>5, <1>6, <1>7, <1>8, EmitAll

\* with two sources;
LEMMA SourcesAfter ==
  ASSUME NEW c \in CC, NEW op \in Opcodes, NEW x \in TokenOf(Int), NEW y \in TokenOf(Int),
         x.t \in Takes(Shape(op)[1], Labels), y.t \in Takes(Shape(op)[2], Labels),
         Shape(op)[3] = "-",
         NEW d, d = Emit(c, op, <<>>, <<x>>, <<y>>)
  PROVE  After(c, d) /\ d.names = c.names
<1>1. PICK a \in Seq(Symbols) : a = <<>> /\ Len(a) = 0 /\ a \in Seq(TokenOf(Int))
  BY One, None, SymbolIsToken
<1>2. PICK b \in Seq(TokenOf(Int)) : b = <<x>> /\ Len(b) = 1 /\ b[1] = x
  BY One, None
<1>3. PICK e \in Seq(TokenOf(Int)) : e = <<y>> /\ Len(e) = 1 /\ e[1] = y
  BY One, None
<1>4. \A n \in 1 .. 3 : n > Len(a) + Len(b) + Len(e) => Shape(op)[n] = "-"
  BY <1>1, <1>2, <1>3
<1>5. Len(a) \in 0 .. 1 /\ Len(b) \in 0 .. 1 /\ Len(e) \in 0 .. 1
  BY <1>1, <1>2, <1>3
<1>6. /\ Len(a) = 1 => a[1].t \in Takes(Shape(op)[1], Labels)
      /\ Len(b) = 1 => b[1].t \in Takes(Shape(op)[Len(a) + 1], Labels)
      /\ Len(e) = 1 => e[1].t \in Takes(Shape(op)[Len(a) + Len(b) + 1], Labels)
  BY <1>1, <1>2, <1>3
<1>7. d = Emit(c, op, a, b, e)
  BY <1>1, <1>2, <1>3
<1>8. a \in Seq(TokenOf(Int))
  BY <1>1
<1>. QED BY <1>4, <1>5, <1>6, <1>7, <1>8, EmitAll

\* with a destination;
LEMMA DestAfter ==
  ASSUME NEW c \in CC, NEW op \in Opcodes, NEW x \in Symbols,
         x.t \in Takes(Shape(op)[1], Labels), Shape(op)[2] = "-", Shape(op)[3] = "-",
         NEW d, d = Emit(c, op, <<x>>, <<>>, <<>>)
  PROVE  After(c, d) /\ d.names = c.names
<1>1. PICK a \in Seq(Symbols) : a = <<x>> /\ Len(a) = 1 /\ a[1] = x /\ a \in Seq(TokenOf(Int))
  BY One, None, SymbolIsToken
<1>2. PICK b \in Seq(TokenOf(Int)) : b = <<>> /\ Len(b) = 0
  BY One, None
<1>3. PICK e \in Seq(TokenOf(Int)) : e = <<>> /\ Len(e) = 0
  BY One, None
<1>4. \A n \in 1 .. 3 : n > Len(a) + Len(b) + Len(e) => Shape(op)[n] = "-"
  BY <1>1, <1>2, <1>3
<1>5. Len(a) \in 0 .. 1 /\ Len(b) \in 0 .. 1 /\ Len(e) \in 0 .. 1
  BY <1>1, <1>2, <1>3
<1>6. /\ Len(a) = 1 => a[1].t \in Takes(Shape(op)[1], Labels)
      /\ Len(b) = 1 => b[1].t \in Takes(Shape(op)[Len(a) + 1], Labels)
      /\ Len(e) = 1 => e[1].t \in Takes(Shape(op)[Len(a) + Len(b) + 1], Labels)
  BY <1>1, <1>2, <1>3
<1>7. d = Emit(c, op, a, b, e)
  BY <1>1, <1>2, <1>3
<1>8. a \in Seq(TokenOf(Int))
  BY <1>1
<1>. QED BY <1>4, <1>5, <1>6, <1>7, <1>8, EmitAll

\* with one source;
LEMMA SourceAfter ==
  ASSUME NEW c \in CC, NEW op \in Opcodes, NEW x \in TokenOf(Int),
         x.t \in Takes(Shape(op)[1], Labels), Shape(op)[2] = "-", Shape(op)[3] = "-",
         NEW d, d = Emit(c, op, <<>>, <<x>>, <<>>)
  PROVE  After(c, d) /\ d.names = c.names
<1>1. PICK a \in Seq(Symbols) : a = <<>> /\ Len(a) = 0 /\ a \in Seq(TokenOf(Int))
  BY One, None, SymbolIsToken
<1>2. PICK b \in Seq(TokenOf(Int)) : b = <<x>> /\ Len(b) = 1 /\ b[1] = x
  BY One, None
<1>3. PICK e \in Seq(TokenOf(Int)) : e = <<>> /\ Len(e) = 0
  BY One, None
<1>4. \A n \in 1 .. 3 : n > Len(a) + Len(b) + Len(e) => Shape(op)[n] = "-"
  BY <1>1, <1>2, <1>3
<1>5. Len(a) \in 0 .. 1 /\ Len(b) \in 0 .. 1 /\ Len(e) \in 0 .. 1
  BY <1>1, <1>2, <1>3
<1>6. /\ Len(a) = 1 => a[1].t \in Takes(Shape(op)[1], Labels)
      /\ Len(b) = 1 => b[1].t \in Takes(Shape(op)[Len(a) + 1], Labels)
      /\ Len(e) = 1 => e[1].t \in Takes(Shape(op)[Len(a) + Len(b) + 1], Labels)
  BY <1>1, <1>2, <1>3
<1>7. d = Emit(c, op, a, b, e)
  BY <1>1, <1>2, <1>3
<1>8. a \in Seq(TokenOf(Int))
  BY <1>1
<1>. QED BY <1>4, <1>5, <1>6, <1>7, <1>8, EmitAll

\* with nothing;
LEMMA BareAfter ==
  ASSUME NEW c \in CC, NEW op \in Opcodes, 
         Shape(op)[1] = "-", Shape(op)[2] = "-", Shape(op)[3] = "-",
         NEW d, d = Emit(c, op, <<>>, <<>>, <<>>)
  PROVE  After(c, d) /\ d.names = c.names
<1>1. PICK a \in Seq(Symbols) : a = <<>> /\ Len(a) = 0 /\ a \in Seq(TokenOf(Int))
  BY One, None, SymbolIsToken
<1>2. PICK b \in Seq(TokenOf(Int)) : b = <<>> /\ Len(b) = 0
  BY One, None
<1>3. PICK e \in Seq(TokenOf(Int)) : e = <<>> /\ Len(e) = 0
  BY One, None
<1>4. \A n \in 1 .. 3 : n > Len(a) + Len(b) + Len(e) => Shape(op)[n] = "-"
  BY <1>1, <1>2, <1>3
<1>5. Len(a) \in 0 .. 1 /\ Len(b) \in 0 .. 1 /\ Len(e) \in 0 .. 1
  BY <1>1, <1>2, <1>3
<1>6. /\ Len(a) = 1 => a[1].t \in Takes(Shape(op)[1], Labels)
      /\ Len(b) = 1 => b[1].t \in Takes(Shape(op)[Len(a) + 1], Labels)
      /\ Len(e) = 1 => e[1].t \in Takes(Shape(op)[Len(a) + Len(b) + 1], Labels)
  BY <1>1, <1>2, <1>3
<1>7. d = Emit(c, op, a, b, e)
  BY <1>1, <1>2, <1>3
<1>8. a \in Seq(TokenOf(Int))
  BY <1>1
<1>. QED BY <1>4, <1>5, <1>6, <1>7, <1>8, EmitAll

\* and a LABEL.
LEMMA LabelAfter ==
  ASSUME NEW c \in CC, NEW x \in TokenOf(Int), NEW d, d = EmitLabel(c, x)
  PROVE  After(c, d) /\ d.names = c.names
<1>1. PICK a \in Seq(TokenOf(Int)) : a = <<x>>
  BY One
<1>2. PICK b : b = <<>> /\ b \in Seq(TokenOf(Int)) /\ b \in Seq(Symbols)
  BY None
<1>3. "LABEL" \in Opcodes \cup {"LABEL"}
  OBVIOUS
<1>4. d = Emit(c, "LABEL", b, a, b)
  BY <1>1, <1>2 DEF EmitLabel
<1>5. b \in Seq(TokenOf(Int)) /\ b \in Seq(Symbols)
  BY <1>2
<1>. QED BY <1>3, <1>4, <1>5, EmitAfter

\* The registers of the calling convention, and constants.
LEMMA Fixed ==
  /\ FP \in Symbols /\ SP \in Symbols /\ FP.t = "I" /\ SP.t = "I" /\ FP \in TokenOf(Int) /\ SP \in TokenOf(Int)
  /\ \A n \in Int : Const(n) \in TokenOf(Int) /\ Const(n).t = "int" /\ Const(n) \in Constant
BY DEF FP, SP, Const, Tok, Symbols, TokenOf, Constant

\* copy() of what it does not throw at.
LEMMA CopyAfter ==
  ASSUME NEW c \in CC, NEW x \in Symbols, NEW y \in Data, ~(IsInt(x) /\ ~IsInt(y)),
         NEW d, d = Copy(c, x, y)
  PROVE  After(c, d) /\ d.names = c.names
<1>1. x \in TokenOf(Int) /\ x.t \in {"I", "R"} /\ y \in TokenOf(Int) /\ y.t \in {"I", "R", "int", "real"}
  BY SymbolIsToken, Datum
<1>2. CASE IsInt(x)
  <2>1. d = Emit2(c, "COPYI", x, y)
    BY <1>2 DEF Copy
  <2>2. x.t = "I" /\ y.t \in {"I", "int"}
    BY <1>1, <1>2 DEF IsInt
  <2>3. /\ "COPYI" \in Opcodes /\ x.t \in Takes(Shape("COPYI")[1], Labels)
        /\ y.t \in Takes(Shape("COPYI")[2], Labels) /\ Shape("COPYI")[3] = "-"
    BY <2>2, Shapes DEF Takes
  <2>. QED BY <1>1, <2>1, <2>3, Emit2After
<1>3. CASE ~IsInt(x) /\ IsInt(y)
  <2>1. d = Emit2(c, "CITOR", x, y)
    BY <1>3 DEF Copy
  <2>2. x.t = "R" /\ y.t \in {"I", "int"}
    BY <1>1, <1>3 DEF IsInt
  <2>3. /\ "CITOR" \in Opcodes /\ x.t \in Takes(Shape("CITOR")[1], Labels)
        /\ y.t \in Takes(Shape("CITOR")[2], Labels) /\ Shape("CITOR")[3] = "-"
    BY <2>2, Shapes DEF Takes
  <2>. QED BY <1>1, <2>1, <2>3, Emit2After
<1>4. CASE ~IsInt(x) /\ ~IsInt(y)
  <2>1. d = Emit2(c, "COPYR", x, y)
    BY <1>4 DEF Copy
  <2>2. x.t = "R" /\ y.t \in {"R", "real"}
    BY <1>1, <1>4 DEF IsInt
  <2>3. /\ "COPYR" \in Opcodes /\ x.t \in Takes(Shape("COPYR")[1], Labels)
        /\ y.t \in Takes(Shape("COPYR")[2], Labels) /\ Shape("COPYR")[3] = "-"
    BY <2>2, Shapes DEF Takes
  <2>. QED BY <1>1, <2>1, <2>3, Emit2After
<1>. QED BY <1>2, <1>3, <1>4

\* The conversion to REAL yields a REAL.
LEMMA ToRealAfter ==
  ASSUME NEW c \in CC, NEW x \in Data, NEW d, d = ToReal(c, x)
  PROVE  /\ After(c, d) /\ d.names = c.names
         /\ Real(c, x) \in Data /\ Real(c, x) \in TokenOf(Int) /\ Real(c, x).t \in {"R", "real"}
<1>1. x \in TokenOf(Int) /\ x.t \in {"I", "R", "int", "real"}
  BY Datum
<1>2. CASE ~IsInt(x)
  <2>1. d = c /\ Real(c, x) = x
    BY <1>2 DEF ToReal, Real
  <2>. QED BY <1>1, <1>2, <2>1, Reflexive DEF IsInt
<1>3. CASE IsInt(x)
  <2>. DEFINE e == NewTemp(c, "R")
              y == Real(c, x)
  <2>1. After(c, e) /\ e.names = c.names
    BY NewTempAfter
  <2>2. y \in Symbols /\ y.t = "R"
    BY <1>3, FreshSymbol DEF Real
  <2>3. d = Emit2(e, "CITOR", y, x)
    BY <1>3 DEF ToReal
  <2>. HIDE DEF e, y
  <2>4. e \in CC /\ y \in TokenOf(Int)
    BY <2>1, <2>2, SymbolIsToken DEF After
  <2>5. x.t \in {"I", "int"}
    BY <1>1, <1>3 DEF IsInt
  <2>6. /\ "CITOR" \in Opcodes /\ y.t \in Takes(Shape("CITOR")[1], Labels)
        /\ x.t \in Takes(Shape("CITOR")[2], Labels) /\ Shape("CITOR")[3] = "-"
    BY <2>2, <2>5, Shapes DEF Takes
  <2>7. After(e, d) /\ d.names = e.names
    BY <1>1, <2>2, <2>3, <2>4, <2>6, Emit2After
  <2>8. After(c, d)
    BY <2>1, <2>7, Transitive
  <2>. QED BY <2>1, <2>2, <2>4, <2>7, <2>8 DEF y, Data
<1>. QED BY <1>2, <1>3

\* arith() and comp().
LEMMA TypedAfter ==
  ASSUME NEW c \in CC, NEW x \in Symbols, NEW y \in Data, NEW z \in Data,
         NEW int \in IntOps, NEW real \in RealTests \cup RealOps,
         IsInt(y) /\ IsInt(z) => x.t = "I",
         ~(IsInt(y) /\ IsInt(z)) => x.t = IF real \in RealTests THEN "I" ELSE "R",
         NEW d, d = Typed(c, <<int, real>>, x, y, z)
  PROVE  After(c, d) /\ d.names = c.names
<1>1. x \in TokenOf(Int) /\ y \in TokenOf(Int) /\ z \in TokenOf(Int)
  BY SymbolIsToken, Datum
<1>2. CASE IsInt(y) /\ IsInt(z)
  <2>1. d = Emit3(c, int, x, y, z)
    BY <1>2 DEF Typed
  <2>2. y.t \in {"I", "int"} /\ z.t \in {"I", "int"} /\ x.t = "I"
    BY <1>2 DEF IsInt
  <2>3. int \in Opcodes /\ Shape(int) = <<"I", "i", "i">>
    BY Shapes
  <2>4. /\ x.t \in Takes(Shape(int)[1], Labels)
        /\ y.t \in Takes(Shape(int)[2], Labels) /\ z.t \in Takes(Shape(int)[3], Labels)
    BY <2>2, <2>3 DEF Takes
  <2>. QED BY <1>1, <2>1, <2>3, <2>4, Emit3After
<1>3. CASE ~(IsInt(y) /\ IsInt(z))
  <2>. DEFINE c1 == ToReal(c, y)
              c2 == ToReal(c1, z)
              y1 == Real(c, y)
              z1 == Real(c1, z)
  <2>1. d = Emit3(c2, real, x, y1, z1)
    BY <1>3 DEF Typed
  <2>2. After(c, c1) /\ c1.names = c.names /\ y1 \in TokenOf(Int) /\ y1.t \in {"R", "real"}
    BY ToRealAfter
  <2>3. c1 \in CC
    BY <2>2 DEF After
  <2>. HIDE DEF c1
  <2>4. After(c1, c2) /\ c2.names = c1.names /\ z1 \in TokenOf(Int) /\ z1.t \in {"R", "real"}
    BY <2>3, ToRealAfter
  <2>5. c2 \in CC
    BY <2>4 DEF After
  <2>. HIDE DEF c2, y1, z1
  <2>6. /\ real \in Opcodes
        /\ real \in RealTests => Shape(real) = <<"I", "r", "r">>
        /\ real \notin RealTests => Shape(real) = <<"R", "r", "r">>
    BY Shapes
  <2>7. /\ x.t \in Takes(Shape(real)[1], Labels)
        /\ y1.t \in Takes(Shape(real)[2], Labels) /\ z1.t \in Takes(Shape(real)[3], Labels)
    BY <1>3, <2>2, <2>4, <2>6 DEF Takes
  <2>8. After(c2, d) /\ d.names = c2.names
    BY <1>1, <2>1, <2>2, <2>4, <2>5, <2>6, <2>7, Emit3After
  <2>9. After(c, c2)
    BY <2>2, <2>4, Transitive
  <2>. QED BY <2>2, <2>4, <2>8, <2>9, Transitive
<1>. QED BY <1>2, <1>3

\* Where loads, stores and the additions to FP and SP have their operands.
LEMMA MoveShapes ==
  /\ "LOADI" \in Opcodes /\ Shape("LOADI") = <<"I", "i", "i">>
  /\ "STORI" \in Opcodes /\ Shape("STORI") = <<"I", "i", "i">>
  /\ "ADD2I" \in Opcodes /\ Shape("ADD2I") = <<"I", "i", "i">>
  /\ "SUBTI" \in Opcodes /\ Shape("SUBTI") = <<"I", "i", "i">>
  /\ "LOADR" \in Opcodes /\ Shape("LOADR") = <<"R", "i", "i">>
  /\ "STORR" \in Opcodes /\ Shape("STORR") = <<"R", "i", "i">>
<1>1. {"LOADI", "STORI", "ADD2I", "SUBTI"} \subseteq IntOps
  BY DEF IntOps
<1>. QED BY <1>1, Shapes

\* A memory instruction, or one on SP: a register, FP or SP and a number.
LEMMA CellAfter ==
  ASSUME NEW c \in CC, NEW x \in Symbols, NEW base \in {FP, SP}, NEW offset \in Int,
         NEW op \in {"LOADI", "STORI", "ADD2I", "SUBTI", "LOADR", "STORR"},
         x.t = IF op \in {"LOADR", "STORR"} THEN "R" ELSE "I",
         NEW d, d = Emit3(c, op, x, base, Const(offset))
  PROVE  After(c, d) /\ d.names = c.names
<1>1. x \in TokenOf(Int) /\ base \in TokenOf(Int) /\ base.t = "I"
  BY SymbolIsToken, Fixed
<1>2. Const(offset) \in TokenOf(Int) /\ Const(offset).t = "int"
  BY Fixed
<1>3. /\ op \in Opcodes
      /\ Shape(op) = IF op \in {"LOADR", "STORR"} THEN <<"R", "i", "i">> ELSE <<"I", "i", "i">>
  BY MoveShapes
<1>4. /\ x.t \in Takes(Shape(op)[1], Labels) /\ base.t \in Takes(Shape(op)[2], Labels)
      /\ Const(offset).t \in Takes(Shape(op)[3], Labels)
  BY <1>1, <1>2, <1>3 DEF Takes
<1>. QED BY <1>1, <1>2, <1>3, <1>4, Emit3After

\* load().
LEMMA LoadAfter ==
  ASSUME NEW c \in CC, NEW x \in Symbols, NEW base \in {FP, SP}, NEW offset \in Int,
         NEW d, d = Load(c, x, base, offset)
  PROVE  After(c, d) /\ d.names = c.names
<1>1. x.t \in {"I", "R"}
  BY SymbolIsToken
<1>2. CASE x.t = "I"
  <2>1. d = Emit3(c, "LOADI", x, base, Const(offset))
    BY <1>2 DEF Load, IsInt
  <2>. QED BY <1>2, <2>1, CellAfter
<1>3. CASE x.t = "R"
  <2>1. d = Emit3(c, "LOADR", x, base, Const(offset))
    BY <1>3 DEF Load, IsInt
  <2>. QED BY <1>3, <2>1, CellAfter
<1>. QED BY <1>1, <1>2, <1>3

\* stor().
LEMMA StorAfter ==
  ASSUME NEW c \in CC, NEW x \in Data, NEW base \in {FP, SP}, NEW offset \in Int,
         NEW d, d = Stor(c, x, base, offset)
  PROVE  After(c, d) /\ d.names = c.names
<1>. DEFINE type == IF IsInt(x) THEN "I" ELSE "R"
            op == IF IsInt(x) THEN "STORI" ELSE "STORR"
<1>1. type \in {"I", "R"} /\ op \in {"STORI", "STORR"} /\ (op = "STORR" <=> type = "R")
  OBVIOUS
<1>2. CASE ~IsConst(x)
  <2>1. d = Emit3(c, op, x, base, Const(offset))
    BY <1>2 DEF Stor
  <2>2. x \in Symbols /\ x.t = type
    BY <1>2, ConstantIsToken, SymbolIsToken DEF Data, IsConst, IsInt
  <2>. HIDE DEF type, op
  <2>. QED BY <1>1, <2>1, <2>2, CellAfter
<1>3. CASE IsConst(x)
  <2>. DEFINE a == Fresh(c, type)
              c1 == NewTemp(c, type)
              c2 == Copy(c1, a, x)
              c3 == Emit3(c2, op, a, base, Const(offset))
  <2>1. d = Free(c3, a)
    BY <1>3 DEF Stor
  <2>2. IsInt(x) <=> type = "I"
    OBVIOUS
  <2>. HIDE DEF type, op
  <2>3. a \in Symbols /\ a.t = type
    BY <1>1, FreshSymbol
  <2>4. After(c, c1) /\ c1.names = c.names
    BY <1>1, NewTempAfter
  <2>5. c1 \in CC /\ ~(IsInt(a) /\ ~IsInt(x))
    BY <1>1, <2>2, <2>3, <2>4 DEF After, IsInt
  <2>. HIDE DEF a, c1
  <2>6. After(c1, c2) /\ c2.names = c1.names
    BY <2>3, <2>5, CopyAfter
  <2>7. c2 \in CC
    BY <2>6 DEF After
  <2>. HIDE DEF c2
  <2>8. After(c2, c3) /\ c3.names = c2.names
    BY <1>1, <2>3, <2>7, CellAfter
  <2>9. c3 \in CC
    BY <2>8 DEF After
  <2>. HIDE DEF c3
  <2>10. After(c3, d) /\ d.names = c3.names
    BY <2>1, <2>3, <2>9, FreeAfter
  <2>11. After(c, c2)
    BY <2>4, <2>6, Transitive
  <2>12. After(c, c3)
    BY <2>8, <2>11, Transitive
  <2>13. After(c, d)
    BY <2>10, <2>12, Transitive
  <2>. QED BY <2>4, <2>6, <2>8, <2>10, <2>13
<1>. QED BY <1>2, <1>3

\* ---- folds ------------------------------------------------------------------------------

\* Max takes the last of a set of the first n numbers.
LEMMA Greatest ==
  ASSUME NEW n \in Nat, NEW s \in SUBSET (1 .. n), s # {}
  PROVE  Max(s) \in s /\ \A k \in s : k <= Max(s)
<1>. DEFINE above == {n - k : k \in s}
<1>0. \A k \in s : n - k \in Nat /\ k \in Int
  OBVIOUS
<1>1. above \subseteq Nat /\ above # {}
  BY <1>0
<1>2. PICK a \in above : \A b \in above : a <= b
  BY <1>1, Smallest
<1>3. PICK m0 \in s : a = n - m0
  BY <1>2
<1>4. \A k \in s : k <= m0
  <2>1. SUFFICES ASSUME NEW k \in s PROVE k <= m0
    OBVIOUS
  <2>2. n - k \in above
    OBVIOUS
  <2>3. n - m0 <= n - k
    BY <1>2, <1>3, <2>2
  <2>. QED BY <2>3
<1>5. Max(s) = CHOOSE x \in s : \A y \in s : x >= y
  BY DEF Max
<1>6. m0 \in s /\ \A y \in s : m0 >= y
  BY <1>4
<1>7. (CHOOSE x \in s : \A y \in s : x >= y) \in s
      /\ \A y \in s : (CHOOSE x \in s : \A z \in s : x >= z) >= y
  BY <1>6
<1>8. \A k \in s : k \in Int
  OBVIOUS
<1>9. PICK g : g = Max(s)
  OBVIOUS
<1>10. g \in s /\ \A k \in s : g >= k
  BY <1>5, <1>7, <1>9
<1>11. \A k \in s : k <= g
  BY <1>8, <1>10
<1>. QED BY <1>9, <1>10, <1>11

\* The function a fold of G over the first n numbers is taken from.
Iterates(iter, n, c, G) ==
  iter = [s \in SUBSET (1 .. n) |-> IF s = {} THEN c ELSE G[<<Max(s), iter[s \ {Max(s)}]>>]]

\* There is such a function: the smallest number without one has one.
LEMMA Iterated ==
  ASSUME NEW V, NEW c \in V, NEW N \in Nat, NEW G \in [(1 .. N) \X V -> V]
  PROVE  \E iter \in [SUBSET (1 .. N) -> V] : Iterates(iter, N, c, G)
<1>. DEFINE Ok(n) == \E iter \in [SUBSET (1 .. n) -> V] : Iterates(iter, n, c, G)
            Bad == {n \in 0 .. N : ~Ok(n)}
<1>0. SUFFICES ASSUME ~Ok(N) PROVE FALSE
  OBVIOUS
<1>1. Bad # {}
  <2>. HIDE DEF Ok
  <2>1. N \in Bad
    BY <1>0
  <2>. QED BY <2>1
<1>2. PICK n \in Bad : \A k \in Bad : n <= k
  <2>1. Bad \subseteq Nat
    OBVIOUS
  <2>. HIDE DEF Bad
  <2>. QED BY <1>1, <2>1, Smallest
<1>3. n \in 0 .. N /\ ~Ok(n)
  <2>. HIDE DEF Ok
  <2>. QED BY <1>2
<1>4. CASE n = 0
  <2>. DEFINE iter == [s \in SUBSET (1 .. 0) |-> c]
  <2>1. \A s \in SUBSET (1 .. 0) : s = {}
    OBVIOUS
  <2>2. iter \in [SUBSET (1 .. 0) -> V]
    OBVIOUS
  <2>3. [s \in SUBSET (1 .. 0) |-> IF s = {} THEN c ELSE G[<<Max(s), iter[s \ {Max(s)}]>>]]
        = [s \in SUBSET (1 .. 0) |-> c]
    BY <2>1
  <2>4. Iterates(iter, 0, c, G)
    BY <2>3 DEF Iterates
  <2>. QED BY <1>3, <1>4, <2>2, <2>4
<1>5. CASE n # 0
  <2>0. n \in Nat
    BY <1>3
  <2>1. Ok(n - 1)
    <3>. HIDE DEF Ok
    <3>. QED BY <1>2, <1>3, <1>5
  <2>2. PICK f \in [SUBSET (1 .. n - 1) -> V] : Iterates(f, n - 1, c, G)
    BY <2>1
  <2>3. \A s \in SUBSET (1 .. n - 1) : f[s] = IF s = {} THEN c ELSE G[<<Max(s), f[s \ {Max(s)}]>>]
    BY <2>2 DEF Iterates
  <2>. DEFINE iter == [s \in SUBSET (1 .. n) |-> IF n \in s THEN G[<<n, f[s \ {n}]>>] ELSE f[s]]
  <2>4. \A s \in SUBSET (1 .. n) : n \in s => s \ {n} \in SUBSET (1 .. n - 1)
    BY <1>3
  <2>5. \A s \in SUBSET (1 .. n) : n \notin s => s \in SUBSET (1 .. n - 1)
    BY <1>3
  <2>6. iter \in [SUBSET (1 .. n) -> V]
    <3>1. ASSUME NEW s \in SUBSET (1 .. n), n \in s PROVE G[<<n, f[s \ {n}]>>] \in V
      <4>1. n \in 1 .. N /\ f[s \ {n}] \in V
        BY <1>3, <1>5, <2>4, <3>1
      <4>. QED BY <4>1
    <3>2. ASSUME NEW s \in SUBSET (1 .. n), n \notin s PROVE f[s] \in V
      BY <2>5, <3>2
    <3>. QED BY <3>1, <3>2
  <2>7. ASSUME NEW s \in SUBSET (1 .. n)
        PROVE  iter[s] = IF s = {} THEN c ELSE G[<<Max(s), iter[s \ {Max(s)}]>>]
    <3>1. CASE n \in s
      <4>1. Max(s) = n
        <5>1. Max(s) \in s /\ \A k \in s : k <= Max(s)
          BY <2>0, <3>1, Greatest
        <5>2. Max(s) \in 1 .. n
          BY <5>1
        <5>. QED BY <1>3, <3>1, <5>1, <5>2
      <4>2. iter[s] = G[<<n, f[s \ {n}]>>]
        BY <3>1
      <4>3. iter[s \ {n}] = f[s \ {n}]
        OBVIOUS
      <4>. QED BY <3>1, <4>1, <4>2, <4>3
    <3>2. CASE n \notin s
      <4>1. s \in SUBSET (1 .. n - 1) /\ iter[s] = f[s]
        BY <2>5, <3>2
      <4>2. CASE s # {}
        <5>1. Max(s) \in s
          BY <2>0, <4>2, Greatest
        <5>2. iter[s \ {Max(s)}] = f[s \ {Max(s)}]
          BY <3>2
        <5>. QED BY <2>3, <4>1, <4>2, <5>2
      <4>. QED BY <2>3, <4>1, <4>2
    <3>. QED BY <3>1, <3>2
  <2>. HIDE DEF iter
  <2>8. iter = [s \in SUBSET (1 .. n) |-> iter[s]]
    BY <2>6
  <2>9. Iterates(iter, n, c, G)
    BY <2>7, <2>8 DEF Iterates
  <2>. QED BY <1>3, <2>6, <2>9
<1>. QED BY <1>4, <1>5

\* What holds of the base and is kept by a step holds of the result.
LEMMA Folded ==
  ASSUME NEW N \in Nat, NEW J, NEW iter, iter[{}] \in J[{}],
         ASSUME NEW s \in SUBSET (1 .. N), s # {}, Max(s) \in s, \A k \in s : k <= Max(s),
                iter[s \ {Max(s)}] \in J[s \ {Max(s)}]
         PROVE  iter[s] \in J[s]
  PROVE  iter[1 .. N] \in J[1 .. N]
<1>. DEFINE Ok(n) == \A s \in SUBSET (1 .. n) : iter[s] \in J[s]
            Bad == {n \in 0 .. N : ~Ok(n)}
<1>1. SUFFICES ASSUME ~Ok(N) PROVE FALSE
  OBVIOUS
<1>2. Bad # {} /\ Bad \subseteq Nat
  <2>. HIDE DEF Ok
  <2>1. N \in Bad
    BY <1>1
  <2>. QED BY <2>1
<1>3. PICK n \in Bad : \A k \in Bad : n <= k
  <2>. HIDE DEF Bad
  <2>. QED BY <1>2, Smallest
<1>4. n \in 0 .. N /\ ~Ok(n)
  <2>. HIDE DEF Ok
  <2>. QED BY <1>3
<1>5. PICK s \in SUBSET (1 .. n) : iter[s] \notin J[s]
  BY <1>4
<1>6. s # {} /\ s \in SUBSET (1 .. N) /\ n \in Nat
  <2>1. s # {}
    BY <1>5
  <2>2. n \in Nat /\ n <= N
    BY <1>4
  <2>3. 1 .. n \subseteq 1 .. N
    BY <2>2
  <2>. QED BY <1>5, <2>1, <2>2, <2>3
<1>7. Max(s) \in s /\ \A k \in s : k <= Max(s)
  BY <1>5, <1>6, Greatest
<1>8. s \ {Max(s)} \in SUBSET (1 .. n - 1) /\ n - 1 \in 0 .. N
  <2>1. n - 1 \in 0 .. N
    <3>1. PICK k \in s : k \in 1 .. n
      BY <1>5, <1>6
    <3>. QED BY <1>4, <1>6, <3>1
  <2>2. ASSUME NEW k \in s \ {Max(s)} PROVE k \in 1 .. n - 1
    <3>1. k \in 1 .. n /\ Max(s) \in 1 .. n /\ k <= Max(s) /\ k # Max(s)
      BY <1>5, <1>7, <2>2
    <3>. QED BY <1>6, <3>1
  <2>. QED BY <2>1, <2>2
<1>9. Ok(n - 1)
  <2>1. n - 1 \notin Bad
    BY <1>3, <1>6
  <2>. HIDE DEF Ok
  <2>. QED BY <1>8, <2>1
<1>10. iter[s \ {Max(s)}] \in J[s \ {Max(s)}]
  BY <1>8, <1>9
<1>. QED BY <1>1, <1>5, <1>6, <1>7, <1>10

\* A queue of symbols, some of them missing.
Queue(q) == q = [n \in 1 .. Len(q) |-> q[n]] /\ Len(q) \in Nat
            /\ \A n \in 1 .. Len(q) : q[n] = <<>> \/ q[n][1] \in Data

\* One turn of push(),
LEMMA PushedAfter ==
  ASSUME NEW c \in CC, NEW x \in Data, NEW n \in Int, NEW d, d = Pushed(c, x, n)
  PROVE  After(c, d) /\ d.names = c.names
<1>. DEFINE e == Stor(c, x, SP, n - 1)
<1>1. After(c, e) /\ e.names = c.names
  BY StorAfter
<1>2. e \in CC
  BY <1>1 DEF After
<1>3. CASE x = FP
  <2>1. d = Emit3(e, "ADD2I", FP, SP, Const(n))
    BY <1>3 DEF Pushed
  <2>. HIDE DEF e
  <2>2. After(e, d) /\ d.names = e.names
    BY <1>2, <2>1, Fixed, CellAfter
  <2>. QED BY <1>1, <2>2, Transitive
<1>4. CASE x # FP
  BY <1>1, <1>4 DEF Pushed
<1>. QED BY <1>3, <1>4

\* which keeps what the turns before it have established,
LEMMA PushStep ==
  ASSUME NEW c \in CC, NEW e \in CC, After(c, e), e.names = c.names, NEW i \in Int, NEW y,
         y = <<>> \/ y[1] \in Data, NEW f, f = IF y = <<>> THEN e ELSE Pushed(e, y[1], i)
  PROVE  f \in CC /\ After(c, f) /\ f.names = c.names
<1>1. CASE y = <<>>
  BY <1>1
<1>2. CASE y # <<>>
  <2>1. After(e, f) /\ f.names = e.names
    BY <1>2, PushedAfter
  <2>2. f \in CC
    BY <2>1 DEF After
  <2>3. After(c, f)
    BY <2>1, Transitive
  <2>. QED BY <2>1, <2>2, <2>3
<1>. QED BY <1>1, <1>2

\* The fold of push(), written out.
PushedAll(c, q) ==
  LET r == [i \in DOMAIN q |-> i] IN
  (CHOOSE iter :
     iter = [s \in SUBSET DOMAIN r |->
               IF s = {} THEN c
               ELSE IF q[r[Max(s)]] = <<>> THEN iter[s \ {Max(s)}]
                    ELSE Pushed(iter[s \ {Max(s)}], q[r[Max(s)]][1], r[Max(s)])])[DOMAIN r]

\* and the fold of its turns is written out above.
LEMMA PushFolds ==
  ASSUME NEW c, NEW q
  PROVE  Push(c, q) = Emit3(PushedAll(c, q), "ADD2I", SP, SP, Const(Len(q)))
BY DEF Push, PushedAll, FoldLeftDomain, FoldLeft, MapThenFoldSet

\* So all turns together only go on.
LEMMA PushFold ==
  ASSUME NEW c \in CC, NEW q, Queue(q), NEW d, d = PushedAll(c, q)
  PROVE  After(c, d) /\ d.names = c.names
<1>. DEFINE N == Len(q)
            r == [i \in DOMAIN q |-> i]
            V == {e \in CC : After(c, e) /\ e.names = c.names}
            F(e, i) == IF q[i] = <<>> THEN e ELSE Pushed(e, q[i][1], i)
            G == [p \in (1 .. N) \X V |-> F(p[2], p[1])]
            H(iter) == [s \in SUBSET DOMAIN r |->
                          IF s = {} THEN c ELSE F(iter[s \ {Max(s)}], r[Max(s)])]
            chosen == CHOOSE iter : iter = H(iter)
<1>1. d = chosen[DOMAIN r]
  BY DEF PushedAll
<1>2. N \in Nat /\ DOMAIN q = 1 .. N /\ DOMAIN r = 1 .. N /\ \A i \in 1 .. N : r[i] = i
  BY DEF Queue
<1>3. c \in V
  BY Reflexive
<1>4. ASSUME NEW e \in V, NEW i \in 1 .. N PROVE F(e, i) \in V
  <2>1. e \in CC /\ After(c, e) /\ e.names = c.names
    OBVIOUS
  <2>2. i \in Int
    BY <1>2
  <2>3. PICK y : y = q[i] /\ (y = <<>> \/ y[1] \in Data)
    BY DEF Queue
  <2>4. PICK f : f = IF y = <<>> THEN e ELSE Pushed(e, y[1], i)
    OBVIOUS
  <2>5. f \in CC /\ After(c, f) /\ f.names = c.names
    <3>. HIDE DEF V, N
    <3>. QED BY <2>1, <2>2, <2>3, <2>4, PushStep
  <2>. QED BY <2>3, <2>4, <2>5
<1>. HIDE DEF F, N, r, V
<1>5. G \in [(1 .. N) \X V -> V]
  BY <1>4
<1>6. PICK it \in [SUBSET (1 .. N) -> V] : Iterates(it, N, c, G)
  BY <1>2, <1>3, <1>5, Iterated
<1>7. it = H(it)
  <2>1. ASSUME NEW s \in SUBSET (1 .. N), s # {}
        PROVE  G[<<Max(s), it[s \ {Max(s)}]>>] = F(it[s \ {Max(s)}], r[Max(s)])
    <3>1. Max(s) \in 1 .. N
      BY <1>2, <2>1, Greatest
    <3>2. it[s \ {Max(s)}] \in V
      OBVIOUS
    <3>. QED BY <1>2, <3>1, <3>2
  <2>. HIDE DEF G
  <2>. QED BY <1>2, <1>6, <2>1 DEF Iterates
<1>8. chosen = H(chosen)
  <2>. HIDE DEF H
  <2>. QED BY <1>7
<1>. HIDE DEF chosen
<1>9. /\ chosen[{}] = c
      /\ \A s \in SUBSET (1 .. N) : s # {} => chosen[s] = F(chosen[s \ {Max(s)}], r[Max(s)])
  BY <1>2, <1>8
<1>. DEFINE J == [s \in SUBSET (1 .. N) |-> V]
<1>10. ASSUME NEW s \in SUBSET (1 .. N), s # {}, Max(s) \in s,
              chosen[s \ {Max(s)}] \in J[s \ {Max(s)}]
       PROVE  chosen[s] \in J[s]
  <2>1. Max(s) \in 1 .. N /\ r[Max(s)] = Max(s) /\ chosen[s \ {Max(s)}] \in V
    BY <1>2, <1>10
  <2>2. chosen[s] = F(chosen[s \ {Max(s)}], Max(s))
    BY <1>9, <1>10, <2>1
  <2>3. PICK e \in V, i \in 1 .. N : e = chosen[s \ {Max(s)}] /\ i = Max(s)
    BY <2>1
  <2>4. chosen[s] \in V
    BY <1>4, <2>2, <2>3
  <2>. QED BY <2>4
<1>11. chosen[{}] \in J[{}]
  BY <1>3, <1>9
<1>12. chosen[1 .. N] \in J[1 .. N]
  <2>. HIDE DEF J
  <2>. QED BY <1>2, <1>10, <1>11, Folded
<1>13. chosen[1 .. N] \in V
  BY <1>12
<1>. QED BY <1>1, <1>2, <1>13 DEF V

\* A queue of registers, some of them missing, and the fold of pop().
Registers(q) == Queue(q) /\ \A n \in 1 .. Len(q) : q[n] = <<>> \/ q[n][1] \in Symbols

PopAll(c, q) ==
  LET r == [i \in DOMAIN q |-> i] IN
  (CHOOSE iter :
     iter = [s \in SUBSET DOMAIN r |->
               IF s = {} THEN c
               ELSE IF q[r[Max(s)]] = <<>> THEN iter[s \ {Max(s)}]
                    ELSE Load(iter[s \ {Max(s)}], q[r[Max(s)]][1], SP, r[Max(s)] - 1)])[DOMAIN r]

\* The same of pop().
LEMMA PopFolds ==
  ASSUME NEW c, NEW q
  PROVE  Pop(c, q) = PopAll(Emit3(c, "SUBTI", SP, SP, Const(Len(q))), q)
BY DEF Pop, PopAll, FoldLeftDomain, FoldLeft, MapThenFoldSet

\* One turn of it keeps what is established,
LEMMA PopStep ==
  ASSUME NEW c \in CC, NEW e \in CC, After(c, e), e.names = c.names, NEW i \in Int, NEW y,
         y = <<>> \/ y[1] \in Symbols, NEW f, f = IF y = <<>> THEN e ELSE Load(e, y[1], SP, i - 1)
  PROVE  f \in CC /\ After(c, f) /\ f.names = c.names
<1>1. CASE y = <<>>
  BY <1>1
<1>2. CASE y # <<>>
  <2>1. After(e, f) /\ f.names = e.names
    BY <1>2, LoadAfter
  <2>2. f \in CC
    BY <2>1 DEF After
  <2>3. After(c, f)
    BY <2>1, Transitive
  <2>. QED BY <2>1, <2>2, <2>3
<1>. QED BY <1>1, <1>2

\* and so do all.
LEMMA PopFold ==
  ASSUME NEW c \in CC, NEW q, Registers(q), NEW d, d = PopAll(c, q)
  PROVE  After(c, d) /\ d.names = c.names
<1>. DEFINE N == Len(q)
            r == [i \in DOMAIN q |-> i]
            V == {e \in CC : After(c, e) /\ e.names = c.names}
            F(e, i) == IF q[i] = <<>> THEN e ELSE Load(e, q[i][1], SP, i - 1)
            G == [p \in (1 .. N) \X V |-> F(p[2], p[1])]
            H(iter) == [s \in SUBSET DOMAIN r |->
                          IF s = {} THEN c ELSE F(iter[s \ {Max(s)}], r[Max(s)])]
            chosen == CHOOSE iter : iter = H(iter)
<1>1. d = chosen[DOMAIN r]
  BY DEF PopAll
<1>2. N \in Nat /\ DOMAIN q = 1 .. N /\ DOMAIN r = 1 .. N /\ \A i \in 1 .. N : r[i] = i
  BY DEF Registers, Queue
<1>3. c \in V
  BY Reflexive
<1>4. ASSUME NEW e \in V, NEW i \in 1 .. N PROVE F(e, i) \in V
  <2>1. e \in CC /\ After(c, e) /\ e.names = c.names
    OBVIOUS
  <2>2. i \in Int
    BY <1>2
  <2>3. PICK y : y = q[i] /\ (y = <<>> \/ y[1] \in Symbols)
    BY DEF Registers
  <2>4. PICK f : f = IF y = <<>> THEN e ELSE Load(e, y[1], SP, i - 1)
    OBVIOUS
  <2>5. f \in CC /\ After(c, f) /\ f.names = c.names
    <3>. HIDE DEF V, N
    <3>. QED BY <2>1, <2>2, <2>3, <2>4, PopStep
  <2>. QED BY <2>3, <2>4, <2>5
<1>. HIDE DEF F, N, r, V
<1>5. G \in [(1 .. N) \X V -> V]
  BY <1>4
<1>6. PICK it \in [SUBSET (1 .. N) -> V] : Iterates(it, N, c, G)
  BY <1>2, <1>3, <1>5, Iterated
<1>7. it = H(it)
  <2>1. ASSUME NEW s \in SUBSET (1 .. N), s # {}
        PROVE  G[<<Max(s), it[s \ {Max(s)}]>>] = F(it[s \ {Max(s)}], r[Max(s)])
    <3>1. Max(s) \in 1 .. N
      BY <1>2, <2>1, Greatest
    <3>2. it[s \ {Max(s)}] \in V
      OBVIOUS
    <3>. QED BY <1>2, <3>1, <3>2
  <2>. HIDE DEF G
  <2>. QED BY <1>2, <1>6, <2>1 DEF Iterates
<1>8. chosen = H(chosen)
  <2>. HIDE DEF H
  <2>. QED BY <1>7
<1>. HIDE DEF chosen
<1>9. /\ chosen[{}] = c
      /\ \A s \in SUBSET (1 .. N) : s # {} => chosen[s] = F(chosen[s \ {Max(s)}], r[Max(s)])
  BY <1>2, <1>8
<1>. DEFINE J == [s \in SUBSET (1 .. N) |-> V]
<1>10. ASSUME NEW s \in SUBSET (1 .. N), s # {}, Max(s) \in s,
              chosen[s \ {Max(s)}] \in J[s \ {Max(s)}]
       PROVE  chosen[s] \in J[s]
  <2>1. Max(s) \in 1 .. N /\ r[Max(s)] = Max(s) /\ chosen[s \ {Max(s)}] \in V
    BY <1>2, <1>10
  <2>2. chosen[s] = F(chosen[s \ {Max(s)}], Max(s))
    BY <1>9, <1>10, <2>1
  <2>3. PICK e \in V, i \in 1 .. N : e = chosen[s \ {Max(s)}] /\ i = Max(s)
    BY <2>1
  <2>4. chosen[s] \in V
    BY <1>4, <2>2, <2>3
  <2>. QED BY <2>4
<1>11. chosen[{}] \in J[{}]
  BY <1>3, <1>9
<1>12. chosen[1 .. N] \in J[1 .. N]
  <2>. HIDE DEF J
  <2>. QED BY <1>2, <1>10, <1>11, Folded
<1>13. chosen[1 .. N] \in V
  BY <1>12
<1>. QED BY <1>1, <1>2, <1>13 DEF V

\* The fold of load_argument().
LoadArgsAll(c, q) ==
  LET r == [i \in DOMAIN q |-> i] IN
  (CHOOSE iter :
     iter = [s \in SUBSET DOMAIN r |->
               IF s = {} THEN c
               ELSE Load(iter[s \ {Max(s)}], iter[s \ {Max(s)}].names[q[r[Max(s)]]], FP,
                         r[Max(s)])])[DOMAIN r]

\* One turn of load_argument() keeps what is established,
LEMMA LoadStep ==
  ASSUME NEW c \in CC, NEW e \in CC, After(c, e), e.names = c.names, NEW i \in Int, NEW x \in Symbols,
         NEW f, f = Load(e, x, FP, i)
  PROVE  f \in CC /\ After(c, f) /\ f.names = c.names
<1>2. After(e, f) /\ f.names = e.names
  BY LoadAfter
<1>3. f \in CC
  BY <1>2 DEF After
<1>4. After(c, f)
  BY <1>2, Transitive
<1>. QED BY <1>2, <1>3, <1>4

\* and so do all.
LEMMA LoadArgsFold ==
  ASSUME NEW c \in CC, NEW q, Len(q) \in Nat, DOMAIN q = 1 .. Len(q),
         \A i \in 1 .. Len(q) : q[i] \in DOMAIN c.names, NEW d, d = LoadArgsAll(c, q)
  PROVE  After(c, d) /\ d.names = c.names
<1>. DEFINE N == Len(q)
            r == [i \in DOMAIN q |-> i]
            V == {e \in CC : After(c, e) /\ e.names = c.names}
            F(e, i) == Load(e, e.names[q[i]], FP, i)
            G == [p \in (1 .. N) \X V |-> F(p[2], p[1])]
            H(iter) == [s \in SUBSET DOMAIN r |->
                          IF s = {} THEN c ELSE F(iter[s \ {Max(s)}], r[Max(s)])]
            chosen == CHOOSE iter : iter = H(iter)
<1>1. d = chosen[DOMAIN r]
  BY DEF LoadArgsAll
<1>2. N \in Nat /\ DOMAIN q = 1 .. N /\ DOMAIN r = 1 .. N /\ \A i \in 1 .. N : r[i] = i
  OBVIOUS
<1>3. c \in V
  BY Reflexive
<1>4. ASSUME NEW e \in V, NEW i \in 1 .. N PROVE F(e, i) \in V
  <2>1. e \in CC /\ After(c, e) /\ e.names = c.names
    OBVIOUS
  <2>2. i \in Int
    BY <1>2
  <2>3. PICK y : y = q[i] /\ (y \in DOMAIN c.names)
    BY <1>2
  <2>6. PICK x \in Symbols : x = c.names[y]
    BY <2>3, Fields
  <2>4. PICK f : f = Load(e, x, FP, i)
    OBVIOUS
  <2>5. f \in CC /\ After(c, f) /\ f.names = c.names
    <3>. HIDE DEF V, N
    <3>. QED BY <2>1, <2>2, <2>3, <2>4, <2>6, LoadStep
  <2>. QED BY <2>1, <2>3, <2>4, <2>5, <2>6
<1>. HIDE DEF F, N, r, V
<1>5. G \in [(1 .. N) \X V -> V]
  BY <1>4
<1>6. PICK it \in [SUBSET (1 .. N) -> V] : Iterates(it, N, c, G)
  BY <1>2, <1>3, <1>5, Iterated
<1>7. it = H(it)
  <2>1. ASSUME NEW s \in SUBSET (1 .. N), s # {}
        PROVE  G[<<Max(s), it[s \ {Max(s)}]>>] = F(it[s \ {Max(s)}], r[Max(s)])
    <3>1. Max(s) \in 1 .. N
      BY <1>2, <2>1, Greatest
    <3>2. it[s \ {Max(s)}] \in V
      OBVIOUS
    <3>. QED BY <1>2, <3>1, <3>2
  <2>. HIDE DEF G
  <2>. QED BY <1>2, <1>6, <2>1 DEF Iterates
<1>8. chosen = H(chosen)
  <2>. HIDE DEF H
  <2>. QED BY <1>7
<1>. HIDE DEF chosen
<1>9. /\ chosen[{}] = c
      /\ \A s \in SUBSET (1 .. N) : s # {} => chosen[s] = F(chosen[s \ {Max(s)}], r[Max(s)])
  BY <1>2, <1>8
<1>. DEFINE J == [s \in SUBSET (1 .. N) |-> V]
<1>10. ASSUME NEW s \in SUBSET (1 .. N), s # {}, Max(s) \in s,
              chosen[s \ {Max(s)}] \in J[s \ {Max(s)}]
       PROVE  chosen[s] \in J[s]
  <2>1. Max(s) \in 1 .. N /\ r[Max(s)] = Max(s) /\ chosen[s \ {Max(s)}] \in V
    BY <1>2, <1>10
  <2>2. chosen[s] = F(chosen[s \ {Max(s)}], Max(s))
    BY <1>9, <1>10, <2>1
  <2>3. PICK e \in V, i \in 1 .. N : e = chosen[s \ {Max(s)}] /\ i = Max(s)
    BY <2>1
  <2>4. chosen[s] \in V
    BY <1>4, <2>2, <2>3
  <2>. QED BY <2>4
<1>11. chosen[{}] \in J[{}]
  BY <1>3, <1>9
<1>12. chosen[1 .. N] \in J[1 .. N]
  <2>. HIDE DEF J
  <2>. QED BY <1>2, <1>10, <1>11, Folded
<1>13. chosen[1 .. N] \in V
  BY <1>12
<1>. QED BY <1>1, <1>2, <1>13 DEF V

\* The fold of the declarations.
NewNamesAll(c, q) ==
  (CHOOSE iter :
     iter = [s \in SUBSET DOMAIN q |->
               IF s = {} THEN c
               ELSE NewName(iter[s \ {Max(s)}], q[Max(s)], src.types[q[Max(s)]])])[DOMAIN q]

\* The same of the declarations.
LEMMA NewNamesFolds ==
  ASSUME NEW c, NEW q
  PROVE  NewNames(c, q) = NewNamesAll(c, q)
BY DEF NewNames, NewNamesAll, FoldLeft, MapThenFoldSet

\* One declaration makes one more name known,
LEMMA NewNamesStep ==
  ASSUME NEW c \in CC, NEW e \in CC, After(c, e), NEW y, y \in AllNames, src.types[y] \in Types,
         NEW f, f = NewName(e, y, src.types[y])
  PROVE  f \in CC /\ After(c, f) /\ DOMAIN f.names = DOMAIN e.names \cup {y}
<1>1. After(e, f) /\ DOMAIN f.names = DOMAIN e.names \cup {y}
  BY NewNameAfter DEF Types
<1>2. f \in CC
  BY <1>1 DEF After
<1>3. After(c, f)
  BY <1>1, Transitive
<1>. QED BY <1>1, <1>2, <1>3

\* and all make all of them known.
LEMMA NewNamesFold ==
  ASSUME NEW c \in CC, NEW q, Len(q) \in Nat, DOMAIN q = 1 .. Len(q),
         \A i \in 1 .. Len(q) : q[i] \in AllNames /\ src.types[q[i]] \in Types, NEW d, d = NewNamesAll(c, q)
  PROVE  After(c, d) /\ {q[i] : i \in 1 .. Len(q)} \subseteq DOMAIN d.names
<1>. DEFINE N == Len(q)
            V == {e \in CC : After(c, e)}
            F(e, i) == NewName(e, q[i], src.types[q[i]])
            G == [p \in (1 .. N) \X V |-> F(p[2], p[1])]
            H(iter) == [s \in SUBSET DOMAIN q |->
                          IF s = {} THEN c ELSE F(iter[s \ {Max(s)}], Max(s))]
            chosen == CHOOSE iter : iter = H(iter)
<1>1. d = chosen[DOMAIN q]
  BY DEF NewNamesAll
<1>2. N \in Nat /\ DOMAIN q = 1 .. N
  OBVIOUS
<1>3. c \in V
  BY Reflexive
<1>4. ASSUME NEW e \in V, NEW i \in 1 .. N PROVE F(e, i) \in V
  <2>1. e \in CC /\ After(c, e)
    OBVIOUS
  <2>3. PICK y : y = q[i] /\ (y \in AllNames /\ src.types[y] \in Types)
    BY <1>2
  <2>4. PICK f : f = NewName(e, y, src.types[y])
    OBVIOUS
  <2>5. f \in CC /\ After(c, f)
    <3>. HIDE DEF V, N
    <3>. QED BY <2>1, <2>3, <2>4, NewNamesStep
  <2>. QED BY <2>3, <2>4, <2>5
<1>. HIDE DEF F, N, V
<1>5. G \in [(1 .. N) \X V -> V]
  BY <1>4
<1>6. PICK it \in [SUBSET (1 .. N) -> V] : Iterates(it, N, c, G)
  BY <1>2, <1>3, <1>5, Iterated
<1>7. it = H(it)
  <2>1. ASSUME NEW s \in SUBSET (1 .. N), s # {}
        PROVE  G[<<Max(s), it[s \ {Max(s)}]>>] = F(it[s \ {Max(s)}], Max(s))
    <3>1. Max(s) \in 1 .. N
      BY <1>2, <2>1, Greatest
    <3>2. it[s \ {Max(s)}] \in V
      OBVIOUS
    <3>. QED BY <1>2, <3>1, <3>2
  <2>. HIDE DEF G
  <2>. QED BY <1>2, <1>6, <2>1 DEF Iterates
<1>8. chosen = H(chosen)
  <2>. HIDE DEF H
  <2>. QED BY <1>7
<1>. HIDE DEF chosen
<1>9. /\ chosen[{}] = c
      /\ \A s \in SUBSET (1 .. N) : s # {} => chosen[s] = F(chosen[s \ {Max(s)}], Max(s))
  BY <1>2, <1>8
<1>. DEFINE J == [s \in SUBSET (1 .. N) |-> {e \in V : {q[i] : i \in s} \subseteq DOMAIN e.names}]
<1>10. ASSUME NEW s \in SUBSET (1 .. N), s # {}, Max(s) \in s,
              chosen[s \ {Max(s)}] \in J[s \ {Max(s)}]
       PROVE  chosen[s] \in J[s]
  <2>1. Max(s) \in 1 .. N /\ s \ {Max(s)} \in SUBSET (1 .. N)
    BY <1>10
  <2>2. chosen[s] = F(chosen[s \ {Max(s)}], Max(s))
    BY <1>9, <1>10
  <2>3. PICK e \in V, i \in 1 .. N : /\ e = chosen[s \ {Max(s)}] /\ i = Max(s)
                                  /\ {q[k] : k \in s \ {Max(s)}} \subseteq DOMAIN e.names
    BY <1>10, <2>1
  <2>4. chosen[s] \in V
    BY <1>4, <2>2, <2>3
  <2>5. DOMAIN chosen[s].names = DOMAIN e.names \cup {q[i]}
    <3>1. e \in CC /\ After(c, e)
      BY DEF V
    <3>2. PICK y : y = q[i] /\ y \in AllNames /\ src.types[y] \in Types
      BY DEF N
    <3>3. chosen[s] = NewName(e, y, src.types[y])
      BY <2>2, <2>3, <3>2 DEF F
    <3>. HIDE DEF J
    <3>. QED BY <3>1, <3>2, <3>3, NewNamesStep
  <2>6. {q[k] : k \in s} \subseteq DOMAIN chosen[s].names
    BY <2>3, <2>5
  <2>. QED BY <2>4, <2>6
<1>11. chosen[{}] \in J[{}]
  BY <1>3, <1>9
<1>12. chosen[1 .. N] \in J[1 .. N]
  <2>. HIDE DEF J
  <2>. QED BY <1>2, <1>10, <1>11, Folded
<1>13. chosen[1 .. N] \in V /\ {q[k] : k \in 1 .. N} \subseteq DOMAIN chosen[1 .. N].names
  BY <1>12
<1>. QED BY <1>1, <1>2, <1>13 DEF V, N

\* Declaring names makes them known and goes on.
LEMMA NewNamesAfter ==
  ASSUME NEW c \in CC, NEW q, Len(q) \in Nat, DOMAIN q = 1 .. Len(q),
         \A i \in 1 .. Len(q) : q[i] \in AllNames /\ src.types[q[i]] \in Types,
         NEW d, d = NewNames(c, q)
  PROVE  After(c, d) /\ {q[i] : i \in 1 .. Len(q)} \subseteq DOMAIN d.names
<1>1. d = NewNamesAll(c, q)
  BY NewNamesFolds
<1>. QED BY <1>1, NewNamesFold

\* push() of a queue of operands.
LEMMA PushAfter ==
  ASSUME NEW c \in CC, NEW q, Queue(q), NEW d, d = Push(c, q)
  PROVE  After(c, d) /\ d.names = c.names
<1>1. PICK e : e = PushedAll(c, q)
  OBVIOUS
<1>2. After(c, e) /\ e.names = c.names
  BY <1>1, PushFold
<1>3. e \in CC
  BY <1>2 DEF After
<1>4. d = Emit3(e, "ADD2I", SP, SP, Const(Len(q)))
  BY <1>1, PushFolds
<1>5. Len(q) \in Int
  BY DEF Queue
<1>6. After(e, d) /\ d.names = e.names
  BY <1>3, <1>4, <1>5, Fixed, CellAfter
<1>. QED BY <1>2, <1>6, Transitive

\* pop() into a queue of registers.
LEMMA PopAfter ==
  ASSUME NEW c \in CC, NEW q, Registers(q), NEW d, d = Pop(c, q)
  PROVE  After(c, d) /\ d.names = c.names
<1>1. PICK e : e = Emit3(c, "SUBTI", SP, SP, Const(Len(q)))
  OBVIOUS
<1>2. Len(q) \in Int
  BY DEF Queue, Registers
<1>3. After(c, e) /\ e.names = c.names
  BY <1>1, <1>2, Fixed, CellAfter
<1>4. e \in CC
  BY <1>3 DEF After
<1>5. d = PopAll(e, q)
  BY <1>1, PopFolds
<1>6. After(e, d) /\ d.names = e.names
  BY <1>4, <1>5, PopFold
<1>. QED BY <1>3, <1>6, Transitive

\* ---- the semantic rules -----------------------------------------------------------------

\* A state with new code, saved registers, block and item.
LEMMA Made ==
  ASSUME NEW c \in CC, NEW k \in Seq(Emitted), NEW s \in Seq(Seq(TokenOf(Int))), NEW b \in Blocks,
         NEW n \in Int,
         NEW d, d = [pool |-> c.pool, usage |-> c.usage, names |-> c.names, code |-> k,
                     saved |-> s, block |-> b, item |-> n]
  PROVE  d \in CC /\ d.names = c.names /\ d.code = k /\ d.block = b /\ d.item = n
BY Fields DEF CC

\* A new item number.
LEMMA Numbered ==
  ASSUME NEW c \in CC, NEW n \in Int, NEW d, d = [c EXCEPT !.item = n]
  PROVE  After(c, d) /\ d.names = c.names /\ d.item = n
<1>1. d = [pool |-> c.pool, usage |-> c.usage, names |-> c.names, code |-> c.code,
           saved |-> c.saved, block |-> c.block, item |-> n]
  BY Unfolded
<1>2. d \in CC
  BY <1>1, Fields DEF CC
<1>3. Len(c.code) \in Nat
  BY Fields
<1>. QED BY <1>1, <1>2, <1>3 DEF After

\* A call marks LR as used.
LEMMA TouchAfter ==
  ASSUME NEW c \in CC, NEW d, d = TouchLR(c)
  PROVE  After(c, d) /\ d.names = c.names
<1>. DEFINE t == Mirror(c.usage["I"], LR.v)
            u == [c.usage EXCEPT !["I"] = t]
<1>1. LR.v \in Int /\ c.usage["I"] \in Tables
  BY Fields DEF LR, Tok
<1>2. t \in Tables
  BY <1>1, TableChanges
<1>3. d = [c EXCEPT !.usage["I"] = t]
  BY DEF TouchLR
<1>. HIDE DEF t
<1>4. u \in [{"I", "R"} -> Tables]
  BY <1>2, Fields
<1>5. d = [pool |-> c.pool, usage |-> u, names |-> c.names, code |-> c.code, saved |-> c.saved,
           block |-> c.block, item |-> c.item]
  BY <1>3, Unfolded
<1>. HIDE DEF u
<1>. QED BY <1>4, <1>5, Fields, Tabled

\* An operand the parser lets through is a register or a constant.
LEMMA SymData ==
  ASSUME NEW c \in CC, NEW x, Usable(x, DOMAIN c.names)
  PROVE  /\ Sym(c, x) \in Data
         /\ AllInteger /\ x.t # "real" => IsInt(Sym(c, x))
<1>1. CASE x.t = "name"
  <2>1. Sym(c, x) = c.names[x.v] /\ x.v \in DOMAIN c.names
    BY <1>1 DEF Sym, Usable
  <2>. QED BY <2>1, Fields DEF Data, Types, IsInt
<1>2. CASE x.t # "name"
  <2>1. Sym(c, x) = x /\ x \in Constant
    BY <1>2 DEF Sym, Usable, Constant
  <2>. QED BY <2>1 DEF Data, Constant, IsInt
<1>. QED BY <1>1, <1>2

\* CastIfRequired() yields such a one again.
LEMMA CastAfter ==
  ASSUME NEW c \in CC, NEW x \in Data, NEW type, NEW d, d = CastCode(c, x, type)
  PROVE  After(c, d) /\ d.names = c.names /\ Cast(c, x, type) \in Data
<1>1. CASE type = "R"
  <2>1. d = ToReal(c, x) /\ Cast(c, x, type) = Real(c, x)
    BY <1>1 DEF CastCode, Cast
  <2>. QED BY <2>1, ToRealAfter
<1>2. CASE type # "R"
  BY <1>2, Reflexive DEF CastCode, Cast
<1>. QED BY <1>1, <1>2

\* An assignment.
LEMMA AssnAfter ==
  ASSUME NEW c \in CC, NEW i, i.kind = "assn", Usable(i.x, DOMAIN c.names), i.dest \in DOMAIN c.names,
         ~Mismatch(c, i), NEW d, d = ItemCode(c, i)
  PROVE  After(c, d)
<1>1. PICK x \in Symbols : x = c.names[i.dest]
  BY Fields
<1>2. PICK y \in Data : y = Sym(c, i.x)
  BY SymData
<1>3. d = Copy(c, x, y)
  BY <1>1, <1>2 DEF ItemCode
<1>4. ~(IsInt(x) /\ ~IsInt(y))
  BY <1>1, <1>2 DEF Mismatch
<1>. QED BY <1>3, <1>4, CopyAfter

\* An arithmetic expression makes its temporary known.
LEMMA ArithAfter ==
  ASSUME NEW c \in CC, NEW i, i.kind = "arith", i.op \in {"+", "-", "*", "/"}, i.dest \in AllNames,
         Usable(i.x, DOMAIN c.names), Usable(i.y, DOMAIN c.names),
         AllInteger => i.x.t # "real" /\ i.y.t # "real", NEW d, d = ItemCode(c, i)
  PROVE  After(c, d) /\ i.dest \in DOMAIN d.names
<1>1. PICK x \in Data : x = Sym(c, i.x) /\ (AllInteger => IsInt(x))
  BY SymData
<1>2. PICK y \in Data : y = Sym(c, i.y) /\ (AllInteger => IsInt(y))
  BY SymData
<1>3. PICK type \in {"I", "R"} :
        type = (IF IsInt(x) /\ IsInt(y) THEN "I" ELSE "R") /\ type \in Types
  BY <1>1, <1>2 DEF Types
<1>4. PICK int \in IntOps, real \in RealOps : ArithOps(i.op) = <<int, real>>
  BY DEF ArithOps, IntOps, RealOps
<1>5. PICK e : e = NewName(c, i.dest, type)
  OBVIOUS
<1>6. After(c, e) /\ DOMAIN e.names = DOMAIN c.names \cup {i.dest} /\ e.names[i.dest] = Fresh(c, type)
  BY <1>3, <1>5, NewNameAfter
<1>7. e \in CC
  BY <1>6 DEF After
<1>8. PICK z \in Symbols : z = e.names[i.dest] /\ z.t = type
  BY <1>6, FreshSymbol
<1>9. d = Typed(e, <<int, real>>, z, x, y)
  BY <1>1, <1>2, <1>3, <1>4, <1>5, <1>8 DEF ItemCode, ArithCode
<1>10. real \notin RealTests
  BY DEF RealTests, RealOps
<1>11. After(e, d) /\ d.names = e.names
  BY <1>3, <1>7, <1>8, <1>9, <1>10, TypedAfter
<1>. QED BY <1>6, <1>11, Transitive

\* READ.
LEMMA ReadAfter ==
  ASSUME NEW c \in CC, NEW i, i.kind = "read", i.dest \in DOMAIN c.names, NEW d, d = ItemCode(c, i)
  PROVE  After(c, d)
<1>1. PICK x \in Symbols : x = c.names[i.dest]
  BY Fields
<1>2. x \in TokenOf(Int) /\ x.t \in {"I", "R"}
  BY SymbolIsToken
<1>3. CASE IsInt(x)
  <2>1. d = Emit(c, "READI", <<x>>, <<>>, <<>>)
    BY <1>1, <1>3 DEF ItemCode
  <2>2. /\ "READI" \in Opcodes /\ x.t \in Takes(Shape("READI")[1], Labels)
        /\ Shape("READI")[2] = "-" /\ Shape("READI")[3] = "-"
    BY <1>2, <1>3, Shapes DEF Takes, IsInt
  <2>. QED BY <1>2, <2>1, <2>2, DestAfter
<1>4. CASE ~IsInt(x)
  <2>1. d = Emit(c, "READR", <<x>>, <<>>, <<>>)
    BY <1>1, <1>4 DEF ItemCode
  <2>2. /\ "READR" \in Opcodes /\ x.t \in Takes(Shape("READR")[1], Labels)
        /\ Shape("READR")[2] = "-" /\ Shape("READR")[3] = "-"
    BY <1>2, <1>4, Shapes DEF Takes, IsInt
  <2>. QED BY <1>2, <2>1, <2>2, DestAfter
<1>. QED BY <1>3, <1>4

\* WRITE.
LEMMA WriteAfter ==
  ASSUME NEW c \in CC, NEW i, i.kind = "write", Usable(i.x, DOMAIN c.names), NEW d, d = ItemCode(c, i)
  PROVE  After(c, d)
<1>1. PICK x \in Data : x = Sym(c, i.x)
  BY SymData
<1>2. x \in TokenOf(Int) /\ x.t \in {"I", "R", "int", "real"}
  BY Datum
<1>3. CASE IsInt(x)
  <2>1. d = Emit(c, "PRNTI", <<>>, <<x>>, <<>>)
    BY <1>1, <1>3 DEF ItemCode
  <2>2. /\ "PRNTI" \in Opcodes /\ x.t \in Takes(Shape("PRNTI")[1], Labels)
        /\ Shape("PRNTI")[2] = "-" /\ Shape("PRNTI")[3] = "-"
    BY <1>2, <1>3, Shapes DEF Takes, IsInt
  <2>. QED BY <1>2, <2>1, <2>2, SourceAfter
<1>4. CASE ~IsInt(x)
  <2>1. d = Emit(c, "PRNTR", <<>>, <<x>>, <<>>)
    BY <1>1, <1>4 DEF ItemCode
  <2>2. /\ "PRNTR" \in Opcodes /\ x.t \in Takes(Shape("PRNTR")[1], Labels)
        /\ Shape("PRNTR")[2] = "-" /\ Shape("PRNTR")[3] = "-"
    BY <1>2, <1>4, Shapes DEF Takes, IsInt
  <2>. QED BY <1>2, <2>1, <2>2, SourceAfter
<1>. QED BY <1>3, <1>4

\* Jumps to a label, and JLINK.
LEMMA JumpAfter ==
  ASSUME NEW c \in CC, NEW l \in TokenOf(Int), l.t \in Labels \cup {"int"}, NEW op \in {"UJUMP", "JLINK"},
         NEW d, d = EmitJump(c, op, l)
  PROVE  After(c, d) /\ d.names = c.names
<1>1. d = Emit(c, op, <<>>, <<l>>, <<>>)
  BY DEF EmitJump
<1>2. /\ op \in Opcodes /\ l.t \in Takes(Shape(op)[1], Labels)
      /\ Shape(op)[2] = "-" /\ Shape(op)[3] = "-"
  BY Shapes DEF Takes
<1>. QED BY <1>1, <1>2, SourceAfter

\* Labels are operands, too,
LEMMA LabelToken ==
  ASSUME NEW kind \in Labels, NEW n \in Int
  PROVE  Tok(kind, n) \in TokenOf(Int) /\ Tok(kind, n).t \in Labels
BY DEF Tok, TokenOf, Labels

\* and so are the labels of an item.
LEMMA AtToken ==
  ASSUME NEW kind \in Labels, NEW n \in Int, NEW c
  PROVE  At(kind, c, n) \in TokenOf(Int) /\ At(kind, c, n).t \in Labels
BY DEF At, Tok, TokenOf, Labels

\* The "fi" of an "if" that has one: the first that fits.
LEMMA MatchingFi ==
  ASSUME NEW items, Len(items) \in Nat, NEW i \in Int,
         \E k \in i + 1 .. Len(items) : EndsIf(items, i, k)
  PROVE  /\ Matching(items, i) \in i + 1 .. Len(items)
         /\ items[Matching(items, i)].kind = "fi"
<1>. DEFINE P(k) == EndsIf(items, i, k)
            T == {t \in Nat : i + 1 + t \in i + 1 .. Len(items) /\ P(i + 1 + t)}
<1>1. PICK k \in i + 1 .. Len(items) : P(k)
  OBVIOUS
<1>2. items[k].kind = "fi"
  BY <1>1 DEF EndsIf
<1>. HIDE DEF P
<1>3. k - i - 1 \in Nat /\ i + 1 + (k - i - 1) = k
  OBVIOUS
<1>4. k - i - 1 \in T
  BY <1>1, <1>3
<1>5. PICK t0 \in T : \A t \in T : t0 <= t
  BY <1>4, Smallest
<1>6. ASSUME NEW n \in i + 1 .. i + 1 + t0 - 1, P(n) PROVE FALSE
  <2>1. PICK t \in Nat : i + 1 + t = n /\ t < t0
    <3>1. n - i - 1 \in Nat /\ i + 1 + (n - i - 1) = n /\ n - i - 1 < t0
      BY <1>5
    <3>. QED BY <3>1
  <2>2. i + 1 + t \in i + 1 .. Len(items)
    BY <1>5, <2>1
  <2>3. t \in T
    BY <1>6, <2>1, <2>2
  <2>4. t0 <= t
    BY <1>5, <2>3
  <2>. HIDE DEF T
  <2>5. t0 \in Nat
    BY DEF T
  <2>. QED BY <2>1, <2>4, <2>5
<1>7. \E j \in i + 1 .. Len(items) : P(j) /\ \A n \in i + 1 .. j - 1 : ~P(n)
  <2>. WITNESS i + 1 + t0 \in i + 1 .. Len(items)
  <2>. QED BY <1>5, <1>6
<1>8. Matching(items, i) = CHOOSE j \in i + 1 .. Len(items) : P(j) /\ \A n \in i + 1 .. j - 1 : ~P(n)
  BY DEF Matching, P
<1>9. Matching(items, i) \in i + 1 .. Len(items) /\ P(Matching(items, i))
  BY <1>7, <1>8
<1>. QED BY <1>9 DEF P, EndsIf

\* The condition of an IF.
LEMMA IfAfter ==
  ASSUME NEW c \in CC, NEW i, i.kind = "if", i.op \in {"==", "<>", "<", "<=", ">", ">="},
         Usable(i.x, DOMAIN c.names), Usable(i.y, DOMAIN c.names),
         Matching(IF c.block = "fun" THEN src.fun ELSE src.main, c.item) \in Int,
         NEW d, d = ItemCode(c, i)
  PROVE  After(c, d)
<1>1. PICK x \in Data : x = Sym(c, i.x)
  BY SymData
<1>2. PICK y \in Data : y = Sym(c, i.y)
  BY SymData, SMTT(40)
<1>3. PICK int \in IntOps, real \in RealTests : CompOps(i.op) = <<int, real>>
  BY DEF CompOps, IntOps, RealTests
<1>4. PICK cmp \in Symbols : cmp = Fresh(c, "I") /\ cmp.t = "I"
  BY FreshSymbol
<1>5. "then" \in Labels /\ "fi" \in Labels /\ c.item \in Int
  BY Fields DEF Labels
<1>6. PICK then \in TokenOf(Int) : then = At("then", c, c.item) /\ then.t \in Labels
  BY <1>5, AtToken
<1>7. PICK fi \in TokenOf(Int) :
        /\ fi = At("fi", c, Matching(IF c.block = "fun" THEN src.fun ELSE src.main, c.item))
        /\ fi.t \in Labels
  BY <1>5, AtToken
<1>8. PICK c1 : c1 = NewTemp(c, "I")
  OBVIOUS
<1>9. PICK c2 : c2 = Typed(c1, <<int, real>>, cmp, x, y)
  OBVIOUS
<1>10. PICK branch \in {"BNEQZ", "BREQZ"} : branch = IF Negated(i.op) THEN "BNEQZ" ELSE "BREQZ"
  OBVIOUS
<1>11. PICK c3 : c3 = Emit(c2, branch, <<>>, <<cmp>>, <<fi>>)
  OBVIOUS
<1>12. PICK c4 : c4 = EmitJump(c3, "UJUMP", then)
  OBVIOUS
<1>13. PICK c5 : c5 = Free(c4, cmp)
  OBVIOUS
<1>14. d = EmitLabel(c5, then)
  BY <1>1, <1>2, <1>3, <1>4, <1>6, <1>7, <1>8, <1>9, <1>10, <1>11, <1>12, <1>13 DEF ItemCode, IfCode
<1>15. After(c, c1) /\ c1 \in CC
  BY <1>8, NewTempAfter DEF After
<1>16. After(c1, c2)
  BY <1>4, <1>9, <1>15, TypedAfter
<1>17. c2 \in CC
  BY <1>16 DEF After
<1>18. /\ branch \in Opcodes /\ cmp.t \in Takes(Shape(branch)[1], Labels)
       /\ fi.t \in Takes(Shape(branch)[2], Labels) /\ Shape(branch)[3] = "-"
  BY <1>4, <1>7, Shapes DEF Takes
<1>19. cmp \in TokenOf(Int)
  BY SymbolIsToken
<1>20. After(c2, c3)
  BY <1>11, <1>17, <1>18, <1>19, SourcesAfter
<1>21. c3 \in CC
  BY <1>20 DEF After
<1>22. After(c3, c4)
  BY <1>6, <1>12, <1>21, JumpAfter
<1>23. c4 \in CC
  BY <1>22 DEF After
<1>24. After(c4, c5)
  BY <1>13, <1>23, FreeAfter
<1>25. c5 \in CC
  BY <1>24 DEF After
<1>26. After(c5, d)
  BY <1>14, <1>25, LabelAfter
<1>27. After(c, c2)
  BY <1>15, <1>16, Transitive
<1>28. After(c, c3)
  BY <1>20, <1>27, Transitive
<1>29. After(c, c4)
  BY <1>22, <1>28, Transitive
<1>30. After(c, c5)
  BY <1>24, <1>29, Transitive
<1>. QED BY <1>26, <1>30, Transitive

\* The end of an IF.
LEMMA FiAfter ==
  ASSUME NEW c \in CC, NEW i, i.kind = "fi", NEW d, d = ItemCode(c, i)
  PROVE  After(c, d)
<1>1. "fi" \in Labels /\ c.item \in Int
  BY Fields DEF Labels
<1>2. PICK fi \in TokenOf(Int) : fi = At("fi", c, c.item) /\ fi.t \in Labels
  BY <1>1, AtToken
<1>3. PICK e : d = EmitLabel(e, fi) /\ (e = c \/ e = EmitJump(c, "UJUMP", fi))
  BY <1>2 DEF ItemCode, FiCode
<1>4. After(c, e)
  BY <1>2, <1>3, JumpAfter, Reflexive
<1>5. e \in CC
  BY <1>4 DEF After
<1>6. After(e, d)
  BY <1>3, <1>5, LabelAfter
<1>. QED BY <1>4, <1>6, Transitive

\* RETURN.
LEMMA ReturnAfter ==
  ASSUME NEW c \in CC, NEW i, i.kind = "return", Usable(i.x, DOMAIN c.names), Len(src.fun) \in Nat,
         NEW d, d = ItemCode(c, i)
  PROVE  After(c, d)
<1>1. PICK x \in Data : x = Sym(c, i.x)
  BY SymData
<1>2. PICK y : y = Cast(c, x, src.ret)
  OBVIOUS
<1>3. PICK c1 : c1 = CastCode(c, x, src.ret)
  OBVIOUS
<1>4. PICK c2 : c2 = Stor(c1, y, FP, 0)
  OBVIOUS
<1>5. PICK c3 : c3 = [c2 EXCEPT !.item = Len(src.fun) + 1]
  OBVIOUS
<1>6. PICK leave \in TokenOf(Int) : leave = Tok("leave", 0) /\ leave.t \in Labels
  <2>1. "leave" \in Labels
    BY DEF Labels
  <2>2. Tok("leave", 0) \in TokenOf(Int) /\ Tok("leave", 0).t \in Labels
    BY <2>1, LabelToken
  <2>. QED BY <2>2
<1>7. d = EmitJump(c3, "UJUMP", leave)
  BY <1>1, <1>2, <1>3, <1>4, <1>5, <1>6 DEF ItemCode, ReturnCode
<1>8. After(c, c1) /\ y \in Data
  BY <1>2, <1>3, CastAfter
<1>9. c1 \in CC
  BY <1>8 DEF After
<1>10. After(c1, c2)
  BY <1>4, <1>8, <1>9, StorAfter
<1>11. c2 \in CC
  BY <1>10 DEF After
<1>17. Len(src.fun) + 1 \in Int
  OBVIOUS
<1>12. After(c2, c3)
  BY <1>5, <1>11, <1>17, Numbered
<1>13. c3 \in CC
  BY <1>12 DEF After
<1>14. After(c3, d)
  BY <1>6, <1>7, <1>13, JumpAfter
<1>15. After(c, c2)
  BY <1>8, <1>10, Transitive
<1>16. After(c, c3)
  BY <1>12, <1>15, Transitive
<1>. QED BY <1>14, <1>16, Transitive

\* A call makes its temporary known.
LEMMA CallAfter ==
  ASSUME NEW c \in CC, NEW i, i.kind = "call", i.dest \in AllNames, src.ret \in {"I", "R"},
         src.ret \in Types, Usable(i.x, DOMAIN c.names), Usable(i.y, DOMAIN c.names), NEW d, d = ItemCode(c, i)
  PROVE  After(c, d) /\ i.dest \in DOMAIN d.names
<1>1. PICK x \in Data : x = Sym(c, i.x)
  BY SymData
<1>2. PICK y \in Data : y = Sym(c, i.y)
  BY SymData
<1>3. PICK t : t = [n \in 1 .. 2 |-> src.types[src.params[n]]]
  OBVIOUS
<1>4. PICK e : e = NewName(c, i.dest, src.ret)
  OBVIOUS
<1>5. PICK c1 : c1 = CastCode(e, x, t[1])
  OBVIOUS
<1>6. PICK c2 : c2 = CastCode(c1, y, t[2])
  OBVIOUS
<1>7. PICK c3 : c3 = TouchLR(c2)
  OBVIOUS
<1>8. PICK p1 : p1 = Cast(e, x, t[1])
  OBVIOUS
<1>9. PICK p2 : p2 = Cast(c1, y, t[2])
  OBVIOUS
<1>10. PICK q : q = <<<<FP>>, <<>>, <<p1>>, <<p2>>>>
  OBVIOUS
<1>11. PICK c4 : c4 = Push(c3, q)
  OBVIOUS
<1>12. PICK c5 : c5 = EmitJump(c4, "JLINK", Const(2))
  OBVIOUS
<1>13. PICK z : z = e.names[i.dest]
  OBVIOUS
<1>14. PICK r : r = <<<<FP>>, <<z>>, <<>>, <<>>>>
  OBVIOUS
<1>15. d = Pop(c5, r)
  <2>1. <<p1, p2>>[1] = p1 /\ <<p1, p2>>[2] = p2
    OBVIOUS
  <2>2. d = CallCode(c, i)
    BY DEF ItemCode
  <2>. QED BY <1>1, <1>2, <1>3, <1>4, <1>5, <1>6, <1>7, <1>8, <1>9, <1>10, <1>11, <1>12, <1>13, <1>14,
              <2>1, <2>2 DEF CallCode
<1>16. After(c, e) /\ DOMAIN e.names = DOMAIN c.names \cup {i.dest}
  BY <1>4, NewNameAfter
<1>17. e \in CC
  BY <1>16 DEF After
<1>18. z \in Symbols
  BY <1>13, <1>16, <1>17, Fields
<1>19. After(e, c1) /\ c1.names = e.names /\ p1 \in Data
  BY <1>5, <1>8, <1>17, CastAfter
<1>20. c1 \in CC
  BY <1>19 DEF After
<1>21. After(c1, c2) /\ c2.names = c1.names /\ p2 \in Data
  BY <1>6, <1>9, <1>20, CastAfter
<1>22. c2 \in CC
  BY <1>21 DEF After
<1>23. After(c2, c3) /\ c3.names = c2.names
  BY <1>7, <1>22, TouchAfter
<1>24. c3 \in CC
  BY <1>23 DEF After
<1>25. Queue(q)
  <2>1. Len(q) = 4 /\ q = [n \in 1 .. 4 |-> q[n]]
    BY <1>10
  <2>2. q[1][1] = FP /\ q[2] = <<>> /\ q[3][1] = p1 /\ q[4][1] = p2
    BY <1>10
  <2>3. FP \in Data
    BY Fixed DEF Data
  <2>4. ASSUME NEW n \in 1 .. 4 PROVE q[n] = <<>> \/ q[n][1] \in Data
    <3>1. n = 1 \/ n = 2 \/ n = 3 \/ n = 4
      OBVIOUS
    <3>. QED BY <1>19, <1>21, <2>2, <2>3, <3>1
  <2>. QED BY <2>1, <2>4 DEF Queue
<1>26. After(c3, c4) /\ c4.names = c3.names
  BY <1>11, <1>24, <1>25, PushAfter
<1>27. c4 \in CC
  BY <1>26 DEF After
<1>28. After(c4, c5) /\ c5.names = c4.names
  <2>1. Const(2) \in TokenOf(Int) /\ Const(2).t = "int"
    BY Fixed
  <2>. QED BY <1>12, <1>27, <2>1, JumpAfter
<1>29. c5 \in CC
  BY <1>28 DEF After
<1>30. Registers(r)
  <2>1. Len(r) = 4 /\ r = [n \in 1 .. 4 |-> r[n]]
    BY <1>14
  <2>2. r[1][1] = FP /\ r[2][1] = z /\ r[3] = <<>> /\ r[4] = <<>>
    BY <1>14
  <2>3. ASSUME NEW n \in 1 .. 4 PROVE r[n] = <<>> \/ r[n][1] \in Symbols
    <3>1. n = 1 \/ n = 2 \/ n = 3 \/ n = 4
      OBVIOUS
    <3>. QED BY <1>18, <2>2, <3>1, Fixed
  <2>. QED BY <2>1, <2>3 DEF Queue, Registers, Data
<1>31. After(c5, d) /\ d.names = c5.names
  BY <1>15, <1>29, <1>30, PopAfter
<1>32. After(c, c1)
  BY <1>16, <1>19, Transitive
<1>33. After(c, c2)
  BY <1>21, <1>32, Transitive
<1>34. After(c, c3)
  BY <1>23, <1>33, Transitive
<1>35. After(c, c4)
  BY <1>26, <1>34, Transitive
<1>36. After(c, c5)
  BY <1>28, <1>35, Transitive
<1>37. After(c, d)
  BY <1>31, <1>36, Transitive
<1>. QED BY <1>16, <1>19, <1>21, <1>23, <1>26, <1>28, <1>31, <1>37

\* An item the parser lets through.
LEMMA ItemAfter ==
  ASSUME NEW c \in CC, NEW items, NEW j, NEW names, names \subseteq DOMAIN c.names,
         AcceptedItem(items, j, names), c.item = j, j \in DOMAIN items, items[j].dest \in AllNames,
         items = IF c.block = "fun" THEN src.fun ELSE src.main,
         src.ret \in {"I", "R"}, Len(src.fun) \in Nat, Len(items) \in Nat, ~Mismatch(c, items[j]),
         NEW d, d = ItemCode(c, items[j])
  PROVE  /\ After(c, d)
         /\ items[j].kind \in {"arith", "call"} => items[j].dest \in DOMAIN d.names
<1>1. PICK i : i = items[j]
  OBVIOUS
<1>2. Usable(i.x, DOMAIN c.names) /\ Usable(i.y, DOMAIN c.names)
  BY <1>1 DEF AcceptedItem, Usable
<1>3. CASE i.kind = "assn"
  <2>1. i.dest \in DOMAIN c.names
    BY <1>1, <1>3 DEF AcceptedItem
  <2>. QED BY <1>1, <1>2, <1>3, <2>1, AssnAfter
<1>4. CASE i.kind = "arith"
  <2>1. i.dest \in AllNames /\ i.op \in {"+", "-", "*", "/"}
    BY <1>1, <1>4 DEF AcceptedItem
  <2>2. AllInteger => i.x.t # "real" /\ i.y.t # "real"
    BY <1>1 DEF AllInteger
  <2>. QED BY <1>1, <1>2, <1>4, <2>1, <2>2, ArithAfter
<1>5. CASE i.kind = "read"
  <2>1. i.dest \in DOMAIN c.names
    BY <1>1, <1>5 DEF AcceptedItem
  <2>. QED BY <1>1, <1>5, <2>1, ReadAfter
<1>6. CASE i.kind = "write"
  BY <1>1, <1>2, <1>6, WriteAfter
<1>7. CASE i.kind = "if"
  <2>1. /\ i.op \in {"==", "<>", "<", "<=", ">", ">="}
        /\ \E k \in j + 1 .. Len(items) : EndsIf(items, j, k)
    BY <1>1, <1>7 DEF AcceptedItem
  <2>2. Matching(items, c.item) \in Int
    BY <2>1, MatchingFi, Fields
  <2>. QED BY <1>1, <1>2, <1>7, <2>1, <2>2, IfAfter
<1>8. CASE i.kind = "fi"
  BY <1>1, <1>8, FiAfter
<1>9. CASE i.kind = "call"
  <2>1. i.dest \in AllNames /\ src.ret \in Types
    BY <1>1 DEF Types, AllInteger
  <2>. QED BY <1>1, <1>2, <1>9, <2>1, CallAfter
<1>10. CASE i.kind = "return"
  BY <1>1, <1>2, <1>10, ReturnAfter
<1>11. i.kind \in {"assn", "arith", "read", "write", "if", "fi", "call", "return"}
  BY <1>1 DEF AcceptedItem
<1>. QED BY <1>1, <1>3, <1>4, <1>5, <1>6, <1>7, <1>8, <1>9, <1>10, <1>11

\* Without REAL no type is wrong.
LEMMA NoMismatch ==
  ASSUME NEW c \in CC, NEW items, NEW j, NEW names, names \subseteq DOMAIN c.names, AllInteger,
         AcceptedItem(items, j, names), items[j].x.t # "real", items[j].y.t # "real"
  PROVE  ~Mismatch(c, items[j])
<1>1. PICK i : i = items[j]
  OBVIOUS
<1>2. Usable(i.x, DOMAIN c.names) /\ Usable(i.y, DOMAIN c.names)
  BY <1>1 DEF AcceptedItem, Usable
<1>3. IsInt(Sym(c, i.x)) /\ IsInt(Sym(c, i.y))
  BY <1>1, <1>2, SymData
<1>4. \A n \in 1 .. 2 : IsInt(Sym(c, <<i.x, i.y>>[n]))
  <2>1. <<i.x, i.y>>[1] = i.x /\ <<i.x, i.y>>[2] = i.y
    OBVIOUS
  <2>2. \A n \in 1 .. 2 : n = 1 \/ n = 2
    OBVIOUS
  <2>. QED BY <1>3, <2>1, <2>2
<1>5. ~Mismatch(c, i)
  BY <1>3, <1>4 DEF Mismatch
<1>. QED BY <1>1, <1>5

\* ---- the blocks ---------------------------------------------------------------------------

\* The marker of the prologue is in the code.
HasPrologue(c) ==
  \E n \in 1 .. Len(c.code) : c.code[n].op = "LABEL" /\ c.code[n].src0[1].t = "prologue"

\* The marker stays,
LEMMA PrologueStays ==
  ASSUME NEW c \in CC, NEW d, HasPrologue(c), After(c, d)
  PROVE  HasPrologue(d)
<1>1. PICK n \in 1 .. Len(c.code) : c.code[n].op = "LABEL" /\ c.code[n].src0[1].t = "prologue"
  BY DEF HasPrologue
<1>2. Len(c.code) \in Nat /\ Len(c.code) <= Len(d.code) /\ d.code[n] = c.code[n]
  BY Fields DEF After
<1>3. Len(d.code) \in Nat
  <2>1. d \in CC
    BY DEF After
  <2>. QED BY <2>1, Fields
<1>4. n \in 1 .. Len(d.code)
  BY <1>2, <1>3
<1>. QED BY <1>1, <1>2, <1>4 DEF HasPrologue

\* once its label is emitted.
LEMMA PrologueEmitted ==
  ASSUME NEW c \in CC, NEW d, d = EmitLabel(c, Tok("prologue", 0))
  PROVE  HasPrologue(d)
<1>. DEFINE i == [op |-> "LABEL", dest |-> <<>>, src0 |-> <<Tok("prologue", 0)>>, src1 |-> <<>>,
                  block |-> c.block, item |-> c.item]
<1>1. d = [c EXCEPT !.code = Append(c.code, i)]
  BY DEF EmitLabel, Emit
<1>2. i.op = "LABEL" /\ i.src0[1].t = "prologue"
  BY DEF Tok
<1>. HIDE DEF i
<1>3. d.code = Append(c.code, i)
  BY <1>1, Unfolded
<1>4. c.code \in Seq(Emitted)
  BY Fields
<1>5. Len(d.code) = Len(c.code) + 1 /\ Len(c.code) \in Nat /\ d.code[Len(c.code) + 1] = i
  BY <1>3, <1>4
<1>6. Len(c.code) + 1 \in 1 .. Len(d.code)
  BY <1>5
<1>. QED BY <1>2, <1>5, <1>6 DEF HasPrologue

\* What the parser lets through.
LEMMA Formed ==
  ASSUME Accepted(src)
  PROVE  /\ src.ret \in {"I", "R"} /\ Len(src.params) = 2
         /\ \A list \in {src.params, src.locals, src.vars, src.fun, src.main} :
              list \in Seq(Elements(list))
         /\ \A n \in Declared \cup Elements(src.vars) : src.types[n] \in {"I", "R"}
         /\ \A j \in DOMAIN src.fun : AcceptedItem(src.fun, j, Known(Declared, src.fun, j))
         /\ \A j \in DOMAIN src.main : AcceptedItem(src.main, j, Known(InMain, src.main, j))
<1>1. /\ IsList(src.params) /\ IsList(src.locals) /\ IsList(src.vars)
      /\ IsList(src.fun) /\ IsList(src.main)
  BY DEF Accepted
<1>2. \A list \in {src.params, src.locals, src.vars, src.fun, src.main} : list \in Seq(Elements(list))
  BY <1>1 DEF IsList, Elements
<1>3. Declared = {src.params[n] : n \in DOMAIN src.params} \cup {src.locals[n] : n \in DOMAIN src.locals}
  BY DEF Declared, Elements
<1>. QED BY <1>2, <1>3 DEF Accepted, Elements, InMain

\* Declarations are lists of names with a type.
LEMMA Listed ==
  ASSUME Accepted(src), NEW q \in {src.params, src.locals, src.vars}
  PROVE  /\ Len(q) \in Nat /\ DOMAIN q = 1 .. Len(q) /\ Elements(q) = {q[i] : i \in 1 .. Len(q)}
         /\ \A i \in 1 .. Len(q) : q[i] \in AllNames /\ src.types[q[i]] \in Types
<1>1. q \in Seq(AllNames) /\ Elements(q) \subseteq Declared \cup Elements(src.vars)
  <2>1. q \in Seq(Elements(q)) /\ Elements(q) \subseteq Declared \cup Elements(src.vars)
    BY Formed DEF Declared
  <2>2. Elements(q) \subseteq AllNames
    BY <2>1 DEF AllNames
  <2>. QED BY <2>1, <2>2
<1>2. Len(q) \in Nat /\ DOMAIN q = 1 .. Len(q) /\ \A i \in 1 .. Len(q) : q[i] \in AllNames
  BY <1>1
<1>3. Elements(q) = {q[i] : i \in 1 .. Len(q)}
  BY <1>2 DEF Elements
<1>4. \A i \in 1 .. Len(q) : src.types[q[i]] \in Types
  BY <1>1, <1>3, Formed DEF Types, AllInteger
<1>. QED BY <1>2, <1>3, <1>4

\* Its fold of load_argument() is the one written out above.
LEMMA HeaderFolds ==
  ASSUME NEW c
  PROVE  HeaderCode(c) =
           NewNames(LoadArgsAll(NewNames(EmitLabel([EmitJump(c, "UJUMP", Tok("skip", 0))
                                                      EXCEPT !.block = "fun"],
                                                   Tok("prologue", 0)),
                                         src.params),
                                src.params),
                    src.locals)
BY DEF HeaderCode, LoadArgsAll, FoldLeftDomain, FoldLeft, MapThenFoldSet

\* The header of the function makes arguments and variables known.
LEMMA HeaderAfter ==
  ASSUME Accepted(src), NEW c \in CC, NEW d, d = HeaderCode(c)
  PROVE  d \in CC /\ d.block = "fun" /\ HasPrologue(d) /\ Declared \subseteq DOMAIN d.names
<1>1. PICK c1 : c1 = EmitJump(c, "UJUMP", Tok("skip", 0))
  OBVIOUS
<1>2. PICK c2 : c2 = [c1 EXCEPT !.block = "fun"]
  OBVIOUS
<1>3. PICK c3 : c3 = EmitLabel(c2, Tok("prologue", 0))
  OBVIOUS
<1>4. PICK c4 : c4 = NewNames(c3, src.params)
  OBVIOUS
<1>5. PICK c5 : c5 = LoadArgsAll(c4, src.params)
  OBVIOUS
<1>6. d = NewNames(c5, src.locals)
  BY <1>1, <1>2, <1>3, <1>4, <1>5, HeaderFolds
<1>7. /\ Tok("skip", 0) \in TokenOf(Int) /\ Tok("skip", 0).t \in Labels
      /\ Tok("prologue", 0) \in TokenOf(Int)
  <2>1. "skip" \in Labels /\ "prologue" \in Labels
    BY DEF Labels
  <2>. QED BY <2>1, LabelToken
<1>8. c1 \in CC
  <2>1. After(c, c1)
    BY <1>1, <1>7, JumpAfter
  <2>. QED BY <2>1 DEF After
<1>9. c2 \in CC /\ c2.block = "fun"
  <2>1. c2 = [pool |-> c1.pool, usage |-> c1.usage, names |-> c1.names, code |-> c1.code,
              saved |-> c1.saved, block |-> "fun", item |-> c1.item]
    BY <1>2, <1>8, Unfolded
  <2>2. "fun" \in Blocks
    BY DEF Blocks
  <2>. QED BY <1>8, <2>1, <2>2, Fields DEF CC
<1>10. After(c2, c3) /\ HasPrologue(c3)
  BY <1>3, <1>7, <1>9, LabelAfter, PrologueEmitted
<1>11. c3 \in CC
  BY <1>10 DEF After
<1>12. After(c3, c4) /\ Elements(src.params) \subseteq DOMAIN c4.names
  <2>1. PICK q : q = src.params
    OBVIOUS
  <2>2. /\ Len(q) \in Nat /\ DOMAIN q = 1 .. Len(q) /\ Elements(q) = {q[i] : i \in 1 .. Len(q)}
        /\ \A i \in 1 .. Len(q) : q[i] \in AllNames /\ src.types[q[i]] \in Types
    BY <2>1, Listed
  <2>3. c4 = NewNames(c3, q)
    BY <1>4, <2>1
  <2>4. After(c3, c4) /\ {q[i] : i \in 1 .. Len(q)} \subseteq DOMAIN c4.names
    BY <1>11, <2>2, <2>3, NewNamesAfter
  <2>. QED BY <2>1, <2>2, <2>4
<1>13. c4 \in CC
  BY <1>12 DEF After
<1>14. After(c4, c5)
  <2>1. PICK q : q = src.params
    OBVIOUS
  <2>2. Len(q) \in Nat /\ DOMAIN q = 1 .. Len(q) /\ Elements(q) = {q[i] : i \in 1 .. Len(q)}
    BY <2>1, Listed
  <2>3. \A i \in 1 .. Len(q) : q[i] \in DOMAIN c4.names
    BY <1>12, <2>1, <2>2
  <2>4. c5 = LoadArgsAll(c4, q)
    BY <1>5, <2>1
  <2>. QED BY <1>13, <2>2, <2>3, <2>4, LoadArgsFold
<1>15. c5 \in CC
  BY <1>14 DEF After
<1>16. After(c5, d) /\ Elements(src.locals) \subseteq DOMAIN d.names
  <2>1. PICK q : q = src.locals
    OBVIOUS
  <2>2. /\ Len(q) \in Nat /\ DOMAIN q = 1 .. Len(q) /\ Elements(q) = {q[i] : i \in 1 .. Len(q)}
        /\ \A i \in 1 .. Len(q) : q[i] \in AllNames /\ src.types[q[i]] \in Types
    BY <2>1, Listed
  <2>3. d = NewNames(c5, q)
    BY <1>6, <2>1
  <2>4. After(c5, d) /\ {q[i] : i \in 1 .. Len(q)} \subseteq DOMAIN d.names
    BY <1>15, <2>2, <2>3, NewNamesAfter
  <2>. QED BY <2>1, <2>2, <2>4
<1>17. After(c3, c5)
  BY <1>11, <1>12, <1>14, Transitive
<1>18. After(c3, d)
  BY <1>11, <1>16, <1>17, Transitive
<1>19. HasPrologue(d)
  BY <1>10, <1>11, <1>18, PrologueStays
<1>20. d \in CC /\ d.block = "fun"
  BY <1>9, <1>10, <1>18 DEF After
<1>21. Declared \subseteq DOMAIN d.names
  <2>1. DOMAIN c4.names \subseteq DOMAIN c5.names
    BY <1>14 DEF After
  <2>2. DOMAIN c5.names \subseteq DOMAIN d.names
    BY <1>16 DEF After
  <2>. QED BY <1>12, <1>16, <2>1, <2>2 DEF Declared
<1>. QED BY <1>19, <1>20, <1>21

\* The header of the main block makes its variables known.
LEMMA MainAfter ==
  ASSUME Accepted(src), NEW c \in CC, NEW d, d = MainCode(c)
  PROVE  /\ d \in CC /\ d.block = "main"
         /\ DOMAIN c.names \cup Elements(src.vars) \subseteq DOMAIN d.names
<1>1. PICK c1 : c1 = [c EXCEPT !.block = "main", !.item = 0]
  OBVIOUS
<1>2. PICK c2 : c2 = Copy(c1, FP, Const(0))
  OBVIOUS
<1>3. PICK c3 : c3 = Copy(c2, SP, Const(0))
  OBVIOUS
<1>4. PICK q : q = src.vars
  OBVIOUS
<1>5. d = NewNames(c3, q)
  BY <1>1, <1>2, <1>3, <1>4 DEF MainCode
<1>6. c1 \in CC /\ c1.block = "main" /\ c1.names = c.names
  <2>1. "main" \in Blocks
    BY DEF Blocks
  <2>2. c1 = [pool |-> c.pool, usage |-> c.usage, names |-> c.names, code |-> c.code,
              saved |-> c.saved, block |-> "main", item |-> 0]
    BY <1>1 DEF CC
  <2>3. c.code \in Seq(Emitted) /\ c.saved \in Seq(Seq(TokenOf(Int)))
    BY Fields
  <2>4. PICK k \in Seq(Emitted), s \in Seq(Seq(TokenOf(Int))), b \in Blocks, n \in Int :
          k = c.code /\ s = c.saved /\ b = "main" /\ n = 0
    BY <2>1, <2>3
  <2>5. c1 = [pool |-> c.pool, usage |-> c.usage, names |-> c.names, code |-> k,
              saved |-> s, block |-> b, item |-> n]
    BY <2>2, <2>4
  <2>6. c1 \in CC /\ c1.names = c.names /\ c1.block = b
    BY <2>5, Made
  <2>. QED BY <2>4, <2>6
<1>7. FP \in Symbols /\ SP \in Symbols /\ Const(0) \in Data /\ IsInt(Const(0))
  BY Fixed DEF Data, IsInt
<1>8. After(c1, c2)
  BY <1>2, <1>6, <1>7, CopyAfter
<1>9. c2 \in CC
  BY <1>8 DEF After
<1>10. After(c2, c3)
  BY <1>3, <1>7, <1>9, CopyAfter
<1>11. c3 \in CC
  BY <1>10 DEF After
<1>12. /\ Len(q) \in Nat /\ DOMAIN q = 1 .. Len(q) /\ Elements(q) = {q[i] : i \in 1 .. Len(q)}
       /\ \A i \in 1 .. Len(q) : q[i] \in AllNames /\ src.types[q[i]] \in Types
  BY <1>4, Listed
<1>13. After(c3, d) /\ {q[i] : i \in 1 .. Len(q)} \subseteq DOMAIN d.names
  BY <1>5, <1>11, <1>12, NewNamesAfter
<1>14. After(c1, c3)
  BY <1>6, <1>8, <1>10, Transitive
<1>15. After(c1, d)
  BY <1>6, <1>13, <1>14, Transitive
<1>. QED BY <1>4, <1>6, <1>12, <1>13, <1>15 DEF After

\* The end of the main block.
LEMMA MainEndAfter ==
  ASSUME NEW c \in CC, NEW d, d = Emit(EmitLabel(c, Tok("halt", 0)), "HALT", <<>>, <<>>, <<>>)
  PROVE  d \in CC
<1>1. PICK e : e = EmitLabel(c, Tok("halt", 0))
  OBVIOUS
<1>2. Tok("halt", 0) \in TokenOf(Int)
  BY DEF Tok, TokenOf, Labels
<1>3. e \in CC
  <2>1. After(c, e)
    BY <1>1, <1>2, LabelAfter
  <2>. QED BY <2>1 DEF After
<1>4. d = Emit(e, "HALT", <<>>, <<>>, <<>>)
  BY <1>1
<1>5. /\ "HALT" \in Opcodes /\ Shape("HALT")[1] = "-" /\ Shape("HALT")[2] = "-"
      /\ Shape("HALT")[3] = "-"
  BY Shapes
<1>6. After(e, d)
  BY <1>3, <1>4, <1>5, BareAfter
<1>. QED BY <1>6 DEF After

\* ---- sequences of sequences ------------------------------------------------------------

\* The recursive function of FlattenSeq, written out.
LEMMA FlattenChosen ==
  ASSUME NEW seqs
  PROVE  FlattenSeq(seqs) =
           IF Len(seqs) = 0 THEN seqs
           ELSE (CHOOSE f : f = [i \in 1 .. Len(seqs) |->
                                   IF i = 1 THEN seqs[i] ELSE f[i - 1] \o seqs[i]])[Len(seqs)]
BY DEF FlattenSeq

\* N sequences over S.
Parts(S, seqs, N) ==
  /\ N = Len(seqs) /\ (N = 0 => seqs = <<>>)
  /\ \A i \in 1 .. N : seqs[i] \in Seq(S)
\* F[i] is the first i of them, one behind the other.
Joins(F, seqs, N) ==
  /\ F[0] = <<>> /\ \A i \in 1 .. N : F[i] = F[i - 1] \o seqs[i]
  /\ FlattenSeq(seqs) = F[N]

\* What FlattenSeq returns, one element after the other.
LEMMA Flattened ==
  ASSUME NEW S, NEW seqs, NEW N \in Nat, Parts(S, seqs, N)
  PROVE  \E F \in [0 .. N -> Seq(S)] : Joins(F, seqs, N)
<1>0. N = Len(seqs) /\ (N = 0 => seqs = <<>>) /\ \A i \in 1 .. N : seqs[i] \in Seq(S)
  BY DEF Parts
<1>. DEFINE G == [p \in (1 .. N) \X Seq(S) |-> p[2] \o seqs[p[1]]]
<1>1. N \in Nat /\ \A i \in 1 .. N : i \in Int /\ i >= 1 /\ i <= N /\ i - 1 \in 0 .. N /\ i \in 0 .. N
  OBVIOUS
<1>2. G \in [(1 .. N) \X Seq(S) -> Seq(S)]
  <2>1. ASSUME NEW i \in 1 .. N, NEW s \in Seq(S) PROVE s \o seqs[i] \in Seq(S)
    BY <1>0, ConcatProperties
  <2>. QED BY <2>1
<1>3. <<>> \in Seq(S)
  OBVIOUS
<1>. HIDE DEF G
<1>4. PICK it \in [SUBSET (1 .. N) -> Seq(S)] : Iterates(it, N, <<>>, G)
  BY <1>1, <1>2, <1>3, Iterated
<1>. DEFINE F == [k \in 0 .. N |-> it[1 .. k]]
<1>5. F \in [0 .. N -> Seq(S)]
  <2>1. ASSUME NEW k \in 0 .. N PROVE 1 .. k \in SUBSET (1 .. N)
    BY <1>1
  <2>. QED BY <1>4, <2>1
<1>6. F[0] = <<>>
  <2>1. 1 .. 0 = {} /\ {} \in SUBSET (1 .. N) /\ 0 \in 0 .. N
    BY <1>1
  <2>2. it[{}] = <<>>
    BY <1>4, <2>1 DEF Iterates
  <2>. QED BY <2>1, <2>2
<1>7. ASSUME NEW i \in 1 .. N PROVE F[i] = F[i - 1] \o seqs[i]
  <2>1. PICK s \in SUBSET (1 .. N) : s = 1 .. i /\ i \in s
    <3>1. 1 .. i \in SUBSET (1 .. N) /\ i \in 1 .. i
      BY <1>1
    <3>. QED BY <3>1
  <2>2. i \in s /\ s # {} /\ i \in 0 .. N /\ i - 1 \in 0 .. N /\ i \in Int
    <3>1. i \in 0 .. N /\ i - 1 \in 0 .. N /\ i \in Int
      BY <1>1
    <3>. QED BY <2>1, <3>1
  <2>3. PICK g : g = Max(s)
    OBVIOUS
  <2>4. g \in s /\ \A k \in s : k <= g
    BY <2>2, <2>3, Greatest
  <2>5. g = i
    BY <2>1, <2>2, <2>4
  <2>6. s \ {g} = 1 .. i - 1
    BY <2>1, <2>2, <2>5
  <2>7. it[s] = G[<<g, it[s \ {g}]>>]
    BY <1>4, <2>2, <2>3 DEF Iterates
  <2>8. it[s \ {g}] \in Seq(S)
    BY <1>4
  <2>9. it[s] = it[1 .. i - 1] \o seqs[i]
    BY <2>5, <2>6, <2>7, <2>8 DEF G
  <2>. QED BY <2>1, <2>2, <2>9
<1>8. FlattenSeq(seqs) = F[N]
  <2>. HIDE DEF F
  <2>1. CASE N = 0
    <3>1. seqs = <<>> /\ Len(seqs) = 0
      BY <1>0, <2>1
    <3>. QED BY <1>6, <2>1, <3>1, FlattenChosen
  <2>2. CASE N # 0
    <3>. DEFINE H(f) == [i \in 1 .. N |-> IF i = 1 THEN seqs[i] ELSE f[i - 1] \o seqs[i]]
                f0 == [i \in 1 .. N |-> F[i]]
                f1 == CHOOSE f : f = H(f)
                Bad == {i \in 1 .. N : f1[i] # F[i]}
    <3>1. f0 = H(f0)
      <4>1. ASSUME NEW i \in 1 .. N PROVE F[i] = IF i = 1 THEN seqs[i] ELSE f0[i - 1] \o seqs[i]
        <5>1. CASE i = 1
          <6>0. F[i] = F[i - 1] \o seqs[i]
            BY <1>7
          <6>3. i - 1 = 0
            BY <5>1
          <6>1. F[i] = <<>> \o seqs[i]
            BY <1>6, <6>0, <6>3
          <6>2. <<>> \o seqs[i] = seqs[i]
            BY <1>0, ConcatEmptySeq
          <6>. QED BY <5>1, <6>1, <6>2
        <5>2. CASE i # 1
          <6>1. i - 1 \in 1 .. N
            BY <1>1, <5>2
          <6>2. f0[i - 1] = F[i - 1]
            BY <6>1
          <6>. QED BY <1>7, <5>2, <6>2
        <5>. QED BY <5>1, <5>2
      <4>. QED BY <4>1
    <3>2. f1 = H(f1)
      <4>. HIDE DEF H, f0
      <4>. QED BY <3>1
    <3>3. FlattenSeq(seqs) = f1[N]
      BY <1>0, <2>2, FlattenChosen
    <3>. HIDE DEF f1
    <3>4. SUFFICES ASSUME Bad # {} PROVE FALSE
      BY <1>1, <2>2, <3>3
    <3>5. PICK b \in Bad : \A k \in Bad : b <= k
      <4>1. Bad \subseteq Nat
        BY <1>1
      <4>. HIDE DEF Bad
      <4>. QED BY <3>4, <4>1, Smallest
    <3>6. CASE b = 1
      <4>0. b \in 1 .. N
        BY <3>5
      <4>1. f1[b] = seqs[b]
        BY <3>2, <3>6, <4>0
      <4>2. F[b] = F[b - 1] \o seqs[b]
        BY <1>7, <4>0
      <4>4. b - 1 = 0
        BY <3>6
      <4>3. <<>> \o seqs[b] = seqs[b] /\ F[b] = <<>> \o seqs[b]
        BY <1>0, <1>6, <4>0, <4>2, <4>4, ConcatEmptySeq
      <4>. QED BY <3>6, <4>1, <4>3
    <3>7. CASE b # 1
      <4>1. b - 1 \in 1 .. N /\ b - 1 \notin Bad
        BY <1>1, <3>5, <3>7
      <4>2. f1[b - 1] = F[b - 1]
        BY <4>1, SMTT(40)
      <4>3. f1[b] = f1[b - 1] \o seqs[b]
        BY <3>2, <3>7
      <4>4. F[b] = F[b - 1] \o seqs[b]
        BY <1>7
      <4>. QED BY <4>2, <4>3, <4>4
    <3>. QED BY <3>6, <3>7
  <2>. QED BY <2>1, <2>2
<1>. HIDE DEF F
<1>9. Joins(F, seqs, N)
  BY <1>6, <1>7, <1>8 DEF Joins
<1>. QED BY <1>5, <1>9

\* Sequences over S make a sequence over S.
LEMMA FlattenType ==
  ASSUME NEW S, NEW seqs, NEW N \in Nat, Parts(S, seqs, N)
  PROVE  FlattenSeq(seqs) \in Seq(S)
<1>1. PICK F \in [0 .. N -> Seq(S)] : Joins(F, seqs, N)
  BY Flattened
<1>2. FlattenSeq(seqs) = F[N]
  BY <1>1 DEF Joins
<1>. QED BY <1>2

Associates(x, y, z) == (x \o y) \o z = x \o (y \o z)
\* Concatenation is associative.
LEMMA Associative ==
  ASSUME NEW S, NEW x \in Seq(S), NEW y \in Seq(S), NEW z \in Seq(S)
  PROVE  Associates(x, y, z)
BY ConcatAssociative DEF Associates

\* FlattenSeq from the front.
LEMMA FlattenFirst ==
  ASSUME NEW S, NEW seqs, NEW N \in Nat \ {0}, Parts(S, seqs, N),
         NEW t, Len(t) = N - 1, N = 1 => t = <<>>, \A i \in 1 .. N - 1 : t[i] = seqs[i + 1]
  PROVE  FlattenSeq(seqs) = seqs[1] \o FlattenSeq(t)
<1>1. /\ N \in Nat /\ N - 1 \in Nat /\ 1 \in 1 .. N /\ seqs[1] \in Seq(S)
      /\ \A i \in 1 .. N - 1 : i + 1 \in 1 .. N /\ i \in 1 .. N
  BY DEF Parts
<1>4. \A i \in 1 .. N - 1 : t[i] \in Seq(S) /\ seqs[i + 1] \in Seq(S)
  BY <1>1 DEF Parts
<1>5. PICK F \in [0 .. N -> Seq(S)] :
        /\ F[0] = <<>> /\ \A i \in 1 .. N : F[i] = F[i - 1] \o seqs[i]
        /\ FlattenSeq(seqs) = F[N]
  <2>1. \E F \in [0 .. N -> Seq(S)] : Joins(F, seqs, N)
    BY <1>1, Flattened
  <2>. QED BY <2>1 DEF Joins
<1>6. PICK E \in [0 .. N - 1 -> Seq(S)] :
        /\ E[0] = <<>> /\ \A i \in 1 .. N - 1 : E[i] = E[i - 1] \o t[i]
        /\ FlattenSeq(t) = E[N - 1]
  <2>1. PICK M \in Nat : M = N - 1
    BY <1>1
  <2>2. Parts(S, t, M)
    BY <1>4, <2>1 DEF Parts
  <2>3. \E E \in [0 .. M -> Seq(S)] : Joins(E, t, M)
    BY <2>2, Flattened
  <2>. QED BY <2>1, <2>3 DEF Joins
<1>. DEFINE Bad == {k \in 0 .. N - 1 : F[k + 1] # seqs[1] \o E[k]}
<1>7. SUFFICES ASSUME Bad # {} PROVE FALSE
  <2>1. N - 1 \in 0 .. N - 1 /\ (N - 1) + 1 = N
    BY <1>1
  <2>2. Bad = {} => F[N] = seqs[1] \o E[N - 1]
    BY <2>1
  <2>. HIDE DEF Bad
  <2>. QED BY <1>5, <1>6, <2>2
<1>8. PICK k \in Bad : \A j \in Bad : k <= j
  <2>1. Bad \subseteq Nat
    BY <1>1
  <2>. HIDE DEF Bad
  <2>. QED BY <1>7, <2>1, Smallest
<1>9. k \in 0 .. N - 1 /\ F[k + 1] # seqs[1] \o E[k]
  BY <1>8
<1>10. CASE k = 0
  <2>1. PICK i \in 1 .. N : i = 1 /\ i - 1 = 0 /\ k + 1 = i
    BY <1>1, <1>10
  <2>2. F[i] = F[i - 1] \o seqs[i]
    BY <1>5
  <2>3. F[i] = <<>> \o seqs[1]
    BY <1>5, <2>1, <2>2
  <2>4. <<>> \o seqs[1] = seqs[1] /\ seqs[1] \o <<>> = seqs[1]
    BY <1>1, ConcatEmptySeq
  <2>. QED BY <1>6, <1>9, <1>10, <2>1, <2>3, <2>4
<1>11. CASE k # 0
  <2>1. /\ k - 1 \in 0 .. N - 1 /\ (k - 1) + 1 = k /\ k \in 1 .. N - 1 /\ k + 1 \in 1 .. N
        /\ (k + 1) - 1 = k /\ ~(k <= k - 1)
    BY <1>1, <1>9, <1>11
  <2>2. F[k] = seqs[1] \o E[k - 1]
    BY <1>8, <2>1
  <2>3. F[k + 1] = F[k] \o seqs[k + 1]
    BY <1>5, <2>1
  <2>4. E[k] = E[k - 1] \o seqs[k + 1]
    BY <1>6, <2>1
  <2>5. seqs[1] \in Seq(S) /\ E[k - 1] \in Seq(S) /\ seqs[k + 1] \in Seq(S)
    BY <1>1, <1>4, <1>6, <2>1
  <2>6. PICK x \in Seq(S), y \in Seq(S), z \in Seq(S) :
          x = seqs[1] /\ y = E[k - 1] /\ z = seqs[k + 1]
    BY <2>5
  <2>7. Associates(x, y, z)
    BY Associative
  <2>8. F[k + 1] = seqs[1] \o E[k]
    BY <2>2, <2>3, <2>4, <2>6, <2>7 DEF Associates
  <2>. QED BY <1>9, <2>8
<1>. QED BY <1>10, <1>11

\* The registers a prologue pushes.
LEMMA TouchedType ==
  ASSUME NEW c, NEW type \in {"I", "R"}
  PROVE  Touched(c, type) \in Seq({<<x>> : x \in Symbols})
<1>. DEFINE S == {<<x>> : x \in Symbols}
            seqs == [r \in 1 .. NREGS |-> IF r - 1 \in Walked(c.usage[type])
                                          THEN <<<<Tok(type, r - 1)>>>> ELSE <<>>]
<1>1. NREGS \in Nat /\ NREGS # 0
  BY SizeAssumption
<1>2. ASSUME NEW r \in 1 .. NREGS PROVE seqs[r] \in Seq(S)
  <2>1. r - 1 \in Int
    BY <1>1
  <2>2. Tok(type, r - 1) \in Symbols
    BY <2>1 DEF Tok, Symbols
  <2>3. PICK y \in S : y = <<Tok(type, r - 1)>>
    BY <2>2
  <2>. HIDE DEF S
  <2>4. <<y>> \in Seq(S) /\ <<>> \in Seq(S)
    OBVIOUS
  <2>. QED BY <2>3, <2>4
<1>3. Len(seqs) = NREGS
  BY <1>1
<1>4. Touched(c, type) = FlattenSeq(seqs)
  BY DEF Touched
<1>. HIDE DEF S, seqs
<1>5. PICK q : q = seqs
  OBVIOUS
<1>6. Parts(S, q, NREGS)
  BY <1>1, <1>2, <1>3, <1>5 DEF Parts
<1>7. FlattenSeq(q) \in Seq(S)
  BY <1>1, <1>6, FlattenType
<1>. QED BY <1>4, <1>5, <1>7 DEF S

\* The queue of function_prologue() is a queue of registers.
LEMMA SavedType ==
  ASSUME NEW c, NEW q, q = Saved(c)
  PROVE  q \in Seq(Seq(TokenOf(Int))) /\ Registers(q)
<1>. DEFINE S == {<<x>> : x \in Symbols}
<1>1. \A y \in S : y \in Seq(TokenOf(Int)) /\ y[1] \in Symbols
  <2>1. ASSUME NEW x \in Symbols PROVE <<x>> \in Seq(TokenOf(Int)) /\ <<x>>[1] \in Symbols
    <3>1. x \in TokenOf(Int)
      BY SymbolIsToken
    <3>. QED BY <3>1
  <2>. QED BY <2>1
<1>2. Touched(c, "I") \in Seq(S) /\ Touched(c, "R") \in Seq(S)
  BY TouchedType
<1>. HIDE DEF S
<1>3. q \in Seq(S)
  BY <1>2, ConcatProperties DEF Saved
<1>4. S \subseteq Seq(TokenOf(Int))
  BY <1>1
<1>5. q \in Seq(Seq(TokenOf(Int)))
  BY <1>3, <1>4, SeqMonotonic
<1>6. /\ Len(q) \in Nat /\ q \in [1 .. Len(q) -> S]
  BY <1>3, LenProperties
<1>7. \A n \in 1 .. Len(q) : q[n][1] \in Symbols
  BY <1>1, <1>6
<1>8. \A n \in 1 .. Len(q) : q[n][1] \in Data
  BY <1>7 DEF Data
<1>9. q = [n \in 1 .. Len(q) |-> q[n]]
  BY <1>6
<1>10. Queue(q)
  BY <1>6, <1>8, <1>9 DEF Queue
<1>. QED BY <1>5, <1>7, <1>10 DEF Registers

\* Splicing the prologue in keeps the code well-formed.
LEMMA FunctionEndAfter ==
  ASSUME NEW c \in CC, HasPrologue(c), NEW d, d = FunctionEndCode(c)
  PROVE  d \in CC /\ d.names = c.names
<1>1. PICK q : q = Saved(c)
  OBVIOUS
<1>2. q \in Seq(Seq(TokenOf(Int))) /\ Registers(q)
  BY <1>1, SavedType
<1>3. PICK c1 : c1 = [c EXCEPT !.code = <<>>, !.block = "prologue", !.item = 0]
  OBVIOUS
<1>4. c1 \in CC
  <2>1. c1 = [pool |-> c.pool, usage |-> c.usage, names |-> c.names, code |-> <<>>,
              saved |-> c.saved, block |-> "prologue", item |-> 0]
    BY <1>3 DEF CC
  <2>2. c.saved \in Seq(Seq(TokenOf(Int))) /\ "prologue" \in Blocks
    BY Fields DEF Blocks
  <2>5. PICK k \in Seq(Emitted) : k = <<>>
    <3>1. <<>> \in Seq(Emitted)
      BY None
    <3>. QED BY <3>1
  <2>3. PICK s \in Seq(Seq(TokenOf(Int))), b \in Blocks, n \in Int :
          s = c.saved /\ b = "prologue" /\ n = 0
    BY <2>2
  <2>4. c1 = [pool |-> c.pool, usage |-> c.usage, names |-> c.names, code |-> k,
              saved |-> s, block |-> b, item |-> n]
    BY <2>1, <2>3, <2>5
  <2>. QED BY <2>4, Made
<1>5. PICK prologue : prologue = Push(c1, q).code
  OBVIOUS
<1>6. prologue \in Seq(Emitted)
  <2>1. PICK e : e = Push(c1, q)
    OBVIOUS
  <2>2. After(c1, e)
    BY <1>2, <1>4, <2>1, PushAfter DEF Registers
  <2>3. e \in CC
    BY <2>2 DEF After
  <2>. QED BY <1>5, <2>1, <2>3, Fields
<1>7. PICK at : at = CHOOSE n \in DOMAIN c.code :
                       c.code[n].op = "LABEL" /\ c.code[n].src0[1].t = "prologue"
  OBVIOUS
<1>8. c.code \in Seq(Emitted) /\ Len(c.code) \in Nat /\ DOMAIN c.code = 1 .. Len(c.code)
  BY Fields
<1>9. at \in 1 .. Len(c.code)
  BY <1>7, <1>8 DEF HasPrologue
<1>10. PICK k : k = SubSeq(c.code, 1, at - 1) \o prologue \o SubSeq(c.code, at, Len(c.code))
  OBVIOUS
<1>11. k \in Seq(Emitted)
  <2>1. PICK before : before = SubSeq(c.code, 1, at - 1)
    OBVIOUS
  <2>2. PICK behind : behind = SubSeq(c.code, at, Len(c.code))
    OBVIOUS
  <2>3. \A i \in 1 .. Len(c.code) : c.code[i] \in Emitted
    BY <1>8, ElementOfSeq
  <2>4. \A i \in 1 .. at - 1 : i \in 1 .. Len(c.code)
    BY <1>8, <1>9
  <2>5. \A i \in at .. Len(c.code) : i \in 1 .. Len(c.code)
    BY <1>8, <1>9
  <2>6. at - 1 \in Int /\ at \in Int /\ Len(c.code) \in Int /\ 1 \in Int
    BY <1>8, <1>9
  <2>7. before \in Seq(Emitted)
    BY <2>1, <2>3, <2>4, <2>6, SubSeqProperties
  <2>8. behind \in Seq(Emitted)
    BY <2>2, <2>3, <2>5, <2>6, SubSeqProperties
  <2>9. before \o prologue \in Seq(Emitted)
    BY <1>6, <2>7, ConcatProperties
  <2>10. (before \o prologue) \o behind \in Seq(Emitted)
    BY <2>8, <2>9, ConcatProperties
  <2>. QED BY <1>10, <2>1, <2>2, <2>10
<1>12. PICK c2 : c2 = [c EXCEPT !.code = k, !.block = "leave", !.saved = q]
  OBVIOUS
<1>13. c2 \in CC /\ c2.names = c.names
  <2>1. c2 = [pool |-> c.pool, usage |-> c.usage, names |-> c.names, code |-> k,
              saved |-> q, block |-> "leave", item |-> c.item]
    BY <1>12 DEF CC
  <2>2. c.item \in Int /\ "leave" \in Blocks
    BY Fields DEF Blocks
  <2>3. PICK b \in Blocks, n \in Int : b = "leave" /\ n = c.item
    BY <2>2
  <2>4. c2 = [pool |-> c.pool, usage |-> c.usage, names |-> c.names, code |-> k,
              saved |-> q, block |-> b, item |-> n]
    BY <2>1, <2>3
  <2>. QED BY <1>2, <1>11, <2>4, Made
<1>14. PICK leave \in TokenOf(Int), skip \in TokenOf(Int) : leave = Tok("leave", 0) /\ skip = Tok("skip", 0)
  <2>1. "leave" \in Labels /\ "skip" \in Labels
    BY DEF Labels
  <2>. QED BY <2>1, LabelToken
<1>15. PICK c3 : c3 = EmitLabel(c2, leave)
  OBVIOUS
<1>16. c3 \in CC /\ c3.names = c.names
  <2>1. After(c2, c3) /\ c3.names = c2.names
    BY <1>13, <1>15, LabelAfter
  <2>. QED BY <1>13, <2>1 DEF After
<1>17. PICK c4 : c4 = Pop(c3, q)
  OBVIOUS
<1>18. c4 \in CC /\ c4.names = c.names
  <2>1. After(c3, c4) /\ c4.names = c3.names
    BY <1>2, <1>16, <1>17, PopAfter
  <2>. QED BY <1>16, <2>1 DEF After
<1>19. PICK c5 : c5 = Emit(c4, "RETRN", <<>>, <<>>, <<>>)
  OBVIOUS
<1>20. c5 \in CC /\ c5.names = c.names
  <2>1. /\ "RETRN" \in Opcodes /\ Shape("RETRN")[1] = "-" /\ Shape("RETRN")[2] = "-"
        /\ Shape("RETRN")[3] = "-"
    BY Shapes
  <2>2. PICK op \in Opcodes : op = "RETRN"
    BY <2>1
  <2>3. c5 = Emit(c4, op, <<>>, <<>>, <<>>) /\ Shape(op)[1] = "-" /\ Shape(op)[2] = "-" /\ Shape(op)[3] = "-"
    BY <1>19, <2>1, <2>2
  <2>4. After(c4, c5) /\ c5.names = c4.names
    BY <1>18, <2>3, BareAfter, SMTT(40)
  <2>. QED BY <1>18, <2>4 DEF After
<1>21. d = EmitLabel(c5, skip)
  BY <1>1, <1>3, <1>5, <1>7, <1>10, <1>12, <1>14, <1>15, <1>17, <1>19 DEF FunctionEndCode
<1>22. After(c5, d) /\ d.names = c5.names
  BY <1>20, <1>21, LabelAfter
<1>. QED BY <1>20, <1>22 DEF After

\* ---- the file -------------------------------------------------------------------------

Loadable(V) == {i \in Instruction(V) : i.op \in Opcodes /\ Suits(i.op, Given(i), {})}
OperandKinds == {"I", "R", "i", "r", "n", "-"}
Value(x) == IF IsConst(x) \/ x.t \in {"I", "R"} THEN x ELSE Const(Address(x))
Numbers == Int \cup {Address(x) : x \in TokenOf(Int)}

\* load_program reads operands of these kinds only.
LEMMA KindsOfOperands ==
  ASSUME NEW op \in Opcodes, NEW n \in 1 .. 3
  PROVE  Shape(op)[n] \in OperandKinds
<1>0. n = 1 \/ n = 2 \/ n = 3
  OBVIOUS
<1>1. CASE op \in IntOps \cup RealTests \cup RealOps \cup {"LOADR", "STORR"}
  <2>1. Shape(op) \in {<<"I", "i", "i">>, <<"I", "r", "r">>, <<"R", "r", "r">>, <<"R", "i", "i">>}
    BY <1>1, Shapes
  <2>. QED BY <1>0, <2>1 DEF OperandKinds
<1>2. CASE op \in DOMAIN Moves
  <2>2. op \in {"COPYI", "PRNTI", "READI", "COPYR", "PRNTR", "READR", "CITOR", "CRTOI"}
    BY <1>2 DEF Moves
  <2>1. Shape(op) = Moves[op]
    BY <2>2 DEF Opcodes, Shape, IntOps, RealTests, RealOps, Moves, Jumps
  <2>3. Moves[op] \in {<<"I", "i", "-">>, <<"i", "-", "-">>, <<"I", "-", "-">>, <<"R", "r", "-">>,
                       <<"r", "-", "-">>, <<"R", "-", "-">>, <<"R", "i", "-">>, <<"I", "r", "-">>}
    BY <2>2 DEF Moves
  <2>. QED BY <1>0, <2>1, <2>3 DEF OperandKinds
<1>3. CASE op \in DOMAIN Jumps
  <2>1. op \in {"UJUMP", "JLINK", "BREQZ", "BNEQZ", "RETRN", "HALT"}
    BY <1>3 DEF Jumps
  <2>2. Shape(op) \in {<<"n", "-", "-">>, <<"i", "n", "-">>, <<"-", "-", "-">>}
    BY <2>1, Shapes
  <2>. QED BY <1>0, <2>2 DEF OperandKinds
<1>. QED BY <1>1, <1>2, <1>3 DEF Opcodes

\* A label gets its value, and stands where a label may.
LEMMA ValueSuits ==
  ASSUME NEW x \in TokenOf(Int), NEW kind \in OperandKinds, x.t \in Takes(kind, Labels)
  PROVE  Value(x).t \in Takes(kind, {})
<1>1. CASE x.t \in {"I", "R", "int", "real"}
  <2>1. Value(x) = x
    BY <1>1 DEF Value, IsConst
  <2>2. x.t \notin Labels
    BY <1>1 DEF Labels
  <2>. QED BY <2>1, <2>2 DEF Takes, OperandKinds
<1>2. CASE x.t \notin {"I", "R", "int", "real"}
  <2>1. Value(x).t = "int"
    BY <1>2 DEF Value, IsConst, Const, Tok
  <2>2. kind = "n"
    BY <1>2 DEF Takes, OperandKinds
  <2>3. "int" \in Takes("n", {})
    BY DEF Takes
  <2>. QED BY <2>1, <2>2, <2>3
<1>. QED BY <1>1, <1>2

\* A value is an operand; a register keeps its own.
LEMMA ValueToken ==
  ASSUME NEW x \in TokenOf(Int)
  PROVE  Value(x) \in TokenOf(Numbers) /\ (x \in Symbols => Value(x) = x)
<1>1. CASE x.t \in {"I", "R", "int", "real"}
  <2>1. Value(x) = x
    BY <1>1 DEF Value, IsConst
  <2>2. x \in TokenOf(Numbers)
    BY DEF TokenOf, Numbers
  <2>. QED BY <2>1, <2>2
<1>2. CASE x.t \notin {"I", "R", "int", "real"}
  <2>1. Value(x) = [t |-> "int", v |-> Address(x)]
    BY <1>2 DEF Value, IsConst, Const, Tok
  <2>2. Address(x) \in Numbers
    BY DEF Numbers
  <2>3. Value(x) \in TokenOf(Numbers)
    BY <2>1, <2>2 DEF TokenOf
  <2>4. x \notin Symbols
    BY <1>2 DEF Symbols
  <2>. QED BY <2>3, <2>4
<1>. QED BY <1>1, <1>2

ValuedSeq(q) == [n \in DOMAIN q |-> Value(q[n])]

\* Valued, field by field.
LEMMA ValuedFields ==
  ASSUME NEW i \in Emitted
  PROVE  Valued(i) = [op |-> i.op, dest |-> i.dest, src0 |-> ValuedSeq(i.src0),
                      src1 |-> ValuedSeq(i.src1), block |-> i.block, item |-> i.item]
<1>1. i = [op |-> i.op, dest |-> i.dest, src0 |-> i.src0, src1 |-> i.src1, block |-> i.block,
           item |-> i.item]
  BY DEF Emitted, Instruction
<1>2. Valued(i) = [i EXCEPT !.src0 = ValuedSeq(i.src0), !.src1 = ValuedSeq(i.src1)]
  BY DEF Valued, ValuedSeq, Value
<1>. QED BY <1>1, <1>2

\* A list of operands and their values.
LEMMA ValuedSeqType ==
  ASSUME NEW q \in Seq(TokenOf(Int)), NEW p, p = ValuedSeq(q)
  PROVE  /\ p \in Seq(TokenOf(Numbers)) /\ Len(p) = Len(q)
         /\ \A n \in 1 .. Len(q) : p[n] = Value(q[n])
<1>1. DOMAIN q = 1 .. Len(q) /\ Len(q) \in Nat /\ \A n \in 1 .. Len(q) : q[n] \in TokenOf(Int)
  OBVIOUS
<1>2. \A n \in 1 .. Len(q) : Value(q[n]) \in TokenOf(Numbers)
  BY <1>1, ValueToken
<1>3. p = [n \in 1 .. Len(q) |-> Value(q[n])]
  BY <1>1 DEF ValuedSeq
<1>. QED BY <1>1, <1>2, <1>3

\* An instruction other than LABEL can be loaded once its labels have values.
LEMMA ValuedLoads ==
  ASSUME NEW i \in Emitted, i.op # "LABEL"
  PROVE  Valued(i) \in Loadable(Numbers) /\ Valued(i).op = i.op
<1>1. PICK a \in Seq(Symbols), b \in Seq(TokenOf(Int)), e \in Seq(TokenOf(Int)) :
        a = i.dest /\ b = i.src0 /\ e = i.src1
  BY SMTT(40) DEF Emitted, Instruction
<1>2. PICK op \in Opcodes : op = i.op /\ Suits(op, a \o b \o e, Labels)
  BY <1>1 DEF Emitted, Suits, Given
<1>3. PICK f : f = ValuedSeq(b)
  OBVIOUS
<1>4. PICK g : g = ValuedSeq(e)
  OBVIOUS
<1>5. PICK j : j = Valued(i)
  OBVIOUS
<1>6. j = [op |-> op, dest |-> a, src0 |-> f, src1 |-> g, block |-> i.block, item |-> i.item]
  BY <1>1, <1>2, <1>3, <1>4, <1>5, ValuedFields
<1>7. f \in Seq(TokenOf(Numbers)) /\ Len(f) = Len(b) /\ \A n \in 1 .. Len(b) : f[n] = Value(b[n])
  BY <1>3, ValuedSeqType
<1>8. g \in Seq(TokenOf(Numbers)) /\ Len(g) = Len(e) /\ \A n \in 1 .. Len(e) : g[n] = Value(e[n])
  BY <1>4, ValuedSeqType
<1>9. a \in Seq(TokenOf(Int)) /\ a \in Seq(TokenOf(Numbers)) /\ \A n \in 1 .. Len(a) : a[n] = Value(a[n])
  <2>1. Symbols \subseteq TokenOf(Int) /\ Symbols \subseteq TokenOf(Numbers)
    BY DEF Symbols, TokenOf, Numbers
  <2>2. a \in Seq(TokenOf(Int)) /\ a \in Seq(TokenOf(Numbers))
    BY <2>1, SeqMonotonic
  <2>3. \A n \in 1 .. Len(a) : a[n] \in Symbols
    BY ElementOfSeq
  <2>4. \A n \in 1 .. Len(a) : a[n] = Value(a[n])
    BY <2>1, <2>3, ValueToken
  <2>. QED BY <2>2, <2>4
<1>10. j \in Instruction(Numbers)
  <2>1. i.block \in Blocks /\ i.item \in Int
    BY DEF Emitted, Instruction
  <2>. QED BY <1>6, <1>7, <1>8, <2>1 DEF Instruction
<1>11. PICK x : x = a \o b \o e
  OBVIOUS
<1>12. PICK y : y = a \o f \o g
  OBVIOUS
<1>13. /\ x \in Seq(TokenOf(Int)) /\ Len(x) = Len(a) + Len(b) + Len(e)
       /\ \A n \in 1 .. Len(a) : x[n] = a[n]
       /\ \A n \in 1 .. Len(b) : x[Len(a) + n] = b[n]
       /\ \A n \in 1 .. Len(e) : x[Len(a) + Len(b) + n] = e[n]
  BY <1>9, <1>11, Behind
<1>14. /\ y \in Seq(TokenOf(Numbers)) /\ Len(y) = Len(a) + Len(f) + Len(g)
       /\ \A n \in 1 .. Len(a) : y[n] = a[n]
       /\ \A n \in 1 .. Len(f) : y[Len(a) + n] = f[n]
       /\ \A n \in 1 .. Len(g) : y[Len(a) + Len(f) + n] = g[n]
  <2>1. f \in Seq(TokenOf(Numbers)) /\ g \in Seq(TokenOf(Numbers)) /\ a \in Seq(TokenOf(Numbers))
    BY <1>7, <1>8, <1>9
  <2>. QED BY <1>12, <2>1, Behind, SMTT(40)
<1>15. PICK k \in Nat, l \in Nat, m0 \in Nat : k = Len(a) /\ l = Len(b) /\ m0 = Len(e)
  OBVIOUS
<1>16. ASSUME NEW n \in 1 .. Len(x) PROVE y[n] = Value(x[n])
  <2>1. CASE n <= k
    <3>1. n \in 1 .. Len(a)
      BY <1>15, <2>1
    <3>. QED BY <1>9, <1>13, <1>14, <3>1
  <2>2. CASE n > k /\ n <= k + l
    <3>1. PICK r \in 1 .. l : n = k + r
      <4>1. n - k \in 1 .. l /\ n = k + (n - k)
        BY <1>15, <2>2
      <4>. QED BY <4>1
    <3>. QED BY <1>7, <1>13, <1>14, <1>15, <3>1
  <2>3. CASE n > k + l
    <3>1. PICK r \in 1 .. m0 : n = k + l + r
      <4>1. n - (k + l) \in 1 .. m0 /\ n = k + l + (n - (k + l))
        BY <1>13, <1>15, <2>3
      <4>. QED BY <4>1
    <3>. QED BY <1>7, <1>8, <1>13, <1>14, <1>15, <3>1
  <2>. QED BY <1>15, <2>1, <2>2, <2>3
<1>17. Len(y) = Len(x)
  BY <1>7, <1>8, <1>13, <1>14
<1>18. Len(x) \in 0 .. 3 /\ \A n \in 1 .. 3 : IF n <= Len(x) THEN x[n].t \in Takes(Shape(op)[n], Labels)
                                              ELSE Shape(op)[n] = "-"
  BY <1>2, <1>11 DEF Suits
<1>19. ASSUME NEW n \in 1 .. 3, n <= Len(y) PROVE y[n].t \in Takes(Shape(op)[n], {})
  <2>1. n \in 1 .. Len(x)
    BY <1>13, <1>17, <1>19
  <2>2. x[n] \in TokenOf(Int) /\ x[n].t \in Takes(Shape(op)[n], Labels)
    BY <1>13, <1>17, <1>18, <1>19, <2>1
  <2>3. Shape(op)[n] \in OperandKinds
    BY KindsOfOperands
  <2>4. Value(x[n]).t \in Takes(Shape(op)[n], {})
    BY <2>2, <2>3, ValueSuits
  <2>. QED BY <1>16, <2>1, <2>4
<1>20. Suits(op, y, {})
  BY <1>17, <1>18, <1>19 DEF Suits
<1>21. Given(j) = y /\ j.op = op
  BY <1>6, <1>12 DEF Given
<1>. QED BY <1>2, <1>5, <1>10, <1>20, <1>21 DEF Loadable

\* What WriteFile leaves of the code can be loaded.
LEMMA SizedLoads ==
  ASSUME cc \in CC, NEW code, code = Sized([n \in DOMAIN cc.code |-> Valued(cc.code[n])])
  PROVE  code \in Seq(Loadable(Numbers))
<1>1. PICK q : q = [n \in DOMAIN cc.code |-> Valued(cc.code[n])]
  OBVIOUS
<1>2. PICK N \in Nat : N = Len(cc.code) /\ DOMAIN cc.code = 1 .. N
  BY Fields
<1>3. \A n \in 1 .. N : cc.code[n] \in Emitted
  BY <1>2, Fields, ElementOfSeq
<1>4. PICK seqs : seqs = [n \in DOMAIN q |-> IF q[n].op = "LABEL" THEN <<>> ELSE <<q[n]>>]
  OBVIOUS
<1>5. DOMAIN q = 1 .. N /\ \A n \in 1 .. N : q[n] = Valued(cc.code[n])
  BY <1>1, <1>2
<1>6. Len(seqs) = N /\ seqs = [n \in 1 .. N |-> IF q[n].op = "LABEL" THEN <<>> ELSE <<q[n]>>]
  BY <1>4, <1>5
<1>7. ASSUME NEW n \in 1 .. N PROVE seqs[n] \in Seq(Loadable(Numbers))
  <2>1. CASE q[n].op = "LABEL"
    BY <1>6, <2>1, None
  <2>2. CASE q[n].op # "LABEL"
    <3>1. cc.code[n].op # "LABEL"
      <4>1. PICK i \in Emitted : i = cc.code[n]
        BY <1>3
      <4>2. Valued(i).op = i.op
        BY ValuedFields
      <4>. QED BY <1>5, <2>2, <4>1, <4>2
    <3>2. q[n] \in Loadable(Numbers)
      BY <1>3, <1>5, <3>1, ValuedLoads
    <3>3. <<q[n]>> \in Seq(Loadable(Numbers))
      BY <3>2, One
    <3>. QED BY <1>6, <2>2, <3>3
  <2>. QED BY <2>1, <2>2
<1>8. N = 0 => seqs = <<>>
  BY <1>6
<1>9. Parts(Loadable(Numbers), seqs, N)
  BY <1>6, <1>7, <1>8 DEF Parts
<1>10. FlattenSeq(seqs) \in Seq(Loadable(Numbers))
  BY <1>9, FlattenType
<1>11. code = FlattenSeq(seqs)
  BY <1>1, <1>4 DEF Sized
<1>. QED BY <1>10, <1>11

\* ---- reading it back --------------------------------------------------------------------

MeantArg(kind, x) ==
  CASE x.t \in {"I", "R"} -> Arg(FALSE, x.v)
    [] x.t = "int" -> Arg(TRUE, IF kind = "r" THEN 2 * x.v ELSE x.v)
    [] x.t = "real" -> Arg(TRUE, x.v)

\* The first word of a file and what is behind it.
LEMMA Leads ==
  ASSUME NEW T, NEW x \in T, NEW r \in Seq(T), NEW s, s = <<x>> \o r
  PROVE  Head(s) = x /\ Tail(s) = r /\ s # <<>>
<1>1. /\ <<x>> \in Seq(T) /\ Len(<<x>>) = 1 /\ <<x>>[1] = x
  OBVIOUS
<1>2. /\ s \in Seq(T) /\ Len(s) = 1 + Len(r)
      /\ \A i \in 1 .. 1 + Len(r) : s[i] = IF i <= 1 THEN x ELSE r[i - 1]
  BY <1>1, ConcatProperties
<1>3. Len(r) \in Nat
  OBVIOUS
<1>4. s # <<>>
  BY <1>2, <1>3
<1>5. /\ Tail(s) \in Seq(T) /\ Len(Tail(s)) = Len(r)
      /\ \A i \in 1 .. Len(Tail(s)) : Tail(s)[i] = s[i + 1]
  BY <1>2, <1>3, <1>4, HeadTailProperties
<1>6. \A i \in 1 .. Len(r) : Tail(s)[i] = r[i]
  <2>1. ASSUME NEW i \in 1 .. Len(r) PROVE Tail(s)[i] = r[i]
    <3>1. i + 1 \in 1 .. 1 + Len(r) /\ ~(i + 1 <= 1) /\ (i + 1) - 1 = i
      BY <1>3
    <3>. QED BY <1>2, <1>5, <3>1
  <2>. QED BY <2>1
<1>7. Tail(s) = r
  <2>1. PICK u \in Seq(T) : u = Tail(s)
    BY <1>5
  <2>2. Len(u) = Len(r) /\ \A i \in 1 .. Len(u) : u[i] = r[i]
    BY <1>5, <1>6, <2>1
  <2>3. u = r
    BY <2>2, SeqEqual
  <2>. QED BY <2>1, <2>3
<1>8. Head(s) = s[1] /\ s[1] = x
  BY <1>2, <1>3
<1>. QED BY <1>4, <1>7, <1>8

\* An operand is read in the role it was written for, and no more than it.
LEMMA ReadOne ==
  ASSUME NEW T, NEW kind \in OperandKinds, NEW x \in T, x.t \in Takes(kind, {}), NEW r \in Seq(T),
         NEW s, s = <<x>> \o r
  PROVE  Read(kind, s) = [arg |-> MeantArg(kind, x), rest |-> r]
<1>1. Head(s) = x /\ Tail(s) = r /\ s # <<>>
  BY Leads
<1>2. CASE kind \in {"I", "R"}
  <2>1. x.t = kind
    BY <1>2 DEF Takes
  <2>2. Read(kind, s) = GetReg(s, kind)
    BY <1>2 DEF Read
  <2>3. GetReg(s, kind) = Got(FALSE, x.v, r)
    BY <1>1, <2>1 DEF GetReg, NextIs
  <2>4. MeantArg(kind, x) = Arg(FALSE, x.v)
    BY <1>2, <2>1 DEF MeantArg
  <2>. QED BY <2>2, <2>3, <2>4 DEF Got
<1>3. CASE kind = "i"
  <2>1. x.t \in {"I", "int"}
    BY <1>3 DEF Takes
  <2>2. CASE x.t = "I"
    <3>1. Read(kind, s) = GetReg(s, "I")
      BY <1>1, <1>3, <2>2 DEF Read, NextIs, Constants
    <3>2. GetReg(s, "I") = Got(FALSE, x.v, r)
      BY <1>1, <2>2 DEF GetReg, NextIs
    <3>. QED BY <2>2, <3>1, <3>2 DEF Got, MeantArg
  <2>3. CASE x.t = "int"
    <3>1. Read(kind, s) = ScanInt(s)
      BY <1>1, <1>3, <2>3 DEF Read, NextIs, Constants
    <3>2. ScanInt(s) = Got(TRUE, x.v, r)
      BY <1>1, <2>3 DEF ScanInt
    <3>3. MeantArg(kind, x) = Arg(TRUE, x.v)
      BY <1>3, <2>3 DEF MeantArg
    <3>. QED BY <3>1, <3>2, <3>3 DEF Got
  <2>. QED BY <2>1, <2>2, <2>3
<1>4. CASE kind = "r"
  <2>1. x.t \in {"R", "int", "real"}
    BY <1>4 DEF Takes
  <2>2. CASE x.t = "R"
    <3>1. Read(kind, s) = GetReg(s, "R")
      BY <1>1, <1>4, <2>2 DEF Read, NextIs, Constants
    <3>2. GetReg(s, "R") = Got(FALSE, x.v, r)
      BY <1>1, <2>2 DEF GetReg, NextIs
    <3>. QED BY <2>2, <3>1, <3>2 DEF Got, MeantArg
  <2>3. CASE x.t \in {"int", "real"}
    <3>1. Read(kind, s) = ScanReal(s)
      BY <1>1, <1>4, <2>3 DEF Read, NextIs, Constants
    <3>2. ScanReal(s) = Got(TRUE, IF x.t = "int" THEN 2 * x.v ELSE x.v, r)
      BY <1>1 DEF ScanReal
    <3>3. MeantArg(kind, x) = Arg(TRUE, IF x.t = "int" THEN 2 * x.v ELSE x.v)
      BY <1>4, <2>3 DEF MeantArg
    <3>. QED BY <3>1, <3>2, <3>3 DEF Got
  <2>. QED BY <2>1, <2>2, <2>3
<1>5. CASE kind = "n"
  <2>1. x.t = "int"
    BY <1>5 DEF Takes
  <2>2. Read(kind, s) = ScanInt(s)
    BY <1>1, <1>5, <2>1 DEF Read, NextIs, Constants
  <2>3. ScanInt(s) = Got(TRUE, x.v, r)
    BY <1>1, <2>1 DEF ScanInt
  <2>4. MeantArg(kind, x) = Arg(TRUE, x.v)
    BY <1>5, <2>1 DEF MeantArg
  <2>. QED BY <2>2, <2>3, <2>4 DEF Got
<1>6. kind # "-"
  BY DEF Takes
<1>. QED BY <1>2, <1>3, <1>4, <1>5, <1>6 DEF OperandKinds

\* The operands from number k + 1 on.
Left(a, k) == SubSeq(a, k + 1, Len(a))

\* One more operand is read, or there is none.
LEMMA LeftType ==
  ASSUME NEW T, NEW a \in Seq(T), NEW k \in Nat
  PROVE  /\ Left(a, k) \in Seq(T)
         /\ k + 1 <= Len(a) => a[k + 1] \in T /\ Left(a, k) = <<a[k + 1]>> \o Left(a, k + 1)
         /\ k >= Len(a) => Left(a, k) = <<>>
<1>1. Len(a) \in Nat /\ \A i \in 1 .. Len(a) : a[i] \in T
  OBVIOUS
<1>2. PICK l \in Int, n \in Int : l = k + 1 /\ n = Len(a)
  BY <1>1
<1>3. \A i \in l .. n : a[i] \in T
  BY <1>1, <1>2
<1>4. SubSeq(a, l, n) \in Seq(T)
  BY <1>3, SubSeqProperties
<1>5. CASE k + 1 <= Len(a)
  <2>1. l \in 1 .. Len(a) /\ n \in l .. Len(a)
    BY <1>1, <1>2, <1>5
  <2>2. SubSeq(a, l, n) = <<a[l]>> \o SubSeq(a, l + 1, n)
    BY <2>1, SubSeqRecursiveFirst
  <2>3. a[l] \in T /\ ~(k >= Len(a))
    BY <1>1, <1>2, <1>5, <2>1
  <2>. QED BY <1>2, <1>4, <1>5, <2>2, <2>3 DEF Left
<1>6. CASE ~(k + 1 <= Len(a))
  <2>1. n < l
    BY <1>1, <1>2, <1>6
  <2>2. SubSeq(a, l, n) = <<>>
    BY <2>1, SubSeqEmpty
  <2>. QED BY <1>2, <1>4, <1>6, <2>2 DEF Left
<1>. QED BY <1>5, <1>6

\* Reading operand number k + 1.
LEMMA ReadNext ==
  ASSUME NEW T, NEW a \in Seq(T), NEW rest \in Seq(T), NEW k \in Nat, NEW kind \in OperandKinds,
         IF k + 1 <= Len(a) THEN a[k + 1].t \in Takes(kind, {}) ELSE kind = "-",
         NEW s, s = Left(a, k) \o rest
  PROVE  /\ Read(kind, s).rest = Left(a, k + 1) \o rest
         /\ k + 1 <= Len(a) => Read(kind, s).arg = MeantArg(kind, a[k + 1])
<1>1. Len(a) \in Nat /\ k + 1 \in Nat
  OBVIOUS
<1>2. PICK l \in Seq(T) : l = Left(a, k + 1)
  BY <1>1, LeftType
<1>3. CASE k + 1 <= Len(a)
  <2>1. PICK x \in T : x = a[k + 1] /\ Left(a, k) = <<x>> \o l
    BY <1>2, <1>3, LeftType
  <2>2. PICK h \in Seq(T) : h = <<x>>
    BY One
  <2>3. Associates(h, l, rest)
    BY Associative
  <2>4. PICK r \in Seq(T) : r = l \o rest
    <3>1. l \o rest \in Seq(T)
      BY ConcatProperties
    <3>. QED BY <3>1
  <2>5. s = <<x>> \o r
    BY <2>1, <2>2, <2>3, <2>4 DEF Associates
  <2>6. x.t \in Takes(kind, {})
    BY <1>3, <2>1
  <2>7. Read(kind, s) = [arg |-> MeantArg(kind, x), rest |-> r]
    BY <2>5, <2>6, ReadOne
  <2>8. Read(kind, s).rest = r /\ Read(kind, s).arg = MeantArg(kind, x)
    BY <2>7
  <2>. QED BY <1>2, <2>1, <2>4, <2>8
<1>4. CASE ~(k + 1 <= Len(a))
  <2>1. kind = "-" /\ k >= Len(a) /\ k + 1 >= Len(a)
    BY <1>1, <1>4
  <2>2. Left(a, k) = <<>> /\ Left(a, k + 1) = <<>>
    BY <1>1, <2>1, LeftType
  <2>3. Read(kind, s).rest = s
    BY <2>1 DEF Read, Got
  <2>. QED BY <1>4, <2>2, <2>3
<1>. QED BY <1>3, <1>4

\* The tokens of a file, with numbers from V.
Words(V) == [t : Opcodes \cup {"I", "R", "int", "real"} \cup Labels, v : V \cup {0}]

\* A written line is the opcode and then the operands.
LEMMA WrittenType ==
  ASSUME NEW V, NEW i \in Loadable(V), Symbols \subseteq TokenOf(V)
  PROVE  /\ Given(i) \in Seq(Words(V)) /\ Written(i) \in Seq(Words(V))
         /\ Written(i) = <<Tok(i.op, 0)>> \o Given(i) /\ Tok(i.op, 0) \in Words(V)
<1>. DEFINE T == Words(V)
<1>1. TokenOf(V) \subseteq T /\ Symbols \subseteq T
  BY DEF TokenOf, Words
<1>2. i.op \in Opcodes /\ i.dest \in Seq(Symbols) /\ i.src0 \in Seq(TokenOf(V)) /\ i.src1 \in Seq(TokenOf(V))
  BY DEF Loadable, Instruction
<1>3. Tok(i.op, 0) \in T
  BY <1>2 DEF Tok, Words
<1>. HIDE DEF T
<1>4. PICK a \in Seq(T) : a = i.dest
  BY <1>1, <1>2, SeqMonotonic
<1>5. PICK b \in Seq(T) : b = i.src0
  BY <1>1, <1>2, SeqMonotonic
<1>6. PICK c \in Seq(T) : c = i.src1
  BY <1>1, <1>2, SeqMonotonic
<1>7. PICK h \in Seq(T) : h = <<Tok(i.op, 0)>>
  BY <1>3, One
<1>8. PICK d \in Seq(T) : d = a \o b
  <2>1. a \o b \in Seq(T)
    BY ConcatProperties
  <2>. QED BY <2>1
<1>9. Associates(h, a, b)
  BY Associative
<1>10. Associates(h, d, c)
  BY Associative
<1>11. Written(i) = ((h \o a) \o b) \o c /\ Given(i) = d \o c
  BY <1>4, <1>5, <1>6, <1>7, <1>8 DEF Written, Given
<1>12. Written(i) = h \o Given(i)
  BY <1>8, <1>9, <1>10, <1>11 DEF Associates
<1>13. PICK e \in Seq(T) : e = Given(i)
  <2>1. d \o c \in Seq(T)
    BY ConcatProperties
  <2>. QED BY <1>11, <2>1
<1>14. h \o e \in Seq(T)
  BY ConcatProperties
<1>. QED BY <1>3, <1>7, <1>12, <1>13, <1>14 DEF T

\* load_program reads one line as it was written.
LEMMA ReadsLine ==
  ASSUME NEW V, NEW i \in Loadable(V), Symbols \subseteq TokenOf(V), NEW rest \in Seq(Words(V)),
         NEW read, read = ReadLine(Written(i) \o rest)
  PROVE  /\ read.rest = rest /\ read.inst.op = i.op
         /\ \A n \in 1 .. Len(Given(i)) :
              <<read.inst.a1, read.inst.a2, read.inst.a3>>[n] = MeantArg(Shape(i.op)[n], Given(i)[n])
<1>1. PICK T : T = Words(V)
  OBVIOUS
<1>2. PICK op \in Opcodes : op = i.op
  BY DEF Loadable
<1>3. PICK a \in Seq(T) : a = Given(i)
  BY <1>1, WrittenType
<1>4. Suits(op, a, {})
  BY <1>2, <1>3 DEF Loadable
<1>5. PICK x \in T : x = Tok(op, 0)
  BY <1>1, <1>2, WrittenType
<1>6. PICK h \in Seq(T) : h = <<x>>
  BY One
<1>7. PICK r \in Seq(T) : r = rest
  BY <1>1
<1>8. PICK s0 \in Seq(T) : s0 = a \o r
  <2>1. a \o r \in Seq(T)
    BY ConcatProperties
  <2>. QED BY <2>1
<1>9. PICK s : s = <<x>> \o s0
  OBVIOUS
<1>10. read = ReadLine(s)
  <2>1. Associates(h, a, r)
    BY Associative
  <2>2. Written(i) = h \o a
    BY <1>2, <1>3, <1>5, <1>6, WrittenType
  <2>. QED BY <1>6, <1>7, <1>8, <1>9, <2>1, <2>2 DEF Associates
<1>11. Head(s) = x /\ Tail(s) = s0
  BY <1>9, Leads
<1>12. PICK shape : shape = Shape(op)
  OBVIOUS
<1>13. PICK one : one = Read(shape[1], s0)
  OBVIOUS
<1>14. PICK two : two = Read(shape[2], one.rest)
  OBVIOUS
<1>15. PICK three : three = Read(shape[3], two.rest)
  OBVIOUS
<1>16. /\ read.inst = [op |-> op, a1 |-> one.arg, a2 |-> two.arg, a3 |-> three.arg]
       /\ read.rest = three.rest
  <2>1. Head(s).t = op
    BY <1>5, <1>11 DEF Tok
  <2>2. read.inst = ReadLine(s).inst /\ read.rest = ReadLine(s).rest
    BY <1>10
  <2>3. (IF op \in Opcodes THEN Shape(op) ELSE <<"-", "-", "-">>) = shape
    BY <1>12, SMTT(40)
  <2>4. ReadLine(s).inst = [op |-> op, a1 |-> one.arg, a2 |-> two.arg, a3 |-> three.arg]
    BY <1>11, <1>13, <1>14, <1>15, <2>1, <2>3, ZenonT(60) DEF ReadLine
  <2>5. ReadLine(s).rest = three.rest
    BY <1>11, <1>13, <1>14, <1>15, <2>1, <2>3 DEF ReadLine
  <2>. QED BY <2>2, <2>4, <2>5
<1>25. Len(a) \in 0 .. 3
  BY <1>4 DEF Suits
<1>26. PICK N \in 0 .. 3 : N = Len(a)
  BY <1>25
<1>17. /\ Len(a) \in 0 .. 3
       /\ \A n \in 1 .. 3 : IF n <= Len(a) THEN a[n].t \in Takes(shape[n], {}) ELSE shape[n] = "-"
  BY <1>4, <1>12 DEF Suits
<1>18. \A n \in 1 .. 3 : shape[n] \in OperandKinds
  BY <1>12, KindsOfOperands
<1>19. /\ one.rest = Left(a, 1) \o r
       /\ 1 <= Len(a) => one.arg = MeantArg(shape[1], a[1])
  <2>1. PICK k \in Nat : k = 0 /\ k + 1 = 1
    OBVIOUS
  <2>2. PICK kind \in OperandKinds : kind = shape[k + 1]
    BY <1>18, <2>1
  <2>3. IF k + 1 <= Len(a) THEN a[k + 1].t \in Takes(kind, {}) ELSE kind = "-"
    BY <1>17, <2>1, <2>2
  <2>4. Left(a, 0) = a
    BY SubSeqFull DEF Left
  <2>5. s0 = Left(a, k) \o r
    BY <1>8, <2>1, <2>4
  <2>6. /\ Read(kind, s0).rest = Left(a, k + 1) \o r
        /\ k + 1 <= Len(a) => Read(kind, s0).arg = MeantArg(kind, a[k + 1])
    BY <2>3, <2>5, ReadNext, ZenonT(60)
  <2>. QED BY <1>13, <2>1, <2>2, <2>6
<1>20. /\ two.rest = Left(a, 2) \o r
       /\ 2 <= Len(a) => two.arg = MeantArg(shape[2], a[2])
  <2>1. PICK k \in Nat : k = 1 /\ k + 1 = 2
    OBVIOUS
  <2>2. PICK kind \in OperandKinds : kind = shape[k + 1]
    BY <1>18, <2>1
  <2>3. IF k + 1 <= Len(a) THEN a[k + 1].t \in Takes(kind, {}) ELSE kind = "-"
    BY <1>17, <2>1, <2>2
  <2>4. PICK s1 : s1 = one.rest
    OBVIOUS
  <2>5. s1 = Left(a, k) \o r
    BY <1>19, <2>1, <2>4
  <2>6. /\ Read(kind, s1).rest = Left(a, k + 1) \o r
        /\ k + 1 <= Len(a) => Read(kind, s1).arg = MeantArg(kind, a[k + 1])
    BY <2>3, <2>5, ReadNext, ZenonT(60)
  <2>. QED BY <1>14, <2>1, <2>2, <2>4, <2>6
<1>21. /\ three.rest = Left(a, 3) \o r
       /\ 3 <= Len(a) => three.arg = MeantArg(shape[3], a[3])
  <2>1. PICK k \in Nat : k = 2 /\ k + 1 = 3
    OBVIOUS
  <2>2. PICK kind \in OperandKinds : kind = shape[k + 1]
    BY <1>18, <2>1
  <2>3. IF k + 1 <= Len(a) THEN a[k + 1].t \in Takes(kind, {}) ELSE kind = "-"
    BY <1>17, <2>1, <2>2
  <2>4. PICK s1 : s1 = two.rest
    OBVIOUS
  <2>5. s1 = Left(a, k) \o r
    BY <1>20, <2>1, <2>4
  <2>6. /\ Read(kind, s1).rest = Left(a, k + 1) \o r
        /\ k + 1 <= Len(a) => Read(kind, s1).arg = MeantArg(kind, a[k + 1])
    BY <2>3, <2>5, ReadNext, ZenonT(60)
  <2>. QED BY <1>15, <2>1, <2>2, <2>4, <2>6
<1>22. three.rest = r
  <2>0. 3 >= N /\ 3 \in Nat
    OBVIOUS
  <2>1. 3 >= Len(a) /\ 3 \in Nat
    BY <1>26, <2>0
  <2>2. Left(a, 3) = <<>>
    BY <2>1, LeftType
  <2>. QED BY <1>21, <2>2, ConcatEmptySeq
<1>23. ASSUME NEW n \in 1 .. Len(a)
       PROVE  <<read.inst.a1, read.inst.a2, read.inst.a3>>[n] = MeantArg(shape[n], a[n])
  <2>0. n \in 1 .. N
    BY <1>26
  <2>4. (n = 1 /\ 1 <= N) \/ (n = 2 /\ 2 <= N) \/ (n = 3 /\ 3 <= N)
    BY <2>0
  <2>1. (n = 1 /\ 1 <= Len(a)) \/ (n = 2 /\ 2 <= Len(a)) \/ (n = 3 /\ 3 <= Len(a))
    BY <1>26, <2>4
  <2>2. read.inst.a1 = one.arg /\ read.inst.a2 = two.arg /\ read.inst.a3 = three.arg
    BY <1>16
  <2>. QED BY <1>19, <1>20, <1>21, <2>1, <2>2
<1>24. read.inst.op = op
  BY <1>16
<1>. QED BY <1>2, <1>3, <1>7, <1>12, <1>16, <1>22, <1>23, <1>24

\* ---- the invariant ----------------------------------------------------------------------

\* The machine instruction i is the instruction j of the compiler.
Matches(i, j) ==
  /\ i.op = j.op
  /\ \A n \in DOMAIN Meant(j) : <<i.a1, i.a2, i.a3>>[n] = Meant(j)[n]
\* The lines behind the first n of them, as they stand in the file.
Lines(code, n) == [l \in 1 .. Len(code) - n |-> Written(code[n + l])]
Loads(code, p, V, P) ==
  /\ Symbols \subseteq TokenOf(V) /\ code \in Seq(Loadable(V)) /\ p \in Seq(P)
  /\ Len(p) <= Len(code) /\ \A l \in 1 .. Len(p) : Matches(p[l], code[l])

InFun(c) ==
  /\ c.block = "fun" /\ HasPrologue(c) /\ c.item \in 1 .. Len(src.fun) + 1
  /\ Known(Declared, src.fun, c.item) \subseteq DOMAIN c.names
AfterFun(c) == Known(Declared, src.fun, Len(src.fun) + 1) \subseteq DOMAIN c.names
InTheMain(c) ==
  /\ c.block = "main" /\ c.item \in Nat
  /\ Known(InMain, src.main, c.item) \subseteq DOMAIN c.names

Compiling == {"function", "fun", "program", "main", "output", "error"}
Loading == {"load", "rejected", "overrun", "run"}
IInv ==
  /\ Accepted(src) /\ phase \in Compiling \cup Loading
  /\ phase \in Compiling => cc \in CC /\ prog = <<>>
  /\ phase = "fun" => InFun(cc)
  /\ phase = "program" => AfterFun(cc)
  /\ phase = "main" => InTheMain(cc)
  /\ phase \in Loading => \E V, P : Loads(cc.code, prog, V, P)
  /\ phase = "load" => file = FlattenSeq(Lines(cc.code, Len(prog)))
  /\ phase = "run" => Len(prog) = Len(cc.code)
  /\ AllInteger => phase # "error"

\* As long as the program is the same, so are the types.
LEMMA SameTypes == ASSUME src' = src PROVE CC' = CC /\ AllInteger' = AllInteger
<1>1. AllNames' = AllNames
  BY DEF AllNames, Declared, Elements, Results
<1>2. Named' = Named
  BY <1>1 DEF Named, Variables, Types, AllInteger, Declared, Elements
<1>3. AllInteger' = AllInteger
  BY DEF AllInteger, Declared, Elements
<1>. QED BY <1>2, <1>3 DEF CC

\* Before anything is compiled the compiler's state has its type,
LEMMA NoCodeType == NoCode \in CC
<1>1. Table({0, 1, 2}) \in Tables /\ Table({}) \in Tables
  BY SizeAssumption DEF Table, Tables, Regs, NOREG, VACANT
<1>2. PICK p : p = [I |-> Table({0, 1, 2}), R |-> Table({})]
  OBVIOUS
<1>3. PICK u : u = [I |-> Table({}), R |-> Table({})]
  OBVIOUS
<1>4. p \in [{"I", "R"} -> Tables] /\ u \in [{"I", "R"} -> Tables]
  BY <1>1, <1>2, <1>3
<1>5. <<>> \in Named
  <2>1. <<>> \in [{} -> Variables]
    OBVIOUS
  <2>2. {} \in SUBSET AllNames
    OBVIOUS
  <2>. QED BY <2>1, <2>2 DEF Named
<1>6. <<>> \in Seq(Emitted) /\ <<>> \in Seq(Seq(TokenOf(Int))) /\ "skip" \in Blocks /\ 0 \in Int
  BY DEF Blocks
<1>7. NoCode = [pool |-> p, usage |-> u, names |-> <<>>, code |-> <<>>, saved |-> <<>>,
                block |-> "skip", item |-> 0]
  BY <1>2, <1>3 DEF NoCode
<1>. QED BY <1>4, <1>5, <1>6, <1>7 DEF CC

\* so the invariant holds initially.
LEMMA InitIInv == Init => IInv
<1>. SUFFICES ASSUME Init PROVE IInv
  OBVIOUS
<1>1. Accepted(src) /\ phase = "function" /\ cc = NoCode /\ prog = <<>>
  BY ProgramsAssumption DEF Init
<1>. QED BY <1>1, NoCodeType DEF IInv, Compiling, Loading

\* The names known at the first item and behind an item.
LEMMA KnownFirst == ASSUME NEW D, NEW items PROVE Known(D, items, 1) = D
<1>1. 1 .. 1 - 1 = {}
  OBVIOUS
<1>. QED BY <1>1 DEF Known

\* One item more makes at most its destination known.
LEMMA KnownNext ==
  ASSUME NEW D, NEW items, NEW j \in Nat, NEW N, Known(D, items, j) \subseteq N,
         items[j].kind \in {"arith", "call"} => items[j].dest \in N
  PROVE  Known(D, items, j + 1) \subseteq N
<1>1. \A n \in 1 .. (j + 1) - 1 : n \in 1 .. j - 1 \/ n = j
  OBVIOUS
<1>2. D \subseteq N /\ \A n \in 1 .. j - 1 : items[n].kind \in {"arith", "call"} => items[n].dest \in N
  BY DEF Known
<1>3. \A n \in 1 .. (j + 1) - 1 : items[n].kind \in {"arith", "call"} => items[n].dest \in N
  BY <1>1, <1>2
<1>. QED BY <1>2, <1>3 DEF Known

\* The steps of rcc keep the invariant:
LEMMA HeaderIInv == ASSUME IInv, FunctionHeader PROVE IInv'
<1>1. /\ src' = src /\ prog' = prog /\ phase' = "fun" /\ phase = "function"
      /\ cc' = [HeaderCode(cc) EXCEPT !.item = 1]
  BY DEF FunctionHeader, Compile
<1>2. Accepted(src) /\ cc \in CC /\ prog = <<>>
  BY <1>1 DEF IInv, Compiling
<1>3. PICK d : d = HeaderCode(cc)
  OBVIOUS
<1>4. d \in CC /\ d.block = "fun" /\ HasPrologue(d) /\ Declared \subseteq DOMAIN d.names
  BY <1>2, <1>3, HeaderAfter
<1>5. PICK e : e = cc'
  OBVIOUS
<1>6. After(d, e) /\ e.names = d.names /\ e.item = 1
  <2>1. PICK n \in Int : n = 1
    OBVIOUS
  <2>2. e = [d EXCEPT !.item = n]
    BY <1>1, <1>3, <1>5, <2>1
  <2>. QED BY <1>4, <2>1, <2>2, Numbered
<1>7. HasPrologue(e)
  BY <1>4, <1>6, PrologueStays
<1>8. e \in CC /\ e.block = "fun"
  BY <1>4, <1>6 DEF After
<1>9. Len(src.fun) \in Nat
  BY <1>2, Formed
<1>10. 1 \in 1 .. Len(src.fun) + 1
  BY <1>9
<1>11. Known(Declared, src.fun, 1) \subseteq DOMAIN e.names
  BY <1>4, <1>6, KnownFirst
<1>12. InFun(e)
  BY <1>6, <1>7, <1>8, <1>10, <1>11 DEF InFun
<1>13. InFun(cc)'
  BY <1>1, <1>5, <1>12 DEF InFun, Declared
<1>. QED BY <1>1, <1>2, <1>5, <1>8, <1>13, SameTypes DEF IInv, Compiling, Loading

\* an item,
LEMMA CodeItemIInv == ASSUME IInv, CodeItem PROVE IInv'
<1>1. src' = src /\ prog' = prog /\ phase \in {"fun", "main"}
  BY DEF CodeItem, Compile
<1>2. Accepted(src) /\ cc \in CC /\ prog = <<>>
  BY <1>1 DEF IInv, Compiling
<1>3. /\ src.ret \in {"I", "R"} /\ Len(src.fun) \in Nat /\ Len(src.main) \in Nat
      /\ DOMAIN src.fun = 1 .. Len(src.fun) /\ DOMAIN src.main = 1 .. Len(src.main)
  BY <1>2, Formed
<1>4. PICK items : items = IF phase = "fun" THEN src.fun ELSE src.main
  OBVIOUS
<1>5. PICK j \in Nat : j = cc.item /\ j \in DOMAIN items
  <2>1. cc.item \in DOMAIN items
    BY <1>4 DEF CodeItem
  <2>2. DOMAIN items \subseteq Nat
    BY <1>3, <1>4
  <2>. QED BY <2>1, <2>2
<1>6. PICK known : known = Known(IF phase = "fun" THEN Declared ELSE InMain, items, j)
  OBVIOUS
<1>7. /\ (phase = "fun" => InFun(cc)) /\ (phase = "main" => InTheMain(cc))
  BY DEF IInv
<1>8. /\ known \subseteq DOMAIN cc.names
      /\ cc.block = IF phase = "fun" THEN "fun" ELSE "main"
  BY <1>1, <1>4, <1>5, <1>6, <1>7 DEF InFun, InTheMain
<1>9. items = IF cc.block = "fun" THEN src.fun ELSE src.main
  BY <1>1, <1>4, <1>8
<1>10. AcceptedItem(items, j, known)
  BY <1>1, <1>2, <1>4, <1>5, <1>6, Formed
<1>11. CASE Mismatch(cc, items[j])
  <2>1. phase' = "error" /\ cc' = cc
    BY <1>4, <1>5, <1>11 DEF CodeItem, Compile
  <2>2. ~AllInteger
    <3>1. AllInteger => items[j].x.t # "real" /\ items[j].y.t # "real"
      BY <1>4, <1>5 DEF AllInteger
    <3>. QED BY <1>2, <1>8, <1>10, <1>11, <3>1, NoMismatch
  <2>. QED BY <1>1, <1>2, <2>1, <2>2, SameTypes DEF IInv, Compiling, Loading
<1>12. CASE ~Mismatch(cc, items[j])
  <2>1. phase' = phase /\ cc' = [ItemCode(cc, items[j]) EXCEPT !.item = j + 1]
    BY <1>4, <1>5, <1>12 DEF CodeItem, Compile
  <2>7. PICK d : d = ItemCode(cc, items[j])
    OBVIOUS
  <2>8. /\ After(cc, d)
        /\ items[j].kind \in {"arith", "call"} => items[j].dest \in DOMAIN d.names
    <3>1. PICK c \in CC : c = cc
      BY <1>2
    <3>2. known \subseteq DOMAIN c.names /\ c.item = j /\ items = IF c.block = "fun" THEN src.fun ELSE src.main
      BY <1>5, <1>8, <1>9, <3>1
    <3>3. ~Mismatch(c, items[j]) /\ d = ItemCode(c, items[j])
      BY <1>12, <2>7, <3>1
    <3>5. items[j].dest \in AllNames
      BY <1>1, <1>4, <1>5 DEF AllNames, Results
    <3>4. /\ After(c, d)
          /\ items[j].kind \in {"arith", "call"} => items[j].dest \in DOMAIN d.names
      BY <1>3, <1>4, <1>5, <1>10, <3>2, <3>3, <3>5, ItemAfter
    <3>. QED BY <3>1, <3>4
  <2>9. d \in CC /\ d.block = cc.block /\ DOMAIN cc.names \subseteq DOMAIN d.names
    BY <2>8 DEF After
  <2>10. PICK e : e = cc'
    OBVIOUS
  <2>11. After(d, e) /\ e.names = d.names /\ e.item = j + 1
    <3>1. PICK n \in Int : n = j + 1
      OBVIOUS
    <3>2. e = [d EXCEPT !.item = n]
      BY <2>1, <2>7, <2>10, <3>1
    <3>. QED BY <2>9, <3>1, <3>2, Numbered
  <2>12. e \in CC /\ e.block = cc.block
    BY <2>9, <2>11 DEF After
  <2>13. Known(IF phase = "fun" THEN Declared ELSE InMain, items, j + 1) \subseteq DOMAIN e.names
    <3>1. PICK D : D = IF phase = "fun" THEN Declared ELSE InMain
      OBVIOUS
    <3>2. PICK N : N = DOMAIN e.names
      OBVIOUS
    <3>3. Known(D, items, j) \subseteq N
      BY <1>6, <1>8, <2>9, <2>11, <3>1, <3>2
    <3>4. items[j].kind \in {"arith", "call"} => items[j].dest \in N
      BY <2>8, <2>11, <3>2
    <3>5. Known(D, items, j + 1) \subseteq N
      BY <3>3, <3>4, KnownNext
    <3>. QED BY <3>1, <3>2, <3>5
  <2>14. CASE phase = "fun"
    <3>1. HasPrologue(cc) /\ cc.block = "fun"
      BY <1>7, <2>14 DEF InFun
    <3>2. HasPrologue(d)
      BY <1>2, <2>8, <3>1, PrologueStays
    <3>3. HasPrologue(e)
      BY <2>9, <2>11, <3>2, PrologueStays
    <3>4. j + 1 \in 1 .. Len(src.fun) + 1
      BY <1>3, <1>4, <1>5, <2>14
    <3>5. InFun(e)
      BY <1>4, <2>11, <2>12, <2>13, <2>14, <3>1, <3>3, <3>4 DEF InFun
    <3>6. InFun(cc)'
      BY <1>1, <2>10, <3>5 DEF InFun, Declared
    <3>. QED BY <1>1, <1>2, <2>1, <2>10, <2>12, <2>14, <3>6, SameTypes DEF IInv, Compiling, Loading
  <2>15. CASE phase # "fun"
    <3>1. phase = "main" /\ e.block = "main"
      BY <1>1, <1>8, <2>12, <2>15
    <3>2. j + 1 \in Nat
      OBVIOUS
    <3>3. InTheMain(e)
      BY <1>4, <2>11, <2>13, <2>15, <3>1, <3>2 DEF InTheMain
    <3>4. InTheMain(cc)'
      BY <1>1, <2>10, <3>3 DEF InTheMain, InMain, Declared
    <3>. QED BY <1>1, <1>2, <2>1, <2>10, <2>12, <3>1, <3>4, SameTypes DEF IInv, Compiling, Loading
  <2>. QED BY <2>14, <2>15
<1>. QED BY <1>11, <1>12

\* the end of the function,
LEMMA FunctionEndIInv == ASSUME IInv, FunctionEnd PROVE IInv'
<1>1. /\ src' = src /\ prog' = prog /\ phase' = "program" /\ phase = "fun"
      /\ cc' = FunctionEndCode(cc) /\ cc.item = Len(src.fun) + 1
  BY DEF FunctionEnd, Compile
<1>2. Accepted(src) /\ cc \in CC /\ prog = <<>> /\ InFun(cc)
  BY <1>1 DEF IInv, Compiling
<1>3. PICK e : e = cc'
  OBVIOUS
<1>4. e \in CC /\ e.names = cc.names
  <2>1. HasPrologue(cc) /\ e = FunctionEndCode(cc)
    BY <1>1, <1>2, <1>3 DEF InFun
  <2>. QED BY <1>2, <2>1, FunctionEndAfter
<1>5. AfterFun(e)
  BY <1>1, <1>2, <1>4 DEF InFun, AfterFun
<1>6. AfterFun(cc)'
  BY <1>1, <1>3, <1>5 DEF AfterFun, Declared
<1>. QED BY <1>1, <1>2, <1>3, <1>4, <1>6, SameTypes DEF IInv, Compiling, Loading

\* the header of the main block,
LEMMA MainHeaderIInv == ASSUME IInv, MainHeader PROVE IInv'
<1>1. /\ src' = src /\ prog' = prog /\ phase' = "main" /\ phase = "program"
      /\ cc' = [MainCode(cc) EXCEPT !.item = 1]
  BY DEF MainHeader, Compile
<1>2. Accepted(src) /\ cc \in CC /\ prog = <<>> /\ AfterFun(cc)
  BY <1>1 DEF IInv, Compiling
<1>3. PICK d : d = MainCode(cc)
  OBVIOUS
<1>4. d \in CC /\ d.block = "main" /\ DOMAIN cc.names \cup Elements(src.vars) \subseteq DOMAIN d.names
  BY <1>2, <1>3, MainAfter
<1>5. PICK e : e = cc'
  OBVIOUS
<1>6. After(d, e) /\ e.names = d.names /\ e.item = 1
  <2>1. PICK n \in Int : n = 1
    OBVIOUS
  <2>2. e = [d EXCEPT !.item = n]
    BY <1>1, <1>3, <1>5, <2>1
  <2>. QED BY <1>4, <2>1, <2>2, Numbered
<1>7. e \in CC /\ e.block = "main"
  BY <1>4, <1>6 DEF After
<1>8. Known(InMain, src.main, 1) \subseteq DOMAIN e.names
  BY <1>2, <1>4, <1>6, KnownFirst DEF AfterFun, InMain
<1>9. InTheMain(e)
  BY <1>6, <1>7, <1>8 DEF InTheMain
<1>10. InTheMain(cc)'
  BY <1>1, <1>5, <1>9 DEF InTheMain, InMain, Declared
<1>. QED BY <1>1, <1>2, <1>5, <1>7, <1>10, SameTypes DEF IInv, Compiling, Loading

\* its end,
LEMMA MainEndIInv == ASSUME IInv, MainEnd PROVE IInv'
<1>1. /\ src' = src /\ prog' = prog /\ phase' = "output" /\ phase = "main"
      /\ cc' = Emit(EmitLabel(cc, Tok("halt", 0)), "HALT", <<>>, <<>>, <<>>)
  BY DEF MainEnd, Compile
<1>2. Accepted(src) /\ cc \in CC /\ prog = <<>>
  BY <1>1 DEF IInv, Compiling
<1>3. cc' \in CC
  BY <1>1, <1>2, MainEndAfter
<1>. QED BY <1>1, <1>2, <1>3, SameTypes DEF IInv, Compiling, Loading

\* and writing the file.
LEMMA WriteFileIInv == ASSUME IInv, WriteFile PROVE IInv'
<1>1. /\ src' = src /\ prog' = prog /\ phase' = "load" /\ phase = "output"
      /\ \E code \in {Sized([n \in DOMAIN cc.code |-> Valued(cc.code[n])])} :
           /\ cc' = [cc EXCEPT !.code = code]
           /\ file' = FlattenSeq([l \in DOMAIN code |-> Written(code[l])])
  BY DEF WriteFile
<1>2. Accepted(src) /\ cc \in CC /\ prog = <<>>
  BY <1>1 DEF IInv, Compiling
<1>3. PICK code : /\ code = Sized([n \in DOMAIN cc.code |-> Valued(cc.code[n])])
                  /\ cc' = [cc EXCEPT !.code = code]
                  /\ file' = FlattenSeq([l \in DOMAIN code |-> Written(code[l])])
  BY <1>1
<1>4. PICK V : V = Numbers
  OBVIOUS
<1>5. code \in Seq(Loadable(V))
  BY <1>2, <1>3, <1>4, SizedLoads
<1>6. cc'.code = code
  <2>1. cc = [pool |-> cc.pool, usage |-> cc.usage, names |-> cc.names, code |-> cc.code,
              saved |-> cc.saved, block |-> cc.block, item |-> cc.item]
    BY <1>2, Unfolded
  <2>. QED BY <1>3, <2>1
<1>7. Symbols \subseteq TokenOf(V)
  BY <1>4 DEF Symbols, TokenOf, Numbers
<1>8. PICK P : P = {}
  OBVIOUS
<1>9. Len(code) \in Nat /\ DOMAIN code = 1 .. Len(code)
  BY <1>5
<1>10. prog' = <<>> /\ Len(prog') = 0 /\ prog' \in Seq(P)
  BY <1>1, <1>2, None
<1>11. Loads(code, prog', V, P)
  BY <1>5, <1>7, <1>9, <1>10 DEF Loads
<1>12. file' = FlattenSeq(Lines(code, 0))
  <2>1. [l \in DOMAIN code |-> Written(code[l])] = Lines(code, 0)
    BY <1>9 DEF Lines
  <2>. QED BY <1>3, <2>1
<1>13. file' = FlattenSeq(Lines(cc'.code, Len(prog')))
  BY <1>6, <1>10, <1>12
<1>14. \E W, Q : Loads(cc'.code, prog', W, Q)
  BY <1>6, <1>11
<1>. QED BY <1>1, <1>2, <1>13, <1>14 DEF IInv, Compiling, Loading

\* What is left of the file: its next line and what comes behind.
LEMMA NextLineOfFile ==
  ASSUME NEW V, Symbols \subseteq TokenOf(V), NEW code \in Seq(Loadable(V)), NEW n \in Nat,
         n < Len(code)
  PROVE  /\ FlattenSeq(Lines(code, n + 1)) \in Seq(Words(V))
         /\ FlattenSeq(Lines(code, n)) = Written(code[n + 1]) \o FlattenSeq(Lines(code, n + 1))
         /\ Written(code[n + 1]) \in Seq(Words(V)) /\ code[n + 1] \in Loadable(V)
<1>1. PICK N \in Nat \ {0} : N = Len(code) - n /\ Len(code) \in Nat
  <2>1. Len(code) \in Nat
    OBVIOUS
  <2>2. Len(code) - n \in Nat \ {0}
    BY <2>1
  <2>. QED BY <2>1, <2>2
<1>2. PICK T : T = Words(V)
  OBVIOUS
<1>3. \A l \in 1 .. N : n + l \in 1 .. Len(code)
  BY <1>1
<1>4. ASSUME NEW l \in 1 .. N PROVE Written(code[n + l]) \in Seq(T) /\ code[n + l] \in Loadable(V)
  <2>1. PICK k \in 1 .. Len(code) : k = n + l
    BY <1>3
  <2>2. code[k] \in Loadable(V)
    BY ElementOfSeq
  <2>. QED BY <1>2, <2>1, <2>2, WrittenType
<1>5. PICK seqs : seqs = Lines(code, n)
  OBVIOUS
<1>6. seqs = [l \in 1 .. N |-> Written(code[n + l])]
  BY <1>1, <1>5 DEF Lines
<1>7. Len(seqs) = N
  BY <1>6
<1>8. Parts(T, seqs, N)
  BY <1>4, <1>6, <1>7 DEF Parts
<1>9. PICK t : t = Lines(code, n + 1)
  OBVIOUS
<1>10. PICK M \in Nat : M = N - 1 /\ M = Len(code) - (n + 1)
  <2>1. N - 1 \in Nat /\ N - 1 = Len(code) - (n + 1)
    BY <1>1
  <2>. QED BY <2>1
<1>11. t = [l \in 1 .. M |-> Written(code[(n + 1) + l])]
  BY <1>9, <1>10 DEF Lines
<1>12. Len(t) = M /\ (M = 0 => t = <<>>)
  BY <1>11
<1>13. \A l \in 1 .. M : l + 1 \in 1 .. N /\ (n + 1) + l = n + (l + 1)
  BY <1>10
<1>14. \A l \in 1 .. M : t[l] = seqs[l + 1]
  BY <1>6, <1>11, <1>13
<1>15. FlattenSeq(seqs) = seqs[1] \o FlattenSeq(t)
  <2>1. Len(t) = N - 1 /\ (N = 1 => t = <<>>) /\ \A i \in 1 .. N - 1 : t[i] = seqs[i + 1]
    BY <1>10, <1>12, <1>14
  <2>. QED BY <1>8, <2>1, FlattenFirst
<1>16. Parts(T, t, M)
  <2>1. \A l \in 1 .. M : t[l] \in Seq(T)
    BY <1>4, <1>6, <1>13, <1>14
  <2>. QED BY <1>12, <2>1 DEF Parts
<1>17. FlattenSeq(t) \in Seq(T)
  BY <1>16, FlattenType
<1>18. 1 \in 1 .. N /\ seqs[1] = Written(code[n + 1])
  <2>1. 1 \in 1 .. N
    BY <1>1
  <2>. QED BY <1>6, <2>1
<1>. QED BY <1>2, <1>4, <1>5, <1>9, <1>15, <1>17, <1>18

\* Meant, by kinds of operands.
LEMMA MeantOperands ==
  ASSUME NEW V, NEW i \in Loadable(V), Symbols \subseteq TokenOf(V)
  PROVE  /\ DOMAIN Meant(i) = 1 .. Len(Given(i))
         /\ \A n \in DOMAIN Meant(i) : Meant(i)[n] = MeantArg(Shape(i.op)[n], Given(i)[n])
<1>1. PICK a \in Seq(Words(V)) : a = Given(i)
  BY WrittenType
<1>2. a = i.dest \o i.src0 \o i.src1
  BY <1>1 DEF Given
<1>3. DOMAIN a = 1 .. Len(a)
  OBVIOUS
<1>4. Meant(i) = [n \in DOMAIN a |-> MeantArg(Shape(i.op)[n], a[n])]
  BY <1>2 DEF Meant, MeantArg
<1>. QED BY <1>1, <1>3, <1>4

\* The steps of rx keep it: a line is loaded,
LEMMA LoadLineIInv == ASSUME IInv, LoadLine PROVE IInv'
<1>1. /\ src' = src /\ cc' = cc /\ phase = "load" /\ file # <<>>
      /\ prog' = Append(prog, ReadLine(file).inst) /\ file' = ReadLine(file).rest
      /\ phase' \in {"overrun", "rejected", "load"}
  BY DEF LoadLine
<1>2. Accepted(src) /\ file = FlattenSeq(Lines(cc.code, Len(prog)))
  BY <1>1 DEF IInv
<1>3. PICK V, P : Loads(cc.code, prog, V, P)
  BY <1>1 DEF IInv, Loading
<1>4. PICK code \in Seq(Loadable(V)) : code = cc.code
  BY <1>3 DEF Loads
<1>5. PICK n \in Nat : n = Len(prog) /\ n <= Len(code)
  BY <1>3, <1>4 DEF Loads
<1>6. Symbols \subseteq TokenOf(V) /\ prog \in Seq(P) /\ \A l \in 1 .. n : Matches(prog[l], code[l])
  BY <1>3, <1>4, <1>5 DEF Loads
<1>7. n < Len(code)
  <2>1. SUFFICES ASSUME n = Len(code) PROVE FALSE
    BY <1>5
  <2>2. Lines(code, n) = <<>>
    BY <2>1 DEF Lines
  <2>3. FlattenSeq(<<>>) = <<>>
    BY FlattenChosen
  <2>. QED BY <1>1, <1>2, <1>4, <1>5, <2>2, <2>3
<1>8. PICK rest \in Seq(Words(V)) : rest = FlattenSeq(Lines(code, n + 1))
  BY <1>6, <1>7, NextLineOfFile
<1>9. PICK i \in Loadable(V) : i = code[n + 1]
  BY <1>6, <1>7, NextLineOfFile
<1>10. file = Written(i) \o rest
  BY <1>2, <1>4, <1>5, <1>6, <1>7, <1>8, <1>9, NextLineOfFile
<1>11. PICK read : read = ReadLine(file)
  OBVIOUS
<1>12. /\ read.rest = rest /\ read.inst.op = i.op
       /\ \A k \in 1 .. Len(Given(i)) :
            <<read.inst.a1, read.inst.a2, read.inst.a3>>[k] = MeantArg(Shape(i.op)[k], Given(i)[k])
  BY <1>6, <1>10, <1>11, ReadsLine
<1>13. Matches(read.inst, i)
  BY <1>6, <1>12, MeantOperands DEF Matches
<1>14. PICK Q : Q = P \cup {read.inst}
  OBVIOUS
<1>15. PICK p : p = prog'
  OBVIOUS
<1>16. prog \in Seq(Q)
  <2>1. P \subseteq Q
    BY <1>14
  <2>. QED BY <1>6, <2>1, SeqMonotonic
<1>17. /\ p \in Seq(Q) /\ Len(p) = n + 1 /\ p[n + 1] = read.inst
       /\ \A l \in 1 .. n : p[l] = prog[l]
  <2>1. p = Append(prog, read.inst) /\ read.inst \in Q
    BY <1>1, <1>11, <1>14, <1>15
  <2>. QED BY <1>5, <1>16, <2>1
<1>18. n + 1 <= Len(code)
  <2>1. Len(code) \in Nat
    OBVIOUS
  <2>. QED BY <1>7, <2>1
<1>19. ASSUME NEW l \in 1 .. n + 1 PROVE Matches(p[l], code[l])
  <2>1. l \in 1 .. n \/ l = n + 1
    OBVIOUS
  <2>. QED BY <1>6, <1>9, <1>13, <1>17, <2>1
<1>20. Loads(code, p, V, Q)
  BY <1>6, <1>17, <1>18, <1>19 DEF Loads
<1>21. \E W, R : Loads(cc'.code, prog', W, R)
  BY <1>1, <1>4, <1>15, <1>20
<1>22. file' = FlattenSeq(Lines(cc'.code, Len(prog')))
  BY <1>1, <1>4, <1>8, <1>11, <1>12, <1>15, <1>17
<1>23. phase' \notin Compiling \cup {"run"} /\ phase' \in Loading
  BY <1>1 DEF Compiling, Loading
<1>24. Accepted(src)'
  BY <1>1, <1>2
<1>. QED BY <1>21, <1>22, <1>23, <1>24 DEF IInv, Compiling

\* the file is at its end, so everything is loaded,
LEMMA StartIInv == ASSUME IInv, Start PROVE IInv'
<1>1. /\ src' = src /\ cc' = cc /\ prog' = prog /\ phase = "load" /\ file = <<>> /\ phase' = "run"
  BY DEF Start
<1>2. Accepted(src) /\ file = FlattenSeq(Lines(cc.code, Len(prog)))
  BY <1>1 DEF IInv
<1>3. PICK V, P : Loads(cc.code, prog, V, P)
  BY <1>1 DEF IInv, Loading
<1>4. PICK code \in Seq(Loadable(V)) : code = cc.code
  BY <1>3 DEF Loads
<1>5. PICK n \in Nat : n = Len(prog) /\ n <= Len(code)
  BY <1>3, <1>4 DEF Loads
<1>6. Symbols \subseteq TokenOf(V)
  BY <1>3 DEF Loads
<1>7. n = Len(code)
  <2>1. SUFFICES ASSUME n < Len(code) PROVE FALSE
    <3>1. Len(code) \in Nat
      OBVIOUS
    <3>. QED BY <1>5, <3>1
  <2>2. PICK rest \in Seq(Words(V)) : rest = FlattenSeq(Lines(code, n + 1))
    BY <1>6, <2>1, NextLineOfFile
  <2>3. PICK i \in Loadable(V) : i = code[n + 1]
    BY <1>6, <2>1, NextLineOfFile
  <2>4. <<>> = Written(i) \o rest
    BY <1>1, <1>2, <1>4, <1>5, <1>6, <2>1, <2>2, <2>3, NextLineOfFile
  <2>5. PICK a \in Seq(Words(V)), x \in Words(V) :
          a = Given(i) /\ Written(i) = <<x>> \o a /\ Written(i) \in Seq(Words(V))
    BY <1>6, WrittenType
  <2>6. Written(i) # <<>>
    BY <2>5, Leads
  <2>7. PICK w \in Seq(Words(V)) : w = Written(i)
    BY <2>5
  <2>8. Len(w \o rest) = Len(w) + Len(rest) /\ Len(w) \in Nat /\ Len(rest) \in Nat
    BY ConcatProperties
  <2>9. Len(w) # 0
    BY <2>6, <2>7, EmptySeq
  <2>10. w \o rest = <<>> /\ Len(<<>>) = 0
    BY <2>4, <2>7
  <2>. QED BY <2>8, <2>9, <2>10
<1>. QED BY <1>1, <1>2, <1>3, <1>4, <1>5, <1>7 DEF IInv, Compiling, Loading

\* and running changes nothing of it.
LEMMA RestIInv ==
  ASSUME IInv, UNCHANGED <<src, phase, cc, file, prog>>
  PROVE  IInv'
<1>1. CC' = CC /\ AllInteger' = AllInteger
  BY SameTypes
<1>2. Declared' = Declared /\ InMain' = InMain
  BY DEF InMain, Declared
<1>3. InFun(cc)' = InFun(cc) /\ AfterFun(cc)' = AfterFun(cc) /\ InTheMain(cc)' = InTheMain(cc)
  BY <1>2 DEF InFun, AfterFun, InTheMain
<1>. QED BY <1>1, <1>3 DEF IInv

\* FileMeansCode holds in every state of every run.
THEOREM FileMeansCodeHolds == Spec => []FileMeansCode
<1>1. ASSUME IInv, [Next]_vars PROVE IInv'
  <2>1. CASE FunctionHeader
    BY <1>1, <2>1, HeaderIInv
  <2>2. CASE CodeItem
    BY <1>1, <2>2, CodeItemIInv
  <2>3. CASE FunctionEnd
    BY <1>1, <2>3, FunctionEndIInv
  <2>4. CASE MainHeader
    BY <1>1, <2>4, MainHeaderIInv
  <2>5. CASE MainEnd
    BY <1>1, <2>5, MainEndIInv
  <2>6. CASE WriteFile
    BY <1>1, <2>6, WriteFileIInv
  <2>7. CASE LoadLine
    BY <1>1, <2>7, LoadLineIInv
  <2>8. CASE Start
    BY <1>1, <2>8, StartIInv
  <2>9. CASE Execute
    BY <1>1, <2>9, RestIInv DEF Execute
  <2>10. CASE Finished \/ UNCHANGED vars
    BY <1>1, <2>10, RestIInv DEF Finished, vars
  <2>. QED BY <1>1, <2>1, <2>2, <2>3, <2>4, <2>5, <2>6, <2>7, <2>8, <2>9, <2>10 DEF Next
<1>2. IInv => FileMeansCode
  <2>. SUFFICES ASSUME IInv PROVE FileMeansCode
    OBVIOUS
  <2>1. CASE phase \in Compiling
    <3>1. prog = <<>> /\ phase # "run"
      BY <2>1 DEF IInv, Compiling
    <3>2. DOMAIN prog = {}
      BY <3>1
    <3>. QED BY <3>1, <3>2 DEF FileMeansCode
  <2>2. CASE phase \in Loading
    <3>1. PICK V, P : Loads(cc.code, prog, V, P)
      BY <2>2 DEF IInv
    <3>2. phase = "run" => Len(prog) = Len(cc.code)
      BY DEF IInv
    <3>3. DOMAIN prog = 1 .. Len(prog) /\ \A l \in 1 .. Len(prog) : Matches(prog[l], cc.code[l])
      BY <3>1 DEF Loads
    <3>. QED BY <3>2, <3>3 DEF FileMeansCode, Matches
  <2>. QED BY <2>1, <2>2 DEF IInv
<1>. QED BY <1>1, <1>2, InitIInv, PTL DEF Spec

=============================================================================

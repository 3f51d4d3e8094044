----------------------------- MODULE CodeBlock -----------------------------
\* The emitted code of rcc: class CCodeBlock (code.cc) together with the label
\* symbols its instructions point to (class CSymbol, symbol.cc).
\*
\* A block is a record
\*   code : the instruction list m_codeDB;
\*   next : one entry per label symbol, in the order newLabel() created them:
\*          the label its m_next points to after Patch(), or 0 for NULL;
\*   ok   : FALSE as soon as a call met a BUG_IF or dereferenced NULL.
\* Operands are abstracted to the label a jump or a LABEL pseudo-instruction
\* carries; "id" ties an instruction to the piece of source it was emitted for.
EXTENDS Naturals, Sequences

JumpOps == {"UJUMP", "BREQZ", "BNEQZ"}
DataOps == {"OP", "CMP", "CMPN", "COPYI", "LOADI", "SAVE", "RESTORE"}
LinkOps == {"JLINK", "RETRN", "HALT"}

Inst(op, l, id) == [op |-> op, label |-> l, id |-> id]

Instruction == [op : JumpOps \cup DataOps \cup LinkOps \cup {"LABEL"},
                label : Nat, id : Nat]

Block == [code : Seq(Instruction), next : Seq(Nat), ok : BOOLEAN]

EmptyBlock == [code |-> <<>>, next |-> <<>>, ok |-> TRUE]

\* ---- emitting -------------------------------------------------------------

Emit(b, i) == [b EXCEPT !.code = Append(@, i)]

\* newLabel(): the label the next call creates, and the call.
\* Mutant: labelIndex is incremented only by every other call.
FreshLabelRepeated(b) == (Len(b.next) + 2) \div 2
FreshLabel(b) == Len(b.next) + 1
\* Mutant: m_next is not initialised.
NewLabelDangling(b) == [b EXCEPT !.next = Append(@, 0 - 1)]
NewLabel(b) == [b EXCEPT !.next = Append(@, 0)]

Label(b, l) == Emit(b, Inst("LABEL", l, 0))
Ujump(b, l) == Emit(b, Inst("UJUMP", l, 0))

\* newLabel() followed by emit.label(): the body of marker m1.
Mark(b) == Label(NewLabel(b), FreshLabel(b))

\* newLabel() followed by emit.ujump(): the body of marker m5.
JumpFresh(b) == Ujump(NewLabel(b), FreshLabel(b))

\* ---- backpatching ---------------------------------------------------------

\* What Patch() and the virtual calls around it demand of CBPList::Backpatch:
\* the list exists (calling through NULL crashes), the target exists, and no
\* label of the list has been patched before ("write once value").  A label
\* patched to itself would make Last() recurse for ever.
CanPatch(b, L, t) ==
  /\ L # {}
  /\ t # 0 /\ t \notin L
  /\ \A l \in L : b.next[l] = 0

\* CBPList::Backpatch: AddNext() hangs the target behind every label of the
\* list; the target's own m_next is overwritten by the (NULL) m_next of the
\* label.
Backpatch(b, L, t) ==
  [code |-> b.code,
   next |-> [l \in DOMAIN b.next |->
               IF l \in L THEN t
               ELSE IF l = t THEN 0
               ELSE b.next[l]],
   ok   |-> b.ok /\ CanPatch(b, L, t)]

\* if (list != NULL) list->Backpatch(target)
\* Mutant: the condition is the wrong way round.
BackpatchIfNone(b, L, t) == b
BackpatchIfAny(b, L, t) == IF L = {} THEN b ELSE Backpatch(b, L, t)

\* ---- splicing -------------------------------------------------------------

\* CCodeBlock::Splice: insert before the first instruction whose first operand
\* is the marker.  The caller's marker is always a label.
SpliceAt(b, marker) ==
  {i \in DOMAIN b.code : b.code[i].op \in {"LABEL", "UJUMP"} /\ b.code[i].label = marker}

Splice(b, marker, sub) ==
  IF SpliceAt(b, marker) = {}
  THEN [b EXCEPT !.ok = FALSE]
  ELSE LET at == CHOOSE i \in SpliceAt(b, marker) :
                   \A j \in SpliceAt(b, marker) : i <= j
       IN  [b EXCEPT !.code = SubSeq(@, 1, at - 1) \o sub \o SubSeq(@, at, Len(@))]

\* ---- what the block defines and refers to ---------------------------------

Labels(b) == 1 .. Len(b.next)

Defined(b) == {b.code[i].label : i \in {j \in DOMAIN b.code : b.code[j].op = "LABEL"}}

Targets(b) == {b.code[i].label : i \in {j \in DOMAIN b.code : b.code[j].op \in JumpOps}}

\* CSymbol::Last() finds an emitted label from l: l itself, or the label it
\* was patched to, which ends the chain.
Resolves(b, l) ==
  \E t \in Defined(b) : b.next[t] = 0 /\ (t = l \/ b.next[l] = t)

=============================================================================

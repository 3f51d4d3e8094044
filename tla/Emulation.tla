------------------------------ MODULE Emulation ------------------------------
\* Compile a program with ControlFlow, then run the emitted instructions the
\* way the emulator does (execute_line and run_program of rxemu/rx.c).  Data is
\* abstracted, so a comparison may go either way.
EXTENDS ControlFlow, Events, FiniteSets

VARIABLES
  pc,       \* current_line of the emulator; 0 before the run and after HALT
  cmp,      \* the register the last comparison was stored in
  lr,       \* IREG[0], the link register
  frames,   \* link registers saved in memory by prologues
  depth,    \* calls in progress: a history variable, no instruction reads it
  event     \* what happened last

runVars == <<pc, cmp, lr, frames, depth, event>>
emuVars == <<vars, runVars>>

\* ---- the output -----------------------------------------------------------------

\* CCodeBlock::Disp skips instructions of size 0, the LABELs: the positions of
\* the instructions it prints, up to position p.
Lines(p) == {i \in 1 .. p : emit.code[i].op # "LABEL"}
LineCount == Cardinality(Lines(Len(emit.code)))

\* The instruction on line n of the output.
Line(n) == emit.code[CHOOSE p \in Lines(Len(emit.code)) : Cardinality(Lines(p)) = n]

\* CSymbol::Last: the end of the chain of patched labels.
Last[l \in Labels(emit)] == IF emit.next[l] = 0 THEN l ELSE Last[emit.next[l]]

\* main() calls CalcLabelAddress(1).  Mutants: the address of the instruction
\* before, and of the one after.
StartAddressLow == 0
StartAddressHigh == 2
StartAddress == 1

\* CalcLabelAddress: the instructions in front of the label are counted.
Address(l) ==
  LET at == CHOOSE p \in DOMAIN emit.code :
              emit.code[p].op = "LABEL" /\ emit.code[p].label = Last[l]
  IN  StartAddress + Cardinality(Lines(at))

\* The value of "@function": JLINK goes to the second instruction.
FunctionAddress == 2

\* ---- running ----------------------------------------------------------------------

Running == status = "done" /\ pc \in 1 .. LineCount

\* load_program and the start of run_program.
Load ==
  /\ status = "done" /\ event = NoEvent
  /\ event' = Ready
  /\ pc' = 1
  /\ UNCHANGED <<vars, cmp, lr, frames, depth>>

IOp(i) ==
  /\ i.op = "OP"
  /\ event' = OpEvent(i.id)
  /\ pc' = pc + 1
  /\ UNCHANGED <<cmp, lr, frames, depth>>

\* SEQUI, SNEQI, SLETI, SGRTI: 1 or 0 in the register.  CMPN is emitted for a
\* relation the machine does not have and computes its negation.
ICompare(i) ==
  /\ i.op \in {"CMP", "CMPN"}
  /\ \E outcome \in BOOLEAN :
       /\ event' = TestEvent(i.id, outcome)
       /\ cmp' = IF outcome = (i.op = "CMP") THEN 1 ELSE 0
  /\ pc' = pc + 1
  /\ UNCHANGED <<lr, frames, depth>>

\* COPYI and LOADI of initialisation and arguments.
IMove(i) ==
  /\ i.op \in {"COPYI", "LOADI"}
  /\ pc' = pc + 1
  /\ UNCHANGED <<cmp, lr, frames, depth, event>>

\* The stores of the prologue and the loads of the epilogue, of which only the
\* link register matters; id 1 says that it is among the saved registers.
ISave(i) ==
  /\ i.op = "SAVE"
  /\ frames' = IF i.id = 1 THEN Append(frames, lr) ELSE frames
  /\ pc' = pc + 1
  /\ UNCHANGED <<cmp, lr, depth, event>>

\* Mutant: the epilogue does not pop.
IRestorePeeks(i) ==
  /\ i.op = "RESTORE"
  /\ IF i.id = 1 THEN lr' = frames[Len(frames)] ELSE UNCHANGED lr
  /\ pc' = pc + 1
  /\ UNCHANGED <<cmp, frames, depth, event>>

IRestore(i) ==
  /\ i.op = "RESTORE"
  /\ IF i.id = 1
     THEN lr' = frames[Len(frames)] /\ frames' = SubSeq(frames, 1, Len(frames) - 1)
     ELSE UNCHANGED <<lr, frames>>
  /\ pc' = pc + 1
  /\ UNCHANGED <<cmp, depth, event>>

IJump(i) ==
  /\ i.op \in JumpOps
  /\ pc' = IF \/ i.op = "UJUMP"
              \/ i.op = "BREQZ" /\ cmp = 0
              \/ i.op = "BNEQZ" /\ cmp # 0
           THEN Address(i.label) ELSE pc + 1
  /\ UNCHANGED <<cmp, lr, frames, depth, event>>

IJlink(i) ==
  /\ i.op = "JLINK"
  /\ event' = CallEvent(i.id)
  /\ lr' = pc + 1 /\ pc' = FunctionAddress
  /\ depth' = depth + 1
  /\ UNCHANGED <<cmp, frames>>

IRetrn(i) ==
  /\ i.op = "RETRN"
  /\ event' = ReturnEvent
  /\ pc' = lr
  /\ depth' = depth - 1
  /\ UNCHANGED <<cmp, lr, frames>>

IHalt(i) ==
  /\ i.op = "HALT"
  /\ event' = HaltEvent
  /\ pc' = 0
  /\ UNCHANGED <<cmp, lr, frames, depth>>

\* execute_line
Instruct(i) ==
  \/ IOp(i) \/ ICompare(i) \/ IMove(i) \/ ISave(i) \/ IRestore(i)
  \/ IJump(i) \/ IJlink(i) \/ IRetrn(i) \/ IHalt(i)

ExecuteLine ==
  /\ Running
  /\ \E i \in {Line(pc)} : Instruct(i)
  /\ UNCHANGED vars

EmuInit ==
  /\ Init
  /\ pc = 0 /\ cmp = 0 /\ lr = 0 /\ frames = <<>> /\ depth = 0 /\ event = NoEvent

EmuNext ==
  \/ Next /\ UNCHANGED runVars
  \/ Load
  \/ ExecuteLine

EmuSpec == EmuInit /\ [][EmuNext]_emuVars

\* ---- properties -------------------------------------------------------------------

\* The link register and the program counter stay inside the program: the
\* emulator would take any other line number for a normal end.
RunTypeOK ==
  /\ pc \in 0 .. LineCount
  /\ cmp \in {0, 1}
  /\ lr \in 0 .. LineCount
  /\ frames \in Seq(1 .. LineCount)
  /\ depth \in Nat

\* An instruction at which something visible happens.
AtEvent == Running /\ Line(pc).op \in {"OP", "CMP", "CMPN", "JLINK", "RETRN", "HALT"}

\* A function that calls saves one link register for every call in progress
\* and a leaf function none; the prologue that was spliced in after the body
\* was parsed and the epilogue keep them balanced on every path.
SavesLR == \E p \in DOMAIN emit.code : emit.code[p].op = "SAVE" /\ emit.code[p].id = 1
FramesMatchCalls ==
  AtEvent /\ Line(pc).op # "RETRN" => Len(frames) = IF SavesLR THEN depth ELSE 0

\* A run never ends but by HALT, neither by jumping out of the program nor by
\* running past its last line.
EndsByHalt ==
  status = "done" /\ event # NoEvent /\ ~Running => event = HaltEvent

=============================================================================

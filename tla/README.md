# rcc and rxemu in TLA+

`rcc` compiles a small Pascal-like language in one pass to the assembly of the
RX machine; `rxemu` loads that assembly and executes it.  The compiler is a
bison/flex parser whose semantic actions emit code, create and backpatch labels,
allocate registers and propagate constants while the text is being read.
Nothing runs concurrently and nothing is persisted.  What is hard is the order
of things: a jump is emitted long before its target is known, the prologue of
the function is known only after its body, a value is known only until the next
jump or label, and dozens of grammar rules hand lists of unpatched labels to
each other through bison's stack.

Paths are relative to the repository (`src/` is its `src` directory).

## 1. Inventory

| component | state it keeps | operations | correct when | modelled by |
|---|---|---|---|---|
| scanner (`input_scanner.lex`) | flex buffers, comment state | next token, `eat_up_comments`, identifiers cut to 9 characters | tokens are what the text says | `Scanner`, `Toolchain` |
| parser and control-flow translation (`input_parser.y`, `semantic_rules.cc`) | bison's stack of `%union` values; `stmt_has_nextlist`; `currentFunc` | one reduction per grammar rule, markers m1, m2, m4, m5, m6 | every jump gets exactly one target, and the one the source means | `ControlFlow`, `Structured`, `Execute`; what it lets through: `Items` |
| emitted code (`code.cc`) | `m_codeDB` | typed emit functions, `Splice`, `CalcLabelAddress`, `Disp` | addresses in the output are those of the instructions | `CodeBlock`, `Emulation`, `Calls` |
| label symbols (`symbol.cc`, `backpatch.cc`) | `m_next` chains, lists of labels | `newLabel`, `Patch`, `Last`, `Merge`, `Backpatch` | a label is patched at most once; the chain ends in an emitted label | `CodeBlock` |
| linked list (`linked_list.cc`) | `m_next`, `m_prev` of every node; an iterator's node | `AddNext`, `AddPrev`, `Remove`, destructor, `TopDown`, `BottomUp` | the pointers are lists; an iteration sees its list | `LinkedList`, `Lists` |
| constant propagation (`arithOp`, `assnOp`, `StopConstPropagation`, `CSymbol::SetValue`, `calc.cc`) | `m_valueStatus`, `m_value`, `constPropagationPending` | fold, remember, forget | a folded value is the value the program would compute | `ConstProp` |
| register allocation (`storage.cc`) | `m_allocTable` of the pools and of the scope's usage mirror | `Acquire`, `Mirror`, `Release`, iteration | no sharing; the prologue saves what the function writes | `RegAlloc`, `Registers`, `Calls` |
| scope and names (`symbol.h`) | one global name table | add, look up, errors | a name means the declaration the programmer sees | `Toolchain` |
| calling convention (`code.cc`, `semantic_rules.cc`) | LR, FP, SP, stack memory | prologue, epilogue, `jlink`, `retrn`, arguments, return value | a call comes back and changes nothing of its caller | `Calls`, `Convention`, `Unwinding`, `Activations` |
| driver (`main.cc`, `utils.cc`) | options, exit code, output file | `main` | the output is written only for programs without errors | `Toolchain` |
| emulator (`rxemu/rx.c`) | program lines, register files, memory, `current_line` | `load_program`, `execute_line`, `run_program` | executes the file the compiler wrote | `Emulation`, `Loader`, `Machine`, `Calls`, `Toolchain` |

How they interact: the parser calls the scanner for tokens and the semantic
rules on reductions; the rules call the emitter and the symbol classes; symbols
take registers from the pools; the emitter tells the constant propagation about
jumps and labels, and queries values for typed instructions.  `main` runs the
parser, then `CalcLabelAddress`, then writes the block.  The emulator sees only
that file.

Hard behaviours, which are the `hazards` of `PROJECT.json`: lists handed between
rules and consumed once (merged, patched, dropped); a global flag that must
agree with a list several reductions away; unchecked calls through lists that
may be `NULL`; code spliced in after the code that follows it; the hard-wired
address 2 of the function; known values that become stale; text arithmetic cut
at the first non-digit; released registers that are reused; one operand order in
the compiler's memory and another in its file; a return address, a frame pointer
and saved registers that caller and callee must move in step; limits of tables
that are checked off by one or not at all; an output file truncated before the
input is read, or shared with the debug text.

## 2. Modules

| module | models | state |
|---|---|---|
| `CodeBlock` | `CCodeBlock`, label symbols, backpatching, splicing: operators on a block record | `code`, `next`, `ok` |
| `ControlFlow` | the LALR parser and every semantic action that touches labels and jumps | `emit`, `stack`, `stmt_has_nextlist`, `noElse`, `func`, `lrTouched`, `size`, `status` |
| `Structured` | abstract: what the source program does, without jumps | `program`, `k`, `event` |
| `Events` | what can be seen of a run: operations, tests, calls, returns, the end | - |
| `Emulation` | `ControlFlow`, then the output and the emulator's loop on it | `pc`, `cmp`, `lr`, `frames`, `depth`, `event` |
| `Execute` | `Emulation` next to the parse trees of the source; refines `Structured` | `trees`, `program`, `k` |
| `ConstProp` | constant propagation | `status`, `value`, `pending`, `exp`, `mem`, `ideal`, `kept`, `sums` |
| `RegAlloc` | `CRegAlloc`: operators on allocation tables | - |
| `Registers` | the INTEGER pool and its mirror, over `RegAlloc` | `table`, `usage`, `held`, `touched`, `saved` |
| `Values`, `Items` | numbers and tokens; source programs as items, one per reduction that computes; which programs the parser accepts | - |
| `Loader` | an instruction as `rcc` writes it and as `load_program` reads it | - |
| `Machine` | `execute_line`: registers, memories, output, next line | a machine record |
| `Calls` | code generation for a function and its caller (over `RegAlloc`), the file (over `Loader`), the run (over `Machine`) | `src`, `phase`, `cc`, `file`, `prog`, `m`, `line` |
| `Activations` | abstract: calls as a stack of activations with variables of their own | `stack`, `result`, `out` |
| `Convention` | where in a call the machine is, by the line, and what FP and SP hold there | - |
| `Unwinding` | the activations read off the machine: `Calls` refines `Activations` | - |
| `Scanner` | words, comments, the cut of names | - |
| `Toolchain` | `rcc` and `rx` at a prompt, over `Calls` and `Scanner`: options, files, parser, scope, exit status | `written`, `fs`, `cmd`, `given`, `exit`, `rcc` |
| `LinkedList` | `LinkedListNode` and its iterators | `alive`, `next`, `prev`, `it` |
| `Lists` | abstract: what the nodes promise | `lists` |
| `ControlFlowProofs`, `EmulationProofs`, `CallsProofs`, `ConventionProofs`, `ToolchainProofs`, `ConstPropProofs`, `RegistersProofs`, `LinkedListProofs` | theorems | - |
| `MC*` | tokens, programs, texts, commands, nodes for TLC | - |

Composition, from the bottom: `Values` <- `Items`, `Loader` <- `Machine`;
`Calls` = `RegAlloc` + `Machine` + `Items`; `Convention` is over `Calls`, and
`Unwinding` = `Convention` with `INSTANCE Activations`; `Toolchain` = `Calls` + `Scanner`.  `ControlFlow` =
`CodeBlock` + the parser; `Emulation` = `ControlFlow` + `Events`; `Execute` =
`Emulation` + `Structured`.  Two cuts run through the compiler:
`ControlFlow`/`Emulation`/`Execute` have all of the control flow and no data; `Calls` has types, registers, memory and calls, and of control flow only what
a function needs (`IF`, `RETURN`, the call), with each label already at its place.

### ControlFlow and CodeBlock

`stack` is bison's stack: a grammar symbol and the value `%union` holds for it.
A list of labels is the set of its members (`{}` is `NULL`), because `Merge` and
`Backpatch` do not depend on order.  A marker carries its place in the grammar
(`m1.then`, `m5.for`, ...), which is what bison's LR state knows and what makes
the parser deterministic here.  `noElse` stands for the one place where the
lookahead matters: after `IF .. THEN stmt` was reduced because no `ELSE`
followed, the enclosing `IF` cannot take one without another token.

There is no input variable.  Shifting a token is choosing one, so the
behaviours of `Spec` are the parses of all programs of at most `MaxSize`
construct tokens.  Tokens that only separate (`THEN`, `;`, parentheses of `FOR`)
are part of the action that reduces the marker behind them.  Types, names and
values do not influence which labels and jumps are emitted; an expression keeps
only whether it calls the function.  Errors of names, types and syntax are
`CompileError`, possible at every moment.

A block's `ok` becomes FALSE where the code has a `BUG_IF` or would call through
`NULL`; the action then sets `status` to "bug".

### Structured, Emulation and Execute

`Structured` unfolds the parse tree: `k` is what is left to do, and a step is an
operation, a test with either outcome, a call, a return or the end.  `Emulation`
runs the emitted code: LABELs have size 0, `Address` is `CalcLabelAddress(1)`, `Last`
follows `m_next`, `JLINK` goes to `FunctionAddress` = 2.  Outcomes of comparisons
are nondeterministic; `BREQZ`/`BNEQZ` read the register of the comparison, so a
swapped branch or an uninverted comparison shows as a wrong test outcome.  LR is
saved by the prologue only if `lrTouched`.  `depth` counts the calls in progress; it is
a history variable that no instruction reads.

`Execute` carries next to this the parse trees of the stack entries and, while the
program runs, what `Structured` has left to do; a run stops when more than `MaxDepth`
calls are in progress.  An event `Structured` does not allow leaves `Wrong` to be
done, which no step of `Structured` can leave.  `ImplementsSource` also says that
`depth` is the number of calls the source has open.  Every step of `Execute` is a
step of `Emulation` or leaves its variables alone, so what is proved of `EmuSpec`
holds of the runs of `RunSpec`.  The two are modules of their own because
`Structured` is recursive, and nothing can be proved in a module that reaches it.

### ConstProp

The order of semantic actions inside a basic block is the order of execution, so
one state machine carries both the compiler's knowledge (`status`, `value`,
`pending`) and two memories: `mem`, what the emitted code stores, and `ideal`,
what the source says.  `exp` is the place of the expression being reduced.
Numbers are counted in halves.

The value of a symbol is a text, and three things can go wrong with it.  `calc()` keeps
the leading digits of `bc`'s answer, so a fraction is cut off (`CutAnswer`) and of a
negative number nothing is left (`NoDigits`).  Such a text is an operand of the next sum,
where `bc` takes a minus sign behind it for one of its own and answers nothing to the
rest (`Answered`); then `calc()` looks at a buffer that has not been set, and any digits may be in it
(`Unset`).  `SetValue` appends ".0" to what it stores in a real variable, also to an
empty text (`Converted`).

`kept` and `sums` are history variables: whether the program has so far stored no
unknown value in a known variable, and has named and read integers and applied + only.

### Registers

`table` and `usage` are the allocation tables as the code has them (`RegAlloc`)
(-1 reserved, 0 vacant, n references).  `NewSymbol` is `newSymbol` and a
`newTemp` that is kept; `ScratchTemp` is a `newTemp` released by the function
that made it.  `touched` is a history variable: the registers the function has acquired, and
LR if it calls, for comparison with what the prologue saves.  The code
writes no other register; one that was acquired for a variable nothing is assigned to is saved in vain.

### Calls, Loader, Machine

`cc` is the compiler while it translates: a pool and a usage mirror per type, the
register of every name, the code, and the registers the prologue saves.  The
input is a sequence of items: what `input_parser.y` reduces, operands first, each
result in a temporary of its own.  One item is one action (`CodeItem`), from the
semantic rule down to every instruction it emits: conversions, scratch
registers acquired and released, pushes and pops.  `FunctionHeader`,
`FunctionEnd`, `MainHeader`, `MainEnd` are the rules around the blocks;
`FunctionEndCode` builds the prologue in a block of its own and splices it in
front of the body.  `WriteFile` gives labels their addresses and writes each
instruction in the order of `operator<<` (destination first); `LoadLine` is one
turn of the loop of `load_program` with its operand readers, which see tokens and
not instructions; `Execute` is one turn of `run_program`.  An instruction carries
the item it was emitted for, which only the refinement mapping looks at.

`ProgramsAssumption` says of the programs what the parser has checked when it
hands over an item (`Accepted` in `Items`): an identifier is in the symbol table
(`Get` throws otherwise) with a type; the result of an expression is used
behind the expression; an `IF` has its end; only the function returns.

Real numbers are counted in halves.  The precision of `float` and the width of
`int` are not modelled: the numbers of the runs are small.

### Activations, Convention and Unwinding

`Activations` is what the source means: a call has variables of its own, its
arguments are those of the caller, its value goes back to the caller; a variable that
was not assigned has any value; a function that falls off its end returns any
value.  It has no registers, no memory, no addresses.  `Unwinding` reads the
activations off the machine.  FP points to the frame: the caller's FP is at
-1, the return value at 0, the arguments at 1 and 2, and from 3 on the registers the
prologue saved, so a variable of a caller is found in the cell where its callee
saved the register, or in the register when the callee does not touch it, up the
chain to the main block.  The return address of an activation is LR, as saved by
the activation itself.  The lines within a call sequence, a prologue or an
epilogue map to stutters.

### Scanner and Toolchain

A text is a sequence of words and of the characters `/` and `*`, so `/**` or
`**/` are texts that `eat_up_comments` has to take apart, and `*` and `/` are also
operators of the language.  The grammar is cut down to a function with at least one
parameter, declarations, `write` and `return` of variables and products.  What carries
no choice is left out of the text: punctuation, types (all are INTEGER).  A name has
its characters, because the scanner cuts it.  Every token is a step of the parser with the
errors that can arise at it: a name declared twice or not at all, a word out of
place, an end of file inside a comment.  When the parser has come to its end the
actions of `Calls` generate the code.  In the program that happens
while parsing; nothing outside the compiler can tell, because the output file is
truncated before and written after.  The `return` in the main block is
found when the block ends, as in the code.

A command opens and truncates its files first (`RccStarts`), which matters
when the output is the input.  The last `-dbg` counts, and one that cannot be
opened is ignored (`DebugFile`).  The debug text and the code are kept in the buffers of two
streams and go to their files when the program ends, the text first (`utils.cc`
70-74; `RccEnds`).  Where both are the same file, as in `rcc -dbg p.rsk p`, the code
covers the text, whose end may show behind it, and a compilation that fails leaves the
text.  Of the text the model has the two words that are written when parsing starts and
the one when it is complete: in front of the first no opcode can stand, and that is all
a later command on such a file can see.  Streams write earlier when their buffer is full, so
outputs of several kilobytes can mix in other ways: not modelled.  `rx` loads files of instructions, those `rcc` wrote and
those written by hand; what happens when lines are executed is in `Calls`.  `rx`
returns a variable it has set only if lines ran: its exit status is otherwise
any (`AnyStatus`).  Line numbers start at
1 and are not compared with the size of the arrays: the `AsmSize`-th line leaves them, if its opcode
is known, and that ends the model in a phase of its own (`overrun`).  Of a word that is no opcode nothing
is stored; it ends the loading like any other error.

The texts are a constant, `Sources`: what is written, with the tokens and comments that are
meant and their places.  `SourcesAssumption` (`AsMeant`) says that these are what the
text is: a token stands where its place is, a comment runs from its `/*` to the first `*/`
behind it, and behind each of them is the next one or what is no token (an unknown
character, a comment that never ends, the end).  Nothing is assumed of the order of the words or of the
names, so any damage is allowed.  A hand-written file is given as lines: a line starts
with a word that is no operand, opcode or not, and goes on up to the next opcode (`IsLine`).

### LinkedList and Lists

`next` and `prev` are the pointers, `it` an iterator with the nodes it has returned.
The commented-out `BUG_IF`s of `linked_list.cc` ask that a node that is added
belongs to no list; the model asks the same of the caller, and that the
nodes an iterator has still to visit stay where they are.  `CSymbol::Patch` uses
`AddNext` in another way, with one target behind several labels: that use is in
`CodeBlock`.

## 3. Runs

| run | bounds | shows |
|---|---|---|
| `compile_all` | all constructs, 6 construct tokens | no `BUG_IF` fires; every jump resolves; labels are unique; open lists are disjoint; no jump is lost while parsing; no fall-through after a condition or a statement with a nextlist; a patched label keeps its target |
| `run_conditions` | AND, OR, NOT, () in IF and WHILE, 8 tokens | compiled conditions implement short-circuit evaluation, with NOT, AND and OR over compound conditions in parentheses |
| `run_functions` | function, calls, recursion, RETURN, IF, inverse relations, NOT, AND, OR, 7 tokens, at most 2 calls deep | calls return to their callers; one LR per call in progress; inverted comparisons |
| `run_loops` | IF, FOR, WHILE, 8 tokens, so that each occurs as first statement, update and body of FOR | compiled loops implement the source; a run ends only by HALT; it never spins without an event |
| `constprop` | two variables, one real, + and -, 1, 2, 3 and 2.5, overwriting, 7 semantic actions | a known text is of its variable's type, will be forgotten, and is forgotten at the end of the basic block; as long as a program adds integers and keeps what is known, what is known is what is stored and folding keeps its meaning |
| `constprop_stale` | integer sums, `FoldingIsRight` without the condition | finding 1 |
| `constprop_calc` | sums with a real literal, the same | finding 2 |
| `registers` | 7 registers, 3 reserved, 6 symbols | no sharing, reserved registers stay reserved, the prologue saves every register the function may write |
| `calls` | 4 programs, inputs 0 to 3, 16 registers | rx loads what rcc meant; machine code implements activations; SP balances; every run comes to HALT |
| `toolchain` | texts with comments, damage, name clashes; hand-written files; 2 commands; names cut to 2 characters, 8 registers, 50 lines | rcc leaves complete code or none; comments vanish and nothing else; names that agree where it counts are one register; rx runs a well-formed file as written and rejects others at the right line |
| `rx_lines` | the hand-written files of about `AsmSize` = 50 lines | finding 3 |
| `linkedlist` | 4 nodes, one iterator, symmetry | neighbours agree after any operations; an iteration visits its list; pointers implement lists |

Why the bounds are enough.  A statement needs one token, a loop three to four
(the keyword, the condition, the body and for FOR its two statements), a block
one more; with 6 tokens every construct occurs inside a block next to another
statement, which is where nextlists, m6 and `enforce_valid_nextlist` meet, and
with 8 tokens (`run_loops`) every control statement occurs inside every other, and in each
of the three places of a FOR, where its nextlist is patched to a different mark.  In
conditions 8 tokens (`run_conditions`) are what NOT and AND need in front of a parenthesis
with an OR in it, whose two lists have been merged before; a longer
condition repeats these merges.  Every property of
`compile_all` is a theorem for every size.  Two calls in progress are enough
to overwrite LR and to need a stack of saved ones.  Six actions let a variable
be set, read, set again and reach a block boundary; seven let a result without digits
be stored and used again before it.  Seven registers are one
short of six symbols and three reserved ones plus scratch, so the pool runs out.

The four programs of `calls` have between them: recursion up to three deep with a
base case, a temporary live across a call, two calls in one expression, a call whose
argument is the result of another, both types as argument and as
return value with and without casts, a leaf function (LR not saved) and one that is
none, a path without a `return`, nested and inverse conditions, and an error of
types.  Inputs 0 to 3 take every branch.  `NREGS` is `RegFileSize + 1` in `calls` and
`toolchain` as it is 1000 and 999 in the code; in `toolchain` it is so small that
programs need the last register, and one more than there are.

In `toolchain` comments hold up to three pieces, so up to three stars in front of
the closing slash, slashes and words of the language; a comment stands at five kinds
of places; an unknown character or an open comment stands in front of every token;
the text is cut off behind every token and every token is left out once.  Names of up to
three characters over a limit of two give names that are equal, that agree up
to the limit, and that do not.  Hand-written files have up to two lines of every operand
kind with every error (-1, -1.5, a register out of bounds, a missing operand, one
too many), and between `AsmSize - 2` and `AsmSize + 1` lines.  Two commands are enough for
one to meet the files of another; among them are a debug file that is the output, that
is read by the next command, and that cannot be opened.  Four nodes are two more than an operation's neighbours need
to tell a middle from an end; the proof does not depend on their number.

`CHECK_DEADLOCK FALSE` is in the `constprop` configurations only: a program ends
after `MaxSteps` semantic actions.  Elsewhere a finished process stutters
explicitly (`Finished`, `Stopped`, `LoggedOut`).

Fairness: `RunSpec` of `Execute` assumes `WF(LoadTree \/ Execute)` and `Spec` of `Calls`
assumes `WF(Execute)`: once a program has been loaded, `run_program` loops over
`execute_line` until HALT, and nothing else runs.  The compiler and the prompt are not
assumed to be fair: they wait for input.

### Findings

1. `constprop_stale`: `assnOp` and `CCodeBlock::read` never forget a known value, so
   in one basic block `x = 1; read(x); y = x + 1;` is folded to 2.
2. `constprop_calc`: `calc()` cuts the answer of `bc` at the first character that
   is not a digit: `1 + 2.5` becomes the integer 3.  Likewise
   `1 - 2` becomes a constant without a number.
3. `rx_lines`: `AsmSize` is the "Limit on number of lines" (`rx.c:4`, and 1000 in
   `doc/RX.DOC`), but lines are stored at 1 to `AsmSize` in arrays of that size and never
   counted: a program of `AsmSize` lines overruns them.

Other oddities are stated inside properties that hold:
`RunsWhatIsWritten` says that -1 (and a real that truncates to it) is refused as an operand;
`CompilesTheLegal` that register number `RegFileSize`, one more than the "Number of registers"
(`rx.c:6`), is handed out by `rcc` and taken by `rx`, as is any larger one, which `get_reg` reports and returns;
`Legal` says that a function's variables are known in the main block;
`CompleteOrNothing` says that a failed compilation has destroyed the output of the one before.

## 4. Proofs

TLC decides small instances; the theorems hold for every value of the constants.

`ControlFlowProofs!TypeCorrect`: `Spec => [](TypeOK /\ M2Skips(stack))`.
`TypeOK` alone is not inductive: `Function` emits `CHOOSE l \in m2.dest : TRUE`,
which is a label only if marker m2 has a skip label; `M2Skips` says so.  The
proof has one lemma per operator of `CodeBlock` (each maps blocks to blocks),
one for what a reduction does to the stack, and one per group of actions.

`ConstPropProofs`: `TypeCorrect`; `AllKnownArePending` (inductive as it stands,
given types); `BlocksStartUnknown`, the action property that follows from it;
`KnownValuesAreStored`, from `StoreInv`, which adds that a place that is a
variable or a known constant in `exp` agrees with `mem`; and `SumsFoldRight`, from
`FoldInv`, which adds that `run` and `should` of `exp` are equal.  The last two
are conditional on the history of the program, `kept` and, in the last one, `sums`: without these
conditions the runs of findings 1 and 2 refute the property.

In `ControlFlowProofs` too: no jump is ever lost, for programs of every size.  The four
invariants `NoInternalBug`, `JumpsResolved`, `NoJumpLost` and `OpenListsDisjoint`
and the action property `PatchIsWriteOnce` all follow from one inductive
invariant, `BackpatchInv`.  None of the five is inductive alone: that `Patch()`
meets no patched label depends on what every value below on the stack promises,
and those promises on what was emitted and patched before.  `BackpatchInv` says:

- `Sound(emit, OpenLabels(stack))`: the labels in the lists on the stack are
  neither emitted nor patched; a label of any other jump is emitted, or patched to
  an emitted label that ends the chain;
- `WellFormed`, per symbol: a condition has two non-empty disjoint lists, m2 and m5
  have exactly one label, a marker's label is emitted, tokens have no lists;
- the lists of different entries are disjoint; m2 and function are at the bottom of
  the stack (so nothing is left open below the body of the program or of the
  function);
- `stmt_has_nextlist` agrees with the nextlist `m6` will patch, and an `m6` behind a
  nextlist has a label (the flag is a static variable that the rules only keep in
  step with the stack: this is where a dropped assignment would break the chain).

The proof has one `...Sound` lemma per operation of the emitter (what it does to
the set of open labels, and that it only adds: `After`), lemmas for pushing and
popping, `Advance`, which every rule goes through, and one `Kept...` lemma per
rule or small group of rules.  `Backpatched` puts them together.  Of a
finished program it also says `Sound(emit, {})`: no label waits any more, which is
what the run starts from.  The theorems
assume of the constants only that `MaxSize` is a number.

The same module proves `LabelsUnique`, in every program no label is emitted twice, and `NoFallThrough`.
The first rests on `Unique(emit)`: every label symbol of the code has been created, and it is
emitted at most once. Each operation of the emitter keeps this (one lemma each). A rule emits a
label it has just created, with one exception: the label that skips the function is created by
`m2` and emitted by `function`; that it has not been emitted in between is what `BackpatchInv`
says of a label that waits. The second is inductive relative to the other two invariants: a
control statement ends in the jump its last statement left, or `enforce_valid_nextlist()` emits
one, and the rules that only pass a value on emit nothing.

`RegistersProofs`: all four invariants of `Registers`, from `IInv` = `TypeOK`,
`ReservedKept`, `Counted` (the pool's counts are those of the symbols that hold
registers) and `Marked` (while the function is translated, the usage mirror has a positive count for exactly the
registers written).  `DistinctRegisters` follows from `Counted`; `WalkedAll` says
that the loop by which `function_prologue` visits the table meets exactly the
registers in use, which is what `PrologueSavesTouched` needs.

`EmulationProofs`: `RunTypeOK`, `EndsByHalt` and `FramesMatchCalls`.  Whatever was compiled
and however long it runs, the emulator stays inside the code until HALT, and the
return addresses of the calls in progress are where they have to be.  None of the three
is inductive: a jump stays inside only if its label does, and a `RETRN` finds its caller only
if nothing else comes to an epilogue.  `RunsInShape` proves them from two invariants.

- `LayoutInv`, of the compiler.  Labels are numbered in the order of their creation, and the
  body of the function and the program behind it use labels of different ages.
  While the program is parsed there has been no function (`Without`), its body is
  being emitted (`Inside`), or it is complete (`Behind`); in each case all labels
  emitted, jumped to, patched or waiting on the stack since then are above a
  bound L (`Body`, `AllAbove`), and those of a complete function are at most L
  (`Sealed`).  `Grown` says what an operation of the emitter adds, with a lemma each, and
  `Keeps...` does for the rules.  `function` is the rule that needs all of it: the prologue is spliced in
  behind the first jump, the epilogue and the skip label are emitted behind the body, and what
  was Inside becomes Sealed.  A finished program has a `Layout`.
- `RunInv`, of the emulator.  Positions of the code become lines of the file
  (`Upto` counts those up to a position); with `Sound` of `ControlFlowProofs`, whose labels
  all end in an emitted one, a jump of the function goes to lines of the function and a jump
  of the program to lines of the program (`Program(A)`, A the last line of the
  function).  `RunAt(A)` says what `frames`, `lr` and `depth` are at every line: no frame in
  the program; one return address per call in the body, the oldest into the
  program and the others into the function (`Stacked`); and in front of the
  prologue and behind the epilogue the youngest one in LR.  A function that never calls keeps its only one in
  LR, which is why `lrTouched` must be set whenever `JLINK` was emitted.

`LinkedListProofs`: `DoublyLinked`, `VisitsAll` and `ImplementsLists`, the refinement of
`Lists`.  The inductive invariant is `Lists /\ Iterating`: there is a set of sequences
such that every node is at one place of one of them and the pointers are those of its
neighbours there (`Form`), and what an iterator has returned, with what is ahead of
it, is the list it was started on.  That neighbours agree does not rule out rings, and in a
ring nothing that walks would end; `Form` does (`NoRings`).  `Walk` is a recursive function,
and what it finds is a `Chain` that is shown to exist and to be unique.  `Inserting` and
`Removing` say how sequences change when pointers do, `Found` that the sequences
are those that `First()` and the walk from it find; each operation is then a step of `Lists`.

`CallsProofs`: `FileMeansCode`.  Every line `load_program` has stored is the instruction
that `rcc` emitted, each operand in the role, register file and type it was meant in;
and when the machine starts all of them are there: no line is rejected half-way and
taken for the end.  The argument follows the code:

- The compiler's state has a type (`CC`), and the operands of every emitted
  instruction suit the kinds of operands its opcode is read with (`Suits`).
  `After(c, d)` says that d's code goes on where c's ended and no
  name is lost; there is a lemma per function of `code.cc` and `semantic_rules.cc`.
  Conversions are what makes an operand suit: without one, `Typed` would emit
  an integer register for a reader of real ones.  Of the source they need `ProgramsAssumption` only:
  `InFun` and `InTheMain` of `IInv` say that what is known by the item to come
  has a register.
- Pushes, pops, arguments and declarations are folds over sequences.  `Iterated` says that
  what one step keeps the fold keeps; every fold is shown to be an instance of it.
- `WriteFile` replaces labels by addresses and drops the LABELs; what it writes is `Loadable`.  That a
  label's address is a number is not needed here (`ControlFlowProofs` has it of the jumps).
- `ReadsLine`: reading the operands of a written line, with whatever lines behind it,
  takes exactly this line and gives the instruction back, although the
  destination is written first and stored last.
- `file` is what is written of the lines not loaded yet (`FlattenSeq(Lines(...))`), so an empty
  file means that all lines are loaded.

`ConventionProofs`: `BalancedStack`, for every program, every input and however deep it
recurs.  What it says of FP and SP depends on the old FPs and return addresses in memory
under the activation in progress, on what every line does to them, and on the compiler
having put out, in every function and at every call, as many stores, loads and steps of
FP and SP in front as behind.  The inductive invariant `StackInv` is `IInv` of `CallsProofs`
with two parts, `Compiles` and `Stacked`:

- `Compiles`, of the compiler: every instruction of the code leads from one *stage* of a
  call to the next (`Passes`): executing a block ("level"), FP "stored", FP "moved" to the callee, SP
  "pushed", called "back", "popped", and at the ends of the function LR "saved" or
  everything "bare".  A block is entered and left by jumps only where it is "level".
  `Standing` says that the code emitted so far has such stages, which labels still have
  to come and whether the prologue has been spliced in; each rule of `Calls` keeps it, the pushes,
  pops and arguments by going through their folds turn by turn.  That the function restores what it saved, with
  LR first, comes from the walk over the register tables (`TouchedOthers`), which is where
  the two loops of prologue and epilogue have to agree.
- `Laid`: what was written keeps the stages.  LABELs are lines no more, and a label has become the
  address of a line of the same block in stage "level".  It rests on `EndsIf` of `Accepted`: every
  `IF` of the program has its end.
- `Runs` says what a line does to LR, FP and SP and to the cells they point to.  It uses
  `FileMeansCode`, each loaded line being the instruction emitted; `Passes` has told that integers
  are stored through FP or SP only.
- `Active`, of the machine: the frames in progress are a set F of addresses.  The cell in front of
  a frame holds the FP of its caller: 0 under the first frame, else the frame that lies below, just as far
  as the saved registers take (`Chained`).  The first register saved in a frame is the line to
  return to, into the main block from the first frame and into the function from the others; a function that
  does not save LR has one frame and the line in LR (`Returning`).  What FP and SP are follows from the
  stage of the line (`Pointers`).  Every kind of step takes F, the stage and the line to where
  `Active` holds again: a call adds a frame, a return takes one off, and a store spares
  the cells of the chain (`Clear`).

The theorem assumes `RegFileSize > 2`: the machine has registers for LR, FP and SP (`rcc`
itself counts on `NREGS` = 1000).  A program whose recursion fills the memory reaches a line that is `Undefined`
and stops there in the model; the theorem is about the lines before.

`ToolchainProofs`: from a text to the files, with five properties and four
inductive invariants.  They assume of the constants what is said above of `Sources`, and
that the bound on the commands is a number.

- `ScannerIInv`: the position of the parser is a boundary between what has been read and the
  rest, and what has been read are the tokens before it (`TokensAreUncommentedHolds`).  That
  needs `EatIsPast`: the two nested loops of `eat_up_comments`, here a recursive function, come
  to a stop behind the first `*/` at or after the place where they start, or find the end of
  the file, however many stars there are.
- `ParserIInv`: what the parser has built so far is `ParserOK`, every name in it
  declared or a temporary that has been computed, and everything is INTEGER.  When the end
  is read this is `Accepted`, so `ParsedIsAcceptedHolds`: `ProgramsAssumption`,
  which the theorems on `Calls` rest on, is no assumption for a program that was parsed.  In the
  phases of code generation `ParserIInv` carries the invariant of `Calls` on.
- `FileIInv`: every file is a text or a sequence of instructions, the parser is in its text, and
  from the truncation in `RccStarts` until `Output` writes it as a whole the output file is
  empty, at every one of the steps that may fail; what is written ends in `HALT`.  When `rcc` ends,
  the debug text goes to its own file, or is covered by the code (`DebugWritten`, `Ends`).
  `CompleteOrNothingHolds` and `TypeCorrect` follow.
- `HandIInv`: `load_program` on a hand-written file has taken its first lines as written and what
  is left are the lines from the next one on (`InFront`), or it has taken the first line that
  is not well-formed without an error and is `Stuck` in front of a word that is no opcode.
  `ReadsHandLine` is one turn of the loop: a line that fits its opcode's operands is read as it is; of
  any other an operand is refused, or a word is left behind, the fraction of a
  real constant read as an integer (`ReadMisfits`), one word too many, or all of them.
  No operand reader takes what is left behind, nor anything of the line that follows (`Barred`),
  so the next turn ends the loop.  Hence the two numbers of lines in `RunsWhatIsWritten`.

Induction.  The library's induction theorems have an operator as parameter and cannot be
used here; where a proof is by induction over a number or a length it takes a
counterexample with the least one (`Smallest`, from the well-foundedness of the numbers).
Recursive functions of the community modules (`MapThenFoldSet`, `FlattenSeq`) are
`CHOOSE`n functions: the proofs first show that a function satisfies the equation.

Only model-checked:

- Whatever compares with `Structured`: `ImplementsSource` of `Execute`; it is recursive.
- `ImplementsActivations` of `Unwinding`.  `StackInv` has the frames; what is missing are the
  values in them: that a register the callee saved is the caller's variable when it is restored, and
  that each expression computes in registers what `Activations` computes.  `TypeOK` of `Unwinding` holds of the
  given programs only: one that divides by 0 or recurs until the memory is full comes to a line that
  is undefined.
- `CompilesTheLegal` and `SameNameSameRegister` of `Toolchain`: they compare the whole of a
  compilation with a definition of what is legal, over texts that TLC enumerates.
- Liveness (`AlwaysProgress`, `Terminates`), which is out of the prover's reach.

## 5. Not modelled, and why

- The unit tests, build files and documents have no behaviour of the program.
- Flex and bison: characters to words, the tables of the LALR automaton, error
  recovery (there is none).
- `ConstProp` has sums and differences of small numbers; `*` and `/` go through the same
  pipe to `bc` with the same cut.  The process `bc` and the temporary file are outside.
- `Calls` has the default options; `-const` and folding are in `ConstProp`.  In the
  grammar of `Toolchain` the option has no effect, since no constant occurs.
- The debug text but for the words named above, and outputs longer than the buffer of a
  stream; the backtrace of `CBugException` (exit status 3), which `NoInternalBug`
  shows not to be raised by the control-flow rules.
- `CRegAlloc::Acquire(addr)`, `RefCount` and nested scopes are reached by the unit test only;
  declarations in inner blocks go to the one scope there is (`NO_SYMBOL_SCOPING`) and are left out of `Toolchain`'s grammar.
- The width of `int`, the precision of `float`, memory exhaustion.

## 6. Plan

Done: the modules above and the theorems of section 4.  What is left, in this order.

Theorems: the steps of `ImplementsActivations` in which nothing is called, then, with `StackInv`,
the call and the return.

Models: constants in `Toolchain`'s
grammar, which makes `-const` visible and composes `ConstProp` with `Calls`;
loops in `Calls`, by taking labels from `CodeBlock` instead of placing them;
multiplication and division in `ConstProp`.

------------------------------- MODULE Execute -------------------------------
\* Run compiled programs with Emulation and compare every run with the
\* structured meaning of the source.
\*
\* "trees" records, next to the parser stack, the parse tree of every value on
\* it; "program" is the tree of the whole source.  "k" follows what Structured
\* says is left to do.
EXTENDS Emulation

CONSTANT MaxDepth    \* bound: calls in progress at one time

ASSUME DepthAssumption == MaxDepth \in Nat \ {0}

VARIABLES
  trees,    \* parse trees of the entries of "stack"
  program, k

allVars == <<emuVars, trees, program, k>>

Source == INSTANCE Structured

\* ---- compiling ----------------------------------------------------------------

Leaf(s, calls) == [sym |-> s, id |-> size, calls |-> calls, kids |-> <<>>]

\* The tree of a shifted entry is a leaf, that of a reduction has the trees of
\* the entries it pops as its children.
Grow(calls) ==
  LET old == Len(stack)
      new == Len(stack')
  IN  IF new > old
      THEN trees' = trees \o [i \in 1 .. new - old |-> Leaf(stack'[old + i].sym, calls)]
      ELSE IF stack' = <<>> THEN trees' = <<>>
      ELSE trees' = Append(SubSeq(trees, 1, new - 1),
                           [sym |-> stack'[new].sym, id |-> 0, calls |-> FALSE,
                            kids |-> SubSeq(trees, new, old)])

Compile ==
  /\ \/ Rule /\ Grow(FALSE)
     \/ \E e \in Exps : Operation(e) /\ Grow(e = "call")
  /\ UNCHANGED <<runVars, program, k>>

\* ---- running ----------------------------------------------------------------------

LoadTree ==
  /\ Load
  /\ program' = trees[1]
  /\ k' = <<Source!Do(trees[1].kids[3])>>
  /\ UNCHANGED trees

\* Left to do after an event the source does not allow: an operation that no
\* program has.
Wrong == Source!Do([sym |-> "assn", id |-> 0, calls |-> FALSE, kids |-> <<>>])

\* A line at which something visible happens takes the source one event further.
Execute ==
  /\ ExecuteLine /\ depth' <= MaxDepth
  /\ IF AtEvent
     THEN \E left \in {Source!After(k, event')} :
            k' = IF left = {} THEN <<Wrong>> ELSE CHOOSE s \in left : TRUE
     ELSE UNCHANGED k
  /\ UNCHANGED <<trees, program>>

\* The emulator has stopped, the compilation failed, or the bound on calls is
\* reached.
AtDepthBound == Running /\ Line(pc).op = "JLINK" /\ depth = MaxDepth
Stopped ==
  /\ \/ status \in {"error", "bug"}
     \/ status = "done" /\ event # NoEvent /\ ~Running
     \/ AtDepthBound
  /\ UNCHANGED allVars

RunInit == EmuInit /\ trees = <<>> /\ program = <<>> /\ k = <<>>

RunNext == Compile \/ LoadTree \/ Execute \/ Stopped

\* The emulator's loop keeps executing lines.
RunSpec == RunInit /\ [][RunNext]_allVars /\ WF_allVars(LoadTree \/ Execute)

\* ---- properties -------------------------------------------------------------------

\* The emitted code does what the source says: tests, operations, calls and
\* returns happen in the order of the structured program, whatever the
\* outcomes of the tests, and the program halts only where the source ends.
\* The calls the emulator has in progress are those the source has.
ImplementsSource == Source!Spec /\ [](depth = Source!Depth(k))

\* Backpatched jumps never form a loop that does nothing: a running program
\* always comes to an operation, a test, a call, a return or the end.
AlwaysProgress == [](Running => <>AtEvent)

=============================================================================

----------------------------- MODULE Structured -----------------------------
\* What a compiled program must do: the meaning of the structured source,
\* statement by statement, without labels or jumps.
\*
\* A program is a parse tree [sym, id, calls, kids] of the grammar of
\* input_parser.y.  Its run is a sequence of Events.  "k" is what is left to do,
\* a sequence of items.
EXTENDS Naturals, Sequences, Events

VARIABLES program, k, event

sVars == <<program, k, event>>

\* ---- items ------------------------------------------------------------------

Do(t) == [kind |-> "do", tree |-> t]
ForLoop(t) == [kind |-> "for", tree |-> t]
If(t, yes, no) == [kind |-> "if", tree |-> t, yes |-> yes, no |-> no]
Frame == [kind |-> "frame"]

\* Statements: what a statement stands for.
UnfoldDo(t) ==
  LET sub == t.kids IN
  CASE t.sym = "blk"  -> <<Do(sub[2])>>
    [] t.sym = "list" -> IF sub = <<>> THEN <<>> ELSE <<Do(sub[1]), Do(sub[3])>>
    [] t.sym = "stmt" -> <<Do(sub[1])>>
    [] t.sym = "cntrl" /\ sub[1].sym = "IF" ->
         <<If(sub[2], <<Do(sub[4])>>, IF Len(sub) = 7 THEN <<Do(sub[7])>> ELSE <<>>)>>
    [] t.sym = "cntrl" /\ sub[1].sym = "WHILE" -> <<If(sub[3], <<Do(sub[5]), Do(t)>>, <<>>)>>
    [] t.sym = "cntrl" /\ sub[1].sym = "FOR" -> <<Do(sub[2]), ForLoop(t)>>

UnfoldFor(i) ==
  LET sub == i.tree.kids IN If(sub[4], <<Do(sub[9]), Do(sub[6]), i>>, <<>>)

\* Conditions: OR, AND and NOT with short-circuit evaluation.
UnfoldIf(i) ==
  LET sub == i.tree.kids IN
  CASE Len(sub) = 1 -> If(sub[1], i.yes, i.no)
    [] sub[1].sym = "NOT" -> If(sub[2], i.no, i.yes)
    [] sub[1].sym = "LPAREN" -> If(sub[2], i.yes, i.no)
    [] i.tree.sym = "bexp" /\ Len(sub) = 3 -> If(sub[1], i.yes, <<If(sub[3], i.yes, i.no)>>)
    [] i.tree.sym = "bterm" /\ Len(sub) = 3 -> If(sub[1], <<If(sub[3], i.yes, i.no)>>, i.no)

IsLeaf(i) == i.kind = "frame" \/ (i.kind # "for" /\ i.tree.sym \in {"assn", "return", "bpfac"}
                                  /\ i.tree.kids = <<>>)

Unfold(s) ==
  LET i == Head(s) IN
  CASE i.kind = "do"  -> UnfoldDo(i.tree) \o Tail(s)
    [] i.kind = "for" -> <<UnfoldFor(i)>> \o Tail(s)
    [] i.kind = "if"  -> <<UnfoldIf(i)>> \o Tail(s)

\* Unfold the first item until it is a leaf.  (The one-element sets here and
\* in After make TLC evaluate the argument once.)
RECURSIVE Normal(_)
Normal(s) ==
  IF s = <<>> \/ IsLeaf(Head(s)) THEN s
  ELSE CHOOSE n \in {Normal(u) : u \in {Unfold(s)}} : TRUE

RECURSIVE ToFrame(_)
ToFrame(s) == IF s = <<>> \/ Head(s) = Frame THEN s ELSE ToFrame(Tail(s))

Depth(s) == Len(SelectSeq(s, LAMBDA i : i = Frame))

\* ---- events -----------------------------------------------------------------

Called(i) == [i EXCEPT !.tree.calls = FALSE]

\* What may be left to do after event e when n is what is left, unfolded:
\* empty when e may not happen now.
AfterNormal(n, e) ==
  IF n = <<>> THEN IF e = HaltEvent THEN {<<>>} ELSE {}
  ELSE LET i == Head(n) rest == Tail(n) IN
  CASE i = Frame -> IF e = ReturnEvent THEN {rest} ELSE {}
    [] i # Frame /\ i.tree.calls ->
         IF e = CallEvent(i.tree.id)
         THEN {<<Do(program.kids[1].kids[3]), Frame, Called(i)>> \o rest} ELSE {}
    [] i # Frame /\ ~i.tree.calls /\ i.kind = "if" ->
         CASE e = TestEvent(i.tree.id, TRUE) -> {i.yes \o rest}
           [] e = TestEvent(i.tree.id, FALSE) -> {i.no \o rest}
           [] OTHER -> {}
    [] i # Frame /\ ~i.tree.calls /\ i.kind = "do" ->
         IF e # OpEvent(i.tree.id) THEN {}
         ELSE IF i.tree.sym = "return" THEN {ToFrame(rest)} ELSE {rest}

After(s, e) == UNION {AfterNormal(n, e) : n \in {Normal(s)}}

\* ---- the specification --------------------------------------------------------

Halted == event = HaltEvent

\* Before the program is loaded there is nothing to do.
Init == program = <<>> /\ k = <<>> /\ event = NoEvent

Load ==
  /\ event = NoEvent
  /\ event' = Ready
  /\ k' = <<Do(program'.kids[3])>>

Step ==
  /\ event # NoEvent /\ ~Halted
  /\ k' \in After(k, event')
  /\ UNCHANGED program

Next == Load \/ Step

Spec == Init /\ [][Next]_sVars

=============================================================================

-------------------------------- MODULE Items --------------------------------
\* Source programs as the parser hands them to the semantic rules of
\* input_parser.y: one item per reduction that computes something, operands
\* first.  The result of an expression is a temporary with a name of its own.
\*
\* An operand is a token: a "name", an "int" or a "real".  A program is
\* [ret, params, locals, vars, types, fun, main]: the type of the function, its
\* arguments, the variables declared in it and in the main block, the type "I"
\* or "R" of every name, and the items of the two blocks.
EXTENDS Values

Name(n) == Tok("name", n)
IntLit(n) == Tok("int", n)
RealLit(halves) == Tok("real", halves)

Item(kind, op, dest, x, y) == [kind |-> kind, op |-> op, dest |-> dest, x |-> x, y |-> y]

AssnItem(v, x) == Item("assn", "", v, x, IntLit(0))
ArithItem(t, x, op, y) == Item("arith", op, t, x, y)
CallItem(t, x, y) == Item("call", "", t, x, y)
ReadItem(v) == Item("read", "", v, IntLit(0), IntLit(0))
WriteItem(x) == Item("write", "", "", x, IntLit(0))
ReturnItem(x) == Item("return", "", "", x, IntLit(0))
\* IF x op y THEN BEGIN ... END: the items up to the matching "fi".
IfItem(x, op, y) == Item("if", op, "", x, y)
FiItem == Item("fi", "", "", IntLit(0), IntLit(0))

TypeOf(src, x) ==
  CASE x.t = "name" -> src.types[x.v]
    [] x.t = "int" -> "I"
    [] x.t = "real" -> "R"

\* The names that have a value in front of item i of a block: its variables and
\* the temporaries of the items before.
Known(declared, items, i) ==
  declared \cup {items[j].dest : j \in {n \in 1 .. i - 1 : items[n].kind \in {"arith", "call"}}}

\* The "fi" of the "if" at i: the first one with as many "if" as "fi" in between.
EndsIf(items, i, j) ==
  /\ items[j].kind = "fi"
  /\ LET count(kind) == Len(SelectSeq(SubSeq(items, i + 1, j - 1), LAMBDA n : n.kind = kind))
     IN  count("if") = count("fi")
Matching(items, i) ==
  CHOOSE j \in i + 1 .. Len(items) :
    EndsIf(items, i, j) /\ \A n \in i + 1 .. j - 1 : ~EndsIf(items, i, n)

\* The first item at or after i that is not a "fi", or the end.
Skipping(items, i) ==
  CHOOSE j \in i .. Len(items) + 1 :
    /\ j \in DOMAIN items => items[j].kind # "fi"
    /\ \A n \in i .. j - 1 : items[n].kind = "fi"

\* What the parser lets through: a name is declared, or stands for the result of
\* an expression, before it is used, every "if" has its "fi", and only the function returns.
Usable(x, names) ==
  IF x.t = "name" THEN x.v \in names /\ x = Name(x.v) ELSE x \in [t : {"int", "real"}, v : Int]
AcceptedItem(items, j, names) ==
  LET i == items[j] IN
  /\ Usable(i.x, names) /\ Usable(i.y, names)
  /\ i.kind \in {"assn", "arith", "read", "write", "if", "fi", "call", "return"}
  /\ i.kind = "arith" => i.op \in {"+", "-", "*", "/"}
  /\ i.kind = "if" => /\ i.op \in {"==", "<>", "<", "<=", ">", ">="}
                     /\ \E k \in j + 1 .. Len(items) : EndsIf(items, j, k)
  /\ i.kind \in {"assn", "read"} => i.dest \in names
IsList(list) == list \in Seq({list[n] : n \in DOMAIN list})
Accepted(p) ==
  LET elements(list) == {list[n] : n \in DOMAIN list}
      declared == elements(p.params) \cup elements(p.locals)
      inMain == Known(declared, p.fun, Len(p.fun) + 1) \cup elements(p.vars)
  IN  /\ p.ret \in {"I", "R"} /\ Len(p.params) = 2
      /\ IsList(p.params) /\ IsList(p.locals) /\ IsList(p.vars) /\ IsList(p.fun) /\ IsList(p.main)
      /\ \A n \in declared \cup elements(p.vars) : p.types[n] \in {"I", "R"}
      /\ \A j \in DOMAIN p.fun : AcceptedItem(p.fun, j, Known(declared, p.fun, j))
      /\ \A j \in DOMAIN p.main : /\ AcceptedItem(p.main, j, Known(inMain, p.main, j))
                                 /\ p.main[j].kind # "return"

=============================================================================

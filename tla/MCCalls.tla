------------------------------- MODULE MCCalls -------------------------------
\* Model checking compiled calls: four functions and their main programs.
EXTENDS Unwinding

Program(ret, types, locals, mainVars, fun, main) ==
  [ret |-> ret, types |-> types, params |-> <<"a", "b">>, locals |-> locals, vars |-> mainVars,
   fun |-> fun, main |-> main]

\* Recursion: f(a, b) = b if a = 0, otherwise f(a - 1, a + b) * 2 - a.
Recursive ==
  Program("I", [n \in {"a", "b", "c", "x", "y"} \cup {"t1", "t2", "t3", "t4", "t5", "t6"} |-> "I"],
          <<"c">>, <<"x", "y">>,
          <<IfItem(Name("a"), "<=", IntLit(0)), ReturnItem(Name("b")), FiItem,
            ArithItem("t1", Name("a"), "-", IntLit(1)),
            ArithItem("t2", Name("a"), "+", Name("b")),
            CallItem("t3", Name("t1"), Name("t2")),
            ArithItem("t4", Name("t3"), "*", IntLit(2)),
            ArithItem("t5", Name("t4"), "-", Name("a")),
            AssnItem("c", Name("t5")), ReturnItem(Name("c"))>>,
          <<ReadItem("x"), CallItem("t6", Name("x"), IntLit(3)), AssnItem("y", Name("t6")),
            WriteItem(Name("y")), WriteItem(Name("x"))>>)

\* A leaf that casts: f(a, b) = a / b in REAL, called with INTEGERs and REALs, the
\* second call with the result of the first.
Casting ==
  Program("R", ("a" :> "R") @@ ("b" :> "R") @@ ("n" :> "I") @@ ("r" :> "R")
               @@ [t \in {"t1", "t2", "t3", "t4"} |-> "R"],
          <<>>, <<"n", "r">>,
          <<IfItem(Name("a"), ">=", RealLit(3)), ReturnItem(Name("a")), FiItem,
            ArithItem("t1", Name("a"), "/", RealLit(4)), ReturnItem(Name("t1"))>>,
          <<ReadItem("n"), ReadItem("r"),
            CallItem("t2", IntLit(2), Name("n")),
            CallItem("t3", Name("t2"), RealLit(1)),
            ArithItem("t4", Name("t3"), "+", Name("n")),
            AssnItem("r", Name("n")), WriteItem(Name("t4")), WriteItem(Name("r"))>>)

\* Not every path returns; the function calls itself twice, a temporary of the
\* first call being live in the second, and the result of a comparison reused.
FallingOff ==
  Program("I", ("a" :> "I") @@ ("b" :> "R") @@ ("x" :> "I")
               @@ [t \in {"t1", "t2", "t3", "t4", "t5", "t6"} |-> "I"],
          <<>>, <<"x">>,
          <<IfItem(Name("a"), ">", IntLit(0)), IfItem(Name("b"), "<", IntLit(2)),
            CallItem("t1", IntLit(0), RealLit(5)), CallItem("t2", IntLit(0), Name("a")),
            ArithItem("t3", Name("t1"), "+", Name("t2")), ReturnItem(Name("t3")), FiItem, FiItem,
            IfItem(Name("b"), "==", RealLit(5)), ReturnItem(IntLit(7)), FiItem,
            WriteItem(Name("b"))>>,
          <<ReadItem("x"), CallItem("t4", Name("x"), Name("x")),
            IfItem(Name("t4"), "<>", IntLit(0)), WriteItem(Name("x")), FiItem,
            CallItem("t5", IntLit(1), IntLit(1)), WriteItem(Name("t5")),
            ArithItem("t6", Name("t4"), "/", IntLit(2)), WriteItem(Name("t6"))>>)

\* REAL where the signature says INTEGER: no code.
Mismatching ==
  Program("I", ("a" :> "I") @@ ("b" :> "I") @@ ("t1" :> "I"), <<>>, <<>>,
          <<ReturnItem(IntLit(1))>>, <<CallItem("t1", RealLit(3), IntLit(1))>>)

FourPrograms == {Recursive, Casting, FallingOff, Mismatching}
=============================================================================

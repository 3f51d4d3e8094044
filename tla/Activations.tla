----------------------------- MODULE Activations -----------------------------
\* What a call means: a stack of activations, each with variables of its own,
\* and no registers, memory or addresses.  All values are in halves, so that a
\* cast from INTEGER to REAL changes nothing.
\*
\* An activation [code, pc, env, args, ret]: the block it executes, the item it
\* is at (0: not entered), the values of its names, the arguments until it has
\* been entered, and the return value.  "result" holds the value a call has
\* returned until its caller takes it.
EXTENDS Items

CONSTANT Inputs    \* the numbers a program may be given to read

VARIABLES
  src,      \* the program
  stack,    \* the activations, the running one first
  result,   \* <<>> or <<value>>
  out       \* the numbers printed, with their types

aVars == <<src, stack, result, out>>

Items(code) == IF code = "fun" THEN src.fun ELSE src.main
Declared(code) == IF code = "fun" THEN src.params \o src.locals ELSE src.vars
NamesAt(code, i) ==
  Known({Declared(code)[n] : n \in DOMAIN Declared(code)}, Items(code), i)

Top == Head(stack)
AtItem == src.main # <<>> /\ Top.pc \in DOMAIN Items(Top.code) /\ result = <<>>
Here == Items(Top.code)[Top.pc]

Value(x) == CASE x.t = "name" -> Top.env[x.v]
              [] x.t = "int" -> 2 * x.v
              [] x.t = "real" -> x.v

\* The running activation goes on at item i; every name known so far keeps its
\* value but v, which gets one of values.
GoesOn(i, v, values) ==
  /\ Tail(stack') = Tail(stack)
  /\ Head(stack') = [Top EXCEPT !.pc = Skipping(Items(Top.code), i), !.env = Head(stack').env]
  /\ DOMAIN Head(stack').env = NamesAt(Top.code, Head(stack').pc)
  /\ \A n \in DOMAIN Top.env :
       IF n = v THEN TRUE ELSE Head(stack').env[n] = Top.env[n]
  /\ v # "" => Head(stack').env[v] \in values

Silent == UNCHANGED <<src, out>>

\* ---- the items --------------------------------------------------------------------

\* A variable that was declared has any value; an argument has the caller's.
Enter ==
  /\ Top.pc = 0 /\ result = <<>>
  /\ Tail(stack') = Tail(stack)
  /\ Head(stack') = [Top EXCEPT !.pc = 1, !.args = <<>>, !.env = Head(stack').env]
  /\ DOMAIN Head(stack').env = NamesAt(Top.code, 1)
  /\ \A i \in DOMAIN Top.args : Head(stack').env[src.params[i]] = Top.args[i]
  /\ UNCHANGED result /\ Silent

Assign ==
  /\ AtItem /\ Here.kind = "assn"
  /\ GoesOn(Top.pc + 1, Here.dest, {Value(Here.x)})
  /\ UNCHANGED result /\ Silent

\* An operation on two INTEGERs is INTEGER and truncates.
Result(op, both, u, v) ==
  CASE op = "+" -> u + v
    [] op = "-" -> u - v
    [] op = "*" -> Quot(u * v, 2)
    [] op = "/" -> IF both THEN 2 * Quot(u, v) ELSE Quot(2 * u, v)

Compute ==
  /\ AtItem /\ Here.kind = "arith"
  /\ LET both == TypeOf(src, Here.x) = "I" /\ TypeOf(src, Here.y) = "I"
     IN  GoesOn(Top.pc + 1, Here.dest, {Result(Here.op, both, Value(Here.x), Value(Here.y))})
  /\ UNCHANGED result /\ Silent

Input ==
  /\ AtItem /\ Here.kind = "read"
  /\ GoesOn(Top.pc + 1, Here.dest, {2 * n : n \in Inputs})
  /\ UNCHANGED result /\ Silent

Output ==
  /\ AtItem /\ Here.kind = "write"
  /\ GoesOn(Top.pc + 1, "", {})
  /\ out' = Append(out, <<TypeOf(src, Here.x), Value(Here.x)>>)
  /\ UNCHANGED <<src, result>>

Related(op, u, v) ==
  CASE op = "==" -> u = v
    [] op = "<>" -> u # v
    [] op = "<" -> u < v
    [] op = "<=" -> u <= v
    [] op = ">" -> u > v
    [] op = ">=" -> u >= v

Test ==
  /\ AtItem /\ Here.kind = "if"
  /\ GoesOn(IF Related(Here.op, Value(Here.x), Value(Here.y)) THEN Top.pc + 1
            ELSE Matching(Items(Top.code), Top.pc), "", {})
  /\ UNCHANGED result /\ Silent

\* ---- calls ------------------------------------------------------------------------

Invoke ==
  /\ AtItem /\ Here.kind = "call"
  /\ Tail(stack') = stack
  /\ LET f == Head(stack')
     IN  f = [code |-> "fun", pc |-> 0, env |-> <<>>, ret |-> f.ret,
              args |-> <<Value(Here.x), Value(Here.y)>>]
  /\ UNCHANGED result /\ Silent

\* "Return instruction stores return value ... and proceeds to function epilogue."
Return ==
  /\ AtItem /\ Here.kind = "return"
  /\ LET end == Len(Items(Top.code)) + 1
     IN  /\ Tail(stack') = Tail(stack)
         /\ Head(stack') = [Top EXCEPT !.pc = end, !.ret = Value(Here.x),
                                       !.env = Head(stack').env]
  /\ UNCHANGED result /\ Silent

\* The end of the function, with or without a return statement.
Leave ==
  /\ Top.code = "fun" /\ Top.pc = Len(src.fun) + 1
  /\ stack' = Tail(stack) /\ result' = <<Top.ret>>
  /\ Silent

Receive ==
  /\ result # <<>>
  /\ LET call == Items(Top.code)[Top.pc]
     IN  GoesOn(Top.pc + 1, call.dest, {result[1]})
  /\ result' = <<>>
  /\ Silent

\* ---- the specification ----------------------------------------------------------------

MainBlock == [code |-> "main", pc |-> 0, env |-> <<>>, args |-> <<>>, ret |-> 0]

Init == stack = <<MainBlock>> /\ result = <<>> /\ out = <<>>

Next ==
  \/ Enter \/ Assign \/ Compute \/ Input \/ Output \/ Test
  \/ Invoke \/ Return \/ Leave \/ Receive

Spec == Init /\ [][Next]_aVars

=============================================================================

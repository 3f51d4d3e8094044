---------------------------- MODULE MCToolchain ----------------------------
\* Model checking rcc, rx and their files: programs with every kind of name clash,
\* comments at every place, texts that end too early, and files written by hand.
EXTENDS Toolchain

Block(params, locals, fun, mainVars, main) ==
  [params |-> params, locals |-> locals, fun |-> fun, vars |-> mainVars, main |-> main]

Write(x) == <<"write", x, ";">>
WriteProduct(x, op, y) == <<"write", x, op, y, ";">>
Return(x) == <<"return", x, ";">>

TokensOf(p) ==
  <<"function">> \o p.params \o p.locals \o <<"begin">> \o FlattenSeq(p.fun)
  \o <<"end", "program">> \o p.vars \o <<"begin">> \o FlattenSeq(p.main) \o <<"end">>

\* The text with an insertion in front of some tokens, and where the tokens are.
LaidWords(p, tokens, before, intact) ==
  LET text   == FlattenSeq([i \in DOMAIN tokens |-> before[i] \o <<tokens[i]>>])
      place(i) == Len(FlattenSeq([j \in 1 .. i |-> before[j] \o <<tokens[j]>>]))
  IN  p @@ [text |-> text, tokens |-> tokens, places |-> [i \in DOMAIN tokens |-> place(i)],
            comments |-> {<<place(i) - Len(before[i]), place(i) - 1>> :
                            i \in {j \in DOMAIN tokens : Len(before[j]) >= 4}},
            hand |-> <<>>, intact |-> intact, commands |-> {<<"rcc", "p">>}]
Laid(p, before, intact) == LaidWords(p, TokensOf(p), before, intact)
Nowhere(p) == [i \in DOMAIN TokensOf(p) |-> <<>>]
Plain(p) == Laid(p, Nowhere(p), TRUE)

\* ---- comments -------------------------------------------------------------------

Product == Block(<<"a", "b">>, <<>>, <<Return("a")>>, <<>>,
                 <<WriteProduct("a", "*", "b"), WriteProduct("b", "/", "a")>>)

\* The comments that end with what they hold and "*/", and not before.
Ends(body, i) == body[i] = "*" /\ body[i + 1] = "/"
Comments ==
  {<<"/", "*">> \o body \o <<"*", "/">> :
     body \in {b \in UNION {[1 .. n -> {"*", "/", "end"}] : n \in 0 .. 3} :
                 \A i \in 1 .. Len(b) - 1 : ~Ends(b, i)}}
Commented ==
  {Laid(Product, [Nowhere(Product) EXCEPT ![i] = c, ![17] = <<"/", "*", "end", "*", "/">>], TRUE) :
     i \in {1, 8, 12, 13, 15}, c \in Comments}

\* ---- texts that are not programs ------------------------------------------------

Damaged ==
  {Laid(Product, [Nowhere(Product) EXCEPT ![i] = d], FALSE) :
     i \in 1 .. Len(TokensOf(Product)), d \in {<<"?">>, <<"/", "*">>}}
CutOff ==
  {[Plain(Product) EXCEPT !.text = SubSeq(@, 1, n), !.tokens = SubSeq(@, 1, n),
                          !.places = SubSeq(@, 1, n), !.intact = FALSE] :
     n \in 0 .. Len(TokensOf(Product)) - 1}

OneWordLess ==
  {LaidWords(Product, RemoveAt(TokensOf(Product), i), Nowhere(Product), FALSE) :
     i \in 1 .. Len(TokensOf(Product))}

\* ---- names ------------------------------------------------------------------------

Named ==
  {Plain(Block(<<"a", p>>, l, <<Write(u), s>>, v, <<Write(x), Write("a"), t>>)) :
     p \in {"a", "b"}, l \in {<<>>, <<"abc">>}, u \in {"b", "ab", "abd"},
     s \in {Return("a"), Write("ab")}, v \in {<<>>, <<"abd">>, <<"ab">>, <<"acd", "xy">>},
     x \in {"abd", "ac", "b"}, t \in {Return("a"), WriteProduct("a", "*", "a")}}

\* ---- files written by hand ------------------------------------------------------------

I(n) == Tok("I", n)
R(n) == Tok("R", n)
Whole(n) == Tok("int", n)
Half(n) == Tok("real", n)
Line(op, args) == <<Tok(op, 0)>> \o args
HandLines ==
  {Line("COPYI", <<I(3), x>>) : x \in {Whole(4), Whole(-1), Whole(-2), Half(3), I(5), I(8), I(-1)}}
  \cup {Line("COPYR", <<R(3), x>>) : x \in {Whole(-1), Half(-3), Half(-1), R(8), I(3)}}
  \cup {Line("BREQZ", <<I(3), Whole(2)>>), Line("ADD2R", <<R(2), R(1), Whole(2)>>),
        Line("UJUMP", <<>>), Line("RETRN", <<>>), Line("HALT", <<Whole(0)>>), Line("STOP", <<>>)}
HandWritten ==
  {[Plain(Product) EXCEPT !.hand = h, !.commands = {<<"rx", "h">>}] :
     h \in UNION {[1 .. n -> HandLines] : n \in 0 .. 2}}
LongFiles ==
  {[Plain(Product) EXCEPT !.hand = [l \in 1 .. n |-> IF l = k THEN bad ELSE Line("RETRN", <<>>)],
                          !.commands = {<<"rx", "h">>}] :
     n \in AsmSize - 2 .. AsmSize + 1, k \in {0, AsmSize - 1, AsmSize},
     bad \in {Line("STOP", <<>>), Line("HALT", <<Whole(0)>>)}}

\* ---- commands ---------------------------------------------------------------------------

Commanded ==
  {[Plain(Product) EXCEPT !.hand = <<Line("RETRN", <<>>)>>, !.commands = c] :
     c \in {{<<"rcc", "p">>, <<"rcc", "p", "h">>, <<"rx", "p.rsk">>, <<"rx", "h">>, <<"rx">>},
           {<<"rcc", "-const", "p", "p">>, <<"rcc", "-const">>, <<"rcc", "p">>,
            <<"rcc", "h", "p.rsk">>},
           {<<"rcc", "p", "h", "p">>, <<"rcc", "-dbg", "-help", "p", "h">>, <<"rcc", "-help", "p">>,
            <<"rcc", "q">>},
           {<<"rcc", "-dbg", "p", "p">>, <<"rcc", "p", "disk">>, <<"rcc", "p">>,
            <<"rcc", "-dbg">>},
           {<<"rcc", "-dbg", "p.rsk", "p">>, <<"rx", "p.rsk">>, <<"rcc", "p.rsk", "h">>,
            <<"rcc", "-dbg", "p.rsk", "h">>},
           {<<"rcc", "-dbg", "h", "-dbg", "x", "p">>, <<"rcc", "-dbg", "disk", "p">>,
            <<"rcc", "-dbg", "h", "p">>, <<"rx", "h">>, <<"rcc", "h", "h.rsk">>}}}

AllSources ==
  Commented \cup Damaged \cup CutOff \cup OneWordLess \cup Named
  \cup HandWritten \cup LongFiles \cup Commanded
=============================================================================

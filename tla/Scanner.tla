------------------------------- MODULE Scanner -------------------------------
\* The scanner of rcc (input_scanner.lex): words and comments.
\*
\* A text is a sequence of pieces.  "/" and "*" are characters, next to each
\* other when they are neighbours in the text; every other piece is a word, with
\* the white space that separates it from the words around it.
EXTENDS Integers, Sequences, FiniteSets

CONSTANTS
  NameLimit,   \* "(arbitrarily) limit symbol name"
  Identifiers  \* the words that match {id} and no keyword

ASSUME NameLimitAssumption == NameLimit \in Nat \ {0}

Keywords == {"function", "program", "begin", "end", "write", "return", ";"}
MulOps == {"*", "/"}
Tokens == Keywords \cup MulOps \cup Identifiers

\* strndup(yytext, 9)
\* Mutant: the limit counts the terminating zero.
CutShort(name) == IF Len(name) < NameLimit THEN name ELSE SubSeq(name, 1, NameLimit - 1)
Cut(name) == IF Len(name) <= NameLimit THEN name ELSE SubSeq(name, 1, NameLimit)

Text(word) == IF word \in Identifiers THEN Cut(word) ELSE word

\* "/*" is the longer match.
Opens(text, i) == i < Len(text) /\ text[i] = "/" /\ text[i + 1] = "*"

First(S) == CHOOSE i \in S : \A j \in S : i <= j

\* eat_up_comments() from position i: past the comment, or 0 at the end of the
\* file.  It looks for a star, takes all that follow it, and is done if a slash
\* comes next.
\* Mutant: it takes one star.
EatOneStar(text) ==
  LET eat[i \in 1 .. Len(text) + 1] ==
        LET stars == {j \in i .. Len(text) : text[j] = "*"}
        IN  IF stars = {} \/ First(stars) = Len(text) THEN 0
            ELSE IF text[First(stars) + 1] = "/" THEN First(stars) + 2
            ELSE eat[First(stars) + 2]
  IN  eat
Eat(text) ==
  LET eat[i \in 1 .. Len(text) + 1] ==
        LET stars  == {j \in i .. Len(text) : text[j] = "*"}
            others == {j \in First(stars) .. Len(text) : text[j] # "*"}
        IN  IF stars = {} \/ others = {} THEN 0
            ELSE IF text[First(others)] = "/" THEN First(others) + 1
            ELSE eat[First(others) + 1]
  IN  eat

\* ---- what a comment is -----------------------------------------------------------

Closes(text, k) == k < Len(text) /\ text[k] = "*" /\ text[k + 1] = "/"

\* The comment that starts at i ends at j, with the first "*/" behind its "/*".
IsComment(text, i, j) ==
  /\ Opens(text, i) /\ j >= i + 3 /\ Closes(text, j - 1)
  /\ \A k \in i + 2 .. j - 2 : ~Closes(text, k)

NeverEnds(text, i) == Opens(text, i) /\ \A k \in i + 2 .. Len(text) : ~Closes(text, k)

=============================================================================

--------------------------- MODULE ToolchainProofs ---------------------------
\* What the two programs do, for every source, every file and every sequence of
\* commands: rcc's scanner takes comments out of a text and nothing else, its parser
\* accepts only programs the code generator can translate, it leaves a complete file or
\* an empty one, and rx runs a file as written or stops where it is not well-formed.
EXTENDS Toolchain, CallsProofs, FiniteSetTheorems

\* ---- comments -----------------------------------------------------------------------

\* The first of a set of natural numbers.
LEMMA FirstOf ==
  ASSUME NEW T, T \subseteq Nat, T # {}
  PROVE  First(T) \in T /\ \A j \in T : First(T) <= j
<1>1. \E i \in T : \A j \in T : i <= j
  BY Smallest
<1>. QED BY <1>1 DEF First

\* What eat_up_comments() computes, without its loop: the position behind the first
\* "*/" from i on, or 0.
Closing(text, i) == {k \in i .. Len(text) : Closes(text, k)}
PastComment(text) ==
  [i \in 1 .. Len(text) + 1 |-> IF Closing(text, i) = {} THEN 0 ELSE First(Closing(text, i)) + 2]

\* One round of its loop, when eat gives what the rounds after it give.
Stars(text, i) == {j \in i .. Len(text) : text[j] = "*"}
Others(text, i) == {j \in First(Stars(text, i)) .. Len(text) : text[j] # "*"}
Round(text, eat, i) ==
  IF Stars(text, i) = {} \/ Others(text, i) = {} THEN 0
  ELSE IF text[First(Others(text, i))] = "/" THEN First(Others(text, i)) + 1
  ELSE eat[First(Others(text, i)) + 1]

\* Where a round stops: at the first character that is no star, behind a star.
LEMMA RoundStops ==
  ASSUME NEW S, NEW text \in Seq(S), NEW i \in 1 .. Len(text) + 1,
         Stars(text, i) # {}, Others(text, i) # {},
         NEW f, f = First(Stars(text, i)), NEW o, o = First(Others(text, i))
  PROVE  /\ f \in i .. Len(text) /\ o \in f + 1 .. Len(text)
         /\ \A k \in i .. f - 1 : text[k] # "*"
         /\ \A k \in f .. o - 1 : text[k] = "*"
         /\ text[o] # "*"
<1>. Len(text) \in Nat
  OBVIOUS
<1>1. Stars(text, i) \subseteq Nat
  BY DEF Stars
<1>2. f \in Stars(text, i) /\ \A j \in Stars(text, i) : f <= j
  BY <1>1, FirstOf
<1>3. f \in i .. Len(text) /\ text[f] = "*" /\ \A k \in i .. f - 1 : text[k] # "*"
  <2>1. f \in i .. Len(text) /\ text[f] = "*"
    BY <1>2 DEF Stars
  <2>2. ASSUME NEW k \in i .. f - 1, text[k] = "*" PROVE FALSE
    <3>1. k \in Stars(text, i) /\ k < f
      BY <2>1, <2>2 DEF Stars
    <3>. QED BY <1>2, <2>1, <3>1
  <2>. QED BY <2>1, <2>2
<1>4. Others(text, i) = {j \in f .. Len(text) : text[j] # "*"}
  BY DEF Others
<1>5. Others(text, i) \subseteq Nat
  BY <1>3, <1>4
<1>6. o \in Others(text, i) /\ \A j \in Others(text, i) : o <= j
  BY <1>5, FirstOf
<1>7. o \in f .. Len(text) /\ text[o] # "*" /\ \A k \in f .. o - 1 : text[k] = "*"
  <2>1. o \in f .. Len(text) /\ text[o] # "*"
    BY <1>4, <1>6
  <2>2. ASSUME NEW k \in f .. o - 1, text[k] # "*" PROVE FALSE
    <3>1. k \in Others(text, i) /\ k < o
      BY <1>3, <1>4, <2>1, <2>2
    <3>. QED BY <1>3, <1>6, <2>1, <3>1
  <2>. QED BY <2>1, <2>2
<1>. QED BY <1>3, <1>7

\* The position behind the first "*/" is what one round gives when the next ones
\* give it.
LEMMA OneRound ==
  ASSUME NEW S, NEW text \in Seq(S), NEW i \in 1 .. Len(text) + 1, NEW eat,
         \A k \in i + 1 .. Len(text) + 1 : eat[k] = PastComment(text)[k]
  PROVE  Round(text, eat, i) = PastComment(text)[i]
<1>. Len(text) \in Nat
  OBVIOUS
<1>0. PastComment(text)[i] = IF Closing(text, i) = {} THEN 0 ELSE First(Closing(text, i)) + 2
  BY DEF PastComment
<1>1. CASE Stars(text, i) = {}
  <2>1. Closing(text, i) = {}
    BY <1>1 DEF Stars, Closing, Closes
  <2>. QED BY <1>0, <1>1, <2>1 DEF Round
<1>2. CASE Stars(text, i) # {} /\ Others(text, i) = {}
  <2>1. /\ First(Stars(text, i)) \in Stars(text, i)
        /\ \A j \in Stars(text, i) : First(Stars(text, i)) <= j
    <3>1. Stars(text, i) \subseteq Nat
      BY DEF Stars
    <3>. QED BY <1>2, <3>1, FirstOf
  <2>2. ASSUME NEW k \in Closing(text, i) PROVE FALSE
    <3>1. k \in Stars(text, i) /\ k + 1 \in i .. Len(text) /\ text[k + 1] = "/"
      BY DEF Closing, Closes, Stars
    <3>2. First(Stars(text, i)) <= k /\ First(Stars(text, i)) \in Nat
      BY <2>1, <3>1 DEF Stars
    <3>3. k + 1 \in First(Stars(text, i)) .. Len(text)
      <4>. DEFINE f == First(Stars(text, i))
      <4>1. f \in Nat /\ f <= k /\ k \in Nat /\ k + 1 <= Len(text)
        BY <3>1, <3>2 DEF Stars
      <4>. HIDE DEF f
      <4>2. k + 1 \in f .. Len(text)
        BY <4>1
      <4>. QED BY <4>2 DEF f
    <3>4. k + 1 \in Others(text, i)
      BY <3>1, <3>3 DEF Others
    <3>. QED BY <1>2, <3>4
  <2>. QED BY <1>0, <1>2, <2>2 DEF Round
<1>3. CASE Stars(text, i) # {} /\ Others(text, i) # {}
  <2>. DEFINE f == First(Stars(text, i))
              o == First(Others(text, i))
  <2>1. /\ f \in i .. Len(text) /\ o \in f + 1 .. Len(text)
        /\ \A k \in i .. f - 1 : text[k] # "*"
        /\ \A k \in f .. o - 1 : text[k] = "*"
        /\ text[o] # "*"
    BY <1>3, RoundStops
  <2>2. Round(text, eat, i) = IF text[o] = "/" THEN o + 1 ELSE eat[o + 1]
    BY <1>3 DEF Round
  <2>. HIDE DEF f, o
  <2>3. ASSUME NEW k \in i .. o - 2 PROVE ~Closes(text, k)
    <3>1. CASE k < f
      <4>1. k \in i .. f - 1
        BY <2>1, <3>1
      <4>. QED BY <2>1, <4>1 DEF Closes
    <3>2. CASE k >= f
      <4>1. k + 1 \in f .. o - 1
        BY <2>1, <3>2
      <4>. QED BY <2>1, <4>1 DEF Closes
    <3>. QED BY <2>1, <3>1, <3>2
  <2>4. ~Closes(text, o)
    BY <2>1 DEF Closes
  <2>5. CASE text[o] = "/"
    <3>1. o - 1 \in Closing(text, i)
      BY <2>1, <2>5 DEF Closing, Closes
    <3>2. \A k \in Closing(text, i) : o - 1 <= k
      BY <2>1, <2>3 DEF Closing
    <3>3. Closing(text, i) \subseteq Nat
      BY DEF Closing
    <3>4. First(Closing(text, i)) \in Closing(text, i) /\ First(Closing(text, i)) <= o - 1
      BY <3>1, <3>3, FirstOf
    <3>5. First(Closing(text, i)) = o - 1
      BY <2>1, <3>2, <3>3, <3>4
    <3>. QED BY <1>0, <2>1, <2>2, <2>5, <3>1, <3>5
  <2>6. CASE text[o] # "/"
    <3>1. ~Closes(text, o - 1)
      BY <2>1, <2>6 DEF Closes
    <3>2. Closing(text, i) = Closing(text, o + 1)
      BY <2>1, <2>3, <2>4, <3>1 DEF Closing
    <3>3. o + 1 \in i + 1 .. Len(text) + 1 /\ o + 1 \in 1 .. Len(text) + 1
      BY <2>1
    <3>4. eat[o + 1] = PastComment(text)[o + 1]
      BY <3>3
    <3>5. PastComment(text)[o + 1] = IF Closing(text, o + 1) = {} THEN 0 ELSE First(Closing(text, o + 1)) + 2
      BY <3>3 DEF PastComment
    <3>. QED BY <1>0, <2>2, <2>6, <3>2, <3>4, <3>5
  <2>. QED BY <2>5, <2>6
<1>. QED BY <1>1, <1>2, <1>3

\* A function that satisfies the equation of the loop is that position, from the
\* last position backwards.
LEMMA OnlyBehind ==
  ASSUME NEW S, NEW text \in Seq(S), NEW eat,
         eat = [i \in 1 .. Len(text) + 1 |-> Round(text, eat, i)]
  PROVE  eat = PastComment(text)
<1>. DEFINE L == Len(text) + 1
            T == {n \in Nat : n < L /\ eat[L - n] # PastComment(text)[L - n]}
<1>. Len(text) \in Nat
  OBVIOUS
<1>1. ASSUME T # {} PROVE FALSE
  <2>1. PICK n \in T : \A k \in T : n <= k
    BY <1>1, Smallest
  <2>2. n \in Nat /\ n < L /\ eat[L - n] # PastComment(text)[L - n]
    BY <2>1
  <2>3. L - n \in 1 .. L
    BY <2>2
  <2>4. ASSUME NEW k \in (L - n) + 1 .. L PROVE eat[k] = PastComment(text)[k]
    <3>1. L - k \in Nat /\ L - k < n /\ L - (L - k) = k /\ L - k < L
      BY <2>2, <2>3
    <3>2. L - k \notin T
      BY <2>1, <2>2, <3>1
    <3>. QED BY <3>1, <3>2
  <2>5. Round(text, eat, L - n) = PastComment(text)[L - n]
    BY <2>3, <2>4, OneRound
  <2>6. eat[L - n] = Round(text, eat, L - n)
    BY <2>3
  <2>. QED BY <2>2, <2>5, <2>6
<1>2. ASSUME NEW i \in 1 .. L PROVE eat[i] = PastComment(text)[i]
  <2>1. L - i \in Nat /\ L - i < L /\ L - (L - i) = i
    OBVIOUS
  <2>2. L - i \notin T
    BY <1>1
  <2>. QED BY <2>1, <2>2
<1>. QED BY <1>2 DEF PastComment

\* The loop finds the first "*/".
LEMMA EatIsPast ==
  ASSUME NEW S, NEW text \in Seq(S)
  PROVE  Eat(text) = PastComment(text)
<1>. DEFINE E(e) == e = [i \in 1 .. Len(text) + 1 |-> Round(text, e, i)]
<1>. Len(text) \in Nat
  OBVIOUS
<1>1. E(PastComment(text))
  <2>1. \A i \in 1 .. Len(text) + 1 : Round(text, PastComment(text), i) = PastComment(text)[i]
    BY OneRound
  <2>. QED BY <2>1 DEF PastComment
<1>2. Eat(text) = CHOOSE e : E(e)
  BY DEF Eat, Round, Stars, Others
<1>3. E(Eat(text))
  <2>. HIDE DEF E
  <2>. QED BY <1>1, <1>2
<1>. QED BY <1>3, OnlyBehind

\* A comment, or what opens one, is eaten.
LEMMA CommentEaten ==
  ASSUME NEW S, NEW text \in Seq(S), NEW i \in DOMAIN text, NEW j \in DOMAIN text,
         IsComment(text, i, j)
  PROVE  Eat(text)[i + 2] = j + 1
<1>. Len(text) \in Nat /\ DOMAIN text = 1 .. Len(text)
  OBVIOUS
<1>1. i + 2 \in 1 .. Len(text) + 1 /\ j - 1 \in i + 2 .. Len(text)
  BY DEF IsComment
<1>2. j - 1 \in Closing(text, i + 2)
  BY <1>1 DEF IsComment, Closing
<1>3. \A k \in Closing(text, i + 2) : j - 1 <= k
  BY <1>1 DEF IsComment, Closing
<1>4. Closing(text, i + 2) \subseteq Nat
  BY <1>1 DEF Closing
<1>5. First(Closing(text, i + 2)) \in Closing(text, i + 2) /\ First(Closing(text, i + 2)) <= j - 1
  BY <1>2, <1>4, FirstOf
<1>6. First(Closing(text, i + 2)) = j - 1
  BY <1>3, <1>4, <1>5
<1>7. PastComment(text)[i + 2] = j + 1
  BY <1>1, <1>2, <1>6 DEF PastComment
<1>. QED BY <1>7, EatIsPast

\* A comment that is not closed is found out.
LEMMA OpenCommentFound ==
  ASSUME NEW S, NEW text \in Seq(S), NEW i \in DOMAIN text, NeverEnds(text, i)
  PROVE  Eat(text)[i + 2] = 0
<1>. Len(text) \in Nat /\ DOMAIN text = 1 .. Len(text)
  OBVIOUS
<1>1. i + 2 \in 1 .. Len(text) + 1
  BY DEF NeverEnds, Opens
<1>2. Closing(text, i + 2) = {}
  BY DEF NeverEnds, Closing
<1>3. PastComment(text)[i + 2] = 0
  BY <1>1, <1>2 DEF PastComment
<1>. QED BY <1>3, EatIsPast

\* ---- words ----------------------------------------------------------------------------

\* The words of w in front of a position.
Before(w, p) == Cardinality({i \in DOMAIN w.places : w.places[i] < p})
WordsUpTo(w, p) == [i \in 1 .. Before(w, p) |-> Text(w.tokens[i])]

\* The types of a source.
LEMMA SourceTypes ==
  ASSUME NEW w, AsMeant(w)
  PROVE  /\ w.text \in Seq(ToSet(w.text)) /\ Len(w.text) \in Nat /\ DOMAIN w.text = 1 .. Len(w.text)
         /\ Len(w.places) \in Nat /\ DOMAIN w.places = 1 .. Len(w.places)
         /\ \A n \in DOMAIN w.places : w.places[n] \in 1 .. Len(w.text)
<1>1. w.text \in Seq(ToSet(w.text)) /\ w.places \in Seq(DOMAIN w.text)
  BY DEF AsMeant
<1>. QED BY <1>1

\* In front of the n-th word there are n - 1, behind it n.
LEMMA WordsBefore ==
  ASSUME NEW w, AsMeant(w), NEW n \in DOMAIN w.places
  PROVE  Before(w, w.places[n]) = n - 1 /\ Before(w, w.places[n] + 1) = n
<1>. n \in 1 .. Len(w.places) /\ Len(w.places) \in Nat /\ DOMAIN w.places = 1 .. Len(w.places)
  BY SourceTypes
<1>1. \A i \in DOMAIN w.places : w.places[i] \in Nat
  BY SourceTypes
<1>2. \A i, j \in DOMAIN w.places : i < j => w.places[i] < w.places[j]
  BY DEF AsMeant
<1>3. ASSUME NEW i \in DOMAIN w.places
      PROVE  /\ w.places[i] < w.places[n] <=> i <= n - 1
             /\ w.places[i] < w.places[n] + 1 <=> i <= n
  <2>1. i < n => w.places[i] < w.places[n]
    BY <1>2
  <2>2. i > n => w.places[n] < w.places[i]
    BY <1>2
  <2>3. i \in Nat /\ w.places[i] \in Nat /\ w.places[n] \in Nat
    BY <1>1
  <2>. QED BY <2>1, <2>2, <2>3
<1>4. {i \in DOMAIN w.places : w.places[i] < w.places[n]} = 1 .. n - 1
  BY <1>3
<1>5. {i \in DOMAIN w.places : w.places[i] < w.places[n] + 1} = 1 .. n
  BY <1>3
<1>6. Cardinality(1 .. n - 1) = n - 1 /\ Cardinality(1 .. n) = n
  BY FS_Interval
<1>. QED BY <1>4, <1>5, <1>6 DEF Before

\* There is no word in front of the first position.
LEMMA Nothing ==
  ASSUME NEW w, AsMeant(w)
  PROVE  1 \in Boundaries(w) /\ WordsUpTo(w, 1) = <<>>
<1>1. \A n \in DOMAIN w.places : w.places[n] \in 1 .. Len(w.text)
  BY SourceTypes
<1>2. {i \in DOMAIN w.places : w.places[i] < 1} = {}
  BY <1>1
<1>3. Before(w, 1) = 0
  BY <1>2, FS_EmptySet DEF Before
<1>4. WordsUpTo(w, 1) = <<>>
  BY <1>3 DEF WordsUpTo
<1>5. 1 \in Boundaries(w)
  BY DEF Boundaries
<1>. QED BY <1>4, <1>5

\* The step over a word,
LEMMA OverWord ==
  ASSUME NEW w, AsMeant(w), NEW p \in Boundaries(w),
         p \in DOMAIN w.text, w.text[p] \in Tokens, ~Opens(w.text, p)
  PROVE  /\ p + 1 \in Boundaries(w)
         /\ WordsUpTo(w, p + 1) = Append(WordsUpTo(w, p), Text(w.text[p]))
<1>1. ~NoToken(w.text, p)
  BY DEF NoToken, NeverEnds
<1>2. ASSUME NEW c \in w.comments, c[1] = p PROVE FALSE
  BY <1>2 DEF AsMeant, IsComment
<1>3. p \in ToSet(w.places)
  BY <1>1, <1>2 DEF AsMeant
<1>4. PICK n \in DOMAIN w.places : w.places[n] = p
  BY <1>3 DEF ToSet
<1>5. w.text[p] = w.tokens[n]
  BY <1>4 DEF AsMeant
<1>6. Before(w, p) = n - 1 /\ Before(w, p + 1) = n
  BY <1>4, WordsBefore
<1>7. n \in Nat \ {0}
  BY SourceTypes
<1>8. WordsUpTo(w, p) = [i \in 1 .. n - 1 |-> Text(w.tokens[i])]
  BY <1>6 DEF WordsUpTo
<1>9. WordsUpTo(w, p + 1) = [i \in 1 .. n |-> Text(w.tokens[i])]
  BY <1>6 DEF WordsUpTo
<1>10. WordsUpTo(w, p + 1) = Append(WordsUpTo(w, p), Text(w.tokens[n]))
  <2>. HIDE DEF WordsUpTo
  <2>. DEFINE s == [i \in 1 .. n - 1 |-> Text(w.tokens[i])]
  <2>1. s \in Seq({Text(w.tokens[i]) : i \in 1 .. n}) /\ Len(s) = n - 1
    BY <1>7
  <2>2. Append(s, Text(w.tokens[n])) = [i \in 1 .. n |-> Text(w.tokens[i])]
    BY <1>7, <2>1
  <2>. QED BY <1>8, <1>9, <2>2
<1>11. p + 1 \in Boundaries(w)
  BY <1>4 DEF Boundaries
<1>. QED BY <1>5, <1>10, <1>11

\* and over a comment.
LEMMA OverComment ==
  ASSUME NEW w, AsMeant(w), NEW p \in Boundaries(w), Opens(w.text, p),
         NEW next, next = Eat(w.text)[p + 2], next # 0
  PROVE  next \in Boundaries(w) /\ WordsUpTo(w, next) = WordsUpTo(w, p)
<1>. DEFINE text == w.text
<1>1. /\ text \in Seq(ToSet(text)) /\ Len(text) \in Nat /\ DOMAIN text = 1 .. Len(text)
      /\ DOMAIN w.places = 1 .. Len(w.places)
      /\ \A n \in DOMAIN w.places : w.places[n] \in 1 .. Len(text)
  BY SourceTypes
<1>2. \A c \in w.comments : /\ c[1] \in DOMAIN text /\ c[2] \in DOMAIN text
                            /\ IsComment(text, c[1], c[2])
                            /\ \A n \in DOMAIN w.places : w.places[n] \notin c[1] .. c[2]
  BY DEF AsMeant
<1>3. p \in Nat \ {0}
  BY <1>1, <1>2 DEF Boundaries
<1>4. p \in DOMAIN text /\ text[p] = "/"
  BY <1>1, <1>3 DEF Opens
<1>5. \/ p \in ToSet(w.places)
      \/ \E c \in w.comments : c[1] = p
      \/ NoToken(text, p)
  BY DEF AsMeant
<1>6. p \notin ToSet(w.places)
  BY DEF AsMeant, ToSet
<1>7. ~NoToken(text, p)
  <2>1. text[p] \in Tokens
    BY <1>4 DEF Tokens, MulOps
  <2>2. NeverEnds(text, p) => next = 0
    BY <1>1, <1>4, OpenCommentFound
  <2>. QED BY <1>4, <2>1, <2>2 DEF NoToken
<1>8. PICK c \in w.comments : c[1] = p
  BY <1>5, <1>6, <1>7
<1>9. next = c[2] + 1
  BY <1>1, <1>2, <1>8, CommentEaten
<1>10. next \in Boundaries(w)
  BY <1>8, <1>9 DEF Boundaries
<1>11. c[2] \in Nat /\ p <= c[2]
  BY <1>1, <1>2, <1>3, <1>8 DEF IsComment
<1>12. ASSUME NEW n \in DOMAIN w.places PROVE w.places[n] < p <=> w.places[n] < next
  <2>1. w.places[n] \notin p .. c[2] /\ w.places[n] \in Nat
    BY <1>1, <1>2, <1>8
  <2>. QED BY <1>3, <1>9, <1>11, <2>1
<1>13. Before(w, next) = Before(w, p)
  BY <1>12 DEF Before
<1>. QED BY <1>10, <1>13 DEF WordsUpTo

\* ---- the scanner in the steps of the parser -----------------------------------------------

IsParser(r) ==
  r = [text |-> r.text, pos |-> r.pos, at |-> r.at, block |-> r.block, scope |-> r.scope,
       left |-> r.left, op |-> r.op, stmt |-> r.stmt, returned |-> r.returned, got |-> r.got]

\* The parser stands behind a word or a comment, and has got the words up to there.
ScannerIInv ==
  /\ AsMeant(written)
  /\ IsParser(rcc)
  /\ rcc.text = written.text =>
       rcc.pos \in Boundaries(written) /\ rcc.got = WordsUpTo(written, rcc.pos)

\* What yylex() does to the parser when it returns a token.
Advances ==
  /\ Token /\ IsParser(rcc')
  /\ rcc'.text = rcc.text /\ rcc'.pos = rcc.pos + 1 /\ rcc'.got = Append(rcc.got, Text(Word))

\* At the prompt nothing has been read.
LEMMA InitScanner == TInit => ScannerIInv
<1>. SUFFICES ASSUME TInit PROVE ScannerIInv
  OBVIOUS
<1>1. AsMeant(written)
  BY SourcesAssumption DEF TInit
<1>2. IsParser(rcc) /\ rcc.pos = 1 /\ rcc.got = <<>>
  BY DEF TInit, NoParser, IsParser
<1>3. 1 \in Boundaries(written) /\ WordsUpTo(written, 1) = <<>>
  BY <1>1, Nothing
<1>. QED BY <1>1, <1>2, <1>3 DEF ScannerIInv

\* Every action that takes a token advances by it.
LEMMA TakesToken ==
  ASSUME IsParser(rcc),
         \/ SyntaxError \/ FunctionWord \/ Declare \/ BeginWord \/ StatementWord
         \/ Operand \/ Operator \/ Reduce \/ FunctionEndWord \/ ProgramWord \/ ProgramEnd
  PROVE  Advances /\ written' = written
<1>1. /\ IsParser(Moved)
      /\ Moved.text = rcc.text /\ Moved.pos = rcc.pos + 1
      /\ Moved.got = Append(rcc.got, Text(Word))
  <2>. DEFINE g == Append(rcc.got, Text(Word))
  <2>1. Moved = [rcc EXCEPT !.pos = rcc.pos + 1, !.got = g]
    BY DEF Moved, IsParser
  <2>. HIDE DEF g
  <2>2. Moved = [text |-> rcc.text, pos |-> rcc.pos + 1, at |-> rcc.at, block |-> rcc.block,
                 scope |-> rcc.scope, left |-> rcc.left, op |-> rcc.op, stmt |-> rcc.stmt,
                 returned |-> rcc.returned, got |-> g]
    BY <2>1 DEF IsParser
  <2>3. /\ IsParser(Moved) /\ Moved.text = rcc.text /\ Moved.pos = rcc.pos + 1 /\ Moved.got = g
    BY <2>2 DEF IsParser
  <2>. QED BY <2>3 DEF g
<1>2. ASSUME Fail PROVE IsParser(rcc') /\ rcc' = Moved /\ written' = written
  BY <1>1, <1>2 DEF Fail
<1>3. CASE SyntaxError
  BY <1>1, <1>2, <1>3 DEF SyntaxError, Advances
<1>4. CASE FunctionWord
  BY <1>1, <1>4 DEF FunctionWord, TokenIs, Go, Advances, IsParser
<1>5. CASE Declare
  <2>1. CASE CanAdd(Text(Word))
    BY <1>1, <1>5, <2>1 DEF Declare, TokenIs, Go, Advances, IsParser
  <2>2. CASE ~CanAdd(Text(Word))
    BY <1>1, <1>2, <1>5, <2>2 DEF Declare, TokenIs, Advances
  <2>. QED BY <2>1, <2>2
<1>6. CASE BeginWord
  BY <1>1, <1>6 DEF BeginWord, TokenIs, Go, Advances, IsParser
<1>7. CASE StatementWord
  BY <1>1, <1>7 DEF StatementWord, TokenIs, Go, Advances, IsParser
<1>8. CASE Operand
  <2>1. CASE CanGet(Text(Word))
    BY <1>1, <1>8, <2>1 DEF Operand, TokenIs, Go, Advances, IsParser
  <2>2. CASE ~CanGet(Text(Word))
    BY <1>1, <1>2, <1>8, <2>2 DEF Operand, TokenIs, Advances
  <2>. QED BY <2>1, <2>2
<1>9. CASE Operator
  BY <1>1, <1>9 DEF Operator, TokenIs, Go, Advances, IsParser
<1>10. CASE Reduce
  BY <1>1, <1>10 DEF Reduce, TokenIs, Go, Advances, IsParser
<1>11. CASE FunctionEndWord
  BY <1>1, <1>11 DEF FunctionEndWord, TokenIs, Go, Advances, IsParser
<1>12. CASE ProgramWord
  BY <1>1, <1>12 DEF ProgramWord, TokenIs, Go, Advances, IsParser
<1>13. CASE ProgramEnd
  <2>1. CASE Returns
    BY <1>1, <1>2, <1>13, <2>1 DEF ProgramEnd, TokenIs, Advances
  <2>2. CASE ~Returns
    BY <1>1, <1>13, <2>2 DEF ProgramEnd, TokenIs, Advances
  <2>. QED BY <2>1, <2>2
<1>. QED
  BY <1>3, <1>4, <1>5, <1>6, <1>7, <1>8, <1>9, <1>10, <1>11, <1>12, <1>13

\* All others leave the parser where it is, but for those that start it anew or
\* eat a comment.
LEMMA LeavesParser ==
  ASSUME \/ RccRefuses \/ LexicalError \/ RegistersRunOut \/ Translate \/ RccWrites \/ RccExits
         \/ RxStarts \/ RxLoads \/ RxExits \/ LoggedOut
         \/ UNCHANGED <<vars, tvars>>
  PROVE  rcc' = rcc /\ written' = written
<1>1. CASE RccRefuses
  BY <1>1 DEF RccRefuses, Give
<1>2. CASE LexicalError
  BY <1>2 DEF LexicalError
<1>3. CASE RegistersRunOut
  BY <1>3 DEF RegistersRunOut
<1>4. CASE Translate
  BY <1>4 DEF Translate, tvars
<1>5. CASE RccWrites
  BY <1>5 DEF RccWrites
<1>6. CASE RccExits
  BY <1>6 DEF RccExits
<1>7. CASE RxStarts
  BY <1>7 DEF RxStarts, Give
<1>8. CASE RxLoads
  BY <1>8 DEF RxLoads, tvars
<1>9. CASE RxExits
  BY <1>9 DEF RxExits
<1>10. CASE LoggedOut \/ UNCHANGED <<vars, tvars>>
  BY <1>10 DEF LoggedOut, tvars
<1>. QED
  BY <1>1, <1>2, <1>3, <1>4, <1>5, <1>6, <1>7, <1>8, <1>9, <1>10

\* Each step over words and comments keeps the parser where it should be.
LEMMA NextScanner == ScannerIInv /\ [TNext]_<<vars, tvars>> => ScannerIInv'
<1>. SUFFICES ASSUME ScannerIInv, [TNext]_<<vars, tvars>> PROVE ScannerIInv'
  OBVIOUS
<1>. USE DEF ScannerIInv
<1>1. ASSUME rcc' = rcc /\ written' = written PROVE ScannerIInv'
  BY <1>1
<1>2. ASSUME Advances, written' = written PROVE ScannerIInv'
  <2>2. ASSUME rcc.text = written.text
        PROVE  rcc'.pos \in Boundaries(written) /\ rcc'.got = WordsUpTo(written, rcc'.pos)
    <3>1. rcc.pos \in DOMAIN written.text /\ written.text[rcc.pos] \in Tokens
      BY <1>2, <2>2 DEF Advances, Token, InText, Word
    <3>2. ~Opens(written.text, rcc.pos) /\ Word = written.text[rcc.pos]
      BY <1>2, <2>2 DEF Advances, Token, Word
    <3>3. /\ rcc.pos + 1 \in Boundaries(written)
          /\ WordsUpTo(written, rcc.pos + 1) = Append(WordsUpTo(written, rcc.pos), Text(Word))
      BY <2>2, <3>1, <3>2, OverWord
    <3>. QED BY <1>2, <2>2, <3>3 DEF Advances
  <2>. QED BY <1>2, <2>2 DEF Advances
<1>3. CASE RccStarts
  <2>1. written' = written
    BY <1>3 DEF RccStarts
  <2>2. IsParser(rcc') /\ rcc'.pos = 1 /\ rcc'.got = <<>>
    BY <1>3 DEF RccStarts, NoParser, IsParser
  <2>3. 1 \in Boundaries(written) /\ WordsUpTo(written, 1) = <<>>
    BY Nothing
  <2>. QED BY <2>1, <2>2, <2>3
<1>4. CASE Comment
  <2>. DEFINE next == Eat(rcc.text)[rcc.pos + 2]
  <2>1. CASE next = 0
    BY <1>1, <1>4, <2>1 DEF Comment
  <2>2. CASE next # 0
    <3>1. rcc' = [rcc EXCEPT !.pos = next] /\ written' = written /\ Opens(rcc.text, rcc.pos)
      BY <1>4, <2>2 DEF Comment
    <3>2. /\ IsParser(rcc')
          /\ rcc'.text = rcc.text /\ rcc'.pos = next /\ rcc'.got = rcc.got
      <4>. HIDE DEF next
      <4>. QED BY <3>1 DEF IsParser
    <3>3. ASSUME rcc.text = written.text
          PROVE  next \in Boundaries(written) /\ WordsUpTo(written, next) = WordsUpTo(written, rcc.pos)
      BY <2>2, <3>1, <3>3, OverComment
    <3>. QED BY <3>1, <3>2, <3>3
  <2>. QED BY <2>1, <2>2
<1>5. CASE \/ SyntaxError \/ FunctionWord \/ Declare \/ BeginWord \/ StatementWord
            \/ Operand \/ Operator \/ Reduce \/ FunctionEndWord \/ ProgramWord \/ ProgramEnd
  <2>. HIDE DEF ScannerIInv
  <2>1. IsParser(rcc)
    BY DEF ScannerIInv
  <2>. QED BY <1>2, <1>5, <2>1, TakesToken
<1>6. CASE \/ RccRefuses \/ LexicalError \/ RegistersRunOut \/ Translate \/ RccWrites \/ RccExits
            \/ RxStarts \/ RxLoads \/ RxExits \/ LoggedOut
            \/ UNCHANGED <<vars, tvars>>
  <2>. HIDE DEF ScannerIInv
  <2>. QED BY <1>1, <1>6, LeavesParser
<1>. HIDE DEF ScannerIInv
<1>. QED
  BY <1>3, <1>4, <1>5, <1>6 DEF TNext

\* Whatever the texts, with comments of any length at any place: the parser gets
\* the words in front of the position it has reached, and nothing of a comment.
THEOREM TokensAreUncommentedHolds == TSpec => []TokensAreUncommented
<1>1. ScannerIInv => TokensAreUncommented
  BY DEF ScannerIInv, TokensAreUncommented, WordsUpTo, Before
<1>. QED BY InitScanner, NextScanner, <1>1, PTL DEF TSpec

\* ---- what the parser lets through ---------------------------------------------------------

FunNames(s) == Elements(s.params) \cup Elements(s.locals)
MainNames(s) == Known(FunNames(s), s.fun, Len(s.fun) + 1) \cup Elements(s.vars)

\* A block as far as it has been read, without REAL.
Integral(i) == i.x.t # "real" /\ i.y.t # "real"
Grown(items, names) ==
  /\ IsList(items)
  /\ \A j \in DOMAIN items : /\ items[j].kind \in {"arith", "write", "return"}
                             /\ Integral(items[j])
                             /\ AcceptedItem(items, j, Known(names, items, j))
AllKnown(items, names) == Known(names, items, Len(items) + 1)

Source(params, locals, names, types, fun, main) ==
  [ret |-> "I", params |-> params, locals |-> locals, vars |-> names, types |-> types,
   fun |-> fun, main |-> main]
IsSource(s) == s = Source(s.params, s.locals, s.vars, s.types, s.fun, s.main)

\* The names in scope are those declared, all INTEGER.
Scoped(s, r) ==
  /\ IsList(s.params) /\ IsList(s.locals) /\ IsList(s.vars)
  /\ r.scope = FunNames(s) \cup Elements(s.vars)
  /\ s.types = [n \in r.scope |-> "I"]

\* How far the blocks have come at each place of the grammar.
Placed(s, r) ==
  /\ r.at \in {"start", "params", "locals", "statement", "operand", "operator", "program", "vars"}
  /\ r.block \in {"fun", "main"}
  /\ Len(s.params) = IF r.at = "start" THEN 0 ELSE IF r.at = "params" THEN Len(s.params) ELSE 2
  /\ r.at = "params" => Len(s.params) \in {0, 1}
  /\ r.at \in {"start", "params", "locals"} => r.block = "fun" /\ s.fun = <<>>
  /\ r.at \in {"program", "vars"} => r.block = "main" /\ s.main = <<>>
  /\ r.block = "fun" => s.vars = <<>> /\ s.main = <<>>

\* The operand in hand is declared, or the result of an item of this block.
InHand(s, r) ==
  r.at \in {"operand", "operator"} =>
    /\ r.left = <<>> \/ (/\ r.left = <<r.left[1]>> /\ r.left[1].t # "real"
                         /\ Usable(r.left[1], IF r.block = "fun" THEN AllKnown(s.fun, FunNames(s))
                                               ELSE AllKnown(s.main, MainNames(s))))
    /\ r.at = "operator" => r.left # <<>>
    /\ r.at = "operand" /\ r.left # <<>> => r.op \in MulOps

ParserOK(s, r) ==
  /\ IsSource(s)
  /\ Scoped(s, r)
  /\ Grown(s.fun, FunNames(s)) /\ Grown(s.main, MainNames(s))
  /\ Placed(s, r)
  /\ InHand(s, r)

\* A list grows by a member.
LEMMA ListGrows ==
  ASSUME NEW list, IsList(list), NEW n
  PROVE  /\ IsList(Append(list, n)) /\ Len(list) \in Nat /\ Len(Append(list, n)) = Len(list) + 1
         /\ Elements(Append(list, n)) = Elements(list) \cup {n}
<1>. DEFINE grown == Append(list, n)
            E == Elements(list)
            L == Len(list)
<1>1. list \in Seq(E)
  BY DEF IsList, Elements
<1>2. /\ L \in Nat /\ DOMAIN list = 1 .. L /\ DOMAIN grown = 1 .. L + 1 /\ Len(grown) = L + 1
      /\ \A j \in 1 .. L : grown[j] = list[j]
      /\ grown[L + 1] = n /\ grown \in Seq(E \cup {n})
  <2>1. list \in Seq(E \cup {n})
    BY <1>1
  <2>. HIDE DEF E
  <2>. QED BY <2>1
<1>3. Elements(grown) = E \cup {n}
  <2>1. 1 .. L + 1 = 1 .. L \cup {L + 1}
    BY <1>2
  <2>. QED BY <1>2, <2>1 DEF Elements
<1>. QED BY <1>2, <1>3 DEF IsList, Elements

\* A block grows by an item whose operands are known.
LEMMA Grows ==
  ASSUME NEW items, NEW names, Grown(items, names), NEW i,
         i.kind \in {"arith", "write", "return"},
         Usable(i.x, AllKnown(items, names)), Usable(i.y, AllKnown(items, names)), Integral(i),
         i.kind = "arith" => i.op \in {"+", "-", "*", "/"}
  PROVE  /\ Grown(Append(items, i), names)
         /\ AllKnown(Append(items, i), names) =
              AllKnown(items, names) \cup IF i.kind = "arith" THEN {i.dest} ELSE {}
<1>. DEFINE grown == Append(items, i)
            E == {items[n] : n \in DOMAIN items}
            L == Len(items)
<1>1. items \in Seq(E)
  BY DEF Grown, IsList
<1>2. /\ L \in Nat /\ DOMAIN items = 1 .. L /\ DOMAIN grown = 1 .. L + 1 /\ Len(grown) = L + 1
      /\ \A j \in 1 .. L : grown[j] = items[j]
      /\ grown[L + 1] = i /\ grown \in Seq(E \cup {i})
  <2>1. items \in Seq(E \cup {i})
    BY <1>1
  <2>2. grown \in Seq(E \cup {i})
    BY <2>1
  <2>. HIDE DEF E
  <2>. QED BY <2>1, <2>2
<1>3. IsList(grown)
  BY ListGrows DEF Grown
<1>. HIDE DEF grown, E, L
<1>4. ASSUME NEW j \in 1 .. L + 1 PROVE Known(names, grown, j) = Known(names, items, j)
  <2>1. {n \in 1 .. j - 1 : grown[n].kind \in {"arith", "call"}} =
        {n \in 1 .. j - 1 : items[n].kind \in {"arith", "call"}}
    BY <1>2
  <2>2. \A n \in 1 .. j - 1 : grown[n] = items[n]
    BY <1>2
  <2>. QED BY <2>1, <2>2 DEF Known
<1>5. ASSUME NEW j \in 1 .. L + 1
      PROVE  /\ grown[j].kind \in {"arith", "write", "return"} /\ Integral(grown[j])
             /\ AcceptedItem(grown, j, Known(names, grown, j))
  <2>1. CASE j \in 1 .. L
    <3>1. /\ items[j].kind \in {"arith", "write", "return"} /\ Integral(items[j])
          /\ AcceptedItem(items, j, Known(names, items, j))
      BY <1>2, <2>1 DEF Grown
    <3>2. grown[j] = items[j]
      BY <1>2, <2>1
    <3>. QED BY <1>4, <3>1, <3>2 DEF AcceptedItem
  <2>2. CASE j = L + 1
    <3>1. grown[j] = i /\ Known(names, grown, j) = AllKnown(items, names)
      BY <1>2, <1>4, <2>2 DEF AllKnown, L
    <3>. QED BY <3>1 DEF AcceptedItem
  <2>. QED BY <1>2, <2>1, <2>2
<1>6. Grown(grown, names)
  BY <1>2, <1>3, <1>5 DEF Grown
<1>7. AllKnown(grown, names) =
        AllKnown(items, names) \cup IF i.kind = "arith" THEN {i.dest} ELSE {}
  <2>1. AllKnown(grown, names) = Known(names, grown, L + 2)
    BY <1>2 DEF AllKnown
  <2>2. AllKnown(items, names) = Known(names, grown, L + 1)
    BY <1>2, <1>4 DEF AllKnown, L
  <2>3. (L + 2) - 1 = L + 1 /\ (L + 1) - 1 = L /\ 1 .. L + 1 = 1 .. L \cup {L + 1}
    BY <1>2
  <2>4. {n \in 1 .. L + 1 : grown[n].kind \in {"arith", "call"}} =
        {n \in 1 .. L : grown[n].kind \in {"arith", "call"}} \cup
          IF i.kind = "arith" THEN {L + 1} ELSE {}
    BY <1>2, <2>3
  <2>. QED BY <1>2, <2>1, <2>2, <2>3, <2>4 DEF Known
<1>. QED BY <1>6, <1>7 DEF grown

\* The empty list is a list and a block.
LEMMA EmptyLists ==
  /\ IsList(<<>>) /\ Elements(<<>>) = {} /\ \A names : Grown(<<>>, names)
<1>1. IsList(<<>>)
  BY DEF IsList
<1>. QED BY <1>1 DEF Elements, Grown

\* Nothing has been read.
LEMMA StartsOK == ASSUME NEW r, r.scope = {}, r.at = "start", r.block = "fun"
                  PROVE  ParserOK(NoProgram, r)
<1>1. IsSource(NoProgram) /\ NoProgram.params = <<>> /\ NoProgram.locals = <<>>
      /\ NoProgram.vars = <<>> /\ NoProgram.fun = <<>> /\ NoProgram.main = <<>>
  BY DEF IsSource, Source, NoProgram
<1>2. Scoped(NoProgram, r)
  <2>1. NoProgram.types = [n \in {} |-> "I"]
    BY DEF NoProgram
  <2>. QED BY <1>1, <2>1, EmptyLists DEF Scoped, FunNames
<1>3. Placed(NoProgram, r) /\ InHand(NoProgram, r)
  BY <1>1 DEF Placed, InHand
<1>. QED BY <1>1, <1>2, <1>3, EmptyLists DEF ParserOK

\* The words that only lead to another place of the grammar.
LEMMA WordsOK ==
  ASSUME IsParser(rcc), ParserOK(src, rcc),
         \/ FunctionWord \/ BeginWord \/ StatementWord \/ Operator \/ FunctionEndWord \/ ProgramWord
  PROVE  ParserOK(src', rcc') /\ phase' = phase
<1>. USE DEF TokenIs, Go
<1>1. src' = src /\ phase' = phase /\ rcc'.scope = rcc.scope
  BY DEF FunctionWord, BeginWord, StatementWord, Operator, FunctionEndWord, ProgramWord, IsParser, Moved
<1>2. Scoped(src, rcc')
  BY <1>1 DEF ParserOK, Scoped
<1>3. Placed(src, rcc') /\ InHand(src, rcc')
  <2>. USE DEF Moved, IsParser
  <2>0. Placed(src, rcc) /\ InHand(src, rcc)
    BY DEF ParserOK
  <2>1. CASE FunctionWord
    <3>1. rcc'.at = "params" /\ rcc'.block = rcc.block /\ rcc.at = "start"
      BY <2>1 DEF FunctionWord
    <3>. QED BY <2>0, <3>1 DEF Placed, InHand
  <2>2. CASE BeginWord
    <3>1. rcc'.at = "statement" /\ rcc'.block = rcc.block /\ rcc.at \in {"locals", "vars"}
      BY <2>2 DEF BeginWord
    <3>. QED BY <2>0, <3>1 DEF Placed, InHand
  <2>3. CASE StatementWord
    <3>1. /\ rcc'.at = "operand" /\ rcc'.block = rcc.block /\ rcc.at = "statement"
          /\ rcc'.left = <<>>
      BY <2>3 DEF StatementWord
    <3>. QED BY <2>0, <3>1 DEF Placed, InHand
  <2>4. CASE Operator
    <3>1. /\ rcc'.at = "operand" /\ rcc'.block = rcc.block /\ rcc.at = "operator"
          /\ rcc'.left = rcc.left /\ rcc'.op = Word /\ Word \in MulOps
      BY <2>4 DEF Operator
    <3>. QED BY <2>0, <3>1 DEF Placed, InHand
  <2>5. CASE FunctionEndWord
    <3>1. rcc'.at = "program" /\ rcc'.block = "main" /\ rcc.at = "statement" /\ rcc.block = "fun"
      BY <2>5 DEF FunctionEndWord
    <3>. QED BY <2>0, <3>1 DEF Placed, InHand
  <2>6. CASE ProgramWord
    <3>1. rcc'.at = "vars" /\ rcc'.block = rcc.block /\ rcc.at = "program"
      BY <2>6 DEF ProgramWord
    <3>. QED BY <2>0, <3>1 DEF Placed, InHand
  <2>. QED BY <2>1, <2>2, <2>3, <2>4, <2>5, <2>6
<1>. QED BY <1>1, <1>2, <1>3 DEF ParserOK

\* A declaration makes its name known, to the blocks that have not been begun.
LEMMA DeclareOK ==
  ASSUME IsParser(rcc), ParserOK(src, rcc), Declare, CanAdd(Text(Word))
  PROVE  ParserOK(src', rcc') /\ phase' = phase
<1>. DEFINE n == Text(Word)
            types == [k \in DOMAIN src.types \cup {n} |-> IF k = n THEN "I" ELSE src.types[k]]
<1>0. /\ IsSource(src) /\ Scoped(src, rcc) /\ Placed(src, rcc)
      /\ Grown(src.fun, FunNames(src)) /\ Grown(src.main, MainNames(src))
  BY DEF ParserOK
<1>1. /\ rcc.at \in {"params", "locals", "vars"} /\ phase' = phase
      /\ rcc'.scope = rcc.scope \cup {n} /\ rcc'.block = rcc.block
      /\ rcc'.at = IF rcc.at = "params" /\ Len(src.params) = 1 THEN "locals" ELSE rcc.at
  BY DEF Declare, TokenIs, Go, Moved, IsParser
<1>2. /\ rcc.at = "params" => src' = [src EXCEPT !.types = types, !.params = Append(@, n)]
      /\ rcc.at = "locals" => src' = [src EXCEPT !.types = types, !.locals = Append(@, n)]
      /\ rcc.at = "vars" => src' = [src EXCEPT !.types = types, !.vars = Append(@, n)]
  BY <1>1 DEF Declare
<1>. HIDE DEF n, types
<1>3. src' = Source(IF rcc.at = "params" THEN Append(src.params, n) ELSE src.params,
                    IF rcc.at = "locals" THEN Append(src.locals, n) ELSE src.locals,
                    IF rcc.at = "vars" THEN Append(src.vars, n) ELSE src.vars,
                    types, src.fun, src.main)
  <2>. DEFINE named == IF rcc.at = "params" THEN Append(src.params, n)
                       ELSE IF rcc.at = "locals" THEN Append(src.locals, n) ELSE Append(src.vars, n)
  <2>1. /\ rcc.at = "params" => src' = [src EXCEPT !.types = types, !.params = named]
        /\ rcc.at = "locals" => src' = [src EXCEPT !.types = types, !.locals = named]
        /\ rcc.at = "vars" => src' = [src EXCEPT !.types = types, !.vars = named]
    BY <1>2
  <2>. HIDE DEF named
  <2>2. PICK p, l, v, t, f, b : src = Source(p, l, v, t, f, b)
    BY <1>0 DEF IsSource
  <2>3. rcc.at = "params" => src' = Source(named, l, v, types, f, b)
    BY <2>1, <2>2 DEF Source
  <2>4. rcc.at = "locals" => src' = Source(p, named, v, types, f, b)
    BY <2>1, <2>2 DEF Source
  <2>5. rcc.at = "vars" => src' = Source(p, l, named, types, f, b)
    BY <2>1, <2>2 DEF Source
  <2>6. /\ src.params = p /\ src.locals = l /\ src.vars = v
        /\ src.fun = f /\ src.main = b
    BY <2>2 DEF Source
  <2>. QED BY <1>1, <2>3, <2>4, <2>5, <2>6 DEF named
<1>4. IsSource(src') /\ src'.types = types /\ src'.fun = src.fun /\ src'.main = src.main
  BY <1>3 DEF IsSource, Source
<1>5. /\ src'.params = IF rcc.at = "params" THEN Append(src.params, n) ELSE src.params
      /\ src'.locals = IF rcc.at = "locals" THEN Append(src.locals, n) ELSE src.locals
      /\ src'.vars = IF rcc.at = "vars" THEN Append(src.vars, n) ELSE src.vars
  BY <1>3 DEF Source
<1>6. /\ IsList(src'.params) /\ IsList(src'.locals) /\ IsList(src'.vars)
      /\ Elements(src'.params) = Elements(src.params) \cup IF rcc.at = "params" THEN {n} ELSE {}
      /\ Elements(src'.locals) = Elements(src.locals) \cup IF rcc.at = "locals" THEN {n} ELSE {}
      /\ Elements(src'.vars) = Elements(src.vars) \cup IF rcc.at = "vars" THEN {n} ELSE {}
  BY <1>0, <1>5, ListGrows DEF Scoped
<1>7. Scoped(src', rcc')
  <2>1. rcc'.scope = FunNames(src') \cup Elements(src'.vars)
    BY <1>0, <1>1, <1>6 DEF Scoped, FunNames
  <2>2. types = [k \in rcc'.scope |-> "I"]
    <3>1. src.types = [k \in rcc.scope |-> "I"]
      BY <1>0 DEF Scoped
    <3>. QED BY <1>1, <3>1 DEF types
  <2>. QED BY <1>4, <1>6, <2>1, <2>2 DEF Scoped
<1>8. Grown(src'.fun, FunNames(src')) /\ Grown(src'.main, MainNames(src'))
  <2>1. CASE rcc.at \in {"params", "locals"}
    BY <1>0, <1>4, <2>1, EmptyLists DEF Placed
  <2>2. CASE rcc.at = "vars"
    <3>1. FunNames(src') = FunNames(src) /\ src.main = <<>>
      BY <1>0, <1>6, <2>2 DEF FunNames, Placed
    <3>. QED BY <1>0, <1>4, <3>1, EmptyLists
  <2>. QED BY <1>1, <2>1, <2>2
<1>9. Placed(src', rcc') /\ InHand(src', rcc')
  <2>1. Len(src.params) \in Nat /\ Len(Append(src.params, n)) = Len(src.params) + 1
    BY <1>0, ListGrows DEF Scoped
  <2>2. CASE rcc.at = "params"
    <3>1. src'.params = Append(src.params, n) /\ src'.locals = src.locals /\ src'.vars = src.vars
      BY <1>5, <2>2
    <3>2. Len(src'.params) = Len(src.params) + 1 /\ Len(src.params) \in {0, 1}
      BY <1>0, <2>1, <2>2, <3>1 DEF Placed
    <3>3. rcc'.at = (IF Len(src.params) = 1 THEN "locals" ELSE "params") /\ rcc'.block = rcc.block
      BY <1>1, <2>2
    <3>4. rcc.block = "fun" /\ src.fun = <<>> /\ src.vars = <<>> /\ src.main = <<>>
      BY <1>0, <2>2 DEF Placed
    <3>5. CASE Len(src.params) = 0
      BY <1>4, <3>1, <3>2, <3>3, <3>4, <3>5 DEF Placed, InHand
    <3>6. CASE Len(src.params) = 1
      BY <1>4, <3>1, <3>2, <3>3, <3>4, <3>6 DEF Placed, InHand
    <3>. QED BY <3>2, <3>5, <3>6
  <2>3. CASE rcc.at = "locals"
    BY <1>0, <1>1, <1>4, <1>5, <2>3 DEF Placed, InHand
  <2>4. CASE rcc.at = "vars"
    BY <1>0, <1>1, <1>4, <1>5, <2>4 DEF Placed, InHand
  <2>. QED BY <1>1, <2>2, <2>3, <2>4
<1>. QED BY <1>1, <1>4, <1>7, <1>8, <1>9 DEF ParserOK

\* The names that have a value behind the items of the block that is being read.
KnownHere(s, r) ==
  IF r.block = "fun" THEN AllKnown(s.fun, FunNames(s)) ELSE AllKnown(s.main, MainNames(s))

\* What is in scope has a value.
LEMMA InScopeIsKnown == ASSUME ParserOK(src, rcc) PROVE rcc.scope \subseteq KnownHere(src, rcc)
<1>1. CASE rcc.block = "fun"
  <2>1. rcc.scope = FunNames(src)
    BY <1>1, EmptyLists DEF ParserOK, Placed, Scoped
  <2>. QED BY <1>1, <2>1 DEF KnownHere, AllKnown, Known
<1>2. CASE rcc.block # "fun"
  <2>1. rcc.scope \subseteq MainNames(src)
    BY DEF ParserOK, Scoped, MainNames, Known
  <2>. QED BY <1>2, <2>1 DEF KnownHere, AllKnown, Known
<1>. QED BY <1>1, <1>2

\* A statement, or a product in it, is an item of its block.
LEMMA ItemOK ==
  ASSUME ParserOK(src, rcc), NEW i, src' = WithItem(i),
         i.kind \in {"arith", "write", "return"},
         Usable(i.x, KnownHere(src, rcc)), Usable(i.y, KnownHere(src, rcc)), Integral(i),
         i.kind = "arith" => i.op \in {"+", "-", "*", "/"},
         rcc'.scope = rcc.scope, rcc'.block = rcc.block,
         rcc.at \in {"operand", "operator"}, rcc'.at \in {"statement", "operator"}
  PROVE  /\ IsSource(src') /\ Scoped(src', rcc') /\ Placed(src', rcc')
         /\ Grown(src'.fun, FunNames(src')) /\ Grown(src'.main, MainNames(src'))
         /\ KnownHere(src', rcc') =
              KnownHere(src, rcc) \cup IF i.kind = "arith" THEN {i.dest} ELSE {}
<1>0. /\ IsSource(src) /\ Scoped(src, rcc) /\ Placed(src, rcc)
      /\ Grown(src.fun, FunNames(src)) /\ Grown(src.main, MainNames(src))
  BY DEF ParserOK
<1>1. PICK p, l, v, t, f, b : src = Source(p, l, v, t, f, b)
  BY <1>0 DEF IsSource
<1>2. CASE rcc.block = "fun"
  <2>. DEFINE g == Append(src.fun, i)
  <2>1. src' = [src EXCEPT !.fun = g]
    BY <1>2 DEF WithItem
  <2>2. Grown(g, FunNames(src)) /\ AllKnown(g, FunNames(src)) =
          AllKnown(src.fun, FunNames(src)) \cup IF i.kind = "arith" THEN {i.dest} ELSE {}
    BY <1>0, <1>2, Grows DEF KnownHere
  <2>. HIDE DEF g
  <2>3. src' = Source(p, l, v, t, g, b)
    BY <1>1, <2>1 DEF Source
  <2>4. /\ IsSource(src') /\ src'.fun = g /\ src'.main = src.main /\ src'.params = src.params
        /\ src'.locals = src.locals /\ src'.vars = src.vars /\ src'.types = src.types
    BY <1>1, <2>3 DEF IsSource, Source
  <2>5. FunNames(src') = FunNames(src) /\ src'.main = <<>>
    BY <1>0, <1>2, <2>4 DEF FunNames, Placed
  <2>6. Scoped(src', rcc') /\ Placed(src', rcc')
    BY <1>0, <1>2, <2>4, <2>5 DEF Scoped, Placed
  <2>7. Grown(src'.fun, FunNames(src')) /\ Grown(src'.main, MainNames(src'))
    BY <2>2, <2>4, <2>5, EmptyLists
  <2>. QED BY <1>2, <2>2, <2>4, <2>5, <2>6, <2>7 DEF KnownHere
<1>3. CASE rcc.block # "fun"
  <2>. DEFINE g == Append(src.main, i)
  <2>1. src' = [src EXCEPT !.main = g]
    BY <1>3 DEF WithItem
  <2>2. Grown(g, MainNames(src)) /\ AllKnown(g, MainNames(src)) =
          AllKnown(src.main, MainNames(src)) \cup IF i.kind = "arith" THEN {i.dest} ELSE {}
    BY <1>0, <1>3, Grows DEF KnownHere
  <2>. HIDE DEF g
  <2>3. src' = Source(p, l, v, t, f, g)
    BY <1>1, <2>1 DEF Source
  <2>4. /\ IsSource(src') /\ src'.fun = src.fun /\ src'.main = g /\ src'.params = src.params
        /\ src'.locals = src.locals /\ src'.vars = src.vars /\ src'.types = src.types
    BY <1>1, <2>3 DEF IsSource, Source
  <2>5. FunNames(src') = FunNames(src) /\ MainNames(src') = MainNames(src)
    BY <2>4 DEF FunNames, MainNames
  <2>6. Scoped(src', rcc') /\ Placed(src', rcc')
    BY <1>0, <1>3, <2>4, <2>5 DEF Scoped, Placed
  <2>7. Grown(src'.fun, FunNames(src')) /\ Grown(src'.main, MainNames(src'))
    BY <1>0, <2>2, <2>4, <2>5
  <2>. QED BY <1>3, <2>2, <2>4, <2>5, <2>6, <2>7 DEF KnownHere
<1>. QED BY <1>2, <1>3

\* Names with a value, and the literal that fills an item up, are operands.
LEMMA NamesUsable ==
  ASSUME NEW n, NEW names
  PROVE  n \in names => Usable(Name(n), names) /\ Name(n).t # "real"
BY DEF Usable, Name, Tok

LEMMA LiteralUsable == ASSUME NEW names PROVE Usable(IntLit(0), names) /\ IntLit(0).t # "real"
BY DEF Usable, IntLit, Tok

\* An operand is in scope; the temporary for a product is the operand in hand.
LEMMA OperandOK ==
  ASSUME IsParser(rcc), ParserOK(src, rcc), Operand, CanGet(Text(Word))
  PROVE  ParserOK(src', rcc') /\ phase' = phase
<1>. DEFINE n == Text(Word)
            t == "@" \o rcc.block \o ToString(Len(Items))
<1>0. /\ IsSource(src) /\ Scoped(src, rcc) /\ Placed(src, rcc) /\ InHand(src, rcc)
      /\ Grown(src.fun, FunNames(src)) /\ Grown(src.main, MainNames(src))
  BY DEF ParserOK
<1>1. rcc.at = "operand" /\ phase' = phase /\ n \in rcc.scope
  BY DEF Operand, TokenIs, Go, CanGet
<1>2. /\ rcc.left = <<>> => /\ rcc' = [[Moved EXCEPT !.left = <<Name(n)>>] EXCEPT !.at = "operator"]
                            /\ src' = src
      /\ rcc.left # <<>> => /\ rcc' = [[Moved EXCEPT !.left = <<Name(t)>>] EXCEPT !.at = "operator"]
                            /\ src' = WithItem(ArithItem(t, rcc.left[1], rcc.op, Name(n)))
  BY DEF Operand, Go
<1>. HIDE DEF n, t
<1>3. Usable(Name(n), KnownHere(src, rcc)) /\ Name(n).t # "real"
  BY <1>1, InScopeIsKnown, NamesUsable
<1>4. CASE rcc.left = <<>>
  <2>1. /\ rcc'.at = "operator" /\ rcc'.left = <<Name(n)>> /\ rcc'.scope = rcc.scope
        /\ rcc'.block = rcc.block /\ src' = src
    BY <1>2, <1>4 DEF Moved, IsParser
  <2>2. rcc'.left[1] = Name(n)
    BY <2>1
  <2>3. InHand(src, rcc')
    BY <1>3, <2>1, <2>2 DEF InHand, KnownHere
  <2>4. Scoped(src, rcc') /\ Placed(src, rcc')
    BY <1>0, <1>1, <2>1 DEF Scoped, Placed
  <2>. QED BY <1>0, <1>1, <2>1, <2>3, <2>4 DEF ParserOK
<1>5. CASE rcc.left # <<>>
  <2>1. /\ rcc'.at = "operator" /\ rcc'.left = <<Name(t)>> /\ rcc'.scope = rcc.scope
        /\ rcc'.block = rcc.block
    BY <1>2, <1>5 DEF Moved, IsParser
  <2>. DEFINE i == ArithItem(t, rcc.left[1], rcc.op, Name(n))
  <2>2. i.kind = "arith" /\ i.dest = t /\ i.x = rcc.left[1] /\ i.y = Name(n) /\ i.op = rcc.op
    BY DEF ArithItem, Item
  <2>3. src' = WithItem(i)
    BY <1>2, <1>5
  <2>. HIDE DEF i
  <2>4. Usable(i.x, KnownHere(src, rcc)) /\ i.op \in {"+", "-", "*", "/"} /\ Integral(i)
    BY <1>0, <1>1, <1>3, <1>5, <2>2 DEF InHand, KnownHere, MulOps, Integral
  <2>5. /\ IsSource(src') /\ Scoped(src', rcc') /\ Placed(src', rcc')
        /\ Grown(src'.fun, FunNames(src')) /\ Grown(src'.main, MainNames(src'))
        /\ KnownHere(src', rcc') = KnownHere(src, rcc) \cup {t}
    BY <1>1, <1>3, <2>1, <2>2, <2>3, <2>4, ItemOK
  <2>6. Usable(Name(t), KnownHere(src', rcc')) /\ Name(t).t # "real" /\ rcc'.left[1] = Name(t)
    <3>1. t \in KnownHere(src', rcc') /\ rcc'.left[1] = Name(t)
      BY <2>1, <2>5
    <3>. QED BY <3>1, NamesUsable
  <2>7. InHand(src', rcc')
    BY <2>1, <2>6 DEF InHand, KnownHere
  <2>. QED BY <1>1, <2>5, <2>7 DEF ParserOK
<1>. QED BY <1>4, <1>5

\* What is written or returned is the operand in hand.
LEMMA ReduceOK ==
  ASSUME IsParser(rcc), ParserOK(src, rcc), Reduce
  PROVE  ParserOK(src', rcc') /\ phase' = phase
<1>. DEFINE i == IF rcc.stmt = "write" THEN WriteItem(rcc.left[1]) ELSE ReturnItem(rcc.left[1])
<1>1. /\ rcc.at = "operator" /\ phase' = phase /\ src' = WithItem(i)
      /\ rcc'.at = "statement" /\ rcc'.scope = rcc.scope /\ rcc'.block = rcc.block
  BY DEF Reduce, TokenIs, Go, Moved, IsParser
<1>2. i.kind \in {"write", "return"} /\ i.x = rcc.left[1] /\ i.y = IntLit(0)
  BY DEF WriteItem, ReturnItem, Item
<1>. HIDE DEF i
<1>3. Usable(i.x, KnownHere(src, rcc)) /\ Usable(i.y, KnownHere(src, rcc)) /\ Integral(i)
  BY <1>1, <1>2, LiteralUsable DEF ParserOK, InHand, KnownHere, Integral
<1>4. /\ IsSource(src') /\ Scoped(src', rcc') /\ Placed(src', rcc')
      /\ Grown(src'.fun, FunNames(src')) /\ Grown(src'.main, MainNames(src'))
  BY <1>1, <1>2, <1>3, ItemOK
<1>5. InHand(src', rcc')
  BY <1>1 DEF InHand
<1>. QED BY <1>1, <1>4, <1>5 DEF ParserOK

\* A return in the main block is remembered.
ReturnsNoted(s, r) ==
  /\ r.at \in {"operand", "operator"} => r.stmt \in {"write", "return"}
  /\ r.block = "main" /\ ~r.returned => \A j \in DOMAIN s.main : s.main[j].kind # "return"

LEMMA ReturnsRemembered ==
  ASSUME IsParser(rcc), ParserOK(src, rcc), ReturnsNoted(src, rcc), phase' = "parse",
         \/ FunctionWord \/ Declare \/ BeginWord \/ StatementWord
         \/ Operand \/ Operator \/ Reduce \/ FunctionEndWord \/ ProgramWord
  PROVE  ReturnsNoted(src', rcc')
<1>. USE DEF TokenIs, Go, Moved, IsParser
<1>0. IsSource(src) /\ Placed(src, rcc) /\ IsList(src.main)
  BY DEF ParserOK, Grown
<1>1. PICK p, l, v, t, f, b : src = Source(p, l, v, t, f, b)
  BY <1>0 DEF IsSource
<1>2. rcc'.at \in {"operand", "operator"} => rcc'.stmt \in {"write", "return"}
  <2>1. CASE StatementWord
    BY <2>1 DEF StatementWord
  <2>2. CASE FunctionWord \/ BeginWord \/ FunctionEndWord \/ ProgramWord \/ Reduce
    BY <2>2 DEF FunctionWord, BeginWord, FunctionEndWord, ProgramWord, Reduce
  <2>3. CASE Operator
    BY <2>3 DEF Operator, ReturnsNoted
  <2>4. CASE Declare \/ Operand
    <3>1. ~Fail
      BY DEF Fail, RccEnds, Exit
    <3>. QED BY <2>4, <3>1 DEF Declare, Operand, ReturnsNoted
  <2>. QED BY <2>1, <2>2, <2>3, <2>4
<1>3. ASSUME NEW i, src' = WithItem(i), rcc'.block = rcc.block,
             ~rcc'.returned => ~rcc.returned /\ i.kind # "return"
      PROVE  ReturnsNoted(src', rcc')
  <2>. SUFFICES ASSUME rcc.block = "main", ~rcc.returned, i.kind # "return"
                PROVE  \A j \in DOMAIN src'.main : src'.main[j].kind # "return"
    BY <1>2, <1>3 DEF ReturnsNoted
  <2>1. src'.main = Append(src.main, i)
    BY <1>1, <1>3 DEF WithItem, Source
  <2>2. src.main \in Seq({src.main[n] : n \in DOMAIN src.main})
    BY <1>0 DEF IsList
  <2>3. \A j \in DOMAIN src'.main : src'.main[j] = i \/ (j \in DOMAIN src.main /\ src'.main[j] = src.main[j])
    <3>. DEFINE S == {src.main[n] : n \in DOMAIN src.main} \cup {i}
    <3>1. src.main \in Seq(S)
      BY <2>2
    <3>. HIDE DEF S
    <3>. QED BY <2>1, <3>1, AppendProperties
  <2>. QED BY <2>3 DEF ReturnsNoted
<1>. DEFINE Kept == src'.main = src.main /\ rcc'.block = rcc.block /\ rcc'.returned = rcc.returned
<1>4. CASE Kept
  BY <1>2, <1>4 DEF ReturnsNoted
<1>10. CASE FunctionWord \/ BeginWord \/ StatementWord \/ Operator \/ ProgramWord
  BY <1>4, <1>10 DEF FunctionWord, BeginWord, StatementWord, Operator, ProgramWord
<1>5. CASE FunctionEndWord
  <2>1. src'.main = <<>>
    BY <1>0, <1>5 DEF FunctionEndWord, Placed
  <2>. QED BY <1>2, <2>1 DEF ReturnsNoted
<1>6. CASE Declare
  <2>1. ~Fail
    BY DEF Fail, RccEnds, Exit
  <2>2. Kept
    BY <1>1, <1>6, <2>1, ZenonT(60) DEF Declare, Source
  <2>. QED BY <1>4, <2>2
<1>7. CASE Operand
  <2>1. ~Fail
    BY DEF Fail, RccEnds, Exit
  <2>. DEFINE w == ArithItem("@" \o rcc.block \o ToString(Len(Items)), rcc.left[1], rcc.op,
                             Name(Text(Word)))
  <2>2. w.kind = "arith"
    BY DEF ArithItem, Item
  <2>3. /\ rcc'.block = rcc.block /\ rcc'.returned = rcc.returned
        /\ src' = src \/ src' = WithItem(w)
    BY <1>7, <2>1 DEF Operand
  <2>. HIDE DEF w
  <2>4. CASE src' = WithItem(w)
    BY <1>3, <2>2, <2>3, <2>4
  <2>. QED BY <1>4, <2>3, <2>4
<1>8. CASE Reduce
  <2>. DEFINE w == IF rcc.stmt = "write" THEN WriteItem(rcc.left[1]) ELSE ReturnItem(rcc.left[1])
  <2>1. /\ rcc'.block = rcc.block /\ rcc'.returned = (rcc.returned \/ rcc.stmt = "return")
        /\ src' = WithItem(w)
    BY <1>8 DEF Reduce
  <2>2. w.kind = "return" <=> rcc.stmt # "write"
    BY DEF WriteItem, ReturnItem, Item
  <2>. HIDE DEF w
  <2>3. rcc.stmt \in {"write", "return"}
    BY <1>8 DEF Reduce, ReturnsNoted
  <2>. QED BY <1>3, <2>1, <2>2, <2>3
<1>. QED BY <1>10, <1>5, <1>6, <1>7, <1>8

\* At the end of the main block the program is complete.
LEMMA EndOK ==
  ASSUME ParserOK(src, rcc), ReturnsNoted(src, rcc), rcc.at = "statement", rcc.block = "main",
         ~rcc.returned
  PROVE  Accepted(src) /\ AllInteger
<1>1. /\ IsSource(src) /\ Scoped(src, rcc) /\ Placed(src, rcc)
      /\ Grown(src.fun, FunNames(src)) /\ Grown(src.main, MainNames(src))
  BY DEF ParserOK
<1>2. src.ret = "I" /\ Len(src.params) = 2
  BY <1>1 DEF IsSource, Source, Placed
<1>3. \A n \in FunNames(src) \cup Elements(src.vars) : src.types[n] = "I"
  BY <1>1 DEF Scoped
<1>4. /\ IsList(src.params) /\ IsList(src.locals) /\ IsList(src.vars)
      /\ IsList(src.fun) /\ IsList(src.main)
  BY <1>1 DEF Scoped, Grown
<1>5. /\ \A j \in DOMAIN src.fun : AcceptedItem(src.fun, j, Known(FunNames(src), src.fun, j))
      /\ \A j \in DOMAIN src.main : AcceptedItem(src.main, j, Known(MainNames(src), src.main, j))
  BY <1>1 DEF Grown
<1>6. Accepted(src)
  <2>1. \A j \in DOMAIN src.main : src.main[j].kind # "return"
    BY DEF ReturnsNoted
  <2>. QED BY <1>2, <1>3, <1>4, <1>5, <2>1 DEF Accepted, FunNames, MainNames, Elements
<1>7. AllInteger
  BY <1>1, <1>2, <1>3 DEF AllInteger, FunNames, Declared, Grown, Integral
<1>. QED BY <1>6, <1>7

\* Generating code, from the complete program to the file.
Generating == {"function", "fun", "program", "main", "output"}

ParserIInv ==
  /\ phase = "parse" => /\ ParserOK(src, rcc) /\ ReturnsNoted(src, rcc)
                        /\ cc = NoCode /\ prog = <<>>
  /\ phase \in Generating => IInv /\ AllInteger

\* The invariant of Calls holds when the compiler starts on what has been parsed,
LEMMA BeginsIInv ==
  ASSUME Accepted(src), AllInteger, src' = src, phase' = "function", cc' = NoCode, prog' = <<>>
  PROVE  IInv' /\ AllInteger'
<1>1. CC' = CC /\ AllInteger' = AllInteger
  BY SameTypes
<1>2. Accepted(src')
  OBVIOUS
<1>3. cc' \in CC'
  BY <1>1, NoCodeType
<1>. QED BY <1>1, <1>2, <1>3 DEF IInv, Compiling, Loading

\* and as long as it translates: where all is INTEGER no cast can fail.
LEMMA TranslateIInv ==
  ASSUME IInv, AllInteger, Translate
  PROVE  IInv' /\ AllInteger' /\ phase' \in Generating
<1>1. src' = src /\ phase' \in Generating \cup {"error"}
  BY DEF Translate, FunctionHeader, CodeItem, FunctionEnd, MainHeader, MainEnd, Compile, Generating
<1>2. AllInteger'
  BY <1>1, SameTypes
<1>3. IInv'
  BY HeaderIInv, CodeItemIInv, FunctionEndIInv, MainHeaderIInv, MainEndIInv DEF Translate
<1>. QED BY <1>1, <1>2, <1>3 DEF IInv

\* Of the steps of the parser all but the last keep to the parse, or end it.
LEMMA ParserSteps ==
  ASSUME IsParser(rcc), ParserIInv, phase = "parse",
         \/ SyntaxError \/ FunctionWord \/ Declare \/ BeginWord \/ StatementWord
         \/ Operand \/ Operator \/ Reduce \/ FunctionEndWord \/ ProgramWord \/ ProgramEnd
  PROVE  /\ ParserIInv' /\ phase' \in {"parse", "prompt", "function"}
         /\ cmd' = cmd /\ given' = given
         /\ IF phase' = "prompt" THEN RccEnds(1) ELSE fs' = fs /\ exit' = exit
<1>0. ParserOK(src, rcc) /\ ReturnsNoted(src, rcc) /\ cc = NoCode /\ prog = <<>>
  BY DEF ParserIInv
<1>1. ASSUME Fail
      PROVE  /\ phase' = "prompt" /\ cc' = cc /\ prog' = prog
             /\ RccEnds(1) /\ cmd' = cmd /\ given' = given
  BY <1>1 DEF Fail, RccEnds, Exit
<1>2. ASSUME NEW q, NEW at, Go(q, at)
      PROVE  /\ phase' = phase /\ cc' = cc /\ prog' = prog
             /\ fs' = fs /\ cmd' = cmd /\ given' = given /\ exit' = exit
  BY <1>2 DEF Go
<1>3. /\ cc' = cc /\ prog' = prog /\ cmd' = cmd /\ given' = given
      /\ IF phase' = "prompt" THEN RccEnds(1) ELSE fs' = fs /\ exit' = exit
      /\ phase' \in {phase, "prompt"} \/ (ProgramEnd /\ ~Returns /\ phase' = "function")
  <2>1. CASE SyntaxError
    BY <1>1, <2>1 DEF SyntaxError
  <2>2. CASE \/ FunctionWord \/ BeginWord \/ StatementWord \/ Operator \/ FunctionEndWord
              \/ ProgramWord \/ Reduce
    BY <1>2, <2>2 DEF FunctionWord, BeginWord, StatementWord, Operator, FunctionEndWord,
                      ProgramWord, Reduce
  <2>3. CASE Declare
    BY <1>1, <1>2, <2>3 DEF Declare
  <2>4. CASE Operand
    BY <1>1, <1>2, <2>4 DEF Operand
  <2>5. CASE ProgramEnd
    BY <1>1, <2>5 DEF ProgramEnd
  <2>. QED BY <2>1, <2>2, <2>3, <2>4, <2>5
<1>4. phase' = "parse" => ParserOK(src', rcc')
  <2>1. CASE SyntaxError
    BY <1>1, <2>1 DEF SyntaxError
  <2>2. CASE \/ FunctionWord \/ BeginWord \/ StatementWord \/ Operator \/ FunctionEndWord
              \/ ProgramWord
    BY <1>0, <2>2, WordsOK
  <2>3. CASE Declare
    <3>1. ~CanAdd(Text(Word)) => Fail
      BY <2>3 DEF Declare
    <3>. QED BY <1>0, <1>1, <2>3, <3>1, DeclareOK
  <2>4. CASE Operand
    <3>1. ~CanGet(Text(Word)) => Fail
      BY <2>4 DEF Operand
    <3>. QED BY <1>0, <1>1, <2>4, <3>1, OperandOK
  <2>5. CASE Reduce
    BY <1>0, <2>5, ReduceOK
  <2>6. CASE ProgramEnd
    BY <1>1, <2>6 DEF ProgramEnd
  <2>. QED BY <2>1, <2>2, <2>3, <2>4, <2>5, <2>6
<1>5. phase' \in Generating => IInv' /\ AllInteger'
  <2>. SUFFICES ASSUME phase' \in Generating PROVE IInv' /\ AllInteger'
    OBVIOUS
  <2>1. ProgramEnd /\ ~Returns /\ phase' = "function"
    BY <1>3 DEF Generating
  <2>2. rcc.at = "statement" /\ rcc.block = "main" /\ ~rcc.returned /\ src' = src
    BY <2>1 DEF ProgramEnd, TokenIs, Returns
  <2>3. Accepted(src) /\ AllInteger
    BY <1>0, <2>2, EndOK
  <2>. QED BY <1>0, <1>3, <2>1, <2>2, <2>3, BeginsIInv
<1>6. phase' = "parse" => ReturnsNoted(src', rcc')
  <2>1. CASE SyntaxError \/ ProgramEnd
    BY <1>1, <2>1 DEF SyntaxError, ProgramEnd
  <2>. QED BY <1>0, <2>1, ReturnsRemembered
<1>. QED BY <1>0, <1>3, <1>4, <1>5, <1>6 DEF ParserIInv

\* The other steps keep the program from the parser to the file.
LEMMA OtherSteps ==
  ASSUME ParserIInv,
         \/ RccRefuses \/ LexicalError \/ RegistersRunOut \/ Translate \/ RccWrites \/ RccExits
         \/ RxStarts \/ RxLoads \/ RxExits \/ LoggedOut
         \/ UNCHANGED <<vars, tvars>>
  PROVE  ParserIInv'
<1>0. "parse" \notin Generating /\ "prompt" \notin Generating
  BY DEF Generating
<1>1. ASSUME phase' \notin Generating, phase' # "parse" PROVE ParserIInv'
  BY <1>1 DEF ParserIInv
<1>2. CASE RccRefuses
  BY <1>0, <1>1, <1>2 DEF RccRefuses, Exit
<1>3. CASE LexicalError
  BY <1>0, <1>1, <1>3 DEF LexicalError, RccEnds, Exit
<1>4. CASE RegistersRunOut
  BY <1>0, <1>1, <1>4 DEF RegistersRunOut, RccEnds, Exit
<1>5. CASE Translate
  <2>1. phase \in Generating
    BY <1>5 DEF Translate, FunctionHeader, CodeItem, FunctionEnd, MainHeader, MainEnd, Generating
  <2>2. IInv' /\ AllInteger' /\ phase' \in Generating
    BY <1>5, <2>1, TranslateIInv DEF ParserIInv
  <2>. QED BY <1>0, <2>2 DEF ParserIInv
<1>6. CASE RccWrites
  BY <1>1, <1>6 DEF RccWrites, WriteFile, Generating
<1>7. CASE RccExits
  BY <1>0, <1>1, <1>7 DEF RccExits, RccEnds, Exit
<1>8. CASE RxStarts
  <2>1. phase' \in {"load", "prompt"}
    BY <1>8 DEF RxStarts, Exit
  <2>. QED BY <1>1, <2>1 DEF Generating
<1>9. CASE RxLoads
  <2>1. phase' \in {"load", "overrun", "rejected"}
    BY <1>9 DEF RxLoads, LoadLine
  <2>. QED BY <1>1, <2>1 DEF Generating
<1>10. CASE RxExits
  BY <1>0, <1>1, <1>10 DEF RxExits, Exit
<1>11. CASE LoggedOut \/ UNCHANGED <<vars, tvars>>
  <2>1. /\ src' = src /\ phase' = phase /\ cc' = cc /\ file' = file /\ prog' = prog /\ rcc' = rcc
    BY <1>11 DEF LoggedOut, vars, tvars
  <2>2. IInv /\ AllInteger => IInv' /\ AllInteger'
    BY <2>1, RestIInv, SameTypes
  <2>. QED BY <2>1, <2>2 DEF ParserIInv
<1>. QED
  BY <1>2, <1>3, <1>4, <1>5, <1>6, <1>7, <1>8, <1>9, <1>10, <1>11

\* What a parser has read does not depend on its position.
LEMMA PositionIrrelevant ==
  ASSUME IsParser(rcc), NEW next, ParserOK(src, rcc), ReturnsNoted(src, rcc)
  PROVE  ParserOK(src, [rcc EXCEPT !.pos = next]) /\ ReturnsNoted(src, [rcc EXCEPT !.pos = next])
<1>. DEFINE r == [rcc EXCEPT !.pos = next]
<1>1. /\ r.at = rcc.at /\ r.block = rcc.block /\ r.scope = rcc.scope /\ r.left = rcc.left
      /\ r.op = rcc.op /\ r.stmt = rcc.stmt /\ r.returned = rcc.returned
  BY DEF IsParser
<1>. HIDE DEF r
<1>2. ParserOK(src, r) /\ ReturnsNoted(src, r)
  BY <1>1 DEF ParserOK, Scoped, Placed, InHand, ReturnsNoted
<1>. QED BY <1>2 DEF r

\* At every step of the prompt, the parser and the loader.
LEMMA NextParser ==
  ASSUME IsParser(rcc), ParserIInv, [TNext]_<<vars, tvars>>
  PROVE  ParserIInv'
<1>1. CASE RccStarts
  <2>1. phase' = "parse" /\ src' = NoProgram /\ cc' = NoCode /\ prog' = <<>>
    BY <1>1 DEF RccStarts
  <2>2. rcc'.scope = {} /\ rcc'.at = "start" /\ rcc'.block = "fun"
    BY <1>1 DEF RccStarts, NoParser
  <2>3. ParserOK(NoProgram, rcc') /\ ReturnsNoted(NoProgram, rcc')
    BY <2>2, StartsOK DEF ReturnsNoted
  <2>. QED BY <2>1, <2>3 DEF ParserIInv, Generating
<1>2. CASE Comment
  <2>. DEFINE next == Eat(rcc.text)[rcc.pos + 2]
  <2>1. phase = "parse" /\ src' = src /\ cc' = cc /\ prog' = prog
    BY <1>2 DEF Comment, Parsing
  <2>2. phase' = "prompt" \/ (phase' = phase /\ rcc' = [rcc EXCEPT !.pos = next])
    BY <1>2 DEF Comment, RccEnds, Exit
  <2>. HIDE DEF next
  <2>3. ParserOK(src, rcc) /\ ReturnsNoted(src, rcc) /\ cc = NoCode /\ prog = <<>>
    BY <2>1 DEF ParserIInv
  <2>. QED BY <2>1, <2>2, <2>3, PositionIrrelevant DEF ParserIInv, Generating
<1>3. CASE \/ SyntaxError \/ FunctionWord \/ Declare \/ BeginWord \/ StatementWord
            \/ Operand \/ Operator \/ Reduce \/ FunctionEndWord \/ ProgramWord \/ ProgramEnd
  <2>1. phase = "parse"
    BY <1>3 DEF SyntaxError, FunctionWord, Declare, BeginWord, StatementWord, Operand, Operator,
                Reduce, FunctionEndWord, ProgramWord, ProgramEnd, TokenIs, Token, Parsing
  <2>. QED BY <1>3, <2>1, ParserSteps
<1>4. CASE \/ RccRefuses \/ LexicalError \/ RegistersRunOut \/ Translate \/ RccWrites \/ RccExits
            \/ RxStarts \/ RxLoads \/ RxExits \/ LoggedOut
            \/ UNCHANGED <<vars, tvars>>
  BY <1>4, OtherSteps
<1>. QED
  BY <1>1, <1>2, <1>3, <1>4 DEF TNext

\* At the prompt nothing has been parsed.
LEMMA InitParser == TInit => ParserIInv
BY DEF TInit, ParserIInv, Generating

\* Whatever is written, with comments, damage and name clashes: a program of which code
\* is generated is one that Calls, and its theorems, assume.
THEOREM ParsedIsAcceptedHolds == TSpec => []ParsedIsAccepted
<1>. DEFINE Inv == ScannerIInv /\ ParserIInv
<1>1. TInit => Inv
  BY InitScanner, InitParser
<1>2. Inv /\ [TNext]_<<vars, tvars>> => Inv'
  BY NextScanner, NextParser DEF ScannerIInv
<1>3. Inv => ParsedIsAccepted
  BY DEF ParserIInv, ParsedIsAccepted, Generating, IInv
<1>. QED BY <1>1, <1>2, <1>3, PTL DEF TSpec

\* ---- what is in the files -----------------------------------------------------------------

\* A sequence is a list.
LEMMA SeqIsList == ASSUME NEW S, NEW list \in Seq(S) PROVE IsList(list)
<1>. DEFINE E == {list[n] : n \in DOMAIN list}
<1>1. Len(list) \in Nat /\ DOMAIN list = 1 .. Len(list) /\ list = [n \in 1 .. Len(list) |-> list[n]]
  OBVIOUS
<1>2. \A n \in 1 .. Len(list) : list[n] \in E
  BY <1>1
<1>3. list \in Seq(E)
  <2>. HIDE DEF E
  <2>. QED BY <1>1, <1>2
<1>. QED BY <1>3 DEF IsList

\* What is put behind a sequence is its last element.
LEMMA PutBehind ==
  ASSUME NEW S, NEW front \in Seq(S), NEW x \in S, NEW s, s = front \o <<x>>
  PROVE  s \in Seq(S) /\ Len(s) \in Nat \ {0} /\ s # <<>> /\ s[Len(s)] = x
<1>1. <<x>> \in Seq(S) /\ Len(<<x>>) = 1 /\ <<x>>[1] = x
  OBVIOUS
<1>2. PICK one \in Seq(S) : one = <<x>> /\ Len(one) = 1 /\ one[1] = x
  BY <1>1
<1>. QED BY <1>2

\* A flattened sequence ends with its last part.
LEMMA FlattenLast ==
  ASSUME NEW S, NEW seqs, NEW N \in Nat \ {0}, Parts(S, seqs, N)
  PROVE  \E front \in Seq(S) : FlattenSeq(seqs) = front \o seqs[N]
<1>1. PICK F \in [0 .. N -> Seq(S)] : Joins(F, seqs, N)
  BY Flattened
<1>2. N \in 1 .. N /\ N - 1 \in 0 .. N
  OBVIOUS
<1>3. FlattenSeq(seqs) = F[N - 1] \o seqs[N] /\ F[N - 1] \in Seq(S)
  BY <1>1, <1>2 DEF Joins
<1>. QED BY <1>3

\* The code of a complete program ends in a HALT,
IsHalt(i) == i.op = "HALT" /\ i.dest = <<>> /\ i.src0 = <<>> /\ i.src1 = <<>>
EndsInHalt(code) == Len(code) \in Nat \ {0} /\ IsHalt(code[Len(code)])

LEMMA HaltIsLast ==
  ASSUME cc \in CC, MainEnd
  PROVE  EndsInHalt(cc'.code)
<1>1. PICK e : e = EmitLabel(cc, Tok("halt", 0))
  OBVIOUS
<1>2. e \in CC
  <2>1. Tok("halt", 0) \in TokenOf(Int)
    BY DEF Tok, TokenOf, Labels
  <2>2. After(cc, e)
    BY <1>1, <2>1, LabelAfter
  <2>. QED BY <2>2 DEF After
<1>. DEFINE i == [op |-> "HALT", dest |-> <<>>, src0 |-> <<>>, src1 |-> <<>>,
                  block |-> e.block, item |-> e.item]
<1>3. cc' = [e EXCEPT !.code = Append(e.code, i)]
  BY <1>1 DEF MainEnd, Compile, Emit
<1>4. IsHalt(i)
  BY DEF IsHalt
<1>. HIDE DEF i
<1>5. cc'.code = Append(e.code, i)
  BY <1>2, <1>3, Unfolded
<1>6. e.code \in Seq(Emitted \cup {i})
  <2>1. e.code \in Seq(Emitted)
    BY <1>2, Fields
  <2>. QED BY <2>1
<1>7. Len(cc'.code) = Len(e.code) + 1 /\ cc'.code[Len(e.code) + 1] = i /\ Len(e.code) \in Nat
  BY <1>5, <1>6
<1>. QED BY <1>4, <1>7 DEF EndsInHalt

\* and so does its file.
LEMMA FileEndsInHalt ==
  ASSUME cc \in CC, EndsInHalt(cc.code), WriteFile
  PROVE  IsList(file') /\ file' # <<>> /\ Last(file') = Tok("HALT", 0)
<1>1. PICK N \in Nat \ {0} : N = Len(cc.code)
  BY DEF EndsInHalt
<1>2. cc.code \in Seq(Emitted) /\ DOMAIN cc.code = 1 .. N /\ N \in 1 .. N
  BY <1>1, Fields
<1>3. PICK code : /\ code = Sized([n \in DOMAIN cc.code |-> Valued(cc.code[n])])
                  /\ file' = FlattenSeq([l \in DOMAIN code |-> Written(code[l])])
  BY DEF WriteFile
<1>4. PICK V : V = Numbers
  OBVIOUS
<1>5. code \in Seq(Loadable(V))
  BY <1>3, <1>4, SizedLoads
<1>6. Symbols \subseteq TokenOf(V)
  BY <1>4 DEF Symbols, TokenOf, Numbers
<1>7. PICK M \in Nat \ {0} : M = Len(code) /\ IsHalt(code[M])
  <2>1. PICK q : q = [n \in DOMAIN cc.code |-> Valued(cc.code[n])]
    OBVIOUS
  <2>2. DOMAIN q = 1 .. N /\ q[N] = Valued(cc.code[N])
    BY <1>2, <2>1
  <2>3. IsHalt(q[N])
    <3>1. PICK i \in Emitted : i = cc.code[N]
      BY <1>2, ElementOfSeq
    <3>2. Valued(i).op = i.op /\ Valued(i).dest = i.dest
      BY ValuedFields
    <3>3. IsHalt(i)
      BY <1>1, <3>1 DEF EndsInHalt
    <3>4. Valued(i).src0 = <<>> /\ Valued(i).src1 = <<>>
      <4>1. ValuedSeq(<<>>) = <<>>
        BY DEF ValuedSeq
      <4>2. Valued(i).src0 = ValuedSeq(i.src0) /\ Valued(i).src1 = ValuedSeq(i.src1)
        BY ValuedFields
      <4>. QED BY <3>3, <4>1, <4>2 DEF IsHalt
    <3>. QED BY <2>2, <3>1, <3>2, <3>3, <3>4 DEF IsHalt
  <2>. DEFINE T == {q[n] : n \in 1 .. N}
  <2>4. PICK seqs : seqs = [n \in 1 .. N |-> IF q[n].op = "LABEL" THEN <<>> ELSE <<q[n]>>]
    OBVIOUS
  <2>5. ASSUME NEW n \in 1 .. N PROVE seqs[n] \in Seq(T)
    <3>1. q[n] \in T
      OBVIOUS
    <3>. HIDE DEF T
    <3>2. <<q[n]>> \in Seq(T) /\ <<>> \in Seq(T)
      BY <3>1, One, None
    <3>. QED BY <2>4, <3>2
  <2>6. Parts(T, seqs, N)
    <3>1. Len(seqs) = N
      BY <2>4
    <3>. HIDE DEF T
    <3>. QED BY <2>5, <3>1 DEF Parts
  <2>7. PICK front \in Seq(T) : FlattenSeq(seqs) = front \o seqs[N]
    <3>. HIDE DEF T
    <3>. QED BY <2>6, FlattenLast
  <2>8. seqs[N] = <<q[N]>> /\ q[N] \in T
    BY <1>2, <2>3, <2>4 DEF IsHalt
  <2>9. code = FlattenSeq(seqs)
    BY <1>3, <2>1, <2>2, <2>4 DEF Sized
  <2>. HIDE DEF T
  <2>10. Len(code) \in Nat \ {0} /\ code[Len(code)] = q[N]
    <3>1. PICK last \in T : last = q[N]
      BY <2>8
    <3>2. code = front \o <<last>>
      BY <2>7, <2>8, <2>9, <3>1
    <3>. QED BY <3>1, <3>2, PutBehind
  <2>. QED BY <2>3, <2>10
<1>8. DOMAIN code = 1 .. M /\ \A l \in 1 .. M : code[l] \in Loadable(V)
  BY <1>5, <1>7, ElementOfSeq
<1>9. PICK T : T = Words(V)
  OBVIOUS
<1>10. PICK lines : lines = [l \in 1 .. M |-> Written(code[l])]
  OBVIOUS
<1>11. Parts(T, lines, M)
  <2>1. Len(lines) = M
    BY <1>10
  <2>2. \A l \in 1 .. M : lines[l] \in Seq(T)
    BY <1>6, <1>8, <1>9, <1>10, WrittenType
  <2>. QED BY <2>1, <2>2 DEF Parts
<1>12. PICK front \in Seq(T) : FlattenSeq(lines) = front \o lines[M]
  BY <1>11, FlattenLast
<1>13. file' = FlattenSeq(lines)
  BY <1>3, <1>8, <1>10
<1>14. lines[M] = <<Tok("HALT", 0)>> /\ Tok("HALT", 0) \in T
  <2>1. PICK i \in Loadable(V) : i = code[M]
    BY <1>8
  <2>2. Written(i) = <<Tok(i.op, 0)>> \o Given(i) /\ Tok(i.op, 0) \in T
    BY <1>6, <1>9, WrittenType
  <2>3. Given(i) = <<>> /\ i.op = "HALT"
    BY <1>7, <2>1 DEF IsHalt, Given
  <2>4. lines[M] = Written(i)
    BY <1>10, <2>1
  <2>5. ASSUME NEW x PROVE <<x>> \o <<>> = <<x>>
    OBVIOUS
  <2>. QED BY <2>2, <2>3, <2>4, <2>5
<1>15. file' \in Seq(T) /\ Len(file') \in Nat \ {0} /\ file' # <<>> /\ file'[Len(file')] = Tok("HALT", 0)
  BY <1>12, <1>13, <1>14, PutBehind
<1>16. IsList(file')
  BY <1>15, SeqIsList
<1>. QED BY <1>15, <1>16 DEF Last

\* ---- what a command leaves behind ------------------------------------------------------------

ListsIn(f) == IsList(f.text) /\ IsList(f.asm) /\ (f.text = <<>> \/ f.asm = <<>>)
FilesOK(files) == \A f \in DOMAIN files : ListsIn(files[f])
PlaceOK(r) == IsList(r.text) /\ r.pos \in 1 .. Len(r.text) + 1

Output == OutFile(Tail(cmd))
Empty(f) == f.text = <<>> /\ f.asm = <<>>
Complete(asm) == asm # <<>> /\ Last(asm) = Tok("HALT", 0)
Phases == {"prompt", "parse", "load", "rejected", "overrun"} \cup Generating

\* The output is empty from the start of rcc until it is written as a whole.
FileIInv ==
  /\ FilesOK(fs) /\ PlaceOK(rcc)
  /\ phase \in Phases /\ given \in 0 .. MaxCommands /\ exit \in 0 .. 1
  /\ phase \in Generating \cup {"parse"} =>
       Head(cmd) = "rcc" /\ Output \in DOMAIN fs /\ Empty(fs[Output])
  /\ phase = "output" => EndsInHalt(cc.code)
  /\ phase = "load" /\ Head(cmd) = "rcc" =>
       Output \in DOMAIN fs /\ fs[Output].text = <<>> /\ Complete(fs[Output].asm)
  /\ CompleteOrNothing

\* The debug text is written into a file that holds code, or into one that does not.
LEMMA DebugWritten ==
  ASSUME NEW f, ListsIn(f), NEW end \in {<<>>, DebugEnd}
  PROVE  ListsIn(WithDebug(f, end)) /\ (WithDebug(f, end).asm = <<>> <=> f.asm = <<>>)
<1>1. CASE f.asm = <<>>
  <2>1. WithDebug(f, end) = [text |-> DebugText, asm |-> <<>>]
    BY <1>1 DEF WithDebug
  <2>2. IsList(DebugText)
    BY DebugAssumption, SeqIsList
  <2>. QED BY <1>1, <2>1, <2>2, EmptyLists DEF ListsIn
<1>2. CASE f.asm # <<>>
  <2>. DEFINE A == {f.asm[n] : n \in DOMAIN f.asm}
              T == A \cup {Tok("Ok", 0)}
  <2>1. f.asm \in Seq(A) /\ A \subseteq T
    BY DEF ListsIn, IsList
  <2>2. end \in Seq(T)
    <3>1. Tok("Ok", 0) \in T
      OBVIOUS
    <3>2. PICK x : x = Tok("Ok", 0)
      OBVIOUS
    <3>3. end = <<>> \/ end = <<x>>
      BY <3>2 DEF DebugEnd
    <3>4. PICK S : S = T /\ x \in S
      BY <3>1, <3>2
    <3>5. <<>> \in Seq(S) /\ <<x>> \in Seq(S)
      BY <3>4
    <3>. HIDE DEF T
    <3>. QED BY <3>3, <3>4, <3>5
  <2>. HIDE DEF A, T
  <2>3. f.asm \in Seq(T)
    BY <2>1, SeqMonotonic
  <2>4. f.asm \o end \in Seq(T) /\ f.asm \o end # <<>>
    <3>1. /\ f.asm \o end \in Seq(T) /\ Len(f.asm \o end) = Len(f.asm) + Len(end)
          /\ Len(f.asm) \in Nat \ {0} /\ Len(end) \in Nat
      BY <1>2, <2>2, <2>3, ConcatProperties
    <3>. QED BY <3>1
  <2>5. WithDebug(f, end) = [text |-> <<>>, asm |-> f.asm \o end]
    BY <1>2 DEF WithDebug
  <2>6. PICK asm : asm = f.asm \o end /\ IsList(asm) /\ asm # <<>>
    BY <2>4, SeqIsList
  <2>. QED BY <1>2, <2>5, <2>6, EmptyLists DEF ListsIn
<1>. QED BY <1>1, <1>2

\* The compilation fails or has been successful: the debug text is written,
LEMMA Ends ==
  ASSUME FileIInv, NEW status, RccEnds(status), cmd' = cmd, given' = given, PlaceOK(rcc'),
         \/ status = 1 /\ phase \in Generating \cup {"parse"}
         \/ status = 0 /\ phase = "load" /\ Head(cmd) = "rcc"
  PROVE  FileIInv'
<1>. DEFINE debug == DebugFile(Tail(cmd))
<1>1. PICK end \in {<<>>, DebugEnd} :
        fs' = [f \in DOMAIN fs |-> IF f \in debug THEN WithDebug(fs[f], end) ELSE fs[f]]
  BY DEF RccEnds
<1>2. exit' = status /\ phase' = "prompt"
  BY DEF RccEnds, Exit
<1>3. FilesOK(fs) /\ given \in 0 .. MaxCommands
  BY DEF FileIInv
<1>4. PICK out : out = Output
  OBVIOUS
<1>5. /\ out \in DOMAIN fs /\ fs[out].text = <<>>
      /\ fs[out].asm = <<>> \/ Complete(fs[out].asm)
  BY <1>4 DEF FileIInv, Empty
<1>6. status = 1 <=> fs[out].asm = <<>>
  <2>1. status = 1 => phase \in Generating \cup {"parse"}
    OBVIOUS
  <2>2. status = 1 => fs[out].asm = <<>>
    BY <1>4, <2>1 DEF FileIInv, Empty
  <2>3. status # 1 => Complete(fs[out].asm)
    BY <1>4 DEF FileIInv
  <2>. QED BY <2>2, <2>3 DEF Complete
<1>. HIDE DEF debug
<1>7. /\ DOMAIN fs' = DOMAIN fs
      /\ \A f \in DOMAIN fs : fs'[f] = IF f \in debug THEN WithDebug(fs[f], end) ELSE fs[f]
  BY <1>1
<1>8. FilesOK(fs')
  BY <1>3, <1>7, DebugWritten DEF FilesOK
<1>9. fs'[out].asm = <<>> <=> fs[out].asm = <<>>
  BY <1>3, <1>5, <1>7, DebugWritten DEF FilesOK
<1>10. Output' = out /\ (Debugged' <=> out \in debug)
  BY <1>4 DEF Output, Debugged, debug
<1>11. CompleteOrNothing'
  <2>1. Out' = fs'[out]
    BY <1>10 DEF Out, Output
  <2>2. exit' = 0 <=> Out'.asm # <<>>
    BY <1>2, <1>6, <1>9, <2>1
  <2>3. ASSUME ~Debugged' PROVE Out'.text = <<>> /\ (exit' = 0 => Last(Out'.asm) = Tok("HALT", 0))
    <3>1. Out' = fs[out]
      BY <1>5, <1>7, <1>10, <2>1, <2>3
    <3>. QED BY <1>2, <1>5, <1>6, <3>1 DEF Complete
  <2>. QED BY <2>2, <2>3 DEF CompleteOrNothing
<1>12. exit' \in 0 .. 1 /\ given' \in 0 .. MaxCommands
  BY <1>2, <1>3
<1>13. phase' \in Phases /\ phase' \notin Generating \cup {"parse"}
  BY <1>2 DEF Phases, Generating
<1>. QED BY <1>2, <1>8, <1>11, <1>12, <1>13 DEF FileIInv

\* or goes on.
LEMMA GoesOn ==
  ASSUME FileIInv, phase \in Generating \cup {"parse"}, phase' \in Generating \cup {"parse"},
         fs' = fs, cmd' = cmd, given' = given, exit' = exit, PlaceOK(rcc'),
         phase' = "output" => EndsInHalt(cc'.code)
  PROVE  FileIInv'
<1>1. /\ Head(cmd) = "rcc" /\ Output \in DOMAIN fs /\ Empty(fs[Output])
      /\ FilesOK(fs) /\ given \in 0 .. MaxCommands /\ exit \in 0 .. 1
  BY DEF FileIInv
<1>2. phase' # "prompt" /\ phase' # "load" /\ phase' \in Phases
  BY DEF Generating, Phases
<1>3. Output' = Output
  BY DEF Output
<1>. QED BY <1>1, <1>2, <1>3 DEF FileIInv, FilesOK, CompleteOrNothing, AfterRcc

\* rcc starts on a file, with the output empty.
LEMMA StartsFiles == ASSUME FileIInv, RccStarts PROVE FileIInv'
<1>1. PICK command : /\ Head(command) = "rcc" /\ given < MaxCommands
                     /\ InFile(Tail(command)) \in DOMAIN fs
                     /\ fs' = Truncated({OutFile(Tail(command))} \cup DebugFile(Tail(command)))
                     /\ rcc' = [NoParser EXCEPT !.text = Pieces(fs'[InFile(Tail(command))])]
                     /\ cmd' = command /\ given' = given + 1 /\ phase' = "parse" /\ exit' = exit
  BY DEF RccStarts
<1>2. PICK out, in, files : /\ out = OutFile(Tail(command)) /\ in = InFile(Tail(command))
                            /\ files = {out} \cup DebugFile(Tail(command))
  OBVIOUS
<1>3. /\ DOMAIN fs' = files \cup DOMAIN fs /\ out \in DOMAIN fs' /\ in \in DOMAIN fs'
      /\ \A f \in DOMAIN fs' : fs'[f] = IF f \in files THEN EmptyFile ELSE fs[f]
  BY <1>1, <1>2 DEF Truncated
<1>4. ListsIn(EmptyFile) /\ Empty(EmptyFile)
  BY EmptyLists DEF ListsIn, EmptyFile, Empty
<1>5. FilesOK(fs') /\ Empty(fs'[out])
  BY <1>2, <1>3, <1>4 DEF FileIInv, FilesOK
<1>6. PlaceOK(rcc')
  <2>1. PICK f : f = fs'[in] /\ IsList(f.text) /\ IsList(f.asm)
    BY <1>3, <1>5 DEF FilesOK, ListsIn
  <2>. DEFINE A == {f.text[n] : n \in DOMAIN f.text}
              B == {f.asm[n].t : n \in DOMAIN f.asm}
              ops == [n \in DOMAIN f.asm |-> f.asm[n].t]
  <2>2. f.text \in Seq(A)
    BY <2>1 DEF IsList
  <2>3. ops \in Seq(B)
    <3>1. Len(f.asm) \in Nat /\ DOMAIN f.asm = 1 .. Len(f.asm)
      BY <2>1 DEF IsList
    <3>2. \A n \in 1 .. Len(f.asm) : f.asm[n].t \in B
      BY <3>1
    <3>. HIDE DEF B
    <3>. QED BY <3>1, <3>2
  <2>4. Pieces(f) = f.text \o ops
    BY DEF Pieces
  <2>. HIDE DEF A, B, ops
  <2>5. Pieces(f) \in Seq(A \cup B)
    <3>1. f.text \in Seq(A \cup B) /\ ops \in Seq(A \cup B)
      BY <2>2, <2>3
    <3>. QED BY <2>4, <3>1
  <2>6. IsList(Pieces(f)) /\ Len(Pieces(f)) \in Nat
    BY <2>5, SeqIsList
  <2>7. rcc'.text = Pieces(f) /\ rcc'.pos = 1
    BY <1>1, <1>2, <2>1 DEF NoParser
  <2>. QED BY <2>6, <2>7 DEF PlaceOK
<1>7. Output' = out /\ Head(cmd') = "rcc"
  BY <1>1, <1>2 DEF Output
<1>8. given' \in 0 .. MaxCommands /\ exit' \in 0 .. 1
  BY <1>1, MaxCommandsAssumption DEF FileIInv
<1>9. phase' \in Phases /\ phase' \notin Generating
  BY <1>1 DEF Phases, Generating
<1>10. CompleteOrNothing'
  BY <1>1 DEF CompleteOrNothing, AfterRcc
<1>. QED BY <1>1, <1>3, <1>5, <1>6, <1>7, <1>8, <1>9, <1>10 DEF FileIInv

\* A comment is passed, or is open at the end of the file.
LEMMA CommentFiles == ASSUME FileIInv, IsParser(rcc), Comment PROVE FileIInv'
<1>. DEFINE next == Eat(rcc.text)[rcc.pos + 2]
<1>1. /\ phase = "parse" /\ Opens(rcc.text, rcc.pos)
      /\ cmd' = cmd /\ given' = given
  BY DEF Comment, Parsing
<1>2. PlaceOK(rcc)
  BY DEF FileIInv
<1>3. CASE next = 0
  BY <1>1, <1>2, <1>3, Ends DEF Comment
<1>4. CASE next # 0
  <2>1. rcc' = [rcc EXCEPT !.pos = next] /\ exit' = exit /\ phase' = phase /\ fs' = fs
    BY <1>4 DEF Comment
  <2>. DEFINE text == rcc.text
              N == Len(text)
  <2>2. N \in Nat /\ rcc.pos + 2 \in 1 .. N + 1 /\ text \in Seq({text[n] : n \in DOMAIN text})
    BY <1>1, <1>2, SMTT(40) DEF PlaceOK, IsList, Opens
  <2>3. next = PastComment(text)[rcc.pos + 2]
    BY <2>2, EatIsPast
  <2>4. next \in 1 .. N + 1
    <3>. DEFINE C == Closing(text, rcc.pos + 2)
    <3>1. C # {} /\ next = First(C) + 2
      BY <1>4, <2>2, <2>3 DEF PastComment
    <3>2. C \subseteq Nat /\ \A k \in C : k \in 1 .. N - 1
      BY <2>2 DEF Closing, Closes
    <3>. HIDE DEF C, next
    <3>3. PICK k \in C : k = First(C)
      BY <3>1, <3>2, FirstOf
    <3>4. k \in 1 .. N - 1 /\ next = k + 2
      BY <3>1, <3>2, <3>3
    <3>. HIDE DEF N
    <3>. QED BY <2>2, <3>4
  <2>. HIDE DEF next
  <2>5. rcc'.text = rcc.text /\ rcc'.pos = next
    BY <2>1 DEF IsParser
  <2>6. PlaceOK(rcc')
    BY <1>2, <2>4, <2>5 DEF PlaceOK
  <2>7. phase' \in {"parse"} /\ phase' # "output"
    BY <1>1, <2>1
  <2>. QED BY <1>1, <2>1, <2>6, <2>7, GoesOn
<1>. QED BY <1>3, <1>4

\* The steps of the parser.
LEMMA ParserFiles ==
  ASSUME FileIInv, IsParser(rcc), ParserIInv,
         \/ SyntaxError \/ FunctionWord \/ Declare \/ BeginWord \/ StatementWord
         \/ Operand \/ Operator \/ Reduce \/ FunctionEndWord \/ ProgramWord \/ ProgramEnd
  PROVE  FileIInv'
<1>1. Advances
  BY TakesToken
<1>2. phase = "parse"
  BY <1>1 DEF Advances, Token, Parsing
<1>3. /\ phase' \in {"parse", "prompt", "function"}
      /\ cmd' = cmd /\ given' = given
      /\ IF phase' = "prompt" THEN RccEnds(1) ELSE fs' = fs /\ exit' = exit
  BY <1>2, ParserSteps
<1>4. PlaceOK(rcc')
  <2>1. IsList(rcc.text) /\ rcc.pos \in DOMAIN rcc.text
    BY <1>1 DEF FileIInv, PlaceOK, Advances, Token, InText
  <2>2. Len(rcc.text) \in Nat /\ DOMAIN rcc.text = 1 .. Len(rcc.text)
    BY <2>1 DEF IsList
  <2>3. rcc'.text = rcc.text /\ rcc'.pos = rcc.pos + 1
    BY <1>1 DEF Advances
  <2>. QED BY <2>1, <2>2, <2>3 DEF PlaceOK
<1>5. CASE phase' = "prompt"
  BY <1>2, <1>3, <1>4, <1>5, Ends
<1>6. CASE phase' # "prompt"
  <2>1. phase' \in Generating \cup {"parse"} /\ phase' # "output"
    BY <1>3, <1>6 DEF Generating
  <2>. QED BY <1>2, <1>3, <1>4, <1>6, <2>1, GoesOn
<1>. QED BY <1>5, <1>6

\* The steps of the compiler: the end of the main block completes the code,
LEMMA TranslateFiles == ASSUME FileIInv, ParserIInv, Translate PROVE FileIInv'
<1>1. phase \in Generating
  BY DEF Translate, FunctionHeader, CodeItem, FunctionEnd, MainHeader, MainEnd, Generating
<1>2. IInv /\ AllInteger
  BY <1>1 DEF ParserIInv
<1>3. phase' \in Generating
  BY <1>2, TranslateIInv
<1>4. fs' = fs /\ cmd' = cmd /\ given' = given /\ exit' = exit /\ rcc' = rcc
  BY DEF Translate, tvars
<1>5. phase' = "output" => EndsInHalt(cc'.code)
  <2>1. CASE MainEnd
    <3>1. cc \in CC
      BY <1>2, <2>1 DEF IInv, MainEnd, Compiling
    <3>. QED BY <2>1, <3>1, HaltIsLast
  <2>2. CASE FunctionHeader \/ CodeItem \/ FunctionEnd \/ MainHeader
    BY <2>2 DEF FunctionHeader, CodeItem, FunctionEnd, MainHeader, Compile
  <2>. QED BY <2>1, <2>2 DEF Translate
<1>6. PlaceOK(rcc')
  BY <1>4 DEF FileIInv
<1>. QED BY <1>1, <1>3, <1>4, <1>5, <1>6, GoesOn

\* and it is written as a whole.
LEMMA WritesFiles == ASSUME FileIInv, ParserIInv, RccWrites PROVE FileIInv'
<1>1. /\ WriteFile /\ phase = "output" /\ phase' = "load"
      /\ fs' = [fs EXCEPT ![Output] = [text |-> <<>>, asm |-> file']]
      /\ cmd' = cmd /\ given' = given /\ exit' = exit /\ rcc' = rcc
  BY DEF RccWrites, WriteFile, Output
<1>2. "output" \in Generating /\ "load" \notin Generating /\ "load" \in Phases
  BY DEF Generating, Phases
<1>3. IInv /\ cc \in CC
  BY <1>1, <1>2 DEF ParserIInv, IInv, Compiling
<1>4. EndsInHalt(cc.code) /\ Output \in DOMAIN fs
  BY <1>1, <1>2 DEF FileIInv
<1>5. IsList(file') /\ Complete(file')
  BY <1>1, <1>3, <1>4, FileEndsInHalt DEF Complete
<1>6. PICK out, asm : out = Output /\ asm = file'
  OBVIOUS
<1>7. /\ DOMAIN fs' = DOMAIN fs /\ fs'[out] = [text |-> <<>>, asm |-> asm]
      /\ \A f \in DOMAIN fs : f # out => fs'[f] = fs[f]
  BY <1>1, <1>4, <1>6
<1>8. FilesOK(fs')
  BY <1>5, <1>6, <1>7, EmptyLists DEF FileIInv, FilesOK, ListsIn
<1>9. Output' = out
  BY <1>1, <1>6 DEF Output
<1>10. CompleteOrNothing'
  BY <1>1 DEF CompleteOrNothing, AfterRcc
<1>. QED BY <1>1, <1>2, <1>4, <1>5, <1>6, <1>7, <1>8, <1>9, <1>10 DEF FileIInv

\* The first and last steps of a command, and rx.
LEMMA CommandFiles ==
  ASSUME FileIInv,
         \/ RccRefuses \/ LexicalError \/ RegistersRunOut \/ RccExits
         \/ RxStarts \/ RxLoads \/ RxExits \/ LoggedOut
         \/ UNCHANGED <<vars, tvars>>
  PROVE  FileIInv'
<1>0. /\ {"prompt", "load", "rejected", "overrun"} \subseteq Phases
      /\ "prompt" \notin Generating /\ "load" \notin Generating /\ "rejected" \notin Generating
      /\ "overrun" \notin Generating
  BY DEF Phases, Generating
<1>1. FilesOK(fs) /\ PlaceOK(rcc) /\ given \in 0 .. MaxCommands /\ exit \in 0 .. 1
  BY DEF FileIInv
<1>2. ASSUME Head(cmd') = "rx", phase' \in {"prompt", "load", "rejected", "overrun"},
             fs' = fs, rcc' = rcc, given' \in 0 .. MaxCommands, exit' \in 0 .. 1
      PROVE  FileIInv'
  BY <1>0, <1>1, <1>2 DEF FileIInv, FilesOK, CompleteOrNothing, AfterRcc
<1>3. CASE RccRefuses
  <2>1. PICK command : /\ Head(command) = "rcc" /\ given < MaxCommands
                       /\ \/ Usage(Tail(command)) \/ InFile(Tail(command)) \notin DOMAIN fs
                          \/ OutFile(Tail(command)) \in ReadOnly
                       /\ cmd' = command /\ given' = given + 1 /\ exit' = 1 /\ phase' = "prompt"
                       /\ fs' = fs /\ rcc' = rcc
    BY <1>3 DEF RccRefuses, Give, Exit
  <2>2. ~Opened'
    BY <2>1 DEF Opened
  <2>3. given' \in 0 .. MaxCommands
    BY <1>1, <2>1, MaxCommandsAssumption
  <2>. QED BY <1>0, <1>1, <2>1, <2>2, <2>3 DEF FileIInv, FilesOK, CompleteOrNothing
<1>4. CASE LexicalError
  BY <1>1, <1>4, Ends DEF LexicalError, Parsing
<1>5. CASE RegistersRunOut
  <2>1. phase \in Generating
    BY <1>5 DEF RegistersRunOut, Generating
  <2>. QED BY <1>1, <1>5, <2>1, Ends DEF RegistersRunOut
<1>6. CASE RccExits
  BY <1>1, <1>6, Ends DEF RccExits
<1>7. CASE RxStarts
  <2>1. PICK command : /\ Head(command) = "rx" /\ cmd' = command
                       /\ given < MaxCommands /\ given' = given + 1
    BY <1>7 DEF RxStarts, Give
  <2>2. /\ fs' = fs /\ rcc' = rcc /\ phase' \in {"load", "prompt"}
        /\ exit' = exit \/ exit' \in AnyStatus
    BY <1>7 DEF RxStarts, Exit
  <2>3. given' \in 0 .. MaxCommands /\ exit' \in 0 .. 1
    BY <1>1, <2>1, <2>2, MaxCommandsAssumption DEF AnyStatus
  <2>. QED BY <1>2, <2>1, <2>2, <2>3
<1>8. CASE RxLoads
  <2>1. Head(cmd) = "rx" /\ phase' \in {"load", "rejected", "overrun"}
    BY <1>8 DEF RxLoads, LoadLine
  <2>. QED BY <1>1, <1>2, <1>8, <2>1 DEF RxLoads, tvars
<1>9. CASE RxExits
  <2>1. Head(cmd) = "rx" /\ phase' = "prompt" /\ exit' \in AnyStatus \cup {0}
    BY <1>9 DEF RxExits, Exit
  <2>2. exit' \in 0 .. 1
    BY <2>1 DEF AnyStatus
  <2>. QED BY <1>1, <1>2, <1>9, <2>1, <2>2 DEF RxExits
<1>10. CASE LoggedOut \/ UNCHANGED <<vars, tvars>>
  <2>1. /\ phase' = phase /\ cc' = cc /\ fs' = fs /\ cmd' = cmd /\ given' = given /\ exit' = exit
        /\ rcc' = rcc
    BY <1>10 DEF LoggedOut, vars, tvars
  <2>2. Output' = Output /\ Out' = Out /\ Debugged' = Debugged
        /\ AfterRcc' = AfterRcc /\ Opened' = Opened
    BY <2>1 DEF Output, Out, Debugged, AfterRcc, Opened
  <2>3. CompleteOrNothing' = CompleteOrNothing
    BY <2>1, <2>2 DEF CompleteOrNothing
  <2>. QED BY <2>1, <2>2, <2>3 DEF FileIInv, FilesOK
<1>. QED BY <1>3, <1>4, <1>5, <1>6, <1>7, <1>8, <1>9, <1>10

LEMMA NextFiles ==
  ASSUME FileIInv, IsParser(rcc), ParserIInv, [TNext]_<<vars, tvars>>
  PROVE  FileIInv'
<1>1. CASE RccStarts
  BY <1>1, StartsFiles
<1>2. CASE Comment
  BY <1>2, CommentFiles
<1>3. CASE \/ SyntaxError \/ FunctionWord \/ Declare \/ BeginWord \/ StatementWord
            \/ Operand \/ Operator \/ Reduce \/ FunctionEndWord \/ ProgramWord \/ ProgramEnd
  BY <1>3, ParserFiles
<1>4. CASE Translate
  BY <1>4, TranslateFiles
<1>5. CASE RccWrites
  BY <1>5, WritesFiles
<1>6. CASE \/ RccRefuses \/ LexicalError \/ RegistersRunOut \/ RccExits
            \/ RxStarts \/ RxLoads \/ RxExits \/ LoggedOut \/ UNCHANGED <<vars, tvars>>
  BY <1>6, CommandFiles
<1>. QED BY <1>1, <1>2, <1>3, <1>4, <1>5, <1>6 DEF TNext

\* Initially there are the source and the hand-written file.
LEMMA InitFiles == TInit => FileIInv
<1>. SUFFICES ASSUME TInit PROVE FileIInv
  OBVIOUS
<1>1. AsMeant(written)
  BY SourcesAssumption DEF TInit
<1>2. IsList(written.text)
  <2>1. written.text \in Seq(ToSet(written.text))
    BY <1>1 DEF AsMeant
  <2>. QED BY <2>1, SeqIsList
<1>3. IsList(FlattenSeq(written.hand))
  <2>1. PICK hand : hand = written.hand
    OBVIOUS
  <2>2. IsList(hand) /\ \A l \in DOMAIN hand : IsList(hand[l])
    BY <1>1, <2>1 DEF AsMeant, IsLine
  <2>. DEFINE T == UNION {{hand[l][n] : n \in DOMAIN hand[l]} : l \in DOMAIN hand}
              N == Len(hand)
  <2>3. N \in Nat /\ DOMAIN hand = 1 .. N /\ (N = 0 => hand = <<>>)
    BY <2>2 DEF IsList
  <2>4. ASSUME NEW l \in 1 .. N PROVE hand[l] \in Seq(T)
    <3>. DEFINE W == {hand[l][n] : n \in DOMAIN hand[l]}
    <3>1. hand[l] \in Seq(W)
      BY <2>2, <2>3 DEF IsList
    <3>2. W \subseteq T
      BY <2>3
    <3>. HIDE DEF T, W
    <3>. QED BY <3>1, <3>2
  <2>. HIDE DEF T
  <2>5. FlattenSeq(hand) \in Seq(T)
    BY <2>3, <2>4, FlattenType DEF Parts
  <2>. QED BY <2>1, <2>5, SeqIsList
<1>4. FilesOK(fs)
  BY <1>2, <1>3, EmptyLists DEF TInit, FilesOK, ListsIn
<1>5. PlaceOK(rcc)
  <2>1. rcc.text = <<>> /\ rcc.pos = 1
    BY DEF TInit, NoParser
  <2>. QED BY <2>1, EmptyLists DEF PlaceOK
<1>6. phase = "prompt" /\ given = 0 /\ exit = 0
  BY DEF TInit
<1>7. phase \in Phases /\ phase \notin Generating \cup {"parse"}
  BY <1>6 DEF Phases, Generating
<1>8. CompleteOrNothing
  BY <1>6 DEF CompleteOrNothing, AfterRcc
<1>. QED BY <1>4, <1>5, <1>6, <1>7, <1>8, MaxCommandsAssumption DEF FileIInv

\* Whatever the command and wherever it fails, the files hold what they should, the
\* parser stays in its text, and no INTEGER program runs into an error of types.
THEOREM TypeCorrect == TSpec => []TypeOK
<1>. DEFINE Inv == ScannerIInv /\ ParserIInv /\ FileIInv
<1>1. TInit => Inv
  BY InitScanner, InitParser, InitFiles
<1>2. Inv /\ [TNext]_<<vars, tvars>> => Inv'
  BY NextScanner, NextParser, NextFiles DEF ScannerIInv
<1>3. Inv => TypeOK
  BY DEF ParserIInv, ParserOK, Scoped, FileIInv, FilesOK, ListsIn, PlaceOK, Phases, Generating, TypeOK
<1>. QED BY <1>1, <1>2, <1>3, PTL DEF TSpec

\* Whatever the source, the options, the files of earlier commands and the step at
\* which it fails, rcc leaves code exactly if it is successful; unless the output is
\* the debug file, too, the code is complete and alone in the file.
THEOREM CompleteOrNothingHolds == TSpec => []CompleteOrNothing
<1>. DEFINE Inv == ScannerIInv /\ ParserIInv /\ FileIInv
<1>1. TInit => Inv
  BY InitScanner, InitParser, InitFiles
<1>2. Inv /\ [TNext]_<<vars, tvars>> => Inv'
  BY NextScanner, NextParser, NextFiles DEF ScannerIInv
<1>3. Inv => CompleteOrNothing
  BY DEF FileIInv
<1>. QED BY <1>1, <1>2, <1>3, PTL DEF TSpec

\* ---- files written by hand ------------------------------------------------------------------

FileWords(T) == \A x \in T : x.v \in Int
Junk == Tok("junk", 0)

\* No operand stands here, and no opcode.
Barred(s) == s = <<>> \/ (s # <<>> /\ Head(s).t \notin {"I", "R"} \cup Constants)
Sunk(s) == s # <<>> /\ Head(s).t \notin Opcodes
Junky(s) == s # <<>> /\ Head(s).t = "junk"

\* An operand as load_program should have it.
HandArg(kind, x) ==
  Arg(x.t \in Constants, IF x.t = "int" /\ kind = "r" THEN 2 * x.v ELSE x.v)

ReadAs(got, kind, x, r) ==
  got.arg = HandArg(kind, x) /\ got.rest = r /\ ~IsError(kind, got.arg)

\* Twice a number in halves is that number.
LEMMA HalfOfDouble == ASSUME NEW n \in Int PROVE ToInt(2 * n) = n
BY DEF ToInt, Quot

\* What is allowed is what is taken.
LEMMA AllowedIsTaken ==
  ASSUME NEW kind \in OperandKinds \ {"-"}
  PROVE  Allowed[kind] = Takes(kind, {})
<1>1. /\ Allowed["I"] = {"I"} /\ Allowed["R"] = {"R"} /\ Allowed["i"] = {"I", "int"}
      /\ Allowed["r"] = {"R", "int", "real"} /\ Allowed["n"] = {"int"}
  BY DEF Allowed
<1>2. /\ Takes("I", {}) = {"I"} /\ Takes("R", {}) = {"R"} /\ Takes("i", {}) = {"I", "int"}
      /\ Takes("r", {}) = {"R", "int", "real"} /\ Takes("n", {}) = {"int"}
  BY DEF Takes
<1>. QED BY <1>1, <1>2 DEF OperandKinds

\* The signs of a failed read.
LEMMA FailedRead ==
  ASSUME NEW kind \in OperandKinds \ {"-"}, NEW s, NEW got,
         got = Got(FALSE, -1, s) \/ (got = Got(TRUE, -1, s) /\ kind = "n")
  PROVE  IsError(kind, got.arg)
<1>1. CASE got = Got(FALSE, -1, s)
  BY <1>1 DEF Got, Arg, IsError
<1>2. CASE got = Got(TRUE, -1, s) /\ kind = "n"
  BY <1>2 DEF Got, Arg, IsError
<1>. QED BY <1>1, <1>2

\* Where no operand stands, reading one fails.
LEMMA ReadBarred ==
  ASSUME NEW kind \in OperandKinds \ {"-"}, NEW s, Barred(s)
  PROVE  IsError(kind, Read(kind, s).arg)
<1>1. ~NextIs(s, {"I"}) /\ ~NextIs(s, {"R"}) /\ ~NextIs(s, Constants)
  BY DEF Barred, NextIs
<1>2. Read(kind, s) = Got(FALSE, -1, s) \/ (Read(kind, s) = Got(TRUE, -1, s) /\ kind = "n")
  <2>1. GetReg(s, "I") = Got(FALSE, -1, s) /\ GetReg(s, "R") = Got(FALSE, -1, s)
    BY <1>1 DEF GetReg
  <2>2. kind \in {"I", "R", "i", "r", "n"}
    BY DEF OperandKinds
  <2>3. CASE kind = "I"
    BY <2>1, <2>3 DEF Read
  <2>4. CASE kind = "R"
    BY <2>1, <2>4 DEF Read
  <2>5. CASE kind = "i"
    BY <1>1, <2>1, <2>5 DEF Read
  <2>6. CASE kind = "r"
    BY <1>1, <2>1, <2>6 DEF Read
  <2>7. CASE kind = "n"
    BY <1>1, <2>7 DEF Read
  <2>. QED BY <2>2, <2>3, <2>4, <2>5, <2>6, <2>7
<1>. QED BY <1>2, FailedRead

\* A word that stands where an operand should: it is read as what it says, or reading
\* fails, or the fraction of a real constant is left behind.
LEMMA ReadFits ==
  ASSUME NEW T, NEW kind \in OperandKinds, NEW x \in T, x.v \in Int, Fits(x, kind), NEW r \in Seq(T),
         NEW s, s = <<x>> \o r
  PROVE  ReadAs(Read(kind, s), kind, x, r)
<1>1. /\ kind \in {"I", "R", "i", "r", "n"} /\ x.t \in Takes(kind, {})
      /\ ~MinusOne(x) /\ x.v \in Int
  BY AllowedIsTaken DEF Fits, OperandKinds
<1>2. Read(kind, s) = [arg |-> MeantArg(kind, x), rest |-> r]
  BY <1>1, ReadOne
<1>3. MeantArg(kind, x) = HandArg(kind, x)
  <2>1. x.t \in {"I", "R", "int", "real"}
    BY <1>1 DEF Takes
  <2>2. CASE x.t = "real"
    <3>1. (x.t \in Constants) = TRUE /\ MeantArg(kind, x) = Arg(TRUE, x.v)
      BY <2>2 DEF Constants, MeantArg
    <3>2. HandArg(kind, x) = Arg(x.t \in Constants, x.v)
      BY <2>2 DEF HandArg
    <3>. QED BY <3>1, <3>2
  <2>3. CASE x.t = "int"
    <3>1. (x.t \in Constants) = TRUE
      BY <2>3 DEF Constants
    <3>2. PICK v : v = IF kind = "r" THEN 2 * x.v ELSE x.v
      OBVIOUS
    <3>3. MeantArg(kind, x) = Arg(TRUE, v)
      BY <2>3, <3>2 DEF MeantArg
    <3>4. HandArg(kind, x) = Arg(x.t \in Constants, v)
      BY <2>3, <3>2 DEF HandArg
    <3>. QED BY <3>1, <3>3, <3>4
  <2>4. CASE x.t \in {"I", "R"}
    <3>3. (x.t \in Constants) = FALSE
      BY <2>4 DEF Constants
    <3>4. MeantArg(kind, x) = Arg(FALSE, x.v)
      BY <2>4 DEF MeantArg
    <3>2. HandArg(kind, x) = Arg(x.t \in Constants, x.v)
      BY <2>4 DEF HandArg
    <3>. QED BY <3>2, <3>3, <3>4
  <2>. QED BY <2>1, <2>2, <2>3, <2>4
<1>4. ~IsError(kind, HandArg(kind, x))
  <2>1. CASE x.t = "real"
    <3>1. kind = "r"
      BY <1>1, <2>1 DEF Takes
    <3>. QED BY <1>1, <2>1, <3>1 DEF HandArg, Arg, IsError, Constants, MinusOne
  <2>2. CASE x.t = "int"
    <3>1. x.v # -1 /\ ToInt(2 * x.v) = x.v
      BY <1>1, <2>2, HalfOfDouble DEF MinusOne
    <3>. QED BY <2>2, <3>1 DEF HandArg, Arg, IsError, Constants
  <2>3. CASE x.t \in {"I", "R"}
    <3>1. x.v # -1
      BY <1>1, <2>3 DEF MinusOne
    <3>. QED BY <2>3, <3>1 DEF HandArg, Arg, IsError, Constants
  <2>. QED BY <1>1, <2>1, <2>2, <2>3 DEF Takes
<1>. QED BY <1>2, <1>3, <1>4 DEF ReadAs

LEMMA ReadMisfits ==
  ASSUME NEW T, NEW kind \in OperandKinds \ {"-"}, NEW x \in T, x.v \in Int, ~Fits(x, kind),
         NEW r \in Seq(T), NEW s, s = <<x>> \o r
  PROVE  IsError(kind, Read(kind, s).arg) \/ Junky(Read(kind, s).rest)
<1>1. Head(s) = x /\ Tail(s) = r /\ s # <<>>
  BY Leads
<1>2. kind \in {"I", "R", "i", "r", "n"} /\ x.v \in Int
  BY DEF OperandKinds
<1>3. CASE x.t \in Allowed[kind]
  <2>1. MinusOne(x) /\ x.t \in Takes(kind, {})
    BY <1>2, <1>3, AllowedIsTaken DEF Fits
  <2>6. Read(kind, s) = [arg |-> MeantArg(kind, x), rest |-> r]
    BY <2>1, ReadOne
  <2>2. Read(kind, s).arg = MeantArg(kind, x)
    BY <2>6
  <2>3. CASE x.t = "real"
    BY <1>2, <2>1, <2>2, <2>3 DEF MeantArg, Arg, IsError, MinusOne, Takes
  <2>4. CASE x.t = "int"
    <3>1. x.v = -1 /\ ToInt(2 * x.v) = x.v
      BY <1>2, <2>1, <2>4, HalfOfDouble DEF MinusOne
    <3>2. MeantArg(kind, x) = Arg(TRUE, IF kind = "r" THEN 2 * x.v ELSE x.v)
      BY <2>4 DEF MeantArg
    <3>. QED BY <1>2, <2>2, <3>1, <3>2 DEF Arg, IsError
  <2>5. CASE x.t \in {"I", "R"}
    <3>1. x.v = -1
      BY <2>1, <2>5 DEF MinusOne
    <3>2. MeantArg(kind, x) = Arg(FALSE, x.v)
      BY <2>5 DEF MeantArg
    <3>. QED BY <1>2, <2>2, <3>1, <3>2 DEF Arg, IsError
  <2>. QED BY <1>2, <2>1, <2>3, <2>4, <2>5 DEF Takes
<1>4. CASE x.t \notin Allowed[kind] /\ ~(kind \in {"i", "n"} /\ x.t = "real")
  <2>1. \/ ~NextIs(s, {kind}) /\ kind \in {"I", "R"}
        \/ ~NextIs(s, Constants) /\ ~NextIs(s, {"I"}) /\ kind = "i"
        \/ ~NextIs(s, Constants) /\ ~NextIs(s, {"R"}) /\ kind = "r"
        \/ ~NextIs(s, Constants) /\ kind = "n"
    <3>1. x.t \notin Takes(kind, {})
      BY <1>4, AllowedIsTaken
    <3>. QED BY <1>1, <1>2, <1>4, <3>1 DEF Takes, NextIs, Constants
  <2>2. Read(kind, s) = Got(FALSE, -1, s) \/ (Read(kind, s) = Got(TRUE, -1, s) /\ kind = "n")
    <3>1. CASE kind = "I"
      BY <2>1, <3>1 DEF Read, GetReg
    <3>2. CASE kind = "R"
      BY <2>1, <3>2 DEF Read, GetReg
    <3>3. CASE kind = "i"
      BY <2>1, <3>3 DEF Read, GetReg
    <3>4. CASE kind = "r"
      BY <2>1, <3>4 DEF Read, GetReg
    <3>5. CASE kind = "n"
      BY <2>1, <3>5 DEF Read
    <3>. QED BY <1>2, <3>1, <3>2, <3>3, <3>4, <3>5
  <2>. QED BY <2>2, FailedRead
<1>5. CASE kind \in {"i", "n"} /\ x.t = "real"
  <2>1. Read(kind, s).rest = <<Junk>> \o r
    <3>1. Read(kind, s) = ScanInt(s)
      BY <1>1, <1>5 DEF Read, NextIs, Constants
    <3>2. ScanInt(s) = Got(TRUE, ToInt(x.v), <<Junk>> \o r)
      BY <1>1, <1>5 DEF ScanInt, Junk
    <3>. QED BY <3>1, <3>2 DEF Got
  <2>2. PICK U : U = T \cup {Junk}
    OBVIOUS
  <2>3. Junk \in U /\ r \in Seq(U)
    <3>1. T \subseteq U
      BY <2>2
    <3>. QED BY <2>2, <3>1, SeqMonotonic
  <2>4. Head(<<Junk>> \o r) = Junk /\ <<Junk>> \o r # <<>>
    BY <2>3, Leads
  <2>5. Junk.t = "junk"
    BY DEF Junk, Tok
  <2>. QED BY <2>1, <2>4, <2>5 DEF Junky
<1>. QED BY <1>3, <1>4, <1>5

\* The words of a line, its first word apart, from number k + 1 on, and the lines behind it.
LEMMA ReadFitting ==
  ASSUME NEW T, FileWords(T), NEW a \in Seq(T), NEW rest \in Seq(T), NEW k \in Nat,
         NEW kind \in OperandKinds,
         IF k + 1 <= Len(a) THEN Fits(a[k + 1], kind) ELSE kind = "-",
         NEW s, s = Left(a, k) \o rest
  PROVE  /\ Read(kind, s).rest = Left(a, k + 1) \o rest /\ ~IsError(kind, Read(kind, s).arg)
         /\ k + 1 <= Len(a) => Read(kind, s).arg = HandArg(kind, a[k + 1])
<1>1. Len(a) \in Nat /\ k + 1 \in Nat
  OBVIOUS
<1>2. PICK l \in Seq(T) : l = Left(a, k + 1)
  BY <1>1, LeftType
<1>3. CASE k + 1 <= Len(a)
  <2>1. PICK x \in T : x = a[k + 1] /\ Left(a, k) = <<x>> \o l
    BY <1>2, <1>3, LeftType
  <2>2. PICK h \in Seq(T) : h = <<x>>
    BY One
  <2>3. Associates(h, l, rest)
    BY Associative
  <2>4. PICK r \in Seq(T) : r = l \o rest
    <3>1. l \o rest \in Seq(T)
      BY ConcatProperties
    <3>. QED BY <3>1
  <2>5. s = <<x>> \o r
    BY <2>1, <2>2, <2>3, <2>4 DEF Associates
  <2>6. Fits(x, kind) /\ x.v \in Int
    BY <1>3, <2>1 DEF FileWords
  <2>12. ReadAs(Read(kind, s), kind, x, r)
    BY <2>5, <2>6, ReadFits
  <2>7. /\ Read(kind, s).arg = HandArg(kind, x) /\ Read(kind, s).rest = r
        /\ ~IsError(kind, Read(kind, s).arg)
    BY <2>12 DEF ReadAs
  <2>11. a[k + 1] = x
    BY <2>1
  <2>8. r = Left(a, k + 1) \o rest
    BY <1>2, <2>4
  <2>9. Read(kind, s).rest = Left(a, k + 1) \o rest
    BY <2>7, <2>8
  <2>10. Read(kind, s).arg = HandArg(kind, a[k + 1])
    BY <2>7, <2>11
  <2>. QED BY <2>7, <2>9, <2>10
<1>4. CASE ~(k + 1 <= Len(a))
  <2>1. kind = "-" /\ k >= Len(a) /\ k + 1 >= Len(a)
    BY <1>1, <1>4
  <2>2. Left(a, k) = <<>> /\ Left(a, k + 1) = <<>>
    BY <1>1, <2>1, LeftType
  <2>3. Read(kind, s).rest = s
    BY <2>1 DEF Read, Got
  <2>4. ~IsError(kind, Read(kind, s).arg)
    BY <2>1 DEF IsError
  <2>. QED BY <1>4, <2>2, <2>3, <2>4
<1>. QED BY <1>3, <1>4

LEMMA ReadUnfitting ==
  ASSUME NEW T, FileWords(T), NEW a \in Seq(T), NEW rest \in Seq(T), NEW k \in Nat,
         NEW kind \in OperandKinds, Barred(rest), \A n \in 1 .. Len(a) : a[n].t \notin Opcodes,
         ~(IF k + 1 <= Len(a) THEN Fits(a[k + 1], kind) ELSE kind = "-"),
         NEW s, s = Left(a, k) \o rest
  PROVE  \/ IsError(kind, Read(kind, s).arg)
         \/ Junky(Read(kind, s).rest)
         \/ kind = "-" /\ Sunk(Read(kind, s).rest)
<1>1. Len(a) \in Nat /\ k + 1 \in Nat
  OBVIOUS
<1>2. PICK l \in Seq(T) : l = Left(a, k + 1)
  BY <1>1, LeftType
<1>3. CASE k + 1 <= Len(a)
  <2>1. PICK x \in T : x = a[k + 1] /\ Left(a, k) = <<x>> \o l
    BY <1>2, <1>3, LeftType
  <2>2. PICK h \in Seq(T) : h = <<x>>
    BY One
  <2>3. Associates(h, l, rest)
    BY Associative
  <2>4. PICK r \in Seq(T) : r = l \o rest
    <3>1. l \o rest \in Seq(T)
      BY ConcatProperties
    <3>. QED BY <3>1
  <2>5. s = <<x>> \o r
    BY <2>1, <2>2, <2>3, <2>4 DEF Associates
  <2>6. ~Fits(x, kind) /\ x.v \in Int
    BY <1>3, <2>1 DEF FileWords
  <2>7. CASE kind = "-"
    <3>1. Head(s) = x /\ s # <<>>
      BY <2>5, Leads
    <3>2. x.t \notin Opcodes
      BY <1>1, <1>3, <2>1
    <3>3. Read(kind, s).rest = s
      BY <2>7 DEF Read, Got
    <3>. QED BY <2>7, <3>1, <3>2, <3>3 DEF Sunk
  <2>8. CASE kind # "-"
    BY <2>5, <2>6, <2>8, ReadMisfits
  <2>. QED BY <2>7, <2>8
<1>4. CASE ~(k + 1 <= Len(a))
  <2>1. kind # "-" /\ k >= Len(a)
    BY <1>1, <1>4
  <2>2. Left(a, k) = <<>>
    BY <2>1, LeftType
  <2>3. s = rest
    BY <2>2, ConcatEmptySeq
  <2>. QED BY <2>1, <2>3, ReadBarred
<1>. QED BY <1>3, <1>4

\* Operand number i, in the one way or the other.
OperandFits(a, i, kind) == IF i <= Len(a) THEN Fits(a[i], kind) ELSE kind = "-"
Reads(got, a, rest, i, kind) ==
  /\ got.rest = Left(a, i) \o rest /\ ~IsError(kind, got.arg)
  /\ i <= Len(a) => got.arg = HandArg(kind, a[i])
Sinks(s, kind) == Junky(s) \/ (kind = "-" /\ Sunk(s))

LEMMA ReadsOn ==
  ASSUME NEW got, NEW a, NEW rest, NEW i, NEW kind, Reads(got, a, rest, i, kind)
  PROVE  got.rest = Left(a, i) \o rest
BY DEF Reads

LEMMA ReadOperand ==
  ASSUME NEW T, FileWords(T), NEW a \in Seq(T), NEW rest \in Seq(T), Barred(rest),
         \A n \in 1 .. Len(a) : a[n].t \notin Opcodes,
         NEW k \in Nat, NEW i, i = k + 1, NEW kind \in OperandKinds,
         NEW s, s = Left(a, k) \o rest, NEW got, got = Read(kind, s)
  PROVE  /\ OperandFits(a, i, kind) => Reads(got, a, rest, i, kind)
         /\ ~OperandFits(a, i, kind) => IsError(kind, got.arg) \/ Sinks(got.rest, kind)
<1>1. CASE OperandFits(a, i, kind)
  <2>1. IF k + 1 <= Len(a) THEN Fits(a[k + 1], kind) ELSE kind = "-"
    BY <1>1 DEF OperandFits
  <2>2. /\ Read(kind, s).rest = Left(a, k + 1) \o rest /\ ~IsError(kind, Read(kind, s).arg)
        /\ k + 1 <= Len(a) => Read(kind, s).arg = HandArg(kind, a[k + 1])
    BY <2>1, ReadFitting, ZenonT(60)
  <2>. QED BY <1>1, <2>2 DEF Reads
<1>2. CASE ~OperandFits(a, i, kind)
  <2>1. ~(IF k + 1 <= Len(a) THEN Fits(a[k + 1], kind) ELSE kind = "-")
    BY <1>2 DEF OperandFits
  <2>2. \/ IsError(kind, Read(kind, s).arg) \/ Junky(Read(kind, s).rest)
        \/ kind = "-" /\ Sunk(Read(kind, s).rest)
    BY <2>1, ReadUnfitting
  <2>. QED BY <1>2, <2>2 DEF Sinks
<1>. QED BY <1>1, <1>2

\* Nothing that may be left behind is read as an operand or an opcode.
LEMMA LeftBehind ==
  ASSUME NEW kind \in OperandKinds, NEW s, Sinks(s, kind)
  PROVE  IsError(kind, Read(kind, s).arg) \/ (kind = "-" /\ Read(kind, s).rest = s)
<1>1. CASE kind = "-"
  BY <1>1 DEF Read, Got
<1>2. CASE kind # "-"
  <2>1. s # <<>> /\ Head(s).t = "junk"
    BY <1>2 DEF Sinks, Junky
  <2>2. Barred(s)
    BY <2>1 DEF Barred, Constants
  <2>. QED BY <1>2, <2>2, ReadBarred
<1>. QED BY <1>1, <1>2

LEMMA JunkIsSunk == ASSUME NEW s, Junky(s) PROVE Sunk(s)
<1>1. "junk" \notin Opcodes
  BY DEF Opcodes, IntOps, RealTests, RealOps, Moves, Jumps
<1>. QED BY <1>1 DEF Junky, Sunk

\* Behind the last operand there is none.
LEMMA ShapeEnds ==
  ASSUME NEW op \in Opcodes
  PROVE  /\ Shape(op)[1] = "-" => Shape(op)[2] = "-"
         /\ Shape(op)[2] = "-" => Shape(op)[3] = "-"
<1>1. CASE op \in IntOps \cup RealTests \cup RealOps \cup {"LOADR", "STORR"}
  <2>1. Shape(op) \in {<<"I", "i", "i">>, <<"I", "r", "r">>, <<"R", "r", "r">>, <<"R", "i", "i">>}
    BY <1>1, Shapes
  <2>. QED BY <2>1
<1>2. CASE op \in DOMAIN Moves
  <2>2. op \in {"COPYI", "PRNTI", "READI", "COPYR", "PRNTR", "READR", "CITOR", "CRTOI"}
    BY <1>2 DEF Moves
  <2>1. Shape(op) = Moves[op]
    BY <2>2 DEF Opcodes, Shape, IntOps, RealTests, RealOps, Moves, Jumps
  <2>3. Moves[op] \in {<<"I", "i", "-">>, <<"i", "-", "-">>, <<"I", "-", "-">>, <<"R", "r", "-">>,
                       <<"r", "-", "-">>, <<"R", "-", "-">>, <<"R", "i", "-">>, <<"I", "r", "-">>}
    BY <2>2 DEF Moves
  <2>. QED BY <2>1, <2>3
<1>3. CASE op \in DOMAIN Jumps
  <2>1. op \in {"UJUMP", "JLINK", "BREQZ", "BNEQZ", "RETRN", "HALT"}
    BY <1>3 DEF Jumps
  <2>2. Shape(op) \in {<<"n", "-", "-">>, <<"i", "n", "-">>, <<"-", "-", "-">>}
    BY <2>1, Shapes
  <2>. QED BY <2>2
<1>. QED BY <1>1, <1>2, <1>3 DEF Opcodes

\* One turn of load_program's loop on a line of a hand-written file: it is read as written
\* or refused, unless a word of it is left behind, which will be.
LEMMA ReadsHandLine ==
  ASSUME NEW T, FileWords(T), NEW words \in Seq(T), IsLine(words), NEW rest \in Seq(T), Barred(rest),
         NEW read, read = ReadLine(words \o rest)
  PROVE  /\ WellFormed(words) => ~read.error /\ read.rest = rest /\ Means(read.inst, words)
         /\ ~WellFormed(words) => read.error \/ Sunk(read.rest)
<1>1. words # <<>> /\ Len(words) \in Nat \ {0} /\ \A n \in 2 .. Len(words) : words[n].t \notin Opcodes
  BY DEF IsLine
<1>2. PICK a \in Seq(T) : a = Operands(words)
  <2>1. Tail(words) \in Seq(T)
    BY <1>1, HeadTailProperties
  <2>. QED BY <2>1 DEF Operands
<1>3. PICK x \in T : x = words[1]
  BY <1>1
<1>4. PICK h \in Seq(T) : h = <<x>>
  BY One
<1>5. Len(a) = Len(words) - 1 /\ Len(a) \in Nat /\ \A n \in 1 .. Len(a) : a[n] = words[n + 1]
  BY <1>1, <1>2 DEF Operands
<1>6. words = h \o a
  <2>1. PICK w \in Seq(T) : w = h \o a
    <3>1. h \o a \in Seq(T)
      BY ConcatProperties
    <3>. QED BY <3>1
  <2>2. Len(h) = 1 /\ h[1] = x
    BY <1>4
  <2>3. Len(w) = Len(h) + Len(a) /\ \A i \in 1 .. Len(h) + Len(a) : w[i] = IF i <= Len(h) THEN h[i] ELSE a[i - Len(h)]
    BY <2>1, ConcatProperties
  <2>4. Len(w) = Len(words)
    BY <1>1, <1>5, <2>2, <2>3
  <2>5. ASSUME NEW i \in 1 .. Len(w) PROVE w[i] = words[i]
    <3>1. CASE i = 1
      BY <1>3, <2>2, <2>3, <2>5, <3>1
    <3>2. CASE i # 1
      <4>1. i - 1 \in 1 .. Len(a) /\ (i - 1) + 1 = i /\ ~(i <= Len(h)) /\ i \in 1 .. Len(h) + Len(a)
        BY <1>1, <1>5, <2>2, <2>3, <2>5, <3>2
      <4>. QED BY <1>5, <2>2, <2>3, <4>1
    <3>. QED BY <3>1, <3>2
  <2>6. w = words
    BY <2>4, <2>5, SeqEqual
  <2>. QED BY <2>1, <2>6
<1>7. \A n \in 1 .. Len(a) : a[n].t \notin Opcodes
  BY <1>1, <1>5
<1>8. PICK s0 \in Seq(T) : s0 = a \o rest
  <2>1. a \o rest \in Seq(T)
    BY ConcatProperties
  <2>. QED BY <2>1
<1>9. PICK s : s = <<x>> \o s0
  OBVIOUS
<1>10. read = ReadLine(s)
  <2>1. Associates(h, a, rest)
    BY Associative
  <2>. QED BY <1>4, <1>6, <1>8, <1>9, <2>1 DEF Associates
<1>11. Head(s) = x /\ Tail(s) = s0
  BY <1>9, Leads
<1>12. PICK op : op = x.t
  OBVIOUS
<1>13. CASE op \notin Opcodes
  <2>1. ~WellFormed(words)
    BY <1>3, <1>12, <1>13 DEF WellFormed
  <2>2. read.error = ReadLine(s).error
    BY <1>10, SMTT(40)
  <2>3. read.error
    BY <1>11, <1>12, <1>13, <2>2 DEF ReadLine
  <2>. QED BY <2>1, <2>3
<1>14. CASE op \in Opcodes
  <2>1. PICK kind : kind = Shape(op)
    OBVIOUS
  <2>2. PICK one : one = Read(kind[1], s0)
    OBVIOUS
  <2>3. PICK two : two = Read(kind[2], one.rest)
    OBVIOUS
  <2>4. PICK three : three = Read(kind[3], two.rest)
    OBVIOUS
  <2>6. /\ read.inst = [op |-> op, a1 |-> one.arg, a2 |-> two.arg, a3 |-> three.arg]
        /\ read.rest = three.rest
        /\ read.error <=> \/ IsError(kind[1], one.arg)
                          \/ IsError(kind[2], two.arg)
                          \/ IsError(kind[3], three.arg)
    <3>1. read.inst = ReadLine(s).inst /\ read.rest = ReadLine(s).rest /\ read.error = ReadLine(s).error
      BY <1>10
    <3>2. (IF op \in Opcodes THEN Shape(op) ELSE <<"-", "-", "-">>) = kind /\ Head(s).t = op
      BY <1>11, <1>12, <1>14, <2>1, SMTT(40)
    <3>3. ReadLine(s).inst = [op |-> op, a1 |-> one.arg, a2 |-> two.arg, a3 |-> three.arg]
      BY <1>11, <2>2, <2>3, <2>4, <3>2, ZenonT(60) DEF ReadLine
    <3>4. ReadLine(s).rest = three.rest
      BY <1>11, <2>2, <2>3, <2>4, <3>2, ZenonT(60) DEF ReadLine
    <3>5. ReadLine(s).error <=> \/ IsError(kind[1], one.arg)
                                \/ IsError(kind[2], two.arg)
                                \/ IsError(kind[3], three.arg)
      BY <1>11, <1>14, <2>2, <2>3, <2>4, <3>2 DEF ReadLine
    <3>. QED BY <3>1, <3>3, <3>4, <3>5
  <2>. DEFINE Good(n) == OperandFits(a, n, kind[n])
  <2>7. WellFormed(words) <=> Len(a) <= 3 /\ Good(1) /\ Good(2) /\ Good(3)
    <3>1. WellFormed(words) <=>
            words[1].t \in Opcodes /\ Len(a) <= 3 /\ \A n \in 1 .. 3 : Good(n)
      BY <1>2, <1>3, <1>12, <2>1 DEF WellFormed, OperandFits
    <3>2. words[1].t \in Opcodes
      BY <1>3, <1>12, <1>14
    <3>. HIDE DEF Good
    <3>3. (\A n \in 1 .. 3 : Good(n)) <=> Good(1) /\ Good(2) /\ Good(3)
      <4>1. \A n \in 1 .. 3 : n = 1 \/ n = 2 \/ n = 3
        OBVIOUS
      <4>. QED BY <4>1
    <3>. QED BY <3>1, <3>2, <3>3
  <2>8. kind[1] \in OperandKinds /\ kind[2] \in OperandKinds /\ kind[3] \in OperandKinds
    <3>1. 1 \in 1 .. 3 /\ 2 \in 1 .. 3 /\ 3 \in 1 .. 3
      OBVIOUS
    <3>. QED BY <1>14, <2>1, <3>1, KindsOfOperands
  <2>9. (kind[1] = "-" => kind[2] = "-") /\ (kind[2] = "-" => kind[3] = "-")
    BY <1>14, <2>1, ShapeEnds
  <2>10. s0 = Left(a, 0) \o rest
    <3>1. Left(a, 0) = a
      BY SubSeqFull DEF Left
    <3>. QED BY <1>8, <3>1
  <2>12. /\ Good(1) => Reads(one, a, rest, 1, kind[1])
         /\ ~Good(1) => IsError(kind[1], one.arg) \/ Sinks(one.rest, kind[1])
    <3>1. 0 \in Nat /\ 1 = 0 + 1
      OBVIOUS
    <3>2. PICK s1 : s1 = s0
      OBVIOUS
    <3>3. one = Read(kind[1], s1) /\ s1 = Left(a, 0) \o rest
      BY <2>2, <2>10, <3>2
    <3>. QED BY <1>7, <2>8, <3>1, <3>3, ReadOperand
  <2>13. ASSUME one.rest = Left(a, 1) \o rest
         PROVE  /\ Good(2) => Reads(two, a, rest, 2, kind[2])
                /\ ~Good(2) => IsError(kind[2], two.arg) \/ Sinks(two.rest, kind[2])
    <3>1. 1 \in Nat /\ 2 = 1 + 1
      OBVIOUS
    <3>2. PICK s1 : s1 = one.rest
      OBVIOUS
    <3>3. two = Read(kind[2], s1) /\ s1 = Left(a, 1) \o rest
      BY <2>3, <2>13, <3>2
    <3>. QED BY <1>7, <2>8, <3>1, <3>3, ReadOperand
  <2>14. ASSUME two.rest = Left(a, 2) \o rest
         PROVE  /\ Good(3) => Reads(three, a, rest, 3, kind[3])
                /\ ~Good(3) => IsError(kind[3], three.arg) \/ Sinks(three.rest, kind[3])
    <3>1. 2 \in Nat /\ 3 = 2 + 1
      OBVIOUS
    <3>2. PICK s1 : s1 = two.rest
      OBVIOUS
    <3>3. three = Read(kind[3], s1) /\ s1 = Left(a, 2) \o rest
      BY <2>4, <2>14, <3>2
    <3>. QED BY <1>7, <2>8, <3>1, <3>3, ReadOperand
  <2>. HIDE DEF Good
  <2>17. Good(1) => Reads(one, a, rest, 1, kind[1]) /\ one.rest = Left(a, 1) \o rest
    <3>1. Good(1) => Reads(one, a, rest, 1, kind[1])
      BY <2>12
    <3>2. Reads(one, a, rest, 1, kind[1]) => one.rest = Left(a, 1) \o rest
      BY ReadsOn
    <3>. QED BY <3>1, <3>2
  <2>15. ASSUME WellFormed(words)
         PROVE  ~read.error /\ read.rest = rest /\ Means(read.inst, words)
    <3>1. Len(a) <= 3 /\ Good(1) /\ Good(2) /\ Good(3)
      BY <2>7, <2>15
    <3>2. /\ three.rest = Left(a, 3) \o rest /\ ~read.error
          /\ 1 <= Len(a) => one.arg = HandArg(kind[1], a[1])
          /\ 2 <= Len(a) => two.arg = HandArg(kind[2], a[2])
          /\ 3 <= Len(a) => three.arg = HandArg(kind[3], a[3])
      <4>1. one.rest = Left(a, 1) \o rest /\ Reads(one, a, rest, 1, kind[1])
        BY <2>17, <3>1
      <4>2. two.rest = Left(a, 2) \o rest /\ Reads(two, a, rest, 2, kind[2])
        BY <2>13, <3>1, <4>1 DEF Reads
      <4>3. Reads(three, a, rest, 3, kind[3])
        BY <2>14, <3>1, <4>2
      <4>. QED BY <2>6, <4>1, <4>2, <4>3 DEF Reads
    <3>3. three.rest = rest
      <4>1. 3 \in Nat /\ 3 >= Len(a)
        BY <1>5, <3>1
      <4>2. Left(a, 3) = <<>>
        BY <4>1, LeftType
      <4>. QED BY <3>2, <4>2, ConcatEmptySeq
    <3>4. ASSUME NEW n \in 1 .. Len(a)
          PROVE  <<read.inst.a1, read.inst.a2, read.inst.a3>>[n] = HandArg(kind[n], a[n])
      <4>1. (n = 1 /\ 1 <= Len(a)) \/ (n = 2 /\ 2 <= Len(a)) \/ (n = 3 /\ 3 <= Len(a))
        BY <1>5, <3>1, <3>4
      <4>2. read.inst.a1 = one.arg /\ read.inst.a2 = two.arg /\ read.inst.a3 = three.arg
        BY <2>6
      <4>. QED BY <3>2, <4>1, <4>2
    <3>5. read.inst.op = op
      BY <2>6
    <3>6. Means(read.inst, words)
      <4>1. DOMAIN a = 1 .. Len(a)
        OBVIOUS
      <4>. QED BY <1>2, <1>3, <1>12, <2>1, <3>4, <3>5, <4>1 DEF Means, HandArg
    <3>. QED BY <2>6, <3>2, <3>3, <3>6
  <2>16. ASSUME ~WellFormed(words), ~read.error PROVE Sunk(read.rest)
    <3>1. /\ ~IsError(kind[1], one.arg) /\ ~IsError(kind[2], two.arg)
          /\ ~IsError(kind[3], three.arg)
      BY <2>6, <2>16
    <3>2. ASSUME Sinks(one.rest, kind[1]) PROVE Sinks(two.rest, kind[2])
      <4>1. Sinks(one.rest, kind[2])
        BY <2>9, <3>2 DEF Sinks
      <4>2. kind[2] = "-" /\ two.rest = one.rest
        BY <2>3, <2>8, <3>1, <4>1, LeftBehind
      <4>. QED BY <4>1, <4>2
    <3>3. ASSUME Sinks(two.rest, kind[2]) PROVE Sinks(three.rest, kind[3])
      <4>1. Sinks(two.rest, kind[3])
        BY <2>9, <3>3 DEF Sinks
      <4>2. kind[3] = "-" /\ three.rest = two.rest
        BY <2>4, <2>8, <3>1, <4>1, LeftBehind
      <4>. QED BY <4>1, <4>2
    <3>4. ASSUME Good(1), Good(2), Good(3) PROVE Sunk(three.rest)
      <4>1. three.rest = Left(a, 3) \o rest /\ ~(Len(a) <= 3)
        <5>1. one.rest = Left(a, 1) \o rest
          BY <2>17, <3>4
        <5>2. two.rest = Left(a, 2) \o rest
          BY <2>13, <3>4, <5>1 DEF Reads
        <5>3. three.rest = Left(a, 3) \o rest
          BY <2>14, <3>4, <5>2 DEF Reads
        <5>. QED BY <2>7, <2>16, <3>4, <5>3
      <4>2. 3 \in Nat /\ 3 + 1 = 4 /\ 3 + 1 <= Len(a) /\ 4 \in 1 .. Len(a)
        <5>1. PICK N \in Nat : N = Len(a)
          BY <1>5
        <5>2. ~(N <= 3)
          BY <4>1, <5>1
        <5>3. 3 + 1 = 4 /\ 3 + 1 <= N /\ 4 \in 1 .. N
          BY <5>2
        <5>. QED BY <5>1, <5>3
      <4>3. PICK y \in T : y = a[4] /\ Left(a, 3) = <<y>> \o Left(a, 4)
        <5>1. PICK k \in Nat : k = 3 /\ k + 1 = 4
          OBVIOUS
        <5>2. a[k + 1] \in T /\ Left(a, k) = <<a[k + 1]>> \o Left(a, k + 1)
          BY <4>2, <5>1, LeftType
        <5>. QED BY <5>1, <5>2
      <4>4. PICK l \in Seq(T) : l = Left(a, 4)
        <5>1. 4 \in Nat
          OBVIOUS
        <5>. QED BY <5>1, LeftType
      <4>5. PICK g \in Seq(T) : g = <<y>>
        BY One
      <4>6. PICK r \in Seq(T) : r = l \o rest
        <5>1. l \o rest \in Seq(T)
          BY ConcatProperties
        <5>. QED BY <5>1
      <4>7. Associates(g, l, rest)
        BY Associative
      <4>8. three.rest = <<y>> \o r
        BY <4>1, <4>3, <4>4, <4>5, <4>6, <4>7 DEF Associates
      <4>9. Head(three.rest) = y /\ three.rest # <<>>
        BY <4>8, Leads
      <4>10. y.t \notin Opcodes
        BY <1>7, <4>2, <4>3
      <4>. QED BY <4>9, <4>10 DEF Sunk
    <3>5. Sunk(three.rest) \/ Sinks(three.rest, kind[3])
      <4>1. CASE ~Good(1)
        BY <2>12, <3>1, <3>2, <3>3, <4>1
      <4>2. CASE Good(1)
        <5>1. one.rest = Left(a, 1) \o rest
          BY <2>17, <4>2
        <5>2. CASE ~Good(2)
          BY <2>13, <3>1, <3>3, <5>1, <5>2
        <5>3. CASE Good(2)
          <6>1. two.rest = Left(a, 2) \o rest
            BY <2>13, <5>1, <5>3 DEF Reads
          <6>2. CASE ~Good(3)
            BY <2>14, <3>1, <6>1, <6>2
          <6>. QED BY <3>4, <4>2, <5>3, <6>2
        <5>. QED BY <5>2, <5>3
      <4>. QED BY <4>1, <4>2
    <3>. QED BY <2>6, <3>5, JunkIsSunk DEF Sinks
  <2>. QED BY <2>15, <2>16
<1>. QED BY <1>13, <1>14

\* The lines of a file from number n + 1 on.
From(lines, n) == [l \in 1 .. Len(lines) - n |-> lines[n + l]]

LEMMA NextPart ==
  ASSUME NEW T, NEW lines \in Seq(Seq(T)), NEW n \in Nat, n < Len(lines)
  PROVE  /\ FlattenSeq(From(lines, n + 1)) \in Seq(T) /\ lines[n + 1] \in Seq(T)
         /\ FlattenSeq(From(lines, n)) = lines[n + 1] \o FlattenSeq(From(lines, n + 1))
<1>1. PICK N \in Nat \ {0} : N = Len(lines) - n /\ Len(lines) \in Nat
  <2>1. Len(lines) \in Nat
    OBVIOUS
  <2>2. Len(lines) - n \in Nat \ {0}
    BY <2>1
  <2>. QED BY <2>1, <2>2
<1>2. PICK S : S = Seq(T)
  OBVIOUS
<1>3. \A l \in 1 .. N : n + l \in 1 .. Len(lines) /\ lines[n + l] \in Seq(T)
  <2>1. \A k \in 1 .. Len(lines) : lines[k] \in S
    BY <1>2
  <2>2. \A l \in 1 .. N : n + l \in 1 .. Len(lines)
    BY <1>1
  <2>. QED BY <1>2, <2>1, <2>2
<1>4. PICK seqs : seqs = From(lines, n)
  OBVIOUS
<1>5. seqs = [l \in 1 .. N |-> lines[n + l]]
  BY <1>1, <1>4 DEF From
<1>6. Len(seqs) = N
  BY <1>5
<1>7. Parts(T, seqs, N)
  BY <1>3, <1>5, <1>6 DEF Parts
<1>8. PICK t : t = From(lines, n + 1)
  OBVIOUS
<1>9. PICK M \in Nat : M = N - 1 /\ M = Len(lines) - (n + 1)
  <2>1. N - 1 \in Nat /\ N - 1 = Len(lines) - (n + 1)
    BY <1>1
  <2>. QED BY <2>1
<1>10. t = [l \in 1 .. M |-> lines[(n + 1) + l]]
  BY <1>8, <1>9 DEF From
<1>11. Len(t) = M /\ (M = 0 => t = <<>>)
  BY <1>10
<1>12. \A l \in 1 .. M : l + 1 \in 1 .. N /\ (n + 1) + l = n + (l + 1)
  BY <1>9
<1>13. \A l \in 1 .. M : t[l] = seqs[l + 1]
  BY <1>5, <1>10, <1>12
<1>14. FlattenSeq(seqs) = seqs[1] \o FlattenSeq(t)
  <2>1. Len(t) = N - 1 /\ (N = 1 => t = <<>>) /\ \A i \in 1 .. N - 1 : t[i] = seqs[i + 1]
    BY <1>9, <1>11, <1>13
  <2>. QED BY <1>7, <2>1, FlattenFirst, ZenonT(60)
<1>15. Parts(T, t, M)
  <2>1. \A l \in 1 .. M : t[l] \in Seq(T)
    <3>1. \A l \in 1 .. N : seqs[l] \in Seq(T)
      BY <1>7 DEF Parts
    <3>. QED BY <1>12, <1>13, <3>1
  <2>. QED BY <1>11, <2>1 DEF Parts
<1>16. FlattenSeq(t) \in Seq(T)
  BY <1>15, FlattenType
<1>17. 1 \in 1 .. N /\ seqs[1] = lines[n + 1] /\ lines[n + 1] \in Seq(T)
  <2>1. 1 \in 1 .. N
    BY <1>1
  <2>. QED BY <1>3, <1>5, <2>1
<1>. QED BY <1>4, <1>8, <1>14, <1>16, <1>17

\* Behind the last line there is nothing.
LEMMA NoPart ==
  ASSUME NEW lines, Len(lines) \in Nat
  PROVE  FlattenSeq(From(lines, Len(lines))) = <<>>
<1>1. From(lines, Len(lines)) = <<>>
  BY DEF From
<1>2. FlattenSeq(<<>>) = <<>>
  BY FlattenChosen
<1>. QED BY <1>1, <1>2

\* The hand-written file.
HandWords == UNION {Elements(written.hand[l]) : l \in DOMAIN written.hand}

LEMMA HandTypes ==
  ASSUME AsMeant(written)
  PROVE  /\ FileWords(HandWords) /\ written.hand \in Seq(Seq(HandWords))
         /\ \A l \in DOMAIN written.hand : IsLine(written.hand[l])
<1>1. PICK hand : hand = written.hand
  OBVIOUS
<1>2. IsList(hand) /\ \A l \in DOMAIN hand : IsLine(hand[l])
  BY <1>1 DEF AsMeant
<1>3. Len(hand) \in Nat /\ DOMAIN hand = 1 .. Len(hand) /\ hand = [l \in 1 .. Len(hand) |-> hand[l]]
  BY <1>2 DEF IsList
<1>4. PICK T : T = HandWords
  OBVIOUS
<1>5. ASSUME NEW l \in DOMAIN hand PROVE hand[l] \in Seq(T)
  <2>1. hand[l] \in Seq({hand[l][n] : n \in DOMAIN hand[l]})
    BY <1>2 DEF IsLine, IsList
  <2>2. {hand[l][n] : n \in DOMAIN hand[l]} \subseteq T
    BY <1>1, <1>4 DEF HandWords, Elements
  <2>. QED BY <2>1, <2>2, SeqMonotonic
<1>6. PICK S : S = Seq(T)
  OBVIOUS
<1>7. hand \in Seq(S)
  BY <1>3, <1>5, <1>6
<1>8. FileWords(T)
  <2>1. ASSUME NEW x \in T PROVE x.v \in Int
    <3>1. PICK l \in DOMAIN hand : x \in Elements(hand[l])
      BY <1>1, <1>4 DEF HandWords
    <3>2. PICK n \in DOMAIN hand[l] : x = hand[l][n]
      BY <3>1 DEF Elements
    <3>. QED BY <1>2, <3>2 DEF IsLine
  <2>. QED BY <2>1 DEF FileWords
<1>. QED BY <1>1, <1>2, <1>4, <1>6, <1>7, <1>8

\* Behind a line there is the next one or nothing.
LEMMA NextHandLine ==
  ASSUME AsMeant(written), NEW n \in 0 .. Len(written.hand)
  PROVE  /\ FlattenSeq(From(written.hand, n)) \in Seq(HandWords)
         /\ Barred(FlattenSeq(From(written.hand, n)))
         /\ FlattenSeq(From(written.hand, n)) = <<>> <=> n = Len(written.hand)
<1>1. PICK hand \in Seq(Seq(HandWords)) : hand = written.hand
  BY HandTypes
<1>2. Len(hand) \in Nat /\ n \in Nat
  BY <1>1
<1>5. PICK F : F = FlattenSeq(From(hand, n))
  OBVIOUS
<1>6. SUFFICES F \in Seq(HandWords) /\ Barred(F) /\ (F = <<>> <=> n = Len(hand))
  BY <1>1, <1>5
<1>3. CASE n = Len(hand)
  <2>1. FlattenSeq(From(hand, n)) = <<>>
    BY <1>2, <1>3, NoPart
  <2>2. <<>> \in Seq(HandWords)
    BY None
  <2>. QED BY <1>3, <1>5, <2>1, <2>2 DEF Barred
<1>4. CASE n # Len(hand)
  <2>1. n < Len(hand)
    BY <1>1, <1>2, <1>4
  <2>2. PICK rest \in Seq(HandWords) : rest = FlattenSeq(From(hand, n + 1))
    BY <1>2, <2>1, NextPart
  <2>3. PICK line1 \in Seq(HandWords) : line1 = hand[n + 1]
    BY <1>2, <2>1, NextPart
  <2>4. FlattenSeq(From(hand, n)) = line1 \o rest
    BY <1>2, <2>1, <2>2, <2>3, NextPart
  <2>5. n + 1 \in DOMAIN hand
    BY <1>2, <2>1
  <2>6. line1 # <<>> /\ line1[1].t \notin {"I", "R"} \cup Constants
    BY <1>1, <2>3, <2>5, HandTypes DEF IsLine
  <2>7. Len(line1) \in Nat \ {0} /\ Len(rest) \in Nat
    BY <2>6
  <2>8. PICK s \in Seq(HandWords) : s = line1 \o rest
    <3>1. line1 \o rest \in Seq(HandWords)
      BY ConcatProperties
    <3>. QED BY <3>1
  <2>9. Len(s) = Len(line1) + Len(rest) /\ s[1] = line1[1]
    <3>1. Len(s) = Len(line1) + Len(rest)
          /\ \A i \in 1 .. Len(line1) + Len(rest) :
               s[i] = IF i <= Len(line1) THEN line1[i] ELSE rest[i - Len(line1)]
      BY <2>8, ConcatProperties
    <3>2. 1 \in 1 .. Len(line1) + Len(rest) /\ 1 <= Len(line1)
      BY <2>7
    <3>. QED BY <3>1, <3>2
  <2>10. s # <<>> /\ Head(s) = line1[1]
    BY <2>7, <2>9
  <2>. QED BY <1>4, <1>5, <2>4, <2>6, <2>8, <2>10 DEF Barred
<1>. QED BY <1>3, <1>4

\* The first line that is not well-formed, if there is one.
LEMMA StopIs ==
  ASSUME AsMeant(written), NEW n \in Nat, n < Len(written.hand),
         \A l \in 1 .. n : WellFormed(written.hand[l])
  PROVE  /\ WellFormed(written.hand[n + 1]) => Stop \in Nat /\ Stop > n + 1
         /\ ~WellFormed(written.hand[n + 1]) => Stop = n + 1 /\ Malformed # {}
<1>1. PICK hand : hand = written.hand
  OBVIOUS
<1>2. PICK N \in Nat : N = Len(hand) /\ DOMAIN hand = 1 .. N
  BY <1>1, HandTypes
<1>3. PICK M : M = Malformed
  OBVIOUS
<1>4. M = {l \in 1 .. N : ~WellFormed(hand[l])}
  BY <1>1, <1>2, <1>3 DEF Malformed
<1>5. M \subseteq Nat /\ \A l \in M : l \in Nat /\ l >= n + 1
  <2>1. \A l \in M : l \in 1 .. N /\ l \notin 1 .. n
    BY <1>1, <1>4
  <2>. QED BY <2>1
<1>6. n < N /\ n + 1 \in 1 .. N
  BY <1>1, <1>2
<1>7. ASSUME WellFormed(hand[n + 1]) PROVE Stop \in Nat /\ Stop > n + 1
  <2>1. n + 1 \notin M
    BY <1>4, <1>7
  <2>2. CASE M = {}
    <3>1. Stop = N + 1
      BY <1>1, <1>2, <1>3, <2>2 DEF Stop
    <3>. QED BY <1>6, <3>1
  <2>3. CASE M # {}
    <3>1. Stop = First(M) /\ First(M) \in M
      BY <1>3, <1>5, <2>3, FirstOf DEF Stop
    <3>2. PICK k \in Nat : k = Stop /\ k >= n + 1 /\ k # n + 1
      BY <1>5, <2>1, <3>1
    <3>3. k > n + 1
      BY <3>2
    <3>. QED BY <3>2, <3>3
  <2>. QED BY <2>2, <2>3
<1>8. ASSUME ~WellFormed(hand[n + 1]) PROVE Stop = n + 1 /\ M # {}
  <2>1. n + 1 \in M
    BY <1>4, <1>6, <1>8
  <2>2. First(M) \in M /\ First(M) <= n + 1 /\ Stop = First(M)
    BY <1>3, <1>5, <2>1, FirstOf DEF Stop
  <2>3. Stop = n + 1
    <3>1. PICK k \in Nat : k = First(M) /\ k >= n + 1 /\ k <= n + 1
      BY <1>5, <2>2
    <3>2. k = n + 1
      BY <3>1
    <3>. QED BY <2>2, <3>1, <3>2
  <2>. QED BY <2>1, <2>3
<1>. QED BY <1>1, <1>3, <1>7, <1>8

\* load_program on the hand-written file has taken a number of lines as written and is
\* in front of the next, or it has taken the first that is not well-formed without an
\* error and is in front of a word that it will not get past.
InFront ==
  /\ Len(prog) <= Len(written.hand)
  /\ \A l \in 1 .. Len(prog) :
       WellFormed(written.hand[l]) /\ Means(prog[l], written.hand[l])
  /\ file = FlattenSeq(From(written.hand, Len(prog)))
Stuck == Len(prog) = Stop /\ Malformed # {} /\ Sunk(file)

HandIInv ==
  /\ "h" \in DOMAIN fs
  /\ ByHand /\ phase = "load" => IsList(prog) /\ Len(prog) < AsmSize /\ (InFront \/ Stuck)
  /\ RunsWhatIsWritten

\* Only rx is between the start and the end of a file.
LEMMA OthersByHand ==
  ASSUME "h" \in DOMAIN fs',
         phase' \notin {"load", "rejected", "overrun"} \/ Head(cmd') = "rcc"
  PROVE  HandIInv'
<1>1. CASE phase' \notin {"load", "rejected", "overrun"}
  BY <1>1 DEF HandIInv, RunsWhatIsWritten
<1>2. CASE Head(cmd') = "rcc"
  <2>1. Head(<<"rx", "h">>) = "rx"
    OBVIOUS
  <2>2. ~ByHand'
    BY <1>2, <2>1 DEF ByHand
  <2>. QED BY <2>2 DEF HandIInv, RunsWhatIsWritten
<1>. QED BY <1>1, <1>2

\* rx starts in front of the first line.
LEMMA StartsByHand == ASSUME AsMeant(written), HandIInv, RxStarts PROVE HandIInv'
<1>1. PICK command : /\ cmd' = command /\ prog' = <<>> /\ fs' = fs /\ written' = written
                     /\ IF Len(command) = 2 /\ command[2] \in DOMAIN fs
                        THEN phase' = "load" /\ file' = Instructions(fs[command[2]])
                        ELSE phase' = "prompt"
  BY DEF RxStarts, Give, Exit
<1>2. "h" \in DOMAIN fs'
  BY <1>1 DEF HandIInv
<1>3. CASE phase' = "prompt"
  BY <1>2, <1>3, OthersByHand
<1>4. CASE phase' # "prompt"
  <2>1. phase' = "load" /\ file' = Instructions(fs[command[2]])
    BY <1>1, <1>4
  <2>2. ASSUME ByHand' PROVE IsList(prog') /\ Len(prog') < AsmSize /\ InFront'
                             /\ file' = FlattenSeq(From(written.hand, 0))
    <3>1. PICK hand : hand = written.hand /\ hand \in Seq(Seq(HandWords))
      BY HandTypes
    <3>2. 0 \in 0 .. Len(hand) /\ From(hand, 0) = hand
      BY <3>1 DEF From
    <3>3. /\ command = <<"rx", "h">>
          /\ fs["h"].asm = FlattenSeq(hand) /\ fs["h"].text = <<>>
      BY <1>1, <2>2, <3>1 DEF ByHand
    <3>4. FlattenSeq(hand) \in Seq(HandWords)
      BY <3>1, <3>2, NextHandLine
    <3>5. Instructions(fs["h"]) = <<>> \o fs["h"].asm
      BY <3>3 DEF Instructions
    <3>6. file' = FlattenSeq(hand)
      BY <2>1, <3>3, <3>4, <3>5, ConcatEmptySeq
    <3>7. Len(prog') = 0 /\ IsList(prog') /\ 0 < AsmSize
      BY <1>1, EmptyLists, LoaderAssumption
    <3>8. InFront'
      BY <1>1, <3>1, <3>2, <3>6, <3>7 DEF InFront
    <3>. QED BY <3>1, <3>2, <3>6, <3>7, <3>8
  <2>3. RunsWhatIsWritten'
    <3>1. ASSUME ByHand', file' = <<>>
          PROVE  /\ Malformed' = {} /\ Len(prog') = Len(written'.hand)
                 /\ \A l \in DOMAIN prog' : Means(prog'[l], written'.hand[l])
      <4>1. 0 \in 0 .. Len(written.hand)
        BY HandTypes
      <4>2. Len(written.hand) = 0
        BY <2>2, <3>1, <4>1, NextHandLine
      <4>3. DOMAIN written.hand = {} /\ DOMAIN prog' = {}
        BY <1>1, <4>2, HandTypes
      <4>. QED BY <1>1, <4>2, <4>3 DEF Malformed
    <3>. QED BY <2>1, <3>1 DEF RunsWhatIsWritten
  <2>. QED BY <1>2, <2>2, <2>3 DEF HandIInv
<1>. QED BY <1>3, <1>4

\* It takes the next line, or stops.
LEMMA LoadsByHand == ASSUME AsMeant(written), HandIInv, RxLoads PROVE HandIInv'
<1>1. PICK read : /\ read = ReadLine(file) /\ phase = "load" /\ file # <<>>
                  /\ prog' = Append(prog, read.inst) /\ file' = read.rest
                  /\ LET outside == Len(prog) + 1 >= AsmSize /\ read.inst.op \in Opcodes
                     IN  phase' = CASE outside -> "overrun"
                                    [] ~outside /\ read.error -> "rejected"
                                    [] OTHER -> phase
                  /\ fs' = fs /\ cmd' = cmd /\ written' = written
  BY DEF RxLoads, LoadLine, tvars
<1>2. "h" \in DOMAIN fs' /\ ByHand' = ByHand
      /\ Malformed' = Malformed /\ Stop' = Stop
  BY <1>1 DEF HandIInv, ByHand, Malformed, Stop
<1>3. CASE ~ByHand
  BY <1>2, <1>3 DEF HandIInv, RunsWhatIsWritten
<1>4. CASE ByHand
  <2>1. IsList(prog) /\ Len(prog) < AsmSize /\ (InFront \/ Stuck)
    BY <1>1, <1>4 DEF HandIInv
  <2>2. PICK n \in Nat : n = Len(prog)
    BY <2>1 DEF IsList
  <2>3. /\ IsList(prog') /\ Len(prog') = n + 1 /\ DOMAIN prog' = 1 .. n + 1
        /\ prog'[n + 1] = read.inst /\ \A l \in 1 .. n : prog'[l] = prog[l]
    <3>. DEFINE E == {prog[l] : l \in DOMAIN prog} \cup {read.inst}
    <3>1. PICK S : S = E
      OBVIOUS
    <3>2. prog \in Seq({prog[l] : l \in DOMAIN prog}) /\ {prog[l] : l \in DOMAIN prog} \subseteq S
          /\ read.inst \in S
      BY <2>1, <3>1 DEF IsList
    <3>. HIDE DEF E
    <3>3. prog \in Seq(S)
      BY <3>2, SeqMonotonic
    <3>4. PICK x \in S : x = read.inst
      BY <3>2
    <3>5. PICK next \in Seq(S) : next = Append(prog, x)
      BY <3>3, AppendProperties
    <3>6. Len(next) = n + 1 /\ DOMAIN next = 1 .. n + 1
          /\ next[n + 1] = x /\ \A l \in 1 .. n : next[l] = prog[l]
      BY <2>2, <3>3, <3>5, AppendProperties
    <3>7. IsList(next)
      BY SeqIsList
    <3>. QED BY <1>1, <3>4, <3>5, <3>6, <3>7
  <2>4. n < AsmSize /\ AsmSize \in Nat
    BY <2>1, <2>2, LoaderAssumption
  <2>5. /\ phase' \in {"overrun", "rejected", "load"}
        /\ phase' = "overrun" => n + 1 >= AsmSize /\ read.inst.op \in Opcodes
        /\ phase' = "rejected" => read.error
        /\ phase' = "load" => ~read.error /\ ~(n + 1 >= AsmSize /\ read.inst.op \in Opcodes)
    BY <1>1, <2>2
  <2>6. phase' = "overrun" => n + 1 = AsmSize /\ read.inst.op \in Opcodes
    BY <2>4, <2>5
  <2>7. phase' = "load" => n + 1 < AsmSize /\ ~read.error
    <3>1. ~read.error => read.inst.op \in Opcodes
      BY <1>1 DEF ReadLine
    <3>. QED BY <2>4, <2>5, <3>1
  <2>8. SUFFICES
          /\ phase' = "load" => InFront' \/ Stuck'
          /\ phase' = "rejected" => Malformed # {} /\ n + 1 \in {Stop, Stop + 1}
          /\ phase' = "overrun" => /\ n + 1 \in DOMAIN written.hand /\ Stop >= n + 1
                                   /\ read.inst.op = written.hand[n + 1][1].t
          /\ phase' = "load" /\ file' = <<>> =>
               /\ Malformed = {} /\ n + 1 = Len(written.hand)
               /\ \A l \in 1 .. n + 1 : Means(prog'[l], written.hand[l])
    <3>1. phase' = "load" => Len(prog') < AsmSize
      BY <2>3, <2>7
    <3>2. phase' = "overrun" => Len(prog') = AsmSize
      BY <2>3, <2>6
    <3>3. phase' = "overrun" =>
            /\ AsmSize \in DOMAIN written'.hand /\ Stop' >= AsmSize
            /\ prog'[AsmSize].op = written'.hand[AsmSize][1].t /\ prog'[AsmSize].op \in Opcodes
      BY <1>1, <1>2, <2>3, <2>6, <2>8
    <3>4. phase' = "rejected" => Malformed' # {} /\ Len(prog') \in {Stop', Stop' + 1}
      BY <1>2, <2>3, <2>8
    <3>5. phase' = "load" /\ file' = <<>> =>
            /\ Malformed' = {} /\ Len(prog') = Len(written'.hand)
            /\ \A l \in DOMAIN prog' : Means(prog'[l], written'.hand[l])
      BY <1>1, <1>2, <2>3, <2>8
    <3>6. RunsWhatIsWritten'
      BY <3>2, <3>3, <3>4, <3>5 DEF RunsWhatIsWritten
    <3>. QED BY <1>2, <2>3, <2>8, <3>1, <3>6 DEF HandIInv
  <2>9. CASE InFront
    <3>1. PICK hand : hand = written.hand /\ hand \in Seq(Seq(HandWords)) /\ FileWords(HandWords)
      BY HandTypes
    <3>2. Len(hand) \in Nat /\ n <= Len(hand) /\ n \in 0 .. Len(hand)
      BY <2>2, <2>9, <3>1 DEF InFront
    <3>3. /\ \A l \in 1 .. n : WellFormed(hand[l]) /\ Means(prog[l], hand[l])
          /\ file = FlattenSeq(From(hand, n))
      BY <2>2, <2>9, <3>1 DEF InFront
    <3>4. n # Len(hand)
      BY <1>1, <3>1, <3>2, <3>3, NextHandLine
    <3>5. n < Len(hand) /\ n + 1 \in 0 .. Len(hand) /\ n + 1 \in DOMAIN hand
      BY <3>1, <3>2, <3>4
    <3>6. PICK rest \in Seq(HandWords) : rest = FlattenSeq(From(hand, n + 1))
      BY <3>1, <3>5, NextPart
    <3>7. PICK words \in Seq(HandWords) : words = hand[n + 1]
      BY <3>1, <3>5, NextPart
    <3>8. file = words \o rest
      BY <3>1, <3>3, <3>5, <3>6, <3>7, NextPart
    <3>9. Barred(rest) /\ (rest = <<>> <=> n + 1 = Len(hand)) /\ IsLine(words)
      BY <3>1, <3>5, <3>6, <3>7, NextHandLine, HandTypes
    <3>10. /\ WellFormed(words) => ~read.error /\ read.rest = rest /\ Means(read.inst, words)
           /\ ~WellFormed(words) => read.error \/ Sunk(read.rest)
      <4>1. read = ReadLine(words \o rest)
        BY <1>1, <3>8
      <4>. QED BY <3>1, <3>9, <4>1, ReadsHandLine
    <3>13. read.inst.op = hand[n + 1][1].t
      <4>1. words # <<>>
        BY <3>9 DEF IsLine
      <4>2. Head(words \o rest) = words[1]
        BY <4>1
      <4>. QED BY <1>1, <3>7, <3>8, <4>2 DEF ReadLine
    <3>11. CASE WellFormed(words)
      <4>1. Stop \in Nat /\ Stop > n + 1
        BY <3>1, <3>3, <3>5, <3>7, <3>11, StopIs
      <4>2. ASSUME NEW l \in 1 .. n + 1
            PROVE  WellFormed(hand[l]) /\ Means(prog'[l], hand[l])
        <5>1. CASE l = n + 1
          BY <2>3, <3>7, <3>10, <3>11, <5>1
        <5>2. CASE l # n + 1
          <6>1. l \in 1 .. n
            BY <4>2, <5>2
          <6>. QED BY <2>3, <3>3, <6>1
        <5>. QED BY <5>1, <5>2
      <4>3. InFront'
        <5>1. n + 1 <= Len(hand)
          BY <3>5
        <5>2. file' = FlattenSeq(From(hand, n + 1))
          BY <1>1, <3>6, <3>10, <3>11
        <5>. QED BY <1>1, <2>3, <3>1, <4>2, <5>1, <5>2 DEF InFront
      <4>4. phase' # "rejected" /\ Stop >= n + 1
        BY <2>5, <3>10, <3>11, <4>1
      <4>5. ASSUME file' = <<>> PROVE Malformed = {} /\ n + 1 = Len(hand)
        <5>1. n + 1 = Len(hand)
          BY <1>1, <3>9, <3>10, <3>11, <4>5
        <5>2. \A l \in DOMAIN hand : WellFormed(hand[l])
          BY <3>1, <4>2, <5>1
        <5>. QED BY <3>1, <5>1, <5>2 DEF Malformed
      <4>. QED BY <3>1, <3>5, <3>13, <4>2, <4>3, <4>4, <4>5
    <3>12. CASE ~WellFormed(words)
      <4>1. Stop = n + 1 /\ Malformed # {}
        BY <3>1, <3>3, <3>5, <3>7, <3>12, StopIs
      <4>2. phase' = "load" => Sunk(file')
        BY <1>1, <2>7, <3>10, <3>12
      <4>3. phase' = "load" => Stuck'
        BY <1>2, <2>3, <4>1, <4>2 DEF Stuck
      <4>4. phase' = "load" => file' # <<>>
        BY <4>2 DEF Sunk
      <4>. QED BY <3>1, <3>5, <3>13, <4>1, <4>3, <4>4
    <3>. QED BY <3>11, <3>12
  <2>10. CASE Stuck
    <3>1. n = Stop /\ Malformed # {} /\ Head(file).t \notin Opcodes
      BY <2>2, <2>10, SMTT(40) DEF Stuck, Sunk
    <3>2. read.error /\ read.inst.op \notin Opcodes
      BY <1>1, <3>1 DEF ReadLine
    <3>. QED BY <2>6, <2>7, <3>1, <3>2
  <2>. QED BY <2>1, <2>9, <2>10
<1>. QED BY <1>3, <1>4

\* No file appears or disappears when rcc ends.
LEMMA EndDomain == \A status : RccEnds(status) => DOMAIN fs' = DOMAIN fs
BY DEF RccEnds

LEMMA NextByHand ==
  ASSUME AsMeant(written), FileIInv, IsParser(rcc), ParserIInv, HandIInv, [TNext]_<<vars, tvars>>
  PROVE  HandIInv'
<1>0. "h" \in DOMAIN fs
  BY DEF HandIInv
<1>1. ASSUME DOMAIN fs' = DOMAIN fs, phase' \notin {"load", "rejected", "overrun"} PROVE HandIInv'
  BY <1>0, <1>1, OthersByHand
<1>2. CASE RccRefuses \/ LexicalError \/ RegistersRunOut \/ RccExits \/ RxExits
  <2>1. phase' = "prompt" /\ (fs' = fs \/ \E status : RccEnds(status))
    BY <1>2 DEF RccRefuses, LexicalError, RegistersRunOut, RccExits, RxExits, RccEnds, Exit
  <2>. QED BY <1>1, <2>1, EndDomain
<1>3. CASE RccStarts
  <2>1. PICK files : fs' = Truncated(files) /\ phase' = "parse"
    BY <1>3 DEF RccStarts
  <2>2. "h" \in DOMAIN fs'
    BY <1>0, <2>1 DEF Truncated
  <2>. QED BY <2>1, <2>2, OthersByHand
<1>4. CASE Comment
  <2>1. phase' \in {"prompt", "parse"} /\ (fs' = fs \/ RccEnds(1))
    BY <1>4 DEF Comment, RccEnds, Exit, Parsing
  <2>. QED BY <1>1, <2>1, EndDomain
<1>5. CASE \/ SyntaxError \/ FunctionWord \/ Declare \/ BeginWord \/ StatementWord
            \/ Operand \/ Operator \/ Reduce \/ FunctionEndWord \/ ProgramWord \/ ProgramEnd
  <2>1. phase = "parse"
    BY <1>5, TakesToken DEF Advances, Token, Parsing
  <2>2. phase' \in {"parse", "prompt", "function"} /\ (fs' = fs \/ RccEnds(1))
    BY <1>5, <2>1, ParserSteps
  <2>. QED BY <1>1, <2>2, EndDomain
<1>6. CASE Translate
  <2>1. phase \in Generating
    BY <1>6 DEF Translate, FunctionHeader, CodeItem, FunctionEnd, MainHeader, MainEnd, Generating
  <2>2. phase' \in Generating
    BY <1>6, <2>1, TranslateIInv DEF ParserIInv
  <2>3. fs' = fs
    BY <1>6 DEF Translate, tvars
  <2>. QED BY <1>1, <2>2, <2>3 DEF Generating
<1>7. CASE RccWrites
  <2>1. PICK out, asm : fs' = [fs EXCEPT ![out] = [text |-> <<>>, asm |-> asm]]
    BY <1>7 DEF RccWrites
  <2>2. phase \in Generating /\ cmd' = cmd
    BY <1>7 DEF RccWrites, WriteFile, Generating
  <2>3. Head(cmd') = "rcc"
    BY <2>2 DEF FileIInv
  <2>4. "h" \in DOMAIN fs'
    BY <1>0, <2>1
  <2>. QED BY <2>3, <2>4, OthersByHand
<1>8. CASE RxStarts
  BY <1>8, StartsByHand
<1>9. CASE RxLoads
  BY <1>9, LoadsByHand
<1>10. CASE LoggedOut \/ UNCHANGED <<vars, tvars>>
  <2>1. /\ phase' = phase /\ fs' = fs /\ cmd' = cmd /\ written' = written
        /\ prog' = prog /\ file' = file
    BY <1>10 DEF LoggedOut, vars, tvars
  <2>2. /\ ByHand' = ByHand /\ InFront' = InFront /\ Stuck' = Stuck
        /\ RunsWhatIsWritten' = RunsWhatIsWritten
    BY <2>1 DEF ByHand, InFront, Stuck, Stop, Malformed, RunsWhatIsWritten
  <2>. QED BY <2>1, <2>2 DEF HandIInv
<1>. QED
  BY <1>2, <1>3, <1>4, <1>5, <1>6, <1>7, <1>8, <1>9, <1>10 DEF TNext

LEMMA InitByHand == TInit => HandIInv
<1>. SUFFICES ASSUME TInit PROVE HandIInv
  OBVIOUS
<1>1. "h" \in DOMAIN fs /\ phase = "prompt"
  BY DEF TInit
<1>. QED BY <1>1 DEF HandIInv, RunsWhatIsWritten

\* rx runs a hand-written file as written, stops where it is not well-formed, or stores
\* the line that is one too many, whatever its lines, and whatever rcc has done before.
THEOREM RunsWhatIsWrittenHolds == TSpec => []RunsWhatIsWritten
<1>. DEFINE Inv == ScannerIInv /\ ParserIInv /\ FileIInv /\ HandIInv
<1>1. TInit => Inv
  BY InitScanner, InitParser, InitFiles, InitByHand
<1>2. Inv /\ [TNext]_<<vars, tvars>> => Inv'
  BY NextScanner, NextParser, NextFiles, NextByHand DEF ScannerIInv
<1>3. Inv => RunsWhatIsWritten
  BY DEF HandIInv
<1>. QED BY <1>1, <1>2, <1>3, PTL DEF TSpec

=============================================================================

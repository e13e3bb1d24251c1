------------------------- MODULE DomainGeneratorProofs -------------------------
(***************************************************************************)
(* Theorems about DomainGenerator, for any rows the table may get, any     *)
(* number of them, and any edits and runs.                                 *)
(***************************************************************************)
EXTENDS DomainGenerator, TLAPS

\* The loops, as folds: u stands where a loop has no parameter.
Splits == INSTANCE SeqFolds WITH
  Op <- LAMBDA sep, pieces, c : IF c = sep THEN Append(pieces, <<>>)
                                ELSE [pieces EXCEPT ![Len(pieces)] = Append(@, c)]

Joins == INSTANCE SeqFolds WITH Op <- LAMBDA sep, text, p : text \o <<sep>> \o p

Quotes == INSTANCE SeqFolds WITH
  Op <- LAMBDA u, quoted, c : quoted \o (IF c \in DOMAIN Hex THEN <<"%", Hex[c]>> ELSE <<c>>)

Fulls == INSTANCE SeqFolds WITH
  Op <- LAMBDA u, kept, x : IF x # <<>> THEN Append(kept, x) ELSE kept

Matches == INSTANCE SeqFolds WITH
  Op <- LAMBDA d, kept, x : IF Live(x) /\ x.domain = d THEN Append(kept, x) ELSE kept

Builds == INSTANCE SeqFolds WITH Op <- LAMBDA u, built, row : AddRow(built, row)

-----------------------------------------------------------------------------
\* The loops, step by step

\* A text is split character by character.
LEMMA SplitSteps ==
  ASSUME NEW sep
  PROVE  /\ Split(<<>>, sep) = <<<<>>>>
         /\ \A S : \A text \in Seq(S) : \A c \in S :
              Split(Append(text, c), sep) =
                IF c = sep THEN Append(Split(text, sep), <<>>)
                ELSE [Split(text, sep) EXCEPT ![Len(Split(text, sep))] = Append(@, c)]
PROOF
  <1>1. \A text : Split(text, sep) = Splits!Fold(sep, <<<<>>>>, text)
    BY DEF Split, Splits!Fold, FoldLeft, Splits!FoldLeft, MapThenFoldSet, Splits!MapThenFoldSet,
           Max, Splits!Max
  <1>2. Split(<<>>, sep) = <<<<>>>>
    BY <1>1, Splits!FoldEmpty
  <1>3. ASSUME NEW S, NEW text \in Seq(S), NEW c \in S
        PROVE  Split(Append(text, c), sep) =
                 IF c = sep THEN Append(Split(text, sep), <<>>)
                 ELSE [Split(text, sep) EXCEPT ![Len(Split(text, sep))] = Append(@, c)]
    BY <1>1, Splits!FoldAppend
  <1> QED
    BY <1>2, <1>3

\* A text is quoted character by character.
LEMMA QuoteSteps ==
  /\ Quote(<<>>) = <<>>
  /\ \A S : \A text \in Seq(S) : \A c \in S :
       Quote(Append(text, c)) =
         Quote(text) \o (IF c \in DOMAIN Hex THEN <<"%", Hex[c]>> ELSE <<c>>)
PROOF
  <1>1. \A text : Quote(text) = Quotes!Fold(0, <<>>, text)
    BY DEF Quote, Quotes!Fold, FoldLeft, Quotes!FoldLeft, MapThenFoldSet, Quotes!MapThenFoldSet,
           Max, Quotes!Max
  <1>2. Quote(<<>>) = <<>>
    BY <1>1, Quotes!FoldEmpty
  <1>3. ASSUME NEW S, NEW text \in Seq(S), NEW c \in S
        PROVE  Quote(Append(text, c)) =
                 Quote(text) \o (IF c \in DOMAIN Hex THEN <<"%", Hex[c]>> ELSE <<c>>)
    BY <1>1, Quotes!FoldAppend
  <1> QED
    BY <1>2, <1>3

\* Empty pieces are passed over one by one.
LEMMA FullSteps ==
  /\ Keep(<<>>, LAMBDA p : p # <<>>) = <<>>
  /\ \A S : \A pieces \in Seq(S) : \A x \in S :
       Keep(Append(pieces, x), LAMBDA p : p # <<>>) =
         IF x # <<>> THEN Append(Keep(pieces, LAMBDA p : p # <<>>), x)
         ELSE Keep(pieces, LAMBDA p : p # <<>>)
PROOF
  <1>1. \A pieces : Keep(pieces, LAMBDA p : p # <<>>) = Fulls!Fold(0, <<>>, pieces)
    BY DEF Keep, Fulls!Fold, FoldLeft, Fulls!FoldLeft, MapThenFoldSet, Fulls!MapThenFoldSet,
           Max, Fulls!Max
  <1>2. Fulls!Fold(0, <<>>, <<>>) = <<>>
    BY Fulls!FoldEmpty
  <1>3. ASSUME NEW S, NEW pieces \in Seq(S), NEW x \in S
        PROVE  Fulls!Fold(0, <<>>, Append(pieces, x)) =
                 IF x # <<>> THEN Append(Fulls!Fold(0, <<>>, pieces), x)
                 ELSE Fulls!Fold(0, <<>>, pieces)
    BY Fulls!FoldAppend
  <1> QED
    BY <1>1, <1>2, <1>3

\* The rows of a domain are taken one by one.
LEMMA RowsOfSteps ==
  ASSUME NEW d
  PROVE  /\ RowsOf(<<>>, d) = <<>>
         /\ \A S : \A rows \in Seq(S) : \A row \in S :
              RowsOf(Append(rows, row), d) =
                IF Live(row) /\ row.domain = d THEN Append(RowsOf(rows, d), row)
                ELSE RowsOf(rows, d)
PROOF
  <1>1. \A rows : RowsOf(rows, d) = Matches!Fold(d, <<>>, rows)
    BY DEF RowsOf, Keep, Matches!Fold, FoldLeft, Matches!FoldLeft, MapThenFoldSet,
           Matches!MapThenFoldSet, Max, Matches!Max
  <1>2. RowsOf(<<>>, d) = <<>>
    BY <1>1, Matches!FoldEmpty
  <1>3. ASSUME NEW S, NEW rows \in Seq(S), NEW row \in S
        PROVE  RowsOf(Append(rows, row), d) =
                 IF Live(row) /\ row.domain = d THEN Append(RowsOf(rows, d), row)
                 ELSE RowsOf(rows, d)
    BY <1>1, Matches!FoldAppend
  <1> QED
    BY <1>2, <1>3

\* The domains are built row by row.
LEMMA BuildSteps ==
  /\ BuildDomains(<<>>) = [domains |-> <<>>, warned |-> {}]
  /\ \A S : \A rows \in Seq(S) : \A row \in S :
       BuildDomains(Append(rows, row)) = AddRow(BuildDomains(rows), row)
PROOF
  <1> DEFINE base == [domains |-> <<>>, warned |-> {}]
  <1>1. \A rows : BuildDomains(rows) = Builds!Fold(0, base, rows)
    BY DEF BuildDomains, Builds!Fold, FoldLeft, Builds!FoldLeft, MapThenFoldSet,
           Builds!MapThenFoldSet, Max, Builds!Max
  <1> HIDE DEF base
  <1>2. BuildDomains(<<>>) = base
    BY <1>1, Builds!FoldEmpty
  <1>3. ASSUME NEW S, NEW rows \in Seq(S), NEW row \in S
        PROVE  BuildDomains(Append(rows, row)) = AddRow(BuildDomains(rows), row)
    BY <1>1, Builds!FoldAppend
  <1> QED
    BY <1>2, <1>3 DEF base

\* Pieces are joined one by one, a separator before each but the first.
LEMMA JoinSteps ==
  ASSUME NEW sep
  PROVE  /\ Join(<<>>, sep) = <<>>
         /\ \A S : \A pieces \in Seq(S) : \A p \in S :
              Join(Append(pieces, p), sep) =
                IF pieces = <<>> THEN p ELSE Join(pieces, sep) \o <<sep>> \o p
PROOF
  <1>1. \A pieces : pieces # <<>> =>
          Join(pieces, sep) = Joins!Fold(sep, Head(pieces), Tail(pieces))
    BY DEF Join, Joins!Fold, FoldLeft, Joins!FoldLeft, MapThenFoldSet, Joins!MapThenFoldSet,
           Max, Joins!Max
  <1>2. \A h, S : \A t \in Seq(S) : \A p \in S :
          Joins!Fold(sep, h, Append(t, p)) = Joins!Fold(sep, h, t) \o <<sep>> \o p
    BY Joins!FoldAppend
  <1>3. Join(<<>>, sep) = <<>>
    BY DEF Join
  <1>4. ASSUME NEW S, NEW pieces \in Seq(S), NEW p \in S
        PROVE  Join(Append(pieces, p), sep) =
                 IF pieces = <<>> THEN p ELSE Join(pieces, sep) \o <<sep>> \o p
    <2>1. Append(pieces, p) # <<>>
      <3>1. Len(Append(pieces, p)) = Len(pieces) + 1 /\ Len(pieces) \in Nat
        OBVIOUS
      <3>2. Len(<<>>) = 0
        OBVIOUS
      <3> QED
        BY <3>1, <3>2
    <2>2. CASE pieces = <<>>
      <3>1. Head(Append(pieces, p)) = p /\ Tail(Append(pieces, p)) = <<>>
        BY <2>2
      <3> QED
        BY <1>1, <2>1, <2>2, <3>1, Joins!FoldEmpty
    <2>3. CASE pieces # <<>>
      <3> DEFINE h == Head(pieces)
                 t == Tail(pieces)
      <3>1. Head(Append(pieces, p)) = h /\ Tail(Append(pieces, p)) = Append(t, p)
        BY <2>3
      <3>2. t \in Seq(S)
        BY <2>3
      <3>3. Join(Append(pieces, p), sep) = Joins!Fold(sep, h, Append(t, p))
        BY <1>1, <2>1, <3>1, Zenon
      <3>4. Join(pieces, sep) = Joins!Fold(sep, h, t)
        BY <1>1, <2>3, Zenon
      <3> HIDE DEF h, t
      <3>5. Joins!Fold(sep, h, Append(t, p)) = Joins!Fold(sep, h, t) \o <<sep>> \o p
        BY <1>2, <3>2, Zenon
      <3> QED
        BY <2>3, <3>3, <3>4, <3>5, Zenon
    <2> QED
      BY <2>2, <2>3
  <1> QED
    BY <1>3, <1>4

-----------------------------------------------------------------------------
\* Texts

\* The provers do not know of a literal that it is a string.
Chars ==
  STRING \cup {"%", "20", "2C", "3D", "22", "5C", "&", ",", "=", "?", " ", "quot", "bslash", "GET"}

Text == Seq(Chars)

Blank == " "

Comma == ","

\* The characters that a path may not hold where nothing encodes it.
Marks == {Comma} \cup Special

\* No character of the text is in C.
Without(text, C) == \A i \in DOMAIN text : text[i] \notin C

\* What the positions of a sequence hold.
LEMMA SequenceFacts ==
  ASSUME NEW S, NEW q \in Seq(S)
  PROVE  /\ Len(q) \in Nat
         /\ DOMAIN q = 1..Len(q)
         /\ \A i \in DOMAIN q : q[i] \in S
PROOF
  <1>1. Len(q) \in Nat /\ DOMAIN q = 1..Len(q)
    OBVIOUS
  <1> QED
    BY <1>1

\* A sequence with an element more.
LEMMA AppendFacts ==
  ASSUME NEW S, NEW q \in Seq(S), NEW c \in S
  PROVE  /\ Append(q, c) \in Seq(S)
         /\ Len(Append(q, c)) = Len(q) + 1
         /\ DOMAIN Append(q, c) = 1..(Len(q) + 1)
         /\ \A i \in 1..Len(q) : Append(q, c)[i] = q[i]
         /\ Append(q, c)[Len(q) + 1] = c
         /\ Append(q, c) = q \o <<c>>
PROOF
  OBVIOUS

\* A character of a text and one more is of the text or the other.
LEMMA WithoutAppend ==
  ASSUME NEW S, NEW q \in Seq(S), NEW c \in S, NEW C
  PROVE  Without(Append(q, c), C) <=> Without(q, C) /\ c \notin C
PROOF
  <1>1. Len(q) \in Nat /\ DOMAIN q = 1..Len(q)
    BY SequenceFacts
  <1>2. /\ DOMAIN Append(q, c) = 1..(Len(q) + 1)
        /\ \A i \in 1..Len(q) : Append(q, c)[i] = q[i]
        /\ Append(q, c)[Len(q) + 1] = c
    BY AppendFacts
  <1>3. \A i : i \in 1..(Len(q) + 1) <=> i \in 1..Len(q) \/ i = Len(q) + 1
    BY <1>1
  <1> QED
    BY <1>1, <1>2, <1>3 DEF Without

\* A character of two texts is of one of them.
LEMMA WithoutConcat ==
  ASSUME NEW S, NEW q \in Seq(S), NEW r \in Seq(S), NEW C
  PROVE  Without(q \o r, C) <=> Without(q, C) /\ Without(r, C)
PROOF
  <1>1. /\ Len(q) \in Nat /\ Len(r) \in Nat /\ DOMAIN q = 1..Len(q) /\ DOMAIN r = 1..Len(r)
        /\ DOMAIN (q \o r) = 1..(Len(q) + Len(r))
    OBVIOUS
  <1>2. /\ \A i \in 1..Len(q) : i \in DOMAIN (q \o r) /\ (q \o r)[i] = q[i]
        /\ \A i \in 1..Len(r) : /\ Len(q) + i \in DOMAIN (q \o r)
                                /\ (q \o r)[Len(q) + i] = r[i]
    BY <1>1
  <1>3. \A i \in DOMAIN (q \o r) : i \in 1..Len(q) \/ \E j \in 1..Len(r) : i = Len(q) + j
    <2>1. ASSUME NEW i \in DOMAIN (q \o r), i \notin 1..Len(q)
          PROVE  i - Len(q) \in 1..Len(r) /\ i = Len(q) + (i - Len(q))
      BY <1>1, <2>1
    <2> QED
      BY <2>1
  <1> QED
    BY <1>1, <1>2, <1>3 DEF Without

\* The characters that separate, pad or escape are characters.
LEMMA CharFacts ==
  {"%", "20", "2C", "3D", "22", "5C", "&", ",", "=", "?", " ", "quot", "bslash", "GET"}
    \subseteq Chars
PROOF
  BY DEF Chars

\* The characters quote encodes, and what with.
LEMMA HexFacts ==
  /\ DOMAIN Hex = {" ", ",", "=", "quot", "bslash"}
  /\ \A c \in DOMAIN Hex : Hex[c] \in {"20", "2C", "3D", "22", "5C"}
PROOF
  BY DEF Hex

\* A set with the empty sequence and every extension of each of its sequences
\* has every sequence.
LEMMA Induction ==
  ASSUME NEW S, NEW T, <<>> \in T,
         \A s \in Seq(S) : s \in T => \A c \in S : Append(s, c) \in T
  PROVE  \A s \in Seq(S) : s \in T
PROOF
  BY Splits!SequencesInductive

\* Texts of one and two characters are texts.
LEMMA ShortFacts ==
  ASSUME NEW S, NEW c \in S, NEW e \in S
  PROVE  <<c>> \in Seq(S) /\ <<c, e>> \in Seq(S)
PROOF
  OBVIOUS

\* The characters of texts of one and two.
LEMMA ShortWithout ==
  ASSUME NEW c, NEW e, NEW C
  PROVE  /\ Without(<<c>>, C) <=> c \notin C
         /\ Without(<<c, e>>, C) <=> c \notin C /\ e \notin C
PROOF
  <1>1. DOMAIN <<c>> = 1..1 /\ <<c>>[1] = c
    OBVIOUS
  <1>2. DOMAIN <<c, e>> = 1..2 /\ <<c, e>>[1] = c /\ <<c, e>>[2] = e
    OBVIOUS
  <1>3. /\ 1 \in 1..1 /\ \A i \in 1..1 : i = 1
        /\ 1 \in 1..2 /\ 2 \in 1..2 /\ \A i \in 1..2 : i = 1 \/ i = 2
    OBVIOUS
  <1> QED
    BY <1>1, <1>2, <1>3 DEF Without

\* quote leaves nothing to encode, and adds no separator.
LEMMA QuoteFacts ==
  \A text \in Text : /\ Quote(text) \in Text
                     /\ Without(Quote(text), DOMAIN Hex)
                     /\ Without(text, {"&"}) => Without(Quote(text), {"&"})
PROOF
  <1> DEFINE T == {text \in Text : /\ Quote(text) \in Text
                                   /\ Without(Quote(text), DOMAIN Hex)
                                   /\ Without(text, {"&"}) => Without(Quote(text), {"&"})}
  <1>1. <<>> \in T
    <2>1. <<>> \in Text /\ \A C : Without(<<>>, C)
      BY DEF Text, Without
    <2> QED
      BY <2>1, QuoteSteps
  <1>2. ASSUME NEW t \in Seq(Chars), t \in T, NEW c \in Chars PROVE Append(t, c) \in T
    <2> DEFINE e == IF c \in DOMAIN Hex THEN <<"%", Hex[c]>> ELSE <<c>>
    <2>1. e \in Text /\ Without(e, DOMAIN Hex) /\ (c # "&" => Without(e, {"&"}))
      <3>1. CASE c \in DOMAIN Hex
        <4>1. /\ e = <<"%", Hex[c]>> /\ Hex[c] \in {"20", "2C", "3D", "22", "5C"}
              /\ Hex[c] \in Chars /\ "%" \in Chars
          BY <3>1, HexFacts, CharFacts
        <4>2. /\ "%" \notin DOMAIN Hex /\ Hex[c] \notin DOMAIN Hex
              /\ "%" \notin {"&"} /\ Hex[c] \notin {"&"}
          BY <4>1, HexFacts
        <4> HIDE DEF e
        <4>3. e \in Text
          BY <4>1, ShortFacts DEF Text
        <4>4. \A x, y, C : x \notin C /\ y \notin C => Without(<<x, y>>, C)
          BY ShortWithout, Zenon
        <4>5. e = <<"%", Hex[c]>>
          BY <4>1
        <4> QED
          BY <4>2, <4>3, <4>4, <4>5, Zenon
      <3>2. CASE c \notin DOMAIN Hex
        BY <3>2, ShortFacts, ShortWithout DEF Text
      <3> QED
        BY <3>1, <3>2
    <2>2. Quote(Append(t, c)) = Quote(t) \o e
      BY QuoteSteps
    <2> HIDE DEF e
    <2>3. Quote(t) \in Text /\ Without(Quote(t), DOMAIN Hex)
      BY <1>2
    <2>4. Quote(t) \o e \in Text /\ Without(Quote(t) \o e, DOMAIN Hex)
      BY <2>1, <2>3, WithoutConcat DEF Text
    <2>5. ASSUME Without(Append(t, c), {"&"}) PROVE Without(Quote(t) \o e, {"&"})
      <3>1. Without(t, {"&"}) /\ c # "&"
        BY <2>5, WithoutAppend
      <3>2. Without(Quote(t), {"&"}) /\ Without(e, {"&"})
        BY <1>2, <2>1, <3>1
      <3> QED
        BY <2>1, <2>3, <3>2, WithoutConcat DEF Text
    <2>6. Append(t, c) \in Text
      BY AppendFacts DEF Text
    <2> QED
      BY <2>2, <2>4, <2>5, <2>6
  <1>3. \A text \in Seq(Chars) : text \in T
    <2> HIDE DEF T
    <2> QED
      BY <1>1, <1>2, Induction
  <1> QED
    BY <1>3 DEF Text

\* A text without anything to encode stays as it is.
LEMMA QuoteKeeps ==
  \A text \in Text : Without(text, DOMAIN Hex) => Quote(text) = text
PROOF
  <1> DEFINE T == {text \in Text : Without(text, DOMAIN Hex) => Quote(text) = text}
  <1>1. <<>> \in T
    BY QuoteSteps DEF Text
  <1>2. ASSUME NEW t \in Seq(Chars), t \in T, NEW c \in Chars PROVE Append(t, c) \in T
    <2>1. Append(t, c) \in Seq(Chars) /\ Append(t, c) = t \o <<c>>
      BY AppendFacts
    <2>2. ASSUME Without(Append(t, c), DOMAIN Hex) PROVE Quote(Append(t, c)) = Append(t, c)
      <3>1. Without(t, DOMAIN Hex) /\ c \notin DOMAIN Hex
        BY <2>2, WithoutAppend
      <3>2. Quote(Append(t, c)) = Quote(t) \o <<c>>
        BY <3>1, QuoteSteps
      <3> QED
        BY <1>2, <2>1, <3>1, <3>2
    <2> QED
      BY <2>1, <2>2 DEF Text
  <1>3. \A text \in Seq(Chars) : text \in T
    <2> HIDE DEF T
    <2> QED
      BY <1>1, <1>2, Induction
  <1> QED
    BY <1>3 DEF Text

\* The first and the last of a set of positions.
LEMMA EndsOf ==
  ASSUME NEW n \in Nat, NEW S, S \subseteq 1..n, S # {}
  PROVE  /\ Min(S) \in S /\ \A y \in S : Min(S) <= y
         /\ Max(S) \in S /\ \A y \in S : y <= Max(S)
PROOF
  <1>1. PICK x \in S : \A y \in S : x <= y
    <2>1. S \subseteq Nat
      OBVIOUS
    <2> QED
      BY <2>1, Splits!LeastExists
  <1>2. Min(S) \in S /\ \A y \in S : Min(S) <= y
    BY <1>1 DEF Min
  <1>3. Splits!Max(S) \in S /\ \A y \in S : y <= Splits!Max(S)
    BY Splits!LastPosition
  <1>4. Splits!Max(S) = Max(S)
    BY DEF Splits!Max, Max
  <1> QED
    BY <1>2, <1>3, <1>4

\* A part of a text.
LEMMA PartFacts ==
  ASSUME NEW S, NEW q \in Seq(S), NEW a \in 1..Len(q), NEW b \in 0..Len(q), a <= b + 1
  PROVE  /\ SubSeq(q, a, b) \in Seq(S)
         /\ \A C : Without(q, C) => Without(SubSeq(q, a, b), C)
PROOF
  <1>1. /\ Len(q) \in Nat /\ DOMAIN q = 1..Len(q) /\ a \in Nat /\ b \in Nat
        /\ DOMAIN SubSeq(q, a, b) = 1..(b - a + 1)
        /\ SubSeq(q, a, b) \in Seq(S)
        /\ \A i \in 1..(b - a + 1) : SubSeq(q, a, b)[i] = q[a + i - 1]
    OBVIOUS
  <1>2. \A i \in 1..(b - a + 1) : a + i - 1 \in 1..Len(q)
    BY <1>1
  <1> QED
    BY <1>1, <1>2 DEF Without

\* The empty sequence has no position.
LEMMA EmptyDomain == DOMAIN <<>> = {}
PROOF
  OBVIOUS

\* A sequence that is not empty has a first and a last position.
LEMMA NonEmpty ==
  ASSUME NEW S, NEW q \in Seq(S), q # <<>>
  PROVE  Len(q) \in Nat /\ Len(q) >= 1 /\ 1 \in DOMAIN q /\ Len(q) \in DOMAIN q
PROOF
  OBVIOUS

\* strip leaves a part of a text.
LEMMA StripFacts ==
  ASSUME NEW text \in Text
  PROVE  /\ Strip(text) \in Text
         /\ \A C : Without(text, C) => Without(Strip(text), C)
PROOF
  <1> DEFINE inner == {i \in DOMAIN text : text[i] # " "}
  <1>1. Len(text) \in Nat /\ DOMAIN text = 1..Len(text)
    BY SequenceFacts DEF Text
  <1>2. CASE inner = {}
    <2>1. Strip(text) = <<>>
      BY <1>2 DEF Strip
    <2>2. <<>> \in Text /\ \A C : Without(<<>>, C)
      BY DEF Text, Without
    <2> QED
      BY <2>1, <2>2
  <1>3. CASE inner # {}
    <2>1. Strip(text) = SubSeq(text, Min(inner), Max(inner))
      BY <1>3 DEF Strip
    <2>2. inner \subseteq 1..Len(text)
      BY <1>1
    <2> HIDE DEF inner
    <2>3. Min(inner) \in 1..Len(text) /\ Max(inner) \in 1..Len(text) /\ Min(inner) <= Max(inner)
      BY <1>1, <1>3, <2>2, EndsOf
    <2> DEFINE a == Min(inner)
               b == Max(inner)
    <2>4. a \in 1..Len(text) /\ b \in 0..Len(text) /\ a <= b + 1
      BY <1>1, <2>3
    <2> HIDE DEF a, b
    <2>5. SubSeq(text, a, b) \in Text /\ \A C : Without(text, C) => Without(SubSeq(text, a, b), C)
      BY <2>4, PartFacts DEF Text
    <2> QED
      BY <2>1, <2>5 DEF a, b
  <1> QED
    BY <1>2, <1>3

\* strip leaves alone what does not begin or end with a blank, and nothing else.
LEMMA StripKeeps ==
  ASSUME NEW text \in Text, text # <<>>
  PROVE  Strip(text) = text <=> text[1] # " " /\ text[Len(text)] # " "
PROOF
  <1> DEFINE inner == {i \in DOMAIN text : text[i] # " "}
  <1>1. /\ Len(text) \in Nat /\ Len(text) >= 1 /\ DOMAIN text = 1..Len(text)
        /\ 1 \in DOMAIN text /\ Len(text) \in DOMAIN text
    BY DEF Text
  <1>2. Strip(text) = IF inner = {} THEN <<>> ELSE SubSeq(text, Min(inner), Max(inner))
    BY DEF Strip
  <1>3. \A i : i \in inner <=> i \in 1..Len(text) /\ text[i] # " "
    BY <1>1
  <1> HIDE DEF inner
  <1>4. ASSUME text[1] # " ", text[Len(text)] # " " PROVE Strip(text) = text
    <2>1. 1 \in inner /\ Len(text) \in inner /\ inner \subseteq 1..Len(text)
      BY <1>1, <1>3, <1>4
    <2>2. Min(inner) = 1 /\ Max(inner) = Len(text)
      <3>1. /\ Min(inner) \in 1..Len(text) /\ Min(inner) <= 1
            /\ Max(inner) \in 1..Len(text) /\ Len(text) <= Max(inner)
        BY <1>1, <2>1, EndsOf
      <3> QED
        BY <1>1, <3>1
    <2>3. SubSeq(text, 1, Len(text)) = text
      BY DEF Text
    <2> QED
      BY <1>2, <2>1, <2>2, <2>3
  <1>5. ASSUME Strip(text) = text PROVE text[1] # " " /\ text[Len(text)] # " "
    <2>1. inner # {} /\ inner \subseteq 1..Len(text)
      BY <1>2, <1>3, <1>5
    <2> DEFINE a == Min(inner)
               b == Max(inner)
    <2>2. a \in inner /\ b \in inner /\ a \in 1..Len(text) /\ b \in 1..Len(text) /\ a <= b
      BY <1>1, <2>1, EndsOf
    <2>3. text = SubSeq(text, a, b)
      BY <1>2, <1>5, <2>1
    <2> HIDE DEF a, b
    <2>4. Len(SubSeq(text, a, b)) = b - a + 1
      BY <1>1, <2>2 DEF Text
    <2>5. b - a + 1 = Len(text)
      BY <2>3, <2>4
    <2>6. a = 1 /\ b = Len(text)
      <3> DEFINE n == Len(text)
      <3>1. n \in Nat /\ a \in Nat /\ b \in Nat /\ 1 <= a /\ b <= n /\ b - a + 1 = n
        BY <1>1, <2>2, <2>5
      <3> HIDE DEF n
      <3>2. a = 1 /\ b = n
        BY <3>1
      <3> QED
        BY <3>2 DEF n
    <2> QED
      BY <1>3, <2>2, <2>6
  <1> QED
    BY <1>4, <1>5

\* strip leaves alone what has no blank.
LEMMA StripKeepsAll ==
  ASSUME NEW text \in Text, Without(text, {" "})
  PROVE  Strip(text) = text
PROOF
  <1>1. CASE text = <<>>
    <2>1. DOMAIN text = {}
      BY <1>1, EmptyDomain, Zenon
    <2>2. {i \in DOMAIN text : text[i] # " "} = {}
      BY <2>1
    <2> QED
      BY <1>1, <2>2 DEF Strip
  <1>2. CASE text # <<>>
    BY <1>2, NonEmpty, StripKeeps DEF Without, Text
  <1> QED
    BY <1>1, <1>2

\* A character added to the last piece.
Extend(P, c) == [P EXCEPT ![Len(P)] = Append(@, c)]

\* What a character adds to the pieces of a text.
LEMMA SplitText ==
  ASSUME NEW sep, NEW text \in Text
  PROVE  /\ sep \in Chars => Split(Append(text, sep), sep) = Append(Split(text, sep), <<>>)
         /\ \A c \in Chars : c # sep => Split(Append(text, c), sep) = Extend(Split(text, sep), c)
PROOF
  <1>1. \A c \in Chars :
          Split(Append(text, c), sep) =
            IF c = sep THEN Append(Split(text, sep), <<>>) ELSE Extend(Split(text, sep), c)
    <2>1. \A S : \A t \in Seq(S) : \A c \in S :
            Split(Append(t, c), sep) =
              IF c = sep THEN Append(Split(t, sep), <<>>)
              ELSE [Split(t, sep) EXCEPT ![Len(Split(t, sep))] = Append(@, c)]
      BY SplitSteps, Zenon
    <2>2. \A c \in Chars :
            Split(Append(text, c), sep) =
              IF c = sep THEN Append(Split(text, sep), <<>>)
              ELSE [Split(text, sep) EXCEPT ![Len(Split(text, sep))] = Append(@, c)]
      BY <2>1, Zenon DEF Text
    <2> QED
      BY <2>2, Zenon DEF Extend
  <1> QED
    BY <1>1

\* A list of pieces with a character added to the last.
LEMMA ExtendFacts ==
  ASSUME NEW P \in Seq(Text), Len(P) >= 1, NEW c \in Chars
  PROVE  /\ Extend(P, c) \in Seq(Text)
         /\ Len(Extend(P, c)) = Len(P)
         /\ DOMAIN Extend(P, c) = DOMAIN P
         /\ \A i \in DOMAIN P : Extend(P, c)[i] = IF i = Len(P) THEN Append(P[i], c) ELSE P[i]
PROOF
  <1> DEFINE Q == Extend(P, c)
  <1>1. /\ DOMAIN Q = DOMAIN P
        /\ \A i \in DOMAIN P : Q[i] = IF i = Len(P) THEN Append(P[i], c) ELSE P[i]
    BY DEF Extend
  <1>2. DOMAIN P = 1..Len(P) /\ Len(P) \in Nat /\ \A i \in DOMAIN P : P[i] \in Text
    BY SequenceFacts
  <1>3. \A t \in Text : Append(t, c) \in Text
    BY AppendFacts DEF Text
  <1>4. Q \in [1..Len(P) -> Text]
    BY <1>1, <1>2, <1>3 DEF Extend
  <1> HIDE DEF Q
  <1>5. Q \in Seq(Text) /\ Len(Q) = Len(P)
    BY <1>2, <1>4
  <1> QED
    BY <1>1, <1>5 DEF Q

\* The last piece of a longer list with a character added.
LEMMA ExtendLast ==
  ASSUME NEW P \in Seq(Text), NEW q \in Text, NEW c \in Chars
  PROVE  Extend(Append(P, q), c) = Append(P, Append(q, c))
PROOF
  <1> DEFINE R == Append(P, q)
             n == Len(P)
             r == Append(q, c)
             V == Append(P, r)
             W == Extend(R, c)
  <1>1. n \in Nat /\ r \in Text
    BY SequenceFacts, AppendFacts DEF Text
  <1>2. /\ R \in Seq(Text) /\ Len(R) = n + 1 /\ DOMAIN R = 1..(n + 1)
        /\ (\A i \in 1..n : R[i] = P[i]) /\ R[n + 1] = q
    BY AppendFacts
  <1> HIDE DEF r
  <1>3. /\ V \in Seq(Text) /\ Len(V) = n + 1 /\ DOMAIN V = 1..(n + 1)
        /\ (\A i \in 1..n : V[i] = P[i]) /\ V[n + 1] = r
    BY <1>1, AppendFacts
  <1> HIDE DEF R, V, n
  <1>4. /\ W \in Seq(Text) /\ Len(W) = n + 1 /\ DOMAIN W = 1..(n + 1)
        /\ \A i \in 1..(n + 1) : W[i] = IF i = n + 1 THEN Append(R[i], c) ELSE R[i]
    BY <1>1, <1>2, ExtendFacts
  <1> HIDE DEF W
  <1>5. \A i \in 1..(n + 1) : W[i] = V[i]
    <2>1. \A i \in 1..(n + 1) : i \in 1..n \/ i = n + 1
      BY <1>1
    <2>2. \A i \in 1..n : i # n + 1 /\ i \in 1..(n + 1)
      BY <1>1
    <2>3. n + 1 \in 1..(n + 1)
      BY <1>1
    <2>4. W[n + 1] = r
      BY <1>2, <1>4, <2>3 DEF r
    <2> QED
      BY <1>2, <1>3, <1>4, <2>1, <2>2, <2>3, <2>4
  <1>6. W = V
    BY <1>3, <1>4, <1>5
  <1> QED
    BY <1>6 DEF W, V, R, r

\* split gives at least one piece, and none has the separator.
LEMMA SplitFacts ==
  ASSUME NEW sep
  PROVE  \A text \in Text :
           /\ Split(text, sep) \in Seq(Text)
           /\ Len(Split(text, sep)) >= 1
           /\ \A i \in DOMAIN Split(text, sep) : Without(Split(text, sep)[i], {sep})
PROOF
  <1> DEFINE Pieces(P) == /\ P \in Seq(Text) /\ Len(P) >= 1
                          /\ \A i \in DOMAIN P : Without(P[i], {sep})
             T == {text \in Text : Pieces(Split(text, sep))}
  <1>1. <<>> \in Text /\ Without(<<>>, {sep})
    BY EmptyDomain DEF Text, Without
  <1>2. <<>> \in T
    <2>1. /\ <<<<>>>> \in Seq(Text) /\ Len(<<<<>>>>) = 1
          /\ \A i \in DOMAIN <<<<>>>> : <<<<>>>>[i] = <<>>
      BY <1>1
    <2>2. Pieces(<<<<>>>>)
      BY <1>1, <2>1
    <2> HIDE DEF Pieces
    <2> QED
      BY <1>1, <2>2, SplitSteps
  <1>3. ASSUME NEW t \in Seq(Chars), t \in T, NEW c \in Chars PROVE Append(t, c) \in T
    <2> DEFINE P == Split(t, sep)
    <2>1. Pieces(P)
      BY <1>3
    <2>2. Split(Append(t, c), sep) = IF c = sep THEN Append(P, <<>>) ELSE Extend(P, c)
      BY SplitText DEF Text
    <2> HIDE DEF P
    <2>3. Len(P) \in Nat /\ DOMAIN P = 1..Len(P) /\ \A i \in DOMAIN P : P[i] \in Text
      BY <2>1, SequenceFacts
    <2>4. Pieces(Append(P, <<>>))
      <3>1. /\ Append(P, <<>>) \in Seq(Text) /\ Len(Append(P, <<>>)) = Len(P) + 1
            /\ DOMAIN Append(P, <<>>) = 1..(Len(P) + 1)
            /\ \A i \in 1..Len(P) : Append(P, <<>>)[i] = P[i]
            /\ Append(P, <<>>)[Len(P) + 1] = <<>>
        BY <1>1, <2>1, AppendFacts
      <3>2. \A i : i \in 1..(Len(P) + 1) <=> i \in 1..Len(P) \/ i = Len(P) + 1
        BY <2>3
      <3> QED
        <4> DEFINE Q == Append(P, <<>>)
        <4>1. /\ Q \in Seq(Text) /\ Len(Q) = Len(P) + 1 /\ DOMAIN Q = 1..(Len(P) + 1)
              /\ (\A i \in 1..Len(P) : Q[i] = P[i]) /\ Q[Len(P) + 1] = <<>>
          BY <3>1
        <4> HIDE DEF Q
        <4>2. \A i \in DOMAIN Q : Without(Q[i], {sep})
          BY <1>1, <2>1, <2>3, <3>2, <4>1
        <4>3. Len(Q) >= 1
          BY <2>3, <4>1
        <4> QED
          BY <4>1, <4>2, <4>3 DEF Q
    <2>5. ASSUME c # sep PROVE Pieces(Extend(P, c))
      <3> DEFINE Q == Extend(P, c)
      <3>1. /\ Q \in Seq(Text) /\ Len(Q) = Len(P) /\ DOMAIN Q = DOMAIN P
            /\ \A i \in DOMAIN P : Q[i] = IF i = Len(P) THEN Append(P[i], c) ELSE P[i]
        BY <2>1, ExtendFacts
      <3>2. \A x \in Text : Without(x, {sep}) => Without(Append(x, c), {sep})
        BY <2>5, WithoutAppend DEF Text
      <3> HIDE DEF Q
      <3>3. \A i \in DOMAIN Q : Without(Q[i], {sep})
        BY <2>1, <2>3, <3>1, <3>2
      <3> QED
        BY <2>1, <3>1, <3>3 DEF Q
    <2> HIDE DEF Pieces
    <2>6. Append(t, c) \in Text
      BY AppendFacts DEF Text
    <2> QED
      BY <2>2, <2>4, <2>5, <2>6
  <1>4. \A text \in Seq(Chars) : text \in T
    <2> HIDE DEF T
    <2> QED
      BY <1>2, <1>3, Induction
  <1> QED
    BY <1>4 DEF Text

\* A text without the separator is one piece.
LEMMA SplitOne ==
  ASSUME NEW sep
  PROVE  \A text \in Text : Without(text, {sep}) => Split(text, sep) = <<text>>
PROOF
  <1> DEFINE T == {text \in Text : Without(text, {sep}) => Split(text, sep) = <<text>>}
  <1>1. <<>> \in T
    BY SplitSteps DEF Text
  <1>2. ASSUME NEW t \in Seq(Chars), t \in T, NEW c \in Chars PROVE Append(t, c) \in T
    <2>1. Append(t, c) \in Text
      BY AppendFacts DEF Text
    <2>2. ASSUME Without(Append(t, c), {sep}) PROVE Split(Append(t, c), sep) = <<Append(t, c)>>
      <3>1. Without(t, {sep}) /\ c # sep
        BY <2>2, WithoutAppend
      <3>2. Split(Append(t, c), sep) = Extend(<<t>>, c)
        BY <1>2, <3>1, SplitText DEF Text
      <3>3. <<>> \in Seq(Text) /\ \A x \in Text : Append(<<>>, x) = <<x>>
        OBVIOUS
      <3>4. Extend(<<t>>, c) = <<Append(t, c)>>
        BY <2>1, <3>3, ExtendLast DEF Text
      <3> QED
        BY <3>2, <3>4
    <2> QED
      BY <2>1, <2>2
  <1>3. \A text \in Seq(Chars) : text \in T
    <2> HIDE DEF T
    <2> QED
      BY <1>1, <1>2, Induction
  <1> QED
    BY <1>3 DEF Text

\* After a separator, what has none is one piece more.
LEMMA SplitMore ==
  ASSUME NEW sep \in Chars, NEW t \in Text
  PROVE  \A p \in Text : Without(p, {sep}) =>
           Split(t \o <<sep>> \o p, sep) = Append(Split(t, sep), p)
PROOF
  <1> DEFINE T == {p \in Text : Without(p, {sep}) =>
                     Split(t \o <<sep>> \o p, sep) = Append(Split(t, sep), p)}
             P == Split(t, sep)
             u == t \o <<sep>>
  <1>1. P \in Seq(Text) /\ Len(P) >= 1 /\ Len(P) \in Nat
    BY SplitFacts, SequenceFacts
  <1>2. u = Append(t, sep) /\ u \in Text
    BY AppendFacts DEF Text
  <1>3. Split(u, sep) = Append(P, <<>>)
    BY <1>2, SplitText
  <1> HIDE DEF P, u
  <1>4. <<>> \in T
    <2>1. u \o <<>> = u /\ <<>> \in Text
      BY <1>2 DEF Text
    <2> QED
      BY <1>3, <2>1 DEF P, u
  <1>5. ASSUME NEW q \in Seq(Chars), q \in T, NEW c \in Chars PROVE Append(q, c) \in T
    <2>1. Append(q, c) \in Text /\ u \o q \in Text
      BY <1>2, AppendFacts DEF Text
    <2>2. ASSUME Without(Append(q, c), {sep})
          PROVE  Split(u \o Append(q, c), sep) = Append(P, Append(q, c))
      <3>1. Without(q, {sep}) /\ c # sep
        BY <2>2, WithoutAppend
      <3>2. u \o Append(q, c) = Append(u \o q, c)
        BY <1>2 DEF Text
      <3>3. Split(u \o q, sep) = Append(P, q)
        BY <1>5, <3>1 DEF P, u
      <3>4. Split(Append(u \o q, c), sep) = Extend(Append(P, q), c)
        BY <2>1, <3>1, <3>3, SplitText
      <3>5. Extend(Append(P, q), c) = Append(P, Append(q, c))
        BY <1>1, ExtendLast DEF Text
      <3> QED
        BY <3>2, <3>4, <3>5
    <2> QED
      BY <2>1, <2>2 DEF P, u
  <1>6. \A p \in Seq(Chars) : p \in T
    <2> HIDE DEF T
    <2> QED
      BY <1>4, <1>5, Induction
  <1> QED
    BY <1>6 DEF Text, P

\* Pieces joined without losing where they meet come apart again.
LEMMA SplitJoins ==
  ASSUME NEW sep \in Chars
  PROVE  \A P \in Seq(Text) : (\A i \in DOMAIN P : Without(P[i], {sep})) =>
           /\ Join(P, sep) \in Text
           /\ P # <<>> => Split(Join(P, sep), sep) = P
PROOF
  <1> DEFINE Apart(P) == \A i \in DOMAIN P : Without(P[i], {sep})
             Good(P) == /\ Join(P, sep) \in Text
                        /\ P # <<>> => Split(Join(P, sep), sep) = P
             T == {P \in Seq(Text) : Apart(P) => Good(P)}
  <1>1. <<>> \in T
    <2>1. <<>> \in Text /\ <<>> \in Seq(Text)
      BY DEF Text
    <2>2. Good(<<>>)
      BY <2>1, JoinSteps
    <2> HIDE DEF Good
    <2> QED
      BY <2>1, <2>2
  <1>2. ASSUME NEW P \in Seq(Text), P \in T, NEW p \in Text PROVE Append(P, p) \in T
    <2>1. /\ Len(P) \in Nat /\ DOMAIN P = 1..Len(P)
          /\ Append(P, p) \in Seq(Text)
          /\ DOMAIN Append(P, p) = 1..(Len(P) + 1)
          /\ \A i \in 1..Len(P) : Append(P, p)[i] = P[i]
          /\ Append(P, p)[Len(P) + 1] = p
      BY AppendFacts, SequenceFacts
    <2>2. ASSUME Apart(Append(P, p)) PROVE Good(Append(P, p))
      <3>1. Apart(P) /\ Without(p, {sep})
        <4>1. \A i \in 1..Len(P) : i \in 1..(Len(P) + 1)
          BY <2>1
        <4>2. Len(P) + 1 \in 1..(Len(P) + 1)
          BY <2>1
        <4> QED
          BY <2>1, <2>2, <4>1, <4>2
      <3>2. Join(Append(P, p), sep) = IF P = <<>> THEN p ELSE Join(P, sep) \o <<sep>> \o p
        BY JoinSteps
      <3>3. CASE P = <<>>
        <4>1. Join(Append(P, p), sep) = p /\ Append(P, p) = <<p>>
          BY <3>2, <3>3
        <4> QED
          BY <3>1, <4>1, SplitOne
      <3>4. CASE P # <<>>
        <4>1. Good(P)
          BY <1>2, <3>1
        <4> DEFINE t == Join(P, sep)
        <4>2. t \in Text /\ Split(t, sep) = P
          BY <3>4, <4>1
        <4>3. Join(Append(P, p), sep) = t \o <<sep>> \o p
          BY <3>2, <3>4
        <4> HIDE DEF t
        <4>4. t \o <<sep>> \o p \in Text
          BY <4>2 DEF Text
        <4>5. Split(t \o <<sep>> \o p, sep) = Append(P, p)
          BY <3>1, <4>2, SplitMore
        <4> QED
          BY <4>3, <4>4, <4>5
      <3> QED
        BY <3>3, <3>4
    <2> HIDE DEF Apart, Good
    <2> QED
      BY <2>1, <2>2
  <1>3. \A P \in Seq(Text) : P \in T
    <2> HIDE DEF T
    <2> QED
      BY <1>1, <1>2, Induction
  <1> QED
    BY <1>3

-----------------------------------------------------------------------------
\* The encoding of a query

\* The pieces that are not empty.
Full(pieces) == Keep(pieces, LAMBDA p : p # <<>>)

\* What is kept is not empty, and comes from the pieces.
LEMMA FullFacts ==
  ASSUME NEW S
  PROVE  \A q \in Seq(S) : Full(q) \in Seq({x \in S : x # <<>>})
PROOF
  <1> DEFINE N == {x \in S : x # <<>>}
             T == {q \in Seq(S) : Full(q) \in Seq(N)}
  <1>1. <<>> \in T
    <2>1. Full(<<>>) = <<>>
      BY FullSteps DEF Full
    <2> HIDE DEF N
    <2>2. <<>> \in Seq(S) /\ <<>> \in Seq(N)
      OBVIOUS
    <2> QED
      BY <2>1, <2>2
  <1>2. ASSUME NEW q \in Seq(S), q \in T, NEW x \in S PROVE Append(q, x) \in T
    <2>1. Full(Append(q, x)) = IF x # <<>> THEN Append(Full(q), x) ELSE Full(q)
      BY FullSteps DEF Full
    <2>2. Append(q, x) \in Seq(S) /\ Full(q) \in Seq(N)
      BY <1>2
    <2>3. x # <<>> => x \in N
      OBVIOUS
    <2> HIDE DEF N
    <2>4. x # <<>> => Append(Full(q), x) \in Seq(N)
      BY <2>2, <2>3
    <2> QED
      BY <2>1, <2>2, <2>4
  <1> HIDE DEF T
  <1>3. \A q \in Seq(S) : q \in T
    BY <1>1, <1>2, Induction
  <1> QED
    BY <1>3 DEF T

\* Where no piece is empty all are kept.
LEMMA FullKeeps ==
  ASSUME NEW S, <<>> \notin S
  PROVE  \A q \in Seq(S) : Full(q) = q
PROOF
  <1> DEFINE T == {q \in Seq(S) : Full(q) = q}
  <1>1. <<>> \in T
    BY FullSteps DEF Full
  <1>2. ASSUME NEW q \in Seq(S), q \in T, NEW x \in S PROVE Append(q, x) \in T
    <2>1. Full(Append(q, x)) = IF x # <<>> THEN Append(Full(q), x) ELSE Full(q)
      BY FullSteps DEF Full
    <2> QED
      BY <1>2, <2>1
  <1> HIDE DEF T
  <1>3. \A q \in Seq(S) : q \in T
    BY <1>1, <1>2, Induction
  <1> QED
    BY <1>3 DEF T

\* What encode makes of a pair: nothing is left to encode but one separator.
LEMMA EncodeShape ==
  ASSUME NEW pair \in Text
  PROVE  \E k \in Text, v \in Text :
           /\ Without(k, DOMAIN Hex) /\ Without(v, DOMAIN Hex)
           /\ Without(pair, {"&"}) => Without(k, {"&"}) /\ Without(v, {"&"})
           /\ EncodePair(pair) = k \/ EncodePair(pair) = k \o <<"=">> \o v
PROOF
  <1> DEFINE eq == {i \in DOMAIN pair : pair[i] = "="}
             Coded(t) == Quote(Strip(t))
  <1>1. ASSUME NEW t \in Text
        PROVE  /\ Coded(t) \in Text /\ Without(Coded(t), DOMAIN Hex)
               /\ Without(t, {"&"}) => Without(Coded(t), {"&"})
    <2>1. Strip(t) \in Text /\ (Without(t, {"&"}) => Without(Strip(t), {"&"}))
      BY StripFacts
    <2> QED
      BY <2>1, QuoteFacts
  <1>2. EncodePair(pair) = IF eq = {} THEN Coded(pair)
                           ELSE Coded(SubSeq(pair, 1, Min(eq) - 1)) \o <<"=">>
                                  \o Coded(SubSeq(pair, Min(eq) + 1, Len(pair)))
    BY DEF EncodePair
  <1> HIDE DEF Coded
  <1>3. CASE eq = {}
    BY <1>1, <1>2, <1>3
  <1>4. CASE eq # {}
    <2>1. Len(pair) \in Nat /\ eq \subseteq 1..Len(pair)
      BY SequenceFacts DEF Text
    <2> DEFINE m == Min(eq)
               k == SubSeq(pair, 1, m - 1)
               v == SubSeq(pair, m + 1, Len(pair))
    <2> HIDE DEF eq
    <2>2. m \in 1..Len(pair)
      BY <1>4, <2>1, EndsOf
    <2> HIDE DEF m
    <2>3. k \in Text /\ (Without(pair, {"&"}) => Without(k, {"&"}))
      <3>1. 1 \in 1..Len(pair) /\ m - 1 \in 0..Len(pair) /\ 1 <= m - 1 + 1
        BY <2>1, <2>2
      <3> QED
        BY <3>1, PartFacts DEF Text
    <2>4. v \in Text /\ (Without(pair, {"&"}) => Without(v, {"&"}))
      <3>1. CASE m = Len(pair)
        <4>1. v = <<>>
          BY <2>1, <3>1 DEF Text
        <4>2. <<>> \in Text /\ Without(<<>>, {"&"})
          BY EmptyDomain DEF Text, Without
        <4> QED
          BY <4>1, <4>2
      <3>2. CASE m # Len(pair)
        <4>1. m + 1 \in 1..Len(pair) /\ Len(pair) \in 0..Len(pair) /\ m + 1 <= Len(pair) + 1
          BY <2>1, <2>2, <3>2
        <4> QED
          BY <4>1, PartFacts DEF Text
      <3> QED
        BY <3>1, <3>2
    <2>5. EncodePair(pair) = Coded(k) \o <<"=">> \o Coded(v)
      BY <1>2, <1>4 DEF m
    <2> HIDE DEF k, v
    <2> QED
      BY <1>1, <2>3, <2>4, <2>5
  <1> QED
    BY <1>3, <1>4

\* Two sequences after one another.
LEMMA ConcatFacts ==
  ASSUME NEW S, NEW q \in Seq(S), NEW r \in Seq(S)
  PROVE  /\ q \o r \in Seq(S)
         /\ Len(q \o r) = Len(q) + Len(r)
         /\ DOMAIN (q \o r) = 1..(Len(q) + Len(r))
         /\ \A i \in 1..Len(q) : (q \o r)[i] = q[i]
         /\ \A i \in 1..Len(r) : (q \o r)[Len(q) + i] = r[i]
PROOF
  OBVIOUS

\* Two texts after one another.
LEMMA TextConcat ==
  \A q, r \in Text : /\ q \o r \in Text
                     /\ Len(q \o r) = Len(q) + Len(r)
                     /\ DOMAIN (q \o r) = 1..(Len(q) + Len(r))
                     /\ \A i \in 1..Len(q) : (q \o r)[i] = q[i]
                     /\ \A i \in 1..Len(r) : (q \o r)[Len(q) + i] = r[i]
PROOF
  <1>1. ASSUME NEW q \in Text, NEW r \in Text
        PROVE  /\ q \o r \in Text
               /\ Len(q \o r) = Len(q) + Len(r)
               /\ DOMAIN (q \o r) = 1..(Len(q) + Len(r))
               /\ \A i \in 1..Len(q) : (q \o r)[i] = q[i]
               /\ \A i \in 1..Len(r) : (q \o r)[Len(q) + i] = r[i]
    BY ConcatFacts DEF Text
  <1> QED
    BY <1>1

\* Sequences of one length with the same elements are the same.
LEMMA SameSequence ==
  ASSUME NEW S, NEW q \in Seq(S), NEW r \in Seq(S), Len(q) = Len(r),
         \A i \in 1..Len(q) : q[i] = r[i]
  PROVE  q = r
PROOF
  OBVIOUS

\* What a pair and its separator are made of.
LEMMA PairWithout ==
  ASSUME NEW k \in Text, NEW v \in Text, NEW C
  PROVE  /\ k \o <<"=">> \o v \in Text
         /\ Without(k \o <<"=">> \o v, C) <=> Without(k, C) /\ "=" \notin C /\ Without(v, C)
PROOF
  <1>1. <<"=">> \in Text /\ (Without(<<"=">>, C) <=> "=" \notin C)
    BY CharFacts, ShortFacts, ShortWithout DEF Text
  <1>2. \A q \in Text, r \in Text :
          q \o r \in Text /\ (Without(q \o r, C) <=> Without(q, C) /\ Without(r, C))
    BY WithoutConcat, ConcatFacts DEF Text
  <1> DEFINE e == <<"=">>
  <1>3. e \in Text /\ (Without(e, C) <=> "=" \notin C)
    BY <1>1
  <1> HIDE DEF e
  <1>4. k \o e \in Text /\ (Without(k \o e, C) <=> Without(k, C) /\ Without(e, C))
    BY <1>2, <1>3
  <1>5. k \o e \o v \in Text /\ (Without(k \o e \o v, C) <=> Without(k \o e, C) /\ Without(v, C))
    BY <1>2, <1>4
  <1> QED
    BY <1>3, <1>4, <1>5 DEF e

\* An encoded pair has no blank and no mark, and no & but the pair's.
LEMMA EncodeFacts ==
  ASSUME NEW pair \in Text
  PROVE  /\ EncodePair(pair) \in Text
         /\ Without(EncodePair(pair), {Blank} \cup Marks)
         /\ Without(pair, {"&"}) => Without(EncodePair(pair), {"&"})
PROOF
  <1>1. PICK k \in Text, v \in Text :
           /\ Without(k, DOMAIN Hex) /\ Without(v, DOMAIN Hex)
           /\ Without(pair, {"&"}) => Without(k, {"&"}) /\ Without(v, {"&"})
           /\ EncodePair(pair) = k \/ EncodePair(pair) = k \o <<"=">> \o v
    BY EncodeShape
  <1>2. Without(k, {Blank} \cup Marks) /\ Without(v, {Blank} \cup Marks)
    BY <1>1, HexFacts DEF Without, Blank, Marks, Comma, Special
  <1>3. "=" \notin {Blank} \cup Marks /\ "=" \notin {"&"}
    BY DEF Blank, Marks, Comma, Special
  <1> QED
    BY <1>1, <1>2, <1>3, PairWithout

\* Where a pair has its separator.
LEMMA PairParts ==
  ASSUME NEW k \in Text, NEW v \in Text, Without(k, {"="}), Without(v, {"="})
  PROVE  LET t == k \o <<"=">> \o v
             eq == {i \in DOMAIN t : t[i] = "="}
         IN  /\ eq = {Len(k) + 1}
             /\ SubSeq(t, 1, Len(k)) = k
             /\ SubSeq(t, Len(k) + 2, Len(t)) = v
PROOF
  <1> DEFINE e == <<"=">>
             u == k \o e
             t == u \o v
             n == Len(k)
             m == Len(v)
             eq == {i \in DOMAIN t : t[i] = "="}
  <1>1. e \in Text /\ Len(e) = 1 /\ e[1] = "="
    BY CharFacts, ShortFacts DEF Text
  <1>2. n \in Nat /\ m \in Nat /\ DOMAIN k = 1..n /\ DOMAIN v = 1..m
    BY SequenceFacts DEF Text
  <1> HIDE DEF e
  <1>3. /\ u \in Text /\ Len(u) = n + Len(e)
        /\ (\A i \in 1..n : u[i] = k[i])
        /\ \A i \in 1..Len(e) : u[n + i] = e[i]
    BY <1>1, TextConcat
  <1> HIDE DEF u
  <1>4. /\ t \in Text /\ Len(t) = Len(u) + m /\ DOMAIN t = 1..(Len(u) + m)
        /\ (\A i \in 1..Len(u) : t[i] = u[i])
        /\ \A i \in 1..m : t[Len(u) + i] = v[i]
    BY <1>3, TextConcat
  <1> HIDE DEF t, n, m
  <1>5. Len(u) = n + 1 /\ Len(t) = n + 1 + m /\ DOMAIN t = 1..(n + 1 + m)
    BY <1>1, <1>3, <1>4
  <1>6. \A i \in 1..n : t[i] = k[i]
    BY <1>2, <1>3, <1>4, <1>5
  <1>7. t[n + 1] = "="
    BY <1>1, <1>2, <1>3, <1>4, <1>5
  <1>8. \A i \in 1..m : t[n + 1 + i] = v[i]
    BY <1>4, <1>5
  <1>9. eq = {n + 1}
    <2>1. n + 1 \in DOMAIN t
      BY <1>2, <1>5
    <2>2. ASSUME NEW i \in DOMAIN t, i # n + 1 PROVE t[i] # "="
      <3>1. CASE i \in 1..n
        BY <1>2, <1>6, <3>1 DEF Without
      <3>2. CASE i \notin 1..n
        <4>1. i - n - 1 \in 1..m /\ i = n + 1 + (i - n - 1)
          BY <1>2, <1>5, <2>2, <3>2
        <4> QED
          BY <1>2, <1>8, <4>1 DEF Without
      <3> QED
        BY <3>1, <3>2
    <2> QED
      BY <1>7, <2>1, <2>2
  <1>10. SubSeq(t, 1, n) = k
    <2> DEFINE p == SubSeq(t, 1, n)
    <2>1. p \in Text /\ Len(p) = n /\ \A i \in 1..n : p[i] = t[i]
      BY <1>2, <1>4, <1>5 DEF Text
    <2> HIDE DEF p
    <2>2. \A i \in 1..Len(p) : p[i] = k[i]
      BY <1>6, <2>1
    <2>3. p = k
      BY <2>1, <2>2, SameSequence DEF Text, n
    <2> QED
      BY <2>3 DEF p
  <1>11. SubSeq(t, n + 2, Len(t)) = v
    <2> DEFINE p == SubSeq(t, n + 2, Len(t))
    <2>1. p \in Text /\ Len(p) = m /\ \A i \in 1..m : p[i] = t[n + 1 + i]
      <3>1. p \in Text
        BY <1>2, <1>4, <1>5 DEF Text
      <3>2. Len(p) = m
        BY <1>2, <1>4, <1>5 DEF Text
      <3>3. \A i \in 1..m : p[i] = t[n + 2 + i - 1] /\ n + 2 + i - 1 = n + 1 + i
        BY <1>2, <1>4, <1>5 DEF Text
      <3> HIDE DEF p
      <3> QED
        BY <3>1, <3>2, <3>3
    <2> HIDE DEF p
    <2>2. \A i \in 1..Len(p) : p[i] = v[i]
      BY <1>8, <2>1
    <2>3. p = v
      BY <2>1, <2>2, SameSequence DEF Text, m
    <2> QED
      BY <2>3 DEF p
  <1> QED
    BY <1>9, <1>10, <1>11 DEF t, u, e, n

\* Encoding an encoded pair leaves it alone.
LEMMA EncodeAgain ==
  ASSUME NEW pair \in Text
  PROVE  EncodePair(EncodePair(pair)) = EncodePair(pair)
PROOF
  <1>1. PICK k \in Text, v \in Text :
           /\ Without(k, DOMAIN Hex) /\ Without(v, DOMAIN Hex)
           /\ EncodePair(pair) = k \/ EncodePair(pair) = k \o <<"=">> \o v
    BY EncodeShape
  <1>2. ASSUME NEW t \in Text, Without(t, DOMAIN Hex) PROVE Quote(Strip(t)) = t /\ Without(t, {"="})
    <2>1. Without(t, {" "}) /\ Without(t, {"="})
      BY <1>2, HexFacts DEF Without
    <2> QED
      BY <1>2, <2>1, StripKeepsAll, QuoteKeeps
  <1>3. CASE EncodePair(pair) = k
    <2>1. {i \in DOMAIN k : k[i] = "="} = {}
      BY <1>1, <1>2 DEF Without
    <2>2. EncodePair(k) = Quote(Strip(k))
      BY <2>1 DEF EncodePair
    <2> QED
      BY <1>1, <1>2, <1>3, <2>2
  <1>4. CASE EncodePair(pair) = k \o <<"=">> \o v
    <2> DEFINE t == k \o <<"=">> \o v
               eq == {i \in DOMAIN t : t[i] = "="}
               n == Len(k)
    <2>1. eq = {n + 1} /\ SubSeq(t, 1, n) = k /\ SubSeq(t, n + 2, Len(t)) = v /\ n \in Nat
      BY <1>1, <1>2, PairParts, SequenceFacts DEF Text
    <2>2. EncodePair(t) = IF eq = {} THEN Quote(Strip(t))
                          ELSE Quote(Strip(SubSeq(t, 1, Min(eq) - 1))) \o <<"=">>
                                 \o Quote(Strip(SubSeq(t, Min(eq) + 1, Len(t))))
      BY DEF EncodePair
    <2> HIDE DEF eq, t, n
    <2>3. Min(eq) = n + 1
      BY <2>1 DEF Min
    <2>4. Min(eq) - 1 = n /\ Min(eq) + 1 = n + 2 /\ eq # {}
      BY <2>1, <2>3
    <2>5. EncodePair(t) = Quote(Strip(k)) \o <<"=">> \o Quote(Strip(v))
      BY <2>1, <2>2, <2>4
    <2>6. EncodePair(t) = t
      BY <1>1, <1>2, <2>5 DEF t
    <2> QED
      BY <1>4, <2>6 DEF t
  <1> QED
    BY <1>1, <1>3, <1>4

\* Texts without a separator.
Apart(sep) == {x \in Text : Without(x, {sep})}

\* A sequence's elements may be of a larger set, or of another they are known to be of.
LEMMA Elements ==
  ASSUME NEW S, NEW R, NEW q \in Seq(S), \A i \in DOMAIN q : q[i] \in R
  PROVE  q \in Seq(R)
PROOF
  <1>1. DOMAIN q = 1..Len(q) /\ Len(q) \in Nat
    BY SequenceFacts
  <1>2. q \in [1..Len(q) -> R]
    BY <1>1
  <1> QED
    BY <1>1, <1>2

\* Pieces without the separator, joined and split, are all there.
LEMMA SplitJoined ==
  ASSUME NEW sep \in Chars, NEW P \in Seq(Apart(sep))
  PROVE  /\ Join(P, sep) \in Text
         /\ P # <<>> => Split(Join(P, sep), sep) = P
         /\ P = <<>> => Split(Join(P, sep), sep) = <<<<>>>>
PROOF
  <1>1. \A i \in DOMAIN P : P[i] \in Text /\ Without(P[i], {sep})
    <2>1. \A i \in DOMAIN P : P[i] \in Apart(sep)
      BY SequenceFacts
    <2> QED
      BY <2>1 DEF Apart
  <1>2. P \in Seq(Text)
    BY <1>1, Elements
  <1>3. P = <<>> => Split(Join(P, sep), sep) = <<<<>>>>
    BY JoinSteps, SplitSteps
  <1> QED
    BY <1>1, <1>2, <1>3, SplitJoins

\* Pairs joined by & come back, but for the empty ones.
LEMMA PairsOfJoin ==
  ASSUME NEW P \in Seq(Apart("&"))
  PROVE  Join(P, "&") \in Text /\ Pairs(Join(P, "&")) = Full(P)
PROOF
  <1>1. "&" \in Chars
    BY CharFacts
  <1>2. \A t : Pairs(t) = Full(Split(t, "&"))
    BY DEF Pairs, Full
  <1>3. CASE P # <<>>
    BY <1>1, <1>2, <1>3, SplitJoined
  <1>4. CASE P = <<>>
    <2>1. Full(<<>>) = <<>> /\ Full(<<<<>>>>) = <<>>
      <3>1. <<>> \in Seq({<<>>}) /\ Append(<<>>, <<>>) = <<<<>>>>
        OBVIOUS
      <3>2. Full(<<>>) = <<>>
        BY FullSteps DEF Full
      <3>3. Full(Append(<<>>, <<>>)) = Full(<<>>)
        BY <3>1, FullSteps DEF Full
      <3> QED
        BY <3>1, <3>2, <3>3
    <2> QED
      BY <1>1, <1>2, <1>4, <2>1, SplitJoined
  <1> QED
    BY <1>3, <1>4

\* The pairs of a query.
LEMMA PairsFacts ==
  ASSUME NEW params \in Text
  PROVE  Pairs(params) \in Seq({x \in Apart("&") : x # <<>>})
PROOF
  <1>1. Split(params, "&") \in Seq(Apart("&"))
    <2> DEFINE P == Split(params, "&")
    <2>1. P \in Seq(Text) /\ \A i \in DOMAIN P : Without(P[i], {"&"})
      BY SplitFacts
    <2> HIDE DEF P
    <2>2. \A i \in DOMAIN P : P[i] \in Apart("&")
      BY <2>1, SequenceFacts DEF Apart
    <2>3. P \in Seq(Apart("&"))
      BY <2>1, <2>2, Elements
    <2> QED
      BY <2>3 DEF P
  <1>2. Pairs(params) = Full(Split(params, "&"))
    BY DEF Pairs, Full
  <1> QED
    BY <1>1, <1>2, FullFacts

\* Pairs each of which encode leaves alone.
Coded == {x \in Apart("&") : EncodePair(x) = x}

\* The encoded pairs of a query.
LEMMA CodedPairs ==
  ASSUME NEW params \in Text
  PROVE  LET M == [i \in DOMAIN Pairs(params) |-> EncodePair(Pairs(params)[i])]
         IN  /\ M \in Seq(Coded)
             /\ \A i \in DOMAIN M : Without(M[i], {Blank} \cup Marks)
             /\ EncodeParams(params) = Join(M, "&")
PROOF
  <1> DEFINE Q == Pairs(params)
             M == [i \in DOMAIN Q |-> EncodePair(Q[i])]
  <1>1. Q \in Seq({x \in Apart("&") : x # <<>>})
    BY PairsFacts
  <1>2. \A i \in DOMAIN Q : Q[i] \in Apart("&")
    BY <1>1, SequenceFacts
  <1>3. EncodeParams(params) = Join(M, "&")
    BY DEF EncodeParams
  <1> HIDE DEF Q
  <1>4. \A x \in Apart("&") : EncodePair(x) \in Coded /\ Without(EncodePair(x), {Blank} \cup Marks)
    BY EncodeFacts, EncodeAgain DEF Apart, Coded
  <1>5. DOMAIN Q = 1..Len(Q) /\ Len(Q) \in Nat
    BY <1>1
  <1>6. M \in [1..Len(Q) -> Coded]
    BY <1>2, <1>4, <1>5
  <1>7. \A i \in DOMAIN M : Without(M[i], {Blank} \cup Marks)
    BY <1>2, <1>4
  <1> HIDE DEF M
  <1>8. M \in Seq(Coded)
    BY <1>5, <1>6
  <1> QED
    BY <1>3, <1>7, <1>8 DEF M, Q

\* An encoded cell keeps its pairs when it is encoded again.
LEMMA EncodedAgain ==
  ASSUME NEW params \in Text
  PROVE  /\ EncodeParams(params) \in Text
         /\ Pairs(EncodeParams(EncodeParams(params))) = Pairs(EncodeParams(params))
PROOF
  <1> DEFINE M == [i \in DOMAIN Pairs(params) |-> EncodePair(Pairs(params)[i])]
  <1>1. M \in Seq(Coded) /\ EncodeParams(params) = Join(M, "&")
    BY CodedPairs
  <1> HIDE DEF M
  <1>2. Coded \subseteq Apart("&")
    BY DEF Coded
  <1>3. \A q \in Seq(Coded) : q \in Seq(Apart("&"))
    <2>1. ASSUME NEW q \in Seq(Coded) PROVE q \in Seq(Apart("&"))
      <3>1. \A i \in DOMAIN q : q[i] \in Apart("&")
        BY <1>2, SequenceFacts
      <3> QED
        BY <3>1, Elements
    <2> QED
      BY <2>1
  <1> DEFINE E == Join(M, "&")
             K == Full(M)
  <1>4. E \in Text /\ Pairs(E) = K
    BY <1>1, <1>3, PairsOfJoin
  <1>5. K \in Seq({x \in Coded : x # <<>>})
    BY <1>1, FullFacts
  <1> HIDE DEF E, K
  <1>6. \A i \in DOMAIN K : K[i] \in Coded
    BY <1>5, SequenceFacts
  <1>7. K \in Seq(Coded)
    BY <1>5, <1>6, Elements
  <1>8. Full(K) = K
    <2> DEFINE N == {x \in Coded : x # <<>>}
    <2>1. <<>> \notin N
      OBVIOUS
    <2> HIDE DEF N
    <2>2. K \in Seq(N)
      BY <1>5 DEF N
    <2> QED
      BY <2>1, <2>2, FullKeeps
  <1>9. EncodeParams(E) = Join(K, "&")
    <2> DEFINE L == [i \in DOMAIN K |-> EncodePair(K[i])]
    <2>1. EncodeParams(E) = Join(L, "&")
      BY <1>4 DEF EncodeParams
    <2>2. DOMAIN K = 1..Len(K) /\ Len(K) \in Nat
      BY <1>7
    <2>3. \A i \in DOMAIN K : EncodePair(K[i]) = K[i]
      BY <1>6 DEF Coded
    <2>4. L = [i \in DOMAIN K |-> K[i]]
      BY <2>3
    <2>5. [i \in DOMAIN K |-> K[i]] = K
      BY <1>7
    <2> QED
      BY <2>1, <2>4, <2>5
  <1>10. Pairs(Join(K, "&")) = K
    BY <1>3, <1>7, <1>8, PairsOfJoin
  <1> QED
    BY <1>1, <1>4, <1>9, <1>10 DEF E

\* What is in a joined text is in a piece of it, or the separator.
LEMMA JoinWithout ==
  ASSUME NEW sep \in Chars, NEW C, sep \notin C
  PROVE  \A P \in Seq({x \in Text : Without(x, C)}) :
           Join(P, sep) \in Text /\ Without(Join(P, sep), C)
PROOF
  <1> DEFINE N == {x \in Text : Without(x, C)}
             T == {P \in Seq(N) : Join(P, sep) \in N}
  <1>1. <<>> \in T
    <2>1. Join(<<>>, sep) = <<>>
      BY JoinSteps
    <2>2. <<>> \in Text /\ Without(<<>>, C)
      BY EmptyDomain DEF Text, Without
    <2>3. <<>> \in N
      BY <2>2
    <2> HIDE DEF N
    <2> QED
      BY <2>1, <2>3
  <1>2. ASSUME NEW P \in Seq(N), P \in T, NEW p \in N PROVE Append(P, p) \in T
    <2>1. Join(Append(P, p), sep) = IF P = <<>> THEN p ELSE Join(P, sep) \o <<sep>> \o p
      <3>1. \A S : \A pieces \in Seq(S) : \A q \in S :
              Join(Append(pieces, q), sep) =
                IF pieces = <<>> THEN q ELSE Join(pieces, sep) \o <<sep>> \o q
        BY JoinSteps, Zenon
      <3> HIDE DEF N, T
      <3> QED
        BY <3>1, Zenon
    <2>2. Append(P, p) \in Seq(N)
      <3> HIDE DEF N
      <3> QED
        BY AppendFacts
    <2>3. \A q, r \in Text : (q \o r) \in Text
                             /\ (Without(q, C) /\ Without(r, C) => Without(q \o r, C))
      BY TextConcat, WithoutConcat DEF Text
    <2>4. \A q, r \in N : q \o r \in N
      BY <2>3
    <2>5. <<sep>> \in N
      BY ShortFacts, ShortWithout DEF Text
    <2>6. Join(P, sep) \in N
      BY <1>2
    <2> HIDE DEF N
    <2>7. Join(P, sep) \o <<sep>> \in N
      BY <2>4, <2>5, <2>6
    <2>8. Join(P, sep) \o <<sep>> \o p \in N
      BY <1>2, <2>4, <2>7
    <2> QED
      BY <1>2, <2>1, <2>2, <2>8
  <1>3. \A P \in Seq(N) : P \in T
    <2> HIDE DEF N, T
    <2> QED
      BY <1>1, <1>2, Induction
  <1> QED
    BY <1>3

\* An encoded query has no blank and no mark.
LEMMA ParamsFacts ==
  ASSUME NEW params \in Text
  PROVE  EncodeParams(params) \in Text /\ Without(EncodeParams(params), {Blank} \cup Marks)
PROOF
  <1> DEFINE M == [i \in DOMAIN Pairs(params) |-> EncodePair(Pairs(params)[i])]
             N == {x \in Text : Without(x, {Blank} \cup Marks)}
  <1>1. /\ M \in Seq(Coded) /\ EncodeParams(params) = Join(M, "&")
        /\ \A i \in DOMAIN M : Without(M[i], {Blank} \cup Marks)
    BY CodedPairs
  <1> HIDE DEF M
  <1>2. \A i \in DOMAIN M : M[i] \in Coded
    BY <1>1, SequenceFacts
  <1>3. \A i \in DOMAIN M : M[i] \in N
    BY <1>1, <1>2 DEF Coded, Apart
  <1>4. M \in Seq(N)
    <2> HIDE DEF N
    <2> QED
      BY <1>1, <1>3, Elements
  <1>5. "&" \in Chars /\ "&" \notin {Blank} \cup Marks
    BY CharFacts DEF Blank, Marks, Comma, Special
  <1> QED
    BY <1>1, <1>4, <1>5, JoinWithout

-----------------------------------------------------------------------------
\* The requests and how they are fetched

\* Not the empty sequence.
Filled(q) == q # <<>>

\* A sequence that has a position.
LEMMA FilledFacts ==
  ASSUME NEW S, NEW q \in Seq(S)
  PROVE  /\ Filled(q) => Len(q) >= 1 /\ 1 \in DOMAIN q /\ Len(q) \in DOMAIN q
         /\ Len(q) >= 1 => Filled(q)
PROOF
  <1>1. Filled(q) => Len(q) >= 1 /\ 1 \in DOMAIN q /\ Len(q) \in DOMAIN q
    BY NonEmpty DEF Filled
  <1>2. Len(<<>>) = 0
    OBVIOUS
  <1>3. Len(q) >= 1 => Filled(q)
    BY <1>2 DEF Filled
  <1> QED
    BY <1>1, <1>3

\* Requests with a path that strip leaves alone.
Asked ==
  {r \in [path : Text, method : Chars, body : Chars] : Filled(r.path) /\ Strip(r.path) = r.path}

\* strip in those words.
LEMMA StripEnds ==
  \A text \in Text : Filled(text) =>
    (Strip(text) = text <=> text[1] # Blank /\ text[Len(text)] # Blank)
PROOF
  BY StripKeeps, Zenon DEF Filled, Blank

\* A path with a query is stripped of nothing.
LEMMA QueryFacts ==
  ASSUME NEW path \in Text, NEW query \in Text, Filled(path), Strip(path) = path,
         Without(query, {Blank} \cup Marks)
  PROVE  LET full == path \o <<"?">> \o query
         IN  /\ full \in Text /\ Filled(full) /\ Strip(full) = full
             /\ Without(path, Marks) => Without(full, Marks)
PROOF
  <1> DEFINE e == <<"?">>
             u == path \o e
             full == u \o query
             n == Len(path)
             m == Len(query)
             l == Len(u)
             f == Len(full)
  <1>1. e \in Text /\ Len(e) = 1 /\ e[1] = "?" /\ Without(e, {Blank} \cup Marks)
    <2>1. e \in Text /\ Len(e) = 1 /\ e[1] = "?"
      BY CharFacts, ShortFacts, Zenon DEF Text
    <2>2. "?" \notin {Blank} \cup Marks
      BY DEF Blank, Marks, Comma, Special
    <2> QED
      BY <2>1, <2>2, ShortWithout
  <1>2. n \in Nat /\ n >= 1 /\ m \in Nat /\ DOMAIN query = 1..m
    BY FilledFacts, SequenceFacts DEF Text
  <1> HIDE DEF e
  <1>3. /\ u \in Text /\ l = n + Len(e)
        /\ (\A i \in 1..n : u[i] = path[i])
        /\ \A i \in 1..Len(e) : u[n + i] = e[i]
    BY <1>1, TextConcat
  <1>4. \A C : Without(path, C) /\ Without(e, C) => Without(u, C)
    BY <1>1, WithoutConcat DEF Text
  <1> HIDE DEF u
  <1>5. /\ full \in Text /\ f = l + m
        /\ (\A i \in 1..l : full[i] = u[i])
        /\ \A i \in 1..m : full[l + i] = query[i]
    BY <1>3, TextConcat
  <1>6. \A C : Without(u, C) /\ Without(query, C) => Without(full, C)
    BY <1>3, WithoutConcat DEF Text
  <1> HIDE DEF full, n, m, l, f
  <1>7. l = n + 1 /\ u[n + 1] = "?"
    BY <1>1, <1>3
  <1>8. Filled(full)
    <2>1. f >= 1
      BY <1>2, <1>5, <1>7
    <2> QED
      BY <1>5, <2>1, FilledFacts DEF Text, f
  <1>9. full[1] # Blank
    <2>1. path[1] # Blank
      BY StripEnds
    <2>2. 1 \in 1..l /\ 1 \in 1..n
      BY <1>2, <1>7
    <2> QED
      BY <1>3, <1>5, <2>1, <2>2
  <1>10. full[f] # Blank
    <2>1. CASE m = 0
      <3>1. f = n + 1 /\ n + 1 \in 1..l
        BY <1>2, <1>5, <1>7, <2>1
      <3>2. full[f] = "?"
        BY <1>5, <1>7, <3>1
      <3> QED
        BY <3>2, Zenon DEF Blank
    <2>2. CASE m # 0
      <3>1. m \in 1..m
        BY <1>2, <2>2
      <3>2. full[f] = query[m] /\ m \in DOMAIN query
        BY <1>2, <1>5, <3>1
      <3>3. query[m] \notin {Blank} \cup Marks
        BY <3>2, Zenon DEF Without
      <3> QED
        BY <3>2, <3>3
    <2> QED
      BY <2>1, <2>2
  <1>11. Strip(full) = full
    BY <1>5, <1>8, <1>9, <1>10, StripEnds DEF f
  <1>12. Without(path, Marks) => Without(full, Marks)
    <2>1. Without(e, Marks) /\ Without(query, Marks)
      BY <1>1 DEF Without
    <2> QED
      BY <1>4, <1>6, <2>1
  <1> QED
    BY <1>5, <1>8, <1>11, <1>12 DEF full, u, e

\* A function on the first positions is a sequence.
LEMMA FunctionIsSequence ==
  \A n \in Nat : \A S : \A f \in [1..n -> S] : f \in Seq(S) /\ Len(f) = n
PROOF
  OBVIOUS

\* A sequence is what it has at its positions.
LEMMA EveryElement ==
  ASSUME NEW S, NEW q \in Seq(S)
  PROVE  [i \in DOMAIN q |-> q[i]] = q
PROOF
  OBVIOUS

\* The cells of a row that make its request.
LEMMA RequestFacts ==
  ASSUME NEW row, row.path \in Text, row.params \in Text, row.method \in Chars, row.body \in Chars,
         Filled(row.path), Strip(row.path) = row.path
  PROVE  /\ Request(row) \in Asked
         /\ Without(row.path, Marks) => Without(Request(row).path, Marks)
PROOF
  <1> DEFINE full == row.path \o <<"?">> \o EncodeParams(row.params)
             path == IF row.params = <<>> THEN row.path ELSE full
             method == IF row.method = "" THEN "GET" ELSE row.method
  <1>1. EncodeParams(row.params) \in Text /\ Without(EncodeParams(row.params), {Blank} \cup Marks)
    BY ParamsFacts, Zenon
  <1>2. /\ full \in Text /\ Filled(full) /\ Strip(full) = full
        /\ Without(row.path, Marks) => Without(full, Marks)
    BY <1>1, QueryFacts
  <1>3. method \in Chars
    BY CharFacts
  <1>4. Request(row) = [path |-> path, method |-> method, body |-> row.body]
    BY DEF Request
  <1> HIDE DEF full, method
  <1>5. path \in Text /\ Filled(path) /\ Strip(path) = path
        /\ (Without(row.path, Marks) => Without(path, Marks))
    BY <1>2
  <1> HIDE DEF path
  <1> DEFINE request == [path |-> path, method |-> method, body |-> row.body]
  <1>6. request \in [path : Text, method : Chars, body : Chars] /\ request.path = path
    BY <1>3, <1>5
  <1> HIDE DEF request
  <1>7. request \in Asked
    BY <1>5, <1>6 DEF Asked
  <1> QED
    BY <1>4, <1>5, <1>6, <1>7 DEF request

\* The notebook makes of a domain's block the requests it was made from.
LEMMA FetchedFacts ==
  ASSUME NEW eps \in Seq(Asked), Filled(eps),
         ~AllGetNoBody(eps) \/ \A i \in DOMAIN eps : Without(eps[i].path, Marks)
  PROVE  Fetched(EndpointsBlock(eps)) = eps
PROOF
  <1>1. DOMAIN eps = 1..Len(eps) /\ Len(eps) \in Nat /\ \A i \in DOMAIN eps : eps[i] \in Asked
    BY SequenceFacts
  <1>2. CASE ~AllGetNoBody(eps)
    BY <1>2 DEF EndpointsBlock, Fetched, Filled
  <1>3. CASE AllGetNoBody(eps)
    <2> DEFINE P == [i \in DOMAIN eps |-> eps[i].path]
               full == Full([i \in DOMAIN Split(Join(P, Comma), Comma) |->
                               Strip(Split(Join(P, Comma), Comma)[i])])
    <2>1. Loaded(Join(P, Comma)) = Join(P, Comma) =>
            Fetched(EndpointsBlock(eps)) =
              [i \in DOMAIN full |-> [path |-> full[i], method |-> "GET", body |-> ""]]
      BY <1>3 DEF EndpointsBlock, Fetched, Full, Comma
    <2>2. \A i \in DOMAIN eps : /\ P[i] \in Apart(Comma) /\ Without(P[i], Special)
                                /\ Filled(P[i]) /\ Strip(P[i]) = P[i]
      BY <1>1, <1>3 DEF Asked, Apart, Without, Marks
    <2>3. DOMAIN P = 1..Len(eps)
      BY <1>1
    <2> HIDE DEF P
    <2> DEFINE N == {x \in Apart(Comma) : Filled(x)}
               L == {x \in Text : Without(x, Special)}
    <2>4. P \in [1..Len(eps) -> N]
      <3>1. P = [i \in 1..Len(eps) |-> P[i]]
        BY <1>1 DEF P
      <3> QED
        BY <1>1, <2>2, <3>1
    <2>5. P \in [1..Len(eps) -> Apart(Comma)]
      BY <2>4
    <2>6. <<>> \notin N
      BY DEF Filled
    <2>7. P \in [1..Len(eps) -> L]
      <3>1. \A i \in 1..Len(eps) : P[i] \in L
        BY <1>1, <2>2 DEF Apart
      <3> QED
        BY <2>4, <3>1
    <2> HIDE DEF N
    <2>8. P \in Seq(N) /\ P \in Seq(Apart(Comma)) /\ Len(P) = Len(eps)
      BY <1>1, <2>4, <2>5, FunctionIsSequence
    <2>9. Filled(P)
      BY <2>8, FilledFacts
    <2>10. Split(Join(P, Comma), Comma) = P
      <3>1. Comma \in Chars
        BY CharFacts DEF Comma
      <3> QED
        BY <2>8, <2>9, <3>1, SplitJoined, Zenon DEF Filled
    <2>11. Loaded(Join(P, Comma)) = Join(P, Comma)
      <3>1. Comma \in Chars /\ Comma \notin Special
        BY CharFacts DEF Comma, Special
      <3>2. P \in Seq(L)
        <4> HIDE DEF L
        <4> QED
          BY <1>1, <2>7, FunctionIsSequence
      <3>3. Without(Join(P, Comma), Special)
        BY <3>1, <3>2, JoinWithout
      <3>4. Range(Join(P, Comma)) \cap Special = {}
        BY <3>3 DEF Range, Without
      <3> QED
        BY <3>4 DEF Loaded
    <2>12. [i \in DOMAIN P |-> Strip(P[i])] = P
      <3>1. \A i \in DOMAIN P : Strip(P[i]) = P[i]
        BY <1>1, <2>2, <2>3
      <3>2. [i \in DOMAIN P |-> Strip(P[i])] = [i \in DOMAIN P |-> P[i]]
        BY <3>1
      <3>3. [i \in DOMAIN P |-> P[i]] = P
        BY <2>8, EveryElement
      <3> QED
        BY <3>2, <3>3
    <2>13. full = P
      BY <2>6, <2>8, <2>10, <2>12, FullKeeps
    <2> HIDE DEF full
    <2> DEFINE F == [i \in DOMAIN P |-> [path |-> P[i], method |-> "GET", body |-> ""]]
    <2>14. \A i \in DOMAIN eps : [path |-> P[i], method |-> "GET", body |-> ""] = eps[i]
      BY <1>1, <1>3 DEF P, Asked, AllGetNoBody
    <2>15. F = [i \in DOMAIN eps |-> eps[i]]
      BY <1>1, <2>3, <2>14
    <2>16. [i \in DOMAIN eps |-> eps[i]] = eps
      BY EveryElement
    <2> QED
      BY <2>1, <2>11, <2>13, <2>15, <2>16
  <1> QED
    BY <1>2, <1>3

-----------------------------------------------------------------------------
\* The domains, as they are built

\* What has been built for a domain.
Of(built, d) == IF d \in DOMAIN built.domains THEN built.domains[d] ELSE Fresh

\* What a row adds to its domain.
Grown(old, row) ==
  [endpoints |-> Append(old.endpoints, Request(row)),
   settings |-> [key \in Settings |->
     IF Settles(key, old.settings[key], row[key]) THEN row[key] ELSE old.settings[key]]]

\* A row adds to its own domain, and only when it is live.
LEMMA AddRowFacts ==
  ASSUME NEW built, NEW row
  PROVE  LET next == AddRow(built, row)
         IN  /\ ~Live(row) => next = built
             /\ Live(row) =>
                  /\ DOMAIN next.domains = DOMAIN built.domains \cup {row.domain}
                  /\ Of(next, row.domain) = Grown(Of(built, row.domain), row)
                  /\ \A d : d # row.domain => Of(next, d) = Of(built, d)
                  /\ next.warned = built.warned \cup
                       {<<row.domain, key>> : key \in
                          {key \in Settings :
                             Conflicts(key, Of(built, row.domain).settings[key], row[key])}}
PROOF
  <1> DEFINE old == Of(built, row.domain)
             new == Grown(old, row)
             warned == built.warned \cup
                         {<<row.domain, key>> : key \in
                            {key \in Settings : Conflicts(key, old.settings[key], row[key])}}
             next == AddRow(built, row)
  <1>1. next = IF ~Live(row) THEN built
               ELSE [domains |-> Put(built.domains, row.domain, new), warned |-> warned]
    BY Zenon DEF AddRow, Of, Grown
  <1>2. CASE Live(row)
    <2> HIDE DEF new, warned, next
    <2>1. next.domains = Put(built.domains, row.domain, new) /\ next.warned = warned
      BY <1>1, <1>2
    <2>2. /\ DOMAIN next.domains = DOMAIN built.domains \cup {row.domain}
          /\ \A k \in DOMAIN next.domains :
               next.domains[k] = IF k = row.domain THEN new ELSE built.domains[k]
      BY <2>1 DEF Put
    <2>3. Of(next, row.domain) = new
      BY <2>2 DEF Of
    <2>4. \A d : d # row.domain => Of(next, d) = Of(built, d)
      BY <2>2 DEF Of
    <2> QED
      BY <1>2, <2>1, <2>2, <2>3, <2>4 DEF new, warned, next
  <1>3. CASE ~Live(row)
    BY <1>1, <1>3
  <1> QED
    BY <1>2, <1>3

\* The requests of the rows of domain d.
Asks(rows, d) == [i \in DOMAIN RowsOf(rows, d) |-> Request(RowsOf(rows, d)[i])]

\* A sequence that was appended to is not empty.
LEMMA AppendFilled ==
  ASSUME NEW S, NEW q \in Seq(S), NEW c \in S
  PROVE  Append(q, c) \in Seq(S) /\ Append(q, c) # <<>>
PROOF
  <1>1. Append(q, c) \in Seq(S) /\ Len(Append(q, c)) = Len(q) + 1 /\ Len(q) \in Nat
    OBVIOUS
  <1>2. Len(<<>>) = 0
    OBVIOUS
  <1> QED
    BY <1>1, <1>2

\* The domains of a table with a row more.
LEMMA DomainsSteps ==
  /\ DomainsOf(<<>>) = {}
  /\ \A S : \A rows \in Seq(S) : \A row \in S :
       DomainsOf(Append(rows, row)) =
         DomainsOf(rows) \cup (IF Live(row) THEN {row.domain} ELSE {})
PROOF
  <1>1. DomainsOf(<<>>) = {}
    <2>1. Range(<<>>) = {}
      BY EmptyDomain DEF Range
    <2> QED
      BY <2>1 DEF DomainsOf
  <1>2. ASSUME NEW S, NEW rows \in Seq(S), NEW row \in S
        PROVE  DomainsOf(Append(rows, row)) =
                 DomainsOf(rows) \cup (IF Live(row) THEN {row.domain} ELSE {})
    <2>1. Range(Append(rows, row)) = Range(rows) \cup {row}
      <3> DEFINE more == Append(rows, row)
                 n == Len(rows)
      <3>1. /\ n \in Nat /\ DOMAIN rows = 1..n /\ DOMAIN more = 1..(n + 1)
            /\ (\A i \in 1..n : more[i] = rows[i]) /\ more[n + 1] = row
        BY AppendFacts, SequenceFacts
      <3> HIDE DEF more, n
      <3>2. \A i : i \in 1..(n + 1) <=> i \in 1..n \/ i = n + 1
        BY <3>1
      <3>3. Range(more) = Range(rows) \cup {row}
        BY <3>1, <3>2 DEF Range
      <3> QED
        BY <3>3 DEF more
    <2> QED
      BY <2>1 DEF DomainsOf
  <1> QED
    BY <1>1, <1>2

\* The rows of a domain are rows of the table that are live and of the domain.
LEMMA RowsOfFacts ==
  ASSUME NEW S, NEW d
  PROVE  \A rows \in Seq(S) :
           /\ RowsOf(rows, d) \in Seq({r \in S : Live(r) /\ r.domain = d})
           /\ RowsOf(rows, d) = <<>> <=> d \notin DomainsOf(rows)
PROOF
  <1> DEFINE N == {r \in S : Live(r) /\ r.domain = d}
             T == {rows \in Seq(S) : /\ RowsOf(rows, d) \in Seq(N)
                                     /\ RowsOf(rows, d) = <<>> <=> d \notin DomainsOf(rows)}
  <1>1. <<>> \in T
    <2>1. RowsOf(<<>>, d) = <<>> /\ DomainsOf(<<>>) = {}
      BY RowsOfSteps, DomainsSteps
    <2> HIDE DEF N
    <2>2. <<>> \in Seq(N) /\ <<>> \in Seq(S)
      OBVIOUS
    <2> QED
      BY <2>1, <2>2
  <1>2. ASSUME NEW rows \in Seq(S), rows \in T, NEW row \in S PROVE Append(rows, row) \in T
    <2> DEFINE more == Append(rows, row)
    <2>1. RowsOf(more, d) = IF Live(row) /\ row.domain = d THEN Append(RowsOf(rows, d), row)
                            ELSE RowsOf(rows, d)
      BY RowsOfSteps
    <2>2. DomainsOf(more) = DomainsOf(rows) \cup (IF Live(row) THEN {row.domain} ELSE {})
      BY DomainsSteps
    <2>3. more \in Seq(S)
      OBVIOUS
    <2>4. Live(row) /\ row.domain = d => row \in N
      OBVIOUS
    <2>5. RowsOf(rows, d) \in Seq(N) /\ (RowsOf(rows, d) = <<>> <=> d \notin DomainsOf(rows))
      BY <1>2
    <2> HIDE DEF N, more
    <2>6. CASE Live(row) /\ row.domain = d
      <3>1. Append(RowsOf(rows, d), row) \in Seq(N) /\ Append(RowsOf(rows, d), row) # <<>>
        BY <2>4, <2>5, <2>6, AppendFilled
      <3> QED
        BY <2>1, <2>2, <2>3, <2>6, <3>1 DEF more
    <2>7. CASE ~(Live(row) /\ row.domain = d)
      BY <2>1, <2>2, <2>3, <2>5, <2>7 DEF more
    <2> QED
      BY <2>6, <2>7
  <1> HIDE DEF T
  <1>3. \A rows \in Seq(S) : rows \in T
    BY <1>1, <1>2, Induction
  <1> QED
    BY <1>3 DEF T

\* The requests of rows, with a row more.
LEMMA RequestsAppend ==
  ASSUME NEW S, NEW q \in Seq(S), NEW row \in S
  PROVE  [i \in DOMAIN Append(q, row) |-> Request(Append(q, row)[i])] =
           Append([i \in DOMAIN q |-> Request(q[i])], Request(row))
PROOF
  <1> DEFINE R == {Request(r) : r \in S}
             n == Len(q)
             more == Append(q, row)
             a == [i \in DOMAIN more |-> Request(more[i])]
             p == [i \in DOMAIN q |-> Request(q[i])]
             b == Append(p, Request(row))
  <1>1. /\ n \in Nat /\ DOMAIN q = 1..n /\ DOMAIN more = 1..(n + 1)
        /\ (\A i \in 1..n : more[i] = q[i] /\ q[i] \in S) /\ more[n + 1] = row
    BY AppendFacts, SequenceFacts
  <1> HIDE DEF n, more
  <1>2. \A i : i \in 1..(n + 1) <=> i \in 1..n \/ i = n + 1
    BY <1>1
  <1>3. Request(row) \in R /\ \A i \in 1..n : Request(q[i]) \in R
    BY <1>1
  <1>4. /\ p \in [1..n -> R] /\ a \in [1..(n + 1) -> R]
        /\ (\A i \in 1..n : p[i] = Request(q[i]))
        /\ (\A i \in 1..n : a[i] = Request(q[i])) /\ a[n + 1] = Request(row)
    BY <1>1, <1>2, <1>3
  <1> HIDE DEF R, a, p
  <1>5. p \in Seq(R) /\ Len(p) = n /\ a \in Seq(R) /\ Len(a) = n + 1
    BY <1>1, <1>4, FunctionIsSequence
  <1>6. /\ b \in Seq(R) /\ Len(b) = n + 1
        /\ (\A i \in 1..n : b[i] = Request(q[i])) /\ b[n + 1] = Request(row)
    BY <1>3, <1>4, <1>5, AppendFacts
  <1> HIDE DEF b
  <1>7. \A i \in 1..Len(a) : a[i] = b[i]
    BY <1>2, <1>4, <1>5, <1>6
  <1>8. a = b
    BY <1>5, <1>6, <1>7, SameSequence
  <1> QED
    BY <1>8 DEF a, b, p, more

\* A table without rows asks for nothing.
LEMMA AsksEmpty == \A d : Asks(<<>>, d) = <<>>
PROOF
  <1>1. ASSUME NEW d PROVE Asks(<<>>, d) = <<>>
    <2>1. RowsOf(<<>>, d) = <<>>
      BY RowsOfSteps
    <2>2. [i \in DOMAIN <<>> |-> Request(<<>>[i])] = <<>>
      OBVIOUS
    <2> QED
      BY <2>1, <2>2 DEF Asks
  <1> QED
    BY <1>1

\* The requests of a domain, with a row more.
LEMMA AsksAppend ==
  ASSUME NEW S, NEW d, NEW rows \in Seq(S), NEW row \in S
  PROVE  Asks(Append(rows, row), d) =
           IF Live(row) /\ row.domain = d THEN Append(Asks(rows, d), Request(row))
           ELSE Asks(rows, d)
PROOF
  <1> DEFINE q == RowsOf(rows, d)
  <1>1. RowsOf(Append(rows, row), d) = IF Live(row) /\ row.domain = d THEN Append(q, row) ELSE q
    BY RowsOfSteps
  <1>2. CASE Live(row) /\ row.domain = d
    <2>1. q \in Seq({r \in S : Live(r) /\ r.domain = d})
      BY RowsOfFacts
    <2>2. q \in Seq(S)
      <3> DEFINE N == {r \in S : Live(r) /\ r.domain = d}
      <3>1. N \subseteq S
        OBVIOUS
      <3> HIDE DEF N, q
      <3>2. \A i \in DOMAIN q : q[i] \in S
        BY <2>1, <3>1, SequenceFacts DEF N
      <3> QED
        BY <2>1, <3>2, Elements DEF N
    <2> HIDE DEF q
    <2>3. Asks(Append(rows, row), d) =
            [i \in DOMAIN Append(q, row) |-> Request(Append(q, row)[i])]
      BY <1>1, <1>2 DEF Asks
    <2>4. Asks(rows, d) = [i \in DOMAIN q |-> Request(q[i])]
      BY DEF Asks, q
    <2>5. [i \in DOMAIN Append(q, row) |-> Request(Append(q, row)[i])] =
            Append([i \in DOMAIN q |-> Request(q[i])], Request(row))
      BY <2>2, RequestsAppend
    <2> QED
      BY <1>2, <2>3, <2>4, <2>5
  <1>3. CASE ~(Live(row) /\ row.domain = d)
    BY <1>1, <1>3 DEF Asks
  <1> QED
    BY <1>2, <1>3

\* A row's value for a setting counts for domain d.
Counts(row, d, key) == Live(row) /\ row.domain = d /\ row[key] \notin {"", Default[key]}

\* The rows of a table with a value that counts.
LEMMA SettingIs ==
  /\ \A rows, d, key : Setting(rows, d, key) = {i \in DOMAIN rows : Counts(rows[i], d, key)}
  /\ \A d, key : Setting(<<>>, d, key) = {}
PROOF
  <1>1. \A rows, d, key : Setting(rows, d, key) = {i \in DOMAIN rows : Counts(rows[i], d, key)}
    BY DEF Setting, Counts
  <1> QED
    BY <1>1, EmptyDomain

\* The value a setting gets from the first row that counts.
First(rows, d, key) ==
  IF Setting(rows, d, key) = {} THEN Default[key] ELSE rows[Min(Setting(rows, d, key))][key]

\* Rows that count have different values.
Differ(rows, d, key) == \E i, j \in Setting(rows, d, key) : rows[i][key] # rows[j][key]

\* What a row more does to the first value and to whether values differ.
LEMMA FirstSteps ==
  ASSUME NEW S, NEW d, NEW key, NEW rows \in Seq(S), NEW row \in S
  PROVE  /\ First(Append(rows, row), d, key) =
              IF Counts(row, d, key) /\ First(rows, d, key) = Default[key] THEN row[key]
              ELSE First(rows, d, key)
         /\ Differ(Append(rows, row), d, key) <=>
              \/ Differ(rows, d, key)
              \/ Counts(row, d, key) /\ First(rows, d, key) \notin {Default[key], row[key]}
PROOF
  <1> DEFINE more == Append(rows, row)
             n == Len(rows)
             set == Setting(rows, d, key)
             grown == Setting(more, d, key)
             first == First(rows, d, key)
  <1>1. /\ set \subseteq 1..n
        /\ \A i \in set : more[i] = rows[i] /\ Counts(rows[i], d, key)
        /\ grown = set \cup (IF Counts(row, d, key) THEN {n + 1} ELSE {})
        /\ more[n + 1] = row
    <2>1. /\ n \in Nat /\ DOMAIN rows = 1..n /\ DOMAIN more = 1..(n + 1)
          /\ (\A i \in 1..n : more[i] = rows[i]) /\ more[n + 1] = row
      BY AppendFacts, SequenceFacts
    <2> HIDE DEF more, n
    <2>2. \A i : i \in 1..(n + 1) <=> i \in 1..n \/ i = n + 1
      BY <2>1
    <2>3. grown = set \cup (IF Counts(row, d, key) THEN {n + 1} ELSE {})
      BY <2>1, <2>2, SettingIs
    <2>4. set \subseteq 1..n /\ \A i \in set : more[i] = rows[i] /\ Counts(rows[i], d, key)
      BY <2>1, SettingIs
    <2> QED
      BY <2>1, <2>3, <2>4
  <1>2. n \in Nat
    BY SequenceFacts
  <1>3. first = IF set = {} THEN Default[key] ELSE rows[Min(set)][key]
    BY DEF First
  <1>4. First(more, d, key) = IF grown = {} THEN Default[key] ELSE more[Min(grown)][key]
    BY DEF First
  <1>5. /\ Differ(rows, d, key) <=> \E i, j \in set : rows[i][key] # rows[j][key]
        /\ Differ(more, d, key) <=> \E i, j \in grown : more[i][key] # more[j][key]
    BY DEF Differ
  <1> HIDE DEF more, n, set, grown, first
  <1>6. ASSUME set # {}
        PROVE  /\ Min(set) \in set /\ first = rows[Min(set)][key] /\ first # Default[key]
               /\ First(more, d, key) = first
    <2>1. Min(set) \in set /\ \A y \in set : Min(set) <= y
      BY <1>1, <1>2, <1>6, EndsOf
    <2>2. first = rows[Min(set)][key] /\ first # Default[key]
      BY <1>1, <1>3, <1>6, <2>1 DEF Counts
    <2>3. Min(grown) = Min(set)
      <3> DEFINE a == Min(set)
                 b == Min(grown)
      <3>1. grown # {} /\ grown \subseteq 1..(n + 1) /\ n + 1 \in Nat
        BY <1>1, <1>2, <1>6
      <3>2. b \in grown /\ \A y \in grown : b <= y
        BY <3>1, EndsOf
      <3>3. a \in grown /\ a \in set /\ a \in 1..n /\ \A y \in set : a <= y
        BY <1>1, <2>1
      <3> HIDE DEF a, b
      <3>4. b \in 1..(n + 1) /\ b <= a
        BY <3>1, <3>2, <3>3
      <3>5. b # n + 1
        BY <1>2, <3>3, <3>4
      <3>6. b \in set
        BY <1>1, <3>2, <3>5
      <3>7. a = b
        BY <1>2, <3>3, <3>4, <3>6
      <3> QED
        BY <3>7 DEF a, b
    <2>4. First(more, d, key) = first
      BY <1>1, <1>4, <1>6, <2>1, <2>2, <2>3
    <2> QED
      BY <2>1, <2>2, <2>4
  <1>7. CASE set = {}
    <2>1. first = Default[key]
      BY <1>3, <1>7
    <2>2. CASE Counts(row, d, key)
      <3>1. grown = {n + 1}
        BY <1>1, <1>7, <2>2
      <3>2. Min(grown) = n + 1
        BY <1>2, <3>1 DEF Min
      <3>3. First(more, d, key) = row[key]
        BY <1>1, <1>4, <3>1, <3>2
      <3>4. ~Differ(more, d, key) /\ ~Differ(rows, d, key)
        BY <1>5, <1>7, <3>1
      <3> QED
        BY <2>1, <2>2, <3>3, <3>4 DEF more, first
    <2>3. CASE ~Counts(row, d, key)
      <3>1. grown = {}
        BY <1>1, <1>7, <2>3
      <3>2. ~Differ(more, d, key) /\ ~Differ(rows, d, key) /\ First(more, d, key) = Default[key]
        BY <1>4, <1>5, <1>7, <3>1
      <3> QED
        BY <2>1, <2>3, <3>2 DEF more, first
    <2> QED
      BY <2>2, <2>3
  <1>8. CASE set # {}
    <2>1. /\ Min(set) \in set /\ first = rows[Min(set)][key] /\ first # Default[key]
          /\ First(more, d, key) = first
      BY <1>6, <1>8
    <2>2. CASE ~Counts(row, d, key)
      <3>1. grown = set
        BY <1>1, <2>2
      <3>2. Differ(more, d, key) <=> Differ(rows, d, key)
        BY <1>1, <1>5, <3>1
      <3> QED
        BY <2>1, <2>2, <3>2 DEF more, first
    <2>3. CASE Counts(row, d, key)
      <3>1. grown = set \cup {n + 1}
        BY <1>1, <2>3
      <3>2. ASSUME Differ(rows, d, key) PROVE Differ(more, d, key)
        BY <1>1, <1>5, <3>1, <3>2
      <3>3. ASSUME first # row[key] PROVE Differ(more, d, key)
        BY <1>1, <1>5, <2>1, <3>1, <3>3
      <3>4. ASSUME Differ(more, d, key), ~Differ(rows, d, key) PROVE first # row[key]
        <4>1. \A i, j \in set : rows[i][key] = rows[j][key]
          BY <1>5, <3>4
        <4>2. \A i \in set : more[i][key] = first
          BY <1>1, <2>1, <4>1
        <4>3. more[n + 1][key] = row[key]
          BY <1>1
        <4>4. PICK i \in grown, j \in grown : more[i][key] # more[j][key]
          BY <1>5, <3>4
        <4> QED
          BY <3>1, <4>2, <4>3, <4>4
      <3> QED
        BY <2>1, <2>3, <3>2, <3>3, <3>4 DEF more, first
    <2> QED
      BY <2>2, <2>3
  <1> QED
    BY <1>7, <1>8

\* What build_domains has made of the rows.
BuiltFrom(rows) ==
  LET built == BuildDomains(rows)
  IN  /\ DOMAIN built.domains = DomainsOf(rows)
      /\ \A d : Of(built, d).endpoints = Asks(rows, d)
      /\ \A d : \A key \in Settings : Of(built, d).settings[key] = First(rows, d, key)
      /\ \A d : \A key \in Settings : <<d, key>> \in built.warned <=> Differ(rows, d, key)

\* A domain has the requests, the settings and the warnings of its rows.
LEMMA BuildFacts ==
  ASSUME NEW S
  PROVE  \A rows \in Seq(S) : BuiltFrom(rows)
PROOF
  <1> DEFINE T == {rows \in Seq(S) : BuiltFrom(rows)}
  <1>1. <<>> \in T
    <2> DEFINE built == BuildDomains(<<>>)
    <2>1. built = [domains |-> <<>>, warned |-> {}]
      BY BuildSteps
    <2>2. built.domains = <<>> /\ built.warned = {}
      BY <2>1
    <2> HIDE DEF built
    <2>3. DOMAIN built.domains = DomainsOf(<<>>) /\ DOMAIN built.domains = {}
      BY <2>2, EmptyDomain, DomainsSteps
    <2>4. \A d : Of(built, d) = Fresh
      BY <2>3 DEF Of
    <2>5. Fresh.endpoints = <<>> /\ Fresh.settings = Default
      BY DEF Fresh
    <2>6. \A d : Asks(<<>>, d) = <<>>
      BY AsksEmpty
    <2>7. \A d, key : First(<<>>, d, key) = Default[key] /\ ~Differ(<<>>, d, key)
      BY SettingIs DEF First, Differ
    <2>8. BuiltFrom(<<>>)
      BY <2>2, <2>3, <2>4, <2>5, <2>6, <2>7 DEF BuiltFrom, built
    <2> QED
      BY <2>8
  <1>2. ASSUME NEW rows \in Seq(S), rows \in T, NEW row \in S PROVE Append(rows, row) \in T
    <2> DEFINE more == Append(rows, row)
               built == BuildDomains(rows)
               next == BuildDomains(more)
               e == row.domain
    <2>1. more \in Seq(S)
      BY AppendFacts
    <2>2. next = AddRow(built, row)
      BY BuildSteps
    <2>3. /\ DOMAIN built.domains = DomainsOf(rows)
          /\ \A d : Of(built, d).endpoints = Asks(rows, d)
          /\ \A d : \A key \in Settings : Of(built, d).settings[key] = First(rows, d, key)
          /\ \A d : \A key \in Settings : <<d, key>> \in built.warned <=> Differ(rows, d, key)
      BY <1>2 DEF BuiltFrom
    <2>4. DomainsOf(more) = DomainsOf(rows) \cup (IF Live(row) THEN {e} ELSE {})
      BY DomainsSteps
    <2>5. \A d : Asks(more, d) = IF Live(row) /\ e = d THEN Append(Asks(rows, d), Request(row))
                                 ELSE Asks(rows, d)
      <3>1. ASSUME NEW d
            PROVE  Asks(more, d) = IF Live(row) /\ e = d THEN Append(Asks(rows, d), Request(row))
                                   ELSE Asks(rows, d)
        BY AsksAppend
      <3> QED
        BY <3>1
    <2>6. \A d, key :
            /\ First(more, d, key) =
                 IF Counts(row, d, key) /\ First(rows, d, key) = Default[key] THEN row[key]
                 ELSE First(rows, d, key)
            /\ Differ(more, d, key) <=>
                 \/ Differ(rows, d, key)
                 \/ Counts(row, d, key) /\ First(rows, d, key) \notin {Default[key], row[key]}
      <3>1. ASSUME NEW d, NEW key
            PROVE  /\ First(more, d, key) =
                        IF Counts(row, d, key) /\ First(rows, d, key) = Default[key]
                        THEN row[key] ELSE First(rows, d, key)
                   /\ Differ(more, d, key) <=>
                        \/ Differ(rows, d, key)
                        \/ /\ Counts(row, d, key)
                           /\ First(rows, d, key) \notin {Default[key], row[key]}
        BY FirstSteps
      <3> QED
        BY <3>1
    <2> HIDE DEF more, built, next
    <2>7. CASE Live(row)
      <3> DEFINE old == Of(built, e)
                 conflicts == {key \in Settings : Conflicts(key, old.settings[key], row[key])}
      <3>1. /\ DOMAIN next.domains = DOMAIN built.domains \cup {e}
            /\ Of(next, e) = Grown(old, row)
            /\ \A d : d # e => Of(next, d) = Of(built, d)
            /\ next.warned = built.warned \cup {<<e, key>> : key \in conflicts}
        BY <2>2, <2>7, AddRowFacts
      <3>2. /\ Grown(old, row).endpoints = Append(old.endpoints, Request(row))
            /\ \A key \in Settings :
                 Grown(old, row).settings[key] =
                   IF Settles(key, old.settings[key], row[key]) THEN row[key] ELSE old.settings[key]
        BY DEF Grown
      <3>3. /\ old.endpoints = Asks(rows, e)
            /\ \A key \in Settings : old.settings[key] = First(rows, e, key)
        BY <2>3
      <3>4. DOMAIN next.domains = DomainsOf(more)
        BY <2>3, <2>4, <2>7, <3>1
      <3> HIDE DEF old
      <3>5. ASSUME NEW d PROVE Of(next, d).endpoints = Asks(more, d)
        <4>1. CASE d = e
          BY <2>5, <2>7, <3>1, <3>2, <3>3, <4>1
        <4>2. CASE d # e
          BY <2>3, <2>5, <3>1, <4>2
        <4> QED
          BY <4>1, <4>2
      <3>6. ASSUME NEW d, NEW key \in Settings
            PROVE  Of(next, d).settings[key] = First(more, d, key)
        <4>1. CASE d = e
          <5>1. Settles(key, First(rows, e, key), row[key]) <=>
                  Counts(row, e, key) /\ First(rows, e, key) = Default[key]
            BY <2>7 DEF Settles, Counts
          <5>2. Of(next, e).settings[key] =
                  IF Settles(key, First(rows, e, key), row[key]) THEN row[key]
                  ELSE First(rows, e, key)
            BY <3>1, <3>2, <3>3
          <5> QED
            BY <2>6, <4>1, <5>1, <5>2
        <4>2. CASE d # e
          <5>1. ~Counts(row, d, key)
            BY <4>2 DEF Counts
          <5> QED
            BY <2>3, <2>6, <3>1, <4>2, <5>1
        <4> QED
          BY <4>1, <4>2
      <3>7. ASSUME NEW d, NEW key \in Settings
            PROVE  <<d, key>> \in next.warned <=> Differ(more, d, key)
        <4>1. <<d, key>> \in {<<e, k>> : k \in conflicts} <=> d = e /\ key \in conflicts
          BY Zenon
        <4>2. key \in conflicts <=> Conflicts(key, First(rows, e, key), row[key])
          BY <3>3
        <4>3. Conflicts(key, First(rows, e, key), row[key]) <=>
                Counts(row, e, key) /\ First(rows, e, key) \notin {Default[key], row[key]}
          BY <2>7 DEF Conflicts, Counts
        <4>4. Counts(row, d, key) => d = e
          BY DEF Counts
        <4> HIDE DEF conflicts
        <4> QED
          BY <2>3, <2>6, <3>1, <4>1, <4>2, <4>3, <4>4
      <3>8. BuiltFrom(more)
        BY <3>4, <3>5, <3>6, <3>7 DEF BuiltFrom, next
      <3> QED
        BY <2>1, <3>8 DEF more
    <2>8. CASE ~Live(row)
      <3>1. next = built
        BY <2>2, <2>8, AddRowFacts
      <3>2. \A d, key : ~Counts(row, d, key)
        BY <2>8 DEF Counts
      <3>3. BuiltFrom(more)
        BY <2>3, <2>4, <2>5, <2>6, <2>8, <3>1, <3>2 DEF BuiltFrom, next
      <3> QED
        BY <2>1, <3>3 DEF more
    <2> QED
      BY <2>7, <2>8
  <1>3. \A rows \in Seq(S) : rows \in T
    <2> HIDE DEF T
    <2> QED
      BY <1>1, <1>2, Induction
  <1> QED
    BY <1>3

-----------------------------------------------------------------------------
\* The inductive invariant

\* What has been written of the latest run is what its rows make.
Written ==
  phase \in {"writing", "done"} =>
    \A d \in DomainsOf(read) \ todo :
      d \in DOMAIN preview /\ preview[d] = Render(Built.domains[d])

IInv == TypeOK /\ Written

\* A row that may be in the table.
LEMMA TableFacts ==
  /\ Rows \subseteq TableRows
  /\ \A row \in TableRows : [row EXCEPT !.enabled = ~@] \in TableRows
PROOF
  <1>1. ASSUME NEW row \in Rows PROVE row \in TableRows
    <2>1. row = [row EXCEPT !.enabled = row.enabled] /\ row.enabled \in BOOLEAN
      BY GeneratorAssumption DEF Row
    <2> QED
      BY <2>1 DEF TableRows
  <1>2. ASSUME NEW row \in TableRows PROVE [row EXCEPT !.enabled = ~@] \in TableRows
    <2>1. PICK r \in Rows, on \in BOOLEAN : row = [r EXCEPT !.enabled = on]
      BY DEF TableRows
    <2>2. r \in Row
      BY GeneratorAssumption
    <2>3. [row EXCEPT !.enabled = ~@] = [r EXCEPT !.enabled = ~on]
      BY <2>1, <2>2 DEF Row
    <2> DEFINE off == ~on
    <2>4. off \in BOOLEAN
      OBVIOUS
    <2> HIDE DEF off
    <2>5. [r EXCEPT !.enabled = off] \in TableRows
      BY <2>4 DEF TableRows
    <2> QED
      BY <2>3, <2>5 DEF off
  <1> QED
    BY <1>1, <1>2

\* The cells of a row, as texts and words.
LEMMA CellFacts ==
  ASSUME NEW row \in TableRows
  PROVE  /\ row.path \in Text /\ Strip(row.path) = row.path /\ row.params \in Text
         /\ row.method \in Chars /\ row.body \in Chars
PROOF
  <1>1. PICK r \in Rows, on \in BOOLEAN : row = [r EXCEPT !.enabled = on]
    BY DEF TableRows
  <1>2. r \in Row
    BY GeneratorAssumption
  <1>3. /\ row.path = r.path /\ row.params = r.params /\ row.method = r.method
        /\ row.body = r.body
    BY <1>1, <1>2 DEF Row
  <1>4. /\ r.path \in Seq(STRING) /\ Strip(r.path) = r.path /\ r.params \in Seq(STRING)
        /\ r.method \in STRING /\ r.body \in STRING
    BY <1>2 DEF Row
  <1>5. STRING \subseteq Chars
    BY DEF Chars
  <1>6. ASSUME NEW q \in Seq(STRING) PROVE q \in Text
    <2>1. \A i \in DOMAIN q : q[i] \in Chars
      BY <1>5, SequenceFacts, Zenon
    <2> QED
      BY <2>1, Elements DEF Text
  <1> QED
    BY <1>3, <1>4, <1>5, <1>6

\* A table with a row less.
LEMMA RemoveFacts ==
  ASSUME NEW S, NEW q \in Seq(S), NEW i \in DOMAIN q
  PROVE  RemoveAt(q, i) \in Seq(S) /\ Len(RemoveAt(q, i)) = Len(q) - 1
PROOF
  <1> DEFINE a == SubSeq(q, 1, i - 1)
             b == SubSeq(q, i + 1, Len(q))
             n == Len(q)
  <1>1. n \in Nat /\ i \in 1..n
    BY SequenceFacts
  <1>2. a \in Seq(S) /\ Len(a) = i - 1
    BY <1>1
  <1>3. b \in Seq(S) /\ Len(b) = n - i
    BY <1>1
  <1>4. RemoveAt(q, i) = a \o b
    BY DEF RemoveAt
  <1> HIDE DEF a, b, n
  <1>5. a \o b \in Seq(S) /\ Len(a \o b) = Len(a) + Len(b)
    BY <1>2, <1>3, ConcatFacts
  <1> QED
    BY <1>1, <1>2, <1>3, <1>4, <1>5 DEF n

\* A table with a row replaced.
LEMMA ReplaceFacts ==
  ASSUME NEW S, NEW q \in Seq(S), NEW i \in DOMAIN q, NEW x \in S
  PROVE  [q EXCEPT ![i] = x] \in Seq(S) /\ Len([q EXCEPT ![i] = x]) = Len(q)
PROOF
  OBVIOUS

\* The script has the domains of its rows to write.
LEMMA BuiltDomains ==
  ASSUME NEW rows \in Seq(TableRows)
  PROVE  DOMAIN BuildDomains(rows).domains = DomainsOf(rows)
PROOF
  BY BuildFacts DEF BuiltFrom

\* Before the first run nothing is read and nothing written.
LEMMA InitIInv == Init => IInv
PROOF
  <1> SUFFICES ASSUME Init PROVE IInv
    OBVIOUS
  <1>1. <<>> \in Seq(TableRows) /\ Len(<<>>) = 0
    OBVIOUS
  <1>2. DomainsOf(<<>>) = {}
    BY DomainsSteps
  <1>3. MaxRows \in Nat /\ MaxEdits \in Nat /\ MaxRuns \in Nat
    BY GeneratorAssumption
  <1>4. TypeOK
    BY <1>1, <1>2, <1>3 DEF Init, TypeOK
  <1>5. Written
    BY DEF Init, Written
  <1> QED
    BY <1>4, <1>5 DEF IInv

\* Edits concern no run.
LEMMA EditStep == IInv /\ Edit => IInv'
PROOF
  <1> SUFFICES ASSUME IInv, Edit PROVE IInv'
    OBVIOUS
  <1>1. UNCHANGED <<run, phase, read, todo, preview>>
    BY DEF Edit
  <1>2. table \in Seq(TableRows) /\ Len(table) <= MaxRows /\ Len(table) \in Nat /\ MaxRows \in Nat
    BY GeneratorAssumption, SequenceFacts DEF IInv, TypeOK
  <1>3. table' \in Seq(TableRows) /\ Len(table') <= MaxRows
    <2>1. CASE \E row \in Rows : Len(table) < MaxRows /\ table' = Append(table, row)
      <3>1. PICK row \in Rows : Len(table) < MaxRows /\ table' = Append(table, row)
        BY <2>1
      <3>2. row \in TableRows
        BY TableFacts
      <3>3. table' \in Seq(TableRows) /\ Len(table') = Len(table) + 1
        BY <1>2, <3>1, <3>2, AppendFacts
      <3> QED
        BY <1>2, <3>1, <3>3
    <2>2. CASE \E i \in DOMAIN table : table' = RemoveAt(table, i)
      <3>1. PICK i \in DOMAIN table : table' = RemoveAt(table, i)
        BY <2>2
      <3>2. table' \in Seq(TableRows) /\ Len(table') = Len(table) - 1
        BY <1>2, <3>1, RemoveFacts
      <3> QED
        BY <1>2, <3>2
    <2>3. CASE \E i \in DOMAIN table : table' = [table EXCEPT ![i].enabled = ~@]
      <3>1. PICK i \in DOMAIN table : table' = [table EXCEPT ![i].enabled = ~@]
        BY <2>3
      <3> DEFINE row == [table[i] EXCEPT !.enabled = ~@]
      <3>2. row \in TableRows
        BY <1>2, SequenceFacts, TableFacts
      <3>3. table' = [table EXCEPT ![i] = row]
        BY <3>1
      <3> HIDE DEF row
      <3>4. table' \in Seq(TableRows) /\ Len(table') = Len(table)
        BY <1>2, <3>2, <3>3, ReplaceFacts
      <3> QED
        BY <1>2, <3>4
    <2> QED
      BY <2>1, <2>2, <2>3 DEF Edit
  <1>4. edits' \in 0..MaxEdits
    <2>1. MaxEdits \in Nat /\ edits \in 0..MaxEdits /\ edits < MaxEdits /\ edits' = edits + 1
      BY GeneratorAssumption DEF IInv, TypeOK, Edit
    <2> QED
      BY <2>1
  <1>5. TypeOK'
    BY <1>1, <1>3, <1>4 DEF IInv, TypeOK
  <1>6. Written'
    BY <1>1 DEF IInv, Written, Built
  <1> QED
    BY <1>5, <1>6 DEF IInv

\* A run that has read the table has written none of its domains.
LEMMA StartStep == IInv /\ Start => IInv'
PROOF
  <1> SUFFICES ASSUME IInv, Start PROVE IInv'
    OBVIOUS
  <1>1. UNCHANGED <<table, edits, preview>>
    BY DEF Start
  <1>2. run' \in 0..MaxRuns
    <2>1. MaxRuns \in Nat /\ run \in 0..MaxRuns /\ run < MaxRuns /\ run' = run + 1
      BY GeneratorAssumption DEF IInv, TypeOK, Start
    <2> QED
      BY <2>1
  <1>3. CASE /\ read' = table
             /\ todo' = DOMAIN BuildDomains(table).domains
             /\ phase' = Outcome(todo')
    <2>1. table \in Seq(TableRows) /\ todo' = DomainsOf(table)
      BY <1>3, BuiltDomains DEF IInv, TypeOK
    <2>2. phase' = IF todo' = {} THEN "failed" ELSE "writing"
      BY <1>3 DEF Outcome
    <2>3. TypeOK'
      BY <1>1, <1>2, <1>3, <2>1, <2>2 DEF IInv, TypeOK
    <2>4. Written'
      BY <1>3, <2>1, <2>2 DEF Written
    <2> QED
      BY <2>3, <2>4 DEF IInv
  <1>4. CASE phase' = "failed" /\ UNCHANGED <<read, todo>>
    <2>1. phase # "writing"
      BY DEF Start
    <2>2. TypeOK'
      BY <1>1, <1>2, <1>4, <2>1 DEF IInv, TypeOK
    <2>3. Written'
      BY <1>4 DEF Written
    <2> QED
      BY <2>2, <2>3 DEF IInv
  <1> QED
    BY <1>3, <1>4 DEF Start

\* A domain that is written has what the rows make of it.
LEMMA WriteStep == ASSUME IInv, NEW d \in todo, WriteDomain(d) PROVE IInv'
PROOF
  <1>1. /\ phase = "writing" /\ preview' = Put(preview, d, Render(Built.domains[d]))
        /\ todo' = todo \ {d} /\ phase' = (IF todo' = {} THEN "done" ELSE "writing")
        /\ UNCHANGED <<table, edits, run, read>>
    BY DEF WriteDomain
  <1>2. TypeOK'
    BY <1>1 DEF IInv, TypeOK
  <1>3. ASSUME NEW e \in DomainsOf(read) \ todo'
        PROVE  e \in DOMAIN preview' /\ preview'[e] = Render(Built.domains[e])
    <2>1. CASE e = d
      BY <1>1, <2>1 DEF Put
    <2>2. CASE e # d
      <3>1. e \in DOMAIN preview /\ preview[e] = Render(Built.domains[e])
        BY <1>1, <1>3, <2>2 DEF IInv, Written
      <3> QED
        BY <1>1, <2>2, <3>1 DEF Put
    <2> QED
      BY <2>1, <2>2
  <1>4. Written'
    BY <1>1, <1>3 DEF Written, Built
  <1> QED
    BY <1>2, <1>4 DEF IInv

\* The invariant is inductive.
LEMMA NextIInv == IInv /\ [Next]_vars => IInv'
PROOF
  <1> SUFFICES ASSUME IInv, [Next]_vars PROVE IInv'
    OBVIOUS
  <1>1. CASE Edit
    BY <1>1, EditStep
  <1>2. CASE Start
    BY <1>2, StartStep
  <1>3. ASSUME NEW d \in todo, WriteDomain(d) PROVE IInv'
    BY <1>3, WriteStep
  <1>4. CASE Dies
    <2>1. TypeOK'
      BY <1>4 DEF IInv, TypeOK, Dies
    <2>2. Written'
      BY <1>4 DEF Written, Dies
    <2> QED
      BY <2>1, <2>2 DEF IInv
  <1>5. CASE UNCHANGED vars
    BY <1>5 DEF IInv, TypeOK, Written, Built, vars
  <1> QED
    BY <1>1, <1>2, <1>3, <1>4, <1>5 DEF Next

\* The invariant holds of every state.
LEMMA Inductive == Spec => []IInv
PROOF
  BY InitIInv, NextIInv, PTL DEF Spec

-----------------------------------------------------------------------------
\* The theorems

\* Every state is of the model's types, and what is still to be written is of
\* the rows that were read (generate_api_domains.py:388-402).
THEOREM RunsWriteWhatTheyRead == Spec => []TypeOK
PROOF
  BY Inductive, PTL DEF IInv

\* A domain's settings are the first values of its rows that count, and a
\* warning says when there are different ones, for any number of rows in any
\* order (generate_api_domains.py:217-233, 275-288).
THEOREM FirstSettingWins == Spec => []SettingsComeFromTheRows
PROOF
  <1>1. ASSUME TypeOK PROVE SettingsComeFromTheRows
    <2>1. BuiltFrom(read)
      BY <1>1, BuildFacts DEF TypeOK
    <2>2. ASSUME NEW d \in DomainsOf(read), NEW key \in Settings
          PROVE  /\ Built.domains[d].settings[key] =
                      (IF Setting(read, d, key) = {} THEN Default[key]
                       ELSE read[Min(Setting(read, d, key))][key])
                 /\ <<d, key>> \in Built.warned <=>
                      \E i, j \in Setting(read, d, key) : read[i][key] # read[j][key]
      <3>1. Built.domains[d] = Of(BuildDomains(read), d)
        BY <2>1 DEF BuiltFrom, Of, Built
      <3>2. /\ Of(BuildDomains(read), d).settings[key] = First(read, d, key)
            /\ <<d, key>> \in BuildDomains(read).warned <=> Differ(read, d, key)
        BY <2>1 DEF BuiltFrom
      <3> QED
        BY <3>1, <3>2 DEF First, Differ, Built
    <2> QED
      BY <2>2 DEF SettingsComeFromTheRows
  <1> QED
    BY <1>1, Inductive, PTL DEF IInv

\* A cell that is encoded already keeps its pairs when it is encoded again,
\* whatever was in it (generate_api_domains.py:163-164).
THEOREM EncodingIsStable == Spec => []EncodedCellsStay
PROOF
  <1>1. ASSUME TypeOK PROVE EncodedCellsStay
    <2>1. ASSUME NEW i \in DOMAIN table
          PROVE  Pairs(EncodeParams(EncodeParams(table[i].params))) =
                   Pairs(EncodeParams(table[i].params))
      <3>1. table[i] \in TableRows
        BY <1>1, SequenceFacts DEF TypeOK
      <3>2. table[i].params \in Text
        BY <3>1, CellFacts
      <3> QED
        BY <3>2, EncodedAgain
    <2> QED
      BY <2>1 DEF EncodedCellsStay
  <1> QED
    BY <1>1, Inductive, PTL DEF IInv

\* A file has the block of its domain's requests.
LEMMA RenderFacts == \A entry : Render(entry).endpoints = EndpointsBlock(entry.endpoints)
PROOF
  BY DEF Render

\* The requests of a domain are requests the notebook can be asked for.
LEMMA AsksFacts ==
  ASSUME NEW rows \in Seq(TableRows), NEW d \in DomainsOf(rows)
  PROVE  /\ Asks(rows, d) \in Seq(Asked) /\ Filled(Asks(rows, d))
         /\ (\A i \in DOMAIN RowsOf(rows, d) : Without(RowsOf(rows, d)[i].path, Marks)) =>
              \A i \in DOMAIN Asks(rows, d) : Without(Asks(rows, d)[i].path, Marks)
PROOF
  <1> DEFINE N == {r \in TableRows : Live(r) /\ r.domain = d}
             q == RowsOf(rows, d)
             p == Asks(rows, d)
  <1>1. q \in Seq(N) /\ Filled(q)
    BY RowsOfFacts DEF Filled
  <1>2. ASSUME NEW r \in N
        PROVE  /\ Request(r) \in Asked
               /\ Without(r.path, Marks) => Without(Request(r).path, Marks)
    <2>1. r \in TableRows /\ Filled(r.path)
      BY DEF Live, Filled
    <2>2. /\ r.path \in Text /\ Strip(r.path) = r.path /\ r.params \in Text
          /\ r.method \in Chars /\ r.body \in Chars
      BY <2>1, CellFacts
    <2> QED
      BY <2>1, <2>2, RequestFacts
  <1> HIDE DEF N, q
  <1>3. DOMAIN q = 1..Len(q) /\ Len(q) \in Nat /\ Len(q) >= 1 /\ \A i \in DOMAIN q : q[i] \in N
    BY <1>1, SequenceFacts, FilledFacts
  <1>4. p = [i \in DOMAIN q |-> Request(q[i])]
    BY DEF Asks, q
  <1> HIDE DEF p
  <1>5. p \in [1..Len(q) -> Asked]
    BY <1>2, <1>3, <1>4
  <1>6. p \in Seq(Asked) /\ Len(p) = Len(q)
    BY <1>3, <1>5, FunctionIsSequence
  <1>7. Filled(p)
    BY <1>3, <1>6, FilledFacts
  <1>8. (\A i \in DOMAIN q : Without(q[i].path, Marks)) =>
          \A i \in DOMAIN p : Without(p[i].path, Marks)
    BY <1>2, <1>3, <1>4
  <1> QED
    BY <1>6, <1>7, <1>8 DEF p, q

\* The fetch notebook asks for what the rows say, one request for each and in
\* their order, for any cells and any number of rows, and whatever earlier runs
\* left in the directory
\* (generate_api_domains.py:236-320, fetch_api_responses.py:63-71).
THEOREM RequestsAreThoseOfTheRows == Spec => []FetchRequestsTheRows
PROOF
  <1>1. ASSUME IInv PROVE FetchRequestsTheRows
    <2> SUFFICES ASSUME phase = "done", NEW d \in DomainsOf(read),
                        \/ \A i \in DOMAIN RowsOf(read, d) :
                             Range(RowsOf(read, d)[i].path) \cap ({","} \cup Special) = {}
                        \/ ~AllGetNoBody(Asks(read, d))
                 PROVE  d \in DOMAIN preview /\ Fetched(preview[d].endpoints) = Asks(read, d)
      BY DEF FetchRequestsTheRows, Asks
    <2>1. BuiltFrom(read) /\ read \in Seq(TableRows) /\ todo = {}
      BY <1>1, BuildFacts DEF IInv, TypeOK
    <2>2. d \in DOMAIN preview /\ preview[d] = Render(Built.domains[d])
      BY <1>1, <2>1 DEF IInv, Written
    <2>3. Built.domains[d].endpoints = Asks(read, d)
      BY <2>1 DEF BuiltFrom, Of, Built
    <2>4. preview[d].endpoints = EndpointsBlock(Asks(read, d))
      BY <2>2, <2>3, RenderFacts, Zenon
    <2>5. (\A i \in DOMAIN RowsOf(read, d) :
             Range(RowsOf(read, d)[i].path) \cap ({","} \cup Special) = {}) =>
            \A i \in DOMAIN RowsOf(read, d) : Without(RowsOf(read, d)[i].path, Marks)
      BY Zenon DEF Range, Without, Marks, Comma
    <2>6. \/ ~AllGetNoBody(Asks(read, d))
          \/ \A i \in DOMAIN Asks(read, d) : Without(Asks(read, d)[i].path, Marks)
      BY <2>1, <2>5, AsksFacts
    <2> QED
      BY <2>1, <2>2, <2>4, <2>6, AsksFacts, FetchedFacts
  <1> QED
    BY <1>1, Inductive, PTL

=============================================================================

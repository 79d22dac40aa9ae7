--------------------------- MODULE FenCheckProofs ---------------------------
(***************************************************************************)
(* Proofs about FenCheck: exactly the FENs are accepted, and what is       *)
(* stored is canonical, on a board of any size, with any pieces, digits    *)
(* and texts.                                                              *)
(*                                                                         *)
(* The loops of the code are recursive functions in FenCheck.  An          *)
(* induction here is a set of numbers that has 0 and, with each of its     *)
(* numbers, the next one.                                                  *)
(***************************************************************************)
EXTENDS FenCheck, WellFoundedInduction, FiniteSetTheorems,
        SequenceTheorems, TLAPS

(***************************************************************************)
(* Induction over data, in a form that has no operator for a parameter.    *)
(***************************************************************************)
LEMMA LeastNumber ==
  ASSUME NEW S \in SUBSET Nat, S # {}
  PROVE  \E n \in S : \A m \in S : n <= m
<1> DEFINE R == {ss \in Nat \X Nat : ss[1] < ss[2]}
<1>1. IsWellFoundedOn(R, Nat)  BY NatLessThanWellFounded DEF OpToRel
<1>2. PICK x \in S : \A y \in S : ~ (<<y, x>> \in R)
  <2> HIDE DEF R
  <2> QED BY <1>1, WFMin
<1>3. ASSUME NEW y \in S PROVE x <= y
  <2>1. ~ (<<y, x>> \in R)  BY <1>2
  <2> QED BY <2>1
<1> QED BY <1>3

LEMMA SetInduction ==
  ASSUME NEW S, 0 \in S, \A n \in Nat : n \in S => n + 1 \in S
  PROVE  Nat \subseteq S
<1>1. SUFFICES ASSUME Nat \ S # {} PROVE FALSE   OBVIOUS
<1>2. PICK x \in Nat \ S : \A y \in Nat \ S : x <= y
  BY <1>1, LeastNumber
<1>3. x # 0 /\ x - 1 \in Nat /\ x - 1 \notin Nat \ S  BY <1>2
<1> QED BY <1>3

LEMMA BoundedInduction ==
  ASSUME NEW n \in Nat, NEW S, 0 \in S, \A i \in 0 .. n - 1 : i \in S => i + 1 \in S
  PROVE  0 .. n \subseteq S
<1> DEFINE T == {i \in Nat : i <= n => i \in S}
<1>1. 0 \in T  OBVIOUS
<1>2. ASSUME NEW i \in Nat, i \in T PROVE i + 1 \in T  BY <1>2
<1>3. Nat \subseteq T
  <2> HIDE DEF T
  <2> QED BY <1>1, <1>2, SetInduction
<1> QED BY <1>3

(* A recursion over 0 .. n has a solution.                                 *)
LEMMA Recursion ==
  ASSUME NEW T, NEW a \in T, NEW n \in Nat, NEW g \in [1 .. n -> [T -> T]]
  PROVE  \E f \in [0 .. n -> T] :
           f[0] = a /\ \A i \in 1 .. n : f[i] = g[i][f[i - 1]]
<1> DEFINE Solves(f, m) == /\ f \in [0 .. m -> T] /\ f[0] = a
                           /\ \A i \in 1 .. m : f[i] = g[i][f[i - 1]]
           S == {m \in Nat : \E f : Solves(f, m)}
<1>1. 0 \in S
  <2>1. Solves([i \in 0 .. 0 |-> a], 0)  OBVIOUS
  <2> QED BY <2>1
<1>2. ASSUME NEW m \in 0 .. n - 1, m \in S PROVE m + 1 \in S
  <2>1. PICK f : Solves(f, m)  BY <1>2
  <2> DEFINE h == [i \in 0 .. m + 1 |-> IF i = m + 1 THEN g[m + 1][f[m]] ELSE f[i]]
  <2>2. f[m] \in T /\ m + 1 \in 1 .. n  BY <2>1
  <2>3. h \in [0 .. m + 1 -> T] /\ h[0] = a  BY <2>1, <2>2
  <2>4. ASSUME NEW i \in 1 .. m + 1 PROVE h[i] = g[i][h[i - 1]]
    <3>1. CASE i = m + 1  BY <2>1, <2>2, <3>1
    <3>2. CASE i \in 1 .. m  BY <2>1, <2>2, <3>2
    <3> QED BY <3>1, <3>2
  <2>5. Solves(h, m + 1)
    <3> HIDE DEF h
    <3> QED BY <2>3, <2>4
  <2>6. \E h0 : Solves(h0, m + 1)
    <3> HIDE DEF h, Solves
    <3> QED BY <2>5
  <2>7. m + 1 \in Nat  OBVIOUS
  <2> HIDE DEF Solves
  <2> QED BY <2>6, <2>7
<1> HIDE DEF S
<1>3. 0 .. n \subseteq S  BY <1>1, <1>2, BoundedInduction
<1>4. n \in S  BY <1>3
<1> QED BY <1>4 DEF S

(* Two functions that take the same steps end alike.                       *)
LEMMA SameSteps ==
  ASSUME NEW n \in Nat, NEW f, NEW g, f[0] = g[0],
         \A i \in 0 .. n - 1 : f[i] = g[i] => f[i + 1] = g[i + 1]
  PROVE  f[n] = g[n]
<1> DEFINE S == {i \in 0 .. n : f[i] = g[i]}
<1>1. 0 \in S  OBVIOUS
<1>2. ASSUME NEW i \in 0 .. n - 1, i \in S PROVE i + 1 \in S  BY <1>2
<1>3. 0 .. n \subseteq S
  <2> HIDE DEF S
  <2> QED BY <1>1, <1>2, BoundedInduction
<1> QED BY <1>3
-----------------------------------------------------------------------------
(* The three recursive functions of FenCheck.                              *)
IsWidths(w, r) == /\ w \in [0 .. Len(r) -> Nat] /\ w[0] = 0
                  /\ \A i \in 1 .. Len(r) : w[i] = w[i - 1] + CharWidth(r[i])

LEMMA CharWidthType == \A c : CharWidth(c) \in Nat
BY FenAssumption DEF CharWidth

LEMMA RankWidths ==
  ASSUME NEW r \in Chars
  PROVE  \E w : IsWidths(w, r) /\ RankWidth(r) = w[Len(r)]
<1> DEFINE n == Len(r)
           Is(h) == h = [i \in 0 .. n |-> IF i = 0 THEN 0 ELSE h[i - 1] + CharWidth(r[i])]
           c == CHOOSE h : Is(h)
<1>1. n \in Nat  BY DEF Chars
<1>2. PICK w : IsWidths(w, r)
  <2> DEFINE T == Nat
             g == [i \in 1 .. n |-> [x \in T |-> x + CharWidth(r[i])]]
  <2>1. 0 \in T /\ g \in [1 .. n -> [T -> T]]  BY CharWidthType
  <2>2. PICK f \in [0 .. n -> T] :
           f[0] = 0 /\ \A i \in 1 .. n : f[i] = g[i][f[i - 1]]
    <3> HIDE DEF g, n, T
    <3> QED BY <1>1, <2>1, Recursion
  <2>3. ASSUME NEW i \in 1 .. n PROVE f[i] = f[i - 1] + CharWidth(r[i])
    <3>1. i \in Nat /\ i - 1 \in 0 .. n  BY <1>1
    <3>2. f[i] = g[i][f[i - 1]]  BY <2>2
    <3> HIDE DEF n
    <3> QED BY <3>1, <3>2, CharWidthType
  <2> QED BY <2>2, <2>3 DEF IsWidths
<1>3. Is(w)  BY <1>1, <1>2 DEF IsWidths
<1>4. Is(c)  BY <1>3
<1>5. RankWidth(r) = c[n]  BY DEF RankWidth
<1> HIDE DEF c
<1>6. c[0] = w[0]  BY <1>1, <1>3, <1>4
<1>7. ASSUME NEW i \in 0 .. n - 1, c[i] = w[i] PROVE c[i + 1] = w[i + 1]
  BY <1>1, <1>3, <1>4, <1>7
<1>8. c[n] = w[n]
  <2> HIDE DEF n
  <2> QED BY <1>1, <1>6, <1>7, SameSteps
<1> QED BY <1>2, <1>5, <1>8

Digits == Seq(DOMAIN Digit)

IsNumbers(f, field) ==
  /\ f \in [0 .. Len(field) -> Nat] /\ f[0] = 0
  /\ \A i \in 1 .. Len(field) : f[i] = 10 * f[i - 1] + Digit[field[i]]

LEMMA Numbers ==
  ASSUME NEW field \in Digits
  PROVE  \E f : IsNumbers(f, field) /\ NumberOf(field) = f[Len(field)]
<1> DEFINE n == Len(field)
           Is(h) == h = [i \in 0 .. n |->
                           IF i = 0 THEN 0 ELSE 10 * h[i - 1] + Digit[field[i]]]
           c == CHOOSE h : Is(h)
<1>1. n \in Nat  BY DEF Digits
<1>d. \A i \in 1 .. n : Digit[field[i]] \in Nat  BY FenAssumption DEF Digits
<1>2. PICK f : IsNumbers(f, field)
  <2> DEFINE T == Nat
             g == [i \in 1 .. n |-> [x \in T |-> 10 * x + Digit[field[i]]]]
  <2>1. 0 \in T /\ g \in [1 .. n -> [T -> T]]  BY <1>d
  <2>2. PICK f \in [0 .. n -> T] :
           f[0] = 0 /\ \A i \in 1 .. n : f[i] = g[i][f[i - 1]]
    <3> HIDE DEF g, n, T
    <3> QED BY <1>1, <2>1, Recursion
  <2>3. ASSUME NEW i \in 1 .. n PROVE f[i] = 10 * f[i - 1] + Digit[field[i]]
    <3>1. i \in Nat /\ i - 1 \in 0 .. n  BY <1>1
    <3>2. f[i] = g[i][f[i - 1]]  BY <2>2
    <3> HIDE DEF n
    <3> QED BY <3>1, <3>2
  <2> QED BY <2>2, <2>3 DEF IsNumbers
<1>3. Is(f)  BY <1>1, <1>2 DEF IsNumbers
<1>4. Is(c)  BY <1>3
<1>5. NumberOf(field) = c[n]  BY DEF NumberOf
<1> HIDE DEF c
<1>6. c[0] = f[0]  BY <1>1, <1>3, <1>4
<1>7. ASSUME NEW i \in 0 .. n - 1, c[i] = f[i] PROVE c[i + 1] = f[i + 1]
  BY <1>1, <1>3, <1>4, <1>7
<1>8. c[n] = f[n]
  <2> HIDE DEF n
  <2> QED BY <1>1, <1>6, <1>7, SameSteps
<1> QED BY <1>2, <1>5, <1>8

RankChars == Seq(RankChar)

Square == Piece \cup {"empty"}

IsPlacement(q, r) ==
  /\ q \in [0 .. Len(r) -> Seq(Square)] /\ q[0] = <<>>
  /\ \A i \in 1 .. Len(r) : q[i] = q[i - 1] \o Block(r[i])

LEMMA Blocks ==
  ASSUME NEW c \in RankChar
  PROVE  Block(c) \in Seq(Square) /\ Len(Block(c)) = CharWidth(c) /\ CharWidth(c) > 0
<1>1. CASE c \in Piece  BY <1>1 DEF Block, Square, CharWidth
<1>2. CASE c \notin Piece
  <2>1. c \in DOMAIN Digit /\ Digit[c] \in 1 .. Size  BY <1>2 DEF RankChar
  <2>2. Block(c) = [j \in 1 .. Digit[c] |-> "empty"]  BY <1>2 DEF Block
  <2>3. Block(c) \in [1 .. Digit[c] -> Square]  BY <2>2 DEF Square
  <2>4. Digit[c] \in Nat  BY <2>1, FenAssumption
  <2>5. Block(c) \in Seq(Square) /\ Len(Block(c)) = Digit[c]  BY <2>2, <2>3, <2>4
  <2> QED BY <1>2, <2>1, <2>5, FenAssumption DEF CharWidth
<1> QED BY <1>1, <1>2

LEMMA Placements ==
  ASSUME NEW r \in RankChars
  PROVE  \E q : IsPlacement(q, r) /\ Squares(r) = q[Len(r)]
<1> DEFINE n == Len(r)
           Is(h) == h = [i \in 0 .. n |-> IF i = 0 THEN <<>> ELSE h[i - 1] \o Block(r[i])]
           c == CHOOSE h : Is(h)
<1>1. n \in Nat  BY DEF RankChars
<1>d. \A i \in 1 .. n : Block(r[i]) \in Seq(Square)  BY Blocks DEF RankChars
<1>2. PICK q : IsPlacement(q, r)
  <2> DEFINE T == Seq(Square)
             g == [i \in 1 .. n |-> [x \in T |-> x \o Block(r[i])]]
  <2>1. <<>> \in T /\ g \in [1 .. n -> [T -> T]]  BY <1>d
  <2>2. PICK f \in [0 .. n -> T] :
           f[0] = <<>> /\ \A i \in 1 .. n : f[i] = g[i][f[i - 1]]
    <3> HIDE DEF g, n, T
    <3> QED BY <1>1, <2>1, Recursion
  <2>3. ASSUME NEW i \in 1 .. n PROVE f[i] = f[i - 1] \o Block(r[i])
    <3>1. i \in Nat /\ i - 1 \in 0 .. n  BY <1>1
    <3>2. f[i] = g[i][f[i - 1]]  BY <2>2
    <3> HIDE DEF n
    <3> QED BY <3>1, <3>2
  <2>4. IsPlacement(f, r)
    <3> HIDE DEF g
    <3> QED BY <2>2, <2>3 DEF IsPlacement
  <2> QED BY <2>4
<1>3. Is(q)
  <2>1. q \in [0 .. n -> Seq(Square)]  BY <1>2 DEF IsPlacement
  <2>2. ASSUME NEW i \in 0 .. n
        PROVE  q[i] = IF i = 0 THEN <<>> ELSE q[i - 1] \o Block(r[i])
    <3>1. i # 0 => i \in 1 .. n  BY <1>1
    <3> QED BY <1>2, <3>1 DEF IsPlacement
  <2> HIDE DEF n
  <2> QED BY <2>1, <2>2
<1>4. Is(c)  BY <1>3
<1>5. Squares(r) = c[n]  BY DEF Squares
<1> HIDE DEF c
<1>6. c[0] = q[0]  BY <1>1, <1>3, <1>4
<1>7. ASSUME NEW i \in 0 .. n - 1, c[i] = q[i] PROVE c[i + 1] = q[i + 1]
  <2>1. i + 1 \in 0 .. n /\ i + 1 # 0 /\ (i + 1) - 1 = i  BY <1>1
  <2>2. c[i + 1] = c[i] \o Block(r[i + 1])  BY <1>4, <2>1
  <2>3. q[i + 1] = q[i] \o Block(r[i + 1])  BY <1>3, <2>1
  <2> QED BY <1>7, <2>2, <2>3
<1>8. c[n] = q[n]
  <2> HIDE DEF n
  <2> QED BY <1>1, <1>6, <1>7, SameSteps
<1> QED BY <1>2, <1>5, <1>8
-----------------------------------------------------------------------------
(* The ranks.                                                              *)

LEMMA RankCharsAreChars == RankChars \subseteq Chars
<1>1. RankChar \subseteq Char  BY FenAssumption DEF RankChar
<1> QED BY <1>1, SeqMonotonic DEF RankChars, Chars

(* The loop counts the squares that python-chess reads.                    *)
LEMMA WidthCountsSquares ==
  ASSUME NEW r \in RankChars
  PROVE  Len(Squares(r)) = RankWidth(r) /\ Len(r) <= RankWidth(r)
<1>1. r \in Chars /\ Len(r) \in Nat  BY RankCharsAreChars DEF RankChars
<1>2. PICK w : IsWidths(w, r) /\ RankWidth(r) = w[Len(r)]  BY <1>1, RankWidths
<1>3. PICK q : IsPlacement(q, r) /\ Squares(r) = q[Len(r)]  BY Placements
<1> DEFINE S == {i \in 0 .. Len(r) : Len(q[i]) = w[i] /\ i <= w[i]}
<1>4. 0 \in S  BY <1>1, <1>2, <1>3 DEF IsWidths, IsPlacement
<1>5. ASSUME NEW i \in 0 .. Len(r) - 1, i \in S PROVE i + 1 \in S
  <2>1. i + 1 \in 1 .. Len(r) /\ (i + 1) - 1 = i  BY <1>1
  <2>2. r[i + 1] \in RankChar  BY <2>1 DEF RankChars
  <2>3. w[i] \in Nat /\ w[i + 1] = w[i] + CharWidth(r[i + 1])
    BY <1>2, <2>1 DEF IsWidths
  <2>4. q[i] \in Seq(Square) /\ q[i + 1] = q[i] \o Block(r[i + 1])
    <3>1. q[i] \in Seq(Square)  BY <1>3 DEF IsPlacement
    <3>2. q[i + 1] = q[(i + 1) - 1] \o Block(r[i + 1])  BY <1>3, <2>1 DEF IsPlacement
    <3> QED BY <2>1, <3>1, <3>2
  <2>5. Block(r[i + 1]) \in Seq(Square) /\ Len(Block(r[i + 1])) = CharWidth(r[i + 1])
        /\ CharWidth(r[i + 1]) > 0
    BY <2>2, Blocks
  <2>6. Len(q[i + 1]) = Len(q[i]) + CharWidth(r[i + 1])
    <3> DEFINE b == Block(r[i + 1])
    <3>1. q[i] \in Seq(Square) /\ b \in Seq(Square)  BY <2>4, <2>5
    <3>2. Len(q[i] \o b) = Len(q[i]) + Len(b)
      <4> HIDE DEF b
      <4> QED BY <3>1, ConcatProperties
    <3> QED BY <2>4, <2>5, <3>2
  <2>7. Len(q[i]) = w[i] /\ i <= w[i] /\ i \in Nat  BY <1>1, <1>5
  <2>8. CharWidth(r[i + 1]) \in Nat  BY CharWidthType
  <2>9. Len(q[i + 1]) = w[i + 1] /\ i + 1 <= w[i + 1]
    BY <2>3, <2>5, <2>6, <2>7, <2>8
  <2> QED BY <2>1, <2>9
<1>6. 0 .. Len(r) \subseteq S
  <2> HIDE DEF S
  <2> QED BY <1>1, <1>4, <1>5, BoundedInduction
<1>7. Len(r) \in S  BY <1>1, <1>6
<1> QED BY <1>2, <1>3, <1>7

(* A character that is none of a rank makes it too wide.                   *)
LEMMA WrongCharacterIsWide ==
  ASSUME NEW r \in Chars, r \notin RankChars
  PROVE  RankWidth(r) > Size
<1>1. Len(r) \in Nat /\ Size \in Nat  BY FenAssumption DEF Chars
<1>2. PICK w : IsWidths(w, r) /\ RankWidth(r) = w[Len(r)]  BY RankWidths
<1>3. PICK k \in 1 .. Len(r) : r[k] \notin RankChar  BY DEF Chars, RankChars
<1>4. CharWidth(r[k]) > Size  BY <1>3, FenAssumption DEF RankChar, CharWidth
<1> DEFINE S == {i \in 0 .. Len(r) : k <= i => w[i] > Size}
<1>5. 0 \in S  BY <1>1, <1>3
<1>6. ASSUME NEW i \in 0 .. Len(r) - 1, i \in S PROVE i + 1 \in S
  <2>1. i + 1 \in 1 .. Len(r) /\ (i + 1) - 1 = i  BY <1>1
  <2>2. /\ w[i] \in Nat /\ w[i + 1] = w[i] + CharWidth(r[i + 1])
        /\ CharWidth(r[i + 1]) \in Nat
    BY <1>2, <2>1, CharWidthType DEF IsWidths
  <2>3. CASE k <= i  BY <1>1, <1>6, <2>1, <2>2, <2>3
  <2>4. CASE k = i + 1  BY <1>1, <1>4, <2>1, <2>2, <2>4
  <2>5. CASE k > i + 1  BY <1>3, <2>1, <2>5
  <2> QED BY <1>3, <2>3, <2>4, <2>5
<1>7. 0 .. Len(r) \subseteq S
  <2> HIDE DEF S
  <2> QED BY <1>1, <1>5, <1>6, BoundedInduction
<1> QED BY <1>1, <1>2, <1>3, <1>7

(* The loop, and python-chess's refusal of two digits in a row, accept     *)
(* what gives every square once.                                           *)
LEMMA RanksAreChecked ==
  ASSUME NEW r \in Chars
  PROVE  RankWidth(r) = Size /\ ~Runs(r) <=> IsRank(r)
<1>1. r \in RankChars <=> ToSet(r) \subseteq RankChar
  BY DEF Chars, RankChars, ToSet
<1>2. CASE r \in RankChars  BY <1>1, <1>2, WidthCountsSquares DEF IsRank
<1>3. CASE r \notin RankChars
  <2>1. RankWidth(r) # Size  BY <1>3, WrongCharacterIsWide, FenAssumption
  <2> QED BY <1>1, <1>3, <2>1 DEF IsRank
<1> QED BY <1>2, <1>3

(* A rank is spelled as a rank with the same squares.                      *)
LEMMA SpelledRanks ==
  ASSUME NEW r \in Chars, IsRank(r)
  PROVE  LET p == SpellRank(Squares(r))
         IN  p \in Chars /\ IsRank(p) /\ Squares(p) = Squares(r)
<1> DEFINE Spells(p) ==
      p \in BoundedSeq(RankChar, Size) /\ ~Runs(p) /\ Squares(p) = Squares(r)
           p == SpellRank(Squares(r))
<1>1. r \in RankChars  BY DEF IsRank, Chars, RankChars, ToSet
<1>2. Len(r) \in 0 .. Size
  BY <1>1, WidthCountsSquares, FenAssumption DEF IsRank, RankChars
<1>3. r \in [1 .. Len(r) -> RankChar]  BY <1>1 DEF RankChars
<1>4. Spells(r)  BY <1>2, <1>3 DEF IsRank, BoundedSeq, SeqOf
<1>5. Spells(p)  BY <1>4 DEF SpellRank
<1>6. p \in RankChars
  BY <1>5, FenAssumption DEF BoundedSeq, SeqOf, RankChars
<1>7. p \in Chars /\ ToSet(p) \subseteq RankChar
  BY <1>6, RankCharsAreChars DEF RankChars, ToSet
<1> HIDE DEF p
<1>8. p \in Chars /\ IsRank(p) /\ Squares(p) = Squares(r)
  BY <1>5, <1>7 DEF IsRank
<1> QED BY <1>8 DEF p
-----------------------------------------------------------------------------
(* The clocks.                                                             *)

LEMMA DigitsCount ==
  \A d \in DOMAIN Digit : /\ Digit[d] \in 0 .. 9
                          /\ Digit[d] = 0 <=> d = "0"
                          /\ \A e \in DOMAIN Digit : Digit[d] = Digit[e] => d = e
BY FenAssumption

LEMMA NumeralsAreShort == Numeral = {s \in Digits : Len(s) <= MaxDigits}
<1>1. MaxDigits \in Nat  BY FenAssumption
<1>2. ASSUME NEW s \in Numeral PROVE s \in Digits /\ Len(s) <= MaxDigits
  BY <1>1 DEF Numeral, BoundedSeq, SeqOf, Digits
<1>3. ASSUME NEW s \in Digits, Len(s) <= MaxDigits PROVE s \in Numeral
  <2>1. Len(s) \in 0 .. MaxDigits /\ s \in [1 .. Len(s) -> DOMAIN Digit]
    BY <1>1, <1>3 DEF Digits
  <2> QED BY <2>1 DEF Numeral, BoundedSeq, SeqOf
<1> QED BY <1>2, <1>3

(* Numerals of one number agree from their last digit on.                  *)
LEMMA NumeralsAlign ==
  ASSUME NEW s \in Digits, NEW t \in Digits, NEW f, NEW g,
         IsNumbers(f, s), IsNumbers(g, t), f[Len(s)] = g[Len(t)],
         NEW k \in Nat, k <= Len(s), k <= Len(t)
  PROVE  /\ f[Len(s) - k] = g[Len(t) - k]
         /\ k > 0 => s[Len(s) - k + 1] = t[Len(t) - k + 1]
<1> DEFINE n == Len(s)
           m == Len(t)
           S == {i \in 0 .. k : /\ f[n - i] = g[m - i]
                                /\ i > 0 => s[n - i + 1] = t[m - i + 1]}
<1>1. n \in Nat /\ m \in Nat  BY DEF Digits
<1>2. 0 \in S  BY <1>1
<1>3. ASSUME NEW i \in 0 .. k - 1, i \in S PROVE i + 1 \in S
  <2>1. n - i \in 1 .. n /\ m - i \in 1 .. m /\ i + 1 \in 0 .. k  BY <1>1
  <2>2. /\ f[n - i] = 10 * f[n - i - 1] + Digit[s[n - i]]
        /\ g[m - i] = 10 * g[m - i - 1] + Digit[t[m - i]]
        /\ f[n - i - 1] \in Nat /\ g[m - i - 1] \in Nat
    <3>1. n - i - 1 \in 0 .. n /\ m - i - 1 \in 0 .. m  BY <1>1, <2>1
    <3> HIDE DEF n, m
    <3>2. /\ f[n - i] = 10 * f[n - i - 1] + Digit[s[n - i]]
          /\ g[m - i] = 10 * g[m - i - 1] + Digit[t[m - i]]
      BY <2>1 DEF IsNumbers, n, m
    <3>3. f[n - i - 1] \in Nat /\ g[m - i - 1] \in Nat  BY <3>1 DEF IsNumbers, n, m
    <3> QED BY <3>2, <3>3
  <2>3. s[n - i] \in DOMAIN Digit /\ t[m - i] \in DOMAIN Digit
    BY <2>1 DEF Digits
  <2>4. Digit[s[n - i]] \in 0 .. 9 /\ Digit[t[m - i]] \in 0 .. 9
    BY <2>3, DigitsCount
  <2>5. f[n - i] = g[m - i]  BY <1>3
  <2>6. f[n - i - 1] = g[m - i - 1] /\ Digit[s[n - i]] = Digit[t[m - i]]
    <3> DEFINE x == f[n - i - 1]
               y == g[m - i - 1]
               d == Digit[s[n - i]]
               e == Digit[t[m - i]]
    <3>1. x \in Nat /\ y \in Nat /\ d \in 0 .. 9 /\ e \in 0 .. 9  BY <2>2, <2>4
    <3>2. 10 * x + d = 10 * y + e  BY <2>2, <2>5
    <3> HIDE DEF x, y, d, e
    <3>3. x = y /\ d = e  BY <3>1, <3>2
    <3> QED BY <3>3 DEF x, y, d, e
  <2>7. s[n - i] = t[m - i]  BY <2>3, <2>6, DigitsCount
  <2>8. /\ n - (i + 1) = n - i - 1 /\ m - (i + 1) = m - i - 1
        /\ n - (i + 1) + 1 = n - i /\ m - (i + 1) + 1 = m - i
    BY <1>1
  <2> QED BY <2>1, <2>6, <2>7, <2>8
<1>4. 0 .. k \subseteq S
  <2> HIDE DEF S
  <2> QED BY <1>2, <1>3, BoundedInduction
<1> QED BY <1>4

(* Without leading zeros every prefix counts.                              *)
LEMMA PrefixesCount ==
  ASSUME NEW s \in Digits, NEW f, IsNumbers(f, s), s # <<>>, s[1] # "0",
         NEW k \in 1 .. Len(s)
  PROVE  f[k] >= 1
<1> DEFINE S == {i \in 0 .. Len(s) : i > 0 => f[i] >= 1}
<1>1. Len(s) \in Nat  BY DEF Digits
<1>2. 0 \in S  BY <1>1
<1>3. ASSUME NEW i \in 0 .. Len(s) - 1, i \in S PROVE i + 1 \in S
  <2>1. i + 1 \in 1 .. Len(s) /\ (i + 1) - 1 = i  BY <1>1
  <2>2. s[i + 1] \in DOMAIN Digit  BY <2>1 DEF Digits
  <2>3. Digit[s[i + 1]] \in 0 .. 9 /\ (Digit[s[i + 1]] = 0 => s[i + 1] = "0")
    BY <2>2, DigitsCount
  <2>4. f[i] \in Nat /\ f[i + 1] = 10 * f[i] + Digit[s[i + 1]] /\ f[0] = 0
    BY <2>1 DEF IsNumbers
  <2>5. CASE i = 0  BY <2>1, <2>3, <2>4, <2>5
  <2>6. CASE i > 0
    <3>1. f[i] >= 1  BY <1>3, <2>6
    <3>2. f[i + 1] >= 1  BY <2>3, <2>4, <3>1
    <3> QED BY <2>1, <3>2
  <2> QED BY <2>5, <2>6
<1>4. 0 .. Len(s) \subseteq S
  <2> HIDE DEF S
  <2> QED BY <1>1, <1>2, <1>3, BoundedInduction
<1> QED BY <1>1, <1>4

LEMMA UnsignedDigits ==
  ASSUME NEW s \in Chars
  PROVE  IsUnsigned(s) <=> s \in Digits /\ s # <<>> /\ (s[1] = "0" => Len(s) = 1)
<1>1. s \in Digits <=> ToSet(s) \subseteq DOMAIN Digit  BY DEF Chars, Digits, ToSet
<1> QED BY <1>1 DEF IsUnsigned

(* A number has no shorter numeral than the one that is accepted ...       *)
LEMMA UnsignedIsShortest ==
  ASSUME NEW s \in Digits, NEW t \in Digits, IsUnsigned(s), t # <<>>,
         NumberOf(s) = NumberOf(t)
  PROVE  Len(s) <= Len(t)
<1>1. /\ Len(s) \in Nat /\ Len(t) \in Nat /\ Len(t) > 0
  <2>1. Len(s) \in Nat /\ Len(t) \in Nat \ {0}  BY EmptySeq DEF Digits
  <2> QED BY <2>1
<1>2. PICK f : IsNumbers(f, s) /\ NumberOf(s) = f[Len(s)]  BY Numbers
<1>3. PICK g : IsNumbers(g, t) /\ NumberOf(t) = g[Len(t)]  BY Numbers
<1>4. SUFFICES ASSUME Len(s) > Len(t) PROVE FALSE  BY <1>1
<1>5. f[Len(s) - Len(t)] = g[Len(t) - Len(t)]
  <2>1. f[Len(s)] = g[Len(t)]  BY <1>2, <1>3
  <2>2. Len(t) \in Nat /\ Len(t) <= Len(s) /\ Len(t) <= Len(t)  BY <1>1, <1>4
  <2> QED BY <1>2, <1>3, <2>1, <2>2, NumeralsAlign
<1>6. g[Len(t) - Len(t)] = 0  BY <1>1, <1>3 DEF IsNumbers
<1>7. s # <<>> /\ s[1] # "0"
  <2>1. s # <<>> /\ (s[1] = "0" => Len(s) = 1)  BY DEF IsUnsigned
  <2>2. Len(s) # 1
    <3> DEFINE n == Len(s)
               m == Len(t)
    <3>1. n \in Nat /\ m \in Nat /\ m > 0 /\ n > m  BY <1>1, <1>4
    <3> HIDE DEF n, m
    <3>2. n # 1  BY <3>1
    <3> QED BY <3>2 DEF n
  <2> QED BY <2>1, <2>2
<1>8. Len(s) - Len(t) \in 1 .. Len(s)  BY <1>1, <1>4
<1>9. f[Len(s) - Len(t)] >= 1  BY <1>2, <1>7, <1>8, PrefixesCount
<1> QED BY <1>5, <1>6, <1>9

(* ... and one numeral that is accepted.                                   *)
LEMMA UnsignedIsUnique ==
  ASSUME NEW s \in Digits, NEW t \in Digits, IsUnsigned(s), IsUnsigned(t),
         NumberOf(s) = NumberOf(t)
  PROVE  s = t
<1>1. Len(s) \in Nat /\ Len(t) \in Nat /\ s # <<>> /\ t # <<>>  BY DEF Digits, IsUnsigned
<1>2. Len(s) <= Len(t) /\ Len(t) <= Len(s)  BY <1>1, UnsignedIsShortest
<1>3. Len(s) = Len(t)  BY <1>1, <1>2
<1>4. PICK f : IsNumbers(f, s) /\ NumberOf(s) = f[Len(s)]  BY Numbers
<1>5. PICK g : IsNumbers(g, t) /\ NumberOf(t) = g[Len(t)]  BY Numbers
<1>6. ASSUME NEW i \in 1 .. Len(s) PROVE s[i] = t[i]
  <2> DEFINE k == Len(s) - i + 1
  <2>1. k \in Nat /\ k > 0 /\ k <= Len(s) /\ k <= Len(t)  BY <1>1, <1>3
  <2>2. f[Len(s)] = g[Len(t)]  BY <1>4, <1>5
  <2>3. s[Len(s) - k + 1] = t[Len(t) - k + 1]
    <3> HIDE DEF k
    <3> QED BY <1>4, <1>5, <2>1, <2>2, NumeralsAlign
  <2>4. Len(s) - k + 1 = i  BY <1>1
  <2> QED BY <1>3, <2>3, <2>4
<1> QED BY <1>3, <1>6, SeqEqual DEF Digits

(* A leading zero can be left out.                                         *)
LEMMA LeadingZero ==
  ASSUME NEW s \in Digits, Len(s) > 1, s[1] = "0"
  PROVE  /\ Tail(s) \in Digits \ {<<>>} /\ Len(Tail(s)) = Len(s) - 1
         /\ NumberOf(Tail(s)) = NumberOf(s)
<1> DEFINE t == Tail(s)
<1>1. Len(s) \in Nat /\ s # <<>>  BY DEF Digits
<1>2. /\ t \in Digits /\ Len(t) = Len(s) - 1
      /\ \A i \in 1 .. Len(t) : t[i] = s[i + 1]
  BY <1>1, HeadTailProperties DEF Digits
<1> HIDE DEF t
<1>3. PICK f : IsNumbers(f, s) /\ NumberOf(s) = f[Len(s)]  BY Numbers
<1>4. PICK g : IsNumbers(g, t) /\ NumberOf(t) = g[Len(t)]  BY <1>2, Numbers
<1> DEFINE S == {i \in 0 .. Len(t) : g[i] = f[i + 1]}
<1>5. 0 \in S
  <2>1. Digit[s[1]] = 0  BY <1>1, DigitsCount DEF Digits
  <2>2. f[1] = 10 * f[1 - 1] + Digit[s[1]]  BY <1>1, <1>3 DEF IsNumbers
  <2>3. f[0] = 0 /\ g[0] = 0  BY <1>3, <1>4 DEF IsNumbers
  <2> QED BY <1>1, <1>2, <2>1, <2>2, <2>3
<1>6. ASSUME NEW i \in 0 .. Len(t) - 1, i \in S PROVE i + 1 \in S
  <2>1. /\ i + 1 \in 1 .. Len(t) /\ (i + 1) - 1 = i
        /\ i + 2 \in 1 .. Len(s) /\ (i + 2) - 1 = i + 1 /\ (i + 1) + 1 = i + 2
    BY <1>1, <1>2
  <2>2. g[i + 1] = 10 * g[i] + Digit[t[i + 1]]  BY <1>4, <2>1 DEF IsNumbers
  <2>3. f[i + 2] = 10 * f[i + 1] + Digit[s[i + 2]]  BY <1>3, <2>1 DEF IsNumbers
  <2>4. t[i + 1] = s[i + 2]  BY <1>2, <2>1
  <2> QED BY <1>6, <2>1, <2>2, <2>3, <2>4
<1>7. 0 .. Len(t) \subseteq S
  <2>1. Len(t) \in Nat  BY <1>2 DEF Digits
  <2> HIDE DEF S
  <2> QED BY <2>1, <1>5, <1>6, BoundedInduction
<1>8. g[Len(t)] = f[Len(s)]  BY <1>1, <1>2, <1>7
<1>9. t # <<>>  BY <1>1, <1>2
<1> QED BY <1>2, <1>3, <1>4, <1>8, <1>9 DEF t

(* The expression for numbers accepts what is written in the fewest        *)
(* digits.                                                                 *)
LEMMA NumbersAreChecked ==
  ASSUME NEW s \in Chars, Len(s) <= MaxDigits, NEW least \in Nat
  PROVE  IsUnsigned(s) /\ NumberOf(s) >= least <=> IsNumber(s, least)
<1>1. ASSUME IsUnsigned(s), NumberOf(s) >= least PROVE IsNumber(s, least)
  <2>1. s \in Digits /\ s # <<>>  BY <1>1, UnsignedDigits
  <2>2. ASSUME NEW t \in Numeral \ {<<>>}, NumberOf(t) = NumberOf(s)
        PROVE  Len(s) <= Len(t)
    BY <1>1, <2>1, <2>2, NumeralsAreShort, UnsignedIsShortest
  <2> QED BY <1>1, <2>1, <2>2, NumeralsAreShort DEF IsNumber
<1>2. ASSUME IsNumber(s, least) PROVE IsUnsigned(s) /\ NumberOf(s) >= least
  <2>1. s \in Digits /\ s # <<>> /\ NumberOf(s) >= least /\ Len(s) \in Nat
    BY <1>2, NumeralsAreShort DEF IsNumber, Digits
  <2>2. SUFFICES ASSUME s[1] = "0", Len(s) # 1 PROVE FALSE
    BY <2>1, UnsignedDigits
  <2>3. Len(s) > 1
    <3>1. Len(s) \in Nat \ {0}  BY <2>1, EmptySeq DEF Digits
    <3> DEFINE n == Len(s)
    <3>2. n \in Nat \ {0} /\ n # 1  BY <2>2, <3>1
    <3> HIDE DEF n
    <3>3. n > 1  BY <3>2
    <3> QED BY <3>3 DEF n
  <2>4. /\ Tail(s) \in Digits \ {<<>>} /\ Len(Tail(s)) = Len(s) - 1
        /\ NumberOf(Tail(s)) = NumberOf(s)
    BY <2>1, <2>2, <2>3, LeadingZero
  <2>5. Tail(s) \in Numeral \ {<<>>}
    BY <2>1, <2>4, NumeralsAreShort, FenAssumption
  <2>6. Len(s) <= Len(Tail(s))  BY <1>2, <2>4, <2>5 DEF IsNumber
  <2> QED BY <2>1, <2>4, <2>6
<1> QED BY <1>1, <1>2

(* What is accepted as a number is spelled as it was written.              *)
LEMMA SpelledNumbers ==
  ASSUME NEW s \in Chars, IsUnsigned(s), Len(s) <= MaxDigits
  PROVE  SpellNumber(NumberOf(s)) = s
<1> DEFINE Spells(t) ==
      t \in Numeral /\ t # <<>> /\ NumberOf(t) = NumberOf(s) /\ (t[1] = "0" => Len(t) = 1)
           p == SpellNumber(NumberOf(s))
<1>1. s \in Digits /\ Spells(s)  BY UnsignedDigits, NumeralsAreShort
<1>2. Spells(p)  BY <1>1 DEF SpellNumber
<1> HIDE DEF p
<1>3. p \in Digits  BY <1>2, NumeralsAreShort
<1>4. IsUnsigned(p)  BY <1>2, <1>3 DEF IsUnsigned, Digits, ToSet
<1>5. p = s  BY <1>1, <1>2, <1>3, <1>4, UnsignedIsUnique
<1> QED BY <1>5 DEF p
-----------------------------------------------------------------------------
(* The castling and en-passant fields.                                     *)

LEMMA KPermutations ==
  ASSUME NEW S, IsFiniteSet(S), NEW s
  PROVE  s \in SetToAllKPermutations(S) <=> s \in Seq(S) /\ IsInjective(s)
<1>1. ASSUME NEW R \in SUBSET S, s \in SetToSeqs(R)
      PROVE  s \in Seq(S) /\ IsInjective(s)
  <2>1. Cardinality(R) \in Nat  BY FS_Subset, FS_CardinalityType
  <2>2. /\ s \in [1 .. Cardinality(R) -> R]
        /\ \A i, j \in 1 .. Cardinality(R) : i # j => s[i] # s[j]
    BY <1>1 DEF SetToSeqs
  <2>3. IsInjective(s)  BY <2>2 DEF IsInjective
  <2>4. s \in Seq(R)  BY <2>1, <2>2
  <2> QED BY <2>3, <2>4, SeqMonotonic
<1>2. ASSUME s \in Seq(S), IsInjective(s)
      PROVE  \E R \in SUBSET S : s \in SetToSeqs(R)
  <2> DEFINE R == ToSet(s)
             n == Len(s)
  <2>1. n \in Nat /\ s \in [1 .. n -> S] /\ DOMAIN s = 1 .. n
    BY <1>2, LenProperties
  <2>2. R \in SUBSET S /\ s \in [1 .. n -> R]  BY <2>1 DEF ToSet
  <2>3. s \in Injection(1 .. n, R)  BY <1>2, <2>2 DEF Injection
  <2>4. s \in Surjection(1 .. n, R)  BY <2>1, <2>2 DEF Surjection, ToSet
  <2>5. IsFiniteSet(1 .. n) /\ Cardinality(1 .. n) = n
    BY <2>1, FS_Interval
  <2>6. Cardinality(R) = n  BY <2>3, <2>4, <2>5, FS_Surjection
  <2>7. \A i, j \in 1 .. n : i # j => s[i] # s[j]  BY <1>2, <2>1 DEF IsInjective
  <2>8. s \in SetToSeqs(R)  BY <2>2, <2>6, <2>7 DEF SetToSeqs
  <2> QED BY <2>2, <2>8
<1>3. s \in SetToAllKPermutations(S) <=> \E R \in SUBSET S : s \in SetToSeqs(R)
  BY DEF SetToAllKPermutations
<1>4. ASSUME s \in SetToAllKPermutations(S) PROVE s \in Seq(S) /\ IsInjective(s)
  <2>1. PICK R \in SUBSET S : s \in SetToSeqs(R)  BY <1>3, <1>4
  <2> QED BY <1>1, <2>1
<1> QED BY <1>2, <1>3, <1>4

Sides == White \cup Black

LEMMA Letters == /\ IsFiniteSet(White) /\ IsFiniteSet(Black) /\ White \cap Black = {}
                 /\ "-" \notin Sides /\ Sides \subseteq Char
<1>1. IsFiniteSet({"K"}) /\ IsFiniteSet({"k"})  BY FS_Singleton
<1>2. IsFiniteSet({"K"} \cup {"Q"}) /\ IsFiniteSet({"k"} \cup {"q"})
  BY <1>1, FS_AddElement
<1>3. White = {"K"} \cup {"Q"} /\ Black = {"k"} \cup {"q"}  BY DEF White, Black
<1>4. White \cap Black = {}  BY DEF White, Black
<1>5. "-" \notin Sides  BY DEF White, Black, Sides
<1>6. Sides \subseteq Char  BY FenAssumption DEF White, Black, Sides
<1>7. IsFiniteSet(White) /\ IsFiniteSet(Black)  BY <1>2, <1>3
<1> QED BY <1>4, <1>5, <1>6, <1>7

WhiteIsFirst(f) == \A i, j \in DOMAIN f : f[i] \notin White /\ f[j] \in White => j < i

(* The letters of one side, then those of the other.                       *)
LEMMA JoinedSides ==
  ASSUME NEW w \in Seq(White), NEW b \in Seq(Black), IsInjective(w), IsInjective(b)
  PROVE  LET f == w \o b
         IN  /\ f \in Chars /\ IsInjective(f) /\ WhiteIsFirst(f)
             /\ ToSet(f) = ToSet(w) \cup ToSet(b) /\ ToSet(f) \subseteq Sides
<1> DEFINE f == w \o b
           n == Len(w)
           m == Len(b)
<1>1. n \in Nat /\ m \in Nat /\ DOMAIN w = 1 .. n /\ DOMAIN b = 1 .. m
  BY LenProperties
<1>2. w \in Seq(Sides) /\ b \in Seq(Sides)  BY SeqMonotonic DEF Sides
<1>3. /\ f \in Seq(Sides) /\ Len(f) = n + m /\ DOMAIN f = 1 .. n + m
      /\ \A i \in 1 .. n + m : f[i] = IF i <= n THEN w[i] ELSE b[i - n]
  BY <1>2, ConcatProperties, LenProperties
<1>4. /\ \A i \in 1 .. n : w[i] \in White /\ w[i] \notin Black
      /\ \A i \in 1 .. m : b[i] \in Black /\ b[i] \notin White
  BY Letters, ElementOfSeq
<1> HIDE DEF f, n, m
<1>5. \A i \in 1 .. n + m : i <= n \/ i - n \in 1 .. m  BY <1>1
<1>6. IsInjective(f)
  <2>1. SUFFICES ASSUME NEW i \in 1 .. n + m, NEW j \in 1 .. n + m, f[i] = f[j]
                 PROVE  i = j
    BY <1>3 DEF IsInjective
  <2>2. CASE i <= n /\ j <= n  BY <1>1, <1>3, <2>1, <2>2 DEF IsInjective
  <2>3. CASE i <= n /\ ~(j <= n)
    BY <1>1, <1>3, <1>4, <1>5, <2>1, <2>3
  <2>4. CASE ~(i <= n) /\ j <= n
    BY <1>1, <1>3, <1>4, <1>5, <2>1, <2>4
  <2>5. CASE ~(i <= n) /\ ~(j <= n)
    <3>1. f[i] = b[i - n] /\ f[j] = b[j - n]  BY <1>3, <2>5
    <3>2. i - n \in 1 .. m /\ j - n \in 1 .. m  BY <1>5, <2>5
    <3>3. i - n = j - n  BY <1>1, <2>1, <3>1, <3>2 DEF IsInjective
    <3> QED BY <1>1, <3>3
  <2> QED BY <2>2, <2>3, <2>4, <2>5
<1>7. WhiteIsFirst(f)  BY <1>1, <1>3, <1>4, <1>5 DEF WhiteIsFirst
<1>8. ToSet(f) = ToSet(w) \cup ToSet(b)
  <2>1. ToSet(f) \subseteq ToSet(w) \cup ToSet(b)
    <3>1. SUFFICES ASSUME NEW i \in 1 .. n + m PROVE f[i] \in ToSet(w) \cup ToSet(b)
      BY <1>3 DEF ToSet
    <3>2. CASE i <= n
      <4>1. f[i] = w[i] /\ i \in DOMAIN w  BY <1>1, <1>3, <3>2
      <4> QED BY <4>1 DEF ToSet
    <3>3. CASE ~(i <= n)  BY <1>1, <1>3, <1>5, <3>3 DEF ToSet
    <3> QED BY <3>2, <3>3
  <2>2. ASSUME NEW i \in 1 .. n PROVE w[i] \in ToSet(f)
    <3>1. i \in 1 .. n + m /\ f[i] = w[i]  BY <1>1, <1>3
    <3> QED BY <1>3, <3>1 DEF ToSet
  <2>3. ASSUME NEW i \in 1 .. m PROVE b[i] \in ToSet(f)
    <3>1. n + i \in 1 .. n + m /\ ~(n + i <= n) /\ (n + i) - n = i  BY <1>1
    <3>2. f[n + i] = b[i]  BY <1>3, <3>1
    <3> QED BY <1>3, <3>1, <3>2 DEF ToSet
  <2> QED BY <1>1, <2>1, <2>2, <2>3 DEF ToSet
<1>9. f \in Chars /\ ToSet(f) \subseteq Sides
  <2>1. f \in Chars  BY <1>3, Letters, SeqMonotonic DEF Chars
  <2>2. \A i \in 1 .. n + m : f[i] \in Sides  BY <1>3, ElementOfSeq
  <2> QED BY <1>3, <2>1, <2>2 DEF ToSet
<1> QED BY <1>6, <1>7, <1>8, <1>9 DEF f

(* The checks of the code and of python-chess accept the letters of White  *)
(* before those of Black, each once.                                       *)
LEMMA CastlingIsChecked ==
  ASSUME NEW f \in Chars
  PROVE  CastlingIsWritten(f) /\ WhiteIsFirst(f) <=>
           \E w \in SetToAllKPermutations(White), b \in SetToAllKPermutations(Black) :
             f = w \o b /\ f # <<>>
<1>1. ASSUME NEW w \in SetToAllKPermutations(White),
             NEW b \in SetToAllKPermutations(Black), f = w \o b, f # <<>>
      PROVE  CastlingIsWritten(f) /\ WhiteIsFirst(f)
  <2>1. /\ w \in Seq(White) /\ IsInjective(w)
        /\ b \in Seq(Black) /\ IsInjective(b)
    <3>1. IsFiniteSet(White) /\ IsFiniteSet(Black)  BY Letters
    <3>2. w \in Seq(White) /\ IsInjective(w)  BY <3>1, KPermutations
    <3>3. b \in Seq(Black) /\ IsInjective(b)  BY <3>1, KPermutations
    <3> QED BY <3>2, <3>3
  <2> QED BY <1>1, <2>1, JoinedSides DEF CastlingIsWritten, Sides
<1>2. ASSUME CastlingIsWritten(f), WhiteIsFirst(f)
      PROVE  \E w \in SetToAllKPermutations(White), b \in SetToAllKPermutations(Black) :
               f = w \o b /\ f # <<>>
  <2> DEFINE n == Len(f)
  <2>1. n \in Nat /\ DOMAIN f = 1 .. n  BY LenProperties DEF Chars
  <2>2. \A i \in 1 .. n : f[i] \in White \/ f[i] \in Black
    BY <1>2, <2>1 DEF CastlingIsWritten, ToSet
  <2>3. PICK k \in 0 .. n : /\ \A i \in 1 .. k : f[i] \in White
                            /\ \A i \in k + 1 .. n : f[i] \in Black
    <3> DEFINE S == {i \in 1 .. n : f[i] \notin White}
    <3>1. CASE S = {}
      <4>1. \A i \in 1 .. n : f[i] \in White  BY <3>1
      <4>2. n \in 0 .. n /\ \A i \in n + 1 .. n : f[i] \in Black  BY <2>1
      <4> QED BY <4>1, <4>2
    <3>2. CASE S # {}
      <4>1. PICK i \in S : \A j \in S : i <= j
        <5>1. S \in SUBSET Nat  BY <2>1
        <5> HIDE DEF S
        <5> QED BY <3>2, <5>1, LeastNumber
      <4>2. i \in 1 .. n /\ i - 1 \in 0 .. n /\ (i - 1) + 1 = i  BY <2>1, <4>1
      <4>3. \A j \in 1 .. i - 1 : f[j] \in White  BY <2>1, <4>1, <4>2
      <4>4. \A j \in i .. n : f[j] \in Black
        BY <1>2, <2>1, <2>2, <4>1, <4>2 DEF WhiteIsFirst
      <4> QED BY <4>2, <4>3, <4>4
    <3> QED BY <3>1, <3>2
  <2> DEFINE w == SubSeq(f, 1, k)
             b == SubSeq(f, k + 1, n)
  <2>4. /\ w \in Seq(White) /\ Len(w) = k
        /\ \A i \in 1 .. k : w[i] = f[i]
    <3>1. 1 \in Int /\ k \in Int  OBVIOUS
    <3> QED BY <2>3, <3>1, SubSeqProperties
  <2>5. /\ b \in Seq(Black) /\ Len(b) = n - k
        /\ \A i \in 1 .. n - k : b[i] = f[k + i]
    <3>1. k + 1 \in Int /\ n \in Int  BY <2>1
    <3> HIDE DEF n
    <3> QED BY <2>1, <2>3, <3>1, SubSeqProperties
  <2>6. f = w \o b
    <3>1. f \in Seq(Char)  BY DEF Chars
    <3>2. 1 \in 1 .. n + 1 /\ k \in 1 - 1 .. n /\ n \in k .. n  BY <2>1
    <3>3. w \o b = SubSeq(f, 1, n)  BY <3>1, <3>2, ConcatAdjacentSubSeq
    <3> QED BY <3>1, <3>3, SubSeqFull
  <2>7. IsInjective(w)
    <3>1. DOMAIN w = 1 .. k  BY <2>4, LenProperties
    <3>2. \A i, j \in 1 .. n : f[i] = f[j] => i = j
      BY <1>2, <2>1 DEF CastlingIsWritten, IsInjective
    <3> HIDE DEF w
    <3> QED BY <2>1, <2>4, <3>1, <3>2 DEF IsInjective
  <2>8. IsInjective(b)
    <3>1. DOMAIN b = 1 .. n - k  BY <2>5, LenProperties
    <3>2. \A i, j \in 1 .. n : f[i] = f[j] => i = j
      BY <1>2, <2>1 DEF CastlingIsWritten, IsInjective
    <3>3. ASSUME NEW i \in 1 .. n - k, NEW j \in 1 .. n - k, b[i] = b[j] PROVE i = j
      <4>1. k + i \in 1 .. n /\ k + j \in 1 .. n  BY <2>1
      <4>2. f[k + i] = f[k + j]  BY <2>5, <3>3
      <4>3. k + i = k + j  BY <3>2, <4>1, <4>2
      <4> QED BY <2>1, <4>3
    <3> HIDE DEF b
    <3> QED BY <3>1, <3>3 DEF IsInjective
  <2>9. w \in SetToAllKPermutations(White) /\ b \in SetToAllKPermutations(Black)
    <3>1. IsFiniteSet(White) /\ IsFiniteSet(Black)  BY Letters
    <3> HIDE DEF w, b
    <3>2. w \in SetToAllKPermutations(White)  BY <2>4, <2>7, <3>1, KPermutations
    <3>3. b \in SetToAllKPermutations(Black)  BY <2>5, <2>8, <3>1, KPermutations
    <3> QED BY <3>2, <3>3
  <2> HIDE DEF w, b
  <2> QED BY <1>2, <2>6, <2>9 DEF CastlingIsWritten
<1> QED BY <1>1, <1>2

(* Up to two letters in their order.                                       *)
Side(a, b, R) == (IF a \in R THEN <<a>> ELSE <<>>) \o (IF b \in R THEN <<b>> ELSE <<>>)

LEMMA TwoLetters ==
  ASSUME NEW a, NEW b, a # b, NEW R
  PROVE  /\ Side(a, b, R) \in Seq({a, b}) /\ IsInjective(Side(a, b, R))
         /\ ToSet(Side(a, b, R)) = R \cap {a, b}
<1> DEFINE w == Side(a, b, R)
           Is(s) == s \in Seq({a, b}) /\ IsInjective(s) /\ ToSet(s) = R \cap {a, b}
<1>1. CASE a \in R /\ b \in R
  <2>1. w = <<a>> \o <<b>>  BY <1>1 DEF Side
  <2>3. <<a>> \o <<b>> = <<a, b>>
    <3>1. <<a>> \in Seq({a, b}) /\ <<b>> \in Seq({a, b}) /\ <<a, b>> \in Seq({a, b})
      OBVIOUS
    <3>2. Len(<<a>>) = 1 /\ Len(<<b>>) = 1 /\ Len(<<a, b>>) = 2  OBVIOUS
    <3> DEFINE t == <<a>> \o <<b>>
    <3>3. /\ t \in Seq({a, b}) /\ Len(t) = 2
          /\ \A i \in 1 .. 2 : t[i] = IF i <= 1 THEN <<a>>[i] ELSE <<b>>[i - 1]
      BY <3>1, <3>2, ConcatProperties
    <3>4. t[1] = <<a, b>>[1] /\ t[2] = <<a, b>>[2]
      <4> HIDE DEF t
      <4>1. t[1] = <<a>>[1] /\ t[2] = <<b>>[1]  BY <3>3
      <4> QED BY <4>1
    <3>5. \A i \in 1 .. 2 : t[i] = <<a, b>>[i]
      <4> HIDE DEF t
      <4> QED BY <3>4
    <3> HIDE DEF t
    <3>6. t = <<a, b>>  BY <3>1, <3>2, <3>3, <3>5, SeqEqual
    <3> QED BY <3>6 DEF t
  <2>2. Is(<<a, b>>)  BY <1>1 DEF IsInjective, ToSet
  <2> QED BY <2>1, <2>2, <2>3
<1>2. CASE a \in R /\ b \notin R
  <2>1. w = <<a>>  BY <1>2 DEF Side
  <2>2. Is(<<a>>)  BY <1>2 DEF IsInjective, ToSet
  <2> QED BY <2>1, <2>2
<1>3. CASE a \notin R /\ b \in R
  <2>1. w = <<b>>  BY <1>3 DEF Side
  <2>2. Is(<<b>>)  BY <1>3 DEF IsInjective, ToSet
  <2> QED BY <2>1, <2>2
<1>4. CASE a \notin R /\ b \notin R
  <2>1. w = <<>>  BY <1>4 DEF Side
  <2>2. Is(<<>>)  BY <1>4 DEF IsInjective, ToSet
  <2> QED BY <2>1, <2>2
<1> QED BY <1>1, <1>2, <1>3, <1>4

CastlingIsOK(f) == IsNone(f) \/ (CastlingIsWritten(f) /\ WhiteIsFirst(f))

(* Rights are spelled as a field that is accepted and gives them.          *)
LEMMA SpelledCastling ==
  ASSUME NEW R \in SUBSET Sides
  PROVE  LET f == SpellCastling(R)
         IN  f \in Chars /\ CastlingIsOK(f) /\ RightsOf(f) = R
<1> DEFINE w == Side("K", "Q", R)
           b == Side("k", "q", R)
<1>1. CASE R = {}
  <2>1. SpellCastling(R) = <<"-">>  BY <1>1 DEF SpellCastling
  <2>2. <<"-">> \in Chars  BY FenAssumption DEF Chars
  <2> QED BY <1>1, <2>1, <2>2 DEF CastlingIsOK, IsNone, RightsOf
<1>2. CASE R # {}
  <2>1. SpellCastling(R) = w \o b  BY <1>2 DEF SpellCastling, Side
  <2>2. w \in Seq(White) /\ IsInjective(w) /\ ToSet(w) = R \cap White
    <3>1. "K" # "Q"  OBVIOUS
    <3> QED BY <3>1, TwoLetters DEF White
  <2>3. b \in Seq(Black) /\ IsInjective(b) /\ ToSet(b) = R \cap Black
    <3>1. "k" # "q"  OBVIOUS
    <3> QED BY <3>1, TwoLetters DEF Black
  <2> DEFINE f == SpellCastling(R)
  <2> HIDE DEF w, b
  <2>4. /\ f \in Chars /\ IsInjective(f) /\ WhiteIsFirst(f)
        /\ ToSet(f) = ToSet(w) \cup ToSet(b) /\ ToSet(f) \subseteq Sides
    BY <2>1, <2>2, <2>3, JoinedSides
  <2> HIDE DEF f
  <2>5. ToSet(f) = R  BY <2>2, <2>3, <2>4 DEF Sides
  <2>6. f # <<>>  BY <1>2, <2>5 DEF ToSet
  <2>7. ~IsNone(f)
    <3>1. ToSet(<<"-">>) = {"-"}  BY DEF ToSet
    <3> QED BY <2>5, <3>1, Letters DEF IsNone
  <2>8. f \in Chars /\ CastlingIsOK(f) /\ RightsOf(f) = R
    BY <2>4, <2>5, <2>6, <2>7 DEF CastlingIsOK, CastlingIsWritten, Sides, RightsOf
  <2> QED BY <2>8 DEF f
<1> QED BY <1>1, <1>2

LEMMA RightsAreLetters ==
  ASSUME NEW f, CastlingIsOK(f)
  PROVE  RightsOf(f) \in SUBSET Sides
BY DEF CastlingIsOK, CastlingIsWritten, RightsOf, Sides

LEMMA EnPassantIsChecked ==
  ASSUME NEW f \in Chars, NEW turn
  PROVE  turn \in {"w", "b"} /\ ValidateEnPassant(f, turn) <=>
           \/ turn = "w" /\ f \in {<<"-">>} \cup (File \X {"6"})
           \/ turn = "b" /\ f \in {<<"-">>} \cup (File \X {"3"})
<1>1. \A x : f \in File \X {x} <=> Len(f) = 2 /\ f[1] \in File /\ f[2] = x
  <2> TAKE x
  <2>1. ASSUME f \in File \X {x} PROVE Len(f) = 2 /\ f[1] \in File /\ f[2] = x
    <3>1. PICK c \in File : f = <<c, x>>  BY <2>1
    <3> QED BY <3>1
  <2>2. ASSUME Len(f) = 2, f[1] \in File, f[2] = x PROVE f \in File \X {x}
    <3>1. f = <<f[1], f[2]>>  BY <2>2 DEF Chars
    <3> QED BY <2>2, <3>1
  <2> QED BY <2>1, <2>2
<1>2. ValidateEnPassant(f, "w") <=> f \in {<<"-">>} \cup (File \X {"6"})
  BY <1>1 DEF ValidateEnPassant, IsNone
<1>3. ValidateEnPassant(f, "b") <=> f \in {<<"-">>} \cup (File \X {"3"})
  BY <1>1 DEF ValidateEnPassant, IsNone
<1> QED BY <1>2, <1>3
-----------------------------------------------------------------------------
(* The texts.                                                              *)

(* A text with clocks that fit in MAX_FEN_LENGTH, if it does.              *)
Fits(t) == t \in Text /\ (t.long \/ (Len(t.half) <= MaxDigits /\ Len(t.full) <= MaxDigits))

LEMMA TextFields ==
  ASSUME NEW t \in Text
  PROVE  /\ t.ranks \in Seq(Chars) /\ t.castling \in Chars /\ t.ep \in Chars
         /\ t.half \in Chars /\ t.full \in Chars
BY DEF Text

LEMMA PlacementIsChecked ==
  ASSUME NEW ranks \in Seq(Chars)
  PROVE  ValidatePlacement(ranks) /\ (\A r \in ToSet(ranks) : ~Runs(r)) <=>
           Len(ranks) = Size /\ \A i \in DOMAIN ranks : IsRank(ranks[i])
<1>1. \A i \in DOMAIN ranks : ranks[i] \in Chars /\ ranks[i] \in ToSet(ranks)
  BY LenProperties DEF ToSet
<1>2. \A i \in DOMAIN ranks : RankWidth(ranks[i]) = Size /\ ~Runs(ranks[i]) <=> IsRank(ranks[i])
  BY <1>1, RanksAreChecked
<1>3. \A r \in ToSet(ranks) : \E i \in DOMAIN ranks : r = ranks[i]  BY DEF ToSet
<1> QED BY <1>1, <1>2, <1>3 DEF ValidatePlacement

(* normalize_fen accepts the FENs of valid positions, whatever the size of *)
(* the board, its pieces and digits, and the length of a text.             *)
THEOREM AcceptsTheFens ==
  ASSUME NEW t, Fits(t)
  PROVE  Accepts(t) <=> IsFen(t)
<1>1. /\ t.ranks \in Seq(Chars) /\ t.castling \in Chars /\ t.ep \in Chars
      /\ t.half \in Chars /\ t.full \in Chars
  BY TextFields DEF Fits
<1>2. CASE t.long  BY <1>2 DEF Accepts, IsFen
<1>3. CASE ~t.long
  <2>1. Len(t.half) <= MaxDigits /\ Len(t.full) <= MaxDigits  BY <1>3 DEF Fits
  <2>2. IsUnsigned(t.half) <=> IsNumber(t.half, 0)
    <3>1. IsUnsigned(t.half) => NumberOf(t.half) >= 0
      <4>1. SUFFICES ASSUME IsUnsigned(t.half) PROVE NumberOf(t.half) >= 0  OBVIOUS
      <4>2. t.half \in Digits  BY <1>1, <4>1, UnsignedDigits
      <4>3. PICK f : IsNumbers(f, t.half) /\ NumberOf(t.half) = f[Len(t.half)]
        BY <4>2, Numbers
      <4> QED BY <4>2, <4>3 DEF IsNumbers, Digits
    <3> QED BY <1>1, <2>1, <3>1, NumbersAreChecked
  <2>3. IsUnsigned(t.full) /\ NumberOf(t.full) >= 1 <=> IsNumber(t.full, 1)
    BY <1>1, <2>1, NumbersAreChecked
  <2>4. ValidatePlacement(t.ranks) /\ (\A r \in ToSet(t.ranks) : ~Runs(r)) <=>
          Len(t.ranks) = Size /\ \A i \in DOMAIN t.ranks : IsRank(t.ranks[i])
    BY <1>1, PlacementIsChecked
  <2>5. t.turn \in {"w", "b"} /\ ValidateEnPassant(t.ep, t.turn) <=>
           \/ t.turn = "w" /\ t.ep \in {<<"-">>} \cup (File \X {"6"})
           \/ t.turn = "b" /\ t.ep \in {<<"-">>} \cup (File \X {"3"})
    BY <1>1, EnPassantIsChecked
  <2>6. CastlingIsWritten(t.castling) /\ WhiteIsFirst(t.castling) <=>
           \E white \in SetToAllKPermutations(White), black \in SetToAllKPermutations(Black) :
             t.castling = white \o black /\ t.castling # <<>>
    BY <1>1, CastlingIsChecked
  <2>7. Accepts(t) <=>
          /\ t.count = 6
          /\ ValidatePlacement(t.ranks) /\ (\A r \in ToSet(t.ranks) : ~Runs(r))
          /\ t.turn \in {"w", "b"} /\ ValidateEnPassant(t.ep, t.turn)
          /\ IsNone(t.castling) \/ (CastlingIsWritten(t.castling) /\ WhiteIsFirst(t.castling))
          /\ IsUnsigned(t.half)
          /\ IsUnsigned(t.full) /\ NumberOf(t.full) >= 1
    BY <1>3 DEF Accepts, ValidateFields, Parses, WhiteIsFirst
  <2>8. IsFen(t) <=>
          /\ t.count = 6
          /\ Len(t.ranks) = Size /\ \A i \in DOMAIN t.ranks : IsRank(t.ranks[i])
          /\ \/ t.turn = "w" /\ t.ep \in {<<"-">>} \cup (File \X {"6"})
             \/ t.turn = "b" /\ t.ep \in {<<"-">>} \cup (File \X {"3"})
          /\ \/ IsNone(t.castling)
             \/ \E white \in SetToAllKPermutations(White), black \in SetToAllKPermutations(Black) :
                  t.castling = white \o black /\ t.castling # <<>>
          /\ IsNumber(t.half, 0) /\ IsNumber(t.full, 1)
    BY <1>3 DEF IsFen, IsNone
  <2> QED BY <2>2, <2>3, <2>4, <2>5, <2>6, <2>7, <2>8
<1> QED BY <1>2, <1>3 DEF Fits, Text
-----------------------------------------------------------------------------
(* What is stored.                                                         *)

LEMMA NormalisedFields ==
  ASSUME NEW t
  PROVE  Normalised(t) =
           [count |-> 6, long |-> FALSE,
            ranks |-> [i \in DOMAIN t.ranks |-> SpellRank(Squares(t.ranks[i]))],
            turn |-> t.turn, castling |-> SpellCastling(RightsOf(t.castling)), ep |-> t.ep,
            half |-> SpellNumber(NumberOf(t.half)), full |-> SpellNumber(NumberOf(t.full))]
BY DEF Normalised, BoardFen

(* Texts that say the same are stored alike.                               *)
LEMMA SameMeaning ==
  ASSUME NEW t, NEW u, Meaning(t) = Meaning(u)
  PROVE  Normalised(t) = Normalised(u)
<1>1. /\ Meaning(t).squares = Meaning(u).squares /\ Meaning(t).turn = Meaning(u).turn
      /\ Meaning(t).rights = Meaning(u).rights /\ Meaning(t).ep = Meaning(u).ep
      /\ Meaning(t).half = Meaning(u).half /\ Meaning(t).full = Meaning(u).full
  OBVIOUS
<1>2. /\ [i \in DOMAIN t.ranks |-> Squares(t.ranks[i])]
           = [i \in DOMAIN u.ranks |-> Squares(u.ranks[i])]
      /\ t.turn = u.turn /\ RightsOf(t.castling) = RightsOf(u.castling) /\ t.ep = u.ep
      /\ NumberOf(t.half) = NumberOf(u.half) /\ NumberOf(t.full) = NumberOf(u.full)
  BY <1>1 DEF Meaning
<1>3. /\ DOMAIN t.ranks = DOMAIN u.ranks
      /\ \A i \in DOMAIN t.ranks : Squares(t.ranks[i]) = Squares(u.ranks[i])
  BY <1>2
<1>4. [i \in DOMAIN t.ranks |-> SpellRank(Squares(t.ranks[i]))]
        = [i \in DOMAIN u.ranks |-> SpellRank(Squares(u.ranks[i]))]
  BY <1>3
<1> QED BY <1>2, <1>4, NormalisedFields

(* What is stored for a text that is accepted says the same as the text,   *)
(* and is accepted and stored as it is.                                    *)
THEOREM NormalForm ==
  ASSUME NEW t, Fits(t), Accepts(t)
  PROVE  LET n == Normalised(t)
         IN  Fits(n) /\ Accepts(n) /\ Meaning(n) = Meaning(t) /\ Normalised(n) = n
<1> DEFINE n == Normalised(t)
           ranks == [i \in DOMAIN t.ranks |-> SpellRank(Squares(t.ranks[i]))]
           castling == SpellCastling(RightsOf(t.castling))
<1>1. /\ t.ranks \in Seq(Chars) /\ t.castling \in Chars /\ t.ep \in Chars
      /\ t.half \in Chars /\ t.full \in Chars /\ t.turn \in STRING
  BY DEF Fits, Text
<1>2. ~t.long /\ Len(t.half) <= MaxDigits /\ Len(t.full) <= MaxDigits
  BY DEF Accepts, Fits
<1>3. /\ t.count = 6 /\ ValidatePlacement(t.ranks) /\ (\A r \in ToSet(t.ranks) : ~Runs(r))
      /\ t.turn \in {"w", "b"} /\ CastlingIsOK(t.castling)
      /\ ValidateEnPassant(t.ep, t.turn)
      /\ IsUnsigned(t.half) /\ IsUnsigned(t.full) /\ NumberOf(t.full) >= 1
  BY DEF Accepts, ValidateFields, Parses, CastlingIsOK, WhiteIsFirst
<1>4. SpellNumber(NumberOf(t.half)) = t.half /\ SpellNumber(NumberOf(t.full)) = t.full
  BY <1>1, <1>2, <1>3, SpelledNumbers
<1>5. castling \in Chars /\ CastlingIsOK(castling) /\ RightsOf(castling) = RightsOf(t.castling)
  BY <1>3, RightsAreLetters, SpelledCastling
<1>6. Len(t.ranks) = Size /\ \A i \in DOMAIN t.ranks : IsRank(t.ranks[i])
  BY <1>1, <1>3, PlacementIsChecked
<1>7. DOMAIN t.ranks = 1 .. Size /\ \A i \in 1 .. Size : t.ranks[i] \in Chars
  BY <1>1, <1>6, LenProperties, ElementOfSeq
<1>8. \A i \in 1 .. Size : /\ ranks[i] \in Chars /\ IsRank(ranks[i])
                           /\ Squares(ranks[i]) = Squares(t.ranks[i])
  BY <1>6, <1>7, SpelledRanks
<1>9. ranks \in Seq(Chars) /\ Len(ranks) = Size /\ DOMAIN ranks = 1 .. Size
  BY <1>7, <1>8, FenAssumption
<1>10. n = [count |-> 6, long |-> FALSE, ranks |-> ranks, turn |-> t.turn,
            castling |-> castling, ep |-> t.ep, half |-> t.half, full |-> t.full]
  BY <1>4, NormalisedFields
<1>11. [i \in 1 .. Size |-> Squares(ranks[i])] = [i \in 1 .. Size |-> Squares(t.ranks[i])]
  BY <1>8
<1> HIDE DEF ranks, castling, n
<1>12. ValidatePlacement(ranks) /\ \A r \in ToSet(ranks) : ~Runs(r)
  BY <1>8, <1>9, PlacementIsChecked
<1>13. Fits(n)  BY <1>1, <1>2, <1>5, <1>9, <1>10 DEF Fits, Text
<1>14. Accepts(n)
  BY <1>3, <1>5, <1>10, <1>12 DEF Accepts, ValidateFields, Parses, CastlingIsOK, WhiteIsFirst
<1>15. Meaning(n) = Meaning(t)
  BY <1>5, <1>7, <1>9, <1>10, <1>11 DEF Meaning
<1>16. Normalised(n) = n  BY <1>15, SameMeaning DEF n
<1> QED BY <1>13, <1>14, <1>15, <1>16 DEF n
-----------------------------------------------------------------------------
(* The requests.                                                           *)

(* The inductive invariant: a stored text is in its normal form, and is    *)
(* what the next request, if there is one, submits.                        *)
FenIInv ==
  /\ Fits(text) /\ valid \in BOOLEAN /\ outcome \in {"none", "accepted", "refused"}
  /\ stored # <<>> => /\ Fits(stored) /\ valid
                      /\ Accepts(stored) /\ Normalised(stored) = stored
  /\ outcome = "none" => stored \in {<<>>, text}
  /\ outcome = "accepted" => valid /\ Accepts(text) /\ stored = Normalised(text)
  /\ outcome = "refused" => ~(valid /\ Accepts(text)) /\ stored = <<>>

LEMMA FenInitial == FenInit => FenIInv
BY FenAssumption DEF FenInit, FenIInv, Fits

LEMMA SubmitPreserves == FenIInv /\ Submit => FenIInv'
<1> SUFFICES ASSUME FenIInv, Submit PROVE FenIInv'  OBVIOUS
<1>1. text' = text /\ valid' = valid /\ outcome = "none"  BY DEF Submit
<1>2. CASE Accepts(text) /\ valid
  <2>1. outcome' = "accepted" /\ stored' = Normalised(text)  BY <1>2 DEF Submit
  <2>2. /\ Fits(Normalised(text)) /\ Accepts(Normalised(text))
        /\ Normalised(Normalised(text)) = Normalised(text)
    BY <1>2, NormalForm DEF FenIInv
  <2> QED BY <1>1, <1>2, <2>1, <2>2 DEF FenIInv
<1>3. CASE ~(Accepts(text) /\ valid)
  <2>1. outcome' = "refused" /\ stored' = stored  BY <1>3 DEF Submit
  <2>2. stored = <<>>  BY <1>1, <1>3 DEF FenIInv
  <2> QED BY <1>1, <1>3, <2>1, <2>2 DEF FenIInv
<1> QED BY <1>2, <1>3

LEMMA SubmitStoredPreserves == FenIInv /\ SubmitStored => FenIInv'
<1> SUFFICES ASSUME FenIInv, SubmitStored PROVE FenIInv'  OBVIOUS
<1>1. /\ outcome = "accepted" /\ text' = stored /\ outcome' = "none"
      /\ valid' = valid /\ stored' = stored
  BY DEF SubmitStored
<1>2. Fits(stored)
  <2>1. Fits(Normalised(text))  BY <1>1, NormalForm DEF FenIInv
  <2> QED BY <1>1, <2>1 DEF FenIInv
<1> QED BY <1>1, <1>2 DEF FenIInv

(* FenIInv holds of whatever is submitted.                                 *)
THEOREM FenInvariant == FenSpec => []FenIInv
<1>1. FenIInv /\ UNCHANGED fenVars => FenIInv'  BY DEF FenIInv, fenVars
<1>2. FenIInv /\ [FenNext]_fenVars => FenIInv'
  BY <1>1, SubmitPreserves, SubmitStoredPreserves DEF FenNext
<1> QED BY FenInitial, <1>2, PTL DEF FenSpec

(* POST /tasks accepts exactly the FENs of valid positions.                *)
THEOREM OnlyFensAreAccepted == FenSpec => []ExactlyFens
<1>1. FenIInv => ExactlyFens
  BY AcceptsTheFens DEF FenIInv, ExactlyFens
<1> QED BY <1>1, FenInvariant, PTL

(* The stored position is canonical, as the docstring of normalize_fen     *)
(* says, and is accepted as itself when it is read or submitted again.     *)
THEOREM StoredTextsAreCanonical == FenSpec => []StoredIsCanonical
<1>1. FenIInv => StoredIsCanonical
  <2> SUFFICES ASSUME FenIInv PROVE StoredIsCanonical  OBVIOUS
  <2>1. ASSUME outcome = "accepted"
        PROVE  /\ Meaning(stored) = Meaning(text)
               /\ \A t \in Texts : Accepts(t) /\ Meaning(t) = Meaning(text)
                                     => Normalised(t) = stored
    <3>1. Fits(text) /\ Accepts(text) /\ stored = Normalised(text)
      BY <2>1 DEF FenIInv
    <3>2. Meaning(stored) = Meaning(text)  BY <3>1, NormalForm
    <3>3. \A t \in Texts : Meaning(t) = Meaning(text) => Normalised(t) = stored
      BY <3>1, SameMeaning
    <3> QED BY <3>2, <3>3
  <2>2. ASSUME stored # <<>>
        PROVE  Accepts(stored) /\ Normalised(stored) = stored /\ outcome # "refused"
    BY <2>2 DEF FenIInv
  <2> QED BY <2>1, <2>2 DEF StoredIsCanonical
<1> QED BY <1>1, FenInvariant, PTL
=============================================================================

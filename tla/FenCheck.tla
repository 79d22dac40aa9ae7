------------------------------ MODULE FenCheck ------------------------------
(***************************************************************************)
(* normalize_fen of app/fen.py, called when TaskCreate is validated: which *)
(* texts are accepted as positions, and what is stored for them.  A client *)
(* may submit again what has been stored, and the worker reads it.         *)
(*                                                                         *)
(* python-chess is external: what its parser takes beyond the checks here, *)
(* how Board.fen() spells a position, and is_valid, which is a choice.     *)
(* A field is a sequence of characters.                                    *)
(***************************************************************************)
EXTENDS Integers, SequencesExt

CONSTANTS
  Size,       \* ranks, and squares in a rank: 8
  Char,       \* characters
  Piece,      \* _PIECE_CHARS
  Digit,      \* the value of each digit
  MaxDigits,  \* digits that fit in a text of MAX_FEN_LENGTH
  Texts       \* what clients submit

Chars == Seq(Char)

(* A text by its fields.                                                   *)
Text == [count : Nat, long : BOOLEAN, ranks : Seq(Chars), turn : STRING,
         castling : Chars, ep : Chars, half : Chars, full : Chars]

ASSUME FenAssumption ==
  /\ Size \in Nat \ {0} /\ MaxDigits \in Nat \ {0}
  /\ Piece \cup {"K", "Q", "k", "q", "-"} \subseteq Char /\ "empty" \notin Piece
  /\ DOMAIN Digit \subseteq Char \ Piece
  /\ \A d, e \in DOMAIN Digit : /\ Digit[d] \in 0 .. 9
                                /\ Digit[d] = 0 <=> d = "0"
                                /\ Digit[d] = Digit[e] => d = e
  /\ Texts \subseteq Text
  /\ \A t \in Texts : t.long \/ (Len(t.half) <= MaxDigits /\ Len(t.full) <= MaxDigits)

VARIABLES
  text,     \* the text of the request; its fields, were it to have six
  valid,    \* is it a position that is_valid accepts?
  outcome,  \* "none", "accepted" or "refused"
  stored    \* what the row has, when there is one

fenVars == <<text, valid, outcome, stored>>

IsNone(field) == field = <<"-">>
-----------------------------------------------------------------------------
(* _validate_fields.                                                       *)

(* Mutant of CharWidth: zero is a digit too.                               *)
CharWidthWithZero(c) ==
  IF c \in Piece THEN 1
  ELSE IF c \in DOMAIN Digit /\ Digit[c] \in 0 .. Size THEN Digit[c] ELSE Size + 1

(* A character that is refused is wider than a rank.  Zero and nine are    *)
(* no digits here.                                                         *)
CharWidth(c) ==
  IF c \in Piece THEN 1
  ELSE IF c \in DOMAIN Digit /\ Digit[c] \in 1 .. Size THEN Digit[c] ELSE Size + 1

(* The loop over a rank.                                                   *)
RankWidth(rank) ==
  LET width[i \in 0 .. Len(rank)] ==
        IF i = 0 THEN 0 ELSE width[i - 1] + CharWidth(rank[i])
  IN  width[Len(rank)]

ValidatePlacement(ranks) ==
  Len(ranks) = Size /\ \A r \in ToSet(ranks) : RankWidth(r) = Size

White == {"K", "Q"}
Black == {"k", "q"}

CastlingIsWritten(field) ==
  field # <<>> /\ ToSet(field) \subseteq White \cup Black /\ IsInjective(field)

File == {"a", "b", "c", "d", "e", "f", "g", "h"}

ValidateEnPassant(field, turn) ==
  \/ IsNone(field)
  \/ Len(field) = 2 /\ field[1] \in File /\ field[2] = IF turn = "w" THEN "6" ELSE "3"

IsUnsigned(field) == /\ field # <<>> /\ ToSet(field) \subseteq DOMAIN Digit
                     /\ field[1] = "0" => Len(field) = 1

NumberOf(field) ==
  LET number[i \in 0 .. Len(field)] ==
        IF i = 0 THEN 0 ELSE 10 * number[i - 1] + Digit[field[i]]
  IN  number[Len(field)]

ValidateFields(t) ==
  /\ t.count = 6
  /\ ValidatePlacement(t.ranks)
  /\ t.turn \in {"w", "b"}
  /\ IsNone(t.castling) \/ CastlingIsWritten(t.castling)
  /\ ValidateEnPassant(t.ep, t.turn)
  /\ IsUnsigned(t.half)
  /\ IsUnsigned(t.full) /\ NumberOf(t.full) >= 1
-----------------------------------------------------------------------------
(* python-chess: Board(text) and Board.fen().                              *)

Runs(rank) == \E i \in 1 .. Len(rank) - 1 :
                rank[i] \in DOMAIN Digit /\ rank[i + 1] \in DOMAIN Digit

(* Its castling field has the rights of White before those of Black.       *)
Parses(t) ==
  /\ \A r \in ToSet(t.ranks) : ~Runs(r)
  /\ IsNone(t.castling) \/
     \A i, j \in DOMAIN t.castling :
        t.castling[i] \notin White /\ t.castling[j] \in White => j < i

Block(c) == IF c \in Piece THEN <<c>> ELSE [j \in 1 .. Digit[c] |-> "empty"]

Squares(rank) ==
  LET squares[i \in 0 .. Len(rank)] ==
        IF i = 0 THEN <<>> ELSE squares[i - 1] \o Block(rank[i])
  IN  squares[Len(rank)]

RankChar == Piece \cup {d \in DOMAIN Digit : Digit[d] \in 1 .. Size}

SpellRank(squares) ==
  CHOOSE r \in BoundedSeq(RankChar, Size) : ~Runs(r) /\ Squares(r) = squares

SpellCastling(rights) ==
  LET Letter(c) == IF c \in rights THEN <<c>> ELSE <<>>
  IN  IF rights = {} THEN <<"-">>
      ELSE (Letter("K") \o Letter("Q")) \o (Letter("k") \o Letter("q"))

Numeral == BoundedSeq(DOMAIN Digit, MaxDigits)

SpellNumber(n) ==
  CHOOSE s \in Numeral : s # <<>> /\ NumberOf(s) = n /\ (s[1] = "0" => Len(s) = 1)

RightsOf(field) == IF IsNone(field) THEN {} ELSE ToSet(field)

BoardFen(t) ==
  [count |-> 6, long |-> FALSE,
   ranks |-> [i \in DOMAIN t.ranks |-> SpellRank(Squares(t.ranks[i]))],
   turn |-> t.turn, castling |-> SpellCastling(RightsOf(t.castling)), ep |-> t.ep,
   half |-> SpellNumber(NumberOf(t.half)), full |-> SpellNumber(NumberOf(t.full))]
-----------------------------------------------------------------------------
Accepts(t) == ~t.long /\ ValidateFields(t) /\ Parses(t)

(* Mutant of Normalised: the text is stored as it was sent.                *)
AsSent(t) == t

(* The en-passant field is the client's, whatever the board makes of it.   *)
Normalised(t) == [BoardFen(t) EXCEPT !.ep = t.ep]

Submit == /\ outcome = "none"
          /\ IF Accepts(text) /\ valid
             THEN outcome' = "accepted" /\ stored' = Normalised(text)
             ELSE outcome' = "refused" /\ UNCHANGED stored
          /\ UNCHANGED <<text, valid>>

SubmitStored == /\ outcome = "accepted" /\ text # stored
                /\ text' = stored /\ outcome' = "none"
                /\ UNCHANGED <<valid, stored>>

FenInit == /\ text \in Texts /\ valid \in BOOLEAN
           /\ outcome = "none" /\ stored = <<>>

FenNext == Submit \/ SubmitStored

FenSpec == FenInit /\ [][FenNext]_fenVars
-----------------------------------------------------------------------------
(* What a text says, if it is a FEN: what is on every square of the board, *)
(* and the numbers and rights of the other fields.                         *)
Meaning(t) ==
  [squares |-> [i \in DOMAIN t.ranks |-> Squares(t.ranks[i])], turn |-> t.turn,
   rights |-> RightsOf(t.castling), ep |-> t.ep,
   half |-> NumberOf(t.half), full |-> NumberOf(t.full)]

(* The FENs: every square of every rank is given exactly once.             *)
IsRank(r) ==
  ToSet(r) \subseteq RankChar /\ ~Runs(r) /\ Len(Squares(r)) = Size

(* A number is written in the fewest digits there are for it.              *)
IsNumber(field, least) ==
  /\ field \in Numeral \ {<<>>} /\ NumberOf(field) >= least
  /\ \A s \in Numeral \ {<<>>} : NumberOf(s) = NumberOf(field) => Len(field) <= Len(s)

IsFen(t) ==
  /\ t.count = 6 /\ ~t.long
  /\ Len(t.ranks) = Size /\ \A i \in DOMAIN t.ranks : IsRank(t.ranks[i])
  /\ \/ t.turn = "w" /\ t.ep \in {<<"-">>} \cup (File \X {"6"})
     \/ t.turn = "b" /\ t.ep \in {<<"-">>} \cup (File \X {"3"})
  /\ \/ t.castling = <<"-">>
     \/ \E white \in SetToAllKPermutations(White), black \in SetToAllKPermutations(Black) :
          t.castling = white \o black /\ t.castling # <<>>
  /\ IsNumber(t.half, 0) /\ IsNumber(t.full, 1)

(* A task is created for the FENs of valid positions, and nothing else.    *)
ExactlyFens == outcome # "none" => (outcome = "accepted") = (valid /\ IsFen(text))

(* The docstring of normalize_fen: the value is canonical.  It says what   *)
(* the client said, and every text that says the same is stored as it is.  *)
(* It is accepted, and is itself again, when it is read again: by the      *)
(* worker, which parses it, and by a client who submits it.                *)
StoredIsCanonical ==
  /\ outcome = "accepted" =>
       /\ Meaning(stored) = Meaning(text)
       /\ \A t \in Texts : Accepts(t) /\ Meaning(t) = Meaning(text)
                             => Normalised(t) = stored
  /\ stored # <<>> => /\ Accepts(stored) /\ Normalised(stored) = stored
                      /\ outcome # "refused"
=============================================================================

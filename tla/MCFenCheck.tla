----------------------------- MODULE MCFenCheck -----------------------------
(* A board of two ranks of two squares.  A text has one or two fields that *)
(* may be wrong; what has to agree with one another varies together.       *)
EXTENDS FenCheck

MCChar   == {"p", "0", "1", "2", "3", "6", "K", "Q", "k", "q", "-", "e", "x"}
MCPiece  == {"p"}
MCDigit  == [d \in {"0", "1", "2", "3"} |->
               CASE d = "0" -> 0 [] d = "1" -> 1 [] d = "2" -> 2 [] d = "3" -> 3]

Good == [count |-> 6, long |-> FALSE, ranks |-> << <<"p", "1">>, <<"2">> >>,
         turn |-> "w", castling |-> <<"K">>, ep |-> <<"-">>,
         half |-> <<"0">>, full |-> <<"1">>]

Number == BoundedSeq({"0", "1", "x"}, 2)

MCTexts ==
  {[Good EXCEPT !.ranks = <<r, <<"2">> >>] :
     r \in BoundedSeq({"p", "0", "1", "2", "3", "x"}, 3)}
  \cup {[Good EXCEPT !.ranks = [i \in 1 .. n |-> <<"2">>]] : n \in 0 .. 3}
  \cup {[Good EXCEPT !.castling = c] :
          c \in BoundedSeq({"K", "Q", "k", "x", "-"}, 3)
               \cup SetToSeqs({"K", "Q", "k", "q"})}
  \cup {[Good EXCEPT !.turn = t, !.ep = e] :
          t \in {"w", "b", "x"}, e \in {<<"-">>, <<"e", "3">>, <<"e", "6">>, <<"e">>,
                                   <<"x", "6">>}}
  \cup {[Good EXCEPT !.half = h, !.full = f] : h \in Number, f \in Number}
  \cup {[Good EXCEPT !.count = c, !.long = l] : c \in 5 .. 7, l \in BOOLEAN}
=============================================================================

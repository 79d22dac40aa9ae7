---------------------------- MODULE MCBodyLimit ----------------------------
(* Two bytes tell the order of chunks; chunks may fill the limit exactly,  *)
(* or overfill it at once, or step by step, or be empty.                   *)
EXTENDS BodyLimit

MCChunk == {<<>>, <<0>>, <<1>>, <<0, 1>>, <<1, 1, 0>>}
MCDeclared == {-1, 0, 2, 3, 4}
=============================================================================

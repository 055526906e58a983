--------------------------- MODULE MCSimulations ----------------------------
(* The simulations of Assignment6/Q2 with few pages and little memory.     *)
EXTENDS Simulations

MCTexts == {<<1>>, <<1, 1, 1, 1>>}
MCByte == 0..1
=============================================================================

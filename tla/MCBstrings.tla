----------------------------- MODULE MCBstrings -----------------------------
(***************************************************************************)
(* The strings of bstrlib for TLC: blocks that grow in the steps 2, 4, 8,  *)
(* so that texts of a few characters fill them, and integers of 5 bits.    *)
(***************************************************************************)
EXTENDS Bstrings

MCWords == {<<>>, <<"x">>, <<"X", "x">>, <<"x", Nul>>, [k \in 1..13 |-> "x"]}
MCPlaces == {-1, 0, 1, 2, MaxInt}
MCLengths == {-1, 0, 1, 2, MaxInt}
=============================================================================

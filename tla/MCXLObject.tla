----------------------------- MODULE MCXLObject -----------------------------
(* Instances of XLObject for TLC. *)
EXTENDS XLObject

CONSTANT h1

NoHealer == {}
OneHealer == {h1}
AllDisks == 1..N
AllButOne == 1..(N - 1)
=============================================================================

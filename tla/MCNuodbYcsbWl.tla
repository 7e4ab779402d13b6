--------------------------- MODULE MCNuodbYcsbWl ---------------------------
(***************************************************************************)
(* Instances of NuodbYcsbWl for TLC: the name the controller scales under, *)
(* and one it does not know.                                               *)
(***************************************************************************)
EXTENDS NuodbYcsbWl

TwoNames == {"ycsb-load", "ycsb-other"}
OneName  == {"ycsb-load"}
=============================================================================

----------------------------- MODULE MCBookSide -----------------------------
(* Small instances of BookSide for TLC: interchangeable orders.             *)
EXTENDS BookSide

OrderSymmetry == Permutations(Orders)
=============================================================================

---------------------------- MODULE MCSwapLoans ----------------------------
(* Values of SwapLoans' constants for TLC. *)
EXTENDS SwapLoansClaims, TLC

CoinsOf(x, y) == [d \in Denoms |-> IF d = X THEN x ELSE y]

MCReserves  == {CoinsOf(10, 10)}
MCAdditions == {CoinsOf(4, 4)}
Symmetry    == Permutations(Users) \cup Permutations(Denoms)
=============================================================================

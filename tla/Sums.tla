-------------------------------- MODULE Sums --------------------------------
(***************************************************************************)
(* The sum of the values a function has on a finite set, in which the      *)
(* properties of the ledger and of the sizing are stated.                  *)
(***************************************************************************)
EXTENDS Integers, Functions

SumOver(f, S) == FoldFunctionOnSet(LAMBDA a, b : a + b, 0, f, S)
=============================================================================

------------------------------- MODULE Sums -------------------------------
(* The sum of a column over the rows of a table.                           *)
EXTENDS Integers, FiniteSetsExt

SumOver(v, S) == MapThenSumSet(LAMBDA x : v[x], S)
=============================================================================

------------------------------- MODULE Totals -------------------------------
(***************************************************************************)
(* The sum of a column over a set of rows, or of an amount over a set of   *)
(* requests: SUM(amount) of the store's queries.                           *)
(***************************************************************************)
EXTENDS Integers, FiniteSetsExt

SumOver(amount, S) == MapThenSumSet(LAMBDA x : amount[x], S)
=============================================================================

------------------------------ MODULE MCLedger ------------------------------
(***************************************************************************)
(* Two teams, one kind of call, small pages.                               *)
(***************************************************************************)
EXTENDS Ledger

CONSTANTS t1, t2

MCCalls == {[prompt |-> 3, pruned |-> 2, completion |-> 1, cost |-> 1, base |-> 2]}

Symmetry == Permutations(Teams)
=============================================================================

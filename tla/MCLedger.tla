---- MODULE MCLedger ----
(***************************************************************************)
(* The ledger on a small store: two entry bodies, sequence numbers 0..2,   *)
(* and two edits, enough to alter the last entry and recompute its hash or *)
(* to edit, write on and edit again.  Bodies are interchangeable.          *)
(***************************************************************************)
EXTENDS Ledger, TLC

BodySymmetry == Permutations(Bodies)
====

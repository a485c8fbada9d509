---- MODULE MCWorkspace ----
(***************************************************************************)
(* Two packs, two analysts, two drafting sessions and any number of        *)
(* signings and edits in one directory.                                    *)
(***************************************************************************)
EXTENDS Workspace, TLC

CONSTANTS pack_a, pack_b, ana, ben

TwoPacks == {pack_a, pack_b}
TwoAnalysts == {ana, ben}
Interchangeable == Permutations(TwoPacks) \cup Permutations(TwoAnalysts)
====

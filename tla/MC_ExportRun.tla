---------------------------- MODULE MC_ExportRun ----------------------------
(* Two workers, as model values: they are interchangeable. *)
EXTENDS ExportRun, TLC

CONSTANTS w1, w2

MCSymmetry == Permutations({w1, w2})
=============================================================================

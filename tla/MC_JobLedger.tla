---------------------------- MODULE MC_JobLedger ----------------------------
(* Two regions, each with a recipient that a configuration may leave out. *)
EXTENDS JobLedger, TLC

CONSTANTS r1, r2, t1, t2

MCTargetRegion == (t1 :> r1) @@ (t2 :> r2)

MCOneRegion == (t1 :> r1) @@ (t2 :> r1)
=============================================================================

--------------------------- MODULE MC_JobService ---------------------------
(* The service over a small ledger: no recipients and no idempotency keys. *)
EXTENDS JobService

CONSTANTS r1, r2

MCNoTargetRegion == <<>>
=============================================================================

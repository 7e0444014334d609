----------------------- MODULE MC_CompletionDelivery -----------------------
(* Two recipients of one region; fairness for t1 only.                     *)
EXTENDS CompletionDelivery, TLC

CONSTANTS r1, r2, t1, t2

MCTargetRegion == (t1 :> r1) @@ (t2 :> r1)

MCFairSpec == Spec /\ Fair(t1)

\* The recipient that keeps accepting is served although the other never does.
DeliveredAlone == Delivered(t1)
=============================================================================

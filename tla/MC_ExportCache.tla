-------------------------- MODULE MC_ExportCache --------------------------
(***************************************************************************)
(* What exports share: the throttle of new CPU work, with two threads,     *)
(* children and a grandchild; and, once it is at rest, a small cache with  *)
(* three identities of different sizes, two workers, and limits that hold  *)
(* two small entries, one large one, or fewer.                             *)
(***************************************************************************)
EXTENDS ExportCache, CpuThrottle

MCSize(i) == IF i = "big" THEN 2 ELSE 1
MCLimits == {[bytes |-> 2, entries |-> 2], [bytes |-> 3, entries |-> 1], [bytes |-> 1, entries |-> 2]}
MCIds == {"a", "b", "big"}

MCDeadline == [t \in Threads |-> IF t = "first" THEN 2 ELSE 3]

VARIABLE turn

allVars == <<vars, turn, throttle>>

MCInit == turn = "throttle" /\ ThrottleInit /\ Init /\ limit = CHOOSE l \in Limits : TRUE

ThrottleTurn ==
    /\ turn = "throttle"
    /\ \E t \in Threads : waiter[t].at \notin {"admitted", "refused"}
    /\ UNCHANGED <<turn, vars>>

EndThrottle ==
    /\ turn = "throttle"
    /\ \A t \in Threads : waiter[t].at \in {"admitted", "refused"}
    /\ turn' = "cache"
    /\ clock' = 1 /\ procs' = ThisProcess /\ births' = 0 /\ stopped' = FALSE
    /\ waiter' = [t \in Threads |-> Arriving] /\ owner' = Nobody /\ scan' = <<>>
    /\ sampler' = NeverSampled /\ burnt' = NothingBurnt
    /\ limit' \in Limits
    /\ UNCHANGED <<disk, pending, stage, entries, bytes, holder, worker, now, opens, lastUse,
                   broken>>

CacheTurn == turn = "cache" /\ UNCHANGED <<turn, throttle>>

MCNext ==
    \/ ThrottleTurn /\ ThrottleNext
    \/ EndThrottle
    \/ CacheTurn /\ Next

MCSpec ==
    /\ MCInit /\ [][MCNext]_allVars
    /\ WF_allVars(ThrottleTurn /\ Tick)
    /\ \A t \in Threads : WF_allVars(ThrottleTurn /\ Thread(t))
=============================================================================

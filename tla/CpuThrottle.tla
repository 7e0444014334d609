---------------------------- MODULE CpuThrottle ----------------------------
(***************************************************************************)
(* The throttle of new CPU work (src/cpu_throttle.rs, Linux): threads that *)
(* want to start work share one sample of what the process and its         *)
(* children have used since the sample before, and wait while it is too    *)
(* much.                                                                   *)
(*                                                                         *)
(* A sample is read from /proc process by process while processes come and *)
(* go and their numbers are used again.  One tick of CPU time is one unit  *)
(* of the clock on one CPU.  Processes outside the tree start no others.   *)
(***************************************************************************)
EXTENDS Integers, FiniteSets, FiniteSetsExt, Functions

CONSTANTS
    Threads,
    Deadline,       \* of each thread
    Budget,         \* CPUs
    Interval,       \* sample_ms
    Pids,           \* process numbers; 1 is this process
    MaxClock, MaxBirths, MaxTicks    \* bounds of the model

VARIABLES
    clock,
    procs,      \* the processes: parent (0: none of ours), start, ticks
    births,     \* processes that ever started
    stopped,    \* the cancel flag
    waiter,     \* what each thread does: where it is, since when it may go on
    owner,      \* who holds the sampler
    scan,       \* rows of /proc read so far
    sampler,    \* Sampler: last (0: never), usage in ticks over time, previous
    burnt       \* history: ticks since the last scan began, and this one, and
                \* how many processes there had been; per process, between the
                \* two scans; their sums in the sample; whether a process ever
                \* outlived its parent

throttle == <<clock, procs, births, stopped, waiter, owner, scan, sampler, burnt>>
Environment == <<clock, procs, births, stopped>>

Nobody == "nobody"
Self == 1

ASSUME ThrottleAssumption ==
    /\ Nobody \notin Threads
    /\ Deadline \in [Threads -> Nat] /\ Budget \in Nat /\ Interval \in Nat
    /\ IsFiniteSet(Pids) /\ Pids \subseteq Nat \ {0} /\ Self \in Pids
    /\ MaxClock \in Nat /\ MaxBirths \in Nat /\ MaxTicks \in Nat

(* This process and what descends from it: the least set of rows that has  *)
(* it and, with each row, those that name it as their parent.              *)
Closed(rows, pids) ==
    Self \in pids /\ \A p \in DOMAIN rows : rows[p].parent \in pids => p \in pids
Descendants(rows) ==
    {p \in DOMAIN rows \cup {Self} :
        \A pids \in SUBSET (DOMAIN rows \cup {Self}) : Closed(rows, pids) => p \in pids}

(* Mutation of TreeTicks: every process counts. *)
TreeTicksOfAll(rows) == [p \in DOMAIN rows |-> [start |-> rows[p].start, ticks |-> rows[p].ticks]]

TreeTicks(rows) ==
    [p \in Descendants(rows) |-> [start |-> rows[p].start, ticks |-> rows[p].ticks]]

(* Subtraction that ends at zero.                                          *)
Beyond(old, new) == IF old <= new THEN new - old ELSE 0

(* Mutation of Delta: a number that is used again is the same process. *)
DeltaByNumber(previous, current, p) ==
    IF p \in DOMAIN previous
    THEN Beyond(previous[p].ticks, current[p].ticks) ELSE current[p].ticks

(* A process that is new counts with all its ticks.                        *)
Delta(previous, current, p) ==
    IF p \in DOMAIN previous /\ previous[p].start = current[p].start
    THEN Beyond(previous[p].ticks, current[p].ticks) ELSE current[p].ticks

DeltaTicks(previous, current) ==
    SumFunctionOnSet([p \in DOMAIN current |-> Delta(previous, current, p)], DOMAIN current)

-----------------------------------------------------------------------------
(* Threads *)

(* Mutation of Due: only the flag ends a wait. *)
DueWhenStopped(t) == stopped

Due(t) == stopped \/ clock >= Deadline[t]
At(t, at) == waiter[t].at = at
Goes(t, at) == waiter' = [waiter EXCEPT ![t].at = at]

(* A sample that is low enough lets the thread go on.                      *)
Judged(t, usage) ==
    waiter' = [waiter EXCEPT ![t] =
        IF Due(t) THEN [@ EXCEPT !.at = "refused"]
        ELSE IF usage.ticks < Max({Budget, 1}) * usage.time THEN [@ EXCEPT !.at = "admitted"]
        ELSE [at |-> "paused", until |-> Min({clock + Interval, Deadline[t]})]]

(* The sampler is free: a sample that is recent will do, otherwise this    *)
(* thread takes the next.                                                  *)
TryLock(t) ==
    /\ At(t, "sampling") /\ ~Due(t) /\ owner = Nobody
    /\ LET recent == sampler.last # 0 /\ clock - sampler.last < Interval IN
       \/ /\ recent
          /\ Judged(t, sampler.usage)
          /\ UNCHANGED <<owner, scan, burnt>>
       \/ /\ ~recent
          /\ Goes(t, "scanning")
          /\ owner' = t
          /\ scan' = <<>>
          /\ burnt' = [burnt EXCEPT !.current = 0, !.mark = births]
    /\ UNCHANGED <<Environment, sampler>>

(* The next number of /proc; one that is gone has no row.                  *)
Missing == {p \in Pids : \A q \in DOMAIN scan : q < p}

ReadRow(t) ==
    /\ At(t, "scanning") /\ ~Due(t)
    /\ \E p \in Missing :
         /\ p \in DOMAIN procs
         /\ \A q \in Missing : q < p => q \notin DOMAIN procs
         /\ scan' = [q \in DOMAIN scan \cup {p} |-> IF q = p THEN procs[p] ELSE scan[q]]
    /\ UNCHANGED <<Environment, waiter, owner, sampler, burnt>>

Usage(tree) ==
    IF sampler.last = 0 THEN [ticks |-> 0, time |-> 1]
    ELSE [ticks |-> DeltaTicks(sampler.previous, tree), time |-> clock - sampler.last]

(* All rows are read: the sample replaces the one before.                  *)
Refreshed(t) ==
    LET tree == TreeTicks(scan)
        low == SumFunctionOnSet(burnt.between, DOMAIN tree)
    IN  /\ At(t, "scanning")
        /\ \A p \in Missing : p \notin DOMAIN procs
        /\ sampler' = [last |-> clock, usage |-> Usage(tree), previous |-> tree]
        /\ burnt' = [burnt EXCEPT
                        !.previous = burnt.current, !.current = 0, !.mark = 0,
                        !.between = [p \in Pids |-> 0],
                        !.low = IF sampler.last = 0 THEN 0 ELSE low,
                        !.high = burnt.previous]
        /\ owner' = Nobody
        /\ Judged(t, Usage(tree))
        /\ scan' = <<>>
        /\ UNCHANGED Environment

(* /proc cannot be read, or a row is there twice: the sample stays as it is. *)
ScanFails(t) ==
    /\ At(t, "scanning")
    /\ Goes(t, "refused")
    /\ owner' = Nobody
    /\ scan' = <<>>
    /\ UNCHANGED <<Environment, sampler, burnt>>

Resume(t) ==
    /\ At(t, "paused") /\ ~Due(t)
    /\ clock >= waiter[t].until
    /\ Goes(t, "sampling")
    /\ UNCHANGED <<Environment, owner, scan, sampler, burnt>>

(* A wait ends at the flag or the deadline, wherever it is.                *)
Refuse(t) ==
    /\ waiter[t].at \notin {"admitted", "refused"}
    /\ Due(t)
    /\ Goes(t, "refused")
    /\ IF owner = t THEN owner' = Nobody /\ scan' = <<>> ELSE UNCHANGED <<owner, scan>>
    /\ UNCHANGED <<Environment, sampler, burnt>>

Thread(t) ==
    TryLock(t) \/ ReadRow(t) \/ Refreshed(t) \/ ScanFails(t) \/ Resume(t) \/ Refuse(t)

-----------------------------------------------------------------------------
(* Time and processes *)

Threading == <<waiter, owner, scan, sampler>>
Tree == Descendants(procs)

Tick ==
    /\ clock < MaxClock
    /\ clock' = clock + 1
    /\ UNCHANGED <<procs, births, stopped, Threading, burnt>>

Cancelled ==
    /\ ~stopped
    /\ stopped' = TRUE
    /\ UNCHANGED <<clock, procs, births, Threading, burnt>>

Ticks == SumFunctionOnSet([p \in DOMAIN procs |-> procs[p].ticks], DOMAIN procs)

(* A process uses the CPU.                                                 *)
Burn(p) ==
    /\ p \in DOMAIN procs
    /\ Ticks < MaxTicks
    /\ procs' = [procs EXCEPT ![p].ticks = @ + 1]
    /\ burnt' = IF p \notin Tree THEN burnt
                ELSE [burnt EXCEPT !.previous = @ + 1, !.current = @ + 1,
                                   !.between[p] = IF owner = Nobody THEN @ + 1 ELSE @]
    /\ UNCHANGED <<clock, births, stopped, Threading>>

(* A child of ours, or of another program.                                 *)
Born(p, parent) ==
    /\ p \notin DOMAIN procs
    /\ births < MaxBirths
    /\ parent \in Tree \cup {0}
    /\ births' = births + 1
    /\ procs' = [q \in DOMAIN procs \cup {p} |->
                    IF q = p THEN [parent |-> parent, start |-> births + 1, ticks |-> 0]
                    ELSE procs[q]]
    /\ UNCHANGED <<clock, stopped, Threading, burnt>>

(* Its children go to init.                                                *)
Exit(p) ==
    /\ p \in DOMAIN procs \ {Self}
    /\ procs' = [q \in DOMAIN procs \ {p} |->
                    IF procs[q].parent = p THEN [procs[q] EXCEPT !.parent = 0] ELSE procs[q]]
    /\ burnt' = [burnt EXCEPT
                    !.between[p] = 0,
                    !.orphans = @ \/ \E q \in DOMAIN procs : procs[q].parent = p]
    /\ UNCHANGED <<clock, births, stopped, Threading>>

Process == \E p \in Pids : Burn(p) \/ Exit(p) \/ \E parent \in Pids \cup {0} : Born(p, parent)

Arriving == [at |-> "sampling", until |-> 0]
ThisProcess == [p \in {Self} |-> [parent |-> 0, start |-> 0, ticks |-> 0]]
NeverSampled == [last |-> 0, usage |-> [ticks |-> 0, time |-> 1], previous |-> <<>>]
NothingBurnt ==
    [previous |-> 0, current |-> 0, mark |-> 0, between |-> [p \in Pids |-> 0],
     low |-> 0, high |-> 0, orphans |-> FALSE]

(* The clock begins at 1: 0 stands for a sample that was never taken.      *)
ThrottleInit ==
    /\ clock = 1
    /\ procs = ThisProcess
    /\ births = 0
    /\ stopped = FALSE
    /\ waiter = [t \in Threads |-> Arriving]
    /\ owner = Nobody
    /\ scan = <<>>
    /\ sampler = NeverSampled
    /\ burnt = NothingBurnt

ThrottleNext == Tick \/ Cancelled \/ Process \/ \E t \in Threads : Thread(t)

(* Threads that can run do, and time goes on.                              *)
ThrottleSpec ==
    /\ ThrottleInit /\ [][ThrottleNext]_throttle
    /\ WF_throttle(Tick)
    /\ \A t \in Threads : WF_throttle(Thread(t))

-----------------------------------------------------------------------------
(* Properties *)

(* A sample counts all that the processes it found have used between the   *)
(* two scans, whatever starts, ends or takes a number of another in the    *)
(* meantime.  It never counts time that the tree has not used since the    *)
(* scan before began, as long as no process outlives its parent: children  *)
(* of an orphan leave the tree with it, and a scan that has read the row   *)
(* of the orphan before takes them as ours.                                *)
SampleSound ==
    /\ burnt.low <= sampler.usage.ticks
    /\ burnt.orphans \/ sampler.usage.ticks <= burnt.high

Places == {"sampling", "scanning", "paused", "admitted", "refused"}

ThrottleTypes ==
    /\ waiter \in [Threads -> [at : Places, until : Nat]]
    /\ \A t \in Threads : At(t, "scanning") <=> owner = t
    /\ DOMAIN scan \subseteq Pids /\ DOMAIN sampler.previous \subseteq Pids

ThrottleInv == ThrottleTypes /\ SampleSound

(* No thread waits for the CPU beyond its deadline.                        *)
ThrottleEnds == \A t \in Threads : <>(waiter[t].at \in {"admitted", "refused"})
=============================================================================

----------------------- MODULE DeliveryAndMedia_proofs -----------------------
(***************************************************************************)
(* What works for one task.  The delivery of the notices, proved for all   *)
(* recipients and any number of jobs: nothing is forgotten, and the        *)
(* workers implement NoticeQueue.  In the second part a conversion with    *)
(* the linked FFmpeg, proved for any streams, frame sizes and delays:      *)
(* every sample and every frame reaches the file, in its place.  In the    *)
(* third part a resource with its calls, files, passes, commands and       *)
(* errors, proved for every configuration and any objects and waveforms:   *)
(* what is kept is what was promised.                                      *)
(*                                                                         *)
(* What a resource still has to do is a sequence of calls, and whether it  *)
(* ends well depends on all of them.  The argument is a path: a stand      *)
(* before and after each call, from what is there now to what was          *)
(* promised.  Each kind of call moves from one stand to the next; the      *)
(* sequences that the model is built from are shown to be paths, and each  *)
(* step shortens the path, replaces its head by a longer one with the same *)
(* ends, or, after a failure, goes on at a later stand.                    *)
(***************************************************************************)
EXTENDS CompletionDelivery, ResourceMedia, Sums

(* A receiver that takes n has taken everything its recipient is owed from *)
(* before.                                                                 *)
InTurn(n) ==
    /\ n \in owed
    /\ \A m \in owed : m[2] = n[2] /\ m[1] < n[1] => m \in received

(* Only accepted requests are answered.                                    *)
AnsweredAccepted ==
    \A t \in Targets : worker[t].at \in {"accepted", "answered"} => Held(t) \in received

PendingOwed == \A id \in DOMAIN outbox : \A t \in outbox[id] : <<id, t>> \in owed

StrayInTurn == \A n \in stray : InTurn(n)

IInv ==
    /\ TypeOK
    /\ NothingForgotten
    /\ HeldIsFirst
    /\ AnsweredAccepted
    /\ PendingOwed
    /\ StrayInTurn

-----------------------------------------------------------------------------
LEMMA OwedType == TypeOK => owed \subseteq Ids \X Targets
<1> SUFFICES ASSUME TypeOK PROVE owed \subseteq Ids \X Targets
    OBVIOUS
<1>1. 1 .. completed \subseteq Ids
    BY DeliveryAssumption DEF TypeOK, Ids
<1> QED BY <1>1 DEF TypeOK

(* A request of a busy worker is in turn: what its recipient is owed from  *)
(* before no longer waits, so it was received.                             *)
LEMMA HeldInTurn ==
    ASSUME IInv, NEW t \in Targets, worker[t].at \in Busy
    PROVE  InTurn(Held(t))
<1>1. First(worker[t].id, t)
    BY DEF IInv, HeldIsFirst
<1>2. Held(t) \in owed
    BY <1>1 DEF IInv, PendingOwed, First, Pending, Held
<1>3. ASSUME NEW m \in owed, m[2] = t, m[1] < worker[t].id
      PROVE  m \in received
    <2>1. m[1] \in Nat /\ worker[t].id \in Nat
        BY <1>1 DEF IInv, TypeOK, First, Pending, Ids
    <2>2. m[1] \notin Pending(t)
        BY <1>1, <1>3, <2>1 DEF First
    <2> QED BY <1>3, <2>2 DEF IInv, NothingForgotten
<1> QED BY <1>2, <1>3 DEF InTurn, Held

(* The death of the process leaves behind only requests that are in turn.  *)
LEMMA GoneStray ==
    ASSUME IInv, Gone
    PROVE  \A n \in stray' : InTurn(n)
<1>1. \A n \in Posts : InTurn(n)
    BY HeldInTurn DEF Posts, Busy
<1> QED BY <1>1 DEF Gone, IInv, StrayInTurn

(* A notice that is in turn stays in turn when receivers accept more.      *)
LEMMA StaysInTurn ==
    ASSUME NEW n, InTurn(n), owed' = owed, received \subseteq received'
    PROVE  InTurn(n)'
BY DEF InTurn

(* The end of an attempt, however it ends.                                 *)
LEMMA FreeWorker ==
    ASSUME IInv, NEW t \in Targets, NEW w \in {Idle, Off}, Turn(t, w)
    PROVE  /\ worker' \in [Targets -> [at: {"off", "idle"}, id: {NoId}] \cup [at: Busy, id: Ids]]
           /\ \A u \in Targets : worker'[u].at \in Busy => u # t /\ worker'[u] = worker[u]
BY DEF IInv, TypeOK, Turn, Idle, Off, Busy, NoId

(* A worker that stays busy with the event it holds.                       *)
LEMMA BusyWorker ==
    ASSUME IInv, NEW t \in Targets, worker[t].at \in Busy, NEW a \in Busy,
           Turn(t, [worker[t] EXCEPT !.at = a])
    PROVE  /\ worker' \in [Targets -> [at: {"off", "idle"}, id: {NoId}] \cup [at: Busy, id: Ids]]
           /\ worker'[t].at = a /\ worker'[t].id = worker[t].id
           /\ \A u \in Targets : u # t => worker'[u] = worker[u]
<1>1. worker[t] \in [at: Busy, id: Ids]
    BY DEF IInv, TypeOK, Busy
<1> QED BY <1>1 DEF IInv, TypeOK, Turn, Busy

-----------------------------------------------------------------------------
LEMMA InitIInv == Init => IInv
BY DeliveryAssumption DEF Init, IInv, TypeOK, NothingForgotten, HeldIsFirst, AnsweredAccepted,
    PendingOwed, StrayInTurn, Off, NoId, Busy, Ids

(* The death of the process alone.                                         *)
LEMMA DieIInv == IInv /\ Die => IInv'
<1> SUFFICES ASSUME IInv, Die PROVE IInv'
    OBVIOUS
<1>1. \A n \in stray' : InTurn(n)
    BY GoneStray DEF Die
<1>2. TypeOK'
    <2>1. stray' \subseteq Ids \X Targets
        BY <1>1, OwedType DEF InTurn, IInv
    <2> QED BY <2>1 DEF IInv, TypeOK, Die, Gone, Off, NoId
<1>3. HeldIsFirst' /\ AnsweredAccepted'
    BY DEF Die, Gone, HeldIsFirst, AnsweredAccepted, Off, Busy
<1>4. NothingForgotten' /\ PendingOwed'
    BY DEF IInv, NothingForgotten, PendingOwed, Pending, Die
<1>5. StrayInTurn'
    BY <1>1, StaysInTurn DEF StrayInTurn, Die
<1> QED BY <1>2, <1>3, <1>4, <1>5 DEF IInv

(* The worker of t ends its attempt; what it held may still be on its way. *)
LEMMA FreeIInv ==
    ASSUME IInv, NEW t \in Targets, NEW w \in {Idle, Off}, Turn(t, w),
           due' \in [Targets -> BOOLEAN],
           \A n \in stray' : n \in stray \/ (n = Held(t) /\ worker[t].at = "posting"),
           UNCHANGED <<up, configured, outbox, completed, received, owed>>
    PROVE  IInv'
<1>1. \A n \in stray' : InTurn(n)
    BY HeldInTurn DEF IInv, StrayInTurn, Busy
<1>2. TypeOK'
    <2>1. stray' \subseteq Ids \X Targets
        BY <1>1, OwedType DEF InTurn, IInv
    <2> QED BY <2>1, FreeWorker DEF IInv, TypeOK
<1>3. HeldIsFirst' /\ AnsweredAccepted'
    BY FreeWorker DEF IInv, HeldIsFirst, AnsweredAccepted, First, Pending, Held, Busy
<1>4. NothingForgotten' /\ PendingOwed'
    BY DEF IInv, NothingForgotten, PendingOwed, Pending
<1>5. StrayInTurn'
    BY <1>1, StaysInTurn DEF StrayInTurn
<1> QED BY <1>2, <1>3, <1>4, <1>5 DEF IInv

LEMMA PostIInv ==
    ASSUME IInv, NEW t \in Targets, Post(t)
    PROVE  IInv'
<1>1. PICK id \in Ids : First(id, t) /\ Turn(t, [at |-> "posting", id |-> id])
    BY DEF Post
<1>2. /\ worker'[t] = [at |-> "posting", id |-> id]
      /\ \A u \in Targets : u # t => worker'[u] = worker[u]
    BY <1>1 DEF Turn, IInv, TypeOK
<1>3. TypeOK'
    BY <1>1 DEF IInv, TypeOK, Post, Turn, Busy
<1>4. HeldIsFirst'
    <2>1. \A u \in Targets : worker'[u].at \in Busy => First(worker'[u].id, u)
        BY <1>1, <1>2 DEF IInv, HeldIsFirst
    <2> QED BY <2>1 DEF HeldIsFirst, Post, First, Pending
<1>5. AnsweredAccepted'
    BY <1>2 DEF IInv, AnsweredAccepted, Post, Held
<1>6. NothingForgotten' /\ PendingOwed' /\ StrayInTurn'
    BY DEF IInv, NothingForgotten, PendingOwed, StrayInTurn, InTurn, Post, Pending
<1> QED BY <1>3, <1>4, <1>5, <1>6 DEF IInv

LEMMA AnswerIInv ==
    ASSUME IInv, NEW t \in Targets, Answer(t)
    PROVE  IInv'
<1>1. /\ worker' \in [Targets -> [at: {"off", "idle"}, id: {NoId}] \cup [at: Busy, id: Ids]]
      /\ worker'[t].at = "answered" /\ worker'[t].id = worker[t].id
      /\ \A u \in Targets : u # t => worker'[u] = worker[u]
    BY BusyWorker DEF Answer, Busy
<1>2. TypeOK'
    BY <1>1 DEF IInv, TypeOK, Answer
<1>3. HeldIsFirst' /\ AnsweredAccepted'
    BY <1>1 DEF IInv, HeldIsFirst, AnsweredAccepted, Answer, First, Pending, Held, Busy
<1>4. NothingForgotten' /\ PendingOwed' /\ StrayInTurn'
    BY DEF IInv, NothingForgotten, PendingOwed, StrayInTurn, InTurn, Answer, Pending
<1> QED BY <1>2, <1>3, <1>4 DEF IInv

LEMMA ReceiveIInv ==
    ASSUME IInv, NEW t \in Targets, Receive(t)
    PROVE  IInv'
<1>1. /\ worker' \in [Targets -> [at: {"off", "idle"}, id: {NoId}] \cup [at: Busy, id: Ids]]
      /\ worker'[t].at = "accepted" /\ worker'[t].id = worker[t].id
      /\ \A u \in Targets : u # t => worker'[u] = worker[u]
    BY BusyWorker DEF Receive, Busy
<1>2. Held(t) \in owed /\ received' = received \cup {Held(t)}
    BY HeldInTurn DEF InTurn, Receive, Busy
<1>3. TypeOK'
    <2>1. received' \subseteq Ids \X Targets
        BY <1>2, OwedType DEF IInv, TypeOK
    <2> QED BY <1>1, <2>1 DEF IInv, TypeOK, Receive
<1>4. HeldIsFirst' /\ AnsweredAccepted'
    BY <1>1, <1>2 DEF IInv, HeldIsFirst, AnsweredAccepted, Receive, First, Pending, Held, Busy
<1>5. NothingForgotten' /\ PendingOwed' /\ StrayInTurn'
    BY <1>2 DEF IInv, NothingForgotten, PendingOwed, StrayInTurn, InTurn, Receive, Pending
<1> QED BY <1>3, <1>4, <1>5 DEF IInv

LEMMA ArriveLateIInv ==
    ASSUME IInv, NEW n \in stray, ArriveLate(n)
    PROVE  IInv'
<1>1. n \in Ids \X Targets
    BY DEF IInv, TypeOK
<1>2. TypeOK'
    BY <1>1 DEF IInv, TypeOK, ArriveLate
<1>3. HeldIsFirst' /\ AnsweredAccepted'
    BY DEF IInv, HeldIsFirst, AnsweredAccepted, ArriveLate, First, Pending, Held
<1>4. NothingForgotten' /\ PendingOwed' /\ StrayInTurn'
    BY DEF IInv, NothingForgotten, PendingOwed, StrayInTurn, InTurn, ArriveLate, Pending
<1> QED BY <1>2, <1>3, <1>4 DEF IInv

(* A write of the ledger leaves the workers alone or ends all of them.     *)
LEMMA CompleteIInv ==
    ASSUME IInv, NEW r \in Regions, Complete(r)
    PROVE  IInv'
<1> DEFINE id == completed + 1
           ts == {t \in configured : TargetRegion[t] = r}
<1>1. /\ id \in Ids /\ id \in Nat /\ id \notin DOMAIN outbox /\ completed \in Nat
      /\ \A j \in DOMAIN outbox : j \in Nat /\ j < id
      /\ \A n \in owed : n[1] < id
    BY DeliveryAssumption DEF IInv, TypeOK, Complete, Ids
<1>2. /\ outbox' = [j \in DOMAIN outbox \cup {id} |-> IF j = id THEN ts ELSE outbox[j]]
      /\ owed' = owed \cup ({id} \X ts)
      /\ completed' = id /\ received' = received
      /\ ts # {} /\ ts \subseteq Targets
    BY DEF Complete, NewOutbox, IInv, TypeOK
<1> HIDE DEF id, ts
<1>3. (up' = up /\ configured' = configured /\ due' = due /\ stray' = stray /\ worker' = worker)
      \/ Gone
    BY DEF Complete, Survive
<1>4. \A n \in stray' : InTurn(n)
    BY <1>3, GoneStray DEF IInv, StrayInTurn
<1>5. StrayInTurn'
    <2> SUFFICES ASSUME NEW n \in stray', NEW m \in owed', m[2] = n[2], m[1] < n[1]
                 PROVE  n \in owed' /\ m \in received'
        BY <1>4, <1>2 DEF StrayInTurn, InTurn
    <2>1. n \in owed /\ n[1] < id /\ n[1] \in Nat
        BY <1>1, <1>4, OwedType DEF InTurn, IInv, Ids
    <2>2. m \in owed
        BY <1>1, <1>2, <2>1
    <2> QED BY <1>2, <1>4, <2>1, <2>2 DEF InTurn
<1>6. TypeOK'
    <2>1. stray' \subseteq Ids \X Targets
        BY <1>4, OwedType DEF InTurn, IInv
    <2>2. completed' \in 0 .. MaxCompleted /\ 1 .. completed \subseteq 1 .. completed' /\ id \in 1 .. completed'
        BY <1>1, <1>2 DEF IInv, TypeOK, id, Ids
    <2>3. DOMAIN outbox' \subseteq 1 .. completed' /\ owed' \subseteq (1 .. completed') \X Targets
        BY <1>2, <2>2 DEF IInv, TypeOK
    <2>4. \A j \in DOMAIN outbox' : outbox'[j] \in (SUBSET Targets) \ {{}}
        <3>1. ts \in (SUBSET Targets) \ {{}}
            BY <1>2
        <3>2. \A j \in DOMAIN outbox : outbox[j] \in (SUBSET Targets) \ {{}}
            BY DEF IInv, TypeOK
        <3> QED BY <1>2, <3>1, <3>2
    <2>5. /\ up' \in {"down", "running", "stopping"} /\ configured' \subseteq Targets
          /\ worker' \in [Targets -> [at: {"off", "idle"}, id: {NoId}] \cup [at: Busy, id: Ids]]
          /\ due' \in [Targets -> BOOLEAN]
        <3>1. CASE Gone
            BY <3>1 DEF Gone, Off, NoId
        <3>2. CASE up' = up /\ configured' = configured /\ due' = due /\ worker' = worker
            BY <3>2 DEF IInv, TypeOK
        <3> QED BY <1>3, <3>1, <3>2
    <2> QED BY <1>2, <2>1, <2>2, <2>3, <2>4, <2>5 DEF IInv, TypeOK
<1>7. \A t \in Targets : /\ Pending(t) \subseteq Pending(t)'
                         /\ \A j \in Pending(t)' : j \in Pending(t) \/ j = id
    BY <1>1, <1>2 DEF Pending
<1>8. HeldIsFirst' /\ AnsweredAccepted'
    <2>1. CASE Gone
        BY <2>1 DEF Gone, HeldIsFirst, AnsweredAccepted, Off, Busy
    <2>2. CASE worker' = worker
        <3> SUFFICES ASSUME NEW t \in Targets, worker[t].at \in Busy
                     PROVE  First(worker[t].id, t)'
            BY <1>2, <2>2 DEF IInv, HeldIsFirst, AnsweredAccepted, Held
        <3>1. First(worker[t].id, t) /\ worker[t].id < id
            BY <1>1 DEF IInv, HeldIsFirst, First, Pending
        <3>2. worker[t].id \in Nat /\ id \in Nat
            BY <1>1, <3>1 DEF First, Pending, Ids
        <3> QED BY <1>7, <2>2, <3>1, <3>2 DEF First
    <2> QED BY <1>3, <2>1, <2>2
<1>9. NothingForgotten'
    <2> SUFFICES ASSUME NEW n \in owed' PROVE n \in received' \/ n[1] \in Pending(n[2])'
        BY DEF NothingForgotten
    <2>1. CASE n \in owed
        BY <1>2, <1>7, <2>1, OwedType DEF IInv, NothingForgotten
    <2>2. CASE n \in {id} \X ts
        BY <1>2, <2>2 DEF Pending
    <2> QED BY <1>2, <2>1, <2>2
<1>10. PendingOwed'
    BY <1>2 DEF IInv, PendingOwed
<1> QED BY <1>5, <1>6, <1>8, <1>9, <1>10 DEF IInv

LEMMA AcknowledgeIInv ==
    ASSUME IInv, NEW t \in Targets, Acknowledge(t)
    PROVE  IInv'
<1> DEFINE id == worker[t].id
<1>1. /\ id \in DOMAIN outbox /\ t \in outbox[id] /\ <<id, t>> \in received
      /\ First(id, t)
    BY DEF Acknowledge, IInv, HeldIsFirst, AnsweredAccepted, First, Pending, Held, Busy
<1>2. \A j, u : (j \in DOMAIN outbox' /\ u \in outbox'[j])
                 <=> (j \in DOMAIN outbox /\ u \in outbox[j] /\ ~(j = id /\ u = t))
    BY <1>1 DEF Acknowledge, Acknowledged
<1>3. /\ DOMAIN outbox' \subseteq DOMAIN outbox
      /\ \A j \in DOMAIN outbox' : outbox'[j] \in (SUBSET Targets) \ {{}}
    BY <1>1 DEF Acknowledge, Acknowledged, IInv, TypeOK
<1>4. completed' = completed /\ received' = received /\ owed' = owed
    BY DEF Acknowledge
<1>5. (/\ up' = up /\ configured' = configured /\ due' = due /\ stray' = stray
       /\ Turn(t, Idle)) \/ Gone
    BY DEF Acknowledge, Survive
<1> HIDE DEF id
<1>6. \A n \in stray' : InTurn(n)
    BY <1>5, GoneStray DEF IInv, StrayInTurn
<1>7. StrayInTurn'
    BY <1>4, <1>6, StaysInTurn DEF StrayInTurn
<1>8. TypeOK'
    <2>1. stray' \subseteq Ids \X Targets
        BY <1>6, OwedType DEF InTurn, IInv
    <2>2. /\ up' \in {"down", "running", "stopping"} /\ configured' \subseteq Targets
          /\ due' \in [Targets -> BOOLEAN]
        BY <1>5 DEF IInv, TypeOK, Gone
    <2>3. worker' \in [Targets -> [at: {"off", "idle"}, id: {NoId}] \cup [at: Busy, id: Ids]]
        BY <1>5, FreeWorker DEF IInv, TypeOK, Gone, Off, NoId
    <2> QED BY <1>3, <1>4, <2>1, <2>2, <2>3 DEF IInv, TypeOK
<1>9. \A u \in Targets : Pending(u)' = IF u = t THEN Pending(u) \ {id} ELSE Pending(u)
    BY <1>2 DEF Pending
<1>10. HeldIsFirst' /\ AnsweredAccepted'
    <2>1. CASE Gone
        BY <2>1 DEF Gone, HeldIsFirst, AnsweredAccepted, Off, Busy
    <2>2. CASE Turn(t, Idle)
        <3>1. \A u \in Targets : worker'[u].at \in Busy => u # t /\ worker'[u] = worker[u]
            BY <2>2, FreeWorker
        <3> QED BY <1>4, <1>9, <3>1 DEF IInv, HeldIsFirst, AnsweredAccepted, First, Held, Busy
    <2> QED BY <1>5, <2>1, <2>2
<1>11. NothingForgotten'
    <2> SUFFICES ASSUME NEW n \in owed PROVE n \in received \/ n[1] \in Pending(n[2])'
        BY <1>4 DEF NothingForgotten
    <2>1. n \in Ids \X Targets /\ n = <<n[1], n[2]>>
        BY OwedType DEF IInv
    <2> QED BY <1>1, <1>9, <2>1 DEF IInv, NothingForgotten
<1>12. PendingOwed'
    BY <1>2, <1>4 DEF IInv, PendingOwed
<1> QED BY <1>7, <1>8, <1>10, <1>11, <1>12 DEF IInv

-----------------------------------------------------------------------------
LEMMA StepIInv == IInv /\ [Next]_vars => IInv'
<1> SUFFICES ASSUME IInv, [Next]_vars PROVE IInv'
    OBVIOUS
<1>1. ASSUME NEW ts \in SUBSET Targets, Boot(ts) PROVE IInv'
    BY <1>1 DEF Boot, IInv, TypeOK, NothingForgotten, HeldIsFirst, AnsweredAccepted, PendingOwed,
        StrayInTurn, InTurn, Pending, Idle, Off, Busy, NoId
<1>2. CASE Die
    BY <1>2, DieIInv
<1>3. CASE Shutdown
    BY <1>3 DEF Shutdown, IInv, TypeOK, NothingForgotten, HeldIsFirst, AnsweredAccepted,
        PendingOwed, StrayInTurn, InTurn, Pending, First, Held
<1>4. ASSUME NEW r \in Regions, Complete(r) PROVE IInv'
    BY <1>4, CompleteIInv
<1>5. ASSUME NEW t \in Targets, WorkerNext(t) PROVE IInv'
    <2>1. CASE Post(t)
        BY <2>1, PostIInv
    <2>2. CASE GiveUp(t)
        <3>1. due' \in [Targets -> BOOLEAN]
            BY <2>2 DEF GiveUp, Later, IInv, TypeOK
        <3> QED BY <2>2, <3>1, FreeIInv DEF GiveUp, Later
    <2>3. CASE LoseAnswer(t)
        <3>1. due' \in [Targets -> BOOLEAN]
            BY <2>3 DEF LoseAnswer, Later, IInv, TypeOK
        <3> QED BY <2>3, <3>1, FreeIInv DEF LoseAnswer, Later
    <2>4. CASE Answer(t)
        BY <2>4, AnswerIInv
    <2>5. CASE Acknowledge(t)
        BY <2>5, AcknowledgeIInv
    <2>6. CASE AcknowledgeFails(t)
        <3>1. due' \in [Targets -> BOOLEAN]
            BY <2>6 DEF AcknowledgeFails, Later, IInv, TypeOK
        <3> QED BY <2>6, <3>1, FreeIInv DEF AcknowledgeFails, Later
    <2>7. CASE RetryDue(t)
        BY <2>7 DEF RetryDue, IInv, TypeOK, NothingForgotten, HeldIsFirst, AnsweredAccepted,
            PendingOwed, StrayInTurn, InTurn, Pending, First, Held
    <2>8. CASE Cancelled(t)
        <3>1. \A n \in stray' : n \in stray \/ (n = Held(t) /\ worker[t].at = "posting")
            BY <2>8 DEF Cancelled, Posts, Held
        <3> QED BY <2>8, <3>1, FreeIInv DEF Cancelled, IInv, TypeOK
    <2>9. CASE Receive(t)
        BY <2>9, ReceiveIInv
    <2> QED BY <1>5, <2>1, <2>2, <2>3, <2>4, <2>5, <2>6, <2>7, <2>8, <2>9 DEF WorkerNext
<1>6. ASSUME NEW n \in stray, ArriveLate(n) PROVE IInv'
    BY <1>6, ArriveLateIInv
<1>7. CASE UNCHANGED vars
    BY <1>7 DEF vars, IInv, TypeOK, NothingForgotten, HeldIsFirst, AnsweredAccepted,
        PendingOwed, StrayInTurn, InTurn, Pending, First, Held
<1> QED BY <1>1, <1>2, <1>3, <1>4, <1>5, <1>6, <1>7 DEF Next

\* Notices are delivered at least once: what is owed is received or waits.
THEOREM AtLeastOnce == Spec => []NothingForgotten
<1>1. IInv => NothingForgotten
    BY DEF IInv
<1> QED BY <1>1, InitIInv, StepIInv, PTL DEF Spec

\* A worker comes back from its request with the event that is still first.
THEOREM NoStaleAcknowledgement == Spec => []HeldIsFirst
<1>1. IInv => HeldIsFirst
    BY DEF IInv
<1> QED BY <1>1, InitIInv, StepIInv, PTL DEF Spec

\* Notices are kept until they were heard and told in their turn, for every
\* set of recipients, number of jobs and region of each recipient.
THEOREM DeliverySafe == Spec => []Inv
<1>1. IInv => Inv
    BY DEF IInv, Inv
<1> QED BY <1>1, InitIInv, StepIInv, PTL DEF Spec

-----------------------------------------------------------------------------
(* A receiver that takes a notice in turn makes the step of NoticeQueue,   *)
(* or none when it has it already.                                         *)
LEMMA TakeInTurn ==
    ASSUME IInv, NEW n, InTurn(n), received' = received \cup {n}, owed' = owed
    PROVE  [Queue!QueueNext]_<<owed, received>>
<1>1. n \in Ids \X Targets /\ n = <<n[1], n[2]>>
    BY OwedType DEF IInv, InTurn
<1>2. CASE n \in received
    BY <1>2
<1>3. CASE n \notin received
    <2>1. Queue!Deliver(n[1], n[2])
        BY <1>1, <1>3 DEF Queue!Deliver, InTurn
    <2> QED BY <1>1, <2>1 DEF Queue!QueueNext
<1> QED BY <1>2, <1>3

LEMMA StepQueue == IInv /\ [Next]_vars => [Queue!QueueNext]_<<owed, received>>
<1> SUFFICES ASSUME IInv, [Next]_vars PROVE [Queue!QueueNext]_<<owed, received>>
    OBVIOUS
<1>1. ASSUME NEW r \in Regions, Complete(r) PROVE Queue!QueueNext
    <2> DEFINE ts == {t \in configured : TargetRegion[t] = r}
    <2>1. completed + 1 \in Ids /\ \A n \in owed : n[1] < completed + 1
        BY <1>1, DeliveryAssumption DEF IInv, TypeOK, Complete, Ids
    <2>2. ts \in SUBSET Targets
        BY DEF IInv, TypeOK
    <2>3. Queue!Owe(completed + 1, ts)
        BY <1>1, <2>1 DEF Queue!Owe, Complete
    <2> HIDE DEF ts
    <2> QED BY <2>1, <2>2, <2>3 DEF Queue!QueueNext
<1>2. ASSUME NEW t \in Targets, Receive(t) PROVE [Queue!QueueNext]_<<owed, received>>
    <2>1. InTurn(Held(t))
        BY <1>2, HeldInTurn DEF Receive, Busy
    <2> QED BY <1>2, <2>1, TakeInTurn DEF Receive
<1>3. ASSUME NEW n \in stray, ArriveLate(n) PROVE [Queue!QueueNext]_<<owed, received>>
    <2>1. InTurn(n)
        BY DEF IInv, StrayInTurn
    <2> QED BY <1>3, <2>1, TakeInTurn DEF ArriveLate
<1>4. CASE UNCHANGED <<owed, received>>
    BY <1>4
<1> QED BY <1>1, <1>2, <1>3, <1>4 DEF Next, WorkerNext, vars, Boot, Die, Shutdown, Post, GiveUp,
        LoseAnswer, Answer, Acknowledge, AcknowledgeFails, RetryDue, Cancelled

\* The workers implement NoticeQueue: every recipient hears of the jobs it is
\* owed once and in the order they completed.
THEOREM Refinement == Spec => InOrderOnce
<1>1. Init => Queue!QueueInit
    BY DEF Init, Queue!QueueInit
<1>2. Queue!queue = <<owed, received>>
    BY DEF Queue!queue
<1> QED BY <1>1, <1>2, InitIInv, StepIInv, StepQueue, PTL DEF Spec, InOrderOnce, Queue!QueueSpec, Queue!queue

-----------------------------------------------------------------------------
(* Conversions: packets, what a decoder gives and an encoder takes.        *)

(* Packets *)
PacketType == [pts : Nat, samples : Seq(Nat), duration : Nat]

(* The same packets, but for their durations.                              *)
Alike(P, Q) ==
    Len(P) = Len(Q) /\ \A k \in 1 .. Len(P) : P[k].pts = Q[k].pts /\ P[k].samples = Q[k].samples

(* Packets follow each other without a gap, from 0 to here.                *)
Follow(P, here) ==
    /\ P # <<>> => P[1].pts = 0
    /\ \A k \in 1 .. Len(P) :
         P[k].pts + Len(P[k].samples) = IF k = Len(P) THEN here ELSE P[k + 1].pts
    /\ P = <<>> => here = 0

-----------------------------------------------------------------------------
(* Operators of the library, as MediaTranscode has them.                   *)

LEMMA SameSum ==
    ASSUME NEW f, NEW S PROVE Conversion!SumFunctionOnSet(f, S) = SumFunctionOnSet(f, S)
BY Zenon DEF Conversion!SumFunctionOnSet, Conversion!FoldFunctionOnSet, Conversion!MapThenFoldSet,
             SumFunctionOnSet, FoldFunctionOnSet, MapThenFoldSet

LEMMA SameFlatten == ASSUME NEW s PROVE Conversion!FlattenSeq(s) = FlattenSeq(s)
BY Zenon DEF Conversion!FlattenSeq, FlattenSeq

LEMMA SameMin ==
    ASSUME NEW m \in Nat, NEW n \in Nat PROVE Conversion!Min({m, n}) = IF m <= n THEN m ELSE n
<1>1. CASE m <= n
    <2>1. \A x \in {m, n} : (\A y \in {m, n} : x <= y) => x = m BY <1>1
    <2>2. m \in {m, n} /\ \A y \in {m, n} : m <= y BY <1>1
    <2> QED BY <1>1, <2>1, <2>2 DEF Conversion!Min
<1>2. CASE ~(m <= n)
    <2>1. \A x \in {m, n} : (\A y \in {m, n} : x <= y) => x = n BY <1>2
    <2>2. n \in {m, n} /\ \A y \in {m, n} : n <= y BY <1>2
    <2> QED BY <1>2, <2>1, <2>2 DEF Conversion!Min
<1> QED BY <1>1, <1>2

-----------------------------------------------------------------------------
(* Sums and samples *)

LEMMA SumSnoc ==
    ASSUME NEW n \in Nat, NEW f, NEW g, DOMAIN f = 1 .. n, DOMAIN g = 1 .. n + 1,
           \A k \in 1 .. n : f[k] \in Nat /\ g[k] = f[k], g[n + 1] \in Nat
    PROVE  /\ Conversion!Sum(f) \in Nat
           /\ Conversion!Sum(g) = Conversion!Sum(f) + g[n + 1]
<1>1. IsFiniteSet(1 .. n) BY FS_Interval
<1>2. 1 .. n + 1 = (1 .. n) \cup {n + 1} /\ n + 1 \notin 1 .. n OBVIOUS
<1>3. SumFunctionOnSet(g, (1 .. n) \cup {n + 1}) = SumFunctionOnSet(g, 1 .. n) + g[n + 1]
    <2>1. \A y \in (1 .. n) \cup {n + 1} : g[y] \in Int BY <1>2
    <2> QED BY <1>1, <1>2, <2>1, SumAdd
<1>4. SumFunctionOnSet(g, 1 .. n) = SumFunctionOnSet(f, 1 .. n)
    BY <1>1, SumSame
<1>5. SumFunctionOnSet(f, 1 .. n) \in Nat
    BY <1>1, SumNat
<1>6. Conversion!Sum(f) = SumFunctionOnSet(f, 1 .. n) BY SameSum DEF Conversion!Sum
<1>7. Conversion!Sum(g) = SumFunctionOnSet(g, 1 .. n + 1) BY SameSum DEF Conversion!Sum
<1> QED BY <1>2, <1>3, <1>4, <1>5, <1>6, <1>7

LEMMA SumNone == ASSUME NEW f, DOMAIN f = {} PROVE Conversion!Sum(f) = 0
BY SumEmpty, SameSum DEF Conversion!Sum

(* How many samples a stream has up to a frame.                            *)
LEMMA PositionShape ==
    ASSUME source \in MediaSource, NEW t \in DOMAIN source.streams
    PROVE  /\ Conversion!Position(t, 0) = 0
           /\ \A n \in 0 .. Len(source.streams[t].frames) : Conversion!Position(t, n) \in Nat
           /\ \A n \in 0 .. Len(source.streams[t].frames) - 1 :
                Conversion!Position(t, n + 1) =
                  Conversion!Position(t, n) + source.streams[t].frames[n + 1].len
<1> DEFINE frames == source.streams[t].frames
           Lens(n) == [k \in 1 .. n |-> frames[k].len]
<1>1. frames \in Seq(Frame) /\ Len(frames) \in Nat
      /\ \A k \in 1 .. Len(frames) : frames[k].len \in Nat
    <2>1. source.streams[t] \in MediaStream BY DEF MediaSource
    <2>2. source.streams[t].frames \in Seq(Frame) BY <2>1 DEF MediaStream
    <2>3. \A k \in 1 .. Len(frames) : frames[k] \in Frame BY <2>2
    <2> QED BY <2>2, <2>3 DEF Frame
<1>2. \A n : Conversion!Position(t, n) = Conversion!Sum(Lens(n))
    BY DEF Conversion!Position, Conversion!Stream
<1> HIDE DEF frames
<1>3. ASSUME NEW n \in 0 .. Len(frames) - 1
      PROVE  /\ Conversion!Position(t, n) \in Nat
             /\ Conversion!Position(t, n + 1) = Conversion!Position(t, n) + frames[n + 1].len
    <2>1. /\ n \in Nat /\ n + 1 \in 1 .. Len(frames) /\ DOMAIN Lens(n) = 1 .. n
          /\ DOMAIN Lens(n + 1) = 1 .. n + 1 /\ Lens(n + 1)[n + 1] = frames[n + 1].len
          /\ \A k \in 1 .. n : Lens(n)[k] \in Nat /\ Lens(n + 1)[k] = Lens(n)[k]
        BY <1>1
    <2>2. Lens(n + 1)[n + 1] \in Nat BY <1>1, <2>1
    <2> HIDE DEF Lens
    <2>3. Conversion!Sum(Lens(n)) \in Nat
          /\ Conversion!Sum(Lens(n + 1)) = Conversion!Sum(Lens(n)) + Lens(n + 1)[n + 1]
        BY <2>1, <2>2, SumSnoc
    <2> QED BY <1>2, <2>1, <2>3
<1>4. Conversion!Position(t, 0) = 0
    <2>1. DOMAIN Lens(0) = {} OBVIOUS
    <2> HIDE DEF Lens
    <2> QED BY <1>2, <2>1, SumNone
<1>5. ASSUME NEW n \in 0 .. Len(frames) PROVE Conversion!Position(t, n) \in Nat
    <2>1. CASE n = 0 BY <1>4, <2>1
    <2>2. CASE n # 0
        <3>1. n - 1 \in 0 .. Len(frames) - 1 /\ (n - 1) + 1 = n BY <1>1, <2>2
        <3>2. Conversion!Position(t, (n - 1) + 1) = Conversion!Position(t, n - 1) + frames[(n - 1) + 1].len
              /\ Conversion!Position(t, n - 1) \in Nat
            BY <1>3, <3>1
        <3> QED BY <1>1, <3>1, <3>2
    <2> QED BY <2>1, <2>2
<1> QED BY <1>3, <1>4, <1>5 DEF frames

LEMMA PacketShape ==
    ASSUME NEW P \in Seq(PacketType)
    PROVE  /\ Len(P) \in Nat /\ DOMAIN P = 1 .. Len(P)
           /\ \A k \in 1 .. Len(P) :
                /\ P[k] \in PacketType
                /\ P[k].pts \in Nat /\ P[k].samples \in Seq(Nat) /\ P[k].duration \in Nat
                /\ Len(P[k].samples) \in Nat
<1>1. \A k \in 1 .. Len(P) : P[k] \in PacketType OBVIOUS
<1>2. \A q \in PacketType : q.pts \in Nat /\ q.samples \in Seq(Nat) /\ q.duration \in Nat
                             /\ Len(q.samples) \in Nat
    BY DEF PacketType
<1> QED BY <1>1, <1>2

(* The samples of packets, one more packet at the end.                     *)
LEMMA SamplesSnoc ==
    ASSUME NEW P \in Seq(PacketType), NEW q \in PacketType
    PROVE  /\ Conversion!Samples(P) \in Seq(Nat)
           /\ Conversion!Samples(Append(P, q)) = Conversion!Samples(P) \o q.samples
<1> DEFINE parts == [k \in DOMAIN P |-> P[k].samples]
           more == [k \in DOMAIN Append(P, q) |-> Append(P, q)[k].samples]
<1>1. parts \in Seq(Seq(Nat)) /\ q.samples \in Seq(Nat)
    <2>1. \A k \in 1 .. Len(P) : P[k].samples \in Seq(Nat) BY PacketShape
    <2>2. Len(P) \in Nat /\ parts \in [1 .. Len(P) -> Seq(Nat)] BY <2>1
    <2> QED BY <2>2 DEF PacketType
<1>2. more = Append(parts, q.samples)
    <2>1. more \in Seq(Seq(Nat)) /\ Len(more) = Len(P) + 1
        <3> DEFINE R == Append(P, q)
        <3>1. R \in Seq(PacketType) /\ Len(R) = Len(P) + 1 OBVIOUS
        <3> HIDE DEF R
        <3>2. \A k \in 1 .. Len(R) : R[k].samples \in Seq(Nat) BY <3>1, PacketShape
        <3>3. Len(R) \in Nat /\ [k \in DOMAIN R |-> R[k].samples] \in [1 .. Len(R) -> Seq(Nat)]
            BY <3>1, <3>2
        <3> QED BY <3>1, <3>3 DEF R
    <2>2. Len(parts) = Len(P) OBVIOUS
    <2>3. \A i \in 1 .. Len(P) + 1 : more[i] = Append(parts, q.samples)[i] OBVIOUS
    <2>4. Append(parts, q.samples) \in Seq(Seq(Nat)) /\ Len(Append(parts, q.samples)) = Len(P) + 1
        <3> HIDE DEF parts
        <3> QED BY <1>1, <2>2
    <2> HIDE DEF more, parts
    <2> QED BY <2>1, <2>3, <2>4, SeqEqual
<1>3. Conversion!Samples(P) = FlattenSeq(parts) BY SameFlatten DEF Conversion!Samples
<1>4. Conversion!Samples(Append(P, q)) = FlattenSeq(more) BY SameFlatten DEF Conversion!Samples
<1> HIDE DEF parts, more
<1> QED BY <1>1, <1>2, <1>3, <1>4, FlattenSnoc, FlattenIn

LEMMA SamplesNone == Conversion!Samples(<<>>) = <<>>
<1>1. [k \in DOMAIN <<>> |-> <<>>[k].samples] = <<>> OBVIOUS
<1> QED BY <1>1, SameFlatten DEF Conversion!Samples, FlattenSeq

LEMMA SamplesAlike ==
    ASSUME NEW P \in Seq(PacketType), NEW Q \in Seq(PacketType), Alike(P, Q)
    PROVE  Conversion!Samples(P) = Conversion!Samples(Q)
<1>1. [k \in DOMAIN P |-> P[k].samples] = [k \in DOMAIN Q |-> Q[k].samples]
    BY DEF Alike
<1> QED BY <1>1 DEF Conversion!Samples

LEMMA FollowAlike ==
    ASSUME NEW P \in Seq(PacketType), NEW Q \in Seq(PacketType), Alike(P, Q), NEW here, Follow(P, here)
    PROVE  Follow(Q, here)
<1>1. Len(P) = Len(Q) /\ (P = <<>> <=> Q = <<>>) BY DEF Alike
<1>2. Q # <<>> => Q[1].pts = 0 BY <1>1 DEF Alike, Follow
<1>3. \A k \in 1 .. Len(Q) : Q[k].pts + Len(Q[k].samples) = IF k = Len(Q) THEN here ELSE Q[k + 1].pts
    BY <1>1 DEF Alike, Follow
<1> QED BY <1>1, <1>2, <1>3 DEF Follow

LEMMA FollowSnoc ==
    ASSUME NEW P \in Seq(PacketType), NEW q \in PacketType, NEW here \in Nat, Follow(P, here),
           q.pts = here
    PROVE  Follow(Append(P, q), here + Len(q.samples))
<1> DEFINE R == Append(P, q)
<1>1. /\ Len(R) = Len(P) + 1 /\ Len(P) \in Nat /\ R # <<>> /\ R[Len(P) + 1] = q
      /\ \A k \in 1 .. Len(P) : R[k] = P[k]
    OBVIOUS
<1> HIDE DEF R
<1>2. R[1].pts = 0
    <2>1. CASE P = <<>> BY <1>1, <2>1 DEF Follow
    <2>2. CASE P # <<>>
        <3>1. 1 \in 1 .. Len(P) BY <2>2
        <3> QED BY <1>1, <2>2, <3>1 DEF Follow
    <2> QED BY <2>1, <2>2
<1>3. ASSUME NEW k \in 1 .. Len(R)
      PROVE  R[k].pts + Len(R[k].samples) = IF k = Len(R) THEN here + Len(q.samples) ELSE R[k + 1].pts
    <2>1. CASE k = Len(P) + 1 BY <1>1, <2>1
    <2>2. CASE k = Len(P)
        BY <1>1, <1>3, <2>2 DEF Follow
    <2>3. CASE k < Len(P)
        <3>1. k \in 1 .. Len(P) /\ k + 1 \in 1 .. Len(P) /\ k # Len(P) /\ k # Len(R) BY <1>1, <1>3, <2>3
        <3>2. P[k].pts + Len(P[k].samples) = P[k + 1].pts BY <3>1 DEF Follow
        <3> QED BY <1>1, <3>1, <3>2
    <2> QED BY <1>1, <1>3, <2>1, <2>2, <2>3
<1> QED BY <1>1, <1>2, <1>3 DEF Follow, R

-----------------------------------------------------------------------------
(* Lanes *)

Measured(P) == \A k \in 1 .. Len(P) : P[k].duration = Len(P[k].samples)
Single(t, P) == source.streams[t].medium = "video" => \A k \in 1 .. Len(P) : Len(P[k].samples) = 1

LEMMA StreamShape ==
    ASSUME source \in MediaSource, NEW t \in DOMAIN source.streams
    PROVE  /\ source.streams[t].medium \in {"audio", "video"}
           /\ source.streams[t].tick \in Nat
           /\ source.streams[t].frames \in Seq(Frame)
           /\ \A k \in 1 .. Len(source.streams[t].frames) :
                /\ source.streams[t].frames[k].len \in Nat
                /\ source.streams[t].frames[k].time \in Int
                /\ source.streams[t].medium = "video" => source.streams[t].frames[k].len = 1
<1> DEFINE s == source.streams[t]
<1>1. s \in MediaStream BY DEF MediaSource
<1> HIDE DEF s
<1>2. s.medium \in {"audio", "video"} /\ s.tick \in Nat /\ s.frames \in Seq(Frame)
    BY <1>1 DEF MediaStream
<1>3. \A k \in 1 .. Len(s.frames) : s.frames[k] \in Frame
    BY <1>2
<1>4. s.medium = "video" => \A k \in 1 .. Len(s.frames) : s.frames[k].len = 1
    BY <1>1, <1>2 DEF MediaStream
<1>5. \A f \in Frame : f.len \in Nat /\ f.time \in Int BY DEF Frame
<1> QED BY <1>2, <1>3, <1>4, <1>5 DEF s

(* What leaves the encoder is written, with durations.                     *)
LEMMA DrainKeeps ==
    ASSUME source \in MediaSource, NEW t \in DOMAIN source.streams,
           t \in DOMAIN written, written = [u \in DOMAIN written |-> written[u]],
           written[t] \in Seq(PacketType), Measured(written[t]),
           NEW Q \in Seq(PacketType), Single(t, Q),
           NEW count \in 0 .. Len(Q), Conversion!Drain(t, Q, count)
    PROVE  /\ \A u \in DOMAIN written : u # t => written'[u] = written[u]
           /\ DOMAIN written' = DOMAIN written
           /\ written' = [u \in DOMAIN written' |-> written'[u]]
           /\ written'[t] \in Seq(PacketType) /\ Measured(written'[t])
           /\ SubSeq(Q, count + 1, Len(Q)) \in Seq(PacketType)
           /\ Alike(written[t] \o Q, written'[t] \o SubSeq(Q, count + 1, Len(Q)))
<1>1. PICK duration \in [1 .. count -> 0 .. FrameSize] :
          /\ \A k \in 1 .. count : duration[k] \in Conversion!Durations(t, Q[k])
          /\ written' = [written EXCEPT ![t] =
                           @ \o [k \in 1 .. count |-> Conversion!Drained(t, Q[k], duration[k])]]
    BY DEF Conversion!Drain
<1> DEFINE W == written[t]
           out == [k \in 1 .. count |-> Conversion!Drained(t, Q[k], duration[k])]
           rest == SubSeq(Q, count + 1, Len(Q))
<1>2. /\ count \in Nat /\ Len(Q) \in Nat /\ count <= Len(Q)
      /\ \A k \in 1 .. Len(Q) : Q[k] \in PacketType /\ Len(Q[k].samples) \in Nat
    BY PacketShape
<1>3. ASSUME NEW k \in 1 .. count
      PROVE  /\ out[k] \in PacketType /\ out[k].pts = Q[k].pts /\ out[k].samples = Q[k].samples
             /\ out[k].duration = Len(Q[k].samples)
    <2>1. /\ k \in 1 .. Len(Q) /\ Q[k] \in PacketType /\ Len(Q[k].samples) \in Nat
          /\ out[k] = Conversion!Drained(t, Q[k], duration[k])
          /\ duration[k] \in Conversion!Durations(t, Q[k])
        BY <1>1, <1>2
    <2> DEFINE d == IF source.streams[t].medium = "video" /\ duration[k] <= 0 THEN 1 ELSE duration[k]
    <2>2. Conversion!Drained(t, Q[k], duration[k]) = [Q[k] EXCEPT !.duration = d]
        BY DEF Conversion!Drained, Conversion!Stream
    <2>3. d = Len(Q[k].samples)
        <3>1. CASE source.streams[t].medium = "video"
            <4>1. Len(Q[k].samples) = 1 BY <2>1, <3>1 DEF Single
            <4>2. duration[k] \in {0, 1}
                BY <2>1, <3>1 DEF Conversion!Durations, Conversion!Stream
            <4> QED BY <3>1, <4>1, <4>2
        <3>2. CASE source.streams[t].medium # "video"
            <4>1. duration[k] = Len(Q[k].samples)
                BY <2>1, <3>2 DEF Conversion!Durations, Conversion!Stream
            <4> QED BY <3>2, <4>1
        <3> QED BY <3>1, <3>2
    <2> HIDE DEF d, out
    <2> QED BY <2>1, <2>2, <2>3 DEF PacketType
<1>4. out \in Seq(PacketType) /\ Len(out) = count
    <2>1. out \in [1 .. count -> PacketType]
        <3>1. \A k \in 1 .. count : out[k] \in PacketType BY <1>3
        <3> QED BY <3>1
    <2> HIDE DEF out
    <2> QED BY <1>2, <2>1
<1>5. /\ rest \in Seq(PacketType) /\ Len(rest) = Len(Q) - count
      /\ \A k \in 1 .. Len(Q) - count : rest[k] = Q[count + k]
    <2>1. \A i \in count + 1 .. Len(Q) : Q[i] \in PacketType BY <1>2
    <2>2. /\ rest \in Seq(PacketType)
          /\ Len(rest) = IF count + 1 <= Len(Q) THEN Len(Q) - (count + 1) + 1 ELSE 0
          /\ \A i \in 1 .. Len(Q) - (count + 1) + 1 : rest[i] = Q[(count + 1) + i - 1]
        BY <1>2, <2>1, SubSeqProperties
    <2> HIDE DEF rest
    <2> QED BY <1>2, <2>2
<1> HIDE DEF out, rest
<1>6. written'[t] = W \o out /\ DOMAIN written' = DOMAIN written
      /\ \A u \in DOMAIN written : u # t => written'[u] = written[u]
    BY <1>1 DEF out
<1>7. /\ W \o out \in Seq(PacketType) /\ Len(W \o out) = Len(W) + count /\ Len(W) \in Nat
      /\ \A i \in 1 .. Len(W) + count : (W \o out)[i] = IF i <= Len(W) THEN W[i] ELSE out[i - Len(W)]
    BY <1>4, ConcatProperties, PacketShape
<1>8. Measured(W \o out)
    <2> SUFFICES ASSUME NEW k \in 1 .. Len(W) + count
                 PROVE  (W \o out)[k].duration = Len((W \o out)[k].samples)
        BY <1>7 DEF Measured
    <2>1. CASE k <= Len(W) BY <1>7, <2>1 DEF Measured
    <2>2. CASE ~(k <= Len(W))
        <3>1. k - Len(W) \in 1 .. count BY <1>2, <1>7, <2>2
        <3> QED BY <1>3, <1>7, <2>2, <3>1
    <2> QED BY <2>1, <2>2
<1> DEFINE before == W \o Q
           after == (W \o out) \o rest
<1>9. /\ Len(before) = Len(W) + Len(Q)
      /\ \A i \in 1 .. Len(W) + Len(Q) : before[i] = IF i <= Len(W) THEN W[i] ELSE Q[i - Len(W)]
    BY ConcatProperties
<1>10. /\ Len(after) = Len(W) + count + (Len(Q) - count)
       /\ \A i \in 1 .. Len(W) + count + (Len(Q) - count) :
            after[i] = IF i <= Len(W) + count THEN (W \o out)[i] ELSE rest[i - (Len(W) + count)]
    <2> DEFINE V == W \o out
    <2> HIDE DEF V
    <2>1. /\ Len(V \o rest) = Len(V) + Len(rest)
          /\ \A i \in 1 .. Len(V) + Len(rest) :
               (V \o rest)[i] = IF i <= Len(V) THEN V[i] ELSE rest[i - Len(V)]
        BY <1>5, <1>7, ConcatProperties DEF V
    <2> QED BY <1>5, <1>7, <2>1 DEF V
<1> HIDE DEF before, after
<1>11. Len(before) = Len(after) BY <1>2, <1>7, <1>9, <1>10
<1>12. ASSUME NEW k \in 1 .. Len(before)
       PROVE  before[k].pts = after[k].pts /\ before[k].samples = after[k].samples
    <2>1. k \in 1 .. Len(W) + Len(Q) /\ k \in 1 .. Len(W) + count + (Len(Q) - count)
        BY <1>2, <1>7, <1>9, <1>12
    <2>2. CASE k <= Len(W)
        <3>1. k \in 1 .. Len(W) + count /\ k <= Len(W) + count BY <1>2, <1>7, <2>1, <2>2
        <3>2. before[k] = W[k] /\ after[k] = (W \o out)[k] /\ (W \o out)[k] = W[k]
            BY <1>7, <1>9, <1>10, <2>1, <2>2, <3>1
        <3> QED BY <3>2
    <2>3. CASE ~(k <= Len(W)) /\ k <= Len(W) + count
        <3>1. k - Len(W) \in 1 .. count /\ k \in 1 .. Len(W) + count BY <1>2, <1>7, <2>1, <2>3
        <3>2. before[k] = Q[k - Len(W)] /\ after[k] = out[k - Len(W)]
            BY <1>7, <1>9, <1>10, <2>1, <2>3, <3>1
        <3> QED BY <1>3, <3>1, <3>2
    <2>4. CASE ~(k <= Len(W) + count)
        <3>1. k - (Len(W) + count) \in 1 .. Len(Q) - count /\ ~(k <= Len(W))
              /\ count + (k - (Len(W) + count)) = k - Len(W)
            BY <1>2, <1>7, <2>1, <2>4
        <3>2. before[k] = Q[k - Len(W)] /\ after[k] = rest[k - (Len(W) + count)]
            BY <1>9, <1>10, <2>1, <2>4, <3>1
        <3> QED BY <1>5, <3>1, <3>2
    <2> QED BY <2>2, <2>3, <2>4
<1>13. Alike(before, after) BY <1>11, <1>12 DEF Alike
<1>14. written' = [u \in DOMAIN written' |-> written'[u]]
    BY <1>1
<1> QED BY <1>5, <1>6, <1>7, <1>8, <1>13, <1>14 DEF before, after, rest

(* Numbers of samples, in a row.                                           *)
LEMMA NumbersShape ==
    ASSUME NEW from \in Nat, NEW len \in Nat
    PROVE  /\ Conversion!Numbers(from, len) \in Seq(Nat)
           /\ Len(Conversion!Numbers(from, len)) = len
           /\ \A k \in 1 .. len : Conversion!Numbers(from, len)[k] = from + k
           /\ Conversion!Silence(len) \in Seq(Nat)
           /\ Len(Conversion!Silence(len)) = len
<1>1. Conversion!Numbers(from, len) \in [1 .. len -> Nat] BY DEF Conversion!Numbers
<1>2. Conversion!Silence(len) \in [1 .. len -> Nat] BY DEF Conversion!Silence
<1>3. \A k \in 1 .. len : Conversion!Numbers(from, len)[k] = from + k BY DEF Conversion!Numbers
<1> QED BY <1>1, <1>2, <1>3

LEMMA NumbersJoin ==
    ASSUME NEW m \in Nat, NEW n \in Nat
    PROVE  Conversion!Numbers(0, m) \o Conversion!Numbers(m, n) = Conversion!Numbers(0, m + n)
<1> DEFINE a == Conversion!Numbers(0, m)
           b == Conversion!Numbers(m, n)
           c == Conversion!Numbers(0, m + n)
<1>1. /\ a \in Seq(Nat) /\ b \in Seq(Nat) /\ c \in Seq(Nat)
      /\ Len(a) = m /\ Len(b) = n /\ Len(c) = m + n
      /\ \A k \in 1 .. m : a[k] = 0 + k
      /\ \A k \in 1 .. n : b[k] = m + k
      /\ \A k \in 1 .. m + n : c[k] = 0 + k
    <2>1. 0 \in Nat /\ m + n \in Nat OBVIOUS
    <2>2. a \in Seq(Nat) /\ Len(a) = m /\ \A k \in 1 .. m : a[k] = 0 + k
        BY <2>1, NumbersShape
    <2>3. b \in Seq(Nat) /\ Len(b) = n /\ \A k \in 1 .. n : b[k] = m + k
        BY NumbersShape
    <2>4. c \in Seq(Nat) /\ Len(c) = m + n /\ \A k \in 1 .. m + n : c[k] = 0 + k
        BY <2>1, NumbersShape
    <2> QED BY <2>2, <2>3, <2>4
<1> HIDE DEF a, b, c
<1>2. /\ a \o b \in Seq(Nat) /\ Len(a \o b) = m + n
      /\ \A k \in 1 .. m + n : (a \o b)[k] = IF k <= m THEN a[k] ELSE b[k - m]
    BY <1>1, ConcatProperties
<1>3. ASSUME NEW k \in 1 .. m + n PROVE (a \o b)[k] = c[k]
    <2>1. CASE k <= m BY <1>1, <1>2, <2>1
    <2>2. CASE ~(k <= m)
        <3>1. k - m \in 1 .. n BY <2>2
        <3> QED BY <1>1, <1>2, <2>2, <3>1
    <2> QED BY <2>1, <2>2
<1>4. a \o b = c BY <1>1, <1>2, <1>3, SeqEqual
<1> QED BY <1>4 DEF a, b, c

LEMMA NothingYet == Conversion!Numbers(0, 0) = <<>> /\ Conversion!Silence(0) = <<>>
BY DEF Conversion!Numbers, Conversion!Silence

-----------------------------------------------------------------------------
(* The invariant of a conversion *)

LaneType == [fed : Nat, ended : BOOLEAN, decoded : Nat, index : Nat, origin : SUBSET Int,
             fifo : Seq(Nat), encoder : Seq(PacketType)]

Frames(t) == source.streams[t].frames
Through(t) == written[t] \o lane[t].encoder

(* Nothing is decoded that was not read.                                   *)
LaneSound(t) ==
    /\ lane[t] \in LaneType /\ written[t] \in Seq(PacketType)
    /\ lane[t].decoded <= lane[t].fed /\ lane[t].fed <= Len(Frames(t))
    /\ lane[t].ended => lane[t].fed = Len(Frames(t))
    /\ source.streams[t].medium = "video" => lane[t].fifo = <<>>

(* Packets follow each other, and those that were written last as long as  *)
(* their samples.                                                          *)
PacketsFollow(t) ==
    /\ Follow(Through(t), lane[t].index)
    /\ Len(Conversion!Samples(Through(t))) = lane[t].index
    /\ Measured(written[t])
    /\ Single(t, Through(t))

Clock(t) == Conversion!Position(t, lane[t].decoded)

(* NothingLost of one stream.                                              *)
Kept(t) ==
    LET out == Conversion!Samples(Through(t))
        decoded == Conversion!Numbers(0, Clock(t))
    IN  \/ out \o lane[t].fifo = decoded
        \/ /\ source.format = "mp3"
           /\ lane[t].fifo = <<>> /\ lane[t].decoded = Len(Frames(t))
           /\ \E n \in 1 .. FrameSize - 1 : out = decoded \o Conversion!Silence(n)

(* Every frame that has a time was where the clock of its stream expects   *)
(* it.                                                                     *)
Place(t, k) == Frames(t)[k].time - Conversion!Position(t, k - 1) * source.streams[t].tick
Timed(t, origin, n) ==
    /\ source.format = "mp4" => origin = {0}
    /\ \A a, b \in origin : a = b
    /\ \A k \in 1 .. n : Frames(t)[k].time # Conversion!NoTime =>
         \E o \in origin : Place(t, k) - o \in -1 .. 1
InPlace(t) == Timed(t, lane[t].origin, lane[t].decoded)

LaneInv(t) == LaneSound(t) /\ PacketsFollow(t) /\ Kept(t) /\ InPlace(t)

(* A stream that was flushed.                                              *)
Flushed(t) ==
    /\ lane[t].fifo = <<>> /\ lane[t].encoder = <<>>
    /\ lane[t].decoded = Len(Frames(t))
FlushedBelow(n) == \A t \in DOMAIN lane : t < n => Flushed(t)
AllRead == \A t \in DOMAIN lane : lane[t].fed = Len(Frames(t))
StillReading == \A t \in DOMAIN lane : ~lane[t].ended

(* Where the conversion is says what it has done.                          *)
StageSound ==
    LET t == point.stream IN
    /\ point.at \in {"open", "reading", "decoding", "encoding", "flush", "emptying", "trailer",
                     "done", "failed"}
    /\ point.at \notin {"open", "failed"} => DOMAIN lane = DOMAIN source.streams
    /\ point.at \in {"decoding", "encoding", "flush", "emptying"} => t \in DOMAIN lane
    /\ point.at = "reading" => StillReading
    /\ point.at \in {"decoding", "encoding"} =>
         IF lane[t].ended THEN AllRead /\ FlushedBelow(t) ELSE StillReading
    /\ point.at = "flush" => AllRead /\ FlushedBelow(t)
    /\ point.at = "emptying" => AllRead /\ FlushedBelow(t) /\ lane[t].ended
                                /\ lane[t].decoded = lane[t].fed
    /\ point.at \in {"trailer", "done"} => \A u \in DOMAIN lane : Flushed(u)

ConversionIInv ==
    /\ source \in MediaSource
    /\ DOMAIN written = DOMAIN source.streams /\ written = [t \in DOMAIN written |-> written[t]]
    /\ DOMAIN lane \subseteq DOMAIN source.streams /\ lane = [t \in DOMAIN lane |-> lane[t]]
    /\ point.at = "open" => lane = <<>> /\ \A t \in DOMAIN written : written[t] = <<>>
    /\ StageSound
    /\ \A t \in DOMAIN lane : LaneInv(t)

-----------------------------------------------------------------------------
LEMMA LaneShape ==
    ASSUME NEW x \in LaneType
    PROVE  /\ x.fed \in Nat /\ x.ended \in BOOLEAN /\ x.decoded \in Nat /\ x.index \in Nat
           /\ x.origin \subseteq Int /\ x.fifo \in Seq(Nat) /\ x.encoder \in Seq(PacketType)
BY DEF LaneType

(* One packet is sent and some leave the encoder.                          *)
LEMMA SendKeeps ==
    ASSUME source \in MediaSource, NEW t \in DOMAIN source.streams,
           DOMAIN written = DOMAIN source.streams, written = [u \in DOMAIN written |-> written[u]],
           t \in DOMAIN lane, lane = [u \in DOMAIN lane |-> lane[u]],
           LaneSound(t), PacketsFollow(t),
           NEW next \in LaneType, next.index = lane[t].index,
           NEW packet \in PacketType, packet.pts = lane[t].index,
           source.streams[t].medium = "video" => Len(packet.samples) = 1,
           Conversion!Send(t, next, packet), UNCHANGED source
    PROVE  /\ \A u \in DOMAIN lane : u # t => lane'[u] = lane[u]
           /\ DOMAIN lane' = DOMAIN lane /\ lane' = [u \in DOMAIN lane' |-> lane'[u]]
           /\ \A u \in DOMAIN written : u # t => written'[u] = written[u]
           /\ DOMAIN written' = DOMAIN written /\ written' = [u \in DOMAIN written' |-> written'[u]]
           /\ lane'[t] \in LaneType /\ written'[t] \in Seq(PacketType)
           /\ lane'[t].fed = next.fed /\ lane'[t].ended = next.ended
           /\ lane'[t].decoded = next.decoded /\ lane'[t].origin = next.origin
           /\ lane'[t].fifo = next.fifo
           /\ PacketsFollow(t)'
           /\ Conversion!Samples(Through(t)') = Conversion!Samples(Through(t)) \o packet.samples
           /\ Conversion!Samples(Through(t)) \in Seq(Nat)
<1> DEFINE E == lane[t].encoder
           W == written[t]
           queue == Append(E, packet)
<1>1. /\ E \in Seq(PacketType) /\ W \in Seq(PacketType) /\ lane[t].index \in Nat
      /\ Len(packet.samples) \in Nat
    <2>1. lane[t] \in LaneType /\ W \in Seq(PacketType) BY DEF LaneSound
    <2>2. <<packet>> \in Seq(PacketType) /\ Len(<<packet>>) = 1 /\ <<packet>>[1] = packet OBVIOUS
    <2>3. Len(<<packet>>[1].samples) \in Nat BY <2>2, PacketShape
    <2> QED BY <2>1, <2>2, <2>3, LaneShape
<1>2. PICK count \in 0 .. Len(queue) :
          /\ Conversion!Drain(t, queue, count)
          /\ lane' = [lane EXCEPT ![t] = [next EXCEPT !.encoder = SubSeq(queue, count + 1, Len(queue)),
                                                      !.index = @ + Len(packet.samples)]]
    BY DEF Conversion!Send
<1>3. /\ queue \in Seq(PacketType) /\ Len(queue) = Len(E) + 1 /\ queue[Len(E) + 1] = packet
      /\ \A k \in 1 .. Len(E) : queue[k] = E[k]
    BY <1>1
<1> DEFINE P == W \o E
           rest == SubSeq(queue, count + 1, Len(queue))
<1>4. /\ P = Through(t) /\ P \in Seq(PacketType) /\ Follow(P, lane[t].index) /\ Measured(W)
      /\ Len(Conversion!Samples(P)) = lane[t].index /\ Single(t, P)
    BY <1>1, ConcatProperties DEF Through, PacketsFollow
<1>5. W \o queue = Append(P, packet)
    <2> HIDE DEF E, W
    <2>1. /\ W \o queue \in Seq(PacketType) /\ Append(P, packet) \in Seq(PacketType)
          /\ Len(W \o queue) = Len(W) + Len(E) + 1 /\ Len(Append(P, packet)) = Len(W) + Len(E) + 1
        BY <1>1, <1>3, ConcatProperties
    <2>2. ASSUME NEW k \in 1 .. Len(W) + Len(E) + 1
          PROVE  (W \o queue)[k] = Append(P, packet)[k]
        <3>1. /\ Len(W) \in Nat /\ Len(E) \in Nat /\ Len(P) = Len(W) + Len(E)
              /\ \A i \in 1 .. Len(W) + Len(E) : P[i] = IF i <= Len(W) THEN W[i] ELSE E[i - Len(W)]
            BY <1>1, ConcatProperties
        <3>2. (W \o queue)[k] = IF k <= Len(W) THEN W[k] ELSE queue[k - Len(W)]
            <4> HIDE DEF queue, P
            <4> QED BY <1>1, <1>3, <3>1, ConcatProperties
        <3> HIDE DEF P
        <3>3. CASE k = Len(W) + Len(E) + 1
            <4>1. k - Len(W) = Len(E) + 1 /\ ~(k <= Len(W)) BY <3>1, <3>3
            <4>2. Append(P, packet)[k] = packet BY <1>4, <3>1, <3>3
            <4> QED BY <1>3, <3>2, <4>1, <4>2
        <3>4. CASE k # Len(W) + Len(E) + 1
            <4>1. k \in 1 .. Len(P) /\ (~(k <= Len(W)) => k - Len(W) \in 1 .. Len(E))
                BY <3>1, <3>4
            <4>2. Append(P, packet)[k] = P[k] BY <1>4, <4>1
            <4> HIDE DEF queue
            <4> QED BY <1>3, <3>1, <3>2, <4>1, <4>2
        <3> QED BY <3>3, <3>4
    <2> QED BY <2>1, <2>2, SeqEqual
<1>6. Single(t, queue)
    <2> SUFFICES ASSUME source.streams[t].medium = "video", NEW k \in 1 .. Len(queue)
                 PROVE  Len(queue[k].samples) = 1
        BY DEF Single
    <2>1. CASE k = Len(E) + 1 BY <1>3, <2>1
    <2>2. CASE k # Len(E) + 1
        <3> HIDE DEF E, W, queue
        <3>1. k \in 1 .. Len(E) /\ Len(W) + k \in 1 .. Len(P) /\ P[Len(W) + k] = E[k]
            BY <1>1, <1>3, <2>2, ConcatProperties
        <3> QED BY <1>3, <1>4, <3>1 DEF Single
    <2> QED BY <2>1, <2>2
<1> HIDE DEF queue
<1>7. /\ \A u \in DOMAIN written : u # t => written'[u] = written[u]
      /\ DOMAIN written' = DOMAIN written /\ written' = [u \in DOMAIN written' |-> written'[u]]
      /\ written'[t] \in Seq(PacketType) /\ Measured(written'[t])
      /\ rest \in Seq(PacketType)
      /\ Alike(W \o queue, written'[t] \o rest)
    BY <1>1, <1>2, <1>3, <1>4, <1>6, DrainKeeps
<1> HIDE DEF rest, E, W, P
<1>8. /\ lane'[t] = [next EXCEPT !.encoder = rest, !.index = @ + Len(packet.samples)]
      /\ DOMAIN lane' = DOMAIN lane /\ \A u \in DOMAIN lane : u # t => lane'[u] = lane[u]
      /\ lane' = [u \in DOMAIN lane' |-> lane'[u]]
    BY <1>2 DEF rest
<1>9. /\ lane'[t] \in LaneType /\ lane'[t].encoder = rest
      /\ lane'[t].index = lane[t].index + Len(packet.samples)
      /\ lane'[t].fed = next.fed /\ lane'[t].ended = next.ended
      /\ lane'[t].decoded = next.decoded /\ lane'[t].origin = next.origin
      /\ lane'[t].fifo = next.fifo
    <2>1. next.index + Len(packet.samples) \in Nat BY <1>1
    <2> QED BY <1>1, <1>7, <1>8, <2>1 DEF LaneType
<1> DEFINE R == written'[t] \o rest
           Q == Append(P, packet)
<1>10. Q \in Seq(PacketType) /\ R \in Seq(PacketType) /\ Alike(Q, R) /\ Through(t)' = R
    BY <1>4, <1>5, <1>7, <1>9, ConcatProperties DEF Through
<1>11. /\ Conversion!Samples(P) \in Seq(Nat)
       /\ Conversion!Samples(Q) = Conversion!Samples(P) \o packet.samples
    BY <1>4, SamplesSnoc
<1>12. Follow(Q, lane[t].index + Len(packet.samples))
    BY <1>1, <1>4, FollowSnoc
<1>13. Conversion!Samples(R) = Conversion!Samples(Q) BY <1>10, SamplesAlike
<1>14. Follow(R, lane'[t].index)
    <2> HIDE DEF Q, R
    <2> QED BY <1>9, <1>10, <1>12, FollowAlike
<1>15. Len(Conversion!Samples(R)) = lane'[t].index
    <2>1. packet.samples \in Seq(Nat) BY DEF PacketType
    <2>2. Len(Conversion!Samples(P) \o packet.samples) = lane[t].index + Len(packet.samples)
        BY <1>4, <1>11, <2>1, ConcatProperties
    <2> QED BY <1>9, <1>11, <1>13, <2>2
<1>16. Single(t, R)
    <2> SUFFICES ASSUME source.streams[t].medium = "video", NEW k \in 1 .. Len(R)
                 PROVE  Len(R[k].samples) = 1
        BY DEF Single
    <2>1. k \in 1 .. Len(Q) /\ Q[k].samples = R[k].samples
        <3> HIDE DEF Q, R
        <3> QED BY <1>10 DEF Alike
    <2>2. Len(Q[k].samples) = 1
        <3>1. CASE k = Len(P) + 1 BY <1>4, <3>1
        <3>2. CASE k # Len(P) + 1
            <4>1. k \in 1 .. Len(P) /\ Q[k] = P[k] BY <1>4, <2>1, <3>2
            <4> QED BY <1>4, <4>1 DEF Single
        <3> QED BY <3>1, <3>2
    <2> QED BY <2>1, <2>2
<1>17. PacketsFollow(t)'
    <2> HIDE DEF R, Q
    <2>1. Through(t)' = R BY <1>10
    <2>2. /\ source'.streams[t].medium = "video" => \A k \in 1 .. Len(R) : Len(R[k].samples) = 1
          /\ \A k \in 1 .. Len(written'[t]) : written'[t][k].duration = Len(written'[t][k].samples)
        BY <1>7, <1>16 DEF Single, Measured
    <2>3. /\ R # <<>> => R[1].pts = 0
          /\ \A k \in 1 .. Len(R) :
               R[k].pts + Len(R[k].samples) = IF k = Len(R) THEN lane'[t].index ELSE R[k + 1].pts
          /\ R = <<>> => lane'[t].index = 0
        BY <1>14 DEF Follow
    <2> HIDE DEF Through
    <2> QED BY <1>15, <2>1, <2>2, <2>3 DEF PacketsFollow, Measured, Single, Follow
<1> QED BY <1>4, <1>7, <1>8, <1>9, <1>10, <1>11, <1>13, <1>17

-----------------------------------------------------------------------------
(* What a step leaves alone                                                *)

LEMMA ClockMoves ==
    ASSUME source' = source, NEW t
    PROVE  /\ Clock(t)' = Conversion!Position(t, lane'[t].decoded)
           /\ \A k : Place(t, k)' = Place(t, k)
           /\ Frames(t)' = Frames(t)
<1>1. Clock(t)' = Conversion!Position(t, lane'[t].decoded)
    BY DEF Clock, Conversion!Position, Conversion!Stream
<1>2. ASSUME NEW k PROVE Place(t, k)' = Place(t, k)
    BY DEF Place, Frames, Conversion!Position, Conversion!Stream
<1>3. Frames(t)' = Frames(t) BY DEF Frames
<1> QED BY <1>1, <1>2, <1>3

LEMMA LaneAlike ==
    ASSUME NEW t, LaneInv(t), source' = source, written'[t] = written[t], LaneSound(t)',
           lane'[t].decoded = lane[t].decoded, lane'[t].index = lane[t].index,
           lane'[t].origin = lane[t].origin, lane'[t].fifo = lane[t].fifo,
           lane'[t].encoder = lane[t].encoder
    PROVE  LaneInv(t)'
<1>1. /\ Clock(t)' = Clock(t) /\ Through(t)' = Through(t) /\ Frames(t)' = Frames(t)
      /\ \A k : Place(t, k)' = Place(t, k)
    BY ClockMoves DEF Clock, Through
<1>2. PacketsFollow(t)'
    <2>1. PacketsFollow(t) BY DEF LaneInv
    <2> HIDE DEF Through
    <2> QED BY <1>1, <2>1 DEF PacketsFollow, Measured, Single, Follow
<1>3. Kept(t)'
    <2>1. Kept(t) BY DEF LaneInv
    <2> HIDE DEF Through, Clock, Frames
    <2> QED BY <1>1, <2>1 DEF Kept
<1>4. InPlace(t)'
    <2>1. InPlace(t) BY DEF LaneInv
    <2> HIDE DEF Place, Frames
    <2> QED BY <1>1, <2>1 DEF InPlace, Timed
<1> QED BY <1>2, <1>3, <1>4 DEF LaneInv

LEMMA LaneStays ==
    ASSUME NEW t, LaneInv(t), source' = source, lane'[t] = lane[t], written'[t] = written[t]
    PROVE  LaneInv(t)'
<1>1. LaneSound(t)' BY DEF LaneInv, LaneSound, Frames
<1> QED BY <1>1, LaneAlike

LEMMA OneLane ==
    ASSUME ConversionIInv, source' = source, point'.at # "open", StageSound',
           NEW t \in DOMAIN lane, LaneInv(t)',
           DOMAIN lane' = DOMAIN lane, lane' = [u \in DOMAIN lane' |-> lane'[u]],
           \A u \in DOMAIN lane : u # t => lane'[u] = lane[u],
           DOMAIN written' = DOMAIN written, written' = [u \in DOMAIN written' |-> written'[u]],
           \A u \in DOMAIN written : u # t => written'[u] = written[u]
    PROVE  ConversionIInv'
<1>1. ASSUME NEW u \in DOMAIN lane' PROVE LaneInv(u)'
    <2>1. CASE u = t BY <2>1
    <2>2. CASE u # t
        <3>1. u \in DOMAIN lane /\ u \in DOMAIN written /\ LaneInv(u) BY DEF ConversionIInv
        <3> QED BY <2>2, <3>1, LaneStays
    <2> QED BY <2>1, <2>2
<1> QED BY <1>1 DEF ConversionIInv

LEMMA NoLane ==
    ASSUME ConversionIInv, source' = source, lane' = lane, written' = written,
           point'.at # "open", StageSound'
    PROVE  ConversionIInv'
<1>1. ASSUME NEW u \in DOMAIN lane' PROVE LaneInv(u)'
    <2>1. LaneInv(u) BY DEF ConversionIInv
    <2> QED BY <2>1, LaneStays
<1> QED BY <1>1 DEF ConversionIInv
-----------------------------------------------------------------------------
(* The steps of a conversion                                               *)

LEMMA FailKeeps == ASSUME ConversionIInv, Conversion!Fails PROVE ConversionIInv'
<1>1. source' = source /\ lane' = lane /\ written' = written /\ point'.at = "failed"
    BY DEF Conversion!Fails, Conversion!Goto
<1>2. StageSound' BY <1>1 DEF StageSound
<1> QED BY <1>1, <1>2, NoLane

LEMMA OpenKeeps == ASSUME ConversionIInv, Conversion!Open PROVE ConversionIInv'
<1>1. /\ point.at = "open" /\ lane = <<>> /\ source \in MediaSource
      /\ \A t \in DOMAIN written : written[t] = <<>>
      /\ DOMAIN written = DOMAIN source.streams /\ written = [t \in DOMAIN written |-> written[t]]
      /\ source' = source /\ written' = written
    BY DEF ConversionIInv, Conversion!Open, Conversion!On
<1>2. CASE point' = [at |-> "failed", stream |-> 1] /\ UNCHANGED lane
    BY <1>1, <1>2, FailKeeps DEF Conversion!Fails, Conversion!Goto
<1>3. CASE /\ point' = [at |-> "reading", stream |-> 1]
           /\ lane' = [t \in Conversion!Streams |-> Conversion!NewLane]
    <2>1. /\ point'.at = "reading" /\ point'.stream = 1 /\ DOMAIN lane' = DOMAIN source.streams
          /\ lane' = [t \in DOMAIN lane' |-> lane'[t]]
          /\ \A t \in DOMAIN lane' : lane'[t] = Conversion!NewLane
        BY <1>3 DEF Conversion!Streams
    <2>2. /\ Conversion!NewLane \in LaneType
          /\ Conversion!NewLane.fed = 0 /\ ~Conversion!NewLane.ended
          /\ Conversion!NewLane.decoded = 0 /\ Conversion!NewLane.index = 0
          /\ Conversion!NewLane.origin = IF source.format = "mp4" THEN {0} ELSE {}
          /\ Conversion!NewLane.fifo = <<>> /\ Conversion!NewLane.encoder = <<>>
        BY DEF Conversion!NewLane, LaneType
    <2>3. ASSUME NEW t \in DOMAIN lane' PROVE LaneInv(t)'
        <3>1. /\ lane'[t] = Conversion!NewLane /\ written'[t] = <<>> /\ t \in DOMAIN source.streams
              /\ Frames(t)' = Frames(t)
            BY <1>1, <2>1 DEF Frames
        <3>2. <<>> \in Seq(PacketType) /\ Len(Frames(t)) \in Nat
            BY <1>1, <3>1, StreamShape DEF Frames
        <3>3. LaneSound(t)'
            <4> HIDE DEF Frames
            <4> QED BY <1>1, <2>2, <3>1, <3>2 DEF LaneSound
        <3>4. Through(t)' = <<>> BY <2>2, <3>1, <3>2 DEF Through
        <3>5. Clock(t)' = 0 BY <1>1, <2>2, <3>1, ClockMoves, PositionShape
        <3>6. PacketsFollow(t)'
            <4> HIDE DEF Through
            <4> QED BY <2>2, <3>1, <3>4, SamplesNone DEF PacketsFollow, Measured, Single, Follow
        <3>7. Kept(t)'
            <4>1. Conversion!Samples(<<>>) \o <<>> = Conversion!Numbers(0, 0)
                BY SamplesNone, NothingYet
            <4> HIDE DEF Through, Clock, Frames
            <4> QED BY <2>2, <3>1, <3>4, <3>5, <4>1 DEF Kept
        <3>8. InPlace(t)'
            <4> HIDE DEF Place, Frames
            <4> QED BY <1>1, <2>2, <3>1 DEF InPlace, Timed
        <3> QED BY <3>3, <3>6, <3>7, <3>8 DEF LaneInv
    <2>4. StageSound' BY <1>1, <2>1, <2>2 DEF StageSound, StillReading
    <2> QED BY <1>1, <2>1, <2>3, <2>4 DEF ConversionIInv
<1> QED BY <1>1, <1>2, <1>3 DEF Conversion!Open, Conversion!Goto

LEMMA ReadKeeps == ASSUME ConversionIInv, Conversion!Read PROVE ConversionIInv'
<1>1. PICK t \in DOMAIN source.streams :
          /\ lane[t].fed < Len(Frames(t))
          /\ lane' = [lane EXCEPT ![t].fed = @ + 1]
          /\ point' = [at |-> "decoding", stream |-> t]
    BY DEF Conversion!Read, Conversion!Streams, Conversion!Stream, Conversion!Goto, Frames
<1>2. /\ point.at = "reading" /\ source' = source /\ written' = written
      /\ source \in MediaSource /\ StageSound /\ DOMAIN lane = DOMAIN source.streams /\ StillReading
      /\ lane = [u \in DOMAIN lane |-> lane[u]] /\ LaneInv(t)
      /\ written = [u \in DOMAIN written |-> written[u]]
    BY DEF Conversion!Read, Conversion!On, ConversionIInv, StageSound
<1>3. /\ lane'[t] = [lane[t] EXCEPT !.fed = @ + 1] /\ DOMAIN lane' = DOMAIN lane
      /\ \A u \in DOMAIN lane : u # t => lane'[u] = lane[u]
      /\ lane' = [u \in DOMAIN lane' |-> lane'[u]]
    BY <1>1, <1>2
<1>4. /\ lane[t] \in LaneType /\ lane'[t] \in LaneType /\ lane'[t].fed = lane[t].fed + 1
      /\ lane'[t].ended = lane[t].ended /\ lane'[t].decoded = lane[t].decoded
      /\ lane'[t].index = lane[t].index /\ lane'[t].origin = lane[t].origin
      /\ lane'[t].fifo = lane[t].fifo /\ lane'[t].encoder = lane[t].encoder
      /\ ~lane[t].ended
    BY <1>2, <1>3 DEF LaneInv, LaneSound, LaneType, StillReading
<1>5. LaneInv(t)'
    <2>1. Frames(t)' = Frames(t) /\ Len(Frames(t)) \in Nat
        BY <1>2, StreamShape DEF Frames
    <2>2. LaneSound(t)'
        <3>1. LaneSound(t) BY <1>2 DEF LaneInv
        <3> HIDE DEF Frames
        <3> QED BY <1>1, <1>2, <1>4, <2>1, <3>1, LaneShape DEF LaneSound
    <2> QED BY <1>2, <1>4, <2>2, LaneAlike
<1>6. StageSound'
    <2>1. StillReading' BY <1>2, <1>3, <1>4 DEF StillReading
    <2> QED BY <1>1, <1>2, <1>3, <1>4, <2>1 DEF StageSound
<1>7. point'.at # "open" BY <1>1
<1> QED BY <1>2, <1>3, <1>5, <1>6, <1>7, OneLane
LEMMA EndOfInputKeeps == ASSUME ConversionIInv, Conversion!EndOfInput PROVE ConversionIInv'
<1>1. /\ point.at = "reading" /\ point' = [at |-> "flush", stream |-> 1]
      /\ \A t \in DOMAIN source.streams : lane[t].fed = Len(Frames(t))
      /\ source' = source /\ lane' = lane /\ written' = written
    BY DEF Conversion!EndOfInput, Conversion!On, Conversion!Goto, Conversion!Streams,
           Conversion!Stream, Frames
<1>2. DOMAIN lane = DOMAIN source.streams /\ 1 \in DOMAIN lane /\ DOMAIN lane \subseteq Nat \ {0}
    <2>1. source \in MediaSource /\ DOMAIN lane = DOMAIN source.streams
        BY <1>1 DEF ConversionIInv, StageSound
    <2>2. source.streams \in Seq(MediaStream) /\ source.streams # <<>> BY <2>1 DEF MediaSource
    <2> QED BY <2>1, <2>2
<1>3. AllRead /\ FlushedBelow(1) BY <1>1, <1>2 DEF AllRead, FlushedBelow
<1>4. StageSound'
    <2>1. AllRead' /\ FlushedBelow(1)' BY <1>1, <1>3 DEF AllRead, FlushedBelow, Flushed, Frames
    <2>2. /\ point'.at = "flush" /\ point'.stream = 1 /\ 1 \in DOMAIN lane'
          /\ DOMAIN lane' = DOMAIN source'.streams
        BY <1>1, <1>2
    <2> HIDE DEF AllRead, FlushedBelow
    <2>3. FlushedBelow(point.stream)' BY <2>1, <2>2 DEF FlushedBelow, Flushed, Frames
    <2> QED BY <2>1, <2>2, <2>3 DEF StageSound
<1>5. point'.at # "open" BY <1>1
<1> QED BY <1>1, <1>4, <1>5, NoLane

LEMMA FlushKeeps == ASSUME ConversionIInv, Conversion!Flush PROVE ConversionIInv'
<1>t. PICK t : t = point.stream OBVIOUS
<1>1. /\ point.at = "flush" /\ point' = [at |-> "decoding", stream |-> t]
      /\ lane' = [lane EXCEPT ![t].ended = TRUE]
      /\ source' = source /\ written' = written
    BY <1>t DEF Conversion!Flush, Conversion!On, Conversion!Goto
<1>2. /\ source \in MediaSource /\ DOMAIN lane = DOMAIN source.streams /\ t \in DOMAIN lane
      /\ AllRead /\ FlushedBelow(t) /\ LaneInv(t)
      /\ lane = [u \in DOMAIN lane |-> lane[u]] /\ written = [u \in DOMAIN written |-> written[u]]
    BY <1>1, <1>t DEF ConversionIInv, StageSound
<1>3. /\ lane'[t] = [lane[t] EXCEPT !.ended = TRUE] /\ DOMAIN lane' = DOMAIN lane
      /\ \A u \in DOMAIN lane : u # t => lane'[u] = lane[u]
      /\ lane' = [u \in DOMAIN lane' |-> lane'[u]]
    BY <1>1, <1>2
<1>4. /\ lane[t] \in LaneType /\ lane'[t] \in LaneType /\ lane'[t].fed = lane[t].fed
      /\ lane'[t].ended /\ lane'[t].decoded = lane[t].decoded
      /\ lane'[t].index = lane[t].index /\ lane'[t].origin = lane[t].origin
      /\ lane'[t].fifo = lane[t].fifo /\ lane'[t].encoder = lane[t].encoder
    BY <1>2, <1>3 DEF LaneInv, LaneSound, LaneType
<1>5. LaneInv(t)'
    <2>1. Frames(t)' = Frames(t) BY <1>1 DEF Frames
    <2>2. LaneSound(t)'
        <3>1. LaneSound(t) /\ lane[t].fed = Len(Frames(t)) BY <1>2 DEF LaneInv, AllRead
        <3> HIDE DEF Frames
        <3> QED BY <1>1, <1>4, <2>1, <3>1 DEF LaneSound
    <2> QED BY <1>1, <1>2, <1>4, <2>2, LaneAlike
<1>6. AllRead' /\ point'.at = "decoding" /\ point'.stream = t
    BY <1>1, <1>2, <1>3, <1>4 DEF AllRead, Frames
<1>7. \A u \in DOMAIN lane' : u < t => Flushed(u)'
    <2> SUFFICES ASSUME NEW u \in DOMAIN lane, u < t PROVE Flushed(u)'
        BY <1>3
    <2>1. Flushed(u) BY <1>2 DEF FlushedBelow
    <2>2. lane'[u].fifo = lane[u].fifo /\ lane'[u].encoder = lane[u].encoder
          /\ lane'[u].decoded = lane[u].decoded
        BY <1>3, <1>4
    <2> QED BY <1>1, <2>1, <2>2 DEF Flushed, Frames
<1>8. StageSound' BY <1>1, <1>2, <1>3, <1>4, <1>6, <1>7 DEF StageSound, FlushedBelow
<1>9. t \in DOMAIN lane /\ point'.at # "open" BY <1>1, <1>2
<1>10. /\ DOMAIN written' = DOMAIN written
       /\ written' = [u \in DOMAIN written' |-> written'[u]]
       /\ \A u \in DOMAIN written : u # t => written'[u] = written[u]
    BY <1>1, <1>2
<1>11. /\ source' = source /\ DOMAIN lane' = DOMAIN lane
       /\ lane' = [u \in DOMAIN lane' |-> lane'[u]]
       /\ \A u \in DOMAIN lane : u # t => lane'[u] = lane[u]
    BY <1>1, <1>3
<1> QED BY <1>5, <1>8, <1>9, <1>10, <1>11, OneLane

LEMMA ChunksDoneKeeps == ASSUME ConversionIInv, Conversion!ChunksDone PROVE ConversionIInv'
<1>1. /\ point.at = "encoding" /\ point' = [at |-> "decoding", stream |-> point.stream]
      /\ source' = source /\ lane' = lane /\ written' = written
    BY DEF Conversion!ChunksDone, Conversion!On, Conversion!Goto
<1>2. StageSound BY DEF ConversionIInv
<1>3. StageSound'
    <2>1. point'.at = "decoding" /\ point'.stream = point.stream BY <1>1
    <2> QED BY <1>1, <1>2, <2>1
            DEF StageSound, AllRead, FlushedBelow, Flushed, StillReading, Frames
<1>4. point'.at # "open" BY <1>1
<1> QED BY <1>1, <1>3, <1>4, NoLane

LEMMA DecodedKeeps == ASSUME ConversionIInv, Conversion!Decoded PROVE ConversionIInv'
<1> DEFINE t == point.stream
<1>1. /\ point.at = "decoding" /\ source' = source /\ lane' = lane /\ written' = written
      /\ \/ ~lane[t].ended /\ point' = [at |-> "reading", stream |-> 1]
         \/ /\ lane[t].ended /\ lane[t].fed = lane[t].decoded
            /\ point' = [at |-> "emptying", stream |-> t]
    BY DEF Conversion!Decoded, Conversion!On, Conversion!Goto
<1>2. StageSound BY DEF ConversionIInv
<1>3. StageSound'
    <2>1. CASE ~lane[t].ended /\ point' = [at |-> "reading", stream |-> 1]
        <3>1. point'.at = "reading" BY <2>1
        <3> QED BY <1>1, <1>2, <2>1, <3>1 DEF StageSound, StillReading
    <2>2. CASE /\ lane[t].ended /\ lane[t].fed = lane[t].decoded
               /\ point' = [at |-> "emptying", stream |-> t]
        <3>1. point'.at = "emptying" /\ point'.stream = point.stream BY <2>2
        <3> QED BY <1>1, <1>2, <2>2, <3>1
                DEF StageSound, AllRead, FlushedBelow, Flushed, Frames
    <2> QED BY <1>1, <2>1, <2>2
<1>4. point'.at # "open" BY <1>1
<1> QED BY <1>1, <1>3, <1>4, NoLane

LEMMA TrailerKeeps == ASSUME ConversionIInv, Conversion!Trailer PROVE ConversionIInv'
<1>1. /\ point.at = "trailer" /\ point' = [at |-> "done", stream |-> 1]
      /\ source' = source /\ lane' = lane /\ written' = written
    BY DEF Conversion!Trailer, Conversion!On, Conversion!Goto
<1>2. StageSound BY DEF ConversionIInv
<1>3. point'.at = "done" BY <1>1
<1>4. StageSound' BY <1>1, <1>2, <1>3 DEF StageSound, Flushed, Frames
<1> QED BY <1>1, <1>3, <1>4, NoLane
LEMMA StageStays ==
    ASSUME ConversionIInv, source' = source, NEW t, t = point.stream, t \in DOMAIN lane,
           point'.stream = t,
           \/ {point.at, point'.at} \subseteq {"decoding", "encoding"}
           \/ point.at = "emptying" /\ point'.at = "emptying" /\ lane'[t].decoded = lane[t].decoded,
           DOMAIN lane' = DOMAIN lane, \A u \in DOMAIN lane : u # t => lane'[u] = lane[u],
           DOMAIN lane \subseteq Nat,
           lane'[t].fed = lane[t].fed, lane'[t].ended = lane[t].ended
    PROVE  StageSound'
<1>1. StageSound BY DEF ConversionIInv
<1>2. AllRead => AllRead' BY DEF AllRead, Frames
<1>3. StillReading => StillReading' BY DEF StillReading
<1>4. FlushedBelow(t) => \A u \in DOMAIN lane' : u < t => Flushed(u)'
    <2> SUFFICES ASSUME FlushedBelow(t), NEW u \in DOMAIN lane, u < t PROVE Flushed(u)'
        OBVIOUS
    <2>1. Flushed(u) BY DEF FlushedBelow
    <2>2. lane'[u] = lane[u] OBVIOUS
    <2> QED BY <2>1, <2>2 DEF Flushed, Frames
<1> HIDE DEF AllRead, StillReading
<1> QED BY <1>1, <1>2, <1>3, <1>4 DEF StageSound, FlushedBelow

LEMMA StreamsAreNumbered ==
    ASSUME source \in MediaSource PROVE DOMAIN source.streams \subseteq Nat
<1>1. source.streams \in Seq(MediaStream) BY DEF MediaSource
<1> QED BY <1>1

(* What Receive has when a frame is in its place.                          *)
LEMMA OriginShape ==
    ASSUME source \in MediaSource, NEW t \in DOMAIN source.streams, LaneInv(t),
           NEW k, k = lane[t].decoded + 1, k <= Len(Frames(t)),
           Conversion!Timely(t, Frames(t)[k].time)
    PROVE  /\ Conversion!Origin(t, Frames(t)[k].time) \subseteq Int
           /\ Timed(t, Conversion!Origin(t, Frames(t)[k].time), k)
<1> DEFINE time == Frames(t)[k].time
           origin == Conversion!Origin(t, time)
           clock == Conversion!Expected(t)
<1>1. /\ lane[t].decoded \in Nat /\ lane[t].origin \subseteq Int
      /\ Timed(t, lane[t].origin, lane[t].decoded)
      /\ Len(Frames(t)) \in Nat /\ k \in 1 .. Len(Frames(t)) /\ k - 1 = lane[t].decoded
    <2>1. lane[t] \in LaneType /\ Timed(t, lane[t].origin, lane[t].decoded)
        BY DEF LaneInv, LaneSound, InPlace
    <2>2. Len(Frames(t)) \in Nat BY StreamShape DEF Frames
    <2> HIDE DEF Frames
    <2> QED BY <2>1, <2>2, LaneShape
<1>2. clock \in Int /\ time \in Int /\ Place(t, k) = time - clock
    <2>1. Conversion!Position(t, lane[t].decoded) \in Nat /\ source.streams[t].tick \in Nat
        BY <1>1, PositionShape, StreamShape DEF Frames
    <2>2. clock = Conversion!Position(t, lane[t].decoded) * source.streams[t].tick
        BY DEF Conversion!Expected, Conversion!Stream
    <2>3. Place(t, k) = time - clock BY <1>1, <2>2 DEF Place
    <2>4. time \in Int BY <1>1, StreamShape DEF Frames
    <2>5. clock \in Int
        <3> HIDE DEF clock
        <3> QED BY <2>1, <2>2
    <2> QED BY <2>3, <2>4, <2>5
<1>3. origin = IF lane[t].origin = {} /\ time # Conversion!NoTime THEN {time - clock} ELSE lane[t].origin
    BY DEF Conversion!Origin
<1>4. time # Conversion!NoTime => \A o \in origin : time - (o + clock) \in -1 .. 1
    BY DEF Conversion!Timely
<1> HIDE DEF origin, clock
<1>5. CASE lane[t].origin = {} /\ time # Conversion!NoTime
    <2>1. origin = {time - clock} BY <1>3, <1>5
    <2>2. source.format # "mp4" BY <1>1, <1>5 DEF Timed
    <2>3. ASSUME NEW i \in 1 .. k, Frames(t)[i].time # Conversion!NoTime
          PROVE  \E o \in origin : Place(t, i) - o \in -1 .. 1
        <3>1. CASE i = k BY <1>2, <2>1, <3>1
        <3>2. CASE i # k
            <4>1. i \in 1 .. lane[t].decoded BY <1>1, <3>2
            <4> QED BY <1>1, <1>5, <2>3, <4>1 DEF Timed
        <3> QED BY <3>1, <3>2
    <2>4. origin \subseteq Int /\ \A a, b \in origin : a = b BY <1>2, <2>1
    <2> HIDE DEF time
    <2>5. Timed(t, origin, k) BY <2>2, <2>3, <2>4 DEF Timed
    <2> QED BY <2>4, <2>5 DEF origin, time
<1>6. CASE ~(lane[t].origin = {} /\ time # Conversion!NoTime)
    <2>1. origin = lane[t].origin BY <1>3, <1>6
    <2>2. ASSUME NEW i \in 1 .. k, Frames(t)[i].time # Conversion!NoTime
          PROVE  \E o \in origin : Place(t, i) - o \in -1 .. 1
        <3>1. CASE i = k
            <4>1. time # Conversion!NoTime BY <2>2, <3>1
            <4>2. PICK o \in origin : TRUE BY <1>6, <2>1, <4>1
            <4>3. o \in Int /\ time - (o + clock) \in -1 .. 1 BY <1>1, <1>4, <2>1, <4>1, <4>2
            <4>4. Place(t, k) - o = time - (o + clock) BY <1>2, <4>3
            <4> QED BY <3>1, <4>2, <4>3, <4>4
        <3>2. CASE i # k
            <4>1. i \in 1 .. lane[t].decoded BY <1>1, <3>2
            <4> QED BY <1>1, <2>1, <2>2, <4>1 DEF Timed
        <3> QED BY <3>1, <3>2
    <2>3. origin \subseteq Int /\ (\A a, b \in origin : a = b) /\ (source.format = "mp4" => origin = {0})
        BY <1>1, <2>1 DEF Timed
    <2> HIDE DEF time
    <2>4. Timed(t, origin, k) BY <2>2, <2>3 DEF Timed
    <2> QED BY <2>3, <2>4 DEF origin, time
<1> QED BY <1>5, <1>6

LEMMA Joined ==
    ASSUME NEW a \in Seq(Nat), NEW b \in Seq(Nat), NEW c \in Seq(Nat)
    PROVE  a \o (b \o c) = (a \o b) \o c
OBVIOUS

LEMMA ReceiveKeeps == ASSUME ConversionIInv, Conversion!Receive PROVE ConversionIInv'
<1>1. PICK t, k, frame, samples, next :
          /\ t = point.stream /\ k = lane[t].decoded + 1 /\ frame = Frames(t)[k]
          /\ samples = Conversion!Numbers(Clock(t), frame.len)
          /\ next = [lane[t] EXCEPT !.decoded = @ + 1, !.origin = Conversion!Origin(t, frame.time)]
    OBVIOUS
<1>2. /\ point.at = "decoding" /\ lane[t].decoded < lane[t].fed
      /\ \/ Conversion!Fails
         \/ /\ Conversion!Timely(t, frame.time) /\ source' = source
            /\ \/ /\ source.streams[t].medium = "video" /\ UNCHANGED point
                  /\ Conversion!Send(t, next, Conversion!Packet(t, samples))
               \/ /\ source.streams[t].medium = "audio"
                  /\ lane' = [lane EXCEPT ![t] = [next EXCEPT !.fifo = @ \o samples]]
                  /\ point' = [at |-> "encoding", stream |-> t]
                  /\ UNCHANGED written
    BY <1>1, Zenon DEF Conversion!Receive, Conversion!On, Conversion!Stream, Conversion!Goto, Frames, Clock
<1>3. CASE Conversion!Fails BY <1>3, FailKeeps
<1>4. SUFFICES ASSUME Conversion!Timely(t, frame.time), source' = source,
                      \/ /\ source.streams[t].medium = "video" /\ UNCHANGED point
                         /\ Conversion!Send(t, next, Conversion!Packet(t, samples))
                      \/ /\ source.streams[t].medium = "audio"
                         /\ lane' = [lane EXCEPT ![t] = [next EXCEPT !.fifo = @ \o samples]]
                         /\ point' = [at |-> "encoding", stream |-> t]
                         /\ UNCHANGED written
               PROVE  ConversionIInv'
    BY <1>2, <1>3
<1>5. /\ source \in MediaSource /\ DOMAIN lane = DOMAIN source.streams /\ t \in DOMAIN source.streams
      /\ lane = [u \in DOMAIN lane |-> lane[u]] /\ LaneInv(t) /\ LaneSound(t) /\ PacketsFollow(t)
      /\ DOMAIN written = DOMAIN source.streams /\ written = [u \in DOMAIN written |-> written[u]]
      /\ DOMAIN lane \subseteq Nat
    BY <1>1, <1>2, StreamsAreNumbered DEF ConversionIInv, StageSound, LaneInv
<1>6. /\ lane[t] \in LaneType /\ lane[t].decoded \in Nat /\ lane[t].index \in Nat
      /\ lane[t].fed \in Nat /\ lane[t].fifo \in Seq(Nat) /\ Len(Frames(t)) \in Nat
      /\ lane[t].fed <= Len(Frames(t)) /\ k \in 1 .. Len(Frames(t)) /\ k <= lane[t].fed
      /\ frame.len \in Nat /\ (source.streams[t].medium = "video" => frame.len = 1)
    <2>1. /\ lane[t] \in LaneType /\ lane[t].decoded \in Nat /\ lane[t].index \in Nat
          /\ lane[t].fed \in Nat /\ lane[t].fifo \in Seq(Nat) /\ Len(Frames(t)) \in Nat
          /\ lane[t].fed <= Len(Frames(t))
        BY <1>5, LaneShape, StreamShape DEF LaneSound, Frames
    <2>2. k \in 1 .. Len(Frames(t)) /\ k <= lane[t].fed BY <1>1, <1>2, <2>1
    <2> QED BY <1>1, <1>5, <2>1, <2>2, StreamShape, Zenon DEF Frames
<1>7. next.origin \subseteq Int /\ Timed(t, next.origin, k)
    <2>1. next.origin = Conversion!Origin(t, frame.time) BY <1>1, <1>6 DEF LaneType
    <2>2. k <= Len(Frames(t)) /\ Conversion!Timely(t, Frames(t)[k].time) BY <1>1, <1>4, <1>6
    <2>3. /\ Conversion!Origin(t, Frames(t)[k].time) \subseteq Int
          /\ Timed(t, Conversion!Origin(t, Frames(t)[k].time), k)
        BY <1>1, <1>5, <2>2, OriginShape
    <2> QED BY <1>1, <2>1, <2>3
<1>8. /\ next \in LaneType /\ next.fed = lane[t].fed /\ next.ended = lane[t].ended
      /\ next.decoded = k /\ next.index = lane[t].index /\ next.fifo = lane[t].fifo
      /\ next.encoder = lane[t].encoder
    <2>1. k \in Nat /\ Conversion!Origin(t, frame.time) \subseteq Int
        BY <1>1, <1>6, <1>7 DEF LaneType
    <2> QED BY <1>1, <1>6, <2>1 DEF LaneType
<1>9. /\ Clock(t) \in Nat
      /\ Conversion!Position(t, k) = Clock(t) + frame.len
      /\ samples \in Seq(Nat) /\ Len(samples) = frame.len
      /\ Conversion!Numbers(0, Clock(t)) \o samples = Conversion!Numbers(0, Clock(t) + frame.len)
    <2>1. Clock(t) \in Nat /\ Conversion!Position(t, k) = Clock(t) + frame.len
        <3>1. lane[t].decoded \in 0 .. Len(Frames(t)) - 1 BY <1>1, <1>6
        <3> DEFINE n == lane[t].decoded
        <3>2. n \in 0 .. Len(source.streams[t].frames) - 1
              /\ n \in 0 .. Len(source.streams[t].frames)
              /\ n + 1 = k /\ source.streams[t].frames[n + 1] = frame
            <4>1. n + 1 = k /\ n \in Nat BY <1>1, <1>6
            <4>2. source.streams[t].frames[n + 1] = frame BY <1>1, <4>1, Zenon DEF Frames
            <4>3. Len(source.streams[t].frames) = Len(Frames(t)) BY DEF Frames
            <4> HIDE DEF Frames
            <4> QED BY <1>6, <3>1, <4>1, <4>2, <4>3
        <3>3. Clock(t) = Conversion!Position(t, n) BY DEF Clock
        <3> HIDE DEF n
        <3>4. Conversion!Position(t, n) \in Nat BY <1>5, <3>2, PositionShape
        <3>5. Conversion!Position(t, n + 1) =
                Conversion!Position(t, n) + source.streams[t].frames[n + 1].len
            BY <1>5, <3>2, PositionShape
        <3> QED BY <3>2, <3>3, <3>4, <3>5
    <2> QED BY <1>1, <1>6, <2>1, NumbersShape, NumbersJoin, Zenon
(* What was kept before is kept in its first form: a frame is left.        *)
<1>10. Conversion!Samples(Through(t)) \o lane[t].fifo = Conversion!Numbers(0, Clock(t))
    <2>1. Kept(t) /\ lane[t].decoded # Len(Frames(t)) BY <1>1, <1>5, <1>6 DEF LaneInv
    <2> QED BY <2>1 DEF Kept
<1>11. Conversion!Samples(Through(t)) \in Seq(Nat)
    <2>1. Through(t) \in Seq(PacketType)
        BY <1>5, <1>6, LaneShape, ConcatProperties DEF LaneSound, Through
    <2>2. Conversion!Packet(t, samples) \in PacketType
        BY <1>6, <1>9 DEF Conversion!Packet, PacketType
    <2> QED BY <2>1, <2>2, SamplesSnoc
(* A lane with the frame decoded, and its samples where they belong.       *)
<1>12. ASSUME point'.stream = t, point'.at \in {"decoding", "encoding"},
              DOMAIN lane' = DOMAIN lane, lane' = [u \in DOMAIN lane' |-> lane'[u]],
              \A u \in DOMAIN lane : u # t => lane'[u] = lane[u],
              DOMAIN written' = DOMAIN written, written' = [u \in DOMAIN written' |-> written'[u]],
              \A u \in DOMAIN written : u # t => written'[u] = written[u],
              lane'[t] \in LaneType, written'[t] \in Seq(PacketType),
              lane'[t].fed = next.fed, lane'[t].ended = next.ended, lane'[t].decoded = next.decoded,
              lane'[t].origin = next.origin,
              source.streams[t].medium = "video" => lane'[t].fifo = <<>>,
              PacketsFollow(t)',
              Conversion!Samples(Through(t)') \o lane'[t].fifo
                = (Conversion!Samples(Through(t)) \o lane[t].fifo) \o samples
       PROVE  ConversionIInv'
    <2>1. /\ Clock(t)' = Conversion!Position(t, k) /\ Frames(t)' = Frames(t)
          /\ \A i : Place(t, i)' = Place(t, i)
        BY <1>4, <1>8, <1>12, ClockMoves
    <2>2. LaneSound(t)'
        <3> HIDE DEF Frames
        <3> QED BY <1>4, <1>5, <1>6, <1>8, <1>12, <2>1 DEF LaneSound
    <2>3. Kept(t)'
        <3>1. Conversion!Samples(Through(t)') \o lane'[t].fifo = Conversion!Numbers(0, Clock(t)')
            BY <1>9, <1>10, <1>12, <2>1
        <3> HIDE DEF Through, Clock, Frames
        <3> QED BY <3>1 DEF Kept
    <2>4. InPlace(t)'
        <3> HIDE DEF Place, Frames
        <3> QED BY <1>4, <1>7, <1>8, <1>12, <2>1 DEF InPlace, Timed
    <2>5. LaneInv(t)' BY <1>12, <2>2, <2>3, <2>4 DEF LaneInv
    <2>6. StageSound'
        <3>1. t \in DOMAIN lane /\ {point.at, point'.at} \subseteq {"decoding", "encoding"}
              /\ lane'[t].fed = lane[t].fed /\ lane'[t].ended = lane[t].ended
              /\ t = point.stream
            BY <1>1, <1>2, <1>5, <1>8, <1>12, Zenon
        <3> QED BY <1>4, <1>5, <1>12, <3>1, StageStays
    <2>7. t \in DOMAIN lane /\ point'.at # "open" BY <1>5, <1>12
    <2> QED BY <1>4, <1>12, <2>5, <2>6, <2>7, OneLane
<1>13. CASE /\ source.streams[t].medium = "video" /\ UNCHANGED point
            /\ Conversion!Send(t, next, Conversion!Packet(t, samples))
    <2> DEFINE packet == Conversion!Packet(t, samples)
    <2>1. packet \in PacketType /\ packet.pts = lane[t].index /\ packet.samples = samples
          /\ Len(packet.samples) = 1
        BY <1>6, <1>9, <1>13 DEF Conversion!Packet, PacketType
    <2>2. lane[t].fifo = <<>> BY <1>5, <1>13 DEF LaneSound
    <2> HIDE DEF packet
    <2>3. /\ \A u \in DOMAIN lane : u # t => lane'[u] = lane[u]
          /\ DOMAIN lane' = DOMAIN lane /\ lane' = [u \in DOMAIN lane' |-> lane'[u]]
          /\ \A u \in DOMAIN written : u # t => written'[u] = written[u]
          /\ DOMAIN written' = DOMAIN written /\ written' = [u \in DOMAIN written' |-> written'[u]]
          /\ lane'[t] \in LaneType /\ written'[t] \in Seq(PacketType)
          /\ lane'[t].fed = next.fed /\ lane'[t].ended = next.ended
          /\ lane'[t].decoded = next.decoded /\ lane'[t].origin = next.origin
          /\ lane'[t].fifo = next.fifo
          /\ PacketsFollow(t)'
          /\ Conversion!Samples(Through(t)') = Conversion!Samples(Through(t)) \o packet.samples
        BY <1>4, <1>5, <1>8, <1>13, <2>1, SendKeeps DEF packet
    <2>4. Conversion!Samples(Through(t)') \o lane'[t].fifo
            = (Conversion!Samples(Through(t)) \o lane[t].fifo) \o samples
        <3> DEFINE out == Conversion!Samples(Through(t))
        <3>1. out \in Seq(Nat) /\ samples \in Seq(Nat) BY <1>9, <1>11
        <3>2. Conversion!Samples(Through(t)') = out \o samples BY <2>1, <2>3
        <3> HIDE DEF out
        <3>3. (out \o samples) \o <<>> = (out \o <<>>) \o samples
            BY <3>1, ConcatProperties, ConcatEmptySeq
        <3>4. Conversion!Samples(Through(t)') \o lane'[t].fifo = (out \o samples) \o <<>>
            BY <1>8, <2>2, <2>3, <3>2
        <3> QED BY <2>2, <3>3, <3>4 DEF out
    <2>5. point'.stream = t /\ point'.at \in {"decoding", "encoding"} BY <1>1, <1>2, <1>13
    <2>6. lane'[t].fifo = <<>> BY <1>8, <2>2, <2>3
    <2> QED BY <1>12, <2>3, <2>4, <2>5, <2>6
<1>14. CASE /\ source.streams[t].medium = "audio"
            /\ lane' = [lane EXCEPT ![t] = [next EXCEPT !.fifo = @ \o samples]]
            /\ point' = [at |-> "encoding", stream |-> t]
            /\ UNCHANGED written
    <2>1. /\ lane'[t] = [next EXCEPT !.fifo = @ \o samples] /\ DOMAIN lane' = DOMAIN lane
          /\ \A u \in DOMAIN lane : u # t => lane'[u] = lane[u]
          /\ lane' = [u \in DOMAIN lane' |-> lane'[u]]
        BY <1>5, <1>14
    <2>2. next.fifo \o samples \in Seq(Nat) BY <1>6, <1>8, <1>9, ConcatProperties
    <2>3. /\ lane'[t] \in LaneType /\ lane'[t].fifo = lane[t].fifo \o samples
          /\ lane'[t].fed = next.fed /\ lane'[t].ended = next.ended
          /\ lane'[t].decoded = next.decoded /\ lane'[t].origin = next.origin
          /\ lane'[t].index = lane[t].index /\ lane'[t].encoder = lane[t].encoder
        BY <1>8, <2>1, <2>2 DEF LaneType
    <2>4. Through(t)' = Through(t) BY <1>14, <2>3 DEF Through
    <2>5. PacketsFollow(t)'
        <3> HIDE DEF Through
        <3> QED BY <1>4, <1>5, <1>14, <2>3, <2>4 DEF PacketsFollow, Measured, Single, Follow
    <2>6. Conversion!Samples(Through(t)') \o lane'[t].fifo
            = (Conversion!Samples(Through(t)) \o lane[t].fifo) \o samples
        <3> DEFINE out == Conversion!Samples(Through(t))
        <3>1. out \in Seq(Nat) /\ lane[t].fifo \in Seq(Nat) /\ samples \in Seq(Nat)
            BY <1>6, <1>9, <1>11
        <3>2. Conversion!Samples(Through(t)') = out BY <2>4
        <3> HIDE DEF out
        <3>3. out \o (lane[t].fifo \o samples) = (out \o lane[t].fifo) \o samples
            BY <3>1, Joined
        <3>4. Conversion!Samples(Through(t)') \o lane'[t].fifo = out \o (lane[t].fifo \o samples)
            BY <2>3, <3>2, Zenon
        <3> QED BY <3>3, <3>4 DEF out
    <2>7. point'.stream = t /\ point'.at \in {"decoding", "encoding"} BY <1>14
    <2>8. written'[t] \in Seq(PacketType) /\ source.streams[t].medium # "video"
        BY <1>5, <1>14 DEF LaneSound
    <2>9. DOMAIN written' = DOMAIN written /\ written' = [u \in DOMAIN written' |-> written'[u]]
          /\ \A u \in DOMAIN written : u # t => written'[u] = written[u]
        BY <1>5, <1>14
    <2> QED BY <1>12, <2>1, <2>3, <2>5, <2>6, <2>7, <2>8, <2>9
<1> QED BY <1>4, <1>13, <1>14
LEMMA SplitAt ==
    ASSUME NEW s \in Seq(Nat), NEW k \in 0 .. Len(s)
    PROVE  /\ SubSeq(s, 1, k) \in Seq(Nat) /\ Len(SubSeq(s, 1, k)) = k
           /\ SubSeq(s, k + 1, Len(s)) \in Seq(Nat)
           /\ SubSeq(s, 1, k) \o SubSeq(s, k + 1, Len(s)) = s
           /\ k = Len(s) => SubSeq(s, 1, k) = s /\ SubSeq(s, k + 1, Len(s)) = <<>>
<1>1. /\ Len(s) \in Nat /\ k \in Nat /\ k <= Len(s) /\ \A i \in 1 .. Len(s) : s[i] \in Nat
    OBVIOUS
<1>2. SubSeq(s, 1, k) \in Seq(Nat) /\ Len(SubSeq(s, 1, k)) = k
    <2>1. \A i \in 1 .. k : s[i] \in Nat BY <1>1
    <2> QED BY <1>1, <2>1, SubSeqProperties
<1>3. SubSeq(s, k + 1, Len(s)) \in Seq(Nat)
    <2>1. \A i \in k + 1 .. Len(s) : s[i] \in Nat BY <1>1
    <2> QED BY <1>1, <2>1, SubSeqProperties
<1>4. SubSeq(s, 1, k) \o SubSeq(s, k + 1, Len(s)) = s
    <2>1. 1 \in 1 .. Len(s) + 1 /\ k \in 1 - 1 .. Len(s) /\ Len(s) \in k .. Len(s) BY <1>1
    <2>2. SubSeq(s, 1, k) \o SubSeq(s, k + 1, Len(s)) = SubSeq(s, 1, Len(s))
        BY <2>1, ConcatAdjacentSubSeq
    <2> QED BY <2>2, SubSeqFull
<1>5. ASSUME k = Len(s) PROVE SubSeq(s, 1, k) = s /\ SubSeq(s, k + 1, Len(s)) = <<>>
    <2>1. SubSeq(s, 1, k) = s BY <1>5, SubSeqFull
    <2>2. SubSeq(s, k + 1, Len(s)) = <<>> BY <1>1, <1>5, SubSeqEmpty
    <2> QED BY <2>1, <2>2
<1> QED BY <1>2, <1>3, <1>4, <1>5

(* A round of encode_available: what it takes and what it leaves are the   *)
(* FIFO, or the last frame of an MP3 is filled up with silence.            *)
RoundTakes(fifo) == Conversion!Min({Conversion!SamplesToEncode(Len(fifo)), Len(fifo)})
RoundSends(fifo) ==
    SubSeq(fifo, 1, RoundTakes(fifo))
      \o Conversion!Silence(Conversion!SamplesToEncode(Len(fifo)) - RoundTakes(fifo))
RoundLeaves(fifo) == SubSeq(fifo, RoundTakes(fifo) + 1, Len(fifo))

LEMMA ChunkShape ==
    ASSUME MediaAssumption, NEW fifo \in Seq(Nat),
           Len(fifo) >= FrameSize \/ (Conversion!Final /\ fifo # <<>>)
    PROVE  /\ fifo # <<>> /\ RoundSends(fifo) \in Seq(Nat) /\ RoundLeaves(fifo) \in Seq(Nat)
           /\ \/ RoundSends(fifo) \o RoundLeaves(fifo) = fifo
              \/ /\ source.format = "mp3" /\ Conversion!Final /\ RoundLeaves(fifo) = <<>>
                 /\ \E n \in 1 .. FrameSize - 1 :
                      RoundSends(fifo) = fifo \o Conversion!Silence(n)
<1> DEFINE count == Conversion!SamplesToEncode(Len(fifo))
           taken == RoundTakes(fifo)
           body == RoundSends(fifo)
           rest == RoundLeaves(fifo)
<1>0. /\ taken = Conversion!Min({count, Len(fifo)})
      /\ body = SubSeq(fifo, 1, taken) \o Conversion!Silence(count - taken)
      /\ rest = SubSeq(fifo, taken + 1, Len(fifo))
    BY DEF RoundTakes, RoundSends, RoundLeaves
<1> HIDE DEF count, taken, body, rest
<1>1. FrameSize \in Nat \ {0} /\ Len(fifo) \in Nat /\ fifo # <<>> /\ Len(fifo) >= 1
    <2>1. FrameSize \in Nat \ {0} BY DEF MediaAssumption
    <2>2. fifo # <<>> BY <2>1
    <2> QED BY <2>1, <2>2
<1>2. /\ count \in Nat
      /\ \/ count <= Len(fifo)
         \/ count = FrameSize /\ Conversion!Final /\ source.format = "mp3"
    <2>1. CASE Conversion!Final /\ source.format # "mp3"
        <3>1. count = Conversion!Min({Len(fifo), FrameSize})
            BY <2>1 DEF count, Conversion!SamplesToEncode
        <3>2. count = IF Len(fifo) <= FrameSize THEN Len(fifo) ELSE FrameSize
            BY <1>1, <3>1, SameMin
        <3> QED BY <1>1, <3>2
    <2>2. CASE ~(Conversion!Final /\ source.format # "mp3")
        <3>1. count = FrameSize BY <2>2 DEF count, Conversion!SamplesToEncode
        <3> QED BY <1>1, <2>2, <3>1
    <2> QED BY <2>1, <2>2
<1>3. taken = IF count <= Len(fifo) THEN count ELSE Len(fifo)
    BY <1>0, <1>1, <1>2, SameMin
<1>4. taken \in 0 .. Len(fifo) /\ count - taken \in Nat BY <1>1, <1>2, <1>3
<1>5. /\ SubSeq(fifo, 1, taken) \in Seq(Nat) /\ rest \in Seq(Nat)
      /\ SubSeq(fifo, 1, taken) \o rest = fifo
      /\ taken = Len(fifo) => SubSeq(fifo, 1, taken) = fifo /\ rest = <<>>
    BY <1>0, <1>4, SplitAt
<1>6. Conversion!Silence(count - taken) \in Seq(Nat) BY <1>4, NumbersShape
<1>7. body \in Seq(Nat) BY <1>0, <1>5, <1>6, ConcatProperties
<1>8. CASE count <= Len(fifo)
    <2>1. count - taken = 0 BY <1>2, <1>3, <1>8
    <2>2. body = SubSeq(fifo, 1, taken) BY <1>0, <1>5, <2>1, NothingYet, ConcatEmptySeq
    <2> QED BY <1>1, <1>5, <1>7, <2>2 DEF body, rest
<1>9. CASE ~(count <= Len(fifo))
    <2>1. taken = Len(fifo) /\ count - taken \in 1 .. FrameSize - 1 BY <1>1, <1>2, <1>3, <1>9
    <2>2. body = fifo \o Conversion!Silence(count - taken) BY <1>0, <1>5, <2>1
    <2> QED BY <1>1, <1>2, <1>5, <1>7, <1>9, <2>1, <2>2, Zenon DEF body, rest
<1> QED BY <1>8, <1>9

LEMMA ChunkKeeps ==
    ASSUME MediaAssumption, ConversionIInv, Conversion!Chunk PROVE ConversionIInv'
<1>1. PICK t, fifo, body, rest, next :
          /\ t = point.stream /\ fifo = lane[t].fifo
          /\ body = RoundSends(fifo) /\ rest = RoundLeaves(fifo)
          /\ next = [lane[t] EXCEPT !.fifo = rest]
    OBVIOUS
<1>2. /\ point.at \in {"encoding", "emptying"} /\ source' = source /\ point' = point
      /\ Len(fifo) >= FrameSize \/ (Conversion!Final /\ fifo # <<>>)
      /\ Conversion!Send(t, next, Conversion!Packet(t, body))
    BY <1>1, Zenon DEF Conversion!Chunk, Conversion!On, RoundTakes, RoundSends, RoundLeaves
<1>3. /\ source \in MediaSource /\ DOMAIN lane = DOMAIN source.streams /\ t \in DOMAIN source.streams
      /\ lane = [u \in DOMAIN lane |-> lane[u]] /\ LaneInv(t) /\ LaneSound(t) /\ PacketsFollow(t)
      /\ DOMAIN written = DOMAIN source.streams /\ written = [u \in DOMAIN written |-> written[u]]
      /\ DOMAIN lane \subseteq Nat
    BY <1>1, <1>2, StreamsAreNumbered DEF ConversionIInv, StageSound, LaneInv
<1>4. /\ lane[t] \in LaneType /\ lane[t].index \in Nat /\ fifo \in Seq(Nat)
      /\ Conversion!Final => lane[t].decoded = Len(Frames(t))
    <2>1. lane[t] \in LaneType BY <1>3 DEF LaneSound
    <2>2. Conversion!Final => lane[t].decoded = Len(Frames(t))
        BY <1>1 DEF Conversion!Final, ConversionIInv, StageSound, AllRead
    <2> QED BY <1>1, <2>1, <2>2, LaneShape
<1>5. /\ fifo # <<>> /\ body \in Seq(Nat) /\ rest \in Seq(Nat)
      /\ \/ body \o rest = fifo
         \/ /\ source.format = "mp3" /\ Conversion!Final /\ rest = <<>>
            /\ \E n \in 1 .. FrameSize - 1 : body = fifo \o Conversion!Silence(n)
    BY <1>1, <1>2, <1>4, ChunkShape
<1>6. /\ next \in LaneType /\ next.fed = lane[t].fed /\ next.ended = lane[t].ended
      /\ next.decoded = lane[t].decoded /\ next.index = lane[t].index /\ next.fifo = rest
      /\ next.origin = lane[t].origin /\ next.encoder = lane[t].encoder
    BY <1>1, <1>4, <1>5 DEF LaneType
<1>7. source.streams[t].medium # "video" BY <1>1, <1>3, <1>5 DEF LaneSound
<1> DEFINE packet == Conversion!Packet(t, body)
<1>8. packet \in PacketType /\ packet.pts = lane[t].index /\ packet.samples = body
    BY <1>4, <1>5 DEF Conversion!Packet, PacketType
<1>9. Conversion!Send(t, next, packet) BY <1>2
<1> HIDE DEF packet
<1>10. /\ \A u \in DOMAIN lane : u # t => lane'[u] = lane[u]
       /\ DOMAIN lane' = DOMAIN lane /\ lane' = [u \in DOMAIN lane' |-> lane'[u]]
       /\ \A u \in DOMAIN written : u # t => written'[u] = written[u]
       /\ DOMAIN written' = DOMAIN written /\ written' = [u \in DOMAIN written' |-> written'[u]]
       /\ lane'[t] \in LaneType /\ written'[t] \in Seq(PacketType)
       /\ lane'[t].fed = next.fed /\ lane'[t].ended = next.ended
       /\ lane'[t].decoded = next.decoded /\ lane'[t].origin = next.origin
       /\ lane'[t].fifo = next.fifo
       /\ PacketsFollow(t)'
       /\ Conversion!Samples(Through(t)') = Conversion!Samples(Through(t)) \o packet.samples
       /\ Conversion!Samples(Through(t)) \in Seq(Nat)
    BY <1>2, <1>3, <1>6, <1>7, <1>8, <1>9, SendKeeps
<1>11. /\ Clock(t)' = Clock(t) /\ Frames(t)' = Frames(t) /\ \A i : Place(t, i)' = Place(t, i)
    BY <1>2, <1>6, <1>10, ClockMoves DEF Clock
<1>12. LaneSound(t)'
    <2> HIDE DEF Frames
    <2> QED BY <1>2, <1>3, <1>6, <1>7, <1>10, <1>11 DEF LaneSound
<1>13. Kept(t)'
    <2> DEFINE out == Conversion!Samples(Through(t))
               decoded == Conversion!Numbers(0, Clock(t))
    <2>1. out \o fifo = decoded /\ out \in Seq(Nat)
        BY <1>1, <1>3, <1>5, <1>10 DEF LaneInv, Kept
    <2>2. Conversion!Samples(Through(t)') = out \o body /\ lane'[t].fifo = rest
        BY <1>6, <1>8, <1>10
    <2> HIDE DEF out, decoded
    <2>3. CASE body \o rest = fifo
        <3>1. (out \o body) \o rest = decoded BY <1>5, <2>1, <2>3, Joined
        <3>2. Conversion!Samples(Through(t)') \o lane'[t].fifo = Conversion!Numbers(0, Clock(t)')
            BY <1>11, <2>2, <3>1 DEF decoded
        <3> HIDE DEF Through, Clock, Frames
        <3> QED BY <3>2 DEF Kept
    <2>4. CASE ~(body \o rest = fifo)
        <3>1. source.format = "mp3" /\ Conversion!Final /\ rest = <<>> BY <1>5, <2>4
        <3>2. PICK n \in 1 .. FrameSize - 1 : body = fifo \o Conversion!Silence(n)
            BY <1>5, <2>4
        <3>3. Conversion!Silence(n) \in Seq(Nat)
            <4>1. n \in Nat /\ 0 \in Nat OBVIOUS
            <4> QED BY <4>1, NumbersShape
        <3>4. out \o body = decoded \o Conversion!Silence(n)
            BY <1>4, <2>1, <3>2, <3>3, Joined
        <3>5. Conversion!Samples(Through(t)') = Conversion!Numbers(0, Clock(t)') \o Conversion!Silence(n)
            BY <1>11, <2>2, <3>4 DEF decoded
        <3>6. Conversion!Silence(n)' = Conversion!Silence(n) BY DEF Conversion!Silence
        <3>7. /\ source'.format = "mp3" /\ lane'[t].fifo = <<>>
              /\ lane'[t].decoded = Len(Frames(t)')
            BY <1>2, <1>4, <1>6, <1>10, <1>11, <2>2, <3>1
        <3> HIDE DEF Through, Clock, Frames
        <3> QED BY <3>5, <3>6, <3>7 DEF Kept
    <2> QED BY <2>3, <2>4
<1>14. InPlace(t)'
    <2>1. InPlace(t) BY <1>3 DEF LaneInv
    <2> HIDE DEF Place, Frames
    <2> QED BY <1>2, <1>6, <1>10, <1>11, <2>1 DEF InPlace, Timed
<1>15. LaneInv(t)' BY <1>10, <1>12, <1>13, <1>14 DEF LaneInv
<1>16. StageSound'
    <2>1. /\ t \in DOMAIN lane /\ t = point.stream /\ point'.stream = t
          /\ lane'[t].fed = lane[t].fed /\ lane'[t].ended = lane[t].ended
          /\ \/ {point.at, point'.at} \subseteq {"decoding", "encoding"}
             \/ point.at = "emptying" /\ point'.at = "emptying" /\ lane'[t].decoded = lane[t].decoded
        BY <1>1, <1>2, <1>3, <1>6, <1>10
    <2> QED BY <1>2, <1>3, <1>10, <2>1, StageStays
<1>17. t \in DOMAIN lane /\ point'.at # "open" BY <1>2, <1>3
<1> QED BY <1>2, <1>10, <1>15, <1>16, <1>17, OneLane
LEMMA FinishKeeps == ASSUME ConversionIInv, Conversion!Finish PROVE ConversionIInv'
<1>1. PICK t, queue : t = point.stream /\ queue = lane[t].encoder
    OBVIOUS
<1>2. /\ point.at = "emptying" /\ source' = source /\ lane[t].fifo = <<>>
      /\ Conversion!Drain(t, queue, Len(queue))
      /\ lane' = [lane EXCEPT ![t].encoder = <<>>]
      /\ point' = IF t + 1 \in DOMAIN source.streams THEN [at |-> "flush", stream |-> t + 1]
                  ELSE [at |-> "trailer", stream |-> 1]
    BY <1>1 DEF Conversion!Finish, Conversion!On, Conversion!Goto, Conversion!Streams
<1>3. /\ source \in MediaSource /\ DOMAIN lane = DOMAIN source.streams /\ t \in DOMAIN source.streams
      /\ lane = [u \in DOMAIN lane |-> lane[u]] /\ LaneInv(t) /\ LaneSound(t) /\ PacketsFollow(t)
      /\ DOMAIN written = DOMAIN source.streams /\ written = [u \in DOMAIN written |-> written[u]]
      /\ DOMAIN lane \subseteq Nat /\ AllRead /\ FlushedBelow(t)
      /\ lane[t].ended /\ lane[t].decoded = lane[t].fed
    BY <1>1, <1>2, StreamsAreNumbered DEF ConversionIInv, StageSound, LaneInv
<1>4. /\ lane[t] \in LaneType /\ queue \in Seq(PacketType) /\ Len(queue) \in Nat
      /\ written[t] \in Seq(PacketType) /\ Measured(written[t]) /\ Single(t, Through(t))
      /\ Through(t) = written[t] \o queue
      /\ Through(t) \in Seq(PacketType) /\ <<>> \in Seq(Nat) /\ <<>> \in Seq(PacketType)
      /\ lane[t].decoded = Len(Frames(t))
    <2>1. lane[t] \in LaneType /\ written[t] \in Seq(PacketType) BY <1>3 DEF LaneSound
    <2>2. queue \in Seq(PacketType) /\ Len(queue) \in Nat BY <1>1, <2>1, LaneShape
    <2>3. Through(t) = written[t] \o queue BY <1>1 DEF Through
    <2>4. Through(t) \in Seq(PacketType) BY <2>1, <2>2, <2>3, ConcatProperties
    <2>5. lane[t].decoded = Len(Frames(t)) BY <1>3 DEF AllRead
    <2> QED BY <1>3, <2>1, <2>2, <2>3, <2>4, <2>5 DEF PacketsFollow
<1>5. Single(t, queue)
    <2> SUFFICES ASSUME source.streams[t].medium = "video", NEW k \in 1 .. Len(queue)
                 PROVE  Len(queue[k].samples) = 1
        BY DEF Single
    <2>1. /\ Len(written[t]) \in Nat /\ Len(written[t] \o queue) = Len(written[t]) + Len(queue)
          /\ \A i \in 1 .. Len(written[t]) + Len(queue) : (written[t] \o queue)[i] =
               IF i <= Len(written[t]) THEN written[t][i] ELSE queue[i - Len(written[t])]
        BY <1>4, ConcatProperties
    <2>2. Len(written[t]) + k \in 1 .. Len(written[t]) + Len(queue)
          /\ ~(Len(written[t]) + k <= Len(written[t])) /\ (Len(written[t]) + k) - Len(written[t]) = k
        BY <1>4, <2>1
    <2>3. Len((written[t] \o queue)[Len(written[t]) + k].samples) = 1
        BY <1>4, <2>1, <2>2 DEF Single
    <2> QED BY <2>1, <2>2, <2>3
<1>6. /\ \A u \in DOMAIN written : u # t => written'[u] = written[u]
      /\ DOMAIN written' = DOMAIN written /\ written' = [u \in DOMAIN written' |-> written'[u]]
      /\ written'[t] \in Seq(PacketType) /\ Measured(written'[t])
      /\ Alike(written[t] \o queue, written'[t] \o SubSeq(queue, Len(queue) + 1, Len(queue)))
    <2>1. Len(queue) \in 0 .. Len(queue) BY <1>4
    <2> QED BY <1>2, <1>3, <1>4, <1>5, <2>1, DrainKeeps
<1>7. /\ lane'[t] = [lane[t] EXCEPT !.encoder = <<>>] /\ DOMAIN lane' = DOMAIN lane
      /\ \A u \in DOMAIN lane : u # t => lane'[u] = lane[u]
      /\ lane' = [u \in DOMAIN lane' |-> lane'[u]]
    BY <1>2, <1>3
<1>8. /\ lane'[t] \in LaneType /\ lane'[t].encoder = <<>> /\ lane'[t].fed = lane[t].fed
      /\ lane'[t].ended = lane[t].ended /\ lane'[t].decoded = lane[t].decoded
      /\ lane'[t].index = lane[t].index /\ lane'[t].origin = lane[t].origin
      /\ lane'[t].fifo = lane[t].fifo
    BY <1>4, <1>7 DEF LaneType
<1>9. Through(t)' = written'[t] /\ Alike(Through(t), written'[t])
    <2>1. SubSeq(queue, Len(queue) + 1, Len(queue)) = <<>> BY <1>4, SubSeqEmpty
    <2>2. written'[t] \o <<>> = written'[t] BY <1>6, ConcatEmptySeq
    <2> QED BY <1>4, <1>6, <1>8, <2>1, <2>2 DEF Through
<1>10. Conversion!Samples(written'[t]) = Conversion!Samples(Through(t))
    BY <1>4, <1>6, <1>9, SamplesAlike
<1>11. Frames(t)' = Frames(t) /\ Clock(t)' = Clock(t) /\ \A i : Place(t, i)' = Place(t, i)
    BY <1>2, <1>8, ClockMoves DEF Clock
<1>12. PacketsFollow(t)'
    <2>1. Follow(written'[t], lane[t].index)
        BY <1>3, <1>4, <1>6, <1>9, FollowAlike DEF PacketsFollow
    <2>2. source.streams[t].medium = "video" =>
            \A k \in 1 .. Len(written'[t]) : Len(written'[t][k].samples) = 1
        BY <1>4, <1>9 DEF Single, Alike
    <2>3. Len(Conversion!Samples(written'[t])) = lane[t].index
        BY <1>3, <1>10 DEF PacketsFollow
    <2> HIDE DEF Through
    <2> QED BY <1>2, <1>6, <1>8, <1>9, <2>1, <2>2, <2>3 DEF PacketsFollow, Measured, Single, Follow
<1>13. LaneSound(t)'
    <2> HIDE DEF Frames
    <2> QED BY <1>2, <1>3, <1>6, <1>8, <1>11 DEF LaneSound
<1>14. Kept(t)'
    <2>1. Kept(t) BY <1>3 DEF LaneInv
    <2>2. Conversion!Samples(Through(t)') = Conversion!Samples(Through(t)) BY <1>9, <1>10
    <2> HIDE DEF Through, Clock, Frames
    <2> QED BY <1>2, <1>8, <1>11, <2>1, <2>2 DEF Kept
<1>15. InPlace(t)'
    <2>1. InPlace(t) BY <1>3 DEF LaneInv
    <2> HIDE DEF Place, Frames
    <2> QED BY <1>2, <1>8, <1>11, <2>1 DEF InPlace, Timed
<1>16. LaneInv(t)' BY <1>12, <1>13, <1>14, <1>15 DEF LaneInv
(* What is flushed stays so, and this stream now is.                       *)
<1>17. \A u \in DOMAIN lane : u < t + 1 => Flushed(u)'
    <2> SUFFICES ASSUME NEW u \in DOMAIN lane, u < t + 1 PROVE Flushed(u)'
        OBVIOUS
    <2>1. CASE u = t
        <3> HIDE DEF Frames
        <3> QED BY <1>2, <1>4, <1>8, <1>11, <2>1 DEF Flushed
    <2>2. CASE u # t
        <3>1. u < t BY <1>3, <2>2
        <3>2. Flushed(u) /\ lane'[u] = lane[u] BY <1>3, <1>7, <2>2, <3>1 DEF FlushedBelow
        <3> QED BY <1>2, <3>2 DEF Flushed, Frames
    <2> QED BY <2>1, <2>2
<1>18. AllRead' BY <1>2, <1>3, <1>7, <1>8 DEF AllRead, Frames
<1>19. StageSound' /\ point'.at # "open"
    <2>1. CASE t + 1 \in DOMAIN source.streams
        <3>1. point'.at = "flush" /\ point'.stream = t + 1 BY <1>2, <2>1
        <3>2. \A u \in DOMAIN lane' : u < point'.stream => Flushed(u)' BY <1>7, <1>17, <3>1
        <3> HIDE DEF AllRead, Flushed
        <3> QED BY <1>2, <1>3, <1>7, <1>18, <2>1, <3>1, <3>2 DEF StageSound, FlushedBelow
    <2>2. CASE t + 1 \notin DOMAIN source.streams
        <3>1. point'.at = "trailer" BY <1>2, <2>2
        <3>2. \A u \in DOMAIN lane : u < t + 1
            <4>1. source.streams \in Seq(MediaStream) BY <1>3 DEF MediaSource
            <4> QED BY <1>3, <2>2, <4>1
        <3>3. \A u \in DOMAIN lane' : Flushed(u)' BY <1>7, <1>17, <3>2
        <3> HIDE DEF Flushed
        <3> QED BY <1>2, <1>3, <1>7, <3>1, <3>3 DEF StageSound
    <2> QED BY <2>1, <2>2
<1>20. t \in DOMAIN lane BY <1>3
<1> QED BY <1>2, <1>6, <1>7, <1>16, <1>19, <1>20, OneLane

LEMMA ConvertKeeps ==
    ASSUME MediaAssumption, ConversionIInv, Conversion!Convert PROVE ConversionIInv'
<1>1. CASE Conversion!Broken BY <1>1, FailKeeps DEF Conversion!Broken
<1> QED BY <1>1, OpenKeeps, ReadKeeps, EndOfInputKeeps, FlushKeeps, ReceiveKeeps, ChunkKeeps,
           ChunksDoneKeeps, DecodedKeeps, FinishKeeps, TrailerKeeps
        DEF Conversion!Convert
-----------------------------------------------------------------------------
(* What the invariant says of a file                                       *)

LEMMA FollowPrefix ==
    ASSUME NEW P \in Seq(PacketType), NEW Q \in Seq(PacketType), NEW here \in Nat, Follow(P \o Q, here)
    PROVE  \E h \in Nat : Follow(P, h)
<1> DEFINE R == P \o Q
           h == IF Q = <<>> THEN here ELSE IF P = <<>> THEN 0 ELSE Q[1].pts
<1>1. /\ Len(P) \in Nat /\ Len(Q) \in Nat /\ Len(R) = Len(P) + Len(Q)
      /\ \A i \in 1 .. Len(P) + Len(Q) : R[i] = IF i <= Len(P) THEN P[i] ELSE Q[i - Len(P)]
    BY ConcatProperties
<1>2. h \in Nat
    <2>1. Q # <<>> => 1 \in 1 .. Len(Q) BY <1>1
    <2> QED BY <2>1, PacketShape
<1> HIDE DEF R
<1>3. /\ R # <<>> => R[1].pts = 0
      /\ \A k \in 1 .. Len(R) : R[k].pts + Len(R[k].samples) = IF k = Len(R) THEN here ELSE R[k + 1].pts
      /\ R = <<>> => here = 0
    BY DEF Follow, R
<1>4. P # <<>> => R # <<>> /\ P[1].pts = 0
    <2> SUFFICES ASSUME P # <<>> PROVE R # <<>> /\ P[1].pts = 0
        OBVIOUS
    <2>1. 1 \in 1 .. Len(P) + Len(Q) /\ 1 <= Len(P) BY <1>1
    <2>2. Len(R) # 0 /\ R[1] = P[1] BY <1>1, <2>1
    <2> QED BY <1>3, <2>2
<1>5. ASSUME NEW k \in 1 .. Len(P)
      PROVE  P[k].pts + Len(P[k].samples) = IF k = Len(P) THEN h ELSE P[k + 1].pts
    <2>1. k \in 1 .. Len(R) /\ R[k] = P[k] /\ P # <<>> BY <1>1
    <2>2. CASE k # Len(P)
        <3>1. k + 1 \in 1 .. Len(P) + Len(Q) /\ k + 1 <= Len(P) /\ k # Len(R) BY <1>1, <2>2
        <3> QED BY <1>1, <1>3, <2>1, <2>2, <3>1
    <2>3. CASE k = Len(P) /\ Q = <<>>
        <3>1. k = Len(R) /\ h = here BY <1>1, <2>3
        <3> QED BY <1>3, <2>1, <2>3, <3>1
    <2>4. CASE k = Len(P) /\ Q # <<>>
        <3>1. k + 1 \in 1 .. Len(P) + Len(Q) /\ ~(k + 1 <= Len(P)) /\ (k + 1) - Len(P) = 1 /\ k # Len(R)
            BY <1>1, <2>4
        <3>2. R[k + 1] = Q[1] BY <1>1, <3>1
        <3> QED BY <1>3, <2>1, <2>4, <3>1, <3>2
    <2> QED BY <2>2, <2>3, <2>4
<1>6. P = <<>> => h = 0
    <2>1. P = <<>> /\ Q = <<>> => R = <<>> BY DEF R
    <2> QED BY <1>3, <2>1
<1> HIDE DEF h
<1>7. Follow(P, h) BY <1>4, <1>5, <1>6 DEF Follow
<1> QED BY <1>2, <1>7

(* The packets before one last until it begins.                            *)
LEMMA DurationsAdd ==
    ASSUME NEW P \in Seq(PacketType), Measured(P), NEW here \in Nat, Follow(P, here),
           NEW n \in 0 .. Len(P)
    PROVE  Conversion!Sum([k \in 1 .. n |-> P[k].duration]) = IF n = Len(P) THEN here ELSE P[n + 1].pts
<1> DEFINE D(m) == [k \in 1 .. m |-> P[k].duration]
           Ends(m) == IF m = Len(P) THEN here ELSE P[m + 1].pts
           Good == {m \in Nat : m <= Len(P) => Conversion!Sum(D(m)) = Ends(m)}
<1>1. /\ Len(P) \in Nat
      /\ \A k \in 1 .. Len(P) : P[k].duration = Len(P[k].samples) /\ P[k].duration \in Nat
                                /\ P[k].pts \in Nat
    BY PacketShape DEF Measured
<1>2. 0 \in Good
    <2>1. DOMAIN D(0) = {} OBVIOUS
    <2> HIDE DEF D
    <2>2. Conversion!Sum(D(0)) = 0 BY <2>1, SumNone
    <2>3. Ends(0) = 0
        <3>1. CASE P = <<>> BY <3>1 DEF Follow
        <3>2. CASE P # <<>>
            <4>1. Len(P) # 0 BY <1>1, <3>2
            <4> QED BY <3>2, <4>1 DEF Follow
        <3> QED BY <3>1, <3>2
    <2> HIDE DEF Ends
    <2> QED BY <2>2, <2>3
<1>3. ASSUME NEW m \in Nat, m \in Good PROVE m + 1 \in Good
    <2>1. SUFFICES ASSUME m + 1 <= Len(P) PROVE Conversion!Sum(D(m + 1)) = Ends(m + 1)
        OBVIOUS
    <2>2. /\ m + 1 \in 1 .. Len(P) /\ m <= Len(P) /\ m # Len(P) BY <1>1, <2>1
    <2>3. /\ DOMAIN D(m) = 1 .. m /\ DOMAIN D(m + 1) = 1 .. m + 1
          /\ \A k \in 1 .. m : D(m)[k] \in Nat /\ D(m + 1)[k] = D(m)[k]
          /\ D(m + 1)[m + 1] = P[m + 1].duration /\ P[m + 1].duration \in Nat
        BY <1>1, <2>2
    <2>4. Conversion!Sum(D(m)) = P[m + 1].pts BY <1>3, <2>2
    <2> HIDE DEF D
    <2>5. Conversion!Sum(D(m + 1)) = Conversion!Sum(D(m)) + D(m + 1)[m + 1]
        BY <2>3, SumSnoc
    <2>6. P[m + 1].pts + Len(P[m + 1].samples) = Ends(m + 1)
        BY <1>1, <2>2 DEF Follow
    <2> HIDE DEF Ends
    <2> QED BY <1>1, <2>2, <2>3, <2>4, <2>5, <2>6
<1>4. Nat \subseteq Good
    <2> HIDE DEF Good
    <2> QED BY <1>2, <1>3, CountUp
<1>5. n \in Nat /\ n <= Len(P) BY <1>1
<1>6. n \in Good BY <1>4, <1>5
<1> QED BY <1>5, <1>6

LEMMA Keeps ==
    ASSUME ConversionIInv PROVE Conversion!NothingLost
<1> SUFFICES ASSUME NEW t \in DOMAIN lane
             PROVE  LET out == Conversion!Samples(written[t] \o lane[t].encoder)
                        decoded == Conversion!Numbers(0, Conversion!Position(t, lane[t].decoded))
                    IN  \/ out \o lane[t].fifo = decoded
                        \/ /\ source.format = "mp3"
                           /\ lane[t].fifo = <<>>
                           /\ lane[t].decoded = Len(Conversion!Stream(t).frames)
                           /\ \E n \in 1 .. FrameSize - 1 : out = decoded \o Conversion!Silence(n)
    BY DEF Conversion!NothingLost
<1>1. Kept(t) BY DEF ConversionIInv, LaneInv
<1> QED BY <1>1 DEF Kept, Through, Clock, Frames, Conversion!Stream

LEMMA Joins ==
    ASSUME ConversionIInv PROVE Conversion!Seamless
<1> SUFFICES ASSUME NEW t \in DOMAIN lane, NEW k \in DOMAIN written[t]
             PROVE  written[t][k].pts = Conversion!Sum([n \in 1 .. k - 1 |-> written[t][n].duration])
    BY DEF Conversion!Seamless
<1> DEFINE W == written[t]
<1>1. /\ W \in Seq(PacketType) /\ lane[t] \in LaneType /\ Follow(Through(t), lane[t].index)
      /\ Measured(W)
    BY DEF ConversionIInv, LaneInv, LaneSound, PacketsFollow
<1>2. /\ lane[t].index \in Nat /\ lane[t].encoder \in Seq(PacketType)
      /\ Through(t) = W \o lane[t].encoder
    BY <1>1, LaneShape DEF Through
<1> HIDE DEF W
<1>3. PICK h \in Nat : Follow(W, h) BY <1>1, <1>2, FollowPrefix
<1>4. k \in 1 .. Len(W) /\ Len(W) \in Nat BY <1>1 DEF W
<1> DEFINE n == k - 1
<1>5. n \in 0 .. Len(W) /\ n # Len(W) /\ n + 1 = k BY <1>4
<1> HIDE DEF n
<1>6. Conversion!Sum([i \in 1 .. n |-> W[i].duration]) = W[n + 1].pts
    BY <1>1, <1>3, <1>5, DurationsAdd
<1> QED BY <1>5, <1>6 DEF n, W

LEMMA Completes ==
    ASSUME MediaAssumption, ConversionIInv PROVE Conversion!Complete
<1> SUFFICES ASSUME point.at = "done", NEW t \in DOMAIN source.streams
             PROVE  /\ \E n \in 0 .. FrameSize - 1 :
                         /\ Conversion!Samples(written[t])
                              = Conversion!Numbers(0, Conversion!Length(t)) \o Conversion!Silence(n)
                         /\ n # 0 => source.format = "mp3"
                    /\ Conversion!Sum([k \in DOMAIN written[t] |-> written[t][k].duration])
                         >= Conversion!Length(t)
                    /\ \A k, n \in DOMAIN Frames(t) :
                         Conversion!NoTime \notin {Frames(t)[k].time, Frames(t)[n].time} =>
                           /\ Place(t, k) - Place(t, n) \in -2 .. 2
                           /\ source.format = "mp4" => Place(t, k) \in -1 .. 1
    BY DEF Conversion!Complete, Conversion!Streams, Conversion!Stream, Frames, Place
<1> DEFINE W == written[t]
           length == Conversion!Length(t)
<1>1. /\ source \in MediaSource /\ LaneInv(t) /\ t \in DOMAIN lane /\ Flushed(t)
    BY DEF ConversionIInv, StageSound
<1>2. /\ W \in Seq(PacketType) /\ lane[t] \in LaneType /\ lane[t].encoder = <<>> /\ lane[t].fifo = <<>>
      /\ lane[t].decoded = Len(Frames(t)) /\ lane[t].index \in Nat
      /\ PacketsFollow(t) /\ Kept(t) /\ InPlace(t) /\ lane[t].origin \subseteq Int
    BY <1>1, LaneShape DEF LaneInv, LaneSound, Flushed
<1>3. Through(t) = W BY <1>2, ConcatEmptySeq DEF Through
<1>4. Clock(t) = length /\ length \in Nat /\ Len(Frames(t)) \in Nat
    <2>1. Clock(t) = length BY <1>2 DEF Clock, Conversion!Length, Conversion!Stream, Frames
    <2>2. Len(source.streams[t].frames) \in Nat BY <1>1, StreamShape
    <2>3. Len(source.streams[t].frames) \in 0 .. Len(source.streams[t].frames) BY <2>2
    <2>4. length \in Nat BY <1>1, <2>3, PositionShape DEF Conversion!Length, Conversion!Stream
    <2> QED BY <2>1, <2>2, <2>4 DEF Frames
<1>5. FrameSize \in Nat \ {0} BY DEF MediaAssumption
<1> HIDE DEF W, length
<1>6. PICK n \in 0 .. FrameSize - 1 :
          /\ Conversion!Samples(W) = Conversion!Numbers(0, length) \o Conversion!Silence(n)
          /\ n # 0 => source.format = "mp3"
    <2>1. /\ Conversion!Numbers(0, length) \in Seq(Nat) /\ 0 \in 0 .. FrameSize - 1
        BY <1>4, <1>5, NumbersShape
    <2>2. Conversion!Samples(W) \in Seq(Nat)
        <3>1. PICK q : q \in PacketType
            <4>1. [pts |-> 0, samples |-> <<>>, duration |-> 0] \in PacketType BY DEF PacketType
            <4> QED BY <4>1
        <3> QED BY <1>2, <3>1, SamplesSnoc
    <2>3. CASE Conversion!Samples(W) \o <<>> = Conversion!Numbers(0, length)
        <3>1. Conversion!Samples(W) = Conversion!Numbers(0, length) \o Conversion!Silence(0)
            BY <2>1, <2>2, <2>3, NothingYet, ConcatEmptySeq
        <3> QED BY <2>1, <3>1
    <2>4. CASE /\ source.format = "mp3"
               /\ \E n \in 1 .. FrameSize - 1 :
                    Conversion!Samples(W) = Conversion!Numbers(0, length) \o Conversion!Silence(n)
        BY <1>5, <2>4
    <2> QED BY <1>2, <1>3, <1>4, <2>3, <2>4 DEF Kept
<1>7. Conversion!Sum([k \in DOMAIN W |-> W[k].duration]) >= length
    <2>1. Follow(W, lane[t].index) /\ Measured(W) /\ Len(Conversion!Samples(W)) = lane[t].index
        BY <1>2, <1>3 DEF PacketsFollow, W
    <2>2. Len(W) \in Nat /\ DOMAIN W = 1 .. Len(W) /\ Len(W) \in 0 .. Len(W) BY <1>2
    <2>3. Conversion!Sum([k \in 1 .. Len(W) |-> W[k].duration]) = lane[t].index
        BY <1>2, <2>1, <2>2, DurationsAdd
    <2>4. n \in Nat /\ 0 \in Nat OBVIOUS
    <2>5. /\ Conversion!Numbers(0, length) \in Seq(Nat) /\ Len(Conversion!Numbers(0, length)) = length
          /\ Conversion!Silence(n) \in Seq(Nat) /\ Len(Conversion!Silence(n)) = n
        BY <1>4, <2>4, NumbersShape
    <2>6. lane[t].index = length + n
        <3> DEFINE a == Conversion!Numbers(0, length)
                   b == Conversion!Silence(n)
        <3> HIDE DEF a, b
        <3>1. Len(a \o b) = Len(a) + Len(b) BY <2>5, ConcatProperties DEF a, b
        <3> QED BY <1>6, <2>1, <2>5, <3>1 DEF a, b
    <2> QED BY <1>4, <2>2, <2>3, <2>4, <2>6
<1>8. ASSUME NEW k \in DOMAIN Frames(t), NEW m \in DOMAIN Frames(t),
             Conversion!NoTime \notin {Frames(t)[k].time, Frames(t)[m].time}
      PROVE  /\ Place(t, k) - Place(t, m) \in -2 .. 2
             /\ source.format = "mp4" => Place(t, k) \in -1 .. 1
    <2>1. k \in 1 .. Len(Frames(t)) /\ m \in 1 .. Len(Frames(t))
        BY <1>1, StreamShape DEF Frames
    <2>2. \A i \in 1 .. Len(Frames(t)) : Place(t, i) \in Int
        <3> SUFFICES ASSUME NEW i \in 1 .. Len(Frames(t)) PROVE Place(t, i) \in Int
            OBVIOUS
        <3>1. i - 1 \in 0 .. Len(Frames(t)) BY <1>4
        <3>2. Conversion!Position(t, i - 1) \in Nat BY <1>1, <3>1, PositionShape DEF Frames
        <3>3. source.streams[t].tick \in Nat /\ Frames(t)[i].time \in Int
            BY <1>1, StreamShape DEF Frames
        <3> QED BY <3>2, <3>3 DEF Place
    <2>3. PICK a \in lane[t].origin : Place(t, k) - a \in -1 .. 1
        BY <1>2, <1>8, <2>1 DEF InPlace, Timed
    <2>4. PICK b \in lane[t].origin : Place(t, m) - b \in -1 .. 1
        BY <1>2, <1>8, <2>1 DEF InPlace, Timed
    <2>5. a = b /\ a \in Int /\ (source.format = "mp4" => a = 0)
        BY <1>2, <2>3, <2>4 DEF InPlace, Timed
    <2>6. Place(t, k) \in Int /\ Place(t, m) \in Int BY <2>1, <2>2
    <2> QED BY <2>3, <2>4, <2>5, <2>6
<1> QED BY <1>6, <1>7, <1>8 DEF W, length

LEMMA ConversionMeans ==
    ASSUME MediaAssumption, ConversionIInv PROVE Conversion!TranscodeInv
BY Keeps, Joins, Completes DEF Conversion!TranscodeInv
-----------------------------------------------------------------------------
(* The resource around the conversion                                      *)

MediaIInv == "at" \in DOMAIN media /\ (media.at = "ffi" => ConversionIInv)

LEMMA ConversionStays ==
    ASSUME ConversionIInv, UNCHANGED conversion PROVE ConversionIInv'
<1>1. source' = source /\ point' = point /\ lane' = lane /\ written' = written
    BY DEF conversion
<1>2. ASSUME NEW t \in DOMAIN lane' PROVE LaneInv(t)'
    <2>1. LaneInv(t) BY <1>1 DEF ConversionIInv
    <2> QED BY <1>1, <2>1, LaneStays
<1>3. StageSound'
    <2>1. StageSound BY DEF ConversionIInv
    <2> QED BY <1>1, <2>1 DEF StageSound, AllRead, StillReading, FlushedBelow, Flushed, Frames
<1> QED BY <1>1, <1>2, <1>3 DEF ConversionIInv

(* The linked FFmpeg is at work only when it was begun.                    *)
Elsewhere == "at" \in DOMAIN media /\ media.at # "ffi"

LEMMA FailQuiet ==
    ASSUME NEW class, NEW fs, Fails(class, fs) PROVE Elsewhere'
<1>1. media' = Quiet BY DEF Fails
<1> QED BY <1>1 DEF Elsewhere, Quiet

LEMMA GoesThere ==
    ASSUME "at" \in DOMAIN media, NEW at, at # "ffi", Goes(at) PROVE Elsewhere'
BY DEF Elsewhere, Goes

LEMMA CallsElsewhere ==
    ASSUME "at" \in DOMAIN media, Calls PROVE Elsewhere'
<1>1. ASSUME media.at = "off", UNCHANGED media PROVE Elsewhere'
    BY <1>1 DEF Elsewhere
<1>2. CASE DoLook BY <1>1, <1>2, FailQuiet DEF DoLook, At, FailCall
<1>3. CASE DoTry BY <1>1, <1>3, FailQuiet DEF DoTry, At, FailCall
<1>4. CASE DoFits BY <1>1, <1>4, FailQuiet DEF DoFits, At, FailCall
<1>5. CASE DoMake BY <1>1, <1>5, FailQuiet DEF DoMake, At, FailCall
<1>6. CASE DoRecord BY <1>1, <1>6, FailQuiet DEF DoRecord, At, FailCall
<1>7. CASE DoDrop BY <1>1, <1>7, FailQuiet DEF DoDrop, At, FailCall
<1>8. CASE DoOpen BY <1>1, <1>8, FailQuiet DEF DoOpen, At, FailCall
<1>9. CASE DoObject BY <1>1, <1>9 DEF DoObject, At
<1>10. CASE DoObjectEnd BY <1>1, <1>10 DEF DoObjectEnd, At
<1>11. CASE DoHold BY <1>1, <1>11, FailQuiet DEF DoHold, At, FailCall
<1>12. CASE DoMerge BY <1>1, <1>12 DEF DoMerge, At
<1>13. CASE DoUsm BY <1>1, <1>13 DEF DoUsm, At
<1>14. CASE DoUsmEnd BY <1>1, <1>14 DEF DoUsmEnd, At
<1>15. CASE DoRun BY <1>15 DEF DoRun, Elsewhere
<1>16. CASE DoEncode
    <2>1. CASE FailCall("other") BY <2>1, FailQuiet DEF FailCall
    <2>2. CASE media' = [at |-> "stage", retry |-> 0, outs |-> {Head(todo).file}]
        BY <2>2 DEF Elsewhere
    <2> QED BY <1>16, <2>1, <2>2 DEF DoEncode
<1>17. CASE Keep BY <1>1, <1>17 DEF Keep, Finished
<1>18. CASE Discard BY <1>1, <1>18 DEF Discard, Finished
<1> QED BY <1>2, <1>3, <1>4, <1>5, <1>6, <1>7, <1>8, <1>9, <1>10, <1>11, <1>12, <1>13, <1>14,
           <1>15, <1>16, <1>17, <1>18 DEF Calls

LEMMA TryElsewhere ==
    ASSUME "at" \in DOMAIN media, NEW class, NEW fs, TryAgain(class, fs) PROVE Elsewhere'
<1>1. CASE Fails(class, fs) BY <1>1, FailQuiet
<1>2. CASE media' = [media EXCEPT !.at = "pause", !.retry = @ + 1] BY <1>2 DEF Elsewhere
<1> QED BY <1>1, <1>2 DEF TryAgain

LEMMA CommandsElsewhere ==
    ASSUME "at" \in DOMAIN media, Commands \/ Child PROVE Elsewhere'
<1>1. CASE Refused BY <1>1, FailQuiet DEF Refused, FailCall
<1>2. CASE Staged
    <2>1. Goes("gate") \/ Goes("ffiGate") \/ FailCall("other") BY <1>2 DEF Staged
    <2>2. CASE Goes("gate") BY <2>2, GoesThere
    <2>3. CASE Goes("ffiGate") BY <2>3, GoesThere
    <2>4. CASE FailCall("other") BY <2>4, FailQuiet DEF FailCall
    <2> QED BY <2>1, <2>2, <2>3, <2>4
<1>3. CASE Spawn BY <1>3, GoesThere DEF Spawn
<1>4. CASE SpawnFails BY <1>4, TryElsewhere DEF SpawnFails
<1>5. CASE Killed BY <1>5, FailQuiet DEF Killed
<1>6. CASE Resume
    <2>1. Goes("gate") \/ FailCall("other") BY <1>6 DEF Resume
    <2>2. CASE Goes("gate") BY <2>2, GoesThere
    <2>3. CASE FailCall("other") BY <2>3, FailQuiet DEF FailCall
    <2> QED BY <2>1, <2>2, <2>3
<1>7. CASE ChildSucceeds BY <1>7 DEF ChildSucceeds, Produced, Quiet, Elsewhere
<1>8. CASE ChildFails BY <1>8, TryElsewhere DEF ChildFails
<1> QED BY <1>1, <1>2, <1>3, <1>4, <1>5, <1>6, <1>7, <1>8 DEF Commands, Child

LEMMA BeginsKeeps ==
    ASSUME MediaAssumption, "at" \in DOMAIN media, Begins PROVE MediaIInv'
<1>1. PICK f \in media.outs : source' \in Sources(f[3]) BY DEF Begins
<1>2. source' \in MediaSource BY <1>1 DEF MediaAssumption
<1>3. /\ point' = [at |-> "open", stream |-> 1] /\ lane' = <<>>
      /\ written' = [t \in DOMAIN source'.streams |-> <<>>]
      /\ "at" \in DOMAIN media'
    BY DEF Begins, FfiBegins, Goes
<1>4. /\ DOMAIN written' = DOMAIN source'.streams
      /\ written' = [t \in DOMAIN written' |-> written'[t]]
      /\ \A t \in DOMAIN written' : written'[t] = <<>>
      /\ DOMAIN lane' = {} /\ lane' = [t \in DOMAIN lane' |-> lane'[t]]
      /\ point'.at = "open"
    BY <1>3
<1>5. StageSound' BY <1>4 DEF StageSound
<1>6. ConversionIInv' BY <1>2, <1>3, <1>4, <1>5 DEF ConversionIInv
<1> QED BY <1>3, <1>6 DEF MediaIInv

LEMMA MediaStepKeeps ==
    ASSUME MediaAssumption, MediaIInv, [Step]_mediaVars PROVE MediaIInv'
<1>1. "at" \in DOMAIN media /\ (media.at = "ffi" => ConversionIInv) BY DEF MediaIInv
<1>2. Elsewhere' => MediaIInv' BY DEF Elsewhere, MediaIInv
<1>3. ASSUME UNCHANGED media, UNCHANGED conversion PROVE MediaIInv'
    BY <1>1, <1>3, ConversionStays DEF MediaIInv
<1>4. CASE Calls BY <1>1, <1>2, <1>4, CallsElsewhere
<1>5. CASE Commands \/ Child BY <1>1, <1>2, <1>5, CommandsElsewhere
<1>6. CASE Begins BY <1>1, <1>6, BeginsKeeps
<1>7. CASE Converts
    <2>1. media' = media /\ ConversionIInv' BY <1>1, <1>7, ConvertKeeps DEF Converts, resource
    <2> QED BY <1>1, <2>1 DEF MediaIInv
<1>8. CASE Succeeds BY <1>2, <1>8 DEF Succeeds, FfiDone, Produced, Quiet, Elsewhere
<1>9. CASE GivesUp
    <2>1. CASE Goes("gate") BY <1>1, <1>2, <2>1, GoesThere
    <2>2. CASE \E class, fs : Fails(class, fs) BY <1>2, <2>2, FailQuiet
    <2> QED BY <1>9, <2>1, <2>2 DEF GivesUp, FfiFails, FailCall
<1>10. CASE Expires \/ (CancelResource /\ UNCHANGED conversion)
    BY <1>3, <1>10 DEF Expires, Expire, CancelResource
<1>11. CASE UNCHANGED mediaVars BY <1>3, <1>11 DEF mediaVars, resource
<1> QED BY <1>4, <1>5, <1>6, <1>7, <1>8, <1>9, <1>10, <1>11 DEF Step, Own

(* TranscodeInv: whatever a conversion has read is in its file, in its     *)
(* place, whenever the conversion is looked at.                            *)
THEOREM ConversionsComplete ==
    ASSUME MediaAssumption PROVE MediaSpec => []TranscodeInv
<1>1. MediaInit => MediaIInv BY DEF MediaInit, ResourceInit, Quiet, MediaIInv
<1>2. MediaIInv /\ [Step]_mediaVars => MediaIInv' BY MediaStepKeeps
<1>3. MediaIInv => TranscodeInv
    BY ConversionMeans DEF MediaIInv, TranscodeInv
<1> QED BY <1>1, <1>2, <1>3, PTL DEF MediaSpec

-----------------------------------------------------------------------------
(* Where a resource stands, for the calls to come: the files that wait to  *)
(* be listed, the names that were ever used, the files listed, and the     *)
(* objects held for the playable.                                          *)
Players == {n \in DOMAIN case.objects : case.objects[n] = "playable"}
Stand(have, used, told, kept) == [have |-> have, used |-> used, told |-> told, kept |-> kept]
Stands ==
    {a \in [have : SUBSET Names, used : SUBSET Names, told : SUBSET Names, kept : SUBSET Nat] :
        a.have \subseteq a.used /\ a.told \subseteq a.used /\ a.have \cap a.told = {}}

Call ==
    [op : {"look", "open", "merge"}] \cup [op : {"try"}, class : {"decode", "other"}]
    \cup [op : {"fits", "make", "record", "drop", "encode"}, file : Names]
    \cup [op : {"run"}, files : SUBSET Names]
    \cup [op : {"hold", "object", "objectEnd"}, number : Nat]
    \cup [op : {"usm"}, dir : Dirs]
    \cup [op : {"usmEnd"}, dir : Dirs, start : Nat]

(* All that is ever written in a directory, and for an object.             *)
Within(dir) == {f \in Names : f[1] = dir}
Foot(n) == Within(BankDir(n)) \cup {f \in Within(Root) : f[2][2] = n}

(* A call takes the resource from a to b when nothing fails.               *)
Puts(fs, a, b) ==
    /\ fs \subseteq Names /\ fs \cap a.used = {}
    /\ b = Stand(a.have \cup fs, a.used \cup fs, a.told, a.kept)

Moves(c, a, b) ==
    CASE c.op \in {"look", "try", "fits"} -> b = a
      [] c.op \in {"make", "encode"} -> Puts({c.file}, a, b)
      [] c.op = "run" -> Puts(c.files, a, b)
      [] c.op = "record" ->
            /\ c.file \in a.have
            /\ b = Stand(a.have \ {c.file}, a.used, a.told \cup {c.file}, a.kept)
      [] c.op = "drop" ->
            c.file \in a.have /\ b = Stand(a.have \ {c.file}, a.used, a.told, a.kept)
      [] c.op = "open" -> case.provider = "unity" /\ b = a
      [] c.op = "hold" ->
            /\ case.provider = "unity" /\ c.number \in Players
            /\ b = Stand(a.have, a.used, a.told, a.kept \cup {c.number})
      [] c.op = "object" ->
            /\ case.provider = "unity" /\ c.number \in DOMAIN case.objects
            /\ a.have = {} /\ a.used \cap Foot(c.number) = {}
            /\ b = Stand({}, a.used \cup Foot(c.number),
                         a.told \cup (OfObject(c.number) \ {Playable}),
                         a.kept \cup (Players \cap {c.number}))
      [] c.op = "objectEnd" ->
            /\ case.provider = "unity" /\ c.number \in DOMAIN case.objects
            /\ a.have = {}
            /\ b = Stand({}, a.used \cup Foot(c.number), a.told, a.kept)
      [] c.op = "merge" ->
            /\ case.provider = "unity"
            /\ a.have = {} /\ Playable \notin a.used /\ Players \subseteq a.kept
            /\ b = Stand({}, a.used \cup {Playable},
                         a.told \cup (IF Players = {} THEN {} ELSE {Playable}), a.kept)
      [] c.op = "usm" ->
            /\ case.provider = "cri"
            /\ a.have = {} /\ a.used \cap Within(c.dir) = {}
            /\ b = Stand({}, a.used \cup Within(c.dir), a.told \cup OfUsm(c.dir), a.kept)
      [] c.op = "usmEnd" ->
            /\ case.provider = "cri"
            /\ a.have = {} /\ a.told \cap Within(c.dir) = OfUsm(c.dir)
            /\ b = Stand({}, a.used \cup Within(c.dir), a.told, a.kept)
      [] OTHER -> FALSE

Path(s, p) ==
    /\ p \in [0 .. Len(s) -> Stands]
    /\ \A i \in 1 .. Len(s) : Moves(s[i], p[i - 1], p[i])

Piece(s, a, b) ==
    /\ s \in Seq(Call)
    /\ \E p : Path(s, p) /\ p[0] = a /\ p[Len(s)] = b

-----------------------------------------------------------------------------
LEMMA StandIn ==
    ASSUME NEW have \in SUBSET Names, NEW used \in SUBSET Names, NEW told \in SUBSET Names,
           NEW kept \in SUBSET Nat, have \subseteq used, told \subseteq used, have \cap told = {}
    PROVE  /\ Stand(have, used, told, kept) \in Stands
           /\ Stand(have, used, told, kept).have = have
           /\ Stand(have, used, told, kept).used = used
           /\ Stand(have, used, told, kept).told = told
           /\ Stand(have, used, told, kept).kept = kept
BY DEF Stand, Stands

LEMMA StandOf ==
    ASSUME NEW a \in Stands
    PROVE  /\ a = Stand(a.have, a.used, a.told, a.kept)
           /\ a.have \in SUBSET Names /\ a.used \in SUBSET Names /\ a.told \in SUBSET Names
           /\ a.kept \in SUBSET Nat
           /\ a.have \subseteq a.used /\ a.told \subseteq a.used /\ a.have \cap a.told = {}
BY DEF Stand, Stands

LEMMA PieceNone ==
    ASSUME NEW a \in Stands
    PROVE  Piece(<<>>, a, a)
<1> DEFINE p == [i \in 0 .. 0 |-> a]
<1>1. Path(<<>>, p) /\ p[0] = a /\ p[Len(<<>>)] = a
    BY DEF Path
<1>2. <<>> \in Seq(Call)
    OBVIOUS
<1> HIDE DEF p
<1> QED BY <1>1, <1>2 DEF Piece

LEMMA PieceOne ==
    ASSUME NEW c \in Call, NEW a \in Stands, NEW b \in Stands, Moves(c, a, b)
    PROVE  Piece(<<c>>, a, b)
<1> DEFINE p == [i \in 0 .. 1 |-> IF i = 0 THEN a ELSE b]
           s == <<c>>
<1>1. s \in Seq(Call) /\ Len(s) = 1 /\ s[1] = c
    OBVIOUS
<1>2. p \in [0 .. 1 -> Stands] /\ p[0] = a /\ p[1] = b
    OBVIOUS
<1> HIDE DEF p, s
<1>3. Path(s, p)
    <2>1. ASSUME NEW i \in 1 .. 1 PROVE Moves(s[i], p[i - 1], p[i])
        <3>1. i = 1 /\ i - 1 = 0
            OBVIOUS
        <3> QED BY <3>1, <1>1, <1>2
    <2> QED BY <1>1, <1>2, <2>1 DEF Path
<1>4. Piece(s, a, b)
    BY <1>1, <1>2, <1>3 DEF Piece
<1> QED BY <1>4 DEF s

LEMMA PieceJoin ==
    ASSUME NEW s, NEW t, NEW a, NEW b, NEW c, Piece(s, a, b), Piece(t, b, c)
    PROVE  Piece(s \o t, a, c)
<1>1. PICK p : Path(s, p) /\ p[0] = a /\ p[Len(s)] = b
    BY DEF Piece
<1>2. PICK q : Path(t, q) /\ q[0] = b /\ q[Len(t)] = c
    BY DEF Piece
<1>3. s \in Seq(Call) /\ t \in Seq(Call)
    BY DEF Piece
<1>4. /\ s \o t \in Seq(Call)
      /\ Len(s \o t) = Len(s) + Len(t)
      /\ \A i \in 1 .. Len(s) + Len(t) :
            (s \o t)[i] = IF i <= Len(s) THEN s[i] ELSE t[i - Len(s)]
    BY <1>3, ConcatProperties
<1>5. Len(s) \in Nat /\ Len(t) \in Nat
    BY <1>3
<1> DEFINE m == Len(s)
           n == Len(t)
           u == s \o t
           r == [i \in 0 .. m + n |-> IF i <= m THEN p[i] ELSE q[i - m]]
<1>6. r \in [0 .. m + n -> Stands]
    <2>1. ASSUME NEW i \in 0 .. m + n PROVE r[i] \in Stands
        <3>1. CASE i <= m
            <4>1. i \in 0 .. m BY <3>1, <1>5
            <4> QED BY <3>1, <4>1, <1>1 DEF Path
        <3>2. CASE ~(i <= m)
            <4>1. i - m \in 0 .. n BY <3>2, <1>5
            <4> QED BY <3>2, <4>1, <1>2 DEF Path
        <3> QED BY <3>1, <3>2
    <2> QED BY <2>1
<1>7. ASSUME NEW i \in 1 .. m + n PROVE Moves(u[i], r[i - 1], r[i])
    <2>1. CASE i <= m
        <3>1. i \in 1 .. m /\ i - 1 \in 0 .. m + n /\ i \in 0 .. m + n /\ i - 1 <= m
            BY <2>1, <1>5
        <3>2. r[i - 1] = p[i - 1] /\ r[i] = p[i] /\ u[i] = s[i]
            BY <2>1, <3>1, <1>4
        <3>3. Moves(s[i], p[i - 1], p[i])
            BY <3>1, <1>1 DEF Path
        <3> QED BY <3>2, <3>3
    <2>2. CASE ~(i <= m)
        <3>1. i - m \in 1 .. n /\ i - 1 \in 0 .. m + n /\ i \in 0 .. m + n
            BY <2>2, <1>5
        <3>2. r[i] = q[i - m] /\ u[i] = t[i - m]
            BY <2>2, <3>1, <1>4
        <3>3. r[i - 1] = q[(i - m) - 1]
            <4>1. CASE i - 1 <= m
                <5>1. i - 1 = m /\ (i - m) - 1 = 0
                    BY <2>2, <4>1, <1>5
                <5> QED BY <5>1, <3>1, <4>1, <1>1, <1>2
            <4>2. CASE ~(i - 1 <= m)
                <5>1. (i - 1) - m = (i - m) - 1
                    BY <1>5
                <5> QED BY <4>2, <5>1, <3>1
            <4> QED BY <4>1, <4>2
        <3>4. Moves(t[i - m], q[(i - m) - 1], q[i - m])
            BY <3>1, <1>2 DEF Path
        <3> QED BY <3>2, <3>3, <3>4
    <2> QED BY <2>1, <2>2
<1>8. r[0] = a /\ r[m + n] = c
    <2>1. r[0] = a
        BY <1>1, <1>5
    <2>2. CASE n = 0
        <3>1. r[m + n] = p[m]
            BY <2>2, <1>5
        <3> QED BY <2>1, <2>2, <3>1, <1>1, <1>2
    <2>3. CASE n # 0
        <3>1. ~(m + n <= m) /\ m + n \in 0 .. m + n /\ (m + n) - m = n
            BY <2>3, <1>5
        <3> QED BY <2>1, <3>1, <1>2
    <2> QED BY <2>2, <2>3
<1> HIDE DEF r
<1>9. Path(u, r)
    BY <1>4, <1>6, <1>7 DEF Path
<1> QED BY <1>4, <1>8, <1>9 DEF Piece

LEMMA PieceTwo ==
    ASSUME NEW c \in Call, NEW d \in Call,
           NEW x \in Stands, NEW y \in Stands, NEW z \in Stands,
           Moves(c, x, y), Moves(d, y, z)
    PROVE  Piece(<<c, d>>, x, z)
<1> DEFINE p == [i \in 0 .. 2 |-> IF i = 0 THEN x ELSE IF i = 1 THEN y ELSE z]
           s == <<c, d>>
<1>1. s \in Seq(Call) /\ Len(s) = 2 /\ s[1] = c /\ s[2] = d
    OBVIOUS
<1>2. p \in [0 .. 2 -> Stands] /\ p[0] = x /\ p[1] = y /\ p[2] = z
    OBVIOUS
<1> HIDE DEF p, s
<1>3. Path(s, p)
    <2>1. ASSUME NEW i \in 1 .. 2 PROVE Moves(s[i], p[i - 1], p[i])
        <3>1. CASE i = 1
            <4>1. i - 1 = 0
                BY <3>1
            <4> QED BY <3>1, <4>1, <1>1, <1>2
        <3>2. CASE i = 2
            <4>1. i - 1 = 1
                BY <3>2
            <4> QED BY <3>2, <4>1, <1>1, <1>2
        <3> QED BY <3>1, <3>2
    <2> QED BY <1>1, <1>2, <2>1 DEF Path
<1>4. Piece(s, x, z)
    BY <1>1, <1>2, <1>3 DEF Piece
<1> QED BY <1>4 DEF s

LEMMA PieceThree ==
    ASSUME NEW c \in Call, NEW d \in Call, NEW e \in Call,
           NEW w \in Stands, NEW x \in Stands, NEW y \in Stands, NEW z \in Stands,
           Moves(c, w, x), Moves(d, x, y), Moves(e, y, z)
    PROVE  Piece(<<c, d, e>>, w, z)
<1> DEFINE p == [i \in 0 .. 3 |-> IF i = 0 THEN w ELSE IF i = 1 THEN x ELSE IF i = 2 THEN y ELSE z]
           s == <<c, d, e>>
<1>1. s \in Seq(Call) /\ Len(s) = 3 /\ s[1] = c /\ s[2] = d /\ s[3] = e
    OBVIOUS
<1>2. p \in [0 .. 3 -> Stands] /\ p[0] = w /\ p[1] = x /\ p[2] = y /\ p[3] = z
    OBVIOUS
<1> HIDE DEF p, s
<1>3. Path(s, p)
    <2>1. ASSUME NEW i \in 1 .. 3 PROVE Moves(s[i], p[i - 1], p[i])
        <3>1. CASE i = 1
            <4>1. i - 1 = 0
                BY <3>1
            <4> QED BY <3>1, <4>1, <1>1, <1>2
        <3>2. CASE i = 2
            <4>1. i - 1 = 1
                BY <3>2
            <4> QED BY <3>2, <4>1, <1>1, <1>2
        <3>3. CASE i = 3
            <4>1. i - 1 = 2
                BY <3>3
            <4> QED BY <3>3, <4>1, <1>1, <1>2
        <3> QED BY <3>1, <3>2, <3>3
    <2> QED BY <1>1, <1>2, <2>1 DEF Path
<1>4. Piece(s, w, z)
    BY <1>1, <1>2, <1>3 DEF Piece
<1> QED BY <1>4 DEF s

LEMMA PieceFour ==
    ASSUME NEW c \in Call, NEW d \in Call, NEW e \in Call, NEW f \in Call,
           NEW v \in Stands, NEW w \in Stands, NEW x \in Stands, NEW y \in Stands, NEW z \in Stands,
           Moves(c, v, w), Moves(d, w, x), Moves(e, x, y), Moves(f, y, z)
    PROVE  Piece(<<c, d, e, f>>, v, z)
<1> DEFINE p == [i \in 0 .. 4 |-> IF i = 0 THEN v ELSE IF i = 1 THEN w ELSE IF i = 2 THEN x ELSE IF i = 3 THEN y ELSE z]
           s == <<c, d, e, f>>
<1>1. s \in Seq(Call) /\ Len(s) = 4 /\ s[1] = c /\ s[2] = d /\ s[3] = e /\ s[4] = f
    OBVIOUS
<1>2. p \in [0 .. 4 -> Stands] /\ p[0] = v /\ p[1] = w /\ p[2] = x /\ p[3] = y /\ p[4] = z
    OBVIOUS
<1> HIDE DEF p, s
<1>3. Path(s, p)
    <2>1. ASSUME NEW i \in 1 .. 4 PROVE Moves(s[i], p[i - 1], p[i])
        <3>1. CASE i = 1
            <4>1. i - 1 = 0
                BY <3>1
            <4> QED BY <3>1, <4>1, <1>1, <1>2
        <3>2. CASE i = 2
            <4>1. i - 1 = 1
                BY <3>2
            <4> QED BY <3>2, <4>1, <1>1, <1>2
        <3>3. CASE i = 3
            <4>1. i - 1 = 2
                BY <3>3
            <4> QED BY <3>3, <4>1, <1>1, <1>2
        <3>4. CASE i = 4
            <4>1. i - 1 = 3
                BY <3>4
            <4> QED BY <3>4, <4>1, <1>1, <1>2
        <3> QED BY <3>1, <3>2, <3>3, <3>4
    <2> QED BY <1>1, <1>2, <2>1 DEF Path
<1>4. Piece(s, v, z)
    BY <1>1, <1>2, <1>3 DEF Piece
<1> QED BY <1>4 DEF s

-----------------------------------------------------------------------------
Fit(h, u, t, k) ==
    /\ u \in SUBSET Names /\ k \in SUBSET Nat
    /\ h \subseteq u /\ t \subseteq u /\ h \cap t = {}

LEMMA FitStand ==
    ASSUME NEW h, NEW u, NEW t, NEW k
    PROVE  /\ Fit(h, u, t, k) => Stand(h, u, t, k) \in Stands
           /\ Stand(h, u, t, k).have = h /\ Stand(h, u, t, k).used = u
           /\ Stand(h, u, t, k).told = t /\ Stand(h, u, t, k).kept = k
BY DEF Fit, Stand, Stands

LEMMA StandFit ==
    ASSUME NEW a \in Stands
    PROVE  a = Stand(a.have, a.used, a.told, a.kept) /\ Fit(a.have, a.used, a.told, a.kept)
BY DEF Fit, Stand, Stands

LEMMA CallsIn ==
    /\ Look \in Call
    /\ \A class \in {"decode", "other"} : Try(class) \in Call
    /\ \A f \in Names : {Fits(f), Make(f), Record(f), Drop(f), Encode(f)} \subseteq Call
    /\ \A fs \in SUBSET Names : Run(fs) \in Call
    /\ \A n \in Nat : Object(n) \in Call /\ [op |-> "hold", number |-> n] \in Call
                      /\ [op |-> "objectEnd", number |-> n] \in Call
    /\ \A d \in Dirs : Usm(d) \in Call
    /\ \A d \in Dirs : \A n \in Nat :
            [op |-> "usmEnd", dir |-> d, start |-> n] \in Call
    /\ [op |-> "open"] \in Call /\ [op |-> "merge"] \in Call
<1>1. Look \in Call /\ [op |-> "open"] \in Call /\ [op |-> "merge"] \in Call
    BY DEF Call, Look
<1>2. ASSUME NEW class \in {"decode", "other"} PROVE Try(class) \in Call
    BY DEF Call, Try
<1>3. ASSUME NEW f \in Names PROVE {Fits(f), Make(f), Record(f), Drop(f), Encode(f)} \subseteq Call
    BY DEF Call, Fits, Make, Record, Drop, Encode
<1>4. ASSUME NEW fs \in SUBSET Names PROVE Run(fs) \in Call
    BY DEF Call, Run
<1>5. ASSUME NEW n \in Nat
      PROVE  Object(n) \in Call /\ [op |-> "hold", number |-> n] \in Call
             /\ [op |-> "objectEnd", number |-> n] \in Call
    BY DEF Call, Object
<1>6. ASSUME NEW d \in Dirs PROVE Usm(d) \in Call
    BY DEF Call, Usm
<1>7. ASSUME NEW d \in Dirs, NEW n \in Nat
      PROVE  [op |-> "usmEnd", dir |-> d, start |-> n] \in Call
    BY DEF Call
<1> QED BY <1>1, <1>2, <1>3, <1>4, <1>5, <1>6, <1>7

LEMMA Idling ==
    ASSUME NEW a \in Stands
    PROVE  /\ Moves(Look, a, a)
           /\ \A class : Moves(Try(class), a, a)
           /\ \A f : Moves(Fits(f), a, a)
           /\ Moves(Run({}), a, a)
<1>1. Moves(Run({}), a, a)
    <2>1. a = Stand(a.have \cup {}, a.used \cup {}, a.told, a.kept)
        BY StandFit
    <2>2. Puts({}, a, a)
        BY <2>1 DEF Puts
    <2> QED BY <2>2 DEF Moves, Run
<1> QED BY <1>1 DEF Moves, Look, Try, Fits

LEMMA MoveMake ==
    ASSUME NEW h, NEW u, NEW t, NEW k, Fit(h, u, t, k), NEW f \in Names, f \notin u
    PROVE  LET a == Stand(h, u, t, k)
               b == Stand(h \cup {f}, u \cup {f}, t, k)
           IN  /\ Fit(h \cup {f}, u \cup {f}, t, k)
               /\ Moves(Make(f), a, b) /\ Moves(Encode(f), a, b) /\ Moves(Run({f}), a, b)
<1> DEFINE a == Stand(h, u, t, k)
           b == Stand(h \cup {f}, u \cup {f}, t, k)
<1>1. Fit(h \cup {f}, u \cup {f}, t, k)
    BY DEF Fit
<1>2. Puts({f}, a, b)
    BY FitStand DEF Puts
<1> HIDE DEF a, b
<1>3. Moves(Make(f), a, b) /\ Moves(Encode(f), a, b) /\ Moves(Run({f}), a, b)
    BY <1>2 DEF Moves, Make, Encode, Run
<1> QED BY <1>1, <1>3 DEF a, b

LEMMA MoveRecord ==
    ASSUME NEW h, NEW u, NEW t, NEW k, Fit(h, u, t, k), NEW f \in h
    PROVE  /\ Fit(h \ {f}, u, t \cup {f}, k) /\ Fit(h \ {f}, u, t, k)
           /\ Moves(Record(f), Stand(h, u, t, k), Stand(h \ {f}, u, t \cup {f}, k))
           /\ Moves(Drop(f), Stand(h, u, t, k), Stand(h \ {f}, u, t, k))
<1>1. Fit(h \ {f}, u, t \cup {f}, k) /\ Fit(h \ {f}, u, t, k)
    BY DEF Fit
<1> DEFINE a == Stand(h, u, t, k)
<1>2. a.have = h /\ a.used = u /\ a.told = t /\ a.kept = k
    BY FitStand
<1> HIDE DEF a
<1>3. Moves(Record(f), a, Stand(h \ {f}, u, t \cup {f}, k))
    BY <1>2 DEF Moves, Record
<1>4. Moves(Drop(f), a, Stand(h \ {f}, u, t, k))
    BY <1>2 DEF Moves, Drop
<1> QED BY <1>1, <1>3, <1>4 DEF a

LEMMA SavedPiece ==
    ASSUME NEW h, NEW u, NEW t, NEW k, Fit(h, u, t, k), NEW f \in Names, f \notin u
    PROVE  /\ Fit(h, u \cup {f}, t \cup {f}, k)
           /\ Piece(Saved(f), Stand(h, u, t, k), Stand(h, u \cup {f}, t \cup {f}, k))
<1>1. f \notin h /\ f \notin t
    BY DEF Fit
<1>2. /\ Fit(h \cup {f}, u \cup {f}, t, k)
      /\ Moves(Make(f), Stand(h, u, t, k), Stand(h \cup {f}, u \cup {f}, t, k))
    BY MoveMake
<1>3. (h \cup {f}) \ {f} = h
    BY <1>1
<1>4. f \in h \cup {f}
    OBVIOUS
<1>5. /\ Fit((h \cup {f}) \ {f}, u \cup {f}, t \cup {f}, k)
      /\ Moves(Record(f), Stand(h \cup {f}, u \cup {f}, t, k),
               Stand((h \cup {f}) \ {f}, u \cup {f}, t \cup {f}, k))
    BY <1>2, <1>4, MoveRecord
<1>6. Make(f) \in Call /\ Record(f) \in Call
    BY CallsIn
<1>7. /\ Stand(h, u, t, k) \in Stands /\ Stand(h \cup {f}, u \cup {f}, t, k) \in Stands
      /\ Stand(h, u \cup {f}, t \cup {f}, k) \in Stands
    BY <1>2, <1>3, <1>5, FitStand
<1>8. Piece(<<Make(f), Record(f)>>, Stand(h, u, t, k), Stand(h, u \cup {f}, t \cup {f}, k))
    BY <1>2, <1>3, <1>5, <1>6, <1>7, PieceTwo
<1> QED BY <1>3, <1>5, <1>8 DEF Saved

LEMMA NameIn ==
    ASSUME NEW dir \in Dirs, NEW stem \in Stems, NEW e \in Extensions
    PROVE  <<dir, stem, e>> \in Names
BY DEF Names

Given(c, S) == IF c THEN S ELSE {}

LEMMA RecordIf ==
    ASSUME NEW h, NEW u, NEW t, NEW k, Fit(h, u, t, k), NEW f \in Names, NEW c \in BOOLEAN,
           c => f \in h
    PROVE  /\ Fit(h \ Given(c, {f}), u, t \cup Given(c, {f}), k)
           /\ Piece(IF c THEN <<Record(f)>> ELSE <<>>, Stand(h, u, t, k),
                    Stand(h \ Given(c, {f}), u, t \cup Given(c, {f}), k))
<1>1. CASE c
    <2>1. /\ Fit(h \ {f}, u, t \cup {f}, k)
          /\ Moves(Record(f), Stand(h, u, t, k), Stand(h \ {f}, u, t \cup {f}, k))
        BY <1>1, MoveRecord
    <2>2. Record(f) \in Call
        BY CallsIn
    <2>3. Piece(<<Record(f)>>, Stand(h, u, t, k), Stand(h \ {f}, u, t \cup {f}, k))
        BY <2>1, <2>2, FitStand, PieceOne
    <2> QED BY <1>1, <2>1, <2>3 DEF Given
<1>2. CASE ~c
    <2>1. h \ {} = h /\ t \cup {} = t
        OBVIOUS
    <2>2. Piece(<<>>, Stand(h, u, t, k), Stand(h, u, t, k))
        BY FitStand, PieceNone
    <2> QED BY <1>2, <2>1, <2>2 DEF Given
<1> QED BY <1>1, <1>2

LEMMA DropIf ==
    ASSUME NEW h, NEW u, NEW t, NEW k, Fit(h, u, t, k), NEW f \in Names, NEW c \in BOOLEAN,
           ~c => f \in h
    PROVE  /\ Fit(h \ Given(~c, {f}), u, t, k)
           /\ Piece(IF c THEN <<>> ELSE <<Drop(f)>>, Stand(h, u, t, k),
                    Stand(h \ Given(~c, {f}), u, t, k))
<1>1. CASE ~c
    <2>1. /\ Fit(h \ {f}, u, t, k)
          /\ Moves(Drop(f), Stand(h, u, t, k), Stand(h \ {f}, u, t, k))
        BY <1>1, MoveRecord
    <2>2. Drop(f) \in Call
        BY CallsIn
    <2>3. Piece(<<Drop(f)>>, Stand(h, u, t, k), Stand(h \ {f}, u, t, k))
        BY <2>1, <2>2, FitStand, PieceOne
    <2> QED BY <1>1, <2>1, <2>3 DEF Given
<1>2. CASE c
    <2>1. h \ {} = h
        OBVIOUS
    <2>2. Piece(<<>>, Stand(h, u, t, k), Stand(h, u, t, k))
        BY FitStand, PieceNone
    <2> QED BY <1>2, <2>1, <2>2 DEF Given
<1> QED BY <1>1, <1>2

(* An encoding whose output is decoded again.                              *)
LEMMA EncodeIf ==
    ASSUME NEW h, NEW u, NEW t, NEW k, Fit(h, u, t, k), NEW f \in Names, f \notin u,
           NEW c \in BOOLEAN
    PROVE  /\ Fit(h \cup Given(c, {f}), u \cup Given(c, {f}), t, k)
           /\ Piece(IF c THEN <<Try("other"), Encode(f), Run({}), Try("other")>> ELSE <<>>,
                    Stand(h, u, t, k), Stand(h \cup Given(c, {f}), u \cup Given(c, {f}), t, k))
<1>1. CASE c
    <2>1. /\ Fit(h \cup {f}, u \cup {f}, t, k)
          /\ Moves(Encode(f), Stand(h, u, t, k), Stand(h \cup {f}, u \cup {f}, t, k))
        BY MoveMake
    <2>2. Encode(f) \in Call /\ Try("other") \in Call /\ Run({}) \in Call
        BY CallsIn
    <2>3. Stand(h, u, t, k) \in Stands /\ Stand(h \cup {f}, u \cup {f}, t, k) \in Stands
        BY <2>1, FitStand
    <2>4. /\ Moves(Try("other"), Stand(h, u, t, k), Stand(h, u, t, k))
          /\ \A call \in {Try("other"), Run({})} :
                Moves(call, Stand(h \cup {f}, u \cup {f}, t, k), Stand(h \cup {f}, u \cup {f}, t, k))
        BY <2>3, Idling
    <2>5. Piece(<<Try("other"), Encode(f), Run({}), Try("other")>>,
                Stand(h, u, t, k), Stand(h \cup {f}, u \cup {f}, t, k))
        BY <2>1, <2>2, <2>3, <2>4, PieceFour
    <2> QED BY <1>1, <2>1, <2>5 DEF Given
<1>2. CASE ~c
    <2>1. h \cup {} = h /\ u \cup {} = u
        OBVIOUS
    <2>2. Piece(<<>>, Stand(h, u, t, k), Stand(h, u, t, k))
        BY FitStand, PieceNone
    <2> QED BY <1>2, <2>1, <2>2 DEF Given
<1> QED BY <1>1, <1>2

LEMMA EncodeAndRecordIf ==
    ASSUME NEW h, NEW u, NEW t, NEW k, Fit(h, u, t, k), NEW f \in Names, f \notin u,
           NEW c \in BOOLEAN
    PROVE  /\ Fit(h, u \cup Given(c, {f}), t \cup Given(c, {f}), k)
           /\ Piece(IF c THEN <<Encode(f), Run({}), Try("other"), Record(f)>> ELSE <<>>,
                    Stand(h, u, t, k), Stand(h, u \cup Given(c, {f}), t \cup Given(c, {f}), k))
<1>1. CASE c
    <2>1. /\ Fit(h \cup {f}, u \cup {f}, t, k)
          /\ Moves(Encode(f), Stand(h, u, t, k), Stand(h \cup {f}, u \cup {f}, t, k))
        BY MoveMake
    <2>2. (h \cup {f}) \ {f} = h /\ f \in h \cup {f}
        BY DEF Fit
    <2>3. /\ Fit(h, u \cup {f}, t \cup {f}, k)
          /\ Moves(Record(f), Stand(h \cup {f}, u \cup {f}, t, k),
                   Stand(h, u \cup {f}, t \cup {f}, k))
        <3>1. /\ Fit((h \cup {f}) \ {f}, u \cup {f}, t \cup {f}, k)
              /\ Moves(Record(f), Stand(h \cup {f}, u \cup {f}, t, k),
                       Stand((h \cup {f}) \ {f}, u \cup {f}, t \cup {f}, k))
            BY <2>1, <2>2, MoveRecord
        <3> QED BY <2>2, <3>1
    <2>4. Encode(f) \in Call /\ Try("other") \in Call /\ Run({}) \in Call /\ Record(f) \in Call
        BY CallsIn
    <2>5. /\ Stand(h, u, t, k) \in Stands /\ Stand(h \cup {f}, u \cup {f}, t, k) \in Stands
          /\ Stand(h, u \cup {f}, t \cup {f}, k) \in Stands
        BY <2>1, <2>3, FitStand
    <2>6. \A call \in {Try("other"), Run({})} :
             Moves(call, Stand(h \cup {f}, u \cup {f}, t, k), Stand(h \cup {f}, u \cup {f}, t, k))
        BY <2>5, Idling
    <2>7. Piece(<<Encode(f), Run({}), Try("other"), Record(f)>>,
                Stand(h, u, t, k), Stand(h, u \cup {f}, t \cup {f}, k))
        BY <2>1, <2>3, <2>4, <2>5, <2>6, PieceFour
    <2> QED BY <1>1, <2>3, <2>7 DEF Given
<1>2. CASE ~c
    <2>1. t \cup {} = t /\ u \cup {} = u
        OBVIOUS
    <2>2. Piece(<<>>, Stand(h, u, t, k), Stand(h, u, t, k))
        BY FitStand, PieceNone
    <2> QED BY <1>2, <2>1, <2>2 DEF Given
<1> QED BY <1>1, <1>2

LEMMA PieceFive ==
    ASSUME NEW A, NEW B, NEW C, NEW D, NEW E,
           NEW a, NEW b, NEW c, NEW d, NEW e, NEW f,
           Piece(A, a, b), Piece(B, b, c), Piece(C, c, d), Piece(D, d, e), Piece(E, e, f)
    PROVE  Piece(A \o B \o C \o D \o E, a, f)
<1>1. Piece(A \o B, a, c)
    BY PieceJoin
<1>2. Piece(A \o B \o C, a, d)
    BY <1>1, PieceJoin
<1>3. Piece(A \o B \o C \o D, a, e)
    BY <1>2, PieceJoin
<1> QED BY <1>3, PieceJoin

(* The formats of a WAV that is there.                                     *)
LEMMA AudioPiece ==
    ASSUME case \in Case, NEW dir \in Dirs, NEW stem \in Stems,
           NEW u, NEW t, NEW k, Fit({<<dir, stem, "wav">>}, u, t, k),
           <<dir, stem, "mp3">> \notin u, <<dir, stem, "flac">> \notin u
    PROVE  \E U \in SUBSET {<<dir, stem, "mp3">>, <<dir, stem, "flac">>} :
               /\ Fit({}, u \cup U, t \cup OfAudio(dir, stem), k)
               /\ Piece(RecordAudio(dir, stem), Stand({<<dir, stem, "wav">>}, u, t, k),
                        Stand({}, u \cup U, t \cup OfAudio(dir, stem), k))
<1>1. PICK wav, mp3, flac :
         /\ wav = <<dir, stem, "wav">> /\ mp3 = <<dir, stem, "mp3">> /\ flac = <<dir, stem, "flac">>
    OBVIOUS
<1>2. wav \in Names /\ mp3 \in Names /\ flac \in Names
    BY <1>1 DEF Names, Extensions
<1>3. wav # mp3 /\ wav # flac /\ mp3 # flac
    BY <1>1
<1>a. PICK m : m = ("mp3" \in case.audio)
    OBVIOUS
<1>b. PICK l : l = ("flac" \in case.audio)
    OBVIOUS
<1>c. PICK w : w = ("wav" \in case.audio \/ ~("flac" \in case.audio))
    OBVIOUS
<1>4. m \in BOOLEAN /\ l \in BOOLEAN /\ w \in BOOLEAN
    BY <1>a, <1>b, <1>c
<1>5. RecordAudio(dir, stem) =
         (IF m THEN <<Try("other"), Encode(mp3), Run({}), Try("other")>> ELSE <<>>)
         \o (IF w THEN <<Record(wav)>> ELSE <<>>)
         \o (IF m THEN <<Record(mp3)>> ELSE <<>>)
         \o (IF l THEN <<Encode(flac), Run({}), Try("other"), Record(flac)>> ELSE <<>>)
         \o (IF w THEN <<>> ELSE <<Drop(wav)>>)
    BY <1>1, <1>a, <1>b, <1>c DEF RecordAudio
<1>6. OfAudio(dir, stem) = Given(w, {wav}) \cup Given(m, {mp3}) \cup Given(l, {flac})
    <2>1. case.audio \subseteq {"wav", "flac", "mp3"}
        BY DEF Case
    <2>2. OfAudio(dir, stem) =
             {<<dir, stem, e>> : e \in case.audio \cup (IF "flac" \in case.audio THEN {} ELSE {"wav"})}
        BY DEF OfAudio
    <2> QED BY <2>1, <2>2, <1>1, <1>a, <1>b, <1>c DEF Given
<1>7. PICK M, W, L, X :
         M = Given(m, {mp3}) /\ W = Given(w, {wav}) /\ L = Given(l, {flac}) /\ X = Given(~w, {wav})
    OBVIOUS
<1>8. M \subseteq {mp3} /\ W \subseteq {wav} /\ L \subseteq {flac} /\ W \cup X = {wav}
    BY <1>7 DEF Given
<1>9. Fit({wav}, u, t, k) /\ mp3 \notin u /\ flac \notin u
    BY <1>1
<1>10. /\ Fit({wav} \cup M, u \cup M, t, k)
       /\ Piece(IF m THEN <<Try("other"), Encode(mp3), Run({}), Try("other")>> ELSE <<>>,
                Stand({wav}, u, t, k), Stand({wav} \cup M, u \cup M, t, k))
    BY <1>4, <1>2, <1>7, <1>9, EncodeIf
<1>11. /\ Fit(({wav} \cup M) \ W, u \cup M, t \cup W, k)
       /\ Piece(IF w THEN <<Record(wav)>> ELSE <<>>,
                Stand({wav} \cup M, u \cup M, t, k), Stand(({wav} \cup M) \ W, u \cup M, t \cup W, k))
    BY <1>4, <1>2, <1>7, <1>10, RecordIf
<1> DEFINE H == (({wav} \cup M) \ W) \ M
<1>12. /\ Fit(H, u \cup M, t \cup W \cup M, k)
       /\ Piece(IF m THEN <<Record(mp3)>> ELSE <<>>,
                Stand(({wav} \cup M) \ W, u \cup M, t \cup W, k),
                Stand(H, u \cup M, t \cup W \cup M, k))
    <2>1. m => mp3 \in ({wav} \cup M) \ W
        BY <1>3, <1>7, <1>8 DEF Given
    <2> QED BY <1>4, <1>2, <1>7, <1>11, <2>1, RecordIf
<1>13. ~w => wav \in H
    BY <1>3, <1>7, <1>8 DEF Given
<1>14. H \ X = {}
    BY <1>8
<1>15. flac \notin u \cup M
    BY <1>3, <1>8, <1>9
<1> HIDE DEF H
<1>16. /\ Fit(H, u \cup M \cup L, t \cup W \cup M \cup L, k)
       /\ Piece(IF l THEN <<Encode(flac), Run({}), Try("other"), Record(flac)>> ELSE <<>>,
                Stand(H, u \cup M, t \cup W \cup M, k),
                Stand(H, u \cup M \cup L, t \cup W \cup M \cup L, k))
    BY <1>4, <1>2, <1>7, <1>12, <1>15, EncodeAndRecordIf
<1>17. /\ Fit({}, u \cup M \cup L, t \cup W \cup M \cup L, k)
       /\ Piece(IF w THEN <<>> ELSE <<Drop(wav)>>,
                Stand(H, u \cup M \cup L, t \cup W \cup M \cup L, k),
                Stand({}, u \cup M \cup L, t \cup W \cup M \cup L, k))
    <2>1. /\ Fit(H \ X, u \cup M \cup L, t \cup W \cup M \cup L, k)
          /\ Piece(IF w THEN <<>> ELSE <<Drop(wav)>>,
                   Stand(H, u \cup M \cup L, t \cup W \cup M \cup L, k),
                   Stand(H \ X, u \cup M \cup L, t \cup W \cup M \cup L, k))
        BY <1>4, <1>2, <1>7, <1>13, <1>16, DropIf
    <2> QED BY <1>14, <2>1
<1>18. Piece(RecordAudio(dir, stem), Stand({wav}, u, t, k),
             Stand({}, u \cup M \cup L, t \cup W \cup M \cup L, k))
    <2>1. PICK A, B, C, D, E :
             /\ A = (IF m THEN <<Try("other"), Encode(mp3), Run({}), Try("other")>> ELSE <<>>)
             /\ B = (IF w THEN <<Record(wav)>> ELSE <<>>)
             /\ C = (IF m THEN <<Record(mp3)>> ELSE <<>>)
             /\ D = (IF l THEN <<Encode(flac), Run({}), Try("other"), Record(flac)>> ELSE <<>>)
             /\ E = (IF w THEN <<>> ELSE <<Drop(wav)>>)
        OBVIOUS
    <2>2. PICK a, b, c, d, e, f :
             /\ a = Stand({wav}, u, t, k)
             /\ b = Stand({wav} \cup M, u \cup M, t, k)
             /\ c = Stand(({wav} \cup M) \ W, u \cup M, t \cup W, k)
             /\ d = Stand(H, u \cup M, t \cup W \cup M, k)
             /\ e = Stand(H, u \cup M \cup L, t \cup W \cup M \cup L, k)
             /\ f = Stand({}, u \cup M \cup L, t \cup W \cup M \cup L, k)
        OBVIOUS
    <2>3. Piece(A, a, b)
        BY <1>10, <2>1, <2>2
    <2>4. Piece(B, b, c)
        BY <1>11, <2>1, <2>2
    <2>5. Piece(C, c, d)
        BY <1>12, <2>1, <2>2
    <2>6. Piece(D, d, e)
        BY <1>16, <2>1, <2>2
    <2>7. Piece(E, e, f)
        BY <1>17, <2>1, <2>2
    <2>8. Piece(A \o B \o C \o D \o E, a, f)
        BY <2>3, <2>4, <2>5, <2>6, <2>7, PieceFive
    <2> QED BY <1>5, <2>1, <2>2, <2>8
<1>19. /\ u \cup M \cup L = u \cup (M \cup L)
       /\ t \cup W \cup M \cup L = t \cup OfAudio(dir, stem)
       /\ M \cup L \in SUBSET {mp3, flac}
    BY <1>6, <1>7, <1>8
<1> QED BY <1>1, <1>17, <1>18, <1>19

-----------------------------------------------------------------------------
(* Calls that change nothing.                                              *)
Idles == {c \in Call : c.op \in {"look", "try", "fits"}} \cup {Run({})}

LEMMA IdlesIn ==
    /\ Look \in Idles /\ Run({}) \in Idles
    /\ \A class \in {"decode", "other"} : Try(class) \in Idles
    /\ \A f \in Names : Fits(f) \in Idles
    /\ Idles \subseteq Call
<1>1. Look.op = "look" /\ (\A class : Try(class).op = "try") /\ \A f : Fits(f).op = "fits"
    BY DEF Look, Try, Fits
<1> QED BY <1>1, CallsIn DEF Idles

LEMMA IdleMoves ==
    ASSUME NEW c \in Idles, NEW a \in Stands
    PROVE  Moves(c, a, a)
<1>1. CASE c = Run({})
    BY <1>1, Idling
<1>2. CASE c # Run({})
    BY <1>2 DEF Idles, Moves
<1> QED BY <1>1, <1>2

LEMMA IdlePiece ==
    ASSUME NEW s \in Seq(Idles), NEW a \in Stands
    PROVE  Piece(s, a, a)
<1>1. Len(s) \in Nat /\ \A i \in 1 .. Len(s) : s[i] \in Idles
    OBVIOUS
<1>2. s \in Seq(Call)
    BY IdlesIn, SeqMonotonic
<1> DEFINE p == [i \in 0 .. Len(s) |-> a]
<1>3. p \in [0 .. Len(s) -> Stands] /\ p[0] = a /\ p[Len(s)] = a
    BY <1>1
<1>4. \A i \in 1 .. Len(s) : p[i - 1] = a /\ p[i] = a
    BY <1>1
<1> HIDE DEF p
<1>5. Path(s, p)
    BY <1>1, <1>3, <1>4, IdleMoves DEF Path
<1> QED BY <1>2, <1>3, <1>5 DEF Piece

(* Calls that begin and end with no file waiting: they write to W only,    *)
(* list T and hold H.                                                      *)
Apart(u, W) == u \cap W = {}

Ends(s, W, T, H, u, t, k) ==
    \E U \in SUBSET W :
        /\ Fit({}, u \cup U, t \cup T, k \cup H)
        /\ Piece(s, Stand({}, u, t, k), Stand({}, u \cup U, t \cup T, k \cup H))

Closed(s, W, T, H) ==
    /\ s \in Seq(Call)
    /\ \A u, t, k : Fit({}, u, t, k) /\ Apart(u, W) => Ends(s, W, T, H, u, t, k)

LEMMA ClosedIdle ==
    ASSUME NEW s \in Seq(Idles)
    PROVE  Closed(s, {}, {}, {})
<1>1. s \in Seq(Call)
    BY IdlesIn, SeqMonotonic
<1>2. ASSUME NEW u, NEW t, NEW k, Fit({}, u, t, k)
      PROVE  \E U \in SUBSET {} :
                /\ Fit({}, u \cup U, t \cup {}, k \cup {})
                /\ Piece(s, Stand({}, u, t, k), Stand({}, u \cup U, t \cup {}, k \cup {}))
    <2>1. u \cup {} = u /\ t \cup {} = t /\ k \cup {} = k
        OBVIOUS
    <2>2. Piece(s, Stand({}, u, t, k), Stand({}, u, t, k))
        BY <1>2, FitStand, IdlePiece
    <2>3. {} \in SUBSET {}
        OBVIOUS
    <2> QED BY <1>2, <2>1, <2>2, <2>3
<1> QED BY <1>1, <1>2 DEF Closed, Ends

LEMMA ClosedJoin ==
    ASSUME NEW s, NEW W, NEW T, NEW H, Closed(s, W, T, H),
           NEW r, NEW X, NEW Y, NEW K, Closed(r, X, Y, K), W \cap X = {}
    PROVE  Closed(s \o r, W \cup X, T \cup Y, H \cup K)
<1>1. s \o r \in Seq(Call)
    BY ConcatProperties DEF Closed
<1>2. ASSUME NEW u, NEW t, NEW k, Fit({}, u, t, k), Apart(u, W \cup X)
      PROVE  \E U \in SUBSET (W \cup X) :
                /\ Fit({}, u \cup U, t \cup (T \cup Y), k \cup (H \cup K))
                /\ Piece(s \o r, Stand({}, u, t, k),
                         Stand({}, u \cup U, t \cup (T \cup Y), k \cup (H \cup K)))
    <2>1. Apart(u, W)
        BY <1>2 DEF Apart
    <2>2. PICK U \in SUBSET W :
             /\ Fit({}, u \cup U, t \cup T, k \cup H)
             /\ Piece(s, Stand({}, u, t, k), Stand({}, u \cup U, t \cup T, k \cup H))
        BY <1>2, <2>1 DEF Closed, Ends
    <2>3. Apart(u \cup U, X)
        BY <1>2 DEF Apart
    <2>4. PICK V \in SUBSET X :
             /\ Fit({}, (u \cup U) \cup V, (t \cup T) \cup Y, (k \cup H) \cup K)
             /\ Piece(r, Stand({}, u \cup U, t \cup T, k \cup H),
                      Stand({}, (u \cup U) \cup V, (t \cup T) \cup Y, (k \cup H) \cup K))
        BY <2>2, <2>3 DEF Closed, Ends
    <2>5. Piece(s \o r, Stand({}, u, t, k),
                Stand({}, (u \cup U) \cup V, (t \cup T) \cup Y, (k \cup H) \cup K))
        BY <2>2, <2>4, PieceJoin
    <2>6. /\ (u \cup U) \cup V = u \cup (U \cup V) /\ (t \cup T) \cup Y = t \cup (T \cup Y)
          /\ (k \cup H) \cup K = k \cup (H \cup K) /\ U \cup V \in SUBSET (W \cup X)
        OBVIOUS
    <2> QED BY <2>4, <2>5, <2>6
<1> QED BY <1>1, <1>2 DEF Closed, Ends

LEMMA ClosedWiden ==
    ASSUME NEW s, NEW W, NEW T, NEW H, Closed(s, W, T, H), NEW X, W \subseteq X
    PROVE  Closed(s, X, T, H)
<1>1. ASSUME NEW u, NEW t, NEW k, Fit({}, u, t, k), Apart(u, X)
      PROVE  \E U \in SUBSET X :
                /\ Fit({}, u \cup U, t \cup T, k \cup H)
                /\ Piece(s, Stand({}, u, t, k), Stand({}, u \cup U, t \cup T, k \cup H))
    <2>1. Apart(u, W)
        BY <1>1 DEF Apart
    <2>2. PICK U \in SUBSET W :
             /\ Fit({}, u \cup U, t \cup T, k \cup H)
             /\ Piece(s, Stand({}, u, t, k), Stand({}, u \cup U, t \cup T, k \cup H))
        BY <1>1, <2>1 DEF Closed, Ends
    <2> QED BY <2>2
<1> QED BY <1>1 DEF Closed, Ends

(* AtRest calls in front and behind.                                         *)
LEMMA ClosedAfter ==
    ASSUME NEW i \in Seq(Idles), NEW s, NEW W, NEW T, NEW H, Closed(s, W, T, H)
    PROVE  Closed(i \o s, W, T, H)
<1>1. Closed(i \o s, {} \cup W, {} \cup T, {} \cup H)
    <2>1. {} \cap W = {}
        OBVIOUS
    <2> QED BY <2>1, ClosedIdle, ClosedJoin
<1>2. {} \cup W = W /\ {} \cup T = T /\ {} \cup H = H
    OBVIOUS
<1> QED BY <1>1, <1>2

LEMMA ClosedSaved ==
    ASSUME NEW f \in Names
    PROVE  Closed(Saved(f), {f}, {f}, {})
<1>1. Saved(f) \in Seq(Call)
    <2>1. Make(f) \in Call /\ Record(f) \in Call
        BY CallsIn
    <2> QED BY <2>1 DEF Saved
<1>2. ASSUME NEW u, NEW t, NEW k, Fit({}, u, t, k), Apart(u, {f})
      PROVE  \E U \in SUBSET {f} :
                /\ Fit({}, u \cup U, t \cup {f}, k \cup {})
                /\ Piece(Saved(f), Stand({}, u, t, k), Stand({}, u \cup U, t \cup {f}, k \cup {}))
    <2>1. f \notin u /\ k \cup {} = k /\ {f} \in SUBSET {f}
        BY <1>2 DEF Apart
    <2>2. /\ Fit({}, u \cup {f}, t \cup {f}, k)
          /\ Piece(Saved(f), Stand({}, u, t, k), Stand({}, u \cup {f}, t \cup {f}, k))
        BY <1>2, <2>1, SavedPiece
    <2> QED BY <2>1, <2>2
<1> QED BY <1>1, <1>2 DEF Closed, Ends

AllOf(X, n) == UNION {X[i] : i \in 1 .. n}

(* One after the other, each with names of its own.                        *)
LEMMA ClosedFlatten ==
    ASSUME NEW seqs \in Seq(Seq(Call)), NEW F, NEW G, NEW K,
           \A i \in 1 .. Len(seqs) : Closed(seqs[i], F[i], G[i], K[i]),
           \A i, j \in 1 .. Len(seqs) : i # j => Apart(F[i], F[j])
    PROVE  Closed(FlattenSeq(seqs), AllOf(F, Len(seqs)), AllOf(G, Len(seqs)), AllOf(K, Len(seqs)))
<1> DEFINE Upto(n) == [i \in 1 .. n |-> seqs[i]]
           Good == {n \in Nat : n <= Len(seqs) =>
                       Closed(FlattenSeq(Upto(n)), AllOf(F, n), AllOf(G, n), AllOf(K, n))}
<1>1. Len(seqs) \in Nat /\ \A i \in 1 .. Len(seqs) : seqs[i] \in Seq(Call)
    OBVIOUS
<1>2. 0 \in Good
    <2>1. Upto(0) = <<>>
        OBVIOUS
    <2>2. FlattenSeq(<<>>) = <<>>
        BY DEF FlattenSeq
    <2>3. AllOf(F, 0) = {} /\ AllOf(G, 0) = {} /\ AllOf(K, 0) = {}
        BY DEF AllOf
    <2>4. Closed(<<>>, {}, {}, {})
        <3>1. <<>> \in Seq(Idles)
            OBVIOUS
        <3> QED BY <3>1, ClosedIdle
    <2> HIDE DEF Upto
    <2> QED BY <2>1, <2>2, <2>3, <2>4
<1>3. ASSUME NEW n \in Nat, n \in Good PROVE n + 1 \in Good
    <2> SUFFICES ASSUME n + 1 <= Len(seqs)
                 PROVE  Closed(FlattenSeq(Upto(n + 1)), AllOf(F, n + 1), AllOf(G, n + 1), AllOf(K, n + 1))
        OBVIOUS
    <2>1. n + 1 \in 1 .. Len(seqs) /\ n <= Len(seqs)
        BY <1>1
    <2>2. Closed(FlattenSeq(Upto(n)), AllOf(F, n), AllOf(G, n), AllOf(K, n))
        BY <1>3, <2>1
    <2>3. Upto(n) \in Seq(Seq(Call)) /\ seqs[n + 1] \in Seq(Call)
        <3>1. \A i \in 1 .. n : seqs[i] \in Seq(Call)
            BY <1>1, <2>1
        <3>2. Seq(Call) = Seq(Call)
            OBVIOUS
        <3> DEFINE Q == Seq(Call)
        <3>3. \A i \in 1 .. n : seqs[i] \in Q
            BY <3>1
        <3> HIDE DEF Q
        <3>4. [i \in 1 .. n |-> seqs[i]] \in Seq(Q)
            BY <3>3
        <3> QED BY <1>1, <2>1, <3>4 DEF Q
    <2>4. Upto(n + 1) = Append(Upto(n), seqs[n + 1])
        <3> DEFINE s == Upto(n + 1)
                   r == Append(Upto(n), seqs[n + 1])
        <3>1. s \in Seq(Seq(Call)) /\ Len(s) = n + 1
            <4>1. \A i \in 1 .. n + 1 : seqs[i] \in Seq(Call)
                BY <1>1, <2>1
            <4> QED BY <4>1
        <3>2. /\ r \in Seq(Seq(Call)) /\ Len(r) = n + 1
              /\ \A i \in 1 .. n : r[i] = Upto(n)[i]
              /\ r[n + 1] = seqs[n + 1]
            <4>1. Len(Upto(n)) = n
                OBVIOUS
            <4> HIDE DEF Upto
            <4> QED BY <2>3, <4>1, AppendProperties
        <3>3. \A i \in 1 .. n + 1 : s[i] = r[i]
            <4>1. ASSUME NEW i \in 1 .. n + 1 PROVE s[i] = r[i]
                <5>1. CASE i = n + 1
                    BY <5>1, <3>2
                <5>2. CASE i # n + 1
                    <6>1. i \in 1 .. n
                        BY <5>2
                    <6> QED BY <6>1, <3>2
                <5> QED BY <5>1, <5>2
            <4> QED BY <4>1
        <3> HIDE DEF s, r
        <3> QED BY <3>1, <3>2, <3>3, SeqEqual DEF s, r
    <2>5. FlattenSeq(Upto(n + 1)) = FlattenSeq(Upto(n)) \o seqs[n + 1]
        <3> HIDE DEF Upto
        <3> QED BY <2>3, <2>4, FlattenSnoc
    <2>6. Closed(seqs[n + 1], F[n + 1], G[n + 1], K[n + 1])
        BY <2>1
    <2>7. AllOf(F, n) \cap F[n + 1] = {}
        <3>1. ASSUME NEW i \in 1 .. n PROVE F[i] \cap F[n + 1] = {}
            <4>1. i \in 1 .. Len(seqs) /\ i # n + 1
                BY <2>1, <1>1
            <4> QED BY <2>1, <4>1 DEF Apart
        <3> QED BY <3>1 DEF AllOf
    <2>8. \A X : AllOf(X, n + 1) = AllOf(X, n) \cup X[n + 1]
        <3>1. 1 .. n + 1 = (1 .. n) \cup {n + 1}
            OBVIOUS
        <3> QED BY <3>1 DEF AllOf
    <2> HIDE DEF Upto
    <2>9. Closed(FlattenSeq(Upto(n)) \o seqs[n + 1], AllOf(F, n) \cup F[n + 1],
                 AllOf(G, n) \cup G[n + 1], AllOf(K, n) \cup K[n + 1])
        BY <2>2, <2>6, <2>7, ClosedJoin
    <2> QED BY <2>5, <2>8, <2>9
<1> HIDE DEF Good
<1>4. Len(seqs) \in Good
    BY <1>1, <1>2, <1>3, CountUp
<1>5. Upto(Len(seqs)) = seqs
    <2>1. DOMAIN seqs = 1 .. Len(seqs) /\ seqs = [i \in DOMAIN seqs |-> seqs[i]]
        OBVIOUS
    <2> QED BY <2>1
<1> HIDE DEF Upto
<1> QED BY <1>1, <1>4, <1>5 DEF Good

LEMMA ClosedEach ==
    ASSUME NEW len \in Nat, NEW seqs, NEW F, NEW G, NEW K,
           seqs = [i \in 1 .. len |-> seqs[i]],
           \A i \in 1 .. len : Closed(seqs[i], F[i], G[i], K[i]),
           \A i, j \in 1 .. len : i # j => Apart(F[i], F[j])
    PROVE  Closed(FlattenSeq(seqs), AllOf(F, len), AllOf(G, len), AllOf(K, len))
<1>1. seqs \in Seq(Seq(Call)) /\ Len(seqs) = len
    <2>1. \A i \in 1 .. len : seqs[i] \in Seq(Call)
        BY DEF Closed
    <2> DEFINE Q == Seq(Call)
    <2> HIDE DEF Q
    <2>2. [i \in 1 .. len |-> seqs[i]] \in Seq(Q) /\ Len([i \in 1 .. len |-> seqs[i]]) = len
        BY <2>1 DEF Q
    <2> QED BY <2>2 DEF Q
<1>2. /\ \A i \in 1 .. Len(seqs) : Closed(seqs[i], F[i], G[i], K[i])
      /\ \A i, j \in 1 .. Len(seqs) : i # j => Apart(F[i], F[j])
    BY <1>1
<1>3. Closed(FlattenSeq(seqs), AllOf(F, Len(seqs)), AllOf(G, Len(seqs)), AllOf(K, Len(seqs)))
    BY <1>1, <1>2, ClosedFlatten
<1> QED BY <1>1, <1>3

LEMMA ClosedPair ==
    ASSUME NEW s, NEW W, NEW T, Closed(s, W, T, {}),
           NEW r, NEW X, NEW Y, Closed(r, X, Y, {}), W \cap X = {}
    PROVE  Closed(s \o r, W \cup X, T \cup Y, {})
<1>1. Closed(s \o r, W \cup X, T \cup Y, {} \cup {})
    BY ClosedJoin
<1>2. {} \cup {} = {}
    OBVIOUS
<1> QED BY <1>1, <1>2

LEMMA ClosedBefore ==
    ASSUME NEW i \in Seq(Idles), NEW s, NEW W, NEW T, NEW H, Closed(s, W, T, H)
    PROVE  Closed(s \o i, W, T, H)
<1>1. Closed(s \o i, W \cup {}, T \cup {}, H \cup {})
    <2>1. W \cap {} = {}
        OBVIOUS
    <2> QED BY <2>1, ClosedIdle, ClosedJoin
<1>2. W \cup {} = W /\ T \cup {} = T /\ H \cup {} = H
    OBVIOUS
<1> QED BY <1>1, <1>2

(* Calls after which f waits to be listed.                                 *)
Brings(s, f) ==
    \A u, t, k : Fit({}, u, t, k) /\ f \notin u =>
        /\ Fit({f}, u \cup {f}, t, k)
        /\ Piece(s, Stand({}, u, t, k), Stand({f}, u \cup {f}, t, k))

LEMMA BringsMove ==
    ASSUME NEW f \in Names, NEW u, NEW t, NEW k, Fit({}, u, t, k), f \notin u
    PROVE  /\ Fit({f}, u \cup {f}, t, k)
           /\ Stand({}, u, t, k) \in Stands /\ Stand({f}, u \cup {f}, t, k) \in Stands
           /\ \A c \in {Make(f), Encode(f), Run({f})} :
                 c \in Call /\ Moves(c, Stand({}, u, t, k), Stand({f}, u \cup {f}, t, k))
           /\ \A c \in Idles : /\ c \in Call
                               /\ Moves(c, Stand({}, u, t, k), Stand({}, u, t, k))
                               /\ Moves(c, Stand({f}, u \cup {f}, t, k), Stand({f}, u \cup {f}, t, k))
<1>1. {} \cup {f} = {f}
    OBVIOUS
<1>2. /\ Fit({f}, u \cup {f}, t, k)
      /\ \A c \in {Make(f), Encode(f), Run({f})} :
            Moves(c, Stand({}, u, t, k), Stand({f}, u \cup {f}, t, k))
    <2>1. /\ Fit({} \cup {f}, u \cup {f}, t, k)
          /\ Moves(Make(f), Stand({}, u, t, k), Stand({} \cup {f}, u \cup {f}, t, k))
          /\ Moves(Encode(f), Stand({}, u, t, k), Stand({} \cup {f}, u \cup {f}, t, k))
          /\ Moves(Run({f}), Stand({}, u, t, k), Stand({} \cup {f}, u \cup {f}, t, k))
        BY MoveMake
    <2> QED BY <1>1, <2>1
<1>3. Stand({}, u, t, k) \in Stands /\ Stand({f}, u \cup {f}, t, k) \in Stands
    BY <1>2, FitStand
<1>4. \A c \in {Make(f), Encode(f), Run({f})} : c \in Call
    <2>1. {f} \in SUBSET Names
        OBVIOUS
    <2> QED BY <2>1, CallsIn
<1> QED BY <1>2, <1>3, <1>4, IdleMoves, IdlesIn

LEMMA BringsIdle ==
    ASSUME NEW f, NEW s, Brings(s, f), NEW i \in Seq(Idles)
    PROVE  Brings(s \o i, f)
<1>1. ASSUME NEW u, NEW t, NEW k, Fit({}, u, t, k), f \notin u
      PROVE  /\ Fit({f}, u \cup {f}, t, k)
             /\ Piece(s \o i, Stand({}, u, t, k), Stand({f}, u \cup {f}, t, k))
    <2>1. /\ Fit({f}, u \cup {f}, t, k)
          /\ Piece(s, Stand({}, u, t, k), Stand({f}, u \cup {f}, t, k))
        BY <1>1 DEF Brings
    <2>2. Piece(i, Stand({f}, u \cup {f}, t, k), Stand({f}, u \cup {f}, t, k))
        BY <2>1, FitStand, IdlePiece
    <2> QED BY <2>1, <2>2, PieceJoin
<1> QED BY <1>1 DEF Brings

LEMMA BringsOne ==
    ASSUME NEW f \in Names, NEW c \in {Make(f), Encode(f), Run({f})}
    PROVE  Brings(<<c>>, f)
BY BringsMove, PieceOne DEF Brings

LEMMA BringsTwo ==
    ASSUME NEW f \in Names, NEW c \in {Make(f), Encode(f), Run({f})}, NEW d \in Idles
    PROVE  Brings(<<c, d>>, f)
BY BringsMove, PieceTwo DEF Brings

LEMMA BringsThree ==
    ASSUME NEW f \in Names, NEW c \in {Make(f), Encode(f), Run({f})}, NEW d \in Idles, NEW e \in Idles
    PROVE  Brings(<<d, c, e>>, f)
BY BringsMove, PieceThree DEF Brings

LEMMA BringsFour ==
    ASSUME NEW f \in Names, NEW c \in {Make(f), Encode(f), Run({f})}, NEW d \in Idles,
           NEW e \in Idles, NEW g \in Idles
    PROVE  Brings(<<d, e, c, g>>, f) /\ Brings(<<d, e, g, c>>, f)
<1>1. Brings(<<d, e, c, g>>, f)
    <2>1. ASSUME NEW u, NEW t, NEW k, Fit({}, u, t, k), f \notin u
          PROVE  /\ Fit({f}, u \cup {f}, t, k)
                 /\ Piece(<<d, e, c, g>>, Stand({}, u, t, k), Stand({f}, u \cup {f}, t, k))
        <3>1. PICK a, b \in Stands : a = Stand({}, u, t, k) /\ b = Stand({f}, u \cup {f}, t, k)
            BY <2>1, BringsMove
        <3>2. /\ Fit({f}, u \cup {f}, t, k)
              /\ c \in Call /\ d \in Call /\ e \in Call /\ g \in Call
              /\ Moves(c, a, b) /\ Moves(d, a, a) /\ Moves(e, a, a) /\ Moves(g, a, a)
              /\ Moves(g, b, b)
            BY <2>1, <3>1, BringsMove
        <3>3. Piece(<<d, e, c, g>>, a, b)
            BY <3>2, PieceFour
        <3> QED BY <3>1, <3>2, <3>3
    <2> QED BY <2>1 DEF Brings
<1>2. Brings(<<d, e, g, c>>, f)
    <2>1. ASSUME NEW u, NEW t, NEW k, Fit({}, u, t, k), f \notin u
          PROVE  /\ Fit({f}, u \cup {f}, t, k)
                 /\ Piece(<<d, e, g, c>>, Stand({}, u, t, k), Stand({f}, u \cup {f}, t, k))
        <3>1. PICK a, b \in Stands : a = Stand({}, u, t, k) /\ b = Stand({f}, u \cup {f}, t, k)
            BY <2>1, BringsMove
        <3>2. /\ Fit({f}, u \cup {f}, t, k)
              /\ c \in Call /\ d \in Call /\ e \in Call /\ g \in Call
              /\ Moves(c, a, b) /\ Moves(d, a, a) /\ Moves(e, a, a) /\ Moves(g, a, a)
              /\ Moves(g, b, b)
            BY <2>1, <3>1, BringsMove
        <3>3. Piece(<<d, e, g, c>>, a, b)
            BY <3>2, PieceFour
        <3> QED BY <3>1, <3>2, <3>3
    <2> QED BY <2>1 DEF Brings
<1> QED BY <1>1, <1>2

LEMMA ClosedBrings ==
    ASSUME NEW f \in Names, NEW s, s \in Seq(Call), Brings(s, f)
    PROVE  Closed(s \o <<Record(f)>>, {f}, {f}, {})
<1>1. s \o <<Record(f)>> \in Seq(Call)
    <2>1. <<Record(f)>> \in Seq(Call)
        BY CallsIn
    <2> QED BY <2>1, ConcatProperties
<1>2. ASSUME NEW u, NEW t, NEW k, Fit({}, u, t, k), Apart(u, {f})
      PROVE  \E U \in SUBSET {f} :
                /\ Fit({}, u \cup U, t \cup {f}, k \cup {})
                /\ Piece(s \o <<Record(f)>>, Stand({}, u, t, k),
                         Stand({}, u \cup U, t \cup {f}, k \cup {}))
    <2>1. f \notin u
        BY <1>2 DEF Apart
    <2>2. /\ Fit({f}, u \cup {f}, t, k)
          /\ Piece(s, Stand({}, u, t, k), Stand({f}, u \cup {f}, t, k))
        BY <1>2, <2>1 DEF Brings
    <2>3. {f} \ {f} = {} /\ f \in {f} /\ k \cup {} = k /\ {f} \in SUBSET {f}
        OBVIOUS
    <2>4. /\ Fit({}, u \cup {f}, t \cup {f}, k)
          /\ Moves(Record(f), Stand({f}, u \cup {f}, t, k), Stand({}, u \cup {f}, t \cup {f}, k))
        <3>1. /\ Fit({f} \ {f}, u \cup {f}, t \cup {f}, k)
              /\ Moves(Record(f), Stand({f}, u \cup {f}, t, k),
                       Stand({f} \ {f}, u \cup {f}, t \cup {f}, k))
            BY <2>2, <2>3, MoveRecord
        <3> QED BY <2>3, <3>1
    <2>5. Piece(<<Record(f)>>, Stand({f}, u \cup {f}, t, k), Stand({}, u \cup {f}, t \cup {f}, k))
        <3>1. Record(f) \in Call
            BY CallsIn
        <3> QED BY <2>2, <2>4, <3>1, FitStand, PieceOne
    <2>6. Piece(s \o <<Record(f)>>, Stand({}, u, t, k), Stand({}, u \cup {f}, t \cup {f}, k))
        BY <2>2, <2>5, PieceJoin
    <2> QED BY <2>3, <2>4, <2>6
<1> QED BY <1>1, <1>2 DEF Closed, Ends

Sounds(dir, stem) == {<<dir, stem, "wav">>, <<dir, stem, "mp3">>, <<dir, stem, "flac">>}

LEMMA SoundsIn ==
    ASSUME NEW dir \in Dirs, NEW stem \in Stems
    PROVE  Sounds(dir, stem) \subseteq Names
BY DEF Sounds, Names, Extensions

(* A WAV and its formats.                                                  *)
LEMMA ClosedAudio ==
    ASSUME case \in Case, NEW dir \in Dirs, NEW stem \in Stems, NEW s, s \in Seq(Call),
           Brings(s, <<dir, stem, "wav">>)
    PROVE  Closed(s \o RecordAudio(dir, stem), Sounds(dir, stem), OfAudio(dir, stem), {})
<1>1. PICK wav, mp3, flac :
         /\ wav = <<dir, stem, "wav">> /\ mp3 = <<dir, stem, "mp3">> /\ flac = <<dir, stem, "flac">>
    OBVIOUS
<1>2. wav # mp3 /\ wav # flac /\ mp3 # flac
    BY <1>1
<1>3. Sounds(dir, stem) = {wav, mp3, flac}
    BY <1>1 DEF Sounds
<1>4. s \o RecordAudio(dir, stem) \in Seq(Call)
    <2>1. Fit({wav}, {wav}, {}, {})
        BY <1>3, SoundsIn DEF Fit
    <2>2. mp3 \notin {wav} /\ flac \notin {wav}
        BY <1>2
    <2>3. RecordAudio(dir, stem) \in Seq(Call)
        BY <1>1, <2>1, <2>2, AudioPiece DEF Piece
    <2> QED BY <2>3, ConcatProperties
<1>5. ASSUME NEW u, NEW t, NEW k, Fit({}, u, t, k), Apart(u, Sounds(dir, stem))
      PROVE  \E U \in SUBSET Sounds(dir, stem) :
                /\ Fit({}, u \cup U, t \cup OfAudio(dir, stem), k \cup {})
                /\ Piece(s \o RecordAudio(dir, stem), Stand({}, u, t, k),
                         Stand({}, u \cup U, t \cup OfAudio(dir, stem), k \cup {}))
    <2>1. wav \notin u /\ mp3 \notin u \cup {wav} /\ flac \notin u \cup {wav}
        BY <1>2, <1>3, <1>5 DEF Apart
    <2>2. /\ Fit({wav}, u \cup {wav}, t, k)
          /\ Piece(s, Stand({}, u, t, k), Stand({wav}, u \cup {wav}, t, k))
        BY <1>1, <1>5, <2>1 DEF Brings
    <2>3. PICK U \in SUBSET {mp3, flac} :
             /\ Fit({}, (u \cup {wav}) \cup U, t \cup OfAudio(dir, stem), k)
             /\ Piece(RecordAudio(dir, stem), Stand({wav}, u \cup {wav}, t, k),
                      Stand({}, (u \cup {wav}) \cup U, t \cup OfAudio(dir, stem), k))
        BY <1>1, <2>1, <2>2, AudioPiece
    <2>4. Piece(s \o RecordAudio(dir, stem), Stand({}, u, t, k),
                Stand({}, (u \cup {wav}) \cup U, t \cup OfAudio(dir, stem), k))
        BY <2>2, <2>3, PieceJoin
    <2>5. /\ (u \cup {wav}) \cup U = u \cup ({wav} \cup U) /\ k \cup {} = k
          /\ {wav} \cup U \in SUBSET Sounds(dir, stem)
        BY <1>3
    <2> QED BY <2>3, <2>4, <2>5
<1> QED BY <1>4, <1>5 DEF Closed, Ends

-----------------------------------------------------------------------------
(* What each container and kind of object becomes.                         *)
LEMMA DirsIn ==
    /\ Root \in Dirs /\ Dir("raw") \in Dirs /\ Dir("color") \in Dirs /\ Dir("alpha") \in Dirs
    /\ \A n \in Nat : BankDir(n) \in Dirs
BY DEF Dirs, Root, Dir, BankDir

LEMMA FileIn ==
    ASSUME NEW dir \in Dirs, NEW e \in Extensions,
           NEW kind \in {"container", "sound", "video", "movie", "usm", "mask", "playable", "bundle"}
    PROVE  /\ File(dir, kind, e) \in Within(dir) /\ File(dir, kind, e) \in Names
           /\ File(dir, kind, e)[1] = dir /\ File(dir, kind, e)[2] = <<kind, 0>>
           /\ File(dir, kind, e)[3] = e /\ <<kind, 0>> \in Stems
BY DEF File, Names, Stems, Within

OfNumber(dir, n) == {f \in Within(dir) : f[2] = <<"nth", n>>}

LEMMA NthIn ==
    ASSUME NEW dir \in Dirs, NEW e \in Extensions, NEW n \in Nat
    PROVE  /\ Nth(dir, n, e) \in OfNumber(dir, n) /\ Nth(dir, n, e) \in Names
           /\ Nth(dir, n, e) = <<dir, <<"nth", n>>, e>> /\ <<"nth", n>> \in Stems
           /\ Nth(dir, n, e)[3] = e
BY DEF Nth, Names, Stems, Within, OfNumber

LEMMA SoundsOf ==
    ASSUME NEW dir \in Dirs, NEW stem \in Stems
    PROVE  \A f \in Sounds(dir, stem) : /\ f \in Within(dir) /\ f \in Names /\ f[2] = stem
                                        /\ f[3] \in {"wav", "mp3", "flac"}
<1>1. Sounds(dir, stem) \subseteq Names
    BY SoundsIn
<1> QED BY <1>1 DEF Sounds, Within

LEMMA IdlesUsed ==
    /\ Try("other") \in Idles /\ Try("decode") \in Idles /\ Look \in Idles /\ Run({}) \in Idles
    /\ \A f \in Names : Fits(f) \in Idles
BY IdlesIn

LEMMA PreserveClosed ==
    ASSUME NEW dir \in Dirs, NEW ext \in Extensions
    PROVE  Closed(Preserve(dir, ext), {File(dir, "container", ext)}, {File(dir, "container", ext)}, {})
<1>1. PICK f \in Names : f = File(dir, "container", ext)
    BY FileIn
<1>2. <<Look, Fits(f)>> \in Seq(Idles)
    BY IdlesUsed
<1>3. Closed(<<Look, Fits(f)>> \o Saved(f), {f}, {f}, {})
    BY <1>2, ClosedSaved, ClosedAfter
<1> QED BY <1>1, <1>3 DEF Preserve

LEMMA WaveClosed ==
    ASSUME case \in Case, NEW dir \in Dirs, NEW n \in Nat
    PROVE  Closed(Wave(dir, n), OfNumber(dir, n), OfWave(dir, n), {})
<1>1. PICK wav, stored, cues \in OfNumber(dir, n) :
         /\ wav = Nth(dir, n, "wav") /\ stored = Nth(dir, n, "bin") /\ cues = Nth(dir, n, "cues")
    BY NthIn DEF Extensions
<1>2. /\ wav \in Names /\ stored \in Names /\ cues \in Names /\ cues # stored
      /\ wav = <<dir, <<"nth", n>>, "wav">> /\ <<"nth", n>> \in Stems
      /\ cues[3] = "cues"
    <2>1. /\ wav \in Names /\ stored \in Names /\ cues \in Names
          /\ cues[3] = "cues" /\ stored[3] = "bin" /\ <<"nth", n>> \in Stems
          /\ wav = <<dir, <<"nth", n>>, "wav">>
        BY <1>1, NthIn DEF Extensions
    <2> QED BY <2>1
<1>3. Closed(Cues(dir, n), {cues}, {cues}, {})
    BY <1>1, <1>2, ClosedSaved DEF Cues
<1>4. CASE case.waves[n] = "stored"
    <2>1. <<Look, Fits(stored)>> \in Seq(Idles)
        BY <1>2, IdlesUsed
    <2>2. Closed(<<Look, Fits(stored)>> \o Saved(stored), {stored}, {stored}, {})
        BY <1>2, <2>1, ClosedSaved, ClosedAfter
    <2>3. {stored} \cap {cues} = {}
        BY <1>2
    <2>4. Closed(<<Look, Fits(stored)>> \o Saved(stored) \o Cues(dir, n),
                 {stored} \cup {cues}, {stored} \cup {cues}, {})
        BY <1>3, <2>2, <2>3, ClosedPair
    <2>5. OfWave(dir, n) = {stored} \cup {cues}
        BY <1>1, <1>4 DEF OfWave
    <2>6. Wave(dir, n) = <<Look, Fits(stored)>> \o Saved(stored) \o Cues(dir, n)
        BY <1>1, <1>4 DEF Wave
    <2>7. {stored} \cup {cues} \subseteq OfNumber(dir, n)
        OBVIOUS
    <2> QED BY <2>4, <2>5, <2>6, <2>7, ClosedWiden
<1>5. CASE case.waves[n] # "stored"
    <2> DEFINE s == <<Look, Fits(wav), Make(wav), Try("other")>>
               r == RecordAudio(dir, <<"nth", n>>)
    <2>1. Brings(s, wav) /\ s \in Seq(Call)
        <3>1. Look \in Idles /\ Fits(wav) \in Idles /\ Try("other") \in Idles
            BY <1>2, IdlesUsed
        <3>2. Look \in Call /\ Fits(wav) \in Call /\ Make(wav) \in Call /\ Try("other") \in Call
            BY <1>2, CallsIn
        <3>3. s \in Seq(Call)
            BY <3>2
        <3> QED BY <1>2, <3>1, <3>3, BringsFour
    <2> HIDE DEF s
    <2>2. Closed(s \o r, Sounds(dir, <<"nth", n>>), OfAudio(dir, <<"nth", n>>), {})
        BY <1>2, <2>1, ClosedAudio
    <2>3. /\ Sounds(dir, <<"nth", n>>) \cap {cues} = {}
          /\ Sounds(dir, <<"nth", n>>) \cup {cues} \subseteq OfNumber(dir, n)
        BY <1>2, SoundsOf DEF OfNumber
    <2>4. Closed(s \o r \o Cues(dir, n), Sounds(dir, <<"nth", n>>) \cup {cues},
                 OfAudio(dir, <<"nth", n>>) \cup {cues}, {})
        BY <1>3, <2>2, <2>3, ClosedPair
    <2>5. OfWave(dir, n) = OfAudio(dir, <<"nth", n>>) \cup {cues}
        BY <1>1, <1>5 DEF OfWave
    <2>6. Wave(dir, n) = s \o r \o Cues(dir, n)
        BY <1>1, <1>5 DEF Wave, s
    <2> QED BY <2>3, <2>4, <2>5, <2>6, ClosedWiden
<1> QED BY <1>4, <1>5

LEMMA AcbClosed ==
    ASSUME case \in Case, NEW dir \in Dirs
    PROVE  Closed(Acb(dir), Within(dir), OfAcb(dir), {})
<1>1. CASE case.preserve
    <2>1. "acb" \in Extensions
        BY DEF Extensions
    <2>2. Closed(Preserve(dir, "acb"), {File(dir, "container", "acb")},
                 {File(dir, "container", "acb")}, {})
        BY <2>1, PreserveClosed
    <2>3. {File(dir, "container", "acb")} \subseteq Within(dir)
        BY <2>1, FileIn
    <2>4. Acb(dir) = Preserve(dir, "acb") /\ OfAcb(dir) = {File(dir, "container", "acb")}
        BY <1>1 DEF Acb, OfAcb
    <2> QED BY <2>2, <2>3, <2>4, ClosedWiden
<1>2. CASE ~case.preserve
    <2> DEFINE seqs == [n \in DOMAIN case.waves |-> Wave(dir, n)]
               F == [n \in DOMAIN case.waves |-> OfNumber(dir, n)]
               G == [n \in DOMAIN case.waves |-> OfWave(dir, n)]
               K == [n \in DOMAIN case.waves |-> {}]
               len == Len(case.waves)
    <2>1. DOMAIN case.waves = 1 .. len /\ len \in Nat
        BY DEF Case
    <2>2. \A n \in 1 .. len : Closed(seqs[n], F[n], G[n], K[n])
        <3>1. ASSUME NEW n \in 1 .. len PROVE Closed(seqs[n], F[n], G[n], K[n])
            <4>1. Closed(Wave(dir, n), OfNumber(dir, n), OfWave(dir, n), {})
                BY WaveClosed
            <4> QED BY <2>1, <4>1
        <3> QED BY <3>1
    <2>3. \A i, j \in 1 .. len : i # j => Apart(F[i], F[j])
        BY <2>1 DEF OfNumber, Apart
    <2>4. seqs = [n \in 1 .. len |-> seqs[n]]
        BY <2>1
    <2>5. /\ AllOf(F, len) \subseteq Within(dir)
          /\ AllOf(G, len) = OfAcb(dir)
          /\ AllOf(K, len) = {}
        <3>1. AllOf(F, len) \subseteq Within(dir)
            BY <2>1 DEF OfNumber, AllOf
        <3>2. OfAcb(dir) = UNION {OfWave(dir, n) : n \in 1 .. len}
            BY <1>2, <2>1 DEF OfAcb
        <3>3. \A n \in 1 .. len : G[n] = OfWave(dir, n)
            BY <2>1
        <3>4. AllOf(G, len) = UNION {OfWave(dir, n) : n \in 1 .. len}
            BY <3>3 DEF AllOf
        <3>5. AllOf(K, len) = {}
            BY <2>1 DEF AllOf
        <3> QED BY <3>1, <3>2, <3>4, <3>5
    <2> HIDE DEF F, G, K, len, seqs
    <2>6. Closed(FlattenSeq(seqs), AllOf(F, len), OfAcb(dir), {})
        <3>1. Closed(FlattenSeq(seqs), AllOf(F, len), AllOf(G, len), AllOf(K, len))
            BY <2>1, <2>2, <2>3, <2>4, ClosedEach
        <3> QED BY <2>5, <3>1
    <2>7. Closed(FlattenSeq(seqs), Within(dir), OfAcb(dir), {})
        BY <2>5, <2>6, ClosedWiden
    <2>8. <<Try("other")>> \in Seq(Idles)
        BY IdlesUsed
    <2>9. Closed(<<Try("other")>> \o FlattenSeq(seqs), Within(dir), OfAcb(dir), {})
        BY <2>7, <2>8, ClosedAfter
    <2>10. Acb(dir) = <<Try("other")>> \o FlattenSeq(seqs)
        BY <1>2 DEF Acb, seqs
    <2> QED BY <2>9, <2>10
<1> QED BY <1>1, <1>2

LEMMA AllFramesIdle == AllFrames \in Seq(Idles)
BY IdlesUsed DEF AllFrames

LEMMA SoundClosed ==
    ASSUME case \in Case, NEW dir \in Dirs
    PROVE  Closed(Sound(dir), Sounds(dir, <<"sound", 0>>),
                  IF case.sound = "none" THEN {} ELSE OfAudio(dir, <<"sound", 0>>), {})
<1>1. PICK wav \in Names : wav = File(dir, "sound", "wav")
    BY FileIn DEF Extensions
<1>2. wav = <<dir, <<"sound", 0>>, "wav">> /\ <<"sound", 0>> \in Stems
    BY <1>1 DEF File, Stems
<1>3. Make(wav) \in Call /\ Run({wav}) \in Call /\ Try("other") \in Call
    <2>1. {wav} \in SUBSET Names
        OBVIOUS
    <2> QED BY <2>1, CallsIn
<1>4. case.sound \in {"none", "adx", "hca"}
    BY DEF Case
<1>5. CASE case.sound = "adx"
    <2> DEFINE s == <<Try("other"), Run({wav}), Try("other")>>
    <2>1. s \in Seq(Call)
        BY <1>3
    <2>2. Brings(s, wav)
        BY IdlesUsed, BringsThree
    <2> HIDE DEF s
    <2>3. Closed(s \o RecordAudio(dir, <<"sound", 0>>), Sounds(dir, <<"sound", 0>>),
                 OfAudio(dir, <<"sound", 0>>), {})
        BY <1>2, <2>1, <2>2, ClosedAudio
    <2>4. Sound(dir) = s \o RecordAudio(dir, <<"sound", 0>>)
        BY <1>1, <1>5 DEF Sound, s
    <2> QED BY <1>5, <2>3, <2>4
<1>6. CASE case.sound = "hca"
    <2> DEFINE s == <<Make(wav), Try("other")>>
    <2>1. s \in Seq(Call)
        BY <1>3
    <2>2. Brings(s, wav)
        BY IdlesUsed, BringsTwo
    <2> HIDE DEF s
    <2>3. Closed(s \o RecordAudio(dir, <<"sound", 0>>), Sounds(dir, <<"sound", 0>>),
                 OfAudio(dir, <<"sound", 0>>), {})
        BY <1>2, <2>1, <2>2, ClosedAudio
    <2>4. Sound(dir) = s \o RecordAudio(dir, <<"sound", 0>>)
        BY <1>1, <1>6 DEF Sound, s
    <2> QED BY <1>6, <2>3, <2>4
<1>7. CASE case.sound = "none"
    <2>1. Sound(dir) = <<>>
        BY <1>7 DEF Sound
    <2>2. <<>> \in Seq(Idles)
        OBVIOUS
    <2>3. Closed(<<>>, {}, {}, {}) /\ {} \subseteq Sounds(dir, <<"sound", 0>>)
        BY <2>2, ClosedIdle
    <2>4. Closed(<<>>, Sounds(dir, <<"sound", 0>>), {}, {})
        BY <2>3, ClosedWiden
    <2> QED BY <1>7, <2>1, <2>4
<1> QED BY <1>4, <1>5, <1>6, <1>7

(* An encoding whose frames are counted, and the file it was made from.    *)
LEMMA EncodeFramesIf ==
    ASSUME NEW h, NEW u, NEW t, NEW k, Fit(h, u, t, k), NEW f \in Names, f \notin u,
           NEW c \in BOOLEAN
    PROVE  /\ Fit(h, u \cup Given(c, {f}), t \cup Given(c, {f}), k)
           /\ Piece(IF c THEN <<Encode(f)>> \o AllFrames \o <<Record(f)>> ELSE <<>>,
                    Stand(h, u, t, k), Stand(h, u \cup Given(c, {f}), t \cup Given(c, {f}), k))
<1>1. CASE c
    <2>1. /\ Fit(h \cup {f}, u \cup {f}, t, k)
          /\ Moves(Encode(f), Stand(h, u, t, k), Stand(h \cup {f}, u \cup {f}, t, k))
        BY MoveMake
    <2>2. (h \cup {f}) \ {f} = h /\ f \in h \cup {f}
        BY DEF Fit
    <2>3. /\ Fit(h, u \cup {f}, t \cup {f}, k)
          /\ Moves(Record(f), Stand(h \cup {f}, u \cup {f}, t, k),
                   Stand(h, u \cup {f}, t \cup {f}, k))
        <3>1. /\ Fit((h \cup {f}) \ {f}, u \cup {f}, t \cup {f}, k)
              /\ Moves(Record(f), Stand(h \cup {f}, u \cup {f}, t, k),
                       Stand((h \cup {f}) \ {f}, u \cup {f}, t \cup {f}, k))
            BY <2>1, <2>2, MoveRecord
        <3> QED BY <2>2, <3>1
    <2>4. Encode(f) \in Call /\ Record(f) \in Call
        BY CallsIn
    <2>5. PICK a, b, d \in Stands :
             /\ a = Stand(h, u, t, k) /\ b = Stand(h \cup {f}, u \cup {f}, t, k)
             /\ d = Stand(h, u \cup {f}, t \cup {f}, k)
        BY <2>1, <2>3, FitStand
    <2>6. Piece(<<Encode(f)>>, a, b)
        BY <2>1, <2>4, <2>5, PieceOne
    <2>7. Piece(AllFrames, b, b)
        BY AllFramesIdle, IdlePiece
    <2>8. Piece(<<Record(f)>>, b, d)
        BY <2>3, <2>4, <2>5, PieceOne
    <2>9. Piece(<<Encode(f)>> \o AllFrames, a, b)
        BY <2>6, <2>7, PieceJoin
    <2>10. Piece(<<Encode(f)>> \o AllFrames \o <<Record(f)>>, a, d)
        BY <2>8, <2>9, PieceJoin
    <2> QED BY <1>1, <2>3, <2>5, <2>10 DEF Given
<1>2. CASE ~c
    <2>1. t \cup {} = t /\ u \cup {} = u
        OBVIOUS
    <2>2. Piece(<<>>, Stand(h, u, t, k), Stand(h, u, t, k))
        BY FitStand, PieceNone
    <2> QED BY <1>2, <2>1, <2>2 DEF Given
<1> QED BY <1>1, <1>2

LEMMA RecordOrDrop ==
    ASSUME NEW f \in Names, NEW u, NEW t, NEW k, Fit({f}, u, t, k), NEW c \in BOOLEAN
    PROVE  /\ Fit({}, u, t \cup Given(c, {f}), k)
           /\ Piece(IF c THEN <<Record(f)>> ELSE <<Drop(f)>>, Stand({f}, u, t, k),
                    Stand({}, u, t \cup Given(c, {f}), k))
<1>1. {f} \ {f} = {} /\ f \in {f} /\ t \cup {} = t
    OBVIOUS
<1>2. /\ Fit({}, u, t \cup {f}, k) /\ Fit({}, u, t, k)
      /\ Moves(Record(f), Stand({f}, u, t, k), Stand({}, u, t \cup {f}, k))
      /\ Moves(Drop(f), Stand({f}, u, t, k), Stand({}, u, t, k))
    <2>1. /\ Fit({f} \ {f}, u, t \cup {f}, k) /\ Fit({f} \ {f}, u, t, k)
          /\ Moves(Record(f), Stand({f}, u, t, k), Stand({f} \ {f}, u, t \cup {f}, k))
          /\ Moves(Drop(f), Stand({f}, u, t, k), Stand({f} \ {f}, u, t, k))
        BY <1>1, MoveRecord
    <2> QED BY <1>1, <2>1
<1>3. Record(f) \in Call /\ Drop(f) \in Call
    BY CallsIn
<1>4. CASE c
    <2>1. Piece(<<Record(f)>>, Stand({f}, u, t, k), Stand({}, u, t \cup {f}, k))
        BY <1>2, <1>3, FitStand, PieceOne
    <2> QED BY <1>2, <1>4, <2>1 DEF Given
<1>5. CASE ~c
    <2>1. Piece(<<Drop(f)>>, Stand({f}, u, t, k), Stand({}, u, t, k))
        BY <1>2, <1>3, FitStand, PieceOne
    <2> QED BY <1>1, <1>2, <1>5, <2>1 DEF Given
<1> QED BY <1>4, <1>5

Movies(dir) ==
    {File(dir, "movie", e) : e \in CASE case.video = "both" -> {"mkv", "mp4"}
                                     [] case.video = "source" -> {}
                                     [] OTHER -> {case.video}}

LEMMA MovieClosed ==
    ASSUME case \in Case, NEW dir \in Dirs
    PROVE  Closed(Movie(dir), {File(dir, "movie", "mkv"), File(dir, "movie", "mp4")},
                  Movies(dir), {})
<1>1. PICK mkv, mp4 \in Names : mkv = File(dir, "movie", "mkv") /\ mp4 = File(dir, "movie", "mp4")
    BY FileIn DEF Extensions
<1>2. mkv # mp4
    BY <1>1 DEF File
<1>a. PICK m : m = (case.video \in {"mp4", "both"})
    OBVIOUS
<1>b. PICK w : w = (case.video \in {"mkv", "both"})
    OBVIOUS
<1>3. m \in BOOLEAN /\ w \in BOOLEAN
    BY <1>a, <1>b
<1>4. PICK M, W : M = Given(m, {mp4}) /\ W = Given(w, {mkv})
    OBVIOUS
<1>5. Movies(dir) = M \cup W
    <2>1. case.video \in {"source", "mkv", "mp4", "both"}
        BY DEF Case
    <2>2. CASE case.video = "source"
        <3>1. Movies(dir) = {} /\ M = {} /\ W = {}
            BY <2>2, <1>a, <1>b, <1>4 DEF Movies, Given
        <3> QED BY <3>1
    <2>3. CASE case.video = "mkv"
        <3>1. Movies(dir) = {mkv} /\ M = {} /\ W = {mkv}
            BY <2>3, <1>1, <1>a, <1>b, <1>4 DEF Movies, Given
        <3> QED BY <3>1
    <2>4. CASE case.video = "mp4"
        <3>1. Movies(dir) = {mp4} /\ M = {mp4} /\ W = {}
            BY <2>4, <1>1, <1>a, <1>b, <1>4 DEF Movies, Given
        <3> QED BY <3>1
    <2>5. CASE case.video = "both"
        <3>1. Movies(dir) = {mkv, mp4} /\ M = {mp4} /\ W = {mkv}
            BY <2>5, <1>1, <1>a, <1>b, <1>4 DEF Movies, Given
        <3> QED BY <3>1
    <2> QED BY <2>1, <2>2, <2>3, <2>4, <2>5
<1>6. PICK A, B : /\ A = (IF m THEN <<Encode(mp4)>> \o AllFrames \o <<Record(mp4)>> ELSE <<>>)
                  /\ B = (IF w THEN <<Record(mkv)>> ELSE <<Drop(mkv)>>)
    OBVIOUS
<1>7. VideoFormats(dir) = A \o B
    BY <1>1, <1>6, <1>a, <1>b DEF VideoFormats
<1>8. PICK s : s = <<Run({mkv})>> \o AllFrames
    OBVIOUS
<1>9. Movie(dir) = s \o (A \o B)
    BY <1>1, <1>7, <1>8 DEF Movie
<1>10. Brings(s, mkv)
    BY <1>8, AllFramesIdle, BringsOne, BringsIdle
<1>11. ASSUME NEW u, NEW t, NEW k, Fit({}, u, t, k), Apart(u, {mkv, mp4})
       PROVE  \E U \in SUBSET {mkv, mp4} :
                 /\ Fit({}, u \cup U, t \cup Movies(dir), k \cup {})
                 /\ Piece(Movie(dir), Stand({}, u, t, k),
                          Stand({}, u \cup U, t \cup Movies(dir), k \cup {}))
    <2>1. mkv \notin u /\ mp4 \notin u \cup {mkv}
        BY <1>2, <1>11 DEF Apart
    <2>2. /\ Fit({mkv}, u \cup {mkv}, t, k)
          /\ Piece(s, Stand({}, u, t, k), Stand({mkv}, u \cup {mkv}, t, k))
        BY <1>10, <1>11, <2>1 DEF Brings
    <2>3. /\ Fit({mkv}, (u \cup {mkv}) \cup M, t \cup M, k)
          /\ Piece(A, Stand({mkv}, u \cup {mkv}, t, k), Stand({mkv}, (u \cup {mkv}) \cup M, t \cup M, k))
        BY <1>3, <1>4, <1>6, <2>1, <2>2, EncodeFramesIf
    <2>4. /\ Fit({}, (u \cup {mkv}) \cup M, (t \cup M) \cup W, k)
          /\ Piece(B, Stand({mkv}, (u \cup {mkv}) \cup M, t \cup M, k),
                   Stand({}, (u \cup {mkv}) \cup M, (t \cup M) \cup W, k))
        BY <1>3, <1>4, <1>6, <2>3, RecordOrDrop
    <2>5. Piece(A \o B, Stand({mkv}, u \cup {mkv}, t, k),
                Stand({}, (u \cup {mkv}) \cup M, (t \cup M) \cup W, k))
        BY <2>3, <2>4, PieceJoin
    <2>6. Piece(Movie(dir), Stand({}, u, t, k),
                Stand({}, (u \cup {mkv}) \cup M, (t \cup M) \cup W, k))
        BY <1>9, <2>2, <2>5, PieceJoin
    <2>7. M \subseteq {mp4}
        BY <1>4 DEF Given
    <2>8. /\ (u \cup {mkv}) \cup M = u \cup ({mkv} \cup M)
          /\ (t \cup M) \cup W = t \cup Movies(dir)
          /\ k \cup {} = k /\ {mkv} \cup M \in SUBSET {mkv, mp4}
        BY <1>5, <2>7
    <2> QED BY <2>4, <2>6, <2>8
<1>12. Movie(dir) \in Seq(Call)
    <2>1. Fit({}, {}, {}, {}) /\ Apart({}, {mkv, mp4})
        BY DEF Fit, Apart
    <2> QED BY <1>11, <2>1 DEF Piece
<1>13. Closed(Movie(dir), {mkv, mp4}, Movies(dir), {})
    BY <1>11, <1>12 DEF Closed, Ends
<1> QED BY <1>1, <1>13

LEMMA UsmClosed ==
    ASSUME case \in Case, NEW dir \in Dirs
    PROVE  Closed(UsmDecode(dir), Within(dir), OfUsm(dir), {}) /\ OfUsm(dir) \subseteq Within(dir)
<1>1. PICK m2v, usm, mask, mkv, mp4 \in Within(dir) :
         /\ m2v = File(dir, "video", "m2v") /\ usm = File(dir, "usm", "json")
         /\ mask = File(dir, "mask", "json")
         /\ mkv = File(dir, "movie", "mkv") /\ mp4 = File(dir, "movie", "mp4")
    BY FileIn DEF Extensions
<1>2. /\ m2v[2] = <<"video", 0>> /\ usm[2] = <<"usm", 0>> /\ mask[2] = <<"mask", 0>>
      /\ mkv[2] = <<"movie", 0>> /\ mp4[2] = <<"movie", 0>>
    BY <1>1 DEF File
<1>3. m2v \in Names /\ usm \in Names /\ mask \in Names
    BY DEF Within
<1>4. PICK X, S : /\ X = Sounds(dir, <<"sound", 0>>)
                  /\ S = IF case.sound = "none" THEN {} ELSE OfAudio(dir, <<"sound", 0>>)
    OBVIOUS
<1>5. \A f \in X : f \in Within(dir) /\ f[2] = <<"sound", 0>>
    <2>1. <<"sound", 0>> \in Stems
        BY DEF Stems
    <2> QED BY <1>4, <2>1, SoundsOf
<1>6. Closed(Sound(dir), X, S, {})
    BY <1>4, SoundClosed
<1>7. Closed(Movie(dir), {mkv, mp4}, Movies(dir), {})
    BY <1>1, MovieClosed
<1>8. Closed(<<Try("other")>> \o Saved(m2v), {m2v}, {m2v}, {})
    <2>1. <<Try("other")>> \in Seq(Idles)
        BY IdlesUsed
    <2> QED BY <1>3, <2>1, ClosedSaved, ClosedAfter
<1>9. Closed(Saved(usm), {usm}, {usm}, {}) /\ Closed(Saved(mask), {mask}, {mask}, {})
    BY <1>3, ClosedSaved
<1>10. /\ {m2v} \cap X = {}
       /\ ({m2v} \cup X) \cap {mkv, mp4} = {}
       /\ ({m2v} \cup X \cup {mkv, mp4}) \cap {usm} = {}
       /\ ({m2v} \cup X \cup {mkv, mp4} \cup {usm}) \cap {mask} = {}
    BY <1>2, <1>5
<1> DEFINE s == <<Try("other")>> \o Saved(m2v)
<1> HIDE DEF s
<1>11. Closed(s \o Sound(dir), {m2v} \cup X, {m2v} \cup S, {})
    BY <1>6, <1>8, <1>10, ClosedPair DEF s
<1>12. Closed(s \o Sound(dir) \o Movie(dir), {m2v} \cup X \cup {mkv, mp4},
              {m2v} \cup S \cup Movies(dir), {})
    BY <1>7, <1>10, <1>11, ClosedPair
<1>13. Closed(s \o Sound(dir) \o Movie(dir) \o Saved(usm), {m2v} \cup X \cup {mkv, mp4} \cup {usm},
              {m2v} \cup S \cup Movies(dir) \cup {usm}, {})
    BY <1>9, <1>10, <1>12, ClosedPair
<1>14. Closed(s \o Sound(dir) \o Movie(dir) \o Saved(usm) \o Saved(mask),
              {m2v} \cup X \cup {mkv, mp4} \cup {usm} \cup {mask},
              {m2v} \cup S \cup Movies(dir) \cup {usm} \cup {mask}, {})
    BY <1>9, <1>10, <1>13, ClosedPair
<1>15. UsmDecode(dir) = s \o Sound(dir) \o Movie(dir) \o Saved(usm) \o Saved(mask)
    BY <1>1 DEF UsmDecode, s
<1>16. OfUsm(dir) = {m2v, usm, mask} \cup S \cup Movies(dir)
    BY <1>1, <1>4 DEF OfUsm, Movies
<1>17. {m2v} \cup S \cup Movies(dir) \cup {usm} \cup {mask} = OfUsm(dir)
    BY <1>16
<1>18. {m2v} \cup X \cup {mkv, mp4} \cup {usm} \cup {mask} \subseteq Within(dir)
    BY <1>5
<1>19. S \subseteq Within(dir) /\ Movies(dir) \subseteq Within(dir)
    <2>1. S \subseteq X
        BY <1>4 DEF OfAudio, Sounds, Case
    <2>2. Movies(dir) \subseteq {mkv, mp4}
        <3>1. case.video \in {"source", "mkv", "mp4", "both"}
            BY DEF Case
        <3> QED BY <1>1, <3>1 DEF Movies
    <2> QED BY <1>5, <2>1, <2>2
<1>20. Closed(UsmDecode(dir), {m2v} \cup X \cup {mkv, mp4} \cup {usm} \cup {mask}, OfUsm(dir), {})
    BY <1>14, <1>15, <1>17
<1>21. Closed(UsmDecode(dir), Within(dir), OfUsm(dir), {})
    BY <1>18, <1>20, ClosedWiden
<1>22. OfUsm(dir) \subseteq Within(dir)
    BY <1>16, <1>19
<1> QED BY <1>21, <1>22

LEMMA ClosedIn ==
    ASSUME NEW s, NEW W, NEW T, NEW H, Closed(s, W, T, H)
    PROVE  T \subseteq W /\ T \subseteq Names /\ H \subseteq Nat
<1>1. Fit({}, {}, {}, {}) /\ Apart({}, W)
    BY DEF Fit, Apart
<1>2. Ends(s, W, T, H, {}, {}, {})
    BY <1>1 DEF Closed
<1>3. PICK U \in SUBSET W : Fit({}, {} \cup U, {} \cup T, {} \cup H)
    BY <1>2 DEF Ends
<1> QED BY <1>3 DEF Fit

(* Nothing but idle calls and a file that is saved.                        *)
LEMMA ClosedSaving ==
    ASSUME NEW i \in Seq(Idles), NEW f \in Names
    PROVE  Closed(i \o Saved(f), {f}, {f}, {})
BY ClosedSaved, ClosedAfter

OfImage(stem) == {f \in Within(Root) : f[2] = stem}

LEMMA ImageIn ==
    ASSUME NEW stem \in Stems, NEW e \in ImageFormats
    PROVE  /\ ImageFile(stem, e) \in OfImage(stem) /\ ImageFile(stem, e) \in Names
           /\ ImageFile(stem, e)[3] = e
<1>1. ImageFile(stem, e) \in Names
    BY DirsIn DEF ImageFile, Names, Extensions
<1> QED BY <1>1 DEF ImageFile, OfImage, Within

LEMMA RenditionClosed ==
    ASSUME NEW stem \in Stems, NEW e \in ImageFormats
    PROVE  Closed(Rendition(stem, e), {ImageFile(stem, e)}, {ImageFile(stem, e)}, {})
<1>1. PICK f \in Names : f = ImageFile(stem, e)
    BY ImageIn
<1> DEFINE r == <<Look, Fits(f), Look, Make(f)>>
           i == IF e = "png" THEN <<>> ELSE <<Fits(f), Run({})>>
<1>2. Look \in Idles /\ Fits(f) \in Idles /\ Run({}) \in Idles /\ Make(f) \in Call
    BY IdlesUsed, CallsIn
<1>3. Brings(r, f)
    BY <1>2, BringsFour
<1>4. r \in Seq(Call) /\ i \in Seq(Idles) /\ i \in Seq(Call)
    BY <1>2, IdlesIn
<1> HIDE DEF r, i
<1>5. Brings(r \o i, f) /\ r \o i \in Seq(Call)
    BY <1>3, <1>4, BringsIdle, ConcatProperties
<1>6. Closed(r \o i \o <<Record(f)>>, {f}, {f}, {})
    BY <1>5, ClosedBrings
<1> QED BY <1>1, <1>6 DEF Rendition, r, i

LEMMA ImagesClosed ==
    ASSUME case \in Case, IsInjective(case.images), NEW stem \in Stems
    PROVE  Closed(Images(stem), OfImage(stem), OfImages(stem), {})
<1> DEFINE seqs == [n \in DOMAIN case.images |-> Rendition(stem, case.images[n])]
           F == [n \in DOMAIN case.images |-> {ImageFile(stem, case.images[n])}]
           K == [n \in DOMAIN case.images |-> {}]
           len == Len(case.images)
<1>1. /\ DOMAIN case.images = 1 .. len /\ len \in Nat
      /\ \A n \in 1 .. len : case.images[n] \in ImageFormats
    BY DEF Case
<1>2. \A n \in 1 .. len : Closed(seqs[n], F[n], F[n], K[n])
    <2>1. ASSUME NEW n \in 1 .. len PROVE Closed(seqs[n], F[n], F[n], K[n])
        <3>1. Closed(Rendition(stem, case.images[n]), {ImageFile(stem, case.images[n])},
                     {ImageFile(stem, case.images[n])}, {})
            BY <1>1, RenditionClosed
        <3> QED BY <1>1, <3>1
    <2> QED BY <2>1
<1>3. \A i, j \in 1 .. len : i # j => Apart(F[i], F[j])
    <2>1. ASSUME NEW i \in 1 .. len, NEW j \in 1 .. len, i # j PROVE Apart(F[i], F[j])
        <3>1. case.images[i] # case.images[j]
            BY <1>1, <2>1 DEF IsInjective
        <3>2. ImageFile(stem, case.images[i]) # ImageFile(stem, case.images[j])
            BY <1>1, <3>1, ImageIn
        <3> QED BY <1>1, <3>2 DEF Apart
    <2> QED BY <2>1
<1>4. seqs = [n \in 1 .. len |-> seqs[n]]
    BY <1>1
<1>a. \A n \in 1 .. len : F[n] = {ImageFile(stem, case.images[n])} /\ K[n] = {}
    BY <1>1
<1> HIDE DEF F, K, len, seqs
<1>5. /\ AllOf(F, len) \subseteq OfImage(stem)
      /\ AllOf(F, len) = OfImages(stem)
      /\ AllOf(K, len) = {}
    <2>1. \A n \in 1 .. len : ImageFile(stem, case.images[n]) \in OfImage(stem)
        BY <1>1, ImageIn
    <2>2. AllOf(F, len) \subseteq OfImage(stem)
        BY <1>a, <2>1 DEF AllOf
    <2>3. OfImages(stem) = {ImageFile(stem, case.images[n]) : n \in 1 .. len}
        BY <1>1 DEF OfImages, ToSet
    <2>4. \A f : f \in AllOf(F, len) <=> \E n \in 1 .. len : f = ImageFile(stem, case.images[n])
        BY <1>a DEF AllOf
    <2>5. AllOf(K, len) = {}
        BY <1>a DEF AllOf
    <2> QED BY <2>2, <2>3, <2>4, <2>5
<1>6. Closed(FlattenSeq(seqs), AllOf(F, len), AllOf(F, len), AllOf(K, len))
    BY <1>1, <1>2, <1>3, <1>4, ClosedEach
<1>7. Closed(FlattenSeq(seqs), AllOf(F, len), OfImages(stem), {})
    BY <1>5, <1>6
<1>8. Closed(FlattenSeq(seqs), OfImage(stem), OfImages(stem), {})
    BY <1>5, <1>7, ClosedWiden
<1> QED BY <1>8 DEF Images, seqs

LEMMA FootHas ==
    ASSUME NEW n \in Nat \ {0}
    PROVE  /\ \A e \in Extensions : OfStem(n, e) \in Foot(n) /\ OfStem(n, e) \in Names
                                    /\ OfStem(n, e)[1] = Root /\ OfStem(n, e)[3] = e
           /\ OfImage(<<"nth", n>>) \subseteq Foot(n) /\ <<"nth", n>> \in Stems
           /\ OfImage(<<"layer 0", n>>) \subseteq Foot(n) /\ <<"layer 0", n>> \in Stems
           /\ OfImage(<<"layer 1", n>>) \subseteq Foot(n) /\ <<"layer 1", n>> \in Stems
           /\ OfImage(<<"layer 0", n>>) \cap OfImage(<<"layer 1", n>>) = {}
           /\ Within(BankDir(n)) \subseteq Foot(n) /\ Root # BankDir(n)
           /\ Playable \notin Foot(n)
<1>1. \A e \in Extensions : /\ OfStem(n, e) \in Names /\ OfStem(n, e)[1] = Root
                            /\ OfStem(n, e)[2] = <<"nth", n>> /\ OfStem(n, e)[3] = e
    <2>1. ASSUME NEW e \in Extensions
          PROVE  /\ OfStem(n, e) \in Names /\ OfStem(n, e)[1] = Root
                 /\ OfStem(n, e)[2] = <<"nth", n>> /\ OfStem(n, e)[3] = e
        <3>1. OfStem(n, e) = Nth(Root, n, e) /\ Root \in Dirs
            BY DirsIn DEF OfStem
        <3>2. Nth(Root, n, e) \in Names /\ Nth(Root, n, e) = <<Root, <<"nth", n>>, e>>
            BY <3>1, NthIn
        <3> QED BY <3>1, <3>2
    <2> QED BY <2>1
<1>2. <<"nth", n>> \in Stems /\ <<"layer 0", n>> \in Stems /\ <<"layer 1", n>> \in Stems
    BY DEF Stems
<1>3. Root # BankDir(n)
    BY DEF Root, BankDir
<1>4. Playable[1] = Root /\ Playable[2] = <<"playable", 0>>
    BY DEF Playable, File
<1>5. Playable \notin Foot(n)
    BY <1>3, <1>4 DEF Foot, Within
<1>6. OfImage(<<"layer 0", n>>) \cap OfImage(<<"layer 1", n>>) = {}
    <2>1. <<"layer 0", n>> # <<"layer 1", n>>
        OBVIOUS
    <2> QED BY <2>1 DEF OfImage
<1>7. \A kind \in {"nth", "layer 0", "layer 1"} : OfImage(<<kind, n>>) \subseteq Foot(n)
    <2>1. ASSUME NEW kind \in {"nth", "layer 0", "layer 1"}, NEW f \in OfImage(<<kind, n>>)
          PROVE  f \in Foot(n)
        <3>1. f \in Within(Root) /\ f[2] = <<kind, n>>
            BY DEF OfImage
        <3>a. <<kind, n>>[2] = n
            OBVIOUS
        <3>2. f[2][2] = n
            BY <3>1, <3>a, Zenon
        <3> QED BY <3>1, <3>2 DEF Foot
    <2> QED BY <2>1
<1>8. \A e \in Extensions : OfStem(n, e) \in Foot(n)
    <2>1. <<"nth", n>>[2] = n
        OBVIOUS
    <2> QED BY <1>1, <2>1 DEF Foot, Within
<1>9. Within(BankDir(n)) \subseteq Foot(n)
    BY DEF Foot
<1> QED BY <1>1, <1>2, <1>3, <1>5, <1>6, <1>7, <1>8, <1>9

LEMMA FootsApart ==
    ASSUME NEW m \in Nat, NEW n \in Nat, m # n
    PROVE  Apart(Foot(m), Foot(n))
<1>1. BankDir(m) # BankDir(n) /\ Root # BankDir(m) /\ Root # BankDir(n)
    BY DEF BankDir, Root
<1> QED BY <1>1 DEF Foot, Within, Apart

LEMMA HoldClosed ==
    ASSUME case.provider = "unity", NEW n \in Players, n \in Nat
    PROVE  Closed(<<Try("other"), [op |-> "hold", number |-> n]>>, {}, {}, {n})
<1>1. PICK c : c = [op |-> "hold", number |-> n]
    OBVIOUS
<1>2. c \in Call /\ Try("other") \in Call
    BY <1>1, CallsIn
<1>3. ASSUME NEW u, NEW t, NEW k, Fit({}, u, t, k)
      PROVE  \E U \in SUBSET {} :
                /\ Fit({}, u \cup U, t \cup {}, k \cup {n})
                /\ Piece(<<Try("other"), c>>, Stand({}, u, t, k),
                         Stand({}, u \cup U, t \cup {}, k \cup {n}))
    <2>1. Fit({}, u, t, k \cup {n})
        BY <1>3 DEF Fit
    <2>2. PICK a, b \in Stands : a = Stand({}, u, t, k) /\ b = Stand({}, u, t, k \cup {n})
        BY <1>3, <2>1, FitStand
    <2>3. Moves(Try("other"), a, a)
        BY IdlesUsed, IdleMoves
    <2>4. Moves(c, a, b)
        <3>1. c.op = "hold" /\ c.number = n
            BY <1>1
        <3>2. a.have = {} /\ a.used = u /\ a.told = t /\ a.kept = k
            BY <2>2, FitStand
        <3> QED BY <2>2, <3>1, <3>2 DEF Moves
    <2>5. Piece(<<Try("other"), c>>, a, b)
        BY <1>2, <2>3, <2>4, PieceTwo
    <2>6. u \cup {} = u /\ t \cup {} = t /\ {} \in SUBSET {}
        OBVIOUS
    <2> QED BY <2>1, <2>2, <2>5, <2>6
<1>4. <<Try("other"), c>> \in Seq(Call)
    BY <1>2
<1>5. Closed(<<Try("other"), c>>, {}, {}, {n})
    BY <1>3, <1>4 DEF Closed, Ends
<1> QED BY <1>1, <1>5

LEMMA ObjectClosed ==
    ASSUME case \in Case, IsInjective(case.images), case.provider = "unity",
           NEW n \in DOMAIN case.objects
    PROVE  /\ Closed(Body(n), Foot(n), OfObject(n) \ {Playable}, Players \cap {n})
           /\ Playable \in OfObject(n) <=> n \in Players
<1>1. n \in Nat \ {0} /\ case.objects[n] \in
         {"skipped", "plain", "opaque", "playable", "clip", "image", "layers", "bank"}
    BY DEF Case
<1>2. PICK json, object, ogg \in Foot(n) :
         /\ json = OfStem(n, "json") /\ object = OfStem(n, "object.bin") /\ ogg = OfStem(n, "ogg")
    BY <1>1, FootHas DEF Extensions
<1>3. /\ json \in Names /\ object \in Names /\ ogg \in Names
      /\ json # object /\ json[1] = Root
    <2>1. /\ json \in Names /\ object \in Names /\ ogg \in Names
          /\ json[3] = "json" /\ object[3] = "object.bin" /\ json[1] = Root
        BY <1>1, <1>2, FootHas DEF Extensions
    <2> QED BY <2>1
<1>4. <<Try("other")>> \in Seq(Idles)
    BY IdlesUsed
<1>5. Closed(Plain(n), {json}, {json}, {})
    BY <1>2, <1>3, <1>4, ClosedSaving DEF Plain
<1>6. case.objects[n] # "playable" => Players \cap {n} = {}
    BY DEF Players
<1>7. ASSUME NEW W, NEW T, Closed(Body(n), W, T, {}), W \subseteq Foot(n), OfObject(n) = T,
             case.objects[n] # "playable"
      PROVE  /\ Closed(Body(n), Foot(n), OfObject(n) \ {Playable}, Players \cap {n})
             /\ Playable \in OfObject(n) <=> n \in Players
    <2>1. T \subseteq Foot(n)
        BY <1>7, ClosedIn
    <2>2. Playable \notin T
        BY <1>1, <2>1, FootHas
    <2>3. OfObject(n) \ {Playable} = T
        BY <1>7, <2>2
    <2>4. Closed(Body(n), Foot(n), T, {})
        BY <1>7, ClosedWiden
    <2>5. n \notin Players
        BY <1>7 DEF Players
    <2> QED BY <1>6, <1>7, <2>2, <2>3, <2>4, <2>5
<1>8. CASE case.objects[n] = "skipped"
    <2>1. Body(n) = <<>> /\ OfObject(n) = {}
        BY <1>8 DEF Body, OfObject
    <2>2. <<>> \in Seq(Idles)
        OBVIOUS
    <2>3. Closed(Body(n), {}, {}, {}) /\ {} \subseteq Foot(n)
        BY <2>1, <2>2, ClosedIdle
    <2> QED BY <1>7, <1>8, <2>1, <2>3
<1>9. CASE case.objects[n] = "plain"
    <2>1. Body(n) = Plain(n) /\ OfObject(n) = {json}
        BY <1>2, <1>9 DEF Body, OfObject
    <2>2. {json} \subseteq Foot(n)
        OBVIOUS
    <2> QED BY <1>5, <1>7, <1>9, <2>1, <2>2
<1>10. CASE case.objects[n] = "opaque"
    <2>1. Body(n) = Plain(n) \o <<Try("other")>> \o Saved(object)
        BY <1>2, <1>10 DEF Body, Opaque
    <2>2. OfObject(n) = {json} \cup {object}
        BY <1>2, <1>10 DEF OfObject
    <2>3. Closed(Plain(n) \o <<Try("other")>>, {json}, {json}, {})
        BY <1>4, <1>5, ClosedBefore
    <2>4. {json} \cap {object} = {}
        BY <1>3
    <2>5. Closed(Saved(object), {object}, {object}, {})
        BY <1>3, ClosedSaved
    <2>6. Closed(Plain(n) \o <<Try("other")>> \o Saved(object), {json} \cup {object},
                 {json} \cup {object}, {})
        BY <2>3, <2>4, <2>5, ClosedPair
    <2>7. {json} \cup {object} \subseteq Foot(n)
        OBVIOUS
    <2> QED BY <1>7, <1>10, <2>1, <2>2, <2>6, <2>7
<1>11. CASE case.objects[n] = "playable"
    <2>1. Body(n) = <<Try("other"), [op |-> "hold", number |-> n]>>
        BY <1>11 DEF Body, Playing
    <2>2. OfObject(n) \ {Playable} = {}
        BY <1>11 DEF OfObject
    <2>3. n \in Players /\ Players \cap {n} = {n}
        BY <1>11 DEF Players
    <2>4. Closed(Body(n), {}, {}, {n})
        BY <1>1, <2>1, <2>3, HoldClosed
    <2>5. {} \subseteq Foot(n)
        OBVIOUS
    <2>6. Playable \in OfObject(n)
        BY <1>11 DEF OfObject
    <2> QED BY <2>2, <2>3, <2>4, <2>5, <2>6, ClosedWiden
<1>12. CASE case.objects[n] = "clip"
    <2>1. Body(n) = <<Try("other"), Fits(ogg), Look>> \o Saved(ogg)
        BY <1>2, <1>12 DEF Body, Clip
    <2>2. OfObject(n) = {ogg} /\ {ogg} \subseteq Foot(n)
        BY <1>2, <1>12 DEF OfObject
    <2>3. <<Try("other"), Fits(ogg), Look>> \in Seq(Idles)
        BY <1>3, IdlesUsed
    <2>4. Closed(Body(n), {ogg}, {ogg}, {})
        BY <1>3, <2>1, <2>3, ClosedSaving
    <2> QED BY <1>7, <1>12, <2>2, <2>4
<1>13. CASE case.objects[n] = "image"
    <2>1. Body(n) = <<Try("other")>> \o Images(<<"nth", n>>)
        BY <1>13 DEF Body, Image
    <2>2. OfObject(n) = OfImages(<<"nth", n>>)
        BY <1>13 DEF OfObject
    <2>3. <<"nth", n>> \in Stems /\ OfImage(<<"nth", n>>) \subseteq Foot(n)
        BY <1>1, FootHas
    <2>4. Closed(Images(<<"nth", n>>), OfImage(<<"nth", n>>), OfImages(<<"nth", n>>), {})
        BY <2>3, ImagesClosed
    <2>5. Closed(Body(n), OfImage(<<"nth", n>>), OfImages(<<"nth", n>>), {})
        BY <1>4, <2>1, <2>4, ClosedAfter
    <2> QED BY <1>7, <1>13, <2>2, <2>3, <2>5
<1>14. CASE case.objects[n] = "layers"
    <2>1. PICK x, y \in Stems : x = <<"layer 0", n>> /\ y = <<"layer 1", n>>
        BY <1>1, FootHas
    <2>2. Body(n) = <<Try("other"), Look>> \o Images(x) \o <<Look>> \o Images(y)
        BY <1>14, <2>1 DEF Body, Layers
    <2>3. OfObject(n) = OfImages(x) \cup OfImages(y)
        BY <1>14, <2>1 DEF OfObject
    <2>4. /\ OfImage(x) \cup OfImage(y) \subseteq Foot(n)
          /\ OfImage(x) \cap OfImage(y) = {}
        BY <1>1, <2>1, FootHas
    <2>5. Closed(Images(x), OfImage(x), OfImages(x), {}) /\ Closed(Images(y), OfImage(y), OfImages(y), {})
        BY ImagesClosed
    <2>6. <<Try("other"), Look>> \in Seq(Idles) /\ <<Look>> \in Seq(Idles)
        BY IdlesUsed
    <2>7. Closed(<<Try("other"), Look>> \o Images(x), OfImage(x), OfImages(x), {})
        BY <2>5, <2>6, ClosedAfter
    <2>8. Closed(<<Try("other"), Look>> \o Images(x) \o <<Look>>, OfImage(x), OfImages(x), {})
        BY <2>6, <2>7, ClosedBefore
    <2>9. Closed(Body(n), OfImage(x) \cup OfImage(y), OfImages(x) \cup OfImages(y), {})
        BY <2>2, <2>4, <2>5, <2>8, ClosedPair
    <2> QED BY <1>7, <1>14, <2>3, <2>4, <2>9
<1>15. CASE case.objects[n] = "bank"
    <2>1. PICK dir \in Dirs : dir = BankDir(n)
        BY <1>1, DirsIn
    <2>2. Body(n) = Plain(n) \o <<Try("other")>> \o Acb(dir)
        BY <1>15, <2>1 DEF Body, Bank
    <2>3. OfObject(n) = {json} \cup OfAcb(dir)
        BY <1>2, <1>15, <2>1 DEF OfObject
    <2>4. Closed(Plain(n) \o <<Try("other")>>, {json}, {json}, {})
        BY <1>4, <1>5, ClosedBefore
    <2>5. {json} \cap Within(dir) = {}
        BY <1>1, <1>3, <2>1, FootHas DEF Within
    <2>6. Closed(Acb(dir), Within(dir), OfAcb(dir), {})
        BY AcbClosed
    <2>7. Closed(Body(n), {json} \cup Within(dir), {json} \cup OfAcb(dir), {})
        BY <2>2, <2>4, <2>5, <2>6, ClosedPair
    <2>8. {json} \cup Within(dir) \subseteq Foot(n)
        BY <1>1, <2>1, FootHas
    <2> QED BY <1>7, <1>15, <2>3, <2>7, <2>8
<1> QED BY <1>1, <1>8, <1>9, <1>10, <1>11, <1>12, <1>13, <1>14, <1>15

-----------------------------------------------------------------------------
(* A resource as a whole.                                                  *)
LEMMA OpenClosed ==
    ASSUME case.provider = "unity"
    PROVE  Closed(<<[op |-> "open"]>>, {}, {}, {})
<1>1. PICK c \in Call : c = [op |-> "open"]
    BY CallsIn
<1>2. ASSUME NEW u, NEW t, NEW k, Fit({}, u, t, k)
      PROVE  \E U \in SUBSET {} :
                /\ Fit({}, u \cup U, t \cup {}, k \cup {})
                /\ Piece(<<c>>, Stand({}, u, t, k), Stand({}, u \cup U, t \cup {}, k \cup {}))
    <2>1. PICK a \in Stands : a = Stand({}, u, t, k)
        BY <1>2, FitStand
    <2>2. Moves(c, a, a)
        BY <1>1 DEF Moves
    <2>3. Piece(<<c>>, a, a)
        BY <2>2, PieceOne
    <2>4. u \cup {} = u /\ t \cup {} = t /\ k \cup {} = k /\ {} \in SUBSET {}
        OBVIOUS
    <2> QED BY <1>2, <2>1, <2>3, <2>4
<1>3. <<c>> \in Seq(Call)
    OBVIOUS
<1>4. Closed(<<c>>, {}, {}, {})
    BY <1>2, <1>3 DEF Closed, Ends
<1> QED BY <1>1, <1>4

LEMMA ObjectCallClosed ==
    ASSUME case \in Case, IsInjective(case.images), case.provider = "unity",
           NEW n \in DOMAIN case.objects
    PROVE  Closed(<<Look, Object(n)>>, Foot(n), OfObject(n) \ {Playable}, Players \cap {n})
<1>1. n \in Nat
    BY DEF Case
<1>2. PICK F, T, K : F = Foot(n) /\ T = OfObject(n) \ {Playable} /\ K = Players \cap {n}
    OBVIOUS
<1>3. T \subseteq F /\ F \subseteq Names /\ K \subseteq Nat
    <2>1. Closed(Body(n), F, T, K)
        BY <1>2, ObjectClosed
    <2>2. F \subseteq Names
        BY <1>2 DEF Foot, Within
    <2> QED BY <2>1, <2>2, ClosedIn
<1>4. Look \in Call /\ Object(n) \in Call
    BY <1>1, CallsIn
<1>5. ASSUME NEW u, NEW t, NEW k, Fit({}, u, t, k), Apart(u, F)
      PROVE  \E U \in SUBSET F :
                /\ Fit({}, u \cup U, t \cup T, k \cup K)
                /\ Piece(<<Look, Object(n)>>, Stand({}, u, t, k), Stand({}, u \cup U, t \cup T, k \cup K))
    <2>1. Fit({}, u \cup F, t \cup T, k \cup K)
        BY <1>3, <1>5 DEF Fit
    <2>2. PICK a, b \in Stands : a = Stand({}, u, t, k) /\ b = Stand({}, u \cup F, t \cup T, k \cup K)
        BY <1>5, <2>1, FitStand
    <2>3. Moves(Look, a, a)
        BY IdlesUsed, IdleMoves
    <2>4. Moves(Object(n), a, b)
        <3>1. PICK c : c = Object(n)
            OBVIOUS
        <3>2. c.op = "object" /\ c.number = n
            BY <3>1 DEF Object
        <3>3. a.have = {} /\ a.used = u /\ a.told = t /\ a.kept = k
            BY <2>2, FitStand
        <3>4. a.used \cap Foot(n) = {}
            BY <1>2, <1>5, <3>3 DEF Apart
        <3>5. b = Stand({}, a.used \cup Foot(n), a.told \cup (OfObject(n) \ {Playable}),
                        a.kept \cup (Players \cap {n}))
            BY <1>2, <2>2, <3>3
        <3>6. Moves(c, a, b)
            BY <3>2, <3>3, <3>4, <3>5 DEF Moves
        <3> QED BY <3>1, <3>6
    <2>5. Piece(<<Look, Object(n)>>, a, b)
        BY <1>4, <2>3, <2>4, PieceTwo
    <2>6. F \in SUBSET F
        OBVIOUS
    <2> QED BY <2>1, <2>2, <2>5, <2>6
<1>6. <<Look, Object(n)>> \in Seq(Call)
    BY <1>4
<1>7. Closed(<<Look, Object(n)>>, F, T, K)
    BY <1>5, <1>6 DEF Closed, Ends
<1> QED BY <1>2, <1>7

LEMMA ObjectsClosed ==
    ASSUME case \in Case, IsInjective(case.images), case.provider = "unity"
    PROVE  \E W \in SUBSET {f \in Names : f[1] \notin {Dir("raw")} /\ f # Playable} :
              Closed(FlattenSeq([n \in DOMAIN case.objects |-> <<Look, Object(n)>>]), W,
                     (UNION {OfObject(n) : n \in DOMAIN case.objects}) \ {Playable}, Players)
<1> DEFINE seqs == [n \in DOMAIN case.objects |-> <<Look, Object(n)>>]
           F == [n \in DOMAIN case.objects |-> Foot(n)]
           G == [n \in DOMAIN case.objects |-> OfObject(n) \ {Playable}]
           K == [n \in DOMAIN case.objects |-> Players \cap {n}]
           len == Len(case.objects)
<1>1. DOMAIN case.objects = 1 .. len /\ len \in Nat
    BY DEF Case
<1>2. \A n \in 1 .. len : /\ seqs[n] = <<Look, Object(n)>> /\ F[n] = Foot(n)
                          /\ G[n] = OfObject(n) \ {Playable} /\ K[n] = Players \cap {n}
    BY <1>1
<1>3. seqs = [n \in 1 .. len |-> seqs[n]]
    BY <1>1
<1> HIDE DEF F, G, K, seqs, len
<1>4. \A n \in 1 .. len : Closed(seqs[n], F[n], G[n], K[n])
    <2>1. ASSUME NEW n \in 1 .. len PROVE Closed(seqs[n], F[n], G[n], K[n])
        <3>1. Closed(<<Look, Object(n)>>, Foot(n), OfObject(n) \ {Playable}, Players \cap {n})
            BY <1>1, ObjectCallClosed
        <3> QED BY <1>2, <3>1
    <2> QED BY <2>1
<1>5. \A i, j \in 1 .. len : i # j => Apart(F[i], F[j])
    <2>1. ASSUME NEW i \in 1 .. len, NEW j \in 1 .. len, i # j PROVE Apart(F[i], F[j])
        <3>1. i \in Nat /\ j \in Nat
            BY <1>1
        <3>2. Apart(Foot(i), Foot(j))
            BY <2>1, <3>1, FootsApart
        <3> QED BY <1>2, <3>2
    <2> QED BY <2>1
<1>6. Closed(FlattenSeq(seqs), AllOf(F, len), AllOf(G, len), AllOf(K, len))
    BY <1>1, <1>3, <1>4, <1>5, ClosedEach
<1>7. AllOf(F, len) \in SUBSET {f \in Names : f[1] \notin {Dir("raw")} /\ f # Playable}
    <2>1. ASSUME NEW n \in 1 .. len, NEW f \in Foot(n)
          PROVE  f \in Names /\ f[1] # Dir("raw") /\ f # Playable
        <3>1. n \in Nat \ {0}
            BY <1>1
        <3>2. f # Playable
            BY <3>1, FootHas
        <3>3. Root # Dir("raw") /\ BankDir(n) # Dir("raw")
            BY DEF Root, BankDir, Dir
        <3> QED BY <3>2, <3>3 DEF Foot, Within
    <2> QED BY <1>2, <2>1 DEF AllOf
<1>8. AllOf(G, len) = (UNION {OfObject(n) : n \in DOMAIN case.objects}) \ {Playable}
    <2>1. \A f : f \in AllOf(G, len) <=> \E n \in 1 .. len : f \in OfObject(n) \ {Playable}
        BY <1>2 DEF AllOf
    <2>2. \A f : f \in UNION {OfObject(n) : n \in DOMAIN case.objects}
                 <=> \E n \in 1 .. len : f \in OfObject(n)
        BY <1>1
    <2> QED BY <2>1, <2>2
<1>9. AllOf(K, len) = Players
    <2>1. \A n : n \in AllOf(K, len) <=> \E m \in 1 .. len : n \in Players \cap {m}
        BY <1>2 DEF AllOf
    <2>2. Players \subseteq 1 .. len
        BY <1>1 DEF Players
    <2> QED BY <2>1, <2>2
<1>10. Closed(FlattenSeq(seqs), AllOf(F, len),
              (UNION {OfObject(n) : n \in DOMAIN case.objects}) \ {Playable}, Players)
    BY <1>6, <1>8, <1>9
<1> QED BY <1>7, <1>10 DEF seqs

LEMMA UnityClosed ==
    ASSUME case \in Case, IsInjective(case.images), case.provider = "unity"
    PROVE  Closed(Unity, {f \in Names : f[1] # Dir("raw")},
                  UNION {OfObject(n) : n \in DOMAIN case.objects}, Players)
<1>1. PICK all, seqs, P : /\ all = UNION {OfObject(n) : n \in DOMAIN case.objects}
                          /\ seqs = [n \in DOMAIN case.objects |-> <<Look, Object(n)>>]
                          /\ P = IF Players = {} THEN {} ELSE {Playable}
    OBVIOUS
<1>2. PICK W \in SUBSET {f \in Names : f[1] \notin {Dir("raw")} /\ f # Playable} :
         Closed(FlattenSeq(seqs), W, all \ {Playable}, Players)
    BY <1>1, ObjectsClosed
<1>3. all = (all \ {Playable}) \cup P
    <2>1. \A n \in DOMAIN case.objects : n \in Players <=> Playable \in OfObject(n)
        BY ObjectClosed
    <2>2. Players = {n \in DOMAIN case.objects : case.objects[n] = "playable"}
        BY DEF Players
    <2>3. Playable \in all <=> Players # {}
        BY <1>1, <2>1, <2>2
    <2> QED BY <1>1, <2>3
<1>4. PICK front : front = <<[op |-> "open"]>> \o FlattenSeq(seqs)
    OBVIOUS
<1>5. Closed(front, W, all \ {Playable}, Players)
    <2>1. Closed(<<[op |-> "open"]>> \o FlattenSeq(seqs), {} \cup W, {} \cup (all \ {Playable}), {} \cup Players)
        <3>1. {} \cap W = {}
            OBVIOUS
        <3> QED BY <1>2, <3>1, OpenClosed, ClosedJoin
    <2>2. {} \cup W = W /\ {} \cup (all \ {Playable}) = all \ {Playable} /\ {} \cup Players = Players
        OBVIOUS
    <2> QED BY <1>4, <2>1, <2>2
<1>6. PICK c \in Call : c = [op |-> "merge"]
    BY CallsIn
<1>7. Unity = front \o <<c>>
    BY <1>1, <1>4, <1>6 DEF Unity
<1>8. Playable \in Names
    BY FileIn, DirsIn DEF Playable, Extensions
<1>9. ASSUME NEW u, NEW t, NEW k, Fit({}, u, t, k), Apart(u, W \cup {Playable})
      PROVE  \E U \in SUBSET (W \cup {Playable}) :
                /\ Fit({}, u \cup U, t \cup all, k \cup Players)
                /\ Piece(front \o <<c>>, Stand({}, u, t, k), Stand({}, u \cup U, t \cup all, k \cup Players))
    <2>1. Apart(u, W) /\ Playable \notin u
        BY <1>9 DEF Apart
    <2>2. PICK U \in SUBSET W :
             /\ Fit({}, u \cup U, t \cup (all \ {Playable}), k \cup Players)
             /\ Piece(front, Stand({}, u, t, k),
                      Stand({}, u \cup U, t \cup (all \ {Playable}), k \cup Players))
        BY <1>5, <1>9, <2>1 DEF Closed, Ends
    <2>3. Playable \notin u \cup U
        BY <2>1
    <2>4. Fit({}, u \cup U \cup {Playable}, t \cup all, k \cup Players)
        BY <1>3, <1>8, <2>2, <1>1 DEF Fit
    <2>5. PICK a, b \in Stands :
             /\ a = Stand({}, u \cup U, t \cup (all \ {Playable}), k \cup Players)
             /\ b = Stand({}, u \cup U \cup {Playable}, t \cup all, k \cup Players)
        BY <2>2, <2>4, FitStand
    <2>6. Moves(c, a, b)
        <3>1. c.op = "merge"
            BY <1>6
        <3>2. /\ a.have = {} /\ a.used = u \cup U /\ a.told = t \cup (all \ {Playable})
              /\ a.kept = k \cup Players
            BY <2>5, FitStand
        <3>3. a.told \cup P = t \cup all
            BY <1>3, <3>2
        <3>4. b = Stand({}, a.used \cup {Playable}, a.told \cup P, a.kept)
            BY <2>5, <3>2, <3>3
        <3>5. Players \subseteq a.kept /\ Playable \notin a.used
            BY <2>3, <3>2
        <3> QED BY <1>1, <3>1, <3>2, <3>4, <3>5 DEF Moves
    <2>7. Piece(<<c>>, a, b)
        BY <2>6, PieceOne
    <2>8. Piece(front \o <<c>>, Stand({}, u, t, k), b)
        BY <2>2, <2>5, <2>7, PieceJoin
    <2>9. u \cup U \cup {Playable} = u \cup (U \cup {Playable}) /\ U \cup {Playable} \in SUBSET (W \cup {Playable})
        OBVIOUS
    <2> QED BY <2>4, <2>5, <2>8, <2>9
<1>10. front \o <<c>> \in Seq(Call)
    <2>1. <<c>> \in Seq(Call) /\ front \in Seq(Call)
        BY <1>5 DEF Closed
    <2> QED BY <2>1, ConcatProperties
<1>11. Closed(Unity, W \cup {Playable}, all, Players)
    BY <1>7, <1>9, <1>10 DEF Closed, Ends
<1>12. W \cup {Playable} \subseteq {f \in Names : f[1] # Dir("raw")}
    <2>1. Playable[1] # Dir("raw")
        BY DEF Playable, File, Root, Dir
    <2> QED BY <1>8, <2>1
<1> QED BY <1>1, <1>11, <1>12, ClosedWiden

LEMMA UsmCallClosed ==
    ASSUME case \in Case, case.provider = "cri", NEW dir \in Dirs
    PROVE  Closed(<<Usm(dir)>>, Within(dir), OfUsm(dir), {})
<1>1. PICK c \in Call : c = Usm(dir)
    BY CallsIn
<1>2. PICK W, T : W = Within(dir) /\ T = OfUsm(dir)
    OBVIOUS
<1>3. T \subseteq W /\ W \subseteq Names
    BY <1>2, UsmClosed DEF Within
<1>4. ASSUME NEW u, NEW t, NEW k, Fit({}, u, t, k), Apart(u, W)
      PROVE  \E U \in SUBSET W :
                /\ Fit({}, u \cup U, t \cup T, k \cup {})
                /\ Piece(<<c>>, Stand({}, u, t, k), Stand({}, u \cup U, t \cup T, k \cup {}))
    <2>1. Fit({}, u \cup W, t \cup T, k)
        BY <1>3, <1>4 DEF Fit
    <2>2. PICK a, b \in Stands : a = Stand({}, u, t, k) /\ b = Stand({}, u \cup W, t \cup T, k)
        BY <1>4, <2>1, FitStand
    <2>3. Moves(c, a, b)
        <3>1. c.op = "usm" /\ c.dir = dir
            BY <1>1 DEF Usm
        <3>2. a.have = {} /\ a.used = u /\ a.told = t /\ a.kept = k
            BY <2>2, FitStand
        <3>3. a.used \cap Within(dir) = {}
            BY <1>2, <1>4, <3>2 DEF Apart
        <3>4. b = Stand({}, a.used \cup Within(dir), a.told \cup OfUsm(dir), a.kept)
            BY <1>2, <2>2, <3>2
        <3> QED BY <3>1, <3>2, <3>3, <3>4 DEF Moves
    <2>4. Piece(<<c>>, a, b)
        BY <2>3, PieceOne
    <2>5. W \in SUBSET W /\ k \cup {} = k
        OBVIOUS
    <2> QED BY <2>1, <2>2, <2>4, <2>5
<1>5. <<c>> \in Seq(Call)
    OBVIOUS
<1>6. Closed(<<c>>, W, T, {})
    BY <1>4, <1>5 DEF Closed, Ends
<1> QED BY <1>1, <1>2, <1>6

LEMMA PairSplit ==
    ASSUME NEW c \in Call, NEW d \in Call
    PROVE  <<c, d>> = <<c>> \o <<d>>
<1>a. <<c>> \in Seq(Call) /\ <<d>> \in Seq(Call) /\ <<c, d>> \in Seq(Call)
    OBVIOUS
<1>1. PICK s, t, r : s = <<c>> /\ t = <<d>> /\ r = <<c, d>>
    OBVIOUS
<1>b. s \in Seq(Call) /\ t \in Seq(Call) /\ r \in Seq(Call)
    BY <1>1, <1>a
<1>2. /\ Len(s) = 1 /\ Len(t) = 1 /\ Len(r) = 2
      /\ r[1] = c /\ r[2] = d /\ s[1] = c /\ t[1] = d
    BY <1>1
<1>3. s \o t \in Seq(Call) /\ Len(s \o t) = 2 /\ (s \o t)[1] = c /\ (s \o t)[2] = d
    BY <1>2, <1>b, ConcatProperties
<1>4. ASSUME NEW i \in 1 .. Len(r) PROVE r[i] = (s \o t)[i]
    <2>1. i = 1 \/ i = 2
        BY <1>2
    <2> QED BY <2>1, <1>2, <1>3
<1>5. r = s \o t
    BY <1>2, <1>3, <1>4, <1>b, SeqEqual
<1> QED BY <1>1, <1>5

LEMMA TripleSplit ==
    ASSUME NEW c \in Call, NEW d \in Call, NEW e \in Call
    PROVE  <<c, d, e>> = <<c, d>> \o <<e>>
<1>a. <<c, d>> \in Seq(Call) /\ <<e>> \in Seq(Call) /\ <<c, d, e>> \in Seq(Call)
    OBVIOUS
<1>1. PICK s, t, r : s = <<c, d>> /\ t = <<e>> /\ r = <<c, d, e>>
    OBVIOUS
<1>b. s \in Seq(Call) /\ t \in Seq(Call) /\ r \in Seq(Call)
    BY <1>1, <1>a
<1>2. /\ Len(s) = 2 /\ Len(t) = 1 /\ Len(r) = 3
      /\ r[1] = c /\ r[2] = d /\ r[3] = e /\ s[1] = c /\ s[2] = d /\ t[1] = e
    BY <1>1
<1>3. /\ s \o t \in Seq(Call) /\ Len(s \o t) = 3
      /\ (s \o t)[1] = c /\ (s \o t)[2] = d /\ (s \o t)[3] = e
    <2>1. s \o t \in Seq(Call) /\ Len(s \o t) = 3
        BY <1>2, <1>b, ConcatProperties
    <2>2. \A i \in 1 .. Len(s) + Len(t) :
             (s \o t)[i] = IF i <= Len(s) THEN s[i] ELSE t[i - Len(s)]
        BY <1>b, ConcatProperties
    <2>3. /\ 1 \in 1 .. Len(s) + Len(t) /\ 2 \in 1 .. Len(s) + Len(t) /\ 3 \in 1 .. Len(s) + Len(t)
          /\ 1 <= Len(s) /\ 2 <= Len(s) /\ ~(3 <= Len(s)) /\ 3 - Len(s) = 1
        BY <1>2
    <2>4. (s \o t)[1] = s[1]
        BY <2>2, <2>3
    <2>5. (s \o t)[2] = s[2]
        BY <2>2, <2>3
    <2>6. (s \o t)[3] = t[1]
        BY <2>2, <2>3
    <2> QED BY <1>2, <2>1, <2>4, <2>5, <2>6
<1>4. ASSUME NEW i \in 1 .. Len(r) PROVE r[i] = (s \o t)[i]
    <2>1. i = 1 \/ i = 2 \/ i = 3
        BY <1>2
    <2> QED BY <2>1, <1>2, <1>3
<1>5. r = s \o t
    BY <1>2, <1>3, <1>4, <1>b, SeqEqual
<1> QED BY <1>1, <1>5

LEMMA CriClosed ==
    ASSUME case \in Case, case.provider = "cri"
    PROVE  Closed(Cri, {f \in Names : f[1] # Dir("raw")}, OfCri, {})
<1>1. PICK X : X = {f \in Names : f[1] # Dir("raw")}
    OBVIOUS
<1>2. PICK root, color, alpha \in Dirs :
         /\ root = Root /\ color = Dir("color") /\ alpha = Dir("alpha")
    BY DirsIn
<1>3. root # Dir("raw") /\ color # Dir("raw") /\ alpha # Dir("raw") /\ color # alpha
    BY <1>2 DEF Root, Dir
<1>4. \A dir \in {root, color, alpha} : Within(dir) \subseteq X
    BY <1>1, <1>3 DEF Within
<1>5. <<Try("other")>> \in Seq(Idles)
    BY IdlesUsed
<1>6. ASSUME NEW s, NEW W, Closed(s, W, OfCri, {}), W \subseteq X, Cri = <<Try("other")>> \o s
      PROVE  Closed(Cri, X, OfCri, {})
    <2>1. Closed(s, X, OfCri, {})
        BY <1>6, ClosedWiden
    <2> QED BY <1>5, <1>6, <2>1, ClosedAfter
<1>7. CASE case.container = "acb"
    <2>1. Cri = <<Try("other")>> \o Acb(root) /\ OfCri = OfAcb(root)
        BY <1>2, <1>7 DEF Cri, OfCri
    <2>2. Closed(Acb(root), Within(root), OfAcb(root), {})
        BY AcbClosed
    <2> QED BY <1>1, <1>4, <1>6, <2>1, <2>2
<1>8. CASE case.container # "acb" /\ case.preserve
    <2>1. Cri = <<Try("other")>> \o Preserve(root, "usm") /\ OfCri = {File(root, "container", "usm")}
        BY <1>2, <1>8 DEF Cri, OfCri
    <2>2. "usm" \in Extensions
        BY DEF Extensions
    <2>3. Closed(Preserve(root, "usm"), {File(root, "container", "usm")},
                 {File(root, "container", "usm")}, {})
        BY <2>2, PreserveClosed
    <2>4. {File(root, "container", "usm")} \subseteq X
        BY <1>4, <2>2, FileIn
    <2> QED BY <1>1, <1>6, <2>1, <2>3, <2>4
<1>9. CASE case.container = "usm" /\ ~case.preserve
    <2>1. Cri = <<Try("other")>> \o <<Try("other"), Usm(root)>> /\ OfCri = OfUsm(root)
        BY <1>2, <1>9 DEF Cri, OfCri
    <2>2. PICK c, d \in Call : c = Try("other") /\ d = Usm(root)
        BY CallsIn
    <2>3. <<c, d>> = <<c>> \o <<d>>
        BY PairSplit
    <2>4. Closed(<<Try("other"), Usm(root)>>, Within(root), OfUsm(root), {})
        BY <1>5, <2>2, <2>3, UsmCallClosed, ClosedAfter
    <2> QED BY <1>1, <1>4, <1>6, <2>1, <2>4
<1>10. CASE case.container \notin {"acb", "usm"} /\ ~case.preserve
    <2>1. /\ Cri = <<Try("other")>> \o <<Try("other"), Usm(color), Usm(alpha)>>
          /\ OfCri = OfUsm(color) \cup OfUsm(alpha)
        BY <1>2, <1>10 DEF Cri, OfCri
    <2>2. PICK c, d, e \in Call : c = Try("other") /\ d = Usm(color) /\ e = Usm(alpha)
        BY CallsIn
    <2>3. <<c, d, e>> = <<c, d>> \o <<e>> /\ <<c, d>> = <<c>> \o <<d>>
        BY PairSplit, TripleSplit
    <2>4. Closed(<<c, d>>, Within(color), OfUsm(color), {})
        BY <1>5, <2>2, <2>3, UsmCallClosed, ClosedAfter
    <2>a. Closed(<<e>>, Within(alpha), OfUsm(alpha), {})
        BY <2>2, UsmCallClosed
    <2>5. Within(color) \cap Within(alpha) = {}
        BY <1>3 DEF Within
    <2>b. Closed(<<c, d>> \o <<e>>, Within(color) \cup Within(alpha), OfUsm(color) \cup OfUsm(alpha), {})
        BY <2>4, <2>5, <2>a, ClosedPair
    <2>6. Closed(<<c, d, e>>, Within(color) \cup Within(alpha), OfUsm(color) \cup OfUsm(alpha), {})
        BY <2>b, <2>3
    <2>7. Within(color) \cup Within(alpha) \subseteq X
        BY <1>4
    <2> QED BY <1>1, <1>6, <2>1, <2>2, <2>6, <2>7
<1>11. CASE case.preserve
    BY <1>7, <1>8, <1>11
<1>12. CASE ~case.preserve
    BY <1>7, <1>9, <1>10, <1>12
<1> QED BY <1>11, <1>12

LEMMA RawClosed == Closed(RawBundle, {f \in Names : f[1] = Dir("raw")}, OfRaw, {})
<1>1. PICK f \in Names : f = File(Dir("raw"), "bundle", "ab") /\ f[1] = Dir("raw")
    BY DirsIn, FileIn DEF Extensions
<1>2. PICK s : s = <<Fits(f), Look, Make(f), Try("other")>>
    OBVIOUS
<1>3. s \in Seq(Call)
    <2>1. Fits(f) \in Call /\ Look \in Call /\ Make(f) \in Call /\ Try("other") \in Call
        BY CallsIn
    <2> QED BY <1>2, <2>1
<1>4. Brings(s, f)
    BY <1>2, IdlesUsed, BringsFour
<1>5. RawBundle = s \o <<Record(f)>>
    <2>1. PICK a, b, c, d, e \in Call : /\ a = Fits(f) /\ b = Look /\ c = Make(f)
                                        /\ d = Try("other") /\ e = Record(f)
        BY CallsIn
    <2>2. <<a, b, c, d, e>> = <<a, b, c, d>> \o <<e>>
        OBVIOUS
    <2>3. RawBundle = <<a, b, c, d, e>>
        BY <1>1, <2>1 DEF RawBundle
    <2> QED BY <1>2, <2>1, <2>2, <2>3
<1>6. Closed(RawBundle, {f}, {f}, {})
    BY <1>3, <1>4, <1>5, ClosedBrings
<1>7. {f} \subseteq {g \in Names : g[1] = Dir("raw")}
    BY <1>1
<1> QED BY <1>1, <1>6, <1>7, ClosedWiden DEF OfRaw

(* All that a resource does, in the order of its calls.                    *)
LEMMA ResourceClosed ==
    ASSUME case \in Case, IsInjective(case.images)
    PROVE  \E H : Closed(ProcessResource, Names, Promised, H)
<1>1. PICK R, X : R = {f \in Names : f[1] = Dir("raw")} /\ X = {f \in Names : f[1] # Dir("raw")}
    OBVIOUS
<1>2. R \cap X = {} /\ R \cup X = Names
    BY <1>1
<1>3. case.raw \in {"no", "alongside", "only"} /\ case.provider \in {"unity", "cri"}
    BY DEF Case
<1>4. <<>> \in Seq(Idles)
    OBVIOUS
<1>5. PICK A, S : /\ A = (IF case.raw = "no" THEN <<>> ELSE RawBundle)
                  /\ S = IF case.raw = "no" THEN {} ELSE OfRaw
    OBVIOUS
<1>6. Closed(A, R, S, {})
    <2>1. Closed(<<>>, {}, {}, {}) /\ {} \subseteq R
        BY <1>4, ClosedIdle
    <2>2. Closed(<<>>, R, {}, {})
        BY <2>1, ClosedWiden
    <2> QED BY <1>1, <1>5, <2>2, RawClosed
<1>7. PICK B : B = IF case.raw = "only" THEN <<>> ELSE IF case.provider = "unity" THEN Unity ELSE Cri
    OBVIOUS
<1>8. PICK T : T = IF case.raw = "only" THEN {}
                  ELSE IF case.provider = "unity"
                       THEN UNION {OfObject(n) : n \in DOMAIN case.objects} ELSE OfCri
    OBVIOUS
<1>9. \E H : Closed(B, X, T, H)
    <2>1. CASE case.raw = "only"
        <3>1. Closed(<<>>, {}, {}, {}) /\ {} \subseteq X
            BY <1>4, ClosedIdle
        <3>2. Closed(<<>>, X, {}, {})
            BY <3>1, ClosedWiden
        <3> QED BY <1>7, <1>8, <2>1, <3>2
    <2>2. CASE case.raw # "only" /\ case.provider = "unity"
        <3>1. B = Unity /\ T = UNION {OfObject(n) : n \in DOMAIN case.objects}
            BY <1>7, <1>8, <2>2
        <3> QED BY <1>1, <2>2, <3>1, UnityClosed
    <2>3. CASE case.raw # "only" /\ case.provider = "cri"
        <3>1. B = Cri /\ T = OfCri
            BY <1>7, <1>8, <2>3
        <3> QED BY <1>1, <2>3, <3>1, CriClosed
    <2> QED BY <1>3, <2>1, <2>2, <2>3
<1>10. PICK H : Closed(B, X, T, H)
    BY <1>9
<1>11. Closed(A \o B, R \cup X, S \cup T, {} \cup H)
    BY <1>2, <1>6, <1>10, ClosedJoin
<1>12. ProcessResource = A \o B
    BY <1>5, <1>7 DEF ProcessResource
<1>13. Promised = S \cup T
    BY <1>5, <1>8 DEF Promised
<1> QED BY <1>2, <1>11, <1>12, <1>13

-----------------------------------------------------------------------------
(* Paths.                                                                  *)
LEMMA Along ==
    ASSUME NEW s \in Seq(Call), NEW p, Path(s, p)
    PROVE  /\ Len(s) \in Nat
           /\ \A i \in 0 .. Len(s) : p[i] \in Stands
           /\ \A i \in 1 .. Len(s) : s[i] \in Call /\ Moves(s[i], p[i - 1], p[i])
BY DEF Path

Spliced(s, p, t, q, u, r) ==
    /\ Path(u, r)
    /\ \A i \in 0 .. Len(s) : r[i] = p[i]
    /\ \A i \in 0 .. Len(t) : r[Len(s) + i] = q[i]

LEMMA Splice ==
    ASSUME NEW s \in Seq(Call), NEW p, Path(s, p), NEW t \in Seq(Call), NEW q, Path(t, q),
           p[Len(s)] = q[0], NEW w, w = s \o t
    PROVE  \E r : Spliced(s, p, t, q, w, r)
<1>1. PICK m, n \in Nat : m = Len(s) /\ n = Len(t)
    OBVIOUS
<1>2. PICK u : u = s \o t
    OBVIOUS
<1>3. /\ u \in Seq(Call)
      /\ Len(u) = m + n
      /\ \A i \in 1 .. m + n : u[i] = IF i <= m THEN s[i] ELSE t[i - m]
    BY <1>1, <1>2, ConcatProperties
<1> DEFINE r == [i \in 0 .. m + n |-> IF i <= m THEN p[i] ELSE q[i - m]]
<1>4. \A i \in 0 .. m : r[i] = p[i]
    BY <1>1
<1>5. ASSUME NEW i \in 0 .. n PROVE r[m + i] = q[i]
    <2>1. CASE i = 0
        BY <2>1, <1>1
    <2>2. CASE i # 0
        <3>1. ~(m + i <= m) /\ m + i \in 0 .. m + n /\ (m + i) - m = i
            BY <2>2, <1>1
        <3> QED BY <3>1
    <2> QED BY <2>1, <2>2
<1>6. r \in [0 .. m + n -> Stands]
    <2>1. ASSUME NEW i \in 0 .. m + n PROVE r[i] \in Stands
        <3>1. CASE i <= m
            <4>1. i \in 0 .. m
                BY <3>1, <1>1
            <4> QED BY <3>1, <4>1, <1>1, Along
        <3>2. CASE ~(i <= m)
            <4>1. i - m \in 0 .. n
                BY <3>2, <1>1
            <4> QED BY <3>2, <4>1, <1>1, Along
        <3> QED BY <3>1, <3>2
    <2> QED BY <2>1
<1> HIDE DEF r
<1>7. ASSUME NEW i \in 1 .. m + n PROVE Moves(u[i], r[i - 1], r[i])
    <2>1. CASE i <= m
        <3>1. i \in 1 .. m /\ i - 1 \in 0 .. m /\ i \in 0 .. m
            BY <2>1, <1>1
        <3> QED BY <2>1, <3>1, <1>1, <1>3, <1>4, Along
    <2>2. CASE ~(i <= m)
        <3>1. i - m \in 1 .. n /\ (i - m) - 1 \in 0 .. n /\ i - m \in 0 .. n
              /\ m + (i - m) = i /\ m + ((i - m) - 1) = i - 1
            BY <2>2, <1>1
        <3>2. r[i] = q[i - m] /\ r[i - 1] = q[(i - m) - 1]
            BY <3>1, <1>5
        <3> QED BY <2>2, <3>1, <3>2, <1>1, <1>3, Along
    <2> QED BY <2>1, <2>2
<1>8. Path(u, r)
    BY <1>3, <1>6, <1>7 DEF Path
<1>9. Spliced(s, p, t, q, w, r)
    BY <1>1, <1>2, <1>4, <1>5, <1>8 DEF Spliced
<1> QED BY <1>9

LEMMA Suffix ==
    ASSUME NEW s \in Seq(Call), NEW p, Path(s, p), NEW i \in 1 .. Len(s) + 1,
           NEW r, r = SubSeq(s, i, Len(s))
    PROVE  /\ r \in Seq(Call) /\ Len(r) = Len(s) - i + 1
           /\ \A j \in 1 .. Len(s) - i + 1 : r[j] = s[j + i - 1]
           /\ Piece(r, p[i - 1], p[Len(s)])
<1>1. PICK m, n \in Nat : m = Len(s) /\ n = Len(s) - i + 1
    <2>1. Len(s) \in Nat
        OBVIOUS
    <2>2. Len(s) - i + 1 \in Nat
        BY <2>1
    <2> QED BY <2>1, <2>2
<1>2. PICK t : t = SubSeq(s, i, Len(s))
    OBVIOUS
<1>3. t \in Seq(Call) /\ Len(t) = n /\ \A j \in 1 .. n : t[j] = s[j + i - 1]
    <2>1. /\ t \in Seq(Call)
          /\ Len(t) = IF i <= m THEN m - i + 1 ELSE 0
          /\ \A j \in 1 .. m - i + 1 : t[j] = s[i + j - 1]
        BY <1>1, <1>2, SubSeqProperties
    <2>2. Len(t) = n
        BY <1>1, <2>1
    <2>3. \A j \in 1 .. n : i + j - 1 = j + i - 1
        BY <1>1
    <2> QED BY <1>1, <2>1, <2>2, <2>3
<1> DEFINE q == [j \in 0 .. n |-> p[j + i - 1]]
<1>4. \A j \in 0 .. n : q[j] = p[j + i - 1] /\ j + i - 1 \in 0 .. m
    BY <1>1
<1>5. q \in [0 .. n -> Stands]
    BY <1>1, <1>4, Along
<1> HIDE DEF q
<1>6. ASSUME NEW j \in 1 .. n PROVE Moves(t[j], q[j - 1], q[j])
    <2>1. /\ j + i - 1 \in 1 .. m /\ j \in 0 .. n /\ j - 1 \in 0 .. n
          /\ (j - 1) + i - 1 = (j + i - 1) - 1
        BY <1>1
    <2>2. q[j - 1] = p[(j + i - 1) - 1] /\ q[j] = p[j + i - 1]
        BY <2>1, <1>4
    <2> QED BY <2>1, <2>2, <1>1, <1>3, Along
<1>7. Path(t, q)
    BY <1>3, <1>5, <1>6 DEF Path
<1>8. q[0] = p[i - 1] /\ q[n] = p[Len(s)]
    <2>1. 0 \in 0 .. n /\ 0 + i - 1 = i - 1 /\ n \in 0 .. n /\ n + i - 1 = Len(s)
        BY <1>1
    <2> QED BY <1>4, <2>1
<1>9. Piece(t, p[i - 1], p[Len(s)])
    BY <1>3, <1>7, <1>8 DEF Piece
<1> QED BY <1>1, <1>2, <1>3, <1>9

LEMMA TailPath ==
    ASSUME NEW s \in Seq(Call), NEW p, Path(s, p), s # <<>>
    PROVE  /\ Tail(s) \in Seq(Call) /\ Len(s) \in Nat \ {0} /\ Len(Tail(s)) = Len(s) - 1
           /\ Head(s) = s[1] /\ s[1] \in Call
           /\ \A j \in 1 .. Len(s) - 1 : Tail(s)[j] = s[j + 1]
           /\ \E q : /\ Path(Tail(s), q)
                     /\ \A j \in 0 .. Len(s) - 1 : q[j] = p[j + 1]
<1>1. PICK m \in Nat : m = Len(s)
    OBVIOUS
<1>2. /\ Tail(s) \in Seq(Call) /\ m # 0 /\ Len(Tail(s)) = m - 1 /\ Head(s) = s[1]
      /\ s[1] \in Call
      /\ \A j \in 1 .. m - 1 : Tail(s)[j] = s[j + 1]
    BY <1>1, HeadTailProperties
<1> DEFINE q == [j \in 0 .. m - 1 |-> p[j + 1]]
<1>3. \A j \in 0 .. m - 1 : q[j] = p[j + 1] /\ j + 1 \in 0 .. m
    BY <1>1
<1>4. q \in [0 .. m - 1 -> Stands]
    BY <1>1, <1>3, Along
<1> HIDE DEF q
<1>5. ASSUME NEW j \in 1 .. m - 1 PROVE Moves(Tail(s)[j], q[j - 1], q[j])
    <2>1. j + 1 \in 1 .. m /\ j \in 0 .. m - 1 /\ j - 1 \in 0 .. m - 1 /\ (j - 1) + 1 = (j + 1) - 1
        BY <1>1
    <2>2. q[j - 1] = p[(j + 1) - 1] /\ q[j] = p[j + 1]
        BY <2>1, <1>3
    <2> QED BY <2>1, <2>2, <1>1, <1>2, Along
<1>6. Path(Tail(s), q)
    BY <1>2, <1>4, <1>5 DEF Path
<1> QED BY <1>1, <1>2, <1>3, <1>6

(* What was used stays used, and only new files wait.                      *)
Onward(a, b) ==
    /\ a.used \subseteq b.used /\ a.told \subseteq b.told /\ a.kept \subseteq b.kept
    /\ b.have \cap a.used \subseteq a.have

LEMMA OnwardSelf == ASSUME NEW a PROVE Onward(a, a)
BY DEF Onward

LEMMA OnwardStill ==
    ASSUME NEW a, NEW b, NEW c, Onward(a, b), Onward(b, c)
    PROVE  Onward(a, c)
BY DEF Onward

LEMMA MovesOnward ==
    ASSUME NEW c, NEW a \in Stands, NEW b \in Stands, Moves(c, a, b)
    PROVE  Onward(a, b)
<1>1. a = Stand(a.have, a.used, a.told, a.kept) /\ Fit(a.have, a.used, a.told, a.kept)
    BY StandFit
<1>2. ASSUME NEW h, NEW u, NEW t, NEW k, b = Stand(h, u, t, k),
             a.used \subseteq u, a.told \subseteq t, a.kept \subseteq k,
             h \cap a.used \subseteq a.have
      PROVE  Onward(a, b)
    BY <1>2, FitStand DEF Onward
<1>3. CASE c.op \in {"look", "try", "fits", "open"}
    <2>1. b = a
        BY <1>3 DEF Moves
    <2> QED BY <2>1, OnwardSelf
<1>4. CASE c.op \in {"make", "encode", "run"}
    <2>1. PICK fs : Puts(fs, a, b)
        BY <1>4 DEF Moves
    <2> QED BY <1>2, <2>1 DEF Puts
<1>5. CASE c.op \in {"record", "drop"}
    <2>1. \E t : b = Stand(a.have \ {c.file}, a.used, t, a.kept) /\ a.told \subseteq t
        BY <1>5 DEF Moves
    <2> QED BY <1>2, <2>1
<1>6. CASE c.op = "hold"
    <2>1. b = Stand(a.have, a.used, a.told, a.kept \cup {c.number})
        BY <1>6 DEF Moves
    <2> QED BY <1>2, <2>1
<1>7. CASE c.op \in {"object", "objectEnd", "merge", "usm", "usmEnd"}
    <2>1. \E u, t, k : /\ b = Stand({}, u, t, k)
                       /\ a.used \subseteq u /\ a.told \subseteq t /\ a.kept \subseteq k
        <3>1. CASE c.op = "object"
            BY <3>1 DEF Moves
        <3>2. CASE c.op = "objectEnd"
            BY <3>2 DEF Moves
        <3>3. CASE c.op = "merge"
            BY <3>3 DEF Moves
        <3>4. CASE c.op = "usm"
            BY <3>4 DEF Moves
        <3>5. CASE c.op = "usmEnd"
            BY <3>5 DEF Moves
        <3> QED BY <1>7, <3>1, <3>2, <3>3, <3>4, <3>5
    <2> QED BY <1>2, <2>1
<1>8. c.op \in {"look", "try", "fits", "open", "make", "encode", "run", "record", "drop", "hold",
                "object", "objectEnd", "merge", "usm", "usmEnd"}
    BY DEF Moves
<1> QED BY <1>3, <1>4, <1>5, <1>6, <1>7, <1>8

LEMMA PathOnward ==
    ASSUME NEW s \in Seq(Call), NEW p, Path(s, p), NEW i \in 0 .. Len(s), NEW j \in 0 .. Len(s),
           i <= j
    PROVE  Onward(p[i], p[j])
<1> DEFINE Good == {n \in Nat : i + n <= Len(s) => Onward(p[i], p[i + n])}
<1>1. 0 \in Good
    BY OnwardSelf
<1>2. ASSUME NEW n \in Nat, n \in Good PROVE n + 1 \in Good
    <2>1. SUFFICES ASSUME i + (n + 1) <= Len(s) PROVE Onward(p[i], p[i + (n + 1)])
        OBVIOUS
    <2>2. /\ i + n <= Len(s) /\ i + (n + 1) \in 1 .. Len(s) /\ (i + (n + 1)) - 1 = i + n
          /\ i + n \in 0 .. Len(s) /\ i + (n + 1) \in 0 .. Len(s)
        BY <2>1
    <2>3. Onward(p[i], p[i + n])
        BY <1>2, <2>2
    <2>4. Moves(s[i + (n + 1)], p[i + n], p[i + (n + 1)])
        BY <2>2, Along
    <2>5. Onward(p[i + n], p[i + (n + 1)])
        BY <2>2, <2>4, Along, MovesOnward
    <2> QED BY <2>3, <2>5, OnwardStill
<1> HIDE DEF Good
<1>3. j - i \in Good
    BY <1>1, <1>2, CountUp
<1>4. i + (j - i) = j
    OBVIOUS
<1> QED BY <1>3, <1>4 DEF Good

(* The files that a call writes.                                           *)
Outs(c) ==
    IF c.op \in {"make", "encode"} THEN {c.file} ELSE IF c.op = "run" THEN c.files ELSE {}

LEMMA OutsFresh ==
    ASSUME NEW c, NEW a \in Stands, NEW b \in Stands, Moves(c, a, b)
    PROVE  Outs(c) \subseteq b.used /\ Outs(c) \cap a.used = {} /\ Outs(c) \subseteq Names
<1>1. CASE c.op \in {"make", "encode", "run"}
    <2>1. Puts(Outs(c), a, b)
        BY <1>1 DEF Moves, Outs
    <2> QED BY <2>1, FitStand DEF Puts
<1>2. CASE c.op \notin {"make", "encode", "run"}
    BY <1>2 DEF Outs
<1> QED BY <1>1, <1>2

(* What a path says depends on the resource, not on where it stands.       *)
LEMMA MovesSame ==
    ASSUME UNCHANGED case, NEW CONSTANT c, NEW CONSTANT a, NEW CONSTANT b
    PROVE  Moves(c, a, b)' <=> Moves(c, a, b)
<1>1. Players' = Players
    BY DEF Players
<1>2. ASSUME NEW dir, NEW stem PROVE OfAudio(dir, stem)' = OfAudio(dir, stem)
    BY DEF OfAudio
<1>3. ASSUME NEW dir PROVE OfAcb(dir)' = OfAcb(dir)
    <2>1. ASSUME NEW n PROVE OfWave(dir, n)' = OfWave(dir, n)
        BY <1>2 DEF OfWave
    <2> QED BY <2>1 DEF OfAcb
<1>4. ASSUME NEW dir PROVE OfUsm(dir)' = OfUsm(dir)
    BY <1>2 DEF OfUsm
<1>5. ASSUME NEW stem PROVE OfImages(stem)' = OfImages(stem)
    BY DEF OfImages
<1>6. ASSUME NEW n PROVE OfObject(n)' = OfObject(n)
    BY <1>3, <1>5 DEF OfObject
<1> QED BY <1>1, <1>4, <1>6 DEF Moves

LEMMA PathSame ==
    ASSUME UNCHANGED case, NEW CONSTANT s, NEW CONSTANT p
    PROVE  Path(s, p)' <=> Path(s, p)
<1>1. ASSUME NEW CONSTANT i PROVE Moves(s[i], p[i - 1], p[i])' <=> Moves(s[i], p[i - 1], p[i])
    BY MovesSame
<1> QED BY <1>1 DEF Path

LEMMA PromisedSame ==
    ASSUME UNCHANGED case
    PROVE  Promised' = Promised /\ Players' = Players
<1>1. Players' = Players
    BY DEF Players
<1>2. ASSUME NEW dir, NEW stem PROVE OfAudio(dir, stem)' = OfAudio(dir, stem)
    BY DEF OfAudio
<1>3. ASSUME NEW dir PROVE OfAcb(dir)' = OfAcb(dir)
    <2>1. ASSUME NEW n PROVE OfWave(dir, n)' = OfWave(dir, n)
        BY <1>2 DEF OfWave
    <2> QED BY <2>1 DEF OfAcb
<1>4. ASSUME NEW dir PROVE OfUsm(dir)' = OfUsm(dir)
    BY <1>2 DEF OfUsm
<1>5. ASSUME NEW stem PROVE OfImages(stem)' = OfImages(stem)
    BY DEF OfImages
<1>6. ASSUME NEW n PROVE OfObject(n)' = OfObject(n)
    BY <1>3, <1>5 DEF OfObject
<1>7. OfCri' = OfCri
    BY <1>3, <1>4 DEF OfCri
<1> QED BY <1>1, <1>6, <1>7 DEF Promised

-----------------------------------------------------------------------------
(* The invariant.  While the resource is worked off, what is left to do is *)
(* a path from where it stands.                                            *)
Entry == [file : Names, pass : Marks]

FilesIn(fs) ==
    /\ DOMAIN fs \subseteq Names
    /\ fs = [f \in DOMAIN fs |-> fs[f]]
    /\ \A f \in DOMAIN fs : fs[f] \in [whole : BOOLEAN, pass : Marks]

Shape ==
    /\ case \in Cases
    /\ todo \in Seq(Call)
    /\ FilesIn(files)
    /\ outputs \in Seq(Entry)
    /\ held \in [bytes : Nat, objects : SUBSET Nat] /\ held.objects \subseteq Players
    /\ errors \subseteq 0 .. Len(case.objects)
    /\ pass \in Marks
    /\ media \in [at : Stops, retry : Nat, outs : SUBSET Names] /\ media.retry < Attempts
    /\ late \in BOOLEAN /\ cancelled \in BOOLEAN
    /\ fate \in {"working", "kept", "dropped"}

(* What is listed is there, once, and a directory is of one pass.          *)
Fitting == Total <= case.room

Once ==
    \A m, n \in 1 .. Len(outputs) :
        /\ outputs[m].file = outputs[n].file => m = n
        /\ outputs[m].file[1] = outputs[n].file[1] => outputs[m].pass = outputs[n].pass

There ==
    fate = "working" => \A n \in 1 .. Len(outputs) :
        /\ outputs[n].file \in DOMAIN files
        /\ files[outputs[n].file] = [whole |-> TRUE, pass |-> outputs[n].pass]

(* A command or an encoding is the one that the next call asked for.       *)
Driven == media.at # "off" =>
    /\ fate = "working" /\ todo # <<>>
    /\ todo[1].op \in {"run", "encode"} /\ media.outs = Outs(todo[1])

(* The files and the report at a stand.                                    *)
Here(a) ==
    /\ DOMAIN files \subseteq a.used /\ Recorded \subseteq a.told /\ held.objects \subseteq a.kept
    /\ \A f \in a.have : f \in DOMAIN files /\ files[f] = [whole |-> TRUE, pass |-> pass]
    /\ errors = {} => /\ Recorded = a.told /\ held.objects = a.kept
                      /\ DOMAIN files = Recorded \cup a.have

Aim(a) == errors = {} => a.have = {} /\ a.told = Promised

(* A pass over a USM: what it lists is its own, and it writes nothing else. *)
Alone(s, i) ==
    \A j \in 1 .. Len(s) : (s[j].op = "usmEnd" => j = i) /\ (s[j].op = "usm" => i < j)

Cut(start, dir) ==
    /\ start <= Len(outputs)
    /\ \A n \in 1 .. Len(outputs) :
         /\ n <= start => outputs[n].file[1] # dir
         /\ n > start => outputs[n].file[1] = dir /\ outputs[n].pass = pass

Aside(a, b, dir) ==
    /\ a.have \subseteq Within(dir)
    /\ b.used \subseteq a.used \cup Within(dir)
    /\ b.told \subseteq a.told \cup Within(dir)
    /\ b.kept \subseteq a.kept

Passing(s, i, p) ==
    /\ pass # "none" /\ Alone(s, i)
    /\ Cut(s[i].start, s[i].dir) /\ Aside(p[0], p[i - 1], s[i].dir)

Passes(s, p) ==
    /\ \A i \in 1 .. Len(s) : s[i].op = "usmEnd" => Passing(s, i, p)
    /\ (\A i \in 1 .. Len(s) : s[i].op # "usmEnd") => pass = "none" \/ s = <<>>

(* Nothing more comes to a directory of an earlier pass.                   *)
Shut(dir, a) == Within(dir) \subseteq a.used /\ Within(dir) \cap a.have = {}

Sealed(s, a) ==
    \A n \in 1 .. Len(outputs) :
        \/ outputs[n].pass = "none"
        \/ \E i \in 1 .. Len(s) : s[i].op = "usmEnd" /\ outputs[n].file[1] = s[i].dir
        \/ Shut(outputs[n].file[1], a)

OnWay(s, p) ==
    /\ s \in Seq(Call) /\ Path(s, p)
    /\ Here(p[0]) /\ Aim(p[Len(s)]) /\ Passes(s, p) /\ Sealed(s, p[0])

Going == fate = "working" => \E s, p : s = todo /\ OnWay(s, p)

ResourceIInv == Shape /\ Fitting /\ Once /\ There /\ Driven /\ Going /\ KeptIsReport

-----------------------------------------------------------------------------
(* The report grows by what waited.                                        *)
Grown(a) ==
    /\ Len(outputs) \in Nat /\ Len(outputs') \in Nat /\ Len(outputs) <= Len(outputs')
    /\ \A n \in 1 .. Len(outputs) : outputs'[n] = outputs[n]
    /\ \A n \in 1 .. Len(outputs') : n > Len(outputs) =>
          outputs'[n].pass = pass /\ outputs'[n].file \in a.have

LEMMA ShutOnward ==
    ASSUME NEW dir, NEW a, NEW b, Shut(dir, a), Onward(a, b)
    PROVE  Shut(dir, b)
BY DEF Shut, Onward

LEMMA AsideOnward ==
    ASSUME NEW dir, NEW a, NEW b, NEW c, Aside(a, c, dir), Onward(a, b), Onward(b, c),
           b.have \subseteq b.used
    PROVE  Aside(b, c, dir)
BY DEF Aside, Onward

LEMMA AloneTail ==
    ASSUME NEW s \in Seq(Call), s # <<>>, NEW t, Len(t) = Len(s) - 1,
           \A j \in 1 .. Len(s) - 1 : t[j] = s[j + 1], NEW i \in 1 .. Len(t), Alone(s, i + 1)
    PROVE  Alone(t, i)
<1>1. ASSUME NEW j \in 1 .. Len(t)
      PROVE  (t[j].op = "usmEnd" => j = i) /\ (t[j].op = "usm" => i < j)
    <2>1. j \in 1 .. Len(s) - 1 /\ j + 1 \in 1 .. Len(s) /\ t[j] = s[j + 1]
        OBVIOUS
    <2>2. (s[j + 1].op = "usmEnd" => j + 1 = i + 1) /\ (s[j + 1].op = "usm" => i + 1 < j + 1)
        BY <2>1 DEF Alone
    <2> QED BY <2>1, <2>2
<1> QED BY <1>1 DEF Alone

LEMMA CutGrown ==
    ASSUME NEW a, Grown(a), pass' = pass, NEW start \in Nat, NEW dir, Cut(start, dir),
           a.have \subseteq Within(dir)
    PROVE  Cut(start, dir)'
<1>1. ASSUME NEW n \in 1 .. Len(outputs')
      PROVE  /\ n <= start => outputs'[n].file[1] # dir
             /\ n > start => outputs'[n].file[1] = dir /\ outputs'[n].pass = pass
    <2>1. CASE n <= Len(outputs)
        BY <2>1 DEF Grown, Cut
    <2>2. CASE n > Len(outputs)
        <3>1. outputs'[n].pass = pass /\ outputs'[n].file \in Within(dir) /\ ~(n <= start)
            BY <2>2 DEF Grown, Cut
        <3> QED BY <3>1 DEF Within
    <2>3. n \in Nat /\ Len(outputs) \in Nat
        BY DEF Grown
    <2> QED BY <2>1, <2>2, <2>3
<1>2. start <= Len(outputs')
    BY DEF Cut, Grown
<1> QED BY <1>1, <1>2 DEF Cut

(* A call returns.                                                         *)
LEMMA PassesOn ==
    ASSUME NEW CONSTANT s \in Seq(Call), NEW CONSTANT p, Path(s, p), s # <<>>,
           NEW CONSTANT t \in Seq(Call), NEW CONSTANT q, Len(t) = Len(s) - 1,
           \A j \in 1 .. Len(s) - 1 : t[j] = s[j + 1],
           \A j \in 0 .. Len(s) - 1 : q[j] = p[j + 1],
           s[1].op # "usmEnd", Passes(s, p), Sealed(s, p[0]), Grown(p[0]), pass' = pass
    PROVE  Passes(t, q)' /\ Sealed(t, q[0])'
<1>1. Len(s) \in Nat \ {0} /\ Len(t) \in Nat /\ q[0] = p[1]
    OBVIOUS
<1>2. Onward(p[0], p[1])
    BY <1>1, PathOnward
<1>3. ASSUME NEW i \in 1 .. Len(s), s[i].op = "usmEnd"
      PROVE  i - 1 \in 1 .. Len(t) /\ t[i - 1] = s[i] /\ Passing(s, i, p)
    <2>1. i # 1
        BY <1>3
    <2>2. i - 1 \in 1 .. Len(s) - 1 /\ (i - 1) + 1 = i
        BY <2>1, <1>1
    <2>3. t[i - 1] = s[i]
        BY <2>2
    <2> QED BY <2>2, <2>3, <1>3 DEF Passes
<1>4. ASSUME NEW i \in 1 .. Len(t), t[i].op = "usmEnd" PROVE Passing(t, i, q)'
    <2>1. /\ i + 1 \in 1 .. Len(s) /\ t[i] = s[i + 1] /\ i - 1 \in 0 .. Len(s) - 1
          /\ (i + 1) - 1 = i /\ (i - 1) + 1 = i /\ i \in 0 .. Len(s)
        BY <1>1
    <2>2. Passing(s, i + 1, p)
        BY <1>3, <1>4, <2>1
    <2>3. Alone(t, i)
        BY <2>1, <2>2, AloneTail DEF Passing
    <2>4. s[i + 1].start \in Nat
        <3>1. s[i + 1] \in Call
            BY <2>1, Along
        <3> QED BY <3>1, <2>1, <1>4 DEF Call
    <2>5. Aside(p[0], p[i], t[i].dir) /\ Cut(t[i].start, t[i].dir)
        BY <2>1, <2>2 DEF Passing
    <2>6. Cut(t[i].start, t[i].dir)'
        <3>1. PICK start, dir : start \in Nat /\ start = t[i].start /\ dir = t[i].dir
            BY <2>1, <2>4
        <3>2. Cut(start, dir)'
            BY <2>5, <3>1, CutGrown DEF Aside
        <3> QED BY <3>1, <3>2
    <2>7. Aside(q[0], q[i - 1], t[i].dir)
        <3>1. q[i - 1] = p[i] /\ Onward(p[1], p[i])
            BY <2>1, <1>1, PathOnward
        <3>2. p[1] \in Stands
            BY <1>1, Along
        <3>3. p[1].have \subseteq p[1].used
            BY <3>2, StandOf
        <3> QED BY <1>1, <1>2, <2>5, <3>1, <3>3, AsideOnward
    <2>8. pass' # "none"
        BY <2>2 DEF Passing
    <2> QED BY <2>3, <2>6, <2>7, <2>8 DEF Passing
<1>5. ASSUME \A i \in 1 .. Len(t) : t[i].op # "usmEnd" PROVE pass' = "none"
    <2>1. \A i \in 1 .. Len(s) : s[i].op # "usmEnd"
        BY <1>3, <1>5
    <2> QED BY <2>1 DEF Passes
<1>6. Passes(t, q)'
    BY <1>4, <1>5 DEF Passes
<1>7. ASSUME NEW n \in 1 .. Len(outputs')
      PROVE  \/ outputs'[n].pass = "none"
             \/ \E i \in 1 .. Len(t) : t[i].op = "usmEnd" /\ outputs'[n].file[1] = t[i].dir
             \/ Shut(outputs'[n].file[1], q[0])
    <2>1. CASE n <= Len(outputs)
        <3>1. n \in 1 .. Len(outputs) /\ outputs'[n] = outputs[n]
            BY <2>1 DEF Grown
        <3>2. CASE Shut(outputs[n].file[1], p[0])
            BY <3>1, <3>2, <1>1, <1>2, ShutOnward
        <3>3. CASE \E i \in 1 .. Len(s) : s[i].op = "usmEnd" /\ outputs[n].file[1] = s[i].dir
            BY <3>1, <3>3, <1>3
        <3> QED BY <3>1, <3>2, <3>3 DEF Sealed
    <2>2. CASE n > Len(outputs)
        <3>1. outputs'[n].pass = pass /\ outputs'[n].file \in p[0].have
            BY <2>2 DEF Grown
        <3>2. CASE pass # "none"
            <4>1. PICK i \in 1 .. Len(s) : s[i].op = "usmEnd"
                BY <3>2 DEF Passes
            <4>2. i - 1 \in 1 .. Len(t) /\ t[i - 1] = s[i] /\ Passing(s, i, p)
                BY <1>3, <4>1
            <4>3. outputs'[n].file[1] = s[i].dir
                BY <3>1, <4>2 DEF Passing, Aside, Within
            <4> QED BY <4>1, <4>2, <4>3
        <3> QED BY <3>1, <3>2
    <2>3. n \in Nat /\ Len(outputs) \in Nat
        BY DEF Grown
    <2> QED BY <2>1, <2>2, <2>3
<1>8. Sealed(t, q[0])'
    BY <1>7 DEF Sealed
<1> QED BY <1>6, <1>8

LEMMA Arrives ==
    ASSUME NEW CONSTANT s, NEW CONSTANT p, s = todo, OnWay(s, p), s # <<>>, todo' = Tail(todo),
           UNCHANGED <<case, pass>>, s[1].op # "usmEnd", errors' = {} => errors = {},
           Grown(p[0]), Here(p[1])'
    PROVE  Going'
<1>1. s \in Seq(Call) /\ Path(s, p) /\ Aim(p[Len(s)]) /\ Passes(s, p) /\ Sealed(s, p[0])
    BY DEF OnWay
<1>2. PICK t : t = Tail(s)
    OBVIOUS
<1>3. /\ t \in Seq(Call) /\ Len(s) \in Nat \ {0} /\ Len(t) = Len(s) - 1
      /\ \A j \in 1 .. Len(s) - 1 : t[j] = s[j + 1]
    BY <1>1, <1>2, TailPath
<1>4. PICK q : Path(t, q) /\ \A j \in 0 .. Len(s) - 1 : q[j] = p[j + 1]
    <2>1. s \in Seq(Call) /\ Path(s, p)
        BY <1>1
    <2>2. \E q : Path(Tail(s), q) /\ \A j \in 0 .. Len(s) - 1 : q[j] = p[j + 1]
        BY <2>1, TailPath
    <2> QED BY <1>2, <2>2
<1>5. Passes(t, q)' /\ Sealed(t, q[0])'
    BY <1>1, <1>3, <1>4, PassesOn
<1>6. Path(t, q)'
    BY <1>4, PathSame
<1>7. q[0] = p[1] /\ q[Len(t)] = p[Len(s)]
    BY <1>3, <1>4
<1>8. Here(q[0])'
    BY <1>7
<1>9. Aim(q[Len(t)])'
    <2>1. Promised' = Promised
        BY PromisedSame
    <2> QED BY <1>1, <1>7, <2>1 DEF Aim
<1>10. OnWay(t, q)'
    BY <1>3, <1>5, <1>6, <1>8, <1>9 DEF OnWay
<1>11. t = todo'
    BY <1>2
<1> QED BY <1>10, <1>11 DEF Going

(* What each kind of call does to the stand.                               *)
LEMMA HereIdle ==
    ASSUME NEW CONSTANT a, Here(a), UNCHANGED <<files, outputs, held, pass>>,
           errors' = {} => errors = {}
    PROVE  Here(a)'
BY DEF Here, Recorded

LEMMA HerePut ==
    ASSUME NEW CONSTANT fs, NEW CONSTANT a \in Stands, NEW CONSTANT b \in Stands, Puts(fs, a, b),
           Here(a), files' = Written(fs, TRUE), UNCHANGED <<outputs, held, errors, pass>>
    PROVE  Here(b)'
<1>1. /\ b.have = a.have \cup fs /\ b.used = a.used \cup fs /\ b.told = a.told /\ b.kept = a.kept
      /\ fs \cap a.used = {}
    BY FitStand DEF Puts
<1>2. DOMAIN files' = DOMAIN files \cup fs
    BY DEF Written
<1>3. \A f \in fs : files'[f] = [whole |-> TRUE, pass |-> pass]
    BY DEF Written
<1>4. \A f \in DOMAIN files \ fs : files'[f] = files[f]
    BY DEF Written
<1>5. a.have \cap fs = {}
    BY <1>1, StandOf
<1>6. Recorded' = Recorded
    BY DEF Recorded
<1>7. \A f \in b.have : f \in DOMAIN files' /\ files'[f] = [whole |-> TRUE, pass |-> pass']
    BY <1>1, <1>2, <1>3, <1>4, <1>5 DEF Here
<1>8. DOMAIN files' \subseteq b.used /\ Recorded' \subseteq b.told /\ held'.objects \subseteq b.kept
    BY <1>1, <1>2, <1>6 DEF Here
<1>9. errors' = {} => /\ Recorded' = b.told /\ held'.objects = b.kept
                      /\ DOMAIN files' = Recorded' \cup b.have
    BY <1>1, <1>2, <1>6 DEF Here
<1> QED BY <1>7, <1>8, <1>9 DEF Here

LEMMA HereRecord ==
    ASSUME NEW CONSTANT f, NEW CONSTANT a \in Stands, NEW CONSTANT b \in Stands,
           f \in a.have, b = Stand(a.have \ {f}, a.used, a.told \cup {f}, a.kept),
           Here(a), Recorded' = Recorded \cup {f}, UNCHANGED <<files, held, errors, pass>>
    PROVE  Here(b)'
<1>1. b.have = a.have \ {f} /\ b.used = a.used /\ b.told = a.told \cup {f} /\ b.kept = a.kept
    BY FitStand
<1>2. \A g \in b.have : g \in DOMAIN files' /\ files'[g] = [whole |-> TRUE, pass |-> pass']
    BY <1>1 DEF Here
<1>3. DOMAIN files' \subseteq b.used /\ Recorded' \subseteq b.told /\ held'.objects \subseteq b.kept
    BY <1>1 DEF Here
<1>4. errors' = {} => /\ Recorded' = b.told /\ held'.objects = b.kept
                      /\ DOMAIN files' = Recorded' \cup b.have
    BY <1>1 DEF Here
<1> QED BY <1>2, <1>3, <1>4 DEF Here

LEMMA HereDrop ==
    ASSUME NEW CONSTANT f, NEW CONSTANT a \in Stands, NEW CONSTANT b \in Stands,
           f \in a.have, b = Stand(a.have \ {f}, a.used, a.told, a.kept),
           Here(a), files' = Without({f}), UNCHANGED <<outputs, held, errors, pass>>
    PROVE  Here(b)'
<1>1. b.have = a.have \ {f} /\ b.used = a.used /\ b.told = a.told /\ b.kept = a.kept
    BY FitStand
<1>2. DOMAIN files' = DOMAIN files \ {f} /\ \A g \in DOMAIN files \ {f} : files'[g] = files[g]
    BY DEF Without
<1>3. Recorded' = Recorded
    BY DEF Recorded
<1>4. \A g \in b.have : g \in DOMAIN files' /\ files'[g] = [whole |-> TRUE, pass |-> pass']
    BY <1>1, <1>2 DEF Here
<1>5. DOMAIN files' \subseteq b.used /\ Recorded' \subseteq b.told /\ held'.objects \subseteq b.kept
    BY <1>1, <1>2, <1>3 DEF Here
<1>6. errors' = {} => /\ Recorded' = b.told /\ held'.objects = b.kept
                      /\ DOMAIN files' = Recorded' \cup b.have
    <2>1. f \notin a.told
        BY StandOf
    <2> QED BY <1>1, <1>2, <1>3, <2>1 DEF Here
<1> QED BY <1>4, <1>5, <1>6 DEF Here

LEMMA HereHold ==
    ASSUME NEW CONSTANT n, NEW CONSTANT a \in Stands, NEW CONSTANT b \in Stands,
           b = Stand(a.have, a.used, a.told, a.kept \cup {n}), Here(a),
           held'.objects = held.objects \cup {n}, UNCHANGED <<files, outputs, errors, pass>>
    PROVE  Here(b)'
<1>1. b.have = a.have /\ b.used = a.used /\ b.told = a.told /\ b.kept = a.kept \cup {n}
    BY FitStand
<1>2. Recorded' = Recorded
    BY DEF Recorded
<1>3. held'.objects = held.objects \cup {n}
    OBVIOUS
<1> QED BY <1>1, <1>2, <1>3 DEF Here

(* A stand where no file waits and more is counted as used.                *)
LEMMA HereUsed ==
    ASSUME NEW CONSTANT a \in Stands, NEW CONSTANT b \in Stands, a.have = {}, b.have = {},
           a.used \subseteq b.used, b.told = a.told, b.kept = a.kept, Here(a),
           UNCHANGED <<files, outputs, held>>, errors' = {} => errors = {}
    PROVE  Here(b)'
BY DEF Here, Recorded

-----------------------------------------------------------------------------
LEMMA CaseIn == ASSUME Shape PROVE case \in Case /\ IsInjective(case.images)
BY CasesAssumption DEF Shape

LEMMA WrittenIn ==
    ASSUME FilesIn(files), pass \in Marks, NEW fs \in SUBSET Names, NEW whole \in BOOLEAN
    PROVE  /\ FilesIn(Written(fs, whole))
           /\ DOMAIN Written(fs, whole) = DOMAIN files \cup fs
           /\ \A f \in fs : Written(fs, whole)[f] = [whole |-> whole, pass |-> pass]
           /\ \A f \in DOMAIN files \ fs : Written(fs, whole)[f] = files[f]
<1>1. PICK w : w = Written(fs, whole)
    OBVIOUS
<1>2. /\ DOMAIN w = DOMAIN files \cup fs
      /\ w = [f \in DOMAIN w |-> w[f]]
      /\ \A f \in fs : w[f] = [whole |-> whole, pass |-> pass]
      /\ \A f \in DOMAIN files \ fs : w[f] = files[f]
    BY <1>1 DEF Written
<1>3. [whole |-> whole, pass |-> pass] \in [whole : BOOLEAN, pass : Marks]
    OBVIOUS
<1>4. \A f \in DOMAIN w : f \in Names /\ w[f] \in [whole : BOOLEAN, pass : Marks]
    BY <1>2, <1>3 DEF FilesIn
<1>5. FilesIn(w)
    BY <1>2, <1>4 DEF FilesIn
<1> QED BY <1>1, <1>2, <1>5

LEMMA WithoutIn ==
    ASSUME FilesIn(files), NEW fs
    PROVE  /\ FilesIn(Without(fs)) /\ DOMAIN Without(fs) = DOMAIN files \ fs
           /\ \A f \in DOMAIN files \ fs : Without(fs)[f] = files[f]
<1>1. PICK w : w = Without(fs)
    OBVIOUS
<1>2. /\ DOMAIN w = DOMAIN files \ fs /\ w = [f \in DOMAIN w |-> w[f]]
      /\ \A f \in DOMAIN files \ fs : w[f] = files[f]
    BY <1>1 DEF Without
<1>3. FilesIn(w)
    BY <1>2 DEF FilesIn
<1> QED BY <1>1, <1>2, <1>3

LEMMA WithoutNone ==
    ASSUME FilesIn(files), NEW fs, fs \cap DOMAIN files = {}
    PROVE  Without(fs) = files
<1>1. DOMAIN files \ fs = DOMAIN files
    OBVIOUS
<1> QED BY <1>1 DEF Without, FilesIn

(* The call at hand and the stands before and after it.                    *)
LEMMA AtCall ==
    ASSUME ResourceIInv, fate = "working", todo # <<>>
    PROVE  \E s, p : /\ s = todo /\ OnWay(s, p) /\ s # <<>> /\ Head(todo) = s[1] /\ s[1] \in Call
                     /\ p[0] \in Stands /\ p[1] \in Stands /\ Moves(s[1], p[0], p[1])
                     /\ Here(p[0]) /\ s \in Seq(Call) /\ Len(s) \in Nat \ {0}
<1>1. PICK s, p : s = todo /\ OnWay(s, p)
    BY DEF ResourceIInv, Going
<1>2. s \in Seq(Call) /\ Path(s, p) /\ Here(p[0]) /\ s # <<>>
    BY <1>1 DEF OnWay
<1>3. s[1] \in Call /\ Len(s) \in Nat \ {0} /\ Head(s) = s[1]
    BY <1>2
<1>4. p[0] \in Stands /\ p[1] \in Stands /\ Moves(s[1], p[1 - 1], p[1])
    BY <1>2, <1>3, Along
<1>5. 1 - 1 = 0
    OBVIOUS
<1>6. Moves(s[1], p[0], p[1])
    BY <1>4, <1>5
<1> QED BY <1>1, <1>2, <1>3, <1>4, <1>6

LEMMA ReportSame ==
    ASSUME UNCHANGED <<case, outputs>>, Fitting, Once
    PROVE  Fitting' /\ Once' /\ Recorded' = Recorded
<1>1. Total' = Total
    BY DEF Total
<1> QED BY <1>1 DEF Fitting, Once, Recorded

LEMMA SameGrown ==
    ASSUME Shape, UNCHANGED outputs, NEW a
    PROVE  Grown(a)
<1>1. Len(outputs) \in Nat
    BY DEF Shape
<1> QED BY <1>1 DEF Grown

LEMMA Settles ==
    ASSUME Shape', Fitting', Once', There', Going', fate' = "working",
           media'.at = "off"
    PROVE  ResourceIInv'
BY DEF ResourceIInv, Driven, KeptIsReport

(* A call that returned and left the files and the report as they were.    *)
LEMMA QuietReturn ==
    ASSUME ResourceIInv, fate = "working", NEW CONSTANT s, NEW CONSTANT p, s = todo, OnWay(s, p),
           s # <<>>, todo' = Tail(todo),
           UNCHANGED <<case, files, outputs, pass, late, cancelled, fate>>,
           (media' = media /\ media.at = "off") \/ media' = Quiet,
           s[1].op # "usmEnd", errors' = {} => errors = {},
           errors' \subseteq 0 .. Len(case.objects),
           held' \in [bytes : Nat, objects : SUBSET Nat] /\ held'.objects \subseteq Players,
           Here(p[1])'
    PROVE  ResourceIInv'
<1>1. Shape /\ Fitting /\ Once /\ There
    BY DEF ResourceIInv
<1>2. Fitting' /\ Once'
    BY <1>1, ReportSame
<1>3. There'
    BY <1>1 DEF There
<1>4. Going'
    BY <1>1, SameGrown, Arrives
<1>5. media'.at = "off" /\ media' \in [at : Stops, retry : Nat, outs : SUBSET Names]
      /\ media'.retry < Attempts
    BY <1>1, CasesAssumption DEF Shape, Quiet, Stops
<1>6. Shape'
    <2>1. todo' \in Seq(Call)
        BY <1>1 DEF Shape
    <2>2. Players' = Players
        BY PromisedSame
    <2> QED BY <1>1, <1>5, <2>1, <2>2 DEF Shape
<1> QED BY <1>2, <1>3, <1>4, <1>5, <1>6, Settles

(* A call that returned with new files.                                    *)
LEMMA FilesReturn ==
    ASSUME ResourceIInv, fate = "working", NEW CONSTANT s, NEW CONSTANT p, s = todo, OnWay(s, p),
           s # <<>>, todo' = Tail(todo),
           UNCHANGED <<case, outputs, held, errors, pass, late, cancelled, fate>>,
           (media' = media /\ media.at = "off") \/ media' = Quiet,
           s[1].op # "usmEnd", Here(p[1])', FilesIn(files'), There'
    PROVE  ResourceIInv'
<1>1. Shape /\ Fitting /\ Once
    BY DEF ResourceIInv
<1>2. Fitting' /\ Once'
    BY <1>1, ReportSame
<1>4. Going'
    BY <1>1, SameGrown, Arrives
<1>5. media'.at = "off" /\ media' \in [at : Stops, retry : Nat, outs : SUBSET Names]
      /\ media'.retry < Attempts
    BY <1>1, CasesAssumption DEF Shape, Quiet, Stops
<1>6. Shape'
    <2>1. todo' \in Seq(Call)
        BY <1>1 DEF Shape
    <2>2. Players' = Players
        BY PromisedSame
    <2> QED BY <1>1, <1>5, <2>1, <2>2 DEF Shape
<1> QED BY <1>2, <1>4, <1>5, <1>6, Settles

(* Files that were never there before.                                     *)
LEMMA PutReturn ==
    ASSUME ResourceIInv, fate = "working", NEW CONSTANT s, NEW CONSTANT p, s = todo, OnWay(s, p),
           s # <<>>, NEW CONSTANT fs, Puts(fs, p[0], p[1]), files' = Written(fs, TRUE),
           todo' = Tail(todo), UNCHANGED <<case, outputs, held, errors, pass, late, cancelled, fate>>,
           (media' = media /\ media.at = "off") \/ media' = Quiet, s[1].op # "usmEnd",
           p[0] \in Stands, p[1] \in Stands
    PROVE  ResourceIInv'
<1>1. Shape /\ There /\ Here(p[0])
    BY DEF ResourceIInv, OnWay
<1>2. fs \in SUBSET Names /\ fs \cap DOMAIN files = {}
    BY <1>1 DEF Puts, Here
<1>3. /\ FilesIn(files') /\ DOMAIN files' = DOMAIN files \cup fs
      /\ \A f \in DOMAIN files \ fs : files'[f] = files[f]
    <2>1. FilesIn(files) /\ pass \in Marks /\ TRUE \in BOOLEAN
        BY <1>1 DEF Shape
    <2> QED BY <1>2, <2>1, WrittenIn
<1>4. There'
    BY <1>1, <1>2, <1>3 DEF There
<1>5. Here(p[1])'
    BY <1>1, HerePut
<1> QED BY <1>3, <1>4, <1>5, FilesReturn

-----------------------------------------------------------------------------
(* The report and its sum.                                                 *)
LEMMA TotalAppend ==
    ASSUME SizesAssumption, Shape, NEW CONSTANT f \in Names, NEW e \in Entry, e.file = f,
           outputs' = Append(outputs, e)
    PROVE  Total' = Total + Size(f)
<1>1. PICK m \in Nat : m = Len(outputs) /\ DOMAIN outputs = 1 .. m
    BY DEF Shape
<1>2. /\ outputs' \in Seq(Entry) /\ DOMAIN outputs' = 1 .. m + 1
      /\ outputs'[m + 1] = e /\ \A n \in 1 .. m : outputs'[n] = outputs[n]
      /\ \A n \in 1 .. m : outputs[n] \in Entry
    BY <1>1 DEF Shape
<1>3. PICK W : W = [n \in DOMAIN outputs |-> Size(outputs[n].file)]
    OBVIOUS
<1>4. PICK V : V = [n \in DOMAIN outputs' |-> Size(outputs'[n].file)]
    OBVIOUS
<1>5. /\ \A n \in 1 .. m : W[n] \in Nat /\ V[n] = W[n]
      /\ V[m + 1] = Size(f)
    <2>1. \A n \in 1 .. m : n \in 1 .. m + 1
        BY <1>1
    <2>2. ASSUME NEW n \in 1 .. m PROVE W[n] \in Nat /\ V[n] = W[n]
        <3>1. outputs[n].file \in Names
            BY <1>2 DEF Entry
        <3> QED BY <1>1, <1>2, <1>3, <1>4, <2>1, <3>1 DEF SizesAssumption
    <2>3. V[m + 1] = Size(f)
        BY <1>1, <1>2, <1>4
    <2> QED BY <2>2, <2>3
<1>6. Size(f) \in Nat
    BY DEF SizesAssumption
<1>7. IsFiniteSet(1 .. m) /\ m + 1 \notin 1 .. m /\ (1 .. m) \cup {m + 1} = 1 .. m + 1
    <2>1. IsFiniteSet(1 .. m)
        BY FS_Interval
    <2>2. m + 1 \notin 1 .. m /\ (1 .. m) \cup {m + 1} = 1 .. m + 1
        OBVIOUS
    <2> QED BY <2>1, <2>2
<1>8. SumFunctionOnSet(V, (1 .. m) \cup {m + 1}) = SumFunctionOnSet(V, 1 .. m) + V[m + 1]
    <2>1. PICK S, x : S = 1 .. m /\ x = m + 1
        OBVIOUS
    <2>2. \A y \in S \cup {x} : V[y] \in Int
        BY <1>5, <1>6, <2>1
    <2>3. IsFiniteSet(S) /\ x \notin S
        BY <1>7, <2>1
    <2>4. SumFunctionOnSet(V, S \cup {x}) = SumFunctionOnSet(V, S) + V[x]
        BY <2>2, <2>3, SumAdd
    <2> QED BY <2>1, <2>4
<1>9. SumFunctionOnSet(V, 1 .. m) = SumFunctionOnSet(W, 1 .. m)
    BY <1>5, <1>7, SumSame
<1>10. Total = SumFunctionOnSet(W, 1 .. m)
    BY <1>1, <1>3 DEF Total
<1>11. Total' = SumFunctionOnSet(V, 1 .. m + 1)
    BY <1>2, <1>4 DEF Total
<1> QED BY <1>5, <1>7, <1>8, <1>9, <1>10, <1>11

(* What waits is of the pass that its directory is in.                     *)
LEMMA SamePass ==
    ASSUME Shape, NEW s, NEW p, OnWay(s, p), s # <<>>, p[0] \in Stands,
           NEW f \in p[0].have, NEW n \in 1 .. Len(outputs), outputs[n].file[1] = f[1]
    PROVE  outputs[n].pass = pass
<1>1. s \in Seq(Call) /\ Passes(s, p) /\ Sealed(s, p[0])
    BY DEF OnWay
<1>2. CASE \E i \in 1 .. Len(s) : s[i].op = "usmEnd"
    <2>1. PICK i \in 1 .. Len(s) : s[i].op = "usmEnd"
        BY <1>2
    <2>2. Cut(s[i].start, s[i].dir) /\ p[0].have \subseteq Within(s[i].dir)
        BY <1>1, <2>1 DEF Passes, Passing, Aside
    <2>3. s[i].start \in Nat
        <3>1. s[i] \in Call
            BY <1>1
        <3> QED BY <2>1, <3>1 DEF Call
    <2>4. f[1] = s[i].dir
        BY <2>2 DEF Within
    <2>5. n > s[i].start
        BY <2>2, <2>3, <2>4 DEF Cut
    <2> QED BY <2>2, <2>5 DEF Cut
<1>3. CASE \A i \in 1 .. Len(s) : s[i].op # "usmEnd"
    <2>1. pass = "none"
        BY <1>1, <1>3 DEF Passes
    <2>2. outputs[n].pass = "none" \/ Shut(f[1], p[0])
        BY <1>1, <1>3 DEF Sealed
    <2>3. f \in Within(f[1])
        <3>1. p[0].have \subseteq Names
            BY StandOf
        <3> QED BY <3>1 DEF Within
    <2>4. ~Shut(f[1], p[0])
        BY <2>3 DEF Shut
    <2> QED BY <2>1, <2>2, <2>4
<1> QED BY <1>2, <1>3

LEMMA RecordReturn ==
    ASSUME SizesAssumption, ResourceIInv, fate = "working", NEW CONSTANT s, NEW CONSTANT p,
           s = todo, OnWay(s, p), s # <<>>, p[0] \in Stands, p[1] \in Stands,
           NEW CONSTANT f \in p[0].have, s[1].op = "record",
           p[1] = Stand(p[0].have \ {f}, p[0].used, p[0].told \cup {f}, p[0].kept),
           HasRoom(f), outputs' = Append(outputs, [file |-> f, pass |-> pass]),
           todo' = Tail(todo), media.at = "off",
           UNCHANGED <<case, files, held, errors, pass, media, late, cancelled, fate>>
    PROVE  ResourceIInv'
<1>1. Shape /\ Fitting /\ Once /\ There /\ Here(p[0])
    BY DEF ResourceIInv, OnWay
<1>2. PICK e : e = [file |-> f, pass |-> pass]
    OBVIOUS
<1>3. f \in Names /\ e \in Entry /\ e.file = f /\ e.pass = pass
    <2>1. f \in Names
        BY StandOf
    <2> QED BY <1>1, <1>2, <2>1 DEF Entry, Shape
<1>4. PICK m \in Nat : m = Len(outputs)
    BY <1>1 DEF Shape
<1>5. /\ outputs' \in Seq(Entry) /\ Len(outputs') = m + 1
      /\ outputs'[m + 1] = e /\ \A n \in 1 .. m : outputs'[n] = outputs[n]
    BY <1>1, <1>2, <1>3, <1>4 DEF Shape
<1>6. Fitting'
    <2>1. Total' = Total + Size(f)
        BY <1>1, <1>2, <1>3, TotalAppend
    <2> QED BY <2>1 DEF Fitting, HasRoom
<1>7. Recorded = {outputs[n].file : n \in 1 .. m} /\ Recorded' = Recorded \cup {f}
    <2>1. DOMAIN outputs = 1 .. m /\ DOMAIN outputs' = (1 .. m) \cup {m + 1}
        BY <1>1, <1>4, <1>5 DEF Shape
    <2> QED BY <1>3, <1>5, <2>1 DEF Recorded
<1>8. f \notin Recorded
    <2>1. f \notin p[0].told
        BY StandOf
    <2> QED BY <1>1, <2>1 DEF Here
<1>9. ASSUME NEW n \in 1 .. m PROVE outputs[n].file # f /\ (outputs[n].file[1] = f[1] => outputs[n].pass = pass)
    <2>1. outputs[n].file # f
        BY <1>7, <1>8
    <2> QED BY <1>1, <1>4, <2>1, SamePass
<1>10. \A n \in 1 .. m + 1 : n \in 1 .. m \/ n = m + 1
    BY <1>4
<1>11. Once'
    <2>1. ASSUME NEW i \in 1 .. m + 1, NEW j \in 1 .. m + 1
          PROVE  /\ outputs'[i].file = outputs'[j].file => i = j
                 /\ outputs'[i].file[1] = outputs'[j].file[1] => outputs'[i].pass = outputs'[j].pass
        <3>1. CASE i \in 1 .. m /\ j \in 1 .. m
            <4>1. outputs'[i] = outputs[i] /\ outputs'[j] = outputs[j]
                BY <1>5, <3>1
            <4>2. i \in 1 .. Len(outputs) /\ j \in 1 .. Len(outputs)
                BY <1>4, <3>1
            <4> QED BY <1>1, <4>1, <4>2 DEF Once
        <3>2. CASE i \in 1 .. m /\ j = m + 1
            BY <1>3, <1>5, <1>9, <3>2
        <3>3. CASE i = m + 1 /\ j \in 1 .. m
            BY <1>3, <1>5, <1>9, <3>3
        <3>4. CASE i = m + 1 /\ j = m + 1
            BY <3>4
        <3> QED BY <1>10, <3>1, <3>2, <3>3, <3>4
    <2> QED BY <1>5, <2>1 DEF Once
<1>12. There'
    <2>1. ASSUME NEW n \in 1 .. m + 1
          PROVE  /\ outputs'[n].file \in DOMAIN files
                 /\ files[outputs'[n].file] = [whole |-> TRUE, pass |-> outputs'[n].pass]
        <3>1. CASE n \in 1 .. m
            BY <1>1, <1>4, <1>5, <3>1 DEF There
        <3>2. CASE n = m + 1
            BY <1>1, <1>3, <1>5, <3>2 DEF Here
        <3> QED BY <1>10, <3>1, <3>2
    <2> QED BY <1>5, <2>1 DEF There
<1>13. Grown(p[0])
    <2>1. ASSUME NEW n \in 1 .. m + 1, n > m
          PROVE  outputs'[n].pass = pass /\ outputs'[n].file \in p[0].have
        <3>1. n = m + 1
            BY <1>10, <2>1
        <3> QED BY <1>3, <1>5, <3>1
    <2> QED BY <1>4, <1>5, <2>1 DEF Grown
<1>14. Here(p[1])'
    BY <1>1, <1>7, HereRecord
<1>15. Going'
    BY <1>13, <1>14, Arrives
<1>16. Shape'
    <2>1. todo' \in Seq(Call)
        BY <1>1 DEF Shape
    <2>2. Players' = Players
        BY PromisedSame
    <2> QED BY <1>1, <1>5, <2>1, <2>2 DEF Shape
<1> QED BY <1>6, <1>11, <1>12, <1>15, <1>16, Settles

LEMMA DropReturn ==
    ASSUME ResourceIInv, fate = "working", NEW CONSTANT s, NEW CONSTANT p, s = todo, OnWay(s, p),
           s # <<>>, p[0] \in Stands, p[1] \in Stands, NEW CONSTANT f \in p[0].have,
           p[1] = Stand(p[0].have \ {f}, p[0].used, p[0].told, p[0].kept),
           s[1].op = "drop", files' = Without({f}), todo' = Tail(todo), media.at = "off",
           UNCHANGED <<case, outputs, held, errors, pass, media, late, cancelled, fate>>
    PROVE  ResourceIInv'
<1>1. Shape /\ There /\ Here(p[0])
    BY DEF ResourceIInv, OnWay
<1>2. /\ FilesIn(files') /\ DOMAIN files' = DOMAIN files \ {f}
      /\ \A g \in DOMAIN files \ {f} : files'[g] = files[g]
    BY <1>1, WithoutIn DEF Shape
<1>3. f \notin Recorded
    <2>1. f \notin p[0].told
        BY StandOf
    <2> QED BY <1>1, <2>1 DEF Here
<1>4. \A n \in 1 .. Len(outputs) : outputs[n].file # f
    <2>1. DOMAIN outputs = 1 .. Len(outputs)
        BY <1>1 DEF Shape
    <2> QED BY <1>3, <2>1 DEF Recorded
<1>5. There'
    BY <1>1, <1>2, <1>4 DEF There
<1>6. Here(p[1])'
    BY <1>1, HereDrop
<1> QED BY <1>2, <1>5, <1>6, FilesReturn

(* The end of a pass over a USM.                                           *)
LEMMA UsmEndReturn ==
    ASSUME ResourceIInv, fate = "working", NEW CONSTANT s, NEW CONSTANT p, s = todo, OnWay(s, p),
           s # <<>>, p[0] \in Stands, p[1] \in Stands, s[1] \in Call, Moves(s[1], p[0], p[1]),
           s[1].op = "usmEnd", todo' = Tail(todo), pass' = "none", media.at = "off",
           UNCHANGED <<case, files, outputs, held, errors, media, late, cancelled, fate>>
    PROVE  ResourceIInv'
<1>1. /\ Shape /\ Fitting /\ Once /\ There
      /\ s \in Seq(Call) /\ Path(s, p) /\ Here(p[0]) /\ Aim(p[Len(s)]) /\ Passes(s, p)
      /\ Sealed(s, p[0])
    BY DEF ResourceIInv, OnWay
<1>2. PICK dir : dir = s[1].dir
    OBVIOUS
<1>3. /\ p[0].have = {} /\ p[1] = Stand({}, p[0].used \cup Within(dir), p[0].told, p[0].kept)
    BY <1>2 DEF Moves
<1>4. /\ p[1].have = {} /\ p[1].used = p[0].used \cup Within(dir) /\ p[1].told = p[0].told
      /\ p[1].kept = p[0].kept
    BY <1>3, FitStand
<1>5. Here(p[1])'
    <2>1. p[0].used \subseteq p[1].used
        BY <1>4
    <2>2. DOMAIN files' \subseteq p[1].used
        BY <1>1, <2>1 DEF Here
    <2>3. Recorded' = Recorded
        BY DEF Recorded
    <2>4. p[0].have = {} /\ Here(p[0])
        BY <1>1, <1>3
    <2> QED BY <1>4, <2>2, <2>3, <2>4 DEF Here
<1>6. PICK t : t = Tail(s)
    OBVIOUS
<1>7. /\ t \in Seq(Call) /\ Len(s) \in Nat \ {0} /\ Len(t) = Len(s) - 1
      /\ \A j \in 1 .. Len(s) - 1 : t[j] = s[j + 1]
    BY <1>1, <1>6, TailPath
<1>8. PICK q : Path(t, q) /\ \A j \in 0 .. Len(s) - 1 : q[j] = p[j + 1]
    BY <1>1, <1>6, TailPath
<1>9. q[0] = p[1] /\ q[Len(t)] = p[Len(s)]
    BY <1>7, <1>8
<1>10. Alone(s, 1) /\ 1 \in 1 .. Len(s)
    BY <1>1, <1>7 DEF Passes, Passing
<1>11. \A j \in 1 .. Len(t) : t[j].op # "usmEnd"
    <2>1. ASSUME NEW j \in 1 .. Len(t), t[j].op = "usmEnd" PROVE FALSE
        <3>1. j + 1 \in 1 .. Len(s) /\ t[j] = s[j + 1] /\ j + 1 # 1
            BY <1>7
        <3> QED BY <1>10, <2>1, <3>1 DEF Alone
    <2> QED BY <2>1
<1>12. Passes(t, q)'
    BY <1>11 DEF Passes
<1>13. Sealed(t, q[0])'
    <2>1. ASSUME NEW n \in 1 .. Len(outputs)
          PROVE  outputs[n].pass = "none" \/ Shut(outputs[n].file[1], p[1])
        <3>1. CASE Shut(outputs[n].file[1], p[0])
            BY <1>4, <3>1 DEF Shut
        <3>2. CASE \E i \in 1 .. Len(s) : s[i].op = "usmEnd" /\ outputs[n].file[1] = s[i].dir
            <4>1. outputs[n].file[1] = dir
                BY <1>2, <1>10, <3>2 DEF Alone
            <4> QED BY <1>4, <4>1 DEF Shut
        <3> QED BY <1>1, <3>1, <3>2 DEF Sealed
    <2> QED BY <1>9, <2>1 DEF Sealed
<1>14. Path(t, q)'
    BY <1>8, PathSame
<1>15. Aim(q[Len(t)])'
    <2>1. Promised' = Promised
        BY PromisedSame
    <2> QED BY <1>1, <1>9, <2>1 DEF Aim
<1>16. OnWay(t, q)'
    BY <1>5, <1>7, <1>9, <1>12, <1>13, <1>14, <1>15 DEF OnWay
<1>17. Going'
    <2>1. t = todo'
        BY <1>6
    <2> QED BY <1>16, <2>1 DEF Going
<1>18. Fitting' /\ Once'
    BY <1>1, ReportSame
<1>19. There'
    BY <1>1 DEF There
<1>20. Shape'
    <2>1. todo' \in Seq(Call) /\ "none" \in Marks
        BY <1>1 DEF Shape, Marks
    <2>2. Players' = Players
        BY PromisedSame
    <2> QED BY <1>1, <2>1, <2>2 DEF Shape
<1> QED BY <1>17, <1>18, <1>19, <1>20, Settles

-----------------------------------------------------------------------------
(* What a pass over a USM consists of.                                     *)
Leaves == {c \in Call : c.op \notin {"usm", "usmEnd"}}

LEMMA LeavesIn ==
    /\ \A class \in {"decode", "other"} : Try(class) \in Leaves
    /\ \A f \in Names : {Make(f), Record(f), Drop(f), Encode(f)} \subseteq Leaves
    /\ \A fs \in SUBSET Names : Run(fs) \in Leaves
<1>1. ASSUME NEW class \in {"decode", "other"} PROVE Try(class) \in Leaves
    BY CallsIn DEF Leaves, Try
<1>2. ASSUME NEW f \in Names PROVE {Make(f), Record(f), Drop(f), Encode(f)} \subseteq Leaves
    <2>1. {Make(f), Record(f), Drop(f), Encode(f)} \subseteq Call
        BY CallsIn
    <2>2. Make(f).op = "make" /\ Record(f).op = "record" /\ Drop(f).op = "drop"
          /\ Encode(f).op = "encode"
        BY DEF Make, Record, Drop, Encode
    <2> QED BY <2>1, <2>2 DEF Leaves
<1>3. ASSUME NEW fs \in SUBSET Names PROVE Run(fs) \in Leaves
    <2>1. Run(fs) \in Call /\ Run(fs).op = "run"
        BY CallsIn DEF Run
    <2> QED BY <2>1 DEF Leaves
<1> QED BY <1>1, <1>2, <1>3

LEMMA SeqJoin ==
    ASSUME NEW S, NEW s \in Seq(S), NEW t \in Seq(S)
    PROVE  s \o t \in Seq(S)
BY ConcatProperties

LEMMA AudioLeaves ==
    ASSUME NEW dir \in Dirs, NEW stem \in Stems
    PROVE  RecordAudio(dir, stem) \in Seq(Leaves)
<1>1. PICK wav, mp3, flac \in Names :
         wav = <<dir, stem, "wav">> /\ mp3 = <<dir, stem, "mp3">> /\ flac = <<dir, stem, "flac">>
    BY NameIn DEF Extensions
<1>2. PICK a, b, c, d, e :
         /\ a = (IF "mp3" \in case.audio
                 THEN <<Try("other"), Encode(mp3), Run({}), Try("other")>> ELSE <<>>)
         /\ b = (IF "wav" \in case.audio \/ "flac" \notin case.audio THEN <<Record(wav)>> ELSE <<>>)
         /\ c = (IF "mp3" \in case.audio THEN <<Record(mp3)>> ELSE <<>>)
         /\ d = (IF "flac" \in case.audio
                 THEN <<Encode(flac), Run({}), Try("other"), Record(flac)>> ELSE <<>>)
         /\ e = (IF "wav" \in case.audio \/ "flac" \notin case.audio THEN <<>> ELSE <<Drop(wav)>>)
    OBVIOUS
<1>3. RecordAudio(dir, stem) = a \o b \o c \o d \o e
    BY <1>1, <1>2 DEF RecordAudio
<1>4. /\ Try("other") \in Leaves /\ Run({}) \in Leaves
      /\ Encode(mp3) \in Leaves /\ Encode(flac) \in Leaves /\ Record(wav) \in Leaves
      /\ Record(mp3) \in Leaves /\ Record(flac) \in Leaves /\ Drop(wav) \in Leaves
    BY LeavesIn
<1>5. /\ a \in Seq(Leaves) /\ b \in Seq(Leaves) /\ c \in Seq(Leaves) /\ d \in Seq(Leaves)
      /\ e \in Seq(Leaves)
    <2>1. a \in Seq(Leaves)
        BY <1>2, <1>4
    <2>2. b \in Seq(Leaves)
        BY <1>2, <1>4
    <2>3. c \in Seq(Leaves)
        BY <1>2, <1>4
    <2>4. d \in Seq(Leaves)
        BY <1>2, <1>4
    <2>5. e \in Seq(Leaves)
        BY <1>2, <1>4
    <2> QED BY <2>1, <2>2, <2>3, <2>4, <2>5
<1>6. a \o b \in Seq(Leaves)
    BY <1>5, SeqJoin
<1>7. a \o b \o c \in Seq(Leaves)
    BY <1>5, <1>6, SeqJoin
<1>8. a \o b \o c \o d \in Seq(Leaves)
    BY <1>5, <1>7, SeqJoin
<1> QED BY <1>3, <1>5, <1>8, SeqJoin

LEMMA UsmLeaves ==
    ASSUME NEW dir \in Dirs
    PROVE  UsmDecode(dir) \in Seq(Leaves)
<1>1. PICK m2v, usm, mask, mkv, mp4, wav \in Names :
         /\ m2v = File(dir, "video", "m2v") /\ usm = File(dir, "usm", "json")
         /\ mask = File(dir, "mask", "json") /\ wav = File(dir, "sound", "wav")
         /\ mkv = File(dir, "movie", "mkv") /\ mp4 = File(dir, "movie", "mp4")
    BY FileIn DEF Extensions, Within
<1>2. /\ Try("other") \in Leaves /\ Try("decode") \in Leaves /\ Run({}) \in Leaves
      /\ Run({wav}) \in Leaves /\ Run({mkv}) \in Leaves
    BY LeavesIn
<1>3. \A f \in Names : Make(f) \in Leaves /\ Record(f) \in Leaves /\ Drop(f) \in Leaves
                       /\ Encode(f) \in Leaves
    BY LeavesIn
<1>4. \A f \in Names : Saved(f) \in Seq(Leaves)
    BY <1>3 DEF Saved
<1>5. AllFrames \in Seq(Leaves)
    BY <1>2 DEF AllFrames
<1>6. VideoFormats(dir) \in Seq(Leaves)
    <2>1. <<Encode(mp4)>> \in Seq(Leaves) /\ <<Record(mp4)>> \in Seq(Leaves)
          /\ <<Record(mkv)>> \in Seq(Leaves) /\ <<Drop(mkv)>> \in Seq(Leaves)
        BY <1>3
    <2>2. <<Encode(mp4)>> \o AllFrames \in Seq(Leaves)
        BY <1>5, <2>1, SeqJoin
    <2>3. <<Encode(mp4)>> \o AllFrames \o <<Record(mp4)>> \in Seq(Leaves)
        BY <2>1, <2>2, SeqJoin
    <2>4. PICK a, b : /\ a = (IF case.video \in {"mp4", "both"}
                              THEN <<Encode(mp4)>> \o AllFrames \o <<Record(mp4)>> ELSE <<>>)
                      /\ b = (IF case.video \in {"mkv", "both"} THEN <<Record(mkv)>>
                              ELSE <<Drop(mkv)>>)
        OBVIOUS
    <2>5. a \in Seq(Leaves) /\ b \in Seq(Leaves)
        BY <2>1, <2>3, <2>4
    <2>6. VideoFormats(dir) = a \o b
        BY <1>1, <2>4 DEF VideoFormats
    <2> QED BY <2>5, <2>6, SeqJoin
<1>7. Sound(dir) \in Seq(Leaves)
    <2>1. PICK formats : formats = RecordAudio(dir, <<"sound", 0>>)
        OBVIOUS
    <2>2. formats \in Seq(Leaves)
        <3>1. <<"sound", 0>> \in Stems
            BY DEF Stems
        <3> QED BY <2>1, <3>1, AudioLeaves
    <2>3. CASE case.sound = "adx"
        <3>1. Sound(dir) = <<Try("other"), Run({wav}), Try("other")>> \o formats
            BY <1>1, <2>1, <2>3 DEF Sound
        <3>2. <<Try("other"), Run({wav}), Try("other")>> \in Seq(Leaves)
            BY <1>2
        <3> QED BY <2>2, <3>1, <3>2, SeqJoin
    <2>4. CASE case.sound = "hca"
        <3>1. Sound(dir) = <<Make(wav), Try("other")>> \o formats
            BY <1>1, <2>1, <2>4 DEF Sound
        <3>2. <<Make(wav), Try("other")>> \in Seq(Leaves)
            BY <1>2, <1>3
        <3> QED BY <2>2, <3>1, <3>2, SeqJoin
    <2>5. CASE case.sound \notin {"adx", "hca"}
        <3>1. Sound(dir) = <<>>
            BY <2>5 DEF Sound
        <3> QED BY <3>1
    <2> QED BY <2>3, <2>4, <2>5
<1>8. Movie(dir) \in Seq(Leaves)
    <2>1. <<Run({mkv})>> \in Seq(Leaves)
        BY <1>2
    <2>2. <<Run({mkv})>> \o AllFrames \in Seq(Leaves)
        BY <1>5, <2>1, SeqJoin
    <2>3. Movie(dir) = <<Run({mkv})>> \o AllFrames \o VideoFormats(dir)
        BY <1>1 DEF Movie
    <2> QED BY <1>6, <2>2, <2>3, SeqJoin
<1>9. PICK a, b, c, d, e, g :
         /\ a = <<Try("other")>> /\ b = Saved(m2v) /\ c = Sound(dir) /\ d = Movie(dir)
         /\ e = Saved(usm) /\ g = Saved(mask)
    OBVIOUS
<1>10. /\ a \in Seq(Leaves) /\ b \in Seq(Leaves) /\ c \in Seq(Leaves) /\ d \in Seq(Leaves)
       /\ e \in Seq(Leaves) /\ g \in Seq(Leaves)
    BY <1>2, <1>4, <1>7, <1>8, <1>9
<1>11. UsmDecode(dir) = a \o b \o c \o d \o e \o g
    BY <1>1, <1>9 DEF UsmDecode
<1>12. a \o b \in Seq(Leaves)
    BY <1>10, SeqJoin
<1>13. a \o b \o c \in Seq(Leaves)
    BY <1>10, <1>12, SeqJoin
<1>14. a \o b \o c \o d \in Seq(Leaves)
    BY <1>10, <1>13, SeqJoin
<1>15. a \o b \o c \o d \o e \in Seq(Leaves)
    BY <1>10, <1>14, SeqJoin
<1> QED BY <1>10, <1>11, <1>15, SeqJoin

-----------------------------------------------------------------------------
(* A call unfolds.                                                         *)
LEMMA AppendJoin ==
    ASSUME NEW S, NEW s \in Seq(S), NEW e \in S, NEW t \in Seq(S)
    PROVE  Append(s, e) = s \o <<e>> /\ Append(s, e) \o t = s \o (<<e>> \o t)
<1>1. Append(s, e) = s \o <<e>>
    OBVIOUS
<1>2. (s \o <<e>>) \o t = s \o (<<e>> \o t)
    OBVIOUS
<1> QED BY <1>1, <1>2

(* The head is replaced by calls that end where it does.                   *)
LEMMA Replaced ==
    ASSUME NEW s \in Seq(Call), NEW p, Path(s, p), s # <<>>, NEW a, NEW t, Piece(t, a, p[1]),
           NEW w, w = t \o Tail(s)
    PROVE  Piece(w, a, p[Len(s)])
<1>1. PICK r : r = Tail(s)
    OBVIOUS
<1>2. r \in Seq(Call) /\ Len(s) \in Nat \ {0} /\ Len(r) = Len(s) - 1
    BY <1>1, TailPath
<1>3. PICK h : Path(r, h) /\ \A j \in 0 .. Len(s) - 1 : h[j] = p[j + 1]
    BY <1>1, TailPath
<1>4. h[0] = p[1] /\ h[Len(r)] = p[Len(s)]
    BY <1>2, <1>3
<1>5. Piece(r, p[1], p[Len(s)])
    BY <1>2, <1>3, <1>4 DEF Piece
<1>6. Piece(t \o r, a, p[Len(s)])
    BY <1>5, PieceJoin
<1> QED BY <1>1, <1>6

(* A bundle has no USM.                                                    *)
LEMMA UnityCalls ==
    ASSUME NEW s \in Seq(Call), NEW p, Path(s, p), case.provider = "unity"
    PROVE  \A i \in 1 .. Len(s) : s[i].op \notin {"usm", "usmEnd"}
<1>1. ASSUME NEW i \in 1 .. Len(s) PROVE s[i].op \notin {"usm", "usmEnd"}
    <2>1. Moves(s[i], p[i - 1], p[i])
        BY Along
    <2>2. ASSUME s[i].op = "usm" PROVE FALSE
        BY <2>1, <2>2 DEF Moves
    <2>3. ASSUME s[i].op = "usmEnd" PROVE FALSE
        BY <2>1, <2>3 DEF Moves
    <2> QED BY <2>2, <2>3
<1> QED BY <1>1

LEMMA UnityGoing ==
    ASSUME NEW CONSTANT s, NEW CONSTANT p, OnWay(s, p), s # <<>>, case.provider = "unity",
           NEW CONSTANT r \in Seq(Call), NEW CONSTANT q, Path(r, q), r = todo',
           q[Len(r)] = p[Len(s)], Onward(p[0], q[0]),
           UNCHANGED <<case, outputs, pass>>, errors' = {} => errors = {}, Here(q[0])'
    PROVE  Going'
<1>1. s \in Seq(Call) /\ Path(s, p) /\ Aim(p[Len(s)]) /\ Passes(s, p) /\ Sealed(s, p[0])
    BY DEF OnWay
<1>2. \A i \in 1 .. Len(s) : s[i].op # "usmEnd"
    BY <1>1, UnityCalls
<1>3. \A i \in 1 .. Len(r) : r[i].op # "usmEnd"
    BY UnityCalls
<1>4. pass = "none"
    BY <1>1, <1>2 DEF Passes
<1>5. Passes(r, q)'
    BY <1>3, <1>4 DEF Passes
<1>6. Sealed(r, q[0])'
    <2>1. ASSUME NEW n \in 1 .. Len(outputs)
          PROVE  outputs[n].pass = "none" \/ Shut(outputs[n].file[1], q[0])
        BY <1>1, <1>2, ShutOnward DEF Sealed
    <2> QED BY <2>1 DEF Sealed
<1>7. Path(r, q)'
    BY PathSame
<1>8. Aim(q[Len(r)])'
    <2>1. Promised' = Promised
        BY PromisedSame
    <2> QED BY <1>1, <2>1 DEF Aim
<1>9. OnWay(r, q)'
    BY <1>5, <1>6, <1>7, <1>8 DEF OnWay
<1> QED BY <1>9 DEF Going

-----------------------------------------------------------------------------
(* A call unfolded and nothing else happened.                              *)
LEMMA Unfolded ==
    ASSUME ResourceIInv, fate = "working", todo' \in Seq(Call), pass' \in Marks,
           UNCHANGED <<case, files, outputs, held, errors, media, late, cancelled, fate>>,
           media.at = "off", Going'
    PROVE  ResourceIInv'
<1>1. Shape /\ Fitting /\ Once /\ There
    BY DEF ResourceIInv
<1>2. Fitting' /\ Once'
    BY <1>1, ReportSame
<1>3. There'
    BY <1>1 DEF There
<1>4. Shape'
    <2>1. Players' = Players
        BY PromisedSame
    <2> QED BY <1>1, <2>1 DEF Shape
<1> QED BY <1>2, <1>3, <1>4, Settles

LEMMA ObjectUnfolds ==
    ASSUME ResourceIInv, fate = "working", NEW CONSTANT s, NEW CONSTANT p, s = todo, OnWay(s, p),
           s # <<>>, p[0] \in Stands, p[1] \in Stands, Moves(s[1], p[0], p[1]),
           s[1].op = "object", NEW n, n = s[1].number,
           todo' = Append(Body(n), [op |-> "objectEnd", number |-> n]) \o Tail(s),
           UNCHANGED <<case, files, outputs, held, errors, pass, media, late, cancelled, fate>>,
           media.at = "off"
    PROVE  ResourceIInv'
<1>1. Shape /\ s \in Seq(Call) /\ Path(s, p) /\ Here(p[0])
    BY DEF ResourceIInv, OnWay
<1>2. case \in Case /\ IsInjective(case.images)
    BY <1>1, CaseIn
<1>3. PICK F, T, K : F = Foot(n) /\ T = OfObject(n) \ {Playable} /\ K = Players \cap {n}
    OBVIOUS
<1>4. PICK u, t, k : u = p[0].used /\ t = p[0].told /\ k = p[0].kept
    OBVIOUS
<1>5. /\ case.provider = "unity" /\ n \in DOMAIN case.objects
      /\ p[0].have = {} /\ u \cap F = {}
      /\ p[1] = Stand({}, u \cup F, t \cup T, k \cup K)
    BY <1>3, <1>4 DEF Moves
<1>6. p[0] = Stand({}, u, t, k) /\ Fit({}, u, t, k) /\ Apart(u, F)
    BY <1>4, <1>5, StandFit DEF Apart
<1>7. Closed(Body(n), F, T, K)
    BY <1>2, <1>3, <1>5, ObjectClosed
<1>8. PICK U \in SUBSET F :
         /\ Fit({}, u \cup U, t \cup T, k \cup K)
         /\ Piece(Body(n), p[0], Stand({}, u \cup U, t \cup T, k \cup K))
    <2>1. Ends(Body(n), F, T, K, u, t, k)
        BY <1>6, <1>7 DEF Closed
    <2> QED BY <1>6, <2>1 DEF Ends
<1>9. n \in Nat
    BY <1>2, <1>5 DEF Case
<1>10. PICK e \in Call : e = [op |-> "objectEnd", number |-> n]
    BY <1>9, CallsIn
<1>11. PICK b \in Stands : b = Stand({}, u \cup U, t \cup T, k \cup K)
    BY <1>8, FitStand
<1>12. Moves(e, b, p[1])
    <2>1. b.have = {} /\ b.used = u \cup U /\ b.told = t \cup T /\ b.kept = k \cup K
        <3>1. PICK x, y, z : x = u \cup U /\ y = t \cup T /\ z = k \cup K
            OBVIOUS
        <3>2. b = Stand({}, x, y, z)
            BY <1>11, <3>1
        <3>3. b.have = {} /\ b.used = x /\ b.told = y /\ b.kept = z
            BY <3>2, FitStand
        <3> QED BY <3>1, <3>3
    <2>2. b.used \cup F = u \cup F
        BY <1>8, <2>1
    <2>3. p[1] = Stand({}, b.used \cup F, b.told, b.kept)
        BY <1>5, <2>1, <2>2
    <2>4. e.op = "objectEnd" /\ e.number = n
        BY <1>10
    <2> QED BY <1>3, <1>5, <2>1, <2>3, <2>4 DEF Moves
<1>13. Piece(<<e>>, b, p[1])
    BY <1>12, PieceOne
<1>14. Body(n) \in Seq(Call)
    BY <1>7 DEF Closed
<1>15. Append(Body(n), e) = Body(n) \o <<e>>
    BY <1>14, AppendJoin
<1>16. Piece(Append(Body(n), e), p[0], p[1])
    BY <1>8, <1>11, <1>13, <1>15, PieceJoin
<1>17. PICK r : r = Append(Body(n), e) \o Tail(s)
    OBVIOUS
<1>18. Piece(r, p[0], p[Len(s)])
    <2>1. PICK w : w = Append(Body(n), e)
        OBVIOUS
    <2>2. Piece(w, p[0], p[1])
        BY <1>16, <2>1
    <2>3. r = w \o Tail(s)
        BY <1>17, <2>1
    <2> QED BY <1>1, <2>2, <2>3, Replaced
<1>19. r \in Seq(Call) /\ \E q : Path(r, q) /\ q[0] = p[0] /\ q[Len(r)] = p[Len(s)]
    BY <1>18 DEF Piece
<1>24. PICK q : Path(r, q) /\ q[0] = p[0] /\ q[Len(r)] = p[Len(s)]
    BY <1>19
<1>20. r = todo'
    BY <1>10, <1>17
<1>21. Here(q[0])'
    <2>1. Here(p[0])'
        BY <1>1, HereIdle
    <2> QED BY <1>24, <2>1
<1>22. Going'
    <2>1. Onward(p[0], q[0])
        BY <1>24, OnwardSelf
    <2> QED BY <1>5, <1>19, <1>24, <1>20, <1>21, <2>1, UnityGoing
<1>23. pass' \in Marks
    BY <1>1 DEF Shape
<1> QED BY <1>19, <1>20, <1>22, <1>23, Unfolded

LEMMA MergeUnfolds ==
    ASSUME ResourceIInv, fate = "working", NEW CONSTANT s, NEW CONSTANT p, s = todo, OnWay(s, p),
           s # <<>>, p[0] \in Stands, p[1] \in Stands, Moves(s[1], p[0], p[1]),
           s[1].op = "merge",
           todo' = (IF held.objects = {} THEN <<>> ELSE <<Look, Try("other")>> \o Saved(Playable))
                   \o Tail(s),
           UNCHANGED <<case, files, outputs, held, errors, pass, media, late, cancelled, fate>>,
           media.at = "off"
    PROVE  ResourceIInv'
<1>1. Shape /\ s \in Seq(Call) /\ Path(s, p) /\ Here(p[0])
    BY DEF ResourceIInv, OnWay
<1>2. PICK u, t, k, P : /\ u = p[0].used /\ t = p[0].told /\ k = p[0].kept
                        /\ P = IF Players = {} THEN {} ELSE {Playable}
    OBVIOUS
<1>3. /\ case.provider = "unity" /\ p[0].have = {} /\ Playable \notin u /\ Players \subseteq k
      /\ p[1] = Stand({}, u \cup {Playable}, t \cup P, k)
    BY <1>2 DEF Moves
<1>4. p[0] = Stand({}, u, t, k) /\ Fit({}, u, t, k)
    BY <1>2, <1>3, StandFit
<1>5. Onward(p[0], p[1])
    BY MovesOnward
<1>6. pass' \in Marks
    BY <1>1 DEF Shape
<1>7. CASE held.objects = {}
    <2>1. Tail(s) \in Seq(Call) /\ todo' = Tail(s)
        <3>1. Tail(s) \in Seq(Call)
            BY <1>1, TailPath
        <3> QED BY <1>7, <3>1
    <2>2. PICK r : r = Tail(s)
        OBVIOUS
    <2>3. PICK m \in Nat : m = Len(s) - 1 /\ m = Len(r)
        <3>1. Len(s) \in Nat \ {0} /\ Len(Tail(s)) = Len(s) - 1
            BY <1>1, TailPath
        <3>2. Len(s) - 1 \in Nat
            BY <3>1
        <3> QED BY <2>2, <3>1, <3>2
    <2>4. PICK q : Path(r, q) /\ \A j \in 0 .. m : q[j] = p[j + 1]
        <3>1. \E q : Path(Tail(s), q) /\ \A j \in 0 .. Len(s) - 1 : q[j] = p[j + 1]
            BY <1>1, TailPath
        <3> QED BY <2>2, <2>3, <3>1
    <2>5. q[0] = p[1] /\ q[m] = p[Len(s)]
        <3>1. 0 \in 0 .. m /\ m \in 0 .. m /\ m + 1 = Len(s)
            BY <1>1, <2>3
        <3> QED BY <2>4, <3>1
    <2>6. Here(p[1])'
        <3>1. p[1].have = {} /\ p[1].used = u \cup {Playable} /\ p[1].told = t \cup P /\ p[1].kept = k
            BY <1>3, FitStand
        <3>2. errors = {} => P = {}
            <4>1. errors = {} => held.objects = k
                BY <1>1, <1>2 DEF Here
            <4> QED BY <1>2, <1>3, <1>7, <4>1
        <3>3. DOMAIN files \subseteq p[1].used /\ Recorded \subseteq p[1].told /\ held.objects \subseteq p[1].kept
            BY <1>1, <1>2, <3>1 DEF Here
        <3>4. errors = {} => Recorded = p[1].told /\ held.objects = p[1].kept
                             /\ DOMAIN files = Recorded \cup p[1].have
            BY <1>1, <1>2, <1>3, <3>1, <3>2 DEF Here
        <3>5. Recorded' = Recorded
            BY DEF Recorded
        <3> QED BY <3>1, <3>3, <3>4, <3>5 DEF Here
    <2>7. Going'
        BY <1>3, <1>5, <2>1, <2>2, <2>3, <2>4, <2>5, <2>6, UnityGoing
    <2> QED BY <1>6, <2>1, <2>7, Unfolded
<1>8. CASE held.objects # {}
    <2>1. P = {Playable}
        BY <1>1, <1>2, <1>8 DEF Shape
    <2>2. Playable \in Names
        BY FileIn, DirsIn DEF Playable, Extensions
    <2>3. /\ Fit({}, u \cup {Playable}, t \cup {Playable}, k)
          /\ Piece(Saved(Playable), p[0], p[1])
        <3>1. /\ Fit({}, u \cup {Playable}, t \cup {Playable}, k)
              /\ Piece(Saved(Playable), Stand({}, u, t, k),
                       Stand({}, u \cup {Playable}, t \cup {Playable}, k))
            BY <1>3, <1>4, <2>2, SavedPiece
        <3>2. p[1] = Stand({}, u \cup {Playable}, t \cup {Playable}, k)
            BY <1>3, <2>1
        <3> QED BY <1>4, <3>1, <3>2
    <2>4. <<Look, Try("other")>> \in Seq(Idles)
        BY IdlesUsed
    <2>5. Piece(<<Look, Try("other")>>, p[0], p[0])
        BY <2>4, IdlePiece
    <2>6. PICK w : w = <<Look, Try("other")>> \o Saved(Playable)
        OBVIOUS
    <2>7. Piece(w, p[0], p[1])
        BY <2>3, <2>5, <2>6, PieceJoin
    <2>8. PICK r : r = w \o Tail(s)
        OBVIOUS
    <2>9. r \in Seq(Call) /\ \E q : Path(r, q) /\ q[0] = p[0] /\ q[Len(r)] = p[Len(s)]
        <3>1. Piece(r, p[0], p[Len(s)])
            BY <1>1, <2>7, <2>8, Replaced
        <3> QED BY <3>1 DEF Piece
    <2>10. PICK q : Path(r, q) /\ q[0] = p[0] /\ q[Len(r)] = p[Len(s)]
        BY <2>9
    <2>11. r = todo'
        BY <1>8, <2>6, <2>8
    <2>12. Here(q[0])'
        <3>1. Here(p[0])'
            BY <1>1, HereIdle
        <3> QED BY <2>10, <3>1
    <2>13. Going'
        <3>1. Onward(p[0], q[0])
            BY <2>10, OnwardSelf
        <3> QED BY <1>3, <2>9, <2>10, <2>11, <2>12, <3>1, UnityGoing
    <2> QED BY <1>6, <2>9, <2>11, <2>13, Unfolded
<1> QED BY <1>7, <1>8

-----------------------------------------------------------------------------
(* The calls of a pass over a USM, and its end.                            *)
UsmWay(dir, e, t, first, last, r, q, l) ==
    /\ r \in Seq(Call) /\ l \in Nat
    /\ r = UsmDecode(dir) \o (<<e>> \o t) /\ l + 1 \in 1 .. Len(r)
    /\ \A j \in 1 .. l : r[j].op \notin {"usm", "usmEnd"}
    /\ r[l + 1] = e
    /\ Len(r) = l + 1 + Len(t)
    /\ \A j \in 1 .. Len(t) : r[l + 1 + j] = t[j]
    /\ Path(r, q) /\ q[0] = first /\ q[Len(r)] = last
    /\ Aside(q[0], q[l], dir)

LEMMA UsmPath ==
    ASSUME case \in Case, case.provider = "cri", NEW dir \in Dirs, NEW e \in Call,
           e.op = "usmEnd", e.dir = dir, NEW u, NEW told, NEW k, Fit({}, u, told, k),
           Apart(u, Within(dir)), NEW t \in Seq(Call), NEW h, Path(t, h),
           h[0] = Stand({}, u \cup Within(dir), told \cup OfUsm(dir), k)
    PROVE  \E r, q, l :
              UsmWay(dir, e, t, Stand({}, u, told, k), h[Len(t)], r, q, l)
<1>1. PICK W, T : W = Within(dir) /\ T = OfUsm(dir)
    OBVIOUS
<1>2. PICK d : d = UsmDecode(dir)
    OBVIOUS
<1>3. Closed(d, W, T, {}) /\ T \subseteq W /\ W \subseteq Names
    BY <1>1, <1>2, UsmClosed DEF Within
<1>4. d \in Seq(Leaves) /\ d \in Seq(Call)
    BY <1>2, <1>3, UsmLeaves DEF Closed
<1>5. PICK l, n \in Nat : l = Len(d) /\ n = Len(t)
    BY <1>4
<1>6. PICK U \in SUBSET W :
         /\ Fit({}, u \cup U, told \cup T, k \cup {})
         /\ Piece(d, Stand({}, u, told, k), Stand({}, u \cup U, told \cup T, k \cup {}))
    BY <1>1, <1>3 DEF Closed, Ends
<1>7. k \cup {} = k
    OBVIOUS
<1>8. PICK a, b : a = Stand({}, u, told, k) /\ b = Stand({}, u \cup U, told \cup T, k)
    OBVIOUS
<1>9. b \in Stands /\ a \in Stands
    BY <1>6, <1>7, <1>8, FitStand
<1>10. PICK g : Path(d, g) /\ g[0] = a /\ g[l] = b
    BY <1>5, <1>6, <1>7, <1>8 DEF Piece
<1>11. h[0] \in Stands
    BY Along
<1>12. Moves(e, b, h[0])
    <2>1. b.have = {} /\ b.used = u \cup U /\ b.told = told \cup T /\ b.kept = k
        BY <1>8, FitStand
    <2>2. told \subseteq u
        BY DEF Fit
    <2>3. b.told \cap W = T
        BY <1>1, <1>3, <2>1, <2>2 DEF Apart
    <2>4. b.used \cup W = u \cup W
        BY <1>6, <2>1
    <2>5. h[0] = Stand({}, b.used \cup W, b.told, b.kept)
        BY <1>1, <2>1, <2>4
    <2> QED BY <1>1, <2>1, <2>3, <2>5 DEF Moves
<1>13. Piece(<<e>>, b, h[0])
    BY <1>9, <1>11, <1>12, PieceOne
<1>14. PICK f : Path(<<e>>, f) /\ f[0] = b /\ f[Len(<<e>>)] = h[0]
    BY <1>13 DEF Piece
<1>15. PICK v \in Seq(Call) : v = <<e>> /\ Len(v) = 1 /\ v[1] = e
    <2>1. <<e>> \in Seq(Call) /\ Len(<<e>>) = 1 /\ <<e>>[1] = e
        OBVIOUS
    <2> QED BY <2>1
<1>16. PICK x : x = v \o t
    OBVIOUS
<1>17. /\ x \in Seq(Call) /\ Len(x) = 1 + n /\ x[1] = e
       /\ \A j \in 1 .. n : x[1 + j] = t[j]
    <2>1. x \in Seq(Call) /\ Len(x) = 1 + n
        BY <1>5, <1>15, <1>16, ConcatProperties
    <2>2. \A j \in 1 .. 1 + n : x[j] = IF j <= 1 THEN v[j] ELSE t[j - 1]
        BY <1>5, <1>15, <1>16, ConcatProperties
    <2>3. 1 \in 1 .. 1 + n
        BY <1>5
    <2>4. ASSUME NEW j \in 1 .. n PROVE x[1 + j] = t[j]
        <3>1. 1 + j \in 1 .. 1 + n /\ ~(1 + j <= 1) /\ (1 + j) - 1 = j
            BY <1>5
        <3> QED BY <2>2, <3>1
    <2> QED BY <1>15, <2>1, <2>2, <2>3, <2>4
<1>18. \E y : Spliced(v, f, t, h, x, y)
    <2>1. Path(v, f) /\ f[Len(v)] = h[0]
        BY <1>14, <1>15
    <2> QED BY <1>15, <1>16, <2>1, Splice
<1>19. PICK y : Path(x, y) /\ (\A i \in 0 .. 1 : y[i] = f[i]) /\ \A i \in 0 .. n : y[1 + i] = h[i]
    <2>1. PICK y : Spliced(v, f, t, h, x, y)
        BY <1>18
    <2>2. Path(x, y) /\ (\A i \in 0 .. 1 : y[i] = f[i]) /\ \A i \in 0 .. n : y[1 + i] = h[i]
        BY <1>5, <1>15, <2>1 DEF Spliced
    <2> QED BY <2>2
<1>20. y[0] = b /\ y[1 + n] = h[n]
    <2>1. 0 \in 0 .. 1 /\ n \in 0 .. n
        OBVIOUS
    <2> QED BY <1>14, <1>19, <2>1
<1>21. PICK r : r = d \o x
    OBVIOUS
<1>22. /\ r \in Seq(Call) /\ Len(r) = l + 1 + n
       /\ \A j \in 1 .. l : r[j] = d[j]
       /\ \A j \in 1 .. 1 + n : r[l + j] = x[j]
    <2>1. \A j \in 1 .. l + (1 + n) : r[j] = IF j <= l THEN d[j] ELSE x[j - l]
        BY <1>4, <1>5, <1>17, <1>21, ConcatProperties
    <2>2. ASSUME NEW j \in 1 .. 1 + n PROVE r[l + j] = x[j]
        <3>1. l + j \in 1 .. l + (1 + n) /\ ~(l + j <= l) /\ (l + j) - l = j
            BY <1>5
        <3> QED BY <2>1, <3>1
    <2>3. \A j \in 1 .. l : j \in 1 .. l + (1 + n) /\ j <= l
        BY <1>5
    <2>4. r \in Seq(Call) /\ Len(r) = l + (1 + n)
        <3>1. r \in Seq(Call) /\ Len(r) = Len(d) + Len(x)
            BY <1>4, <1>17, <1>21, ConcatProperties
        <3> QED BY <1>5, <1>17, <3>1
    <2> QED BY <2>1, <2>2, <2>3, <2>4
<1>23. \E q : Spliced(d, g, x, y, r, q)
    <2>1. g[Len(d)] = y[0]
        BY <1>5, <1>10, <1>20
    <2> QED BY <1>4, <1>10, <1>17, <1>19, <1>21, <2>1, Splice
<1>24. PICK q : /\ Path(r, q) /\ (\A i \in 0 .. l : q[i] = g[i])
                /\ \A i \in 0 .. 1 + n : q[l + i] = y[i]
    <2>1. PICK q : Spliced(d, g, x, y, r, q)
        BY <1>23
    <2>2. /\ Path(r, q) /\ (\A i \in 0 .. l : q[i] = g[i])
          /\ \A i \in 0 .. 1 + n : q[l + i] = y[i]
        BY <1>5, <1>17, <2>1 DEF Spliced
    <2> QED BY <2>2
<1>25. q[0] = a /\ q[l] = b /\ q[l + (1 + n)] = h[n]
    <2>1. 0 \in 0 .. l /\ l \in 0 .. l /\ 1 + n \in 0 .. 1 + n
        OBVIOUS
    <2> QED BY <1>10, <1>20, <1>24, <2>1
<1>26. \A j \in 1 .. l : r[j].op \notin {"usm", "usmEnd"}
    BY <1>4, <1>5, <1>22 DEF Leaves
<1>27. r[l + 1] = e /\ \A j \in 1 .. n : r[l + 1 + j] = t[j]
    <2>1. 1 \in 1 .. 1 + n /\ \A j \in 1 .. n : 1 + j \in 1 .. 1 + n /\ l + (1 + j) = l + 1 + j
        OBVIOUS
    <2> QED BY <1>17, <1>22, <2>1
<1>28. Aside(q[0], q[l], dir)
    <2>1. /\ a.have = {} /\ a.used = u /\ a.told = told /\ a.kept = k
          /\ b.used = u \cup U /\ b.told = told \cup T /\ b.kept = k
        BY <1>8, FitStand
    <2> QED BY <1>1, <1>3, <1>6, <1>25, <2>1 DEF Aside
<1>29. l + 1 \in 1 .. Len(r) /\ l + (1 + n) = Len(r)
    BY <1>22
<1>30. UsmWay(dir, e, t, Stand({}, u, told, k), h[Len(t)], r, q, l)
    <2>1. r = UsmDecode(dir) \o (<<e>> \o t)
        BY <1>2, <1>15, <1>16, <1>21
    <2> QED BY <2>1, <1>5, <1>8, <1>22, <1>24, <1>25, <1>26, <1>27, <1>28, <1>29 DEF UsmWay
<1> QED BY Zenon, <1>30

-----------------------------------------------------------------------------
(* The way of a pass, as it begins.                                        *)
LEMMA UsmGoing ==
    ASSUME NEW CONSTANT dir, NEW CONSTANT e, NEW CONSTANT t \in Seq(Call), NEW CONSTANT first,
           NEW CONSTANT last, NEW CONSTANT r, NEW CONSTANT q, NEW CONSTANT l,
           UsmWay(dir, e, t, first, last, r, q, l), e.op = "usmEnd", e.dir = dir,
           \A j \in 1 .. Len(t) : t[j].op # "usmEnd", r = todo', UNCHANGED case,
           pass' # "none", Cut(e.start, dir)', Here(first)', Aim(last)',
           \A n \in 1 .. Len(outputs') :
              \/ outputs'[n].pass = "none" \/ outputs'[n].file[1] = dir
              \/ Shut(outputs'[n].file[1], first)
    PROVE  Going'
<1>1. /\ r \in Seq(Call) /\ l \in Nat /\ l + 1 \in 1 .. Len(r)
      /\ \A j \in 1 .. l : r[j].op \notin {"usm", "usmEnd"}
      /\ r[l + 1] = e /\ Len(r) = l + 1 + Len(t)
      /\ \A j \in 1 .. Len(t) : r[l + 1 + j] = t[j]
      /\ Path(r, q) /\ q[0] = first /\ q[Len(r)] = last
      /\ Aside(q[0], q[l], dir)
    BY DEF UsmWay
<1>2. ASSUME NEW j \in 1 .. Len(r)
      PROVE  (r[j].op = "usmEnd" => j = l + 1) /\ (r[j].op = "usm" => l + 1 < j)
    <2>1. CASE j <= l
        <3>1. j \in 1 .. l
            BY <1>1, <2>1
        <3> QED BY <1>1, <3>1
    <2>2. CASE j = l + 1
        BY <1>1, <2>2
    <2>3. CASE j > l + 1
        <3>1. j - (l + 1) \in 1 .. Len(t) /\ l + 1 + (j - (l + 1)) = j
            BY <1>1, <2>3
        <3>2. r[j] = t[j - (l + 1)]
            BY <1>1, <3>1
        <3> QED BY <2>3, <3>1, <3>2
    <2> QED BY <1>1, <2>1, <2>2, <2>3
<1>3. Passing(r, l + 1, q)'
    <2>1. Alone(r, l + 1)
        BY <1>2 DEF Alone
    <2>2. (l + 1) - 1 = l
        BY <1>1
    <2> QED BY <1>1, <2>1, <2>2 DEF Passing
<1>4. Passes(r, q)'
    <2>1. ASSUME NEW i \in 1 .. Len(r), r[i].op = "usmEnd" PROVE Passing(r, i, q)'
        <3>1. i = l + 1
            BY <1>2, <2>1
        <3> QED BY <1>3, <3>1
    <2>2. ~ \A i \in 1 .. Len(r) : r[i].op # "usmEnd"
        BY <1>1
    <2> QED BY <2>1, <2>2 DEF Passes
<1>5. Sealed(r, q[0])'
    BY <1>1 DEF Sealed
<1>6. Path(r, q)'
    BY <1>1, PathSame
<1>7. Here(q[0])' /\ Aim(q[Len(r)])'
    BY <1>1
<1>8. OnWay(r, q)'
    BY <1>1, <1>4, <1>5, <1>6, <1>7 DEF OnWay
<1> QED BY <1>8 DEF Going

LEMMA UsmUnfolds ==
    ASSUME ResourceIInv, fate = "working", NEW CONSTANT s, NEW CONSTANT p, s = todo, OnWay(s, p),
           s # <<>>, p[0] \in Stands, p[1] \in Stands, s[1] \in Call, Moves(s[1], p[0], p[1]),
           s[1].op = "usm", NEW dir, dir = s[1].dir,
           todo' = Append(UsmDecode(dir), [op |-> "usmEnd", dir |-> dir, start |-> Len(outputs)])
                   \o Tail(s),
           pass' = "masked",
           UNCHANGED <<case, files, outputs, held, errors, media, late, cancelled, fate>>,
           media.at = "off"
    PROVE  ResourceIInv'
<1>1. /\ Shape /\ s \in Seq(Call) /\ Path(s, p) /\ Here(p[0]) /\ Passes(s, p) /\ Sealed(s, p[0])
      /\ Aim(p[Len(s)])
    BY DEF ResourceIInv, OnWay
<1>2. case \in Case /\ IsInjective(case.images)
    BY <1>1, CaseIn
<1>3. dir \in Dirs
    BY DEF Call
<1>4. PICK W, T, u, k, g : /\ W = Within(dir) /\ T = OfUsm(dir)
                           /\ u = p[0].used /\ g = p[0].told /\ k = p[0].kept
    OBVIOUS
<1>5. /\ case.provider = "cri" /\ p[0].have = {} /\ u \cap W = {}
      /\ p[1] = Stand({}, u \cup W, g \cup T, k)
    BY <1>4 DEF Moves
<1>6. p[0] = Stand({}, u, g, k) /\ Fit({}, u, g, k) /\ Apart(u, W)
    BY <1>4, <1>5, StandFit DEF Apart
<1>7. PICK n \in Nat : n = Len(outputs) /\ DOMAIN outputs = 1 .. n
    BY <1>1 DEF Shape
<1>8. PICK e \in Call : /\ e = [op |-> "usmEnd", dir |-> dir, start |-> n]
                        /\ e.op = "usmEnd" /\ e.dir = dir /\ e.start = n
    <2>1. [op |-> "usmEnd", dir |-> dir, start |-> n] \in Call
        BY <1>3, CallsIn
    <2> QED BY <2>1
<1>9. PICK t : t = Tail(s)
    OBVIOUS
<1>10. /\ t \in Seq(Call) /\ Len(s) \in Nat \ {0} /\ Len(t) = Len(s) - 1
       /\ \A j \in 1 .. Len(s) - 1 : t[j] = s[j + 1]
    BY <1>1, <1>9, TailPath
<1>11. PICK h : Path(t, h) /\ \A j \in 0 .. Len(s) - 1 : h[j] = p[j + 1]
    BY <1>1, <1>9, TailPath
<1>12. h[0] = p[1] /\ h[Len(t)] = p[Len(s)]
    BY <1>10, <1>11
<1>13. \A j \in 1 .. Len(s) : s[j].op # "usmEnd"
    <2>1. ASSUME NEW j \in 1 .. Len(s), s[j].op = "usmEnd" PROVE FALSE
        <3>1. Alone(s, j)
            BY <1>1, <2>1 DEF Passes, Passing
        <3>2. 1 \in 1 .. Len(s)
            BY <1>10
        <3>3. j < 1
            BY <3>1, <3>2 DEF Alone
        <3> QED BY <3>3
    <2> QED BY <2>1
<1>14. \A j \in 1 .. Len(t) : t[j].op # "usmEnd"
    <2>1. ASSUME NEW j \in 1 .. Len(t) PROVE t[j].op # "usmEnd"
        <3>1. j + 1 \in 1 .. Len(s) /\ t[j] = s[j + 1]
            BY <1>10
        <3> QED BY <1>13, <3>1
    <2> QED BY <2>1
<1>15. PICK r, q, l : UsmWay(dir, e, t, p[0], p[Len(s)], r, q, l)
    <2>1. h[0] = Stand({}, u \cup Within(dir), g \cup OfUsm(dir), k)
        BY <1>4, <1>5, <1>12
    <2>2. Apart(u, Within(dir))
        BY <1>4, <1>6
    <2>3. \E r, q, l : UsmWay(dir, e, t, Stand({}, u, g, k), h[Len(t)], r, q, l)
        BY <1>2, <1>3, <1>5, <1>6, <1>8, <1>10, <1>11, <2>1, <2>2, UsmPath
    <2> QED BY <1>6, <1>12, <2>3
<1>16. r = todo' /\ r \in Seq(Call)
    <2>1. r \in Seq(Call) /\ r = UsmDecode(dir) \o (<<e>> \o t)
        BY <1>15 DEF UsmWay
    <2>2. UsmDecode(dir) \in Seq(Call)
        BY <1>2, <1>3, UsmClosed DEF Closed
    <2>3. PICK d \in Seq(Call) : d = UsmDecode(dir)
        BY <2>2
    <2>4. Append(d, e) \o t = d \o (<<e>> \o t)
        BY <1>10, AppendJoin
    <2> QED BY <1>7, <1>8, <1>9, <2>1, <2>3, <2>4
<1>17. Here(p[0])'
    BY <1>1, <1>5 DEF Here, Recorded
<1>18. ASSUME NEW i \in 1 .. n PROVE outputs[i].file[1] # dir
    <2>1. outputs[i].file \in Recorded
        BY <1>7 DEF Recorded
    <2>2. outputs[i].file \in g /\ g \subseteq u /\ u \subseteq Names
        <3>1. outputs[i].file \in g
            BY <1>1, <1>4, <2>1 DEF Here
        <3> QED BY <1>6, <3>1 DEF Fit
    <2> QED BY <1>4, <1>5, <2>2 DEF Within
<1>19. Cut(e.start, dir)'
    <2>1. \A i \in 1 .. n : i <= n
        BY <1>7
    <2> QED BY <1>7, <1>8, <1>18, <2>1 DEF Cut
<1>20. Aim(p[Len(s)])'
    <2>1. Promised' = Promised
        BY PromisedSame
    <2> QED BY <1>1, <2>1 DEF Aim
<1>21. \A i \in 1 .. Len(outputs') :
         outputs'[i].pass = "none" \/ Shut(outputs'[i].file[1], p[0])
    BY <1>1, <1>13 DEF Sealed
<1>22. Going'
    BY <1>8, <1>10, <1>14, <1>15, <1>16, <1>17, <1>19, <1>20, <1>21, UsmGoing
<1>23. pass' \in Marks
    BY DEF Marks
<1> QED BY <1>16, <1>22, <1>23, Unfolded

-----------------------------------------------------------------------------
(* Failures.  What a call left before it failed is its own output.         *)
Leaving(fs) ==
    /\ FilesIn(fs)
    /\ \A f \in DOMAIN files : f \in DOMAIN fs /\ fs[f] = files[f]
    /\ DOMAIN fs \subseteq DOMAIN files \cup Outs(Head(todo))

HeldStill ==
    held' \in [bytes : Nat, objects : SUBSET Nat] /\ held'.objects = held.objects

AtRest == media' = Quiet \/ (media' = media /\ media.at = "off")

LEMMA IdleShape ==
    ASSUME Shape, AtRest
    PROVE  /\ media'.at = "off" /\ media' \in [at : Stops, retry : Nat, outs : SUBSET Names]
           /\ media'.retry < Attempts
BY CasesAssumption DEF Shape, AtRest, Quiet, Stops

(* An error that nobody deals with ends the resource.                      *)
LEMMA FatalKeeps ==
    ASSUME ResourceIInv, fate = "working", NEW fs, Leaving(fs), files' = fs, todo' = <<>>,
           errors' = errors \cup {0}, AtRest, HeldStill, late' \in BOOLEAN,
           UNCHANGED <<case, outputs, pass, cancelled, fate>>
    PROVE  ResourceIInv'
<1>1. Shape /\ Fitting /\ Once /\ There
    BY DEF ResourceIInv
<1>2. Fitting' /\ Once' /\ Recorded' = Recorded
    BY <1>1, ReportSame
<1>3. There'
    BY <1>1 DEF There, Leaving
<1>4. Shape'
    <2>1. Players' = Players
        BY PromisedSame
    <2>2. case \in Case
        BY <1>1, CaseIn
    <2>3. 0 \in 0 .. Len(case.objects)
        BY <2>2 DEF Case
    <2>4. todo' \in Seq(Call)
        OBVIOUS
    <2> QED BY <1>1, <2>1, <2>3, <2>4, IdleShape DEF Shape, Leaving, HeldStill
<1>5. PICK a : a = Stand({}, Names, Recorded, held.objects)
    OBVIOUS
<1>6. /\ a \in Stands /\ a.have = {} /\ a.used = Names /\ a.told = Recorded
      /\ a.kept = held.objects
    <2>1. Recorded \subseteq Names
        <3>1. \A n \in DOMAIN outputs : outputs[n] \in Entry
            BY <1>1 DEF Shape
        <3> QED BY <3>1 DEF Recorded, Entry
    <2>2. held.objects \in SUBSET Nat
        BY <1>1 DEF Shape
    <2>3. Fit({}, Names, Recorded, held.objects)
        BY <2>1, <2>2 DEF Fit
    <2> QED BY <1>5, <2>3, FitStand
<1>7. PICK s, p : s = <<>> /\ p = [i \in 0 .. 0 |-> a]
    OBVIOUS
<1>8. s \in Seq(Call) /\ Len(s) = 0 /\ p[0] = a
    BY <1>7
<1>9. Path(s, p)
    BY <1>6, <1>7, <1>8 DEF Path
<1>10. Path(s, p)'
    BY <1>9, PathSame
<1>11. errors' # {}
    OBVIOUS
<1>12. Here(p[0])'
    <2>1. DOMAIN files' \subseteq Names
        BY DEF Leaving, FilesIn
    <2> QED BY <1>2, <1>6, <1>8, <1>11, <2>1 DEF Here, HeldStill
<1>13. Aim(p[Len(s)])'
    BY <1>11 DEF Aim
<1>14. Passes(s, p)'
    BY <1>7, <1>8 DEF Passes
<1>15. Sealed(s, p[0])'
    <2>1. \A dir : Shut(dir, a)
        BY <1>6 DEF Shut, Within
    <2> QED BY <1>8, <2>1 DEF Sealed
<1>16. OnWay(s, p)'
    BY <1>8, <1>10, <1>12, <1>13, <1>14, <1>15 DEF OnWay
<1>17. Going'
    <2>1. s = todo'
        BY <1>7
    <2> QED BY <1>16, <2>1 DEF Going
<1>18. media'.at = "off"
    BY <1>1, IdleShape
<1> QED BY <1>2, <1>3, <1>4, <1>17, <1>18, Settles

(* An object reports its error and the calls up to its end are skipped.    *)
LEMMA ObjectFails ==
    ASSUME ResourceIInv, fate = "working", todo # <<>>, Head(todo).op # "objectEnd",
           NEW CONSTANT i \in DOMAIN todo, todo[i].op = "objectEnd",
           NEW fs, Leaving(fs), files' = fs, todo' = SubSeq(todo, i, Len(todo)),
           errors' = errors \cup {todo[i].number}, AtRest, HeldStill, late' \in BOOLEAN,
           UNCHANGED <<case, outputs, pass, cancelled, fate>>
    PROVE  ResourceIInv'
<1>1. Shape /\ Fitting /\ Once /\ There
    BY DEF ResourceIInv
<1>2. Fitting' /\ Once' /\ Recorded' = Recorded
    BY <1>1, ReportSame
<1>3. There'
    BY <1>1 DEF There, Leaving
<1>4. PICK s, p : /\ s = todo /\ OnWay(s, p) /\ s # <<>> /\ Head(todo) = s[1] /\ s[1] \in Call
                  /\ p[0] \in Stands /\ p[1] \in Stands /\ Moves(s[1], p[0], p[1])
                  /\ Here(p[0]) /\ s \in Seq(Call) /\ Len(s) \in Nat \ {0}
    BY AtCall
<1>5. Path(s, p)
    BY <1>4 DEF OnWay
<1>6. i \in 1 .. Len(s) /\ i # 1
    BY <1>4
<1>7. i - 1 \in 0 .. Len(s) /\ 1 <= i - 1 /\ 1 \in 0 .. Len(s) /\ 0 \in 0 .. Len(s) /\ 0 <= i - 1
      /\ i \in 1 .. Len(s) + 1
    BY <1>4, <1>6
<1>8. PICK b : b = p[i - 1]
    OBVIOUS
<1>9. /\ b \in Stands /\ b.have = {} /\ case.provider = "unity"
      /\ s[i].number \in DOMAIN case.objects
    <2>1. b \in Stands /\ Moves(s[i], b, p[i])
        BY <1>4, <1>5, <1>6, <1>7, <1>8, Along
    <2>2. s[i].op = "objectEnd"
        BY <1>4
    <2> QED BY <2>1, <2>2 DEF Moves
<1>10. Onward(p[0], b) /\ Onward(p[1], b)
    BY <1>4, <1>5, <1>7, <1>8, PathOnward
<1>11. PICK r : r = SubSeq(s, i, Len(s))
    OBVIOUS
<1>12. Piece(r, b, p[Len(s)])
    BY <1>4, <1>5, <1>7, <1>8, <1>11, Suffix
<1>13. r \in Seq(Call)
    BY <1>12 DEF Piece
<1>14. PICK q : Path(r, q) /\ q[0] = b /\ q[Len(r)] = p[Len(s)]
    BY <1>12 DEF Piece
<1>15. Here(b)'
    <2>1. Outs(s[1]) \subseteq p[1].used
        BY <1>4, OutsFresh
    <2>2. DOMAIN files' \subseteq b.used
        BY <1>4, <1>10, <2>1 DEF Leaving, Here, Onward
    <2>3. Recorded' \subseteq b.told
        BY <1>2, <1>4, <1>10 DEF Here, Onward
    <2>4. held'.objects \subseteq b.kept
        BY <1>4, <1>10 DEF Here, Onward, HeldStill
    <2>5. errors' # {}
        OBVIOUS
    <2> QED BY <1>9, <2>2, <2>3, <2>4, <2>5 DEF Here
<1>16. Going'
    <2>1. r = todo'
        BY <1>4, <1>11
    <2>2. errors' # {} /\ Onward(p[0], q[0]) /\ Here(q[0])'
        BY <1>10, <1>14, <1>15
    <2> QED BY <1>4, <1>9, <1>13, <1>14, <2>1, <2>2, UnityGoing
<1>17. Shape'
    <2>1. Players' = Players
        BY PromisedSame
    <2>2. todo' \in Seq(Call)
        BY <1>4, <1>11, <1>13
    <2>3. s[i].number \in 0 .. Len(case.objects)
        <3>1. case \in Case
            BY <1>1, CaseIn
        <3>2. DOMAIN case.objects = 1 .. Len(case.objects)
            BY <3>1 DEF Case
        <3> QED BY <1>9, <3>2
    <2>4. errors' \subseteq 0 .. Len(case.objects)
        BY <1>1, <1>4, <2>3 DEF Shape
    <2> QED BY <1>1, <2>1, <2>2, <2>4, IdleShape DEF Shape, Leaving, HeldStill
<1>18. media'.at = "off"
    BY <1>1, IdleShape
<1> QED BY <1>2, <1>3, <1>16, <1>17, <1>18, Settles

-----------------------------------------------------------------------------
(* A pass over a USM starts again: the report is cut back to where it was, *)
(* and the directory is emptied.                                           *)
LEMMA TotalCut ==
    ASSUME SizesAssumption, Shape, NEW start \in 0 .. Len(outputs),
           outputs' = SubSeq(outputs, 1, start)
    PROVE  /\ outputs' \in Seq(Entry) /\ Len(outputs') = start
           /\ \A n \in 1 .. start : outputs'[n] = outputs[n]
           /\ Total' <= Total
<1>1. PICK m \in Nat : m = Len(outputs) /\ DOMAIN outputs = 1 .. m
    BY DEF Shape
<1>2. start \in Nat /\ start <= m
    BY <1>1
<1>3. /\ outputs' \in Seq(Entry) /\ Len(outputs') = start
      /\ \A n \in 1 .. start : outputs'[n] = outputs[n]
    <2>1. outputs \in Seq(Entry)
        BY DEF Shape
    <2>2. /\ outputs' \in Seq(Entry)
          /\ Len(outputs') = IF 1 <= start THEN start - 1 + 1 ELSE 0
          /\ \A n \in 1 .. start - 1 + 1 : outputs'[n] = outputs[1 + n - 1]
        BY <1>1, <1>2, <2>1, SubSeqProperties
    <2>3. Len(outputs') = start
        BY <1>2, <2>2
    <2>4. ASSUME NEW n \in 1 .. start PROVE outputs'[n] = outputs[n]
        <3>1. n \in 1 .. start - 1 + 1 /\ 1 + n - 1 = n
            BY <1>2
        <3> QED BY <2>2, <3>1
    <2> QED BY <2>2, <2>3, <2>4
<1>4. PICK W : W = [n \in DOMAIN outputs |-> Size(outputs[n].file)]
    OBVIOUS
<1>5. PICK V : V = [n \in DOMAIN outputs' |-> Size(outputs'[n].file)]
    OBVIOUS
<1>6. DOMAIN outputs' = 1 .. start
    BY <1>3
<1>7. \A n \in 1 .. start : n \in 1 .. m
    BY <1>2
<1>8. \A n \in 1 .. m : W[n] \in Nat
    <2>1. ASSUME NEW n \in 1 .. m PROVE W[n] \in Nat
        <3>1. outputs[n] \in Entry
            BY <1>1 DEF Shape
        <3> QED BY <1>1, <1>4, <3>1 DEF SizesAssumption, Entry
    <2> QED BY <2>1
<1>9. \A n \in 1 .. start : V[n] = W[n]
    BY <1>1, <1>3, <1>4, <1>5, <1>6, <1>7
<1>10. SumFunctionOnSet(V, 1 .. start) <= SumFunctionOnSet(W, 1 .. m)
    <2>1. PICK S, R : S = 1 .. m /\ R = 1 .. start
        OBVIOUS
    <2>2. R \in SUBSET S
        BY <1>7, <2>1
    <2>3. IsFiniteSet(S)
        BY <2>1, FS_Interval
    <2>4. \A x \in R : V[x] \in Nat /\ W[x] \in Nat /\ V[x] <= W[x]
        BY <1>7, <1>8, <1>9, <2>1
    <2>5. \A x \in S : W[x] \in Nat
        BY <1>8, <2>1
    <2>6. SumFunctionOnSet(V, R) <= SumFunctionOnSet(W, S)
        BY <2>2, <2>3, <2>4, <2>5, SumMonotone
    <2> QED BY <2>1, <2>6
<1>11. Total = SumFunctionOnSet(W, 1 .. m)
    BY <1>1, <1>4 DEF Total
<1>12. Total' = SumFunctionOnSet(V, 1 .. start)
    BY <1>5, <1>6 DEF Total
<1> QED BY <1>3, <1>10, <1>11, <1>12

LEMMA TotalIn ==
    ASSUME SizesAssumption, Shape
    PROVE  Total \in Nat
<1>1. PICK m \in Nat : m = Len(outputs) /\ DOMAIN outputs = 1 .. m
    BY DEF Shape
<1>2. PICK W : W = [n \in DOMAIN outputs |-> Size(outputs[n].file)]
    OBVIOUS
<1>3. \A n \in 1 .. m : W[n] \in Nat
    <2>1. ASSUME NEW n \in 1 .. m PROVE W[n] \in Nat
        <3>1. outputs[n] \in Entry
            BY <1>1 DEF Shape
        <3> QED BY <1>1, <1>2, <3>1 DEF SizesAssumption, Entry
    <2> QED BY <2>1
<1>4. IsFiniteSet(1 .. m)
    BY FS_Interval
<1>5. SumFunctionOnSet(W, 1 .. m) \in Nat
    BY <1>3, <1>4, SumNat
<1> QED BY <1>1, <1>2, <1>5 DEF Total

LEMMA CutHead ==
    ASSUME NEW S, NEW s \in Seq(S), NEW i \in 1 .. Len(s), NEW t, t = SubSeq(s, i + 1, Len(s))
    PROVE  SubSeq(s, i, Len(s)) = <<s[i]>> \o t
<1>1. PICK m \in Nat : m = Len(s)
    OBVIOUS
<1>2. PICK r, v : r = SubSeq(s, i, m) /\ v = <<s[i]>>
    OBVIOUS
<1>3. /\ r \in Seq(S) /\ Len(r) = m - i + 1
      /\ \A j \in 1 .. m - i + 1 : r[j] = s[i + j - 1]
    <2>1. /\ r \in Seq(S) /\ Len(r) = (IF i <= m THEN m - i + 1 ELSE 0)
          /\ \A j \in 1 .. m - i + 1 : r[j] = s[i + j - 1]
        BY <1>1, <1>2, SubSeqProperties
    <2> QED BY <1>1, <2>1
<1>4. /\ t \in Seq(S) /\ Len(t) = m - i
      /\ \A j \in 1 .. m - i : t[j] = s[i + j]
    <2>1. /\ t \in Seq(S) /\ Len(t) = (IF i + 1 <= m THEN m - (i + 1) + 1 ELSE 0)
          /\ \A j \in 1 .. m - (i + 1) + 1 : t[j] = s[(i + 1) + j - 1]
        BY <1>1, SubSeqProperties
    <2>2. Len(t) = m - i
        BY <1>1, <2>1
    <2>3. ASSUME NEW j \in 1 .. m - i PROVE t[j] = s[i + j]
        <3>1. j \in 1 .. m - (i + 1) + 1 /\ (i + 1) + j - 1 = i + j
            BY <1>1
        <3> QED BY <2>1, <3>1
    <2> QED BY <2>1, <2>2, <2>3
<1>5. v \in Seq(S) /\ Len(v) = 1 /\ v[1] = s[i]
    BY <1>1, <1>2
<1>6. PICK w : w = v \o t
    OBVIOUS
<1>7. /\ w \in Seq(S) /\ Len(w) = 1 + (m - i)
      /\ \A j \in 1 .. 1 + (m - i) : w[j] = IF j <= 1 THEN v[j] ELSE t[j - 1]
    <2>1. w \in Seq(S) /\ Len(w) = Len(v) + Len(t)
        BY <1>4, <1>5, <1>6, ConcatProperties
    <2>2. \A j \in 1 .. Len(v) + Len(t) : w[j] = IF j <= Len(v) THEN v[j] ELSE t[j - Len(v)]
        BY <1>4, <1>5, <1>6, ConcatProperties
    <2> QED BY <1>4, <1>5, <2>1, <2>2
<1>8. Len(r) = Len(w)
    BY <1>1, <1>3, <1>7
<1>9. ASSUME NEW j \in 1 .. Len(r) PROVE r[j] = w[j]
    <2>1. j \in 1 .. m - i + 1 /\ j \in 1 .. 1 + (m - i)
        BY <1>1, <1>3
    <2>2. CASE j = 1
        <3>1. i + j - 1 = i
            BY <2>2
        <3> QED BY <1>3, <1>5, <1>7, <2>1, <2>2, <3>1
    <2>3. CASE j # 1
        <3>1. ~(j <= 1) /\ j - 1 \in 1 .. m - i /\ i + (j - 1) = i + j - 1
            BY <1>1, <2>1, <2>3
        <3> QED BY <1>3, <1>4, <1>7, <2>1, <3>1
    <2> QED BY <2>2, <2>3
<1>10. r = w
    BY <1>3, <1>7, <1>8, <1>9, SeqEqual
<1> QED BY <1>1, <1>2, <1>6, <1>10

LEMMA SecondPassKeeps ==
    ASSUME SizesAssumption, ResourceIInv, fate = "working", todo # <<>>,
           Head(todo).op # "usmEnd", NEW CONSTANT i \in DOMAIN todo, todo[i].op = "usmEnd",
           NEW fs, Leaving(fs), SecondPass(i, fs), media' = Quiet, HeldStill, late' \in BOOLEAN,
           UNCHANGED <<case, cancelled, fate>>
    PROVE  ResourceIInv'
<1>1. Shape /\ Fitting /\ Once /\ There
    BY DEF ResourceIInv
<1>2. PICK s, p : /\ s = todo /\ OnWay(s, p) /\ s # <<>> /\ Head(todo) = s[1] /\ s[1] \in Call
                  /\ p[0] \in Stands /\ p[1] \in Stands /\ Moves(s[1], p[0], p[1])
                  /\ Here(p[0]) /\ s \in Seq(Call) /\ Len(s) \in Nat \ {0}
    BY AtCall
<1>3. Path(s, p) /\ Aim(p[Len(s)]) /\ Passes(s, p) /\ Sealed(s, p[0])
    BY <1>2 DEF OnWay
<1>4. i \in 1 .. Len(s) /\ i # 1 /\ s[i].op = "usmEnd"
    BY <1>2
<1>5. /\ i - 1 \in 0 .. Len(s) /\ 1 <= i - 1 /\ 1 \in 0 .. Len(s) /\ 0 \in 0 .. Len(s) /\ 0 <= i - 1
      /\ i + 1 \in 1 .. Len(s) + 1
    BY <1>2, <1>4
<1>6. PICK b, e, dir, start : b = p[i - 1] /\ e = s[i] /\ dir = e.dir /\ start = e.start
    OBVIOUS
<1>7. e \in Call /\ e.op = "usmEnd" /\ e.dir = dir /\ e.start = start /\ s[i] = e
    BY <1>2, <1>4, <1>6
<1>8. dir \in Dirs /\ start \in Nat
    BY <1>7 DEF Call
<1>9. b \in Stands /\ p[i] \in Stands /\ Moves(e, b, p[i])
    BY <1>2, <1>3, <1>4, <1>5, <1>6, Along
<1>10. PICK W, T : W = Within(dir) /\ T = OfUsm(dir)
    OBVIOUS
<1>11. /\ case.provider = "cri" /\ b.have = {} /\ b.told \cap W = T
       /\ p[i] = Stand({}, b.used \cup W, b.told, b.kept)
    BY <1>7, <1>9, <1>10 DEF Moves
<1>12. Onward(p[0], b) /\ Onward(p[1], b)
    BY <1>2, <1>3, <1>5, <1>6, PathOnward
<1>13. Alone(s, i) /\ Cut(start, dir) /\ Aside(p[0], b, dir)
    BY <1>3, <1>4, <1>6 DEF Passes, Passing
<1>14. PICK u, g, k : u = b.used \ W /\ g = b.told \ W /\ k = b.kept
    OBVIOUS
<1>15. Fit({}, u, g, k) /\ Apart(u, W) /\ W \subseteq Names
    <2>1. Fit({}, b.used, b.told, b.kept)
        BY <1>9, <1>11, StandFit
    <2> QED BY <1>10, <1>14, <2>1 DEF Fit, Apart, Within
<1>16. p[i] = Stand({}, u \cup W, g \cup T, k)
    BY <1>11, <1>14
<1>17. PICK t : t = SubSeq(s, i + 1, Len(s))
    OBVIOUS
<1>18. /\ t \in Seq(Call) /\ Len(t) = Len(s) - i
       /\ \A j \in 1 .. Len(s) - i : t[j] = s[j + i]
       /\ Piece(t, p[i], p[Len(s)])
    <2>1. /\ t \in Seq(Call) /\ Len(t) = Len(s) - (i + 1) + 1
          /\ \A j \in 1 .. Len(s) - (i + 1) + 1 : t[j] = s[j + (i + 1) - 1]
          /\ Piece(t, p[(i + 1) - 1], p[Len(s)])
        BY <1>2, <1>3, <1>5, <1>17, Suffix, Zenon
    <2>2. Len(s) - (i + 1) + 1 = Len(s) - i /\ (i + 1) - 1 = i
          /\ \A j \in 1 .. Len(s) - i : j + (i + 1) - 1 = j + i
        BY <1>2, <1>4
    <2> QED BY <2>1, <2>2
<1>19. PICK h : Path(t, h) /\ h[0] = p[i] /\ h[Len(t)] = p[Len(s)]
    BY <1>18 DEF Piece
<1>20. \A j \in 1 .. Len(t) : t[j].op # "usmEnd"
    <2>1. ASSUME NEW j \in 1 .. Len(t) PROVE t[j].op # "usmEnd"
        <3>1. j + i \in 1 .. Len(s) /\ t[j] = s[j + i] /\ j + i # i
            BY <1>2, <1>4, <1>18
        <3> QED BY <1>13, <3>1 DEF Alone
    <2> QED BY <2>1
<1>21. PICK a : a = Stand({}, u, g, k)
    OBVIOUS
<1>22. a.have = {} /\ a.used = u /\ a.told = g /\ a.kept = k
    BY <1>21, FitStand
<1>23. case \in Case
    BY <1>1, CaseIn
<1>24. PICK r, q, l : UsmWay(dir, e, t, a, p[Len(s)], r, q, l)
    <2>1. h[0] = Stand({}, u \cup Within(dir), g \cup OfUsm(dir), k)
        BY <1>10, <1>16, <1>19
    <2>2. Apart(u, Within(dir))
        BY <1>10, <1>15
    <2>3. \E r, q, l : UsmWay(dir, e, t, Stand({}, u, g, k), h[Len(t)], r, q, l)
        BY <1>7, <1>8, <1>11, <1>15, <1>18, <1>19, <1>23, <2>1, <2>2, UsmPath
    <2> QED BY <1>19, <1>21, <2>3
<1>25. /\ pass' = "plain" /\ outputs' = SubSeq(outputs, 1, start)
       /\ files' = [f \in {f \in DOMAIN fs : f[1] # dir} |-> fs[f]]
       /\ todo' = UsmDecode(dir) \o SubSeq(todo, i, Len(todo)) /\ UNCHANGED errors
    BY <1>2, <1>6 DEF SecondPass
<1>26. r = todo' /\ r \in Seq(Call)
    <2>1. r \in Seq(Call) /\ r = UsmDecode(dir) \o (<<e>> \o t)
        BY <1>24 DEF UsmWay
    <2>2. SubSeq(s, i, Len(s)) = <<e>> \o t
        BY <1>2, <1>4, <1>7, <1>17, CutHead
    <2> QED BY <1>2, <1>25, <2>1, <2>2
<1>27. start \in 0 .. Len(outputs)
    BY <1>1, <1>8, <1>13 DEF Cut, Shape
<1>28. /\ outputs' \in Seq(Entry) /\ Len(outputs') = start
       /\ \A n \in 1 .. start : outputs'[n] = outputs[n]
       /\ Total' <= Total
    BY <1>1, <1>25, <1>27, TotalCut
<1>29. \A n \in 1 .. start : n \in 1 .. Len(outputs)
    BY <1>8, <1>13 DEF Cut
<1>30. \A n \in 1 .. start : outputs[n].file[1] # dir
    BY <1>8, <1>13, <1>29 DEF Cut
<1>31. /\ DOMAIN files' = {f \in DOMAIN fs : f[1] # dir}
       /\ \A f \in DOMAIN files' : files'[f] = fs[f]
    BY <1>25
<1>32. Recorded' = Recorded \ W
    <2>1. DOMAIN outputs = 1 .. Len(outputs) /\ DOMAIN outputs' = 1 .. start
        BY <1>1, <1>28 DEF Shape
    <2>2. \A n \in 1 .. Len(outputs) : outputs[n].file \in Names
        <3>1. \A n \in 1 .. Len(outputs) : outputs[n] \in Entry
            BY <1>1 DEF Shape
        <3> QED BY <3>1 DEF Entry
    <2>3. \A n \in 1 .. Len(outputs) : outputs[n].file \notin W => n \in 1 .. start
        <3>1. ASSUME NEW n \in 1 .. Len(outputs), ~(n <= start) PROVE outputs[n].file \in W
            <4>1. outputs[n].file[1] = dir
                BY <1>8, <1>13, <3>1 DEF Cut
            <4> QED BY <1>10, <2>2, <4>1 DEF Within
        <3> QED BY <1>8, <3>1
    <2>4. \A n \in 1 .. start : outputs[n].file \notin W
        BY <1>10, <1>30 DEF Within
    <2> QED BY <1>28, <1>29, <2>1, <2>3, <2>4 DEF Recorded
<1>33. PICK o : o = Outs(s[1])
    OBVIOUS
<1>34. o \subseteq p[1].used /\ o \cap p[0].used = {} /\ o \subseteq Names
    BY <1>2, <1>33, OutsFresh
<1>35. DOMAIN files \subseteq DOMAIN fs /\ DOMAIN fs \subseteq DOMAIN files \cup o
    BY <1>2, <1>33 DEF Leaving
<1>36. DOMAIN files' = DOMAIN fs \ W
    <2>1. DOMAIN fs \subseteq Names
        BY DEF Leaving, FilesIn
    <2> QED BY <1>10, <1>31, <2>1 DEF Within
<1>37. Here(a)'
    <2>1. DOMAIN files' \subseteq a.used
        <3>1. DOMAIN files \subseteq p[0].used /\ p[0].used \subseteq b.used /\ p[1].used \subseteq b.used
            BY <1>2, <1>12 DEF Here, Onward
        <3> QED BY <1>14, <1>22, <1>34, <1>35, <1>36, <3>1
    <2>2. Recorded' \subseteq a.told
        <3>1. Recorded \subseteq p[0].told /\ p[0].told \subseteq b.told
            BY <1>2, <1>12 DEF Here, Onward
        <3> QED BY <1>14, <1>22, <1>32, <3>1
    <2>3. held'.objects \subseteq a.kept
        <3>1. held.objects \subseteq p[0].kept /\ p[0].kept \subseteq b.kept
            BY <1>2, <1>12 DEF Here, Onward
        <3> QED BY <1>14, <1>22, <3>1 DEF HeldStill
    <2>4. ASSUME errors' = {}
          PROVE  Recorded' = a.told /\ held'.objects = a.kept /\ DOMAIN files' = Recorded' \cup a.have
        <3>1. /\ Recorded = p[0].told /\ held.objects = p[0].kept
              /\ DOMAIN files = Recorded \cup p[0].have
            BY <1>2, <1>25, <2>4 DEF Here
        <3>2. /\ p[0].have \subseteq W /\ b.used \subseteq p[0].used \cup W
              /\ b.told \subseteq p[0].told \cup W /\ b.kept \subseteq p[0].kept
            BY <1>10, <1>13 DEF Aside
        <3>3. p[1].used \subseteq b.used /\ p[0].told \subseteq b.told /\ p[0].kept \subseteq b.kept
            BY <1>12 DEF Onward
        <3>4. o \subseteq W
            BY <1>34, <3>2, <3>3
        <3>5. Recorded' = a.told
            BY <1>14, <1>22, <1>32, <3>1, <3>2, <3>3
        <3>6. held'.objects = a.kept
            <4>1. p[0].kept = b.kept
                BY <3>2, <3>3
            <4>2. held'.objects = held.objects
                BY DEF HeldStill
            <4> QED BY <1>14, <1>22, <3>1, <4>1, <4>2
        <3>7. DOMAIN files' = Recorded'
            BY <1>32, <1>35, <1>36, <3>1, <3>2, <3>4
        <3> QED BY <1>22, <3>5, <3>6, <3>7
    <2> QED BY <1>22, <2>1, <2>2, <2>3, <2>4 DEF Here
<1>38. ASSUME NEW n \in 1 .. start
       PROVE  outputs[n].pass = "none" \/ Shut(outputs[n].file[1], a)
    <2>1. n \in 1 .. Len(outputs) /\ outputs[n].file[1] # dir
        BY <1>29, <1>30
    <2>2. ASSUME NEW j \in 1 .. Len(s), s[j].op = "usmEnd", outputs[n].file[1] = s[j].dir
          PROVE  FALSE
        <3>1. j = i
            BY <1>13, <2>2 DEF Alone
        <3> QED BY <1>7, <2>1, <2>2, <3>1
    <2>3. outputs[n].pass = "none" \/ Shut(outputs[n].file[1], p[0])
        BY <1>3, <2>1, <2>2 DEF Sealed
    <2>4. ASSUME Shut(outputs[n].file[1], p[0]) PROVE Shut(outputs[n].file[1], a)
        <3>1. p[0].used \subseteq b.used
            BY <1>12 DEF Onward
        <3> QED BY <1>10, <1>14, <1>22, <2>1, <2>4, <3>1 DEF Shut, Within
    <2> QED BY <2>3, <2>4
<1>39. Cut(e.start, dir)'
    <2>1. \A n \in 1 .. start : n <= start /\ ~(n > start)
        BY <1>8
    <2> QED BY <1>7, <1>8, <1>28, <1>30, <2>1 DEF Cut
<1>40. Aim(p[Len(s)])'
    <2>1. Promised' = Promised
        BY PromisedSame
    <2> QED BY <1>3, <1>25, <2>1 DEF Aim
<1>41. Going'
    <2>1. \A n \in 1 .. Len(outputs') :
             \/ outputs'[n].pass = "none" \/ outputs'[n].file[1] = dir
             \/ Shut(outputs'[n].file[1], a)
        BY <1>28, <1>38
    <2> QED BY <1>7, <1>18, <1>20, <1>24, <1>25, <1>26, <1>37, <1>39, <1>40, <2>1, UsmGoing,
                 Zenon
<1>42. Fitting'
    <2>1. Total \in Nat /\ case.room \in Nat
        BY <1>1, <1>23, TotalIn DEF Case
    <2>2. Total' \in Nat
        <3>1. PICK V : V = [n \in DOMAIN outputs' |-> Size(outputs'[n].file)]
            OBVIOUS
        <3>2. DOMAIN outputs' = 1 .. start
            BY <1>28
        <3>3. \A n \in 1 .. start : V[n] \in Nat
            <4>1. \A n \in 1 .. start : outputs'[n] \in Entry
                BY <1>28
            <4> QED BY <3>1, <3>2, <4>1 DEF Entry, SizesAssumption
        <3>4. IsFiniteSet(1 .. start)
            BY <1>8, FS_Interval
        <3>5. SumFunctionOnSet(V, 1 .. start) \in Nat
            BY <3>3, <3>4, SumNat
        <3> QED BY <3>1, <3>2, <3>5 DEF Total
    <2> QED BY <1>1, <1>28, <2>1, <2>2 DEF Fitting
<1>43. Once'
    BY <1>1, <1>28, <1>29 DEF Once
<1>44. There'
    <2>1. ASSUME NEW n \in 1 .. start
          PROVE  /\ outputs[n].file \in DOMAIN files'
                 /\ files'[outputs[n].file] = [whole |-> TRUE, pass |-> outputs[n].pass]
        <3>1. /\ outputs[n].file \in DOMAIN files
              /\ files[outputs[n].file] = [whole |-> TRUE, pass |-> outputs[n].pass]
            BY <1>1, <1>29 DEF There
        <3> QED BY <1>30, <1>31, <3>1 DEF Leaving
    <2> QED BY <1>28, <2>1 DEF There
<1>45. Shape'
    <2>1. Players' = Players
        BY PromisedSame
    <2>2. todo' \in Seq(Call) /\ pass' \in Marks
        BY <1>25, <1>26 DEF Marks
    <2>3. FilesIn(files')
        <3>1. PICK d : d = {f \in DOMAIN fs : f[1] # dir}
            OBVIOUS
        <3>2. files' = [f \in d |-> fs[f]] /\ d \subseteq DOMAIN fs
            BY <1>25, <3>1
        <3>3. DOMAIN files' = d /\ files' = [f \in DOMAIN files' |-> files'[f]]
            BY <3>2
        <3> QED BY <3>2, <3>3 DEF Leaving, FilesIn
    <2>4. AtRest
        BY DEF AtRest
    <2> QED BY <1>1, <1>25, <1>28, <2>1, <2>2, <2>3, <2>4, IdleShape DEF Shape, HeldStill
<1>46. media'.at = "off"
    BY DEF Quiet
<1> QED BY <1>41, <1>42, <1>43, <1>44, <1>45, <1>46, Settles

-----------------------------------------------------------------------------
LEMMA FailureKeeps ==
    ASSUME SizesAssumption, ResourceIInv, fate = "working", todo # <<>>,
           Head(todo).op \notin {"objectEnd", "usmEnd"}, NEW class, NEW fs, Leaving(fs),
           Fails(class, fs), HeldStill, late' \in BOOLEAN, UNCHANGED <<case, cancelled, fate>>
    PROVE  ResourceIInv'
<1>1. media' = Quiet
    BY DEF Fails
<1>2. AtRest
    BY <1>1 DEF AtRest
<1>3. CASE Reported(0) /\ todo' = <<>> /\ files' = fs /\ UNCHANGED <<outputs, pass>>
    BY <1>2, <1>3, FatalKeeps DEF Reported
<1>4. CASE \E i \in DOMAIN todo :
              /\ todo[i].op = "objectEnd" /\ Reported(todo[i].number)
              /\ todo' = SubSeq(todo, i, Len(todo)) /\ files' = fs /\ UNCHANGED <<outputs, pass>>
    <2>1. PICK i \in DOMAIN todo :
              /\ todo[i].op = "objectEnd" /\ Reported(todo[i].number)
              /\ todo' = SubSeq(todo, i, Len(todo)) /\ files' = fs /\ UNCHANGED <<outputs, pass>>
        BY <1>4
    <2> QED BY <1>2, <2>1, ObjectFails DEF Reported
<1>5. CASE \E i \in DOMAIN todo : todo[i].op = "usmEnd" /\ SecondPass(i, fs)
    <2>1. PICK i \in DOMAIN todo : todo[i].op = "usmEnd" /\ SecondPass(i, fs)
        BY <1>5
    <2> QED BY <1>1, <2>1, SecondPassKeeps
<1> QED BY <1>3, <1>4, <1>5 DEF Fails

LEMMA LeavingPart ==
    ASSUME ResourceIInv, fate = "working", todo # <<>>
    PROVE  /\ Leaving(files) /\ Outs(Head(todo)) \cap DOMAIN files = {}
           /\ Outs(Head(todo)) \subseteq Names
           /\ \A left \in SUBSET Outs(Head(todo)) : Leaving(Written(left, FALSE))
<1>1. Shape
    BY DEF ResourceIInv
<1>2. PICK s, p : /\ s = todo /\ OnWay(s, p) /\ s # <<>> /\ Head(todo) = s[1] /\ s[1] \in Call
                  /\ p[0] \in Stands /\ p[1] \in Stands /\ Moves(s[1], p[0], p[1])
                  /\ Here(p[0]) /\ s \in Seq(Call) /\ Len(s) \in Nat \ {0}
    BY AtCall
<1>3. PICK o : o = Outs(Head(todo))
    OBVIOUS
<1>4. o \cap p[0].used = {} /\ o \subseteq Names
    BY <1>2, <1>3, OutsFresh
<1>5. o \cap DOMAIN files = {}
    BY <1>2, <1>4 DEF Here
<1>6. Leaving(files)
    BY <1>1 DEF Leaving, Shape
<1>7. ASSUME NEW left \in SUBSET o PROVE Leaving(Written(left, FALSE))
    <2>1. PICK w : w = Written(left, FALSE)
        OBVIOUS
    <2>2. left \in SUBSET Names /\ FALSE \in BOOLEAN /\ FilesIn(files) /\ pass \in Marks
        BY <1>1, <1>4 DEF Shape
    <2>3. /\ FilesIn(w) /\ DOMAIN w = DOMAIN files \cup left
          /\ \A f \in DOMAIN files \ left : w[f] = files[f]
        BY <2>1, <2>2, WrittenIn
    <2>4. \A f \in DOMAIN files : f \notin left
        BY <1>5
    <2>5. Leaving(w)
        BY <1>3, <2>3, <2>4 DEF Leaving
    <2> QED BY <2>1, <2>5
<1> QED BY <1>3, <1>4, <1>5, <1>6, <1>7

LEMMA FailCallKeeps ==
    ASSUME SizesAssumption, ResourceIInv, fate = "working", todo # <<>>,
           Head(todo).op \notin {"objectEnd", "usmEnd"}, NEW class, FailCall(class),
           UNCHANGED <<case, held, late, cancelled, fate>>
    PROVE  ResourceIInv'
<1>1. HeldStill /\ late' \in BOOLEAN
    BY DEF ResourceIInv, Shape, HeldStill
<1>2. PICK fs : fs = files
    OBVIOUS
<1>3. Leaving(fs) /\ Fails(class, fs)
    BY <1>2, LeavingPart DEF FailCall
<1> QED BY <1>1, <1>3, FailureKeeps

LEMMA FailPartKeeps ==
    ASSUME SizesAssumption, ResourceIInv, fate = "working", todo # <<>>,
           Head(todo).op \notin {"objectEnd", "usmEnd"}, NEW class,
           NEW left \in SUBSET Outs(Head(todo)), Fails(class, Written(left, FALSE)),
           UNCHANGED <<case, held, late, cancelled, fate>>
    PROVE  ResourceIInv'
<1>1. HeldStill /\ late' \in BOOLEAN
    BY DEF ResourceIInv, Shape, HeldStill
<1>2. PICK fs : fs = Written(left, FALSE)
    OBVIOUS
<1>3. Leaving(fs) /\ Fails(class, fs)
    BY <1>2, LeavingPart
<1> QED BY <1>1, <1>3, FailureKeeps

(* Nothing but the state of a command or of the clock changes.             *)
LEMMA GoingSame ==
    ASSUME Going, UNCHANGED <<case, todo, files, outputs, held, errors, pass, fate>>
    PROVE  Going'
<1>1. SUFFICES ASSUME fate = "working" PROVE \E s, p : s = todo /\ OnWay(s, p)'
    BY DEF Going
<1>2. PICK s, p : s = todo /\ OnWay(s, p)
    BY <1>1 DEF Going
<1>3. Path(s, p)'
    BY <1>2, PathSame DEF OnWay
<1>4. Promised' = Promised
    BY PromisedSame
<1>5. Here(p[0])'
    BY <1>2 DEF OnWay, Here, Recorded
<1>6. Aim(p[Len(s)])'
    BY <1>2, <1>4 DEF OnWay, Aim
<1>7. Passes(s, p)'
    BY <1>2 DEF OnWay, Passes, Passing, Cut
<1>8. Sealed(s, p[0])'
    BY <1>2 DEF OnWay, Sealed
<1>9. OnWay(s, p)'
    BY <1>2, <1>3, <1>5, <1>6, <1>7, <1>8 DEF OnWay
<1> QED BY <1>2, <1>9

LEMMA WaitKeeps ==
    ASSUME ResourceIInv, UNCHANGED <<case, todo, files, outputs, held, errors, pass, fate>>,
           media' \in [at : Stops, retry : Nat, outs : SUBSET Names], media'.retry < Attempts,
           late' \in BOOLEAN, cancelled' \in BOOLEAN, Driven'
    PROVE  ResourceIInv'
<1>1. Shape /\ Fitting /\ Once /\ There /\ Going /\ KeptIsReport
    BY DEF ResourceIInv
<1>2. Fitting' /\ Once' /\ Recorded' = Recorded
    BY <1>1, ReportSame
<1>3. There'
    BY <1>1 DEF There
<1>4. Going'
    BY <1>1, GoingSame
<1>5. Promised' = Promised /\ Players' = Players
    BY PromisedSame
<1>6. KeptIsReport'
    BY <1>1, <1>2, <1>5 DEF KeptIsReport
<1>7. Shape'
    BY <1>1, <1>5 DEF Shape
<1> QED BY <1>2, <1>3, <1>4, <1>6, <1>7 DEF ResourceIInv

LEMMA DrivenCall ==
    ASSUME ResourceIInv, media.at # "off"
    PROVE  /\ fate = "working" /\ todo # <<>>
           /\ Head(todo).op \in {"run", "encode"} /\ Head(todo).op \notin {"objectEnd", "usmEnd"}
           /\ media.outs = Outs(Head(todo)) /\ media.outs \cap DOMAIN files = {}
<1>1. fate = "working" /\ todo # <<>> /\ todo[1].op \in {"run", "encode"}
      /\ media.outs = Outs(todo[1])
    BY DEF ResourceIInv, Driven
<1>2. Head(todo) = todo[1]
    BY <1>1, AtCall
<1>3. Outs(Head(todo)) \cap DOMAIN files = {}
    BY <1>1, LeavingPart
<1> QED BY <1>1, <1>2, <1>3

LEMMA GoesKeeps ==
    ASSUME ResourceIInv, media.at # "off", NEW at \in Stops, Goes(at),
           UNCHANGED <<case, todo, files, outputs, held, errors, pass, late, cancelled, fate>>
    PROVE  ResourceIInv'
<1>1. Shape /\ Driven
    BY DEF ResourceIInv
<1>2. /\ media' \in [at : Stops, retry : Nat, outs : SUBSET Names] /\ media'.retry < Attempts
      /\ media'.outs = media.outs
    BY <1>1 DEF Shape, Goes
<1>3. Driven'
    BY <1>1, <1>2 DEF Driven, Outs
<1>4. late' \in BOOLEAN /\ cancelled' \in BOOLEAN
    BY <1>1 DEF Shape
<1> QED BY <1>2, <1>3, <1>4, WaitKeeps

-----------------------------------------------------------------------------
(* The calls, one by one.                                                  *)
LEMMA AtIs ==
    ASSUME ResourceIInv, NEW op, At(op)
    PROVE  /\ fate = "working" /\ media.at = "off" /\ todo # <<>>
           /\ Head(todo).op = op
BY DEF At

(* A call that changed nothing returns.                                    *)
LEMMA NothingReturn ==
    ASSUME ResourceIInv, fate = "working", todo # <<>>, media.at = "off",
           Head(todo).op \in {"look", "try", "fits", "open"}, Return,
           UNCHANGED <<case, files, outputs, held, pass, media, late, cancelled, fate>>,
           errors' \in {errors, errors \cup {0}}
    PROVE  ResourceIInv'
<1>1. PICK s, p : /\ s = todo /\ OnWay(s, p) /\ s # <<>> /\ Head(todo) = s[1] /\ s[1] \in Call
                  /\ p[0] \in Stands /\ p[1] \in Stands /\ Moves(s[1], p[0], p[1])
                  /\ Here(p[0]) /\ s \in Seq(Call) /\ Len(s) \in Nat \ {0}
    BY AtCall
<1>2. s[1].op \in {"look", "try", "fits", "open"} /\ s[1].op # "usmEnd"
    BY <1>1
<1>3. p[1] = p[0]
    BY <1>1, <1>2 DEF Moves
<1>4. errors' = {} => errors = {}
    OBVIOUS
<1>5. Here(p[1])'
    BY <1>1, <1>3, <1>4, HereIdle
<1>6. Shape
    BY DEF ResourceIInv
<1>7. errors' \subseteq 0 .. Len(case.objects)
    <2>1. case \in Case
        BY <1>6, CaseIn
    <2>2. 0 \in 0 .. Len(case.objects)
        BY <2>1 DEF Case
    <2> QED BY <1>6, <2>2 DEF Shape
<1>8. held' \in [bytes : Nat, objects : SUBSET Nat] /\ held'.objects \subseteq Players
    BY <1>6 DEF Shape
<1>9. todo' = Tail(todo)
    BY DEF Return
<1> QED BY <1>1, <1>2, <1>4, <1>5, <1>7, <1>8, <1>9, QuietReturn

LEMMA LookKeeps ==
    ASSUME SizesAssumption, ResourceIInv, DoLook \/ DoTry \/ DoFits \/ DoOpen
    PROVE  ResourceIInv'
<1>1. CASE DoLook
    <2>1. At("look") /\ UNCHANGED <<case, held, late, cancelled, fate>>
        BY <1>1 DEF DoLook
    <2>2. CASE FailCall("other")
        BY <2>1, <2>2, AtIs, FailCallKeeps
    <2>3. CASE Return /\ UNCHANGED <<files, outputs, errors, pass, media>>
        BY <2>1, <2>3, AtIs, NothingReturn
    <2> QED BY <1>1, <2>2, <2>3 DEF DoLook
<1>2. CASE DoTry
    <2>1. At("try") /\ UNCHANGED <<case, held, late, cancelled, fate>>
        BY <1>2 DEF DoTry
    <2>2. CASE FailCall(Head(todo).class)
        BY <2>1, <2>2, AtIs, FailCallKeeps
    <2>3. CASE Return /\ UNCHANGED <<files, outputs, errors, pass, media>>
        BY <2>1, <2>3, AtIs, NothingReturn
    <2> QED BY <1>2, <2>2, <2>3 DEF DoTry
<1>3. CASE DoFits
    <2>1. At("fits") /\ UNCHANGED <<case, held, late, cancelled, fate>>
        BY <1>3 DEF DoFits
    <2>2. CASE FailCall("other")
        BY <2>1, <2>2, AtIs, FailCallKeeps
    <2>3. CASE Return /\ UNCHANGED <<files, outputs, errors, pass, media>>
        BY <2>1, <2>3, AtIs, NothingReturn
    <2> QED BY <1>3, <2>2, <2>3 DEF DoFits
<1>4. CASE DoOpen
    <2>1. At("open") /\ UNCHANGED <<case, held, late, cancelled, fate>>
        BY <1>4 DEF DoOpen
    <2>2. CASE FailCall("other")
        BY <2>1, <2>2, AtIs, FailCallKeeps
    <2>3. CASE Return /\ errors' \in {errors, errors \cup {0}}
               /\ UNCHANGED <<files, outputs, pass, media>>
        BY <2>1, <2>3, AtIs, NothingReturn
    <2> QED BY <1>4, <2>2, <2>3 DEF DoOpen
<1> QED BY <1>1, <1>2, <1>3, <1>4

LEMMA MakeKeeps ==
    ASSUME SizesAssumption, ResourceIInv, DoMake
    PROVE  ResourceIInv'
<1>1. At("make") /\ UNCHANGED <<case, held, late, cancelled, fate>>
    BY DEF DoMake
<1>2. PICK f : f = Head(todo).file
    OBVIOUS
<1>3. fate = "working" /\ media.at = "off" /\ todo # <<>> /\ Head(todo).op = "make"
    BY <1>1, AtIs
<1>4. Outs(Head(todo)) = {f}
    BY <1>2, <1>3 DEF Outs
<1>5. CASE FailCall("other")
    BY <1>1, <1>3, <1>5, FailCallKeeps
<1>6. CASE Fails("other", Written({f}, FALSE))
    <2>1. {f} \in SUBSET Outs(Head(todo))
        BY <1>4
    <2> QED BY <1>1, <1>3, <1>6, <2>1, FailPartKeeps
<1>7. CASE Return /\ files' = Written({f}, TRUE) /\ UNCHANGED <<outputs, errors, pass, media>>
    <2>1. PICK s, p : /\ s = todo /\ OnWay(s, p) /\ s # <<>> /\ Head(todo) = s[1] /\ s[1] \in Call
                      /\ p[0] \in Stands /\ p[1] \in Stands /\ Moves(s[1], p[0], p[1])
                      /\ Here(p[0]) /\ s \in Seq(Call) /\ Len(s) \in Nat \ {0}
        BY <1>3, AtCall
    <2>2. Puts({f}, p[0], p[1]) /\ s[1].op # "usmEnd"
        BY <1>2, <1>3, <2>1 DEF Moves
    <2>3. PICK fs : fs = {f}
        OBVIOUS
    <2>4. todo' = Tail(todo)
        BY <1>7 DEF Return
    <2> QED BY <1>1, <1>3, <1>7, <2>1, <2>2, <2>3, <2>4, PutReturn
<1> QED BY <1>2, <1>5, <1>6, <1>7 DEF DoMake

LEMMA RecordKeeps ==
    ASSUME SizesAssumption, ResourceIInv, DoRecord
    PROVE  ResourceIInv'
<1>1. At("record") /\ UNCHANGED <<case, held, late, cancelled, fate>>
    BY DEF DoRecord
<1>2. fate = "working" /\ media.at = "off" /\ todo # <<>> /\ Head(todo).op = "record"
    BY <1>1, AtIs
<1>3. PICK s, p : /\ s = todo /\ OnWay(s, p) /\ s # <<>> /\ Head(todo) = s[1] /\ s[1] \in Call
                  /\ p[0] \in Stands /\ p[1] \in Stands /\ Moves(s[1], p[0], p[1])
                  /\ Here(p[0]) /\ s \in Seq(Call) /\ Len(s) \in Nat \ {0}
    BY <1>2, AtCall
<1>4. PICK f : f = s[1].file
    OBVIOUS
<1>5. /\ s[1].op = "record" /\ f \in p[0].have
      /\ p[1] = Stand(p[0].have \ {f}, p[0].used, p[0].told \cup {f}, p[0].kept)
    BY <1>2, <1>3, <1>4 DEF Moves
<1>6. CASE FailCall("other")
    BY <1>1, <1>2, <1>6, FailCallKeeps
<1>7. CASE ~FailCall("other")
    <2>1. /\ HasRoom(f) /\ todo' = Tail(todo)
          /\ outputs' = Append(outputs, [file |-> f, pass |-> pass])
          /\ UNCHANGED <<files, errors, pass, media>>
        BY <1>3, <1>4, <1>7 DEF DoRecord, Return
    <2> QED BY <1>1, <1>2, <1>3, <1>5, <2>1, RecordReturn
<1> QED BY <1>6, <1>7

LEMMA DropKeeps ==
    ASSUME SizesAssumption, ResourceIInv, DoDrop
    PROVE  ResourceIInv'
<1>1. At("drop") /\ UNCHANGED <<case, held, late, cancelled, fate>>
    BY DEF DoDrop
<1>2. fate = "working" /\ media.at = "off" /\ todo # <<>> /\ Head(todo).op = "drop"
    BY <1>1, AtIs
<1>3. PICK s, p : /\ s = todo /\ OnWay(s, p) /\ s # <<>> /\ Head(todo) = s[1] /\ s[1] \in Call
                  /\ p[0] \in Stands /\ p[1] \in Stands /\ Moves(s[1], p[0], p[1])
                  /\ Here(p[0]) /\ s \in Seq(Call) /\ Len(s) \in Nat \ {0}
    BY <1>2, AtCall
<1>4. PICK f : f = s[1].file
    OBVIOUS
<1>5. /\ s[1].op = "drop" /\ f \in p[0].have
      /\ p[1] = Stand(p[0].have \ {f}, p[0].used, p[0].told, p[0].kept)
    BY <1>2, <1>3, <1>4 DEF Moves
<1>6. CASE FailCall("other")
    BY <1>1, <1>2, <1>6, FailCallKeeps
<1>7. CASE ~FailCall("other")
    <2>1. /\ todo' = Tail(todo) /\ files' = Without({f})
          /\ UNCHANGED <<outputs, errors, pass, media>>
        BY <1>3, <1>4, <1>7 DEF DoDrop, Return
    <2> QED BY <1>1, <1>2, <1>3, <1>5, <2>1, DropReturn
<1> QED BY <1>6, <1>7

LEMMA HoldKeeps ==
    ASSUME SizesAssumption, ResourceIInv, DoHold
    PROVE  ResourceIInv'
<1>1. At("hold") /\ UNCHANGED <<case, late, cancelled, fate>>
    BY DEF DoHold
<1>2. fate = "working" /\ media.at = "off" /\ todo # <<>> /\ Head(todo).op = "hold"
    BY <1>1, AtIs
<1>3. PICK s, p : /\ s = todo /\ OnWay(s, p) /\ s # <<>> /\ Head(todo) = s[1] /\ s[1] \in Call
                  /\ p[0] \in Stands /\ p[1] \in Stands /\ Moves(s[1], p[0], p[1])
                  /\ Here(p[0]) /\ s \in Seq(Call) /\ Len(s) \in Nat \ {0}
    BY <1>2, AtCall
<1>4. PICK n : n = s[1].number
    OBVIOUS
<1>5. /\ s[1].op = "hold" /\ n \in Players
      /\ p[1] = Stand(p[0].have, p[0].used, p[0].told, p[0].kept \cup {n})
    BY <1>2, <1>3, <1>4 DEF Moves
<1>6. Shape
    BY DEF ResourceIInv
<1>7. PICK bytes \in Nat : bytes = held.bytes + Size(Playable)
    <2>1. Playable \in Names
        BY FileIn, DirsIn DEF Playable, Extensions
    <2>2. Size(Playable) \in Nat /\ held.bytes \in Nat
        BY <1>6, <2>1 DEF SizesAssumption, Shape
    <2> QED BY <2>2
<1>8. CASE held' = [held EXCEPT !.bytes = bytes] /\ FailCall("other")
    <2>1. HeldStill
        BY <1>6, <1>8 DEF Shape, HeldStill
    <2>2. PICK fs : fs = files
        OBVIOUS
    <2>3. Leaving(fs) /\ Fails("other", fs) /\ late' \in BOOLEAN
        BY <1>1, <1>2, <1>6, <1>8, <2>2, LeavingPart DEF FailCall, Shape
    <2> QED BY <1>1, <1>2, <2>1, <2>3, FailureKeeps
<1>9. CASE /\ held' = [bytes |-> bytes, objects |-> held.objects \cup {n}]
           /\ Return /\ UNCHANGED <<files, outputs, errors, pass, media>>
    <2>1. n \in Nat
        <3>1. case \in Case
            BY <1>6, CaseIn
        <3> QED BY <1>5, <3>1 DEF Players, Case
    <2>2. held' \in [bytes : Nat, objects : SUBSET Nat] /\ held'.objects \subseteq Players
        BY <1>5, <1>6, <1>9, <2>1 DEF Shape
    <2>3. Here(p[1])'
        <3>1. held'.objects = held.objects \cup {n}
            BY <1>9
        <3> QED BY <1>3, <1>5, <1>9, <3>1, HereHold
    <2>4. errors' \subseteq 0 .. Len(case.objects)
        BY <1>6, <1>9 DEF Shape
    <2>5. todo' = Tail(todo)
        BY <1>9 DEF Return
    <2>6. s[1].op # "usmEnd"
        BY <1>5
    <2> QED BY <1>1, <1>2, <1>3, <1>9, <2>2, <2>3, <2>4, <2>5, <2>6, QuietReturn
<1> QED BY <1>3, <1>4, <1>7, <1>8, <1>9 DEF DoHold

LEMMA ObjectEndKeeps ==
    ASSUME SizesAssumption, ResourceIInv, DoObjectEnd
    PROVE  ResourceIInv'
<1>1. At("objectEnd") /\ UNCHANGED <<case, files, outputs, held, pass, media, late, cancelled, fate>>
    BY DEF DoObjectEnd
<1>2. fate = "working" /\ media.at = "off" /\ todo # <<>> /\ Head(todo).op = "objectEnd"
    BY <1>1, AtIs
<1>3. PICK s, p : /\ s = todo /\ OnWay(s, p) /\ s # <<>> /\ Head(todo) = s[1] /\ s[1] \in Call
                  /\ p[0] \in Stands /\ p[1] \in Stands /\ Moves(s[1], p[0], p[1])
                  /\ Here(p[0]) /\ s \in Seq(Call) /\ Len(s) \in Nat \ {0}
    BY <1>2, AtCall
<1>4. Shape
    BY DEF ResourceIInv
<1>5. held' \in [bytes : Nat, objects : SUBSET Nat] /\ held'.objects \subseteq Players
    BY <1>1, <1>4 DEF Shape
<1>6. CASE Return /\ UNCHANGED errors
    <2>1. PICK F : F = Foot(s[1].number)
        OBVIOUS
    <2>2. s[1].op = "objectEnd"
        BY <1>2, <1>3
    <2>3. p[0].have = {} /\ p[1] = Stand({}, p[0].used \cup F, p[0].told, p[0].kept)
        BY <1>3, <2>1, <2>2 DEF Moves
    <2>4. p[1].have = {} /\ p[1].used = p[0].used \cup F /\ p[1].told = p[0].told
          /\ p[1].kept = p[0].kept
        BY <2>3, FitStand
    <2>5. Here(p[1])'
        BY <1>1, <1>3, <1>6, <2>3, <2>4, HereUsed
    <2>6. errors' \subseteq 0 .. Len(case.objects)
        BY <1>4, <1>6 DEF Shape
    <2>7. todo' = Tail(todo)
        BY <1>6 DEF Return
    <2>8. s[1].op # "usmEnd"
        BY <2>2
    <2> QED BY <1>1, <1>2, <1>3, <1>5, <1>6, <2>5, <2>6, <2>7, <2>8, QuietReturn
<1>7. CASE Reported(0) /\ todo' = <<>>
    <2>1. AtRest /\ HeldStill /\ late' \in BOOLEAN
        BY <1>1, <1>2, <1>4 DEF AtRest, HeldStill, Shape
    <2>2. PICK fs : fs = files
        OBVIOUS
    <2>3. Leaving(fs) /\ files' = fs
        BY <1>1, <1>2, <2>2, LeavingPart
    <2> QED BY <1>1, <1>2, <1>7, <2>1, <2>3, FatalKeeps DEF Reported
<1> QED BY <1>6, <1>7 DEF DoObjectEnd

LEMMA UnfoldKeeps ==
    ASSUME SizesAssumption, ResourceIInv, DoObject \/ DoMerge \/ DoUsm \/ DoUsmEnd
    PROVE  ResourceIInv'
<1>1. /\ fate = "working" /\ media.at = "off" /\ todo # <<>>
      /\ UNCHANGED <<case, files, outputs, held, errors, media, late, cancelled, fate>>
    BY DEF DoObject, DoMerge, DoUsm, DoUsmEnd, At
<1>2. PICK s, p : /\ s = todo /\ OnWay(s, p) /\ s # <<>> /\ Head(todo) = s[1] /\ s[1] \in Call
                  /\ p[0] \in Stands /\ p[1] \in Stands /\ Moves(s[1], p[0], p[1])
                  /\ Here(p[0]) /\ s \in Seq(Call) /\ Len(s) \in Nat \ {0}
    BY <1>1, AtCall
<1>3. CASE DoObject
    <2>1. PICK n : n = s[1].number
        OBVIOUS
    <2>2. /\ s[1].op = "object" /\ UNCHANGED pass
          /\ todo' = Append(Body(n), [op |-> "objectEnd", number |-> n]) \o Tail(s)
        BY <1>2, <1>3, <2>1 DEF DoObject, At, Unfold
    <2> QED BY <1>1, <1>2, <2>1, <2>2, ObjectUnfolds
<1>4. CASE DoMerge
    <2>1. /\ s[1].op = "merge" /\ UNCHANGED pass
          /\ todo' = (IF held.objects = {} THEN <<>> ELSE <<Look, Try("other")>> \o Saved(Playable))
                     \o Tail(s)
        BY <1>2, <1>4 DEF DoMerge, At, Unfold
    <2> QED BY <1>1, <1>2, <2>1, MergeUnfolds
<1>5. CASE DoUsm
    <2>1. PICK dir : dir = s[1].dir
        OBVIOUS
    <2>2. /\ s[1].op = "usm" /\ pass' = "masked"
          /\ todo' = Append(UsmDecode(dir), [op |-> "usmEnd", dir |-> dir, start |-> Len(outputs)])
                     \o Tail(s)
        BY <1>2, <1>5, <2>1 DEF DoUsm, At, Unfold
    <2> QED BY <1>1, <1>2, <2>1, <2>2, UsmUnfolds
<1>6. CASE DoUsmEnd
    <2>1. s[1].op = "usmEnd" /\ todo' = Tail(todo) /\ pass' = "none"
        BY <1>2, <1>6 DEF DoUsmEnd, At, Return
    <2> QED BY <1>1, <1>2, <2>1, UsmEndReturn
<1> QED BY <1>3, <1>4, <1>5, <1>6

-----------------------------------------------------------------------------
(* Commands and encodings, one by one.                                     *)
LEMMA WaitingKeeps ==
    ASSUME ResourceIInv, At("run") \/ At("encode"), NEW at \in Stops,
           media' = [at |-> at, retry |-> 0, outs |-> Outs(Head(todo))], late' \in BOOLEAN,
           UNCHANGED <<case, todo, files, outputs, held, errors, pass, cancelled, fate>>
    PROVE  ResourceIInv'
<1>1. fate = "working" /\ todo # <<>> /\ Head(todo).op \in {"run", "encode"}
    BY DEF At
<1>2. Shape
    BY DEF ResourceIInv
<1>3. Head(todo) = todo[1]
    BY <1>1, AtCall
<1>4. PICK o : o = Outs(Head(todo))
    OBVIOUS
<1>5. o \subseteq Names
    BY <1>1, <1>4, LeavingPart
<1>6. /\ media' \in [at : Stops, retry : Nat, outs : SUBSET Names] /\ media'.retry < Attempts
      /\ media'.outs = o
    BY <1>4, <1>5, CasesAssumption
<1>7. Driven'
    BY <1>1, <1>3, <1>4, <1>6 DEF Driven, Outs
<1>8. cancelled' \in BOOLEAN
    BY <1>2 DEF Shape
<1> QED BY <1>6, <1>7, <1>8, WaitKeeps

LEMMA StartsKeep ==
    ASSUME SizesAssumption, ResourceIInv, DoRun \/ DoEncode
    PROVE  ResourceIInv'
<1>1. "gate" \in Stops /\ "stage" \in Stops
    BY DEF Stops
<1>2. CASE DoRun
    <2>1. Outs(Head(todo)) = Head(todo).files
        BY <1>2 DEF DoRun, At, Outs
    <2> QED BY <1>1, <1>2, <2>1, WaitingKeeps DEF DoRun
<1>3. CASE DoEncode
    <2>1. At("encode") /\ UNCHANGED <<case, held, cancelled, fate>>
        BY <1>3 DEF DoEncode
    <2>2. Outs(Head(todo)) = {Head(todo).file}
        BY <2>1 DEF At, Outs
    <2>3. CASE FailCall("other") /\ UNCHANGED late
        BY <2>1, <2>3, AtIs, FailCallKeeps
    <2>4. CASE ~(FailCall("other") /\ UNCHANGED late)
        BY <1>1, <1>3, <2>1, <2>2, <2>4, WaitingKeeps DEF DoEncode
    <2> QED BY <2>3, <2>4
<1> QED BY <1>2, <1>3

LEMMA ProducedKeeps ==
    ASSUME ResourceIInv, media.at # "off", Produced
    PROVE  ResourceIInv'
<1>1. /\ fate = "working" /\ todo # <<>> /\ Head(todo).op \in {"run", "encode"}
      /\ media.outs = Outs(Head(todo))
    BY DrivenCall
<1>2. PICK s, p : /\ s = todo /\ OnWay(s, p) /\ s # <<>> /\ Head(todo) = s[1] /\ s[1] \in Call
                  /\ p[0] \in Stands /\ p[1] \in Stands /\ Moves(s[1], p[0], p[1])
                  /\ Here(p[0]) /\ s \in Seq(Call) /\ Len(s) \in Nat \ {0}
    BY <1>1, AtCall
<1>3. PICK fs : fs = media.outs
    OBVIOUS
<1>4. Puts(fs, p[0], p[1]) /\ s[1].op # "usmEnd"
    BY <1>1, <1>2, <1>3 DEF Moves, Outs
<1>5. /\ files' = Written(fs, TRUE) /\ todo' = Tail(todo) /\ media' = Quiet
      /\ UNCHANGED <<case, outputs, held, errors, pass, late, cancelled, fate>>
    BY <1>3 DEF Produced, Return
<1> QED BY <1>1, <1>2, <1>4, <1>5, PutReturn

LEMMA DrivenFails ==
    ASSUME SizesAssumption, ResourceIInv, media.at # "off", NEW class, FailCall(class),
           UNCHANGED <<case, held, late, cancelled, fate>>
    PROVE  ResourceIInv'
BY DrivenCall, FailCallKeeps

LEMMA DrivenLeaves ==
    ASSUME SizesAssumption, ResourceIInv, media.at # "off", NEW class,
           NEW left \in SUBSET media.outs, Fails(class, Written(left, FALSE)),
           UNCHANGED <<case, held, late, cancelled, fate>>
    PROVE  ResourceIInv'
BY DrivenCall, FailPartKeeps

(* Another attempt meets no file of this one.                              *)
LEMMA RetryKeeps ==
    ASSUME ResourceIInv, media.at # "off", media.retry + 1 < Attempts,
           files' = Without(media.outs),
           media' = [media EXCEPT !.at = "pause", !.retry = @ + 1],
           UNCHANGED <<case, todo, outputs, held, errors, pass, late, cancelled, fate>>
    PROVE  ResourceIInv'
<1>1. Shape /\ Driven
    BY DEF ResourceIInv
<1>2. files' = files
    <2>1. media.outs \cap DOMAIN files = {} /\ FilesIn(files)
        BY <1>1, DrivenCall DEF Shape
    <2> QED BY <2>1, WithoutNone
<1>3. /\ media' \in [at : Stops, retry : Nat, outs : SUBSET Names] /\ media'.retry < Attempts
      /\ media'.outs = media.outs
    <2>1. media \in [at : Stops, retry : Nat, outs : SUBSET Names]
        BY <1>1 DEF Shape
    <2>2. media.retry \in Nat /\ media.outs \in SUBSET Names /\ "pause" \in Stops
        BY <2>1 DEF Stops
    <2>3. media' = [at |-> "pause", retry |-> media.retry + 1, outs |-> media.outs]
        BY <2>1
    <2> QED BY <2>2, <2>3
<1>4. Driven'
    BY <1>1, <1>3 DEF Driven, Outs
<1>5. late' \in BOOLEAN /\ cancelled' \in BOOLEAN
    BY <1>1 DEF Shape
<1> QED BY <1>2, <1>3, <1>4, <1>5, WaitKeeps

LEMMA CommandsKeep ==
    ASSUME SizesAssumption, ResourceIInv, Commands \/ Child
    PROVE  ResourceIInv'
<1>1. {"gate", "ffiGate", "running"} \subseteq Stops
    BY DEF Stops
<1>2. media.at # "off"
    BY DEF Commands, Child, Refused, Staged, Spawn, SpawnFails, Killed, Resume, ChildSucceeds,
           ChildFails
<1>3. CASE Refused
    BY <1>2, <1>3, DrivenFails DEF Refused
<1>4. CASE Staged
    <2>1. UNCHANGED <<case, held, late, cancelled, fate>>
        BY <1>4 DEF Staged
    <2>2. CASE FailCall("other")
        BY <1>2, <2>1, <2>2, DrivenFails
    <2>3. CASE /\ Goes("gate") \/ Goes("ffiGate")
               /\ UNCHANGED <<todo, files, outputs, errors, pass>>
        BY <1>1, <1>2, <2>1, <2>3, GoesKeeps
    <2> QED BY <1>4, <2>2, <2>3 DEF Staged
<1>5. CASE Spawn
    BY <1>1, <1>2, <1>5, GoesKeeps DEF Spawn, Waits
<1>6. CASE SpawnFails
    <2>1. TryAgain("other", files) /\ UNCHANGED <<case, held, late, cancelled, fate>>
        BY <1>6 DEF SpawnFails
    <2>2. CASE Fails("other", files)
        BY <1>2, <2>1, <2>2, DrivenFails DEF FailCall
    <2>3. CASE ~Fails("other", files)
        BY <1>2, <2>1, <2>3, RetryKeeps DEF TryAgain
    <2> QED BY <2>2, <2>3
<1>7. CASE Killed
    <2>1. PICK left \in SUBSET (media.outs \ DOMAIN files) : Fails("other", Written(left, FALSE))
        BY <1>7 DEF Killed, Partial
    <2>2. left \in SUBSET media.outs /\ UNCHANGED <<case, held, late, cancelled, fate>>
        BY <1>7 DEF Killed
    <2> QED BY <1>2, <2>1, <2>2, DrivenLeaves
<1>8. CASE Resume
    <2>1. UNCHANGED <<case, held, late, cancelled, fate>>
        BY <1>8 DEF Resume
    <2>2. CASE FailCall("other")
        BY <1>2, <2>1, <2>2, DrivenFails
    <2>3. CASE Goes("gate") /\ UNCHANGED <<todo, files, outputs, errors, pass>>
        BY <1>1, <1>2, <2>1, <2>3, GoesKeeps
    <2> QED BY <1>8, <2>2, <2>3 DEF Resume
<1>9. CASE ChildSucceeds
    BY <1>2, <1>9, ProducedKeeps DEF ChildSucceeds
<1>10. CASE ChildFails
    <2>1. PICK left \in SUBSET (media.outs \ DOMAIN files) :
              TryAgain("decode", Written(left, FALSE))
        BY <1>10 DEF ChildFails, Partial
    <2>2. left \in SUBSET media.outs /\ UNCHANGED <<case, held, late, cancelled, fate>>
        BY <1>10 DEF ChildFails
    <2>3. CASE Fails("decode", Written(left, FALSE))
        BY <1>2, <2>2, <2>3, DrivenLeaves
    <2>4. CASE ~Fails("decode", Written(left, FALSE))
        BY <1>2, <2>1, <2>2, <2>4, RetryKeeps DEF TryAgain
    <2> QED BY <2>3, <2>4
<1> QED BY <1>3, <1>4, <1>5, <1>6, <1>7, <1>8, <1>9, <1>10 DEF Commands, Child

LEMMA LinkedKeeps ==
    ASSUME SizesAssumption, ResourceIInv, FfiBegins \/ FfiDone \/ FfiFails
    PROVE  ResourceIInv'
<1>1. {"gate", "ffi"} \subseteq Stops
    BY DEF Stops
<1>2. media.at # "off"
    BY DEF FfiBegins, FfiDone, FfiFails
<1>3. CASE FfiBegins
    BY <1>1, <1>2, <1>3, GoesKeeps DEF FfiBegins, Waits
<1>4. CASE FfiDone
    BY <1>2, <1>4, ProducedKeeps DEF FfiDone
<1>5. CASE FfiFails
    <2>1. UNCHANGED <<case, held, late, cancelled, fate>>
        BY <1>5 DEF FfiFails
    <2>2. CASE FailCall("other")
        BY <1>2, <2>1, <2>2, DrivenFails
    <2>3. CASE \E left \in SUBSET media.outs : Fails("other", Written(left, FALSE))
        BY <1>2, <2>1, <2>3, DrivenLeaves
    <2>4. CASE Goes("gate") /\ UNCHANGED <<todo, files, outputs, errors, pass>>
        BY <1>1, <1>2, <2>1, <2>4, GoesKeeps
    <2> QED BY <1>5, <2>2, <2>3, <2>4 DEF FfiFails
<1> QED BY <1>3, <1>4, <1>5

LEMMA AroundKeeps ==
    ASSUME ResourceIInv, Expire \/ CancelResource
    PROVE  ResourceIInv'
<1>1. Shape /\ Driven
    BY DEF ResourceIInv
<1>2. /\ UNCHANGED <<case, todo, files, outputs, held, errors, pass, media, fate>>
      /\ late' \in BOOLEAN /\ cancelled' \in BOOLEAN
    BY <1>1 DEF Expire, CancelResource, Shape
<1>3. media' \in [at : Stops, retry : Nat, outs : SUBSET Names] /\ media'.retry < Attempts
    BY <1>1, <1>2 DEF Shape
<1>4. Driven'
    BY <1>1, <1>2 DEF Driven, Outs
<1> QED BY <1>2, <1>3, <1>4, WaitKeeps

(* A resource that is kept stands at the end of its path.                  *)
LEMMA KeepKeeps ==
    ASSUME ResourceIInv, Keep
    PROVE  ResourceIInv'
<1>1. /\ fate = "working" /\ todo = <<>> /\ errors = {} /\ fate' = "kept" /\ media.at = "off"
      /\ UNCHANGED <<case, todo, files, outputs, held, errors, pass, media, late, cancelled>>
    BY DEF Keep, Finished
<1>2. Shape /\ Fitting /\ Once /\ There
    BY DEF ResourceIInv
<1>3. Fitting' /\ Once' /\ Recorded' = Recorded
    BY <1>1, <1>2, ReportSame
<1>4. There' /\ Driven' /\ Going'
    BY <1>1 DEF There, Driven, Going
<1>5. Promised' = Promised /\ Players' = Players
    BY <1>1, PromisedSame
<1>6. Shape'
    BY <1>1, <1>2, <1>5 DEF Shape
<1>7. PICK s, p : s = todo /\ OnWay(s, p)
    BY <1>1 DEF ResourceIInv, Going
<1>8. Here(p[0]) /\ Aim(p[0])
    BY <1>1, <1>7 DEF OnWay
<1>9. p[0].have = {} /\ Recorded = Promised /\ DOMAIN files = Recorded
    BY <1>1, <1>8 DEF Here, Aim
<1>10. ASSUME NEW f \in DOMAIN files PROVE files[f].whole
    <2>1. PICK n \in DOMAIN outputs : outputs[n].file = f
        BY <1>9 DEF Recorded
    <2>2. n \in 1 .. Len(outputs)
        BY <1>2, <2>1 DEF Shape
    <2>3. files[f] = [whole |-> TRUE, pass |-> outputs[n].pass]
        BY <1>1, <1>2, <2>1, <2>2 DEF There
    <2> QED BY <2>3
<1>11. KeptIsReport'
    BY <1>1, <1>3, <1>5, <1>9, <1>10 DEF KeptIsReport
<1> QED BY <1>3, <1>4, <1>6, <1>11 DEF ResourceIInv

LEMMA DiscardKeeps ==
    ASSUME ResourceIInv, Discard
    PROVE  ResourceIInv'
<1>1. /\ fate' = "dropped" /\ files' = <<>> /\ media.at = "off"
      /\ UNCHANGED <<case, todo, outputs, held, errors, pass, media, late, cancelled>>
    BY DEF Discard, Finished
<1>2. Shape /\ Fitting /\ Once
    BY DEF ResourceIInv
<1>3. Fitting' /\ Once'
    BY <1>1, <1>2, ReportSame
<1>4. There' /\ Driven' /\ Going' /\ KeptIsReport'
    BY <1>1 DEF There, Driven, Going, KeptIsReport
<1>5. FilesIn(files')
    <2>1. PICK e : e = <<>>
        OBVIOUS
    <2>2. DOMAIN e = {} /\ e = [f \in DOMAIN e |-> e[f]]
        BY <2>1
    <2> QED BY <1>1, <2>1, <2>2 DEF FilesIn
<1>6. Players' = Players
    BY <1>1, PromisedSame
<1>7. Shape'
    BY <1>1, <1>2, <1>5, <1>6 DEF Shape
<1> QED BY <1>3, <1>4, <1>7 DEF ResourceIInv

LEMMA ResourceStays ==
    ASSUME ResourceIInv, UNCHANGED resource
    PROVE  ResourceIInv'
<1>1. Shape /\ Driven
    BY DEF ResourceIInv
<1>2. UNCHANGED <<case, todo, files, outputs, held, errors, pass, media, late, cancelled, fate>>
    BY DEF resource
<1>3. /\ media' \in [at : Stops, retry : Nat, outs : SUBSET Names] /\ media'.retry < Attempts
      /\ late' \in BOOLEAN /\ cancelled' \in BOOLEAN
    BY <1>1, <1>2 DEF Shape
<1>4. Driven'
    BY <1>1, <1>2 DEF Driven, Outs
<1> QED BY <1>2, <1>3, <1>4, WaitKeeps

LEMMA ResourceStepKeeps ==
    ASSUME SizesAssumption, ResourceIInv, [Step]_mediaVars
    PROVE  ResourceIInv'
<1>1. CASE Calls
    BY <1>1, LookKeeps, MakeKeeps, RecordKeeps, DropKeeps, HoldKeeps, ObjectEndKeeps, UnfoldKeeps,
       StartsKeep, KeepKeeps, DiscardKeeps DEF Calls
<1>2. CASE Commands \/ Child
    BY <1>2, CommandsKeep
<1>3. CASE Begins \/ Succeeds \/ GivesUp
    BY <1>3, LinkedKeeps DEF Begins, Succeeds, GivesUp
<1>4. CASE Converts \/ UNCHANGED mediaVars
    BY <1>4, ResourceStays DEF Converts, mediaVars
<1>5. CASE Expires \/ CancelResource
    BY <1>5, AroundKeeps DEF Expires
<1> QED BY <1>1, <1>2, <1>3, <1>4, <1>5 DEF Step, Own

-----------------------------------------------------------------------------
(* No pass over a USM is under way at first: its end would need the files  *)
(* of a USM in the report.                                                 *)
LEMMA NoUsmAhead ==
    ASSUME NEW s \in Seq(Call), NEW p, Path(s, p),
           \A f \in p[Len(s)].told : f[3] # "m2v"
    PROVE  \A i \in 1 .. Len(s) : s[i].op # "usmEnd"
<1>1. SUFFICES ASSUME NEW i \in 1 .. Len(s), s[i].op = "usmEnd" PROVE FALSE
    OBVIOUS
<1>2. PICK m \in Nat : m = Len(s) /\ i - 1 \in 0 .. m /\ m \in 0 .. m /\ i - 1 <= m
    OBVIOUS
<1>3. PICK d : d = s[i].dir
    OBVIOUS
<1>4. Moves(s[i], p[i - 1], p[i])
    BY Along
<1>5. p[i - 1].told \cap Within(d) = OfUsm(d)
    BY <1>1, <1>3, <1>4 DEF Moves
<1>6. Onward(p[i - 1], p[m])
    BY <1>2, PathOnward
<1>7. File(d, "video", "m2v") \in OfUsm(d)
    BY DEF OfUsm
<1>8. File(d, "video", "m2v") \in p[m].told /\ File(d, "video", "m2v")[3] = "m2v"
    BY <1>5, <1>6, <1>7 DEF Onward, File
<1> QED BY <1>2, <1>8

LEMMA NoUsmYet ==
    ASSUME case \in Case, NEW s \in Seq(Call), s = ProcessResource, NEW p, Path(s, p),
           p[Len(s)].told = Promised
    PROVE  \A i \in 1 .. Len(s) : s[i].op # "usmEnd"
<1>1. /\ case.raw \in {"no", "alongside", "only"} /\ case.provider \in {"unity", "cri"}
      /\ case.audio \subseteq {"wav", "flac", "mp3"}
    BY DEF Case
<1>2. \A f \in OfRaw : f[3] # "m2v"
    BY DEF OfRaw, File
<1>3. ASSUME NEW d PROVE \A f \in OfAcb(d) : f[3] # "m2v"
    <2>1. ASSUME NEW n PROVE \A f \in OfWave(d, n) : f[3] # "m2v"
        BY <1>1 DEF OfWave, OfAudio, Nth
    <2> QED BY <2>1 DEF OfAcb, File
<1>4. CASE case.raw = "only"
    <2>1. Promised = OfRaw
        BY <1>4 DEF Promised
    <2> QED BY <1>2, <2>1, NoUsmAhead
<1>5. CASE case.provider = "unity"
    BY <1>5, UnityCalls
<1>6. CASE case.raw # "only" /\ case.provider = "cri" /\ (case.container = "acb" \/ case.preserve)
    <2>1. \A f \in OfCri : f[3] # "m2v"
        BY <1>3, <1>6 DEF OfCri, File
    <2>2. Promised \subseteq OfRaw \cup OfCri
        BY <1>6 DEF Promised
    <2>3. \A f \in p[Len(s)].told : f[3] # "m2v"
        BY <1>2, <2>1, <2>2
    <2> QED BY <2>3, NoUsmAhead
<1>7. CASE case.raw # "only" /\ case.provider = "cri" /\ ~(case.container = "acb" \/ case.preserve)
    <2>1. PICK Others : Others = {c \in Call : c.op # "usmEnd"}
        OBVIOUS
    <2>2. PICK a, b, c : /\ a = (IF case.raw = "no" THEN <<>> ELSE RawBundle)
                         /\ b = <<Try("other")>>
                         /\ c = (IF case.container = "usm" THEN <<Try("other"), Usm(Root)>>
                                 ELSE <<Try("other"), Usm(Dir("color")), Usm(Dir("alpha"))>>)
        OBVIOUS
    <2>3. s = a \o (b \o c)
        BY <1>7, <2>2 DEF ProcessResource, Cri
    <2>4. /\ Try("other") \in Others /\ Look \in Others
          /\ \A d \in Dirs : Usm(d) \in Others
          /\ \A f \in Names : Fits(f) \in Others /\ Make(f) \in Others /\ Record(f) \in Others
        BY <2>1, CallsIn DEF Try, Look, Usm, Fits, Make, Record
    <2>5. Root \in Dirs /\ Dir("color") \in Dirs /\ Dir("alpha") \in Dirs /\ Dir("raw") \in Dirs
        BY DirsIn
    <2>6. RawBundle \in Seq(Others)
        <3>1. PICK f \in Names : f = File(Dir("raw"), "bundle", "ab")
            BY <2>5, FileIn DEF Extensions
        <3>2. RawBundle = <<Fits(f), Look, Make(f), Try("other"), Record(f)>>
            BY <3>1 DEF RawBundle
        <3> QED BY <2>4, <3>2
    <2>7. a \in Seq(Others)
        BY <2>2, <2>6
    <2>8. b \in Seq(Others)
        BY <2>2, <2>4
    <2>9. c \in Seq(Others)
        BY <2>2, <2>4, <2>5
    <2>10. b \o c \in Seq(Others)
        BY <2>8, <2>9, SeqJoin
    <2>11. s \in Seq(Others)
        BY <2>3, <2>7, <2>10, SeqJoin
    <2> QED BY <2>1, <2>11
<1> QED BY <1>1, <1>4, <1>5, <1>6, <1>7

-----------------------------------------------------------------------------
(* A resource begins with the calls of its case.                           *)
LEMMA ResourceBegins ==
    ASSUME ResourceInit
    PROVE  ResourceIInv
<1>1. /\ case \in Cases /\ todo = ProcessResource /\ files = <<>> /\ outputs = <<>>
      /\ held = [bytes |-> 0, objects |-> {}] /\ errors = {} /\ pass = "none" /\ media = Quiet
      /\ late = FALSE /\ cancelled \in BOOLEAN /\ fate = "working"
    BY DEF ResourceInit
<1>2. case \in Case /\ IsInjective(case.images)
    BY <1>1, CasesAssumption
<1>3. PICK H : Closed(ProcessResource, Names, Promised, H)
    BY <1>2, ResourceClosed
<1>4. PICK a : a = Stand({}, {}, {}, {})
    OBVIOUS
<1>5. Fit({}, {}, {}, {}) /\ Apart({}, Names)
    BY DEF Fit, Apart
<1>6. todo \in Seq(Call) /\ Ends(todo, Names, Promised, H, {}, {}, {})
    BY <1>1, <1>3, <1>5 DEF Closed
<1>7. PICK U \in SUBSET Names :
          Piece(todo, a, Stand({}, {} \cup U, {} \cup Promised, {} \cup H))
    BY <1>4, <1>6 DEF Ends
<1>8. PICK b : b = Stand({}, {} \cup U, {} \cup Promised, {} \cup H)
    OBVIOUS
<1>9. PICK p : Path(todo, p) /\ p[0] = a /\ p[Len(todo)] = b
    BY <1>7, <1>8 DEF Piece
<1>10. a.have = {} /\ a.told = {} /\ a.used = {} /\ a.kept = {}
       /\ b.have = {} /\ b.told = Promised
    BY <1>4, <1>8, FitStand
<1>11. Recorded = {} /\ DOMAIN files = {} /\ Len(outputs) = 0 /\ 1 .. Len(outputs) = {}
       /\ DOMAIN outputs = {}
    BY <1>1 DEF Recorded
<1>12. Here(p[0]) /\ Aim(p[Len(todo)])
    BY <1>1, <1>9, <1>10, <1>11 DEF Here, Aim
<1>13. Sealed(todo, p[0])
    BY <1>11 DEF Sealed
<1>14. Passes(todo, p)
    <2>1. todo \in Seq(Call) /\ Path(todo, p) /\ p[Len(todo)].told = Promised
        BY <1>6, <1>9, <1>10
    <2>2. \A i \in 1 .. Len(todo) : todo[i].op # "usmEnd"
        BY <1>1, <1>2, <2>1, NoUsmYet
    <2> QED BY <1>1, <2>2 DEF Passes
<1>15. Going
    BY <1>6, <1>9, <1>12, <1>13, <1>14 DEF Going, OnWay
<1>16. Fitting
    <2>1. Total = 0
        BY <1>11, SumEmpty DEF Total
    <2>2. case.room \in Nat
        BY <1>2 DEF Case
    <2> QED BY <2>1, <2>2 DEF Fitting
<1>17. Once /\ There /\ Driven /\ KeptIsReport
    BY <1>1, <1>11 DEF Once, There, Driven, KeptIsReport, Quiet
<1>18. FilesIn(files)
    <2>1. PICK e : e = <<>>
        OBVIOUS
    <2>2. DOMAIN e = {} /\ e = [f \in DOMAIN e |-> e[f]]
        BY <2>1
    <2> QED BY <1>1, <2>1, <2>2 DEF FilesIn
<1>19. Shape
    <2>1. media \in [at : Stops, retry : Nat, outs : SUBSET Names] /\ media.retry < Attempts
        BY <1>1, CasesAssumption DEF Quiet, Stops
    <2>2. outputs \in Seq(Entry)
        BY <1>1
    <2>3. held \in [bytes : Nat, objects : SUBSET Nat] /\ held.objects \subseteq Players
        BY <1>1
    <2> QED BY <1>1, <1>6, <1>18, <2>1, <2>2, <2>3 DEF Shape, Marks
<1> QED BY <1>15, <1>16, <1>17, <1>19 DEF ResourceIInv

(* What the invariant says.                                                *)
LEMMA ResourceMeans ==
    ASSUME ResourceIInv
    PROVE  ResourceInv
<1>1. Shape /\ Fitting /\ Once /\ There /\ Driven /\ KeptIsReport
    BY DEF ResourceIInv
<1>2. PICK m \in Nat : m = Len(outputs) /\ DOMAIN outputs = 1 .. m
    BY <1>1 DEF Shape
<1>3. ResourceTypes
    <2>1. \A n \in DOMAIN outputs : outputs[n] \in Entry
        BY <1>1 DEF Shape
    <2>2. held.bytes \in Nat /\ held.objects \subseteq DOMAIN case.objects
        BY <1>1 DEF Shape, Players
    <2>3. media.at \in Stops /\ media.retry < Attempts
        BY <1>1 DEF Shape
    <2>4. \A f \in DOMAIN files : f \in Names /\ files[f] \in [whole : BOOLEAN, pass : Marks]
        BY <1>1 DEF Shape, FilesIn
    <2>5. case \in Case
        BY <1>1, CaseIn
    <2> QED BY <1>1, <2>1, <2>2, <2>3, <2>4, <2>5 DEF ResourceTypes, Shape, Entry
<1>4. Cardinality(Recorded) = Len(outputs)
    <2>1. PICK g : g = [n \in 1 .. m |-> outputs[n].file]
        OBVIOUS
    <2>2. g \in Bijection(1 .. m, Recorded)
        BY <1>1, <1>2, <2>1 DEF Recorded, Once, Bijection, Injection, Surjection, IsInjective
    <2>3. IsFiniteSet(1 .. m) /\ Cardinality(1 .. m) = m
        BY FS_Interval
    <2>4. ExistsBijection(1 .. m, Recorded)
        BY <2>2 DEF ExistsBijection
    <2> QED BY <1>2, <2>3, <2>4, FS_Bijection
<1>5. ReportHolds
    BY <1>1, <1>2, <1>4 DEF ReportHolds, Fitting, There
<1>6. FreshAttempt
    BY DrivenCall DEF FreshAttempt
<1>7. OnePass
    <2>1. SUFFICES ASSUME NEW f \in Recorded, NEW g \in Recorded, f[1] = g[1],
                          NEW k \in DOMAIN outputs, NEW n \in DOMAIN outputs,
                          outputs[k].file = f, outputs[n].file = g
                   PROVE  outputs[k].pass = outputs[n].pass
        BY DEF OnePass
    <2> QED BY <1>1, <1>2, <2>1 DEF Once
<1> QED BY <1>1, <1>3, <1>5, <1>6, <1>7 DEF ResourceInv

(* ResourceInv: whatever fails, is retried, decoded again or cancelled,    *)
(* the report of a resource lists whole files, each once and of one pass,  *)
(* within its limit, and what is kept is what was promised.                *)
THEOREM KeptAsPromised ==
    ASSUME SizesAssumption PROVE MediaSpec => []ResourceInv
<1>1. MediaInit => ResourceIInv
    BY ResourceBegins DEF MediaInit
<1>2. ResourceIInv /\ [Step]_mediaVars => ResourceIInv'
    BY ResourceStepKeeps
<1>3. ResourceIInv => ResourceInv
    BY ResourceMeans
<1> QED BY <1>1, <1>2, <1>3, PTL DEF MediaSpec
=============================================================================

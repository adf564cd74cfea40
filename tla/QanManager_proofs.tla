-------------------------- MODULE QanManager_proofs --------------------------
(***************************************************************************)
(* Proofs about the QAN manager model, for every value of the constants    *)
(* that ConfigAssumption and BoundsAssumption allow.                       *)
(***************************************************************************)
EXTENDS QanManager, FiniteSetTheorems, TLAPS

-----------------------------------------------------------------------------
(* Type correctness.  TypeOK alone is not inductive: StopBegin decrements  *)
(* mrmSubs, which stays a natural only because a running manager with no   *)
(* stop in progress holds its subscription, and Rotate increments gen,     *)
(* which stays in Gens only because the slow log grows past               *)
(* MaxSlowLogSize at most MaxGen times.                                    *)
SubscriptionHeld == running /\ api = "idle" => mrmSubs >= 1
BigBelowMaxGen == big => gen < MaxGen

TypeInv == TypeOK /\ SubscriptionHeld /\ BigBelowMaxGen

\* len(m.workers) is a natural number.
LEMMA InMapFinite ==
    ASSUME wphase \in [Ids -> Phases]
    PROVE  /\ IsFiniteSet(InMap)
           /\ Cardinality(InMap) \in Nat
<1>1. IsFiniteSet(Ids)
    BY BoundsAssumption, FS_Interval DEF Ids
<1>2. InMap \in SUBSET Ids
    BY DEF InMap
<1>. QED
    BY <1>1, <1>2, FS_Subset, FS_CardinalityType

LEMMA TypeInvInit == Init => TypeInv
<1> SUFFICES ASSUME Init PROVE TypeInv
    OBVIOUS
<1>. USE BoundsAssumption DEF Init
<1>1. /\ wphase \in [Ids -> Phases]
      /\ wrows \in [Ids -> SUBSET Stmts]
      /\ workerDoneChan \in Seq(Ids)
      /\ Len(workerDoneChan) <= WORKER_DONE_CAP
    BY DEF Phases, WORKER_DONE_CAP
<1>2. /\ gen \in Gens
      /\ oldSlowLogs \in [Gens -> Nat]
      /\ removed \subseteq Gens
      /\ readers \in [Gens -> SUBSET Ids]
    BY DEF Gens
<1>3. /\ reported \in [Stmts -> Nat]
      /\ restartChan \in 0..RESTART_CHAN_CAP
      /\ restarts \in 0..MaxRestarts
      /\ faults \in 0..MaxFaults
    BY DEF RESTART_CHAN_CAP
<1>. QED
    BY <1>1, <1>2, <1>3 DEF TypeInv, TypeOK, SubscriptionHeld, BigBelowMaxGen, NoStatus

LEMMA TypeInvStep == TypeInv /\ [Next]_vars => TypeInv'
<1> SUFFICES ASSUME TypeInv, [Next]_vars PROVE TypeInv'
    OBVIOUS
<1>. USE ConfigAssumption, BoundsAssumption
<1>0. TypeOK /\ SubscriptionHeld /\ BigBelowMaxGen
    BY DEF TypeInv
<1>1. ASSUME NEW o \in StartOutcomes, DoStart(o) PROVE TypeInv'
    <2>1. (running \in BOOLEAN /\ parser \in {"running", "none"} /\ collecting \in BOOLEAN)'
        BY <1>0, <1>1, Zenon DEF DoStart, TypeOK
    <2>2. (mrmSubs \in Nat /\ restartChan \in 0..RESTART_CHAN_CAP
           /\ faults \in 0..MaxFaults /\ SubscriptionHeld)'
        BY <1>0, <1>1 DEF DoStart, Fail, TypeOK, SubscriptionHeld, RESTART_CHAN_CAP
    <2>3. UNCHANGED <<api, stopReq, logVars, wphase, wrows, workerDoneChan, pfsVars, restarts>>
        BY <1>1 DEF DoStart
    <2>. QED
        BY <1>0, <1>1, <2>1, <2>2, <2>3
        DEF DoStart, TypeInv, TypeOK, BigBelowMaxGen, logVars, pfsVars
<1>2. CASE HandleReply
    BY <1>0, <1>2 DEF HandleReply, TypeInv, TypeOK, SubscriptionHeld, BigBelowMaxGen,
       logVars, pfsVars
<1>3. ASSUME NEW caller \in {"Stop", "StopService"}, StopBegin(caller) PROVE TypeInv'
    <2>1. (mrmSubs \in Nat /\ SubscriptionHeld)'
        BY <1>0, <1>3 DEF StopBegin, TypeOK, SubscriptionHeld
    <2>. QED
        BY <1>0, <1>3, <2>1 DEF StopBegin, TypeInv, TypeOK, BigBelowMaxGen,
           logVars, pfsVars
<1>4. CASE StopEnd
    <2>1. collecting' \in BOOLEAN
        BY <1>0, <1>4, Zenon DEF StopEnd, TypeOK
    <2>2. (faults \in 0..MaxFaults /\ SubscriptionHeld)'
        BY <1>0, <1>4 DEF StopEnd, Fail, TypeOK, SubscriptionHeld
    <2>. QED
        BY <1>0, <1>4, <2>1, <2>2 DEF StopEnd, TypeInv, TypeOK, BigBelowMaxGen,
           logVars, pfsVars
<1>5. CASE RunInterval
    <2>1. Cardinality(InMap) \in Nat
        BY <1>0, InMapFinite DEF TypeOK
    <2>2. CASE Cardinality(InMap) >= MaxWorkers
        BY <1>0, <1>5, <2>2 DEF RunInterval, TypeInv, TypeOK, SubscriptionHeld,
           BigBelowMaxGen, mgrVars, logVars, pfsVars
    <2>3. CASE Cardinality(InMap) < MaxWorkers
        <3> DEFINE w == CHOOSE x \in Ids : wphase[x] \in Free
        <3>1. \E x \in Ids : wphase[x] \in Free
            BY <1>5, <2>1, <2>3 DEF RunInterval
        <3>2. w \in Ids
            BY <3>1
        <3>3. /\ wphase' = [wphase EXCEPT ![w] = "run"]
              /\ wrows' = [wrows EXCEPT ![w] = {}]
              /\ UNCHANGED <<mgrVars, workerDoneChan, pfsVars, restarts>>
              /\ IF CollectFrom = "slowlog" /\ big
                   THEN \E o \in RotateOutcomes : Rotate(w, o)
                   ELSE UNCHANGED <<collecting, logVars, faults>>
            BY <1>5, <2>1, <2>3 DEF RunInterval
        <3>4. (wphase \in [Ids -> Phases] /\ wrows \in [Ids -> SUBSET Stmts])'
            BY <1>0, <3>2, <3>3 DEF TypeOK, Phases
        <3>5. UNCHANGED <<running, status, api, parser, stopReq, mrmSubs, restartChan,
                          workerDoneChan, table, executed, reported, restarts>>
            BY <3>3 DEF mgrVars, pfsVars
        <3>6. CASE CollectFrom = "slowlog" /\ big
            <4>1. PICK o \in RotateOutcomes : Rotate(w, o)
                BY <3>3, <3>6
            <4>2. gen + 1 \in Gens
                BY <1>0, <3>6 DEF BigBelowMaxGen, TypeOK, Gens
            <4>3. InMap \cup {w} \in SUBSET Ids
                BY <3>2 DEF InMap
            <4>4. collecting' \in BOOLEAN
                BY <1>0, <4>1, Zenon DEF Rotate, TypeOK
            <4>5. (gen \in Gens /\ big \in BOOLEAN /\ oldSlowLogs \in [Gens -> Nat]
                   /\ removed \subseteq Gens /\ readers \in [Gens -> SUBSET Ids]
                   /\ faults \in 0..MaxFaults /\ BigBelowMaxGen)'
                <5>1. CASE o \in {"connect", "stop", "rename"}
                    BY <1>0, <4>1, <5>1 DEF Rotate, Fail, TypeOK, BigBelowMaxGen, logVars
                <5>2. CASE o = "start"
                    <6>1. /\ gen' = gen + 1 /\ big' = FALSE /\ Fail
                          /\ UNCHANGED <<oldSlowLogs, removed, readers>>
                        BY <4>1, <5>2 DEF Rotate
                    <6>2. (big \in BOOLEAN /\ BigBelowMaxGen)'
                        BY <6>1, Zenon DEF BigBelowMaxGen
                    <6>. QED
                        BY <1>0, <4>2, <6>1, <6>2 DEF Fail, TypeOK
                <5>3. CASE o = "ok"
                    <6>1. /\ gen' = gen + 1 /\ big' = FALSE
                          /\ UNCHANGED <<removed, faults>>
                          /\ IF RemoveOldSlowLogs
                               THEN /\ oldSlowLogs' = [oldSlowLogs EXCEPT ![gen] = Cardinality(InMap) + 1]
                                    /\ readers' = [readers EXCEPT ![gen] = InMap \cup {w}]
                               ELSE UNCHANGED <<oldSlowLogs, readers>>
                        BY <4>1, <5>3 DEF Rotate
                    <6>2. (oldSlowLogs \in [Gens -> Nat] /\ readers \in [Gens -> SUBSET Ids])'
                        <7>1. CASE RemoveOldSlowLogs
                            <8>1. /\ oldSlowLogs' = [oldSlowLogs EXCEPT ![gen] = Cardinality(InMap) + 1]
                                  /\ readers' = [readers EXCEPT ![gen] = InMap \cup {w}]
                                BY <6>1, <7>1
                            <8>. QED
                                BY <1>0, <2>1, <4>3, <8>1 DEF TypeOK
                        <7>2. CASE ~RemoveOldSlowLogs
                            BY <1>0, <6>1, <7>2 DEF TypeOK
                        <7>. QED
                            BY <7>1, <7>2
                    <6>3. (big \in BOOLEAN /\ BigBelowMaxGen)'
                        BY <6>1, Zenon DEF BigBelowMaxGen
                    <6>. QED
                        BY <1>0, <4>2, <6>1, <6>2, <6>3 DEF TypeOK
                <5>. QED
                    BY <5>1, <5>2, <5>3 DEF RotateOutcomes
            <4>. QED
                BY <1>0, <3>4, <3>5, <4>4, <4>5 DEF TypeInv, TypeOK, SubscriptionHeld
        <3>7. CASE ~(CollectFrom = "slowlog" /\ big)
            BY <1>0, <3>3, <3>4, <3>5, <3>7 DEF TypeInv, TypeOK, SubscriptionHeld,
               BigBelowMaxGen, logVars
        <3>. QED
            BY <3>6, <3>7
    <2>. QED
        BY <2>1, <2>2, <2>3
<1>6. CASE RunWorkerDone
    <2>1. Head(workerDoneChan) \in Ids
        BY <1>0, <1>6 DEF RunWorkerDone, TypeOK
    <2>2. (wphase \in [Ids -> Phases] /\ workerDoneChan \in Seq(Ids)
           /\ Len(workerDoneChan) <= WORKER_DONE_CAP
           /\ readers \in [Gens -> SUBSET Ids])'
        <3>1. wphase' \in [Ids -> Phases]
            BY <1>0, <1>6, <2>1 DEF RunWorkerDone, TypeOK, Phases
        <3>2. workerDoneChan' \in Seq(Ids) /\ Len(workerDoneChan') <= WORKER_DONE_CAP
            BY <1>0, <1>6 DEF RunWorkerDone, TypeOK, WORKER_DONE_CAP
        <3>3. readers' \in [Gens -> SUBSET Ids]
            BY <1>0, <1>6 DEF RunWorkerDone, TypeOK
        <3>. QED
            BY <3>1, <3>2, <3>3
    <2>3. (oldSlowLogs \in [Gens -> Nat] /\ removed \subseteq Gens
           /\ faults \in 0..MaxFaults)'
        <3>1. CASE CollectFrom = "slowlog"
            <4>1. PICK kept \in SUBSET {f \in Gens : oldSlowLogs[f] = 1} :
                    /\ IF kept = {} THEN UNCHANGED faults ELSE Fail
                    /\ oldSlowLogs' = [f \in Gens |->
                            IF oldSlowLogs[f] = 1 /\ f \notin kept THEN 0
                            ELSE IF oldSlowLogs[f] > 1 THEN oldSlowLogs[f] - 1
                            ELSE oldSlowLogs[f]]
                    /\ removed' = removed \cup
                            {f \in Gens : oldSlowLogs[f] = 1 /\ f \notin kept}
                BY <1>6, <3>1 DEF RunWorkerDone
            <4>. QED
                BY <1>0, <4>1 DEF Fail, TypeOK
        <3>2. CASE CollectFrom # "slowlog"
            BY <1>0, <1>6, <3>2 DEF RunWorkerDone, TypeOK
        <3>. QED
            BY <3>1, <3>2
    <2>. QED
        BY <1>0, <1>6, <2>2, <2>3 DEF RunWorkerDone, TypeInv, TypeOK,
           SubscriptionHeld, BigBelowMaxGen, mgrVars, pfsVars
<1>7. CASE RunRestart
    <2>1. collecting' \in BOOLEAN
        BY <1>0, <1>7, Zenon DEF RunRestart, TypeOK
    <2>2. (restartChan \in 0..RESTART_CHAN_CAP /\ faults \in 0..MaxFaults)'
        <3>1. restartChan' \in 0..RESTART_CHAN_CAP
            BY <1>0, <1>7 DEF RunRestart, TypeOK, RESTART_CHAN_CAP
        <3>2. faults' \in 0..MaxFaults
            BY <1>0, <1>7 DEF RunRestart, Fail, TypeOK
        <3>. QED
            BY <3>1, <3>2
    <2>. QED
        BY <1>0, <1>7, <2>1, <2>2 DEF RunRestart, TypeInv, TypeOK,
           SubscriptionHeld, BigBelowMaxGen, logVars, pfsVars
<1>8. CASE RunStop
    BY <1>0, <1>8 DEF RunStop, TypeInv, TypeOK, SubscriptionHeld, BigBelowMaxGen,
       logVars, pfsVars
<1>9. ASSUME NEW w \in Ids,
             SlowLogWorkerRun(w) \/ CollectData(w) \/ TruncateTable(w) \/ WorkerDone(w)
      PROVE  TypeInv'
    <2>1. CASE SlowLogWorkerRun(w)
        BY <1>0, <2>1 DEF SlowLogWorkerRun, TypeInv, TypeOK, SubscriptionHeld,
           BigBelowMaxGen, Phases, mgrVars, logVars, pfsVars
    <2>2. CASE CollectData(w)
        <3>1. (wphase \in [Ids -> Phases] /\ wrows \in [Ids -> SUBSET Stmts]
               /\ faults \in 0..MaxFaults)'
            <4>1. CASE /\ wrows' = [wrows EXCEPT ![w] = table]
                       /\ wphase' = [wphase EXCEPT ![w] = "truncate"]
                       /\ UNCHANGED faults
                BY <1>0, <4>1 DEF TypeOK, Phases
            <4>2. CASE /\ Fail
                       /\ wphase' = [wphase EXCEPT ![w] = "finish"]
                       /\ UNCHANGED wrows
                BY <1>0, <4>2 DEF Fail, TypeOK, Phases
            <4>. QED
                BY <2>2, <4>1, <4>2 DEF CollectData
        <3>. QED
            BY <1>0, <2>2, <3>1 DEF CollectData, TypeInv, TypeOK, SubscriptionHeld,
               BigBelowMaxGen, mgrVars, logVars, pfsVars
    <2>3. CASE TruncateTable(w)
        <3>1. PICK spooled \in BOOLEAN :
                \/ /\ table' = {}
                   /\ reported' = IF spooled
                                  THEN [s \in Stmts |-> IF s \in wrows[w]
                                                        THEN reported[s] + 1
                                                        ELSE reported[s]]
                                  ELSE reported
                   /\ UNCHANGED faults
                \/ Fail /\ UNCHANGED <<table, reported>>
            BY <2>3 DEF TruncateTable
        <3>2. (table \subseteq Stmts /\ reported \in [Stmts -> Nat]
               /\ faults \in 0..MaxFaults /\ wphase \in [Ids -> Phases])'
            BY <1>0, <2>3, <3>1 DEF TruncateTable, Fail, TypeOK, Phases
        <3>. QED
            BY <1>0, <2>3, <3>2 DEF TruncateTable, TypeInv, TypeOK, SubscriptionHeld,
               BigBelowMaxGen, mgrVars, logVars
    <2>4. CASE WorkerDone(w)
        <3>1. (wphase \in [Ids -> Phases] /\ workerDoneChan \in Seq(Ids)
               /\ Len(workerDoneChan) <= WORKER_DONE_CAP)'
            BY <1>0, <2>4 DEF WorkerDone, TypeOK, Phases, WORKER_DONE_CAP
        <3>. QED
            BY <1>0, <2>4, <3>1 DEF WorkerDone, TypeInv, TypeOK, SubscriptionHeld,
               BigBelowMaxGen, mgrVars, logVars, pfsVars
    <2>. QED
        BY <1>9, <2>1, <2>2, <2>3, <2>4
<1>10. CASE MySQLRestart
    <2>1. (restartChan \in 0..RESTART_CHAN_CAP /\ restarts \in 0..MaxRestarts
           /\ table \subseteq Stmts /\ collecting \in BOOLEAN)'
        <3>1. restartChan' \in 0..RESTART_CHAN_CAP
            BY <1>0, <1>10 DEF MySQLRestart, TypeOK, RESTART_CHAN_CAP
        <3>2. restarts' \in 0..MaxRestarts
            BY <1>0, <1>10 DEF MySQLRestart, TypeOK
        <3>3. (table \subseteq Stmts /\ collecting \in BOOLEAN)'
            BY <1>10 DEF MySQLRestart
        <3>. QED
            BY <3>1, <3>2, <3>3
    <2>. QED
        BY <1>0, <1>10, <2>1 DEF MySQLRestart, TypeInv, TypeOK, SubscriptionHeld,
           BigBelowMaxGen, logVars
<1>11. CASE SlowLogGrows
    BY <1>0, <1>11 DEF SlowLogGrows, TypeInv, TypeOK, SubscriptionHeld,
       BigBelowMaxGen, mgrVars, pfsVars
<1>12. ASSUME NEW s \in Stmts, ExecStatement(s) PROVE TypeInv'
    BY <1>0, <1>12 DEF ExecStatement, TypeInv, TypeOK, SubscriptionHeld,
       BigBelowMaxGen, mgrVars, logVars
<1>13. CASE UNCHANGED vars
    BY <1>0, <1>13 DEF vars, mgrVars, logVars, pfsVars, TypeInv, TypeOK,
       SubscriptionHeld, BigBelowMaxGen
<1>. QED
    BY <1>1, <1>2, <1>3, <1>4, <1>5, <1>6, <1>7, <1>8, <1>9, <1>10, <1>11,
       <1>12, <1>13
    DEF Next, Manager, Start, HandleStartService, Stop, HandleStopService, Run,
        Workers, MySQL

(* Every state the QAN manager reaches is well typed: the pool, the        *)
(* channels, the oldSlowLogs counts and the fault and restart counters     *)
(* keep their ranges through every handler of manager.go and worker.go.   *)
THEOREM TypeCorrect == Spec => []TypeOK
<1>1. Init => TypeInv
    BY TypeInvInit
<1>2. TypeInv /\ [Next]_vars => TypeInv'
    BY TypeInvStep
<1>3. TypeInv => TypeOK
    BY DEF TypeInv
<1>. QED
    BY <1>1, <1>2, <1>3, PTL DEF Spec

-----------------------------------------------------------------------------
(* The pool bound.  AdmissionBound is inductive once the type is known:    *)
(* only RunInterval registers a worker, and it does so below the bound.    *)

\* How one worker's phase change moves it in or out of m.workers.
LEMMA InMapUpdate ==
    ASSUME NEW w \in Ids, NEW p,
           wphase \in [Ids -> Phases],
           wphase' = [wphase EXCEPT ![w] = p]
    PROVE  InMap' = IF p \in Registered THEN InMap \cup {w} ELSE InMap \ {w}
BY DEF InMap

(* The worker-pool bound of manager.go:282 holds in every reachable state, *)
(* for every MaxWorkers and number of goroutines: no interleaving of       *)
(* intervals, worker completions, stops and restarts registers more than   *)
(* MaxWorkers workers in m.workers.                                        *)
THEOREM AdmissionBoundHolds == Spec => []AdmissionBound
<1>1. Init => AdmissionBound
    <2> SUFFICES ASSUME Init PROVE AdmissionBound
        OBVIOUS
    <2>1. InMap = {}
        BY DEF Init, InMap, Registered
    <2>. QED
        BY <2>1, FS_EmptySet, ConfigAssumption DEF AdmissionBound
<1>2. TypeInv /\ AdmissionBound /\ [Next]_vars => AdmissionBound'
    <2> SUFFICES ASSUME TypeInv, AdmissionBound, [Next]_vars PROVE AdmissionBound'
        OBVIOUS
    <2>0. /\ wphase \in [Ids -> Phases]
          /\ IsFiniteSet(InMap) /\ Cardinality(InMap) \in Nat
        <3>1. wphase \in [Ids -> Phases]
            BY DEF TypeInv, TypeOK
        <3>. QED
            BY <3>1, InMapFinite
    \* A step that leaves m.workers as it is, or only removes from it.
    <2>1. ASSUME InMap' \subseteq InMap PROVE AdmissionBound'
        <3>1. IsFiniteSet(InMap') /\ Cardinality(InMap') <= Cardinality(InMap)
            BY <2>0, <2>1, FS_Subset
        <3>. QED
            BY <2>0, <3>1, FS_CardinalityType, ConfigAssumption DEF AdmissionBound
    <2>2. CASE RunInterval
        <3>1. CASE Cardinality(InMap) >= MaxWorkers
            BY <2>1, <2>2, <3>1 DEF RunInterval, InMap
        <3>2. CASE Cardinality(InMap) < MaxWorkers
            <4> DEFINE w == CHOOSE x \in Ids : wphase[x] \in Free
            <4>1. \E x \in Ids : wphase[x] \in Free
                BY <2>2, <2>0, <3>2, ConfigAssumption DEF RunInterval
            <4>2. w \in Ids /\ wphase[w] \in Free
                BY <4>1
            <4>3. wphase' = [wphase EXCEPT ![w] = "run"]
                BY <2>0, <2>2, <3>2, ConfigAssumption DEF RunInterval
            <4>4. InMap' = InMap \cup {w} /\ w \notin InMap
                BY <2>0, <4>2, <4>3, InMapUpdate DEF Registered, Free, InMap
            <4>5. Cardinality(InMap') = Cardinality(InMap) + 1
                BY <2>0, <4>4, FS_AddElement
            <4>. QED
                BY <2>0, <3>2, <4>5, ConfigAssumption DEF AdmissionBound
        <3>. QED
            BY <2>0, <3>1, <3>2, ConfigAssumption
    <2>3. CASE RunWorkerDone
        <3>1. Head(workerDoneChan) \in Ids
            BY <2>3 DEF RunWorkerDone, TypeInv, TypeOK
        <3>2. wphase' = [wphase EXCEPT ![Head(workerDoneChan)] = "reaped"]
            BY <2>3 DEF RunWorkerDone
        <3>3. InMap' = InMap \ {Head(workerDoneChan)}
            BY <2>0, <3>1, <3>2, InMapUpdate DEF Registered
        <3>. QED
            BY <2>1, <3>3
    <2>4. ASSUME NEW w \in Ids,
                 SlowLogWorkerRun(w) \/ CollectData(w) \/ TruncateTable(w) \/ WorkerDone(w)
          PROVE  AdmissionBound'
        <3>1. PICK p \in Registered : wphase[w] \in Registered /\ wphase' = [wphase EXCEPT ![w] = p]
            BY <2>4 DEF SlowLogWorkerRun, CollectData, TruncateTable, WorkerDone, Registered
        <3>2. InMap' = InMap
            BY <2>0, <3>1, InMapUpdate DEF InMap
        <3>. QED
            BY <2>1, <3>2
    <2>5. CASE UNCHANGED wphase
        BY <2>1, <2>5 DEF InMap
    <2>. QED
        BY <2>2, <2>3, <2>4, <2>5
        DEF Next, Manager, Start, HandleStartService, Stop, HandleStopService,
            Run, Workers, MySQL, DoStart, HandleReply, StopBegin, StopEnd,
            RunRestart, RunStop, MySQLRestart, SlowLogGrows, ExecStatement, vars
<1>. QED
    BY <1>1, <1>2, TypeInvInit, TypeInvStep, PTL DEF Spec

-----------------------------------------------------------------------------
(* Workers in workerDoneChan.  DoneWorkerRegistered is not inductive: a    *)
(* worker could appear twice in the channel, and reaping the first copy     *)
(* would unregister the second.  The invariant that is: every worker in    *)
(* the channel is in phase "sent", and none appears twice.                 *)
DoneChanSent ==
    /\ \A k \in 1..Len(workerDoneChan) : wphase[workerDoneChan[k]] = "sent"
    /\ \A i, j \in 1..Len(workerDoneChan) :
          i # j => workerDoneChan[i] # workerDoneChan[j]

\* A phase change of a worker that is not in the channel keeps DoneChanSent.
LEMMA DoneChanOtherWorker ==
    ASSUME NEW w \in Ids, NEW p,
           wphase \in [Ids -> Phases], workerDoneChan \in Seq(Ids),
           DoneChanSent,
           wphase[w] # "sent",
           wphase' = [wphase EXCEPT ![w] = p],
           UNCHANGED workerDoneChan
    PROVE  DoneChanSent'
<1>1. \A k \in 1..Len(workerDoneChan) : workerDoneChan[k] # w
    BY DEF DoneChanSent
<1>. QED
    BY <1>1 DEF DoneChanSent

(* The nil-interval hazard of manager.go:353-357 cannot happen: whenever   *)
(* the run goroutine receives a worker from workerDoneChan, that worker is *)
(* still registered in m.workers, for every pool size and interleaving.    *)
THEOREM DoneWorkerRegisteredHolds == Spec => []DoneWorkerRegistered
<1>1. Init => DoneChanSent
    BY DEF Init, DoneChanSent
<1>2. TypeInv /\ DoneChanSent /\ [Next]_vars => DoneChanSent'
    <2> SUFFICES ASSUME TypeInv, DoneChanSent, [Next]_vars PROVE DoneChanSent'
        OBVIOUS
    <2>0. wphase \in [Ids -> Phases] /\ workerDoneChan \in Seq(Ids)
        BY DEF TypeInv, TypeOK
    <2>1. CASE RunInterval
        <3>1. CASE Cardinality(InMap) >= MaxWorkers
            BY <2>1, <3>1 DEF RunInterval, DoneChanSent
        <3>2. CASE ~(Cardinality(InMap) >= MaxWorkers)
            <4> DEFINE w == CHOOSE x \in Ids : wphase[x] \in Free
            <4>1. \E x \in Ids : wphase[x] \in Free
                BY <2>1, <3>2 DEF RunInterval
            <4>2. w \in Ids /\ wphase[w] \in Free
                BY <4>1
            <4>3. wphase' = [wphase EXCEPT ![w] = "run"] /\ UNCHANGED workerDoneChan
                BY <2>1, <3>2 DEF RunInterval
            <4>. QED
                BY <2>0, <4>2, <4>3, DoneChanOtherWorker DEF Free
        <3>. QED
            BY <3>1, <3>2
    <2>2. CASE RunWorkerDone
        <3> DEFINE h == Head(workerDoneChan)
        <3>1. /\ workerDoneChan # <<>>
              /\ workerDoneChan' = Tail(workerDoneChan)
              /\ wphase' = [wphase EXCEPT ![h] = "reaped"]
            BY <2>2 DEF RunWorkerDone
        <3>2. \A k \in 1..Len(workerDoneChan') :
                /\ workerDoneChan'[k] = workerDoneChan[k + 1]
                /\ workerDoneChan[k + 1] # h
            BY <2>0, <3>1 DEF DoneChanSent
        <3>. QED
            BY <2>0, <3>1, <3>2 DEF DoneChanSent
    <2>3. ASSUME NEW w \in Ids,
                 SlowLogWorkerRun(w) \/ CollectData(w) \/ TruncateTable(w)
          PROVE  DoneChanSent'
        <3>1. PICK p : wphase[w] \in {"run", "truncate"} /\ wphase' = [wphase EXCEPT ![w] = p]
            BY <2>3 DEF SlowLogWorkerRun, CollectData, TruncateTable
        <3>2. UNCHANGED workerDoneChan
            BY <2>3 DEF SlowLogWorkerRun, CollectData, TruncateTable
        <3>. QED
            BY <2>0, <3>1, <3>2, DoneChanOtherWorker
    <2>4. ASSUME NEW w \in Ids, WorkerDone(w) PROVE DoneChanSent'
        <3>1. /\ wphase[w] = "finish"
              /\ workerDoneChan' = Append(workerDoneChan, w)
              /\ wphase' = [wphase EXCEPT ![w] = "sent"]
            BY <2>4 DEF WorkerDone
        <3>2. \A k \in 1..Len(workerDoneChan) : workerDoneChan[k] # w
            BY <3>1 DEF DoneChanSent
        <3>. QED
            BY <2>0, <3>1, <3>2 DEF DoneChanSent
    <2>5. CASE UNCHANGED <<wphase, workerDoneChan>>
        BY <2>5 DEF DoneChanSent
    <2>. QED
        BY <2>1, <2>2, <2>3, <2>4, <2>5
        DEF Next, Manager, Start, HandleStartService, Stop, HandleStopService,
            Run, Workers, MySQL, DoStart, HandleReply, StopBegin, StopEnd,
            RunRestart, RunStop, MySQLRestart, SlowLogGrows, ExecStatement, vars
<1>3. DoneChanSent => DoneWorkerRegistered
    BY DEF DoneChanSent, DoneWorkerRegistered, Registered
<1>. QED
    BY <1>1, <1>2, <1>3, TypeInvInit, TypeInvStep, PTL DEF Spec

-----------------------------------------------------------------------------
(* No double count.  A statement is reported by the TRUNCATE that empties  *)
(* the digest table it was SELECTed from; MySQL aggregates a statement     *)
(* once, so after that report it is in no table and no worker's rows.      *)
(* With one worker there is no second SELECT between a SELECT and its      *)
(* TRUNCATE.                                                               *)

\* What the server aggregated and what workers SELECTed was executed.
RowsExecuted ==
    /\ table \subseteq executed
    /\ \A w \in Ids : wphase[w] = "truncate" => wrows[w] \subseteq executed

\* A reported statement is in no table and in no pending report.
ReportedGone ==
    \A s \in Stmts :
        reported[s] # 0 => /\ s \in executed
                           /\ s \notin table
                           /\ \A w \in Ids : wphase[w] = "truncate" => s \notin wrows[w]

CountInv == NoDoubleCount /\ RowsExecuted /\ ReportedGone

\* With one worker allowed, m.workers holds at most one worker.
LEMMA OneRegistered ==
    ASSUME wphase \in [Ids -> Phases], AdmissionBound, MaxWorkers = 1,
           NEW w1 \in InMap, NEW w2 \in InMap
    PROVE  w1 = w2
<1> SUFFICES ASSUME w1 # w2 PROVE FALSE
    OBVIOUS
<1>1. IsFiniteSet(InMap) /\ Cardinality(InMap) \in Nat
    BY InMapFinite
<1>2. IsFiniteSet({w1}) /\ Cardinality({w1}) = 1
    BY FS_Singleton
<1>3. Cardinality({w1} \cup {w2}) = 2
    BY <1>2, FS_AddElement
<1>4. Cardinality({w1} \cup {w2}) <= Cardinality(InMap)
    BY <1>1, FS_Subset
<1> QED
    BY <1>1, <1>3, <1>4 DEF AdmissionBound

(* A step that reports nothing and changes neither the table nor what was *)
(* executed, and in which every worker between SELECT and TRUNCATE was    *)
(* there before with the same rows, keeps CountInv.                       *)
LEMMA CountFewer ==
    ASSUME CountInv, UNCHANGED <<table, executed, reported>>,
           \A x \in Ids : wphase'[x] = "truncate" =>
                            wphase[x] = "truncate" /\ wrows'[x] = wrows[x]
    PROVE  CountInv'
BY DEF CountInv, NoDoubleCount, RowsExecuted, ReportedGone

(* Every step keeps CountInv when one worker is allowed. *)
LEMMA CountStep ==
    ASSUME TypeInv, AdmissionBound, MaxWorkers = 1, CountInv, [Next]_vars
    PROVE  CountInv'
<1>0. /\ wphase \in [Ids -> Phases]
      /\ wrows \in [Ids -> SUBSET Stmts]
      /\ reported \in [Stmts -> Nat]
      /\ table \subseteq Stmts /\ executed \subseteq Stmts
    BY DEF TypeInv, TypeOK
<1>1. CASE RunInterval
    <2>1. CASE Cardinality(InMap) >= MaxWorkers
        BY <1>1, <2>1, CountFewer DEF RunInterval, pfsVars
    <2>2. CASE ~(Cardinality(InMap) >= MaxWorkers)
        <3> DEFINE w == CHOOSE x \in Ids : wphase[x] \in Free
        <3>1. w \in Ids
            BY <1>1, <2>2 DEF RunInterval
        <3>2. /\ wphase' = [wphase EXCEPT ![w] = "run"]
              /\ wrows' = [wrows EXCEPT ![w] = {}]
              /\ UNCHANGED <<table, executed, reported>>
            BY <1>1, <2>2 DEF RunInterval, pfsVars
        <3> QED
            BY <1>0, <3>1, <3>2, CountFewer
    <2> QED
        BY <2>1, <2>2
<1>2. CASE RunWorkerDone
    <2>1. Head(workerDoneChan) \in Ids
        BY <1>2 DEF RunWorkerDone, TypeInv, TypeOK
    <2>2. /\ wphase' = [wphase EXCEPT ![Head(workerDoneChan)] = "reaped"]
          /\ UNCHANGED <<wrows, table, executed, reported>>
        BY <1>2 DEF RunWorkerDone, pfsVars
    <2> QED
        BY <1>0, <2>1, <2>2, CountFewer
<1>3. ASSUME NEW w \in Ids, SlowLogWorkerRun(w) \/ WorkerDone(w)
      PROVE  CountInv'
    <2>1. /\ \E p \in {"finish", "sent"} : wphase' = [wphase EXCEPT ![w] = p]
          /\ UNCHANGED <<wrows, table, executed, reported>>
        BY <1>3 DEF SlowLogWorkerRun, WorkerDone, pfsVars
    <2> QED
        BY <1>0, <2>1, CountFewer
<1>4. ASSUME NEW w \in Ids, CollectData(w)
      PROVE  CountInv'
    <2>1. CASE wrows' = [wrows EXCEPT ![w] = table]
               /\ wphase' = [wphase EXCEPT ![w] = "truncate"]
        <3>1. UNCHANGED <<table, executed, reported>>
            BY <1>4 DEF CollectData, pfsVars
        <3>2. RowsExecuted'
            BY <1>0, <2>1, <3>1 DEF CountInv, RowsExecuted
        <3>3. ReportedGone'
            BY <1>0, <2>1, <3>1 DEF CountInv, ReportedGone
        <3> QED
            BY <3>1, <3>2, <3>3 DEF CountInv, NoDoubleCount
    <2>2. CASE wphase' = [wphase EXCEPT ![w] = "finish"] /\ UNCHANGED wrows
        <3>1. UNCHANGED <<table, executed, reported>>
            BY <1>4 DEF CollectData, pfsVars
        <3> QED
            BY <1>0, <2>2, <3>1, CountFewer
    <2> QED
        BY <1>4, <2>1, <2>2 DEF CollectData
<1>5. ASSUME NEW w \in Ids, TruncateTable(w)
      PROVE  CountInv'
    <2>0. /\ wphase[w] = "truncate"
          /\ wphase' = [wphase EXCEPT ![w] = "finish"]
          /\ UNCHANGED <<wrows, executed>>
        BY <1>5 DEF TruncateTable
    \* w is the only worker between SELECT and TRUNCATE.
    <2>1. \A x \in Ids : wphase'[x] # "truncate"
        <3> SUFFICES ASSUME NEW x \in Ids, wphase'[x] = "truncate" PROVE FALSE
            OBVIOUS
        <3>1. x # w /\ wphase[x] = "truncate"
            BY <1>0, <2>0
        <3>2. x \in InMap /\ w \in InMap
            BY <2>0, <3>1 DEF InMap, Registered
        <3> QED
            BY <1>0, <3>1, <3>2, OneRegistered
    <2>2. \A s \in wrows[w] : reported[s] = 0
        BY <1>0, <2>0 DEF CountInv, ReportedGone
    <2>3. CASE table' = {} /\ \E spooled \in BOOLEAN :
                reported' = IF spooled
                              THEN [s \in Stmts |-> IF s \in wrows[w]
                                                    THEN reported[s] + 1
                                                    ELSE reported[s]]
                              ELSE reported
        <3>1. NoDoubleCount'
            BY <1>0, <2>2, <2>3 DEF CountInv, NoDoubleCount
        <3>2. RowsExecuted'
            BY <2>0, <2>1, <2>3 DEF RowsExecuted
        <3>3. ReportedGone'
            BY <1>0, <2>0, <2>1, <2>3 DEF CountInv, RowsExecuted, ReportedGone
        <3> QED
            BY <3>1, <3>2, <3>3 DEF CountInv
    <2>4. CASE UNCHANGED <<table, reported>>
        BY <2>0, <2>1, <2>4, CountFewer
    <2> QED
        BY <1>5, <2>3, <2>4 DEF TruncateTable
<1>6. CASE MySQLRestart
    <2>1. /\ table' = {}
          /\ UNCHANGED <<wphase, wrows, executed, reported>>
        BY <1>6 DEF MySQLRestart
    <2> QED
        BY <2>1 DEF CountInv, NoDoubleCount, RowsExecuted, ReportedGone
<1>7. ASSUME NEW s \in Stmts, ExecStatement(s)
      PROVE  CountInv'
    <2>1. /\ s \notin executed
          /\ table' = table \cup {s} /\ executed' = executed \cup {s}
          /\ UNCHANGED <<wphase, wrows, reported>>
        BY <1>7 DEF ExecStatement
    <2> QED
        BY <2>1 DEF CountInv, NoDoubleCount, RowsExecuted, ReportedGone
<1>8. CASE Manager \/ RunRestart \/ RunStop \/ SlowLogGrows \/ UNCHANGED vars
    <2>1. UNCHANGED <<wphase, wrows, table, executed, reported>>
        BY <1>8 DEF Manager, Start, HandleStartService, HandleReply, Stop,
           HandleStopService, DoStart, StopBegin, StopEnd, RunRestart, RunStop,
           SlowLogGrows, vars, pfsVars
    <2> QED
        BY <2>1, CountFewer
<1> QED
    BY <1>1, <1>2, <1>3, <1>4, <1>5, <1>6, <1>7, <1>8
    DEF Next, Run, Workers, MySQL

(* With perfschema collection and config.MaxWorkers = 1, no statement is  *)
(* counted in two reports, whatever restarts of MySQL, stops and starts   *)
(* of the manager and failed SELECTs, TRUNCATEs and spool writes happen:  *)
(* the one worker's TRUNCATE empties the table its SELECT read before any *)
(* other worker can SELECT (worker.go:96-105, manager.go:282).  With more *)
(* workers the qan_pfs_two_workers run shows a double count.              *)
THEOREM NoDoubleCountHolds ==
    ASSUME MaxWorkers = 1
    PROVE  Spec => []NoDoubleCount
<1>1. Spec => []TypeInv
    BY TypeInvInit, TypeInvStep, PTL DEF Spec
<1>2. Init => CountInv
    BY DEF Init, CountInv, NoDoubleCount, RowsExecuted, ReportedGone
<1>3. TypeInv /\ AdmissionBound /\ CountInv /\ [Next]_vars => CountInv'
    BY CountStep
<1>4. CountInv => NoDoubleCount
    BY DEF CountInv
<1> QED
    BY <1>1, <1>2, <1>3, <1>4, AdmissionBoundHolds, PTL DEF Spec

====

--------------------------- MODULE MrmMonitor_proofs ---------------------------
(***************************************************************************)
(* Proofs about the restart monitor of MrmMonitor: its states are well    *)
(* typed, and its subscriber fan-out implements RestartNotifier under the *)
(* mapping pending[c] = (queue[c] > 0), announced = detections.            *)
(***************************************************************************)
EXTENDS MrmMonitor, TLAPS

\* The clock only moves forward from the times the monitor saved, and a
\* channel Add has not yet returned holds nothing.
IInv ==
    /\ TypeOK
    /\ boot <= now
    /\ lastUptimeCheck <= now
    /\ \A c \in Chans \ made : queue[c] = 0

LEMMA IInvInit == Init => IInv
<1> SUFFICES ASSUME Init PROVE IInv
    OBVIOUS
<1>1. (0 - boot) \div SUB \in Nat
    BY ClockAssumption DEF Init
<1>2. queue \in [Chans -> 0..SUBSCRIBER_CHAN_CAP]
    BY DEF Init, SUBSCRIBER_CHAN_CAP
<1>3. up \in BOOLEAN /\ sinceSample \in BOOLEAN /\ truth \in BOOLEAN
      /\ noticed \in BOOLEAN
    BY Zenon DEF Init
<1> QED
    BY <1>1, <1>2, <1>3, ClockAssumption DEF Init, IInv, TypeOK

\* Receiving from a channel keeps its count within the capacity.
LEMMA QueueReceive ==
    ASSUME NEW q \in [Chans -> 0..SUBSCRIBER_CHAN_CAP], NEW c \in Chans,
           q[c] > 0
    PROVE  [q EXCEPT ![c] = q[c] - 1] \in [Chans -> 0..SUBSCRIBER_CHAN_CAP]
BY DEF SUBSCRIBER_CHAN_CAP

LEMMA IInvStep == IInv /\ [Next]_vars => IInv'
<1> SUFFICES ASSUME IInv, [Next]_vars PROVE IInv'
    OBVIOUS
<1> USE ClockAssumption DEF IInv, TypeOK
<1>1. CASE QueryUptime
    <2>1. UptimeAt(now) \in Nat
        BY DEF UptimeAt
    <2> QED
        BY <1>1, <2>1 DEF QueryUptime, Empty, serverVars
<1>2. CASE FinishCheck
    <2>1. queue' \in [Chans -> 0..SUBSCRIBER_CHAN_CAP]
        BY <1>2 DEF FinishCheck, Notify, SUBSCRIBER_CHAN_CAP
    <2>2. \A c \in Chans \ made : queue'[c] = 0
        BY <1>2 DEF FinishCheck, Notify
    <2>3. verdict' \in {"none", "restart", "same"} /\ noticed' \in BOOLEAN
        BY <1>2 DEF FinishCheck
    <2> QED
        BY <1>2, <2>1, <2>2, <2>3 DEF FinishCheck, serverVars
<1>3. CASE Tick
    BY <1>3 DEF Tick, serverVars, checkVars, ghostVars
<1>4. CASE Crash
    <2>1. up' \in BOOLEAN /\ sinceSample' \in BOOLEAN /\ noticed' \in BOOLEAN
        BY <1>4, Zenon DEF Crash
    <2> QED
        BY <1>4, <2>1 DEF Crash, checkVars
<1>5. CASE Recover
    BY <1>5 DEF Recover, checkVars, ghostVars
<1>6. ASSUME NEW c \in Chans, Add(c) PROVE IInv'
    BY <1>6 DEF Add, serverVars, checkVars, ghostVars
<1>7. ASSUME NEW c \in Chans, Remove(c) PROVE IInv'
    BY <1>7 DEF Remove, serverVars, checkVars, ghostVars
<1>8. ASSUME NEW c \in Chans, Receive(c) PROVE IInv'
    <2>1. c \in made
        BY <1>8 DEF Receive
    <2>2. queue' \in [Chans -> 0..SUBSCRIBER_CHAN_CAP]
        BY <1>8, QueueReceive DEF Receive
    <2>3. \A d \in Chans \ made : queue'[d] = 0
        BY <1>8, <2>1 DEF Receive
    <2>4. UNCHANGED <<now, serverVars, checkVars, subscribers, made, ghostVars>>
        BY <1>8 DEF Receive
    <2> QED
        BY <2>2, <2>3, <2>4 DEF serverVars, checkVars, ghostVars
<1>9. CASE UNCHANGED vars
    BY <1>9 DEF vars, serverVars, checkVars, ghostVars
<1> QED
    BY <1>1, <1>2, <1>3, <1>4, <1>5, <1>6, <1>7, <1>8, <1>9 DEF Next

(* Every state the monitor reaches is well typed, whatever the clock      *)
(* resolution, the horizon and the channels: in particular the uptimes    *)
(* CheckIfMysqlRestarted saves are natural numbers and no subscriber      *)
(* channel holds more than its capacity of 5 (instance.go:40, 100).       *)
THEOREM TypeCorrect == Spec => []TypeOK
<1>1. Spec => []IInv
    BY IInvInit, IInvStep, PTL DEF Spec
<1> QED
    BY <1>1, PTL DEF IInv

(* Receiving the last notice of channel c clears its pending flag and no *)
(* other: the mapping of two queues that differ so is an EXCEPT.         *)
LEMMA PendingReceive ==
    ASSUME NEW q \in [Chans -> Int], NEW r \in [Chans -> Int],
           NEW c \in Chans,
           \A d \in Chans : r[d] > 0 <=> d # c /\ q[d] > 0
    PROVE  [d \in Chans |-> r[d] > 0]
           = [[d \in Chans |-> q[d] > 0] EXCEPT ![c] = FALSE]
<1>1. [[d \in Chans |-> q[d] > 0] EXCEPT ![c] = FALSE]
      = [d \in Chans |-> IF d = c THEN FALSE ELSE q[d] > 0]
    OBVIOUS
<1>2. \A d \in Chans : (r[d] > 0) = (IF d = c THEN FALSE ELSE q[d] > 0)
    <2> SUFFICES ASSUME NEW d \in Chans
                 PROVE  (r[d] > 0) = (IF d = c THEN FALSE ELSE q[d] > 0)
        OBVIOUS
    <2>1. (r[d] > 0) \in BOOLEAN /\ (q[d] > 0) \in BOOLEAN
        OBVIOUS
    <2>2. CASE d = c
        <3>1. ~(r[d] > 0)
            BY <2>2
        <3> QED
            BY <2>1, <2>2, <3>1, Zenon
    <2>3. CASE d # c
        <3>1. (r[d] > 0) <=> (q[d] > 0)
            BY <2>3
        <3> QED
            BY <2>1, <2>3, <3>1, Zenon
    <2> QED
        BY <2>2, <2>3
<1>3. [d \in Chans |-> r[d] > 0]
      = [d \in Chans |-> IF d = c THEN FALSE ELSE q[d] > 0]
    BY <1>2, Zenon
<1> QED
    BY <1>1, <1>3

\* A queue that holds nothing maps to no pending notice.
LEMMA PendingEmpty ==
    [c \in Chans |-> [d \in Chans |-> 0][c] > 0] = [c \in Chans |-> FALSE]
<1>1. \A c \in Chans : ([d \in Chans |-> 0][c] > 0) = FALSE
    <2> SUFFICES ASSUME NEW c \in Chans
                 PROVE  ([d \in Chans |-> 0][c] > 0) = FALSE
        OBVIOUS
    <2>1. ~([d \in Chans |-> 0][c] > 0)
        OBVIOUS
    <2>2. ([d \in Chans |-> 0][c] > 0) \in BOOLEAN
        OBVIOUS
    <2> QED
        BY <2>1, <2>2, Zenon
<1> QED
    BY <1>1, Zenon

\* The value of the refinement mapping's pending in the next state.
PendingNext == [c \in Chans |-> queue'[c] > 0]

(* Each step of the monitor is a step of the notifier, or leaves its     *)
(* state alone.                                                           *)
LEMMA NotifierStep ==
    IInv /\ [Next]_vars => [Notifier!Next]_Notifier!vars
<1> SUFFICES ASSUME IInv, [Next]_vars
             PROVE  [Notifier!Next]_Notifier!vars
    OBVIOUS
<1> USE DEF IInv, TypeOK
<1>1. CASE QueryUptime
    BY <1>1 DEF QueryUptime, Notifier!vars
<1>2. CASE FinishCheck /\ verdict' = "restart"
    <2>1. detections' = detections + 1 /\ Notify /\ UNCHANGED subscribers
        BY <1>2 DEF FinishCheck
    <2>2. PendingNext = [c \in Chans |-> queue[c] > 0 \/ c \in subscribers]
        BY <2>1 DEF PendingNext, Notify, SUBSCRIBER_CHAN_CAP
    <2> QED
        BY <2>1, <2>2 DEF Notifier!Next, Notifier!Notify, PendingNext
<1>3. CASE FinishCheck /\ verdict' # "restart"
    BY <1>3 DEF FinishCheck, Notifier!vars
<1>4. CASE Tick \/ Crash \/ Recover
    BY <1>4 DEF Tick, Crash, Recover, Notifier!vars, ghostVars
<1>5. ASSUME NEW c \in Chans, Add(c) PROVE [Notifier!Next]_Notifier!vars
    <2>1. queue[c] = 0 /\ c \notin subscribers
        BY <1>5 DEF Add
    <2>2. queue' = queue /\ detections' = detections
        BY <1>5 DEF Add, ghostVars
    <2>3. ~[d \in Chans |-> queue[d] > 0][c]
        <3>1. [d \in Chans |-> queue[d] > 0][c] = (queue[c] > 0)
            OBVIOUS
        <3>2. ~(queue[c] > 0)
            BY <2>1
        <3> QED
            BY <3>1, <3>2, Zenon
    <2>4. Notifier!Subscribe(c)
        BY <1>5, <2>1, <2>2, <2>3 DEF Add, Notifier!Subscribe
    <2> QED
        BY <2>4 DEF Notifier!Next
<1>6. ASSUME NEW c \in Chans, Remove(c) PROVE [Notifier!Next]_Notifier!vars
    BY <1>6 DEF Remove, ghostVars, Notifier!Next, Notifier!Unsubscribe
<1>7. ASSUME NEW c \in Chans, Receive(c) PROVE [Notifier!Next]_Notifier!vars
    <2>1. CASE queue[c] = 1
        <3>1. \A d \in Chans : queue'[d] > 0 <=> d # c /\ queue[d] > 0
            BY <1>7, <2>1 DEF Receive
        <3>2. queue' \in [Chans -> Int] /\ queue \in [Chans -> Int]
            BY <1>7 DEF Receive
        <3>3. PendingNext = [[d \in Chans |-> queue[d] > 0] EXCEPT ![c] = FALSE]
            BY <3>1, <3>2, PendingReceive, Zenon DEF PendingNext
        <3>4. subscribers' = subscribers /\ detections' = detections
            BY <1>7 DEF Receive, ghostVars
        <3>5. [d \in Chans |-> queue[d] > 0][c]
            <4>1. [d \in Chans |-> queue[d] > 0][c] = (queue[c] > 0)
                OBVIOUS
            <4>2. queue[c] > 0
                BY <2>1
            <4> QED
                BY <4>1, <4>2, Zenon
        <3>6. Notifier!Receive(c)
            BY <3>3, <3>4, <3>5 DEF Notifier!Receive, PendingNext
        <3> QED
            BY <3>6 DEF Notifier!Next
    <2>2. CASE queue[c] > 1
        BY <1>7, <2>2 DEF Receive, ghostVars, Notifier!vars
    <2> QED
        BY <1>7, <2>1, <2>2 DEF Receive
<1>8. CASE UNCHANGED vars
    BY <1>8 DEF vars, ghostVars, Notifier!vars
<1> QED
    BY <1>1, <1>2, <1>3, <1>4, <1>5, <1>6, <1>7, <1>8 DEF Next

(* The monitor implements the notifier of spec 4.D: the drop-if-full      *)
(* send of NotifySubscribers (instance.go:100-104) never leaves a current *)
(* subscriber without a restart notice after a detection, and Add and     *)
(* Remove change only the channel they are given.                         *)
THEOREM NotifierRefinement == Spec => NotifierRefined
<1>1. Init => Notifier!Init
    <2> SUFFICES ASSUME Init PROVE Notifier!Init
        OBVIOUS
    <2>1. [c \in Chans |-> queue[c] > 0] = [c \in Chans |-> FALSE]
        BY PendingEmpty DEF Init
    <2> QED
        BY <2>1 DEF Init, Notifier!Init
<1>2. Spec => []IInv
    BY IInvInit, IInvStep, PTL DEF Spec
<1> QED
    BY <1>1, <1>2, NotifierStep, PTL DEF Spec, NotifierRefined, Notifier!Spec

=============================================================================

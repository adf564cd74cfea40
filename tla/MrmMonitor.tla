------------------------------ MODULE MrmMonitor ------------------------------
(***************************************************************************)
(* One MySQL instance of the restart monitor, src/mrms/monitor/           *)
(* instance.go: the subscriber map behind its RWMutex (Add, Remove,       *)
(* Empty), the uptime check CheckIfMysqlRestarted and the non-blocking    *)
(* fan-out NotifySubscribers.  The monitor's poll loop, which is not      *)
(* under src/, polls while the instance has subscribers and notifies when *)
(* the check says the server restarted (spec 4.D).                        *)
(*                                                                         *)
(* Time is counted in steps of 1/SUB second.  MySQL's Uptime and Go's     *)
(* time.Unix() both report whole seconds, truncated; the Uptime query     *)
(* takes time, during which the clock runs and the server may restart.    *)
(***************************************************************************)
EXTENDS Integers

CONSTANTS
    SUB,            \* clock steps per second
    MaxTime,        \* bound: clock steps in a behaviour
    MaxInitUptime,  \* bound: server uptime, in steps, at the first sample
    MaxRestarts,    \* bound: server restarts
    Chans           \* subscriber channels, each made once by Add

ASSUME ClockAssumption ==
    /\ SUB \in Nat \ {0}
    /\ MaxTime \in Nat
    /\ MaxInitUptime \in Nat
    /\ MaxRestarts \in Nat

SUBSCRIBER_CHAN_CAP == 5    \* Add: make(chan bool, 5)

VARIABLES
    now,            \* time.Now(), in steps
    up,             \* the server is running
    boot,           \* when the server last started (or, while it is
                    \* down, stopped), in steps
    lastUptime,     \* m.lastUptime
    lastUptimeCheck,\* m.lastUptimeCheck, in steps
    phase,          \* the poller: "idle", or "queried" inside the check
    cur,            \* currentUptime, read by the Uptime() query
    subscribers,    \* the keys of m.subscribers
    queue,          \* queue[c]: notices buffered in channel c
    made,           \* channels returned by Add so far
    restarts,       \* server restarts so far
    sinceSample,    \* history: the server restarted after the last Uptime()
    truth,          \* history: a restart happened between the samples of
                    \* the last check
    verdict,        \* history: result of the last check: "none",
                    \* "restart" or "same"
    detections,     \* history: checks that reported a restart
    noticed         \* history: since the server last went down, a restart
                    \* was notified while it was up

serverVars == <<up, boot, restarts>>
checkVars == <<lastUptime, lastUptimeCheck, phase, cur>>
ghostVars == <<sinceSample, truth, verdict, detections, noticed>>
vars == <<now, serverVars, checkVars, subscribers, queue, made, ghostVars>>

\* Uptime() at time t: whole seconds since the server started.
UptimeAt(t) == (t - boot) \div SUB

\* time.Unix(): whole seconds.
Unix(t) == t \div SUB

-----------------------------------------------------------------------------
(* The instance is made right after a first sample: lastUptime holds the  *)
(* uptime seen at time 0 (spec 4.D, scenario 6).                           *)
Init ==
    /\ now = 0
    /\ up = TRUE
    /\ boot \in -MaxInitUptime..0
    /\ lastUptime = (0 - boot) \div SUB
    /\ lastUptimeCheck = 0
    /\ phase = "idle"
    /\ cur = 0
    /\ subscribers = {}
    /\ queue = [c \in Chans |-> 0]
    /\ made = {}
    /\ restarts = 0
    /\ sinceSample = FALSE
    /\ truth = FALSE
    /\ verdict = "none"
    /\ detections = 0
    /\ noticed = TRUE

\* Empty: no subscriber left; the poll loop stops polling.
Empty == subscribers = {}

\* Add: a new buffered channel is made and put in the map.
Add(c) ==
    /\ c \notin made
    /\ made' = made \cup {c}
    /\ subscribers' = subscribers \cup {c}
    /\ UNCHANGED <<now, serverVars, checkVars, queue, ghostVars>>

\* Remove: the channel is deleted from the map if it is there.
Remove(c) ==
    /\ c \in subscribers
    /\ subscribers' = subscribers \ {c}
    /\ UNCHANGED <<now, serverVars, checkVars, queue, made, ghostVars>>

(* CheckIfMysqlRestarted, up to the moment the server answers            *)
(* currentUptime := Uptime(); the answer reaches the agent later.  A      *)
(* server that is down answers once it is back.                           *)
QueryUptime ==
    /\ phase = "idle"
    /\ ~Empty
    /\ up
    /\ phase' = "queried"
    /\ cur' = UptimeAt(now)
    /\ sinceSample' = FALSE
    /\ truth' = sinceSample
    /\ verdict' = "none"
    /\ UNCHANGED <<now, serverVars, lastUptime, lastUptimeCheck, subscribers,
                   queue, made, detections, noticed>>

\* Mutant: the subscriber channel is made unbuffered, make(chan bool), so
\* a non-blocking send finds no receiver ready and is always dropped.
MutantNotifyUnbuffered ==
    queue' = [c \in Chans |->
                IF c \in subscribers /\ queue[c] < 0
                  THEN queue[c] + 1 ELSE queue[c]]

\* NotifySubscribers: a non-blocking send of true to every subscriber; the
\* send is dropped when the channel is full.
Notify ==
    queue' = [c \in Chans |->
                IF c \in subscribers /\ queue[c] < SUBSCRIBER_CHAN_CAP
                  THEN queue[c] + 1 ELSE queue[c]]

(* The rest of CheckIfMysqlRestarted once Uptime() has returned: the      *)
(* expected uptime is the last one plus the whole seconds elapsed since   *)
(* the last check; the sample is saved; a current uptime below the        *)
(* expected one is a restart, and the poll loop notifies the subscribers. *)
FinishCheck ==
    LET elapsedTime    == Unix(now) - Unix(lastUptimeCheck)
        expectedUptime == lastUptime + elapsedTime
    IN  /\ phase = "queried"
        /\ phase' = "idle"
        /\ lastUptime' = cur
        /\ lastUptimeCheck' = now
        /\ \/ /\ cur < expectedUptime
              /\ Notify
              /\ verdict' = "restart"
              /\ detections' = detections + 1
              /\ noticed' = (noticed \/ up)
           \/ /\ cur >= expectedUptime
              /\ verdict' = "same"
              /\ UNCHANGED <<queue, detections, noticed>>
        /\ UNCHANGED <<now, serverVars, cur, subscribers, made, sinceSample,
                       truth>>

\* The subscriber (the QAN run goroutine) receives from its channel.
Receive(c) ==
    /\ queue[c] > 0
    /\ queue' = [queue EXCEPT ![c] = queue[c] - 1]
    /\ UNCHANGED <<now, serverVars, checkVars, subscribers, made, ghostVars>>

\* Time passes, also while the Uptime() query is running.
Tick ==
    /\ now < MaxTime
    /\ now' = now + 1
    /\ UNCHANGED <<serverVars, checkVars, subscribers, queue, made, ghostVars>>

\* The MySQL server goes down.
Crash ==
    /\ up
    /\ restarts < MaxRestarts
    /\ restarts' = restarts + 1
    /\ up' = FALSE
    /\ boot' = now
    /\ sinceSample' = TRUE
    /\ noticed' = FALSE
    /\ UNCHANGED <<now, checkVars, subscribers, queue, made, truth, verdict,
                   detections>>

\* After at least a second down the server is back, its uptime from zero.
Recover ==
    /\ ~up
    /\ now - boot >= SUB
    /\ up' = TRUE
    /\ boot' = now
    /\ UNCHANGED <<now, restarts, checkVars, subscribers, queue, made,
                   ghostVars>>

Next ==
    \/ QueryUptime \/ FinishCheck \/ Tick \/ Crash \/ Recover
    \/ \E c \in Chans : Add(c) \/ Remove(c) \/ Receive(c)

Spec == Init /\ [][Next]_vars

-----------------------------------------------------------------------------
TypeOK ==
    /\ now \in 0..MaxTime
    /\ up \in BOOLEAN
    /\ boot \in -MaxInitUptime..MaxTime
    /\ lastUptime \in Nat /\ cur \in Nat
    /\ lastUptimeCheck \in 0..MaxTime
    /\ phase \in {"idle", "queried"}
    /\ subscribers \subseteq made /\ made \subseteq Chans
    /\ queue \in [Chans -> 0..SUBSCRIBER_CHAN_CAP]
    /\ restarts \in 0..MaxRestarts
    /\ sinceSample \in BOOLEAN /\ truth \in BOOLEAN
    /\ verdict \in {"none", "restart", "same"}
    /\ detections \in Nat
    /\ noticed \in BOOLEAN

(* The fan-out of NotifySubscribers implements the notifier of spec 4.D:  *)
(* a channel holds a notice exactly when it has something buffered, Add   *)
(* and Remove change only the channel they are given, and the drop of a   *)
(* send to a full channel never leaves a subscriber without a notice.     *)
Notifier == INSTANCE RestartNotifier WITH
                pending <- [c \in Chans |-> queue[c] > 0],
                announced <- detections

NotifierRefined == Notifier!Spec

(* The comment at instance.go:85 and the spec's scenario ("uptime 60->120 *)
(* with 30s elapsed => no restart"): the check reports a restart only     *)
(* when the server did restart between its two samples.                   *)
NoFalseRestart == verdict = "restart" => truth

(* Spec 4.D: a restart is detected.  A check that reports "same" across  *)
(* a restart saves the new server's uptime, so no later check can see the *)
(* restart: by then a notice must have gone out while the server was up,  *)
(* or the re-configuration it asks for (manager.go:379) cannot succeed.   *)
RestartDetected == (verdict = "same" /\ truth) => noticed

=============================================================================

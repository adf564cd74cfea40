------------------------------ MODULE LogRelay ------------------------------
(***************************************************************************)
(* The log relay of log/relay.go: one goroutine (Run) that takes entries   *)
(* from logChan, filters them by level, sends them over the websocket or   *)
(* keeps them in the two-tier buffer (firstBuf, then the sliding window    *)
(* secondBuf with a lost tally), and on every connect event logs an        *)
(* internal entry on its own logChan and, when connected, resends the      *)
(* buffers.  The websocket is the environment: connect() brings it up and  *)
(* waitErr() reports it down on ConnectChan; a send can time out.          *)
(***************************************************************************)
EXTENDS Naturals, Sequences, FiniteSets

CONSTANTS
    BUFFER_SIZE,    \* log.BUFFER_SIZE (10 in the code)
    MaxEntries,     \* bound: entries put on logChan by other goroutines,
                    \* and log file or level changes
    MaxDrops,       \* bound: websocket connections lost
    MaxFaults,      \* bound: sends that time out on a live websocket
    Nil,            \* an empty buffer slot
    LostWarning     \* the "Lost N log entries" entry resend makes

ASSUME BufferAssumption == BUFFER_SIZE \in Nat \ {0}

ASSUME BoundsAssumption ==
    /\ MaxEntries \in Nat
    /\ MaxDrops \in Nat
    /\ MaxFaults \in Nat
    /\ Nil \notin Nat
    /\ LostWarning \notin Nat \cup {Nil}

LOG_CHAN_CAP == BUFFER_SIZE * 3      \* make(chan *proto.LogEntry, BUFFER_SIZE*3)
CONNECT_CHAN_CAP == 1                \* the client's ConnectChan

\* proto log levels: LOG_WARNING = 4, LOG_DEBUG = 7; 8 is out of range.
LOG_EMERGENCY == 0
LOG_WARNING == 4
LOG_DEBUG == 7
EntryLevels == {LOG_WARNING, LOG_DEBUG}
LevelInputs == {LOG_WARNING, LOG_DEBUG, LOG_DEBUG + 1}

Slots == 0..(BUFFER_SIZE - 1)

\* A log entry is its number, or the lost-count warning resend makes.
Entries == Nat \cup {LostWarning}

VARIABLES
    pc,             \* Run: "select"; blocked in internal() on logChan
                    \* ("internalUp" / "internalDown" carry on after it with
                    \* resend / go connect, "internal" with the next select);
                    \* or in resend's loops ("resendFirst", "resendLost",
                    \* "resendSecond")
    ri,             \* resend: the loop index i
    connected,      \* r.connected
    logLevel,       \* r.logLevel
    logChan,        \* r.logChan: <<id, level>> pairs; entries are numbered
                    \* in the order they are put on logChan
    firstBuf, firstBufSize,
    secondBuf, secondBufSize,
    lost,           \* r.lost
    link,           \* websocket: "connecting" (connect() running), "up",
                    \* "lost" (recv failed, waitErr about to Disconnect),
                    \* "down" (Disconnect reported)
    connectChan,    \* client.ConnectChan()
    nextEntry,      \* id of the next entry put on logChan
    accepted,       \* history: entries that passed the level filter
    discarded,      \* history: entries the sliding window threw away
    delivered,      \* history: what the API received, in order
    drops,          \* connections lost so far
    faults          \* send timeouts so far

bufVars == <<firstBuf, firstBufSize, secondBuf, secondBufSize, lost, discarded>>
vars == <<pc, ri, connected, logLevel, logChan, bufVars, link, connectChan,
          nextEntry, accepted, delivered, drops, faults>>

Held == {firstBuf[i] : i \in Slots} \cup {secondBuf[i] : i \in Slots}

-----------------------------------------------------------------------------
Init ==
    /\ pc = "select"
    /\ ri = 0
    /\ connected = FALSE
    /\ logLevel = LOG_WARNING
    /\ logChan = <<>>
    /\ firstBuf = [i \in Slots |-> Nil]
    /\ firstBufSize = 0
    /\ secondBuf = [i \in Slots |-> Nil]
    /\ secondBufSize = 0
    /\ lost = 0
    /\ link = "connecting"             \* Run: go r.connect()
    /\ connectChan = <<>>
    /\ nextEntry = 1
    /\ accepted = {}
    /\ discarded = {}
    /\ delivered = <<>>
    /\ drops = 0
    /\ faults = 0

-----------------------------------------------------------------------------
\* Mutant: buffer() fills firstBuf one slot past its end.
MutantBufferPastEnd(e) ==
    IF firstBufSize <= BUFFER_SIZE
    THEN /\ firstBuf' = [firstBuf EXCEPT ![firstBufSize] = e]
         /\ firstBufSize' = firstBufSize + 1
         /\ UNCHANGED <<secondBuf, secondBufSize, lost, discarded>>
    ELSE /\ lost' = lost + secondBufSize
         /\ discarded' = discarded \cup ({secondBuf[i] : i \in Slots} \ {Nil})
         /\ secondBuf' = [i \in Slots |-> IF i = 0 THEN e ELSE Nil]
         /\ secondBufSize' = 1
         /\ UNCHANGED <<firstBuf, firstBufSize>>

(* buffer(e): into firstBuf at firstBufSize while it has room, else into   *)
(* secondBuf at secondBufSize; when both are full secondBuf is cleared,    *)
(* its size added to lost, and e becomes its only entry.                   *)
Buffer(e) ==
    IF firstBufSize < BUFFER_SIZE
    THEN /\ firstBuf' = [firstBuf EXCEPT ![firstBufSize] = e]
         /\ firstBufSize' = firstBufSize + 1
         /\ UNCHANGED <<secondBuf, secondBufSize, lost, discarded>>
    ELSE IF secondBufSize < BUFFER_SIZE
    THEN /\ secondBuf' = [secondBuf EXCEPT ![secondBufSize] = e]
         /\ secondBufSize' = secondBufSize + 1
         /\ UNCHANGED <<firstBuf, firstBufSize, lost, discarded>>
    ELSE /\ lost' = lost + secondBufSize
         /\ discarded' = discarded \cup ({secondBuf[i] : i \in Slots} \ {Nil})
         /\ secondBuf' = [i \in Slots |-> IF i = 0 THEN e ELSE Nil]
         /\ secondBufSize' = 1
         /\ UNCHANGED <<firstBuf, firstBufSize>>

\* A send over the websocket can succeed only while it is up; on a live
\* websocket it can still time out (2 s write deadline).
SendOK == link = "up"
Timeout == faults < MaxFaults /\ faults' = faults + 1

(* Run, an entry from logChan: dropped if too verbose; otherwise sent when *)
(* connected, buffered if that send fails (send(entry, true)), and        *)
(* buffered when not connected.                                           *)
RecvEntry ==
    /\ pc = "select"
    /\ logChan # <<>>
    /\ logChan' = Tail(logChan)
    /\ LET e == Head(logChan)[1]
           level == Head(logChan)[2]
       IN IF level > logLevel
          THEN UNCHANGED <<bufVars, accepted, delivered, faults>>
          ELSE /\ accepted' = accepted \cup {e}
               /\ \/ /\ connected /\ SendOK
                     /\ delivered' = Append(delivered, e)
                     /\ UNCHANGED <<bufVars, faults>>
                  \/ /\ connected
                     /\ \/ ~SendOK /\ UNCHANGED faults
                        \/ SendOK /\ Timeout
                     /\ Buffer(e)
                     /\ UNCHANGED delivered
                  \/ /\ ~connected
                     /\ Buffer(e)
                     /\ UNCHANGED <<delivered, faults>>
    /\ UNCHANGED <<pc, ri, connected, logLevel, link, connectChan, nextEntry, drops>>

(* Run, a connect event: r.connected is set, then internal() puts a       *)
(* "connected: ..." entry on logChan, which blocks while logChan is full.  *)
RecvConnect ==
    /\ pc = "select"
    /\ connectChan # <<>>
    /\ connectChan' = Tail(connectChan)
    /\ connected' = Head(connectChan)
    /\ pc' = IF Head(connectChan) THEN "internalUp" ELSE "internalDown"
    /\ UNCHANGED <<ri, logLevel, logChan, bufVars, link, nextEntry, accepted,
                   delivered, drops, faults>>

\* Run, a new log file: setLogFile; a file that cannot be opened is
\* reported with internal().  Other goroutines send at most MaxEntries.
RecvLogFile ==
    /\ pc = "select"
    /\ nextEntry <= MaxEntries
    /\ pc' = "internal"
    /\ UNCHANGED <<ri, connected, logLevel, logChan, bufVars, link, connectChan,
                   nextEntry, accepted, delivered, drops, faults>>

\* Run, a new log level: setLogLevel keeps a level in LOG_EMERGENCY ..
\* LOG_DEBUG and reports any other with internal().
RecvLogLevel ==
    /\ pc = "select"
    /\ nextEntry <= MaxEntries
    /\ \E level \in LevelInputs :
         IF level >= LOG_EMERGENCY /\ level <= LOG_DEBUG
         THEN logLevel' = level /\ UNCHANGED pc
         ELSE pc' = "internal" /\ UNCHANGED logLevel
    /\ UNCHANGED <<ri, connected, logChan, bufVars, link, connectChan, nextEntry,
                   accepted, delivered, drops, faults>>

(* internal(msg): Run itself puts a LOG_WARNING entry on logChan, a         *)
(* blocking send on a channel only Run reads.  After it, a connect event   *)
(* goes on to resend (the guard len(r.firstBuf) > 0 always holds: the      *)
(* slice has BUFFER_SIZE elements) or to go r.connect().                  *)
Internal ==
    /\ pc \in {"internal", "internalUp", "internalDown"}
    /\ Len(logChan) < LOG_CHAN_CAP
    /\ logChan' = Append(logChan, <<nextEntry, LOG_WARNING>>)
    /\ nextEntry' = nextEntry + 1
    /\ pc' = IF pc = "internalUp" THEN "resendFirst" ELSE "select"
    /\ ri' = 0
    /\ link' = IF pc = "internalDown" THEN "connecting" ELSE link
    /\ UNCHANGED <<connected, logLevel, bufVars, connectChan, accepted,
                   delivered, drops, faults>>

(* One send(e, false) of resend: delivered when the websocket is up and    *)
(* the write does not time out, else an error and nothing else happens.    *)
SendNoBuffer(e, ok) ==
    \/ /\ ok
       /\ SendOK
       /\ delivered' = Append(delivered, e)
       /\ UNCHANGED faults
    \/ /\ ~ok
       /\ \/ ~SendOK /\ UNCHANGED faults
          \/ SendOK /\ Timeout
       /\ UNCHANGED delivered

NextIndex == IF ri + 1 < BUFFER_SIZE THEN ri + 1 ELSE 0

\* Mutant: resend's first loop does not clear a slot it sent.
MutantResendKeep ==
    /\ pc = "resendFirst"
    /\ ri' = NextIndex
    /\ pc' = IF ri + 1 < BUFFER_SIZE THEN pc ELSE "resendLost"
    /\ IF firstBuf[ri] = Nil
       THEN UNCHANGED delivered /\ UNCHANGED faults
       ELSE \E ok \in BOOLEAN : SendNoBuffer(firstBuf[ri], ok)
    /\ UNCHANGED <<connected, logLevel, logChan, firstBuf, firstBufSize,
                   secondBuf, secondBufSize, lost, discarded, link,
                   connectChan, nextEntry, accepted, drops>>

(* resend, first loop, iteration ri: a held entry is sent and, on success, *)
(* its slot cleared and firstBufSize decremented.                          *)
ResendFirst ==
    /\ pc = "resendFirst"
    /\ ri' = NextIndex
    /\ pc' = IF ri + 1 < BUFFER_SIZE THEN pc ELSE "resendLost"
    /\ IF firstBuf[ri] = Nil
       THEN UNCHANGED <<firstBuf, firstBufSize, delivered, faults>>
       ELSE \E ok \in BOOLEAN :
              /\ SendNoBuffer(firstBuf[ri], ok)
              /\ firstBuf' = IF ok THEN [firstBuf EXCEPT ![ri] = Nil] ELSE firstBuf
              /\ firstBufSize' = IF ok THEN firstBufSize - 1 ELSE firstBufSize
    /\ UNCHANGED <<connected, logLevel, logChan, secondBuf, secondBufSize, lost,
                   discarded, link, connectChan, nextEntry, accepted, drops>>

(* resend, between the loops: if entries were lost, the "Lost N log        *)
(* entries" warning is sent with bufferOnErr = false, and lost reset.      *)
ResendLost ==
    /\ pc = "resendLost"
    /\ pc' = "resendSecond"
    /\ IF lost > 0
       THEN \E ok \in BOOLEAN : SendNoBuffer(LostWarning, ok)
       ELSE UNCHANGED <<delivered, faults>>
    /\ lost' = 0
    /\ UNCHANGED <<ri, connected, logLevel, logChan, firstBuf, firstBufSize,
                   secondBuf, secondBufSize, discarded, link, connectChan,
                   nextEntry, accepted, drops>>

(* resend, second loop, iteration ri, as the first loop on secondBuf.      *)
ResendSecond ==
    /\ pc = "resendSecond"
    /\ ri' = NextIndex
    /\ pc' = IF ri + 1 < BUFFER_SIZE THEN pc ELSE "select"
    /\ IF secondBuf[ri] = Nil
       THEN UNCHANGED <<secondBuf, secondBufSize, delivered, faults>>
       ELSE \E ok \in BOOLEAN :
              /\ SendNoBuffer(secondBuf[ri], ok)
              /\ secondBuf' = IF ok THEN [secondBuf EXCEPT ![ri] = Nil] ELSE secondBuf
              /\ secondBufSize' = IF ok THEN secondBufSize - 1 ELSE secondBufSize
    /\ UNCHANGED <<connected, logLevel, logChan, firstBuf, firstBufSize, lost,
                   discarded, link, connectChan, nextEntry, accepted, drops>>

-----------------------------------------------------------------------------
(* The rest of the agent: a service logs an entry at some level.           *)
LogEntry ==
    /\ nextEntry <= MaxEntries
    /\ Len(logChan) < LOG_CHAN_CAP
    /\ \E level \in EntryLevels :
         logChan' = Append(logChan, <<nextEntry, level>>)
    /\ nextEntry' = nextEntry + 1
    /\ UNCHANGED <<pc, ri, connected, logLevel, bufVars, link, connectChan,
                   accepted, delivered, drops, faults>>

(* The websocket client: Connect() returns connected and reports true on   *)
(* ConnectChan; a failed recv in waitErr() ends in Disconnect(), which      *)
(* reports false.                                                          *)
LinkUp ==
    /\ link = "connecting"
    /\ Len(connectChan) < CONNECT_CHAN_CAP
    /\ link' = "up"
    /\ connectChan' = Append(connectChan, TRUE)
    /\ UNCHANGED <<pc, ri, connected, logLevel, logChan, bufVars, nextEntry,
                   accepted, delivered, drops, faults>>

LinkDrop ==
    /\ link = "up"
    /\ drops < MaxDrops
    /\ link' = "lost"
    /\ drops' = drops + 1
    /\ UNCHANGED <<pc, ri, connected, logLevel, logChan, bufVars, connectChan,
                   nextEntry, accepted, delivered, faults>>

Disconnect ==
    /\ link = "lost"
    /\ Len(connectChan) < CONNECT_CHAN_CAP
    /\ link' = "down"
    /\ connectChan' = Append(connectChan, FALSE)
    /\ UNCHANGED <<pc, ri, connected, logLevel, logChan, bufVars, nextEntry,
                   accepted, delivered, drops, faults>>

-----------------------------------------------------------------------------
Run == RecvEntry \/ RecvConnect \/ Internal
       \/ ResendFirst \/ ResendLost \/ ResendSecond

Next == Run \/ RecvLogFile \/ RecvLogLevel
        \/ LogEntry \/ LinkUp \/ LinkDrop \/ Disconnect

(* Run is one goroutine that is never starved; connect() retries until the *)
(* websocket is up, and waitErr() reports a failed recv.  Log producers,    *)
(* commands and connection losses are the environment and not fair.       *)
Fairness == WF_vars(Run) /\ WF_vars(LinkUp) /\ WF_vars(Disconnect)

Spec == Init /\ [][Next]_vars /\ Fairness

-----------------------------------------------------------------------------
TypeOK ==
    /\ pc \in {"select", "internal", "internalUp", "internalDown",
               "resendFirst", "resendLost", "resendSecond"}
    /\ ri \in Slots
    /\ connected \in BOOLEAN
    /\ logLevel \in LOG_EMERGENCY..LOG_DEBUG
    /\ logChan \in Seq((Nat \ {0}) \X EntryLevels)
    /\ Len(logChan) <= LOG_CHAN_CAP
    /\ firstBuf \in [Slots -> Entries \cup {Nil}]
    /\ secondBuf \in [Slots -> Entries \cup {Nil}]
    /\ firstBufSize \in 0..BUFFER_SIZE
    /\ secondBufSize \in 0..BUFFER_SIZE
    /\ lost \in Nat
    /\ link \in {"connecting", "up", "lost", "down"}
    /\ connectChan \in Seq(BOOLEAN)
    /\ Len(connectChan) <= CONNECT_CHAN_CAP
    /\ nextEntry \in Nat \ {0}
    /\ accepted \subseteq Nat
    /\ discarded \subseteq Nat
    /\ delivered \in Seq(Entries)
    /\ drops \in 0..MaxDrops
    /\ faults \in 0..MaxFaults

DeliveredSet == {delivered[i] : i \in 1..Len(delivered)}

(* No log entry reaches the API twice: resend clears a slot exactly when   *)
(* its send succeeded, so an entry that was delivered is never resent.     *)
NoDuplicateDelivery ==
    \A i, j \in 1..Len(delivered) :
        i # j /\ delivered[i] # LostWarning => delivered[i] # delivered[j]

(* Every entry that passed the level filter has been delivered, is held in *)
(* firstBuf or secondBuf, or was thrown away by the sliding window and      *)
(* counted in lost: buffer() never overwrites an entry it still holds.      *)
EntriesAccounted == accepted \subseteq DeliveredSet \cup Held \cup discarded

(* The relay implements what it promises the API (spec 4.E): an entry     *)
(* reaches the API only after it passed the level filter, at most once,   *)
(* and never after the sliding window gave it up; the entries held in the *)
(* buffers are the pending ones, whatever sends time out or links drop.   *)
Delivery == INSTANCE RelayDelivery WITH
                pending <- Held \ {Nil},
                seen <- accepted

DeliveryRefined == Delivery!Spec

(* Run never blocks forever in internal(): it does not send on its own     *)
(* logChan while that channel is full (only Run receives from it).         *)
RelayNeverSelfBlocked ==
    pc \in {"internal", "internalUp", "internalDown"} => Len(logChan) < LOG_CHAN_CAP

====

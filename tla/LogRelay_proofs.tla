---------------------------- MODULE LogRelay_proofs ----------------------------
(***************************************************************************)
(* Proofs about the log relay of LogRelay: its states are well typed (in   *)
(* particular the buffer sizes stay within 0..BUFFER_SIZE although resend  *)
(* decrements them), no entry reaches the API twice, and the relay        *)
(* implements RelayDelivery.                                              *)
(***************************************************************************)
EXTENDS LogRelay, FiniteSetTheorems, SequenceTheorems, TLAPS

\* The slots of buffer b that hold an entry.
Occupied(b) == {i \in Slots : b[i] # Nil}

\* No slot of buffer b holds the lost-count warning.
NoLostWarning(b) == \A i \in Slots : b[i] # LostWarning

\* The state of Run and of the environment, outside the buffers, is typed.
CtrlOK ==
    /\ pc \in {"select", "internal", "internalUp", "internalDown",
               "resendFirst", "resendLost", "resendSecond"}
    /\ ri \in Slots
    /\ connected \in BOOLEAN
    /\ logLevel \in LOG_EMERGENCY..LOG_DEBUG
    /\ logChan \in Seq((Nat \ {0}) \X EntryLevels)
    /\ Len(logChan) <= LOG_CHAN_CAP
    /\ link \in {"connecting", "up", "lost", "down"}
    /\ connectChan \in Seq(BOOLEAN)
    /\ Len(connectChan) <= CONNECT_CHAN_CAP
    /\ nextEntry \in Nat \ {0}
    /\ accepted \subseteq Nat
    /\ delivered \in Seq(Entries)
    /\ drops \in 0..MaxDrops
    /\ faults \in 0..MaxFaults

(* The buffers are typed, hold no lost-count warning, and their size      *)
(* counters bound the occupied slots: buffer() may overwrite a held slot  *)
(* (and still count it), resend() decrements only for a slot it clears,  *)
(* so a size never drops below zero.                                      *)
BufOK ==
    /\ firstBuf \in [Slots -> Entries \cup {Nil}]
    /\ secondBuf \in [Slots -> Entries \cup {Nil}]
    /\ firstBufSize \in 0..BUFFER_SIZE
    /\ secondBufSize \in 0..BUFFER_SIZE
    /\ lost \in Nat
    /\ discarded \subseteq Nat
    /\ NoLostWarning(firstBuf) /\ NoLostWarning(secondBuf)
    /\ Cardinality(Occupied(firstBuf)) <= firstBufSize
    /\ Cardinality(Occupied(secondBuf)) <= secondBufSize

IInv == CtrlOK /\ BufOK

-----------------------------------------------------------------------------
(* Facts about the occupied slots of a buffer.                            *)

\* A buffer has finitely many occupied slots.
LEMMA OccupiedFinite ==
    ASSUME NEW b
    PROVE  /\ IsFiniteSet(Occupied(b))
           /\ Cardinality(Occupied(b)) \in Nat
<1>1. IsFiniteSet(Slots)
    BY BufferAssumption, FS_Interval DEF Slots
<1>2. Occupied(b) \in SUBSET Slots
    BY DEF Occupied
<1> QED
    BY <1>1, <1>2, FS_Subset, FS_CardinalityType

\* buffer() writing an entry into slot k occupies at most that slot more.
LEMMA OccupiedWrite ==
    ASSUME NEW b, DOMAIN b = Slots, NEW k \in Slots, NEW e, e # Nil
    PROVE  Cardinality(Occupied([b EXCEPT ![k] = e]))
             <= Cardinality(Occupied(b)) + 1
<1>1. Occupied([b EXCEPT ![k] = e]) \in SUBSET (Occupied(b) \cup {k})
    BY DEF Occupied
<1>2. /\ IsFiniteSet(Occupied(b) \cup {k})
      /\ Cardinality(Occupied(b) \cup {k}) <= Cardinality(Occupied(b)) + 1
    BY OccupiedFinite, FS_AddElement
<1>3. Cardinality(Occupied([b EXCEPT ![k] = e]))
        <= Cardinality(Occupied(b) \cup {k})
    BY <1>1, <1>2, FS_Subset
<1>4. /\ Cardinality(Occupied([b EXCEPT ![k] = e])) \in Nat
      /\ Cardinality(Occupied(b) \cup {k}) \in Nat
      /\ Cardinality(Occupied(b)) \in Nat
    BY <1>2, OccupiedFinite, FS_CardinalityType
<1> QED
    BY <1>2, <1>3, <1>4

\* resend() clearing an occupied slot k frees exactly that slot.
LEMMA OccupiedClear ==
    ASSUME NEW b, DOMAIN b = Slots, NEW k \in Slots, b[k] # Nil
    PROVE  /\ Cardinality(Occupied(b)) >= 1
           /\ Cardinality(Occupied([b EXCEPT ![k] = Nil]))
                = Cardinality(Occupied(b)) - 1
<1>1. Occupied([b EXCEPT ![k] = Nil]) = Occupied(b) \ {k}
    <2>1. \A i \in Slots : [b EXCEPT ![k] = Nil][i]
                             = IF i = k THEN Nil ELSE b[i]
        OBVIOUS
    <2> QED
        BY <2>1 DEF Occupied
<1>2. k \in Occupied(b)
    BY DEF Occupied
<1>3. Cardinality(Occupied(b) \ {k}) = Cardinality(Occupied(b)) - 1
    BY <1>2, OccupiedFinite, FS_RemoveElement
<1>4. Cardinality(Occupied(b) \ {k}) \in Nat
    BY OccupiedFinite, FS_RemoveElement, FS_CardinalityType
<1>5. Cardinality(Occupied(b)) \in Nat
    BY OccupiedFinite
<1>6. Cardinality(Occupied([b EXCEPT ![k] = Nil]))
        = Cardinality(Occupied(b) \ {k})
    BY <1>1
<1> QED
    BY <1>3, <1>4, <1>5, <1>6

\* buffer() restarting the window leaves one occupied slot.
LEMMA OccupiedFresh ==
    ASSUME NEW e, e # Nil
    PROVE  Cardinality(Occupied([i \in Slots |-> IF i = 0 THEN e ELSE Nil]))
             = 1
<1>1. Occupied([i \in Slots |-> IF i = 0 THEN e ELSE Nil]) = {0}
    <2>1. 0 \in Slots
        BY BufferAssumption DEF Slots
    <2> QED
        BY <2>1 DEF Occupied
<1> QED
    BY <1>1, FS_Singleton

-----------------------------------------------------------------------------
LEMMA IInvImplies == IInv => TypeOK
BY DEF IInv, CtrlOK, BufOK, TypeOK

LEMMA IInvInit == Init => IInv
<1> SUFFICES ASSUME Init PROVE IInv
    OBVIOUS
<1> USE BufferAssumption, BoundsAssumption
<1>1. CtrlOK
    BY DEF Init, CtrlOK, Slots, LOG_EMERGENCY, LOG_WARNING, LOG_DEBUG
<1>2. Occupied(firstBuf) = {} /\ Occupied(secondBuf) = {}
    BY DEF Init, Occupied
<1>3. BufOK
    BY <1>2, FS_EmptySet
    DEF Init, BufOK, NoLostWarning, Entries
<1> QED
    BY <1>1, <1>3 DEF IInv

(* buffer(e) of an entry taken from logChan keeps the buffers right.      *)
LEMMA BufferStep ==
    ASSUME BufOK, NEW e \in Nat, Buffer(e)
    PROVE  BufOK'
<1> USE BufferAssumption, BoundsAssumption
<1>1. e # Nil /\ e # LostWarning /\ e \in Entries
    BY DEF Entries
<1>2. CASE firstBufSize < BUFFER_SIZE
    <2>1. firstBufSize \in Slots
        BY <1>2 DEF BufOK, Slots
    <2>2. /\ firstBuf' = [firstBuf EXCEPT ![firstBufSize] = e]
          /\ firstBufSize' = firstBufSize + 1
          /\ UNCHANGED <<secondBuf, secondBufSize, lost, discarded>>
        BY <1>2 DEF Buffer
    <2>3. Cardinality(Occupied(firstBuf')) <= Cardinality(Occupied(firstBuf)) + 1
        <3>1. DOMAIN firstBuf = Slots
            BY DEF BufOK
        <3>2. Cardinality(Occupied([firstBuf EXCEPT ![firstBufSize] = e]))
                <= Cardinality(Occupied(firstBuf)) + 1
            BY <1>1, <2>1, <3>1, OccupiedWrite, Zenon
        <3>3. firstBuf' = [firstBuf EXCEPT ![firstBufSize] = e]
            BY <2>2
        <3> QED
            BY <3>2, <3>3, Zenon
    <2>4. firstBuf' \in [Slots -> Entries \cup {Nil}]
        BY <1>1, <2>1, <2>2 DEF BufOK
    <2>5. NoLostWarning(firstBuf')
        BY <1>1, <2>1, <2>2 DEF BufOK, NoLostWarning
    <2>6. firstBufSize' \in 0..BUFFER_SIZE
        BY <1>2, <2>2 DEF BufOK
    <2>7. Cardinality(Occupied(firstBuf')) <= firstBufSize'
        <3>1. /\ Cardinality(Occupied(firstBuf')) \in Nat
              /\ Cardinality(Occupied(firstBuf)) \in Nat
            BY OccupiedFinite
        <3> QED
            BY <2>2, <2>3, <3>1 DEF BufOK
    <2> QED
        BY <2>2, <2>4, <2>5, <2>6, <2>7 DEF BufOK
<1>3. CASE ~(firstBufSize < BUFFER_SIZE) /\ secondBufSize < BUFFER_SIZE
    <2>1. secondBufSize \in Slots
        BY <1>3 DEF BufOK, Slots
    <2>2. /\ secondBuf' = [secondBuf EXCEPT ![secondBufSize] = e]
          /\ secondBufSize' = secondBufSize + 1
          /\ UNCHANGED <<firstBuf, firstBufSize, lost, discarded>>
        BY <1>3 DEF Buffer
    <2>3. Cardinality(Occupied(secondBuf'))
            <= Cardinality(Occupied(secondBuf)) + 1
        <3>1. DOMAIN secondBuf = Slots
            BY DEF BufOK
        <3>2. Cardinality(Occupied([secondBuf EXCEPT ![secondBufSize] = e]))
                <= Cardinality(Occupied(secondBuf)) + 1
            BY <1>1, <2>1, <3>1, OccupiedWrite, Zenon
        <3>3. secondBuf' = [secondBuf EXCEPT ![secondBufSize] = e]
            BY <2>2
        <3> QED
            BY <3>2, <3>3, Zenon
    <2>4. secondBuf' \in [Slots -> Entries \cup {Nil}]
        BY <1>1, <2>1, <2>2 DEF BufOK
    <2>5. NoLostWarning(secondBuf')
        BY <1>1, <2>1, <2>2 DEF BufOK, NoLostWarning
    <2>6. secondBufSize' \in 0..BUFFER_SIZE
        BY <1>3, <2>2 DEF BufOK
    <2>7. Cardinality(Occupied(secondBuf')) <= secondBufSize'
        <3>1. /\ Cardinality(Occupied(secondBuf')) \in Nat
              /\ Cardinality(Occupied(secondBuf)) \in Nat
            BY OccupiedFinite
        <3> QED
            BY <2>2, <2>3, <3>1 DEF BufOK
    <2> QED
        BY <2>2, <2>4, <2>5, <2>6, <2>7 DEF BufOK
<1>4. CASE ~(firstBufSize < BUFFER_SIZE) /\ ~(secondBufSize < BUFFER_SIZE)
    <2>1. /\ lost' = lost + secondBufSize
          /\ discarded' = discarded \cup ({secondBuf[i] : i \in Slots} \ {Nil})
          /\ secondBuf' = [i \in Slots |-> IF i = 0 THEN e ELSE Nil]
          /\ secondBufSize' = 1
          /\ UNCHANGED <<firstBuf, firstBufSize>>
        BY <1>4 DEF Buffer
    <2>2. ({secondBuf[i] : i \in Slots} \ {Nil}) \subseteq Nat
        BY DEF BufOK, NoLostWarning, Entries
    <2>3. Cardinality(Occupied(secondBuf')) = 1
        <3>1. Cardinality(Occupied([i \in Slots |-> IF i = 0 THEN e ELSE Nil]))
                = 1
            BY <1>1, OccupiedFresh, Zenon
        <3> QED
            BY <2>1, <3>1, Zenon
    <2>4. secondBuf' \in [Slots -> Entries \cup {Nil}]
        BY <1>1, <2>1
    <2>5. NoLostWarning(secondBuf')
        BY <1>1, <2>1 DEF NoLostWarning
    <2>6. lost' \in Nat
        BY <2>1 DEF BufOK
    <2>7. discarded' \subseteq Nat
        BY <2>1, <2>2, Zenon DEF BufOK
    <2> QED
        BY <2>1, <2>3, <2>4, <2>5, <2>6, <2>7, BufferAssumption DEF BufOK
<1> QED
    BY <1>2, <1>3, <1>4

\* A step that leaves the buffers alone keeps them right.
LEMMA BufUnchanged ==
    ASSUME BufOK, UNCHANGED bufVars
    PROVE  BufOK'
BY DEF BufOK, bufVars, NoLostWarning, Occupied

(* One send(e, false) of resend delivers a typed entry and spends at most *)
(* one fault.                                                             *)
LEMMA SendStep ==
    ASSUME CtrlOK, NEW e \in Entries, NEW ok, SendNoBuffer(e, ok)
    PROVE  /\ delivered' \in Seq(Entries)
           /\ faults' \in 0..MaxFaults
<1>1. CASE delivered' = Append(delivered, e) /\ UNCHANGED faults
    BY <1>1 DEF CtrlOK
<1>2. CASE UNCHANGED delivered /\ (UNCHANGED faults \/ Timeout)
    BY <1>2, BoundsAssumption DEF CtrlOK, Timeout
<1> QED
    BY <1>1, <1>2 DEF SendNoBuffer

(* A resend loop step on the first buffer keeps it right: a slot is       *)
(* cleared, and its size decremented, only when it held an entry.         *)
LEMMA ResendFirstStep ==
    ASSUME CtrlOK, BufOK, ResendFirst
    PROVE  /\ BufOK'
           /\ delivered' \in Seq(Entries) /\ faults' \in 0..MaxFaults
<1> USE BufferAssumption, BoundsAssumption
<1>1. UNCHANGED <<secondBuf, secondBufSize, lost, discarded>>
    BY DEF ResendFirst
<1>2. CASE firstBuf[ri] = Nil
    BY <1>1, <1>2 DEF ResendFirst, BufOK, NoLostWarning, Occupied, CtrlOK
<1>3. CASE firstBuf[ri] # Nil
    <2>1. PICK ok \in BOOLEAN :
            /\ SendNoBuffer(firstBuf[ri], ok)
            /\ firstBuf' = IF ok THEN [firstBuf EXCEPT ![ri] = Nil] ELSE firstBuf
            /\ firstBufSize' = IF ok THEN firstBufSize - 1 ELSE firstBufSize
        BY <1>3 DEF ResendFirst
    <2>2. firstBuf[ri] \in Entries
        BY <1>3 DEF BufOK, CtrlOK
    <2>3. delivered' \in Seq(Entries) /\ faults' \in 0..MaxFaults
        BY <2>1, <2>2, SendStep
    <2>4. CASE ok
        <3>1. /\ Cardinality(Occupied(firstBuf)) >= 1
              /\ Cardinality(Occupied([firstBuf EXCEPT ![ri] = Nil]))
                   = Cardinality(Occupied(firstBuf)) - 1
            <4>1. DOMAIN firstBuf = Slots /\ ri \in Slots
                BY DEF BufOK, CtrlOK
            <4> QED
                BY <1>3, <4>1, OccupiedClear, Zenon
        <3>2. firstBuf' = [firstBuf EXCEPT ![ri] = Nil]
              /\ firstBufSize' = firstBufSize - 1
            BY <2>1, <2>4
        <3>3. Cardinality(Occupied(firstBuf')) = Cardinality(Occupied(firstBuf)) - 1
            BY <3>1, <3>2, Zenon
        <3>4. /\ Cardinality(Occupied(firstBuf')) \in Nat
              /\ Cardinality(Occupied(firstBuf)) \in Nat
            BY OccupiedFinite
        <3>5. firstBufSize' \in 0..BUFFER_SIZE
              /\ Cardinality(Occupied(firstBuf')) <= firstBufSize'
            BY <3>1, <3>2, <3>3, <3>4 DEF BufOK
        <3>6. firstBuf' \in [Slots -> Entries \cup {Nil}]
              /\ NoLostWarning(firstBuf')
            BY <3>2, BoundsAssumption DEF BufOK, CtrlOK, NoLostWarning
        <3> QED
            BY <1>1, <2>3, <3>5, <3>6 DEF BufOK
    <2>5. CASE ~ok
        <3>1. firstBuf' = firstBuf /\ firstBufSize' = firstBufSize
            BY <2>1, <2>5
        <3> QED
            BY <1>1, <2>3, <3>1 DEF BufOK, NoLostWarning, Occupied
    <2> QED
        BY <2>4, <2>5
<1> QED
    BY <1>2, <1>3

(* A resend loop step on the second buffer keeps it right: a slot is       *)
(* cleared, and its size decremented, only when it held an entry.         *)
LEMMA ResendSecondStep ==
    ASSUME CtrlOK, BufOK, ResendSecond
    PROVE  /\ BufOK'
           /\ delivered' \in Seq(Entries) /\ faults' \in 0..MaxFaults
<1> USE BufferAssumption, BoundsAssumption
<1>1. UNCHANGED <<firstBuf, firstBufSize, lost, discarded>>
    BY DEF ResendSecond
<1>2. CASE secondBuf[ri] = Nil
    BY <1>1, <1>2 DEF ResendSecond, BufOK, NoLostWarning, Occupied, CtrlOK
<1>3. CASE secondBuf[ri] # Nil
    <2>1. PICK ok \in BOOLEAN :
            /\ SendNoBuffer(secondBuf[ri], ok)
            /\ secondBuf' = IF ok THEN [secondBuf EXCEPT ![ri] = Nil] ELSE secondBuf
            /\ secondBufSize' = IF ok THEN secondBufSize - 1 ELSE secondBufSize
        BY <1>3 DEF ResendSecond
    <2>2. secondBuf[ri] \in Entries
        BY <1>3 DEF BufOK, CtrlOK
    <2>3. delivered' \in Seq(Entries) /\ faults' \in 0..MaxFaults
        BY <2>1, <2>2, SendStep
    <2>4. CASE ok
        <3>1. /\ Cardinality(Occupied(secondBuf)) >= 1
              /\ Cardinality(Occupied([secondBuf EXCEPT ![ri] = Nil]))
                   = Cardinality(Occupied(secondBuf)) - 1
            <4>1. DOMAIN secondBuf = Slots /\ ri \in Slots
                BY DEF BufOK, CtrlOK
            <4> QED
                BY <1>3, <4>1, OccupiedClear, Zenon
        <3>2. secondBuf' = [secondBuf EXCEPT ![ri] = Nil]
              /\ secondBufSize' = secondBufSize - 1
            BY <2>1, <2>4
        <3>3. Cardinality(Occupied(secondBuf')) = Cardinality(Occupied(secondBuf)) - 1
            BY <3>1, <3>2, Zenon
        <3>4. /\ Cardinality(Occupied(secondBuf')) \in Nat
              /\ Cardinality(Occupied(secondBuf)) \in Nat
            BY OccupiedFinite
        <3>5. secondBufSize' \in 0..BUFFER_SIZE
              /\ Cardinality(Occupied(secondBuf')) <= secondBufSize'
            BY <3>1, <3>2, <3>3, <3>4 DEF BufOK
        <3>6. secondBuf' \in [Slots -> Entries \cup {Nil}]
              /\ NoLostWarning(secondBuf')
            BY <3>2, BoundsAssumption DEF BufOK, CtrlOK, NoLostWarning
        <3> QED
            BY <1>1, <2>3, <3>5, <3>6 DEF BufOK
    <2>5. CASE ~ok
        <3>1. secondBuf' = secondBuf /\ secondBufSize' = secondBufSize
            BY <2>1, <2>5
        <3> QED
            BY <1>1, <2>3, <3>1 DEF BufOK, NoLostWarning, Occupied
    <2> QED
        BY <2>4, <2>5
<1> QED
    BY <1>2, <1>3

LEMMA IInvStep == IInv /\ [Next]_vars => IInv'
<1> SUFFICES ASSUME CtrlOK, BufOK, [Next]_vars PROVE CtrlOK' /\ BufOK'
    BY DEF IInv
<1> USE BufferAssumption, BoundsAssumption
<1>1. CASE RecvEntry
    <2> DEFINE e == Head(logChan)[1]
               level == Head(logChan)[2]
    <2>0. logChan \in Seq((Nat \ {0}) \X EntryLevels) /\ logChan # <<>>
        BY <1>1 DEF RecvEntry, CtrlOK
    <2>1. e \in Nat \ {0} /\ level \in EntryLevels /\ logChan # <<>>
        BY <2>0, HeadTailProperties
    <2>2. logChan' = Tail(logChan)
          /\ UNCHANGED <<pc, ri, connected, logLevel, link, connectChan,
                         nextEntry, drops>>
        BY <1>1 DEF RecvEntry
    <2>3. logChan' \in Seq((Nat \ {0}) \X EntryLevels)
          /\ Len(logChan') <= LOG_CHAN_CAP
        <3>1. Tail(logChan) \in Seq((Nat \ {0}) \X EntryLevels)
              /\ Len(Tail(logChan)) = Len(logChan) - 1
            BY <2>0, HeadTailProperties
        <3>2. Len(logChan) <= LOG_CHAN_CAP /\ Len(logChan) \in Nat
            BY <2>0, LenProperties DEF CtrlOK
        <3> QED
            BY <2>2, <3>1, <3>2 DEF LOG_CHAN_CAP
    <2>4. CASE level > logLevel
        <3>1. UNCHANGED <<bufVars, accepted, delivered, faults>>
            BY <1>1, <2>4 DEF RecvEntry
        <3> QED
            BY <2>2, <2>3, <3>1, BufUnchanged DEF CtrlOK
    <2>5. CASE ~(level > logLevel)
        <3>1. accepted' = accepted \cup {e}
            BY <1>1, <2>5 DEF RecvEntry
        <3>2. \/ delivered' = Append(delivered, e)
                 /\ UNCHANGED <<bufVars, faults>>
              \/ (UNCHANGED faults \/ Timeout) /\ Buffer(e) /\ UNCHANGED delivered
            BY <1>1, <2>5 DEF RecvEntry
        <3>3. BufOK'
            BY <2>1, <3>2, BufUnchanged, BufferStep
        <3>4. delivered' \in Seq(Entries) /\ faults' \in 0..MaxFaults
            <4>1. e \in Entries /\ delivered \in Seq(Entries)
                BY <2>1 DEF CtrlOK, Entries
            <4>2. Append(delivered, e) \in Seq(Entries)
                BY <4>1, AppendProperties
            <4>3. CASE delivered' = Append(delivered, e)
                         /\ UNCHANGED <<bufVars, faults>>
                BY <4>2, <4>3 DEF CtrlOK
            <4>4. CASE (UNCHANGED faults \/ Timeout) /\ UNCHANGED delivered
                BY <4>1, <4>4 DEF CtrlOK, Timeout
            <4> QED
                BY <3>2, <4>3, <4>4
        <3> QED
            BY <2>1, <2>2, <2>3, <3>1, <3>3, <3>4 DEF CtrlOK
    <2> QED
        BY <2>4, <2>5
<1>2. CASE RecvConnect
    <2>0. connectChan \in Seq(BOOLEAN) /\ connectChan # <<>>
          /\ Len(connectChan) \in Nat /\ Len(connectChan) <= CONNECT_CHAN_CAP
        BY <1>2, LenProperties DEF RecvConnect, CtrlOK
    <2>1. Head(connectChan) \in BOOLEAN
        BY <2>0, HeadTailProperties
    <2>2. connected' \in BOOLEAN
        BY <1>2, <2>1 DEF RecvConnect
    <2>3. pc' \in {"internalUp", "internalDown"}
        BY <1>2 DEF RecvConnect
    <2>4. connectChan' \in Seq(BOOLEAN) /\ Len(connectChan') <= CONNECT_CHAN_CAP
        <3>1. connectChan' = Tail(connectChan)
            BY <1>2 DEF RecvConnect
        <3>2. Tail(connectChan) \in Seq(BOOLEAN)
              /\ Len(Tail(connectChan)) = Len(connectChan) - 1
            BY <2>0, HeadTailProperties
        <3> QED
            BY <2>0, <3>1, <3>2 DEF CONNECT_CHAN_CAP
    <2>5. UNCHANGED <<ri, logLevel, logChan, link, nextEntry, accepted,
                      delivered, drops, faults>>
        BY <1>2 DEF RecvConnect
    <2> QED
        BY <1>2, <2>2, <2>3, <2>4, <2>5, BufUnchanged DEF RecvConnect, CtrlOK
<1>3. CASE RecvLogFile
    BY <1>3, BufUnchanged DEF RecvLogFile, CtrlOK
<1>4. CASE RecvLogLevel
    <2>1. logLevel' \in LOG_EMERGENCY..LOG_DEBUG /\ pc' \in {pc, "internal"}
        <3> PICK level \in LevelInputs :
                IF level >= LOG_EMERGENCY /\ level <= LOG_DEBUG
                THEN logLevel' = level /\ UNCHANGED pc
                ELSE pc' = "internal" /\ UNCHANGED logLevel
            BY <1>4 DEF RecvLogLevel
        <3>1. level \in Int
            BY DEF LevelInputs, LOG_WARNING, LOG_DEBUG
        <3> QED
            BY <3>1 DEF CtrlOK
    <2> QED
        BY <1>4, <2>1, BufUnchanged DEF RecvLogLevel, CtrlOK
<1>5. CASE Internal
    <2>1. logChan' \in Seq((Nat \ {0}) \X EntryLevels)
          /\ Len(logChan') <= LOG_CHAN_CAP
        <3>1. <<nextEntry, LOG_WARNING>> \in (Nat \ {0}) \X EntryLevels
            BY DEF CtrlOK, EntryLevels
        <3>2. logChan \in Seq((Nat \ {0}) \X EntryLevels)
              /\ Len(logChan) < LOG_CHAN_CAP
            BY <1>5 DEF Internal, CtrlOK
        <3> QED
            BY <1>5, <3>1, <3>2, AppendProperties, LenProperties
            DEF Internal, LOG_CHAN_CAP
    <2>2. pc' \in {"resendFirst", "select"} /\ ri' \in Slots
          /\ link' \in {"connecting", "up", "lost", "down"}
          /\ nextEntry' \in Nat \ {0}
        BY <1>5 DEF Internal, CtrlOK, Slots
    <2> QED
        BY <1>5, <2>1, <2>2, BufUnchanged DEF Internal, CtrlOK
<1>6. CASE ResendFirst
    <2>1. pc' \in {"resendFirst", "resendLost"} /\ ri' \in Slots
        BY <1>6 DEF ResendFirst, CtrlOK, NextIndex, Slots
    <2> QED
        BY <1>6, <2>1, ResendFirstStep DEF ResendFirst, CtrlOK
<1>7. CASE ResendLost
    <2>1. delivered' \in Seq(Entries) /\ faults' \in 0..MaxFaults
        <3>1. CASE lost > 0
            BY <1>7, <3>1, SendStep DEF ResendLost, Entries
        <3>2. CASE ~(lost > 0)
            BY <1>7, <3>2 DEF ResendLost, CtrlOK
        <3> QED
            BY <3>1, <3>2
    <2>2. BufOK'
        BY <1>7 DEF ResendLost, BufOK, NoLostWarning, Occupied
    <2> QED
        BY <1>7, <2>1, <2>2 DEF ResendLost, CtrlOK
<1>8. CASE ResendSecond
    <2>1. pc' \in {"resendSecond", "select"} /\ ri' \in Slots
        BY <1>8 DEF ResendSecond, CtrlOK, NextIndex, Slots
    <2> QED
        BY <1>8, <2>1, ResendSecondStep DEF ResendSecond, CtrlOK
<1>9. CASE LogEntry
    <2>1. logChan' \in Seq((Nat \ {0}) \X EntryLevels)
          /\ Len(logChan') <= LOG_CHAN_CAP
        <3> PICK level \in EntryLevels :
                logChan' = Append(logChan, <<nextEntry, level>>)
            BY <1>9 DEF LogEntry
        <3>1. <<nextEntry, level>> \in (Nat \ {0}) \X EntryLevels
            BY DEF CtrlOK
        <3>2. logChan \in Seq((Nat \ {0}) \X EntryLevels)
              /\ Len(logChan) < LOG_CHAN_CAP
            BY <1>9 DEF LogEntry, CtrlOK
        <3> QED
            BY <3>1, <3>2, AppendProperties, LenProperties DEF LOG_CHAN_CAP
    <2> QED
        BY <1>9, <2>1, BufUnchanged DEF LogEntry, CtrlOK
<1>10. CASE LinkUp \/ Disconnect
    <2>1. connectChan' \in Seq(BOOLEAN) /\ Len(connectChan') <= CONNECT_CHAN_CAP
        <3>1. \E b \in BOOLEAN : connectChan' = Append(connectChan, b)
            BY <1>10 DEF LinkUp, Disconnect
        <3>2. connectChan \in Seq(BOOLEAN) /\ Len(connectChan) < CONNECT_CHAN_CAP
            BY <1>10 DEF LinkUp, Disconnect, CtrlOK
        <3> QED
            BY <3>1, <3>2, AppendProperties, LenProperties DEF CONNECT_CHAN_CAP
    <2> QED
        BY <1>10, <2>1, BufUnchanged DEF LinkUp, Disconnect, CtrlOK
<1>11. CASE LinkDrop
    BY <1>11, BufUnchanged DEF LinkDrop, CtrlOK
<1>12. CASE UNCHANGED vars
    BY <1>12, BufUnchanged DEF vars, CtrlOK
<1> QED
    BY <1>1, <1>2, <1>3, <1>4, <1>5, <1>6, <1>7, <1>8, <1>9, <1>10, <1>11,
       <1>12 DEF Next, Run

\* The strengthened invariant holds in every state of the relay.
LEMMA IInvHolds == Spec => []IInv
BY IInvInit, IInvStep, PTL DEF Spec

(* Every state the relay's Run loop, its buffers and the websocket client *)
(* reach is well typed: the buffers stay BUFFER_SIZE slots with their     *)
(* sizes in 0..BUFFER_SIZE, logChan and ConnectChan within capacity.      *)
THEOREM TypeCorrect == Spec => []TypeOK
BY IInvHolds, IInvImplies, PTL

-----------------------------------------------------------------------------
(* No duplicate delivery.  Entries are numbered when they are put on      *)
(* logChan; each number is, at any time, in at most one place: on         *)
(* logChan, in one slot of one buffer, or delivered.  A number below      *)
(* nextEntry is all a fresh entry must avoid.                             *)

\* Entry k of logChan is new to the buffers and to the API.
ChanFresh ==
    \A k \in 1..Len(logChan) :
        /\ logChan[k][1] < nextEntry
        /\ logChan[k][1] \notin DeliveredSet
        /\ logChan[k][1] \notin Held

\* logChan holds each entry once.
ChanDistinct ==
    \A k, l \in 1..Len(logChan) : k # l => logChan[k][1] # logChan[l][1]

\* A buffered entry has a number and has not been delivered.
BufFresh(b) ==
    \A i \in Slots : b[i] # Nil => b[i] < nextEntry /\ b[i] \notin DeliveredSet

\* The buffers hold each entry in one slot.
BufDistinct ==
    /\ \A i, j \in Slots :
         firstBuf[i] # Nil => /\ i # j => firstBuf[i] # firstBuf[j]
                              /\ firstBuf[i] # secondBuf[j]
    /\ \A i, j \in Slots :
         secondBuf[i] # Nil /\ i # j => secondBuf[i] # secondBuf[j]

\* Every delivered entry, except the lost-count warning, had a number.
DeliveredNumbered ==
    \A i \in 1..Len(delivered) :
        delivered[i] # LostWarning => delivered[i] < nextEntry

DupInv ==
    /\ NoDuplicateDelivery
    /\ DeliveredNumbered
    /\ ChanFresh
    /\ ChanDistinct
    /\ BufFresh(firstBuf) /\ BufFresh(secondBuf)
    /\ BufDistinct

dupVars == <<delivered, logChan, firstBuf, secondBuf, nextEntry>>

\* DupInv is about the delivered sequence, logChan, the buffers and the
\* entry counter only.
LEMMA DupUnchanged ==
    ASSUME DupInv, UNCHANGED dupVars
    PROVE  DupInv'
BY DEF DupInv, dupVars, NoDuplicateDelivery, DeliveredNumbered, ChanFresh,
       ChanDistinct, BufFresh, BufDistinct, DeliveredSet, Held

\* Appending e to delivered adds e to the delivered set and nothing else.
LEMMA DeliveredAppend ==
    ASSUME NEW e \in Entries, delivered \in Seq(Entries),
           delivered' = Append(delivered, e)
    PROVE  /\ delivered' \in Seq(Entries)
           /\ Len(delivered') = Len(delivered) + 1
           /\ delivered'[Len(delivered) + 1] = e
           /\ \A i \in 1..Len(delivered) : delivered'[i] = delivered[i]
           /\ DeliveredSet' = DeliveredSet \cup {e}
<1>1. /\ delivered' \in Seq(Entries)
      /\ Len(delivered') = Len(delivered) + 1
      /\ delivered'[Len(delivered) + 1] = e
      /\ \A i \in 1..Len(delivered) : delivered'[i] = delivered[i]
    BY AppendProperties
<1>2. Len(delivered) \in Nat
    BY LenProperties
<1> QED
    BY <1>1, <1>2 DEF DeliveredSet

(* One delivery of an entry that is the lost-count warning or is numbered *)
(* and not delivered yet keeps the delivered sequence free of duplicates. *)
LEMMA DeliverStep ==
    ASSUME NEW e \in Entries, delivered \in Seq(Entries),
           nextEntry \in Nat,
           delivered' = Append(delivered, e), nextEntry' = nextEntry,
           NoDuplicateDelivery, DeliveredNumbered,
           e = LostWarning \/ (e \notin DeliveredSet /\ e < nextEntry)
    PROVE  /\ NoDuplicateDelivery'
           /\ DeliveredNumbered'
           /\ DeliveredSet' = DeliveredSet \cup {e}
<1>1. /\ Len(delivered') = Len(delivered) + 1
      /\ delivered'[Len(delivered) + 1] = e
      /\ \A i \in 1..Len(delivered) : delivered'[i] = delivered[i]
      /\ DeliveredSet' = DeliveredSet \cup {e}
      /\ Len(delivered) \in Nat
    BY DeliveredAppend, LenProperties
<1>2. e # LostWarning => \A i \in 1..Len(delivered) : delivered[i] # e
    BY DEF DeliveredSet
<1>3. NoDuplicateDelivery'
    BY <1>1, <1>2 DEF NoDuplicateDelivery
<1>4. DeliveredNumbered'
    BY <1>1 DEF DeliveredNumbered
<1> QED
    BY <1>1, <1>3, <1>4

(* internal() and the other loggers put a fresh entry, numbered           *)
(* nextEntry, on logChan.                                                 *)
LEMMA ChanPush ==
    ASSUME CtrlOK, BufOK, DupInv, NEW lvl,
           logChan' = Append(logChan, <<nextEntry, lvl>>),
           nextEntry' = nextEntry + 1,
           UNCHANGED <<delivered, firstBuf, secondBuf>>
    PROVE  DupInv'
<1> DEFINE n == nextEntry
<1>1. /\ n \in Nat \ {0}
      /\ logChan \in Seq((Nat \ {0}) \X EntryLevels)
      /\ Len(logChan) \in Nat
    BY LenProperties DEF CtrlOK
<1>2. /\ Len(logChan') = Len(logChan) + 1
      /\ logChan'[Len(logChan) + 1] = <<n, lvl>>
      /\ \A k \in 1..Len(logChan) : logChan'[k] = logChan[k]
    BY <1>1, AppendProperties
<1>3. /\ \A k \in 1..Len(logChan) : logChan[k][1] \in Nat /\ logChan[k][1] < n
      /\ \A i \in 1..Len(delivered) :
           delivered[i] # LostWarning => delivered[i] \in Nat /\ delivered[i] < n
      /\ \A i \in Slots : firstBuf[i] # Nil => firstBuf[i] < n
      /\ \A i \in Slots : secondBuf[i] # Nil => secondBuf[i] < n
    BY <1>1 DEF DupInv, ChanFresh, DeliveredNumbered, BufFresh, CtrlOK, Entries
<1>4. n \notin DeliveredSet /\ n \notin Held
    <2>1. n \notin DeliveredSet
        BY <1>1, <1>3, BoundsAssumption DEF DeliveredSet
    <2>2. \A i \in Slots : firstBuf[i] # n /\ secondBuf[i] # n
        BY <1>1, <1>3, BoundsAssumption
    <2> QED
        BY <2>1, <2>2 DEF Held
<1>5. UNCHANGED <<DeliveredSet, Held>>
    BY DEF DeliveredSet, Held
<1>6. ChanFresh'
    BY <1>1, <1>2, <1>3, <1>4, <1>5 DEF ChanFresh, DupInv
<1>7. ChanDistinct'
    BY <1>1, <1>2, <1>3 DEF ChanDistinct, DupInv
<1>8. NoDuplicateDelivery' /\ DeliveredNumbered'
    BY <1>1, <1>3 DEF NoDuplicateDelivery, DeliveredNumbered, DupInv
<1>9. \A i \in Slots : /\ firstBuf[i] # Nil => firstBuf[i] \in Nat
                       /\ secondBuf[i] # Nil => secondBuf[i] \in Nat
    BY DEF BufOK, NoLostWarning, Entries
<1>10. BufFresh(firstBuf)'
    BY <1>1, <1>3, <1>5, <1>9 DEF BufFresh, DupInv
<1>11. BufFresh(secondBuf)'
    BY <1>1, <1>3, <1>5, <1>9 DEF BufFresh, DupInv
<1>12. BufDistinct'
    BY DEF BufDistinct, DupInv
<1> QED
    BY <1>6, <1>7, <1>8, <1>10, <1>11, <1>12 DEF DupInv

(* buffer(e) of an entry that is numbered, neither held nor delivered,    *)
(* keeps each buffered entry in one slot and undelivered; afterwards the  *)
(* buffers hold what they held, e, and empty slots.                       *)
LEMMA BufferDup ==
    ASSUME BufOK, BufFresh(firstBuf), BufFresh(secondBuf), BufDistinct,
           NEW e \in Nat, e \notin Held, e < nextEntry, e \notin DeliveredSet,
           Buffer(e), UNCHANGED <<delivered, nextEntry>>
    PROVE  /\ BufFresh(firstBuf)' /\ BufFresh(secondBuf)' /\ BufDistinct'
           /\ \A x \in Held' : x \in Held \/ x = e \/ x = Nil
<1> USE BufferAssumption, BoundsAssumption
<1>0. /\ \A i \in Slots : firstBuf[i] # e /\ secondBuf[i] # e
      /\ e # Nil
      /\ UNCHANGED DeliveredSet
    BY DEF Held, DeliveredSet
<1>1. CASE firstBufSize < BUFFER_SIZE
    <2> DEFINE k == firstBufSize
    <2>1. k \in Slots
        BY <1>1 DEF BufOK, Slots
    <2>2. /\ firstBuf' = [firstBuf EXCEPT ![k] = e]
          /\ UNCHANGED secondBuf
        BY <1>1 DEF Buffer
    <2>3. \A i \in Slots : firstBuf'[i] = IF i = k THEN e ELSE firstBuf[i]
        BY <2>1, <2>2 DEF BufOK
    <2>4. BufFresh(firstBuf)'
        BY <1>0, <2>2, <2>3 DEF BufFresh
    <2>5. BufFresh(secondBuf)'
        BY <1>0, <2>2 DEF BufFresh
    <2>6. BufDistinct'
        BY <1>0, <2>2, <2>3 DEF BufDistinct
    <2>7. \A x \in Held' : x \in Held \/ x = e \/ x = Nil
        BY <2>2, <2>3 DEF Held
    <2> QED
        BY <2>4, <2>5, <2>6, <2>7
<1>2. CASE ~(firstBufSize < BUFFER_SIZE) /\ secondBufSize < BUFFER_SIZE
    <2> DEFINE k == secondBufSize
    <2>1. k \in Slots
        BY <1>2 DEF BufOK, Slots
    <2>2. /\ secondBuf' = [secondBuf EXCEPT ![k] = e]
          /\ UNCHANGED firstBuf
        BY <1>2 DEF Buffer
    <2>3. \A i \in Slots : secondBuf'[i] = IF i = k THEN e ELSE secondBuf[i]
        BY <2>1, <2>2 DEF BufOK
    <2>4. BufFresh(firstBuf)'
        BY <1>0, <2>2 DEF BufFresh
    <2>5. BufFresh(secondBuf)'
        BY <1>0, <2>2, <2>3 DEF BufFresh
    <2>6. BufDistinct'
        BY <1>0, <2>2, <2>3 DEF BufDistinct
    <2>7. \A x \in Held' : x \in Held \/ x = e \/ x = Nil
        BY <2>2, <2>3 DEF Held
    <2> QED
        BY <2>4, <2>5, <2>6, <2>7
<1>3. CASE ~(firstBufSize < BUFFER_SIZE) /\ ~(secondBufSize < BUFFER_SIZE)
    <2>2. /\ secondBuf' = [i \in Slots |-> IF i = 0 THEN e ELSE Nil]
          /\ UNCHANGED firstBuf
        BY <1>3 DEF Buffer
    <2>3. \A i \in Slots : firstBuf[i] # Nil => firstBuf[i] \in Nat
        BY DEF BufOK, NoLostWarning, Entries
    <2>4. BufFresh(firstBuf)'
        BY <1>0, <2>2 DEF BufFresh
    <2>5. BufFresh(secondBuf)'
        BY <1>0, <2>2 DEF BufFresh
    <2>6. BufDistinct'
        BY <1>0, <2>2, <2>3 DEF BufDistinct
    <2>7. \A x \in Held' : x \in Held \/ x = e \/ x = Nil
        BY <2>2 DEF Held
    <2> QED
        BY <2>4, <2>5, <2>6, <2>7
<1> QED
    BY <1>1, <1>2, <1>3

(* Run takes the head of logChan; it may go to the API or a buffer, but   *)
(* nowhere else, so the rest of logChan stays fresh and distinct.         *)
LEMMA ChanPop ==
    ASSUME CtrlOK, ChanFresh, ChanDistinct, logChan # <<>>,
           logChan' = Tail(logChan), nextEntry' = nextEntry,
           \A x \in DeliveredSet' : x \in DeliveredSet \/ x = Head(logChan)[1],
           \A x \in Held' : x \in Held \/ x = Head(logChan)[1] \/ x = Nil
    PROVE  ChanFresh' /\ ChanDistinct'
<1>1. /\ logChan \in Seq((Nat \ {0}) \X EntryLevels)
      /\ Len(logChan) \in Nat \ {0}
    BY EmptySeq, LenProperties DEF CtrlOK
<1>2. /\ Len(logChan') = Len(logChan) - 1
      /\ \A k \in 1..Len(logChan') : logChan'[k] = logChan[k + 1]
    BY <1>1, HeadTailProperties
<1>3. Head(logChan) = logChan[1]
    OBVIOUS
<1>4. \A k \in 2..Len(logChan) :
        /\ logChan[k][1] # Head(logChan)[1]
        /\ logChan[k][1] \in Nat
        /\ logChan[k][1] # Nil
    BY <1>1, <1>3, BoundsAssumption DEF ChanDistinct
<1>5. ChanFresh'
    BY <1>1, <1>2, <1>4 DEF ChanFresh
<1>6. ChanDistinct'
    <2> SUFFICES ASSUME NEW k \in 1..Len(logChan'), NEW l \in 1..Len(logChan'),
                        k # l
                 PROVE  logChan'[k][1] # logChan'[l][1]
        BY DEF ChanDistinct
    <2>1. k + 1 \in 1..Len(logChan) /\ l + 1 \in 1..Len(logChan) /\ k + 1 # l + 1
        BY <1>1, <1>2
    <2> QED
        BY <1>2, <2>1 DEF ChanDistinct
<1> QED
    BY <1>5, <1>6

(* resend's first loop sends slot k of firstBuf and clears it: the entry  *)
(* leaves the buffers as it reaches the API.                              *)
LEMMA ResendFirstDup ==
    ASSUME CtrlOK, BufOK, DupInv, NEW k \in Slots, firstBuf[k] # Nil,
           delivered' = Append(delivered, firstBuf[k]),
           firstBuf' = [firstBuf EXCEPT ![k] = Nil],
           UNCHANGED <<logChan, secondBuf, nextEntry>>
    PROVE  DupInv'
<1> DEFINE e == firstBuf[k]
<1>1. /\ e \in Nat /\ e # LostWarning
      /\ e < nextEntry /\ e \notin DeliveredSet
      /\ \A j \in Slots : j # k => firstBuf[j] # e
      /\ \A j \in Slots : secondBuf[j] # e
    BY BoundsAssumption DEF BufOK, NoLostWarning, Entries, DupInv, BufFresh,
       BufDistinct
<1>2. /\ NoDuplicateDelivery' /\ DeliveredNumbered'
      /\ DeliveredSet' = DeliveredSet \cup {e}
    BY <1>1, DeliverStep DEF CtrlOK, DupInv, Entries
<1>3. \A i \in Slots : firstBuf'[i] = IF i = k THEN Nil ELSE firstBuf[i]
    BY DEF BufOK
<1>4. e \in Held
    BY DEF Held
<1>5. \A x \in Held' : x \in Held \/ x = Nil
    BY <1>3 DEF Held
<1>6. ChanFresh'
    <2>1. \A j \in 1..Len(logChan) : logChan[j][1] # Nil
        BY BoundsAssumption DEF CtrlOK
    <2> QED
        BY <1>2, <1>4, <1>5, <2>1 DEF ChanFresh, DupInv
<1>7. ChanDistinct'
    BY DEF ChanDistinct, DupInv
<1>8. BufFresh(firstBuf)'
    BY <1>1, <1>2, <1>3 DEF BufFresh, DupInv
<1>9. BufFresh(secondBuf)'
    BY <1>1, <1>2 DEF BufFresh, DupInv
<1>10. BufDistinct'
    BY <1>3 DEF BufDistinct, DupInv
<1> QED
    BY <1>2, <1>6, <1>7, <1>8, <1>9, <1>10 DEF DupInv

(* The same for resend's second loop and secondBuf.                       *)
LEMMA ResendSecondDup ==
    ASSUME CtrlOK, BufOK, DupInv, NEW k \in Slots, secondBuf[k] # Nil,
           delivered' = Append(delivered, secondBuf[k]),
           secondBuf' = [secondBuf EXCEPT ![k] = Nil],
           UNCHANGED <<logChan, firstBuf, nextEntry>>
    PROVE  DupInv'
<1> DEFINE e == secondBuf[k]
<1>1. /\ e \in Nat /\ e # LostWarning
      /\ e < nextEntry /\ e \notin DeliveredSet
      /\ \A j \in Slots : j # k => secondBuf[j] # e
      /\ \A j \in Slots : firstBuf[j] # e
    BY BoundsAssumption DEF BufOK, NoLostWarning, Entries, DupInv, BufFresh,
       BufDistinct
<1>2. /\ NoDuplicateDelivery' /\ DeliveredNumbered'
      /\ DeliveredSet' = DeliveredSet \cup {e}
    BY <1>1, DeliverStep DEF CtrlOK, DupInv, Entries
<1>3. \A i \in Slots : secondBuf'[i] = IF i = k THEN Nil ELSE secondBuf[i]
    BY DEF BufOK
<1>4. e \in Held
    BY DEF Held
<1>5. \A x \in Held' : x \in Held \/ x = Nil
    BY <1>3 DEF Held
<1>6. ChanFresh'
    <2>1. \A j \in 1..Len(logChan) : logChan[j][1] # Nil
        BY BoundsAssumption DEF CtrlOK
    <2> QED
        BY <1>2, <1>4, <1>5, <2>1 DEF ChanFresh, DupInv
<1>7. ChanDistinct'
    BY DEF ChanDistinct, DupInv
<1>8. BufFresh(firstBuf)'
    BY <1>1, <1>2 DEF BufFresh, DupInv
<1>9. BufFresh(secondBuf)'
    BY <1>1, <1>2, <1>3 DEF BufFresh, DupInv
<1>10. BufDistinct'
    BY <1>3 DEF BufDistinct, DupInv
<1> QED
    BY <1>2, <1>6, <1>7, <1>8, <1>9, <1>10 DEF DupInv

(* resend's lost-count warning reaches the API; it is no log entry.       *)
LEMMA DeliverLostWarning ==
    ASSUME CtrlOK, BufOK, DupInv,
           delivered' = Append(delivered, LostWarning),
           UNCHANGED <<logChan, firstBuf, secondBuf, nextEntry>>
    PROVE  DupInv'
<1>1. /\ NoDuplicateDelivery' /\ DeliveredNumbered'
      /\ DeliveredSet' = DeliveredSet \cup {LostWarning}
    BY DeliverStep DEF CtrlOK, DupInv, Entries
<1>2. /\ \A k \in 1..Len(logChan) : logChan[k][1] # LostWarning
      /\ \A i \in Slots : firstBuf[i] # LostWarning /\ secondBuf[i] # LostWarning
    BY BoundsAssumption DEF CtrlOK, BufOK, NoLostWarning
<1>3. ChanFresh'
    BY <1>1, <1>2 DEF ChanFresh, DupInv, Held
<1>4. BufFresh(firstBuf)' /\ BufFresh(secondBuf)'
    BY <1>1, <1>2 DEF BufFresh, DupInv
<1>5. ChanDistinct' /\ BufDistinct'
    BY DEF ChanDistinct, BufDistinct, DupInv
<1> QED
    BY <1>1, <1>3, <1>4, <1>5 DEF DupInv

\* Every step of the relay preserves DupInv, given the typing IInv.
LEMMA DupStep ==
    ASSUME CtrlOK, BufOK, DupInv, [Next]_vars
    PROVE  DupInv'
<1>1. CASE RecvEntry
    <2> DEFINE e == Head(logChan)[1]
               level == Head(logChan)[2]
    <2>1. /\ logChan # <<>>
          /\ logChan' = Tail(logChan)
          /\ nextEntry' = nextEntry
        BY <1>1 DEF RecvEntry
    <2>2. /\ logChan \in Seq((Nat \ {0}) \X EntryLevels)
          /\ Len(logChan) \in Nat \ {0}
          /\ Head(logChan) = logChan[1]
        BY <2>1, EmptySeq, LenProperties DEF CtrlOK
    <2>3. /\ e \in Nat
          /\ e < nextEntry /\ e \notin DeliveredSet /\ e \notin Held
        BY <2>2 DEF DupInv, ChanFresh
    <2>4. CASE level > logLevel
        <3>1. UNCHANGED <<delivered, firstBuf, secondBuf>>
            BY <1>1, <2>4 DEF RecvEntry, bufVars
        <3>2. UNCHANGED <<DeliveredSet, Held>>
            BY <3>1 DEF DeliveredSet, Held
        <3>3. ChanFresh' /\ ChanDistinct'
            BY <2>1, <3>2, ChanPop DEF DupInv
        <3> QED
            BY <2>1, <3>1, <3>3 DEF DupInv, NoDuplicateDelivery,
               DeliveredNumbered, BufFresh, BufDistinct, DeliveredSet
    <2>5. CASE ~(level > logLevel)
        <3>1. \/ delivered' = Append(delivered, e)
                 /\ UNCHANGED <<bufVars, faults>>
              \/ (UNCHANGED faults \/ Timeout) /\ Buffer(e) /\ UNCHANGED delivered
            BY <1>1, <2>5 DEF RecvEntry
        <3>2. CASE delivered' = Append(delivered, e) /\ UNCHANGED <<bufVars, faults>>
            <4>1. UNCHANGED <<firstBuf, secondBuf, Held>>
                BY <3>2 DEF bufVars, Held
            <4>2. /\ NoDuplicateDelivery' /\ DeliveredNumbered'
                  /\ DeliveredSet' = DeliveredSet \cup {e}
                BY <2>1, <2>3, <3>2, DeliverStep DEF CtrlOK, DupInv, Entries
            <4>3. ChanFresh' /\ ChanDistinct'
                BY <2>1, <4>1, <4>2, ChanPop DEF DupInv
            <4>4. \A i \in Slots : firstBuf[i] # e /\ secondBuf[i] # e
                BY <2>3 DEF Held
            <4>5. BufFresh(firstBuf)' /\ BufFresh(secondBuf)'
                BY <2>1, <4>1, <4>2, <4>4 DEF BufFresh, DupInv
            <4>6. BufDistinct'
                BY <4>1 DEF BufDistinct, DupInv
            <4> QED
                BY <4>2, <4>3, <4>5, <4>6 DEF DupInv
        <3>3. CASE Buffer(e) /\ UNCHANGED delivered
            <4>1. /\ BufFresh(firstBuf)' /\ BufFresh(secondBuf)' /\ BufDistinct'
                  /\ \A x \in Held' : x \in Held \/ x = e \/ x = Nil
                BY <2>1, <2>3, <3>3, BufferDup DEF DupInv
            <4>2. UNCHANGED DeliveredSet
                BY <3>3 DEF DeliveredSet
            <4>3. ChanFresh' /\ ChanDistinct'
                BY <2>1, <4>1, <4>2, ChanPop DEF DupInv
            <4> QED
                BY <2>1, <3>3, <4>1, <4>3 DEF DupInv, NoDuplicateDelivery,
                   DeliveredNumbered
        <3> QED
            BY <3>1, <3>2, <3>3
    <2> QED
        BY <2>4, <2>5
<1>2. CASE Internal
    <2>1. /\ logChan' = Append(logChan, <<nextEntry, LOG_WARNING>>)
          /\ nextEntry' = nextEntry + 1
          /\ UNCHANGED <<delivered, firstBuf, secondBuf>>
        BY <1>2 DEF Internal, bufVars
    <2> QED
        BY <2>1, ChanPush
<1>3. CASE LogEntry
    <2> PICK level \in EntryLevels :
            logChan' = Append(logChan, <<nextEntry, level>>)
        BY <1>3 DEF LogEntry
    <2>1. /\ nextEntry' = nextEntry + 1
          /\ UNCHANGED <<delivered, firstBuf, secondBuf>>
        BY <1>3 DEF LogEntry, bufVars
    <2> QED
        BY <2>1, ChanPush
<1>4. CASE ResendFirst
    <2>1. CASE firstBuf[ri] = Nil
        BY <1>4, <2>1, DupUnchanged DEF ResendFirst, dupVars
    <2>2. CASE firstBuf[ri] # Nil
        <3> PICK ok \in BOOLEAN :
                /\ SendNoBuffer(firstBuf[ri], ok)
                /\ firstBuf' = IF ok THEN [firstBuf EXCEPT ![ri] = Nil] ELSE firstBuf
            BY <1>4, <2>2 DEF ResendFirst
        <3>1. UNCHANGED <<logChan, secondBuf, nextEntry>>
            BY <1>4 DEF ResendFirst
        <3>2. CASE ok
            BY <2>2, <3>1, <3>2, ResendFirstDup DEF SendNoBuffer, CtrlOK
        <3>3. CASE ~ok
            BY <3>1, <3>3, DupUnchanged DEF SendNoBuffer, dupVars
        <3> QED
            BY <3>2, <3>3
    <2> QED
        BY <2>1, <2>2
<1>5. CASE ResendSecond
    <2>1. CASE secondBuf[ri] = Nil
        BY <1>5, <2>1, DupUnchanged DEF ResendSecond, dupVars
    <2>2. CASE secondBuf[ri] # Nil
        <3> PICK ok \in BOOLEAN :
                /\ SendNoBuffer(secondBuf[ri], ok)
                /\ secondBuf' = IF ok THEN [secondBuf EXCEPT ![ri] = Nil] ELSE secondBuf
            BY <1>5, <2>2 DEF ResendSecond
        <3>1. UNCHANGED <<logChan, firstBuf, nextEntry>>
            BY <1>5 DEF ResendSecond
        <3>2. CASE ok
            BY <2>2, <3>1, <3>2, ResendSecondDup DEF SendNoBuffer, CtrlOK
        <3>3. CASE ~ok
            BY <3>1, <3>3, DupUnchanged DEF SendNoBuffer, dupVars
        <3> QED
            BY <3>2, <3>3
    <2> QED
        BY <2>1, <2>2
<1>6. CASE ResendLost
    <2>1. UNCHANGED <<logChan, firstBuf, secondBuf, nextEntry>>
        BY <1>6 DEF ResendLost
    <2>2. CASE lost > 0
        <3> PICK ok \in BOOLEAN : SendNoBuffer(LostWarning, ok)
            BY <1>6, <2>2 DEF ResendLost
        <3>1. CASE ok
            BY <2>1, <3>1, DeliverLostWarning DEF SendNoBuffer
        <3>2. CASE ~ok
            BY <2>1, <3>2, DupUnchanged DEF SendNoBuffer, dupVars
        <3> QED
            BY <3>1, <3>2
    <2>3. CASE ~(lost > 0)
        BY <1>6, <2>1, <2>3, DupUnchanged DEF ResendLost, dupVars
    <2> QED
        BY <2>2, <2>3
<1>7. CASE RecvConnect \/ RecvLogFile \/ RecvLogLevel \/ LinkUp \/ LinkDrop
           \/ Disconnect \/ UNCHANGED vars
    BY <1>7, DupUnchanged DEF RecvConnect, RecvLogFile, RecvLogLevel, LinkUp,
       LinkDrop, Disconnect, vars, bufVars, dupVars
<1> QED
    BY <1>1, <1>2, <1>3, <1>4, <1>5, <1>6, <1>7 DEF Next, Run

\* The relay starts with nothing on logChan, buffered or delivered.
LEMMA DupInit == Init => DupInv
BY DEF Init, DupInv, NoDuplicateDelivery, DeliveredNumbered, ChanFresh,
       ChanDistinct, BufFresh, BufDistinct

(* No log entry reaches the API twice, for every BUFFER_SIZE: Run sends   *)
(* an entry straight from logChan or from one buffer slot, and resend     *)
(* clears a slot in the same step in which its send succeeds, so no       *)
(* entry is in two places and none is resent after it was delivered.      *)
THEOREM NoDuplicateDeliveryHolds == Spec => []NoDuplicateDelivery
<1>1. Init => IInv /\ DupInv
    BY IInvInit, DupInit
<1>2. IInv /\ DupInv /\ [Next]_vars => (IInv /\ DupInv)'
    BY IInvStep, DupStep DEF IInv
<1>3. IInv /\ DupInv => NoDuplicateDelivery
    BY DEF DupInv
<1> QED
    BY <1>1, <1>2, <1>3, PTL DEF Spec

-----------------------------------------------------------------------------
(* Refinement of RelayDelivery.  The pending entries are the ones held in  *)
(* the buffers and the seen ones are the accepted ones; besides DupInv the *)
(* mapping needs that what logChan holds is not accepted yet and what the  *)
(* buffers hold is.                                                        *)

\* Accepted entries were numbered; logChan's are not accepted yet.
ChanUnaccepted ==
    /\ \A x \in accepted : x < nextEntry
    /\ \A k \in 1..Len(logChan) : logChan[k][1] \notin accepted

\* The buffers hold accepted entries only.
HeldAccepted ==
    \A i \in Slots : /\ firstBuf[i] # Nil => firstBuf[i] \in accepted
                     /\ secondBuf[i] # Nil => secondBuf[i] \in accepted

AcceptInv == ChanUnaccepted /\ HeldAccepted

\* A step that empties slots at most, and changes neither logChan, the
\* entry counter nor the accepted set, keeps AcceptInv.
LEMMA AcceptShrink ==
    ASSUME AcceptInv, UNCHANGED <<accepted, logChan, nextEntry>>,
           \A i \in Slots : firstBuf'[i] \in {firstBuf[i], Nil}
                            /\ secondBuf'[i] \in {secondBuf[i], Nil}
    PROVE  AcceptInv'
BY DEF AcceptInv, ChanUnaccepted, HeldAccepted

LEMMA AcceptStep ==
    ASSUME CtrlOK, BufOK, DupInv, AcceptInv, [Next]_vars
    PROVE  AcceptInv'
<1>0. /\ firstBuf \in [Slots -> Entries \cup {Nil}]
      /\ secondBuf \in [Slots -> Entries \cup {Nil}]
    BY DEF BufOK
<1>1. CASE RecvEntry
    <2> DEFINE e == Head(logChan)[1]
               level == Head(logChan)[2]
    <2>1. /\ logChan # <<>>
          /\ logChan' = Tail(logChan)
          /\ nextEntry' = nextEntry
        BY <1>1 DEF RecvEntry
    <2>2. /\ logChan \in Seq((Nat \ {0}) \X EntryLevels)
          /\ Len(logChan) \in Nat \ {0}
          /\ Head(logChan) = logChan[1]
          /\ Len(logChan') = Len(logChan) - 1
          /\ \A k \in 1..Len(logChan') : logChan'[k] = logChan[k + 1]
        BY <2>1, EmptySeq, LenProperties, HeadTailProperties DEF CtrlOK
    <2>3. /\ e \in Nat /\ e < nextEntry /\ e \notin Held
          /\ \A k \in 2..Len(logChan) : logChan[k][1] # e
        BY <2>2 DEF DupInv, ChanFresh, ChanDistinct
    <2>4. \A x \in Held : x # Nil => x \in accepted
        BY DEF Held, AcceptInv, HeldAccepted
    <2>5. \A x \in {e} \cup accepted : x < nextEntry
        BY <2>3 DEF AcceptInv, ChanUnaccepted
    <2>6. \A k \in 1..Len(logChan') : logChan'[k][1] \notin accepted \cup {e}
        <3> SUFFICES ASSUME NEW k \in 1..Len(logChan')
                     PROVE  logChan'[k][1] \notin accepted \cup {e}
            OBVIOUS
        <3>1. k + 1 \in 2..Len(logChan) /\ logChan'[k] = logChan[k + 1]
            BY <2>2
        <3> QED
            BY <2>3, <3>1 DEF AcceptInv, ChanUnaccepted
    <2>7. CASE level > logLevel
        <3>1. UNCHANGED <<accepted, firstBuf, secondBuf>>
            BY <1>1, <2>7 DEF RecvEntry, bufVars
        <3> QED
            BY <2>1, <2>6, <3>1 DEF AcceptInv, ChanUnaccepted, HeldAccepted
    <2>8. CASE ~(level > logLevel)
        <3>1. accepted' = accepted \cup {e}
            BY <1>1, <2>8 DEF RecvEntry
        <3>2. \/ delivered' = Append(delivered, e)
                 /\ UNCHANGED <<bufVars, faults>>
              \/ (UNCHANGED faults \/ Timeout) /\ Buffer(e) /\ UNCHANGED delivered
            BY <1>1, <2>8 DEF RecvEntry
        <3>3. ChanUnaccepted'
            BY <2>1, <2>5, <2>6, <3>1 DEF ChanUnaccepted
        <3>4. CASE delivered' = Append(delivered, e) /\ UNCHANGED <<bufVars, faults>>
            <4>1. UNCHANGED <<firstBuf, secondBuf>>
                BY <3>4 DEF bufVars
            <4> QED
                BY <3>1, <3>3, <4>1 DEF AcceptInv, HeldAccepted
        <3>5. CASE Buffer(e) /\ UNCHANGED delivered
            <4>1. \A x \in Held' : x \in Held \/ x = e \/ x = Nil
                <5>1. e \notin DeliveredSet
                    BY <2>2 DEF DupInv, ChanFresh
                <5> QED
                    BY <2>3, <3>5, <5>1, <2>1, BufferDup DEF DupInv
            <4>2. /\ firstBuf' \in [Slots -> Entries \cup {Nil}]
                  /\ secondBuf' \in [Slots -> Entries \cup {Nil}]
                BY <2>3, <3>5, BufferStep DEF BufOK
            <4>3. HeldAccepted'
                BY <2>4, <3>1, <4>1, <4>2 DEF HeldAccepted, Held
            <4> QED
                BY <3>3, <4>3 DEF AcceptInv
        <3> QED
            BY <3>2, <3>4, <3>5
    <2> QED
        BY <2>7, <2>8
<1>2. ASSUME NEW lvl,
             logChan' = Append(logChan, <<nextEntry, lvl>>),
             nextEntry' = nextEntry + 1,
             UNCHANGED <<accepted, firstBuf, secondBuf>>
      PROVE  AcceptInv'
    <2>1. /\ logChan \in Seq((Nat \ {0}) \X EntryLevels)
          /\ Len(logChan) \in Nat /\ nextEntry \in Nat
        BY LenProperties DEF CtrlOK
    <2>2. /\ Len(logChan') = Len(logChan) + 1
          /\ logChan'[Len(logChan) + 1] = <<nextEntry, lvl>>
          /\ \A k \in 1..Len(logChan) : logChan'[k] = logChan[k]
        BY <1>2, <2>1, AppendProperties
    <2>3. \A x \in accepted : x \in Nat /\ x < nextEntry
        BY DEF AcceptInv, ChanUnaccepted, CtrlOK
    <2> QED
        BY <1>2, <2>1, <2>2, <2>3 DEF AcceptInv, ChanUnaccepted, HeldAccepted
<1>3. CASE Internal
    <2>1. /\ logChan' = Append(logChan, <<nextEntry, LOG_WARNING>>)
          /\ nextEntry' = nextEntry + 1
          /\ UNCHANGED <<accepted, firstBuf, secondBuf>>
        BY <1>3 DEF Internal, bufVars
    <2> QED
        BY <2>1, <1>2
<1>4. CASE LogEntry
    <2> PICK level \in EntryLevels :
            logChan' = Append(logChan, <<nextEntry, level>>)
        BY <1>4 DEF LogEntry
    <2>1. /\ nextEntry' = nextEntry + 1
          /\ UNCHANGED <<accepted, firstBuf, secondBuf>>
        BY <1>4 DEF LogEntry, bufVars
    <2> QED
        BY <2>1, <1>2
<1>5. CASE ResendFirst
    <2>1. UNCHANGED <<accepted, logChan, nextEntry, secondBuf>>
        BY <1>5 DEF ResendFirst
    <2>2. \/ firstBuf' = firstBuf
          \/ firstBuf' = [firstBuf EXCEPT ![ri] = Nil]
        BY <1>5 DEF ResendFirst
    <2>3. ri \in Slots
        BY DEF CtrlOK
    <2> QED
        BY <1>0, <2>1, <2>2, <2>3, AcceptShrink
<1>6. CASE ResendSecond
    <2>1. UNCHANGED <<accepted, logChan, nextEntry, firstBuf>>
        BY <1>6 DEF ResendSecond
    <2>2. \/ secondBuf' = secondBuf
          \/ secondBuf' = [secondBuf EXCEPT ![ri] = Nil]
        BY <1>6 DEF ResendSecond
    <2>3. ri \in Slots
        BY DEF CtrlOK
    <2> QED
        BY <1>0, <2>1, <2>2, <2>3, AcceptShrink
<1>7. CASE ResendLost \/ RecvConnect \/ RecvLogFile \/ RecvLogLevel \/ LinkUp
           \/ LinkDrop \/ Disconnect \/ UNCHANGED vars
    <2>1. UNCHANGED <<accepted, logChan, nextEntry, firstBuf, secondBuf>>
        BY <1>7 DEF ResendLost, RecvConnect, RecvLogFile, RecvLogLevel, LinkUp,
           LinkDrop, Disconnect, vars, bufVars
    <2> QED
        BY <2>1, AcceptShrink
<1> QED
    BY <1>1, <1>3, <1>4, <1>5, <1>6, <1>7 DEF Next, Run

\* buffer(e) leaves e in a slot.
LEMMA BufferKeeps ==
    ASSUME BufOK, NEW e, Buffer(e)
    PROVE  e \in Held'
<1> USE BufferAssumption
<1>1. CASE firstBufSize < BUFFER_SIZE
    <2>1. firstBufSize \in Slots
        BY <1>1 DEF BufOK, Slots
    <2>2. firstBuf'[firstBufSize] = e
        BY <1>1, <2>1 DEF Buffer, BufOK
    <2> QED
        BY <2>1, <2>2 DEF Held
<1>2. CASE ~(firstBufSize < BUFFER_SIZE) /\ secondBufSize < BUFFER_SIZE
    <2>1. secondBufSize \in Slots
        BY <1>2 DEF BufOK, Slots
    <2>2. secondBuf'[secondBufSize] = e
        BY <1>2, <2>1 DEF Buffer, BufOK
    <2> QED
        BY <2>1, <2>2 DEF Held
<1>3. CASE ~(firstBufSize < BUFFER_SIZE) /\ ~(secondBufSize < BUFFER_SIZE)
    <2>1. 0 \in Slots /\ secondBuf'[0] = e
        BY <1>3 DEF Buffer, Slots
    <2> QED
        BY <2>1 DEF Held
<1> QED
    BY <1>1, <1>2, <1>3

(* Clearing the slot k that holds e removes e, and only e, from the        *)
(* pending entries: no other slot of either buffer holds it.              *)
LEMMA ClearPending ==
    ASSUME BufOK, BufDistinct, NEW k \in Slots, NEW e, e # Nil,
           \/ /\ firstBuf[k] = e
              /\ firstBuf' = [firstBuf EXCEPT ![k] = Nil]
              /\ UNCHANGED secondBuf
           \/ /\ secondBuf[k] = e
              /\ secondBuf' = [secondBuf EXCEPT ![k] = Nil]
              /\ UNCHANGED firstBuf
    PROVE  Held' \ {Nil} = (Held \ {Nil}) \ {e}
<1>1. CASE firstBuf[k] = e /\ firstBuf' = [firstBuf EXCEPT ![k] = Nil]
           /\ UNCHANGED secondBuf
    <2>1. \A i \in Slots : firstBuf'[i] = IF i = k THEN Nil ELSE firstBuf[i]
        BY <1>1 DEF BufOK
    <2>2. \A i \in Slots : /\ i # k => firstBuf[i] # e
                           /\ secondBuf[i] # e
        BY <1>1 DEF BufDistinct
    <2> QED
        BY <1>1, <2>1, <2>2 DEF Held
<1>2. CASE secondBuf[k] = e /\ secondBuf' = [secondBuf EXCEPT ![k] = Nil]
           /\ UNCHANGED firstBuf
    <2>1. \A i \in Slots : secondBuf'[i] = IF i = k THEN Nil ELSE secondBuf[i]
        BY <1>2 DEF BufOK
    <2>2. \A i \in Slots : /\ i # k => secondBuf[i] # e
                           /\ firstBuf[i] # e
        BY <1>2 DEF BufDistinct
    <2> QED
        BY <1>2, <2>1, <2>2 DEF Held
<1> QED
    BY <1>1, <1>2

\* Every step of the relay is a step of RelayDelivery or leaves the
\* delivered sequence, the pending and the accepted entries as they are.
LEMMA DeliveryStep ==
    ASSUME CtrlOK, BufOK, DupInv, AcceptInv, [Next]_vars
    PROVE  [Delivery!Next]_Delivery!vars
<1>0. \A x \in Held : x # Nil => x \in accepted
    BY DEF Held, AcceptInv, HeldAccepted
\* A step that changes none of the mapped variables is a stutter.
<1>1. ASSUME UNCHANGED <<delivered, firstBuf, secondBuf, accepted>>
      PROVE  [Delivery!Next]_Delivery!vars
    BY <1>1 DEF Delivery!vars, Held
<1>2. CASE RecvEntry
    <2> DEFINE e == Head(logChan)[1]
               level == Head(logChan)[2]
    <2>1. /\ logChan # <<>>
          /\ logChan \in Seq((Nat \ {0}) \X EntryLevels)
          /\ Len(logChan) \in Nat \ {0}
          /\ Head(logChan) = logChan[1]
        BY <1>2, EmptySeq, LenProperties DEF RecvEntry, CtrlOK
    <2>2. /\ e \in Nat /\ e # Nil /\ e < nextEntry
          /\ e \notin Held /\ e \notin DeliveredSet /\ e \notin accepted
        BY <2>1, BoundsAssumption DEF DupInv, ChanFresh, AcceptInv, ChanUnaccepted
    <2>3. CASE level > logLevel
        BY <1>1, <1>2, <2>3 DEF RecvEntry, bufVars
    <2>4. CASE ~(level > logLevel)
        <3>1. accepted' = accepted \cup {e}
            BY <1>2, <2>4 DEF RecvEntry
        <3>2. \/ delivered' = Append(delivered, e)
                 /\ UNCHANGED <<bufVars, faults>>
              \/ (UNCHANGED faults \/ Timeout) /\ Buffer(e) /\ UNCHANGED delivered
            BY <1>2, <2>4 DEF RecvEntry
        <3>3. e \in accepted'
            BY <3>1
        <3>4. CASE delivered' = Append(delivered, e) /\ UNCHANGED <<bufVars, faults>>
            <4>1. Held' \ {Nil} = (Held \ {Nil}) \ {e}
                BY <2>2, <3>4 DEF bufVars, Held
            <4>2. Delivery!Send(e)
                BY <2>2, <3>1, <3>4, <4>1 DEF Delivery!Send
            <4> QED
                BY <3>3, <4>2 DEF Delivery!Next
        <3>5. CASE Buffer(e) /\ UNCHANGED delivered
            <4>0. nextEntry' = nextEntry
                BY <1>2 DEF RecvEntry
            <4>1. \A x \in Held' : x \in Held \/ x = e \/ x = Nil
                BY <2>2, <3>5, <4>0, BufferDup DEF DupInv
            <4>2. e \in Held'
                BY <3>5, BufferKeeps
            <4>3. Delivery!Store(e)
                BY <2>2, <3>1, <3>5, <4>1, <4>2 DEF Delivery!Store
            <4> QED
                BY <3>3, <4>3 DEF Delivery!Next
        <3> QED
            BY <3>2, <3>4, <3>5
    <2> QED
        BY <2>3, <2>4
\* resend delivers the entry of slot ri and clears the slot.
<1>3. ASSUME NEW e, e # Nil, e \in Held, delivered' = Append(delivered, e),
             Held' \ {Nil} = (Held \ {Nil}) \ {e}, UNCHANGED accepted
      PROVE  [Delivery!Next]_Delivery!vars
    <2>1. e \in accepted
        BY <1>0, <1>3
    <2>2. Delivery!Send(e)
        BY <1>3, <2>1 DEF Delivery!Send
    <2> QED
        BY <2>1, <2>2, <1>3 DEF Delivery!Next
<1>4. CASE ResendFirst
    <2>0. UNCHANGED <<accepted, secondBuf>> /\ ri \in Slots
        BY <1>4 DEF ResendFirst, CtrlOK
    <2>1. CASE firstBuf[ri] = Nil
        BY <1>1, <1>4, <2>1 DEF ResendFirst
    <2>2. CASE firstBuf[ri] # Nil
        <3> PICK ok \in BOOLEAN :
                /\ SendNoBuffer(firstBuf[ri], ok)
                /\ firstBuf' = IF ok THEN [firstBuf EXCEPT ![ri] = Nil] ELSE firstBuf
            BY <1>4, <2>2 DEF ResendFirst
        <3>1. CASE ok
            <4>1. /\ delivered' = Append(delivered, firstBuf[ri])
                  /\ firstBuf' = [firstBuf EXCEPT ![ri] = Nil]
                BY <3>1 DEF SendNoBuffer
            <4>2. Held' \ {Nil} = (Held \ {Nil}) \ {firstBuf[ri]}
                BY <2>0, <2>2, <4>1, ClearPending DEF DupInv
            <4>3. firstBuf[ri] \in Held
                BY <2>0 DEF Held
            <4> QED
                BY <2>0, <2>2, <4>1, <4>2, <4>3, <1>3
        <3>2. CASE ~ok
            BY <1>1, <2>0, <3>2 DEF SendNoBuffer
        <3> QED
            BY <3>1, <3>2
    <2> QED
        BY <2>1, <2>2
<1>5. CASE ResendSecond
    <2>0. UNCHANGED <<accepted, firstBuf>> /\ ri \in Slots
        BY <1>5 DEF ResendSecond, CtrlOK
    <2>1. CASE secondBuf[ri] = Nil
        BY <1>1, <1>5, <2>1 DEF ResendSecond
    <2>2. CASE secondBuf[ri] # Nil
        <3> PICK ok \in BOOLEAN :
                /\ SendNoBuffer(secondBuf[ri], ok)
                /\ secondBuf' = IF ok THEN [secondBuf EXCEPT ![ri] = Nil] ELSE secondBuf
            BY <1>5, <2>2 DEF ResendSecond
        <3>1. CASE ok
            <4>1. /\ delivered' = Append(delivered, secondBuf[ri])
                  /\ secondBuf' = [secondBuf EXCEPT ![ri] = Nil]
                BY <3>1 DEF SendNoBuffer
            <4>2. Held' \ {Nil} = (Held \ {Nil}) \ {secondBuf[ri]}
                BY <2>0, <2>2, <4>1, ClearPending DEF DupInv
            <4>3. secondBuf[ri] \in Held
                BY <2>0 DEF Held
            <4> QED
                BY <2>0, <2>2, <4>1, <4>2, <4>3, <1>3
        <3>2. CASE ~ok
            BY <1>1, <2>0, <3>2 DEF SendNoBuffer
        <3> QED
            BY <3>1, <3>2
    <2> QED
        BY <2>1, <2>2
<1>6. CASE ResendLost
    <2>0. UNCHANGED <<accepted, firstBuf, secondBuf>>
        BY <1>6 DEF ResendLost
    <2>1. CASE lost > 0
        <3> PICK ok \in BOOLEAN : SendNoBuffer(LostWarning, ok)
            BY <1>6, <2>1 DEF ResendLost
        <3>1. CASE ok
            <4>1. delivered' = Append(delivered, LostWarning)
                BY <3>1 DEF SendNoBuffer
            <4>2. Delivery!Warn
                BY <2>0, <4>1 DEF Delivery!Warn, Held
            <4> QED
                BY <4>2 DEF Delivery!Next
        <3>2. CASE ~ok
            BY <1>1, <2>0, <3>2 DEF SendNoBuffer
        <3> QED
            BY <3>1, <3>2
    <2>2. CASE ~(lost > 0)
        BY <1>1, <1>6, <2>0, <2>2 DEF ResendLost
    <2> QED
        BY <2>1, <2>2
<1>7. CASE Internal \/ LogEntry \/ RecvConnect \/ RecvLogFile \/ RecvLogLevel
           \/ LinkUp \/ LinkDrop \/ Disconnect \/ UNCHANGED vars
    BY <1>1, <1>7 DEF Internal, LogEntry, RecvConnect, RecvLogFile,
       RecvLogLevel, LinkUp, LinkDrop, Disconnect, vars, bufVars
<1> QED
    BY <1>2, <1>4, <1>5, <1>6, <1>7 DEF Next, Run

\* Nothing is accepted or buffered at the start.
LEMMA AcceptInit == Init => AcceptInv
BY DEF Init, AcceptInv, ChanUnaccepted, HeldAccepted

(* The relay implements RelayDelivery (spec 4.E): under the mapping of    *)
(* pending to the buffered entries and seen to the accepted ones, Run's    *)
(* send in select, buffer() and resend's two loops and lost-count warning  *)
(* (agent/logrelay) deliver only accepted entries, each once, and never    *)
(* one that buffer() gave up.                                             *)
THEOREM DeliveryRefinement == Spec => DeliveryRefined
<1> DEFINE RInv == IInv /\ DupInv /\ AcceptInv
<1>1. Init => RInv
    BY IInvInit, DupInit, AcceptInit
<1>2. RInv /\ [Next]_vars => RInv'
    BY IInvStep, DupStep, AcceptStep DEF IInv
<1>3. Init => Delivery!Init
    <2> SUFFICES ASSUME Init PROVE Delivery!Init
        OBVIOUS
    <2>1. Held \ {Nil} = {}
        BY DEF Init, Held
    <2> QED
        BY <2>1 DEF Init, Delivery!Init
<1>4. RInv /\ [Next]_vars => [Delivery!Next]_Delivery!vars
    BY DeliveryStep DEF IInv
<1> QED
    BY <1>1, <1>2, <1>3, <1>4, PTL DEF Spec, DeliveryRefined, Delivery!Spec

====

-------------------------- MODULE NtripConnProofs --------------------------
(***************************************************************************)
(* Proofs about NtripConn, for every list of credential keys, every table  *)
(* of pauses and any number of requests and configuration writes.          *)
(***************************************************************************)
EXTENDS NtripConn, TLAPS

(***************************************************************************)
(* retry.c                                                                 *)
(***************************************************************************)

(* The table is entered at a pause that is not below the short one. *)
LEMMA TableEntry ==
    /\ Len(DelayTable) \in Nat \ {0}
    /\ DOMAIN DelayTable = 1 .. Len(DelayTable)
    /\ \A i \in 1 .. Len(DelayTable) : DelayTable[i] \in Nat
    /\ DelaysOffset \in 0 .. Len(DelayTable) - 1
    /\ DelayTable[DelaysOffset + 1] >= ShortDelay
<1>1. /\ Len(DelayTable) \in Nat \ {0}
      /\ DOMAIN DelayTable = 1 .. Len(DelayTable)
      /\ \A i \in 1 .. Len(DelayTable) : DelayTable[i] \in Nat
  BY TableConstants, SMT
<1>2. DelaysOffset \in 0 .. Len(DelayTable) /\ IsEntry(DelaysOffset)
  BY TableConstants DEF DelaysOffset
<1>3. DelaysOffset # Len(DelayTable)
  <2> SUFFICES ASSUME DelaysOffset = Len(DelayTable) PROVE FALSE
    OBVIOUS
  <2>1. DelayTable[Len(DelayTable)] < ShortDelay
    BY <1>1, <1>2, SMT DEF IsEntry
  <2>2. QED
    BY <1>1, <2>1, TableConstants, ConnConstants, SMT
<1>4. DelayTable[DelaysOffset + 1] >= ShortDelay
  BY <1>2, <1>3 DEF IsEntry
<1>5. ASSUME NEW o, NEW n \in Nat, o \in 0 .. n, o # n PROVE o \in 0 .. n - 1
  BY <1>5, SMT
<1>6. DelaysOffset \in 0 .. Len(DelayTable) - 1
  BY <1>1, <1>2, <1>3, <1>5, Zenon
<1>7. QED
  BY <1>1, <1>4, <1>6, Zenon

(* retry_delay: each pause is at least as long as the one before. *)
LEMMA DelayRises ==
    ASSUME NEW n \in Nat
    PROVE  Delay(n) \in Nat /\ Delay(n + 1) \in Nat /\ Delay(n) <= Delay(n + 1)
<1> DEFINE L == Len(DelayTable)
           o == DelaysOffset
<1> USE TableEntry, ConnConstants
<1>1. \A i, j \in 1 .. L : i <= j => DelayTable[i] <= DelayTable[j]
  BY TableConstants
<1>2. \A i \in 1 .. L : i >= o + 1 => ShortDelay <= DelayTable[i] /\ DelayTable[i] \in Nat
  <2> TAKE i \in 1 .. L
  <2> HAVE i >= o + 1
  <2>1. o + 1 \in 1 .. L
    BY SMT
  <2>2. DelayTable[o + 1] <= DelayTable[i]
    BY <1>1, <2>1
  <2>3. QED
    BY <2>1, <2>2, SMT
<1>3. L \in 1 .. L /\ L >= o + 1
  BY SMT
<1> HIDE DEF L, o
<1>4. Len(DelayTable) = L /\ DelaysOffset = o /\ L \in Nat \ {0} /\ o \in 0 .. L - 1
  BY DEF L, o
<1>5. \A m \in Nat : Delay(m) = IF m = 0 THEN 0
                                ELSE IF m < ShortCount THEN ShortDelay
                                ELSE IF m - ShortCount + o + 1 <= L
                                     THEN DelayTable[m - ShortCount + o + 1]
                                     ELSE DelayTable[L]
  BY <1>4 DEF Delay
<1>6. CASE n = 0
  BY <1>2, <1>3, <1>4, <1>5, <1>6, SMT
<1>7. CASE n # 0 /\ n < ShortCount
  BY <1>2, <1>3, <1>4, <1>5, <1>7, SMT
<1>8. CASE n # 0 /\ n >= ShortCount
  BY <1>1, <1>2, <1>3, <1>4, <1>5, <1>8, SMTT(30)
<1>9. QED
  BY <1>6, <1>7, <1>8

(* Beyond the table the pause does not change any more. *)
LEMMA BackoffStep == BackoffInv /\ [Next]_vars => BackoffInv'
<1> SUFFICES ASSUME BackoffInv, [Next]_vars PROVE BackoffInv'
  OBVIOUS
<1>0. MaxAttempts \in Nat
  BY TableEntry, ConnConstants DEF MaxAttempts
<1>1. CASE RetryDelay
  <2>1. attempts \in Nat /\ pause' = Delay(attempts)
    BY <1>0, <1>1 DEF BackoffInv, RetryDelay
  <2>2. Delay(attempts) \in Nat /\ Delay(attempts) <= Delay(attempts + 1)
    BY <2>1, DelayRises
  <2>3. attempts' \in 0 .. MaxAttempts /\ attempts' \in {attempts, attempts + 1}
    BY <1>0, <1>1, SMT DEF BackoffInv, RetryDelay
  <2>4. Delay(attempts)' = Delay(attempts')
    BY DEF Delay, DelaysOffset
  <2>5. QED
    BY <2>1, <2>2, <2>3, <2>4, SMT DEF BackoffInv
<1>2. CASE PollAccepts
  <2>1. pause' = 0 /\ attempts' \in {attempts, 0}
    BY <1>2 DEF PollAccepts
  <2>2. attempts \in Nat /\ Delay(attempts) \in Nat /\ Delay(0) = 0
    BY <1>0, DelayRises DEF BackoffInv, Delay
  <2>3. Delay(attempts)' = Delay(attempts')
    BY DEF Delay, DelaysOffset
  <2>4. QED
    BY <1>0, <2>1, <2>2, <2>3, SMT DEF BackoffInv
<1>3. CASE UNCHANGED retry
  BY <1>3 DEF BackoffInv, retry, Delay, DelaysOffset
<1>4. QED
  <2>1. CASE UNCHANGED vars
    BY <2>1, <1>3 DEF vars
  <2>2. CASE Server
    BY <2>2, <1>1, <1>2, <1>3
    DEF Server, Waiting, Dialing, Draining, CheckReady, WaitForData, ResumeSleepTask, WaitForIp,
        LoadKey, SnapshotGeneration, DialFails, DialSucceeds, ResetCursor, Connected, DrainTurn,
        PollIdle, PollBreaks, Disconnect, Cleanup
  <2>3. CASE SleepTask \/ Ingest
    BY <2>3, <1>3
    DEF SleepTask, SleepTaskStarts, ReadKeepAlive, CountKeepAlive, TestTimeout, WithdrawReady,
        Ingest, FrameArrives, SetReady, TouchKeepAlive
  <2>4. CASE Others
    BY <2>4, <1>3 DEF Others, StoreKey, RequestReconnect, AddressChanges
  <2>5. QED
    BY <2>1, <2>2, <2>3, <2>4 DEF Next

(* A pause is never shorter than the one before unless the caster has accepted
   bytes in between, for every table and every number of short pauses. *)
THEOREM BackoffNeverShrinks == Spec => []BackoffHolds
<1>1. Init => BackoffInv
  BY TableEntry, ConnConstants DEF Init, BackoffInv, MaxAttempts, Delay
<1>2. BackoffInv => BackoffHolds
  <2> SUFFICES ASSUME BackoffInv PROVE Delay(attempts) >= pause
    BY DEF BackoffHolds
  <2>1. attempts \in Nat
    BY TableEntry, ConnConstants DEF BackoffInv, MaxAttempts
  <2>2. QED
    BY <2>1, DelayRises, SMT DEF BackoffInv
<1>3. QED
  BY <1>1, <1>2, BackoffStep, PTL DEF Spec
-----------------------------------------------------------------------------
(***************************************************************************)
(* The session                                                             *)
(***************************************************************************)

(* What has been read of the credentials fits the place of the task. *)
LEMMA LoadStep == LoadInv /\ [Next]_vars => LoadInv'
<1> SUFFICES ASSUME LoadInv, [Next]_vars PROVE LoadInv'
  OBVIOUS
<1> USE DEF LoadInv, cred
<1>1. CASE UNCHANGED vars
  BY <1>1 DEF vars
<1>2. CASE Waiting
  <2>1. UNCHANGED cred /\ pc' \in {"check", "wait", "resume", "ip", "load"}
        /\ pc \in {"retry", "check", "wait", "resume", "ip"}
    BY <1>2 DEF Waiting, RetryDelay, CheckReady, WaitForData, ResumeSleepTask, WaitForIp
  <2>2. Len(<<>>) < Len(LoadOrder)
    BY KeyConstants, SMT
  <2>3. QED
    BY <2>1, <2>2
<1>3. CASE LoadKey
  <2>1. Len(loaded) + 1 \in 1 .. Len(LoadOrder) /\ Len(LoadOrder) \in Nat
    BY <1>3, KeyConstants, SMT DEF LoadKey
  <2>2. LoadOrder[Len(loaded) + 1] \in Fields
    BY <2>1, KeyConstants, SMT
  <2> DEFINE x == stored[LoadOrder[Len(loaded) + 1]]
  <2>3. x \in 0 .. MaxVersion
    BY <2>2
  <2>4. /\ loaded' = Append(loaded, x) /\ stored' = stored
        /\ pc' = IF Len(loaded') = Len(LoadOrder) THEN "gen" ELSE "load"
    BY <1>3 DEF LoadKey
  <2> HIDE DEF x
  <2>5. loaded' \in Seq(0 .. MaxVersion) /\ Len(loaded') = Len(loaded) + 1
    BY <2>3, <2>4, SMT
  <2>6. Len(loaded') \in Nat /\ Len(loaded') <= Len(LoadOrder)
    BY <2>1, <2>5, SMT
  <2>7. QED
    BY <2>1, <2>4, <2>5, <2>6, SMT
<1>4. CASE SnapshotGeneration
  BY <1>4 DEF SnapshotGeneration
<1>5. CASE DialFails \/ DialSucceeds \/ ResetCursor \/ Connected
  BY <1>5 DEF DialFails, DialSucceeds, ResetCursor, Connected
<1>6. CASE DrainTurn \/ PollAccepts \/ PollIdle \/ PollBreaks \/ Disconnect
  BY <1>6 DEF DrainTurn, PollAccepts, PollIdle, PollBreaks, Disconnect
<1>7. CASE Cleanup
  BY <1>7 DEF Cleanup
<1>8. CASE SleepTask \/ Ingest
  BY <1>8
  DEF SleepTask, SleepTaskStarts, ReadKeepAlive, CountKeepAlive, TestTimeout, WithdrawReady,
      Ingest, FrameArrives, SetReady, TouchKeepAlive
<1>9. CASE Others
  BY <1>9 DEF Others, StoreKey, RequestReconnect, AddressChanges
<1>10. QED
  BY <1>1, <1>2, <1>3, <1>4, <1>5, <1>6, <1>7, <1>8, <1>9
  DEF Next, Server, Dialing, Draining

(* Every step of the three tasks is a step of the session or leaves it alone. *)
LEMMA SessionStep ==
    LoadInv /\ [Next]_vars => [Credentials!CredNext]_(Credentials!credVars)
<1> SUFFICES ASSUME LoadInv, [Next]_vars PROVE [Credentials!CredNext]_(Credentials!credVars)
  OBVIOUS
<1> USE DEF cred, SessOf, LoadedOf
<1>0. ASSUME UNCHANGED <<stored, reconnect_gen, conn_gen, SessOf, LoadedOf>>
      PROVE  [Credentials!CredNext]_(Credentials!credVars)
  BY <1>0 DEF Credentials!credVars, Credentials!store, Credentials!session
<1>1. CASE UNCHANGED vars
  BY <1>0, <1>1 DEF vars
<1>2. CASE RetryDelay \/ CheckReady \/ WaitForData \/ ResumeSleepTask
  BY <1>0, <1>2 DEF RetryDelay, CheckReady, WaitForData, ResumeSleepTask
<1>3. CASE WaitForIp
  <2>1. Credentials!SessStart
    BY <1>3 DEF WaitForIp, Credentials!SessStart, Credentials!store
  <2>2. QED
    BY <2>1 DEF Credentials!CredNext, Credentials!Session
<1>4. CASE LoadKey
  <2>1. Len(loaded) # Len(LoadOrder)
    BY <1>4, KeyConstants, SMT DEF LoadKey, LoadInv
  <2>2. Credentials!SessLoad
    BY <1>4, <2>1 DEF LoadKey, Credentials!SessLoad, Credentials!store, Credentials!Complete
  <2>3. QED
    BY <2>2 DEF Credentials!CredNext, Credentials!Session
<1>5. CASE SnapshotGeneration
  <2>1. Credentials!SessSnapshot
    BY <1>5 DEF SnapshotGeneration, LoadInv, Credentials!SessSnapshot, Credentials!store,
                Credentials!Complete
  <2>2. QED
    BY <2>1 DEF Credentials!CredNext, Credentials!Session
<1>6. CASE DialSucceeds \/ ResetCursor
  BY <1>0, <1>6 DEF DialSucceeds, ResetCursor
<1>7. CASE Connected
  <2>1. Credentials!SessUp
    BY <1>7 DEF Connected, Credentials!SessUp, Credentials!store
  <2>2. QED
    BY <2>1 DEF Credentials!CredNext, Credentials!Session
<1>8. CASE DrainTurn \/ PollAccepts \/ PollIdle \/ PollBreaks
  BY <1>0, <1>8 DEF DrainTurn, PollAccepts, PollIdle, PollBreaks
<1>9. CASE DialFails \/ Disconnect
  <2>1. CASE DialFails
    <3>1. Credentials!SessDialFails
      BY <2>1 DEF DialFails, Credentials!SessDialFails, Credentials!SessEnds, Credentials!store
    <3>2. QED
      BY <3>1 DEF Credentials!CredNext, Credentials!Session
  <2>2. CASE Disconnect
    <3>1. Credentials!SessBreaks
      BY <2>2 DEF Disconnect, Credentials!SessBreaks, Credentials!SessEnds, Credentials!store
    <3>2. QED
      BY <3>1 DEF Credentials!CredNext, Credentials!Session
  <2>3. QED
    BY <1>9, <2>1, <2>2
<1>10. CASE Cleanup
  BY <1>0, <1>10 DEF Cleanup
<1>11. CASE SleepTask \/ Ingest
  BY <1>0, <1>11
  DEF SleepTask, SleepTaskStarts, ReadKeepAlive, CountKeepAlive, TestTimeout, WithdrawReady,
      Ingest, FrameArrives, SetReady, TouchKeepAlive
<1>12. ASSUME NEW f \in Fields, StoreKey(f) PROVE [Credentials!CredNext]_(Credentials!credVars)
  <2>1. PICK v \in 0 .. MaxVersion : stored' = [stored EXCEPT ![f] = v]
    BY <1>12 DEF StoreKey
  <2>2. Credentials!StoreField(f, v)
    BY <1>12, <2>1 DEF StoreKey, Credentials!StoreField, Credentials!session
  <2>3. f \in Credentials!Fields
    BY DEF Fields, Credentials!Fields
  <2>4. QED
    BY <2>2, <2>3 DEF Credentials!CredNext, Credentials!Writer
<1>13. CASE RequestReconnect
  <2>1. Credentials!ReconnectAll
    BY <1>13 DEF RequestReconnect, Credentials!ReconnectAll, Credentials!session
  <2>2. QED
    BY <2>1 DEF Credentials!CredNext
<1>14. ASSUME NEW up \in BOOLEAN, AddressChanges(up)
       PROVE  [Credentials!CredNext]_(Credentials!credVars)
  BY <1>0, <1>14 DEF AddressChanges
<1>15. QED
  BY <1>1, <1>2, <1>3, <1>4, <1>5, <1>6, <1>7, <1>8, <1>9, <1>10, <1>11, <1>12, <1>13, <1>14
  DEF Next, Server, Waiting, Dialing, Draining, Others

(* The server task, with the sleep task and the UART task around it, is a caster
   session as provisioning relies on one: a dial uses the keys as they were read
   one by one before it, and the generation read after them. *)
THEOREM TaskIsSession == Spec => ImplementsSession
<1>1. Init => LoadInv
  BY KeyConstants, SMT DEF Init, LoadInv
<1>2. Init => Credentials!CredInit
  BY DEF Init, Credentials!CredInit, SessOf, LoadedOf, Fields, Credentials!Fields
<1>3. QED
  BY <1>1, <1>2, LoadStep, SessionStep, PTL DEF Spec, ImplementsSession, Credentials!CredSpec
=============================================================================

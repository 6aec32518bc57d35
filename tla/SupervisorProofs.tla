-------------------------- MODULE SupervisorProofs --------------------------
(***************************************************************************)
(* Proofs about Supervisor, for every threshold, debounce, recovery time,  *)
(* heap limit and width of the words' halves.  A pass takes no time, so    *)
(* the argument is about when passes come: each leaves behind a statement  *)
(* about the ages it has judged, and the next one comes at most Lag after  *)
(* it, however long gnss_recover kept the task.                            *)
(***************************************************************************)
EXTENDS Supervisor, TLAPS

Judging == {"judge", "wifi", "reconnect", "receiver"}
InPass == Kinds \cup Judging
Heard == {"gnss", "caster"}

(* What TypeOK leaves out: when the task wakes, the half it holds, the history. *)
Halves == [word : {"hi", "lo"}, val : Nat, judged : BOOLEAN, real : Int]
Times ==
    /\ wake \in Nat
    /\ IF pc \in Kinds THEN half = NoHalf \/ half \in Halves ELSE half = NoHalf
    /\ noted \in [Kinds -> 0 .. clock]
    /\ low_at \in 0 .. clock /\ down_at \in Nat
Truths == truth \in [Kinds -> SUBSET Int]

(* A word that was noted holds the time of the last note. *)
Words == \A k \in Heard : IF seen[k] THEN stamp[k] = Split(noted[k]) ELSE noted[k] = 0

(* The half that was read belongs to the note it was read under: the last one,
   unless another came since, in this very second. *)
HalfRead ==
    \A k \in Heard : pc = k /\ half # NoHalf =>
      /\ IF half.judged
         THEN /\ half.real \in 0 .. clock
              /\ half.word = "hi" => half.val = Split(clock - half.real).hi
              /\ half.word = "lo" => half.val = Split(clock - half.real).lo
         ELSE half.real = UnseenSilent(k)
      /\ \/ half.judged = seen[k] /\ (seen[k] => noted[k] = clock - half.real)
         \/ seen[k] /\ noted[k] = clock

(* A word that has been read tells the age of the last note, unless one came
   while or after it was read; either way it tells an age the word had. *)
Told(k) ==
    /\ \/ silent[k] = IF seen[k] THEN clock - noted[k] ELSE UnseenSilent(k)
       \/ seen[k] /\ noted[k] = clock
    /\ silent[k] \in truth[k] \/ Torn(k)
ReadSoFar ==
    /\ pc \in {"caster", "ip"} \cup Judging => Told("gnss")
    /\ pc \in {"ip"} \cup Judging => Told("caster")

(* What a pass at time t leaves behind: the caster was not silent too long, or
   its rung was climbed not long ago; the same of the receiver; no wedge. *)
CasterPassed(t) ==
    seen["caster"] => t - last_act["caster"] < DebCaster \/ t - noted["caster"] < ThCaster
GnssPassed(t) == t - last_act["gnss"] < DebGnss \/ t - noted["gnss"] < ThGnss
WedgePassed(t) ==
    seen["caster"] => t - noted["caster"] < ThWedge \/ t - noted["gnss"] < ThWedge
Passed(t) == CasterPassed(t) /\ GnssPassed(t) /\ WedgePassed(t)

(* The rungs behind in the pass under way. *)
Climbed ==
    /\ pc \in {"wifi", "reconnect", "receiver"} => WedgePassed(clock)
    /\ pc = "receiver" => CasterPassed(clock)

(* The latest time of the next pass. *)
NextPass == IF pc = "sleep" THEN wake ELSE IF pc = "recover" THEN wake + 1 ELSE clock

Schedule ==
    /\ clock <= NextPass /\ NextPass <= clock + Lag
    /\ pc = "recover" => clock <= wake
    /\ NextPass <= Grace + 1 \/ Passed(NextPass - Lag)

(* The passes that have counted the low heap. *)
Since == IF low_at > Grace THEN low_at ELSE Grace
Counted ==
    /\ heap_low_streak < HeapLow
    /\ heap_low =>
         NextPass <= Since + (IF pc \in InPass THEN heap_low_streak ELSE heap_low_streak + 1) * Lag

SupInv == TypeOK /\ Times /\ Truths /\ Words
          /\ (Running => HalfRead /\ ReadSoFar /\ Climbed /\ Schedule /\ Counted)
-----------------------------------------------------------------------------
(* The constants, and the arithmetic of the two halves of a word. *)
LEMMA Consts ==
    /\ Grace \in Nat /\ RecoverS \in Nat /\ MaxClock \in Nat /\ MaxFlips \in Nat
    /\ AgeMod \in Nat
    /\ ThGnss \in Nat \ {0} /\ ThCaster \in Nat \ {0} /\ ThWedge \in Nat \ {0}
    /\ DebGnss \in Nat \ {0} /\ DebCaster \in Nat \ {0} /\ HeapLow \in Nat \ {0}
    /\ LowWord \in Nat \ {0} /\ ThCaster <= ThWedge /\ AgeMod > MaxClock
    /\ Lag \in Nat /\ Lag >= 1
  BY SupervisorConstants DEF Lag

LEMMA DivMod ==
    ASSUME NEW d \in Int, d > 0, NEW t \in Int
    PROVE  t = d * (t \div d) + (t % d) /\ t % d \in 0 .. d - 1 /\ t \div d \in Int
  BY SMT

LEMMA Quotient == ASSUME NEW d \in Nat \ {0}, NEW t \in Nat PROVE t \div d \in 0 .. t
<1> DEFINE q == t \div d
           r == t % d
<1>1. q \in Int /\ r \in Int /\ r >= 0 /\ r < d /\ t = d * q + r
  BY DivMod
<1> HIDE DEF q, r
<1>2. q >= 0
  <2>1. ASSUME q <= -1 PROVE FALSE
    <3>1. d * q <= d * (-1)
      BY <1>1, <2>1
    <3>2. QED
      BY <1>1, <3>1
  <2>2. QED
    BY <1>1, <2>1
<1>3. d * q >= q
  BY <1>1, <1>2
<1>4. q \in 0 .. t
  BY <1>1, <1>2, <1>3
<1>5. QED
  BY <1>4 DEF q

LEMMA Halving ==
    ASSUME NEW t \in Nat
    PROVE  /\ Split(t) = [hi |-> Split(t).hi, lo |-> Split(t).lo]
           /\ Split(t).hi \in 0 .. t /\ Split(t).lo \in 0 .. LowWord - 1
           /\ Split(t).hi * LowWord + Split(t).lo = t
<1>1. Split(t).hi = t \div LowWord /\ Split(t).lo = t % LowWord
  BY DEF Split
<1>2. t \div LowWord \in 0 .. t
  BY Consts, Quotient
<1>3. t = LowWord * (t \div LowWord) + (t % LowWord) /\ t % LowWord \in 0 .. LowWord - 1
  BY Consts, DivMod
<1> DEFINE q == t \div LowWord
           r == t % LowWord
<1>4. q * LowWord + r = t
  <2> HIDE DEF q, r
  <2>1. q \in Int /\ r \in Int /\ LowWord \in Int /\ t = LowWord * q + r
    BY <1>2, <1>3, Consts DEF q, r
  <2>2. QED
    BY <2>1
<1>5. Split(t) = [hi |-> t \div LowWord, lo |-> t % LowWord]
  BY DEF Split
<1>6. QED
  BY <1>1, <1>2, <1>3, <1>4, <1>5, Zenon

(* A word with one half of another: the halves of two times a and b. *)
LEMMA Mixed ==
    ASSUME NEW a \in Nat, NEW s, s = Split(a), NEW v \in Nat
    PROVE  /\ Word([s EXCEPT !["hi"] = v]) = v * LowWord + s.lo
           /\ Word([s EXCEPT !["lo"] = v]) = s.hi * LowWord + v
           /\ Word([s EXCEPT !["hi"] = v]) \in Int /\ Word([s EXCEPT !["lo"] = v]) \in Int
<1>1. s \in [hi : Nat, lo : Nat] /\ LowWord \in Nat
  BY Halving, Consts
<1>2. QED
  BY <1>1 DEF Word

LEMMA AgeIs == ASSUME clock \in 0 .. MaxClock, NEW t \in 0 .. clock PROVE Age(t) = clock - t
<1>1. ASSUME NEW m \in Nat, NEW x \in Nat, x < m PROVE x % m = x
  BY <1>1
<1>2. clock - t \in Nat /\ clock - t < AgeMod
  BY Consts
<1>3. QED
  BY <1>1, <1>2, Consts DEF Age

LEMMA AgeType == ASSUME clock \in 0 .. MaxClock, NEW t \in Int PROVE Age(t) \in 0 .. AgeMod - 1
<1>1. clock - t \in Int /\ AgeMod \in Int /\ AgeMod > 0
  BY Consts
<1>2. QED
  BY <1>1, DivMod DEF Age

LEMMA Sets ==
    /\ Kinds = {"gnss", "caster", "ip"} /\ Heard = {"gnss", "caster"}
    /\ Judging = {"judge", "wifi", "reconnect", "receiver"}
    /\ InPass = {"gnss", "caster", "ip", "judge", "wifi", "reconnect", "receiver"}
    /\ Rungs = {"gnss", "caster", "link"}
  BY DEF Kinds, Heard, Judging, InPass, Rungs

LEMMA Tables ==
    /\ After("gnss") = "caster" /\ After("caster") = "ip" /\ After("ip") = "judge"
    /\ Silence("gnss") = clock - noted["gnss"]
    /\ Silence("caster") = IF seen["caster"] THEN clock - noted["caster"] ELSE 0
    /\ Silence("ip") = IF Judged("ip") THEN clock - down_at ELSE 0
    /\ UnseenSilent("gnss") = clock /\ UnseenSilent("caster") = 0 /\ UnseenSilent("ip") = 0
<1>1. After("gnss") = "caster" /\ After("caster") = "ip" /\ After("ip") = "judge"
  BY Zenon DEF After
<1>2. Silence("gnss") = clock - noted["gnss"]
  BY Zenon DEF Silence
<1>3. Silence("caster") = IF seen["caster"] THEN clock - noted["caster"] ELSE 0
  BY Zenon DEF Silence
<1>4. Silence("ip") = IF Judged("ip") THEN clock - down_at ELSE 0
  BY Zenon DEF Silence
<1>5. UnseenSilent("gnss") = clock /\ UnseenSilent("caster") = 0 /\ UnseenSilent("ip") = 0
  BY DEF UnseenSilent
<1>6. QED
  BY <1>1, <1>2, <1>3, <1>4, <1>5, Zenon

LEMMA JudgedIs ==
    ASSUME TypeOK
    PROVE  Judged("gnss") = seen["gnss"] /\ Judged("caster") = seen["caster"] /\ Judged("ip") \in BOOLEAN
<1>1. seen["gnss"] \in BOOLEAN /\ seen["caster"] \in BOOLEAN /\ seen["ip"] \in BOOLEAN
  BY Sets DEF TypeOK
<1>2. (Judged("gnss") <=> seen["gnss"]) /\ (Judged("caster") <=> seen["caster"])
  BY DEF Judged
<1>3. Judged("gnss") \in BOOLEAN /\ Judged("caster") \in BOOLEAN /\ Judged("ip") \in BOOLEAN
  BY DEF Judged
<1>4. QED
  BY <1>1, <1>2, <1>3
-----------------------------------------------------------------------------
(* The steps of the hot paths and of the world: a word is noted now or stays as
   it is; the heap is low from now on, or stays what it was, or is not low. *)
Kept(k) == stamp'[k] = stamp[k] /\ seen'[k] = seen[k] /\ noted'[k] = noted[k]
NotedNow(k) == stamp'[k] = Split(clock) /\ seen'[k] = TRUE /\ noted'[k] = clock
Noting ==
    /\ Running
    /\ UNCHANGED <<clock, pc, wake, half, silent, last_act, heap_low_streak, truth>>
    /\ \A k \in Heard : Kept(k) \/ NotedNow(k)
    /\ \/ UNCHANGED <<heap_low, low_at>>
       \/ ~heap_low'
       \/ low_at' = clock

LEMMA NotesIs ==
    ASSUME TypeOK, Times
    PROVE  /\ supervisor_note_gnss_rx => NotedNow("gnss") /\ Kept("caster")
           /\ \A b \in {0, 1} : supervisor_note_caster_tx(b) =>
                (Kept("caster") \/ NotedNow("caster")) /\ Kept("gnss")
           /\ \A up \in BOOLEAN : supervisor_note_sta_ip(up) /\ noted' = noted => Kept("gnss") /\ Kept("caster")
<1> USE Sets DEF TypeOK, Times
<1>1. ASSUME supervisor_note_gnss_rx PROVE NotedNow("gnss") /\ Kept("caster")
  BY <1>1 DEF supervisor_note_gnss_rx, Stamp, NotedNow, Kept
<1>2. ASSUME NEW b \in {0, 1}, supervisor_note_caster_tx(b)
      PROVE  (Kept("caster") \/ NotedNow("caster")) /\ Kept("gnss")
  BY <1>2 DEF supervisor_note_caster_tx, Stamp, NotedNow, Kept
<1>3. ASSUME NEW up \in BOOLEAN, supervisor_note_sta_ip(up), noted' = noted
      PROVE  Kept("gnss") /\ Kept("caster")
  BY <1>3 DEF supervisor_note_sta_ip, Stamp, Kept
<1>4. QED
  BY <1>1, <1>2, <1>3

LEMMA NotingSteps ==
    ASSUME TypeOK, Times, HotPaths \/ WorldChanges
    PROVE  Noting
<1> DEFINE Others == UNCHANGED <<clock, pc, wake, half, silent, last_act, heap_low_streak, truth>>
<1>1. CASE Frame
  <2>1. Running /\ Others /\ UNCHANGED <<heap_low, low_at>> /\ supervisor_note_gnss_rx
    BY <1>1, Zenon DEF Frame, task, world
  <2>2. QED
    BY <2>1, NotesIs, Sets, Zenon DEF Noting
<1>2. CASE Ack
  <2>1. Running /\ Others /\ UNCHANGED <<heap_low, low_at>> /\ supervisor_note_gnss_rx
    BY <1>2, Zenon DEF Ack, task, world, Running
  <2>2. QED
    BY <2>1, NotesIs, Sets, Zenon DEF Noting
<1>3. CASE Send
  <2>1. Running /\ Others /\ UNCHANGED <<heap_low, low_at>> /\ supervisor_note_caster_tx(1)
    BY <1>3, Zenon DEF Send, task, world
  <2>2. QED
    BY <2>1, NotesIs, Sets, Zenon DEF Noting
<1>4. CASE Handshake
  <2>1. Running /\ Others /\ UNCHANGED <<heap_low, low_at>> /\ supervisor_note_caster_tx(0)
    BY <1>4, Zenon DEF Handshake, task, world
  <2>2. QED
    BY <2>1, NotesIs, Sets, Zenon DEF Noting
<1>5. CASE GotIp \/ LostIp
  <2>1. /\ Running /\ Others /\ UNCHANGED <<heap_low, low_at>>
        /\ \E up \in BOOLEAN : supervisor_note_sta_ip(up) /\ noted' = noted
    BY <1>5, Zenon DEF GotIp, LostIp, task, Flip
  <2>2. QED
    BY <2>1, NotesIs, Sets, Zenon DEF Noting
<1>6. CASE WorldChanges
  <2>1. Running /\ Others /\ UNCHANGED <<stamp, seen, noted>>
    BY <1>6, Zenon DEF WorldChanges, task, shared, Flip
  <2>2. UNCHANGED <<heap_low, low_at>> \/ ~heap_low' \/ low_at' = clock
    BY <1>6, Zenon DEF WorldChanges
  <2>3. QED
    BY <2>1, <2>2, Zenon DEF Noting, Kept
<1>7. QED
  BY <1>1, <1>2, <1>3, <1>4, <1>5, <1>6, Zenon DEF HotPaths

(* The steps of the supervisor and the tick leave the words as they are. *)
LEMMA PassKeeps ==
    ASSUME TypeOK, Times, Tick \/ Pass
    PROVE  /\ Running /\ UNCHANGED <<stamp, seen, noted, heap_low, low_at>>
           /\ Tick \/ clock' = clock
<1>1. CASE Tick
  BY <1>1 DEF Tick, shared, world, history, Running
<1>2. CASE WifiRung
  <2>1. UNCHANGED <<stamp, seen>>
    BY <1>2, Zenon DEF WifiRung, supervisor_note_sta_ip, shared
  <2>2. QED
    BY <1>2, <2>1 DEF WifiRung, world, Running
<1>3. CASE WakeInGrace \/ HeapGuard \/ Judge \/ CasterRung \/ GnssRung \/ RecoverEnds
  BY <1>3 DEF WakeInGrace, HeapGuard, Judge, CasterRung, GnssRung, RecoverEnds, shared, world,
              history, Running
<1>4. CASE ReadHalf \/ ReadOther
  <2>1. Running
    BY <1>4, Sets DEF ReadHalf, ReadOther, Running
  <2>2. UNCHANGED <<stamp, seen, noted, heap_low, low_at, clock>>
    BY <1>4, Zenon DEF ReadHalf, ReadOther, shared, world, history
  <2>3. QED
    BY <2>1, <2>2
<1>5. QED
  BY <1>1, <1>2, <1>3, <1>4 DEF Pass
-----------------------------------------------------------------------------
(* The types, in four parts. *)
WordT ==
    /\ stamp \in [Kinds -> [hi : 0 .. MaxClock, lo : 0 .. LowWord - 1]]
    /\ seen \in [Kinds -> BOOLEAN] /\ link_up \in BOOLEAN
WorldT ==
    /\ receiver \in {"alive", "mute", "dead"} /\ caster \in {"alive", "hollow", "dead"}
    /\ heap_low \in BOOLEAN /\ flips \in 0 .. MaxFlips
TaskT ==
    /\ pc \in Kinds \cup {"sleep", "judge", "wifi", "reconnect", "receiver", "recover", "reboot"}
    /\ silent \in [Kinds -> 0 .. AgeMod - 1] /\ link_fault \in BOOLEAN
    /\ last_act \in [Rungs -> 0 .. MaxClock] /\ heap_low_streak \in 0 .. HeapLow
    /\ wake \in Nat
    /\ IF pc \in Kinds THEN half = NoHalf \/ half \in Halves ELSE half = NoHalf
TimeT ==
    /\ clock \in 0 .. MaxClock /\ noted \in [Kinds -> 0 .. clock]
    /\ low_at \in 0 .. clock /\ down_at \in Nat

LEMMA TypeParts == TypeOK /\ Times <=> WordT /\ WorldT /\ TaskT /\ TimeT
  BY Zenon DEF TypeOK, Times, WordT, WorldT, TaskT, TimeT

LEMMA TypePartsNext == WordT' /\ WorldT' /\ TaskT' /\ TimeT' => TypeOK' /\ Times'
  BY Zenon DEF TypeOK, Times, WordT, WorldT, TaskT, TimeT

LEMMA TypeFrames ==
    /\ shared' = shared /\ WordT => WordT'
    /\ world' = world /\ WorldT => WorldT'
    /\ task' = task /\ TaskT => TaskT'
    /\ UNCHANGED <<clock, noted, low_at, down_at>> /\ TimeT => TimeT'
<1>1. shared' = shared /\ WordT => WordT'
  BY Zenon DEF WordT, shared
<1>2. world' = world /\ WorldT => WorldT'
  BY Zenon DEF WorldT, world
<1>3. task' = task /\ TaskT => TaskT'
  BY Zenon DEF TaskT, task
<1>4. UNCHANGED <<clock, noted, low_at, down_at>> /\ TimeT => TimeT'
  BY Zenon DEF TimeT
<1>5. QED
  BY <1>1, <1>2, <1>3, <1>4

LEMMA StampType ==
    ASSUME TypeOK, Times, NEW k \in Kinds
    PROVE  /\ Stamp(k) /\ link_up' \in BOOLEAN => WordT'
           /\ noted' = [noted EXCEPT ![k] = clock] /\ UNCHANGED <<clock, low_at, down_at>> => TimeT'
<1>1. clock \in Nat /\ clock <= MaxClock
  BY Consts DEF TypeOK
<1>2. Split(clock) \in [hi : 0 .. MaxClock, lo : 0 .. LowWord - 1]
  BY <1>1, Halving, Consts
<1>3. Stamp(k) /\ link_up' \in BOOLEAN => WordT'
  BY <1>2 DEF TypeOK, Stamp, WordT
<1>4. noted' = [noted EXCEPT ![k] = clock] /\ UNCHANGED <<clock, low_at, down_at>> => TimeT'
  BY <1>1 DEF TypeOK, Times, TimeT
<1>5. QED
  BY <1>3, <1>4

LEMMA SilenceType == ASSUME TypeOK, Times, NEW k \in Kinds PROVE Silence(k) \in Int
<1>1. noted["gnss"] \in Int /\ noted["caster"] \in Int /\ down_at \in Int /\ clock \in Int
  BY Sets DEF TypeOK, Times
<1>2. Silence("gnss") \in Int
  BY <1>1, Tables
<1>3. Silence("caster") \in Int
  BY <1>1, Tables
<1>4. Silence("ip") \in Int
  BY <1>1, Tables
<1>5. QED
  BY <1>2, <1>3, <1>4, Sets, Zenon

(* Every step keeps the types. *)
LEMMA TypeStep ==
    ASSUME TypeOK, Times, [Next]_vars, Running => heap_low_streak < HeapLow
    PROVE  TypeOK' /\ Times'
<1> USE Sets
<1>0. /\ clock \in Nat /\ clock <= MaxClock /\ wake \in Nat /\ WordT /\ WorldT /\ TaskT /\ TimeT
      /\ link_up \in BOOLEAN
  BY TypeParts, Consts DEF TaskT, TimeT, WordT
<1>1. CASE Frame
  <2>1. supervisor_note_gnss_rx /\ UNCHANGED <<clock, link_up, world, task, low_at, down_at>>
    BY <1>1, Zenon DEF Frame
  <2>2. WordT' /\ TimeT'
    BY <1>0, <2>1, StampType DEF supervisor_note_gnss_rx
  <2>3. QED
    BY <1>0, <2>1, <2>2, TypeFrames, TypePartsNext, Zenon
<1>2. CASE Ack
  <2>1. supervisor_note_gnss_rx /\ UNCHANGED <<clock, link_up, world, task, low_at, down_at>>
    BY <1>2, Zenon DEF Ack
  <2>2. WordT' /\ TimeT'
    BY <1>0, <2>1, StampType DEF supervisor_note_gnss_rx
  <2>3. QED
    BY <1>0, <2>1, <2>2, TypeFrames, TypePartsNext, Zenon
<1>3. CASE Send
  <2>1. supervisor_note_caster_tx(1) /\ UNCHANGED <<clock, link_up, world, task, low_at, down_at>>
    BY <1>3, Zenon DEF Send
  <2>2. \/ Stamp("caster") /\ noted' = [noted EXCEPT !["caster"] = clock]
        \/ UNCHANGED <<stamp, seen, noted>>
    BY <2>1, Zenon DEF supervisor_note_caster_tx
  <2>3. CASE Stamp("caster") /\ noted' = [noted EXCEPT !["caster"] = clock]
    <3>1. WordT' /\ TimeT'
      BY <1>0, <2>1, <2>3, StampType
    <3>2. QED
      BY <1>0, <2>1, <3>1, TypeFrames, TypePartsNext, Zenon
  <2>4. CASE UNCHANGED <<stamp, seen, noted>>
    BY <1>0, <2>1, <2>4, TypeFrames, TypePartsNext, Zenon DEF shared
  <2>5. QED
    BY <2>2, <2>3, <2>4
<1>4. CASE Handshake
  <2>1. supervisor_note_caster_tx(0) /\ UNCHANGED <<clock, link_up, world, task, low_at, down_at>>
    BY <1>4, Zenon DEF Handshake
  <2>2. \/ Stamp("caster") /\ noted' = [noted EXCEPT !["caster"] = clock]
        \/ UNCHANGED <<stamp, seen, noted>>
    BY <2>1, Zenon DEF supervisor_note_caster_tx
  <2>3. CASE Stamp("caster") /\ noted' = [noted EXCEPT !["caster"] = clock]
    <3>1. WordT' /\ TimeT'
      BY <1>0, <2>1, <2>3, StampType
    <3>2. QED
      BY <1>0, <2>1, <3>1, TypeFrames, TypePartsNext, Zenon
  <2>4. CASE UNCHANGED <<stamp, seen, noted>>
    BY <1>0, <2>1, <2>4, TypeFrames, TypePartsNext, Zenon DEF shared
  <2>5. QED
    BY <2>2, <2>3, <2>4
<1>5. CASE GotIp
  <2>1. /\ Stamp("ip") /\ link_up' = TRUE /\ down_at' = 0 /\ flips < MaxFlips
        /\ flips' = flips + 1
        /\ UNCHANGED <<clock, receiver, caster, heap_low, task, noted, low_at>>
    BY <1>5, Zenon DEF GotIp, Flip, supervisor_note_sta_ip
  <2>2. WordT'
    BY <2>1, StampType
  <2>3. WorldT' /\ TimeT'
    BY <1>0, <2>1, Consts DEF WorldT, TimeT
  <2>4. QED
    BY <1>0, <2>1, <2>2, <2>3, TypeFrames, TypePartsNext, Zenon
<1>6. CASE LostIp
  <2>1. /\ UNCHANGED <<stamp, seen>> /\ link_up' = FALSE /\ down_at' = clock /\ flips < MaxFlips
        /\ flips' = flips + 1
        /\ UNCHANGED <<clock, receiver, caster, heap_low, task, noted, low_at>>
    BY <1>6, Zenon DEF LostIp, Flip, supervisor_note_sta_ip
  <2>2. WordT'
    BY <1>0, <2>1 DEF WordT
  <2>3. WorldT' /\ TimeT'
    BY <1>0, <2>1, Consts DEF WorldT, TimeT
  <2>4. QED
    BY <1>0, <2>1, <2>2, <2>3, TypeFrames, TypePartsNext, Zenon
<1>7. CASE WorldChanges
  <2>1. /\ flips < MaxFlips /\ flips' = flips + 1
        /\ UNCHANGED <<clock, shared, task, noted, down_at>>
        /\ receiver' \in {"alive", "mute", "dead"} \cup {receiver}
        /\ caster' \in {"alive", "hollow", "dead"} \cup {caster}
    BY <1>7, Zenon DEF WorldChanges, Flip
  <2>2. heap_low' \in BOOLEAN /\ low_at' \in {low_at, 0, clock}
    <3>1. (heap_low' = heap_low /\ low_at' = low_at) \/ (heap_low' = ~heap_low /\ low_at' \in {0, clock})
      BY <1>7, Zenon DEF WorldChanges
    <3>2. QED
      BY <1>0, <3>1, Zenon DEF WorldT
  <2>3. WorldT' /\ TimeT'
    <3>1. flips' \in 0 .. MaxFlips
      BY <1>0, <2>1, Consts DEF WorldT
    <3>2. WorldT'
      BY <1>0, <2>1, <2>2, <3>1, Zenon DEF WorldT
    <3>3. TimeT'
      BY <1>0, <2>1, <2>2 DEF TimeT
    <3>4. QED
      BY <3>2, <3>3
  <2>4. QED
    BY <1>0, <2>1, <2>3, TypeFrames, TypePartsNext, Zenon
<1>8. CASE Tick
  <2>1. clock < MaxClock /\ clock' = clock + 1 /\ UNCHANGED <<shared, world, task, noted, low_at, down_at>>
    BY <1>8, Zenon DEF Tick, history
  <2>2. TimeT'
    BY <1>0, <2>1, Consts DEF TimeT
  <2>3. QED
    BY <1>0, <2>1, <2>2, TypeFrames, TypePartsNext, Zenon
<1>9. CASE WakeInGrace
  <2>1. wake' = clock + 1 /\ UNCHANGED <<pc, half, silent, link_fault, last_act, heap_low_streak>> /\ UNCHANGED <<clock, shared, world, noted, low_at, down_at>>
    BY <1>9, Zenon DEF WakeInGrace, history
  <2>2. TaskT'
    BY <1>0, <2>1, Consts DEF TaskT
  <2>3. QED
    BY <1>0, <2>1, <2>2, TypeFrames, TypePartsNext, Zenon
<1>10. CASE HeapGuard
  <2>1. /\ pc = "sleep" /\ heap_low_streak' = Streak /\ pc' \in {"reboot", "gnss"}
        /\ UNCHANGED <<wake, half, silent, link_fault, last_act>>
        /\ UNCHANGED <<clock, shared, world, noted, low_at, down_at>>
    BY <1>10, Zenon DEF HeapGuard, history
  <2>2. TaskT'
    BY <1>0, <2>1, Consts DEF TaskT, Streak, Running
  <2>3. QED
    BY <1>0, <2>1, <2>2, TypeFrames, TypePartsNext, Zenon
<1>11. CASE ReadHalf
  <2>1. /\ pc \in Kinds /\ UNCHANGED <<pc, wake, silent, link_fault, last_act, heap_low_streak>>
        /\ UNCHANGED <<clock, shared, world, noted, low_at, down_at>>
    BY <1>11, Zenon DEF ReadHalf, history
  <2>2. PICK w \in {"hi", "lo"} :
          half' = [word |-> w, val |-> stamp[pc][w], judged |-> Judged(pc), real |-> Silence(pc)]
    BY <1>11, Zenon DEF ReadHalf
  <2>3. stamp[pc].hi \in Nat /\ stamp[pc].lo \in Nat
    BY <1>0, <2>1, Consts DEF WordT
  <2>4. stamp[pc][w] \in Nat
    BY <2>2, <2>3, Zenon
  <2>5. Judged(pc) \in BOOLEAN
    BY DEF Judged
  <2>6. Silence(pc) \in Int
    BY <2>1, SilenceType
  <2>7. half' \in Halves
    BY <2>2, <2>4, <2>5, <2>6 DEF Halves
  <2>8. TaskT'
    BY <1>0, <2>1, <2>7, Zenon DEF TaskT
  <2>9. QED
    BY <1>0, <2>1, <2>8, TypeFrames, TypePartsNext, Zenon
<1>12. CASE ReadOther
  <2>1. /\ pc \in Kinds /\ half \in Halves /\ half' = NoHalf /\ pc' = After(pc)
        /\ UNCHANGED <<wake, link_fault, last_act, heap_low_streak>>
        /\ UNCHANGED <<clock, shared, world, noted, low_at, down_at>>
    BY <1>0, <1>12, Zenon DEF ReadOther, TaskT
  <2> DEFINE x == IF half.judged THEN Age(Word([stamp[pc] EXCEPT ![half.word] = half.val]))
                                 ELSE UnseenSilent(pc)
  <2>2. silent' = [silent EXCEPT ![pc] = x]
    BY <1>12, Zenon DEF ReadOther
  <2>3. x \in 0 .. AgeMod - 1
    <3>1. stamp[pc] \in [hi : Nat, lo : Nat] /\ half.val \in Nat /\ half.word \in {"hi", "lo"}
      BY <1>0, <2>1, Consts DEF WordT, Halves
    <3>2. /\ Word([stamp[pc] EXCEPT !["hi"] = half.val]) \in Int
          /\ Word([stamp[pc] EXCEPT !["lo"] = half.val]) \in Int
      BY <3>1, Consts DEF Word
    <3>3. Word([stamp[pc] EXCEPT ![half.word] = half.val]) \in Int
      BY <3>1, <3>2, Zenon
    <3>4. Age(Word([stamp[pc] EXCEPT ![half.word] = half.val])) \in 0 .. AgeMod - 1
      BY <3>3, AgeType DEF TypeOK
    <3>5. UnseenSilent(pc) \in 0 .. AgeMod - 1
      BY <1>0, Consts DEF UnseenSilent
    <3>6. QED
      BY <3>4, <3>5, Zenon
  <2> HIDE DEF x
  <2>4. silent' \in [Kinds -> 0 .. AgeMod - 1]
    BY <1>0, <2>1, <2>2, <2>3 DEF TaskT
  <2>5. pc' \in {"caster", "ip", "judge"}
    BY <2>1, Tables, Zenon
  <2>6. TaskT'
    BY <1>0, <2>1, <2>4, <2>5 DEF TaskT
  <2>7. QED
    BY <1>0, <2>1, <2>6, TypeFrames, TypePartsNext, Zenon
<1>13. CASE Judge
  <2>0. link_fault' \in BOOLEAN
    <3>1. link_fault' = (seen["ip"] /\ ~link_up /\ silent["ip"] >= ThLink)
      BY <1>13, Zenon DEF Judge
    <3>2. QED
      BY <3>1
  <2>1. /\ pc = "judge" /\ pc' \in {"reboot", "wifi"}
        /\ UNCHANGED <<wake, half, silent, last_act, heap_low_streak>>
        /\ UNCHANGED <<clock, shared, world, noted, low_at, down_at>>
    BY <1>13, Zenon DEF Judge, history
  <2>2. TaskT'
    BY <1>0, <2>0, <2>1, Consts DEF TaskT
  <2>3. QED
    BY <1>0, <2>1, <2>2, TypeFrames, TypePartsNext, Zenon
<1>14. CASE WifiRung
  <2>1. /\ pc = "wifi" /\ pc' = "reconnect"
        /\ UNCHANGED <<clock, world, wake, half, silent, link_fault>>
        /\ UNCHANGED <<heap_low_streak, noted, low_at, stamp, seen>>
        /\ link_up' \in {link_up, FALSE} /\ down_at' \in {down_at, clock}
        /\ last_act' = last_act \/ last_act' = [last_act EXCEPT !["link"] = clock]
    BY <1>14, Zenon DEF WifiRung, Act, supervisor_note_sta_ip, shared
  <2>2. TaskT'
    BY <1>0, <2>1, Consts DEF TaskT
  <2>3. WordT' /\ TimeT'
    BY <1>0, <2>1 DEF WordT, TimeT
  <2>4. QED
    BY <1>0, <2>1, <2>2, <2>3, TypeFrames, TypePartsNext, Zenon
<1>15. CASE CasterRung
  <2>1. /\ pc = "reconnect" /\ pc' = "receiver"
        /\ UNCHANGED <<wake, half, silent, link_fault, heap_low_streak>>
        /\ last_act' = last_act \/ last_act' = [last_act EXCEPT !["caster"] = clock]
        /\ UNCHANGED <<clock, shared, world, noted, low_at, down_at>>
    BY <1>15, Zenon DEF CasterRung, Act, history
  <2>2. TaskT'
    BY <1>0, <2>1, Consts DEF TaskT
  <2>3. QED
    BY <1>0, <2>1, <2>2, TypeFrames, TypePartsNext, Zenon
<1>16. CASE GnssRung
  <2>1. /\ pc = "receiver" /\ pc' \in {"recover", "sleep"}
        /\ UNCHANGED <<half, heap_low_streak>>
        /\ silent' = [k \in Kinds |-> 0] /\ link_fault' = FALSE
        /\ last_act' = last_act \/ last_act' = [last_act EXCEPT !["gnss"] = clock]
        /\ wake' \in {clock + RecoverS, clock + 1}
        /\ UNCHANGED <<clock, shared, world, noted, low_at, down_at>>
    BY <1>16, Zenon DEF GnssRung, Act, PassEnds
  <2>2. wake' \in Nat /\ silent' \in [Kinds -> 0 .. AgeMod - 1]
    BY <1>0, <2>1, Consts
  <2>3. last_act' \in [Rungs -> 0 .. MaxClock] /\ half' = NoHalf
    BY <1>0, <2>1 DEF TaskT
  <2>4. TaskT'
    BY <1>0, <2>1, <2>2, <2>3 DEF TaskT
  <2>5. QED
    BY <1>0, <2>1, <2>4, TypeFrames, TypePartsNext, Zenon
<1>17. CASE RecoverEnds
  <2>1. pc = "recover" /\ pc' = "sleep" /\ wake' = clock + 1 /\ UNCHANGED <<half, silent, link_fault, last_act, heap_low_streak>> /\ UNCHANGED <<clock, shared, world, noted, low_at, down_at>>
    BY <1>17, Zenon DEF RecoverEnds, history
  <2>2. TaskT'
    BY <1>0, <2>1, Consts DEF TaskT
  <2>3. QED
    BY <1>0, <2>1, <2>2, TypeFrames, TypePartsNext, Zenon
<1>18. CASE UNCHANGED vars
  BY <1>0, <1>18, TypeFrames, TypePartsNext, Zenon DEF vars, history
<1>19. QED
  BY <1>1, <1>2, <1>3, <1>4, <1>5, <1>6, <1>7, <1>8, <1>9, <1>10, <1>11, <1>12, <1>13, <1>14,
     <1>15, <1>16, <1>17, <1>18
  DEF Next, HotPaths, Pass

-----------------------------------------------------------------------------
(* A note writes the word and its time; nothing else does. *)
LEMMA WordStep == ASSUME TypeOK, Times, Words, [Next]_vars PROVE Words'
<1>1. CASE HotPaths \/ WorldChanges
  <2>1. \A k \in Heard : Kept(k) \/ NotedNow(k)
    BY <1>1, NotingSteps, Zenon DEF Noting
  <2>2. clock' = clock
    BY <1>1, NotingSteps, Zenon DEF Noting
  <2>3. QED
    BY <2>1, <2>2, Zenon DEF Words, Kept, NotedNow, Split
<1>2. CASE Tick \/ Pass
  BY <1>2, PassKeeps, Zenon DEF Words, Split
<1>3. CASE UNCHANGED vars
  BY <1>3, Zenon DEF Words, Split, vars, shared, history
<1>4. QED
  BY <1>1, <1>2, <1>3, Zenon DEF Next

(* A note while a word is being read is the second alternative of HalfRead. *)
LEMMA HalfStep ==
    ASSUME TypeOK, Times, Words, Running => HalfRead, [Next]_vars, pc' # "reboot"
    PROVE  HalfRead'
<1>0. noted["gnss"] \in 0 .. clock /\ noted["caster"] \in 0 .. clock /\ clock \in Nat
  BY Sets DEF Times, TypeOK
<1>1. CASE HotPaths \/ WorldChanges
  <2>1. Running /\ UNCHANGED <<clock, pc, half>> /\ \A k \in Heard : Kept(k) \/ NotedNow(k)
    BY <1>1, NotingSteps, Zenon DEF Noting
  <2>2. HalfRead
    BY <2>1
  <2>3. QED
    BY <2>1, <2>2, Zenon DEF HalfRead, Kept, NotedNow, Split, UnseenSilent
<1>2. CASE ReadHalf
  <2>1. pc \in Kinds /\ UNCHANGED <<clock, pc, seen, noted, stamp>>
    BY <1>2, Zenon DEF ReadHalf, shared, history
  <2>2. PICK w \in {"hi", "lo"} :
          half' = [word |-> w, val |-> stamp[pc][w], judged |-> Judged(pc), real |-> Silence(pc)]
    BY <1>2, Zenon DEF ReadHalf
  <2>3. half'.word = w /\ half'.val = stamp[pc][w] /\ half'.judged = Judged(pc) /\ half'.real = Silence(pc)
    BY <2>2
  <2>4. ASSUME NEW k \in Heard, pc = k
        PROVE  /\ IF half'.judged
                  THEN /\ half'.real \in 0 .. clock
                       /\ half'.word = "hi" => half'.val = Split(clock - half'.real).hi
                       /\ half'.word = "lo" => half'.val = Split(clock - half'.real).lo
                  ELSE half'.real = UnseenSilent(k)
               /\ half'.judged = seen[k] /\ (seen[k] => noted[k] = clock - half'.real)
    <3>1. half'.judged = seen[k] /\ noted[k] \in 0 .. clock /\ k \in Kinds
      BY <1>0, <2>3, <2>4, JudgedIs, Sets, Zenon
    <3>2. CASE seen[k]
      <4>1. Silence(k) = clock - noted[k] /\ stamp[k] = Split(noted[k])
        BY <2>4, <3>2, Sets, Tables, Zenon DEF Words
      <4>2. half'.real \in 0 .. clock /\ clock - half'.real = noted[k]
        <5>1. half'.real = clock - noted[k]
          BY <2>3, <2>4, <4>1, Zenon
        <5>2. QED
          BY <1>0, <3>1, <5>1
      <4>3. half'.val = Split(noted[k])[half'.word]
        BY <2>3, <2>4, <4>1, Zenon
      <4>4. /\ half'.word = "hi" => half'.val = Split(noted[k]).hi
            /\ half'.word = "lo" => half'.val = Split(noted[k]).lo
        BY <4>3, Zenon
      <4>5. QED
        BY <3>1, <3>2, <4>2, <4>4, Zenon
    <3>3. CASE ~seen[k]
      <4>1. noted[k] = 0
        BY <2>4, <3>3, Zenon DEF Words
      <4>2. Silence(k) = UnseenSilent(k)
        <5>1. clock - 0 = clock
          BY <1>0
        <5>2. QED
          BY <2>4, <3>3, <4>1, <5>1, Sets, Tables, Zenon
      <4>3. QED
        BY <2>3, <2>4, <3>1, <3>3, <4>2, Zenon
    <3>4. QED
      BY <3>2, <3>3
  <2>5. QED
    BY <2>1, <2>4, Zenon DEF HalfRead, Split, UnseenSilent
<1>3. CASE Tick \/ (Pass /\ ~ReadHalf)
  <2>1. half' = NoHalf
    <3>1. CASE ReadOther
      BY <3>1, Zenon DEF ReadOther
    <3>2. CASE Tick \/ (Pass /\ ~ReadHalf /\ ~ReadOther)
      <4>1. half' = half
        BY <3>2, Zenon DEF Tick, Pass, task, WakeInGrace, HeapGuard, Judge, WifiRung,
           CasterRung,
                           GnssRung, RecoverEnds
      <4>2. pc \notin Kinds
        BY <3>2, Sets DEF Tick, Pass, WakeInGrace, HeapGuard, Judge, WifiRung, CasterRung,
                          GnssRung, RecoverEnds
      <4>3. QED
        BY <4>1, <4>2, Zenon DEF Times
    <3>3. QED
      BY <1>3, <3>1, <3>2
  <2>2. QED
    BY <2>1, Zenon DEF HalfRead, NoHalf
<1>4. CASE UNCHANGED vars
  <2>1. UNCHANGED <<clock, pc, half, seen, noted>>
    BY <1>4, Zenon DEF vars, shared, task, history
  <2>2. QED
    BY <2>1, Zenon DEF Running, HalfRead, Split, UnseenSilent
<1>5. QED
  BY <1>1, <1>2, <1>3, <1>4, Zenon DEF Next

(* What the second load makes of a word: the age of the note it was read under,
   or of the one that came since, or a mixture of two that differ in the high
   half. *)
LEMMA ReadTells ==
    ASSUME TypeOK, Times, Words, HalfRead, NEW k \in Heard, pc = k, half \in Halves,
           NEW x, x = IF half.judged THEN Age(Word([stamp[k] EXCEPT ![half.word] = half.val]))
                                     ELSE UnseenSilent(k)
    PROVE  /\ \/ x = IF seen[k] THEN clock - noted[k] ELSE UnseenSilent(k)
              \/ seen[k] /\ noted[k] = clock
           /\ \/ x \in {half.real, Silence(k)}
              \/ Split(clock - half.real).hi # Split(clock - Silence(k)).hi
<1>0. /\ clock \in Nat /\ clock \in 0 .. MaxClock /\ noted[k] \in 0 .. clock /\ k \in Kinds
      /\ half.judged \in BOOLEAN /\ half.word \in {"hi", "lo"} /\ half.val \in Nat
      /\ seen[k] \in BOOLEAN
      /\ half # NoHalf
  BY Sets DEF TypeOK, Times, Halves, NoHalf
<1> DEFINE r == half.real
<1>1. /\ IF half.judged
         THEN /\ r \in 0 .. clock
              /\ half.word = "hi" => half.val = Split(clock - r).hi
              /\ half.word = "lo" => half.val = Split(clock - r).lo
         ELSE r = UnseenSilent(k)
      /\ \/ half.judged = seen[k] /\ (seen[k] => noted[k] = clock - r)
         \/ seen[k] /\ noted[k] = clock
  BY <1>0, Zenon DEF HalfRead
<1>2. seen[k] => Silence(k) = clock - noted[k]
  BY Sets, Tables, Zenon
<1>3. CASE ~half.judged
  <2>1. x = UnseenSilent(k) /\ x = r
    BY <1>1, <1>3, Zenon
  <2>2. QED
    BY <1>1, <1>3, <2>1, Zenon
<1>4. CASE half.judged
  <2>1. seen[k] /\ r \in 0 .. clock /\ stamp[k] = Split(noted[k])
    BY <1>1, <1>4, Zenon DEF Words
  <2> DEFINE a == clock - r
             b == noted[k]
  <2>2. a \in Nat /\ b \in Nat /\ a \in 0 .. clock /\ b \in 0 .. clock /\ clock - a = r
    BY <1>0, <2>1
  <2>3. clock - Silence(k) = b
    BY <1>0, <1>2, <2>1
  <2>4. /\ half.word = "hi" => half.val = Split(a).hi
        /\ half.word = "lo" => half.val = Split(a).lo
    BY <1>1, <1>4, Zenon
  <2>5. x = Age(Word([Split(b) EXCEPT ![half.word] = half.val]))
    BY <1>4, <2>1, Zenon
  <2>6. CASE Split(a).hi # Split(b).hi
    <3>1. a # b
      BY <2>6, Zenon
    <3>2. b = clock
      BY <1>1, <2>1, <3>1, Zenon
    <3>3. QED
      BY <2>1, <2>3, <2>6, <3>2, Zenon
  <2>7. CASE Split(a).hi = Split(b).hi
    <3>1. /\ Split(a).hi \in Nat /\ Split(a).lo \in Nat /\ Split(b).lo \in Nat
          /\ Split(a).hi * LowWord + Split(a).lo = a
          /\ Split(b).hi * LowWord + Split(b).lo = b
      BY <2>2, Halving, Consts
    <3>2. x = clock - a \/ x = clock - b
      <4>1. CASE half.word = "hi"
        <5>1. Word([Split(b) EXCEPT !["hi"] = half.val]) = half.val * LowWord + Split(b).lo
          BY <1>0, <2>2, Mixed, Zenon
        <5>2. half.val * LowWord + Split(b).lo = b
          BY <2>4, <2>7, <3>1, <4>1, Zenon
        <5>3. x = Age(b)
          BY <2>5, <4>1, <5>1, <5>2, Zenon
        <5>4. QED
          BY <1>0, <2>2, <5>3, AgeIs, Zenon
      <4>2. CASE half.word = "lo"
        <5>1. Word([Split(b) EXCEPT !["lo"] = half.val]) = Split(b).hi * LowWord + half.val
          BY <1>0, <2>2, Mixed, ZenonT(30)
        <5>2. Split(b).hi * LowWord + half.val = a
          BY <2>4, <2>7, <3>1, <4>2, Zenon
        <5>3. x = Age(a)
          BY <2>5, <4>2, <5>1, <5>2, Zenon
        <5>4. QED
          BY <1>0, <2>2, <5>3, AgeIs, Zenon
      <4>3. QED
        BY <1>0, <4>1, <4>2
    <3>3. x = r \/ x = Silence(k)
      BY <1>2, <2>1, <2>2, <3>2, Zenon
    <3>4. x = clock - b \/ b = clock
      BY <1>1, <2>1, <3>2, Zenon
    <3>5. QED
      BY <2>1, <3>3, <3>4, Zenon
  <2>8. QED
    BY <2>6, <2>7
<1>5. QED
  BY <1>0, <1>3, <1>4

(* The ages a read is compared with are numbers. *)
LEMMA TruthStep == ASSUME TypeOK, Times, Truths, [Next]_vars PROVE Truths'
<1>1. CASE ReadOther
  <2>1. pc \in Kinds /\ half \in Halves /\ truth' = [truth EXCEPT ![pc] = {half.real, Silence(pc)}]
    BY <1>1, Zenon DEF ReadOther, Times
  <2>2. half.real \in Int
    BY <2>1 DEF Halves
  <2>3. Silence(pc) \in Int
    BY <2>1, SilenceType
  <2>4. QED
    BY <2>1, <2>2, <2>3 DEF Truths
<1>2. CASE GnssRung
  <2>1. truth' = [k \in Kinds |-> {0}]
    BY <1>2, Zenon DEF GnssRung, PassEnds
  <2>2. QED
    BY <2>1 DEF Truths
<1>3. CASE HotPaths \/ WorldChanges \/ UNCHANGED vars
  BY <1>3, NotingSteps, Zenon DEF Noting, Truths, vars, history
<1>4. CASE Tick \/ (Pass /\ ~ReadOther /\ ~GnssRung)
  <2>1. truth' = truth
    BY <1>4, Zenon DEF Tick, Pass, WakeInGrace, HeapGuard, ReadHalf, Judge, WifiRung,
       CasterRung,
                       RecoverEnds, history
  <2>2. QED
    BY <2>1, Zenon DEF Truths
<1>5. QED
  BY <1>1, <1>2, <1>3, <1>4, Zenon DEF Next

(* What a word told stays true while the pass lasts: a later note is the
   exception it allows. *)
LEMMA ToldStays ==
    ASSUME NEW k \in Heard, Told(k), clock' = clock, silent'[k] = silent[k], truth'[k] = truth[k],
           Kept(k) \/ NotedNow(k)
    PROVE  Told(k)'
<1>1. Torn(k) => Torn(k)'
  BY Zenon DEF Torn, Split
<1>2. CASE Kept(k)
  BY <1>1, <1>2, Zenon DEF Told, Kept, UnseenSilent
<1>3. CASE NotedNow(k)
  BY <1>1, <1>3, Zenon DEF Told, NotedNow
<1>4. QED
  BY <1>2, <1>3

LEMMA ReadStep ==
    ASSUME TypeOK, Times, Truths, Words, Running => HalfRead /\ ReadSoFar, [Next]_vars, pc' # "reboot"
    PROVE  ReadSoFar'
<1>1. CASE HotPaths \/ WorldChanges
  <2>1. /\ Running /\ UNCHANGED <<clock, pc, silent, truth>>
        /\ \A k \in Heard : Kept(k) \/ NotedNow(k)
    BY <1>1, NotingSteps, Zenon DEF Noting
  <2>2. \A k \in Heard : Told(k) => Told(k)'
    BY <2>1, ToldStays, Zenon
  <2>3. QED
    BY <2>1, <2>2, Sets, Zenon DEF ReadSoFar
<1>2. CASE ReadOther
  <2>1. /\ pc \in Kinds /\ half \in Halves /\ pc' = After(pc) /\ Running
        /\ UNCHANGED <<clock, stamp, seen, noted>>
        /\ truth' = [truth EXCEPT ![pc] = {half.real, Silence(pc)}]
    <3>1. pc \in Kinds /\ Running
      BY <1>2, Sets DEF ReadOther, Running
    <3>2. QED
      BY <1>2, <3>1, Zenon DEF ReadOther, Times, shared
  <2> DEFINE x == IF half.judged THEN Age(Word([stamp[pc] EXCEPT ![half.word] = half.val]))
                                 ELSE UnseenSilent(pc)
  <2>2. silent' = [silent EXCEPT ![pc] = x]
    BY <1>2, Zenon DEF ReadOther
  <2>3. ASSUME NEW k \in Heard, pc = k PROVE Told(k)'
    <3>0. truth' = [truth EXCEPT ![k] = {half.real, Silence(k)}] /\ silent' = [silent EXCEPT ![k] = x]
      BY <2>1, <2>2, <2>3, Zenon
    <3>1. k \in Kinds /\ silent'[k] = x
      <4>1. k \in Kinds /\ k \in DOMAIN silent
        BY <2>3, Sets DEF TypeOK
      <4>2. QED
        BY <3>0, <4>1, Zenon
    <3>2. PICK v : v = x
      OBVIOUS
    <3>3. /\ \/ v = IF seen[k] THEN clock - noted[k] ELSE UnseenSilent(k)
             \/ seen[k] /\ noted[k] = clock
          /\ \/ v \in {half.real, Silence(k)}
             \/ Split(clock - half.real).hi # Split(clock - Silence(k)).hi
      BY <2>1, <2>3, <3>2, ReadTells, Zenon
    <3>4. truth'[k] = {half.real, Silence(k)}
      BY <3>0, <3>1, Zenon DEF Truths
    <3>5. PICK u, y : u = half.real /\ y = Silence(k)
      OBVIOUS
    <3>6. Split(clock - u).hi # Split(clock - y).hi => Torn(k)'
      BY <2>1, <3>4, <3>5, Zenon DEF Torn, Split
    <3>7. v \in {u, y} => v \in truth'[k]
      BY <3>4, <3>5, Zenon
    <3>8. QED
      BY <2>1, <3>1, <3>2, <3>3, <3>5, <3>6, <3>7, Zenon DEF Told, UnseenSilent
  <2>4. ASSUME NEW k \in Heard, pc # k, Told(k) PROVE Told(k)'
    <3>1. silent'[k] = silent[k] /\ truth'[k] = truth[k]
      BY <2>1, <2>2, <2>4, Sets DEF TypeOK, Truths
    <3>2. QED
      BY <2>1, <2>4, <3>1, ToldStays, Zenon DEF Kept
  <2>5. CASE pc = "gnss"
    BY <2>1, <2>3, <2>5, Sets, Tables DEF ReadSoFar
  <2>6. CASE pc = "caster"
    <3>1. Told("gnss")' /\ Told("caster")'
      BY <2>1, <2>3, <2>4, <2>6, Sets DEF ReadSoFar
    <3>2. QED
      BY <3>1, Zenon DEF ReadSoFar
  <2>7. CASE pc = "ip"
    <3>1. Told("gnss")' /\ Told("caster")'
      BY <2>1, <2>4, <2>7, Sets DEF ReadSoFar
    <3>2. QED
      BY <3>1, Zenon DEF ReadSoFar
  <2>8. QED
    BY <2>1, <2>5, <2>6, <2>7, Sets
<1>3. CASE ReadHalf \/ Judge \/ WifiRung \/ CasterRung
  <2>1. Running /\ UNCHANGED <<clock, silent, truth, stamp, seen, noted>>
    <3>1. UNCHANGED <<silent, truth, clock>>
      BY <1>3, Zenon DEF ReadHalf, Judge, WifiRung, CasterRung, history
    <3>2. Running /\ UNCHANGED <<stamp, seen, noted>>
      BY <1>3, PassKeeps, Zenon DEF Pass
    <3>3. QED
      BY <3>1, <3>2
  <2>2. \A k \in Heard : Told(k) => Told(k)'
    BY <2>1, ToldStays, Zenon DEF Kept
  <2>3. /\ pc' \in {"caster", "ip"} \cup Judging => pc \in {"caster", "ip"} \cup Judging
        /\ pc' \in {"ip"} \cup Judging => pc \in {"ip"} \cup Judging
    BY <1>3, Sets DEF ReadHalf, Judge, WifiRung, CasterRung
  <2>4. QED
    BY <2>1, <2>2, <2>3, Sets, Zenon DEF ReadSoFar
<1>4. CASE Tick \/ WakeInGrace \/ HeapGuard \/ GnssRung \/ RecoverEnds
  <2>1. pc' \in {"sleep", "recover", "gnss"}
    <3>1. CASE Tick
      BY <3>1 DEF Tick, task
    <3>2. CASE WakeInGrace \/ HeapGuard \/ GnssRung \/ RecoverEnds
      BY <3>2 DEF WakeInGrace, HeapGuard, GnssRung, RecoverEnds
    <3>3. QED
      BY <1>4, <3>1, <3>2
  <2>2. QED
    BY <2>1, Sets DEF ReadSoFar
<1>5. CASE UNCHANGED vars
  <2>1. UNCHANGED <<clock, silent, truth, stamp, seen, noted, pc>>
    BY <1>5, Zenon DEF vars, shared, task, history
  <2>2. \A k \in Heard : Told(k) => Told(k)'
    BY <2>1, ToldStays, Zenon DEF Kept
  <2>3. QED
    BY <2>1, <2>2, Sets, Zenon DEF ReadSoFar, Running
<1>6. QED
  BY <1>1, <1>2, <1>3, <1>4, <1>5, Zenon DEF Next, Pass

-----------------------------------------------------------------------------
(* A pass that held at t held at every time before. *)
LEMMA PassedBefore ==
    ASSUME TypeOK, Times, NEW t \in Int, NEW u \in Int, u <= t, Passed(t)
    PROVE  Passed(u)
<1>1. /\ last_act["caster"] \in Int /\ last_act["gnss"] \in Int
      /\ noted["caster"] \in Int /\ noted["gnss"] \in Int
  BY Sets DEF TypeOK, Times
<1>2. QED
  BY <1>1, Consts DEF Passed, CasterPassed, GnssPassed, WedgePassed

(* Notes and rungs come after t: they only help. *)
LEMMA PassedStays ==
    ASSUME TypeOK, Times, NEW t \in Int, t <= clock,
           \A k \in Heard : Kept(k) \/ NotedNow(k),
           \A r \in {"caster", "gnss"} : last_act'[r] \in {last_act[r], clock}
    PROVE  /\ CasterPassed(t) => CasterPassed(t)'
           /\ GnssPassed(t) => GnssPassed(t)'
           /\ WedgePassed(t) => WedgePassed(t)'
<1>1. /\ last_act["caster"] \in Int /\ last_act["gnss"] \in Int /\ clock \in Int
      /\ noted["caster"] \in Int /\ noted["gnss"] \in Int
  BY Sets DEF TypeOK, Times
<1>2. /\ last_act'["caster"] = last_act["caster"] \/ last_act'["caster"] = clock
      /\ last_act'["gnss"] = last_act["gnss"] \/ last_act'["gnss"] = clock
  OBVIOUS
<1>3. /\ ((seen'["caster"] => seen["caster"]) /\ noted'["caster"] = noted["caster"]) \/ noted'["caster"] = clock
      /\ noted'["gnss"] = noted["gnss"] \/ noted'["gnss"] = clock
  BY Sets, Zenon DEF Kept, NotedNow
<1>4. CasterPassed(t) => CasterPassed(t)'
  BY <1>1, <1>2, <1>3, Consts DEF CasterPassed
<1>5. GnssPassed(t) => GnssPassed(t)'
  BY <1>1, <1>2, <1>3, Consts DEF GnssPassed
<1>6. WedgePassed(t) => WedgePassed(t)'
  BY <1>1, <1>3, Consts DEF WedgePassed
<1>7. QED
  BY <1>4, <1>5, <1>6

(* What the rungs do to the marks of the last actions. *)
LEMMA RungActs ==
    ASSUME TypeOK, [Next]_vars
    PROVE  /\ \A r \in {"caster", "gnss"} : last_act'[r] \in {last_act[r], clock}
           /\ ~GnssRung => last_act'["gnss"] = last_act["gnss"]
           /\ ~GnssRung /\ ~CasterRung => last_act'["caster"] = last_act["caster"]
<1>1. CASE WifiRung \/ CasterRung \/ GnssRung
  <2>1. last_act \in [Rungs -> 0 .. MaxClock]
    BY DEF TypeOK
  <2>2. CASE WifiRung
    <3>1. last_act' = last_act \/ last_act' = [last_act EXCEPT !["link"] = clock]
      BY <2>2, Zenon DEF WifiRung, Act
    <3>2. QED
      BY <2>1, <3>1, Sets
  <2>3. CASE CasterRung
    <3>1. last_act' = last_act \/ last_act' = [last_act EXCEPT !["caster"] = clock]
      BY <2>3, Zenon DEF CasterRung, Act
    <3>2. QED
      BY <2>1, <2>3, <3>1, Sets
  <2>4. CASE GnssRung
    <3>1. last_act' = last_act \/ last_act' = [last_act EXCEPT !["gnss"] = clock]
      BY <2>4, Zenon DEF GnssRung, Act
    <3>2. QED
      BY <2>1, <2>4, <3>1, Sets
  <2>5. QED
    BY <1>1, <2>2, <2>3, <2>4
<1>2. CASE [Next]_vars /\ ~WifiRung /\ ~CasterRung /\ ~GnssRung
  <2>1. last_act' = last_act
    BY <1>2, Zenon DEF Next, HotPaths, Pass, Frame, Ack, Send, Handshake, GotIp, LostIp,
       WorldChanges,
                       Tick, WakeInGrace, HeapGuard, ReadHalf, ReadOther, Judge, RecoverEnds, vars, task
  <2>2. QED
    BY <2>1, Zenon
<1>3. QED
  BY <1>1, <1>2

(* Rung 4 has looked at a wedge, rung 2 has answered a dead caster. *)
LEMMA ClimbStep ==
    ASSUME TypeOK, Times, Running => ReadSoFar /\ Climbed, [Next]_vars, pc' # "reboot"
    PROVE  Climbed'
<1>0. /\ clock \in Nat /\ noted["gnss"] \in 0 .. clock /\ noted["caster"] \in 0 .. clock
      /\ last_act["caster"] \in Int /\ silent["gnss"] \in Int /\ silent["caster"] \in Int
  BY Sets DEF TypeOK, Times
<1>1. CASE HotPaths \/ WorldChanges
  <2>1. Running /\ UNCHANGED <<clock, pc>> /\ \A k \in Heard : Kept(k) \/ NotedNow(k)
    BY <1>1, NotingSteps, Zenon DEF Noting
  <2>2. PICK t : t = clock
    OBVIOUS
  <2>3. t \in Int /\ t <= clock
    BY <1>0, <2>2
  <2>4. (CasterPassed(t) => CasterPassed(t)') /\ (WedgePassed(t) => WedgePassed(t)')
    BY <2>1, <2>3, PassedStays, RungActs
  <2>5. QED
    BY <2>1, <2>2, <2>4, Zenon DEF Climbed, CasterPassed, WedgePassed
<1>2. CASE Judge
  <2>1. pc = "judge" /\ pc' = "wifi" /\ ~Wedged /\ Running /\ UNCHANGED <<clock, seen, noted>>
    BY <1>2 DEF Judge, Running, shared, history
  <2>2. Told("gnss") /\ Told("caster")
    BY <2>1, Sets DEF ReadSoFar
  <2>3. ASSUME seen["caster"], clock - noted["caster"] >= ThWedge, clock - noted["gnss"] >= ThWedge
        PROVE  FALSE
    <3>1. noted["caster"] # clock /\ noted["gnss"] # clock
      BY <1>0, <2>3, Consts
    <3>2. silent["caster"] = clock - noted["caster"]
      BY <2>2, <2>3, <3>1, Zenon DEF Told
    <3>3. silent["gnss"] = clock - noted["gnss"] \/ silent["gnss"] = clock
      BY <2>2, <3>1, Tables, Zenon DEF Told
    <3>4. silent["gnss"] >= ThWedge
      BY <1>0, <2>3, <3>3, Consts
    <3>5. QED
      BY <2>1, <2>3, <3>2, <3>4, <1>0, Consts DEF Wedged, CasterFault
  <2>4. WedgePassed(clock)
    BY <1>0, <2>3, Consts DEF WedgePassed
  <2>5. QED
    BY <2>1, <2>4 DEF Climbed, WedgePassed
<1>3. CASE WifiRung
  <2>1. pc = "wifi" /\ pc' = "reconnect" /\ clock' = clock
    BY <1>3, Zenon DEF WifiRung
  <2>2. Running /\ UNCHANGED <<seen, noted>>
    BY <1>3, PassKeeps, Zenon DEF Pass
  <2>3. QED
    BY <2>1, <2>2 DEF Climbed, WedgePassed
<1>4. CASE CasterRung
  <2>1. /\ pc = "reconnect" /\ pc' = "receiver" /\ Running
        /\ UNCHANGED <<clock, seen, noted>>
    BY <1>4 DEF CasterRung, Running, shared, history
  <2>2. WedgePassed(clock) /\ Told("caster")
    BY <2>1, Sets DEF Climbed, ReadSoFar
  <2>3. CASE CasterFault /\ Due("caster", DebCaster) /\ Act("caster")
    <3>1. last_act'["caster"] = clock
      BY <2>3, Sets DEF Act, TypeOK
    <3>2. CasterPassed(clock)'
      BY <1>0, <2>1, <3>1, Consts DEF CasterPassed
    <3>3. QED
      BY <2>1, <2>2, <3>2 DEF Climbed, WedgePassed
  <2>4. CASE ~(CasterFault /\ Due("caster", DebCaster)) /\ last_act' = last_act
    <3>1. CASE ~Due("caster", DebCaster)
      <4>1. CasterPassed(clock)'
        BY <1>0, <2>1, <2>4, <3>1, Consts DEF CasterPassed, Due
      <4>2. QED
        BY <2>1, <2>2, <4>1 DEF Climbed, WedgePassed
    <3>2. CASE ~CasterFault
      <4>1. silent["caster"] < ThCaster
        BY <1>0, <3>2, Consts DEF CasterFault
      <4>2. seen["caster"] => silent["caster"] = clock - noted["caster"] \/ noted["caster"] = clock
        BY <2>2, Zenon DEF Told
      <4>3. seen["caster"] => clock - noted["caster"] < ThCaster
        BY <1>0, <4>1, <4>2, Consts
      <4>4. CasterPassed(clock)'
        BY <2>1, <4>3 DEF CasterPassed
      <4>5. QED
        BY <2>1, <2>2, <4>4 DEF Climbed, WedgePassed
    <3>3. QED
      BY <2>4, <3>1, <3>2
  <2>5. QED
    BY <1>4, <2>3, <2>4, Zenon DEF CasterRung
<1>5. CASE Tick \/ WakeInGrace \/ HeapGuard \/ ReadHalf \/ ReadOther \/ GnssRung \/ RecoverEnds
  <2>1. pc' \notin {"wifi", "reconnect", "receiver"}
    <3>1. CASE Tick
      BY <3>1 DEF Tick, task
    <3>2. CASE WakeInGrace \/ HeapGuard \/ ReadHalf \/ GnssRung \/ RecoverEnds
      BY <3>2, Sets DEF WakeInGrace, HeapGuard, ReadHalf, GnssRung, RecoverEnds
    <3>3. CASE ReadOther
      <4>1. pc \in Kinds /\ pc' = After(pc)
        BY <3>3, Zenon DEF ReadOther
      <4>2. pc' \in {"caster", "ip", "judge"}
        BY <4>1, Sets, Tables, Zenon
      <4>3. QED
        BY <4>2
    <3>4. QED
      BY <1>5, <3>1, <3>2, <3>3
  <2>2. QED
    BY <2>1 DEF Climbed
<1>6. CASE UNCHANGED vars
  <2>1. UNCHANGED <<pc, clock, seen, noted, last_act>>
    BY <1>6, Zenon DEF vars, shared, task, history
  <2>2. QED
    BY <2>1, Zenon DEF Climbed, Running, CasterPassed, WedgePassed
<1>7. QED
  BY <1>1, <1>2, <1>3, <1>4, <1>5, <1>6, Zenon DEF Next, Pass

(* Rung 1: with it the pass is complete. *)
LEMMA PassDone ==
    ASSUME TypeOK, Times, ReadSoFar, Climbed, GnssRung, NEW t \in Int, t <= clock
    PROVE  Passed(t)'
<1>0. /\ clock \in Nat /\ noted["gnss"] \in 0 .. clock /\ noted["caster"] \in 0 .. clock
      /\ last_act["gnss"] \in Int /\ last_act["caster"] \in Int /\ silent["gnss"] \in Int
  BY Sets DEF TypeOK, Times
<1>1. pc = "receiver" /\ UNCHANGED <<clock, seen, noted>>
  BY Zenon DEF GnssRung, shared
<1>2. WedgePassed(clock) /\ CasterPassed(clock) /\ Told("gnss")
  BY <1>1, Sets DEF Climbed, ReadSoFar
<1>3. last_act'["caster"] = last_act["caster"]
  <2>1. last_act' = last_act \/ last_act' = [last_act EXCEPT !["gnss"] = clock]
    BY Zenon DEF GnssRung, Act
  <2>2. QED
    BY <2>1, Sets DEF TypeOK
<1>4. GnssPassed(t)'
  <2>1. CASE GnssFault /\ Due("gnss", DebGnss) /\ Act("gnss")
    <3>1. last_act'["gnss"] = clock
      BY <2>1, Sets DEF Act, TypeOK
    <3>2. QED
      BY <1>0, <3>1, Consts DEF GnssPassed
  <2>2. CASE ~Due("gnss", DebGnss) /\ last_act' = last_act
    BY <1>0, <2>2, Consts DEF GnssPassed, Due
  <2>3. CASE ~GnssFault /\ last_act' = last_act
    <3>1. silent["gnss"] < ThGnss
      BY <1>0, <2>3, Consts DEF GnssFault
    <3>2. silent["gnss"] = clock - noted["gnss"] \/ silent["gnss"] = clock \/ noted["gnss"] = clock
      BY <1>2, Tables, Zenon DEF Told
    <3>3. t - noted["gnss"] < ThGnss
      BY <1>0, <3>1, <3>2, Consts
    <3>4. QED
      BY <1>1, <3>3 DEF GnssPassed
  <2>4. QED
    BY <2>1, <2>2, <2>3, Zenon DEF GnssRung
<1>5. CasterPassed(t)' /\ WedgePassed(t)'
  BY <1>0, <1>1, <1>2, <1>3, Consts DEF CasterPassed, WedgePassed
<1>6. QED
  BY <1>4, <1>5 DEF Passed

LEMMA AllKeep == ASSUME TypeOK, Times, [Next]_vars PROVE \A k \in Heard : Kept(k) \/ NotedNow(k)
<1>1. CASE HotPaths \/ WorldChanges
  BY <1>1, NotingSteps, Zenon DEF Noting
<1>2. CASE Tick \/ Pass
  BY <1>2, PassKeeps, Zenon DEF Kept
<1>3. CASE UNCHANGED vars
  BY <1>3, Zenon DEF Kept, vars, shared, history
<1>4. QED
  BY <1>1, <1>2, <1>3, Zenon DEF Next

(* When the next pass comes: a step leaves that as it is or brings it forward,
   waits for the grace to end, or is the end of a pass. *)
LEMMA NextPassStep ==
    ASSUME TypeOK, Times, Running => Schedule, [Next]_vars, pc' # "reboot"
    PROVE  /\ Running /\ NextPass \in Int /\ NextPass' \in Int
           /\ clock' <= NextPass' /\ NextPass' <= clock' + Lag
           /\ pc' = "recover" => clock' <= wake'
           /\ \/ NextPass' <= Grace
              \/ NextPass' <= NextPass
              \/ GnssRung /\ NextPass' <= clock + Lag
<1>0. /\ clock \in Int /\ wake \in Int /\ Grace \in Int /\ RecoverS \in Int
      /\ Lag = RecoverS + 1
      /\ RecoverS >= 0 /\ MaxClock \in Int
  BY Consts DEF TypeOK, Times, Lag
<1> USE <1>0 DEF Schedule, NextPass, Running
<1>1. CASE HotPaths \/ WorldChanges
  <2>1. Running /\ UNCHANGED <<clock, pc, wake>>
    BY <1>1, NotingSteps, Zenon DEF Noting
  <2>2. QED
    BY <2>1
<1>2. CASE Tick
  <2>1. clock' = clock + 1 /\ clock < wake /\ pc \in {"sleep", "recover"} /\ UNCHANGED <<pc, wake>>
    BY <1>2 DEF Tick, task
  <2>2. QED
    BY <2>1
<1>3. CASE WakeInGrace
  <2>1. pc = "sleep" /\ clock < Grace /\ wake' = clock + 1 /\ UNCHANGED <<pc, clock>>
    BY <1>3 DEF WakeInGrace
  <2>2. QED
    BY <2>1
<1>4. CASE HeapGuard
  <2>1. pc = "sleep" /\ clock >= wake /\ pc' = "gnss" /\ clock' = clock
    BY <1>4 DEF HeapGuard
  <2>2. QED
    BY <2>1
<1>5. CASE ReadHalf \/ ReadOther
  <2>1. pc \in {"gnss", "caster", "ip"} /\ clock' = clock
    BY <1>5, Sets, Zenon DEF ReadHalf, ReadOther
  <2>2. pc' = pc \/ pc' = After(pc)
    BY <1>5, Zenon DEF ReadHalf, ReadOther
  <2>3. pc' \in {"gnss", "caster", "ip", "judge"}
    BY <2>1, <2>2, Tables, Zenon
  <2>4. QED
    BY <2>1, <2>3
<1>6. CASE Judge
  <2>1. pc = "judge" /\ pc' = "wifi" /\ clock' = clock
    BY <1>6 DEF Judge
  <2>2. QED
    BY <2>1
<1>7. CASE WifiRung \/ CasterRung
  <2>1. pc \in {"wifi", "reconnect"} /\ pc' \in {"reconnect", "receiver"} /\ clock' = clock
    BY <1>7, Zenon DEF WifiRung, CasterRung
  <2>2. QED
    BY <2>1
<1>8. CASE GnssRung
  <2>1. /\ pc = "receiver" /\ clock' = clock
        /\ (pc' = "recover" /\ wake' = clock + RecoverS) \/ (pc' = "sleep" /\ wake' = clock + 1)
    BY <1>8, Zenon DEF GnssRung
  <2>2. QED
    BY <1>8, <2>1
<1>9. CASE RecoverEnds
  <2>1. pc = "recover" /\ pc' = "sleep" /\ wake' = clock + 1 /\ clock' = clock
    BY <1>9, Zenon DEF RecoverEnds
  <2>2. QED
    BY <2>1
<1>10. CASE UNCHANGED vars
  <2>1. UNCHANGED <<clock, pc, wake>>
    BY <1>10, Zenon DEF vars, task
  <2>2. QED
    BY <2>1
<1>11. QED
  BY <1>1, <1>2, <1>3, <1>4, <1>5, <1>6, <1>7, <1>8, <1>9, <1>10, Zenon DEF Next, Pass

LEMMA ScheduleStep ==
    ASSUME TypeOK, Times, Running => ReadSoFar /\ Climbed /\ Schedule, [Next]_vars, pc' # "reboot"
    PROVE  Schedule'
<1>1. /\ Running /\ NextPass \in Int /\ NextPass' \in Int
      /\ clock' <= NextPass' /\ NextPass' <= clock' + Lag
      /\ pc' = "recover" => clock' <= wake'
      /\ \/ NextPass' <= Grace
         \/ NextPass' <= NextPass
         \/ GnssRung /\ NextPass' <= clock + Lag
  BY NextPassStep
<1>2. /\ ReadSoFar /\ Climbed /\ NextPass <= clock + Lag
      /\ NextPass <= Grace + 1 \/ Passed(NextPass - Lag)
  BY <1>1, Zenon DEF Schedule
<1>4. clock \in Int /\ Grace \in Int /\ Lag \in Int
  BY Consts DEF TypeOK
<1> DEFINE p == NextPass
           q == NextPass'
<1>a. p \in Int /\ q \in Int
  BY <1>1, Zenon DEF p, q
<1> HIDE DEF p, q
<1>3. PICK t \in Int : t = q - Lag
  <2>1. q - Lag \in Int
    BY <1>4, <1>a
  <2>2. QED
    BY <2>1
<1>b. t = NextPass' - Lag
  BY <1>3, Zenon DEF q
<1>5. CASE NextPass' <= Grace \/ (NextPass' <= NextPass /\ NextPass <= Grace + 1)
  <2>1. NextPass' <= Grace + 1
    BY <1>1, <1>4, <1>5
  <2>2. QED
    BY <1>1, <2>1, Zenon DEF Schedule
<1>6. CASE NextPass' <= NextPass /\ Passed(NextPass - Lag)
  <2>1. t <= NextPass - Lag /\ t <= clock /\ NextPass - Lag \in Int
    <3>1. q <= p /\ p <= clock + Lag
      BY <1>2, <1>6, Zenon DEF p, q
    <3>2. t <= p - Lag /\ t <= clock /\ p - Lag \in Int
      BY <1>3, <1>4, <1>a, <3>1
    <3>3. QED
      BY <3>2, Zenon DEF p
  <2>2. Passed(t)
    BY <1>6, <2>1, PassedBefore
  <2>3. Passed(t)'
    <3>1. /\ CasterPassed(t) => CasterPassed(t)'
          /\ GnssPassed(t) => GnssPassed(t)'
          /\ WedgePassed(t) => WedgePassed(t)'
      BY <2>1, AllKeep, RungActs, PassedStays
    <3>2. QED
      BY <2>2, <3>1, Zenon DEF Passed
  <2>4. QED
    BY <1>1, <1>b, <2>3, Zenon DEF Schedule, Passed, CasterPassed, GnssPassed, WedgePassed
<1>7. CASE GnssRung /\ NextPass' <= clock + Lag
  <2>1. t <= clock
    <3>1. q <= clock + Lag
      BY <1>7, Zenon DEF q
    <3>2. QED
      BY <1>3, <1>4, <1>a, <3>1
  <2>2. Passed(t)'
    BY <1>2, <1>7, <2>1, PassDone
  <2>3. QED
    BY <1>1, <1>b, <2>2, Zenon DEF Schedule, Passed, CasterPassed, GnssPassed, WedgePassed
<1>8. QED
  BY <1>1, <1>2, <1>5, <1>6, <1>7, Zenon

(* The passes that count the low heap come at most Lag apart. *)
LEMMA Multiples ==
    ASSUME NEW n \in Nat
    PROVE  /\ n * Lag \in Nat /\ (n + 1) * Lag = n * Lag + Lag
           /\ \A m \in Nat : n <= m => n * Lag <= m * Lag
<1>1. Lag \in Nat
  BY Consts
<1>2. ASSUME NEW a \in Nat, NEW b \in Nat PROVE a * b \in Nat /\ (a + 1) * b = a * b + b
  BY SMT
<1>3. ASSUME NEW m \in Nat, n <= m PROVE n * Lag <= m * Lag
  <2>1. ASSUME NEW a \in Nat, NEW b \in Nat, NEW c \in Nat PROVE (a + c) * b = a * b + c * b /\ c * b \in Nat /\ a * b \in Nat
    BY SMT
  <2>2. m - n \in Nat /\ n + (m - n) = m
    BY <1>3
  <2>3. m * Lag = n * Lag + (m - n) * Lag /\ (m - n) * Lag \in Nat /\ n * Lag \in Nat
    BY <1>1, <2>1, <2>2
  <2>4. QED
    BY <2>3
<1>4. QED
  BY <1>1, <1>2, <1>3

LEMMA CountStep ==
    ASSUME TypeOK, Times, Running => Schedule /\ Counted, [Next]_vars, pc' # "reboot"
    PROVE  Counted'
<1> DEFINE n == heap_low_streak
<1>0. /\ clock \in Int /\ wake \in Int /\ Grace \in Nat /\ Lag \in Int /\ Lag >= 1 /\ n \in Nat
      /\ low_at \in Int /\ low_at <= clock /\ HeapLow \in Nat /\ HeapLow >= 1
  BY Consts DEF TypeOK, Times
<1>1. /\ Running /\ NextPass \in Int /\ NextPass' \in Int /\ clock <= NextPass
      /\ NextPass <= clock + Lag
  BY NextPassStep, Zenon DEF Schedule
<1>2. /\ n < HeapLow
      /\ heap_low => NextPass <= Since + (IF pc \in InPass THEN n ELSE n + 1) * Lag
  BY <1>1, Zenon DEF Counted
<1>3. n * Lag \in Nat /\ (n + 1) * Lag = n * Lag + Lag
  BY <1>0, Multiples, Zenon
<1>4. Since \in Int /\ Since >= low_at /\ Since >= Grace
  BY <1>0 DEF Since
<1> HIDE DEF n
<1>5. CASE HotPaths \/ WorldChanges
  <2>1. /\ UNCHANGED <<clock, pc, wake, heap_low_streak>>
        /\ UNCHANGED <<heap_low, low_at>> \/ ~heap_low' \/ low_at' = clock
    BY <1>5, NotingSteps, Zenon DEF Noting
  <2>2. NextPass' = NextPass /\ heap_low_streak' = n
    BY <2>1, Zenon DEF NextPass, n
  <2>3. CASE ~heap_low'
    BY <1>2, <2>2, <2>3, Zenon DEF Counted
  <2>4. CASE UNCHANGED <<heap_low, low_at>>
    BY <1>2, <2>1, <2>2, <2>4, Zenon DEF Counted, Since
  <2>5. CASE low_at' = clock
    <3>1. Since' \in Int /\ Since' >= clock
      BY <1>0, <2>5 DEF Since
    <3>2. CASE pc \in InPass
      <4>1. NextPass = clock
        BY <3>2, Sets DEF NextPass
      <4>2. NextPass' <= Since' + n * Lag
        <5>1. n * Lag \in Nat /\ Since' \in Int /\ clock \in Int /\ Since' >= clock
          BY <1>0, <1>3, <3>1, Zenon
        <5>2. ASSUME NEW a \in Nat, NEW s \in Int, s >= clock PROVE clock <= s + a
          BY <1>0, <5>2
        <5>3. clock <= Since' + n * Lag
          BY <5>1, <5>2
        <5>4. QED
          BY <2>2, <4>1, <5>3, Zenon
      <4>3. QED
        BY <1>2, <2>1, <2>2, <3>2, <4>2, Zenon DEF Counted
    <3>3. CASE pc \notin InPass
      <4>1. NextPass' <= Since' + (n + 1) * Lag
        <5>1. ASSUME NEW a \in Nat, NEW s \in Int, s >= clock, NEW p \in Int, p <= clock + Lag
              PROVE  p <= s + (a + Lag)
          BY <1>0, <5>1
        <5>2. NextPass <= Since' + (n * Lag + Lag)
          BY <1>1, <1>3, <3>1, <5>1, Zenon
        <5>3. QED
          BY <1>3, <2>2, <5>2, Zenon
      <4>2. QED
        BY <1>2, <2>1, <2>2, <3>3, <4>1, Zenon DEF Counted
    <3>4. QED
      BY <3>2, <3>3
  <2>6. QED
    BY <2>1, <2>3, <2>4, <2>5
<1>6. CASE Tick \/ Pass
  <2>0. heap_low' = heap_low /\ Since' = Since
    BY <1>6, PassKeeps, Zenon DEF Since
  <2>1. CASE HeapGuard
    <3>1. /\ pc = "sleep" /\ pc' = "gnss" /\ clock >= wake /\ clock' = clock
          /\ heap_low_streak' = Streak /\ ~(Streak >= HeapLow)
      BY <2>1 DEF HeapGuard
    <3>2. NextPass' = clock /\ NextPass = wake /\ pc' \in InPass /\ pc \notin InPass
      BY <3>1, Sets DEF NextPass
    <3>3. CASE heap_low
      <4>1. heap_low_streak' = n + 1
        BY <3>1, <3>3, Zenon DEF Streak, n
      <4>2. n + 1 < HeapLow
        BY <1>0, <3>1, <3>3 DEF Streak, n
      <4>3. clock <= Since + (n + 1) * Lag
        <5>1. NextPass <= Since + (n + 1) * Lag
          BY <1>2, <3>2, <3>3, Zenon
        <5>2. clock <= NextPass
          BY <1>1, Zenon
        <5>3. (n + 1) * Lag \in Int
          BY <1>0, <1>3
        <5>4. ASSUME NEW a \in Int, NEW b \in Int, NEW c \in Int, NEW d \in Int, a <= b, b <= c + d
              PROVE  a <= c + d
          BY <5>4
        <5>5. QED
          BY <1>0, <1>1, <1>4, <5>1, <5>2, <5>3, <5>4, Zenon
      <4>4. QED
        BY <2>0, <3>2, <4>1, <4>2, <4>3, Zenon DEF Counted
    <3>4. CASE ~heap_low
      <4>1. heap_low_streak' = 0 /\ 0 < HeapLow
        BY <1>0, <3>1, <3>4 DEF Streak
      <4>2. QED
        BY <2>0, <3>4, <4>1, Zenon DEF Counted
    <3>5. QED
      BY <3>3, <3>4
  <2>2. CASE GnssRung
    <3>1. /\ pc = "receiver" /\ heap_low_streak' = n /\ pc' \in {"recover", "sleep"}
          /\ clock' = clock
      BY <2>2, Zenon DEF GnssRung, n
    <3>2. NextPass = clock /\ pc \in InPass /\ pc' \notin InPass
      BY <3>1, Sets DEF NextPass
    <3>3. NextPass' <= clock + Lag
      BY <3>1, NextPassStep DEF Schedule
    <3>4. heap_low => NextPass' <= Since + (n + 1) * Lag
      BY <1>0, <1>1, <1>2, <1>3, <1>4, <3>2, <3>3
    <3>5. QED
      BY <1>2, <2>0, <3>1, <3>2, <3>4, Zenon DEF Counted
  <2>3. CASE Tick \/ WakeInGrace \/ RecoverEnds
    <3>1. /\ heap_low_streak' = n /\ pc \in {"sleep", "recover"} /\ pc' \in {"sleep", "recover"}
      <4>1. CASE Tick
        BY <4>1 DEF Tick, task, n
      <4>2. CASE WakeInGrace \/ RecoverEnds
        BY <4>2 DEF WakeInGrace, RecoverEnds, n
      <4>3. QED
        BY <2>3, <4>1, <4>2
    <3>2. pc \notin InPass /\ pc' \notin InPass /\ ~GnssRung
      BY <3>1, Sets DEF GnssRung
    <3>3. NextPass' <= Grace \/ NextPass' <= NextPass
      BY <3>2, NextPassStep
    <3>4. heap_low => NextPass' <= Since + (n + 1) * Lag
      BY <1>0, <1>1, <1>2, <1>3, <1>4, <3>2, <3>3
    <3>5. QED
      BY <1>2, <2>0, <3>1, <3>2, <3>4, Zenon DEF Counted
  <2>4. CASE ReadHalf \/ ReadOther \/ Judge \/ WifiRung \/ CasterRung
    <3>1. heap_low_streak' = n /\ clock' = clock
      BY <2>4, Zenon DEF ReadHalf, ReadOther, Judge, WifiRung, CasterRung, n
    <3>2. pc \in InPass /\ pc' \in InPass
      <4>1. CASE ReadOther
        <5>1. pc \in Kinds /\ pc' = After(pc)
          BY <4>1, Zenon DEF ReadOther
        <5>2. pc' \in {"caster", "ip", "judge"}
          BY <5>1, Sets, Tables, Zenon
        <5>3. QED
          BY <5>1, <5>2, Sets
      <4>2. CASE ReadHalf \/ Judge \/ WifiRung \/ CasterRung
        BY <4>2, Sets DEF ReadHalf, Judge, WifiRung, CasterRung
      <4>3. QED
        BY <2>4, <4>1, <4>2
    <3>3. NextPass = clock /\ NextPass' = clock
      BY <3>1, <3>2, Sets DEF NextPass
    <3>4. QED
      BY <1>2, <2>0, <3>1, <3>2, <3>3, Zenon DEF Counted
  <2>5. QED
    BY <1>6, <2>1, <2>2, <2>3, <2>4, Zenon DEF Pass
<1>7. CASE UNCHANGED vars
  <2>1. UNCHANGED <<clock, pc, wake, heap_low_streak, heap_low, low_at>>
    BY <1>7, Zenon DEF vars, task, world, history
  <2>2. QED
    BY <1>1, <2>1, Zenon DEF Counted, NextPass, Since
<1>8. QED
  BY <1>5, <1>6, <1>7, Zenon DEF Next
-----------------------------------------------------------------------------
LEMMA InitSup == Init => SupInv
<1> SUFFICES ASSUME Init PROVE SupInv
  OBVIOUS
<1>1. /\ clock = 0 /\ pc = "sleep" /\ wake = 1 /\ half = NoHalf /\ low_at = 0 /\ down_at = 0
      /\ heap_low = FALSE /\ heap_low_streak = 0
      /\ seen = [k \in Kinds |-> FALSE] /\ noted = [k \in Kinds |-> 0]
  BY Zenon DEF Init
<1>2. 0 \in Nat /\ 0 \in 0 .. MaxClock /\ 0 \in 0 .. MaxFlips /\ 0 \in 0 .. AgeMod - 1 /\ 0 \in 0 .. HeapLow
      /\ 0 \in 0 .. 0
  BY Consts
<1>3. Split(0) \in [hi : 0 .. MaxClock, lo : 0 .. LowWord - 1]
  BY Halving, Consts
<1>4. WordT /\ WorldT
  <2>1. stamp \in [Kinds -> [hi : 0 .. MaxClock, lo : 0 .. LowWord - 1]]
    BY <1>3, Zenon DEF Init
  <2>2. QED
    BY <1>2, <2>1 DEF Init, WordT, WorldT
<1>5. TaskT /\ TimeT /\ Truths
  <2>1. TimeT
    BY <1>1, <1>2 DEF TimeT
  <2>2. TaskT
    <3>1. pc = "sleep" /\ pc \notin Kinds /\ wake \in Nat /\ half = NoHalf
      BY <1>1, Sets
    <3>2. silent \in [Kinds -> 0 .. AgeMod - 1] /\ last_act \in [Rungs -> 0 .. MaxClock]
      BY <1>2, Zenon DEF Init
    <3>3. link_fault \in BOOLEAN /\ heap_low_streak \in 0 .. HeapLow
      BY <1>2, Zenon DEF Init
    <3>4. QED
      BY <3>1, <3>2, <3>3, Zenon DEF TaskT
  <2>3. Truths
    BY DEF Init, Truths
  <2>4. QED
    BY <2>1, <2>2, <2>3
<1>6. Words
  BY <1>1, Sets DEF Words
<1>7. HalfRead /\ ReadSoFar /\ Climbed
  BY <1>1, Sets DEF HalfRead, ReadSoFar, Climbed
<1>8. Schedule /\ Counted
  BY <1>1, Consts DEF Schedule, Counted, NextPass
<1>9. QED
  BY <1>4, <1>5, <1>6, <1>7, <1>8, TypeParts, Zenon DEF SupInv

LEMMA SupStep == SupInv /\ [Next]_vars => SupInv'
<1> SUFFICES ASSUME SupInv, [Next]_vars PROVE SupInv'
  OBVIOUS
<1>1. /\ TypeOK /\ Times /\ Truths /\ Words
      /\ Running => HalfRead /\ ReadSoFar /\ Climbed /\ Schedule /\ Counted
  BY Zenon DEF SupInv
<1>2. Running => heap_low_streak < HeapLow
  BY <1>1, Zenon DEF Counted
<1>3. TypeOK' /\ Times' /\ Truths' /\ Words'
  BY <1>1, <1>2, TypeStep, TruthStep, WordStep
<1>4. ASSUME pc' # "reboot" PROVE HalfRead' /\ ReadSoFar' /\ Climbed' /\ Schedule' /\ Counted'
  BY <1>1, <1>4, HalfStep, ReadStep, ClimbStep, ScheduleStep, CountStep
<1>5. QED
  BY <1>3, <1>4, Zenon DEF SupInv, Running

LEMMA Inductive == Spec => []SupInv
  BY InitSup, SupStep, PTL DEF Spec
-----------------------------------------------------------------------------
(* Nothing the hot paths, the world or the ladder do takes the words of
   supervisor.c and the locals of its task out of their ranges. *)
THEOREM TypeCorrect == Spec => []TypeOK
<1>1. SupInv => TypeOK
  BY DEF SupInv
<1>2. QED
  BY <1>1, Inductive, PTL

(* supervisor_task judges ages that the words really had, although it loads each
   word in two halves while other tasks write it: only a note whose time differs
   in the high half can be mixed up. *)
THEOREM JudgesRealSilence == Spec => []SilenceIsReal
<1>1. SupInv => SilenceIsReal
  <2> SUFFICES ASSUME SupInv, pc \in Judging
               PROVE  \A k \in {"gnss", "caster"} : silent[k] \in truth[k] \/ Torn(k)
    BY Sets DEF SilenceIsReal
  <2>1. Told("gnss") /\ Told("caster")
    BY Sets DEF SupInv, Running, ReadSoFar
  <2>2. QED
    BY <2>1, Sets, Zenon DEF Told
<1>2. QED
  BY <1>1, Inductive, PTL

(* The rung of a silent receiver and of a silent caster is climbed again within
   its debounce and Lag, whatever the other recoveries take. *)
THEOREM RecoveriesAreInTime == Spec => []RecoversInTime
<1>1. SupInv => RecoversInTime
  <2> SUFFICES ASSUME SupInv, Running PROVE RecoversInTime
    BY Zenon DEF RecoversInTime
  <2>1. /\ clock \in Int /\ noted["gnss"] \in Int /\ noted["caster"] \in Int
        /\ last_act["gnss"] \in Int /\ last_act["caster"] \in Int /\ NextPass \in Int
    BY Sets DEF SupInv, TypeOK, Times, NextPass
  <2>2. clock <= NextPass /\ (NextPass <= Grace + 1 \/ Passed(NextPass - Lag))
    BY DEF SupInv, Schedule
  <2> HIDE DEF NextPass
  <2>3. QED
    BY <2>1, <2>2, Consts DEF RecoversInTime, Passed, CasterPassed, GnssPassed
<1>2. QED
  BY <1>1, Inductive, PTL

(* A device on which neither payload moves nor the receiver is heard is rebooted
   by rung 4; recoveries and bare handshakes do not put that off. *)
THEOREM WedgeIsRebooted == Spec => []WedgeReboots
<1>1. SupInv => WedgeReboots
  <2> SUFFICES ASSUME SupInv, Running PROVE WedgeReboots
    BY Zenon DEF WedgeReboots
  <2>1. clock \in Int /\ noted["gnss"] \in Int /\ noted["caster"] \in Int /\ NextPass \in Int
    BY Sets DEF SupInv, TypeOK, Times, NextPass
  <2>2. clock <= NextPass /\ (NextPass <= Grace + 1 \/ Passed(NextPass - Lag))
    BY DEF SupInv, Schedule
  <2>3. QED
    BY <2>1, <2>2, Consts DEF WedgeReboots, Passed, WedgePassed
<1>2. QED
  BY <1>1, Inductive, PTL

(* An exhausted heap is not survived longer than HEAP_LOW_S passes can take,
   counted from the end of the grace or from when the heap became low. *)
THEOREM LowHeapIsRebooted == Spec => []HeapReboots
<1>1. SupInv => HeapReboots
  <2> SUFFICES ASSUME SupInv, Running, heap_low PROVE HeapReboots
    BY Zenon DEF HeapReboots
  <2> DEFINE n == heap_low_streak
             m == IF pc \in InPass THEN n ELSE n + 1
  <2>1. clock \in Int /\ low_at \in Int /\ NextPass \in Int /\ n \in Nat /\ Grace \in Int
    BY Consts DEF SupInv, TypeOK, Times, NextPass
  <2>2. clock <= NextPass /\ n < HeapLow /\ NextPass <= Since + m * Lag
    BY Zenon DEF SupInv, Schedule, Counted
  <2>3. Since = low_at \/ Since = Grace
    BY DEF Since
  <2>4. m \in Nat /\ m <= HeapLow
    BY <2>1, <2>2, Consts
  <2> HIDE DEF m, n
  <2>5. m * Lag <= HeapLow * Lag /\ m * Lag \in Nat /\ HeapLow * Lag \in Nat
    BY <2>4, Multiples, Consts
  <2>6. clock <= low_at + HeapLow * Lag \/ clock <= Grace + HeapLow * Lag
    BY <2>1, <2>2, <2>3, <2>5
  <2>7. QED
    BY <2>1, <2>5, <2>6 DEF HeapReboots
<1>2. QED
  BY <1>1, Inductive, PTL
=============================================================================

----------------------------- MODULE Supervisor -----------------------------
(***************************************************************************)
(* The data-path health supervisor (main/supervisor.c): hot paths of other *)
(* tasks stamp three liveness words, and one task reads them once a second *)
(* and walks a ladder of recoveries that ends in a reboot.                 *)
(*                                                                         *)
(* The words are 64-bit microsecond times on a 32-bit target: the          *)
(* supervisor loads them in two halves, and a note may come in between.    *)
(* Time is counted in seconds, and the low half of a word spans LowWord of *)
(* them.  gnss_recover runs inside the supervisor's pass and takes up to   *)
(* RecoverS seconds; everything else takes none.                           *)
(***************************************************************************)
EXTENDS Integers

CONSTANTS Grace,                               \* GRACE_S
          ThGnss, ThCaster, ThLink, ThWedge,   \* TH_..._S
          DebGnss, DebCaster, DebLink,         \* DEB_..._S
          HeapLow,                             \* HEAP_LOW_S
          LowWord,                             \* seconds in 2^32 microseconds
          AgeMod,                              \* 2^32: ages are unsigned
          RecoverS,                            \* the longest gnss_recover()
          MaxClock, MaxFlips                   \* bounds

ASSUME SupervisorConstants ==
    /\ {Grace, RecoverS, MaxClock, MaxFlips} \subseteq Nat
    /\ {ThGnss, ThCaster, ThLink, ThWedge, DebGnss, DebCaster, DebLink, HeapLow, LowWord}
         \subseteq Nat \ {0}
    /\ ThCaster <= ThWedge
    /\ AgeMod \in Nat /\ AgeMod > MaxClock + LowWord + ThWedge

Kinds == {"gnss", "caster", "ip"}
Rungs == {"gnss", "caster", "link"}

VARIABLES
    clock,        \* seconds since boot
    (* shared words *)
    stamp,        \* s_t_gnss, s_t_caster, s_t_ip in two halves
    seen,         \* s_gnss_seen, s_caster_seen, s_ip_seen
    link_up,      \* s_link_up
    (* the world *)
    receiver,     \* "alive", "mute" (answers commands only) or "dead"
    caster,       \* "alive", "hollow" (handshakes only) or "dead"
    heap_low,     \* free heap below HEAP_FLOOR_B
    flips,        \* changes of the world (bounded)
    (* the supervisor task *)
    pc, wake, half, silent, link_fault, last_act, heap_low_streak,
    (* history *)
    noted,        \* when the receiver was last heard; last payload or arming
    down_at,      \* when the IP was lost
    low_at,       \* when the heap became low
    truth         \* real silences when a word was begun and done reading

shared == <<stamp, seen, link_up>>
world == <<receiver, caster, heap_low, flips>>
task == <<pc, wake, half, silent, link_fault, last_act, heap_low_streak>>
history == <<noted, down_at, low_at, truth>>
vars == <<clock, shared, world, task, history>>

Split(t) == [hi |-> t \div LowWord, lo |-> t % LowWord]
Word(s) == s.hi * LowWord + s.lo
Age(t) == (clock - t) % AgeMod
NoHalf == [word |-> "none", val |-> 0, judged |-> FALSE, real |-> 0]

Init ==
    /\ clock = 0
    /\ stamp = [k \in Kinds |-> Split(0)]
    /\ seen = [k \in Kinds |-> FALSE]
    /\ link_up = FALSE
    /\ receiver \in {"alive", "mute", "dead"}
    /\ caster \in {"alive", "hollow", "dead"}
    /\ heap_low = FALSE
    /\ flips = 0
    /\ pc = "sleep" /\ wake = 1 /\ half = NoHalf
    /\ silent = [k \in Kinds |-> 0] /\ link_fault = FALSE
    /\ last_act = [r \in Rungs |-> 0] /\ heap_low_streak = 0
    /\ noted = [k \in Kinds |-> 0]
    /\ down_at = 0 /\ low_at = 0
    /\ truth = [k \in Kinds |-> {0}]
-----------------------------------------------------------------------------
(***************************************************************************)
(* Hot-path notes.                                                         *)
(***************************************************************************)
Stamp(k) ==
    /\ stamp' = [stamp EXCEPT ![k] = Split(clock)]
    /\ seen' = [seen EXCEPT ![k] = TRUE]

supervisor_note_gnss_rx ==
    /\ Stamp("gnss")
    /\ noted' = [noted EXCEPT !["gnss"] = clock]

(* Mutation: every handshake refreshes the caster's word. *)
NoteHandshakeRefreshes(bytes) ==
    /\ Stamp("caster")
    /\ noted' = IF bytes > 0 \/ ~seen["caster"]
                THEN [noted EXCEPT !["caster"] = clock] ELSE noted
(* Payload is progress; a bare handshake only arms the watchdog. *)
supervisor_note_caster_tx(bytes) ==
    IF bytes > 0 \/ ~seen["caster"]
    THEN Stamp("caster") /\ noted' = [noted EXCEPT !["caster"] = clock]
    ELSE UNCHANGED <<stamp, seen, noted>>

supervisor_note_sta_ip(up) ==
    /\ link_up' = up
    /\ IF up THEN Stamp("ip") ELSE UNCHANGED <<stamp, seen>>

Fresh(k) == seen[k] /\ noted[k] = clock
Running == pc # "reboot"

(* ntrip_server_on_frame: a CRC-valid frame. *)
Frame ==
    /\ Running
    /\ receiver = "alive"
    /\ ~Fresh("gnss")
    /\ supervisor_note_gnss_rx
    /\ UNCHANGED <<clock, link_up, world, task, down_at, low_at, truth>>

(* send_cmd_acked, within gnss_recover: any verdict on a command. *)
Ack ==
    /\ pc = "recover"
    /\ receiver # "dead"
    /\ ~Fresh("gnss")
    /\ supervisor_note_gnss_rx
    /\ UNCHANGED <<clock, link_up, world, task, down_at, low_at, truth>>

(* ntrip_server_sock_send: the stack accepted payload. *)
Send ==
    /\ Running
    /\ caster = "alive"
    /\ ~Fresh("caster")
    /\ supervisor_note_caster_tx(1)
    /\ UNCHANGED <<clock, link_up, world, task, down_at, low_at, truth>>

Handshake ==
    /\ Running
    /\ caster # "dead"
    /\ supervisor_note_caster_tx(0)
    /\ UNCHANGED <<clock, link_up, world, task, down_at, low_at, truth>>

Flip == Running /\ flips < MaxFlips /\ flips' = flips + 1

(* handle_sta_got_ip. *)
GotIp ==
    /\ ~link_up
    /\ Flip
    /\ supervisor_note_sta_ip(TRUE)
    /\ down_at' = 0
    /\ UNCHANGED <<clock, receiver, caster, heap_low, task, noted, low_at, truth>>

(* handle_sta_disconnected, handle_sta_lost_ip. *)
LostIp ==
    /\ link_up
    /\ Flip
    /\ supervisor_note_sta_ip(FALSE)
    /\ down_at' = clock
    /\ UNCHANGED <<clock, receiver, caster, heap_low, task, noted, low_at, truth>>

(* The receiver, the caster or the heap changes. *)
WorldChanges ==
    /\ Flip
    /\ \/ /\ receiver' \in {"alive", "mute", "dead"} \ {receiver}
          /\ UNCHANGED <<caster, heap_low, low_at>>
       \/ /\ caster' \in {"alive", "hollow", "dead"} \ {caster}
          /\ UNCHANGED <<receiver, heap_low, low_at>>
       \/ /\ heap_low' = ~heap_low
          /\ low_at' = IF heap_low THEN 0 ELSE clock
          /\ UNCHANGED <<receiver, caster>>
    /\ UNCHANGED <<clock, shared, task, noted, down_at, truth>>

(* A working receiver sends a frame and a working caster takes payload every
   second; while it is being configured the receiver is silent. *)
Tick ==
    /\ clock < MaxClock
    /\ \/ pc = "sleep" /\ clock < wake /\ (receiver = "alive" => Fresh("gnss"))
       \/ pc = "recover" /\ clock < wake
    /\ caster = "alive" => Fresh("caster")
    /\ clock' = clock + 1
    /\ UNCHANGED <<shared, world, task, history>>
-----------------------------------------------------------------------------
(***************************************************************************)
(* supervisor_task.                                                        *)
(***************************************************************************)
WakeInGrace ==
    /\ pc = "sleep"
    /\ clock >= wake
    /\ clock < Grace
    /\ wake' = clock + 1
    /\ UNCHANGED <<clock, shared, world, pc, half, silent, link_fault, last_act,
                   heap_low_streak, history>>

(* Mutation: the guard starts counting anew on every pass. *)
StreakForgets == IF heap_low THEN 1 ELSE 0
Streak == IF heap_low THEN heap_low_streak + 1 ELSE 0

(* Rung 5 comes first. *)
HeapGuard ==
    /\ pc = "sleep"
    /\ clock >= wake
    /\ clock >= Grace
    /\ heap_low_streak' = Streak
    /\ pc' = IF Streak >= HeapLow THEN "reboot" ELSE "gnss"
    /\ UNCHANGED <<clock, shared, world, wake, half, silent, link_fault, last_act, history>>

(* The words are read one after the other, each in two loads whose order is
   the compiler's. *)
Judged(k) == seen[k] /\ (k = "ip" => ~link_up)

(* What the word is supposed to tell. *)
Silence(k) ==
    CASE k = "gnss" -> clock - noted["gnss"]
      [] k = "caster" -> IF seen["caster"] THEN clock - noted["caster"] ELSE 0
      [] k = "ip" -> IF Judged("ip") THEN clock - down_at ELSE 0

ReadHalf ==
    /\ pc \in Kinds
    /\ half = NoHalf
    /\ \E w \in {"hi", "lo"} :
         half' = [word |-> w, val |-> stamp[pc][w], judged |-> Judged(pc), real |-> Silence(pc)]
    /\ UNCHANGED <<clock, shared, world, pc, wake, silent, link_fault, last_act,
                   heap_low_streak, history>>

(* A receiver never heard is silent since boot, the others are not judged. *)
UnseenSilent(k) == IF k = "gnss" THEN clock ELSE 0

After(k) == CASE k = "gnss" -> "caster" [] k = "caster" -> "ip" [] k = "ip" -> "judge"

ReadOther ==
    /\ pc \in Kinds
    /\ half # NoHalf
    /\ silent' = [silent EXCEPT ![pc] =
         IF half.judged THEN Age(Word([stamp[pc] EXCEPT ![half.word] = half.val]))
                        ELSE UnseenSilent(pc)]
    /\ truth' = [truth EXCEPT ![pc] = {half.real, Silence(pc)}]
    /\ half' = NoHalf
    /\ pc' = After(pc)
    /\ UNCHANGED <<clock, shared, world, wake, link_fault, last_act, heap_low_streak,
                   noted, down_at, low_at>>

CasterFault == silent["caster"] >= ThCaster
GnssFault == silent["gnss"] >= ThGnss

(* Mutation: both causes must be dead. *)
WedgedBoth ==
    /\ CasterFault /\ silent["caster"] >= ThWedge
    /\ silent["gnss"] >= ThWedge /\ silent["ip"] >= ThWedge
(* The caster and a cause of its silence are dead. *)
Wedged ==
    /\ CasterFault /\ silent["caster"] >= ThWedge
    /\ silent["gnss"] >= ThWedge \/ silent["ip"] >= ThWedge

(* link_fault reads s_link_up once more; then rung 4. *)
Judge ==
    /\ pc = "judge"
    /\ link_fault' = (seen["ip"] /\ ~link_up /\ silent["ip"] >= ThLink)
    /\ pc' = IF Wedged THEN "reboot" ELSE "wifi"
    /\ UNCHANGED <<clock, shared, world, wake, half, silent, last_act, heap_low_streak,
                   history>>

(* Mutation: one debounce for the whole ladder. *)
DueShared(r, deb) == \A x \in Rungs : clock - last_act[x] >= deb
Due(r, deb) == clock - last_act[r] >= deb
Act(r) == last_act' = [last_act EXCEPT ![r] = clock]

(* Rung 3, wifi_driver_restart: stopping the driver drops the link. *)
WifiRung ==
    /\ pc = "wifi"
    /\ \/ /\ link_fault /\ Due("link", DebLink)
          /\ Act("link")
          /\ supervisor_note_sta_ip(FALSE)
          /\ down_at' = IF link_up THEN clock ELSE down_at
       \/ /\ ~(link_fault /\ Due("link", DebLink))
          /\ UNCHANGED <<last_act, shared, down_at>>
    /\ pc' = "reconnect"
    /\ UNCHANGED <<clock, world, wake, half, silent, link_fault, heap_low_streak,
                   noted, low_at, truth>>

(* Rung 2, ntrip_server_reconnect_all: the instances connect again. *)
CasterRung ==
    /\ pc = "reconnect"
    /\ \/ CasterFault /\ Due("caster", DebCaster) /\ Act("caster")
       \/ ~(CasterFault /\ Due("caster", DebCaster)) /\ UNCHANGED last_act
    /\ pc' = "receiver"
    /\ UNCHANGED <<clock, shared, world, wake, half, silent, link_fault, heap_low_streak,
                   history>>

(* silent and link_fault are locals of the pass. *)
PassEnds ==
    /\ silent' = [k \in Kinds |-> 0]
    /\ truth' = [k \in Kinds |-> {0}]
    /\ link_fault' = FALSE

(* Rung 1, gnss_recover, which keeps the supervisor busy until "wake". *)
GnssRung ==
    /\ pc = "receiver"
    /\ \/ /\ GnssFault /\ Due("gnss", DebGnss)
          /\ Act("gnss")
          /\ pc' = "recover"
          /\ wake' = clock + RecoverS
       \/ /\ ~(GnssFault /\ Due("gnss", DebGnss))
          /\ pc' = "sleep"
          /\ wake' = clock + 1
          /\ UNCHANGED last_act
    /\ PassEnds
    /\ UNCHANGED <<clock, shared, world, half, heap_low_streak, noted, down_at,
                   low_at>>

RecoverEnds ==
    /\ pc = "recover"
    /\ pc' = "sleep"
    /\ wake' = clock + 1
    /\ UNCHANGED <<clock, shared, world, half, silent, link_fault, last_act, heap_low_streak,
                   history>>

Pass == WakeInGrace \/ HeapGuard \/ ReadHalf \/ ReadOther \/ Judge \/ WifiRung
          \/ CasterRung \/ GnssRung \/ RecoverEnds
HotPaths == Frame \/ Ack \/ Send \/ Handshake \/ GotIp \/ LostIp

Next == Tick \/ HotPaths \/ WorldChanges \/ Pass

Spec == Init /\ [][Next]_vars
-----------------------------------------------------------------------------
(* Type invariant of the words, the world and the task. *)
TypeOK ==
    /\ clock \in 0 .. MaxClock
    /\ stamp \in [Kinds -> [hi : 0 .. MaxClock, lo : 0 .. LowWord - 1]]
    /\ seen \in [Kinds -> BOOLEAN] /\ link_up \in BOOLEAN
    /\ receiver \in {"alive", "mute", "dead"} /\ caster \in {"alive", "hollow", "dead"}
    /\ heap_low \in BOOLEAN /\ flips \in 0 .. MaxFlips
    /\ pc \in Kinds \cup {"sleep", "judge", "wifi", "reconnect", "receiver", "recover",
                          "reboot"}
    /\ silent \in [Kinds -> 0 .. AgeMod - 1]
    /\ link_fault \in BOOLEAN
    /\ last_act \in [Rungs -> 0 .. MaxClock]
    /\ heap_low_streak \in 0 .. HeapLow

(* Did a note change the high half of the word while it was being read? *)
Torn(k) == \E x, y \in truth[k] : Split(clock - x).hi # Split(clock - y).hi

(* The ladder judges real silence: what the supervisor takes for the age of
   the last sign of life of the receiver and of the last payload (or the
   arming handshake) is that age, so that no recovery hits a healthy
   receiver or a caster that takes payload.  A note whose time differs in the
   high half, once in 71 minutes, is the only exception: the loads of a 64-bit
   word are not atomic. *)
SilenceIsReal ==
    pc \in {"judge", "wifi", "reconnect", "receiver"} =>
      \A k \in {"gnss", "caster"} : silent[k] \in truth[k] \/ Torn(k)

(* A pass starts at most this long after the one before, or after the boot
   grace. *)
Lag == RecoverS + 1

(* "The task evaluates them once a second and walks an escalation ladder":
   while a subsystem stays silent its recovery is repeated in time, however
   long the recovery of another one blocks the task. *)
RecoversInTime ==
    Running =>
      /\ seen["caster"] /\ clock > Grace + Lag /\ clock - noted["caster"] > ThCaster + Lag
           => clock - last_act["caster"] <= DebCaster + Lag
      /\ clock > Grace + Lag /\ clock - noted["gnss"] > ThGnss + Lag
           => clock - last_act["gnss"] <= DebGnss + Lag

(* "Total wedge > 120 s -> esp_restart()": when neither payload moves nor the
   receiver is heard, handshakes and recoveries do not keep the device from
   rebooting. *)
WedgeReboots ==
    ~(/\ Running
      /\ seen["caster"]
      /\ clock > Grace + Lag
      /\ clock - noted["caster"] > ThWedge + Lag
      /\ clock - noted["gnss"] > ThWedge + Lag)

(* "If free heap stays below HEAP_FLOOR_B for HEAP_LOW_S consecutive seconds,
   reboot cleanly": an exhausted heap is not survived longer than the passes
   that count it may take. *)
HeapReboots ==
    ~(/\ Running
      /\ heap_low
      /\ clock > Grace + HeapLow * Lag
      /\ clock - low_at > HeapLow * Lag)
=============================================================================

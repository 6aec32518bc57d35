------------------------------ MODULE OtaBoot ------------------------------
(***************************************************************************)
(* The anti-brick update path (main/update.c): boot-loop guard, boot-time  *)
(* install, health confirmation, boot-loop counter clearing and the daily  *)
(* poll, together with the ESP-IDF bootloader's rollback they rely on.     *)
(* Power may fail and a bad image may crash between any two steps; only    *)
(* flash (partitions, otadata, NVS) survives.                              *)
(*                                                                         *)
(* Of an image only its version is kept.  A version is "sound", "dead" (it *)
(* crashes and never meets the health contract) or "late" (it may meet the *)
(* contract and crashes with the data plane up, before the boot-loop       *)
(* counter is cleared).                                                    *)
(***************************************************************************)
EXTENDS Integers, Sequences

CONSTANTS Class,          \* Class[v]: what version v is like; versions are 1, 2, ...
          Files,          \* update_files_urls of the manifest: "fw" or "www"
          MaxAttempts,    \* MAX_OTA_ATTEMPTS
          MaxBootLoops,   \* MAX_BOOT_LOOPS
          StableN,        \* OTA_CONFIRM_STABLE_N
          NvsMayFail,     \* may nvs_open, or a write to otadata, fail?
          MaxFaults       \* bound: power losses, supervisor reboots, NVS errors

Versions == DOMAIN Class

ASSUME OtaConstants ==
    /\ Class \in Seq({"sound", "dead", "late"}) /\ Class # <<>>
    /\ Class[1] = "sound"
    /\ Files \in Seq({"fw", "www"})
    /\ MaxAttempts \in Nat \ {0} /\ MaxBootLoops \in Nat \ {0} /\ StableN \in Nat \ {0}
    /\ NvsMayFail \in BOOLEAN
    /\ MaxFaults \in Nat

(* A manifest names one firmware image (ota/release.json): a second one would
   be written over the slot that the first has just been selected in. *)
ASSUME OneFirmware ==
    \A j, k \in DOMAIN Files : Files[j] = "fw" /\ Files[k] = "fw" => j = k

VARIABLES
    (* flash *)
    image,          \* image[s]: version in app partition s, 0 while incomplete
    entry,          \* entry[s]: otadata state of OTA slot s
    sel,            \* OTA slot of the newest otadata entry
    www,            \* version of the web partition, 0 while incomplete
    fail_ver, fail_cnt, bootloop, planned_rb,   \* NVS namespace "ota"
    (* the running firmware *)
    running,        \* partition the bootloader started
    pc,             \* where app_main is
    target,         \* version being installed
    file,           \* next file of the manifest
    total,          \* has this install written bytes before the current file?
    reason,         \* reset reason: "power", "crash" or "sw"
    confirm,        \* ota_mark_valid_task: "off", "check", "mark", "clear"
    stable,         \* consecutive healthy checks
    clearing,       \* is ota_bootloop_clear_task still waiting?
    channel,        \* version the manifest offers
    faults,         \* faults used up (bounded)
    (* history *)
    downloads,      \* downloads[v]: downloads of v since v was last confirmed,
                    \*   counted up to MaxAttempts + 1, less one for each attempt
                    \*   that an NVS error let through unbooked
    proven,         \* versions that met the health contract
    last_ver,       \* version that ran before the last reset
    own             \* own[v]: counted resets of the streak after which v,
                    \*   the image that was reset, is started again

ota == <<image, entry, sel, www>>
nvs == <<fail_ver, fail_cnt, bootloop, planned_rb>>
install == <<target, file, total>>
tasks == <<confirm, stable, clearing>>
ghost == <<downloads, proven, last_ver, own>>
vars == <<ota, nvs, running, pc, install, reason, tasks, channel, faults, ghost>>

OtaSlots == {"ota_0", "ota_1"}
Partitions == OtaSlots \cup {"factory"}
EntryState == {"none", "new", "pending", "valid", "invalid", "aborted"}
Other(s) == IF s = "ota_0" THEN "ota_1" ELSE "ota_0"
Fw == image[running]
NvsFaulty == NvsMayFail /\ faults < MaxFaults
Nvs == IF NvsFaulty THEN BOOLEAN ELSE {TRUE}
Charge(ok) == faults' = IF ok THEN faults ELSE faults + 1
Pending == running # "factory" /\ entry[running] = "pending"

(* A fresh device: the factory image, no otadata, no counters. *)
Init ==
    /\ image = [s \in Partitions |-> IF s = "factory" THEN 1 ELSE 0]
    /\ entry = [s \in OtaSlots |-> "none"]
    /\ sel = "ota_1"
    /\ www = 1
    /\ fail_ver = 0 /\ fail_cnt = 0 /\ bootloop = 0 /\ planned_rb = FALSE
    /\ running = "factory"
    /\ pc = "off"
    /\ target = 0 /\ file = 1 /\ total = FALSE
    /\ reason = "power"
    /\ confirm = "off" /\ stable = 0 /\ clearing = FALSE
    /\ channel = 1
    /\ faults = 0
    /\ downloads = [v \in Versions |-> 0]
    /\ proven = {1}
    /\ last_ver = 1
    /\ own = [v \in Versions |-> 0]
-----------------------------------------------------------------------------
(***************************************************************************)
(* The bootloader with CONFIG_BOOTLOADER_APP_ROLLBACK_ENABLE.              *)
(***************************************************************************)
Usable(st) == st \notin {"none", "invalid", "aborted"}

(* The newest usable entry wins, without one the factory app. *)
Choice(e) ==
    CASE Usable(e[sel]) -> sel
      [] ~Usable(e[sel]) /\ Usable(e[Other(sel)]) -> Other(sel)
      [] OTHER -> "factory"

(* An image that was given its trial boot and not confirmed is aborted; the
   chosen image starts its trial if it is new. *)
Aborted == [s \in OtaSlots |-> IF entry[s] = "pending" THEN "aborted" ELSE entry[s]]

Bootloader ==
    /\ pc = "off"
    /\ LET s == Choice(Aborted)
       IN  /\ image[s] # 0
           /\ running' = s
           /\ entry' = [x \in OtaSlots |-> IF x = s /\ Aborted[x] = "new"
                                           THEN "pending" ELSE Aborted[x]]
    /\ pc' = "guard"
    /\ UNCHANGED <<image, sel, www, nvs, install, reason, tasks, channel, faults, ghost>>

(* Any reset: what is in RAM is gone. *)
Reset(r) ==
    /\ pc' = "off"
    /\ reason' = r
    /\ target' = 0 /\ file' = 1 /\ total' = FALSE
    /\ confirm' = "off" /\ stable' = 0 /\ clearing' = FALSE
    /\ last_ver' = Fw

PowerLoss ==
    /\ pc # "off"
    /\ faults < MaxFaults
    /\ faults' = faults + 1
    /\ Reset("power")
    /\ UNCHANGED <<ota, nvs, running, channel, downloads, proven, own>>

(* A bad image panics; a late one once its data plane is up. *)
Crash ==
    /\ pc # "off"
    /\ \/ Class[Fw] = "dead"
       \/ Class[Fw] = "late" /\ pc = "up"
    /\ Reset("crash")
    /\ UNCHANGED <<ota, nvs, running, channel, faults, downloads, proven, own>>

(* The supervisor's last resort: esp_restart() without a marker. *)
SupervisorReboot ==
    /\ pc = "up"
    /\ faults < MaxFaults
    /\ faults' = faults + 1
    /\ Reset("sw")
    /\ UNCHANGED <<ota, nvs, running, channel, downloads, proven, own>>

(* ota_note_planned_reboot(); esp_restart(). *)
PlannedReboot ==
    /\ \E ok \in Nvs : planned_rb' = (ok \/ planned_rb) /\ Charge(ok)
    /\ Reset("sw")

(* A user restarts the device (reset button, web interface). *)
UserReboot ==
    /\ pc = "up"
    /\ PlannedReboot
    /\ UNCHANGED <<ota, fail_ver, fail_cnt, bootloop, running, channel, downloads, proven,
                   own>>

(* A newer version is published. *)
Publish ==
    /\ channel < Len(Class)
    /\ channel' = channel + 1
    /\ UNCHANGED <<ota, nvs, running, pc, install, reason, tasks, faults, ghost>>
-----------------------------------------------------------------------------
(***************************************************************************)
(* ota_boot_loop_guard.                                                    *)
(***************************************************************************)
(* Mutation: a confirmed image is trusted, only one on trial is counted. *)
CrashLikeOnTrial == reason = "crash" /\ Pending

(* What counts against the image: crash resets and unplanned software
   resets, unless this is the trial boot of a fresh install. *)
CrashLike ==
    \/ reason = "crash"
    \/ reason = "sw" /\ ~planned_rb /\ ~Pending

(* Mutation: one more crash boot is tolerated. *)
LoopedTooLate == (bootloop + 1) % 256 > MaxBootLoops
(* boots++ on a uint8_t. *)
Looped == (bootloop + 1) % 256 >= MaxBootLoops

GuardNvsFails ==
    /\ pc = "guard"
    /\ NvsFaulty
    /\ Charge(FALSE)
    /\ pc' = "check"
    /\ UNCHANGED <<ota, nvs, running, install, reason, tasks, channel, ghost>>

GuardNotCounted ==
    /\ pc = "guard"
    /\ ~CrashLike
    /\ planned_rb' = FALSE
    /\ pc' = "check"
    /\ UNCHANGED <<ota, fail_ver, fail_cnt, bootloop, running, install, reason, tasks,
                   channel, faults, ghost>>

GuardCounts ==
    /\ pc = "guard"
    /\ CrashLike
    /\ planned_rb' = FALSE
    /\ bootloop' = (bootloop + 1) % 256
    /\ own' = IF Fw = last_ver THEN [own EXCEPT ![Fw] = @ + 1] ELSE own
    /\ pc' = IF Looped /\ running # "factory" THEN "erase" ELSE "check"
    /\ UNCHANGED <<ota, fail_ver, fail_cnt, running, install, reason, tasks, channel, faults,
                   downloads, proven, last_ver>>

(* Erase otadata first; the counter is cleared only afterwards. *)
FallbackErase ==
    /\ pc = "erase"
    /\ entry' = [s \in OtaSlots |-> "none"]
    /\ pc' = "erased"
    /\ UNCHANGED <<image, sel, www, nvs, running, install, reason, tasks, channel, faults,
                   downloads, proven, last_ver, own>>

FallbackEraseFails ==
    /\ pc = "erase"
    /\ NvsFaulty
    /\ Charge(FALSE)
    /\ pc' = "check"
    /\ UNCHANGED <<ota, nvs, running, install, reason, tasks, channel, ghost>>

FallbackClear ==
    /\ pc = "erased"
    /\ \E ok \in Nvs : /\ bootloop' = IF ok THEN 0 ELSE bootloop
                       /\ own' = IF ok THEN [v \in Versions |-> 0] ELSE own
                       /\ Charge(ok)
    /\ pc' = "fallback"
    /\ UNCHANGED <<ota, fail_ver, fail_cnt, planned_rb, running, install, reason, tasks,
                   channel, downloads, proven, last_ver>>

FallbackRestart ==
    /\ pc = "fallback"
    /\ PlannedReboot
    /\ UNCHANGED <<ota, fail_ver, fail_cnt, bootloop, running, channel, downloads, proven,
                   own>>
-----------------------------------------------------------------------------
(***************************************************************************)
(* ota_boot_check and updateFirmware.                                      *)
(***************************************************************************)
Newer == channel > Fw
Exhausted == fail_ver = channel /\ fail_cnt >= MaxAttempts

(* The data plane comes up with its tasks. *)
DataPlane ==
    /\ pc' = "up"
    /\ target' = 0 /\ file' = 1 /\ total' = FALSE
    /\ confirm' = "check" /\ stable' = 0 /\ clearing' = TRUE

(* No manifest, nothing newer, too little heap or the budget is spent. *)
BootCheckReturns ==
    /\ pc = "check"
    /\ DataPlane
    /\ UNCHANGED <<ota, nvs, running, reason, channel, faults, ghost>>

(* Mutation: the attempt is booked only when it has succeeded. *)
BookNothing == UNCHANGED <<fail_ver, fail_cnt>>
(* ota_attempt_allowed books the attempt before the download; without NVS it
   lets the attempt through. *)
Book ==
    /\ fail_ver' = channel
    /\ fail_cnt' = (IF fail_ver = channel THEN fail_cnt ELSE 0) + 1

BootCheckBooks ==
    /\ pc = "check"
    /\ Newer
    /\ \/ ~Exhausted /\ Book /\ UNCHANGED <<faults, downloads>>
       \/ /\ NvsFaulty /\ Charge(FALSE) /\ UNCHANGED <<fail_ver, fail_cnt>>
          /\ downloads' = [downloads EXCEPT ![channel] = @ - 1]
    /\ target' = channel
    /\ pc' = "files"
    /\ UNCHANGED <<ota, bootloop, planned_rb, running, file, total, reason, tasks, channel,
                   proven, last_ver, own>>

InstallSlot == IF running = "factory" THEN "ota_0" ELSE Other(running)

(* Mutation: the slot is selected before it is written. *)
BeginSelects ==
    /\ image' = [image EXCEPT ![InstallSlot] = 0]
    /\ entry' = [entry EXCEPT ![InstallSlot] = "new"]
    /\ sel' = InstallSlot
(* esp_ota_begin erases the slot. *)
Begin ==
    /\ image' = [image EXCEPT ![InstallSlot] = 0]
    /\ UNCHANGED <<entry, sel>>

(* esp_ota_begin refuses while the running image is on trial. *)
FirmwareBegin ==
    /\ pc = "files"
    /\ file <= Len(Files)
    /\ Files[file] = "fw"
    /\ ~Pending
    /\ Begin
    /\ downloads' = [downloads EXCEPT ![target] = IF @ <= MaxAttempts THEN @ + 1 ELSE @]
    /\ pc' = "download"
    /\ UNCHANGED <<www, nvs, running, install, reason, tasks, channel, faults, proven,
                   last_ver, own>>

(* The whole image arrived and esp_ota_end verified it.  The length check
   compares the bytes of the whole install with this file's length. *)
FirmwareWritten ==
    /\ pc = "download"
    /\ ~total
    /\ image' = [image EXCEPT ![InstallSlot] = target]
    /\ total' = TRUE
    /\ pc' = "written"
    /\ UNCHANGED <<entry, sel, www, nvs, running, target, file, reason, tasks, channel, faults,
                   ghost>>

FirmwareSelect ==
    /\ pc = "written"
    /\ entry' = [entry EXCEPT ![InstallSlot] = "new"]
    /\ sel' = InstallSlot
    /\ file' = file + 1
    /\ pc' = "files"
    /\ UNCHANGED <<image, www, nvs, running, target, total, reason, tasks, channel, faults,
                   ghost>>

(* update_SPIFFS: stage, then erase and copy the live web partition. *)
WwwErase ==
    /\ pc = "files"
    /\ file <= Len(Files)
    /\ Files[file] = "www"
    /\ www' = 0
    /\ total' = TRUE
    /\ pc' = "copy"
    /\ UNCHANGED <<image, entry, sel, nvs, running, target, file, reason, tasks, channel,
                   faults, ghost>>

WwwCopied ==
    /\ pc = "copy"
    /\ www' = target
    /\ file' = file + 1
    /\ pc' = "files"
    /\ UNCHANGED <<image, entry, sel, nvs, running, target, total, reason, tasks, channel,
                   faults, ghost>>

(* The first failure of any step ends the install without a reboot. *)
InstallFails ==
    /\ \/ pc \in {"download", "written", "copy"}
       \/ pc = "files" /\ file <= Len(Files)
    /\ DataPlane
    /\ UNCHANGED <<ota, nvs, running, reason, channel, faults, downloads, proven, last_ver, own>>

InstallDone ==
    /\ pc = "files"
    /\ file > Len(Files)
    /\ PlannedReboot
    /\ UNCHANGED <<ota, fail_ver, fail_cnt, bootloop, running, channel, downloads, proven,
                   own>>
-----------------------------------------------------------------------------
(***************************************************************************)
(* ota_mark_valid_task, ota_bootloop_clear_task, the daily poll.           *)
(***************************************************************************)
(* Mutation: time alone confirms, whatever the checks said. *)
ReadyByTime(ok) == TRUE
Ready(ok) == ok /\ stable + 1 >= StableN

(* One check of the health contract; a failed one starts the count again. *)
HealthCheck(ok) ==
    /\ pc = "up"
    /\ confirm = "check"
    /\ ok => Class[Fw] # "dead"
    /\ stable' = IF ok THEN stable + 1 ELSE 0
    /\ confirm' = IF Ready(ok) THEN "mark" ELSE "check"
    /\ proven' = IF ok /\ stable + 1 >= StableN THEN proven \cup {Fw} ELSE proven
    /\ UNCHANGED <<ota, nvs, running, pc, install, reason, clearing, channel, faults,
                   downloads, last_ver, own>>

(* The exception for a unit without uploader (no instance at this check): ten
   minutes of uptime. *)
UnprovisionedConfirm ==
    /\ pc = "up"
    /\ confirm = "check"
    /\ Class[Fw] # "dead"
    /\ confirm' = "mark"
    /\ proven' = proven \cup {Fw}
    /\ UNCHANGED <<ota, nvs, running, pc, install, reason, stable, clearing, channel, faults,
                   downloads, last_ver, own>>

(* Confirm first; an image that is not on trial, or that cannot be marked,
   is not confirmed ... *)
ConfirmMark ==
    /\ confirm = "mark"
    /\ \/ /\ Pending
          /\ entry' = [entry EXCEPT ![running] = "valid"]
          /\ downloads' = [downloads EXCEPT ![Fw] = 0]
          /\ confirm' = "clear"
          /\ UNCHANGED faults
       \/ /\ ~Pending
          /\ confirm' = "off"
          /\ UNCHANGED <<entry, downloads, faults>>
       \/ /\ Pending /\ NvsFaulty
          /\ Charge(FALSE)
          /\ confirm' = "off"
          /\ UNCHANGED <<entry, downloads>>
    /\ UNCHANGED <<image, sel, www, nvs, running, pc, install, reason, stable, clearing,
                   channel, proven, last_ver, own>>

(* ... then clear the attempt counter. *)
ConfirmClear ==
    /\ confirm = "clear"
    /\ \E ok \in Nvs : /\ fail_ver' = IF ok THEN 0 ELSE fail_ver
                       /\ fail_cnt' = IF ok THEN 0 ELSE fail_cnt
                       /\ Charge(ok)
    /\ confirm' = "off"
    /\ UNCHANGED <<ota, bootloop, planned_rb, running, pc, install, reason, stable, clearing,
                   channel, ghost>>

(* The deadline passed and the receiver does not produce the required set:
   an image on trial is rolled back.  Otherwise, and when the roll-back fails,
   the task ends with nothing confirmed. *)
DeadlineLocalFault ==
    /\ pc = "up"
    /\ confirm = "check"
    /\ \/ /\ Pending
          /\ entry' = [entry EXCEPT ![running] = "invalid"]
          /\ Reset("sw")
          /\ UNCHANGED faults
       \/ /\ \/ ~Pending /\ UNCHANGED faults
             \/ Pending /\ NvsFaulty /\ Charge(FALSE)
          /\ confirm' = "off"
          /\ stable' = 0
          /\ UNCHANGED <<entry, pc, reason, install, clearing, last_ver>>
    /\ UNCHANGED <<image, sel, www, nvs, running, channel, downloads, proven,
                   own>>

(* 45 minutes without a crash: neither a dead nor a late image gets here. *)
BootLoopClear ==
    /\ pc = "up"
    /\ clearing
    /\ Class[Fw] = "sound"
    /\ \E ok \in Nvs : /\ bootloop' = IF ok THEN 0 ELSE bootloop
                       /\ own' = IF ok THEN [v \in Versions |-> 0] ELSE own
                       /\ Charge(ok)
    /\ clearing' = FALSE
    /\ UNCHANGED <<ota, fail_ver, fail_cnt, planned_rb, running, pc, install, reason, confirm,
                   stable, channel, downloads, proven, last_ver>>

(* Reboot to install, unless the budget for that version is spent. *)
DailyPoll ==
    /\ pc = "up"
    /\ Newer
    /\ \/ ~Exhausted /\ PlannedReboot
       \/ NvsFaulty /\ Charge(FALSE) /\ planned_rb' = TRUE /\ Reset("sw")
    /\ UNCHANGED <<ota, fail_ver, fail_cnt, bootloop, running, channel, downloads, proven,
                   own>>

Guard == GuardNvsFails \/ GuardNotCounted \/ GuardCounts \/ FallbackErase
           \/ FallbackEraseFails \/ FallbackClear \/ FallbackRestart
Installer == BootCheckReturns \/ BootCheckBooks \/ FirmwareBegin \/ FirmwareWritten
           \/ FirmwareSelect \/ WwwErase \/ WwwCopied \/ InstallFails \/ InstallDone
Confirm == \/ \E ok \in BOOLEAN : HealthCheck(ok)
           \/ UnprovisionedConfirm \/ ConfirmMark \/ ConfirmClear \/ DeadlineLocalFault
Environment == PowerLoss \/ SupervisorReboot \/ UserReboot \/ Publish

Next ==
    \/ Bootloader \/ Guard \/ Installer \/ Confirm \/ BootLoopClear \/ DailyPoll
    \/ Crash \/ Environment

Spec == Init /\ [][Next]_vars

(* The bootloader and app_main make progress, and a bad image that is started
   again and again does crash: users and daily polls do not always restart the
   device before that. *)
FairSpec ==
    /\ Spec
    /\ WF_vars(Bootloader) /\ WF_vars(Guard) /\ WF_vars(Installer)
    /\ SF_vars(Crash)
-----------------------------------------------------------------------------
(* Type invariant of flash, NVS and the tasks. *)
TypeOK ==
    /\ image \in [Partitions -> Versions \cup {0}]
    /\ entry \in [OtaSlots -> EntryState]
    /\ sel \in OtaSlots
    /\ www \in Versions \cup {0}
    /\ fail_ver \in Versions \cup {0} /\ fail_cnt \in 0 .. MaxAttempts
    /\ bootloop \in 0 .. 255 /\ planned_rb \in BOOLEAN
    /\ running \in Partitions
    /\ pc \in {"off", "guard", "erase", "erased", "fallback", "check", "files", "download",
               "written", "copy", "up"}
    /\ target \in Versions \cup {0} /\ file \in 1 .. Len(Files) + 1 /\ total \in BOOLEAN
    /\ reason \in {"power", "crash", "sw"}
    /\ confirm \in {"off", "check", "mark", "clear"}
    /\ stable \in 0 .. StableN /\ clearing \in BOOLEAN
    /\ channel \in Versions /\ faults \in 0 .. MaxFaults

(* Whatever step a power loss or a crash interrupts, the partition that the
   bootloader will choose holds a complete image: an install never erases
   what otadata points to, and never points otadata to what is unfinished. *)
Bootable == image[Choice(Aborted)] # 0

(* "After MAX_OTA_ATTEMPTS failed installs of a given version we stop
   retrying it": a version is downloaded at most that often before it is
   confirmed, crashes and power losses in the middle of a download
   included, and once more only for an attempt that NVS refused to book. *)
AttemptsBounded == \A v \in Versions : downloads[v] <= MaxAttempts

(* An image is confirmed only after it met the health contract itself: a
   slot marked valid that the bootloader may choose holds a version that ran
   and proved healthy. *)
ValidIsProven ==
    LET s == Choice(Aborted)
    IN  s # "factory" /\ entry[s] = "valid" => image[s] \in proven

(* "MAX_BOOT_LOOPS in a row -> fall back to the FACTORY app": a downloaded
   version is not started again after more counted resets of its own than
   that, until it survives for 45 minutes; a power loss that interrupts the
   fallback costs one more, as an uncounted boot does not try again. *)
StreakBounded == \A v \in Versions \ {1} : own[v] <= MaxBootLoops + faults

(* The claim of update.c, "the device can never stay stuck in a crash-loop
   regardless of cause": from some point on the device runs images that do not
   crash.  The code does not keep it for an image that meets the health
   contract before it crashes: its confirmation erases the attempt counter, so
   the factory image that the guard falls back to installs it again. *)
CrashLoopEnds == <>[](Class[Fw] = "sound")

(* What the two counters and the roll-back do guarantee, together and through
   power losses and NVS errors: unless the channel goes on offering an image
   that proves healthy and crashes afterwards, the device ends on images that
   do not crash, whatever it installed before. *)
EndsOnceWithdrawn ==
    <>[](Class[channel] # "late") => <>[](Class[Fw] = "sound")
=============================================================================

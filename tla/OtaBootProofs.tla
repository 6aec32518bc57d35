--------------------------- MODULE OtaBootProofs ---------------------------
(***************************************************************************)
(* Proofs about OtaBoot, for every list of versions and manifest files and *)
(* any number of power losses and crashes.                                 *)
(***************************************************************************)
EXTENDS OtaBoot, TLAPS

GhostTypeOK ==
    /\ downloads \in [Versions -> Int] /\ own \in [Versions -> Nat]
    /\ proven \subseteq Versions /\ last_ver \in Versions

(* Where app_main is, and what the tasks have got to. *)
Phases ==
    /\ pc \in {"off", "guard", "erase", "erased", "fallback", "check", "up"} => file = 1
    /\ pc \in {"files", "download", "written", "copy"} => target # 0
    /\ pc \in {"download", "written"} => file <= Len(Files) /\ Files[file] = "fw" /\ ~Pending
    /\ pc = "copy" => file <= Len(Files) /\ Files[file] = "www"
    /\ pc = "written" => image[InstallSlot] = target
    /\ confirm # "off" => pc = "up"
    /\ confirm = "check" => stable < StableN

(* No slot has been selected since the bootloader chose. *)
Unselected ==
    \/ pc \in {"guard", "erase", "check", "download", "written"}
    \/ pc \in {"files", "copy"} /\ \A k \in 1 .. file - 1 : Files[k] # "fw"

(* What the bootloader started, against otadata. *)
Booted ==
    /\ image["factory"] = 1
    /\ pc # "off" => image[running] # 0
    /\ pc \notin {"off", "erased", "fallback"} /\ running # "factory" =>
         entry[running] \in {"pending", "valid"}
    /\ pc \in {"erased", "fallback"} => \A s \in OtaSlots : entry[s] = "none"
    /\ \A s \in OtaSlots : entry[s] = "pending" => s = running
    /\ \A s \in OtaSlots : entry[s] = "new" =>
         sel = s /\ \A r \in OtaSlots : entry[r] # "pending"
    /\ Unselected =>
         /\ \A s \in OtaSlots : entry[s] # "new"
         /\ running = "factory" => \A s \in OtaSlots : ~Usable(entry[s])
         /\ running # "factory" => sel = running \/ ~Usable(entry[sel])

(* An incomplete image in a slot that otadata calls usable is harmless: the
   other slot is the newest and confirmed. *)
Complete ==
    \A s \in OtaSlots : Usable(entry[s]) /\ image[s] = 0 =>
        sel # s /\ entry[sel] = "valid"

(* So is an image that never met the contract in a slot confirmed before. *)
Confirmed ==
    /\ \A s \in OtaSlots : entry[s] = "valid" /\ image[s] \notin proven =>
         sel # s /\ entry[sel] = "valid"
    /\ confirm = "mark" => Fw \in proven
    /\ \A v \in proven : Class[v] # "dead"

SlotInv == TypeOK /\ GhostTypeOK /\ Phases /\ Booted /\ Complete /\ Confirmed

(* This install has not come to its firmware yet. *)
Unfetched == pc \in {"files", "copy"} /\ \A k \in 1 .. file - 1 : Files[k] # "fw"

(* No image is newer than the channel. *)
Ceilings ==
    /\ \A s \in Partitions : image[s] <= channel
    /\ target <= channel /\ fail_ver <= channel

(* fail_cnt counts the downloads of fail_ver, and later versions have none
   but unbooked ones. *)
Accounts ==
    /\ fail_ver # 0 => downloads[fail_ver] <= fail_cnt
    /\ \A v \in Versions : v > fail_ver /\ (fail_ver # 0 \/ v >= channel) => downloads[v] <= 0

(* A download is booked before it begins, or it was let through. *)
Allowance(v) == IF fail_ver = v THEN fail_cnt ELSE 0
InHand ==
    /\ Unfetched => downloads[target] < Allowance(target)
    /\ pc \in {"files", "copy", "download", "written"} =>
         fail_ver <= target /\ \A v \in Versions : v > target => downloads[v] <= 0

(* Nothing newer than an image on trial has been downloaded. *)
OnTrial ==
    /\ \A s \in OtaSlots : entry[s] \in {"new", "pending"} =>
         \A v \in Versions : v > image[s] => downloads[v] <= 0
    /\ confirm = "clear" => downloads[channel] <= 0

Booked == Ceilings /\ Accounts /\ InHand /\ OnTrial /\ AttemptsBounded

(* The guard has just counted a reset of v and started v again. *)
Counted(v) == pc \in {"erase", "erased"} /\ v = Fw /\ Fw = last_ver

(* The boot-loop counter bounds every streak ... *)
Under == \A v \in Versions : own[v] <= bootloop

(* ... a fallback under way is the last of it unless a fault interrupts it ... *)
Paid ==
    \A v \in Versions \ {1} :
        own[v] <= MaxBootLoops - 1 + faults + (IF Counted(v) THEN 1 ELSE 0)

(* ... and a dead image, never more than on trial, is not started twice. *)
DeadOnce ==
    /\ pc \notin {"off", "erased", "fallback"} /\ Class[Fw] = "dead" => Pending
    /\ pc = "off" /\ Class[last_ver] = "dead" => image[Choice(Aborted)] # last_ver
    /\ pc \in {"guard", "erase", "erased"} /\ Fw = last_ver => Class[Fw] # "dead"

Streaks == Under /\ Paid /\ DeadOnce
-----------------------------------------------------------------------------
(* The constants, as the provers need them. *)
LEMMA Consts ==
    /\ Len(Class) \in Nat /\ Versions = 1 .. Len(Class) /\ 1 \in Versions
    /\ \A v \in Versions : v \in Nat /\ v # 0 /\ Class[v] \in {"sound", "dead", "late"}
    /\ Class[1] = "sound"
    /\ Len(Files) \in Nat
    /\ \A k \in 1 .. Len(Files) : Files[k] \in {"fw", "www"}
    /\ \A j, k \in 1 .. Len(Files) : Files[j] = "fw" /\ Files[k] = "fw" => j = k
    /\ MaxAttempts \in Nat \ {0} /\ MaxBootLoops \in Nat \ {0} /\ StableN \in Nat \ {0}
    /\ MaxFaults \in Nat
  BY OtaConstants, OneFirmware, SMT DEF Versions

(* A write to flash fails only at the price of a fault. *)
LEMMA NvsOk ==
    ASSUME NEW ok \in Nvs, Charge(ok), TypeOK
    PROVE  /\ faults' \in 0 .. MaxFaults
           /\ \/ ok /\ faults' = faults
              \/ ~ok /\ faults' = faults + 1
<1>1. ok \in BOOLEAN /\ (~ok => faults < MaxFaults)
  BY Zenon DEF Nvs, NvsFaulty
<1>2. CASE ok
  <2>1. faults' = faults
    BY <1>2, Zenon DEF Charge
  <2>2. QED
    BY <1>2, <2>1, Zenon DEF TypeOK
<1>3. CASE ~ok
  <2>1. faults' = faults + 1
    BY <1>3, Zenon DEF Charge
  <2>2. faults + 1 \in 0 .. MaxFaults
    BY <1>1, <1>3, Consts, SMT DEF TypeOK
  <2>3. QED
    BY <1>3, <2>1, <2>2, Zenon
<1>4. QED
  BY <1>1, <1>2, <1>3

(* The bootloader chooses and starts an image. *)
LEMMA BootloaderKeeps == ASSUME SlotInv, Bootloader PROVE SlotInv'
<1> USE Consts DEF SlotInv, Bootloader, Choice, Aborted, Other, Pending, Fw,
      InstallSlot, Unselected, Usable, ota, nvs, install, tasks, ghost, OtaSlots,
      Partitions, EntryState
<1>1. TypeOK'
  BY SMTT(30) DEF TypeOK, GhostTypeOK, Phases
<1>2. GhostTypeOK'
  BY DEF TypeOK, GhostTypeOK, Phases, Booted
<1>3. Phases'
  BY DEF TypeOK, Phases, Booted
<1>4. Booted'
  <2> DEFINE s == Choice(Aborted)
  <2>1. /\ s \in Partitions /\ running' = s /\ image[s] # 0 /\ pc' = "guard"
        /\ image' = image /\ sel' = sel
    BY DEF TypeOK
  <2>2. \A x \in OtaSlots : entry'[x] = IF x = s /\ entry[x] = "new" THEN "pending"
                            ELSE IF entry[x] = "pending" THEN "aborted" ELSE entry[x]
    BY DEF TypeOK
  <2>3. \/ s = sel /\ entry[sel] \in {"new", "valid"}
        \/ s = Other(sel) /\ entry[s] \in {"new", "valid"} /\ entry[sel] \notin {"new", "valid"}
        \/ s = "factory" /\ \A x \in OtaSlots : entry[x] \notin {"new", "valid"}
    BY SMTT(30) DEF TypeOK
  <2>4. sel \in OtaSlots /\ \A x \in OtaSlots : entry[x] \in EntryState
    BY DEF TypeOK
  <2>5. \A x \in OtaSlots : entry[x] = "new" => sel = x
    BY DEF Booted
  <2>6. QED
    <3> HIDE DEF s, SlotInv, Bootloader, Choice, Aborted
    <3>1. /\ \A x \in OtaSlots : entry'[x] # "new"
          /\ \A x \in OtaSlots : entry'[x] = "pending" => x = running'
      BY <2>1, <2>2, <2>3, <2>4, <2>5, SMT
    <3>2. running' # "factory" => entry'[running'] \in {"pending", "valid"}
      BY <2>1, <2>2, <2>3, <2>4, SMT
    <3>3. /\ running' = "factory" => \A x \in OtaSlots : ~Usable(entry'[x])
          /\ running' # "factory" => sel' = running' \/ ~Usable(entry'[sel'])
      BY <2>1, <2>2, <2>3, <2>4, SMT
    <3>4. image["factory"] = 1
      BY DEF SlotInv, Booted
    <3>5. QED
      <4> HIDE DEF Usable
      <4>1. QED
        BY <2>1, <3>1, <3>2, <3>3, <3>4, SMT DEF Booted
<1>5. Complete'
  BY DEF TypeOK, Phases, Booted, Complete
<1>6. Confirmed'
  <2>1. UNCHANGED <<image, sel, proven, confirm>> /\ pc = "off"
    BY Zenon
  <2>2. confirm' # "mark" /\ sel \in OtaSlots
    BY <2>1 DEF TypeOK, Phases
  <2>3. \A x \in OtaSlots : entry'[x] = "valid" <=> entry[x] = "valid"
    <3> DEFINE s == Choice(Aborted)
    <3>1. entry' = [x \in OtaSlots |-> IF x = s /\ Aborted[x] = "new" THEN "pending"
                                                                    ELSE Aborted[x]]
      BY Zenon
    <3> HIDE DEF s, Bootloader, Choice
    <3>2. QED
      BY <3>1, SMT
  <2>4. QED
    <3> HIDE DEF Bootloader, Choice, Aborted
    <3>1. QED
      BY <2>1, <2>2, <2>3, Zenon DEF Confirmed
<1>7. QED
  BY <1>1, <1>2, <1>3, <1>4, <1>5, <1>6

(* The guard without NVS. *)
LEMMA GuardNvsFailsKeeps == ASSUME SlotInv, GuardNvsFails PROVE SlotInv'
<1> USE Consts DEF SlotInv, GuardNvsFails, NvsFaulty, Charge, Pending, InstallSlot,
      Other, Fw, Unselected, ota, nvs, install, tasks, ghost, OtaSlots, Partitions,
      EntryState
<1>1. TypeOK'
  BY DEF TypeOK, GhostTypeOK, Phases
<1>2. GhostTypeOK'
  BY DEF TypeOK, GhostTypeOK, Phases, Booted
<1>3. Phases'
  BY DEF TypeOK, Phases, Booted
<1>4. Booted'
  BY DEF TypeOK, Phases, Booted, Complete
<1>5. Complete'
  BY DEF TypeOK, Phases, Booted, Complete
<1>6. Confirmed'
  BY DEF TypeOK, GhostTypeOK, Phases, Booted, Confirmed
<1>7. QED
  BY <1>1, <1>2, <1>3, <1>4, <1>5, <1>6

(* A boot that does not count. *)
LEMMA GuardNotCountedKeeps == ASSUME SlotInv, GuardNotCounted PROVE SlotInv'
<1> USE Consts DEF SlotInv, GuardNotCounted, Pending, InstallSlot, Other, Fw,
      Unselected, ota, nvs, install, tasks, ghost, OtaSlots, Partitions, EntryState
<1>1. TypeOK'
  BY ZenonT(30) DEF TypeOK, GhostTypeOK, Phases
<1>2. GhostTypeOK'
  BY DEF TypeOK, GhostTypeOK, Phases, Booted
<1>3. Phases'
  BY DEF TypeOK, Phases, Booted
<1>4. Booted'
  BY DEF TypeOK, Phases, Booted, Complete
<1>5. Complete'
  BY DEF TypeOK, Phases, Booted, Complete
<1>6. Confirmed'
  BY DEF TypeOK, GhostTypeOK, Phases, Booted, Confirmed
<1>7. QED
  BY <1>1, <1>2, <1>3, <1>4, <1>5, <1>6

(* A boot that counts. *)
LEMMA GuardCountsKeeps == ASSUME SlotInv, GuardCounts PROVE SlotInv'
<1> USE Consts DEF SlotInv, GuardCounts, Pending, InstallSlot, Other, Fw,
      Unselected, Looped, ota, nvs, install, tasks, ghost, OtaSlots, Partitions,
      EntryState
<1>1. TypeOK'
  <2>1. bootloop' \in 0 .. 255 /\ pc' \in {"erase", "check"}
    BY SMT DEF TypeOK, Phases
  <2>2. planned_rb' \in BOOLEAN /\ total' \in BOOLEAN /\ clearing' \in BOOLEAN
    BY Zenon DEF TypeOK
  <2>3. QED
    BY <2>1, <2>2, SMT DEF TypeOK
<1>2. GhostTypeOK'
  BY DEF TypeOK, GhostTypeOK, Phases, Booted
<1>3. Phases'
  BY DEF TypeOK, Phases, Booted
<1>4. Booted'
  BY DEF TypeOK, Phases, Booted, Complete
<1>5. Complete'
  BY DEF TypeOK, Phases, Booted, Complete
<1>6. Confirmed'
  BY DEF TypeOK, GhostTypeOK, Phases, Booted, Confirmed
<1>7. QED
  BY <1>1, <1>2, <1>3, <1>4, <1>5, <1>6

(* The fallback erases otadata. *)
LEMMA FallbackEraseKeeps == ASSUME SlotInv, FallbackErase PROVE SlotInv'
<1> USE Consts DEF SlotInv, FallbackErase, Pending, InstallSlot, Other, Fw,
      Unselected, Usable, ota, nvs, install, tasks, ghost, OtaSlots, Partitions,
      EntryState
<1>1. TypeOK'
  BY DEF TypeOK, GhostTypeOK, Phases
<1>2. GhostTypeOK'
  BY DEF TypeOK, GhostTypeOK, Phases, Booted
<1>3. Phases'
  BY DEF TypeOK, Phases, Booted
<1>4. Booted'
  BY DEF TypeOK, Phases, Booted, Complete
<1>5. Complete'
  BY DEF TypeOK, Phases, Booted, Complete
<1>6. Confirmed'
  BY DEF TypeOK, GhostTypeOK, Phases, Booted, Confirmed
<1>7. QED
  BY <1>1, <1>2, <1>3, <1>4, <1>5, <1>6

(* Otadata cannot be erased. *)
LEMMA FallbackEraseFailsKeeps == ASSUME SlotInv, FallbackEraseFails PROVE SlotInv'
<1> USE Consts DEF SlotInv, FallbackEraseFails, NvsFaulty, Charge, Pending,
      InstallSlot, Other, Fw, Unselected, ota, nvs, install, tasks, ghost, OtaSlots,
      Partitions, EntryState
<1>1. TypeOK'
  BY DEF TypeOK, GhostTypeOK, Phases
<1>2. GhostTypeOK'
  BY DEF TypeOK, GhostTypeOK, Phases, Booted
<1>3. Phases'
  BY DEF TypeOK, Phases, Booted
<1>4. Booted'
  BY DEF TypeOK, Phases, Booted, Complete
<1>5. Complete'
  BY DEF TypeOK, Phases, Booted, Complete
<1>6. Confirmed'
  BY DEF TypeOK, GhostTypeOK, Phases, Booted, Confirmed
<1>7. QED
  BY <1>1, <1>2, <1>3, <1>4, <1>5, <1>6

(* The fallback clears its counter. *)
LEMMA FallbackClearKeeps == ASSUME SlotInv, FallbackClear PROVE SlotInv'
<1> USE Consts DEF SlotInv, FallbackClear, Nvs, NvsFaulty, Charge, Pending,
      InstallSlot, Other, Fw, Unselected, ota, nvs, install, tasks, ghost, OtaSlots,
      Partitions, EntryState
<1>1. TypeOK'
  <2>1. PICK ok \in Nvs : bootloop' = (IF ok THEN 0 ELSE bootloop) /\ Charge(ok)
    BY Zenon
  <2>2. bootloop' \in 0 .. 255 /\ faults' \in 0 .. MaxFaults
    <3>1. faults' \in 0 .. MaxFaults /\ bootloop' \in {0, bootloop}
      BY <2>1, NvsOk, Zenon
    <3>2. QED
      BY <3>1, SMT DEF TypeOK
  <2>3. planned_rb' \in BOOLEAN /\ total' \in BOOLEAN /\ clearing' \in BOOLEAN
    BY Zenon DEF TypeOK
  <2>4. QED
    BY <2>2, <2>3, SMT DEF TypeOK
<1>2. GhostTypeOK'
  BY DEF TypeOK, GhostTypeOK, Phases, Booted
<1>3. Phases'
  BY DEF TypeOK, Phases, Booted
<1>4. Booted'
  BY DEF TypeOK, Phases, Booted, Complete
<1>5. Complete'
  BY DEF TypeOK, Phases, Booted, Complete
<1>6. Confirmed'
  BY DEF TypeOK, GhostTypeOK, Phases, Booted, Confirmed
<1>7. QED
  BY <1>1, <1>2, <1>3, <1>4, <1>5, <1>6

(* Nothing to install. *)
LEMMA BootCheckReturnsKeeps == ASSUME SlotInv, BootCheckReturns PROVE SlotInv'
<1> USE Consts DEF SlotInv, BootCheckReturns, DataPlane, Pending, InstallSlot,
      Other, Fw, Unselected, ota, nvs, install, tasks, ghost, OtaSlots, Partitions,
      EntryState
<1>1. TypeOK'
  <2>1. file' \in 1 .. Len(Files) + 1 /\ stable' \in 0 .. StableN
    BY SMT DEF TypeOK, Phases
  <2>2. QED
    BY <2>1, Zenon DEF TypeOK
<1>2. GhostTypeOK'
  BY DEF TypeOK, GhostTypeOK, Phases, Booted
<1>3. Phases'
  BY DEF TypeOK, Phases, Booted
<1>4. Booted'
  BY DEF TypeOK, Phases, Booted, Complete
<1>5. Complete'
  BY DEF TypeOK, Phases, Booted, Complete
<1>6. Confirmed'
  BY DEF TypeOK, GhostTypeOK, Phases, Booted, Confirmed
<1>7. QED
  BY <1>1, <1>2, <1>3, <1>4, <1>5, <1>6

(* An attempt is booked. *)
LEMMA BootCheckBooksKeeps == ASSUME SlotInv, BootCheckBooks PROVE SlotInv'
<1> USE Consts DEF SlotInv, BootCheckBooks, Newer, Exhausted, Book, NvsFaulty,
      Charge, Pending, InstallSlot, Other, Fw, Unselected, ota, nvs, install, tasks,
      ghost, OtaSlots, Partitions, EntryState
<1>1. TypeOK'
  <2>1. fail_ver' \in Versions \cup {0} /\ fail_cnt' \in 0 .. MaxAttempts
          /\ target' \in Versions \cup {0} /\ faults' \in 0 .. MaxFaults
    BY SMTT(30) DEF TypeOK, Phases
  <2>2. QED
    BY <2>1, ZenonT(30) DEF TypeOK
<1>2. GhostTypeOK'
  <2>1. downloads' \in [Versions -> Int]
    BY SMT DEF TypeOK, GhostTypeOK
  <2>2. QED
    BY <2>1, Zenon DEF GhostTypeOK
<1>3. Phases'
  BY DEF TypeOK, Phases, Booted
<1>4. Booted'
  BY DEF TypeOK, Phases, Booted, Complete
<1>5. Complete'
  BY DEF TypeOK, Phases, Booted, Complete
<1>6. Confirmed'
  BY DEF TypeOK, GhostTypeOK, Phases, Booted, Confirmed
<1>7. QED
  BY <1>1, <1>2, <1>3, <1>4, <1>5, <1>6

(* Esp_ota_begin erases the other slot, which only a confirmed image or the factory image may do. *)
LEMMA FirmwareBeginKeeps == ASSUME SlotInv, FirmwareBegin PROVE SlotInv'
<1> USE Consts DEF SlotInv, FirmwareBegin, Begin, Pending, InstallSlot, Other, Fw,
      Unselected, Usable, ota, nvs, install, tasks, ghost, OtaSlots, Partitions,
      EntryState
<1>1. TypeOK'
  BY DEF TypeOK, GhostTypeOK, Phases
<1>2. GhostTypeOK'
  <2>1. target \in Versions
    BY DEF TypeOK, Phases
  <2>2. downloads' \in [Versions -> Int]
    <3>1. PICK n \in Int : downloads' = [downloads EXCEPT ![target] = n]
      <4>1. downloads[target] \in Int /\ downloads[target] + 1 \in Int
        BY <2>1, SMT DEF GhostTypeOK
      <4>2. QED
        BY <4>1, Zenon
    <3>2. QED
      BY <2>1, <3>1, SMT DEF GhostTypeOK
  <2>3. QED
    BY <2>2, Zenon DEF GhostTypeOK
<1>3. Phases'
  BY DEF TypeOK, Phases, Booted
<1>4. Booted'
  BY DEF TypeOK, Phases, Booted, Complete
<1>5. Complete'
  BY DEF TypeOK, Phases, Booted, Complete
<1>6. Confirmed'
  <2>1. Unselected /\ confirm = "off"
    BY DEF TypeOK, Phases
  <2>2. ASSUME NEW s \in OtaSlots, entry'[s] = "valid", image'[s] \notin proven'
        PROVE  sel' # s /\ entry'[sel'] = "valid"
    BY <2>1, <2>2, SMT DEF TypeOK, Phases, Booted, Confirmed
  <2>3. QED
    BY <2>1, <2>2, Zenon DEF Confirmed
<1>7. QED
  BY <1>1, <1>2, <1>3, <1>4, <1>5, <1>6

(* The image is complete. *)
LEMMA FirmwareWrittenKeeps == ASSUME SlotInv, FirmwareWritten PROVE SlotInv'
<1> USE Consts DEF SlotInv, FirmwareWritten, Pending, InstallSlot, Other, Fw,
      Unselected, Usable, ota, nvs, install, tasks, ghost, OtaSlots, Partitions,
      EntryState
<1>1. TypeOK'
  BY DEF TypeOK, GhostTypeOK, Phases
<1>2. GhostTypeOK'
  BY DEF TypeOK, GhostTypeOK, Phases, Booted
<1>3. Phases'
  BY DEF TypeOK, Phases, Booted
<1>4. Booted'
  BY DEF TypeOK, Phases, Booted, Complete
<1>5. Complete'
  BY DEF TypeOK, Phases, Booted, Complete
<1>6. Confirmed'
  BY DEF TypeOK, GhostTypeOK, Phases, Booted, Confirmed
<1>7. QED
  BY <1>1, <1>2, <1>3, <1>4, <1>5, <1>6

(* Otadata points to it. *)
LEMMA FirmwareSelectKeeps == ASSUME SlotInv, FirmwareSelect PROVE SlotInv'
<1> USE Consts DEF SlotInv, FirmwareSelect, Pending, InstallSlot, Other, Fw,
      Unselected, Usable, ota, nvs, install, tasks, ghost, OtaSlots, Partitions,
      EntryState
<1>1. TypeOK'
  BY DEF TypeOK, GhostTypeOK, Phases
<1>2. GhostTypeOK'
  BY DEF TypeOK, GhostTypeOK, Phases, Booted
<1>3. Phases'
  BY DEF TypeOK, Phases, Booted
<1>4. Booted'
  BY DEF TypeOK, Phases, Booted, Complete
<1>5. Complete'
  BY DEF TypeOK, Phases, Booted, Complete
<1>6. Confirmed'
  BY SMTT(30) DEF TypeOK, GhostTypeOK, Phases, Booted, Confirmed
<1>7. QED
  BY <1>1, <1>2, <1>3, <1>4, <1>5, <1>6

(* The web partition is erased. *)
LEMMA WwwEraseKeeps == ASSUME SlotInv, WwwErase PROVE SlotInv'
<1> USE Consts DEF SlotInv, WwwErase, Pending, InstallSlot, Other, Fw, Unselected,
      ota, nvs, install, tasks, ghost, OtaSlots, Partitions, EntryState
<1>1. TypeOK'
  BY DEF TypeOK, GhostTypeOK, Phases
<1>2. GhostTypeOK'
  BY DEF TypeOK, GhostTypeOK, Phases, Booted
<1>3. Phases'
  BY DEF TypeOK, Phases, Booted
<1>4. Booted'
  BY DEF TypeOK, Phases, Booted, Complete
<1>5. Complete'
  BY DEF TypeOK, Phases, Booted, Complete
<1>6. Confirmed'
  BY DEF TypeOK, GhostTypeOK, Phases, Booted, Confirmed
<1>7. QED
  BY <1>1, <1>2, <1>3, <1>4, <1>5, <1>6

(* The web partition is copied. *)
LEMMA WwwCopiedKeeps == ASSUME SlotInv, WwwCopied PROVE SlotInv'
<1> USE Consts DEF SlotInv, WwwCopied, Pending, InstallSlot, Other, Fw, Unselected,
      ota, nvs, install, tasks, ghost, OtaSlots, Partitions, EntryState
<1>1. TypeOK'
  BY DEF TypeOK, GhostTypeOK, Phases
<1>2. GhostTypeOK'
  BY DEF TypeOK, GhostTypeOK, Phases, Booted
<1>3. Phases'
  BY DEF TypeOK, Phases, Booted
<1>4. Booted'
  <2>1. Unselected' => Unselected
    BY SMT DEF TypeOK, Phases
  <2>2. QED
    BY <2>1, SMT DEF TypeOK, Phases, Booted
<1>5. Complete'
  BY DEF TypeOK, Phases, Booted, Complete
<1>6. Confirmed'
  BY DEF TypeOK, GhostTypeOK, Phases, Booted, Confirmed
<1>7. QED
  BY <1>1, <1>2, <1>3, <1>4, <1>5, <1>6

(* An install is given up. *)
LEMMA InstallFailsKeeps == ASSUME SlotInv, InstallFails PROVE SlotInv'
<1> USE Consts DEF SlotInv, InstallFails, DataPlane, Pending, InstallSlot, Other,
      Fw, Unselected, ota, nvs, install, tasks, ghost, OtaSlots, Partitions,
      EntryState
<1>1. TypeOK'
  <2>1. file' \in 1 .. Len(Files) + 1 /\ stable' \in 0 .. StableN
    BY SMT DEF TypeOK, Phases
  <2>2. QED
    BY <2>1, Zenon DEF TypeOK
<1>2. GhostTypeOK'
  BY DEF TypeOK, GhostTypeOK, Phases, Booted
<1>3. Phases'
  BY DEF TypeOK, Phases, Booted
<1>4. Booted'
  BY DEF TypeOK, Phases, Booted, Complete
<1>5. Complete'
  BY DEF TypeOK, Phases, Booted, Complete
<1>6. Confirmed'
  BY DEF TypeOK, GhostTypeOK, Phases, Booted, Confirmed
<1>7. QED
  BY <1>1, <1>2, <1>3, <1>4, <1>5, <1>6

(* A check of the health contract. *)
LEMMA HealthCheckKeeps == ASSUME SlotInv, (\E ok \in BOOLEAN : HealthCheck(ok)) PROVE SlotInv'
<1> USE Consts DEF SlotInv, HealthCheck, Ready, Pending, InstallSlot, Other, Fw,
      Unselected, ota, nvs, install, tasks, ghost, OtaSlots, Partitions, EntryState
<1>1. TypeOK'
  BY DEF TypeOK, GhostTypeOK, Phases
<1>2. GhostTypeOK'
  <2>1. Fw \in Versions
    BY DEF TypeOK, Phases, Booted
  <2>2. QED
    BY <2>1, Zenon DEF GhostTypeOK
<1>3. Phases'
  BY DEF TypeOK, Phases, Booted
<1>4. Booted'
  BY DEF TypeOK, Phases, Booted, Complete
<1>5. Complete'
  BY DEF TypeOK, Phases, Booted, Complete
<1>6. Confirmed'
  BY DEF TypeOK, GhostTypeOK, Phases, Booted, Confirmed
<1>7. QED
  BY <1>1, <1>2, <1>3, <1>4, <1>5, <1>6

(* The exception for a unit without uploader. *)
LEMMA UnprovisionedConfirmKeeps == ASSUME SlotInv, UnprovisionedConfirm PROVE SlotInv'
<1> USE Consts DEF SlotInv, UnprovisionedConfirm, Pending, InstallSlot, Other, Fw,
      Unselected, ota, nvs, install, tasks, ghost, OtaSlots, Partitions, EntryState
<1>1. TypeOK'
  BY DEF TypeOK, GhostTypeOK, Phases
<1>2. GhostTypeOK'
  <2>1. Fw \in Versions
    BY DEF TypeOK, Phases, Booted
  <2>2. QED
    BY <2>1, Zenon DEF GhostTypeOK
<1>3. Phases'
  BY DEF TypeOK, Phases, Booted
<1>4. Booted'
  BY DEF TypeOK, Phases, Booted, Complete
<1>5. Complete'
  BY DEF TypeOK, Phases, Booted, Complete
<1>6. Confirmed'
  BY DEF TypeOK, GhostTypeOK, Phases, Booted, Confirmed
<1>7. QED
  BY <1>1, <1>2, <1>3, <1>4, <1>5, <1>6

(* The running image is confirmed. *)
LEMMA ConfirmMarkKeeps == ASSUME SlotInv, ConfirmMark PROVE SlotInv'
<1> USE Consts DEF SlotInv, ConfirmMark, NvsFaulty, Charge, Pending, InstallSlot,
      Other, Fw, Unselected, Usable, ota, nvs, install, tasks, ghost, OtaSlots,
      Partitions, EntryState
<1>1. TypeOK'
  BY SMTT(30) DEF TypeOK, GhostTypeOK, Phases
<1>2. GhostTypeOK'
  <2>1. downloads' \in [Versions -> Int]
    BY SMT DEF GhostTypeOK
  <2>2. QED
    BY <2>1, Zenon DEF GhostTypeOK
<1>3. Phases'
  BY DEF TypeOK, Phases, Booted
<1>4. Booted'
  BY DEF TypeOK, Phases, Booted, Complete
<1>5. Complete'
  BY DEF TypeOK, Phases, Booted, Complete
<1>6. Confirmed'
  BY DEF TypeOK, GhostTypeOK, Phases, Booted, Confirmed
<1>7. QED
  BY <1>1, <1>2, <1>3, <1>4, <1>5, <1>6

(* The attempt counter is cleared. *)
LEMMA ConfirmClearKeeps == ASSUME SlotInv, ConfirmClear PROVE SlotInv'
<1> USE Consts DEF SlotInv, ConfirmClear, Nvs, NvsFaulty, Charge, Pending,
      InstallSlot, Other, Fw, Unselected, ota, nvs, install, tasks, ghost, OtaSlots,
      Partitions, EntryState
<1>1. TypeOK'
  <2>1. PICK ok \in Nvs : /\ fail_ver' = (IF ok THEN 0 ELSE fail_ver)
                         /\ fail_cnt' = (IF ok THEN 0 ELSE fail_cnt) /\ Charge(ok)
    BY Zenon
  <2>2. fail_ver' \in Versions \cup {0} /\ fail_cnt' \in 0 .. MaxAttempts
          /\ faults' \in 0 .. MaxFaults
    <3>1. faults' \in 0 .. MaxFaults /\ fail_ver' \in {0, fail_ver} /\ fail_cnt' \in {0, fail_cnt}
      BY <2>1, NvsOk, Zenon
    <3>2. QED
      BY <3>1, SMT DEF TypeOK
  <2>3. planned_rb' \in BOOLEAN /\ total' \in BOOLEAN /\ clearing' \in BOOLEAN
    BY Zenon DEF TypeOK
  <2>4. QED
    BY <2>2, <2>3, SMT DEF TypeOK
<1>2. GhostTypeOK'
  BY DEF TypeOK, GhostTypeOK, Phases, Booted
<1>3. Phases'
  BY DEF TypeOK, Phases, Booted
<1>4. Booted'
  BY DEF TypeOK, Phases, Booted, Complete
<1>5. Complete'
  BY DEF TypeOK, Phases, Booted, Complete
<1>6. Confirmed'
  BY DEF TypeOK, GhostTypeOK, Phases, Booted, Confirmed
<1>7. QED
  BY <1>1, <1>2, <1>3, <1>4, <1>5, <1>6

(* The roll-back. *)
LEMMA DeadlineLocalFaultKeeps == ASSUME SlotInv, DeadlineLocalFault PROVE SlotInv'
<1> USE Consts DEF SlotInv, DeadlineLocalFault, Reset, NvsFaulty, Charge, Pending,
      InstallSlot, Other, Fw, Unselected, Usable, ota, nvs, install, tasks, ghost,
      OtaSlots, Partitions, EntryState
<1>1. TypeOK'
  <2>1. faults' \in 0 .. MaxFaults /\ file' \in 1 .. Len(Files) + 1 /\ stable' \in 0 .. StableN
          /\ entry' \in [OtaSlots -> EntryState]
    BY SMTT(30) DEF TypeOK, Phases
  <2>2. QED
    BY <2>1, ZenonT(30) DEF TypeOK
<1>2. GhostTypeOK'
  <2>1. UNCHANGED <<downloads, own, proven>> /\ last_ver' \in {last_ver, image[running]}
    BY Zenon
  <2>2. image[running] \in Versions
    BY SMT DEF TypeOK, Booted
  <2>3. QED
    BY <2>1, <2>2, Zenon DEF GhostTypeOK
<1>3. Phases'
  BY DEF TypeOK, Phases, Booted
<1>4. Booted'
  BY SMTT(30) DEF TypeOK, Phases, Booted, Complete
<1>5. Complete'
  BY DEF TypeOK, Phases, Booted, Complete
<1>6. Confirmed'
  <2>1. confirm' # "mark" /\ image' = image /\ proven' = proven /\ sel' = sel
    BY Zenon
  <2>2. \A s \in OtaSlots : entry[s] = "valid" <=> entry'[s] = "valid"
    BY SMT DEF TypeOK
  <2>3. QED
    BY <2>1, <2>2, SMT DEF TypeOK, Confirmed
<1>7. QED
  BY <1>1, <1>2, <1>3, <1>4, <1>5, <1>6

(* The boot-loop counter is cleared. *)
LEMMA BootLoopClearKeeps == ASSUME SlotInv, BootLoopClear PROVE SlotInv'
<1> USE Consts DEF SlotInv, BootLoopClear, Nvs, NvsFaulty, Charge, Pending,
      InstallSlot, Other, Fw, Unselected, ota, nvs, install, tasks, ghost, OtaSlots,
      Partitions, EntryState
<1>1. TypeOK'
  <2>1. PICK ok \in Nvs : bootloop' = (IF ok THEN 0 ELSE bootloop) /\ Charge(ok)
    BY Zenon
  <2>2. bootloop' \in 0 .. 255 /\ faults' \in 0 .. MaxFaults
    <3>1. faults' \in 0 .. MaxFaults /\ bootloop' \in {0, bootloop}
      BY <2>1, NvsOk, Zenon
    <3>2. QED
      BY <3>1, SMT DEF TypeOK
  <2>3. planned_rb' \in BOOLEAN /\ total' \in BOOLEAN /\ clearing' \in BOOLEAN
    BY Zenon DEF TypeOK
  <2>4. QED
    BY <2>2, <2>3, SMT DEF TypeOK
<1>2. GhostTypeOK'
  BY DEF TypeOK, GhostTypeOK, Phases, Booted
<1>3. Phases'
  BY DEF TypeOK, Phases, Booted
<1>4. Booted'
  BY DEF TypeOK, Phases, Booted, Complete
<1>5. Complete'
  BY DEF TypeOK, Phases, Booted, Complete
<1>6. Confirmed'
  BY DEF TypeOK, GhostTypeOK, Phases, Booted, Confirmed
<1>7. QED
  BY <1>1, <1>2, <1>3, <1>4, <1>5, <1>6

(* A newer release. *)
LEMMA PublishKeeps == ASSUME SlotInv, Publish PROVE SlotInv'
<1> USE Consts DEF SlotInv, Publish, Pending, InstallSlot, Other, Fw, Unselected,
      ota, nvs, install, tasks, ghost, OtaSlots, Partitions, EntryState
<1>1. TypeOK'
  BY DEF TypeOK, GhostTypeOK, Phases
<1>2. GhostTypeOK'
  BY DEF TypeOK, GhostTypeOK, Phases, Booted
<1>3. Phases'
  BY DEF TypeOK, Phases, Booted
<1>4. Booted'
  BY DEF TypeOK, Phases, Booted, Complete
<1>5. Complete'
  BY DEF TypeOK, Phases, Booted, Complete
<1>6. Confirmed'
  BY DEF TypeOK, GhostTypeOK, Phases, Booted, Confirmed
<1>7. QED
  BY <1>1, <1>2, <1>3, <1>4, <1>5, <1>6

(* Any reset: what is in RAM is gone, what is in flash stays. *)
LEMMA ResetKeeps ==
    ASSUME SlotInv, pc # "off", NEW r \in {"power", "crash", "sw"}, Reset(r),
           UNCHANGED <<ota, fail_ver, fail_cnt, bootloop, running, channel, downloads, proven, own>>,
           planned_rb' \in BOOLEAN, faults' \in 0 .. MaxFaults
    PROVE  SlotInv'
<1> USE Consts DEF SlotInv, Reset, Pending, InstallSlot, Other, Fw, Unselected, ota, OtaSlots,
      Partitions, EntryState
<1>1. TypeOK'
  <2>1. file' \in 1 .. Len(Files) + 1 /\ stable' \in 0 .. StableN
    BY SMT DEF TypeOK
  <2>2. QED
    BY <2>1, Zenon DEF TypeOK
<1>2. GhostTypeOK'
  BY DEF TypeOK, GhostTypeOK, Booted
<1>3. Phases' /\ Booted'
  BY DEF TypeOK, Phases, Booted
<1>4. Complete' /\ Confirmed'
  BY DEF TypeOK, Complete, Confirmed
<1>5. QED
  BY <1>1, <1>2, <1>3, <1>4

(* What a planned reboot writes: the marker, or nothing at the price of a fault. *)
LEMMA PlannedWrites ==
    ASSUME TypeOK, PlannedReboot
    PROVE  planned_rb' \in BOOLEAN /\ faults' \in 0 .. MaxFaults /\ Reset("sw")
<1>1. PICK ok \in Nvs : planned_rb' = (ok \/ planned_rb) /\ Charge(ok)
  BY Zenon DEF PlannedReboot
<1>2. planned_rb' \in BOOLEAN
  BY <1>1, Zenon
<1>3. QED
  BY <1>1, <1>2, NvsOk, Zenon DEF PlannedReboot

(* The steps that end in a reset. *)
Resets == PowerLoss \/ Crash \/ SupervisorReboot \/ UserReboot \/ FallbackRestart \/ InstallDone
            \/ DailyPoll

(* They write nothing but the marker of a planned reboot. *)
LEMMA ResetFacts ==
    ASSUME SlotInv, Resets
    PROVE  /\ pc # "off" /\ \E r \in {"power", "crash", "sw"} : Reset(r)
           /\ UNCHANGED <<ota, fail_ver, fail_cnt, bootloop, running, channel, downloads, proven, own>>
           /\ planned_rb' \in BOOLEAN /\ faults' \in 0 .. MaxFaults
<1> USE DEF SlotInv
<1>1. CASE PowerLoss
  <2>1. faults' \in 0 .. MaxFaults
    BY <1>1, Consts, SMT DEF PowerLoss, TypeOK
  <2>2. QED
    BY <1>1, <2>1, Zenon DEF PowerLoss, TypeOK, nvs
<1>2. CASE Crash
  BY <1>2, Zenon DEF Crash, TypeOK, nvs
<1>3. CASE SupervisorReboot
  <2>1. faults' \in 0 .. MaxFaults
    BY <1>3, Consts, SMT DEF SupervisorReboot, TypeOK
  <2>2. QED
    BY <1>3, <2>1, Zenon DEF SupervisorReboot, TypeOK, nvs
<1>4. CASE UserReboot
  BY <1>4, PlannedWrites, Zenon DEF UserReboot
<1>5. CASE FallbackRestart
  BY <1>5, PlannedWrites, Zenon DEF FallbackRestart
<1>6. CASE InstallDone
  BY <1>6, PlannedWrites, Zenon DEF InstallDone
<1>7. CASE DailyPoll
  <2>1. CASE PlannedReboot
    BY <1>7, <2>1, PlannedWrites, Zenon DEF DailyPoll
  <2>2. CASE NvsFaulty /\ Charge(FALSE) /\ planned_rb' = TRUE /\ Reset("sw")
    <3>1. faults' = faults + 1 /\ faults < MaxFaults
      BY <2>2, Zenon DEF Charge, NvsFaulty
    <3>2. faults' \in 0 .. MaxFaults
      BY <3>1, Consts, SMT DEF TypeOK
    <3>3. QED
      BY <1>7, <2>2, <3>2, Zenon DEF DailyPoll
  <2>3. QED
    BY <1>7, <2>1, <2>2, Zenon DEF DailyPoll
<1>8. QED
  BY <1>1, <1>2, <1>3, <1>4, <1>5, <1>6, <1>7 DEF Resets

(* Every step keeps the invariant of the slots. *)
LEMMA SlotStep == ASSUME SlotInv, [Next]_vars PROVE SlotInv'
<1>1. CASE Bootloader
  BY <1>1, BootloaderKeeps
<1>2. CASE GuardNvsFails
  BY <1>2, GuardNvsFailsKeeps
<1>3. CASE GuardNotCounted
  BY <1>3, GuardNotCountedKeeps
<1>4. CASE GuardCounts
  BY <1>4, GuardCountsKeeps
<1>5. CASE FallbackErase
  BY <1>5, FallbackEraseKeeps
<1>6. CASE FallbackEraseFails
  BY <1>6, FallbackEraseFailsKeeps
<1>7. CASE FallbackClear
  BY <1>7, FallbackClearKeeps
<1>8. CASE BootCheckReturns
  BY <1>8, BootCheckReturnsKeeps
<1>9. CASE BootCheckBooks
  BY <1>9, BootCheckBooksKeeps
<1>10. CASE FirmwareBegin
  BY <1>10, FirmwareBeginKeeps
<1>11. CASE FirmwareWritten
  BY <1>11, FirmwareWrittenKeeps
<1>12. CASE FirmwareSelect
  BY <1>12, FirmwareSelectKeeps
<1>13. CASE WwwErase
  BY <1>13, WwwEraseKeeps
<1>14. CASE WwwCopied
  BY <1>14, WwwCopiedKeeps
<1>15. CASE InstallFails
  BY <1>15, InstallFailsKeeps
<1>16. CASE \E ok \in BOOLEAN : HealthCheck(ok)
  BY <1>16, HealthCheckKeeps
<1>17. CASE UnprovisionedConfirm
  BY <1>17, UnprovisionedConfirmKeeps
<1>18. CASE ConfirmMark
  BY <1>18, ConfirmMarkKeeps
<1>19. CASE ConfirmClear
  BY <1>19, ConfirmClearKeeps
<1>20. CASE DeadlineLocalFault
  BY <1>20, DeadlineLocalFaultKeeps
<1>21. CASE BootLoopClear
  BY <1>21, BootLoopClearKeeps
<1>22. CASE Publish
  BY <1>22, PublishKeeps
<1>23. CASE Resets
  BY <1>23, ResetFacts, ResetKeeps
<1>24. CASE UNCHANGED vars
  BY <1>24, SMTT(30) DEF vars, ota, nvs, install, tasks, ghost, SlotInv, TypeOK, GhostTypeOK, Phases,
       Booted, Complete, Confirmed, Pending, InstallSlot, Fw, Unselected
<1>25. QED
  BY <1>1, <1>2, <1>3, <1>4, <1>5, <1>6, <1>7, <1>8, <1>9, <1>10, <1>11, <1>12,
     <1>13, <1>14, <1>15, <1>16, <1>17, <1>18, <1>19, <1>20, <1>21, <1>22, <1>23,
     <1>24 DEF Next, Guard, Installer, Confirm, Environment, Resets

(* A fresh device satisfies it. *)
LEMMA SlotInit == Init => SlotInv
<1> SUFFICES ASSUME Init PROVE SlotInv
  OBVIOUS
<1> USE Consts DEF Init, OtaSlots, Partitions, EntryState, Usable, Fw
<1>1. TypeOK
  <2>1. /\ image \in [Partitions -> Versions \cup {0}] /\ fail_cnt \in 0 .. MaxAttempts
        /\ bootloop \in 0 .. 255 /\ file \in 1 .. Len(Files) + 1 /\ stable \in 0 .. StableN
        /\ faults \in 0 .. MaxFaults
    BY SMT
  <2>2. QED
    BY <2>1, Zenon DEF TypeOK
<1>2. GhostTypeOK /\ Phases
  BY SMT DEF GhostTypeOK, Phases, Pending
<1>3. Booted /\ Complete /\ Confirmed
  BY SMT DEF Booted, Complete, Confirmed, Unselected
<1>4. QED
  BY <1>1, <1>2, <1>3 DEF SlotInv

(* So it holds throughout. *)
LEMMA SlotsSound == Spec => []SlotInv
  BY SlotInit, SlotStep, PTL DEF Spec

(* The partition the bootloader will choose holds a complete image, wherever a
   power loss or a crash interrupts an install (esp_ota_begin erases, an entry
   is written only after esp_ota_end): for every manifest with one firmware,
   every sequence of versions and any number of faults. *)
THEOREM AlwaysBootable == Spec => []Bootable
<1>1. SlotInv => Bootable
  BY DEF SlotInv, TypeOK, Booted, Complete, Bootable, Choice, Aborted, Usable, Other, OtaSlots,
     Partitions
<1>2. QED
  BY <1>1, SlotsSound, PTL

(* What the bootloader chooses and otadata calls valid has met the contract. *)
LEMMA ValidInv == SlotInv => ValidIsProven
  BY DEF SlotInv, TypeOK, GhostTypeOK, Booted, Confirmed, ValidIsProven, Choice, Aborted,
     Usable,
     Other, OtaSlots, Partitions

(* A slot marked valid that the bootloader may choose holds a version that met
   the health contract (ota_mark_valid_task), for every manifest and any faults. *)
THEOREM OnlyProvenIsValid == Spec => []ValidIsProven
  BY ValidInv, SlotsSound, PTL
-----------------------------------------------------------------------------
(* The versions and counters are numbers. *)
LEMMA Numbers ==
    ASSUME SlotInv
    PROVE  /\ channel \in Nat /\ fail_ver \in Nat /\ fail_cnt \in Nat /\ target \in Nat
           /\ fail_ver # 0 => fail_ver \in Versions
           /\ \A s \in Partitions : image[s] \in Nat
           /\ \A v \in Versions : v \in Nat /\ downloads[v] \in Int
<1>1. \A v \in Versions \cup {0} : v \in Nat
  BY Consts, SMT
<1>2. channel \in Nat /\ fail_ver \in Nat /\ target \in Nat /\ \A s \in Partitions : image[s] \in Nat
  BY <1>1, SMT DEF SlotInv, TypeOK
<1>3. fail_cnt \in Nat /\ (fail_ver # 0 => fail_ver \in Versions)
  BY Consts, SMT DEF SlotInv, TypeOK
<1>4. \A v \in Versions : v \in Nat /\ downloads[v] \in Int
  BY <1>1, SMT DEF SlotInv, GhostTypeOK
<1>5. QED
  BY <1>2, <1>3, <1>4

(* ota_attempt_allowed books the attempt, or lets it through without NVS. *)
LEMMA BooksBooked == ASSUME SlotInv, Booked, BootCheckBooks PROVE Booked'
<1> USE Numbers, Consts DEF Booked
<1>1. /\ target' = channel /\ pc' = "files" /\ file' = 1 /\ channel \in Versions
      /\ UNCHANGED <<image, entry, channel, confirm>>
  <2>1. /\ pc = "check" /\ file' = file /\ target' = channel /\ pc' = "files"
        /\ UNCHANGED <<image, entry, channel, confirm>>
    BY Zenon DEF BootCheckBooks, ota, tasks
  <2>2. QED
    BY <2>1, SMT DEF SlotInv, TypeOK, Phases
<1>2. \A v \in Versions : v > channel => downloads[v] <= 0
  BY <1>1, SMT DEF Accounts, Ceilings
<1>3. downloads[channel] <= Allowance(channel)
  BY <1>1, SMT DEF Accounts, Ceilings, Allowance
<1>4. CASE Book /\ UNCHANGED downloads
  <2>1. fail_ver' = channel /\ fail_cnt' = Allowance(channel) + 1 /\ UNCHANGED downloads
    BY <1>4, Zenon DEF Book, Allowance
  <2>2. Ceilings'
    BY <1>1, <2>1, SMT DEF Ceilings
  <2>3. downloads[channel] < fail_cnt'
    BY <1>1, <1>3, <2>1, SMT DEF Allowance
  <2>4. Accounts'
    BY <1>1, <1>2, <2>1, <2>3, SMT DEF Accounts
  <2>5. InHand'
    BY <1>1, <1>2, <2>1, <2>3, SMT DEF InHand, Unfetched, Allowance
  <2>6. OnTrial' /\ AttemptsBounded'
    BY <1>1, <2>1, SMT DEF OnTrial, AttemptsBounded
  <2>7. QED
    BY <2>2, <2>4, <2>5, <2>6
<1>5. CASE /\ UNCHANGED <<fail_ver, fail_cnt>>
           /\ downloads' = [downloads EXCEPT ![channel] = downloads[channel] - 1]
  <2>1. \A v \in Versions :
          downloads'[v] = IF v = channel THEN downloads[v] - 1 ELSE downloads[v]
    BY <1>1, <1>5, SMT DEF SlotInv, GhostTypeOK
  <2>2. \A v \in Versions : downloads'[v] \in Int /\ downloads'[v] <= downloads[v]
    BY <2>1, SMT
  <2>3. Ceilings' /\ UNCHANGED <<fail_ver, fail_cnt>>
    BY <1>1, <1>5, SMT DEF Ceilings
  <2>4. Accounts'
    BY <1>1, <2>2, <2>3, SMT DEF Accounts
  <2>5. downloads'[channel] < Allowance(channel)
    BY <1>1, <1>3, <2>1, SMT DEF Allowance
  <2>6. InHand'
    BY <1>1, <1>2, <2>2, <2>3, <2>5, SMTT(30) DEF InHand, Unfetched, Allowance, Ceilings
  <2>7. OnTrial'
    <3>1. ASSUME NEW s \in OtaSlots, entry'[s] \in {"new", "pending"},
                 NEW v \in Versions, v > image'[s]
          PROVE  downloads'[v] <= 0
      BY <1>1, <2>2, <3>1, SMTT(30) DEF OnTrial
    <3>2. confirm' = "clear" => downloads'[channel'] <= 0
      BY <1>1, <2>2, SMT DEF OnTrial
    <3>3. QED
      BY <3>1, <3>2 DEF OnTrial
  <2>8. AttemptsBounded'
    <3>1. ASSUME NEW v \in Versions
          PROVE  downloads'[v] <= MaxAttempts
      <4>1. downloads[v] <= MaxAttempts /\ downloads[v] \in Int /\ MaxAttempts \in Int
        BY DEF AttemptsBounded
      <4>2. QED
        BY <2>2, <4>1, SMT
    <3>2. QED
      BY <3>1 DEF AttemptsBounded
  <2>9. QED
    BY <2>3, <2>4, <2>6, <2>7, <2>8
<1>6. QED
  BY <1>4, <1>5, Zenon DEF BootCheckBooks

(* A download counts once and was booked. *)
LEMMA BeginBooked == ASSUME SlotInv, Booked, FirmwareBegin PROVE Booked'
<1> USE Numbers, Consts DEF Booked
<1>1. Unfetched /\ Unselected
  BY SMT DEF FirmwareBegin, Unfetched, Unselected, SlotInv, TypeOK
<1>2. /\ target \in Versions /\ downloads[target] < Allowance(target) /\ fail_ver <= target
      /\ \A v \in Versions : v > target => downloads[v] <= 0
  BY <1>1, SMT DEF InHand, SlotInv, TypeOK, Phases, FirmwareBegin
<1>3. Allowance(target) \in Nat /\ Allowance(target) <= MaxAttempts
  BY SMT DEF SlotInv, TypeOK, Allowance
<1>4. downloads' = [downloads EXCEPT ![target] = downloads[target] + 1]
  <2>1. downloads' = [downloads EXCEPT ![target] =
                        IF downloads[target] <= MaxAttempts THEN downloads[target] + 1
                                                            ELSE downloads[target]]
    BY Zenon DEF FirmwareBegin
  <2>2. downloads[target] <= MaxAttempts
    BY <1>2, <1>3, SMT
  <2>3. QED
    BY <2>1, <2>2, Zenon
<1>5. /\ UNCHANGED <<entry, channel, fail_ver, fail_cnt, target, confirm>> /\ pc' = "download"
      /\ image' = [image EXCEPT ![InstallSlot] = 0]
  BY Zenon DEF FirmwareBegin, Begin, nvs, install, tasks
<1>6. \A v \in Versions : downloads'[v] = IF v = target THEN downloads[v] + 1 ELSE downloads[v]
  BY <1>2, <1>4, SMT DEF SlotInv, GhostTypeOK
<1>7. Ceilings'
  BY <1>5, SMT DEF Ceilings, SlotInv, TypeOK
<1>8. Accounts'
  <2>1. fail_ver' # 0 => downloads'[fail_ver'] <= fail_cnt'
    BY <1>2, <1>5, <1>6, SMT DEF Accounts, Allowance
  <2>2. ASSUME NEW v \in Versions, v > fail_ver, fail_ver # 0 \/ v >= channel
        PROVE  downloads'[v] <= 0
    BY <1>2, <1>6, <2>2, SMTT(30) DEF Accounts, Allowance
  <2>3. QED
    BY <1>5, <2>1, <2>2, SMT DEF Accounts
<1>9. InHand'
  <2>1. \A v \in Versions : v > target => downloads'[v] <= 0
    BY <1>2, <1>6, SMT
  <2>2. QED
    BY <1>2, <1>5, <2>1 DEF InHand, Unfetched
<1>10. OnTrial'
  <2>1. \A s \in OtaSlots : entry[s] \notin {"new", "pending"}
    BY <1>1, SMT DEF SlotInv, Booted, FirmwareBegin, Pending, OtaSlots
  <2>2. confirm # "clear"
    BY SMT DEF SlotInv, Phases, FirmwareBegin
  <2>3. QED
    BY <1>5, <2>1, <2>2 DEF OnTrial
<1>11. AttemptsBounded'
  <2>1. ASSUME NEW v \in Versions
        PROVE  downloads'[v] <= MaxAttempts
    <3>1. downloads[v] <= MaxAttempts /\ downloads[v] \in Int /\ MaxAttempts \in Int
      BY DEF AttemptsBounded
    <3>2. QED
      BY <1>2, <1>3, <1>6, <3>1, SMTT(30)
  <2>2. QED
    BY <2>1 DEF AttemptsBounded
<1>12. QED
  BY <1>7, <1>8, <1>9, <1>10, <1>11

(* The new image is selected: nothing newer was ever downloaded. *)
LEMMA SelectBooked == ASSUME SlotInv, Booked, FirmwareSelect PROVE Booked'
<1> USE Numbers, Consts DEF Booked
<1>1. /\ UNCHANGED <<image, channel, fail_ver, fail_cnt, target, confirm, downloads>>
      /\ entry' = [entry EXCEPT ![InstallSlot] = "new"] /\ pc = "written" /\ pc' = "files"
      /\ file' = file + 1
  BY Zenon DEF FirmwareSelect, nvs, tasks, ghost
<1>2. InstallSlot \in OtaSlots /\ image[InstallSlot] = target /\ confirm = "off" /\ target # 0
  BY <1>1, SMT DEF InstallSlot, Other, OtaSlots, SlotInv, Phases
<1>3. ~Unfetched'
  BY <1>1, SMT DEF Unfetched, SlotInv, TypeOK, Phases
<1>4. Ceilings' /\ Accounts' /\ AttemptsBounded'
  BY <1>1 DEF Ceilings, Accounts, AttemptsBounded
<1>5. InHand'
  BY <1>1, <1>3 DEF InHand
<1>6. OnTrial'
  <2>1. \A v \in Versions : v > target => downloads[v] <= 0
    BY <1>1, <1>2, SMT DEF InHand
  <2>2. QED
    BY <1>1, <1>2, <2>1, SMT DEF OnTrial, SlotInv, TypeOK
<1>7. QED
  BY <1>4, <1>5, <1>6

(* A confirmed version may be downloaded afresh. *)
LEMMA MarkBooked == ASSUME SlotInv, Booked, ConfirmMark PROVE Booked'
<1> USE Numbers, Consts DEF Booked
<1>1. /\ UNCHANGED <<image, channel, fail_ver, fail_cnt, target, pc, file>> /\ confirm = "mark"
      /\ \/ /\ Pending /\ entry' = [entry EXCEPT ![running] = "valid"] /\ confirm' = "clear"
            /\ downloads' = [downloads EXCEPT ![Fw] = 0]
         \/ confirm' = "off" /\ UNCHANGED <<entry, downloads>>
  BY Zenon DEF ConfirmMark, nvs, install
<1>2. CASE confirm' = "off" /\ UNCHANGED <<entry, downloads>>
  BY <1>1, <1>2, SMT DEF Ceilings, Accounts, InHand, Allowance, OnTrial, AttemptsBounded,
     Unfetched
<1>3. CASE /\ Pending /\ entry' = [entry EXCEPT ![running] = "valid"] /\ confirm' = "clear"
           /\ downloads' = [downloads EXCEPT ![Fw] = 0]
  <2>1. pc = "up" /\ running \in OtaSlots /\ entry[running] = "pending"
    BY <1>1, <1>3 DEF SlotInv, TypeOK, Phases, Pending, OtaSlots, Partitions
  <2>2. Fw \in Versions
    BY <2>1, SMT DEF Fw, SlotInv, TypeOK, Booted
  <2>3. \A v \in Versions : downloads'[v] = IF v = Fw THEN 0 ELSE downloads[v]
    BY <1>3, <2>2, SMT DEF SlotInv, GhostTypeOK
  <2>4. Ceilings' /\ Accounts' /\ InHand' /\ AttemptsBounded'
    <3>1. \A v \in Versions : downloads'[v] = 0 \/ downloads'[v] = downloads[v]
      BY <2>3
    <3>2. Accounts'
      BY <1>1, <3>1, SMTT(30) DEF Accounts
    <3>3. AttemptsBounded'
      <4>1. ASSUME NEW v \in Versions
            PROVE  downloads'[v] <= MaxAttempts
        <5>1. downloads[v] <= MaxAttempts /\ 0 <= MaxAttempts
          BY DEF AttemptsBounded
        <5>2. QED
          BY <3>1, <5>1, Zenon
      <4>2. QED
        BY <4>1 DEF AttemptsBounded
    <3>4. Ceilings' /\ InHand'
      BY <1>1, <2>1, SMT DEF Ceilings, InHand, Unfetched
    <3>5. QED
      BY <3>2, <3>3, <3>4
  <2>5. \A v \in Versions : v > Fw => downloads[v] <= 0
    BY <2>1, SMT DEF OnTrial, Fw
  <2>6. Fw <= channel /\ channel \in Versions
    BY <2>1, SMT DEF Ceilings, Fw, SlotInv, TypeOK, Partitions
  <2>7. downloads'[channel] <= 0
    BY <2>2, <2>3, <2>5, <2>6, SMT
  <2>8. OnTrial'
    <3>1. \A s \in OtaSlots : entry'[s] \notin {"new", "pending"}
      BY <1>3, <2>1, SMT DEF SlotInv, TypeOK, Booted
    <3>2. QED
      BY <1>1, <2>7, <3>1 DEF OnTrial
  <2>9. QED
    BY <2>4, <2>8
<1>4. QED
  BY <1>1, <1>2, <1>3

(* The counter of attempts is cleared: the version on offer has no download. *)
LEMMA ClearBooked == ASSUME SlotInv, Booked, ConfirmClear PROVE Booked'
<1> USE Numbers, Consts DEF Booked
<1>1. /\ UNCHANGED <<image, entry, channel, target, pc, file, downloads>>
      /\ confirm = "clear" /\ confirm' = "off"
      /\ (fail_ver' = 0 /\ fail_cnt' = 0) \/ UNCHANGED <<fail_ver, fail_cnt>>
  BY Zenon DEF ConfirmClear, ota, install, ghost
<1>2. pc = "up"
  BY <1>1 DEF SlotInv, Phases
<1>3. downloads[channel] <= 0
  BY <1>1 DEF OnTrial
<1>4. Ceilings' /\ Accounts'
  BY <1>1, <1>3, SMT DEF Ceilings, Accounts
<1>5. InHand' /\ OnTrial' /\ AttemptsBounded'
  BY <1>1, <1>2, SMT DEF InHand, OnTrial, AttemptsBounded, Unfetched
<1>6. QED
  BY <1>4, <1>5

(* An image on trial is given up. *)
LEMMA DeadlineBooked == ASSUME SlotInv, Booked, DeadlineLocalFault PROVE Booked'
<1> USE Numbers, Consts DEF Booked
<1>1. /\ UNCHANGED <<image, channel, fail_ver, fail_cnt, downloads>>
      /\ pc = "up" /\ pc' \in {"up", "off"} /\ confirm' = "off" /\ target' \in {0, target}
      /\ entry' = [entry EXCEPT ![running] = "invalid"] \/ entry' = entry
  BY Zenon DEF DeadlineLocalFault, Reset, nvs, install
<1>2. \A s \in OtaSlots : entry'[s] \in {"new", "pending"} => entry[s] \in {"new", "pending"}
  BY <1>1, SMT DEF SlotInv, TypeOK
<1>3. Ceilings' /\ Accounts' /\ InHand' /\ AttemptsBounded'
  BY <1>1, SMT DEF Ceilings, Accounts, InHand, AttemptsBounded, Unfetched
<1>4. OnTrial'
  BY <1>1, <1>2 DEF OnTrial
<1>5. QED
  BY <1>3, <1>4

(* A newer release. *)
LEMMA PublishBooked == ASSUME SlotInv, Booked, Publish PROVE Booked'
<1> USE Numbers, Consts DEF Booked
<1>1. /\ UNCHANGED <<image, entry, fail_ver, fail_cnt, target, pc, file, downloads, confirm>>
      /\ channel' = channel + 1 /\ channel + 1 \in Versions
  BY SMT DEF Publish, ota, nvs, install, tasks, ghost, SlotInv, TypeOK
<1>2. Ceilings'
  BY <1>1, SMT DEF Ceilings
<1>3. downloads[channel + 1] <= 0
  BY <1>1, SMT DEF Accounts, Ceilings
<1>4. Accounts' /\ OnTrial'
  BY <1>1, <1>3, SMT DEF Accounts, OnTrial
<1>5. InHand' /\ AttemptsBounded'
  BY <1>1 DEF InHand, Allowance, AttemptsBounded, Unfetched
<1>6. QED
  BY <1>2, <1>4, <1>5

(* A reset leaves the accounts, which are in flash. *)
LEMMA ResetBooked == ASSUME SlotInv, Booked, Resets PROVE Booked'
<1> USE Numbers, Consts DEF Booked
<1>1. /\ UNCHANGED <<image, entry, channel, fail_ver, fail_cnt, downloads>>
      /\ pc' = "off" /\ target' = 0 /\ confirm' = "off"
  BY ResetFacts, Zenon DEF Reset, ota
<1>2. Ceilings' /\ Accounts'
  BY <1>1, SMT DEF Ceilings, Accounts
<1>3. InHand' /\ OnTrial' /\ AttemptsBounded'
  BY <1>1 DEF InHand, OnTrial, AttemptsBounded, Unfetched
<1>4. QED
  BY <1>2, <1>3

(* Every step keeps the accounts of the attempts. *)
LEMMA BookedStep == ASSUME SlotInv, Booked, [Next]_vars PROVE Booked'
<1> USE Consts DEF SlotInv, TypeOK, GhostTypeOK, Phases, Booted, Booked, Ceilings,
      Accounts, InHand, Allowance, OnTrial, AttemptsBounded, Unfetched, Unselected, Pending,
      InstallSlot, Other, Usable, Fw, ota, nvs, install, tasks, ghost, OtaSlots,
      Partitions
<1>1. CASE Bootloader
  BY <1>1, SMTT(30) DEF Bootloader, Choice, Aborted, Other
<1>2. CASE GuardNvsFails
  BY <1>2 DEF GuardNvsFails
<1>3. CASE GuardNotCounted
  BY <1>3 DEF GuardNotCounted
<1>4. CASE GuardCounts
  BY <1>4 DEF GuardCounts
<1>5. CASE FallbackErase
  BY <1>5 DEF FallbackErase
<1>6. CASE FallbackEraseFails
  BY <1>6 DEF FallbackEraseFails
<1>7. CASE FallbackClear
  BY <1>7 DEF FallbackClear
<1>8. CASE BootCheckReturns
  BY <1>8 DEF BootCheckReturns, DataPlane
<1>9. CASE BootCheckBooks
  BY <1>9, BooksBooked
<1>10. CASE FirmwareBegin
  BY <1>10, BeginBooked
<1>11. CASE FirmwareWritten
  BY <1>11 DEF FirmwareWritten
<1>12. CASE FirmwareSelect
  BY <1>12, SelectBooked
<1>13. CASE WwwErase
  BY <1>13 DEF WwwErase
<1>14. CASE WwwCopied
  BY <1>14 DEF WwwCopied
<1>15. CASE InstallFails
  BY <1>15 DEF InstallFails, DataPlane
<1>16. CASE \E ok \in BOOLEAN : HealthCheck(ok)
  BY <1>16 DEF HealthCheck, Ready
<1>17. CASE UnprovisionedConfirm
  BY <1>17 DEF UnprovisionedConfirm
<1>18. CASE ConfirmMark
  BY <1>18, MarkBooked
<1>19. CASE ConfirmClear
  BY <1>19, ClearBooked
<1>20. CASE DeadlineLocalFault
  BY <1>20, DeadlineBooked
<1>21. CASE BootLoopClear
  BY <1>21 DEF BootLoopClear
<1>22. CASE Publish
  BY <1>22, PublishBooked
<1>23. CASE Resets
  BY <1>23, ResetBooked
<1>24. CASE UNCHANGED vars
  BY <1>24 DEF vars
<1>25. QED
  BY <1>1, <1>2, <1>3, <1>4, <1>5, <1>6, <1>7, <1>8, <1>9, <1>10, <1>11, <1>12,
     <1>13, <1>14, <1>15, <1>16, <1>17, <1>18, <1>19, <1>20, <1>21, <1>22, <1>23,
     <1>24 DEF Next, Guard, Installer, Confirm, Environment, Resets

(* MAX_OTA_ATTEMPTS bounds the downloads of a version that is not confirmed
   (ota_attempt_allowed), whatever crashes, power losses and newer releases come
   in between and whatever writes to NVS fail, but for the attempts that are let
   through because NVS cannot be opened. *)
THEOREM AttemptsAreBounded == Spec => []AttemptsBounded
<1>1. Init => Booked
  BY Consts, SMT DEF Init, Booked, Ceilings, Accounts, InHand, OnTrial, AttemptsBounded,
     Unfetched, OtaSlots, Partitions
<1>2. SlotInv /\ Booked /\ [Next]_vars => Booked'
  BY BookedStep
<1>3. Booked => AttemptsBounded
  BY DEF Booked
<1>4. QED
  BY <1>1, <1>2, <1>3, SlotsSound, PTL DEF Spec
-----------------------------------------------------------------------------
(* The counters of a streak are numbers, and so is their limit. *)
LEMMA StreakNumbers ==
    ASSUME SlotInv
    PROVE  /\ bootloop \in Nat /\ faults \in Nat /\ MaxBootLoops \in Nat \ {0}
           /\ \A v \in Versions : own[v] \in Nat
           /\ pc # "off" => Fw \in Versions
           /\ last_ver \in Versions
<1>1. bootloop \in Nat /\ faults \in Nat /\ MaxBootLoops \in Nat \ {0}
  BY Consts, SMT DEF SlotInv, TypeOK
<1>2. (\A v \in Versions : own[v] \in Nat) /\ last_ver \in Versions
  BY SMT DEF SlotInv, GhostTypeOK
<1>3. pc # "off" => Fw \in Versions
  BY SMT DEF SlotInv, TypeOK, Booted, Fw
<1>4. QED
  BY <1>1, <1>2, <1>3

(* What the bootloader chooses after a dead image is another version. *)
LEMMA DeadNotChosen ==
    ASSUME SlotInv, DeadOnce, pc # "off", Class[Fw] = "dead"
    PROVE  image[Choice(Aborted)] # Fw
<1> USE DEF SlotInv, OtaSlots, Partitions
<1>1. Class[1] # "dead" /\ Fw # 1
  BY Consts
<1>2. running \in OtaSlots
  BY <1>1 DEF TypeOK, Booted, Fw
<1>3. \A s \in OtaSlots : entry[s] # "new" /\ ~Usable(Aborted[running])
  <2>1. CASE pc \in {"erased", "fallback"}
    BY <1>2, <2>1 DEF Booted, Aborted, Usable
  <2>2. CASE pc \notin {"erased", "fallback"}
    <3>1. Pending
      BY <2>2 DEF DeadOnce
    <3>2. QED
      BY <1>2, <3>1 DEF Booted, Aborted, Usable, Pending
  <2>3. QED
    BY <2>1, <2>2
<1>4. Choice(Aborted) # running
  BY <1>2, <1>3 DEF Choice, Other, TypeOK
<1>5. CASE Choice(Aborted) = "factory"
  BY <1>1, <1>5 DEF Booted
<1>6. CASE Choice(Aborted) # "factory"
  <2>1. Choice(Aborted) \in OtaSlots /\ entry[Choice(Aborted)] = "valid"
    BY <1>3, <1>6, SMT DEF Choice, Aborted, Usable, Other, TypeOK, EntryState
  <2>2. image[Choice(Aborted)] \in proven
    <3>1. CASE sel = Choice(Aborted)
      BY <2>1, <3>1 DEF Confirmed
    <3>2. CASE sel # Choice(Aborted)
      <4>1. sel = running
        BY <1>2, <1>4, <2>1, <3>2 DEF TypeOK
      <4>2. entry[sel] # "valid"
        BY <1>2, <1>3, <4>1 DEF Aborted, Usable
      <4>3. QED
        BY <2>1, <4>2 DEF Confirmed
    <3>3. QED
      BY <3>1, <3>2
  <2>3. QED
    BY <2>2 DEF Confirmed
<1>7. QED
  BY <1>5, <1>6

(* A step that neither resets nor counts. *)
LEMMA QuietStreaks ==
    ASSUME SlotInv, Streaks,
           UNCHANGED <<own, bootloop, last_ver>>, Fw' = Fw, Pending' = Pending,
           pc \notin {"off", "erase", "erased", "fallback"},
           pc' \notin {"off", "guard", "erase", "erased"},
           faults' \in {faults, faults + 1}
    PROVE  Streaks'
<1> USE StreakNumbers DEF Streaks
<1>1. Under'
  BY DEF Under
<1>2. Paid'
  BY SMT DEF Paid, Counted
<1>3. DeadOnce'
  BY DEF DeadOnce
<1>4. QED
  BY <1>1, <1>2, <1>3

(* The streak and the counter are cleared together. *)
LEMMA ClearedStreaks ==
    ASSUME SlotInv, Streaks, Paid', DeadOnce',
           NEW ok \in Nvs, Charge(ok), bootloop' = (IF ok THEN 0 ELSE bootloop),
           own' = (IF ok THEN [v \in Versions |-> 0] ELSE own)
    PROVE  Streaks'
<1> USE StreakNumbers DEF Streaks
<1>1. CASE ok
  <2>1. bootloop' = 0 /\ own' = [v \in Versions |-> 0]
    BY <1>1, Zenon
  <2>2. QED
    BY <2>1 DEF Under
<1>2. CASE ~ok
  <2>1. bootloop' = bootloop /\ own' = own
    BY <1>2, Zenon
  <2>2. QED
    BY <2>1 DEF Under
<1>3. QED
  BY <1>1, <1>2

(* The bootloader starts what a dead image is not. *)
LEMMA BootloaderStreaks == ASSUME SlotInv, Streaks, Bootloader PROVE Streaks'
<1> USE StreakNumbers DEF Streaks, SlotInv
<1> DEFINE s == Choice(Aborted)
<1>1. /\ pc = "off" /\ pc' = "guard" /\ running' = s /\ Fw' = image[s]
      /\ UNCHANGED <<own, bootloop, last_ver, faults, image, sel>>
  BY Zenon DEF Bootloader, nvs, ghost, Fw
<1>2. Under' /\ Paid'
  BY <1>1, SMT DEF Under, Paid, Counted
<1>3. s # "factory" /\ Class[image[s]] = "dead" => Pending'
  <2>1. HAVE s # "factory" /\ Class[image[s]] = "dead"
  <2>2. s \in OtaSlots /\ entry[s] \in {"new", "valid"}
    BY <2>1, SMT DEF Choice, Aborted, Usable, Other, TypeOK, EntryState, OtaSlots
  <2>3. entry[s] # "valid"
    <3>1. ASSUME entry[s] = "valid" PROVE image[s] \in proven
      <4>1. ValidIsProven
        BY ValidInv DEF SlotInv
      <4>2. QED
        BY <2>1, <3>1, <4>1 DEF ValidIsProven
    <3>2. QED
      BY <2>1, <3>1 DEF Confirmed
  <2>4. entry'[s] = "pending"
    BY <2>2, <2>3, SMT DEF Bootloader, Aborted
  <2>5. QED
    BY <1>1, <2>1, <2>4 DEF Pending
<1>4. DeadOnce'
  <2>1. s = "factory" => Class[image[s]] # "dead"
    BY Consts DEF Booted
  <2>2. QED
    BY <1>1, <1>3, <2>1 DEF DeadOnce
<1>5. QED
  BY <1>2, <1>4

(* The guard counts a reset: below the limit the counter bounds the streak, at
   the limit the fallback begins. *)
LEMMA CountsStreaks == ASSUME SlotInv, Streaks, bootloop < 255, GuardCounts PROVE Streaks'
<1> USE StreakNumbers DEF Streaks
<1>1. /\ pc = "guard" /\ Fw' = Fw /\ Pending' = Pending
      /\ UNCHANGED <<last_ver, faults, running>>
      /\ own' = (IF Fw = last_ver THEN [own EXCEPT ![Fw] = @ + 1] ELSE own)
      /\ pc' = IF Looped /\ running # "factory" THEN "erase" ELSE "check"
  BY Zenon DEF GuardCounts, Fw, Pending, ota
<1>2. bootloop' = bootloop + 1
  <2>1. bootloop' = (bootloop + 1) % 256
    BY Zenon DEF GuardCounts
  <2>2. QED
    BY <2>1, SMT
<1>3. \A v \in Versions : own'[v] = IF v = Fw /\ Fw = last_ver THEN own[v] + 1 ELSE own[v]
  BY <1>1, SMT DEF SlotInv, GhostTypeOK
<1>4. Under'
  BY <1>2, <1>3, SMT DEF Under
<1>5. Paid'
  <2> SUFFICES ASSUME NEW v \in Versions \ {1}
               PROVE  own'[v] <= MaxBootLoops - 1 + faults' + (IF Counted(v)' THEN 1 ELSE 0)
    BY DEF Paid
  <2>1. own[v] <= MaxBootLoops - 1 + faults
    BY <1>1, SMT DEF Paid, Counted
  <2>2. CASE ~(v = Fw /\ Fw = last_ver)
    BY <1>1, <1>3, <2>1, <2>2, SMT
  <2>3. CASE v = Fw /\ Fw = last_ver /\ Looped
    <3>1. running # "factory"
      BY <2>3 DEF SlotInv, Booted, Fw
    <3>2. Counted(v)'
      BY <1>1, <2>3, <3>1 DEF Counted
    <3>3. QED
      BY <1>1, <1>3, <2>1, <3>2, SMT
  <2>4. CASE v = Fw /\ Fw = last_ver /\ ~Looped
    <3>1. own[v] + 1 <= MaxBootLoops - 1
      BY <2>4, SMT DEF Looped, Under
    <3>2. QED
      BY <1>1, <1>3, <3>1, SMT
  <2>5. QED
    BY <2>2, <2>3, <2>4
<1>6. DeadOnce'
  BY <1>1 DEF DeadOnce
<1>7. QED
  BY <1>4, <1>5, <1>6

(* The fallback erases otadata ... *)
LEMMA EraseStreaks == ASSUME SlotInv, Streaks, FallbackErase PROVE Streaks'
<1> USE StreakNumbers DEF Streaks
<1>1. /\ pc = "erase" /\ pc' = "erased" /\ Fw' = Fw
      /\ UNCHANGED <<own, bootloop, last_ver, faults>>
  BY Zenon DEF FallbackErase, Fw, nvs
<1>2. Under' /\ Paid'
  BY <1>1, SMT DEF Under, Paid, Counted
<1>3. QED
  BY <1>1, <1>2 DEF DeadOnce

(* ... or fails to, at the price of a fault ... *)
LEMMA EraseFailsStreaks == ASSUME SlotInv, Streaks, FallbackEraseFails PROVE Streaks'
<1> USE StreakNumbers DEF Streaks
<1>1. /\ pc = "erase" /\ pc' = "check" /\ Fw' = Fw /\ Pending' = Pending /\ faults' = faults + 1
      /\ UNCHANGED <<own, bootloop, last_ver>>
  BY Zenon DEF FallbackEraseFails, Charge, Fw, Pending, ota, nvs, ghost
<1>2. Under' /\ Paid'
  BY <1>1, SMT DEF Under, Paid, Counted
<1>3. QED
  BY <1>1, <1>2 DEF DeadOnce

(* ... and clears the counter afterwards. *)
LEMMA FallbackClearStreaks == ASSUME SlotInv, Streaks, FallbackClear PROVE Streaks'
<1> USE StreakNumbers DEF Streaks
<1>1. PICK ok \in Nvs : /\ bootloop' = (IF ok THEN 0 ELSE bootloop) /\ Charge(ok)
                        /\ own' = (IF ok THEN [v \in Versions |-> 0] ELSE own)
  BY Zenon DEF FallbackClear
<1>2. pc' = "fallback" /\ Fw' = Fw /\ last_ver' = last_ver
  BY Zenon DEF FallbackClear, Fw, ota
<1>3. Paid'
  <2>1. CASE ok
    <3>1. own' = [v \in Versions |-> 0] /\ faults' = faults
      BY <1>1, <2>1, Zenon DEF Charge
    <3>2. QED
      BY <1>2, <3>1, SMT DEF Paid, Counted
  <2>2. CASE ~ok
    <3>1. own' = own /\ faults' = faults + 1
      BY <1>1, <2>2, Zenon DEF Charge
    <3>2. QED
      BY <1>2, <3>1, SMT DEF Paid, Counted
  <2>3. QED
    BY <2>1, <2>2
<1>4. DeadOnce'
  BY <1>2 DEF DeadOnce
<1>5. QED
  BY <1>1, <1>3, <1>4, ClearedStreaks

(* 45 minutes without a crash clear the counter. *)
LEMMA BootLoopClearStreaks == ASSUME SlotInv, Streaks, BootLoopClear PROVE Streaks'
<1> USE StreakNumbers DEF Streaks
<1>1. PICK ok \in Nvs : /\ bootloop' = (IF ok THEN 0 ELSE bootloop) /\ Charge(ok)
                        /\ own' = (IF ok THEN [v \in Versions |-> 0] ELSE own)
  BY Zenon DEF BootLoopClear
<1>2. pc = "up" /\ pc' = "up" /\ Fw' = Fw /\ Pending' = Pending /\ last_ver' = last_ver
  BY Zenon DEF BootLoopClear, Fw, Pending, ota
<1>3. Paid'
  <2>1. CASE ok
    <3>1. own' = [v \in Versions |-> 0] /\ faults' = faults
      BY <1>1, <2>1, Zenon DEF Charge
    <3>2. QED
      BY <1>2, <3>1, SMT DEF Paid, Counted
  <2>2. CASE ~ok
    <3>1. own' = own /\ faults' = faults + 1
      BY <1>1, <2>2, Zenon DEF Charge
    <3>2. QED
      BY <1>2, <3>1, SMT DEF Paid, Counted
  <2>3. QED
    BY <2>1, <2>2
<1>4. DeadOnce'
  BY <1>2 DEF DeadOnce
<1>5. QED
  BY <1>1, <1>3, <1>4, ClearedStreaks

(* A confirmed image has met the contract, so it is not dead. *)
LEMMA MarkStreaks == ASSUME SlotInv, Streaks, ConfirmMark PROVE Streaks'
<1> USE StreakNumbers DEF Streaks
<1>1. /\ confirm = "mark" /\ Fw' = Fw /\ UNCHANGED <<own, bootloop, last_ver, pc, running>>
      /\ faults' \in {faults, faults + 1}
  BY Zenon DEF ConfirmMark, Charge, Fw, nvs
<1>2. pc = "up" /\ Class[Fw] # "dead"
  BY <1>1, SMT DEF SlotInv, Phases, Confirmed
<1>3. Under' /\ Paid'
  BY <1>1, <1>2, SMT DEF Under, Paid, Counted
<1>4. QED
  BY <1>1, <1>2, <1>3 DEF DeadOnce

(* The roll-back of an image on trial, or the end of the task. *)
LEMMA DeadlineStreaks == ASSUME SlotInv, Streaks, DeadlineLocalFault PROVE Streaks'
<1> USE StreakNumbers DEF Streaks
<1>1. /\ pc = "up" /\ Fw' = Fw /\ UNCHANGED <<own, bootloop, image, running, sel>>
      /\ faults' \in {faults, faults + 1}
      /\ \/ /\ Pending /\ entry' = [entry EXCEPT ![running] = "invalid"]
            /\ pc' = "off" /\ last_ver' = Fw
         \/ UNCHANGED <<entry, pc, last_ver>>
  BY Zenon DEF DeadlineLocalFault, Reset, Charge, Fw, nvs
<1>2. Under' /\ Paid'
  BY <1>1, SMT DEF Under, Paid, Counted
<1>3. CASE UNCHANGED <<entry, pc, last_ver>>
  BY <1>1, <1>2, <1>3 DEF DeadOnce, Pending
<1>4. CASE /\ Pending /\ entry' = [entry EXCEPT ![running] = "invalid"]
           /\ pc' = "off" /\ last_ver' = Fw
  <2>1. \A s \in OtaSlots : Usable(Aborted'[s]) <=> Usable(Aborted[s])
    BY <1>4, SMT DEF Aborted, Usable, Pending, SlotInv, TypeOK, OtaSlots
  <2>2. Choice(Aborted)' = Choice(Aborted)
    BY <1>1, <2>1 DEF Choice, Other, SlotInv, TypeOK, OtaSlots
  <2>3. QED
    BY <1>1, <1>2, <1>4, <2>2, DeadNotChosen DEF DeadOnce
<1>5. QED
  BY <1>1, <1>3, <1>4

(* A reset: one that interrupts the fallback of a counted image is a fault. *)
LEMMA ResetStreaks == ASSUME SlotInv, Streaks, Resets PROVE Streaks'
<1> USE StreakNumbers DEF Streaks
<1>1. /\ pc # "off" /\ pc' = "off" /\ last_ver' = Fw
      /\ UNCHANGED <<own, bootloop, image, entry, sel, running>>
  BY ResetFacts, Zenon DEF Reset, ota
<1>2. faults' \in {faults, faults + 1}
  <2>1. CASE PlannedReboot
    BY <2>1, Zenon DEF PlannedReboot, Charge
  <2>2. CASE ~PlannedReboot
    BY <2>2, Zenon DEF Resets, PowerLoss, Crash, SupervisorReboot, UserReboot, FallbackRestart,
       InstallDone, DailyPoll, Charge
  <2>3. QED
    BY <2>1, <2>2
<1>3. pc \in {"erase", "erased"} /\ Fw = last_ver => faults' = faults + 1
  <2>1. HAVE pc \in {"erase", "erased"} /\ Fw = last_ver
  <2>2. PowerLoss \/ Crash
    BY <2>1 DEF Resets, SupervisorReboot, UserReboot, FallbackRestart, InstallDone, DailyPoll
  <2>3. ~Crash
    BY <2>1 DEF Crash, DeadOnce
  <2>4. QED
    BY <2>2, <2>3 DEF PowerLoss
<1>4. Under' /\ Paid'
  BY <1>1, <1>2, <1>3, SMT DEF Under, Paid, Counted
<1>5. Choice(Aborted)' = Choice(Aborted)
  BY <1>1 DEF Choice, Aborted
<1>6. DeadOnce'
  BY <1>1, <1>5, DeadNotChosen DEF DeadOnce
<1>7. QED
  BY <1>4, <1>6

(* A newer release changes nothing here. *)
LEMMA PublishStreaks == ASSUME Streaks, Publish PROVE Streaks'
<1>1. UNCHANGED <<own, bootloop, faults, last_ver, pc, image, entry, sel, running>>
  BY Zenon DEF Publish, ota, nvs, ghost
<1>2. QED
  BY <1>1 DEF Streaks, Under, Paid, Counted, DeadOnce, Fw, Pending, Choice, Aborted

(* Every step keeps the bound, as long as the counter, a uint8_t, does not wrap. *)
LEMMA StreakStep == ASSUME SlotInv, Streaks, bootloop < 255, [Next]_vars PROVE Streaks'
<1>1. CASE Bootloader
  BY <1>1, BootloaderStreaks
<1>2. CASE GuardNvsFails
  BY <1>2, QuietStreaks, Zenon DEF GuardNvsFails, Charge, nvs, ota, ghost, Fw, Pending
<1>3. CASE GuardNotCounted
  BY <1>3, QuietStreaks, Zenon DEF GuardNotCounted, nvs, ota, ghost, Fw, Pending
<1>4. CASE GuardCounts
  BY <1>4, CountsStreaks
<1>5. CASE FallbackErase
  BY <1>5, EraseStreaks
<1>6. CASE FallbackEraseFails
  BY <1>6, EraseFailsStreaks
<1>7. CASE FallbackClear
  BY <1>7, FallbackClearStreaks
<1>8. CASE BootCheckReturns
  BY <1>8, QuietStreaks, Zenon DEF BootCheckReturns, DataPlane, nvs, ota, ghost, Fw, Pending
<1>9. CASE BootCheckBooks
  BY <1>9, QuietStreaks, Zenon DEF BootCheckBooks, Charge, nvs, ota, ghost, Fw, Pending
<1>10. CASE FirmwareBegin
  <2>1. running # InstallSlot /\ InstallSlot \in OtaSlots
    BY DEF InstallSlot, Other, OtaSlots, SlotInv, TypeOK
  <2>2. Fw' = Fw /\ Pending' = Pending
    BY <1>10, <2>1, SMT DEF FirmwareBegin, Begin, nvs, ota, ghost, Fw, Pending, SlotInv,
       TypeOK, OtaSlots, Partitions
  <2>3. QED
    BY <1>10, <2>2, QuietStreaks, Zenon DEF FirmwareBegin, nvs, ghost
<1>11. CASE FirmwareWritten
  <2>1. running # InstallSlot /\ InstallSlot \in OtaSlots
    BY DEF InstallSlot, Other, OtaSlots, SlotInv, TypeOK
  <2>2. Fw' = Fw /\ Pending' = Pending
    BY <1>11, <2>1, SMT DEF FirmwareWritten, nvs, ota, ghost, Fw, Pending, SlotInv, TypeOK,
       OtaSlots, Partitions
  <2>3. QED
    BY <1>11, <2>2, QuietStreaks, Zenon DEF FirmwareWritten, nvs, ghost
<1>12. CASE FirmwareSelect
  <2>1. running # InstallSlot /\ InstallSlot \in OtaSlots
    BY DEF InstallSlot, Other, OtaSlots, SlotInv, TypeOK
  <2>2. Fw' = Fw /\ Pending' = Pending
    BY <1>12, <2>1, SMT DEF FirmwareSelect, nvs, ota, ghost, Fw, Pending, SlotInv, TypeOK,
       OtaSlots, Partitions
  <2>3. QED
    BY <1>12, <2>2, QuietStreaks, Zenon DEF FirmwareSelect, nvs, ghost
<1>13. CASE WwwErase
  BY <1>13, QuietStreaks, Zenon DEF WwwErase, nvs, ota, ghost, Fw, Pending
<1>14. CASE WwwCopied
  BY <1>14, QuietStreaks, Zenon DEF WwwCopied, nvs, ota, ghost, Fw, Pending
<1>15. CASE InstallFails
  BY <1>15, QuietStreaks, Zenon DEF InstallFails, DataPlane, nvs, ota, ghost, Fw, Pending
<1>16. CASE \E ok \in BOOLEAN : HealthCheck(ok)
  <2>1. pc = "up"
    BY <1>16 DEF HealthCheck, SlotInv, Phases
  <2>2. QED
    BY <1>16, <2>1, QuietStreaks, Zenon DEF HealthCheck, nvs, ota, ghost, Fw, Pending
<1>17. CASE UnprovisionedConfirm
  <2>1. pc = "up"
    BY <1>17 DEF UnprovisionedConfirm, SlotInv, Phases
  <2>2. QED
    BY <1>17, <2>1, QuietStreaks, Zenon DEF UnprovisionedConfirm, nvs, ota, ghost, Fw, Pending
<1>18. CASE ConfirmMark
  BY <1>18, MarkStreaks
<1>19. CASE ConfirmClear
  <2>1. pc = "up"
    BY <1>19 DEF ConfirmClear, SlotInv, Phases
  <2>2. QED
    BY <1>19, <2>1, QuietStreaks, Zenon DEF ConfirmClear, Charge, nvs, ota, ghost, Fw, Pending
<1>20. CASE DeadlineLocalFault
  BY <1>20, DeadlineStreaks
<1>21. CASE BootLoopClear
  BY <1>21, BootLoopClearStreaks
<1>22. CASE Publish
  BY <1>22, PublishStreaks
<1>23. CASE Resets
  BY <1>23, ResetStreaks
<1>24. CASE UNCHANGED vars
  BY <1>24 DEF vars, ota, nvs, ghost, Streaks, Under, Paid, Counted, DeadOnce, Fw, Pending,
     Choice,
     Aborted
<1>25. QED
  BY <1>1, <1>2, <1>3, <1>4, <1>5, <1>6, <1>7, <1>8, <1>9, <1>10, <1>11, <1>12,
     <1>13, <1>14, <1>15, <1>16, <1>17, <1>18, <1>19, <1>20, <1>21, <1>22, <1>23,
     <1>24 DEF Next, Guard, Installer, Confirm, Environment, Resets

(* MAX_BOOT_LOOPS counted resets of a downloaded version bring the device back to
   the factory image (ota_boot_loop_guard), one more for each fault that interrupts
   the fallback, until the eight-bit counter wraps. *)
THEOREM StreaksAreBounded == Spec /\ [](bootloop < 255) => []StreakBounded
<1>1. Init => Streaks
  BY Consts, SMT DEF Init, Streaks, Under, Paid, Counted, DeadOnce, Fw
<1>2. SlotInv /\ Streaks /\ bootloop < 255 /\ [Next]_vars => Streaks'
  BY StreakStep
<1>3. SlotInv /\ Streaks => StreakBounded
  BY StreakNumbers, SMT DEF Streaks, Paid, StreakBounded
<1>4. QED
  BY <1>1, <1>2, <1>3, SlotsSound, PTL DEF Spec
=============================================================================

------------------------------ MODULE GnssBase ------------------------------
(***************************************************************************)
(* The fixed base coordinate of the UM980 receiver (main/gnss.c): it is    *)
(* restored at the start and at every recovery, corrected by the Integrity *)
(* Engine (IE) on heartbeats, acknowledged by the receiver over a serial   *)
(* line that loses, delays and garbles, and kept in NVS.  Two tasks share  *)
(* the line, the capture buffer and the record of what the receiver has    *)
(* acknowledged.                                                           *)
(*                                                                         *)
(* Of the thirteen commands that configure the receiver the model keeps    *)
(* the one both tasks send and one for the others.  A coordinate is        *)
(* a point; two are equal when they agree within the code's epsilons.      *)
(***************************************************************************)
EXTENDS Naturals, Sequences, FiniteSets, FiniteSetsExt

CONSTANTS Coords,           \* coordinates the IE may push or NVS may hold
          Valid,            \* those gnss_coord_valid and gnss_height_valid accept
          None,             \* no coordinate
          ACK_RETRIES,
          MaxFaults,        \* bound: lost, refused, garbled and late answers
          MaxRecoveries,    \* bound: gnss_recover and restarts of the program
          MaxPushes         \* bound: corrections the IE makes

ASSUME GnssConstants ==
    /\ Valid \subseteq Coords /\ None \notin Coords \cup {"recover", "heartbeat"}
    /\ ACK_RETRIES \in Nat /\ MaxFaults \in Nat
    /\ MaxRecoveries \in Nat /\ MaxPushes \in Nat

VARIABLES
    nvs,        \* the persisted coordinate, or None
    acked,      \* s_base_acked_coord, or None while s_base_acked_valid is false
    fail,       \* s_base_fail_coord while its cooldown runs, or None
    txn,        \* owner of s_txn, or None
    pc, todo, attempt, done,    \* of each task: its place, the commands left (the first
                                \* is under way), its attempts, the operations acked
    target,     \* argument of gnss_set_fixed_base
    capturing, cap,     \* s_capturing, the answers in s_cap
    wire, out,          \* commands on the way to the receiver, answers on the way back
    recv, flash,        \* the fixed coordinate the receiver runs, or None while it
                        \* surveys, and the one its saveconfig kept
    ie, pushes, faults, recoveries

known == <<acked, fail>>
task == <<txn, pc, todo, attempt, done, target>>
line == <<capturing, cap, wire, out>>
receiver == <<recv, flash>>
bounds == <<pushes, faults, recoveries>>
vars == <<nvs, known, task, line, receiver, ie, bounds>>

Tasks == {"recover", "heartbeat"}   \* gnss_init and gnss_recover; apply_reply

Cmd(op, at) == [op |-> op, at |-> at]
Undulation == Cmd("undulation", None)
Rtcm == Cmd("rtcm", None)
Survey == Cmd("survey", None)
Save == Cmd("save", None)
ModeBase(c) == Cmd("mode", c)
Ops == {"undulation", "rtcm", "survey", "mode", "save"}
Commands == {Undulation, Rtcm, Survey, Save} \cup {ModeBase(c) : c \in Valid}
Answers == [cmd : Commands, text : {"OK", "FAIL", "other"}, valid : BOOLEAN]

TypeOK ==
    /\ nvs \in Coords \cup {None} /\ acked \in Valid \cup {None} /\ fail \in Valid \cup {None}
    /\ txn \in Tasks \cup {None}
    /\ pc \in [Tasks -> {"off", "idle", "pulse", "forget", "send", "wait", "base", "finish", "version"}]
    /\ todo \in [Tasks -> Seq(Commands)]
    /\ attempt \in [Tasks -> 0 .. ACK_RETRIES] /\ done \in [Tasks -> SUBSET Ops] /\ target \in Coords \cup {None}
    /\ capturing \in BOOLEAN /\ cap \in Seq(Answers)
    /\ wire \in Seq([cmd : Commands, by : Tasks]) /\ out \in Seq([ans : Answers, by : Tasks])
    /\ recv \in Valid \cup {None} /\ flash \in Valid \cup {None}
    /\ ie \in Coords
    /\ pushes \in 0 .. MaxPushes /\ faults \in 0 .. MaxFaults /\ recoveries \in 0 .. MaxRecoveries

(* gnss_init holds the line; the other task starts after it *)
BootPc == [t \in Tasks |-> IF t = "recover" THEN "pulse" ELSE "off"]

Init ==
    /\ nvs \in Coords \cup {None} /\ acked = None /\ fail = None
    /\ txn = "recover" /\ pc = BootPc /\ target = None
    /\ todo = [t \in Tasks |-> <<>>] /\ attempt = [t \in Tasks |-> 0]
    /\ done = [t \in Tasks |-> {}]
    /\ capturing = FALSE /\ cap = <<>> /\ wire = <<>> /\ out = <<>>
    /\ recv = None /\ flash = None
    /\ ie \in Valid
    /\ pushes = 0 /\ faults = 0 /\ recoveries = 0

Fault == faults < MaxFaults /\ faults' = faults + 1
-----------------------------------------------------------------------------
(* send_cmd_acked *)

(* gnss_ack_scan: the last verdict for the command, among the records whose
   checksum holds and whose text is OK or PARSING FAIL.
   mutant: the command is not compared *)
AckScanAnyCommand(c) ==
    LET hits == {i \in DOMAIN cap : cap[i].valid /\ cap[i].text # "other"}
    IN  IF hits = {} THEN "none" ELSE cap[Max(hits)].text

AckScan(c) ==
    LET hits == {i \in DOMAIN cap : cap[i].valid /\ cap[i].cmd = c /\ cap[i].text # "other"}
    IN  IF hits = {} THEN "none" ELSE cap[Max(hits)].text

Send(t) ==
    /\ pc[t] = "send"
    /\ pc' = [pc EXCEPT ![t] = "wait"]
    /\ cap' = <<>>
    /\ wire' = Append(wire, [cmd |-> Head(todo[t]), by |-> t])
    /\ UNCHANGED <<nvs, known, txn, todo, attempt, done, target, capturing, out, receiver, ie, bounds>>

(* What the caller does with a verdict: config_gnss_base goes on whatever it is,
   gnss_set_fixed_base skips saveconfig after a mode base that was not acked, and
   returns false when saveconfig was not. *)
Outcome(t, ok) ==
    LET cmd == Head(todo[t])
        rest == IF t = "heartbeat" /\ cmd.op = "mode" /\ ~ok THEN <<>> ELSE Tail(todo[t])
    IN  /\ todo' = [todo EXCEPT ![t] = rest]
        /\ done' = [done EXCEPT ![t] = IF ok THEN @ \cup {cmd.op} ELSE @]
        /\ attempt' = [attempt EXCEPT ![t] = 0]
        /\ pc' = [pc EXCEPT ![t] = IF rest # <<>> THEN "send"
                                   ELSE IF cmd.op = "rtcm" THEN "base" ELSE "finish"]
        \* config_gnss_base records a mode base at once
        /\ acked' = IF t = "recover" /\ cmd.op = "mode"
                    THEN IF ok THEN cmd.at ELSE None
                    ELSE acked

Verdict(t) ==
    /\ pc[t] = "wait"
    /\ AckScan(Head(todo[t])) # "none"
    /\ Outcome(t, AckScan(Head(todo[t])) = "OK")
    /\ UNCHANGED <<nvs, fail, txn, target, line, receiver, ie, bounds>>

MayRetry(t) == attempt[t] < ACK_RETRIES

(* ACK_TIMEOUT_MS pass without a verdict; a fault when one was still to come. *)
AckTimeout(t) ==
    /\ pc[t] = "wait"
    /\ AckScan(Head(todo[t])) = "none"
    /\ IF wire = <<>> /\ out = <<>> THEN UNCHANGED faults ELSE Fault
    /\ IF MayRetry(t)
       THEN /\ attempt' = [attempt EXCEPT ![t] = @ + 1]
            /\ pc' = [pc EXCEPT ![t] = "send"]
            /\ UNCHANGED <<todo, done, acked>>
       ELSE Outcome(t, FALSE)
    /\ UNCHANGED <<nvs, fail, txn, target, line, receiver, ie, pushes, recoveries>>
-----------------------------------------------------------------------------
(* gnss_init, gnss_recover and config_gnss_base *)

(* txn_take *)
TxnFree == txn = None

RecoverBegins ==
    /\ pc["recover"] = "idle" /\ recoveries < MaxRecoveries
    /\ TxnFree
    /\ txn' = "recover"
    /\ recoveries' = recoveries + 1
    /\ pc' = [pc EXCEPT !["recover"] = "pulse"]
    /\ UNCHANGED <<nvs, known, todo, attempt, done, target, line, receiver, ie, pushes, faults>>

(* The pin resets the receiver; what was on the line is dropped. *)
ResetPulse ==
    /\ pc["recover"] = "pulse"
    /\ pc' = [pc EXCEPT !["recover"] = "forget"]
    /\ recv' = flash
    /\ wire' = <<>> /\ out' = <<>>
    /\ UNCHANGED <<nvs, known, txn, todo, attempt, done, target, capturing, cap, flash, ie, bounds>>

(* gnss_receiver_epoch_invalidate, then the start of config_gnss_base. *)
EpochInvalidate ==
    /\ pc["recover"] = "forget"
    /\ pc' = [pc EXCEPT !["recover"] = "send"]
    /\ acked' = None /\ fail' = None
    /\ todo' = [todo EXCEPT !["recover"] = <<Undulation, Rtcm>>]
    /\ done' = [done EXCEPT !["recover"] = {}]
    /\ capturing' = TRUE
    /\ UNCHANGED <<nvs, txn, attempt, target, cap, wire, out, receiver, ie, bounds>>

(* gnss_load_fixed_base.  mutant: what NVS holds is only used when it is what the
   receiver acknowledged *)
LoadFixedBaseIfAcked == IF nvs \in Valid /\ acked = nvs THEN nvs ELSE None
LoadFixedBase == IF nvs \in Valid THEN nvs ELSE None

ChooseBase ==
    /\ pc["recover"] = "base"
    /\ pc' = [pc EXCEPT !["recover"] = "send"]
    /\ todo' = [todo EXCEPT !["recover"] =
                 <<IF LoadFixedBase # None THEN ModeBase(LoadFixedBase) ELSE Survey, Save>>]
    /\ acked' = IF LoadFixedBase # None THEN acked ELSE None
    /\ UNCHANGED <<nvs, fail, txn, attempt, done, target, line, receiver, ie, bounds>>

ConfigEnds ==
    /\ pc["recover"] = "finish"
    /\ capturing' = FALSE
    /\ IF pc["heartbeat"] = "off"
       THEN /\ pc' = [pc EXCEPT !["recover"] = "version"]
            /\ UNCHANGED txn
       ELSE /\ pc' = [pc EXCEPT !["recover"] = "idle"]
            /\ txn' = None
    /\ UNCHANGED <<nvs, known, todo, attempt, done, target, cap, wire, out, receiver, ie, bounds>>

(* gnss_log_version, and the rest of the start-up *)
LogVersion ==
    /\ pc["recover"] = "version"
    /\ pc' = [t \in Tasks |-> "idle"]
    /\ cap' = <<>> /\ txn' = None
    /\ UNCHANGED <<nvs, known, todo, attempt, done, target, capturing, wire, out, receiver, ie, bounds>>
-----------------------------------------------------------------------------
(* gnss_set_fixed_base, called for every heartbeat reply *)

(* A heartbeat comes MIN_POLL_S after the last one: its answers are in by then. *)
Settled == /\ \A i \in DOMAIN wire : wire[i].by # "heartbeat"
           /\ \A i \in DOMAIN out : out[i].by # "heartbeat"

(* The gates, in the order of the code.  A refresh of NVS that finds the same
   coordinate there changes nothing. *)
SetFixedBase ==
    /\ pc["heartbeat"] = "idle" /\ Settled
    /\ ie \in Valid
    /\ TxnFree
    /\ IF ie \in {acked, fail}
       THEN /\ nvs' = IF ie = acked THEN ie ELSE nvs
            /\ UNCHANGED <<txn, pc, todo, done, target, capturing>>
       ELSE /\ txn' = "heartbeat"
            /\ capturing' = TRUE
            /\ target' = ie
            /\ done' = [done EXCEPT !["heartbeat"] = {}]
            /\ todo' = [todo EXCEPT !["heartbeat"] = <<Undulation, ModeBase(ie), Save>>]
            /\ pc' = [pc EXCEPT !["heartbeat"] = "send"]
            /\ UNCHANGED nvs
    /\ UNCHANGED <<known, attempt, cap, wire, out, receiver, ie, bounds>>

(* mutant: NVS is written whether or not the receiver took the coordinate *)
FixedBaseEndsPersists ==
    /\ pc["heartbeat"] = "finish"
    /\ pc' = [pc EXCEPT !["heartbeat"] = "idle"]
    /\ txn' = None /\ capturing' = FALSE
    /\ acked' = target
    /\ fail' = None
    /\ nvs' = target
    /\ UNCHANGED <<todo, attempt, done, target, cap, wire, out, receiver, ie, bounds>>

FixedBaseEnds ==
    /\ pc["heartbeat"] = "finish"
    /\ pc' = [pc EXCEPT !["heartbeat"] = "idle"]
    /\ txn' = None /\ capturing' = FALSE
    /\ acked' = IF "mode" \in done["heartbeat"] THEN target ELSE None
    /\ fail' = IF "save" \in done["heartbeat"] THEN None ELSE target
    /\ nvs' = IF "save" \in done["heartbeat"] THEN target ELSE nvs
    /\ UNCHANGED <<todo, attempt, done, target, cap, wire, out, receiver, ie, bounds>>

CooldownEnds ==
    /\ fail # None
    /\ fail' = None
    /\ UNCHANGED <<nvs, acked, task, line, receiver, ie, bounds>>
-----------------------------------------------------------------------------
(* the receiver, the line, the IE and the power supply (external) *)

Executed(c) ==
    CASE c.op = "mode"   -> c.at
      [] c.op = "survey" -> None
      [] OTHER           -> recv

Answer(text, valid) ==
    out' = Append(out, [ans |-> [cmd |-> Head(wire).cmd, text |-> text, valid |-> valid],
                        by |-> Head(wire).by])

Execute ==
    /\ wire # <<>>
    /\ wire' = Tail(wire)
    /\ recv' = Executed(Head(wire).cmd)
    /\ flash' = IF Head(wire).cmd = Save THEN recv ELSE flash
    /\ \/ Answer("OK", TRUE) /\ UNCHANGED faults
       \/ Answer("OK", FALSE) /\ Fault
    /\ UNCHANGED <<nvs, known, task, capturing, cap, ie, pushes, recoveries>>

(* A refusal may be worded in a way the scan does not know, or damaged so that it
   reads as OK and fails its checksum. *)
Refuse ==
    /\ wire # <<>> /\ Fault
    /\ wire' = Tail(wire)
    /\ Answer("FAIL", TRUE) \/ Answer("other", TRUE) \/ Answer("OK", FALSE)
    /\ UNCHANGED <<nvs, known, task, capturing, cap, receiver, ie, pushes, recoveries>>

LoseCommand ==
    /\ wire # <<>> /\ Fault
    /\ wire' = Tail(wire)
    /\ UNCHANGED <<nvs, known, task, capturing, cap, out, receiver, ie, pushes, recoveries>>

(* gnss_ingest_uart; RTCM output may fill the buffer, which is then begun anew *)
IngestUart ==
    /\ out # <<>>
    /\ out' = Tail(out)
    /\ cap' = IF capturing THEN Append(cap, Head(out).ans) ELSE cap
    /\ UNCHANGED <<nvs, known, task, capturing, wire, receiver, ie, bounds>>

CaptureOverflows ==
    /\ capturing /\ cap # <<>> /\ Fault
    /\ cap' = <<>>
    /\ UNCHANGED <<nvs, known, task, capturing, wire, out, receiver, ie, pushes, recoveries>>

Correct ==
    /\ pushes < MaxPushes
    /\ pushes' = pushes + 1
    /\ ie' \in Coords \ {ie}
    /\ UNCHANGED <<nvs, known, task, line, receiver, faults, recoveries>>

Restart ==
    /\ recoveries < MaxRecoveries
    /\ recoveries' = recoveries + 1
    /\ acked' = None /\ fail' = None
    /\ txn' = "recover" /\ pc' = BootPc /\ target' = None
    /\ todo' = [t \in Tasks |-> <<>>] /\ attempt' = [t \in Tasks |-> 0]
    /\ done' = [t \in Tasks |-> {}]
    /\ capturing' = FALSE /\ cap' = <<>>
    /\ UNCHANGED <<nvs, wire, out, receiver, ie, pushes, faults>>

Commanding(t) == Send(t) \/ Verdict(t) \/ AckTimeout(t)
Recover == \/ Commanding("recover") \/ ResetPulse \/ EpochInvalidate
           \/ ChooseBase \/ ConfigEnds \/ LogVersion
Heartbeat == Commanding("heartbeat") \/ SetFixedBase \/ FixedBaseEnds
Receiver == Execute \/ Refuse \/ LoseCommand

Next == \/ Recover \/ RecoverBegins \/ Heartbeat \/ CooldownEnds
        \/ Receiver \/ IngestUart \/ CaptureOverflows \/ Correct \/ Restart

Spec == Init /\ [][Next]_vars

(* The tasks run, the receiver works off its commands, its bytes arrive, time
   passes: supervisor, provisioning_task and uart_task never end. *)
FairSpec == /\ Spec
            /\ WF_vars(Recover) /\ WF_vars(Heartbeat) /\ WF_vars(CooldownEnds)
            /\ WF_vars(Receiver) /\ WF_vars(IngestUart)
-----------------------------------------------------------------------------
(***************************************************************************)
(* Properties.                                                             *)
(***************************************************************************)

(* Between transactions the coordinate recorded as acknowledged is the one the
   receiver runs: no answer to another command, to an earlier attempt or to the
   other task's command, damaged or before a reset, confirms a coordinate that
   the receiver does not have.  gnss_set_fixed_base skips a push on this record. *)
AckedIsTruth == (txn = None /\ acked # None) => recv = acked

(* A station with a usable coordinate in NVS is never sent back to survey-in: "a
   power-cycle / reboot / GNSS-recover does NOT re-measure". *)
NeverResurveys == nvs \in Valid => \A i \in DOMAIN wire : wire[i].cmd # Survey

(* Whatever was lost, refused or late, and wherever the program was interrupted:
   in the end the receiver runs the last valid coordinate of the IE and NVS holds
   it, so that the next start restores it. *)
Converges == <>[](ie \in Valid => recv = ie /\ nvs = ie)
=============================================================================

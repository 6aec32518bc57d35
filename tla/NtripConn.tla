----------------------------- MODULE NtripConn -----------------------------
(***************************************************************************)
(* One NTRIP server instance of main/interface/ntrip_server.c outside the  *)
(* frame path: the server task from its retry pause through waiting,       *)
(* dialing and draining to the disconnect; the sleep task that withdraws   *)
(* DATA_READY when the receiver falls silent; and the UART task that sets  *)
(* it.  The three share the event bits and the keep-alive counter without  *)
(* a lock, in steps that interleave.  Backoff is main/retry.c.             *)
(*                                                                         *)
(* The frame queue itself is NtripTx; here only whether a frame waits.     *)
(***************************************************************************)
EXTENDS Naturals, Sequences

CONSTANTS LoadOrder, MaxVersion,   \* see CredSession
          ShortCount,     \* retry_init: pauses of ShortDelay before the table
          ShortDelay,
          DelayTable,     \* delays[]
          KeepAliveSteps, \* sleep task rounds until the receiver counts as silent
          MaxRequests,    \* bound: calls of ntrip_server_reconnect_all
          MaxStores       \* bound: configuration keys written

VARIABLES
    stored, reconnect_gen,          \* see CredSession
    pc,             \* where ntrip_server_task is
    loaded, conn_gen,
    ev,             \* event bits that are set: DATA_READY and CASTER_READY;
                    \*   DATA_SENT only chooses a log line
    attempts,       \* retry handle
    made_progress,
    queued,         \* does the ring hold a frame past the cursor?
    ip,             \* has the station an address?
    u,              \* where ntrip_server_ingest_uart is
    u_bits,         \* event bits it has read
    s,              \* where the sleep task is
    s_val,          \* data_keep_alive as the sleep task has read it
    suspended,      \* is the sleep task suspended?
    keep_alive,     \* data_keep_alive
    pause,          \* history: last pause since bytes were last accepted
    stores          \* history: keys written (bounded)

cred == <<stored, reconnect_gen, loaded, conn_gen>>
retry == <<attempts, pause>>
drain == <<made_progress, queued>>
uart == <<u, u_bits>>
sleep == <<s, s_val, suspended>>
vars == <<cred, retry, drain, uart, sleep, pc, ev, ip, keep_alive, stores>>

Bits == {"READY", "CASTER"}
PC == {"retry", "check", "wait", "resume", "ip", "load", "gen", "dial", "arm",
       "flag", "drain", "poll", "abort", "cleanup"}
Fields == {LoadOrder[k] : k \in DOMAIN LoadOrder}

(***************************************************************************)
(* retry_delay.  The table is entered at the first pause that is not below *)
(* the short one; attempts beyond it all pause for its last entry, so the  *)
(* counter is kept up to there.                                            *)
(***************************************************************************)
(* mutant: the table is entered at its start *)
DelaysOffsetZero == 0

IsEntry(k) ==
    /\ \A j \in 1 .. k : DelayTable[j] < ShortDelay
    /\ k = Len(DelayTable) \/ DelayTable[k + 1] >= ShortDelay

DelaysOffset == CHOOSE k \in 0 .. Len(DelayTable) : IsEntry(k)

MaxAttempts == ShortCount + Len(DelayTable)

Delay(n) ==
    LET k == n - ShortCount + DelaysOffset + 1 IN
    IF n = 0 THEN 0
    ELSE IF n < ShortCount THEN ShortDelay
    ELSE IF k <= Len(DelayTable) THEN DelayTable[k]
    ELSE DelayTable[Len(DelayTable)]

ASSUME ConnConstants ==
    /\ ShortCount \in Nat \ {0} /\ ShortDelay \in Nat
    /\ KeepAliveSteps \in Nat \ {0}
    /\ MaxRequests \in Nat /\ MaxStores \in Nat

(* The table of retry.c rises from a second to an hour; the short pause of every
   caller lies in between, so that the search for the entry ends. *)
ASSUME TableConstants ==
    /\ DelayTable \in Seq(Nat) /\ DelayTable # <<>>
    /\ \A i, j \in DOMAIN DelayTable : i <= j => DelayTable[i] <= DelayTable[j]
    /\ DelayTable[Len(DelayTable)] >= ShortDelay
    /\ \E k \in 0 .. Len(DelayTable) : IsEntry(k)

ASSUME KeyConstants ==
    /\ LoadOrder \in Seq(Fields) /\ LoadOrder # <<>>
    /\ MaxVersion \in Nat

TypeOK ==
    /\ stored \in [Fields -> 0 .. MaxVersion]
    /\ reconnect_gen \in 0 .. MaxRequests /\ conn_gen \in 0 .. MaxRequests
    /\ pc \in PC
    /\ loaded \in Seq(0 .. MaxVersion) /\ Len(loaded) <= Len(LoadOrder)
    /\ ev \in SUBSET Bits /\ u_bits \in SUBSET Bits
    /\ attempts \in 0 .. MaxAttempts
    /\ {made_progress, queued, ip, suspended} \subseteq BOOLEAN
    /\ u \in {"idle", "ready", "touch"}
    /\ s \in {"new", "count", "store", "test", "clear"}
    /\ s_val \in 0 .. KeepAliveSteps /\ keep_alive \in 0 .. KeepAliveSteps
    /\ pause \in Nat /\ stores \in 0 .. MaxStores

Init ==
    /\ stored = [f \in Fields |-> 0] /\ reconnect_gen = 0
    /\ pc = "retry" /\ loaded = <<>> /\ conn_gen = 0
    /\ ev = {} /\ attempts = 0
    /\ made_progress = FALSE /\ queued = FALSE
    /\ ip = FALSE
    /\ u = "idle" /\ u_bits = {}
    /\ s = "new" /\ s_val = 0 /\ suspended = FALSE /\ keep_alive = 0
    /\ pause = 0 /\ stores = 0
-----------------------------------------------------------------------------
(* ntrip_server_task: waiting *)

RetryDelay ==
    /\ pc = "retry"
    /\ pc' = "check"
    /\ attempts' = IF attempts < MaxAttempts THEN attempts + 1 ELSE attempts
    /\ pause' = Delay(attempts)
    /\ UNCHANGED <<cred, drain, uart, sleep, ev, ip, keep_alive, stores>>

CheckReady ==
    /\ pc = "check"
    /\ pc' = IF "READY" \in ev THEN "resume" ELSE "wait"
    /\ UNCHANGED <<cred, retry, drain, uart, sleep, ev, ip, keep_alive, stores>>

(* xEventGroupWaitBits clears the bit on exit. *)
WaitForData ==
    /\ pc = "wait" /\ "READY" \in ev
    /\ pc' = "resume"
    /\ ev' = ev \ {"READY"}
    /\ UNCHANGED <<cred, retry, drain, uart, sleep, ip, keep_alive, stores>>

ResumeSleepTask ==
    /\ pc = "resume"
    /\ pc' = "ip"
    /\ suspended' = FALSE
    /\ UNCHANGED <<cred, retry, drain, uart, s, s_val, ev, ip, keep_alive, stores>>

WaitForIp ==
    /\ pc = "ip" /\ ip
    /\ pc' = "load"
    /\ UNCHANGED <<cred, retry, drain, uart, sleep, ev, ip, keep_alive, stores>>
-----------------------------------------------------------------------------
(* ntrip_server_task: dialing *)

LoadKey ==
    /\ pc = "load"
    /\ loaded' = Append(loaded, stored[LoadOrder[Len(loaded) + 1]])
    /\ pc' = IF Len(loaded') = Len(LoadOrder) THEN "gen" ELSE "load"
    /\ UNCHANGED <<stored, reconnect_gen, conn_gen, retry, drain, uart, sleep,
                   ev, ip, keep_alive, stores>>

SnapshotGeneration ==
    /\ pc = "gen"
    /\ pc' = "dial"
    /\ conn_gen' = reconnect_gen
    /\ UNCHANGED <<stored, reconnect_gen, loaded, retry, drain, uart, sleep,
                   ev, ip, keep_alive, stores>>

(* Resolving, connecting, the request, its answer, the socket's mode. *)
DialFails ==
    /\ pc = "dial"
    /\ pc' = "cleanup"
    /\ UNCHANGED <<cred, retry, drain, uart, sleep, ev, ip, keep_alive, stores>>

DialSucceeds ==
    /\ pc = "dial"
    /\ pc' = "arm"
    /\ UNCHANGED <<cred, retry, drain, uart, sleep, ev, ip, keep_alive, stores>>

(* ntrip_tx_reset_conn: the cursor goes to the live edge of the ring.  The
   notification that is cleared with it only shortens a wait of 200 ms. *)
ResetCursor ==
    /\ pc = "arm"
    /\ pc' = "flag"
    /\ queued' = FALSE
    /\ UNCHANGED <<cred, retry, made_progress, uart, sleep, ev, ip,
                   keep_alive, stores>>

(* mutant: the requests made during the handshake count as served *)
ConnectedLateSnapshot ==
    /\ pc = "flag"
    /\ pc' = "drain"
    /\ ev' = ev \cup {"CASTER"}
    /\ made_progress' = FALSE
    /\ conn_gen' = reconnect_gen
    /\ UNCHANGED <<stored, reconnect_gen, loaded, retry, queued, uart,
                   sleep, ip, keep_alive, stores>>

Connected ==
    /\ pc = "flag"
    /\ pc' = "drain"
    /\ ev' = ev \cup {"CASTER"}
    /\ made_progress' = FALSE
    /\ UNCHANGED <<cred, retry, queued, uart, sleep, ip, keep_alive, stores>>
-----------------------------------------------------------------------------
(* ntrip_server_task: draining *)

(* The generation is compared, then a notification or 200 ms awaited. *)
DrainTurn ==
    /\ pc = "drain"
    /\ IF reconnect_gen = conn_gen
       THEN pc' = "poll"
       ELSE pc' = "abort"
    /\ UNCHANGED <<cred, retry, drain, uart, sleep, ev, ip, keep_alive, stores>>

(* The socket takes bytes, all or some of what is queued. *)
PollAccepts ==
    /\ pc = "poll" /\ queued
    /\ queued' \in BOOLEAN
    /\ made_progress' = TRUE
    /\ attempts' = IF made_progress THEN attempts ELSE 0
    /\ pause' = 0
    /\ pc' = "drain"
    /\ UNCHANGED <<cred, uart, sleep, ev, ip, keep_alive, stores>>

PollIdle ==
    /\ pc = "poll"
    /\ pc' = "drain"
    /\ UNCHANGED <<cred, retry, drain, uart, sleep, ev, ip, keep_alive, stores>>

(* A send error, a stall, an overdue frame or a failed probe. *)
PollBreaks ==
    /\ pc = "poll"
    /\ pc' = "abort"
    /\ UNCHANGED <<cred, retry, drain, uart, sleep, ev, ip, keep_alive, stores>>

Disconnect ==
    /\ pc = "abort"
    /\ pc' = "cleanup"
    /\ ev' = ev \ {"CASTER"}
    /\ UNCHANGED <<cred, retry, drain, uart, sleep, ip, keep_alive, stores>>

(* mutant: the next dial keeps what this one had read *)
CleanupKeepsKeys ==
    /\ pc = "cleanup"
    /\ pc' = "retry"
    /\ suspended' = TRUE
    /\ UNCHANGED <<cred, retry, drain, uart, s, s_val, ev, ip, keep_alive, stores>>

Cleanup ==
    /\ pc = "cleanup"
    /\ pc' = "retry"
    /\ suspended' = TRUE
    /\ loaded' = <<>>
    /\ UNCHANGED <<stored, reconnect_gen, conn_gen, retry, drain, uart, s, s_val,
                   ev, ip, keep_alive, stores>>

Waiting == RetryDelay \/ CheckReady \/ WaitForData \/ ResumeSleepTask \/ WaitForIp
Dialing == \/ LoadKey \/ SnapshotGeneration \/ DialFails \/ DialSucceeds
           \/ ResetCursor \/ Connected
Draining == \/ DrainTurn \/ PollAccepts \/ PollIdle \/ PollBreaks
            \/ Disconnect \/ Cleanup
-----------------------------------------------------------------------------
(* the sleep task *)

(* It suspends itself first; a resume that came before is lost. *)
SleepTaskStarts ==
    /\ s = "new"
    /\ s' = "count" /\ suspended' = TRUE
    /\ UNCHANGED <<cred, retry, drain, uart, s_val, pc, ev, ip, keep_alive, stores>>

ReadKeepAlive ==
    /\ s = "count" /\ ~suspended
    /\ s' = "store" /\ s_val' = keep_alive
    /\ UNCHANGED <<cred, retry, drain, uart, suspended, pc, ev, ip, keep_alive, stores>>

(* A frame between the two loses its reset of the counter. *)
CountKeepAlive ==
    /\ s = "store" /\ ~suspended
    /\ s' = "test" /\ s_val' = 0
    /\ keep_alive' = IF s_val < KeepAliveSteps THEN s_val + 1 ELSE keep_alive
    /\ UNCHANGED <<cred, retry, drain, uart, suspended, pc, ev, ip, stores>>

TestTimeout ==
    /\ s = "test" /\ ~suspended
    /\ s' = IF keep_alive >= KeepAliveSteps /\ "READY" \in ev THEN "clear" ELSE "count"
    /\ UNCHANGED <<cred, retry, drain, uart, s_val, suspended, pc, ev, ip, keep_alive, stores>>

WithdrawReady ==
    /\ s = "clear" /\ ~suspended
    /\ s' = "count"
    /\ ev' = ev \ {"READY"}
    /\ UNCHANGED <<cred, retry, drain, uart, s_val, suspended, pc, ip, keep_alive, stores>>

SleepTask == \/ SleepTaskStarts \/ ReadKeepAlive \/ CountKeepAlive
             \/ TestTimeout \/ WithdrawReady
-----------------------------------------------------------------------------
(* ntrip_server_ingest_uart, for a chunk that completed a frame *)

FrameArrives ==
    /\ u = "idle"
    /\ u' = "ready" /\ u_bits' = ev
    /\ queued' = TRUE
    /\ UNCHANGED <<cred, retry, made_progress, sleep, pc, ev, ip,
                   keep_alive, stores>>

(* mutant: only a connected instance is marked ready *)
SetReadyIfConnected ==
    /\ u = "ready"
    /\ u' = "touch" /\ u_bits' = {}
    /\ ev' = IF "CASTER" \in u_bits THEN ev \cup {"READY"} ELSE ev
    /\ UNCHANGED <<cred, retry, drain, sleep, pc, ip, keep_alive, stores>>

SetReady ==
    /\ u = "ready"
    /\ u' = "touch" /\ u_bits' = {}
    /\ ev' = IF "READY" \in u_bits THEN ev ELSE ev \cup {"READY"}
    /\ UNCHANGED <<cred, retry, drain, sleep, pc, ip, keep_alive, stores>>

TouchKeepAlive ==
    /\ u = "touch"
    /\ u' = "idle"
    /\ keep_alive' = 0
    /\ UNCHANGED <<cred, retry, drain, u_bits, sleep, pc, ev, ip, stores>>

Ingest == FrameArrives \/ SetReady \/ TouchKeepAlive
-----------------------------------------------------------------------------
(* the rest of the firmware *)

(* provisioning, the web server: one key of the configuration *)
StoreKey(f) ==
    /\ stores < MaxStores
    /\ stores' = stores + 1
    /\ \E v \in 0 .. MaxVersion : stored' = [stored EXCEPT ![f] = v]
    /\ UNCHANGED <<reconnect_gen, loaded, conn_gen, retry, drain, uart, sleep, pc,
                   ev, ip, keep_alive>>

(* ntrip_server_reconnect_all, from provisioning and the supervisor *)
RequestReconnect ==
    /\ reconnect_gen < MaxRequests
    /\ reconnect_gen' = reconnect_gen + 1
    /\ UNCHANGED <<stored, loaded, conn_gen, retry, drain, uart, sleep, pc, ev, ip,
                   keep_alive, stores>>

AddressChanges(up) ==
    /\ ip = ~up
    /\ ip' = up
    /\ UNCHANGED <<cred, retry, drain, uart, sleep, pc, ev, keep_alive, stores>>

Others ==
    \/ \E f \in Fields : StoreKey(f)
    \/ RequestReconnect
    \/ \E up \in BOOLEAN : AddressChanges(up)

Server == Waiting \/ Dialing \/ Draining
Next == Server \/ SleepTask \/ Ingest \/ Others

Spec == Init /\ [][Next]_vars

(***************************************************************************)
(* Every task that can run runs.  The receiver keeps producing frames and  *)
(* the station's address keeps coming back; wait_for_ip is woken by the    *)
(* address however briefly it is there, hence strong fairness.  Nothing is *)
(* assumed of the caster: every dial may fail and every connection break.  *)
(***************************************************************************)
FairSpec ==
    /\ Spec
    /\ WF_vars(Server) /\ WF_vars(SleepTask) /\ WF_vars(Ingest)
    /\ WF_vars(AddressChanges(TRUE)) /\ SF_vars(WaitForIp)
-----------------------------------------------------------------------------
(***************************************************************************)
(* Properties.                                                             *)
(***************************************************************************)

(* The pause before a dial is never shorter than the one before it unless the
   caster has accepted bytes in between: a handshake that dies right after must
   keep backing off, or the fleet hammers a struggling caster (ntrip_server.c,
   retry_reset only on the first accepted bytes; retry.c, entry into the
   table). *)
BackoffHolds == pc = "retry" => Delay(attempts) >= pause

(* An instance that waits for receiver data dials again while frames arrive:
   DATA_READY, tested and cleared in two steps by the sleep task and set from a
   stale reading of the bits by the UART task, comes back with a later frame. *)
WaitingWakes == pc = "wait" ~> pc = "load"

(* A reconnect requested at any time from the dial on is honoured: the instance
   drops the connection and reads its credentials again (reconnect_gen: "a
   request that arrives during DNS/handshake must survive until the drain loop
   can honor it"). *)
RequestHonoured ==
    (conn_gen # reconnect_gen /\ pc \in {"dial", "arm", "flag", "drain", "poll"})
      ~> pc = "load"

(* The server task is a caster session as provisioning sees one. *)
SessOf == CASE pc \in {"load", "gen"} -> "load"
            [] pc \in {"dial", "arm", "flag"} -> "dial"
            [] pc \in {"drain", "poll", "abort"} -> "up"
            [] OTHER -> "idle"
LoadedOf == IF pc = "cleanup" THEN <<>> ELSE loaded

Credentials == INSTANCE CredSession WITH sess <- SessOf, loaded <- LoadedOf

ImplementsSession == Credentials!CredSpec
-----------------------------------------------------------------------------
(***************************************************************************)
(* The inductive invariants behind BackoffHolds and ImplementsSession: the *)
(* last pause is at most the next one wherever the task is, and what has   *)
(* been read of the credentials fits the place.                            *)
(***************************************************************************)
BackoffInv ==
    /\ attempts \in 0 .. MaxAttempts /\ pause \in Nat
    /\ pause <= Delay(attempts)

LoadInv ==
    /\ stored \in [Fields -> 0 .. MaxVersion] /\ loaded \in Seq(0 .. MaxVersion)
    /\ pc \in {"retry", "check", "wait", "resume", "ip"} => loaded = <<>>
    /\ pc = "load" => Len(loaded) < Len(LoadOrder)
    /\ pc = "gen" => Len(loaded) = Len(LoadOrder)
=============================================================================

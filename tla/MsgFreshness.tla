---------------------------- MODULE MsgFreshness ----------------------------
(***************************************************************************)
(* The required-message health contract (main/interface/ntrip_server.c):   *)
(* the UART task stamps the last frame of every required RTCM type, the    *)
(* GNSS task starts a new receiver epoch when it pulses the reset line     *)
(* (main/gnss.c), and any task may ask for a verdict.  The three share     *)
(* plain words without a lock, so every read and every write of a shared   *)
(* word is a step of its own.                                              *)
(*                                                                         *)
(* A frame is its type, the receiver generation that emitted it and its    *)
(* time of arrival; the generation is what the code cannot see and what    *)
(* the contract is about.  Behind a false preamble the parser keeps        *)
(* complete frames in its buffer until later bytes let them go.            *)
(***************************************************************************)
EXTENDS Integers, Sequences

CONSTANTS NTypes,      \* NTRIP_REQUIRED_MSG_COUNT
          Budget,      \* s_required_budget_ms
          Half,        \* 2^31
          PulseMs,     \* GNSS_RESET_MS
          HoldMs,      \* the UART task feeds what has arrived, and what it has read,
                       \*   to the parser within HoldMs
          Uptime0,     \* uptime at which the behaviour starts,
          Resets0, Since0,  \* resets before it and the time of the last one
          MaxTicks, MaxEmit, MaxResets, MaxVerdicts, MaxQueue  \* bounds

Types == 1 .. NTypes
ClockMod == 2 * Half

ASSUME FreshnessConstants ==
    /\ NTypes \in Nat \ {0}
    /\ Budget \in [Types -> Nat]
    /\ Half \in Nat \ {0}
    /\ PulseMs \in Nat \ {0} /\ HoldMs \in Nat /\ HoldMs < 2 * PulseMs
    /\ Uptime0 \in Nat /\ Resets0 \in Nat /\ Since0 \in 0 .. Uptime0
    /\ Resets0 = 0 => Since0 = 0
    /\ MaxTicks \in Nat /\ MaxEmit \in Nat /\ MaxResets \in Nat
    /\ MaxVerdicts \in Nat /\ MaxQueue \in Nat

VARIABLES
    clock,              \* real time in milliseconds
    (* the receiver and the UART driver *)
    gen,                \* receiver generation: resets so far
    fifo,               \* frames in the driver's receive buffer
    emitted,            \* frames emitted (bounded)
    (* shared words *)
    s_msg_last_ms, s_msg_epoch, s_epoch, s_epoch_started_ms, s_ingest_reset_req,
    (* the UART task *)
    upc, chunk, read_at, todo, chunk_now, held,
    (* the GNSS task *)
    gpc, pulse_until,
    (* the task that asks for a verdict *)
    rpc, r_now, r_epoch, r_since, r_type, r_last, fresh, all_fresh, verdicts,
    (* history: what the words really stand for *)
    sample,             \* sample[i]: the frame behind s_msg_last_ms[i]
    asked,              \* epoch whose reset has last asked for an empty parser
    chunk_asked,        \* the same when the UART task looked
    chunk_at, since_at, r_at, r_since_at, r_sample,
    r_good              \* types in order when the verdict started

shared == <<s_msg_last_ms, s_msg_epoch, s_epoch, s_epoch_started_ms,
            s_ingest_reset_req, sample, since_at, asked>>
receiver == <<gen, fifo, emitted>>
uart == <<upc, chunk, read_at, todo, chunk_now, chunk_at, chunk_asked, held>>
gnss == <<gpc, pulse_until>>
reader == <<rpc, r_now, r_epoch, r_since, r_type, r_last, fresh, all_fresh, verdicts,
            r_at, r_since_at, r_sample, r_good>>
vars == <<clock, shared, receiver, uart, gnss, reader>>

Frame == [type : Types, gen : Nat, at : Nat]
(* A time stamp: the generation of the frame, when it was stamped, when it
   arrived, and the last reset request the UART task had seen by then. *)
Sample == [gen : Nat, at : Nat, arrived : Nat, asked : Nat]
NoSample == [gen |-> 0, at |-> 0, arrived |-> 0, asked |-> 0]

(* ntrip_now_ms(), and the sign of the 32-bit difference of two readings. *)
Ms(t) == t % ClockMod
Elapsed(from, to) == (to - from) % ClockMod
After(a, b) == Elapsed(b, a) \in 1 .. Half - 1

(* Nothing has been seen in the current epoch. *)
Init ==
    /\ clock = Uptime0
    /\ gen = Resets0 /\ fifo = <<>> /\ emitted = 0
    /\ s_msg_last_ms = [i \in Types |-> Ms(Since0)]
    /\ s_msg_epoch = [i \in Types |-> Resets0]
    /\ s_epoch = Resets0 + 1
    /\ s_epoch_started_ms = Ms(Since0)
    /\ s_ingest_reset_req = FALSE
    /\ upc = "read" /\ chunk = <<>> /\ read_at = 0 /\ todo = <<>> /\ chunk_now = 0
    /\ held = <<>>
    /\ gpc = "idle" /\ pulse_until = 0
    /\ rpc = "idle" /\ r_now = 0 /\ r_epoch = 0 /\ r_since = 0 /\ r_type = 1
    /\ r_last = 0
    /\ fresh = [i \in Types |-> FALSE] /\ all_fresh = FALSE /\ verdicts = 0
    /\ sample = [i \in Types |-> [gen |-> IF Resets0 = 0 THEN 0 ELSE Resets0 - 1,
                                 at |-> Since0, arrived |-> Since0, asked |-> 0]]
    /\ asked = Resets0 + 1 /\ chunk_asked = 0
    /\ chunk_at = 0 /\ since_at = Since0 /\ r_at = 0 /\ r_since_at = 0
    /\ r_sample = [i \in Types |-> NoSample]
    /\ r_good = {}

(* Time passes.  The GNSS task sleeps out each half of the pulse, and the
   UART task keeps up: it polls the driver every 50 ms, and the pulse lasts a
   second. *)
Tick ==
    /\ clock < Uptime0 + MaxTicks
    /\ \A k \in DOMAIN fifo : clock < fifo[k].at + HoldMs
    /\ \A k \in DOMAIN chunk : clock < chunk[k].at + HoldMs
    /\ upc \in {"ingest", "feed"} => clock < read_at + HoldMs
    /\ clock' = clock + 1
    /\ UNCHANGED <<shared, receiver, uart, gnss, reader>>
-----------------------------------------------------------------------------
(* The receiver sends a frame; held in reset it is silent. *)
ReceiverEmits ==
    /\ gpc # "low"
    /\ emitted < MaxEmit
    /\ Len(fifo) < MaxQueue
    /\ \E i \in Types : fifo' = Append(fifo, [type |-> i, gen |-> gen, at |-> clock])
    /\ emitted' = emitted + 1
    /\ UNCHANGED <<clock, shared, gen, uart, gnss, reader>>
-----------------------------------------------------------------------------
(* uart_task: uart_read_bytes moves what has arrived into the local buffer.
   Bytes that complete no frame, such as an answer to a command, let go what
   the parser holds; when it holds nothing they change nothing. *)
UartRead ==
    /\ upc = "read"
    /\ fifo # <<>> \/ held # <<>>
    /\ chunk' = fifo
    /\ read_at' = clock
    /\ fifo' = <<>>
    /\ upc' = "ingest"
    /\ UNCHANGED <<clock, shared, gen, emitted, todo, chunk_now, chunk_at, chunk_asked, held,
                   gnss, reader>>

(* Mutation: the request is acknowledged, and the parser keeps what it holds. *)
IngestForgetsReset ==
    /\ upc = "ingest"
    /\ s_ingest_reset_req' = FALSE
    /\ chunk_asked' = asked
    /\ upc' = "feed"
    /\ UNCHANGED <<clock, s_msg_last_ms, s_msg_epoch, s_epoch, s_epoch_started_ms, sample,
                   since_at, asked, receiver, chunk, read_at, todo, chunk_now, chunk_at, held,
                   gnss, reader>>

(* ntrip_server_ingest_uart: the parser is emptied if a reset asked for it. *)
IngestHonoursReset ==
    /\ upc = "ingest"
    /\ held' = IF s_ingest_reset_req THEN <<>> ELSE held
    /\ s_ingest_reset_req' = FALSE
    /\ chunk_asked' = asked
    /\ upc' = "feed"
    /\ UNCHANGED <<clock, s_msg_last_ms, s_msg_epoch, s_epoch, s_epoch_started_ms, sample,
                   since_at, asked, receiver, chunk, read_at, todo, chunk_now, chunk_at, gnss,
                   reader>>

(* The clock is read once per chunk, then the parser runs.  It emits the
   frames it holds and those of the chunk in order; behind a false preamble
   the last of them stay in its buffer. *)
IngestFeed ==
    /\ upc = "feed"
    /\ chunk_now' = Ms(clock)
    /\ chunk_at' = clock
    /\ LET all == held \o chunk
       IN  \E k \in 0 .. Len(all) :
             /\ todo' = SubSeq(all, 1, k)
             /\ held' = SubSeq(all, k + 1, Len(all))
             /\ upc' = IF k = 0 THEN "read" ELSE "stamp"
    /\ chunk' = <<>>
    /\ read_at' = 0
    /\ UNCHANGED <<clock, shared, receiver, chunk_asked, gnss, reader>>

(* ntrip_server_on_frame: time stamp first ... *)
OnFrameStamps ==
    LET f == Head(todo)
    IN  /\ upc = "stamp"
        /\ s_msg_last_ms' = [s_msg_last_ms EXCEPT ![f.type] = chunk_now]
        /\ sample' = [sample EXCEPT ![f.type] =
                       [gen |-> f.gen, at |-> chunk_at, arrived |-> f.at,
                        asked |-> chunk_asked]]
        /\ upc' = "tag"
        /\ UNCHANGED <<clock, s_msg_epoch, s_epoch, s_epoch_started_ms, since_at,
                       asked, s_ingest_reset_req, receiver, chunk, read_at, todo,
                       chunk_now, chunk_at, chunk_asked, held, gnss, reader>>

(* ... epoch tag last. *)
OnFrameTags ==
    /\ upc = "tag"
    /\ s_msg_epoch' = [s_msg_epoch EXCEPT ![Head(todo).type] = s_epoch]
    /\ todo' = Tail(todo)
    /\ upc' = IF Len(todo) = 1 THEN "read" ELSE "stamp"
    /\ UNCHANGED <<clock, s_msg_last_ms, sample, s_epoch, s_epoch_started_ms, since_at,
                   asked, s_ingest_reset_req, receiver, chunk, read_at, chunk_now, chunk_at,
                   chunk_asked, held, gnss, reader>>
-----------------------------------------------------------------------------
(* vTaskDelay of GNSS_RESET_MS has elapsed. *)
Slept == clock >= pulse_until

(* gnss_reset_pulse: the line goes low and the receiver loses its state. *)
ResetLow ==
    /\ gpc = "idle"
    /\ gen < MaxResets
    /\ gen' = gen + 1
    /\ pulse_until' = clock + PulseMs
    /\ gpc' = "low"
    /\ UNCHANGED <<clock, shared, fifo, emitted, uart, reader>>

ResetHigh ==
    /\ gpc = "low"
    /\ Slept
    /\ pulse_until' = clock + PulseMs
    /\ gpc' = "high"
    /\ UNCHANGED <<clock, shared, receiver, uart, reader>>

(* drv_uart_gnss_flush drops what is queued in the driver. *)
Flush ==
    /\ gpc = "high"
    /\ Slept
    /\ fifo' = <<>>
    /\ gpc' = "flushed"
    /\ UNCHANGED <<clock, shared, gen, emitted, pulse_until, uart, reader>>

(* ntrip_server_msg_epoch_reset: start time, epoch, reset request. *)
EpochSince ==
    /\ gpc = "flushed"
    /\ s_epoch_started_ms' = Ms(clock)
    /\ since_at' = clock
    /\ gpc' = "since"
    /\ UNCHANGED <<clock, s_msg_last_ms, s_msg_epoch, s_epoch, s_ingest_reset_req, sample,
                   asked, receiver, uart, pulse_until, reader>>

(* s_epoch++; the wrap to 0 takes 2^32 resets and is left out. *)
EpochBump ==
    /\ gpc = "since"
    /\ s_epoch' = s_epoch + 1
    /\ gpc' = "bumped"
    /\ UNCHANGED <<clock, s_msg_last_ms, s_msg_epoch, s_epoch_started_ms,
                   s_ingest_reset_req, sample, since_at, asked, receiver, uart, pulse_until,
                   reader>>

EpochRequest ==
    /\ gpc = "bumped"
    /\ s_ingest_reset_req' = TRUE
    /\ asked' = s_epoch
    /\ gpc' = "idle"
    /\ UNCHANGED <<clock, s_msg_last_ms, s_msg_epoch, s_epoch, s_epoch_started_ms, sample,
                   since_at, receiver, uart, pulse_until, reader>>
-----------------------------------------------------------------------------
(* What the contract is about: type i has been seen in the current epoch and
   within its budget, and the epoch is not just being changed. *)
Healthy(i) ==
    /\ gpc # "since"
    /\ s_msg_epoch[i] = s_epoch
    /\ sample[i].at > since_at
    /\ clock - sample[i].at <= Budget[i]

(* ntrip_server_msg_freshness, one shared word at a time. *)
VerdictNow ==
    /\ rpc = "idle"
    /\ verdicts < MaxVerdicts
    /\ verdicts' = verdicts + 1
    /\ r_now' = Ms(clock)
    /\ r_at' = clock
    /\ r_good' = {i \in Types : Healthy(i)}
    /\ rpc' = "epoch"
    /\ UNCHANGED <<clock, shared, receiver, uart, gnss, r_epoch, r_since, r_type, r_last,
                   fresh, all_fresh, r_since_at, r_sample>>

VerdictEpoch ==
    /\ rpc = "epoch"
    /\ r_epoch' = s_epoch
    /\ rpc' = "since"
    /\ UNCHANGED <<clock, shared, receiver, uart, gnss, r_now, r_since, r_type, r_last, fresh,
                   all_fresh, verdicts, r_at, r_since_at, r_sample, r_good>>

VerdictSince ==
    /\ rpc = "since"
    /\ r_since' = s_epoch_started_ms
    /\ r_since_at' = since_at
    /\ all_fresh' = TRUE
    /\ r_type' = 1
    /\ rpc' = "last"
    /\ UNCHANGED <<clock, shared, receiver, uart, gnss, r_now, r_epoch, r_last, fresh,
                   verdicts, r_at, r_sample, r_good>>

VerdictLast ==
    /\ rpc = "last"
    /\ r_last' = s_msg_last_ms[r_type]
    /\ r_sample' = [r_sample EXCEPT ![r_type] = sample[r_type]]
    /\ rpc' = "tag"
    /\ UNCHANGED <<clock, shared, receiver, uart, gnss, r_now, r_epoch, r_since, r_type,
                   fresh, all_fresh, verdicts, r_at, r_since_at, r_good>>

(* Mutation: the tag alone decides. *)
InEpochTagOnly(tag) == tag = r_epoch

InEpoch(tag) == tag = r_epoch /\ After(r_last, r_since)

(* Mutation: a sample of exactly its budget's age counts as too old. *)
WithinBudgetStrict(i) == Elapsed(r_last, r_now) < Budget[i]

(* Mutation: a sample may be one millisecond older than its budget. *)
WithinBudgetLoose(i) == Elapsed(r_last, r_now) <= Budget[i] + 1

WithinBudget(i) == Elapsed(r_last, r_now) <= Budget[i]

VerdictTag ==
    /\ rpc = "tag"
    /\ LET ok == InEpoch(s_msg_epoch[r_type]) /\ WithinBudget(r_type)
       IN  /\ fresh' = [fresh EXCEPT ![r_type] = ok]
           /\ all_fresh' = (all_fresh /\ ok)
    /\ r_type' = IF r_type = NTypes THEN 1 ELSE r_type + 1
    /\ rpc' = IF r_type = NTypes THEN "final" ELSE "last"
    /\ UNCHANGED <<clock, shared, receiver, uart, gnss, r_now, r_epoch, r_since, r_last,
                   verdicts, r_at, r_since_at, r_sample, r_good>>

(* The verdict stands only if no reset landed meanwhile. *)
VerdictFinal ==
    /\ rpc = "final"
    /\ all_fresh' = (all_fresh /\ s_epoch = r_epoch)
    /\ rpc' = "done"
    /\ UNCHANGED <<clock, shared, receiver, uart, gnss, r_now, r_epoch, r_since, r_type,
                   r_last, fresh, verdicts, r_at, r_since_at, r_sample, r_good>>

VerdictReturns ==
    /\ rpc = "done"
    /\ rpc' = "idle"
    /\ UNCHANGED <<clock, shared, receiver, uart, gnss, r_now, r_epoch, r_since, r_type,
                   r_last, fresh, all_fresh, verdicts, r_at, r_since_at, r_sample, r_good>>

UartTask ==
    UartRead \/ IngestHonoursReset \/ IngestFeed \/ OnFrameStamps \/ OnFrameTags

GnssTask ==
    ResetLow \/ ResetHigh \/ Flush \/ EpochSince \/ EpochBump \/ EpochRequest

Verdict ==
    \/ VerdictNow \/ VerdictEpoch \/ VerdictSince \/ VerdictLast \/ VerdictTag
    \/ VerdictFinal \/ VerdictReturns

Next == Tick \/ ReceiverEmits \/ UartTask \/ GnssTask \/ Verdict

Spec == Init /\ [][Next]_vars
-----------------------------------------------------------------------------
(* Type invariant of the three tasks and the words they share. *)
TypeOK ==
    /\ clock \in Nat
    /\ gen \in Nat /\ fifo \in Seq(Frame) /\ emitted \in Nat
    /\ s_msg_last_ms \in [Types -> Nat] /\ s_msg_epoch \in [Types -> Nat]
    /\ s_epoch \in Nat /\ s_epoch_started_ms \in Nat /\ s_ingest_reset_req \in BOOLEAN
    /\ upc \in {"read", "ingest", "feed", "stamp", "tag"}
    /\ chunk \in Seq(Frame) /\ todo \in Seq(Frame) /\ held \in Seq(Frame)
    /\ upc \in {"stamp", "tag"} => todo # <<>>
    /\ chunk_now \in Nat /\ read_at \in Nat
    /\ gpc \in {"idle", "low", "high", "flushed", "since", "bumped"}
    /\ pulse_until \in Nat
    /\ rpc \in {"idle", "epoch", "since", "last", "tag", "final", "done"}
    /\ r_now \in Nat /\ r_epoch \in Nat /\ r_since \in Nat /\ r_last \in Nat
    /\ r_type \in Types
    /\ fresh \in [Types -> BOOLEAN] /\ all_fresh \in BOOLEAN /\ verdicts \in Nat
    /\ sample \in [Types -> Sample] /\ r_sample \in [Types -> Sample]
    /\ asked \in Nat /\ chunk_asked \in Nat
    /\ chunk_at \in Nat /\ since_at \in Nat /\ r_at \in Nat /\ r_since_at \in Nat
    /\ r_good \subseteq Types

(* The claim of ntrip_server.c: "a frame that was already in flight during the
   reset can therefore never revive the new epoch".  A verdict of all-fresh
   rests only on frames that the receiver emitted after the reset that began
   the epoch.  Epoch e + 1 began with reset e, which made the receiver's
   generation e.  The code does not keep it: what the parser holds back is
   stamped with the time at which it is let go. *)
NoRevival ==
    rpc = "done" /\ all_fresh => \A i \in Types : r_sample[i].gen + 1 >= r_epoch

(* A frame of the old generation that waited in the parser, and that the UART
   task let go after it had looked for a reset request and before it was made. *)
HeldBack(f) == f.at > f.arrived + HoldMs /\ f.asked < r_epoch

(* What the reset does guarantee, whatever was in a buffer, half written or
   half read when it happened: a verdict of all-fresh rests on frames emitted
   after the reset that began the epoch, or on frames that the parser held
   back, let go by the one chunk that was under way while
   ntrip_server_msg_epoch_reset ran.  Neither the driver's buffer, nor a chunk
   that arrives later, nor a torn read of the shared words revives an old one. *)
OnlyHeldRevives ==
    rpc = "done" /\ all_fresh =>
      \A i \in Types : r_sample[i].gen + 1 >= r_epoch \/ HeldBack(r_sample[i])

(* A type called fresh really was seen within its budget when the verdict
   read the clock, and within the epoch (ntrip.h: "seen AND within budget").
   Differences of wrapped 32-bit readings decide it. *)
FreshIsRecent ==
    rpc = "done" /\ all_fresh =>
      \A i \in Types : /\ r_sample[i].at > r_since_at
                       /\ r_at - r_sample[i].at \in 0 .. Budget[i]

(* A receiver that produces the required set is not called faulty: a type
   that is in order when the verdict reads the clock is called fresh, unless
   a reset takes its sample away or a frame replaces it by a later one.  The
   OTA gate rolls an image back on a single verdict, so a false alarm costs a
   downgrade.  The comparison with the start of the epoch is a signed 32-bit
   one, so all this ends 2^31 ms after the last reset of the receiver. *)
HealthyIsFresh ==
    rpc = "done" /\ s_epoch = r_epoch =>
      \A i \in r_good :
        /\ r_sample[i].at <= r_at
        /\ r_sample[i].at - r_since_at \in 1 .. Half - 1
        => fresh[i]
=============================================================================

------------------------------ MODULE NtripTx ------------------------------
(***************************************************************************)
(* The NTRIP send path: the shared ring of complete RTCM frames, one       *)
(* sender per NTRIP instance (main/interface/ntrip_tx_core.c) and the      *)
(* drain loop of ntrip_server_task (main/interface/ntrip_server.c), which  *)
(* owns the socket.  The UART task pushes frames while any number of       *)
(* server tasks copy them out; the ring lock is explicit, so the scan of   *)
(* tx_copy_next is a sequence of steps in which the clock moves and the    *)
(* other tasks run up to the lock.                                         *)
(*                                                                         *)
(* A frame is its sequence number; of its bytes only the length is kept.   *)
(* Time is in abstract milliseconds; what the code stores is the 32-bit    *)
(* reading Ms(clock), and every difference of readings wraps.              *)
(***************************************************************************)
EXTENDS Integers, Sequences

CONSTANTS Inst,             \* the NTRIP instances
          Slots,            \* RTCM_RING_SLOTS
          Lens,             \* lengths of the frames the receiver emits
          ClockMod,         \* 2^32, the range of ntrip_now_ms()
          StaleMs,          \* NTRIP_TX_STALE_DROP_MS
          ProgressTimeout,  \* NTRIP_TX_PROGRESS_TIMEOUT_MS
          FrameDeadline,    \* NTRIP_TX_FRAME_DEADLINE_MS
          MaxSends,         \* NTRIP_TX_MAX_SENDS_PER_POLL
          MaxSpins,         \* NTRIP_DRAIN_MAX_SPINS
          Uptime0,          \* uptime at which the behaviour starts
          NoFrame, NoOne,   \* no frame / lock is free
          MaxSeq, MaxTicks, MaxConns  \* bounds: frames, ticks, connections

ASSUME TxConstants ==
    /\ Slots \in Nat \ {0}
    /\ Lens \subseteq Nat \ {0}
    /\ ClockMod \in Nat \ {0}
    /\ StaleMs \in Nat
    /\ ProgressTimeout \in Nat
    /\ FrameDeadline \in Nat
    /\ MaxSends \in Nat \ {0}
    /\ MaxSpins \in Nat \ {0}
    /\ Uptime0 \in Nat
    /\ NoFrame \notin Nat
    /\ NoOne \notin Inst
    /\ MaxSeq \in Nat /\ MaxTicks \in Nat /\ MaxConns \in Nat

VARIABLES
    slot,       \* ring slots
    next_seq,   \* sequence number of the next frame
    cum_bytes,  \* bytes ever pushed
    uart_now,   \* the UART task's reading of the clock for this chunk
    lock,       \* holder of the ring lock while a scan runs, or NoOne
    (* the ntrip_tx_t of every instance *)
    cursor_seq, cum_through,
    current, current_len, current_off, current_received_ms, last_progress_ms,
    copied_bytes, accepted_to_lwip, dropped_bytes, skipped_bytes,
    dropped_stale_bytes, sent_frames, skipped_frames, dropped_frames_stale,
    (* the server task of every instance *)
    pc,         \* pc[i]: where the server task of i is
    now,        \* now[i]: its reading of the clock for this wake-up
    round,      \* round[i]: sends already made by this poll
    spins,      \* spins[i]: polls already made by this wake-up
    pr,         \* pr[i]: result of the poll
    conns,      \* conns[i]: connections made (bounded)
    clock,      \* real time
    prefix,     \* history: prefix[k] is the total length of the first k frames
    delivered,  \* history: delivered[i] lists the frames i completed
    wire        \* history: wire[i] is the byte stream of the current connection
                \*   of i, as runs of consecutive bytes of one frame

ring == <<slot, next_seq, cum_bytes, prefix, uart_now>>
position == <<cursor_seq, cum_through>>
frame == <<current, current_len, current_off, current_received_ms>>
lost == <<skipped_bytes, skipped_frames, dropped_stale_bytes, dropped_frames_stale>>
sent == <<accepted_to_lwip, sent_frames>>
tx == <<position, frame, last_progress_ms, copied_bytes, dropped_bytes, lost, sent>>
task == <<pc, now, round, spins, pr, conns>>
hist == <<delivered, wire>>
vars == <<ring, lock, tx, task, clock, hist>>

Index == 0 .. Slots - 1
Slot == [seq : Nat, received_ms : Nat, len : Nat, cum_bytes : Nat, data : Nat]
Location == {"down", "wait", "poll", "scan", "send", "check"}
PollResult == {"IDLE", "PROGRESS", "WOULDBLOCK", "ERROR"}

(***************************************************************************)
(* 32-bit milliseconds.                                                    *)
(***************************************************************************)
Ms(t) == t % ClockMod
Elapsed(from, to) == (to - from) % ClockMod

(***************************************************************************)
(* The ring.                                                               *)
(***************************************************************************)
SlotOf(k) == slot[k % Slots]
(* Mutation: one slot more than the ring has is taken for resident. *)
OldestOffByOne == IF next_seq > Slots THEN next_seq - Slots - 1 ELSE 0

ring_oldest_seq == IF next_seq > Slots THEN next_seq - Slots ELSE 0

(* Total length of the frames before frame k. *)
Before(k) == IF k = 0 THEN 0 ELSE prefix[k]

ntrip_ring_push(len) ==
    /\ lock = NoOne
    /\ slot' = [slot EXCEPT ![next_seq % Slots] =
                  [seq |-> next_seq, received_ms |-> uart_now, len |-> len,
                   cum_bytes |-> cum_bytes + len, data |-> next_seq]]
    /\ cum_bytes' = cum_bytes + len
    /\ next_seq' = next_seq + 1
    /\ prefix' = Append(prefix, cum_bytes + len)
    /\ UNCHANGED uart_now

(***************************************************************************)
(* The sender of one instance.                                             *)
(***************************************************************************)
Zero == [i \in Inst |-> 0]
Add(f, i, n) == [f EXCEPT ![i] = @ + n]

ntrip_tx_pending(i) == current_len[i] - current_off[i]
Pending(i) == current_off[i] < current_len[i]

(* Nothing is pending any more. *)
ClearCurrent(i) ==
    /\ current' = [current EXCEPT ![i] = NoFrame]
    /\ current_len' = [current_len EXCEPT ![i] = 0]
    /\ current_off' = [current_off EXCEPT ![i] = 0]
    /\ UNCHANGED current_received_ms

(* Mutation: the rest of the frame survives the connection. *)
AbortKeepsFrame(i) ==
    /\ dropped_bytes' = Add(dropped_bytes, i, ntrip_tx_pending(i))
    /\ UNCHANGED frame

ntrip_tx_abort(i) ==
    /\ dropped_bytes' = Add(dropped_bytes, i, ntrip_tx_pending(i))
    /\ ClearCurrent(i)

(* Move the cursor to frame k, before which the ring counted cum bytes. *)
MoveCursor(i, k, cum) ==
    /\ cursor_seq' = [cursor_seq EXCEPT ![i] = k]
    /\ cum_through' = [cum_through EXCEPT ![i] = cum]

SkipTo(i, k, cum) ==
    /\ skipped_frames' = Add(skipped_frames, i, k - cursor_seq[i])
    /\ skipped_bytes' = Add(skipped_bytes, i, cum - cum_through[i])
    /\ UNCHANGED <<dropped_stale_bytes, dropped_frames_stale>>

(* Mutation: frames waiting in the ring at a reconnect are not counted. *)
ResetUncounted(i) ==
    /\ ntrip_tx_abort(i)
    /\ MoveCursor(i, next_seq, cum_bytes)
    /\ last_progress_ms' = [last_progress_ms EXCEPT ![i] = Ms(clock)]
    /\ UNCHANGED <<copied_bytes, sent, lost>>

ntrip_tx_reset_conn(i) ==
    /\ ntrip_tx_abort(i)
    /\ IF cursor_seq[i] < next_seq
       THEN SkipTo(i, next_seq, cum_bytes)
       ELSE UNCHANGED lost
    /\ MoveCursor(i, next_seq, cum_bytes)
    /\ last_progress_ms' = [last_progress_ms EXCEPT ![i] = Ms(clock)]
    /\ UNCHANGED <<copied_bytes, sent>>

ntrip_tx_stalled(i) ==
    Pending(i) /\ Elapsed(last_progress_ms[i], now[i]) > ProgressTimeout

ntrip_tx_frame_overdue(i) ==
    Pending(i) /\ Elapsed(current_received_ms[i], now[i]) > FrameDeadline

(* Mutation: the reader jumps to the oldest frame although it is ahead. *)
FallOffAlways(i) ==
    LET oldest == ring_oldest_seq
        cum_before_oldest == SlotOf(oldest).cum_bytes - SlotOf(oldest).len
    IN  /\ SkipTo(i, oldest, cum_before_oldest)
        /\ MoveCursor(i, oldest, cum_before_oldest)
        /\ UNCHANGED <<frame, last_progress_ms, copied_bytes, dropped_bytes, sent>>

(* The reader fell off the back of the ring: jump to the oldest frame. *)
FallOff(i) ==
    LET oldest == ring_oldest_seq
        cum_before_oldest == SlotOf(oldest).cum_bytes - SlotOf(oldest).len
    IN  /\ IF cursor_seq[i] < oldest
           THEN /\ SkipTo(i, oldest, cum_before_oldest)
                /\ MoveCursor(i, oldest, cum_before_oldest)
           ELSE UNCHANGED <<position, lost>>
        /\ UNCHANGED <<frame, last_progress_ms, copied_bytes, dropped_bytes, sent>>

(* Mutation: a frame of exactly the limit's age is dropped. *)
IsStaleAtLimit(i) ==
    StaleMs > 0 /\ Elapsed(SlotOf(cursor_seq[i]).received_ms, now[i]) >= StaleMs
IsStale(i) ==
    StaleMs > 0 /\ Elapsed(SlotOf(cursor_seq[i]).received_ms, now[i]) > StaleMs

DropStale(i) ==
    LET s == SlotOf(cursor_seq[i])
    IN  /\ dropped_frames_stale' = Add(dropped_frames_stale, i, 1)
        /\ dropped_stale_bytes' = Add(dropped_stale_bytes, i, s.len)
        /\ MoveCursor(i, cursor_seq[i] + 1, s.cum_bytes)
        /\ UNCHANGED <<frame, last_progress_ms, copied_bytes, dropped_bytes, sent,
                       skipped_bytes, skipped_frames>>

(* Mutation: the cursor stays on the frame that was copied. *)
CopyNoAdvance(i) ==
    LET s == SlotOf(cursor_seq[i])
    IN  /\ current' = [current EXCEPT ![i] = s.data]
        /\ current_len' = [current_len EXCEPT ![i] = s.len]
        /\ current_off' = [current_off EXCEPT ![i] = 0]
        /\ current_received_ms' = [current_received_ms EXCEPT ![i] = s.received_ms]
        /\ last_progress_ms' = [last_progress_ms EXCEPT ![i] = now[i]]
        /\ copied_bytes' = Add(copied_bytes, i, s.len)
        /\ UNCHANGED <<position, dropped_bytes, lost, sent>>

CopyFrame(i) ==
    LET s == SlotOf(cursor_seq[i])
    IN  /\ current' = [current EXCEPT ![i] = s.data]
        /\ current_len' = [current_len EXCEPT ![i] = s.len]
        /\ current_off' = [current_off EXCEPT ![i] = 0]
        /\ current_received_ms' = [current_received_ms EXCEPT ![i] = s.received_ms]
        /\ last_progress_ms' = [last_progress_ms EXCEPT ![i] = now[i]]
        /\ copied_bytes' = Add(copied_bytes, i, s.len)
        /\ MoveCursor(i, cursor_seq[i] + 1, s.cum_bytes)
        /\ UNCHANGED <<dropped_bytes, lost, sent>>

(* The stack accepts n bytes of the current frame. *)
Accept(i, n) ==
    /\ accepted_to_lwip' = Add(accepted_to_lwip, i, n)
    /\ last_progress_ms' = [last_progress_ms EXCEPT ![i] = now[i]]
    /\ IF current_off[i] + n = current_len[i]
       THEN /\ sent_frames' = Add(sent_frames, i, 1)
            /\ ClearCurrent(i)
       ELSE /\ current_off' = Add(current_off, i, n)
            /\ UNCHANGED <<sent_frames, current, current_len, current_received_ms>>
    /\ UNCHANGED <<position, copied_bytes, dropped_bytes, lost>>
-----------------------------------------------------------------------------
Init ==
    /\ slot = [x \in Index |-> [seq |-> 0, received_ms |-> 0, len |-> 0,
                                cum_bytes |-> 0, data |-> 0]]
    /\ next_seq = 0
    /\ cum_bytes = 0
    /\ uart_now = 0
    /\ lock = NoOne
    /\ cursor_seq = Zero /\ cum_through = Zero
    /\ current = [i \in Inst |-> NoFrame]
    /\ current_len = Zero /\ current_off = Zero /\ current_received_ms = Zero
    /\ last_progress_ms = Zero
    /\ copied_bytes = Zero /\ accepted_to_lwip = Zero /\ dropped_bytes = Zero
    /\ skipped_bytes = Zero /\ dropped_stale_bytes = Zero
    /\ sent_frames = Zero /\ skipped_frames = Zero /\ dropped_frames_stale = Zero
    /\ pc = [i \in Inst |-> "down"]
    /\ now = Zero
    /\ round = Zero
    /\ spins = Zero
    /\ pr = [i \in Inst |-> "IDLE"]
    /\ conns = Zero
    /\ clock = Uptime0
    /\ prefix = <<>>
    /\ delivered = [i \in Inst |-> <<>>]
    /\ wire = [i \in Inst |-> <<>>]

Tick ==
    /\ clock < Uptime0 + MaxTicks
    /\ clock' = clock + 1
    /\ UNCHANGED <<ring, lock, tx, task, hist>>

(* UART task: a chunk arrives.  The clock is read once, before parsing; every
   frame completed by the chunk carries this reading, however long the task
   then waits for the ring lock. *)
Ingest ==
    /\ uart_now # Ms(clock)
    /\ uart_now' = Ms(clock)
    /\ UNCHANGED <<slot, next_seq, cum_bytes, prefix, lock, tx, task, clock, hist>>

(* UART task: ntrip_on_frame hands a CRC-valid frame to the ring. *)
Push ==
    /\ next_seq < MaxSeq
    /\ \E len \in Lens : ntrip_ring_push(len)
    /\ UNCHANGED <<lock, tx, task, clock, hist>>

Goto(i, l) == pc[i] # l /\ pc' = [pc EXCEPT ![i] = l]

(* The handshake succeeded: cursor and accounting start afresh. *)
Connect(i) ==
    /\ pc[i] = "down"
    /\ conns[i] < MaxConns
    /\ lock = NoOne
    /\ ntrip_tx_reset_conn(i)
    /\ Goto(i, "wait")
    /\ conns' = [conns EXCEPT ![i] = @ + 1]
    /\ wire' = [wire EXCEPT ![i] = <<>>]
    /\ UNCHANGED <<ring, lock, now, round, spins, pr, clock, delivered>>

(* ulTaskNotifyTake returns, by a notification or after 200 ms. *)
Wake(i) ==
    /\ pc[i] = "wait"
    /\ now' = [now EXCEPT ![i] = Ms(clock)]
    /\ round' = [round EXCEPT ![i] = 0]
    /\ spins' = [spins EXCEPT ![i] = 0]
    /\ pr' = [pr EXCEPT ![i] = "IDLE"]
    /\ Goto(i, "poll")
    /\ UNCHANGED <<ring, lock, tx, conns, clock, hist>>

(* ntrip_tx_poll returns res; the drain loop polls again after progress. *)
PollReturns(i, res) ==
    IF res = "PROGRESS" /\ spins[i] + 1 < MaxSpins
    THEN /\ spins' = [spins EXCEPT ![i] = @ + 1]
         /\ round' = [round EXCEPT ![i] = 0]
         /\ pr' = [pr EXCEPT ![i] = "IDLE"]
         /\ pc' = [pc EXCEPT ![i] = "poll"]
         /\ UNCHANGED <<now, conns>>
    ELSE /\ pr' = [pr EXCEPT ![i] = res]
         /\ pc' = [pc EXCEPT ![i] = "check"]
         /\ UNCHANGED <<now, round, spins, conns>>

(* A round with a frame pending goes straight to send(). *)
ResumeFrame(i) ==
    /\ pc[i] = "poll"
    /\ Pending(i)
    /\ Goto(i, "send")
    /\ UNCHANGED <<ring, lock, tx, now, round, spins, pr, conns, clock, hist>>

(* tx_copy_next takes the ring lock and catches up with the ring. *)
BeginScan(i) ==
    /\ pc[i] = "poll"
    /\ ~Pending(i)
    /\ lock = NoOne
    /\ lock' = i
    /\ FallOff(i)
    /\ Goto(i, "scan")
    /\ UNCHANGED <<ring, now, round, spins, pr, conns, clock, hist>>

ScanDropStale(i) ==
    /\ pc[i] = "scan"
    /\ cursor_seq[i] < next_seq
    /\ IsStale(i)
    /\ DropStale(i)
    /\ UNCHANGED <<ring, lock, task, clock, hist>>

ScanCopy(i) ==
    /\ pc[i] = "scan"
    /\ cursor_seq[i] < next_seq
    /\ ~IsStale(i)
    /\ CopyFrame(i)
    /\ lock' = NoOne
    /\ Goto(i, "send")
    /\ UNCHANGED <<ring, now, round, spins, pr, conns, clock, hist>>

ScanEmpty(i) ==
    /\ pc[i] = "scan"
    /\ cursor_seq[i] >= next_seq
    /\ lock' = NoOne
    /\ PollReturns(i, pr[i])
    /\ UNCHANGED <<ring, tx, clock, hist>>

(* The peer's view of n more bytes of the current frame: they extend the run
   it is receiving, or start a new one. *)
Run == [frame : Nat, from : Nat, upto : Nat, len : Nat]
Stream(w, i, n) ==
    LET k == Len(w)
    IN  IF k > 0 /\ w[k].frame = current[i] /\ w[k].upto = current_off[i]
        THEN [w EXCEPT ![k] = [frame |-> @.frame, from |-> @.from,
                               upto |-> @.upto + n, len |-> @.len]]
        ELSE Append(w, [frame |-> current[i], from |-> current_off[i],
                        upto |-> current_off[i] + n, len |-> current_len[i]])

(* send() accepts n bytes of what is left of the frame. *)
SendAccept(i) ==
    /\ pc[i] = "send"
    /\ \E n \in 1 .. ntrip_tx_pending(i) :
         /\ Accept(i, n)
         /\ wire' = [wire EXCEPT ![i] = Stream(@, i, n)]
         /\ delivered' = IF n = ntrip_tx_pending(i)
                         THEN [delivered EXCEPT ![i] = Append(@, current[i])]
                         ELSE delivered
    /\ IF round[i] + 1 < MaxSends
       THEN /\ round' = [round EXCEPT ![i] = @ + 1]
            /\ pr' = [pr EXCEPT ![i] = "PROGRESS"]
            /\ Goto(i, "poll")
            /\ UNCHANGED <<now, spins, conns>>
       ELSE PollReturns(i, "PROGRESS")
    /\ UNCHANGED <<ring, lock, clock>>

SendWouldBlock(i) ==
    /\ pc[i] = "send"
    /\ PollReturns(i, "WOULDBLOCK")
    /\ UNCHANGED <<ring, lock, tx, clock, hist>>

SendError(i) ==
    /\ pc[i] = "send"
    /\ ntrip_tx_abort(i)
    /\ UNCHANGED <<position, last_progress_ms, copied_bytes, lost, sent>>
    /\ PollReturns(i, "ERROR")
    /\ UNCHANGED <<ring, lock, clock, hist>>

(* Mutation: only a socket error ends a connection. *)
CloseOnErrorOnly(i) == pr[i] = "ERROR"

MustClose(i) ==
    \/ pr[i] = "ERROR"
    \/ ntrip_tx_stalled(i)
    \/ ntrip_tx_frame_overdue(i)

(* The drain loop breaks; a failed probe or a reconnect request breaks it
   as well, whatever the state of the sender. *)
CloseConnection(i) ==
    /\ pc[i] \in {"wait", "check"}
    /\ ntrip_tx_abort(i)
    /\ UNCHANGED <<position, last_progress_ms, copied_bytes, lost, sent>>
    /\ Goto(i, "down")
    /\ UNCHANGED <<ring, lock, now, round, spins, pr, conns, clock, hist>>

KeepConnection(i) ==
    /\ pc[i] = "check"
    /\ ~MustClose(i)
    /\ Goto(i, "wait")
    /\ UNCHANGED <<ring, lock, tx, now, round, spins, pr, conns, clock, hist>>

Server(i) ==
    \/ Connect(i)
    \/ Wake(i)
    \/ ResumeFrame(i)
    \/ BeginScan(i)
    \/ ScanDropStale(i)
    \/ ScanCopy(i)
    \/ ScanEmpty(i)
    \/ SendAccept(i)
    \/ SendWouldBlock(i)
    \/ SendError(i)
    \/ CloseConnection(i)
    \/ KeepConnection(i)

Next == Tick \/ Ingest \/ Push \/ \E i \in Inst : Server(i)

Spec == Init /\ [][Next]_vars
-----------------------------------------------------------------------------
(* Type invariant of the ring, the senders and the server tasks. *)
TypeOK ==
    /\ slot \in [Index -> Slot]
    /\ next_seq \in Nat
    /\ cum_bytes \in Nat
    /\ uart_now \in Nat
    /\ lock \in Inst \cup {NoOne}
    /\ cursor_seq \in [Inst -> Nat] /\ cum_through \in [Inst -> Nat]
    /\ current_len \in [Inst -> Nat] /\ current_off \in [Inst -> Nat]
    /\ current_received_ms \in [Inst -> Nat] /\ last_progress_ms \in [Inst -> Nat]
    /\ copied_bytes \in [Inst -> Nat] /\ accepted_to_lwip \in [Inst -> Nat]
    /\ dropped_bytes \in [Inst -> Nat] /\ skipped_bytes \in [Inst -> Nat]
    /\ dropped_stale_bytes \in [Inst -> Nat] /\ sent_frames \in [Inst -> Nat]
    /\ skipped_frames \in [Inst -> Nat] /\ dropped_frames_stale \in [Inst -> Nat]
    /\ now \in [Inst -> Nat] /\ round \in [Inst -> Nat]
    /\ spins \in [Inst -> Nat] /\ conns \in [Inst -> Nat]
    /\ current \in [Inst -> Nat \cup {NoFrame}]
    /\ pc \in [Inst -> Location]
    /\ pr \in [Inst -> PollResult]
    /\ clock \in Nat
    /\ prefix \in Seq(Nat)
    /\ Len(prefix) = next_seq
    /\ delivered \in [Inst -> Seq(Nat)]
    /\ wire \in [Inst -> Seq(Run)]

(* Every byte the receiver produced is in exactly one account of every
   instance (ntrip_tx_core.c: "they must not vanish from the byte balance"):
   what the cursor has passed was copied out, skipped or dropped as stale,
   and what was copied out was accepted by the stack, lost with a connection
   or is still pending. *)
ByteBalance ==
    \A i \in Inst :
      /\ Before(cursor_seq[i])
           = copied_bytes[i] + skipped_bytes[i] + dropped_stale_bytes[i]
      /\ copied_bytes[i]
           = accepted_to_lwip[i] + dropped_bytes[i] + ntrip_tx_pending(i)

(* On one connection the caster sees whole frames in the order the receiver
   sent them, each from its first byte, and only the last may be unfinished
   (ntrip_tx_core.h: a reader "either finishes the frame it started or the
   connection dies"). *)
WholeFramesOf(i) ==
    \A j \in DOMAIN wire[i] :
      LET r == wire[i][j]
      IN  /\ r.from = 0
          /\ r.len = Before(r.frame + 1) - Before(r.frame)
          /\ j < Len(wire[i]) => /\ r.upto = r.len
                                 /\ r.frame < wire[i][j + 1].frame

WholeFrames == \A i \in Inst : WholeFramesOf(i)

(* The running totals of the ring are those of the frames pushed. *)
RingTotals ==
    /\ cum_bytes = Before(next_seq)
    /\ \A k \in 0 .. next_seq : \A j \in 0 .. k : Before(j) <= Before(k)

(* The slots hold exactly the last frames: the slot of a resident sequence
   number holds that frame, with its length and the running byte total, so a
   lagging reader is never handed an overwritten frame under an old number. *)
RingSlots ==
    \A k \in ring_oldest_seq .. next_seq - 1 :
      LET s == SlotOf(k)
      IN  /\ s.seq = k
          /\ s.data = k
          /\ s.len > 0
          /\ s.cum_bytes = Before(k + 1)
          /\ s.cum_bytes - s.len = Before(k)

RingInv == RingTotals /\ RingSlots

(* The promise to the caster, as the abstract module states it: every frame
   is decided once, in order, and a frame that is taken is delivered whole or
   given up. *)
Feed == INSTANCE FrameFeed
          WITH produced <- next_seq,
               pos <- cursor_seq,
               inflight <- current
ImplementsFeed == Feed!FeedSpec

(* A frame is dropped as stale only when it really is older than stale_ms
   (ntrip_tx_core.h: dropped_frames_stale counts frames "older than stale_ms
   before first send") on the clock as it stands when the frame is dropped,
   with one exception: the drain loop reads the clock once for up to 64 polls,
   and the age of a frame stamped after that reading wraps. *)
StaleMeansOld ==
    [][\A i \in Inst :
         dropped_frames_stale'[i] > dropped_frames_stale[i]
           => LET received == SlotOf(cursor_seq[i]).received_ms
              IN  \/ Elapsed(received, Ms(clock)) > StaleMs
                  \/ Elapsed(now[i], received) \in 1 .. Elapsed(now[i], Ms(clock))]_vars
-----------------------------------------------------------------------------
(***************************************************************************)
(* The inductive invariant behind the properties above.                    *)
(***************************************************************************)
TxOK(i) ==
    /\ cursor_seq[i] <= next_seq
    /\ cum_through[i] = Before(cursor_seq[i])
    /\ cum_through[i] = copied_bytes[i] + skipped_bytes[i] + dropped_stale_bytes[i]
    /\ copied_bytes[i] = accepted_to_lwip[i] + dropped_bytes[i] + ntrip_tx_pending(i)
    /\ IF current[i] = NoFrame
       THEN current_len[i] = 0 /\ current_off[i] = 0
       ELSE /\ cursor_seq[i] > 0
            /\ current[i] = cursor_seq[i] - 1
            /\ current_off[i] < current_len[i]
            /\ current_len[i] = Before(cursor_seq[i]) - Before(current[i])

TaskOK(i) ==
    /\ pc[i] \in {"down", "scan"} => ~Pending(i)
    /\ pc[i] = "send" => Pending(i)
    /\ pc[i] = "scan" => lock = i /\ ring_oldest_seq <= cursor_seq[i]

(* The runs of a connection are behind the cursor; while a frame is partly
   sent the last run is its beginning, otherwise the last run is finished. *)
WireOK(i) ==
    LET w == wire[i]
        z == w[Len(w)]
    IN  /\ \A j \in DOMAIN w : w[j].frame < cursor_seq[i]
        /\ IF Pending(i) /\ current_off[i] > 0
           THEN w # <<>> /\ z.frame = current[i] /\ z.upto = current_off[i]
           ELSE w # <<>> => /\ z.upto = z.len
                            /\ Pending(i) => z.frame < current[i]

(* After an error, or once the connection is closed, the stream may keep an
   unfinished tail; the next connection starts a stream of its own. *)
Streaming(i) == pc[i] # "down" /\ (pc[i] = "check" => pr[i] # "ERROR")

InstOK(i) ==
    /\ TxOK(i)
    /\ TaskOK(i)
    /\ WholeFramesOf(i)
    /\ \A j \in DOMAIN wire[i] : wire[i][j].frame < next_seq
    /\ Streaming(i) => WireOK(i)

IInv == TypeOK /\ RingInv /\ \A i \in Inst : InstOK(i)
=============================================================================

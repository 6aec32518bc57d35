--------------------------- MODULE NtripTxProofs ---------------------------
(***************************************************************************)
(* Proofs about NtripTx, for every number of instances, ring slots, frame  *)
(* lengths and timing constants.                                           *)
(***************************************************************************)
EXTENDS NtripTx, TLAPS

(***************************************************************************)
(* Ring arithmetic: sequence numbers less than Slots apart never share a   *)
(* slot.                                                                   *)
(***************************************************************************)
(* Division with remainder, for the modulus of the ring index. *)
LEMMA DivMod ==
    ASSUME NEW a \in Nat, NEW s \in Nat \ {0}
    PROVE  /\ a = s * (a \div s) + (a % s)
           /\ a % s \in 0 .. s - 1
           /\ a \div s \in Nat
  BY SMT

(* A positive multiple of the slot count is at least the slot count. *)
LEMMA MulAtLeast ==
    ASSUME NEW q \in Int, NEW s \in Nat \ {0}, q >= 1
    PROVE  s * q >= s
  BY SMT

(* A negative multiple of the slot count is at most minus the slot count. *)
LEMMA MulAtMost ==
    ASSUME NEW q \in Int, NEW s \in Nat \ {0}, q <= -1
    PROVE  s * q <= -s
  BY SMT

(* Two sequence numbers within one lap of the ring with the same index are
   the same: RTCM_RING_SLOTS frames fit without overwriting each other. *)
LEMMA SameSlot ==
    ASSUME NEW a \in Nat, NEW b \in Nat, NEW s \in Nat \ {0},
           a % s = b % s, a <= b, b < a + s
    PROVE  a = b
<1> DEFINE qa == a \div s
           qb == b \div s
           r == a % s
<1>1. a = s * qa + r /\ qa \in Nat /\ r \in Nat
  <2>1. a = s * qa + r /\ qa \in Nat /\ r \in 0 .. s - 1
    BY DivMod, Zenon
  <2>2. QED
    BY <2>1, SMT
<1>2. b = s * qb + r /\ qb \in Nat
  <2>1. b = s * qb + (b % s) /\ qb \in Nat
    BY DivMod, Zenon
  <2>2. b % s = r
    OBVIOUS
  <2>3. QED
    BY <2>1, <2>2
<1> HIDE DEF qa, qb, r
<1>3. b - a = s * qb - s * qa
  BY <1>1, <1>2, SMT
<1>4. s * qb - s * qa = s * (qb - qa)
  BY <1>1, <1>2, SMT
<1>5. CASE qb - qa >= 1
  BY <1>1, <1>2, <1>3, <1>4, <1>5, MulAtLeast, SMT
<1>6. CASE qb - qa <= -1
  BY <1>1, <1>2, <1>3, <1>4, <1>6, MulAtMost, SMT
<1>7. CASE qb = qa
  BY <1>1, <1>2, <1>7, SMT
<1>8. QED
  BY <1>1, <1>2, <1>5, <1>6, <1>7, SMT

(***************************************************************************)
(* The ring.                                                               *)
(***************************************************************************)
(* The byte totals of the frames pushed so far are natural numbers. *)
LEMMA BeforeNat ==
    ASSUME TypeOK
    PROVE  \A k \in 0 .. next_seq : Before(k) \in Nat
  BY DEF TypeOK, Before

(* What the ring invariant says about the slot of a resident frame. *)
LEMMA ResidentSlot ==
    ASSUME TypeOK, RingInv, NEW k \in Nat, ring_oldest_seq <= k, k < next_seq
    PROVE  /\ SlotOf(k) \in Slot
           /\ SlotOf(k).data = k
           /\ SlotOf(k).len > 0
           /\ SlotOf(k).cum_bytes = Before(k + 1)
           /\ SlotOf(k).cum_bytes - SlotOf(k).len = Before(k)
           /\ Before(k) \in Nat
           /\ Before(k + 1) \in Nat
<1>1. ring_oldest_seq \in Nat /\ next_seq \in Nat
  BY TxConstants DEF ring_oldest_seq, TypeOK
<1>2. k % Slots \in Index
  BY DivMod, TxConstants DEF Index
<1>3. SlotOf(k) \in Slot
  BY <1>2 DEF SlotOf, TypeOK
<1>4. Before(k) \in Nat /\ Before(k + 1) \in Nat
  BY <1>1, BeforeNat
<1>5. k \in ring_oldest_seq .. next_seq - 1
  BY <1>1
<1>6. QED
  BY <1>3, <1>4, <1>5 DEF RingInv, RingSlots

(* A push leaves the totals of earlier frames alone and adds its own. *)
LEMMA PushBefore ==
    ASSUME TypeOK, RingInv, NEW len \in Lens, ntrip_ring_push(len)
    PROVE  /\ \A k \in 0 .. next_seq : Before(k)' = Before(k)
           /\ \A k \in Nat : k = next_seq + 1 => Before(k)' = Before(next_seq) + len
           /\ prefix' \in Seq(Nat) /\ Len(prefix') = next_seq'
           /\ len \in Nat /\ len > 0
<1>1. prefix' = Append(prefix, cum_bytes + len) /\ cum_bytes = Before(next_seq)
  BY DEF ntrip_ring_push, RingInv, RingTotals
<1>2. len \in Nat /\ len > 0 /\ cum_bytes + len \in Nat /\ next_seq \in Nat
  BY TxConstants DEF TypeOK
<1>3. /\ prefix \in Seq(Nat) /\ Len(prefix) = next_seq
      /\ next_seq' = next_seq + 1
  BY DEF TypeOK, ntrip_ring_push
<1>4. /\ prefix' \in Seq(Nat)
      /\ Len(prefix') = next_seq + 1
      /\ \A k \in 1 .. next_seq : prefix'[k] = prefix[k]
      /\ prefix'[next_seq + 1] = cum_bytes + len
  BY <1>1, <1>2, <1>3
<1>5. \A k \in 0 .. next_seq : Before(k)' = Before(k)
  BY <1>2, <1>4 DEF Before
<1>6. \A k \in Nat : k = next_seq + 1 => Before(k)' = Before(next_seq) + len
  BY <1>1, <1>2, <1>4 DEF Before
<1>7. QED
  BY <1>2, <1>3, <1>4, <1>5, <1>6

(* ntrip_ring_push keeps the ring invariant: only the slot one lap behind is
   overwritten, and that frame is no longer resident. *)
LEMMA PushRing ==
    ASSUME TypeOK, RingInv, NEW len \in Lens, ntrip_ring_push(len)
    PROVE  RingInv' /\ slot' \in [Index -> Slot]
<1> DEFINE e == [seq |-> next_seq, received_ms |-> uart_now, len |-> len,
                 cum_bytes |-> cum_bytes + len, data |-> next_seq]
<1>1. /\ \A k \in 0 .. next_seq : Before(k)' = Before(k)
      /\ \A k \in Nat : k = next_seq + 1 => Before(k)' = Before(next_seq) + len
      /\ len \in Nat /\ len > 0
  BY PushBefore
<1>2. /\ next_seq' = next_seq + 1 /\ next_seq \in Nat
      /\ cum_bytes' = cum_bytes + len /\ cum_bytes \in Nat
      /\ cum_bytes = Before(next_seq)
      /\ slot' = [slot EXCEPT ![next_seq % Slots] = e]
      /\ slot \in [Index -> Slot]
  BY DEF ntrip_ring_push, RingInv, RingTotals, TypeOK
<1>3. next_seq % Slots \in Index
  BY <1>2, DivMod, TxConstants DEF Index
<1>4. uart_now \in Nat
  BY DEF TypeOK
<1>5. e \in Slot
  BY <1>1, <1>2, <1>4 DEF Slot
<1>6. slot' \in [Index -> Slot] /\ slot'[next_seq % Slots] = e
  BY <1>2, <1>3, <1>5
<1>7. cum_bytes' = Before(next_seq)'
  BY <1>2, PushBefore DEF Before, ntrip_ring_push, TypeOK
<1>8. ASSUME NEW k \in 0 .. next_seq', NEW j \in 0 .. k
      PROVE  Before(j)' <= Before(k)'
  <2>1. CASE k \in 0 .. next_seq
    BY <1>1, <1>2, <2>1 DEF RingInv, RingTotals
  <2>2. CASE k = next_seq + 1 /\ j \in 0 .. next_seq
    <3>1. Before(j) <= Before(next_seq) /\ Before(j) \in Nat /\ Before(next_seq) \in Nat
      BY <1>2, <2>2, BeforeNat DEF RingInv, RingTotals
    <3>2. QED
      BY <1>1, <1>2, <2>2, <3>1
  <2>3. CASE k = next_seq + 1 /\ j = next_seq + 1
    <3>1. Before(j)' \in Nat
      BY <1>1, <1>2, <2>3, BeforeNat
    <3>2. QED
      BY <2>3, <3>1
  <2>4. QED
    BY <1>2, <2>1, <2>2, <2>3
<1>9. ASSUME NEW k \in ring_oldest_seq' .. next_seq' - 1
      PROVE  /\ SlotOf(k)'.seq = k
             /\ SlotOf(k)'.data = k
             /\ SlotOf(k)'.len > 0
             /\ SlotOf(k)'.cum_bytes = Before(k + 1)'
             /\ SlotOf(k)'.cum_bytes - SlotOf(k)'.len = Before(k)'
  <2>1. CASE k = next_seq
    <3>1. SlotOf(k)' = e
      BY <1>6, <2>1 DEF SlotOf
    <3>2. QED
      BY <1>1, <1>2, <2>1, <3>1
  <2>2. CASE k # next_seq
    <3>1. /\ k \in Nat /\ k < next_seq /\ next_seq < k + Slots
          /\ ring_oldest_seq <= k /\ ring_oldest_seq \in Nat
      BY <1>2, <2>2, TxConstants DEF ring_oldest_seq
    <3>2. k % Slots # next_seq % Slots
      <4> DEFINE n == next_seq
      <4>1. /\ n \in Nat /\ k <= n /\ n < k + Slots /\ k \in Nat
            /\ Slots \in Nat \ {0} /\ k # n
        BY <1>2, <2>2, <3>1, TxConstants
      <4> HIDE DEF n
      <4>2. k % Slots = n % Slots => k = n
        BY <4>1, SameSlot, Zenon
      <4>3. QED
        BY <4>1, <4>2 DEF n
    <3>3. k % Slots \in Index
      BY <3>1, DivMod, TxConstants DEF Index
    <3>4. SlotOf(k)' = SlotOf(k)
      BY <1>2, <1>3, <3>2, <3>3 DEF SlotOf
    <3>5. k \in ring_oldest_seq .. next_seq - 1
      BY <1>2, <3>1
    <3>6. Before(k)' = Before(k) /\ Before(k + 1)' = Before(k + 1)
      BY <1>1, <1>2, <3>1
    <3>7. QED
      BY <3>4, <3>5, <3>6 DEF RingInv, RingSlots
  <2>3. QED
    BY <2>1, <2>2
<1>10. QED
  BY <1>6, <1>7, <1>8, <1>9 DEF RingInv, RingSlots, RingTotals

(***************************************************************************)
(* A step of one instance and the others.                                  *)
(***************************************************************************)
(* What the invariant of instance j depends on, besides ring and lock. *)
SameInst(j) ==
    /\ cursor_seq'[j] = cursor_seq[j] /\ cum_through'[j] = cum_through[j]
    /\ current'[j] = current[j] /\ current_len'[j] = current_len[j]
    /\ current_off'[j] = current_off[j]
    /\ copied_bytes'[j] = copied_bytes[j]
    /\ accepted_to_lwip'[j] = accepted_to_lwip[j]
    /\ dropped_bytes'[j] = dropped_bytes[j]
    /\ skipped_bytes'[j] = skipped_bytes[j]
    /\ dropped_stale_bytes'[j] = dropped_stale_bytes[j]
    /\ pc'[j] = pc[j] /\ pr'[j] = pr[j] /\ wire'[j] = wire[j]

(* With the ring unchanged, so is everything defined from it. *)
LEMMA FramesSame ==
    ASSUME UNCHANGED <<slot, next_seq, cum_bytes, prefix>>
    PROVE  /\ next_seq' = next_seq /\ prefix' = prefix
           /\ ring_oldest_seq' = ring_oldest_seq
           /\ \A k : Before(k)' = Before(k)
           /\ RingInv => RingInv'
  BY DEF ring_oldest_seq, Before, RingInv, RingTotals, RingSlots, SlotOf

(* The same for the steps that also leave the UART task alone. *)
LEMMA RingSame ==
    ASSUME UNCHANGED ring
    PROVE  /\ next_seq' = next_seq /\ prefix' = prefix
           /\ ring_oldest_seq' = ring_oldest_seq
           /\ \A k : Before(k)' = Before(k)
           /\ RingInv => RingInv'
  BY FramesSame DEF ring

(* An instance that does not move keeps its invariant while the ring is
   unchanged and nobody takes the lock from it. *)
LEMMA OtherOK ==
    ASSUME NEW j \in Inst, InstOK(j), SameInst(j),
           UNCHANGED <<slot, next_seq, cum_bytes, prefix>>,
           pc[j] = "scan" => lock' = lock
    PROVE  InstOK(j)'
<1>1. /\ next_seq' = next_seq /\ ring_oldest_seq' = ring_oldest_seq
      /\ \A k : Before(k)' = Before(k)
  BY FramesSame
<1>2. TxOK(j)'
  BY <1>1 DEF InstOK, TxOK, SameInst, ntrip_tx_pending
<1>3. TaskOK(j)'
  BY <1>1 DEF InstOK, TaskOK, SameInst, Pending
<1>4. WholeFramesOf(j)' /\ \A k \in DOMAIN wire'[j] : wire'[j][k].frame < next_seq'
  BY <1>1 DEF InstOK, WholeFramesOf, SameInst
<1>5. Streaming(j)' => WireOK(j)'
  BY DEF InstOK, Streaming, WireOK, SameInst, Pending
<1>6. QED
  BY <1>2, <1>3, <1>4, <1>5 DEF InstOK

(* Updating a function at i leaves it alone elsewhere. *)
LEMMA AddOther ==
    ASSUME NEW f \in [Inst -> Nat], NEW i \in Inst, NEW n \in Int, f[i] + n >= 0
    PROVE  /\ Add(f, i, n) \in [Inst -> Nat]
           /\ Add(f, i, n)[i] = f[i] + n
           /\ \A j \in Inst \ {i} : Add(f, i, n)[j] = f[j]
  BY DEF Add

(* The server task of one instance touches nothing of another. *)
LEMMA ServerLocal ==
    ASSUME TypeOK, NEW i \in Inst, NEW j \in Inst, i # j, Server(i)
    PROVE  /\ SameInst(j)
           /\ UNCHANGED ring
           /\ \/ lock' = lock
              \/ lock = NoOne /\ lock' = i
              \/ pc[i] = "scan" /\ lock' = NoOne
<1> USE DEF TypeOK, SameInst, tx, task, hist, position, frame, lost, sent
<1>1. CASE Connect(i)
  BY <1>1 DEF Connect, ntrip_tx_reset_conn, ntrip_tx_abort, ClearCurrent, SkipTo,
              MoveCursor, Goto, Add
<1>2. CASE Wake(i)
  BY <1>2 DEF Wake, Goto
<1>3. CASE ResumeFrame(i)
  BY <1>3 DEF ResumeFrame, Goto
<1>4. CASE BeginScan(i)
  <2> DEFINE o == ring_oldest_seq
             c == SlotOf(o).cum_bytes - SlotOf(o).len
  <2>1. /\ \/ SkipTo(i, o, c) /\ MoveCursor(i, o, c)
           \/ UNCHANGED <<position, lost>>
        /\ UNCHANGED <<frame, last_progress_ms, copied_bytes, dropped_bytes, sent>>
    BY <1>4 DEF BeginScan, FallOff
  <2> HIDE DEF o, c
  <2>2. /\ cursor_seq'[j] = cursor_seq[j] /\ cum_through'[j] = cum_through[j]
        /\ skipped_bytes'[j] = skipped_bytes[j]
        /\ dropped_stale_bytes'[j] = dropped_stale_bytes[j]
    BY <2>1 DEF SkipTo, MoveCursor, Add
  <2>3. QED
    BY <1>4, <2>1, <2>2 DEF BeginScan, Goto
<1>5. CASE ScanDropStale(i)
  BY <1>5 DEF ScanDropStale, DropStale, MoveCursor, Add
<1>6. CASE ScanCopy(i)
  BY <1>6 DEF ScanCopy, CopyFrame, MoveCursor, Goto, Add
<1>7. CASE ScanEmpty(i)
  BY <1>7, ZenonT(60) DEF ScanEmpty, PollReturns
<1>8. CASE SendAccept(i)
  <2>1. PICK n : Accept(i, n) /\ wire' = [wire EXCEPT ![i] = Stream(@, i, n)]
    BY <1>8 DEF SendAccept
  <2>2. pc'[j] = pc[j] /\ pr'[j] = pr[j] /\ UNCHANGED <<ring, lock>>
    BY <1>8, ZenonT(60) DEF SendAccept, PollReturns, Goto
  <2>3. wire'[j] = wire[j]
    BY <2>1
  <2>4. /\ accepted_to_lwip'[j] = accepted_to_lwip[j]
        /\ UNCHANGED <<position, copied_bytes, dropped_bytes, lost>>
    BY <2>1 DEF Accept, Add
  <2>5. CASE current_off[i] + n = current_len[i]
    BY <2>1, <2>2, <2>3, <2>4, <2>5 DEF Accept, ClearCurrent
  <2>6. CASE current_off[i] + n # current_len[i]
    BY <2>1, <2>2, <2>3, <2>4, <2>6 DEF Accept, Add
  <2>7. QED
    BY <2>5, <2>6
<1>9. CASE SendWouldBlock(i)
  BY <1>9 DEF SendWouldBlock, PollReturns
<1>10. CASE SendError(i)
  BY <1>10 DEF SendError, ntrip_tx_abort, ClearCurrent, PollReturns, Add
<1>11. CASE CloseConnection(i)
  BY <1>11 DEF CloseConnection, ntrip_tx_abort, ClearCurrent, Goto, Add
<1>12. CASE KeepConnection(i)
  BY <1>12 DEF KeepConnection, Goto
<1>13. QED
  BY <1>1, <1>2, <1>3, <1>4, <1>5, <1>6, <1>7, <1>8, <1>9, <1>10, <1>11, <1>12
     DEF Server

(***************************************************************************)
(* The instance that moves, one lemma per step of its task.                *)
(***************************************************************************)
(* Clock readings are natural numbers. *)
LEMMA MsNat ==
    ASSUME NEW t \in Nat
    PROVE  Ms(t) \in Nat
<1>1. t % ClockMod \in 0 .. ClockMod - 1
  BY DivMod, TxConstants
<1>2. QED
  BY <1>1, TxConstants DEF Ms

(* The sender of i as plain numbers. *)
Numbers(i) ==
    /\ next_seq \in Nat /\ cum_bytes \in Nat
    /\ cursor_seq[i] \in Nat /\ cum_through[i] \in Nat
    /\ current[i] \in Nat \cup {NoFrame}
    /\ current_len[i] \in Nat /\ current_off[i] \in Nat
    /\ copied_bytes[i] \in Nat /\ accepted_to_lwip[i] \in Nat
    /\ dropped_bytes[i] \in Nat /\ skipped_bytes[i] \in Nat
    /\ dropped_stale_bytes[i] \in Nat /\ skipped_frames[i] \in Nat
    /\ ntrip_tx_pending(i) \in Nat
    /\ Pending(i) <=> current[i] # NoFrame
    /\ ~Pending(i) => current_len[i] = 0 /\ current_off[i] = 0

(* The invariant gives the sender's fields their types, and a frame is
   current exactly while bytes are pending. *)
LEMMA TxNumbers ==
    ASSUME IInv, NEW i \in Inst
    PROVE  Numbers(i)
<1>1. TypeOK /\ TxOK(i)
  BY DEF IInv, InstOK
<1>2. /\ next_seq \in Nat /\ cum_bytes \in Nat
      /\ cursor_seq[i] \in Nat /\ cum_through[i] \in Nat
      /\ current[i] \in Nat \cup {NoFrame}
      /\ current_len[i] \in Nat /\ current_off[i] \in Nat
      /\ copied_bytes[i] \in Nat /\ accepted_to_lwip[i] \in Nat
      /\ dropped_bytes[i] \in Nat /\ skipped_bytes[i] \in Nat
      /\ dropped_stale_bytes[i] \in Nat /\ skipped_frames[i] \in Nat
  BY <1>1 DEF TypeOK
<1>3. IF current[i] = NoFrame THEN current_len[i] = 0 /\ current_off[i] = 0
                              ELSE current_off[i] < current_len[i]
  BY <1>1 DEF TxOK
<1>4. /\ ntrip_tx_pending(i) \in Nat
      /\ Pending(i) <=> current[i] # NoFrame
      /\ ~Pending(i) => current_len[i] = 0 /\ current_off[i] = 0
  BY <1>2, <1>3 DEF ntrip_tx_pending, Pending
<1>5. QED
  BY <1>2, <1>4 DEF Numbers

(* What ntrip_tx_abort leaves. *)
Aborted(i) ==
    /\ dropped_bytes' \in [Inst -> Nat]
    /\ current' \in [Inst -> Nat \cup {NoFrame}]
    /\ current_len' \in [Inst -> Nat]
    /\ current_off' \in [Inst -> Nat]
    /\ current_received_ms' \in [Inst -> Nat]
    /\ dropped_bytes'[i] = dropped_bytes[i] + ntrip_tx_pending(i)
    /\ current'[i] = NoFrame /\ current_len'[i] = 0 /\ current_off'[i] = 0
    /\ ~(Pending(i)')
    /\ ntrip_tx_pending(i)' = 0

(* ntrip_tx_abort moves what is pending into dropped_bytes. *)
LEMMA AbortOK ==
    ASSUME IInv, NEW i \in Inst, ntrip_tx_abort(i)
    PROVE  Aborted(i)
<1>1. ntrip_tx_pending(i) \in Nat /\ dropped_bytes \in [Inst -> Nat]
  BY TxNumbers DEF IInv, TypeOK, Numbers
<1>2. /\ dropped_bytes' \in [Inst -> Nat]
      /\ dropped_bytes'[i] = dropped_bytes[i] + ntrip_tx_pending(i)
  BY <1>1 DEF ntrip_tx_abort, Add
<1>3. /\ current \in [Inst -> Nat \cup {NoFrame}] /\ current_len \in [Inst -> Nat]
      /\ current_off \in [Inst -> Nat] /\ current_received_ms \in [Inst -> Nat]
  BY DEF IInv, TypeOK
<1>4. /\ current' \in [Inst -> Nat \cup {NoFrame}] /\ current_len' \in [Inst -> Nat]
      /\ current_off' \in [Inst -> Nat] /\ current_received_ms' \in [Inst -> Nat]
      /\ current'[i] = NoFrame /\ current_len'[i] = 0 /\ current_off'[i] = 0
  BY <1>3 DEF ntrip_tx_abort, ClearCurrent
<1>5. ~(Pending(i)') /\ ntrip_tx_pending(i)' = 0
  BY <1>4 DEF Pending, ntrip_tx_pending
<1>6. QED
  BY <1>2, <1>4, <1>5 DEF Aborted

(* The handshake: reset_conn counts the waiting frames and the stream of the
   new connection is empty. *)
LEMMA ConnectOK ==
    ASSUME IInv, NEW i \in Inst, Connect(i)
    PROVE  TypeOK' /\ InstOK(i)'
<1>1. /\ ntrip_tx_abort(i)
      /\ cursor_seq' = [cursor_seq EXCEPT ![i] = next_seq]
      /\ cum_through' = [cum_through EXCEPT ![i] = cum_bytes]
      /\ IF cursor_seq[i] < next_seq THEN SkipTo(i, next_seq, cum_bytes)
                                     ELSE UNCHANGED lost
      /\ last_progress_ms' = [last_progress_ms EXCEPT ![i] = Ms(clock)]
      /\ UNCHANGED <<copied_bytes, accepted_to_lwip, sent_frames>>
      /\ UNCHANGED <<slot, next_seq, cum_bytes, prefix, uart_now, lock, now, round, spins, pr,
                     clock, delivered>>
      /\ UNCHANGED ring
      /\ pc[i] = "down" /\ pc' = [pc EXCEPT ![i] = "wait"]
      /\ conns' = [conns EXCEPT ![i] = @ + 1]
      /\ wire' = [wire EXCEPT ![i] = <<>>]
  BY DEF Connect, ntrip_tx_reset_conn, MoveCursor, Goto, ring, sent
<1>2. TxOK(i) /\ TypeOK /\ RingInv /\ Numbers(i) /\ Aborted(i)
  BY <1>1, TxNumbers, AbortOK DEF IInv, InstOK
<1>3. Before(cursor_seq[i]) <= cum_bytes /\ cum_bytes = Before(next_seq)
  <2>1. cursor_seq[i] \in 0 .. next_seq /\ next_seq \in 0 .. next_seq
    BY <1>2 DEF TxOK, Numbers
  <2>2. QED
    BY <1>2, <2>1 DEF RingInv, RingTotals
<1>4. /\ skipped_bytes' \in [Inst -> Nat] /\ skipped_frames' \in [Inst -> Nat]
      /\ dropped_stale_bytes' = dropped_stale_bytes
      /\ dropped_frames_stale' = dropped_frames_stale
      /\ skipped_bytes'[i] = skipped_bytes[i] + (cum_bytes - cum_through[i])
  <2>1. CASE cursor_seq[i] < next_seq
    <3>1. /\ next_seq - cursor_seq[i] \in Int /\ cum_bytes - cum_through[i] \in Int
          /\ skipped_frames[i] + (next_seq - cursor_seq[i]) >= 0
          /\ skipped_bytes[i] + (cum_bytes - cum_through[i]) >= 0
      BY <1>2, <1>3, <2>1 DEF TxOK, Numbers
    <3>2. /\ skipped_frames' = Add(skipped_frames, i, next_seq - cursor_seq[i])
          /\ skipped_bytes' = Add(skipped_bytes, i, cum_bytes - cum_through[i])
          /\ UNCHANGED <<dropped_stale_bytes, dropped_frames_stale>>
      BY <1>1, <2>1 DEF SkipTo
    <3>3. skipped_frames \in [Inst -> Nat] /\ skipped_bytes \in [Inst -> Nat]
      BY <1>2 DEF TypeOK
    <3>4. QED
      BY <3>1, <3>2, <3>3, AddOther
  <2>2. CASE ~(cursor_seq[i] < next_seq)
    <3>1. cursor_seq[i] = next_seq
      <4>1. cursor_seq[i] \in 0 .. next_seq /\ next_seq \in Nat
        BY <1>2 DEF TxOK, Numbers
      <4>2. QED
        BY <4>1, <2>2
    <3>2. cum_bytes - cum_through[i] = 0
      <4>1. cum_through[i] = cum_bytes
        BY <1>2, <1>3, <3>1 DEF TxOK
      <4>2. QED
        BY <1>2, <4>1 DEF Numbers
    <3>3. /\ UNCHANGED <<skipped_bytes, skipped_frames, dropped_stale_bytes,
                         dropped_frames_stale>>
          /\ skipped_bytes \in [Inst -> Nat] /\ skipped_frames \in [Inst -> Nat]
      BY <1>1, <1>2, <2>2 DEF lost, TypeOK
    <3>4. QED
      BY <3>2, <3>3
  <2>3. QED
    BY <2>1, <2>2
<1>5. Ms(clock) \in Nat
  BY <1>2, MsNat DEF TypeOK
<1>6. wire'[i] = <<>> /\ wire' \in [Inst -> Seq(Run)]
  BY <1>1, <1>2 DEF TypeOK
<1>7. TypeOK'
  <2>1. /\ cursor_seq' \in [Inst -> Nat] /\ cum_through' \in [Inst -> Nat]
        /\ last_progress_ms' \in [Inst -> Nat] /\ conns' \in [Inst -> Nat]
        /\ pc' \in [Inst -> Location]
    <3>1. /\ cursor_seq \in [Inst -> Nat] /\ cum_through \in [Inst -> Nat]
          /\ last_progress_ms \in [Inst -> Nat] /\ conns \in [Inst -> Nat]
          /\ pc \in [Inst -> Location] /\ next_seq \in Nat /\ cum_bytes \in Nat
      BY <1>2 DEF TypeOK
    <3>2. "wait" \in Location
      BY DEF Location
    <3>3. QED
      BY <1>1, <1>5, <3>1, <3>2
  <2>2. QED
    BY <1>1, <1>2, <1>4, <1>6, <2>1 DEF TypeOK, Aborted
<1>8. TxOK(i)'
  <2>1. /\ cursor_seq'[i] = next_seq /\ cum_through'[i] = cum_bytes
        /\ Before(cursor_seq[i])' = cum_bytes
    BY <1>1, <1>2, <1>3 DEF TypeOK, Before
  <2>2. cum_bytes = copied_bytes[i] + skipped_bytes'[i] + dropped_stale_bytes[i]
    BY <1>2, <1>4 DEF TxOK, Numbers
  <2>3. copied_bytes[i] = accepted_to_lwip[i] + dropped_bytes'[i] + 0
    BY <1>2 DEF TxOK, Numbers, Aborted
  <2>4. QED
    BY <1>1, <1>2, <1>4, <2>1, <2>2, <2>3 DEF TxOK, Numbers, Aborted
<1>9. TaskOK(i)'
  BY <1>1, <1>2 DEF TaskOK, TypeOK
<1>10. /\ WholeFramesOf(i)' /\ WireOK(i)'
       /\ \A k \in DOMAIN wire'[i] : wire'[i][k].frame < next_seq'
  <2>1. DOMAIN wire'[i] = {}
    BY <1>6
  <2>2. QED
    BY <1>2, <1>6, <2>1 DEF WholeFramesOf, WireOK, Aborted
<1>11. QED
  BY <1>7, <1>8, <1>9, <1>10 DEF InstOK

(* Waking up, going to send() and keeping the connection move the task and
   nothing of the sender. *)
LEMMA TaskStepOK ==
    ASSUME IInv, NEW i \in Inst, UNCHANGED <<ring, tx, hist, conns, clock>>,
           now' \in [Inst -> Nat], round' \in [Inst -> Nat],
           spins' \in [Inst -> Nat], pr' \in [Inst -> PollResult],
           pc' \in [Inst -> Location],
           lock' \in Inst \cup {NoOne},
           pc'[i] # "down" /\ pc'[i] # "scan", pc'[i] = "send" => Pending(i),
           Streaming(i)
    PROVE  TypeOK' /\ InstOK(i)'
<1>1. TypeOK /\ TxOK(i) /\ TaskOK(i) /\ WholeFramesOf(i) /\ WireOK(i)
  BY DEF IInv, InstOK
<1>2. TypeOK'
  BY <1>1 DEF TypeOK, ring, tx, hist, position, frame, lost, sent
<1>3. /\ next_seq' = next_seq /\ \A k : Before(k)' = Before(k)
  BY RingSame
<1>4. TxOK(i)'
  BY <1>1, <1>3 DEF TxOK, tx, position, frame, lost, sent, ntrip_tx_pending
<1>5. Pending(i)' = Pending(i)
  BY DEF Pending, tx, frame
<1>6. TaskOK(i)'
  BY <1>5 DEF TaskOK
<1>7. WholeFramesOf(i)' /\ \A k \in DOMAIN wire'[i] : wire'[i][k].frame < next_seq'
  BY <1>1, <1>3 DEF WholeFramesOf, hist, IInv, InstOK
<1>8. WireOK(i)'
  BY <1>1, <1>5 DEF WireOK, hist, tx, position, frame
<1>9. QED
  BY <1>2, <1>4, <1>6, <1>7, <1>8 DEF InstOK

(* PollReturns only moves the task, and to a place outside the scan. *)
LEMMA PollReturnsOK ==
    ASSUME TypeOK, NEW i \in Inst, NEW res \in PollResult, PollReturns(i, res)
    PROVE  /\ now' \in [Inst -> Nat] /\ round' \in [Inst -> Nat]
           /\ spins' \in [Inst -> Nat] /\ pr' \in [Inst -> PollResult]
           /\ pc' \in [Inst -> Location] /\ conns' = conns
           /\ pc'[i] \in {"poll", "check"}
           /\ res = "ERROR" => ~Streaming(i)'
<1>1. /\ now \in [Inst -> Nat] /\ round \in [Inst -> Nat] /\ spins \in [Inst -> Nat]
      /\ pr \in [Inst -> PollResult] /\ pc \in [Inst -> Location]
  BY DEF TypeOK
<1>2. /\ "poll" \in Location /\ "check" \in Location /\ "IDLE" \in PollResult
      /\ res = "PROGRESS" => res # "ERROR"
  BY DEF Location, PollResult
<1>3. CASE res = "PROGRESS" /\ spins[i] + 1 < MaxSpins
  BY <1>1, <1>2, <1>3 DEF PollReturns
<1>4. CASE ~(res = "PROGRESS" /\ spins[i] + 1 < MaxSpins)
  BY <1>1, <1>2, <1>4 DEF PollReturns, Streaming
<1>5. QED
  BY <1>3, <1>4

(* Stepping past the resident frame k under the cursor moves the byte total
   by the length of the frame. *)
LEMMA PassFrame ==
    ASSUME IInv, NEW i \in Inst, pc[i] = "scan", cursor_seq[i] < next_seq
    PROVE  /\ SlotOf(cursor_seq[i]) \in Slot
           /\ SlotOf(cursor_seq[i]).data = cursor_seq[i]
           /\ SlotOf(cursor_seq[i]).len > 0
           /\ SlotOf(cursor_seq[i]).cum_bytes = Before(cursor_seq[i] + 1)
           /\ SlotOf(cursor_seq[i]).cum_bytes
                = cum_through[i] + SlotOf(cursor_seq[i]).len
           /\ ~Pending(i) /\ current[i] = NoFrame /\ lock = i
<1>1. TypeOK /\ RingInv /\ TxOK(i) /\ TaskOK(i) /\ Numbers(i)
  BY TxNumbers DEF IInv, InstOK
<1>2. ring_oldest_seq <= cursor_seq[i] /\ ~Pending(i) /\ lock = i
  BY <1>1 DEF TaskOK
<1> DEFINE k == cursor_seq[i]
<1>3. k \in Nat
  BY <1>1 DEF Numbers
<1>4. /\ SlotOf(k) \in Slot /\ SlotOf(k).data = k /\ SlotOf(k).len > 0
      /\ SlotOf(k).cum_bytes = Before(k + 1)
      /\ SlotOf(k).cum_bytes - SlotOf(k).len = Before(k)
  BY <1>1, <1>2, <1>3, ResidentSlot
<1>5. SlotOf(k).cum_bytes \in Nat /\ SlotOf(k).len \in Nat
  BY <1>4 DEF Slot
<1>6. cum_through[i] = Before(k) /\ cum_through[i] \in Nat
  BY <1>1 DEF TxOK, Numbers
<1>7. SlotOf(k).cum_bytes = cum_through[i] + SlotOf(k).len
  BY <1>4, <1>5, <1>6
<1>8. QED
  BY <1>1, <1>2, <1>4, <1>7 DEF Numbers

(* The stream of a connection is a sequence of runs. *)
LEMMA WireTypes ==
    ASSUME TypeOK, NEW i \in Inst
    PROVE  /\ wire[i] \in Seq(Run) /\ Len(wire[i]) \in Nat
           /\ DOMAIN wire[i] = 1 .. Len(wire[i])
           /\ \A j \in DOMAIN wire[i] :
                /\ wire[i][j] \in Run
                /\ wire[i][j].frame \in Nat /\ wire[i][j].from \in Nat
                /\ wire[i][j].upto \in Nat /\ wire[i][j].len \in Nat
<1>1. wire[i] \in Seq(Run)
  BY DEF TypeOK
<1>2. \A j \in DOMAIN wire[i] : wire[i][j] \in Run
  BY <1>1
<1>3. QED
  BY <1>1, <1>2, SMTT(30) DEF Run

(* What follows from the ring and the wire being unchanged. *)
LEMMA SameStream ==
    ASSUME IInv, NEW i \in Inst, UNCHANGED <<ring, wire>>
    PROVE  /\ WholeFramesOf(i)'
           /\ \A k \in DOMAIN wire'[i] : wire'[i][k].frame < next_seq'
<1>1. /\ next_seq' = next_seq /\ \A k : Before(k)' = Before(k)
  BY RingSame
<1>2. WholeFramesOf(i) /\ \A k \in DOMAIN wire[i] : wire[i][k].frame < next_seq
  BY DEF IInv, InstOK
<1>3. QED
  BY <1>1, <1>2 DEF WholeFramesOf

(* tx_copy_next, first part: a reader that fell off the back of the ring
   jumps to the oldest resident frame and accounts for what it lost. *)
LEMMA BeginScanOK ==
    ASSUME IInv, NEW i \in Inst, BeginScan(i)
    PROVE  TypeOK' /\ InstOK(i)'
<1> DEFINE old == ring_oldest_seq
           cum == SlotOf(old).cum_bytes - SlotOf(old).len
<1>1. TypeOK /\ RingInv /\ TxOK(i) /\ Numbers(i) /\ (Streaming(i) => WireOK(i))
  BY TxNumbers DEF IInv, InstOK
<1>2. /\ pc[i] = "poll" /\ ~Pending(i) /\ lock' = i
      /\ pc' = [pc EXCEPT ![i] = "scan"]
      /\ UNCHANGED <<slot, next_seq, cum_bytes, prefix, uart_now, now, round, spins, pr, conns,
                     clock, delivered, wire>>
      /\ UNCHANGED <<current, current_len, current_off, current_received_ms,
                     last_progress_ms, copied_bytes, dropped_bytes,
                     accepted_to_lwip, sent_frames>>
      /\ UNCHANGED ring
      /\ IF cursor_seq[i] < old THEN SkipTo(i, old, cum) /\ MoveCursor(i, old, cum)
                                ELSE UNCHANGED <<position, lost>>
  BY DEF BeginScan, FallOff, Goto, ring, hist, frame, sent
<1>3. old \in Nat /\ next_seq \in Nat /\ (old < next_seq \/ old = 0)
  BY <1>1, TxConstants DEF ring_oldest_seq, TypeOK
<1>4. /\ cursor_seq' \in [Inst -> Nat] /\ cum_through' \in [Inst -> Nat]
      /\ skipped_bytes' \in [Inst -> Nat] /\ skipped_frames' \in [Inst -> Nat]
      /\ UNCHANGED <<dropped_stale_bytes, dropped_frames_stale>>
      /\ cursor_seq[i] <= cursor_seq'[i] /\ old <= cursor_seq'[i]
      /\ cursor_seq'[i] <= next_seq
      /\ cum_through'[i] = Before(cursor_seq'[i])
      /\ skipped_bytes'[i] - skipped_bytes[i] = cum_through'[i] - cum_through[i]
  <2>0. /\ cursor_seq \in [Inst -> Nat] /\ cum_through \in [Inst -> Nat]
        /\ skipped_bytes \in [Inst -> Nat] /\ skipped_frames \in [Inst -> Nat]
        /\ cum_through[i] = Before(cursor_seq[i]) /\ cursor_seq[i] <= next_seq
    BY <1>1 DEF TypeOK, TxOK
  <2>1. CASE cursor_seq[i] < old
    <3>1. old < next_seq
      BY <1>3, <2>0, <2>1
    <3>2. cum = Before(old) /\ Before(old) \in Nat
      BY <1>1, <1>3, <3>1, ResidentSlot
    <3> HIDE DEF cum
    <3>3. Before(cursor_seq[i]) <= Before(old)
      <4>1. old \in 0 .. next_seq /\ cursor_seq[i] \in 0 .. old
        BY <1>3, <2>0, <2>1, <3>1
      <4>2. QED
        BY <1>1, <4>1 DEF RingInv, RingTotals
    <3>4. /\ skipped_frames' = Add(skipped_frames, i, old - cursor_seq[i])
          /\ skipped_bytes' = Add(skipped_bytes, i, cum - cum_through[i])
          /\ UNCHANGED <<dropped_stale_bytes, dropped_frames_stale>>
          /\ cursor_seq' = [cursor_seq EXCEPT ![i] = old]
          /\ cum_through' = [cum_through EXCEPT ![i] = cum]
      BY <1>2, <2>1 DEF SkipTo, MoveCursor
    <3> HIDE DEF old
    <3>5. /\ old - cursor_seq[i] \in Nat /\ cum - cum_through[i] \in Nat
      BY <1>3, <2>0, <2>1, <3>2, <3>3
    <3>6. QED
      BY <1>3, <2>0, <2>1, <3>1, <3>2, <3>4, <3>5 DEF Add
  <2>2. CASE ~(cursor_seq[i] < old)
    <3>1. UNCHANGED <<cursor_seq, cum_through, skipped_bytes, skipped_frames,
                      dropped_stale_bytes, dropped_frames_stale>>
      BY <1>2, <2>2 DEF position, lost
    <3> HIDE DEF old
    <3>2. QED
      BY <1>3, <2>0, <2>2, <3>1
  <2>3. QED
    BY <2>1, <2>2
<1> HIDE DEF old, cum
<1>5. TypeOK'
  <2>1. pc' \in [Inst -> Location]
    BY <1>1, <1>2 DEF TypeOK, Location
  <2>2. QED
    BY <1>1, <1>2, <1>4, <2>1 DEF TypeOK
<1>6. \A k : Before(k)' = Before(k)
  BY <1>2, RingSame
<1>7. TxOK(i)'
  <2>1. current[i] = NoFrame /\ current_len[i] = 0 /\ current_off[i] = 0
    BY <1>1, <1>2 DEF Numbers
  <2>2. Before(cursor_seq[i])' = Before(cursor_seq'[i])
    BY <1>2 DEF Before
  <2>3. cum_through'[i] = copied_bytes[i] + skipped_bytes'[i] + dropped_stale_bytes[i]
    <3>1. cum_through'[i] \in Nat /\ skipped_bytes'[i] \in Nat
      BY <1>4
    <3>2. QED
      BY <1>1, <1>4, <3>1 DEF TxOK, Numbers
  <2>4. copied_bytes[i] = accepted_to_lwip[i] + dropped_bytes[i] + ntrip_tx_pending(i)
    BY <1>1 DEF TxOK
  <2>5. QED
    BY <1>2, <1>4, <2>1, <2>2, <2>3, <2>4 DEF TxOK, ntrip_tx_pending
<1>8. TaskOK(i)'
  <2>1. pc'[i] = "scan"
    BY <1>1, <1>2 DEF TypeOK
  <2>2. ring_oldest_seq' = old
    BY <1>2, RingSame DEF old
  <2>3. QED
    BY <1>2, <1>4, <2>1, <2>2 DEF TaskOK, Pending
<1>9. WireOK(i)'
  <2>1. WireOK(i)
    BY <1>1, <1>2 DEF Streaming
  <2>2. \A j \in DOMAIN wire[i] : wire[i][j].frame \in Nat
    BY <1>1, WireTypes
  <2>3. cursor_seq[i] \in Nat /\ cursor_seq'[i] \in Nat
    BY <1>1, <1>4 DEF Numbers
  <2>4. QED
    BY <1>2, <1>4, <2>1, <2>2, <2>3 DEF WireOK, Pending
<1>10. QED
  BY <1>2, <1>5, <1>7, <1>8, <1>9, SameStream DEF InstOK

(* tx_copy_next, one iteration of the stale loop: the dropped frame is
   counted and the cursor stays resident. *)
LEMMA ScanDropStaleOK ==
    ASSUME IInv, NEW i \in Inst, ScanDropStale(i)
    PROVE  TypeOK' /\ InstOK(i)'
<1> DEFINE s == SlotOf(cursor_seq[i])
<1>1. TypeOK /\ TxOK(i) /\ TaskOK(i) /\ Numbers(i) /\ (Streaming(i) => WireOK(i))
  BY TxNumbers DEF IInv, InstOK
<1>2. /\ pc[i] = "scan" /\ cursor_seq[i] < next_seq
      /\ dropped_frames_stale' = Add(dropped_frames_stale, i, 1)
      /\ dropped_stale_bytes' = Add(dropped_stale_bytes, i, s.len)
      /\ cursor_seq' = [cursor_seq EXCEPT ![i] = cursor_seq[i] + 1]
      /\ cum_through' = [cum_through EXCEPT ![i] = s.cum_bytes]
      /\ UNCHANGED <<slot, next_seq, cum_bytes, prefix, uart_now, lock, pc, now, round, spins,
                     pr, conns, clock, delivered, wire>>
      /\ UNCHANGED <<current, current_len, current_off, current_received_ms,
                     last_progress_ms, copied_bytes, dropped_bytes, skipped_bytes,
                     skipped_frames, accepted_to_lwip, sent_frames>>
      /\ UNCHANGED ring
  BY DEF ScanDropStale, DropStale, MoveCursor, ring, task, hist, frame, sent
<1>3. /\ s \in Slot
      /\ s.cum_bytes = Before(cursor_seq[i] + 1)
      /\ s.cum_bytes = cum_through[i] + s.len
      /\ ~Pending(i) /\ current[i] = NoFrame
  BY <1>2, PassFrame
<1>4. s.len \in Nat /\ s.cum_bytes \in Nat
  BY <1>3 DEF Slot
<1> HIDE DEF s
<1>5. /\ cursor_seq' \in [Inst -> Nat] /\ cum_through' \in [Inst -> Nat]
      /\ dropped_stale_bytes' \in [Inst -> Nat] /\ dropped_frames_stale' \in [Inst -> Nat]
      /\ cursor_seq'[i] = cursor_seq[i] + 1 /\ cum_through'[i] = s.cum_bytes
      /\ dropped_stale_bytes'[i] = dropped_stale_bytes[i] + s.len
  <2>1. /\ cursor_seq \in [Inst -> Nat] /\ cum_through \in [Inst -> Nat]
        /\ dropped_stale_bytes \in [Inst -> Nat] /\ dropped_frames_stale \in [Inst -> Nat]
    BY <1>1 DEF TypeOK
  <2>2. QED
    BY <1>2, <1>4, <2>1 DEF Add
<1>6. TypeOK'
  BY <1>1, <1>2, <1>5 DEF TypeOK
<1>7. TxOK(i)'
  <2>1. Before(cursor_seq[i])' = s.cum_bytes
    BY <1>2, <1>3, <1>5 DEF Before
  <2>2. cum_through'[i] = copied_bytes[i] + skipped_bytes[i] + dropped_stale_bytes'[i]
    BY <1>1, <1>3, <1>4, <1>5 DEF TxOK, Numbers
  <2>3. cursor_seq'[i] <= next_seq
    BY <1>1, <1>2, <1>5 DEF Numbers
  <2>4. copied_bytes[i] = accepted_to_lwip[i] + dropped_bytes[i] + ntrip_tx_pending(i)
    BY <1>1 DEF TxOK
  <2>5. current_len[i] = 0 /\ current_off[i] = 0
    BY <1>1, <1>3 DEF Numbers
  <2>6. QED
    BY <1>2, <1>3, <1>5, <2>1, <2>2, <2>3, <2>4, <2>5 DEF TxOK, ntrip_tx_pending
<1>8. TaskOK(i)'
  <2>1. ring_oldest_seq' = ring_oldest_seq /\ ring_oldest_seq \in Nat
    BY <1>1, <1>2, RingSame, TxConstants DEF ring_oldest_seq, TypeOK
  <2>2. ring_oldest_seq <= cursor_seq[i] /\ lock = i
    BY <1>1, <1>2 DEF TaskOK
  <2>3. ring_oldest_seq <= cursor_seq'[i]
    BY <1>1, <1>5, <2>1, <2>2 DEF Numbers
  <2>4. QED
    BY <1>2, <1>3, <2>1, <2>2, <2>3 DEF TaskOK, Pending
<1>9. WireOK(i)'
  <2>1. WireOK(i)
    BY <1>1, <1>2 DEF Streaming
  <2>2. \A j \in DOMAIN wire[i] : wire[i][j].frame \in Nat
    BY <1>1, WireTypes
  <2>3. cursor_seq[i] \in Nat /\ cursor_seq'[i] = cursor_seq[i] + 1
    BY <1>1, <1>5 DEF Numbers
  <2>4. QED
    BY <1>2, <1>3, <2>1, <2>2, <2>3 DEF WireOK, Pending
<1>10. QED
  BY <1>2, <1>6, <1>7, <1>8, <1>9, SameStream DEF InstOK

(* tx_copy_next, the copy: the frame under the cursor becomes the current
   one, from its first byte, and is newer than every run of the stream. *)
LEMMA ScanCopyOK ==
    ASSUME IInv, NEW i \in Inst, ScanCopy(i)
    PROVE  TypeOK' /\ InstOK(i)'
<1> DEFINE s == SlotOf(cursor_seq[i])
<1>1. TypeOK /\ TxOK(i) /\ TaskOK(i) /\ Numbers(i) /\ (Streaming(i) => WireOK(i))
  BY TxNumbers DEF IInv, InstOK
<1>2. /\ pc[i] = "scan" /\ cursor_seq[i] < next_seq /\ lock' = NoOne
      /\ current' = [current EXCEPT ![i] = s.data]
      /\ current_len' = [current_len EXCEPT ![i] = s.len]
      /\ current_off' = [current_off EXCEPT ![i] = 0]
      /\ current_received_ms' = [current_received_ms EXCEPT ![i] = s.received_ms]
      /\ last_progress_ms' = [last_progress_ms EXCEPT ![i] = now[i]]
      /\ copied_bytes' = Add(copied_bytes, i, s.len)
      /\ cursor_seq' = [cursor_seq EXCEPT ![i] = cursor_seq[i] + 1]
      /\ cum_through' = [cum_through EXCEPT ![i] = s.cum_bytes]
      /\ pc' = [pc EXCEPT ![i] = "send"]
      /\ UNCHANGED <<slot, next_seq, cum_bytes, prefix, uart_now, now, round, spins,
                     pr, conns, clock, delivered, wire>>
      /\ UNCHANGED <<dropped_bytes, skipped_bytes, skipped_frames,
                     dropped_stale_bytes, dropped_frames_stale,
                     accepted_to_lwip, sent_frames>>
      /\ UNCHANGED ring
  BY DEF ScanCopy, CopyFrame, MoveCursor, Goto, ring, hist, lost, sent
<1>3. /\ s \in Slot /\ s.data = cursor_seq[i] /\ s.len > 0
      /\ s.cum_bytes = Before(cursor_seq[i] + 1)
      /\ s.cum_bytes = cum_through[i] + s.len
      /\ ~Pending(i) /\ current[i] = NoFrame
  BY <1>2, PassFrame
<1>4. s.len \in Nat /\ s.cum_bytes \in Nat /\ s.received_ms \in Nat
  BY <1>3 DEF Slot
<1> HIDE DEF s
<1>5. /\ cursor_seq' \in [Inst -> Nat] /\ cum_through' \in [Inst -> Nat]
      /\ cursor_seq'[i] = cursor_seq[i] + 1 /\ cum_through'[i] = s.cum_bytes
      /\ copied_bytes' \in [Inst -> Nat]
      /\ copied_bytes'[i] = copied_bytes[i] + s.len
  <2>1. /\ cursor_seq \in [Inst -> Nat] /\ cum_through \in [Inst -> Nat]
        /\ copied_bytes \in [Inst -> Nat]
    BY <1>1 DEF TypeOK
  <2>2. QED
    BY <1>2, <1>4, <2>1 DEF Add
<1>6. /\ current' \in [Inst -> Nat \cup {NoFrame}] /\ current_len' \in [Inst -> Nat]
      /\ current_off' \in [Inst -> Nat] /\ current_received_ms' \in [Inst -> Nat]
      /\ last_progress_ms' \in [Inst -> Nat]
      /\ current'[i] = cursor_seq[i] /\ current_len'[i] = s.len /\ current_off'[i] = 0
  <2>1. /\ current \in [Inst -> Nat \cup {NoFrame}] /\ current_len \in [Inst -> Nat]
        /\ current_off \in [Inst -> Nat] /\ current_received_ms \in [Inst -> Nat]
        /\ last_progress_ms \in [Inst -> Nat] /\ now[i] \in Nat /\ s.data \in Nat
    BY <1>1, <1>3 DEF TypeOK, Numbers
  <2>2. QED
    BY <1>2, <1>3, <1>4, <2>1
<1>7. pc' \in [Inst -> Location] /\ pc'[i] = "send"
  BY <1>1, <1>2 DEF TypeOK, Location
<1>8. TypeOK'
  BY <1>1, <1>2, <1>5, <1>6, <1>7 DEF TypeOK
<1>9. TxOK(i)'
  <2>1. /\ Before(cursor_seq[i])' = s.cum_bytes
        /\ Before(current[i])' = cum_through[i]
    BY <1>1, <1>2, <1>3, <1>5, <1>6 DEF Before, TxOK
  <2>2. cum_through'[i] = copied_bytes'[i] + skipped_bytes[i] + dropped_stale_bytes[i]
    BY <1>1, <1>3, <1>4, <1>5 DEF TxOK, Numbers
  <2>3. /\ cursor_seq'[i] <= next_seq /\ cursor_seq'[i] > 0
        /\ current'[i] = cursor_seq'[i] - 1 /\ current'[i] # NoFrame
    BY <1>1, <1>2, <1>5, <1>6, TxConstants DEF Numbers
  <2>4. ntrip_tx_pending(i)' = s.len /\ ntrip_tx_pending(i) = 0
    BY <1>1, <1>3, <1>4, <1>6 DEF ntrip_tx_pending, Numbers
  <2>5. copied_bytes'[i] = accepted_to_lwip[i] + dropped_bytes[i] + ntrip_tx_pending(i)'
    BY <1>1, <1>4, <1>5, <2>4 DEF TxOK, Numbers
  <2>6. current_len'[i] = s.cum_bytes - cum_through[i]
    BY <1>1, <1>3, <1>4, <1>6 DEF Numbers
  <2>7. QED
    BY <1>2, <1>3, <1>5, <1>6, <2>1, <2>2, <2>3, <2>5, <2>6 DEF TxOK
<1>10. Pending(i)' /\ TaskOK(i)'
  BY <1>3, <1>4, <1>6, <1>7 DEF TaskOK, Pending
<1>11. WireOK(i)'
  <2>1. WireOK(i)
    BY <1>1, <1>2 DEF Streaming
  <2>2. /\ DOMAIN wire[i] = 1 .. Len(wire[i]) /\ Len(wire[i]) \in Nat
        /\ wire[i] # <<>> => Len(wire[i]) > 0
        /\ \A j \in DOMAIN wire[i] : wire[i][j].frame \in Nat
    BY <1>1, WireTypes
  <2>3. \A j \in DOMAIN wire[i] : wire[i][j].frame < cursor_seq[i]
    BY <2>1 DEF WireOK
  <2>4. wire[i] # <<>> => /\ wire[i][Len(wire[i])].upto = wire[i][Len(wire[i])].len
                          /\ wire[i][Len(wire[i])].frame < cursor_seq[i]
    BY <1>3, <2>1, <2>2, <2>3 DEF WireOK
  <2>5. \A j \in DOMAIN wire[i] : wire[i][j].frame < cursor_seq'[i]
    <3>1. cursor_seq[i] \in Nat /\ cursor_seq'[i] = cursor_seq[i] + 1
      BY <1>1, <1>5 DEF Numbers
    <3>2. QED
      BY <2>2, <2>3, <3>1
  <2>6. QED
    BY <1>2, <1>6, <2>4, <2>5 DEF WireOK
<1>12. QED
  BY <1>2, <1>8, <1>9, <1>10, <1>11, SameStream DEF InstOK

(* The steps that abandon the connection keep the accounts: what is pending
   moves to dropped_bytes. *)
LEMMA AbortStepOK ==
    ASSUME IInv, NEW i \in Inst, ntrip_tx_abort(i),
           UNCHANGED <<ring, lock, clock, hist, conns>>,
           UNCHANGED <<position, last_progress_ms, copied_bytes, lost, sent>>,
           now' \in [Inst -> Nat], round' \in [Inst -> Nat],
           spins' \in [Inst -> Nat], pr' \in [Inst -> PollResult],
           pc' \in [Inst -> Location],
           pc'[i] # "send" /\ pc'[i] # "scan",
           ~(Streaming(i)')
    PROVE  TypeOK' /\ InstOK(i)'
<1>1. TypeOK /\ TxOK(i) /\ Numbers(i) /\ Aborted(i)
  BY TxNumbers, AbortOK DEF IInv, InstOK
<1>2. /\ UNCHANGED <<slot, next_seq, cum_bytes, prefix, uart_now, lock, clock, delivered, wire,
                     conns>>
      /\ UNCHANGED <<cursor_seq, cum_through, last_progress_ms, copied_bytes,
                     skipped_bytes, skipped_frames, dropped_stale_bytes,
                     dropped_frames_stale, accepted_to_lwip, sent_frames>>
  BY DEF ring, hist, position, lost, sent
<1>3. TypeOK'
  BY <1>1, <1>2 DEF TypeOK, Aborted
<1>4. TxOK(i)'
  <2>1. Before(cursor_seq[i])' = Before(cursor_seq[i])
    BY <1>2 DEF Before
  <2>2. copied_bytes[i] = accepted_to_lwip[i] + dropped_bytes'[i] + 0
    BY <1>1 DEF TxOK, Numbers, Aborted
  <2>3. QED
    BY <1>1, <1>2, <2>1, <2>2 DEF TxOK, Aborted
<1>5. TaskOK(i)'
  BY <1>1 DEF TaskOK, Aborted
<1>6. QED
  BY <1>2, <1>3, <1>4, <1>5, SameStream DEF InstOK

(* A hard socket error, or a zero return, aborts the frame. *)
LEMMA SendErrorOK ==
    ASSUME IInv, NEW i \in Inst, SendError(i)
    PROVE  TypeOK' /\ InstOK(i)'
<1>1. TypeOK /\ "ERROR" \in PollResult
  BY DEF IInv, PollResult
<1>2. PollReturns(i, "ERROR")
  BY DEF SendError
<1>3. /\ now' \in [Inst -> Nat] /\ round' \in [Inst -> Nat]
      /\ spins' \in [Inst -> Nat] /\ pr' \in [Inst -> PollResult]
      /\ pc' \in [Inst -> Location] /\ conns' = conns
      /\ pc'[i] \in {"poll", "check"}
      /\ ~(Streaming(i)')
  BY <1>1, <1>2, PollReturnsOK
<1>4. QED
  BY <1>3, AbortStepOK DEF SendError

(* The drain loop ends: the pending rest of the frame is given up. *)
LEMMA CloseOK ==
    ASSUME IInv, NEW i \in Inst, CloseConnection(i)
    PROVE  TypeOK' /\ InstOK(i)'
<1>1. /\ pc' = [pc EXCEPT ![i] = "down"] /\ UNCHANGED <<now, round, spins, pr, conns>>
      /\ now \in [Inst -> Nat] /\ round \in [Inst -> Nat] /\ spins \in [Inst -> Nat]
      /\ pr \in [Inst -> PollResult] /\ pc \in [Inst -> Location]
  BY DEF CloseConnection, Goto, IInv, TypeOK
<1>2. pc' \in [Inst -> Location] /\ pc'[i] = "down"
  BY <1>1 DEF Location
<1>3. ~(Streaming(i)')
  BY <1>2 DEF Streaming
<1>4. QED
  BY <1>1, <1>2, <1>3, AbortStepOK DEF CloseConnection

(* The remaining steps of the task move only its program counter. *)
LEMMA WaitStepOK ==
    ASSUME IInv, NEW i \in Inst,
           \/ Wake(i) \/ ResumeFrame(i) \/ KeepConnection(i)
           \/ ScanEmpty(i) \/ SendWouldBlock(i)
    PROVE  TypeOK' /\ InstOK(i)'
<1>1. /\ now \in [Inst -> Nat] /\ round \in [Inst -> Nat] /\ spins \in [Inst -> Nat]
      /\ pr \in [Inst -> PollResult] /\ pc \in [Inst -> Location] /\ TypeOK
      /\ clock \in Nat /\ lock \in Inst \cup {NoOne} /\ TaskOK(i)
  BY DEF IInv, TypeOK, InstOK
<1>2. /\ {"poll", "send", "wait"} \subseteq Location
      /\ {"IDLE", "WOULDBLOCK"} \subseteq PollResult
  BY DEF Location, PollResult
<1>3. CASE Wake(i)
  <2>1. Ms(clock) \in Nat
    BY <1>1, MsNat
  <2>2. /\ now' \in [Inst -> Nat] /\ round' \in [Inst -> Nat] /\ spins' \in [Inst -> Nat]
        /\ pr' \in [Inst -> PollResult] /\ pc' \in [Inst -> Location]
        /\ pc'[i] = "poll" /\ lock' = lock /\ Streaming(i)
    BY <1>1, <1>2, <1>3, <2>1 DEF Wake, Goto, Streaming
  <2>3. QED
    BY <1>1, <1>3, <2>2, TaskStepOK DEF Wake
<1>4. CASE ResumeFrame(i)
  <2>1. /\ UNCHANGED <<now, round, spins, pr, lock>> /\ pc' \in [Inst -> Location]
        /\ pc'[i] = "send" /\ Pending(i) /\ Streaming(i)
    BY <1>1, <1>2, <1>4 DEF ResumeFrame, Goto, Streaming
  <2>2. QED
    BY <1>1, <1>4, <2>1, TaskStepOK DEF ResumeFrame
<1>5. CASE KeepConnection(i)
  <2>1. /\ UNCHANGED <<now, round, spins, pr, lock>> /\ pc' \in [Inst -> Location]
        /\ pc'[i] = "wait" /\ Streaming(i)
    BY <1>1, <1>2, <1>5 DEF KeepConnection, MustClose, Goto, Streaming
  <2>2. QED
    BY <1>1, <1>5, <2>1, TaskStepOK DEF KeepConnection
<1>6. CASE ScanEmpty(i)
  <2>1. PollReturns(i, pr[i]) /\ pr[i] \in PollResult /\ pc[i] = "scan" /\ lock' = NoOne
    BY <1>1, <1>6 DEF ScanEmpty
  <2>2. /\ now' \in [Inst -> Nat] /\ round' \in [Inst -> Nat]
        /\ spins' \in [Inst -> Nat] /\ pr' \in [Inst -> PollResult]
        /\ pc' \in [Inst -> Location] /\ conns' = conns
        /\ pc'[i] \in {"poll", "check"}
    BY <1>1, <2>1, PollReturnsOK
  <2>3. Streaming(i)
    BY <2>1 DEF Streaming
  <2>4. QED
    BY <1>6, <2>1, <2>2, <2>3, TaskStepOK DEF ScanEmpty
<1>7. CASE SendWouldBlock(i)
  <2>1. PollReturns(i, "WOULDBLOCK") /\ pc[i] = "send" /\ lock' = lock
    BY <1>7 DEF SendWouldBlock
  <2>2. /\ now' \in [Inst -> Nat] /\ round' \in [Inst -> Nat]
        /\ spins' \in [Inst -> Nat] /\ pr' \in [Inst -> PollResult]
        /\ pc' \in [Inst -> Location] /\ conns' = conns
        /\ pc'[i] \in {"poll", "check"}
    BY <1>1, <1>2, <2>1, PollReturnsOK
  <2>3. Streaming(i)
    BY <2>1 DEF Streaming
  <2>4. QED
    BY <1>1, <1>7, <2>1, <2>2, <2>3, TaskStepOK DEF SendWouldBlock
<1>8. QED
  BY <1>3, <1>4, <1>5, <1>6, <1>7

(* The stream after n more bytes: runs that are not the last are finished and
   in order, and the last one is the current frame up to what has been sent. *)
LEMMA StreamOK ==
    ASSUME IInv, NEW i \in Inst, pc[i] = "send",
           NEW n \in 1 .. ntrip_tx_pending(i)
    PROVE  LET v == Stream(wire[i], i, n)
           IN  /\ v \in Seq(Run) /\ Len(v) \in Nat /\ Len(v) > 0
               /\ v[Len(v)].frame = current[i] /\ v[Len(v)].from = 0
               /\ v[Len(v)].upto = current_off[i] + n
               /\ v[Len(v)].len = current_len[i]
               /\ \A j \in 1 .. Len(v) - 1 :
                    /\ j \in DOMAIN wire[i] /\ v[j] = wire[i][j]
                    /\ v[j].upto = v[j].len /\ v[j].frame < v[j + 1].frame
<1> DEFINE w == wire[i]
           k == Len(w)
           c == current[i]
           off == current_off[i]
           len == current_len[i]
           v == Stream(w, i, n)
<1>1. TypeOK /\ TxOK(i) /\ TaskOK(i) /\ Numbers(i) /\ WholeFramesOf(i)
  BY TxNumbers DEF IInv, InstOK
<1>2. WireOK(i) /\ Pending(i)
  BY <1>1 DEF IInv, InstOK, Streaming, TaskOK
<1>3. c \in Nat /\ off \in Nat /\ len \in Nat /\ n \in Nat /\ n > 0 /\ n <= len - off
  BY <1>1, <1>2, TxConstants DEF Numbers, ntrip_tx_pending
<1>4. /\ w \in Seq(Run) /\ k \in Nat /\ DOMAIN w = 1 .. k
      /\ \A j \in 1 .. k : w[j] \in Run /\ w[j].upto \in Nat /\ w[j].frame \in Nat
  BY <1>1, WireTypes
<1>5. \A j \in 1 .. k - 1 : w[j].upto = w[j].len /\ w[j].frame < w[j + 1].frame
  BY <1>1, <1>4 DEF WholeFramesOf
<1>6. CASE off > 0
  <2>1. k > 0 /\ w[k].frame = c /\ w[k].upto = off
    BY <1>2, <1>4, <1>6 DEF WireOK
  <2>2. w[k].from = 0 /\ w[k].len = len
    <3>1. /\ k \in DOMAIN w /\ w[k].from = 0
          /\ w[k].len = Before(w[k].frame + 1) - Before(w[k].frame)
      BY <1>1, <1>4, <2>1 DEF WholeFramesOf
    <3>2. c + 1 = cursor_seq[i] /\ len = Before(cursor_seq[i]) - Before(c)
      BY <1>1, <1>2, <1>3, TxConstants DEF TxOK, Numbers
    <3>3. QED
      BY <2>1, <3>1, <3>2
  <2> DEFINE r == [frame |-> c, from |-> 0, upto |-> off + n, len |-> len]
  <2>3. v = [w EXCEPT ![k] = r]
    BY <2>1, <2>2 DEF Stream
  <2>4. r \in Run
    BY <1>3 DEF Run
  <2> HIDE DEF v
  <2>5. /\ v \in Seq(Run) /\ Len(v) = k /\ v[k] = r
        /\ \A j \in 1 .. k - 1 : v[j] = w[j]
    BY <1>4, <2>1, <2>3, <2>4
  <2>6. \A j \in 1 .. k - 1 : v[j].upto = v[j].len /\ v[j].frame < v[j + 1].frame
    <3> SUFFICES ASSUME NEW j \in 1 .. k - 1
                 PROVE  v[j].upto = v[j].len /\ v[j].frame < v[j + 1].frame
      OBVIOUS
    <3>1. v[j + 1].frame = w[j + 1].frame
      <4>1. CASE j + 1 = k
        BY <2>1, <2>5, <4>1
      <4>2. CASE j + 1 # k
        BY <1>4, <2>5, <4>2
      <4>3. QED
        BY <4>1, <4>2
    <3>2. QED
      BY <1>5, <2>5, <3>1
  <2>7. QED
    BY <1>4, <2>1, <2>5, <2>6 DEF v
<1>7. CASE off = 0
  <2>1. k > 0 => w[k].upto = w[k].len /\ w[k].frame < c
    BY <1>2, <1>4, <1>7 DEF WireOK
  <2> DEFINE r == [frame |-> c, from |-> 0, upto |-> off + n, len |-> len]
  <2>2. v = Append(w, r)
    <3>1. ~(k > 0 /\ w[k].frame = c)
      BY <1>3, <1>4, <2>1
    <3>2. QED
      BY <1>7, <3>1 DEF Stream
  <2>3. r \in Run
    BY <1>3 DEF Run
  <2> HIDE DEF v
  <2>4. /\ v \in Seq(Run) /\ Len(v) = k + 1 /\ v[k + 1] = r
        /\ \A j \in 1 .. k : v[j] = w[j]
    BY <1>4, <2>2, <2>3
  <2>5. \A j \in 1 .. k : v[j].upto = v[j].len /\ v[j].frame < v[j + 1].frame
    <3> SUFFICES ASSUME NEW j \in 1 .. k
                 PROVE  v[j].upto = v[j].len /\ v[j].frame < v[j + 1].frame
      OBVIOUS
    <3>1. CASE j = k
      BY <1>4, <2>1, <2>4, <3>1
    <3>2. CASE j # k
      <4>1. j \in 1 .. k - 1 /\ j + 1 \in 1 .. k
        BY <1>4, <3>2
      <4>2. QED
        BY <1>5, <2>4, <4>1
    <3>3. QED
      BY <3>1, <3>2
  <2>6. QED
    BY <1>4, <2>4, <2>5 DEF v
<1>8. QED
  BY <1>3, <1>6, <1>7

(* send() accepts n bytes: they leave the pending account, the stream grows by
   them, and the frame is finished exactly when nothing is left of it. *)
LEMMA SendAcceptOK ==
    ASSUME IInv, NEW i \in Inst, SendAccept(i)
    PROVE  TypeOK' /\ InstOK(i)'
<1>1. TypeOK /\ TxOK(i) /\ TaskOK(i) /\ Numbers(i) /\ WholeFramesOf(i)
  BY TxNumbers DEF IInv, InstOK
<1>2. PICK n \in 1 .. ntrip_tx_pending(i) :
        /\ Accept(i, n)
        /\ wire' = [wire EXCEPT ![i] = Stream(wire[i], i, n)]
        /\ delivered' = IF n = ntrip_tx_pending(i)
                        THEN [delivered EXCEPT ![i] = Append(delivered[i], current[i])]
                        ELSE delivered
  BY DEF SendAccept
<1> DEFINE c == current[i]
           off == current_off[i]
           len == current_len[i]
           v == Stream(wire[i], i, n)
<1>3. pc[i] = "send" /\ UNCHANGED ring /\ UNCHANGED <<slot, next_seq, cum_bytes, prefix, uart_now, lock, clock>>
  BY DEF SendAccept, ring
<1>4. WireOK(i) /\ Pending(i)
  BY <1>1, <1>3 DEF IInv, InstOK, Streaming, TaskOK
<1>5. /\ c \in Nat /\ off \in Nat /\ len \in Nat /\ n \in Nat /\ n > 0 /\ n <= len - off
      /\ ntrip_tx_pending(i) = len - off
  BY <1>1, <1>4, TxConstants DEF Numbers, ntrip_tx_pending
<1>6. c # NoFrame /\ c + 1 = cursor_seq[i] /\ len = Before(c + 1) - Before(c)
  <2>1. c # NoFrame
    BY <1>5, TxConstants
  <2>2. /\ cursor_seq[i] \in Nat /\ cursor_seq[i] > 0
        /\ c = cursor_seq[i] - 1 /\ len = Before(cursor_seq[i]) - Before(c)
    BY <1>1, <2>1 DEF TxOK, Numbers
  <2>3. c + 1 = cursor_seq[i]
    BY <2>2
  <2>4. QED
    BY <2>1, <2>2, <2>3
<1>7. /\ v \in Seq(Run) /\ Len(v) \in Nat /\ Len(v) > 0
      /\ v[Len(v)].frame = c /\ v[Len(v)].from = 0
      /\ v[Len(v)].upto = off + n /\ v[Len(v)].len = len
      /\ \A j \in 1 .. Len(v) - 1 :
           /\ j \in DOMAIN wire[i] /\ v[j] = wire[i][j]
           /\ v[j].upto = v[j].len /\ v[j].frame < v[j + 1].frame
  BY <1>3, StreamOK
<1> HIDE DEF v
<1>8. /\ wire' \in [Inst -> Seq(Run)] /\ wire'[i] = v
      /\ DOMAIN v = 1 .. Len(v)
  BY <1>1, <1>2, <1>7 DEF TypeOK, v
<1>9. delivered' \in [Inst -> Seq(Nat)]
  <2>1. delivered \in [Inst -> Seq(Nat)] /\ delivered[i] \in Seq(Nat)
    BY <1>1 DEF TypeOK
  <2>2. Append(delivered[i], c) \in Seq(Nat)
    BY <1>5, <2>1
  <2>3. CASE n = ntrip_tx_pending(i)
    BY <1>2, <2>1, <2>2, <2>3
  <2>4. CASE n # ntrip_tx_pending(i)
    BY <1>2, <2>1, <2>4
  <2>5. QED
    BY <2>3, <2>4
<1>10. /\ now' \in [Inst -> Nat] /\ round' \in [Inst -> Nat]
       /\ spins' \in [Inst -> Nat] /\ pr' \in [Inst -> PollResult]
       /\ pc' \in [Inst -> Location] /\ conns' \in [Inst -> Nat]
       /\ pc'[i] \in {"poll", "check"}
  <2>1. /\ now \in [Inst -> Nat] /\ round \in [Inst -> Nat] /\ spins \in [Inst -> Nat]
        /\ pr \in [Inst -> PollResult] /\ pc \in [Inst -> Location]
        /\ conns \in [Inst -> Nat]
    BY <1>1 DEF TypeOK
  <2>2. "poll" \in Location /\ "PROGRESS" \in PollResult
    BY DEF Location, PollResult
  <2>3. CASE round[i] + 1 < MaxSends
    <3>1. /\ round' = [round EXCEPT ![i] = round[i] + 1]
          /\ pr' = [pr EXCEPT ![i] = "PROGRESS"]
          /\ pc' = [pc EXCEPT ![i] = "poll"]
          /\ UNCHANGED <<now, spins, conns>>
      BY <2>3 DEF SendAccept, Goto
    <3>2. QED
      BY <2>1, <2>2, <3>1
  <2>4. CASE ~(round[i] + 1 < MaxSends)
    <3>1. PollReturns(i, "PROGRESS")
      BY <2>4 DEF SendAccept
    <3>2. QED
      BY <1>1, <2>1, <2>2, <3>1, PollReturnsOK
  <2>5. QED
    BY <2>3, <2>4
<1>11. /\ UNCHANGED <<cursor_seq, cum_through, copied_bytes, dropped_bytes, skipped_bytes,
                      skipped_frames, dropped_stale_bytes, dropped_frames_stale>>
       /\ accepted_to_lwip' \in [Inst -> Nat] /\ last_progress_ms' \in [Inst -> Nat]
       /\ accepted_to_lwip'[i] = accepted_to_lwip[i] + n
  <2>1. /\ accepted_to_lwip \in [Inst -> Nat] /\ last_progress_ms \in [Inst -> Nat]
        /\ now[i] \in Nat
    BY <1>1 DEF TypeOK
  <2>2. /\ accepted_to_lwip' = Add(accepted_to_lwip, i, n)
        /\ last_progress_ms' = [last_progress_ms EXCEPT ![i] = now[i]]
        /\ UNCHANGED <<position, copied_bytes, dropped_bytes, lost>>
    BY <1>2 DEF Accept
  <2>3. QED
    BY <1>5, <2>1, <2>2 DEF Add, position, lost
<1>12. /\ sent_frames' \in [Inst -> Nat] /\ current' \in [Inst -> Nat \cup {NoFrame}]
       /\ current_len' \in [Inst -> Nat] /\ current_off' \in [Inst -> Nat]
       /\ current_received_ms' \in [Inst -> Nat]
       /\ IF off + n = len
          THEN current'[i] = NoFrame /\ current_len'[i] = 0 /\ current_off'[i] = 0
          ELSE current'[i] = c /\ current_len'[i] = len /\ current_off'[i] = off + n
  <2>1. /\ sent_frames \in [Inst -> Nat] /\ current \in [Inst -> Nat \cup {NoFrame}]
        /\ current_len \in [Inst -> Nat] /\ current_off \in [Inst -> Nat]
        /\ current_received_ms \in [Inst -> Nat]
    BY <1>1 DEF TypeOK
  <2>2. CASE off + n = len
    <3>1. /\ sent_frames' = [sent_frames EXCEPT ![i] = sent_frames[i] + 1]
          /\ current' = [current EXCEPT ![i] = NoFrame]
          /\ current_len' = [current_len EXCEPT ![i] = 0]
          /\ current_off' = [current_off EXCEPT ![i] = 0]
          /\ UNCHANGED current_received_ms
      BY <1>2, <2>2 DEF Accept, ClearCurrent, Add
    <3>2. QED
      BY <2>1, <2>2, <3>1
  <2>3. CASE off + n # len
    <3>1. /\ current_off' = [current_off EXCEPT ![i] = off + n]
          /\ UNCHANGED <<sent_frames, current, current_len, current_received_ms>>
      BY <1>2, <2>3 DEF Accept, Add
    <3>2. QED
      BY <1>5, <2>1, <2>3, <3>1
  <2>4. QED
    BY <2>2, <2>3
<1>13. TypeOK'
  BY <1>1, <1>3, <1>8, <1>9, <1>10, <1>11, <1>12 DEF TypeOK
<1>14. \A k : Before(k)' = Before(k)
  BY <1>3, RingSame
<1>15. /\ (off + n = len) => ~(Pending(i)') /\ ntrip_tx_pending(i)' = 0
       /\ (off + n # len) => Pending(i)' /\ ntrip_tx_pending(i)' = len - off - n
  BY <1>5, <1>12 DEF Pending, ntrip_tx_pending
<1>16. TxOK(i)'
  <2>1. Before(cursor_seq[i])' = Before(cursor_seq[i])
    BY <1>3, <1>11 DEF Before
  <2>2. copied_bytes[i] = accepted_to_lwip'[i] + dropped_bytes[i] + ntrip_tx_pending(i)'
    BY <1>1, <1>5, <1>11, <1>15 DEF TxOK, Numbers
  <2>3. CASE off + n = len
    BY <1>1, <1>3, <1>11, <1>12, <2>1, <2>2, <2>3 DEF TxOK
  <2>4. CASE off + n # len
    <3>1. Before(current[i])' = Before(c)
      BY <1>3, <1>12, <2>4 DEF Before
    <3>2. off + n < len
      BY <1>5, <2>4
    <3>3. QED
      BY <1>1, <1>3, <1>6, <1>11, <1>12, <2>1, <2>2, <2>4, <3>1, <3>2 DEF TxOK
  <2>5. QED
    BY <2>3, <2>4
<1>17. TaskOK(i)'
  BY <1>10 DEF TaskOK
<1>18. \A j \in DOMAIN v : v[j].frame < cursor_seq[i]
  <2> SUFFICES ASSUME NEW j \in DOMAIN v PROVE v[j].frame < cursor_seq[i]
    OBVIOUS
  <2>1. CASE j = Len(v)
    BY <1>5, <1>6, <1>7, <2>1
  <2>2. CASE j # Len(v)
    <3>1. j \in 1 .. Len(v) - 1
      BY <1>7, <1>8, <2>2
    <3>2. QED
      BY <1>4, <1>7, <3>1 DEF WireOK
  <2>3. QED
    BY <2>1, <2>2
<1>19. WholeFramesOf(i)'
  <2> SUFFICES ASSUME NEW j \in DOMAIN v
               PROVE  /\ v[j].from = 0
                      /\ v[j].len = Before(v[j].frame + 1) - Before(v[j].frame)
                      /\ j < Len(v) => /\ v[j].upto = v[j].len
                                       /\ v[j].frame < v[j + 1].frame
    BY <1>8, <1>14 DEF WholeFramesOf
  <2>1. CASE j = Len(v)
    BY <1>6, <1>7, <2>1
  <2>2. CASE j # Len(v)
    <3>1. j \in 1 .. Len(v) - 1
      BY <1>7, <1>8, <2>2
    <3>2. QED
      BY <1>1, <1>7, <3>1 DEF WholeFramesOf
  <2>3. QED
    BY <2>1, <2>2
<1>20. WireOK(i)'
  <2>1. v # <<>>
    BY <1>7
  <2>2. CASE off + n = len
    BY <1>7, <1>8, <1>11, <1>15, <1>18, <2>1, <2>2 DEF WireOK
  <2>3. CASE off + n # len
    <3>1. current_off'[i] > 0 /\ current_off'[i] = off + n /\ current'[i] = c
      BY <1>5, <1>12, <2>3
    <3>2. QED
      BY <1>7, <1>8, <1>11, <1>15, <1>18, <2>1, <2>3, <3>1 DEF WireOK
  <2>4. QED
    BY <2>2, <2>3
<1>21. \A j \in DOMAIN wire'[i] : wire'[i][j].frame < next_seq'
  <2>1. /\ cursor_seq[i] \in Nat /\ next_seq \in Nat /\ cursor_seq[i] <= next_seq
        /\ \A j \in DOMAIN v : v[j].frame \in Nat
    <3>1. \A j \in DOMAIN v : v[j] \in Run
      BY <1>7
    <3>2. QED
      BY <1>1, <3>1 DEF TxOK, Numbers, Run
  <2>2. QED
    BY <1>3, <1>8, <1>18, <2>1
<1>22. QED
  BY <1>13, <1>16, <1>17, <1>19, <1>20, <1>21 DEF InstOK

(***************************************************************************)
(* The UART task and the clock.                                            *)
(***************************************************************************)
(* A push moves no sender: the totals behind every cursor and every run of
   every stream are those of older frames. *)
LEMMA PushOK ==
    ASSUME IInv, Push
    PROVE  TypeOK' /\ RingInv' /\ \A j \in Inst : InstOK(j)'
<1>1. PICK len \in Lens : ntrip_ring_push(len)
  BY DEF Push
<1>2. /\ TypeOK /\ RingInv
      /\ UNCHANGED <<lock, cursor_seq, cum_through, current, current_len, current_off,
                     current_received_ms, last_progress_ms, copied_bytes,
                     accepted_to_lwip, dropped_bytes, skipped_bytes,
                     dropped_stale_bytes, sent_frames, skipped_frames,
                     dropped_frames_stale>>
      /\ UNCHANGED <<pc, now, round, spins, pr, conns, clock, delivered, wire>>
  BY DEF IInv, Push, tx, task, hist, position, frame, lost, sent
<1>3. /\ lock = NoOne /\ next_seq' = next_seq + 1 /\ next_seq \in Nat
      /\ cum_bytes' = cum_bytes + len /\ cum_bytes \in Nat /\ uart_now' = uart_now
  BY <1>1, <1>2 DEF ntrip_ring_push, TypeOK
<1>4. /\ \A k \in 0 .. next_seq : Before(k)' = Before(k)
      /\ prefix' \in Seq(Nat) /\ Len(prefix') = next_seq' /\ len \in Nat
  BY <1>1, <1>2, PushBefore
<1>5. RingInv' /\ slot' \in [Index -> Slot]
  BY <1>1, <1>2, PushRing
<1>6. TypeOK'
  <2>1. next_seq' \in Nat /\ cum_bytes' \in Nat
    BY <1>3, <1>4
  <2>2. QED
    BY <1>2, <1>3, <1>4, <1>5, <2>1 DEF TypeOK
<1>7. ASSUME NEW j \in Inst
      PROVE  InstOK(j)'
  <2>1. TxOK(j) /\ TaskOK(j) /\ WholeFramesOf(j) /\ Numbers(j)
    BY TxNumbers DEF IInv, InstOK
  <2>2. TxOK(j)'
    <3>1. cursor_seq[j] \in 0 .. next_seq
      BY <2>1 DEF TxOK, Numbers
    <3>2. Before(cursor_seq[j])' = Before(cursor_seq[j])
      BY <1>2, <1>4, <3>1 DEF Before
    <3>3. current[j] # NoFrame => Before(current[j])' = Before(current[j])
      <4>1. current[j] # NoFrame => current[j] \in 0 .. next_seq
        BY <2>1, <3>1 DEF TxOK, Numbers
      <4>2. QED
        BY <1>2, <1>4, <4>1 DEF Before
    <3>4. cursor_seq[j] <= next_seq'
      BY <1>3, <3>1
    <3>5. ntrip_tx_pending(j)' = ntrip_tx_pending(j)
      BY <1>2 DEF ntrip_tx_pending
    <3>6. QED
      BY <1>2, <2>1, <3>2, <3>3, <3>4, <3>5 DEF TxOK
  <2>3. TaskOK(j)'
    <3>1. pc[j] # "scan"
      BY <1>3, <2>1, TxConstants DEF TaskOK
    <3>2. Pending(j)' = Pending(j)
      BY <1>2 DEF Pending
    <3>3. QED
      BY <1>2, <2>1, <3>1, <3>2 DEF TaskOK
  <2>4. \A k \in DOMAIN wire[j] : wire[j][k].frame \in Nat /\ wire[j][k].frame < next_seq
    BY <1>2, WireTypes DEF IInv, InstOK
  <2>5. WholeFramesOf(j)'
    <3> SUFFICES ASSUME NEW k \in DOMAIN wire[j]
                 PROVE  /\ wire[j][k].from = 0
                        /\ wire[j][k].len = Before(wire[j][k].frame + 1)'
                                              - Before(wire[j][k].frame)'
                        /\ k < Len(wire[j]) =>
                             /\ wire[j][k].upto = wire[j][k].len
                             /\ wire[j][k].frame < wire[j][k + 1].frame
      BY <1>2 DEF WholeFramesOf
    <3> DEFINE f == wire[j][k].frame
    <3>1. f \in 0 .. next_seq /\ f + 1 \in 0 .. next_seq
      BY <1>3, <2>4
    <3> HIDE DEF f
    <3>2. Before(f)' = Before(f) /\ Before(f + 1)' = Before(f + 1)
      BY <1>2, <1>4, <3>1 DEF f
    <3>3. QED
      BY <1>2, <2>1, <3>2 DEF WholeFramesOf, f
  <2>6. \A k \in DOMAIN wire'[j] : wire'[j][k].frame < next_seq'
    BY <1>2, <1>3, <2>4
  <2>7. Streaming(j)' => WireOK(j)'
    BY <1>2 DEF IInv, InstOK, Streaming, WireOK, Pending
  <2>8. QED
    BY <2>2, <2>3, <2>5, <2>6, <2>7 DEF InstOK
<1>8. QED
  BY <1>5, <1>6, <1>7

(* A step that changes nothing but the clock and the UART task's reading. *)
LEMMA IdleOK ==
    ASSUME IInv, UNCHANGED <<slot, next_seq, cum_bytes, prefix, lock, tx, task, hist>>,
           clock' \in Nat, uart_now' \in Nat
    PROVE  IInv'
<1>1. TypeOK /\ RingInv /\ UNCHANGED lock
  BY DEF IInv
<1>2. TypeOK'
  BY <1>1 DEF TypeOK, tx, task, hist, position, frame, lost, sent
<1>3. RingInv'
  BY <1>1, FramesSame
<1>4. ASSUME NEW j \in Inst
      PROVE  InstOK(j)'
  <2>1. SameInst(j)
    BY DEF SameInst, tx, task, hist, position, frame, lost, sent
  <2>2. InstOK(j)
    BY DEF IInv
  <2>3. QED
    BY <1>1, <2>1, <2>2, OtherOK
<1>5. QED
  BY <1>2, <1>3, <1>4 DEF IInv

(***************************************************************************)
(* The inductive invariant.                                                *)
(***************************************************************************)
(* A step of one server task keeps the invariant of every instance. *)
LEMMA ServerOK ==
    ASSUME IInv, NEW i \in Inst, Server(i)
    PROVE  IInv'
<1>1. TypeOK /\ RingInv
  BY DEF IInv
<1>2. TypeOK' /\ InstOK(i)'
  BY ConnectOK, WaitStepOK, BeginScanOK, ScanDropStaleOK, ScanCopyOK, SendAcceptOK,
     SendErrorOK, CloseOK DEF Server
<1>3. UNCHANGED ring
  BY DEF Server, Connect, Wake, ResumeFrame, BeginScan, ScanDropStale, ScanCopy,
         ScanEmpty, SendAccept, SendWouldBlock, SendError, CloseConnection,
         KeepConnection
<1>4. RingInv'
  BY <1>1, <1>3, RingSame
<1>5. ASSUME NEW j \in Inst, j # i
      PROVE  InstOK(j)'
  <2>1. /\ SameInst(j)
        /\ \/ lock' = lock
           \/ lock = NoOne /\ lock' = i
           \/ pc[i] = "scan" /\ lock' = NoOne
    BY <1>1, <1>5, ServerLocal
  <2>2. InstOK(j)
    BY DEF IInv
  <2>3. (pc[j] = "scan" => lock = j) /\ (pc[i] = "scan" => lock = i)
    BY DEF IInv, InstOK, TaskOK
  <2>4. pc[j] = "scan" => lock' = lock
    BY <1>5, <2>1, <2>3, TxConstants
  <2>5. QED
    BY <1>3, <2>1, <2>2, <2>4, OtherOK DEF ring
<1>6. QED
  BY <1>2, <1>4, <1>5 DEF IInv

(* The invariant holds before the first frame and the first connection. *)
LEMMA InitOK == Init => IInv
<1> SUFFICES ASSUME Init PROVE IInv
  OBVIOUS
<1>1. TypeOK
  <2>1. slot \in [Index -> Slot]
    BY DEF Init, Slot
  <2>2. QED
    BY <2>1, TxConstants DEF Init, TypeOK, Zero, Location, PollResult
<1>2. RingInv
  BY TxConstants DEF Init, RingInv, RingTotals, RingSlots, Before, ring_oldest_seq
<1>3. ASSUME NEW i \in Inst
      PROVE  InstOK(i)
  <2>1. /\ cursor_seq[i] = 0 /\ cum_through[i] = 0 /\ current[i] = NoFrame
        /\ current_len[i] = 0 /\ current_off[i] = 0 /\ copied_bytes[i] = 0
        /\ accepted_to_lwip[i] = 0 /\ dropped_bytes[i] = 0 /\ skipped_bytes[i] = 0
        /\ dropped_stale_bytes[i] = 0 /\ pc[i] = "down" /\ wire[i] = <<>>
        /\ next_seq = 0
    BY DEF Init, Zero
  <2>2. TxOK(i)
    BY <2>1 DEF TxOK, Before, ntrip_tx_pending
  <2>3. TaskOK(i) /\ ~Streaming(i)
    BY <2>1 DEF TaskOK, Pending, Streaming
  <2>4. DOMAIN wire[i] = {}
    BY <2>1
  <2>5. QED
    BY <2>2, <2>3, <2>4 DEF InstOK, WholeFramesOf
<1>4. QED
  BY <1>1, <1>2, <1>3 DEF IInv

(* IInv is inductive. *)
LEMMA NextOK == IInv /\ [Next]_vars => IInv'
<1> SUFFICES ASSUME IInv, [Next]_vars PROVE IInv'
  OBVIOUS
<1>1. CASE Tick
  <2>1. clock' \in Nat /\ uart_now' \in Nat
    BY <1>1 DEF Tick, IInv, TypeOK, ring
  <2>2. QED
    BY <1>1, <2>1, IdleOK DEF Tick, ring
<1>2. CASE Ingest
  <2>1. clock' \in Nat /\ uart_now' \in Nat
    BY <1>2, MsNat DEF Ingest, IInv, TypeOK
  <2>2. QED
    BY <1>2, <2>1, IdleOK DEF Ingest
<1>3. CASE Push
  BY <1>3, PushOK DEF IInv
<1>4. CASE \E i \in Inst : Server(i)
  BY <1>4, ServerOK
<1>5. CASE UNCHANGED vars
  <2>1. clock' \in Nat /\ uart_now' \in Nat
    BY <1>5 DEF vars, ring, IInv, TypeOK
  <2>2. QED
    BY <1>5, <2>1, IdleOK DEF vars, ring
<1>6. QED
  BY <1>1, <1>2, <1>3, <1>4, <1>5 DEF Next

(* The inductive invariant holds in every reachable state. *)
THEOREM Invariant == Spec => []IInv
  BY InitOK, NextOK, PTL DEF Spec

(* The state of the send path is well typed in every reachable state. *)
THEOREM TypeCorrect == Spec => []TypeOK
<1>1. IInv => TypeOK
  BY DEF IInv
<1>2. QED
  BY <1>1, Invariant, PTL

(* Every byte the receiver produced is in exactly one account of every
   instance, whatever the interleaving of pushes, scans, sends and
   reconnects (the byte balance of ntrip_tx_core.c). *)
THEOREM BytesBalance == Spec => []ByteBalance
<1>1. IInv => ByteBalance
  BY DEF IInv, InstOK, TxOK, ByteBalance
<1>2. QED
  BY <1>1, Invariant, PTL

(* Every caster receives whole frames in order on every connection. *)
THEOREM FramesWhole == Spec => []WholeFrames
<1>1. IInv => WholeFrames
  BY DEF IInv, InstOK, WholeFrames
<1>2. QED
  BY <1>1, Invariant, PTL

(* A resident sequence number always finds its own frame in the ring. *)
THEOREM RingSound == Spec => []RingInv
<1>1. IInv => RingInv
  BY DEF IInv
<1>2. QED
  BY <1>1, Invariant, PTL

(***************************************************************************)
(* Refinement: the send path implements the abstract frame feed.           *)
(***************************************************************************)
(* Every step of the send path is a step of the feed, or leaves it alone. *)
LEMMA FeedStep == IInv /\ [Next]_vars => [Feed!FeedNext]_(Feed!feedVars)
<1> SUFFICES ASSUME IInv, [Next]_vars
             PROVE  [Feed!FeedNext]_(Feed!feedVars)
  OBVIOUS
<1> USE DEF Feed!feedVars
<1>1. CASE Tick \/ Ingest \/ UNCHANGED vars
  BY <1>1 DEF Tick, Ingest, vars, ring, tx, position, frame, hist
<1>2. CASE Push
  <2>1. next_seq' = next_seq + 1 /\ UNCHANGED <<cursor_seq, current, delivered>>
    BY <1>2 DEF Push, ntrip_ring_push, tx, position, frame, hist
  <2>2. QED
    BY <2>1 DEF Feed!FeedNext, Feed!Produce
<1>3. ASSUME NEW i \in Inst, Server(i)
      PROVE  [Feed!FeedNext]_(Feed!feedVars)
  <2>1. TypeOK /\ TxOK(i) /\ TaskOK(i) /\ Numbers(i)
    BY TxNumbers DEF IInv, InstOK
  <2>2. next_seq \in Nat /\ cursor_seq[i] \in Nat /\ cursor_seq[i] <= next_seq
    BY <2>1 DEF TxOK, Numbers
  <2>3. CASE Wake(i) \/ ResumeFrame(i) \/ KeepConnection(i) \/ ScanEmpty(i)
             \/ SendWouldBlock(i)
    BY <2>3 DEF Wake, ResumeFrame, KeepConnection, ScanEmpty, SendWouldBlock,
                ring, tx, position, frame, hist
  <2>4. CASE Connect(i)
    <3>1. /\ cursor_seq' = [cursor_seq EXCEPT ![i] = next_seq]
          /\ current' = [current EXCEPT ![i] = NoFrame]
          /\ UNCHANGED <<next_seq, delivered>> /\ pc[i] = "down"
      BY <2>4 DEF Connect, ntrip_tx_reset_conn, ntrip_tx_abort, ClearCurrent,
                  MoveCursor, ring
    <3>2. current[i] = NoFrame
      BY <2>1, <3>1 DEF TaskOK, Numbers
    <3>3. current' = current
      BY <2>1, <3>1, <3>2 DEF TypeOK
    <3>4. next_seq \in cursor_seq[i] .. next_seq
      BY <2>2
    <3>5. Feed!PassOver(i, next_seq)
      BY <3>1, <3>2, <3>3, <3>4 DEF Feed!PassOver
    <3>6. QED
      BY <3>4, <3>5 DEF Feed!FeedNext
  <2>5. CASE BeginScan(i)
    <3> DEFINE k == ring_oldest_seq
    <3>1. /\ ~Pending(i) /\ UNCHANGED <<next_seq, current, delivered>>
          /\ IF cursor_seq[i] < k THEN cursor_seq' = [cursor_seq EXCEPT ![i] = k]
                                  ELSE cursor_seq' = cursor_seq
      BY <2>5 DEF BeginScan, FallOff, MoveCursor, position, frame, ring, hist
    <3>2. current[i] = NoFrame
      BY <2>1, <3>1 DEF Numbers
    <3>3. k \in Nat /\ k <= next_seq
      BY <2>2, TxConstants DEF ring_oldest_seq
    <3> HIDE DEF k
    <3>4. CASE cursor_seq[i] < k
      <4>1. k \in cursor_seq[i] .. next_seq
        BY <2>2, <3>3, <3>4
      <4>2. Feed!PassOver(i, k)
        BY <3>1, <3>2, <3>4, <4>1 DEF Feed!PassOver
      <4>3. QED
        BY <4>1, <4>2 DEF Feed!FeedNext
    <3>5. CASE ~(cursor_seq[i] < k)
      BY <3>1, <3>5
    <3>6. QED
      BY <3>4, <3>5
  <2>6. CASE ScanDropStale(i)
    <3>1. /\ cursor_seq' = [cursor_seq EXCEPT ![i] = cursor_seq[i] + 1]
          /\ UNCHANGED <<next_seq, current, delivered>>
          /\ pc[i] = "scan" /\ cursor_seq[i] < next_seq
      BY <2>6 DEF ScanDropStale, DropStale, MoveCursor, ring, frame, hist
    <3>2. current[i] = NoFrame
      BY <3>1, PassFrame
    <3>3. cursor_seq[i] + 1 \in cursor_seq[i] .. next_seq
      BY <2>2, <3>1
    <3>4. Feed!PassOver(i, cursor_seq[i] + 1)
      BY <3>1, <3>2, <3>3 DEF Feed!PassOver
    <3>5. QED
      BY <3>3, <3>4 DEF Feed!FeedNext
  <2>7. CASE ScanCopy(i)
    <3>1. /\ cursor_seq' = [cursor_seq EXCEPT ![i] = cursor_seq[i] + 1]
          /\ current' = [current EXCEPT ![i] = SlotOf(cursor_seq[i]).data]
          /\ UNCHANGED <<next_seq, delivered>>
          /\ pc[i] = "scan" /\ cursor_seq[i] < next_seq
      BY <2>7 DEF ScanCopy, CopyFrame, MoveCursor, ring, hist
    <3>2. current[i] = NoFrame /\ SlotOf(cursor_seq[i]).data = cursor_seq[i]
      BY <3>1, PassFrame
    <3>3. Feed!Take(i)
      BY <3>1, <3>2 DEF Feed!Take
    <3>4. QED
      BY <3>3 DEF Feed!FeedNext
  <2>8. CASE SendAccept(i)
    <3>1. PICK n \in 1 .. ntrip_tx_pending(i) :
            /\ Accept(i, n)
            /\ delivered' = IF n = ntrip_tx_pending(i)
                            THEN [delivered EXCEPT ![i] = Append(delivered[i], current[i])]
                            ELSE delivered
      BY <2>8 DEF SendAccept
    <3>2. /\ n \in Nat /\ current_off[i] \in Nat /\ current_len[i] \in Nat
          /\ ntrip_tx_pending(i) = current_len[i] - current_off[i]
          /\ current[i] # NoFrame
      BY <2>1, <2>8 DEF Numbers, ntrip_tx_pending, SendAccept, TaskOK
    <3>3. UNCHANGED <<next_seq, cursor_seq>>
      BY <2>8, <3>1 DEF SendAccept, Accept, ring, position
    <3>4. CASE n = ntrip_tx_pending(i)
      <4>1. current_off[i] + n = current_len[i]
        BY <3>2, <3>4
      <4>2. current' = [current EXCEPT ![i] = NoFrame]
        BY <3>1, <4>1 DEF Accept, ClearCurrent
      <4>3. Feed!Deliver(i)
        BY <3>1, <3>2, <3>3, <3>4, <4>2 DEF Feed!Deliver
      <4>4. QED
        BY <4>3 DEF Feed!FeedNext
    <3>5. CASE n # ntrip_tx_pending(i)
      <4>1. current_off[i] + n # current_len[i]
        BY <3>2, <3>5
      <4>2. UNCHANGED <<current, delivered>>
        BY <3>1, <3>5, <4>1 DEF Accept
      <4>3. QED
        BY <3>3, <4>2
    <3>6. QED
      BY <3>4, <3>5
  <2>9. CASE SendError(i) \/ CloseConnection(i)
    <3>1. /\ current' = [current EXCEPT ![i] = NoFrame]
          /\ UNCHANGED <<next_seq, cursor_seq, delivered>>
      BY <2>9 DEF SendError, CloseConnection, ntrip_tx_abort, ClearCurrent,
                  ring, position, hist
    <3>2. CASE current[i] = NoFrame
      BY <2>1, <3>1, <3>2 DEF TypeOK
    <3>3. CASE current[i] # NoFrame
      <4>1. Feed!GiveUp(i)
        BY <3>1, <3>3 DEF Feed!GiveUp
      <4>2. QED
        BY <4>1 DEF Feed!FeedNext
    <3>4. QED
      BY <3>2, <3>3
  <2>10. QED
    BY <1>3, <2>3, <2>4, <2>5, <2>6, <2>7, <2>8, <2>9 DEF Server
<1>4. QED
  BY <1>1, <1>2, <1>3 DEF Next

(* The send path implements the abstract feed: every caster is offered every
   frame once and in order, and what it is given is whole. *)
THEOREM SendPathIsFeed == Spec => ImplementsFeed
<1>1. Init => Feed!FeedInit
  BY DEF Init, Feed!FeedInit, Zero
<1>2. QED
  BY <1>1, FeedStep, Invariant, PTL DEF Spec, ImplementsFeed, Feed!FeedSpec

(***************************************************************************)
(* Ages of 32-bit readings.                                                *)
(***************************************************************************)
(* The remainder is the only number below m that differs by a multiple of m. *)
LEMMA Remainder ==
    ASSUME NEW m \in Nat \ {0}, NEW k \in Int, NEW z \in 0 .. m - 1, NEW y \in Int, y = m * k + z
    PROVE  y % m = z
<1> DEFINE q == y \div m
           r == y % m
<1>1. q \in Int /\ r \in 0 .. m - 1 /\ y = m * q + r
  BY SMT
<1> HIDE DEF q, r
<1>2. m * (q - k) = z - r
  BY <1>1
<1>3. q - k \in Int /\ ~(q - k >= 1) /\ ~(q - k <= -1)
  BY <1>1, <1>2, MulAtLeast, MulAtMost
<1>4. q = k
  BY <1>1, <1>3
<1>5. r = z
  BY <1>1, <1>4
<1>6. QED
  BY <1>5 DEF r

LEMMA Dividing ==
    ASSUME NEW d \in Int, d > 0, NEW t \in Int
    PROVE  t = d * (t \div d) + (t % d) /\ t % d \in 0 .. d - 1 /\ t \div d \in Int
  BY SMT

(* A reading n that is older than the clock c by less than a lap makes a frame
   received at r look old only if it is old, or if it came after the reading. *)
LEMMA OldOrLater ==
    ASSUME NEW r \in Int, NEW n \in Int, NEW c \in Int, Elapsed(r, n) > StaleMs
    PROVE  Elapsed(r, c) > StaleMs \/ Elapsed(n, r) \in 1 .. Elapsed(n, c)
<1> DEFINE M == ClockMod
           x == (n - r) % M
           d == (c - n) % M
           p == (n - r) \div M
           q == (c - n) \div M
<1>1. M \in Nat \ {0} /\ StaleMs \in Nat
  BY TxConstants
<1>2. /\ x \in 0 .. M - 1 /\ d \in 0 .. M - 1 /\ p \in Int /\ q \in Int
      /\ n - r = M * p + x /\ c - n = M * q + d
  <2>1. n - r \in Int /\ c - n \in Int
    OBVIOUS
  <2>2. QED
    BY <1>1, <2>1, Dividing
<1>3. x > StaleMs
  BY DEF Elapsed
<1>4. Elapsed(n, c) = d /\ Elapsed(r, c) = (c - r) % M /\ Elapsed(n, r) = (r - n) % M
  BY DEF Elapsed
<1> HIDE DEF M, x, d, p, q
<1>a. ASSUME NEW m \in Nat \ {0}, NEW a \in Int, NEW b \in Int
      PROVE  /\ m * (a + b) = m * a + m * b /\ m * (-a - 1) = -(m * a) - m
             /\ m * a \in Int /\ m * b \in Int
  BY SMT
<1>b. ASSUME NEW k \in Int, NEW z \in 0 .. M - 1, NEW y \in Int, y = M * k + z
      PROVE  y % M = z
  BY <1>1, <1>b, Remainder
<1>5. CASE x + d < M
  <2>1. c - r = M * (p + q) + (x + d) /\ p + q \in Int /\ x + d \in 0 .. M - 1
    <3>1. M * (p + q) = M * p + M * q /\ M * p \in Int /\ M * q \in Int
      BY <1>a, <1>1, <1>2, Zenon
    <3>2. p + q \in Int /\ x + d \in 0 .. M - 1
      BY <1>1, <1>2, <1>5
    <3>3. ASSUME NEW e \in Int, NEW f \in Int, n - r = e + x, c - n = f + d
          PROVE  c - r = (e + f) + (x + d)
      BY <1>2, <3>3
    <3>4. c - r = (M * p + M * q) + (x + d)
      BY <1>2, <3>1, <3>3, Zenon
    <3>5. QED
      BY <3>1, <3>2, <3>4, Zenon
  <2>2. (c - r) % M = x + d
    <3>1. c - r \in Int
      OBVIOUS
    <3>2. QED
      BY <1>b, <2>1, <3>1, Zenon
  <2>3. QED
    BY <1>1, <1>2, <1>3, <1>4, <2>2
<1>6. CASE x + d >= M
  <2>1. r - n = M * (-p - 1) + (M - x) /\ -p - 1 \in Int /\ M - x \in 0 .. M - 1
    <3>1. M * (-p - 1) = -(M * p) - M /\ M * p \in Int
      BY <1>a, <1>1, <1>2, Zenon
    <3>2. -p - 1 \in Int /\ M - x \in 0 .. M - 1
      BY <1>1, <1>2, <1>3
    <3>3. ASSUME NEW e \in Int, n - r = e + x PROVE r - n = (-e - M) + (M - x)
      BY <1>1, <1>2, <3>3
    <3>4. r - n = (-(M * p) - M) + (M - x)
      BY <1>2, <3>1, <3>3, Zenon
    <3>5. QED
      BY <3>1, <3>2, <3>4, Zenon
  <2>2. (r - n) % M = M - x
    <3>1. r - n \in Int
      OBVIOUS
    <3>2. QED
      BY <1>b, <2>1, <3>1, ZenonT(30)
  <2>3. M - x \in 1 .. d
    BY <1>1, <1>2, <1>3, <1>6
  <2>4. QED
    BY <1>4, <2>2, <2>3
<1>7. QED
  BY <1>1, <1>2, <1>5, <1>6

(* A stale count moves only in the scan, at a frame the sender takes for stale. *)
LEMMA StaleStep ==
    ASSUME IInv, [Next]_vars, NEW i \in Inst, dropped_frames_stale'[i] > dropped_frames_stale[i]
    PROVE  IsStale(i)
<1>0. dropped_frames_stale \in [Inst -> Nat]
  BY DEF IInv, TypeOK
<1>1. ASSUME UNCHANGED dropped_frames_stale PROVE FALSE
  BY <1>0, <1>1
<1>2. CASE Tick \/ Ingest \/ Push \/ UNCHANGED vars
  BY <1>1, <1>2, Zenon DEF Tick, Ingest, Push, vars, tx, lost
<1>3. ASSUME NEW j \in Inst, Server(j) PROVE IsStale(i)
  <2>1. CASE Connect(j) \/ BeginScan(j)
    BY <1>1, <2>1, Zenon DEF Connect, BeginScan, ntrip_tx_reset_conn, FallOff, SkipTo, lost
  <2>2. CASE Wake(j) \/ ResumeFrame(j) \/ ScanEmpty(j) \/ SendWouldBlock(j) \/ KeepConnection(j)
    BY <1>1, <2>2, Zenon DEF Wake, ResumeFrame, ScanEmpty, SendWouldBlock, KeepConnection, tx,
       lost
  <2>3. CASE ScanCopy(j) \/ SendAccept(j) \/ SendError(j) \/ CloseConnection(j)
    BY <1>1, <2>3, Zenon DEF ScanCopy, CopyFrame, SendAccept, Accept, SendError,
       CloseConnection, lost
  <2>4. CASE ScanDropStale(j)
    <3>1. IsStale(j) /\ dropped_frames_stale' = Add(dropped_frames_stale, j, 1)
      BY <2>4, Zenon DEF ScanDropStale, DropStale
    <3>2. i = j
      BY <1>0, <3>1 DEF Add
    <3>3. QED
      BY <3>1, <3>2, Zenon
  <2>5. QED
    BY <1>3, <2>1, <2>2, <2>3, <2>4, Zenon DEF Server
<1>4. QED
  BY <1>2, <1>3, Zenon DEF Next

(* The sender drops as stale only what is older than stale_ms on the clock at
   that moment, or was stamped after the drain loop's reading of the clock: the
   wrapped comparison of tx_copy_next fails in no other way, for every width of
   the clock, any delay between reading and comparison, and any interleaving. *)
THEOREM StaleIsOld == Spec => StaleMeansOld
<1> DEFINE Fair(i) == LET received == SlotOf(cursor_seq[i]).received_ms
                      IN  \/ Elapsed(received, Ms(clock)) > StaleMs
                          \/ Elapsed(now[i], received) \in 1 .. Elapsed(now[i], Ms(clock))
<1>1. ASSUME IInv, [Next]_vars, NEW i \in Inst, dropped_frames_stale'[i] > dropped_frames_stale[i]
      PROVE  Fair(i)
  <2>1. Elapsed(SlotOf(cursor_seq[i]).received_ms, now[i]) > StaleMs
    BY <1>1, StaleStep, Zenon DEF IsStale
  <2>2. slot \in [Index -> Slot] /\ cursor_seq[i] \in Nat /\ now[i] \in Int /\ clock \in Int
    BY <1>1 DEF IInv, TypeOK
  <2>3. cursor_seq[i] % Slots \in Index
    BY <2>2, DivMod, TxConstants DEF Index
  <2>4. SlotOf(cursor_seq[i]).received_ms \in Int
    BY <2>2, <2>3 DEF SlotOf, Slot
  <2>5. Ms(clock) \in Int
    BY <2>2, TxConstants DEF Ms
  <2>6. QED
    BY <2>1, <2>2, <2>4, <2>5, OldOrLater, Zenon
<1>2. IInv /\ [Next]_vars =>
        [\A i \in Inst : dropped_frames_stale'[i] > dropped_frames_stale[i] => Fair(i)]_vars
  BY <1>1, Zenon
<1>3. QED
  BY <1>2, Invariant, PTL DEF Spec, StaleMeansOld
=============================================================================

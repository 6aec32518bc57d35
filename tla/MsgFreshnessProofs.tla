------------------------- MODULE MsgFreshnessProofs -------------------------
(***************************************************************************)
(* Proofs about MsgFreshness, for every set of required types and budgets, *)
(* every width of the millisecond counter and every interleaving of the    *)
(* UART task, the GNSS task and the verdict.                               *)
(***************************************************************************)
EXTENDS MsgFreshness, SequenceTheorems, TLAPS

(* The signed 32-bit comparison is meaningful: less than 2^31 ms lie between
   the last reset before the behaviour and its end, and no budget is longer. *)
Window == Uptime0 + MaxTicks - Since0 <= Half /\ \A i \in Types : Budget[i] < Half

(* Every 32-bit word is the low part of the time it stands for. *)
Words ==
    /\ \A i \in Types : s_msg_last_ms[i] = Ms(sample[i].at)
    /\ s_epoch_started_ms = Ms(since_at)
    /\ chunk_now = Ms(chunk_at)
    /\ r_now = Ms(r_at)
    /\ r_since = Ms(r_since_at)
    /\ rpc = "tag" => r_last = Ms(r_sample[r_type].at)

(* Nothing is dated in the future, and a new sample is not older than the one
   it replaces. *)
Times ==
    /\ clock \in Uptime0 .. Uptime0 + MaxTicks
    /\ since_at \in Since0 .. clock /\ chunk_at <= clock /\ r_at <= clock
    /\ \A i \in Types : sample[i].at \in Since0 .. clock
    /\ upc \in {"stamp", "tag"} => \A i \in Types : sample[i].at <= chunk_at
    /\ upc \in {"stamp", "tag"} => Since0 <= chunk_at
    /\ rpc # "idle" => Uptime0 <= r_at
    /\ rpc \notin {"idle", "epoch", "since"} => r_since_at \in Since0 .. clock
    /\ rpc = "tag" => r_sample[r_type].at \in Since0 .. clock

BaseInv == TypeOK /\ Words /\ Times

(* The verdict has dealt with type i, or has read its time stamp. *)
Processed(i) == rpc \in {"final", "done"} \/ (rpc \in {"last", "tag"} /\ i < r_type)
HasSample(i) == Processed(i) \/ (rpc = "tag" /\ i = r_type)

RecentOne(i) == r_sample[i].at > r_since_at /\ r_at - r_sample[i].at \in 0 .. Budget[i]

(* A verdict that is still favourable has found every type recent. *)
Recent == \A i \in Types : Processed(i) /\ all_fresh => RecentOne(i)

(* A type that was in order when the verdict read the clock stays within its
   budget, and in the epoch unless a reset begins. *)
HealthyOne(i) ==
    /\ rpc # "idle" => r_at - sample[i].at <= Budget[i]
    /\ rpc = "epoch" => since_at >= r_at \/ (s_msg_epoch[i] = s_epoch /\ gpc # "since")
    /\ rpc = "since" /\ s_epoch = r_epoch => since_at >= r_at \/ s_msg_epoch[i] = s_epoch
    /\ rpc \in {"last", "tag"} /\ s_epoch = r_epoch => r_since_at >= r_at \/ s_msg_epoch[i] = s_epoch
    /\ HasSample(i) => r_at - r_sample[i].at <= Budget[i]
    /\ /\ Processed(i) /\ s_epoch = r_epoch
       /\ r_sample[i].at <= r_at
       /\ r_sample[i].at - r_since_at \in 1 .. Half - 1
       => fresh[i]

StaysHealthy ==
    /\ rpc \notin {"idle", "epoch"} => r_epoch <= s_epoch
    /\ \A i \in r_good : HealthyOne(i)

(* What the receiver sent before its last reset is gone from the driver and
   from the chunk by the time the driver is flushed ... *)
InFlight(f) ==
    /\ f.at <= clock /\ clock <= f.at + HoldMs
    /\ f.gen \in {gen, gen - 1}
    /\ f.gen < gen => \/ gpc = "low" /\ f.at <= pulse_until - PulseMs
                      \/ gpc = "high" /\ f.at <= pulse_until - 2 * PulseMs

(* ... and what was fed to the parser by then is not dated later than the epoch. *)
OldIsDated(t, g) ==
    /\ g <= gen
    /\ g + 1 < s_epoch => t <= since_at
    /\ g < gen => CASE gpc = "low" -> t <= pulse_until + PulseMs
                    [] gpc \in {"high", "flushed"} -> t <= pulse_until
                    [] OTHER -> t <= since_at

(* A verdict under way has read a start of the epoch that says so too. *)
OldIsSeen(t, g) ==
    /\ rpc \notin {"idle", "epoch", "since"} /\ s_epoch = r_epoch
    /\ g + 1 < r_epoch
    => t <= r_since_at

Old(t, g) == OldIsDated(t, g) /\ OldIsSeen(t, g)

(* A frame that arrived at a and did not wait in the parser. *)
OldUnlessHeld(t, a, g) == t <= a + HoldMs => Old(t, g)
SeenUnlessHeld(t, a, g) == t <= a + HoldMs => OldIsSeen(t, g)

(* The epoch follows the receiver's generation. *)
Epochs ==
    /\ s_epoch = gen + (IF gpc \in {"low", "high", "flushed", "since"} THEN 0 ELSE 1)
    /\ gpc = "flushed" => pulse_until <= clock
    /\ rpc \notin {"idle", "epoch"} => r_epoch <= s_epoch

Young(f) == clock <= f.at + HoldMs => InFlight(f)

Flight ==
    /\ \A k \in DOMAIN fifo : InFlight(fifo[k])
    /\ \A k \in DOMAIN chunk : InFlight(chunk[k])
    /\ \A k \in DOMAIN held : Young(held[k])

Stamps ==
    /\ \A k \in DOMAIN todo : OldUnlessHeld(chunk_at, todo[k].at, todo[k].gen)
    /\ \A i \in Types : OldUnlessHeld(sample[i].at, sample[i].arrived, sample[i].gen)
    /\ \A i \in Types :
         HasSample(i) => SeenUnlessHeld(r_sample[i].at, r_sample[i].arrived, r_sample[i].gen)

(* What the UART task has seen emptied is empty of older frames: a frame that
   it holds, works on or has stamped is not older than the last request it
   has honoured. *)
Requests ==
    /\ asked = gen + (IF gpc = "idle" THEN 1 ELSE 0)
    /\ chunk_asked <= asked

Emptied ==
    /\ ~s_ingest_reset_req => \A k \in DOMAIN held : asked <= held[k].gen + 1
    /\ upc = "feed" => \A k \in DOMAIN held : chunk_asked <= held[k].gen + 1
    /\ upc \in {"stamp", "tag"} => \A k \in DOMAIN todo : chunk_asked <= todo[k].gen + 1

Honoured ==
    /\ \A i \in Types : sample[i].asked <= sample[i].gen + 1
    /\ \A i \in Types : r_sample[i].asked <= r_sample[i].gen + 1

Generations == Epochs /\ Flight /\ Stamps /\ Requests /\ Emptied /\ Honoured
-----------------------------------------------------------------------------
(* Arithmetic of the wrapped counter: quotient and remainder, for every width. *)
LEMMA ModDef ==
    ASSUME NEW M \in Nat \ {0}, NEW x \in Int
    PROVE  x % M \in 0 .. M - 1 /\ x = M * (x \div M) + (x % M) /\ x \div M \in Int
  BY SMT

(* There is only one remainder. *)
LEMMA ModUnique ==
    ASSUME NEW M \in Nat \ {0}, NEW x \in Int, NEW q \in Int, NEW r \in 0 .. M - 1, x = M * q + r
    PROVE  x % M = r
<1> DEFINE p == x \div M
<1>1. x = M * p + (x % M) /\ x % M \in 0 .. M - 1 /\ p \in Int
  BY ModDef
<1> HIDE DEF p
<1>2. M * (p - q) = r - (x % M)
  BY <1>1, SMT
<1>3. p - q >= 1 => M * (p - q) >= M
  BY <1>1, SMT
<1>4. p - q <= -1 => M * (p - q) <= -M
  BY <1>1, SMT
<1>5. p = q
  BY <1>1, <1>2, <1>3, <1>4, SMT
<1>6. QED
  BY <1>1, <1>2, <1>5, SMT

(* The difference of two wrapped readings is the wrapped difference. *)
LEMMA ModDiff ==
    ASSUME NEW M \in Nat \ {0}, NEW a \in Int, NEW b \in Int
    PROVE  ((b % M) - (a % M)) % M = (b - a) % M
<1> DEFINE p == (b \div M) - (a \div M)
           q == (b - a) \div M
<1>1. b - a = M * q + ((b - a) % M) /\ q \in Int /\ (b - a) % M \in 0 .. M - 1
  BY ModDef, SMTT(30)
<1>2. (b % M) - (a % M) = (b - a) - M * p /\ p \in Int /\ b % M \in Int /\ a % M \in Int
  <2>1. a = M * (a \div M) + (a % M) /\ a \div M \in Int /\ a % M \in Int
    BY ModDef
  <2>2. b = M * (b \div M) + (b % M) /\ b \div M \in Int /\ b % M \in Int
    BY ModDef
  <2>3. M * p = M * (b \div M) - M * (a \div M)
    BY <2>1, <2>2, SMT
  <2>4. QED
    BY <2>1, <2>2, <2>3, SMT
<1> HIDE DEF p, q
<1>3. /\ (b % M) - (a % M) = M * (q - p) + ((b - a) % M)
      /\ (b % M) - (a % M) \in Int /\ q - p \in Int
  BY <1>1, <1>2, SMT
<1>4. QED
  BY <1>1, <1>3, ModUnique, Zenon

(* A small difference is read as it is, a small negative one as a large one. *)
LEMMA ModSmall ==
    ASSUME NEW M \in Nat \ {0}, NEW d \in Int, -M <= d, d < M
    PROVE  d % M = IF d >= 0 THEN d ELSE d + M
<1>1. CASE d >= 0
  BY <1>1, ModUnique, SMT
<1>2. CASE d < 0
  <2>1. d = M * (-1) + (d + M) /\ d + M \in 0 .. M - 1
    BY <1>2, SMT
  <2>2. d % M = d + M
    BY <2>1, ModUnique
  <2>3. QED
    BY <1>2, <2>2, SMT
<1>3. QED
  BY <1>1, <1>2, SMT

(* The constants, as the provers need them. *)
LEMMA Consts ==
    /\ NTypes \in Nat \ {0} /\ Types = 1 .. NTypes /\ 1 \in Types
    /\ \A i \in Types : i \in Nat /\ Budget[i] \in Nat
    /\ Half \in Nat \ {0} /\ ClockMod \in Nat \ {0} /\ ClockMod = 2 * Half
    /\ PulseMs \in Nat \ {0} /\ HoldMs \in Nat /\ HoldMs < 2 * PulseMs
    /\ Uptime0 \in Nat /\ Resets0 \in Nat /\ Since0 \in Nat /\ Since0 <= Uptime0
    /\ MaxTicks \in Nat
  BY FreshnessConstants, SMT DEF Types, ClockMod

(* ntrip_now_ms() differences, for any two times. *)
LEMMA ElapsedIs ==
    ASSUME NEW a \in Nat, NEW b \in Nat
    PROVE  /\ Ms(a) \in Nat
           /\ Elapsed(Ms(a), Ms(b)) = (b - a) % ClockMod
           /\ b - a \in 0 .. ClockMod - 1 => Elapsed(Ms(a), Ms(b)) = b - a
           /\ -ClockMod <= b - a /\ b - a < 0 => Elapsed(Ms(a), Ms(b)) = b - a + ClockMod
           /\ b >= a => Elapsed(Ms(a), Ms(b)) <= b - a
<1>1. ClockMod \in Nat \ {0} /\ a \in Int /\ b \in Int /\ b - a \in Int
  BY Consts, SMT
<1>2. Ms(a) \in Nat
  BY <1>1, ModDef, SMT DEF Ms
<1>3. Elapsed(Ms(a), Ms(b)) = (b - a) % ClockMod
  BY <1>1, ModDiff DEF Ms, Elapsed
<1>4. b - a \in 0 .. ClockMod - 1 => Elapsed(Ms(a), Ms(b)) = b - a
  <2>1. HAVE b - a \in 0 .. ClockMod - 1
  <2>2. -ClockMod <= b - a /\ b - a < ClockMod /\ b - a >= 0
    BY <1>1, <2>1, SMT
  <2>3. QED
    BY <1>1, <1>3, <2>2, ModSmall, Zenon
<1>5. -ClockMod <= b - a /\ b - a < 0 => Elapsed(Ms(a), Ms(b)) = b - a + ClockMod
  <2>1. HAVE -ClockMod <= b - a /\ b - a < 0
  <2>2. b - a < ClockMod /\ ~(b - a >= 0)
    BY <1>1, <2>1, SMT
  <2>3. QED
    BY <1>1, <1>3, <2>1, <2>2, ModSmall, Zenon
<1>6. b >= a => Elapsed(Ms(a), Ms(b)) <= b - a
  <2>1. CASE b - a < ClockMod
    BY <1>1, <1>4, <2>1, SMT
  <2>2. CASE b - a >= ClockMod
    <3>1. (b - a) % ClockMod \in 0 .. ClockMod - 1
      BY <1>1, ModDef
    <3>2. QED
      BY <1>1, <1>3, <2>2, <3>1, SMT
  <2>3. QED
    BY <1>1, <2>1, <2>2, SMT
<1>7. QED
  BY <1>2, <1>3, <1>4, <1>5, <1>6

(* What the parser emits and what it keeps of the frames in its buffer. *)
LEMMA Split ==
    ASSUME NEW s \in Seq(Frame), NEW k \in 0 .. Len(s)
    PROVE  /\ SubSeq(s, 1, k) \in Seq(Frame) /\ Len(SubSeq(s, 1, k)) = k
           /\ \A j \in 1 .. k : SubSeq(s, 1, k)[j] = s[j]
           /\ SubSeq(s, k + 1, Len(s)) \in Seq(Frame)
           /\ \A j \in DOMAIN SubSeq(s, k + 1, Len(s)) :
                k + j \in 1 .. Len(s) /\ SubSeq(s, k + 1, Len(s))[j] = s[k + j]
<1>1. Len(s) \in Nat /\ \A j \in 1 .. Len(s) : s[j] \in Frame
  BY LenProperties, ElementOfSeq
<1>2. SubSeq(s, 1, k) \in Seq(Frame) /\ Len(SubSeq(s, 1, k)) = k
      /\ \A j \in 1 .. k : SubSeq(s, 1, k)[j] = s[j]
  <2>1. 1 \in Int /\ k \in Int /\ \A j \in 1 .. k : s[j] \in Frame
    BY <1>1, SMT
  <2>2. /\ SubSeq(s, 1, k) \in Seq(Frame)
        /\ Len(SubSeq(s, 1, k)) = IF 1 <= k THEN k - 1 + 1 ELSE 0
        /\ \A j \in 1 .. k - 1 + 1 : SubSeq(s, 1, k)[j] = s[1 + j - 1]
    BY <2>1, SubSeqProperties
  <2>3. k - 1 + 1 = k /\ \A j \in 1 .. k : 1 + j - 1 = j
    BY <1>1, SMT
  <2>4. Len(SubSeq(s, 1, k)) = k
    BY <1>1, <2>2, SMT
  <2>5. QED
    BY <2>2, <2>3, <2>4, Zenon
<1>3. SubSeq(s, k + 1, Len(s)) \in Seq(Frame)
      /\ \A j \in DOMAIN SubSeq(s, k + 1, Len(s)) :
           k + j \in 1 .. Len(s) /\ SubSeq(s, k + 1, Len(s))[j] = s[k + j]
  <2> DEFINE m == k + 1
             n == Len(s)
             t == SubSeq(s, m, n)
  <2>1. m \in Int /\ n \in Int /\ \A j \in m .. n : s[j] \in Frame
    BY <1>1, SMT
  <2> HIDE DEF m, n
  <2>2. /\ t \in Seq(Frame)
        /\ Len(t) = IF m <= n THEN n - m + 1 ELSE 0
        /\ \A j \in 1 .. n - m + 1 : t[j] = s[m + j - 1]
    BY <2>1, SubSeqProperties
  <2>3. DOMAIN t = 1 .. Len(t)
    BY <2>2, LenProperties, Zenon
  <2> HIDE DEF t
  <2>4. ASSUME NEW j \in DOMAIN t PROVE k + j \in 1 .. n /\ t[j] = s[k + j]
    <3>1. j \in 1 .. n - m + 1 /\ j \in Int
      BY <2>1, <2>2, <2>3, SMT
    <3>2. m + j - 1 = k + j /\ k + j \in 1 .. n
      BY <1>1, <2>1, <3>1, SMT DEF m, n
    <3>3. QED
      BY <2>2, <3>1, <3>2, Zenon
  <2>5. QED
    BY <2>2, <2>4, Zenon DEF t, m, n
<1>5. QED
  BY <1>2, <1>3, Zenon

(* Sequences of frames, as the provers need them. *)
LEMMA Frames ==
    ASSUME NEW s \in Seq(Frame)
    PROVE  /\ Len(s) \in Nat /\ DOMAIN s = 1 .. Len(s)
           /\ \A k \in DOMAIN s : s[k] \in Frame
           /\ s # <<>> => /\ Head(s) = s[1] /\ 1 \in DOMAIN s /\ Head(s) \in Frame
                          /\ Tail(s) \in Seq(Frame) /\ Len(Tail(s)) = Len(s) - 1
                          /\ \A k \in DOMAIN Tail(s) : k + 1 \in DOMAIN s /\ Tail(s)[k] = s[k + 1]
<1>1. Len(s) \in Nat /\ DOMAIN s = 1 .. Len(s) /\ \A k \in DOMAIN s : s[k] \in Frame
  BY LenProperties, ElementOfSeq
<1>2. ASSUME s # <<>>
      PROVE  /\ Head(s) = s[1] /\ 1 \in DOMAIN s /\ Head(s) \in Frame
             /\ Tail(s) \in Seq(Frame) /\ Len(Tail(s)) = Len(s) - 1
             /\ \A k \in DOMAIN Tail(s) : k + 1 \in DOMAIN s /\ Tail(s)[k] = s[k + 1]
  <2>1. /\ Head(s) \in Frame /\ Tail(s) \in Seq(Frame) /\ Len(Tail(s)) = Len(s) - 1
        /\ \A k \in 1 .. Len(Tail(s)) : Tail(s)[k] = s[k + 1]
    BY <1>2, HeadTailProperties
  <2>2. DOMAIN Tail(s) = 1 .. Len(Tail(s))
    BY <2>1, LenProperties
  <2>3. Len(s) # 0
    BY <1>1, <1>2, EmptySeq, SMT
  <2>4. Head(s) = s[1]
    BY <1>2, SMT
  <2>5. 1 \in DOMAIN s /\ \A k \in DOMAIN Tail(s) : k + 1 \in DOMAIN s
    BY <1>1, <2>1, <2>2, <2>3, SMT
  <2>6. QED
    BY <2>1, <2>2, <2>4, <2>5
<1>3. QED
  BY <1>1, <1>2

(* The type invariant by task. *)
SharedT ==
    /\ s_msg_last_ms \in [Types -> Nat] /\ s_msg_epoch \in [Types -> Nat]
    /\ s_epoch \in Nat /\ s_epoch_started_ms \in Nat /\ s_ingest_reset_req \in BOOLEAN
    /\ sample \in [Types -> Sample] /\ since_at \in Nat /\ asked \in Nat
ReceiverT == gen \in Nat /\ fifo \in Seq(Frame) /\ emitted \in Nat
UartT ==
    /\ upc \in {"read", "ingest", "feed", "stamp", "tag"}
    /\ chunk \in Seq(Frame) /\ todo \in Seq(Frame) /\ held \in Seq(Frame)
    /\ upc \in {"stamp", "tag"} => todo # <<>>
    /\ chunk_now \in Nat /\ chunk_at \in Nat /\ read_at \in Nat /\ chunk_asked \in Nat
GnssT ==
    /\ gpc \in {"idle", "low", "high", "flushed", "since", "bumped"}
    /\ pulse_until \in Nat
ReaderT ==
    /\ rpc \in {"idle", "epoch", "since", "last", "tag", "final", "done"}
    /\ r_now \in Nat /\ r_epoch \in Nat /\ r_since \in Nat /\ r_last \in Nat
    /\ r_type \in Types
    /\ fresh \in [Types -> BOOLEAN] /\ all_fresh \in BOOLEAN /\ verdicts \in Nat
    /\ r_sample \in [Types -> Sample]
    /\ r_at \in Nat /\ r_since_at \in Nat /\ r_good \subseteq Types

LEMMA TypeParts ==
    TypeOK <=> clock \in Nat /\ SharedT /\ ReceiverT /\ UartT /\ GnssT /\ ReaderT
  BY Zenon DEF TypeOK, SharedT, ReceiverT, UartT, GnssT, ReaderT

LEMMA TypePartsNext ==
    clock' \in Nat /\ SharedT' /\ ReceiverT' /\ UartT' /\ GnssT' /\ ReaderT' => TypeOK'
  BY Zenon DEF TypeOK, SharedT, ReceiverT, UartT, GnssT, ReaderT

(* What an action leaves alone keeps its type. *)
LEMMA TypeFrames ==
    ASSUME TypeOK
    PROVE  /\ UNCHANGED clock => clock' \in Nat
           /\ UNCHANGED shared => SharedT'
           /\ UNCHANGED receiver => ReceiverT'
           /\ UNCHANGED uart => UartT'
           /\ UNCHANGED gnss => GnssT'
           /\ UNCHANGED reader => ReaderT'
  BY TypeParts, Zenon DEF SharedT, ReceiverT, UartT, GnssT, ReaderT, shared, receiver, uart,
     gnss, reader

(* Every step keeps the types. *)
LEMMA TypeStep == ASSUME TypeOK, [Next]_vars PROVE TypeOK'
<1> USE Consts, TypeParts DEF Frame, Sample
<1>1. CASE Tick
  <2>1. clock' \in Nat
    BY <1>1 DEF Tick
  <2>2. QED
    BY <1>1, <2>1, TypeFrames, TypePartsNext, Zenon DEF Tick
<1>2. CASE ReceiverEmits
  <2>1. ReceiverT'
    BY <1>2 DEF ReceiverEmits, ReceiverT, receiver
  <2>2. QED
    BY <1>2, <2>1, TypeFrames, TypePartsNext, Zenon DEF ReceiverEmits
<1>3. CASE UartRead
  <2>1. ReceiverT'
    BY <1>3 DEF UartRead, ReceiverT, ReceiverT, receiver
  <2>2. UartT'
    BY <1>3 DEF UartRead, ReceiverT, UartT, uart
  <2>3. QED
    BY <1>3, <2>1, <2>2, TypeFrames, TypePartsNext, Zenon DEF UartRead
<1>4. CASE IngestHonoursReset
  <2>1. SharedT'
    BY <1>4 DEF IngestHonoursReset, SharedT, shared
  <2>2. UartT'
    <3>1. held' \in {held, <<>>} /\ upc' = "feed" /\ chunk_asked' = asked
      BY <1>4, Zenon DEF IngestHonoursReset
    <3>2. held' \in Seq(Frame) /\ chunk_asked' \in Nat
      BY <3>1, EmptySeq, Zenon DEF UartT, SharedT
    <3>3. upc' # "stamp" /\ upc' # "tag"
      BY <3>1, SMT
    <3>4. QED
      BY <1>4, <3>1, <3>2, <3>3, Zenon DEF IngestHonoursReset, UartT
  <2>3. QED
    BY <1>4, <2>1, <2>2, TypeFrames, TypePartsNext, Zenon DEF IngestHonoursReset
<1>5. CASE IngestFeed
  <2> DEFINE all == held \o chunk
  <2>1. all \in Seq(Frame) /\ Ms(clock) \in Nat /\ clock \in Nat
    BY ConcatProperties, ElapsedIs DEF UartT
  <2>2. PICK k \in 0 .. Len(all) : /\ todo' = SubSeq(all, 1, k)
                                  /\ held' = SubSeq(all, k + 1, Len(all))
                                  /\ upc' = IF k = 0 THEN "read" ELSE "stamp"
    BY <1>5, Zenon DEF IngestFeed
  <2>3. todo' \in Seq(Frame) /\ Len(todo') = k /\ held' \in Seq(Frame)
    BY <2>1, <2>2, Split, Zenon
  <2>4. /\ chunk' = <<>> /\ chunk_now' = Ms(clock) /\ chunk_at' = clock /\ read_at' = 0
        /\ chunk_asked' = chunk_asked
    BY <1>5, Zenon DEF IngestFeed
  <2>5. UartT'
    BY <2>1, <2>2, <2>3, <2>4, EmptySeq DEF UartT
  <2>6. QED
    BY <1>5, <2>5, TypeFrames, TypePartsNext, Zenon DEF IngestFeed
<1>6. CASE OnFrameStamps
  <2> DEFINE f == Head(todo)
  <2> DEFINE e == [gen |-> f.gen, at |-> chunk_at, arrived |-> f.at, asked |-> chunk_asked]
  <2>1. f \in Frame /\ chunk_now \in Nat /\ chunk_at \in Nat /\ chunk_asked \in Nat
    BY <1>6, Frames DEF UartT, OnFrameStamps
  <2>2. f.type \in Types /\ e \in Sample
    BY <2>1
  <2>3. /\ s_msg_last_ms' = [s_msg_last_ms EXCEPT ![f.type] = chunk_now]
        /\ sample' = [sample EXCEPT ![f.type] = e]
        /\ UNCHANGED <<s_msg_epoch, s_epoch, s_epoch_started_ms, since_at, asked,
                       s_ingest_reset_req>>
    BY <1>6, Zenon DEF OnFrameStamps
  <2> HIDE DEF f, e
  <2>4. SharedT'
    BY <2>1, <2>2, <2>3, Zenon DEF SharedT
  <2>5. UartT'
    BY <1>6 DEF OnFrameStamps, UartT
  <2>6. QED
    BY <1>6, <2>4, <2>5, TypeFrames, TypePartsNext, Zenon DEF OnFrameStamps
<1>7. CASE OnFrameTags
  <2>1. SharedT'
    BY <1>7 DEF OnFrameTags, UartT, SharedT, SharedT, shared
  <2>2. UartT'
    <3>1. todo \in Seq(Frame) /\ todo # <<>> /\ todo' = Tail(todo)
      BY <1>7 DEF OnFrameTags, UartT
    <3>2. todo' \in Seq(Frame) /\ Len(todo') = Len(todo) - 1 /\ Len(todo) \in Nat
      BY <3>1, Frames, Zenon
    <3>3. Len(todo) # 1 => todo' # <<>>
      BY <3>2, EmptySeq, SMT
    <3>4. QED
      BY <1>7, <3>2, <3>3, Zenon DEF OnFrameTags, UartT
  <2>3. QED
    BY <1>7, <2>1, <2>2, TypeFrames, TypePartsNext, Zenon DEF OnFrameTags
<1>8. CASE ResetLow
  <2>1. ReceiverT'
    BY <1>8 DEF ResetLow, ReceiverT, receiver
  <2>2. GnssT'
    BY <1>8 DEF ResetLow, GnssT, gnss
  <2>3. QED
    BY <1>8, <2>1, <2>2, TypeFrames, TypePartsNext, Zenon DEF ResetLow
<1>9. CASE ResetHigh
  <2>1. GnssT'
    BY <1>9 DEF ResetHigh, GnssT, gnss
  <2>2. QED
    BY <1>9, <2>1, TypeFrames, TypePartsNext, Zenon DEF ResetHigh
<1>10. CASE Flush
  <2>1. ReceiverT'
    BY <1>10 DEF Flush, ReceiverT, receiver
  <2>2. GnssT'
    BY <1>10 DEF Flush, GnssT, gnss
  <2>3. QED
    BY <1>10, <2>1, <2>2, TypeFrames, TypePartsNext, Zenon DEF Flush
<1>11. CASE EpochSince
  <2>1. SharedT'
    <3>1. Ms(clock) \in Nat
      BY ElapsedIs
    <3>2. QED
      BY <1>11, <3>1, Zenon DEF EpochSince, SharedT
  <2>2. GnssT'
    BY <1>11 DEF EpochSince, GnssT, gnss
  <2>3. QED
    BY <1>11, <2>1, <2>2, TypeFrames, TypePartsNext, Zenon DEF EpochSince
<1>12. CASE EpochBump
  <2>1. SharedT'
    <3>1. s_epoch' \in Nat
      <4>1. s_epoch' = s_epoch + 1 /\ s_epoch \in Nat
        BY <1>12, Zenon DEF EpochBump, SharedT
      <4>2. QED
        BY <4>1, SMT
    <3>2. QED
      BY <1>12, <3>1, Zenon DEF EpochBump, SharedT
  <2>2. GnssT'
    BY <1>12 DEF EpochBump, GnssT, gnss
  <2>3. QED
    BY <1>12, <2>1, <2>2, TypeFrames, TypePartsNext, Zenon DEF EpochBump
<1>13. CASE EpochRequest
  <2>1. SharedT'
    BY <1>13 DEF EpochRequest, SharedT, shared
  <2>2. GnssT'
    BY <1>13 DEF EpochRequest, GnssT, gnss
  <2>3. QED
    BY <1>13, <2>1, <2>2, TypeFrames, TypePartsNext, Zenon DEF EpochRequest
<1>14. CASE VerdictNow
  <2>1. ReaderT'
    <3>1. r_now' \in Nat /\ r_at' \in Nat
      BY <1>14, ElapsedIs, Zenon DEF VerdictNow
    <3>2. verdicts' \in Nat
      <4>1. verdicts' = verdicts + 1 /\ verdicts \in Nat
        BY <1>14, Zenon DEF VerdictNow, ReaderT
      <4>2. QED
        BY <4>1, SMT
    <3>3. r_good' \subseteq Types
      BY <1>14, Zenon DEF VerdictNow
    <3>4. QED
      BY <1>14, <3>1, <3>2, <3>3, Zenon DEF VerdictNow, ReaderT
  <2>2. QED
    BY <1>14, <2>1, TypeFrames, TypePartsNext, Zenon DEF VerdictNow
<1>15. CASE VerdictEpoch
  <2>1. ReaderT'
    BY <1>15 DEF VerdictEpoch, SharedT, ReaderT, reader
  <2>2. QED
    BY <1>15, <2>1, TypeFrames, TypePartsNext, Zenon DEF VerdictEpoch
<1>16. CASE VerdictSince
  <2>1. ReaderT'
    BY <1>16 DEF VerdictSince, SharedT, ReaderT, reader
  <2>2. QED
    BY <1>16, <2>1, TypeFrames, TypePartsNext, Zenon DEF VerdictSince
<1>17. CASE VerdictLast
  <2>1. ReaderT'
    BY <1>17 DEF VerdictLast, SharedT, ReaderT, reader
  <2>2. QED
    BY <1>17, <2>1, TypeFrames, TypePartsNext, Zenon DEF VerdictLast
<1>18. CASE VerdictTag
  <2>1. ReaderT'
    <3>1. r_type' \in Types
      <4>1. r_type' = (IF r_type = NTypes THEN 1 ELSE r_type + 1) /\ r_type \in Types
        BY <1>18, Zenon DEF VerdictTag, ReaderT
      <4>2. QED
        BY <4>1, SMT
    <3>2. fresh' \in [Types -> BOOLEAN] /\ all_fresh' \in BOOLEAN
      BY <1>18, Zenon DEF VerdictTag, ReaderT, InEpoch, WithinBudget
    <3>3. rpc' \in {"final", "last"}
      BY <1>18, Zenon DEF VerdictTag
    <3>4. QED
      BY <1>18, <3>1, <3>2, <3>3, Zenon DEF VerdictTag, ReaderT
  <2>2. QED
    BY <1>18, <2>1, TypeFrames, TypePartsNext, Zenon DEF VerdictTag
<1>19. CASE VerdictFinal
  <2>1. ReaderT'
    BY <1>19 DEF VerdictFinal, ReaderT, reader
  <2>2. QED
    BY <1>19, <2>1, TypeFrames, TypePartsNext, Zenon DEF VerdictFinal
<1>20. CASE VerdictReturns
  <2>1. ReaderT'
    BY <1>20 DEF VerdictReturns, ReaderT, reader
  <2>2. QED
    BY <1>20, <2>1, TypeFrames, TypePartsNext, Zenon DEF VerdictReturns
<1>21. CASE UNCHANGED vars
  BY <1>21, TypeFrames, TypePartsNext, Zenon DEF vars
<1>22. QED
  BY <1>1, <1>2, <1>3, <1>4, <1>5, <1>6, <1>7, <1>8, <1>9, <1>10, <1>11, <1>12,
     <1>13, <1>14, <1>15, <1>16, <1>17, <1>18, <1>19, <1>20, <1>21 DEF Next,
     UartTask, GnssTask, Verdict

(* Every 32-bit word keeps its meaning. *)
LEMMA WordsStep == ASSUME BaseInv, [Next]_vars PROVE Words'
<1> USE Consts, TypeParts DEF BaseInv, Words, SharedT, UartT, ReaderT, GnssT,
   shared, receiver, uart, gnss, reader, vars
<1>1. CASE Tick
  BY <1>1 DEF Tick
<1>2. CASE ReceiverEmits
  BY <1>2 DEF ReceiverEmits
<1>3. CASE UartRead
  BY <1>3 DEF UartRead
<1>4. CASE IngestHonoursReset
  BY <1>4 DEF IngestHonoursReset
<1>5. CASE IngestFeed
  BY <1>5 DEF IngestFeed
<1>6. CASE OnFrameStamps
  BY <1>6 DEF OnFrameStamps
<1>7. CASE OnFrameTags
  BY <1>7 DEF OnFrameTags
<1>8. CASE ResetLow
  BY <1>8 DEF ResetLow
<1>9. CASE ResetHigh
  BY <1>9 DEF ResetHigh
<1>10. CASE Flush
  BY <1>10 DEF Flush
<1>11. CASE EpochSince
  BY <1>11 DEF EpochSince
<1>12. CASE EpochBump
  BY <1>12 DEF EpochBump
<1>13. CASE EpochRequest
  BY <1>13 DEF EpochRequest
<1>14. CASE VerdictNow
  BY <1>14 DEF VerdictNow
<1>15. CASE VerdictEpoch
  BY <1>15 DEF VerdictEpoch
<1>16. CASE VerdictSince
  BY <1>16 DEF VerdictSince
<1>17. CASE VerdictLast
  BY <1>17 DEF VerdictLast
<1>18. CASE VerdictTag
  BY <1>18 DEF VerdictTag
<1>19. CASE VerdictFinal
  BY <1>19 DEF VerdictFinal
<1>20. CASE VerdictReturns
  BY <1>20 DEF VerdictReturns
<1>21. CASE UNCHANGED vars
  BY <1>21 DEF vars
<1>22. QED
  BY <1>1, <1>2, <1>3, <1>4, <1>5, <1>6, <1>7, <1>8, <1>9, <1>10, <1>11, <1>12,
     <1>13, <1>14, <1>15, <1>16, <1>17, <1>18, <1>19, <1>20, <1>21 DEF Next,
     UartTask, GnssTask, Verdict

(* The times, as the provers need them. *)
LEMMA TimeTypes ==
    ASSUME BaseInv
    PROVE  /\ clock \in Nat /\ since_at \in Nat /\ chunk_at \in Nat /\ r_at \in Nat
           /\ r_since_at \in Nat /\ pulse_until \in Nat /\ r_type \in Types
           /\ \A i \in Types : sample[i].at \in Nat /\ r_sample[i].at \in Nat
  BY TypeParts DEF BaseInv, SharedT, UartT, ReaderT, GnssT, Sample

(* Time goes forward for everybody. *)
LEMMA TimesStep == ASSUME BaseInv, [Next]_vars PROVE Times'
<1> USE Consts, TimeTypes DEF BaseInv, Times, shared, receiver, uart, gnss, reader,
   vars
<1>1. CASE Tick
  <2>1. clock' = clock + 1 /\ clock < Uptime0 + MaxTicks /\ UNCHANGED <<shared, receiver, uart, gnss, reader>>
    BY <1>1, Zenon DEF Tick
  <2>2. r_sample'[r_type'].at = r_sample[r_type].at /\ r_sample[r_type].at \in Nat
    BY <2>1
  <2> DEFINE a == r_sample[r_type].at
  <2> HIDE DEF a
  <2>3. (rpc = "tag" => a \in Since0 .. clock) /\ r_sample'[r_type'].at = a /\ a \in Nat
    BY <2>2 DEF a
  <2>4. (rpc' = "tag" => r_sample'[r_type'].at \in Since0 .. clock')
    BY <2>1, <2>3
  <2>5. \A i \in Types : sample'[i].at \in Since0 .. clock'
    BY <2>1, SMTT(30)
  <2>6. /\ clock' \in Uptime0 .. Uptime0 + MaxTicks
        /\ since_at' \in Since0 .. clock' /\ chunk_at' <= clock' /\ r_at' <= clock'
        /\ rpc \notin {"idle", "epoch", "since"} => r_since_at' \in Since0 .. clock'
    BY <2>1
  <2>7. QED
    BY <2>1, <2>4, <2>5, <2>6, Zenon
<1>2. CASE ReceiverEmits
  BY <1>2 DEF ReceiverEmits
<1>3. CASE UartRead
  BY <1>3 DEF UartRead
<1>4. CASE IngestHonoursReset
  BY <1>4 DEF IngestHonoursReset
<1>5. CASE IngestFeed
  <2>1. chunk_at' = clock /\ upc' \in {"read", "stamp"}
    BY <1>5, Zenon DEF IngestFeed
  <2>2. UNCHANGED <<clock, shared, gnss, reader>>
    BY <1>5, Zenon DEF IngestFeed
  <2>3. QED
    BY <2>1, <2>2
<1>6. CASE OnFrameStamps
  <2>1. \A i \in Types : sample'[i].at \in {sample[i].at, chunk_at}
    BY <1>6, TypeParts DEF OnFrameStamps, SharedT
  <2>2. UNCHANGED <<clock, since_at, chunk_at, gnss, reader>> /\ upc = "stamp" /\ upc' = "tag"
    BY <1>6, Zenon DEF OnFrameStamps, uart
  <2>3. ASSUME NEW i \in Types PROVE sample'[i].at \in Since0 .. clock /\ sample'[i].at <= chunk_at
    <3>1. CASE sample'[i].at = sample[i].at
      BY <2>2, <3>1
    <3>2. CASE sample'[i].at = chunk_at
      BY <2>2, <3>2
    <3>3. QED
      BY <2>1, <3>1, <3>2, Zenon
  <2>4. QED
    BY <2>2, <2>3
<1>7. CASE OnFrameTags
  BY <1>7 DEF OnFrameTags
<1>8. CASE ResetLow
  BY <1>8 DEF ResetLow
<1>9. CASE ResetHigh
  BY <1>9 DEF ResetHigh
<1>10. CASE Flush
  BY <1>10 DEF Flush
<1>11. CASE EpochSince
  BY <1>11 DEF EpochSince
<1>12. CASE EpochBump
  BY <1>12 DEF EpochBump
<1>13. CASE EpochRequest
  BY <1>13 DEF EpochRequest
<1>14. CASE VerdictNow
  BY <1>14 DEF VerdictNow
<1>15. CASE VerdictEpoch
  BY <1>15 DEF VerdictEpoch
<1>16. CASE VerdictSince
  BY <1>16 DEF VerdictSince
<1>17. CASE VerdictLast
  <2>1. r_sample'[r_type'].at = sample[r_type].at
    BY <1>17, TypeParts DEF VerdictLast, ReaderT
  <2>2. UNCHANGED <<clock, shared, uart, r_at, r_since_at>> /\ rpc = "last" /\ rpc' = "tag"
    BY <1>17, Zenon DEF VerdictLast
  <2>3. QED
    BY <2>1, <2>2
<1>18. CASE VerdictTag
  BY <1>18 DEF VerdictTag
<1>19. CASE VerdictFinal
  BY <1>19 DEF VerdictFinal
<1>20. CASE VerdictReturns
  BY <1>20 DEF VerdictReturns
<1>21. CASE UNCHANGED vars
  BY <1>21 DEF vars
<1>22. QED
  BY <1>1, <1>2, <1>3, <1>4, <1>5, <1>6, <1>7, <1>8, <1>9, <1>10, <1>11, <1>12,
     <1>13, <1>14, <1>15, <1>16, <1>17, <1>18, <1>19, <1>20, <1>21 DEF Next,
     UartTask, GnssTask, Verdict

(* The state all three tasks keep. *)
LEMMA BaseInit == Init => BaseInv
<1> SUFFICES ASSUME Init PROVE BaseInv
  OBVIOUS
<1>1. Ms(Since0) \in Nat /\ Ms(0) = 0
  <2>1. Ms(Since0) \in Nat
    BY Consts, ElapsedIs
  <2>2. Ms(0) = 0
    BY Consts, ModSmall, SMT DEF Ms
  <2>3. QED
    BY <2>1, <2>2
<1>2. TypeOK
  <2>1. <<>> \in Seq(Frame) /\ NoSample \in Sample
    BY EmptySeq DEF NoSample, Sample
  <2>2. [gen |-> IF Resets0 = 0 THEN 0 ELSE Resets0 - 1, at |-> Since0,
         arrived |-> Since0, asked |-> 0] \in Sample
    BY Consts DEF Sample
  <2>3. clock \in Nat /\ SharedT
    <3>1. Resets0 + 1 \in Nat /\ Since0 \in Nat /\ Uptime0 \in Nat /\ Resets0 \in Nat
      BY Consts
    <3>2. QED
      BY <1>1, <2>2, <3>1, Zenon DEF Init, SharedT
  <2>4. ReceiverT /\ UartT
    BY Consts, <2>1 DEF Init, ReceiverT, UartT
  <2>5. GnssT /\ ReaderT
    BY Consts, <2>1 DEF Init, GnssT, ReaderT
  <2>6. QED
    BY <2>3, <2>4, <2>5, TypeParts, Zenon
<1>3. Words
  BY <1>1, Zenon DEF Init, Words
<1>4. Times
  BY Consts DEF Init, Times
<1>5. QED
  BY <1>2, <1>3, <1>4 DEF BaseInv

LEMMA BaseStep == ASSUME BaseInv, [Next]_vars PROVE BaseInv'
  BY TypeStep, WordsStep, TimesStep DEF BaseInv

(* The three tasks keep the types of their words, for every interleaving. *)
THEOREM TypeCorrect == Spec => []TypeOK
<1>1. Init => BaseInv
  BY BaseInit
<1>2. BaseInv /\ [Next]_vars => BaseInv'
  BY BaseStep
<1>3. BaseInv => TypeOK
  BY DEF BaseInv
<1>4. QED
  BY <1>1, <1>2, <1>3, PTL DEF Spec

(* The two wrapped comparisons of a verdict compare the real times. *)
LEMMA TagIsRecent ==
    ASSUME BaseInv, Window, rpc = "tag", NEW t, InEpoch(t), WithinBudget(r_type)
    PROVE  RecentOne(r_type)
<1> DEFINE a == r_sample[r_type].at
<1>1. r_type \in Types /\ Budget[r_type] \in Nat /\ Budget[r_type] < Half
  BY Consts, TypeParts DEF BaseInv, ReaderT, Window
<1>2. /\ a \in Since0 .. clock /\ r_since_at \in Since0 .. clock /\ r_at \in Uptime0 .. clock
      /\ clock <= Uptime0 + MaxTicks /\ clock \in Nat
  BY TimeTypes, Consts DEF BaseInv, Times
<1>3. a \in Nat /\ r_since_at \in Nat /\ r_at \in Nat
  BY TimeTypes, <1>1
<1>4. r_last = Ms(a) /\ r_since = Ms(r_since_at) /\ r_now = Ms(r_at)
  BY DEF BaseInv, Words
<1> HIDE DEF a
<1>5. /\ Elapsed(r_since, r_last) \in 1 .. Half - 1
      /\ Elapsed(r_last, r_now) <= Budget[r_type]
  BY Zenon DEF InEpoch, After, WithinBudget
<1>6. clock - Since0 <= Half
  BY <1>2, Consts DEF Window
<1>7. a > r_since_at
  <2>1. CASE a - r_since_at < 0
    <3>1. -ClockMod <= a - r_since_at
      BY <1>2, <1>3, <1>6, Consts
    <3>2. Elapsed(r_since, r_last) = a - r_since_at + ClockMod
      BY <1>3, <1>4, <2>1, <3>1, ElapsedIs
    <3>3. QED
      BY <1>2, <1>3, <1>5, <1>6, <3>2, Consts
  <2>2. CASE a = r_since_at
    <3>1. a - r_since_at \in 0 .. ClockMod - 1 /\ a - r_since_at = 0
      BY <1>3, <2>2, Consts
    <3>2. Elapsed(r_since, r_last) = 0
      BY <1>3, <1>4, <3>1, ElapsedIs, Zenon
    <3>3. QED
      BY <1>5, <3>2, Consts
  <2>3. QED
    BY <1>3, <2>1, <2>2
<1>8. r_at - a \in 0 .. Budget[r_type]
  <2>1. CASE r_at - a < 0
    <3>1. -ClockMod <= r_at - a
      BY <1>2, <1>3, <1>6, Consts
    <3>2. Elapsed(r_last, r_now) = r_at - a + ClockMod
      BY <1>3, <1>4, <2>1, <3>1, ElapsedIs
    <3>3. QED
      BY <1>1, <1>2, <1>3, <1>5, <1>6, <3>2, Consts
  <2>2. CASE r_at - a >= 0
    <3>1. r_at - a \in 0 .. ClockMod - 1
      BY <1>2, <1>3, <1>6, <2>2, Consts
    <3>2. Elapsed(r_last, r_now) = r_at - a
      BY <1>3, <1>4, <3>1, ElapsedIs
    <3>3. QED
      BY <1>1, <1>3, <1>5, <2>2, <3>2
  <2>3. QED
    BY <1>3, <2>1, <2>2
<1>9. QED
  BY <1>7, <1>8 DEF RecentOne, a

(* A favourable verdict keeps resting on recent samples. *)
LEMMA RecentStep == ASSUME BaseInv, Window, Recent, [Next]_vars PROVE Recent'
<1> USE Consts, TypeParts DEF BaseInv, Recent, Processed, RecentOne, ReaderT, reader
<1>1. CASE Tick
  BY <1>1, Zenon DEF Tick, reader, vars
<1>2. CASE ReceiverEmits
  BY <1>2, Zenon DEF ReceiverEmits, reader, vars
<1>3. CASE UartRead
  BY <1>3, Zenon DEF UartRead, reader, vars
<1>4. CASE IngestHonoursReset
  BY <1>4, Zenon DEF IngestHonoursReset, reader, vars
<1>5. CASE IngestFeed
  BY <1>5, Zenon DEF IngestFeed, reader, vars
<1>6. CASE OnFrameStamps
  BY <1>6, Zenon DEF OnFrameStamps, reader, vars
<1>7. CASE OnFrameTags
  BY <1>7, Zenon DEF OnFrameTags, reader, vars
<1>8. CASE ResetLow
  BY <1>8, Zenon DEF ResetLow, reader, vars
<1>9. CASE ResetHigh
  BY <1>9, Zenon DEF ResetHigh, reader, vars
<1>10. CASE Flush
  BY <1>10, Zenon DEF Flush, reader, vars
<1>11. CASE EpochSince
  BY <1>11, Zenon DEF EpochSince, reader, vars
<1>12. CASE EpochBump
  BY <1>12, Zenon DEF EpochBump, reader, vars
<1>13. CASE EpochRequest
  BY <1>13, Zenon DEF EpochRequest, reader, vars
<1>14. CASE VerdictNow
  BY <1>14 DEF VerdictNow
<1>15. CASE VerdictEpoch
  BY <1>15 DEF VerdictEpoch
<1>16. CASE VerdictSince
  BY <1>16 DEF VerdictSince
<1>17. CASE VerdictLast
  BY <1>17 DEF VerdictLast
<1>18. CASE VerdictTag
  <2>1. rpc = "tag" /\ r_type \in Types
    BY <1>18 DEF VerdictTag
  <2>2. all_fresh' => all_fresh /\ InEpoch(s_msg_epoch[r_type]) /\ WithinBudget(r_type)
    BY <1>18, Zenon DEF VerdictTag
  <2>3. all_fresh' => RecentOne(r_type)
    BY <2>1, <2>2, TagIsRecent
  <2>4. /\ UNCHANGED <<r_at, r_since_at, r_sample>>
        /\ r_type' = IF r_type = NTypes THEN 1 ELSE r_type + 1
        /\ rpc' = IF r_type = NTypes THEN "final" ELSE "last"
    BY <1>18, Zenon DEF VerdictTag
  <2>5. ASSUME NEW i \in Types, Processed(i)', all_fresh' PROVE RecentOne(i)'
    <3>1. i = r_type \/ Processed(i)
      BY <2>1, <2>4, <2>5
    <3>2. RecentOne(i)
      BY <2>1, <2>2, <2>3, <2>5, <3>1, Zenon DEF Recent
    <3>3. QED
      BY <2>4, <3>2, Zenon
  <2>6. QED
    BY <2>5, Zenon DEF Recent
<1>19. CASE VerdictFinal
  BY <1>19 DEF VerdictFinal
<1>20. CASE VerdictReturns
  BY <1>20 DEF VerdictReturns
<1>21. CASE UNCHANGED vars
  BY <1>21, Zenon DEF vars, reader, vars
<1>22. QED
  BY <1>1, <1>2, <1>3, <1>4, <1>5, <1>6, <1>7, <1>8, <1>9, <1>10, <1>11, <1>12,
     <1>13, <1>14, <1>15, <1>16, <1>17, <1>18, <1>19, <1>20, <1>21 DEF Next,
     UartTask, GnssTask, Verdict

(* A type that a favourable verdict calls fresh was seen in the epoch and
   within its budget, whatever the three tasks did meanwhile; the wrapped
   comparisons of ntrip_server_msg_freshness agree with real time for 2^31 ms
   after a reset of the receiver. *)
THEOREM FreshMeansRecent == ASSUME Window PROVE Spec => []FreshIsRecent
<1>1. Init => BaseInv /\ Recent
  BY BaseInit DEF Init, Recent, Processed
<1>2. BaseInv /\ Recent /\ [Next]_vars => (BaseInv /\ Recent)'
  BY BaseStep, RecentStep
<1>3. Recent => FreshIsRecent
  BY DEF Recent, FreshIsRecent, RecentOne, Processed
<1>4. QED
  BY <1>1, <1>2, <1>3, PTL DEF Spec

(* The types the argument about healthy samples needs. *)
LEMMA HealthTypes ==
    ASSUME BaseInv
    PROVE  /\ s_epoch \in Nat /\ r_epoch \in Nat /\ r_good \subseteq Types
           /\ s_msg_epoch \in [Types -> Nat] /\ fresh \in [Types -> BOOLEAN]
           /\ sample \in [Types -> Sample] /\ r_sample \in [Types -> Sample]
  BY TypeParts DEF BaseInv, SharedT, ReaderT

(* A sample that is in the epoch and young enough passes both comparisons. *)
LEMMA HealthyPasses ==
    ASSUME BaseInv, rpc = "tag", s_msg_epoch[r_type] = r_epoch,
           r_sample[r_type].at - r_since_at \in 1 .. Half - 1,
           r_at - r_sample[r_type].at \in 0 .. Budget[r_type]
    PROVE  InEpoch(s_msg_epoch[r_type]) /\ WithinBudget(r_type)
<1> DEFINE a == r_sample[r_type].at
<1>1. a \in Nat /\ r_since_at \in Nat /\ r_at \in Nat /\ r_type \in Types /\ Budget[r_type] \in Nat
  BY TimeTypes, Consts
<1>2. r_last = Ms(a) /\ r_since = Ms(r_since_at) /\ r_now = Ms(r_at)
  BY DEF BaseInv, Words
<1>3. a - r_since_at \in 1 .. Half - 1 /\ r_at - a \in 0 .. Budget[r_type]
  BY DEF a
<1> HIDE DEF a
<1>4. a - r_since_at \in 0 .. ClockMod - 1 /\ r_at >= a
  BY <1>1, <1>3, Consts
<1>5. Elapsed(r_since, r_last) = a - r_since_at
  BY <1>1, <1>2, <1>4, ElapsedIs, Zenon
<1>6. Elapsed(r_last, r_now) <= r_at - a /\ Elapsed(r_last, r_now) \in Int
  <2>1. Elapsed(r_last, r_now) = (r_at - a) % ClockMod /\ Elapsed(r_last, r_now) <= r_at - a
    BY <1>1, <1>2, <1>4, ElapsedIs, Zenon
  <2>2. QED
    BY <1>1, <2>1, Consts, ModDef
<1>7. Elapsed(r_last, r_now) <= Budget[r_type]
  BY <1>1, <1>3, <1>6
<1>8. QED
  BY <1>3, <1>5, <1>7, Zenon DEF InEpoch, After, WithinBudget

(* A healthy type stays healthy until the verdict has dealt with it. *)
LEMMA HealthyStep == ASSUME BaseInv, StaysHealthy, [Next]_vars PROVE StaysHealthy'
<1> USE Consts, TimeTypes, HealthTypes DEF BaseInv, Times, StaysHealthy, HealthyOne,
   HasSample, Processed, shared, receiver, uart, gnss, reader
<1>1. CASE Tick
  BY <1>1 DEF Tick, vars
<1>2. CASE ReceiverEmits
  BY <1>2 DEF ReceiverEmits, vars
<1>3. CASE UartRead
  BY <1>3 DEF UartRead, vars
<1>4. CASE IngestHonoursReset
  BY <1>4 DEF IngestHonoursReset, vars
<1>5. CASE IngestFeed
  BY <1>5 DEF IngestFeed, vars
<1>6. CASE OnFrameStamps
  <2>1. ASSUME NEW i \in Types
        PROVE  sample'[i].at \in {sample[i].at, chunk_at} /\ sample[i].at <= chunk_at
    BY <1>6 DEF OnFrameStamps
  <2>2. UNCHANGED <<clock, s_msg_epoch, s_epoch, since_at, gnss, reader>>
    BY <1>6, Zenon DEF OnFrameStamps
  <2>3. ASSUME NEW i \in Types, rpc # "idle", r_at - sample[i].at <= Budget[i]
        PROVE  r_at - sample'[i].at <= Budget[i]
    <3>1. CASE sample'[i].at = sample[i].at
      BY <2>3, <3>1
    <3>2. CASE sample'[i].at = chunk_at
      <4> DEFINE a == sample[i].at
      <4>1. a \in Nat /\ chunk_at \in Nat /\ r_at \in Nat /\ Budget[i] \in Nat
        BY TimeTypes, Consts, Zenon
      <4>2. a <= chunk_at /\ r_at - a <= Budget[i]
        BY <2>1, <2>3, Zenon
      <4> HIDE DEF a
      <4>3. r_at - chunk_at <= Budget[i]
        BY ONLY <4>1, <4>2, SMT
      <4>4. QED
        BY <3>2, <4>3, Zenon
    <3>3. QED
      BY <2>1, <3>1, <3>2, Zenon
  <2>4. ASSUME NEW i \in r_good PROVE HealthyOne(i)'
    <3>1. i \in Types /\ HealthyOne(i)
      BY <2>4
    <3>2. QED
      BY <2>2, <2>3, <3>1, Zenon DEF HealthyOne, Processed, HasSample
  <2>5. QED
    BY <2>2, <2>4, Zenon DEF StaysHealthy
<1>7. CASE OnFrameTags
  BY <1>7 DEF OnFrameTags, vars
<1>8. CASE ResetLow
  BY <1>8 DEF ResetLow, vars
<1>9. CASE ResetHigh
  BY <1>9 DEF ResetHigh, vars
<1>10. CASE Flush
  BY <1>10 DEF Flush, vars
<1>11. CASE EpochSince
  BY <1>11 DEF EpochSince, vars
<1>12. CASE EpochBump
  <2>1. /\ gpc = "since" /\ gpc' = "bumped" /\ s_epoch' = s_epoch + 1
        /\ UNCHANGED <<clock, s_msg_epoch, sample, since_at, reader>>
    BY <1>12, Zenon DEF EpochBump
  <2>2. rpc \notin {"idle", "epoch"} => r_epoch < s_epoch'
    BY <2>1
  <2>3. ASSUME NEW i \in r_good PROVE HealthyOne(i)'
    <3>1. i \in Types /\ HealthyOne(i)
      BY <2>3
    <3>2. rpc \notin {"idle", "epoch"} => s_epoch' # r_epoch
      BY <2>1, <2>2
    <3>3. QED
      BY <2>1, <3>1, <3>2, Zenon DEF HealthyOne, Processed, HasSample
  <2>4. QED
    BY <2>1, <2>2, <2>3
<1>13. CASE EpochRequest
  BY <1>13 DEF EpochRequest, vars
<1>14. CASE VerdictNow
  <2>1. /\ rpc' = "epoch" /\ r_at' = clock /\ r_good' = {i \in Types : Healthy(i)}
        /\ UNCHANGED <<clock, shared, gnss>>
    BY <1>14, Zenon DEF VerdictNow
  <2>2. ASSUME NEW i \in r_good' PROVE HealthyOne(i)'
    BY <2>1, <2>2, Zenon DEF HealthyOne, Processed, HasSample, Healthy
  <2>3. QED
    BY <2>1, <2>2, Zenon DEF StaysHealthy
<1>15. CASE VerdictEpoch
  BY <1>15 DEF VerdictEpoch, vars
<1>16. CASE VerdictSince
  BY <1>16 DEF VerdictSince, vars
<1>17. CASE VerdictLast
  BY <1>17, SMTT(30) DEF VerdictLast, vars
<1>18. CASE VerdictTag
  <2>1. /\ rpc = "tag" /\ r_type \in Types
        /\ UNCHANGED <<clock, shared, gnss, r_at, r_since_at, r_epoch, r_good, r_sample>>
    BY <1>18 DEF VerdictTag
  <2>2. /\ r_type' = IF r_type = NTypes THEN 1 ELSE r_type + 1
        /\ rpc' = IF r_type = NTypes THEN "final" ELSE "last"
    BY <1>18, Zenon DEF VerdictTag
  <2>3. ASSUME NEW i \in Types, Processed(i)' PROVE i = r_type \/ Processed(i)
    BY <2>1, <2>2, <2>3
  <2>4. ASSUME NEW i \in Types PROVE HasSample(i)' => HasSample(i)
    BY <2>1, <2>2, <2>3
  <2>5. ASSUME NEW i \in Types, i # r_type PROVE fresh'[i] = fresh[i]
    BY <1>18, <2>5, Zenon DEF VerdictTag
  <2>6. fresh'[r_type] = (InEpoch(s_msg_epoch[r_type]) /\ WithinBudget(r_type))
    BY <1>18, Zenon DEF VerdictTag
  <2>7. ASSUME r_type \in r_good, s_epoch = r_epoch, r_sample[r_type].at <= r_at,
               r_sample[r_type].at - r_since_at \in 1 .. Half - 1
        PROVE  fresh'[r_type]
    <3>1. r_at - r_sample[r_type].at <= Budget[r_type] /\ (r_since_at >= r_at \/ s_msg_epoch[r_type] = s_epoch)
      BY <2>1, <2>7, Zenon DEF StaysHealthy, HealthyOne, HasSample
    <3> DEFINE a == r_sample[r_type].at
               b == Budget[r_type]
    <3>2. a \in Nat /\ r_since_at \in Nat /\ r_at \in Nat /\ b \in Nat
      BY <2>1, TimeTypes, Consts, Zenon
    <3>3. a <= r_at /\ a - r_since_at \in 1 .. Half - 1 /\ r_at - a <= b
      BY <2>7, <3>1, Zenon
    <3> HIDE DEF a, b
    <3>4. r_at - a \in 0 .. b /\ ~(r_since_at >= r_at)
      BY ONLY <3>2, <3>3, Consts, SMT
    <3>5. s_msg_epoch[r_type] = r_epoch /\ r_at - r_sample[r_type].at \in 0 .. Budget[r_type]
      BY <2>7, <3>1, <3>4, Zenon DEF a, b
    <3>6. QED
      BY <2>1, <2>6, <2>7, <3>5, HealthyPasses, Zenon
  <2>8. ASSUME NEW i \in r_good PROVE HealthyOne(i)'
    <3>1. i \in Types /\ HealthyOne(i)
      BY <2>8
    <3>2. \/ rpc' = "final"
          \/ rpc' = "last"
      BY <2>2, Zenon
    <3>3. HasSample(i)' => r_at - r_sample[i].at <= Budget[i]
      BY <2>4, <3>1, Zenon DEF HealthyOne
    <3>4. r_at - sample[i].at <= Budget[i]
      BY <2>1, <3>1, Zenon DEF HealthyOne
    <3>5. s_epoch = r_epoch => r_since_at >= r_at \/ s_msg_epoch[i] = s_epoch
      BY <2>1, <3>1, Zenon DEF HealthyOne
    <3>6. /\ Processed(i)' /\ s_epoch = r_epoch
          /\ r_sample[i].at <= r_at
          /\ r_sample[i].at - r_since_at \in 1 .. Half - 1
          => fresh'[i]
      BY <2>3, <2>5, <2>7, <2>8, <3>1, Zenon DEF HealthyOne
    <3>7. QED
      BY <2>1, <3>2, <3>3, <3>4, <3>5, <3>6, Zenon DEF HealthyOne
  <2>9. rpc' \notin {"idle", "epoch"} => r_epoch <= s_epoch
    BY <2>1
  <2>10. QED
    BY <2>1, <2>8, <2>9, Zenon DEF StaysHealthy
<1>19. CASE VerdictFinal
  BY <1>19 DEF VerdictFinal, vars
<1>20. CASE VerdictReturns
  BY <1>20 DEF VerdictReturns, vars
<1>21. CASE UNCHANGED vars
  BY <1>21 DEF vars, vars
<1>22. QED
  BY <1>1, <1>2, <1>3, <1>4, <1>5, <1>6, <1>7, <1>8, <1>9, <1>10, <1>11, <1>12,
     <1>13, <1>14, <1>15, <1>16, <1>17, <1>18, <1>19, <1>20, <1>21 DEF Next,
     UartTask, GnssTask, Verdict

(* A receiver that produces the required set is not called faulty: this needs
   no bound on the time since the last reset, only what the property says of
   the sample itself. *)
THEOREM HealthyMeansFresh == Spec => []HealthyIsFresh
<1>1. Init => BaseInv /\ StaysHealthy
  BY BaseInit DEF Init, StaysHealthy
<1>2. BaseInv /\ StaysHealthy /\ [Next]_vars => (BaseInv /\ StaysHealthy)'
  BY BaseStep, HealthyStep
<1>3. StaysHealthy => HealthyIsFresh
  BY DEF StaysHealthy, HealthyIsFresh, HealthyOne, Processed
<1>4. QED
  BY <1>1, <1>2, <1>3, PTL DEF Spec

(* The types the argument about generations needs. *)
LEMMA GenTypes ==
    ASSUME BaseInv
    PROVE  /\ clock \in Nat /\ gen \in Nat /\ s_epoch \in Nat /\ r_epoch \in Nat
           /\ pulse_until \in Nat /\ since_at \in Nat /\ r_since_at \in Nat /\ chunk_at \in Nat
           /\ gpc \in {"idle", "low", "high", "flushed", "since", "bumped"}
           /\ rpc \in {"idle", "epoch", "since", "last", "tag", "final", "done"}
           /\ fifo \in Seq(Frame) /\ chunk \in Seq(Frame) /\ todo \in Seq(Frame)
           /\ held \in Seq(Frame) /\ asked \in Nat /\ chunk_asked \in Nat
           /\ upc \in {"read", "ingest", "feed", "stamp", "tag"}
           /\ s_ingest_reset_req \in BOOLEAN
           /\ sample \in [Types -> Sample] /\ r_sample \in [Types -> Sample] /\ r_type \in Types
  BY TypeParts DEF BaseInv, SharedT, ReceiverT, UartT, GnssT, ReaderT

LEMMA FrameTypes == \A f \in Frame : f.gen \in Nat /\ f.at \in Nat /\ f.type \in Types
  BY DEF Frame

(* The epoch follows the receiver. *)
LEMMA EpochsStep == ASSUME BaseInv, Epochs, [Next]_vars PROVE Epochs'
<1> USE Consts, GenTypes DEF Epochs, shared, receiver, uart, gnss, reader, vars
<1>1. CASE Tick
  BY <1>1, SMTT(30) DEF Tick
<1>2. CASE ReceiverEmits
  BY <1>2 DEF ReceiverEmits
<1>3. CASE UartRead
  BY <1>3 DEF UartRead
<1>4. CASE IngestHonoursReset
  BY <1>4 DEF IngestHonoursReset
<1>5. CASE IngestFeed
  <2>1. UNCHANGED <<clock, shared, receiver, gnss, reader>>
    BY <1>5, Zenon DEF IngestFeed
  <2>2. QED
    BY <2>1
<1>6. CASE OnFrameStamps
  BY <1>6 DEF OnFrameStamps
<1>7. CASE OnFrameTags
  BY <1>7 DEF OnFrameTags
<1>8. CASE ResetLow
  BY <1>8 DEF ResetLow
<1>9. CASE ResetHigh
  BY <1>9 DEF ResetHigh
<1>10. CASE Flush
  BY <1>10 DEF Flush, Slept
<1>11. CASE EpochSince
  BY <1>11 DEF EpochSince
<1>12. CASE EpochBump
  BY <1>12, SMTT(30) DEF EpochBump
<1>13. CASE EpochRequest
  BY <1>13 DEF EpochRequest
<1>14. CASE VerdictNow
  BY <1>14 DEF VerdictNow
<1>15. CASE VerdictEpoch
  BY <1>15 DEF VerdictEpoch
<1>16. CASE VerdictSince
  BY <1>16 DEF VerdictSince
<1>17. CASE VerdictLast
  BY <1>17 DEF VerdictLast
<1>18. CASE VerdictTag
  BY <1>18 DEF VerdictTag
<1>19. CASE VerdictFinal
  BY <1>19 DEF VerdictFinal
<1>20. CASE VerdictReturns
  BY <1>20 DEF VerdictReturns
<1>21. CASE UNCHANGED vars
  BY <1>21 DEF vars
<1>22. QED
  BY <1>1, <1>2, <1>3, <1>4, <1>5, <1>6, <1>7, <1>8, <1>9, <1>10, <1>11, <1>12,
     <1>13, <1>14, <1>15, <1>16, <1>17, <1>18, <1>19, <1>20, <1>21 DEF Next,
     UartTask, GnssTask, Verdict

LEMMA Scalars ==
    ASSUME BaseInv
    PROVE  /\ clock \in Nat /\ gen \in Nat /\ pulse_until \in Nat /\ s_epoch \in Nat
           /\ r_epoch \in Nat /\ since_at \in Nat /\ r_since_at \in Nat
  BY GenTypes

(* What a reset does to a frame that is on its way to the parser: by the time
   the driver is flushed it is older than the UART task keeps frames. *)
LEMMA FrameKept ==
    ASSUME BaseInv, Epochs, NEW f \in Frame, InFlight(f), ResetLow \/ ResetHigh \/ Flush
    PROVE  InFlight(f)'
<1> DEFINE g == f.gen
           a == f.at
<1>1. g \in Nat /\ a \in Nat
  BY FrameTypes
<1>2. /\ a <= clock /\ clock <= a + HoldMs /\ g \in {gen, gen - 1}
      /\ g < gen => \/ gpc = "low" /\ a <= pulse_until - PulseMs
                    \/ gpc = "high" /\ a <= pulse_until - 2 * PulseMs
  BY Zenon DEF InFlight
<1> HIDE DEF g, a
<1> SUFFICES /\ a <= clock' /\ clock' <= a + HoldMs /\ g \in {gen', gen' - 1}
             /\ g < gen' => \/ gpc' = "low" /\ a <= pulse_until' - PulseMs
                            \/ gpc' = "high" /\ a <= pulse_until' - 2 * PulseMs
  BY Zenon DEF InFlight, g, a
<1>3. CASE ResetLow
  <2>1. gpc = "idle" /\ gpc' = "low" /\ gen' = gen + 1 /\ pulse_until' = clock + PulseMs /\ clock' = clock
    BY <1>3, Zenon DEF ResetLow
  <2>2. QED
    BY <1>1, <1>2, <2>1, Scalars, Consts
<1>4. CASE ResetHigh
  <2>1. /\ gpc = "low" /\ gpc' = "high" /\ gen' = gen /\ clock >= pulse_until
        /\ pulse_until' = clock + PulseMs /\ clock' = clock
    BY <1>4, Zenon DEF ResetHigh, Slept, receiver
  <2>2. QED
    BY <1>1, <1>2, <2>1, Scalars, Consts
<1>5. CASE Flush
  <2>1. /\ gpc = "high" /\ gen' = gen /\ clock >= pulse_until
        /\ pulse_until' = pulse_until /\ clock' = clock
    BY <1>5, Zenon DEF Flush, Slept
  <2>2. g = gen
    BY <1>1, <1>2, <2>1, Scalars, Consts
  <2>3. QED
    BY <1>1, <1>2, <2>1, <2>2, Scalars
<1>6. QED
  BY <1>3, <1>4, <1>5

LEMMA FrameAges ==
    ASSUME BaseInv, Tick, NEW f \in Frame, InFlight(f), clock < f.at + HoldMs
    PROVE  InFlight(f)'
<1> DEFINE a == f.at
<1>1. a \in Nat /\ a <= clock /\ clock < a + HoldMs
  BY FrameTypes, Zenon DEF InFlight
<1> HIDE DEF a
<1>2. clock' = clock + 1 /\ UNCHANGED <<gen, gpc, pulse_until>>
  BY Zenon DEF Tick, receiver, gnss
<1>3. a <= clock' /\ clock' <= a + HoldMs
  BY <1>1, <1>2, Scalars, Consts
<1>4. QED
  BY <1>2, <1>3, Zenon DEF InFlight, a

LEMMA ElementsAre ==
    ASSUME BaseInv
    PROVE  /\ \A k \in DOMAIN fifo : fifo[k] \in Frame
           /\ \A k \in DOMAIN chunk : chunk[k] \in Frame
           /\ \A k \in DOMAIN todo : todo[k] \in Frame
           /\ \A k \in DOMAIN held : held[k] \in Frame
  BY GenTypes, Frames, Zenon

(* What the parser emits and what it keeps was in its buffer or in the chunk. *)
LEMMA FedFrom ==
    ASSUME BaseInv, IngestFeed
    PROVE  /\ \A j \in DOMAIN todo' : \/ \E m \in DOMAIN held : todo'[j] = held[m]
                                     \/ \E m \in DOMAIN chunk : todo'[j] = chunk[m]
           /\ \A j \in DOMAIN held' : \/ \E m \in DOMAIN held : held'[j] = held[m]
                                     \/ \E m \in DOMAIN chunk : held'[j] = chunk[m]
<1> DEFINE all == held \o chunk
<1>1. held \in Seq(Frame) /\ chunk \in Seq(Frame)
  BY GenTypes
<1>2. /\ all \in Seq(Frame) /\ Len(all) = Len(held) + Len(chunk)
      /\ \A i \in 1 .. Len(held) + Len(chunk) :
           all[i] = IF i <= Len(held) THEN held[i] ELSE chunk[i - Len(held)]
  BY <1>1, ConcatProperties
<1>3. /\ Len(held) \in Nat /\ DOMAIN held = 1 .. Len(held)
      /\ Len(chunk) \in Nat /\ DOMAIN chunk = 1 .. Len(chunk)
  BY <1>1, Frames, Zenon
<1>4. PICK k \in 0 .. Len(all) :
         todo' = SubSeq(all, 1, k) /\ held' = SubSeq(all, k + 1, Len(all))
  BY Zenon DEF IngestFeed
<1> HIDE DEF all
<1>5. ASSUME NEW i \in 1 .. Len(all)
      PROVE  (\E m \in DOMAIN held : all[i] = held[m]) \/ (\E m \in DOMAIN chunk : all[i] = chunk[m])
  <2>1. i \in 1 .. Len(held) + Len(chunk) /\ i \in Int
    BY <1>2, <1>3, <1>5
  <2>2. CASE i <= Len(held)
    <3>1. i \in DOMAIN held /\ all[i] = held[i]
      BY <1>2, <1>3, <2>1, <2>2
    <3>2. QED
      BY <3>1, Zenon
  <2>3. CASE ~(i <= Len(held))
    <3>1. i - Len(held) \in DOMAIN chunk /\ all[i] = chunk[i - Len(held)]
      BY <1>2, <1>3, <2>1, <2>3
    <3>2. QED
      BY <3>1, Zenon
  <2>4. QED
    BY <2>2, <2>3
<1>6. \A j \in DOMAIN todo' : j \in 1 .. Len(all) /\ todo'[j] = all[j]
  <2>1. todo' \in Seq(Frame) /\ Len(todo') = k /\ \A j \in 1 .. k : todo'[j] = all[j]
    BY <1>2, <1>4, Split, Zenon
  <2>2. DOMAIN todo' = 1 .. k /\ Len(all) \in Nat
    BY <1>2, <2>1, LenProperties, Zenon
  <2>3. \A j \in 1 .. k : j \in 1 .. Len(all)
    BY <1>4, <2>2
  <2>4. QED
    BY <2>1, <2>2, <2>3, Zenon
<1>7. \A j \in DOMAIN held' : k + j \in 1 .. Len(all) /\ held'[j] = all[k + j]
  BY <1>2, <1>4, Split, Zenon
<1>8. QED
  BY <1>5, <1>6, <1>7, ZenonT(30)

(* Frames in flight are young. *)
LEMMA FlightStep == ASSUME BaseInv, Epochs, Flight, [Next]_vars PROVE Flight'
<1>1. CASE Tick
  <2>1. /\ UNCHANGED <<fifo, chunk, held>> /\ clock' = clock + 1
        /\ \A k \in DOMAIN fifo : clock < fifo[k].at + HoldMs
        /\ \A k \in DOMAIN chunk : clock < chunk[k].at + HoldMs
    BY <1>1, Zenon DEF Tick, receiver, uart
  <2>2. \A f \in Frame : InFlight(f) /\ clock < f.at + HoldMs => InFlight(f)'
    BY <1>1, FrameAges, Zenon
  <2>3. \A k \in DOMAIN held : Young(held[k])'
    <3>1. SUFFICES ASSUME NEW k \in DOMAIN held, clock' <= held[k].at + HoldMs
                   PROVE  InFlight(held[k])'
      BY <2>1, Zenon DEF Young
    <3>2. held[k] \in Frame /\ held[k].at \in Nat
      BY ElementsAre, FrameTypes, Zenon
    <3>3. clock < held[k].at + HoldMs /\ clock <= held[k].at + HoldMs
      BY <2>1, <3>1, <3>2, Scalars, Consts
    <3>4. InFlight(held[k])
      BY <3>3, Zenon DEF Flight, Young
    <3>5. QED
      BY <1>1, <2>1, <3>2, <3>3, <3>4, FrameAges, Zenon DEF InFlight
  <2>4. QED
    BY <2>1, <2>2, <2>3, ElementsAre, Zenon DEF Flight, InFlight, Young
<1>2. CASE ReceiverEmits
  <2>1. PICK i \in Types : fifo' = Append(fifo, [type |-> i, gen |-> gen, at |-> clock])
    BY <1>2, Zenon DEF ReceiverEmits
  <2> DEFINE f == [type |-> i, gen |-> gen, at |-> clock]
  <2>2. UNCHANGED <<clock, gen, gpc, pulse_until, chunk, held>>
    BY <1>2, Zenon DEF ReceiverEmits, uart, gnss
  <2>3. f \in Frame /\ InFlight(f)
    BY Scalars, Consts DEF Frame, InFlight
  <2>4. fifo \in Seq(Frame) /\ fifo' = Append(fifo, f)
    BY <2>1, GenTypes, Zenon
  <2> HIDE DEF f
  <2>5. \A k \in DOMAIN fifo' : fifo'[k] = f \/ (k \in DOMAIN fifo /\ fifo'[k] = fifo[k])
    BY <2>3, <2>4
  <2>6. QED
    BY <2>2, <2>3, <2>5, Zenon DEF Flight, InFlight, Young
<1>3. CASE UartRead
  <2>1. chunk' = fifo /\ fifo' = <<>> /\ UNCHANGED <<clock, gen, gpc, pulse_until, held>>
    BY <1>3, Zenon DEF UartRead, gnss
  <2>2. DOMAIN fifo' = {}
    BY <2>1, Frames, EmptySeq
  <2>3. QED
    BY <2>1, <2>2, Zenon DEF Flight, InFlight, Young
<1>4. CASE IngestHonoursReset
  <2>1. UNCHANGED <<clock, fifo, chunk, gen, gpc, pulse_until>> /\ held' \in {held, <<>>}
    BY <1>4, Zenon DEF IngestHonoursReset, receiver, gnss
  <2>2. \A k \in DOMAIN held' : k \in DOMAIN held /\ held'[k] = held[k]
    BY <2>1, Frames, EmptySeq
  <2>3. QED
    BY <2>1, <2>2, Zenon DEF Flight, InFlight, Young
<1>5. CASE IngestFeed
  <2>1. chunk' = <<>> /\ UNCHANGED <<clock, fifo, gen, gpc, pulse_until>>
    BY <1>5, Zenon DEF IngestFeed, receiver, gnss
  <2>2. DOMAIN chunk' = {}
    BY <2>1, Frames, EmptySeq
  <2>3. \A j \in DOMAIN held' : Young(held'[j])
    BY <1>5, FedFrom, Zenon DEF Flight, Young
  <2>4. QED
    BY <2>1, <2>2, <2>3, Zenon DEF Flight, InFlight, Young
<1>6. CASE OnFrameStamps
  BY <1>6, Zenon DEF OnFrameStamps, Flight, InFlight, Young, shared, receiver, uart, gnss,
     reader, vars
<1>7. CASE OnFrameTags
  BY <1>7, Zenon DEF OnFrameTags, Flight, InFlight, Young, shared, receiver, uart, gnss,
     reader, vars
<1>8. CASE ResetLow
  <2>1. UNCHANGED <<clock, fifo, chunk, held>>
    BY <1>8, Zenon DEF ResetLow, uart
  <2>2. \A f \in Frame : InFlight(f) => InFlight(f)'
    BY <1>8, FrameKept, Zenon
  <2>3. \A k \in DOMAIN chunk : chunk[k] \in Frame /\ InFlight(chunk[k])
    BY ElementsAre, Zenon DEF Flight
  <2>4. \A k \in DOMAIN fifo : fifo[k] \in Frame /\ InFlight(fifo[k])
    BY ElementsAre, Zenon DEF Flight
  <2>5. \A k \in DOMAIN held : held[k] \in Frame /\ Young(held[k])
    BY ElementsAre, Zenon DEF Flight
  <2>6. QED
    BY <2>1, <2>2, <2>3, <2>4, <2>5, Zenon DEF Flight, InFlight, Young
<1>9. CASE ResetHigh
  <2>1. UNCHANGED <<clock, fifo, chunk, held>>
    BY <1>9, Zenon DEF ResetHigh, uart, receiver
  <2>2. \A f \in Frame : InFlight(f) => InFlight(f)'
    BY <1>9, FrameKept, Zenon
  <2>3. \A k \in DOMAIN chunk : chunk[k] \in Frame /\ InFlight(chunk[k])
    BY ElementsAre, Zenon DEF Flight
  <2>4. \A k \in DOMAIN fifo : fifo[k] \in Frame /\ InFlight(fifo[k])
    BY ElementsAre, Zenon DEF Flight
  <2>5. \A k \in DOMAIN held : held[k] \in Frame /\ Young(held[k])
    BY ElementsAre, Zenon DEF Flight
  <2>6. QED
    BY <2>1, <2>2, <2>3, <2>4, <2>5, Zenon DEF Flight, InFlight, Young
<1>10. CASE Flush
  <2>1. fifo' = <<>> /\ UNCHANGED <<clock, chunk, held>>
    BY <1>10, Zenon DEF Flush, uart
  <2>2. \A f \in Frame : InFlight(f) => InFlight(f)'
    BY <1>10, FrameKept, Zenon
  <2>3. \A k \in DOMAIN chunk : chunk[k] \in Frame /\ InFlight(chunk[k])
    BY ElementsAre, Zenon DEF Flight
  <2>4. DOMAIN fifo' = {}
    BY <2>1, Frames, EmptySeq
  <2>5. \A k \in DOMAIN held : held[k] \in Frame /\ Young(held[k])
    BY ElementsAre, Zenon DEF Flight
  <2>6. QED
    BY <2>1, <2>2, <2>3, <2>4, <2>5, Zenon DEF Flight, InFlight, Young
<1>11. CASE EpochSince
  <2>1. gpc = "flushed" /\ gpc' = "since" /\ UNCHANGED <<clock, gen, fifo, chunk, held, pulse_until>>
    BY <1>11, Zenon DEF EpochSince, receiver, uart
  <2>2. gpc # "low" /\ gpc # "high"
    BY <2>1
  <2>3. QED
    BY <2>1, <2>2, Zenon DEF Flight, InFlight, Young
<1>12. CASE EpochBump
  <2>1. gpc = "since" /\ gpc' = "bumped" /\ UNCHANGED <<clock, gen, fifo, chunk, held, pulse_until>>
    BY <1>12, Zenon DEF EpochBump, receiver, uart
  <2>2. gpc # "low" /\ gpc # "high"
    BY <2>1
  <2>3. QED
    BY <2>1, <2>2, Zenon DEF Flight, InFlight, Young
<1>13. CASE EpochRequest
  <2>1. gpc = "bumped" /\ gpc' = "idle" /\ UNCHANGED <<clock, gen, fifo, chunk, held, pulse_until>>
    BY <1>13, Zenon DEF EpochRequest, receiver, uart
  <2>2. gpc # "low" /\ gpc # "high"
    BY <2>1
  <2>3. QED
    BY <2>1, <2>2, Zenon DEF Flight, InFlight, Young
<1>14. CASE VerdictNow
  BY <1>14, Zenon DEF VerdictNow, Flight, InFlight, Young, shared, receiver, uart, gnss,
     reader, vars
<1>15. CASE VerdictEpoch
  BY <1>15, Zenon DEF VerdictEpoch, Flight, InFlight, Young, shared, receiver, uart, gnss,
     reader, vars
<1>16. CASE VerdictSince
  BY <1>16, Zenon DEF VerdictSince, Flight, InFlight, Young, shared, receiver, uart, gnss,
     reader, vars
<1>17. CASE VerdictLast
  BY <1>17, Zenon DEF VerdictLast, Flight, InFlight, Young, shared, receiver, uart, gnss,
     reader, vars
<1>18. CASE VerdictTag
  BY <1>18, Zenon DEF VerdictTag, Flight, InFlight, Young, shared, receiver, uart, gnss,
     reader, vars
<1>19. CASE VerdictFinal
  BY <1>19, Zenon DEF VerdictFinal, Flight, InFlight, Young, shared, receiver, uart, gnss,
     reader, vars
<1>20. CASE VerdictReturns
  BY <1>20, Zenon DEF VerdictReturns, Flight, InFlight, Young, shared, receiver, uart,
     gnss, reader, vars
<1>21. CASE UNCHANGED vars
  BY <1>21, Zenon DEF vars, Flight, InFlight, Young, shared, receiver, uart, gnss, reader,
     vars
<1>22. QED
  BY <1>1, <1>2, <1>3, <1>4, <1>5, <1>6, <1>7, <1>8, <1>9, <1>10, <1>11, <1>12,
     <1>13, <1>14, <1>15, <1>16, <1>17, <1>18, <1>19, <1>20, <1>21 DEF Next,
     UartTask, GnssTask, Verdict

(* What was dated before the epoch stays so, through a reset too. *)
LEMMA OldKept == ASSUME BaseInv, Epochs, NEW t \in Nat, t <= clock, NEW g \in Nat, Old(t, g), [Next]_vars PROVE Old(t, g)'
<1>1. CASE Tick
  BY <1>1, Consts, Scalars DEF Tick, Epochs, Old, OldIsDated, OldIsSeen, shared,
     receiver, uart, gnss, reader, vars
<1>2. CASE ReceiverEmits
  BY <1>2, Consts, Scalars DEF ReceiverEmits, Epochs, Old, OldIsDated, OldIsSeen,
     shared, receiver, uart, gnss, reader, vars
<1>3. CASE UartRead
  BY <1>3, Consts, Scalars DEF UartRead, Epochs, Old, OldIsDated, OldIsSeen, shared,
     receiver, uart, gnss, reader, vars
<1>4. CASE IngestHonoursReset
  BY <1>4, Consts, Scalars DEF IngestHonoursReset, Epochs, Old, OldIsDated,
     OldIsSeen, shared, receiver, uart, gnss, reader, vars
<1>5. CASE IngestFeed
  BY <1>5, Consts, Scalars DEF IngestFeed, Epochs, Old, OldIsDated, OldIsSeen,
     shared, receiver, uart, gnss, reader, vars
<1>6. CASE OnFrameStamps
  BY <1>6, Consts, Scalars DEF OnFrameStamps, Epochs, Old, OldIsDated, OldIsSeen,
     shared, receiver, uart, gnss, reader, vars
<1>7. CASE OnFrameTags
  BY <1>7, Consts, Scalars DEF OnFrameTags, Epochs, Old, OldIsDated, OldIsSeen,
     shared, receiver, uart, gnss, reader, vars
<1>8. CASE ResetLow
  <2>1. /\ gpc = "idle" /\ gpc' = "low" /\ gen' = gen + 1 /\ pulse_until' = clock + PulseMs
        /\ UNCHANGED <<s_epoch, since_at, rpc, r_epoch, r_since_at>>
    BY <1>8, Zenon DEF ResetLow, shared, reader
  <2>2. g <= gen /\ (g + 1 < s_epoch => t <= since_at) /\ OldIsSeen(t, g)
    BY Zenon DEF Old, OldIsDated
  <2>3. g <= gen' /\ t <= pulse_until' + PulseMs
    BY <2>1, <2>2, Scalars, Consts, SMTT(30)
  <2>4. OldIsDated(t, g)'
    BY <2>1, <2>2, <2>3, Zenon DEF OldIsDated
  <2>5. QED
    BY <2>1, <2>2, <2>4, Zenon DEF Old, OldIsSeen
<1>9. CASE ResetHigh
  <2>1. /\ gpc = "low" /\ gpc' = "high" /\ clock >= pulse_until
        /\ pulse_until' = clock + PulseMs
        /\ UNCHANGED <<gen, s_epoch, since_at, rpc, r_epoch, r_since_at>>
    BY <1>9, Zenon DEF ResetHigh, Slept, shared, receiver, reader
  <2>2. /\ g <= gen /\ (g + 1 < s_epoch => t <= since_at) /\ OldIsSeen(t, g)
        /\ g < gen => t <= pulse_until + PulseMs
    BY <2>1, Zenon DEF Old, OldIsDated
  <2>3. g < gen => t <= pulse_until'
    BY <2>1, <2>2, Scalars, Consts
  <2>4. OldIsDated(t, g)'
    BY <2>1, <2>2, <2>3 DEF OldIsDated
  <2>5. QED
    BY <2>1, <2>2, <2>4, Zenon DEF Old, OldIsSeen
<1>10. CASE Flush
  BY <1>10, Scalars DEF Flush, Slept, Epochs, Old, OldIsDated, OldIsSeen, shared, receiver,
     reader
<1>11. CASE EpochSince
  BY <1>11, Consts, Scalars DEF EpochSince, Epochs, Old, OldIsDated, OldIsSeen,
     shared, receiver, uart, gnss, reader, vars
<1>12. CASE EpochBump
  <2>1. /\ gpc = "since" /\ gpc' = "bumped" /\ s_epoch' = s_epoch + 1
        /\ UNCHANGED <<gen, pulse_until, since_at, rpc, r_epoch, r_since_at>>
    BY <1>12, Zenon DEF EpochBump, receiver, reader
  <2>2. g <= gen /\ (g < gen => t <= since_at) /\ s_epoch = gen
    BY <2>1, Scalars DEF Old, OldIsDated, Epochs
  <2>3. g + 1 < s_epoch' => t <= since_at
    BY <2>1, <2>2, Scalars
  <2>4. OldIsDated(t, g)'
    BY <2>1, <2>2, <2>3 DEF OldIsDated
  <2>5. rpc \notin {"idle", "epoch", "since"} => s_epoch' # r_epoch
    BY <2>1, Scalars DEF Epochs
  <2>6. QED
    BY <2>1, <2>4, <2>5, Zenon DEF Old, OldIsSeen
<1>13. CASE EpochRequest
  BY <1>13, Consts, Scalars DEF EpochRequest, Epochs, Old, OldIsDated, OldIsSeen,
     shared, receiver, uart, gnss, reader, vars
<1>14. CASE VerdictNow
  BY <1>14, Consts, Scalars DEF VerdictNow, Epochs, Old, OldIsDated, OldIsSeen,
     shared, receiver, uart, gnss, reader, vars
<1>15. CASE VerdictEpoch
  BY <1>15, Consts, Scalars DEF VerdictEpoch, Epochs, Old, OldIsDated, OldIsSeen,
     shared, receiver, uart, gnss, reader, vars
<1>16. CASE VerdictSince
  BY <1>16, Consts, Scalars DEF VerdictSince, Epochs, Old, OldIsDated, OldIsSeen,
     shared, receiver, uart, gnss, reader, vars
<1>17. CASE VerdictLast
  BY <1>17, Consts, Scalars DEF VerdictLast, Epochs, Old, OldIsDated, OldIsSeen,
     shared, receiver, uart, gnss, reader, vars
<1>18. CASE VerdictTag
  BY <1>18, Consts, Scalars DEF VerdictTag, Epochs, Old, OldIsDated, OldIsSeen,
     shared, receiver, uart, gnss, reader, vars
<1>19. CASE VerdictFinal
  BY <1>19, Consts, Scalars DEF VerdictFinal, Epochs, Old, OldIsDated, OldIsSeen,
     shared, receiver, uart, gnss, reader, vars
<1>20. CASE VerdictReturns
  BY <1>20, Consts, Scalars DEF VerdictReturns, Epochs, Old, OldIsDated, OldIsSeen,
     shared, receiver, uart, gnss, reader, vars
<1>21. CASE UNCHANGED vars
  BY <1>21, Consts, Scalars DEF vars, Epochs, Old, OldIsDated, OldIsSeen, shared,
     receiver, uart, gnss, reader, vars
<1>22. QED
  BY <1>1, <1>2, <1>3, <1>4, <1>5, <1>6, <1>7, <1>8, <1>9, <1>10, <1>11, <1>12,
     <1>13, <1>14, <1>15, <1>16, <1>17, <1>18, <1>19, <1>20, <1>21 DEF Next,
     UartTask, GnssTask, Verdict

(* A frame that reaches the parser now may carry the time of now. *)
LEMMA FedIsOld ==
    ASSUME BaseInv, Epochs, NEW f \in Frame, InFlight(f)
    PROVE  Old(clock, f.gen)
<1> DEFINE g == f.gen
           a == f.at
<1>1. g \in Nat /\ a \in Nat
  BY FrameTypes
<1>2. /\ a <= clock /\ clock <= a + HoldMs /\ g \in {gen, gen - 1}
      /\ g < gen => \/ gpc = "low" /\ a <= pulse_until - PulseMs
                    \/ gpc = "high" /\ a <= pulse_until - 2 * PulseMs
  BY Zenon DEF InFlight
<1> HIDE DEF g, a
<1>3. g <= gen /\ ~(g + 1 < s_epoch)
  BY <1>1, <1>2, Scalars DEF Epochs
<1>4. g < gen => \/ gpc = "low" /\ clock <= pulse_until + PulseMs
                 \/ gpc = "high" /\ clock <= pulse_until
  BY <1>1, <1>2, Scalars, Consts
<1>5. OldIsDated(clock, g)
  BY <1>3, <1>4 DEF OldIsDated
<1>6. OldIsSeen(clock, g)
  BY <1>3, Zenon DEF OldIsSeen
<1>7. QED
  BY <1>5, <1>6, Zenon DEF Old, g

(* The two families the argument is about, as one statement. *)
LEMMA StampTypes ==
    ASSUME BaseInv
    PROVE  /\ chunk_at \in Nat /\ chunk_at <= clock
           /\ \A k \in DOMAIN todo : todo[k].gen \in Nat
           /\ \A i \in Types : sample[i].at \in Nat /\ sample[i].at <= clock /\ sample[i].gen \in Nat
<1>1. \A k \in DOMAIN todo : todo[k].gen \in Nat
  BY ElementsAre, FrameTypes, Zenon
<1>2. \A i \in Types : sample[i].at \in Nat /\ sample[i].gen \in Nat
  BY GenTypes DEF Sample
<1>3. chunk_at \in Nat /\ chunk_at <= clock /\ \A i \in Types : sample[i].at <= clock
  BY GenTypes, Consts, <1>2, SMTT(30) DEF BaseInv, Times
<1>4. QED
  BY <1>1, <1>2, <1>3

(* Stamps keep their dates. *)
LEMMA StampsStep == ASSUME BaseInv, Epochs, Flight, Stamps, [Next]_vars PROVE Stamps'
<1>0. /\ \A k \in DOMAIN todo : chunk_at <= todo[k].at + HoldMs =>
           \E t \in Nat, g \in Nat : t = chunk_at /\ g = todo[k].gen /\ Old(t, g)'
      /\ \A i \in Types : sample[i].at <= sample[i].arrived + HoldMs =>
           \E t \in Nat, g \in Nat : t = sample[i].at /\ g = sample[i].gen /\ Old(t, g)'
  BY OldKept, StampTypes, Zenon DEF Stamps, OldUnlessHeld
<1>1. CASE Tick
  BY <1>1, Zenon DEF Tick, Stamps, OldUnlessHeld, SeenUnlessHeld, Old, OldIsDated, OldIsSeen,
     HasSample, Processed,
     shared, receiver, uart, gnss, reader, vars
<1>2. CASE ReceiverEmits
  BY <1>2, Zenon DEF ReceiverEmits, Stamps, OldUnlessHeld, SeenUnlessHeld, Old, OldIsDated,
     OldIsSeen, HasSample,
     Processed, shared, receiver, uart, gnss, reader, vars
<1>3. CASE UartRead
  BY <1>3, Zenon DEF UartRead, Stamps, OldUnlessHeld, SeenUnlessHeld, Old, OldIsDated,
     OldIsSeen, HasSample,
     Processed, shared, receiver, uart, gnss, reader, vars
<1>4. CASE IngestHonoursReset
  BY <1>4, Zenon DEF IngestHonoursReset, Stamps, OldUnlessHeld, SeenUnlessHeld, Old,
     OldIsDated, OldIsSeen,
     HasSample, Processed, shared, receiver, uart, gnss, reader, vars
<1>5. CASE IngestFeed
  <2>1. UNCHANGED <<clock, shared, receiver, gnss, reader>> /\ chunk_at' = clock
    BY <1>5, Zenon DEF IngestFeed
  <2>2. \A h \in Frame : InFlight(h) => Old(clock, h.gen)
    BY FedIsOld, Zenon
  <2>3. \A m \in DOMAIN held : OldUnlessHeld(clock, held[m].at, held[m].gen)
    BY <2>2, ElementsAre, Zenon DEF Flight, Young, OldUnlessHeld
  <2>4. \A m \in DOMAIN chunk : OldUnlessHeld(clock, chunk[m].at, chunk[m].gen)
    BY <2>2, ElementsAre, Zenon DEF Flight, OldUnlessHeld
  <2>5. \A j \in DOMAIN todo' : OldUnlessHeld(clock, todo'[j].at, todo'[j].gen)
    BY <1>5, <2>3, <2>4, FedFrom, Zenon
  <2>6. \A j \in DOMAIN todo' : OldUnlessHeld(chunk_at, todo[j].at, todo[j].gen)'
    BY <2>1, <2>5, Zenon DEF OldUnlessHeld, Old, OldIsDated, OldIsSeen, shared, receiver, gnss,
       reader
  <2>7. QED
    BY <2>1, <2>6, Zenon DEF Stamps, OldUnlessHeld, SeenUnlessHeld, Old, OldIsDated, OldIsSeen,
       HasSample, Processed, shared, receiver, gnss, reader
<1>6. CASE OnFrameStamps
  <2> DEFINE f == Head(todo)
  <2>1. upc = "stamp" /\ todo # <<>>
    BY <1>6, TypeParts DEF OnFrameStamps, BaseInv, UartT
  <2>2. f = todo[1] /\ 1 \in DOMAIN todo /\ f \in Frame
    BY <2>1, GenTypes, Frames
  <2>3. f.type \in Types /\ OldUnlessHeld(chunk_at, f.at, f.gen)
    BY <2>2, FrameTypes, Zenon DEF Stamps
  <2>4. sample' = [sample EXCEPT ![f.type] =
                     [gen |-> f.gen, at |-> chunk_at, arrived |-> f.at, asked |-> chunk_asked]]
    BY <1>6, Zenon DEF OnFrameStamps
  <2>5. UNCHANGED <<clock, s_epoch, since_at, receiver, todo, chunk_at, gnss, reader>>
    BY <1>6, Zenon DEF OnFrameStamps
  <2> HIDE DEF f
  <2>6. ASSUME NEW i \in Types PROVE OldUnlessHeld(sample'[i].at, sample'[i].arrived, sample'[i].gen)
    <3>1. CASE i = f.type
      <4>1. sample'[i].at = chunk_at /\ sample'[i].gen = f.gen /\ sample'[i].arrived = f.at
        BY <2>4, <3>1, GenTypes
      <4>2. QED
        BY <2>3, <4>1, Zenon
    <3>2. CASE i # f.type
      <4>1. sample'[i] = sample[i]
        BY <2>4, <3>2, GenTypes, Zenon
      <4>2. QED
        BY <4>1, Zenon DEF Stamps
    <3>3. QED
      BY <3>1, <3>2
  <2>7. QED
    BY <2>5, <2>6, Zenon DEF Stamps, OldUnlessHeld, SeenUnlessHeld, Old, OldIsDated, OldIsSeen,
       HasSample, Processed,
       receiver, gnss, reader
<1>7. CASE OnFrameTags
  <2>1. todo # <<>> /\ todo' = Tail(todo)
    BY <1>7, TypeParts DEF OnFrameTags, BaseInv, UartT
  <2>2. \A k \in DOMAIN todo' : k + 1 \in DOMAIN todo /\ todo'[k] = todo[k + 1]
    BY <2>1, GenTypes, Frames, Zenon
  <2>3. UNCHANGED <<clock, s_epoch, since_at, sample, receiver, chunk_at, gnss, reader>>
    BY <1>7, Zenon DEF OnFrameTags
  <2>4. QED
    BY <2>2, <2>3, Zenon DEF Stamps, OldUnlessHeld, SeenUnlessHeld, Old, OldIsDated, OldIsSeen,
       HasSample, Processed,
       receiver, gnss, reader
<1>8. CASE ResetLow
  <2>1. UNCHANGED <<todo, chunk_at, sample, s_epoch, reader>>
    BY <1>8, Zenon DEF ResetLow, shared, uart
  <2>2. \A i \in Types : HasSample(i) => SeenUnlessHeld(r_sample[i].at, r_sample[i].arrived, r_sample[i].gen)'
    BY <2>1, Zenon DEF Stamps, SeenUnlessHeld, OldIsSeen, reader
  <2>3. QED
    BY <1>0, <2>1, <2>2, Zenon DEF Stamps, OldUnlessHeld, SeenUnlessHeld, Old, OldIsDated,
       OldIsSeen, HasSample, Processed,
       reader
<1>9. CASE ResetHigh
  <2>1. UNCHANGED <<todo, chunk_at, sample, s_epoch, reader>>
    BY <1>9, Zenon DEF ResetHigh, shared, uart
  <2>2. \A i \in Types : HasSample(i) => SeenUnlessHeld(r_sample[i].at, r_sample[i].arrived, r_sample[i].gen)'
    BY <2>1, Zenon DEF Stamps, SeenUnlessHeld, OldIsSeen, reader
  <2>3. QED
    BY <1>0, <2>1, <2>2, Zenon DEF Stamps, OldUnlessHeld, SeenUnlessHeld, Old, OldIsDated,
       OldIsSeen, HasSample, Processed,
       reader
<1>10. CASE Flush
  <2>1. UNCHANGED <<todo, chunk_at, sample, s_epoch, reader>>
    BY <1>10, Zenon DEF Flush, shared, uart
  <2>2. \A i \in Types : HasSample(i) => SeenUnlessHeld(r_sample[i].at, r_sample[i].arrived, r_sample[i].gen)'
    BY <2>1, Zenon DEF Stamps, SeenUnlessHeld, OldIsSeen, reader
  <2>3. QED
    BY <1>0, <2>1, <2>2, Zenon DEF Stamps, OldUnlessHeld, SeenUnlessHeld, Old, OldIsDated,
       OldIsSeen, HasSample, Processed,
       reader
<1>11. CASE EpochSince
  <2>1. UNCHANGED <<todo, chunk_at, sample, s_epoch, reader>>
    BY <1>11, Zenon DEF EpochSince, shared, uart
  <2>2. \A i \in Types : HasSample(i) => SeenUnlessHeld(r_sample[i].at, r_sample[i].arrived, r_sample[i].gen)'
    BY <2>1, Zenon DEF Stamps, SeenUnlessHeld, OldIsSeen, reader
  <2>3. QED
    BY <1>0, <2>1, <2>2, Zenon DEF Stamps, OldUnlessHeld, SeenUnlessHeld, Old, OldIsDated,
       OldIsSeen, HasSample, Processed,
       reader
<1>12. CASE EpochBump
  <2>1. UNCHANGED <<todo, chunk_at, sample, reader>> /\ s_epoch' = s_epoch + 1
    BY <1>12, Zenon DEF EpochBump, uart
  <2>2. rpc \notin {"idle", "epoch", "since"} => s_epoch' # r_epoch
    BY <2>1, GenTypes, SMTT(30) DEF Epochs
  <2>3. QED
    BY <1>0, <2>1, <2>2, Zenon DEF Stamps, OldUnlessHeld, SeenUnlessHeld, Old, OldIsDated,
       OldIsSeen, HasSample, Processed,
       reader
<1>13. CASE EpochRequest
  <2>1. UNCHANGED <<todo, chunk_at, sample, s_epoch, reader>>
    BY <1>13, Zenon DEF EpochRequest, shared, uart
  <2>2. \A i \in Types : HasSample(i) => SeenUnlessHeld(r_sample[i].at, r_sample[i].arrived, r_sample[i].gen)'
    BY <2>1, Zenon DEF Stamps, SeenUnlessHeld, OldIsSeen, reader
  <2>3. QED
    BY <1>0, <2>1, <2>2, Zenon DEF Stamps, OldUnlessHeld, SeenUnlessHeld, Old, OldIsDated,
       OldIsSeen, HasSample, Processed,
       reader
<1>14. CASE VerdictNow
  <2>1. UNCHANGED <<todo, chunk_at, sample>> /\ rpc' \in {"epoch", "since"}
    BY <1>14, Zenon DEF VerdictNow, shared, uart
  <2>2. \A i \in Types : ~HasSample(i)'
    BY <2>1 DEF HasSample, Processed
  <2>3. QED
    BY <1>0, <2>1, <2>2, Zenon DEF Stamps, OldUnlessHeld, SeenUnlessHeld, Old, OldIsDated,
       OldIsSeen
<1>15. CASE VerdictEpoch
  <2>1. UNCHANGED <<todo, chunk_at, sample>> /\ rpc' \in {"epoch", "since"}
    BY <1>15, Zenon DEF VerdictEpoch, shared, uart
  <2>2. \A i \in Types : ~HasSample(i)'
    BY <2>1 DEF HasSample, Processed
  <2>3. QED
    BY <1>0, <2>1, <2>2, Zenon DEF Stamps, OldUnlessHeld, SeenUnlessHeld, Old, OldIsDated,
       OldIsSeen
<1>16. CASE VerdictSince
  <2>1. UNCHANGED <<todo, chunk_at, sample>> /\ rpc' = "last" /\ r_type' = 1
    BY <1>16, Zenon DEF VerdictSince, shared, uart
  <2>2. \A i \in Types : ~HasSample(i)'
    BY <2>1, Consts DEF HasSample, Processed
  <2>3. QED
    BY <1>0, <2>1, <2>2, Zenon DEF Stamps, OldUnlessHeld, SeenUnlessHeld, Old, OldIsDated,
       OldIsSeen
<1>17. CASE VerdictLast
  <2>1. /\ UNCHANGED <<clock, shared, receiver, uart, gnss, r_epoch, r_since_at, r_type>>
        /\ rpc = "last" /\ rpc' = "tag"
    BY <1>17, Zenon DEF VerdictLast
  <2>2. r_sample' = [r_sample EXCEPT ![r_type] = sample[r_type]]
    BY <1>17, Zenon DEF VerdictLast
  <2>3. \A i \in Types : OldUnlessHeld(sample[i].at, sample[i].arrived, sample[i].gen)'
    BY <2>1, Zenon DEF Stamps, OldUnlessHeld, SeenUnlessHeld, Old, OldIsDated, OldIsSeen,
       shared, receiver, gnss
  <2>4. \A k \in DOMAIN todo : OldUnlessHeld(chunk_at, todo[k].at, todo[k].gen)'
    BY <2>1, Zenon DEF Stamps, OldUnlessHeld, SeenUnlessHeld, Old, OldIsDated, OldIsSeen,
       shared, receiver, uart, gnss
  <2>5. ASSUME NEW i \in Types, HasSample(i)' PROVE SeenUnlessHeld(r_sample[i].at, r_sample[i].arrived, r_sample[i].gen)'
    <3>1. CASE i = r_type
      <4>1. r_sample'[i] = sample[i] /\ sample' = sample
        BY <2>1, <2>2, <3>1, GenTypes, Zenon DEF shared
      <4>2. QED
        BY <2>3, <4>1, Zenon DEF OldUnlessHeld, SeenUnlessHeld, Old
    <3>2. CASE i # r_type
      <4>1. r_sample'[i] = r_sample[i]
        BY <2>2, <3>2, GenTypes, Zenon
      <4>2. HasSample(i)
        BY <2>1, <2>5, <3>2 DEF HasSample, Processed
      <4>3. QED
        BY <2>1, <4>1, <4>2, Zenon DEF Stamps, SeenUnlessHeld, OldIsSeen, shared
    <3>3. QED
      BY <3>1, <3>2
  <2>6. QED
    BY <2>1, <2>3, <2>4, <2>5, Zenon DEF Stamps, uart
<1>18. CASE VerdictTag
  <2>1. /\ UNCHANGED <<clock, shared, receiver, uart, gnss, r_epoch, r_since_at, r_sample>>
        /\ r_type' = IF r_type = NTypes THEN 1 ELSE r_type + 1
        /\ rpc = "tag" /\ rpc' = IF r_type = NTypes THEN "final" ELSE "last"
    BY <1>18, Zenon DEF VerdictTag
  <2>2. \A i \in Types : HasSample(i)' => HasSample(i)
    BY <2>1, GenTypes, Consts, SMTT(30) DEF HasSample, Processed
  <2>3. rpc' \in {"final", "last"}
    BY <2>1, Zenon
  <2>4. QED
    BY <2>1, <2>2, <2>3, Zenon DEF Stamps, OldUnlessHeld, SeenUnlessHeld, Old, OldIsDated,
       OldIsSeen, shared, receiver, uart,
       gnss
<1>19. CASE VerdictFinal
  <2>1. UNCHANGED <<clock, shared, receiver, uart, gnss, r_epoch, r_since_at, r_sample>> /\ rpc = "final" /\ rpc' = "done"
    BY <1>19, Zenon DEF VerdictFinal
  <2>2. QED
    BY <2>1, Zenon DEF Stamps, OldUnlessHeld, SeenUnlessHeld, Old, OldIsDated, OldIsSeen,
       HasSample, Processed, shared,
       receiver, uart, gnss
<1>20. CASE VerdictReturns
  <2>1. UNCHANGED <<todo, chunk_at, sample>> /\ rpc' = "idle"
    BY <1>20, Zenon DEF VerdictReturns, shared, uart
  <2>2. \A i \in Types : ~HasSample(i)'
    BY <2>1 DEF HasSample, Processed
  <2>3. QED
    BY <1>0, <2>1, <2>2, Zenon DEF Stamps, OldUnlessHeld, SeenUnlessHeld, Old, OldIsDated,
       OldIsSeen
<1>21. CASE UNCHANGED vars
  BY <1>21, Zenon DEF vars, Stamps, OldUnlessHeld, SeenUnlessHeld, Old, OldIsDated, OldIsSeen,
     HasSample,
     Processed, shared, receiver, uart, gnss, reader, vars
<1>22. QED
  BY <1>1, <1>2, <1>3, <1>4, <1>5, <1>6, <1>7, <1>8, <1>9, <1>10, <1>11, <1>12,
     <1>13, <1>14, <1>15, <1>16, <1>17, <1>18, <1>19, <1>20, <1>21 DEF Next,
     UartTask, GnssTask, Verdict

(* The last request follows the receiver too. *)
LEMMA RequestsStep == ASSUME BaseInv, Epochs, Requests, [Next]_vars PROVE Requests'
<1> USE GenTypes DEF Requests, Epochs, shared, receiver, uart, gnss, reader, vars
<1>1. CASE Tick
  BY <1>1 DEF Tick
<1>2. CASE ReceiverEmits
  BY <1>2 DEF ReceiverEmits
<1>3. CASE UartRead
  BY <1>3 DEF UartRead
<1>4. CASE IngestHonoursReset
  BY <1>4 DEF IngestHonoursReset
<1>5. CASE IngestFeed
  <2>1. UNCHANGED <<shared, receiver, chunk_asked, gnss>>
    BY <1>5, Zenon DEF IngestFeed
  <2>2. QED
    BY <2>1
<1>6. CASE OnFrameStamps
  BY <1>6 DEF OnFrameStamps
<1>7. CASE OnFrameTags
  BY <1>7 DEF OnFrameTags
<1>8. CASE ResetLow
  BY <1>8 DEF ResetLow
<1>9. CASE ResetHigh
  BY <1>9 DEF ResetHigh
<1>10. CASE Flush
  BY <1>10 DEF Flush
<1>11. CASE EpochSince
  BY <1>11 DEF EpochSince
<1>12. CASE EpochBump
  BY <1>12 DEF EpochBump
<1>13. CASE EpochRequest
  BY <1>13 DEF EpochRequest
<1>14. CASE VerdictNow
  BY <1>14 DEF VerdictNow
<1>15. CASE VerdictEpoch
  BY <1>15 DEF VerdictEpoch
<1>16. CASE VerdictSince
  BY <1>16 DEF VerdictSince
<1>17. CASE VerdictLast
  BY <1>17 DEF VerdictLast
<1>18. CASE VerdictTag
  BY <1>18 DEF VerdictTag
<1>19. CASE VerdictFinal
  BY <1>19 DEF VerdictFinal
<1>20. CASE VerdictReturns
  BY <1>20 DEF VerdictReturns
<1>21. CASE UNCHANGED vars
  BY <1>21
<1>22. QED
  BY <1>1, <1>2, <1>3, <1>4, <1>5, <1>6, <1>7, <1>8, <1>9, <1>10, <1>11, <1>12,
     <1>13, <1>14, <1>15, <1>16, <1>17, <1>18, <1>19, <1>20, <1>21 DEF Next,
     UartTask, GnssTask, Verdict

(* A frame on its way to the parser is not older than the last request. *)
LEMMA FlightIsAsked ==
    ASSUME BaseInv, Requests, NEW f \in Frame, InFlight(f)
    PROVE  asked <= f.gen + 1 /\ chunk_asked <= f.gen + 1
<1> DEFINE g == f.gen
<1>1. g \in Nat
  BY FrameTypes
<1>2. g \in {gen, gen - 1} /\ (g < gen => gpc = "low" \/ gpc = "high")
  BY Zenon DEF InFlight
<1> HIDE DEF g
<1>3. asked <= g + 1 /\ chunk_asked <= g + 1
  BY <1>1, <1>2, GenTypes DEF Requests
<1>4. QED
  BY <1>3, Zenon DEF g

(* What was emptied holds nothing older than the request that was honoured. *)
LEMMA EmptiedStep ==
    ASSUME BaseInv, Flight, Requests, Emptied, [Next]_vars PROVE Emptied'
<1>1. CASE Tick
  <2>1. UNCHANGED <<s_ingest_reset_req, asked, chunk_asked, held, todo, upc>>
    BY <1>1, Zenon DEF Tick, shared, uart
  <2>2. QED
    BY <2>1, Zenon DEF Emptied
<1>2. CASE ReceiverEmits
  <2>1. UNCHANGED <<s_ingest_reset_req, asked, chunk_asked, held, todo, upc>>
    BY <1>2, Zenon DEF ReceiverEmits, shared, uart
  <2>2. QED
    BY <2>1, Zenon DEF Emptied
<1>3. CASE UartRead
  <2>1. upc' = "ingest" /\ UNCHANGED <<s_ingest_reset_req, asked, chunk_asked, held, todo>>
    BY <1>3, Zenon DEF UartRead, shared
  <2>2. QED
    BY <2>1 DEF Emptied
<1>4. CASE IngestHonoursReset
  <2>1. /\ held' = IF s_ingest_reset_req THEN <<>> ELSE held
        /\ chunk_asked' = asked /\ asked' = asked /\ upc' = "feed"
    BY <1>4, Zenon DEF IngestHonoursReset
  <2>2. \A k \in DOMAIN held' : ~s_ingest_reset_req /\ k \in DOMAIN held /\ held'[k] = held[k]
    BY <2>1, Frames, EmptySeq
  <2>3. \A k \in DOMAIN held' : asked <= held'[k].gen + 1
    BY <2>2, Zenon DEF Emptied
  <2>4. upc' # "stamp" /\ upc' # "tag"
    BY <2>1
  <2>5. QED
    BY <2>1, <2>3, <2>4 DEF Emptied
<1>5. CASE IngestFeed
  <2>1. /\ UNCHANGED <<s_ingest_reset_req, asked, chunk_asked>>
        /\ upc = "feed" /\ upc' \in {"read", "stamp"}
    BY <1>5, Zenon DEF IngestFeed, shared
  <2>2. \A h \in Frame : InFlight(h) => asked <= h.gen + 1 /\ chunk_asked <= h.gen + 1
    BY FlightIsAsked, Zenon
  <2>3. \A m \in DOMAIN chunk : asked <= chunk[m].gen + 1 /\ chunk_asked <= chunk[m].gen + 1
    BY <2>2, ElementsAre, Zenon DEF Flight
  <2>4. \A m \in DOMAIN held : chunk_asked <= held[m].gen + 1
    BY <2>1, Zenon DEF Emptied
  <2>5. \A j \in DOMAIN todo' : chunk_asked <= todo'[j].gen + 1
    BY <1>5, <2>3, <2>4, FedFrom, Zenon
  <2>6. ~s_ingest_reset_req => \A m \in DOMAIN held : asked <= held[m].gen + 1
    BY Zenon DEF Emptied
  <2>7. ~s_ingest_reset_req => \A j \in DOMAIN held' : asked <= held'[j].gen + 1
    BY <1>5, <2>3, <2>6, FedFrom, Zenon
  <2>8. upc' # "feed"
    BY <2>1
  <2>9. QED
    BY <2>1, <2>5, <2>7, <2>8, Zenon DEF Emptied
<1>6. CASE OnFrameStamps
  <2>1. /\ UNCHANGED <<s_ingest_reset_req, asked, chunk_asked, held, todo>>
        /\ upc = "stamp" /\ upc' = "tag"
    BY <1>6, Zenon DEF OnFrameStamps
  <2>2. QED
    BY <2>1 DEF Emptied
<1>7. CASE OnFrameTags
  <2>1. /\ UNCHANGED <<s_ingest_reset_req, asked, chunk_asked, held>> /\ todo' = Tail(todo)
        /\ upc = "tag" /\ upc' \in {"read", "stamp"}
    BY <1>7, Zenon DEF OnFrameTags
  <2>2. todo # <<>>
    BY <2>1, TypeParts DEF BaseInv, UartT
  <2>3. \A k \in DOMAIN todo' : k + 1 \in DOMAIN todo /\ todo'[k] = todo[k + 1]
    BY <2>1, <2>2, GenTypes, Frames, Zenon
  <2>4. \A k \in DOMAIN todo' : chunk_asked <= todo'[k].gen + 1
    BY <2>1, <2>3, Zenon DEF Emptied
  <2>5. upc' # "feed"
    BY <2>1
  <2>6. QED
    BY <2>1, <2>4, <2>5, Zenon DEF Emptied
<1>8. CASE ResetLow
  <2>1. UNCHANGED <<s_ingest_reset_req, asked, chunk_asked, held, todo, upc>>
    BY <1>8, Zenon DEF ResetLow, shared, uart
  <2>2. QED
    BY <2>1, Zenon DEF Emptied
<1>9. CASE ResetHigh
  <2>1. UNCHANGED <<s_ingest_reset_req, asked, chunk_asked, held, todo, upc>>
    BY <1>9, Zenon DEF ResetHigh, shared, uart
  <2>2. QED
    BY <2>1, Zenon DEF Emptied
<1>10. CASE Flush
  <2>1. UNCHANGED <<s_ingest_reset_req, asked, chunk_asked, held, todo, upc>>
    BY <1>10, Zenon DEF Flush, shared, uart
  <2>2. QED
    BY <2>1, Zenon DEF Emptied
<1>11. CASE EpochSince
  <2>1. UNCHANGED <<s_ingest_reset_req, asked, chunk_asked, held, todo, upc>>
    BY <1>11, Zenon DEF EpochSince, shared, uart
  <2>2. QED
    BY <2>1, Zenon DEF Emptied
<1>12. CASE EpochBump
  <2>1. UNCHANGED <<s_ingest_reset_req, asked, chunk_asked, held, todo, upc>>
    BY <1>12, Zenon DEF EpochBump, shared, uart
  <2>2. QED
    BY <2>1, Zenon DEF Emptied
<1>13. CASE EpochRequest
  <2>1. s_ingest_reset_req' = TRUE /\ UNCHANGED <<chunk_asked, held, todo, upc>>
    BY <1>13, Zenon DEF EpochRequest, uart
  <2>2. QED
    BY <2>1, Zenon DEF Emptied
<1>14. CASE VerdictNow
  <2>1. UNCHANGED <<s_ingest_reset_req, asked, chunk_asked, held, todo, upc>>
    BY <1>14, Zenon DEF VerdictNow, shared, uart
  <2>2. QED
    BY <2>1, Zenon DEF Emptied
<1>15. CASE VerdictEpoch
  <2>1. UNCHANGED <<s_ingest_reset_req, asked, chunk_asked, held, todo, upc>>
    BY <1>15, Zenon DEF VerdictEpoch, shared, uart
  <2>2. QED
    BY <2>1, Zenon DEF Emptied
<1>16. CASE VerdictSince
  <2>1. UNCHANGED <<s_ingest_reset_req, asked, chunk_asked, held, todo, upc>>
    BY <1>16, Zenon DEF VerdictSince, shared, uart
  <2>2. QED
    BY <2>1, Zenon DEF Emptied
<1>17. CASE VerdictLast
  <2>1. UNCHANGED <<s_ingest_reset_req, asked, chunk_asked, held, todo, upc>>
    BY <1>17, Zenon DEF VerdictLast, shared, uart
  <2>2. QED
    BY <2>1, Zenon DEF Emptied
<1>18. CASE VerdictTag
  <2>1. UNCHANGED <<s_ingest_reset_req, asked, chunk_asked, held, todo, upc>>
    BY <1>18, Zenon DEF VerdictTag, shared, uart
  <2>2. QED
    BY <2>1, Zenon DEF Emptied
<1>19. CASE VerdictFinal
  <2>1. UNCHANGED <<s_ingest_reset_req, asked, chunk_asked, held, todo, upc>>
    BY <1>19, Zenon DEF VerdictFinal, shared, uart
  <2>2. QED
    BY <2>1, Zenon DEF Emptied
<1>20. CASE VerdictReturns
  <2>1. UNCHANGED <<s_ingest_reset_req, asked, chunk_asked, held, todo, upc>>
    BY <1>20, Zenon DEF VerdictReturns, shared, uart
  <2>2. QED
    BY <2>1, Zenon DEF Emptied
<1>21. CASE UNCHANGED vars
  BY <1>21, Zenon DEF vars, shared, uart, Emptied
<1>22. QED
  BY <1>1, <1>2, <1>3, <1>4, <1>5, <1>6, <1>7, <1>8, <1>9, <1>10, <1>11, <1>12,
     <1>13, <1>14, <1>15, <1>16, <1>17, <1>18, <1>19, <1>20, <1>21 DEF Next,
     UartTask, GnssTask, Verdict

(* Samples remember a request that was honoured before their frame was let go. *)
LEMMA HonouredStep == ASSUME BaseInv, Emptied, Honoured, [Next]_vars PROVE Honoured'
<1>1. CASE Tick
  <2>1. UNCHANGED <<sample, r_sample>>
    BY <1>1, Zenon DEF Tick, shared, reader
  <2>2. QED
    BY <2>1, Zenon DEF Honoured
<1>2. CASE ReceiverEmits
  <2>1. UNCHANGED <<sample, r_sample>>
    BY <1>2, Zenon DEF ReceiverEmits, shared, reader
  <2>2. QED
    BY <2>1, Zenon DEF Honoured
<1>3. CASE UartRead
  <2>1. UNCHANGED <<sample, r_sample>>
    BY <1>3, Zenon DEF UartRead, shared, reader
  <2>2. QED
    BY <2>1, Zenon DEF Honoured
<1>4. CASE IngestHonoursReset
  <2>1. UNCHANGED <<sample, r_sample>>
    BY <1>4, Zenon DEF IngestHonoursReset, shared, reader
  <2>2. QED
    BY <2>1, Zenon DEF Honoured
<1>5. CASE IngestFeed
  <2>1. UNCHANGED <<sample, r_sample>>
    BY <1>5, Zenon DEF IngestFeed, shared, reader
  <2>2. QED
    BY <2>1, Zenon DEF Honoured
<1>6. CASE OnFrameStamps
  <2> DEFINE f == Head(todo)
  <2>1. upc = "stamp" /\ todo # <<>>
    BY <1>6, TypeParts DEF OnFrameStamps, BaseInv, UartT
  <2>2. f = todo[1] /\ 1 \in DOMAIN todo /\ f \in Frame
    BY <2>1, GenTypes, Frames
  <2>3. f.type \in Types /\ chunk_asked <= f.gen + 1
    BY <2>1, <2>2, FrameTypes, Zenon DEF Emptied
  <2>4. sample' = [sample EXCEPT ![f.type] =
                     [gen |-> f.gen, at |-> chunk_at, arrived |-> f.at, asked |-> chunk_asked]]
        /\ UNCHANGED r_sample
    BY <1>6, Zenon DEF OnFrameStamps, reader
  <2> HIDE DEF f
  <2>5. ASSUME NEW i \in Types PROVE sample'[i].asked <= sample'[i].gen + 1
    <3>1. CASE i = f.type
      <4>1. sample'[i].asked = chunk_asked /\ sample'[i].gen = f.gen
        BY <2>4, <3>1, GenTypes
      <4>2. QED
        BY <2>3, <4>1, Zenon
    <3>2. CASE i # f.type
      <4>1. sample'[i] = sample[i]
        BY <2>4, <3>2, GenTypes, Zenon
      <4>2. QED
        BY <4>1, Zenon DEF Honoured
    <3>3. QED
      BY <3>1, <3>2
  <2>6. QED
    BY <2>4, <2>5, Zenon DEF Honoured
<1>7. CASE OnFrameTags
  <2>1. UNCHANGED <<sample, r_sample>>
    BY <1>7, Zenon DEF OnFrameTags, shared, reader
  <2>2. QED
    BY <2>1, Zenon DEF Honoured
<1>8. CASE ResetLow
  <2>1. UNCHANGED <<sample, r_sample>>
    BY <1>8, Zenon DEF ResetLow, shared, reader
  <2>2. QED
    BY <2>1, Zenon DEF Honoured
<1>9. CASE ResetHigh
  <2>1. UNCHANGED <<sample, r_sample>>
    BY <1>9, Zenon DEF ResetHigh, shared, reader
  <2>2. QED
    BY <2>1, Zenon DEF Honoured
<1>10. CASE Flush
  <2>1. UNCHANGED <<sample, r_sample>>
    BY <1>10, Zenon DEF Flush, shared, reader
  <2>2. QED
    BY <2>1, Zenon DEF Honoured
<1>11. CASE EpochSince
  <2>1. UNCHANGED <<sample, r_sample>>
    BY <1>11, Zenon DEF EpochSince, shared, reader
  <2>2. QED
    BY <2>1, Zenon DEF Honoured
<1>12. CASE EpochBump
  <2>1. UNCHANGED <<sample, r_sample>>
    BY <1>12, Zenon DEF EpochBump, shared, reader
  <2>2. QED
    BY <2>1, Zenon DEF Honoured
<1>13. CASE EpochRequest
  <2>1. UNCHANGED <<sample, r_sample>>
    BY <1>13, Zenon DEF EpochRequest, shared, reader
  <2>2. QED
    BY <2>1, Zenon DEF Honoured
<1>14. CASE VerdictNow
  <2>1. UNCHANGED <<sample, r_sample>>
    BY <1>14, Zenon DEF VerdictNow, shared, reader
  <2>2. QED
    BY <2>1, Zenon DEF Honoured
<1>15. CASE VerdictEpoch
  <2>1. UNCHANGED <<sample, r_sample>>
    BY <1>15, Zenon DEF VerdictEpoch, shared, reader
  <2>2. QED
    BY <2>1, Zenon DEF Honoured
<1>16. CASE VerdictSince
  <2>1. UNCHANGED <<sample, r_sample>>
    BY <1>16, Zenon DEF VerdictSince, shared, reader
  <2>2. QED
    BY <2>1, Zenon DEF Honoured
<1>17. CASE VerdictLast
  <2>1. sample' = sample /\ r_sample' = [r_sample EXCEPT ![r_type] = sample[r_type]]
    BY <1>17, Zenon DEF VerdictLast, shared
  <2>2. \A i \in Types : r_sample'[i] \in {r_sample[i], sample[i]}
    BY <2>1, GenTypes
  <2>3. QED
    BY <2>1, <2>2, Zenon DEF Honoured
<1>18. CASE VerdictTag
  <2>1. UNCHANGED <<sample, r_sample>>
    BY <1>18, Zenon DEF VerdictTag, shared, reader
  <2>2. QED
    BY <2>1, Zenon DEF Honoured
<1>19. CASE VerdictFinal
  <2>1. UNCHANGED <<sample, r_sample>>
    BY <1>19, Zenon DEF VerdictFinal, shared, reader
  <2>2. QED
    BY <2>1, Zenon DEF Honoured
<1>20. CASE VerdictReturns
  <2>1. UNCHANGED <<sample, r_sample>>
    BY <1>20, Zenon DEF VerdictReturns, shared, reader
  <2>2. QED
    BY <2>1, Zenon DEF Honoured
<1>21. CASE UNCHANGED vars
  BY <1>21, Zenon DEF vars, shared, reader, Honoured
<1>22. QED
  BY <1>1, <1>2, <1>3, <1>4, <1>5, <1>6, <1>7, <1>8, <1>9, <1>10, <1>11, <1>12,
     <1>13, <1>14, <1>15, <1>16, <1>17, <1>18, <1>19, <1>20, <1>21 DEF Next,
     UartTask, GnssTask, Verdict

(* The last check of the verdict is what keeps a reset out of it. *)
LEMMA RevivalStep == ASSUME BaseInv, Recent, Generations, OnlyHeldRevives, [Next]_vars PROVE OnlyHeldRevives'
<1>1. CASE Tick
  BY <1>1, Zenon DEF Tick, OnlyHeldRevives, HeldBack, reader, vars
<1>2. CASE ReceiverEmits
  BY <1>2, Zenon DEF ReceiverEmits, OnlyHeldRevives, HeldBack, reader, vars
<1>3. CASE UartRead
  BY <1>3, Zenon DEF UartRead, OnlyHeldRevives, HeldBack, reader, vars
<1>4. CASE IngestHonoursReset
  BY <1>4, Zenon DEF IngestHonoursReset, OnlyHeldRevives, HeldBack, reader, vars
<1>5. CASE IngestFeed
  BY <1>5, Zenon DEF IngestFeed, OnlyHeldRevives, HeldBack, reader, vars
<1>6. CASE OnFrameStamps
  BY <1>6, Zenon DEF OnFrameStamps, OnlyHeldRevives, HeldBack, reader, vars
<1>7. CASE OnFrameTags
  BY <1>7, Zenon DEF OnFrameTags, OnlyHeldRevives, HeldBack, reader, vars
<1>8. CASE ResetLow
  BY <1>8, Zenon DEF ResetLow, OnlyHeldRevives, HeldBack, reader, vars
<1>9. CASE ResetHigh
  BY <1>9, Zenon DEF ResetHigh, OnlyHeldRevives, HeldBack, reader, vars
<1>10. CASE Flush
  BY <1>10, Zenon DEF Flush, OnlyHeldRevives, HeldBack, reader, vars
<1>11. CASE EpochSince
  BY <1>11, Zenon DEF EpochSince, OnlyHeldRevives, HeldBack, reader, vars
<1>12. CASE EpochBump
  BY <1>12, Zenon DEF EpochBump, OnlyHeldRevives, HeldBack, reader, vars
<1>13. CASE EpochRequest
  BY <1>13, Zenon DEF EpochRequest, OnlyHeldRevives, HeldBack, reader, vars
<1>14. CASE VerdictNow
  <2>1. rpc' # "done"
    BY <1>14 DEF VerdictNow
  <2>2. QED
    BY <2>1, Zenon DEF OnlyHeldRevives
<1>15. CASE VerdictEpoch
  <2>1. rpc' # "done"
    BY <1>15 DEF VerdictEpoch
  <2>2. QED
    BY <2>1, Zenon DEF OnlyHeldRevives
<1>16. CASE VerdictSince
  <2>1. rpc' # "done"
    BY <1>16 DEF VerdictSince
  <2>2. QED
    BY <2>1, Zenon DEF OnlyHeldRevives
<1>17. CASE VerdictLast
  <2>1. rpc' # "done"
    BY <1>17 DEF VerdictLast
  <2>2. QED
    BY <2>1, Zenon DEF OnlyHeldRevives
<1>18. CASE VerdictTag
  <2>1. rpc' # "done"
    BY <1>18 DEF VerdictTag
  <2>2. QED
    BY <2>1, Zenon DEF OnlyHeldRevives
<1>19. CASE VerdictFinal
  <2>1. rpc = "final" /\ UNCHANGED <<r_sample, r_epoch>> /\ (all_fresh' => all_fresh /\ s_epoch = r_epoch)
    BY <1>19, Zenon DEF VerdictFinal
  <2>2. ASSUME all_fresh', NEW i \in Types
        PROVE  r_sample[i].gen + 1 >= r_epoch \/ HeldBack(r_sample[i])
    <3> DEFINE t == r_sample[i].at
               a == r_sample[i].arrived
               g == r_sample[i].gen
               q == r_sample[i].asked
    <3>1. t > r_since_at
      BY <2>1, <2>2, Zenon DEF Recent, Processed, RecentOne
    <3>2. t <= a + HoldMs => (g + 1 < r_epoch => t <= r_since_at)
      BY <2>1, <2>2 DEF Generations, Stamps, SeenUnlessHeld, HasSample, Processed, OldIsSeen
    <3>3. g \in Nat /\ t \in Nat /\ a \in Nat /\ q \in Nat
      BY GenTypes DEF Sample
    <3>4. q <= g + 1
      BY Zenon DEF Generations, Honoured
    <3> HIDE DEF a, g, t, q
    <3>5. g + 1 >= r_epoch \/ (t > a + HoldMs /\ q < r_epoch)
      BY <3>1, <3>2, <3>3, <3>4, Scalars, Consts
    <3>6. QED
      BY <3>5, Zenon DEF HeldBack, a, g, t, q
  <2>3. QED
    BY <2>1, <2>2, Zenon DEF OnlyHeldRevives, HeldBack
<1>20. CASE VerdictReturns
  <2>1. rpc' # "done"
    BY <1>20 DEF VerdictReturns
  <2>2. QED
    BY <2>1, Zenon DEF OnlyHeldRevives
<1>21. CASE UNCHANGED vars
  BY <1>21, Zenon DEF vars, OnlyHeldRevives, HeldBack, reader, vars
<1>22. QED
  BY <1>1, <1>2, <1>3, <1>4, <1>5, <1>6, <1>7, <1>8, <1>9, <1>10, <1>11, <1>12,
     <1>13, <1>14, <1>15, <1>16, <1>17, <1>18, <1>19, <1>20, <1>21 DEF Next,
     UartTask, GnssTask, Verdict

LEMMA GenerationsInit == ASSUME Init PROVE Generations
<1>1. BaseInv /\ DOMAIN fifo = {} /\ DOMAIN chunk = {} /\ DOMAIN todo = {} /\ DOMAIN held = {}
  BY BaseInit, Frames, EmptySeq DEF Init
<1>2. Epochs
  BY Consts DEF Init, Epochs
<1>3. Flight
  BY <1>1, Zenon DEF Flight
<1>4. \A i \in Types : Old(sample[i].at, sample[i].gen)
  BY Consts DEF Init, Old, OldIsDated, OldIsSeen
<1>5. \A i \in Types : ~HasSample(i)
  BY DEF Init, HasSample, Processed
<1>6. Stamps
  BY <1>1, <1>4, <1>5, Zenon DEF Stamps, OldUnlessHeld
<1>7. Requests /\ Emptied
  BY <1>1, Consts DEF Init, Requests, Emptied
<1>8. Honoured
  BY Consts DEF Init, Honoured, NoSample
<1>9. QED
  BY <1>2, <1>3, <1>6, <1>7, <1>8, Zenon DEF Generations

(* For every interleaving of the UART task, the reset sequence of the GNSS task
   and the reads of the verdict, and whatever the parser holds back: a verdict
   of all-fresh rests on frames that the receiver sent after the reset that
   began the epoch, or on frames that the parser held back beyond HoldMs and
   let go in a chunk whose look at the reset request came before the request. *)
THEOREM ResetForgets == ASSUME Window PROVE Spec => []OnlyHeldRevives
<1> DEFINE I == BaseInv /\ Recent /\ Generations /\ OnlyHeldRevives
<1>1. Init => I
  <2> SUFFICES ASSUME Init PROVE I
    OBVIOUS
  <2>1. BaseInv /\ Generations
    BY BaseInit, GenerationsInit
  <2>2. rpc = "idle"
    BY Zenon DEF Init
  <2>3. QED
    BY <2>1, <2>2 DEF Recent, Processed, OnlyHeldRevives
<1>2. I /\ [Next]_vars => I'
  <2> SUFFICES ASSUME I, [Next]_vars PROVE I'
    OBVIOUS
  <2>1. BaseInv' /\ Recent'
    BY BaseStep, RecentStep
  <2>2. Generations'
    BY EpochsStep, FlightStep, StampsStep, RequestsStep, EmptiedStep, HonouredStep,
       Zenon DEF Generations
  <2>3. OnlyHeldRevives'
    BY RevivalStep
  <2>4. QED
    BY <2>1, <2>2, <2>3
<1>3. I => OnlyHeldRevives
  OBVIOUS
<1>4. QED
  BY <1>1, <1>2, <1>3, PTL DEF Spec

=============================================================================

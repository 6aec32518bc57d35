----------------------------- MODULE RtcmParser -----------------------------
(***************************************************************************)
(* The RTCM3 frame parser of main/interface/ntrip_tx_core.c and the entry  *)
(* of ntrip_server_ingest_uart that feeds it.  The parser belongs to the   *)
(* UART task; the GNSS task only asks for it to be re-initialised after a  *)
(* receiver reset, and the UART task honours that before its next chunk.   *)
(*                                                                         *)
(* A frame is a preamble, two bytes that hold reserved bits and a length,  *)
(* the payload and three CRC bytes.  Which bytes have reserved bits set,   *)
(* what length two bytes encode and which frames pass the CRC are          *)
(* parameters: nothing below depends on CRC24Q itself.                     *)
(***************************************************************************)
EXTENDS Integers, Sequences

CONSTANTS Byte,          \* byte values
          Preamble,      \* 0xD3
          Reserved(_),   \* Reserved(b): b & 0xFC is not zero
          LenOf(_, _),   \* LenOf(b, c): payload length encoded by the bytes
          MaxPayload,    \* 1023
          CrcOk(_),      \* CrcOk(f): frame f carries the CRC of its bytes
          MaxChunk,      \* bound: bytes per UART chunk
          MaxFed,        \* bound: bytes fed to one initialisation
          MaxResets      \* bound: receiver resets

ASSUME ParserConstants ==
    /\ Preamble \in Byte
    /\ MaxPayload \in Nat
    /\ \A b, c \in Byte : LenOf(b, c) \in 0 .. MaxPayload
    /\ \A b \in Byte : Reserved(b) \in BOOLEAN
    /\ MaxChunk \in Nat /\ MaxFed \in Nat /\ MaxResets \in Nat

VARIABLES buf,               \* bytes accumulated
          need,              \* full frame length once the header is known, or 0
          input,             \* rest of the chunk being fed
          pc,                \* where the UART task is
          frames_ok, bytes_ok, bytes_discarded, crc_errors,
          s_ingest_reset_req, \* the receiver was reset
          resets,            \* receiver resets so far (bounded)
          fed,               \* history: bytes fed since the last initialisation
          out                \* history: frames emitted since then

counters == <<frames_ok, bytes_ok, bytes_discarded, crc_errors>>
parser == <<buf, need, counters>>
vars == <<parser, input, pc, s_ingest_reset_req, resets, fed, out>>

HeaderBytes == 3
Overhead == 6
MaxFrame == MaxPayload + Overhead      \* RTCM_MAX_FRAME_B
Chunk == UNION {[1 .. n -> Byte] : n \in 1 .. MaxChunk}
Location == {"idle", "feed", "topup", "process", "hunt"}

(* Mutation: the frame is taken to be one byte longer. *)
FrameLenLong(b) == LenOf(b[2], b[3]) + Overhead + 1

(* Length of the frame whose header starts b. *)
FrameLen(b) == LenOf(b[2], b[3]) + Overhead

(* s without its first n elements. *)
Drop(s, n) == SubSeq(s, n + 1, Len(s))
-----------------------------------------------------------------------------
Init ==
    /\ buf = <<>> /\ need = 0
    /\ frames_ok = 0 /\ bytes_ok = 0 /\ bytes_discarded = 0 /\ crc_errors = 0
    /\ input = <<>>
    /\ pc = "idle"
    /\ s_ingest_reset_req = FALSE
    /\ resets = 0
    /\ fed = <<>> /\ out = <<>>

(* GNSS task: ntrip_server_msg_epoch_reset, at any point of the parse. *)
EpochReset ==
    /\ resets < MaxResets
    /\ resets' = resets + 1
    /\ s_ingest_reset_req' = TRUE
    /\ UNCHANGED <<parser, input, pc, fed, out>>

rtcm_parser_init ==
    /\ buf' = <<>> /\ need' = 0
    /\ frames_ok' = 0 /\ bytes_ok' = 0 /\ bytes_discarded' = 0 /\ crc_errors' = 0

(* UART task: a chunk arrives. *)
Ingest(chunk) ==
    /\ pc = "idle"
    /\ IF s_ingest_reset_req
       THEN rtcm_parser_init /\ fed' = chunk /\ out' = <<>>
       ELSE UNCHANGED <<parser, out>> /\ fed' = fed \o chunk
    /\ s_ingest_reset_req' = FALSE
    /\ input' = chunk
    /\ pc' = "feed"
    /\ Len(fed') <= MaxFed
    /\ UNCHANGED resets

(* rtcm_parser_feed: with an empty buffer, hunt in the chunk itself. *)
FeedHunt ==
    /\ pc = "feed"
    /\ input # <<>> /\ buf = <<>>
    /\ input' = Drop(input, 1)
    /\ IF input[1] = Preamble
       THEN buf' = <<Preamble>> /\ pc' = "topup" /\ UNCHANGED bytes_discarded
       ELSE bytes_discarded' = bytes_discarded + 1 /\ UNCHANGED <<buf, pc>>
    /\ UNCHANGED <<need, frames_ok, bytes_ok, crc_errors, s_ingest_reset_req,
                   resets, fed, out>>

FeedMore ==
    /\ pc = "feed"
    /\ input # <<>> /\ buf # <<>>
    /\ pc' = "topup"
    /\ UNCHANGED <<parser, input, s_ingest_reset_req, resets, fed, out>>

FeedDone ==
    /\ pc = "feed"
    /\ input = <<>>
    /\ pc' = "idle"
    /\ UNCHANGED <<parser, input, s_ingest_reset_req, resets, fed, out>>

(* The next decision point: the header, then the whole frame. *)
Target == IF Len(buf) < HeaderBytes THEN HeaderBytes ELSE need

TopUp ==
    /\ pc = "topup"
    /\ LET want == Target - Len(buf)
           take == IF want < Len(input) THEN want ELSE Len(input)
       IN  /\ buf' = buf \o SubSeq(input, 1, take)
           /\ input' = Drop(input, take)
           /\ pc' = IF Len(buf) + take = Target THEN "process" ELSE "feed"
    /\ UNCHANGED <<need, counters, s_ingest_reset_req, resets, fed, out>>

(* parser_process: wait for a header ... *)
AwaitHeader ==
    /\ pc = "process"
    /\ Len(buf) < HeaderBytes
    /\ need' = 0
    /\ pc' = "feed"
    /\ UNCHANGED <<buf, counters, input, s_ingest_reset_req, resets, fed, out>>

(* ... or for the rest of the frame it announces. *)
AwaitBody ==
    /\ pc = "process"
    /\ Len(buf) >= HeaderBytes
    /\ ~Reserved(buf[2])
    /\ Len(buf) < FrameLen(buf)
    /\ need' = FrameLen(buf)
    /\ pc' = "feed"
    /\ UNCHANGED <<buf, counters, input, s_ingest_reset_req, resets, fed, out>>

(* Give up the first byte and look for the next preamble in the buffer. *)
HuntFromSecond ==
    /\ buf' = Drop(buf, 1)
    /\ bytes_discarded' = bytes_discarded + 1
    /\ pc' = "hunt"

(* Mutation: the hunt starts at the false preamble itself. *)
FalsePreambleKept ==
    /\ pc = "process"
    /\ Len(buf) >= HeaderBytes
    /\ Reserved(buf[2])
    /\ pc' = "hunt"
    /\ UNCHANGED <<parser, input, s_ingest_reset_req, resets, fed, out>>

(* The preamble was a data byte. *)
FalsePreamble ==
    /\ pc = "process"
    /\ Len(buf) >= HeaderBytes
    /\ Reserved(buf[2])
    /\ HuntFromSecond
    /\ UNCHANGED <<need, frames_ok, bytes_ok, crc_errors, input, s_ingest_reset_req,
                   resets, fed, out>>

Complete == Len(buf) >= HeaderBytes /\ ~Reserved(buf[2]) /\ Len(buf) >= FrameLen(buf)
FirstFrame == SubSeq(buf, 1, FrameLen(buf))

Emit ==
    /\ pc = "process"
    /\ Complete
    /\ CrcOk(FirstFrame)
    /\ frames_ok' = frames_ok + 1
    /\ bytes_ok' = bytes_ok + FrameLen(buf)
    /\ out' = Append(out, FirstFrame)
    /\ buf' = Drop(buf, FrameLen(buf))
    /\ need' = 0
    /\ pc' = IF Len(buf) > FrameLen(buf) /\ buf[FrameLen(buf) + 1] # Preamble
             THEN "hunt" ELSE "process"
    /\ UNCHANGED <<bytes_discarded, crc_errors, input, s_ingest_reset_req, resets, fed>>

(* Mutation: a frame that fails its CRC is thrown away whole, with whatever
   real frame started inside it. *)
CrcErrorDropsAll ==
    /\ pc = "process"
    /\ Complete
    /\ ~CrcOk(FirstFrame)
    /\ crc_errors' = crc_errors + 1
    /\ buf' = Drop(buf, FrameLen(buf))
    /\ bytes_discarded' = bytes_discarded + FrameLen(buf)
    /\ pc' = "hunt"
    /\ UNCHANGED <<need, frames_ok, bytes_ok, input, s_ingest_reset_req, resets,
                   fed, out>>

CrcError ==
    /\ pc = "process"
    /\ Complete
    /\ ~CrcOk(FirstFrame)
    /\ crc_errors' = crc_errors + 1
    /\ HuntFromSecond
    /\ UNCHANGED <<need, frames_ok, bytes_ok, input, s_ingest_reset_req, resets,
                   fed, out>>

(* Mutation: bytes skipped while looking for a preamble are not counted. *)
HuntUncounted ==
    /\ pc = "hunt"
    /\ IF buf # <<>> /\ buf[1] # Preamble
       THEN buf' = Drop(buf, 1) /\ UNCHANGED <<bytes_discarded, need, pc>>
       ELSE need' = 0 /\ pc' = "process" /\ UNCHANGED <<buf, bytes_discarded>>
    /\ UNCHANGED <<frames_ok, bytes_ok, crc_errors, input, s_ingest_reset_req,
                   resets, fed, out>>

(* Mutation: the hunt ends without going back to the decisions. *)
HuntReturns ==
    /\ pc = "hunt"
    /\ IF buf # <<>> /\ buf[1] # Preamble
       THEN /\ buf' = Drop(buf, 1)
            /\ bytes_discarded' = bytes_discarded + 1
            /\ UNCHANGED <<need, pc>>
       ELSE need' = 0 /\ pc' = "feed" /\ UNCHANGED <<buf, bytes_discarded>>
    /\ UNCHANGED <<frames_ok, bytes_ok, crc_errors, input, s_ingest_reset_req,
                   resets, fed, out>>

(* parser_hunt_in_buf, one byte at a time. *)
Hunt ==
    /\ pc = "hunt"
    /\ IF buf # <<>> /\ buf[1] # Preamble
       THEN /\ buf' = Drop(buf, 1)
            /\ bytes_discarded' = bytes_discarded + 1
            /\ UNCHANGED <<need, pc>>
       ELSE need' = 0 /\ pc' = "process" /\ UNCHANGED <<buf, bytes_discarded>>
    /\ UNCHANGED <<frames_ok, bytes_ok, crc_errors, input, s_ingest_reset_req,
                   resets, fed, out>>

Feed == FeedHunt \/ FeedMore \/ FeedDone \/ TopUp
Process == AwaitHeader \/ AwaitBody \/ FalsePreamble \/ Emit \/ CrcError \/ Hunt

Next == EpochReset \/ (\E chunk \in Chunk : Ingest(chunk)) \/ Feed \/ Process

Spec == Init /\ [][Next]_vars

(* The UART task runs until it has digested the chunk it read. *)
FairSpec == Spec /\ WF_vars(Feed \/ Process)
-----------------------------------------------------------------------------
(* Type invariant of the parser; buf has room for RTCM_MAX_FRAME_B bytes. *)
TypeOK ==
    /\ buf \in Seq(Byte) /\ Len(buf) <= MaxFrame
    /\ need \in 0 .. MaxFrame
    /\ input \in Seq(Byte)
    /\ pc \in Location
    /\ frames_ok \in Nat /\ bytes_ok \in Nat
    /\ bytes_discarded \in Nat /\ crc_errors \in Nat
    /\ s_ingest_reset_req \in BOOLEAN
    /\ resets \in Nat
    /\ fed \in Seq(Byte)
    /\ out \in Seq(Seq(Byte))

(* What rtcm_parser_feed relies on between two calls of parser_process
   (ntrip_tx_core.c: "On return, one of these invariants holds"): with a wrong
   need, target - have wraps and the copy runs past the buffer. *)
ReadyForInput ==
    pc \in {"idle", "feed", "topup"} =>
      \/ buf = <<>>
      \/ /\ buf[1] = Preamble
         /\ \/ Len(buf) < HeaderBytes
            \/ need = FrameLen(buf) /\ Len(buf) < need

(* Every byte fed is in a frame, counted as garbage, buffered or still to be
   read, however the input is cut and wherever the garbage is. *)
BytesConserved ==
    Len(fed) = bytes_ok + bytes_discarded + Len(buf) + Len(input)

(* The reference: frames of a byte string read from position p on, trying a
   frame at every preamble and moving on by one byte when there is none. *)
FrameAt(s, p) ==
    /\ s[p] = Preamble
    /\ p + HeaderBytes - 1 <= Len(s)
    /\ ~Reserved(s[p + 1])

EndAt(s, p) == p + LenOf(s[p + 1], s[p + 2]) + Overhead

(* The frames from p on, given those from every later position. *)
ReadAt(s, p, later) ==
    IF p > Len(s) THEN <<>>
    ELSE IF s[p] = Preamble /\ p + HeaderBytes - 1 > Len(s) THEN <<>>
    ELSE IF ~FrameAt(s, p) THEN later[p + 1]
    ELSE IF EndAt(s, p) > Len(s) + 1 THEN <<>>
    ELSE IF CrcOk(SubSeq(s, p, EndAt(s, p) - 1))
         THEN <<SubSeq(s, p, EndAt(s, p) - 1)>> \o later[EndAt(s, p)]
         ELSE later[p + 1]

FramesFrom(s) == LET from[p \in 1 .. Len(s) + 1] == ReadAt(s, p, from) IN from
Frames(s) == FramesFrom(s)[1]

(* Chunk boundaries are arbitrary (ntrip_tx_core.h): once a chunk is digested
   the frames emitted are those of the bytes fed, read as one string. *)
SameAsWhole == pc = "idle" => out = Frames(fed)

(* Every chunk is digested: parser_process does not loop for ever on any
   buffer and the feed loop always moves. *)
Digests == pc # "idle" ~> pc = "idle"

(***************************************************************************)
(* The inductive invariant: while the buffer is being digested it still    *)
(* fits, and a topped-up buffer never exceeds its decision point.          *)
(***************************************************************************)
IInv ==
    /\ TypeOK
    /\ ReadyForInput
    /\ BytesConserved
    /\ pc = "process" => buf = <<>> \/ buf[1] = Preamble
    /\ pc = "topup" => buf # <<>>
    /\ pc = "idle" => input = <<>>
=============================================================================

-------------------------- MODULE RtcmParserProofs --------------------------
(***************************************************************************)
(* Proofs about RtcmParser, for every byte alphabet, length encoding,      *)
(* checksum and chunking of the input.                                     *)
(***************************************************************************)
EXTENDS RtcmParser, SequenceTheorems, WellFoundedInduction, TLAPS

(* What is left of a sequence after its first n elements. *)
LEMMA DropOK ==
    ASSUME NEW s \in Seq(Byte), NEW n \in 0 .. Len(s)
    PROVE  /\ Drop(s, n) \in Seq(Byte)
           /\ Len(Drop(s, n)) = Len(s) - n
           /\ \A i \in 1 .. Len(s) - n : Drop(s, n)[i] = s[n + i]
  BY DEF Drop

(* A prefix of a sequence. *)
LEMMA TakeOK ==
    ASSUME NEW s \in Seq(Byte), NEW n \in 0 .. Len(s)
    PROVE  /\ SubSeq(s, 1, n) \in Seq(Byte)
           /\ Len(SubSeq(s, 1, n)) = n
           /\ \A i \in 1 .. n : SubSeq(s, 1, n)[i] = s[i]
  OBVIOUS

(* Joining two byte strings. *)
LEMMA JoinOK ==
    ASSUME NEW s \in Seq(Byte), NEW t \in Seq(Byte)
    PROVE  /\ s \o t \in Seq(Byte)
           /\ Len(s \o t) = Len(s) + Len(t)
           /\ \A i \in 1 .. Len(s) : (s \o t)[i] = s[i]
           /\ \A i \in 1 .. Len(t) : (s \o t)[Len(s) + i] = t[i]
  OBVIOUS

(* With a header in the buffer the announced frame fits into it. *)
LEMMA FrameFits ==
    ASSUME NEW b \in Seq(Byte), Len(b) >= HeaderBytes
    PROVE  FrameLen(b) \in Overhead .. MaxFrame /\ FrameLen(b) \in Nat
<1>1. b[2] \in Byte /\ b[3] \in Byte
  BY DEF HeaderBytes
<1>2. LenOf(b[2], b[3]) \in 0 .. MaxPayload /\ MaxPayload \in Nat
  BY <1>1, ParserConstants
<1>3. QED
  BY <1>2 DEF FrameLen, Overhead, MaxFrame

(***************************************************************************)
(* The inductive invariant.  The part that is not about the reset request  *)
(* is named, so that it can be proved without Boolean variables.           *)
(***************************************************************************)
ParserInv ==
    /\ buf \in Seq(Byte) /\ Len(buf) <= MaxFrame
    /\ need \in 0 .. MaxFrame
    /\ input \in Seq(Byte)
    /\ pc \in Location
    /\ frames_ok \in Nat /\ bytes_ok \in Nat
    /\ bytes_discarded \in Nat /\ crc_errors \in Nat
    /\ resets \in Nat
    /\ fed \in Seq(Byte)
    /\ out \in Seq(Seq(Byte))
    /\ ReadyForInput
    /\ BytesConserved
    /\ pc = "process" => buf = <<>> \/ buf[1] = Preamble
    /\ pc = "topup" => buf # <<>>
    /\ pc = "idle" => input = <<>>

(* The two forms agree. *)
LEMMA IInvParts == IInv <=> ParserInv /\ s_ingest_reset_req \in BOOLEAN
  BY DEF IInv, ParserInv, TypeOK

(* The buffer as plain facts. *)
LEMMA BufFacts ==
    ASSUME ParserInv
    PROVE  /\ Len(buf) \in Nat /\ Len(input) \in Nat /\ Len(fed) \in Nat
           /\ buf # <<>> <=> Len(buf) > 0
           /\ input # <<>> <=> Len(input) > 0
           /\ MaxFrame \in Nat /\ MaxFrame >= Overhead
           /\ bytes_ok \in Nat /\ bytes_discarded \in Nat
           /\ Len(fed) = bytes_ok + bytes_discarded + Len(buf) + Len(input)
<1>1. /\ buf \in Seq(Byte) /\ input \in Seq(Byte) /\ fed \in Seq(Byte)
      /\ bytes_ok \in Nat /\ bytes_discarded \in Nat
      /\ Len(fed) = bytes_ok + bytes_discarded + Len(buf) + Len(input)
  BY DEF ParserInv, BytesConserved
<1>2. MaxFrame \in Nat /\ MaxFrame >= Overhead
  BY ParserConstants DEF MaxFrame, Overhead
<1>3. QED
  BY <1>1, <1>2

(* The initial state satisfies the invariant. *)
LEMMA InitOK == Init => ParserInv
<1> SUFFICES ASSUME Init PROVE ParserInv
  OBVIOUS
<1>1. MaxFrame \in Nat
  BY ParserConstants DEF MaxFrame, Overhead
<1>2. QED
  BY <1>1 DEF Init, ParserInv, ReadyForInput, BytesConserved, Location

(* A reset request touches nothing of the parser. *)
LEMMA EpochResetOK ==
    ASSUME ParserInv, EpochReset
    PROVE  ParserInv'
  BY DEF ParserInv, EpochReset, parser, counters, ReadyForInput, BytesConserved, FrameLen

(* A chunk is accounted for when it is handed to the parser. *)
LEMMA IngestOK ==
    ASSUME ParserInv, NEW chunk \in Chunk, Ingest(chunk)
    PROVE  ParserInv'
<1>1. chunk \in Seq(Byte) /\ Len(chunk) \in Nat
  BY DEF Chunk
<1>2. /\ pc = "idle" /\ pc' = "feed" /\ input' = chunk /\ resets' = resets
      /\ input = <<>>
  BY DEF Ingest, ParserInv
<1>3. MaxFrame \in Nat
  BY BufFacts
<1>4. CASE s_ingest_reset_req
  BY <1>1, <1>2, <1>3, <1>4 DEF Ingest, rtcm_parser_init, ParserInv, ReadyForInput,
     BytesConserved, Location
<1>5. CASE ~s_ingest_reset_req
  <2>1. /\ UNCHANGED <<buf, need, frames_ok, bytes_ok, bytes_discarded, crc_errors, out>>
        /\ fed' = fed \o chunk
    BY <1>5 DEF Ingest, parser, counters
  <2>2. fed' \in Seq(Byte) /\ Len(fed') = Len(fed) + Len(chunk)
    BY <1>1, <2>1 DEF ParserInv
  <2>3. BytesConserved'
    BY <1>1, <1>2, <2>1, <2>2 DEF ParserInv, BytesConserved
  <2>4. ReadyForInput'
    BY <1>2, <2>1 DEF ParserInv, ReadyForInput, FrameLen
  <2>5. QED
    BY <1>1, <1>2, <2>1, <2>2, <2>3, <2>4 DEF ParserInv, Location
<1>6. QED
  BY <1>4, <1>5

(* Hunting in the input counts what it passes. *)
LEMMA FeedHuntOK ==
    ASSUME ParserInv, FeedHunt
    PROVE  ParserInv'
<1>1. /\ pc = "feed" /\ input # <<>> /\ buf = <<>> /\ input' = Drop(input, 1)
      /\ UNCHANGED <<need, frames_ok, bytes_ok, crc_errors, resets, fed, out>>
  BY DEF FeedHunt
<1>2. /\ input \in Seq(Byte) /\ Len(input) > 0 /\ 1 \in 0 .. Len(input)
      /\ MaxFrame \in Nat /\ MaxFrame >= Overhead
  BY <1>1, BufFacts DEF ParserInv
<1>3. input' \in Seq(Byte) /\ Len(input') = Len(input) - 1
  BY <1>1, <1>2, DropOK
<1>4. CASE input[1] = Preamble
  <2>1. buf' = <<Preamble>> /\ pc' = "topup" /\ bytes_discarded' = bytes_discarded
    BY <1>4 DEF FeedHunt
  <2>2. buf' \in Seq(Byte) /\ Len(buf') = 1 /\ buf'[1] = Preamble
    BY <2>1, ParserConstants
  <2>3. BytesConserved'
    <3>1. Len(buf) = 0 /\ Len(buf') = 1
      BY <1>1, <2>2
    <3>2. QED
      BY <1>1, <1>3, <2>1, <3>1, BufFacts DEF BytesConserved
  <2>4. QED
    BY <1>1, <1>2, <1>3, <2>1, <2>2, <2>3 DEF ParserInv, ReadyForInput, Location,
       HeaderBytes, Overhead
<1>5. CASE input[1] # Preamble
  <2>1. UNCHANGED <<buf, pc>> /\ bytes_discarded' = bytes_discarded + 1
    BY <1>5 DEF FeedHunt
  <2>2. BytesConserved'
    BY <1>1, <1>3, <2>1, BufFacts DEF BytesConserved
  <2>3. QED
    BY <1>1, <1>2, <1>3, <2>1, <2>2 DEF ParserInv, ReadyForInput, Location
<1>6. QED
  BY <1>4, <1>5

(* Steps that only decide where to go on. *)
LEMMA FeedGoOK ==
    ASSUME ParserInv, FeedMore \/ FeedDone
    PROVE  ParserInv'
<1>1. /\ pc = "feed" /\ pc' \in {"topup", "idle"}
      /\ pc' = "topup" => buf # <<>>
      /\ pc' = "idle" => input = <<>>
      /\ UNCHANGED <<buf, need, frames_ok, bytes_ok, bytes_discarded, crc_errors,
                     input, resets, fed, out>>
  BY DEF FeedMore, FeedDone, parser, counters
<1>2. ReadyForInput'
  BY <1>1 DEF ParserInv, ReadyForInput, FrameLen
<1>3. BytesConserved'
  BY <1>1 DEF ParserInv, BytesConserved
<1>4. QED
  BY <1>1, <1>2, <1>3 DEF ParserInv, Location

(* Topping up stops at the decision point at the latest. *)
LEMMA TopUpOK ==
    ASSUME ParserInv, TopUp
    PROVE  ParserInv'
<1> DEFINE t == Target
           want == t - Len(buf)
           take == IF want < Len(input) THEN want ELSE Len(input)
           more == SubSeq(input, 1, take)
<1>1. /\ pc = "topup" /\ buf' = buf \o more /\ input' = Drop(input, take)
      /\ pc' = IF Len(buf) + take = t THEN "process" ELSE "feed"
      /\ UNCHANGED <<need, frames_ok, bytes_ok, bytes_discarded, crc_errors, resets,
                     fed, out>>
  BY DEF TopUp, counters
<1>2. /\ buf \in Seq(Byte) /\ input \in Seq(Byte) /\ Len(buf) \in Nat /\ Len(buf) > 0
      /\ Len(input) \in Nat /\ need \in 0 .. MaxFrame /\ MaxFrame \in Nat
      /\ MaxFrame >= 6
  BY <1>1, BufFacts DEF ParserInv, Overhead
<1>3. /\ buf[1] = Preamble
      /\ \/ Len(buf) < 3
         \/ need = FrameLen(buf) /\ Len(buf) < need
  BY <1>1 DEF ParserInv, ReadyForInput, HeaderBytes
<1>4. t \in Nat /\ Len(buf) < t /\ t <= MaxFrame
  BY <1>2, <1>3 DEF Target, HeaderBytes
<1> HIDE DEF t
<1>5. take \in 0 .. Len(input) /\ Len(buf) + take <= t
  BY <1>2, <1>4
<1> HIDE DEF take
<1>6. more \in Seq(Byte) /\ Len(more) = take
  BY <1>2, <1>5, TakeOK
<1>7. input' \in Seq(Byte) /\ Len(input') = Len(input) - take
  BY <1>1, <1>2, <1>5, DropOK
<1> HIDE DEF more
<1>8. /\ buf' \in Seq(Byte) /\ Len(buf') = Len(buf) + take
      /\ \A i \in 1 .. Len(buf) : buf'[i] = buf[i]
  <2>1. /\ buf \o more \in Seq(Byte) /\ Len(buf \o more) = Len(buf) + Len(more)
        /\ \A i \in 1 .. Len(buf) : (buf \o more)[i] = buf[i]
    BY <1>2, <1>6, JoinOK
  <2>2. QED
    BY <1>1, <1>6, <2>1
<1>9. buf'[1] = Preamble /\ buf' # <<>> /\ Len(buf') <= MaxFrame
  BY <1>2, <1>3, <1>4, <1>5, <1>8
<1>10. BytesConserved'
  BY <1>1, <1>2, <1>5, <1>7, <1>8, BufFacts, SMTT(30) DEF BytesConserved
<1>11. ReadyForInput'
  <2>1. CASE Len(buf) + take = t
    BY <1>1, <2>1 DEF ReadyForInput
  <2>2. CASE Len(buf) + take # t /\ Len(buf) < 3
    BY <1>2, <1>4, <1>5, <1>8, <1>9, <2>2 DEF ReadyForInput, HeaderBytes, t, Target
  <2>3. CASE Len(buf) + take # t /\ ~(Len(buf) < 3)
    <3>1. t = need /\ need = FrameLen(buf)
      BY <1>2, <1>3, <2>3 DEF t, Target, HeaderBytes
    <3>2. buf'[2] = buf[2] /\ buf'[3] = buf[3]
      BY <1>2, <1>8, <2>3
    <3>3. need' = FrameLen(buf') /\ Len(buf') < need'
      <4>1. FrameLen(buf') = FrameLen(buf)
        BY <3>2 DEF FrameLen
      <4>2. Len(buf') < t
        BY <1>2, <1>4, <1>5, <1>8, <2>3, SMTT(30)
      <4>3. QED
        BY <1>1, <3>1, <4>1, <4>2
    <3>4. QED
      BY <1>9, <3>3 DEF ReadyForInput, FrameLen
  <2>4. QED
    BY <2>1, <2>2, <2>3
<1>12. pc' \in Location /\ pc' # "idle" /\ pc' # "topup"
  BY <1>1 DEF Location
<1>13. QED
  BY <1>1, <1>2, <1>7, <1>8, <1>9, <1>10, <1>11, <1>12 DEF ParserInv

(* parser_process returns only with what rtcm_parser_feed relies on. *)
LEMMA AwaitOK ==
    ASSUME ParserInv, AwaitHeader \/ AwaitBody
    PROVE  ParserInv'
<1>1. /\ pc = "process" /\ pc' = "feed"
      /\ UNCHANGED <<buf, input, frames_ok, bytes_ok, bytes_discarded, crc_errors,
                     resets, fed, out>>
  BY DEF AwaitHeader, AwaitBody, counters
<1>2. BytesConserved'
  BY <1>1 DEF ParserInv, BytesConserved
<1>3. need' \in 0 .. MaxFrame /\ ReadyForInput'
  <2>1. buf \in Seq(Byte) /\ MaxFrame \in Nat /\ (buf = <<>> \/ buf[1] = Preamble)
    BY <1>1, BufFacts DEF ParserInv
  <2>2. CASE AwaitHeader
    BY <1>1, <2>1, <2>2 DEF AwaitHeader, ReadyForInput
  <2>3. CASE AwaitBody
    <3>1. FrameLen(buf) \in Overhead .. MaxFrame
      BY <2>1, <2>3, FrameFits DEF AwaitBody
    <3>2. need' = FrameLen(buf) /\ Len(buf) < FrameLen(buf) /\ FrameLen(buf)' = FrameLen(buf)
      BY <1>1, <2>3 DEF AwaitBody, FrameLen
    <3>3. QED
      BY <1>1, <2>1, <3>1, <3>2 DEF ReadyForInput, Overhead
  <2>4. QED
    BY <2>2, <2>3
<1>4. QED
  BY <1>1, <1>2, <1>3 DEF ParserInv, Location

(* Dropping n bytes from the front of the buffer, all of them counted. *)
LEMMA ConsumeOK ==
    ASSUME ParserInv, NEW n \in 1 .. Len(buf), buf' = Drop(buf, n),
           UNCHANGED <<input, resets, fed>>,
           need' \in 0 .. MaxFrame, frames_ok' \in Nat, crc_errors' \in Nat,
           out' \in Seq(Seq(Byte)),
           bytes_ok' \in Nat, bytes_discarded' \in Nat,
           bytes_ok' + bytes_discarded' = bytes_ok + bytes_discarded + n,
           \/ pc' = "hunt"
           \/ pc' = "process" /\ (n < Len(buf) => buf[n + 1] = Preamble)
    PROVE  ParserInv'
<1>1. /\ buf \in Seq(Byte) /\ Len(buf) \in Nat /\ MaxFrame \in Nat
      /\ Len(buf) <= MaxFrame /\ n \in 0 .. Len(buf)
  BY BufFacts DEF ParserInv
<1>2. /\ buf' \in Seq(Byte) /\ Len(buf') = Len(buf) - n
      /\ \A i \in 1 .. Len(buf) - n : buf'[i] = buf[n + i]
  BY <1>1, DropOK
<1>3. BytesConserved'
  <2>1. /\ bytes_ok \in Nat /\ bytes_discarded \in Nat /\ Len(input) \in Nat
        /\ Len(fed) = bytes_ok + bytes_discarded + Len(buf) + Len(input)
        /\ Len(fed') = Len(fed) /\ Len(input') = Len(input)
    BY BufFacts
  <2>2. bytes_ok' + bytes_discarded' + Len(buf') = bytes_ok + bytes_discarded + Len(buf)
    <3>1. n \in Nat /\ Len(buf') \in Nat /\ Len(buf) = Len(buf') + n
      BY <1>1, <1>2, SMTT(30)
    <3> DEFINE c == bytes_ok'
               d == bytes_discarded'
               k == Len(buf)
               l == Len(buf')
    <3>2. c \in Nat /\ d \in Nat /\ c + d = bytes_ok + bytes_discarded + n
      OBVIOUS
    <3>3. k \in Nat /\ l \in Nat /\ k = l + n /\ n \in Nat
      BY <1>1, <3>1
    <3> HIDE DEF c, d, k, l
    <3>4. c + d + l = bytes_ok + bytes_discarded + k
      BY <2>1, <3>2, <3>3
    <3>5. QED
      BY <3>4 DEF c, d, k, l
  <2>3. Len(buf') \in Nat
    BY <1>2
  <2>4. QED
    BY <1>1, <2>1, <2>2, <2>3 DEF BytesConserved
<1>4. pc' = "process" => buf' = <<>> \/ buf'[1] = Preamble
  <2>1. CASE n < Len(buf)
    <3>1. 1 \in 1 .. Len(buf) - n
      BY <1>1, <2>1
    <3>2. buf'[1] = buf[n + 1]
      BY <1>2, <3>1
    <3>3. pc' = "process" => buf[n + 1] = Preamble
      BY <2>1
    <3>4. QED
      BY <3>2, <3>3
  <2>2. CASE ~(n < Len(buf))
    <3>1. Len(buf') = 0
      BY <1>1, <1>2, <2>2
    <3>2. QED
      BY <1>2, <3>1
  <2>3. QED
    BY <2>1, <2>2
<1>5. QED
  BY <1>1, <1>2, <1>3, <1>4, SMTT(30) DEF ParserInv, ReadyForInput, Location

(* A CRC-valid frame leaves the buffer and is counted once. *)
LEMMA EmitOK ==
    ASSUME ParserInv, Emit
    PROVE  ParserInv'
<1> DEFINE n == FrameLen(buf)
<1>1. /\ Complete /\ frames_ok' = frames_ok + 1 /\ bytes_ok' = bytes_ok + n
      /\ out' = Append(out, FirstFrame) /\ buf' = Drop(buf, n) /\ need' = 0
      /\ pc' = IF Len(buf) > n /\ buf[n + 1] # Preamble THEN "hunt" ELSE "process"
      /\ UNCHANGED <<bytes_discarded, crc_errors, input, resets, fed>>
  BY DEF Emit
<1>2. /\ buf \in Seq(Byte) /\ Len(buf) >= HeaderBytes /\ Len(buf) >= n
      /\ MaxFrame \in Nat /\ Len(buf) \in Nat
  BY <1>1, BufFacts DEF ParserInv, Complete
<1>3. n \in Overhead .. MaxFrame /\ n \in Nat
  BY <1>2, FrameFits
<1>4. FirstFrame \in Seq(Byte)
  BY <1>2, <1>3, TakeOK DEF FirstFrame
<1>5. out' \in Seq(Seq(Byte))
  BY <1>1, <1>4 DEF ParserInv
<1> HIDE DEF n
<1>6. n \in 1 .. Len(buf)
  BY <1>2, <1>3 DEF Overhead
<1>7. /\ frames_ok \in Nat /\ crc_errors \in Nat /\ bytes_ok \in Nat
      /\ bytes_discarded \in Nat
  BY DEF ParserInv
<1>8. /\ frames_ok' \in Nat /\ crc_errors' \in Nat /\ bytes_ok' \in Nat
      /\ bytes_discarded' \in Nat /\ need' \in 0 .. MaxFrame
      /\ bytes_ok' + bytes_discarded' = bytes_ok + bytes_discarded + n
  BY <1>1, <1>2, <1>3, <1>7
<1>9. \/ pc' = "hunt"
      \/ pc' = "process" /\ (n < Len(buf) => buf[n + 1] = Preamble)
  BY <1>1, <1>2, <1>3
<1>10. QED
  BY <1>1, <1>5, <1>6, <1>8, <1>9, ConsumeOK

(* A false preamble or a frame with a wrong CRC costs one counted byte. *)
LEMMA HuntFromSecondOK ==
    ASSUME ParserInv, FalsePreamble \/ CrcError
    PROVE  ParserInv'
<1>1. /\ HuntFromSecond /\ Len(buf) >= HeaderBytes
      /\ UNCHANGED <<input, resets, fed, need, frames_ok, bytes_ok, out>>
      /\ crc_errors' = crc_errors \/ crc_errors' = crc_errors + 1
  BY DEF FalsePreamble, CrcError, Complete
<1>2. /\ buf' = Drop(buf, 1) /\ bytes_discarded' = bytes_discarded + 1 /\ pc' = "hunt"
  BY <1>1 DEF HuntFromSecond
<1>3. /\ need \in 0 .. MaxFrame /\ frames_ok \in Nat /\ crc_errors \in Nat
      /\ out \in Seq(Seq(Byte)) /\ bytes_ok \in Nat /\ bytes_discarded \in Nat
      /\ 1 \in 1 .. Len(buf)
  BY <1>1, BufFacts DEF ParserInv, HeaderBytes
<1>4. /\ crc_errors' \in Nat /\ bytes_discarded' \in Nat
      /\ bytes_ok' + bytes_discarded' = bytes_ok + bytes_discarded + 1
  BY <1>1, <1>2, <1>3
<1>5. QED
  BY <1>1, <1>2, <1>3, <1>4, ConsumeOK

(* parser_hunt_in_buf ends with an empty buffer or at a preamble. *)
LEMMA HuntOK ==
    ASSUME ParserInv, Hunt
    PROVE  ParserInv'
<1>1. /\ pc = "hunt"
      /\ UNCHANGED <<frames_ok, bytes_ok, crc_errors, input, resets, fed, out>>
  BY DEF Hunt
<1>2. CASE buf # <<>> /\ buf[1] # Preamble
  <2>1. /\ buf' = Drop(buf, 1) /\ bytes_discarded' = bytes_discarded + 1
        /\ need' = need /\ pc' = "hunt"
    BY <1>1, <1>2 DEF Hunt
  <2>2. /\ need \in 0 .. MaxFrame /\ frames_ok \in Nat /\ crc_errors \in Nat
        /\ out \in Seq(Seq(Byte)) /\ bytes_ok \in Nat /\ bytes_discarded \in Nat
        /\ 1 \in 1 .. Len(buf)
    BY <1>2, BufFacts DEF ParserInv
  <2>3. /\ bytes_discarded' \in Nat
        /\ bytes_ok' + bytes_discarded' = bytes_ok + bytes_discarded + 1
    BY <1>1, <2>1, <2>2
  <2>4. QED
    BY <1>1, <2>1, <2>2, <2>3, ConsumeOK
<1>3. CASE ~(buf # <<>> /\ buf[1] # Preamble)
  <2>1. need' = 0 /\ pc' = "process" /\ UNCHANGED <<buf, bytes_discarded>>
    BY <1>3 DEF Hunt
  <2>2. MaxFrame \in Nat
    BY BufFacts
  <2>3. QED
    BY <1>1, <1>3, <2>1, <2>2 DEF ParserInv, ReadyForInput, BytesConserved, Location
<1>4. QED
  BY <1>2, <1>3

(* The invariant is inductive. *)
LEMMA NextOK == ParserInv /\ [Next]_vars => ParserInv'
<1> SUFFICES ASSUME ParserInv, [Next]_vars PROVE ParserInv'
  OBVIOUS
<1>1. CASE Next
  BY <1>1, EpochResetOK, IngestOK, FeedHuntOK, FeedGoOK, TopUpOK, AwaitOK, EmitOK,
     HuntFromSecondOK, HuntOK DEF Next, Feed, Process
<1>2. CASE UNCHANGED vars
  BY <1>2 DEF vars, parser, counters, ParserInv, ReadyForInput, BytesConserved, FrameLen
<1>3. QED
  BY <1>1, <1>2

(* The reset request stays a Boolean. *)
LEMMA ResetReqOK ==
    s_ingest_reset_req \in BOOLEAN /\ [Next]_vars => (s_ingest_reset_req \in BOOLEAN)'
<1> SUFFICES ASSUME s_ingest_reset_req \in BOOLEAN, [Next]_vars
             PROVE  s_ingest_reset_req' \in BOOLEAN
  OBVIOUS
<1>1. \/ s_ingest_reset_req' = TRUE \/ s_ingest_reset_req' = FALSE
      \/ s_ingest_reset_req' = s_ingest_reset_req
  BY Zenon DEF Next, Feed, Process, EpochReset, Ingest, FeedHunt, FeedMore, FeedDone,
     TopUp, AwaitHeader, AwaitBody, FalsePreamble, Emit, CrcError, Hunt, vars
<1>2. QED
  BY <1>1, Zenon

(* The inductive invariant of the parser holds in every reachable state. *)
THEOREM ParserInvariant == Spec => []IInv
<1>1. Init => s_ingest_reset_req \in BOOLEAN
  BY Zenon DEF Init
<1>2. QED
  BY <1>1, InitOK, NextOK, ResetReqOK, IInvParts, PTL DEF Spec

(* The parser's state is well typed; in particular no more than
   RTCM_MAX_FRAME_B bytes are ever copied into its buffer. *)
THEOREM ParserTypeCorrect == Spec => []TypeOK
<1>1. IInv => TypeOK
  BY DEF IInv
<1>2. QED
  BY <1>1, ParserInvariant, PTL

(* Whenever rtcm_parser_feed goes on, one of the three cases its comment lists
   holds, so target - have is positive. *)
THEOREM FeedRelies == Spec => []ReadyForInput
<1>1. IInv => ReadyForInput
  BY DEF IInv
<1>2. QED
  BY <1>1, ParserInvariant, PTL

(* Every byte fed is accounted for, whatever the alphabet, the checksum and
   the chunking. *)
THEOREM ParserConserves == Spec => []BytesConserved
<1>1. IInv => BytesConserved
  BY DEF IInv
<1>2. QED
  BY <1>1, ParserInvariant, PTL

-----------------------------------------------------------------------------
(***************************************************************************)
(* Chunking.  First the reference: its recursion has a solution and every  *)
(* position can be unfolded by one step.                                   *)
(***************************************************************************)

(* The end of a frame lies behind its first byte. *)
LEMMA EndBehind ==
    ASSUME NEW s \in Seq(Byte), NEW p \in 1 .. Len(s), FrameAt(s, p)
    PROVE  EndAt(s, p) \in Nat /\ EndAt(s, p) >= p + Overhead
<1>1. s[p + 1] \in Byte /\ s[p + 2] \in Byte /\ p \in Nat
  BY DEF FrameAt, HeaderBytes
<1>2. LenOf(s[p + 1], s[p + 2]) \in 0 .. MaxPayload /\ MaxPayload \in Nat
  BY <1>1, ParserConstants
<1>3. QED
  BY <1>1, <1>2 DEF EndAt, Overhead

(* What is read at p depends on what is read later, nothing else. *)
LEMMA ReadsLater ==
    ASSUME NEW s \in Seq(Byte), NEW p \in 1 .. Len(s) + 1, NEW f, NEW g,
           \A q \in p + 1 .. Len(s) + 1 : f[q] = g[q]
    PROVE  ReadAt(s, p, f) = ReadAt(s, p, g)
<1>1. CASE p > Len(s)
  BY <1>1 DEF ReadAt
<1>2. CASE p <= Len(s)
  <2>1. f[p + 1] = g[p + 1]
    BY <1>2
  <2>2. FrameAt(s, p) /\ EndAt(s, p) <= Len(s) + 1 => f[EndAt(s, p)] = g[EndAt(s, p)]
    BY <1>2, EndBehind DEF Overhead
  <2>3. FrameAt(s, p) => EndAt(s, p) \in Nat
    BY <1>2, EndBehind
  <2>4. QED
    BY <2>1, <2>2, <2>3 DEF ReadAt
<1>3. QED
  BY <1>1, <1>2

(* A non-empty set of naturals has a least element. *)
LEMMA LeastExists ==
    ASSUME NEW U \in SUBSET Nat, U # {}
    PROVE  \E m \in U : \A y \in U : ~(y < m)
<1>1. PICK m \in U : \A y \in U : ~(<<y, m>> \in OpToRel(<, Nat))
  BY NatLessThanWellFounded, WFMin, Zenon
<1>2. \A y \in U : ~(y < m)
  BY <1>1, Zenon DEF OpToRel
<1>3. QED
  BY <1>2, Zenon

(* The recursion has a solution: one for the last n positions extends to one
   more, so there is no least n without one. *)
LEMMA ReadsExist ==
    ASSUME NEW s \in Seq(Byte)
    PROVE  \E f : f = [p \in 1 .. Len(s) + 1 |-> ReadAt(s, p, f)]
<1> DEFINE L == Len(s)
           At(n) == (L + 1 - n) .. (L + 1)
           Solves(f, n) == f = [p \in At(n) |-> ReadAt(s, p, f)]
           Bad == {n \in 0 .. L : ~ \E f : Solves(f, n)}
<1>1. L \in Nat
  OBVIOUS
<1>2. Solves([p \in At(0) |-> <<>>], 0)
  <2>1. At(0) = {L + 1}
    BY <1>1
  <2>2. \A p \in At(0) : p > Len(s)
    BY <2>1, <1>1
  <2>3. \A p \in At(0) : ReadAt(s, p, [q \in At(0) |-> <<>>]) = <<>>
    BY <2>2, Zenon DEF ReadAt
  <2> HIDE DEF At, L
  <2>4. QED
    BY <2>3, Zenon
<1>3. ASSUME NEW n \in 1 .. L, NEW f, Solves(f, n - 1)
      PROVE  \E g : Solves(g, n)
  <2> DEFINE k == L + 1 - n
             g == [p \in At(n) |-> IF p = k THEN ReadAt(s, p, f) ELSE f[p]]
  <2>1. /\ k \in 1 .. L /\ \A p \in At(n) : p # k => p \in At(n - 1)
        /\ At(n) \subseteq 1 .. Len(s) + 1
        /\ \A p \in At(n) : \A q \in p + 1 .. Len(s) + 1 : q \in At(n) /\ q # k
    BY <1>1, <1>3, SMTT(30)
  <2> HIDE DEF At, k
  <2>2. \A p \in At(n) : \A q \in p + 1 .. Len(s) + 1 : f[q] = g[q]
    BY <2>1, Zenon
  <2>3. \A p \in At(n) : ReadAt(s, p, f) = ReadAt(s, p, g)
    <3> HIDE DEF g, L
    <3>1. QED
      BY <2>1, <2>2, ReadsLater
  <2>4. \A p \in At(n - 1) : f[p] = ReadAt(s, p, f)
    BY <1>3, Zenon
  <2>5. \A p \in At(n) : (IF p = k THEN ReadAt(s, p, f) ELSE f[p]) = ReadAt(s, p, f)
    BY <2>1, <2>4, Zenon
  <2>6. g = [p \in At(n) |-> ReadAt(s, p, f)]
    BY <2>5, Zenon
  <2>7. [p \in At(n) |-> ReadAt(s, p, f)] = [p \in At(n) |-> ReadAt(s, p, g)]
    <3> HIDE DEF g
    <3>1. QED
      BY <2>3, Zenon
  <2>8. Solves(g, n)
    <3> HIDE DEF g
    <3>1. QED
      BY <2>6, <2>7, Zenon
  <2>9. QED
    BY <2>8, Zenon
<1> HIDE DEF Solves
<1>4. Bad = {}
  <2> SUFFICES ASSUME Bad # {} PROVE FALSE
    OBVIOUS
  <2>1. Bad \in SUBSET Nat
    BY <1>1
  <2>2. PICK m \in Bad : \A y \in Bad : ~(y < m)
    <3> HIDE DEF Bad
    <3>1. QED
      BY <2>1, LeastExists, Zenon
  <2>3. m # 0
    BY <1>2, Zenon
  <2>4. m \in 1 .. L /\ m - 1 \in 0 .. L /\ m - 1 < m
    BY <1>1, <2>3
  <2>5. m - 1 \notin Bad
    BY <2>2, <2>4, Zenon
  <2>6. \E f : Solves(f, m - 1)
    BY <2>4, <2>5, Zenon
  <2>7. \E f : Solves(f, m)
    BY <2>4, <2>6, <1>3, Zenon
  <2>8. QED
    BY <2>7, Zenon
<1>5. L \in 0 .. L /\ At(L) = 1 .. Len(s) + 1
  BY <1>1
<1>6. \E f : Solves(f, L)
  BY <1>4, <1>5, Zenon
<1> HIDE DEF At
<1>7. QED
  BY <1>5, <1>6, Zenon DEF Solves

(* So FramesFrom is one. *)
LEMMA ReadsUnfold ==
    ASSUME NEW s \in Seq(Byte)
    PROVE  FramesFrom(s) = [p \in 1 .. Len(s) + 1 |-> ReadAt(s, p, FramesFrom(s))]
<1> DEFINE Sol(f) == f = [p \in 1 .. Len(s) + 1 |-> ReadAt(s, p, f)]
<1>1. \E f : Sol(f)
  BY ReadsExist, Zenon
<1>2. FramesFrom(s) = CHOOSE f : Sol(f)
  BY Zenon DEF FramesFrom
<1> HIDE DEF Sol
<1>3. Sol(FramesFrom(s))
  BY <1>1, <1>2, Zenon
<1>4. QED
  BY <1>3, Zenon DEF Sol

(* The frames read from a position, one step at a time. *)
LEMMA ReadsStep ==
    ASSUME NEW s \in Seq(Byte), NEW p \in 1 .. Len(s) + 1
    PROVE  FramesFrom(s)[p] = ReadAt(s, p, FramesFrom(s))
  BY ReadsUnfold, Zenon

(* They are a sequence of byte strings: there is no last position where they
   are not. *)
LEMMA ReadsType ==
    ASSUME NEW s \in Seq(Byte), NEW p \in 1 .. Len(s) + 1
    PROVE  FramesFrom(s)[p] \in Seq(Seq(Byte))
<1> DEFINE L == Len(s)
           F == FramesFrom(s)
           Bad == {n \in 0 .. L : F[L + 1 - n] \notin Seq(Seq(Byte))}
<1>1. L \in Nat
  OBVIOUS
<1> HIDE DEF F
<1>2. ASSUME NEW n \in 0 .. L, \A m \in 0 .. L : m < n => F[L + 1 - m] \in Seq(Seq(Byte))
      PROVE  F[L + 1 - n] \in Seq(Seq(Byte))
  <2> DEFINE k == L + 1 - n
  <2>1. k \in 1 .. Len(s) + 1
    BY <1>1
  <2>2. \A q \in k + 1 .. Len(s) + 1 : F[q] \in Seq(Seq(Byte))
    <3> TAKE q \in k + 1 .. Len(s) + 1
    <3>1. L + 1 - q \in 0 .. L /\ L + 1 - q < n /\ L + 1 - (L + 1 - q) = q
      BY <1>1, <2>1
    <3>2. F[L + 1 - (L + 1 - q)] \in Seq(Seq(Byte))
      BY <1>2, <3>1, Zenon
    <3>3. QED
      BY <3>1, <3>2, Zenon
  <2>3. F[k] = ReadAt(s, k, F)
    BY <2>1, ReadsStep, Zenon DEF F
  <2> SUFFICES F[k] \in Seq(Seq(Byte))
    OBVIOUS
  <2> HIDE DEF k
  <2>4. CASE k > Len(s)
    BY <2>3, <2>4 DEF ReadAt
  <2>5. CASE k <= Len(s)
    <3>1. F[k + 1] \in Seq(Seq(Byte)) /\ k \in 1 .. Len(s)
      BY <2>1, <2>2, <2>5
    <3>2. ASSUME FrameAt(s, k), EndAt(s, k) <= Len(s) + 1
          PROVE  <<SubSeq(s, k, EndAt(s, k) - 1)>> \o F[EndAt(s, k)] \in Seq(Seq(Byte))
      <4> DEFINE e == EndAt(s, k)
      <4>1. e \in Nat /\ e >= k + 6 /\ e <= Len(s) + 1
        BY <3>1, <3>2, EndBehind DEF Overhead
      <4> HIDE DEF e
      <4>2. SubSeq(s, k, e - 1) \in Seq(Byte)
        BY <3>1, <4>1
      <4>3. F[e] \in Seq(Seq(Byte))
        BY <2>1, <2>2, <4>1
      <4>4. <<SubSeq(s, k, e - 1)>> \o F[e] \in Seq(Seq(Byte))
        BY <4>2, <4>3
      <4>5. QED
        BY <4>4 DEF e
    <3>3. <<>> \in Seq(Seq(Byte))
      OBVIOUS
    <3>4. FrameAt(s, k) => EndAt(s, k) \in Nat
      BY <3>1, EndBehind
    <3>5. CASE ~FrameAt(s, k)
      BY <2>3, <3>1, <3>3, <3>5, Zenon DEF ReadAt
    <3>6. CASE FrameAt(s, k) /\ EndAt(s, k) > Len(s) + 1
      BY <2>3, <3>1, <3>3, <3>6, Zenon DEF ReadAt
    <3>7. CASE FrameAt(s, k) /\ EndAt(s, k) <= Len(s) + 1
      BY <2>3, <3>1, <3>2, <3>3, <3>7, Zenon DEF ReadAt
    <3>8. QED
      BY <1>1, <3>4, <3>5, <3>6, <3>7
  <2>6. QED
    BY <1>1, <2>1, <2>4, <2>5
<1>3. Bad = {}
  <2> SUFFICES ASSUME Bad # {} PROVE FALSE
    OBVIOUS
  <2>1. Bad \in SUBSET Nat
    BY <1>1
  <2>2. PICK m \in Bad : \A y \in Bad : ~(y < m)
    <3> HIDE DEF Bad
    <3>1. QED
      BY <2>1, LeastExists, Zenon
  <2>3. QED
    BY <1>2, <2>2, Zenon
<1>4. L + 1 - p \in 0 .. L /\ L + 1 - (L + 1 - p) = p
  BY <1>1
<1>5. F[L + 1 - (L + 1 - p)] \in Seq(Seq(Byte))
  BY <1>3, <1>4, Zenon
<1>6. QED
  BY <1>4, <1>5, Zenon DEF F

(***************************************************************************)
(* The parser against the reference.  Pos bytes of the input are done with;*)
(* what follows them is the buffer and the rest of the chunk, and for any  *)
(* string that begins with what was fed the frames emitted are the ones    *)
(* the reference reads before it gets to that place.                       *)
(***************************************************************************)
Pos == Len(fed) - Len(buf) - Len(input)

Unread ==
    /\ \A i \in 1 .. Len(buf) : fed[Pos + i] = buf[i]
    /\ \A i \in 1 .. Len(input) : fed[Pos + Len(buf) + i] = input[i]

Extends(s, t) == Len(t) <= Len(s) /\ \A i \in 1 .. Len(t) : s[i] = t[i]

SoFar == \A s \in Seq(Byte) : Extends(s, fed) => out \o FramesFrom(s)[Pos + 1] = Frames(s)

(* The header of a frame that is being waited for was found in order. *)
HeaderTested ==
    pc \in {"idle", "feed", "topup"} /\ Len(buf) >= HeaderBytes => ~Reserved(buf[2])

WholeInv == Unread /\ SoFar /\ HeaderTested

(* Where the parser stands, as plain facts. *)
LEMMA PosFacts ==
    ASSUME ParserInv
    PROVE  /\ Pos \in Nat /\ Pos + Len(buf) + Len(input) = Len(fed)
           /\ \A s \in Seq(Byte) : Extends(s, fed) => Pos + Len(buf) + Len(input) <= Len(s)
<1>1. /\ Len(buf) \in Nat /\ Len(input) \in Nat /\ Len(fed) \in Nat
      /\ bytes_ok \in Nat /\ bytes_discarded \in Nat
      /\ Len(fed) = bytes_ok + bytes_discarded + Len(buf) + Len(input)
  BY BufFacts
<1>2. Pos \in Nat /\ Pos + Len(buf) + Len(input) = Len(fed)
  BY <1>1 DEF Pos
<1>3. QED
  BY <1>2, <1>1 DEF Extends

(* The bytes of an extension are those of the buffer and of the chunk. *)
LEMMA ExtensionBytes ==
    ASSUME ParserInv, Unread, NEW s \in Seq(Byte), Extends(s, fed)
    PROVE  /\ \A i \in 1 .. Len(buf) : s[Pos + i] = buf[i]
           /\ \A i \in 1 .. Len(input) : s[Pos + Len(buf) + i] = input[i]
<1>1. /\ Len(buf) \in Nat /\ Len(input) \in Nat
      /\ Pos \in Nat /\ Pos + Len(buf) + Len(input) = Len(fed)
  BY PosFacts, BufFacts
<1> DEFINE q == Pos
<1> HIDE DEF q
<1>2. /\ \A i \in 1 .. Len(buf) : fed[q + i] = buf[i]
      /\ \A i \in 1 .. Len(input) : fed[q + Len(buf) + i] = input[i]
  BY DEF Unread, q
<1>3. q \in Nat /\ q + Len(buf) + Len(input) = Len(fed)
  BY <1>1 DEF q
<1>4. \A i \in 1 .. Len(fed) : s[i] = fed[i]
  BY DEF Extends
<1>5. \A i \in 1 .. Len(buf) : s[q + i] = buf[i]
  BY <1>1, <1>2, <1>3, <1>4
<1>6. \A i \in 1 .. Len(input) : s[q + Len(buf) + i] = input[i]
  BY <1>1, <1>2, <1>3, <1>4, SMTT(30)
<1>7. QED
  BY <1>5, <1>6 DEF q

(* Once a chunk is digested nothing more can be read. *)
LEMMA NothingLeft ==
    ASSUME ParserInv, WholeInv, pc = "idle"
    PROVE  out = Frames(fed)
<1> DEFINE p == Pos + 1
<1>1. /\ input = <<>> /\ fed \in Seq(Byte) /\ buf \in Seq(Byte) /\ out \in Seq(Seq(Byte))
      /\ Len(input) = 0 /\ Len(buf) \in Nat /\ Pos \in Nat /\ Pos + Len(buf) = Len(fed)
  <2>1. input = <<>> /\ fed \in Seq(Byte) /\ buf \in Seq(Byte) /\ out \in Seq(Seq(Byte))
    BY DEF ParserInv
  <2>2. Len(input) = 0 /\ Len(buf) \in Nat
    BY <2>1
  <2>3. QED
    BY <2>1, <2>2, PosFacts
<1>2. Extends(fed, fed)
  BY <1>1 DEF Extends
<1>3. \A i \in 1 .. Len(buf) : fed[Pos + i] = buf[i]
  BY DEF WholeInv, Unread
<1>4. p \in 1 .. Len(fed) + 1
  BY <1>1
<1>5. FramesFrom(fed)[p] = ReadAt(fed, p, FramesFrom(fed))
  BY <1>1, <1>4, ReadsStep
<1>6. /\ \/ buf = <<>>
         \/ /\ buf[1] = Preamble
            /\ \/ Len(buf) < HeaderBytes
               \/ need = FrameLen(buf) /\ Len(buf) < need
      /\ Len(buf) >= HeaderBytes => ~Reserved(buf[2])
  BY DEF ParserInv, ReadyForInput, WholeInv, HeaderTested
<1>7. ReadAt(fed, p, FramesFrom(fed)) = <<>>
  <2> DEFINE F == FramesFrom(fed)
  <2> HIDE DEF F
  <2>1. CASE buf = <<>>
    <3>1. p > Len(fed)
      BY <1>1, <2>1
    <3>2. QED
      BY <3>1, Zenon DEF ReadAt
  <2>2. CASE buf # <<>> /\ Len(buf) < HeaderBytes
    <3>1. Len(buf) >= 1
      BY <1>1, <2>2
    <3>2. fed[p] = Preamble /\ p + HeaderBytes - 1 > Len(fed)
      BY <1>1, <1>3, <1>6, <2>2, <3>1 DEF HeaderBytes
    <3>3. QED
      BY <3>2, Zenon DEF ReadAt
  <2>3. CASE Len(buf) >= HeaderBytes
    <3>1. fed[p] = Preamble /\ fed[p + 1] = buf[2] /\ fed[p + 2] = buf[3]
      BY <1>1, <1>3, <1>6, <2>3 DEF HeaderBytes
    <3>2. p <= Len(fed) /\ p + HeaderBytes - 1 <= Len(fed) /\ Len(fed) \in Nat
      BY <1>1, <2>3 DEF HeaderBytes
    <3>3. FrameAt(fed, p)
      BY <1>6, <2>3, <3>1, <3>2 DEF FrameAt
    <3>4. EndAt(fed, p) = p + FrameLen(buf) /\ FrameLen(buf) \in Nat /\ Len(buf) < FrameLen(buf)
      <4>1. FrameLen(buf) \in Nat
        BY <1>1, <2>3, FrameFits
      <4>2. LenOf(buf[2], buf[3]) \in Nat
        <5>1. buf[2] \in Byte /\ buf[3] \in Byte
          BY <1>1, <2>3 DEF HeaderBytes
        <5>2. QED
          BY <5>1, ParserConstants
      <4>3. Len(buf) < FrameLen(buf)
        BY <1>1, <1>6, <2>3 DEF HeaderBytes
      <4>4. QED
        BY <1>1, <3>1, <4>1, <4>2, <4>3 DEF EndAt, FrameLen, Overhead
    <3>5. EndAt(fed, p) > Len(fed) + 1
      BY <1>1, <3>4
    <3>6. QED
      BY <3>2, <3>3, <3>5, <1>1 DEF ReadAt
  <2>4. QED
    BY <1>1, <2>1, <2>2, <2>3 DEF HeaderBytes
<1>8. out \o FramesFrom(fed)[p] = Frames(fed)
  BY <1>1, <1>2, Zenon DEF WholeInv, SoFar
<1>9. out \o <<>> = out
  BY <1>1
<1>10. QED
  BY <1>5, <1>7, <1>8, <1>9, Zenon

(* The reference moves on by one byte where no frame starts. *)
LEMMA ReadsSkip ==
    ASSUME NEW s \in Seq(Byte), NEW p \in 1 .. Len(s),
           s[p] # Preamble \/ (p + HeaderBytes - 1 <= Len(s) /\ Reserved(s[p + 1]))
    PROVE  FramesFrom(s)[p] = FramesFrom(s)[p + 1]
<1> DEFINE F == FramesFrom(s)
<1>1. F[p] = ReadAt(s, p, F)
  <2>1. p \in 1 .. Len(s) + 1
    OBVIOUS
  <2>2. QED
    BY <2>1, ReadsStep, Zenon
<1>2. /\ ~(p > Len(s)) /\ ~FrameAt(s, p)
      /\ ~(s[p] = Preamble /\ p + HeaderBytes - 1 > Len(s))
  BY DEF FrameAt, HeaderBytes
<1> HIDE DEF F
<1>3. F[p] = F[p + 1]
  BY <1>1, <1>2, Zenon DEF ReadAt
<1>4. QED
  BY <1>3 DEF F

(* Where a whole frame lies it is read or, with a wrong CRC, passed by one byte. *)
LEMMA ReadsFrame ==
    ASSUME NEW s \in Seq(Byte), NEW p \in 1 .. Len(s), FrameAt(s, p),
           NEW n \in Nat, EndAt(s, p) = p + n, p + n <= Len(s) + 1,
           NEW f, f = SubSeq(s, p, p + n - 1)
    PROVE  FramesFrom(s)[p] = IF CrcOk(f) THEN <<f>> \o FramesFrom(s)[p + n]
                                          ELSE FramesFrom(s)[p + 1]
<1> DEFINE F == FramesFrom(s)
<1>1. F[p] = ReadAt(s, p, F)
  <2>1. p \in 1 .. Len(s) + 1
    OBVIOUS
  <2>2. QED
    BY <2>1, ReadsStep, Zenon
<1>2. /\ ~(p > Len(s)) /\ ~(EndAt(s, p) > Len(s) + 1)
      /\ ~(s[p] = Preamble /\ p + HeaderBytes - 1 > Len(s))
  BY DEF FrameAt, HeaderBytes
<1> HIDE DEF F
<1>3. F[p] = IF CrcOk(f) THEN <<f>> \o F[p + n] ELSE F[p + 1]
  <2>1. SubSeq(s, p, EndAt(s, p) - 1) = f
    OBVIOUS
  <2>2. ReadAt(s, p, F) = IF CrcOk(f) THEN <<f>> \o F[EndAt(s, p)] ELSE F[p + 1]
    BY <1>2, <2>1, Zenon DEF ReadAt
  <2>3. QED
    BY <1>1, <2>2, Zenon
<1>4. QED
  BY <1>3 DEF F

(* Giving up the first n bytes of the buffer. *)
LEMMA UnreadDrop ==
    ASSUME ParserInv, Unread, NEW n \in 1 .. Len(buf), buf' = Drop(buf, n),
           UNCHANGED <<input, fed>>
    PROVE  Pos' = Pos + n /\ Unread'
<1>1. /\ buf \in Seq(Byte) /\ Len(buf) \in Nat /\ Len(input) \in Nat /\ Len(fed) \in Nat
      /\ n \in 0 .. Len(buf) /\ n \in Nat /\ Pos \in Nat
  BY BufFacts, PosFacts DEF ParserInv
<1>2. /\ Len(buf') = Len(buf) - n
      /\ \A i \in 1 .. Len(buf) - n : buf'[i] = buf[n + i]
  BY <1>1, DropOK
<1>3. Pos' = Pos + n
  BY <1>1, <1>2 DEF Pos
<1> DEFINE q == Pos
<1>4. /\ \A i \in 1 .. Len(buf) : fed[q + i] = buf[i]
      /\ \A i \in 1 .. Len(input) : fed[q + Len(buf) + i] = input[i]
  BY DEF Unread
<1>5. q \in Nat
  BY <1>1
<1> HIDE DEF q
<1>6. \A i \in 1 .. Len(buf) - n : fed[q + n + i] = buf[n + i]
  <2> TAKE i \in 1 .. Len(buf) - n
  <2>1. n + i \in 1 .. Len(buf) /\ q + (n + i) = q + n + i
    BY <1>1, <1>5
  <2>2. QED
    BY <1>4, <2>1, Zenon
<1>7. q + n + (Len(buf) - n) = q + Len(buf)
  BY <1>1, <1>5
<1>8. /\ \A i \in 1 .. Len(buf) - n : fed[q + n + i] = buf'[i]
      /\ \A i \in 1 .. Len(input) : fed[q + n + (Len(buf) - n) + i] = input[i]
  BY <1>2, <1>4, <1>6, <1>7, Zenon
<1>9. Unread'
  BY <1>2, <1>3, <1>8, Zenon DEF Unread, q
<1>10. QED
  BY <1>3, <1>9

(* A step that moves on where the reference moves on, too. *)
LEMMA SoFarMoves ==
    ASSUME WholeInv, fed' = fed, NEW q, Pos' = q,
           \A s \in Seq(Byte) : Extends(s, fed) =>
              out' \o FramesFrom(s)[q + 1] = out \o FramesFrom(s)[Pos + 1]
    PROVE  SoFar'
<1>1. \A s \in Seq(Byte) : Extends(s, fed) => out \o FramesFrom(s)[Pos + 1] = Frames(s)
  BY DEF WholeInv, SoFar
<1>2. \A s \in Seq(Byte) : Extends(s, fed) => out' \o FramesFrom(s)[q + 1] = Frames(s)
  BY <1>1, Zenon
<1>3. QED
  BY <1>2, Zenon DEF SoFar

(* No byte has been read before the first chunk. *)
LEMMA InitWhole == Init => WholeInv
<1> SUFFICES ASSUME Init PROVE WholeInv
  OBVIOUS
<1>1. buf = <<>> /\ input = <<>> /\ fed = <<>> /\ out = <<>> /\ pc = "idle"
  BY DEF Init
<1>2. Pos = 0 /\ Len(buf) = 0 /\ Len(input) = 0
  <2>1. Len(buf) = 0 /\ Len(input) = 0 /\ Len(fed) = 0
    BY <1>1
  <2>2. QED
    BY <2>1 DEF Pos
<1>3. Unread
  BY <1>2 DEF Unread
<1>4. SoFar
  <2> SUFFICES ASSUME NEW s \in Seq(Byte) PROVE <<>> \o FramesFrom(s)[1] = Frames(s)
    BY <1>1, <1>2 DEF SoFar
  <2>1. FramesFrom(s)[1] \in Seq(Seq(Byte))
    BY ReadsType
  <2>2. QED
    BY <2>1 DEF Frames
<1>5. QED
  BY <1>2, <1>3, <1>4 DEF WholeInv, HeaderTested, HeaderBytes

(* A chunk extends what was fed, or starts it anew. *)
LEMMA IngestWhole ==
    ASSUME ParserInv, WholeInv, NEW chunk \in Chunk, Ingest(chunk)
    PROVE  WholeInv'
<1>1. chunk \in Seq(Byte) /\ Len(chunk) \in Nat
  BY DEF Chunk
<1>2. /\ pc = "idle" /\ pc' = "feed" /\ input' = chunk /\ input = <<>> /\ Len(input) = 0
      /\ buf \in Seq(Byte) /\ fed \in Seq(Byte) /\ Len(buf) \in Nat /\ Len(fed) \in Nat
  <2>1. pc = "idle" /\ pc' = "feed" /\ input' = chunk /\ input = <<>>
    BY DEF Ingest, ParserInv
  <2>2. QED
    BY <2>1, BufFacts DEF ParserInv
<1>3. CASE s_ingest_reset_req
  <2>1. buf' = <<>> /\ fed' = chunk /\ out' = <<>>
    BY <1>3 DEF Ingest, rtcm_parser_init
  <2>2. Len(buf') = 0 /\ Pos' = 0
    BY <1>1, <1>2, <2>1 DEF Pos
  <2>3. Unread'
    BY <1>1, <1>2, <2>1, <2>2 DEF Unread
  <2>4. SoFar'
    <3> SUFFICES ASSUME NEW s \in Seq(Byte) PROVE <<>> \o FramesFrom(s)[1] = Frames(s)
      BY <2>1, <2>2 DEF SoFar
    <3>1. FramesFrom(s)[1] \in Seq(Seq(Byte))
      BY ReadsType
    <3>2. QED
      BY <3>1 DEF Frames
  <2>5. QED
    BY <2>2, <2>3, <2>4 DEF WholeInv, HeaderTested, HeaderBytes
<1>4. CASE ~s_ingest_reset_req
  <2>1. UNCHANGED <<buf, out>> /\ fed' = fed \o chunk
    BY <1>4 DEF Ingest, parser
  <2>2. /\ Len(fed') = Len(fed) + Len(chunk)
        /\ \A i \in 1 .. Len(fed) : fed'[i] = fed[i]
        /\ \A i \in 1 .. Len(chunk) : fed'[Len(fed) + i] = chunk[i]
    BY <1>1, <1>2, <2>1
  <2>3. Pos' = Pos /\ Pos + Len(buf) = Len(fed) /\ Pos \in Nat
    <3>1. Pos' = Pos
      BY <1>1, <1>2, <2>1, <2>2 DEF Pos
    <3>2. QED
      BY <3>1, <1>2, PosFacts
  <2>4. Unread'
    <3> DEFINE q == Pos
    <3>1. \A i \in 1 .. Len(buf) : fed[q + i] = buf[i]
      BY DEF WholeInv, Unread
    <3>2. q \in Nat /\ q + Len(buf) = Len(fed)
      BY <2>3
    <3> HIDE DEF q
    <3>3. \A i \in 1 .. Len(buf) : fed'[q + i] = buf[i]
      <4>1. \A i \in 1 .. Len(buf) : q + i \in 1 .. Len(fed)
        BY <1>2, <3>2
      <4>2. QED
        BY <2>2, <3>1, <4>1, Zenon
    <3>4. \A i \in 1 .. Len(chunk) : fed'[q + Len(buf) + i] = chunk[i]
      BY <2>2, <3>2
    <3>5. QED
      BY <1>2, <2>1, <2>3, <3>3, <3>4, Zenon DEF Unread, q
  <2>5. ASSUME NEW s \in Seq(Byte), Extends(s, fed') PROVE Extends(s, fed)
    <3>1. Len(s) \in Nat /\ Len(fed') <= Len(s) /\ \A i \in 1 .. Len(fed') : s[i] = fed'[i]
      BY <2>5 DEF Extends
    <3>2. Len(fed) <= Len(s) /\ \A i \in 1 .. Len(fed) : s[i] = fed[i]
      BY <1>1, <1>2, <2>2, <3>1
    <3>3. QED
      BY <3>2 DEF Extends
  <2>6. SoFar'
    <3>1. \A s \in Seq(Byte) : Extends(s, fed) => out \o FramesFrom(s)[Pos + 1] = Frames(s)
      BY DEF WholeInv, SoFar
    <3>2. \A s \in Seq(Byte) : Extends(s, fed') => out' \o FramesFrom(s)[Pos' + 1] = Frames(s)
      BY <2>1, <2>3, <2>5, <3>1, Zenon
    <3>3. QED
      BY <3>2, Zenon DEF SoFar
  <2>7. HeaderTested'
    BY <1>2, <2>1 DEF WholeInv, HeaderTested
  <2>8. QED
    BY <2>4, <2>6, <2>7 DEF WholeInv
<1>5. QED
  BY <1>3, <1>4

(* Hunting in the chunk passes what the reference passes. *)
LEMMA FeedHuntWhole ==
    ASSUME ParserInv, WholeInv, FeedHunt
    PROVE  WholeInv'
<1> DEFINE q == Pos
<1>1. /\ input # <<>> /\ buf = <<>> /\ input' = Drop(input, 1) /\ UNCHANGED <<fed, out>>
  BY DEF FeedHunt
<1>2. /\ input \in Seq(Byte) /\ fed \in Seq(Byte) /\ out \in Seq(Seq(Byte))
      /\ Len(input) \in Nat /\ Len(input) > 0 /\ Len(fed) \in Nat
      /\ 1 \in 0 .. Len(input) /\ Len(buf) = 0 /\ q \in Nat /\ q + Len(input) = Len(fed)
  <2>1. Len(buf) = 0
    BY <1>1
  <2>2. QED
    BY <1>1, <2>1, BufFacts, PosFacts DEF ParserInv
<1>3. /\ input' \in Seq(Byte) /\ Len(input') = Len(input) - 1
      /\ \A i \in 1 .. Len(input) - 1 : input'[i] = input[1 + i]
  BY <1>1, <1>2, DropOK
<1>4. \A i \in 1 .. Len(input) : fed[q + i] = input[i]
  BY <1>2 DEF WholeInv, Unread
<1>5. \A i \in 1 .. Len(input) - 1 : fed[q + 1 + i] = input'[i]
  <2> TAKE i \in 1 .. Len(input) - 1
  <2>1. 1 + i \in 1 .. Len(input) /\ q + (1 + i) = q + 1 + i
    BY <1>2
  <2>2. QED
    BY <1>3, <1>4, <2>1, Zenon
<1>6. CASE input[1] = Preamble
  <2>1. buf' = <<Preamble>> /\ pc' = "topup"
    BY <1>6 DEF FeedHunt
  <2>2. Len(buf') = 1 /\ buf'[1] = Preamble
    BY <2>1
  <2>3. Pos' = q
    <3>1. Len(fed') = Len(fed) /\ Len(buf') = 1 /\ Len(input') = Len(input) - 1
      BY <1>1, <1>2, <1>3, <2>2
    <3>2. Pos' = Len(fed) - 1 - (Len(input) - 1)
      BY <3>1 DEF Pos
    <3>3. QED
      BY <1>2, <3>2
  <2>4. Unread'
    <3> HIDE DEF q
    <3>1. fed[q + 1] = buf'[1]
      BY <1>2, <1>4, <1>6, <2>2
    <3>2. \A i \in 1 .. Len(buf') : fed[q + i] = buf'[i]
      BY <2>2, <3>1
    <3>3. \A i \in 1 .. Len(input') : fed[q + Len(buf') + i] = input'[i]
      BY <1>3, <1>5, <2>2
    <3>4. QED
      BY <1>1, <2>3, <3>2, <3>3, Zenon DEF Unread
  <2>5. SoFar'
    BY <1>1, <2>3, Zenon DEF WholeInv, SoFar
  <2>6. QED
    BY <2>2, <2>4, <2>5 DEF WholeInv, HeaderTested, HeaderBytes
<1>7. CASE input[1] # Preamble
  <2>1. buf' = buf
    BY <1>7 DEF FeedHunt
  <2>2. Pos' = q + 1
    <3>1. Len(fed') = Len(fed) /\ Len(buf') = 0 /\ Len(input') = Len(input) - 1
      BY <1>1, <1>2, <1>3, <2>1
    <3>2. Pos' = Len(fed) - 0 - (Len(input) - 1)
      BY <3>1 DEF Pos
    <3>3. \A a, b \in Nat : q + b = a => a - 0 - (b - 1) = q + 1
      BY <1>2
    <3>4. QED
      BY <1>2, <3>2, <3>3, Zenon
  <2>3. Unread'
    <3> HIDE DEF q
    <3>1. Len(buf') = 0 /\ q + 1 + 0 = q + 1
      BY <1>2, <2>1
    <3>2. \A i \in 1 .. Len(buf') : fed[q + 1 + i] = buf'[i]
      BY <3>1
    <3>3. \A i \in 1 .. Len(input') : fed[q + 1 + Len(buf') + i] = input'[i]
      BY <1>3, <1>5, <3>1, Zenon
    <3>4. QED
      BY <1>1, <2>2, <3>2, <3>3, Zenon DEF Unread
  <2>4. ASSUME NEW s \in Seq(Byte), Extends(s, fed)
        PROVE  FramesFrom(s)[q + 1 + 1] = FramesFrom(s)[q + 1]
    <3>1. s[q + 1] # Preamble /\ q + 1 \in 1 .. Len(s)
      <4>1. Len(s) \in Nat /\ Len(fed) <= Len(s) /\ \A i \in 1 .. Len(fed) : s[i] = fed[i]
        BY <2>4 DEF Extends
      <4> HIDE DEF q
      <4>2. QED
        BY <1>2, <1>4, <1>7, <4>1
    <3>2. QED
      BY <3>1, ReadsSkip
  <2>5. SoFar'
    <3>1. \A s \in Seq(Byte) : Extends(s, fed) =>
             out' \o FramesFrom(s)[q + 1 + 1] = out \o FramesFrom(s)[Pos + 1]
      BY <1>1, <2>4, Zenon
    <3>2. QED
      BY <1>1, <2>2, <3>1, SoFarMoves
  <2>6. QED
    BY <1>2, <2>1, <2>3, <2>5 DEF WholeInv, HeaderTested, HeaderBytes
<1>8. QED
  BY <1>6, <1>7

(* Steps that read nothing. *)
LEMMA SameBytesWhole ==
    ASSUME WholeInv, UNCHANGED <<buf, input, fed, out>>,
           \/ pc' = pc
           \/ pc = "feed" /\ pc' \in {"topup", "idle"}
           \/ pc' \in {"process", "hunt"}
           \/ pc' = "feed" /\ (Len(buf) >= HeaderBytes => ~Reserved(buf[2]))
    PROVE  WholeInv'
<1>1. Pos' = Pos
  BY DEF Pos
<1>2. Unread'
  BY <1>1, Zenon DEF WholeInv, Unread
<1>3. SoFar'
  BY <1>1, Zenon DEF WholeInv, SoFar
<1>4. HeaderTested'
  BY DEF WholeInv, HeaderTested
<1>5. QED
  BY <1>2, <1>3, <1>4 DEF WholeInv

(* Topping up moves bytes from the chunk to the buffer. *)
LEMMA TopUpWhole ==
    ASSUME ParserInv, WholeInv, TopUp
    PROVE  WholeInv'
<1> DEFINE t == Target
           want == t - Len(buf)
           take == IF want < Len(input) THEN want ELSE Len(input)
           more == SubSeq(input, 1, take)
           q == Pos
<1>1. /\ pc = "topup" /\ buf' = buf \o more /\ input' = Drop(input, take)
      /\ pc' = IF Len(buf) + take = t THEN "process" ELSE "feed"
      /\ UNCHANGED <<need, fed, out>>
  BY DEF TopUp
<1>2. /\ buf \in Seq(Byte) /\ input \in Seq(Byte) /\ Len(buf) \in Nat /\ Len(fed) \in Nat
      /\ Len(input) \in Nat /\ need \in 0 .. MaxFrame /\ MaxFrame \in Nat /\ q \in Nat
  BY <1>1, BufFacts, PosFacts DEF ParserInv
<1>3. /\ buf = <<>> \/ Len(buf) < 3 \/ (need = FrameLen(buf) /\ Len(buf) < need)
      /\ Len(buf) >= 3 => ~Reserved(buf[2])
  BY <1>1 DEF ParserInv, ReadyForInput, HeaderBytes, WholeInv, HeaderTested
<1>4. t \in Nat /\ Len(buf) < t /\ (Len(buf) < 3 => t = 3)
  BY <1>2, <1>3 DEF Target, HeaderBytes
<1> HIDE DEF t
<1>5. take \in 0 .. Len(input) /\ Len(buf) + take <= t
  BY <1>2, <1>4
<1> HIDE DEF take
<1>6. /\ more \in Seq(Byte) /\ Len(more) = take
      /\ \A i \in 1 .. take : more[i] = input[i]
  BY <1>2, <1>5, TakeOK
<1>7. /\ input' \in Seq(Byte) /\ Len(input') = Len(input) - take
      /\ \A i \in 1 .. Len(input) - take : input'[i] = input[take + i]
  BY <1>1, <1>2, <1>5, DropOK
<1> HIDE DEF more
<1>8. /\ buf' \in Seq(Byte) /\ Len(buf') = Len(buf) + take
      /\ \A i \in 1 .. Len(buf) : buf'[i] = buf[i]
      /\ \A i \in 1 .. take : buf'[Len(buf) + i] = more[i]
  <2>1. /\ buf \o more \in Seq(Byte) /\ Len(buf \o more) = Len(buf) + Len(more)
        /\ \A i \in 1 .. Len(buf) : (buf \o more)[i] = buf[i]
        /\ \A i \in 1 .. Len(more) : (buf \o more)[Len(buf) + i] = more[i]
    BY <1>2, <1>6, JoinOK
  <2>2. QED
    BY <1>1, <1>6, <2>1, Zenon
<1>9. Pos' = q
  <2>1. Pos' = Len(fed) - (Len(buf) + take) - (Len(input) - take)
    BY <1>1, <1>7, <1>8 DEF Pos
  <2>2. \A a, b, c, d \in Nat : a - (b + d) - (c - d) = a - b - c
    OBVIOUS
  <2>3. take \in Nat
    BY <1>2, <1>5
  <2>4. q = Len(fed) - Len(buf) - Len(input)
    BY DEF Pos
  <2>5. Len(fed) - (Len(buf) + take) - (Len(input) - take) = Len(fed) - Len(buf) - Len(input)
    <3>1. Len(fed) \in Nat /\ Len(buf) \in Nat /\ Len(input) \in Nat
      BY <1>2
    <3>2. QED
      BY <2>2, <2>3, <3>1, SMT
  <2>6. QED
    BY <2>1, <2>4, <2>5, Zenon
<1>10. /\ \A i \in 1 .. Len(buf) : fed[q + i] = buf[i]
       /\ \A i \in 1 .. Len(input) : fed[q + Len(buf) + i] = input[i]
  BY DEF WholeInv, Unread
<1> HIDE DEF q
<1>11. Unread'
  <2>1. ASSUME NEW i \in 1 .. Len(buf) + take PROVE fed[q + i] = buf'[i]
    <3>1. CASE i <= Len(buf)
      BY <1>2, <1>8, <1>10, <3>1
    <3>2. CASE i > Len(buf)
      <4> DEFINE j == i - Len(buf)
      <4>1. j \in 1 .. take /\ j \in 1 .. Len(input) /\ i = Len(buf) + j
            /\ q + i = q + Len(buf) + j
        BY <1>2, <1>5, <3>2
      <4> HIDE DEF j
      <4>2. QED
        BY <1>6, <1>8, <1>10, <4>1, Zenon
    <3>3. QED
      BY <1>2, <1>5, <3>1, <3>2
  <2>2. ASSUME NEW i \in 1 .. Len(input) - take
        PROVE  fed[q + (Len(buf) + take) + i] = input'[i]
    <3>1. take + i \in 1 .. Len(input)
          /\ q + Len(buf) + (take + i) = q + (Len(buf) + take) + i
      BY <1>2, <1>5
    <3>2. QED
      BY <1>7, <1>10, <3>1, Zenon
  <2>3. QED
    BY <1>1, <1>7, <1>8, <1>9, <2>1, <2>2, Zenon DEF Unread
<1>12. SoFar'
  BY <1>1, <1>9, Zenon DEF WholeInv, SoFar, q
<1>13. HeaderTested'
  <2>1. CASE pc' = "process"
    BY <2>1 DEF HeaderTested
  <2>2. CASE pc' # "process"
    <3>1. Len(buf) + take # t
      BY <1>1, <2>2
    <3>2. Len(buf) < 3 => Len(buf') < 3
      BY <1>2, <1>4, <1>5, <1>8, <3>1
    <3>3. Len(buf) >= 3 => buf'[2] = buf[2]
      BY <1>2, <1>8
    <3>4. QED
      BY <1>2, <1>3, <3>2, <3>3, <1>8 DEF HeaderTested, HeaderBytes
  <2>3. QED
    BY <2>1, <2>2
<1>14. QED
  BY <1>11, <1>12, <1>13 DEF WholeInv

(* Giving up the first byte of the buffer where no frame starts, or one whose
   CRC is wrong. *)
LEMMA SkipWhole ==
    ASSUME ParserInv, WholeInv, buf # <<>>, buf' = Drop(buf, 1), pc' = "hunt",
           UNCHANGED <<input, fed, out>>,
           \A s \in Seq(Byte) : Extends(s, fed) =>
              FramesFrom(s)[Pos + 1] = FramesFrom(s)[Pos + 2]
    PROVE  WholeInv'
<1>1. 1 \in 1 .. Len(buf) /\ Pos \in Nat
  BY BufFacts, PosFacts
<1>2. Pos' = Pos + 1 /\ Unread'
  BY <1>1, UnreadDrop DEF WholeInv
<1>3. Pos + 1 + 1 = Pos + 2
  BY <1>1
<1>4. \A s \in Seq(Byte) : Extends(s, fed) =>
         out' \o FramesFrom(s)[Pos + 1 + 1] = out \o FramesFrom(s)[Pos + 1]
  <2>1. out' = out
    OBVIOUS
  <2>2. ASSUME NEW s \in Seq(Byte), Extends(s, fed)
        PROVE  FramesFrom(s)[Pos + 1 + 1] = FramesFrom(s)[Pos + 1]
    <3>1. FramesFrom(s)[Pos + 1] = FramesFrom(s)[Pos + 2]
      BY <2>2
    <3>2. QED
      BY <1>3, <3>1
  <2>3. QED
    BY <2>1, <2>2, Zenon
<1>5. SoFar'
  BY <1>2, <1>4, SoFarMoves
<1>6. HeaderTested'
  BY DEF HeaderTested
<1>7. QED
  BY <1>2, <1>5, <1>6 DEF WholeInv

(* The preamble was a data byte for the reference, too. *)
LEMMA FalsePreambleWhole ==
    ASSUME ParserInv, WholeInv, FalsePreamble
    PROVE  WholeInv'
<1>1. /\ Len(buf) >= HeaderBytes /\ Reserved(buf[2]) /\ buf' = Drop(buf, 1) /\ pc' = "hunt"
      /\ UNCHANGED <<input, fed, out>>
  BY DEF FalsePreamble, HuntFromSecond
<1>2. buf # <<>> /\ Len(buf) \in Nat /\ Len(input) \in Nat /\ Pos \in Nat
  BY <1>1, BufFacts, PosFacts DEF HeaderBytes
<1>3. ASSUME NEW s \in Seq(Byte), Extends(s, fed)
      PROVE  FramesFrom(s)[Pos + 1] = FramesFrom(s)[Pos + 2]
  <2>1. \A i \in 1 .. Len(buf) : s[Pos + i] = buf[i]
    BY <1>3, ExtensionBytes DEF WholeInv
  <2>2. Pos + Len(buf) + Len(input) <= Len(s) /\ Len(s) \in Nat
    BY <1>3, PosFacts
  <2> DEFINE p == Pos + 1
  <2>3. p \in 1 .. Len(s) /\ p + HeaderBytes - 1 <= Len(s) /\ p + 1 = Pos + 2
    BY <1>1, <1>2, <2>2 DEF HeaderBytes
  <2>4. Reserved(s[p + 1])
    <3>1. 2 \in 1 .. Len(buf)
      BY <1>1, <1>2 DEF HeaderBytes
    <3>2. s[Pos + 2] = buf[2]
      BY <2>1, <3>1, Zenon
    <3>3. QED
      BY <1>1, <2>3, <3>2, Zenon
  <2>5. FramesFrom(s)[p] = FramesFrom(s)[p + 1]
    <3> HIDE DEF p
    <3>1. QED
      BY <2>3, <2>4, ReadsSkip
  <2>6. QED
    BY <2>3, <2>5, Zenon
<1>4. QED
  BY <1>1, <1>2, <1>3, SkipWhole

(* The n elements of a sequence behind its first q. *)
LEMMA MiddleOK ==
    ASSUME NEW s \in Seq(Byte), NEW q \in Nat, NEW n \in Nat, q + n <= Len(s)
    PROVE  /\ SubSeq(s, q + 1, q + n) \in Seq(Byte)
           /\ Len(SubSeq(s, q + 1, q + n)) = n
           /\ \A i \in 1 .. n : SubSeq(s, q + 1, q + n)[i] = s[q + i]
  OBVIOUS

(* A complete frame in the buffer is one at the same place of the string. *)
LEMMA FrameThere ==
    ASSUME ParserInv, WholeInv, pc = "process", Complete, NEW s \in Seq(Byte), Extends(s, fed)
    PROVE  FramesFrom(s)[Pos + 1] =
              IF CrcOk(FirstFrame) THEN <<FirstFrame>> \o FramesFrom(s)[Pos + FrameLen(buf) + 1]
                                   ELSE FramesFrom(s)[Pos + 2]
<1> DEFINE q == Pos
           n == FrameLen(buf)
           p == q + 1
<1>1. /\ buf \in Seq(Byte) /\ Len(buf) >= 3 /\ ~Reserved(buf[2]) /\ Len(buf) >= n
      /\ Len(buf) \in Nat /\ Len(input) \in Nat /\ q \in Nat /\ buf[1] = Preamble
      /\ Len(s) \in Nat /\ q + Len(buf) + Len(input) <= Len(s)
  <2>1. buf \in Seq(Byte) /\ Len(buf) >= 3 /\ ~Reserved(buf[2]) /\ Len(buf) >= n
    BY DEF ParserInv, Complete, HeaderBytes
  <2>2. buf # <<>>
    BY <2>1
  <2>3. QED
    BY <2>1, <2>2, BufFacts, PosFacts DEF ParserInv
<1>2. n \in Nat /\ n >= 6
  BY <1>1, FrameFits DEF HeaderBytes, Overhead
<1>3. \A i \in 1 .. Len(buf) : s[q + i] = buf[i]
  BY ExtensionBytes DEF WholeInv
<1>4. LenOf(buf[2], buf[3]) \in Nat /\ n = LenOf(buf[2], buf[3]) + 6
  <2>1. buf[2] \in Byte /\ buf[3] \in Byte
    BY <1>1
  <2>2. QED
    BY <2>1, ParserConstants DEF FrameLen, Overhead
<1> HIDE DEF q, n
<1>5. s[p] = Preamble /\ s[p + 1] = buf[2] /\ s[p + 2] = buf[3]
  <2>1. p + 1 = q + 2 /\ p + 2 = q + 3 /\ 1 \in 1 .. Len(buf) /\ 2 \in 1 .. Len(buf)
        /\ 3 \in 1 .. Len(buf)
    BY <1>1
  <2>2. s[q + 1] = buf[1] /\ s[q + 2] = buf[2] /\ s[q + 3] = buf[3]
    BY <1>3, <2>1, Zenon
  <2>3. QED
    BY <1>1, <2>1, <2>2, Zenon
<1>6. p \in 1 .. Len(s) /\ p + 2 <= Len(s) /\ p + n <= Len(s) + 1
      /\ p + n = q + n + 1 /\ p + 1 = q + 2
  BY <1>1, <1>2
<1>7. FrameAt(s, p) /\ EndAt(s, p) = p + n
  <2>1. FrameAt(s, p)
    BY <1>1, <1>5, <1>6 DEF FrameAt, HeaderBytes
  <2>2. EndAt(s, p) = p + LenOf(buf[2], buf[3]) + 6
    BY <1>5, Zenon DEF EndAt, Overhead
  <2>3. QED
    BY <1>1, <1>4, <2>1, <2>2
<1>8. FirstFrame = SubSeq(s, p, p + n - 1)
  <2>1. /\ SubSeq(buf, 1, n) \in Seq(Byte) /\ Len(SubSeq(buf, 1, n)) = n
        /\ \A i \in 1 .. n : SubSeq(buf, 1, n)[i] = buf[i]
    <3>1. n \in 0 .. Len(buf)
      BY <1>1, <1>2
    <3>2. QED
      BY <1>1, <3>1, TakeOK
  <2>2. /\ SubSeq(s, p, p + n - 1) \in Seq(Byte) /\ Len(SubSeq(s, p, p + n - 1)) = n
        /\ \A i \in 1 .. n : SubSeq(s, p, p + n - 1)[i] = s[q + i]
    <3>1. p + n - 1 = q + n /\ q + n <= Len(s)
      BY <1>1, <1>2
    <3>2. /\ SubSeq(s, q + 1, q + n) \in Seq(Byte) /\ Len(SubSeq(s, q + 1, q + n)) = n
          /\ \A i \in 1 .. n : SubSeq(s, q + 1, q + n)[i] = s[q + i]
      <4>1. q \in Nat /\ n \in Nat
        BY <1>1, <1>2
      <4>2. QED
        BY <3>1, <4>1, MiddleOK, Zenon
    <3>3. QED
      BY <3>1, <3>2, Zenon
  <2>3. \A i \in 1 .. n : s[q + i] = buf[i]
    BY <1>1, <1>2, <1>3
  <2>4. SubSeq(buf, 1, n) = SubSeq(s, p, p + n - 1)
    <3> DEFINE a == SubSeq(buf, 1, n)
               b == SubSeq(s, p, p + n - 1)
    <3>1. a \in Seq(Byte) /\ b \in Seq(Byte) /\ Len(a) = Len(b)
          /\ \A i \in 1 .. Len(a) : a[i] = b[i]
      BY <2>1, <2>2, <2>3, Zenon
    <3> HIDE DEF a, b
    <3>2. a = b
      BY <3>1, SeqEqual
    <3>3. QED
      BY <3>2 DEF a, b
  <2>5. QED
    BY <2>4 DEF FirstFrame, n
<1>9. FramesFrom(s)[p] = IF CrcOk(FirstFrame) THEN <<FirstFrame>> \o FramesFrom(s)[p + n]
                                              ELSE FramesFrom(s)[p + 1]
  <2> DEFINE f == FirstFrame
  <2> HIDE DEF p, f
  <2>1. QED
    BY <1>2, <1>6, <1>7, <1>8, ReadsFrame DEF f
<1>10. QED
  BY <1>6, <1>9, Zenon DEF q, n

(* A frame with a wrong CRC is given up where the reference gives it up. *)
LEMMA CrcErrorWhole ==
    ASSUME ParserInv, WholeInv, CrcError
    PROVE  WholeInv'
<1>1. /\ pc = "process" /\ Complete /\ ~CrcOk(FirstFrame)
      /\ Len(buf) >= HeaderBytes /\ buf' = Drop(buf, 1) /\ pc' = "hunt"
      /\ UNCHANGED <<input, fed, out>>
  BY DEF CrcError, HuntFromSecond, Complete
<1>2. buf # <<>>
  BY <1>1, BufFacts DEF HeaderBytes
<1>3. ASSUME NEW s \in Seq(Byte), Extends(s, fed)
      PROVE  FramesFrom(s)[Pos + 1] = FramesFrom(s)[Pos + 2]
  BY <1>1, <1>3, FrameThere, Zenon
<1>4. QED
  BY <1>1, <1>2, <1>3, SkipWhole

(* A frame emitted is the one the reference reads next. *)
LEMMA EmitWhole ==
    ASSUME ParserInv, WholeInv, Emit
    PROVE  WholeInv'
<1> DEFINE n == FrameLen(buf)
<1>1. /\ pc = "process" /\ Complete /\ CrcOk(FirstFrame)
      /\ out' = Append(out, FirstFrame) /\ buf' = Drop(buf, n)
      /\ pc' \in {"hunt", "process"} /\ UNCHANGED <<input, fed>>
  BY DEF Emit
<1>2. /\ buf \in Seq(Byte) /\ Len(buf) >= HeaderBytes /\ Len(buf) >= n
      /\ Len(buf) \in Nat /\ Len(input) \in Nat /\ Pos \in Nat /\ out \in Seq(Seq(Byte))
  BY <1>1, BufFacts, PosFacts DEF ParserInv, Complete
<1>3. n \in Nat /\ n >= 6
  BY <1>2, FrameFits DEF Overhead
<1>4. FirstFrame \in Seq(Byte)
  BY <1>2, <1>3, TakeOK DEF FirstFrame
<1> HIDE DEF n
<1>5. n \in 1 .. Len(buf)
  BY <1>2, <1>3
<1>6. Pos' = Pos + n /\ Unread'
  BY <1>1, <1>5, UnreadDrop DEF WholeInv
<1>7. ASSUME NEW s \in Seq(Byte), Extends(s, fed)
      PROVE  out' \o FramesFrom(s)[Pos + n + 1] = out \o FramesFrom(s)[Pos + 1]
  <2> DEFINE rest == FramesFrom(s)[Pos + n + 1]
             f == FirstFrame
  <2>1. FramesFrom(s)[Pos + 1] = <<f>> \o rest
    BY <1>1, <1>7, FrameThere, Zenon DEF n
  <2>2. rest \in Seq(Seq(Byte))
    <3>1. Pos + n + 1 \in 1 .. Len(s) + 1
      BY <1>2, <1>5, <1>7, PosFacts
    <3>2. QED
      BY <3>1, ReadsType
  <2>3. f \in Seq(Byte) /\ out' = Append(out, f)
    BY <1>1, <1>4
  <2> HIDE DEF rest, f
  <2>4. Append(out, f) \o rest = out \o (<<f>> \o rest)
    <3> DEFINE S == Seq(Byte)
    <3>1. f \in S /\ out \in Seq(S) /\ rest \in Seq(S)
      BY <1>2, <2>2, <2>3
    <3> HIDE DEF S
    <3>2. <<f>> \in Seq(S) /\ Append(out, f) = out \o <<f>>
      BY <3>1
    <3>3. QED
      BY <3>1, <3>2, ConcatAssociative
  <2>5. QED
    BY <2>1, <2>3, <2>4, Zenon DEF rest
<1>8. SoFar'
  BY <1>1, <1>6, <1>7, SoFarMoves
<1>9. HeaderTested'
  BY <1>1 DEF HeaderTested
<1>10. QED
  BY <1>6, <1>8, <1>9 DEF WholeInv

(* parser_hunt_in_buf passes what the reference passes. *)
LEMMA HuntWhole ==
    ASSUME ParserInv, WholeInv, Hunt
    PROVE  WholeInv'
<1>1. CASE buf # <<>> /\ buf[1] # Preamble
  <2>1. buf' = Drop(buf, 1) /\ pc' = "hunt" /\ UNCHANGED <<input, fed, out>>
    BY <1>1 DEF Hunt
  <2>2. Len(buf) \in Nat /\ Len(buf) > 0 /\ Len(input) \in Nat /\ Pos \in Nat
    BY <1>1, BufFacts, PosFacts
  <2>3. ASSUME NEW s \in Seq(Byte), Extends(s, fed)
        PROVE  FramesFrom(s)[Pos + 1] = FramesFrom(s)[Pos + 2]
    <3>1. \A i \in 1 .. Len(buf) : s[Pos + i] = buf[i]
      BY <2>3, ExtensionBytes DEF WholeInv
    <3>2. s[Pos + 1] # Preamble
      BY <1>1, <2>2, <3>1
    <3>3. Pos + 1 \in 1 .. Len(s) /\ Pos + 1 + 1 = Pos + 2
      BY <2>2, <2>3, PosFacts
    <3>4. FramesFrom(s)[Pos + 1] = FramesFrom(s)[Pos + 1 + 1]
      BY <3>2, <3>3, ReadsSkip
    <3>5. QED
      BY <3>3, <3>4, Zenon
  <2>4. QED
    BY <1>1, <2>1, <2>3, SkipWhole
<1>2. CASE ~(buf # <<>> /\ buf[1] # Preamble)
  <2>1. pc' = "process" /\ UNCHANGED <<buf, input, fed, out>>
    BY <1>2 DEF Hunt
  <2>2. QED
    BY <2>1, SameBytesWhole
<1>3. QED
  BY <1>1, <1>2

(* The agreement with the reference is inductive. *)
LEMMA WholeNext == ParserInv /\ WholeInv /\ [Next]_vars => WholeInv'
<1> SUFFICES ASSUME ParserInv, WholeInv, [Next]_vars PROVE WholeInv'
  OBVIOUS
<1>1. CASE EpochReset \/ FeedMore \/ FeedDone \/ AwaitHeader \/ AwaitBody \/ UNCHANGED vars
  <2>1. /\ UNCHANGED <<buf, input, fed, out>>
        /\ \/ pc' = pc
           \/ pc = "feed" /\ pc' \in {"topup", "idle"}
           \/ pc' = "feed" /\ (Len(buf) >= HeaderBytes => ~Reserved(buf[2]))
    <3>1. CASE EpochReset \/ FeedMore \/ FeedDone \/ AwaitBody \/ UNCHANGED vars
      BY <3>1 DEF EpochReset, FeedMore, FeedDone, AwaitBody, vars, parser
    <3>2. CASE AwaitHeader
      BY <3>2, BufFacts DEF AwaitHeader, HeaderBytes
    <3>3. QED
      BY <1>1, <3>1, <3>2
  <2>2. QED
    BY <2>1, SameBytesWhole
<1>2. QED
  BY <1>1, IngestWhole, FeedHuntWhole, TopUpWhole, FalsePreambleWhole, EmitWhole,
     CrcErrorWhole, HuntWhole, Zenon DEF Next, Feed, Process

(* However the bytes are cut into chunks, and wherever receiver resets fall,
   a digested input has yielded the frames the whole string holds: for every
   alphabet, length encoding and checksum. *)
THEOREM ChunkingIrrelevant == Spec => []SameAsWhole
<1>1. ParserInv /\ WholeInv => SameAsWhole
  BY NothingLeft DEF SameAsWhole
<1>2. Spec => []ParserInv
  BY ParserInvariant, IInvParts, PTL
<1>3. Spec => [](ParserInv /\ WholeInv)
  BY <1>2, InitWhole, WholeNext, PTL DEF Spec
<1>4. QED
  BY <1>1, <1>3, PTL
=============================================================================

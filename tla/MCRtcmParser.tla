---------------------------- MODULE MCRtcmParser ----------------------------
(***************************************************************************)
(* RtcmParser over an alphabet of three bytes: 2 is the preamble (which    *)
(* has reserved bits set, as 0xD3 has), the length is at most 2 and the    *)
(* last byte of a frame is the checksum of the others.                     *)
(***************************************************************************)
EXTENDS RtcmParser

MCByte == 0 .. 2
MCReserved(b) == b = 2
MCLenOf(b, c) == IF c = 2 THEN 2 ELSE c
SumTo(f, n) == LET sum[k \in 0 .. n] == IF k = 0 THEN 0 ELSE sum[k - 1] + f[k] IN sum[n]
MCCrcOk(f) == f[Len(f)] = SumTo(f, Len(f) - 1) % 3
=============================================================================

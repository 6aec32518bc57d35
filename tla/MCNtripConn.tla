---------------------------- MODULE MCNtripConn ----------------------------
(***************************************************************************)
(* Instances of NtripConn for TLC: two of the four keys that are read, and *)
(* a pause table that begins below the short pause as delays[] does.       *)
(***************************************************************************)
EXTENDS NtripConn

Keys == <<"host", "password">>
Pauses == <<1, 2>>
=============================================================================

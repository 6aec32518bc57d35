----------------------------- MODULE MCOtaBoot -----------------------------
(* Instances of OtaBoot for TLC. *)
EXTENDS OtaBoot

OnlyLate == <<"sound", "late">>
LateThenDead == <<"sound", "late", "dead">>
FwOnly == <<"fw">>
FwThenWww == <<"fw", "www">>
=============================================================================

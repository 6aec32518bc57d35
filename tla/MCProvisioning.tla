--------------------------- MODULE MCProvisioning ---------------------------
(***************************************************************************)
(* Instances of Provisioning for TLC: three of the keys, in the different  *)
(* orders in which they are read and written, and a single one.            *)
(***************************************************************************)
EXTENDS Provisioning

OneKey == <<"host">>
Read == <<"host", "password", "mountpoint">>
Written == <<"host", "mountpoint", "password">>
=============================================================================

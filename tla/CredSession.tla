---------------------------- MODULE CredSession ----------------------------
(***************************************************************************)
(* What a caster session is to the rest of the firmware: it reads its      *)
(* credentials from the configuration one key at a time, remembers the     *)
(* reconnect generation, dials with what it read, and is up until the      *)
(* connection breaks or the generation has moved on.  NtripConn shows that *)
(* the server task of main/interface/ntrip_server.c implements this;       *)
(* Provisioning composes it with the task that writes the credentials.     *)
(*                                                                         *)
(* Of a credential only its version is kept.                               *)
(***************************************************************************)
EXTENDS Naturals, Sequences

CONSTANTS LoadOrder,    \* the keys of the credentials, in the order they are read
          MaxVersion    \* bound: newest version of a credential

Fields == {LoadOrder[k] : k \in DOMAIN LoadOrder}

ASSUME CredConstants ==
    /\ LoadOrder \in Seq(Fields) /\ LoadOrder # <<>>
    /\ \A i, j \in DOMAIN LoadOrder : i # j => LoadOrder[i] # LoadOrder[j]
    /\ MaxVersion \in Nat

VARIABLES
    stored,         \* stored[f]: version of key f in the NVS configuration
    reconnect_gen,  \* inst->reconnect_gen
    sess,           \* "idle", "load", "dial" or "up"
    loaded,         \* versions read for the dial under way, in LoadOrder
    conn_gen        \* generation the dial was made in

store == <<stored, reconnect_gen>>
session == <<sess, loaded, conn_gen>>
credVars == <<store, session>>

CredTypeOK ==
    /\ stored \in [Fields -> 0 .. MaxVersion]
    /\ reconnect_gen \in Nat /\ conn_gen \in Nat
    /\ sess \in {"idle", "load", "dial", "up"}
    /\ loaded \in Seq(0 .. MaxVersion) /\ Len(loaded) <= Len(LoadOrder)

Complete == Len(loaded) = Len(LoadOrder)
Uses(f) == loaded[CHOOSE k \in DOMAIN LoadOrder : LoadOrder[k] = f]

CredInit ==
    /\ stored = [f \in Fields |-> 0]
    /\ reconnect_gen = 0
    /\ sess = "idle" /\ loaded = <<>> /\ conn_gen = 0
-----------------------------------------------------------------------------
(* the session *)

SessStart ==
    /\ sess = "idle"
    /\ sess' = "load"
    /\ UNCHANGED <<store, loaded, conn_gen>>

SessLoad ==
    /\ sess = "load" /\ ~Complete
    /\ loaded' = Append(loaded, stored[LoadOrder[Len(loaded) + 1]])
    /\ UNCHANGED <<store, sess, conn_gen>>

(* The generation is read once the credentials are. *)
SessSnapshot ==
    /\ sess = "load" /\ Complete
    /\ sess' = "dial"
    /\ conn_gen' = reconnect_gen
    /\ UNCHANGED <<store, loaded>>

SessUp ==
    /\ sess = "dial"
    /\ sess' = "up"
    /\ UNCHANGED <<store, loaded, conn_gen>>

SessEnds ==
    /\ sess' = "idle" /\ loaded' = <<>>
    /\ UNCHANGED <<store, conn_gen>>

(* No address, no socket, no handshake, or the caster refuses. *)
SessDialFails == sess = "dial" /\ SessEnds

(* The drain loop ends by itself once the generation has moved on ... *)
SessReconnects == sess = "up" /\ reconnect_gen # conn_gen /\ SessEnds

(* ... and whenever the connection breaks. *)
SessBreaks == sess = "up" /\ SessEnds

Session == \/ SessStart \/ SessLoad \/ SessSnapshot \/ SessUp
           \/ SessDialFails \/ SessReconnects \/ SessBreaks
-----------------------------------------------------------------------------
(* the others *)

StoreField(f, v) ==
    /\ stored' = [stored EXCEPT ![f] = v]
    /\ UNCHANGED <<reconnect_gen, session>>

(* ntrip_server_reconnect_all *)
ReconnectAll ==
    /\ reconnect_gen' = reconnect_gen + 1
    /\ UNCHANGED <<stored, session>>

Writer == \E f \in Fields, v \in 0 .. MaxVersion : StoreField(f, v)

CredNext == Session \/ Writer \/ ReconnectAll
CredSpec == CredInit /\ [][CredNext]_credVars
=============================================================================

---------------------------- MODULE Provisioning ----------------------------
(***************************************************************************)
(* Zero-touch provisioning (main/provisioning.c) composed with the caster  *)
(* session that uses what it stores.  The task enrols once, then sends     *)
(* heartbeats; the Integrity Engine (IE) answers with the credentials that *)
(* hold now.  Requests and answers may be lost, the IE may re-point the    *)
(* station at any time, and the power may fail between any two writes.     *)
(*                                                                         *)
(* A write to NVS counts as durable when it is made: a crash between two   *)
(* writes then leaves every prefix that a failure before the commit could. *)
(***************************************************************************)
EXTENDS CredSession

CONSTANTS WriteOrder,   \* the keys in the order write_caster_creds stores them
          TakesOld,     \* does the caster go on accepting credentials that were replaced?
          MaxTokens,    \* bound: enrolments the IE serves
          MaxCrashes    \* bound: power failures

ASSUME ProvConstants ==
    /\ WriteOrder \in Seq(Fields)
    /\ {WriteOrder[i] : i \in DOMAIN WriteOrder} = Fields
    /\ TakesOld \in BOOLEAN
    /\ MaxVersion > 0
    /\ MaxCrashes \in Nat /\ MaxTokens \in Nat /\ MaxTokens > MaxCrashes

VARIABLES
    rtk_state, rtk_token,   \* NVS: KEY_RTK_STATE, KEY_RTK_STATION_TOK (0: none)
    p,              \* where provisioning_task is
    k,              \* keys write_caster_creds has stored
    state, s_token, \* the task's state variable and token
    reply,          \* the answer being applied
    ie,             \* the IE: credentials and token that hold for the station
    crashes

nvs == <<rtk_state, rtk_token>>
task == <<p, k, state, s_token, reply>>
vars == <<credVars, nvs, task, ie, crashes>>

Unclaimed == 0              \* enum rtk_state
Provisioned == 1
States == 0 .. 3

NoReply == [creds |-> 0, token |-> 0, state |-> 0]
Enrolling == reply.token # 0
Points == {"boot", "choose", "differ", "write", "token", "state", "reconnect",
           "promote", "persist", "reread"}

TypeOK ==
    /\ CredTypeOK
    /\ rtk_state \in States /\ state \in States
    /\ rtk_token \in 0 .. MaxTokens /\ s_token \in 0 .. MaxTokens
    /\ p \in Points /\ k \in 0 .. Len(WriteOrder) - 1
    /\ reply \in [creds : 0 .. MaxVersion, token : 0 .. MaxTokens, state : States]
    /\ ie \in [creds : 1 .. MaxVersion, token : 0 .. MaxTokens]
    /\ crashes \in 0 .. MaxCrashes

Init ==
    /\ CredInit
    /\ rtk_state = Unclaimed /\ rtk_token = 0
    /\ p = "boot" /\ k = 0 /\ state = Unclaimed /\ s_token = 0 /\ reply = NoReply
    /\ ie = [creds |-> 1, token |-> 0]
    /\ crashes = 0
-----------------------------------------------------------------------------
(* wait_for_ip, load_identity, the state of the last run *)
LoadIdentity ==
    /\ p = "boot"
    /\ p' = "choose"
    /\ s_token' = rtk_token /\ state' = rtk_state
    /\ UNCHANGED <<credVars, nvs, k, reply, ie, crashes>>
-----------------------------------------------------------------------------
(* enroll *)

(* The IE serves the request: a new token holds from now on.  The bound leaves an
   enrolment for every start of the program. *)
EnrollServed(delivered) ==
    /\ p = "choose" /\ state < Provisioned
    /\ ie.token < IF delivered THEN MaxTokens ELSE MaxTokens - MaxCrashes - 1
    /\ ie' = [ie EXCEPT !.token = @ + 1]
    /\ IF delivered
       THEN /\ reply' = [creds |-> ie.creds, token |-> ie.token + 1, state |-> Provisioned]
            /\ p' = "write"
       ELSE UNCHANGED <<reply, p>>
    /\ UNCHANGED <<credVars, nvs, k, state, s_token, crashes>>

(* write_caster_creds, one key; the last one with the active flag and the commit.
   mutant: a second answer is stored from where the first one ended *)
WriteCasterCredsOn ==
    /\ p = "write"
    /\ stored' = [stored EXCEPT ![WriteOrder[k + 1]] = reply.creds]
    /\ k' = k + 1
    /\ p' = IF k + 1 < Len(WriteOrder) THEN "write"
            ELSE IF Enrolling THEN "token" ELSE "reconnect"
    /\ UNCHANGED <<reconnect_gen, session, nvs, state, s_token, reply, ie, crashes>>

WriteCasterCreds ==
    /\ p = "write"
    /\ stored' = [stored EXCEPT ![WriteOrder[k + 1]] = reply.creds]
    /\ k' = (k + 1) % Len(WriteOrder)
    /\ p' = IF k + 1 < Len(WriteOrder) THEN "write"
            ELSE IF Enrolling THEN "token" ELSE "reconnect"
    /\ UNCHANGED <<reconnect_gen, session, nvs, state, s_token, reply, ie, crashes>>

(* mutant: the state is stored before the token *)
StoreTokenAfterState ==
    /\ p = "token"
    /\ p' = "state"
    /\ rtk_state' = Provisioned
    /\ UNCHANGED <<credVars, rtk_token, k, state, s_token, reply, ie, crashes>>

StoreToken ==
    /\ p = "token"
    /\ p' = "state"
    /\ s_token' = reply.token /\ rtk_token' = reply.token
    /\ UNCHANGED <<credVars, rtk_state, k, state, reply, ie, crashes>>

StoreState ==
    /\ p = "state"
    /\ p' = "reconnect"
    /\ rtk_state' = Provisioned
    /\ UNCHANGED <<credVars, rtk_token, k, state, s_token, reply, ie, crashes>>

(* mutant: the sessions are not told *)
TellNobody ==
    /\ p = "reconnect"
    /\ p' = IF Enrolling THEN "promote" ELSE "persist"
    /\ UNCHANGED <<credVars, nvs, k, state, s_token, reply, ie, crashes>>

(* ntrip_server_reconnect_all, after either kind of write *)
TellSessions ==
    /\ p = "reconnect"
    /\ p' = IF Enrolling THEN "promote" ELSE "persist"
    /\ reconnect_gen' = reconnect_gen + 1
    /\ UNCHANGED <<stored, session, nvs, k, state, s_token, reply, ie, crashes>>

(* enroll returned true *)
EnrollDone ==
    /\ p = "promote"
    /\ p' = "choose"
    /\ state' = Provisioned /\ reply' = NoReply
    /\ UNCHANGED <<credVars, nvs, k, s_token, ie, crashes>>
-----------------------------------------------------------------------------
(* heartbeat and apply_reply *)

HeartbeatAnswered ==
    /\ p = "choose" /\ state >= Provisioned
    /\ s_token = ie.token
    /\ \E promoted \in Provisioned .. 3 :
         reply' = [creds |-> ie.creds, token |-> 0, state |-> promoted]
    /\ p' = "differ"
    /\ UNCHANGED <<credVars, nvs, k, state, s_token, ie, crashes>>

(* The body did not fit, no answer, a status other than 200, or no JSON. *)
HeartbeatFails ==
    /\ p = "choose" /\ state >= Provisioned
    /\ p' = "reread"
    /\ UNCHANGED <<credVars, nvs, k, state, s_token, reply, ie, crashes>>

(* caster_creds_differ.  mutant: only the first key is compared *)
DiffersInFirst == stored[WriteOrder[1]] # reply.creds
Differs == \E f \in Fields : stored[f] # reply.creds

ApplyReply ==
    /\ p = "differ"
    /\ p' = IF Differs THEN "write" ELSE "persist"
    /\ UNCHANGED <<credVars, nvs, k, state, s_token, reply, ie, crashes>>

PersistState ==
    /\ p = "persist"
    /\ p' = "reread"
    /\ rtk_state' = reply.state
    /\ reply' = NoReply
    /\ UNCHANGED <<credVars, rtk_token, k, state, s_token, ie, crashes>>

RereadState ==
    /\ p = "reread"
    /\ p' = "choose"
    /\ state' = rtk_state
    /\ UNCHANGED <<credVars, nvs, k, s_token, reply, ie, crashes>>

Enroll == \/ \E delivered \in BOOLEAN : EnrollServed(delivered)
          \/ WriteCasterCreds \/ StoreToken \/ StoreState \/ TellSessions \/ EnrollDone
Heartbeat == HeartbeatAnswered \/ HeartbeatFails \/ ApplyReply \/ PersistState \/ RereadState
-----------------------------------------------------------------------------
(* the IE, the caster and the power supply *)

(* external: the station is moved to another mountpoint or caster *)
Repoint ==
    /\ ie.creds < MaxVersion
    /\ ie' = [ie EXCEPT !.creds = @ + 1]
    /\ UNCHANGED <<credVars, nvs, task, crashes>>

(* external: the caster takes the credentials that hold, and refuses a mixture *)
Accepts ==
    \E v \in 1 .. ie.creds : /\ TakesOld \/ v = ie.creds
                             /\ \A f \in Fields : Uses(f) = v

(* what the server task does by itself ... *)
SessionTask ==
    /\ \/ SessStart \/ SessLoad \/ SessSnapshot \/ (sess = "dial" /\ Accepts /\ SessUp)
       \/ SessDialFails \/ SessReconnects
    /\ UNCHANGED <<nvs, task, ie, crashes>>

(* ... and what may happen to its connection *)
ConnectionBreaks ==
    /\ SessBreaks
    /\ UNCHANGED <<nvs, task, ie, crashes>>

Crash ==
    /\ crashes < MaxCrashes
    /\ crashes' = crashes + 1
    /\ reconnect_gen' = 0
    /\ sess' = "idle" /\ loaded' = <<>> /\ conn_gen' = 0
    /\ p' = "boot" /\ k' = 0 /\ state' = Unclaimed /\ s_token' = 0 /\ reply' = NoReply
    /\ UNCHANGED <<stored, nvs, ie>>

Next == LoadIdentity \/ Enroll \/ Heartbeat \/ SessionTask \/ ConnectionBreaks \/ Repoint \/ Crash

Spec == Init /\ [][Next]_vars

(***************************************************************************)
(* The tasks run; among the requests made for ever some are answered, and  *)
(* a caster offered credentials it accepts takes the connection some time. *)
(* Nothing makes an established connection break: a session that is up     *)
(* ends for certain only once the generation has moved on.                 *)
(***************************************************************************)
FairSpec ==
    /\ Spec
    /\ WF_vars(LoadIdentity \/ Enroll \/ Heartbeat) /\ WF_vars(SessionTask)
    /\ SF_vars(EnrollServed(TRUE)) /\ SF_vars(HeartbeatAnswered)
    /\ SF_vars(SessionTask /\ sess' = "up")
-----------------------------------------------------------------------------
(***************************************************************************)
(* Properties.                                                             *)
(***************************************************************************)

(* Whatever was lost or interrupted, a station recorded as enrolled holds the
   token the IE accepts: enroll stores the token before the state, and a station
   not recorded as enrolled enrols again.  (The heartbeat relies on it: "it only
   runs once state >= PROVISIONING, so s_token is always set here".) *)
EnrolledIsKnown == rtk_state >= Provisioned => rtk_token = ie.token

(* Why: the inductive invariant.  The task decides on the state NVS holds; only a
   known station gets to where an answer is applied without enrolling; while it
   enrols, the token of the answer is the last one the IE has issued. *)
Ledger ==
    /\ p = "choose" => state = rtk_state
    /\ p \in {"boot", "choose", "reread"} => ~Enrolling
    /\ p \in {"token", "state", "promote"} => Enrolling
    /\ Enrolling => reply.token = ie.token
    /\ Enrolling /\ p \in {"state", "reconnect", "promote"} => rtk_token = ie.token
    /\ Enrolling /\ p \in {"reconnect", "promote"} => rtk_state = Provisioned
    /\ ~Enrolling /\ p \in {"differ", "write", "reconnect", "persist"} => rtk_state >= Provisioned
    /\ p \in {"differ", "persist"} => ~Enrolling

IInv == TypeOK /\ Ledger /\ EnrolledIsKnown

(* A station whose credentials were replaced, or half replaced when the power
   failed, comes up with the ones that hold: an answer that differs in any key
   from what is stored is stored whole, and the session that is up with the
   replaced ones is told, ends and reads them again.  For a caster that refuses
   replaced credentials: a dial that has read them before the request fails. *)
GoesLive == []<>(sess = "up" /\ \A f \in Fields : Uses(f) = ie.creds)
=============================================================================

----------------------------- MODULE CaptiveDns -----------------------------
(***************************************************************************)
(* The captive-portal DNS server of main/dns_server.c: a task that the     *)
(* event loop starts with the access point and stops with it.  dns_start   *)
(* and dns_stop are the parts of dns_hijack_start and dns_hijack_stop that *)
(* the event loop runs (Wifi composes them with the handlers); the others  *)
(* are steps of the task.  What a query is answered with is left out.      *)
(***************************************************************************)
EXTENDS Naturals

VARIABLES
    s_run,          \* the task may go on
    s_sock,         \* is the socket open?
    s_dns_task,     \* does the handle say that the task exists?
    dns,            \* where the task is; "none": it does not exist
    dns_failed      \* the task of this access point gave up by itself

dnsVars == <<s_run, s_sock, s_dns_task, dns, dns_failed>>

DnsTypeOK ==
    /\ s_run \in BOOLEAN /\ s_sock \in BOOLEAN /\ s_dns_task \in BOOLEAN
    /\ dns \in {"none", "socket", "check", "recv", "exit"}
    /\ dns_failed \in BOOLEAN

DnsInit ==
    /\ s_run = FALSE /\ s_sock = FALSE /\ s_dns_task = FALSE
    /\ dns = "none" /\ dns_failed = FALSE

dns_start ==
    IF s_dns_task
    THEN UNCHANGED dnsVars
    ELSE /\ s_run' = TRUE /\ s_dns_task' = TRUE
         /\ dns' = "socket" /\ dns_failed' = FALSE
         /\ UNCHANGED s_sock

(* Closing the socket wakes the task. *)
dns_stop ==
    IF s_dns_task
    THEN /\ s_run' = FALSE /\ s_sock' = FALSE
         /\ UNCHANGED <<s_dns_task, dns, dns_failed>>
    ELSE UNCHANGED dnsVars
-----------------------------------------------------------------------------
(* dns_task *)

DnsSocket ==
    /\ dns = "socket"
    /\ s_sock' = TRUE
    /\ dns' = "check"
    /\ UNCHANGED <<s_run, s_dns_task, dns_failed>>

(* socket or bind fails *)
DnsFails ==
    /\ dns = "socket"
    /\ s_sock' = FALSE /\ s_dns_task' = FALSE
    /\ dns' = "none" /\ dns_failed' = TRUE
    /\ UNCHANGED s_run

DnsCheck ==
    /\ dns = "check"
    /\ dns' = IF s_run THEN "recv" ELSE "exit"
    /\ UNCHANGED <<s_run, s_sock, s_dns_task, dns_failed>>

(* The socket is closed.  A datagram that arrives before, answered or not, leads
   back to the same wait. *)
DnsRecv ==
    /\ dns = "recv" /\ ~s_sock
    /\ dns' = "exit"
    /\ UNCHANGED <<s_run, s_sock, s_dns_task, dns_failed>>

(* mutant: the handle is left as it is *)
DnsExitKeepsHandle ==
    /\ dns = "exit"
    /\ s_sock' = FALSE
    /\ dns' = "none"
    /\ UNCHANGED <<s_run, s_dns_task, dns_failed>>

DnsExit ==
    /\ dns = "exit"
    /\ s_sock' = FALSE /\ s_dns_task' = FALSE
    /\ dns' = "none"
    /\ UNCHANGED <<s_run, dns_failed>>

DnsStep == DnsSocket \/ DnsCheck \/ DnsRecv \/ DnsExit
=============================================================================

-------------------------------- MODULE Wifi --------------------------------
(***************************************************************************)
(* Station, configuration access point (AP) and captive DNS of main/wifi.c *)
(* and main/dns_server.c.  The Wi-Fi driver posts events; the event loop   *)
(* handles them one at a time, later and in order.  Beside it run the task *)
(* that closes the AP, the task that reconnects the station and the        *)
(* supervisor, which both may restart the driver.                          *)
(*                                                                         *)
(* A tick of time is a part of the AP's window of 15 minutes: it passes    *)
(* when everything that is due has been done.                              *)
(***************************************************************************)
EXTENDS CaptiveDns, Sequences, FiniteSets

CONSTANTS Clients,          \* devices that may join the AP
          AP_AUTO_OFF,      \* ticks of the AP's window
          AP_MAX_REARMS,
          MAX_FAILED,       \* connection attempts before the driver is restarted (60)
          MaxFaults,        \* bound: losses of the network, of an address, of a leave
                            \* event or of the DNS task, driver restarts, early stops
          MaxQueue,         \* bound: events in the queue when the driver goes on
          MaxJoins,         \* bound: clients joining
          MaxReboots        \* bound: configuration changes, each with a restart

ASSUME WifiConstants ==
    /\ IsFiniteSet(Clients)
    /\ AP_AUTO_OFF \in Nat \ {0} /\ AP_MAX_REARMS \in Nat /\ MAX_FAILED \in Nat
    /\ MaxFaults \in Nat /\ MaxQueue \in Nat /\ MaxJoins \in Nat /\ MaxReboots \in Nat

VARIABLES
    provisioned,        \* is a station SSID stored?
    net,                \* is the configured network in reach? (external)
    running, apsta,     \* driver: started; mode APSTA (else STA)
    link,               \* driver: "off", "trying", "assoc" or "ip"
    clients,            \* driver: who is on the AP
    events, loop,       \* the event loop: its queue, "free" or in dns_hijack_stop
    client_bit, due_bit, ip_bit,            \* wifi_event_group
    ap_rearm_count, timer,                  \* timer: ticks left, 0 when inactive
    ap_active, sta_active, sta_connected,
    ctrl,               \* wifi_control_task: "wait", "test" or "stop"
    failed_attempts, restarting,            \* restarting: who has stopped the driver
    open,               \* ticks the AP has been up since its start or since the
                        \* station last connected
    restart_due,        \* config_restart is under way
    faults, joins, reboots

driver == <<running, apsta, link, clients>>
bits == <<client_bit, due_bit, ip_bit>>
flags == <<ap_active, sta_active, sta_connected>>
apTimer == <<ap_rearm_count, timer>>
recon == <<failed_attempts, restarting>>
world == <<provisioned, net, restart_due>>
bounds == <<faults, joins, reboots>>
wifiVars == <<dnsVars, world, driver, events, loop, bits, flags, apTimer, ctrl, recon, open, bounds>>

Events == {"sta_start", "sta_stop", "sta_connected", "sta_disconnected", "got_ip", "lost_ip",
           "ap_start", "ap_stop", "joined", "left"}

WifiTypeOK ==
    /\ DnsTypeOK
    /\ provisioned \in BOOLEAN /\ net \in BOOLEAN
    /\ running \in BOOLEAN /\ apsta \in BOOLEAN /\ link \in {"off", "trying", "assoc", "ip"}
    /\ clients \subseteq Clients
    /\ events \in Seq(Events) /\ loop \in {"free", "stopping"}
    /\ client_bit \in BOOLEAN /\ due_bit \in BOOLEAN /\ ip_bit \in BOOLEAN
    /\ ap_rearm_count \in 0 .. AP_MAX_REARMS /\ timer \in 0 .. AP_AUTO_OFF
    /\ ap_active \in BOOLEAN /\ sta_active \in BOOLEAN /\ sta_connected \in BOOLEAN
    /\ ctrl \in {"wait", "test", "stop"}
    /\ failed_attempts \in 0 .. MAX_FAILED + 1 /\ restarting \subseteq {"reconnect", "supervisor"}
    /\ open \in Nat /\ restart_due \in BOOLEAN
    /\ faults \in 0 .. MaxFaults /\ joins \in 0 .. MaxJoins /\ reboots \in 0 .. MaxReboots

ApUp == running /\ apsta
Started == IF apsta THEN <<"sta_start", "ap_start">> ELSE <<"sta_start">>

(* wifi_init, on an event loop that has seen nothing *)
WifiInit ==
    /\ DnsInit
    /\ provisioned \in BOOLEAN /\ net = provisioned /\ restart_due = FALSE
    /\ running = TRUE /\ apsta = TRUE /\ link = "off" /\ clients = {}
    /\ events = <<"sta_start", "ap_start">> /\ loop = "free"
    /\ client_bit = FALSE /\ due_bit = FALSE /\ ip_bit = FALSE
    /\ ap_rearm_count = 0 /\ timer = AP_AUTO_OFF
    /\ ap_active = FALSE /\ sta_active = FALSE /\ sta_connected = FALSE
    /\ ctrl = "wait" /\ failed_attempts = 0 /\ restarting = {} /\ open = 0
    /\ faults = 0 /\ joins = 0 /\ reboots = 0

Fault == faults < MaxFaults /\ faults' = faults + 1
Post(evs) == events' = events \o evs
Handles(e) == loop = "free" /\ events # <<>> /\ Head(events) = e

(* esp_wifi_connect: refused without an SSID, while stopped or while busy *)
Connect == link' = IF running /\ provisioned /\ link = "off" THEN "trying" ELSE link
-----------------------------------------------------------------------------
(* the event handlers *)

HandleStaStart ==
    /\ Handles("sta_start")
    /\ events' = Tail(events)
    /\ sta_active' = TRUE
    /\ Connect
    /\ UNCHANGED <<dnsVars, world, running, apsta, clients, loop, bits, ap_active, sta_connected,
                   apTimer, ctrl, recon, open, bounds>>

HandleStaStop ==
    /\ Handles("sta_stop")
    /\ events' = Tail(events)
    /\ sta_active' = FALSE
    /\ UNCHANGED <<dnsVars, world, driver, loop, bits, ap_active, sta_connected, apTimer, ctrl,
                   recon, open, bounds>>

(* wifi_ap_start_timer starts the timer, or starts it again *)
HandleStaConnected ==
    /\ Handles("sta_connected")
    /\ events' = Tail(events)
    /\ sta_connected' = TRUE
    /\ timer' = AP_AUTO_OFF /\ open' = 0
    /\ UNCHANGED <<dnsVars, world, driver, loop, bits, ap_active, sta_active, ap_rearm_count, ctrl,
                   recon, bounds>>

(* wifi_ap_start_only gives up when a driver that is stopping refuses the mode *)
ApStartOnly ==
    /\ \E opened \in {running, TRUE} :
         apsta' = (apsta \/ opened) /\ ap_active' = (ap_active \/ opened)
    /\ events' = IF running /\ ~apsta THEN Append(Tail(events), "ap_start") ELSE Tail(events)

(* A unit without an SSID opens its AP again and starts the timer, opened or not.
   mutant: the flag that starts the reconnecting is not cleared *)
HandleStaDisconnectedKeeps ==
    /\ Handles("sta_disconnected")
    /\ ip_bit' = FALSE
    /\ events' = Tail(events)
    /\ UNCHANGED <<dnsVars, world, driver, loop, client_bit, due_bit, flags, apTimer, open, ctrl,
                   recon, bounds>>

HandleStaDisconnected ==
    /\ Handles("sta_disconnected")
    /\ sta_connected' = FALSE /\ ip_bit' = FALSE
    /\ IF provisioned
       THEN /\ events' = Tail(events)
            /\ UNCHANGED <<apsta, ap_active, timer, open>>
       ELSE /\ ApStartOnly
            /\ timer' = AP_AUTO_OFF /\ open' = 0
    /\ UNCHANGED <<dnsVars, world, running, link, clients, loop, client_bit, due_bit, sta_active,
                   ap_rearm_count, ctrl, recon, bounds>>

HandleApStart ==
    /\ Handles("ap_start")
    /\ events' = Tail(events)
    /\ ap_active' = TRUE /\ ap_rearm_count' = 0 /\ open' = 0
    /\ dns_start
    /\ UNCHANGED <<world, driver, loop, bits, sta_active, sta_connected, timer, ctrl, recon, bounds>>

(* dns_hijack_stop waits for its task before the handler goes on, 500 ms at most:
   longer than the task takes that the closed socket has woken. *)
HandleApStop ==
    /\ Handles("ap_stop")
    /\ loop' = "stopping"
    /\ dns_stop
    /\ UNCHANGED <<world, driver, events, bits, flags, apTimer, ctrl, recon, open, bounds>>

ApStopEnds ==
    /\ loop = "stopping" /\ dns = "none"
    /\ loop' = "free" /\ events' = Tail(events)
    /\ client_bit' = FALSE /\ ap_rearm_count' = 0 /\ ap_active' = FALSE
    /\ UNCHANGED <<dnsVars, world, driver, due_bit, ip_bit, sta_active, sta_connected, timer, ctrl,
                   recon, open, bounds>>

HandleApStaConnected ==
    /\ Handles("joined")
    /\ events' = Tail(events)
    /\ client_bit' = TRUE
    /\ UNCHANGED <<dnsVars, world, driver, loop, due_bit, ip_bit, flags, apTimer, ctrl, recon, open,
                   bounds>>

(* The driver is asked who is there now.
   mutant: whoever leaves was the last one *)
NobodyLeftEver == TRUE
NobodyLeft == clients = {}

HandleApStaDisconnected ==
    /\ Handles("left")
    /\ events' = Tail(events)
    /\ client_bit' = IF NobodyLeft THEN FALSE ELSE client_bit
    /\ UNCHANGED <<dnsVars, world, driver, loop, due_bit, ip_bit, flags, apTimer, ctrl, recon, open,
                   bounds>>

HandleStaGotIp ==
    /\ Handles("got_ip")
    /\ events' = Tail(events)
    /\ ip_bit' = TRUE
    /\ UNCHANGED <<dnsVars, world, driver, loop, client_bit, due_bit, flags, apTimer, ctrl, recon,
                   open, bounds>>

(* esp_wifi_disconnect, for the reconnecting to begin *)
HandleStaLostIp ==
    /\ Handles("lost_ip")
    /\ ip_bit' = FALSE
    /\ link' = IF link = "trying" THEN link ELSE "off"
    /\ events' = Tail(events) \o IF link \in {"assoc", "ip"} THEN <<"sta_disconnected">> ELSE <<>>
    /\ UNCHANGED <<dnsVars, world, running, apsta, clients, loop, client_bit, due_bit, flags, apTimer,
                   ctrl, recon, open, bounds>>

EventLoop == \/ HandleStaStart \/ HandleStaStop \/ HandleStaConnected \/ HandleStaDisconnected
             \/ HandleApStart \/ HandleApStop \/ ApStopEnds
             \/ HandleApStaConnected \/ HandleApStaDisconnected
             \/ HandleStaGotIp \/ HandleStaLostIp
-----------------------------------------------------------------------------
(* wifi_control_task *)

CtrlWakes ==
    /\ ctrl = "wait" /\ due_bit
    /\ ctrl' = "test" /\ due_bit' = FALSE
    /\ UNCHANGED <<dnsVars, world, driver, events, loop, client_bit, ip_bit, flags, apTimer, recon,
                   open, bounds>>

(* mutant: the window is renewed as long as a client stays *)
MayRearmAlways == client_bit
MayRearm == client_bit /\ ap_rearm_count < AP_MAX_REARMS

CtrlTests ==
    /\ ctrl = "test"
    /\ IF MayRearm
       THEN /\ ap_rearm_count' = ap_rearm_count + 1
            /\ timer' = AP_AUTO_OFF
            /\ ctrl' = "wait"
       ELSE ctrl' = "stop" /\ UNCHANGED apTimer
    /\ UNCHANGED <<dnsVars, world, driver, events, loop, bits, flags, recon, open, bounds>>

Left == [i \in 1 .. Cardinality(clients) |-> "left"]
ApStopped == IF ApUp THEN Append(Left, "ap_stop") ELSE <<>>

(* wifi_ap_stop_only, when the mode is not STA *)
CtrlStops ==
    /\ ctrl = "stop"
    /\ ctrl' = "wait"
    /\ apsta' = FALSE /\ clients' = {}
    /\ ap_active' = IF apsta THEN FALSE ELSE ap_active
    /\ Post(ApStopped)
    /\ UNCHANGED <<dnsVars, world, running, link, loop, bits, sta_active, sta_connected, apTimer,
                   recon, open, bounds>>

Control == CtrlWakes \/ CtrlTests \/ CtrlStops

(* ap_stop_timer_cb at the end of the window *)
Quiet == loop = "free" /\ events = <<>> /\ link # "trying"

Tick ==
    /\ Quiet /\ ctrl = "wait" /\ ~due_bit /\ restarting = {} /\ dns \in {"none", "recv"}
    /\ timer > 0 \/ (ApUp /\ open <= (AP_MAX_REARMS + 1) * AP_AUTO_OFF)
    /\ timer' = IF timer > 0 THEN timer - 1 ELSE 0
    /\ due_bit' = (timer = 1)
    /\ open' = IF ApUp THEN open + 1 ELSE open
    /\ UNCHANGED <<dnsVars, world, driver, events, loop, client_bit, ip_bit, flags, ap_rearm_count,
                   ctrl, recon, bounds>>

(* wifi_ap_stop_now, called by the update at the start of the program *)
ApStopNow ==
    /\ ap_active /\ Fault
    /\ due_bit' = TRUE
    /\ UNCHANGED <<dnsVars, world, driver, events, loop, client_bit, ip_bit, flags, apTimer, ctrl,
                   recon, open, joins, reboots>>
-----------------------------------------------------------------------------
(* wifi_sta_reconnect_task and the restarts of the driver *)

(* An attempt follows the last one by seconds: its events are handled. *)
Reconnect ==
    /\ sta_active /\ ~sta_connected /\ Quiet
    /\ "reconnect" \notin restarting /\ failed_attempts <= MAX_FAILED
    /\ Connect
    /\ failed_attempts' = failed_attempts + 1
    /\ UNCHANGED <<dnsVars, world, running, apsta, clients, events, loop, bits, flags, apTimer, ctrl,
                   restarting, open, bounds>>

ReconnectIdle ==
    /\ sta_connected /\ failed_attempts \in 1 .. MAX_FAILED
    /\ failed_attempts' = 0
    /\ UNCHANGED <<dnsVars, world, driver, events, loop, bits, flags, apTimer, ctrl, restarting, open,
                   bounds>>

(* esp_wifi_stop *)
DriverStop(t) ==
    /\ t \notin restarting
    /\ restarting' = restarting \cup {t}
    /\ running' = FALSE /\ link' = "off" /\ clients' = {}
    /\ Post((IF link # "off" THEN <<"sta_disconnected">> ELSE <<>>)
            \o (IF running THEN <<"sta_stop">> ELSE <<>>) \o ApStopped)
    /\ UNCHANGED <<dnsVars, world, apsta, loop, bits, flags, apTimer, ctrl, failed_attempts, open,
                   joins, reboots>>

ReconnectStops ==
    /\ failed_attempts > MAX_FAILED
    /\ DriverStop("reconnect")
    /\ UNCHANGED faults

(* wifi_driver_restart, called by the supervisor while there is no address *)
SupervisorStops ==
    /\ ~ip_bit /\ Fault
    /\ DriverStop("supervisor")

(* esp_wifi_start *)
DriverStart(t) ==
    /\ t \in restarting
    /\ restarting' = restarting \ {t}
    /\ failed_attempts' = IF t = "reconnect" THEN 0 ELSE failed_attempts
    /\ running' = TRUE
    /\ Post(IF running THEN <<>> ELSE Started)
    /\ UNCHANGED <<dnsVars, world, apsta, link, clients, loop, bits, flags, apTimer, ctrl, open, bounds>>

Reconnecting == Reconnect \/ ReconnectIdle \/ ReconnectStops \/ DriverStart("reconnect")
-----------------------------------------------------------------------------
(* the driver, the network and the clients (external) *)

DriverPosts(e) == Len(events) < MaxQueue /\ Post(<<e>>)

Associate ==
    /\ link = "trying" /\ net
    /\ link' = "assoc" /\ DriverPosts("sta_connected")
    /\ UNCHANGED <<dnsVars, world, running, apsta, clients, loop, bits, flags, apTimer, ctrl, recon,
                   open, bounds>>

Refused ==
    /\ link = "trying" /\ ~net
    /\ link' = "off" /\ DriverPosts("sta_disconnected")
    /\ UNCHANGED <<dnsVars, world, running, apsta, clients, loop, bits, flags, apTimer, ctrl, recon,
                   open, bounds>>

ObtainIp ==
    /\ link = "assoc"
    /\ link' = "ip" /\ DriverPosts("got_ip")
    /\ UNCHANGED <<dnsVars, world, running, apsta, clients, loop, bits, flags, apTimer, ctrl, recon,
                   open, bounds>>

LoseAddress ==
    /\ link = "ip" /\ Fault
    /\ link' = "assoc" /\ DriverPosts("lost_ip")
    /\ UNCHANGED <<dnsVars, world, running, apsta, clients, loop, bits, flags, apTimer, ctrl, recon,
                   open, joins, reboots>>

NetworkChanges ==
    /\ provisioned
    /\ net' = ~net
    /\ IF net THEN Fault ELSE UNCHANGED faults
    /\ IF net /\ link \in {"assoc", "ip"}
       THEN link' = "off" /\ DriverPosts("sta_disconnected")
       ELSE UNCHANGED <<link, events>>
    /\ UNCHANGED <<dnsVars, provisioned, restart_due, running, apsta, clients, loop, bits, flags,
                   apTimer, ctrl, recon, open, joins, reboots>>

Join(c) ==
    /\ ApUp /\ c \notin clients /\ joins < MaxJoins
    /\ joins' = joins + 1
    /\ clients' = clients \cup {c} /\ DriverPosts("joined")
    /\ UNCHANGED <<dnsVars, world, running, apsta, link, loop, bits, flags, apTimer, ctrl, recon, open,
                   faults, reboots>>

(* The event may be missed. *)
Leave(c) ==
    /\ c \in clients
    /\ clients' = clients \ {c}
    /\ \/ DriverPosts("left") /\ UNCHANGED faults
       \/ Fault /\ UNCHANGED events
    /\ UNCHANGED <<dnsVars, world, running, apsta, link, loop, bits, flags, apTimer, ctrl, recon, open,
                   joins, reboots>>

DnsTask ==
    /\ \/ DnsStep /\ UNCHANGED faults
       \/ DnsFails /\ Fault
    /\ UNCHANGED <<world, driver, events, loop, bits, flags, apTimer, ctrl, recon, open, joins, reboots>>

(* A new SSID, or none: the form of the web server, or the reset button. *)
Reconfigure ==
    /\ ~restart_due /\ reboots < MaxReboots
    /\ provisioned' \in BOOLEAN /\ restart_due' = TRUE
    /\ UNCHANGED <<dnsVars, net, driver, events, loop, bits, flags, apTimer, ctrl, recon, open, bounds>>

Restart ==
    /\ restart_due
    /\ restart_due' = FALSE /\ reboots' = reboots + 1
    /\ net' \in {FALSE, provisioned}
    /\ s_run' = FALSE /\ s_sock' = FALSE /\ s_dns_task' = FALSE /\ dns' = "none" /\ dns_failed' = FALSE
    /\ running' = TRUE /\ apsta' = TRUE /\ link' = "off" /\ clients' = {}
    /\ events' = <<"sta_start", "ap_start">> /\ loop' = "free"
    /\ client_bit' = FALSE /\ due_bit' = FALSE /\ ip_bit' = FALSE
    /\ ap_rearm_count' = 0 /\ timer' = AP_AUTO_OFF
    /\ ap_active' = FALSE /\ sta_active' = FALSE /\ sta_connected' = FALSE
    /\ ctrl' = "wait" /\ failed_attempts' = 0 /\ restarting' = {} /\ open' = 0
    /\ UNCHANGED <<provisioned, faults, joins>>

Station == Associate \/ Refused \/ ObtainIp
Others == \/ ApStopNow \/ SupervisorStops \/ LoseAddress \/ NetworkChanges \/ Reconfigure
          \/ \E c \in Clients : Join(c) \/ Leave(c)

WifiNext == \/ EventLoop \/ Control \/ Tick \/ Reconnecting \/ DriverStart("supervisor")
        \/ Station \/ DnsTask \/ Restart \/ Others

WifiSpec == WifiInit /\ [][WifiNext]_wifiVars

(* The tasks run, the driver ends what it began, time passes; none of it for
   the network, the clients or the faults. *)
WifiFairSpec ==
    /\ WifiSpec
    /\ WF_wifiVars(EventLoop) /\ WF_wifiVars(Control) /\ WF_wifiVars(Tick)
    /\ WF_wifiVars(Reconnecting) /\ WF_wifiVars(DriverStart("supervisor"))
    /\ WF_wifiVars(Station) /\ WF_wifiVars(Restart) /\ WF_wifiVars(DnsTask)
-----------------------------------------------------------------------------
(***************************************************************************)
(* Properties.                                                             *)
(***************************************************************************)

(* Who is on the AP is seen: once the clients' events are handled the bit that
   spares the AP is set, whoever else left, and whether the AP was closed and
   opened in between. *)
ClientIsSeen == (clients # {} /\ events = <<>> /\ loop = "free") => client_bit

(* "Bounds the open-AP window to ~(1 + AP_MAX_REARMS) * 15 min per AP session",
   counted from the station's last connection, which starts the window again: no
   client that stays, no leave event that was missed and no restart of the driver
   keeps an AP open without a running timer. *)
ApBounded == open <= (AP_MAX_REARMS + 1) * AP_AUTO_OFF

(* The captive DNS follows the AP: when all is handled, its task serves a unit's
   open AP unless it failed itself, and no task is left behind a closed one. *)
DnsFollowsAp ==
    Quiet /\ restarting = {} /\ dns \in {"none", "recv"}
      => IF ApUp THEN dns_failed \/ (dns = "recv" /\ s_sock /\ s_run) ELSE dns = "none"

(* A station whose network stays in reach gets its address in the end, and keeps
   it, whatever sequence of losses and driver restarts came before. *)
StationComesBack == <>[](net /\ provisioned) => <>[]ip_bit

(***************************************************************************)
(* The inductive invariant: what the handlers have done so far, together   *)
(* with the events still queued, agrees with the driver.                   *)
(***************************************************************************)
Has(q, e) == \E i \in 1 .. Len(q) : q[i] = e

(* every e of the queue is followed by an f *)
Followed(q, e, f) ==
    \A i \in 1 .. Len(q) : q[i] = e => \E j \in i + 1 .. Len(q) : q[j] = f

(* somebody joins after the AP is last closed *)
JoinsLast(q) ==
    \E i \in 1 .. Len(q) : q[i] = "joined" /\ \A j \in i + 1 .. Len(q) : q[j] # "ap_stop"

(* The AP's last event in the queue tells whether it is up. *)
LastApEvent ==
    /\ ApUp => Followed(events, "ap_stop", "ap_start")
    /\ ~ApUp => Followed(events, "ap_start", "ap_stop")
    /\ loop = "stopping" => events # <<>> /\ Head(events) = "ap_stop"

(* Somebody on the AP was seen, or will be after it was last closed. *)
SeenOrQueued ==
    clients # {} =>
      ApUp /\ ((client_bit /\ ~Has(events, "ap_stop")) \/ JoinsLast(events))

(* Rounds of the window pay for the time the AP is up, and one is under way
   or ending as long as the mode has an AP. *)
WindowPaid ==
    /\ ApBounded
    /\ ApUp /\ ~Has(events, "ap_start") => open + timer <= (ap_rearm_count + 1) * AP_AUTO_OFF
    /\ apsta /\ timer = 0 => due_bit \/ ctrl # "wait"

(* The DNS task lives between the handling of ap_start and of ap_stop. *)
DnsLives ==
    /\ s_dns_task <=> dns # "none"
    /\ dns # "none" => ~dns_failed
    /\ loop = "free" =>
         /\ dns # "none" => s_run
         /\ dns # "exit"
         /\ dns \in {"check", "recv"} => s_sock
    /\ loop = "stopping" /\ dns # "none" => ~s_run /\ (dns = "recv" => ~s_sock)
    /\ ApUp /\ ~Has(events, "ap_start") => dns # "none" \/ dns_failed
    /\ ~ApUp /\ ~Has(events, "ap_stop") => dns = "none"

(* A restart that is under way is within the bound. *)
RestartCounted == restart_due => reboots < MaxReboots

WifiInv == WifiTypeOK /\ RestartCounted /\ LastApEvent /\ SeenOrQueued /\ WindowPaid /\ DnsLives
=============================================================================

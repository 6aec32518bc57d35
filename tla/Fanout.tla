------------------------------- MODULE Fanout -------------------------------
(***************************************************************************)
(* From the UART to the secondary consumers: uart_task (main/uart.c) hands *)
(* every chunk to the RTCM path and then, as an event, to the event loop,  *)
(* whose handlers write it to the clients of the socket server and to the  *)
(* host of the socket client (main/interface/socket_server.c and           *)
(* socket_client.c).  Those writes block while a peer does not read.  What *)
(* the peers send goes to the receiver and, as an event, into the same     *)
(* queue.                                                                  *)
(*                                                                         *)
(* The list of clients has no lock.  A handler that meets an entry freed   *)
(* under it goes on with what it finds there, or the program panics.       *)
(***************************************************************************)
EXTENDS Naturals, Sequences, SequencesExt, FiniteSets

CONSTANTS Peers,        \* clients of the socket server
          QueueSize,    \* slots of the event queue (32)
          MaxFaults     \* bound: peers that stop reading, close or fail

ASSUME FanoutConstants ==
    /\ IsFiniteSet(Peers)
    /\ QueueSize \in Nat \ {0} /\ MaxFaults \in Nat

None == "none"
Host == "host"          \* the peer of the socket client
ASSUME HostIsNoPeer == {None, Host} \cap Peers = {}

VARIABLES
    u,          \* uart_task: "read" or "post"
    queue,      \* events: "read" and "write"
    loop,       \* the event loop: "idle", "client" (socket_client's handler) or
                \* "server" (socket_server's handler)
    cur, tmp,   \* client and client_tmp of the server's handler
    list,       \* socket_client_list
    srv, rcur,  \* socket_server_task: "select", "recv" or "post"; its client
    cli, sock,  \* socket_client_task: "dial", "read" or "post"; is its socket open?
    peer,       \* of each peer: "reads", "stuck", "closed" or "failed"
    sends,      \* the peers with something for us
    faults

uart == <<u>>
handler == <<loop, cur, tmp>>
server == <<srv, rcur>>
client == <<cli, sock>>
world == <<peer, sends, faults>>
vars == <<uart, queue, handler, list, server, client, world>>

TypeOK ==
    /\ u \in {"read", "post"}
    /\ queue \in Seq({"read", "write"}) /\ Len(queue) <= QueueSize
    /\ loop \in {"idle", "client", "server"}
    /\ cur \in Peers \cup {None} /\ tmp \in Peers \cup {None} /\ rcur \in Peers \cup {None}
    /\ list \in Seq(Peers)
    /\ srv \in {"select", "recv", "post"}
    /\ cli \in {"dial", "read", "post"} /\ sock \in BOOLEAN
    /\ peer \in [Peers \cup {Host} -> {"reads", "stuck", "closed", "failed"}]
    /\ sends \subseteq Peers \cup {Host}
    /\ faults \in 0 .. MaxFaults

Init ==
    /\ u = "read" /\ queue = <<>>
    /\ loop = "idle" /\ cur = None /\ tmp = None
    /\ list = <<>> /\ srv = "select" /\ rcur = None
    /\ cli = "dial" /\ sock = FALSE
    /\ peer = [p \in Peers \cup {Host} |-> "reads"] /\ sends = {} /\ faults = 0

On(p) == p \in Range(list)
After(p) == IF ~On(p) \/ Last(list) = p THEN None
            ELSE list[(CHOOSE i \in DOMAIN list : list[i] = p) + 1]
Unlinked(p) == SelectSeq(list, LAMBDA q : q # p)
Full == Len(queue) >= QueueSize

(* the program starts again after a panic *)
StartsAgain ==
    /\ u' = "read" /\ queue' = <<>>
    /\ loop' = "idle" /\ cur' = None /\ tmp' = None
    /\ list' = <<>> /\ srv' = "select" /\ rcur' = None
    /\ cli' = "dial" /\ sock' = FALSE
    /\ UNCHANGED world
-----------------------------------------------------------------------------
(* uart_task *)

UartReads ==
    /\ u = "read"
    /\ u' = "post"
    /\ UNCHANGED <<queue, handler, list, server, client, world>>

(* mutant: the post waits for a free slot *)
UartPostsWaiting ==
    /\ u = "post" /\ ~Full
    /\ u' = "read"
    /\ queue' = Append(queue, "read")
    /\ UNCHANGED <<handler, list, server, client, world>>

(* The post does not wait: the chunk is dropped for the secondary consumers. *)
UartPosts ==
    /\ u = "post"
    /\ u' = "read"
    /\ queue' = IF Full THEN queue ELSE Append(queue, "read")
    /\ UNCHANGED <<handler, list, server, client, world>>
-----------------------------------------------------------------------------
(* the event loop *)

TakeEvent ==
    /\ loop = "idle" /\ queue # <<>>
    /\ queue' = Tail(queue)
    /\ loop' = IF Head(queue) = "read" THEN "client" ELSE "idle"
    /\ UNCHANGED <<uart, cur, tmp, list, server, client, world>>

(* write() returns: not while the peer is connected and does not read *)
Returns(p) == peer[p] # "stuck"

(* socket_client_uart_handler; a write to a peer that has gone fails.
   mutant: the socket is kept after a failed write *)
ClientHandlerKeeps ==
    /\ loop = "client" /\ (sock => Returns(Host))
    /\ loop' = "server"
    /\ cur' = IF list = <<>> THEN None ELSE Head(list)
    /\ tmp' = IF list = <<>> THEN None ELSE After(Head(list))
    /\ UNCHANGED <<uart, queue, list, server, client, world>>

ClientHandler ==
    /\ loop = "client" /\ (sock => Returns(Host))
    /\ sock' = (sock /\ peer[Host] = "reads")
    /\ loop' = "server"
    /\ cur' = IF list = <<>> THEN None ELSE Head(list)
    /\ tmp' = IF list = <<>> THEN None ELSE After(Head(list))
    /\ UNCHANGED <<uart, queue, list, server, cli, world>>

(* socket_server_uart_handler, one client; its next one was read before *)
ServerHandler ==
    /\ loop = "server" /\ cur # None /\ On(cur) /\ Returns(cur)
    /\ list' = IF peer[cur] = "reads" THEN list ELSE Unlinked(cur)
    /\ cur' = tmp /\ tmp' = IF tmp = None THEN None ELSE After(tmp)
    /\ UNCHANGED <<uart, queue, loop, server, client, world>>

ServerHandlerEnds ==
    /\ loop = "server" /\ cur = None
    /\ loop' = "idle"
    /\ UNCHANGED <<uart, queue, cur, tmp, list, server, client, world>>

(* The client was freed by the server task: its memory still reads as before, and
   the walk goes on, ... *)
StaleEntry ==
    /\ loop = "server" /\ cur # None /\ ~On(cur)
    /\ cur' = tmp /\ tmp' = IF tmp = None THEN None ELSE After(tmp)
    /\ UNCHANGED <<uart, queue, loop, list, server, client, world>>

(* ... or it does not. *)
Panic ==
    /\ \/ loop = "server" /\ cur # None /\ ~On(cur)
       \/ srv # "select" /\ ~On(rcur)
    /\ StartsAgain

EventLoop == TakeEvent \/ ClientHandler \/ ServerHandler \/ ServerHandlerEnds
             \/ StaleEntry \/ Panic
-----------------------------------------------------------------------------
(* socket_server_task *)

(* socket_tcp_accept, socket_udp_accept: the client becomes the first *)
Accept(p) ==
    /\ srv = "select" /\ ~On(p) /\ peer[p] = "reads"
    /\ list' = <<p>> \o list
    /\ UNCHANGED <<uart, queue, handler, server, client, world>>

(* socket_clients_receive: select() reported the client *)
Receive(p) ==
    /\ srv = "select" /\ On(p) /\ (p \in sends \/ peer[p] \in {"closed", "failed"})
    /\ srv' = "recv" /\ rcur' = p
    /\ UNCHANGED <<uart, queue, handler, list, client, world>>

(* recv: data, then nothing (0 is no error: an orderly close keeps the client), or
   an error *)
ReceiveOne ==
    /\ srv = "recv" /\ On(rcur)
    /\ \/ /\ rcur \in sends
          /\ srv' = "post" /\ sends' = sends \ {rcur}
          /\ UNCHANGED <<rcur, list>>
       \/ /\ rcur \notin sends /\ peer[rcur] # "failed"
          /\ srv' = "select" /\ rcur' = None
          /\ UNCHANGED <<sends, list>>
       \/ /\ rcur \notin sends /\ peer[rcur] = "failed"
          /\ srv' = "select" /\ rcur' = None
          /\ list' = Unlinked(rcur)
          /\ UNCHANGED sends
    /\ UNCHANGED <<uart, queue, handler, client, peer, faults>>

(* uart_write: to the receiver, then an event that waits for a free slot *)
ServerPosts ==
    /\ srv = "post" /\ ~Full
    /\ srv' = "recv"
    /\ queue' = Append(queue, "write")
    /\ UNCHANGED <<uart, handler, list, rcur, client, world>>

(* The event loop freed the client that is being received from. *)
ReceiveStale ==
    /\ srv = "recv" /\ ~On(rcur)
    /\ srv' = "select" /\ rcur' = None
    /\ UNCHANGED <<uart, queue, handler, list, client, world>>

(* _error: select() failed, for a socket the event loop has closed or another
   reason; every client is dropped *)
SelectFails ==
    /\ srv = "select" /\ faults < MaxFaults
    /\ list' = <<>> /\ faults' = faults + 1
    /\ UNCHANGED <<uart, queue, handler, server, client, peer, sends>>

Server == (\E p \in Peers : Accept(p) \/ Receive(p)) \/ ReceiveOne \/ ServerPosts \/ ReceiveStale
-----------------------------------------------------------------------------
(* socket_client_task *)

(* A dial that fails is repeated after a pause. *)
Dial ==
    /\ cli = "dial" /\ peer[Host] = "reads"
    /\ cli' = "read" /\ sock' = TRUE
    /\ UNCHANGED <<uart, queue, handler, list, server, world>>

(* read() returns data (0 bytes for ever after an orderly close) ... *)
ClientReads ==
    /\ cli = "read" /\ sock /\ Host \in sends
    /\ cli' = "post" /\ sends' = sends \ {Host}
    /\ UNCHANGED <<uart, queue, handler, list, server, sock, peer, faults>>

(* ... or an error.  connect_message is freed for the second time on the way out:
   the heap's assertion stops the program, or the block was somebody else's. *)
ClientLeaves ==
    /\ cli = "read" /\ (~sock \/ peer[Host] = "failed")
    /\ \/ StartsAgain
       \/ /\ cli' = "dial" /\ sock' = FALSE
          /\ UNCHANGED <<uart, queue, handler, list, server, world>>

ClientPosts ==
    /\ cli = "post" /\ ~Full
    /\ cli' = "read"
    /\ queue' = Append(queue, "write")
    /\ UNCHANGED <<uart, handler, list, server, sock, world>>

Client == Dial \/ ClientReads \/ ClientLeaves \/ ClientPosts
-----------------------------------------------------------------------------
(* the peers (external) *)

Sends(p) ==
    /\ p \notin sends /\ peer[p] \in {"reads", "stuck"} /\ faults < MaxFaults
    /\ On(p) \/ (p = Host /\ sock)
    /\ sends' = sends \cup {p} /\ faults' = faults + 1
    /\ UNCHANGED <<uart, queue, handler, list, server, client, peer>>

Degrades(p) ==
    /\ peer[p] \in {"reads", "stuck"} /\ faults < MaxFaults
    /\ peer' = [peer EXCEPT ![p] = IF @ = "reads" THEN "stuck" ELSE "failed"]
    /\ faults' = faults + 1
    /\ UNCHANGED <<uart, queue, handler, list, server, client, sends>>

Closes(p) ==
    /\ peer[p] = "reads" /\ faults < MaxFaults
    /\ peer' = [peer EXCEPT ![p] = "closed"]
    /\ faults' = faults + 1
    /\ UNCHANGED <<uart, queue, handler, list, server, client, sends>>

(* The host can be dialled again once the connection to it is gone. *)
HostBack ==
    /\ peer[Host] \in {"closed", "failed"} /\ cli = "dial"
    /\ peer' = [peer EXCEPT ![Host] = "reads"]
    /\ sends' = sends \ {Host}
    /\ UNCHANGED <<uart, queue, handler, list, server, client, faults>>

World == SelectFails \/ HostBack \/ \E p \in Peers \cup {Host} : Sends(p) \/ Degrades(p) \/ Closes(p)

Next == UartReads \/ UartPosts \/ EventLoop \/ Server \/ Client \/ World

Spec == Init /\ [][Next]_vars

(* The tasks run, and the receiver always has bytes; nothing makes a peer read.  A
   task that waits for a slot of the queue gets one of those that become free. *)
FairSpec ==
    /\ Spec
    /\ WF_vars(UartReads \/ UartPosts) /\ WF_vars(EventLoop) /\ WF_vars(Server)
    /\ WF_vars(Client) /\ WF_vars(HostBack) /\ SF_vars(ClientPosts) /\ SF_vars(ServerPosts)
-----------------------------------------------------------------------------
(***************************************************************************)
(* Properties.                                                             *)
(***************************************************************************)

(* The sole reader of the UART goes on reading whatever the peers do: a client
   that stops reading blocks the event loop and fills its queue, and never the
   task that feeds the RTCM path. *)
ReaderNeverStalls == []<>(u = "read") /\ []<>(u = "post")

(* The socket client comes back after its host has closed the connection.  read()
   then returns 0 for ever and the task does not leave its loop; it does because
   the handler's next write fails and takes the socket away.  Unless some peer
   blocks the event loop. *)
HostComesBack ==
    (\A p \in Peers \cup {Host} : []<>(peer[p] # "stuck"))
      => (peer[Host] = "closed" ~> (cli = "read" /\ sock /\ peer[Host] = "reads"))
=============================================================================

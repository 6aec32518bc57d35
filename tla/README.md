# Formal models of the RTKdata base-station firmware

The firmware (ESP32, FreeRTOS, C) reads RTCM corrections from a UM980 receiver
over a UART and feeds them to one or more NTRIP casters. It has to run for years
in places nobody visits: it recovers the receiver, the connection and the Wi-Fi
link by itself, updates itself over the air, and must never need a manual power
cycle. This directory holds TLA+ models of the parts that carry this promise,
TLC configurations that check them on small instances, and TLAPS proofs of the
central ones for all instances. `PROJECT.json` lists the runs, the mutants, the
theorems, the findings, the hazards, and for every definition the source lines
it models. All paths below are relative to `src/`.

## 1. Inventory

| Component | Source | State | Operations | What makes it correct |
|---|---|---|---|---|
| RTCM frame parser | `main/interface/ntrip_tx_core.c` 1-145 | frame buffer, expected length, four counters | init, feed, process, hunt | the frames emitted do not depend on how the bytes are cut; no byte is lost uncounted; it always finishes |
| NTRIP send path | `ntrip_tx_core.c` 147-321, drain loop of `ntrip_server.c` | ring of frames, one cursor and one pending frame per instance, byte accounts | push, poll, abort, reset on connect, stall and deadline checks | whole frames in order on every connection, every byte in one account, no wedge on a peer that stops reading |
| Required-message contract | `ntrip_server.c` 808-922, `gnss.c` 200-258 | last time and epoch tag per required type, current epoch and its start | stamp, epoch reset, verdict | a verdict does not rest on frames from before a receiver reset; a healthy receiver is not called faulty |
| OTA update | `main/update.c` | partitions, otadata, NVS counters, install progress | boot-loop guard, boot check, install, confirm, roll back, clear, daily poll | always a bootable image; bounded retries; only proven images confirmed; crash loops end |
| Supervisor | `main/supervisor.c` | three liveness words, debounce times, heap streak | notes, one pass per second with five rungs | recoveries hit only what is silent, happen in time, and the last one is reached |
| NTRIP session | `ntrip_server.c` 95-806, `retry.c` | event bits, keep-alive counter, reconnect generation, credentials read, backoff | wait, dial, drain, disconnect, sleep, keep-alive | a reconnect request is never lost; a waiting instance dials again; the backoff never shortens without payload |
| GNSS control | `main/gnss.c`, `gnss_ack.c` | capture buffer, transaction lock, acked coordinate, cooldown | send and match acknowledgement, configure, set fixed base, recover | what is believed of the receiver is what it runs; a known coordinate is never surveyed again; receiver and NVS converge |
| Provisioning | `main/provisioning.c` | token and state in NVS, the reply in hand | enrol, heartbeat, apply reply | an enrolled station is known to the server; it comes up with the credentials that hold |
| Wi-Fi | `main/wifi.c` | station and AP flags, timer, event bits, driver | event handlers, reconnect task, AP control task, driver restarts | the AP closes in time and spares its clients; the station gets its address back |
| Captive DNS | `main/dns_server.c` | run flag, socket, task handle | start, stop, task | it serves while the AP is up, and only then |
| UART and fan-out | `main/uart.c`, `socket_server.c`, `socket_client.c` | event queue, client list, sockets | read, post, handlers, accept, receive, dial | the RTCM path never waits for a consumer; the socket client comes back |
| Configuration | `main/config.c` | NVS keys | typed access, reset, restart | storage access; its writes are steps of the modules that make them |
| Web server, LED, statistics, log, JSON, NMEA | remaining `.c` files | - | - | formatting, parsing and display |

How they interact. The UART task (priority 10) calls the GNSS capture and the
RTCM ingest synchronously; the parser hands complete frames to `ntrip_server_on_frame`,
which stamps the required types, notes receiver liveness and pushes the frame
into the ring. One server task per NTRIP instance copies frames out of the ring
under the ring lock and writes them to its own socket, noting caster liveness.
The supervisor reads the liveness words without a lock and calls
`gnss_recover`, `ntrip_server_reconnect_all`, `wifi_driver_restart` or
`esp_restart`. A receiver reset starts a new epoch of the message contract. The
OTA confirmation task asks for the contract's verdict and decides between
confirming and rolling back; every reboot passes through the boot-loop guard.
Provisioning writes the caster credentials key by key and bumps the reconnect
generation, which the server tasks compare; each heartbeat reply also hands a
coordinate to the GNSS control, whose transaction lock it shares with the
recoveries. The default event loop runs the Wi-Fi handlers, the captive DNS's
start and stop, and the socket handlers, one after the other.

What is hard. Plain words shared by tasks of different priority on two cores
(contract, liveness words, reset request); 32-bit millisecond clocks that wrap;
partial sends and connections that die in the middle of a frame; a power loss or
crash between any two flash writes; recoveries that themselves look like signs
of life. `PROJECT.json` "hazards" lists each one at its line with the
properties aimed at it.

## 2. Modules

| Module | Models | Composition |
|---|---|---|
| `FrameFeed` | the promise of the send path, with every mechanism left out | abstract specification |
| `NtripTx` | ring, sender, drain loop and ring lock | implements `FrameFeed` by `INSTANCE ... WITH` |
| `RtcmParser` | parser, feed loop and reset request | - |
| `MsgFreshness` | UART task, GNSS reset and verdict over shared words | - |
| `OtaBoot` | update path and bootloader over flash and NVS | - |
| `Supervisor` | liveness notes and the recovery ladder | - |
| `CredSession` | a caster session as the rest of the firmware sees it | abstract specification |
| `NtripConn` | server, sleep and UART task around event bits and credentials; backoff | implements `CredSession` by `INSTANCE ... WITH` |
| `Provisioning` | enrolment and heartbeat against server, caster and power | extends `CredSession`, whose session runs beside it |
| `GnssBase` | base coordinate between server, NVS, two tasks and the receiver | - |
| `CaptiveDns` | DNS task with start and stop | - |
| `Wifi` | station, AP, event loop, driver restarts | extends `CaptiveDns` |
| `Fanout` | UART reader, event queue, socket server and client | - |
| `NtripTxProofs`, `RtcmParserProofs`, `MsgFreshnessProofs`, `OtaBootProofs`, `SupervisorProofs`, `NtripConnProofs`, `GnssBaseProofs` | theorems | extend the module they are named after |
| `BringUpProofs` | theorems about the bring-up of a unit | extends `Wifi` and `Provisioning`, which share no state |
| `MC*` | values for the constants; for `NtripTx` also a clock that runs for ever, and fairness | extend the module they instantiate |

Conventions. Variables and operators keep the names of the code where it has
one. History variables, which the code does not have, are declared last and
marked. An operator whose comment says "Mutation:" or "mutant:" is not used by the
specification: it is a plausible defect of the definition that follows it, and
substituting it must break a property. Bounds are constants named `Max...`.

### NtripTx

A frame is its sequence number and length. Actions: `Ingest` (the UART task reads
the clock for a chunk), `Push`, `Connect`, `Wake`, one action per exit of
`ntrip_tx_poll` and `tx_copy_next`, `CloseConnection`, `KeepConnection`. The scan
of the ring holds the lock over several steps, in which the clock moves and the
other tasks run as far as the lock. `wire` records the bytes of the current
connection as runs. The socket may accept any part of what is offered, refuse,
or fail, at every call.

### RtcmParser

Byte by byte, with the alphabet, the length encoding and the CRC as parameters.
`FeedHunt`, `TopUp`, `AwaitHeader`, `AwaitBody`, `FalsePreamble`, `Emit`,
`CrcError`, `Hunt` are the branches of `rtcm_parser_feed` and `parser_process`. The
reference `Frames(s)` reads the whole string at once: `ReadAt` is what begins at one position, given what
begins at the later ones, and `FramesFrom(s)` the recursive function it defines.

### MsgFreshness

Every read and every write of a shared word is one step, for the UART task, for
the GNSS task and for the task that asks for the verdict. A frame carries the
receiver generation that emitted it, which the code cannot see. Assumption: the
UART task feeds a frame to the parser sooner than a reset pulse lasts (50 ms
poll, one second pulse). Behind a false preamble the parser may keep any complete frames
(`held`) until later bytes let them go, with the time of the chunk that does; a chunk that completes no frame may
let go what is held, and with nothing held it changes nothing. `asked` and `chunk_asked` record which reset has last
asked for an empty parser, and which had when the UART task looked.

### OtaBoot

Flash (`image`, `entry`, `sel`, `www`) and NVS survive a reset, all else does not. The
bootloader (external) takes the newest usable otadata entry, gives a new image
one trial boot and aborts it if it was not confirmed. A version is sound, dead
(crashes, never healthy) or late (becomes healthy and crashes later, before 45
minutes). Whether an uploader is configured is an input of every check, as `t.instances` is. Install steps are separate actions, so power loss and crash come
between any two of them. HTTP and flash errors are the outcome `InstallFails`.
`ota_check_newupdate` is not started by anything and is left out. Assumption `OneFirmware`: a manifest names one firmware image, as
`ota/release.json` does; a second would be written over the slot the first has just been selected in.

### Supervisor

Time in seconds. A pass takes no time except for `gnss_recover`, which runs inside
it for up to `RecoverS` seconds (fifteen commands of up to four times 900 ms each with a
dead receiver). The liveness words are read in two halves of which the low one spans
`LowWord` seconds (4295 in the code). A receiver is alive, mute (answers commands, sends no
frames) or dead; a caster is alive, hollow (completes handshakes, takes no payload)
or dead. After a reboot the state is the initial one, so one life is enough.

### NtripConn and CredSession

One instance. `pc` follows `ntrip_server_task` from the retry pause over waiting for data
and for an address, reading the configuration key by key, the generation, the dial
(resolve, connect, request, answer: `DialFails` or `DialSucceeds`), the drain loop and the
disconnect to the clean-up. The sleep task and `ntrip_server_ingest_uart` are modelled one
load or store at a time, because they test and change the event bits and the keep-alive
counter without a lock. A suspended task stops wherever it is. `Delay` is `retry_delay`; the attempt counter
stops at the end of the table (in the code it is 16 bits wide and starts again after years
at an hour per pause).

`CredSession` keeps of all this the four places idle, load, dial and up. The mapping is
`SessOf` and `LoadedOf`: the session is over when the socket is closed, one clean-up earlier
than the list of keys is dropped. A session that is up ends when the generation has moved on (`SessReconnects`) or when
the connection breaks (`SessBreaks`); the second is always possible, and nothing makes it happen.

### Provisioning

The session is `CredSession`'s, so what is shown here holds for the server task by the
refinement above. `provisioning_task` is modelled write by write: each credential key, the token, the
state, then the reconnect request. The Integrity Engine (IE) and the caster are external:
the IE issues a new token with every enrolment it serves, whether or not the answer
arrives, and may move the station at any time; the caster refuses a mixture, and takes only the credentials that
hold or, with `TakesOld`, also ones that were replaced. Power fails between any two steps. Assumptions: a write that is made is durable, and NVS writes do not fail.

### GnssBase

`recover` is `gnss_init` and `gnss_recover`, `heartbeat` is `gnss_set_fixed_base`. Commands travel
over `wire` to the receiver, answers over `out` into the capture buffer. Commands and answers
are lost, refused, garbled (so that the checksum fails) and late; the buffer may overflow;
the receiver keeps in `flash` what saveconfig stored and returns to it at a reset pulse. NVS may hold
an invalid coordinate, and the IE may send one. Assumptions: the receiver does not reset by itself; the answers to a
heartbeat's commands are in before the next heartbeat (`Settled`: at least ten seconds).

### Wifi and CaptiveDns

The driver changes at once and posts events; the event loop handles them later and in
order, so that every flag lags behind. A tick is a part of the AP's window and passes when
everything due has been done. Opening the AP may be refused by a driver that is stopping (`ApStartOnly`). The control task tests and stops in two steps; reconnect
task and supervisor both stop and start the driver. `dns_hijack_stop` blocks the event loop until the DNS
task has ended. `Reconfigure` and `Restart` are the web form or the reset button with the restart that
follows. NAT mode and the DNS address handed to clients are left out; a failure to create the DNS
task is part of `DnsFails`.

### Fanout

A chunk goes to the RTCM path and then, by a post that does not wait, to the event queue.
The handlers write to peers that read, are stuck, have closed or have failed; a write to a
stuck peer does not return. The client list is used by the event loop and by the server
task without a lock: a handler that meets a freed entry goes on with what it finds there,
or the program panics and starts again; the same choice stands for the second `free` of `connect_message`
when the socket client leaves its loop.

## 3. Runs

All runs use scaled-down times and small rings. Passing runs:

| Run | Instance | Shows |
|---|---|---|
| `send_path` | 1 instance, 2 slots, 3 frames of 1-2 bytes, 2 connections, clock wraps; beside it, with 2 frames and 1 connection, a clock that runs for ever and a peer that may refuse for ever | `TypeOK`, `ByteBalance`, `WholeFrames`, `RingInv`, `StaleMeansOld`, `ImplementsFeed` (refinement), and `NeverWedged` where the clock runs for ever |
| `parser` | 3-letter alphabet, all strings of up to 9 bytes in all cuts of 1-2, one reset | `SameAsWhole`, `BytesConserved`, `ReadyForInput`, `Digests` |
| `freshness` | 2 types, 2 frames, one further reset, clock wrap at 16, 2^31 ms after the epoch's start reached; the parser may hold back | `OnlyHeldRevives`, `FreshIsRecent`, `HealthyIsFresh` |
| `ota_boot` | versions sound, late, dead; firmware and web file; one power loss, supervisor reboot, NVS or otadata failure | `Bootable`, `AttemptsBounded`, `ValidIsProven`, `StreakBounded`, `EndsOnceWithdrawn` with the code's limits 3 and 5 |
| `supervisor` | two changes of the world in eight seconds, low half of a word wraps every four | `SilenceIsReal`, `RecoversInTime`, `WedgeReboots`, `HeapReboots` |
| `session` | two keys, one write and one reconnect request at any time, two short pauses and a table of two that begins below the short pause | `BackoffHolds`, `WaitingWakes`, `RequestHonoured`, `ImplementsSession` (refinement) |
| `provisioning` | three keys in different orders of reading and writing, one move of the station, two power failures, four enrolments; a caster that refuses replaced credentials | `TypeOK`, `EnrolledIsKnown`, `GoesLive` |
| `gnss_base` | two valid and one invalid coordinate, one repetition, two faults of the line, one recovery or restart, one correction | `AckedIsTruth`, `NeverResurveys`, `Converges` |
| `wifi` | two clients, a window of one tick with one renewal, one fault, one new configuration | `ClientIsSeen`, `ApBounded`, `DnsFollowsAp`, `StationComesBack` |
| `fanout` | two server clients and a host, two queue slots, three faults | `ReaderNeverStalls`, `HostComesBack` |

Runs that TLC must refute. Each checks one sentence of the repository that the code does not keep; `PROJECT.json`
"findings" quotes it:

| Run | Property | What happens |
|---|---|---|
| `freshness_revival` | `NoRevival` | The UART task has looked for a reset request (`ntrip_server.c:938`); the reset publishes the epoch's start (`:848`), and the chunk's clock is read after it (`:946`). A frame from before the reset that the parser held back is let go by this chunk, and is dated and tagged in the new epoch |
| `ota_late` | `CrashLoopEnds` | A release becomes healthy, is confirmed, which erases its attempts (`update.c:1217-1221`), crashes until the guard gives it up, and is installed again, for ever |

Why the bounds are enough: in each instance the ring laps, the clock wraps, a
connection dies in the middle of a frame and another follows; a nine-byte string
holds a false preamble, a frame and the beginning of a second one (the shortest
frame has six bytes); a reset falls between any two steps of a stamp and a
verdict; both budgets of the update path are exhausted; every rung of the ladder
fires, and the recoveries fall on both sides of the wedge threshold. Passing runs
with a bounded clock or bounded faults stop at the bound, hence `CHECK_DEADLOCK FALSE`.
In the runs from `session` on one request, write, move, recovery or restart falls on every step of every
other task; two power failures interrupt the repair of the first; two faults of the line are
a lost answer and a lost or late repetition, which exhausts one repetition; two clients make
"the last one left" and "one left" different; three faults block the event loop, fill the queue
and release it again. The type invariants of the modules whose run lists none are
documentation of their variables; they hold on the same instances.

Limits of the code that the models made visible; the properties state exactly what
remains true:

- the drain loop reads the clock once for up to 64 polls (`ntrip_server.c:725`); a frame stamped after that
  reading has a wrapped age and is dropped as stale although it is fresh, the one exception
  in `StaleMeansOld`;
- a frame held back in the parser can revive a new epoch (`freshness_revival`); `OnlyHeldRevives` says that it is the only way:
  the frame was let go by the one chunk that was under way while `ntrip_server_msg_epoch_reset` ran;
- a confirmed release that crashes later is installed again (`ota_late`); `EndsOnceWithdrawn` says that the loop ends, for
  every kind of release, once the channel no longer offers such a one;
- the link rung restarts the driver in the first pass of an outage once an address is older than `TH_LINK_S`: it judges the age of the last address obtained (`supervisor.c:180`), where `supervisor.c:14` speaks of the time without one; `StationComesBack` holds with such
  restarts at any time;
- a reconnect request made while the credentials are being read is lost, and the session then runs with
  old or mixed credentials until the caster drops it or the next request (`ntrip_server.c:618`, `:623`; `GoesLive` is violated with `TakesOld`); `RequestHonoured` is about
  requests from the dial on, and `GoesLive` about a caster that refuses such credentials;
- CONFIG UNDULATION is sent before a mode base, but its verdict is ignored (`gnss.c:350`, `gnss.c:468`): if it fails, an acknowledged
  coordinate's height is taken by the receiver as above mean sea level;
- `ApBounded` counts from the station's last connection, which starts the AP's timer again (`wifi.c:309`), so that one AP session may last longer; a client that joins
  while the AP is being closed, after the bit was tested (`wifi.c:158`, `:172`), or the driver restarted is thrown off;
- the wait for a slot of the event queue in `uart_write` and the blocking `write()` in the handlers mean that one peer of the
  socket server or client that stops reading stops the default event loop, and with it the handling of Wi-Fi events;
  `ReaderNeverStalls` says that the RTCM path goes on, `HostComesBack` has the condition that nobody blocks the loop for ever;
- `connect_message` is freed twice (`socket_client.c:81` and `:111`) and the client list has no lock (`socket_server.c:99`);
  the models allow a panic there, and the properties hold across the restart;
- an orderly close by a TCP client of the socket server is not noticed by `recv` (0 is no error); the entry stays until a write fails;
- a verdict calls a healthy type "not fresh" when its frame is stamped after the verdict has read the clock (its age is negative, as an unsigned number beyond every budget: `ntrip_server.c:858`, `:880`) or 2^31 ms after the last
  receiver reset (the signed comparison of `:874`); `HealthyIsFresh` has the two conditions that exclude exactly this;
- a liveness word is read in two loads; when its high half changes in between, once
  in 71 minutes, the supervisor sees an age that is off (`SilenceIsReal`, `Torn`);
- a receiver that answers commands but sends no frames never leads to the wedge reboot: each recovery's answers refresh its word (`gnss.c:155-159`), against `ntrip_server.c:914-918`; `WedgeReboots` is
  about a receiver that is not heard at all;
- the new firmware is selected before the remaining files of the manifest are
  installed: if one of those fails, the next boot runs the new image on trial although
  the install was reported as failed;
- the crash streak is kept across a change of image: crashes of an image on trial count
  against the image the bootloader returns to. `StreakBounded` is an upper bound for each image
  and does not say that an image is given up only for its own crashes;
- a receiver reset clears the parser's counters with the parser.

### Fairness

- `send_path`, where the clock runs for ever: weak fairness of every server task (FreeRTOS runs a ready task),
  strong fairness of the clock tick, and a connected task wakes at least once per
  tick (`NTRIP_DRAIN_WAIT_MS` is far below every timeout). Nothing is assumed of the peer.
- `parser`: weak fairness of the UART task while it digests a chunk.
- `ota_boot`, `ota_late`: weak fairness of the bootloader, the guard and the installer, which are
  sequential code, and strong fairness of the crash of a bad image, which is what bad means: users and daily
  polls do not for ever restart the device before it. Nothing is assumed of confirmation, users, publications or power.
- `session`: weak fairness of the three tasks, frames that keep arriving, an address that keeps coming back, and
  strong fairness of `wait_for_ip`, which is woken however briefly the address is there. Nothing of the caster.
- `provisioning`: weak fairness of `provisioning_task` and of what the server task does by itself (`SessionTask`); strong
  fairness of a served request, a heartbeat answer and a connection
  that the caster accepts: among those tried for ever some succeed, without which no station goes live. An established connection
  need not ever break: a session that is up with replaced credentials ends only because it is told to, so that `GoesLive` fails
  when the request is not made (a mutant).
- `gnss_base`: weak fairness of the two tasks, the receiver, the line and the cooldown; losses are bounded by `MaxFaults`.
- `wifi`: weak fairness of tasks, event loop, driver and time; nothing of the network or the clients. `StationComesBack` has the
  condition that the network stays.
- `fanout`: weak fairness of the tasks and of the host's return, strong fairness of the two posts that wait for a slot; nothing makes a peer read.

## 4. Proofs

`NtripTxProofs` proves for every number of instances, slots, lengths and times:

- `TypeCorrect`, `BytesBalance`, `FramesWhole`, `RingSound`: the invariants of `send_path`;
- `SendPathIsFeed`: `Spec => ImplementsFeed`, the refinement of `FrameFeed`;
- `StaleIsOld`: the action property `StaleMeansOld`. Only the scan counts a stale frame (`StaleStep`), and `OldOrLater` shows
  what a wrapped age relative to an older reading can mean: too old now, or received after the reading.

They rest on `TxConstants` only (positive sizes, distinct null values). The
properties are not inductive: the byte balance needs to know that `cum_through`
is the total length of the frames before the cursor and that the slot at the
cursor holds the frame of that number, which in turn needs the ring arithmetic
(`SameSlot`: two sequence numbers less than `Slots` apart never share a slot);
whole frames on the wire need to know that a partly sent frame is the last run
and that a task which scans has nothing pending. `IInv` in `NtripTx` adds this, in the parts
`TxOK`, `TaskOK`, `WireOK`. The proof has one lemma per action; an action of one instance
leaves what belongs to the others alone (`OtherOK`, `ServerLocal`).

The run has one instance; that any number of instances may contend for the ring
lock is what the theorems add.

`RtcmParserProofs` proves for every alphabet, length encoding, CRC and chunking that
the buffer never overflows (`ParserTypeCorrect`), that `parser_process` returns with what the
feed loop relies on (`FeedRelies`), that bytes are conserved (`ParserConserves`), and

- `ChunkingIrrelevant` (`SameAsWhole`): what has been emitted once a chunk is digested is what `Frames` finds in the whole
  input. The property speaks of the input so far, which the next chunk changes, and of digested chunks only. `SoFar` is what each step keeps:
  for *every* string that begins with the bytes fed, the frames emitted and those that begin at the parser's position `Pos` are the
  frames of that string, whatever follows. `Unread` says that buffer and chunk are the bytes fed from there on, `HeaderTested` that a frame
  which is being waited for was not a false preamble. Each branch of the parser then is one line of `ReadAt`. That the
  recursive function exists and obeys its equation (`ReadsExist`, `ReadsUnfold`) is proved without an induction theorem: among the
  ends of the string on which it had no solution one would be the shortest (`WFMin`), and the solution on the next shorter one extends to it.

`NtripConnProofs` proves for every list of keys, every rising table of pauses and any number
of requests and writes:

- `BackoffNeverShrinks`: `BackoffHolds`. The property speaks of the place before a dial; `BackoffInv` carries the
  last pause over the whole loop. The core is `DelayRises`, which needs that the table
  is entered at a pause not below the short one. That such an entry exists (the search loop of `retry_init` ends) is an
  assumption that TLC evaluates, as the prover has no induction;
- `TaskIsSession`: `Spec => ImplementsSession`. `LoadInv` says how many keys have been read at each place.

`BringUpProofs` proves of `Provisioning`, for every list of keys and any number of losses, moves and power failures, `ProvTypeCorrect` and
`EnrolmentDurable` (`EnrolledIsKnown`). The invariant `Ledger` says that the task decides on the state NVS holds,
that an answer is applied without enrolling only to a known station, and that while the task enrols the token in hand is
the last one issued.

Of `Wifi` with `CaptiveDns` it proves, for every set of clients, length of the window, number of rounds, faults and
restarts, and queues of any length, `WifiTypeCorrect`, `ClientsAreSeen` (`ClientIsSeen`), `ApIsBounded` (`ApBounded`) and
`DnsIsWithAp` (`DnsFollowsAp`). The flags that the handlers keep lag behind the driver, so nothing said of flags and driver alone is
inductive; `WifiInv` says that the queue makes up the difference:

- `LastApEvent`: while the AP is up every queued stop is followed by a start, and the reverse while it is down;
- `SeenOrQueued`: a client on the AP has set the bit and no stop is queued that would clear it, or its joining is queued after the last stop;
- `WindowPaid`: time open and time left on the timer are within the rounds already counted, unless a start is still queued, and an
  expired timer has set the bit for the control task or woken it. Handling that start resets both counts;
- `DnsLives`: the DNS task exists between the handling of a start and of a stop, and the event loop that waits for its end is at a stop.

A step that leaves the AP's events alone keeps all four (`AllKept`); each step that starts or stops the AP, handles one
of its events, moves its timer or its clients has a lemma of its own. `BringUpProofs` holds both arguments
side by side; no theorem mentions both specifications.

`OtaBootProofs` proves for every list of versions, every manifest with one firmware and any number of crashes and power losses:

- `AlwaysBootable` (`Bootable`) and `OnlyProvenIsValid` (`ValidIsProven`), from `SlotInv`. An image may well be incomplete in a
  slot that otadata still calls usable; `Complete` and `Confirmed` say that the other slot is then the newest and confirmed, and `Booted`
  relates otadata to what the bootloader started (until an install selects a slot, the running one is the newest usable);
- `AttemptsAreBounded` (`AttemptsBounded`). `downloads` is credited with every attempt that NVS let through unbooked (the code fails
  open, `update.c:130-133`). `Booked` says that `fail_cnt` is at least the number of downloads of `fail_ver`, that a download is booked or
  credited before it begins, and that no version newer than an image on trial has been downloaded, so that clearing the counter at
  its confirmation loses nothing;
- `StreaksAreBounded` (`StreakBounded`), in behaviours in which the eight-bit counter stays below 255: after that the code's `uint8_t`
  starts again. The counter passes `MAX_BOOT_LOOPS` only in the factory image, which has nothing to
  fall back to, or when faults interrupt the fallback, and 45 minutes of operation clear it. `Streaks` adds that
  a dead image is never started a second time by the bootloader.

`MsgFreshnessProofs` proves for every set of types and budgets, every width of the clock, and any number of frames, resets and verdicts:

- `FreshMeansRecent` (`FreshIsRecent`), within `Window`: less than 2^31 ms lie between the start of the epoch and the end of the
  behaviour, and every budget is shorter than that. Outside it the signed comparison is meaningless (section 3). `Words` says that every
  32-bit word is the low part of the time it stands for, `Times` that nothing is dated in the future;
- `HealthyMeansFresh` (`HealthyIsFresh`), with no window: the property itself says when a type must be called fresh;
- `ResetForgets` (`OnlyHeldRevives`), within `Window`, with any frames held back. `Generations` follows a frame of the old
  generation through the driver, the chunk, the parser and the stamp. `Epochs`, `Flight` and `Stamps`: unless it waited in the parser it is gone by the
  time the pulse ends, or its stamp is not later than the start of the epoch, at each place of the reset sequence and in
  what a verdict under way has read. `Requests`, `Emptied` and `Honoured`: what the parser holds, works on or has stamped is not older than the last
  request that the UART task has honoured, so a frame that did wait was let go by a chunk that had looked before the request.

`GnssBaseProofs` proves for every set of coordinates, any number of repetitions, faults, recoveries, restarts and heartbeats:

- `AckedIsTrue` (`AckedIsTruth`) and `NoResurvey` (`NeverResurveys`), and the type invariant. An answer names its command but not its
  sender or its attempt, so `BaseInv` says why a late answer is harmless: the transaction lock gives the line one owner (`Owner`), the line keeps the order
  (`Order`), a transaction sends one base command only (`OneBase`), and a recovery begins with an empty line (`Stage`). Hence what an answer says of the base is true as long as
  nothing later is executed (`Answered`, `Captured`), and the record is true (`Record`). Assumption: `None` is neither a coordinate nor a task.

`SupervisorProofs` proves for all thresholds, debounce and recovery times, heap limits and widths of the halves of a word:

- `JudgesRealSilence` (`SilenceIsReal`). `HalfRead` and `Told` say what the half in hand and the ages already read mean, when a note may come
  between any two loads;
- `RecoveriesAreInTime` (`RecoversInTime`), `WedgeIsRebooted` (`WedgeReboots`), `LowHeapIsRebooted` (`HeapReboots`): upper bounds on time, stated as safety.
  Each pass leaves a statement about the ages it has judged (`Passed`), the next one comes at most `Lag` = `RecoverS` + 1 seconds later (`Schedule`),
  and a low heap has been counted once per `Lag` (`Counted`). Time passes only while the task waits; that it does not oversleep is the
  guard of `Tick` and an assumption of the model.

The state of each component is well typed in every reachable state (`TypeCorrect` in `MsgFreshnessProofs`, `GnssBaseProofs` and `SupervisorProofs`, a part of `SlotInv` in
`OtaBootProofs`). All inductive invariants were checked with TLC on the instances of section 3 before they were proved. The bounds
`Max...` are parameters of the theorems like all other constants.

Every safety property and both refinements that a passing run checks are proved. Only model-checked: liveness (`NeverWedged`, `Digests`, `EndsOnceWithdrawn`,
`WaitingWakes`, `RequestHonoured`, `GoesLive`, `Converges`, `StationComesBack`, `ReaderNeverStalls`, `HostComesBack`), which needs fairness and is
out of the prover's reach.

## 5. Not modelled

- The web server: its handlers parse forms and format JSON over the state of other
  components. What a form changes is `Reconfigure` in `Wifi`, a write in `NtripConn`.
- CRC24Q itself (a parameter), HTTP and TLS, JSON, NMEA, telemetry formatting.
- Status LED, statistics, log ring and core dump: display and averaging on which nothing depends.
- The table of configuration keys and its conversions; failing NVS writes outside `OtaBoot`.
- Creation and registration of the NTRIP instances (`ntrip_server.c` 267-303, 1018-1109), status and scan queries of
  `wifi.c`, pin and driver setup, the host tools and the web pages.

## 6. What is left

The parts with behaviour worth checking are modelled, and every safety property of the passing runs is proved. Open:

1. `OtaBoot` with more than one firmware image per manifest, which `OneFirmware` excludes.
2. The parts listed in section 5, if they come to keep state that others rely on.

----------------------------- MODULE MCNtripTx -----------------------------
(***************************************************************************)
(* The instance of NtripTx for TLC.  A behaviour is of one of two kinds.   *)
(* In the one the clock runs for MaxTicks and may run at any moment, also  *)
(* while a task is between its reading of the clock and its use.  In the   *)
(* other, which is for liveness, the clock runs on for ever, as the        *)
(* wrapped reading, and a server task that is connected wakes up at least  *)
(* once per tick: NTRIP_DRAIN_WAIT_MS (200 ms) is far below every timeout. *)
(***************************************************************************)
EXTENDS NtripTx

CONSTANT a
One == {a}
LenSet == {1, 2}

VARIABLE forever    \* does the clock run for ever?

PromptTick ==
    /\ \A i \in Inst : pc[i] = "down" \/ (pc[i] = "wait" /\ now[i] = Ms(clock))
    /\ clock' = Ms(clock + 1)
    /\ UNCHANGED <<ring, lock, tx, task, hist>>

(* Of every two frames one is short and one is long. *)
Mixed == cum_bytes' \in {(3 * next_seq') \div 2, (3 * next_seq' + 1) \div 2}

(* Where the clock runs for ever, two frames of two bytes and one connection:
   each of them starts the timeouts afresh. *)
Small ==
    /\ next_seq' <= 2 /\ cum_bytes' = 2 * next_seq'
    /\ \A i \in Inst : conns'[i] <= 1

ClockInit == forever \in BOOLEAN /\ Init

Runs == ~forever /\ Next /\ Mixed /\ UNCHANGED forever
Ticks == forever /\ PromptTick /\ UNCHANGED forever
Feeds == forever /\ (Ingest \/ Push) /\ Small /\ UNCHANGED forever
Serves(i) == forever /\ Server(i) /\ Small /\ UNCHANGED forever

(* Fairness is that of the machine: time passes however often the tasks wake
   up, hence strong fairness of the tick, and a task that can run does run.
   Nothing is assumed of the peer, which may refuse bytes for ever. *)
ClockSpec ==
    /\ ClockInit
    /\ [][Runs \/ Ticks \/ Feeds \/ \E i \in Inst : Serves(i)]_<<vars, forever>>
    /\ SF_<<vars, forever>>(Ticks)
    /\ \A i \in Inst : WF_<<vars, forever>>(Serves(i))

(* A connected instance does not wedge on a peer that stops reading: it sends
   or passes over everything in the ring, or it gives the connection up
   (ntrip_tx_stalled and ntrip_tx_frame_overdue end it). *)
NeverWedged ==
    \A i \in Inst :
      forever /\ pc[i] # "down" ~> \/ pc[i] = "down"
                                   \/ cursor_seq[i] = next_seq /\ ~Pending(i)
=============================================================================

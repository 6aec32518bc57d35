----------------------------- MODULE FrameFeed -----------------------------
(***************************************************************************)
(* What the NTRIP send path promises to a caster, with every mechanism     *)
(* left out: the receiver produces numbered frames; each NTRIP instance    *)
(* looks at them in order, decides for every one whether it is taken or    *)
(* passed over, and a frame that is taken is either delivered whole or     *)
(* given up.  A frame is never delivered twice, never out of order, and    *)
(* never after a later one.  NtripTx is shown to implement this module.    *)
(***************************************************************************)
EXTENDS Naturals, Sequences

CONSTANTS Inst,   \* the NTRIP instances
          NoFrame \* no frame in flight

VARIABLES produced,  \* how many frames the receiver has produced
          pos,       \* pos[i]: the first frame instance i has not decided on
          inflight,  \* inflight[i]: the frame instance i is sending, or NoFrame
          delivered  \* delivered[i]: the frames instance i completed, in order

feedVars == <<produced, pos, inflight, delivered>>

FeedInit ==
    /\ produced = 0
    /\ pos = [i \in Inst |-> 0]
    /\ inflight = [i \in Inst |-> NoFrame]
    /\ delivered = [i \in Inst |-> <<>>]

Produce ==
    /\ produced' = produced + 1
    /\ UNCHANGED <<pos, inflight, delivered>>

(* Frames pos[i] .. k-1 are passed over. *)
PassOver(i, k) ==
    /\ inflight[i] = NoFrame
    /\ k \in pos[i] .. produced
    /\ pos' = [pos EXCEPT ![i] = k]
    /\ UNCHANGED <<produced, inflight, delivered>>

Take(i) ==
    /\ inflight[i] = NoFrame
    /\ pos[i] < produced
    /\ inflight' = [inflight EXCEPT ![i] = pos[i]]
    /\ pos' = [pos EXCEPT ![i] = @ + 1]
    /\ UNCHANGED <<produced, delivered>>

Deliver(i) ==
    /\ inflight[i] # NoFrame
    /\ delivered' = [delivered EXCEPT ![i] = Append(@, inflight[i])]
    /\ inflight' = [inflight EXCEPT ![i] = NoFrame]
    /\ UNCHANGED <<produced, pos>>

GiveUp(i) ==
    /\ inflight[i] # NoFrame
    /\ inflight' = [inflight EXCEPT ![i] = NoFrame]
    /\ UNCHANGED <<produced, pos, delivered>>

FeedNext ==
    \/ Produce
    \/ \E i \in Inst : \/ Take(i)
                       \/ Deliver(i)
                       \/ GiveUp(i)
                       \/ \E k \in pos[i] .. produced : PassOver(i, k)

FeedSpec == FeedInit /\ [][FeedNext]_feedVars
=============================================================================

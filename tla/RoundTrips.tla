----------------------------- MODULE RoundTrips -----------------------------
(***************************************************************************)
(* What the samples of a latency test promise.  Each sample is the time    *)
(* between the sending of one packet and the arrival of that packet's own  *)
(* echo; a packet gives at most one sample, whatever the network repeats   *)
(* or reorders; nothing is sampled before the warm-up is over, and there   *)
(* are never more samples than were asked for.  LatencyTest is shown to    *)
(* implement this module.                                                  *)
(***************************************************************************)
EXTENDS Naturals, Sequences

CONSTANTS Samples,   \* how many samples are wanted
          Warm       \* the time from which echoes are sampled

VARIABLES now,       \* the clock
          sent,      \* when packets 0, 1, 2 ... were sent
          samples    \* the packets sampled, with their round trip times

Init == now \in Nat /\ sent = << >> /\ samples = << >>

Tick == now' \in Nat /\ now' >= now /\ UNCHANGED <<sent, samples>>

Send == sent' = Append(sent, now) /\ UNCHANGED <<now, samples>>

Sampled == {samples[i].id : i \in DOMAIN samples}

Sample(id) ==
  /\ id \notin Sampled
  /\ Len(samples) < Samples
  /\ now >= Warm
  /\ samples' = Append(samples, [id |-> id, rtt |-> now - sent[id + 1]])
  /\ UNCHANGED <<now, sent>>

Next == \/ Tick \/ Send
        \/ \E id \in 0 .. Len(sent) - 1 : Sample(id)

Spec == Init /\ [][Next]_<<now, sent, samples>>
=============================================================================

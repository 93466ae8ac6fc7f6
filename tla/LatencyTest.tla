---------------------------- MODULE LatencyTest ----------------------------
(***************************************************************************)
(* measure_latency() of the latency and latency-check plugins.  Numbered   *)
(* packets go to an echo server at a fixed rate; packet_list, a ring of    *)
(* the latest Length packets, remembers when each was sent; the echo of a  *)
(* packet that is still in the ring is a sample.  Samples are taken after  *)
(* the warm-up; when there are enough of them the test goes on for a       *)
(* cool-down period and returns.                                           *)
(*                                                                         *)
(* The environment is the clock, the network and the echo server: TCP is   *)
(* an ordered stream read and written in pieces; a datagram (UDP, RAW) may *)
(* be lost, delayed, reordered and repeated, but is whole.  Time is in     *)
(* ticks from 1 on (time_stamp() is never 0).                              *)
(*                                                                         *)
(* sent and the "id" of a sample are not in the code: they record which    *)
(* packet was sent when, and whose echo gave the sample.                   *)
(***************************************************************************)
EXTENDS Integers, Sequences

CONSTANTS Samples,    \* the "samples" argument
          Length,     \* packet_list_length
          Size,       \* units in which a stream may cut a packet
          Warmup, Cooldown, \* the two periods
          Rate,       \* packets due per tick
          Word,       \* 2^64: what a packet id is counted modulo
          MaxNow,     \* bound: the last tick
          MaxSid      \* bound: packets that are sent

ASSUME SizesAssumption ==
  /\ Samples \in Nat /\ Length \in Nat \ {0} /\ Size \in Nat \ {0}
  /\ Warmup \in Nat /\ Cooldown \in Nat /\ Rate \in Nat
\* Ids do not wrap around while a test runs: 2^64 packets are not sent.
ASSUME WordAssumption ==
  Word \in Nat /\ MaxSid \in Nat /\ MaxNow \in Nat \ {0} /\ MaxSid + Length < Word

VARIABLES
  socktype,       \* "tcp", or "datagram" for UDP and RAW
  at,             \* place in the loop; "done", "failed", "aborted", "spinning"
  now,            \* the time read at the top of the loop
  cooldown_time,  \* when the cool-down began, 0 before
  sid,            \* id of the next packet, and the number of packets sent
  tosend, torecv, \* what is left of the packet being sent, and received
  packet_list, packet_list_head,
  wire,           \* packets whose echo can (still) arrive
  sent_packets,   \* packets sent during the measurement
  rtt_sample,     \* the samples so far; its length is received_packets
  sent            \* history: when each packet was sent

list == <<packet_list, packet_list_head>>
vars == <<socktype, at, now, cooldown_time, sid, tosend, torecv, list, wire,
          sent_packets, rtt_sample, sent>>

Slots == 0 .. Length - 1
Empty == [id |-> 0, time |-> 0]

warmup_time == 1 + Warmup
end_time == IF cooldown_time = 0 THEN 0 ELSE cooldown_time + Cooldown
Measuring == now >= warmup_time /\ cooldown_time = 0

\* Indices of packet_list, ids, times and counters stay in their ranges
\* ("assert(index < packet_list_length)", "assert(torecv >= 0 && torecv <= size)").
TypeOK ==
  /\ socktype \in {"tcp", "datagram"}
  /\ at \in {"top", "recv", "send", "done", "failed", "aborted", "spinning"}
  /\ now \in 1 .. MaxNow /\ cooldown_time \in 0 .. MaxNow
  /\ sid \in 0 .. MaxSid
  /\ tosend \in 0 .. Size /\ torecv \in 0 .. Size
  /\ packet_list \in [Slots -> [id : 0 .. MaxSid, time : 0 .. MaxNow]]
  /\ packet_list_head \in Slots
  /\ wire \in SUBSET (0 .. MaxSid - 1)
  /\ sent_packets \in 0 .. MaxSid
  /\ rtt_sample \in Seq([id : 0 .. MaxSid - 1, rtt : 0 .. MaxNow])
  /\ sent \in Seq(1 .. MaxNow) /\ Len(sent) = sid

Init ==
  /\ socktype \in {"tcp", "datagram"}
  /\ at = "top" /\ now = 1 /\ cooldown_time = 0
  /\ sid = 0 /\ tosend = 0 /\ torecv = 0
  /\ packet_list = [i \in Slots |-> Empty] /\ packet_list_head = 0
  /\ wire = {} /\ sent_packets = 0 /\ rtt_sample = << >> /\ sent = << >>
-----------------------------------------------------------------------------
(* packet_list *)

HeadId == packet_list[packet_list_head].id

\* Unsigned: the head of the ring minus the id, modulo 2^64.
Offset(id) == (HeadId - id) % Word

\* The slot that is n places behind the head.
Behind(head, n) == IF head >= n THEN head - n ELSE Length - (n - head)

Slot(n) == packet_list[Behind(packet_list_head, n)]

\* Mutant: the last slot is taken for too old.
InListShort(id) ==
  Offset(id) < Length - 1 /\ Slot(Offset(id)).id = id

InList(id) == Offset(id) < Length /\ Slot(Offset(id)).id = id

send_time(id) == IF InList(id) THEN Slot(Offset(id)).time ELSE 0

\* Mutant: the head does not wrap around.
AddNoWrap(id) ==
  /\ packet_list_head' = packet_list_head + 1
  /\ packet_list' = [packet_list EXCEPT ![packet_list_head + 1] = [id |-> id, time |-> now]]

\* Mutant: the packet is written before the head moves.
AddBeforeMove(id) ==
  /\ packet_list' = [packet_list EXCEPT ![packet_list_head] = [id |-> id, time |-> now]]
  /\ packet_list_head' = (packet_list_head + 1) % Length

packet_list_add(id) ==
  LET head == (packet_list_head + 1) % Length
  IN /\ packet_list_head' = head
     /\ packet_list' = [packet_list EXCEPT ![head] = [id |-> id, time |-> now]]

\* Mutant: the slot of a packet that was echoed is not emptied.
DelKeeps(id) == UNCHANGED list

packet_list_del(id) ==
  /\ packet_list' = IF InList(id)
                    THEN [packet_list EXCEPT ![Behind(packet_list_head, Offset(id))] = Empty]
                    ELSE packet_list
  /\ UNCHANGED packet_list_head
-----------------------------------------------------------------------------
(* The loop.  "while (now = time_stamp()) && (end_time == 0 || now < end_time)" *)

\* Mutant: the end of the cool-down is compared before it is known.
ExpiredAlways(t) == t >= end_time

Expired(t) == end_time # 0 /\ t >= end_time

LoopTop(t) ==
  /\ at = "top"
  /\ ~Expired(t)
  /\ at' = "recv" /\ now' = t
  /\ cooldown_time' = IF Len(rtt_sample) >= Samples /\ cooldown_time = 0
                      THEN t ELSE cooldown_time
  /\ torecv' = IF torecv = 0 THEN Size ELSE torecv
  /\ UNCHANGED <<socktype, sid, tosend, list, wire, sent_packets, rtt_sample, sent>>

Finish(t) ==
  /\ at = "top"
  /\ Expired(t)
  /\ at' = "done" /\ now' = t
  /\ UNCHANGED <<socktype, cooldown_time, sid, tosend, torecv, list, wire,
                 sent_packets, rtt_sample, sent>>

\* recv() until EAGAIN: n of the bytes are still missing.  A stream has no more
\* of a packet than was sent of it; a datagram is not cut.
RecvAgain(n) ==
  /\ at = "recv"
  /\ n < torecv => /\ socktype = "tcp"
                   /\ wire # {} \/ (tosend > 0 /\ n >= tosend)
  /\ torecv' = n /\ at' = "send"
  /\ UNCHANGED <<socktype, now, cooldown_time, sid, tosend, list, wire,
                 sent_packets, rtt_sample, sent>>

Takes(id) == Measuring /\ send_time(id) > 0

\* The rest of the echo of packet id arrives: in order over TCP, whereas a
\* datagram may come again.
RecvPacket(id) ==
  /\ at = "recv" /\ id \in wire
  /\ IF socktype = "tcp" THEN /\ \A other \in wire : id <= other
                              /\ wire' = wire \ {id}
                         ELSE UNCHANGED wire
  /\ packet_list_del(id)
  /\ rtt_sample' = IF Takes(id)
                   THEN Append(rtt_sample, [id |-> id, rtt |-> now - send_time(id)])
                   ELSE rtt_sample
  /\ torecv' = 0 /\ at' = "send"
  /\ UNCHANGED <<socktype, now, cooldown_time, sid, tosend, sent_packets, sent>>

\* recv() fails: measure_latency() returns -1.
RecvFails ==
  /\ at = "recv" /\ at' = "failed"
  /\ UNCHANGED <<socktype, now, cooldown_time, sid, tosend, torecv, list, wire,
                 sent_packets, rtt_sample, sent>>

\* The peer closed the stream: recv() returns 0, and "while (torecv > 0)" never ends.
RecvEof ==
  /\ at = "recv" /\ socktype = "tcp" /\ at' = "spinning"
  /\ UNCHANGED <<socktype, now, cooldown_time, sid, tosend, torecv, list, wire,
                 sent_packets, rtt_sample, sent>>

\* predicted_sends > sends
Due == (now - 1) * Rate > sid /\ sid < MaxSid

SendNothing ==
  /\ at = "send" /\ ~Due /\ at' = "top"
  /\ UNCHANGED <<socktype, now, cooldown_time, sid, tosend, torecv, list, wire,
                 sent_packets, rtt_sample, sent>>

Unsent == IF tosend = 0 THEN Size ELSE tosend

\* send() until EAGAIN: n of the bytes are still to be sent.
SendAgain(n) ==
  /\ at = "send" /\ Due
  /\ n < Unsent => socktype = "tcp"
  /\ tosend' = n /\ at' = "top"
  /\ UNCHANGED <<socktype, now, cooldown_time, sid, torecv, list, wire,
                 sent_packets, rtt_sample, sent>>

\* The packet has been sent; it is on its way to the echo server and back.
SendPacket ==
  /\ at = "send" /\ Due
  /\ packet_list_add(sid)
  /\ sid' = sid + 1 /\ tosend' = 0
  /\ wire' = wire \cup {sid}
  /\ sent_packets' = IF Measuring THEN sent_packets + 1 ELSE sent_packets
  /\ sent' = Append(sent, now)
  /\ at' = "top"
  /\ UNCHANGED <<socktype, now, cooldown_time, torecv, rtt_sample>>

\* "unhandled send error"
SendFails ==
  /\ at = "send" /\ Due /\ at' = "aborted"
  /\ UNCHANGED <<socktype, now, cooldown_time, sid, tosend, torecv, list, wire,
                 sent_packets, rtt_sample, sent>>

Next == \/ \E t \in {now, now + 1} \cap (1 .. MaxNow) : LoopTop(t) \/ Finish(t)
        \/ \E n \in 1 .. torecv : RecvAgain(n)
        \/ \E id \in wire : RecvPacket(id)
        \/ RecvFails \/ RecvEof
        \/ SendNothing
        \/ \E n \in 1 .. Unsent : SendAgain(n)
        \/ SendPacket \/ SendFails

Spec == Init /\ [][Next]_vars
-----------------------------------------------------------------------------
Outstanding == {n \in Slots : Slot(n).time > 0}

(* The ring holds the latest packets in the order in which they were sent,  *)
(* however many echoes came in between and in whatever order: the packet n  *)
(* places behind the head is the n-th before the next one, with the time it *)
(* was sent at.  packet_list_del() computes its index from this.            *)
RingInOrder ==
  \A n \in Outstanding :
    LET p == Slot(n)
    IN p.id = sid - 1 - n /\ p.time = sent[p.id + 1]

(* A packet that is still in the ring is found by packet_list_del() when    *)
(* its echo arrives over TCP.  (With datagrams it is not: when the latest   *)
(* packet was echoed first, the head slot holds id 0 and every other packet *)
(* looks too old until the next one is sent.)                               *)
EchoIsFound ==
  socktype = "tcp" =>
    \A n \in Outstanding : send_time(Slot(n).id) > 0

(* latency_marshall() sends "samples" entries of rtt_sample: a test that    *)
(* returned normally has filled every one of them.                          *)
ReportIsComplete == at = "done" => Len(rtt_sample) = Samples

(* Samples are the round trips of packets, at most one of each packet.      *)
Trips == INSTANCE RoundTrips WITH Warm <- warmup_time, samples <- rtt_sample
SamplesAreRoundTrips == Trips!Spec
=============================================================================

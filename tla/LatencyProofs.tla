--------------------------- MODULE LatencyProofs ---------------------------
(***************************************************************************)
(* The ring of outstanding packets and the samples of measure_latency(),   *)
(* for a ring of any length, any number of samples, and any rates and      *)
(* periods.                                                                *)
(***************************************************************************)
EXTENDS LatencyTest, TLAPS

(* Indices and remainders. *)

LEMMA BehindInSlots ==
  ASSUME NEW h \in Slots, NEW n \in Slots
  PROVE  Behind(h, n) \in Slots
  BY SizesAssumption DEF Behind, Slots

LEMMA BehindInjective ==
  ASSUME NEW h \in Slots, NEW n \in Slots, NEW m \in Slots,
         Behind(h, n) = Behind(h, m)
  PROVE  n = m
  BY SizesAssumption DEF Behind, Slots

LEMMA HeadMoves ==
  ASSUME NEW h \in Slots
  PROVE  (h + 1) % Length = IF h + 1 = Length THEN 0 ELSE h + 1
  BY SizesAssumption DEF Slots

LEMMA SmallRemainder ==
  ASSUME NEW a \in Nat, NEW b \in Nat, a < b
  PROVE  a % b = a
  OBVIOUS

LEMMA RemainderRange ==
  ASSUME NEW a \in Int, NEW b \in Nat \ {0}
  PROVE  a % b \in 0 .. b - 1
  OBVIOUS

LEMMA AppendElements ==
  ASSUME NEW S, NEW q \in Seq(S), NEW e
  PROVE  \A i \in DOMAIN Append(q, e) :
           Append(q, e)[i] = e \/ (i \in DOMAIN q /\ Append(q, e)[i] = q[i])
  OBVIOUS

-----------------------------------------------------------------------------
(* The inductive invariant.                                                 *)

\* Slots are as packet_list_add() or packet_list_del() left them.
SlotsOK ==
  /\ \A i \in Slots : packet_list[i].time = 0 => packet_list[i] = Empty
  /\ \A i \in Slots : packet_list[i].time <= now
  /\ RingInOrder

\* Over TCP what is outstanding is on the wire, and nothing is on the wire when
\* the latest packet is not outstanding.
WireOK ==
  /\ wire \subseteq 0 .. sid - 1
  /\ socktype = "tcp" =>
       /\ \A n \in Outstanding : Slot(n).id \in wire
       /\ 0 \notin Outstanding => wire = {}

\* A packet that was sampled is not outstanding any more.
SampledOK ==
  \A i \in DOMAIN rtt_sample :
    /\ rtt_sample[i].id \in 0 .. sid - 1
    /\ \A n \in Outstanding : Slot(n).id # rtt_sample[i].id

\* How far the loop is, and how many samples there are.
CountOK ==
  /\ Len(rtt_sample) <= Samples
  /\ cooldown_time # 0 => Len(rtt_sample) = Samples
  /\ at = "recv" /\ cooldown_time = 0 => Len(rtt_sample) < Samples
  /\ at = "done" => cooldown_time # 0
  /\ sent_packets <= sid

IndInv == TypeOK /\ SlotsOK /\ WireOK /\ SampledOK /\ CountOK
-----------------------------------------------------------------------------
(* What packet_list_add() and packet_list_del() do, counted from the head.  *)

\* packet_list_del() empties the slot of its packet and moves nothing.
LEMMA DelEffect ==
  ASSUME TypeOK, SlotsOK, NEW id \in Nat, packet_list_del(id)
  PROVE  /\ packet_list' \in [Slots -> [id : 0 .. MaxSid, time : 0 .. MaxNow]]
         /\ \A i \in Slots : packet_list'[i] \in {packet_list[i], Empty}
         /\ \A n \in Outstanding' : n \in Outstanding /\ Slot(n)' = Slot(n)
         /\ \A n \in Outstanding : n \in Outstanding' \/ Slot(n).id = id
         /\ InList(id) => Offset(id) \notin Outstanding'
  <1> DEFINE b(n) == Behind(packet_list_head, n)
  <1>1. \A n \in Slots : b(n) \in Slots
    BY BehindInSlots DEF TypeOK
  <1>2. Offset(id) \in Nat
    <2>1. HeadId \in Int
      BY DEF TypeOK, HeadId
    <2>2. Word \in Nat \ {0}
      BY WordAssumption, SizesAssumption
    <2> QED BY <2>1, <2>2, RemainderRange DEF Offset
  <1>3. Offset(id) < Length => Offset(id) \in Slots
    BY <1>2, SizesAssumption DEF Slots
  <1>4. Empty \in [id : 0 .. MaxSid, time : 0 .. MaxNow]
    BY WordAssumption DEF Empty
  <1>5. packet_list_head' = packet_list_head
    BY DEF packet_list_del
  <1>6. \A n \in Slots : Slot(n) = packet_list[b(n)] /\ Slot(n)' = packet_list'[b(n)]
    BY <1>5 DEF Slot
  <1>7. CASE ~InList(id)
    <2>1. packet_list' = packet_list
      BY <1>7 DEF packet_list_del
    <2> QED BY <2>1, <1>5, <1>6, <1>7 DEF Outstanding, TypeOK, Slot
  <1>8. CASE InList(id)
    <2>0. PICK o \in Slots : o = Offset(id)
      BY <1>8, <1>3 DEF InList
    <2>1. Slot(o).id = id
      BY <1>8, <2>0 DEF InList
    <2>2. packet_list' = [packet_list EXCEPT ![b(o)] = Empty]
      BY <1>8, <2>0 DEF packet_list_del
    <2>3. packet_list \in [Slots -> [id : 0 .. MaxSid, time : 0 .. MaxNow]]
      BY DEF TypeOK
    <2>4. packet_list' \in [Slots -> [id : 0 .. MaxSid, time : 0 .. MaxNow]]
      BY <2>2, <2>3, <1>4
    <2>5. \A i \in Slots : packet_list'[i] \in {packet_list[i], Empty}
      BY <2>2, <2>3
    <2>6. \A n \in Slots : n # o => b(n) # b(o)
      BY BehindInjective DEF TypeOK
    <2>7. \A n \in Slots : n # o => Slot(n)' = Slot(n)
      BY <2>2, <2>3, <2>6, <1>1, <1>6
    <2>8. Slot(o)' = Empty
      BY <2>2, <2>3, <1>1, <1>6
    <2>9. o \notin Outstanding'
      BY <2>8 DEF Outstanding, Empty
    <2> QED BY <2>0, <2>1, <2>4, <2>5, <2>7, <2>9 DEF Outstanding
  <1> QED BY <1>7, <1>8

\* packet_list_add() puts its packet at the head; every other packet is one
\* place further behind, and the oldest is gone.
LEMMA AddEffect ==
  ASSUME TypeOK, packet_list_add(sid), sid < MaxSid
  PROVE  /\ packet_list_head' \in Slots
         /\ packet_list' \in [Slots -> [id : 0 .. MaxSid, time : 0 .. MaxNow]]
         /\ \A i \in Slots : packet_list'[i] \in {packet_list[i], [id |-> sid, time |-> now]}
         /\ Slot(0)' = [id |-> sid, time |-> now]
         /\ \A n \in Slots : n # 0 => n - 1 \in Slots /\ Slot(n)' = Slot(n - 1)
  <1> DEFINE h == packet_list_head
             k == IF h + 1 = Length THEN 0 ELSE h + 1
             new == [id |-> sid, time |-> now]
  <1>1. h \in Slots /\ packet_list_head' = k
    BY HeadMoves DEF packet_list_add, TypeOK
  <1>2. k \in Slots
    BY <1>1, SizesAssumption DEF Slots
  <1>3. packet_list' = [packet_list EXCEPT ![k] = new]
    BY <1>1, HeadMoves DEF packet_list_add
  <1>4. packet_list \in [Slots -> [id : 0 .. MaxSid, time : 0 .. MaxNow]]
    BY DEF TypeOK
  <1>5. new \in [id : 0 .. MaxSid, time : 0 .. MaxNow]
    BY DEF TypeOK
  <1>6. \A n \in Slots : Behind(k, n) \in Slots
    BY <1>2, BehindInSlots
  <1>7. Behind(k, 0) = k /\ 0 \in Slots
    BY <1>2, SizesAssumption DEF Behind, Slots
  <1>8. ASSUME NEW n \in Slots, n # 0
        PROVE  n - 1 \in Slots /\ Behind(k, n) = Behind(h, n - 1) /\ Behind(k, n) # k
    BY <1>1, <1>8, SizesAssumption DEF Behind, Slots
  <1>9. \A n \in Slots : Slot(n)' = packet_list'[Behind(k, n)]
    BY <1>1 DEF Slot
  <1>10. Slot(0)' = new
    BY <1>2, <1>3, <1>4, <1>7, <1>9
  <1>11. \A n \in Slots : n # 0 => n - 1 \in Slots /\ Slot(n)' = Slot(n - 1)
    BY <1>3, <1>4, <1>6, <1>8, <1>9 DEF Slot
  <1> QED BY <1>1, <1>2, <1>3, <1>4, <1>5, <1>10, <1>11
-----------------------------------------------------------------------------
(* Every step preserves the invariant.                                      *)

\* Steps that neither send a packet nor receive one.
LEMMA QuietSteps ==
  ASSUME IndInv, TypeOK',
         UNCHANGED <<socktype, sid, list, wire, rtt_sample, sent>>,
         now' >= now
  PROVE  SlotsOK' /\ WireOK' /\ SampledOK'
  <1>1. \A n \in Slots : Slot(n)' = Slot(n)
    BY DEF Slot, list
  <1>2. Outstanding' = Outstanding
    BY <1>1 DEF Outstanding
  <1>3. \A i \in Slots : packet_list[i].time \in Nat
    BY DEF IndInv, TypeOK
  <1>4. SlotsOK'
    <2>0. now \in Nat /\ now' \in Nat
      BY DEF IndInv, TypeOK
    <2>1. \A i \in Slots : packet_list'[i].time <= now'
      BY <1>3, <2>0 DEF IndInv, SlotsOK, list
    <2>2. RingInOrder'
      BY <1>1, <1>2 DEF IndInv, SlotsOK, RingInOrder, Outstanding
    <2> QED BY <2>1, <2>2 DEF IndInv, SlotsOK, list
  <1>5. WireOK'
    BY <1>1, <1>2 DEF IndInv, WireOK, Outstanding
  <1>6. SampledOK'
    BY <1>1, <1>2 DEF IndInv, SampledOK, Outstanding
  <1> QED BY <1>4, <1>5, <1>6

\* Over TCP an echo that is on the wire is found if its packet is outstanding.
LEMMA TcpFinds ==
  ASSUME IndInv, socktype = "tcp", NEW n \in Outstanding
  PROVE  /\ InList(Slot(n).id) /\ Offset(Slot(n).id) = n
         /\ send_time(Slot(n).id) > 0
  <1> DEFINE id == Slot(n).id
  <1>1. n \in Slots /\ id = sid - 1 - n
    BY DEF IndInv, SlotsOK, RingInOrder, Outstanding
  <1>2. id \in wire /\ 0 \in Outstanding
    BY DEF IndInv, WireOK
  <1>3. Slot(0).id = sid - 1
    BY <1>2, SizesAssumption DEF IndInv, SlotsOK, RingInOrder, Slots, TypeOK
  <1>4. HeadId = sid - 1
    BY <1>3, SizesAssumption DEF HeadId, Slot, Behind, IndInv, TypeOK, Slots
  <1>5. HeadId - id = n /\ n \in Nat /\ n < Word
    BY <1>1, <1>4, WordAssumption, SizesAssumption DEF Slots, IndInv, TypeOK
  <1>6. Offset(id) = n
    BY <1>5, SmallRemainder, WordAssumption DEF Offset
  <1>7. InList(id)
    BY <1>1, <1>6, SizesAssumption DEF InList, Slots
  <1>8. send_time(id) > 0
    BY <1>6, <1>7 DEF send_time, Outstanding
  <1> QED BY <1>6, <1>7, <1>8

\* An echo that is sampled takes the place of its outstanding packet.
LEMMA TakenIsOutstanding ==
  ASSUME IndInv, NEW id \in wire, Takes(id)
  PROVE  /\ InList(id) /\ Offset(id) \in Outstanding
         /\ Slot(Offset(id)).id = id /\ send_time(id) = sent[id + 1]
         /\ send_time(id) \in 1 .. now
  <1>1. InList(id) /\ send_time(id) > 0
    BY DEF Takes, send_time
  <1>2. HeadId \in Int /\ id \in Int
    BY DEF IndInv, TypeOK, HeadId
  <1>3. Offset(id) \in Nat
    BY <1>2, RemainderRange, WordAssumption, SizesAssumption DEF Offset
  <1>4. Offset(id) \in Slots
    BY <1>1, <1>3, SizesAssumption DEF InList, Slots
  <1>5. send_time(id) = Slot(Offset(id)).time /\ Slot(Offset(id)).id = id
    BY <1>1 DEF send_time, InList
  <1>6. Offset(id) \in Outstanding
    BY <1>1, <1>4, <1>5 DEF Outstanding
  <1>7. send_time(id) = sent[id + 1]
    BY <1>5, <1>6 DEF IndInv, SlotsOK, RingInOrder
  <1>8. Behind(packet_list_head, Offset(id)) \in Slots
    BY <1>4, BehindInSlots DEF IndInv, TypeOK
  <1>9. send_time(id) \in Nat /\ send_time(id) <= now
    BY <1>5, <1>8 DEF IndInv, TypeOK, SlotsOK, Slot
  <1> QED BY <1>1, <1>5, <1>6, <1>7, <1>9 DEF IndInv, TypeOK

LEMMA RecvTypes ==
  ASSUME IndInv, NEW id \in wire, RecvPacket(id)
  PROVE  TypeOK'
  <1>1. id \in 0 .. MaxSid - 1 /\ id \in Nat
    BY DEF IndInv, TypeOK
  <1>2. packet_list' \in [Slots -> [id : 0 .. MaxSid, time : 0 .. MaxNow]]
    BY <1>1, DelEffect DEF IndInv, RecvPacket
  <1>3. rtt_sample' \in Seq([id : 0 .. MaxSid - 1, rtt : 0 .. MaxNow])
    <2>1. CASE Takes(id)
      <3>1. send_time(id) \in 1 .. now
        BY <2>1, TakenIsOutstanding
      <3>2. now - send_time(id) \in 0 .. MaxNow
        BY <3>1, WordAssumption DEF IndInv, TypeOK
      <3> QED BY <1>1, <2>1, <3>2 DEF RecvPacket, IndInv, TypeOK
    <2>2. CASE ~Takes(id)
      BY <2>2 DEF RecvPacket, IndInv, TypeOK
    <2> QED BY <2>1, <2>2
  <1>4. wire' \subseteq wire
    BY DEF RecvPacket
  <1>5. torecv' \in 0 .. Size
    BY SizesAssumption DEF RecvPacket
  <1> QED BY <1>2, <1>3, <1>4, <1>5
          DEF RecvPacket, packet_list_del, IndInv, TypeOK

\* The echo of a packet arrives.
LEMMA RecvSteps ==
  ASSUME IndInv, NEW id \in wire, RecvPacket(id)
  PROVE  SlotsOK' /\ WireOK' /\ SampledOK'
  <1>1. id \in Nat /\ packet_list_del(id)
    BY DEF IndInv, TypeOK, RecvPacket
  <1>2. /\ \A i \in Slots : packet_list'[i] \in {packet_list[i], Empty}
        /\ \A n \in Outstanding' : n \in Outstanding /\ Slot(n)' = Slot(n)
        /\ \A n \in Outstanding : n \in Outstanding' \/ Slot(n).id = id
        /\ InList(id) => Offset(id) \notin Outstanding'
    BY <1>1, DelEffect DEF IndInv
  <1>3. UNCHANGED <<socktype, now, sid, sent>>
    BY DEF RecvPacket
  <1>4. \A n, m \in Outstanding : Slot(n).id = Slot(m).id => n = m
    <2>1. \A n \in Outstanding : n \in Int /\ Slot(n).id = sid - 1 - n
      BY DEF IndInv, SlotsOK, RingInOrder, Outstanding, Slots
    <2> QED BY <2>1 DEF IndInv, TypeOK
  <1>5. SlotsOK'
    <2>1. \A i \in Slots : packet_list'[i].time <= now
      BY <1>2 DEF IndInv, SlotsOK, TypeOK, Empty
    <2>2. RingInOrder'
      BY <1>2, <1>3 DEF IndInv, SlotsOK, RingInOrder
    <2> QED BY <1>2, <1>3, <2>1, <2>2 DEF IndInv, SlotsOK, Empty
  <1>6. WireOK'
    <2>1. wire' \subseteq 0 .. sid - 1
      BY DEF RecvPacket, IndInv, WireOK
    <2>2. CASE socktype = "tcp"
      <3>1. wire' = wire \ {id} /\ \A other \in wire : id <= other
        BY <2>2 DEF RecvPacket
      <3>2. \A n \in Outstanding' : Slot(n)' \in {Slot(n)} /\ Slot(n).id # id
        <4> SUFFICES ASSUME NEW n \in Outstanding' PROVE Slot(n).id # id
          BY <1>2
        <4>1. n \in Outstanding
          BY <1>2
        <4> QED BY <1>2, <2>2, <4>1, TcpFinds
      <3>3. \A n \in Outstanding' : Slot(n)'.id \in wire'
        BY <1>2, <2>2, <3>1, <3>2 DEF IndInv, WireOK
      <3>4. ASSUME 0 \notin Outstanding' PROVE wire' = {}
        <4>1. 0 \in Outstanding
          BY <2>2 DEF IndInv, WireOK
        <4>2. Slot(0).id = id /\ Slot(0).id = sid - 1
          BY <1>2, <3>4, <4>1, SizesAssumption
          DEF IndInv, SlotsOK, RingInOrder, TypeOK, Slots
        <4>3. \A other \in wire : other \in Int /\ other <= id /\ id <= other
          BY <3>1, <4>2 DEF IndInv, WireOK, TypeOK
        <4>4. \A other \in wire : other = id
          BY <1>1, <4>3
        <4> QED BY <3>1, <4>4
      <3> QED BY <1>3, <2>1, <3>3, <3>4 DEF WireOK
    <2>3. CASE socktype # "tcp"
      BY <1>3, <2>1, <2>3 DEF WireOK
    <2> QED BY <2>2, <2>3
  <1>7. SampledOK'
    <2>1. CASE ~Takes(id)
      BY <1>2, <1>3, <2>1 DEF RecvPacket, IndInv, SampledOK
    <2>2. CASE Takes(id)
      <3> DEFINE s == [id |-> id, rtt |-> now - send_time(id)]
      <3>1. rtt_sample' = Append(rtt_sample, s) /\ s.id = id
        BY <2>2 DEF RecvPacket
      <3>2. InList(id) /\ Offset(id) \in Outstanding /\ Slot(Offset(id)).id = id
        BY <2>2, TakenIsOutstanding
      <3>3. \A n \in Outstanding' : Slot(n)'.id # id
        BY <1>2, <1>4, <3>2
      <3>4. id \in 0 .. sid - 1
        BY DEF IndInv, WireOK
      <3>5. \A i \in DOMAIN rtt_sample' :
              rtt_sample'[i] = s \/ (i \in DOMAIN rtt_sample /\ rtt_sample'[i] = rtt_sample[i])
        <4>1. rtt_sample \in Seq([id : 0 .. MaxSid - 1, rtt : 0 .. MaxNow])
          BY DEF IndInv, TypeOK
        <4> HIDE DEF s
        <4> QED BY <3>1, <4>1, AppendElements
      <3>6. ASSUME NEW i \in DOMAIN rtt_sample'
            PROVE  /\ rtt_sample'[i].id \in 0 .. sid - 1
                   /\ \A n \in Outstanding' : Slot(n)'.id # rtt_sample'[i].id
        <4>1. CASE rtt_sample'[i] = s
          BY <3>1, <3>3, <3>4, <4>1
        <4>2. CASE i \in DOMAIN rtt_sample /\ rtt_sample'[i] = rtt_sample[i]
          BY <1>2, <4>2 DEF IndInv, SampledOK
        <4> QED BY <3>5, <4>1, <4>2
      <3> QED BY <1>3, <3>6 DEF SampledOK
    <2> QED BY <2>1, <2>2
  <1> QED BY <1>5, <1>6, <1>7

LEMMA SendTypes ==
  ASSUME IndInv, SendPacket
  PROVE  TypeOK'
  <1>1. sid < MaxSid /\ packet_list_add(sid)
    BY DEF SendPacket, Due
  <1>2. /\ packet_list_head' \in Slots
        /\ packet_list' \in [Slots -> [id : 0 .. MaxSid, time : 0 .. MaxNow]]
    BY <1>1, AddEffect DEF IndInv
  <1>3. sent' \in Seq(1 .. MaxNow) /\ Len(sent') = sid'
    BY DEF SendPacket, IndInv, TypeOK
  <1>4. sid' \in 0 .. MaxSid /\ sid \in 0 .. MaxSid - 1
    BY <1>1, WordAssumption DEF SendPacket, IndInv, TypeOK
  <1>5. wire' \in SUBSET (0 .. MaxSid - 1)
    BY <1>4 DEF SendPacket, IndInv, TypeOK
  <1>6. sent_packets' \in 0 .. MaxSid
    BY <1>1, WordAssumption DEF SendPacket, IndInv, TypeOK, CountOK
  <1> QED BY <1>2, <1>3, <1>4, <1>5, <1>6, SizesAssumption
          DEF SendPacket, IndInv, TypeOK

\* A packet has been sent.
LEMMA SendSteps ==
  ASSUME IndInv, SendPacket
  PROVE  SlotsOK' /\ WireOK' /\ SampledOK'
  <1> DEFINE new == [id |-> sid, time |-> now]
  <1>1. sid < MaxSid /\ packet_list_add(sid)
    BY DEF SendPacket, Due
  <1>2. /\ \A i \in Slots : packet_list'[i] \in {packet_list[i], new}
        /\ Slot(0)' = new
        /\ \A n \in Slots : n # 0 => n - 1 \in Slots /\ Slot(n)' = Slot(n - 1)
    BY <1>1, AddEffect DEF IndInv
  <1>3. /\ sid \in Nat /\ now \in Nat \ {0}
        /\ sid' = sid + 1 /\ wire' = wire \cup {sid} /\ sent' = Append(sent, now)
        /\ UNCHANGED <<socktype, now, rtt_sample>>
    BY DEF SendPacket, IndInv, TypeOK
  <1>4. 0 \in Slots /\ 0 \in Outstanding'
    BY <1>2, <1>3, SizesAssumption DEF Outstanding, Slots
  <1>5. \A n \in Outstanding' : n = 0 \/ (n - 1 \in Outstanding /\ Slot(n)' = Slot(n - 1))
    BY <1>2 DEF Outstanding
  <1>6. \A n \in Outstanding' : n \in Int
    BY DEF Outstanding, Slots
  <1>7. \A n \in Outstanding : Slot(n).id = sid - 1 - n /\ Slot(n).id \in 0 .. sid - 1
    <2> SUFFICES ASSUME NEW n \in Outstanding
                 PROVE  Slot(n).id = sid - 1 - n /\ Slot(n).id \in 0 .. sid - 1
      OBVIOUS
    <2>1. n \in Slots /\ n \in Nat /\ Slot(n).id = sid - 1 - n
      BY DEF IndInv, SlotsOK, RingInOrder, Outstanding, Slots
    <2>2. Slot(n).id \in Nat
      <3>1. Behind(packet_list_head, n) \in Slots
        BY <2>1, BehindInSlots DEF IndInv, TypeOK
      <3>2. packet_list[Behind(packet_list_head, n)] \in [id : 0 .. MaxSid, time : 0 .. MaxNow]
        BY <3>1 DEF IndInv, TypeOK
      <3> QED BY <3>2, WordAssumption DEF Slot
    <2> QED BY <1>3, <2>1, <2>2
  <1>8. /\ \A k \in 0 .. sid - 1 : sent'[k + 1] = sent[k + 1]
        /\ sent'[sid + 1] = now
    <2>1. sent \in Seq(1 .. MaxNow) /\ Len(sent) = sid
      BY DEF IndInv, TypeOK
    <2> QED BY <1>3, <2>1
  <1>9. SlotsOK'
    <2>1. \A i \in Slots : packet_list'[i].time <= now
      BY <1>2, <1>3 DEF IndInv, SlotsOK
    <2>2. \A i \in Slots : packet_list'[i].time = 0 => packet_list'[i] = Empty
      BY <1>2, <1>3 DEF IndInv, SlotsOK
    <2>3. ASSUME NEW n \in Outstanding'
          PROVE  Slot(n)'.id = sid' - 1 - n /\ Slot(n)'.time = sent'[Slot(n)'.id + 1]
      <3>1. CASE n = 0
        <4>1. Slot(n)' = new
          BY <1>2, <3>1
        <4>2. Slot(n)'.id = sid /\ Slot(n)'.time = now
          BY <4>1
        <4>3. sid' - 1 - n = sid
          BY <1>3, <3>1
        <4> QED BY <1>8, <4>2, <4>3
      <3>2. CASE n # 0
        <4>1. n - 1 \in Outstanding /\ Slot(n)' = Slot(n - 1)
          BY <1>5, <2>3, <3>2
        <4>2. Slot(n - 1).time = sent[Slot(n - 1).id + 1]
          BY <4>1 DEF IndInv, SlotsOK, RingInOrder
        <4>3. Slot(n - 1).id = sid - 1 - (n - 1) /\ Slot(n - 1).id \in 0 .. sid - 1
          BY <1>7, <4>1
        <4>4. sent'[Slot(n - 1).id + 1] = sent[Slot(n - 1).id + 1]
          BY <1>8, <4>3
        <4> QED BY <1>3, <1>6, <4>1, <4>2, <4>3, <4>4
      <3> QED BY <3>1, <3>2
    <2> QED BY <1>3, <2>1, <2>2, <2>3 DEF SlotsOK, RingInOrder
  <1>10. WireOK'
    <2>1. wire' \subseteq 0 .. sid' - 1
      BY <1>3 DEF IndInv, WireOK
    <2>2. ASSUME socktype = "tcp", NEW n \in Outstanding'
          PROVE  Slot(n)'.id \in wire'
      BY <1>2, <1>3, <1>5, <2>2 DEF IndInv, WireOK
    <2> QED BY <1>3, <1>4, <2>1, <2>2 DEF WireOK
  <1>11. SampledOK'
    <2> SUFFICES ASSUME NEW i \in DOMAIN rtt_sample
                 PROVE  /\ rtt_sample[i].id \in 0 .. sid' - 1
                        /\ \A n \in Outstanding' : Slot(n)'.id # rtt_sample[i].id
      BY <1>3 DEF SampledOK
    <2>1. rtt_sample[i].id \in 0 .. sid - 1
      BY DEF IndInv, SampledOK
    <2>2. ASSUME NEW n \in Outstanding' PROVE Slot(n)'.id # rtt_sample[i].id
      <3>1. CASE n = 0
        BY <1>2, <1>3, <2>1, <3>1
      <3>2. CASE n # 0
        BY <1>5, <3>2 DEF IndInv, SampledOK
      <3> QED BY <3>1, <3>2
    <2> QED BY <1>3, <2>1, <2>2
  <1> QED BY <1>9, <1>10, <1>11

\* The number of samples, for each place in the loop.
LEMMA CountSteps ==
  ASSUME IndInv, Next
  PROVE  CountOK'
  <1> USE DEF IndInv, CountOK
  <1>1. /\ Len(rtt_sample) \in Nat /\ now \in Nat \ {0}
        /\ sid \in Nat /\ sent_packets \in Nat
    BY DEF TypeOK
  <1>2. ASSUME NEW t \in {now, now + 1} \cap (1 .. MaxNow), LoopTop(t) \/ Finish(t)
        PROVE  CountOK'
    <2>1. t # 0
      BY <1>1
    <2>2. CASE LoopTop(t)
      BY <1>1, <2>1, <2>2, SizesAssumption DEF LoopTop
    <2>3. CASE Finish(t)
      BY <2>3 DEF Finish, Expired, end_time
    <2> QED BY <1>2, <2>2, <2>3
  <1>3. ASSUME NEW id \in wire, RecvPacket(id)
        PROVE  CountOK'
    <2>1. CASE Takes(id)
      <3>1. Len(rtt_sample') = Len(rtt_sample) + 1
        BY <1>3, <2>1 DEF RecvPacket, TypeOK
      <3>2. cooldown_time = 0 /\ at = "recv"
        BY <1>3, <2>1 DEF RecvPacket, Takes, Measuring
      <3> QED BY <1>1, <1>3, <3>1, <3>2, SizesAssumption DEF RecvPacket
    <2>2. CASE ~Takes(id)
      BY <1>3, <2>2 DEF RecvPacket
    <2> QED BY <2>1, <2>2
  <1>4. CASE SendPacket
    BY <1>1, <1>4 DEF SendPacket
  <1>5. ASSUME NEW n, RecvAgain(n) \/ SendAgain(n)
        PROVE  CountOK'
    BY <1>5 DEF RecvAgain, SendAgain
  <1>6. CASE RecvFails \/ RecvEof \/ SendNothing \/ SendFails
    BY <1>6 DEF RecvFails, RecvEof, SendNothing, SendFails
  <1> QED BY <1>2, <1>3, <1>4, <1>5, <1>6 DEF Next

LEMMA Inductive ==
  ASSUME IndInv, [Next]_vars
  PROVE  IndInv'
  <1>1. CASE UNCHANGED vars
    <2>1. TypeOK' /\ CountOK'
      BY <1>1 DEF IndInv, TypeOK, CountOK, vars, list
    <2>2. now' >= now
      BY <1>1 DEF IndInv, TypeOK, vars
    <2>3. UNCHANGED <<socktype, sid, list, wire, rtt_sample, sent>>
      BY <1>1 DEF vars
    <2> QED BY <2>1, <2>2, <2>3, QuietSteps DEF IndInv
  <1>2. CASE Next
    <2>1. CountOK'
      BY <1>2, CountSteps
    <2>2. ASSUME NEW id \in wire, RecvPacket(id)
          PROVE  IndInv'
      BY <2>1, <2>2, RecvTypes, RecvSteps DEF IndInv
    <2>3. CASE SendPacket
      BY <2>1, <2>3, SendTypes, SendSteps DEF IndInv
    <2>4. now \in Nat /\ now >= now
      BY DEF IndInv, TypeOK
    <2>5. ASSUME NEW t \in {now, now + 1} \cap (1 .. MaxNow), LoopTop(t) \/ Finish(t)
          PROVE  IndInv'
      <3>1. now' >= now
        BY <2>4, <2>5 DEF LoopTop, Finish
      <3>2. UNCHANGED <<socktype, sid, list, wire, rtt_sample, sent>>
        BY <2>5 DEF LoopTop, Finish
      <3>3. TypeOK'
        <4>1. t \in 1 .. MaxNow /\ t \in 0 .. MaxNow
          BY <2>5, WordAssumption
        <4>2. Size \in 0 .. Size
          BY SizesAssumption
        <4>3. CASE LoopTop(t)
          BY <4>1, <4>2, <4>3 DEF LoopTop, IndInv, TypeOK, list
        <4>4. CASE Finish(t)
          BY <4>1, <4>4 DEF Finish, IndInv, TypeOK, list
        <4> QED BY <2>5, <4>3, <4>4
      <3> QED BY <2>1, <3>1, <3>2, <3>3, QuietSteps DEF IndInv
    <2>6. ASSUME NEW n \in 1 .. torecv, RecvAgain(n)
          PROVE  IndInv'
      <3>1. TypeOK'
        BY <2>6, SizesAssumption DEF RecvAgain, IndInv, TypeOK, list
      <3> QED BY <2>1, <2>4, <2>6, <3>1, QuietSteps DEF RecvAgain, IndInv
    <2>7. ASSUME NEW n \in 1 .. Unsent, SendAgain(n)
          PROVE  IndInv'
      <3>1. TypeOK'
        BY <2>7, SizesAssumption DEF SendAgain, IndInv, TypeOK, list, Unsent
      <3> QED BY <2>1, <2>4, <2>7, <3>1, QuietSteps DEF SendAgain, IndInv
    <2>8. CASE RecvFails \/ RecvEof \/ SendNothing \/ SendFails
      <3> USE DEF RecvFails, RecvEof, SendNothing, SendFails
      <3>1. TypeOK'
        BY <2>8 DEF IndInv, TypeOK, list
      <3>2. UNCHANGED <<socktype, now, sid, list, wire, rtt_sample, sent>>
        BY <2>8
      <3> QED BY <2>1, <2>4, <3>1, <3>2, QuietSteps DEF IndInv
    <2> QED BY <1>2, <2>2, <2>3, <2>5, <2>6, <2>7, <2>8 DEF Next
  <1> QED BY <1>1, <1>2

LEMMA Initially ==
  ASSUME Init
  PROVE  IndInv
  <1>1. TypeOK
    BY SizesAssumption, WordAssumption DEF Init, TypeOK, Empty, Slots
  <1>2. Outstanding = {}
    <2>1. \A n \in Slots : Slot(n) = Empty
      BY <1>1, BehindInSlots DEF Init, Slot, TypeOK
    <2> QED BY <2>1 DEF Outstanding, Empty
  <1>3. SlotsOK
    BY <1>2 DEF Init, SlotsOK, RingInOrder, Empty
  <1>4. WireOK /\ SampledOK
    BY <1>2 DEF Init, WireOK, SampledOK
  <1>5. CountOK
    BY SizesAssumption DEF Init, CountOK
  <1> QED BY <1>1, <1>3, <1>4, <1>5 DEF IndInv

\* The loop of measure_latency() keeps the invariant.
THEOREM Invariance == Spec => []IndInv
  BY Initially, Inductive, PTL DEF Spec
-----------------------------------------------------------------------------
\* Every index, counter and id of measure_latency() stays in its range, the head
\* of packet_list among them.
THEOREM LatencyTypeCorrect == Spec => []TypeOK
  BY Invariance, PTL DEF IndInv

\* packet_list holds the latest packets in order, with their send times.
THEOREM RingStaysInOrder == Spec => []RingInOrder
  BY Invariance, PTL DEF IndInv, SlotsOK

\* Over TCP packet_list_del() finds every packet that is in the list.
THEOREM TcpEchoIsFound == Spec => []EchoIsFound
  <1>1. IndInv => EchoIsFound
    BY TcpFinds DEF EchoIsFound
  <1> QED BY <1>1, Invariance, PTL

\* measure_latency() returns 0 with all samples taken.
THEOREM ReportsAreComplete == Spec => []ReportIsComplete
  <1>1. IndInv => ReportIsComplete
    BY DEF IndInv, CountOK, ReportIsComplete
  <1> QED BY <1>1, Invariance, PTL

\* One sample is the round trip of the packet whose echo arrived.
LEMMA SampleStep ==
  ASSUME IndInv, NEW id \in wire, RecvPacket(id), Takes(id)
  PROVE  Trips!Sample(id) /\ id \in 0 .. Len(sent) - 1
  <1>1. /\ InList(id) /\ Offset(id) \in Outstanding
        /\ Slot(Offset(id)).id = id /\ send_time(id) = sent[id + 1]
    BY TakenIsOutstanding
  <1>2. id \notin Trips!Sampled
    BY <1>1 DEF Trips!Sampled, IndInv, SampledOK
  <1>3. now >= warmup_time /\ cooldown_time = 0 /\ at = "recv"
    BY DEF RecvPacket, Takes, Measuring
  <1>4. Len(rtt_sample) < Samples
    BY <1>3 DEF IndInv, CountOK
  <1>5. rtt_sample' = Append(rtt_sample, [id |-> id, rtt |-> now - sent[id + 1]])
    BY <1>1 DEF RecvPacket
  <1>6. id \in 0 .. Len(sent) - 1
    BY DEF IndInv, WireOK, TypeOK
  <1> QED BY <1>2, <1>3, <1>4, <1>5, <1>6 DEF Trips!Sample, RecvPacket

\* Each sample is the round trip of one packet, and no packet gives two, whatever
\* the network repeats or reorders.
THEOREM LatencyImplementsRoundTrips == Spec => SamplesAreRoundTrips
  <1>1. Init => Trips!Init
    BY DEF Init, Trips!Init
  <1>2. ASSUME IndInv, [Next]_vars
        PROVE  [Trips!Next]_<<now, sent, rtt_sample>>
    <2>1. now \in Nat /\ now + 1 \in Nat /\ now + 1 >= now /\ now >= now
      BY <1>2 DEF IndInv, TypeOK
    <2>2. ASSUME NEW t \in {now, now + 1} \cap (1 .. MaxNow), LoopTop(t) \/ Finish(t)
          PROVE  Trips!Tick
      BY <2>1, <2>2 DEF LoopTop, Finish, Trips!Tick
    <2>3. CASE SendPacket
      BY <2>3 DEF SendPacket, Trips!Send, Trips!Next
    <2>4. ASSUME NEW id \in wire, RecvPacket(id)
          PROVE  [Trips!Next]_<<now, sent, rtt_sample>>
      <3>1. CASE Takes(id)
        BY <1>2, <2>4, <3>1, SampleStep DEF Trips!Next
      <3>2. CASE ~Takes(id)
        BY <2>4, <3>2 DEF RecvPacket
      <3> QED BY <3>1, <3>2
    <2>5. ASSUME NEW n, RecvAgain(n) \/ SendAgain(n)
          PROVE  UNCHANGED <<now, sent, rtt_sample>>
      BY <2>5 DEF RecvAgain, SendAgain
    <2>6. CASE RecvFails \/ RecvEof \/ SendNothing \/ SendFails
      BY <2>6 DEF RecvFails, RecvEof, SendNothing, SendFails
    <2>7. CASE UNCHANGED vars
      BY <2>7 DEF vars
    <2> QED BY <1>2, <2>2, <2>3, <2>4, <2>5, <2>6, <2>7 DEF Next, Trips!Next
  <1> QED BY <1>1, <1>2, Invariance, PTL DEF Spec, SamplesAreRoundTrips, Trips!Spec
=============================================================================

---------------------------- MODULE NfsRpcProofs ----------------------------
(***************************************************************************)
(* The callback ring of libnfs, for a ring of any length and any number of *)
(* calls, components and requests.                                         *)
(***************************************************************************)
EXTENDS NfsRpc, TLAPS

Nodes == [xid : 0 .. MaxXid, cb : Waiting \cup {"none", "sample"}]

\* A callback that was run is not in the ring, and its xid is not a future one.
RanOK ==
  \A k \in DOMAIN ran :
    /\ ran[k] <= cur_xid
    /\ \A i \in Slots : callback_list[i].xid # ran[k]

\* What setting up knows while it waits.
PlaceOK == /\ at = "call" => cur_xid >= 1
           /\ at = "dir" => todo > 1

IndInv == TypeOK /\ OwnFrame /\ RingInOrder /\ RunsOnce /\ RanOK /\ PlaceOK
-----------------------------------------------------------------------------
(* Indices *)

\* Going back to a slot is its own inverse.
LEMMA BehindInvolution ==
  ASSUME callback_list_head \in Slots, NEW n \in Slots
  PROVE  Behind(n) \in Slots /\ Behind(Behind(n)) = n
  BY LengthAssumption DEF Behind, Slots

LEMMA HeadMoves ==
  ASSUME NEW h \in Slots
  PROVE  (h + 1) % Length = IF h + 1 = Length THEN 0 ELSE h + 1
  BY LengthAssumption DEF Slots

LEMMA RemainderRange ==
  ASSUME NEW a \in Int, NEW b \in Nat \ {0}
  PROVE  a % b \in 0 .. b - 1
  OBVIOUS

\* In a ring in order no xid occurs twice, and none is newer than the latest.
LEMMA XidsDiffer ==
  ASSUME TypeOK, RingInOrder, NEW i \in Slots, callback_list[i].xid # 0
  PROVE  /\ callback_list[i].xid <= cur_xid
         /\ \A j \in Slots : callback_list[j].xid = callback_list[i].xid => j = i
  <1>1. callback_list_head \in Slots /\ cur_xid \in Nat
    BY DEF TypeOK
  <1>2. \A j \in Slots : Behind(j) \in Slots /\ Behind(Behind(j)) = j
    BY <1>1, BehindInvolution
  <1>3. \A j \in Slots : callback_list[j] = Slot(Behind(j))
    BY <1>2 DEF Slot
  <1>4. \A j \in Slots : callback_list[j].xid # 0 =>
                           callback_list[j].xid = cur_xid - Behind(j)
    BY <1>2, <1>3 DEF RingInOrder
  <1>5. \A j \in Slots : Behind(j) \in Nat
    BY <1>2 DEF Slots
  <1> QED BY <1>1, <1>2, <1>4, <1>5

-----------------------------------------------------------------------------
(* What callback_add() and callback_del() do *)

\* Running a callback empties the one slot that has it.
LEMMA RunEffect ==
  ASSUME TypeOK, RingInOrder, NEW xid \in 1 .. MaxXid, Runs(xid)
  PROVE  \E s \in Slots : /\ callback_list[s].xid = xid
                          /\ callback_list' = [callback_list EXCEPT ![s] = Empty]
  <1>1. callback_list[callback_list_head].xid - xid \in Int
    <2>1. callback_list[callback_list_head].xid \in 0 .. MaxXid
      BY DEF TypeOK
    <2> QED BY <2>1
  <1>2. Word \in Nat \ {0}
    BY WordAssumption, LengthAssumption
  <1>3. Offset(xid) \in Nat
    <2>1. Offset(xid) \in 0 .. Word - 1
      BY <1>1, <1>2, RemainderRange DEF Offset
    <2> QED BY <2>1
  <1>4. PICK o \in Slots : o = Offset(xid)
    BY <1>3, LengthAssumption DEF Runs, Found, Slots
  <1>5. Behind(o) \in Slots
    BY BehindInvolution DEF TypeOK
  <1>6. callback_list[Behind(o)].xid = xid
    BY <1>4 DEF Runs, Found, Slot
  <1> QED BY <1>4, <1>5, <1>6 DEF Runs

\* Adding puts a node at the head; the others are one place further behind, and
\* the oldest is gone.
LEMMA AddEffect ==
  ASSUME TypeOK, NEW x \in 1 .. MaxXid, NEW cb \in Waiting \cup {"sample"},
         callback_add(x, cb)
  PROVE  /\ callback_list_head' \in Slots
         /\ callback_list' = [callback_list EXCEPT ![callback_list_head'] = [xid |-> x, cb |-> cb]]
         /\ callback_list' \in [Slots -> Nodes]
         /\ Slot(0)' = [xid |-> x, cb |-> cb]
         /\ \A n \in Slots : n # 0 => n - 1 \in Slots /\ Slot(n)' = Slot(n - 1)
  <1> DEFINE h == callback_list_head
             k == callback_list_head'
             new == [xid |-> x, cb |-> cb]
  <1>1. h \in Slots /\ k = IF h + 1 = Length THEN 0 ELSE h + 1
    BY HeadMoves DEF callback_add, TypeOK
  <1>2. k \in Slots
    BY <1>1, LengthAssumption DEF Slots
  <1>0. PICK g \in Slots : g = k
    BY <1>2
  <1>3. callback_list' = [callback_list EXCEPT ![k] = new]
    BY DEF callback_add
  <1>4. callback_list \in [Slots -> Nodes]
    BY DEF TypeOK, Nodes
  <1>5. new \in Nodes
    BY WordAssumption DEF Nodes
  <1>6. callback_list' \in [Slots -> Nodes]
    BY <1>2, <1>3, <1>4, <1>5
  <1> DEFINE b(n) == IF g >= n THEN g - n ELSE Length - (n - g)
  <1>6a. \A n \in Slots : b(n) \in Slots
    BY LengthAssumption DEF Slots
  <1>7. \A n \in Slots : Slot(n)' = callback_list'[b(n)] /\ b(n) \in Slots
    BY <1>0, <1>6a DEF Slot, Behind
  <1>8. b(0) = k /\ 0 \in Slots
    <2>1. g \in Nat /\ 0 \in Slots
      BY LengthAssumption DEF Slots
    <2>2. b(0) = g
      BY <2>1, LengthAssumption
    <2> QED BY <2>1, <2>2, <1>0
  <1>9. \A n \in Slots : n # 0 => n - 1 \in Slots /\ b(n) = Behind(n - 1) /\ b(n) # k
    BY <1>0, <1>1, LengthAssumption DEF Behind, Slots
  <1>10. Slot(0)' = new
    BY <1>2, <1>3, <1>4, <1>7, <1>8
  <1>11. \A n \in Slots : n # 0 => Slot(n)' = Slot(n - 1)
    BY <1>3, <1>4, <1>7, <1>9 DEF Slot
  <1> QED BY <1>2, <1>3, <1>6, <1>9, <1>10, <1>11
-----------------------------------------------------------------------------
(* Every step preserves the invariant *)

\* Nothing outstanding while setting up does not wait.
LEMMA RingEmpty ==
  ASSUME TypeOK, OwnFrame, at \in {"setup", "walk", "failed"}, NEW i \in Slots
  PROVE  callback_list[i].xid = 0
  BY DEF TypeOK, OwnFrame, Waiting

LEMMA Elements ==
  ASSUME NEW S, NEW q \in Seq(S), NEW i \in DOMAIN q
  PROVE  q[i] \in S
  OBVIOUS

LEMMA AppendElements ==
  ASSUME NEW S, NEW q \in Seq(S), NEW e, NEW r, r = Append(q, e)
  PROVE  \A i \in DOMAIN r : \/ i = Len(q) + 1 /\ r[i] = e
                             \/ i \in DOMAIN q /\ r[i] = q[i]
  OBVIOUS

LEMMA RanTypes ==
  ASSUME TypeOK, NEW k \in DOMAIN ran
  PROVE  ran[k] \in 1 .. MaxXid /\ ran[k] \in Nat
  <1>1. ran \in Seq(1 .. MaxXid)
    BY DEF TypeOK
  <1>2. ran[k] \in 1 .. MaxXid
    BY <1>1, Elements
  <1> QED BY <1>2

\* Steps that leave the ring alone.
LEMMA QuietSteps ==
  ASSUME IndInv, Retransmit \/ SendFails \/ \E xid \in wire : Stale(xid)
  PROVE  IndInv'
  <1>1. UNCHANGED <<todo, cur_xid, callback_list, callback_list_head, ran>>
    BY DEF Retransmit, SendFails, Stale, list
  <1>2. at' = at \/ at' = "aborted"
    BY DEF Retransmit, SendFails, Stale
  <1>3. wire' \in SUBSET (1 .. MaxXid)
    <2>1. CASE Retransmit
      <3>1. cur_xid \in 1 .. MaxXid
        BY <2>1 DEF Retransmit, IndInv, PlaceOK, TypeOK
      <3> QED BY <2>1, <3>1 DEF Retransmit, Sends, IndInv, TypeOK
    <2>2. CASE SendFails
      BY <2>2 DEF SendFails, IndInv, TypeOK
    <2>3. CASE \E xid \in wire : Stale(xid)
      BY <2>3 DEF Stale, Arrives, IndInv, TypeOK
    <2> QED BY <2>1, <2>2, <2>3
  <1>4. TypeOK'
    BY <1>1, <1>2, <1>3 DEF IndInv, TypeOK
  <1>5. OwnFrame'
    BY <1>1, <1>2 DEF IndInv, OwnFrame
  <1>6. RingInOrder' /\ RunsOnce' /\ RanOK'
    BY <1>1 DEF IndInv, RingInOrder, Slot, Behind, RunsOnce, IsInjective, RanOK
  <1>7. PlaceOK'
    BY <1>1, <1>2 DEF IndInv, PlaceOK
  <1> QED BY <1>4, <1>5, <1>6, <1>7 DEF IndInv

\* Steps that send a new request.
LEMMA RequestSteps ==
  ASSUME IndInv, Call \/ Lookup \/ generate_request
  PROVE  IndInv'
  <1> DEFINE cb == IF at = "test" THEN "sample" ELSE at'
  <1>1. /\ at \in {"setup", "walk", "test"}
        /\ at = "test" => at' = "test"
        /\ at # "test" => at' \in Waiting
        /\ at' = "dir" => todo > 1
    BY DEF Call, Lookup, generate_request, Waiting
  <1>2. Request(cb) /\ Sends(cur_xid') /\ todo' = todo
    BY DEF Call, Lookup, generate_request
  <1>3. cur_xid \in 0 .. MaxXid /\ cur_xid' = cur_xid + 1 /\ cur_xid' \in 1 .. MaxXid
    <2>1. cur_xid \in 0 .. MaxXid /\ cur_xid' = cur_xid + 1 /\ cur_xid < MaxXid
      BY <1>2 DEF Request, IndInv, TypeOK
    <2> QED BY <2>1, WordAssumption
  <1>4. cb \in Waiting \cup {"sample"}
    BY <1>1
  <1> DEFINE new == [xid |-> cur_xid', cb |-> cb]
  <1>5. /\ callback_list_head' \in Slots
        /\ callback_list' = [callback_list EXCEPT ![callback_list_head'] = new]
        /\ callback_list' \in [Slots -> Nodes]
        /\ Slot(0)' = new
        /\ \A n \in Slots : n # 0 => n - 1 \in Slots /\ Slot(n)' = Slot(n - 1)
    BY <1>2, <1>3, <1>4, AddEffect DEF Request, IndInv
  <1>6. TypeOK'
    <2>1. wire' \in SUBSET (1 .. MaxXid)
      BY <1>2, <1>3 DEF Sends, IndInv, TypeOK
    <2>2. at' \in Waiting \cup {"test"}
      BY <1>1
    <2>3. ran' = ran
      BY <1>2 DEF Request
    <2> QED BY <1>2, <1>3, <1>5, <2>1, <2>2, <2>3 DEF IndInv, TypeOK, Nodes
  <1>7. callback_list \in [Slots -> Nodes]
    BY DEF IndInv, TypeOK, Nodes
  <1>8. \A i \in Slots : callback_list'[i] = IF i = callback_list_head' THEN new
                                                                    ELSE callback_list[i]
    BY <1>5, <1>7
  <1>9. OwnFrame'
    <2>1. CASE at = "test"
      <3>1. \A i \in Slots : callback_list[i].xid # 0 => callback_list[i].cb = "sample"
        BY <2>1, <1>7 DEF IndInv, OwnFrame, Nodes, Waiting
      <3> QED BY <2>1, <3>1, <1>1, <1>8 DEF OwnFrame
    <2>2. CASE at # "test"
      <3>1. \A i \in Slots : callback_list[i].xid = 0
        BY <2>2, <1>1, RingEmpty DEF IndInv
      <3> QED BY <2>2, <3>1, <1>8 DEF OwnFrame
    <2> QED BY <2>1, <2>2
  <1>10. RingInOrder'
    <2>1. ASSUME NEW n \in Slots, Slot(n)'.xid # 0
          PROVE  Slot(n)'.xid = cur_xid' - n
      <3>1. CASE n = 0
        BY <3>1, <1>3, <1>5
      <3>2. CASE n # 0
        <4>1. n - 1 \in Slots /\ Slot(n)' = Slot(n - 1)
          BY <3>2, <1>5
        <4>2. Slot(n - 1).xid = cur_xid - (n - 1)
          BY <4>1, <2>1 DEF IndInv, RingInOrder
        <4>3. n \in Int
          BY DEF Slots
        <4> QED BY <4>1, <4>2, <4>3, <1>3
      <3> QED BY <3>1, <3>2
    <2> QED BY <2>1 DEF RingInOrder
  <1>11. RunsOnce' /\ RanOK'
    <2>1. ran' = ran
      BY <1>2 DEF Request
    <2>2. \A k \in DOMAIN ran : ran[k] \in Nat
      BY RanTypes DEF IndInv
    <2> QED BY <2>1, <2>2, <1>3, <1>8 DEF IndInv, RunsOnce, IsInjective, RanOK
  <1>12. PlaceOK'
    BY <1>1, <1>2, <1>3 DEF PlaceOK
  <1> QED BY <1>6, <1>9, <1>10, <1>11, <1>12 DEF IndInv

\* Steps that run a callback.
LEMMA RunSteps ==
  ASSUME IndInv, NEW xid \in wire, Runs(xid),
         \/ xid = cur_xid /\ (CallReply \/ DirReply \/ OpenReply)
         \/ process_reply(xid)
  PROVE  IndInv'
  <1>1. xid \in 1 .. MaxXid
    BY DEF IndInv, TypeOK
  <1>2. PICK s \in Slots : /\ callback_list[s].xid = xid
                           /\ callback_list' = [callback_list EXCEPT ![s] = Empty]
    BY <1>1, RunEffect DEF IndInv
  <1>3. callback_list_head' = callback_list_head /\ ran' = Append(ran, xid)
    BY DEF Runs
  <1>4. callback_list \in [Slots -> Nodes] /\ ran \in Seq(1 .. MaxXid)
    BY DEF IndInv, TypeOK, Nodes
  <1>5. \A i \in Slots : callback_list'[i] = IF i = s THEN Empty ELSE callback_list[i]
    BY <1>2, <1>4
  <1>6. /\ xid # 0 /\ xid <= cur_xid
        /\ \A i \in Slots : callback_list[i].xid = xid => i = s
    <2>1. callback_list[s].xid # 0
      BY <1>1, <1>2
    <2> QED BY <2>1, <1>2, XidsDiffer DEF IndInv
  <1>7. at \in Waiting \cup {"test"} /\ (at = "test" => at' = "test" /\ cur_xid' = cur_xid)
    BY DEF CallReply, DirReply, OpenReply, process_reply, Waiting
  <1>8. at # "test" => \A i \in Slots : callback_list'[i].xid = 0
    <2>1. at # "test" => \A i \in Slots : callback_list[i].xid # 0 => i = callback_list_head
      BY <1>7 DEF IndInv, OwnFrame, Waiting
    <2>2. callback_list[s].xid # 0
      BY <1>2, <1>6
    <2> QED BY <2>1, <2>2, <1>5 DEF Empty
  <1>9. TypeOK'
    <2>1. callback_list' \in [Slots -> Nodes]
      <3>1. Empty \in Nodes
        BY WordAssumption DEF Empty, Nodes
      <3> QED BY <3>1, <1>2, <1>4
    <2>2. ran' \in Seq(1 .. MaxXid)
      BY <1>1, <1>3, <1>4
    <2>3. /\ at' \in Waiting \cup {"setup", "walk", "test", "failed", "aborted"}
          /\ wire' \in SUBSET (1 .. MaxXid)
      BY DEF CallReply, DirReply, OpenReply, process_reply, Arrives, IndInv, TypeOK, Waiting
    <2>4. cur_xid' \in 0 .. MaxXid
      BY WordAssumption DEF CallReply, DirReply, OpenReply, process_reply, IndInv, TypeOK
    <2>5. todo' \in 0 .. Calls + Components
      BY CallsAssumption
      DEF CallReply, DirReply, OpenReply, process_reply, IndInv, TypeOK, PlaceOK
    <2> QED BY <1>3, <2>1, <2>2, <2>3, <2>4, <2>5 DEF IndInv, TypeOK, Nodes
  <1>10. OwnFrame'
    <2>1. CASE at = "test"
      BY <2>1, <1>3, <1>4, <1>5, <1>7 DEF IndInv, OwnFrame, Nodes, Empty, Waiting
    <2>2. CASE at # "test"
      BY <2>2, <1>8 DEF OwnFrame
    <2> QED BY <2>1, <2>2
  <1>11. RingInOrder'
    <2>1. \A n \in Slots : Behind(n)' = Behind(n) /\ Behind(n) \in Slots
      BY <1>3, BehindInvolution DEF Behind, IndInv, TypeOK
    <2>2. \A n \in Slots : Slot(n)' = callback_list'[Behind(n)]
      BY <2>1 DEF Slot
    <2>3. CASE at = "test"
      BY <2>1, <2>2, <2>3, <1>5, <1>7 DEF IndInv, RingInOrder, Slot, Empty
    <2>4. CASE at # "test"
      BY <2>1, <2>2, <2>4, <1>8 DEF RingInOrder
    <2> QED BY <2>3, <2>4
  <1>12. RunsOnce' /\ RanOK'
    <2>1. \A k \in DOMAIN ran' : \/ k = Len(ran) + 1 /\ ran'[k] = xid
                                 \/ k \in DOMAIN ran /\ ran'[k] = ran[k]
      BY <1>3, <1>4, AppendElements
    <2>2. \A k \in DOMAIN ran : ran[k] # xid /\ ran[k] \in Nat
      BY <1>2, RanTypes DEF IndInv, RanOK
    <2>3. RunsOnce'
      <3>1. \A k, m \in DOMAIN ran : ran[k] = ran[m] => k = m
        BY DEF IndInv, RunsOnce, IsInjective
      <3>2. \A k, m \in DOMAIN ran' : ran'[k] = ran'[m] => k = m
        BY <2>1, <2>2, <3>1
      <3> QED BY <3>2 DEF RunsOnce, IsInjective
    <2>4. cur_xid' >= cur_xid /\ cur_xid \in Nat /\ cur_xid' \in Nat
      BY DEF CallReply, DirReply, OpenReply, process_reply, IndInv, TypeOK
    <2>5. RanOK'
      <3>1. \A i \in Slots : callback_list'[i].xid # xid
        BY <1>5, <1>6 DEF Empty
      <3>2. \A k \in DOMAIN ran : \A i \in Slots : callback_list'[i].xid # ran[k]
        <4>1. \A k \in DOMAIN ran : ran[k] # 0
          BY RanTypes DEF IndInv
        <4> QED BY <4>1, <1>5 DEF IndInv, RanOK, Empty
      <3>3. \A k \in DOMAIN ran : ran[k] <= cur_xid'
        BY <2>2, <2>4 DEF IndInv, RanOK
      <3>4. xid <= cur_xid'
        BY <1>1, <1>6, <2>4
      <3> QED BY <2>1, <3>1, <3>2, <3>3, <3>4 DEF RanOK
    <2> QED BY <2>3, <2>5
  <1>13. PlaceOK'
    BY <1>7 DEF PlaceOK, CallReply, DirReply, OpenReply, process_reply, IndInv
  <1> QED BY <1>9, <1>10, <1>11, <1>12, <1>13 DEF IndInv

LEMMA Initially == Init => IndInv
  <1> SUFFICES ASSUME Init PROVE IndInv
    OBVIOUS
  <1>1. 0 \in Slots
    BY LengthAssumption DEF Slots
  <1>2. TypeOK
    BY <1>1, CallsAssumption, WordAssumption DEF Init, TypeOK, Empty, Waiting
  <1>3. \A i \in Slots : callback_list[i].xid = 0
    BY DEF Init, Empty
  <1>4. RingInOrder
    BY <1>1, <1>3, BehindInvolution DEF Init, RingInOrder, Slot
  <1> QED BY <1>2, <1>3, <1>4
          DEF IndInv, Init, OwnFrame, RunsOnce, IsInjective, RanOK, PlaceOK

LEMMA Inductive == IndInv /\ [Next]_vars => IndInv'
  <1> SUFFICES ASSUME IndInv, [Next]_vars PROVE IndInv'
    OBVIOUS
  <1>1. CASE Retransmit \/ SendFails \/ \E xid \in wire : Stale(xid)
    BY <1>1, QuietSteps
  <1>2. CASE Call \/ Lookup \/ generate_request
    BY <1>2, RequestSteps
  <1>3. CASE CallReply \/ DirReply \/ OpenReply
    <2>1. cur_xid \in wire /\ Runs(cur_xid)
      BY <1>3 DEF CallReply, DirReply, OpenReply, Arrives
    <2> QED BY <1>3, <2>1, RunSteps
  <1>4. ASSUME NEW xid \in wire, process_reply(xid) PROVE IndInv'
    <2>1. Runs(xid)
      BY <1>4 DEF process_reply
    <2> QED BY <1>4, <2>1, RunSteps
  <1>5. CASE UNCHANGED vars
    BY <1>5 DEF vars, list, IndInv, TypeOK, OwnFrame, RingInOrder, Slot, Behind,
                RunsOnce, IsInjective, RanOK, PlaceOK
  <1> QED BY <1>1, <1>2, <1>3, <1>4, <1>5 DEF Next
-----------------------------------------------------------------------------
(* The theorems *)

\* The invariant holds throughout.
THEOREM Invariance == Spec => []IndInv
  BY Initially, Inductive, PTL DEF Spec

\* Ring indices, xids and what setting up has left stay in their ranges
\* ("assert(index < callback_list_length)" in callback_del()).
THEOREM NfsTypeCorrect == Spec => []TypeOK
  <1>1. IndInv => TypeOK BY DEF IndInv
  <1> QED BY <1>1, Invariance, PTL

\* No callback in the ring points into the frame of a call that has returned.
THEOREM CallbacksHaveFrames == Spec => []OwnFrame
  <1>1. IndInv => OwnFrame BY DEF IndInv
  <1> QED BY <1>1, Invariance, PTL

\* The place of a request in the ring follows from its xid.
THEOREM CallbackRingInOrder == Spec => []RingInOrder
  <1>1. IndInv => RingInOrder BY DEF IndInv
  <1> QED BY <1>1, Invariance, PTL

\* Whatever the network repeats, no callback is run twice.
THEOREM CallbacksRunOnce == Spec => []RunsOnce
  <1>1. IndInv => RunsOnce BY DEF IndInv
  <1> QED BY <1>1, Invariance, PTL
=============================================================================

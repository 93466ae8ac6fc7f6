------------------------- MODULE HttpSpawnerProofs -------------------------
(***************************************************************************)
(* Proofs about HttpSpawner: for any number of slots, however far the      *)
(* counter has drifted and whoever is woken without a signal.              *)
(***************************************************************************)
EXTENDS HttpSpawner, TLAPS

LEMMA Constants ==
  /\ NTHREADS \in Nat /\ NTHREADS > 0 /\ Slots \subseteq Nat
  /\ MainThread \in Int /\ MainThread \notin Slots
  /\ Nobody \notin Slots /\ Nobody # MainThread
BY ConstantsAssumption DEF Slots, MainThread, Nobody

\* Joiners that have the lock of their slot, and main when it has one.
Holding == {"join", "joined", "counted"}
Starting == {"started", "signal"}

\* Who has the lock of a slot.
LocksOK ==
  /\ \A i \in Slots : join[i] = i <=> joiner[i] \in Holding
  /\ main \in Starting => join[t] = MainThread

\* The life of a slot: a free one has no thread, and only a joiner that was woken by
\* nobody waits for its end; a joiner that was signalled has a thread to join.
SlotsOK ==
  /\ main = "slot" => t \in free
  /\ main \in Starting => t \notin free /\ thread[t] # "none"
  /\ \A i \in free : thread[i] = "none"
  /\ \A i \in Slots :
        /\ joiner[i] \in {"woken", "join"} => i \in unasked \/ (i \notin free /\ thread[i] # "none")
        /\ joiner[i] \in {"joined", "counted"} => i \notin free /\ thread[i] = "none"

\* What a joiner has read of the counter it writes less one; the main thread reads it
\* only when it was below the number of slots, and nobody else increases it.
CountOK ==
  /\ count <= NTHREADS
  /\ \A i \in Slots : loaded[i] <= NTHREADS
  /\ main \in {"find", "slot"} => count < NTHREADS
  /\ main = "started" => loaded[MainThread] < NTHREADS

IndInv == TypeOK /\ LocksOK /\ SlotsOK /\ CountOK
-----------------------------------------------------------------------------
LEMMA IndInit == Init => IndInv
<1> USE Constants
<1> SUFFICES ASSUME Init PROVE IndInv
  OBVIOUS
<1>1. TypeOK
  BY DEF Init, TypeOK, Slots
<1>2. LocksOK /\ SlotsOK
  BY DEF Init, LocksOK, SlotsOK, Holding, Starting
<1>3. CountOK
  BY DEF Init, CountOK
<1> QED BY <1>1, <1>2, <1>3 DEF IndInv

\* The main thread: the steps that start a thread are those that matter.
LEMMA MainStep ==
  ASSUME IndInv, MainNext
  PROVE  IndInv'
<1> USE Constants DEF IndInv, TypeOK, Main
<1>1. CASE TakeInflight
  BY <1>1 DEF TakeInflight, LocksOK, SlotsOK, CountOK, Starting
<1>2. CASE CheckCount
  BY <1>2 DEF CheckCount, LocksOK, SlotsOK, CountOK, Starting
<1>3. CASE find_free_thread
  BY <1>3, t + 1 \in 0 .. NTHREADS \/ t \notin Slots
     DEF find_free_thread, LocksOK, SlotsOK, CountOK, Starting, Slots
<1>4. CASE StartThread
  <2>1. /\ main = "slot" /\ main' = "started" /\ t \in free /\ t \in Slots /\ join[t] = Nobody
        /\ UNCHANGED <<t, joiner, count, inflight, unasked>>
        /\ join' = [join EXCEPT ![t] = MainThread]
        /\ thread' = [thread EXCEPT ![t] = "running"]
        /\ free' = free \ {t}
        /\ loaded' = [loaded EXCEPT ![MainThread] = count]
    BY <1>4 DEF StartThread, SlotsOK
  <2>2. TypeOK'
    BY <2>1
  <2>3. LocksOK'
    BY <2>1 DEF LocksOK, Holding
  <2>4. SlotsOK'
    BY <2>1 DEF SlotsOK, Holding, Starting
  <2>5. CountOK'
    BY <2>1 DEF CountOK
  <2> QED BY <2>2, <2>3, <2>4, <2>5
<1>5. CASE CountUp
  BY <1>5 DEF CountUp, LocksOK, SlotsOK, CountOK, Starting
<1>6. CASE SignalJoiner
  <2>1. /\ main = "signal" /\ main' = "check" /\ join[t] = MainThread /\ t \in Slots
        /\ thread[t] # "none" /\ t \notin free
        /\ UNCHANGED <<t, thread, free, count, loaded, inflight, unasked>>
        /\ join' = [join EXCEPT ![t] = Nobody]
        /\ joiner' = IF joiner[t] = "wait" THEN [joiner EXCEPT ![t] = "woken"] ELSE joiner
    BY <1>6 DEF SignalJoiner, LocksOK, SlotsOK, Starting
  <2>2. TypeOK'
    BY <2>1
  <2>3. LocksOK'
    BY <2>1 DEF LocksOK, Holding, Starting
  <2>4. SlotsOK'
    BY <2>1 DEF SlotsOK, Holding, Starting
  <2>5. CountOK'
    BY <2>1 DEF CountOK
  <2> QED BY <2>2, <2>3, <2>4, <2>5
<1>7. CASE Wait
  BY <1>7 DEF Wait, LocksOK, SlotsOK, CountOK, Starting
<1> QED BY <1>1, <1>2, <1>3, <1>4, <1>5, <1>6, <1>7 DEF MainNext

\* A joiner, and the thread it waits for.
LEMMA JoinerStep ==
  ASSUME IndInv, NEW i \in Slots, ThreadEnds(i) \/ JoinerNext(i)
  PROVE  IndInv'
<1> USE Constants DEF IndInv, TypeOK, Joiner
<1>1. CASE ThreadEnds(i)
  BY <1>1 DEF ThreadEnds, LocksOK, SlotsOK, CountOK, Starting
<1>2. CASE JoinerWaits(i)
  BY <1>2 DEF JoinerWaits, LocksOK, SlotsOK, CountOK, Holding
<1>3. CASE JoinerWoken(i)
  BY <1>3 DEF JoinerWoken, LocksOK, SlotsOK, CountOK, Holding, Starting
<1>4. CASE Joins(i)
  BY <1>4 DEF Joins, LocksOK, SlotsOK, CountOK, Holding, Starting
<1>5. CASE JoinsNothing(i)
  BY <1>5 DEF JoinsNothing, LocksOK, SlotsOK, CountOK, Starting
<1>6. CASE CountDown(i)
  BY <1>6 DEF CountDown, LocksOK, SlotsOK, CountOK, Holding, Starting
<1>7. CASE FreeSlot(i)
  BY <1>7 DEF FreeSlot, LocksOK, SlotsOK, CountOK, Holding, Starting
<1>8. CASE TryInflight(i)
  BY <1>8 DEF TryInflight, LocksOK, SlotsOK, CountOK, Holding, Starting
<1>9. CASE SignalMain(i)
  BY <1>9 DEF SignalMain, LocksOK, SlotsOK, CountOK, Holding, Starting
<1> QED BY <1>1, <1>2, <1>3, <1>4, <1>5, <1>6, <1>7, <1>8, <1>9 DEF JoinerNext

\* The steps nobody asked for.
LEMMA ChanceStep ==
  ASSUME IndInv, Chance
  PROVE  IndInv'
<1> USE Constants DEF IndInv, TypeOK
<1>1. CASE CreateFails
  BY <1>1 DEF CreateFails, Main, LocksOK, SlotsOK, CountOK, Starting
<1>2. CASE MainWakes
  BY <1>2 DEF MainWakes, Main, LocksOK, SlotsOK, CountOK, Starting
<1>3. ASSUME NEW i \in Slots, ThreadFails(i) PROVE IndInv'
  BY <1>3 DEF ThreadFails, LocksOK, SlotsOK, CountOK, Starting
<1>4. ASSUME NEW i \in Slots, JoinerWakes(i) PROVE IndInv'
  BY <1>4 DEF JoinerWakes, Joiner, LocksOK, SlotsOK, CountOK, Holding, Starting
<1> QED BY <1>1, <1>2, <1>3, <1>4 DEF Chance

LEMMA Invariance == Spec => []IndInv
<1>1. IndInv /\ [Next]_vars => IndInv'
  <2> SUFFICES ASSUME IndInv, [Next]_vars PROVE IndInv'
    OBVIOUS
  <2>1. CASE UNCHANGED vars
    BY <2>1 DEF vars, IndInv, TypeOK, LocksOK, SlotsOK, CountOK
  <2> QED BY <2>1, MainStep, JoinerStep, ChanceStep DEF Next
<1> QED BY <1>1, IndInit, PTL DEF Spec
-----------------------------------------------------------------------------
\* Slots, locks and the counter keep their types, for any number of slots.
THEOREM SpawnerTypeCorrect == Spec => []TypeOK
<1>1. IndInv => TypeOK
  BY DEF IndInv
<1> QED BY <1>1, Invariance, PTL

\* pthread_create() never gets a stack that an unjoined thread may still be using.
THEOREM StacksAreUnused == Spec => []StackIsUnused
<1>1. IndInv => StackIsUnused
  BY DEF IndInv, SlotsOK, StackIsUnused
<1> QED BY <1>1, Invariance, PTL

\* A joiner that was woken by a signal calls pthread_join() once for its thread, and
\* t->flag is its own slot when it is used as an index.  (unasked, the joiners that
\* were woken without a signal, may do otherwise.)
THEOREM JoinersJoinTheirThread == Spec => []JoinsItsThread
<1>1. IndInv => JoinsItsThread
  BY DEF IndInv, SlotsOK, JoinsItsThread, TypeOK, Holding
<1> QED BY <1>1, Invariance, PTL

\* Updates of the counter may be lost, but it never exceeds the number of slots.
THEOREM CountIsBounded == Spec => []CountWithinSlots
<1>1. IndInv => CountWithinSlots
  BY DEF IndInv, CountOK, CountWithinSlots
<1> QED BY <1>1, Invariance, PTL
=============================================================================

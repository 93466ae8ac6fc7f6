---------------------------- MODULE HttpSpawner ----------------------------
(***************************************************************************)
(* spawner.c of the http test: the main thread keeps a thread in every     *)
(* slot; per slot a joiner waits for the thread to end and frees the slot. *)
(* A condition variable wakes who waits on it when it is signalled, and    *)
(* also when it is not: POSIX allows spurious wake-ups and no wait of this *)
(* program is in a loop that looks at why it was woken.                    *)
(* inflight.count is changed by the main thread and by the joiners under   *)
(* different locks: each ++ and -- is a load and a store.                  *)
(***************************************************************************)
EXTENDS Integers

CONSTANTS NTHREADS,    \* 1000 in the code
          MaxDrift     \* bound: requests are answered while the counter is above -MaxDrift

ASSUME ConstantsAssumption == NTHREADS \in Nat \ {0} /\ MaxDrift \in Nat

Slots == 0 .. NTHREADS - 1

\* Who holds a lock, if it is not the joiner of a slot.
MainThread == NTHREADS
Nobody == NTHREADS + 1

VARIABLES
  main, t,       \* the main thread, and the slot it looks at or has found
  joiner,        \* the joiner of each slot
  thread,        \* the thread of each slot: "none", "running", "ended"
  free,          \* slots with flag -1
  count, loaded, \* inflight.count, and what each thread has read of it
  inflight,      \* the holder of inflight.mutex
  join,          \* the holder of each threads[i].join
  unasked        \* history: the joiners whose last wake-up was no signal

vars == <<main, t, joiner, thread, free, count, loaded, inflight, join, unasked>>

TypeOK ==
  /\ main \in {"lock", "check", "find", "slot", "started", "signal", "full", "wait", "woken",
              "unlock", "exit", "undefined"}
  /\ t \in 0 .. NTHREADS /\ (main \in {"slot", "started", "signal"} => t \in Slots)
  /\ joiner \in [Slots -> {"lock", "wait", "woken", "join", "joined", "counted", "freed",
                          "signal"}]
  /\ thread \in [Slots -> {"none", "running", "ended"}]
  /\ free \subseteq Slots /\ count \in Int /\ loaded \in [Slots \cup {MainThread} -> Int]
  /\ inflight \in Slots \cup {MainThread, Nobody}
  /\ join \in [Slots -> Slots \cup {MainThread, Nobody}] /\ unasked \subseteq Slots

Init ==
  /\ main = "lock" /\ t = 0
  /\ joiner = [i \in Slots |-> "lock"] /\ thread = [i \in Slots |-> "none"]
  /\ free = Slots /\ count = 0 /\ loaded = [p \in Slots \cup {MainThread} |-> 0]
  /\ inflight = Nobody /\ join = [i \in Slots |-> Nobody] /\ unasked = {}
-----------------------------------------------------------------------------
(* The main thread *)

Main(from, to) == main = from /\ main' = to

\* At the top, or on return from pthread_cond_wait(): the mutex is taken.
TakeInflight ==
  /\ Main("lock", "check") \/ Main("woken", "unlock")
  /\ inflight = Nobody /\ inflight' = MainThread
  /\ UNCHANGED <<t, joiner, thread, free, count, loaded, join, unasked>>

\* Mutant: one thread too many.
CheckCountAtMost ==
  /\ IF count <= NTHREADS THEN Main("check", "find") ELSE Main("check", "full")
  /\ t' = 0 /\ UNCHANGED <<joiner, thread, free, count, loaded, inflight, join, unasked>>

\* "while ( inflight.count < NTHREADS )"
CheckCount ==
  /\ IF count < NTHREADS THEN Main("check", "find") ELSE Main("check", "full")
  /\ t' = 0 /\ UNCHANGED <<joiner, thread, free, count, loaded, inflight, join, unasked>>

\* Mutant: the scan goes one slot too far.
FindUnchecked ==
  /\ \/ t \in free \cup {NTHREADS} /\ UNCHANGED t /\ Main("find", "slot")
     \/ t \in Slots \ free /\ t' = t + 1 /\ Main("find", "find")
  /\ UNCHANGED <<joiner, thread, free, count, loaded, inflight, join, unasked>>

\* find_free_thread(), a slot at a time; "No free slot?" and exit(1).
find_free_thread ==
  /\ \/ t \in free /\ UNCHANGED t /\ Main("find", "slot")
     \/ t \in Slots \ free /\ t' = t + 1 /\ Main("find", "find")
     \/ t = NTHREADS /\ UNCHANGED t /\ Main("find", "exit")
  /\ UNCHANGED <<joiner, thread, free, count, loaded, inflight, join, unasked>>

\* Mutant: the slot is not flagged as used.
StartThreadUnflagged ==
  /\ Main("slot", "started")
  /\ join[t] = Nobody /\ join' = [join EXCEPT ![t] = MainThread]
  /\ thread' = [thread EXCEPT ![t] = "running"]
  /\ loaded' = [loaded EXCEPT ![MainThread] = count]
  /\ UNCHANGED <<t, joiner, free, count, inflight, unasked>>

\* Under the slot's lock: pthread_create(), the flag and the load of count++.
StartThread ==
  /\ Main("slot", "started")
  /\ join[t] = Nobody /\ join' = [join EXCEPT ![t] = MainThread]
  /\ thread' = [thread EXCEPT ![t] = "running"]
  /\ free' = free \ {t}
  /\ loaded' = [loaded EXCEPT ![MainThread] = count]
  /\ UNCHANGED <<t, joiner, count, inflight, unasked>>

\* pthread_create() fails: exit(1).
CreateFails ==
  /\ Main("slot", "exit")
  /\ join[t] = Nobody /\ join' = [join EXCEPT ![t] = MainThread]
  /\ UNCHANGED <<t, joiner, thread, free, count, loaded, inflight, unasked>>

CountUp ==
  /\ Main("started", "signal")
  /\ count' = loaded[MainThread] + 1
  /\ UNCHANGED <<t, joiner, thread, free, loaded, inflight, join, unasked>>

\* A joiner that does not wait yet misses the signal.
SignalJoiner ==
  /\ Main("signal", "check")
  /\ joiner' = IF joiner[t] = "wait" THEN [joiner EXCEPT ![t] = "woken"] ELSE joiner
  /\ join' = [join EXCEPT ![t] = Nobody]
  /\ UNCHANGED <<t, thread, free, count, loaded, inflight, unasked>>

\* pthread_cond_wait() gives the mutex up, and so does the end of the loop.
Wait ==
  /\ Main("full", "wait") \/ Main("unlock", "lock")
  /\ inflight' = Nobody
  /\ UNCHANGED <<t, joiner, thread, free, count, loaded, join, unasked>>

\* A wake-up nobody asked for.
MainWakes ==
  /\ Main("wait", "woken")
  /\ UNCHANGED <<t, joiner, thread, free, count, loaded, inflight, join, unasked>>
-----------------------------------------------------------------------------
(* The joiner of slot i, and its thread *)

Joiner(i, from, to) == joiner[i] = from /\ joiner' = [joiner EXCEPT ![i] = to]

\* The socket() or the connect() of the thread fails: exit(1).
ThreadFails(i) ==
  /\ thread[i] = "running" /\ main' = "exit"
  /\ UNCHANGED <<t, joiner, thread, free, count, loaded, inflight, join, unasked>>

ThreadEnds(i) ==
  /\ count > -MaxDrift
  /\ thread[i] = "running" /\ thread' = [thread EXCEPT ![i] = "ended"]
  /\ UNCHANGED <<main, t, joiner, free, count, loaded, inflight, join, unasked>>

\* pthread_mutex_lock() and pthread_cond_wait(), which gives the lock up.
JoinerWaits(i) ==
  /\ Joiner(i, "lock", "wait") /\ join[i] = Nobody
  /\ unasked' = unasked \ {i}
  /\ UNCHANGED <<main, t, thread, free, count, loaded, inflight, join>>

\* A wake-up nobody asked for: nothing makes the joiner wait again.
JoinerWakes(i) ==
  /\ Joiner(i, "wait", "woken")
  /\ unasked' = unasked \cup {i}
  /\ UNCHANGED <<main, t, thread, free, count, loaded, inflight, join>>

\* Mutant: the slot is flagged as free before the thread is joined.
JoinerWokenFrees(i) ==
  /\ Joiner(i, "woken", "join") /\ free' = free \cup {i}
  /\ join[i] = Nobody /\ join' = [join EXCEPT ![i] = i]
  /\ UNCHANGED <<main, t, thread, count, loaded, inflight, unasked>>

\* Woken, it has the lock again.
JoinerWoken(i) ==
  /\ Joiner(i, "woken", "join")
  /\ join[i] = Nobody /\ join' = [join EXCEPT ![i] = i]
  /\ UNCHANGED <<main, t, thread, free, count, loaded, inflight, unasked>>

\* pthread_join() returns; the load of count--.
Joins(i) ==
  /\ Joiner(i, "join", "joined")
  /\ thread[i] = "ended" /\ thread' = [thread EXCEPT ![i] = "none"]
  /\ loaded' = [loaded EXCEPT ![i] = count]
  /\ UNCHANGED <<main, t, free, count, inflight, join, unasked>>

\* pthread_join() of a thread that was joined already, or was never created, and then
\* count-- and threads[-1].flag = -1, for the slot is free: undefined.
JoinsNothing(i) ==
  /\ joiner[i] = "join" /\ thread[i] = "none" /\ main' = "undefined"
  /\ UNCHANGED <<t, joiner, thread, free, count, loaded, inflight, join, unasked>>

CountDown(i) ==
  /\ Joiner(i, "joined", "counted")
  /\ count' = loaded[i] - 1
  /\ UNCHANGED <<main, t, thread, free, loaded, inflight, join, unasked>>

FreeSlot(i) ==
  /\ Joiner(i, "counted", "freed")
  /\ free' = free \cup {i}
  /\ join' = [join EXCEPT ![i] = Nobody]
  /\ UNCHANGED <<main, t, thread, count, loaded, inflight, unasked>>

\* pthread_mutex_trylock(): EBUSY, or the mutex.
TryInflight(i) ==
  /\ IF inflight = Nobody THEN Joiner(i, "freed", "signal") /\ inflight' = i
                            ELSE Joiner(i, "freed", "lock") /\ UNCHANGED inflight
  /\ UNCHANGED <<main, t, thread, free, count, loaded, join, unasked>>

SignalMain(i) ==
  /\ Joiner(i, "signal", "lock") /\ inflight' = Nobody
  /\ main' = IF main = "wait" THEN "woken" ELSE main
  /\ UNCHANGED <<t, thread, free, count, loaded, join, unasked>>

MainNext == TakeInflight \/ CheckCount \/ find_free_thread \/ StartThread
            \/ CountUp \/ SignalJoiner \/ Wait

JoinerNext(i) == JoinerWaits(i) \/ JoinerWoken(i) \/ Joins(i) \/ JoinsNothing(i)
                 \/ CountDown(i) \/ FreeSlot(i) \/ TryInflight(i) \/ SignalMain(i)

\* What may happen and need not.
Chance == CreateFails \/ MainWakes \/ \E i \in Slots : ThreadFails(i) \/ JoinerWakes(i)

\* exit(1) ends every thread; after undefined behaviour nothing is known.
Ended == main \in {"exit", "undefined"}

Next == ~Ended /\ (MainNext \/ Chance \/ \E i \in Slots : ThreadEnds(i) \/ JoinerNext(i))

Spec == Init /\ [][Next]_vars

\* Every thread runs, requests are answered, and who asks for a lock again and
\* again gets it.
FairSpec == /\ Spec
            /\ SF_vars(~Ended /\ MainNext)
            /\ \A i \in Slots : /\ SF_vars(~Ended /\ ThreadEnds(i))
                                /\ SF_vars(~Ended /\ JoinerNext(i))
-----------------------------------------------------------------------------
\* A stack is given to a new thread only when the last thread that had it has been
\* joined: the main thread finds no slot whose flag was reset too early, and none
\* is taken away from it between finding it and pthread_create().
StackIsUnused == main = "slot" => t \in free /\ thread[t] = "none"

\* A joiner that was woken by the signal sent to it joins a thread that was created and
\* that nobody has joined, and then uses t->flag as an index: it is its own slot, never
\* the -1 of a free one.  (A joiner that was woken by nobody may well go on to
\* JoinsNothing.)
JoinsItsThread ==
  \A i \in Slots \ unasked :
    /\ joiner[i] \in {"woken", "join", "joined", "counted"} => i \notin free
    /\ joiner[i] \in {"woken", "join"} => thread[i] # "none"

\* Whatever updates of inflight.count are lost, no more threads are counted than
\* there are slots.
CountWithinSlots == count <= NTHREADS

(* "if the main thread is busy (i.e. we don't get the lock) then we know that *)
(* the main thread will be looping and notice our flag is reset and we can be *)
(* reused.  On the other hand, if we get the lock, the main process must be   *)
(* sleeping, so we wake it up.  Either way, we are OK!" (joiner()): a slot    *)
(* that was freed gets a new thread, unless spawner ends.                     *)
FreedSlotIsReused ==
  \A i \in Slots : i \in free ~> (i \notin free \/ Ended)
=============================================================================

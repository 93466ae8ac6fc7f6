----------------------------- MODULE TestMutex -----------------------------
(***************************************************************************)
(* What the shared "test running" word of a daemon promises: at most one   *)
(* connection at a time owns the machine's test.  Ownership is taken only  *)
(* when nobody has it, and is given up by the owner alone (it finished, it *)
(* failed, or it died).  IpbenchDaemon is shown to implement this module.  *)
(***************************************************************************)
CONSTANTS Handlers,   \* the pids of connection handlers
          NoPid       \* "no test is running"

VARIABLE holder       \* the handler that owns the test, or NoPid

\* A test is claimed: HELLO is answered with 200 and the pid is recorded.
Acquire(h) == holder = NoPid /\ holder' = h

\* The owner's test is over, however it ended.
Release(h) == holder = h /\ holder' = NoPid

Init == holder = NoPid

Next == \E h \in Handlers : Acquire(h) \/ Release(h)

Spec == Init /\ [][Next]_holder
=============================================================================

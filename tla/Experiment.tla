----------------------------- MODULE Experiment -----------------------------
(***************************************************************************)
(* What one run of ipbench.py promises about the machines that take part.  *)
(* No test runs anywhere until every machine is set up; a target measures  *)
(* until every client test is over; results are printed only when every    *)
(* machine has finished its test.  A machine may fail at any time, and the *)
(* experiment may end without an output.  IpbenchSystem is shown to        *)
(* implement this module.                                                  *)
(***************************************************************************)
CONSTANTS TargetSet,   \* machines that measure while the clients run
          ClientSet    \* machines that generate load

VARIABLES phase,       \* how far each machine is
          printed      \* have the results been printed ?

Machines == TargetSet \cup ClientSet

Init == /\ phase = [m \in Machines |-> "idle"]
        /\ printed = FALSE

Goto(m, p) == phase' = [phase EXCEPT ![m] = p] /\ UNCHANGED printed

\* The machine accepted its test and its arguments.
Prepare(m) == phase[m] = "idle" /\ Goto(m, "ready")

\* The barrier: everybody is, or has been, ready.
Begin(m) == /\ phase[m] = "ready"
            /\ \A n \in Machines : phase[n] \notin {"idle", "refused"}
            /\ Goto(m, "running")

FinishClient(c) == phase[c] = "running" /\ Goto(c, "done")

FinishTarget(t) == /\ phase[t] = "running"
                   /\ \A c \in ClientSet : phase[c] = "done"
                   /\ Goto(t, "done")

Fail(m) == \/ phase[m] = "idle" /\ Goto(m, "refused")
           \/ phase[m] \in {"ready", "running"} /\ Goto(m, "failed")

PrintResults == /\ \A m \in Machines : phase[m] = "done"
                /\ printed' = TRUE
                /\ UNCHANGED phase

Next == \/ \E m \in Machines : Prepare(m) \/ Begin(m) \/ Fail(m)
        \/ \E c \in ClientSet : FinishClient(c)
        \/ \E t \in TargetSet : FinishTarget(t)
        \/ PrintResults

Spec == Init /\ [][Next]_<<phase, printed>>
=============================================================================

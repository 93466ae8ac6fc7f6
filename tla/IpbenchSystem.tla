--------------------------- MODULE IpbenchSystem ---------------------------
(***************************************************************************)
(* One run of ipbench.py (Controller) against an ipbenchd.py per machine.  *)
(* Of each daemon the model has the one connection handler that talks to   *)
(* this controller; what handlers of a daemon do to one another is module  *)
(* IpbenchDaemon.  A target's handler forks when it is told to START: the  *)
(* parent runs the test, the child waits for STOP and shares the socket.   *)
(***************************************************************************)
EXTENDS Controller

VARIABLES
  sess,      \* the state of each daemon's handler
  child,     \* the forked reader of a target: "none", "reading" or "gone"
  stopped,   \* targets whose plugin has been told to stop
  claimed,   \* TestStatus: the pid of the handler modelled here, or another
  aborted    \* what ABORT found: "none" (not there yet), "over", or the "own" session

dvars == <<sess, child, stopped, claimed, aborted>>
vars == <<cvars, dvars>>

TargetSet == Range(Targets)
ClientSet == Range(Clients)

\* States in which the handler itself waits for a command.
Waiting == {"listen", "setup", "loaded", "run"}
\* Those whose process is gone; "lost": killed between its data and not_running().
Ended == {"done", "lost", "refused", "failed"}

TypeOK ==
  /\ CTypeOK
  /\ sess \in [Daemons -> Waiting \cup Ended \cup
                          {"none", "forked", "testing", "marshall", "report"}]
  /\ child \in [Daemons -> {"none", "reading", "gone"}]
  /\ stopped \subseteq TargetSet
  /\ claimed \in [Daemons -> {"free", "own", "other"}]
  /\ aborted \in [Daemons -> {"none", "over", "own"}]

\* A machine may be busy with somebody else's test, or seem to be.
Init ==
  /\ CInit
  /\ sess = [d \in Daemons |-> "none"]
  /\ child = [d \in Daemons |-> "none"]
  /\ stopped = {}
  /\ claimed \in [Daemons -> {"free", "other"}]
  /\ aborted = [d \in Daemons |-> "none"]

-----------------------------------------------------------------------------
(* Building blocks *)

Becomes(d, s) == sess' = [sess EXCEPT ![d] = s]

\* The next command in the socket of d is word.
Reads(d, word) ==
  /\ toD[d] # << >> /\ Head(toD[d]) = word
  /\ toD' = [toD EXCEPT ![d] = Tail(@)]

\* What is sent to a closed connection is lost.
Answers(d, code) ==
  toC' = IF conn[d] = "open" THEN [toC EXCEPT ![d] = Append(@, code)] ELSE toC

\* The handler's process is gone, after its report in state s.  The end of the
\* connection reaches the controller at once unless a child of the handler still
\* has the socket.
Gone(d, s) ==
  /\ Becomes(d, CASE sess[d] = "report" -> s
                  [] sess[d] \in {"run", "forked", "testing", "marshall"} -> "failed"
                  [] OTHER -> "refused")
  /\ over' = IF child[d] = "reading" THEN over ELSE over \cup {d}

\* It exits.
Ends(d) == Gone(d, "done")

\* SIGKILL, at any point of marshall() too: then part of the reply may be out.
Dies(d) ==
  /\ Gone(d, "lost")
  /\ UNCHANGED toC \/ (sess[d] = "marshall" /\ Answers(d, "cut"))

Controlled == <<step, at, loop, results, printed, asked, conn, aborted>>

\* The handler of d, in state s, takes a command from the socket.
Takes(d, s, word) == sess[d] = s /\ Reads(d, word) /\ UNCHANGED Controlled

\* TEST_RUNNING.not_running(), whoever the flag names.
Frees(d) == claimed' = [claimed EXCEPT ![d] = "free"]

\* ERROR with any code but 421: clear the flag, send the code, RESET.
Error(d, code) ==
  /\ Frees(d)
  /\ Answers(d, code)
  /\ Ends(d)
  /\ UNCHANGED <<child, stopped>>

\* Answer 200 and go on.
Okay(d, s) ==
  /\ Answers(d, "200")
  /\ Becomes(d, s)
  /\ UNCHANGED <<over, child, stopped>>

-----------------------------------------------------------------------------
(* What client and target handlers have in common *)

\* A handler is forked for the connection and sends the banner.
Accepted(d) ==
  /\ sess[d] = "none" /\ conn[d] # "none"
  /\ Becomes(d, "listen")
  /\ Answers(d, "100")
  /\ UNCHANGED <<Controlled, over, toD, child, stopped, claimed>>

\* HELLO, in one step: there is one controller.
TakesHello(d) ==
  /\ Takes(d, "listen", "HELLO")
  /\ \/ /\ claimed[d] # "free"
        /\ Answers(d, "421")
        /\ Ends(d)
        /\ UNCHANGED <<child, stopped, claimed>>
     \/ /\ claimed[d] = "free"
        /\ claimed' = [claimed EXCEPT ![d] = "own"]
        /\ Okay(d, "setup")

\* Mutant: LOAD leaves the handler waiting for another LOAD.
TakesLoadAgain(d) ==
  /\ Takes(d, "setup", "LOAD")
  /\ \/ Okay(d, "setup") /\ UNCHANGED claimed
     \/ Error(d, "451")

TakesLoad(d) ==
  /\ Takes(d, "setup", "LOAD")
  /\ \/ Okay(d, "loaded") /\ UNCHANGED claimed
     \/ Error(d, "451")

TakesSetup(d) ==
  /\ Takes(d, "loaded", "SETUP")
  /\ \/ Okay(d, "run") /\ UNCHANGED claimed
     \/ Error(d, "451")

TakesQuit(d) ==
  /\ \E s \in Waiting : Takes(d, s, "QUIT")
  /\ Error(d, "222")

\* SHUNT.marshall(), and the data.
Marshall(d) ==
  /\ sess[d] = "marshall"
  /\ UNCHANGED <<Controlled, toD>>
  /\ \/ /\ Answers(d, "220")
        /\ Becomes(d, "report")
        /\ UNCHANGED <<over, child, stopped, claimed>>
     \/ Error(d, "451")

\* Mutant: the flag is not cleared after the data.
ReportedBusy(d) ==
  /\ sess[d] = "report"
  /\ Ends(d)
  /\ UNCHANGED <<Controlled, toD, toC, child, stopped, claimed>>

\* TEST_RUNNING.not_running() and RESET.
Reported(d) ==
  /\ sess[d] = "report"
  /\ Frees(d)
  /\ Ends(d)
  /\ UNCHANGED <<Controlled, toD, toC, child, stopped>>

\* A read or a write finds the connection reset: handle() catches the exception
\* and exits.  The flag stays as it is.
ConnectionLost(d) ==
  /\ conn[d] = "closed"
  /\ sess[d] \in Waiting \cup {"marshall"}
  /\ Ends(d)
  /\ UNCHANGED <<Controlled, toD, toC, child, stopped, claimed>>

\* Somebody else ABORTs the test of this machine: SIGKILL, and the flag stays.
Killed(d) ==
  /\ sess[d] \in {"setup", "loaded", "run", "forked", "testing", "marshall", "report"}
  /\ Dies(d)
  /\ UNCHANGED <<Controlled, toD, child, stopped, claimed>>

-----------------------------------------------------------------------------
(* The handler of the connection with the ABORT, in one step: what happens     *)
(* between its reads and its signals is in IpbenchDaemon.                      *)

Aborts(d) ==
  /\ d \in asked /\ aborted[d] = "none"
  /\ UNCHANGED <<step, at, loop, results, printed, asked, conn, toD, child, stopped>>
  /\ \/ /\ claimed[d] = "own" /\ sess[d] \notin Ended
        /\ aborted' = [aborted EXCEPT ![d] = "own"]
        /\ Dies(d)
        /\ UNCHANGED claimed
     \/ /\ claimed[d] = "own" => sess[d] \in Ended
        /\ aborted' = [aborted EXCEPT ![d] = "over"]
        /\ Frees(d) \/ (claimed[d] = "other" /\ UNCHANGED claimed)
        /\ UNCHANGED <<sess, over, toC>>

-----------------------------------------------------------------------------
(* The test of a client: START blocks in SHUNT.start() until it is over. *)

ClientStart(d) ==
  /\ d \in ClientSet
  /\ Takes(d, "run", "START")
  /\ Becomes(d, "testing")
  /\ UNCHANGED <<over, toC, child, stopped, claimed>>

\* SHUNT.start() returns; with an error: 451.
ClientTestEnds(d) ==
  /\ d \in ClientSet /\ sess[d] = "testing"
  /\ UNCHANGED <<Controlled, toD>>
  /\ \/ /\ Becomes(d, "marshall")
        /\ UNCHANGED <<over, toC, child, stopped, claimed>>
     \/ Error(d, "451")

-----------------------------------------------------------------------------
(* The test of a target *)

\* START: fork.  Parent and child go on independently.
TargetStart(d) ==
  /\ d \in TargetSet
  /\ Takes(d, "run", "START")
  /\ Becomes(d, "forked")
  /\ child' = [child EXCEPT ![d] = "reading"]
  /\ UNCHANGED <<over, toC, stopped, claimed>>

\* The parent: SHUNT.start() begins to measure, or fails; then it kills the
\* child and sends 451.
TargetTestBegins(d) ==
  /\ sess[d] = "forked"
  /\ UNCHANGED <<Controlled, toD>>
  /\ \/ /\ Becomes(d, "testing")
        /\ UNCHANGED <<over, toC, child, stopped, claimed>>
     \/ /\ child' = [child EXCEPT ![d] = "gone"]
        /\ Becomes(d, "failed")
        /\ over' = over \cup {d}
        /\ Frees(d)
        /\ Answers(d, "451")
        /\ UNCHANGED stopped

\* The plugin's stop() has run: its start() returns.
TargetTestEnds(d) ==
  /\ d \in stopped /\ sess[d] = "testing"
  /\ Becomes(d, "marshall")
  /\ UNCHANGED <<Controlled, over, toD, toC, child, stopped, claimed>>

\* The child exits; with what is left of the handler the connection closes.
ChildExits(d) ==
  /\ child' = [child EXCEPT ![d] = "gone"]
  /\ UNCHANGED sess

\* The child: STOP sends SIGUSR1 to the parent, whose signal handler calls the
\* plugin's stop().  A stop() that comes before start() may have no effect: it
\* ends a dummy target, and not a cpu_target_lukem.
ChildStop(d) ==
  /\ child[d] = "reading"
  /\ Reads(d, "STOP")
  /\ ChildExits(d)
  /\ \/ sess[d] \in {"forked", "testing"} /\ stopped' = stopped \cup {d}
     \/ sess[d] # "testing" /\ UNCHANGED stopped
  /\ over' = IF sess[d] \in Ended THEN over \cup {d} ELSE over
  /\ UNCHANGED <<Controlled, toC, claimed>>

\* The child: QUIT is ERROR 222 in the child; the parent hears nothing of it.
ChildQuit(d) ==
  /\ child[d] = "reading"
  /\ Reads(d, "QUIT")
  /\ ChildExits(d)
  /\ Frees(d)
  /\ Answers(d, "222")
  /\ over' = over \cup {d}
  /\ UNCHANGED <<Controlled, stopped>>

\* The child: end of the connection.
ChildLost(d) ==
  /\ child[d] = "reading"
  /\ conn[d] = "closed"
  /\ ChildExits(d)
  /\ over' = over \cup {d}
  /\ UNCHANGED <<Controlled, toD, toC, stopped, claimed>>

-----------------------------------------------------------------------------

\* What the machine of d does by itself, but for the end of a client's test.
Progress(d) ==
  \/ Accepted(d) \/ TakesHello(d) \/ TakesLoad(d) \/ TakesSetup(d) \/ TakesQuit(d)
  \/ Marshall(d) \/ Reported(d) \/ ConnectionLost(d)
  \/ ClientStart(d)
  \/ TargetStart(d) \/ TargetTestBegins(d) \/ TargetTestEnds(d)
  \/ ChildStop(d) \/ ChildQuit(d) \/ ChildLost(d)
  \/ Aborts(d)

Daemon(d) == Progress(d) \/ ClientTestEnds(d)

\* main() has ended, or is in recv() for good.
Over == step \in {"exit", "spinning"} /\ UNCHANGED vars

Next == \/ CNext /\ UNCHANGED dvars
        \/ \E d \in Daemons : Daemon(d) \/ Killed(d)
        \/ Over

Spec == Init /\ [][Next]_vars

\* The controller and every handler and child make progress when they can; the
\* test of a target ends when its stop() has run, that of a client need not end.
FairSpec == /\ Spec
            /\ WF_vars(CNext /\ UNCHANGED dvars)
            /\ \A d \in Daemons : WF_vars(Progress(d))

-----------------------------------------------------------------------------
(* Properties *)

\* How far the test of a machine is.
Phase(d) ==
  CASE sess[d] \in {"none", "listen", "setup", "loaded"} -> "idle"
    [] sess[d] = "run" -> "ready"
    [] sess[d] \in {"forked", "testing", "marshall"} -> "running"
    [] sess[d] \in {"report", "done", "lost"} -> "done"
    [] OTHER -> sess[d]

Phases == [d \in Daemons |-> Phase(d)]

Abstract == INSTANCE Experiment WITH phase <- Phases

\* main() sets everybody up before it starts anybody, stops the targets after
\* all clients have reported and prints when everybody has: the tests of an
\* ipbench run are an Experiment, whatever fails on the way.
ImplementsExperiment == Abstract!Spec

\* The commands that a process waiting in state s does not answer with 500.
Known(s) == {"QUIT"} \cup CASE s = "listen" -> {"HELLO"}
                            [] s = "setup"  -> {"LOAD"}
                            [] s = "loaded" -> {"SETUP"}
                            [] s = "run"    -> {"START"}
                            [] s = "forked" -> {"STOP"}

\* The controller and the handlers agree on whose turn it is, although START is
\* not acknowledged and a target's child reads the socket of its parent: no
\* command ever reaches a state that would answer it with a syntax error.
NoSyntaxErrors ==
  \A d \in Daemons : toD[d] # << >> =>
    /\ sess[d] \in Waiting => Head(toD[d]) \in Known(sess[d])
    /\ child[d] = "reading" => Head(toD[d]) \in Known("forked")

\* The stop() of target t had no effect: its test goes on for good.
StopLost(t) == child[t] = "gone" /\ t \notin stopped /\ sess[t] = "testing"

\* Every test ends: a client's by itself, although nothing makes it (latency.c
\* loops when recv() returns 0), and a target's when its child is told to STOP.
TestsEnd == /\ \A c \in ClientSet : []<>(sess[c] # "testing")
            /\ \A t \in TargetSet : []<>~StopLost(t)

\* Whatever dies, fails or is busy, ipbench.py comes to its end, provided that
\* every test ends and unless a daemon was killed in the middle of its reply:
\* then unmarshall() may spin in the loop that waits for the rest.
ControllerExits == TestsEnd => <>(step \in {"exit", "spinning"})

\* After a run that was printed the daemons can take the next one, but for those
\* that an ABORT, the run's own or anybody's, hit after their data was sent and
\* before marshall() called not_running(): there the flag stays.
PrintedRunFreesDaemons ==
  printed ~> \A d \in Daemons : claimed[d] = "free" \/ sess[d] = "lost"

\* "the connection should have closed; re-open" (ipbench.py connect()): the ABORT
\* that clears the way for a session does not end that session.
ResetSparesItsSession == \A d \in Daemons : aborted[d] # "own"

\* "STATUS : Tell if we are currently running a test or not" and "QUIT : Quit
\* current processing" (doc/README): a machine that says it is free runs no test.
FreeMachineIsIdle == \A d \in Daemons : claimed[d] = "free" => sess[d] # "testing"
=============================================================================

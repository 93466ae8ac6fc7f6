--------------------------- MODULE IpbenchDaemon ---------------------------
(***************************************************************************)
(* ipbenchd.py in client mode: a forking server whose connection handlers  *)
(* share one word of memory, the pid of the handler that is running a test *)
(* (class TestStatus).  Every handler runs the state machine LISTEN,       *)
(* SETUP, RUN, MARSHALL, ERROR, ABORT, RESET of class IpbenchClient.       *)
(*                                                                         *)
(* An action is one step of one process between two accesses to what other *)
(* processes can see: the flag, the process table, the socket.  Two reads  *)
(* of the flag are two actions, and so are a read and the write after it.  *)
(***************************************************************************)
EXTENDS FiniteSets, Naturals

CONSTANTS Handlers,     \* pids the kernel can give to forked handlers
          NoPid,        \* 0, the flag's value when no test is running
          MaxChildren,  \* ForkingMixIn.max_children
          PidReuse      \* may a new handler get a pid the flag (or an ABORT
                        \* in progress) still names ?

ASSUME NoPidAssumption == NoPid \notin Handlers
ASSUME MaxChildrenAssumption == MaxChildren \in Nat
ASSUME PidReuseAssumption == PidReuse \in BOOLEAN

VARIABLES
  server,       \* the accepting process: "up" or "down"
  flag,         \* the shared mmap of TestStatus
  pc,           \* where each handler is, "none" when its pid is free
  peer,         \* the other end: open, closed with lines still unread, at EOF
  cargo,        \* the code the ERROR state was entered with
  pid_to_kill   \* local variable of abort()

local == <<cargo, pid_to_kill>>
vars == <<server, flag, pc, peer, local>>

\* States in which a handler waits for a line from its peer.
Waiting == {"listen", "setup", "loaded", "run"}
\* States of abort().
Aborting == {"abort", "abort_pid", "abort_int", "abort_clear", "abort_kill"}
States == Waiting \cup Aborting \cup
          {"none", "claim", "testing", "interrupted", "marshall", "data_sent",
           "error", "bye", "zombie"}

\* The status codes the ERROR state is entered with ("": not in ERROR).
Codes == {"", "222", "421", "451"}

TypeOK ==
  /\ server \in {"up", "down"}
  /\ flag \in Handlers \cup {NoPid}
  /\ pc \in [Handlers -> States]
  /\ peer \in [Handlers -> {"none", "open", "half", "eof"}]
  /\ cargo \in [Handlers -> Codes]
  /\ pid_to_kill \in [Handlers -> Handlers \cup {NoPid}]

Init ==
  /\ server = "up"
  /\ flag = NoPid
  /\ pc = [h \in Handlers |-> "none"]
  /\ peer = [h \in Handlers |-> "none"]
  /\ cargo = [h \in Handlers |-> ""]
  /\ pid_to_kill = [h \in Handlers |-> NoPid]

-----------------------------------------------------------------------------
(* Building blocks *)

Goto(h, state) == pc' = [pc EXCEPT ![h] = state]

\* The processes in S exit and the others are where "at" says: their sockets
\* are closed, their locals lost, they are zombies until somebody waits for
\* them.  The flag lives in shared memory and stays.
Exit(S, at) ==
  LET reset(f, v) == [h \in Handlers |-> IF h \in S THEN v ELSE f[h]] IN
  /\ pc' = [h \in Handlers |-> IF h \in S THEN "zombie" ELSE at[h]]
  /\ peer' = reset(peer, "none")
  /\ cargo' = reset(cargo, "")
  /\ pid_to_kill' = reset(pid_to_kill, NoPid)

\* SIGINT to the processes in S.  One in Python code dies of it (a
\* KeyboardInterrupt is not an Exception, so handle() does not catch it); one
\* inside a test notices when SHUNT.start() returns.
Interrupt(S, at) ==
  Exit({h \in S : at[h] \notin {"none", "zombie", "testing", "interrupted"}},
       [h \in Handlers |-> IF h \in S /\ at[h] = "testing" THEN "interrupted"
                                                           ELSE at[h]])

\* return ("ERROR", (code, ...))
Fail(h, code) ==
  /\ Goto(h, "error")
  /\ cargo' = [cargo EXCEPT ![h] = code]
  /\ UNCHANGED <<server, flag, peer, pid_to_kill>>

\* The handler, waiting in a state, reads a line its peer has sent.
Reads(h, state) == pc[h] = state /\ peer[h] \in {"open", "half"}

-----------------------------------------------------------------------------
(* The server process: socketserver.ForkingMixIn *)

\* At max_children the server blocks in waitpid and accepts nobody.
Accept(h) ==
  /\ server = "up"
  /\ pc[h] = "none"
  /\ Cardinality({g \in Handlers : pc[g] # "none"}) < MaxChildren
  /\ PidReuse \/ (flag # h /\ \A g \in Handlers : pid_to_kill[g] # h)
  /\ Goto(h, "listen")
  /\ peer' = [peer EXCEPT ![h] = "open"]
  /\ UNCHANGED <<server, flag, local>>

\* collect_children, or init once the server is gone.
Reap(h) ==
  /\ pc[h] = "zombie"
  /\ Goto(h, "none")
  /\ UNCHANGED <<server, flag, peer, local>>

-----------------------------------------------------------------------------
(* The peer and the connection *)

\* The peer closes; what it sent before is still to be read.
PeerCloses(h) ==
  /\ peer[h] = "open"
  /\ peer' = [peer EXCEPT ![h] = "half"]
  /\ UNCHANGED <<server, flag, pc, local>>

\* readline() returns "" at EOF: a syntax error like any other, for ever.
ReadsEof(h) ==
  /\ pc[h] \in Waiting
  /\ peer[h] \in {"half", "eof"}
  /\ peer' = [peer EXCEPT ![h] = "eof"]
  /\ UNCHANGED <<server, flag, pc, local>>

\* Mutant: only the data and the last status line notice the dead connection.
ConnectionLostLate(h) ==
  /\ pc[h] \in {"marshall", "bye"}
  /\ peer[h] \in {"half", "eof"}
  /\ Exit({h}, pc)
  /\ UNCHANGED <<server, flag>>

\* A write to the closed connection raises; handle() catches it and exits.
ConnectionLost(h) ==
  /\ pc[h] \in Waiting \cup {"marshall", "bye"}
  /\ peer[h] \in {"half", "eof"}
  /\ Exit({h}, pc)
  /\ UNCHANGED <<server, flag>>

-----------------------------------------------------------------------------
(* Lines every state handles alike.  HELP, STATUS and syntax errors are        *)
(* answered and change nothing that is modelled here.                          *)

\* "QUIT" gives ERROR 222 wherever it is read, LISTEN included.
Quit(h) ==
  /\ \E s \in Waiting : Reads(h, s)
  /\ Fail(h, "222")

Abort(h) ==
  /\ \E s \in Waiting : Reads(h, s)
  /\ Goto(h, "abort")
  /\ UNCHANGED <<server, flag, peer, local>>

-----------------------------------------------------------------------------
(* LISTEN *)

\* Mutant: HELLO records its pid before it looks whether a test is running.
HelloRefusedLate(h) ==
  /\ Reads(h, "listen")
  /\ flag # NoPid
  /\ flag' = h
  /\ Goto(h, "error")
  /\ cargo' = [cargo EXCEPT ![h] = "421"]
  /\ UNCHANGED <<server, peer, pid_to_kill>>

\* HELLO finds a test running.
HelloRefused(h) ==
  /\ Reads(h, "listen")
  /\ flag # NoPid
  /\ Fail(h, "421")

\* Mutant: HELLO does not look at the flag.
HelloAcceptedBlind(h) ==
  /\ Reads(h, "listen")
  /\ Goto(h, "claim")
  /\ UNCHANGED <<server, flag, peer, local>>

\* HELLO finds no test running and says so, before it records its own pid.
HelloAccepted(h) ==
  /\ Reads(h, "listen")
  /\ flag = NoPid
  /\ Goto(h, "claim")
  /\ UNCHANGED <<server, flag, peer, local>>

\* Mutant: the pid is not recorded.
ClaimUnrecorded(h) ==
  /\ pc[h] = "claim"
  /\ Goto(h, "setup")
  /\ UNCHANGED <<server, flag, peer, local>>

\* TEST_RUNNING.running(os.getpid())
Claim(h) ==
  /\ pc[h] = "claim"
  /\ flag' = h
  /\ Goto(h, "setup")
  /\ UNCHANGED <<server, peer, local>>

-----------------------------------------------------------------------------
(* SETUP *)

\* LOAD: the plugin exists, or load_plugin raises RuntimeError.
Load(h) ==
  /\ Reads(h, "setup")
  /\ \/ /\ Goto(h, "loaded")
        /\ UNCHANGED <<server, flag, peer, local>>
     \/ Fail(h, "451")

\* SETUP with its arguments: SHUNT.setup() succeeds or raises.  Any other word
\* with well-formed arguments is answered 200 as well, without SHUNT.setup().
Setup(h) ==
  /\ Reads(h, "loaded")
  /\ \/ /\ Goto(h, "run")
        /\ UNCHANGED <<server, flag, peer, local>>
     \/ Fail(h, "451")

\* A word with arguments that do not split (a second LOAD): ValueError.
SetupBadArgs(h) ==
  /\ Reads(h, "loaded")
  /\ Exit({h}, pc)
  /\ UNCHANGED <<server, flag>>

-----------------------------------------------------------------------------
(* RUN and MARSHALL *)

\* START calls SHUNT.start(), which blocks in C until the test is over.
Start(h) ==
  /\ Reads(h, "run")
  /\ Goto(h, "testing")
  /\ UNCHANGED <<server, flag, peer, local>>

StartReturns(h) ==
  \/ /\ pc[h] = "testing"
     /\ \/ /\ Goto(h, "marshall")
           /\ UNCHANGED <<server, flag, peer, local>>
        \/ Fail(h, "451")
  \/ \* a SIGINT that arrived meanwhile is raised now, as KeyboardInterrupt
     /\ pc[h] = "interrupted"
     /\ Exit({h}, pc)
     /\ UNCHANGED <<server, flag>>

\* SHUNT.marshall(), then the status line, the length and the data.
Marshall(h) ==
  /\ pc[h] = "marshall"
  /\ \/ /\ Goto(h, "data_sent")
        /\ UNCHANGED <<server, flag, peer, local>>
     \/ Fail(h, "451")

\* TEST_RUNNING.not_running(), whoever the flag names, and RESET.
MarshallDone(h) ==
  /\ pc[h] = "data_sent"
  /\ flag' = NoPid
  /\ Exit({h}, pc)
  /\ UNCHANGED server

-----------------------------------------------------------------------------
(* ERROR *)

\* Mutant: a refused connection clears the flag of the test it lost to.
ErrorAlways(h) ==
  /\ pc[h] = "error"
  /\ flag' = NoPid
  /\ Goto(h, "bye")
  /\ UNCHANGED <<server, peer, local>>

\* Every code but 421 clears the flag, whoever it names.
Error(h) ==
  /\ pc[h] = "error"
  /\ flag' = IF cargo[h] # "421" THEN NoPid ELSE flag
  /\ Goto(h, "bye")
  /\ UNCHANGED <<server, peer, local>>

\* Mutant: RESET is a state like any other, not the end of the process.
ByeToReset(h) ==
  /\ pc[h] = "bye"
  /\ Goto(h, "reset")
  /\ UNCHANGED <<server, flag, peer, local>>

\* The status line of the error, and RESET.
Bye(h) ==
  /\ pc[h] = "bye"
  /\ Exit({h}, pc)
  /\ UNCHANGED <<server, flag>>

-----------------------------------------------------------------------------
(* ABORT *)

\* is_running(): without a test the connection is just reset.
AbortCheck(h) ==
  /\ pc[h] = "abort"
  /\ \/ /\ flag = NoPid
        /\ Exit({h}, pc)
        /\ UNCHANGED <<server, flag>>
     \/ /\ flag # NoPid
        /\ Goto(h, "abort_pid")
        /\ UNCHANGED <<server, flag, peer, local>>

\* running_pid() reads the flag again.
AbortReadPid(h) ==
  /\ pc[h] = "abort_pid"
  /\ pid_to_kill' = [pid_to_kill EXCEPT ![h] = flag]
  /\ Goto(h, "abort_int")
  /\ UNCHANGED <<server, flag, peer, cargo>>

\* os.kill(pid_to_kill, SIGINT)
AbortSigint(h) ==
  /\ pc[h] = "abort_int"
  /\ LET pid == pid_to_kill[h] IN
     \/ \* the test ended since is_running(): kill(0) signals the whole process
        \* group, this handler and the server included
        /\ pid = NoPid
        /\ Interrupt(Handlers, pc)
        /\ server' = "down"
     \/ \* ProcessLookupError
        /\ pid # NoPid /\ pc[pid] = "none"
        /\ Goto(h, "abort_clear")
        /\ UNCHANGED <<server, peer, local>>
     \/ \* when pid = h it dies here: "usually we will have killed *ourself*"
        /\ pid # NoPid /\ pc[pid] # "none"
        /\ Interrupt({pid}, [pc EXCEPT ![h] = "abort_kill"])
        /\ UNCHANGED server
  /\ UNCHANGED flag

\* Mutant: the flag is left naming the dead process.
AbortClearForgets(h) ==
  /\ pc[h] = "abort_clear"
  /\ Exit({h}, pc)
  /\ UNCHANGED <<server, flag>>

\* The process was gone: clear the flag, whoever it names by now.  The None that
\* is returned is no (state, cargo) pair; the exception ends the handler.
AbortClear(h) ==
  /\ pc[h] = "abort_clear"
  /\ flag' = NoPid
  /\ Exit({h}, pc)
  /\ UNCHANGED server

\* os.kill(pid_to_kill, SIGKILL), if the process still exists, and RESET.
AbortSigkill(h) ==
  /\ pc[h] = "abort_kill"
  /\ Exit({h} \cup {g \in {pid_to_kill[h]} : pc[g] # "none"}, pc)
  /\ UNCHANGED <<server, flag>>

-----------------------------------------------------------------------------

\* A step of the code of handler h.
Handler(h) ==
  \/ ReadsEof(h) \/ ConnectionLost(h)
  \/ Quit(h) \/ Abort(h)
  \/ HelloRefused(h) \/ HelloAccepted(h) \/ Claim(h)
  \/ Load(h) \/ Setup(h) \/ SetupBadArgs(h)
  \/ Start(h) \/ StartReturns(h) \/ Marshall(h) \/ MarshallDone(h)
  \/ Error(h) \/ Bye(h)
  \/ AbortCheck(h) \/ AbortReadPid(h) \/ AbortSigint(h)
  \/ AbortClear(h) \/ AbortSigkill(h)

Next == \E h \in Handlers : Accept(h) \/ Reap(h) \/ PeerCloses(h) \/ Handler(h)

Spec == Init /\ [][Next]_vars

\* What the operating system and the tests owe: a handler that can go on without
\* a further line does (a test ends, a write to a dead connection fails in the
\* end), and the server waits for its children.  Peers owe nothing.
Proceed(h) ==
  \/ ConnectionLost(h) \/ Claim(h) \/ StartReturns(h) \/ Marshall(h)
  \/ MarshallDone(h) \/ Error(h) \/ Bye(h) \/ AbortCheck(h) \/ AbortReadPid(h)
  \/ AbortSigint(h) \/ AbortClear(h) \/ AbortSigkill(h)

Fairness == \A h \in Handlers : WF_vars(Proceed(h)) /\ WF_vars(Reap(h))

FairSpec == Spec /\ Fairness

\* Somebody keeps using ipbench --reset: connections keep being made, and a
\* connection in LISTEN keeps sending ABORT.
ResetSpec ==
  /\ FairSpec
  /\ WF_vars(\E h \in Handlers : Accept(h))
  /\ SF_vars(\E h \in Handlers : pc[h] = "listen" /\ Abort(h))

\* The provisos under which the flag is a mutex.  Controllers take turns: no two
\* handlers are between looking at the flag and acting on what they saw (HELLO
\* before it records its pid, ABORT before its signals are out); and nobody
\* sends QUIT before a HELLO that was accepted.
Deciding(h) == pc[h] \in {"claim", "abort_int", "abort_clear"}
Polite ==
  /\ \A g, h \in Handlers : Deciding(g)' /\ Deciding(h)' => g = h
  /\ \A h \in Handlers : ~ (pc[h] = "listen" /\ Quit(h))

PoliteSpec == Init /\ [][Next /\ Polite]_vars

-----------------------------------------------------------------------------
(* Properties *)

\* The handler has been told that the test is its own, and is not done with it.
Owning(h) == pc[h] \in {"setup", "loaded", "run", "testing", "interrupted",
                        "marshall", "data_sent"}

Owners == {h \in Handlers : Owning(h)}

\* One test at a time: HELLO "bails out" when a test is already running, so two
\* connections never both get past it (ipbenchd.py listen(), class TestStatus).
ExclusiveOwner == \A g, h \in Owners : g = h

\* While a handler owns the test the flag names it, so that STATUS reports it,
\* HELLO is refused and ABORT reaches the right process.
OwnerFlagged == \A h \in Owners : flag = h

Holder == IF Owners = {} THEN NoPid ELSE CHOOSE h \in Handlers : Owning(h)

Mutex == INSTANCE TestMutex WITH holder <- Holder

\* The flag and its users are a mutex: ownership passes from nobody to one
\* handler and back to nobody, whatever dies on the way.
ImplementsMutex == Mutex!Spec

\* A handler that never got past HELLO.
Bystander(h) == \/ pc[h] \in {"listen", "claim"}
                \/ pc[h] = "error" /\ cargo[h] = "421"

\* Neither the flag nor an ABORT in progress names a connection that has not
\* claimed the test, provided the kernel does not reuse a pid that is still
\* recorded somewhere.
FlagNamesClaimant ==
  \A h \in Handlers : Bystander(h) => /\ flag # h
                                      /\ \A g \in Handlers : pid_to_kill[g] # h

\* Hence an ABORT never ends a connection that has not claimed the test, unless
\* it takes the whole daemon down.
AbortSparesBystanders ==
  [][\A g, h \in Handlers :
       Bystander(h) /\ pc'[h] = "zombie" /\ (AbortSigint(g) \/ AbortSigkill(g))
         => server' = "down"]_vars

\* ABORT ends a test, never the daemon.
ServerSurvives == server = "up"

\* A connection whose peer has gone gives its process back to the server, which
\* has only max_children of them.
LostPeerFreesChild ==
  \A h \in Handlers : peer[h] \in {"half", "eof"} ~> pc[h] = "none"

\* However a test died, further ipbench --reset runs free the daemon in the end,
\* as long as it is there to be freed.
ResetRecovers == []<>(flag = NoPid \/ Owners # {} \/ server = "down")
=============================================================================

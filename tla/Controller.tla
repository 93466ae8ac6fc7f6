----------------------------- MODULE Controller -----------------------------
(***************************************************************************)
(* ipbench.py: the controller.  It sets up the targets, then the clients,  *)
(* one after the other over one connection each; sends START to all;       *)
(* collects the clients' results while it watches the targets for errors;  *)
(* stops the targets and collects theirs; prints; says QUIT to everybody.  *)
(*                                                                         *)
(* A message is a command word or a status code.  "220" is the status 220  *)
(* or 221 with the data that follows it: which of the two, main() only     *)
(* passes on to the plugin.  "cut" is the same when the length or the data *)
(* is not all there.  A daemon at the other end is any process that takes  *)
(* words from toD and puts codes into toC.                                 *)
(***************************************************************************)
EXTENDS Naturals, Sequences, FiniteSets, Functions

CONSTANTS Targets,   \* the targets, in the order of the configuration
          Clients,   \* the clients, in the order of their client ids
          Reset      \* --reset: ABORT to everybody before it is set up

ASSUME TargetsAssumption == Targets \in Seq(Range(Targets))
ASSUME ClientsAssumption == Clients \in Seq(Range(Clients)) /\ Clients # << >>
ASSUME ResetAssumption == Reset \in BOOLEAN
ASSUME DistinctAssumption ==
  /\ IsInjective(Targets)
  /\ IsInjective(Clients)
  /\ Range(Targets) \cap Range(Clients) = {}

Daemons == Range(Targets) \cup Range(Clients)
Order == Targets \o Clients         \* in which they are set up and started
CloseOrder == Clients \o Targets    \* "for client in clients + targets"

VARIABLES
  step,      \* where main() is
  at,        \* loop index of that step
  made,      \* daemons whose "testobj" exists
  waiting,   \* wait_to_read: clients that have not reported
  to_read,   \* the clients select() found readable, still to be read
  results,   \* daemons whose data unmarshall() has stored
  printed,   \* has every output() returned ?
  asked,     \* daemons that were sent an ABORT, over a connection of its own
  conn,      \* the controller's end of each connection
  over,      \* daemons whose end of the connection is closed
  toD, toC   \* messages in flight to and from each daemon

loop == <<made, waiting, to_read>>
net == <<conn, toD, toC>>
cvars == <<step, at, loop, results, printed, asked, net, over>>

Commands == {"HELLO", "LOAD", "SETUP", "START", "STOP", "QUIT"}
Codes == {"100", "200", "220", "222", "421", "451", "cut"}

CTypeOK ==
  /\ step \in {"connect", "banner", "hello", "load", "setup", "start", "select",
               "read", "poll", "stop", "target_data", "output", "close", "exit", "spinning"}
  /\ at \in 1 .. Len(Order) + 1
  /\ made \subseteq Daemons
  /\ waiting \subseteq Range(Clients)
  /\ to_read \subseteq waiting
  /\ results \subseteq Daemons
  /\ printed \in BOOLEAN
  /\ asked \subseteq Daemons
  /\ conn \in [Daemons -> {"none", "open", "closed"}]
  /\ over \subseteq Daemons
  /\ toD \in [Daemons -> Seq(Commands)]
  /\ toC \in [Daemons -> Seq(Codes)]

CInit ==
  /\ step = "connect" /\ at = 1
  /\ made = {} /\ waiting = {} /\ to_read = {} /\ over = {} /\ asked = {} /\ results = {}
  /\ printed = FALSE
  /\ conn = [d \in Daemons |-> "none"]
  /\ toD = [d \in Daemons |-> << >>]
  /\ toC = [d \in Daemons |-> << >>]

-----------------------------------------------------------------------------
(* Building blocks *)

Goto(s, i) == step' = s /\ at' = i

SendTo(d, word) == toD' = [toD EXCEPT ![d] = Append(@, word)]

\* parse_return_code(): take a status line.
Receive(d, code) ==
  /\ toC[d] # << >> /\ code = Head(toC[d])
  /\ toC' = [toC EXCEPT ![d] = Tail(@)]

\* select() reports data, and the end of the connection as well.
Readable(d) == toC[d] # << >> \/ d \in over

\* raise IpBenchError: main() prints it and goes to close the connections.
Raise == Goto("close", 1)

\* The process ends and the kernel closes its sockets.
Exits ==
  /\ Goto("exit", 1)
  /\ conn' = [d \in Daemons |-> IF conn[d] = "open" THEN "closed" ELSE conn[d]]
  /\ UNCHANGED <<loop, results, printed, asked, over, toD, toC>>

\* The daemon this iteration of a loop over a list is about.
Current(list, d) == at \in 1 .. Len(list) /\ d = list[at]

-----------------------------------------------------------------------------
(* Setting up, one daemon at a time *)

\* The first connection: banner and ABORT.  It is dropped at once.
AskAbort(d) ==
  /\ Reset /\ step = "connect" /\ Current(Order, d) /\ d \notin asked
  /\ made' = made \cup {d}
  /\ asked' = asked \cup {d}
  /\ UNCHANGED <<step, at, waiting, to_read, results, printed, net, over>>

Connect(d) ==
  /\ step = "connect" /\ Current(Order, d)
  /\ Reset => d \in asked
  /\ made' = made \cup {d}
  /\ conn' = [conn EXCEPT ![d] = "open"]
  /\ Goto("banner", at)
  /\ UNCHANGED <<waiting, to_read, results, printed, asked, over, toD, toC>>

\* "Can't connect": sys.exit(1).  A plugin the controller cannot load ends it
\* here as well, as a RuntimeError.
ConnectRefused(d) == step = "connect" /\ Current(Order, d) /\ Exits

\* In step s an answer is awaited; after the right one the next command is sent.
Proceed(d, s, next, word) ==
  /\ step = s /\ Current(Order, d)
  /\ \E code \in Codes :
       /\ Receive(d, code)
       /\ IF code = (IF s = "banner" THEN "100" ELSE "200")
          THEN Goto(next, at) /\ SendTo(d, word)
          ELSE Raise /\ UNCHANGED toD
  /\ UNCHANGED <<loop, results, printed, asked, conn, over>>

Banner(d) == Proceed(d, "banner", "hello", "HELLO")
Hello(d) == Proceed(d, "hello", "load", "LOAD")
Load(d) == Proceed(d, "load", "setup", "SETUP")

\* A client's setup() without --test-target: nothing is sent.
NoTestTarget(d) ==
  /\ step = "load" /\ Current(Order, d) /\ d \in Range(Clients)
  /\ Receive(d, "200")
  /\ Raise
  /\ UNCHANGED <<loop, results, printed, asked, conn, over, toD>>

SetupAnswered(d) ==
  /\ step = "setup" /\ Current(Order, d)
  /\ \E code \in Codes :
       /\ Receive(d, code)
       /\ IF code # "200" THEN Raise
          ELSE IF at = Len(Order) THEN Goto("start", 1) ELSE Goto("connect", at + 1)
  /\ UNCHANGED <<loop, results, printed, asked, conn, over, toD>>

\* START to the targets, then to the clients, without waiting for an answer.
Start(d) ==
  /\ step = "start" /\ Current(Order, d)
  /\ SendTo(d, "START")
  /\ IF at = Len(Order) THEN Goto("select", 1) /\ waiting' = Range(Clients)
                        ELSE Goto("start", at + 1) /\ UNCHANGED waiting
  /\ UNCHANGED <<made, to_read, results, printed, asked, conn, over, toC>>

-----------------------------------------------------------------------------
(* Collecting *)

\* main() is in unmarshall() of daemon d.
Collects(d) == \/ step = "read" /\ d \in to_read
               \/ step = "target_data" /\ Current(Targets, d)

\* unmarshall() of daemon d; next says where main() goes on success.
Unmarshall(d, next) ==
  \E code \in Codes :
    /\ Receive(d, code)
    /\ \/ /\ code = "220"
          /\ results' = results \cup {d}
          /\ next
       \/ /\ code \notin {"220", "cut"}
          /\ Raise
          /\ UNCHANGED <<waiting, to_read, results>>
    /\ UNCHANGED <<made, printed, asked, conn, over, toD>>

\* Mutant: the end of a connection is not noticed.
SelectDataOnly ==
  /\ step = "select"
  /\ to_read' = {c \in waiting : toC[c] # << >>}
  /\ Goto(IF to_read' = {} THEN "poll" ELSE "read", 1)
  /\ UNCHANGED <<made, waiting, results, printed, asked, net, over>>

\* The first select(), over the clients that have not reported.
Select ==
  /\ step = "select"
  /\ to_read' = {c \in waiting : Readable(c)}
  /\ Goto(IF to_read' = {} THEN "poll" ELSE "read", 1)
  /\ UNCHANGED <<made, waiting, results, printed, asked, net, over>>

\* Mutant: the client that was read stays in the list select() returned.
ReadClientAgain(d) ==
  /\ step = "read" /\ d \in to_read
  /\ Unmarshall(d, /\ waiting' = waiting \ {d}
                   /\ Goto(IF waiting' = {} THEN "poll" ELSE "read", 1)
                   /\ UNCHANGED to_read)

ReadClient(d) ==
  /\ step = "read" /\ d \in to_read
  /\ Unmarshall(d, /\ waiting' = waiting \ {d}
                   /\ to_read' = to_read \ {d}
                   /\ Goto(IF to_read' = {} THEN "poll" ELSE "read", 1))

\* Mutant: the first client to report ends the measurement.
PollTargetsOnce ==
  /\ step = "poll"
  /\ IF \E t \in Range(Targets) : Readable(t) THEN Raise
     ELSE IF waiting = Range(Clients) THEN Goto("select", 1)
     ELSE IF Targets # << >> THEN Goto("stop", 1) ELSE Goto("output", 1)
  /\ UNCHANGED <<loop, results, printed, asked, net, over>>

\* The second select(): before STOP a target has nothing to say but an error.
PollTargets ==
  /\ step = "poll"
  /\ IF \E t \in Range(Targets) : Readable(t) THEN Raise
     ELSE IF waiting # {} THEN Goto("select", 1)
     ELSE IF Targets # << >> THEN Goto("stop", 1) ELSE Goto("output", 1)
  /\ UNCHANGED <<loop, results, printed, asked, net, over>>

Stop(d) ==
  /\ step = "stop" /\ Current(Targets, d)
  /\ SendTo(d, "STOP")
  /\ Goto("target_data", at)
  /\ UNCHANGED <<loop, results, printed, asked, conn, over, toC>>

TargetData(d) ==
  /\ step = "target_data" /\ Current(Targets, d)
  /\ Unmarshall(d, /\ IF at = Len(Targets) THEN Goto("output", 1) ELSE Goto("stop", at + 1)
                   /\ UNCHANGED <<waiting, to_read>>)

\* The rest of a reply does not come: without its length re.match() returns None,
\* an AttributeError; without all of its data the loop over recv() never ends.
CutShort(d) ==
  /\ Collects(d)
  /\ toC[d] # << >> /\ Head(toC[d]) = "cut"
  /\ \/ Exits
     \/ /\ Goto("spinning", at)
        /\ UNCHANGED <<loop, results, printed, asked, net, over>>

\* The plugin's unmarshall(), or an output(), returns an error: a RuntimeError.
PluginFails ==
  /\ \/ step = "output"
     \/ \E d \in Daemons : /\ Collects(d)
                           /\ toC[d] # << >> /\ Head(toC[d]) = "220"
  /\ Exits

Output ==
  /\ step = "output"
  /\ printed' = TRUE
  /\ Goto("close", 1)
  /\ UNCHANGED <<loop, results, asked, net, over>>

-----------------------------------------------------------------------------
(* Closing *)

\* QUIT and close; a daemon whose turn never came has no "testobj": KeyError.
Close(d) ==
  /\ step = "close" /\ Current(CloseOrder, d)
  /\ \/ /\ d \notin made
        /\ Exits
     \/ /\ d \in made
        /\ SendTo(d, "QUIT")
        /\ conn' = [conn EXCEPT ![d] = "closed"]
        /\ Goto("close", at + 1)
        /\ UNCHANGED <<loop, results, printed, asked, over, toC>>

Closed ==
  /\ step = "close" /\ at = Len(CloseOrder) + 1
  /\ Exits

\* A daemon's end is closed and nothing is left to read: recv() returns "" and
\* int("") raises ValueError, which nobody catches.
NoAnswer(d) ==
  /\ d \in over /\ toC[d] = << >>
  /\ \/ step \in {"banner", "hello", "load", "setup"} /\ Current(Order, d)
     \/ Collects(d)
  /\ Exits

\* A send to a closed end may raise ConnectionError, which nobody catches.
SendFails(d) ==
  /\ d \in over
  /\ \/ step = "start" /\ Current(Order, d)
     \/ step = "stop" /\ Current(Targets, d)
     \/ step = "close" /\ Current(CloseOrder, d)
  /\ Exits

CNext ==
  \/ \E d \in Daemons :
       \/ AskAbort(d) \/ Connect(d) \/ ConnectRefused(d)
       \/ Banner(d) \/ Hello(d) \/ Load(d) \/ NoTestTarget(d) \/ SetupAnswered(d)
       \/ Start(d) \/ ReadClient(d) \/ Stop(d) \/ TargetData(d) \/ Close(d)
       \/ CutShort(d) \/ NoAnswer(d) \/ SendFails(d)
  \/ Select \/ PollTargets \/ Output \/ PluginFails \/ Closed
=============================================================================

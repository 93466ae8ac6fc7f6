------------------------ MODULE IpbenchSystemProofs ------------------------
(***************************************************************************)
(* Proofs about IpbenchSystem, for any number of targets and clients: the  *)
(* words that are in flight are always ones their reader knows, and a run  *)
(* of ipbench is an Experiment.                                            *)
(***************************************************************************)
EXTENDS IpbenchSystem, TLAPS

-----------------------------------------------------------------------------
(* The inductive invariant *)

\* The one element of sequence s is x.
Only(s, x) == Len(s) = 1 /\ s[1] = x

\* Handlers that accepted SETUP, whatever became of them.
Passed == {"run", "forked", "testing", "marshall", "report", "done", "lost", "failed"}

HasReported(d) == sess[d] \in {"report", "done", "lost"}

\* Its turn has not come.
Fresh(d) ==
  /\ conn[d] = "none" /\ child[d] = "none" /\ sess[d] = "none"
  /\ Len(toD[d]) = 0 /\ Len(toC[d]) = 0

\* A word was sent to a handler in state from: either it is on its way, or the
\* handler is in state to and its answer is on the way, or the session is over.
Awaited(d, from, word, to, code) ==
  /\ conn[d] = "open" /\ child[d] = "none"
  /\ \/ sess[d] = from /\ Only(toD[d], word) /\ Len(toC[d]) = 0
     \/ sess[d] = to /\ Len(toD[d]) = 0 /\ Only(toC[d], code)
     \/ /\ sess[d] \in {"refused", "failed"} /\ Len(toC[d]) \in {0, 1}
        /\ to = "run" /\ Only(toC[d], "200") => sess[d] = "failed"

\* Nobody sends a word for the banner.
AwaitsBanner(d) ==
  /\ conn[d] = "open" /\ child[d] = "none" /\ Len(toD[d]) = 0
  /\ \/ sess[d] = "none" /\ Len(toC[d]) = 0
     \/ sess[d] = "listen" /\ Only(toC[d], "100")

Ready(d) ==
  /\ conn[d] = "open" /\ child[d] = "none"
  /\ (sess[d] = "run" /\ Len(toD[d]) = 0) \/ sess[d] = "failed"

\* START was sent, and nothing after it.
Started(d) ==
  /\ sess[d] \in Passed
  /\ sess[d] = "run" => child[d] = "none" /\ Only(toD[d], "START")
  /\ child[d] = "reading" => Len(toD[d]) = 0

SettingUp == {"connect", "banner", "hello", "load", "setup"}
Collecting == {"select", "read", "poll"}

\* Where main() is tells how far each daemon can be.
Stage(i) ==
  LET d == Order[i] IN
    /\ step \in SettingUp => /\ i < at => Ready(d)
                             /\ i > at => Fresh(d)
    /\ step = "connect" /\ i = at => Fresh(d)
    /\ step = "banner" /\ i = at => AwaitsBanner(d)
    /\ step = "hello" /\ i = at => Awaited(d, "listen", "HELLO", "setup", "200")
    /\ step = "load" /\ i = at => Awaited(d, "setup", "LOAD", "loaded", "200")
    /\ step = "setup" /\ i = at => Awaited(d, "loaded", "SETUP", "run", "200")
    /\ step = "start" => /\ i < at => Started(d)
                         /\ i >= at => Ready(d)
    /\ step \in Collecting => Started(d)
    /\ step = "stop" /\ i >= at /\ i <= Len(Targets) => Started(d)
    /\ step = "target_data" /\ i > at /\ i <= Len(Targets) => Started(d)

Stages == \A i \in 1 .. Len(Order) : Stage(i)

\* What may be in the socket of a daemon: QUITs behind at most one word for the
\* state the handler is in, and behind a START one STOP.
Word(s) == CASE s = "listen" -> "HELLO"
             [] s = "setup"  -> "LOAD"
             [] s = "loaded" -> "SETUP"
             [] s = "run"    -> "START"

Queue(d) ==
  /\ sess[d] \in Waiting \cup {"none"} => child[d] = "none"
  /\ \A i \in 1 .. Len(toD[d]) :
       /\ sess[d] = "none" => toD[d][i] = "QUIT"
       /\ sess[d] \in Waiting => \/ toD[d][i] = "QUIT"
                                 \/ i = 1 /\ toD[d][i] = Word(sess[d])
                                 \/ i = 2 /\ sess[d] = "run" /\ toD[d][i] = "STOP"
                                          /\ toD[d][1] = "START"
       /\ child[d] = "reading" => \/ toD[d][i] = "QUIT"
                                  \/ i = 1 /\ toD[d][i] = "STOP"

Queues == \A d \in Daemons : Queue(d)

\* The flag is this handler's only after HELLO.
Claims == \A d \in Daemons : sess[d] \in {"none", "listen"} => claimed[d] # "own"

\* Only targets fork.
Children ==
  \A d \in Daemons : child[d] # "none" \/ sess[d] = "forked" => d \in TargetSet

\* START is sent when everybody has accepted SETUP.
Barrier ==
  \A d \in Daemons : \A i \in 1 .. Len(toD[d]) :
    toD[d][i] = "START" => \A e \in Daemons : sess[e] \in Passed

\* Data comes from handlers that have reported.
DataReported ==
  \A d \in Daemons :
    /\ \A i \in 1 .. Len(toC[d]) : toC[d][i] = "220" => HasReported(d)
    /\ d \in results => HasReported(d)

\* Once a target was told to stop, every client has reported.
StopSent ==
  \/ step \in {"stop", "target_data", "output"}
  \/ stopped # {}
  \/ \E d \in Daemons : \E i \in 1 .. Len(toD[d]) : toD[d][i] = "STOP"
  \/ \E d \in TargetSet : sess[d] = "marshall"

LastCall == StopSent => \A c \in ClientSet : HasReported(c)

\* Whose data main() has.
Collected ==
  /\ step \in Collecting => \A c \in ClientSet \ waiting : c \in results
  /\ step \in {"stop", "target_data"} => \A j \in 1 .. Len(Targets) :
                                           j < at => Targets[j] \in results
  /\ step = "output" => \A t \in TargetSet : t \in results

IndInv == /\ TypeOK /\ Children /\ Stages /\ Queues /\ Claims
          /\ Barrier /\ DataReported /\ LastCall /\ Collected

-----------------------------------------------------------------------------
(* Sequences, and the two orders of the daemons *)

\* Sending puts a message at the end.
LEMMA AppendFacts ==
  ASSUME NEW S, NEW s \in Seq(S), NEW x \in S
  PROVE  /\ Append(s, x) \in Seq(S)
         /\ Len(Append(s, x)) = Len(s) + 1
         /\ \A i \in 1 .. Len(s) : Append(s, x)[i] = s[i]
         /\ Append(s, x)[Len(s) + 1] = x
  OBVIOUS

\* Receiving takes the first message away.
LEMMA TailFacts ==
  ASSUME NEW S, NEW s \in Seq(S), s # << >>
  PROVE  /\ Tail(s) \in Seq(S)
         /\ Len(s) \in Nat \ {0}
         /\ Len(Tail(s)) = Len(s) - 1
         /\ \A i \in 1 .. Len(s) - 1 : Tail(s)[i] = s[i + 1]
         /\ Head(s) = s[1]
         /\ Head(s) \in S
  OBVIOUS

\* Order and CloseOrder list the same daemons, the targets first or last.
LEMMA OrderFacts ==
  /\ Len(Targets) \in Nat /\ Len(Clients) \in Nat \ {0}
  /\ Len(Order) = Len(Targets) + Len(Clients)
  /\ Len(CloseOrder) = Len(Order)
  /\ \A i \in 1 .. Len(Targets) : Targets[i] \in TargetSet /\ Order[i] = Targets[i]
  /\ \A i \in 1 .. Len(Order) : Order[i] \in Daemons
<1>1. Targets \in Seq(Daemons) /\ Clients \in Seq(Daemons)
  BY TargetsAssumption, ClientsAssumption DEF Daemons
<1>2. /\ Len(Targets) \in Nat /\ Len(Clients) \in Nat
      /\ DOMAIN Targets = 1 .. Len(Targets) /\ DOMAIN Clients = 1 .. Len(Clients)
  BY <1>1
<1>3. Len(Clients) # 0
  BY <1>1, ClientsAssumption
<1>4. /\ Order \in Seq(Daemons) /\ CloseOrder \in Seq(Daemons)
      /\ Len(Order) = Len(Targets) + Len(Clients)
      /\ Len(CloseOrder) = Len(Targets) + Len(Clients)
  BY <1>1, <1>2 DEF Order, CloseOrder
<1>5. \A i \in 1 .. Len(Targets) : Targets[i] \in TargetSet /\ Order[i] = Targets[i]
  BY <1>1, <1>2 DEF Order, TargetSet, Range
<1>6. \A i \in 1 .. Len(Order) : Order[i] \in Daemons
  BY <1>4
<1>7. QED
  BY <1>2, <1>3, <1>4, <1>5, <1>6

\* Every daemon has one place in the order.
LEMMA PlaceInOrder ==
  /\ \A d \in Daemons : \E i \in 1 .. Len(Order) : Order[i] = d
  /\ \A i, j \in 1 .. Len(Order) : Order[i] = Order[j] => i = j
<1>1. Targets \in Seq(Daemons) /\ Clients \in Seq(Daemons)
  BY TargetsAssumption, ClientsAssumption DEF Daemons
<1>2. /\ Len(Targets) \in Nat /\ Len(Clients) \in Nat
      /\ DOMAIN Targets = 1 .. Len(Targets) /\ DOMAIN Clients = 1 .. Len(Clients)
      /\ Len(Order) = Len(Targets) + Len(Clients)
  BY <1>1 DEF Order
<1>3. \A i \in 1 .. Len(Order) :
        Order[i] = IF i <= Len(Targets) THEN Targets[i] ELSE Clients[i - Len(Targets)]
  BY <1>1, <1>2 DEF Order
<1>4. ASSUME NEW d \in Daemons
      PROVE  \E i \in 1 .. Len(Order) : Order[i] = d
  <2>1. CASE \E j \in 1 .. Len(Targets) : d = Targets[j]
    BY <2>1, <1>2, <1>3
  <2>2. CASE \E j \in 1 .. Len(Clients) : d = Clients[j]
    <3>1. PICK j \in 1 .. Len(Clients) : d = Clients[j]
      BY <2>2
    <3>2. /\ j + Len(Targets) \in 1 .. Len(Order)
          /\ ~ (j + Len(Targets) <= Len(Targets))
          /\ (j + Len(Targets)) - Len(Targets) = j
      BY <1>2
    <3>3. QED
      BY <3>1, <3>2, <1>3
  <2>3. QED
    BY <2>1, <2>2, <1>2 DEF Daemons, Range
<1>5. ASSUME NEW i \in 1 .. Len(Order), NEW j \in 1 .. Len(Order), Order[i] = Order[j]
      PROVE  i = j
  <2>1. \A a \in 1 .. Len(Targets), b \in 1 .. Len(Clients) : Targets[a] # Clients[b]
    BY <1>2, DistinctAssumption DEF Range
  <2>2. CASE i <= Len(Targets) /\ j <= Len(Targets)
    BY <2>2, <1>2, <1>3, <1>5, DistinctAssumption DEF IsInjective
  <2>3. CASE i > Len(Targets) /\ j > Len(Targets)
    <3>1. /\ i - Len(Targets) \in 1 .. Len(Clients) /\ j - Len(Targets) \in 1 .. Len(Clients)
          /\ Clients[i - Len(Targets)] = Clients[j - Len(Targets)]
      BY <2>3, <1>2, <1>3, <1>5
    <3>2. i - Len(Targets) = j - Len(Targets)
      BY <3>1, <1>2, DistinctAssumption DEF IsInjective
    <3>3. QED
      BY <3>2, <1>2
  <2>4. CASE i <= Len(Targets) /\ j > Len(Targets)
    <3>1. j - Len(Targets) \in 1 .. Len(Clients) /\ Targets[i] = Clients[j - Len(Targets)]
      BY <2>4, <1>2, <1>3, <1>5
    <3>2. QED
      BY <3>1, <2>1, <2>4
  <2>5. CASE i > Len(Targets) /\ j <= Len(Targets)
    <3>1. i - Len(Targets) \in 1 .. Len(Clients) /\ Targets[j] = Clients[i - Len(Targets)]
      BY <2>5, <1>2, <1>3, <1>5
    <3>2. QED
      BY <3>1, <2>1, <2>5
  <2>6. QED
    BY <2>2, <2>3, <2>4, <2>5, <1>2
<1>6. QED
  BY <1>4, <1>5

-----------------------------------------------------------------------------
(* Types *)

\* A word sent, or a code received, leaves sequences behind.
LEMMA SendTypes ==
  ASSUME TypeOK, NEW d \in Daemons, NEW w \in Commands, SendTo(d, w)
  PROVE  toD' \in [Daemons -> Seq(Commands)]
  BY AppendFacts DEF TypeOK, CTypeOK, SendTo

LEMMA ReceiveTypes ==
  ASSUME TypeOK, NEW d \in Daemons, NEW c, Receive(d, c)
  PROVE  toC' \in [Daemons -> Seq(Codes)] /\ c \in Codes
  BY TailFacts DEF TypeOK, CTypeOK, Receive

LEMMA ReadsTypes ==
  ASSUME TypeOK, NEW d \in Daemons, NEW w, Reads(d, w)
  PROVE  toD' \in [Daemons -> Seq(Commands)]
  BY TailFacts DEF TypeOK, CTypeOK, Reads

LEMMA AnswersTypes ==
  ASSUME TypeOK, NEW d \in Daemons, NEW c \in Codes, Answers(d, c)
  PROVE  toC' \in [Daemons -> Seq(Codes)]
  BY AppendFacts DEF TypeOK, CTypeOK, Answers

\* main() keeps the types.
LEMMA ControllerTypes == TypeOK /\ CNext => CTypeOK'
<1> SUFFICES ASSUME TypeOK, CNext PROVE CTypeOK'
  OBVIOUS
<1>0. /\ Len(Order) \in Nat \ {0} /\ Len(CloseOrder) = Len(Order)
      /\ Len(Targets) \in Nat /\ Len(Targets) < Len(Order)
  BY OrderFacts
<1> USE <1>0
<1>a. ASSUME Exits PROVE CTypeOK'
  BY <1>a DEF Exits, Goto, TypeOK, CTypeOK, loop
<1>1. ASSUME NEW d \in Daemons, AskAbort(d)
      PROVE  CTypeOK'
  BY <1>1 DEF AskAbort, TypeOK, CTypeOK, net
<1>1b. ASSUME NEW d \in Daemons, Connect(d)
      PROVE  CTypeOK'
  BY <1>1b DEF Connect, Current, Goto, TypeOK, CTypeOK
<1>2. ASSUME NEW d \in Daemons, NEW f, NEW n \in {"hello", "load", "setup"},
             NEW w \in {"HELLO", "LOAD", "SETUP"}, Proceed(d, f, n, w)
      PROVE  CTypeOK'
  <2>1. PICK code \in Codes : Receive(d, code) /\ (SendTo(d, w) \/ UNCHANGED toD)
    BY <1>2 DEF Proceed
  <2>2. toD' \in [Daemons -> Seq(Commands)]
    BY <2>1, SendTypes DEF TypeOK, CTypeOK, Commands
  <2>3. toC' \in [Daemons -> Seq(Codes)]
    BY <2>1, ReceiveTypes
  <2>4. QED
    BY <1>2, <2>2, <2>3 DEF Proceed, Raise, Goto, TypeOK, CTypeOK, loop
<1>3. ASSUME NEW d \in Daemons, SetupAnswered(d) \/ NoTestTarget(d)
      PROVE  CTypeOK'
  <2>1. toC' \in [Daemons -> Seq(Codes)]
    BY <1>3, ReceiveTypes DEF SetupAnswered, NoTestTarget
  <2>2. QED
    BY <1>3, <2>1 DEF SetupAnswered, NoTestTarget, Current, Raise, Goto, TypeOK, CTypeOK, loop
<1>4. ASSUME NEW d \in Daemons, Start(d) \/ Stop(d)
      PROVE  CTypeOK'
  <2>1. toD' \in [Daemons -> Seq(Commands)]
    BY <1>4, SendTypes DEF Start, Stop, Commands
  <2>2. QED
    BY <1>4, <2>1 DEF Start, Stop, Current, Goto, TypeOK, CTypeOK, loop, Daemons
<1>5. ASSUME NEW d \in Daemons, ReadClient(d) \/ TargetData(d)
      PROVE  CTypeOK'
  <2>1. toC' \in [Daemons -> Seq(Codes)]
    BY <1>5, ReceiveTypes DEF ReadClient, TargetData, Unmarshall
  <2>2. QED
    <3>1. CASE ReadClient(d)
      BY <3>1, <2>1 DEF ReadClient, Unmarshall, Raise, Goto, TypeOK, CTypeOK
    <3>2. CASE TargetData(d)
      <4>1. at' \in 1 .. Len(Order) + 1
        BY <3>2 DEF TargetData, Unmarshall, Current, Raise, Goto, TypeOK, CTypeOK
      <4>2. QED
        BY <3>2, <2>1, <4>1 DEF TargetData, Unmarshall, Raise, Goto, TypeOK, CTypeOK
    <3>3. QED
      BY <1>5, <3>1, <3>2
<1>6. ASSUME NEW d \in Daemons, Close(d), d \in made
      PROVE  CTypeOK'
  <2>1. CASE SendTo(d, "QUIT")
    <3>1. toD' \in [Daemons -> Seq(Commands)]
      BY <2>1, SendTypes DEF Commands
    <3>2. at' \in 1 .. Len(Order) + 1
      BY <1>6 DEF Close, Current, Goto, TypeOK, CTypeOK
    <3>3. QED
      BY <1>6, <3>1, <3>2 DEF Close, Goto, TypeOK, CTypeOK, loop
  <2>2. QED
    BY <1>6, <2>1 DEF Close
<1>7. ASSUME Select \/ PollTargets \/ Output
      PROVE  CTypeOK'
  <2>1. CASE Select
    BY <2>1 DEF Select, Goto, TypeOK, CTypeOK, net
  <2>2. CASE PollTargets
    BY <2>2 DEF PollTargets, Raise, Goto, TypeOK, CTypeOK, loop, net
  <2>3. CASE Output
    BY <2>3 DEF Output, Goto, TypeOK, CTypeOK, loop, net
  <2>4. QED
    BY <1>7, <2>1, <2>2, <2>3
<1>8. QED
  <2>1. ASSUME NEW d \in Daemons,
               ConnectRefused(d) \/ NoAnswer(d) \/ SendFails(d)
               \/ (Close(d) /\ d \notin made)
        PROVE  CTypeOK'
    BY <2>1, <1>a DEF ConnectRefused, NoAnswer, SendFails, Close
  <2>2. ASSUME NEW d \in Daemons, Banner(d) \/ Hello(d) \/ Load(d)
        PROVE  CTypeOK'
    BY <2>2, <1>2 DEF Banner, Hello, Load
  <2>3. CASE Closed \/ PluginFails
    BY <2>3, <1>a DEF Closed, PluginFails
  <2>4. ASSUME NEW d \in Daemons, CutShort(d)
        PROVE  CTypeOK'
    <3>1. CASE Exits
      BY <3>1, <1>a
    <3>2. CASE Goto("spinning", at) /\ UNCHANGED <<loop, results, printed, asked, net, over>>
      BY <3>2 DEF Goto, TypeOK, CTypeOK, loop, net
    <3>3. QED
      BY <2>4, <3>1, <3>2 DEF CutShort
  <2>5. QED
    BY <1>1, <1>1b, <1>3, <1>4, <1>5, <1>6, <1>7, <2>1, <2>2, <2>3, <2>4 DEF CNext

\* So do the daemons.
LEMMA DaemonTypes ==
  ASSUME TypeOK, Children, NEW d \in Daemons, Daemon(d) \/ Killed(d)
  PROVE  TypeOK'
<1> USE DEF Waiting, Ended
<1>a. ASSUME NEW w, Reads(d, w) PROVE toD' \in [Daemons -> Seq(Commands)]
  BY <1>a, ReadsTypes
<1>b. ASSUME NEW c \in Codes, Answers(d, c) PROVE toC' \in [Daemons -> Seq(Codes)]
  BY <1>b, AnswersTypes
<1>c. "100" \in Codes /\ "200" \in Codes /\ "220" \in Codes /\ "cut" \in Codes
      /\ "222" \in Codes /\ "421" \in Codes /\ "451" \in Codes
  BY DEF Codes
<1>d. ASSUME Ends(d) \/ Dies(d)
      PROVE  /\ sess' \in [Daemons -> Waiting \cup Ended \cup
                                     {"none", "forked", "testing", "marshall", "report"}]
             /\ over' \subseteq Daemons
  BY <1>d DEF Ends, Dies, Gone, Becomes, TypeOK, CTypeOK
<1>e. ASSUME Dies(d) PROVE toC' \in [Daemons -> Seq(Codes)]
  BY <1>b, <1>c, <1>e DEF Dies, TypeOK, CTypeOK
<1>1. CASE Accepted(d)
  <2>1. toC' \in [Daemons -> Seq(Codes)]
    BY <1>1, <1>b, <1>c DEF Accepted
  <2>2. QED
    BY <1>1, <2>1 DEF Accepted, Becomes, Controlled, TypeOK, CTypeOK, loop
<1>2. CASE TakesHello(d)
  <2>1. toD' \in [Daemons -> Seq(Commands)] /\ toC' \in [Daemons -> Seq(Codes)]
    BY <1>2, <1>a, <1>b, <1>c DEF TakesHello, Takes, Okay
  <2>2. QED
    BY <1>2, <2>1 DEF TakesHello, Takes, Okay, Ends, Gone, Becomes, Controlled, TypeOK,
       CTypeOK, loop
<1>3. CASE TakesLoad(d) \/ TakesSetup(d)
  <2>1. toD' \in [Daemons -> Seq(Commands)] /\ toC' \in [Daemons -> Seq(Codes)]
    BY <1>3, <1>a, <1>b, <1>c DEF TakesLoad, TakesSetup, Takes, Okay, Error
  <2>2. UNCHANGED Controlled
    BY <1>3 DEF TakesLoad, TakesSetup, Takes
  <2>3. CASE \E st \in {"loaded", "run"} : Okay(d, st) /\ UNCHANGED claimed
    BY <2>1, <2>2, <2>3 DEF Okay, Becomes, Controlled, TypeOK, CTypeOK, loop
  <2>4. CASE Error(d, "451")
    BY <2>1, <2>2, <2>4, <1>d DEF Error, Frees, Controlled, TypeOK, CTypeOK, loop
  <2>5. QED
    BY <1>3, <2>3, <2>4 DEF TakesLoad, TakesSetup
<1>4. CASE TakesQuit(d)
  <2>1. toD' \in [Daemons -> Seq(Commands)] /\ toC' \in [Daemons -> Seq(Codes)]
    BY <1>4, <1>a, <1>b, <1>c DEF TakesQuit, Takes, Error
  <2>2. QED
    BY <1>4, <2>1 DEF TakesQuit, Takes, Error, Frees, Ends, Gone, Becomes,
                      Controlled, TypeOK, CTypeOK, loop
<1>5. CASE Marshall(d)
  <2>1. toC' \in [Daemons -> Seq(Codes)]
    BY <1>5, <1>b, <1>c DEF Marshall, Error
  <2>2. QED
    BY <1>5, <2>1 DEF Marshall, Error, Frees, Ends, Gone, Becomes,
                      Controlled, TypeOK, CTypeOK, loop
<1>6. CASE Reported(d) \/ ConnectionLost(d) \/ Killed(d)
  <2>1. /\ Ends(d) \/ Dies(d)
        /\ toC' = toC \/ Dies(d)
        /\ UNCHANGED <<Controlled, toD, child, stopped>>
        /\ Frees(d) \/ UNCHANGED claimed
    BY <1>6 DEF Reported, ConnectionLost, Killed
  <2>2. toC' \in [Daemons -> Seq(Codes)]
    BY <2>1, <1>e DEF TypeOK, CTypeOK
  <2>3. QED
    BY <2>1, <2>2, <1>d DEF Frees, Controlled, TypeOK, CTypeOK, loop
<1>7. CASE Aborts(d)
  <2>1. /\ Dies(d) \/ UNCHANGED <<sess, over, toC>>
        /\ Frees(d) \/ UNCHANGED claimed
        /\ UNCHANGED <<step, at, loop, results, printed, asked, conn, toD, child, stopped>>
    BY <1>7 DEF Aborts
  <2>2. /\ toC' \in [Daemons -> Seq(Codes)] /\ over' \subseteq Daemons
        /\ sess' \in [Daemons -> Waiting \cup Ended \cup
                                 {"none", "forked", "testing", "marshall", "report"}]
    BY <2>1, <1>d, <1>e DEF TypeOK, CTypeOK
  <2>3. aborted' \in [Daemons -> {"none", "over", "own"}]
    BY <1>7 DEF Aborts, TypeOK
  <2>4. claimed' \in [Daemons -> {"free", "own", "other"}]
    BY <2>1 DEF Frees, TypeOK
  <2>5. QED
    BY <2>1, <2>2, <2>3, <2>4 DEF TypeOK, CTypeOK, loop
<1>8. CASE ClientStart(d) \/ TargetStart(d)
  <2>1. toD' \in [Daemons -> Seq(Commands)]
    BY <1>8, <1>a DEF ClientStart, TargetStart, Takes
  <2>2. /\ sess' \in [Daemons -> Waiting \cup Ended \cup
                                 {"none", "forked", "testing", "marshall", "report"}]
        /\ child' \in [Daemons -> {"none", "reading", "gone"}]
    BY <1>8 DEF ClientStart, TargetStart, Becomes, TypeOK
  <2>3. UNCHANGED <<Controlled, over, toC, stopped, claimed>>
    BY <1>8 DEF ClientStart, TargetStart, Takes
  <2>4. QED
    BY <2>1, <2>2, <2>3 DEF Controlled, TypeOK, CTypeOK, loop
<1>9. CASE ClientTestEnds(d)
  <2>1. CASE Becomes(d, "marshall") /\ UNCHANGED <<over, toC, child, stopped, claimed>>
    BY <1>9, <2>1 DEF ClientTestEnds, Becomes, Controlled, TypeOK, CTypeOK, loop
  <2>2. CASE Error(d, "451")
    <3>1. toC' \in [Daemons -> Seq(Codes)]
      BY <2>2, <1>b, <1>c DEF Error, TypeOK, CTypeOK
    <3>2. UNCHANGED <<Controlled, toD>>
      BY <1>9 DEF ClientTestEnds
    <3>3. QED
      BY <2>2, <3>1, <3>2 DEF Error, Frees, Ends, Gone, Becomes, Controlled, TypeOK, CTypeOK,
                              loop
  <2>3. QED
    BY <1>9, <2>1, <2>2 DEF ClientTestEnds
<1>10. CASE TargetTestBegins(d)
  <2>1. toC' \in [Daemons -> Seq(Codes)]
    BY <1>10, <1>b, <1>c DEF TargetTestBegins, TypeOK, CTypeOK
  <2>2. /\ sess' \in [Daemons -> Waiting \cup Ended \cup
                                 {"none", "forked", "testing", "marshall", "report"}]
        /\ child' \in [Daemons -> {"none", "reading", "gone"}]
        /\ claimed' \in [Daemons -> {"free", "own", "other"}]
        /\ over' \subseteq Daemons
    <3>1. sess' \in [Daemons -> Waiting \cup Ended \cup
                               {"none", "forked", "testing", "marshall", "report"}]
      <4>1. Becomes(d, "testing") \/ Becomes(d, "failed")
        BY <1>10 DEF TargetTestBegins
      <4>2. QED
        BY <4>1 DEF Becomes, TypeOK
    <3>2. child' \in [Daemons -> {"none", "reading", "gone"}]
      <4>1. child' = child \/ child' = [child EXCEPT ![d] = "gone"]
        BY <1>10 DEF TargetTestBegins
      <4>2. QED
        BY <4>1 DEF TypeOK
    <3>3. claimed' \in [Daemons -> {"free", "own", "other"}]
      <4>1. claimed' = claimed \/ Frees(d)
        BY <1>10 DEF TargetTestBegins
      <4>2. QED
        BY <4>1 DEF Frees, TypeOK
    <3>4. over' \subseteq Daemons
      <4>1. over' = over \/ over' = over \cup {d}
        BY <1>10 DEF TargetTestBegins
      <4>2. QED
        BY <4>1 DEF TypeOK, CTypeOK
    <3>5. QED
      BY <3>1, <3>2, <3>3, <3>4
  <2>3. UNCHANGED <<Controlled, toD, stopped>>
    BY <1>10 DEF TargetTestBegins
  <2>4. QED
    BY <2>1, <2>2, <2>3 DEF Controlled, TypeOK, CTypeOK, loop
<1>11. CASE TargetTestEnds(d)
  BY <1>11 DEF TargetTestEnds, Gone, Becomes, Controlled, TypeOK, CTypeOK, loop
<1>12. CASE ChildStop(d)
  <2>1. toD' \in [Daemons -> Seq(Commands)]
    BY <1>12, <1>a DEF ChildStop
  <2>2. d \in TargetSet
    BY <1>12 DEF ChildStop, Children
  <2>3. QED
    BY <1>12, <2>1, <2>2 DEF ChildStop, ChildExits, Controlled, TypeOK, CTypeOK, loop
<1>13. CASE ChildQuit(d) \/ ChildLost(d)
  <2>1. toD' \in [Daemons -> Seq(Commands)] /\ toC' \in [Daemons -> Seq(Codes)]
    BY <1>13, <1>a, <1>b, <1>c DEF ChildQuit, ChildLost, TypeOK, CTypeOK
  <2>2. QED
    BY <1>13, <2>1 DEF ChildQuit, ChildLost, ChildExits, Frees, Controlled, TypeOK, CTypeOK,
                       loop
<1>14. QED
  BY <1>1, <1>2, <1>3, <1>4, <1>5, <1>6, <1>7, <1>8, <1>9, <1>10, <1>11, <1>12, <1>13
     DEF Daemon, Progress

-----------------------------------------------------------------------------
(* What a step of a daemon does to its own handler, child and sockets.  The *)
(* invariants are shown to survive these effects, not each action.          *)

GetsWord(d, w) == toD[d] # << >> /\ toD[d][1] = w /\ toD'[d] = Tail(toD[d])
Silent(d) == toC'[d] = toC[d]
Tells(d, code) == toC'[d] = IF conn[d] = "open" THEN Append(toC[d], code) ELSE toC[d]

\* A command is answered with an error.
ReadsLast(d) == /\ \E w \in Commands : GetsWord(d, w)
                /\ \E code \in {"421", "451", "222"} : Tells(d, code)

\* The banner.
Greets(d) ==
  /\ sess[d] = "none" /\ sess'[d] = "listen" /\ conn[d] # "none"
  /\ toD'[d] = toD[d] /\ Tells(d, "100") /\ child'[d] = child[d]

\* A command of the set-up is answered with 200.
Agrees(d, from, w, to) ==
  /\ sess[d] = from /\ sess'[d] = to
  /\ GetsWord(d, w) /\ Tells(d, "200") /\ child'[d] = child[d]

\* The session ends before START was taken, or after.
Refuses(d) ==
  /\ sess[d] \in {"listen", "setup", "loaded"} /\ sess'[d] = "refused"
  /\ child'[d] = child[d]
  /\ \/ toD'[d] = toD[d] /\ Silent(d) /\ (sess[d] = "listen" => conn[d] = "closed")
     \/ ReadsLast(d)

Fails(d) ==
  /\ sess[d] \in {"run", "forked", "testing", "marshall"} /\ sess'[d] = "failed"
  /\ child'[d] = child[d] \/ (sess[d] = "forked" /\ child'[d] = "gone")
  /\ \/ /\ toD'[d] = toD[d]
        /\ Silent(d) \/ (sess[d] # "run" /\ \E code \in {"451", "cut"} : Tells(d, code))
     \/ sess[d] = "run" /\ ReadsLast(d)

Finishes(d) ==
  /\ sess[d] = "report" /\ sess'[d] \in {"done", "lost"}
  /\ toD'[d] = toD[d] /\ Silent(d) /\ child'[d] = child[d]

Begins(d) ==
  /\ sess[d] = "run" /\ GetsWord(d, "START") /\ Silent(d)
  /\ \/ sess'[d] = "testing" /\ child'[d] = child[d]
     \/ sess'[d] = "forked" /\ child'[d] = "reading" /\ d \in TargetSet

\* On to the test, to its end, and to the data.
Advances(d) ==
  /\ toD'[d] = toD[d] /\ child'[d] = child[d]
  /\ \/ sess[d] = "forked" /\ sess'[d] = "testing" /\ Silent(d)
     \/ /\ sess[d] = "testing" /\ sess'[d] = "marshall" /\ Silent(d)
        /\ d \in ClientSet \/ d \in stopped
     \/ /\ sess[d] = "marshall" /\ sess'[d] = "report"
        /\ Tells(d, "220")

ChildEnds(d) ==
  /\ sess'[d] = sess[d] /\ child[d] = "reading" /\ child'[d] = "gone"
  /\ toD'[d] = toD[d] \/ \E w \in Commands : GetsWord(d, w)
  /\ Silent(d) \/ Tells(d, "222")

Nothing(d) ==
  /\ sess'[d] = sess[d] /\ child'[d] = child[d]
  /\ toD'[d] = toD[d] /\ Silent(d)

Effect(d) ==
  \/ Greets(d)
  \/ Agrees(d, "listen", "HELLO", "setup") \/ Agrees(d, "setup", "LOAD", "loaded")
  \/ Agrees(d, "loaded", "SETUP", "run")
  \/ Refuses(d) \/ Fails(d) \/ Finishes(d) \/ Begins(d) \/ Advances(d)
  \/ ChildEnds(d) \/ Nothing(d)

\* The rest of the system looks on.
Frame(d) ==
  /\ UNCHANGED <<step, at, made, waiting, to_read, results, printed, conn>>
  /\ \A e \in Daemons \ {d} : /\ sess'[e] = sess[e] /\ child'[e] = child[e]
                              /\ toD'[e] = toD[e] /\ toC'[e] = toC[e]
                              /\ claimed'[e] = claimed[e]

LEMMA DaemonFrame ==
  ASSUME TypeOK, NEW d \in Daemons, Daemon(d) \/ Killed(d)
  PROVE  Frame(d)
<1> USE DEF Controlled, loop, net, Becomes
<1>0. /\ toD \in [Daemons -> Seq(Commands)] /\ toC \in [Daemons -> Seq(Codes)]
      /\ sess \in [Daemons -> Waiting \cup Ended \cup
                               {"none", "forked", "testing", "marshall", "report"}]
      /\ child \in [Daemons -> {"none", "reading", "gone"}]
      /\ claimed \in [Daemons -> {"free", "own", "other"}]
  BY DEF TypeOK, CTypeOK
<1>1. UNCHANGED <<step, at, made, waiting, to_read, results, printed, conn>>
  BY DEF Daemon, Progress, Accepted, TakesHello, TakesLoad, TakesSetup, TakesQuit, Takes,
     Marshall, Reported, ConnectionLost, ClientStart, ClientTestEnds, TargetStart,
     TargetTestBegins, TargetTestEnds, ChildStop, ChildQuit, ChildLost, Aborts, Killed
<1>2. \A e \in Daemons \ {d} : toD'[e] = toD[e]
  BY <1>0 DEF Daemon, Progress, Accepted, TakesHello, TakesLoad, TakesSetup, TakesQuit,
     Takes, Reads, Marshall, Reported, ConnectionLost, ClientStart, ClientTestEnds,
     TargetStart, TargetTestBegins, TargetTestEnds, ChildStop, ChildQuit, ChildLost, Aborts,
     Killed
<1>3. \A e \in Daemons \ {d} : toC'[e] = toC[e]
  BY <1>0 DEF Daemon, Progress, Accepted, TakesHello, TakesLoad, TakesSetup, TakesQuit,
     Answers, Okay, Dies, Error, Marshall, Reported, ConnectionLost, ClientStart,
     ClientTestEnds, TargetStart, TargetTestBegins, TargetTestEnds, ChildStop, ChildQuit,
     ChildLost, Aborts, Killed
<1>4. \A e \in Daemons \ {d} : sess'[e] = sess[e]
  BY <1>0 DEF Daemon, Progress, Accepted, TakesHello, TakesLoad, TakesSetup, TakesQuit, Ends,
     Dies, Gone, Okay, Error, Marshall, Reported, ConnectionLost, ClientStart,
     ClientTestEnds, TargetStart, TargetTestBegins, TargetTestEnds, ChildStop, ChildQuit,
     ChildLost, ChildExits, Aborts, Killed
<1>5. \A e \in Daemons \ {d} : child'[e] = child[e]
  BY <1>0 DEF Daemon, Progress, Accepted, TakesHello, TakesLoad, TakesSetup, TakesQuit, Okay,
         Error, Marshall, Reported, ConnectionLost, ClientStart, ClientTestEnds, TargetStart,
         TargetTestBegins, TargetTestEnds, ChildStop, ChildQuit, ChildLost, ChildExits,
         Aborts, Killed
<1>6. \A e \in Daemons \ {d} : claimed'[e] = claimed[e]
  BY <1>0 DEF Daemon, Progress, Accepted, TakesHello, TakesLoad, TakesSetup, TakesQuit, Okay,
     Frees, Error, Marshall, Reported, ConnectionLost, ClientStart, ClientTestEnds,
     TargetStart, TargetTestBegins, TargetTestEnds, ChildStop, ChildQuit, ChildLost, Aborts,
     Killed
<1>7. QED
  BY <1>1, <1>2, <1>3, <1>4, <1>5, <1>6 DEF Frame

\* A session that ends is refused, failed or reported, by the state it was in.
LEMMA GoneEffect ==
  ASSUME TypeOK, NEW d \in Daemons, NEW s \in {"done", "lost"}, Gone(d, s),
         sess[d] \notin Ended \cup {"none"},
         child'[d] = child[d],
         \/ toD'[d] = toD[d] /\ Silent(d) /\ (sess[d] = "listen" => conn[d] = "closed")
         \/ sess[d] \in Waiting /\ ReadsLast(d)
         \/ /\ sess[d] \in {"testing", "marshall"} /\ toD'[d] = toD[d]
            /\ \E code \in {"451", "cut"} : Tells(d, code)
  PROVE  Refuses(d) \/ Fails(d) \/ Finishes(d)
<1>1. sess'[d] = CASE sess[d] = "report" -> s
                   [] sess[d] \in {"run", "forked", "testing", "marshall"} -> "failed"
                   [] OTHER -> "refused"
  BY DEF Gone, Becomes, TypeOK
<1>2. sess[d] \in {"listen", "setup", "loaded", "run", "forked", "testing", "marshall", "report"}
  BY DEF TypeOK, Waiting, Ended
<1>3. CASE sess[d] \in {"listen", "setup", "loaded"}
  BY <1>1, <1>3 DEF Refuses
<1>4. CASE sess[d] \in {"run", "forked", "testing", "marshall"}
  BY <1>1, <1>4 DEF Fails, Waiting
<1>5. CASE sess[d] = "report"
  BY <1>1, <1>5 DEF Finishes, Waiting
<1>6. QED
  BY <1>2, <1>3, <1>4, <1>5

LEMMA EndsEffect ==
  ASSUME TypeOK, NEW d \in Daemons, Ends(d), sess[d] \notin Ended \cup {"none"},
         child'[d] = child[d],
         \/ toD'[d] = toD[d] /\ Silent(d) /\ (sess[d] = "listen" => conn[d] = "closed")
         \/ sess[d] \in Waiting /\ ReadsLast(d)
         \/ sess[d] \in {"testing", "marshall"} /\ toD'[d] = toD[d] /\ Tells(d, "451")
  PROVE  Refuses(d) \/ Fails(d) \/ Finishes(d)
  BY GoneEffect DEF Ends

\* SIGKILL, in the middle of the reply or elsewhere.
LEMMA DiesEffect ==
  ASSUME TypeOK, NEW d \in Daemons, Dies(d), sess[d] \notin Ended \cup {"none", "listen"},
         child'[d] = child[d], toD'[d] = toD[d]
  PROVE  Refuses(d) \/ Fails(d) \/ Finishes(d)
<1>1. Gone(d, "lost")
  BY DEF Dies
<1>2. CASE toC' = toC
  BY <1>1, <1>2, GoneEffect DEF Silent
<1>3. CASE sess[d] = "marshall" /\ Answers(d, "cut")
  <2>1. Tells(d, "cut")
    BY <1>3 DEF Answers, Tells, TypeOK, CTypeOK
  <2>2. QED
    BY <1>1, <1>3, <2>1, GoneEffect
<1>4. QED
  BY <1>2, <1>3 DEF Dies

\* Every step of a daemon has one of the effects above.
LEMMA DaemonEffect ==
  ASSUME TypeOK, Children, Claims, NEW d \in Daemons, Daemon(d) \/ Killed(d)
  PROVE  Effect(d)
<1> USE DEF Effect
<1>0. /\ toD \in [Daemons -> Seq(Commands)] /\ toC \in [Daemons -> Seq(Codes)]
      /\ sess \in [Daemons -> Waiting \cup Ended \cup
                               {"none", "forked", "testing", "marshall", "report"}]
      /\ child \in [Daemons -> {"none", "reading", "gone"}]
  BY DEF TypeOK, CTypeOK
<1>a. ASSUME NEW w \in Commands, Reads(d, w) PROVE GetsWord(d, w)
  BY <1>0, <1>a, TailFacts DEF Reads, GetsWord
<1>b. ASSUME NEW c, Answers(d, c) PROVE Tells(d, c)
  BY <1>0, <1>b DEF Answers, Tells
<1>c. ASSUME NEW st, Becomes(d, st) PROVE sess'[d] = st
  BY <1>0, <1>c DEF Becomes
<1>d. \A w \in {"HELLO", "LOAD", "SETUP", "START", "STOP", "QUIT"} : w \in Commands
  BY DEF Commands
<1>1. CASE Accepted(d)
  BY <1>1, <1>b, <1>c DEF Accepted, Greets, Controlled
<1>2. CASE TakesHello(d)
  <2>1. sess[d] = "listen" /\ GetsWord(d, "HELLO")
    BY <1>2, <1>a, <1>d DEF TakesHello, Takes
  <2>2. CASE Okay(d, "setup")
    BY <2>1, <2>2, <1>b, <1>c DEF Okay, Agrees
  <2>3. CASE Answers(d, "421") /\ Ends(d) /\ UNCHANGED child
    <3>1. Tells(d, "421")
      BY <2>3, <1>b
    <3>2. QED
      BY <2>1, <2>3, <3>1, <1>d, EndsEffect DEF Ended, Waiting, ReadsLast
  <2>4. QED
    BY <1>2, <2>2, <2>3 DEF TakesHello
<1>3. CASE TakesLoad(d)
  <2>1. sess[d] = "setup" /\ GetsWord(d, "LOAD")
    BY <1>3, <1>a, <1>d DEF TakesLoad, Takes
  <2>2. CASE Okay(d, "loaded")
    BY <2>1, <2>2, <1>b, <1>c DEF Okay, Agrees
  <2>3. CASE Error(d, "451")
    <3>1. Tells(d, "451") /\ Ends(d) /\ UNCHANGED child
      BY <2>3, <1>b DEF Error
    <3>2. QED
      BY <2>1, <3>1, <1>d, EndsEffect DEF Ended, Waiting, ReadsLast
  <2>4. QED
    BY <1>3, <2>2, <2>3 DEF TakesLoad
<1>4. CASE TakesSetup(d)
  <2>1. sess[d] = "loaded" /\ GetsWord(d, "SETUP")
    BY <1>4, <1>a, <1>d DEF TakesSetup, Takes
  <2>2. CASE Okay(d, "run")
    BY <2>1, <2>2, <1>b, <1>c DEF Okay, Agrees
  <2>3. CASE Error(d, "451")
    <3>1. Tells(d, "451") /\ Ends(d) /\ UNCHANGED child
      BY <2>3, <1>b DEF Error
    <3>2. QED
      BY <2>1, <3>1, <1>d, EndsEffect DEF Ended, Waiting, ReadsLast
  <2>4. QED
    BY <1>4, <2>2, <2>3 DEF TakesSetup
<1>5. CASE TakesQuit(d)
  <2>1. sess[d] \in Waiting /\ GetsWord(d, "QUIT") /\ Error(d, "222")
    BY <1>5, <1>a, <1>d DEF TakesQuit, Takes
  <2>2. Tells(d, "222") /\ Ends(d) /\ UNCHANGED child
    BY <2>1, <1>b DEF Error
  <2>3. QED
    BY <2>1, <2>2, <1>d, EndsEffect DEF Ended, Waiting, ReadsLast
<1>6. CASE Marshall(d)
  <2>1. CASE /\ Answers(d, "220")
              /\ Becomes(d, "report") /\ UNCHANGED child
    BY <1>6, <2>1, <1>b, <1>c DEF Marshall, Advances
  <2>2. CASE Error(d, "451")
    <3>1. Tells(d, "451") /\ Ends(d) /\ UNCHANGED child
      BY <2>2, <1>b DEF Error
    <3>2. QED
      BY <1>6, <3>1, EndsEffect DEF Marshall, Ended
  <2>3. QED
    BY <1>6, <2>1, <2>2 DEF Marshall
<1>7. CASE Reported(d) \/ ConnectionLost(d) \/ Killed(d)
  <2>1. CASE Reported(d) \/ ConnectionLost(d)
    BY <2>1, EndsEffect DEF Reported, ConnectionLost, Ended, Waiting, Silent
  <2>2. CASE Killed(d)
    BY <2>2, DiesEffect DEF Killed, Ended
  <2>3. QED
    BY <1>7, <2>1, <2>2
<1>8. CASE Aborts(d)
  <2>1. CASE UNCHANGED <<sess, toC>>
    BY <1>8, <2>1 DEF Aborts, Nothing, Silent
  <2>2. CASE Dies(d) /\ claimed[d] = "own" /\ sess[d] \notin Ended
    BY <1>8, <2>2, DiesEffect DEF Aborts, Claims
  <2>3. QED
    BY <1>8, <2>1, <2>2 DEF Aborts
<1>9. CASE ClientStart(d)
  BY <1>9, <1>a, <1>c, <1>d DEF ClientStart, Takes, Begins, Silent
<1>10. CASE TargetStart(d)
  BY <1>10, <1>0, <1>a, <1>c, <1>d DEF TargetStart, Takes, Begins, Silent
<1>11. CASE ClientTestEnds(d)
  <2>1. CASE Becomes(d, "marshall") /\ UNCHANGED <<toC, child>>
    BY <1>11, <2>1, <1>c DEF ClientTestEnds, Advances, Silent
  <2>2. CASE Error(d, "451")
    <3>1. Tells(d, "451") /\ Ends(d) /\ UNCHANGED child
      BY <2>2, <1>b DEF Error
    <3>2. QED
      BY <1>11, <3>1, EndsEffect DEF ClientTestEnds, Ended
  <2>3. QED
    BY <1>11, <2>1, <2>2 DEF ClientTestEnds
<1>12. CASE TargetTestBegins(d)
  <2>1. CASE Becomes(d, "testing") /\ UNCHANGED <<toC, child>>
    BY <1>12, <2>1, <1>c DEF TargetTestBegins, Advances, Silent
  <2>2. CASE Becomes(d, "failed") /\ Answers(d, "451") /\ child' = [child EXCEPT ![d] = "gone"]
    <3>1. child'[d] = "gone"
      BY <2>2, <1>0
    <3>2. QED
      BY <1>12, <2>2, <3>1, <1>b, <1>c DEF TargetTestBegins, Fails
  <2>3. QED
    BY <1>12, <2>1, <2>2 DEF TargetTestBegins
<1>13. CASE TargetTestEnds(d)
  BY <1>13, <1>c DEF TargetTestEnds, Advances, Silent
<1>14. CASE ChildStop(d) \/ ChildQuit(d) \/ ChildLost(d)
  <2>1. child'[d] = "gone" /\ child[d] = "reading" /\ sess'[d] = sess[d]
    BY <1>14, <1>0 DEF ChildStop, ChildQuit, ChildLost, ChildExits
  <2>2. toD'[d] = toD[d] \/ \E w \in Commands : GetsWord(d, w)
    BY <1>14, <1>a, <1>d DEF ChildStop, ChildQuit, ChildLost
  <2>3. Silent(d) \/ Tells(d, "222")
    BY <1>14, <1>b DEF ChildStop, ChildQuit, ChildLost, Silent
  <2>4. QED
    BY <2>1, <2>2, <2>3 DEF ChildEnds
<1>15. QED
  BY <1>1, <1>2, <1>3, <1>4, <1>5, <1>6, <1>7, <1>8, <1>9, <1>10, <1>11, <1>12, <1>13,
     <1>14 DEF Daemon, Progress

-----------------------------------------------------------------------------
(* Steps of the daemons keep the invariant *)

\* What the queues of d become, by the facts about Append and Tail.
LEMMA QueueEffect ==
  ASSUME TypeOK, NEW d \in Daemons
  PROVE  /\ Len(toD[d]) \in Nat /\ Len(toC[d]) \in Nat
         /\ \A w : GetsWord(d, w) =>
              /\ Len(toD[d]) > 0 /\ toD[d][1] = w
              /\ Len(toD'[d]) = Len(toD[d]) - 1
              /\ \A i \in 1 .. Len(toD[d]) - 1 : toD'[d][i] = toD[d][i + 1]
         /\ \A c \in Codes : Tells(d, c) /\ conn[d] = "open" =>
              /\ Len(toC'[d]) = Len(toC[d]) + 1
              /\ \A i \in 1 .. Len(toC[d]) : toC'[d][i] = toC[d][i]
              /\ toC'[d][Len(toC[d]) + 1] = c
<1>1. toD[d] \in Seq(Commands) /\ toC[d] \in Seq(Codes)
  BY DEF TypeOK, CTypeOK
<1>2. Len(toD[d]) \in Nat /\ Len(toC[d]) \in Nat
  BY <1>1
<1>3. ASSUME NEW w, GetsWord(d, w)
      PROVE  /\ Len(toD[d]) > 0 /\ toD[d][1] = w
             /\ Len(toD'[d]) = Len(toD[d]) - 1
             /\ \A i \in 1 .. Len(toD[d]) - 1 : toD'[d][i] = toD[d][i + 1]
  <2>1. toD[d] # << >> /\ toD[d][1] = w /\ toD'[d] = Tail(toD[d])
    BY <1>3 DEF GetsWord
  <2>2. QED
    BY <1>1, <2>1, TailFacts
<1>4. ASSUME NEW c \in Codes, Tells(d, c), conn[d] = "open"
      PROVE  /\ Len(toC'[d]) = Len(toC[d]) + 1
             /\ \A i \in 1 .. Len(toC[d]) : toC'[d][i] = toC[d][i]
             /\ toC'[d][Len(toC[d]) + 1] = c
  <2>1. toC'[d] = Append(toC[d], c)
    BY <1>4 DEF Tells
  <2>2. QED
    BY <1>1, <2>1, AppendFacts
<1>5. QED
  BY <1>2, <1>3, <1>4

\* A daemon whose turn has not come does nothing.
LEMMA FreshKept ==
  ASSUME TypeOK, NEW d \in Daemons, Frame(d), Effect(d), NEW e \in Daemons, Fresh(e)
  PROVE  Fresh(e)'
  BY DEF Fresh, Frame, Effect, Greets, Agrees, Refuses, Fails, Finishes, Begins, Advances,
         ChildEnds, Nothing, Silent

\* It sends the banner, and waits for a command.
LEMMA BannerKept ==
  ASSUME TypeOK, NEW d \in Daemons, Frame(d), Effect(d), NEW e \in Daemons, AwaitsBanner(e)
  PROVE  AwaitsBanner(e)'
<1>1. CASE e # d
  BY <1>1 DEF AwaitsBanner, Frame, Only
<1>2. CASE e = d
  <2>1. CASE Greets(d)
    <3>1. conn[d] = "open" /\ Len(toC[d]) = 0 /\ Tells(d, "100") /\ "100" \in Codes
      BY <1>2, <2>1 DEF AwaitsBanner, Greets, Codes
    <3>2. Len(toC'[d]) = Len(toC[d]) + 1 /\ toC'[d][Len(toC[d]) + 1] = "100"
      BY <3>1, QueueEffect
    <3>3. Len(toC'[d]) = 1 /\ toC'[d][1] = "100"
      BY <3>1, <3>2
    <3>4. QED
      BY <1>2, <2>1, <3>3 DEF AwaitsBanner, Greets, Frame, Only
  <2>2. CASE Nothing(d)
    BY <1>2, <2>2 DEF AwaitsBanner, Nothing, Silent, Frame, Only
  <2>3. \A w : ~ GetsWord(d, w)
    BY <1>2, QueueEffect DEF AwaitsBanner
  <2>4. QED
    BY <1>2, <2>1, <2>2, <2>3
       DEF AwaitsBanner, Effect, Agrees, Refuses, Fails, Finishes, Begins, Advances,
           ChildEnds, ReadsLast
<1>3. QED
  BY <1>1, <1>2

\* A command of the set-up is answered once, or the session is over.
LEMMA AwaitedKept ==
  ASSUME TypeOK, NEW d \in Daemons, Frame(d), Effect(d), NEW e \in Daemons,
         NEW f, NEW w, NEW t, Awaited(e, f, w, t, "200"),
         \/ f = "listen" /\ w = "HELLO" /\ t = "setup"
         \/ f = "setup" /\ w = "LOAD" /\ t = "loaded"
         \/ f = "loaded" /\ w = "SETUP" /\ t = "run"
  PROVE  Awaited(e, f, w, t, "200")'
<1>1. CASE e # d
  BY <1>1 DEF Awaited, Frame, Only
<1>2. CASE e = d
  <2>0. conn[d] = "open" /\ child[d] = "none" /\ conn' = conn
    BY <1>2 DEF Awaited, Frame
  <2>1. CASE sess[d] = f /\ Only(toD[d], w) /\ Len(toC[d]) = 0
    <3>1. CASE Agrees(d, f, w, t)
      BY <1>2, <2>0, <2>1, <3>1, QueueEffect DEF Awaited, Only, Agrees, Codes
    <3>2. CASE Refuses(d) /\ Silent(d)
      BY <1>2, <2>0, <2>1, <3>2 DEF Awaited, Only, Refuses, Silent
    <3>3. CASE Refuses(d) /\ ReadsLast(d)
      BY <1>2, <2>0, <2>1, <3>3, QueueEffect DEF Awaited, Only, Refuses, ReadsLast, Codes
    <3>4. CASE Nothing(d)
      BY <1>2, <2>0, <2>1, <3>4 DEF Awaited, Nothing, Silent, Only
    <3>5. QED
      BY <2>0, <2>1, <3>1, <3>2, <3>3, <3>4
         DEF Effect, Greets, Agrees, Refuses, Fails, Finishes, Begins, Advances, ChildEnds
  <2>2. CASE sess[d] = t /\ Len(toD[d]) = 0 /\ Only(toC[d], "200")
    <3>1. \A v : ~ GetsWord(d, v)
      BY <2>2, QueueEffect
    <3>2. CASE (Refuses(d) \/ Fails(d)) /\ Silent(d)
      BY <1>2, <2>0, <2>2, <3>2 DEF Awaited, Only, Refuses, Fails, Silent
    <3>3. CASE Nothing(d)
      BY <1>2, <2>0, <2>2, <3>3 DEF Awaited, Nothing, Silent, Only
    <3>4. QED
      BY <2>0, <2>2, <3>1, <3>2, <3>3
         DEF Effect, Greets, Agrees, Refuses, Fails, Finishes, Begins, Advances, ChildEnds,
             ReadsLast
  <2>3. CASE sess[d] \in {"refused", "failed"}
    <3>1. Nothing(d)
      BY <2>0, <2>3 DEF Effect, Greets, Agrees, Refuses, Fails, Finishes, Begins, Advances,
                        ChildEnds
    <3>2. QED
      BY <1>2, <2>0, <3>1 DEF Awaited, Nothing, Silent, Only
  <2>4. QED
    BY <1>2, <2>1, <2>2, <2>3 DEF Awaited
<1>3. QED
  BY <1>1, <1>2

\* A daemon that is set up waits for START, unless it is killed.
LEMMA ReadyKept ==
  ASSUME TypeOK, NEW d \in Daemons, Frame(d), Effect(d), NEW e \in Daemons, Ready(e)
  PROVE  Ready(e)'
<1>1. CASE e # d
  BY <1>1 DEF Ready, Frame
<1>2. CASE e = d
  <2>0. conn[d] = "open" /\ child[d] = "none" /\ conn' = conn /\ sess[d] \in {"run", "failed"}
    BY <1>2 DEF Ready, Frame
  <2>1. \A w : sess[d] = "run" => ~ GetsWord(d, w)
    BY <1>2, QueueEffect DEF Ready
  <2>2. Fails(d) \/ Nothing(d)
    BY <2>0, <2>1 DEF Effect, Greets, Agrees, Refuses, Finishes, Begins, Advances, ChildEnds
  <2>3. QED
    BY <1>2, <2>0, <2>2 DEF Ready, Fails, Nothing
<1>3. QED
  BY <1>1, <1>2

\* Between START and STOP nothing else is sent.
LEMMA StartedKept ==
  ASSUME TypeOK, NEW d \in Daemons, Frame(d), Effect(d), NEW e \in Daemons, Started(e)
  PROVE  Started(e)'
<1>1. CASE e # d
  BY <1>1 DEF Started, Frame, Only
<1>2. CASE e = d
  <2>0. sess[d] \in Passed
    BY <1>2 DEF Started
  <2>1. CASE Begins(d)
    BY <1>2, <2>1, QueueEffect DEF Started, Begins, Only, Passed
  <2>2. CASE Fails(d)
    BY <1>2, <2>2, QueueEffect DEF Started, Fails, Passed
  <2>3. CASE Finishes(d) \/ Advances(d) \/ Nothing(d)
    BY <1>2, <2>3 DEF Started, Finishes, Advances, Nothing, Passed, Only
  <2>4. CASE ChildEnds(d)
    BY <1>2, <2>4 DEF Started, ChildEnds, Passed
  <2>5. QED
    BY <2>0, <2>1, <2>2, <2>3, <2>4 DEF Effect, Greets, Agrees, Refuses, Passed
<1>3. QED
  BY <1>1, <1>2

\* So every daemon stays where main() believes it to be.
LEMMA DaemonStages ==
  ASSUME TypeOK, Stages, NEW d \in Daemons, Frame(d), Effect(d)
  PROVE  Stages'
<1> SUFFICES ASSUME NEW i \in 1 .. Len(Order) PROVE Stage(i)'
  BY DEF Stages
<1>1. Order[i] \in Daemons /\ Stage(i)
  BY OrderFacts DEF Stages
<1>2. step' = step /\ at' = at
  BY DEF Frame
<1>3. /\ Fresh(Order[i]) => Fresh(Order[i])'
      /\ AwaitsBanner(Order[i]) => AwaitsBanner(Order[i])'
      /\ Ready(Order[i]) => Ready(Order[i])'
      /\ Started(Order[i]) => Started(Order[i])'
  BY <1>1, FreshKept, BannerKept, ReadyKept, StartedKept
<1>4. /\ Awaited(Order[i], "listen", "HELLO", "setup", "200")
          => Awaited(Order[i], "listen", "HELLO", "setup", "200")'
      /\ Awaited(Order[i], "setup", "LOAD", "loaded", "200")
          => Awaited(Order[i], "setup", "LOAD", "loaded", "200")'
      /\ Awaited(Order[i], "loaded", "SETUP", "run", "200")
          => Awaited(Order[i], "loaded", "SETUP", "run", "200")'
  BY <1>1, AwaitedKept
<1>5. QED
  BY <1>1, <1>2, <1>3, <1>4 DEF Stage

\* Nobody reads a word that is not meant for it.
LEMMA DaemonQueues ==
  ASSUME TypeOK, Queues, NEW d \in Daemons, Frame(d), Effect(d)
  PROVE  Queues'
<1> SUFFICES ASSUME NEW e \in Daemons PROVE Queue(e)'
  BY DEF Queues
<1>0. Queue(e) /\ Queue(d)
  BY DEF Queues
<1>1. CASE e # d
  BY <1>0, <1>1 DEF Queue, Frame
<1>2. CASE e = d
  <2>1. CASE Greets(d)
    BY <1>0, <1>2, <2>1 DEF Queue, Greets, Waiting
  <2>2. CASE Agrees(d, "listen", "HELLO", "setup") \/ Agrees(d, "setup", "LOAD", "loaded")
             \/ Agrees(d, "loaded", "SETUP", "run")
    <3>1. sess[d] \in Waiting \ {"run"} /\ sess'[d] \in Waiting \ {"none"}
          /\ child'[d] = child[d] /\ \E w : GetsWord(d, w)
      BY <2>2 DEF Agrees, Waiting
    <3>2. child[d] = "none"
      BY <1>0, <3>1 DEF Queue
    <3>3. \A i \in 1 .. Len(toD'[d]) : toD'[d][i] = "QUIT"
      BY <1>0, <3>1, QueueEffect DEF Queue
    <3>4. QED
      BY <1>2, <3>1, <3>2, <3>3 DEF Queue
  <2>3. CASE Refuses(d) \/ Finishes(d)
    <3>1. sess'[d] \notin Waiting \cup {"none"} /\ child'[d] = child[d]
      BY <2>3 DEF Refuses, Finishes, Waiting
    <3>2. CASE toD'[d] = toD[d]
      BY <1>0, <1>2, <3>1, <3>2 DEF Queue
    <3>3. CASE toD'[d] # toD[d]
      BY <1>0, <1>2, <2>3, <3>1, <3>3 DEF Queue, Refuses, Finishes, Waiting
    <3>4. QED
      BY <3>2, <3>3
  <2>4. CASE Fails(d)
    <3>1. sess'[d] \notin Waiting \cup {"none"} /\ child'[d] \in {child[d], "gone"}
      BY <2>4 DEF Fails, Waiting
    <3>2. CASE toD'[d] = toD[d]
      BY <1>0, <1>2, <3>1, <3>2 DEF Queue
    <3>3. CASE sess[d] = "run"
      BY <1>0, <1>2, <3>1, <3>3 DEF Queue, Waiting
    <3>4. QED
      BY <2>4, <3>2, <3>3 DEF Fails
  <2>5. CASE Begins(d)
    <3>1. sess[d] = "run" /\ sess'[d] \notin Waiting \cup {"none"} /\ GetsWord(d, "START")
      BY <2>5 DEF Begins, Waiting
    <3>2. \A i \in 1 .. Len(toD'[d]) :
            toD'[d][i] = "QUIT" \/ (i = 1 /\ toD'[d][i] = "STOP")
      <4>1. /\ Len(toD[d]) \in Nat /\ Len(toD'[d]) = Len(toD[d]) - 1
            /\ \A i \in 1 .. Len(toD[d]) - 1 : toD'[d][i] = toD[d][i + 1]
        BY <3>1, QueueEffect
      <4>2. \A i \in 2 .. Len(toD[d]) : toD[d][i] = "QUIT" \/ (i = 2 /\ toD[d][i] = "STOP")
        BY <1>0, <3>1, <4>1 DEF Queue, Waiting
      <4>3. \A i \in 1 .. Len(toD[d]) - 1 : i + 1 \in 2 .. Len(toD[d]) /\ (i + 1 = 2 <=> i = 1)
        BY <4>1
      <4>4. QED
        BY <4>1, <4>2, <4>3
    <3>3. QED
      BY <1>2, <3>1, <3>2 DEF Queue
  <2>6. CASE Advances(d)
    BY <1>0, <1>2, <2>6 DEF Queue, Advances, Waiting
  <2>7. CASE ChildEnds(d)
    BY <1>0, <1>2, <2>7 DEF Queue, ChildEnds
  <2>8. CASE Nothing(d)
    BY <1>0, <1>2, <2>8 DEF Queue, Nothing
  <2>9. QED
    BY <2>1, <2>2, <2>3, <2>4, <2>5, <2>6, <2>7, <2>8 DEF Effect
<1>3. QED
  BY <1>1, <1>2

\* The flag becomes the handler's own with HELLO, and only targets fork.
LEMMA DaemonClaims ==
  ASSUME TypeOK, Children, Claims, NEW d \in Daemons, Daemon(d) \/ Killed(d)
  PROVE  Claims' /\ Children'
<1>1. Frame(d) /\ Effect(d)
  BY DaemonFrame, DaemonEffect
<1>2. claimed'[d] \in {claimed[d], "free"} \/ sess'[d] = "setup"
  <2>1. claimed \in [Daemons -> {"free", "own", "other"}] /\ d \in DOMAIN sess
    BY DEF TypeOK
  <2>2. QED
    BY <2>1 DEF Daemon, Progress, Accepted, TakesHello, TakesLoad, TakesSetup, TakesQuit,
       Okay, Frees, Error, Marshall, Reported, ConnectionLost, ClientStart, ClientTestEnds,
       TargetStart, TargetTestBegins, TargetTestEnds, ChildStop, ChildQuit, ChildLost,
       Aborts, Killed, Becomes
<1>3. sess'[d] \in {"none", "listen"} => sess[d] \in {"none", "listen"}
  BY <1>1 DEF Effect, Greets, Agrees, Refuses, Fails, Finishes, Begins, Advances, ChildEnds,
              Nothing
<1>4. Claims'
  BY <1>1, <1>2, <1>3 DEF Claims, Frame
<1>5. \/ child'[d] \in {child[d], "gone"} /\ (sess'[d] = sess[d] \/ sess'[d] # "forked")
      \/ d \in TargetSet
  BY <1>1 DEF Effect, Greets, Agrees, Refuses, Fails, Finishes, Begins, Advances, ChildEnds,
              Nothing
<1>6. child'[d] = "gone" => child[d] # "none" \/ sess[d] = "forked"
  BY <1>1 DEF Effect, Greets, Agrees, Refuses, Fails, Finishes, Begins, Advances, ChildEnds,
              Nothing
<1>7. Children'
  BY <1>1, <1>5, <1>6 DEF Children, Frame
<1>8. QED
  BY <1>4, <1>7

\* Daemons take words from the queue and add none; a session that has passed
\* SETUP, or reported, has done so for good.
LEMMA DaemonMonotone ==
  ASSUME TypeOK, NEW d \in Daemons, Frame(d), Effect(d), NEW e \in Daemons
  PROVE  /\ \A i \in 1 .. Len(toD'[e]) : \E j \in 1 .. Len(toD[e]) : toD'[e][i] = toD[e][j]
         /\ sess[e] \in Passed => sess'[e] \in Passed
         /\ HasReported(e) => HasReported(e)'
<1>1. CASE e # d
  BY <1>1 DEF Frame, HasReported
<1>2. CASE e = d
  <2>1. toD'[d] = toD[d] \/ \E w : GetsWord(d, w)
    BY DEF Effect, Greets, Agrees, Refuses, Fails, Finishes, Begins, Advances, ChildEnds,
           Nothing, ReadsLast
  <2>2. \A i \in 1 .. Len(toD'[d]) : \E j \in 1 .. Len(toD[d]) : toD'[d][i] = toD[d][j]
    <3>1. CASE toD'[d] = toD[d]
      BY <3>1
    <3>2. CASE \E w : GetsWord(d, w)
      <4>1. /\ Len(toD[d]) \in Nat /\ Len(toD'[d]) = Len(toD[d]) - 1
            /\ \A i \in 1 .. Len(toD[d]) - 1 : toD'[d][i] = toD[d][i + 1]
        BY <3>2, QueueEffect
      <4>2. \A i \in 1 .. Len(toD[d]) - 1 : i + 1 \in 1 .. Len(toD[d])
        BY <4>1
      <4>3. QED
        BY <4>1, <4>2
    <3>3. QED
      BY <2>1, <3>1, <3>2
  <2>3. /\ sess[d] \in Passed => sess'[d] \in Passed
        /\ HasReported(d) => HasReported(d)'
    BY DEF Effect, Greets, Agrees, Refuses, Fails, Finishes, Begins, Advances, ChildEnds,
           Nothing, Passed, HasReported
  <2>4. QED
    BY <1>2, <2>2, <2>3
<1>3. QED
  BY <1>1, <1>2

\* The order of the experiment: everybody is set up before START, every client
\* has reported before STOP, and only reports carry data.
LEMMA DaemonOrder ==
  ASSUME TypeOK, Children, Claims, Barrier, DataReported, LastCall, Collected,
         NEW d \in Daemons, Daemon(d) \/ Killed(d)
  PROVE  Barrier' /\ DataReported' /\ LastCall' /\ Collected'
<1>0. Frame(d) /\ Effect(d)
  BY DaemonFrame, DaemonEffect
<1>1. Barrier'
  <2> SUFFICES ASSUME NEW a \in Daemons, NEW i \in 1 .. Len(toD'[a]), toD'[a][i] = "START",
                      NEW b \in Daemons
               PROVE  sess'[b] \in Passed
    BY DEF Barrier
  <2>1. PICK j \in 1 .. Len(toD[a]) : toD'[a][i] = toD[a][j]
    BY <1>0, DaemonMonotone
  <2>2. sess[b] \in Passed
    BY <2>1 DEF Barrier
  <2>3. QED
    BY <1>0, <2>2, DaemonMonotone
<1>2. DataReported'
  <2> SUFFICES ASSUME NEW e \in Daemons
               PROVE  /\ \A i \in 1 .. Len(toC'[e]) :
                           toC'[e][i] = "220" => HasReported(e)'
                      /\ e \in results' => HasReported(e)'
    BY DEF DataReported
  <2>1. e \in results' => HasReported(e)'
    BY <1>0, DaemonMonotone DEF DataReported, Frame
  <2>2. CASE toC'[e] = toC[e]
    BY <1>0, <2>1, <2>2, DaemonMonotone DEF DataReported
  <2>3. CASE e = d /\ \E code \in Codes : toC'[d] = Append(toC[d], code)
                                          /\ (code = "220" => HasReported(d)')
    <3>1. PICK code \in Codes : /\ toC'[d] = Append(toC[d], code)
                                /\ code = "220" => HasReported(d)'
      BY <2>3
    <3>2. toC[d] \in Seq(Codes)
      BY DEF TypeOK, CTypeOK
    <3>3. /\ Len(toC[d]) \in Nat /\ Len(toC'[d]) = Len(toC[d]) + 1
          /\ \A i \in 1 .. Len(toC[d]) : toC'[d][i] = toC[d][i]
          /\ toC'[d][Len(toC[d]) + 1] = code
      BY <3>1, <3>2, AppendFacts
    <3>4. \A i \in 1 .. Len(toC'[d]) : i \in 1 .. Len(toC[d]) \/ i = Len(toC[d]) + 1
      BY <3>3
    <3>5. HasReported(d) => HasReported(d)'
      BY <1>0, DaemonMonotone
    <3>6. QED
      BY <2>1, <2>3, <3>1, <3>3, <3>4, <3>5 DEF DataReported
  <2>4. e = d => \/ toC'[d] = toC[d]
                 \/ \E code \in Codes : toC'[d] = Append(toC[d], code)
                                        /\ (code = "220" => HasReported(d)')
    BY <1>0 DEF Effect, Greets, Agrees, Refuses, Fails, Finishes, Begins, Advances, ChildEnds,
                Nothing, ReadsLast, Silent, Tells, Codes, HasReported
  <2>5. QED
    BY <1>0, <2>2, <2>3, <2>4 DEF Frame
<1>3. LastCall'
  <2> SUFFICES ASSUME StopSent', NEW c \in ClientSet PROVE HasReported(c)'
    BY DEF LastCall
  <2>1. stopped' = stopped \/ GetsWord(d, "STOP")
    <3>1. Reads(d, "STOP") => GetsWord(d, "STOP")
      BY TailFacts DEF Reads, GetsWord, TypeOK, CTypeOK
    <3>2. QED
      BY <3>1 DEF Daemon, Progress, Accepted, TakesHello, TakesLoad, TakesSetup, TakesQuit,
         Okay, Error, Marshall, Reported, ConnectionLost, ClientStart, ClientTestEnds,
         TargetStart, TargetTestBegins, TargetTestEnds, ChildStop, ChildQuit, ChildLost,
         Aborts, Killed
  <2>2. ASSUME stopped' # {} PROVE StopSent
    BY <2>1, <2>2, QueueEffect DEF StopSent
  <2>3. ASSUME \E e \in Daemons : \E i \in 1 .. Len(toD'[e]) : toD'[e][i] = "STOP"
        PROVE  StopSent
    BY <1>0, <2>3, DaemonMonotone DEF StopSent
  <2>4. ASSUME \E e \in TargetSet : sess'[e] = "marshall" PROVE StopSent
    <3>1. PICK e \in TargetSet : sess'[e] = "marshall"
      BY <2>4
    <3>2. e \in Daemons /\ e \notin ClientSet
      BY DistinctAssumption DEF TargetSet, ClientSet, Daemons
    <3>3. sess[e] = "marshall" \/ e \in stopped
      BY <1>0, <3>1, <3>2 DEF Frame, Effect, Greets, Agrees, Refuses, Fails, Finishes, Begins,
                              Advances, ChildEnds, Nothing
    <3>4. QED
      BY <3>3 DEF StopSent
  <2>5. StopSent
    BY <1>0, <2>2, <2>3, <2>4 DEF StopSent, Frame
  <2>6. c \in Daemons /\ HasReported(c)
    BY <2>5 DEF LastCall, ClientSet, Daemons
  <2>7. QED
    BY <1>0, <2>6, DaemonMonotone
<1>4. Collected'
  BY <1>0 DEF Collected, Frame
<1>5. QED
  BY <1>1, <1>2, <1>3, <1>4

-----------------------------------------------------------------------------
(* Steps of the controller keep the invariant *)

\* A stage depends on nothing but the daemon's own handler and sockets.
LEMMA Untouched ==
  ASSUME UNCHANGED dvars, NEW e \in Daemons, conn'[e] = conn[e], toD'[e] = toD[e]
  PROVE  /\ Ready(e) => Ready(e)'
         /\ Started(e) => Started(e)'
         /\ Fresh(e) /\ toC'[e] = toC[e] => Fresh(e)'
  BY DEF dvars, Ready, Started, Fresh, Only

\* What SendTo and Receive do to the sockets.
LEMMA SendEffect ==
  ASSUME TypeOK, NEW d \in Daemons, NEW w \in Commands, SendTo(d, w)
  PROVE  /\ Len(toD[d]) \in Nat /\ Len(toD'[d]) = Len(toD[d]) + 1
         /\ \A i \in 1 .. Len(toD[d]) : toD'[d][i] = toD[d][i]
         /\ toD'[d][Len(toD[d]) + 1] = w
         /\ \A e \in Daemons \ {d} : toD'[e] = toD[e]
<1>1. toD \in [Daemons -> Seq(Commands)]
  BY DEF TypeOK, CTypeOK
<1>2. toD'[d] = Append(toD[d], w) /\ toD[d] \in Seq(Commands)
  BY <1>1 DEF SendTo
<1>3. \A e \in Daemons \ {d} : toD'[e] = toD[e]
  BY <1>1 DEF SendTo
<1>4. QED
  BY <1>2, <1>3, AppendFacts

LEMMA ReceiveEffect ==
  ASSUME TypeOK, NEW d \in Daemons, NEW c, Receive(d, c)
  PROVE  /\ Len(toC[d]) \in Nat \ {0} /\ Len(toC'[d]) = Len(toC[d]) - 1
         /\ \A i \in 1 .. Len(toC[d]) - 1 : toC'[d][i] = toC[d][i + 1]
         /\ toC[d][1] = c
         /\ \A e \in Daemons \ {d} : toC'[e] = toC[e]
<1>1. toC \in [Daemons -> Seq(Codes)]
  BY DEF TypeOK, CTypeOK
<1>2. toC'[d] = Tail(toC[d]) /\ toC[d] \in Seq(Codes) /\ toC[d] # << >> /\ c = Head(toC[d])
  BY <1>1 DEF Receive
<1>3. \A e \in Daemons \ {d} : toC'[e] = toC[e]
  BY <1>1 DEF Receive
<1>4. QED
  BY <1>2, <1>3, TailFacts

\* The current daemon goes on to the next command of the set-up.
LEMMA ProceedStages ==
  ASSUME TypeOK, Stages, UNCHANGED dvars, NEW d \in Daemons,
         NEW s, NEW n, NEW w, NEW f, NEW t, Proceed(d, s, n, w),
         \/ s = "banner" /\ n = "hello" /\ w = "HELLO" /\ f = "listen" /\ t = "setup"
         \/ s = "hello" /\ n = "load" /\ w = "LOAD" /\ f = "setup" /\ t = "loaded"
         \/ s = "load" /\ n = "setup" /\ w = "SETUP" /\ f = "loaded" /\ t = "run",
         step' # "close"
  PROVE  /\ step = s /\ step' = n /\ at' = at /\ conn' = conn
         /\ at \in 1 .. Len(Order) /\ d = Order[at]
         /\ Awaited(d, f, w, t, "200")'
         /\ (sess[d] = f /\ Len(toD[d]) = 0) \/ sess[d] \in {"refused", "failed"}
         /\ child[d] = "none"
         /\ SendTo(d, w) /\ \A e \in Daemons \ {d} : toC'[e] = toC[e]
<1>1. PICK code \in Codes : /\ Receive(d, code)
                            /\ code = (IF s = "banner" THEN "100" ELSE "200")
                            /\ step' = n /\ at' = at /\ SendTo(d, w)
  BY DEF Proceed, Raise, Goto
<1>2. step = s /\ at \in 1 .. Len(Order) /\ d = Order[at] /\ conn' = conn
  BY DEF Proceed, Current
<1>3. Stage(at)
  BY <1>2 DEF Stages
<1>4. w \in Commands
  BY DEF Commands
<1>5. /\ conn[d] = "open" /\ child[d] = "none" /\ Len(toC'[d]) = 0
      /\ (sess[d] = f /\ Len(toD[d]) = 0) \/ sess[d] \in {"refused", "failed"}
  <2>1. CASE s = "banner"
    BY <1>1, <1>2, <1>3, <2>1, ReceiveEffect DEF Stage, AwaitsBanner, Only
  <2>2. CASE s # "banner"
    BY <1>1, <1>2, <1>3, <2>2, ReceiveEffect DEF Stage, Awaited, Only
  <2>3. QED
    BY <2>1, <2>2
<1>6. UNCHANGED <<sess, child>>
  BY DEF dvars
<1>7. Awaited(d, f, w, t, "200")'
  <2>1. CASE sess[d] = f /\ Len(toD[d]) = 0
    <3>1. Len(toD'[d]) = 1 /\ toD'[d][1] = w
      <4>1. Len(toD'[d]) = Len(toD[d]) + 1 /\ toD'[d][Len(toD[d]) + 1] = w
        BY <1>1, <1>4, SendEffect
      <4>2. QED
        BY <2>1, <4>1
    <3>2. QED
      BY <1>2, <1>5, <1>6, <2>1, <3>1 DEF Awaited, Only
  <2>2. CASE sess[d] \in {"refused", "failed"}
    BY <1>2, <1>5, <1>6, <2>2 DEF Awaited, Only
  <2>3. QED
    BY <1>5, <2>1, <2>2
<1>8. QED
  BY <1>1, <1>2, <1>5, <1>7, ReceiveEffect

\* main() knows how far every daemon can be.
LEMMA ControllerStages ==
  ASSUME TypeOK, Stages, CNext, UNCHANGED dvars
  PROVE  Stages'
<1> SUFFICES ASSUME NEW i \in 1 .. Len(Order) PROVE Stage(i)'
  BY DEF Stages
<1>0. /\ Stage(i) /\ Order[i] \in Daemons /\ UNCHANGED <<sess, child>>
      /\ Len(Order) \in Nat /\ Len(Targets) \in Nat /\ Len(Targets) < Len(Order)
      /\ at \in Nat \ {0}
  BY OrderFacts DEF Stages, dvars, TypeOK, CTypeOK
<1>a. \A j \in 1 .. Len(Order) : j # i => Order[i] # Order[j]
  BY PlaceInOrder
<1>1. CASE step' \in {"close", "exit", "output", "spinning"}
  BY <1>1 DEF Stage, SettingUp, Collecting
<1>2. ASSUME NEW d \in Daemons, AskAbort(d)
      PROVE  Stage(i)'
  BY <1>0, <1>2 DEF AskAbort, net, Stage, Fresh, AwaitsBanner, Awaited, Ready, Started, Only
<1>3. ASSUME NEW d \in Daemons, Connect(d)
      PROVE  Stage(i)'
  <2>1. /\ step = "connect" /\ at \in 1 .. Len(Order) /\ d = Order[at]
        /\ step' = "banner" /\ at' = at /\ UNCHANGED <<toD, toC>>
        /\ conn' = [conn EXCEPT ![d] = "open"] /\ conn \in [Daemons -> {"none", "open", "closed"}]
    BY <1>3 DEF Connect, Current, Goto, TypeOK, CTypeOK
  <2>2. CASE i = at
    <3>1. Fresh(d)
      BY <1>0, <2>1, <2>2 DEF Stage
    <3>2. AwaitsBanner(d)'
      BY <1>0, <2>1, <3>1 DEF Fresh, AwaitsBanner
    <3>3. QED
      BY <1>0, <2>1, <2>2, <3>2 DEF Stage, Collecting
  <2>3. CASE i # at
    <3>1. conn'[Order[i]] = conn[Order[i]]
      BY <1>0, <1>a, <2>1, <2>3
    <3>2. QED
      BY <1>0, <2>1, <2>3, <3>1, Untouched DEF Stage, SettingUp, Collecting
  <2>4. QED
    BY <2>2, <2>3
<1>4. ASSUME NEW d \in Daemons, Banner(d) \/ Hello(d) \/ Load(d), step' # "close"
      PROVE  Stage(i)'
  <2>1. /\ step \in SettingUp /\ at \in 1 .. Len(Order) /\ d = Order[at]
        /\ at' = at /\ conn' = conn
        /\ \A e \in Daemons \ {d} : toD'[e] = toD[e] /\ toC'[e] = toC[e]
        /\ \/ step' = "hello" /\ Awaited(d, "listen", "HELLO", "setup", "200")'
           \/ step' = "load" /\ Awaited(d, "setup", "LOAD", "loaded", "200")'
           \/ step' = "setup" /\ Awaited(d, "loaded", "SETUP", "run", "200")'
    <3>1. {"HELLO", "LOAD", "SETUP"} \subseteq Commands
      BY DEF Commands
    <3>0. \A w \in Commands : SendTo(d, w) => \A e \in Daemons \ {d} : toD'[e] = toD[e]
      BY SendEffect
    <3>2. CASE Banner(d)
      <4>1. Proceed(d, "banner", "hello", "HELLO")
        BY <3>2 DEF Banner
      <4>2. QED
        BY <1>4, <3>0, <3>1, <4>1, ProceedStages DEF SettingUp
    <3>3. CASE Hello(d)
      <4>1. Proceed(d, "hello", "load", "LOAD")
        BY <3>3 DEF Hello
      <4>2. QED
        BY <1>4, <3>0, <3>1, <4>1, ProceedStages DEF SettingUp
    <3>4. CASE Load(d)
      <4>1. Proceed(d, "load", "setup", "SETUP")
        BY <3>4 DEF Load
      <4>2. QED
        BY <1>4, <3>0, <3>1, <4>1, ProceedStages DEF SettingUp
    <3>5. QED
      BY <1>4, <3>2, <3>3, <3>4
  <2>2. CASE i = at
    BY <1>0, <2>1, <2>2 DEF Stage, SettingUp, Collecting
  <2>3. CASE i # at
    <3>1. Order[i] # d
      BY <1>a, <2>1, <2>3
    <3>2. QED
      BY <1>0, <2>1, <2>3, <3>1, Untouched DEF Stage, SettingUp, Collecting
  <2>4. QED
    BY <2>2, <2>3
<1>5. ASSUME NEW d \in Daemons, SetupAnswered(d), step' # "close"
      PROVE  Stage(i)'
  <2>1. /\ step = "setup" /\ at \in 1 .. Len(Order) /\ d = Order[at] /\ Receive(d, "200")
        /\ UNCHANGED <<conn, toD>>
        /\ IF at = Len(Order) THEN step' = "start" /\ at' = 1
                              ELSE step' = "connect" /\ at' = at + 1
    BY <1>5 DEF SetupAnswered, Current, Raise, Goto
  <2>2. CASE i = at
    <3>1. Awaited(d, "loaded", "SETUP", "run", "200")
      BY <1>0, <2>1, <2>2 DEF Stage
    <3>2. Ready(d)'
      BY <1>0, <2>1, <3>1, ReceiveEffect DEF Awaited, Ready, Only
    <3>3. QED
      BY <1>0, <2>1, <2>2, <3>2 DEF Stage, SettingUp, Collecting
  <2>3. CASE i # at
    <3>1. toC'[Order[i]] = toC[Order[i]]
      BY <1>0, <1>a, <2>1, <2>3, ReceiveEffect
    <3>2. (i < at => Ready(Order[i])') /\ (i > at => Fresh(Order[i])')
      BY <1>0, <2>1, <2>3, <3>1, Untouched DEF Stage, SettingUp
    <3>3. QED
      BY <1>0, <2>1, <2>3, <3>2 DEF Stage, SettingUp, Collecting
  <2>4. QED
    BY <2>2, <2>3
<1>6. ASSUME NEW d \in Daemons, Start(d)
      PROVE  Stage(i)'
  <2>1. /\ step = "start" /\ at \in 1 .. Len(Order) /\ d = Order[at] /\ SendTo(d, "START")
        /\ conn' = conn /\ "START" \in Commands
        /\ IF at = Len(Order) THEN step' = "select" ELSE step' = "start" /\ at' = at + 1
    BY <1>6 DEF Start, Current, Goto, Commands
  <2>2. CASE i = at
    <3>1. Ready(d)
      BY <1>0, <2>1, <2>2 DEF Stage
    <3>2. /\ Len(toD'[d]) = Len(toD[d]) + 1 /\ toD'[d][Len(toD[d]) + 1] = "START"
      BY <2>1, SendEffect
    <3>3. Started(d)'
      BY <1>0, <3>1, <3>2 DEF Ready, Started, Only, Passed
    <3>4. QED
      BY <1>0, <2>1, <2>2, <3>3 DEF Stage, SettingUp, Collecting
  <2>3. CASE i # at
    <3>1. toD'[Order[i]] = toD[Order[i]]
      BY <1>0, <1>a, <2>1, <2>3, SendEffect
    <3>2. (i < at => Started(Order[i])') /\ (i > at => Ready(Order[i])')
      BY <1>0, <2>1, <2>3, <3>1, Untouched DEF Stage, SettingUp
    <3>3. QED
      BY <1>0, <2>1, <2>3, <3>2 DEF Stage, SettingUp, Collecting
  <2>4. QED
    BY <2>2, <2>3
<1>7. ASSUME Select \/ PollTargets \/ \E d \in Daemons : ReadClient(d),
             step' \notin {"close", "output"}
      PROVE  Stage(i)'
  <2>1. step \in Collecting /\ step' \in Collecting \cup {"stop"} /\ UNCHANGED <<conn, toD>>
    BY <1>7 DEF Select, PollTargets, ReadClient, Unmarshall, Raise, Goto, Collecting, net
  <2>2. Started(Order[i])'
    BY <1>0, <2>1, Untouched DEF Stage
  <2>3. QED
    BY <2>1, <2>2 DEF Stage, SettingUp, Collecting
<1>8. ASSUME NEW d \in Daemons, Stop(d)
      PROVE  Stage(i)'
  <2>1. /\ step = "stop" /\ at \in 1 .. Len(Targets) /\ d = Order[at] /\ SendTo(d, "STOP")
        /\ step' = "target_data" /\ at' = at /\ conn' = conn /\ "STOP" \in Commands
    BY <1>8, OrderFacts DEF Stop, Current, Goto, Commands
  <2>2. CASE i > at /\ i <= Len(Targets)
    <3>1. toD'[Order[i]] = toD[Order[i]]
      BY <1>0, <1>a, <2>1, <2>2, SendEffect
    <3>2. Started(Order[i])'
      BY <1>0, <2>1, <2>2, <3>1, Untouched DEF Stage
    <3>3. QED
      BY <2>1, <3>2 DEF Stage, SettingUp, Collecting
  <2>3. QED
    BY <1>0, <2>1, <2>2 DEF Stage, SettingUp, Collecting
<1>9. ASSUME NEW d \in Daemons, TargetData(d), step' \notin {"close", "output"}
      PROVE  Stage(i)'
  <2>1. /\ step = "target_data" /\ step' = "stop" /\ at' = at + 1 /\ UNCHANGED <<conn, toD>>
    BY <1>9 DEF TargetData, Unmarshall, Raise, Goto
  <2>2. CASE i >= at' /\ i <= Len(Targets)
    BY <1>0, <2>1, <2>2, Untouched DEF Stage, SettingUp, Collecting
  <2>3. QED
    BY <1>0, <2>1, <2>2 DEF Stage, SettingUp, Collecting
<1>10. ASSUME \/ Output \/ PluginFails \/ Closed
              \/ \E d \in Daemons : ConnectRefused(d) \/ NoTestTarget(d) \/ Close(d)
                                    \/ CutShort(d) \/ NoAnswer(d) \/ SendFails(d)
       PROVE  step' \in {"close", "exit", "spinning"}
  BY <1>10 DEF Output, PluginFails, Closed, ConnectRefused, NoTestTarget, Close, CutShort,
               NoAnswer, SendFails, Exits, Raise, Goto
<1>11. QED
  BY <1>1, <1>2, <1>3, <1>4, <1>5, <1>6, <1>7, <1>8, <1>9, <1>10 DEF CNext

\* A word for d behind what is in its socket.
LEMMA SendQueues ==
  ASSUME TypeOK, Queues, UNCHANGED dvars, NEW d \in Daemons, NEW w \in Commands, SendTo(d, w),
         \/ w = "QUIT"
         \/ /\ sess[d] \notin {"none"}
            /\ sess[d] \in Waiting => \/ Len(toD[d]) = 0 /\ w = Word(sess[d])
                                      \/ /\ sess[d] = "run" /\ Only(toD[d], "START")
                                         /\ w = "STOP"
            /\ child[d] = "reading" => Len(toD[d]) = 0 /\ w = "STOP"
  PROVE  Queues'
<1> SUFFICES ASSUME NEW e \in Daemons PROVE Queue(e)'
  BY DEF Queues
<1>0. Queue(e) /\ UNCHANGED <<sess, child>>
  BY DEF Queues, dvars
<1>1. CASE e # d
  BY <1>0, <1>1, SendEffect DEF Queue
<1>2. CASE e = d
  <2>1. /\ Len(toD[d]) \in Nat /\ Len(toD'[d]) = Len(toD[d]) + 1
        /\ \A i \in 1 .. Len(toD[d]) : toD'[d][i] = toD[d][i]
        /\ toD'[d][Len(toD[d]) + 1] = w
    BY SendEffect
  <2>2. ASSUME NEW i \in 1 .. Len(toD'[d])
        PROVE  i \in 1 .. Len(toD[d]) \/ i = Len(toD[d]) + 1
    BY <2>1
  <2>3. CASE w = "QUIT"
    <3>1. ASSUME NEW i \in 1 .. Len(toD'[d]) PROVE i \in 1 .. Len(toD[d]) \/ toD'[d][i] = "QUIT"
      BY <2>1, <2>2, <2>3
    <3>2. \A i \in 1 .. Len(toD[d]) : toD'[d][i] = toD[d][i] /\ toD'[d][1] = toD[d][1]
      BY <2>1
    <3>3. QED
      BY <1>0, <1>2, <3>1, <3>2 DEF Queue
  <2>4. CASE w # "QUIT"
    <3>1. sess[d] \in Waiting \cup {"none"} => child[d] = "none"
      BY <1>0, <1>2 DEF Queue
    <3>2. ASSUME NEW i \in 1 .. Len(toD'[d])
          PROVE  /\ sess[d] = "none" => toD'[d][i] = "QUIT"
                 /\ sess[d] \in Waiting => \/ toD'[d][i] = "QUIT"
                                           \/ i = 1 /\ toD'[d][i] = Word(sess[d])
                                           \/ i = 2 /\ sess[d] = "run" /\ toD'[d][i] = "STOP"
                                                    /\ toD'[d][1] = "START"
                 /\ child[d] = "reading" => \/ toD'[d][i] = "QUIT"
                                            \/ i = 1 /\ toD'[d][i] = "STOP"
      <4>1. CASE sess[d] \in Waiting /\ Len(toD[d]) = 0
        <5>1. w = Word(sess[d]) /\ sess[d] # "none" /\ child[d] = "none"
          BY <2>4, <3>1, <4>1 DEF Only
        <5>2. i = 1 /\ toD'[d][i] = w
          BY <2>1, <4>1
        <5>3. QED
          BY <5>1, <5>2
      <4>2. CASE sess[d] \in Waiting /\ Len(toD[d]) # 0
        <5>1. sess[d] = "run" /\ Len(toD[d]) = 1 /\ toD[d][1] = "START" /\ w = "STOP"
          BY <2>4, <4>2 DEF Only
        <5>2. toD'[d][1] = "START" /\ toD'[d][2] = "STOP" /\ i \in {1, 2}
          BY <2>1, <5>1
        <5>3. child[d] = "none" /\ Word(sess[d]) = "START"
          BY <3>1, <4>2, <5>1 DEF Word
        <5>4. QED
          BY <5>1, <5>2, <5>3
      <4>3. CASE sess[d] \notin Waiting
        <5>1. sess[d] # "none" /\ (child[d] = "reading" => Len(toD[d]) = 0 /\ w = "STOP")
          BY <2>4
        <5>2. CASE child[d] = "reading"
          <6>1. Len(toD'[d]) = 1 /\ toD'[d][1] = "STOP"
            BY <2>1, <5>1, <5>2
          <6>2. QED
            BY <4>3, <5>1, <6>1
        <5>3. QED
          BY <4>3, <5>1, <5>2
      <4>4. QED
        BY <4>1, <4>2, <4>3
    <3>3. QED
      BY <1>0, <1>2, <3>1, <3>2 DEF Queue
  <2>5. QED
    BY <2>3, <2>4
<1>3. QED
  BY <1>1, <1>2

\* main() sends no word before its time.
LEMMA ControllerQueues ==
  ASSUME TypeOK, Stages, Queues, CNext, UNCHANGED dvars
  PROVE  Queues'
<1>0. UNCHANGED <<sess, child>>
  BY DEF dvars
<1>1. CASE toD' = toD
  BY <1>0, <1>1 DEF Queues, Queue
<1>2. ASSUME NEW d \in Daemons, Banner(d) \/ Hello(d) \/ Load(d), step' # "close"
      PROVE  Queues'
  <2>1. {"HELLO", "LOAD", "SETUP"} \subseteq Commands
    BY DEF Commands
  <2>2. CASE Banner(d)
    <3>1. /\ (sess[d] = "listen" /\ Len(toD[d]) = 0) \/ sess[d] \in {"refused", "failed"}
          /\ child[d] = "none" /\ SendTo(d, "HELLO")
      BY <1>2, <2>2, ProceedStages DEF Banner
    <3>2. QED
      BY <2>1, <3>1, SendQueues DEF Waiting, Word
  <2>3. CASE Hello(d)
    <3>1. /\ (sess[d] = "setup" /\ Len(toD[d]) = 0) \/ sess[d] \in {"refused", "failed"}
          /\ child[d] = "none" /\ SendTo(d, "LOAD")
      BY <1>2, <2>3, ProceedStages DEF Hello
    <3>2. QED
      BY <2>1, <3>1, SendQueues DEF Waiting, Word
  <2>4. CASE Load(d)
    <3>1. /\ (sess[d] = "loaded" /\ Len(toD[d]) = 0) \/ sess[d] \in {"refused", "failed"}
          /\ child[d] = "none" /\ SendTo(d, "SETUP")
      BY <1>2, <2>4, ProceedStages DEF Load
    <3>2. QED
      BY <2>1, <3>1, SendQueues DEF Waiting, Word
  <2>5. QED
    BY <1>2, <2>2, <2>3, <2>4
<1>3. ASSUME NEW d \in Daemons, Start(d)
      PROVE  Queues'
  <2>1. /\ step = "start" /\ at \in 1 .. Len(Order) /\ d = Order[at] /\ SendTo(d, "START")
        /\ "START" \in Commands
    BY <1>3 DEF Start, Current, Commands
  <2>2. Ready(d)
    BY <2>1 DEF Stages, Stage, TypeOK, CTypeOK
  <2>3. QED
    BY <2>1, <2>2, SendQueues DEF Ready, Waiting, Word
<1>4. ASSUME NEW d \in Daemons, Stop(d)
      PROVE  Queues'
  <2>1. /\ step = "stop" /\ at \in 1 .. Len(Targets) /\ at \in 1 .. Len(Order) /\ d = Order[at]
        /\ SendTo(d, "STOP") /\ "STOP" \in Commands
    BY <1>4, OrderFacts DEF Stop, Current, Commands
  <2>2. Started(d)
    BY <2>1, OrderFacts DEF Stages, Stage
  <2>3. sess[d] \notin {"none"} /\ (sess[d] \in Waiting => sess[d] = "run")
    BY <2>2 DEF Started, Passed, Waiting
  <2>4. QED
    BY <2>1, <2>2, <2>3, SendQueues DEF Started
<1>5. ASSUME NEW d \in Daemons, Close(d)
      PROVE  Queues'
  <2>1. toD' = toD \/ SendTo(d, "QUIT")
    BY <1>5 DEF Close, Exits
  <2>2. QED
    BY <1>1, <2>1, SendQueues DEF Commands
<1>6. QED
  <2>1. ASSUME NEW d \in Daemons, Banner(d) \/ Hello(d) \/ Load(d), step' = "close"
        PROVE  toD' = toD
    BY <2>1 DEF Banner, Hello, Load, Proceed, Raise, Goto
  <2>2. ASSUME \/ Select \/ PollTargets \/ Output \/ PluginFails \/ Closed
               \/ \E d \in Daemons : AskAbort(d) \/ Connect(d) \/ ConnectRefused(d)
                                     \/ NoTestTarget(d) \/ SetupAnswered(d) \/ ReadClient(d)
                                     \/ TargetData(d) \/ CutShort(d) \/ NoAnswer(d)
                                     \/ SendFails(d)
        PROVE  toD' = toD
    BY <2>2 DEF Select, PollTargets, Output, PluginFails, Closed, AskAbort, Connect,
       ConnectRefused, NoTestTarget, SetupAnswered, ReadClient, TargetData, Unmarshall,
       CutShort, NoAnswer, SendFails, Exits, net
  <2>3. QED
    BY <1>1, <1>2, <1>3, <1>4, <1>5, <2>1, <2>2 DEF CNext

\* What main() sends and receives.
LEMMA ControllerSends ==
  ASSUME CNext
  PROVE  \/ toD' = toD
         \/ \E d \in Daemons, w \in Commands : /\ SendTo(d, w)
                                               /\ w = "START" => step = "start"
                                               /\ w = "STOP" => step = "stop"
<1>1. ASSUME NEW d \in Daemons, NEW s, NEW n, NEW w \in {"HELLO", "LOAD", "SETUP"},
             Proceed(d, s, n, w)
      PROVE  toD' = toD \/ SendTo(d, w)
  BY <1>1 DEF Proceed
<1>2. {"HELLO", "LOAD", "SETUP", "START", "STOP", "QUIT"} \subseteq Commands
  BY DEF Commands
<1>3. ASSUME NEW d \in Daemons, Banner(d) \/ Hello(d) \/ Load(d)
      PROVE  toD' = toD \/ \E w \in {"HELLO", "LOAD", "SETUP"} : SendTo(d, w)
  BY <1>1, <1>3 DEF Banner, Hello, Load
<1>4. ASSUME NEW d \in Daemons, Start(d) \/ Stop(d) \/ Close(d)
      PROVE  \/ toD' = toD
             \/ SendTo(d, "START") /\ step = "start"
             \/ SendTo(d, "STOP") /\ step = "stop"
             \/ SendTo(d, "QUIT")
  BY <1>4 DEF Start, Stop, Close, Exits
<1>5. ASSUME \/ Select \/ PollTargets \/ Output \/ PluginFails \/ Closed
             \/ \E d \in Daemons : AskAbort(d) \/ Connect(d) \/ ConnectRefused(d)
                                   \/ NoTestTarget(d) \/ SetupAnswered(d) \/ ReadClient(d)
                                   \/ TargetData(d) \/ CutShort(d) \/ NoAnswer(d)
                                   \/ SendFails(d)
      PROVE  toD' = toD
  BY <1>5 DEF Select, PollTargets, Output, PluginFails, Closed, AskAbort, Connect,
              ConnectRefused, NoTestTarget, SetupAnswered, ReadClient, TargetData, Unmarshall,
              CutShort, NoAnswer, SendFails, Exits, net
<1>6. ASSUME NEW d \in Daemons, NEW w \in {"HELLO", "LOAD", "SETUP", "QUIT"}, SendTo(d, w)
      PROVE  \E e \in Daemons, v \in Commands : /\ SendTo(e, v)
                                                /\ v = "START" => step = "start"
                                                /\ v = "STOP" => step = "stop"
  BY <1>2, <1>6
<1>7. QED
  BY <1>2, <1>3, <1>4, <1>5, <1>6 DEF CNext

\* The data of d was received and stored.
Stores(d) == /\ Receive(d, "220")
             /\ results' = results \cup {d}

LEMMA ControllerReceives ==
  ASSUME CNext
  PROVE  \/ results' = results /\ (toC' = toC \/ \E d \in Daemons, c \in Codes : Receive(d, c))
         \/ \E d \in Daemons : Stores(d) /\ (ReadClient(d) \/ TargetData(d))
<1>1. ASSUME NEW d \in Daemons, ReadClient(d) \/ TargetData(d)
      PROVE  Stores(d) \/ (results' = results /\ \E c \in Codes : Receive(d, c))
  BY <1>1 DEF ReadClient, TargetData, Unmarshall, Stores, Receive
<1>2. ASSUME NEW d \in Daemons,
             Banner(d) \/ Hello(d) \/ Load(d) \/ NoTestTarget(d) \/ SetupAnswered(d)
      PROVE  results' = results /\ \E c \in Codes : Receive(d, c)
  BY <1>2 DEF Banner, Hello, Load, Proceed, NoTestTarget, SetupAnswered, Codes
<1>3. ASSUME \/ Select \/ PollTargets \/ Output \/ PluginFails \/ Closed
             \/ \E d \in Daemons : AskAbort(d) \/ Connect(d) \/ ConnectRefused(d)
                                   \/ Start(d) \/ Stop(d) \/ Close(d)
                                   \/ CutShort(d) \/ NoAnswer(d) \/ SendFails(d)
      PROVE  results' = results /\ toC' = toC
  BY <1>3 DEF Select, PollTargets, Output, PluginFails, Closed, AskAbort, Connect,
              ConnectRefused, Start, Stop, Close, CutShort, NoAnswer, SendFails, Exits, net
<1>4. QED
  BY <1>1, <1>2, <1>3 DEF CNext

\* The order of the experiment, as main() keeps it.
LEMMA ControllerOrder ==
  ASSUME TypeOK, Stages, Barrier, DataReported, LastCall, Collected, CNext, UNCHANGED dvars
  PROVE  Barrier' /\ DataReported' /\ LastCall' /\ Collected'
<1>0. UNCHANGED <<sess, child, stopped>>
  BY DEF dvars
<1>a. ASSUME NEW d \in Daemons PROVE HasReported(d)' <=> HasReported(d)
  BY <1>0 DEF HasReported
<1>b. \A e \in Daemons : \A i \in 1 .. Len(toD'[e]) :
        \/ toD'[e][i] \notin {"START", "STOP"}
        \/ \E j \in 1 .. Len(toD[e]) : toD'[e][i] = toD[e][j]
        \/ toD'[e][i] = "START" /\ step = "start"
        \/ toD'[e][i] = "STOP" /\ step = "stop"
  <2>1. CASE toD' = toD
    BY <2>1
  <2>2. ASSUME NEW d \in Daemons, NEW w \in Commands, SendTo(d, w), NEW e \in Daemons,
               NEW i \in 1 .. Len(toD'[e])
        PROVE  toD'[e][i] = w \/ \E j \in 1 .. Len(toD[e]) : toD'[e][i] = toD[e][j]
    <3>1. CASE e # d
      BY <2>2, <3>1, SendEffect
    <3>2. CASE e = d
      <4>1. /\ Len(toD[d]) \in Nat /\ Len(toD'[d]) = Len(toD[d]) + 1
            /\ \A j \in 1 .. Len(toD[d]) : toD'[d][j] = toD[d][j]
            /\ toD'[d][Len(toD[d]) + 1] = w
        BY <2>2, SendEffect
      <4>2. i \in 1 .. Len(toD[d]) \/ i = Len(toD[d]) + 1
        BY <2>2, <3>2, <4>1
      <4>3. QED
        BY <3>2, <4>1, <4>2
    <3>3. QED
      BY <3>1, <3>2
  <2>3. QED
    BY <2>1, <2>2, ControllerSends
<1>c. ASSUME NEW d \in Daemons, Stores(d)
      PROVE  /\ HasReported(d) /\ d \in results'
             /\ \A e \in Daemons : e \in results => e \in results'
             /\ \A e \in Daemons \ {d} : e \in results' <=> e \in results
  <2>1. Receive(d, "220")
    BY <1>c DEF Stores
  <2>2. HasReported(d)
    BY <2>1, ReceiveEffect DEF DataReported
  <2>3. QED
    BY <1>c, <2>2 DEF Stores, TypeOK, CTypeOK
<1>1. Barrier'
  <2>1. ASSUME step = "start", NEW e \in Daemons PROVE sess[e] \in Passed
    <3>1. PICK i \in 1 .. Len(Order) : Order[i] = e
      BY PlaceInOrder
    <3>2. Stage(i)
      BY DEF Stages
    <3>3. i < at \/ i >= at
      BY OrderFacts DEF TypeOK, CTypeOK
    <3>4. QED
      BY <2>1, <3>1, <3>2, <3>3 DEF Stage, Ready, Started, Passed
  <2>2. QED
    BY <1>0, <1>b, <2>1 DEF Barrier
<1>2. DataReported'
  <2>1. \A e \in Daemons : e \in results' => HasReported(e)
    BY <1>c, ControllerReceives DEF DataReported
  <2>2. toC' = toC \/ \E d \in Daemons, c \in Codes : Receive(d, c)
    BY ControllerReceives DEF Stores, Codes
  <2>3. ASSUME NEW e \in Daemons, NEW i \in 1 .. Len(toC'[e])
        PROVE  \E j \in 1 .. Len(toC[e]) : toC'[e][i] = toC[e][j]
    <3>1. CASE toC'[e] = toC[e]
      BY <2>3, <3>1
    <3>2. CASE \E c \in Codes : Receive(e, c)
      <4>1. /\ Len(toC[e]) \in Nat \ {0} /\ Len(toC'[e]) = Len(toC[e]) - 1
            /\ \A j \in 1 .. Len(toC[e]) - 1 : toC'[e][j] = toC[e][j + 1]
        BY <3>2, ReceiveEffect
      <4>2. i + 1 \in 1 .. Len(toC[e]) /\ toC'[e][i] = toC[e][i + 1]
        BY <2>3, <4>1
      <4>3. QED
        BY <4>2
    <3>3. QED
      BY <2>2, <3>1, <3>2, ReceiveEffect
  <2>4. ASSUME NEW e \in Daemons, NEW i \in 1 .. Len(toC'[e]), toC'[e][i] = "220"
        PROVE  HasReported(e)'
    <3>1. HasReported(e)
      BY <2>3, <2>4 DEF DataReported
    <3>2. QED
      BY <1>a, <3>1
  <2>5. QED
    BY <1>a, <2>1, <2>4 DEF DataReported
<1>3. LastCall'
  <2>1. /\ step' \in {"stop", "target_data"}
             => step \in {"stop", "target_data"} \/ (step = "poll" /\ waiting = {})
        /\ step' = "output" => step = "target_data" \/ (step = "poll" /\ waiting = {})
    BY DEF CNext, AskAbort, Connect, ConnectRefused, Banner, Hello, Load, Proceed,
       NoTestTarget, CutShort, PluginFails, Collects, SetupAnswered, Start, ReadClient, Stop,
       TargetData, Unmarshall, Close, NoAnswer, SendFails, Select, PollTargets, Output,
       Closed, Exits, Raise, Goto
  <2>2. step = "poll" /\ waiting = {} => \A c \in ClientSet : HasReported(c)
    BY DEF Collected, Collecting, DataReported, ClientSet, Daemons
  <2>3. StopSent' => StopSent \/ (step = "poll" /\ waiting = {})
    BY <1>0, <1>b, <2>1 DEF StopSent
  <2>4. QED
    BY <1>a, <2>2, <2>3 DEF LastCall, ClientSet, Daemons
<1>4. Collected'
  <2>0. results \subseteq Daemons
    BY DEF TypeOK, CTypeOK
  <2>1. \A e \in Daemons : e \in results => e \in results'
    BY <1>c, ControllerReceives
  <2>2. ASSUME step' \in Collecting, NEW c \in ClientSet, c \notin waiting'
        PROVE  c \in results'
    <3>1. CASE step = "start"
      BY <2>2, <3>1 DEF CNext, AskAbort, Connect, ConnectRefused, Banner, Hello, Load,
         Proceed, NoTestTarget, CutShort, PluginFails, Collects, SetupAnswered, Start,
         ReadClient, Stop, TargetData, Unmarshall, Close, NoAnswer, SendFails, Select,
         PollTargets, Output, Closed, Exits, Raise, Goto, Collecting, ClientSet
    <3>2. CASE step # "start"
      <4>1. step \in Collecting
        BY <2>2, <3>2
           DEF CNext, AskAbort, Connect, ConnectRefused, Banner, Hello, Load, Proceed,
              NoTestTarget, CutShort, PluginFails, Collects, SetupAnswered, Start,
              ReadClient, Stop, TargetData, Unmarshall, Close, NoAnswer, SendFails, Select,
              PollTargets, Output, Closed, Exits, Raise, Goto, Collecting
      <4>2. CASE c \notin waiting
        BY <2>1, <2>2, <4>1, <4>2 DEF Collected, ClientSet, Daemons
      <4>3. CASE c \in waiting
        <5>1. PICK d \in Daemons : ReadClient(d) /\ waiting' = waiting \ {d}
                                   /\ d \in results'
          <6>1. \E d \in Daemons : ReadClient(d)
            BY <2>2, <3>2, <4>1, <4>3
               DEF CNext, AskAbort, Connect, ConnectRefused, Banner, Hello, Load, Proceed,
                  NoTestTarget, CutShort, PluginFails, Collects, SetupAnswered, Start, Stop,
                  TargetData, Unmarshall, Close, NoAnswer, SendFails, Select, PollTargets,
                  Output, Closed, Exits, Raise, Goto, Collecting, loop
          <6>2. QED
            BY <2>0, <2>2, <6>1 DEF ReadClient, Unmarshall, Raise, Goto, Collecting
        <5>2. QED
          BY <2>2, <4>3, <5>1
      <4>4. QED
        BY <4>2, <4>3
    <3>3. QED
      BY <3>1, <3>2
  <2>3. ASSUME step' \in {"stop", "target_data", "output"}
        PROVE  \/ step = "poll" /\ at' = 1 /\ (step' = "output" => Targets = << >>)
               \/ step = "stop" /\ step' = "target_data" /\ at' = at
               \/ /\ step = "target_data" /\ step' \in {"stop", "output"}
                  /\ step' = "stop" => at' = at + 1
                  /\ step' = "output" => at = Len(Targets)
                  /\ at \in 1 .. Len(Targets) /\ Targets[at] \in results'
    <3>1. CASE \E d \in Daemons : TargetData(d)
      BY <2>0, <2>3, <3>1 DEF TargetData, Unmarshall, Current, Raise, Goto
    <3>2. CASE PollTargets
      BY <2>3, <3>2 DEF PollTargets, Raise, Goto
    <3>3. CASE \E d \in Daemons : Stop(d)
      BY <2>3, <3>3 DEF Stop, Goto
    <3>4. QED
      BY <2>3, <3>1, <3>2, <3>3
         DEF CNext, AskAbort, Connect, ConnectRefused, Banner, Hello, Load, Proceed,
            NoTestTarget, CutShort, PluginFails, Collects, SetupAnswered, Start, ReadClient,
            Unmarshall, Close, NoAnswer, SendFails, Select, Output, Closed, Exits, Raise,
            Goto
  <2>4. ASSUME step' \in {"stop", "target_data"}, NEW j \in 1 .. Len(Targets), j < at'
        PROVE  Targets[j] \in results'
    <3>1. Targets[j] \in Daemons /\ j \in Nat \ {0} /\ at \in Nat
      BY OrderFacts DEF TargetSet, Daemons, TypeOK, CTypeOK
    <3>2. QED
      BY <2>1, <2>3, <2>4, <3>1 DEF Collected
  <2>5. ASSUME step' = "output", NEW t \in TargetSet
        PROVE  t \in results'
    <3>1. PICK j \in 1 .. Len(Targets) : t = Targets[j]
      BY TargetsAssumption DEF TargetSet, Range
    <3>2. t \in Daemons /\ Len(Targets) \in Nat
      BY OrderFacts DEF TargetSet, Daemons
    <3>3. Targets # << >>
      BY <3>1
    <3>4. QED
      BY <2>1, <2>3, <2>5, <3>1, <3>2, <3>3 DEF Collected
  <2>6. QED
    BY <2>2, <2>4, <2>5 DEF Collected
<1>5. QED
  BY <1>1, <1>2, <1>3, <1>4

-----------------------------------------------------------------------------
(* The theorems *)

\* The invariant holds in every reachable state.
THEOREM Invariance == Spec => []IndInv
<1>1. Init => IndInv
  <2> SUFFICES ASSUME Init PROVE IndInv
    OBVIOUS
  <2>1. step = "connect" /\ at = 1 /\ stopped = {} /\ waiting = {}
    BY DEF Init, CInit
  <2>2. \A d \in Daemons :
          /\ toD[d] = << >> /\ toC[d] = << >> /\ conn[d] = "none" /\ d \notin results
          /\ sess[d] = "none" /\ child[d] = "none" /\ claimed[d] # "own"
    BY DEF Init, CInit
  <2>3. TypeOK
    <3>1. << >> \in Seq(Commands) /\ << >> \in Seq(Codes)
      OBVIOUS
    <3>2. 1 \in 1 .. Len(Order) + 1
      BY OrderFacts
    <3>3. CTypeOK
      BY <3>1, <3>2 DEF Init, CInit, CTypeOK
    <3>4. QED
      BY <3>3 DEF Init, TypeOK
  <2>4. Stages
    <3> SUFFICES ASSUME NEW i \in 1 .. Len(Order) PROVE Stage(i)
      BY DEF Stages
    <3>1. Fresh(Order[i]) /\ ~ (i < at)
      BY <2>1, <2>2, OrderFacts DEF Fresh
    <3>2. QED
      BY <2>1, <3>1 DEF Stage, SettingUp, Collecting
  <2>5. Queues /\ Barrier
    BY <2>2 DEF Queues, Queue, Barrier, Waiting
  <2>6. Claims /\ Children
    BY <2>2 DEF Claims, Children
  <2>7. DataReported
    BY <2>2 DEF DataReported
  <2>8. LastCall /\ Collected
    <3>1. TargetSet \subseteq Daemons
      BY DEF TargetSet, Daemons
    <3>2. QED
      BY <2>1, <2>2, <3>1 DEF LastCall, StopSent, Collected, Collecting
  <2>9. QED
    BY <2>3, <2>4, <2>5, <2>6, <2>7, <2>8 DEF IndInv
<1>2. IndInv /\ [Next]_vars => IndInv'
  <2> SUFFICES ASSUME IndInv, [Next]_vars PROVE IndInv'
    OBVIOUS
  <2> USE DEF IndInv
  <2>1. CASE CNext /\ UNCHANGED dvars
    <3>1. TypeOK'
      BY <2>1, ControllerTypes DEF TypeOK, dvars
    <3>2. Claims' /\ Children'
      BY <2>1 DEF Claims, Children, dvars
    <3>3. QED
      BY <2>1, <3>1, <3>2, ControllerStages, ControllerQueues, ControllerOrder
  <2>2. ASSUME NEW d \in Daemons, Daemon(d) \/ Killed(d)
        PROVE  IndInv'
    <3>1. Frame(d) /\ Effect(d)
      BY <2>2, DaemonFrame, DaemonEffect
    <3>2. QED
      BY <2>2, <3>1, DaemonTypes, DaemonStages, DaemonQueues, DaemonClaims, DaemonOrder
  <2>3. CASE UNCHANGED vars
    <3>1. UNCHANGED dvars /\ UNCHANGED cvars
      BY <2>3 DEF vars
    <3>2. TypeOK'
      BY <3>1 DEF dvars, cvars, loop, net, TypeOK, CTypeOK
    <3>3. Stages' /\ Queues' /\ Claims' /\ Children'
      BY <3>1 DEF dvars, cvars, loop, net, Stages, Stage, Fresh, AwaitsBanner, Awaited, Ready,
                  Started, Only, Queues, Queue, Claims, Children
    <3>4. Barrier' /\ DataReported' /\ LastCall' /\ Collected'
      BY <3>1 DEF dvars, cvars, loop, net, Barrier, DataReported, HasReported, LastCall,
                  StopSent, Collected
    <3>5. QED
      BY <3>2, <3>3, <3>4
  <2>4. QED
    BY <2>1, <2>2, <2>3 DEF Next, Over
<1>3. QED
  BY <1>1, <1>2, PTL DEF Spec

\* The variables of a run keep their types, whatever the controller and the
\* daemons do to one another.
THEOREM SystemTypeCorrect == Spec => []TypeOK
  BY Invariance, PTL DEF IndInv

\* No daemon, and no child of a target, is sent a word it would answer with a
\* syntax error, for any number of targets and clients.
THEOREM WordsAreKnown == Spec => []NoSyntaxErrors
<1>1. IndInv => NoSyntaxErrors
  <2> SUFFICES ASSUME IndInv, NEW d \in Daemons, toD[d] # << >>
               PROVE  /\ sess[d] \in Waiting => Head(toD[d]) \in Known(sess[d])
                      /\ child[d] = "reading" => Head(toD[d]) \in Known("forked")
    BY DEF NoSyntaxErrors
  <2>1. Queue(d) /\ toD[d] \in Seq(Commands)
    BY DEF IndInv, Queues, TypeOK, CTypeOK
  <2>2. 1 \in 1 .. Len(toD[d]) /\ Head(toD[d]) = toD[d][1]
    BY <2>1, TailFacts
  <2>3. QED
    BY <2>1, <2>2 DEF Queue, Known, Word, Waiting
<1>2. QED
  BY <1>1, Invariance, PTL

-----------------------------------------------------------------------------
(* A run is an experiment *)

\* A step of a daemon is a step of its machine in the experiment.
LEMMA DaemonRefines ==
  ASSUME IndInv, NEW d \in Daemons, Daemon(d) \/ Killed(d)
  PROVE  [Abstract!Next]_<<Phases, printed>>
<1> DEFINE after(p) == Phases' = [Phases EXCEPT ![d] = p] /\ printed' = printed
<1>0. /\ Frame(d) /\ Effect(d) /\ TypeOK /\ Barrier /\ LastCall
      /\ Daemons = TargetSet \cup ClientSet
  <2>1. IndInv => TypeOK /\ Children /\ Claims /\ Barrier /\ LastCall
    BY DEF IndInv
  <2>2. Frame(d) /\ Effect(d)
    BY <2>1, DaemonFrame, DaemonEffect
  <2>3. QED
    BY <2>1, <2>2 DEF Daemons, TargetSet, ClientSet
<1>a. \A e \in Daemons : Phases[e] = Phase(e)
  BY DEF Phases
<1>1. \A p : Phase(d)' = p => after(p)
  <2>1. \A e \in Daemons \ {d} : Phase(e)' = Phase(e)
    BY <1>0 DEF Frame, Phase
  <2>2. printed' = printed
    BY <1>0 DEF Frame
  <2>3. QED
    BY <2>1, <2>2 DEF Phases
<1>b. Phase(d)' = Phase(d) => UNCHANGED <<Phases, printed>>
  BY <1>0 DEF Frame, Phase, Phases
<1> HIDE DEF after
<1> USE <1>a
<1>2. CASE Phase(d)' = Phase(d)
  BY <1>b, <1>2
<1>3. CASE Phase(d) = "idle" /\ Phase(d)' = "ready"
  BY <1>0, <1>1, <1>3 DEF after, Abstract!Next, Abstract!Prepare, Abstract!Goto,
     Abstract!Machines
<1>4. CASE Begins(d)
  <2>1. Phase(d) = "ready" /\ Phase(d)' = "running"
    BY <1>4 DEF Begins, Phase
  <2>2. \A e \in Daemons : sess[e] \in Passed
    BY <1>0, <1>4, QueueEffect DEF Begins, Barrier
  <2>3. \A e \in Daemons : Phases[e] \notin {"idle", "refused"}
    BY <2>2 DEF Passed, Phase
  <2>4. QED
    BY <1>0, <1>1, <2>1, <2>3
       DEF after, Abstract!Next, Abstract!Begin, Abstract!Goto, Abstract!Machines
<1>5. CASE Refuses(d) \/ Fails(d)
  <2>1. \/ Phase(d) = "idle" /\ Phase(d)' = "refused"
        \/ Phase(d) \in {"ready", "running"} /\ Phase(d)' = "failed"
    BY <1>5 DEF Refuses, Fails, Phase
  <2>2. QED
    BY <1>0, <1>1, <2>1 DEF after, Abstract!Next, Abstract!Fail, Abstract!Goto,
       Abstract!Machines
<1>6. CASE Advances(d) /\ sess[d] = "marshall"
  <2>1. Phase(d) = "running" /\ Phase(d)' = "done"
    BY <1>6 DEF Advances, Phase
  <2>2. CASE d \in ClientSet
    BY <1>0, <1>1, <2>1, <2>2 DEF after, Abstract!Next, Abstract!FinishClient, Abstract!Goto
  <2>3. CASE d \in TargetSet
    <3>1. \A c \in ClientSet : Phases[c] = "done"
      BY <1>0, <1>6, <2>3 DEF LastCall, StopSent, HasReported, Phase
    <3>2. QED
      BY <1>0, <1>1, <2>1, <2>3, <3>1
         DEF after, Abstract!Next, Abstract!FinishTarget, Abstract!Goto
  <2>4. QED
    BY <1>0, <2>2, <2>3
<1>7. QED
  <2>1. Greets(d) => Phase(d)' = Phase(d)
    BY DEF Greets, Phase
  <2>2. /\ Agrees(d, "listen", "HELLO", "setup") => Phase(d)' = Phase(d)
        /\ Agrees(d, "setup", "LOAD", "loaded") => Phase(d)' = Phase(d)
        /\ Agrees(d, "loaded", "SETUP", "run") => Phase(d) = "idle" /\ Phase(d)' = "ready"
    BY DEF Agrees, Phase
  <2>3. Finishes(d) \/ ChildEnds(d) \/ Nothing(d) => Phase(d)' = Phase(d)
    BY DEF Finishes, ChildEnds, Nothing, Phase
  <2>4. Advances(d) => sess[d] = "marshall" \/ Phase(d)' = Phase(d)
    BY DEF Advances, Phase
  <2>5. QED
    BY <1>0, <1>2, <1>3, <1>4, <1>5, <1>6, <2>1, <2>2, <2>3, <2>4 DEF Effect

\* main() prints when every machine is done, and moves no machine itself.
LEMMA ControllerRefines ==
  ASSUME IndInv, CNext, UNCHANGED dvars
  PROVE  [Abstract!Next]_<<Phases, printed>>
<1>1. UNCHANGED Phases
  BY DEF dvars, Phase, Phases
<1>2. CASE Output
  <2>1. \A e \in Daemons : HasReported(e)
    BY <1>2 DEF Output, IndInv, Collected, DataReported, LastCall, StopSent, Daemons,
                TargetSet, ClientSet
  <2>2. \A e \in Daemons : Phases[e] = "done"
    BY <2>1 DEF HasReported, Phase, Phases
  <2>3. Abstract!PrintResults
    BY <1>1, <1>2, <2>2 DEF Output, Abstract!PrintResults, Abstract!Machines, Daemons,
                            TargetSet, ClientSet
  <2>4. QED
    BY <2>3 DEF Abstract!Next
<1>3. CASE ~ Output
  BY <1>1, <1>3 DEF CNext, AskAbort, Connect, ConnectRefused, Banner, Hello, Load, Proceed,
     NoTestTarget, CutShort, PluginFails, Collects, SetupAnswered, Start, ReadClient, Stop,
     TargetData, Unmarshall, Close, NoAnswer, SendFails, Select, PollTargets, Closed, Exits
<1>4. QED
  BY <1>2, <1>3

\* Nobody tests before everybody is set up, targets measure until every client
\* has reported, and results are printed only when everybody has: a run of
\* ipbench implements Experiment, for any number of targets and clients, with
\* or without --reset, and whatever fails on the way.
THEOREM RunIsExperiment == Spec => ImplementsExperiment
<1>1. Init => Abstract!Init
  BY DEF Init, CInit, Abstract!Init, Abstract!Machines, Phase, Phases, Daemons, TargetSet,
         ClientSet
<1>2. IndInv /\ [Next]_vars => [Abstract!Next]_<<Phases, printed>>
  <2> SUFFICES ASSUME IndInv, [Next]_vars
               PROVE  [Abstract!Next]_<<Phases, printed>>
    OBVIOUS
  <2>1. CASE UNCHANGED vars
    BY <2>1 DEF vars, cvars, dvars, Phase, Phases
  <2>2. QED
    BY <2>1, DaemonRefines, ControllerRefines DEF Next, Over
<1>3. QED
  BY <1>1, <1>2, Invariance, PTL DEF Spec, ImplementsExperiment, Abstract!Spec
=============================================================================

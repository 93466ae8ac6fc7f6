------------------------ MODULE IpbenchDaemonProofs ------------------------
(***************************************************************************)
(* Proofs about IpbenchDaemon, for any set of handlers.                    *)
(***************************************************************************)
EXTENDS IpbenchDaemon, TLAPS

\* What Exit leaves behind has the right types, whatever dies.
LEMMA ExitTypes ==
  ASSUME TypeOK, NEW S, NEW at \in [Handlers -> States], Exit(S, at)
  PROVE  /\ pc' \in [Handlers -> States]
         /\ peer' \in [Handlers -> {"none", "open", "half", "eof"}]
         /\ cargo' \in [Handlers -> Codes]
         /\ pid_to_kill' \in [Handlers -> Handlers \cup {NoPid}]
  BY DEF TypeOK, Exit, States, Codes

\* The same for a signal.
LEMMA InterruptTypes ==
  ASSUME TypeOK, NEW S, NEW at \in [Handlers -> States], Interrupt(S, at)
  PROVE  /\ pc' \in [Handlers -> States]
         /\ peer' \in [Handlers -> {"none", "open", "half", "eof"}]
         /\ cargo' \in [Handlers -> Codes]
         /\ pid_to_kill' \in [Handlers -> Handlers \cup {NoPid}]
  <1> DEFINE dying == {h \in S : at[h] \notin {"none", "zombie", "testing", "interrupted"}}
             after == [h \in Handlers |-> IF h \in S /\ at[h] = "testing"
                                          THEN "interrupted" ELSE at[h]]
  <1>1. after \in [Handlers -> States]
    BY DEF States
  <1>2. Exit(dying, after)
    BY DEF Interrupt
  <1> HIDE DEF dying, after
  <1>3. QED
    BY <1>1, <1>2, ExitTypes

\* What a signal to the processes in S does to each of them.
LEMMA InterruptEffect ==
  ASSUME TypeOK, NEW S, NEW at \in [Handlers -> States], Interrupt(S, at)
  PROVE  \A g \in Handlers :
           \/ pc'[g] = "zombie" /\ cargo'[g] = "" /\ pid_to_kill'[g] = NoPid
           \/ /\ cargo'[g] = cargo[g] /\ pid_to_kill'[g] = pid_to_kill[g]
              /\ \/ pc'[g] = at[g]
                 \/ at[g] = "testing" /\ pc'[g] = "interrupted"
  BY DEF Interrupt, Exit

\* What a SIGINT step does to each process: nothing, or it dies, or it goes on in
\* its test with the interrupt pending, or it is the sender and moves on.
LEMMA SigintEffect ==
  ASSUME TypeOK, NEW h \in Handlers, AbortSigint(h)
  PROVE  /\ flag' = flag
         /\ \A g \in Handlers :
              \/ pc'[g] = "zombie" /\ cargo'[g] = "" /\ pid_to_kill'[g] = NoPid
              \/ /\ cargo'[g] = cargo[g] /\ pid_to_kill'[g] = pid_to_kill[g]
                 /\ \/ pc'[g] = pc[g]
                    \/ pc[g] = "testing" /\ pc'[g] = "interrupted"
                    \/ g = h /\ pc'[g] \in {"abort_kill", "abort_clear"}
  <1>0. flag' = flag
    BY DEF AbortSigint
  <1>1. CASE Interrupt(Handlers, pc)
    <2>1. pc \in [Handlers -> States]
      BY DEF TypeOK
    <2>2. QED
      BY <1>0, <1>1, <2>1, InterruptEffect
  <1>2. CASE Interrupt({pid_to_kill[h]}, [pc EXCEPT ![h] = "abort_kill"])
    <2> DEFINE at == [pc EXCEPT ![h] = "abort_kill"]
    <2>1. \A g \in Handlers : at[g] = pc[g] \/ (g = h /\ at[g] = "abort_kill")
      BY DEF TypeOK
    <2>2. at \in [Handlers -> States]
      BY DEF TypeOK, States, Aborting
    <2>3. Interrupt({pid_to_kill[h]}, at)
      BY <1>2
    <2> HIDE DEF at
    <2>4. \A g \in Handlers :
            \/ pc'[g] = "zombie" /\ cargo'[g] = "" /\ pid_to_kill'[g] = NoPid
            \/ /\ cargo'[g] = cargo[g] /\ pid_to_kill'[g] = pid_to_kill[g]
               /\ \/ pc'[g] = at[g]
                  \/ at[g] = "testing" /\ pc'[g] = "interrupted"
      BY <2>2, <2>3, InterruptEffect
    <2>5. QED
      BY <1>0, <2>1, <2>4
  <1>3. CASE Goto(h, "abort_clear") /\ UNCHANGED <<server, peer, local, flag>>
    BY <1>3 DEF TypeOK, Goto, local
  <1>4. QED
    BY <1>1, <1>2, <1>3 DEF AbortSigint

\* Every variable of the daemon keeps its type: the flag always holds 0 or the
\* pid of a handler, and a handler is always in a state of the state machine.
THEOREM TypeCorrect == Spec => []TypeOK
<1>1. Init => TypeOK
  BY DEF Init, TypeOK, States, Codes, Waiting
<1>2. TypeOK /\ [Next]_vars => TypeOK'
  <2> SUFFICES ASSUME TypeOK, [Next]_vars PROVE TypeOK'
    OBVIOUS
  <2>1. CASE UNCHANGED vars
    BY <2>1 DEF TypeOK, vars, local
  <2>2. ASSUME NEW h \in Handlers, Accept(h) \/ Reap(h) \/ PeerCloses(h)
        PROVE TypeOK'
    BY <2>2 DEF TypeOK, Accept, Reap, PeerCloses, Goto, local, States, Waiting
  <2>3. ASSUME NEW h \in Handlers, ReadsEof(h) \/ Abort(h) \/ HelloAccepted(h)
                                   \/ Claim(h) \/ Start(h)
        PROVE TypeOK'
    BY <2>3 DEF TypeOK, ReadsEof, Abort, HelloAccepted, Claim, Start, Goto, local,
                States, Waiting, Aborting
  <2>4. ASSUME NEW h \in Handlers, Quit(h) \/ HelloRefused(h) \/ Load(h) \/ Setup(h)
        PROVE TypeOK'
    BY <2>4 DEF TypeOK, Quit, HelloRefused, Load, Setup, Fail, Goto, local,
                States, Waiting, Codes
  <2>5. ASSUME NEW h \in Handlers, ConnectionLost(h) \/ SetupBadArgs(h) \/ MarshallDone(h)
                                   \/ Bye(h) \/ AbortClear(h) \/ AbortSigkill(h)
        PROVE TypeOK'
    <3>1. pc \in [Handlers -> States]
      BY DEF TypeOK
    <3>2. \E S : Exit(S, pc)
      BY <2>5 DEF ConnectionLost, SetupBadArgs, MarshallDone, Bye, AbortClear, AbortSigkill
    <3>3. server' = server /\ flag' \in {flag, NoPid}
      BY <2>5 DEF ConnectionLost, SetupBadArgs, MarshallDone, Bye, AbortClear, AbortSigkill
    <3>4. QED
      BY <3>1, <3>2, <3>3, ExitTypes DEF TypeOK
  <2>6. ASSUME NEW h \in Handlers, StartReturns(h) \/ AbortCheck(h)
        PROVE TypeOK'
    <3>1. CASE Exit({h}, pc) /\ UNCHANGED <<server, flag>>
      BY <3>1, ExitTypes DEF TypeOK
    <3>2. CASE ~ Exit({h}, pc)
      BY <2>6, <3>2 DEF TypeOK, StartReturns, AbortCheck, Fail, Goto, local,
                        States, Waiting, Aborting, Codes
    <3>3. QED
      BY <2>6, <3>1, <3>2 DEF StartReturns, AbortCheck, Fail, local
  <2>7. ASSUME NEW h \in Handlers, Marshall(h) \/ Error(h) \/ AbortReadPid(h)
        PROVE TypeOK'
    BY <2>7 DEF TypeOK, Marshall, Error, AbortReadPid, Fail, Goto, local,
                States, Waiting, Aborting, Codes
  <2>8. ASSUME NEW h \in Handlers, AbortSigint(h)
        PROVE TypeOK'
    <3>1. /\ pc \in [Handlers -> States]
          /\ [pc EXCEPT ![h] = "abort_kill"] \in [Handlers -> States]
      BY DEF TypeOK, States, Aborting
    <3>2. CASE Interrupt(Handlers, pc) /\ server' = "down" /\ flag' = flag
      BY <3>1, <3>2, InterruptTypes DEF TypeOK
    <3>3. CASE Goto(h, "abort_clear") /\ UNCHANGED <<server, peer, local, flag>>
      BY <3>3 DEF TypeOK, Goto, local, States, Aborting
    <3>4. CASE /\ Interrupt({pid_to_kill[h]}, [pc EXCEPT ![h] = "abort_kill"])
               /\ UNCHANGED <<server, flag>>
      BY <3>1, <3>4, InterruptTypes DEF TypeOK
    <3>5. QED
      BY <2>8, <3>2, <3>3, <3>4 DEF AbortSigint
  <2>9. QED
    BY <2>1, <2>2, <2>3, <2>4, <2>5, <2>6, <2>7, <2>8 DEF Next, Handler
<1>3. QED
  BY <1>1, <1>2, PTL DEF Spec

-----------------------------------------------------------------------------
(* The flag is a mutex when controllers take turns (PoliteSpec).            *)

\* An error that is about to clear the flag.
Clearing(h) == pc[h] = "error" /\ cargo[h] # "421"

\* The inductive strengthening of OwnerFlagged.  While a HELLO is between its
\* check and its claim the flag is free; while an ABORT holds a pid, the flag
\* still has that pid or is free; and once an ABORT has found the process gone,
\* there is no owner whose flag it could clear by mistake.
PoliteInv ==
  /\ \A h \in Handlers : Owning(h) \/ Clearing(h) => flag = h
  /\ \A h \in Handlers : pc[h] = "claim" => flag = NoPid
  /\ \A h \in Handlers : pc[h] = "abort_int" => flag \in {pid_to_kill[h], NoPid}
  /\ \A h \in Handlers : pc[h] = "abort_clear" =>
       \A g \in Handlers : ~ Owning(g) /\ ~ Clearing(g)
  /\ \A g, h \in Handlers : Deciding(g) /\ Deciding(h) => g = h

\* A step in which processes die and nothing else happens keeps PoliteInv.
LEMMA ExitKeepsPoliteInv ==
  ASSUME TypeOK, PoliteInv, NEW S, Exit(S, pc), UNCHANGED flag
  PROVE  PoliteInv'
  <1>1. \A h \in Handlers : /\ pc'[h] = IF h \in S THEN "zombie" ELSE pc[h]
                            /\ cargo'[h] = IF h \in S THEN "" ELSE cargo[h]
                            /\ pid_to_kill'[h] = IF h \in S THEN NoPid ELSE pid_to_kill[h]
    BY DEF Exit
  <1>2. QED
    BY <1>1 DEF PoliteInv, Owning, Clearing, Deciding

\* So does a step in which a signal arrives.
LEMMA InterruptKeepsPoliteInv ==
  ASSUME TypeOK, PoliteInv, NEW S, NEW h \in Handlers, pc[h] = "abort_int",
         NEW at, at = pc \/ at = [pc EXCEPT ![h] = "abort_kill"],
         Interrupt(S, at), UNCHANGED flag
  PROVE  PoliteInv'
  <1> DEFINE D == {g \in S : at[g] \notin {"none", "zombie", "testing", "interrupted"}}
  <1>1. \A g \in Handlers :
          /\ pc'[g] = IF g \in D THEN "zombie"
                      ELSE IF g \in S /\ at[g] = "testing" THEN "interrupted" ELSE at[g]
          /\ cargo'[g] = IF g \in D THEN "" ELSE cargo[g]
          /\ pid_to_kill'[g] = IF g \in D THEN NoPid ELSE pid_to_kill[g]
    BY DEF Interrupt, Exit
  <1>2. \A g \in Handlers : at[g] = pc[g] \/ (g = h /\ at[g] = "abort_kill")
    BY DEF TypeOK
  <1> HIDE DEF D
  <1>3. \A g \in Handlers : \/ pc'[g] = pc[g] /\ cargo'[g] = cargo[g]
                                              /\ pid_to_kill'[g] = pid_to_kill[g]
                            \/ pc'[g] \in {"zombie", "abort_kill"}
                            \/ pc'[g] = "interrupted" /\ pc[g] = "testing"
    BY <1>1, <1>2
  <1>4. QED
    BY <1>3 DEF PoliteInv, Owning, Clearing, Deciding

LEMMA PoliteInvariance == PoliteSpec => [](TypeOK /\ PoliteInv)
<1>1. Init => PoliteInv
  BY DEF Init, PoliteInv, Owning, Clearing, Deciding
<1>2. TypeOK /\ TypeOK' /\ PoliteInv /\ [Next /\ Polite]_vars => PoliteInv'
  <2> SUFFICES ASSUME TypeOK, TypeOK', PoliteInv, [Next /\ Polite]_vars
               PROVE  PoliteInv'
    OBVIOUS
  <2>1. CASE UNCHANGED vars
    BY <2>1 DEF PoliteInv, vars, local, Owning, Clearing, Deciding
  <2> SUFFICES ASSUME Next, Polite
               PROVE  PoliteInv'
    BY <2>1
  <2>2. ASSUME NEW h \in Handlers, Accept(h) \/ Reap(h) \/ PeerCloses(h)
        PROVE  PoliteInv'
    BY <2>2 DEF TypeOK, PoliteInv, Accept, Reap, PeerCloses, Goto, local,
                Owning, Clearing, Deciding
  <2>3. ASSUME NEW h \in Handlers, ReadsEof(h) \/ Abort(h) \/ HelloAccepted(h) \/ Start(h)
        PROVE  PoliteInv'
    BY <2>3 DEF TypeOK, PoliteInv, Polite, ReadsEof, Abort, HelloAccepted, Start, Reads,
                Waiting, Goto, local, Owning, Clearing, Deciding
  <2>4. ASSUME NEW h \in Handlers, Claim(h)
        PROVE  PoliteInv'
    BY <2>4, NoPidAssumption DEF TypeOK, PoliteInv, Claim, Goto, local,
                                 Owning, Clearing, Deciding
  <2>5. ASSUME NEW h \in Handlers,
               HelloRefused(h) \/ Load(h) \/ Setup(h) \/ Marshall(h)
        PROVE  PoliteInv'
    BY <2>5 DEF TypeOK, PoliteInv, HelloRefused, Load, Setup, Marshall, Reads,
                Fail, Goto, local, Owning, Clearing, Deciding
  <2>6. ASSUME NEW h \in Handlers, Quit(h)
        PROVE  PoliteInv'
    <3>1. Owning(h)
      BY <2>6 DEF Quit, Polite, Reads, Waiting, Owning
    <3>2. QED
      BY <2>6, <3>1 DEF TypeOK, PoliteInv, Quit, Fail, Goto, Owning, Clearing, Deciding
  <2>7. ASSUME NEW h \in Handlers, ConnectionLost(h) \/ SetupBadArgs(h) \/ Bye(h)
                                   \/ AbortSigkill(h)
        PROVE  PoliteInv'
    BY <2>7, ExitKeepsPoliteInv DEF ConnectionLost, SetupBadArgs, Bye, AbortSigkill
  <2>8. ASSUME NEW h \in Handlers, StartReturns(h) \/ AbortCheck(h)
        PROVE  PoliteInv'
    <3>1. CASE Exit({h}, pc) /\ UNCHANGED flag
      BY <3>1, ExitKeepsPoliteInv
    <3>2. CASE ~ (Exit({h}, pc) /\ UNCHANGED flag)
      BY <2>8, <3>2 DEF TypeOK, PoliteInv, StartReturns, AbortCheck, Fail, Goto, local,
                        Owning, Clearing, Deciding
    <3>3. QED
      BY <3>1, <3>2
  <2>9. ASSUME NEW h \in Handlers, MarshallDone(h) \/ AbortClear(h)
        PROVE  PoliteInv'
    <3>1. \A g \in Handlers : /\ pc'[g] = IF g = h THEN "zombie" ELSE pc[g]
                              /\ cargo'[g] = IF g = h THEN "" ELSE cargo[g]
                              /\ flag' = NoPid
      BY <2>9 DEF MarshallDone, AbortClear, Exit
    <3>2. \A g \in Handlers : g # h => ~ Owning(g) /\ ~ Clearing(g)
      BY <2>9 DEF PoliteInv, MarshallDone, AbortClear, Owning
    <3>3. QED
      BY <3>1, <3>2 DEF PoliteInv, Owning, Clearing, Deciding
  <2>10. ASSUME NEW h \in Handlers, Error(h)
         PROVE  PoliteInv'
    <3>1. CASE Clearing(h)
      BY <2>10, <3>1 DEF TypeOK, PoliteInv, Error, Goto, local, Owning, Clearing, Deciding
    <3>2. CASE ~ Clearing(h)
      BY <2>10, <3>2 DEF TypeOK, PoliteInv, Error, Goto, local, Owning, Clearing, Deciding
    <3>3. QED
      BY <3>1, <3>2
  <2>11. ASSUME NEW h \in Handlers, AbortReadPid(h)
         PROVE  PoliteInv'
    BY <2>11 DEF TypeOK, PoliteInv, Polite, AbortReadPid, Goto, Owning, Clearing, Deciding
  <2>12. ASSUME NEW h \in Handlers, AbortSigint(h)
         PROVE  PoliteInv'
    <3>1. CASE \/ Interrupt(Handlers, pc)
               \/ Interrupt({pid_to_kill[h]}, [pc EXCEPT ![h] = "abort_kill"])
      BY <2>12, <3>1, InterruptKeepsPoliteInv DEF AbortSigint
    <3>2. CASE /\ pid_to_kill[h] # NoPid
               /\ pc[pid_to_kill[h]] = "none"
               /\ Goto(h, "abort_clear")
               /\ UNCHANGED <<server, peer, local, flag>>
      <4>1. \A g \in Handlers : ~ Owning(g) /\ ~ Clearing(g)
        BY <2>12, <3>2, NoPidAssumption DEF AbortSigint, PoliteInv, Owning, Clearing
      <4>2. QED
        BY <2>12, <3>2, <4>1 DEF TypeOK, PoliteInv, AbortSigint, Goto, local,
                                 Owning, Clearing, Deciding
    <3>3. QED
      BY <2>12, <3>1, <3>2 DEF AbortSigint
  <2>13. QED
    BY <2>2, <2>3, <2>4, <2>5, <2>6, <2>7, <2>8, <2>9, <2>10, <2>11, <2>12
       DEF Next, Handler
<1>3. PoliteSpec => Spec
  <2>1. [Next /\ Polite]_vars => [Next]_vars
    OBVIOUS
  <2>2. QED
    BY <2>1, PTL DEF PoliteSpec, Spec
<1>4. QED
  BY <1>1, <1>2, <1>3, TypeCorrect, PTL DEF PoliteSpec

\* When controllers take turns, whoever owns the test is the one the flag names:
\* STATUS reports it, HELLO is refused, ABORT finds it.
THEOREM OwnerIsFlagged == PoliteSpec => []OwnerFlagged
<1>1. PoliteInv => OwnerFlagged
  BY DEF PoliteInv, OwnerFlagged, Owners
<1>2. QED
  BY <1>1, PoliteInvariance, PTL

\* When controllers take turns, no two connections run a test at once.
THEOREM OneOwner == PoliteSpec => []ExclusiveOwner
<1>1. OwnerFlagged => ExclusiveOwner
  BY DEF OwnerFlagged, ExclusiveOwner
<1>2. QED
  BY <1>1, OwnerIsFlagged, PTL

\* Who owns the test, by cases.
LEMMA HolderIs ==
  ASSUME OwnerFlagged
  PROVE  /\ Owners = {} => Holder = NoPid
         /\ \A h \in Owners : Holder = h
  BY DEF OwnerFlagged, Holder, Owners

\* In a step of PoliteSpec only Claim makes an owner, and then there was none.
LEMMA OwnersStep ==
  ASSUME TypeOK, PoliteInv, Next, Polite
  PROVE  \/ Owners' \subseteq Owners
         \/ Owners = {} /\ \E h \in Handlers : Owners' = {h}
  <1>1. ASSUME NEW h \in Handlers, Claim(h)
        PROVE  Owners = {} /\ Owners' = {h}
    <2>1. Owners = {}
      BY <1>1, NoPidAssumption DEF PoliteInv, Claim, Owners
    <2>2. Owners' = {h}
      BY <1>1, <2>1 DEF TypeOK, Claim, Goto, Owners, Owning
    <2>3. QED
      BY <2>1, <2>2
  <1>2. ASSUME NEW h \in Handlers, ~ Claim(h),
               Accept(h) \/ Reap(h) \/ PeerCloses(h) \/ Handler(h)
        PROVE  \A g \in Handlers : Owning(g)' => Owning(g)
    <2>1. ASSUME NEW S, Exit(S, pc)
          PROVE  \A g \in Handlers : Owning(g)' => Owning(g)
      BY <2>1 DEF TypeOK, Exit, Owning
    <2>2. CASE AbortSigint(h)
      BY <2>2, SigintEffect DEF Owning
    <2>3. CASE \E S : Exit(S, pc)
      BY <2>1, <2>3
    <2>4. CASE ~ AbortSigint(h) /\ ~ \E S : Exit(S, pc)
      BY <1>2, <2>4 DEF TypeOK, Accept, Reap, PeerCloses, Handler, ReadsEof, ConnectionLost,
            Quit, Abort, HelloRefused, HelloAccepted, Load, Setup, SetupBadArgs, Start,
            StartReturns, Marshall, MarshallDone, Error, Bye, AbortCheck, AbortReadPid,
            AbortClear, AbortSigkill, Fail, Goto, Reads, Waiting, Owning, local
    <2>5. QED
      BY <2>2, <2>3, <2>4
  <1>3. QED
    BY <1>1, <1>2 DEF Next, Owners

\* When controllers take turns, the daemon implements the mutex: ownership goes
\* from nobody to a handler at Claim and back to nobody, however the owner ends.
THEOREM DaemonIsMutex == PoliteSpec => ImplementsMutex
<1>1. Init => Mutex!Init
  BY DEF Init, Mutex!Init, Holder, Owners, Owning
<1>2. /\ TypeOK /\ PoliteInv /\ OwnerFlagged /\ OwnerFlagged'
      /\ [Next /\ Polite]_vars
      => [Mutex!Next]_Holder
  <2> SUFFICES ASSUME TypeOK, PoliteInv, OwnerFlagged, OwnerFlagged',
                      [Next /\ Polite]_vars
               PROVE  [Mutex!Next]_Holder
    OBVIOUS
  <2>1. CASE UNCHANGED vars
    BY <2>1 DEF vars, Holder, Owners, Owning
  <2>2. CASE Next /\ Polite
    <3>1. Owners \subseteq Handlers /\ Owners' \subseteq Handlers
      BY DEF Owners
    <3>2. /\ Owners = {} => Holder = NoPid
          /\ \A h \in Owners : Holder = h
      BY HolderIs
    <3>3. /\ Owners' = {} => Holder' = NoPid
          /\ \A h \in Owners' : Holder' = h
      BY DEF OwnerFlagged, Holder, Owners
    <3>4. CASE Owners' \subseteq Owners
      BY <3>1, <3>2, <3>3, <3>4 DEF Mutex!Next, Mutex!Release
    <3>5. CASE Owners = {} /\ \E h \in Handlers : Owners' = {h}
      BY <3>2, <3>3, <3>5 DEF Mutex!Next, Mutex!Acquire
    <3>6. QED
      BY <2>2, <3>4, <3>5, OwnersStep
  <2>3. QED
    BY <2>1, <2>2
<1>3. QED
  BY <1>1, <1>2, PoliteInvariance, OwnerIsFlagged, PTL
     DEF PoliteSpec, ImplementsMutex, Mutex!Spec

-----------------------------------------------------------------------------
(* Whom an ABORT can reach, when no pid is reused while it is recorded.       *)

\* Neither the flag nor an ABORT names a connection that never claimed the test.
THEOREM FlagIsAClaimant == Spec /\ ~ PidReuse => []FlagNamesClaimant
<1> SUFFICES ASSUME ~ PidReuse PROVE Spec => []FlagNamesClaimant
  OBVIOUS
<1>1. Init => FlagNamesClaimant
  BY DEF Init, FlagNamesClaimant, Bystander
<1>2. TypeOK /\ FlagNamesClaimant /\ [Next]_vars => FlagNamesClaimant'
  <2> SUFFICES ASSUME TypeOK, FlagNamesClaimant, [Next]_vars
               PROVE  FlagNamesClaimant'
    OBVIOUS
  <2>1. CASE UNCHANGED vars
    BY <2>1 DEF FlagNamesClaimant, Bystander, vars, local
  <2>2. ASSUME NEW h \in Handlers, Accept(h) \/ Reap(h) \/ PeerCloses(h) \/ ReadsEof(h)
        PROVE  FlagNamesClaimant'
    BY <2>2 DEF TypeOK, FlagNamesClaimant, Bystander, Accept, Reap, PeerCloses,
                ReadsEof, Goto, local
  <2>3. ASSUME NEW h \in Handlers, Abort(h) \/ HelloAccepted(h) \/ Claim(h) \/ Start(h)
        PROVE  FlagNamesClaimant'
    BY <2>3 DEF TypeOK, FlagNamesClaimant, Bystander, Abort, HelloAccepted, Claim,
                Start, Reads, Goto, local
  <2>4. ASSUME NEW h \in Handlers, Quit(h) \/ HelloRefused(h) \/ Load(h) \/ Setup(h)
                                   \/ Marshall(h)
        PROVE  FlagNamesClaimant'
    BY <2>4 DEF TypeOK, FlagNamesClaimant, Bystander, Quit, HelloRefused, Load, Setup,
                Marshall, Fail, Reads, Goto, local
  <2>5. ASSUME NEW S, Exit(S, pc), flag' \in {flag, NoPid}
        PROVE  FlagNamesClaimant'
    BY <2>5, NoPidAssumption DEF TypeOK, FlagNamesClaimant, Bystander, Exit
  <2>6. ASSUME NEW h \in Handlers, ConnectionLost(h) \/ SetupBadArgs(h) \/ Bye(h)
                                   \/ MarshallDone(h) \/ AbortClear(h) \/ AbortSigkill(h)
        PROVE  FlagNamesClaimant'
    BY <2>5, <2>6 DEF ConnectionLost, SetupBadArgs, Bye, MarshallDone, AbortClear,
                      AbortSigkill
  <2>7. ASSUME NEW h \in Handlers, StartReturns(h) \/ AbortCheck(h)
        PROVE  FlagNamesClaimant'
    <3>1. CASE Exit({h}, pc) /\ UNCHANGED flag
      BY <2>5, <3>1
    <3>2. CASE ~ (Exit({h}, pc) /\ UNCHANGED flag)
      BY <2>7, <3>2 DEF TypeOK, FlagNamesClaimant, Bystander, StartReturns, AbortCheck,
                        Fail, Goto, local
    <3>3. QED
      BY <3>1, <3>2
  <2>8. ASSUME NEW h \in Handlers, Error(h) \/ AbortReadPid(h)
        PROVE  FlagNamesClaimant'
    BY <2>8, NoPidAssumption DEF TypeOK, FlagNamesClaimant, Bystander, Error,
                                 AbortReadPid, Goto, local
  <2>9. ASSUME NEW h \in Handlers, AbortSigint(h)
        PROVE  FlagNamesClaimant'
    <3>1. \A g \in Handlers : Bystander(g)' => Bystander(g)
      BY <2>9, SigintEffect DEF Bystander
    <3>2. QED
      BY <2>9, <3>1, SigintEffect, NoPidAssumption DEF FlagNamesClaimant
  <2>10. QED
    BY <2>1, <2>2, <2>3, <2>4, <2>6, <2>7, <2>8, <2>9 DEF Next, Handler
<1>3. QED
  BY <1>1, <1>2, TypeCorrect, PTL DEF Spec

\* So an ABORT that does not take the daemon down ends no such connection.
THEOREM AbortSpares == Spec /\ ~ PidReuse => AbortSparesBystanders
<1> DEFINE Spares ==
      \A g, h \in Handlers :
        Bystander(h) /\ pc'[h] = "zombie" /\ (AbortSigint(g) \/ AbortSigkill(g))
          => server' = "down"
<1>1. TypeOK /\ FlagNamesClaimant => Spares
  <2> SUFFICES ASSUME TypeOK, FlagNamesClaimant,
                      NEW g \in Handlers, NEW h \in Handlers,
                      Bystander(h), pc'[h] = "zombie", server' # "down",
                      AbortSigint(g) \/ AbortSigkill(g)
               PROVE  FALSE
    OBVIOUS
  <2>1. pid_to_kill[g] # h /\ pc[h] # "zombie" /\ g # h
    BY DEF FlagNamesClaimant, Bystander, AbortSigint, AbortSigkill
  <2>2. CASE AbortSigint(g)
    BY <2>1, <2>2 DEF TypeOK, AbortSigint, Interrupt, Exit, Goto
  <2>3. CASE AbortSigkill(g)
    BY <2>1, <2>3 DEF AbortSigkill, Exit
  <2>4. QED
    BY <2>2, <2>3
<1>2. TypeOK /\ FlagNamesClaimant => [Spares]_vars
  BY <1>1
<1>3. QED
  BY <1>2, TypeCorrect, FlagIsAClaimant, PTL DEF AbortSparesBystanders
=============================================================================

----------------------------- MODULE Unmarshall -----------------------------
(***************************************************************************)
(* From the marshalled data of the daemons to the output: the three writes *)
(* of ipbenchd.py marshall(), the stream that carries them, unmarshall()   *)
(* of ipbench.py, which takes it apart again with recv(), and the tables   *)
(* of pymod/ipbench.c the data is kept in until output().                  *)
(*                                                                         *)
(* A stream is a sequence of units: a status line is its code and a        *)
(* newline, a length line is a keyword, digits and a newline.  recv()      *)
(* returns any piece of what is in flight, also one that ends inside a     *)
(* line, which unmarshall() does not expect: split remembers where.        *)
(***************************************************************************)
EXTENDS Integers, Sequences, SequencesExt

CONSTANTS Clients,    \* client ids
          Targets,    \* the targets, in the order of the configuration
          Datas,      \* what a plugin can marshal
          Chunk,      \* units that the first two recv() of a reply ask for
          Numeral,    \* Numeral[n + 1]: the digits of the number n
          None

ASSUME TargetsAssumption ==
  Targets \in Seq(Range(Targets)) /\ IsInjective(Targets) /\ Range(Targets) \cap Clients = {}
ASSUME ConstantsAssumption == Chunk \in Nat
ASSUME NoneAssumption == None \notin Clients \cup Range(Targets) /\ None \notin Nat

VARIABLES
  reply,       \* what each machine has to say: [code, data], once it is known
  writes,      \* writes of marshall() that were done; 3: closed as well
  killed,      \* daemons that did not get that far
  stream,      \* all that was sent
  taken,       \* units of it that were received
  split,       \* history: the machines of which a recv() ended inside a line
  step,        \* where the controller is
  machine,     \* the machine unmarshall() is called for
  waiting,     \* clients, and then targets, that are still to be read
  valid, buffer, content_length, \* local variables of unmarshall()
  client_data, target_data,      \* the tables of the two plugin modules
  shown        \* what output() was given for each machine

daemon == <<reply, writes, killed, stream, taken, split>>
locals == <<valid, buffer, content_length>>
tables == <<client_data, target_data>>
vars == <<daemon, step, machine, waiting, locals, tables, shown>>

Machines == Clients \cup Range(Targets)
Digits == UNION {Range(digits) : digits \in Range(Numeral)}
Codes == {"220", "221", "451"}
Units == Codes \cup {"newline", "Content-length"} \cup Digits \cup UNION {Range(d) : d \in Datas}
Reply == [code : Codes, data : Datas]
Status(code) == <<code, "newline">>
Length(n) == <<"Content-length">> \o Numeral[n + 1] \o <<"newline">>

\* Numbers are written in different ways, each in digits, and all lengths can be written.
ASSUME NumeralAssumption ==
  Numeral \in Seq(Seq(Digits)) \ {<< >>} /\ IsInjective(Numeral) /\ "newline" \notin Digits
ASSUME DatasAssumption == \A d \in Datas : d \in Seq(Range(d)) /\ Len(d) < Len(Numeral)

Result == [data : Seq(Units), valid : BOOLEAN]
Own(m) == [data |-> reply[m].data, valid |-> reply[m].code = "220"]

Ended == {"output", "failed", "crashed", "rejected"}

TypeOK ==
  /\ reply \in [Machines -> Reply \cup {None}]
  /\ writes \in [Machines -> 0 .. 3] /\ killed \subseteq Machines
  /\ stream \in [Machines -> Seq(Units)]
  /\ taken \in [Machines -> Nat] /\ \A m \in Machines : taken[m] <= Len(stream[m])
  /\ split \subseteq Machines
  /\ step \in {"select", "status", "length", "data"} \cup Ended
  /\ machine \in Machines \cup {None} /\ waiting \subseteq Machines
  /\ valid \in BOOLEAN /\ content_length \in 0 .. Len(Numeral) - 1
  /\ buffer \in Seq(Units) /\ Len(buffer) <= 2 * Chunk + Len(Numeral)
  /\ client_data \in [Clients -> Result \cup {None}]
  /\ target_data \in Result \cup {None}
  /\ shown \in [Machines -> Result \cup {None}]

Init ==
  /\ reply = [m \in Machines |-> None]
  /\ writes = [m \in Machines |-> 0] /\ killed = {}
  /\ stream = [m \in Machines |-> << >>] /\ taken = [m \in Machines |-> 0] /\ split = {}
  /\ step = "select" /\ machine = None /\ waiting = Clients
  /\ valid = FALSE /\ buffer = << >> /\ content_length = 0
  /\ client_data = [c \in Clients |-> None] /\ target_data = None
  /\ shown = [m \in Machines |-> None]
-----------------------------------------------------------------------------
(* The daemon: marshall() sends a status line, the length and the data, and   *)
(* the connection is closed; error() sends a status line only.                *)

\* What precedes the data.
Header(m) == Status(reply[m].code) \o Length(Len(reply[m].data))

Running(m) == writes[m] < 3 /\ m \notin killed

Sends(m, units) == stream' = [stream EXCEPT ![m] = @ \o units] /\ UNCHANGED <<taken, split>>

\* SHUNT.marshall() fails, or gives data: 220, or 221 if it is invalid.  A target
\* marshals when it has been told to stop.
Marshall(m) ==
  /\ Running(m) /\ writes[m] = 0
  /\ m \in Clients \/ m = machine
  /\ \E r \in Reply :
       /\ reply' = [reply EXCEPT ![m] = r]
       /\ Sends(m, Status(r.code))
       /\ writes' = [writes EXCEPT ![m] = IF r.code = "451" THEN 3 ELSE 1]
  /\ UNCHANGED <<killed, step, machine, waiting, locals, tables, shown>>

Write(m) ==
  /\ Running(m) /\ writes[m] > 0
  /\ Sends(m, IF writes[m] = 1 THEN Length(Len(reply[m].data)) ELSE reply[m].data)
  /\ writes' = [writes EXCEPT ![m] = @ + 1]
  /\ UNCHANGED <<reply, killed, step, machine, waiting, locals, tables, shown>>

\* SIGKILL, at the latest in the middle of the data.
Killed(m) ==
  /\ Running(m)
  /\ killed' = killed \cup {m}
  /\ \/ writes[m] = 2 /\ \E n \in 1 .. Len(reply[m].data) : Sends(m, SubSeq(reply[m].data, 1, n))
     \/ Sends(m, << >>)
  /\ UNCHANGED <<reply, writes, step, machine, waiting, locals, tables, shown>>
-----------------------------------------------------------------------------
(* The controller *)

AtEof(m) == taken[m] = Len(stream[m]) /\ ~Running(m)

\* What recv(size) may return: at the end of the stream nothing.
Pieces(m, size) ==
  IF AtEof(m) THEN {<< >>}
  ELSE {SubSeq(stream[m], taken[m] + 1, n) :
          n \in {k \in taken[m] + 1 .. Len(stream[m]) : k <= taken[m] + size}}

\* The first n units of the reply end inside its status or its length line.
InsideLine(m, n) == n # 0 /\ n # Len(Status(reply[m].code)) /\ n < Len(Header(m))

Takes(m, data) ==
  /\ taken' = [taken EXCEPT ![m] = @ + Len(data)]
  /\ split' = IF InsideLine(m, taken[m] + Len(data)) THEN split \cup {m} ELSE split
  /\ UNCHANGED stream

\* s.find("\n"), and s[:newline], s[newline+1:]: without a newline the first is all
\* but the last unit and the second is everything.
Newline(s) == SelectInSeq(s, LAMBDA unit : unit = "newline")
Line(s) == SubSeq(s, 1, IF Newline(s) = 0 THEN Len(s) - 1 ELSE Newline(s) - 1)
Rest(s) == SubSeq(s, Newline(s) + 1, Len(s))

\* select() and unmarshall() of a client that can be read; STOP and unmarshall()
\* of the next target once all clients have been read.
Unmarshalls(m) ==
  /\ step = "select"
  /\ machine' = m /\ waiting' = waiting \ {m}
  /\ \/ m \in waiting \cap Clients /\ (taken[m] < Len(stream[m]) \/ AtEof(m))
     \/ m \in waiting \ Clients
  /\ step' = "status"
  /\ UNCHANGED <<daemon, locals, tables, shown>>

\* int(data[0:3]) of what passes for the status line: of a line that has not come
\* whole, the code, its first digits or no number at all.
CodesRead(data) ==
  IF data = << >> THEN {"ValueError"}
  ELSE IF Newline(data) = 0 THEN {data[1], "digits", "ValueError"} ELSE {Line(data)[1]}

\* The first recv(128).  A code other than 220 and 221 is an IpBenchError, no
\* code at all a ValueError.
ReceiveStatus ==
  /\ step = "status"
  /\ \E data \in Pieces(machine, Chunk) : \E code \in CodesRead(data) :
       /\ Takes(machine, data)
       /\ \/ /\ code \notin {"220", "221"}
             /\ step' = IF code = "ValueError" THEN "crashed" ELSE "failed"
             /\ UNCHANGED <<valid, buffer>>
          \/ /\ code \in {"220", "221"} /\ step' = "length"
             /\ valid' = (code = "220") /\ buffer' = Rest(data)
  /\ UNCHANGED <<reply, writes, killed, machine, waiting, content_length, tables, shown>>

\* re.match("Content-length: (\d+)", line): the number, None if there is none.
Match(line) ==
  LET digits == SelectInSeq(SubSeq(line, 2, Len(line)), LAMBDA unit : unit \notin Digits)
      last == IF digits = 0 THEN Len(line) ELSE digits
      number == SubSeq(line, 2, last)
  IN IF line # << >> /\ line[1] = "Content-length" /\ number \in Range(Numeral)
     THEN (CHOOSE n \in DOMAIN Numeral : Numeral[n] = number) - 1 ELSE None

\* Mutant: a length line that does not match is not noticed.
ReceiveLengthUnchecked ==
  /\ step = "length"
  /\ \E data \in Pieces(machine, Chunk) :
       /\ Takes(machine, data)
       /\ step' = "data"
       /\ content_length' = Match(Line(buffer \o data))
       /\ buffer' = Rest(buffer \o data)
  /\ UNCHANGED <<reply, writes, killed, machine, waiting, valid, tables, shown>>

\* Mutant: the data that came with the length is dropped.
ReceiveLengthOnly ==
  /\ step = "length"
  /\ \E data \in Pieces(machine, Chunk) :
       LET length == Match(Line(buffer \o data))
       IN /\ Takes(machine, data)
          /\ buffer' = << >>
          /\ IF length = None THEN step' = "crashed" /\ UNCHANGED content_length
             ELSE step' = "data" /\ content_length' = length
  /\ UNCHANGED <<reply, writes, killed, machine, waiting, valid, tables, shown>>

\* Mutant: what came with the status line is forgotten.
ReceiveLengthUnbuffered ==
  /\ step = "length"
  /\ \E data \in Pieces(machine, Chunk) :
       LET length == Match(Line(data))
       IN /\ Takes(machine, data)
          /\ IF length = None THEN step' = "crashed" /\ UNCHANGED <<buffer, content_length>>
             ELSE step' = "data" /\ content_length' = length /\ buffer' = Rest(data)
  /\ UNCHANGED <<reply, writes, killed, machine, waiting, valid, tables, shown>>

\* The second recv(128).  A length line that does not match is an AttributeError.
ReceiveLength ==
  /\ step = "length"
  /\ \E data \in Pieces(machine, Chunk) :
       LET initial_content == buffer \o data
           length == Match(Line(initial_content))
       IN /\ Takes(machine, data)
          /\ IF length = None THEN step' = "crashed" /\ UNCHANGED <<buffer, content_length>>
             ELSE /\ step' = "data"
                  /\ content_length' = length
                  /\ buffer' = Rest(initial_content)
  /\ UNCHANGED <<reply, writes, killed, machine, waiting, valid, tables, shown>>

Missing == content_length - Len(buffer)

\* while len(client_data) != content_length: at the end of the stream recv() goes
\* on returning nothing; a negative size is a ValueError.
ReceiveData ==
  /\ step = "data" /\ Len(buffer) # content_length
  /\ IF Len(buffer) > content_length
     THEN step' = "crashed" /\ UNCHANGED <<buffer, stream, taken, split>>
     ELSE /\ \E data \in Pieces(machine, Missing) :
               Takes(machine, data) /\ buffer' = buffer \o data
          /\ UNCHANGED step
  /\ UNCHANGED <<reply, writes, killed, machine, waiting, valid, content_length,
                 tables, shown>>

\* The loops over the clients and, once all of them have reported, the targets.
NextMachine ==
  LET next == IF machine \in Clients THEN 1
              ELSE 1 + CHOOSE i \in DOMAIN Targets : Targets[i] = machine
  IN IF waiting # {} THEN step' = "select" /\ UNCHANGED waiting
     ELSE IF next <= Len(Targets) THEN step' = "select" /\ waiting' = {Targets[next]}
     ELSE step' = "output" /\ UNCHANGED waiting

\* Mutant: results are numbered in the order in which the clients report.
StoreByArrival ==
  /\ step = "data" /\ Len(buffer) = content_length
  /\ LET result == [data |-> buffer, valid |-> valid] IN
     IF machine \in Clients
     THEN /\ client_data' = [client_data EXCEPT
                              ![CHOOSE c \in Clients : client_data[c] = None] = result]
          /\ UNCHANGED target_data
     ELSE target_data' = result /\ UNCHANGED client_data
  /\ NextMachine
  /\ UNCHANGED <<daemon, machine, locals, shown>>

\* call_test_unmarshall(): the table of the clients is indexed by client id, all
\* targets have the same target_data.  Then the next machine.
Store ==
  /\ step = "data" /\ Len(buffer) = content_length
  /\ LET result == [data |-> buffer, valid |-> valid] IN
     IF machine \in Clients
     THEN /\ client_data' = [client_data EXCEPT ![machine] = result]
          /\ UNCHANGED target_data
     ELSE target_data' = result /\ UNCHANGED client_data
  /\ NextMachine
  /\ UNCHANGED <<daemon, machine, locals, shown>>

\* output() of the clients, then output() of each target.
Output ==
  /\ step = "output"
  /\ shown' = [m \in Machines |-> IF m \in Clients THEN client_data[m] ELSE target_data]
  /\ UNCHANGED <<daemon, step, machine, waiting, locals, tables>>

\* unmarshall() or output() of the plugin returns an error: a RuntimeError that
\* nobody handles.
PluginFails ==
  /\ \/ step = "data" /\ Len(buffer) = content_length
     \/ step = "output" /\ \A m \in Machines : shown[m] = None
  /\ step' = "rejected"
  /\ UNCHANGED <<daemon, machine, waiting, locals, tables, shown>>

Controller == \/ \E m \in Machines : Unmarshalls(m)
              \/ ReceiveStatus \/ ReceiveLength \/ ReceiveData \/ Store \/ Output
              \/ PluginFails

Next == Controller \/ \E m \in Machines : Marshall(m) \/ Write(m) \/ Killed(m)

Spec == Init /\ [][Next]_vars

\* The controller goes on while it can, and so does a daemon that is not killed.
FairSpec == Spec /\ WF_vars(Controller) /\ \A m \in Machines : WF_vars(Marshall(m) \/ Write(m))
-----------------------------------------------------------------------------
\* unmarshall() gives the plugin the data the machine marshalled, all of it and
\* nothing else, and output() gets it as that machine's, valid or invalid, whoever
\* reported first and in whatever pieces the data arrived; nobody's is missing.  Two
\* provisos: there is one target (all targets have one target_data), and no recv()
\* ended inside one of the two lines before the machine's data.
OutputIsOwn ==
  (\E m \in Machines : shown[m] # None) => \A m \in Machines \ split : shown[m] = Own(m)

\* unmarshall() ends in an IpBenchError only if the daemon has sent an error, and
\* in an exception that nobody handles only if the daemon was killed before it had
\* sent the length, or the plugin refuses the data - unless a recv() ended inside
\* one of the two lines of this very reply: then it may fail for a reply that is in order.
FailuresHaveCauses ==
  machine \notin split =>
    /\ step = "failed" => reply[machine].code = "451"
    /\ step = "crashed" => machine \in killed /\ writes[machine] < 2

\* The controller comes to an output or an error, unless a daemon is killed
\* between the length it announces and the end of the data.
EndsUnlessCutShort ==
  <>(step \in Ended \/ \E m \in killed : writes[m] = 2)
=============================================================================

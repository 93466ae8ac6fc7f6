# ipbench: specifications, model checking and proofs

ipbench measures a machine under network load. One controller (`ipbench.py`)
tells a daemon (`ipbenchd.py`) on each load generator (a *client*) to run a test
plugin, and optionally a daemon on the machine under load (a *target*) to measure
meanwhile; it collects everybody's data and prints it. This directory holds TLA+
modules of that system, the TLC configurations that check them on small
instances, and proofs checked by TLAPS.

Paths below are relative to `ipbench2/` in the repository.

## 1. Inventory

### Daemon (`src/ipbenchd.py`)

- *State.* Per machine: the accepting server process; one word of shared memory,
  `TestStatus`, holding the pid of the handler that runs a test, or 0. Per
  connection: a forked handler with a state machine (LISTEN, SETUP, RUN, MARSHALL,
  ERROR, ABORT, RESET).
- *Operations.* HELLO (refuse with 421 or claim the machine), LOAD, SETUP, START
  (blocks in the plugin), QUIT, ABORT (SIGINT and SIGKILL to the recorded pid),
  HELP, STATUS. In target mode START forks once more: the parent measures, the child
  reads the socket and turns STOP into SIGUSR1 for the parent.
- *Hard.* Handlers of one daemon share the flag without a lock; handlers are
  killed by one another, lose their peers, and leave the flag behind; pids are
  signalled after they were read; parent and child of a target share a socket.
- *Correct when.* One test at a time; the flag names the handler that owns it; an
  ABORT hits a test and nothing else; a daemon can always be freed; a handler
  whose peer has gone goes away.

### Controller (`src/ipbench.py`)

- *State.* `OPTIONS` and the configuration file, the lists of targets and clients
  with their sockets, the loop it is in, the clients not yet heard of, the results.
- *Operations.* Read the command line and the configuration file. Per daemon: with
  `--reset` a connection for ABORT; connect, HELLO, LOAD, SETUP, each answered; then
  START to all without an answer; `select()` over the clients, `select()` over the
  targets for errors; STOP and data of every target; output; QUIT to all.
- *Hard.* Sections of the file refer to each other by name; the ABORT and the
  session of `--reset` are two connections; a reply is cut into pieces by `recv()`;
  everything may fail at any step on any machine; errors of three kinds
  end in three ways (an `IpBenchError` closes in order, anything else ends the
  process, a `KeyError` ends the closing loop); clients finish in any order.
- *Correct when.* The lists are those of the file; each machine's data reaches
  `output()` as its own; nobody tests before everybody is set up; targets are stopped
  after all clients have reported; nothing is printed unless everybody has
  reported; it comes to an end; after a complete run the daemons are free.

### Plugin loader (`src/pymod/ipbench.c`, `src/plugin.h`)

Loads a plugin into a daemon or the controller and forwards calls; keeps the start
time, the running time and the tables of results; its SIGUSR1 handler calls the
plugin's `stop()`. Hard: `stop()` runs in a signal handler at any moment, also
before `start()`; one `target_data` for all targets; a failed load keeps the
previous plugin. Correct when a stopped test returns and each result is stored
where `output()` looks for it.

### Tests (plugins, `src/tests/`)

| plugin | state and operations | hard | correct when |
|---|---|---|---|
| latency, latency-check | ring of outstanding packets; warm-up, measurement, cool-down | late, lost and repeated packets; unsigned arithmetic at the ring's edges | every sample belongs to the packet it is credited to; samples stay in their array |
| nfs_latency (and libnfs) | callback ring keyed by xid; retransmitting calls; file cache | lost, late and duplicate replies; a lookup that waits for ever | a reply reaches its own call, once |
| cpu_target | samples of idle loops, written by an interval timer | timer against `stop()`; wrap-around of the samples | the average is over measured samples only |
| cpu_target_lukem | sampling thread, condition variable | signal before wait | `start()` returns after `stop()` |
| http spawner | thread slots, joiner threads, in-flight counter | locks that do not cover what they should; lost signals | no slot is lost or used twice |
| tbench/dbench | forked children waiting for SIGCONT | start signal before the wait | all children start and are collected |
| nfsstone | forked workers and lock files | a worker that fails to start | the parent does not wait for ever |
| wrapper | pipe from a script | errors of `read()` | all output arrives, once |
| discard_target | client-style: sends packets at a rate for a fixed time | none shared with anything | it counts what was sent |
| wait, dummy | run until a signal, or until stopped | stop before start | they stop |

### The rest

`src/lib` (tokeniser, clock calibration): sequential helpers. `helpers/` (echo
servers, scripts), `debian/`, `doc/`, `web/`: not part of the running benchmark, or
nothing with a state worth checking.

### Interactions

Controller and daemons exchange lines over one TCP connection each. Handlers of a
daemon interact through `TestStatus` and signals, a target's parent and child
through their socket and SIGUSR1, a daemon and its plugin through the calls
`setup`, `start`, `stop`, `marshall`. Several controllers may use the same daemons;
`ipbench --reset` sends ABORT first.

## 2. Modules

| module | models | role |
|---|---|---|
| `TestMutex` | what the flag promises | abstract specification |
| `IpbenchDaemon` | client-mode daemon with many handlers | detailed specification, properties |
| `IpbenchDaemonProofs` | | theorems about it, for TLAPS |
| `MCDaemon` | | symmetry for TLC |
| `Experiment` | what a run of ipbench promises | abstract specification |
| `Controller` | `ipbench.py` | component |
| `IpbenchSystem` | `Controller` with one handler per daemon, client or target | composition, properties |
| `IpbenchSystemProofs` | | theorems about it, for TLAPS |
| `MCSystem` | | one target, two clients |
| `Configuration` | `ipbench.py`, from the command line and the XML file to the lists of machines | component, properties |
| `ConfigurationProofs` | | theorems about it, for TLAPS |
| `MCConfiguration` | | all documents with up to two sections of each kind, from a few elements |
| `Unmarshall` | `marshall()` of the daemon, the stream, `unmarshall()` of the controller, the tables of `pymod/ipbench.c` | component, properties |
| `UnmarshallProofs` | | theorems about it, for TLAPS |
| `MCUnmarshall` | | one target, two clients, binary numerals |
| `SequenceLemmas` | | lemmas the two share: least numbers, concatenation, what `FlattenSeq` computes |
| `RoundTrips` | what the samples of a latency test promise | abstract specification |
| `LatencyTest` | `measure_latency()` with the ring of outstanding packets | detailed specification, properties |
| `LatencyProofs` | | theorems about it, for TLAPS |
| `MCLatency` | | the module TLC is run on |
| `NfsRpc` | SunRPC over UDP in nfs_latency: `rpc.c`, `callback.c` and their use in `nfs_glue.c` | component, properties |
| `NfsRpcProofs` | | theorems about it, for TLAPS |
| `MCNfsRpc` | | the module TLC is run on |
| `HttpSpawner` | `spawner.c`: main thread, joiners, condition variables | component, properties |
| `HttpSpawnerProofs` | | theorems about it, for TLAPS |
| `MCHttpSpawner` | | the module TLC is run on |

### IpbenchDaemon

One action is one step of one process between two accesses to something other
processes see. HELLO is therefore two actions (`HelloAccepted` looks at the flag and
answers, `Claim` writes it), and ABORT five: `AbortCheck` (`is_running()`),
`AbortReadPid` (`running_pid()`), `AbortSigint`, then `AbortClear` or
`AbortSigkill`. `pc` is the handler's state and the position in it; `peer` is the
other end of its connection (`half`: closed, but lines it sent are still unread);
`flag` is the shared word; `pid_to_kill` and `cargo` are the code's variables. The
model has SIGINT as the code gets it: a handler in Python code dies (`handle()`
catches `Exception`, which a `KeyboardInterrupt` is not), one inside
`SHUNT.start()` notices when that returns. A process that exits is a zombie until
the server waits for it; a pid is free only then, which is what makes
`ProcessLookupError` and the reuse of pids possible. Texts of the replies are left
out; HELP, STATUS and syntax errors change nothing and are left out too. The shared
word is read and written whole (its digits are written by one `mmap.write()`).

The environment sends any command at any time and closes when it likes.

### Controller and IpbenchSystem

`Controller` has `main()`: `step` is the loop it is in, `at` the loop index. A message
is a command word or a status code. "220" stands for a whole reply of `marshall()`,
220 or 221 with its data: which of the two it is `main()` only passes on to the plugin
(`Unmarshall` tells them apart). "cut" is such a reply of which the length or the data
is not all there. `made` are the daemons with a `"testobj"` entry, `over` the daemons
whose end of the connection is closed, so `Readable` is what `select()` reports.
Failures: a wrong code raises `IpBenchError` (`Raise`: close in order), and so does a
client's `setup()` without `--test-target` (`NoTestTarget`); an empty `recv()`
(`NoAnswer`), a failed `send()` (`SendFails`) and an error of the plugin's
`unmarshall()` or `output()` (`PluginFails`) end the process; a reply that is cut
short ends it or leaves it in the loop of `unmarshall()` for good (`CutShort`, `step`
"spinning"); `Close` ends it at the first daemon that has no `"testobj"`.

`IpbenchSystem` adds the handler of each daemon that talks to this controller. Its
states and replies are those of `IpbenchDaemon`; what other handlers of the daemon can
do to it is reduced to four things: the machine may be busy from the start, another
controller may ABORT it at any point of its session (`Killed`), a broken connection
ends it without clearing the flag, and with `--reset` the handler of the controller's
own first connection runs `abort()` at any time after `AskAbort` (`Aborts`). It finds
nobody, somebody who is over (the flag is cleared), or the session that has been
opened since; `aborted` remembers which. It is one step here, because what happens
between its reads and its signals is in `IpbenchDaemon`. A SIGKILL (`Dies`) may strike
in the middle of a reply, and part of it is then out ("cut"); or between the data and
`not_running()`, and then the flag stays although the controller has everything
(`sess` "lost"). A target's handler forks at START: `sess` is the parent, `child` the
reader. A STOP that is read before the parent's `start()` has begun may have an effect
or none (`ChildStop`): the plugins differ. Every plugin call that can fail may fail.

### Configuration

One action per part of `main()` up to the list of clients: `ReadTest`,
`ReadClients`, `ReadTargetTest` (once per `<target_test>`), `ReadCommandLine`. An
element is the function from its attributes to their values; `get` is the code's, and
`str` is Python's, which makes a word of `None`. `step` ends in `configured`,
`rejected` (`error_exit()`) or `crashed` (an exception nobody catches).

### Unmarshall

A stream is a sequence of units: a status code, the keyword of the length line, a
digit, a newline, or a unit of data. `stream` is all that a daemon has sent and
`taken` how many units of it the controller has received. `Marshall` and `Write` are
the three writes of `marshall()`; a daemon may be killed between them or within the
last. `Pieces` is what `recv(n)` may return: any piece of what is in flight, up to n
units, and nothing once the stream has ended. `Newline`, `Line`, `Rest` and `Match` are
the code's `find()`, its slices and its regular expression, with what they give when
there is no newline or no number. `Store` is `call_test_unmarshall()`: one entry per
client id, one `target_data` for all targets. `PluginFails` is an error of the plugin, which
the wrapper turns into an exception that nobody handles.

`unmarshall()` expects the whole status line in its first `recv()` and the whole length
line in the first two. The daemon writes each line at once, but TCP promises nothing of
the kind. In the model a piece may end anywhere; `CodesRead` are the codes the first
characters of a status line may be taken for. `split` is history: the machines of which
a `recv()` ended inside one of the two lines (`InsideLine`). What is read of such a machine
may be wrong in any way the code allows; the properties say nothing of its data, and
say what they say of all the other machines.

### NfsRpc

`cur_xid`, `callback_list` and `callback_list_head` are the code's; `callback_add`
and `callback_del` (in `Runs`) work on the ring as the code does, `Offset` subtracts
modulo `Word`. `at` is the place of the plugin: it waits in `rpc_call()`
(`Retransmit` every 100 ms), in `recursive_lookup()` (sent once), or runs the test
(`generate_request`, `process_reply`). `wire` are the xids a reply to which can
still arrive: a reply may be lost, late, repeated and overtaken. A callback is
named after the wait whose stack frame it points into. `ran` is history. After the
last call the plugin uses another socket and `wire` starts empty.

### HttpSpawner

One action per step of a thread between two accesses to shared memory: `count++` and
`count--` are a load and a store each, because the two sides hold different locks. A
condition variable wakes whoever waits when it is signalled, and nobody later; and it
may wake somebody whom nobody signalled (`JoinerWakes`, `MainWakes`), which POSIX
allows and neither `pthread_cond_wait()` of this program looks for. `unasked` is
history: the joiners whose last wake-up was of that kind. One that then finds its slot
free calls `pthread_join()` for a thread that is not there and writes `threads[-1]`
(`JoinsNothing`); after that, `main` is "undefined" and nothing more is said.
`find_free_thread()` looks at a slot at a time, and the program exits when there is
none, when a thread cannot be created (`CreateFails`) and when a request fails
(`ThreadFails`). Because updates of the counter get lost it can drift below zero
without end; `MaxDrift` lets no thread end while it is below, which keeps the instance
finite.

### LatencyTest

One iteration of the loop of `measure_latency()` is three actions: the loop
condition with the start of the cool-down (`LoopTop`, `Finish`), the receiving half
and the sending half. Each inner `do ... while` is taken as a whole, by what it
leaves: `RecvAgain(n)` and `SendAgain(n)` end in EAGAIN with n bytes missing,
`RecvPacket` and `SendPacket` complete a packet. `packet_list_add` and
`packet_list_del` are operators of the same names; `Offset` subtracts modulo `Word`,
as `uint64_t` does. `wire` is the network with the echo server: a TCP echo comes in
order, in pieces, and no earlier than its bytes were sent; a datagram may come any
number of times, in any order, or never. The `id` of a sample and the variable
`sent` are history and have no counterpart in the code. `received_packets` is
`Len(rtt_sample)`, `sends` is `sid`, and `end_time` follows from `cooldown_time`. The
counters for the debugging output are left out. latency-check has the same loop.

`RoundTrips` is what the plugin promises of its samples, without a ring or a
transport: a sample is the time from sending a packet to its own echo, once per
packet, after the warm-up, and there are at most as many as were asked for.

## 3. Properties and runs

| run | bounds | checks |
|---|---|---|
| `daemon` | 3 pids, `MaxChildren` 2, no reuse of recorded pids | `TypeOK`, `FlagNamesClaimant`, `AbortSparesBystanders`, `LostPeerFreesChild`, `ResetRecovers` |
| `daemon_polite` | 3 pids, all alive, pids reused at will, symmetry | `ExclusiveOwner`, `OwnerFlagged`, `ImplementsMutex` |
| `daemon_down` | 2 pids | `ServerSurvives` is violated |
| `system` | 1 target, 2 clients, with `--reset` | `TypeOK`, `NoSyntaxErrors`, `ImplementsExperiment`, `ControllerExits`, `PrintedRunFreesDaemons` |
| `system_reset` | same | `ResetSparesItsSession` is violated |
| `system_quit` | same, without `--reset` | `FreeMachineIsIdle` is violated |
| `config` | 2457 documents or none, 32 command lines | `DistinctSectionsAreKept`, `HostsAreNamed` |
| `reply` | 1 target, 2 clients, data of 0 or 3 units | `TypeOK`, `OutputIsOwn`, `FailuresHaveCauses`, `EndsUnlessCutShort` |
| `latency` | 2 samples, ring of 3, 5 packets, 5 ticks | `TypeOK`, `RingInOrder`, `EchoIsFound`, `ReportIsComplete`, `SamplesAreRoundTrips` |
| `nfs` | ring of 3, 2 calls, 2 components, 12 requests | `TypeOK`, `OwnFrame`, `RingInOrder`, `RunsOnce`, `CallEnds` |
| `spawner` | 2 slots, `MaxDrift` 2 | `TypeOK`, `StackIsUnused`, `JoinsItsThread`, `CountWithinSlots` |
| `spawner_reuse` | 2 slots | `FreedSlotIsReused` is violated |

*Bounds.* Three pids are an owner, a handler that aborts it, and a third that comes in
between (a new owner, a bystander, or a second abort); with `MaxChildren = 2` the
server also meets its limit. Two clients make the order of reports and a failure of
one while the other runs possible; one target is enough for STOP, for a target that
fails early and for a close loop that meets a daemon that was never reached. In these
modules there are no counters and no state constraints: each session runs through its
states once, so the state spaces are finite by themselves. Runs of `IpbenchDaemon` do
not check for deadlock, because a daemon that ABORT took down has really stopped; the
passing run of `IpbenchSystem` does, with `Over` as the only way to stand still:
`main()` has ended, or spins. With `--reset` the `system` run contains the behaviours
in which every ABORT finds nothing, so it covers a run on idle machines as well.

`latency` has explicit bounds: `MaxNow` ticks and `MaxSid` packets. Five packets go round a
ring of three and push packets out of it, so that ids are late, too old and behind
the end of the array; two samples and a rate above one packet per tick let echoes
meet warm-up, measurement and cool-down. A packet is two units long, so TCP may cut
it once. The run does not check for deadlock: the function returns.

`nfs` has `MaxXid`: two calls, two lookups, the two xids `initialise_cache()` takes and
six requests of the test, twice round the ring of three. Two calls make a late
reply to the first meet the second. The run does not check for deadlock: a lookup
whose reply is lost is waited for without end, and so is one that was never sent
because its directory was not found.

`reply`: data is empty or three units long, a newline and a digit among them, so that
data looks like a line or a number; the first two `recv()` of a reply ask for eight
units, which is a status line, a length line and data, in all ways of cutting them. A
length line that came without its newline loses its last digit and stays in `buffer`.
With data as short as here the buffer is then longer than that length, and `recv()` is
asked for a negative size, an exception. With longer data the wrong bytes could pass for
the reply; that is an outcome of the model as well, but not within these bounds. The
proofs have no such bound. With two targets `OutputIsOwn` does not hold: they share
one `target_data`, and `output()` prints the last one's for each. The run does not
check for deadlock: the controller ends, or stands at a daemon that was killed.

`config`: documents with none, one or two `<test>`s and as many `<target_test>`s, of
one name (as in `doc/config.xml`) or of different names, with attributes missing
here and there, and `<target>`s with none at all.

`spawner`: two slots are the smallest number for which one joiner can free a slot
while the main thread is busy with the other. `MaxDrift` = 2 lets each slot lose an
increment; in the violated run the bound is out of reach of the counterexamples. Spurious
wake-ups have no bound.
The runs do not check for deadlock: that everybody may end up waiting is what the
violated property shows.

*The provisos of `PoliteSpec`.* The flag is tested and set in two steps, and the
source calls it "by no means a real mutex". It is one under two conditions: no two
handlers are at the same time between looking at the flag and acting on it (two
HELLOs, or an ABORT and a HELLO), and nobody sends QUIT before a HELLO that was
accepted (ERROR clears the flag for any code but 421). Without the first, TLC finds
two owners in a few steps; the properties of `daemon` need neither.

*Fairness.* In `FairSpec` of the daemon, handlers go on whenever they can without
another line, tests end, writes to dead connections fail in the end, and the server
waits for its children; peers owe nothing. `ResetSpec` adds that somebody keeps
connecting and sending ABORT: `ResetRecovers` is a promise to a user who keeps running
`ipbench --reset`. ABORT is fair in the strong sense, because other handlers may end a
connection that is about to send it. In `IpbenchSystem` the controller and each
handler make progress, and a target's test ends when its `stop()` has taken effect. A
client's test is under no fairness (`ClientTestEnds` is not in `Progress`):
`measure_latency()` runs for ever when `recv()` returns 0 (`latency.c:280`). Being
busy, failing and being killed are never fair. What `ControllerExits` needs beyond
that is its premise, `TestsEnd`: no client stays in its test, and no target that was
told to stop goes on because the `stop()` came too early (`StopLost`;
`cpu_target_lukem.c:130` waits without a predicate). Under it the controller ends, or
spins in `unmarshall()` because a daemon was killed in the middle of its reply
(`ipbench.py:237`). The property uses nothing about the network but that a closed
connection is seen in the end. In `Unmarshall` the controller goes on while it can and
a daemon that is not killed finishes its writes. In `NfsRpc` a request that is sent
again and again is answered at last, and an answer that has arrived is read; nothing
is assumed of a request that is sent once. In `HttpSpawner` every thread runs, and
whoever asks for a lock again and again gets it, while failures and spurious wake-ups
need not happen: with this strong fairness the counterexample is no accident of
scheduling.

### What the violated properties say

- `ServerSurvives`: `abort()` reads the pid twice. If the test ends in between, the
  second value is 0, and `os.kill(0, SIGINT)` reaches the server as well.
- `ResetSparesItsSession`: `connect()` drops the connection with the ABORT and opens
  the next one without waiting. If the second handler records its pid before the first
  runs `abort()`, the ABORT of `--reset` ends the session it was to make room for.
  What remains true is `PrintedRunFreesDaemons`: after a printed run the flag stays
  only where an ABORT, this one or another controller's, struck between a daemon's
  data and its `not_running()`.
- `FreedSlotIsReused`: a joiner that finds `inflight.mutex` taken does not signal,
  relying on the main thread to look again; but the main thread may have looked
  already, and be on its way to `pthread_cond_wait()`. When every joiner comes at such
  a moment the main thread sleeps for ever in front of free slots.
- `FreeMachineIsIdle`: QUIT to a running target is read by the forked child, which
  clears the flag and exits. The parent measures on, and cannot be stopped.

### Observations that are no run

- The flag stays when its owner was killed or lost its connection; STATUS reports a
  test and HELLO is refused until the next ABORT finds the process gone
  (`ResetRecovers` is the promise that this works).
- START is not acknowledged, although a comment in `main()` speaks of an OK: clients
  may be measured before the target measures. `Experiment` promises only what holds.
- `<test>` overwrites what the command line said with its own defaults, and
  `str(None)` makes a test called "None", so the check for a missing name is dead.
- `findall("target_test[@name='...']/target")` finds the targets of every section of
  that name, so two sections of one name, as in `doc/config.xml`, give each target
  twice, once with the other section's arguments. `TargetsOfTheirSection` without the
  proviso of `DistinctSectionsAreKept` does not hold.
- `cpu_target_lukem` waits on a condition variable without a predicate; a STOP that
  comes first is lost, and the target measures for ever. The premise of `ControllerExits`
  excludes such runs; without it the property does not hold.
- A spurious wake-up of a joiner, or of any wait in `spawner.c`, is taken for a signal. A
  joiner of a free slot then reaches `JoinsNothing`; `JoinsItsThread` is about the others.
- `spawner.c` starts its joiners and does not wait until they wait. The signal for a new
  thread can come before its joiner is in `pthread_cond_wait()`, and is lost: the thread
  ends, nobody joins it, and the slot is not freed. If that happens in every slot, the
  main thread waits for ever, unless a spurious wake-up helps.
- Because updates of the counter are lost it can be below `NTHREADS` while no slot is
  free; `find_free_thread()` finds none and spawner exits with "No free slot?".
- With datagrams that overtake each other both rings, of the latency tests and of
  libnfs, drop echoes: an emptied head stands for id 0, and nothing is found behind it.

## 4. Proofs

`IpbenchDaemonProofs` proves, for every set of pids, any `MaxChildren` and both
values of `PidReuse` unless noted:

| theorem | states |
|---|---|
| `TypeCorrect` | `Spec => []TypeOK` |
| `OneOwner`, `OwnerIsFlagged` | `PoliteSpec => []ExclusiveOwner`, `[]OwnerFlagged` |
| `DaemonIsMutex` | `PoliteSpec => ImplementsMutex` |
| `FlagIsAClaimant` | without reuse of recorded pids, `Spec => []FlagNamesClaimant` |
| `AbortSpares` | likewise, `Spec => AbortSparesBystanders` |

Assumptions: 0 is no pid, `MaxChildren` is a natural number, `PidReuse` a Boolean.

`LatencyProofs` proves, for every ring of at least one slot, any number of samples, any
rate, packet size and periods:

| theorem | states |
|---|---|
| `LatencyTypeCorrect` | `Spec => []TypeOK` |
| `RingStaysInOrder` | `Spec => []RingInOrder` |
| `TcpEchoIsFound` | `Spec => []EchoIsFound` |
| `ReportsAreComplete` | `Spec => []ReportIsComplete` |
| `LatencyImplementsRoundTrips` | `Spec => SamplesAreRoundTrips` |

Assumption: fewer than `Word` - `Length` packets are sent, that is, 64-bit ids do not
wrap around during a test.

`NfsRpcProofs` proves, for every ring of at least one slot, any number of calls,
components and requests:

| theorem | states |
|---|---|
| `NfsTypeCorrect` | `Spec => []TypeOK` |
| `CallbacksHaveFrames` | `Spec => []OwnFrame` |
| `CallbackRingInOrder` | `Spec => []RingInOrder` |
| `CallbacksRunOnce` | `Spec => []RunsOnce` |

Assumption: fewer than `Word` - `Length` requests are sent.

`IpbenchSystemProofs` proves, for any list of targets and any non-empty list of
clients, with and without `--reset`, whether a `stop()` that comes too early is lost or not:

| theorem | states |
|---|---|
| `SystemTypeCorrect` | `Spec => []TypeOK` |
| `WordsAreKnown` | `Spec => []NoSyntaxErrors` |
| `RunIsExperiment` | `Spec => ImplementsExperiment` |

Assumptions: no machine is listed twice (one session per daemon), and there is a
client, which `main()` checks.

`UnmarshallProofs` proves, for any clients, any data, any way of writing numbers and any
size of a `recv()`:

| theorem | states |
|---|---|
| `UnmarshallTypeCorrect` | `Spec => []TypeOK` |
| `UnmarshallShown` | for any number of targets, what is shown is each client's own data and, for every target, the last target's (`TargetsShareTheLast`), except for machines in `split` |
| `UnmarshallOutputIsOwn` | with at most one target, `Spec => []OutputIsOwn` |
| `UnmarshallFailures` | `Spec => []FailuresHaveCauses` |

Assumptions: numbers are written in different ways, in digits, none of which is the
newline; every length the data can have can be written; no machine is listed twice.
Nothing is assumed of where a `recv()` ends: both properties except the machines in
`split` by themselves, and a misread reply of one machine leaves the others alone.

`HttpSpawnerProofs` proves, for any number of slots and any `MaxDrift`:

| theorem | states |
|---|---|
| `SpawnerTypeCorrect` | `Spec => []TypeOK` |
| `StacksAreUnused` | `Spec => []StackIsUnused` |
| `JoinersJoinTheirThread` | `Spec => []JoinsItsThread` |
| `CountIsBounded` | `Spec => []CountWithinSlots` |

Assumption: there is a slot.

`ConfigurationProofs` proves, for any set of command lines and of documents:

| theorem | states |
|---|---|
| `ConfigurationKeepsSections` | `Spec => []DistinctSectionsAreKept` |
| `ConfigurationNamesHosts` | `Spec => []HostsAreNamed` |

Assumptions: the command line has the options `argparse` gives it, with hostnames after
`--client`; the parts of a document are sequences.

*Argument for the system.* None of the three is inductive: what may be in a socket
depends on where `main()` is. `IndInv` says so in parts. `Stages` gives, for each
place in the order of set-up and each `step`, how far that daemon can be: untouched,
about to send the banner, with one command on the way to it or one answer on the way
back, ready, or started with nothing sent after START. `Queues` is what the sockets
hold once `main()` has given up and says QUIT: at most one word for the state of the
reader, a STOP behind a START, and QUITs. `Barrier` (a START is on the way only
when everybody has passed SETUP), `DataReported` (data in flight or stored comes from
a handler that has reported), `LastCall` (a STOP, or what came of it, only after every
client has reported) and `Collected` (whose data the loops have) are the order of the
experiment. The eighteen actions of a daemon are first reduced to the eleven
`Effect`s they have on its own handler, child and sockets (`DaemonEffect`,
`DaemonFrame`); each part of the invariant is then shown to survive the effects. The
actions of the controller are treated one by one. For the refinement an effect maps
to a step of `Experiment`: `Barrier` is what `Begin` asks for, `LastCall` what
`FinishTarget` asks for, and `Collected` what `PrintResults` asks for.

*Argument for the callbacks.* `OwnFrame`, `RingInOrder` and `RunsOnce` are inductive
together with two more facts: a callback that was run is not in the ring and has no
future xid (`RanOK`), and what a waiting plugin knows of `cur_xid` and `todo`
(`PlaceOK`). In an ordered ring no xid occurs twice (`XidsDiffer`), so emptying
one slot (`RunEffect`) removes the callback for good. The two xids that
`initialise_cache()` skips do no harm, because the ring is empty at that moment:
that is what `OwnFrame` contributes to `RingInOrder`.

*Argument for the ring.* `IndInv` says, besides the types: the n-th slot behind the
head is empty or holds packet `sid` - 1 - n with its send time (`SlotsOK`); over TCP
an outstanding packet is on the wire, and an empty head means an empty wire
(`WireOK`); a sampled packet is not outstanding (`SampledOK`); and how many samples
there may be at each place of the loop (`CountOK`). `DelEffect` and `AddEffect` state
what the two list operations do, counted from the head: one empties a slot, the other
shifts all by one. The rest of the argument no longer looks at indices. `WireOK` is
what makes the head's id usable over TCP: it is empty only when nothing can arrive.

*Argument for the mutex.* `OwnerFlagged` implies `ExclusiveOwner` but is not
inductive: the invariant also has to say that a handler on its way to clear the flag
(ERROR with another code than 421) is still the one it names, that while a handler
is between HELLO's look at the flag and its write the flag is 0, that the pid an
ABORT is about to signal is the flag's unless the flag is 0 by now, and that nobody
owns the test while an ABORT is about to clear the flag. With it
each action either leaves the owners alone, makes the claimant the only one, or
removes the owner, which is the step of `TestMutex`. `Exit` and `Interrupt` change four
functions at many places at once; the lemmas `ExitTypes`, `InterruptTypes`,
`InterruptEffect` and `SigintEffect` say once what they do to types and program
counters, and the proof of each action cites them.

*Argument for `AbortSpares`.* `FlagNamesClaimant` speaks of the flag and of every
`pid_to_kill`, and is inductive together with `TypeOK`: a pid gets into the flag only
when its handler claims the test, into `pid_to_kill` only from the flag, and a new
handler gets no pid that is still recorded.

*Argument for the reply.* `IndInv` follows one reply through `unmarshall()`.
`StreamOK`: what a daemon has sent is as much of header and data as `writes` says.
`ReadOK`: what has been taken from the machine that is being read, less what was
parsed, is `buffer`, at each of `length` and `data`, as long as the machine is not in
`split`. `TurnOK` and `FreshOK`: nothing has been taken from a machine that is still
waiting, which makes the first `recv()` start at its status line. `TablesOK`: whoever
has been read and is not in `split` is in the table with its own data, the last target
in `target_data`. `ShownOK` and `FailuresOK` are the results. The step from the text
of a reply to its parts is in lemmas: `LengthLine` and `NewlineAt` find the first
newline of a line although data may contain more, and `Match` gives the number back
because `Numeral` is injective.

*Argument for the spawner.* A slot's flag, its thread and its joiner are changed under
two locks and a condition variable; `SlotsOK` says that a free slot has no thread and
no joiner that was signalled, and that such a joiner has a thread to join, while one
in `unasked` may find none; past `pthread_join()` the two are alike, because
`JoinsNothing` goes nowhere. `LocksOK` says who holds a slot's lock. For the counter,
which no lock protects, `CountOK` says that the main thread goes on to start a thread
only with a value below `NTHREADS`, and that nobody else increases it: a joiner writes
back less than it has read, so even a lost update never raises the counter above the
number of slots.

*Argument for the configuration.* The loop over the `<target_test>`s appends, section by
section, what the search for the section's name finds. `ProgressOK` says that before
section i the list is `Upto(i - 1)`, the targets of the first i - 1 sections;
`SelectedIs` says that the search finds the section's own targets if its name is its own.
`Written` is a concatenation, whose recursive function is reasoned about in
`SequenceLemmas`: a counterexample would have a least index (`LeastNatural`), and there is
none (`FlatExists`, `FlatType`, `FlatOne`). `NamesOK` carries the hostnames along.

Only model-checked: the liveness properties (`LostPeerFreesChild`, `ResetRecovers`,
`ControllerExits`, `PrintedRunFreesDaemons`, `EndsUnlessCutShort`, `CallEnds`), because
fairness is out of the prover's reach. Every invariant and every action property of the
passing runs is proved. The violated properties are counterexamples, and need no proof.

## 5. Not modelled

Within the modelled parts: texts and layout of messages, HELP, STATUS and syntax
errors of the daemon (they change nothing); option parsing before `OPTIONS`, the
parsing of XML and debugging output; torn reads of the shared word; ABORT over a
target's own connection, and words its child does not know (`WordsAreKnown`: the
controller sends none); loading of plugins; the latency tests' figures, marshalling
and output; the file cache and the other procedures of libnfs; the wait plugin's own
SIGINT handler (its test ends instead of the process, until SIGKILL comes).

Left out altogether, with the reason:

- cpu_target: what it computes are averages of measured loop counts; of its control
  only `stop()` matters to the system, and that is in `ChildStop`.
- tbench/dbench, nfsstone: forked copies of third-party load generators that talk
  over files and signals.
- wrapper tests, discard_target: one loop over a pipe, and one that sends for a fixed time.
- `lib`, echo servers, scripts: sequential helpers outside the running benchmark.
- build files, packages and web pages.

------------------------------- MODULE NfsRpc -------------------------------
(***************************************************************************)
(* The client side of nfs_latency: SunRPC over UDP (libnfs rpc.c and       *)
(* callback.c) as nfs_glue.c uses it.  Setting up makes calls that are     *)
(* retransmitted until answered, then looks the file up component by       *)
(* component without retransmitting, then the test sends requests and      *)
(* takes replies without waiting for either.  Every request leaves a       *)
(* callback in callback_list, a ring of the latest Length requests; a      *)
(* reply runs the callback of its xid if the ring still has it.            *)
(*                                                                         *)
(* The environment is the network and the server: a request or its reply   *)
(* may be lost, delayed, reordered and repeated.                           *)
(***************************************************************************)
EXTENDS Integers, Sequences, Functions

CONSTANTS Length,      \* callback_list_length
          Calls,       \* rpc_call()s on the mount socket
          Components,  \* components of the file name
          Word,        \* 2^32: what xids are subtracted modulo
          MaxXid       \* bound: requests, counted from the first one

ASSUME LengthAssumption == Length \in Nat \ {0}
ASSUME CallsAssumption == Calls \in Nat \ {0} /\ Components \in Nat \ {0}
\* The counter does not wrap around: 2^32 requests are not sent.
ASSUME WordAssumption == Word \in Nat /\ MaxXid \in Nat /\ MaxXid + Length < Word

VARIABLES
  at,             \* what the plugin does; "call", "dir", "open" wait for a reply
  todo,           \* calls, then components, that are left
  cur_xid,        \* the last xid handed out
  callback_list, callback_list_head,
  wire,           \* xids whose reply can (still) arrive on the socket in use
  ran             \* history: the xids whose callbacks were run

list == <<callback_list, callback_list_head>>
vars == <<at, todo, cur_xid, list, wire, ran>>

Slots == 0 .. Length - 1
Empty == [xid |-> 0, cb |-> "none"]
Waiting == {"call", "dir", "open"}

TypeOK ==
  /\ at \in Waiting \cup {"setup", "walk", "test", "failed", "aborted"}
  /\ todo \in 0 .. Calls + Components
  /\ cur_xid \in 0 .. MaxXid
  /\ callback_list \in [Slots -> [xid : 0 .. MaxXid,
                                  cb : Waiting \cup {"none", "sample"}]]
  /\ callback_list_head \in Slots
  /\ wire \in SUBSET (1 .. MaxXid)
  /\ ran \in Seq(1 .. MaxXid)

Init ==
  /\ at = "setup" /\ todo = Calls /\ cur_xid = 0
  /\ callback_list = [i \in Slots |-> Empty] /\ callback_list_head = 0
  /\ wire = {} /\ ran = << >>
-----------------------------------------------------------------------------
(* callback.c *)

\* The slot that is n places behind the head, and what is in it.
Behind(n) == IF callback_list_head >= n THEN callback_list_head - n
             ELSE Length - (n - callback_list_head)
Slot(n) == callback_list[Behind(n)]

\* Unsigned: how far behind the head xid is; the head may have been emptied.
Offset(xid) == (callback_list[callback_list_head].xid - xid) % Word

Found(xid) == Offset(xid) < Length /\ Slot(Offset(xid)).xid = xid

\* Mutant: the head does not wrap around.
AddNoWrap(xid, cb) ==
  /\ callback_list_head' = callback_list_head + 1
  /\ callback_list' = [callback_list EXCEPT ![callback_list_head + 1] = [xid |-> xid, cb |-> cb]]

\* Mutant: the callback is put into the slot of the previous request.
AddBeforeMove(xid, cb) ==
  /\ callback_list_head' = (callback_list_head + 1) % Length
  /\ callback_list' = [callback_list EXCEPT ![callback_list_head] = [xid |-> xid, cb |-> cb]]

callback_add(xid, cb) ==
  LET head == (callback_list_head + 1) % Length
  IN /\ callback_list_head' = head
     /\ callback_list' = [callback_list EXCEPT ![head] = [xid |-> xid, cb |-> cb]]

\* Mutant: the slot stays filled.
RunsAndKeeps(xid) == Found(xid) /\ ran' = Append(ran, xid) /\ UNCHANGED list

\* callback_del(), and the callback of xid is run.
Runs(xid) ==
  /\ Found(xid)
  /\ callback_list' = [callback_list EXCEPT ![Behind(Offset(xid))] = Empty]
  /\ ran' = Append(ran, xid)
  /\ UNCHANGED callback_list_head
-----------------------------------------------------------------------------
(* rpc.c *)

\* send(): the request, or the reply to it, may be lost.
Sends(xid) == wire' \in {wire, wire \cup {xid}}

\* A new xid, a callback for it, and rpc_send().
Request(cb) ==
  /\ cur_xid < MaxXid
  /\ cur_xid' = cur_xid + 1
  /\ callback_add(cur_xid', cb)
  /\ UNCHANGED ran

\* rpc_recv(): a reply, which may come again.
Arrives(xid) == xid \in wire /\ wire' \in {wire, wire \ {xid}}

\* A reply without a callback is dropped: rpc_recv() returns -1.
Stale(xid) ==
  /\ Arrives(xid) /\ ~Found(xid)
  /\ UNCHANGED <<at, todo, cur_xid, list, ran>>

\* rpc_call() begins: map_getport(), mnt_get_export_list() and mnt_mount().
Call ==
  /\ at = "setup"
  /\ Request("call") /\ Sends(cur_xid')
  /\ at' = "call"
  /\ UNCHANGED todo

\* Mutant: the callback is added again.
RetransmitAdds ==
  /\ at = "call" /\ Sends(cur_xid)
  /\ callback_add(cur_xid, "call")
  /\ UNCHANGED <<at, todo, cur_xid, ran>>

\* Mutant: the call is sent once.
RetransmitNot ==
  /\ at = "call"
  /\ UNCHANGED vars

\* 100 ms passed, or the reply was stale; the callback is in the list already.
Retransmit ==
  /\ at = "call" /\ Sends(cur_xid)
  /\ UNCHANGED <<at, todo, cur_xid, list, ran>>

\* "assert(rpc_send(snd, fd, tx)==snd->pos)": no server at the port, for one.
SendFails ==
  /\ at = "call" /\ at' = "aborted"
  /\ UNCHANGED <<todo, cur_xid, list, wire, ran>>

\* rpc_call() returns; after the last one, which may fail, to another socket.
CallReply ==
  /\ at = "call" /\ cur_xid \in wire /\ Runs(cur_xid)
  /\ UNCHANGED cur_xid
  /\ \/ todo > 1 /\ at' = "setup" /\ todo' = todo - 1 /\ Arrives(cur_xid)
     \/ todo = 1 /\ at' = "walk" /\ todo' = Components /\ wire' = {}
     \/ todo = 1 /\ at' = "failed" /\ UNCHANGED <<todo, wire>>
-----------------------------------------------------------------------------
(* nfs_glue.c *)

\* nfs_lookup() of a directory, or of the file: sent once.
Lookup ==
  /\ at = "walk"
  /\ at' = IF todo > 1 THEN "dir" ELSE "open"
  /\ Request(at') /\ Sends(cur_xid')
  /\ UNCHANGED todo

\* dir_cb().  Without the directory recursive_lookup() gives up, and its caller
\* waits for the reply to a lookup of the file that was never sent.
DirReply ==
  /\ at = "dir" /\ Arrives(cur_xid) /\ Runs(cur_xid)
  /\ todo' = todo - 1
  /\ at' \in {"walk", "open"}
  /\ UNCHANGED cur_xid

\* open_cb().  initialise_cache() takes two xids that are never used.
OpenReply ==
  /\ at = "open" /\ Arrives(cur_xid) /\ Runs(cur_xid)
  /\ \/ at' = "test" /\ cur_xid + 2 <= MaxXid /\ cur_xid' = cur_xid + 2
     \/ at' = "failed" /\ UNCHANGED cur_xid
  /\ UNCHANGED todo

\* generate_request(); what send() returns does not matter.
generate_request ==
  /\ at = "test"
  /\ Request("sample") /\ Sends(cur_xid')
  /\ UNCHANGED <<at, todo>>

\* process_reply(): a sample.
process_reply(xid) ==
  /\ at = "test" /\ Arrives(xid) /\ Runs(xid)
  /\ UNCHANGED <<at, todo, cur_xid>>

Next == \/ Call \/ Retransmit \/ SendFails \/ CallReply
        \/ Lookup \/ DirReply \/ OpenReply
        \/ generate_request
        \/ \E xid \in wire : process_reply(xid) \/ (at \in Waiting \cup {"test"} /\ Stale(xid))

Spec == Init /\ [][Next]_vars

\* A request that is sent again and again is answered; a reply that can arrive
\* does.  Nothing is assumed of a request that is sent once.
FairSpec == /\ Spec
            /\ WF_vars(Retransmit /\ cur_xid \in wire')
            /\ WF_vars(CallReply)
-----------------------------------------------------------------------------
(* Properties *)

(* The callbacks of rpc_call() and recursive_lookup() point into the stack of *)
(* the caller: one that is in the list belongs to the wait in progress, so    *)
(* that a late or repeated reply never writes to a frame that is gone.        *)
OwnFrame ==
  at # "aborted" => \A i \in Slots : callback_list[i].xid # 0 =>
    \/ callback_list[i].cb = "sample" /\ at = "test"
    \/ callback_list[i].cb = at /\ callback_list[i].xid = cur_xid /\ i = callback_list_head

(* "provided xid's must be increment by 1 for each call" (callback_add()):    *)
(* the request n places behind the head is n older than the latest, although  *)
(* initialise_cache() leaves a gap.  callback_del() finds its slot by that.   *)
RingInOrder ==
  \A n \in Slots : Slot(n).xid # 0 => Slot(n).xid = cur_xid - n

(* However often a request is sent and a reply comes, the callback of a       *)
(* request is run at most once: a call returns once, a request is one sample. *)
RunsOnce == IsInjective(ran)

(* "retransmit every 100ms until success" (rpc_call()): a call ends, with its *)
(* reply or with the failure of a send.                                       *)
CallEnds == \A n \in 1 .. Calls : (at = "call" /\ todo = n) ~> (at # "call" \/ todo # n)
=============================================================================

---------------------------- MODULE Configuration ----------------------------
(***************************************************************************)
(* ipbench.py main(), its first half: from the command line and an XML     *)
(* document to the lists of clients and targets.  The document is read     *)
(* section by section; <test> and <target_test> overwrite entries of       *)
(* OPTIONS, which are the defaults of what is read after them.             *)
(*                                                                         *)
(* An element is a function from its attributes to their values; an        *)
(* attribute that is not there is not in its domain.                       *)
(***************************************************************************)
EXTENDS Naturals, Sequences, SequencesExt

CONSTANTS CommandLines,  \* parsed options: what argparse returns
          Documents,     \* configuration files
          None

IsSeq(s) == s \in Seq(Range(s))

\* argparse gives an object with all its attributes; --client gives hostnames.
ASSUME CommandLinesAssumption ==
  \A options \in CommandLines :
    /\ DOMAIN options = {"test", "test_args", "test_port", "test_target", "port", "clients",
                         "target_test", "target_test_hostname", "target_test_port",
                         "target_test_args"}
    /\ options = [key \in DOMAIN options |-> options[key]]
    /\ IsSeq(options.clients) /\ None \notin Range(options.clients)

\* The parts of a document are in an order.
ASSUME DocumentsAssumption ==
  /\ None \notin Documents
  /\ \A d \in Documents :
       /\ IsSeq(d.target_tests)
       /\ \A i \in DOMAIN d.target_tests : IsSeq(d.target_tests[i].targets)
       /\ IsSeq(d.tests) /\ \A i \in DOMAIN d.tests : IsSeq(d.tests[i].clients)

VARIABLES
  OPTIONS,
  doc,       \* the configuration file, None if there is none
  step,      \* the next part of main(); "rejected", "crashed" or "configured"
  section,   \* the <target_test> that is next
  clients, targets

vars == <<OPTIONS, doc, step, section, clients, targets>>

get(element, key, default) ==
  IF key \in DOMAIN element THEN element[key] ELSE default

\* str(None) is a word like any other.
str(x) == IF x = None THEN "None" ELSE x

Init ==
  /\ OPTIONS \in CommandLines
  /\ doc \in Documents \cup {None}
  /\ step = IF doc = None THEN "command line" ELSE "test"
  /\ section = 1 /\ clients = << >> /\ targets = << >>

\* error_exit() when bad, else go on.
Unless(bad, next) == step' = IF bad THEN "rejected" ELSE next

\* <test>: none is an error only if --test is missing, else an IndexError.
ReadTest ==
  /\ step = "test"
  /\ IF Len(doc.tests) = 1
     THEN LET test == doc.tests[1].attributes IN
          /\ OPTIONS' = [OPTIONS EXCEPT !.test = str(get(test, "name", None)),
                                        !.test_args = get(test, "args", ""),
                                        !.test_port = get(test, "port", 0),
                                        !.test_target = str(get(test, "target", None))]
          /\ step' = "clients"
     ELSE /\ Unless(Len(doc.tests) > 1 \/ OPTIONS.test = None, "crashed")
          /\ UNCHANGED OPTIONS
  /\ UNCHANGED <<doc, section, clients, targets>>

\* <client>: attributes of its own, or those of <test>.
Client(element) ==
  [hostname |-> get(element, "hostname", None),
   port |-> get(element, "port", OPTIONS.port),
   test_port |-> get(element, "test_port", OPTIONS.test_port),
   test_args |-> get(element, "test_args", OPTIONS.test_args),
   test_target |-> get(element, "test_target", OPTIONS.test_target)]

ReadClients ==
  /\ step = "clients"
  /\ clients' = [i \in DOMAIN doc.tests[1].clients |-> Client(doc.tests[1].clients[i])]
  /\ Unless(\E i \in DOMAIN clients' : clients'[i].hostname = None, "target tests")
  /\ UNCHANGED <<OPTIONS, doc, section, targets>>

\* Mutant: the <target>s of every section, whatever its name.
SelectedAll(name) ==
  FlattenSeq([i \in DOMAIN doc.target_tests |-> doc.target_tests[i].targets])

\* findall("target_test[@name='...']/target"): the <target>s of every section
\* of that name.
Selected(name) ==
  FlattenSeq([i \in DOMAIN doc.target_tests |->
    IF get(doc.target_tests[i].attributes, "name", None) = name
    THEN doc.target_tests[i].targets ELSE << >>])

Target(element, name, args) ==
  [hostname |-> get(element, "hostname", OPTIONS.target_test_hostname),
   port |-> get(element, "port", OPTIONS.target_test_port),
   test_args |-> get(element, "test_args", args),
   test |-> name]

\* One <target_test>.  The hostname of a <target> without any attribute is not
\* looked at.
ReadTargetTest ==
  /\ step = "target tests" /\ section \in DOMAIN doc.target_tests
  /\ LET attributes == doc.target_tests[section].attributes
         name == get(attributes, "name", None)
         args == get(attributes, "args", "")
         selected == Selected(name)
         new == [i \in DOMAIN selected |-> Target(selected[i], name, args)]
         nameless(i) == DOMAIN selected[i] # {} /\ new[i].hostname = None
     IN /\ OPTIONS' = [OPTIONS EXCEPT !.target_test_args = args]
        /\ Unless(name = None \/ new = << >> \/ \E i \in DOMAIN new : nameless(i), step)
        /\ targets' = targets \o new
  /\ section' = section + 1
  /\ UNCHANGED <<doc, clients>>

TargetTestsRead ==
  /\ step = "target tests" /\ section \notin DOMAIN doc.target_tests
  /\ step' = "command line"
  /\ UNCHANGED <<OPTIONS, doc, section, clients, targets>>

\* --target-test: the arguments are those of the last <target_test>, if there is one.
CommandLineTargets ==
  IF OPTIONS.target_test = None THEN << >>
  ELSE << [hostname |-> OPTIONS.target_test_hostname, port |-> OPTIONS.target_test_port,
           test_args |-> OPTIONS.target_test_args, test |-> OPTIONS.target_test] >>

\* Mutant: the hostname of the target is not asked for.
ReadCommandLineUnchecked ==
  /\ step = "command line"
  /\ clients' = clients \o
       [i \in DOMAIN OPTIONS.clients |->
          [hostname |-> OPTIONS.clients[i], port |-> OPTIONS.port,
           test_port |-> OPTIONS.test_port, test_args |-> OPTIONS.test_args,
           test_target |-> OPTIONS.test_target]]
  /\ targets' = targets \o CommandLineTargets
  /\ Unless(OPTIONS.test = None \/ clients' = << >>, "configured")
  /\ UNCHANGED <<OPTIONS, doc, section>>

\* --client (any number) and --target-test (one), then the sanity checks.
ReadCommandLine ==
  /\ step = "command line"
  /\ clients' = clients \o
       [i \in DOMAIN OPTIONS.clients |->
          [hostname |-> OPTIONS.clients[i], port |-> OPTIONS.port,
           test_port |-> OPTIONS.test_port, test_args |-> OPTIONS.test_args,
           test_target |-> OPTIONS.test_target]]
  /\ targets' = targets \o CommandLineTargets
  /\ Unless(\/ OPTIONS.test = None
            \/ OPTIONS.target_test # None /\ OPTIONS.target_test_hostname = None
            \/ clients' = << >>, "configured")
  /\ UNCHANGED <<OPTIONS, doc, section>>

Ready == step \in {"configured", "rejected", "crashed"} /\ UNCHANGED vars

Next == \/ ReadTest \/ ReadClients \/ ReadTargetTest \/ TargetTestsRead
        \/ ReadCommandLine \/ Ready

Spec == Init /\ [][Next]_vars
-----------------------------------------------------------------------------
Name(i) == get(doc.target_tests[i].attributes, "name", None)
Args(i) == get(doc.target_tests[i].attributes, "args", "")

\* The <target>s in the order they are written, each with the test and the
\* arguments of its own section.
Written ==
  FlattenSeq([i \in DOMAIN doc.target_tests |->
    [j \in DOMAIN doc.target_tests[i].targets |->
       Target(doc.target_tests[i].targets[j], Name(i), Args(i))]])

\* "make sure we only select those targets for the target test we are currently
\* looking at" (ipbench.py main()): an accepted document gives the targets that
\* are written in it, once each and with the arguments of their section.
TargetsOfTheirSection ==
  step = "configured" /\ doc # None => targets = Written \o CommandLineTargets

\* That is so if no two sections have the same name: the search for a section's
\* targets finds its own, and what a section overwrites in OPTIONS does not reach
\* the targets of another.
DistinctSectionsAreKept ==
  doc # None /\ (\A i, j \in DOMAIN doc.target_tests : Name(i) = Name(j) => i = j)
    => TargetsOfTheirSection

\* Every machine that main() goes on to connect to has a hostname, wherever it was
\* named; only a <target> without any attribute escapes the check, which is inside
\* the loop over attributes.
HostsAreNamed ==
  step = "configured" =>
    /\ \A i \in DOMAIN clients : clients[i].hostname # None
    /\ \/ \A i \in DOMAIN targets : targets[i].hostname # None
       \/ /\ doc # None
          /\ \E i \in DOMAIN doc.target_tests :
               \E j \in DOMAIN doc.target_tests[i].targets :
                 DOMAIN doc.target_tests[i].targets[j] = {}
=============================================================================

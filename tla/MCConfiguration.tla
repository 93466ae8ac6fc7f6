--------------------------- MODULE MCConfiguration ---------------------------
EXTENDS Configuration

\* Two machines; everything but names and arguments at its default.
Lines ==
  [test : {None, "latency"}, test_args : {"", "cmd"}, test_port : {0},
   test_target : {None}, port : {8036}, clients : {<< >>, <<"h1">>},
   target_test : {None, "cpu"}, target_test_hostname : {None, "h2"},
   target_test_port : {8037}, target_test_args : {""}]

Tests == {[attributes |-> a, clients |-> <<c>>] :
            a \in {[name |-> "latency", args |-> "xml"], [port |-> 7]},
            c \in {[hostname |-> "h1"], [test_args |-> "own"]}}

TargetTests == {[attributes |-> a, targets |-> t] :
                  a \in {[name |-> "cpu", args |-> "first"], [name |-> "cpu"],
                         [name |-> "discard"], [args |-> "first"]},
                  t \in {<< >>, <<[hostname |-> "h2"]>>,
                         <<[port |-> 8038], [hostname |-> "h3", test_args |-> "own"]>>,
                         <<<< >>>>}}

Files == {[tests |-> t, target_tests |-> s] :
            t \in {<< >>} \cup {<<x>> : x \in Tests} \cup {<<x, x>> : x \in Tests},
            s \in {<< >>} \cup {<<x>> : x \in TargetTests}
                  \cup {<<x, y>> : x, y \in TargetTests}}
=============================================================================

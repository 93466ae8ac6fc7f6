------------------------ MODULE ConfigurationProofs ------------------------
(***************************************************************************)
(* Proofs about Configuration: for any command lines and documents.  The   *)
(* loop over the <target_test>s appends, section by section, the sequence  *)
(* that Written is the concatenation of.                                   *)
(***************************************************************************)
EXTENDS Configuration, SequenceLemmas

Keys == {"test", "test_args", "test_port", "test_target", "port", "clients", "target_test",
         "target_test_hostname", "target_test_port", "target_test_args"}

Distinct == \A i, j \in DOMAIN doc.target_tests : Name(i) = Name(j) => i = j

\* The targets of each section, and those of the first n sections.
Sections ==
  [i \in DOMAIN doc.target_tests |->
    [j \in DOMAIN doc.target_tests[i].targets |->
       Target(doc.target_tests[i].targets[j], Name(i), Args(i))]]
Upto(n) == IF n = 0 THEN << >> ELSE Flat(Sections)[n]

\* A <target> without any attribute.
Bare ==
  /\ doc # None
  /\ \E i \in DOMAIN doc.target_tests :
       \E j \in DOMAIN doc.target_tests[i].targets : DOMAIN doc.target_tests[i].targets[j] = {}

TypeOK ==
  /\ doc \in Documents \cup {None}
  /\ OPTIONS = [key \in Keys |-> OPTIONS[key]]
  /\ IsSeq(OPTIONS.clients) /\ None \notin Range(OPTIONS.clients)
  /\ step \in {"test", "clients", "target tests", "command line", "configured", "rejected",
              "crashed"}
  /\ step \in {"test", "clients", "target tests"} => doc # None
  /\ doc # None => section \in 1 .. Len(doc.target_tests) + 1
  /\ IsSeq(clients) /\ IsSeq(targets)

\* How far the document has been read.
ProgressOK ==
  /\ step \in {"test", "clients"} => section = 1 /\ targets = << >>
  /\ step = "clients" => 1 \in DOMAIN doc.tests
  /\ step = "command line" /\ doc = None => targets = << >>
  /\ step = "command line" /\ doc # None => section = Len(doc.target_tests) + 1
  /\ step \in {"target tests", "command line"} /\ doc # None /\ Distinct =>
       targets = Upto(section - 1)

NamesOK ==
  step \notin {"rejected", "crashed"} =>
    /\ \A i \in DOMAIN clients : clients[i].hostname # None
    /\ \A i \in DOMAIN targets : targets[i].hostname # None \/ Bare

IndInv == TypeOK /\ ProgressOK /\ NamesOK /\ DistinctSectionsAreKept
-----------------------------------------------------------------------------
(* What a section contributes *)

LEMMA DocumentIs ==
  ASSUME TypeOK, doc # None
  PROVE  /\ Len(doc.target_tests) \in Nat
         /\ DOMAIN doc.target_tests = 1 .. Len(doc.target_tests)
         /\ \A i \in DOMAIN doc.target_tests :
              /\ IsSeq(doc.target_tests[i].targets)
              /\ Len(doc.target_tests[i].targets) \in Nat
              /\ DOMAIN doc.target_tests[i].targets = 1 .. Len(doc.target_tests[i].targets)
         /\ \A i \in DOMAIN doc.tests : IsSeq(doc.tests[i].clients)
<1>1. doc \in Documents
  BY DEF TypeOK
<1>2. IsSeq(doc.target_tests) /\ \A i \in DOMAIN doc.target_tests : IsSeq(doc.target_tests[i].targets)
  BY <1>1, DocumentsAssumption
<1>3. Len(doc.target_tests) \in Nat /\ DOMAIN doc.target_tests = 1 .. Len(doc.target_tests)
  BY <1>2, LenProperties DEF IsSeq
<1>4. ASSUME NEW i \in DOMAIN doc.target_tests
      PROVE  /\ Len(doc.target_tests[i].targets) \in Nat
             /\ DOMAIN doc.target_tests[i].targets = 1 .. Len(doc.target_tests[i].targets)
  BY <1>2, LenProperties DEF IsSeq
<1> QED BY <1>1, <1>2, <1>3, <1>4, DocumentsAssumption

\* The sections are a sequence of sequences.
LEMMA SectionsType ==
  ASSUME TypeOK, doc # None
  PROVE  /\ Len(Sections) = Len(doc.target_tests)
         /\ \A i \in 1 .. Len(Sections) : IsSeq(Sections[i])
         /\ \E S : Sections \in Seq(Seq(S))
<1> DEFINE n == Len(doc.target_tests)
<1>1. n \in Nat /\ DOMAIN doc.target_tests = 1 .. n
  BY DocumentIs
<1>2. ASSUME NEW i \in 1 .. n PROVE IsSeq(Sections[i])
  <2> DEFINE tt == doc.target_tests[i].targets
             m == Len(tt)
             s == Sections[i]
  <2>1. m \in Nat /\ DOMAIN tt = 1 .. m
    BY <1>1, DocumentIs
  <2>2. s = [j \in 1 .. m |-> Target(tt[j], Name(i), Args(i))]
    BY <1>1, <2>1 DEF Sections
  <2> HIDE DEF s, tt, m
  <2>3. s = [j \in 1 .. m |-> s[j]]
    BY <2>2
  <2>4. s \in Seq(Range(s))
    BY <2>1, <2>3, IsSequence
  <2> QED BY <2>4 DEF s, IsSeq
<1>3. Sections = [i \in 1 .. n |-> Sections[i]]
  BY <1>1 DEF Sections
<1> DEFINE S == UNION {Range(Sections[i]) : i \in 1 .. n}
<1>4. \A i \in 1 .. n : Sections[i] \in Seq(Range(Sections[i])) /\ Range(Sections[i]) \subseteq S
  BY <1>2 DEF IsSeq
<1> HIDE DEF n, S
<1>5. Sections \in Seq(Seq(S)) /\ Len(Sections) = n
  BY <1>1, <1>3, <1>4, IsNested
<1> QED BY <1>2, <1>5 DEF n

\* Read section by section, they are what is written.
LEMMA UptoIs ==
  ASSUME TypeOK, doc # None
  PROVE  /\ Upto(Len(doc.target_tests)) = Written
         /\ \A k \in 1 .. Len(doc.target_tests) : Upto(k) = Upto(k - 1) \o Sections[k]
<1> DEFINE n == Len(doc.target_tests)
<1>1. n \in Nat
  BY DocumentIs
<1>2. Len(Sections) = n /\ \A i \in 1 .. n : IsSeq(Sections[i])
  BY SectionsType
<1>3. /\ \A i \in 1 .. n :
           Flat(Sections)[i] = IF i = 1 THEN Sections[i] ELSE Flat(Sections)[i - 1] \o Sections[i]
      /\ FlattenSeq(Sections) = IF n = 0 THEN Sections ELSE Flat(Sections)[n]
  BY <1>1, <1>2, FlatIs
<1>4. Written = FlattenSeq(Sections)
  BY DEF Written, Sections
<1>5. Upto(n) = Written
  <2>1. CASE n = 0
    <3>1. PICK S : Sections \in Seq(Seq(S))
      BY SectionsType
    <3>2. Sections = << >>
      BY <1>2, <2>1, <3>1, EmptySeq
    <3> QED BY <1>3, <1>4, <2>1, <3>2 DEF Upto
  <2> QED BY <1>3, <1>4, <2>1 DEF Upto
<1>6. ASSUME NEW k \in 1 .. n PROVE Upto(k) = Upto(k - 1) \o Sections[k]
  <2>1. CASE k = 1
    <3>1. << >> \o Sections[k] = Sections[k]
      BY <1>2, ConcatEmptySeq DEF IsSeq
    <3> QED BY <1>3, <2>1, <3>1 DEF Upto
  <2>2. CASE k # 1
    <3>1. k # 0 /\ k - 1 # 0
      BY <1>1, <2>2
    <3> QED BY <1>3, <2>2, <3>1 DEF Upto
  <2> QED BY <2>1, <2>2
<1> QED BY <1>5, <1>6

\* The search for the targets of a name gives <target>s of the document; when names
\* are distinct, those of the one section that has it.
LEMMA SelectedIs ==
  ASSUME TypeOK, doc # None, NEW name
  PROVE  /\ IsSeq(Selected(name))
         /\ Len(Selected(name)) \in Nat /\ DOMAIN Selected(name) = 1 .. Len(Selected(name))
         /\ \A x \in DOMAIN Selected(name) :
              \E i \in DOMAIN doc.target_tests : \E j \in DOMAIN doc.target_tests[i].targets :
                Selected(name)[x] = doc.target_tests[i].targets[j]
         /\ \A k \in DOMAIN doc.target_tests :
              Distinct /\ name = Name(k) => Selected(name) = doc.target_tests[k].targets
<1> DEFINE tt == doc.target_tests
           n == Len(tt)
           ss == [i \in DOMAIN tt |-> IF Name(i) = name THEN tt[i].targets ELSE << >>]
           S == UNION {Range(tt[i].targets) : i \in DOMAIN tt}
<1>1. n \in Nat /\ DOMAIN tt = 1 .. n
  BY DocumentIs
<1>2. Selected(name) = FlattenSeq(ss)
  BY DEF Selected, Name
<1>3. ASSUME NEW i \in DOMAIN tt PROVE tt[i].targets \in Seq(S)
  <2>1. tt[i].targets \in Seq(Range(tt[i].targets))
    BY DocumentIs DEF IsSeq
  <2>2. Range(tt[i].targets) \subseteq S
    OBVIOUS
  <2> QED BY <2>1, <2>2, SeqMonotonic
<1>4. \A i \in 1 .. n : ss[i] = IF Name(i) = name THEN tt[i].targets ELSE << >>
  BY <1>1
<1>5. ss \in [1 .. n -> Seq(S)]
  <2>1. \A i \in DOMAIN tt : (IF Name(i) = name THEN tt[i].targets ELSE << >>) \in Seq(S)
    BY <1>3
  <2> HIDE DEF S
  <2> QED BY <1>1, <2>1
<1> HIDE DEF ss, S
<1>6. ss \in Seq(Seq(S)) /\ Len(ss) = n
  BY <1>1, <1>5
<1>7. Selected(name) \in Seq(S)
  BY <1>2, <1>6, FlatType
<1>8. Len(Selected(name)) \in Nat /\ DOMAIN Selected(name) = 1 .. Len(Selected(name))
      /\ Selected(name) = [x \in 1 .. Len(Selected(name)) |-> Selected(name)[x]]
  <2>1. Len(Selected(name)) \in Nat /\ Selected(name) \in [1 .. Len(Selected(name)) -> S]
    BY <1>7, LenProperties
  <2> QED BY <2>1
<1>9. IsSeq(Selected(name))
  BY <1>8, IsSequence DEF IsSeq
<1>10. ASSUME NEW x \in DOMAIN Selected(name)
       PROVE  \E i \in DOMAIN tt : \E j \in DOMAIN tt[i].targets : Selected(name)[x] = tt[i].targets[j]
  <2>1. Selected(name)[x] \in S
    BY <1>7, <1>8, ElementOfSeq
  <2> QED BY <2>1 DEF S, Range
<1>11. ASSUME NEW k \in DOMAIN tt, Distinct, name = Name(k)
       PROVE  Selected(name) = tt[k].targets
  <2>1. k \in 1 .. Len(ss) /\ ss[k] = tt[k].targets
    BY <1>1, <1>4, <1>6, <1>11
  <2>2. \A i \in 1 .. Len(ss) : i # k => ss[i] = << >>
    BY <1>1, <1>4, <1>6, <1>11 DEF Distinct
  <2> QED BY <1>2, <1>6, <2>1, <2>2, FlatOne
<1> QED BY <1>8, <1>9, <1>10, <1>11
-----------------------------------------------------------------------------
(* The steps of main() *)

LEMMA IndInit == Init => IndInv
<1> SUFFICES ASSUME Init PROVE IndInv
  OBVIOUS
<1>1. OPTIONS \in CommandLines /\ doc \in Documents \cup {None} /\ section = 1
      /\ clients = << >> /\ targets = << >> /\ step = IF doc = None THEN "command line" ELSE "test"
  BY DEF Init
<1>2. IsSeq(<< >>) /\ DOMAIN << >> = {}
  BY DEF IsSeq
<1>3. /\ OPTIONS = [key \in Keys |-> OPTIONS[key]]
      /\ IsSeq(OPTIONS.clients) /\ None \notin Range(OPTIONS.clients)
  BY <1>1, CommandLinesAssumption DEF Keys
<1>4. doc # None => section \in 1 .. Len(doc.target_tests) + 1
  <2> SUFFICES ASSUME doc # None PROVE section \in 1 .. Len(doc.target_tests) + 1
    OBVIOUS
  <2>1. Len(doc.target_tests) \in Nat
    BY <1>1, DocumentsAssumption, LenProperties DEF IsSeq
  <2> QED BY <1>1, <2>1
<1>5. TypeOK
  BY <1>1, <1>2, <1>3, <1>4 DEF TypeOK
<1>6. ProgressOK /\ NamesOK /\ DistinctSectionsAreKept
  BY <1>1, <1>2 DEF ProgressOK, NamesOK, DistinctSectionsAreKept, TargetsOfTheirSection
<1> QED BY <1>5, <1>6 DEF IndInv

LEMMA ReadTestKeeps ==
  ASSUME IndInv, ReadTest
  PROVE  IndInv'
<1>1. /\ step = "test" /\ step' \in {"clients", "rejected", "crashed"}
      /\ UNCHANGED <<doc, section, clients, targets>>
  BY DEF ReadTest, Unless
<1>2. /\ OPTIONS' = [key \in Keys |-> OPTIONS'[key]] /\ OPTIONS'.clients = OPTIONS.clients
  BY DEF ReadTest, IndInv, TypeOK, Keys
<1>3. TypeOK'
  BY <1>1, <1>2 DEF IndInv, TypeOK
<1>4. step' = "clients" => 1 \in DOMAIN doc.tests
  <2> SUFFICES ASSUME step' = "clients" PROVE 1 \in DOMAIN doc.tests
    OBVIOUS
  <2>1. Len(doc.tests) = 1
    BY DEF ReadTest, Unless
  <2>2. doc \in Documents
    BY <1>1 DEF IndInv, TypeOK
  <2>3. DOMAIN doc.tests = 1 .. Len(doc.tests)
    BY <2>2, DocumentsAssumption, LenProperties DEF IsSeq
  <2> QED BY <2>1, <2>3
<1>5. ProgressOK' /\ NamesOK' /\ DistinctSectionsAreKept'
  BY <1>1, <1>4 DEF IndInv, ProgressOK, NamesOK, DistinctSectionsAreKept, TargetsOfTheirSection, Bare
<1> QED BY <1>3, <1>5 DEF IndInv

LEMMA ReadClientsKeeps ==
  ASSUME IndInv, ReadClients
  PROVE  IndInv'
<1> DEFINE elements == doc.tests[1].clients
           n == Len(elements)
<1>1. /\ step = "clients" /\ step' \in {"target tests", "rejected"}
      /\ UNCHANGED <<OPTIONS, doc, section, targets>>
      /\ clients' = [i \in DOMAIN elements |-> Client(elements[i])]
      /\ step' = "target tests" => \A i \in DOMAIN clients' : clients'[i].hostname # None
  BY DEF ReadClients, Unless
<1>2. doc # None /\ section = 1 /\ targets = << >> /\ 1 \in DOMAIN doc.tests
  BY <1>1 DEF IndInv, TypeOK, ProgressOK
<1>3. IsSeq(clients')
  <2>1. IsSeq(elements)
    BY <1>2, DocumentIs DEF IndInv
  <2>2. n \in Nat /\ DOMAIN elements = 1 .. n
    BY <2>1, LenProperties DEF IsSeq
  <2>3. clients' = [i \in 1 .. n |-> Client(elements[i])]
    BY <1>1, <2>2
  <2> HIDE DEF n, elements
  <2>4. clients' = [i \in 1 .. n |-> clients'[i]]
    BY <2>3
  <2> QED BY <2>2, <2>4, IsSequence DEF IsSeq
<1>4. TypeOK'
  BY <1>1, <1>3, <1>2 DEF IndInv, TypeOK
<1> HIDE DEF n, elements
<1>5. Upto(section - 1)' = << >>
  <2>1. section' = 1
    BY <1>1, <1>2
  <2> QED BY <2>1 DEF Upto
<1>6. ProgressOK'
  BY <1>1, <1>2, <1>5 DEF ProgressOK
<1>7. DOMAIN targets' = {}
  <2>1. targets' = << >>
    BY <1>1, <1>2
  <2>2. DOMAIN << >> = {}
    OBVIOUS
  <2> QED BY <2>1, <2>2, Zenon
<1>8. NamesOK'
  BY <1>1, <1>7 DEF NamesOK
<1>9. DistinctSectionsAreKept'
  BY <1>1 DEF DistinctSectionsAreKept, TargetsOfTheirSection
<1> QED BY <1>4, <1>6, <1>8, <1>9 DEF IndInv

LEMMA ReadTargetTestKeeps ==
  ASSUME IndInv, ReadTargetTest
  PROVE  IndInv'
<1> DEFINE name == Name(section)
           args == Args(section)
           selected == Selected(name)
           new == [i \in DOMAIN selected |-> Target(selected[i], name, args)]
           n == Len(doc.target_tests)
<1>1. /\ step = "target tests" /\ section \in DOMAIN doc.target_tests
      /\ OPTIONS' = [OPTIONS EXCEPT !.target_test_args = args]
      /\ step' \in {"target tests", "rejected"}
      /\ targets' = targets \o new
      /\ section' = section + 1
      /\ UNCHANGED <<doc, clients>>
  BY DEF ReadTargetTest, Unless, Name, Args
<1>2. step' = "target tests" =>
        \A i \in DOMAIN new : DOMAIN selected[i] = {} \/ new[i].hostname # None
  BY DEF ReadTargetTest, Unless, Name, Args
<1>3. TypeOK /\ doc # None
  BY <1>1 DEF IndInv, TypeOK
<1>4. n \in Nat /\ section \in 1 .. n
  BY <1>1, <1>3, DocumentIs
<1>5. IsSeq(new) /\ DOMAIN new = DOMAIN selected
  <2> DEFINE m == Len(selected)
  <2>1. m \in Nat /\ DOMAIN selected = 1 .. m
    BY <1>3, SelectedIs
  <2>2. new = [i \in 1 .. m |-> Target(selected[i], name, args)]
    BY <2>1
  <2> HIDE DEF m, selected, new, name, args
  <2>3. new = [i \in 1 .. m |-> new[i]]
    BY <2>2
  <2> QED BY <2>1, <2>3, IsSequence DEF IsSeq
<1>6. \A i \in DOMAIN new : new[i] = Target(selected[i], name, args)
  OBVIOUS
<1> HIDE DEF new, selected
<1>7. /\ IsSeq(targets')
      /\ \A i \in DOMAIN targets' : \/ \E j \in DOMAIN targets : targets'[i] = targets[j]
                                    \/ \E j \in DOMAIN new : targets'[i] = new[j]
  <2>1. targets \in Seq(Range(targets)) /\ new \in Seq(Range(new))
    BY <1>3, <1>5 DEF TypeOK, IsSeq
  <2>2. targets' = targets \o new
    BY <1>1
  <2> QED BY <2>1, <2>2, ConcatHas DEF IsSeq
<1>8. TypeOK'
  <2>1. OPTIONS' = [key \in Keys |-> OPTIONS'[key]] /\ OPTIONS'.clients = OPTIONS.clients
    BY <1>1, <1>3 DEF TypeOK, Keys
  <2>2. section' \in 1 .. n + 1
    <3>1. \A m \in Nat : \A i \in 1 .. m : i + 1 \in 1 .. m + 1
      OBVIOUS
    <3>2. section' = section + 1
      BY <1>1
    <3> QED BY <1>4, <3>1, <3>2
  <2> QED BY <1>1, <1>3, <1>7, <2>1, <2>2 DEF TypeOK
<1>9. Sections' = Sections /\ Distinct' = Distinct /\ Bare' = Bare
  <2>1. /\ OPTIONS'.target_test_hostname = OPTIONS.target_test_hostname
        /\ OPTIONS'.target_test_port = OPTIONS.target_test_port
    BY <1>1, <1>3 DEF TypeOK, Keys
  <2> QED BY <1>1, <2>1 DEF Sections, Distinct, Bare, Target, Name, Args
<1>10. ASSUME Distinct PROVE targets' = Upto(section)
  <2>1. targets = Upto(section - 1)
    BY <1>1, <1>3, <1>10 DEF IndInv, ProgressOK
  <2>2. selected = doc.target_tests[section].targets
    BY <1>1, <1>3, <1>10, SelectedIs DEF selected
  <2>3. new = Sections[section]
    BY <1>1, <2>2 DEF Sections, new
  <2>4. Upto(section) = Upto(section - 1) \o Sections[section]
    BY <1>3, <1>4, UptoIs
  <2> QED BY <1>1, <2>1, <2>3, <2>4
<1>11. Upto(section - 1)' = Upto(section)
  <2>1. section' - 1 = section
    <3>1. section' = section + 1
      BY <1>1
    <3>2. section \in Int
      BY <1>4
    <3> QED BY <3>1, <3>2
  <2>2. Flat(Sections)' = Flat(Sections)
    BY <1>9
  <2> QED BY <2>1, <2>2 DEF Upto
<1>12. ProgressOK'
  BY <1>1, <1>9, <1>10, <1>11 DEF ProgressOK
<1>13. NamesOK'
  <2> SUFFICES ASSUME step' = "target tests" PROVE NamesOK'
    BY <1>1 DEF NamesOK
  <2>1. NamesOK /\ step \notin {"rejected", "crashed"}
    BY <1>1 DEF IndInv
  <2>2. ASSUME NEW j \in DOMAIN new PROVE new[j].hostname # None \/ Bare
    <3>1. CASE new[j].hostname # None
      BY <3>1
    <3>2. CASE DOMAIN selected[j] = {}
      <4>1. j \in DOMAIN Selected(name)
        BY <1>5 DEF selected
      <4>2. PICK i \in DOMAIN doc.target_tests : \E k \in DOMAIN doc.target_tests[i].targets :
              Selected(name)[j] = doc.target_tests[i].targets[k]
        BY <1>3, <4>1, SelectedIs
      <4> QED BY <1>3, <3>2, <4>2 DEF Bare, selected
    <3> QED BY <1>2, <3>1, <3>2
  <2>3. \A i \in DOMAIN targets' : targets'[i].hostname # None \/ Bare'
    BY <1>7, <1>9, <2>1, <2>2 DEF NamesOK
  <2> QED BY <1>1, <2>1, <2>3 DEF NamesOK
<1>14. DistinctSectionsAreKept'
  BY <1>1 DEF DistinctSectionsAreKept, TargetsOfTheirSection
<1> QED BY <1>8, <1>12, <1>13, <1>14 DEF IndInv

LEMMA TargetTestsReadKeeps ==
  ASSUME IndInv, TargetTestsRead
  PROVE  IndInv'
<1>1. /\ step = "target tests" /\ step' = "command line" /\ section \notin DOMAIN doc.target_tests
      /\ UNCHANGED <<OPTIONS, doc, section, clients, targets>>
  BY DEF TargetTestsRead
<1>2. TypeOK /\ doc # None
  BY <1>1 DEF IndInv, TypeOK
<1>3. section = Len(doc.target_tests) + 1
  <2>1. \A m \in Nat : \A i \in 1 .. m + 1 : i \notin 1 .. m => i = m + 1
    OBVIOUS
  <2>2. section \in 1 .. Len(doc.target_tests) + 1
    BY <1>2 DEF TypeOK
  <2>3. Len(doc.target_tests) \in Nat /\ section \notin 1 .. Len(doc.target_tests)
    BY <1>1, <1>2, DocumentIs
  <2> QED BY <2>1, <2>2, <2>3
<1>4. TypeOK'
  BY <1>1, <1>2 DEF TypeOK
<1>5. ProgressOK'
  <2>1. Distinct' = Distinct /\ Upto(section - 1)' = Upto(section - 1)
    BY <1>1 DEF Distinct, Upto, Sections, Target, Name, Args
  <2>2. Distinct => targets = Upto(section - 1)
    BY <1>1, <1>2 DEF IndInv, ProgressOK
  <2> QED BY <1>1, <1>2, <1>3, <2>1, <2>2 DEF ProgressOK
<1>6. NamesOK' /\ DistinctSectionsAreKept'
  BY <1>1 DEF IndInv, NamesOK, DistinctSectionsAreKept, TargetsOfTheirSection, Bare
<1> QED BY <1>4, <1>5, <1>6 DEF IndInv

LEMMA ReadCommandLineKeeps ==
  ASSUME IndInv, ReadCommandLine
  PROVE  IndInv'
<1> DEFINE hosts == OPTIONS.clients
           new == [i \in DOMAIN hosts |->
                     [hostname |-> hosts[i], port |-> OPTIONS.port,
                      test_port |-> OPTIONS.test_port, test_args |-> OPTIONS.test_args,
                      test_target |-> OPTIONS.test_target]]
<1>1. /\ step = "command line" /\ step' \in {"configured", "rejected"}
      /\ clients' = clients \o new
      /\ targets' = targets \o CommandLineTargets
      /\ UNCHANGED <<OPTIONS, doc, section>>
  BY DEF ReadCommandLine, Unless
<1>2. step' = "configured" => OPTIONS.target_test = None \/ OPTIONS.target_test_hostname # None
  BY DEF ReadCommandLine, Unless
<1>3. TypeOK /\ NamesOK
  BY DEF IndInv
<1>4. IsSeq(new) /\ \A i \in DOMAIN new : new[i].hostname # None
  <2> DEFINE m == Len(hosts)
  <2>1. hosts \in Seq(Range(hosts)) /\ None \notin Range(hosts)
    BY <1>3 DEF TypeOK, IsSeq
  <2> HIDE DEF hosts
  <2>2. m \in Nat /\ DOMAIN hosts = 1 .. m
    BY <2>1, LenProperties
  <2>3. \A i \in DOMAIN hosts : hosts[i] # None
    BY <2>1 DEF Range
  <2>4. \A i \in DOMAIN new : new[i].hostname # None
    BY <2>3
  <2>5. \E h : new = [i \in 1 .. m |-> h[i]]
    <3> DEFINE h == new
    <3>1. DOMAIN new = 1 .. m /\ new = [i \in DOMAIN new |-> new[i]]
      BY <2>2
    <3> QED BY <3>1
  <2> HIDE DEF m, new
  <2>6. new = [i \in 1 .. m |-> new[i]]
    BY <2>5
  <2> QED BY <2>2, <2>4, <2>6, IsSequence DEF IsSeq
<1>5. /\ IsSeq(CommandLineTargets)
      /\ step' = "configured" => \A i \in DOMAIN CommandLineTargets : CommandLineTargets[i].hostname # None
  <2> DEFINE t == [hostname |-> OPTIONS.target_test_hostname, port |-> OPTIONS.target_test_port,
                   test_args |-> OPTIONS.target_test_args, test |-> OPTIONS.target_test]
  <2>1. CASE OPTIONS.target_test = None
    <3>1. CommandLineTargets = << >>
      BY <2>1 DEF CommandLineTargets
    <3>2. IsSeq(<< >>) /\ DOMAIN << >> = {}
      BY DEF IsSeq
    <3> QED BY <3>1, <3>2
  <2>2. CASE OPTIONS.target_test # None
    <3>1. CommandLineTargets = <<t>> /\ t.hostname = OPTIONS.target_test_hostname
      BY <2>2 DEF CommandLineTargets
    <3> HIDE DEF t
    <3>2. DOMAIN <<t>> = {1} /\ <<t>>[1] = t
      OBVIOUS
    <3>3. Range(<<t>>) = {t} /\ <<t>> \in Seq({t})
      BY <3>2 DEF Range
    <3> QED BY <1>2, <2>2, <3>1, <3>2, <3>3 DEF IsSeq
  <2> QED BY <2>1, <2>2
<1> HIDE DEF new, hosts
<1>6. /\ IsSeq(clients')
      /\ \A i \in DOMAIN clients' : \/ \E j \in DOMAIN clients : clients'[i] = clients[j]
                                    \/ \E j \in DOMAIN new : clients'[i] = new[j]
  <2>1. clients \in Seq(Range(clients)) /\ new \in Seq(Range(new))
    BY <1>3, <1>4 DEF TypeOK, IsSeq
  <2>2. clients' = clients \o new
    BY <1>1
  <2> QED BY <2>1, <2>2, ConcatHas DEF IsSeq
<1>7. /\ IsSeq(targets')
      /\ \A i \in DOMAIN targets' :
           \/ \E j \in DOMAIN targets : targets'[i] = targets[j]
           \/ \E j \in DOMAIN CommandLineTargets : targets'[i] = CommandLineTargets[j]
  <2>1. /\ targets \in Seq(Range(targets))
        /\ CommandLineTargets \in Seq(Range(CommandLineTargets))
    BY <1>3, <1>5 DEF TypeOK, IsSeq
  <2>2. targets' = targets \o CommandLineTargets
    BY <1>1
  <2> QED BY <2>1, <2>2, ConcatHas DEF IsSeq
<1>8. TypeOK'
  BY <1>1, <1>3, <1>6, <1>7 DEF TypeOK
<1>9. ProgressOK'
  BY <1>1 DEF ProgressOK
<1>10. NamesOK'
  <2> SUFFICES ASSUME step' = "configured" PROVE NamesOK'
    BY <1>1 DEF NamesOK
  <2>1. /\ \A i \in DOMAIN clients : clients[i].hostname # None
        /\ \A i \in DOMAIN targets : targets[i].hostname # None \/ Bare
    BY <1>1, <1>3 DEF NamesOK
  <2>2. Bare' = Bare
    BY <1>1 DEF Bare
  <2>3. \A i \in DOMAIN clients' : clients'[i].hostname # None
    BY <1>4, <1>6, <2>1
  <2>4. \A i \in DOMAIN targets' : targets'[i].hostname # None \/ Bare
    BY <1>5, <1>7, <2>1
  <2> QED BY <2>2, <2>3, <2>4 DEF NamesOK
<1>11. DistinctSectionsAreKept'
  <2> SUFFICES ASSUME doc # None, Distinct PROVE TargetsOfTheirSection'
    BY <1>1 DEF DistinctSectionsAreKept, Distinct, Name
  <2>1. targets = Upto(section - 1) /\ section = Len(doc.target_tests) + 1
    BY <1>1 DEF IndInv, ProgressOK
  <2>2. section - 1 = Len(doc.target_tests)
    <3>1. \A m \in Nat : (m + 1) - 1 = m
      OBVIOUS
    <3>2. Len(doc.target_tests) \in Nat
      BY <1>3, DocumentIs
    <3> QED BY <2>1, <3>1, <3>2
  <2>3. targets = Written
    BY <1>3, <2>1, <2>2, UptoIs
  <2>4. Written' = Written /\ CommandLineTargets' = CommandLineTargets
    BY <1>1 DEF Written, CommandLineTargets, Target, Name, Args
  <2> QED BY <1>1, <2>3, <2>4 DEF TargetsOfTheirSection
<1> QED BY <1>8, <1>9, <1>10, <1>11 DEF IndInv

LEMMA IndStep == IndInv /\ [Next]_vars => IndInv'
<1> SUFFICES ASSUME IndInv, [Next]_vars PROVE IndInv'
  OBVIOUS
<1>1. CASE UNCHANGED vars
  <2>1. /\ step' = step
        /\ UNCHANGED <<OPTIONS, doc, section, clients, targets>>
    BY <1>1 DEF vars
  <2>2. Sections' = Sections /\ Distinct' = Distinct /\ Bare' = Bare /\ Written' = Written
        /\ CommandLineTargets' = CommandLineTargets /\ Upto(section - 1)' = Upto(section - 1)
    BY <2>1 DEF Sections, Distinct, Bare, Written, CommandLineTargets, Upto, Target, Name, Args
  <2>3. TypeOK' /\ NamesOK'
    BY <2>1, <2>2 DEF IndInv, TypeOK, NamesOK
  <2>4. ProgressOK'
    BY <2>1, <2>2 DEF IndInv, ProgressOK
  <2>5. DistinctSectionsAreKept'
    BY <2>1, <2>2 DEF IndInv, DistinctSectionsAreKept, TargetsOfTheirSection, Name
  <2> QED BY <2>3, <2>4, <2>5 DEF IndInv
<1>2. CASE ReadTest
  BY <1>2, ReadTestKeeps
<1>3. CASE ReadClients
  BY <1>3, ReadClientsKeeps
<1>4. CASE ReadTargetTest
  BY <1>4, ReadTargetTestKeeps
<1>5. CASE TargetTestsRead
  BY <1>5, TargetTestsReadKeeps
<1>6. CASE ReadCommandLine
  BY <1>6, ReadCommandLineKeeps
<1>7. CASE Ready
  BY <1>1, <1>7 DEF Ready
<1> QED BY <1>1, <1>2, <1>3, <1>4, <1>5, <1>6, <1>7 DEF Next

LEMMA Invariance == Spec => []IndInv
BY IndInit, IndStep, PTL DEF Spec
-----------------------------------------------------------------------------
\* main() takes the targets of a document as they are written, with the test and
\* the arguments of their own <target_test>, when no two of those have the same
\* name: for any number of sections, targets and clients.
THEOREM ConfigurationKeepsSections == Spec => []DistinctSectionsAreKept
<1>1. IndInv => DistinctSectionsAreKept
  BY DEF IndInv
<1> QED BY <1>1, Invariance, PTL

\* Whatever is given on the command line and in the document, no client and no
\* target is without a hostname when main() goes on to the experiment, unless a
\* <target> has no attribute at all.
THEOREM ConfigurationNamesHosts == Spec => []HostsAreNamed
<1>1. IndInv => HostsAreNamed
  <2> SUFFICES ASSUME NamesOK, step = "configured" PROVE HostsAreNamed
    BY DEF IndInv, HostsAreNamed
  <2>1. /\ \A i \in DOMAIN clients : clients[i].hostname # None
        /\ \A i \in DOMAIN targets : targets[i].hostname # None \/ Bare
    BY DEF NamesOK
  <2> QED BY <2>1 DEF HostsAreNamed, Bare
<1> QED BY <1>1, Invariance, PTL
=============================================================================

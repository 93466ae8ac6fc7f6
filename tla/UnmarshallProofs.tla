-------------------------- MODULE UnmarshallProofs --------------------------
(***************************************************************************)
(* Proofs about Unmarshall: for any clients, data, way of writing numbers  *)
(* and size of a recv().                                                   *)
(***************************************************************************)
EXTENDS Unmarshall, SequenceLemmas, SequenceTheorems

-----------------------------------------------------------------------------
(* The lines of a reply *)

\* Units of data and of numbers are units.
LEMMA DataType ==
  ASSUME NEW d \in Datas
  PROVE  d \in Seq(Units) /\ Len(d) \in 0 .. Len(Numeral) - 1
<1>1. d \in Seq(Range(d)) /\ Len(d) < Len(Numeral)
  BY DatasAssumption
<1>2. Range(d) \subseteq Units
  BY DEF Units
<1>3. d \in Seq(Units)
  BY <1>1, <1>2, SeqMonotonic
<1>4. Len(Numeral) \in Nat
  BY NumeralAssumption
<1> QED BY <1>1, <1>3, <1>4

LEMMA NumeralType ==
  /\ Len(Numeral) \in Nat \ {0} /\ DOMAIN Numeral = 1 .. Len(Numeral)
  /\ \A i \in DOMAIN Numeral : Numeral[i] \in Seq(Digits) /\ Numeral[i] \in Seq(Units)
<1>1. Len(Numeral) \in Nat \ {0} /\ DOMAIN Numeral = 1 .. Len(Numeral)
      /\ \A i \in DOMAIN Numeral : Numeral[i] \in Seq(Digits)
  BY NumeralAssumption
<1>2. Digits \subseteq Units
  BY DEF Units
<1>3. \A i \in DOMAIN Numeral : Numeral[i] \in Seq(Units)
  BY <1>1, <1>2, SeqMonotonic
<1> QED BY <1>1, <1>3

\* The length line, unit by unit.
LEMMA LengthLine ==
  ASSUME NEW n \in 0 .. Len(Numeral) - 1
  PROVE  /\ Length(n) \in Seq(Units)
         /\ Len(Length(n)) = Len(Numeral[n + 1]) + 2
         /\ Len(Numeral[n + 1]) \in Nat
         /\ Length(n)[1] = "Content-length"
         /\ \A i \in 1 .. Len(Numeral[n + 1]) : Length(n)[i + 1] = Numeral[n + 1][i]
         /\ Length(n)[Len(Numeral[n + 1]) + 2] = "newline"
<1> DEFINE digits == Numeral[n + 1]
           keyword == <<"Content-length">>
           end == <<"newline">>
<1>1. digits \in Seq(Units) /\ Len(digits) \in Nat
  BY NumeralType
<1>2. keyword \in Seq(Units) /\ end \in Seq(Units) /\ Len(keyword) = 1 /\ Len(end) = 1
  BY DEF Units
<1>3. Length(n) = (keyword \o digits) \o end
  BY DEF Length
<1>4. /\ keyword \o digits \in Seq(Units)
      /\ Len(keyword \o digits) = 1 + Len(digits)
      /\ \A i \in 1 .. 1 + Len(digits) :
           (keyword \o digits)[i] = IF i <= 1 THEN keyword[i] ELSE digits[i - 1]
  BY <1>1, <1>2, ConcatProperties
<1> HIDE DEF digits, keyword, end
<1>5. /\ Length(n) \in Seq(Units)
      /\ Len(Length(n)) = Len(digits) + 2
      /\ \A i \in 1 .. Len(digits) + 2 :
           Length(n)[i] = IF i <= 1 + Len(digits) THEN (keyword \o digits)[i]
                          ELSE end[i - (1 + Len(digits))]
  BY <1>1, <1>2, <1>3, <1>4, ConcatProperties
<1>6. Length(n)[1] = keyword[1]
  BY <1>1, <1>4, <1>5
<1>7. \A i \in 1 .. Len(digits) : Length(n)[i + 1] = digits[i]
  BY <1>1, <1>4, <1>5
<1>8. Length(n)[Len(digits) + 2] = end[1]
  BY <1>1, <1>4, <1>5
<1> QED BY <1>1, <1>5, <1>6, <1>7, <1>8 DEF digits, keyword, end

\* find() gives a position in the string or none; the slices are strings.
LEMMA SlicesType ==
  ASSUME NEW s \in Seq(Units)
  PROVE  /\ Newline(s) \in 0 .. Len(s)
         /\ Line(s) \in Seq(Units) /\ Len(Line(s)) <= Len(s)
         /\ Rest(s) \in Seq(Units) /\ Len(Rest(s)) <= Len(s)
<1> DEFINE T == {i \in 1 .. Len(s) : s[i] = "newline"}
           last == IF Newline(s) = 0 THEN Len(s) - 1 ELSE Newline(s) - 1
<1>1. Newline(s) = IF T # {} THEN Min(T) ELSE 0
  BY DEF Newline, SelectInSeq
<1>2. Newline(s) \in 0 .. Len(s)
  BY <1>1, MinIsLeast
<1>3. last \in Int /\ last <= Len(s) /\ Len(s) \in Nat
  BY <1>2
<1>4. \A i \in 1 .. Len(s) : s[i] \in Units
  OBVIOUS
<1> HIDE DEF T, last
<1>5. SubSeq(s, 1, last) \in Seq(Units) /\ Len(SubSeq(s, 1, last)) <= Len(s)
  <2>1. \A i \in 1 .. last : s[i] \in Units
    BY <1>3, <1>4
  <2>2. /\ SubSeq(s, 1, last) \in Seq(Units)
        /\ Len(SubSeq(s, 1, last)) = IF 1 <= last THEN last - 1 + 1 ELSE 0
    BY <1>3, <2>1, SubSeqProperties
  <2> QED BY <1>3, <2>2
<1>6. Rest(s) \in Seq(Units) /\ Len(Rest(s)) <= Len(s)
  <2>1. \A i \in Newline(s) + 1 .. Len(s) : s[i] \in Units
    BY <1>2, <1>3, <1>4
  <2>2. /\ Rest(s) \in Seq(Units)
        /\ Len(Rest(s)) = IF Newline(s) + 1 <= Len(s) THEN Len(s) - (Newline(s) + 1) + 1 ELSE 0
    BY <1>2, <1>3, <2>1, SubSeqProperties DEF Rest
  <2> QED BY <1>2, <1>3, <2>2
<1> QED BY <1>2, <1>5, <1>6 DEF Line, last

\* Where the first newline is.
LEMMA NewlineAt ==
  ASSUME NEW s \in Seq(Units), NEW k \in 1 .. Len(s), s[k] = "newline",
         \A i \in 1 .. k - 1 : s[i] # "newline"
  PROVE  Newline(s) = k
<1> DEFINE T == {i \in 1 .. Len(s) : s[i] = "newline"}
<1>1. Newline(s) = IF T # {} THEN Min(T) ELSE 0
  BY DEF Newline, SelectInSeq
<1>2. k \in T /\ \A i \in T : k <= i
  OBVIOUS
<1>3. T \in SUBSET Nat
  OBVIOUS
<1> HIDE DEF T
<1>4. Min(T) \in T /\ Min(T) <= k
  BY <1>2, <1>3, MinIsLeast
<1>5. ASSUME NEW x \in T, x <= k PROVE x = k
  BY <1>2, <1>3, <1>5
<1>6. Min(T) = k
  BY <1>4, <1>5
<1> QED BY <1>1, <1>2, <1>6

\* The expression matches no number, or one that has a numeral.
LEMMA MatchType ==
  ASSUME NEW line
  PROVE  Match(line) = None \/ Match(line) \in 0 .. Len(Numeral) - 1
<1>1. ASSUME NEW number \in Range(Numeral)
      PROVE  (CHOOSE n \in DOMAIN Numeral : Numeral[n] = number) - 1 \in 0 .. Len(Numeral) - 1
  <2>1. \E n \in DOMAIN Numeral : Numeral[n] = number
    BY DEF Range
  <2>2. (CHOOSE n \in DOMAIN Numeral : Numeral[n] = number) \in 1 .. Len(Numeral)
    BY <2>1, NumeralType
  <2> QED BY <2>2, NumeralType
<1> DEFINE Found(number) ==
      IF line # << >> /\ line[1] = "Content-length" /\ number \in Range(Numeral)
      THEN (CHOOSE n \in DOMAIN Numeral : Numeral[n] = number) - 1 ELSE None
<1>2. \A number : Found(number) = None \/ Found(number) \in 0 .. Len(Numeral) - 1
  BY <1>1
<1> DEFINE rest == SubSeq(line, 2, Len(line))
           T == {i \in 1 .. Len(rest) : rest[i] \notin Digits}
           digits == IF T # {} THEN Min(T) ELSE 0
           last == IF digits = 0 THEN Len(line) ELSE digits
<1>3. Match(line) = Found(SubSeq(line, 2, last))
  BY DEF Match, SelectInSeq
<1> HIDE DEF Found
<1> QED BY <1>2, <1>3

\* It matches the number that the line was made from.
LEMMA MatchLength ==
  ASSUME NEW n \in 0 .. Len(Numeral) - 1, NEW line \in Seq(Units),
         Len(line) = Len(Numeral[n + 1]) + 1,
         line[1] = "Content-length",
         \A i \in 1 .. Len(Numeral[n + 1]) : line[i + 1] = Numeral[n + 1][i]
  PROVE  Match(line) = n
<1> DEFINE numeral == Numeral[n + 1]
           rest == SubSeq(line, 2, Len(line))
           T == {i \in 1 .. Len(rest) : rest[i] \notin Digits}
<1>1. n + 1 \in DOMAIN Numeral /\ numeral \in Seq(Digits) /\ numeral \in Seq(Units)
      /\ Len(numeral) \in Nat
  BY NumeralType
<1>2. rest = numeral
  <2>1. \A i \in 2 .. Len(line) : line[i] \in Units
    OBVIOUS
  <2>2. Len(line) \in Int /\ 2 \in Int
    BY <1>1
  <2>3. /\ rest \in Seq(Units)
        /\ Len(rest) = IF 2 <= Len(line) THEN Len(line) - 2 + 1 ELSE 0
        /\ \A i \in 1 .. Len(line) - 2 + 1 : rest[i] = line[2 + i - 1]
    BY <2>1, <2>2, SubSeqProperties
  <2> HIDE DEF rest
  <2>4. Len(rest) = Len(numeral)
    BY <1>1, <2>3
  <2>5. \A i \in 1 .. Len(rest) : rest[i] = numeral[i]
    BY <1>1, <2>3, <2>4
  <2> HIDE DEF numeral
  <2> QED BY <1>1, <2>3, <2>4, <2>5, SeqEqual
<1> HIDE DEF rest
<1>3. \A i \in 1 .. Len(rest) : rest[i] \in Digits
  BY <1>1, <1>2, ElementOfSeq
<1>4. T = {}
  BY <1>3
<1>5. (CHOOSE i \in DOMAIN Numeral : Numeral[i] = numeral) = n + 1
  BY <1>1, NumeralAssumption DEF IsInjective
<1>6. numeral \in Range(Numeral)
  BY <1>1 DEF Range
<1>7. line # << >>
  BY <1>1, EmptySeq
<1> HIDE DEF T, numeral
<1>8. Match(line) = (CHOOSE i \in DOMAIN Numeral : Numeral[i] = numeral) - 1
  BY <1>2, <1>4, <1>6, <1>7 DEF Match, rest, T, SelectInSeq
<1>9. (n + 1) - 1 = n
  BY NumeralType
<1> QED BY <1>5, <1>8, <1>9

\* What recv() returns: nothing at the end, else some of the next units of the stream.
LEMMA PieceIs ==
  ASSUME TypeOK, NEW m \in Machines, NEW size \in Nat, NEW data \in Pieces(m, size)
  PROVE  /\ data \in Seq(Units) /\ Len(data) \in 0 .. size
         /\ taken[m] + Len(data) <= Len(stream[m])
         /\ \A i \in 1 .. Len(data) : data[i] = stream[m][taken[m] + i]
         /\ \/ Len(data) = 0 /\ AtEof(m)
            \/ Len(data) > 0
<1> DEFINE s == stream[m]
           from == taken[m]
<1>1. s \in Seq(Units) /\ from \in Nat /\ from <= Len(s) /\ Len(s) \in Nat
  BY DEF TypeOK
<1>2. CASE AtEof(m)
  <2>1. data = << >>
    BY <1>2 DEF Pieces
  <2>2. data \in Seq(Units) /\ Len(data) = 0
    BY <2>1, EmptySeq
  <2> QED BY <1>1, <1>2, <2>2
<1>3. CASE ~AtEof(m)
  <2>1. PICK n \in from + 1 .. Len(s) :
          n <= from + size /\ data = SubSeq(s, from + 1, n)
    BY <1>3 DEF Pieces
  <2> HIDE DEF s, from
  <2>2. n \in Int /\ from + 1 \in Int /\ from + 1 <= n /\ n <= Len(s)
    BY <1>1, <2>1
  <2>3. \A i \in from + 1 .. n : s[i] \in Units
    BY <1>1, <2>2, ElementOfSeq
  <2>4. /\ data \in Seq(Units)
        /\ Len(data) = IF from + 1 <= n THEN n - (from + 1) + 1 ELSE 0
        /\ \A i \in 1 .. n - (from + 1) + 1 : data[i] = s[(from + 1) + i - 1]
    BY <2>1, <2>2, <2>3, SubSeqProperties
  <2>5. Len(data) = n - from /\ from + Len(data) = n
    BY <1>1, <2>2, <2>4
  <2>6. \A i \in 1 .. Len(data) : data[i] = s[from + i]
    <3> TAKE i \in 1 .. Len(data)
    <3>1. i \in 1 .. n - (from + 1) + 1 /\ (from + 1) + i - 1 = from + i
      BY <1>1, <2>2, <2>5
    <3> QED BY <2>4, <3>1
  <2>7. Len(data) \in 0 .. size /\ Len(data) > 0
    BY <1>1, <2>1, <2>2, <2>5
  <2> QED BY <1>1, <2>1, <2>2, <2>4, <2>5, <2>6, <2>7 DEF s, from
<1> QED BY <1>2, <1>3
-----------------------------------------------------------------------------
(* Types *)

Reading == {"status", "length", "data"}

\* While a reply is read there is a machine; what came with the status line fits
\* into one recv(); a machine that has written has a reply.
TypeInv ==
  /\ TypeOK
  /\ step \in Reading => machine \in Machines
  /\ step = "length" => Len(buffer) <= Chunk
  /\ \A m \in Machines : writes[m] > 0 => reply[m] \in Reply

LEMMA TypeInit == Init => TypeInv
<1> SUFFICES ASSUME Init PROVE TypeInv
  OBVIOUS
<1>1. 0 \in 0 .. Len(Numeral) - 1 /\ 0 <= 2 * Chunk + Len(Numeral)
  BY NumeralType, ConstantsAssumption
<1>2. << >> \in Seq(Units) /\ Len(<< >>) = 0
  BY EmptySeq
<1>3. /\ reply \in [Machines -> Reply \cup {None}]
      /\ writes \in [Machines -> 0 .. 3] /\ killed \subseteq Machines
      /\ stream \in [Machines -> Seq(Units)] /\ taken \in [Machines -> Nat]
      /\ \A m \in Machines : taken[m] <= Len(stream[m]) /\ ~(writes[m] > 0)
      /\ split \subseteq Machines
  BY <1>2 DEF Init
<1>4. /\ step \in {"select", "status", "length", "data"} \cup Ended
      /\ step \notin Reading
      /\ machine \in Machines \cup {None} /\ waiting \subseteq Machines
  BY DEF Init, Machines, Reading
<1>5. /\ valid \in BOOLEAN /\ content_length \in 0 .. Len(Numeral) - 1
      /\ buffer \in Seq(Units) /\ Len(buffer) <= 2 * Chunk + Len(Numeral)
  BY <1>1, <1>2 DEF Init
<1>6. /\ client_data \in [Clients -> Result \cup {None}]
      /\ target_data \in Result \cup {None}
      /\ shown \in [Machines -> Result \cup {None}]
  BY DEF Init
<1> QED BY <1>3, <1>4, <1>5, <1>6 DEF TypeInv, TypeOK, Reading

StreamType ==
  /\ stream \in [Machines -> Seq(Units)]
  /\ taken \in [Machines -> Nat] /\ \A m \in Machines : taken[m] <= Len(stream[m])
  /\ split \subseteq Machines

LEMMA SendsType ==
  ASSUME TypeOK, NEW m \in Machines, NEW units \in Seq(Units), Sends(m, units)
  PROVE  StreamType'
<1>1. stream[m] \in Seq(Units)
  BY DEF TypeOK
<1>2. stream[m] \o units \in Seq(Units) /\ Len(stream[m] \o units) = Len(stream[m]) + Len(units)
  BY <1>1, ConcatProperties
<1>3. Len(stream[m]) \in Nat /\ Len(units) \in Nat
  BY <1>1
<1>4. stream' = [stream EXCEPT ![m] = stream[m] \o units] /\ taken' = taken /\ split' = split
  BY DEF Sends
<1>5. stream' \in [Machines -> Seq(Units)]
  BY <1>2, <1>4 DEF TypeOK
<1>6. ASSUME NEW k \in Machines PROVE taken'[k] <= Len(stream'[k])
  <2>1. stream'[k] = IF k = m THEN stream[m] \o units ELSE stream[k]
    BY <1>4 DEF TypeOK
  <2>2. taken[k] <= Len(stream[k]) /\ taken[k] \in Nat /\ Len(stream[k]) \in Nat
    BY DEF TypeOK
  <2> QED BY <1>2, <1>3, <1>4, <2>1, <2>2
<1> QED BY <1>4, <1>5, <1>6 DEF StreamType, TypeOK

LEMMA TakesType ==
  ASSUME TypeOK, NEW m \in Machines, NEW data \in Seq(Units),
         taken[m] + Len(data) <= Len(stream[m]), Takes(m, data)
  PROVE  StreamType'
<1>1. taken[m] \in Nat /\ Len(data) \in Nat
  BY DEF TypeOK
<1>2. taken' = [taken EXCEPT ![m] = taken[m] + Len(data)] /\ stream' = stream
      /\ split' \subseteq split \cup {m}
  BY DEF Takes
<1>3. taken' \in [Machines -> Nat] /\ split' \subseteq Machines
  BY <1>1, <1>2 DEF TypeOK
<1>4. ASSUME NEW k \in Machines PROVE taken'[k] <= Len(stream'[k])
  BY <1>2 DEF TypeOK
<1> QED BY <1>2, <1>3, <1>4 DEF StreamType, TypeOK

\* Lines are strings of units.
LEMMA StatusType ==
  ASSUME NEW code \in Codes
  PROVE  Status(code) \in Seq(Units) /\ Len(Status(code)) = 2
         /\ Status(code)[1] = code /\ Status(code)[2] = "newline"
BY DEF Status, Units, Codes

LEMMA TypeDaemon ==
  ASSUME TypeInv, NEW m \in Machines, Marshall(m) \/ Write(m) \/ Killed(m)
  PROVE  TypeInv'
<1>1. UNCHANGED <<step, machine, waiting, locals, tables, shown>>
  BY DEF Marshall, Write, Killed
<1>2. \A r \in Reply : r.code \in Codes /\ r.data \in Datas
  BY DEF Reply
<1>3. SUFFICES /\ StreamType'
               /\ reply' \in [Machines -> Reply \cup {None}]
               /\ writes' \in [Machines -> 0 .. 3] /\ killed' \subseteq Machines
               /\ \A k \in Machines : writes'[k] > 0 => reply'[k] \in Reply
  BY <1>1 DEF TypeInv, TypeOK, StreamType, locals, tables
<1>4. CASE Marshall(m)
  <2>1. PICK r \in Reply :
          /\ reply' = [reply EXCEPT ![m] = r]
          /\ Sends(m, Status(r.code))
          /\ writes' = [writes EXCEPT ![m] = IF r.code = "451" THEN 3 ELSE 1]
    BY <1>4 DEF Marshall
  <2>2. StreamType'
    BY <1>2, <2>1, StatusType, SendsType DEF TypeInv
  <2>3. killed' = killed
    BY <1>4 DEF Marshall
  <2> QED BY <2>1, <2>2, <2>3 DEF TypeInv, TypeOK
<1>5. CASE Write(m)
  <2>1. reply' = reply /\ killed' = killed /\ writes' = [writes EXCEPT ![m] = writes[m] + 1]
        /\ writes[m] > 0 /\ writes[m] < 3
    BY <1>5 DEF Write, Running
  <2>2. reply[m] \in Reply
    BY <2>1 DEF TypeInv
  <2>3. reply[m].data \in Seq(Units) /\ Len(reply[m].data) \in 0 .. Len(Numeral) - 1
    BY <1>2, <2>2, DataType
  <2>4. Length(Len(reply[m].data)) \in Seq(Units)
    BY <2>3, LengthLine
  <2>5. StreamType'
    BY <1>5, <2>3, <2>4, SendsType DEF Write, TypeInv
  <2>6. writes[m] + 1 \in 0 .. 3
    <3>1. writes[m] \in 0 .. 3
      BY DEF TypeInv, TypeOK
    <3> QED BY <2>1, <3>1
  <2>7. writes' \in [Machines -> 0 .. 3]
    BY <2>1, <2>6 DEF TypeInv, TypeOK
  <2>8. \A k \in Machines : writes'[k] > 0 => reply'[k] \in Reply
    BY <2>1, <2>2 DEF TypeInv, TypeOK
  <2> QED BY <2>1, <2>5, <2>7, <2>8 DEF TypeInv, TypeOK
<1>6. CASE Killed(m)
  <2>1. reply' = reply /\ writes' = writes /\ killed' = killed \cup {m}
    BY <1>6 DEF Killed
  <2>2. StreamType'
    <3>1. CASE Sends(m, << >>)
      BY <3>1, SendsType, EmptySeq DEF TypeInv
    <3>2. CASE writes[m] = 2 /\ \E n \in 1 .. Len(reply[m].data) :
                                  Sends(m, SubSeq(reply[m].data, 1, n))
      <4>1. PICK n \in 1 .. Len(reply[m].data) : Sends(m, SubSeq(reply[m].data, 1, n))
        BY <3>2
      <4>2. reply[m].data \in Seq(Units)
        BY <1>2, <3>2, DataType DEF TypeInv
      <4>3. SubSeq(reply[m].data, 1, n) \in Seq(Units)
        BY <4>2, SubSeqProperties
      <4> QED BY <4>1, <4>3, SendsType DEF TypeInv
    <3> QED BY <1>6, <3>1, <3>2 DEF Killed
  <2> QED BY <2>1, <2>2 DEF TypeInv, TypeOK
<1> QED BY <1>4, <1>5, <1>6

LEMMA TypeReceive ==
  ASSUME TypeInv, ReceiveStatus \/ ReceiveLength \/ ReceiveData
  PROVE  TypeInv'
<1> USE ConstantsAssumption, NumeralType
<1>1. UNCHANGED <<reply, writes, killed, machine, waiting, tables, shown>>
  BY DEF ReceiveStatus, ReceiveLength, ReceiveData
<1>2. machine \in Machines
  BY DEF TypeInv, Reading, ReceiveStatus, ReceiveLength, ReceiveData
<1>3. buffer \in Seq(Units) /\ Len(buffer) \in Nat /\ content_length \in 0 .. Len(Numeral) - 1
  BY DEF TypeInv, TypeOK
<1>4. SUFFICES /\ StreamType'
               /\ step' \in {"select", "status", "length", "data"} \cup Ended
               /\ valid' \in BOOLEAN /\ content_length' \in 0 .. Len(Numeral) - 1
               /\ buffer' \in Seq(Units) /\ Len(buffer') <= 2 * Chunk + Len(Numeral)
               /\ step' = "length" => Len(buffer') <= Chunk
  BY <1>1, <1>2 DEF TypeInv, TypeOK, StreamType, tables
<1>5. CASE ReceiveStatus
  <2>1. PICK data \in Pieces(machine, Chunk) :
          /\ Takes(machine, data)
          /\ \/ step' \in Ended /\ UNCHANGED <<valid, buffer>>
             \/ step' = "length" /\ valid' \in BOOLEAN /\ buffer' = Rest(data)
    BY <1>5 DEF ReceiveStatus, Ended
  <2>2. data \in Seq(Units) /\ Len(data) \in 0 .. Chunk
        /\ taken[machine] + Len(data) <= Len(stream[machine])
    BY <1>2, PieceIs DEF TypeInv
  <2>3. StreamType'
    BY <1>2, <2>1, <2>2, TakesType DEF TypeInv
  <2>4. Rest(data) \in Seq(Units) /\ Len(Rest(data)) <= Len(data) /\ Len(Rest(data)) \in Nat
    BY <2>2, SlicesType
  <2>5. Len(Rest(data)) <= Chunk /\ Len(Rest(data)) <= 2 * Chunk + Len(Numeral)
    BY <2>2, <2>4
  <2>6. content_length' = content_length
    BY <1>5 DEF ReceiveStatus
  <2>7. CASE step' \in Ended /\ UNCHANGED <<valid, buffer>>
    BY <2>3, <2>6, <2>7 DEF TypeInv, TypeOK, Ended
  <2>8. CASE step' = "length" /\ valid' \in BOOLEAN /\ buffer' = Rest(data)
    BY <1>3, <2>3, <2>4, <2>5, <2>6, <2>8
  <2> QED BY <2>1, <2>7, <2>8
<1>6. CASE ReceiveLength
  <2> DEFINE initial(data) == buffer \o data
  <2>1. PICK data \in Pieces(machine, Chunk) :
          /\ Takes(machine, data)
          /\ \/ step' = "crashed" /\ UNCHANGED <<buffer, content_length>>
             \/ /\ step' = "data" /\ buffer' = Rest(initial(data))
                /\ content_length' = Match(Line(initial(data)))
                /\ Match(Line(initial(data))) # None
    BY <1>6 DEF ReceiveLength
  <2>2. data \in Seq(Units) /\ Len(data) \in 0 .. Chunk
        /\ taken[machine] + Len(data) <= Len(stream[machine])
    BY <1>2, PieceIs DEF TypeInv
  <2>3. StreamType'
    BY <1>2, <2>1, <2>2, TakesType DEF TypeInv
  <2>4. initial(data) \in Seq(Units) /\ Len(initial(data)) = Len(buffer) + Len(data)
    BY <1>3, <2>2, ConcatProperties
  <2> HIDE DEF initial
  <2>5. /\ Rest(initial(data)) \in Seq(Units)
        /\ Len(Rest(initial(data))) <= Len(initial(data))
        /\ Len(Rest(initial(data))) \in Nat
    BY <2>4, SlicesType
  <2>6. Len(buffer) <= Chunk
    BY <1>6 DEF ReceiveLength, TypeInv
  <2>7. Len(Rest(initial(data))) <= 2 * Chunk + Len(Numeral)
    BY <1>3, <2>2, <2>4, <2>5, <2>6
  <2>8. valid' = valid
    BY <1>6 DEF ReceiveLength
  <2>9. CASE step' = "crashed" /\ UNCHANGED <<buffer, content_length>>
    BY <2>3, <2>8, <2>9 DEF TypeInv, TypeOK, Ended
  <2>10. CASE /\ step' = "data" /\ buffer' = Rest(initial(data))
              /\ content_length' = Match(Line(initial(data)))
              /\ Match(Line(initial(data))) # None
    <3>1. content_length' \in 0 .. Len(Numeral) - 1
      BY <2>10, MatchType
    <3>2. valid' \in BOOLEAN
      BY <2>8 DEF TypeInv, TypeOK
    <3> QED BY <2>3, <2>5, <2>7, <2>10, <3>1, <3>2
  <2> QED BY <2>1, <2>9, <2>10
<1>7. CASE ReceiveData
  <2>1. valid' = valid /\ content_length' = content_length /\ valid \in BOOLEAN
    BY <1>7 DEF ReceiveData, TypeInv, TypeOK
  <2>2. CASE step' = "crashed" /\ UNCHANGED <<buffer, stream, taken, split>>
    BY <2>1, <2>2 DEF TypeInv, TypeOK, StreamType, Ended
  <2>3. CASE ~(Len(buffer) > content_length)
    <3>1. step' = "data" /\ Len(buffer) # content_length
          /\ \E data \in Pieces(machine, Missing) :
               Takes(machine, data) /\ buffer' = buffer \o data
      BY <1>7, <2>3 DEF ReceiveData
    <3>2. Missing \in Nat /\ Missing = content_length - Len(buffer)
      BY <1>3, <2>3 DEF Missing
    <3>3. PICK data \in Pieces(machine, Missing) :
            Takes(machine, data) /\ buffer' = buffer \o data
      BY <3>1
    <3>4. data \in Seq(Units) /\ Len(data) \in 0 .. Missing
          /\ taken[machine] + Len(data) <= Len(stream[machine])
      BY <1>2, <3>2, PieceIs DEF TypeInv
    <3>5. StreamType'
      BY <1>2, <3>3, <3>4, TakesType DEF TypeInv
    <3>6. buffer \o data \in Seq(Units) /\ Len(buffer \o data) = Len(buffer) + Len(data)
      BY <1>3, <3>4, ConcatProperties
    <3>7. Len(buffer') <= 2 * Chunk + Len(Numeral)
      BY <1>3, <3>2, <3>3, <3>4, <3>6
    <3> QED BY <1>3, <2>1, <3>1, <3>3, <3>5, <3>6, <3>7
  <2> QED BY <1>7, <2>2, <2>3 DEF ReceiveData
<1> QED BY <1>5, <1>6, <1>7

\* The loops of main(): another client, the target after this one, or the output.
LEMMA NextMachineIs ==
  ASSUME machine \in Machines, NextMachine
  PROVE  \/ waiting # {} /\ step' = "select" /\ waiting' = waiting
         \/ /\ waiting = {} /\ step' = "select"
            /\ \E k \in DOMAIN Targets :
                 /\ waiting' = {Targets[k]}
                 /\ machine \in Clients => k = 1
                 /\ \A i \in DOMAIN Targets : machine = Targets[i] => k = i + 1
         \/ /\ waiting = {} /\ step' = "output" /\ waiting' = waiting
            /\ machine \in Clients => Len(Targets) = 0
            /\ \A i \in DOMAIN Targets : machine = Targets[i] => i = Len(Targets)
<1> DEFINE next == IF machine \in Clients THEN 1
                   ELSE 1 + CHOOSE i \in DOMAIN Targets : Targets[i] = machine
<1>1. Len(Targets) \in Nat /\ DOMAIN Targets = 1 .. Len(Targets)
  BY TargetsAssumption
<1>2. \A i \in DOMAIN Targets : machine = Targets[i] => machine \notin Clients /\ next = 1 + i
  <2> TAKE i \in DOMAIN Targets
  <2> HAVE machine = Targets[i]
  <2>1. machine \notin Clients
    BY TargetsAssumption DEF Range
  <2>2. (CHOOSE j \in DOMAIN Targets : Targets[j] = machine) = i
    BY TargetsAssumption DEF IsInjective
  <2> QED BY <2>1, <2>2
<1>3. machine \in Clients => next = 1
  OBVIOUS
<1>4. machine \in Clients \/ \E i \in DOMAIN Targets : machine = Targets[i]
  BY DEF Machines, Range
<1>5. next \in 1 .. Len(Targets) + 1
  BY <1>1, <1>2, <1>3, <1>4
<1>6. \/ waiting # {} /\ step' = "select" /\ waiting' = waiting
      \/ waiting = {} /\ next <= Len(Targets) /\ step' = "select" /\ waiting' = {Targets[next]}
      \/ waiting = {} /\ ~(next <= Len(Targets)) /\ step' = "output" /\ waiting' = waiting
  BY DEF NextMachine
<1> HIDE DEF next
<1>7. ASSUME waiting = {}, next <= Len(Targets), step' = "select", waiting' = {Targets[next]}
      PROVE  \E k \in DOMAIN Targets :
               /\ waiting' = {Targets[k]}
               /\ machine \in Clients => k = 1
               /\ \A i \in DOMAIN Targets : machine = Targets[i] => k = i + 1
  <2>1. next \in DOMAIN Targets
    BY <1>1, <1>5, <1>7
  <2>2. \A i \in DOMAIN Targets : machine = Targets[i] => next = i + 1
    BY <1>1, <1>2
  <2> QED BY <1>3, <1>7, <2>1, <2>2
<1>8. ASSUME waiting = {}, ~(next <= Len(Targets))
      PROVE  /\ machine \in Clients => Len(Targets) = 0
             /\ \A i \in DOMAIN Targets : machine = Targets[i] => i = Len(Targets)
  BY <1>1, <1>2, <1>3, <1>5, <1>8
<1> QED BY <1>6, <1>7, <1>8

LEMMA TypeControl ==
  ASSUME TypeInv, (\E m \in Machines : Unmarshalls(m)) \/ Store \/ Output \/ PluginFails
  PROVE  TypeInv'
<1>1. CASE \E m \in Machines : Unmarshalls(m)
  <2>1. PICK m \in Machines : Unmarshalls(m)
    BY <1>1
  <2>2. machine' \in Machines /\ waiting' \subseteq Machines /\ step' = "status"
        /\ UNCHANGED <<daemon, locals, tables, shown>>
    BY <2>1 DEF Unmarshalls, TypeInv, TypeOK
  <2> QED BY <2>2 DEF TypeInv, TypeOK, daemon, locals, tables, Ended
<1>2. CASE Store
  <2> DEFINE result == [data |-> buffer, valid |-> valid]
  <2>1. result \in Result
    BY DEF Result, TypeInv, TypeOK
  <2>2. machine \in Machines /\ NextMachine /\ UNCHANGED <<daemon, machine, locals, shown>>
    BY <1>2 DEF Store, TypeInv, Reading
  <2>3. step' \in {"select", "output"} /\ waiting' \subseteq Machines
    BY <2>2, NextMachineIs DEF Machines, Range, TypeInv, TypeOK
  <2>4. client_data' \in [Clients -> Result \cup {None}] /\ target_data' \in Result \cup {None}
    BY <1>2, <2>1 DEF Store, TypeInv, TypeOK
  <2> QED BY <2>2, <2>3, <2>4 DEF TypeInv, TypeOK, daemon, locals, Ended, Reading
<1>3. CASE Output
  <2>1. shown' \in [Machines -> Result \cup {None}]
    BY <1>3 DEF Output, TypeInv, TypeOK
  <2>2. UNCHANGED <<daemon, step, machine, waiting, locals, tables>>
    BY <1>3 DEF Output
  <2> QED BY <2>1, <2>2 DEF TypeInv, TypeOK, daemon, locals, tables
<1>4. CASE PluginFails
  BY <1>4 DEF PluginFails, TypeInv, TypeOK, daemon, locals, tables, Ended, Reading
<1> QED BY <1>1, <1>2, <1>3, <1>4

LEMMA TypeStep == TypeInv /\ [Next]_vars => TypeInv'
<1> SUFFICES ASSUME TypeInv, [Next]_vars PROVE TypeInv'
  OBVIOUS
<1>1. CASE UNCHANGED vars
  BY <1>1 DEF vars, daemon, locals, tables, TypeInv, TypeOK
<1> QED BY <1>1, TypeDaemon, TypeReceive, TypeControl DEF Next, Controller

\* The variables of marshall(), unmarshall() and the tables hold what they are
\* meant to, wherever recv() cuts a reply, and the buffer stays within two recv()
\* and the longest data.
THEOREM UnmarshallTypeCorrect == Spec => []TypeOK
<1>1. TypeInv => TypeOK
  BY DEF TypeInv
<1> QED BY <1>1, TypeInit, TypeStep, PTL DEF Spec
-----------------------------------------------------------------------------
(* What a reply looks like *)

\* All of it, if it is not an error.
Full(m) == Header(m) \o reply[m].data

LEMMA ReplyType ==
  ASSUME NEW m, reply[m] \in Reply
  PROVE  /\ reply[m].code \in Codes /\ reply[m].data \in Datas
         /\ reply[m].data \in Seq(Units)
         /\ Len(reply[m].data) \in 0 .. Len(Numeral) - 1 /\ Len(reply[m].data) \in Nat
<1>1. reply[m].code \in Codes /\ reply[m].data \in Datas
  BY DEF Reply
<1>2. reply[m].data \in Seq(Units) /\ Len(reply[m].data) \in 0 .. Len(Numeral) - 1
  BY <1>1, DataType
<1> QED BY <1>1, <1>2

\* The status line and the length line, unit by unit.
LengthNumeral(m) == Numeral[Len(reply[m].data) + 1]

LEMMA HeaderIs ==
  ASSUME NEW m, reply[m] \in Reply
  PROVE  /\ Header(m) \in Seq(Units) /\ Len(LengthNumeral(m)) \in Nat
         /\ Len(Header(m)) = Len(LengthNumeral(m)) + 4
         /\ Header(m)[1] = reply[m].code /\ Header(m)[2] = "newline"
         /\ Header(m)[3] = "Content-length"
         /\ \A i \in 1 .. Len(LengthNumeral(m)) : Header(m)[i + 3] = LengthNumeral(m)[i]
         /\ Header(m)[Len(LengthNumeral(m)) + 4] = "newline"
<1> DEFINE numeral == LengthNumeral(m)
           status == Status(reply[m].code)
           length == Length(Len(reply[m].data))
<1>1. status \in Seq(Units) /\ Len(status) = 2
      /\ status[1] = reply[m].code /\ status[2] = "newline"
  BY ReplyType, StatusType
<1>2. /\ length \in Seq(Units) /\ Len(length) = Len(numeral) + 2 /\ Len(numeral) \in Nat
      /\ length[1] = "Content-length"
      /\ \A i \in 1 .. Len(numeral) : length[i + 1] = numeral[i]
      /\ length[Len(numeral) + 2] = "newline"
  BY ReplyType, LengthLine DEF LengthNumeral
<1>3. Header(m) = status \o length
  BY DEF Header
<1> HIDE DEF status, length, numeral
<1>a. status \in Seq(Units) /\ length \in Seq(Units)
  BY <1>1, <1>2
<1>b. Len(status) = 2 /\ Len(length) = Len(numeral) + 2 /\ Len(numeral) \in Nat
  BY <1>1, <1>2
<1>4. /\ Header(m) \in Seq(Units) /\ Len(Header(m)) = Len(numeral) + 4
      /\ \A i \in 1 .. Len(numeral) + 4 :
           Header(m)[i] = IF i <= 2 THEN status[i] ELSE length[i - 2]
  <2>1. /\ status \o length \in Seq(Units)
        /\ Len(status \o length) = Len(status) + Len(length)
        /\ \A i \in 1 .. Len(status) + Len(length) :
             (status \o length)[i] = IF i <= Len(status) THEN status[i]
                                     ELSE length[i - Len(status)]
    BY <1>a, ConcatProperties
  <2>2. Len(status) = 2 /\ Len(status) + Len(length) = Len(numeral) + 4
    BY <1>b
  <2> QED BY <1>3, <2>1, <2>2
<1>5. Header(m)[1] = status[1] /\ Header(m)[2] = status[2] /\ Header(m)[3] = length[1]
      /\ Header(m)[Len(numeral) + 4] = length[Len(numeral) + 2]
  <2>1. 1 \in 1 .. Len(numeral) + 4 /\ 2 \in 1 .. Len(numeral) + 4
        /\ 3 \in 1 .. Len(numeral) + 4 /\ Len(numeral) + 4 \in 1 .. Len(numeral) + 4
        /\ (Len(numeral) + 4) - 2 = Len(numeral) + 2 /\ ~(Len(numeral) + 4 <= 2)
    BY <1>b
  <2>2. Header(m)[1] = status[1] /\ Header(m)[2] = status[2]
    BY <1>4, <2>1
  <2>3. Header(m)[3] = length[1]
    BY <1>4, <2>1
  <2>4. Header(m)[Len(numeral) + 4] = length[Len(numeral) + 2]
    BY <1>4, <2>1
  <2> QED BY <2>2, <2>3, <2>4
<1>6. ASSUME NEW i \in 1 .. Len(numeral) PROVE Header(m)[i + 3] = numeral[i]
  <2>1. Header(m)[i + 3] = length[i + 1]
    BY <1>2, <1>4
  <2> QED BY <1>2, <2>1
<1> QED BY <1>1, <1>2, <1>4, <1>5, <1>6 DEF numeral

LEMMA FullIs ==
  ASSUME NEW m, reply[m] \in Reply
  PROVE  /\ Full(m) \in Seq(Units) /\ Len(Header(m)) \in Nat /\ Len(Header(m)) >= 4
         /\ Len(Full(m)) = Len(Header(m)) + Len(reply[m].data)
         /\ \A i \in 1 .. Len(Header(m)) : Full(m)[i] = Header(m)[i]
         /\ \A i \in 1 .. Len(reply[m].data) : Full(m)[Len(Header(m)) + i] = reply[m].data[i]
         /\ \A i \in 1 .. 2 : Status(reply[m].code)[i] = Full(m)[i]
<1> DEFINE header == Header(m)
           data == reply[m].data
<1>1. header \in Seq(Units) /\ Len(header) \in Nat /\ Len(header) >= 4
      /\ header[1] = reply[m].code /\ header[2] = "newline"
  BY HeaderIs
<1>2. data \in Seq(Units) /\ Len(data) \in Nat /\ reply[m].code \in Codes
  BY ReplyType
<1> HIDE DEF header, data
<1>3. /\ header \o data \in Seq(Units) /\ Len(header \o data) = Len(header) + Len(data)
      /\ \A i \in 1 .. Len(header) + Len(data) :
           (header \o data)[i] = IF i <= Len(header) THEN header[i] ELSE data[i - Len(header)]
  BY <1>1, <1>2, ConcatProperties
<1>4. \A i \in 1 .. Len(header) : (header \o data)[i] = header[i]
  BY <1>1, <1>2, <1>3
<1>5. \A i \in 1 .. Len(data) : (header \o data)[Len(header) + i] = data[i]
  BY <1>1, <1>2, <1>3
<1>6. \A i \in 1 .. 2 : Status(reply[m].code)[i] = (header \o data)[i]
  BY <1>1, <1>2, <1>4, StatusType
<1> QED BY <1>1, <1>3, <1>4, <1>5, <1>6 DEF Full, header, data

\* How much of its reply a machine has sent after so many writes.
StreamOK(m) ==
  \/ writes[m] = 0 /\ stream[m] = << >>
  \/ /\ writes[m] > 0 /\ reply[m] \in Reply
     /\ \/ writes[m] = 1 /\ reply[m].code # "451" /\ stream[m] = Status(reply[m].code)
        \/ writes[m] = 3 /\ reply[m].code = "451" /\ stream[m] = Status(reply[m].code)
        \/ writes[m] = 2 /\ reply[m].code # "451" /\ stream[m] = Header(m)
        \/ /\ writes[m] = 2 /\ reply[m].code # "451" /\ m \in killed
           /\ \E n \in 1 .. Len(reply[m].data) :
                stream[m] = Header(m) \o SubSeq(reply[m].data, 1, n)
        \/ writes[m] = 3 /\ reply[m].code # "451" /\ stream[m] = Full(m)

\* What was sent is not disturbed by those who only read.
LEMMA StreamKept ==
  ASSUME NEW m, StreamOK(m), UNCHANGED <<reply, writes, killed, stream>>
  PROVE  StreamOK(m)'
<1>1. reply' = reply /\ writes' = writes /\ killed' = killed /\ stream' = stream
  OBVIOUS
<1>2. Header(m)' = Header(m) /\ Full(m)' = Full(m)
  BY <1>1 DEF Header, Full
<1> QED BY <1>1, <1>2 DEF StreamOK

\* A stream begins with the units of a complete reply; it stops behind the status
\* line or is past the length line, and an error stops behind the status line.
LEMMA StreamIs ==
  ASSUME NEW m \in Machines, StreamOK(m), writes[m] > 0
  PROVE  /\ reply[m] \in Reply
         /\ \A i \in 1 .. Len(stream[m]) : stream[m][i] = Full(m)[i]
         /\ Len(stream[m]) <= Len(Full(m))
         /\ \/ Len(stream[m]) = 2
            \/ Len(stream[m]) >= Len(Header(m)) /\ reply[m].code # "451"
<1>1. reply[m] \in Reply
  BY DEF StreamOK
<1> DEFINE header == Header(m)
           data == reply[m].data
<1>2. /\ Full(m) \in Seq(Units) /\ Len(header) \in Nat /\ Len(header) >= 4
      /\ Len(Full(m)) = Len(header) + Len(data)
      /\ \A i \in 1 .. Len(header) : Full(m)[i] = header[i]
      /\ \A i \in 1 .. Len(data) : Full(m)[Len(header) + i] = data[i]
      /\ \A i \in 1 .. 2 : Status(reply[m].code)[i] = Full(m)[i]
  BY <1>1, FullIs
<1>3. data \in Seq(Units) /\ Len(data) \in Nat /\ reply[m].code \in Codes
  BY <1>1, ReplyType
<1>4. header \in Seq(Units)
  BY <1>1, HeaderIs
<1>5. Len(Status(reply[m].code)) = 2
  BY <1>3, StatusType
<1>6. CASE stream[m] = Status(reply[m].code)
  <2>1. Len(stream[m]) = 2 /\ 2 <= Len(Full(m))
    BY <1>2, <1>3, <1>5, <1>6
  <2> QED BY <1>1, <1>2, <1>6, <2>1
<1>7. CASE stream[m] = Header(m) /\ reply[m].code # "451"
  BY <1>1, <1>2, <1>3, <1>7
<1>8. CASE stream[m] = Full(m) /\ reply[m].code # "451"
  BY <1>1, <1>2, <1>3, <1>8
<1>9. CASE reply[m].code # "451"
           /\ \E n \in 1 .. Len(data) : stream[m] = header \o SubSeq(data, 1, n)
  <2> HIDE DEF header, data
  <2>1. PICK n \in 1 .. Len(data) : stream[m] = header \o SubSeq(data, 1, n)
    BY <1>9
  <2> DEFINE part == SubSeq(data, 1, n)
  <2>2. n \in Int /\ 1 \in Int /\ \A i \in 1 .. n : data[i] \in Units
    BY <1>3, ElementOfSeq
  <2>3. /\ part \in Seq(Units) /\ Len(part) = n
        /\ \A i \in 1 .. n : part[i] = data[i]
    <3>1. /\ part \in Seq(Units) /\ Len(part) = IF 1 <= n THEN n - 1 + 1 ELSE 0
          /\ \A i \in 1 .. n - 1 + 1 : part[i] = data[1 + i - 1]
      BY <2>2, SubSeqProperties
    <3> QED BY <1>3, <2>2, <3>1
  <2> HIDE DEF part
  <2>4. /\ Len(header \o part) = Len(header) + n
        /\ \A i \in 1 .. Len(header) + n :
             (header \o part)[i] = IF i <= Len(header) THEN header[i] ELSE part[i - Len(header)]
    BY <1>4, <2>3, ConcatProperties
  <2>5. ASSUME NEW i \in 1 .. Len(header) + n PROVE (header \o part)[i] = Full(m)[i]
    <3>1. CASE i <= Len(header)
      BY <1>2, <2>4, <3>1
    <3>2. CASE ~(i <= Len(header))
      <4>1. i - Len(header) \in 1 .. n /\ i - Len(header) \in 1 .. Len(data)
            /\ Len(header) + (i - Len(header)) = i
        BY <1>2, <1>3, <2>2, <3>2
      <4>2. (header \o part)[i] = data[i - Len(header)]
        BY <2>3, <2>4, <3>2, <4>1
      <4> QED BY <1>2, <4>1, <4>2
    <3> QED BY <3>1, <3>2
  <2>6. stream[m] = header \o part
    BY <2>1 DEF part
  <2>7. Len(stream[m]) = Len(header) + n /\ \A i \in 1 .. Len(stream[m]) : stream[m][i] = Full(m)[i]
    BY <2>4, <2>5, <2>6
  <2>8. Len(stream[m]) <= Len(Full(m)) /\ Len(stream[m]) >= Len(header)
    BY <1>2, <1>3, <2>2, <2>7
  <2> QED BY <1>1, <1>9, <2>7, <2>8 DEF header
<1> QED BY <1>6, <1>7, <1>8, <1>9 DEF StreamOK
-----------------------------------------------------------------------------
(* The inductive invariant *)

\* The local variables of unmarshall(): which part of the reply was received, and
\* what was made of it, as long as no recv() ended inside a line.
ReadOK ==
  /\ step = "status" => taken[machine] = 0
  /\ machine \notin split /\ step \in {"length", "data"} =>
       /\ writes[machine] > 0 /\ reply[machine].code \in {"220", "221"}
       /\ valid = (reply[machine].code = "220")
  /\ machine \notin split /\ step = "length" =>
       /\ taken[machine] = 2 \/ taken[machine] >= Len(Header(machine))
       /\ Len(buffer) + 2 = taken[machine]
       /\ \A i \in 1 .. Len(buffer) : buffer[i] = Full(machine)[i + 2]
  /\ machine \notin split /\ step = "data" =>
       /\ content_length = Len(reply[machine].data)
       /\ Len(buffer) + Len(Header(machine)) = taken[machine]
       /\ \A i \in 1 .. Len(buffer) : buffer[i] = reply[machine].data[i]

\* Whose turn it is: the clients that wait, then one target after the other.
TurnOK ==
  /\ step # "select" => machine \notin waiting
  /\ step = "output" => waiting = {}
  /\ \/ waiting \subseteq Clients /\ (machine \notin Range(Targets) \/ waiting = {})
     \/ step = "select" /\ \E k \in DOMAIN Targets : waiting = {Targets[k]}

\* Nothing was taken from a machine whose turn is still to come.
FreshOK ==
  /\ \A m \in waiting : taken[m] = 0
  /\ machine \notin Range(Targets) => \A j \in DOMAIN Targets : taken[Targets[j]] = 0
  /\ \A i, j \in DOMAIN Targets :
       i < j /\ Targets[i] \in waiting \cup {machine} => taken[Targets[j]] = 0

\* The tables: a client that does not wait and is not being read has its own
\* data in its place; at the end target_data is that of the last target.
LastTarget == Targets[Len(Targets)]
TablesOK ==
  /\ \A c \in Clients : \/ c \in waiting
                        \/ c = machine /\ step \notin {"select", "output"}
                        \/ c \in split
                        \/ writes[c] > 0 /\ client_data[c] = Own(c)
  /\ step = "output" /\ Targets # << >> /\ LastTarget \notin split =>
       writes[LastTarget] > 0 /\ target_data = Own(LastTarget)

\* output() gets what is in the tables.
ShownOK ==
  (\E m \in Machines : shown[m] # None) =>
    /\ step = "output"
    /\ \A c \in Clients \ split : shown[c] = Own(c)
    /\ LastTarget \notin split => \A m \in Machines \ Clients : shown[m] = Own(LastTarget)

FailuresOK ==
  machine \notin split =>
    /\ step = "failed" => machine \in Machines /\ writes[machine] > 0 /\ reply[machine].code = "451"
    /\ step = "crashed" => machine \in killed /\ writes[machine] < 2

IndInv ==
  /\ TypeInv
  /\ \A m \in Machines : StreamOK(m)
  /\ ReadOK /\ TurnOK /\ FreshOK /\ TablesOK /\ ShownOK /\ FailuresOK
-----------------------------------------------------------------------------
(* The steps of a daemon *)

DaemonStep(m) == Marshall(m) \/ Write(m) \/ Killed(m)

\* A daemon changes nothing of the others, and its reply only when it makes it;
\* a daemon that was killed does nothing.
LEMMA DaemonFrame ==
  ASSUME TypeInv, NEW m \in Machines, DaemonStep(m)
  PROVE  /\ UNCHANGED <<taken, split, step, machine, waiting, locals, tables, shown>>
         /\ killed \subseteq killed'
         /\ \A k \in killed : writes'[k] = writes[k]
         /\ \A k \in Machines : writes[k] > 0 =>
              writes'[k] > 0 /\ reply'[k] = reply[k] /\ Header(k)' = Header(k)
              /\ Full(k)' = Full(k) /\ Own(k)' = Own(k)
         /\ \A k \in Machines \ {m} :
              writes'[k] = writes[k] /\ stream'[k] = stream[k] /\ reply'[k] = reply[k]
              /\ (k \in killed' <=> k \in killed)
<1>1. CASE Marshall(m)
  <2>1. PICK r \in Reply :
          /\ reply' = [reply EXCEPT ![m] = r]
          /\ Sends(m, Status(r.code))
          /\ writes' = [writes EXCEPT ![m] = IF r.code = "451" THEN 3 ELSE 1]
    BY <1>1 DEF Marshall
  <2>2. writes[m] = 0 /\ m \notin killed /\ killed' = killed
        /\ UNCHANGED <<step, machine, waiting, locals, tables, shown>>
    BY <1>1 DEF Marshall, Running
  <2>3. \A k \in Machines \ {m} : writes'[k] = writes[k] /\ stream'[k] = stream[k]
                                  /\ reply'[k] = reply[k]
    BY <2>1 DEF Sends, TypeInv, TypeOK
  <2>4. taken' = taken /\ split' = split
    BY <2>1 DEF Sends
  <2>5. \A k \in Machines : writes[k] > 0 => k # m
    BY <2>2
  <2>6. killed \subseteq Machines
    BY DEF TypeInv, TypeOK
  <2> QED BY <2>2, <2>3, <2>4, <2>5, <2>6 DEF Header, Full, Own
<1>2. CASE Write(m)
  <2>1. /\ UNCHANGED <<reply, killed, step, machine, waiting, locals, tables, shown>>
        /\ writes' = [writes EXCEPT ![m] = writes[m] + 1] /\ m \notin killed /\ writes[m] > 0
        /\ \E units : Sends(m, units)
    BY <1>2 DEF Write, Running
  <2>2. taken' = taken /\ split' = split /\ \A k \in Machines \ {m} : stream'[k] = stream[k]
    BY <2>1 DEF Sends, TypeInv, TypeOK
  <2>3. writes[m] \in 0 .. 3 /\ killed \subseteq Machines
    BY DEF TypeInv, TypeOK
  <2>4. writes'[m] > 0 /\ \A k \in Machines \ {m} : writes'[k] = writes[k]
    BY <2>1, <2>3 DEF TypeInv, TypeOK
  <2>5. \A k \in Machines : writes[k] > 0 => writes'[k] > 0
    BY <2>4
  <2>6. \A k \in killed : writes'[k] = writes[k]
    BY <2>1, <2>3, <2>4
  <2> QED BY <2>1, <2>2, <2>4, <2>5, <2>6 DEF Header, Full, Own
<1>3. CASE Killed(m)
  <2>1. /\ UNCHANGED <<reply, writes, step, machine, waiting, locals, tables, shown>>
        /\ killed' = killed \cup {m}
        /\ \E units : Sends(m, units)
    BY <1>3 DEF Killed
  <2>2. taken' = taken /\ split' = split /\ \A k \in Machines \ {m} : stream'[k] = stream[k]
    BY <2>1 DEF Sends, TypeInv, TypeOK
  <2> QED BY <2>1, <2>2 DEF Header, Full, Own
<1> QED BY <1>1, <1>2, <1>3 DEF DaemonStep

LEMMA DaemonStream ==
  ASSUME TypeInv, NEW m \in Machines, StreamOK(m), DaemonStep(m)
  PROVE  StreamOK(m)'
<1>1. stream[m] \in Seq(Units) /\ m \in Machines /\ writes[m] \in 0 .. 3
  BY DEF TypeInv, TypeOK
<1>2. CASE Marshall(m)
  <2>1. PICK r \in Reply :
          /\ reply' = [reply EXCEPT ![m] = r]
          /\ Sends(m, Status(r.code))
          /\ writes' = [writes EXCEPT ![m] = IF r.code = "451" THEN 3 ELSE 1]
    BY <1>2 DEF Marshall
  <2>2. writes[m] = 0 /\ stream[m] = << >>
    BY <1>2 DEF Marshall, StreamOK
  <2>3. Status(r.code) \in Seq(Units)
    BY StatusType DEF Reply
  <2>4. << >> \o Status(r.code) = Status(r.code)
    BY <2>3, ConcatEmptySeq
  <2>5. stream'[m] = Status(r.code)
    BY <2>1, <2>2, <2>4 DEF Sends, TypeInv, TypeOK
  <2>6. reply'[m] = r /\ writes'[m] = IF r.code = "451" THEN 3 ELSE 1
    BY <2>1 DEF TypeInv, TypeOK
  <2>7. CASE r.code = "451"
    BY <2>5, <2>6, <2>7 DEF StreamOK
  <2>8. CASE r.code # "451"
    BY <2>5, <2>6, <2>8 DEF StreamOK
  <2> QED BY <2>7, <2>8
<1>3. CASE Write(m)
  <2>1. reply' = reply /\ writes' = [writes EXCEPT ![m] = writes[m] + 1]
        /\ writes[m] > 0 /\ writes[m] < 3 /\ m \notin killed
        /\ Sends(m, IF writes[m] = 1 THEN Length(Len(reply[m].data)) ELSE reply[m].data)
    BY <1>3 DEF Write, Running
  <2>2. writes'[m] = writes[m] + 1
    BY <2>1 DEF TypeInv, TypeOK
  <2>3. CASE writes[m] = 1
    <3>1. reply[m] \in Reply /\ reply[m].code # "451" /\ stream[m] = Status(reply[m].code)
      BY <2>3 DEF StreamOK
    <3>2. stream'[m] = Header(m)
      BY <2>1, <2>3, <3>1 DEF Sends, Header, TypeInv, TypeOK
    <3>3. writes'[m] = 2 /\ writes'[m] > 0
      BY <2>2, <2>3
    <3> QED BY <2>1, <3>1, <3>2, <3>3 DEF StreamOK, Header
  <2>4. CASE writes[m] = 2
    <3>1. reply[m] \in Reply /\ reply[m].code # "451" /\ stream[m] = Header(m)
      <4>1. m \notin killed
        BY <2>1
      <4> QED BY <2>4, <4>1 DEF StreamOK
    <3>2. stream'[m] = Full(m)
      <4>1. stream' = [stream EXCEPT ![m] = stream[m] \o reply[m].data]
        BY <2>1, <2>4 DEF Sends
      <4>2. stream'[m] = stream[m] \o reply[m].data
        BY <4>1 DEF TypeInv, TypeOK
      <4> QED BY <3>1, <4>2 DEF Full
    <3>3. writes'[m] = 3 /\ writes'[m] > 0
      BY <2>2, <2>4
    <3> QED BY <2>1, <3>1, <3>2, <3>3 DEF StreamOK, Full, Header
  <2>5. writes[m] \in {1, 2}
    BY <1>1, <2>1
  <2> QED BY <2>3, <2>4, <2>5
<1>4. CASE Killed(m)
  <2>1. reply' = reply /\ writes' = writes /\ killed' = killed \cup {m} /\ m \notin killed
        /\ writes[m] # 3
    BY <1>1, <1>4 DEF Killed, Running
  <2>2. CASE Sends(m, << >>)
    <3>1. stream[m] \o << >> = stream[m]
      BY <1>1, ConcatEmptySeq
    <3>2. stream'[m] = stream[m]
      BY <2>2, <3>1 DEF Sends, TypeInv, TypeOK
    <3> QED BY <2>1, <3>2 DEF StreamOK, Header, Full
  <2>3. CASE writes[m] = 2 /\ \E n \in 1 .. Len(reply[m].data) :
                                Sends(m, SubSeq(reply[m].data, 1, n))
    <3>1. PICK n \in 1 .. Len(reply[m].data) : Sends(m, SubSeq(reply[m].data, 1, n))
      BY <2>3
    <3>2. reply[m] \in Reply /\ reply[m].code # "451" /\ stream[m] = Header(m) /\ writes[m] > 0
      BY <2>1, <2>3 DEF StreamOK
    <3>3. stream'[m] = Header(m) \o SubSeq(reply[m].data, 1, n)
      BY <3>1, <3>2 DEF Sends, TypeInv, TypeOK
    <3> QED BY <2>1, <2>3, <3>2, <3>3 DEF StreamOK, Header
  <2> QED BY <1>4, <2>2, <2>3 DEF Killed
<1> QED BY <1>2, <1>3, <1>4 DEF DaemonStep

LEMMA DaemonKeeps ==
  ASSUME IndInv, NEW m \in Machines, DaemonStep(m)
  PROVE  IndInv'
<1>1. TypeInv /\ TypeInv'
  BY TypeDaemon DEF IndInv, DaemonStep
<1> USE DEF locals, tables
<1>2. /\ UNCHANGED <<taken, split, step, machine, waiting, locals, tables, shown>>
      /\ killed \subseteq killed'
      /\ \A k \in killed : writes'[k] = writes[k]
      /\ \A k \in Machines : writes[k] > 0 =>
           writes'[k] > 0 /\ reply'[k] = reply[k] /\ Header(k)' = Header(k)
           /\ Full(k)' = Full(k) /\ Own(k)' = Own(k)
  BY <1>1, DaemonFrame
<1>3. \A k \in Machines : StreamOK(k)'
  <2> TAKE k \in Machines
  <2>1. CASE k = m
    BY <1>1, <2>1, DaemonStream DEF IndInv
  <2>2. CASE k # m
    <3>1. writes'[k] = writes[k] /\ stream'[k] = stream[k] /\ reply'[k] = reply[k]
          /\ (k \in killed' <=> k \in killed)
      BY <1>1, <2>2, DaemonFrame
    <3> QED BY <3>1 DEF IndInv, StreamOK, Header, Full
  <2> QED BY <2>1, <2>2
<1>4. ReadOK'
  <2>1. CASE machine \notin split /\ step \in {"length", "data"}
    <3>1. machine \in Machines /\ writes[machine] > 0
      BY <1>1, <2>1 DEF TypeInv, Reading, IndInv, ReadOK
    <3> QED BY <1>2, <2>1, <3>1 DEF IndInv, ReadOK
  <2>2. CASE machine \in split \/ step \notin {"length", "data"}
    BY <1>2, <2>2 DEF IndInv, ReadOK
  <2> QED BY <2>1, <2>2
<1>5. TurnOK' /\ FreshOK'
  BY <1>2 DEF IndInv, TurnOK, FreshOK
<1>6. TablesOK'
  <2>1. \A c \in Clients : writes[c] > 0 => writes'[c] > 0 /\ Own(c)' = Own(c)
    BY <1>2 DEF Machines
  <2>2. LastTarget' = LastTarget
    BY DEF LastTarget
  <2>3. Targets # << >> => LastTarget \in Machines
    BY TargetsAssumption DEF LastTarget, Machines, Range
  <2> QED BY <1>2, <2>1, <2>2, <2>3 DEF IndInv, TablesOK
<1>7. ShownOK'
  <2>1. CASE \A k \in Machines : shown[k] = None
    BY <1>2, <2>1 DEF ShownOK
  <2>2. CASE \E k \in Machines : shown[k] # None
    <3>1. /\ step = "output"
          /\ \A c \in Clients \ split : shown[c] = Own(c)
          /\ LastTarget \notin split => \A k \in Machines \ Clients : shown[k] = Own(LastTarget)
      BY <2>2 DEF IndInv, ShownOK
    <3>2. \A c \in Clients \ split : writes[c] > 0
      BY <3>1 DEF IndInv, TurnOK, TablesOK
    <3>3. ASSUME NEW k \in Machines \ Clients, LastTarget \notin split
          PROVE  shown'[k] = Own(LastTarget)'
      <4>1. Targets # << >> /\ LastTarget \in Machines
        BY TargetsAssumption DEF LastTarget, Machines, Range
      <4>2. writes[LastTarget] > 0
        BY <3>1, <3>3, <4>1 DEF IndInv, TablesOK
      <4> QED BY <1>2, <3>1, <3>3, <4>1, <4>2 DEF LastTarget
    <3>4. \A c \in Clients \ split : shown'[c] = Own(c)'
      BY <1>2, <3>1, <3>2 DEF Machines
    <3> QED BY <1>2, <3>1, <3>3, <3>4 DEF ShownOK, LastTarget
  <2> QED BY <2>1, <2>2
<1>8. FailuresOK'
  <2>1. CASE machine \notin split /\ step = "failed"
    <3>1. machine \in Machines /\ writes[machine] > 0 /\ reply[machine].code = "451"
      BY <2>1 DEF IndInv, FailuresOK
    <3> QED BY <1>2, <2>1, <3>1 DEF FailuresOK
  <2>2. CASE step = "crashed"
    BY <1>2, <2>2 DEF IndInv, FailuresOK
  <2>3. CASE machine \in split \/ step \notin {"failed", "crashed"}
    BY <1>2, <2>3 DEF FailuresOK
  <2> QED BY <2>1, <2>2, <2>3
<1> QED BY <1>1, <1>3, <1>4, <1>5, <1>6, <1>7, <1>8 DEF IndInv
-----------------------------------------------------------------------------
(* What the slices of unmarshall() make of a reply *)

\* s is the beginning of a complete reply of m.
Begins(s, m) == \A i \in 1 .. Len(s) : s[i] = Full(m)[i]

\* The status line, when all of it has come: its code, and what is behind it.
LEMMA StatusParsed ==
  ASSUME NEW m, reply[m] \in Reply, NEW data \in Seq(Units), Len(data) >= 2, Begins(data, m)
  PROVE  /\ Newline(data) = 2 /\ Line(data)[1] = reply[m].code
         /\ Len(Rest(data)) + 2 = Len(data)
         /\ \A i \in 1 .. Len(Rest(data)) : Rest(data)[i] = Full(m)[i + 2]
<1>1. /\ Len(data) \in Nat /\ 1 \in 1 .. Len(data) /\ 2 \in 1 .. Len(data)
      /\ Len(data) = 2 \/ 3 <= Len(data)
  <2>1. ASSUME NEW n \in Nat, n >= 2 PROVE n = 2 \/ 3 <= n
    BY <2>1
  <2>2. Len(data) \in Nat
    OBVIOUS
  <2>3. Len(data) = 2 \/ 3 <= Len(data)
    BY <2>1, <2>2
  <2> QED BY <2>2, <2>3
<1>2. Full(m)[1] = reply[m].code /\ Full(m)[2] = "newline"
  <2>1. Header(m)[1] = reply[m].code /\ Header(m)[2] = "newline"
    BY HeaderIs
  <2>2. Len(Header(m)) \in Nat /\ Len(Header(m)) >= 4
        /\ \A i \in 1 .. Len(Header(m)) : Full(m)[i] = Header(m)[i]
    BY FullIs
  <2>3. 1 \in 1 .. Len(Header(m)) /\ 2 \in 1 .. Len(Header(m))
    BY <2>2
  <2> QED BY <2>1, <2>2, <2>3
<1>3. data[1] = reply[m].code /\ data[2] = "newline"
  BY <1>1, <1>2 DEF Begins
<1>4. data[1] # "newline"
  BY <1>3, ReplyType DEF Codes
<1>5. Newline(data) = 2
  BY <1>1, <1>3, <1>4, NewlineAt
<1>6. \A i \in 1 .. Len(data) : data[i] \in Units
  BY ElementOfSeq
<1>7. Line(data) = SubSeq(data, 1, 1) /\ Rest(data) = SubSeq(data, 3, Len(data))
  BY <1>5 DEF Line, Rest
<1>8. Len(SubSeq(data, 1, 1)) = 1 /\ SubSeq(data, 1, 1)[1] = data[1]
  BY <1>1, <1>6, SubSeqProperties
<1>9. /\ SubSeq(data, 3, Len(data)) \in Seq(Units)
      /\ Len(SubSeq(data, 3, Len(data))) = IF 3 <= Len(data) THEN Len(data) - 3 + 1 ELSE 0
      /\ \A i \in 1 .. Len(data) - 3 + 1 : SubSeq(data, 3, Len(data))[i] = data[3 + i - 1]
  BY <1>1, <1>6, SubSeqProperties
<1>10. Len(Rest(data)) = Len(data) - 2
  <2>1. Len(Rest(data)) = IF 3 <= Len(data) THEN Len(data) - 3 + 1 ELSE 0
    BY <1>7, <1>9
  <2>2. CASE 3 <= Len(data)
    BY <1>1, <2>1, <2>2
  <2>3. CASE Len(data) = 2
    BY <2>1, <2>3
  <2> QED BY <1>1, <2>2, <2>3
<1>11. ASSUME NEW i \in 1 .. Len(Rest(data)) PROVE Rest(data)[i] = Full(m)[i + 2]
  <2>1. i \in 1 .. Len(data) - 3 + 1 /\ 3 + i - 1 = i + 2 /\ i + 2 \in 1 .. Len(data)
    BY <1>1, <1>10
  <2> QED BY <1>7, <1>9, <2>1 DEF Begins
<1> QED BY <1>1, <1>3, <1>5, <1>7, <1>8, <1>10, <1>11

\* The length line, when all of it has come: the length of the data, and the data
\* that has come with it.
LEMMA LengthParsed ==
  ASSUME NEW m, reply[m] \in Reply, NEW s \in Seq(Units), Len(s) + 2 >= Len(Header(m)),
         \A i \in 1 .. Len(s) : i + 2 <= Len(Full(m)) /\ s[i] = Full(m)[i + 2]
  PROVE  /\ Match(Line(s)) = Len(reply[m].data)
         /\ Len(Rest(s)) + Len(Header(m)) = Len(s) + 2
         /\ \A i \in 1 .. Len(Rest(s)) : Rest(s)[i] = reply[m].data[i]
<1> DEFINE data == reply[m].data
           numeral == LengthNumeral(m)
           k == Len(numeral) + 2
<1>1. data \in Seq(Units) /\ Len(data) \in 0 .. Len(Numeral) - 1 /\ Len(data) \in Nat
  BY ReplyType
<1>2. Len(data) + 1 \in DOMAIN Numeral
  BY <1>1, NumeralType
<1>3. numeral \in Seq(Digits) /\ Len(numeral) \in Nat
  BY <1>2, NumeralType DEF LengthNumeral
<1>4. /\ Len(Header(m)) = Len(numeral) + 4
      /\ Header(m)[3] = "Content-length"
      /\ \A i \in 1 .. Len(numeral) : Header(m)[i + 3] = numeral[i]
      /\ Header(m)[Len(numeral) + 4] = "newline"
  BY HeaderIs
<1>5. /\ Len(Full(m)) = Len(Header(m)) + Len(data)
      /\ \A i \in 1 .. Len(Header(m)) : Full(m)[i] = Header(m)[i]
      /\ \A i \in 1 .. Len(data) : Full(m)[Len(Header(m)) + i] = data[i]
  BY FullIs
<1> HIDE DEF data, numeral
<1>6. Len(s) \in Nat /\ Len(s) >= k
  BY <1>3, <1>4
<1>7. \A i \in 1 .. k : s[i] = Header(m)[i + 2]
  <2> TAKE i \in 1 .. k
  <2>1. i \in 1 .. Len(s) /\ i + 2 \in 1 .. Len(Header(m))
    BY <1>3, <1>4, <1>6
  <2> QED BY <1>5, <2>1
<1>8. s[1] = "Content-length"
  <2>1. 1 \in 1 .. k /\ 1 + 2 = 3
    BY <1>3
  <2> QED BY <1>4, <1>7, <2>1
<1>9. \A i \in 1 .. Len(numeral) : s[i + 1] = numeral[i]
  <2> TAKE i \in 1 .. Len(numeral)
  <2>1. i + 1 \in 1 .. k /\ (i + 1) + 2 = i + 3
    BY <1>3
  <2> QED BY <1>4, <1>7, <2>1
<1>10. s[k] = "newline"
  <2>1. k \in 1 .. k /\ k + 2 = Len(numeral) + 4
    BY <1>3
  <2> QED BY <1>4, <1>7, <2>1
<1>11. ASSUME NEW i \in 1 .. k - 1 PROVE s[i] # "newline"
  <2>1. CASE i = 1
    BY <1>8, <2>1
  <2>2. CASE i # 1
    <3>1. i - 1 \in 1 .. Len(numeral) /\ (i - 1) + 1 = i
      BY <1>3, <2>2
    <3>2. s[i] = numeral[i - 1] /\ numeral[i - 1] \in Digits
      BY <1>3, <1>9, <3>1, ElementOfSeq
    <3> QED BY <3>2, NumeralAssumption
  <2> QED BY <2>1, <2>2
<1>12. k \in 1 .. Len(s)
  BY <1>3, <1>6
<1> HIDE DEF k
<1>13. Newline(s) = k
  BY <1>10, <1>11, <1>12, NewlineAt
<1>14. k # 0 /\ k \in Int /\ k = Len(numeral) + 2
  BY <1>3 DEF k
<1>15. Line(s) = SubSeq(s, 1, k - 1) /\ Rest(s) = SubSeq(s, k + 1, Len(s))
  BY <1>13, <1>14 DEF Line, Rest
<1>16. \A i \in 1 .. Len(s) : s[i] \in Units
  BY ElementOfSeq
<1>17. Match(Line(s)) = Len(data)
  <2>1. k - 1 \in Int /\ 1 \in Int /\ \A i \in 1 .. k - 1 : s[i] \in Units
    BY <1>6, <1>12, <1>16
  <2>2. /\ Line(s) \in Seq(Units)
        /\ Len(Line(s)) = IF 1 <= k - 1 THEN (k - 1) - 1 + 1 ELSE 0
        /\ \A i \in 1 .. (k - 1) - 1 + 1 : Line(s)[i] = s[1 + i - 1]
    BY <1>15, <2>1, SubSeqProperties
  <2>3. Len(Line(s)) = Len(numeral) + 1
    BY <1>3, <1>14, <2>2
  <2>4. \A i \in 1 .. Len(numeral) + 1 : Line(s)[i] = s[i]
    BY <1>3, <1>14, <2>2
  <2>5. Line(s)[1] = "Content-length"
    BY <1>3, <1>8, <2>4
  <2>6. \A i \in 1 .. Len(numeral) : Line(s)[i + 1] = numeral[i]
    BY <1>3, <1>9, <2>4
  <2> QED BY <1>1, <2>2, <2>3, <2>5, <2>6, MatchLength DEF numeral, data, LengthNumeral
<1>18. k + 1 \in Int /\ Len(s) \in Int /\ \A i \in k + 1 .. Len(s) : s[i] \in Units
  BY <1>6, <1>12, <1>16
<1>19. /\ Len(Rest(s)) = IF k + 1 <= Len(s) THEN Len(s) - (k + 1) + 1 ELSE 0
       /\ \A i \in 1 .. Len(s) - (k + 1) + 1 : Rest(s)[i] = s[(k + 1) + i - 1]
  BY <1>15, <1>18, SubSeqProperties
<1>20. Len(Rest(s)) = Len(s) - k /\ Len(Rest(s)) + Len(Header(m)) = Len(s) + 2
  <2>1. Len(Rest(s)) = IF k + 1 <= Len(s) THEN Len(s) - (k + 1) + 1 ELSE 0
    BY <1>19
  <2>2. k <= Len(s) /\ k \in Int /\ Len(s) \in Int
    BY <1>6, <1>12, <1>14
  <2>3. Len(Rest(s)) = Len(s) - k
    BY <2>1, <2>2
  <2>4. Len(Header(m)) = k + 2
    BY <1>3, <1>4, <1>14
  <2> QED BY <2>2, <2>3, <2>4
<1>21. ASSUME NEW i \in 1 .. Len(Rest(s)) PROVE Rest(s)[i] = data[i]
  <2>1. /\ i \in 1 .. Len(s) - (k + 1) + 1 /\ (k + 1) + i - 1 = k + i /\ k + i \in 1 .. Len(s)
        /\ (k + i) + 2 = Len(Header(m)) + i
    BY <1>3, <1>4, <1>6, <1>12, <1>14, <1>20
  <2>2. Rest(s)[i] = Full(m)[Len(Header(m)) + i] /\ Len(Header(m)) + i <= Len(Full(m))
    BY <1>19, <2>1
  <2>3. i \in 1 .. Len(data)
    BY <1>1, <1>3, <1>4, <1>5, <2>2
  <2> QED BY <1>5, <2>2, <2>3
<1> QED BY <1>17, <1>20, <1>21 DEF data
-----------------------------------------------------------------------------
(* The steps of the controller that read *)

\* Reading a machine touches no other machine, and no table.
LEMMA ReceiveFrame ==
  ASSUME IndInv, step \in Reading, step' \in {"length", "data", "failed", "crashed"},
         UNCHANGED <<reply, writes, killed, stream, machine, waiting, tables, shown>>,
         split \subseteq split',
         \A m \in Machines \ {machine} : taken'[m] = taken[m]
  PROVE  /\ \A m \in Machines : StreamOK(m)'
         /\ TurnOK' /\ FreshOK' /\ TablesOK' /\ ShownOK'
<1> USE DEF tables, Reading
<1>1. machine \in Machines /\ waiting \subseteq Machines
  BY DEF IndInv, TypeInv, TypeOK
<1>2. \A m \in Machines : StreamOK(m)'
  BY StreamKept DEF IndInv
<1>3. machine \notin waiting /\ waiting \subseteq Clients
      /\ (machine \notin Range(Targets) \/ waiting = {})
  BY DEF IndInv, TurnOK
<1>4. TurnOK'
  BY <1>3 DEF TurnOK
<1>5. \A i \in DOMAIN Targets : Targets[i] \in Range(Targets) /\ Targets[i] \in Machines
                                /\ Targets[i] \notin Clients
  BY TargetsAssumption DEF Range, Machines
<1>6. FreshOK'
  <2>1. \A m \in waiting : taken'[m] = 0
    BY <1>1, <1>3 DEF IndInv, FreshOK
  <2>2. machine \notin Range(Targets) => \A j \in DOMAIN Targets : taken'[Targets[j]] = 0
    BY <1>5 DEF IndInv, FreshOK
  <2>3. ASSUME NEW i \in DOMAIN Targets, NEW j \in DOMAIN Targets, i < j,
               Targets[i] \in waiting \cup {machine}
        PROVE  taken'[Targets[j]] = 0
    <3>1. Targets[i] = machine
      BY <1>3, <1>5, <2>3
    <3>2. i # j
      BY <2>3, TargetsAssumption
    <3>3. Targets[j] # machine
      BY <3>1, <3>2, TargetsAssumption DEF IsInjective
    <3>4. taken[Targets[j]] = 0
      BY <2>3 DEF IndInv, FreshOK
    <3> QED BY <1>5, <3>3, <3>4
  <2> QED BY <2>1, <2>2, <2>3 DEF FreshOK
<1>7. TablesOK'
  BY DEF IndInv, TablesOK, Own, LastTarget
<1>8. ShownOK'
  BY DEF IndInv, ShownOK
<1> QED BY <1>2, <1>4, <1>6, <1>7, <1>8

\* A stream that has ended behind nothing or behind the status line is that of a
\* daemon that was killed, or of an error.
LEMMA EndOfShort ==
  ASSUME IndInv, NEW m \in Machines, AtEof(m)
  PROVE  /\ Len(stream[m]) = 0 => m \in killed /\ writes[m] < 2
         /\ Len(stream[m]) = 2 /\ reply[m].code # "451" => m \in killed /\ writes[m] < 2
<1>1. writes[m] \in 0 .. 3 /\ (writes[m] = 3 \/ m \in killed)
  BY DEF AtEof, Running, IndInv, TypeInv, TypeOK
<1>2. StreamOK(m)
  BY DEF IndInv
<1>3. CASE writes[m] = 0
  <2>1. stream[m] = << >> /\ m \in killed
    BY <1>1, <1>2, <1>3 DEF StreamOK
  <2> QED BY <1>3, <2>1
<1>4. CASE writes[m] > 0
  <2>1. reply[m] \in Reply
    BY <1>2, <1>4 DEF StreamOK
  <2>2. Len(stream[m]) = 2 \/ Len(stream[m]) >= Len(Header(m))
    BY <1>2, <1>4, StreamIs
  <2>3. Len(Header(m)) \in Nat /\ Len(Header(m)) >= 4
    BY <2>1, FullIs
  <2>4. Len(stream[m]) # 0
    BY <2>2, <2>3
  <2>5. ASSUME Len(stream[m]) = 2, reply[m].code # "451" PROVE m \in killed /\ writes[m] < 2
    <3>0. ASSUME NEW n \in Nat, NEW h \in Nat, h >= 4, n >= h PROVE n # 2
      BY <3>0
    <3>1. CASE writes[m] = 2 /\ stream[m] = Header(m)
      <4>1. Len(Header(m)) >= Len(Header(m))
        BY <2>3
      <4> QED BY <2>3, <2>5, <3>0, <3>1, <4>1
    <3>2. CASE writes[m] = 3 /\ stream[m] = Full(m)
      <4>1. Len(Full(m)) = Len(Header(m)) + Len(reply[m].data) /\ Len(reply[m].data) \in Nat
        BY <2>1, FullIs, ReplyType
      <4>2. Len(Full(m)) \in Nat /\ Len(Full(m)) >= Len(Header(m))
        BY <2>3, <4>1
      <4> QED BY <2>3, <2>5, <3>0, <3>2, <4>2
    <3>3. CASE \E n \in 1 .. Len(reply[m].data) :
                 stream[m] = Header(m) \o SubSeq(reply[m].data, 1, n)
      <4>1. PICK n \in 1 .. Len(reply[m].data) :
                 stream[m] = Header(m) \o SubSeq(reply[m].data, 1, n)
        BY <3>3
      <4>2. reply[m].data \in Seq(Units) /\ Header(m) \in Seq(Units) /\ Len(reply[m].data) \in Nat
        BY <2>1, ReplyType, HeaderIs
      <4>3. \A i \in 1 .. n : reply[m].data[i] \in Units
        BY <4>2, ElementOfSeq
      <4>4. SubSeq(reply[m].data, 1, n) \in Seq(Units)
        BY <4>2, <4>3, SubSeqProperties
      <4>5. /\ Len(Header(m) \o SubSeq(reply[m].data, 1, n))
                 = Len(Header(m)) + Len(SubSeq(reply[m].data, 1, n))
            /\ Len(SubSeq(reply[m].data, 1, n)) \in Nat
        BY <4>2, <4>4, ConcatProperties
      <4>6. Len(stream[m]) \in Nat /\ Len(stream[m]) >= Len(Header(m))
        BY <2>3, <4>1, <4>5
      <4> QED BY <2>3, <2>5, <3>0, <4>6
    <3>4. CASE writes[m] = 1
      BY <1>1, <3>4
    <3> QED BY <1>2, <1>4, <2>5, <3>1, <3>2, <3>3, <3>4 DEF StreamOK
  <2> QED BY <2>4, <2>5
<1> QED BY <1>1, <1>3, <1>4

\* What a recv() leaves behind of where it has ended.
LEMMA SplitGrows ==
  ASSUME NEW m \in Machines, NEW data, Takes(m, data)
  PROVE  /\ split \subseteq split'
         /\ m \notin split' => m \notin split /\ ~InsideLine(m, taken[m] + Len(data))
BY DEF Takes

\* Once a recv() has ended inside a line of the machine, nothing is claimed of it.
LEMMA ReceiveSplitKeeps ==
  ASSUME IndInv, machine \in split', ReceiveStatus \/ ReceiveLength \/ ReceiveData
  PROVE  IndInv'
<1>1. TypeInv /\ TypeOK /\ TypeInv'
  BY TypeReceive DEF IndInv, TypeInv
<1>2. /\ step \in Reading /\ machine \in Machines
      /\ UNCHANGED <<reply, writes, killed, machine, waiting, tables, shown>>
  BY <1>1 DEF ReceiveStatus, ReceiveLength, ReceiveData, TypeInv, Reading
<1>3. step' \in {"length", "data", "failed", "crashed"}
  BY DEF ReceiveStatus, ReceiveLength, ReceiveData
<1>4. (\E data : Takes(machine, data)) \/ UNCHANGED <<stream, taken, split>>
  BY DEF ReceiveStatus, ReceiveLength, ReceiveData
<1>5. /\ stream' = stream /\ split \subseteq split'
      /\ \A k \in Machines \ {machine} : taken'[k] = taken[k]
  <2>1. CASE \E data : Takes(machine, data)
    <3>1. PICK data : Takes(machine, data)
      BY <2>1
    <3>2. stream' = stream /\ taken' = [taken EXCEPT ![machine] = taken[machine] + Len(data)]
      BY <3>1 DEF Takes
    <3> QED BY <1>1, <1>2, <3>1, <3>2, SplitGrows DEF TypeOK
  <2> QED BY <1>4, <2>1
<1>6. /\ \A k \in Machines : StreamOK(k)'
      /\ TurnOK' /\ FreshOK' /\ TablesOK' /\ ShownOK'
  BY <1>2, <1>3, <1>5, ReceiveFrame
<1> QED BY <1>1, <1>2, <1>3, <1>6 DEF IndInv, ReadOK, FailuresOK

LEMMA SplitOfMachine ==
  ASSUME IndInv, machine \notin split', ReceiveLength \/ ReceiveData
  PROVE  machine \notin split
<1>1. machine \in Machines
  BY DEF ReceiveLength, ReceiveData, IndInv, TypeInv, Reading
<1>2. (\E data : Takes(machine, data)) \/ UNCHANGED split
  BY DEF ReceiveLength, ReceiveData
<1> QED BY <1>1, <1>2, SplitGrows

LEMMA ReceiveStatusKeeps ==
  ASSUME IndInv, machine \notin split', ReceiveStatus
  PROVE  IndInv'
<1> DEFINE m == machine
<1>1. TypeInv /\ TypeOK /\ TypeInv'
  BY TypeReceive DEF IndInv, TypeInv
<1>2. /\ step = "status" /\ machine \in Machines /\ taken[m] = 0
      /\ UNCHANGED <<reply, writes, killed, machine, waiting, content_length, tables, shown>>
  BY <1>1 DEF ReceiveStatus, IndInv, TypeInv, ReadOK, Reading
<1> DEFINE Outcome(data, code) ==
             \/ /\ code \notin {"220", "221"}
                /\ step' = IF code = "ValueError" THEN "crashed" ELSE "failed"
                /\ UNCHANGED <<valid, buffer>>
             \/ /\ code \in {"220", "221"} /\ step' = "length"
                /\ valid' = (code = "220") /\ buffer' = Rest(data)
<1>a. PICK data \in Pieces(machine, Chunk) :
        \E code \in CodesRead(data) : Takes(machine, data) /\ Outcome(data, code)
  BY DEF ReceiveStatus
<1>3. PICK code \in CodesRead(data) : Takes(machine, data) /\ Outcome(data, code)
  BY <1>a
<1>4. /\ stream' = stream /\ taken' = [taken EXCEPT ![machine] = 0 + Len(data)]
      /\ split \subseteq split' /\ ~InsideLine(m, 0 + Len(data))
  BY <1>2, <1>3, SplitGrows DEF Takes
<1>5. /\ data \in Seq(Units) /\ Len(data) \in Nat /\ 0 + Len(data) <= Len(stream[m])
      /\ \A i \in 1 .. Len(data) : data[i] = stream[m][0 + i]
      /\ \/ Len(data) = 0 /\ AtEof(m)
         \/ Len(data) > 0
  <2>1. /\ data \in Seq(Units) /\ Len(data) \in 0 .. Chunk
        /\ taken[m] + Len(data) <= Len(stream[m])
        /\ \A i \in 1 .. Len(data) : data[i] = stream[m][taken[m] + i]
        /\ \/ Len(data) = 0 /\ AtEof(m)
           \/ Len(data) > 0
    BY <1>1, <1>2, PieceIs, ConstantsAssumption
  <2> QED BY <1>2, <2>1
<1>6. taken'[m] = Len(data) /\ \A k \in Machines \ {machine} : taken'[k] = taken[k]
  BY <1>1, <1>2, <1>4, <1>5 DEF TypeOK
<1>7. step' \in {"length", "failed", "crashed"}
  BY <1>3
<1>8. /\ \A k \in Machines : StreamOK(k)'
      /\ TurnOK' /\ FreshOK' /\ TablesOK' /\ ShownOK'
  BY <1>2, <1>4, <1>6, <1>7, ReceiveFrame DEF Reading
<1>9. CASE Len(data) = 0 /\ AtEof(m)
  <2>1. data = << >>
    BY <1>5, <1>9, EmptySeq
  <2>2. step' = "crashed"
    BY <1>3, <2>1 DEF CodesRead
  <2>3. Len(stream[m]) = 0
    BY <1>2, <1>9 DEF AtEof
  <2>4. machine \in killed /\ writes[machine] < 2
    BY <1>2, <1>9, <2>3, EndOfShort
  <2> QED BY <1>1, <1>2, <1>8, <2>2, <2>4 DEF IndInv, ReadOK, FailuresOK
<1>10. CASE Len(data) > 0
  <2>1. stream[m] # << >>
    BY <1>5, <1>10
  <2>2. writes[m] > 0 /\ StreamOK(m)
    BY <1>1, <1>2, <2>1 DEF IndInv, StreamOK
  <2>3. reply[m] \in Reply /\ \A i \in 1 .. Len(stream[m]) : stream[m][i] = Full(m)[i]
    BY <1>2, <2>2, StreamIs
  <2>4. Begins(data, m)
    BY <1>5, <2>3 DEF Begins
  <2>5. Len(data) = 2 \/ Len(data) >= Len(Header(m))
    <3>1. Len(Status(reply[m].code)) = 2 /\ Len(Header(m)) \in Nat
      BY <2>3, ReplyType, StatusType, FullIs
    <3> QED BY <1>4, <1>5, <1>10, <3>1 DEF InsideLine
  <2>6. Len(data) >= 2
    <3>1. Len(Header(m)) \in Nat /\ Len(Header(m)) >= 4
      BY <2>3, FullIs
    <3>2. ASSUME NEW n \in Nat, NEW h \in Nat, h >= 4, n >= h PROVE n >= 2
      BY <3>2
    <3>3. CASE Len(data) = 2
      BY <3>3
    <3> QED BY <1>5, <2>5, <3>1, <3>2, <3>3
  <2>7. /\ Newline(data) = 2 /\ Line(data)[1] = reply[m].code
        /\ Len(Rest(data)) + 2 = Len(data)
        /\ \A i \in 1 .. Len(Rest(data)) : Rest(data)[i] = Full(m)[i + 2]
    BY <1>5, <2>3, <2>4, <2>6, StatusParsed
  <2>8. Full(m)' = Full(m) /\ Header(m)' = Header(m) /\ m' = m
    BY <1>2 DEF Full, Header
  <2>a. code = reply[m].code /\ code # "ValueError"
    <3>1. data # << >>
      BY <1>10, EmptySeq
    <3>2. code = reply[m].code
      BY <2>7, <3>1 DEF CodesRead
    <3> QED BY <2>3, <3>2, ReplyType DEF Codes
  <2>9. CASE reply[m].code \notin {"220", "221"}
    <3>1. step' = "failed"
      BY <1>3, <2>9, <2>a
    <3>2. reply[m].code = "451"
      BY <2>3, <2>9, ReplyType DEF Codes
    <3> QED BY <1>1, <1>2, <1>8, <2>2, <3>1, <3>2 DEF IndInv, ReadOK, FailuresOK
  <2>10. CASE reply[m].code \in {"220", "221"}
    <3>1. /\ step' = "length" /\ valid' = (reply[m].code = "220") /\ buffer' = Rest(data)
      BY <1>3, <2>10, <2>a
    <3>2. ReadOK'
      BY <1>2, <1>6, <2>2, <2>5, <2>7, <2>8, <2>10, <3>1 DEF ReadOK
    <3> QED BY <1>1, <1>8, <3>1, <3>2 DEF IndInv, FailuresOK
  <2> QED BY <2>9, <2>10
<1> QED BY <1>5, <1>9, <1>10

LEMMA ReceiveLengthKeeps ==
  ASSUME IndInv, machine \notin split', ReceiveLength
  PROVE  IndInv'
<1> DEFINE m == machine
           H == Len(Header(m))
<1>0. machine \notin split
  BY SplitOfMachine
<1>1. TypeInv /\ TypeOK /\ TypeInv'
  BY TypeReceive DEF IndInv, TypeInv
<1>2. /\ step = "length" /\ machine \in Machines
      /\ UNCHANGED <<reply, writes, killed, machine, waiting, valid, tables, shown>>
  BY <1>1 DEF ReceiveLength, TypeInv, Reading
<1>3. /\ writes[m] > 0 /\ reply[m].code \in {"220", "221"}
      /\ valid = (reply[m].code = "220")
      /\ taken[m] = 2 \/ taken[m] >= H
      /\ Len(buffer) + 2 = taken[m]
      /\ \A i \in 1 .. Len(buffer) : buffer[i] = Full(m)[i + 2]
  BY <1>0, <1>2 DEF IndInv, ReadOK
<1>4. buffer \in Seq(Units) /\ Len(buffer) \in Nat /\ taken[m] \in Nat
  BY <1>1, <1>2 DEF TypeOK
<1>5. StreamOK(m)
  BY <1>2 DEF IndInv
<1>6. /\ reply[m] \in Reply /\ \A i \in 1 .. Len(stream[m]) : stream[m][i] = Full(m)[i]
      /\ Len(stream[m]) <= Len(Full(m))
      /\ Len(stream[m]) = 2 \/ Len(stream[m]) >= H
  BY <1>2, <1>3, <1>5, StreamIs
<1>7. PICK data \in Pieces(machine, Chunk) :
        /\ Takes(machine, data)
        /\ IF Match(Line(buffer \o data)) = None
           THEN step' = "crashed" /\ UNCHANGED <<buffer, content_length>>
           ELSE /\ step' = "data" /\ content_length' = Match(Line(buffer \o data))
                /\ buffer' = Rest(buffer \o data)
  BY DEF ReceiveLength
<1>8. /\ stream' = stream /\ taken' = [taken EXCEPT ![machine] = taken[m] + Len(data)]
      /\ split \subseteq split' /\ ~InsideLine(m, taken[m] + Len(data))
  BY <1>2, <1>7, SplitGrows DEF Takes
<1>9. /\ data \in Seq(Units) /\ Len(data) \in Nat /\ taken[m] + Len(data) <= Len(stream[m])
      /\ \A i \in 1 .. Len(data) : data[i] = stream[m][taken[m] + i]
      /\ \/ Len(data) = 0 /\ AtEof(m)
         \/ Len(data) > 0
  <2>1. /\ data \in Seq(Units) /\ Len(data) \in 0 .. Chunk
        /\ taken[m] + Len(data) <= Len(stream[m])
        /\ \A i \in 1 .. Len(data) : data[i] = stream[m][taken[m] + i]
        /\ \/ Len(data) = 0 /\ AtEof(m)
           \/ Len(data) > 0
    BY <1>1, <1>2, PieceIs, ConstantsAssumption
  <2> QED BY <2>1
<1>10. /\ taken'[m] = taken[m] + Len(data)
       /\ \A k \in Machines \ {machine} : taken'[k] = taken[k]
  BY <1>1, <1>2, <1>8 DEF TypeOK
<1>11. step' \in {"data", "crashed"}
  BY <1>7
<1>12. /\ \A k \in Machines : StreamOK(k)'
       /\ TurnOK' /\ FreshOK' /\ TablesOK' /\ ShownOK'
  BY <1>2, <1>8, <1>10, <1>11, ReceiveFrame DEF Reading
<1> DEFINE total == buffer \o data
<1>13. /\ total \in Seq(Units) /\ Len(total) = Len(buffer) + Len(data)
       /\ \A i \in 1 .. Len(buffer) + Len(data) :
            total[i] = IF i <= Len(buffer) THEN buffer[i] ELSE data[i - Len(buffer)]
  BY <1>4, <1>9, ConcatProperties
<1>14. H \in Nat /\ H >= 4 /\ Len(Full(m)) \in Nat /\ Len(stream[m]) \in Nat
  <2>1. H \in Nat /\ H >= 4 /\ Full(m) \in Seq(Units)
    BY <1>6, FullIs
  <2> QED BY <1>1, <1>2, <2>1 DEF TypeOK
<1> HIDE DEF total, H
<1>15. CASE taken[m] + Len(data) >= H
  <2>1. \A i \in 1 .. Len(total) : i + 2 <= Len(Full(m)) /\ total[i] = Full(m)[i + 2]
    <3> TAKE i \in 1 .. Len(total)
    <3>1. i + 2 <= Len(Full(m))
      <4>1. i \in Nat /\ i <= Len(buffer) + Len(data)
        BY <1>4, <1>9, <1>13
      <4>2. i + 2 <= taken[m] + Len(data)
        BY <1>3, <1>4, <1>9, <4>1
      <4>3. taken[m] + Len(data) <= Len(Full(m))
        BY <1>4, <1>6, <1>9, <1>14
      <4> QED BY <1>4, <1>9, <1>14, <4>1, <4>2, <4>3
    <3>2. CASE i <= Len(buffer)
      <4>1. i \in 1 .. Len(buffer) /\ i \in 1 .. Len(buffer) + Len(data)
        BY <1>4, <1>9, <3>2
      <4>2. total[i] = buffer[i]
        BY <1>13, <3>2, <4>1
      <4>3. buffer[i] = Full(m)[i + 2]
        BY <1>3, <4>1
      <4> QED BY <3>1, <4>2, <4>3
    <3>3. CASE ~(i <= Len(buffer))
      <4>0. i \in Nat /\ i <= Len(buffer) + Len(data) /\ i > Len(buffer)
        BY <1>4, <1>9, <1>13, <3>3
      <4>1. i - Len(buffer) \in 1 .. Len(data) /\ taken[m] + (i - Len(buffer)) = i + 2
            /\ i + 2 \in 1 .. Len(stream[m])
        <5>1. i - Len(buffer) \in 1 .. Len(data)
          BY <1>4, <1>9, <4>0
        <5>2. taken[m] + (i - Len(buffer)) = i + 2
          BY <1>3, <1>4, <4>0
        <5>3. i + 2 <= taken[m] + Len(data)
          BY <1>3, <1>4, <1>9, <4>0
        <5>4. i + 2 \in 1 .. Len(stream[m])
          BY <1>4, <1>9, <1>14, <4>0, <5>3
        <5> QED BY <5>1, <5>2, <5>4
      <4>2. total[i] = data[i - Len(buffer)]
        BY <1>13, <3>3
      <4>3. data[i - Len(buffer)] = stream[m][i + 2]
        BY <1>9, <4>1
      <4> QED BY <1>6, <3>1, <4>1, <4>2, <4>3
    <3> QED BY <3>2, <3>3
  <2>2. Len(total) + 2 = taken[m] + Len(data) /\ Len(total) + 2 >= H
    <3>1. ASSUME NEW b \in Nat, NEW d \in Nat, NEW t \in Nat, NEW n, n = b + d, b + 2 = t
          PROVE  n + 2 = t + d
      BY <3>1
    <3>2. Len(total) + 2 = taken[m] + Len(data)
      BY <1>3, <1>4, <1>9, <1>13, <3>1
    <3> QED BY <1>15, <3>2
  <2>3. /\ Match(Line(total)) = Len(reply[m].data)
        /\ Len(Rest(total)) + H = Len(total) + 2
        /\ \A i \in 1 .. Len(Rest(total)) : Rest(total)[i] = reply[m].data[i]
    BY <1>6, <1>13, <2>1, <2>2, LengthParsed DEF H
  <2>4. Len(reply[m].data) # None
    BY <1>6, ReplyType, NoneAssumption
  <2>5. step' = "data" /\ content_length' = Len(reply[m].data) /\ buffer' = Rest(total)
    BY <1>7, <2>3, <2>4 DEF total
  <2>6. Len(buffer') + H = taken'[m]
    BY <1>10, <2>2, <2>3, <2>5
  <2>7. Header(m)' = Header(m) /\ m' = m /\ reply' = reply
    BY <1>2 DEF Header
  <2>8. ReadOK'
    BY <1>2, <1>3, <2>3, <2>5, <2>6, <2>7 DEF ReadOK, H
  <2> QED BY <1>1, <1>12, <2>5, <2>8 DEF IndInv, FailuresOK
<1>16. CASE ~(taken[m] + Len(data) >= H)
  <2>1. ~(taken[m] >= H) /\ taken[m] = 2
    BY <1>3, <1>4, <1>9, <1>14, <1>16
  <2>2. Len(data) = 0 /\ AtEof(m)
    <3>1. CASE Len(data) > 0
      <4>1. taken[m] + Len(data) = 2
        <5>1. Len(Status(reply[m].code)) = 2
          BY <1>6, ReplyType, StatusType
        <5>2. taken[m] + Len(data) # 0 /\ taken[m] + Len(data) < H
          BY <1>4, <1>9, <1>14, <1>16, <3>1
        <5> QED BY <1>8, <5>1, <5>2 DEF InsideLine, H
      <4>2. ASSUME NEW n \in Nat, n > 0 PROVE 2 + n # 2
        BY <4>2
      <4> QED BY <1>9, <2>1, <3>1, <4>1, <4>2
    <3> QED BY <1>9, <3>1
  <2>3. Len(stream[m]) = 2
    BY <2>1, <2>2 DEF AtEof
  <2>4. machine \in killed /\ writes[machine] < 2
    BY <1>2, <1>3, <2>2, <2>3, EndOfShort
  <2>5. Len(total) = 0
    BY <1>3, <1>4, <1>13, <2>1, <2>2
  <2>6. Line(total) = << >>
    <3>1. Line(total) \in Seq(Units) /\ Len(Line(total)) <= Len(total)
      BY <1>13, SlicesType
    <3>2. Len(Line(total)) \in Nat
      BY <3>1
    <3>3. ASSUME NEW n \in Nat, n <= 0 PROVE n = 0
      BY <3>3
    <3> QED BY <2>5, <3>1, <3>2, <3>3, EmptySeq
  <2>7. Match(Line(total)) = None
    BY <2>6 DEF Match
  <2>8. step' = "crashed"
    BY <1>7, <2>7 DEF total
  <2> QED BY <1>1, <1>2, <1>12, <2>4, <2>8 DEF IndInv, ReadOK, FailuresOK
<1> QED BY <1>15, <1>16

LEMMA ReceiveDataKeeps ==
  ASSUME IndInv, machine \notin split', ReceiveData
  PROVE  IndInv'
<1> DEFINE m == machine
           H == Len(Header(m))
           own == reply[m].data
<1>0. machine \notin split
  BY SplitOfMachine
<1>1. TypeInv /\ TypeOK /\ TypeInv'
  BY TypeReceive DEF IndInv, TypeInv
<1>2. /\ step = "data" /\ machine \in Machines
      /\ UNCHANGED <<reply, writes, killed, machine, waiting, valid, content_length,
                     tables, shown>>
  BY <1>1 DEF ReceiveData, TypeInv, Reading
<1>3. /\ writes[m] > 0 /\ reply[m].code \in {"220", "221"}
      /\ valid = (reply[m].code = "220")
      /\ content_length = Len(own)
      /\ Len(buffer) + H = taken[m]
      /\ \A i \in 1 .. Len(buffer) : buffer[i] = own[i]
  BY <1>0, <1>2 DEF IndInv, ReadOK
<1>4. /\ buffer \in Seq(Units) /\ Len(buffer) \in Nat /\ taken[m] \in Nat
      /\ taken[m] <= Len(stream[m]) /\ Len(stream[m]) \in Nat
  BY <1>1, <1>2 DEF TypeOK
<1>5. StreamOK(m)
  BY <1>2 DEF IndInv
<1>6. /\ reply[m] \in Reply /\ \A i \in 1 .. Len(stream[m]) : stream[m][i] = Full(m)[i]
      /\ Len(stream[m]) <= Len(Full(m))
  BY <1>2, <1>3, <1>5, StreamIs
<1>7. /\ H \in Nat /\ Len(own) \in Nat /\ Len(Full(m)) = H + Len(own)
      /\ \A i \in 1 .. Len(own) : Full(m)[H + i] = own[i]
  BY <1>6, FullIs, ReplyType
<1> HIDE DEF H, own
<1>8. ~(Len(buffer) > content_length)
  BY <1>3, <1>4, <1>6, <1>7
<1>9. PICK data \in Pieces(machine, Missing) :
        Takes(machine, data) /\ buffer' = buffer \o data /\ step' = "data"
  BY <1>2, <1>8 DEF ReceiveData
<1>10. /\ stream' = stream /\ taken' = [taken EXCEPT ![machine] = taken[m] + Len(data)]
       /\ split \subseteq split'
  BY <1>2, <1>9, SplitGrows DEF Takes
<1>11. Missing \in Nat
  BY <1>3, <1>4, <1>7, <1>8 DEF Missing
<1>12. /\ data \in Seq(Units) /\ Len(data) \in Nat /\ taken[m] + Len(data) <= Len(stream[m])
       /\ \A i \in 1 .. Len(data) : data[i] = stream[m][taken[m] + i]
  <2>1. /\ data \in Seq(Units) /\ Len(data) \in 0 .. Missing
        /\ taken[m] + Len(data) <= Len(stream[m])
        /\ \A i \in 1 .. Len(data) : data[i] = stream[m][taken[m] + i]
    BY <1>1, <1>2, <1>11, PieceIs
  <2> QED BY <2>1
<1>13. /\ taken'[m] = taken[m] + Len(data)
       /\ \A k \in Machines \ {machine} : taken'[k] = taken[k]
  BY <1>1, <1>2, <1>10 DEF TypeOK
<1>14. /\ \A k \in Machines : StreamOK(k)'
       /\ TurnOK' /\ FreshOK' /\ TablesOK' /\ ShownOK'
  BY <1>2, <1>9, <1>10, <1>13, ReceiveFrame DEF Reading
<1>15. /\ Len(buffer') = Len(buffer) + Len(data)
       /\ \A i \in 1 .. Len(buffer) + Len(data) :
            buffer'[i] = IF i <= Len(buffer) THEN buffer[i] ELSE data[i - Len(buffer)]
  <2>1. /\ Len(buffer \o data) = Len(buffer) + Len(data)
        /\ \A i \in 1 .. Len(buffer) + Len(data) :
             (buffer \o data)[i] = IF i <= Len(buffer) THEN buffer[i] ELSE data[i - Len(buffer)]
    BY <1>4, <1>12, ConcatProperties
  <2> QED BY <1>9, <2>1
<1>16. \A i \in 1 .. Len(buffer') : buffer'[i] = own[i]
  <2> TAKE i \in 1 .. Len(buffer')
  <2>1. CASE i <= Len(buffer)
    <3>1. i \in 1 .. Len(buffer) /\ i \in 1 .. Len(buffer) + Len(data)
      BY <1>4, <1>12, <2>1
    <3>2. buffer'[i] = buffer[i]
      BY <1>15, <2>1, <3>1
    <3>3. buffer[i] = own[i]
      BY <1>3, <3>1
    <3> QED BY <3>2, <3>3
  <2>2. CASE ~(i <= Len(buffer))
    <3>1. /\ i - Len(buffer) \in 1 .. Len(data) /\ taken[m] + (i - Len(buffer)) = H + i
          /\ H + i \in 1 .. Len(stream[m]) /\ i \in 1 .. Len(own)
      <4>1. ASSUME NEW b \in Nat, NEW d \in Nat, NEW h \in Nat, NEW r \in Nat, NEW s \in Nat,
                   NEW o \in Nat, NEW k \in 1 .. b + d,
                   b + h = r, r + d <= s, s <= h + o, ~(k <= b)
            PROVE  /\ k - b \in 1 .. d /\ r + (k - b) = h + k
                   /\ h + k \in 1 .. s /\ k \in 1 .. o
        BY <4>1
      <4>2. i \in 1 .. Len(buffer) + Len(data)
        BY <1>15
      <4>3. Len(stream[m]) <= H + Len(own)
        BY <1>6, <1>7
      <4> QED BY <1>3, <1>4, <1>7, <1>12, <2>2, <4>1, <4>2, <4>3
    <3>2. buffer'[i] = stream[m][H + i]
      BY <1>12, <1>15, <2>2, <3>1
    <3> QED BY <1>6, <1>7, <3>1, <3>2
  <2> QED BY <2>1, <2>2
<1>17. Len(buffer') + H = taken'[m]
  BY <1>3, <1>4, <1>7, <1>12, <1>13, <1>15
<1>18. Header(m)' = Header(m) /\ m' = m /\ reply' = reply
  BY <1>2 DEF Header
<1>19. ReadOK'
  BY <1>2, <1>3, <1>9, <1>16, <1>17, <1>18 DEF ReadOK, H, own
<1> QED BY <1>1, <1>9, <1>14, <1>19 DEF IndInv, FailuresOK
-----------------------------------------------------------------------------
(* The steps of the controller that go from machine to machine *)

LEMMA TargetsAre ==
  /\ Len(Targets) \in Nat /\ DOMAIN Targets = 1 .. Len(Targets)
  /\ \A i \in DOMAIN Targets : Targets[i] \in Range(Targets) /\ Targets[i] \in Machines
                               /\ Targets[i] \notin Clients
  /\ \A i, j \in DOMAIN Targets : Targets[i] = Targets[j] => i = j
  /\ \A m \in Machines : m \in Clients \/ \E i \in DOMAIN Targets : m = Targets[i]
  /\ Clients \subseteq Machines
BY TargetsAssumption DEF Range, Machines, IsInjective

LEMMA UnmarshallsKeeps ==
  ASSUME IndInv, NEW m \in Machines, Unmarshalls(m)
  PROVE  IndInv'
<1>1. TypeInv /\ TypeInv'
  BY TypeControl DEF IndInv
<1>2. /\ step = "select" /\ step' = "status" /\ machine' = m /\ waiting' = waiting \ {m}
      /\ m \in waiting /\ UNCHANGED <<daemon, locals, tables, shown>>
  BY DEF Unmarshalls
<1> USE DEF daemon, locals, tables
<1>3. \/ waiting \subseteq Clients /\ machine \notin Range(Targets)
      \/ \E k \in DOMAIN Targets : waiting = {Targets[k]}
  BY <1>2 DEF IndInv, TurnOK
<1>4. \A k \in Machines : StreamOK(k)'
  BY <1>2, StreamKept DEF IndInv
<1>5. ReadOK'
  BY <1>2 DEF IndInv, FreshOK, ReadOK
<1>6. TurnOK' /\ FreshOK'
  <2>1. CASE waiting \subseteq Clients /\ machine \notin Range(Targets)
    <3>1. m \in Clients /\ m \notin Range(Targets)
      BY <1>2, <2>1, TargetsAssumption
    <3>2. \A j \in DOMAIN Targets : taken[Targets[j]] = 0
      BY <2>1 DEF IndInv, FreshOK
    <3> QED BY <1>2, <2>1, <3>1, <3>2 DEF IndInv, TurnOK, FreshOK
  <2>2. CASE \E k \in DOMAIN Targets : waiting = {Targets[k]}
    <3>1. PICK k \in DOMAIN Targets : waiting = {Targets[k]}
      BY <2>2
    <3>2. m = Targets[k] /\ waiting' = {} /\ m \in Range(Targets)
      BY <1>2, <3>1, TargetsAre
    <3>3. TurnOK'
      BY <1>2, <3>2 DEF TurnOK
    <3>4. FreshOK'
      BY <1>2, <3>1, <3>2 DEF IndInv, FreshOK
    <3> QED BY <3>3, <3>4
  <2> QED BY <1>3, <2>1, <2>2
<1>7. TablesOK' /\ ShownOK'
  BY <1>2 DEF IndInv, TablesOK, ShownOK, Own, LastTarget
<1> QED BY <1>1, <1>2, <1>4, <1>5, <1>6, <1>7 DEF IndInv, FailuresOK

\* What is stored is the reply of the machine.
LEMMA StoreKeeps ==
  ASSUME IndInv, Store
  PROVE  IndInv'
<1> DEFINE m == machine
<1>1. TypeInv /\ TypeOK /\ TypeInv'
  BY TypeControl DEF IndInv, TypeInv
<1>2. /\ step = "data" /\ machine \in Machines /\ Len(buffer) = content_length
      /\ NextMachine /\ UNCHANGED <<daemon, machine, locals, shown>>
  BY <1>1 DEF Store, TypeInv, Reading
<1> DEFINE result == [data |-> buffer, valid |-> valid]
<1>3. ASSUME machine \notin split
      PROVE  writes[m] > 0 /\ result = Own(m)
  <2>1. /\ writes[m] > 0 /\ valid = (reply[m].code = "220")
        /\ content_length = Len(reply[m].data)
        /\ \A i \in 1 .. Len(buffer) : buffer[i] = reply[m].data[i]
    BY <1>2, <1>3 DEF IndInv, ReadOK
  <2>2. reply[m] \in Reply
    BY <1>1, <1>2, <2>1 DEF TypeInv
  <2>3. buffer = reply[m].data
    BY <1>1, <1>2, <2>1, <2>2, ReplyType, SeqEqual DEF TypeOK
  <2> QED BY <2>1, <2>3 DEF Own
<1>7. /\ m \in Clients => client_data' = [client_data EXCEPT ![m] = result]
      /\ m \notin Clients => target_data' = result /\ client_data' = client_data
  BY <1>2 DEF Store
<1> HIDE DEF result
<1>8. \A k \in Machines : StreamOK(k)'
  BY <1>2, StreamKept DEF IndInv, daemon
<1>9. m \notin waiting /\ waiting \subseteq Clients /\ (m \notin Range(Targets) \/ waiting = {})
  BY <1>2 DEF IndInv, TurnOK
<1>10. \A k \in Machines : shown[k] = None
  BY <1>2 DEF IndInv, ShownOK
<1>11. ASSUME NEW c \in Clients
      PROVE  c \in waiting \/ c \in split \/ (writes[c] > 0 /\ client_data'[c] = Own(c))
  <2>1. CASE c = m
    <3>1. client_data'[c] = result
      BY <1>1, <1>7, <2>1 DEF TypeOK
    <3> QED BY <1>3, <2>1, <3>1
  <2>2. CASE c # m
    <3>1. client_data'[c] = client_data[c]
      BY <1>1, <1>7, <2>2 DEF TypeOK
    <3>2. \/ c \in waiting
          \/ c = machine \/ c \in split
          \/ writes[c] > 0 /\ client_data[c] = Own(c)
      BY DEF IndInv, TablesOK
    <3>3. CASE writes[c] > 0 /\ client_data[c] = Own(c)
      BY <3>1, <3>3
    <3>4. c # machine
      BY <2>2
    <3> QED BY <3>2, <3>3, <3>4
  <2> QED BY <2>1, <2>2
<1>12. UNCHANGED <<reply, writes, taken, split, machine, shown>> /\ \A c : Own(c)' = Own(c)
  BY <1>2 DEF daemon, Own
<1>13. ReadOK' /\ ShownOK' /\ FailuresOK' /\ TurnOK' /\ FreshOK' /\ TablesOK'
  <2>1. CASE waiting # {} /\ step' = "select" /\ waiting' = waiting
    <3>1. TablesOK'
      BY <1>11, <1>12, <2>1 DEF TablesOK
    <3> QED BY <1>9, <1>10, <1>12, <2>1, <3>1
          DEF IndInv, ReadOK, ShownOK, FailuresOK, TurnOK, FreshOK
  <2>2. CASE /\ waiting = {} /\ step' = "select"
             /\ \E k \in DOMAIN Targets :
                  /\ waiting' = {Targets[k]}
                  /\ machine \in Clients => k = 1
                  /\ \A i \in DOMAIN Targets : machine = Targets[i] => k = i + 1
    <3>1. PICK k \in DOMAIN Targets :
            /\ waiting' = {Targets[k]}
            /\ \A i \in DOMAIN Targets : machine = Targets[i] => k = i + 1
      BY <2>2
    <3>2. ASSUME NEW j \in DOMAIN Targets, k <= j PROVE taken[Targets[j]] = 0
      <4>1. CASE m \in Clients
        BY <4>1, TargetsAssumption DEF IndInv, FreshOK
      <4>2. CASE m \notin Clients
        <5>1. PICK i \in DOMAIN Targets : m = Targets[i]
          BY <1>2, <4>2, TargetsAre
        <5>2. k = i + 1
          BY <3>1, <5>1
        <5>3. i < j
          BY <3>2, <5>2, TargetsAre
        <5> QED BY <5>1, <5>3 DEF IndInv, FreshOK
      <4> QED BY <4>1, <4>2
    <3>3. FreshOK'
      <4>1. \A x \in waiting' : taken'[x] = 0
        BY <1>12, <3>1, <3>2, TargetsAre
      <4>2. ASSUME NEW i \in DOMAIN Targets, NEW j \in DOMAIN Targets, i < j,
                   Targets[i] \in waiting' \cup {machine'}
            PROVE  taken'[Targets[j]] = 0
        <5>1. CASE Targets[i] = machine
          BY <1>12, <4>2, <5>1 DEF IndInv, FreshOK
        <5>2. CASE Targets[i] # machine
          <6>1. i = k
            BY <1>12, <3>1, <4>2, <5>2, TargetsAre
          <6>2. k <= j
            BY <4>2, <6>1, TargetsAre
          <6> QED BY <1>12, <3>2, <6>2
        <5> QED BY <5>1, <5>2
      <4>3. machine' \notin Range(Targets) => \A j \in DOMAIN Targets : taken'[Targets[j]] = 0
        BY <1>12 DEF IndInv, FreshOK
      <4> QED BY <4>1, <4>2, <4>3 DEF FreshOK
    <3>4. TurnOK'
      BY <2>2, <3>1 DEF TurnOK
    <3>5. TablesOK'
      BY <1>11, <1>12, <2>2 DEF TablesOK
    <3> QED BY <1>10, <1>12, <2>2, <3>3, <3>4, <3>5 DEF ReadOK, ShownOK, FailuresOK
  <2>3. CASE /\ waiting = {} /\ step' = "output" /\ waiting' = waiting
             /\ machine \in Clients => Len(Targets) = 0
             /\ \A i \in DOMAIN Targets : machine = Targets[i] => i = Len(Targets)
    <3>1. ASSUME Targets # << >>, LastTarget \notin split
          PROVE  writes'[LastTarget] > 0 /\ target_data' = Own(LastTarget)
      <4>1. m \notin Clients
        BY <2>3, <3>1, TargetsAre, TargetsAssumption
      <4>2. m = LastTarget
        BY <1>2, <2>3, <4>1, TargetsAre DEF LastTarget
      <4> QED BY <1>3, <1>7, <1>12, <3>1, <4>1, <4>2
    <3>2. TablesOK'
      BY <1>11, <1>12, <2>3, <3>1 DEF TablesOK, LastTarget
    <3>3. TurnOK'
      BY <2>3 DEF TurnOK
    <3>4. FreshOK'
      BY <1>12, <2>3 DEF IndInv, FreshOK
    <3> QED BY <1>10, <1>12, <2>3, <3>2, <3>3, <3>4 DEF ReadOK, ShownOK, FailuresOK
  <2> QED BY <1>2, <2>1, <2>2, <2>3, NextMachineIs
<1> QED BY <1>1, <1>8, <1>13 DEF IndInv

LEMMA OutputKeeps ==
  ASSUME IndInv, Output
  PROVE  IndInv'
<1>1. TypeInv' /\ step = "output"
  BY TypeControl DEF IndInv, Output
<1>2. /\ UNCHANGED <<daemon, step, machine, waiting, locals, tables>>
      /\ shown' = [m \in Machines |-> IF m \in Clients THEN client_data[m] ELSE target_data]
  BY DEF Output
<1>3. /\ \A m \in Machines : StreamOK(m)'
      /\ ReadOK' /\ TurnOK' /\ FreshOK' /\ TablesOK' /\ FailuresOK'
  <2> USE DEF daemon, locals, tables
  <2>1. \A m \in Machines : StreamOK(m)'
    BY <1>2, StreamKept DEF IndInv
  <2>2. ReadOK' /\ FailuresOK'
    BY <1>1, <1>2 DEF IndInv, ReadOK, FailuresOK
  <2>3. TurnOK' /\ FreshOK'
    BY <1>2 DEF IndInv, TurnOK, FreshOK
  <2>4. TablesOK'
    BY <1>2 DEF IndInv, TablesOK, Own, LastTarget
  <2> QED BY <2>1, <2>2, <2>3, <2>4
<1>4. \A m : Own(m)' = Own(m)
  BY <1>2 DEF Own, daemon
<1>5. \A c \in Clients \ split : client_data[c] = Own(c)
  BY <1>1 DEF IndInv, TablesOK, TurnOK
<1>6. ASSUME NEW m \in Machines \ Clients, LastTarget \notin split PROVE target_data = Own(LastTarget)
  <2>1. Targets # << >>
    BY TargetsAre, TargetsAssumption
  <2> QED BY <1>1, <1>6, <2>1 DEF IndInv, TablesOK
<1>7. ShownOK'
  <2>1. \A c \in Clients \ split : shown'[c] = Own(c)
    BY <1>2, <1>5, TargetsAre
  <2>2. LastTarget \notin split => \A m \in Machines \ Clients : shown'[m] = Own(LastTarget)
    BY <1>2, <1>6
  <2>3. split' = split
    BY <1>2 DEF daemon
  <2> QED BY <1>1, <1>2, <1>4, <2>1, <2>2, <2>3 DEF ShownOK, LastTarget
<1> QED BY <1>1, <1>3, <1>7 DEF IndInv
\* The plugin refuses data, or fails to print it: nothing more is done.
LEMMA PluginFailsKeeps ==
  ASSUME IndInv, PluginFails
  PROVE  IndInv'
<1>1. TypeInv' /\ step \in {"data", "output"} /\ step' = "rejected"
      /\ UNCHANGED <<daemon, machine, waiting, locals, tables, shown>>
  BY TypeControl DEF IndInv, PluginFails
<1> USE DEF daemon, locals, tables
<1>2. \A m \in Machines : StreamOK(m)'
  BY <1>1, StreamKept DEF IndInv
<1>3. \A m \in Machines : shown[m] = None
  BY DEF PluginFails, IndInv, ShownOK
<1>4. TurnOK' /\ FreshOK'
  BY <1>1 DEF IndInv, TurnOK, FreshOK
<1>5. TablesOK'
  BY <1>1 DEF IndInv, TablesOK, Own
<1> QED BY <1>1, <1>2, <1>3, <1>4, <1>5 DEF IndInv, ReadOK, ShownOK, FailuresOK

-----------------------------------------------------------------------------
LEMMA IndInit == Init => IndInv
<1> SUFFICES ASSUME Init PROVE IndInv
  OBVIOUS
<1>1. TypeInv
  BY TypeInit
<1>2. \A m \in Machines : StreamOK(m) /\ taken[m] = 0 /\ shown[m] = None
  BY DEF Init, StreamOK
<1>3. ReadOK /\ FailuresOK /\ ShownOK /\ TablesOK
  BY <1>2 DEF Init, ReadOK, FailuresOK, ShownOK, TablesOK
<1>4. TurnOK /\ FreshOK
  <2>1. waiting = Clients /\ machine \notin Range(Targets) /\ step = "select"
    BY NoneAssumption DEF Init
  <2> QED BY <1>2, <2>1, TargetsAre DEF TurnOK, FreshOK
<1> QED BY <1>1, <1>2, <1>3, <1>4 DEF IndInv

LEMMA IndStep ==
  ASSUME IndInv, [Next]_vars
  PROVE  IndInv'
<1>1. CASE \E m \in Machines : DaemonStep(m)
  BY <1>1, DaemonKeeps
<1>2. CASE Controller
  BY <1>2, UnmarshallsKeeps, ReceiveSplitKeeps, ReceiveStatusKeeps, ReceiveLengthKeeps,
     ReceiveDataKeeps, StoreKeeps, OutputKeeps, PluginFailsKeeps DEF Controller
<1>3. CASE UNCHANGED vars
  <2>1. TypeInv'
    BY <1>3, TypeStep DEF IndInv
  <2>2. UNCHANGED <<reply, writes, killed, stream, taken, split, step, machine, waiting, valid, buffer,
                    content_length, client_data, target_data, shown>>
    BY <1>3 DEF vars, daemon, locals, tables
  <2>3. ASSUME NEW m \in Machines PROVE StreamOK(m)'
    <3>1. StreamOK(m)
      BY DEF IndInv
    <3>2. Header(m)' = Header(m) /\ Full(m)' = Full(m)
      BY <2>2 DEF Header, Full
    <3> QED BY <2>2, <3>1, <3>2 DEF StreamOK
  <2>4. ReadOK' /\ FailuresOK'
    BY <2>2 DEF IndInv, ReadOK, FailuresOK, Header, Full
  <2>5. TurnOK' /\ FreshOK'
    BY <2>2 DEF IndInv, TurnOK, FreshOK
  <2>6. TablesOK'
    BY <2>2 DEF IndInv, TablesOK, Own, LastTarget
  <2>7. ShownOK'
    BY <2>2 DEF IndInv, ShownOK, Own, LastTarget
  <2> QED BY <2>1, <2>3, <2>4, <2>5, <2>6, <2>7 DEF IndInv
<1> QED BY <1>1, <1>2, <1>3 DEF Next, DaemonStep

LEMMA Invariance == Spec => []IndInv
<1>1. IndInv /\ [Next]_vars => IndInv'
  BY IndStep
<1> QED BY <1>1, IndInit, PTL DEF Spec
-----------------------------------------------------------------------------
\* However many targets there are: what output() gets for a client is that client's
\* reply, complete and unmixed; for every target it is the reply of the last one,
\* which the one target_data of the plugin holds.  A machine of which a recv() ended
\* inside a line may have any data, and only that machine.
TargetsShareTheLast ==
  (\E m \in Machines : shown[m] # None) =>
    /\ \A c \in Clients \ split : shown[c] = Own(c)
    /\ LastTarget \notin split => \A m \in Machines \ Clients : shown[m] = Own(LastTarget)

\* Any number of clients and targets and any pieces: whose two lines were received
\* whole gets all of his own data and nothing of another's, whatever became of the
\* others' lines.
THEOREM UnmarshallShown == Spec => []TargetsShareTheLast
<1>1. IndInv => TargetsShareTheLast
  BY DEF IndInv, ShownOK, TargetsShareTheLast
<1> QED BY <1>1, Invariance, PTL

\* With one target at most, the data of every machine whose lines were received whole
\* is output as its own.
THEOREM UnmarshallOutputIsOwn ==
  ASSUME Len(Targets) <= 1
  PROVE  Spec => []OutputIsOwn
<1>1. ASSUME NEW m \in Machines \ Clients PROVE m = LastTarget
  <2>1. PICK i \in DOMAIN Targets : m = Targets[i]
    BY TargetsAre
  <2>2. i = Len(Targets)
    BY TargetsAre
  <2> QED BY <2>1, <2>2 DEF LastTarget
<1>2. TargetsShareTheLast => OutputIsOwn
  BY <1>1 DEF TargetsShareTheLast, OutputIsOwn
<1> QED BY <1>2, UnmarshallShown, PTL

\* unmarshall() fails for what the daemon did, and for how a reply was cut only if a
\* recv() for that reply ended inside its status or its length line.
THEOREM UnmarshallFailures == Spec => []FailuresHaveCauses
<1>1. IndInv => FailuresHaveCauses
  BY DEF IndInv, FailuresOK, FailuresHaveCauses
<1> QED BY <1>1, Invariance, PTL
=============================================================================

-------------------------- MODULE IpSessions_proofs --------------------------
(***************************************************************************)
(* Proofs about IpSessions, for every length of messages and packets,      *)
(* every modulus of the numbers, every timeout and every set of scenarios. *)
(***************************************************************************)
EXTENDS IpSessions, SequenceTheorems, FiniteSetTheorems, WellFoundedInduction, TLAPS

-----------------------------------------------------------------------------
(* Whole messages at the head of a buffer.                                 *)
LEMMA Minimum ==
  ASSUME NEW T, T \subseteq Nat, T # {}
  PROVE  \E x \in T : \A y \in T : x <= y
<1> DEFINE R == {ss \in Nat \X Nat : ss[1] < ss[2]}
<1>1. IsWellFoundedOn(R, Nat)
  BY NatLessThanWellFounded DEF OpToRel
<1>2. \A x, y \in T : x \in Nat /\ y \in Nat /\ (y < x => <<y, x>> \in R)
  OBVIOUS
<1> HIDE DEF R
<1>3. \E x \in T : \A y \in T : ~ (<<y, x>> \in R)
  BY <1>1, WFMin
<1>4. \A x, y \in T : ~ (<<y, x>> \in R) => x <= y
  BY <1>2
<1>5. QED
  BY <1>3, <1>4

(* Steps of the length of a message.                                       *)
LEMMA Multiples ==
  ASSUME NEW m \in Positive
  PROVE  /\ \A k \in Nat : k * m \in Nat /\ k <= k * m
         /\ \A j, k \in Nat : j < k => (j + 1) * m <= k * m
         /\ \A k \in Nat : (k + 1) * m = k * m + m
<1> USE DEF Positive
<1>1. \A k \in Nat : (k + 1) * m = k * m + m
  OBVIOUS
<1>2. \A k \in Nat : k * m \in Nat /\ k <= k * m
  OBVIOUS
<1>3. \A j, k \in Nat : j < k => (j + 1) * m <= k * m
  <2> TAKE j, k \in Nat
  <2> HAVE j < k
  <2>1. k - (j + 1) \in Nat /\ k = (j + 1) + (k - (j + 1))
    OBVIOUS
  <2>2. (k - (j + 1)) * m \in Nat
    BY <2>1
  <2>3. k * m = (j + 1) * m + (k - (j + 1)) * m
    OBVIOUS
  <2>4. QED
    BY <2>2, <2>3
<1>4. QED
  BY <1>1, <1>2, <1>3

WholeAt(b, j) == (j + 1) * MessageLength <= Len(b) /\ IsHeader(b[j * MessageLength + 1])

LEMMA WholeMessagesFacts ==
  ASSUME IpSessionsAssumption, NEW b, Len(b) \in Nat
  PROVE  /\ WholeMessages(b) \in 0..Len(b)
         /\ \A j \in 0..(WholeMessages(b) - 1) : WholeAt(b, j)
         /\ WholeMessages(b) * MessageLength <= Len(b)
<1> DEFINE T == {j \in Nat : ~ WholeAt(b, j)}
<1>1. MessageLength \in Positive
  BY DEF IpSessionsAssumption
<1>2. Len(b) \in T
  <2>1. Len(b) + 1 <= (Len(b) + 1) * MessageLength
    BY <1>1, Multiples
  <2>2. (Len(b) + 1) * MessageLength \in Nat
    BY <1>1, Multiples
  <2>3. QED
    BY <2>1, <2>2 DEF WholeAt
<1>3. PICK k \in T : \A y \in T : k <= y
  BY <1>2, Minimum
<1>4. k \in 0..Len(b) /\ (\A j \in 0..(k - 1) : WholeAt(b, j)) /\ ~ WholeAt(b, k)
  BY <1>2, <1>3
<1>5. WholeMessages(b) =
        CHOOSE n \in 0..Len(b) : (\A j \in 0..(n - 1) : WholeAt(b, j)) /\ ~ WholeAt(b, n)
  BY DEF WholeMessages, WholeAt
<1>6. /\ WholeMessages(b) \in 0..Len(b)
      /\ \A j \in 0..(WholeMessages(b) - 1) : WholeAt(b, j)
  BY <1>4, <1>5
<1>7. WholeMessages(b) * MessageLength <= Len(b)
  <2>1. CASE WholeMessages(b) = 0
    <3>1. 0 * MessageLength = 0
      BY <1>1 DEF Positive
    <3>2. QED
      BY <2>1, <3>1
  <2>2. CASE WholeMessages(b) # 0
    <3>1. WholeMessages(b) - 1 \in 0..(WholeMessages(b) - 1)
      BY <1>6, <2>2
    <3>2. WholeAt(b, WholeMessages(b) - 1)
      BY <1>6, <3>1
    <3>3. WholeMessages(b) - 1 + 1 = WholeMessages(b)
      BY <1>6
    <3>4. QED
      BY <3>2, <3>3 DEF WholeAt
  <2>3. QED
    BY <2>1, <2>2
<1>8. QED
  BY <1>6, <1>7

(* The messages a dispatcher takes stand one after the other at the head.  *)
LEMMA AnalysedFacts ==
  ASSUME IpSessionsAssumption, NEW b, Len(b) \in Nat
  PROVE  /\ Analysed(b) \in Nat
         /\ Analysed(b) * MessageLength \in Nat /\ Analysed(b) * MessageLength <= Len(b)
         /\ \A j \in 1..Analysed(b) : IsHeader(b[(j - 1) * MessageLength + 1])
<1>1. MessageLength \in Positive
  BY DEF IpSessionsAssumption
<1> DEFINE w == WholeMessages(b)
<1>2. w \in Nat /\ (\A j \in 0..(w - 1) : WholeAt(b, j)) /\ w * MessageLength <= Len(b)
  BY WholeMessagesFacts
<1> HIDE DEF w
<1>3. Analysed(b) \in Nat /\ Analysed(b) <= w
  <2> DEFINE ends == {j \in 1..w : TurnedDown(b, j)}
             a == CHOOSE j \in ends : \A i \in ends : j <= i
  <2>1. Analysed(b) = IF Protocol # "AFP" THEN IF w = 0 THEN 0 ELSE 1 ELSE IF ends = {} THEN w ELSE a
    BY DEF Analysed, w
  <2>2. ends # {} => a \in 1..w
    <3>1. ends \subseteq Nat /\ ends \subseteq 1..w
      BY <1>2
    <3> HIDE DEF ends
    <3>2. ends # {} => a \in ends
      BY <3>1, Minimum
    <3>3. QED
      BY <3>1, <3>2
  <2> HIDE DEF ends, a
  <2>3. QED
    BY <1>2, <2>1, <2>2
<1>4. Analysed(b) \in Nat
  BY <1>3
<1>5. Analysed(b) * MessageLength \in Nat /\ w * MessageLength \in Nat
  BY <1>1, <1>2, <1>4, Multiples
<1>6. Analysed(b) * MessageLength <= w * MessageLength
  <2>1. CASE Analysed(b) = w
    BY <2>1, <1>5
  <2>2. CASE Analysed(b) < w
    <3>1. (Analysed(b) + 1) * MessageLength <= w * MessageLength
      BY <1>1, <1>2, <1>4, <2>2, Multiples
    <3>2. (Analysed(b) + 1) * MessageLength = Analysed(b) * MessageLength + MessageLength
      BY <1>1, <1>4, Multiples
    <3>3. QED
      BY <1>1, <1>5, <3>1, <3>2 DEF Positive
  <2>3. QED
    BY <1>2, <1>3, <1>4, <2>1, <2>2
<1>7. \A j \in 1..Analysed(b) : IsHeader(b[(j - 1) * MessageLength + 1])
  <2> TAKE j \in 1..Analysed(b)
  <2>1. j - 1 \in 0..(w - 1)
    BY <1>2, <1>3, <1>4
  <2>2. WholeAt(b, j - 1)
    BY <1>2, <2>1
  <2>3. QED
    BY <2>2 DEF WholeAt
<1>8. QED
  BY <1>2, <1>4, <1>5, <1>6, <1>7

(* Where the messages of First start, and what After leaves.               *)
LEMMA FirstFacts ==
  ASSUME IpSessionsAssumption, NEW S, NEW b \in Seq(S), NEW k \in Nat, k * MessageLength <= Len(b)
  PROVE  /\ First(b, k) \in Seq(Seq(S)) /\ DOMAIN First(b, k) = 1..k
         /\ \A j \in 1..k :
              /\ (j - 1) * MessageLength + 1 \in 1..(k * MessageLength)
              /\ First(b, k)[j][1] = b[(j - 1) * MessageLength + 1]
<1>1. MessageLength \in Positive /\ Len(b) \in Nat
  BY DEF IpSessionsAssumption
<1>2. ASSUME NEW j \in 1..k
      PROVE  /\ (j - 1) * MessageLength \in Nat
             /\ j * MessageLength = (j - 1) * MessageLength + MessageLength
             /\ j * MessageLength <= k * MessageLength /\ k * MessageLength \in Nat
  <2>1. j - 1 \in Nat /\ j - 1 < k /\ j - 1 + 1 = j
    OBVIOUS
  <2>2. QED
    BY <1>1, <2>1, Multiples
<1>3. ASSUME NEW j \in 1..k
      PROVE  /\ (j - 1) * MessageLength + 1 \in 1..(k * MessageLength)
             /\ SubSeq(b, (j - 1) * MessageLength + 1, j * MessageLength) \in Seq(S)
             /\ SubSeq(b, (j - 1) * MessageLength + 1, j * MessageLength)[1]
                  = b[(j - 1) * MessageLength + 1]
  <2> DEFINE m == (j - 1) * MessageLength + 1
             n == j * MessageLength
  <2>1. m \in Nat /\ n \in Nat /\ 1 <= m /\ m <= n /\ n <= k * MessageLength /\ n <= Len(b)
        /\ k * MessageLength \in Nat
    BY <1>1, <1>2 DEF Positive
  <2> HIDE DEF m, n
  <2>2. \A i \in m..n : b[i] \in S
    BY <1>1, <2>1, ElementOfSeq
  <2>3. SubSeq(b, m, n) \in Seq(S) /\ SubSeq(b, m, n)[1] = b[m]
    <3>1. 1 \in 1..(n - m + 1) /\ m + 1 - 1 = m /\ m \in Int /\ n \in Int
      BY <2>1
    <3>2. SubSeq(b, m, n) \in Seq(S) /\ \A i \in 1..(n - m + 1) : SubSeq(b, m, n)[i] = b[m + i - 1]
      BY <2>2, <3>1, SubSeqProperties
    <3>3. QED
      BY <3>1, <3>2
  <2>4. m \in 1..(k * MessageLength)
    BY <2>1
  <2>5. QED
    BY <2>3, <2>4 DEF m, n
<1>4. First(b, k) \in Seq(Seq(S))
  <2>1. First(b, k) \in [1..k -> Seq(S)]
    BY <1>3 DEF First
  <2>2. QED
    BY <2>1, SeqDef
<1>5. QED
  BY <1>3, <1>4 DEF First

LEMMA AfterFacts ==
  ASSUME IpSessionsAssumption, NEW S, NEW b \in Seq(S), NEW k \in Nat, k * MessageLength <= Len(b)
  PROVE  /\ After(b, k) \in Seq(S)
         /\ \A i \in 1..Len(After(b, k)) :
              i + k * MessageLength \in 1..Len(b) /\ After(b, k)[i] = b[i + k * MessageLength]
<1> DEFINE m == k * MessageLength
<1>1. m \in Nat /\ Len(b) \in Nat /\ m <= Len(b)
  <2>1. MessageLength \in Positive
    BY DEF IpSessionsAssumption
  <2>2. QED
    BY <2>1, Multiples
<1> HIDE DEF m
<1>2. \A i \in (m + 1)..Len(b) : b[i] \in S
  BY <1>1, ElementOfSeq
<1>3. /\ SubSeq(b, m + 1, Len(b)) \in Seq(S)
      /\ Len(SubSeq(b, m + 1, Len(b))) = IF m + 1 <= Len(b) THEN Len(b) - (m + 1) + 1 ELSE 0
      /\ \A i \in 1..(Len(b) - (m + 1) + 1) : SubSeq(b, m + 1, Len(b))[i] = b[m + 1 + i - 1]
  <2>1. m + 1 \in Int /\ Len(b) \in Int
    BY <1>1
  <2>2. QED
    BY <1>2, <2>1, SubSeqProperties
<1>4. \A i \in 1..Len(SubSeq(b, m + 1, Len(b))) :
        /\ i + m \in 1..Len(b) /\ i \in 1..(Len(b) - (m + 1) + 1) /\ m + 1 + i - 1 = i + m
  BY <1>1, <1>3
<1>5. QED
  BY <1>3, <1>4 DEF After, m

LEMMA LeftIsAfter ==
  ASSUME NEW b
  PROVE  Left(b) \in {<<>>, After(b, Analysed(b))}
  BY DEF Left

-----------------------------------------------------------------------------
(* The type invariant. There is one session at most.                       *)
Kinds == {"lost", "repeated", "reloads", "clockBacks"}
WireOK ==
  /\ scenario \in Scenarios
  /\ conn \in 1..scenario.connections /\ sent \in [Dirs -> 0..StreamLength]
  /\ finished \subseteq Dirs /\ clock \in 0..scenario.hours /\ target \in BOOLEAN
  /\ faults \in [Kinds -> Nat]
TableOK == table \subseteq Sessions /\ \A s, t \in table : s = t
ResultOK == out \in Seq(Seq(Units)) /\ heard \in (-Timeout)..scenario.hours
TypeInv == WireOK /\ TableOK /\ ResultOK

LEMMA ScenarioFacts ==
  ASSUME IpSessionsAssumption, scenario \in Scenarios
  PROVE  /\ scenario.connections \in Positive /\ scenario.messages \in Nat
         /\ StreamLength \in Nat /\ scenario.segments \subseteq Positive /\ scenario.hours \in Nat
         /\ scenario.firstNumber \in [1..scenario.connections -> 0..(WireModulus - 1)]
<1>1. /\ scenario.connections \in Positive /\ scenario.messages \in Nat
      /\ scenario.segments \subseteq Positive /\ scenario.hours \in Nat
      /\ scenario.firstNumber \in [1..scenario.connections -> 0..(WireModulus - 1)]
      /\ MessageLength \in Positive
  BY DEF IpSessionsAssumption
<1>2. StreamLength \in Nat
  BY <1>1, Multiples DEF StreamLength
<1>3. QED
  BY <1>1, <1>2

LEMMA UnitsFacts ==
  ASSUME IpSessionsAssumption, WireOK, NEW d \in Dirs, NEW from \in Nat, NEW n \in Nat,
         from + n <= StreamLength
  PROVE  /\ UnitsOf(conn, d, from, n) \in Seq(Units) /\ Len(UnitsOf(conn, d, from, n)) = n
         /\ \A i \in 1..n : UnitsOf(conn, d, from, n)[i] = <<conn, d, from + i - 1>>
<1>1. StreamLength \in Nat /\ conn \in 1..scenario.connections
  BY ScenarioFacts DEF WireOK
<1>2. \A i \in 1..n : <<conn, d, from + i - 1>> \in Units
  BY <1>1 DEF Units
<1>3. UnitsOf(conn, d, from, n) \in [1..n -> Units]
  BY <1>2 DEF UnitsOf
<1>4. UnitsOf(conn, d, from, n) \in Seq(Units)
  BY <1>3, SeqDef
<1>5. Len(UnitsOf(conn, d, from, n)) = n
  BY <1>3, <1>4, LenProperties
<1>6. QED
  BY <1>4, <1>5 DEF UnitsOf

LEMMA NumberFacts ==
  ASSUME IpSessionsAssumption, WireOK, NEW pos \in Nat
  PROVE  NumberOf(conn, pos) \in Nat
<1>1. scenario.firstNumber[conn] \in Nat /\ WireModulus \in Positive
  <2>1. scenario.firstNumber \in [1..scenario.connections -> 0..(WireModulus - 1)]
        /\ conn \in 1..scenario.connections /\ WireModulus \in Positive
    BY ScenarioFacts DEF WireOK, IpSessionsAssumption
  <2>2. scenario.firstNumber[conn] \in 0..(WireModulus - 1)
    BY <2>1
  <2>3. QED
    BY <2>1, <2>2 DEF Positive
<1>2. WireNumber(conn, pos) \in Nat
  BY <1>1 DEF WireNumber, Positive
<1>3. LongModulus - WireModulus \in Nat
  BY DEF IpSessionsAssumption, Positive
<1>4. QED
  BY <1>2, <1>3 DEF NumberOf, BE4

LEMMA LookupFacts ==
  ASSUME IpSessionsAssumption, WireOK, TableOK
  PROVE  /\ Lookup \in Sessions
         /\ table = {} => Lookup = NewSession
         /\ table # {} => table = {Lookup}
<1>1. CASE table = {}
  <2>1. 0 \in 0..(LongModulus - 1)
    BY DEF IpSessionsAssumption, Positive
  <2>2. NewStream \in Streams
    BY <2>1, EmptySeq DEF NewStream, Streams
  <2>3. [d \in Dirs |-> NewStream] \in [Dirs -> Streams]
    BY <2>2
  <2>4. NewSession \in Sessions
    BY <2>3 DEF NewSession, Sessions, WireOK
  <2>5. QED
    BY <1>1, <2>4 DEF Lookup
<1>2. CASE table # {}
  <2>1. PICK t \in table : TRUE
    BY <1>2
  <2>2. table = {t} /\ t \in Sessions
    BY <2>1 DEF TableOK
  <2>3. Lookup \in table
    BY <1>2, <2>1 DEF Lookup
  <2>4. QED
    BY <1>2, <2>2, <2>3
<1>3. QED
  BY <1>1, <1>2

LEMMA ReceiveFacts ==
  ASSUME IpSessionsAssumption, NEW st \in Streams, NEW number \in Nat, NEW units \in Seq(Units)
  PROVE  /\ Receive(st, number, units) \in Streams
         /\ units = <<>> => Receive(st, number, units) = st
         /\ units # <<>> => Receive(st, number, units).buffer \in {units, st.buffer \o units}
<1>1. st.buffer \o units \in Seq(Units)
  BY ConcatProperties DEF Streams
<1>2. (number + Len(units)) % LongModulus \in 0..(LongModulus - 1)
  <2>1. Len(units) \in Nat /\ LongModulus \in Nat \ {0}
    BY DEF IpSessionsAssumption, Positive
  <2>2. QED
    BY <2>1
<1>3. CASE units = <<>>
  BY <1>3 DEF Receive
<1>4. CASE units # <<>> /\ st.valid /\ st.sequence # number
  BY <1>4 DEF Receive, Streams
<1>5. CASE units # <<>> /\ ~ (st.valid /\ st.sequence # number)
  BY <1>1, <1>2, <1>5 DEF Receive, Streams
<1>6. QED
  BY <1>3, <1>4, <1>5

(* What a packet does. It is not analysed, and the session stays or is new *)
(* but for the mark; or a buffer b is, and the session has what is left.   *)
Ignored(fin) ==
  /\ out' = <<>> /\ seen' = seen /\ heard' = heard
  /\ table' = {[Lookup EXCEPT !.FIN_received = @ \/ fin]}
Updated(s, d, b) ==
  /\ s.lastupdate = clock /\ s.FIN_received = Lookup.FIN_received
  /\ s.stream[d].buffer = Left(b)
  /\ \A e \in Dirs \ {d} : s.stream[e] = Lookup.stream[e]
Taken(d, b) ==
  /\ heard' = clock /\ Found(First(b, Analysed(b)))
  /\ table' = {} \/ \E s \in Sessions : table' = {s} /\ Updated(s, d, b)
Buffers(d, units) ==
  IF units = <<>> THEN {Lookup.stream[d].buffer} ELSE {units, Lookup.stream[d].buffer \o units}

(* A session with another stream, mark and time of the last packet.        *)
Session(stream, lastupdate, fin, mask) ==
  [stream |-> stream, lastupdate |-> lastupdate, FIN_received |-> fin, mask |-> mask]
Renewed(o, d, st, m, time) == [[o EXCEPT !.stream[d] = st, !.mask = m] EXCEPT !.lastupdate = time]

LEMMA SessionFields ==
  ASSUME NEW stream, NEW lastupdate, NEW fin, NEW mask
  PROVE  /\ Session(stream, lastupdate, fin, mask).stream = stream
         /\ Session(stream, lastupdate, fin, mask).lastupdate = lastupdate
         /\ Session(stream, lastupdate, fin, mask).FIN_received = fin
         /\ Session(stream, lastupdate, fin, mask).mask = mask
BY DEF Session

LEMMA UpdateFacts ==
  ASSUME NEW o \in Sessions, NEW d \in Dirs, NEW st \in Streams, NEW m \in BOOLEAN,
         NEW time \in 0..scenario.hours
  PROVE  /\ Renewed(o, d, st, m, time) \in Sessions
         /\ Renewed(o, d, st, m, time).lastupdate = time
         /\ Renewed(o, d, st, m, time).FIN_received = o.FIN_received
         /\ Renewed(o, d, st, m, time).mask = m
         /\ Renewed(o, d, st, m, time).stream[d] = st
         /\ \A e \in Dirs \ {d} : Renewed(o, d, st, m, time).stream[e] = o.stream[e]
<1> DEFINE f == [o.stream EXCEPT ![d] = st]
<1>1. /\ f \in [Dirs -> Streams] /\ f[d] = st
      /\ \A e \in Dirs \ {d} : f[e] = o.stream[e]
  BY DEF Sessions
<1>2. Renewed(o, d, st, m, time) = Session(f, time, o.FIN_received, m)
  <2> SUFFICES ASSUME NEW s, s = [[o EXCEPT !.stream[d] = st, !.mask = m] EXCEPT !.lastupdate = time]
              PROVE  s = [stream |-> f, lastupdate |-> time, FIN_received |-> o.FIN_received, mask |-> m]
    BY DEF Renewed, Session
  <2>1. QED
    BY DEF Sessions
<1> HIDE DEF f
<1>3. Session(f, time, o.FIN_received, m) \in Sessions
  BY <1>1 DEF Sessions, Session
<1>4. QED
  BY <1>1, <1>2, <1>3, SessionFields

(* A packet that is analysed: the stream st that received it keeps what is *)
(* left of its buffer, in a session that is marked, or there is no session. *)
Stays(b) == (Lookup.mask \/ (b # <<>> /\ Marked(b))) /\ ~ LogsOff(b)
Analyses(d, st) ==
  /\ heard' = clock /\ Found(First(st.buffer, Analysed(st.buffer)))
  /\ \/ table' = {} /\ ~ Stays(st.buffer)
     \/ \E s \in Sessions :
          /\ table' = {s} /\ Updated(s, d, st.buffer)
          /\ s.mask /\ s.stream[d] = [st EXCEPT !.buffer = Left(st.buffer)]

LEMMA DispatchAnalyses ==
  ASSUME IpSessionsAssumption, TypeInv, NEW d \in Dirs, NEW number \in Nat,
         NEW units \in Seq(Units), Dispatch(d, number, units, FALSE), target
  PROVE  /\ Receive(Lookup.stream[d], number, units) \in Streams
         /\ Analyses(d, Receive(Lookup.stream[d], number, units))
<1> DEFINE old == Lookup
           received == Receive(old.stream[d], number, units)
           b == received.buffer
           new == [old EXCEPT !.stream[d] = [received EXCEPT !.buffer = Left(b)],
                              !.mask = (@ \/ (b # <<>> /\ Marked(b))) /\ ~LogsOff(b)]
<1>1. old \in Sessions /\ old.stream[d] \in Streams
  BY LookupFacts DEF TypeInv, Sessions
<1>2. received \in Streams
  BY <1>1, ReceiveFacts
<1>3. b \in Seq(Units)
  BY <1>2 DEF Streams
<1>4. /\ table' = IF new.mask THEN {Refreshed(new)} ELSE {}
      /\ Found(First(b, Analysed(b))) /\ heard' = clock
  BY DEF Dispatch
<1>5. Left(b) \in Seq(Units)
  <2>1. Len(b) \in Nat
    BY <1>3
  <2>2. Analysed(b) \in Nat /\ Analysed(b) * MessageLength <= Len(b)
    BY <2>1, AnalysedFacts
  <2>3. After(b, Analysed(b)) \in Seq(Units)
    BY <1>3, <2>2, AfterFacts
  <2>4. QED
    BY <2>3, LeftIsAfter, EmptySeq
<1>6. [received EXCEPT !.buffer = Left(b)] \in Streams
      /\ [received EXCEPT !.buffer = Left(b)].buffer = Left(b)
  <2> HIDE DEF received
  <2>1. QED
    BY <1>2, <1>5 DEF Streams
<1> DEFINE stream == [received EXCEPT !.buffer = Left(b)]
           mark == (old.mask \/ (b # <<>> /\ Marked(b))) /\ ~ LogsOff(b)
           s == Refreshed(new)
<1>7. new = [old EXCEPT !.stream[d] = stream, !.mask = mark]
  OBVIOUS
<1>8. mark \in BOOLEAN
  OBVIOUS
<1>9. stream \in Streams /\ stream.buffer = Left(b) /\ clock \in 0..scenario.hours
  BY <1>6 DEF TypeInv, WireOK
<1>10. new.mask = mark
  <2>1. "mask" \in DOMAIN old
    BY <1>1 DEF Sessions
  <2> HIDE DEF stream, mark, old, b, received
  <2>2. QED
    BY <1>7, <2>1
<1>11. /\ s \in Sessions /\ s.lastupdate = clock /\ s.FIN_received = old.FIN_received
       /\ s.mask = mark /\ s.stream[d] = stream /\ \A e \in Dirs \ {d} : s.stream[e] = old.stream[e]
  <2>1. s = Renewed(old, d, stream, mark, clock)
    BY <1>7 DEF Refreshed, Renewed
  <2> HIDE DEF new, received, stream, mark, old, s, b
  <2>2. QED
    BY <1>1, <1>8, <1>9, <2>1, UpdateFacts
<1>12. Updated(s, d, b)
  <2> HIDE DEF new, received, stream, mark, s, b
  <2>1. QED
    BY <1>9, <1>11 DEF Updated, old
<1>13. CASE mark
  <2>1. table' = {s}
    BY <1>4, <1>10, <1>13
  <2> HIDE DEF s, new
  <2>2. s \in Sessions /\ s.mask /\ s.stream[d] = stream
    BY <1>11, <1>13
  <2>3. QED
    BY <1>2, <1>4, <1>12, <2>1, <2>2 DEF Analyses
<1>14. CASE ~ mark
  <2>1. table' = {} /\ ~ Stays(b)
    BY <1>4, <1>10, <1>14 DEF Stays
  <2>2. QED
    BY <1>2, <1>4, <2>1 DEF Analyses
<1>15. QED
  BY <1>13, <1>14

LEMMA DispatchFacts ==
  ASSUME IpSessionsAssumption, TypeInv, NEW d \in Dirs, NEW number \in Nat,
         NEW units \in Seq(Units), NEW fin \in BOOLEAN, Dispatch(d, number, units, fin)
  PROVE  Ignored(fin) \/ (~ fin /\ \E b \in Buffers(d, units) : b \in Seq(Units) /\ Taken(d, b))
<1>1. CASE fin \/ ~ target
  <2>1. /\ table' = {[Lookup EXCEPT !.FIN_received = @ \/ fin]}
        /\ Found(<<>>) /\ heard' = heard
    BY <1>1, Zenon DEF Dispatch
  <2>2. DOMAIN <<>> = {}
    OBVIOUS
  <2>3. out' = <<>> /\ seen' = seen
    BY <2>1, <2>2 DEF Found
  <2>4. QED
    BY <2>1, <2>3 DEF Ignored
<1>2. CASE ~ (fin \/ ~ target)
  <2> DEFINE st == Receive(Lookup.stream[d], number, units)
  <2>1. fin = FALSE /\ target
    BY <1>2
  <2>2. st \in Streams /\ Analyses(d, st)
    BY <2>1, DispatchAnalyses
  <2>3. Lookup.stream[d] \in Streams
    BY LookupFacts DEF TypeInv, Sessions
  <2>4. st.buffer \in Buffers(d, units)
    BY <2>3, ReceiveFacts DEF Buffers
  <2> HIDE DEF st
  <2>5. st.buffer \in Seq(Units)
    BY <2>2 DEF Streams
  <2>6. Taken(d, st.buffer)
    BY <2>2 DEF Analyses, Taken
  <2>7. QED
    BY <1>2, <2>4, <2>5, <2>6
<1>3. QED
  BY <1>1, <1>2

-----------------------------------------------------------------------------
(* The type invariant is inductive.                                        *)
LEMMA DispatchKeepsTypes ==
  ASSUME IpSessionsAssumption, TypeInv, NEW d \in Dirs, NEW number \in Nat,
         NEW units \in Seq(Units), NEW fin \in BOOLEAN, Dispatch(d, number, units, fin),
         scenario' = scenario
  PROVE  TableOK' /\ ResultOK'
<1>1. Sessions' = Sessions /\ Units' = Units
  BY DEF Sessions, Streams, Units, StreamLength
<1>2. Lookup \in Sessions
  BY LookupFacts DEF TypeInv
<1>3. heard \in (-Timeout)..scenario.hours /\ clock \in (-Timeout)..scenario.hours
  <2>1. Timeout \in Nat /\ scenario.hours \in Nat
    BY ScenarioFacts DEF TypeInv, WireOK, IpSessionsAssumption, Positive
  <2>2. heard \in (-Timeout)..scenario.hours /\ clock \in 0..scenario.hours
    BY DEF TypeInv, WireOK, ResultOK
  <2>3. QED
    BY <2>1, <2>2
<1>4. CASE Ignored(fin)
  <2> DEFINE s == [Lookup EXCEPT !.FIN_received = @ \/ fin]
  <2>1. s \in Sessions
    BY <1>2 DEF Sessions
  <2>2. TableOK'
    BY <1>1, <1>4, <2>1 DEF Ignored, TableOK
  <2>3. out' \in Seq(Seq(Units))
    BY <1>4, EmptySeq DEF Ignored
  <2>4. QED
    BY <1>1, <1>3, <1>4, <2>2, <2>3 DEF Ignored, ResultOK
<1>5. ASSUME NEW b \in Seq(Units), Taken(d, b)
      PROVE  TableOK' /\ ResultOK'
  <2>1. TableOK'
    BY <1>1, <1>5 DEF Taken, TableOK
  <2>2. out' \in Seq(Seq(Units))
    <3>1. Analysed(b) \in Nat /\ Analysed(b) * MessageLength <= Len(b)
      BY AnalysedFacts
    <3>2. First(b, Analysed(b)) \in Seq(Seq(Units))
      BY <3>1, FirstFacts
    <3>3. QED
      BY <1>5, <3>2 DEF Taken, Found
  <2>3. QED
    BY <1>1, <1>3, <1>5, <2>1, <2>2 DEF Taken, ResultOK
<1>6. QED
  BY <1>4, <1>5, DispatchFacts

LEMMA PacketFacts ==
  ASSUME IpSessionsAssumption, TypeInv, NEW d \in Dirs, NEW n \in {0} \cup Sizes(d)
  PROVE  /\ n \in Nat /\ sent[d] \in Nat /\ sent[d] + n <= StreamLength
         /\ NumberOf(conn, sent[d]) \in Nat
         /\ UnitsOf(conn, d, sent[d], n) \in Seq(Units)
<1>1. sent[d] \in Nat /\ sent[d] <= StreamLength /\ StreamLength \in Nat
  BY ScenarioFacts DEF TypeInv, WireOK
<1>2. n \in Nat /\ sent[d] + n <= StreamLength
  <2>1. n = 0 \/ (n \in scenario.segments /\ sent[d] + n <= StreamLength)
    BY DEF Sizes
  <2>2. scenario.segments \subseteq Nat
    BY ScenarioFacts DEF TypeInv, WireOK, Positive
  <2>3. QED
    BY <1>1, <2>1, <2>2
<1>3. QED
  BY <1>1, <1>2, NumberFacts, UnitsFacts DEF TypeInv

LEMMA AdvanceKeepsTypes ==
  ASSUME IpSessionsAssumption, TypeInv, NEW d \in Dirs, NEW n \in {0} \cup Sizes(d),
         Advance(d, n), scenario' = scenario
  PROVE  sent' \in [Dirs -> 0..StreamLength]' 
<1>1. StreamLength' = StreamLength
  BY DEF StreamLength
<1>2. sent[d] + n \in 0..StreamLength
  BY PacketFacts, ScenarioFacts DEF TypeInv, WireOK
<1>3. QED
  BY <1>1, <1>2 DEF Advance, TypeInv, WireOK

LEMMA FaultKeepsTypes ==
  ASSUME TypeInv, NEW kind \in Kinds, Fault(kind)
  PROVE  faults' \in [Kinds -> Nat]
BY DEF Fault, TypeInv, WireOK

LEMMA TypeInit == ASSUME IpSessionsAssumption, Init PROVE TypeInv
<1>1. WireOK
  BY ScenarioFacts DEF Init, WireOK, NoFaults, Kinds, Positive
<1>2. TableOK
  BY DEF Init, TableOK
<1>3. ResultOK
  BY ScenarioFacts, EmptySeq DEF Init, ResultOK, IpSessionsAssumption, Positive
<1>4. QED
  BY <1>1, <1>2, <1>3 DEF TypeInv

LEMMA RepeatFacts ==
  ASSUME IpSessionsAssumption, TypeInv, NEW d \in Dirs, Repeat(d)
  PROVE  \E from, n \in Nat :
           /\ from + n <= StreamLength
           /\ NumberOf(conn, from) \in Nat /\ UnitsOf(conn, d, from, n) \in Seq(Units)
           /\ Dispatch(d, NumberOf(conn, from), UnitsOf(conn, d, from, n), FALSE)
<1>1. sent[d] \in Nat /\ sent[d] <= StreamLength /\ StreamLength \in Nat
  BY ScenarioFacts DEF TypeInv, WireOK
<1>2. PICK from \in 0..(sent[d] - 1), n \in scenario.segments :
        /\ from + n <= sent[d]
        /\ Dispatch(d, NumberOf(conn, from), UnitsOf(conn, d, from, n), FALSE)
  BY DEF Repeat
<1>3. scenario.segments \subseteq Nat
  BY ScenarioFacts DEF TypeInv, WireOK, Positive
<1>4. from \in Nat /\ n \in Nat /\ from + n <= StreamLength
  BY <1>1, <1>2, <1>3
<1>5. QED
  BY <1>2, <1>4, NumberFacts, UnitsFacts DEF TypeInv

LEMMA TypeNext == ASSUME IpSessionsAssumption, TypeInv, [Next]_vars PROVE TypeInv'
<1> USE DEF TypeInv
<1>1. scenario' = scenario
  BY DEF Next, vars, wire, Packet, Acknowledgement, Fin, Lose, Repeat, Reuse, Hour, ClockBack,
         ReloadTargets, Dispose
<1>2. StreamLength' = StreamLength /\ Sessions' = Sessions /\ Units' = Units
  BY <1>1 DEF Sessions, Streams, Units, StreamLength
<1>3. ASSUME NEW d \in Dirs, Packet(d) PROVE TypeInv'
  <2>1. PICK n \in Sizes(d) :
          Advance(d, n) /\ Dispatch(d, NumberOf(conn, sent[d]), UnitsOf(conn, d, sent[d], n), FALSE)
    BY <1>3 DEF Packet
  <2>2. TableOK' /\ ResultOK'
    BY <1>1, <2>1, PacketFacts, DispatchKeepsTypes
  <2>3. WireOK'
    BY <1>1, <1>3, <2>1, AdvanceKeepsTypes DEF WireOK, Packet
  <2>4. QED
    BY <2>2, <2>3
<1>4. ASSUME NEW d \in Dirs, Acknowledgement(d) PROVE TypeInv'
  <2>1. NumberOf(conn, sent[d]) \in Nat /\ <<>> \in Seq(Units)
    BY PacketFacts, EmptySeq
  <2>2. TableOK' /\ ResultOK'
    BY <1>1, <1>4, <2>1, DispatchKeepsTypes DEF Acknowledgement
  <2>3. WireOK'
    BY <1>1, <1>2, <1>4 DEF WireOK, Acknowledgement, wire
  <2>4. QED
    BY <2>2, <2>3
<1>5. ASSUME NEW d \in Dirs, Fin(d) PROVE TypeInv'
  <2>1. PICK n \in {0} \cup Sizes(d) :
          Advance(d, n) /\ Dispatch(d, NumberOf(conn, sent[d]), UnitsOf(conn, d, sent[d], n), TRUE)
    BY <1>5 DEF Fin
  <2>2. TableOK' /\ ResultOK'
    BY <1>1, <2>1, PacketFacts, DispatchKeepsTypes
  <2>3. WireOK'
    BY <1>1, <1>5, <2>1, AdvanceKeepsTypes DEF WireOK, Fin
  <2>4. QED
    BY <2>2, <2>3
<1>6. ASSUME NEW d \in Dirs, Lose(d) PROVE TypeInv'
  <2>1. faults' \in [Kinds -> Nat]
    BY <1>6, FaultKeepsTypes DEF Lose, Kinds
  <2>2. sent' \in [Dirs -> 0..StreamLength]' /\ finished' \subseteq Dirs
    BY <1>1, <1>2, <1>6, AdvanceKeepsTypes DEF Lose, WireOK
  <2>3. WireOK'
    BY <1>1, <1>6, <2>1, <2>2 DEF WireOK, Lose
  <2>4. TableOK' /\ ResultOK'
    BY <1>1, <1>2, <1>6, EmptySeq DEF TableOK, ResultOK, Lose
  <2>5. QED
    BY <2>3, <2>4
<1>7. ASSUME NEW d \in Dirs, Repeat(d) PROVE TypeInv'
  <2>1. faults' \in [Kinds -> Nat]
    BY <1>7, FaultKeepsTypes DEF Repeat, Kinds
  <2>2. WireOK'
    BY <1>1, <1>2, <1>7, <2>1 DEF WireOK, Repeat, wire
  <2>3. TableOK' /\ ResultOK'
    BY <1>1, <1>7, RepeatFacts, DispatchKeepsTypes
  <2>4. QED
    BY <2>2, <2>3
<1>8. CASE Reuse
  <2>1. WireOK'
    BY <1>1, <1>2, <1>8, ScenarioFacts DEF WireOK, Reuse, Positive
  <2>2. TableOK' /\ ResultOK'
    BY <1>1, <1>2, <1>8, EmptySeq, ScenarioFacts
    DEF TableOK, ResultOK, Reuse, WireOK, IpSessionsAssumption, Positive
  <2>3. QED
    BY <2>1, <2>2
<1>9. CASE Hour \/ ClockBack \/ ReloadTargets
  <2>1. faults' \in [Kinds -> Nat]
    BY <1>9, FaultKeepsTypes DEF Hour, ClockBack, ReloadTargets, Kinds, WireOK
  <2>2. clock' \in 0..scenario.hours /\ target' \in BOOLEAN
    <3>1. scenario.hours \in Nat
      BY ScenarioFacts DEF WireOK
    <3>2. clock \in 0..scenario.hours /\ target \in BOOLEAN
      BY DEF WireOK
    <3>3. CASE Hour
      BY <3>1, <3>2, <3>3 DEF Hour, wire
    <3>4. CASE ClockBack
      BY <3>1, <3>2, <3>4 DEF ClockBack, wire
    <3>5. CASE ReloadTargets
      BY <3>1, <3>2, <3>5 DEF ReloadTargets, wire
    <3>6. QED
      BY <1>9, <3>3, <3>4, <3>5
  <2>3. WireOK'
    BY <1>1, <1>2, <1>9, <2>1, <2>2 DEF WireOK, Hour, ClockBack, ReloadTargets, wire
  <2>4. TableOK' /\ ResultOK'
    BY <1>1, <1>2, <1>9, EmptySeq DEF TableOK, ResultOK, Hour, ClockBack, ReloadTargets
  <2>5. QED
    BY <2>3, <2>4
<1>10. CASE Dispose
  BY <1>1, <1>2, <1>10, EmptySeq DEF WireOK, TableOK, ResultOK, Dispose, wire
<1>11. CASE UNCHANGED vars
  BY <1>1, <1>2, <1>11 DEF WireOK, TableOK, ResultOK, vars, wire
<1>12. QED
  BY <1>3, <1>4, <1>5, <1>6, <1>7, <1>8, <1>9, <1>10, <1>11 DEF Next

LEMMA TypeInvImpliesTypeOK == ASSUME IpSessionsAssumption, TypeInv PROVE TypeOK
<1>1. Cardinality(table) <= 1
  <2>1. CASE table = {}
    BY <2>1, FS_EmptySet
  <2>2. CASE table # {}
    <3>1. PICK s \in table : TRUE
      BY <2>2
    <3>2. table = {s}
      BY <3>1 DEF TypeInv, TableOK
    <3>3. Cardinality({s}) = 1
      BY FS_Singleton
    <3>4. QED
      BY <3>2, <3>3
  <2>3. QED
    BY <2>1, <2>2
<1>2. QED
  BY <1>1 DEF TypeInv, WireOK, TableOK, ResultOK, TypeOK

(* The tables, the buffers and what is analysed keep their types, and the  *)
(* table holds one session of the two ports at most.                       *)
(* (cw_analizer.cpp dispatch_ip_packet)                                    *)
THEOREM TypeCorrect == Spec => []TypeOK
<1>1. Init => TypeInv
  BY TypeInit, IpSessionsAssumption
<1>2. TypeInv /\ [Next]_vars => TypeInv'
  BY TypeNext, IpSessionsAssumption
<1>3. TypeInv => TypeOK
  BY TypeInvImpliesTypeOK, IpSessionsAssumption
<1>4. QED
  BY <1>1, <1>2, <1>3, PTL DEF Spec

-----------------------------------------------------------------------------
(* While the clock is not set back and the first connection lasts, the     *)
(* session's time is not before the last packet and not after the clock,   *)
(* and its mark means that a FIN was sent.                                 *)
Times ==
  /\ heard <= clock
  /\ \A s \in table : heard <= s.lastupdate /\ s.lastupdate <= clock /\ (s.FIN_received => finished # {})
TimeInv == conn = 1 /\ faults.clockBacks = 0 => Times

LEMMA DispatchKeepsTimes ==
  ASSUME IpSessionsAssumption, TypeInv, Times, NEW d \in Dirs, NEW number \in Nat,
         NEW units \in Seq(Units), NEW fin \in BOOLEAN, Dispatch(d, number, units, fin),
         clock' = clock, finished \subseteq finished', fin => d \in finished'
  PROVE  Times'
<1>1. clock \in Int /\ heard \in Int
  BY ScenarioFacts DEF TypeInv, WireOK, ResultOK, IpSessionsAssumption, Positive
<1>2. /\ Lookup \in Sessions
      /\ heard <= Lookup.lastupdate /\ Lookup.lastupdate <= clock
      /\ Lookup.FIN_received => finished # {}
  <2>1. CASE table = {}
    BY <1>1, <2>1, LookupFacts DEF TypeInv, NewSession, Times
  <2>2. CASE table # {}
    BY <2>2, LookupFacts DEF TypeInv, Times
  <2>3. QED
    BY <2>1, <2>2
<1>3. CASE Ignored(fin)
  <2> DEFINE s == [Lookup EXCEPT !.FIN_received = @ \/ fin]
  <2>1. s.lastupdate = Lookup.lastupdate /\ s.FIN_received = (Lookup.FIN_received \/ fin)
    BY <1>2 DEF Sessions
  <2>2. table' = {s} /\ heard' = heard
    BY <1>3 DEF Ignored
  <2> HIDE DEF s
  <2>3. QED
    BY <1>2, <2>1, <2>2 DEF Times
<1>4. ASSUME NEW b \in Seq(Units), Taken(d, b)
      PROVE  Times'
  BY <1>1, <1>2, <1>4 DEF Taken, Updated, Times
<1>5. QED
  BY <1>3, <1>4, DispatchFacts

LEMMA TimeInit == ASSUME IpSessionsAssumption, Init PROVE TimeInv
BY DEF Init, TimeInv, Times, IpSessionsAssumption, Positive

LEMMA TimeNext ==
  ASSUME IpSessionsAssumption, TypeInv, TimeInv, [Next]_vars
  PROVE  TimeInv'
<1> SUFFICES ASSUME conn' = 1, faults'.clockBacks = 0
             PROVE  Times'
  BY DEF TimeInv
<1>1. conn \in Nat /\ conn >= 1 /\ clock \in Int /\ heard \in Int /\ faults \in [Kinds -> Nat]
  BY ScenarioFacts DEF TypeInv, WireOK, ResultOK, IpSessionsAssumption, Positive
<1>2. faults \in [{"lost", "repeated", "reloads", "clockBacks"} -> Nat]
  BY <1>1 DEF Kinds
<1>3. ASSUME NEW d \in Dirs, Packet(d) \/ Acknowledgement(d) \/ Fin(d) \/ Repeat(d) PROVE Times'
  <2>1. conn = 1 /\ clock' = clock /\ finished \subseteq finished'
    BY <1>3 DEF Packet, Acknowledgement, Fin, Repeat, wire
  <2>2. faults.clockBacks = 0
    BY <1>2, <1>3 DEF Packet, Acknowledgement, Fin, Repeat, Fault
  <2>3. Times
    BY <2>1, <2>2 DEF TimeInv
  <2>4. CASE Packet(d)
    <3>1. PICK n \in Sizes(d) : Dispatch(d, NumberOf(conn, sent[d]), UnitsOf(conn, d, sent[d], n), FALSE)
      BY <2>4 DEF Packet
    <3>2. QED
      BY <2>1, <2>3, <3>1, PacketFacts, DispatchKeepsTimes
  <2>5. CASE Acknowledgement(d)
    <3>1. NumberOf(conn, sent[d]) \in Nat /\ <<>> \in Seq(Units)
      BY PacketFacts, EmptySeq
    <3>2. QED
      BY <2>1, <2>3, <2>5, <3>1, DispatchKeepsTimes DEF Acknowledgement
  <2>6. CASE Fin(d)
    <3>1. PICK n \in {0} \cup Sizes(d) :
            Dispatch(d, NumberOf(conn, sent[d]), UnitsOf(conn, d, sent[d], n), TRUE)
      BY <2>6 DEF Fin
    <3>2. d \in finished'
      BY <2>6 DEF Fin
    <3>3. QED
      BY <2>1, <2>3, <3>1, <3>2, PacketFacts, DispatchKeepsTimes
  <2>7. CASE Repeat(d)
    BY <2>1, <2>3, <2>7, RepeatFacts, DispatchKeepsTimes
  <2>8. QED
    BY <1>3, <2>4, <2>5, <2>6, <2>7
<1>4. ASSUME NEW d \in Dirs, Lose(d) PROVE Times'
  <2>1. conn = 1 /\ UNCHANGED <<clock, heard, table>> /\ finished \subseteq finished'
    BY <1>4 DEF Lose
  <2>2. faults.clockBacks = 0
    BY <1>2, <1>4 DEF Lose, Fault
  <2>3. Times
    BY <2>1, <2>2 DEF TimeInv
  <2>4. QED
    BY <2>1, <2>3 DEF Times
<1>5. CASE Reuse
  BY <1>1, <1>5 DEF Reuse
<1>6. CASE Hour
  <2>1. Times /\ clock' = clock + 1 /\ UNCHANGED <<heard, table, finished>>
    BY <1>6 DEF Hour, wire, TimeInv
  <2>2. \A s \in table : s.lastupdate \in Int
    BY ScenarioFacts DEF TypeInv, WireOK, TableOK, Sessions
  <2>3. QED
    BY <1>1, <2>1, <2>2 DEF Times
<1>7. CASE ClockBack
  BY <1>2, <1>7 DEF ClockBack, Fault
<1>8. CASE ReloadTargets
  <2>1. faults.clockBacks = 0
    BY <1>2, <1>8 DEF ReloadTargets, Fault
  <2>2. QED
    BY <1>8, <2>1 DEF ReloadTargets, wire, TimeInv, Times
<1>9. CASE Dispose
  BY <1>9 DEF Dispose, wire, TimeInv, Times
<1>10. CASE UNCHANGED vars
  BY <1>10 DEF vars, wire, TimeInv, Times
<1>11. QED
  BY <1>3, <1>4, <1>5, <1>6, <1>7, <1>8, <1>9, <1>10 DEF Next

(* Only a session that has ended or has been silent for the timeout is     *)
(* disposed of, while the ports serve one connection and the clock is not  *)
(* set back. (cw_analizer.cpp dispose_forgotten_data)                      *)
THEOREM OnlyForgottenSessionsGo == Spec => FirstSessionKept
<1> DEFINE Step ==
      Dispose /\ table' # table /\ conn = 1 /\ faults.clockBacks = 0 =>
        finished # {} \/ clock - heard >= Timeout
<1>1. Init => TypeInv /\ TimeInv
  BY TypeInit, TimeInit, IpSessionsAssumption
<1>2. TypeInv /\ TimeInv /\ [Next]_vars => TypeInv' /\ TimeInv'
  BY TypeNext, TimeNext, IpSessionsAssumption
<1>3. TypeInv /\ TimeInv => Step
  <2> SUFFICES ASSUME TypeInv, Times, Dispose, table' # table, finished = {}
               PROVE  clock - heard >= Timeout
    BY DEF TimeInv
  <2>1. PICK s \in table : ~ Kept(s)
    BY DEF Dispose
  <2>2. heard <= s.lastupdate /\ s.lastupdate <= clock /\ ~ s.FIN_received
    BY <2>1 DEF Times
  <2>3. ~ (clock - s.lastupdate \in 0..(Timeout - 1))
    BY <2>1, <2>2 DEF Kept, Fresh
  <2>4. s.lastupdate \in Int /\ clock \in Int /\ heard \in Int /\ Timeout \in Int
    BY ScenarioFacts, IpSessionsAssumption
    DEF TypeInv, WireOK, TableOK, ResultOK, Sessions, IpSessionsAssumption, Positive
  <2>5. QED
    BY <2>2, <2>3, <2>4
<1>4. QED
  BY <1>1, <1>2, <1>3, PTL DEF Spec, FirstSessionKept

-----------------------------------------------------------------------------
(* Without retransmissions the units of a buffer stand in the order they   *)
(* were sent, before the next unit of their direction, and after the       *)
(* header of every message that was analysed.                              *)
Before(u, v) == u[1] < v[1] \/ (u[1] = v[1] /\ u[3] < v[3])
NewTo(v, S) ==
  \A u \in Units : IsHeader(u) /\ MessageOf(u) \in S /\ u[2] = v[2] => Before(u, v)
InOrder(b, d, v, S) ==
  \A i \in 1..Len(b) :
    /\ b[i][2] = d /\ Before(b[i], v) /\ NewTo(b[i], S)
    /\ \A j \in 1..Len(b) : i < j => Before(b[i], b[j])
Places == Int \X Dirs \X Int
NextUnit(d) == <<conn, d, sent[d]>>
Heads(b, k) == {MessageOf(First(b, k)[j][1]) : j \in DOMAIN First(b, k)}

LEMMA UnitsArePlaces == ASSUME IpSessionsAssumption, WireOK PROVE Units \subseteq Places
BY ScenarioFacts DEF WireOK, Units, Places, Positive

LEMMA Division ==
  ASSUME NEW m \in Nat \ {0}, NEW p \in Nat, NEW q \in Nat,
         p % m = q % m, p \div m = q \div m
  PROVE  p = q
<1>1. p = m * (p \div m) + (p % m)
  OBVIOUS
<1>2. q = m * (q \div m) + (q % m)
  OBVIOUS
<1>3. QED
  BY <1>1, <1>2

LEMMA SameMessage ==
  ASSUME IpSessionsAssumption, WireOK, NEW u \in Units, NEW v \in Units,
         IsHeader(u), IsHeader(v), MessageOf(u) = MessageOf(v)
  PROVE  u = v
<1>1. u[3] \in Nat /\ v[3] \in Nat /\ MessageLength \in Nat \ {0}
  BY ScenarioFacts DEF WireOK, Units, IpSessionsAssumption, Positive
<1>2. /\ u[1] = v[1] /\ u[2] = v[2]
      /\ u[3] % MessageLength = v[3] % MessageLength /\ u[3] \div MessageLength = v[3] \div MessageLength
  BY DEF IsHeader, MessageOf
<1>3. u[3] = v[3]
  BY <1>1, <1>2, Division
<1>4. QED
  BY <1>2, <1>3 DEF Units

LEMMA LaterUnit ==
  ASSUME NEW u \in Places, NEW v \in Places, NEW w \in Places, Before(u, v), Before(v, w) \/ v = w
  PROVE  Before(u, w)
BY DEF Before, Places

LEMMA NewToLater ==
  ASSUME IpSessionsAssumption, WireOK, NEW v \in Places, NEW w \in Places, NEW S,
         NewTo(v, S), v[2] = w[2], Before(v, w) \/ v = w
  PROVE  NewTo(w, S)
BY UnitsArePlaces, LaterUnit DEF NewTo

LEMMA InOrderLater ==
  ASSUME IpSessionsAssumption, WireOK, NEW d \in Dirs, NEW b \in Seq(Units),
         NEW v \in Places, NEW w \in Places, NEW S, InOrder(b, d, v, S), Before(v, w) \/ v = w
  PROVE  InOrder(b, d, w, S)
<1>1. \A i \in 1..Len(b) : b[i] \in Places
  BY UnitsArePlaces
<1>2. QED
  BY <1>1, LaterUnit DEF InOrder

LEMMA EmptyInOrder ==
  ASSUME NEW d, NEW v, NEW S
  PROVE  InOrder(<<>>, d, v, S)
BY DEF InOrder

LEMMA UnitsInOrder ==
  ASSUME IpSessionsAssumption, WireOK, NEW d \in Dirs, NEW n \in Nat, NEW S,
         sent[d] + n <= StreamLength, NewTo(NextUnit(d), S)
  PROVE  InOrder(UnitsOf(conn, d, sent[d], n), d, <<conn, d, sent[d] + n>>, S)
<1> DEFINE p == sent[d]
           b == UnitsOf(conn, d, p, n)
           next == <<conn, d, p + n>>
<1>1. p \in Nat /\ conn \in Int
  BY ScenarioFacts DEF WireOK
<1>2. Len(b) = n /\ \A i \in 1..n : b[i] = <<conn, d, p + i - 1>>
  BY <1>1, UnitsFacts
<1> HIDE DEF b
<1>3. NextUnit(d) \in Places /\ next \in Places /\ \A i \in 1..n : <<conn, d, p + i - 1>> \in Places
  BY <1>1 DEF NextUnit, Places
<1>4. \A i \in 1..n : Before(NextUnit(d), <<conn, d, p + i - 1>>) \/ NextUnit(d) = <<conn, d, p + i - 1>>
  BY <1>1 DEF NextUnit, Before
<1>5. \A i \in 1..n : NewTo(<<conn, d, p + i - 1>>, S)
  BY <1>3, <1>4, NewToLater DEF NextUnit
<1>6. /\ \A i \in 1..n : Before(<<conn, d, p + i - 1>>, next)
      /\ \A i, j \in 1..n : i < j => Before(<<conn, d, p + i - 1>>, <<conn, d, p + j - 1>>)
  BY <1>1 DEF Before
<1>7. \A i \in 1..n : b[i][2] = d
  BY <1>2
<1>8. ASSUME NEW i \in 1..Len(b)
      PROVE  /\ b[i][2] = d /\ Before(b[i], next) /\ NewTo(b[i], S)
             /\ \A j \in 1..Len(b) : i < j => Before(b[i], b[j])
  BY <1>2, <1>5, <1>6, <1>7
<1>9. InOrder(b, d, next, S)
  BY <1>8 DEF InOrder
<1>10. QED
  BY <1>9 DEF b

LEMMA ConcatInOrder ==
  ASSUME IpSessionsAssumption, WireOK, NEW d \in Dirs, NEW n \in Nat, NEW S,
         sent[d] + n <= StreamLength, NewTo(NextUnit(d), S),
         NEW b \in Seq(Units), InOrder(b, d, NextUnit(d), S)
  PROVE  InOrder(b \o UnitsOf(conn, d, sent[d], n), d, <<conn, d, sent[d] + n>>, S)
<1> DEFINE p == sent[d]
           units == UnitsOf(conn, d, p, n)
           next == <<conn, d, p + n>>
           whole == b \o units
<1>1. p \in Nat /\ conn \in Int
  BY ScenarioFacts DEF WireOK
<1>2. units \in Seq(Units) /\ Len(units) = n /\ \A i \in 1..n : units[i] = <<conn, d, p + i - 1>>
  BY <1>1, UnitsFacts
<1>3. InOrder(units, d, next, S)
  BY UnitsInOrder
<1>4. NextUnit(d) \in Places /\ next \in Places /\ (Before(NextUnit(d), next) \/ NextUnit(d) = next)
  BY <1>1 DEF NextUnit, Places, Before
<1>5. InOrder(b, d, next, S)
  BY <1>4, InOrderLater
<1>6. \A i \in 1..Len(b), j \in 1..n : Before(b[i], units[j])
  <2>1. \A j \in 1..n : <<conn, d, p + j - 1>> \in Places
                        /\ (Before(NextUnit(d), <<conn, d, p + j - 1>>) \/ NextUnit(d) = <<conn, d, p + j - 1>>)
    BY <1>1 DEF NextUnit, Places, Before
  <2>2. \A i \in 1..Len(b) : b[i] \in Places /\ Before(b[i], NextUnit(d))
    BY UnitsArePlaces DEF InOrder
  <2>3. NextUnit(d) \in Places
    BY <1>4
  <2> HIDE DEF units, next
  <2>4. TAKE i \in 1..Len(b), j \in 1..n
  <2>5. Before(b[i], <<conn, d, p + j - 1>>)
    BY <2>1, <2>2, <2>3, LaterUnit
  <2>6. QED
    BY <1>2, <2>5
<1> HIDE DEF units, next
<1>7. /\ Len(whole) = Len(b) + n
      /\ \A i \in 1..Len(whole) :
           whole[i] = IF i <= Len(b) THEN b[i] ELSE units[i - Len(b)]
  BY <1>2, ConcatProperties
<1> HIDE DEF whole
<1>8. InOrder(whole, d, next, S)
  <2>1. Len(b) \in Nat
    OBVIOUS
  <2>2. SUFFICES ASSUME NEW i \in 1..Len(whole)
                 PROVE  /\ whole[i][2] = d /\ Before(whole[i], next) /\ NewTo(whole[i], S)
                        /\ \A j \in 1..Len(whole) : i < j => Before(whole[i], whole[j])
    BY DEF InOrder
  <2>3. CASE i <= Len(b)
    <3>1. i \in 1..Len(b) /\ whole[i] = b[i]
      BY <1>7, <2>1, <2>3
    <3>2. ASSUME NEW j \in 1..Len(whole), i < j PROVE Before(b[i], whole[j])
      <4>1. CASE j <= Len(b)
        BY <1>5, <1>7, <2>1, <3>1, <3>2, <4>1 DEF InOrder
      <4>2. CASE ~ (j <= Len(b))
        <5>1. j - Len(b) \in 1..n /\ whole[j] = units[j - Len(b)]
          BY <1>7, <2>1, <4>2
        <5>2. QED
          BY <1>6, <3>1, <5>1
      <4>3. QED
        BY <4>1, <4>2
    <3>3. QED
      BY <1>5, <3>1, <3>2 DEF InOrder
  <2>4. CASE ~ (i <= Len(b))
    <3>1. i - Len(b) \in 1..n /\ whole[i] = units[i - Len(b)]
      BY <1>7, <2>1, <2>4
    <3>2. ASSUME NEW j \in 1..Len(whole), i < j PROVE Before(whole[i], whole[j])
      <4>1. j - Len(b) \in 1..n /\ i - Len(b) < j - Len(b) /\ whole[j] = units[j - Len(b)]
        BY <1>7, <2>1, <2>4, <3>2
      <4>2. QED
        BY <1>2, <1>3, <3>1, <4>1 DEF InOrder
    <3>3. QED
      BY <1>2, <1>3, <3>1, <3>2 DEF InOrder
  <2>5. QED
    BY <2>3, <2>4
<1>9. QED
  BY <1>8 DEF whole, units, next

(* What is analysed is new, and what is left is in order after it.         *)
HeadAt(b, j) == b[(j - 1) * MessageLength + 1]

LEMMA HeadFacts ==
  ASSUME IpSessionsAssumption, NEW b \in Seq(Units), NEW k, k = Analysed(b)
  PROVE  /\ k \in Nat /\ k * MessageLength \in Nat /\ k * MessageLength <= Len(b)
         /\ DOMAIN First(b, k) = 1..k
         /\ \A j \in 1..k :
              /\ (j - 1) * MessageLength + 1 \in 1..(k * MessageLength)
              /\ (j - 1) * MessageLength + 1 \in 1..Len(b)
              /\ First(b, k)[j][1] = HeadAt(b, j) /\ HeadAt(b, j) \in Units /\ IsHeader(HeadAt(b, j))
         /\ \A i, j \in 1..k : i < j => (i - 1) * MessageLength + 1 < (j - 1) * MessageLength + 1
<1>1. /\ k \in Nat /\ k * MessageLength \in Nat /\ k * MessageLength <= Len(b)
      /\ \A j \in 1..k : IsHeader(HeadAt(b, j))
  BY AnalysedFacts DEF HeadAt
<1>2. /\ DOMAIN First(b, k) = 1..k
      /\ \A j \in 1..k :
           (j - 1) * MessageLength + 1 \in 1..(k * MessageLength) /\ First(b, k)[j][1] = HeadAt(b, j)
  BY <1>1, FirstFacts DEF HeadAt
<1>3. \A j \in 1..k : (j - 1) * MessageLength + 1 \in 1..Len(b) /\ HeadAt(b, j) \in Units
  BY <1>1, <1>2 DEF HeadAt
<1>4. ASSUME NEW i \in 1..k, NEW j \in 1..k, i < j
      PROVE  (i - 1) * MessageLength + 1 < (j - 1) * MessageLength + 1
  <2>1. MessageLength \in Positive /\ i - 1 \in Nat /\ j - 1 \in Nat /\ i - 1 < j - 1
    BY <1>1, <1>4 DEF IpSessionsAssumption
  <2>2. /\ (i - 1) * MessageLength \in Nat /\ (j - 1) * MessageLength \in Nat
        /\ ((i - 1) + 1) * MessageLength <= (j - 1) * MessageLength
        /\ ((i - 1) + 1) * MessageLength = (i - 1) * MessageLength + MessageLength
    BY <2>1, Multiples
  <2>3. QED
    BY <2>1, <2>2 DEF Positive
<1>5. QED
  BY <1>1, <1>2, <1>3, <1>4

LEMMA NewToMore ==
  ASSUME IpSessionsAssumption, WireOK, NEW b \in Seq(Units), NEW k, k = Analysed(b),
         NEW w, NEW S, NewTo(w, S), \A j \in 1..k : Before(HeadAt(b, j), w)
  PROVE  NewTo(w, S \cup Heads(b, k))
<1> SUFFICES ASSUME NEW u \in Units, IsHeader(u), MessageOf(u) \in S \cup Heads(b, k), u[2] = w[2]
             PROVE  Before(u, w)
  BY DEF NewTo
<1>1. CASE MessageOf(u) \in S
  BY <1>1 DEF NewTo
<1>2. CASE MessageOf(u) \in Heads(b, k)
  <2>1. PICK j \in 1..k : MessageOf(u) = MessageOf(HeadAt(b, j))
    <3>1. DOMAIN First(b, k) = 1..k /\ \A i \in 1..k : First(b, k)[i][1] = HeadAt(b, i)
      BY HeadFacts
    <3>2. QED
      BY <1>2, <3>1 DEF Heads
  <2>2. HeadAt(b, j) \in Units /\ IsHeader(HeadAt(b, j))
    BY HeadFacts
  <2>3. u = HeadAt(b, j)
    BY <2>1, <2>2, SameMessage
  <2>4. QED
    BY <2>3
<1>3. QED
  BY <1>1, <1>2

AnalysedNew(b, d, v, S, k) ==
  /\ InOrder(Left(b), d, v, S \cup Heads(b, k)) /\ NewTo(v, S \cup Heads(b, k))
  /\ \A m \in Heads(b, k) : m[2] = d
  /\ \A j \in 1..k :
       /\ MessageOf(First(b, k)[j][1]) \notin S
       /\ \A i \in 1..k : MessageOf(First(b, k)[j][1]) = MessageOf(First(b, k)[i][1]) => j = i

LEMMA AnalysedInOrder ==
  ASSUME IpSessionsAssumption, WireOK, NEW d \in Dirs, NEW b \in Seq(Units),
         NEW v, v[2] = d, NEW S, InOrder(b, d, v, S), NewTo(v, S), NEW k, k = Analysed(b)
  PROVE  AnalysedNew(b, d, v, S, k)
<1>1. NewTo(v, S \cup Heads(b, k))
  <2>1. \A j \in 1..k : Before(HeadAt(b, j), v)
    BY HeadFacts DEF InOrder, HeadAt
  <2>2. QED
    BY <2>1, NewToMore
<1>2. \A m \in Heads(b, k) : m[2] = d
  <2>1. \A j \in 1..k : HeadAt(b, j)[2] = d
    BY HeadFacts DEF InOrder, HeadAt
  <2>2. \A j \in 1..k : MessageOf(HeadAt(b, j))[2] = HeadAt(b, j)[2]
    BY DEF MessageOf
  <2>3. TAKE m \in Heads(b, k)
  <2>4. PICK j \in 1..k : m = MessageOf(HeadAt(b, j))
    BY HeadFacts DEF Heads
  <2>5. QED
    BY <2>1, <2>2, <2>4
<1>3. ASSUME NEW j \in 1..k PROVE MessageOf(First(b, k)[j][1]) \notin S
  <2>1. NewTo(HeadAt(b, j), S)
    BY HeadFacts DEF InOrder, HeadAt
  <2>2. HeadAt(b, j) \in Units /\ IsHeader(HeadAt(b, j)) /\ First(b, k)[j][1] = HeadAt(b, j)
    BY HeadFacts
  <2>3. HeadAt(b, j) \in Places
    BY <2>2, UnitsArePlaces
  <2>4. ~ Before(HeadAt(b, j), HeadAt(b, j))
    BY <2>3 DEF Before, Places
  <2>5. QED
    BY <2>1, <2>2, <2>4 DEF NewTo
<1>4. ASSUME NEW i \in 1..k, NEW j \in 1..k, i < j
      PROVE  MessageOf(First(b, k)[j][1]) # MessageOf(First(b, k)[i][1])
  <2>1. Before(HeadAt(b, i), HeadAt(b, j))
    BY <1>4, HeadFacts DEF InOrder, HeadAt
  <2>2. /\ HeadAt(b, i) \in Units /\ IsHeader(HeadAt(b, i)) /\ First(b, k)[i][1] = HeadAt(b, i)
        /\ HeadAt(b, j) \in Units /\ IsHeader(HeadAt(b, j)) /\ First(b, k)[j][1] = HeadAt(b, j)
    BY HeadFacts
  <2>3. HeadAt(b, i) # HeadAt(b, j)
    BY <2>1, <2>2, UnitsArePlaces DEF Before, Places
  <2>4. QED
    BY <2>2, <2>3, SameMessage
<1>5. \A j, i \in 1..k : MessageOf(First(b, k)[j][1]) = MessageOf(First(b, k)[i][1]) => j = i
  <2>1. k \in Nat
    BY HeadFacts
  <2>2. TAKE j, i \in 1..k
  <2>3. i < j \/ j < i \/ i = j
    BY <2>1
  <2>4. QED
    BY <1>4, <2>3
<1>6. InOrder(After(b, k), d, v, S \cup Heads(b, k))
  <2> DEFINE a == After(b, k)
             m == k * MessageLength
  <2>1. m \in Nat /\ m <= Len(b) /\ Len(b) \in Nat
    BY HeadFacts
  <2>2. a \in Seq(Units) /\ \A i \in 1..Len(a) : i + m \in 1..Len(b) /\ a[i] = b[i + m]
    <3>1. k \in Nat /\ k * MessageLength <= Len(b)
      BY HeadFacts
    <3>2. QED
      BY <2>1, <3>1, AfterFacts
  <2> HIDE DEF a
  <2>3. \A i \in 1..Len(b) :
          /\ b[i][2] = d /\ Before(b[i], v) /\ NewTo(b[i], S)
          /\ \A j \in 1..Len(b) : i < j => Before(b[i], b[j])
    BY DEF InOrder
  <2>4. ASSUME NEW i \in 1..Len(a) PROVE NewTo(a[i], S \cup Heads(b, k))
    <3>1. \A j \in 1..k : /\ (j - 1) * MessageLength + 1 \in 1..m
                          /\ (j - 1) * MessageLength + 1 \in 1..Len(b)
      BY HeadFacts
    <3>2. i + m \in 1..Len(b) /\ a[i] = b[i + m] /\ i >= 1 /\ i \in Int
      BY <2>2
    <3>3. \A j \in 1..k : (j - 1) * MessageLength + 1 < i + m
      <4> HIDE DEF m
      <4>1. QED
        BY <2>1, <3>1, <3>2
    <3>4. \A j \in 1..k : Before(HeadAt(b, j), a[i])
      BY <2>3, <3>1, <3>2, <3>3 DEF HeadAt
    <3>5. NewTo(a[i], S)
      BY <2>3, <3>2
    <3>6. QED
      BY <3>4, <3>5, NewToMore
  <2>5. ASSUME NEW i \in 1..Len(a)
        PROVE  /\ a[i][2] = d /\ Before(a[i], v)
               /\ \A j \in 1..Len(a) : i < j => Before(a[i], a[j])
    <3>1. \A j \in 1..Len(a) : i < j => i + m < j + m
      <4> HIDE DEF m
      <4>1. QED
        BY <2>1
    <3>2. i + m \in 1..Len(b) /\ a[i] = b[i + m]
      BY <2>2
    <3> HIDE DEF m
    <3>3. a[i][2] = d /\ Before(a[i], v)
      BY <2>3, <3>2
    <3>4. ASSUME NEW j \in 1..Len(a), i < j PROVE Before(a[i], a[j])
      <4>1. j + m \in 1..Len(b) /\ a[j] = b[j + m] /\ i + m < j + m
        BY <2>2, <3>1, <3>4
      <4>2. QED
        BY <2>3, <3>2, <4>1
    <3>5. QED
      BY <3>3, <3>4
  <2>6. QED
    BY <2>4, <2>5 DEF InOrder, a
<1>7. InOrder(Left(b), d, v, S \cup Heads(b, k))
  BY <1>6, LeftIsAfter, EmptyInOrder
<1>8. QED
  BY <1>1, <1>2, <1>3, <1>5, <1>7 DEF AnalysedNew

LEMMA OtherDirection ==
  ASSUME NEW v, NEW S, NEW H, NewTo(v, S), \A m \in H : m[2] # v[2]
  PROVE  NewTo(v, S \cup H)
<1> SUFFICES ASSUME NEW u \in Units, IsHeader(u), MessageOf(u) \in S \cup H, u[2] = v[2]
             PROVE  Before(u, v)
  BY DEF NewTo
<1>1. MessageOf(u)[2] = u[2]
  BY DEF MessageOf
<1>2. MessageOf(u) \in S
  BY <1>1
<1>3. QED
  BY <1>2 DEF NewTo

Sequenced ==
  \A d \in Dirs :
    /\ NewTo(NextUnit(d), seen)
    /\ \A s \in table : InOrder(s.stream[d].buffer, d, NextUnit(d), seen)
OrderInv == faults.repeated = 0 => Sequenced
OnlyNew ==
  \A j \in DOMAIN out' :
    /\ MessageOf(out'[j][1]) \notin seen
    /\ \A k \in DOMAIN out' : MessageOf(out'[j][1]) = MessageOf(out'[k][1]) => j = k

LEMMA NextSequenced ==
  ASSUME scenario' = scenario,
         \A d \in Dirs :
           /\ NewTo(NextUnit(d)', seen')
           /\ \A s \in table' : InOrder(s.stream[d].buffer, d, NextUnit(d)', seen')
  PROVE  Sequenced'
<1>1. Units' = Units
  BY DEF Units, StreamLength
<1>2. QED
  BY <1>1 DEF Sequenced, NewTo, InOrder

LEMMA LookupInOrder ==
  ASSUME IpSessionsAssumption, TypeInv, Sequenced, NEW d \in Dirs
  PROVE  /\ Lookup.stream[d].buffer \in Seq(Units)
         /\ InOrder(Lookup.stream[d].buffer, d, NextUnit(d), seen)
<1>1. Lookup \in Sessions
  BY LookupFacts DEF TypeInv
<1>2. Lookup.stream[d].buffer \in Seq(Units)
  BY <1>1 DEF Sessions, Streams
<1>3. CASE table = {}
  <2>1. Lookup = NewSession
    BY <1>3, LookupFacts DEF TypeInv
  <2>2. Lookup.stream[d].buffer = <<>>
    BY <2>1 DEF NewSession, NewStream
  <2>3. QED
    BY <1>2, <2>2, EmptyInOrder
<1>4. CASE table # {}
  <2>1. Lookup \in table
    BY <1>4, LookupFacts DEF TypeInv
  <2>2. QED
    BY <1>2, <2>1 DEF Sequenced
<1>5. QED
  BY <1>3, <1>4

LEMMA ReceivedInOrder ==
  ASSUME IpSessionsAssumption, TypeInv, Sequenced, NEW d \in Dirs, NEW n \in Nat,
         sent[d] + n <= StreamLength,
         NEW units \in {<<>>, UnitsOf(conn, d, sent[d], n)}, NEW b \in Buffers(d, units)
  PROVE  InOrder(b, d, <<conn, d, sent[d] + n>>, seen)
<1>1. WireOK /\ NewTo(NextUnit(d), seen)
  BY DEF TypeInv, Sequenced
<1>2. sent[d] \in Nat /\ conn \in Int
  BY ScenarioFacts DEF TypeInv, WireOK
<1>3. CASE units = <<>>
  <2>1. b = Lookup.stream[d].buffer
    BY <1>3 DEF Buffers
  <2>2. /\ NextUnit(d) \in Places /\ <<conn, d, sent[d] + n>> \in Places
        /\ Before(NextUnit(d), <<conn, d, sent[d] + n>>) \/ NextUnit(d) = <<conn, d, sent[d] + n>>
    BY <1>2 DEF NextUnit, Places, Before
  <2>3. QED
    BY <1>1, <2>1, <2>2, LookupInOrder, InOrderLater
<1>4. CASE units # <<>> /\ b = units
  BY <1>1, <1>4, UnitsInOrder
<1>5. CASE units # <<>> /\ b = Lookup.stream[d].buffer \o units
  BY <1>1, <1>5, LookupInOrder, ConcatInOrder
<1>6. QED
  BY <1>3, <1>4, <1>5 DEF Buffers

LEMMA DispatchInOrder ==
  ASSUME IpSessionsAssumption, TypeInv, Sequenced, NEW d \in Dirs, NEW n \in Nat,
         sent[d] + n <= StreamLength,
         NEW units \in {<<>>, UnitsOf(conn, d, sent[d], n)}, NEW number \in Nat,
         NEW fin \in BOOLEAN, Dispatch(d, number, units, fin),
         scenario' = scenario, conn' = conn,
         sent'[d] = sent[d] + n, \A e \in Dirs \ {d} : sent'[e] = sent[e]
  PROVE  Sequenced' /\ OnlyNew
<1>1. WireOK /\ conn \in Int /\ sent[d] \in Nat
  BY ScenarioFacts DEF TypeInv, WireOK
<1>2. units \in Seq(Units)
  BY <1>1, UnitsFacts, EmptySeq
<1>3. /\ NextUnit(d)' = <<conn, d, sent[d] + n>>
      /\ \A e \in Dirs \ {d} : NextUnit(e)' = NextUnit(e)
  BY DEF NextUnit
<1>4. /\ NextUnit(d) \in Places /\ <<conn, d, sent[d] + n>> \in Places
      /\ Before(NextUnit(d), <<conn, d, sent[d] + n>>) \/ NextUnit(d) = <<conn, d, sent[d] + n>>
      /\ NextUnit(d)[2] = d /\ <<conn, d, sent[d] + n>>[2] = d
  BY <1>1 DEF NextUnit, Places, Before
<1>5. NewTo(<<conn, d, sent[d] + n>>, seen)
  BY <1>1, <1>4, NewToLater DEF Sequenced
<1>6. InOrder(Lookup.stream[d].buffer, d, <<conn, d, sent[d] + n>>, seen)
  BY <1>1, <1>4, LookupInOrder, InOrderLater
<1>7. \A e \in Dirs : NewTo(NextUnit(e)', seen) /\ InOrder(Lookup.stream[e].buffer, e, NextUnit(e)', seen)
  BY <1>3, <1>5, <1>6, LookupInOrder DEF Sequenced
<1>8. CASE Ignored(fin)
  <2> DEFINE s == [Lookup EXCEPT !.FIN_received = @ \/ fin]
  <2>1. s.stream = Lookup.stream
    BY LookupFacts DEF TypeInv, Sessions
  <2>2. table' = {s} /\ seen' = seen /\ out' = <<>>
    BY <1>8 DEF Ignored
  <2> HIDE DEF s
  <2>3. Sequenced'
    BY <1>7, <2>1, <2>2, NextSequenced
  <2>4. OnlyNew
    BY <2>2 DEF OnlyNew
  <2>5. QED
    BY <2>3, <2>4
<1>9. ASSUME NEW b \in Buffers(d, units), b \in Seq(Units), Taken(d, b)
      PROVE  Sequenced' /\ OnlyNew
  <2> DEFINE k == Analysed(b)
             v == <<conn, d, sent[d] + n>>
  <2>1. InOrder(b, d, v, seen)
    BY ReceivedInOrder
  <2>2. /\ InOrder(Left(b), d, v, seen \cup Heads(b, k)) /\ NewTo(v, seen \cup Heads(b, k))
        /\ \A m \in Heads(b, k) : m[2] = d
        /\ \A j \in 1..k :
             /\ MessageOf(First(b, k)[j][1]) \notin seen
             /\ \A i \in 1..k : MessageOf(First(b, k)[j][1]) = MessageOf(First(b, k)[i][1]) => j = i
    <3>1. k = Analysed(b) /\ v[2] = d /\ NewTo(v, seen) /\ b \in Seq(Units)
      BY <1>4, <1>5, <1>9
    <3> HIDE DEF k, v
    <3>2. AnalysedNew(b, d, v, seen, k)
      BY <1>1, <2>1, <3>1, AnalysedInOrder
    <3>3. QED
      BY <3>2 DEF AnalysedNew
  <2>3. out' = First(b, k) /\ seen' = seen \cup Heads(b, k) /\ DOMAIN First(b, k) = 1..k
    BY <1>9, HeadFacts DEF Taken, Found, Heads
  <2>4. OnlyNew
    BY <2>2, <2>3 DEF OnlyNew
  <2>5. ASSUME NEW e \in Dirs \ {d}
        PROVE  /\ NewTo(NextUnit(e)', seen')
               /\ InOrder(Lookup.stream[e].buffer, e, NextUnit(e)', seen')
    <3>1. NextUnit(e)'[2] = e
      BY DEF NextUnit
    <3>2. NewTo(NextUnit(e)', seen) /\ InOrder(Lookup.stream[e].buffer, e, NextUnit(e)', seen)
      BY <1>7
    <3>3. NewTo(NextUnit(e)', seen')
      BY <2>2, <2>3, <3>1, <3>2, OtherDirection
    <3>4. \A i \in 1..Len(Lookup.stream[e].buffer) :
            /\ Lookup.stream[e].buffer[i][2] = e /\ NewTo(Lookup.stream[e].buffer[i], seen)
      BY <3>2 DEF InOrder
    <3>5. \A i \in 1..Len(Lookup.stream[e].buffer) : NewTo(Lookup.stream[e].buffer[i], seen')
      <4>1. TAKE i \in 1..Len(Lookup.stream[e].buffer)
      <4> DEFINE u == Lookup.stream[e].buffer[i]
      <4>2. u[2] = e /\ NewTo(u, seen)
        BY <3>4
      <4> HIDE DEF u
      <4>3. \A m \in Heads(b, k) : m[2] # u[2]
        BY <2>2, <4>2
      <4>4. NewTo(u, seen')
        BY <2>3, <4>2, <4>3, OtherDirection
      <4>5. QED
        BY <4>4 DEF u
    <3>6. QED
      BY <3>2, <3>3, <3>5 DEF InOrder
  <2>6. \A s \in table' : s.stream[d].buffer = Left(b) /\ \A e \in Dirs \ {d} : s.stream[e] = Lookup.stream[e]
    BY <1>9 DEF Taken, Updated
  <2>7. \A e \in Dirs :
          /\ NewTo(NextUnit(e)', seen')
          /\ \A s \in table' : InOrder(s.stream[e].buffer, e, NextUnit(e)', seen')
    <3>1. TAKE e \in Dirs
    <3>2. CASE e = d
      BY <1>3, <2>2, <2>3, <2>6, <3>2
    <3>3. CASE e # d
      BY <2>5, <2>6, <3>3
    <3>4. QED
      BY <3>2, <3>3
  <2>8. QED
    BY <2>4, <2>7, NextSequenced
<1>10. QED
  BY <1>2, <1>8, <1>9, DispatchFacts

LEMMA OrderInit == ASSUME Init PROVE OrderInv
BY DEF Init, OrderInv, Sequenced, NewTo

LEMMA RepeatCounts ==
  ASSUME TypeInv, NEW d \in Dirs, Repeat(d)
  PROVE  faults'.repeated # 0
<1>1. faults \in [Kinds -> Nat] /\ "repeated" \in Kinds
  BY DEF TypeInv, WireOK, Kinds
<1>2. faults' = [faults EXCEPT !["repeated"] = @ + 1]
  BY DEF Repeat, Fault
<1>3. faults'["repeated"] = faults["repeated"] + 1 /\ faults["repeated"] \in Nat
  BY <1>1, <1>2
<1>4. QED
  BY <1>3

LEMMA OrderNext ==
  ASSUME IpSessionsAssumption, TypeInv, OrderInv, [Next]_vars, faults'.repeated = 0
  PROVE  Sequenced' /\ (UNCHANGED vars \/ OnlyNew)
<1>1. faults \in [{"lost", "repeated", "reloads", "clockBacks"} -> Nat]
  BY DEF TypeInv, WireOK, Kinds
<1>2. faults.repeated = 0 /\ \A d \in Dirs : ~ Repeat(d)
  <2>1. ASSUME NEW d \in Dirs PROVE ~ Repeat(d)
    BY RepeatCounts DEF TypeInv, WireOK, Kinds
  <2>2. ASSUME NEW d \in Dirs, Lose(d) PROVE faults.repeated = 0
    BY <1>1, <2>2 DEF Lose, Fault
  <2>3. ASSUME ClockBack \/ ReloadTargets PROVE faults.repeated = 0
    <3>1. CASE ClockBack
      BY <1>1, <3>1 DEF ClockBack, Fault
    <3>2. CASE ReloadTargets
      BY <1>1, <3>2 DEF ReloadTargets, Fault
    <3>3. QED
      BY <2>3, <3>1, <3>2
  <2>4. QED
    BY <2>1, <2>2, <2>3 DEF Next, Packet, Acknowledgement, Fin, Reuse, Hour, Dispose, vars
<1>3. Sequenced
  BY <1>2 DEF OrderInv
<1>4. conn \in Int /\ conn + 1 \in Int /\ \A d \in Dirs : sent[d] \in Nat
  BY ScenarioFacts DEF TypeInv, WireOK
<1>5. WireOK /\ scenario' = scenario
  BY DEF TypeInv, Next, vars, wire, Packet, Acknowledgement, Fin, Lose, Repeat, Reuse, Hour, ClockBack,
         ReloadTargets, Dispose
<1>6. ASSUME NEW d \in Dirs, Packet(d) \/ Fin(d) PROVE Sequenced' /\ OnlyNew
  <2>1. PICK n \in {0} \cup Sizes(d), fin \in BOOLEAN :
          Advance(d, n) /\ Dispatch(d, NumberOf(conn, sent[d]), UnitsOf(conn, d, sent[d], n), fin)
    BY <1>6 DEF Packet, Fin
  <2>2. sent'[d] = sent[d] + n /\ \A e \in Dirs \ {d} : sent'[e] = sent[e]
    BY <2>1 DEF Advance, TypeInv, WireOK
  <2>3. conn' = conn
    BY <1>6 DEF Packet, Fin
  <2>4. n \in Nat /\ sent[d] + n <= StreamLength /\ NumberOf(conn, sent[d]) \in Nat
    BY PacketFacts
  <2>5. QED
    BY <1>3, <1>5, <2>1, <2>2, <2>3, <2>4, DispatchInOrder
<1>7. ASSUME NEW d \in Dirs, Acknowledgement(d) PROVE Sequenced' /\ OnlyNew
  <2>1. Dispatch(d, NumberOf(conn, sent[d]), <<>>, FALSE) /\ conn' = conn /\ sent' = sent
    BY <1>7 DEF Acknowledgement, wire
  <2>2. 0 \in Nat /\ sent[d] + 0 <= StreamLength /\ NumberOf(conn, sent[d]) \in Nat /\ sent'[d] = sent[d] + 0
    BY <1>4, <2>1, PacketFacts
  <2>3. QED
    BY <1>3, <1>5, <2>1, <2>2, DispatchInOrder
<1>8. ASSUME UNCHANGED <<table, seen>>, out' = <<>>,
             \A d \in Dirs : /\ NextUnit(d)' \in Places /\ NextUnit(d)'[2] = d
                             /\ Before(NextUnit(d), NextUnit(d)') \/ NextUnit(d)' = NextUnit(d)
      PROVE  Sequenced' /\ OnlyNew
  <2>1. \A d \in Dirs : NextUnit(d) \in Places /\ NextUnit(d)[2] = d
    BY <1>4 DEF NextUnit, Places
  <2>2. ASSUME NEW d \in Dirs
        PROVE  /\ NewTo(NextUnit(d)', seen')
               /\ \A s \in table' : InOrder(s.stream[d].buffer, d, NextUnit(d)', seen')
    <3>1. NewTo(NextUnit(d)', seen)
      BY <1>3, <1>5, <1>8, <2>1, NewToLater DEF Sequenced
    <3>2. \A s \in table : s.stream[d].buffer \in Seq(Units)
      BY DEF TypeInv, TableOK, Sessions, Streams
    <3>3. \A s \in table : InOrder(s.stream[d].buffer, d, NextUnit(d)', seen)
      BY <1>3, <1>5, <1>8, <2>1, <3>2, InOrderLater DEF Sequenced
    <3>4. QED
      BY <1>8, <3>1, <3>3
  <2>3. OnlyNew
    BY <1>8 DEF OnlyNew
  <2>4. QED
    BY <1>5, <2>2, <2>3, NextSequenced
<1>9. ASSUME NEW d \in Dirs, Lose(d) PROVE Sequenced' /\ OnlyNew
  <2>1. UNCHANGED <<table, seen, conn>> /\ out' = <<>>
    BY <1>9 DEF Lose
  <2>2. \A e \in Dirs : sent'[e] \in Nat /\ sent[e] <= sent'[e]
    <3>1. CASE UNCHANGED sent
      BY <1>4, <3>1
    <3>2. ASSUME NEW n \in Sizes(d), Advance(d, n)
          PROVE  \A e \in Dirs : sent'[e] \in Nat /\ sent[e] <= sent'[e]
      <4>1. n \in Nat /\ sent \in [Dirs -> 0..StreamLength]
        BY PacketFacts DEF TypeInv, WireOK
      <4>2. \A e \in Dirs : sent'[e] = IF e = d THEN sent[e] + n ELSE sent[e]
        BY <3>2, <4>1 DEF Advance
      <4>3. QED
        BY <1>4, <4>1, <4>2
    <3>3. QED
      BY <1>9, <3>1, <3>2 DEF Lose
  <2>3. \A e \in Dirs : /\ NextUnit(e)' \in Places /\ NextUnit(e)'[2] = e
                        /\ Before(NextUnit(e), NextUnit(e)') \/ NextUnit(e)' = NextUnit(e)
    BY <1>4, <2>1, <2>2 DEF NextUnit, Places, Before
  <2>4. QED
    BY <1>8, <2>1, <2>3
<1>10. CASE Reuse
  <2>1. UNCHANGED <<table, seen>> /\ out' = <<>> /\ conn' = conn + 1 /\ \A e \in Dirs : sent'[e] = 0
    BY <1>10 DEF Reuse
  <2>2. \A e \in Dirs : /\ NextUnit(e)' \in Places /\ NextUnit(e)'[2] = e
                        /\ Before(NextUnit(e), NextUnit(e)')
    BY <1>4, <2>1 DEF NextUnit, Places, Before
  <2>3. QED
    BY <1>8, <2>1, <2>2
<1>11. CASE Hour \/ ClockBack \/ ReloadTargets
  <2>1. UNCHANGED <<table, seen, conn, sent>> /\ out' = <<>>
    BY <1>11 DEF Hour, ClockBack, ReloadTargets, wire
  <2>2. \A e \in Dirs : NextUnit(e)' = NextUnit(e) /\ NextUnit(e) \in Places /\ NextUnit(e)[2] = e
    BY <1>4, <2>1 DEF NextUnit, Places
  <2>3. QED
    BY <1>8, <2>1, <2>2
<1>12. CASE Dispose
  <2>1. /\ table' \subseteq table /\ seen' = seen /\ out' = <<>>
        /\ \A d \in Dirs : NextUnit(d)' = NextUnit(d)
    BY <1>12 DEF Dispose, wire, NextUnit
  <2>2. Sequenced'
    BY <1>3, <1>5, <2>1, NextSequenced DEF Sequenced
  <2>3. QED
    BY <2>1, <2>2 DEF OnlyNew
<1>13. ASSUME UNCHANGED vars PROVE Sequenced'
  BY <1>3, <1>5, <1>13, NextSequenced DEF vars, wire, Sequenced, NextUnit
<1>14. QED
  BY <1>2, <1>6, <1>7, <1>9, <1>10, <1>11, <1>12, <1>13 DEF Next

(* Without retransmissions no message is analysed twice, whatever is lost, *)
(* forgotten, reloaded or reused. (cw_analizer.cpp dispatch_ip_packet)     *)
THEOREM AnalysedOnce == Spec => OnceEach
<1> DEFINE Step == faults'.repeated = 0 => OnlyNew
<1>1. Init => TypeInv /\ OrderInv
  BY TypeInit, OrderInit, IpSessionsAssumption
<1>2. TypeInv /\ OrderInv /\ [Next]_vars => TypeInv' /\ OrderInv' /\ [Step]_vars
  BY TypeNext, OrderNext, IpSessionsAssumption DEF OrderInv
<1>3. OnceEach <=> [][Step]_vars
  BY DEF OnceEach, OnlyNew
<1>4. QED
  BY <1>1, <1>2, <1>3, PTL DEF Spec

-----------------------------------------------------------------------------
(* Remainders.                                                             *)
LEMMA Remainder ==
  ASSUME NEW m \in Nat \ {0}, NEW q \in Nat, NEW r \in 0..(m - 1)
  PROVE  (m * q + r) % m = r /\ (m * q + r) \div m = q
<1>1. m * q \in Nat
  OBVIOUS
<1>2. PICK x \in Nat : x = m * q + r
  BY <1>1
<1>3. x = m * (x \div m) + (x % m) /\ x % m \in 0..(m - 1) /\ x \div m \in Nat
  OBVIOUS
<1>4. PICK k \in Nat, t \in 0..(m - 1) : k = x \div m /\ t = x % m /\ m * q + r = m * k + t
  BY <1>2, <1>3
<1>5. ASSUME NEW a \in Nat, NEW b \in Nat, a > b PROVE m * a >= m * b + m
  <2>1. PICK y \in Nat : a = b + 1 + y
    <3>1. a - (b + 1) \in Nat /\ a = b + 1 + (a - (b + 1))
      BY <1>5
    <3>2. QED
      BY <3>1
  <2>2. m * y \in Nat /\ m * b \in Nat
    OBVIOUS
  <2>3. m * (b + 1 + y) = m * b + m + m * y
    OBVIOUS
  <2>4. QED
    BY <2>1, <2>2, <2>3
<1>6. PICK u \in Nat, v \in Nat : u = m * q /\ v = m * k /\ u + r = v + t
  BY <1>1, <1>4
<1>7. ~ (q > k)
  <2>1. SUFFICES ASSUME q > k PROVE FALSE
    OBVIOUS
  <2>2. u >= v + m
    BY <1>5, <1>6, <2>1
  <2>3. QED
    BY <1>6, <2>2
<1>8. ~ (k > q)
  <2>1. SUFFICES ASSUME k > q PROVE FALSE
    OBVIOUS
  <2>2. v >= u + m
    BY <1>5, <1>6, <2>1
  <2>3. QED
    BY <1>6, <2>2
<1>9. q = k
  BY <1>7, <1>8
<1>10. r = t
  BY <1>6, <1>9
<1>11. QED
  BY <1>2, <1>4, <1>9, <1>10

LEMMA RemainderOfSum ==
  ASSUME NEW m \in Nat \ {0}, NEW a \in Nat, NEW n \in Nat
  PROVE  ((a % m) + n) % m = (a + n) % m
<1>1. PICK q \in Nat, r \in Nat : a = m * q + r /\ r = a % m
  <2>1. a = m * (a \div m) + (a % m) /\ a \div m \in Nat /\ a % m \in Nat
    OBVIOUS
  <2>2. QED
    BY <2>1
<1>2. PICK x \in Nat : x = r + n
  OBVIOUS
<1>3. PICK p \in Nat, t \in 0..(m - 1) : x = m * p + t /\ t = x % m
  <2>1. x = m * (x \div m) + (x % m) /\ x \div m \in Nat /\ x % m \in 0..(m - 1)
    OBVIOUS
  <2>2. QED
    BY <2>1
<1>4. a + n = m * (q + p) + t
  <2>1. m * (q + p) = m * q + m * p /\ m * q \in Nat /\ m * p \in Nat
    OBVIOUS
  <2>2. QED
    BY <1>1, <1>2, <1>3, <2>1
<1>5. (m * (q + p) + t) % m = t
  BY Remainder
<1>6. QED
  BY <1>1, <1>2, <1>3, <1>4, <1>5

LEMMA RemainderMoves ==
  ASSUME NEW m \in Nat \ {0}, NEW a \in Nat, NEW n \in 1..(m - 1)
  PROVE  (a + n) % m # a % m
<1>1. PICK q \in Nat, r \in 0..(m - 1) : a = m * q + r /\ r = a % m
  <2>1. a = m * (a \div m) + (a % m) /\ a \div m \in Nat /\ a % m \in 0..(m - 1)
    OBVIOUS
  <2>2. QED
    BY <2>1
<1>2. m * q \in Nat /\ m * (q + 1) = m * q + m /\ n \in Nat /\ r \in Nat
  OBVIOUS
<1>3. CASE r + n < m
  <2>1. PICK t \in 0..(m - 1) : t = r + n
    BY <1>2, <1>3
  <2>2. a + n = m * q + t
    BY <1>1, <1>2, <2>1
  <2>3. (m * q + t) % m = t
    BY Remainder
  <2>4. t # r
    BY <1>2, <2>1
  <2>5. QED
    BY <1>1, <2>2, <2>3, <2>4
<1>4. CASE ~ (r + n < m)
  <2>1. PICK t \in 0..(m - 1) : t = r + n - m
    BY <1>2, <1>4
  <2>2. a + n = m * (q + 1) + t
    BY <1>1, <1>2, <2>1
  <2>3. (m * (q + 1) + t) % m = t
    <3>1. q + 1 \in Nat
      OBVIOUS
    <3>2. QED
      BY <3>1, Remainder
  <2>4. t # r
    BY <1>2, <2>1
  <2>5. QED
    BY <1>1, <2>2, <2>3, <2>4
<1>5. QED
  BY <1>3, <1>4

-----------------------------------------------------------------------------
(* A buffer holds consecutive units of one direction, up to a place.       *)
Run(b, c, d, end) == \A i \in 1..Len(b) : b[i] = <<c, d, end - Len(b) + i - 1>>

LEMMA RunOfNothing == ASSUME NEW c, NEW d, NEW end PROVE Run(<<>>, c, d, end)
BY DEF Run

LEMMA RunOfUnits ==
  ASSUME IpSessionsAssumption, WireOK, NEW d \in Dirs, NEW from \in Nat, NEW n \in Nat,
         from + n <= StreamLength
  PROVE  Run(UnitsOf(conn, d, from, n), conn, d, from + n)
<1>1. Len(UnitsOf(conn, d, from, n)) = n
  BY UnitsFacts
<1>2. ASSUME NEW i \in 1..n
      PROVE  UnitsOf(conn, d, from, n)[i] = <<conn, d, from + n - n + i - 1>>
  <2>1. UnitsOf(conn, d, from, n)[i] = <<conn, d, from + i - 1>>
    BY UnitsFacts
  <2>2. from + i - 1 = from + n - n + i - 1
    OBVIOUS
  <2>3. QED
    BY <2>1, <2>2
<1> PICK units : units = UnitsOf(conn, d, from, n)
  OBVIOUS
<1>3. Len(units) = n /\ \A i \in 1..n : units[i] = <<conn, d, from + n - n + i - 1>>
  BY <1>1, <1>2
<1>4. QED
  BY <1>3 DEF Run

LEMMA RunGrows ==
  ASSUME IpSessionsAssumption, WireOK, NEW d \in Dirs, NEW from \in Nat, NEW n \in Nat,
         from + n <= StreamLength, NEW b \in Seq(Units), Run(b, conn, d, from)
  PROVE  Run(b \o UnitsOf(conn, d, from, n), conn, d, from + n)
<1> DEFINE units == UnitsOf(conn, d, from, n)
           whole == b \o units
<1>1. PICK l \in Nat : l = Len(b)
  OBVIOUS
<1>2. units \in Seq(Units) /\ Len(units) = n /\ \A i \in 1..n : units[i] = <<conn, d, from + i - 1>>
  BY UnitsFacts
<1> HIDE DEF units
<1>3. Len(whole) = l + n /\ \A i \in 1..(l + n) : whole[i] = IF i <= l THEN b[i] ELSE units[i - l]
  BY <1>1, <1>2, ConcatProperties
<1> HIDE DEF whole
<1>4. ASSUME NEW i \in 1..(l + n)
      PROVE  whole[i] = <<conn, d, from + n - (l + n) + i - 1>>
  <2>1. CASE i <= l
    <3>1. i \in 1..l /\ from - l + i - 1 = from + n - (l + n) + i - 1
      BY <2>1
    <3>2. b[i] = <<conn, d, from - l + i - 1>>
      BY <1>1, <3>1 DEF Run
    <3>3. QED
      BY <1>3, <2>1, <3>1, <3>2
  <2>2. CASE ~ (i <= l)
    <3>1. i - l \in 1..n /\ from + (i - l) - 1 = from + n - (l + n) + i - 1
      BY <2>2
    <3>2. units[i - l] = <<conn, d, from + (i - l) - 1>>
      BY <1>2, <3>1
    <3>3. QED
      BY <1>3, <2>2, <3>1, <3>2
  <2>3. QED
    BY <2>1, <2>2
<1>5. Run(whole, conn, d, from + n)
  BY <1>3, <1>4 DEF Run
<1>6. QED
  BY <1>5 DEF whole, units

LEMMA AfterLength ==
  ASSUME IpSessionsAssumption, NEW S, NEW b \in Seq(S), NEW k \in Nat, k * MessageLength <= Len(b)
  PROVE  Len(After(b, k)) = Len(b) - k * MessageLength
<1>1. PICK m \in Nat, l \in Nat : m = k * MessageLength /\ l = Len(b) /\ m <= l
  <2>1. MessageLength \in Positive
    BY DEF IpSessionsAssumption
  <2>2. k * MessageLength \in Nat
    BY <2>1, Multiples
  <2>3. Len(b) \in Nat
    OBVIOUS
  <2>4. QED
    BY <2>2, <2>3
<1>2. \A i \in (m + 1)..l : b[i] \in S
  BY <1>1, ElementOfSeq
<1>3. Len(SubSeq(b, m + 1, l)) = IF m + 1 <= l THEN l - (m + 1) + 1 ELSE 0
  <2>1. m + 1 \in Int /\ l \in Int
    OBVIOUS
  <2>2. QED
    BY <1>2, <2>1, SubSeqProperties
<1>4. Len(SubSeq(b, m + 1, l)) = l - m
  <2>1. m <= l
    BY <1>1
  <2>2. (IF m + 1 <= l THEN l - (m + 1) + 1 ELSE 0) = l - m
    BY <2>1
  <2>3. QED
    BY <1>3, <2>2
<1>5. QED
  BY <1>1, <1>4 DEF After

LEMMA Shift ==
  ASSUME NEW e \in Int, NEW l \in Int, NEW m \in Int, NEW i \in Int
  PROVE  e - l + (i + m) - 1 = e - (l - m) + i - 1
OBVIOUS

LEMMA RunAfter ==
  ASSUME IpSessionsAssumption, NEW b \in Seq(Units), NEW k \in Nat, k * MessageLength <= Len(b),
         NEW c, NEW d, NEW end \in Nat, Run(b, c, d, end)
  PROVE  Run(After(b, k), c, d, end)
<1>1. PICK m \in Nat, l \in Nat : m = k * MessageLength /\ l = Len(b) /\ m <= l
  <2>1. MessageLength \in Positive
    BY DEF IpSessionsAssumption
  <2>2. k * MessageLength \in Nat
    BY <2>1, Multiples
  <2>3. Len(b) \in Nat
    OBVIOUS
  <2>4. QED
    BY <2>2, <2>3
<1> DEFINE rest == After(b, k)
<1>2. Len(rest) = l - m
  BY <1>1, AfterLength
<1>3. \A i \in 1..(l - m) : i + m \in 1..l /\ rest[i] = b[i + m]
  <2>1. \A i \in 1..Len(rest) :
          i + k * MessageLength \in 1..Len(b) /\ rest[i] = b[i + k * MessageLength]
    BY AfterFacts
  <2>2. QED
    BY <1>1, <1>2, <2>1
<1> HIDE DEF rest
<1>4. ASSUME NEW i \in 1..(l - m)
      PROVE  rest[i] = <<c, d, end - (l - m) + i - 1>>
  <2>1. b[i + m] = <<c, d, end - l + (i + m) - 1>>
    BY <1>1, <1>3 DEF Run
  <2>2. end - l + (i + m) - 1 = end - (l - m) + i - 1
    BY Shift
  <2>3. QED
    BY <1>3, <2>1, <2>2
<1>5. QED
  BY <1>2, <1>4 DEF Run, rest

LEMMA RunLeft ==
  ASSUME IpSessionsAssumption, NEW b \in Seq(Units), NEW c, NEW d, NEW end \in Nat, Run(b, c, d, end)
  PROVE  Run(Left(b), c, d, end)
<1>1. Analysed(b) \in Nat /\ Analysed(b) * MessageLength <= Len(b)
  BY AnalysedFacts
<1>2. QED
  BY <1>1, LeftIsAfter, RunAfter, RunOfNothing

(* The messages at the head of a run are messages that were sent.          *)
GenuineIn(messages) ==
  \A j \in DOMAIN messages : \A i \in 1..MessageLength :
    /\ MessageOf(messages[j][i]) = MessageOf(messages[j][1])
    /\ messages[j][i][3] % MessageLength = i - 1

LEMMA FirstUnits ==
  ASSUME IpSessionsAssumption, NEW S, NEW b \in Seq(S), NEW k \in Nat, k * MessageLength <= Len(b),
         NEW j \in 1..k, NEW i \in 1..MessageLength
  PROVE  /\ (j - 1) * MessageLength + i \in 1..Len(b)
         /\ First(b, k)[j][i] = b[(j - 1) * MessageLength + i]
<1>1. PICK m \in Nat, l \in Nat, w \in Nat, x \in Nat \ {0} :
        /\ m = (j - 1) * MessageLength /\ l = Len(b) /\ w = k * MessageLength /\ x = MessageLength
        /\ j * MessageLength = m + x /\ m + x <= w /\ w <= l
  <2>1. MessageLength \in Positive /\ j - 1 \in Nat /\ j - 1 < k
    BY DEF IpSessionsAssumption
  <2>2. /\ (j - 1) * MessageLength \in Nat /\ k * MessageLength \in Nat
        /\ (j - 1 + 1) * MessageLength <= k * MessageLength
        /\ (j - 1 + 1) * MessageLength = (j - 1) * MessageLength + MessageLength
    BY <2>1, Multiples
  <2>3. j - 1 + 1 = j
    OBVIOUS
  <2>4. /\ MessageLength \in Nat \ {0} /\ Len(b) \in Nat
        /\ j * MessageLength = (j - 1) * MessageLength + MessageLength
        /\ (j - 1) * MessageLength + MessageLength <= k * MessageLength
    BY <2>1, <2>2, <2>3 DEF Positive
  <2>5. QED
    BY <2>2, <2>4
<1>2. First(b, k)[j] = SubSeq(b, m + 1, m + x)
  BY <1>1 DEF First
<1>3. \A n \in (m + 1)..(m + x) : b[n] \in S
  BY <1>1, ElementOfSeq
<1>4. \A n \in 1..(m + x - (m + 1) + 1) : SubSeq(b, m + 1, m + x)[n] = b[m + 1 + n - 1]
  <2>1. m + 1 \in Int /\ m + x \in Int
    OBVIOUS
  <2>2. QED
    BY <1>3, <2>1, SubSeqProperties
<1>5. i \in 1..x /\ i \in 1..(m + x - (m + 1) + 1) /\ m + 1 + i - 1 = m + i /\ m + i \in 1..l
  BY <1>1
<1>6. QED
  BY <1>1, <1>2, <1>4, <1>5

LEMMA RunGenuine ==
  ASSUME IpSessionsAssumption, WireOK, NEW b \in Seq(Units), NEW c, NEW d, NEW end \in Nat, Run(b, c, d, end)
  PROVE  GenuineIn(First(b, Analysed(b)))
<1> DEFINE k == Analysed(b)
<1>1. /\ k \in Nat /\ k * MessageLength <= Len(b)
      /\ \A j \in 1..k : IsHeader(b[(j - 1) * MessageLength + 1])
  BY AnalysedFacts
<1> HIDE DEF k
<1>2. DOMAIN First(b, k) = 1..k
  BY <1>1, FirstFacts
<1>3. SUFFICES ASSUME NEW j \in 1..k, NEW i \in 1..MessageLength
               PROVE  /\ MessageOf(First(b, k)[j][i]) = MessageOf(First(b, k)[j][1])
                      /\ First(b, k)[j][i][3] % MessageLength = i - 1
  BY <1>2 DEF GenuineIn, k
<1>4. PICK x \in Nat \ {0}, l \in Nat, m \in Int :
        x = MessageLength /\ l = Len(b) /\ m = (j - 1) * MessageLength
  BY DEF IpSessionsAssumption, Positive
<1>5. 1 \in 1..MessageLength
  BY <1>4
<1>6. /\ m + i \in 1..l /\ First(b, k)[j][i] = b[m + i]
      /\ m + 1 \in 1..l /\ First(b, k)[j][1] = b[m + 1]
  <2>1. \A y \in 1..MessageLength :
          /\ (j - 1) * MessageLength + y \in 1..Len(b)
          /\ First(b, k)[j][y] = b[(j - 1) * MessageLength + y]
    <3>1. k \in Nat /\ k * MessageLength <= Len(b) /\ j \in 1..k /\ b \in Seq(Units)
      BY <1>1
    <3>2. QED
      BY <3>1, FirstUnits, SMTT(20)
  <2>2. QED
    BY <1>4, <1>5, <2>1
<1>7. PICK p \in Int : p = end - l + (m + 1) - 1
  OBVIOUS
<1>8. b[m + 1] = <<c, d, p>> /\ b[m + i] = <<c, d, p + (i - 1)>>
  <2>1. b[m + 1] = <<c, d, end - l + (m + 1) - 1>> /\ b[m + i] = <<c, d, end - l + (m + i) - 1>>
    BY <1>4, <1>6 DEF Run
  <2>2. i \in Nat
    BY <1>4
  <2>3. end - l + (m + i) - 1 = p + (i - 1)
    BY <1>7, <2>2
  <2>4. QED
    BY <1>7, <2>1, <2>3
<1>9. p \in Nat /\ p % x = 0
  <2>1. b[m + 1] \in Units
    BY <1>4, <1>6, ElementOfSeq
  <2>2. StreamLength \in Nat
    BY ScenarioFacts DEF WireOK
  <2>3. p \in Nat
    BY <1>8, <2>1, <2>2 DEF Units
  <2>4. IsHeader(b[m + 1])
    BY <1>1, <1>4
  <2>5. QED
    BY <1>4, <1>8, <2>3, <2>4 DEF IsHeader
<1>10. PICK q \in Nat : p = x * q + 0
  <2>1. p = x * (p \div x) + (p % x) /\ p \div x \in Nat
    BY <1>9
  <2>2. QED
    BY <1>9, <2>1
<1>11. i - 1 \in 0..(x - 1) /\ 0 \in 0..(x - 1)
  BY <1>4
<1>12. PICK r \in 0..(x - 1) : r = i - 1
  BY <1>11
<1>13. (x * q + r) % x = r /\ (x * q + r) \div x = q /\ (x * q + 0) \div x = q
  BY <1>11, Remainder
<1>14. x * q \in Nat /\ p + (i - 1) = x * q + r /\ p = x * q
  BY <1>10, <1>12
<1>15. (p + (i - 1)) % x = i - 1 /\ (p + (i - 1)) \div x = q /\ p \div x = q
  BY <1>10, <1>12, <1>13, <1>14
<1>16. MessageOf(b[m + i]) = MessageOf(b[m + 1]) /\ b[m + i][3] = p + (i - 1)
  <2>1. MessageOf(b[m + i]) = <<c, d, (p + (i - 1)) \div x>> /\ MessageOf(b[m + 1]) = <<c, d, p \div x>>
    BY <1>4, <1>8 DEF MessageOf
  <2>2. MessageOf(b[m + i]) = MessageOf(b[m + 1])
    BY <1>15, <2>1, Zenon
  <2>3. b[m + i][3] = p + (i - 1)
    BY <1>8
  <2>4. QED
    BY <2>2, <2>3
<1>17. QED
  BY <1>4, <1>6, <1>15, <1>16

-----------------------------------------------------------------------------
(* A stream that expects the next unit of the connection, and one that will *)
(* see that a packet is not the one it expects.                            *)
Caught(d, st) ==
  Run(st.buffer, conn, d, sent[d]) /\ (st.valid => st.sequence = NumberOf(conn, sent[d]))
Behind(d, st) == st.valid /\ st.sequence # NumberOf(conn, sent[d])

(* While the numbers are straight nothing is behind before the gap; a       *)
(* stream that has passed the gap takes the number of its next packet       *)
(* unseen, which is why a second gap splices.                               *)
StreamOK(d, st) ==
  /\ \E c \in Nat, end \in Nat : Run(st.buffer, c, d, end)
  /\ d \notin finished => Caught(d, st) \/ Behind(d, st)
  /\ faults.lost + conn = 1 /\ Straight =>
       /\ st.valid \/ st.buffer = <<>>
       /\ d \notin finished => Caught(d, st)
       /\ st.valid => \E pos \in 0..StreamLength : st.sequence = NumberOf(1, pos)
StreamsOK == \A s \in table : \A d \in Dirs : StreamOK(d, s.stream[d])
Reassembled ==
  /\ faults.reloads = 0 => target
  /\ OneGap /\ target => StreamsOK
  /\ OneGap => GenuineIn(out)

LEMMA WireBounds ==
  ASSUME IpSessionsAssumption, WireOK, NEW c \in 1..scenario.connections, NEW pos \in Nat
  PROVE  WireModulus \in Nat \ {0} /\ WireNumber(c, pos) \in Nat /\ WireNumber(c, pos) < WireModulus
<1>1. WireModulus \in Nat \ {0}
  BY DEF IpSessionsAssumption, Positive
<1>2. scenario.firstNumber[c] \in 0..(WireModulus - 1)
  BY ScenarioFacts DEF WireOK
<1>3. PICK a \in Nat, m \in Nat \ {0} : a = scenario.firstNumber[c] + pos /\ m = WireModulus
  BY <1>1, <1>2
<1>4. a % m \in Nat /\ a % m < m
  OBVIOUS
<1>5. QED
  BY <1>1, <1>3, <1>4 DEF WireNumber

LEMMA Sums == ASSUME NEW f \in Int, NEW p \in Int, NEW n \in Int PROVE f + (p + n) = (f + p) + n
OBVIOUS

LEMMA WireMoves ==
  ASSUME IpSessionsAssumption, WireOK, NEW c \in 1..scenario.connections, NEW pos \in Nat,
         NEW n \in Nat, NEW m, m = WireModulus
  PROVE  WireNumber(c, pos + n) = (WireNumber(c, pos) + n) % m
<1>1. m \in Nat \ {0}
  BY DEF IpSessionsAssumption, Positive
<1>2. scenario.firstNumber[c] \in Nat
  <2>1. scenario.firstNumber[c] \in 0..(m - 1)
    BY ScenarioFacts DEF WireOK
  <2>2. QED
    BY <1>1, <2>1
<1>3. PICK f \in Nat, a \in Nat : f = scenario.firstNumber[c] /\ a = f + pos
  BY <1>2
<1>4. f + (pos + n) = a + n
  BY <1>3, Sums
<1>5. ((a % m) + n) % m = (a + n) % m
  BY <1>1, RemainderOfSum
<1>6. WireNumber(c, pos) = a % m /\ WireNumber(c, pos + n) = (a + n) % m
  BY <1>3, <1>4, Zenon DEF WireNumber
<1>7. QED
  BY <1>5, <1>6, Zenon

(* A sum below twice the modulus.                                          *)
LEMMA SmallRemainder ==
  ASSUME NEW m \in Nat \ {0}, NEW s \in Nat, s < 2 * m
  PROVE  s % m = IF s < m THEN s ELSE s - m
<1>1. CASE s < m
  <2>1. (m * 0 + s) % m = s
    BY <1>1, Remainder
  <2>2. m * 0 + s = s
    OBVIOUS
  <2>3. QED
    BY <1>1, <2>1, <2>2
<1>2. CASE ~ (s < m)
  <2>1. PICK r \in 0..(m - 1) : r = s - m
    BY <1>2
  <2>2. (m * 1 + r) % m = r
    BY Remainder
  <2>3. m * 1 + r = s
    BY <2>1
  <2>4. QED
    BY <1>2, <2>1, <2>2, <2>3
<1>3. QED
  BY <1>1, <1>2

(* A number x, the one k later on the wire, and both where the upper half  *)
(* of m numbers stands at the end of l.                                    *)
LEMMA Crossing ==
  ASSUME NEW m \in Nat \ {0}, NEW l \in Nat \ {0}, m <= l, NEW k \in Nat, 1 <= k, k < m,
         NEW x \in Nat, x < m, NEW y \in Nat, y = IF x + k < m THEN x + k ELSE x + k - m,
         NEW a \in Nat, a = IF 2 * x < m THEN x ELSE x + (l - m),
         NEW b \in Nat, b = IF 2 * y < m THEN y ELSE y + (l - m)
  PROVE  /\ a # b
         /\ l = m \/ (x + k < m /\ (2 * y >= m => 2 * x >= m)) \/ (~ (x + k < m) /\ 2 * x >= m /\ 2 * y < m)
              => (a + k) % l = b
<1>1. a # b /\ a < l /\ y < m
  OBVIOUS
<1>2. PICK s \in Nat : s = a + k /\ s < 2 * l
  BY <1>1
<1>3. s % l = IF s < l THEN s ELSE s - l
  BY <1>2, SmallRemainder
<1>4. CASE l = m
  <2>1. a = x /\ b = y
    BY <1>4
  <2>2. b = IF s < l THEN s ELSE s - l
    BY <1>2, <1>4, <2>1
  <2>3. QED
    BY <1>1, <1>2, <1>3, <2>2
<1>5. CASE x + k < m /\ (2 * y >= m => 2 * x >= m)
  <2>1. (2 * y < m => 2 * x < m) /\ y = x + k
    BY <1>5
  <2>2. b = s /\ s < l
    BY <1>2, <1>5, <2>1
  <2>3. QED
    BY <1>1, <1>2, <1>3, <2>2
<1>6. CASE ~ (x + k < m) /\ 2 * x >= m /\ 2 * y < m
  <2>1. b = s - l /\ ~ (s < l)
    BY <1>2, <1>6
  <2>2. QED
    BY <1>1, <1>2, <1>3, <2>1
<1>7. QED
  BY <1>1, <1>4, <1>5, <1>6

(* The places of the border between the numbers x and x + k.               *)
LEMMA Borders ==
  ASSUME NEW m \in Nat \ {0}, NEW k \in Nat, k < m, NEW x \in Nat, x < m, ~ (x + k < m)
  PROVE  /\ m - 1 - x \in Nat /\ m - 1 - x <= k /\ x + (m - 1 - x) = m - 1
         /\ m - x \in Nat /\ m - x <= k /\ x + (m - x) = m
OBVIOUS

(* The number of a packet as the code reads it is never that of the packet *)
(* before, and while the numbers are straight it is what the code expects. *)
LEMMA NumberMoves ==
  ASSUME IpSessionsAssumption, SpacesAssumption, WireOK, NEW c \in 1..scenario.connections, NEW pos \in Nat,
         NEW n \in scenario.segments
  PROVE  /\ Straight /\ pos + n <= StreamLength => (NumberOf(c, pos) + n) % LongModulus = NumberOf(c, pos + n)
         /\ NumberOf(c, pos + n) # NumberOf(c, pos)
<1> DEFINE W(i) == WireNumber(c, pos + i)
<1>1. PICK m \in Nat \ {0}, l \in Nat \ {0} : m = WireModulus /\ l = LongModulus /\ m <= l
  BY DEF IpSessionsAssumption, Positive
<1>2. PICK k \in Nat : k = n /\ 1 <= k /\ k < m
  <2>1. n \in Nat /\ 1 <= n
    BY ScenarioFacts DEF WireOK, Positive
  <2>2. n < WireModulus
    BY DEF WireOK, SpacesAssumption
  <2>3. QED
    BY <1>1, <2>1, <2>2
<1>3. PICK x \in Nat : x = WireNumber(c, pos) /\ x < m
  BY <1>1, WireBounds
<1>4. ASSUME NEW i \in Nat, i <= k PROVE W(i) = IF x + i < m THEN x + i ELSE x + i - m
  <2>1. PICK s \in Nat : s = x + i /\ s < 2 * m
    BY <1>2, <1>3, <1>4
  <2>2. W(i) = s % m
    <3>1. WireNumber(c, pos + i) = (WireNumber(c, pos) + i) % m
      BY <1>1, WireMoves
    <3>2. QED
      BY <1>3, <2>1, <3>1, Zenon
  <2>3. s % m = IF s < m THEN s ELSE s - m
    BY <2>1, SmallRemainder
  <2>4. QED
    BY <2>1, <2>2, <2>3
<1>5. PICK y \in Nat : y = W(k) /\ y = (IF x + k < m THEN x + k ELSE x + k - m) /\ y < m
  BY <1>2, <1>3, <1>4
<1>6. PICK a \in Nat : a = NumberOf(c, pos) /\ a = IF 2 * x < m THEN x ELSE x + (l - m)
  BY <1>1, <1>3 DEF NumberOf, BE4
<1>7. PICK b \in Nat : b = NumberOf(c, pos + k) /\ b = IF 2 * y < m THEN y ELSE y + (l - m)
  BY <1>1, <1>5 DEF NumberOf, BE4
<1> HIDE DEF W
<1>8. /\ a # b
      /\ l = m \/ (x + k < m /\ (2 * y >= m => 2 * x >= m)) \/ (~ (x + k < m) /\ 2 * x >= m /\ 2 * y < m)
           => (a + k) % l = b
  <2>1. y = IF x + k < m THEN x + k ELSE x + k - m
    BY <1>5
  <2>2. a = IF 2 * x < m THEN x ELSE x + (l - m)
    BY <1>6
  <2>3. b = IF 2 * y < m THEN y ELSE y + (l - m)
    BY <1>7
  <2>4. m <= l /\ 1 <= k /\ k < m /\ x < m
    BY <1>1, <1>2, <1>3
  <2>5. QED
    BY <2>1, <2>2, <2>3, <2>4, Crossing
<1>9. ASSUME Straight, pos + k <= StreamLength, l # m, NEW i \in Nat, NEW j \in Nat, i <= j, j <= k,
             2 * W(j) >= m
      PROVE  2 * W(i) >= m
  <2>1. PICK g \in Nat : g = StreamLength
    BY ScenarioFacts DEF WireOK
  <2>2. pos + i \in 0..g /\ pos + j \in (pos + i)..g
    BY <1>9, <2>1
  <2>3. \A p \in 0..StreamLength : \A q \in p..StreamLength :
          2 * WireNumber(c, q) >= WireModulus => 2 * WireNumber(c, p) >= WireModulus
    BY <1>1, <1>9, Zenon DEF Straight
  <2>4. 2 * WireNumber(c, pos + j) >= WireModulus => 2 * WireNumber(c, pos + i) >= WireModulus
    BY <2>1, <2>2, <2>3
  <2>5. QED
    BY <1>1, <1>9, <2>4 DEF W
<1>10. ASSUME Straight, pos + k <= StreamLength, l # m
       PROVE  (x + k < m /\ (2 * y >= m => 2 * x >= m)) \/ (~ (x + k < m) /\ 2 * x >= m /\ 2 * y < m)
  <2>1. W(0) = x /\ 0 <= k /\ k <= k /\ 0 \in Nat
    BY <1>2, <1>3, <1>4
  <2>2. 2 * y >= m => 2 * x >= m
    BY <1>5, <1>9, <1>10, <2>1
  <2>3. CASE ~ (x + k < m)
    <3>1. PICK i \in Nat, j \in Nat : i <= k /\ j <= k /\ x + i = m - 1 /\ x + j = m
      <4>1. k < m /\ x < m
        BY <1>2, <1>3
      <4>2. /\ m - 1 - x \in Nat /\ m - 1 - x <= k /\ x + (m - 1 - x) = m - 1
            /\ m - x \in Nat /\ m - x <= k /\ x + (m - x) = m
        BY <2>3, <4>1, Borders
      <4>3. QED
        BY <4>2, Zenon
    <3>2. W(i) = m - 1 /\ W(j) = 0
      BY <1>4, <3>1
    <3>3. 2 * (m - 1) >= m /\ ~ (2 * 0 >= m)
      <4>1. 1 <= k /\ k < m
        BY <1>2
      <4>2. QED
        BY <4>1
    <3>4. 2 * W(i) >= m => 2 * W(0) >= m
      <4>1. 0 <= i
        OBVIOUS
      <4>2. QED
        BY <1>9, <1>10, <2>1, <3>1, <4>1
    <3>5. 2 * W(k) >= m => 2 * W(j) >= m
      BY <1>9, <1>10, <2>1, <3>1
    <3>6. 2 * x >= m
      BY <2>1, <3>2, <3>3, <3>4
    <3>7. ~ (2 * y >= m)
      BY <1>5, <3>2, <3>3, <3>5
    <3>8. QED
      BY <2>3, <3>6, <3>7
  <2>4. QED
    BY <2>2, <2>3
<1>11. Straight /\ pos + k <= StreamLength => (a + k) % l = b
  BY <1>8, <1>10
<1>12. QED
  BY <1>1, <1>2, <1>6, <1>7, <1>8, <1>11, Zenon

(* What a stream that is in order, or sees that it is not, makes of the    *)
(* next packet.                                                            *)
LEMMA ReceiveRun ==
  ASSUME IpSessionsAssumption, SpacesAssumption, WireOK, NEW d \in Dirs, NEW n \in scenario.segments,
         sent[d] + n <= StreamLength, NEW st \in Streams, Caught(d, st) \/ Behind(d, st)
  PROVE  LET r == Receive(st, NumberOf(conn, sent[d]), UnitsOf(conn, d, sent[d], n))
         IN  /\ Run(r.buffer, conn, d, sent[d] + n)
             /\ Straight /\ r.valid => r.sequence = NumberOf(conn, sent[d] + n)
             /\ Caught(d, st) => r.valid
             /\ Caught(d, st) => r.buffer = st.buffer \o UnitsOf(conn, d, sent[d], n)
<1> DEFINE units == UnitsOf(conn, d, sent[d], n)
           number == NumberOf(conn, sent[d])
           r == Receive(st, number, units)
<1>1. n \in Nat \ {0} /\ sent[d] \in Nat /\ conn \in 1..scenario.connections
  BY ScenarioFacts DEF WireOK, Positive
<1>2. units \in Seq(Units) /\ Len(units) = n /\ units # <<>>
  <2>1. units \in Seq(Units) /\ Len(units) = n
    BY <1>1, UnitsFacts
  <2>2. Len(<<>>) = 0
    OBVIOUS
  <2>3. QED
    BY <1>1, <2>1, <2>2
<1>3. Run(units, conn, d, sent[d] + n)
  BY <1>1, RunOfUnits
<1>4. Straight => (number + n) % LongModulus = NumberOf(conn, sent[d] + n)
  BY <1>1, NumberMoves
<1> HIDE DEF units, number
<1>5. CASE st.valid /\ st.sequence # number
  <2>1. r = [st EXCEPT !.valid = FALSE, !.buffer = units]
    BY <1>2, <1>5 DEF Receive
  <2>2. r.buffer = units /\ r.valid = FALSE
    BY <2>1 DEF Streams
  <2>3. ~ Caught(d, st)
    BY <1>5 DEF Caught, number
  <2>4. QED
    BY <1>3, <2>2, <2>3 DEF units, number
<1>6. CASE ~ (st.valid /\ st.sequence # number)
  <2>1. r = [valid |-> TRUE, sequence |-> (number + n) % LongModulus, buffer |-> st.buffer \o units]
    BY <1>2, <1>6 DEF Receive
  <2>2. r.buffer = st.buffer \o units /\ r.valid /\ r.sequence = (number + n) % LongModulus
    BY <2>1
  <2>3. Run(st.buffer, conn, d, sent[d]) /\ st.buffer \in Seq(Units)
    BY <1>6 DEF Caught, Behind, Streams, number
  <2>4. Run(st.buffer \o units, conn, d, sent[d] + n)
    BY <1>1, <2>3, RunGrows DEF units
  <2>5. QED
    BY <1>4, <2>2, <2>4 DEF units, number
<1>7. QED
  BY <1>5, <1>6

(* What a dispatcher leaves is still in order.                             *)
LEMMA StreamLeft ==
  ASSUME IpSessionsAssumption, NEW d \in Dirs, NEW st \in Streams
  PROVE  LET k == [st EXCEPT !.buffer = Left(st.buffer)]
         IN  /\ k.valid = st.valid /\ k.sequence = st.sequence /\ k.buffer = Left(st.buffer)
             /\ st.buffer = <<>> => k.buffer = <<>>
<1>1. st.buffer \in Seq(Units)
  BY DEF Streams
<1>2. st.buffer = <<>> => Left(st.buffer) = <<>>
  <2>1. SUFFICES ASSUME st.buffer = <<>> PROVE After(<<>>, Analysed(<<>>)) = <<>>
    BY LeftIsAfter
  <2>2. Len(<<>>) = 0 /\ <<>> \in Seq(Units)
    BY EmptySeq
  <2>3. Analysed(<<>>) \in Nat /\ Analysed(<<>>) * MessageLength \in Nat /\ Analysed(<<>>) * MessageLength <= 0
    BY <2>2, AnalysedFacts
  <2>4. Len(After(<<>>, Analysed(<<>>))) = 0 /\ After(<<>>, Analysed(<<>>)) \in Seq(Units)
    <3> DEFINE e == <<>>
               k == Analysed(e)
    <3>1. e \in Seq(Units) /\ Len(e) = 0 /\ k \in Nat /\ k * MessageLength <= Len(e)
          /\ k * MessageLength = 0
      BY <2>2, <2>3
    <3> HIDE DEF e, k
    <3>2. Len(After(e, k)) = Len(e) - k * MessageLength /\ After(e, k) \in Seq(Units)
      BY <3>1, AfterLength, AfterFacts
    <3>3. QED
      BY <3>1, <3>2 DEF e, k
  <2>5. QED
    BY <2>4, EmptySeq
<1>3. QED
  BY <1>2 DEF Streams

-----------------------------------------------------------------------------
(* Every step keeps the streams in order.                                  *)
LEMMA SameStream ==
  ASSUME scenario' = scenario, conn' = conn, faults'.lost = faults.lost, NEW e \in Dirs,
         sent'[e] = sent[e], e \in finished => e \in finished', NEW st, StreamOK(e, st)
  PROVE  StreamOK(e, st)'
BY DEF StreamOK, Caught, Behind, NumberOf, WireNumber, StreamLength, Straight

LEMMA EndedStream ==
  ASSUME scenario' = scenario, conn' = conn, faults'.lost = faults.lost, NEW e \in Dirs,
         e \in finished', NEW st, StreamOK(e, st)
  PROVE  StreamOK(e, st)'
BY DEF StreamOK, NumberOf, WireNumber, StreamLength, Straight

LEMMA LookupOK ==
  ASSUME IpSessionsAssumption, WireOK, TableOK, StreamsOK, NEW d \in Dirs
  PROVE  Lookup.stream[d] \in Streams /\ StreamOK(d, Lookup.stream[d])
<1>1. Lookup.stream[d] \in Streams
  BY LookupFacts DEF Sessions
<1>2. CASE table = {}
  <2>1. Lookup.stream[d] = NewStream
    BY <1>2, LookupFacts DEF NewSession
  <2>2. NewStream.valid = FALSE /\ NewStream.buffer = <<>>
    BY DEF NewStream
  <2>3. Run(<<>>, conn, d, sent[d]) /\ Run(<<>>, 0, d, 0)
    BY RunOfNothing
  <2>4. QED
    BY <1>1, <2>1, <2>2, <2>3 DEF StreamOK, Caught
<1>3. CASE table # {}
  BY <1>1, <1>3, LookupFacts DEF StreamsOK
<1>4. QED
  BY <1>2, <1>3

LEMMA LeftStays ==
  ASSUME IpSessionsAssumption, NEW d \in Dirs, sent'[d] \in Nat, NEW st \in Streams, NEW k,
         k = [st EXCEPT !.buffer = Left(st.buffer)], StreamOK(d, st)'
  PROVE  StreamOK(d, k)'
<1>1. /\ k.valid = st.valid /\ k.sequence = st.sequence
      /\ st.buffer = <<>> => k.buffer = <<>>
  BY StreamLeft
<1>2. \A c : \A end \in Nat : Run(st.buffer, c, d, end) => Run(k.buffer, c, d, end)
  <2>1. st.buffer \in Seq(Units) /\ k.buffer = Left(st.buffer)
    BY StreamLeft DEF Streams
  <2>2. QED
    BY <2>1, RunLeft
<1>3. Caught(d, st)' => Caught(d, k)'
  BY <1>1, <1>2 DEF Caught
<1>4. Behind(d, st)' => Behind(d, k)'
  BY <1>1 DEF Behind
<1>5. (\E c \in Nat, end \in Nat : Run(st.buffer, c, d, end)) => \E c \in Nat, end \in Nat : Run(k.buffer, c, d, end)
  BY <1>2
<1>6. QED
  BY <1>1, <1>3, <1>4, <1>5 DEF StreamOK

LEMMA AnalysisOK ==
  ASSUME IpSessionsAssumption, TypeInv, NEW d \in Dirs, sent'[d] \in Nat, NEW st \in Streams,
         NEW old, old = Lookup,
         Analyses(d, st), StreamOK(d, st)', \A e \in Dirs \ {d} : StreamOK(e, old.stream[e])'
  PROVE  StreamsOK' /\ GenuineIn(out')
<1>1. StreamsOK'
  <2>1. SUFFICES ASSUME NEW s \in table', NEW e \in Dirs PROVE StreamOK(e, s.stream[e])'
    BY DEF StreamsOK
  <2>2. /\ s.stream[d] = [st EXCEPT !.buffer = Left(st.buffer)]
        /\ \A x \in Dirs \ {d} : s.stream[x] = Lookup.stream[x]
    BY DEF Analyses, Updated
  <2>3. CASE e = d
    <3>1. PICK k : k = [st EXCEPT !.buffer = Left(st.buffer)]
      OBVIOUS
    <3>2. StreamOK(d, k)'
      BY <3>1, LeftStays
    <3>3. s.stream[d] = k
      BY <2>2, <3>1
    <3>4. QED
      BY <2>3, <3>2, <3>3
  <2>4. CASE e # d
    <3>1. s.stream[e] = old.stream[e]
      BY <2>2, <2>4
    <3>2. StreamOK(e, old.stream[e])'
      BY <2>4
    <3>3. QED
      BY <3>1, <3>2
  <2>5. QED
    BY <2>3, <2>4
<1>2. st.buffer \in Seq(Units)
  BY DEF Streams
<1>3. PICK c \in Nat, end \in Nat : Run(st.buffer, c, d, end)
  BY DEF StreamOK
<1>4. GenuineIn(First(st.buffer, Analysed(st.buffer)))
  BY <1>2, <1>3, RunGenuine DEF TypeInv
<1>5. out' = First(st.buffer, Analysed(st.buffer))
  BY DEF Analyses, Found
<1>6. QED
  BY <1>1, <1>4, <1>5

LEMMA FaultCounts ==
  ASSUME TypeInv, NEW kind \in Kinds, Fault(kind)
  PROVE  /\ faults'[kind] = faults[kind] + 1 /\ \A k \in Kinds \ {kind} : faults'[k] = faults[k]
         /\ \A k \in Kinds : faults[k] \in Nat
BY DEF Fault, TypeInv, WireOK

LEMMA NothingGenuine == GenuineIn(<<>>)
BY DEF GenuineIn

LEMMA ConnectionCounts ==
  ASSUME IpSessionsAssumption, TypeInv
  PROVE  conn \in Nat \ {0} /\ faults.lost \in Nat
<1>1. scenario.connections \in Nat /\ conn \in 1..scenario.connections
  BY ScenarioFacts DEF TypeInv, WireOK, Positive
<1>2. faults.lost \in Nat
  BY DEF TypeInv, WireOK, Kinds
<1>3. QED
  BY <1>1, <1>2

LEMMA PacketReassembled ==
  ASSUME IpSessionsAssumption, SpacesAssumption, TypeInv, Reassembled, OneGap, scenario' = scenario,
         NEW d \in Dirs, Packet(d)
  PROVE  (target' => StreamsOK') /\ GenuineIn(out')
<1>1. PICK n \in Sizes(d) :
        Advance(d, n) /\ Dispatch(d, NumberOf(conn, sent[d]), UnitsOf(conn, d, sent[d], n), FALSE)
  BY DEF Packet
<1>2. d \notin finished /\ UNCHANGED <<conn, finished, target, faults>>
  BY DEF Packet
<1>3. /\ n \in scenario.segments /\ n \in Nat /\ sent[d] \in Nat /\ sent[d] + n <= StreamLength
      /\ NumberOf(conn, sent[d]) \in Nat /\ UnitsOf(conn, d, sent[d], n) \in Seq(Units)
  BY PacketFacts, ScenarioFacts DEF Sizes, TypeInv, WireOK
<1>4. sent'[d] = sent[d] + n /\ \A e \in Dirs \ {d} : sent'[e] = sent[e]
  BY <1>1 DEF Advance, TypeInv, WireOK
<1>5. CASE ~ target
  <2>1. Found(<<>>)
    BY <1>1, <1>5, Zenon DEF Dispatch
  <2>2. out' = <<>>
    BY <2>1 DEF Found
  <2>3. QED
    BY <1>2, <1>5, <2>2, NothingGenuine
<1>6. CASE target
  <2> PICK old, st, r :
        /\ old = Lookup /\ st = old.stream[d]
        /\ r = Receive(st, NumberOf(conn, sent[d]), UnitsOf(conn, d, sent[d], n))
    OBVIOUS
  <2>1. StreamsOK /\ WireOK /\ TableOK
    BY <1>6 DEF Reassembled, TypeInv
  <2>2. st \in Streams /\ StreamOK(d, st)
    BY <2>1, LookupOK
  <2>3. Caught(d, st) \/ Behind(d, st)
    BY <1>2, <2>2 DEF StreamOK
  <2>4. /\ Run(r.buffer, conn, d, sent[d] + n)
        /\ Straight /\ r.valid => r.sequence = NumberOf(conn, sent[d] + n)
        /\ Caught(d, st) => r.valid
    BY <1>3, <2>1, <2>2, <2>3, ReceiveRun
  <2>5. r \in Streams /\ Analyses(d, r)
    BY <1>1, <1>3, <1>6, DispatchAnalyses
  <2>6. faults.lost + conn = 1 /\ Straight => Caught(d, st) /\ conn = 1
    <3>1. faults.lost \in Nat /\ conn \in Nat \ {0}
      BY ConnectionCounts
    <3>2. QED
      BY <1>2, <2>2, <3>1 DEF StreamOK
  <2>7. NumberOf(conn, sent[d])' = NumberOf(conn, sent[d] + n)
    BY <1>2, <1>4 DEF NumberOf, WireNumber
  <2>8. (Straight => Caught(d, r)') /\ (Caught(d, r)' \/ Behind(d, r)')
    BY <1>2, <1>4, <2>4, <2>7 DEF Caught, Behind
  <2>9. \E c \in Nat, end \in Nat : Run(r.buffer, c, d, end)
    <3>1. conn \in Nat /\ sent[d] + n \in Nat
      BY <1>3, ConnectionCounts DEF TypeInv, WireOK
    <3>2. QED
      BY <2>4, <3>1
  <2>10. StreamOK(d, r)'
    <3>1. faults'.lost + conn' = 1 /\ Straight => r.valid /\ \E pos \in 0..StreamLength : r.sequence = NumberOf(1, pos)
      <4>1. sent[d] + n \in 0..StreamLength
        BY <1>3, ScenarioFacts DEF TypeInv, WireOK
      <4>2. QED
        BY <1>2, <2>4, <2>6, <4>1
    <3>2. /\ StreamLength' = StreamLength /\ Straight' = Straight
          /\ \A pos : NumberOf(1, pos)' = NumberOf(1, pos)
      BY DEF StreamLength, NumberOf, WireNumber, Straight
    <3>3. QED
      BY <2>8, <2>9, <3>1, <3>2 DEF StreamOK
  <2>11. ASSUME NEW e \in Dirs \ {d} PROVE StreamOK(e, old.stream[e])'
    <3>1. StreamOK(e, old.stream[e])
      BY <2>1, LookupOK
    <3>2. QED
      BY <1>2, <1>4, <3>1, SameStream
  <2>12. sent'[d] \in Nat
    BY <1>3, <1>4
  <2>13. QED
    BY <2>5, <2>10, <2>11, <2>12, AnalysisOK
<1>7. QED
  BY <1>5, <1>6

LEMMA AcknowledgementReassembled ==
  ASSUME IpSessionsAssumption, TypeInv, Reassembled, OneGap, scenario' = scenario,
         NEW d \in Dirs, Acknowledgement(d)
  PROVE  (target' => StreamsOK') /\ GenuineIn(out')
<1>1. Dispatch(d, NumberOf(conn, sent[d]), <<>>, FALSE)
      /\ UNCHANGED <<conn, sent, finished, target, faults>>
  BY DEF Acknowledgement, wire
<1>2. NumberOf(conn, sent[d]) \in Nat /\ sent[d] \in Nat /\ <<>> \in Seq(Units)
  BY PacketFacts, EmptySeq
<1>3. CASE ~ target
  <2>1. Found(<<>>)
    BY <1>1, <1>3, Zenon DEF Dispatch
  <2>2. out' = <<>>
    BY <2>1 DEF Found
  <2>3. QED
    BY <1>1, <1>3, <2>2, NothingGenuine
<1>4. CASE target
  <2>1. StreamsOK /\ WireOK /\ TableOK
    BY <1>4 DEF Reassembled, TypeInv
  <2>2. PICK old, st : old = Lookup /\ st = old.stream[d]
    OBVIOUS
  <2>3. st \in Streams /\ StreamOK(d, st)
    BY <2>1, <2>2, LookupOK
  <2>4. Receive(st, NumberOf(conn, sent[d]), <<>>) = st
    BY DEF Receive
  <2>5. Analyses(d, st)
    BY <1>1, <1>2, <1>4, <2>2, <2>4, DispatchAnalyses
  <2>6. StreamOK(d, st)'
    BY <1>1, <2>3, SameStream
  <2>7. ASSUME NEW e \in Dirs \ {d} PROVE StreamOK(e, old.stream[e])'
    <3>1. StreamOK(e, old.stream[e])
      BY <2>1, <2>2, LookupOK
    <3>2. QED
      BY <1>1, <3>1, SameStream
  <2>8. QED
    BY <1>1, <1>2, <2>2, <2>3, <2>5, <2>6, <2>7, AnalysisOK
<1>5. QED
  BY <1>3, <1>4

LEMMA FinReassembled ==
  ASSUME IpSessionsAssumption, TypeInv, Reassembled, OneGap, scenario' = scenario,
         NEW d \in Dirs, Fin(d)
  PROVE  (target' => StreamsOK') /\ GenuineIn(out')
<1>1. PICK n \in {0} \cup Sizes(d) :
        Advance(d, n) /\ Dispatch(d, NumberOf(conn, sent[d]), UnitsOf(conn, d, sent[d], n), TRUE)
  BY DEF Fin
<1>2. finished' = finished \cup {d} /\ UNCHANGED <<conn, target, faults>>
  BY DEF Fin
<1>3. \A e \in Dirs \ {d} : sent'[e] = sent[e]
  BY <1>1 DEF Advance, TypeInv, WireOK
<1>4. table' = {[Lookup EXCEPT !.FIN_received = @ \/ TRUE]} /\ Found(<<>>)
  BY <1>1, Zenon DEF Dispatch
<1>5. out' = <<>>
  BY <1>4 DEF Found
<1>6. ASSUME target PROVE StreamsOK'
  <2>1. StreamsOK /\ WireOK /\ TableOK
    BY <1>6 DEF Reassembled, TypeInv
  <2>2. PICK old : old = Lookup
    OBVIOUS
  <2>3. \A s \in table' : s.stream = old.stream
    BY <1>4, <2>2, LookupFacts DEF TypeInv, Sessions
  <2>4. ASSUME NEW e \in Dirs PROVE StreamOK(e, old.stream[e])'
    <3>1. StreamOK(e, old.stream[e])
      BY <2>1, <2>2, LookupOK
    <3>2. CASE e = d
      BY <1>2, <3>1, <3>2, EndedStream
    <3>3. CASE e # d
      BY <1>2, <1>3, <3>1, <3>3, SameStream
    <3>4. QED
      BY <3>2, <3>3
  <2>5. QED
    BY <2>3, <2>4 DEF StreamsOK
<1>7. QED
  BY <1>2, <1>5, <1>6, NothingGenuine

(* The gap: a packet that was missed ...                                   *)
LEMMA LoseReassembled ==
  ASSUME IpSessionsAssumption, SpacesAssumption, TypeInv, Reassembled, OneGap, OneGap', scenario' = scenario,
         NEW d \in Dirs, Lose(d)
  PROVE  target' => StreamsOK'
<1>1. d \notin finished /\ UNCHANGED <<conn, target, table>> /\ Fault("lost")
  BY DEF Lose
<1>2. faults'.lost = faults.lost + 1 /\ faults.lost \in Nat
  BY <1>1, FaultCounts DEF Kinds
<1>3. conn = 1 /\ faults.lost = 0 /\ faults'.lost + conn' = 2 /\ Straight
  <2>1. conn \in Nat \ {0} /\ faults'.lost + conn' <= 2
    BY ScenarioFacts DEF TypeInv, WireOK, Positive, OneGap
  <2>2. conn = 1 /\ faults.lost = 0 /\ faults'.lost + conn' = 2
    BY <1>1, <1>2, <2>1
  <2>3. Straight' => Straight
    BY DEF Straight, StreamLength, WireNumber
  <2>4. QED
    BY <2>2, <2>3 DEF OneGap
<1>4. SUFFICES ASSUME target, NEW s \in table, NEW e \in Dirs PROVE StreamOK(e, s.stream[e])'
  BY <1>1 DEF StreamsOK
<1>5. PICK st : st = s.stream[e]
  OBVIOUS
<1>6. StreamOK(e, st)
  BY <1>4, <1>5 DEF Reassembled, StreamsOK
<1>7. /\ \E c \in Nat, end \in Nat : Run(st.buffer, c, e, end)
      /\ e \notin finished => Caught(e, st)
      /\ st.valid \/ st.buffer = <<>>
  BY <1>3, <1>6 DEF StreamOK
<1>8. e \notin finished' => Caught(e, st)' \/ Behind(e, st)'
  <2>1. CASE sent'[e] = sent[e] /\ (e \in finished => e \in finished')
    BY <1>1, <1>7, <2>1 DEF Caught, NumberOf, WireNumber
  <2>2. CASE e = d /\ \E n \in Sizes(d) : Advance(d, n)
    <3>1. PICK n \in Sizes(d) : Advance(d, n)
      BY <2>2
    <3>2. n \in scenario.segments /\ sent[d] \in Nat /\ sent'[d] = sent[d] + n
      BY <3>1, PacketFacts DEF Sizes, Advance, TypeInv, WireOK
    <3>3. NumberOf(conn, sent[d] + n) # NumberOf(conn, sent[d])
      BY <1>1, <3>2, NumberMoves DEF TypeInv, WireOK
    <3>4. NumberOf(conn, sent[d])' = NumberOf(conn, sent[d] + n)
      BY <1>1, <3>2 DEF NumberOf, WireNumber
    <3>5. CASE st.valid
      BY <1>1, <1>7, <2>2, <3>3, <3>4, <3>5 DEF Caught, Behind
    <3>6. CASE ~ st.valid
      BY <1>7, <2>2, <3>6, RunOfNothing DEF Caught
    <3>7. QED
      BY <3>5, <3>6
  <2>3. QED
    BY <2>1, <2>2 DEF Lose, Advance, TypeInv, WireOK
<1>9. StreamOK(e, st)'
  BY <1>3, <1>7, <1>8 DEF StreamOK
<1>10. QED
  BY <1>5, <1>9

(* ... or another connection on the ports.                                 *)
LEMMA ReuseReassembled ==
  ASSUME IpSessionsAssumption, SpacesAssumption, TypeInv, Reassembled, OneGap, OneGap', scenario' = scenario,
         Reuse
  PROVE  target' => StreamsOK'
<1>1. /\ conn' = conn + 1 /\ conn < scenario.connections /\ finished' = {}
      /\ \A e \in Dirs : sent'[e] = 0
      /\ UNCHANGED <<target, table, faults>>
  BY DEF Reuse
<1>2. conn = 1 /\ conn' = 2 /\ faults.lost = 0 /\ faults'.lost + conn' = 2 /\ 2 \in 2..scenario.connections
      /\ Straight
  <2>1. conn \in Nat \ {0} /\ faults.lost \in Nat /\ faults'.lost + conn' <= 2 /\ scenario.connections \in Nat
    BY ScenarioFacts DEF TypeInv, WireOK, Positive, OneGap, Kinds
  <2>2. /\ conn = 1 /\ conn' = 2 /\ faults.lost = 0 /\ faults'.lost + conn' = 2
        /\ 2 \in 2..scenario.connections
    BY <1>1, <2>1
  <2>3. Straight' => Straight
    BY DEF Straight, StreamLength, WireNumber
  <2>4. QED
    BY <2>2, <2>3 DEF OneGap
<1>3. SUFFICES ASSUME target, NEW s \in table, NEW e \in Dirs PROVE StreamOK(e, s.stream[e])'
  BY <1>1 DEF StreamsOK
<1>4. PICK st : st = s.stream[e]
  OBVIOUS
<1>5. StreamOK(e, st)
  BY <1>3, <1>4 DEF Reassembled, StreamsOK
<1>6. /\ \E c \in Nat, end \in Nat : Run(st.buffer, c, e, end)
      /\ st.valid \/ st.buffer = <<>>
      /\ st.valid => \E pos \in 0..StreamLength : st.sequence = NumberOf(1, pos)
  BY <1>2, <1>5 DEF StreamOK
<1>7. Caught(e, st)' \/ Behind(e, st)'
  <2>1. CASE st.valid
    <3>1. PICK pos \in 0..StreamLength : st.sequence = NumberOf(1, pos)
      BY <1>6, <2>1
    <3>2. (scenario.firstNumber[2 - 1] + pos) % WireModulus # scenario.firstNumber[2]
      BY <1>2, <3>1 DEF SpacesAssumption, TypeInv, WireOK, StreamLength
    <3>3. scenario \in Scenarios /\ WireOK /\ 1 \in 1..scenario.connections /\ 2 \in 1..scenario.connections
          /\ pos \in Nat /\ WireModulus \in Nat \ {0} /\ LongModulus - WireModulus \in Nat
      BY <1>2, <3>1, ScenarioFacts DEF TypeInv, WireOK, IpSessionsAssumption, Positive
    <3>4. NumberOf(1, pos) # NumberOf(2, 0)
      <4>1. PICK m \in Nat \ {0} : m = WireModulus
        BY <3>3
      <4>2. scenario.firstNumber \in [1..scenario.connections -> 0..(m - 1)]
        BY <3>3, <4>1, ScenarioFacts
      <4>3. PICK f \in 0..(m - 1) : f = scenario.firstNumber[2]
        BY <3>3, <4>2
      <4>4. (m * 0 + f) % m = f /\ m * 0 + f = f + 0
        BY Remainder
      <4>5. WireNumber(2, 0) = scenario.firstNumber[2]
        BY <4>1, <4>3, <4>4 DEF WireNumber
      <4>6. WireNumber(1, pos) # WireNumber(2, 0)
        BY <3>2, <4>5 DEF WireNumber
      <4>7. /\ WireNumber(1, pos) \in Nat /\ WireNumber(1, pos) < WireModulus
            /\ WireNumber(2, 0) \in Nat /\ WireNumber(2, 0) < WireModulus
        BY <3>3, WireBounds
      <4>8. QED
        BY <3>3, <4>6, <4>7 DEF NumberOf, BE4
    <3>5. NumberOf(conn, sent[e])' = NumberOf(2, 0)
      BY <1>1, <1>2 DEF NumberOf, WireNumber
    <3>6. QED
      BY <2>1, <3>1, <3>4, <3>5 DEF Behind
  <2>2. CASE ~ st.valid
    BY <1>6, <2>2, RunOfNothing DEF Caught
  <2>3. QED
    BY <2>1, <2>2
<1>8. StreamOK(e, st)'
  BY <1>2, <1>6, <1>7 DEF StreamOK
<1>9. QED
  BY <1>4, <1>8

LEMMA ReassembledNext ==
  ASSUME IpSessionsAssumption, SpacesAssumption, TypeInv, Reassembled, [Next]_vars
  PROVE  Reassembled'
<1>1. scenario' = scenario
  BY DEF Next, vars, wire, Packet, Acknowledgement, Fin, Lose, Repeat, Reuse, Hour, ClockBack,
         ReloadTargets, Dispose
<1>2. faults \in [{"lost", "repeated", "reloads", "clockBacks"} -> Nat] /\ conn \in Nat
  BY ScenarioFacts DEF TypeInv, WireOK, Kinds, Positive
<1>0. Straight' = Straight
  BY <1>1 DEF Straight, StreamLength, WireNumber
<1>3. ASSUME OneGap, target' = target, faults'.reloads = faults.reloads,
             (target' => StreamsOK') /\ GenuineIn(out')
      PROVE  Reassembled'
  BY <1>3 DEF Reassembled
<1>4. ASSUME faults' = faults, conn' = conn, target' = target,
             OneGap => (target' => StreamsOK') /\ GenuineIn(out')
      PROVE  Reassembled'
  BY <1>0, <1>4 DEF Reassembled, OneGap
<1>5. ASSUME UNCHANGED <<conn, sent, finished>>, faults'.lost = faults.lost, table' \subseteq table, StreamsOK
      PROVE  StreamsOK'
  BY <1>1, <1>5, SameStream DEF StreamsOK
<1>6. ASSUME NEW d \in Dirs, Packet(d) PROVE Reassembled'
  BY <1>1, <1>4, <1>6, PacketReassembled DEF Packet
<1>7. ASSUME NEW d \in Dirs, Acknowledgement(d) PROVE Reassembled'
  BY <1>1, <1>4, <1>7, AcknowledgementReassembled DEF Acknowledgement, wire
<1>8. ASSUME NEW d \in Dirs, Fin(d) PROVE Reassembled'
  BY <1>1, <1>4, <1>8, FinReassembled DEF Fin
<1>9. ASSUME NEW d \in Dirs, Lose(d) PROVE Reassembled'
  <2>1. /\ faults'.lost = faults.lost + 1 /\ faults'.reloads = faults.reloads
        /\ faults'.repeated = faults.repeated /\ UNCHANGED <<conn, target>> /\ out' = <<>>
    BY <1>9, FaultCounts DEF Lose, Kinds
  <2>2. OneGap' => OneGap
    BY <1>0, <1>2, <2>1 DEF OneGap
  <2>3. OneGap' => (target' => StreamsOK')
    BY <1>1, <1>9, <2>2, LoseReassembled
  <2>4. QED
    BY <2>1, <2>3, NothingGenuine DEF Reassembled
<1>10. ASSUME NEW d \in Dirs, Repeat(d) PROVE Reassembled'
  <2>1. faults'.repeated # 0
    BY <1>10, RepeatCounts
  <2>2. faults'.reloads = faults.reloads /\ target' = target
    BY <1>10, FaultCounts DEF Repeat, Kinds
  <2>3. QED
    BY <2>1, <2>2 DEF Reassembled, OneGap
<1>11. CASE Reuse
  <2>1. faults' = faults /\ conn' = conn + 1 /\ target' = target /\ out' = <<>>
    BY <1>11 DEF Reuse
  <2>2. OneGap' => OneGap
    BY <1>0, <1>2, <2>1 DEF OneGap
  <2>3. OneGap' => (target' => StreamsOK')
    BY <1>1, <1>11, <2>2, ReuseReassembled
  <2>4. QED
    BY <2>1, <2>3, NothingGenuine DEF Reassembled
<1>12. CASE Hour \/ ClockBack
  <2>1. /\ UNCHANGED <<conn, sent, finished, target, table>> /\ out' = <<>>
        /\ faults'.lost = faults.lost /\ faults'.reloads = faults.reloads
        /\ faults'.repeated = faults.repeated
    BY <1>12, FaultCounts DEF Hour, ClockBack, wire, Kinds
  <2>2. OneGap' => OneGap
    BY <1>0, <2>1 DEF OneGap
  <2>3. QED
    BY <1>5, <2>1, <2>2, NothingGenuine DEF Reassembled
<1>13. CASE ReloadTargets
  <2>1. target' = ~ target /\ faults'.reloads = faults.reloads + 1 /\ out' = <<>>
    BY <1>13, FaultCounts DEF ReloadTargets, Kinds
  <2>2. faults'.reloads # 0 /\ (OneGap' => faults.reloads = 0)
    BY <1>2, <2>1 DEF OneGap
  <2>3. OneGap' => ~ target'
    BY <2>1, <2>2 DEF Reassembled
  <2>4. QED
    BY <2>1, <2>2, <2>3, NothingGenuine DEF Reassembled
<1>14. CASE Dispose
  <2>1. UNCHANGED <<conn, sent, finished, target, faults>> /\ table' \subseteq table /\ out' = <<>>
    BY <1>14 DEF Dispose, wire
  <2>2. QED
    BY <1>4, <1>5, <2>1, NothingGenuine DEF Reassembled
<1>15. CASE UNCHANGED vars
  <2>1. UNCHANGED <<conn, sent, finished, target, faults, table, out>>
    BY <1>15 DEF vars, wire
  <2>2. QED
    BY <1>4, <1>5, <2>1 DEF Reassembled
<1>16. QED
  BY <1>6, <1>7, <1>8, <1>9, <1>10, <1>11, <1>12, <1>13, <1>14, <1>15 DEF Next

LEMMA ReassembledInit == ASSUME Init PROVE Reassembled
BY NothingGenuine DEF Init, Reassembled, StreamsOK

(* While there is one gap at most, what is analysed is a message that was  *)
(* sent and never a splice, whatever the lengths of messages and packets,  *)
(* the width of `unsigned long`, the messages a dispatcher turns down, the *)
(* disposals and the corrections of the clock, provided the numbers can    *)
(* tell the gap. Where `unsigned long` is wider than the numbers, their    *)
(* way over the middle of their space is a gap of its own.                 *)
(* (cw_analizer.cpp dispatch_ip_packet)                                    *)
THEOREM NeverSpliced == ASSUME SpacesAssumption PROVE Spec => []Genuine
<1>1. Init => TypeInv /\ Reassembled
  BY TypeInit, ReassembledInit, IpSessionsAssumption
<1>2. TypeInv /\ Reassembled /\ [Next]_vars => TypeInv' /\ Reassembled'
  BY TypeNext, ReassembledNext, IpSessionsAssumption
<1>3. Reassembled => Genuine
  BY DEF Reassembled, Genuine, GenuineIn
<1>4. QED
  BY <1>1, <1>2, <1>3, PTL DEF Spec

-----------------------------------------------------------------------------
(* Nothing is lost. The buffer of a direction begins with one of its       *)
(* messages, and those before it have been analysed.                       *)
Aligned(b, c, d, end, q) == end = Len(b) + q * MessageLength /\ Run(b, c, d, end)
Held(d, b) ==
  \E q \in Nat : Aligned(b, conn, d, sent[d], q) /\ \A j \in 0..(q - 1) : <<conn, d, j>> \in seen
Holding ==
  /\ target
  /\ table = {} => \A d \in Dirs : sent[d] = 0
  /\ \A s \in table :
       /\ ~ s.FIN_received /\ s.mask /\ s.lastupdate \in 0..clock
       /\ \A d \in Dirs : Held(d, s.stream[d].buffer) /\ Caught(d, s.stream[d])
HeldInv == Undisturbed => Holding

LEMMA Products ==
  ASSUME NEW x \in Nat \ {0}, NEW q \in Nat, NEW j \in Nat
  PROVE  /\ q * x \in Nat /\ j * x \in Nat /\ (q + j) * x \in Nat /\ (q + j) * x = q * x + j * x
         /\ ((q + j) * x) % x = 0 /\ ((q + j) * x) \div x = q + j
<1>1. q * x \in Nat /\ j * x \in Nat /\ (q + j) * x \in Nat /\ (q + j) * x = q * x + j * x
  OBVIOUS
<1>2. 0 \in 0..(x - 1) /\ q + j \in Nat
  OBVIOUS
<1>3. (x * (q + j) + 0) % x = 0 /\ (x * (q + j) + 0) \div x = q + j
  BY <1>2, Remainder
<1>4. x * (q + j) + 0 = (q + j) * x
  OBVIOUS
<1>5. QED
  BY <1>1, <1>3, <1>4

LEMMA QuotientBelow ==
  ASSUME NEW x \in Nat \ {0}, NEW q \in Nat, NEW p \in Nat, p < q * x
  PROVE  p \div x \in Nat /\ p \div x < q
<1>1. PICK j \in Nat, r \in Nat : j = p \div x /\ p = x * j + r
  <2>1. p \div x \in Nat /\ p % x \in Nat /\ p = x * (p \div x) + (p % x)
    OBVIOUS
  <2>2. QED
    BY <2>1
<1>2. SUFFICES ASSUME q <= j PROVE FALSE
  BY <1>1
<1>3. PICK m \in Nat : j = q + m
  BY <1>2
<1>4. x * (q + m) = q * x + x * m /\ x * m \in Nat /\ q * x \in Nat
  OBVIOUS
<1>5. QED
  BY <1>1, <1>3, <1>4

(* Message j of an aligned buffer is message q + j of the stream.          *)
LEMMA AlignedHeads ==
  ASSUME IpSessionsAssumption, NEW b \in Seq(Units), NEW c, NEW d, NEW end \in Nat, NEW q \in Nat,
         Aligned(b, c, d, end, q), NEW j \in Nat, j * MessageLength + 1 <= Len(b)
  PROVE  /\ IsHeader(b[j * MessageLength + 1])
         /\ MessageOf(b[j * MessageLength + 1]) = <<c, d, q + j>>
<1>1. PICK x \in Nat \ {0} : x = MessageLength
  BY DEF IpSessionsAssumption, Positive
<1>2. /\ q * x \in Nat /\ j * x \in Nat /\ (q + j) * x \in Nat /\ (q + j) * x = q * x + j * x
      /\ ((q + j) * x) % x = 0 /\ ((q + j) * x) \div x = q + j
  BY Products
<1>3. PICK l \in Nat, m \in Nat, y \in Nat, p \in Nat :
        l = Len(b) /\ m = j * x /\ y = q * x /\ p = (q + j) * x
  BY <1>2, LenProperties
<1>4. end = l + y /\ p = y + m /\ m + 1 <= l
  BY <1>1, <1>2, <1>3 DEF Aligned
<1>5. m + 1 \in 1..l /\ end - l + (m + 1) - 1 = p
  BY <1>4
<1>6. b[m + 1] = <<c, d, p>>
  <2>1. b[m + 1] = <<c, d, end - l + (m + 1) - 1>>
    BY <1>3, <1>5 DEF Aligned, Run
  <2>2. QED
    BY <1>5, <2>1
<1>7. p % x = 0 /\ p \div x = q + j
  BY <1>2, <1>3
<1>8. IsHeader(b[m + 1]) /\ MessageOf(b[m + 1]) = <<c, d, q + j>>
  BY <1>1, <1>6, <1>7 DEF IsHeader, MessageOf
<1>9. QED
  BY <1>1, <1>3, <1>8

(* A dispatcher leaves all that follows the messages it analyses ...       *)
LEMMA AlignedLeft ==
  ASSUME IpSessionsAssumption, Protocol # "SMB2", scenario.refused = {},
         NEW b \in Seq(Units), NEW c, NEW d, NEW end \in Nat, NEW q \in Nat, Aligned(b, c, d, end, q)
  PROVE  Analysed(b) \in Nat /\ Aligned(Left(b), c, d, end, q + Analysed(b))
<1> DEFINE k == Analysed(b)
           rest == After(b, k)
<1>1. k \in Nat /\ k * MessageLength <= Len(b)
  BY AnalysedFacts, LenProperties
<1>2. /\ rest \in Seq(Units) /\ Len(rest) = Len(b) - k * MessageLength
      /\ \A i \in 1..Len(rest) :
           i + k * MessageLength \in 1..Len(b) /\ rest[i] = b[i + k * MessageLength]
  BY <1>1, AfterFacts, AfterLength
<1>3. PICK x \in Nat \ {0}, l \in Nat, w \in Nat :
        x = MessageLength /\ l = Len(b) /\ w = k * MessageLength
  BY <1>1, Products, LenProperties DEF IpSessionsAssumption, Positive
<1>4. ASSUME Len(rest) >= PeekLength PROVE IsHeader(rest[1])
  <2>1. 1 \in 1..Len(rest)
    BY <1>2, <1>4, LenProperties DEF IpSessionsAssumption, Positive
  <2>2. rest[1] = b[1 + w] /\ 1 + w \in 1..l
    BY <1>2, <1>3, <2>1
  <2>3. w + 1 <= l /\ 1 + w = w + 1
    BY <1>3, <2>2
  <2>4. IsHeader(b[w + 1])
    BY <1>1, <1>3, <2>3, AlignedHeads
  <2>5. QED
    BY <2>2, <2>3, <2>4
<1>5. Left(b) = rest
  BY <1>4, Zenon DEF Left, TurnedDown
<1>6. end = Len(rest) + (q + k) * MessageLength
  <2>1. PICK y \in Nat, z \in Nat : y = q * x /\ z = (q + k) * x
    BY <1>1, <1>3, Products
  <2>2. z = y + w
    <3>1. (q + k) * x = q * x + k * x
      BY <1>1, Products
    <3>2. k * x = w
      BY <1>3
    <3>3. QED
      BY <2>1, <3>1, <3>2
  <2>3. end = l + y /\ Len(rest) = l - w
    BY <1>2, <1>3, <2>1 DEF Aligned
  <2>4. end = Len(rest) + z
    BY <2>2, <2>3
  <2>5. QED
    BY <1>3, <2>1, <2>4
<1>7. Run(rest, c, d, end)
  BY <1>1, RunAfter DEF Aligned
<1>8. QED
  BY <1>1, <1>5, <1>6, <1>7 DEF Aligned

(* ... which are those the buffer begins with.                             *)
LEMMA AlignedAnalysed ==
  ASSUME IpSessionsAssumption, NEW b \in Seq(Units), NEW c, NEW d, NEW end \in Nat,
         NEW q \in Nat, Aligned(b, c, d, end, q), NEW j \in q..(q + Analysed(b) - 1)
  PROVE  <<c, d, j>> \in Heads(b, Analysed(b))
<1> DEFINE k == Analysed(b)
<1>1. /\ k \in Nat /\ DOMAIN First(b, k) = 1..k
      /\ \A i \in 1..k : /\ (i - 1) * MessageLength + 1 \in 1..Len(b)
                         /\ First(b, k)[i][1] = b[(i - 1) * MessageLength + 1]
  BY HeadFacts DEF HeadAt
<1> HIDE DEF k
<1>2. PICK i \in 1..k : i = j - q + 1 /\ j \in Nat
  <2>1. PICK a \in Nat : a = k
    BY <1>1
  <2>2. j \in q..(q + a - 1)
    BY <2>1 DEF k
  <2>3. j - q + 1 \in 1..a /\ j \in Nat
    BY <2>2
  <2>4. QED
    BY <2>1, <2>3
<1>3. PICK m \in Nat : m = i - 1
  <2>1. k \in Nat
    BY <1>1
  <2>2. i - 1 \in Nat
    BY <2>1
  <2>3. QED
    BY <2>2
<1>4. m * MessageLength + 1 <= Len(b) /\ First(b, k)[i][1] = b[m * MessageLength + 1]
  <2>1. (i - 1) * MessageLength + 1 \in 1..Len(b) /\ First(b, k)[i][1] = b[(i - 1) * MessageLength + 1]
    BY <1>1
  <2>2. Len(b) \in Nat
    BY LenProperties
  <2>3. QED
    BY <1>3, <2>1, <2>2
<1>5. MessageOf(b[m * MessageLength + 1]) = <<c, d, q + m>>
  BY <1>4, AlignedHeads
<1>6. q + m = j
  BY <1>1, <1>2, <1>3
<1>7. QED
  BY <1>1, <1>4, <1>5, <1>6 DEF Heads, k

(* Without a logoff among its messages the session stays ...               *)
LEMMA AlignedStays ==
  ASSUME IpSessionsAssumption, WireOK, scenario.logoff >= scenario.messages,
         NEW b \in Seq(Units), NEW c, NEW d, NEW end \in 0..StreamLength,
         NEW q \in Nat, Aligned(b, c, d, end, q)
  PROVE  ~ LogsOff(b)
<1> DEFINE k == Analysed(b)
<1>1. /\ k \in Nat /\ k * MessageLength \in Nat /\ k * MessageLength <= Len(b)
      /\ \A i \in 1..k : /\ (i - 1) * MessageLength + 1 \in 1..Len(b)
                         /\ First(b, k)[i][1] = b[(i - 1) * MessageLength + 1]
  BY HeadFacts DEF HeadAt
<1> HIDE DEF k
<1>2. SUFFICES ASSUME k > 0, Tail(MessageOf(First(b, k)[k][1])) = <<"client", scenario.logoff>>
               PROVE  FALSE
  BY DEF LogsOff, k
<1>3. scenario.messages \in Nat /\ scenario.logoff \in Nat /\ StreamLength \in Nat
  BY ScenarioFacts DEF WireOK, IpSessionsAssumption
<1>4. PICK m \in Nat : m = k - 1 /\ k \in 1..k
  BY <1>1, <1>2
<1>5. m * MessageLength + 1 <= Len(b) /\ First(b, k)[k][1] = b[m * MessageLength + 1]
  <2>1. (k - 1) * MessageLength + 1 \in 1..Len(b) /\ First(b, k)[k][1] = b[(k - 1) * MessageLength + 1]
    BY <1>1, <1>4
  <2>2. Len(b) \in Nat
    BY LenProperties
  <2>3. QED
    BY <1>4, <2>1, <2>2
<1>6. MessageOf(First(b, k)[k][1]) = <<c, d, q + m>>
  BY <1>3, <1>5, AlignedHeads
<1>7. q + m = scenario.logoff
  <2>1. Tail(<<c, d, q + m>>) = <<d, q + m>>
    OBVIOUS
  <2>2. QED
    BY <1>2, <1>6, <2>1
<1>8. (q + k) * MessageLength <= scenario.messages * MessageLength
  <2>1. PICK x \in Nat \ {0} : x = MessageLength
    BY DEF IpSessionsAssumption, Positive
  <2>2. PICK y \in Nat, z \in Nat, w \in Nat, l \in Nat, g \in Nat :
          /\ y = q * x /\ z = (q + k) * x /\ w = k * x /\ l = Len(b) /\ g = StreamLength
          /\ z = y + w
    <3>1. q * x \in Nat /\ k * x \in Nat /\ (q + k) * x \in Nat /\ (q + k) * x = q * x + k * x
      BY <1>1, Products
    <3>2. Len(b) \in Nat
      BY LenProperties
    <3>3. QED
      BY <1>3, <3>1, <3>2
  <2>3. end = l + y /\ w <= l /\ end <= g
    BY <1>1, <1>3, <2>1, <2>2 DEF Aligned
  <2>4. z <= g
    BY <2>2, <2>3
  <2>5. QED
    BY <2>1, <2>2, <2>4 DEF StreamLength
<1>9. q + k <= scenario.messages
  <2>1. PICK x \in Positive, s \in Nat : x = MessageLength /\ s = scenario.messages
    BY <1>3 DEF IpSessionsAssumption
  <2>2. \/ q + k <= s
        \/ (s + 1) * x <= (q + k) * x /\ (s + 1) * x = s * x + x
    <3>1. q + k \in Nat /\ (q + k <= s \/ s < q + k)
      BY <1>1
    <3>2. s < q + k => (s + 1) * x <= (q + k) * x
      BY <3>1, Multiples
    <3>3. (s + 1) * x = s * x + x
      BY Multiples
    <3>4. QED
      BY <3>1, <3>2, <3>3
  <2>3. s * x \in Nat /\ (q + k) * x \in Nat /\ x \in Nat \ {0}
    BY <1>1, Products DEF Positive
  <2>4. (q + k) * x <= s * x
    BY <1>8, <2>1
  <2>5. QED
    BY <2>1, <2>2, <2>3, <2>4
<1>10. QED
  <2>1. PICK g \in Nat, h \in Nat : g = scenario.logoff /\ h = scenario.messages
    BY <1>3
  <2>2. g >= h /\ q + m = g /\ q + k <= h /\ m = k - 1
    BY <1>4, <1>7, <1>9, <2>1
  <2>3. QED
    BY <1>1, <2>2

(* ... and is marked.                                                      *)
LEMMA AlignedMarked ==
  ASSUME IpSessionsAssumption, WireOK,
         NEW b \in Seq(Units), NEW c, NEW d, NEW end \in Nat,
         NEW q \in Nat, Aligned(b, c, d, end, q), Len(b) >= PeekLength
  PROVE  b # <<>> /\ Marked(b)
<1>1. PICK x \in Nat, l \in Nat : x = MessageLength /\ l = Len(b) /\ l >= PeekLength /\ l >= 1 /\ PeekLength \in Nat
  BY LenProperties DEF IpSessionsAssumption, Positive
<1>2. 0 * x + 1 = 1 /\ 1 <= l
  BY <1>1
<1>3. IsHeader(b[1])
  <2>1. 0 * MessageLength + 1 = 1
    BY <1>1, <1>2
  <2>2. IsHeader(b[0 * MessageLength + 1])
    BY <1>1, <1>2, <2>1, AlignedHeads
  <2>3. QED
    BY <2>1, <2>2
<1>4. Len(<<>>) = 0
  OBVIOUS
<1>5. QED
  BY <1>1, <1>3, <1>4 DEF Marked, Recognised

LEMMA AlignedGrows ==
  ASSUME IpSessionsAssumption, WireOK, NEW d \in Dirs, NEW n \in Nat, sent[d] + n <= StreamLength,
         NEW b \in Seq(Units), NEW q \in Nat, Aligned(b, conn, d, sent[d], q)
  PROVE  LET units == UnitsOf(conn, d, sent[d], n)
         IN  /\ b \o units \in Seq(Units) /\ Aligned(b \o units, conn, d, sent[d] + n, q)
             /\ Len(b \o units) >= n
<1> DEFINE units == UnitsOf(conn, d, sent[d], n)
<1>1. sent[d] \in Nat
  BY ScenarioFacts DEF WireOK
<1>2. units \in Seq(Units) /\ Len(units) = n
  BY <1>1, UnitsFacts
<1> HIDE DEF units
<1>3. b \o units \in Seq(Units) /\ Len(b \o units) = Len(b) + n
  BY <1>2, ConcatProperties
<1>4. PICK y \in Nat, l \in Nat, s \in Nat, g \in Nat :
        y = q * MessageLength /\ l = Len(b) /\ s = sent[d] /\ g = Len(b \o units)
  BY <1>1, <1>3, Products, LenProperties DEF IpSessionsAssumption, Positive
<1>5. s = l + y /\ g = l + n
  BY <1>3, <1>4 DEF Aligned
<1>6. s + n = g + y /\ g >= n
  BY <1>5
<1>7. Run(b \o units, conn, d, sent[d] + n)
  BY <1>1, RunGrows DEF Aligned, units
<1>8. QED
  BY <1>3, <1>4, <1>6, <1>7 DEF Aligned, units

LEMMA SameHeld ==
  ASSUME scenario' = scenario, conn' = conn, seen \subseteq seen', NEW e \in Dirs, sent'[e] = sent[e],
         NEW st, Held(e, st.buffer), Caught(e, st)
  PROVE  Held(e, st.buffer)' /\ Caught(e, st)'
<1>1. Held(e, st.buffer)'
  <2>1. PICK q \in Nat : /\ Aligned(st.buffer, conn, e, sent[e], q)
                         /\ \A j \in 0..(q - 1) : <<conn, e, j>> \in seen
    BY DEF Held
  <2>2. Aligned(st.buffer, conn', e, sent'[e], q)
    BY <2>1
  <2>3. QED
    BY <2>1, <2>2 DEF Held
<1>2. Caught(e, st)'
  BY DEF Caught, NumberOf, WireNumber
<1>3. QED
  BY <1>1, <1>2

LEMMA LookupHeld ==
  ASSUME IpSessionsAssumption, WireOK, TableOK, Holding, NEW d \in Dirs
  PROVE  /\ Lookup.stream[d] \in Streams /\ ~ Lookup.FIN_received
         /\ Held(d, Lookup.stream[d].buffer) /\ Caught(d, Lookup.stream[d])
         /\ table # {} => Lookup.mask
<1>1. Lookup \in Sessions
  BY LookupFacts
<1>2. CASE table = {}
  <2>1. Lookup = NewSession
    BY <1>2, LookupFacts
  <2>2. ~ Lookup.FIN_received /\ Lookup.stream[d] = NewStream
    BY <2>1 DEF NewSession
  <2>3. NewStream.buffer = <<>> /\ NewStream.valid = FALSE
    BY DEF NewStream
  <2>4. sent[d] = Len(<<>>) + 0 * MessageLength /\ 0 \in Nat
    <3>1. sent[d] = 0
      BY <1>2 DEF Holding
    <3>2. MessageLength \in Nat
      BY DEF IpSessionsAssumption, Positive
    <3>3. QED
      BY <3>1, <3>2
  <2>5. Aligned(<<>>, conn, d, sent[d], 0)
    BY <2>4, RunOfNothing DEF Aligned
  <2>6. Held(d, <<>>)
    BY <2>4, <2>5 DEF Held
  <2>7. Caught(d, NewStream)
    BY <2>3, RunOfNothing DEF Caught
  <2>8. QED
    BY <1>1, <1>2, <2>2, <2>3, <2>6, <2>7 DEF Sessions
<1>3. CASE table # {}
  <2>1. table = {Lookup}
    BY <1>3, LookupFacts
  <2>2. Lookup \in table
    BY <2>1
  <2>3. QED
    BY <1>1, <2>2 DEF Holding, Sessions
<1>4. QED
  BY <1>2, <1>3

(* A packet that is analysed leaves the rest of an aligned buffer.         *)
LEMMA AnalysisHeld ==
  ASSUME IpSessionsAssumption, TypeInv, Protocol # "SMB2", scenario.refused = {}, target',
         scenario' = scenario, conn' = conn, clock' = clock,
         NEW d \in Dirs, sent'[d] \in Nat, NEW st \in Streams, Analyses(d, st), NEW old, old = Lookup,
         NEW q \in Nat, Aligned(st.buffer, conn, d, sent'[d], q),
         \A j \in 0..(q - 1) : <<conn, d, j>> \in seen,
         Caught(d, st)', Stays(st.buffer) \/ \A e \in Dirs : sent'[e] = 0,
         ~ old.FIN_received,
         \A e \in Dirs \ {d} : Held(e, old.stream[e].buffer)' /\ Caught(e, old.stream[e])'
  PROVE  Holding'
<1> DEFINE b == st.buffer
           k == Analysed(b)
<1>1. b \in Seq(Units)
  BY DEF Streams
<1>2. k \in Nat /\ Aligned(Left(b), conn, d, sent'[d], q + k)
  BY <1>1, AlignedLeft
<1>3. seen' = seen \cup Heads(b, k)
  BY DEF Analyses, Found, Heads
<1>4. \A j \in 0..(q + k - 1) : <<conn, d, j>> \in seen'
  <2>1. SUFFICES ASSUME NEW j \in 0..(q + k - 1) PROVE <<conn, d, j>> \in seen'
    OBVIOUS
  <2>2. j \in 0..(q - 1) \/ j \in q..(q + k - 1)
    BY <1>2
  <2>3. CASE j \in 0..(q - 1)
    BY <1>3, <2>3
  <2>4. CASE j \in q..(q + k - 1)
    BY <1>1, <1>3, <2>4, AlignedAnalysed
  <2>5. QED
    BY <2>2, <2>3, <2>4
<1> HIDE DEF k
<1>5. PICK r : r = [st EXCEPT !.buffer = Left(b)]
  OBVIOUS
<1>6. r.buffer = Left(b) /\ r.valid = st.valid /\ r.sequence = st.sequence
  BY <1>5, StreamLeft
<1>7. Held(d, r.buffer)'
  <2>1. PICK m \in Nat : m = q + k
    BY <1>2
  <2>2. Aligned(r.buffer, conn', d, sent'[d], m)
    BY <1>2, <1>6, <2>1
  <2>3. \A j \in 0..(m - 1) : <<conn', d, j>> \in seen'
    BY <1>2, <1>4, <2>1
  <2>4. QED
    BY <2>2, <2>3, Zenon DEF Held
<1>8. Caught(d, r)'
  BY <1>2, <1>6 DEF Aligned, Caught
<1>9. ASSUME NEW s \in table'
      PROVE  /\ ~ s.FIN_received /\ s.mask /\ s.lastupdate \in 0..clock'
             /\ \A e \in Dirs : Held(e, s.stream[e].buffer)' /\ Caught(e, s.stream[e])'
  <2>1. /\ s.lastupdate = clock /\ s.FIN_received = old.FIN_received /\ s.mask /\ s.stream[d] = r
        /\ \A e \in Dirs \ {d} : s.stream[e] = old.stream[e]
    BY <1>5 DEF Analyses, Updated
  <2>2. clock \in Nat /\ clock' = clock
    BY ScenarioFacts DEF TypeInv, WireOK
  <2>3. ASSUME NEW e \in Dirs PROVE Held(e, s.stream[e].buffer)' /\ Caught(e, s.stream[e])'
    <3>1. CASE e = d
      BY <1>7, <1>8, <2>1, <3>1
    <3>2. CASE e # d
      <4>1. PICK o : o = old.stream[e]
        OBVIOUS
      <4>2. Held(e, o.buffer)' /\ Caught(e, o)'
        BY <3>2, <4>1
      <4>3. s.stream[e] = o
        BY <2>1, <3>2, <4>1
      <4>4. QED
        BY <4>2, <4>3
    <3>3. QED
      BY <3>1, <3>2
  <2>4. QED
    BY <2>1, <2>2, <2>3
<1>10. table' = {} => \A e \in Dirs : sent'[e] = 0
  BY DEF Analyses
<1>11. QED
  BY <1>9, <1>10 DEF Holding

LEMMA PacketHeld ==
  ASSUME IpSessionsAssumption, SpacesAssumption, TypeInv, Undisturbed, Holding, scenario' = scenario,
         NEW d \in Dirs, Packet(d)
  PROVE  Holding'
<1>1. PICK n \in Sizes(d) :
        Advance(d, n) /\ Dispatch(d, NumberOf(conn, sent[d]), UnitsOf(conn, d, sent[d], n), FALSE)
  BY DEF Packet
<1>2. UNCHANGED <<conn, finished, target, clock, faults>> /\ target
  BY DEF Packet, Holding
<1>3. /\ n \in scenario.segments /\ n \in Nat /\ sent[d] \in Nat /\ sent[d] + n <= StreamLength
      /\ NumberOf(conn, sent[d]) \in Nat /\ UnitsOf(conn, d, sent[d], n) \in Seq(Units)
  BY PacketFacts, ScenarioFacts DEF Sizes, TypeInv, WireOK
<1>4. sent'[d] = sent[d] + n /\ \A e \in Dirs \ {d} : sent'[e] = sent[e]
  BY <1>1 DEF Advance, TypeInv, WireOK
<1>5. n >= PeekLength /\ Protocol # "SMB2" /\ scenario.logoff >= scenario.messages
      /\ scenario.refused = {} /\ Straight
  BY DEF Undisturbed, Sizes
<1> PICK old, st, r :
      /\ old = Lookup /\ st = old.stream[d]
      /\ r = Receive(st, NumberOf(conn, sent[d]), UnitsOf(conn, d, sent[d], n))
  OBVIOUS
<1>6. WireOK /\ TableOK
  BY DEF TypeInv
<1>7. st \in Streams /\ Held(d, st.buffer) /\ Caught(d, st) /\ ~ old.FIN_received
  BY <1>6, LookupHeld
<1>8. PICK q \in Nat : /\ Aligned(st.buffer, conn, d, sent[d], q)
                       /\ \A j \in 0..(q - 1) : <<conn, d, j>> \in seen
  BY <1>7 DEF Held
<1>9. /\ r.buffer = st.buffer \o UnitsOf(conn, d, sent[d], n)
      /\ Run(r.buffer, conn, d, sent[d] + n)
      /\ r.valid => r.sequence = NumberOf(conn, sent[d] + n)
  BY <1>3, <1>5, <1>6, <1>7, ReceiveRun
<1>10. /\ r.buffer \in Seq(Units) /\ Aligned(r.buffer, conn, d, sent[d] + n, q) /\ Len(r.buffer) >= n
  <2>1. st.buffer \in Seq(Units)
    BY <1>7 DEF Streams
  <2>2. QED
    BY <1>3, <1>6, <1>8, <1>9, <2>1, AlignedGrows
<1>11. r \in Streams /\ Analyses(d, r)
  BY <1>1, <1>2, <1>3, DispatchAnalyses
<1>12. sent'[d] \in Nat /\ sent'[d] \in 0..StreamLength
  BY <1>3, <1>4, ScenarioFacts DEF TypeInv, WireOK
<1>13. Stays(r.buffer)
  <2>1. Len(r.buffer) >= PeekLength
    BY <1>3, <1>5, <1>10, LenProperties DEF IpSessionsAssumption, Positive
  <2>2. r.buffer # <<>> /\ Marked(r.buffer)
    BY <1>4, <1>6, <1>10, <1>12, <2>1, AlignedMarked
  <2>3. ~ LogsOff(r.buffer)
    BY <1>4, <1>5, <1>6, <1>10, <1>12, AlignedStays
  <2>4. QED
    BY <2>2, <2>3 DEF Stays
<1>14. Caught(d, r)'
  <2>1. NumberOf(conn, sent[d])' = NumberOf(conn, sent[d] + n)
    BY <1>2, <1>4 DEF NumberOf, WireNumber
  <2>2. QED
    BY <1>2, <1>4, <1>9, <2>1 DEF Caught
<1>15. ASSUME NEW e \in Dirs \ {d}
       PROVE  Held(e, old.stream[e].buffer)' /\ Caught(e, old.stream[e])'
  <2>1. Held(e, old.stream[e].buffer) /\ Caught(e, old.stream[e])
    BY <1>6, LookupHeld
  <2>2. seen \subseteq seen'
    BY <1>11 DEF Analyses, Found
  <2>3. QED
    BY <1>2, <1>4, <2>1, <2>2, SameHeld
<1>16. target'
  BY <1>2
<1>17. Aligned(r.buffer, conn, d, sent'[d], q)
  BY <1>4, <1>10
<1>18. QED
  BY <1>2, <1>5, <1>7, <1>8, <1>11, <1>12, <1>13, <1>14, <1>15, <1>16, <1>17, AnalysisHeld

LEMMA AcknowledgementHeld ==
  ASSUME IpSessionsAssumption, TypeInv, Undisturbed, Holding, scenario' = scenario,
         NEW d \in Dirs, Acknowledgement(d)
  PROVE  Holding'
<1>1. /\ Dispatch(d, NumberOf(conn, sent[d]), <<>>, FALSE)
      /\ UNCHANGED <<conn, sent, finished, target, clock, faults>> /\ target
  BY DEF Acknowledgement, wire, Holding
<1>2. NumberOf(conn, sent[d]) \in Nat /\ sent[d] \in Nat /\ <<>> \in Seq(Units)
  BY PacketFacts, EmptySeq
<1>3. Protocol # "SMB2" /\ scenario.logoff >= scenario.messages /\ scenario.refused = {}
  BY DEF Undisturbed
<1> PICK old, st : old = Lookup /\ st = old.stream[d]
  OBVIOUS
<1>4. WireOK /\ TableOK
  BY DEF TypeInv
<1>5. st \in Streams /\ Held(d, st.buffer) /\ Caught(d, st) /\ ~ old.FIN_received
  BY <1>4, LookupHeld
<1>6. PICK q \in Nat : /\ Aligned(st.buffer, conn, d, sent[d], q)
                       /\ \A j \in 0..(q - 1) : <<conn, d, j>> \in seen
  BY <1>5 DEF Held
<1>7. Receive(st, NumberOf(conn, sent[d]), <<>>) = st
  BY DEF Receive
<1>8. Analyses(d, st)
  BY <1>1, <1>2, <1>7, DispatchAnalyses
<1>9. Stays(st.buffer) \/ \A e \in Dirs : sent'[e] = 0
  <2>1. CASE table = {}
    BY <1>1, <2>1 DEF Holding
  <2>2. CASE table # {}
    <3>1. st.buffer \in Seq(Units) /\ sent[d] \in 0..StreamLength
      BY <1>4, <1>5 DEF Streams, WireOK
    <3>2. ~ LogsOff(st.buffer)
      BY <1>3, <1>4, <1>6, <3>1, AlignedStays
    <3>3. Lookup.mask
      BY <1>4, <2>2, LookupHeld
    <3>4. QED
      BY <3>2, <3>3 DEF Stays
  <2>3. QED
    BY <2>1, <2>2
<1>10. ASSUME NEW e \in Dirs
       PROVE  Held(e, old.stream[e].buffer)' /\ Caught(e, old.stream[e])'
  <2>1. Held(e, old.stream[e].buffer) /\ Caught(e, old.stream[e])
    BY <1>4, LookupHeld
  <2>2. seen \subseteq seen'
    BY <1>8 DEF Analyses, Found
  <2>3. QED
    BY <1>1, <2>1, <2>2, SameHeld
<1>11. Caught(d, st)'
  BY <1>1, <1>5 DEF Caught, NumberOf, WireNumber
<1>12. sent'[d] \in Nat /\ Aligned(st.buffer, conn, d, sent'[d], q) /\ target'
  BY <1>1, <1>2, <1>6
<1>13. QED
  BY <1>1, <1>3, <1>5, <1>6, <1>8, <1>9, <1>10, <1>11, <1>12, AnalysisHeld

(* The other steps disturb, or leave every fresh session as it is.         *)
LEMMA HeldNext ==
  ASSUME IpSessionsAssumption, SpacesAssumption, TypeInv, HeldInv, [Next]_vars
  PROVE  HeldInv'
<1>1. SUFFICES ASSUME Undisturbed' PROVE Holding'
  BY DEF HeldInv
<1>2. scenario' = scenario
  BY DEF Next, vars, wire, Packet, Acknowledgement, Fin, Lose, Repeat, Reuse, Hour, ClockBack,
         ReloadTargets, Dispose
<1>3. conn \in Nat \ {0} /\ clock \in Nat /\ finished \subseteq Dirs /\ Timeout \in Nat \ {0}
  BY ConnectionCounts, ScenarioFacts DEF TypeInv, WireOK, IpSessionsAssumption, Positive
<1>4. faults' = NoFaults /\ conn' = 1 /\ finished' = {} /\ clock' < Timeout
  BY <1>1 DEF Undisturbed
<1>5. ASSUME NEW kind \in Kinds PROVE ~ Fault(kind)
  <2>1. SUFFICES ASSUME Fault(kind) PROVE FALSE
    OBVIOUS
  <2>2. faults'[kind] = faults[kind] + 1 /\ faults[kind] \in Nat
    BY <2>1, FaultCounts
  <2>3. faults'[kind] = 0
    BY <1>4 DEF NoFaults, Kinds
  <2>4. QED
    BY <2>2, <2>3
<1>6. \A d \in Dirs : ~ Fin(d) /\ ~ Lose(d) /\ ~ Repeat(d)
  BY <1>4, <1>5 DEF Fin, Lose, Repeat, Kinds
<1>7. ~ Reuse /\ ~ ClockBack /\ ~ ReloadTargets
  BY <1>3, <1>4, <1>5 DEF Reuse, ClockBack, ReloadTargets, Kinds
<1>8. ASSUME UNCHANGED <<conn, finished, faults>>, clock <= clock', clock' \in Nat
      PROVE  Undisturbed /\ Holding
  <2>1. clock < Timeout
    <3>1. PICK u \in Nat, v \in Nat, t \in Nat : u = clock /\ v = clock' /\ t = Timeout
      BY <1>3, <1>8
    <3>2. u <= v /\ v < t
      BY <1>4, <1>8, <3>1
    <3>3. u < t
      BY <3>2
    <3>4. QED
      BY <3>1, <3>3
  <2>2. Undisturbed
    BY <1>1, <1>2, <1>4, <1>8, <2>1 DEF Undisturbed, Protocol, Straight, StreamLength, WireNumber
  <2>3. QED
    BY <2>2 DEF HeldInv
<1>9. ASSUME NEW d \in Dirs, Packet(d) PROVE Holding'
  <2>1. UNCHANGED <<conn, finished, faults, clock>>
    BY <1>9 DEF Packet
  <2>2. clock <= clock' /\ clock' \in Nat
    BY <1>3, <2>1
  <2>3. QED
    BY <1>2, <1>8, <1>9, <2>1, <2>2, PacketHeld
<1>10. ASSUME NEW d \in Dirs, Acknowledgement(d) PROVE Holding'
  <2>1. UNCHANGED <<conn, finished, faults, clock>>
    BY <1>10 DEF Acknowledgement, wire
  <2>2. clock <= clock' /\ clock' \in Nat
    BY <1>3, <2>1
  <2>3. QED
    BY <1>2, <1>8, <1>10, <2>1, <2>2, AcknowledgementHeld
<1>11. ASSUME UNCHANGED <<conn, sent, finished, target, seen, faults>>, clock <= clock',
              clock' \in Nat, table' = table
       PROVE  Holding'
  <2>1. Holding
    BY <1>8, <1>11
  <2>2. ASSUME NEW s \in table, NEW e \in Dirs
        PROVE  Held(e, s.stream[e].buffer)' /\ Caught(e, s.stream[e])'
    BY <1>2, <1>11, <2>1, <2>2, SameHeld DEF Holding
  <2>3. \A s \in table : s.lastupdate \in 0..clock'
    BY <1>3, <1>11, <2>1 DEF Holding
  <2>4. QED
    BY <1>11, <2>1, <2>2, <2>3 DEF Holding
<1>12. CASE Hour
  BY <1>3, <1>11, <1>12 DEF Hour, wire
<1>13. CASE Dispose
  <2>1. UNCHANGED <<conn, sent, finished, target, seen, faults, clock>>
    BY <1>13 DEF Dispose, wire
  <2>2. Holding /\ clock < Timeout
    BY <1>3, <1>4, <1>8, <2>1
  <2>3. ASSUME NEW s \in table PROVE Kept(s)
    <3>1. ~ s.FIN_received /\ s.lastupdate \in 0..clock
      BY <2>2, <2>3 DEF Holding
    <3>2. PICK u \in Nat, c \in Nat, t \in Nat : u = s.lastupdate /\ c = clock /\ t = Timeout
      BY <1>3, <3>1
    <3>3. u <= c /\ c < t
      BY <2>2, <3>1, <3>2
    <3>4. c - u \in 0..(t - 1)
      BY <3>3
    <3>5. QED
      BY <3>1, <3>2, <3>4 DEF Kept, Fresh
  <2>4. table' = table
    BY <1>13, <2>3 DEF Dispose
  <2>5. QED
    BY <1>3, <1>11, <2>1, <2>4
<1>14. CASE UNCHANGED vars
  BY <1>3, <1>11, <1>14 DEF vars, wire
<1>15. QED
  BY <1>6, <1>7, <1>9, <1>10, <1>12, <1>13, <1>14 DEF Next

LEMMA HeldInit == ASSUME Init PROVE HeldInv
BY DEF Init, HeldInv, Holding

(* What was sent before the buffer was analysed, and the rest is in it.    *)
LEMMA HeldNothingLost ==
  ASSUME IpSessionsAssumption, TypeInv, HeldInv
  PROVE  NothingLost
<1>1. SUFFICES ASSUME Undisturbed, NEW d \in Dirs, NEW pos \in 0..(sent[d] - 1)
               PROVE  \/ MessageOf(<<conn, d, pos>>) \in seen
                      \/ \E s \in table : \E i \in DOMAIN s.stream[d].buffer :
                           s.stream[d].buffer[i] = <<conn, d, pos>>
  BY DEF NothingLost
<1>2. Holding
  BY <1>1 DEF HeldInv
<1>3. sent[d] \in Nat /\ pos \in Nat /\ pos < sent[d]
  BY ScenarioFacts DEF TypeInv, WireOK
<1>4. PICK s \in table : TRUE
  BY <1>2, <1>3 DEF Holding
<1>5. PICK b : b = s.stream[d].buffer
  OBVIOUS
<1>6. b \in Seq(Units) /\ Held(d, b)
  BY <1>2, <1>4, <1>5 DEF Holding, TypeInv, TableOK, Sessions, Streams
<1>7. PICK q \in Nat : /\ Aligned(b, conn, d, sent[d], q)
                       /\ \A j \in 0..(q - 1) : <<conn, d, j>> \in seen
  BY <1>6 DEF Held
<1>8. PICK x \in Nat \ {0}, y \in Nat, l \in Nat, e \in Nat, p \in Nat :
        x = MessageLength /\ y = q * x /\ l = Len(b) /\ e = sent[d] /\ p = pos
  BY <1>3, <1>6, LenProperties, Products DEF IpSessionsAssumption, Positive
<1>9. e = l + y /\ p < e
  BY <1>3, <1>7, <1>8 DEF Aligned
<1>10. CASE p < y
  <2>1. PICK j \in Nat : j = p \div x /\ j < q
    BY <1>8, <1>10, QuotientBelow
  <2>2. <<conn, d, j>> \in seen
    BY <1>7, <2>1
  <2>3. MessageOf(<<conn, d, pos>>) = <<conn, d, j>>
    BY <1>8, <2>1 DEF MessageOf
  <2>4. QED
    BY <2>2, <2>3
<1>11. CASE p >= y
  <2>1. PICK i \in 1..l : i = p - y + 1
    BY <1>9, <1>11
  <2>2. e - l + i - 1 = p
    BY <1>9, <2>1
  <2>3. b[i] = <<conn, d, e - l + i - 1>>
    BY <1>7, <1>8 DEF Aligned, Run
  <2>4. i \in DOMAIN b
    BY <1>6, <1>8
  <2>5. QED
    BY <1>4, <1>5, <1>8, <2>2, <2>3, <2>4
<1>12. QED
  BY <1>10, <1>11

(* While every packet is captured in order, is of a target and holds       *)
(* enough of a message, and no dispatcher turns one down, nothing that was *)
(* sent is lost between the wire and the analysis, for any lengths and any *)
(* width of `unsigned long`: neither by the wrap of the sequence numbers,  *)
(* nor by a segment that ends inside a message, nor by the disposal. Only  *)
(* a wider `unsigned long` and numbers that go over the middle of their    *)
(* space are left out: there it is lost. (cw_analizer.cpp                  *)
(* dispatch_ip_packet)                                                     *)
THEOREM AllAccountedFor == ASSUME SpacesAssumption PROVE Spec => []NothingLost
<1>1. Init => TypeInv /\ HeldInv
  BY TypeInit, HeldInit, IpSessionsAssumption
<1>2. TypeInv /\ HeldInv /\ [Next]_vars => TypeInv' /\ HeldInv'
  BY TypeNext, HeldNext, IpSessionsAssumption
<1>3. TypeInv /\ HeldInv => NothingLost
  BY HeldNothingLost, IpSessionsAssumption
<1>4. QED
  BY <1>1, <1>2, <1>3, PTL DEF Spec

=============================================================================

------------------------ MODULE EventPipeline_proofs ------------------------
(***************************************************************************)
(* Proofs about EventPipeline, for every bound, queue limit and kind of    *)
(* traffic.                                                                *)
(***************************************************************************)
EXTENDS EventPipeline, TLAPS

(* Next names the group of every action; most proofs only need the groups. *)
Acts ==
  \/ Capture \/ CaptureEnd
  \/ ASwap \/ ATest \/ ASleep \/ ALock \/ AEmit \/ ALockQueue \/ APush
  \/ APacketDone \/ AUnlock \/ ACleanup \/ ADispose
  \/ PLockQueue \/ PSwap \/ PHealth \/ PTest \/ PSleep \/ PTimeout
  \/ PConnect \/ PLockSettings \/ PReload \/ PExclude \/ PInsert
  \/ PAlert \/ PCsv \/ PCommit \/ PAbandon
  \/ MainSecond \/ MainMinute \/ MainNoMinute \/ MainCheck \/ MainStopProcessor
  \/ MainSignalProcessor \/ MainJoinProcessor \/ MainStopThreads \/ MainExit
  \/ Sigterm \/ UNCHANGED vars

LEMMA NextIsActs == [Next]_vars => Acts
  BY DEF Next, Capturer, Analyzer, Processor, Main, Terminated, Acts

(* Sequences of numbers.                                                   *)
LEMMA SeqFacts ==
  ASSUME NEW s \in Seq(Nat)
  PROVE  /\ \A n \in Nat : Append(s, n) \in Seq(Nat)
         /\ s # <<>> => Head(s) \in Nat /\ Tail(s) \in Seq(Nat)
         /\ SetOf(s) \subseteq Nat
         /\ <<>> \in Seq(Nat)
  BY DEF SetOf

LEMMA DataStep == DataOK /\ [Next]_vars => DataOK'
<1> SUFFICES ASSUME DataOK, Acts PROVE DataOK'
  BY NextIsActs
<1> USE DEF DataOK, captureVars, analyzerVars, queueVars, storeVars, processorVars, mainVars
<1>1. CASE Capture
  <2>1. captured' \in Nat
    BY <1>1 DEF Capture
  <2>2. packetQueue' \in Seq(Nat)
    BY <1>1, <2>1, SeqFacts DEF Capture
  <2>3. QED
    BY <1>1, <2>1, <2>2 DEF Capture
<1>2. CASE ASwap BY <1>2 DEF ASwap
<1>3. CASE APush
  <2>1. emitted' \in Nat
    BY <1>3 DEF APush
  <2>2. eventQueue' \in Seq(Nat) /\ refused' \in SUBSET Nat
    BY <1>3, <2>1, SeqFacts DEF APush
  <2>3. QED
    BY <1>3, <2>1, <2>2 DEF APush
<1>4. CASE APacketDone BY <1>4 DEF APacketDone
<1>5. CASE CaptureEnd \/ ATest \/ ASleep \/ ALock \/ AEmit \/ ALockQueue \/ AUnlock
             \/ ACleanup \/ ADispose
  BY <1>5 DEF CaptureEnd, ATest, ASleep, ALock, AEmit, ALockQueue, AUnlock, ACleanup, ADispose
<1>6. CASE PSwap BY <1>6 DEF PSwap
<1>7. CASE PLockQueue \/ PHealth \/ PTest \/ PSleep \/ PTimeout \/ PConnect
             \/ PLockSettings \/ PReload \/ PCommit
  BY <1>7 DEF PLockQueue, PHealth, PTest, PSleep, PTimeout, PConnect, PLockSettings, PReload, PCommit
<1>8. CASE PExclude BY <1>8, SeqFacts DEF PExclude
<1>9. CASE PInsert BY <1>9, SeqFacts DEF PInsert
<1>10. CASE PAlert BY <1>10 DEF PAlert
<1>11. CASE PCsv BY <1>11, SeqFacts DEF PCsv
<1>12. CASE PAbandon BY <1>12, SeqFacts DEF PAbandon
<1>13. CASE MainSecond BY <1>13 DEF MainSecond
<1>14. CASE MainMinute \/ MainNoMinute \/ MainCheck \/ MainStopProcessor \/ MainSignalProcessor
              \/ MainJoinProcessor \/ MainStopThreads \/ MainExit \/ Sigterm \/ UNCHANGED vars
  BY <1>14 DEF MainMinute, MainNoMinute, MainCheck, MainStopProcessor, MainSignalProcessor,
               MainJoinProcessor, MainStopThreads, MainExit, Sigterm, vars
<1>15. QED
  BY <1>1, <1>2, <1>3, <1>4, <1>5, <1>6, <1>7, <1>8, <1>9, <1>10, <1>11, <1>12, <1>13, <1>14 DEF Acts

LEMMA ControlStep == ControlOK /\ [Next]_vars => ControlOK'
<1> SUFFICES ASSUME ControlOK, Acts PROVE ControlOK'
  BY NextIsActs
<1> USE DEF ControlOK, captureVars, analyzerVars, queueVars, storeVars, processorVars, mainVars
<1>1. CASE Capture BY <1>1 DEF Capture, SignalAnalyzer
<1>2. CASE CaptureEnd \/ ASwap \/ ATest \/ ASleep \/ ALock \/ ALockQueue
  BY <1>2 DEF CaptureEnd, ASwap, ATest, ASleep, ALock, ALockQueue
<1>3. CASE AEmit BY <1>3, PipelineAssumption DEF AEmit
<1>4. CASE APush BY <1>4 DEF APush, SignalProcessor
<1>5. CASE APacketDone \/ AUnlock \/ ACleanup \/ ADispose
  BY <1>5 DEF APacketDone, AUnlock, ACleanup, ADispose
<1>6. CASE PLockQueue \/ PSwap \/ PHealth \/ PTest \/ PSleep \/ PTimeout \/ PConnect
  BY <1>6 DEF PLockQueue, PSwap, PHealth, PTest, PSleep, PTimeout, PConnect
<1>7. CASE PLockSettings \/ PReload \/ PExclude \/ PInsert \/ PCsv \/ PCommit
  BY <1>7 DEF PLockSettings, PReload, PExclude, PInsert, PCsv, PCommit
<1>8. CASE PAlert BY <1>8 DEF PAlert
<1>9. CASE PAbandon BY <1>9 DEF PAbandon
<1>10. CASE MainMinute \/ MainSignalProcessor
  BY <1>10 DEF MainMinute, MainSignalProcessor, SignalAnalyzer, SignalProcessor
<1>11. CASE MainSecond \/ MainNoMinute \/ MainCheck \/ MainStopProcessor
              \/ MainJoinProcessor \/ MainStopThreads \/ MainExit \/ Sigterm \/ UNCHANGED vars
  BY <1>11 DEF MainSecond, MainNoMinute, MainCheck, MainStopProcessor,
               MainJoinProcessor, MainStopThreads, MainExit, Sigterm, vars
<1>12. QED
  BY <1>1, <1>2, <1>3, <1>4, <1>5, <1>6, <1>7, <1>8, <1>9, <1>10, <1>11 DEF Acts

(* The flags are Boolean: these steps are Zenon's, the others are SMT's.   *)
LEMMA FlagsStep == FlagsOK /\ [Next]_vars => FlagsOK'
<1> SUFFICES ASSUME FlagsOK, Acts PROVE FlagsOK'
  BY NextIsActs
<1> USE DEF FlagsOK, captureVars, analyzerVars, queueVars, storeVars, processorVars, mainVars
<1>1. CASE Capture BY <1>1, Zenon DEF Capture
<1>2. CASE CaptureEnd BY <1>2, Zenon DEF CaptureEnd
<1>3. CASE ASwap \/ ATest \/ ASleep \/ ALock BY <1>3, Zenon DEF ASwap, ATest, ASleep, ALock
<1>4. CASE ALockQueue \/ AEmit \/ APush BY <1>4, Zenon DEF ALockQueue, AEmit, APush
<1>5. CASE APacketDone \/ AUnlock \/ ACleanup \/ ADispose
  BY <1>5, Zenon DEF APacketDone, AUnlock, ACleanup, ADispose
<1>6. CASE PLockQueue \/ PSwap \/ PTest \/ PSleep \/ PTimeout
  BY <1>6, Zenon DEF PLockQueue, PSwap, PTest, PSleep, PTimeout
<1>7. CASE PHealth \/ PConnect BY <1>7, Zenon DEF PHealth, PConnect
<1>8. CASE PLockSettings \/ PReload \/ PExclude \/ PInsert
  BY <1>8, Zenon DEF PLockSettings, PReload, PExclude, PInsert
<1>9. CASE PAlert \/ PCsv \/ PCommit \/ PAbandon
  BY <1>9, Zenon DEF PAlert, PCsv, PCommit, PAbandon
<1>10. CASE MainSecond \/ MainMinute \/ MainNoMinute \/ MainCheck \/ MainStopProcessor
  BY <1>10, Zenon DEF MainSecond, MainMinute, MainNoMinute, MainCheck, MainStopProcessor
<1>11. CASE MainSignalProcessor \/ MainJoinProcessor \/ MainStopThreads \/ MainExit \/ Sigterm
  BY <1>11, Zenon DEF MainSignalProcessor, MainJoinProcessor, MainStopThreads, MainExit, Sigterm
<1>12. CASE UNCHANGED vars
  BY <1>12, Zenon DEF vars
<1>13. QED
  BY <1>1, <1>2, <1>3, <1>4, <1>5, <1>6, <1>7, <1>8, <1>9, <1>10, <1>11, <1>12 DEF Acts

(* A queue only grows by one, below its limit.                             *)
LEMMA QueuesStep == DataOK /\ QueuesBounded /\ [Next]_vars => QueuesBounded'
<1> SUFFICES ASSUME DataOK, QueuesBounded, Acts PROVE QueuesBounded'
  BY NextIsActs
<1> USE DEF QueuesBounded, captureVars, analyzerVars, queueVars
<1>1. /\ PacketLimit \in Nat /\ EventLimit \in Nat /\ Len(<<>>) = 0
      /\ packetQueue \in Seq(Nat) /\ eventQueue \in Seq(Nat)
  BY PipelineAssumption DEF DataOK
<1>2. \A n : /\ Len(Append(packetQueue, n)) = Len(packetQueue) + 1
            /\ Len(Append(eventQueue, n)) = Len(eventQueue) + 1
            /\ Len(packetQueue) \in Nat /\ Len(eventQueue) \in Nat
  BY <1>1
<1>3. CASE Capture
  BY <1>1, <1>2, <1>3 DEF Capture
<1>4. CASE ASwap BY <1>1, <1>4 DEF ASwap
<1>5. CASE APush BY <1>1, <1>2, <1>5 DEF APush
<1>6. CASE PSwap BY <1>1, <1>6 DEF PSwap
<1>7. CASE CaptureEnd \/ ATest \/ ASleep \/ ALock \/ AEmit \/ ALockQueue \/ APacketDone
             \/ AUnlock \/ ACleanup \/ ADispose
  BY <1>7 DEF CaptureEnd, ATest, ASleep, ALock, AEmit, ALockQueue, APacketDone, AUnlock,
              ACleanup, ADispose
<1>8. CASE PLockQueue \/ PHealth \/ PTest \/ PSleep \/ PTimeout \/ PConnect
             \/ PLockSettings \/ PReload \/ PExclude \/ PInsert \/ PAlert \/ PCsv
             \/ PCommit \/ PAbandon
  BY <1>8 DEF PLockQueue, PHealth, PTest, PSleep, PTimeout, PConnect, PLockSettings,
              PReload, PExclude, PInsert, PAlert, PCsv, PCommit, PAbandon
<1>9. CASE MainSecond \/ MainMinute \/ MainNoMinute \/ MainCheck \/ MainStopProcessor
             \/ MainSignalProcessor \/ MainJoinProcessor \/ MainStopThreads \/ MainExit
             \/ Sigterm \/ UNCHANGED vars
  BY <1>9 DEF MainSecond, MainMinute, MainNoMinute, MainCheck, MainStopProcessor,
              MainSignalProcessor, MainJoinProcessor, MainStopThreads, MainExit, Sigterm, vars
<1>10. QED
  BY <1>3, <1>4, <1>5, <1>6, <1>7, <1>8, <1>9 DEF Acts

(* Every variable keeps its type and no queue outgrows its limit.          *)
THEOREM TypeCorrect == Spec => []TypeOK
<1>1. Init => DataOK /\ ControlOK
  BY SeqFacts DEF Init, DataOK, ControlOK
<1>2. Init => FlagsOK
  BY Zenon DEF Init, FlagsOK
<1>3. Init => QueuesBounded
  BY PipelineAssumption DEF Init, QueuesBounded
<1>4. TypeOK /\ [Next]_vars => TypeOK'
  BY DataStep, ControlStep, FlagsStep, QueuesStep DEF TypeOK
<1>5. QED
  BY <1>1, <1>2, <1>3, <1>4, PTL DEF Spec, TypeOK

-----------------------------------------------------------------------------
LEMMA OwnerStep == SettingsOwner /\ [Next]_vars => SettingsOwner'
<1> SUFFICES ASSUME SettingsOwner, Acts PROVE SettingsOwner'
  BY NextIsActs
<1> USE DEF SettingsOwner, Dispatching,
            captureVars, analyzerVars, queueVars, storeVars, processorVars, mainVars
<1>1. CASE Capture BY <1>1 DEF Capture, SignalAnalyzer
<1>2. CASE CaptureEnd \/ ASwap \/ ATest \/ ASleep \/ ALock \/ AEmit \/ ALockQueue
  BY <1>2 DEF CaptureEnd, ASwap, ATest, ASleep, ALock, AEmit, ALockQueue
<1>3. CASE APush BY <1>3 DEF APush, SignalProcessor
<1>4. CASE APacketDone \/ AUnlock \/ ACleanup \/ ADispose
  BY <1>4 DEF APacketDone, AUnlock, ACleanup, ADispose
<1>5. CASE PLockQueue \/ PSwap \/ PHealth \/ PTest \/ PSleep \/ PTimeout \/ PConnect
  BY <1>5 DEF PLockQueue, PSwap, PHealth, PTest, PSleep, PTimeout, PConnect
<1>6. CASE PLockSettings \/ PReload \/ PExclude \/ PInsert \/ PCsv \/ PCommit
  BY <1>6 DEF PLockSettings, PReload, PExclude, PInsert, PCsv, PCommit
<1>7. CASE PAlert BY <1>7 DEF PAlert
<1>8. CASE PAbandon BY <1>8 DEF PAbandon
<1>9. CASE MainMinute \/ MainSignalProcessor
  BY <1>9 DEF MainMinute, MainSignalProcessor, SignalAnalyzer, SignalProcessor
<1>10. CASE MainSecond \/ MainNoMinute \/ MainCheck \/ MainStopProcessor
              \/ MainJoinProcessor \/ MainStopThreads \/ MainExit \/ Sigterm \/ UNCHANGED vars
  BY <1>10 DEF MainSecond, MainNoMinute, MainCheck, MainStopProcessor,
               MainJoinProcessor, MainStopThreads, MainExit, Sigterm, vars
<1>11. QED
  BY <1>1, <1>2, <1>3, <1>4, <1>5, <1>6, <1>7, <1>8, <1>9, <1>10 DEF Acts

(* The lock of the options is held exactly where the code holds it.        *)
THEOREM SettingsOwned == Spec => []SettingsOwner
<1>1. Init => SettingsOwner
  BY DEF Init, SettingsOwner, Dispatching
<1>2. QED
  BY <1>1, OwnerStep, PTL DEF Spec

(* A batch of packets is analysed under one set of options.                *)
THEOREM OptionsFixed == Spec => OptionsFixedDuringBatch
<1>1. SettingsOwner /\ [Next]_vars => [(apc \in Dispatching) => (option' = option)]_vars
  <2> SUFFICES ASSUME SettingsOwner, Next, apc \in Dispatching PROVE option' = option
    OBVIOUS
  <2>1. settings # "none"
    BY DEF SettingsOwner
  <2>2. MainSecond => FALSE
    BY <2>1 DEF MainSecond
  <2>3. Acts
    BY NextIsActs
  <2>4. QED
    BY <2>2, <2>3, Zenon
    DEF Acts, Capture, CaptureEnd, ASwap, ATest, ASleep, ALock, AEmit, ALockQueue, APush,
        APacketDone, AUnlock, ACleanup, ADispose, PLockQueue, PSwap, PHealth, PTest, PSleep,
        PTimeout, PConnect, PLockSettings, PReload, PExclude, PInsert, PAlert, PCsv, PCommit,
        PAbandon, MainMinute, MainNoMinute, MainCheck, MainStopProcessor, MainSignalProcessor,
        MainJoinProcessor, MainStopThreads, MainExit, Sigterm, vars, mainVars
<1>2. QED
  BY <1>1, SettingsOwned, PTL DEF Spec, OptionsFixedDuringBatch

-----------------------------------------------------------------------------
(* Order and place of the events. What a step does to a sequence of events *)
(* is one of three things: append a number larger than all, drop the head, *)
(* or move the whole sequence.                                             *)
LEMMA IncreasingAppend ==
  ASSUME NEW s \in Seq(Nat), NEW n \in Nat, Increasing(s), \A i \in 1..Len(s) : s[i] < n
  PROVE  Increasing(Append(s, n))
  BY DEF Increasing

LEMMA IncreasingTail ==
  ASSUME NEW s \in Seq(Nat), s # <<>>, Increasing(s)
  PROVE  /\ Increasing(Tail(s))
         /\ \A i \in 1..Len(Tail(s)) : Head(s) < Tail(s)[i]
  BY DEF Increasing

LEMMA BeforeAppend ==
  ASSUME NEW s \in Seq(Nat), NEW t \in Seq(Nat), NEW n \in Nat, Before(s, t)
  PROVE  /\ (\A i \in 1..Len(s) : s[i] < n) => Before(s, Append(t, n))
         /\ (\A i \in 1..Len(t) : n < t[i]) => Before(Append(s, n), t)
<1>1. (\A i \in 1..Len(s) : s[i] < n) => Before(s, Append(t, n))
  <2>1. Len(Append(t, n)) = Len(t) + 1 /\ Append(t, n)[Len(t) + 1] = n
        /\ \A i \in 1..Len(t) : Append(t, n)[i] = t[i]
    OBVIOUS
  <2>2. \A j \in 1..(Len(t) + 1) : j \in 1..Len(t) \/ j = Len(t) + 1
    OBVIOUS
  <2>3. QED
    BY <2>1, <2>2 DEF Before
<1>2. (\A i \in 1..Len(t) : n < t[i]) => Before(Append(s, n), t)
  <2>1. Len(Append(s, n)) = Len(s) + 1 /\ Append(s, n)[Len(s) + 1] = n
        /\ \A i \in 1..Len(s) : Append(s, n)[i] = s[i]
    OBVIOUS
  <2>2. \A j \in 1..(Len(s) + 1) : j \in 1..Len(s) \/ j = Len(s) + 1
    OBVIOUS
  <2>3. QED
    BY <2>1, <2>2 DEF Before
<1>3. QED
  BY <1>1, <1>2

LEMMA BeforeTail ==
  ASSUME NEW s \in Seq(Nat), NEW t \in Seq(Nat), Before(s, t)
  PROVE  /\ t # <<>> => Before(s, Tail(t)) /\ (\A i \in 1..Len(s) : s[i] < Head(t))
         /\ s # <<>> => Before(Tail(s), t) /\ (\A j \in 1..Len(t) : Head(s) < t[j])
<1>1. ASSUME t # <<>>
      PROVE  Before(s, Tail(t)) /\ (\A i \in 1..Len(s) : s[i] < Head(t))
  <2>1. Len(Tail(t)) = Len(t) - 1 /\ Head(t) = t[1] /\ Len(t) >= 1
        /\ \A j \in 1..Len(Tail(t)) : Tail(t)[j] = t[j + 1]
    BY <1>1
  <2>2. QED
    BY <2>1 DEF Before
<1>2. ASSUME s # <<>>
      PROVE  Before(Tail(s), t) /\ (\A j \in 1..Len(t) : Head(s) < t[j])
  <2>1. Len(Tail(s)) = Len(s) - 1 /\ Head(s) = s[1] /\ Len(s) >= 1
        /\ \A j \in 1..Len(Tail(s)) : Tail(s)[j] = s[j + 1]
    BY <1>2
  <2>2. QED
    BY <2>1 DEF Before
<1>3. QED
  BY <1>1, <1>2

LEMMA EmptySeq ==
  /\ Increasing(<<>>) /\ SetOf(<<>>) = {}
  /\ \A s : Before(s, <<>>) /\ Before(<<>>, s)
  BY DEF Increasing, Before, SetOf

LEMMA SetOfSteps ==
  ASSUME NEW s \in Seq(Nat), NEW n \in Nat
  PROVE  /\ SetOf(Append(s, n)) = SetOf(s) \union {n}
         /\ s # <<>> => SetOf(s) = {Head(s)} \union SetOf(Tail(s))
<1>1. SetOf(Append(s, n)) = SetOf(s) \union {n}
  <2>1. Len(Append(s, n)) = Len(s) + 1 /\ Append(s, n)[Len(s) + 1] = n
        /\ \A i \in 1..Len(s) : Append(s, n)[i] = s[i]
    OBVIOUS
  <2>2. 1..(Len(s) + 1) = 1..Len(s) \union {Len(s) + 1}
    OBVIOUS
  <2>3. QED
    BY <2>1, <2>2 DEF SetOf
<1>2. ASSUME s # <<>>
      PROVE  SetOf(s) = {Head(s)} \union SetOf(Tail(s))
  <2>1. Len(Tail(s)) = Len(s) - 1 /\ Head(s) = s[1] /\ Len(s) \in Nat /\ Len(s) >= 1
        /\ \A j \in 1..Len(Tail(s)) : Tail(s)[j] = s[j + 1]
    BY <1>2
  <2>2. \A i \in 1..Len(s) : i = 1 \/ (i - 1 \in 1..Len(Tail(s)) /\ s[i] = Tail(s)[i - 1])
    BY <2>1
  <2>3. \A j \in 1..Len(Tail(s)) : j + 1 \in 1..Len(s)
    BY <2>1
  <2>4. 1 \in 1..Len(s)
    BY <2>1
  <2>5. SetOf(s) \subseteq {Head(s)} \union SetOf(Tail(s))
    BY <2>1, <2>2 DEF SetOf
  <2>6. {Head(s)} \union SetOf(Tail(s)) \subseteq SetOf(s)
    BY <2>1, <2>3, <2>4 DEF SetOf
  <2>7. QED
    BY <2>5, <2>6
<1>3. QED
  BY <1>1, <1>2

(* The inductive invariant: order and conservation together. Conservation  *)
(* says that every number in a sequence is at most emitted, which is what  *)
(* makes the next event larger than all of them; and the processor swaps   *)
(* the queue only into an empty list, or the swap would drop a batch.      *)
WorkDone == ppc \in {"lockq", "swap", "test", "sleep", "wait", "done"} => work = <<>>
EventsInv == DataOK /\ WorkDone /\ InOrder /\ Accounted

eventVars == <<emitted, eventQueue, refused, work, rows, excluded, lost>>

(* Conservation, spelled out: the six sets A to F split 1..n.              *)
Split(n, A, B, C, D, E, F) ==
  /\ A \union B \union C \union D \union E \union F = 1..n
  /\ A \intersect B = {} /\ A \intersect C = {} /\ A \intersect D = {}
  /\ A \intersect E = {} /\ A \intersect F = {}
  /\ B \intersect C = {} /\ B \intersect D = {} /\ B \intersect E = {} /\ B \intersect F = {}
  /\ C \intersect D = {} /\ C \intersect E = {} /\ C \intersect F = {}
  /\ D \intersect E = {} /\ D \intersect F = {} /\ E \intersect F = {}

LEMMA SplitPlaces ==
  ASSUME NEW n, NEW A, NEW B, NEW C, NEW D, NEW E, NEW F
  PROVE  /\ UNION {<<A, B, C, D, E, F>>[k] : k \in 1..6} = 1..n
         /\ \A k, l \in 1..6 :
              k # l => <<A, B, C, D, E, F>>[k] \intersect <<A, B, C, D, E, F>>[l] = {}
         <=> Split(n, A, B, C, D, E, F)
<1>1. 1..6 = {1, 2, 3, 4, 5, 6}
  OBVIOUS
<1>2. QED
  BY <1>1 DEF Split

LEMMA AccountedSpelled ==
  Accounted <=> Split(emitted, SetOf(rows), SetOf(work), SetOf(eventQueue), refused, excluded, lost)
  BY SplitPlaces DEF Accounted, Places

LEMMA AccountedNext ==
  ASSUME Split(emitted', SetOf(rows'), SetOf(work'), SetOf(eventQueue'), refused', excluded', lost')
  PROVE  Accounted'
  BY SplitPlaces DEF Accounted, Places

LEMMA OtherSteps ==
  [Next]_vars => APush \/ PSwap \/ PExclude \/ PInsert \/ PAbandon \/ UNCHANGED eventVars
<1> SUFFICES ASSUME Acts
             PROVE APush \/ PSwap \/ PExclude \/ PInsert \/ PAbandon \/ UNCHANGED eventVars
  BY NextIsActs
<1> QED
  BY Zenon
  DEF Acts, Capture, CaptureEnd, ASwap, ATest, ASleep, ALock, AEmit, ALockQueue,
      APacketDone, AUnlock, ACleanup, ADispose, PLockQueue, PHealth, PTest, PSleep,
      PTimeout, PConnect, PLockSettings, PReload, PAlert, PCsv, PCommit,
      MainSecond, MainMinute, MainNoMinute, MainCheck, MainStopProcessor, MainSignalProcessor,
      MainJoinProcessor, MainStopThreads, MainExit, Sigterm, vars, eventVars,
      queueVars, processorVars, storeVars

LEMMA WorkDoneStep == WorkDone /\ [Next]_vars => WorkDone'
<1> SUFFICES ASSUME WorkDone, Acts PROVE WorkDone'
  BY NextIsActs
<1> USE DEF WorkDone, processorVars, queueVars
<1>1. CASE APush BY <1>1 DEF APush, SignalProcessor
<1>2. CASE PLockQueue \/ PSwap \/ PTest \/ PSleep \/ PTimeout
  BY <1>2 DEF PLockQueue, PSwap, PTest, PSleep, PTimeout
<1>3. CASE PHealth BY <1>3 DEF PHealth
<1>4. CASE PConnect \/ PLockSettings \/ PReload
  BY <1>4 DEF PConnect, PLockSettings, PReload
<1>5. CASE PExclude \/ PInsert \/ PCsv \/ PCommit \/ PAbandon
  BY <1>5 DEF PExclude, PInsert, PCsv, PCommit, PAbandon
<1>6. CASE PAlert BY <1>6 DEF PAlert
<1>7. CASE MainSignalProcessor BY <1>7 DEF MainSignalProcessor, SignalProcessor
<1>8. CASE MainStopProcessor BY <1>8 DEF MainStopProcessor
<1>9. CASE \/ Capture \/ CaptureEnd \/ ASwap \/ ATest \/ ASleep \/ ALock \/ AEmit
           \/ ALockQueue \/ APacketDone \/ AUnlock \/ ACleanup \/ ADispose
           \/ MainSecond \/ MainMinute \/ MainNoMinute \/ MainCheck
           \/ MainJoinProcessor \/ MainStopThreads \/ MainExit \/ Sigterm \/ UNCHANGED vars
  BY <1>9 DEF Capture, CaptureEnd, ASwap, ATest, ASleep, ALock, AEmit, ALockQueue,
      APacketDone, AUnlock, ACleanup, ADispose, MainSecond, MainMinute, MainNoMinute,
      MainCheck, MainJoinProcessor, MainStopThreads, MainExit, Sigterm, vars
<1>10. QED
  BY <1>1, <1>2, <1>3, <1>4, <1>5, <1>6, <1>7, <1>8, <1>9 DEF Acts

LEMMA EventsStep == EventsInv /\ [Next]_vars => EventsInv'
<1> SUFFICES ASSUME EventsInv, [Next]_vars PROVE EventsInv'
  OBVIOUS
<1> USE DEF EventsInv
<1>1. DataOK' /\ WorkDone'
  BY DataStep, WorkDoneStep
<1>2. /\ emitted \in Nat /\ rows \in Seq(Nat) /\ work \in Seq(Nat) /\ eventQueue \in Seq(Nat)
      /\ refused \in SUBSET Nat /\ excluded \in SUBSET Nat /\ lost \in SUBSET Nat
  BY DEF DataOK
<1>3. /\ \A i \in 1..Len(rows) : rows[i] \in 1..emitted
      /\ \A i \in 1..Len(work) : work[i] \in 1..emitted
      /\ \A i \in 1..Len(eventQueue) : eventQueue[i] \in 1..emitted
  BY AccountedSpelled DEF Split, SetOf
<1>4. CASE APush
  <2>1. emitted' = emitted + 1 /\ UNCHANGED <<rows, work, excluded, lost>>
    BY <1>4 DEF APush, storeVars
  <2> DEFINE e == emitted + 1
  <2>2. /\ e \in Nat /\ 1..e = 1..emitted \union {e} /\ e \notin 1..emitted
        /\ \A k \in 1..emitted : k < e
    BY <1>2
  <2>3. CASE eventQueue' = Append(eventQueue, e) /\ refused' = refused
    <3>1. InOrder'
      BY <1>2, <1>3, <2>1, <2>2, <2>3, IncreasingAppend, BeforeAppend DEF InOrder
    <3>2. SetOf(eventQueue') = SetOf(eventQueue) \union {e}
      BY <1>2, <2>2, <2>3, SetOfSteps
    <3>3. SetOf(rows') = SetOf(rows) /\ SetOf(work') = SetOf(work)
      BY <2>1
    <3>4. Accounted'
      BY <2>1, <2>2, <2>3, <3>2, <3>3, AccountedSpelled, AccountedNext DEF Split
    <3>5. QED
      BY <1>1, <3>1, <3>4
  <2>4. CASE eventQueue' = eventQueue /\ refused' = refused \union {e}
    <3>1. InOrder'
      BY <2>1, <2>4 DEF InOrder
    <3>2. SetOf(rows') = SetOf(rows) /\ SetOf(work') = SetOf(work)
          /\ SetOf(eventQueue') = SetOf(eventQueue)
      BY <2>1, <2>4
    <3>3. Accounted'
      BY <2>1, <2>2, <2>4, <3>2, AccountedSpelled, AccountedNext DEF Split
    <3>4. QED
      BY <1>1, <3>1, <3>3
  <2>5. QED
    BY <1>4, <2>1, <2>3, <2>4 DEF APush
<1>5. CASE PSwap
  <2>1. work = <<>> /\ work' = eventQueue /\ eventQueue' = <<>>
        /\ UNCHANGED <<emitted, rows, refused, excluded, lost>>
    BY <1>5 DEF PSwap, WorkDone, storeVars
  <2>2. InOrder'
    BY <2>1, EmptySeq DEF InOrder
  <2>3. SetOf(work') = SetOf(eventQueue) /\ SetOf(eventQueue') = {} /\ SetOf(work) = {}
        /\ SetOf(rows') = SetOf(rows)
    BY <2>1, EmptySeq
  <2>4. Accounted'
    BY <2>1, <2>3, AccountedSpelled, AccountedNext DEF Split
  <2>5. QED
    BY <1>1, <2>2, <2>4
<1>6. CASE PExclude
  <2>1. work # <<>> /\ work' = Tail(work) /\ excluded' = excluded \union {Head(work)}
        /\ UNCHANGED <<emitted, eventQueue, rows, refused, lost>>
    BY <1>6 DEF PExclude, queueVars
  <2>2. InOrder'
    BY <1>2, <2>1, IncreasingTail, BeforeTail DEF InOrder
  <2>3. SetOf(work) = {Head(work)} \union SetOf(work') /\ Head(work) \notin SetOf(work')
    <3>1. SetOf(work) = {Head(work)} \union SetOf(Tail(work))
      BY <1>2, <2>1, SetOfSteps
    <3>2. Head(work) \notin SetOf(Tail(work))
      <4>1. Head(work) \in Nat /\ \A i \in 1..Len(Tail(work)) : Head(work) < Tail(work)[i]
        BY <1>2, <2>1, IncreasingTail, SeqFacts DEF InOrder
      <4>2. QED
        BY <4>1 DEF SetOf
    <3>3. QED
      BY <2>1, <3>1, <3>2
  <2>4. SetOf(rows') = SetOf(rows) /\ SetOf(eventQueue') = SetOf(eventQueue)
    BY <2>1
  <2>5. Accounted'
    BY <2>1, <2>3, <2>4, AccountedSpelled, AccountedNext DEF Split
  <2>6. QED
    BY <1>1, <2>2, <2>5
<1>7. ASSUME work # <<>>
      PROVE  /\ Head(work) \in Nat /\ Head(work) \in 1..emitted
             /\ SetOf(work) = {Head(work)} \union SetOf(Tail(work))
             /\ Head(work) \notin SetOf(Tail(work))
             /\ Increasing(Append(rows, Head(work)))
             /\ Before(Append(rows, Head(work)), Tail(work))
             /\ Before(Append(rows, Head(work)), eventQueue)
             /\ Increasing(Tail(work)) /\ Before(Tail(work), eventQueue)
             /\ SetOf(Append(rows, Head(work))) = SetOf(rows) \union {Head(work)}
  <2>1. /\ Head(work) \in Nat /\ Tail(work) \in Seq(Nat)
        /\ SetOf(work) = {Head(work)} \union SetOf(Tail(work))
        /\ SetOf(Append(rows, Head(work))) = SetOf(rows) \union {Head(work)}
    BY <1>2, <1>7, SeqFacts, SetOfSteps
  <2>2. /\ Increasing(Tail(work))
        /\ \A i \in 1..Len(Tail(work)) : Head(work) < Tail(work)[i]
    BY <1>2, <1>7, IncreasingTail DEF InOrder
  <2>3. /\ \A i \in 1..Len(rows) : rows[i] < Head(work)
        /\ Before(rows, Tail(work))
        /\ \A i \in 1..Len(eventQueue) : Head(work) < eventQueue[i]
        /\ Before(Tail(work), eventQueue)
    BY <1>2, <1>7, BeforeTail DEF InOrder
  <2>4. Increasing(Append(rows, Head(work)))
    BY <1>2, <2>1, <2>3, IncreasingAppend DEF InOrder
  <2>5. /\ Before(Append(rows, Head(work)), Tail(work))
        /\ Before(Append(rows, Head(work)), eventQueue)
    BY <1>2, <2>1, <2>2, <2>3, BeforeAppend DEF InOrder
  <2>6. Head(work) \notin SetOf(Tail(work))
    BY <2>1, <2>2 DEF SetOf
  <2>7. Head(work) \in 1..emitted
    BY <2>1, AccountedSpelled DEF Split
  <2>8. QED
    BY <2>1, <2>2, <2>3, <2>4, <2>5, <2>6, <2>7
<1>8. CASE PInsert
  <2>1. work # <<>> /\ work' = Tail(work) /\ rows' = Append(rows, Head(work))
        /\ UNCHANGED <<emitted, eventQueue, refused, excluded, lost>>
    BY <1>8 DEF PInsert, queueVars
  <2>2. InOrder'
    BY <1>7, <2>1 DEF InOrder
  <2>3. Accounted'
    BY <1>7, <2>1, AccountedSpelled, AccountedNext DEF Split
  <2>4. QED
    BY <1>1, <2>2, <2>3
<1>9. CASE PAbandon
  <2>1. work' = <<>> /\ UNCHANGED <<emitted, eventQueue, refused, excluded>>
    BY <1>9 DEF PAbandon, queueVars
  <2>2. SetOf(work') = {} /\ SetOf(eventQueue') = SetOf(eventQueue)
    BY <2>1, EmptySeq
  <2>3. CASE lost' = lost \union SetOf(work) /\ rows' = rows
    <3>1. InOrder'
      BY <2>1, <2>3, EmptySeq DEF InOrder
    <3>2. SetOf(rows') = SetOf(rows)
      BY <2>3
    <3>3. Accounted'
      BY <2>1, <2>2, <2>3, <3>2, AccountedSpelled, AccountedNext DEF Split
    <3>4. QED
      BY <1>1, <3>1, <3>3
  <2>4. CASE work # <<>> /\ rows' = Append(rows, Head(work)) /\ lost' = lost \union SetOf(Tail(work))
    <3>1. InOrder'
      BY <1>7, <2>1, <2>4, EmptySeq DEF InOrder
    <3>2. SetOf(rows') = SetOf(rows) \union {Head(work)}
      BY <1>7, <2>4
    <3>3. Accounted'
      BY <1>7, <2>1, <2>2, <2>4, <3>2, AccountedSpelled, AccountedNext DEF Split
    <3>4. QED
      BY <1>1, <3>1, <3>3
  <2>5. QED
    BY <1>9, <2>3, <2>4 DEF PAbandon
<1>10. CASE UNCHANGED eventVars
  <2>1. InOrder'
    BY <1>10 DEF eventVars, InOrder
  <2>2. /\ SetOf(rows') = SetOf(rows) /\ SetOf(work') = SetOf(work)
        /\ SetOf(eventQueue') = SetOf(eventQueue)
        /\ emitted' = emitted /\ refused' = refused /\ excluded' = excluded /\ lost' = lost
    BY <1>10 DEF eventVars
  <2>3. Accounted'
    BY <2>2, AccountedSpelled, AccountedNext DEF Split
  <2>4. QED
    BY <1>1, <2>1, <2>3
<1>11. QED
  BY <1>4, <1>5, <1>6, <1>8, <1>9, <1>10, OtherSteps

LEMMA EventsInit == Init => EventsInv
<1> SUFFICES ASSUME Init PROVE EventsInv
  OBVIOUS
<1>1. DataOK /\ WorkDone
  BY SeqFacts DEF Init, DataOK, WorkDone
<1>2. rows = <<>> /\ work = <<>> /\ eventQueue = <<>> /\ emitted = 0
      /\ refused = {} /\ excluded = {} /\ lost = {}
  BY DEF Init
<1>3. InOrder
  BY <1>2, EmptySeq DEF InOrder
<1>4. SetOf(rows) = {} /\ SetOf(work) = {} /\ SetOf(eventQueue) = {} /\ 1..emitted = {}
  BY <1>2, EmptySeq
<1>5. Accounted
  BY <1>2, <1>4, AccountedSpelled DEF Split
<1>6. QED
  BY <1>1, <1>3, <1>5 DEF EventsInv

LEMMA EventsInvariant == Spec => []EventsInv
  BY EventsInit, EventsStep, PTL DEF Spec

(* Events are stored in the order of their emission, each at most once.    *)
THEOREM StoredInOrder == Spec => []InOrder
  BY EventsInvariant, PTL DEF EventsInv

(* No event disappears but at the full queue, by a rule or with a batch    *)
(* that a database error abandons.                                         *)
THEOREM EventsAccounted == Spec => []Accounted
  BY EventsInvariant, PTL DEF EventsInv

-----------------------------------------------------------------------------
LEMMA ConnectedStep == ConnectedWhenStoring /\ [Next]_vars => ConnectedWhenStoring'
<1> SUFFICES ASSUME ConnectedWhenStoring, Acts PROVE ConnectedWhenStoring'
  BY NextIsActs
<1> USE DEF ConnectedWhenStoring, processorVars
<1>1. CASE APush BY <1>1 DEF APush, SignalProcessor
<1>2. CASE PLockQueue \/ PSwap \/ PTest \/ PSleep \/ PTimeout
  BY <1>2 DEF PLockQueue, PSwap, PTest, PSleep, PTimeout
<1>3. CASE PHealth BY <1>3 DEF PHealth
<1>4. CASE PConnect BY <1>4 DEF PConnect
<1>5. CASE PLockSettings \/ PReload \/ PExclude \/ PInsert \/ PCsv \/ PCommit
  BY <1>5 DEF PLockSettings, PReload, PExclude, PInsert, PCsv, PCommit
<1>6. CASE PAlert BY <1>6 DEF PAlert
<1>7. CASE PAbandon BY <1>7 DEF PAbandon
<1>8. CASE MainStopProcessor \/ MainSignalProcessor
  BY <1>8 DEF MainStopProcessor, MainSignalProcessor, SignalProcessor
<1>9. CASE \/ Capture \/ CaptureEnd \/ ASwap \/ ATest \/ ASleep \/ ALock \/ AEmit
           \/ ALockQueue \/ APacketDone \/ AUnlock \/ ACleanup \/ ADispose
           \/ MainSecond \/ MainMinute \/ MainNoMinute \/ MainCheck
           \/ MainJoinProcessor \/ MainStopThreads \/ MainExit \/ Sigterm \/ UNCHANGED vars
  BY <1>9 DEF Capture, CaptureEnd, ASwap, ATest, ASleep, ALock, AEmit, ALockQueue,
      APacketDone, AUnlock, ACleanup, ADispose, MainSecond, MainMinute, MainNoMinute,
      MainCheck, MainJoinProcessor, MainStopThreads, MainExit, Sigterm, vars
<1>10. QED
  BY <1>1, <1>2, <1>3, <1>4, <1>5, <1>6, <1>7, <1>8, <1>9 DEF Acts

(* Nothing is stored on a connection that a failed health check closed:    *)
(* the batch connects again, and only then goes on. (check_db_connection)  *)
THEOREM StoringIsConnected == Spec => []ConnectedWhenStoring
<1>1. Init => ConnectedWhenStoring
  BY DEF Init, ConnectedWhenStoring
<1>2. QED
  BY <1>1, ConnectedStep, PTL DEF Spec

-----------------------------------------------------------------------------
(* The archive. The item at hand exists between its insert and its line,   *)
(* it is a row, and everything in the archive is older than it.            *)
ItemHeld == item # 0 <=> ppc \in {"alert", "csv"}
ArchiveBehind ==
  /\ item # 0 => item \in SetOf(rows) /\ \A i \in 1..Len(csv) : csv[i] < item
  /\ Increasing(csv) /\ SetOf(csv) \subseteq SetOf(rows)

(* Event numbers start from 1: the head of the list is never "no item".    *)
LEMMA HeadIsEvent == EventsInv /\ work # <<>> => Head(work) \in Nat \ {0}
<1> SUFFICES ASSUME EventsInv, work # <<>> PROVE Head(work) \in Nat \ {0}
  OBVIOUS
<1>1. work \in Seq(Nat) /\ emitted \in Nat /\ Accounted
  BY DEF EventsInv, DataOK
<1>2. Head(work) \in SetOf(work)
  BY <1>1, SetOfSteps, SeqFacts
<1>3. Head(work) \in 1..emitted
  BY <1>1, <1>2, AccountedSpelled DEF Split
<1>4. QED
  BY <1>1, <1>3

LEMMA ItemStep == EventsInv /\ ItemHeld /\ [Next]_vars => ItemHeld'
<1> SUFFICES ASSUME EventsInv, ItemHeld, Acts PROVE ItemHeld'
  BY NextIsActs
<1> USE DEF ItemHeld, processorVars
<1>1. CASE APush BY <1>1 DEF APush, SignalProcessor
<1>2. CASE PLockQueue \/ PSwap \/ PTest \/ PSleep \/ PTimeout
  BY <1>2 DEF PLockQueue, PSwap, PTest, PSleep, PTimeout
<1>3. CASE PHealth BY <1>3 DEF PHealth
<1>4. CASE PConnect \/ PLockSettings \/ PReload \/ PExclude \/ PCsv \/ PCommit
  BY <1>4 DEF PConnect, PLockSettings, PReload, PExclude, PCsv, PCommit
<1>5. CASE PInsert BY <1>5, HeadIsEvent DEF PInsert
<1>6. CASE PAlert BY <1>6 DEF PAlert
<1>7. CASE PAbandon BY <1>7 DEF PAbandon
<1>8. CASE MainStopProcessor \/ MainSignalProcessor
  BY <1>8 DEF MainStopProcessor, MainSignalProcessor, SignalProcessor
<1>9. CASE \/ Capture \/ CaptureEnd \/ ASwap \/ ATest \/ ASleep \/ ALock \/ AEmit
           \/ ALockQueue \/ APacketDone \/ AUnlock \/ ACleanup \/ ADispose
           \/ MainSecond \/ MainMinute \/ MainNoMinute \/ MainCheck
           \/ MainJoinProcessor \/ MainStopThreads \/ MainExit \/ Sigterm \/ UNCHANGED vars
  BY <1>9 DEF Capture, CaptureEnd, ASwap, ATest, ASleep, ALock, AEmit, ALockQueue,
      APacketDone, AUnlock, ACleanup, ADispose, MainSecond, MainMinute, MainNoMinute,
      MainCheck, MainJoinProcessor, MainStopThreads, MainExit, Sigterm, vars
<1>10. QED
  BY <1>1, <1>2, <1>3, <1>4, <1>5, <1>6, <1>7, <1>8, <1>9 DEF Acts

LEMMA StoreSteps ==
  [Next]_vars => PInsert \/ PAlert \/ PCsv \/ PAbandon \/ UNCHANGED <<rows, csv, item>>
<1> SUFFICES ASSUME Acts
             PROVE PInsert \/ PAlert \/ PCsv \/ PAbandon \/ UNCHANGED <<rows, csv, item>>
  BY NextIsActs
<1> QED
  BY Zenon
  DEF Acts, Capture, CaptureEnd, ASwap, ATest, ASleep, ALock, AEmit, ALockQueue, APush,
      APacketDone, AUnlock, ACleanup, ADispose, PLockQueue, PSwap, PHealth, PTest, PSleep,
      PTimeout, PConnect, PLockSettings, PReload, PExclude, PCommit,
      MainSecond, MainMinute, MainNoMinute, MainCheck, MainStopProcessor, MainSignalProcessor,
      MainJoinProcessor, MainStopThreads, MainExit, Sigterm, vars, processorVars, storeVars

LEMMA BehindStep == EventsInv /\ ItemHeld /\ ArchiveBehind /\ [Next]_vars => ArchiveBehind'
<1> SUFFICES ASSUME EventsInv, ItemHeld, ArchiveBehind, [Next]_vars PROVE ArchiveBehind'
  OBVIOUS
<1>1. /\ rows \in Seq(Nat) /\ work \in Seq(Nat) /\ csv \in Seq(Nat) /\ item \in Nat
      /\ Before(rows, work)
  BY DEF EventsInv, DataOK, InOrder
<1>2. ASSUME work # <<>>
      PROVE  /\ SetOf(Append(rows, Head(work))) = SetOf(rows) \union {Head(work)}
             /\ \A i \in 1..Len(csv) : csv[i] < Head(work)
  <2>1. Head(work) \in Nat /\ \A i \in 1..Len(rows) : rows[i] < Head(work)
    BY <1>1, <1>2, BeforeTail, SeqFacts
  <2>2. \A i \in 1..Len(csv) : \E j \in 1..Len(rows) : csv[i] = rows[j]
    BY DEF ArchiveBehind, SetOf
  <2>3. QED
    BY <1>1, <2>1, <2>2, SetOfSteps
<1>3. CASE PInsert
  <2>1. work # <<>> /\ rows' = Append(rows, Head(work)) /\ item' = Head(work) /\ csv' = csv
    BY <1>3 DEF PInsert
  <2>2. SetOf(csv') = SetOf(csv) /\ Increasing(csv') /\ SetOf(rows') = SetOf(rows) \union {item'}
    BY <1>2, <2>1 DEF ArchiveBehind
  <2>3. QED
    BY <1>2, <2>1, <2>2 DEF ArchiveBehind
<1>4. CASE PAlert
  <2>1. rows' = rows /\ csv' = csv /\ item' \in {0, item}
    BY <1>4 DEF PAlert, storeVars
  <2>2. SetOf(csv') = SetOf(csv) /\ SetOf(rows') = SetOf(rows) /\ Increasing(csv')
    BY <2>1 DEF ArchiveBehind
  <2>3. QED
    BY <2>1, <2>2 DEF ArchiveBehind
<1>5. CASE PCsv
  <2>1. rows' = rows /\ item' = 0 /\ csv' \in {csv, Append(csv, item)} /\ item # 0
    BY <1>5 DEF PCsv, ItemHeld
  <2>2. item \in SetOf(rows) /\ \A i \in 1..Len(csv) : csv[i] < item
    BY <2>1 DEF ArchiveBehind
  <2>3. /\ SetOf(Append(csv, item)) = SetOf(csv) \union {item}
        /\ Increasing(Append(csv, item))
    BY <1>1, <2>2, SetOfSteps, IncreasingAppend DEF ArchiveBehind
  <2>4. Increasing(csv') /\ SetOf(csv') \subseteq SetOf(rows) /\ SetOf(rows') = SetOf(rows)
    BY <2>1, <2>2, <2>3 DEF ArchiveBehind
  <2>5. QED
    BY <2>1, <2>4 DEF ArchiveBehind
<1>6. CASE PAbandon
  <2>1. item' = 0 /\ csv' = csv
        /\ (rows' = rows \/ (work # <<>> /\ rows' = Append(rows, Head(work))))
    BY <1>6 DEF PAbandon
  <2>2. SetOf(rows) \subseteq SetOf(rows')
    BY <1>2, <2>1
  <2>3. SetOf(csv') = SetOf(csv) /\ Increasing(csv')
    BY <2>1 DEF ArchiveBehind
  <2>4. QED
    BY <2>1, <2>2, <2>3 DEF ArchiveBehind
<1>7. CASE UNCHANGED <<rows, csv, item>>
  <2>1. SetOf(csv') = SetOf(csv) /\ SetOf(rows') = SetOf(rows) /\ Increasing(csv')
    BY <1>7 DEF ArchiveBehind
  <2>2. QED
    BY <1>7, <2>1 DEF ArchiveBehind
<1>8. QED
  BY <1>3, <1>4, <1>5, <1>6, <1>7, StoreSteps

(* The table is in the order of emission and the archive follows it: no    *)
(* line twice, none before its row, none out of order. (writecsv)          *)
THEOREM ArchiveFollows == Spec => []CsvFollowsTable
<1>1. Init => ItemHeld /\ ArchiveBehind
  BY EmptySeq DEF Init, ItemHeld, ArchiveBehind
<1>2. EventsInv /\ ArchiveBehind => CsvFollowsTable
  <2> SUFFICES ASSUME EventsInv, ArchiveBehind PROVE CsvFollowsTable
    OBVIOUS
  <2>1. csv \in Seq(Nat) /\ InOrder
    BY DEF EventsInv, DataOK
  <2>2. Len(csv) > 0 => Len(csv) \in 1..Len(csv)
    BY <2>1
  <2>3. QED
    BY <2>1, <2>2 DEF ArchiveBehind, CsvFollowsTable
<1>3. Spec => [](EventsInv /\ ItemHeld /\ ArchiveBehind)
  BY <1>1, EventsInvariant, ItemStep, BehindStep, PTL DEF Spec
<1>4. QED
  BY <1>2, <1>3, PTL

-----------------------------------------------------------------------------
(* The pipeline implements AuditTrail.                                     *)
EmitRoom == apc \in {"enqueue", "push"} => emitted < MaxEvents

LEMMA EmitRoomStep == EmitRoom /\ [Next]_vars => EmitRoom'
<1> SUFFICES ASSUME EmitRoom, Acts PROVE EmitRoom'
  BY NextIsActs
<1> USE DEF EmitRoom, queueVars, analyzerVars
<1>1. CASE Capture BY <1>1 DEF Capture, SignalAnalyzer
<1>2. CASE AEmit BY <1>2 DEF AEmit
<1>3. CASE APush BY <1>3 DEF APush
<1>4. CASE ALockQueue BY <1>4 DEF ALockQueue
<1>5. CASE ASwap \/ ATest \/ ASleep \/ ALock \/ APacketDone \/ AUnlock \/ ACleanup \/ ADispose
  BY <1>5 DEF ASwap, ATest, ASleep, ALock, APacketDone, AUnlock, ACleanup, ADispose
<1>6. CASE MainMinute BY <1>6 DEF MainMinute, SignalAnalyzer
<1>7. CASE PLockQueue \/ PSwap \/ PHealth \/ PTest \/ PSleep \/ PTimeout \/ PConnect
           \/ PLockSettings \/ PReload \/ PExclude \/ PInsert \/ PAlert \/ PCsv \/ PCommit \/ PAbandon
  BY <1>7 DEF PLockQueue, PSwap, PHealth, PTest, PSleep, PTimeout, PConnect, PLockSettings,
              PReload, PExclude, PInsert, PAlert, PCsv, PCommit, PAbandon
<1>8. CASE \/ CaptureEnd \/ MainSecond \/ MainNoMinute \/ MainCheck \/ MainStopProcessor
           \/ MainSignalProcessor \/ MainJoinProcessor \/ MainStopThreads \/ MainExit
           \/ Sigterm \/ UNCHANGED vars
  BY <1>8 DEF CaptureEnd, MainSecond, MainNoMinute, MainCheck, MainStopProcessor,
              MainSignalProcessor, MainJoinProcessor, MainStopThreads, MainExit, Sigterm, vars
<1>9. QED
  BY <1>1, <1>2, <1>3, <1>4, <1>5, <1>6, <1>7, <1>8 DEF Acts

LEMMA TrailInit == Init => Trail!Init
  BY EmptySeq DEF Init, Trail!Init

(* Storing e is a Record when everything still pending is younger than e.  *)
LEMMA RecordStep ==
  ASSUME NEW e \in SetOf(work) \union SetOf(eventQueue),
         rows' = Append(rows, e), emitted' = emitted,
         SetOf(work') \union SetOf(eventQueue') \subseteq SetOf(work) \union SetOf(eventQueue),
         \A d \in SetOf(work') \union SetOf(eventQueue') : d > e
  PROVE  Trail!Record
<1> DEFINE D == SetOf(work') \union SetOf(eventQueue')
<1>1. D = {d \in D : d > e} /\ D \in SUBSET (SetOf(work) \union SetOf(eventQueue))
  OBVIOUS
<1>2. QED
  BY <1>1 DEF Trail!Record

LEMMA TrailStep == EventsInv /\ EmitRoom /\ [Next]_vars => [Trail!Next]_(Trail!vars)
<1> SUFFICES ASSUME EventsInv, EmitRoom, [Next]_vars
             PROVE  Trail!Next \/ UNCHANGED Trail!vars
  OBVIOUS
<1>1. /\ emitted \in Nat /\ rows \in Seq(Nat) /\ work \in Seq(Nat) /\ eventQueue \in Seq(Nat)
      /\ InOrder
  BY DEF EventsInv, DataOK
<1>2. CASE APush
  <2>1. emitted < MaxEvents /\ emitted' = emitted + 1 /\ work' = work /\ rows' = rows
    BY <1>2 DEF APush, EmitRoom, storeVars
  <2>2. eventQueue' = eventQueue \/ eventQueue' = Append(eventQueue, emitted + 1)
    BY <1>2 DEF APush
  <2>3. SetOf(eventQueue') \in {SetOf(eventQueue), SetOf(eventQueue) \union {emitted'}}
    <3>1. emitted' \in Nat
      BY <1>1, <2>1
    <3>2. SetOf(Append(eventQueue, emitted')) = SetOf(eventQueue) \union {emitted'}
      BY <1>1, <3>1, SetOfSteps
    <3>3. QED
      BY <2>1, <2>2, <3>2
  <2>4. Trail!Emit
    BY <2>1, <2>3 DEF Trail!Emit
  <2>5. QED
    BY <2>4 DEF Trail!Next
<1>3. CASE PSwap
  <2>1. work = <<>> /\ work' = eventQueue /\ eventQueue' = <<>> /\ UNCHANGED <<emitted, rows>>
    BY <1>3 DEF EventsInv, WorkDone, PSwap, storeVars
  <2>2. QED
    BY <2>1, EmptySeq DEF Trail!vars
<1>4. CASE PExclude
  <2>1. SetOf(work') \subseteq SetOf(work) /\ UNCHANGED <<emitted, rows, eventQueue>>
    BY <1>1, <1>4, SetOfSteps DEF PExclude, queueVars
  <2>2. Trail!Drop
    BY <2>1 DEF Trail!Drop
  <2>3. QED
    BY <2>2 DEF Trail!Next
<1>5. ASSUME work # <<>>
      PROVE  /\ Head(work) \in SetOf(work) /\ SetOf(Tail(work)) \subseteq SetOf(work)
             /\ \A d \in SetOf(Tail(work)) \union SetOf(eventQueue) : d > Head(work)
  <2>1. SetOf(work) = {Head(work)} \union SetOf(Tail(work)) /\ Head(work) \in Nat
    BY <1>1, <1>5, SetOfSteps, SeqFacts
  <2>2. \A i \in 1..Len(Tail(work)) : Tail(work)[i] > Head(work)
    BY <1>1, <1>5, <2>1, IncreasingTail, SeqFacts DEF InOrder
  <2>3. \A i \in 1..Len(eventQueue) : eventQueue[i] > Head(work)
    BY <1>1, <1>5, <2>1, BeforeTail DEF InOrder
  <2>4. QED
    BY <2>1, <2>2, <2>3 DEF SetOf
<1>6. CASE PInsert
  <2>1. work # <<>> /\ rows' = Append(rows, Head(work)) /\ work' = Tail(work)
        /\ UNCHANGED <<emitted, eventQueue>>
    BY <1>6 DEF PInsert, queueVars
  <2>2. Trail!Record
    BY <1>5, <2>1, RecordStep
  <2>3. QED
    BY <2>2 DEF Trail!Next
<1>7. CASE PAbandon
  <2>1. SetOf(work') = {} /\ UNCHANGED <<emitted, eventQueue>>
    BY <1>7, EmptySeq DEF PAbandon, queueVars
  <2>2. CASE rows' = rows
    <3>1. Trail!Drop
      BY <2>1, <2>2 DEF Trail!Drop
    <3>2. QED
      BY <3>1 DEF Trail!Next
  <2>3. CASE work # <<>> /\ rows' = Append(rows, Head(work))
    <3>1. Trail!Record
      BY <1>5, <2>1, <2>3, RecordStep
    <3>2. QED
      BY <3>1 DEF Trail!Next
  <2>4. QED
    BY <1>7, <2>2, <2>3 DEF PAbandon
<1>8. CASE UNCHANGED eventVars
  BY <1>8 DEF eventVars, Trail!vars
<1>9. QED
  BY <1>2, <1>3, <1>4, <1>6, <1>7, <1>8, OtherSteps

(* What reaches the table is an ordered, lossy log of what was emitted.    *)
THEOREM PipelineImplementsAuditTrail == Spec => ImplementsAuditTrail
<1>1. Init => EmitRoom
  BY DEF Init, EmitRoom
<1>2. Spec => []EmitRoom
  BY <1>1, EmitRoomStep, PTL DEF Spec
<1>3. QED
  BY <1>2, EventsInvariant, TrailInit, TrailStep, PTL DEF Spec, ImplementsAuditTrail, Trail!Spec
=============================================================================

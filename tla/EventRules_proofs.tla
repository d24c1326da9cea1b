-------------------------- MODULE EventRules_proofs ---------------------------
(***************************************************************************)
(* Proofs about EventRules, for all sets of events and rules, all paths    *)
(* and patterns, every interval and every number of edits and faults.      *)
(***************************************************************************)
EXTENDS EventRules, SequenceTheorems, TLAPS

(* The rows are finitely many: some of them always have a last id.         *)
RulesAssumption ==
  /\ {Interval, MaxTime, MaxEdits, MaxFaults, MaxBatch} \subseteq Nat /\ Interval # 0
  /\ \A x \in Exclusions : x.table \in Tables
  /\ \A A \in SUBSET Alerts : A # {} => \E a \in A : \A b \in A : b.id <= a.id

ClockOK ==
  /\ startedAt <= now /\ testedAt <= now /\ excludedTime <= now /\ alertTime <= now
  /\ shortAt <= now /\ failedAt <= now

(* The rows of a table are those of the database at some time after this   *)
(* one, all of them when no read ended early since.                        *)
ReadSince(t, time) ==
  /\ shortAt < time => Before(TableOf(t), time) \subseteq excluded[t]
  /\ excluded[t] \subseteq After(TableOf(t), time)

(* Either the exclusions were read after their time, or that time is so    *)
(* old that the next batch reads them again: an error never leaves a half  *)
(* read table that is taken for a new one.                                 *)
ExclusionsOK ==
  /\ pc \in {"wait", "update"} =>
       excludedTime + Interval < now \/ \A t \in Tables : ReadSince(t, excludedTime)
  /\ pc \in {"paths", "patterns"} => excludedTime + Interval < startedAt
  /\ pc = "patterns" => ReadSince("path", startedAt)
  /\ pc \in {"event", "alert", "rules", "mark"} =>
       startedAt <= excludedTime + Interval /\ \A t \in Tables : ReadSince(t, excludedTime)
  /\ pc = "alert" => ~ IsExcluded(Head(batch))

(* The alert rules are those of the database at some time after the time   *)
(* of their table, unless that read failed or has yet to be done; what is  *)
(* used is less than an interval older than the test of its age.           *)
AlertsOK ==
  /\ pc # "rules" /\ failedAt < alertTime =>
       Before(Alerts, alertTime) \subseteq alertTable /\ alertTable \subseteq After(Alerts, alertTime)
  /\ pc = "rules" => alertTime = testedAt
  /\ pc = "mark" => testedAt - alertTime < Interval

IInv == TypeOK /\ ClockOK /\ ExclusionsOK /\ AlertsOK

-----------------------------------------------------------------------------
(* Of the rules that watch an event, MarkOf is one with the last id.       *)
LEMMA MarkIsLast ==
  ASSUME RulesAssumption, alertTable \subseteq Alerts, NEW e
  PROVE  LET found == {a \in alertTable : Watches(a, e)}
         IN IF found = {} THEN MarkOf(e) = None
            ELSE MarkOf(e) \in found /\ \A b \in found : b.id <= MarkOf(e).id
<1> DEFINE found == {a \in alertTable : Watches(a, e)}
<1>1. CASE found = {}
  BY <1>1 DEF MarkOf
<1>2. CASE found # {}
  <2>1. \E a \in found : \A b \in found : b.id <= a.id
    BY <1>2 DEF RulesAssumption
  <2>2. MarkOf(e) = CHOOSE x \in found : \A b \in found : b.id <= x.id
    BY <1>2 DEF MarkOf
  <2> HIDE DEF found
  <2>3. MarkOf(e) \in found /\ \A b \in found : b.id <= MarkOf(e).id
    BY <2>1, <2>2
  <2>4. QED BY <1>2, <2>3 DEF found
<1>3. QED BY <1>1, <1>2

-----------------------------------------------------------------------------
(* The parts of the type invariant.                                        *)
TablesTyped ==
  /\ excluded \in [Tables -> SUBSET Exclusions]
  /\ \A t \in Tables : \A x \in excluded[t] : x.table = t
  /\ alertTable \subseteq Alerts
RowsTyped == rows \subseteq [rule : Rules, since : Times] /\ removed \subseteq [rule : Rules, at : Times]
TimesTyped ==
  /\ excludedTime \in Times /\ alertTime \in Times /\ shortAt \in Times /\ failedAt \in Times
  /\ now \in 0..MaxTime /\ startedAt \in 0..MaxTime /\ testedAt \in 0..MaxTime
BatchTyped ==
  /\ batch \in Seq(Events) /\ Len(batch) <= MaxBatch /\ alert \in Alerts \cup {None}
  /\ pc \in Steps /\ (pc = "wait" <=> batch = <<>>)
Typed == TablesTyped /\ RowsTyped /\ TimesTyped /\ BatchTyped

LEMMA TypeIsTyped ==
  ASSUME RulesAssumption PROVE (TypeOK => Typed) /\ (Typed /\ ClockOK => TypeOK)
<1>1. ASSUME Typed, ClockOK PROVE {excludedTime, alertTime} \cap (now + 1)..MaxTime = {}
  BY <1>1 DEF RulesAssumption, Typed, TimesTyped, ClockOK, Times, Never
<1>2. QED
  BY <1>1 DEF TypeOK, Typed, TablesTyped, RowsTyped, TimesTyped, BatchTyped

LEMMA NextEventTyped ==
  ASSUME BatchTyped, pc # "wait", NextEvent
  PROVE  /\ batch' \in Seq(Events) /\ Len(batch') <= Len(batch)
         /\ pc' \in Steps /\ (pc' = "wait" <=> batch' = <<>>)
<1>1. batch \in Seq(Events) /\ batch # <<>>
  BY DEF BatchTyped
<1>2. Len(batch) \in Nat \ {0} /\ batch' \in Seq(Events) /\ Len(batch') = Len(batch) - 1
  BY <1>1 DEF NextEvent
<1>3. batch' = <<>> <=> Len(batch') = 0
  BY <1>2, EmptySeq
<1>4. Len(batch) = 1 <=> Len(batch') = 0
  BY <1>2
<1>5. QED BY <1>2, <1>3, <1>4 DEF NextEvent, Steps

LEMMA InitInv == RulesAssumption /\ Init => IInv
<1> SUFFICES ASSUME RulesAssumption, Init PROVE IInv
  OBVIOUS
<1> USE DEF RulesAssumption, Init, Never, Times
<1>1. TypeOK
  <2>1. rows \subseteq [rule : Rules, since : Times]
    OBVIOUS
  <2>2. batch = <<>> /\ batch \in Seq(Events) /\ Len(batch) <= MaxBatch
    OBVIOUS
  <2>3. QED BY <2>1, <2>2 DEF TypeOK, Tables, Steps
<1>2. ClockOK BY DEF ClockOK
<1>3. ExclusionsOK BY DEF ExclusionsOK
<1>4. AlertsOK BY DEF AlertsOK
<1>5. QED BY <1>1, <1>2, <1>3, <1>4 DEF IInv

LEMMA TakeBatchTyped ==
  ASSUME RulesAssumption, Typed, ClockOK, TakeBatch
  PROVE  Typed' /\ ClockOK'
<1> USE DEF TakeBatch, memory, database
<1>1. TablesTyped'
  BY DEF Typed, TablesTyped, Current, TableOf, Tables
<1>2. RowsTyped' /\ TimesTyped'
  BY DEF RulesAssumption, Typed, RowsTyped, TimesTyped, Times, Never
<1>3. BatchTyped'
  BY DEF Typed, BatchTyped, Steps
<1>4. ClockOK'
  BY DEF RulesAssumption, Typed, TimesTyped, ClockOK, Times, Never
<1>5. QED BY <1>1, <1>2, <1>3, <1>4 DEF Typed

LEMMA UpdateExclusionsTyped ==
  ASSUME RulesAssumption, Typed, ClockOK, UpdateExclusions
  PROVE  Typed' /\ ClockOK'
<1> USE DEF UpdateExclusions, memory, database
<1>1. TablesTyped'
  BY DEF Typed, TablesTyped, Current, TableOf, Tables
<1>2. RowsTyped' /\ TimesTyped'
  BY DEF RulesAssumption, Typed, RowsTyped, TimesTyped, Times, Never
<1>3. BatchTyped'
  BY DEF Typed, BatchTyped, Steps
<1>4. ClockOK'
  BY DEF RulesAssumption, Typed, TimesTyped, ClockOK, Times, Never
<1>5. QED BY <1>1, <1>2, <1>3, <1>4 DEF Typed

LEMMA ReadPathsTyped ==
  ASSUME RulesAssumption, Typed, ClockOK, ReadPaths
  PROVE  Typed' /\ ClockOK'
<1> USE DEF ReadPaths, ReadTable, memory, database
<1>1. TablesTyped'
  BY DEF Typed, TablesTyped, Current, TableOf, Tables
<1>2. RowsTyped' /\ TimesTyped'
  BY DEF RulesAssumption, Typed, RowsTyped, TimesTyped, Times, Never
<1>3. BatchTyped'
  BY DEF Typed, BatchTyped, Steps
<1>4. ClockOK'
  BY DEF RulesAssumption, Typed, TimesTyped, ClockOK, Times, Never
<1>5. QED BY <1>1, <1>2, <1>3, <1>4 DEF Typed

LEMMA ReadPatternsTyped ==
  ASSUME RulesAssumption, Typed, ClockOK, ReadPatterns
  PROVE  Typed' /\ ClockOK'
<1> USE DEF ReadPatterns, ReadTable, memory, database
<1>1. TablesTyped'
  BY DEF Typed, TablesTyped, Current, TableOf, Tables
<1>2. RowsTyped' /\ TimesTyped'
  BY DEF RulesAssumption, Typed, RowsTyped, TimesTyped, Times, Never
<1>3. BatchTyped'
  BY DEF Typed, BatchTyped, Steps
<1>4. ClockOK'
  BY DEF RulesAssumption, Typed, TimesTyped, ClockOK, Times, Never
<1>5. QED BY <1>1, <1>2, <1>3, <1>4 DEF Typed

LEMMA SkipTyped ==
  ASSUME RulesAssumption, Typed, ClockOK, Skip
  PROVE  Typed' /\ ClockOK'
<1> USE DEF Skip, memory, database
<1>1. TablesTyped'
  BY DEF Typed, TablesTyped, Current, TableOf, Tables
<1>2. RowsTyped' /\ TimesTyped'
  <2>1. RowsTyped'
    BY DEF RulesAssumption, Typed, RowsTyped
  <2>2. startedAt' \in {0, startedAt} /\ testedAt' \in {0, testedAt}
    BY DEF NextEvent
  <2>3. TimesTyped'
    BY <2>2 DEF Typed, TimesTyped, Times, Never, RulesAssumption
  <2>4. QED
    BY <2>1, <2>3
<1>3. BatchTyped'
  BY NextEventTyped DEF Typed, BatchTyped, TablesTyped, RulesAssumption
<1>4. ClockOK'
  BY DEF NextEvent, RulesAssumption, Typed, TimesTyped, ClockOK, Times, Never
<1>5. QED BY <1>1, <1>2, <1>3, <1>4 DEF Typed

LEMMA InsertTyped ==
  ASSUME RulesAssumption, Typed, ClockOK, Insert
  PROVE  Typed' /\ ClockOK'
<1> USE DEF Insert, memory, database
<1>1. TablesTyped'
  BY DEF Typed, TablesTyped, Current, TableOf, Tables
<1>2. RowsTyped' /\ TimesTyped'
  BY DEF RulesAssumption, Typed, RowsTyped, TimesTyped, Times, Never
<1>3. BatchTyped'
  BY DEF Typed, BatchTyped, Steps
<1>4. ClockOK'
  BY DEF RulesAssumption, Typed, TimesTyped, ClockOK, Times, Never
<1>5. QED BY <1>1, <1>2, <1>3, <1>4 DEF Typed

LEMMA MakeAlertInfoTyped ==
  ASSUME RulesAssumption, Typed, ClockOK, MakeAlertInfo
  PROVE  Typed' /\ ClockOK'
<1> USE DEF MakeAlertInfo, memory, database
<1>1. TablesTyped'
  BY DEF Typed, TablesTyped, Current, TableOf, Tables
<1>2. RowsTyped' /\ TimesTyped'
  BY DEF RulesAssumption, Typed, RowsTyped, TimesTyped, Times, Never
<1>3. BatchTyped'
  BY DEF Typed, BatchTyped, Steps
<1>4. ClockOK'
  BY DEF RulesAssumption, Typed, TimesTyped, ClockOK, Times, Never
<1>5. QED BY <1>1, <1>2, <1>3, <1>4 DEF Typed

LEMMA ReadAlertsTyped ==
  ASSUME RulesAssumption, Typed, ClockOK, ReadAlerts
  PROVE  Typed' /\ ClockOK'
<1> USE DEF ReadAlerts, memory, database
<1>1. TablesTyped'
  BY DEF Typed, TablesTyped, Current, TableOf, Tables
<1>2. RowsTyped' /\ TimesTyped'
  BY DEF RulesAssumption, Typed, RowsTyped, TimesTyped, Times, Never
<1>3. BatchTyped'
  BY DEF Typed, BatchTyped, Steps
<1>4. ClockOK'
  BY DEF RulesAssumption, Typed, TimesTyped, ClockOK, Times, Never
<1>5. QED BY <1>1, <1>2, <1>3, <1>4 DEF Typed

LEMMA MarkTyped ==
  ASSUME RulesAssumption, Typed, ClockOK, Mark
  PROVE  Typed' /\ ClockOK'
<1> USE DEF Mark, memory, database
<1>1. TablesTyped'
  BY DEF Typed, TablesTyped, Current, TableOf, Tables
<1>2. RowsTyped' /\ TimesTyped'
  <2>1. RowsTyped'
    BY DEF RulesAssumption, Typed, RowsTyped
  <2>2. startedAt' \in {0, startedAt} /\ testedAt' \in {0, testedAt}
    BY DEF NextEvent
  <2>3. TimesTyped'
    BY <2>2 DEF Typed, TimesTyped, Times, Never, RulesAssumption
  <2>4. QED
    BY <2>1, <2>3
<1>3. BatchTyped'
  BY MarkIsLast, NextEventTyped DEF Typed, BatchTyped, TablesTyped, RulesAssumption
<1>4. ClockOK'
  BY DEF NextEvent, RulesAssumption, Typed, TimesTyped, ClockOK, Times, Never
<1>5. QED BY <1>1, <1>2, <1>3, <1>4 DEF Typed

LEMMA DBErrorTyped ==
  ASSUME RulesAssumption, Typed, ClockOK, DBError
  PROVE  Typed' /\ ClockOK'
<1> USE DEF DBError, memory, database
<1>1. TablesTyped'
  BY DEF Typed, TablesTyped, Current, TableOf, Tables
<1>2. RowsTyped' /\ TimesTyped'
  <2>1. RowsTyped'
    BY DEF RulesAssumption, Typed, RowsTyped
  <2>2. /\ failedAt' \in {failedAt, testedAt} /\ startedAt' = 0 /\ testedAt' = 0
        /\ UNCHANGED <<excludedTime, alertTime, shortAt, now>>
    OBVIOUS
  <2>3. testedAt \in Times /\ 0 \in 0..MaxTime
    BY DEF RulesAssumption, Typed, TimesTyped, Times, Never
  <2>4. Times' = Times
    BY DEF Times, Never
  <2>5. TimesTyped'
    <3> HIDE DEF DBError
    <3> QED BY <2>2, <2>3, <2>4 DEF Typed, TimesTyped
  <2>6. QED
    BY <2>1, <2>5
<1>3. BatchTyped'
  BY DEF RulesAssumption, Typed, BatchTyped, Steps
<1>4. ClockOK'
  BY DEF RulesAssumption, Typed, TimesTyped, ClockOK, Times, Never
<1>5. QED BY <1>1, <1>2, <1>3, <1>4 DEF Typed

LEMMA TickTyped ==
  ASSUME RulesAssumption, Typed, ClockOK, Tick
  PROVE  Typed' /\ ClockOK'
<1> USE DEF Tick, memory, database
<1>1. TablesTyped'
  BY DEF Typed, TablesTyped, Current, TableOf, Tables
<1>2. RowsTyped' /\ TimesTyped'
  BY DEF RulesAssumption, Typed, RowsTyped, TimesTyped, Times, Never
<1>3. BatchTyped'
  BY DEF Typed, BatchTyped, Steps
<1>4. ClockOK'
  BY DEF RulesAssumption, Typed, TimesTyped, ClockOK, Times, Never
<1>5. QED BY <1>1, <1>2, <1>3, <1>4 DEF Typed

LEMMA EditTyped ==
  ASSUME RulesAssumption, Typed, ClockOK, Edit
  PROVE  Typed' /\ ClockOK'
<1> USE DEF Edit, memory, database
<1>1. TablesTyped'
  BY DEF Typed, TablesTyped, Current, TableOf, Tables
<1>2. RowsTyped' /\ TimesTyped'
  BY DEF RulesAssumption, Typed, RowsTyped, TimesTyped, Times, Never
<1>3. BatchTyped'
  BY DEF Typed, BatchTyped, Steps
<1>4. ClockOK'
  BY DEF RulesAssumption, Typed, TimesTyped, ClockOK, Times, Never
<1>5. QED BY <1>1, <1>2, <1>3, <1>4 DEF Typed

LEMMA StutterTyped ==
  ASSUME RulesAssumption, Typed, ClockOK, UNCHANGED vars
  PROVE  Typed' /\ ClockOK'
BY DEF vars, Typed, TablesTyped, RowsTyped, TimesTyped, BatchTyped, ClockOK

-----------------------------------------------------------------------------
(* What was read since a time was read since every earlier one.            *)
LEMMA Earlier ==
  ASSUME Typed, NEW t \in Tables, NEW time \in Int, NEW earlier \in Int, earlier <= time,
         RulesAssumption, ReadSince(t, time)
  PROVE  ReadSince(t, earlier)
<1>1. Before(TableOf(t), earlier) \subseteq Before(TableOf(t), time)
  BY DEF Typed, RowsTyped, Before, Times, Never, RulesAssumption
<1>2. After(TableOf(t), time) \subseteq After(TableOf(t), earlier)
  BY DEF Typed, RowsTyped, After, Times, Never, RulesAssumption
<1>3. shortAt \in Int
  BY DEF Typed, TimesTyped, Times, Never, RulesAssumption
<1>4. shortAt < earlier => shortAt < time
  BY <1>3
<1>5. QED BY <1>1, <1>2, <1>4 DEF ReadSince

(* A table that is read is that of the database at any time until now.     *)
LEMMA JustRead ==
  ASSUME RulesAssumption, Typed, NEW t \in Tables, NEW time \in Int, time <= now, ReadTable(t),
         UNCHANGED database
  PROVE  /\ shortAt' < time => Before(TableOf(t), time)' \subseteq excluded'[t]
         /\ excluded'[t] \subseteq After(TableOf(t), time)'
<1> USE DEF database, Current, TableOf
<1>1. Before(TableOf(t), time)' \subseteq Current(TableOf(t))
  BY DEF Before
<1>2. Current(TableOf(t)) \subseteq After(TableOf(t), time)'
  BY DEF After
<1>3. CASE excluded' = [excluded EXCEPT ![t] = Current(TableOf(t))]
  <2>1. excluded'[t] = Current(TableOf(t))
    BY <1>3 DEF Typed, TablesTyped
  <2>2. QED BY <1>1, <1>2, <2>1, Zenon
<1>4. CASE shortAt' = now /\ \E part \in SUBSET Current(TableOf(t)) : excluded' = [excluded EXCEPT ![t] = part]
  <2>1. excluded'[t] \subseteq Current(TableOf(t))
    BY <1>4 DEF Typed, TablesTyped
  <2>2. ~ (shortAt' < time)
    BY <1>4 DEF Typed, TimesTyped
  <2>3. QED BY <1>2, <2>1, <2>2, Zenon
<1>5. QED BY <1>3, <1>4, Zenon DEF ReadTable

(* A rule that is edited now was there, or was not, at every time before.  *)
LEMMA EditKeeps ==
  ASSUME RulesAssumption, Typed, Edit, NEW rules, NEW time \in Int, time <= now
  PROVE  Before(rules, time)' \subseteq Before(rules, time) /\ After(rules, time) \subseteq After(rules, time)'
<1>1. CASE \E r \in rows : rows' = rows \ {r} /\ removed' = removed \cup {[rule |-> r.rule, at |-> now]}
  <2>1. PICK r \in rows : rows' = rows \ {r} /\ removed' = removed \cup {[rule |-> r.rule, at |-> now]}
    BY <1>1
  <2>2. Before(rules, time)' \subseteq Before(rules, time)
    BY <2>1 DEF Before
  <2>3. \A x \in rows : x \in rows' \/ \E y \in removed' : y.at >= time /\ y.rule = x.rule
    <3>1. [rule |-> r.rule, at |-> now] \in removed'
      BY <2>1
    <3>2. now \in Int
      BY DEF Typed, TimesTyped
    <3>3. QED BY <2>1, <3>1, <3>2
  <2>4. removed \subseteq removed'
    BY <2>1
  <2>5. After(rules, time) \subseteq After(rules, time)'
    BY <2>3, <2>4 DEF After
  <2>6. QED BY <2>2, <2>5
<1>2. CASE \E r \in Rules : rows' = rows \cup {[rule |-> r, since |-> now]} /\ UNCHANGED removed
  <2>1. PICK r \in Rules : rows' = rows \cup {[rule |-> r, since |-> now]} /\ removed' = removed
    BY <1>2
  <2>2. now \in Int
    BY DEF Typed, TimesTyped
  <2>3. Before(rules, time)' \subseteq Before(rules, time)
    BY <2>1, <2>2 DEF Before
  <2>4. After(rules, time) \subseteq After(rules, time)'
    BY <2>1 DEF After
  <2>5. QED BY <2>3, <2>4
<1>3. QED BY <1>1, <1>2 DEF Edit

-----------------------------------------------------------------------------
LEMMA TakeBatchExcludes ==
  ASSUME RulesAssumption, Typed, ClockOK, ExclusionsOK, TakeBatch
  PROVE  ExclusionsOK'
BY DEF TakeBatch, memory, database, RulesAssumption, Typed, TimesTyped, Times, Never, ExclusionsOK, ReadSince, Before, After, IsExcluded
LEMMA InsertExcludes ==
  ASSUME RulesAssumption, Typed, ClockOK, ExclusionsOK, Insert
  PROVE  ExclusionsOK'
BY DEF Insert, memory, database, RulesAssumption, Typed, TimesTyped, Times, Never, ExclusionsOK, ReadSince, Before, After, IsExcluded
LEMMA MakeAlertInfoExcludes ==
  ASSUME RulesAssumption, Typed, ClockOK, ExclusionsOK, MakeAlertInfo
  PROVE  ExclusionsOK'
BY DEF MakeAlertInfo, memory, database, RulesAssumption, Typed, TimesTyped, Times, Never, ExclusionsOK, ReadSince, Before, After, IsExcluded
LEMMA ReadAlertsExcludes ==
  ASSUME RulesAssumption, Typed, ClockOK, ExclusionsOK, ReadAlerts
  PROVE  ExclusionsOK'
BY DEF ReadAlerts, memory, database, RulesAssumption, Typed, TimesTyped, Times, Never, ExclusionsOK, ReadSince, Before, After, IsExcluded
LEMMA TickExcludes ==
  ASSUME RulesAssumption, Typed, ClockOK, ExclusionsOK, Tick
  PROVE  ExclusionsOK'
BY DEF Tick, memory, database, RulesAssumption, Typed, TimesTyped, Times, Never, ExclusionsOK, ReadSince, Before, After, IsExcluded
LEMMA UpdateExclusionsExcludes ==
  ASSUME RulesAssumption, Typed, ClockOK, ExclusionsOK, UpdateExclusions
  PROVE  ExclusionsOK'
BY DEF UpdateExclusions, memory, database, RulesAssumption, Typed, TimesTyped, Times, Never, ExclusionsOK, ReadSince, Before, After
LEMMA ReadPathsExcludes ==
  ASSUME RulesAssumption, Typed, ClockOK, ExclusionsOK, ReadPaths
  PROVE  ExclusionsOK'
<1>1. ReadTable("path") /\ UNCHANGED database /\ startedAt' = startedAt /\ startedAt \in Int /\ startedAt <= now
  BY DEF ReadPaths, database, Typed, TimesTyped, ClockOK
<1>2. ReadSince("path", startedAt)'
  BY <1>1, JustRead, Zenon DEF ReadSince, Tables
<1>3. excludedTime + Interval < startedAt /\ pc' = "patterns" /\ excludedTime' = excludedTime
  BY DEF ReadPaths, ExclusionsOK
<1>4. QED BY <1>1, <1>2, <1>3 DEF ExclusionsOK
LEMMA ReadPatternsExcludes ==
  ASSUME RulesAssumption, Typed, ClockOK, ExclusionsOK, ReadPatterns
  PROVE  ExclusionsOK'
<1>1. /\ ReadTable("pattern") /\ UNCHANGED database /\ startedAt' = startedAt /\ startedAt \in Int
      /\ startedAt <= now /\ now \in Int /\ pc' = "event" /\ excludedTime' = startedAt
  BY DEF ReadPatterns, database, Typed, TimesTyped, ClockOK
<1>2. ReadSince("pattern", startedAt)'
  BY <1>1, JustRead, Zenon DEF ReadSince, Tables
<1>3. ReadSince("path", startedAt) /\ excluded'["path"] = excluded["path"]
  BY DEF ReadPatterns, ExclusionsOK, ReadTable, Typed, TablesTyped, Tables
<1>4. shortAt' = shortAt \/ ~ (shortAt' < startedAt)
  BY <1>1 DEF ReadTable
<1>5. ReadSince("path", startedAt)'
  BY <1>1, <1>3, <1>4 DEF ReadSince, Before, After, TableOf, database
<1>6. startedAt' <= excludedTime' + Interval
  BY <1>1 DEF RulesAssumption
<1>7. QED BY <1>1, <1>2, <1>5, <1>6 DEF ExclusionsOK, ReadSince, Tables
LEMMA SkipExcludes ==
  ASSUME RulesAssumption, Typed, ClockOK, ExclusionsOK, Skip
  PROVE  ExclusionsOK'
BY DEF Skip, NextEvent, memory, database, RulesAssumption, Typed, TimesTyped, Times, Never, ExclusionsOK, ReadSince, Before, After
LEMMA MarkExcludes ==
  ASSUME RulesAssumption, Typed, ClockOK, ExclusionsOK, Mark
  PROVE  ExclusionsOK'
BY DEF Mark, NextEvent, memory, database, RulesAssumption, Typed, TimesTyped, Times, Never, ExclusionsOK, ReadSince, Before, After
LEMMA EditExcludes ==
  ASSUME RulesAssumption, Typed, ClockOK, ExclusionsOK, Edit
  PROVE  ExclusionsOK'
<1>1. UNCHANGED <<memory, batch, pc, startedAt, now, shortAt>>
  BY DEF Edit
<1>2. \A t \in Tables, time \in Int : time <= now /\ ReadSince(t, time) =>
        /\ shortAt < time => Before(TableOf(t), time)' \subseteq excluded[t]
        /\ excluded[t] \subseteq After(TableOf(t), time)'
  <2> SUFFICES ASSUME NEW t \in Tables, NEW time \in Int, time <= now, ReadSince(t, time)
               PROVE  /\ shortAt < time => Before(TableOf(t), time)' \subseteq excluded[t]
                      /\ excluded[t] \subseteq After(TableOf(t), time)'
    OBVIOUS
  <2>1. Before(TableOf(t), time)' \subseteq Before(TableOf(t), time) /\ After(TableOf(t), time) \subseteq After(TableOf(t), time)'
    BY EditKeeps, Zenon DEF TableOf
  <2>2. QED BY <2>1, Zenon DEF ReadSince
<1>3. /\ excludedTime \in Int /\ excludedTime <= now /\ startedAt \in Int /\ startedAt <= now
  BY DEF Typed, TimesTyped, ClockOK, Times, Never, RulesAssumption
<1>4. /\ \A t \in Tables : ReadSince(t, excludedTime) => ReadSince(t, excludedTime)'
      /\ ReadSince("path", startedAt) => ReadSince("path", startedAt)'
  BY <1>1, <1>2, <1>3 DEF memory, ReadSince, Tables, Before, After, TableOf
<1>5. QED BY <1>1, <1>4 DEF ExclusionsOK, memory, IsExcluded
LEMMA DBErrorExcludes ==
  ASSUME RulesAssumption, Typed, ClockOK, ExclusionsOK, DBError
  PROVE  ExclusionsOK'
<1>1. CASE pc \in {"paths", "patterns"}
  BY <1>1 DEF DBError, database, RulesAssumption, Typed, TimesTyped, Times, Never, ExclusionsOK, ClockOK
<1>2. CASE pc \notin {"paths", "patterns"}
  BY <1>2 DEF DBError, database, Typed, BatchTyped, Steps, ExclusionsOK, ReadSince, Before, After
<1>3. QED BY <1>1, <1>2
LEMMA StutterExcludes ==
  ASSUME ExclusionsOK, UNCHANGED vars
  PROVE  ExclusionsOK'
BY DEF vars, ExclusionsOK, ReadSince, Before, After, IsExcluded

-----------------------------------------------------------------------------
LEMMA AlertsStep == ASSUME RulesAssumption, Typed, ClockOK, AlertsOK, [Next]_vars PROVE AlertsOK'
<1>1. CASE /\ UNCHANGED <<alertTable, alertTime, failedAt, rows, removed, testedAt>> /\ pc # "rules" /\ pc' \notin {"rules", "mark"}
  BY <1>1 DEF AlertsOK, Before, After
<1>2. CASE TakeBatch \/ UpdateExclusions \/ ReadPaths \/ ReadPatterns \/ Skip \/ Insert
  <2>1. UNCHANGED <<alertTable, alertTime, failedAt, rows, removed, testedAt>>
    BY <1>2 DEF TakeBatch, UpdateExclusions, ReadPaths, ReadPatterns, Skip, Insert, memory, database
  <2>2. pc # "rules" /\ pc' \notin {"rules", "mark"}
    BY <1>2 DEF TakeBatch, UpdateExclusions, ReadPaths, ReadPatterns, Skip, Insert, NextEvent
  <2>3. QED BY <2>1, <2>2, <1>1
<1>7. CASE Tick \/ UNCHANGED vars
  BY <1>7 DEF Tick, vars, memory, AlertsOK, Before, After
<1>8. CASE Mark
  BY <1>8 DEF Mark, NextEvent, memory, database, AlertsOK, Before, After
<1>9. CASE MakeAlertInfo
  <2>1. UNCHANGED <<alertTable, failedAt, rows, removed>> /\ testedAt' = now /\ pc = "alert"
    BY <1>9 DEF MakeAlertInfo, database
  <2>2. CASE Stale
    BY <1>9, <2>1, <2>2 DEF MakeAlertInfo, AlertsOK
  <2>3. CASE ~ Stale
    <3>1. pc' = "mark" /\ alertTime' = alertTime /\ now - alertTime < Interval
      BY <1>9, <2>3 DEF MakeAlertInfo, Stale, Typed, TimesTyped, Times, Never, RulesAssumption
    <3>2. QED BY <2>1, <3>1 DEF AlertsOK, Before, After
  <2>4. QED BY <2>2, <2>3
<1>3. CASE ReadAlerts
  <2>1. pc = "rules" /\ pc' = "mark" /\ alertTime = testedAt /\ UNCHANGED <<alertTime, testedAt, rows, removed>>
    BY <1>3 DEF ReadAlerts, database, AlertsOK
  <2>2. testedAt' - alertTime' < Interval
    BY <2>1 DEF Typed, TimesTyped, Times, Never, RulesAssumption
  <2>3. CASE failedAt' = testedAt
    <3>1. ~ (failedAt' < alertTime')
      BY <2>1, <2>3 DEF Typed, TimesTyped
    <3>2. QED BY <2>1, <2>2, <3>1 DEF AlertsOK
  <2>4. CASE alertTable' = Current(Alerts)
    BY <2>1, <2>2, <2>4 DEF AlertsOK, Before, After, Current
  <2>5. QED BY <1>3, <2>3, <2>4 DEF ReadAlerts
<1>4. CASE DBError
  <2>1. pc' = "wait" /\ UNCHANGED <<alertTime, rows, removed>>
    BY <1>4 DEF DBError, database
  <2>2. CASE pc = "rules" /\ failedAt' = testedAt
    <3>1. ~ (failedAt' < alertTime')
      BY <2>1, <2>2 DEF AlertsOK, Typed, TimesTyped
    <3>2. QED BY <2>1, <3>1 DEF AlertsOK
  <2>3. CASE pc # "rules" /\ UNCHANGED <<alertTable, failedAt>>
    BY <2>1, <2>3 DEF AlertsOK, Before, After
  <2>4. QED BY <1>4, <2>2, <2>3 DEF DBError
<1>5. CASE Edit
  <2>1. alertTime \in Int /\ alertTime <= now
    BY DEF Typed, TimesTyped, ClockOK, Times, Never, RulesAssumption
  <2>2. /\ Before(Alerts, alertTime)' \subseteq Before(Alerts, alertTime)
        /\ After(Alerts, alertTime) \subseteq After(Alerts, alertTime)'
    <3>1. alertTime' = alertTime
      BY <1>5 DEF Edit, memory
    <3>2. \A time \in Int : time <= now =>
            /\ Before(Alerts, time)' \subseteq Before(Alerts, time)
            /\ After(Alerts, time) \subseteq After(Alerts, time)'
      BY <1>5, EditKeeps
    <3>3. QED BY <2>1, <3>1, <3>2 DEF Before, After
  <2>3. QED BY <1>5, <2>2 DEF AlertsOK, Edit, memory
<1>6. QED BY <1>2, <1>3, <1>4, <1>5, <1>7, <1>8, <1>9 DEF Next

LEMMA ExclusionsStep == ASSUME RulesAssumption, Typed, ClockOK, ExclusionsOK, [Next]_vars PROVE ExclusionsOK'
BY TakeBatchExcludes, UpdateExclusionsExcludes, ReadPathsExcludes, ReadPatternsExcludes, SkipExcludes,
   InsertExcludes, MakeAlertInfoExcludes, ReadAlertsExcludes, MarkExcludes, DBErrorExcludes, TickExcludes, EditExcludes,
   StutterExcludes DEF Next

LEMMA TypedStep == ASSUME RulesAssumption, Typed, ClockOK, [Next]_vars PROVE Typed' /\ ClockOK'
BY TakeBatchTyped, UpdateExclusionsTyped, ReadPathsTyped, ReadPatternsTyped, SkipTyped, InsertTyped,
   MakeAlertInfoTyped, ReadAlertsTyped, MarkTyped, DBErrorTyped, TickTyped, EditTyped, StutterTyped DEF Next

LEMMA TypedBack == ASSUME RulesAssumption, Typed', ClockOK' PROVE TypeOK'
BY PTL, TypeIsTyped

LEMMA Inductive == ASSUME RulesAssumption PROVE Spec => []IInv
<1>1. Init => IInv
  BY InitInv
<1>2. IInv /\ [Next]_vars => IInv'
  <2> SUFFICES ASSUME IInv, [Next]_vars PROVE IInv'
    OBVIOUS
  <2>1. Typed /\ ClockOK
    BY TypeIsTyped DEF IInv
  <2>2. Typed' /\ ClockOK'
    BY <2>1, TypedStep
  <2>3. TypeOK'
    BY <2>2, TypedBack
  <2>4. ExclusionsOK'
    BY <2>1, ExclusionsStep DEF IInv
  <2>5. AlertsOK'
    BY <2>1, AlertsStep DEF IInv
  <2>6. QED BY <2>2, <2>3, <2>4, <2>5 DEF IInv
<1>3. QED BY <1>1, <1>2, PTL DEF Spec

-----------------------------------------------------------------------------
(* Every variable keeps its type; a time of a table is never of the        *)
(* future. (cw_server.cpp update_exclusion_info, cw_output.cpp             *)
(* make_alert_info)                                                        *)
THEOREM RulesTyped == ASSUME RulesAssumption PROVE Spec => []TypeOK
<1>1. IInv => TypeOK
  BY DEF IInv
<1>2. QED BY <1>1, Inductive, PTL

(* An event that a row excludes is not stored once the row is older than   *)
(* the interval, whatever errors the refresh met, unless a read within the *)
(* interval ended early.                                                   *)
(* (cw_server.cpp update_exclusion_info, cw_output.cpp run)                *)
THEOREM ExcludedEvents == ASSUME RulesAssumption PROVE Spec => []ExcludedNotStored
<1>1. IInv => ExcludedNotStored
  <2> SUFFICES ASSUME IInv, pc = "alert", shortAt < startedAt - Interval,
                      NEW x \in Before(Exclusions, startedAt - Interval)
               PROVE  ~ Covers(x, Head(batch))
    BY DEF ExcludedNotStored
  <2>1. Typed
    BY TypeIsTyped DEF IInv
  <2>2. /\ startedAt - Interval \in Int /\ excludedTime \in Int /\ startedAt - Interval <= excludedTime
        /\ x.table \in Tables /\ x \in TableOf(x.table)
    BY <2>1 DEF IInv, ExclusionsOK, Typed, TimesTyped, Times, Never, RulesAssumption, Before, TableOf
  <2>3. ReadSince(x.table, startedAt - Interval)
    BY <2>1, <2>2, Earlier DEF IInv, ExclusionsOK
  <2>4. x \in excluded[x.table]
    BY <2>2, <2>3 DEF ReadSince, Before
  <2>5. QED BY <2>2, <2>4 DEF IInv, ExclusionsOK, IsExcluded
<1>2. QED BY <1>1, Inductive, PTL

(* An event is dropped only for a row that was in the database within the  *)
(* interval before its batch, or later.                                    *)
(* (cw_server.cpp update_exclusion_info, cw_output.cpp run)                *)
THEOREM DroppedForARow == ASSUME RulesAssumption PROVE Spec => NothingHidden
<1>1. ASSUME IInv, [Next]_vars
      PROVE  [Skip => \/ IsStoreFile(Head(batch))
                      \/ \E x \in After(Exclusions, startedAt - Interval) : Covers(x, Head(batch))]_vars
  <2> SUFFICES ASSUME Skip, ~ IsStoreFile(Head(batch))
               PROVE  \E x \in After(Exclusions, startedAt - Interval) : Covers(x, Head(batch))
    OBVIOUS
  <2>1. Typed
    BY <1>1, TypeIsTyped DEF IInv
  <2>2. PICK t \in Tables : \E x \in excluded[t] : Covers(x, Head(batch))
    BY DEF Skip, IsExcluded
  <2>3. PICK x \in excluded[t] : Covers(x, Head(batch))
    BY <2>2
  <2>4. startedAt - Interval \in Int /\ excludedTime \in Int /\ startedAt - Interval <= excludedTime
    BY <1>1, <2>1 DEF IInv, Skip, ExclusionsOK, Typed, TimesTyped, Times, Never, RulesAssumption
  <2>5. ReadSince(t, startedAt - Interval)
    BY <1>1, <2>1, <2>4, Earlier DEF IInv, Skip, ExclusionsOK
  <2>6. x \in After(Exclusions, startedAt - Interval)
    BY <2>3, <2>5 DEF ReadSince, After, TableOf
  <2>7. QED BY <2>3, <2>6
<1>2. QED BY <1>1, Inductive, PTL DEF Spec, NothingHidden

(* An event is marked with the last of the rules that watch it and are     *)
(* older than the interval, or a later one, and only with a rule that was  *)
(* in the database within it or later, unless a read failed within it; it  *)
(* is the interval before the rules' age was tested.                       *)
(* (cw_output.cpp make_alert_info, update_alert)                           *)
THEOREM MarkedEvents == ASSUME RulesAssumption PROVE Spec => MarkedByRules
<1>1. ASSUME IInv, [Next]_vars
      PROVE  [Mark =>
                LET e == Head(batch)
                    old == {a \in Before(Alerts, testedAt - Interval + 1) : Watches(a, e)}
                IN testedAt - failedAt >= Interval =>
                     /\ \A a \in old : alert'.id >= a.id
                     /\ alert' # None => alert' \in After(Alerts, testedAt - Interval + 1) /\ Watches(alert', e)]_vars
  <2> DEFINE e == Head(batch)
             old == {a \in Before(Alerts, testedAt - Interval + 1) : Watches(a, e)}
             found == {a \in alertTable : Watches(a, e)}
  <2> SUFFICES ASSUME Mark, testedAt - failedAt >= Interval
               PROVE  /\ \A a \in old : alert'.id >= a.id
                      /\ alert' # None => alert' \in After(Alerts, testedAt - Interval + 1) /\ Watches(alert', e)
    BY Zenon
  <2>1. Typed
    BY <1>1, TypeIsTyped DEF IInv
  <2>2. /\ testedAt - Interval + 1 \in Int /\ alertTime \in Int /\ testedAt - Interval + 1 <= alertTime
        /\ failedAt < alertTime
    BY <1>1, <2>1 DEF IInv, AlertsOK, Mark, Typed, TimesTyped, Times, Never, RulesAssumption
  <2>3. old \subseteq found
    BY <1>1, <2>1, <2>2 DEF IInv, AlertsOK, Mark, Before, Typed, RowsTyped, Times, Never, RulesAssumption
  <2>4. found \subseteq After(Alerts, testedAt - Interval + 1)
    BY <1>1, <2>1, <2>2 DEF IInv, AlertsOK, Mark, After, Typed, RowsTyped, Times, Never, RulesAssumption
  <2>5. /\ found = {} => alert' = None
        /\ found # {} => alert' \in found /\ \A b \in found : b.id <= alert'.id
    BY <2>1, MarkIsLast DEF Mark, Typed, TablesTyped
  <2>6. QED
    <3>1. CASE found = {}
      BY <2>3, <2>5, <3>1
    <3>2. CASE found # {}
      <4>1. \A a \in old : a.id <= alert'.id
        BY <2>3, <2>5, <3>2
      <4>2. QED BY <2>4, <2>5, <3>2, <4>1
    <3>3. QED BY <3>1, <3>2
<1>2. QED BY <1>1, Inductive, PTL DEF Spec, MarkedByRules
=============================================================================

----------------------------- MODULE EventRules ------------------------------
(***************************************************************************)
(* Which events the event processor stores and which it marks: the tables  *)
(* of exclusions and of alert rules that it keeps of the database, their   *)
(* refresh, and their use for each event of a batch. Against it: a         *)
(* database whose rules are edited at any time, and whose answers fail or  *)
(* end early.                                                              *)
(***************************************************************************)
EXTENDS Integers, Sequences, FiniteSets
LOCAL INSTANCE SequencesExt

CONSTANTS
  Events,      \* events: server, host and rest of the path, command
  Exclusions,  \* rows of alert_esc and pattern: table, server, kind, pattern
  Alerts,      \* rows of alert_target: id, server, folder, path, commands
  Interval,    \* of a refresh (60 s)
  MaxTime, MaxEdits, MaxFaults, MaxBatch  \* bounds: the clock, edits, faults, events at once

None == [id |-> 0]
Never == -2 * (Interval + 1)
Tables == {"path", "pattern"}

VARIABLES
  excluded,      \* _exclusion_info: the rows of the two tables
  excludedTime,  \* _last_update_exclusion_info
  alertTable,    \* _alert_target_map
  alertTime,     \* _alert_target_map_last_update_time
  batch, alert, pc,  \* what is left of the batch, the mark of the stored event
  startedAt,     \* the time at which update_exclusion_info began
  testedAt,      \* the time at which make_alert_info began
  \* the database
  now, rows,     \* the rules, with the time each was added
  removed,       \* history: rules with the time each was removed
  edits, faults,
  shortAt, failedAt  \* history: when a read of the exclusions ended early, and
                     \* when a read of the alert rules failed or ended early

vars == <<excluded, excludedTime, alertTable, alertTime, batch, alert, pc, startedAt,
          testedAt, now, rows, removed, edits, faults, shortAt, failedAt>>
memory == <<excluded, excludedTime, alertTable, alertTime>>
database == <<now, rows, removed, edits>>

Steps == {"wait", "update", "paths", "patterns", "event", "alert", "rules", "mark"}
Rules == Exclusions \cup Alerts
Times == Never..MaxTime
TypeOK ==
  /\ excluded \in [Tables -> SUBSET Exclusions] /\ \A t \in Tables : \A x \in excluded[t] : x.table = t
  /\ alertTable \subseteq Alerts
  /\ {excludedTime, alertTime, shortAt, failedAt} \subseteq Times
  /\ batch \in Seq(Events) /\ Len(batch) <= MaxBatch /\ alert \in Alerts \cup {None}
  /\ pc \in Steps /\ (pc = "wait" <=> batch = <<>>)
  /\ rows \subseteq [rule : Rules, since : Times] /\ removed \subseteq [rule : Rules, at : Times]
  /\ {now, startedAt, testedAt} \subseteq 0..MaxTime /\ {excludedTime, alertTime} \cap (now + 1)..MaxTime = {}

-----------------------------------------------------------------------------
(* is_excluded: a path without its host, against the rows of the server    *)
(* and the patterns of all.                                                *)
Occurs(pattern, path) ==
  \E i \in 0..(Len(path) - Len(pattern)) : SubSeq(path, i + 1, i + Len(pattern)) = pattern
Covers(x, e) ==
  LET path == IF e.rest = <<>> THEN e.host ELSE e.rest
  IN /\ x.table = "path" => x.server = e.server
     /\ CASE x.kind = "starts" -> IsPrefix(x.pattern, path)
          [] x.kind = "ends" -> IsSuffix(x.pattern, path)
          [] x.kind = "contains" -> Occurs(x.pattern, path)
          [] x.kind = "complete" -> path = x.pattern
IsStoreFile(e) == Last(e.host \o e.rest) = ".DS_Store"
IsExcluded(e) ==
  \/ IsStoreFile(e)
  \/ \E t \in Tables : \E x \in excluded[t] : Covers(x, e)

(* The conditions of update_alert. The folder itself is without its last   *)
(* separator.                                                              *)
Watches(a, e) ==
  LET path == e.host \o e.rest
  IN /\ a.server = e.server /\ e.cmd \in a.commands
     /\ IF a.folder
        THEN \/ IsPrefix(a.path, path)
             \/ "opendir" \in a.commands
                /\ path = IF a.path # <<>> /\ Last(a.path) = "/" THEN Front(a.path) ELSE a.path
        ELSE a.path = path

(* Mutant: the first rule that fits is kept.                               *)
MarkOf_First(e) ==
  LET found == {a \in alertTable : Watches(a, e)}
  IN IF found = {} THEN None ELSE CHOOSE a \in found : \A b \in found : a.id <= b.id

(* Each rule that fits is written over the one before.                     *)
MarkOf(e) ==
  LET found == {a \in alertTable : Watches(a, e)}
  IN IF found = {} THEN None ELSE CHOOSE a \in found : \A b \in found : b.id <= a.id

(* The rules of a table in the database now.                               *)
Current(rules) == {r.rule : r \in rows} \cap rules
TableOf(t) == {x \in Exclusions : x.table = t}

-----------------------------------------------------------------------------
Init ==
  /\ excluded = [t \in Tables |-> {}] /\ alertTable = {} /\ excludedTime = Never /\ alertTime = Never
  /\ batch = <<>> /\ alert = None /\ pc = "wait" /\ startedAt = 0 /\ testedAt = 0
  /\ now = 0 /\ removed = {} /\ edits = 0 /\ faults = 0 /\ shortAt = Never /\ failedAt = Never
  /\ rows = {[rule |-> r, since |-> Never] : r \in Rules} \/ rows = {}

(* A batch of the queue.                                                   *)
TakeBatch ==
  /\ pc = "wait"
  /\ batch' \in UNION {[1..n -> Events] : n \in 1..MaxBatch}
  /\ pc' = "update" /\ alert' = None
  /\ UNCHANGED <<memory, startedAt, testedAt, database, faults, shortAt, failedAt>>

(* Mutant: the time is taken before the tables are read.                   *)
UpdateExclusions_TimeFirst ==
  /\ pc = "update"
  /\ IF excludedTime + Interval < now
     THEN pc' = "paths" /\ excludedTime' = now
     ELSE pc' = "event" /\ UNCHANGED excludedTime
  /\ startedAt' = now
  /\ UNCHANGED <<excluded, alertTable, alertTime, batch, alert, testedAt, database, faults, shortAt, failedAt>>

(* update_exclusion_info, once for a batch.                                *)
UpdateExclusions ==
  /\ pc = "update"
  /\ startedAt' = now
  /\ pc' = IF excludedTime + Interval < now THEN "paths" ELSE "event"
  /\ UNCHANGED <<memory, batch, alert, testedAt, database, faults, shortAt, failedAt>>

(* Mutant: the old rows stay.                                              *)
ReadTable_Adds(t) ==
  /\ \/ excluded' = [excluded EXCEPT ![t] = @ \cup Current(TableOf(t))] /\ UNCHANGED <<faults, shortAt>>
     \/ /\ faults < MaxFaults /\ faults' = faults + 1 /\ shortAt' = now
        /\ \E part \in SUBSET Current(TableOf(t)) : excluded' = [excluded EXCEPT ![t] = part]

(* A table is cleared and read anew. A fetch that fails is taken for the   *)
(* end of the rows.                                                        *)
ReadTable(t) ==
  /\ \/ excluded' = [excluded EXCEPT ![t] = Current(TableOf(t))] /\ UNCHANGED <<faults, shortAt>>
     \/ /\ faults < MaxFaults /\ faults' = faults + 1 /\ shortAt' = now
        /\ \E part \in SUBSET Current(TableOf(t)) : excluded' = [excluded EXCEPT ![t] = part]
ReadPaths ==
  /\ pc = "paths" /\ ReadTable("path") /\ pc' = "patterns"
  /\ UNCHANGED <<excludedTime, alertTable, alertTime, batch, alert, startedAt, testedAt, database, failedAt>>
ReadPatterns ==
  /\ pc = "patterns" /\ ReadTable("pattern") /\ pc' = "event" /\ excludedTime' = startedAt
  /\ UNCHANGED <<alertTable, alertTime, batch, alert, startedAt, testedAt, database, failedAt>>

(* Mutant: the end of the batch is not noticed.                            *)
NextEvent_NoEnd == batch' = Tail(batch) /\ pc' = "event" /\ UNCHANGED startedAt

(* The next event after this one.                                          *)
NextEvent ==
  /\ batch' = Tail(batch)
  /\ IF Len(batch) = 1 THEN pc' = "wait" /\ startedAt' = 0 ELSE pc' = "event" /\ UNCHANGED startedAt

Skip ==
  /\ pc = "event" /\ IsExcluded(Head(batch))
  /\ NextEvent /\ alert' = None
  /\ UNCHANGED <<memory, testedAt, database, faults, shortAt, failedAt>>
Insert ==
  /\ pc = "event" /\ ~ IsExcluded(Head(batch))
  /\ alert' = None /\ pc' = "alert"
  /\ UNCHANGED <<memory, batch, startedAt, testedAt, database, faults, shortAt, failedAt>>

(* make_alert_info: the clock is read once, for the test and as the time   *)
(* of the rules.                                                           *)
Stale == now - alertTime >= Interval
MakeAlertInfo ==
  /\ pc = "alert" /\ testedAt' = now
  /\ IF Stale THEN pc' = "rules" /\ alertTime' = now ELSE pc' = "mark" /\ UNCHANGED alertTime
  /\ UNCHANGED <<excluded, excludedTime, alertTable, batch, alert, startedAt, database, faults, shortAt, failedAt>>
ReadAlerts ==
  /\ pc = "rules" /\ pc' = "mark"
  /\ \/ alertTable' = Current(Alerts) /\ UNCHANGED <<faults, failedAt>>
     \/ /\ faults < MaxFaults /\ faults' = faults + 1 /\ failedAt' = testedAt
        /\ alertTable' \in SUBSET Current(Alerts)
  /\ UNCHANGED <<excluded, excludedTime, alertTime, batch, alert, startedAt, testedAt, database, shortAt>>

(* update_alert.                                                           *)
Mark ==
  /\ pc = "mark"
  /\ alert' = MarkOf(Head(batch)) /\ NextEvent /\ testedAt' = 0
  /\ UNCHANGED <<memory, database, faults, shortAt, failedAt>>

(* A call of the database throws: the rest of the batch is gone. A table   *)
(* that is being read has what was fetched before; the time of the alert   *)
(* rules has been set, that of the exclusions has not.                     *)
DBError ==
  /\ pc # "wait" /\ faults < MaxFaults /\ faults' = faults + 1
  /\ \/ /\ pc = "paths" /\ \E part \in SUBSET Current(TableOf("path")) : excluded' = [excluded EXCEPT !["path"] = part]
        /\ UNCHANGED <<alertTable, failedAt>>
     \/ /\ pc = "patterns" /\ \E part \in SUBSET Current(TableOf("pattern")) : excluded' = [excluded EXCEPT !["pattern"] = part]
        /\ UNCHANGED <<alertTable, failedAt>>
     \/ /\ pc = "rules" /\ failedAt' = testedAt
        /\ alertTable' \in {alertTable} \cup SUBSET Current(Alerts)
        /\ UNCHANGED excluded
     \/ pc \in {"update", "event", "alert", "mark"} /\ UNCHANGED <<excluded, alertTable, failedAt>>
  /\ batch' = <<>> /\ pc' = "wait" /\ alert' = None /\ startedAt' = 0 /\ testedAt' = 0
  /\ UNCHANGED <<excludedTime, alertTime, database, shortAt>>

(* Time passes, and the rules are edited, at any point.                    *)
Tick ==
  /\ now < MaxTime /\ now' = now + 1
  /\ UNCHANGED <<memory, batch, alert, pc, startedAt, testedAt, rows, removed, edits, faults, shortAt, failedAt>>
Edit ==
  /\ edits < MaxEdits /\ edits' = edits + 1
  /\ \/ \E r \in rows : rows' = rows \ {r} /\ removed' = removed \cup {[rule |-> r.rule, at |-> now]}
     \/ \E r \in Rules \ {x.rule : x \in rows} :
          rows' = rows \cup {[rule |-> r, since |-> now]} /\ UNCHANGED removed
  /\ UNCHANGED <<memory, batch, alert, pc, startedAt, testedAt, now, faults, shortAt, failedAt>>

Next ==
  \/ TakeBatch \/ UpdateExclusions \/ ReadPaths \/ ReadPatterns \/ Skip \/ Insert
  \/ MakeAlertInfo \/ ReadAlerts \/ Mark \/ DBError \/ Tick \/ Edit
Spec == Init /\ [][Next]_vars

-----------------------------------------------------------------------------
(* The rules that were in the database since before a time, and those that *)
(* were in it at that time or later.                                       *)
Before(rules, time) == {r.rule : r \in {x \in rows : x.since < time}} \cap rules
After(rules, time) ==
  rules \cap ({r.rule : r \in rows} \cup {r.rule : r \in {x \in removed : x.at >= time}})

(* An event is not stored when a row excludes it that was there for an     *)
(* interval before the batch, whatever errors the refresh met, unless a    *)
(* read within the interval ended early.                                   *)
(* (cw_server.cpp update_exclusion_info, cw_output.cpp run)                *)
ExcludedNotStored ==
  pc = "alert" /\ shortAt < startedAt - Interval =>
    \A x \in Before(Exclusions, startedAt - Interval) : ~ Covers(x, Head(batch))

(* An event is dropped only for a row that was there within the interval   *)
(* before the batch, or later. (cw_server.cpp update_exclusion_info)       *)
NothingHidden ==
  [][Skip => \/ IsStoreFile(Head(batch))
             \/ \E x \in After(Exclusions, startedAt - Interval) : Covers(x, Head(batch))]_vars

(* An event is marked with the last of the rules that watch it, when they  *)
(* are older than the interval before the event, and only with one that    *)
(* was there within it or later; unless a read failed within the interval. *)
(* The event's time is that at which the age of the rules is tested,       *)
(* however late they are read and used.                                    *)
(* (cw_output.cpp make_alert_info, update_alert)                           *)
MarkedByRules ==
  [][Mark =>
       LET e == Head(batch)
           old == {a \in Before(Alerts, testedAt - Interval + 1) : Watches(a, e)}
       IN testedAt - failedAt >= Interval =>
            /\ \A a \in old : alert'.id >= a.id
            /\ alert' # None => alert' \in After(Alerts, testedAt - Interval + 1) /\ Watches(alert', e)]_vars
=============================================================================

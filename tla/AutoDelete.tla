----------------------------- MODULE AutoDelete -----------------------------
(***************************************************************************)
(* The automatic deletion of old rows of `logfile`                         *)
(* (EventProcessor::autodelete). At each health check of the database,     *)
(* when more than ten seconds have passed since it last used it, the       *)
(* event processor reads the smallest and the largest id of the table,     *)
(* searches between them by bisection for the first row to keep, with one  *)
(* query per probe, and deletes the rows under it. The search relies on    *)
(* rows being stored in the order of their dates. Dates are in days.       *)
(***************************************************************************)
EXTENDS Integers, FiniteSets

CONSTANTS
  KeepDays,    \* pref.keep_log_days
  LastId,      \* bound of the model: the largest id ever given to a row
  LastDay,     \* bound of the model: the clock stops on this day
  MaxGaps,     \* bound of the model: insertions that take an id and fail
  MaxImports,  \* bound of the model: insertions from a capture file read later
  MaxErrors    \* bound of the model: errors of the database during a deletion

ASSUME AutoDeleteAssumption ==
  /\ KeepDays \in Nat /\ LastId \in Nat /\ LastDay \in Nat
  /\ MaxGaps \in Nat /\ MaxImports \in Nat /\ MaxErrors \in Nat

VARIABLES
  table,   \* the rows of logfile: id -> the day of its accessdate
  nextId,  \* the next id the database gives
  newest,  \* the latest date that was inserted in order
  today,
  pc,      \* "idle" | "search"
  cutoff, lower, upper,   \* the local variables of autodelete
  rested,  \* more than ten seconds have passed since db_last_access
  gaps, imports, errors
bounds == <<gaps, imports, errors>>
vars == <<table, nextId, newest, today, pc, cutoff, lower, upper, rested, bounds>>

Ids == 1..LastId
Rows == DOMAIN table
FirstAndLast(lo, hi) == \A i \in Rows : lo <= i /\ i <= hi

TypeOK ==
  /\ Rows \subseteq 1..(nextId - 1) /\ table \in [Rows -> 0..today]
  /\ nextId \in 1..(LastId + 1) /\ today \in 0..LastDay /\ newest \in 0..today
  /\ pc \in {"idle", "search"} /\ cutoff \in Int
  /\ lower \in 0..upper /\ upper \in 0..nextId /\ rested \in BOOLEAN
  /\ gaps \in 0..MaxGaps /\ imports \in 0..MaxImports /\ errors \in 0..MaxErrors

Init ==
  /\ table = [i \in {} |-> 0] /\ nextId = 1 /\ newest = 0 /\ today = 0
  /\ pc = "idle" /\ cutoff = 0 /\ lower = 0 /\ upper = 0 /\ rested = TRUE
  /\ gaps = 0 /\ imports = 0 /\ errors = 0

-----------------------------------------------------------------------------
NewDay ==
  /\ today < LastDay /\ today' = today + 1
  /\ UNCHANGED <<table, nextId, newest, pc, cutoff, lower, upper, rested, bounds>>

Store(date) ==
  /\ pc = "idle" /\ nextId \in Ids
  /\ table' = [i \in Rows \cup {nextId} |-> IF i = nextId THEN date ELSE table[i]]
  /\ nextId' = nextId + 1
  /\ UNCHANGED <<today, pc, cutoff, lower, upper, rested, gaps, errors>>

(* Ten seconds in which no event was stored.                               *)
Rest ==
  /\ ~rested /\ rested' = TRUE
  /\ UNCHANGED <<table, nextId, newest, today, pc, cutoff, lower, upper, bounds>>

(* An event of the live capture is stored. The thread that stores is the   *)
(* one that deletes: it checks the database first when it has rested, and  *)
(* has not rested after a batch. The queue keeps the order of the packets. *)
Insert ==
  /\ ~rested
  /\ \E date \in newest..today : Store(date) /\ newest' = date /\ UNCHANGED imports

(* `cw2_server <capture file>` stores the events of an older capture.      *)
Import ==
  /\ imports < MaxImports /\ imports' = imports + 1
  /\ \E date \in 0..today : Store(date)
  /\ UNCHANGED newest

(* A transaction that is rolled back has taken its id.                     *)
Burn ==
  /\ pc = "idle" /\ ~rested /\ nextId \in Ids /\ gaps < MaxGaps
  /\ nextId' = nextId + 1 /\ gaps' = gaps + 1
  /\ UNCHANGED <<table, newest, today, pc, cutoff, lower, upper, rested, imports, errors>>

-----------------------------------------------------------------------------
(* Mutant: the upper end is the last row instead of the id after it.       *)
Begin_LastRow ==
  /\ pc = "idle" /\ rested /\ pc' = "search"
  /\ cutoff' = today - KeepDays
  /\ \/ Rows = {} /\ lower' = 0 /\ upper' = 0
     \/ \E lo, hi \in Rows : FirstAndLast(lo, hi) /\ lower' = lo /\ upper' = hi
  /\ UNCHANGED <<table, nextId, newest, today, rested, bounds>>

(* Mutant: the upper end is two after the last row.                        *)
Begin_PastEnd ==
  /\ pc = "idle" /\ rested /\ pc' = "search"
  /\ cutoff' = today - KeepDays
  /\ \/ Rows = {} /\ lower' = 0 /\ upper' = 2
     \/ \E lo, hi \in Rows : FirstAndLast(lo, hi) /\ lower' = lo /\ upper' = hi + 2
  /\ UNCHANGED <<table, nextId, newest, today, rested, bounds>>

(* The health check comes only after a rest of more than ten seconds.      *)
(* min(id) and max(id) of an empty table are null, which reads as 0.       *)
Begin ==
  /\ pc = "idle" /\ rested /\ pc' = "search"
  /\ cutoff' = today - KeepDays
  /\ \/ Rows = {} /\ lower' = 0 /\ upper' = 1
     \/ \E lo, hi \in Rows : FirstAndLast(lo, hi) /\ lower' = lo /\ upper' = hi + 1
  /\ UNCHANGED <<table, nextId, newest, today, rested, bounds>>

Narrowing == lower + 1 < upper

Old(id) == id \in Rows /\ table[id] < cutoff

Probe == (lower + upper) \div 2

(* Mutant: a missing row is taken for one that was deleted as old.         *)
Search_MissingIsOld ==
  /\ pc = "search" /\ Narrowing
  /\ IF Old(Probe) \/ Probe \notin Rows THEN lower' = Probe + 1 /\ UNCHANGED upper
                   ELSE upper' = Probe /\ UNCHANGED lower
  /\ UNCHANGED <<table, nextId, newest, today, pc, cutoff, rested, bounds>>

(* A probe that finds no row is answered as a row that is young.           *)
Search ==
  /\ pc = "search" /\ Narrowing
  /\ IF Old(Probe) THEN lower' = Probe + 1 /\ UNCHANGED upper
                   ELSE upper' = Probe /\ UNCHANGED lower
  /\ UNCHANGED <<table, nextId, newest, today, pc, cutoff, rested, bounds>>

(* Mutant: the bound is the last id that was found old.                    *)
Delete_KeepLast ==
  /\ pc = "search" /\ ~Narrowing /\ pc' = "idle"
  /\ table' = [i \in {r \in Rows : r >= lower - 1} |-> table[i]]
  /\ rested' = FALSE
  /\ UNCHANGED <<nextId, newest, today, cutoff, lower, upper, bounds>>

Delete ==
  /\ pc = "search" /\ ~Narrowing /\ pc' = "idle"
  /\ table' = [i \in {r \in Rows : r >= lower} |-> table[i]]
  /\ rested' = FALSE
  /\ UNCHANGED <<nextId, newest, today, cutoff, lower, upper, bounds>>

(* A DBException leaves autodelete; the handle is closed, and the time is  *)
(* that of the last batch, which may be stored before the next check.      *)
DBError ==
  /\ pc = "search" /\ pc' = "idle"
  /\ errors < MaxErrors /\ errors' = errors + 1
  /\ rested' \in BOOLEAN
  /\ UNCHANGED <<table, nextId, newest, today, cutoff, lower, upper, gaps, imports>>

Next == NewDay \/ Rest \/ Insert \/ Import \/ Burn \/ Begin \/ Search \/ Delete \/ DBError

(* A processor that has rested checks the database when it wakes, at the   *)
(* latest after its wait of ten minutes; the code between its queries does *)
(* not block. Nothing makes it rest: events that come less than ten        *)
(* seconds apart put the check off.                                        *)
Spec == Init /\ [][Next]_vars /\ WF_vars(Begin) /\ WF_vars(Search) /\ WF_vars(Delete)

-----------------------------------------------------------------------------
(* A row is never deleted before it is older than the days to keep,        *)
(* whatever ids are missing from the table and whenever the search was     *)
(* interrupted, as long as no older capture was stored.                    *)
(* (cw_output.cpp autodelete)                                              *)
OnlyOldDeleted ==
  [][imports = 0 => \A i \in Rows \ DOMAIN table' : table[i] + KeepDays < today]_vars

(* During a search every row under the lower end is old: the bisection may *)
(* stop at any point and delete. (cw_output.cpp autodelete)                *)
SearchSound == pc = "search" /\ imports = 0 => \A i \in Rows : i < lower => table[i] < cutoff

(* Every search ends, also in a table that is not in the order of its      *)
(* dates: each probe makes the interval smaller.                           *)
(* (cw_output.cpp autodelete)                                              *)
SearchEnds == pc = "search" ~> pc = "idle"

(* No id is missing inside the table and its rows are in order.            *)
Dense == gaps = 0 /\ imports = 0

(* A deletion from such a table leaves at most one of the rows that are    *)
(* old: the oldest, which the search never probes when the row after it is *)
(* young. (cw_output.cpp autodelete)                                       *)
AtMostOneOldLeft ==
  [][Dense /\ Delete => Cardinality({i \in DOMAIN table' : table[i] < cutoff}) <= 1]_vars

(* Every search ends, and in such a table a row is deleted in the end once *)
(* the row after it is old, if there are ten seconds without an event      *)
(* again and again. (cw_output.cpp run, autodelete)                        *)
OldRowsGo ==
  /\ SearchEnds
  /\ []<>rested => \A i \in Ids :
       (i \in Rows /\ i + 1 \in Rows /\ table[i + 1] < today - KeepDays)
         ~> (i \notin Rows \/ ~Dense)

=============================================================================

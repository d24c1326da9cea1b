-------------------------- MODULE CsvArchive_proofs --------------------------
(***************************************************************************)
(* Proofs about CsvArchive, for every set of days, size of a file and      *)
(* number of records and faults.                                           *)
(***************************************************************************)
EXTENDS CsvArchive, SequenceTheorems, TLAPS

(* The steps that open a file happen while none is open, and the number of *)
(* a file never exceeds the number of records by more than one: this keeps *)
(* the numbers in their range.                                             *)
Opening == {"mkdir", "latest", "create", "first", "fopen"}
Limit == IF pc \in {"idle", "truncate", "record"} THEN Current + 1 ELSE Current
NumbersOK ==
  /\ number <= Limit /\ file <= Limit
  /\ \A d \in Days : latest[d] # Absent => latest[d] <= Limit
  /\ pc # "idle" => Current >= 1
  /\ pc \in {"first", "fopen", "append"} => number >= 1

FilesOK == files \in [Days -> [Numbers -> Seq(0..MaxRecords)]]
FlagOK == isOpen \in BOOLEAN
OpenOK ==
  /\ isOpen => date \in Days /\ number >= 1
  /\ pc \in Opening => ~isOpen
  /\ pc = "append" => isOpen
ScalarsOK ==
  /\ latest \in [Days -> Numbers \union {Absent}]
  /\ file \in Numbers /\ date \in Days \union {NoDate} /\ number \in Numbers /\ lines \in Nat
  /\ pc \in {"idle", "mkdir", "latest", "create", "first", "fopen", "append", "truncate", "record"}
  /\ day \in Days /\ records \in Seq(Days) /\ Current <= MaxRecords
  /\ faults \in 0..MaxFaults /\ damaged \subseteq Days /\ uncounted \in Nat

TypeInv == FilesOK /\ FlagOK /\ OpenOK /\ ScalarsOK /\ NumbersOK

Acts ==
  \/ \E d \in Days : Write(d)
  \/ MakeDir \/ MissLatest \/ CreateLatest \/ FirstLatest \/ ReadLatest \/ Open
  \/ AppendLine \/ TruncateLatest \/ RecordLatest \/ Close \/ Restart \/ Kill
  \/ UNCHANGED vars

LEMMA NextIsActs == [Next]_vars => Acts
  BY DEF Next, Acts

LEMMA FlagStep == FlagOK /\ [Next]_vars => FlagOK'
<1> SUFFICES ASSUME FlagOK, Acts PROVE FlagOK'
  BY NextIsActs
<1> USE DEF FlagOK, memory, disk
<1>1. CASE \E d \in Days : Write(d) BY <1>1, Zenon DEF Write
<1>2. CASE MakeDir \/ MissLatest \/ CreateLatest \/ FirstLatest \/ ReadLatest \/ TruncateLatest \/ RecordLatest
  BY <1>2, Zenon DEF MakeDir, MissLatest, CreateLatest, FirstLatest, ReadLatest, TruncateLatest, RecordLatest
<1>3. CASE Open \/ AppendLine BY <1>3, Zenon DEF Open, AppendLine
<1>4. CASE Close \/ Restart \/ Kill BY <1>4, Zenon DEF Close, Restart, Kill, Forget
<1>5. CASE UNCHANGED vars BY <1>5, Zenon DEF vars
<1>6. QED
  BY <1>1, <1>2, <1>3, <1>4, <1>5 DEF Acts

LEMMA OpenStep == OpenOK /\ day \in Days /\ NumbersOK /\ [Next]_vars => OpenOK'
<1> SUFFICES ASSUME OpenOK, day \in Days, NumbersOK, Acts PROVE OpenOK'
  BY NextIsActs
<1> USE DEF OpenOK, Opening, memory, disk, history
<1>1. CASE \E d \in Days : Write(d)
  BY <1>1 DEF Write
<1>2. CASE MakeDir \/ MissLatest \/ CreateLatest \/ FirstLatest \/ ReadLatest \/ TruncateLatest \/ RecordLatest
  BY <1>2 DEF MakeDir, MissLatest, CreateLatest, FirstLatest, ReadLatest, TruncateLatest, RecordLatest
<1>3. CASE Open BY <1>3 DEF Open, NumbersOK
<1>4. CASE AppendLine BY <1>4 DEF AppendLine
<1>5. CASE Close \/ Restart \/ Kill BY <1>5 DEF Close, Restart, Kill, Forget
<1>6. CASE UNCHANGED vars BY <1>6 DEF vars
<1>7. QED
  BY <1>1, <1>2, <1>3, <1>4, <1>5, <1>6 DEF Acts

LEMMA ScalarsStep == ScalarsOK /\ NumbersOK /\ FilesOK /\ [Next]_vars => ScalarsOK'
<1> SUFFICES ASSUME ScalarsOK, NumbersOK, FilesOK, Acts PROVE ScalarsOK'
  BY NextIsActs
<1> USE ArchiveAssumption DEF ScalarsOK, memory, disk, history, Numbers, Absent, Current
<1>1. ASSUME NEW d \in Days, Write(d) PROVE ScalarsOK'
  <2>1. records' \in Seq(Days) /\ Len(records') = Len(records) + 1
    BY <1>1 DEF Write
  <2>2. QED
    BY <1>1, <2>1 DEF Write
<1>2. CASE MakeDir BY <1>2 DEF MakeDir, Fault
<1>3. CASE MissLatest \/ CreateLatest BY <1>3 DEF MissLatest, CreateLatest, Fault
<1>4. CASE FirstLatest BY <1>4 DEF FirstLatest, Fault
<1>5. CASE ReadLatest
  <2>1. latest[day] \in Numbers /\ latest[day] <= MaxRecords
    BY <1>5 DEF ReadLatest, NumbersOK, Limit
  <2>2. file' = latest[day] /\ Len(files[day][file']) \in Nat
    BY <1>5, <2>1 DEF ReadLatest, FilesOK
  <2>3. lines' \in Nat /\ uncounted' \in Nat /\ faults' \in 0..MaxFaults
    BY <1>5, <2>2 DEF ReadLatest, CountLines, Fault
  <2>4. QED
    BY <1>5, <2>1, <2>3 DEF ReadLatest
<1>6. CASE Open BY <1>6 DEF Open, Fault
<1>7. CASE AppendLine BY <1>7 DEF AppendLine, NumbersOK, Limit, Fault
<1>8. CASE TruncateLatest BY <1>8 DEF TruncateLatest, Fault
<1>9. CASE RecordLatest BY <1>9 DEF RecordLatest, Fault
<1>10. CASE Close \/ Restart \/ UNCHANGED vars BY <1>10 DEF Close, Restart, Forget, vars
<1>11. CASE Kill BY <1>11 DEF Kill, Forget, Fault
<1>12. QED
  BY <1>1, <1>2, <1>3, <1>4, <1>5, <1>6, <1>7, <1>8, <1>9, <1>10, <1>11 DEF Acts

LEMMA NumbersStep == ScalarsOK /\ NumbersOK /\ OpenOK /\ [Next]_vars => NumbersOK'
<1> SUFFICES ASSUME ScalarsOK, NumbersOK, OpenOK, Acts PROVE NumbersOK'
  BY NextIsActs
<1> USE ArchiveAssumption DEF NumbersOK, Limit, ScalarsOK, memory, disk, history, Numbers, Absent, Current
<1>1. ASSUME NEW d \in Days, Write(d) PROVE NumbersOK'
  <2>1. Len(records') = Len(records) + 1
    BY <1>1 DEF Write
  <2>2. /\ pc' \in {"append", "mkdir"} /\ number' \in {1, number}
        /\ pc = "idle" /\ UNCHANGED <<latest, file>>
    BY <1>1, Zenon DEF Write
  <2>3. pc' = "append" => number' >= 1
    BY <1>1 DEF Write, OpenOK
  <2>4. QED
    BY <2>1, <2>2, <2>3
<1>2. CASE MakeDir BY <1>2 DEF MakeDir, Fault
<1>3. CASE MissLatest \/ CreateLatest BY <1>3 DEF MissLatest, CreateLatest, Fault
<1>4. CASE FirstLatest BY <1>4 DEF FirstLatest, Fault
<1>5. CASE ReadLatest BY <1>5 DEF ReadLatest
<1>6. CASE Open BY <1>6 DEF Open, Fault
<1>7. CASE AppendLine BY <1>7 DEF AppendLine
<1>8. CASE TruncateLatest BY <1>8 DEF TruncateLatest, Fault
<1>9. CASE RecordLatest BY <1>9 DEF RecordLatest, Fault
<1>10. CASE Close \/ Restart \/ UNCHANGED vars BY <1>10 DEF Close, Restart, Forget, vars
<1>11. CASE Kill BY <1>11 DEF Kill, Forget, Fault
<1>12. QED
  BY <1>1, <1>2, <1>3, <1>4, <1>5, <1>6, <1>7, <1>8, <1>9, <1>10, <1>11 DEF Acts

(* What a step does to the files: nothing, or one more record at the end   *)
(* of one file, after the header if the file was empty.                    *)
Extended(s, r) == (IF s = <<>> THEN <<Header>> ELSE s) \o <<r>>

LEMMA ExtendedFacts ==
  ASSUME NEW s \in Seq(0..MaxRecords), NEW r \in 1..MaxRecords
  PROVE  /\ Extended(s, r) \in Seq(0..MaxRecords)
         /\ Len(Extended(s, r)) >= Len(s)
         /\ \A i \in 1..Len(s) : Extended(s, r)[i] = s[i]
         /\ (\A i \in 1..Len(s) : s[i] = Header <=> i = 1) =>
              \A i \in 1..Len(Extended(s, r)) : Extended(s, r)[i] = Header <=> i = 1
<1> USE ArchiveAssumption DEF Extended, Header
<1>1. CASE s = <<>>
  <2>1. Extended(s, r) = <<0>> \o <<r>> /\ <<0>> \in Seq(0..MaxRecords)
        /\ <<r>> \in Seq(0..MaxRecords) /\ Len(s) = 0
    BY <1>1
  <2>2. Len(Extended(s, r)) = 2 /\ Extended(s, r)[1] = 0 /\ Extended(s, r)[2] = r
    BY <2>1
  <2>3. \A i \in 1..2 : i = 1 \/ i = 2
    OBVIOUS
  <2>4. QED
    BY <2>1, <2>2, <2>3
<1>2. CASE s # <<>>
  <2>1. Extended(s, r) = s \o <<r>>
    BY <1>2
  <2>2. QED
    BY <1>2, <2>1
<1>3. QED
  BY <1>1, <1>2

LEMMA FilesChange ==
  ASSUME TypeInv, [Next]_vars
  PROVE  \/ files' = files
         \/ /\ date \in Days /\ file \in Numbers /\ Current \in 1..MaxRecords
            /\ files' = [files EXCEPT ![date][file] = Extended(@, Current)]
<1>1. CASE AppendLine
  <2>1. date \in Days /\ file \in Numbers /\ Current \in 1..MaxRecords
    BY <1>1 DEF AppendLine, TypeInv, OpenOK, ScalarsOK, NumbersOK, Current
  <2>2. QED
    BY <1>1, <2>1 DEF AppendLine, Extended
<1>2. CASE ~AppendLine
  <2>1. Acts
    BY NextIsActs
  <2>2. QED
    BY <1>2, <2>1 DEF Acts, Write, MakeDir, MissLatest, CreateLatest, FirstLatest, ReadLatest, Open,
      TruncateLatest, RecordLatest, Close, Restart, Kill, vars, disk
<1>3. QED
  BY <1>1, <1>2

LEMMA FilesStep == TypeInv /\ [Next]_vars => FilesOK'
<1> SUFFICES ASSUME TypeInv, [Next]_vars PROVE FilesOK'
  OBVIOUS
<1>1. CASE files' = files BY <1>1 DEF TypeInv, FilesOK
<1>2. CASE /\ date \in Days /\ file \in Numbers /\ Current \in 1..MaxRecords
           /\ files' = [files EXCEPT ![date][file] = Extended(@, Current)]
  <2>1. files[date][file] \in Seq(0..MaxRecords)
    BY <1>2 DEF TypeInv, FilesOK
  <2>2. Extended(files[date][file], Current) \in Seq(0..MaxRecords)
    BY <1>2, <2>1, ExtendedFacts
  <2>3. QED
    BY <1>2, <2>2 DEF TypeInv, FilesOK
<1>3. QED
  BY <1>1, <1>2, FilesChange

LEMMA TypeInit == Init => TypeInv
<1> SUFFICES ASSUME Init PROVE TypeInv
  OBVIOUS
<1>1. FilesOK
  <2>1. <<>> \in Seq(0..MaxRecords)
    OBVIOUS
  <2>2. QED
    BY <2>1 DEF Init, FilesOK
<1>2. OpenOK /\ ScalarsOK /\ NumbersOK
  BY ArchiveAssumption
  DEF Init, OpenOK, Opening, ScalarsOK, NumbersOK, Limit, Numbers, Absent, Current
<1>3. QED
  BY <1>1, <1>2, Zenon DEF TypeInv, FlagOK, Init

LEMMA TypeStep == TypeInv /\ [Next]_vars => TypeInv'
  BY FlagStep, OpenStep, ScalarsStep, NumbersStep, FilesStep DEF TypeInv, ScalarsOK

LEMMA TypeInvariant == Spec => []TypeInv
  BY TypeInit, TypeStep, PTL DEF Spec

(* Every variable keeps its type.                                          *)
THEOREM TypeCorrect == Spec => []TypeOK
<1>1. TypeInv => TypeOK
  BY DEF TypeInv, TypeOK, FilesOK, FlagOK, OpenOK, ScalarsOK
<1>2. QED
  BY <1>1, TypeInvariant, PTL

(* No line that was written is removed or changed.                         *)
THEOREM LinesStay == Spec => AppendOnly
<1>1. ASSUME TypeInv, [Next]_vars, NEW d \in Days, NEW n \in Numbers
      PROVE  /\ Len(files[d][n]) <= Len(files'[d][n])
             /\ \A i \in 1..Len(files[d][n]) : files'[d][n][i] = files[d][n][i]
  <2>1. files[d][n] \in Seq(0..MaxRecords)
    BY <1>1 DEF TypeInv, FilesOK
  <2>2. files'[d][n] = files[d][n] \/ (/\ Current \in 1..MaxRecords
                                       /\ files'[d][n] = Extended(files[d][n], Current))
    BY <1>1, FilesChange DEF TypeInv, FilesOK
  <2>3. QED
    BY <2>1, <2>2, ExtendedFacts
<1>2. TypeInv /\ [Next]_vars =>
        [\A d \in Days, n \in Numbers :
           /\ Len(files[d][n]) <= Len(files'[d][n])
           /\ \A i \in 1..Len(files[d][n]) : files'[d][n][i] = files[d][n][i]]_vars
  BY <1>1
<1>3. QED
  BY <1>2, TypeInvariant, PTL DEF Spec, AppendOnly

(* Every file has its header once, at its beginning.                       *)
THEOREM HeadersOnce == Spec => []HeaderOnce
<1>1. Init => HeaderOnce
  BY DEF Init, HeaderOnce
<1>2. ASSUME TypeInv, HeaderOnce, [Next]_vars PROVE HeaderOnce'
  <2>1. ASSUME NEW d \in Days, NEW n \in Numbers
        PROVE  \A i \in 1..Len(files'[d][n]) : files'[d][n][i] = Header <=> i = 1
    <3>1. files[d][n] \in Seq(0..MaxRecords)
      BY <1>2 DEF TypeInv, FilesOK
    <3>2. files'[d][n] = files[d][n] \/ (/\ Current \in 1..MaxRecords
                                         /\ files'[d][n] = Extended(files[d][n], Current))
      BY <1>2, FilesChange DEF TypeInv, FilesOK
    <3>3. \A i \in 1..Len(files[d][n]) : files[d][n][i] = Header <=> i = 1
      BY <1>2, <2>1 DEF HeaderOnce
    <3>4. CASE files'[d][n] = files[d][n]
      BY <3>3, <3>4
    <3>5. CASE Current \in 1..MaxRecords /\ files'[d][n] = Extended(files[d][n], Current)
      <4>1. \A i \in 1..Len(Extended(files[d][n], Current)) :
              Extended(files[d][n], Current)[i] = Header <=> i = 1
        BY <3>1, <3>3, <3>5, ExtendedFacts
      <4>2. QED
        BY <4>1, <3>5
    <3>6. QED
      BY <3>2, <3>4, <3>5
  <2>2. QED
    BY <2>1 DEF HeaderOnce
<1>3. QED
  BY <1>1, <1>2, TypeInvariant, PTL DEF Spec
-----------------------------------------------------------------------------
(* The record in hand is the newest, is of the day in hand, and is in no   *)
(* file before AppendLine.                                                 *)
Unwritten == {"mkdir", "latest", "create", "first", "fopen", "append"}
RecordsOK ==
  /\ pc # "idle" => records[Current] = day
  /\ \A d \in Days, n \in Numbers : \A i \in 1..Len(files[d][n]) :
       files[d][n][i] <= Current /\ (pc \in Unwritten => files[d][n][i] < Current)

(* A day whose `latest` was always written: it names the file in use, the  *)
(* files above it are empty, and it is not full but for the time between   *)
(* the last line and the next number, or a kill in that time.              *)
Slack == faults + uncounted
EmptyFrom(d, first) == \A n \in Numbers : n >= first => files[d][n] = <<>>
Size(d, n) == Len(files[d][n])
At(d, steps) == day = d /\ pc \in steps
LatestOK(d) ==
  /\ latest[d] = Absent => /\ EmptyFrom(d, 0) /\ date # d
                           /\ ~ At(d, {"first", "fopen", "append", "truncate", "record"})
                           /\ At(d, {"mkdir", "latest"}) => number = 1
  /\ latest[d] = 0 => At(d, {"first", "record"})
  /\ latest[d] \in Numbers \ {0} => /\ EmptyFrom(d, latest[d] + 1)
                                    /\ Size(d, latest[d]) <= FileLines + Slack \/ At(d, {"truncate"})
StepsOK(d) ==
  /\ At(d, {"first"}) => latest[d] = 0 /\ number = 1 /\ file = 1 /\ EmptyFrom(d, 0)
  /\ At(d, {"fopen"}) => latest[d] = file /\ number = file /\ Size(d, file) <= lines + 1 + uncounted
  /\ isOpen /\ date = d => latest[d] = file /\ number = file /\ Size(d, file) <= lines + 1 + uncounted
  /\ At(d, {"truncate", "record"}) => number = file + 1 /\ EmptyFrom(d, number)
  /\ At(d, {"truncate"}) => latest[d] = file
  /\ At(d, {"record"}) => latest[d] = 0
SizesOK(d) == \A n \in Numbers : Size(d, n) <= FileLines + 1 + Slack
DayOK(d) == LatestOK(d) /\ StepsOK(d) /\ SizesOK(d)
StateOK ==
  /\ pc = "append" => date = day
  /\ pc = "create" => day \in damaged
  /\ pc = "idle" /\ isOpen => lines < FileLines
  /\ pc \in {"truncate", "record"} => ~isOpen
ArchiveInv == TypeInv /\ RecordsOK /\ StateOK /\ \A d \in Days \ damaged : DayOK(d)

LEMMA AppendLineTurns ==
  ASSUME lines \in Nat, AppendLine
  PROVE  \/ pc' = "truncate" /\ ~isOpen'
         \/ pc' = "idle" /\ lines' < FileLines
<1>1. lines' \in Nat /\ FileLines \in Nat
  BY ArchiveAssumption DEF AppendLine
<1>2. CASE lines' >= FileLines
  <2>1. pc' = "truncate" /\ ~isOpen'
    BY <1>2, Zenon DEF AppendLine
  <2>2. QED
    BY <2>1
<1>3. CASE ~(lines' >= FileLines)
  <2>1. pc' = "idle"
    BY <1>3, Zenon DEF AppendLine
  <2>2. QED
    BY <1>1, <1>3, <2>1
<1>4. QED
  BY <1>2, <1>3

LEMMA StateStep == TypeInv /\ StateOK /\ [Next]_vars => StateOK'
<1> SUFFICES ASSUME TypeInv, StateOK, Acts PROVE StateOK'
  BY NextIsActs
<1> USE ArchiveAssumption DEF StateOK, memory, disk, history, TypeInv, OpenOK, ScalarsOK, Opening
<1>1. CASE \E d \in Days : Write(d)
  <2>1. PICK d \in Days : Write(d)
    BY <1>1
  <2>2. pc' \in {"append", "mkdir"} /\ (pc' = "append" => isOpen /\ d = date) /\ day' = d /\ date' = date
    BY <2>1 DEF Write
  <2>3. QED
    BY <2>2
<1>2. CASE MakeDir \/ MissLatest \/ CreateLatest \/ FirstLatest \/ ReadLatest
  BY <1>2 DEF MakeDir, MissLatest, CreateLatest, FirstLatest, ReadLatest, Fault
<1>3. CASE Open BY <1>3 DEF Open, Fault
<1>4. CASE AppendLine
  <2>1. lines \in Nat
    OBVIOUS
  <2>2. \/ pc' = "truncate" /\ ~isOpen'
        \/ pc' = "idle" /\ lines' < FileLines
    BY <1>4, <2>1, AppendLineTurns
  <2>3. QED
    BY <2>2
<1>5. CASE TruncateLatest \/ RecordLatest BY <1>5 DEF TruncateLatest, RecordLatest, Fault
<1>6. CASE Close \/ Restart \/ Kill \/ UNCHANGED vars
  BY <1>6 DEF Close, Restart, Kill, Forget, vars
<1>7. QED
  BY <1>1, <1>2, <1>3, <1>4, <1>5, <1>6 DEF Acts

LEMMA ExtendedLen ==
  ASSUME NEW s \in Seq(0..MaxRecords), NEW r \in 1..MaxRecords
  PROVE  Len(Extended(s, r)) = IF s = <<>> THEN 2 ELSE Len(s) + 1
<1> USE DEF Extended, Header
<1>1. CASE s = <<>>
  BY <1>1
<1>2. CASE s # <<>>
  BY <1>2
<1>3. QED
  BY <1>1, <1>2

(* The range of every variable that the steps of a day depend on.          *)
DayTyped(d) ==
  /\ \A n \in Numbers : Size(d, n) \in Nat
  /\ latest[d] \in Numbers \cup {Absent} /\ lines \in Nat
  /\ faults \in Nat /\ uncounted \in Nat /\ Slack \in Nat
  /\ file \in Numbers /\ number \in Numbers /\ (latest[d] # Absent => latest[d] <= MaxRecords + 1)
LEMMA Typed == ASSUME TypeInv, NEW d \in Days PROVE DayTyped(d)
<1>1. \A n \in Numbers : files[d][n] \in Seq(0..MaxRecords)
  BY DEF TypeInv, FilesOK
<1>2. \A n \in Numbers : Size(d, n) \in Nat
  BY <1>1 DEF Size
<1>3. QED
  BY <1>2, ArchiveAssumption DEF DayTyped, TypeInv, ScalarsOK, Numbers, Absent, Slack

(* A step that leaves a day's files alone keeps what is said of them.      *)
LEMMA DayWithFiles ==
  ASSUME NEW d \in Days, files'[d] = files[d]
  PROVE  /\ \A n \in Numbers : Size(d, n)' = Size(d, n)
         /\ \A k \in Nat : EmptyFrom(d, k)' <=> EmptyFrom(d, k)
  BY DEF Size, EmptyFrom

(* A step that leaves a day's files and its `latest` as they are and ends   *)
(* the work on it; the number of the next file recorded for it; and a line *)
(* appended to its last file.                                              *)
LEMMA LatestSettles ==
  ASSUME ArchiveAssumption, NEW d \in Days, DayTyped(d), LatestOK(d), SizesOK(d),
         files' = files, latest'[d] = latest[d], latest[d] # 0, pc' = "idle",
         date' = date \/ date' # d, Slack' \in Nat, Slack' >= Slack,
         At(d, {"truncate"}) => Slack' >= Slack + 1
  PROVE  LatestOK(d)'
<1>1. /\ \A n \in Numbers : Size(d, n)' = Size(d, n)
      /\ \A k \in Nat : EmptyFrom(d, k)' <=> EmptyFrom(d, k)
  BY DayWithFiles
<1>2. \A S : ~ ("idle" \in S) => ~ At(d, S)'
  BY DEF At
<1>3. CASE latest[d] = Absent
  <2>1. EmptyFrom(d, 0) /\ date' # d
    BY <1>3 DEF LatestOK
  <2>2. Absent # 0 /\ Absent \notin Numbers
    BY ArchiveAssumption DEF Absent, Numbers
  <2>3. EmptyFrom(d, 0)'
    BY <1>1, <2>1
  <2>4. QED
    BY <1>2, <1>3, <2>1, <2>2, <2>3 DEF LatestOK
<1>4. CASE latest[d] \in Numbers \ {0}
  <2> DEFINE k == latest[d]
  <2>1. /\ EmptyFrom(d, k + 1) /\ k + 1 \in Nat /\ Size(d, k) \in Nat /\ k # Absent
        /\ Size(d, k) <= FileLines + Slack \/ At(d, {"truncate"})
        /\ Size(d, k) <= FileLines + 1 + Slack
    BY <1>4, ArchiveAssumption DEF LatestOK, SizesOK, DayTyped, Numbers, Absent
  <2>2. EmptyFrom(d, k + 1)' /\ Size(d, k)' = Size(d, k)
    BY <1>1, <1>4, <2>1
  <2>3. Size(d, k) <= FileLines + Slack'
    BY <2>1, ArchiveAssumption DEF DayTyped
  <2>4. QED
    BY <1>4, <2>1, <2>2, <2>3 DEF LatestOK
<1>5. QED
  BY <1>3, <1>4 DEF DayTyped

LEMMA LatestRecorded ==
  ASSUME ArchiveAssumption, NEW d, NEW k \in Numbers \ {0}, latest'[d] = k,
         EmptyFrom(d, k + 1)', Size(d, k)' <= FileLines + Slack' \/ At(d, {"truncate"})'
  PROVE  LatestOK(d)'
<1>1. k # Absent /\ k # 0
  BY ArchiveAssumption DEF Absent, Numbers
<1>2. QED
  BY <1>1 DEF LatestOK

LEMMA LatestOfOtherDay ==
  ASSUME ArchiveAssumption, NEW d \in Days, DayTyped(d), LatestOK(d), d # day,
         files'[d] = files[d], latest'[d] = latest[d], day' = day, date' = date,
         Slack' \in Nat, Slack' >= Slack
  PROVE  LatestOK(d)'
<1>1. /\ \A n \in Numbers : Size(d, n)' = Size(d, n)
      /\ \A k \in Nat : EmptyFrom(d, k)' <=> EmptyFrom(d, k)
  BY DayWithFiles
<1>2. \A S : ~ At(d, S) /\ ~ At(d, S)'
  BY DEF At
<1>3. CASE latest[d] = Absent
  <2>1. EmptyFrom(d, 0) /\ date' # d
    BY <1>3 DEF LatestOK
  <2>2. Absent # 0 /\ Absent \notin Numbers
    BY ArchiveAssumption DEF Absent, Numbers
  <2>3. EmptyFrom(d, 0)'
    BY <1>1, <2>1
  <2>4. QED
    BY <1>2, <1>3, <2>1, <2>2, <2>3 DEF LatestOK
<1>4. CASE latest[d] \in Numbers \ {0}
  <2> DEFINE k == latest[d]
  <2>1. EmptyFrom(d, k + 1) /\ k + 1 \in Nat /\ Size(d, k) \in Nat /\ Size(d, k) <= FileLines + Slack
    BY <1>2, <1>4 DEF LatestOK, DayTyped, Numbers
  <2>2. EmptyFrom(d, k + 1)' /\ Size(d, k)' = Size(d, k)
    BY <1>1, <1>4, <2>1
  <2>3. Size(d, k) <= FileLines + Slack'
    BY <2>1, ArchiveAssumption DEF DayTyped
  <2>4. QED
    BY <1>4, <2>2, <2>3, LatestRecorded
<1>5. CASE latest[d] = 0
  BY <1>2, <1>5 DEF LatestOK
<1>6. QED
  BY <1>3, <1>4, <1>5 DEF DayTyped

(* A step on one day keeps what is said of every other one.                *)
LEMMA OtherDayKept ==
  ASSUME ArchiveAssumption, NEW d \in Days, DayTyped(d), DayOK(d), d # day,
         files'[d] = files[d], latest'[d] = latest[d], day' = day, date' = date,
         ~isOpen' \/ date # d, Slack' \in Nat, Slack' >= Slack
  PROVE  DayOK(d)'
<1>1. LatestOK(d)'
  BY LatestOfOtherDay DEF DayOK
<1>2. \A S : ~ At(d, S)'
  BY DEF At
<1>3. StepsOK(d)'
  BY <1>2 DEF StepsOK
<1>4. \A n \in Numbers : Size(d, n)' = Size(d, n) /\ Size(d, n) \in Nat /\ Size(d, n) <= FileLines + 1 + Slack
  BY DayWithFiles DEF DayTyped, DayOK, SizesOK
<1>5. FileLines \in Nat /\ Slack \in Nat
  BY ArchiveAssumption DEF DayTyped
<1>6. \A n \in Numbers : Size(d, n)' <= FileLines + 1 + Slack'
  BY <1>4, <1>5
<1>7. QED
  BY <1>1, <1>3, <1>6 DEF DayOK, SizesOK

LEMMA DayStepWrite ==
  ASSUME TypeInv, StateOK, NEW e \in Days, Write(e), NEW d \in Days, DayOK(d)
  PROVE  DayOK(d)'
<1>1. DayTyped(d)
  BY Typed
<1> USE ArchiveAssumption, <1>1 DEF DayTyped, Numbers, Absent, Size, EmptyFrom, At, Slack
<1>2. /\ pc = "idle" /\ pc' \in {"append", "mkdir"} /\ day' = e
      /\ UNCHANGED <<files, latest, file, date, lines, faults, uncounted>>
      /\ number' = IF e # date THEN 1 ELSE number
  BY Zenon DEF Write, disk
<1>3. isOpen' => isOpen /\ e = date
  BY DEF Write
<1>4. pc' = "append" => isOpen /\ date = e
  BY DEF Write
<1>5. LatestOK(d)'
  BY <1>2, <1>4 DEF DayOK, LatestOK, StepsOK
<1>6. StepsOK(d)'
  BY <1>2, <1>3 DEF DayOK, StepsOK
<1>7. SizesOK(d)'
  BY <1>2 DEF DayOK, SizesOK
<1>8. QED
  BY <1>5, <1>6, <1>7 DEF DayOK

LEMMA DayStepOpening ==
  ASSUME TypeInv, StateOK, MakeDir \/ MissLatest \/ CreateLatest \/ FirstLatest \/ ReadLatest \/ Open,
         NEW d \in Days, d \notin damaged', DayOK(d)
  PROVE  DayOK(d)'
<1>1. DayTyped(d)
  BY Typed
<1> USE ArchiveAssumption, <1>1 DEF DayTyped, Numbers, Absent, Size, EmptyFrom, At, memory, disk, history, Fault, Slack
<1>2. day \in Days /\ latest \in [Days -> Numbers \cup {Absent}]
  BY DEF TypeInv, ScalarsOK
<1>3. pc \in {"mkdir", "latest", "create", "first", "fopen"} => ~isOpen
  BY DEF TypeInv, OpenOK, Opening
<1>4. CASE MakeDir
  <2>4. /\ pc = "mkdir" /\ pc' \in {"latest", "idle"} /\ ~isOpen' /\ date' = NoDate
        /\ UNCHANGED <<files, latest, number, day>> /\ Slack' \in Nat /\ Slack' >= Slack
    BY <1>4, <1>3 DEF MakeDir
  <2> HIDE DEF Slack, Fault
  <2>1. LatestOK(d)'
    BY <2>4 DEF DayOK, LatestOK
  <2>2. StepsOK(d)'
    BY <2>4 DEF StepsOK
  <2>3. SizesOK(d)'
    BY <2>4 DEF DayOK, SizesOK
  <2>5. QED
    BY <2>1, <2>2, <2>3 DEF DayOK
<1>5. CASE CreateLatest
  <2>1. /\ UNCHANGED <<files, isOpen, date, day>> /\ ~isOpen' /\ Slack' \in Nat /\ Slack' >= Slack
    BY <1>5, <1>3 DEF CreateLatest
  <2>2. CASE d # day
    <3>1. latest'[d] = latest[d]
      BY <1>5, <1>2, <2>2 DEF CreateLatest
    <3> HIDE DEF DayTyped, Numbers, Absent, Size, EmptyFrom, At, Slack
    <3>2. QED
      BY <1>1, <2>1, <2>2, <3>1, OtherDayKept
  <2>3. CASE d = day
    <3>1. pc = "latest" /\ latest[d] = Absent
      BY <1>5, <2>3 DEF StateOK, CreateLatest
    <3>2. /\ latest'[d] = 0 /\ pc' = "first"
          /\ number' = IF number < 1 THEN 1 ELSE number
          /\ file' = number'
      BY <1>5, <1>2, <2>3 DEF CreateLatest
    <3> HIDE DEF Slack, Fault
    <3>3. EmptyFrom(d, 0) /\ number = 1
      BY <2>3, <3>1 DEF DayOK, LatestOK
    <3>4. LatestOK(d)'
      BY <2>1, <2>3, <3>2 DEF LatestOK
    <3>5. StepsOK(d)'
      BY <2>1, <2>3, <3>2, <3>3 DEF StepsOK
    <3>6. SizesOK(d)'
      BY <2>1 DEF DayOK, SizesOK
    <3>7. QED
      BY <3>4, <3>5, <3>6 DEF DayOK
  <2>4. QED
    BY <2>2, <2>3
<1>6. CASE FirstLatest
  <2>1. /\ pc = "first" /\ pc' = "fopen" /\ UNCHANGED <<files, isOpen, file, date, number, lines, day, uncounted>>
        /\ ~isOpen' /\ Slack' \in Nat /\ Slack' >= Slack
    BY <1>6, <1>3 DEF FirstLatest
  <2>2. CASE d # day
    <3>1. latest'[d] = latest[d]
      BY <1>6, <1>2, <2>2 DEF FirstLatest
    <3> HIDE DEF DayTyped, Numbers, Absent, Size, EmptyFrom, At, Slack
    <3>2. QED
      BY <1>1, <2>1, <2>2, <3>1, OtherDayKept
  <2>3. CASE d = day
    <3>1. latest'[d] = 1
      BY <1>6, <1>2, <2>3 DEF FirstLatest
    <3> HIDE DEF Slack, Fault
    <3>2. number = 1 /\ file = 1 /\ EmptyFrom(d, 0)
      BY <2>1, <2>3 DEF DayOK, StepsOK
    <3>3. 1 \in Numbers \ {0}
      BY <3>2
    <3>4. Size(d, 1)' = 0 /\ EmptyFrom(d, 2)'
      BY <2>1, <3>2, <3>3
    <3>5. LatestOK(d)'
      <4> HIDE DEF DayTyped, Numbers, Absent, Size, EmptyFrom, At
      <4>1. Size(d, 1)' <= FileLines + Slack'
        BY <2>1, <3>4
      <4>2. QED
        BY <3>1, <3>3, <3>4, <4>1, LatestRecorded
    <3>6. StepsOK(d)'
      BY <2>1, <2>3, <3>1, <3>2, <3>4 DEF StepsOK
    <3>7. SizesOK(d)'
      BY <2>1 DEF DayOK, SizesOK
    <3>8. QED
      BY <3>5, <3>6, <3>7 DEF DayOK
  <2>4. QED
    BY <2>2, <2>3
<1>7. CASE ReadLatest
  <2>5. /\ pc = "latest" /\ latest[day] # Absent /\ pc' = "fopen" /\ file' = latest[day]
        /\ number' = IF file' < 1 THEN 1 ELSE file'
        /\ UNCHANGED <<files, latest, isOpen, date, day>>
    BY <1>7 DEF ReadLatest
  <2>6. Size(day, file') \in Nat /\ file' \in Numbers
    BY <1>2, <2>5, Typed DEF DayTyped
  <2>7. /\ Slack' \in Nat /\ Slack' >= Slack /\ uncounted' \in Nat /\ lines' \in Nat
        /\ Size(day, file') <= lines' + 1 + uncounted'
    <3>1. lines \in Nat /\ faults \in Nat /\ uncounted \in Nat
      OBVIOUS
    <3>2. CASE lines' = Size(day, file') /\ UNCHANGED <<faults, uncounted>>
      BY <2>6, <3>1, <3>2
    <3>3. CASE Fault /\ uncounted' = uncounted + Size(day, file') /\ UNCHANGED lines
      <4>1. faults' = faults + 1 /\ lines' = lines
        BY <3>3
      <4> DEFINE k == Size(day, file')
      <4>2. k \in Nat /\ uncounted' = uncounted + k
        BY <2>6, <3>3
      <4> HIDE DEF k
      <4>3. Slack' \in Nat /\ Slack' >= Slack /\ uncounted' \in Nat /\ k <= lines' + 1 + uncounted'
        BY <3>1, <4>1, <4>2
      <4>4. QED
        BY <3>1, <4>1, <4>3 DEF k
    <3>4. QED
      BY <1>7, <3>2, <3>3 DEF ReadLatest, CountLines
  <2> HIDE DEF Slack, Fault
  <2>1. LatestOK(d)'
    BY <2>5, <2>7 DEF DayOK, LatestOK
  <2>2. StepsOK(d)'
    BY <1>2, <1>3, <2>5, <2>7 DEF DayOK, LatestOK, StepsOK
  <2>3. SizesOK(d)'
    BY <2>5, <2>7 DEF DayOK, SizesOK
  <2>4. QED
    BY <2>1, <2>2, <2>3 DEF DayOK
<1>8. CASE Open
  <2>5. /\ pc = "fopen" /\ pc' \in {"append", "idle"} /\ date' \in {date, day}
        /\ UNCHANGED <<files, latest, day>> /\ Slack' \in Nat /\ Slack' >= Slack
    BY <1>8 DEF Open
  <2>1. LatestOK(d)'
    BY <2>5 DEF DayOK, LatestOK
  <2>2. StepsOK(d)'
    BY <1>8, <1>3 DEF DayOK, StepsOK, Open
  <2>3. SizesOK(d)'
    <3>1. files' = files
      BY <1>8 DEF Open
    <3> HIDE DEF Slack, Fault
    <3>2. QED
      BY <2>5, <3>1 DEF DayOK, SizesOK
  <2>4. QED
    BY <2>1, <2>2, <2>3 DEF DayOK
<1>9. CASE MissLatest
  <2>1. /\ d # day /\ UNCHANGED <<files, latest, day, date, lines, uncounted>>
        /\ faults' = faults + 1 /\ ~isOpen'
    BY <1>9, <1>3 DEF MissLatest
  <2> HIDE DEF DayTyped, Numbers, Absent, Size, EmptyFrom, At, Slack
  <2>2. Slack' \in Nat /\ Slack' >= Slack
    BY <1>1, <2>1 DEF DayTyped, Slack
  <2>3. QED
    BY <1>1, <2>1, <2>2, OtherDayKept
<1>10. QED
  BY <1>4, <1>5, <1>6, <1>7, <1>8, <1>9

LEMMA DayStepAppend ==
  ASSUME TypeInv, StateOK, AppendLine, NEW d \in Days, DayOK(d)
  PROVE  DayOK(d)'
<1>1. DayTyped(d)
  BY Typed
<1> USE ArchiveAssumption DEF Numbers, Absent, At
<1>2. /\ pc = "append" /\ date = day /\ isOpen /\ date \in Days /\ file \in Numbers
      /\ Current \in 1..MaxRecords /\ files \in [Days -> [Numbers -> Seq(0..MaxRecords)]]
  BY DEF AppendLine, StateOK, TypeInv, FilesOK, OpenOK, ScalarsOK, NumbersOK, Current
<1>3. /\ \/ files' = [files EXCEPT ![date][file] = Extended(@, Current)]
         \/ files' = files
      /\ lines' = lines + 1 /\ UNCHANGED <<latest, file, date, day, uncounted>>
      /\ Slack' \in Nat /\ Slack' >= Slack
  <2>1. faults' = faults \/ faults' = faults + 1
    BY DEF AppendLine, Fault
  <2>2. lines' = lines + 1 /\ UNCHANGED <<latest, file, date, day, uncounted>>
    BY DEF AppendLine
  <2>3. Slack' \in Nat /\ Slack' >= Slack
    BY <1>1, <2>1, <2>2 DEF DayTyped, Slack
  <2>4. \/ files' = [files EXCEPT ![date][file] = Extended(@, Current)]
        \/ files' = files
    BY Zenon DEF AppendLine, Extended
  <2>5. QED
    BY <2>2, <2>3, <2>4
<1>4. \/ pc' = "truncate" /\ ~isOpen' /\ number' = number + 1
      \/ pc' = "idle" /\ lines' < FileLines /\ number' = number
  <2>1. lines \in Nat /\ lines' \in Nat
    BY <1>1, <1>3 DEF DayTyped
  <2>2. CASE lines' >= FileLines
    BY <2>2, Zenon DEF AppendLine
  <2>3. CASE ~(lines' >= FileLines)
    <3>1. pc' = "idle" /\ number' = number
      BY <2>3, Zenon DEF AppendLine
    <3>2. QED
      BY <2>1, <2>3, <3>1
  <2>4. QED
    BY <2>2, <2>3
<1>5. CASE d # date
  <2>1. files'[d] = files[d] /\ d # day /\ UNCHANGED <<latest, day, date>>
    BY <1>2, <1>3, <1>5
  <2>2. QED
    BY <1>1, <1>3, <1>5, <2>1, OtherDayKept
<1>6. CASE d = date
  <2> DEFINE s == files[d][file]
  <2>1. /\ latest[d] = file /\ number = file /\ Size(d, file) <= lines + 1 + uncounted /\ file # 0
        /\ EmptyFrom(d, file + 1) /\ Size(d, file) <= FileLines + Slack
    BY <1>1, <1>2, <1>6 DEF DayOK, LatestOK, StepsOK, DayTyped
  <2>2. s \in Seq(0..MaxRecords)
    BY <1>2, <1>6
  <2>3. /\ files'[d][file] = s \/ files'[d][file] = Extended(s, Current)
        /\ \A n \in Numbers \ {file} : files'[d][n] = files[d][n]
    <3>1. CASE files' = [files EXCEPT ![date][file] = Extended(@, Current)]
      BY <1>2, <1>6, <3>1
    <3>2. CASE files' = files
      BY <3>2
    <3>3. QED
      BY <1>3, <3>1, <3>2
  <2>4. \/ Len(files'[d][file]) = Len(s)
        \/ Len(files'[d][file]) = IF s = <<>> THEN 2 ELSE Len(s) + 1
    BY <1>2, <2>2, <2>3, ExtendedLen
  <2>5. /\ Len(files'[d][file]) <= lines + 2 + uncounted /\ Len(files'[d][file]) <= FileLines + 1 + Slack
    <3>1. Len(s) \in Nat /\ lines \in Nat /\ Slack \in Nat /\ uncounted \in Nat /\ FileLines \in Nat \ {0}
      BY <1>1, <2>2 DEF DayTyped
    <3>2. Len(s) <= lines + 1 + uncounted /\ Len(s) <= FileLines + Slack
      BY <2>1 DEF Size
    <3>3. QED
      BY <2>4, <3>1, <3>2
  <2>6. ASSUME NEW n \in Numbers, n >= file + 1 PROVE files'[d][n] = <<>>
    <3>1. n # file
      BY <1>2, <2>6
    <3>2. QED
      BY <2>1, <2>3, <2>6, <3>1 DEF EmptyFrom
  <2>7. LatestOK(d)'
    <3>1. PICK k \in Numbers \ {0} : k = file
      BY <1>2, <2>1
    <3>5. latest'[d] = k
      BY <1>3, <2>1, <3>1
    <3>2. EmptyFrom(d, k + 1)'
      BY <2>6, <3>1 DEF EmptyFrom
    <3>3. Size(d, k)' <= FileLines + Slack' \/ At(d, {"truncate"})'
      <4>1. CASE pc' = "truncate"
        BY <1>2, <1>3, <1>6, <4>1
      <4>2. CASE lines' < FileLines
        <5>2. Size(d, k)' = Len(files'[d][file]) /\ Len(files'[d][file]) <= lines + 2 + uncounted
          BY <2>5, <3>1 DEF Size
        <5>3. /\ Len(files'[d][file]) \in Nat /\ lines \in Nat /\ Slack \in Nat /\ FileLines \in Nat
              /\ uncounted \in Nat /\ uncounted <= Slack
          BY <1>1, <2>2, <2>4 DEF DayTyped, Slack
        <5>4. Len(files'[d][file]) <= FileLines + Slack
          BY <1>3, <4>2, <5>2, <5>3
        <5>5. QED
          BY <1>3, <5>2, <5>3, <5>4
      <4>3. QED
        BY <1>4, <4>1, <4>2
    <3>4. QED
      BY <3>2, <3>3, <3>5, LatestRecorded
  <2>8. StepsOK(d)'
    <3>1. CASE pc' = "truncate" /\ ~isOpen' /\ number' = number + 1
      BY <1>2, <1>3, <1>6, <2>1, <2>6, <3>1 DEF StepsOK, EmptyFrom
    <3>2. CASE pc' = "idle" /\ number' = number
      BY <1>1, <1>2, <1>3, <1>6, <2>1, <2>5, <3>2 DEF StepsOK, Size, DayTyped
    <3>3. QED
      BY <1>4, <3>1, <3>2
  <2>9. SizesOK(d)'
    <3>1. Len(files'[d][file]) \in Nat /\ Slack \in Nat /\ \A n \in Numbers : Size(d, n) \in Nat
      BY <1>1, <2>2, <2>4 DEF DayTyped
    <3>2. Len(files'[d][file]) <= FileLines + 1 + Slack'
      BY <1>3, <2>5, <3>1, ArchiveAssumption
    <3>3. ASSUME NEW n \in Numbers \ {file} PROVE Len(files'[d][n]) <= FileLines + 1 + Slack'
      <4>1. Size(d, n) <= FileLines + 1 + Slack /\ files'[d][n] = files[d][n]
        BY <2>3 DEF SizesOK, DayOK
      <4>2. QED
        BY <1>3, <3>1, <4>1, ArchiveAssumption DEF Size
    <3>4. QED
      BY <3>2, <3>3 DEF SizesOK, Size
  <2>10. QED
    BY <2>7, <2>8, <2>9 DEF DayOK
<1>7. QED
  BY <1>5, <1>6

LEMMA DayStepEnd ==
  ASSUME TypeInv, StateOK, TruncateLatest \/ RecordLatest \/ Close \/ Restart \/ Kill \/ UNCHANGED vars,
         NEW d \in Days, d \notin damaged', DayOK(d)
  PROVE  DayOK(d)'
<1>1. DayTyped(d)
  BY Typed
<1> USE ArchiveAssumption, <1>1
    DEF DayTyped, Numbers, Absent, Size, EmptyFrom, At, memory, disk, history, Fault, StateOK, Slack
<1>2. day \in Days /\ latest \in [Days -> Numbers \cup {Absent}]
  BY DEF TypeInv, ScalarsOK
<1>3. CASE TruncateLatest
  <2>1. LatestOK(d)'
    <3>1. CASE d = day
      <4>1. latest'[d] = 0 /\ pc' = "record" /\ day' = day
        BY <1>2, <1>3, <3>1 DEF TruncateLatest
      <4>2. QED
        BY <3>1, <4>1 DEF LatestOK
    <3>2. CASE d # day
      <4>1. latest'[d] = latest[d] /\ day' = day /\ date' = date /\ files' = files
            /\ Slack' \in Nat /\ Slack' >= Slack
        BY <1>2, <1>3, <3>2 DEF TruncateLatest
      <4>2. QED
        BY <3>2, <4>1, LatestOfOtherDay DEF DayOK
    <3>3. QED
      BY <3>1, <3>2
  <2>4. SizesOK(d)'
    BY <1>2, <1>3 DEF DayOK, SizesOK, TruncateLatest
  <2>2. StepsOK(d)'
    BY <1>2, <1>3 DEF DayOK, StepsOK, TruncateLatest
  <2>3. QED
    BY <2>1, <2>2, <2>4 DEF DayOK
<1>4. CASE RecordLatest
  <2> USE DEF DayOK, RecordLatest
  <2>1. SizesOK(d)'
    BY <1>4 DEF SizesOK
  <2>3. ASSUME d = day PROVE LatestOK(d)'
    <3>1. /\ latest'[d] = number /\ number # 0 /\ Size(d, number) = 0
          /\ pc' = "idle" /\ UNCHANGED <<files, date, day>> /\ Slack' \in Nat
      BY <1>2, <1>4, <2>3 DEF StepsOK
    <3>2. EmptyFrom(d, number + 1)
      BY <1>4, <2>3 DEF StepsOK
    <3>3. PICK k \in Numbers \ {0} : k = number
      BY <3>1
    <3>4. EmptyFrom(d, k + 1)' /\ Size(d, k)' = 0
      BY <3>1, <3>2, <3>3
    <3>5. Size(d, k)' <= FileLines + Slack' /\ latest'[d] = k
      BY <3>1, <3>3, <3>4
    <3>6. QED
      BY <3>4, <3>5, LatestRecorded
  <2>4. ASSUME d # day PROVE LatestOK(d)'
    <3>1. latest'[d] = latest[d] /\ day' = day /\ date' = date /\ files' = files
          /\ Slack' \in Nat /\ Slack' >= Slack
      BY <1>2, <1>4, <2>4
    <3>2. QED
      BY <2>4, <3>1, LatestOfOtherDay
  <2>2. StepsOK(d)'
    BY <1>2, <1>4 DEF StepsOK
  <2>5. LatestOK(d)'
    BY <2>3, <2>4
  <2>6. QED
    BY <2>1, <2>2, <2>5
<1>5. CASE Close \/ Restart
  BY <1>5 DEF DayOK, LatestOK, StepsOK, SizesOK, Close, Restart, Forget
<1>6. CASE Kill
  <2>1. LatestOK(d)'
    <3>1. /\ files' = files /\ latest' = latest /\ pc' = "idle" /\ date' # d
          /\ Slack' \in Nat /\ Slack' >= Slack + 1 /\ Slack' >= Slack
      BY <1>6 DEF Kill, Forget
    <3>2. ~ At(d, {"first", "record"})
      BY <1>6 DEF Kill
    <3>3. latest[d] # 0
      BY <3>2 DEF DayOK, LatestOK
    <3>4. QED
      BY <3>1, <3>3, LatestSettles DEF DayOK
  <2>4. SizesOK(d)'
    BY <1>6 DEF DayOK, SizesOK, Kill, Forget
  <2>2. StepsOK(d)'
    BY <1>6 DEF DayOK, StepsOK, Kill, Forget
  <2>3. QED
    BY <2>1, <2>2, <2>4 DEF DayOK
<1>7. CASE UNCHANGED vars
  BY <1>7 DEF DayOK, LatestOK, StepsOK, SizesOK, vars
<1>8. QED
  BY <1>3, <1>4, <1>5, <1>6, <1>7

-----------------------------------------------------------------------------
(* What one more record does to a sequence that holds only older ones.     *)
LEMMA ExtendedMore ==
  ASSUME NEW s \in Seq(0..MaxRecords), NEW r \in 1..MaxRecords, \A i \in 1..Len(s) : s[i] < r
  PROVE  /\ \A i \in 1..Len(Extended(s, r)) :
              Extended(s, r)[i] \in {Header, r} \/ \E j \in 1..Len(s) : Extended(s, r)[i] = s[j]
         /\ (\A i, j \in 1..Len(s) : i < j => s[i] < s[j]) =>
              \A i, j \in 1..Len(Extended(s, r)) : i < j => Extended(s, r)[i] < Extended(s, r)[j]
<1> USE ArchiveAssumption DEF Extended, Header
<1>1. CASE s = <<>>
  <2>1. Extended(s, r) = <<0>> \o <<r>> /\ <<0>> \in Seq(0..MaxRecords)
        /\ <<r>> \in Seq(0..MaxRecords)
    BY <1>1
  <2>2. Len(Extended(s, r)) = 2 /\ Extended(s, r)[1] = 0 /\ Extended(s, r)[2] = r
    BY <2>1
  <2>3. \A i \in 1..2 : i = 1 \/ i = 2
    OBVIOUS
  <2>4. QED
    BY <2>2, <2>3
<1>2. CASE s # <<>>
  <2>1. Extended(s, r) = s \o <<r>>
    BY <1>2
  <2>2. Len(Extended(s, r)) = Len(s) + 1 /\ Len(s) \in Nat
    BY <2>1
  <2>3. \A i \in 1..(Len(s) + 1) : IF i = Len(s) + 1 THEN Extended(s, r)[i] = r
                                                    ELSE i \in 1..Len(s) /\ Extended(s, r)[i] = s[i]
    BY <2>1
  <2>4. QED
    BY <2>2, <2>3
<1>3. QED
  BY <1>1, <1>2

(* A line is stored by AppendLine, when it is not lost. Every other step   *)
(* but Write leaves the records as they are, and none of them comes back   *)
(* before AppendLine.                                                      *)
Stores == AppendLine /\ files' # files

LEMMA Passive ==
  ASSUME TypeInv, Acts, ~Stores, ~ \E d \in Days : Write(d)
  PROVE  /\ UNCHANGED <<files, records, day>> /\ (pc' # "idle" => pc # "idle")
         /\ (pc' \in Unwritten => pc \in Unwritten)
<1>1. CASE MakeDir \/ MissLatest \/ CreateLatest \/ FirstLatest \/ ReadLatest \/ Open
  BY <1>1 DEF MakeDir, MissLatest, CreateLatest, FirstLatest, ReadLatest, Open, Unwritten, disk
<1>2. CASE TruncateLatest \/ RecordLatest \/ Close \/ Restart \/ Kill \/ UNCHANGED vars
  BY <1>2 DEF TruncateLatest, RecordLatest, Close, Restart, Kill, vars, Unwritten, disk, history
<1>3. CASE AppendLine
  BY <1>3 DEF AppendLine, Stores, Unwritten
<1>4. QED
  BY <1>1, <1>2, <1>3 DEF Acts

(* What a stored line does to the files.                                      *)
LEMMA Appending ==
  ASSUME TypeInv, RecordsOK, StateOK, Stores
  PROVE  /\ date \in Days /\ file \in Numbers /\ Current \in 1..MaxRecords
         /\ records[Current] = date /\ pc' \notin Unwritten
         /\ UNCHANGED <<records, day, date, file, latest>>
         /\ files'[date][file] = Extended(files[date][file], Current)
         /\ \A d \in Days, n \in Numbers : (d = date /\ n = file) \/ files'[d][n] = files[d][n]
         /\ \A d \in Days, n \in Numbers : /\ files[d][n] \in Seq(0..MaxRecords)
                                           /\ \A i \in 1..Len(files[d][n]) : files[d][n][i] < Current
<1>1. /\ date \in Days /\ file \in Numbers /\ Current \in 1..MaxRecords
      /\ files \in [Days -> [Numbers -> Seq(0..MaxRecords)]]
  BY DEF Stores, AppendLine, TypeInv, FilesOK, OpenOK, ScalarsOK, NumbersOK, Current
<1>2. files' = [files EXCEPT ![date][file] = Extended(@, Current)]
  BY DEF Stores, AppendLine, Extended
<1>3. pc = "append" /\ UNCHANGED <<records, day, date, file, latest>> /\ pc' \notin Unwritten
  BY DEF Stores, AppendLine, Unwritten
<1>4. records[Current] = date
  BY <1>3 DEF RecordsOK, StateOK
<1>5. \A d \in Days, n \in Numbers : \A i \in 1..Len(files[d][n]) : files[d][n][i] < Current
  BY <1>3 DEF RecordsOK, Unwritten
<1>6. QED
  BY <1>1, <1>2, <1>3, <1>4, <1>5

LEMMA RecordsStep == TypeInv /\ RecordsOK /\ StateOK /\ [Next]_vars => RecordsOK'
<1> SUFFICES ASSUME TypeInv, RecordsOK, StateOK, Acts PROVE RecordsOK'
  BY NextIsActs
<1>0. records \in Seq(Days) /\ Current \in Nat
  BY DEF TypeInv, ScalarsOK, Current
<1>1. CASE \E d \in Days : Write(d)
  <2>1. PICK d \in Days : Write(d)
    BY <1>1
  <2>2. /\ UNCHANGED files /\ day' = d /\ Current' = Current + 1 /\ records'[Current'] = d
    BY <2>1, <1>0 DEF Write, disk, history, Current
  <2>3. \A e \in Days, n \in Numbers : files[e][n] \in Seq(0..MaxRecords)
    BY DEF TypeInv, FilesOK
  <2>4. ASSUME NEW e \in Days, NEW n \in Numbers, NEW i \in 1..Len(files[e][n])
        PROVE  files[e][n][i] <= Current' /\ files[e][n][i] < Current'
    <3>1. files[e][n][i] \in 0..MaxRecords
      BY <2>3, ElementOfSeq
    <3>2. files[e][n][i] <= Current
      BY <2>4 DEF RecordsOK
    <3>3. QED
      BY <1>0, <2>2, <3>1, <3>2, ArchiveAssumption
  <2>5. QED
    BY <2>2, <2>4 DEF RecordsOK
<1>2. CASE Stores
  <2>1. records'[Current'] = day' /\ Current' = Current
    BY <1>2, Appending DEF Stores, AppendLine, StateOK, Current
  <2>2. ASSUME NEW d \in Days, NEW n \in Numbers, NEW i \in 1..Len(files'[d][n])
        PROVE  files'[d][n][i] <= Current
    <3>1. CASE files'[d][n] = files[d][n]
      BY <2>2, <3>1 DEF RecordsOK
    <3>2. CASE d = date /\ n = file
      <4>1. files'[d][n] = Extended(files[d][n], Current)
        BY <1>2, <3>2, Appending
      <4> DEFINE s == files[d][n]
      <4>2. s \in Seq(0..MaxRecords) /\ Current \in 1..MaxRecords /\ \A j \in 1..Len(s) : s[j] < Current
        BY <1>2, Appending
      <4> HIDE DEF s
      <4>3. \A j \in 1..Len(Extended(s, Current)) :
              Extended(s, Current)[j] \in {Header, Current} \/ \E k \in 1..Len(s) : Extended(s, Current)[j] = s[k]
        BY <4>2, ExtendedMore
      <4>4. \/ files'[d][n][i] \in {Header, Current}
            \/ \E j \in 1..Len(files[d][n]) : files'[d][n][i] = files[d][n][j]
        BY <2>2, <4>1, <4>3 DEF s
      <4>5. QED
        BY <1>0, <4>4 DEF RecordsOK, Header
    <3>3. QED
      BY <1>2, <3>1, <3>2, Appending
  <2>3. pc' \notin Unwritten
    BY <1>2, Appending
  <2>4. QED
    BY <2>1, <2>2, <2>3 DEF RecordsOK
<1>3. CASE ~Stores /\ ~ \E d \in Days : Write(d)
  BY <1>3, Passive DEF RecordsOK, Current
<1>4. QED
  BY <1>1, <1>2, <1>3

LEMMA DamageStays == ASSUME [Next]_vars PROVE damaged \subseteq damaged'
<1>1. Acts
  BY NextIsActs
<1>2. CASE \E e \in Days : Write(e)
  BY <1>2 DEF Write
<1>3. CASE MakeDir \/ MissLatest \/ CreateLatest \/ FirstLatest \/ ReadLatest \/ Open \/ AppendLine
  BY <1>3 DEF MakeDir, MissLatest, CreateLatest, FirstLatest, ReadLatest, Open, AppendLine
<1>4. CASE TruncateLatest \/ RecordLatest \/ Close \/ Restart \/ Kill \/ UNCHANGED vars
  BY <1>4 DEF TruncateLatest, RecordLatest, Close, Restart, Kill, vars, history
<1>5. QED
  BY <1>1, <1>2, <1>3, <1>4 DEF Acts

LEMMA DaysStep ==
  ASSUME TypeInv, StateOK, [Next]_vars, NEW d \in Days \ damaged', d \notin damaged => DayOK(d)
  PROVE  DayOK(d)'
<1>1. d \notin damaged
  BY DamageStays
<1>2. QED
  BY <1>1, NextIsActs, DayStepWrite, DayStepOpening, DayStepAppend, DayStepEnd DEF Acts

LEMMA ArchiveInvariant == Spec => []ArchiveInv
<1>1. Init => ArchiveInv
  <2> SUFFICES ASSUME Init PROVE ArchiveInv
    OBVIOUS
  <2>1. TypeInv
    BY TypeInit
  <2>2. RecordsOK /\ StateOK
    BY DEF Init, RecordsOK, StateOK
  <2>3. ASSUME NEW d \in Days PROVE DayOK(d)
    BY ArchiveAssumption
    DEF Init, DayOK, LatestOK, StepsOK, SizesOK, EmptyFrom, Size, At, Numbers, Absent, Slack
  <2>4. QED
    BY <2>1, <2>2, <2>3 DEF ArchiveInv
<1>2. ArchiveInv /\ [Next]_vars => ArchiveInv'
  BY TypeStep, RecordsStep, StateStep, DaysStep DEF ArchiveInv
<1>3. QED
  BY <1>1, <1>2, PTL DEF Spec

(* A file has one header and a bounded number of records, whatever ends    *)
(* and failures there were. (csvwriter_t::write)                           *)
THEOREM FilesBounded == Spec => []FileBounded
<1>1. ASSUME ArchiveInv, HeaderOnce PROVE FileBounded
  <2>1. ASSUME NEW d \in Days \ damaged, NEW n \in Numbers
        PROVE  Len(files[d][n]) <= FileLines + 1 + faults + uncounted
    <3>1. Len(files[d][n]) <= FileLines + 1 + Slack
      BY <1>1 DEF ArchiveInv, DayOK, SizesOK, Size
    <3>2. DayTyped(d)
      BY <1>1, Typed DEF ArchiveInv
    <3>3. FileLines + 1 + Slack = FileLines + 1 + faults + uncounted
      BY <3>2, ArchiveAssumption DEF DayTyped, Slack
    <3>4. QED
      BY <3>1, <3>3
  <2>2. QED
    BY <1>1, <2>1 DEF FileBounded
<1>2. QED
  BY <1>1, ArchiveInvariant, HeadersOnce, PTL

-----------------------------------------------------------------------------
(* What is in the files after a line is stored: what was, the record in hand in  *)
(* the open file, and perhaps a header.                                    *)
LEMMA StoredStep ==
  ASSUME TypeInv, RecordsOK, StateOK, Stores, NEW d \in Days, NEW n \in Numbers,
         NEW r \in Stored(d, n)' \ {Header}
  PROVE  r \in Stored(d, n) \/ (r = Current /\ d = date /\ n = file)
<1>1. PICK i \in 1..Len(files'[d][n]) : r = files'[d][n][i]
  BY DEF Stored
<1>2. CASE files'[d][n] = files[d][n]
  BY <1>1, <1>2 DEF Stored
<1>3. CASE d = date /\ n = file
  <2>1. files'[d][n] = Extended(files[d][n], Current)
    BY <1>3, Appending
  <2>2. \/ files'[d][n][i] \in {Header, Current}
        \/ \E j \in 1..Len(files[d][n]) : files'[d][n][i] = files[d][n][j]
    <3>1. /\ files[d][n] \in Seq(0..MaxRecords) /\ Current \in 1..MaxRecords
          /\ \A j \in 1..Len(files[d][n]) : files[d][n][j] < Current
      BY Appending
    <3>2. \A k \in 1..Len(Extended(files[d][n], Current)) :
            \/ Extended(files[d][n], Current)[k] \in {Header, Current}
            \/ \E j \in 1..Len(files[d][n]) : Extended(files[d][n], Current)[k] = files[d][n][j]
      BY <3>1, ExtendedMore
    <3>3. QED
      BY <1>1, <2>1, <3>2
  <2>3. QED
    BY <1>1, <1>3, <2>2 DEF Stored
<1>4. QED
  BY <1>2, <1>3, Appending

(* A record in a file is one of those handed to write().                   *)
LEMMA StoredRange ==
  ASSUME TypeInv, RecordsOK, NEW d \in Days, NEW n \in Numbers, NEW r \in Stored(d, n)
  PROVE  r \in 0..Current /\ (pc \in Unwritten => r < Current)
<1>1. files[d][n] \in Seq(0..MaxRecords)
  BY DEF TypeInv, FilesOK
<1>2. PICK i \in 1..Len(files[d][n]) : r = files[d][n][i]
  BY DEF Stored
<1>3. r \in 0..MaxRecords
  BY <1>1, <1>2, ElementOfSeq
<1>4. r <= Current /\ (pc \in Unwritten => r < Current)
  BY <1>2 DEF RecordsOK
<1>5. Current \in Nat
  BY DEF TypeInv, ScalarsOK, Current
<1>6. QED
  BY <1>3, <1>4, <1>5, ArchiveAssumption

LEMMA PlaceStep == ArchiveInv /\ RightPlace /\ [Next]_vars => RightPlace'
<1> SUFFICES ASSUME ArchiveInv, RightPlace, Acts PROVE RightPlace'
  BY NextIsActs
<1>0. TypeInv /\ RecordsOK /\ StateOK
  BY DEF ArchiveInv
<1>1. CASE \E d \in Days : Write(d)
  <2>1. PICK e \in Days : Write(e)
    BY <1>1
  <2>2. files' = files /\ records' = Append(records, e) /\ records \in Seq(Days)
    BY <2>1, <1>0 DEF Write, disk, TypeInv, ScalarsOK
  <2>3. \A d \in Days, n \in Numbers : Stored(d, n)' = Stored(d, n)
    BY <2>2 DEF Stored
  <2>4. \A r \in 1..Current : records'[r] = records[r]
    BY <2>2 DEF Current
  <2>5. ASSUME NEW d \in Days, NEW n \in Numbers, NEW r \in Stored(d, n) \ {Header}
        PROVE  records'[r] = d /\ \A m \in Numbers \ {n} : r \notin Stored(d, m)
    <3>1. r \in 1..Current
      BY <1>0, <2>5, StoredRange DEF Header
    <3>2. QED
      BY <2>4, <2>5, <3>1 DEF RightPlace
  <2>6. QED
    BY <2>3, <2>5 DEF RightPlace
<1>2. CASE Stores
  <2>1. ASSUME NEW d \in Days, NEW n \in Numbers, NEW r \in Stored(d, n)' \ {Header}
        PROVE  records[r] = d /\ \A m \in Numbers \ {n} : r \notin Stored(d, m)'
    <3>1. ASSUME NEW m \in Numbers, NEW s \in Stored(d, m) PROVE s # Current
      BY <1>0, <1>2, <3>1, StoredRange DEF Stores, AppendLine, Unwritten
    <3>2. r \in Stored(d, n) \/ (r = Current /\ d = date /\ n = file)
      BY <1>0, <1>2, <2>1, StoredStep
    <3>3. records[r] = d
      BY <1>0, <1>2, <2>1, <3>2, Appending DEF RightPlace
    <3>4. ASSUME NEW m \in Numbers \ {n}, r \in Stored(d, m)' PROVE FALSE
      <4>1. r \in Stored(d, m) \/ (r = Current /\ d = date /\ m = file)
        BY <1>0, <1>2, <2>1, <3>4, StoredStep
      <4>2. QED
        BY <2>1, <3>1, <3>2, <3>4, <4>1 DEF RightPlace
    <3>5. QED
      BY <3>3, <3>4
  <2>2. records' = records
    BY <1>0, <1>2, Appending
  <2>3. QED
    BY <2>1, <2>2 DEF RightPlace
<1>3. CASE ~Stores /\ ~ \E d \in Days : Write(d)
  <2>1. files' = files /\ records' = records
    BY <1>0, <1>3, Passive
  <2>2. \A d \in Days, n \in Numbers : Stored(d, n)' = Stored(d, n)
    BY <2>1 DEF Stored
  <2>3. QED
    BY <2>1, <2>2 DEF RightPlace
<1>4. QED
  BY <1>1, <1>2, <1>3

(* The order of the records of one day.                                    *)
Ordered(d) ==
  \A n \in Numbers :
    /\ \A i, j \in 1..Len(files[d][n]) : i < j => files[d][n][i] < files[d][n][j]
    /\ \A m \in Numbers : m < n =>
         \A r \in Stored(d, m), s \in Stored(d, n) \ {Header} : r < s

LEMMA OrderStep ==
  ASSUME ArchiveInv, [Next]_vars, NEW d \in Days, d \notin damaged, Ordered(d)
  PROVE  Ordered(d)'
<1>0. TypeInv /\ RecordsOK /\ StateOK /\ DayOK(d) /\ Acts
  BY NextIsActs DEF ArchiveInv
<1>1. CASE Stores
  <2>1. ASSUME NEW n \in Numbers
        PROVE  \A i, j \in 1..Len(files'[d][n]) : i < j => files'[d][n][i] < files'[d][n][j]
    <3>1. CASE files'[d][n] = files[d][n]
      BY <3>1 DEF Ordered
    <3>2. CASE d = date /\ n = file
      <4>1. files'[d][n] = Extended(files[d][n], Current)
        BY <1>0, <1>1, <3>2, Appending
      <4>2. \A i, j \in 1..Len(files[d][n]) : i < j => files[d][n][i] < files[d][n][j]
        BY DEF Ordered
      <4>3. QED
        BY <1>0, <1>1, <4>1, <4>2, Appending, ExtendedMore
    <3>3. QED
      BY <1>0, <1>1, <3>1, <3>2, Appending
  <2>2. ASSUME NEW m \in Numbers, NEW n \in Numbers, m < n,
               NEW r \in Stored(d, m)', NEW s \in Stored(d, n)' \ {Header}
        PROVE  r < s
    <3>1. s \in Stored(d, n) \/ (s = Current /\ d = date /\ n = file)
      BY <1>0, <1>1, StoredStep
    <3>2. r = Header \/ r \in Stored(d, m) \/ (r = Current /\ d = date /\ m = file)
      BY <1>0, <1>1, StoredStep
    <3>3. Current \in 1..MaxRecords /\ pc \in Unwritten
      BY <1>0, <1>1, Appending DEF Stores, AppendLine, Unwritten
    <3>4. CASE s \in Stored(d, n)
      <4>1. s \in 1..Current
        BY <1>0, <2>2, <3>4, StoredRange DEF Header
      <4>2. CASE r = Header
        BY <4>1, <4>2 DEF Header
      <4>3. CASE r \in Stored(d, m)
        BY <2>2, <3>4, <4>3 DEF Ordered
      <4>4. CASE r = Current /\ d = date /\ m = file
        <5>1. isOpen /\ date = d
          BY <1>0, <1>1, <4>4 DEF Stores, AppendLine, TypeInv, OpenOK
        <5>2. latest[d] = file /\ file # 0
          BY <1>0, <1>1, <5>1 DEF DayOK, LatestOK, StepsOK, Stores, AppendLine, At
        <5>3. EmptyFrom(d, file + 1)
          BY <1>0, <5>2 DEF DayOK, LatestOK, TypeInv, ScalarsOK
        <5>4. files[d][n] = <<>>
          <6>1. n >= file + 1
            BY <2>2, <4>4, <1>0 DEF Numbers, TypeInv, ScalarsOK
          <6>2. QED
            BY <5>3, <6>1 DEF EmptyFrom
        <5>5. QED
          BY <3>4, <5>4 DEF Stored
      <4>5. QED
        BY <3>2, <4>2, <4>3, <4>4
    <3>5. CASE s = Current /\ d = date /\ n = file
      <4>1. m # file
        BY <2>2, <3>5 DEF Numbers
      <4>2. r = Header \/ r \in Stored(d, m)
        BY <3>2, <4>1
      <4>3. QED
        BY <1>0, <3>3, <3>5, <4>2, StoredRange DEF Header
    <3>6. QED
      BY <3>1, <3>4, <3>5
  <2>3. QED
    BY <2>1, <2>2 DEF Ordered
<1>2. CASE ~Stores
  <2>1. files' = files
    BY <1>0, <1>2, Passive DEF Write, disk
  <2>2. QED
    BY <2>1 DEF Ordered, Stored
<1>3. QED
  BY <1>1, <1>2

(* A day's files, read in the order of their numbers, give its records in  *)
(* the order they were written, each at most once, whatever ends and       *)
(* failures there were, `latest` aside. (csvwriter_t::write)               *)
THEOREM RecordsInOrder == Spec => []DayOrder
<1> DEFINE Inv == RightPlace /\ \A d \in Days \ damaged : Ordered(d)
<1>1. Init => Inv
  BY DEF Init, RightPlace, Stored, Ordered
<1>2. ArchiveInv /\ Inv /\ [Next]_vars => Inv'
  <2> SUFFICES ASSUME ArchiveInv, Inv, [Next]_vars PROVE Inv'
    OBVIOUS
  <2>1. RightPlace'
    BY PlaceStep
  <2>2. ASSUME NEW d \in Days \ damaged' PROVE Ordered(d)'
    BY <2>2, OrderStep, DamageStays
  <2>3. QED
    BY <2>1, <2>2
<1>3. Inv => DayOrder
  BY DEF DayOrder, Ordered
<1> HIDE DEF Inv
<1>4. QED
  BY <1>1, <1>2, <1>3, ArchiveInvariant, PTL DEF Spec
=============================================================================

----------------------------- MODULE CsvArchive -----------------------------
(***************************************************************************)
(* csvwriter_t: the archive of the event processor. A day's records are in *)
(* the numbered files of the day's directory; the file `latest` names the  *)
(* file to append to and is read whenever a file is opened, in particular  *)
(* after a restart.                                                        *)
(*                                                                         *)
(* Records are numbered in the order they are handed to write(). Every     *)
(* step that changes the disk is an action, and the process may be killed  *)
(* between any two of them.                                                *)
(***************************************************************************)
EXTENDS Naturals, Sequences

CONSTANTS
  Days,        \* the days the records are of
  NoDate,      \* YMD(), the date that is no day
  FileLines,   \* CSV_FILE_LINES
  MaxRecords,  \* bound of the model: calls of write
  MaxFaults    \* bound of the model: kills and failed system calls

ASSUME ArchiveAssumption ==
  /\ Days # {} /\ NoDate \notin Days
  /\ FileLines \in Nat \ {0} /\ MaxRecords \in Nat /\ MaxFaults \in Nat

Absent == MaxRecords + 2        \* there is no file `latest`
Header == 0                     \* the header line, among the numbers of records
Numbers == 0..(MaxRecords + 1)  \* the numbers a file can have

VARIABLES
  files,     \* the files of each day: sequences of record numbers and headers
  latest,    \* the number in `latest` of each day; 0 when it is empty
  isOpen,    \* _fp_csv is not null
  file,      \* the number in the path of _fp_csv
  date,      \* _date
  number,    \* _file_number
  lines,     \* _line_number
  pc,        \* what write() does next
  day,       \* the day of the record in hand
  (* history, never read by an action but for the bounds *)
  records,   \* the day of every record handed to write()
  faults,    \* kills and failed system calls so far
  damaged,   \* the days whose `latest` was not opened or written when it should have been
  uncounted  \* lines of files that were opened without counting them

disk == <<files, latest>>
memory == <<isOpen, file, date, number, lines>>
history == <<records, faults, damaged, uncounted>>
vars == <<disk, memory, pc, day, history>>

Current == Len(records)

Init ==
  /\ files = [d \in Days |-> [n \in Numbers |-> <<>>]]
  /\ latest = [d \in Days |-> Absent]
  /\ isOpen = FALSE /\ file = 0 /\ date = NoDate /\ number = 0 /\ lines = 0
  /\ pc = "idle" /\ day \in Days
  /\ records = <<>> /\ faults = 0 /\ damaged = {} /\ uncounted = 0

Fault == faults < MaxFaults /\ faults' = faults + 1

-----------------------------------------------------------------------------
(* write(timestamp, line): another day closes the file.                    *)
Write(d) ==
  /\ pc = "idle" /\ Current < MaxRecords
  /\ records' = Append(records, d) /\ day' = d
  /\ number' = IF d # date THEN 1 ELSE number
  /\ isOpen' = (isOpen /\ d = date)
  /\ pc' = IF isOpen' THEN "append" ELSE "mkdir"
  /\ UNCHANGED <<disk, file, date, lines, faults, damaged, uncounted>>

(* mkdirs; on failure the record is lost.                                  *)
MakeDir ==
  /\ pc = "mkdir"
  /\ date' = NoDate
  /\ \/ /\ pc' = "latest" /\ lines' = 0 /\ UNCHANGED faults
     \/ /\ Fault /\ pc' = "idle" /\ UNCHANGED lines
  /\ UNCHANGED <<disk, isOpen, file, number, day, records, damaged, uncounted>>

(* `latest` is there and cannot be opened for reading: to the code it does *)
(* not exist.                                                              *)
MissLatest ==
  /\ pc = "latest" /\ latest[day] # Absent /\ Fault
  /\ damaged' = damaged \union {day} /\ pc' = "create"
  /\ UNCHANGED <<disk, memory, day, records, uncounted>>

(* Create it, and empty it if it was there, or fail to. The number in      *)
(* memory counts, and no line of its file is counted.                      *)
CreateLatest ==
  /\ pc = "create" \/ (pc = "latest" /\ latest[day] = Absent)
  /\ number' = IF number < 1 THEN 1 ELSE number
  /\ file' = number'
  /\ \/ /\ latest' = [latest EXCEPT ![day] = 0]
        /\ pc' = "first" /\ UNCHANGED <<faults, damaged>>
     \/ /\ Fault /\ damaged' = damaged \union {day}
        /\ pc' = "fopen" /\ UNCHANGED latest
  /\ UNCHANGED <<files, isOpen, date, lines, day, records, uncounted>>

(* Write "1" into it.                                                      *)
FirstLatest ==
  /\ pc = "first"
  /\ \/ latest' = [latest EXCEPT ![day] = 1] /\ UNCHANGED <<faults, damaged>>
     \/ Fault /\ damaged' = damaged \union {day} /\ UNCHANGED latest
  /\ pc' = "fopen"
  /\ UNCHANGED <<files, memory, day, records, uncounted>>

(* The lines of the file in the path are counted, or the file cannot be    *)
(* opened or its size not be read, and the count stays at 0.               *)
CountLines ==
  \/ lines' = Len(files[day][file']) /\ UNCHANGED <<faults, uncounted>>
  \/ /\ Fault /\ uncounted' = uncounted + Len(files[day][file'])
     /\ UNCHANGED lines

(* Mutant: the number in memory is trusted, `latest` is not read.          *)
ReadLatest_Ignored ==
  /\ pc = "latest" /\ latest[day] # Absent
  /\ file' = IF number < 1 THEN 1 ELSE number
  /\ number' = file'
  /\ CountLines
  /\ pc' = "fopen"
  /\ UNCHANGED <<disk, isOpen, date, day, records, damaged>>

(* Mutant: the lines of the file are not counted.                          *)
ReadLatest_NoCount ==
  /\ pc = "latest" /\ latest[day] # Absent
  /\ file' = latest[day]
  /\ number' = IF file' < 1 THEN 1 ELSE file'
  /\ pc' = "fopen"
  /\ UNCHANGED <<disk, isOpen, date, lines, day, history>>

(* Mutant: a number below 1 is not corrected.                              *)
ReadLatest_NotCorrected ==
  /\ pc = "latest" /\ latest[day] # Absent
  /\ file' = latest[day] /\ number' = file'
  /\ CountLines
  /\ pc' = "fopen"
  /\ UNCHANGED <<disk, isOpen, date, day, records, damaged>>

(* `latest` is read: the file it names is the one to append to. An empty   *)
(* `latest` names 0.csv: the number is corrected to 1 after the path was   *)
(* made.                                                                   *)
ReadLatest ==
  /\ pc = "latest" /\ latest[day] # Absent
  /\ file' = latest[day]
  /\ number' = IF file' < 1 THEN 1 ELSE file'
  /\ CountLines
  /\ pc' = "fopen"
  /\ UNCHANGED <<disk, isOpen, date, day, records, damaged>>

(* Mutant: the file is opened for writing instead of appending.            *)
Open_Truncate ==
  /\ pc = "fopen"
  /\ files' = [files EXCEPT ![day][file] = <<>>]
  /\ isOpen' = TRUE /\ date' = day /\ pc' = "append"
  /\ UNCHANGED <<latest, file, number, lines, day, history>>

(* fopen(path, "ab"); on failure the record is lost.                       *)
Open ==
  /\ pc = "fopen"
  /\ \/ isOpen' = TRUE /\ date' = day /\ pc' = "append" /\ UNCHANGED faults
     \/ Fault /\ pc' = "idle" /\ UNCHANGED <<isOpen, date>>
  /\ UNCHANGED <<disk, file, number, lines, day, records, damaged, uncounted>>

(* The header if the file is empty, the line, and the flush of both, which *)
(* loses them when the disk is full; the line is counted all the same, the *)
(* header of a new file is not. A full file is closed.                     *)
AppendLine ==
  /\ pc = "append"
  /\ \/ /\ files' = [files EXCEPT ![date][file] =
             (IF @ = <<>> THEN <<Header>> ELSE @) \o <<Current>>]
        /\ UNCHANGED faults
     \/ Fault /\ UNCHANGED files
  /\ lines' = lines + 1
  /\ IF lines' >= FileLines
       THEN isOpen' = FALSE /\ number' = number + 1 /\ pc' = "truncate"
       ELSE UNCHANGED <<isOpen, number>> /\ pc' = "idle"
  /\ UNCHANGED <<latest, file, date, day, records, damaged, uncounted>>

(* Open `latest` with O_TRUNC, or fail to.                                 *)
TruncateLatest ==
  /\ pc = "truncate"
  /\ \/ latest' = [latest EXCEPT ![day] = 0] /\ pc' = "record" /\ UNCHANGED <<faults, damaged>>
     \/ /\ Fault /\ damaged' = damaged \union {day}
        /\ pc' = "idle" /\ UNCHANGED latest
  /\ UNCHANGED <<files, memory, day, records, uncounted>>

(* Write the number of the next file into it.                              *)
RecordLatest ==
  /\ pc = "record"
  /\ \/ latest' = [latest EXCEPT ![day] = number] /\ UNCHANGED <<faults, damaged>>
     \/ Fault /\ damaged' = damaged \union {day} /\ UNCHANGED latest
  /\ pc' = "idle"
  /\ UNCHANGED <<files, memory, day, records, uncounted>>

(* close(): the event processor closes the file when it runs out of memory.         *)
Close ==
  /\ pc = "idle" /\ isOpen
  /\ isOpen' = FALSE
  /\ UNCHANGED <<disk, file, date, number, lines, pc, day, history>>

Forget == isOpen' = FALSE /\ file' = 0 /\ date' = NoDate /\ number' = 0 /\ lines' = 0

(* The daemon is stopped and started again.                                *)
Restart ==
  /\ pc = "idle" /\ Forget
  /\ UNCHANGED <<disk, pc, day, history>>

(* The process is killed inside write() and started again.                 *)
Kill ==
  /\ pc # "idle" /\ Fault /\ Forget
  /\ pc' = "idle"
  /\ damaged' = IF pc \in {"first", "record"} THEN damaged \union {day} ELSE damaged
  /\ UNCHANGED <<disk, day, records, uncounted>>

Next ==
  \/ \E d \in Days : Write(d)
  \/ MakeDir \/ MissLatest \/ CreateLatest \/ FirstLatest \/ ReadLatest \/ Open
  \/ AppendLine \/ TruncateLatest \/ RecordLatest \/ Close \/ Restart \/ Kill

Spec == Init /\ [][Next]_vars

-----------------------------------------------------------------------------
(* The type of every variable; an open file has a date and a number that  *)
(* the next file's number can be made from. (csvwriter_t)                  *)
TypeOK ==
  /\ files \in [Days -> [Numbers -> Seq(0..MaxRecords)]]
  /\ latest \in [Days -> Numbers \union {Absent}]
  /\ isOpen \in BOOLEAN /\ file \in Numbers /\ date \in Days \union {NoDate}
  /\ number \in Numbers /\ lines \in Nat
  /\ isOpen => date \in Days /\ number >= 1
  /\ pc \in {"idle", "mkdir", "latest", "create", "first", "fopen", "append", "truncate", "record"}
  /\ day \in Days /\ records \in Seq(Days) /\ Current <= MaxRecords
  /\ faults \in 0..MaxFaults /\ damaged \subseteq Days /\ uncounted \in Nat

Stored(d, n) == {files[d][n][i] : i \in 1..Len(files[d][n])}

(* No restart, rotation or change of day removes or changes a line that    *)
(* was written: files only grow, and at their end.                         *)
AppendOnly ==
  [][\A d \in Days, n \in Numbers :
       /\ Len(files[d][n]) <= Len(files'[d][n])
       /\ \A i \in 1..Len(files[d][n]) : files'[d][n][i] = files[d][n][i]]_vars

(* A file that has a line begins with the header and has it once, whatever *)
(* the restarts and failures when it was opened.                           *)
HeaderOnce ==
  \A d \in Days, n \in Numbers : \A i \in 1..Len(files[d][n]) :
    files[d][n][i] = Header <=> i = 1

(* A record is in the directory of its own day, and in one file at most,   *)
(* although the day can change back and forth with the packets' times.     *)
RightPlace ==
  \A d \in Days, n \in Numbers : \A r \in Stored(d, n) \ {Header} :
    /\ records[r] = d
    /\ \A m \in Numbers \ {n} : r \notin Stored(d, m)

(* Read in the order of their numbers the files of a day give the records  *)
(* of that day in the order they were written, each at most once, unless a *)
(* write of `latest` was cut off or failed, or it could not be opened.     *)
DayOrder ==
  /\ RightPlace
  /\ \A d \in Days \ damaged, n \in Numbers :
       /\ \A i, j \in 1..Len(files[d][n]) : i < j => files[d][n][i] < files[d][n][j]
       /\ \A m \in Numbers : m < n =>
            \A r \in Stored(d, m), s \in Stored(d, n) \ {Header} : r < s

(* A file has one header, first, and FileLines records at most: one more   *)
(* for every time the process was killed after the file was full and       *)
(* before `latest` said so, and as many more as it had when it was opened  *)
(* and they could not be counted.                                          *)
FileBounded ==
  /\ HeaderOnce
  /\ \A d \in Days \ damaged, n \in Numbers :
       Len(files[d][n]) <= FileLines + 1 + faults + uncounted

(* The files of a day are 1.csv, 2.csv and so on. (TODO-LIST; the code     *)
(* itself corrects a number below 1)                                       *)
NumberedFromOne == \A d \in Days : files[d][0] = <<>>
=============================================================================

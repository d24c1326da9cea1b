---------------------------- MODULE ConfigReload -----------------------------
(***************************************************************************)
(* The three files of settings that the main thread looks at every second  *)
(* (everysecond) and reads again when they are newer. Times of files are   *)
(* whole seconds. Against it: an editor that changes a file in place or    *)
(* puts another one there, and reads that fail.                            *)
(***************************************************************************)
EXTENDS Integers

CONSTANTS MaxClock, MaxWrites, MaxFaults  \* bounds

Rest == <<"rest", "none">>
Files == {"ini", "servers", "commands"}
Nothing == 0  \* content: what is set when a file says nothing
Part == -1    \* content: a file that is being written

VARIABLES
  loaded,   \* the settings of each file in memory
  mtime,    \* mtime in memory of each file
  given,    \* the options of the command line hold
  pc, stated, fstated,  \* progress: the file it is at, its time in stat and in fstat
  \* the editor
  clock, content, written,  \* the seconds; content and time of each file, 0 when absent
  writes, faults,
  opened, touched,  \* history: files opened, and files changed, in this second
  changed, hidden,  \* history: files changed since their last stat; files whose change
                    \* no time shows or whose read failed
  iniEdited         \* history: the ini file was edited since the start

memory == <<loaded, mtime, given>>
editor == <<clock, content, written, writes, touched, iniEdited>>
vars == <<memory, pc, stated, fstated, editor, faults, opened, changed, hidden>>

Contents == Part..(MaxWrites + 1)
Seconds == 0..MaxClock
TypeOK ==
  /\ loaded \in [Files -> Contents] /\ mtime \in [Files -> Seconds] /\ given \in BOOLEAN
  /\ pc \in {Rest} \cup ({"stat", "open", "read"} \X Files) /\ {clock, stated, fstated} \subseteq Seconds
  /\ content \in [Files -> Contents] /\ written \in [Files -> Seconds]
  /\ hidden \cup changed \cup opened \cup touched \subseteq Files /\ iniEdited \in BOOLEAN
  /\ \A f \in Files : written[f] = 0 <=> content[f] = Nothing
  /\ \A f \in Files : mtime[f] <= clock /\ (mtime[f] = 0 => loaded[f] = Nothing)

-----------------------------------------------------------------------------
(* At the start the ini file and that of the commands have been read.      *)
Init ==
  /\ clock = 1 /\ given = TRUE
  /\ content \in {[f \in Files |-> 1], [f \in Files |-> IF f = "ini" THEN Nothing ELSE 1]}
  /\ written = [f \in Files |-> content[f]]
  /\ loaded = [content EXCEPT !["servers"] = Nothing] /\ mtime = [written EXCEPT !["servers"] = 0]
  /\ opened = {"ini", "commands"} /\ touched = {f \in Files : content[f] # Nothing}
  /\ pc = Rest /\ stated = 0 /\ fstated = 0
  /\ writes = 0 /\ faults = 0 /\ changed = {"servers"} /\ hidden = {} /\ iniEdited = FALSE

(* Mutant: the round ends with the files of servers.                       *)
After_Early(f, ignored) ==
  IF f = "ini" THEN IF ignored THEN Rest ELSE <<"stat", "servers">> ELSE Rest

(* The file after this one. The files of servers is skipped as long as the *)
(* option to ignore it holds.                                              *)
After(f, ignored) ==
  CASE f = "ini" -> IF ignored THEN <<"stat", "commands">> ELSE <<"stat", "servers">>
    [] f = "servers" -> <<"stat", "commands">>
    [] f = "commands" -> Rest

EverySecond ==
  /\ pc = Rest /\ pc' = <<"stat", "ini">>
  /\ UNCHANGED <<memory, stated, fstated, editor, faults, opened, changed, hidden>>

(* Mutant: a file of the same second is newer.                             *)
Newer_Equal(f) == content[f] # Nothing /\ mtime[f] <= written[f]

Newer(f) == content[f] # Nothing /\ mtime[f] < written[f]
Stat(f) ==
  /\ pc = <<"stat", f>>
  /\ changed' = changed \ {f}
  /\ IF Newer(f) THEN pc' = <<"open", f>> /\ stated' = written[f]
                 ELSE pc' = After(f, given) /\ UNCHANGED stated
  /\ UNCHANGED <<memory, fstated, editor, faults, opened, hidden>>

(* open and fstat; when they fail, the next second tries again.            *)
Open(f) ==
  /\ pc = <<"open", f>>
  /\ \/ /\ pc' = <<"read", f>> /\ fstated' = written[f] /\ opened' = opened \cup {f}
        /\ UNCHANGED <<stated, faults, changed>>
     \/ /\ faults < MaxFaults /\ faults' = faults + 1
        /\ changed' = changed \cup {f} /\ pc' = After(f, given) /\ stated' = 0
        /\ UNCHANGED <<fstated, opened>>
  /\ UNCHANGED <<memory, editor, hidden>>

(* Mutant: the time is asked for after the read.                           *)
TimeRead_Late(f) == clock

(* Mutant: the time is not kept.                                           *)
TimeRead_Not(f) == mtime[f]

(* The time that is kept of a file that is read: that of fstat, or for the *)
(* commands that of stat.                                                  *)
TimeRead(f) == IF f = "commands" THEN stated ELSE fstated

(* The new object of options has the defaults of what the ini file does    *)
(* not say.                                                                *)
StillGiven(f) == given /\ f # "ini"

(* The file is read, or the read fails: then it says nothing, but its time *)
(* is kept.                                                                *)
Read(f) ==
  /\ pc = <<"read", f>>
  /\ \/ /\ loaded' = [loaded EXCEPT ![f] = content[f]]
        /\ UNCHANGED <<faults, hidden>>
     \/ /\ faults < MaxFaults /\ faults' = faults + 1 /\ hidden' = hidden \cup {f}
        /\ loaded' = [loaded EXCEPT ![f] = Nothing]
  /\ mtime' = [mtime EXCEPT ![f] = TimeRead(f)]
  /\ given' = StillGiven(f)
  /\ pc' = After(f, given')
  /\ stated' = 0 /\ fstated' = 0
  /\ UNCHANGED <<editor, opened, changed>>

-----------------------------------------------------------------------------
(* The editor. A change in a second in which the file had already changed  *)
(* and was opened does not show; one in a later second does.               *)
Put(f, what) ==
  /\ content' = [content EXCEPT ![f] = what] /\ written' = [written EXCEPT ![f] = clock]
  /\ changed' = changed \cup {f} /\ iniEdited' = (iniEdited \/ f = "ini")
  /\ touched' = touched \cup {f}
  /\ hidden' = IF f \notin touched THEN hidden \ {f}
               ELSE IF f \in opened THEN hidden \cup {f} ELSE hidden
  /\ UNCHANGED <<memory, pc, stated, fstated, clock, faults, opened>>

(* In place: empty or in part first, whole in a second step.               *)
WriteBegin ==
  \E f \in Files : writes < MaxWrites /\ content[f] # Part /\ Put(f, Part) /\ UNCHANGED writes
WriteEnd ==
  \E f \in Files : writes < MaxWrites /\ content[f] = Part /\ Put(f, writes + 2) /\ writes' = writes + 1

(* In one step, and with an older time, as copies of files have it.        *)
Restore ==
  /\ writes < MaxWrites /\ writes' = writes + 1
  /\ \E f \in Files : \E time \in 1..(clock - 1) :
       /\ content[f] \notin {Nothing, Part}
       /\ content' = [content EXCEPT ![f] = writes + 2] /\ written' = [written EXCEPT ![f] = time]
       /\ changed' = changed \cup {f} /\ iniEdited' = (iniEdited \/ f = "ini")
       /\ hidden' = IF time <= mtime[f] THEN hidden \cup {f} ELSE hidden
  /\ UNCHANGED <<memory, pc, stated, fstated, clock, faults, opened, touched>>

Tick ==
  /\ clock < MaxClock /\ clock' = clock + 1 /\ opened' = {} /\ touched' = {}
  /\ UNCHANGED <<memory, pc, stated, fstated, content, written, writes, iniEdited, faults, changed, hidden>>

Progress == EverySecond \/ \E f \in Files : Stat(f) \/ Open(f) \/ Read(f)
Next == Progress \/ WriteBegin \/ WriteEnd \/ Restore \/ Tick
Fairness == WF_vars(Progress) /\ WF_vars(WriteEnd)
Spec == Init /\ [][Next]_vars /\ Fairness

-----------------------------------------------------------------------------
(* After a round of all files, the settings are those of each file that    *)
(* has not changed since it was looked at, unless the change cannot be     *)
(* seen in the file's time or a read failed.                               *)
(* (cw_server.cpp everysecond, main.cpp parse_ini_file)                    *)
LoadedIsCurrent ==
  pc = Rest =>
    \A f \in Files \ (changed \cup hidden) : loaded[f] = content[f]

(* The options of the command line hold until the ini file is edited, and  *)
(* the file of servers is not read before they are gone.                   *)
(* (cw_server.cpp everysecond)                                             *)
OptionsHold ==
  /\ given \/ iniEdited
  /\ given => loaded["servers"] = Nothing

(* Every change is in effect at last, with the same exceptions.            *)
(* (cw_server.cpp everysecond)                                             *)
ChangesTakeEffect ==
  \A f \in Files :
    <>[](f \in hidden \/ loaded[f] = content[f] \/ (f = "servers" /\ given))
=============================================================================

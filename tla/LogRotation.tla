---------------------------- MODULE LogRotation -----------------------------
(***************************************************************************)
(* The rotation of the log file (LogThread::run): when the file has grown  *)
(* past its limit, cw.log.0 ... cw.log.(N-1) are renamed one after another, *)
(* from the oldest on, then the file itself becomes cw.log.0 and a new one *)
(* is opened. No result of unlink and rename is looked at, and the process *)
(* may end between any two of the calls.                                   *)
(***************************************************************************)
EXTENDS Naturals, FiniteSets

CONSTANTS
  N,         \* _log_rotate_count
  MaxFiles,  \* bound: log files begun
  MaxKills,  \* bound: ends of the process
  MaxFaults  \* bound: calls of rename that fail on an existing file

VARIABLES
  old,    \* the files .0 to .(N-1): the number of the log in each, 0 if absent
  cur,    \* the number of the log in the file itself, 0 if absent
  begun,  \* logs begun
  full,   \* the file has more than 1000000 bytes
  pc, i,  \* control point of the log thread, its loop variable
  kills, faults
vars == <<old, cur, begun, full, pc, i, kills, faults>>

Present == ({old[k] : k \in DOMAIN old} \cup {cur}) \ {0}

TypeOK ==
  /\ DOMAIN old = 0..(N - 1) /\ \A k \in 0..(N - 1) : old[k] \in 0..MaxFiles
  /\ cur \in 0..MaxFiles /\ begun \in 0..MaxFiles /\ full \in BOOLEAN
  /\ pc \in {"write", "unlink", "rename", "unlinkFirst", "renameFile", "open", "stopped"}
  /\ i \in 1..N /\ kills \in 0..MaxKills /\ faults \in 0..MaxFaults

Init ==
  /\ old = [k \in 0..(N - 1) |-> 0] /\ cur = 0 /\ begun = 0 /\ full = FALSE
  /\ pc = "open" /\ i = 1 /\ kills = 0 /\ faults = 0

(* Lines are written until the file is full.                               *)
Write ==
  /\ pc = "write" /\ full' = TRUE
  /\ UNCHANGED <<old, cur, begun, pc, i, kills, faults>>

(* The next line finds the file full.                                      *)
Rotate ==
  /\ pc = "write" /\ full /\ i' = N
  /\ pc' = IF N > 1 THEN "unlink" ELSE "unlinkFirst"
  /\ UNCHANGED <<old, cur, begun, full, kills, faults>>

Unlink ==
  /\ pc = "unlink" /\ pc' = "rename" /\ old' = [old EXCEPT ![i - 1] = 0]
  /\ UNCHANGED <<cur, begun, full, i, kills, faults>>

(* A rename of a file that is absent does nothing.                         *)
Rename ==
  /\ pc = "rename" /\ i' = i - 1
  /\ pc' = IF i - 1 > 1 THEN "unlink" ELSE "unlinkFirst"
  /\ \/ /\ old' = [old EXCEPT ![i - 1] = old[i - 2], ![i - 2] = 0]
        /\ UNCHANGED faults
     \/ /\ old[i - 2] # 0 /\ faults < MaxFaults /\ faults' = faults + 1
        /\ UNCHANGED old
  /\ UNCHANGED <<cur, begun, full, kills>>

UnlinkFirst ==
  /\ pc = "unlinkFirst" /\ pc' = "renameFile" /\ old' = [old EXCEPT ![0] = 0]
  /\ UNCHANGED <<cur, begun, full, i, kills, faults>>

RenameFile ==
  /\ pc = "renameFile" /\ pc' = "open"
  /\ \/ old' = [old EXCEPT ![0] = cur] /\ cur' = 0 /\ UNCHANGED faults
     \/ faults < MaxFaults /\ faults' = faults + 1 /\ UNCHANGED <<old, cur>>
  /\ UNCHANGED <<begun, full, i, kills>>

(* fopen(_log_path, "w"): the file is empty, whatever it held.             *)
Open ==
  /\ pc = "open" /\ begun < MaxFiles
  /\ begun' = begun + 1 /\ cur' = begun + 1 /\ full' = FALSE /\ pc' = "write"
  /\ UNCHANGED <<old, i, kills, faults>>

Kill ==
  /\ pc # "stopped" /\ kills < MaxKills /\ kills' = kills + 1 /\ pc' = "stopped"
  /\ UNCHANGED <<old, cur, begun, full, i, faults>>

(* Mutant: the file is opened with "w".                                    *)
Restart_Truncate ==
  /\ pc = "stopped" /\ pc' = "open"
  /\ UNCHANGED <<old, cur, begun, full, i, kills, faults>>

(* fopen(_log_path, "a"): a file that is there is continued.               *)
Restart ==
  /\ pc = "stopped" /\ pc' = IF cur = 0 THEN "open" ELSE "write"
  /\ UNCHANGED <<old, cur, begun, full, i, kills, faults>>

Next ==
  Write \/ Rotate \/ Unlink \/ Rename \/ UnlinkFirst \/ RenameFile \/ Open \/ Kill \/ Restart

Spec == Init /\ [][Next]_vars

-----------------------------------------------------------------------------
(* A log that disappears is the oldest of those there are, unless a rename *)
(* failed before; the steps of a rotation that an end of the process cut   *)
(* short and the rotation that repeats them included. (LogThread.cpp run)  *)
OldestGoes ==
  [][faults' = 0 => \A g \in Present \ Present' : \A h \in Present : g <= h]_vars

(* Between rotations the last N + 1 logs are there, but for one per end of *)
(* the process and one per rename that failed. (LogThread.cpp run)         *)
Kept ==
  pc = "write" =>
    Cardinality(Present) + kills + faults >= IF begun <= N THEN begun ELSE N + 1
=============================================================================

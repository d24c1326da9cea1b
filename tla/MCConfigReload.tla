--------------------------- MODULE MCConfigReload ---------------------------
(* An instance of ConfigReload for TLC, and beside it one of LogService    *)
(* and one of the rotation of the file that the log thread writes; an      *)
(* execution is of one of the three.                                       *)
(* Three seconds of a file's time, an edit in one step or two, a failure.  *)
(* A queue of three lines is empty, partly full and full; seven numbers    *)
(* tell the lines of a batch and a queue apart. Three old files, enough    *)
(* logs for the oldest to be dropped several times, two ends of the        *)
(* process and two failures.                                               *)
EXTENDS ConfigReload

VARIABLE part

CONSTANTS Limit, Numbers, Prompt
VARIABLES mutex, queue, batch, next, printed, at, hpc, on, sigterm, terminate
L == INSTANCE LogService WITH pc <- at, written <- printed
log == <<mutex, queue, batch, next, printed, at, hpc, on, sigterm, terminate>>

CONSTANTS N, MaxFiles, MaxKills, MaxRenameFaults
VARIABLES old, cur, begun, full, step, i, kills, renameFaults
R == INSTANCE LogRotation WITH pc <- step, faults <- renameFaults, MaxFaults <- MaxRenameFaults
rotation == <<old, cur, begun, full, step, i, kills, renameFaults>>

MCInit ==
  /\ Init /\ L!Init /\ R!Init /\ part \in {"lines", "files", "settings"}
  /\ part # "settings" => content["ini"] = 1
MCNext ==
  \/ part = "lines" /\ L!Next /\ UNCHANGED <<part, rotation, vars>>
  \/ part = "files" /\ R!Next /\ UNCHANGED <<part, log, vars>>
  \/ part = "settings" /\ Next /\ UNCHANGED <<part, log, rotation>>
MCSpec ==
  /\ MCInit /\ [][MCNext]_<<vars, part, rotation, log>>
  /\ SF_log(part = "lines" /\ (L!LogLock("processor") \/ L!LogPut("processor")))
  /\ SF_log(part = "lines" /\ L!LogThreadStep) /\ SF_log(part = "lines" /\ L!MainStep)
  /\ SF_log(part = "lines" /\ (L!HandlerLock \/ L!HandlerPut))
  /\ WF_vars(part = "settings" /\ Progress) /\ WF_vars(part = "settings" /\ WriteEnd)

(* Every line that entered the queue is written, once, in the order of     *)
(* entry. (LogThread.cpp run, TheServer.cpp log_print)                     *)
LinesInOrder == L!TypeOK /\ L!LinesInOrder

(* A line is written in the end though its own signal may be lost, and     *)
(* SIGTERM ends the process unless it comes in one of two windows.         *)
(* (TheServer.cpp log_print and on_signal, LogThread.cpp stop)             *)
LogIsLive == L!LinesWritten /\ L!StopStops

(* What a rotation loses is the oldest log, and no more than one of the    *)
(* last per end of the process and per failure. (LogThread.cpp run)        *)
NewestKept == [](R!TypeOK /\ R!Kept) /\ R!OldestGoes
=============================================================================

----------------------------- MODULE LogService -----------------------------
(***************************************************************************)
(* The log of cw2_server: threads put lines into a queue under its mutex   *)
(* and signal the log thread, which swaps the queue out and writes it      *)
(* (TheServer::log_print, LogThread::run); the handler of SIGTERM, which   *)
(* logs a line on the thread it interrupts; and the end of the process,    *)
(* which stops and joins the log thread after a last line.                 *)
(*                                                                         *)
(* Event::wait sleeps on a condition variable whose mutex nobody holds: a  *)
(* signal reaches the log thread only while it is inside the wait.         *)
(***************************************************************************)
EXTENDS Naturals, Sequences

CONSTANTS
  Limit,       \* CW_LOG_QUEUE_LIMIT
  Numbers,     \* lines are numbered modulo this: more than twice Limit tells
               \* every two lines of a batch and the queue apart
  Prompt       \* from an empty swap to its wait the log thread takes less time
               \* than the others need for Limit lines

(* The processor, which logs the health check of the database every ten    *)
(* minutes, stands for every thread that logs while the server runs.       *)
Loggers == {"processor", "main"}
Threads == Loggers \cup {"logThread"}

VARIABLES
  mutex,     \* who holds _log_data.mutex: "none", a thread, or "handler"
  queue,     \* _log_data.queue: lines as <<number, who>>
  batch,     \* the log thread's local queue
  next,      \* the number of the next line that enters the queue
  written,   \* the number of the next line to be written to the file
  pc,        \* control points of the threads
  hpc, on,   \* control point of the signal handler, and the thread it runs on
  sigterm,   \* _sigterm
  terminate  \* _terminate of the log thread
vars == <<mutex, queue, batch, next, written, pc, hpc, on, sigterm, terminate>>

Lines == (0..(Numbers - 1)) \X (Loggers \cup {"handler"})
TypeOK ==
  /\ mutex \in Threads \cup {"none", "handler"}
  /\ queue \in Seq(Lines) /\ Len(queue) <= Limit /\ batch \in Seq(Lines)
  /\ next \in 0..(Numbers - 1) /\ written \in 0..(Numbers - 1)
  /\ pc["logThread"] \in {"lock", "swap", "test", "sleep", "wait", "write", "done"}
  /\ pc["main"] \in {"run", "held", "last", "stop", "signal", "join", "exit"}
  /\ pc["processor"] \in {"run", "held", "done"}
  /\ hpc \in {"none", "lock", "held", "done"} /\ on \in Threads
  /\ sigterm \in BOOLEAN /\ terminate \in BOOLEAN

Init ==
  /\ mutex = "none" /\ queue = <<>> /\ batch = <<>> /\ next = 0 /\ written = 0
  /\ pc = [t \in Threads |-> IF t = "logThread" THEN "lock" ELSE "run"]
  /\ hpc = "none" /\ on = "main" /\ sigterm = FALSE /\ terminate = FALSE

-----------------------------------------------------------------------------
(* A thread under a running handler does not move; nobody does after the   *)
(* process has ended.                                                      *)
Runs(t) == pc["main"] # "exit" /\ (on = t => hpc \in {"none", "done"})

Plus(n) == (n + 1) % Numbers

(* The line enters the queue unless the queue is full.                     *)
Put(who) ==
  IF Len(queue) < Limit
    THEN queue' = Append(queue, <<next, who>>) /\ next' = Plus(next)
    ELSE UNCHANGED <<queue, next>>

(* Mutant: the log thread is not signalled.                                *)
Woken_Never(p) == p

(* Event::signal.                                                          *)
Woken(p) == IF p["logThread"] = "wait" THEN [p EXCEPT !["logThread"] = "lock"] ELSE p
AfterPut(p) == IF Len(queue) < Limit THEN Woken(p) ELSE p

(* Limit is 100000 in the code: Prompt leaves out that so many lines enter *)
(* the queue while the log thread takes two steps (the handler's included). *)
InTime == Prompt /\ pc["logThread"] \in {"test", "sleep"} => Len(queue) + 2 < Limit

(* log_print: AutoLock, the put and the signal, the end of the lock.       *)
LogLock(t) ==
  /\ Runs(t) /\ mutex = "none" /\ mutex' = t /\ InTime
  /\ \/ t # "main" /\ pc[t] = "run"
     \/ t = "main" /\ pc[t] = "last"
  /\ pc' = [pc EXCEPT ![t] = "held"]
  /\ UNCHANGED <<queue, batch, next, written, hpc, on, sigterm, terminate>>

LogPut(t) ==
  /\ Runs(t) /\ pc[t] = "held" /\ mutex' = "none"
  /\ Put(t)
  /\ pc' = AfterPut([pc EXCEPT ![t] = IF t = "main" THEN "stop" ELSE "run"])
  /\ UNCHANGED <<batch, written, hpc, on, sigterm, terminate>>

-----------------------------------------------------------------------------
LAcquire ==
  /\ Runs("logThread") /\ pc["logThread"] = "lock"
  /\ mutex = "none" /\ mutex' = "logThread"
  /\ pc' = [pc EXCEPT !["logThread"] = "swap"]
  /\ UNCHANGED <<queue, batch, next, written, hpc, on, sigterm, terminate>>

(* Mutant: the queue is copied, not swapped.                               *)
LSwap_Copy ==
  /\ Runs("logThread") /\ pc["logThread"] = "swap"
  /\ mutex' = "none" /\ batch' = queue /\ UNCHANGED queue
  /\ pc' = [pc EXCEPT !["logThread"] = IF queue = <<>> THEN "test" ELSE "write"]
  /\ UNCHANGED <<next, written, hpc, on, sigterm, terminate>>

LSwap ==
  /\ Runs("logThread") /\ pc["logThread"] = "swap"
  /\ mutex' = "none" /\ batch' = queue /\ queue' = <<>>
  /\ pc' = [pc EXCEPT !["logThread"] = IF queue = <<>> THEN "test" ELSE "write"]
  /\ UNCHANGED <<next, written, hpc, on, sigterm, terminate>>

LTest ==
  /\ Runs("logThread") /\ pc["logThread"] = "test"
  /\ pc' = [pc EXCEPT !["logThread"] = IF terminate THEN "done" ELSE "sleep"]
  /\ UNCHANGED <<mutex, queue, batch, next, written, hpc, on, sigterm, terminate>>

LSleep ==
  /\ Runs("logThread") /\ pc["logThread"] = "sleep"
  /\ pc' = [pc EXCEPT !["logThread"] = "wait"]
  /\ UNCHANGED <<mutex, queue, batch, next, written, hpc, on, sigterm, terminate>>

LWrite ==
  /\ Runs("logThread") /\ pc["logThread"] = "write"
  /\ written' = Plus(Head(batch)[1]) /\ batch' = Tail(batch)
  /\ pc' = [pc EXCEPT !["logThread"] = IF Len(batch) = 1 THEN "lock" ELSE "write"]
  /\ UNCHANGED <<mutex, queue, next, hpc, on, sigterm, terminate>>

-----------------------------------------------------------------------------
(* SIGTERM is delivered to any thread, at any point. The handler ignores   *)
(* further signals, logs a line, and only then sets _sigterm.              *)
Sigterm(t) ==
  /\ hpc = "none" /\ pc["main"] # "exit" /\ pc[t] # "done"
  /\ hpc' = "lock" /\ on' = t
  /\ UNCHANGED <<mutex, queue, batch, next, written, pc, sigterm, terminate>>

HandlerLock ==
  /\ hpc = "lock" /\ hpc' = "held" /\ mutex = "none" /\ mutex' = "handler"
  /\ UNCHANGED <<queue, batch, next, written, pc, on, sigterm, terminate>>

HandlerPut ==
  /\ hpc = "held" /\ hpc' = "done" /\ mutex' = "none"
  /\ Put("handler") /\ pc' = AfterPut(pc) /\ sigterm' = TRUE
  /\ UNCHANGED <<batch, written, on, terminate>>

-----------------------------------------------------------------------------
(* The main thread leaves its loop, joins the event processor, logs the    *)
(* last line, stops the log thread and joins it.                           *)
MainLeave ==
  /\ Runs("main") /\ pc["main"] = "run" /\ sigterm
  /\ pc["processor"] = "run"
  /\ pc' = [pc EXCEPT !["main"] = "last", !["processor"] = "done"]
  /\ UNCHANGED <<mutex, queue, batch, next, written, hpc, on, sigterm, terminate>>

MainStop ==
  /\ Runs("main") /\ pc["main"] = "stop" /\ terminate' = TRUE
  /\ pc' = [pc EXCEPT !["main"] = "signal"]
  /\ UNCHANGED <<mutex, queue, batch, next, written, hpc, on, sigterm>>

MainSignal ==
  /\ Runs("main") /\ pc["main"] = "signal"
  /\ pc' = Woken([pc EXCEPT !["main"] = "join"])
  /\ UNCHANGED <<mutex, queue, batch, next, written, hpc, on, sigterm, terminate>>

MainJoin ==
  /\ Runs("main") /\ pc["main"] = "join" /\ pc["logThread"] = "done"
  /\ pc' = [pc EXCEPT !["main"] = "exit"]
  /\ UNCHANGED <<mutex, queue, batch, next, written, hpc, on, sigterm, terminate>>

Next ==
  \/ \E t \in Loggers : LogLock(t) \/ LogPut(t)
  \/ LAcquire \/ LSwap \/ LTest \/ LSleep \/ LWrite
  \/ \E t \in Threads : Sigterm(t)
  \/ HandlerLock \/ HandlerPut
  \/ MainLeave \/ MainStop \/ MainSignal \/ MainJoin

(* Threads that can run do run, and a thread that asks for the mutex again *)
(* and again when it is free gets it. The processor logs every ten         *)
(* minutes; nobody has to send SIGTERM.                                    *)
LogThreadStep == LAcquire \/ LSwap \/ LTest \/ LSleep \/ LWrite
MainStep ==
  \/ MainLeave \/ LogLock("main") \/ LogPut("main")
  \/ MainStop \/ MainSignal \/ MainJoin

Fairness ==
  /\ SF_vars(LogLock("processor") \/ LogPut("processor"))
  /\ SF_vars(LogThreadStep) /\ SF_vars(MainStep)
  /\ SF_vars(HandlerLock \/ HandlerPut)
Spec == Init /\ [][Next]_vars /\ Fairness

-----------------------------------------------------------------------------
(* Every line that entered the queue is written, once, in the order of     *)
(* entry: what waits is exactly what lies between the last line written    *)
(* and the last line put. (LogThread.cpp run, TheServer.cpp log_print)     *)
LinesInOrder ==
  LET waiting == batch \o queue
  IN /\ \A n \in DOMAIN waiting : waiting[n][1] = (written + n - 1) % Numbers
     /\ next = (written + Len(waiting)) % Numbers

(* SIGTERM found a thread that holds the mutex its handler needs.          *)
SelfDeadlock == hpc = "lock" /\ mutex = on

(* The flag and the signal of stop() fell between the log thread's test    *)
(* and its wait.                                                           *)
StopMissed == pc["main"] = "join" /\ pc["logThread"] = "sleep"

(* A line in the queue is written in the end while the server runs, though *)
(* its own signal may have been lost. (TheServer.cpp log_print)            *)
LinesWritten ==
  (queue # <<>> /\ pc["main"] = "run")
    ~> (pc["logThread"] = "write" \/ pc["main"] # "run" \/ SelfDeadlock)

(* SIGTERM ends the process, unless it comes in one of two windows.        *)
(* (TheServer.cpp on_signal, cw_server.cpp run)                            *)
StopStops == hpc = "lock" ~> (pc["main"] = "exit" \/ SelfDeadlock \/ StopMissed)

(* SIGTERM ends the process whenever it comes.                             *)
(* (TheServer.cpp on_signal, LogThread.cpp stop)                           *)
SigtermEnds == hpc = "lock" ~> pc["main"] = "exit"
=============================================================================

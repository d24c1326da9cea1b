--------------------------- MODULE EventPipeline ---------------------------
(***************************************************************************)
(* The threads of cw2_server in live capture mode and the two queues that  *)
(* connect them.                                                           *)
(*                                                                         *)
(*   CaptureThread  --packetQueue-->  PacketAnalyzerThread                 *)
(*                  --eventQueue-->   EventProcessor  -->  logfile, CSV    *)
(*                                                                         *)
(* The main thread reloads the options every second, asks for a cleanup    *)
(* every minute and, after SIGTERM, stops the threads.                     *)
(*                                                                         *)
(* Packets and events are numbered in the order they are captured and      *)
(* emitted, so an order property is a statement about numbers.             *)
(* Event::wait sleeps on a condition variable whose mutex nobody holds:    *)
(* a signal reaches a thread only while that thread is inside the wait and *)
(* is lost otherwise.                                                      *)
(***************************************************************************)
EXTENDS Naturals, Sequences

CONSTANTS
  MaxPackets,   \* bound of the model: packets the device delivers
  MaxEvents,    \* bound of the model: events the dispatchers produce
  MaxReloads,   \* bound of the model: changes of the option file
  PacketLimit,  \* CW_PACKET_CAPTURE_QUEUE_LIMIT
  EventLimit,   \* CW_OUTPUT_QUEUE_LIMIT
  ArchiveCsv,   \* _archive_csv_enable
  Commands      \* the kinds of event in the traffic

(* The AFP logout is the one kind of event that is emitted without the     *)
(* lock of the event queue.                                                *)
FPLogout == "FPLogout"

ASSUME PipelineAssumption ==
  /\ MaxPackets \in Nat /\ MaxEvents \in Nat /\ MaxReloads \in Nat
  /\ PacketLimit \in Nat /\ EventLimit \in Nat
  /\ ArchiveCsv \in BOOLEAN
  /\ Commands \subseteq {"access", FPLogout}

VARIABLES
  captured,     \* _packet_number of the capture thread
  packetQueue,  \* PacketAnalyzerThread::_queue
  cpc, cterm,   \* control point and _terminate of the capture thread
  batch,        \* the analyzer's local q: packets swapped out, not yet dispatched
  apc, aterm,   \* control point and _terminate of the analyzer
  cleanup,      \* PacketAnalyzerThread::_cleanup
  cmd,          \* the kind of the event the analyzer is emitting
  emitted,      \* number of events handed to emit_event so far
  eventQueue,   \* EventProcessor::_queue
  pmutex,       \* the thread that holds EventProcessor::_mutex, or "none"
  work,         \* the processor's local q: events swapped out, not yet handled
  item,         \* the event whose row was just inserted, 0 when there is none
  ppc, pterm,   \* control point and _terminate of the event processor
  connected,    \* the database handle of the event processor is valid
  rows,         \* the logfile table: numbers of the events ever inserted
  csv,          \* the archive: numbers of the events written to it
  settings,     \* the thread that holds _mutex_for_settings, or "none"
  option,       \* generation of MainServer::_option
  mpc, sigterm, \* control point of the main thread; _sigterm
  (* history, never read by an action *)
  refused,      \* events that never entered the queue
  excluded,     \* events skipped by an exclusion rule
  lost          \* events of a batch that a database error abandoned

captureVars == <<captured, packetQueue, cpc, cterm>>
analyzerVars == <<batch, apc, aterm, cleanup, cmd>>
queueVars == <<emitted, eventQueue, pmutex, refused>>
storeVars == <<rows, csv, excluded, lost>>
processorVars == <<work, item, ppc, pterm, connected, storeVars>>
mainVars == <<option, mpc, sigterm>>
vars == <<captureVars, analyzerVars, queueVars, processorVars, settings, mainVars>>

-----------------------------------------------------------------------------
SetOf(s) == {s[i] : i \in 1..Len(s)}

(* Event::signal on the analyzer's and on the processor's event: wakes the *)
(* thread if it is inside Event::wait, has no effect otherwise.            *)
SignalAnalyzer == apc' = IF apc = "wait" THEN "cleanup" ELSE apc
SignalProcessor == ppc' = IF ppc = "wait" THEN "lockq" ELSE ppc

Init ==
  /\ captured = 0 /\ packetQueue = <<>> /\ cpc = "run" /\ cterm = FALSE
  /\ batch = <<>> /\ apc = "swap" /\ aterm = FALSE /\ cleanup = FALSE
  /\ cmd = "access"
  /\ emitted = 0 /\ eventQueue = <<>> /\ pmutex = "none" /\ refused = {}
  /\ work = <<>> /\ item = 0 /\ ppc = "lockq" /\ pterm = FALSE
  /\ connected = FALSE
  /\ rows = <<>> /\ csv = <<>> /\ excluded = {} /\ lost = {}
  /\ settings = "none" /\ option = 0 /\ mpc = "second" /\ sigterm = FALSE

-----------------------------------------------------------------------------
(* CaptureThread::analize, live mode: number the packet; under the lock of *)
(* the packet queue append it and signal, unless the queue is full.        *)
Capture ==
  /\ cpc = "run" /\ ~cterm
  /\ captured < MaxPackets
  /\ captured' = captured + 1
  /\ IF Len(packetQueue) < PacketLimit
       THEN packetQueue' = Append(packetQueue, captured') /\ SignalAnalyzer
       ELSE UNCHANGED <<packetQueue, apc>>
  /\ UNCHANGED <<cpc, cterm, batch, aterm, cleanup, cmd>>
  /\ UNCHANGED <<queueVars, processorVars, settings, mainVars>>

(* The thread leaves its loop on _terminate; it never enters it when the   *)
(* adapter cannot be opened or the filter does not compile.                *)
CaptureEnd ==
  /\ cpc = "run"
  /\ cterm \/ captured = 0
  /\ cpc' = "done"
  /\ UNCHANGED <<captured, packetQueue, cterm>>
  /\ UNCHANGED <<analyzerVars, queueVars, processorVars, settings, mainVars>>

Capturer == mpc # "exit" /\ (Capture \/ CaptureEnd)

-----------------------------------------------------------------------------
(* PacketAnalyzerThread::run. The queue is swapped out under its mutex,    *)
(* which the capture thread holds for one push at a time.                  *)
ASwap ==
  /\ apc = "swap"
  /\ batch' = packetQueue /\ packetQueue' = <<>>
  /\ apc' = IF packetQueue = <<>> THEN "test" ELSE "lock"
  /\ UNCHANGED <<captured, cpc, cterm, aterm, cleanup, cmd>>
  /\ UNCHANGED <<queueVars, processorVars, settings, mainVars>>

ATest ==
  /\ apc = "test"
  /\ apc' = IF aterm THEN "done" ELSE "sleep"
  /\ UNCHANGED <<batch, aterm, cleanup, cmd>>
  /\ UNCHANGED <<captureVars, queueVars, processorVars, settings, mainVars>>

(* _event.wait() without a timeout.                                        *)
ASleep ==
  /\ apc = "sleep"
  /\ apc' = "wait"
  /\ UNCHANGED <<batch, aterm, cleanup, cmd>>
  /\ UNCHANGED <<captureVars, queueVars, processorVars, settings, mainVars>>

(* The options are locked for the whole batch.                             *)
ALock ==
  /\ apc = "lock" /\ settings = "none"
  /\ settings' = "analyzer" /\ apc' = "dispatch"
  /\ UNCHANGED <<batch, aterm, cleanup, cmd>>
  /\ UNCHANGED <<captureVars, queueVars, processorVars, mainVars>>

(* The dispatchers decide to emit an event for the packet at hand.         *)
AEmit ==
  /\ apc = "dispatch" /\ batch # <<>>
  /\ emitted < MaxEvents
  /\ \E c \in Commands : cmd' = c
  /\ apc' = "enqueue"
  /\ UNCHANGED <<batch, aterm, cleanup>>
  /\ UNCHANGED <<captureVars, queueVars, processorVars, settings, mainVars>>

(* AutoLock lock(get_processor()->mutex()) of the call site. The AFP       *)
(* logout constructs a temporary: locked and released in one statement.    *)
ALockQueue ==
  /\ apc = "enqueue" /\ pmutex = "none"
  /\ pmutex' = IF cmd = FPLogout THEN "none" ELSE "analyzer"
  /\ apc' = "push"
  /\ UNCHANGED <<batch, aterm, cleanup, cmd, emitted, eventQueue, refused>>
  /\ UNCHANGED <<captureVars, processorVars, settings, mainVars>>

(* Mutant: the limit of the event queue is forgotten.                      *)
APush_NoLimit ==
  /\ apc = "push"
  /\ emitted' = emitted + 1
  /\ eventQueue' = Append(eventQueue, emitted')
  /\ SignalProcessor
  /\ pmutex' = IF pmutex = "analyzer" THEN "none" ELSE pmutex
  /\ apc' = "dispatch"
  /\ UNCHANGED <<refused, batch, aterm, cleanup, cmd, work, item, pterm, connected>>
  /\ UNCHANGED <<captureVars, storeVars, settings, mainVars>>

(* emit_event, then the release of the caller's lock. A push that runs     *)
(* while the processor is swapping the list is a data race: the event may  *)
(* end in the queue or nowhere.                                            *)
APush ==
  /\ apc = "push"
  /\ emitted' = emitted + 1
  /\ \/ /\ Len(eventQueue) < EventLimit
        /\ eventQueue' = Append(eventQueue, emitted')
        /\ SignalProcessor
        /\ UNCHANGED refused
     \/ /\ Len(eventQueue) >= EventLimit \/ pmutex = "processor"
        /\ refused' = refused \union {emitted'}
        /\ UNCHANGED <<eventQueue, ppc>>
  /\ pmutex' = IF pmutex = "analyzer" THEN "none" ELSE pmutex
  /\ apc' = "dispatch"
  /\ UNCHANGED <<batch, aterm, cleanup, cmd, work, item, pterm, connected>>
  /\ UNCHANGED <<captureVars, storeVars, settings, mainVars>>

APacketDone ==
  /\ apc = "dispatch" /\ batch # <<>>
  /\ batch' = Tail(batch)
  /\ UNCHANGED <<apc, aterm, cleanup, cmd>>
  /\ UNCHANGED <<captureVars, queueVars, processorVars, settings, mainVars>>

AUnlock ==
  /\ apc = "dispatch" /\ batch = <<>>
  /\ settings' = "none" /\ apc' = "cleanup"
  /\ UNCHANGED <<batch, aterm, cleanup, cmd>>
  /\ UNCHANGED <<captureVars, queueVars, processorVars, mainVars>>

(* if (_cleanup) { dispose_forgotten_data(); _cleanup = false; }           *)
ACleanup ==
  /\ apc = "cleanup"
  /\ apc' = IF cleanup THEN "dispose" ELSE "swap"
  /\ UNCHANGED <<batch, aterm, cleanup, cmd>>
  /\ UNCHANGED <<captureVars, queueVars, processorVars, settings, mainVars>>

ADispose ==
  /\ apc = "dispose"
  /\ cleanup' = FALSE /\ apc' = "swap"
  /\ UNCHANGED <<batch, aterm, cmd>>
  /\ UNCHANGED <<captureVars, queueVars, processorVars, settings, mainVars>>

Analyzer ==
  /\ mpc # "exit"
  /\ \/ ASwap \/ ATest \/ ASleep \/ ALock \/ AEmit \/ ALockQueue \/ APush
     \/ APacketDone \/ AUnlock \/ ACleanup \/ ADispose

-----------------------------------------------------------------------------
(* EventProcessor::run: lock the event queue, swap it out, unlock.         *)
PLockQueue ==
  /\ ppc = "lockq" /\ pmutex = "none"
  /\ pmutex' = "processor" /\ ppc' = "swap"
  /\ UNCHANGED <<emitted, eventQueue, refused, work, item, pterm, connected>>
  /\ UNCHANGED <<captureVars, analyzerVars, storeVars, settings, mainVars>>

PSwap ==
  /\ ppc = "swap"
  /\ work' = eventQueue /\ eventQueue' = <<>>
  /\ pmutex' = "none" /\ ppc' = "health"
  /\ UNCHANGED <<emitted, refused, item, pterm, connected>>
  /\ UNCHANGED <<captureVars, analyzerVars, storeVars, settings, mainVars>>

(* Mutant: a failed health check starts the loop again.                    *)
PHealth_Continue ==
  /\ ppc = "health"
  /\ connected' \in BOOLEAN
  /\ ppc' = IF ~connected' THEN "lockq" ELSE IF work = <<>> THEN "test" ELSE "connect"
  /\ UNCHANGED <<work, item, pterm>>
  /\ UNCHANGED <<captureVars, analyzerVars, queueVars, storeVars, settings, mainVars>>

(* The health check, due when the database was idle for ten seconds:       *)
(* connect if needed, query, autodelete. An error disconnects and nothing  *)
(* more; the batch is tried all the same.                                  *)
PHealth ==
  /\ ppc = "health"
  /\ connected' \in BOOLEAN
  /\ ppc' = IF work = <<>> THEN "test" ELSE "connect"
  /\ UNCHANGED <<work, item, pterm>>
  /\ UNCHANGED <<captureVars, analyzerVars, queueVars, storeVars, settings, mainVars>>

PTest ==
  /\ ppc = "test"
  /\ ppc' = IF pterm THEN "done" ELSE "sleep"
  /\ UNCHANGED <<work, item, pterm, connected>>
  /\ UNCHANGED <<captureVars, analyzerVars, queueVars, storeVars, settings, mainVars>>

PSleep ==
  /\ ppc = "sleep"
  /\ ppc' = "wait"
  /\ UNCHANGED <<work, item, pterm, connected>>
  /\ UNCHANGED <<captureVars, analyzerVars, queueVars, storeVars, settings, mainVars>>

(* The ten minutes of _event.wait are over.                                *)
PTimeout ==
  /\ ppc = "wait"
  /\ ppc' = "lockq"
  /\ UNCHANGED <<work, item, pterm, connected>>
  /\ UNCHANGED <<captureVars, analyzerVars, queueVars, storeVars, settings, mainVars>>

(* Mutant: the batch trusts the connection the health check left behind.   *)
PConnect_Unchecked ==
  /\ ppc = "connect"
  /\ ppc' \in {"exclusion", "insert"}
  /\ UNCHANGED <<work, item, pterm, connected>>
  /\ UNCHANGED <<captureVars, analyzerVars, queueVars, storeVars, settings, mainVars>>

(* check_db_connection, the success and the failure of the connect.        *)
PConnect ==
  /\ ppc = "connect"
  /\ connected' = TRUE
  /\ ppc' \in {"exclusion", "insert"}  \* the exclusion rules are due, or not
  /\ UNCHANGED <<work, item, pterm>>
  /\ UNCHANGED <<captureVars, analyzerVars, queueVars, storeVars, settings, mainVars>>

(* update_exclusion_info holds the lock of the options during its queries. *)
PLockSettings ==
  /\ ppc = "exclusion" /\ settings = "none"
  /\ settings' = "processor" /\ ppc' = "reload"
  /\ UNCHANGED <<work, item, pterm, connected>>
  /\ UNCHANGED <<captureVars, analyzerVars, queueVars, storeVars, mainVars>>

PReload ==
  /\ ppc = "reload"
  /\ settings' = "none" /\ ppc' = "insert"
  /\ UNCHANGED <<work, item, pterm, connected>>
  /\ UNCHANGED <<captureVars, analyzerVars, queueVars, storeVars, mainVars>>

(* An item that ends in .DS_Store or matches an exclusion rule.            *)
PExclude ==
  /\ ppc = "insert" /\ work # <<>>
  /\ excluded' = excluded \union {Head(work)} /\ work' = Tail(work)
  /\ UNCHANGED <<item, ppc, pterm, connected, rows, csv, lost>>
  /\ UNCHANGED <<captureVars, analyzerVars, queueVars, settings, mainVars>>

(* The insert. begin_transaction of the MySQL driver starts none, so every *)
(* insert is committed when it is executed.                                *)
PInsert ==
  /\ ppc = "insert" /\ work # <<>>
  /\ rows' = Append(rows, Head(work)) /\ item' = Head(work) /\ work' = Tail(work)
  /\ ppc' = "alert"
  /\ UNCHANGED <<pterm, connected, csv, excluded, lost>>
  /\ UNCHANGED <<captureVars, analyzerVars, queueVars, settings, mainVars>>

(* update_alert.                                                           *)
PAlert ==
  /\ ppc = "alert"
  /\ ppc' = IF ArchiveCsv THEN "csv" ELSE "insert"
  /\ item' = IF ArchiveCsv THEN item ELSE 0
  /\ UNCHANGED <<work, pterm, connected>>
  /\ UNCHANGED <<captureVars, analyzerVars, queueVars, storeVars, settings, mainVars>>

(* Mutant: the line is written again until a write fails.                  *)
PCsv_Repeat ==
  /\ ppc = "csv"
  /\ \/ csv' = csv /\ item' = 0 /\ ppc' = "insert"
     \/ csv' = Append(csv, item) /\ UNCHANGED <<item, ppc>>
  /\ UNCHANGED <<work, pterm, connected, rows, excluded, lost>>
  /\ UNCHANGED <<captureVars, analyzerVars, queueVars, settings, mainVars>>

(* writecsv; a directory or file that cannot be opened loses the line.     *)
PCsv ==
  /\ ppc = "csv"
  /\ csv' \in {csv, Append(csv, item)}
  /\ item' = 0 /\ ppc' = "insert"
  /\ UNCHANGED <<work, pterm, connected, rows, excluded, lost>>
  /\ UNCHANGED <<captureVars, analyzerVars, queueVars, settings, mainVars>>

PCommit ==
  /\ ppc = "insert" /\ work = <<>>
  /\ ppc' = "lockq"
  /\ UNCHANGED <<work, item, pterm, connected>>
  /\ UNCHANGED <<captureVars, analyzerVars, queueVars, storeVars, settings, mainVars>>

(* Mutant: the batch is tried again from the item that failed.             *)
PAbandon_Retry ==
  /\ ppc \in {"connect", "reload", "insert", "alert"}
  /\ ppc = "insert" => work # <<>>
  /\ rows' \in {rows} \union {Append(rows, e) : e \in IF ppc = "insert" THEN {Head(work)} ELSE {}}
  /\ item' = 0 /\ connected' = FALSE /\ ppc' = "connect"
  /\ settings' = IF settings = "processor" THEN "none" ELSE settings
  /\ UNCHANGED <<work, lost, pterm, csv, excluded>>
  /\ UNCHANGED <<captureVars, analyzerVars, queueVars, mainVars>>

(* A DBException in any database call of the batch: the handler logs,      *)
(* disconnects and goes on; what is left of the batch goes out of scope.   *)
(* An insert may have been executed although its reply never arrived.      *)
PAbandon ==
  /\ ppc \in {"connect", "reload", "insert", "alert"}
  /\ ppc = "insert" => work # <<>>
  /\ \/ lost' = lost \union SetOf(work) /\ UNCHANGED rows
     \/ /\ ppc = "insert"
        /\ rows' = Append(rows, Head(work))
        /\ lost' = lost \union SetOf(Tail(work))
  /\ work' = <<>> /\ item' = 0 /\ connected' = FALSE /\ ppc' = "lockq"
  /\ settings' = IF settings = "processor" THEN "none" ELSE settings
  /\ UNCHANGED <<pterm, csv, excluded>>
  /\ UNCHANGED <<captureVars, analyzerVars, queueVars, mainVars>>

Processor ==
  /\ mpc # "exit"
  /\ \/ PLockQueue \/ PSwap \/ PHealth \/ PTest \/ PSleep \/ PTimeout
     \/ PConnect \/ PLockSettings \/ PReload \/ PExclude \/ PInsert
     \/ PAlert \/ PCsv \/ PCommit \/ PAbandon

-----------------------------------------------------------------------------
(* Mutant: the options are swapped without their lock.                     *)
MainSecond_Unlocked ==
  /\ mpc = "second"
  /\ option' \in {option, option + 1} /\ option' <= MaxReloads
  /\ mpc' = "minute"
  /\ UNCHANGED sigterm
  /\ UNCHANGED <<captureVars, analyzerVars, queueVars, processorVars, settings>>

(* TheServer::loop and the end of MainServer::run. everysecond looks at    *)
(* the files under the lock of the options; a changed option file replaces *)
(* the options.                                                            *)
MainSecond ==
  /\ mpc = "second" /\ settings = "none"
  /\ \/ option < MaxReloads /\ option' = option + 1
     \/ UNCHANGED option
  /\ mpc' = "minute"
  /\ UNCHANGED sigterm
  /\ UNCHANGED <<captureVars, analyzerVars, queueVars, processorVars, settings>>

(* Mutant: the cleanup is requested without a signal.                      *)
MainMinute_NoSignal ==
  /\ mpc = "minute"
  /\ cleanup' = TRUE
  /\ mpc' = "check"
  /\ UNCHANGED <<batch, apc, aterm, cmd, option, sigterm>>
  /\ UNCHANGED <<captureVars, queueVars, processorVars, settings>>

(* everyminute, when a minute has passed.                                  *)
MainMinute ==
  /\ mpc = "minute"
  /\ cleanup' = TRUE /\ SignalAnalyzer
  /\ mpc' = "check"
  /\ UNCHANGED <<batch, aterm, cmd, option, sigterm>>
  /\ UNCHANGED <<captureVars, queueVars, processorVars, settings>>

MainNoMinute ==
  /\ mpc = "minute"
  /\ mpc' = "check"
  /\ UNCHANGED <<option, sigterm>>
  /\ UNCHANGED <<captureVars, analyzerVars, queueVars, processorVars, settings>>

(* is_interrupted, then a second of sleep or the end of the loop.          *)
MainCheck ==
  /\ mpc = "check"
  /\ mpc' = IF sigterm THEN "stop_processor" ELSE "second"
  /\ UNCHANGED <<option, sigterm>>
  /\ UNCHANGED <<captureVars, analyzerVars, queueVars, processorVars, settings>>

(* Mutant: stop() signals but forgets the flag.                            *)
MainStopProcessor_NoFlag ==
  /\ mpc = "stop_processor"
  /\ mpc' = "signal"
  /\ UNCHANGED <<work, item, ppc, pterm, connected, option, sigterm>>
  /\ UNCHANGED <<captureVars, analyzerVars, queueVars, storeVars, settings>>

(* EventProcessor::stop: set the flag, signal, join.                       *)
MainStopProcessor ==
  /\ mpc = "stop_processor"
  /\ pterm' = TRUE /\ mpc' = "signal"
  /\ UNCHANGED <<work, item, ppc, connected, option, sigterm>>
  /\ UNCHANGED <<captureVars, analyzerVars, queueVars, storeVars, settings>>

MainSignalProcessor ==
  /\ mpc = "signal"
  /\ SignalProcessor
  /\ mpc' = "join"
  /\ UNCHANGED <<work, item, pterm, connected, option, sigterm>>
  /\ UNCHANGED <<captureVars, analyzerVars, queueVars, storeVars, settings>>

MainJoinProcessor ==
  /\ mpc = "join" /\ ppc = "done"
  /\ mpc' = "stop_threads"
  /\ UNCHANGED <<option, sigterm>>
  /\ UNCHANGED <<captureVars, analyzerVars, queueVars, processorVars, settings>>

(* Thread::stop of the analyzer and the capture thread: flags only, nobody *)
(* is woken or joined. Then run() returns and the process ends.            *)
MainStopThreads ==
  /\ mpc = "stop_threads"
  /\ aterm' = TRUE /\ cterm' = TRUE
  /\ mpc' = "return"
  /\ UNCHANGED <<captured, packetQueue, cpc, batch, apc, cleanup, cmd, option, sigterm>>
  /\ UNCHANGED <<queueVars, processorVars, settings>>

MainExit ==
  /\ mpc = "return"
  /\ mpc' = "exit"
  /\ UNCHANGED <<option, sigterm>>
  /\ UNCHANGED <<captureVars, analyzerVars, queueVars, processorVars, settings>>

Main ==
  \/ MainSecond \/ MainMinute \/ MainNoMinute \/ MainCheck \/ MainStopProcessor
  \/ MainSignalProcessor \/ MainJoinProcessor \/ MainStopThreads \/ MainExit

(* on_signal: SIGTERM is ignored after the first one.                      *)
Sigterm ==
  /\ ~sigterm /\ mpc # "exit"
  /\ sigterm' = TRUE
  /\ UNCHANGED <<option, mpc>>
  /\ UNCHANGED <<captureVars, analyzerVars, queueVars, processorVars, settings>>

(* The process is gone.                                                    *)
Terminated == mpc = "exit" /\ UNCHANGED vars

Next == Capturer \/ Analyzer \/ Processor \/ Main \/ Sigterm \/ Terminated

Spec == Init /\ [][Next]_vars

(* The kernel runs every thread that can run, a thread that keeps asking   *)
(* for a mutex gets it (its holders keep it for one batch at most), a      *)
(* minute passes again and again while the main loop turns, and the timed  *)
(* wait ends. Packets, SIGTERM and the end of the capture thread are left  *)
(* to the environment.                                                     *)
FairSpec ==
  /\ Spec
  /\ SF_vars(Analyzer) /\ SF_vars(Processor) /\ SF_vars(Main) /\ SF_vars(MainMinute)

-----------------------------------------------------------------------------
Dispatching == {"dispatch", "enqueue", "push"}

DataOK ==
  /\ captured \in Nat /\ packetQueue \in Seq(Nat) /\ batch \in Seq(Nat)
  /\ emitted \in Nat /\ eventQueue \in Seq(Nat) /\ refused \in SUBSET Nat
  /\ work \in Seq(Nat) /\ item \in Nat
  /\ rows \in Seq(Nat) /\ csv \in Seq(Nat)
  /\ excluded \in SUBSET Nat /\ lost \in SUBSET Nat
  /\ option \in Nat

ControlOK ==
  /\ cpc \in {"run", "done"}
  /\ apc \in {"swap", "test", "sleep", "wait", "lock", "dispatch", "enqueue", "push",
              "cleanup", "dispose", "done"}
  /\ cmd \in {"access", FPLogout}
  /\ ppc \in {"lockq", "swap", "health", "test", "sleep", "wait", "connect",
              "exclusion", "reload", "insert", "alert", "csv", "done"}
  /\ mpc \in {"second", "minute", "check", "stop_processor", "signal", "join",
              "stop_threads", "return", "exit"}
  /\ pmutex \in {"none", "analyzer", "processor"}
  /\ settings \in {"none", "analyzer", "processor"}

FlagsOK ==
  /\ cterm \in BOOLEAN /\ aterm \in BOOLEAN /\ pterm \in BOOLEAN
  /\ cleanup \in BOOLEAN /\ connected \in BOOLEAN /\ sigterm \in BOOLEAN

QueuesBounded == Len(packetQueue) <= PacketLimit /\ Len(eventQueue) <= EventLimit

(* The type of every variable; in particular neither queue outgrows its    *)
(* limit, whoever pushes. (CaptureThread::analize, emit_event)             *)
TypeOK == DataOK /\ ControlOK /\ FlagsOK /\ QueuesBounded

Increasing(s) == \A i, j \in 1..Len(s) : i < j => s[i] < s[j]
Before(s, t) == \A i \in 1..Len(s), j \in 1..Len(t) : s[i] < t[j]

(* Events keep the order of their emission from the queue to the table:    *)
(* whatever the locks, lost wakeups and failures, no event is stored twice *)
(* or after a later one. (emit_event, EventProcessor::run)                 *)
InOrder ==
  /\ Increasing(rows) /\ Increasing(work) /\ Increasing(eventQueue)
  /\ Before(rows, work) /\ Before(rows, eventQueue) /\ Before(work, eventQueue)

(* Conservation: every event is in exactly one place, and an event that is *)
(* not stored and no longer on its way was refused by a full queue (or by  *)
(* the unlocked push), excluded by a rule, or in a batch that a database   *)
(* error abandoned. Nothing else loses an event, shutdown aside.           *)
Places == <<SetOf(rows), SetOf(work), SetOf(eventQueue), refused, excluded, lost>>
Accounted ==
  /\ UNION {Places[k] : k \in 1..6} = 1..emitted
  /\ \A k, l \in 1..6 : k # l => Places[k] \intersect Places[l] = {}

(* The table keeps the order of emission, and the archive follows it: a    *)
(* line is written only for a stored row, once, in the table's order, and  *)
(* never ahead of the table. (emit_event, writecsv after the insert)       *)
CsvFollowsTable ==
  /\ InOrder
  /\ Increasing(csv) /\ SetOf(csv) \subseteq SetOf(rows)
  /\ Len(csv) > 0 /\ item # 0 => csv[Len(csv)] < item

(* "The caller must lock": no thread touches the event queue without its   *)
(* mutex. (the comment in emit_event; the AFP logout breaks it)            *)
QueueIsLocked ==
  /\ apc = "push" => pmutex = "analyzer"
  /\ ppc = "swap" => pmutex = "processor"

(* The lock of the options has one holder, which is where the code says;   *)
(* no path, the failing ones included, leaves it held.                     *)
SettingsOwner ==
  /\ settings = "analyzer" <=> apc \in Dispatching
  /\ settings = "processor" <=> ppc = "reload"

(* A batch of packets is analysed under one set of options: everysecond    *)
(* never swaps them in the middle.                                         *)
OptionsFixedDuringBatch ==
  [][(apc \in Dispatching) => (option' = option)]_vars

(* Neither the insert nor what follows it runs on a closed connection,     *)
(* although the health check before it may have just closed it.            *)
ConnectedWhenStoring ==
  ppc \in {"exclusion", "reload", "insert", "alert", "csv"} => connected

(* An event that is in the queue leaves it, lost wakeups or not: the       *)
(* processor's wait is timed. Only a processor that was told to stop may   *)
(* leave events behind.                                                    *)
EventsLeaveQueue ==
  \A e \in 1..MaxEvents :
    e \in SetOf(eventQueue) ~> (e \notin SetOf(eventQueue) \/ ppc = "done")

(* A packet that is in the queue is analysed, although the analyzer's wait *)
(* is not timed and the signal of the capture thread can be lost: the main *)
(* loop signals again every minute, until it ends.                         *)
PacketsAreAnalysed ==
  \A p \in 1..MaxPackets :
    p \in SetOf(packetQueue) ~>
      (p \notin SetOf(packetQueue) \/ mpc \notin {"second", "minute", "check"})

(* What was queued is dealt with, in both queues.                          *)
QueuesDrain == EventsLeaveQueue /\ PacketsAreAnalysed

(* SIGTERM ends the process, once traffic pauses: the signal of stop() may *)
(* be lost but the wait it should interrupt is timed.                      *)
ShutdownCompletes == sigterm ~> mpc = "exit"

(* The pipeline implements the ordered, lossy log.                         *)
Trail == INSTANCE AuditTrail WITH
  pending <- SetOf(work) \union SetOf(eventQueue), trail <- rows
ImplementsAuditTrail == Trail!Spec
=============================================================================

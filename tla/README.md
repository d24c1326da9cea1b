# cw2_server: a TLA+ model

`cw2_server` is a packet capture daemon that audits a file server: it sniffs the
network, follows the SMB, SMB2, AFP and NFS conversations it sees, and turns them
into events ("user u on client c wrote file f") that it stores in a MySQL table
and in CSV archives. This directory models its control.

## 1. Inventory

| Component | Source | State | Operations | What makes it correct |
|---|---|---|---|---|
| Capture thread | `cw_server.cpp` 138-288 | pcap handle, packet number | read a packet, number it, append it to the packet queue or drop it | packets are numbered and queued in order, the queue stays under its limit |
| Packet analyzer thread | `cw_analizer.cpp` 720-783 | packet queue, `_cleanup` | swap the queue out, dispatch the batch under the options' lock, dispose of old sessions | every queued packet is analysed, under one set of options |
| IP/TCP sessions | `cw_analizer.cpp` 38-77, 250-715 | map of sessions, their two streams, `FIN_received` | create, reassemble, close, dispose | no byte is analysed twice; a closed session is disposed of |
| SMB1 and SMB2 dispatchers | `cw_analizer_smb.cpp` | per connection: the last requests, tree connects, users, trees, open files | match an answer to its request, follow the open files, emit events | what the server's answer shows is reported once, then, with the path it has on the server, and nothing else is |
| AFP dispatcher | `cw_analizer_afp.cpp` | the last request, user, volume, folders by id, open forks | same, and climb the folders to make a path | same |
| NFS and RPC dispatcher | `cw_analizer_nfs.cpp` | ports, the last call of a connection, paths of file handles | follow the port mapper and the mounts, log operations | a line of the log is of the operation that was answered |
| Event processor thread | `cw_output.cpp` 989-1162 | event queue, database handle, exclusion rules, alert tables | swap the queue out, check the database, filter, insert, alert, archive | order, no duplicates, every loss accounted for |
| Exclusion rules and alerts | `cw_server.cpp` 369-491, `cw_output.cpp` 539-650 | two tables of exclusions, one of alert rules, the time of each refresh | refresh, exclude an event, mark a stored one | a rule is in use an interval after its edit, whatever a refresh met |
| Automatic deletion | `cw_output.cpp` 905-986 | none (reads and deletes table rows) | binary search of the first row to keep, delete below it | never deletes a row that is young enough |
| CSV archive | `cw_output.cpp` 40-184 | open file, file number, line number; on disk the numbered files and `latest` | append a line, rotate, reopen after a restart | no line overwritten, files filled in order, one header per file |
| Log service, log rotation | `TheServer.cpp` 232-276, `LogThread.cpp` | log queue, log file and its predecessors | queue a line, write lines, rotate the file | lines written in order and before the process ends; a rotation loses the oldest log only |
| Configuration | `cw_server.cpp` 511-617 | settings of three files, their times, the command line's options | look at the files every second, read those that changed | a change is in effect a round later; the command line's options hold |
| Main thread | `TheServer.cpp` 117-226, 300-318, `cw_server.cpp` 511-617, 771-868 | options, `_sigterm` | reload, request the cleanup, start and stop the threads | options never change under a reader; SIGTERM ends the process |
| Synchronisation | `common/event.cpp`, `common/mutex.h`, `common/thread.cpp` | condition variable, mutex, `_running`, `_terminate` | wait, signal, lock, start, stop, join | no thread waits for ever |
| Database layer | `db/` | handle, statement | connect, prepare, execute, commit | errors are reported |
| Calendar | `common/calendar.cpp` | none | day number to date and back | inverse functions |
| Support code | `common/`, `main.cpp`, `DumpPacket.cpp`, `cw_lookup.cpp`, `sqlite/` | - | text, paths, options, dumps | not modelled (section 8) |

How they interact:

```
 network -> CaptureThread --packet queue--> PacketAnalyzerThread --event queue--> EventProcessor -> logfile (MySQL)
                                             | sessions, dispatchers                          \-> CSV archive
 every thread --log queue--> LogThread -> cw.log
 main thread: options (one lock), the cleanup request, start/stop/join, SIGTERM
```

The hard parts are the threads that meet at four mutexes and four condition
variables, the errors of the database and of the file system in the middle of a
batch, the packets that are lost, repeated and reordered on the wire, and the
restart of the daemon on files a previous run left behind. PROJECT.json lists the
hazards with the line where each one bites.

## 2. Plan

The order is that of the damage a fault would do: first what happens to every
event (threads, queues, errors), then where the events go (archive, deletion),
then where they come from (packets, sessions, protocols), then the rest.

| # | Module | State | Built on |
|---|---|---|---|
| 1 | `AuditTrail` | abstract: an ordered log that may lose events but never repeats or reorders them | - |
| 2 | `EventPipeline` | capture, analyzer, processor and main threads, both queues, the options' lock | implements `AuditTrail` |
| 3 | `CsvArchive` | the archive's files and counters | the archive step of `EventPipeline` |
| 4 | `AutoDelete` | the table's rows by id, the search | `Calendar` is the function behind its dates |
| 5 | `Calendar` | pure: day number and date | - |
| 6 | `IpSessions` | the entry of a pair of ports | a packet of `EventPipeline` |
| 7 | `LogService`, `LogRotation` | log queue, log thread, signal handler; log files | - |
| 8 | `Smb2Session` | requests by message id, file states, trees | a message of `IpSessions`, an event of `EventPipeline` |
| 9 | `Smb1Session` | requests by multiplex id, users with their trees and files | same |
| 10 | `AfpSession` | the last request, directory ids, forks | same |
| 11 | `NfsSession` | RPC calls by xid, port map, handles | same |
| 12 | `EventRules` | exclusion and alert tables with their refresh times | the insert of `EventPipeline` |
| 13 | `ConfigReload` | files, their times, options of the command line | the main thread's second of `EventPipeline` |

All of them exist. The dispatchers share an abstract specification: a file server as
its clients see it, whose answers are facts, of which the events have to be a faithful
account; each of the four modules contains it as the second half of its variables.
What is left: a model of the reference counts that events cross threads with.

Every module takes its limits as constants with a named assumption, has one action
per step that another thread or a failure can come before, and no recursive
operator, so that it can be proved about as well as checked. The `MC*` modules
choose values for TLC and put beside each other what one run checks; they replace no
definition. The definitions whose names contain an underscore, such as
`PAbandon_Retry`, are plausible bugs in the definition of the same name, written
before it; they take part in no specification, and each shows that a property would
notice it.

## 3. Modules and code

### EventPipeline, AuditTrail

An action is what a thread does between two points where another thread can see or
change what it works on: the lock, the swap, the test of the flag, going to sleep,
the push of one event, the insert of one row. `apc`, `ppc`, `cpc` and `mpc` are the
control points of the four threads; `packetQueue`, `eventQueue`, `batch` and `work`
are the two queues and the local lists they are swapped into; `pmutex` and
`settings` are the owners of the event queue's mutex and of the options' lock.
Packets and events are numbers in the order they came. `Event::wait` uses a mutex
nobody else takes (`common/event.cpp:54-73`), so a signal is lost unless the thread
is inside the wait; every `...Wait` and `...Signal` action says so. A database error
is a choice at every statement, an archive that cannot be opened a choice at every
line.

`AuditTrail` is the promise: events are emitted, and each is recorded, in order, or
is lost for good. `ImplementsAuditTrail` maps the table to the record and the queue
together with the local list to what is pending.

### CsvArchive

One action per system call or run of buffered writes of `csvwriter_t::write`
(`cw_output.cpp:67-184`), with `pc` between them, so that the process may end
(`Kill`) between any two and start again (`Restart`). A file is a sequence of lines,
`latest` is absent, empty or a number. Each of these may fail, and the code goes on as
the model does: the directory, the open of `latest` for reading (an existing file is then
taken for absent: `MissLatest`), its creation, its truncation and its writes, the open or
`fstat` of the file whose lines are counted (`CountLines`), the `fopen`, and the write of
the line (lost whole, and counted: `AppendLine`). Not modelled: a `read` that fails
on a file that was opened (the number of `latest` would come from `tmp[-1]`, which is
undefined), a short read, and a write of which only a part arrives. `damaged` is
the history of days whose `latest` failed, `uncounted` of the lines not counted.

### AutoDelete, Calendar

`table` is a function from the ids there are to the day of their row. `Insert`
stores a row of today, `Burn` uses an id up without a row, `Import` stores a row of
an earlier day (file mode), `NewDay` passes. `Begin`, `Search` (one probe) and
`Delete` are `EventProcessor::autodelete`, and `DBError` may end it anywhere. `rested` says
that more than ten seconds have passed since `db_last_access` (`cw_output.cpp:1011`): only
then is the database checked and `autodelete` called, and no batch is stored before;
a batch sets the time again (1139), and `Rest` is the passing of ten seconds without one.
`Calendar` has both directions of `common/calendar.cpp` as operators and a state
machine that counts the days one at a time by the Gregorian rule, which the
conversions have to follow.

### IpSessions

The entry of `_ip_session_map` for one pair of ports, since entries never touch each
other. A stream is a sequence of units, a message some consecutive ones; packets cut
it anywhere. `Dispatch` is `dispatch_ip_packet` as a whole (lookup, FIN, target
check, sequence check, append, the one call of a dispatcher, what it leaves in the
buffer, the mark and the erasure), since it runs under one lock and shares its state
with nothing but the disposal, which is the same thread's. `Analysed`, `Left` and
`Marked` are the part of the dispatchers this interface sees: how many whole messages
one call takes, what the return value removes, whether the session is kept. An answer of -1 to a whole
message (the scenario's `refused`, `TurnedDown`) clears the messages behind it too.
`WireNumber` is a number as it is sent, `BE4` as it is read: the shift of an `int`
(`common/mem.h:31`) extends the sign where `unsigned long` is wider than 32 bits, and the sum
of `cw_analizer.cpp:482` does not.

### LogService, LogRotation

`LogService`: `log_print` on a thread that stands for all that log while the server runs,
and on the main thread (lock, then put and signal), the log thread
(lock, swap, test, sleep, write), the handler of SIGTERM on whichever thread it
interrupts, and the main thread's last steps. `LogRotation`: each call of the rotation.

### Smb2Session, Smb1Session, AfpSession

The dispatchers are deterministic functions of the messages they are shown, so the
interest is in what they are shown. Each module has two halves. The first is the
dispatcher: its maps with their limits, and one operator per request and per answer it
looks at, `OnRequest` and `OnResponse`, as a whole, since it runs on one thread. The
second is a client and a file server: the client has up to `window` requests under way,
the server answers in any order, refuses some, gives ids again after they are free; the
capture misses messages, or begins when the connection is long in use. `facts` is
what an answer means to the two hosts, `events` what the dispatcher reports in the same
step. `odd` records the unusual things that have happened, so that a property names
exactly the cases it leaves out; the dispatchers do have no defence against them, and
section 7 says what happens then.

Names of files are values; the texts that the code compares (pipes, the separator, the
empty name `NoName`) are kept, UTF-16 and password fields are not. In `AfpSession` a folder is an
entry with its parent, and `PathOf` climbs the table as `get_folder` does. A message
that the code leaves in the buffer because it is too short (`held`) stays there until the
next one.

### NfsSession

Messages of the port mapper, of the mount service and of the file server on up to three
connections; the last call of each, the ports found out, the handles with their paths. The
dispatcher emits no event, it only logs: `lines` is what it says, `facts` the operation the
answer was for.
`AnswerTo` is the answer to one call, read as the answer to the call the session
remembers; `Answer` chooses the call, its outcome and what a session without a call holds.

### EventRules

The processor's `_exclusion_info` and `_alert_target_map` with the times that decide about
their refresh, and for each event of a batch the steps refresh, exclude or insert, refresh
the alert rules, mark. The age of the alert rules is tested once for an event
(`MakeAlertInfo`); they may be read and used any time later. A query may throw at any of them (`DBError`: the tables keep what
was fetched before) or end early without an error, since a failed fetch looks like the
last row. The clock and an editor of the rules go on between any two steps. A path is a
sequence of parts; the four ways to compare it are those of the code.

### ConfigReload

`everysecond`: for each of the three files `stat`, `open`, and the read with its `fstat`, and an
editor that writes in place (in two steps) or replaces a file between any two of them.
Times are whole seconds. `hidden` is the history of files whose change no time shows.

## 4. Runs

Components that do not interact share a run: their variables stand beside each other,
`part` is chosen in the initial state and never changes, and an execution is one of a single
part, so the run's state space is the sum of theirs.

| Run | What it shows | Bounds, and why they are enough |
|---|---|---|
| `pipeline_safety` | order, accounting, locks and the refinement under every interleaving, with lost wakeups, full queues and errors | 3 events, queue of 2: a batch that breaks in the middle with one event before and one behind it, and a queue that is full; one packet, so the queue of one is empty and full; one reload |
| `pipeline_live` | queued events and packets are taken, SIGTERM ends the process | 2 packets: one whose signal is lost and one behind it |
| `pipeline_logout` | violation: the AFP logout pushes without the lock | one event |
| `archive_safety` | the files over rotations, two days, restarts and failures | files of 3 lines and 7 records: two rotations, a reopened file in the middle of its lines; 2 failures or ends, so that one can hit the recovery from another, such as a `latest` that cannot be opened after a restart |
| `archive_numbers` | violation: 0.csv | one end of the process |
| `rules` | rules are at most an interval old when they are used | two events of three kinds in a batch, an exclusion of each table, two alert rules that watch one path in common; times 0 to 4 with an interval of 1 see two refreshes and one between; one edit and one failure, anywhere |
| `delete` | no young row goes, the search ends, old rows go; beside it both conversions of dates | 6 ids: up to three probes in a row; one id missing anywhere, one imported row, one error; 4 days make rows that are old, just not old, and of today. The calendar: every day of 1895 to 2105, with the exceptions of 1900 and 2100 and the exception of the exception 2000 |
| `sessions` | nothing is analysed twice, made up or lost without a fault; which sessions the disposal takes | nine scenarios (`MCIpSessions`): losses with a logoff and a reload over two connections, a gap among three messages, a reuse of the ports, the wrap of the numbers for two protocols, the middle of the number space with a first message that is answered with -1 for two protocols, five hours around a timeout of two, every fault at once. A message has 3 units of which 2 are needed to recognise it, packets have 1 to 4. Numbers on the wire are modulo 32, `unsigned long` modulo 1024, wider as on a 64-bit Linux |
| `log` | changed files are in effect a round later; beside it log lines are written once and in order and SIGTERM ends the process outside of two windows; and a rotation loses the oldest log only | three seconds and one edit in one step or two: a file read before, during and after it, in the same second and later; queue of 3, line numbers modulo 7, which tells the at most 6 waiting lines apart; 3 old files and 7 logs, two ends, two failures |
| `log_sigterm` | violation: one of the windows is met | queue of 3 |
| `smb2_nfs` | what the two dispatchers report is what happened | eleven scenarios of SMB2 and seven of NFS, 3 to 7 requests and up to 4 under way at once, one more than are remembered (3 instead of 10); two ids of every kind, so that a wrong match shows, and fewer than there are requests, so that they are given again |
| `smb1_afp` | same | twelve scenarios of SMB1 and ten of AFP, 4 to 6 requests; folders four levels deep where three can be climbed, four folders in a map of two |

A scenario (`MCSmb1Session`, `MCSmb2Session`, `AfpScenarios`, `NfsScenarios`, `MCIpSessions`)
is an initial value of `scenario` that never changes and says what the hosts may do and how
often: all kinds of requests at once would be out of reach, and what the dispatchers get wrong
takes three or four requests of the same few kinds.

The properties each run checks (`PROJECT.json` says more of each, and names the bugs that break it):

| Run | Properties |
|---|---|
| `pipeline_safety` | `TypeOK`, `Accounted`, `CsvFollowsTable`, `ConnectedWhenStoring`, `OptionsFixedDuringBatch`, `ImplementsAuditTrail` |
| `pipeline_live` | `QueuesDrain`, `ShutdownCompletes` |
| `pipeline_logout` | `QueueIsLocked` |
| `archive_safety` | `TypeOK`, `DayOrder`, `FileBounded`, `AppendOnly` |
| `archive_numbers` | `NumberedFromOne` |
| `rules` | `TypeOK`, `ExcludedNotStored`, `NothingHidden`, `MarkedByRules` |
| `delete` | `TypeOK`, `CalendarExact`, `OnlyOldDeleted`, `AtMostOneOldLeft`, `OldRowsGo` |
| `sessions` | `TypeOK`, `Genuine`, `NothingLost`, `OnceEach`, `FirstSessionKept`, `EndedSessionsGo` |
| `log` | `TypeOK`, `LoadedIsCurrent`, `OptionsHold`, `ChangesTakeEffect`, `LinesInOrder`, `LogIsLive`, `NewestKept` |
| `log_sigterm` | `SigtermEnds` |
| `smb2_nfs` | `Reported`, `NoneInvented`, `TablesInStep` |
| `smb1_afp` | `Reported`, `NoneInvented`, `TablesInStep` |

For the dispatchers, `Reported` is that as long as nothing unusual happens `events = facts`
in every step (SMB2: but for refused log ins, `Unseen`; NFS: what was due is logged); `NoneInvented`, that gaps, refusals and a
capture that begins late take reports or names away and never add a report or bytes to
one; `TablesInStep`, that the maps are the server's, with the types of the two modules.
Deadlock is not checked where the system may
stop, after the end of the process, when a bound is used up, or when every packet has been
sent. The real limits (10000 events, 500000 packets, 100000 log lines, 10000 lines of a
file, 10 requests, 100 folders in a map) are constants; the behaviour at a limit is that
of a small one. `Prompt` in `LogService` is the one place where the size matters: with 3
lines a queue could fill up between two steps of the log thread, after which no line
would be signalled and the thread would sleep for ever; with 100000 it cannot in practice,
and the run leaves that case out.

## 5. Fairness

- `EventPipeline`: each thread that can run again and again does run
  (`SF` for the analyzer, the processor, the main thread and its minute's work: a
  thread waits for mutexes that others hold briefly, which makes the step enabled
  again and again, not always). Packets, errors, reloads and SIGTERM are not fair:
  none of them has to happen. The processor's sleep has a timeout
  (`cw_output.cpp:1044`), the analyzer's has none: what wakes it in the end is the
  main thread's signal every minute (`cw_server.cpp:547`).
- `AutoDelete`: the thread that searches goes on, and a processor that has rested for more
  than ten seconds checks the database when it wakes, at the latest after its wait of ten
  minutes. That it rests is not assumed (`Rest` has no fairness): `OldRowsGo` says that old
  rows go if it rests again and again.
- `IpSessions`: the disposal is requested every minute.
- `LogService`: each thread runs; the processor logs a health check every ten minutes,
  which is why a line left in the queue is written in the end.
- `ConfigReload`: the main loop turns, and an edit that was begun is completed; edits
  themselves need not happen.

## 6. Proofs

TLAPS checks the theorems for every value of the constants that satisfies the named
assumptions; nothing else is assumed.

| Module | Theorem | Property | What it establishes |
|---|---|---|---|
| `EventPipeline_proofs` | `TypeCorrect` | `TypeOK` | Every variable keeps its type and neither queue outgrows its limit, for all limits and bounds. |
| `EventPipeline_proofs` | `SettingsOwned` | - | The lock of the options is held exactly while packets are dispatched or the exclusion rules are reloaded, and no error path leaves it held. |
| `EventPipeline_proofs` | `OptionsFixed` | `OptionsFixedDuringBatch` | The main thread never swaps the options while a batch of packets is dispatched. |
| `EventPipeline_proofs` | `StoredInOrder` | - | Events reach the table in the order they were emitted and at most once. |
| `EventPipeline_proofs` | `ArchiveFollows` | `CsvFollowsTable` | The table is in the order of emission; the archive has each line once, in that order, and only for rows that are stored. |
| `EventPipeline_proofs` | `StoringIsConnected` | `ConnectedWhenStoring` | Nothing is stored on a connection that the health check closed. |
| `EventPipeline_proofs` | `EventsAccounted` | `Accounted` | An emitted event is stored, on its way, or was lost in one of the three ways the code has. |
| `EventPipeline_proofs` | `PipelineImplementsAuditTrail` | `ImplementsAuditTrail` | The pipeline implements the abstract ordered, lossy log. |
| `CsvArchive_proofs` | `TypeCorrect` | `TypeOK` | Every variable keeps its type for every limit, number of days and bound on ends and failures. |
| `CsvArchive_proofs` | `LinesStay` | `AppendOnly` | No step, the restart and every failure included, removes or changes a line of a file. |
| `CsvArchive_proofs` | `FilesBounded` | `FileBounded` | No file of a day whose `latest` was always opened and written holds more than its limit of lines, its header, one line for each end or failed call and the lines that could not be counted when it was opened; and its header is its first line and no other. |
| `CsvArchive_proofs` | `RecordsInOrder` | `DayOrder` | The records of a day are in the day's files in the order they were stored, each at most once and in a file of its day; the order is left out for a day whose `latest` could not be opened or written, or whose write was cut off. |
| `CsvArchive_proofs` | `HeadersOnce` | - | A header is the first line of a file and no other. |
| `AutoDelete_proofs` | `TypeCorrect` | `TypeOK` | Every variable keeps its type for every number of ids, of days and of days to keep. |
| `AutoDelete_proofs` | `SearchIsSound` | - | The search never moves its lower end past a row that is young enough, whatever ids are missing. |
| `AutoDelete_proofs` | `YoungRowsStay` | `OnlyOldDeleted` | The deletion removes no row younger than the days to keep, as long as no older capture was stored. |
| `AutoDelete_proofs` | `OneOldRowLeft` | `AtMostOneOldLeft` | A deletion from a table without gaps, stored in the order of its dates, leaves at most one of the old rows, wherever the border between old and young lies. |
| `AutoDelete_proofs` | `ConversionsExact` | `CalendarExact` | Both conversions of dates are exact and each the inverse of the other, on every day from the year 1 on. |
| `IpSessions_proofs` | `TypeCorrect` | `TypeOK` | Every variable keeps its type and the table has one session of the two ports at most, for all lengths of messages, moduli, timeouts and scenarios. |
| `IpSessions_proofs` | `AnalysedOnce` | `OnceEach` | No message is analysed twice when nothing is retransmitted, whatever is lost, forgotten, reloaded or reused. |
| `IpSessions_proofs` | `OnlyForgottenSessionsGo` | `FirstSessionKept` | The disposal takes only a session that ended or was silent for the timeout, while one connection uses the ports and the clock is not set back. |
| `IpSessions_proofs` | `NeverSpliced` | `Genuine` | With one gap at most, what is analysed is a message that was sent and never a splice, for all lengths of messages and packets, every width of unsigned long and every scenario whose sequence numbers can tell the gap; where unsigned long is wider than the numbers, their way over the middle of their space counts as a gap. |
| `IpSessions_proofs` | `AllAccountedFor` | `NothingLost` | Without a gap everything that was sent was analysed or is in the buffer, across the wrap of the sequence numbers and at every border of messages and packets, for every width of unsigned long; left out are messages a dispatcher turns down, and numbers that go over the middle of their space into a wider unsigned long. |
| `EventRules_proofs` | `RulesTyped` | `TypeOK` | Every variable keeps its type and no table has a time of the future, for all events, rules and bounds. |
| `EventRules_proofs` | `ExcludedEvents` | `ExcludedNotStored` | An event is not stored when a row excludes it that is older than the interval, whatever errors the refresh met, short reads within the interval apart. |
| `EventRules_proofs` | `DroppedForARow` | `NothingHidden` | An event is dropped only for a row that was in the database within the interval before its batch, or later. |
| `EventRules_proofs` | `MarkedEvents` | `MarkedByRules` | The mark of a stored event is that of the last rule that watches it, by rules that were read within an interval before their age was tested for it, unless a read within the interval failed. |
| `ConfigReload_proofs` | `SettingsTyped` | `TypeOK` | Every variable keeps its type, and no time in memory is of the future. |
| `ConfigReload_proofs` | `SettingsCurrent` | `LoadedIsCurrent` | After a round the settings are those of every file that has not changed since, except changes that no time shows and reads that failed. |
| `ConfigReload_proofs` | `CommandLineHolds` | `OptionsHold` | The options of the command line hold until the ini file is edited, and no file of servers is read before. |
| `ConfigReload_proofs` | `QueueKeepsOrder` | `LinesInOrder` | Of the lines that entered the log's queue each is written once and in order, for every limit and every modulus of the line numbers. |
| `ConfigReload_proofs` | `RotationKeepsNewest` | `NewestKept` | Between rotations the last N + 1 logs are there but for one per end of the process and one per failed rename, and while no rename failed a log that goes is the oldest, for every number of logs, ends and failures. |
| `Smb2Session_proofs` | `ReportedHolds` | `Reported` | As long as nothing unusual happens an SMB2 event is reported exactly when the server's answer shows it, and as it happened, but for refused log ins, of which those for a wrong password are reported, and only where unsigned long has 32 bits; with one NFS call at a time and writes of one segment each operation seen on a known file is logged: for any ids, names, users, shares, limits and scenarios. |
| `Smb2Session_proofs` | `FilesFollowed` | - | As long as nothing unusual happens the SMB2 dispatcher's table of open files is the server's, with names, marks and bytes, however ids are given again. |
| `Smb2Session_proofs` | `NoneInventedHolds` | `NoneInvented` | No SMB2 event is reported that did not happen, nor with another's user or share or too many bytes, and no NFS operation is logged that was not answered or under a path that is not the end of its file's, whatever is missed, refused, forgotten or under way, but for the cases the properties name: for any sets, limits and scenarios. |
| `Smb2Session_proofs` | `TablesHold` | `TablesInStep` | The tables of both dispatchers keep their types and agree with the servers': SMB2's files and trees by name, the names of NFS file handles as the end of their paths, or all of it on a connection known from its beginning, for every tree of files, limit and scenario. |
| `Smb1Session_proofs` | `Smb1Sound` | - | Whatever the hosts do and the capture misses, the SMB1 dispatcher's copy of users, trees and files stays sound, and its reports are those of what happened but for the cases the property names. |
| `Smb1Session_proofs` | `Smb1Follows` | - | Of SMB1, the three properties of the run: exact reports and tables in step until something unusual happens, and nothing invented whatever happens but in the cases named, for any ids, users, shares, names, scenarios and limit of what is remembered. |
| `Smb1Session_proofs` | `AfpFollowsHosts` | - | The same of AFP, with what is known of users, forks and folders, for any names, forks, tree of folders, size and number of maps, levels that are climbed and scenarios. |
| `Smb1Session_proofs` | `Smb1AfpReported` | `Reported` | Until something unusual happens, what an answer of SMB1 or of AFP tells is reported in that step as it happened, with the full path, and nothing else is. |
| `Smb1Session_proofs` | `Smb1AfpNoneInvented` | `NoneInvented` | Whatever is missed, refused, forgotten or under way, every event is one that happened, with its user or none, the end of its path and no more bytes, but for the cases the properties name. |
| `Smb1Session_proofs` | `Smb1AfpTables` | `TablesInStep` | The tables of both dispatchers keep their types and their sizes, are the hosts' until something unusual happens, and an entry of AFP's table of folders is a true one unless folders were renamed. |

- `EventPipeline_proofs`: `TypeCorrect` is a conjunction of four parts that are each
  inductive, the limits of the queues with the types. `SettingsOwned` is inductive as it
  stands, and `OptionsFixed` follows from it: the only step that changes the options
  needs a lock the analyzer holds during a batch. `InOrder` and `Accounted` are not
  inductive: nothing in them says that the local list is empty when the processor swaps
  the queue into it. `EventsInv` adds that (`WorkDone`) and the types of the sequences.
  `ArchiveFollows` adds to it that the item at hand exists exactly between its insert and
  its line and is younger than the whole archive (`ItemHeld`, `ArchiveBehind`).
  `StoringIsConnected` is inductive as it stands.
  The refinement maps a push to an emission, a stored row to a record, and an event
  refused by a full queue, excluded or abandoned to a loss; it needs `EmitRoom` besides,
  which keeps the emission's bound.
- `CsvArchive_proofs`: `TypeInv` strengthens `TypeOK` with what the open handle says of
  the file number; `LinesStay` says that all a step can do to a file is to append, and
  `HeadersOnce` follows because a header is appended only at position one. For the order
  `ArchiveInv` adds, day by day, as long as no open or write of `latest` failed or was cut off (`DayOK`): no file
  lies beyond the number in `latest`, only the last one has room, and what is stored is
  older than the record at hand; a restart comes back to that file. Where the writer
  stands is `StateOK`, one conjunct per control point.
- `AutoDelete_proofs`: as long as no older capture was stored the ids are in the order of
  their days (`Ordered`), and with that `SearchSound` is inductive: the lower end moves only
  to a row that was found old, and every row before it is then old. `YoungRowsStay` is the
  action property. `OneOldRowLeft` adds the other end: in a table without gaps the rows from
  the upper end on are young (`Bisection`), so that the search stops beside the border.
  `ConversionsExact` does not follow the code's sums over centuries one by one: the day
  number of a date is split at its 400, 100, 4 and 1 years, and each division gives back the
  number of whole ones. It assumes that the first day is the number of January 1st of the
  first year (`CalendarAssumption`, which the run evaluates).
- `IpSessions_proofs`: how many whole messages a buffer begins with is a `CHOOSE`; that such a
  number exists is shown by a least counterexample (`Minimum`). `AnalysedOnce` needs
  `Sequenced`: without retransmissions the units of each buffer stand in the order they were
  sent, all before the next unit of their direction and after the header of every message
  analysed so far. A packet that does not fit replaces the buffer and keeps that, which is
  why losses and reuse of the ports are no exception. `NeverSpliced` needs `Reassembled`: a
  buffer is a run of units that were sent one after the other, and the stream's number is
  that of the next unit, or differs from it, so that the gap is seen. Behind a gap the
  number of the next packet is taken unseen, and a second gap then would splice; that is
  why the invariant, and the property, speak of one gap. The proof showed that a time
  as no target is a gap too: `OneGap` counts lost packets and reuses of the ports and admits
  one change of the targets, where an earlier form admitted two and TLC found the splice.
  `AllAccountedFor` needs `HeldInv`: without a gap each buffer begins with a message, all
  messages before it have been analysed, and the session is marked, so that neither a
  dispatcher nor the disposal drops it. Both assume of the numbers only that
  they are more than a packet is long and tell two connections on the same ports apart
  (`SpacesAssumption`, which the run evaluates); `unsigned long` may be as wide as they are or
  wider. When it is wider, the way over the middle of the space, 2^31, is a gap that only
  the code sees: `AllAccountedFor` leaves such connections out, and one that gets by without
  is `Straight`; `NeverSpliced` counts the middle as the one gap. The wrap at 2^32 is none,
  since the extended sign wraps with it (`NumberMoves`, `Borders`). `OnlyForgottenSessionsGo` needs
  `Times`: the time of a session lies between the last packet and the clock.
- `EventRules_proofs`: `IInv` says of each table what the time kept beside it means: unless a
  read ended early, the table has the rows that were there before that time and only rows
  that were there at it or later; while a refresh runs that is true of the tables it has
  been through, for the time it began at. The order in which the time and the tables are
  set is what makes it inductive.
- `ConfigReload_proofs`: `IInv` says of each file that a file whose time is not newer than the
  one in memory is the one in memory, or its change is hidden; of the current second, what
  was opened and what was changed in it; and of the ini file, that nothing reads it before
  an edit. `QueueKeepsOrder` is about the log queue: the lines that wait are numbered one after
  another (`Numbered`); the swap keeps that only because the log thread has written all it took
  when it swaps again (`LogWriting`). The numbers are remainders, and what is proved of them
  is in four lemmas; of the constants it assumes only that the limit and the modulus are
  numbers and the modulus is not 0. `RotationKeepsNewest` counts: the logs that are there, the ends and
  the failed renames are together at least as many as N + 1 or the logs begun, between rotations
  and, one less, within one (`Counted`); and files with higher numbers hold older logs
  (`InOrder`), where a place that the next call overwrites is empty unless a rename has
  failed. The limits it needs are
  `RotationAssumption`; a rotation keeps at least one old file, as the daemon's does.
- `Smb2Session_proofs`: that the events of a step are its facts, but for refused log ins
  (`Unseen`), speaks of one step; what makes it inductive is `Kept`,
  which relates the two halves of the module. Each request under way has the entry its
  answer is read with, known by an id no other entry has (`Remember`, `EntryIds`), because
  an entry leaves the list only when more requests are under way than it holds, which is
  unusual; the cache has the tree connects under way and no others (`Cached`); users and
  trees have their names unless their session is about to leave (`Named`); and the file
  table is the server's (`Copied`), an open of the share itself left out. What the client
  keeps to is in `Asked`: no request uses a file or a tree that another one closes or a
  session that leaves. The attempt found two cases the properties had not named: a pipe
  opened in a tree the dispatcher does not know is reported like a file (`OnPipe`), and a
  tree connect that finds the cache full pushes out another session's. Of the scenarios
  the proof assumes only that they draw from the constants (`Smb2Assumption`). For NFS
  `NfsKept` says that the last call of a connection is the one under way that was seen, that
  no other number matches, and that the handles told on a connection have a name.
- The same module, whatever happens: `Sound` is the invariant of SMB2 for any gaps,
  refusals and overflows. `Memory` says that an entry found under the id of a request is that
  request's own (`OwnEntries`) and that the bytes counted for a file and the reads and writes
  under way are together no more than the requests made, which bounds them for `TypeOK`.
  `TreesNamed`, `UsersNamed` and `FilesFollow` say, each under its condition, that a name which
  is kept is the server's and that a file counts no more than the server did; for the
  condition to be inductive they add what must be under way while nothing went wrong, such
  as a cached tree connect for each one asked (`AllCached`) or an entry for each setup
  (`SetupsKept`). Every case the properties leave out is needed: `StaleTree`, `StaleUser` and
  `Mistaken` are histories of what TLC found when they were not there, with two gaps, with
  users that come again, or with a tree connect missed behind one whose answer never came.
- The same module, of NFS: `NfsWorld` has the types, the tree of files (every handle one entry,
  a folder before what is in it) and that a session which waits for an answer remembers
  that call (`Recalled`). A path grows by a name with each answer, so that its length and the
  calls under way are together no more than the calls made. The path of a file is a climb
  through the tree, a recursive function: that it is the folder's path and one name more
  (`TruePathIs`) and never changes (`PathsStay`) is shown by least counterexamples, since the
  library's induction takes an operator. `NfsTold` adds that every name told is the end of
  its path and what a creation or a removal was asked for is too; `NfsWhole`, for the
  connection known from its beginning, that every folder the client holds has a name, so
  that a name looked up in it stands below a whole one. For this each call must have been
  seen, which is where `NfsKept` is used again. Of the scenarios the proofs assume that their
  trees are numbered as `NfsAssumption` says, a folder before its contents.

- `Smb1Session_proofs`: `Smb1Inv` is the same argument for SMB1. `Sound` holds whatever happens:
  an entry belongs to the request whose id it has (`OwnEntries`), a name of a user or of a tree
  is the server's unless `StaleName` says why not (`UsersNamed`, `TreesNamed`), and a file that
  was opened and not misled about is the server's, with no more bytes (`FilesFollow`). `KeptInv`
  adds, until something unusual happens, that each request under way is remembered
  (`AllRemembered`) and that users, trees and files are copied exactly. The attempt found four
  cases the properties had not named, each confirmed by a trace: a setup in two steps whose
  second is sent under the id of one that is still remembered ("negotiate"); a session that logs
  off while another's files are open on its tree ("evicted"); a tree id given again while the
  dispatcher still has a name for it under another user; and a pipe, which is one only when the
  dispatcher knows its tree, at the time of the answer.
- The same module, of AFP: `AfpSound` holds whatever happens. The tree of the server is a tree
  (`GoodTree`: each folder one entry, its parent there, nothing twice in a place), with
  parents numbered below their folders unless folders were renamed (`Rising`); that makes
  the climb to the root end in fewer steps than there are ids (`WayEnds`). What the climb does is
  stated level by level (`ClimbLaw`), since it is a recursive function. A table of
  directories is well formed (`GoodTable`) and an insertion keeps it so, adds one entry,
  keeps that of the parent and drops others only when the maps are full (`Inserted`,
  `NothingDropped`). With true entries (`Truly`) a climb of the table goes the tree's way as
  far as it goes, so that a path made of it is the end of the true one (`PathPart`), and all
  of it when no entry is missing on the way and it is short enough (`PathExact`). `AfpHolds`
  says the same of what is remembered of a request: names that were made when it was sent are
  still the end of the true path when it is answered, because folders stay where they are
  (`PathStays`). The bytes of a fork and the requests under way are together no more than the
  requests made (`AfpCounts`). `AfpUsual` is the invariant until something unusual happens:
  one request under way, which is the one that is remembered (`AfpTold`), forks copied exactly,
  and every folder an answer told of in the table and marked a directory, but for one that is
  being deleted, whose mark the request has already taken (`AfpFound`). Each answer has a lemma
  of its own (`LoginStep` to `CloseStep`). The scenarios are assumed to give
  each folder a greater id than its parent's, as `AfpAssumption` says.

Only model-checked: liveness and ENABLED, which are out of the prover's reach. Every safety
property of a passing run is a theorem.

## 7. What the models found

Three runs end in a violation; PROJECT.json quotes the text each disagrees with.

1. The AFP logout locks a temporary and pushes without the lock (`cw_analizer_afp.cpp:535`).
2. An empty `latest` leads to 0.csv (`cw_output.cpp:108`).
3. The handler of SIGTERM can wait for its own thread's mutex (`TheServer.cpp:83`).

Behaviours the models show and no run is spent on. Threads, files and sessions:

- a stop can also hang because the flag and the signal fall between the log thread's test
  and its wait (`StopMissed`, `LogThread.cpp:148`); when they fall before the test but
  behind an empty swap, "server shutdown" stays unwritten;
- the deletion keeps the oldest old row when its successor is young (`cw_output.cpp:954`),
  and deletes young rows when older ones were imported behind them (`cw_output.cpp:974`);
  events that come less than ten seconds apart put the health check and with it the
  deletion off for ever (`cw_output.cpp:1011`, 1139);
- a CSV file that was reopened counts its header and gets one record less
  (`cw_output.cpp:124`); one that could not be read to be counted gets a whole file's lines
  more (`cw_output.cpp:113`), which `FileBounded` counts as `uncounted`; and a `latest` that
  could not be opened is truncated or ignored, after which the number in memory, 1 after
  a restart, names an earlier file (`cw_output.cpp:96`), a case `DayOrder` leaves out;
- the mark of a FIN outlives its connection, and a connection that uses the ports again is
  disposed of (`cw_analizer.cpp:428`), which is why `FirstSessionKept` speaks of the first;
  the data of a packet that carries a FIN is not analysed; a first packet too short to be
  recognised is lost with its session (`cw_analizer.cpp:503`); a retransmitted packet is
  analysed again; SMB2 takes one message of a segment;
- where `unsigned long` has 64 bits, a message whose packets cross the sequence number 2^31
  is dropped although nothing was lost: the number that is read has its sign extended
  (`common/mem.h:31`), the one that is expected has not (`cw_analizer.cpp:482`);
- a dispatcher's answer of -1 to one message clears all that is behind it in the buffer
  (`cw_analizer.cpp:495`), as for a setup that cannot be parsed (`cw_analizer_smb.cpp:926`);
- a failed rename loses a log (`LogThread.cpp:184`).

Rules and settings:

- the time of the alert rules is set before they are read (`cw_output.cpp:545`), so after an
  error half a table is used for an interval; `MarkedByRules` leaves that interval out;
- every insert is committed at once, so an error between the insert and the mark leaves an
  unmarked row; of several rules that watch an event the last is written; the rules that
  name a user are not compared (the call in `update_alert` is commented out);
- a reload of the ini file drops the options of the command line (`cw_server.cpp:562`); a
  second change within a second is not seen, a file put in place with an older time never,
  and a read that fails leaves the defaults, under the new time (`cw_server.cpp:559`).

SMB1 and SMB2:

- SMB1 does not report a refused log in: the answer is shorter than the code reads
  (`cw_analizer_smb.cpp:1489`); SMB2 reports one for a wrong name or password (0xc000006d) and
  none for an account that is locked, disabled or expired, and where `unsigned long` has
  64 bits none at all, since the status that is read has its sign extended (2281);
- the entries of a setup and of some other commands stay in the list of requests
  (1766-1823): when a multiplex id is used again a later answer is matched with the old
  entry; the cache of tree connects is never emptied (772);
- a create by the old SMB1 command is not reported (1580), and whether it opened a folder is
  read beyond the end of a short answer (1543, 1578);
- a deletion asked for by a disposition counts from the request on, refused or taken back
  (1204-1210); one asked for in an open is not seen by SMB1, nor is that of a folder that is
  open (1702); SMB2 takes an open with that option for the deletion;
- a write counts as the bytes asked for (1758); files that are open keep their name when
  they are renamed; a log off forgets the user before the last answers;
- a tree connect that was not seen to be answered leaves its entry in the cache of SMB2, and
  a later answer whose own request was missed gives its tree the name of that share; an id of a tree or a session
  that the server gives again keeps the old name when its answer is missed or refused, or
  its request forgotten;
- names of SMB2 have no separator in front, so that the pipes the code wants to leave out
  are not recognised by their end (2376-2384).

AFP and NFS:

- AFP remembers one request: of two under way one is lost; data of a read that met the end of
  the file is not counted; a refused deletion takes the folder out of the table of folders
  (`cw_analizer_afp.cpp:677`); a folder that was renamed keeps its old name; a folder the
  capture did not see is left out of the middle of a path without a mark (41-66); of more
  folders in an answer than a map holds some are lost although there are ten maps (149-157);
- NFS: of several messages in a segment the first is looked at; a mount tells its handle to
  its own connection, so paths on the file server's connection begin with "?" unless one
  port serves both and is known from the beginning; a creation or a removal is logged whatever its status
  (`cw_analizer_nfs.cpp:493`), a read or a write when the call was accepted; a rename is not
  followed; an unmount forgets all mounts of a connection; the xid of a new session is
  not initialised (`cw.h:357`).

## 8. Not modelled

- File mode: the main thread dispatches packets itself, without queues or locks; only what it
  stores is in `AutoDelete`. The start of the process before the threads run.
- The name lookup thread (it receives datagrams and drops them: no state), packet dumps
  and the file of the last packet (output only), the command line (parsing, and signals sent
  to another process), the Windows build.
- The database drivers: wrappers, whose errors and short answers are choices in
  `EventPipeline`, `EventRules` and `AutoDelete`.
- A whole message that a dispatcher answers with 0 since it cannot parse it stays at the head
  of the buffer; the models of the sessions have messages that can be parsed. Ids of SMB2
  sessions are distinct values: on 64 bits `LE8` loses the upper half of one whose lower
  half has its highest bit set.
- The option that leaves reads out: `on_read` then emits nothing (`cw_output.cpp:1312`). The `events` of the dispatchers' modules
  are the calls of `on_read` and its like, and `EventPipeline` begins with what they emit.
- Checksums, VLAN tags and UDP in front of `IpSessions`; the text of the settings in front of
  `ConfigReload`; text, address and wildcard functions; vendored code, which is most of the
  lines of the repository (SQLite, Unicode tables, an allocator, hashes).
- Hazards without a property: the line the log thread leaves behind at the stop
  (`LogThread.cpp:145`) and the packet that is analysed again (`cw_analizer.cpp:459`) are what
  the code does, and no text of the repository promises otherwise; threads that still run
  when `run()` returns (`cw_server.cpp:842`) and reference counts that are not atomic
  (`common/container.h:24`) need a model of the memory, as `bad_alloc` does.

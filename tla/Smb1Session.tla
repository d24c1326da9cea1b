----------------------------- MODULE Smb1Session -----------------------------
(***************************************************************************)
(* The SMB1 dispatcher of the packet analyzer (on_smb_packet) on one TCP   *)
(* connection, against a client with several requests under way, a server  *)
(* that answers in any order and a capture that may miss a message. The    *)
(* requests are named by an id that the client may use again, and by their *)
(* command; users, trees and files are kept under the user id.             *)
(***************************************************************************)
EXTENDS Integers, Sequences, FiniteSets

CONSTANTS
  Uids, Tids, Fids,  \* user, tree and file ids the server gives
  Users, Shares,     \* names
  IPC,               \* the share of the pipes
  Names,             \* names of files in a share
  Pipes,             \* the names of pipes that the code lists
  TempLimit,         \* requests that are remembered (10)
  Scenarios          \* what the hosts do, as records:
    \* start          "fresh", "mounted" or "joined": the connection is new, has
    \*                a user and a tree, or the capture began after that
    \* share, shares  the share of that tree, and those that are connected later
    \* commands       the commands the client sends
    \* requests, window, lost
    \*                bounds: requests, requests under way at once, messages missed
    \* failures       commands the server may refuse
    \* users, forms   names of users, forms of a session setup
    \* names, to      names of files, and new names of files
    \* habits         what else the hosts may do: "again", "shared", "short", "directory", "delete"

None == "none"
NoName == ""
NoTree == "tree 0"  \* the tree id in the answer to a refused tree connect
Trees == Tids \cup {NoTree}

(* An id or a name is never taken for another kind of id or for none; there*)
(* is a user for a connection that begins with one.                        *)
ASSUME Smb1Assumption ==
  /\ TempLimit \in Nat \ {0}
  /\ IPC \in Shares /\ NoName \in Users /\ NoName \notin Names /\ Pipes \subseteq Names
  /\ Uids # {} /\ Tids # {} /\ (\E u \in Users : u # NoName)
  /\ None \notin Uids \cup Users \cup Shares /\ NoTree \notin Tids /\ Shares \cap Trees = {}
  /\ \A s \in Scenarios :
       /\ s.start \in {"fresh", "mounted", "joined"} /\ s.requests \in Nat
       /\ s.share \in Shares /\ s.shares \subseteq Shares
       /\ s.users \subseteq Users /\ s.names \cup s.to \subseteq Names

VARIABLES
  temp,       \* smb_session.temp: the last requests, the newest first
  treeCache,  \* temp_tree_cache: the share a tree connect asked for, by its id
  userData,   \* user_data_map: name, trees and files of a user id
  events,     \* the events of the last message
  \* the hosts
  scenario, users, trees, files, asked, requests, lost,
  facts,      \* what the last message told, had it been read right
  odd         \* history: the kinds of unusual things that have happened

analyzer == <<temp, treeCache, userData>>
hosts == <<users, trees, files, asked, requests>>
vars == <<analyzer, events, scenario, hosts, lost, facts, odd>>

-----------------------------------------------------------------------------
NoPath == <<None, NoName>>
Blank == [cmd |-> None, id |-> 0, user |-> NoName, name |-> NoName, to |-> NoName, fid |-> None, size |-> 0]
Unknown == [known |-> FALSE, isipc |-> FALSE, isdirectory |-> FALSE, delete |-> FALSE,
            path |-> NoPath, readed |-> 0, written |-> 0]
NoUser == [known |-> FALSE, name |-> NoName, trees |-> [t \in Trees |-> None],
           files |-> [f \in Fids |-> Unknown]]
NotOpen == [open |-> FALSE, uid |-> None, tid |-> NoTree, directory |-> FALSE, delete |-> FALSE,
            path |-> NoPath, readed |-> 0, written |-> 0]
Event(op, user, path, to, size) ==
  [op |-> op, user |-> user, path |-> path, to |-> to, size |-> size]
Told(op, user, path) == Event(op, user, path, NoPath, 0)

OfNames == {"mkdir", "rmdir", "remove", "rename"}
Opens == {"ntcreate", "create", "open"}
Paths == (Shares \cup Trees \cup {None}) \X (Names \cup {NoName})
Bytes == 0..(2 * scenario.requests)
TypeOK ==
  /\ Len(temp) <= TempLimit
  /\ \A i \in DOMAIN temp : temp[i] \in
       [cmd : scenario.commands \cup {None}, id : 0..scenario.requests, user : Users,
        name : Names \cup {NoName}, to : Names \cup {NoName}, fid : Fids \cup {None}, size : 0..2]
  /\ treeCache \in [1..scenario.requests -> Shares \cup {None}]
  /\ \A u \in Uids :
       LET d == userData[u]
       IN /\ d.known \in BOOLEAN /\ d.name \in Users /\ d.trees \in [Trees -> Shares \cup {None}]
          /\ d.files \in [Fids -> [known : BOOLEAN, isipc : BOOLEAN, isdirectory : BOOLEAN,
                                   delete : BOOLEAN, path : Paths, readed : Bytes, written : Bytes]]
          /\ ~d.known => d = NoUser
  /\ events \subseteq [op : {"login", "logout", "create", "mkdir", "remove", "rmdir", "read", "write",
                             "rename"},
                       user : Users, path : Paths, to : Paths, size : Bytes]

-----------------------------------------------------------------------------
(* The dispatcher.                                                         *)

(* make_path: a tree that is not known to the user is named by its id.     *)
MakePath(u, t, name) ==
  <<IF userData[u].trees[t] = None THEN t ELSE userData[u].trees[t], name>>
IsIpc(u, t) == userData[u].trees[t] = IPC

(* smb_get_user_name: an unknown user has an empty name, as NoUser has.    *)
GetUserName(u) == userData[u].name

(* find_file_state_map.                                                    *)
FileState(u, f) == userData[u].files[f]

(* A request is put in front, and what exceeds the limit is forgotten.     *)
Pushed(e) ==
  LET q == <<e>> \o temp
  IN IF Len(q) > TempLimit THEN SubSeq(q, 1, TempLimit) ELSE q

(* The newest entry of a command and an id, as an index; 0 if none.        *)
Found(cmd, id) ==
  LET mine == {i \in DOMAIN temp : temp[i].cmd = cmd /\ temp[i].id = id}
  IN IF mine = {} THEN 0 ELSE CHOOSE i \in mine : \A j \in mine : i <= j

(* What is remembered of a request.                                        *)
Entry(r) ==
  LET e == [Blank EXCEPT !.cmd = r.cmd, !.id = r.id]
  IN CASE r.cmd = "setup" -> [e EXCEPT !.user = r.user]
       [] r.cmd \in Opens \cup OfNames -> [e EXCEPT !.name = r.name, !.to = r.to]
       [] r.cmd \in {"close", "read"} -> [e EXCEPT !.fid = r.fid]
       [] r.cmd = "write" -> [e EXCEPT !.fid = r.fid, !.size = r.size]
       [] OTHER -> e

(* Which are: of a session setup the last step, the close of a known file. *)
Remembered(r) ==
  CASE r.cmd = "setup" -> r.form # "negotiate"
    [] r.cmd = "close" -> FileState(r.uid, r.fid).known
    [] OTHER -> r.cmd \notin {"tcon", "tdis", "logoff"}

(* A session without users is erased by dispatch_ip_packet.                *)
Forget ==
  /\ temp' = <<>> /\ treeCache' = [i \in DOMAIN treeCache |-> None]
  /\ userData' = [u \in Uids |-> NoUser]

(* A log off: the user goes with trees and files before the server answers.*)
LogoffRequest(r) ==
  LET left == [userData EXCEPT ![r.uid] = NoUser]
      user == GetUserName(r.uid)
  IN /\ events' = IF user = NoName THEN {} ELSE {Told("logout", user, NoPath)}
     /\ IF \A u \in Uids : ~left[u].known THEN Forget
        ELSE userData' = left /\ UNCHANGED <<temp, treeCache>>

(* The request to delete a file marks it at once; the one to keep it after *)
(* all does not unmark it.                                                 *)
Marked(r) ==
  IF r.cmd = "dispose" /\ r.on /\ FileState(r.uid, r.fid).known
  THEN [userData EXCEPT ![r.uid].files[r.fid].delete = TRUE] ELSE userData

OtherRequest(r) ==
  /\ temp' = IF Remembered(r) THEN Pushed(Entry(r)) ELSE temp
  /\ treeCache' = IF \/ r.cmd = "tcon"
                     \/ r.cmd = "setup" /\ r.share # None
                  THEN [treeCache EXCEPT ![r.id] = r.share] ELSE treeCache
  /\ userData' = Marked(r) /\ events' = {}

OnRequest(r) == IF r.cmd = "logoff" THEN LogoffRequest(r) ELSE OtherRequest(r)

-----------------------------------------------------------------------------
Done(i) == [temp EXCEPT ![i] = Blank]

(* cmd_tree_connect_response: whether it was granted is not looked at.     *)
Connect(data, a) ==
  IF treeCache[a.id] = None THEN data
  ELSE [data EXCEPT ![a.uid].known = TRUE, ![a.uid].trees[a.tid] = treeCache[a.id]]

(* A refusal is too short and is thrown away. Otherwise every entry is     *)
(* taken for a log in, and stays.                                          *)
SetupResponse(a, i) ==
  LET named == IF i = 0 THEN userData
               ELSE [userData EXCEPT ![a.uid].known = TRUE, ![a.uid].name = temp[i].user]
  IN /\ userData' = IF ~a.ok THEN userData ELSE IF a.andx THEN Connect(named, a) ELSE named
     /\ events' = IF ~a.ok \/ i = 0 \/ temp[i].user = NoName THEN {}
                  ELSE {Told("login", temp[i].user, NoPath)}
     /\ UNCHANGED <<temp, treeCache>>

(* An open that was answered. The mark and the counters of an entry that   *)
(* is there already stay. The answers to the old commands are shorter than *)
(* the place where the mark of a directory is read. The action of the      *)
(* command CREATE is set to 1, the file existed: it is not reported.       *)
OpenResponse(a, i) ==
  LET path == MakePath(a.uid, a.tid, temp[i].name)
      ipc == IsIpc(a.uid, a.tid)
  IN IF ~a.ok THEN temp' = Done(i) /\ events' = {} /\ UNCHANGED userData
     ELSE \E isdirectory \in IF a.cmd = "ntcreate" THEN {a.directory} ELSE BOOLEAN :
       /\ userData' = IF ~userData[a.uid].known THEN userData
                      ELSE [userData EXCEPT ![a.uid].files[a.fid] =
                              [@ EXCEPT !.known = TRUE, !.isipc = ipc, !.isdirectory = isdirectory,
                                        !.path = path]]
       /\ events' = IF a.cmd = "ntcreate" /\ a.action = "created" /\ ~ipc
                    THEN {Told(IF isdirectory THEN "mkdir" ELSE "create", GetUserName(a.uid), path)}
                    ELSE {}
       /\ temp' = Done(i)

(* Mutant: the pipes are looked for in known trees only.                   *)
Suppressed_Known(s) == s.isipc

(* What the close of a file reports. The deletion of a directory is not    *)
(* among it: it is reported when a client asks for it by name.             *)
Suppressed(s) == s.isipc \/ (s.path[1] \in Trees /\ s.path[2] \in Pipes)
CloseEvents(s, user) ==
  IF ~s.known \/ Suppressed(s) THEN {}
  ELSE {Event("read", user, s.path, NoPath, n) : n \in {s.readed} \ {0}}
       \cup {Event("write", user, s.path, NoPath, n) : n \in {s.written} \ {0}}
       \cup IF s.delete /\ ~s.isdirectory THEN {Told("remove", user, s.path)} ELSE {}

(* Mutant: the entry of a closed file is kept.                             *)
CloseResponse_Keep(a, i) ==
  /\ events' = IF a.ok THEN CloseEvents(FileState(a.uid, temp[i].fid), GetUserName(a.uid)) ELSE {}
  /\ temp' = Done(i) /\ UNCHANGED userData

CloseResponse(a, i) ==
  LET f == temp[i].fid
  IN /\ events' = IF a.ok THEN CloseEvents(FileState(a.uid, f), GetUserName(a.uid)) ELSE {}
     /\ userData' = IF a.ok THEN [userData EXCEPT ![a.uid].files[f] = Unknown] ELSE userData
     /\ temp' = Done(i)

(* Mutant: a refused read or write counts.                                 *)
CountResponse_Refused(a, i) ==
  LET f == temp[i].fid
  IN /\ userData' = IF ~FileState(a.uid, f).known THEN userData
                    ELSE IF a.cmd = "read" THEN [userData EXCEPT ![a.uid].files[f].readed = @ + 1]
                    ELSE [userData EXCEPT ![a.uid].files[f].written = @ + temp[i].size]
     /\ events' = {} /\ temp' = Done(i)

(* Reads count what the server sent, writes what the client asked for.     *)
CountResponse(a, i) ==
  LET f == temp[i].fid
  IN /\ userData' = IF ~a.ok \/ ~FileState(a.uid, f).known THEN userData
                    ELSE IF a.cmd = "read" THEN [userData EXCEPT ![a.uid].files[f].readed = @ + a.size]
                    ELSE [userData EXCEPT ![a.uid].files[f].written = @ + temp[i].size]
     /\ events' = {} /\ temp' = Done(i)

(* Directories made and removed, files deleted and renamed, by their names.*)
(* The entries of the first and the third stay.                            *)
NameResponse(a, i) ==
  LET e == temp[i]
      to == IF a.cmd = "rename" THEN MakePath(a.uid, a.tid, e.to) ELSE NoPath
  IN /\ events' = IF ~a.ok \/ IsIpc(a.uid, a.tid) THEN {}
                  ELSE {Event(a.cmd, GetUserName(a.uid), MakePath(a.uid, a.tid, e.name), to, 0)}
     /\ temp' = IF a.cmd \in {"mkdir", "remove"} THEN temp ELSE Done(i)
     /\ UNCHANGED userData

OnResponse(a) ==
  LET i == Found(a.cmd, a.id)
  IN CASE a.cmd = "setup" -> SetupResponse(a, i)
       [] a.cmd = "tcon" -> userData' = Connect(userData, a) /\ events' = {} /\ UNCHANGED <<temp, treeCache>>
       [] a.cmd \in Opens \cup OfNames \cup {"close", "read", "write"} /\ i # 0 ->
            /\ \/ a.cmd \in Opens /\ OpenResponse(a, i)
               \/ a.cmd = "close" /\ CloseResponse(a, i)
               \/ a.cmd \in {"read", "write"} /\ CountResponse(a, i)
               \/ a.cmd \in OfNames /\ NameResponse(a, i)
            /\ UNCHANGED treeCache
       [] OTHER -> events' = {} /\ UNCHANGED analyzer

-----------------------------------------------------------------------------
(* The hosts and the capture.                                              *)
Init ==
  LET u == CHOOSE x \in Uids : TRUE
      t == CHOOSE x \in Tids : TRUE
      name == CHOOSE x \in Users : x # NoName
  IN /\ scenario \in Scenarios
     /\ temp = <<>> /\ treeCache = [i \in 1..scenario.requests |-> None]
     /\ users = IF scenario.start = "fresh" THEN [x \in Uids |-> None]
                ELSE [[x \in Uids |-> None] EXCEPT ![u] = name]
     /\ trees = IF scenario.start = "fresh" THEN [x \in Tids |-> <<None, None>>]
                ELSE [[x \in Tids |-> <<None, None>>] EXCEPT ![t] = <<u, scenario.share>>]
     /\ userData = IF scenario.start # "mounted" THEN [x \in Uids |-> NoUser]
                   ELSE [[x \in Uids |-> NoUser] EXCEPT ![u] =
                           [NoUser EXCEPT !.known = TRUE, !.name = name, !.trees[t] = scenario.share]]
     /\ files = [f \in Fids |-> NotOpen]
     /\ asked = {} /\ requests = 0 /\ lost = 0
     /\ events = {} /\ facts = {} /\ odd = IF scenario.start = "joined" THEN {"joined"} ELSE {}

Odd(kinds) == odd' = odd \cup kinds
When(condition, kind) == IF condition THEN {kind} ELSE {}
Missed ==
  /\ lost < scenario.lost /\ lost' = lost + 1
  /\ events' = {} /\ UNCHANGED analyzer

(* The client sends a request, and the capture sees it or misses it.       *)
Send(r, told, kinds) ==
  /\ r.cmd \in scenario.commands
  /\ requests < scenario.requests /\ requests' = requests + 1
  /\ Cardinality(asked) < scenario.window /\ asked' = asked \cup {r}
  /\ facts' = told
  /\ \/ OnRequest(r) /\ UNCHANGED lost
        /\ Odd(kinds \cup When(/\ Remembered(r) /\ Len(temp) = TempLimit
                               /\ \E q \in asked : q.cmd = temp[TempLimit].cmd /\ q.id = temp[TempLimit].id, "many"))
     \/ Missed /\ Odd(kinds \cup {"lost"})
  /\ UNCHANGED <<scenario, users, trees, files>>

(* A request has a new id or, with some clients, that of a finished one.   *)
Ids == {requests + 1} \cup IF "again" \in scenario.habits
                           THEN (1..requests) \ {r.id : r \in asked} ELSE {}
Again(id) == When(id <= requests, "again")
LoggedIn == {u \in Uids : users[u] # None /\ \A r \in asked : ~(r.cmd = "logoff" /\ r.uid = u)}
Connected(u) ==
  {t \in Tids : /\ trees[t][1] = u \/ ("shared" \in scenario.habits /\ trees[t][1] # None)
                /\ \A r \in asked : ~(r.cmd = "tdis" /\ r.tid = t)}
Shared(u, t) == When(trees[t][1] # u, "shared")
Usable == {f \in Fids : /\ files[f].open /\ files[f].uid \in LoggedIn
                        /\ \A r \in asked : r.cmd = "close" => r.fid # f}
OnPipe(u, t, name) ==
  When(trees[t][2] = IPC /\ userData[u].trees[t] # IPC /\ name \notin Pipes, "pipe")

Setup ==
  \E id \in Ids, user \in scenario.users, form \in scenario.forms, share \in scenario.shares \cup {None} :
    /\ \E u \in Uids : users[u] = None
    /\ \A r \in asked : r.cmd # "setup"
    /\ share # None => form = "plain"
    /\ Send([cmd |-> "setup", id |-> id, user |-> user, form |-> form, share |-> share], {},
            Again(id) \cup When(form = "negotiate" /\ Found("setup", id) # 0, "negotiate"))

Tcon ==
  \E u \in LoggedIn, id \in Ids, share \in scenario.shares :
    Send([cmd |-> "tcon", id |-> id, uid |-> u, share |-> share], {}, Again(id))

Tdis ==
  \E u \in LoggedIn, t \in Tids :
    /\ trees[t][1] = u
    /\ \A r \in asked : r.cmd \notin {"setup", "tcon"} => r.uid # u
    /\ \A f \in Fids : files[f].open => files[f].tid # t
    /\ Send([cmd |-> "tdis", id |-> requests + 1, uid |-> u, tid |-> t], {}, {})

Create ==
  \E u \in LoggedIn, cmd \in Opens : \E t \in Connected(u), id \in Ids, n \in scenario.names,
     directory, delete \in BOOLEAN :
    /\ directory => "directory" \in scenario.habits /\ cmd = "ntcreate"
    /\ delete => "delete" \in scenario.habits /\ cmd = "ntcreate"
    /\ Send([cmd |-> cmd, id |-> id, uid |-> u, tid |-> t, name |-> n, to |-> NoName,
             directory |-> directory, delete |-> delete], {},
            Again(id) \cup Shared(u, t) \cup When(delete, "deleteOpen"))

OnFile ==
  \E f \in Usable, cmd \in {"close", "read", "write"}, id \in Ids :
    /\ cmd = "close" \/ ~files[f].directory
    /\ Send([cmd |-> cmd, id |-> id, uid |-> files[f].uid, tid |-> files[f].tid, fid |-> f,
             size |-> IF cmd = "write" THEN 2 ELSE 0], {}, Again(id))

Dispose ==
  \E f \in Usable, on \in BOOLEAN, id \in Ids :
    Send([cmd |-> "dispose", id |-> id, uid |-> files[f].uid, tid |-> files[f].tid, fid |-> f, on |-> on],
         {}, Again(id) \cup When(~on, "undelete") \cup When(on /\ files[f].directory, "directory"))

OnName ==
  \E u \in LoggedIn, cmd \in OfNames : \E t \in Connected(u), id \in Ids, n \in scenario.names,
     to \in IF cmd = "rename" THEN scenario.to ELSE {NoName} :
    /\ trees[t][2] # IPC
    /\ Send([cmd |-> cmd, id |-> id, uid |-> u, tid |-> t, name |-> n, to |-> to],
            {}, Again(id) \cup Shared(u, t))

Logoff ==
  \E u \in LoggedIn :
    /\ \A r \in asked : r.cmd # "setup" => r.uid # u
    /\ Send([cmd |-> "logoff", id |-> requests + 1, uid |-> u],
            IF users[u] = NoName THEN {} ELSE {Told("logout", users[u], NoPath)},
            When(asked # {} \/ \E f \in Fids : files[f].uid = u, "logoff"))

-----------------------------------------------------------------------------
(* The server answers, and the capture sees the answer or misses it.       *)
Answer(a, kinds) ==
  /\ asked' = {r \in asked : r.id # a.id}
  /\ a.ok \/ a.cmd \in scenario.failures
  /\ \/ OnResponse(a) /\ UNCHANGED lost /\ Odd(kinds)
     \/ Missed /\ Odd(kinds \cup {"lost"})
  /\ UNCHANGED <<scenario, requests>>
Plainly(r, ok) == [cmd |-> r.cmd, id |-> r.id, ok |-> ok, uid |-> r.uid, tid |-> r.tid]

(* A tree that the dispatcher has not forgotten.                           *)
StillNamed(t) == \E u \in Uids : userData[u].trees[t] # None

(* A session setup, with a tree connect in the same message or not. Of the *)
(* first step of one the answer tells nothing.                             *)
Granted(r, ok) ==
  /\ r.cmd = "setup" /\ UNCHANGED files
  /\ \E u \in {x \in Uids : users[x] = None} :
       LET in == ok /\ r.form # "negotiate"
           Reply(tid) == [cmd |-> "setup", id |-> r.id, ok |-> ok, uid |-> u, tid |-> tid,
                          andx |-> r.share # None]
       IN /\ users' = IF in THEN [users EXCEPT ![u] = r.user] ELSE users
          /\ facts' = IF r.user = NoName \/ r.form = "negotiate" THEN {}
                      ELSE {Told(IF ok THEN "login" ELSE "loginfailed", r.user, NoPath)}
          /\ IF in /\ r.share # None
             THEN \E t \in {x \in Tids : trees[x][1] = None} :
                    /\ trees' = [trees EXCEPT ![t] = <<u, r.share>>]
                    /\ Answer(Reply(t), When(userData[u].known \/ StillNamed(t), "remounted"))
             ELSE /\ UNCHANGED trees
                  /\ Answer(Reply(NoTree), When(~ok, "failed") \cup When(in /\ userData[u].known, "remounted"))

Mounted(r, ok) ==
  /\ r.cmd = "tcon" /\ facts' = {} /\ UNCHANGED <<users, files>>
  /\ LET Reply(tid) == [cmd |-> "tcon", id |-> r.id, ok |-> ok, uid |-> r.uid, tid |-> tid]
     IN IF ok
        THEN \E t \in {x \in Tids : trees[x][1] = None} :
               /\ trees' = [trees EXCEPT ![t] = <<r.uid, r.share>>]
               /\ Answer(Reply(t), When(StillNamed(t), "remounted"))
        ELSE UNCHANGED trees /\ Answer(Reply(NoTree), {})

UserOf(r) == IF users[r.uid] = None THEN NoName ELSE users[r.uid]
PathOf(r, name) == <<trees[r.tid][2], name>>

(* The server does not give an id again while a request still uses it.     *)
Free == {f \in Fids : /\ ~files[f].open
                      /\ \A r \in asked : r.cmd \in {"close", "read", "write", "dispose"} => r.fid # f}
Opened(r, ok) ==
  /\ r.cmd \in Opens /\ UNCHANGED <<users, trees>>
  /\ LET Reply(fid, action) == [directory |-> r.directory, fid |-> fid, action |-> action,
                                cmd |-> r.cmd, id |-> r.id, ok |-> ok, uid |-> r.uid, tid |-> r.tid]
         path == PathOf(r, r.name)
     IN IF ~ok THEN facts' = {} /\ UNCHANGED files /\ Answer(Reply(None, "none"), {})
        ELSE \E f \in Free, action \in {"opened", "created"} :
          /\ action = "created" => path[1] # IPC
          /\ files' = [files EXCEPT ![f] =
               [NotOpen EXCEPT !.open = TRUE, !.uid = r.uid, !.tid = r.tid, !.path = path,
                               !.directory = r.directory, !.delete = r.delete]]
          /\ facts' = IF action = "opened" THEN {}
                      ELSE {Told(IF r.directory THEN "mkdir" ELSE "create", UserOf(r), path)}
          /\ Answer(Reply(f, action), OnPipe(r.uid, r.tid, r.name) \cup When(r.cmd # "ntcreate", "old")
                                      \cup When(\E u \in Uids : FileState(u, f).known, "reused"))

Closed(r, ok) ==
  /\ r.cmd = "close" /\ UNCHANGED <<users, trees>>
  /\ LET f == files[r.fid]
     IN IF ~ok THEN facts' = {} /\ UNCHANGED files
        ELSE /\ files' = [files EXCEPT ![r.fid] = NotOpen]
             /\ facts' = IF ~f.open \/ f.path[1] = IPC THEN {}
                  ELSE {Event("read", UserOf(r), f.path, NoPath, n) : n \in {f.readed} \ {0}}
                       \cup {Event("write", UserOf(r), f.path, NoPath, n) : n \in {f.written} \ {0}}
                       \cup IF ~f.delete THEN {}
                            ELSE {Told(IF f.directory THEN "rmdir" ELSE "remove", UserOf(r), f.path)}
  /\ Answer(Plainly(r, ok),
            When(ok /\ \E q \in asked : q.cmd = "dispose" /\ q.fid = r.fid, "keptFile"))

Moved(r, ok) ==
  /\ r.cmd \in {"read", "write"} /\ (ok => files[r.fid].open)
  /\ facts' = {} /\ UNCHANGED <<users, trees>>
  /\ \E n \in IF ~ok THEN {0} ELSE IF r.cmd = "write" /\ "short" \notin scenario.habits THEN {2} ELSE {1} :
       /\ files' = IF r.cmd = "read" THEN [files EXCEPT ![r.fid].readed = @ + n]
                   ELSE [files EXCEPT ![r.fid].written = @ + n]
       /\ Answer([size |-> n, cmd |-> r.cmd, id |-> r.id, ok |-> ok, uid |-> r.uid, tid |-> r.tid],
                 When(r.cmd = "write" /\ n = 1, "short"))

Disposed(r, ok) ==
  /\ r.cmd = "dispose" /\ (ok => files[r.fid].open)
  /\ facts' = {} /\ UNCHANGED <<users, trees>>
  /\ files' = IF ok THEN [files EXCEPT ![r.fid].delete = r.on] ELSE files
  /\ Answer(Plainly(r, ok), When(~ok, "keptFile"))

(* A file that is open may be renamed, and cannot be deleted.              *)
Named(r, ok) ==
  /\ r.cmd \in OfNames /\ UNCHANGED <<users, trees>>
  /\ LET path == PathOf(r, r.name)
         to == IF r.cmd = "rename" THEN PathOf(r, r.to) ELSE NoPath
         open == {f \in Fids : files[f].path = path}
     IN /\ ok => r.cmd = "rename" \/ open = {}
        /\ facts' = IF ok THEN {Event(r.cmd, UserOf(r), path, to, 0)} ELSE {}
        /\ files' = IF ok THEN [f \in Fids |-> IF f \in open THEN [files[f] EXCEPT !.path = to] ELSE files[f]]
                    ELSE files
        /\ Answer(Plainly(r, ok), When(ok /\ open # {}, "renamed"))

Unmounted(r) ==
  /\ r.cmd = "tdis" /\ facts' = {} /\ trees' = [trees EXCEPT ![r.tid] = <<None, None>>]
  /\ Answer(Plainly(r, TRUE), {}) /\ UNCHANGED <<users, files>>

LoggedOff(r) ==
  /\ r.cmd = "logoff" /\ facts' = {}
  /\ users' = [users EXCEPT ![r.uid] = None]
  /\ trees' = [t \in Tids |-> IF trees[t][1] = r.uid THEN <<None, None>> ELSE trees[t]]
  /\ files' = [f \in Fids |-> IF files[f].uid = r.uid \/ (files[f].open /\ trees[files[f].tid][1] = r.uid)
                              THEN NotOpen ELSE files[f]]
  /\ Answer([cmd |-> r.cmd, id |-> r.id, ok |-> TRUE, uid |-> r.uid, tid |-> NoTree],
            When(\E f \in Fids : files[f].open /\ files[f].uid # r.uid /\ trees[files[f].tid][1] = r.uid, "evicted"))

Respond ==
  \E r \in asked, ok \in BOOLEAN :
    \/ Granted(r, ok) \/ Mounted(r, ok) \/ Opened(r, ok) \/ Closed(r, ok) \/ Moved(r, ok)
    \/ Disposed(r, ok) \/ Named(r, ok)
    \/ ok /\ (Unmounted(r) \/ LoggedOff(r))

Next == Setup \/ Tcon \/ Tdis \/ Create \/ OnFile \/ Dispose \/ OnName \/ Logoff \/ Respond
Spec == Init /\ [][Next]_vars

-----------------------------------------------------------------------------
(* How the dispatcher goes wrong. It has nothing against a log in that is  *)
(* refused, the old commands for an open, a deletion asked for in the open,*)
(* taken back or refused, the deletion of a directory that is open, a      *)
(* write that the server shortens, a file renamed while it is open, a tree *)
(* used by another user than connected it, more requests than it           *)
(* remembers, and a log off before everything is closed and answered.      *)
Usual == odd \subseteq {"again", "remounted"}
Misleading == {"undelete", "keptFile", "short", "renamed", "reused", "pipe", "negotiate", "evicted"}
StaleName == \/ {"lost", "again"} \subseteq odd
             \/ "remounted" \in odd /\ odd \cap {"lost", "shared", "logoff"} # {}

(* What is reported is what happened, in the step in which the server's    *)
(* answer shows it, as long as nothing of that did happen and the capture  *)
(* saw everything: also when ids of requests are used again.               *)
Exact == Usual => events = facts

(* The dispatcher's copy of the open files is the server's.                *)
InStep ==
  Usual => \A f \in Fids, u \in Uids :
    LET s == FileState(u, f)
        o == files[f]
    IN /\ s.known <=> o.open /\ o.uid = u
       /\ s.known => /\ s.path = o.path /\ s.isipc = (o.path[1] = IPC)
                     /\ s.isdirectory = o.directory /\ s.readed = o.readed
                     /\ s.written = o.written

(* Messages that are missed and a capture that begins in the middle take   *)
(* reports away, or the name of the user or of the share. They add none,   *)
(* unless an id is used again.                                             *)
Covers(f, e) ==
  /\ e.op = f.op /\ e.user \in {f.user, NoName} /\ e.size <= f.size
  /\ e.path[2] = f.path[2] /\ e.path[1] \in Trees \cup {f.path[1]}
  /\ e.to[2] = f.to[2] /\ e.to[1] \in Trees \cup {f.to[1]}
NothingInvented ==
  odd \cap Misleading = {} /\ ~StaleName => \A e \in events : \E f \in facts : Covers(f, e)

(* A tree has the name of its share or none, also when tree connects are   *)
(* answered in another order.                                              *)
TreeNamed ==
  ~StaleName => \A t \in Tids : \A u \in {trees[t][1]} \ {None} :
                  userData[u].trees[t] \in {None, trees[t][2]}
=============================================================================

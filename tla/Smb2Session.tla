----------------------------- MODULE Smb2Session -----------------------------
(***************************************************************************)
(* The SMB2 dispatcher of the packet analyzer (on_smb2_packet) on one TCP  *)
(* connection between a client and a file server. The first half of the    *)
(* variables is what the dispatcher keeps; the second half is what the two *)
(* hosts do, of which the dispatcher only sees the messages: the client    *)
(* has several requests under way, the server answers in any order, and    *)
(* the capture may miss a message. `events` is what the last message made  *)
(* the dispatcher report, `facts` what that message really meant.          *)
(***************************************************************************)
EXTENDS Integers, Sequences, FiniteSets

CONSTANTS
  Sids, Tids, Fids,  \* session, tree and file ids the server gives
  Users, Shares,     \* names
  IPC,               \* the share of the pipes
  Names,             \* names of files in a share
  Pipes,             \* the names of pipes that the code lists, with a separator before them
  TempLimit,         \* requests that are remembered (10)
  CacheLimit,        \* tree connects that are remembered (100)
  Scenarios          \* what the hosts do, as records:
    \* start          "fresh", "mounted" or "joined": the connection is new, has
    \*                a user and a tree, or the capture began after that
    \* commands       the commands the client sends
    \* opens          the opens it asks for: [options, access, chain]
    \* requests       bound: requests of the client
    \* window         requests under way at once
    \* lost           bound: messages the capture misses
    \* failures       commands the server may refuse; "late": it may delay answers
    \* users, names, to, tokens
    \*                names of users, of files, and new names of files; whether a
    \*                session setup has a token that can be read
    \* wide           the build's unsigned long has 64 bits

None == "none"        \* no entry
NoName == ""          \* the user without a name, the share itself
NoTree == "tree 0"    \* the tree id in the answer to a refused tree connect
Garbage == "garbage"  \* a file id read from the middle of another message

(* An id or a name is never taken for another kind of id or for none; there*)
(* is a user and a share for a connection that begins with one.            *)
ASSUME Smb2Assumption ==
  /\ TempLimit \in Nat \ {0} /\ CacheLimit \in Nat \ {0}
  /\ IPC \in Shares /\ NoName \in Users \cap Names /\ Pipes \subseteq Names
  /\ Sids # {} /\ Tids # {} /\ (\E u \in Users : u # NoName) /\ (\E s \in Shares : s # IPC)
  /\ None \notin Sids \cup Users \cup Shares /\ NoTree \notin Tids /\ Garbage \notin Fids
  /\ Shares \cap (Tids \cup {NoTree}) = {}
  /\ \A s \in Scenarios :
       /\ s.start \in {"fresh", "mounted", "joined"} /\ s.tokens \subseteq BOOLEAN /\ s.wide \in BOOLEAN
       /\ s.users \subseteq Users /\ s.names \cup s.to \subseteq Names /\ s.requests \in Nat
NoId == <<0, None>>
LateId == <<0, "late">>  \* an answer the server had announced as delayed has another id
Trees == Tids \cup {NoTree}
Handles == Fids \cup {Garbage}

VARIABLES
  temp,       \* smb2_session.temp: the last requests, the newest first
  treeCache,  \* temp_tree_cache: tree connects, the newest first
  treeMap,    \* tree_map: the share of a tree
  fileState,  \* file_state_map
  userName,   \* user_name_map
  held,       \* what the stream buffers hold back: a session setup of the client,
              \* and the refusal of an open, which is too short to analyse
  events,     \* the events of the last message
  \* the hosts
  scenario, users, trees, files, asked, requests, lost,
  facts,      \* what the last message told, had it been read right
  odd         \* history: the kinds of unusual things that have happened

analyzer == <<temp, treeCache, treeMap, fileState, userName, held>>
hosts == <<users, trees, files, asked, requests>>
vars == <<analyzer, events, scenario, hosts, lost, facts, odd>>

-----------------------------------------------------------------------------
NoPath == <<None, NoName>>

(* What is kept of a request, of a file, and what is reported.             *)
Blank == [id |-> NoId, user |-> NoName, name |-> NoName, path |-> NoPath, fid |-> None, info |-> None,
          directory |-> FALSE, delete |-> FALSE, deleteOpen |-> FALSE]
Unknown == [known |-> FALSE, isipc |-> FALSE, isdirectory |-> FALSE, delete |-> FALSE,
            path |-> <<None, NoName>>, readed |-> 0, written |-> 0]
NotOpen == [open |-> FALSE, sid |-> None, tid |-> NoTree, directory |-> FALSE, delete |-> FALSE,
            path |-> <<None, NoName>>, readed |-> 0, written |-> 0]
NothingHeld == [client |-> FALSE, server |-> [id |-> NoId, tid |-> NoTree]]
Event(op, user, path, to, size) ==
  [op |-> op, user |-> user, path |-> path, to |-> to, size |-> size]

Paths == (Shares \cup Trees \cup {None}) \X Names
TypeOK ==
  /\ Len(temp) <= TempLimit
  /\ \A i \in DOMAIN temp : temp[i] \in
       [id : (0..scenario.requests) \X (Sids \cup {None}), user : Users, name : Names,
        path : Paths, fid : Fids \cup {None}, info : {None, "rename", "disposition"},
        directory : BOOLEAN, delete : BOOLEAN, deleteOpen : BOOLEAN]
  /\ treeCache \in Seq([sid : Sids, share : Shares]) /\ Len(treeCache) <= CacheLimit
  /\ treeMap \in [Trees -> Shares \cup {None}]
  /\ fileState \in [Handles ->
       [known : BOOLEAN, isipc : BOOLEAN, isdirectory : BOOLEAN, delete : BOOLEAN,
        path : Paths, readed : 0..scenario.requests, written : 0..scenario.requests]]
  /\ userName \in [Sids -> Users \cup {None}]
  /\ held \in [client : BOOLEAN,
               server : [id : (0..scenario.requests) \X (Sids \cup {None}), tid : Trees]]
  /\ events \subseteq [op : {"login", "loginfailed", "logout", "create", "mkdir", "remove", "rmdir",
                             "read", "write", "rename"},
                       user : Users, path : Paths, to : Paths, size : 0..scenario.requests]

-----------------------------------------------------------------------------
(* The dispatcher.                                                         *)

(* make_path: a tree that is not known is named by its id.                 *)
MakePath(t, name) == <<IF treeMap[t] = None THEN t ELSE treeMap[t], name>>
IsIpc(t) == treeMap[t] = IPC

(* smb2_get_user_name: nobody when the session is not known.               *)
GetUserName(sid) == IF userName[sid] = None THEN NoName ELSE userName[sid]

(* A queue takes an entry at its front and forgets what exceeds its limit. *)
Pushed(e, queue, limit) ==
  LET q == <<e>> \o queue
  IN IF Len(q) > limit THEN SubSeq(q, 1, limit) ELSE q

(* Mutant: the newest request of the session is taken.                     *)
Found_Newest(id) ==
  IF \E i \in DOMAIN temp : temp[i].id[2] = id[2]
  THEN CHOOSE i \in DOMAIN temp :
         temp[i].id[2] = id[2] /\ \A j \in 1..(i - 1) : temp[j].id[2] # id[2]
  ELSE 0

(* The entry of a request by its id, as an index; 0 when there is none.    *)
Found(id) ==
  IF \E i \in DOMAIN temp : temp[i].id = id
  THEN CHOOSE i \in DOMAIN temp :
         temp[i].id = id /\ \A j \in 1..(i - 1) : temp[j].id # id
  ELSE 0

(* What a request leaves in `temp`. An open counts as a deletion when the  *)
(* access is to delete and not to write, and no option is set: the share   *)
(* mode is read from two bytes of the disposition and two of the options.  *)
Entry(r) ==
  LET e == [Blank EXCEPT !.id = r.id]
  IN CASE r.cmd = "setup" -> [e EXCEPT !.user = r.user]
       [] r.cmd = "create" -> [e EXCEPT !.name = r.name,
            !.directory = "directory" \in r.options, !.delete = "delete" \in r.options,
            !.deleteOpen = "delete" \in r.access /\ "write" \notin r.access /\ r.options = {}]
       [] r.cmd \in {"close", "read", "write"} -> [e EXCEPT !.fid = r.fid]
       [] r.cmd = "rename" -> [e EXCEPT !.fid = r.fid, !.info = "rename",
                                        !.path = MakePath(r.tid, r.name)]
       [] r.cmd = "dispose" -> [e EXCEPT !.fid = r.fid, !.info = "disposition", !.delete = TRUE]
       [] OTHER -> e

(* The requests that leave one. The request to keep a file that was to be  *)
(* deleted leaves none.                                                    *)
Remembered(r) ==
  CASE r.cmd = "setup" -> r.token
    [] r.cmd = "create" -> r.name # NoName /\ r.chain # "rename"
    [] r.cmd = "dispose" -> fileState[r.fid].known /\ r.on
    [] OTHER -> r.cmd \notin {"tdis", "logoff"}

(* A session without users is erased by dispatch_ip_packet, with both      *)
(* stream buffers.                                                         *)
Forget ==
  /\ temp' = <<>> /\ treeCache' = <<>> /\ treeMap' = [t \in Trees |-> None]
  /\ fileState' = [f \in Handles |-> Unknown]
  /\ userName' = [s \in Sids |-> None]
  /\ held' = NothingHeld

(* A log off: the user goes before the server has answered.                *)
LogoffRequest(r) ==
  LET left == [userName EXCEPT ![r.id[2]] = None]
      user == GetUserName(r.id[2])
  IN /\ events' = IF user = NoName THEN {} ELSE {Event("logout", user, NoPath, NoPath, 0)}
     /\ IF \A s \in Sids : left[s] = None
        THEN Forget
        ELSE userName' = left /\ UNCHANGED <<temp, treeCache, treeMap, fileState, held>>

(* The new name of an open with a rename behind it in the same message is  *)
(* read with the length of the old name: what comes out is the new name if *)
(* it is as long, and something else otherwise. It is reported at once.    *)
ChainedRename(r) ==
  /\ \E read \in Names \ {NoName} :
       events' = {Event("rename", GetUserName(r.id[2]), MakePath(r.tid, r.name),
                        MakePath(r.tid, read), 0)}
  /\ UNCHANGED analyzer

(* A request other than a log off. A session setup without a token makes   *)
(* the dispatcher wait for more data, in front of all later requests.      *)
OtherRequest(r) ==
  /\ temp' = IF Remembered(r) THEN Pushed(Entry(r), temp, TempLimit) ELSE temp
  /\ treeCache' = IF r.cmd = "tcon"
                  THEN Pushed([sid |-> r.id[2], share |-> r.share], treeCache, CacheLimit)
                  ELSE treeCache
  /\ held' = [held EXCEPT !.client = r.cmd = "setup" /\ ~r.token]
  /\ events' = {} /\ UNCHANGED <<treeMap, fileState, userName>>

OnRequest(r) ==
  IF held.client THEN events' = {} /\ UNCHANGED analyzer
  ELSE IF r.cmd = "logoff" THEN LogoffRequest(r)
  ELSE IF r.cmd = "create" /\ r.chain = "rename" THEN ChainedRename(r)
  ELSE OtherRequest(r)

Done(i) == [temp EXCEPT ![i] = Blank]

-----------------------------------------------------------------------------
(* Of the refusals the code knows NT_STATUS_LOGON_FAILURE, 0xc000006d;     *)
(* LE4 makes another number of it where unsigned long has 64 bits.         *)
SetupShown(a) ==
  IF a.ok THEN {"login"} ELSE IF a.action = "password" /\ ~scenario.wide THEN {"loginfailed"} ELSE {}

SetupResponse(a, i) ==
  /\ userName' = IF i = 0 THEN userName ELSE [userName EXCEPT ![a.id[2]] = temp[i].user]
  /\ events' = IF i = 0 \/ temp[i].user = NoName THEN {}
               ELSE {Event(op, temp[i].user, NoPath, NoPath, 0) : op \in SetupShown(a)}
  /\ UNCHANGED <<temp, treeCache, treeMap, fileState, held>>

(* Mutant: the oldest tree connect of the session is taken.                *)
TconOf_Oldest(sid) ==
  LET mine == {j \in DOMAIN treeCache : treeCache[j].sid = sid}
  IN IF mine = {} THEN 0 ELSE CHOOSE j \in mine : \A k \in mine : k <= j

(* The newest tree connect of the session, as an index; 0 if there is none.*)
TconOf(sid) ==
  LET mine == {j \in DOMAIN treeCache : treeCache[j].sid = sid}
  IN IF mine = {} THEN 0 ELSE CHOOSE j \in mine : \A k \in mine : j <= k

(* It is taken to be the one that is answered, refused or not.             *)
TconResponse(a) ==
  LET j == TconOf(a.id[2])
  IN /\ treeMap' = IF j = 0 THEN treeMap ELSE [treeMap EXCEPT ![a.tid] = treeCache[j].share]
     /\ treeCache' = IF j = 0 THEN treeCache
                     ELSE SubSeq(treeCache, 1, j - 1) \o SubSeq(treeCache, j + 1, Len(treeCache))
     /\ events' = {} /\ UNCHANGED <<temp, fileState, userName, held>>

(* smb_create_action.                                                      *)
CreateEvents(e, user, path, action) ==
  CASE e.deleteOpen -> {Event(IF e.directory THEN "rmdir" ELSE "remove", user, path, NoPath, 0)}
    [] ~e.deleteOpen /\ action = "created" ->
         {Event(IF e.directory THEN "mkdir" ELSE "create", user, path, NoPath, 0)}
    [] OTHER -> {}

(* An open that was answered: the file takes over its entry in the map,    *)
(* all but the counters.                                                   *)
OpenResponse(i, id, tid, fid, action) ==
  LET e == temp[i]
      path == MakePath(tid, e.name)
  IN /\ fileState' = [fileState EXCEPT ![fid] =
          [@ EXCEPT !.known = TRUE, !.isipc = IsIpc(tid), !.isdirectory = e.directory,
                    !.delete = e.delete, !.path = path]]
     /\ events' = CreateEvents(e, GetUserName(id[2]), path, action)
     /\ temp' = Done(i)

(* The refusal of an open is shorter than an answer: it stays in the       *)
(* buffer until more data comes.                                           *)
CreateResponse(a, i) ==
  /\ IF i = 0 THEN events' = {} /\ UNCHANGED <<temp, fileState, held>>
     ELSE IF ~a.ok THEN /\ held' = [held EXCEPT !.server = [id |-> a.id, tid |-> a.tid]]
                        /\ events' = {} /\ UNCHANGED <<temp, fileState>>
     ELSE OpenResponse(i, a.id, a.tid, a.fid, a.action) /\ UNCHANGED held
  /\ UNCHANGED <<treeCache, treeMap, userName>>

(* Then the next message of the server goes with it: the two are taken for *)
(* one answer to the open, with a file id out of the second.               *)
HeldResponse ==
  LET h == held.server
      i == Found(h.id)
  IN /\ IF i = 0 THEN events' = {} /\ UNCHANGED <<temp, fileState>>
        ELSE OpenResponse(i, h.id, h.tid, Garbage, "none")
     /\ held' = [held EXCEPT !.server = NothingHeld.server]
     /\ UNCHANGED <<treeCache, treeMap, userName>>

(* What the close of a file reports of it.                                 *)
Suppressed(s) == s.isipc \/ (s.path[1] \in Trees /\ s.path[2] \in Pipes)
CloseEvents(s, user) ==
  IF ~s.known \/ Suppressed(s) THEN {}
  ELSE {Event("read", user, s.path, NoPath, n) : n \in {s.readed} \ {0}}
       \cup {Event("write", user, s.path, NoPath, n) : n \in {s.written} \ {0}}
       \cup {Event(o, user, s.path, NoPath, 0) :
               o \in IF s.delete THEN {IF s.isdirectory THEN "rmdir" ELSE "remove"} ELSE {}}

CloseResponse(a, i) ==
  /\ events' = CloseEvents(fileState[temp[i].fid], GetUserName(a.id[2]))
  /\ fileState' = [fileState EXCEPT ![temp[i].fid] = Unknown]
  /\ temp' = Done(i)

(* Mutant: a read or write that was refused is counted.                    *)
CountResponse_Refused(a, i) ==
  LET f == temp[i].fid
  IN /\ fileState' =
          IF ~fileState[f].known THEN fileState
          ELSE IF a.cmd = "read" THEN [fileState EXCEPT ![f].readed = @ + 1]
          ELSE [fileState EXCEPT ![f].written = @ + 1]
     /\ events' = {} /\ temp' = Done(i)

(* Reads and writes are counted by what the server answers.                *)
CountResponse(a, i) ==
  LET f == temp[i].fid
  IN /\ fileState' =
          IF ~fileState[f].known THEN fileState
          ELSE IF a.cmd = "read" THEN [fileState EXCEPT ![f].readed = @ + a.size]
          ELSE [fileState EXCEPT ![f].written = @ + a.size]
     /\ events' = {} /\ temp' = Done(i)

(* The path of the file stays what it was when the file was opened.        *)
SetInfoResponse(a, i) ==
  LET e == temp[i]
      s == fileState[e.fid]
  IN /\ events' = IF s.known /\ a.ok /\ e.info = "rename"
                  THEN {Event("rename", GetUserName(a.id[2]), s.path, e.path, 0)}
                  ELSE {}
     /\ fileState' = IF s.known /\ a.ok /\ e.info = "disposition"
                     THEN [fileState EXCEPT ![e.fid].delete = e.delete] ELSE fileState
     /\ temp' = Done(i)

OnResponse(a) ==
  LET i == Found(a.id)
  IN IF held.server # NothingHeld.server THEN HeldResponse
     ELSE CASE a.cmd = "setup" -> SetupResponse(a, i)
            [] a.cmd = "tcon" -> TconResponse(a)
            [] a.cmd = "create" -> CreateResponse(a, i)
            [] a.cmd \in {"close", "read", "write", "rename", "dispose"} /\ i # 0 ->
                 /\ \/ a.cmd = "close" /\ CloseResponse(a, i)
                    \/ a.cmd \in {"read", "write"} /\ CountResponse(a, i)
                    \/ a.cmd \in {"rename", "dispose"} /\ SetInfoResponse(a, i)
                 /\ UNCHANGED <<treeCache, treeMap, userName, held>>
            [] OTHER -> events' = {} /\ UNCHANGED analyzer

-----------------------------------------------------------------------------
(* The hosts and the capture.                                              *)
Init ==
  LET s == CHOOSE x \in Sids : TRUE
      t == CHOOSE x \in Tids : TRUE
      u == CHOOSE x \in Users : x # NoName
      sh == CHOOSE x \in Shares : x # IPC
  IN /\ scenario \in Scenarios
     /\ temp = <<>> /\ treeCache = <<>> /\ held = NothingHeld
     /\ fileState = [f \in Handles |-> Unknown]
     /\ users = IF scenario.start = "fresh" THEN [x \in Sids |-> None]
                ELSE [[x \in Sids |-> None] EXCEPT ![s] = u]
     /\ trees = IF scenario.start = "fresh" THEN [x \in Tids |-> <<None, None>>]
                ELSE [[x \in Tids |-> <<None, None>>] EXCEPT ![t] = <<s, sh>>]
     /\ userName = IF scenario.start = "mounted" THEN users ELSE [x \in Sids |-> None]
     /\ treeMap = [x \in Trees |->
                     IF x \in Tids /\ scenario.start = "mounted" THEN trees[x][2] ELSE None]
     /\ files = [f \in Fids |-> NotOpen]
     /\ asked = {} /\ requests = 0 /\ lost = 0
     /\ events = {} /\ facts = {} /\ odd = IF scenario.start = "joined" THEN {"joined"} ELSE {}

Odd(kinds) == odd' = odd \cup kinds
Missed ==
  /\ lost < scenario.lost /\ lost' = lost + 1
  /\ events' = {} /\ UNCHANGED <<temp, treeCache, treeMap, fileState, userName>>

(* A tree connect that was not read, while one is remembered that was.     *)
Mistaken(r) ==
  IF r.cmd = "tcon" /\ TconOf(r.id[2]) # 0 /\ treeCache' = treeCache THEN {"trees"} ELSE {}

(* The client sends a request, and the capture sees it or misses it, which *)
(* also empties the stream buffer.                                         *)
Send(r, told, kinds) ==
  /\ r.cmd \in scenario.commands
  /\ requests < scenario.requests /\ requests' = requests + 1
  /\ Cardinality(asked) < scenario.window /\ asked' = asked \cup {r}
  /\ facts' = told
  /\ \/ /\ OnRequest(r) /\ UNCHANGED lost
        /\ Odd(kinds \cup Mistaken(r) \cup
               IF Remembered(r) /\ Len(temp) = TempLimit /\ \E q \in asked : q.id = temp[TempLimit].id
               THEN {"many"} ELSE {})
     \/ /\ Missed /\ held' = [held EXCEPT !.client = FALSE]
        /\ Odd(kinds \cup Mistaken(r) \cup {"lost"})
  /\ UNCHANGED <<scenario, users, trees, files>>

Id(sid) == <<requests + 1, sid>>
LoggedIn == {s \in Sids : users[s] # None /\ \A r \in asked : ~(r.cmd = "logoff" /\ r.id[2] = s)}
Connected == {t \in Tids : trees[t][1] \in LoggedIn /\ \A r \in asked : ~(r.cmd = "tdis" /\ r.tid = t)}
Usable == {f \in Fids : /\ files[f].open /\ files[f].sid \in LoggedIn
                        /\ \A r \in asked : r.cmd = "close" => r.fid # f}

Setup ==
  \E s \in {x \in Sids : users[x] = None}, u \in scenario.users, token \in scenario.tokens :
    /\ \A r \in asked : r.cmd = "setup" => r.id[2] # s
    /\ Send([cmd |-> "setup", id |-> Id(s), user |-> u, token |-> token],
            {}, IF token THEN {} ELSE {"noToken"})

Tcon ==
  \E s \in LoggedIn, sh \in Shares :
    Send([cmd |-> "tcon", id |-> Id(s), share |-> sh], {},
         IF \/ \E r \in asked : r.cmd = "tcon" /\ r.id[2] = s
            \/ Len(treeCache) = CacheLimit
         THEN {"trees"} ELSE {})

Tdis ==
  \E t \in Connected :
    /\ \A r \in asked : r.id[2] # trees[t][1]
    /\ \A f \in Fids : files[f].open => files[f].tid # t
    /\ Send([cmd |-> "tdis", id |-> Id(trees[t][1]), tid |-> t], {}, {})

Create ==
  \E t \in Connected, n \in scenario.names, o \in scenario.opens, to \in scenario.to :
    LET r == [cmd |-> "create", id |-> Id(trees[t][1]), tid |-> t, name |-> n, to |-> to,
              options |-> o.options, access |-> o.access, chain |-> o.chain]
    IN /\ n = NoName => "delete" \notin o.options
       /\ Send(r, {}, (IF o.chain = "none" THEN {} ELSE {"chain"})
                      \cup (IF Entry(r).deleteOpen THEN {"deleteOpen"} ELSE {}))

OnFile ==
  \E f \in Usable, cmd \in {"close", "read", "write"} :
    /\ cmd = "close" \/ (files[f].path[2] # NoName /\ ~files[f].directory)
    /\ Send([cmd |-> cmd, id |-> Id(files[f].sid), fid |-> f], {}, {})

Rename ==
  \E f \in Usable, to \in scenario.to :
    files[f].path[2] # NoName /\
    Send([cmd |-> "rename", id |-> Id(files[f].sid), fid |-> f, tid |-> files[f].tid, name |-> to],
         {}, {"rename"})

Dispose ==
  \E f \in Usable, on \in BOOLEAN :
    files[f].path[2] # NoName /\
    Send([cmd |-> "dispose", id |-> Id(files[f].sid), fid |-> f, on |-> on],
         {}, IF on THEN {} ELSE {"undelete"})

Logoff ==
  \E s \in LoggedIn :
    /\ \A r \in asked : r.id[2] # s
    /\ Send([cmd |-> "logoff", id |-> Id(s)],
            IF users[s] = NoName THEN {} ELSE {Event("logout", users[s], NoPath, NoPath, 0)},
            (IF \E f \in Fids : files[f].sid = s THEN {"logoff"} ELSE {})
            \cup (IF asked # {} THEN {"logoff"} ELSE {}))

-----------------------------------------------------------------------------
(* The server answers; the capture sees the answer, misses it, or finds it *)
(* under an id of its own because the server had it delayed.               *)
Answer(r, ok, tid, fid, action, size, kinds) ==
  /\ asked' = asked \ {r}
  /\ ok \/ r.cmd \in scenario.failures
  /\ \/ \E late \in BOOLEAN :
          /\ late => "late" \in scenario.failures /\ r.cmd \notin {"setup", "tcon"}
          /\ OnResponse([cmd |-> r.cmd, id |-> IF late THEN LateId ELSE r.id, ok |-> ok, tid |-> tid,
                         fid |-> fid, action |-> action, size |-> size])
          /\ UNCHANGED lost /\ Odd(kinds \cup IF late THEN {"late"} ELSE {})
     \/ Missed /\ held' = [held EXCEPT !.server = NothingHeld.server] /\ Odd(kinds \cup {"lost"})
  /\ UNCHANGED <<scenario, requests>>

Told(user, path, op) == Event(op, user, path, NoPath, 0)
UserOf(sid) == IF users[sid] = None THEN NoName ELSE users[sid]

(* A log in is refused for the name or the password, or because the account*)
(* is locked, disabled or out of date, which is another fact.              *)
LoginFact(ok, why) == IF ok THEN "login" ELSE IF why = "password" THEN "loginfailed" ELSE "denied"

Granted(r, ok) ==
  \E why \in IF ok THEN {"none"} ELSE {"password", "account"} :
    /\ r.cmd = "setup"
    /\ users' = IF ok THEN [users EXCEPT ![r.id[2]] = r.user] ELSE users
    /\ facts' = IF r.user = NoName THEN {} ELSE {Told(r.user, NoPath, LoginFact(ok, why))}
    /\ Answer(r, ok, NoTree, None, why, 0,
              IF ok /\ GetUserName(r.id[2]) \notin {NoName, r.user} THEN {"relogged"} ELSE {})
    /\ UNCHANGED <<trees, files>>

Mounted(r, ok) ==
  /\ r.cmd = "tcon" /\ facts' = {} /\ UNCHANGED <<users, files>>
  /\ IF ok
     THEN \E t \in {x \in Tids : trees[x][1] = None} :
            /\ trees' = [trees EXCEPT ![t] = <<r.id[2], r.share>>]
            /\ Answer(r, ok, t, None, "none", 0, IF treeMap[t] = None THEN {} ELSE {"remounted"})
     ELSE UNCHANGED trees /\ Answer(r, ok, NoTree, None, "none", 0, {})

Removal(user, f) ==
  IF f.delete /\ f.path[1] # IPC
  THEN {Told(user, f.path, IF f.directory THEN "rmdir" ELSE "remove")} ELSE {}

(* The server does not give an id again while a request still uses it.     *)
Naming(f) == {r \in asked : r.cmd \notin {"setup", "tcon", "tdis", "create", "logoff"} /\ r.fid = f}
Free == {f \in Fids : ~files[f].open /\ Naming(f) = {}}

(* A pipe that is neither known by its tree nor by its name.               *)
OnPipe(t, name) ==
  IF trees[t][2] = IPC /\ ~IsIpc(t) /\ name \notin Pipes THEN {"pipe"} ELSE {}

(* The file an open makes.                                                 *)
FileOf(r) == [open |-> TRUE, sid |-> r.id[2], tid |-> r.tid, directory |-> "directory" \in r.options,
              delete |-> "delete" \in r.options, path |-> <<trees[r.tid][2], r.name>>,
              readed |-> 0, written |-> 0]

Opened(r, ok) ==
  /\ r.cmd = "create" /\ UNCHANGED <<users, trees>>
  /\ IF ~ok
     THEN facts' = {} /\ UNCHANGED files /\ Answer(r, ok, r.tid, None, "none", 0, {"refused"})
     ELSE \E f \in Free, action \in {"opened", "created"} :
       LET file == FileOf(r)
           user == UserOf(r.id[2])
       IN /\ action = "created" => r.name # NoName /\ file.path[1] # IPC
          /\ files' = [files EXCEPT ![f] = IF r.chain = "none" THEN file ELSE NotOpen]
          /\ facts' = (IF action = "opened" THEN {}
                       ELSE {Told(user, file.path, IF file.directory THEN "mkdir" ELSE "create")})
                      \cup (IF r.chain = "close" THEN Removal(user, file) ELSE {})
                      \cup (IF r.chain = "rename"
                            THEN {Event("rename", user, file.path, <<file.path[1], r.to>>, 0)} ELSE {})
          /\ Answer(r, ok, r.tid, f, action, 0, (IF fileState[f].known THEN {"reused"} ELSE {})
                                                \cup OnPipe(r.tid, r.name))

(* What the close of a file means.                                         *)
Closed(r) ==
  /\ r.cmd = "close" /\ UNCHANGED <<users, trees>>
  /\ LET f == files[r.fid]
         user == UserOf(r.id[2])
     IN /\ files' = [files EXCEPT ![r.fid] = NotOpen]
        /\ facts' = IF ~f.open \/ f.path[1] = IPC THEN {}
                    ELSE {Event("read", user, f.path, NoPath, n) : n \in {f.readed} \ {0}}
                         \cup {Event("write", user, f.path, NoPath, n) : n \in {f.written} \ {0}}
                         \cup Removal(user, f)
        /\ Answer(r, TRUE, NoTree, None, "none", 0, {})

Moved(r, ok) ==
  /\ r.cmd \in {"read", "write"} /\ (ok => files[r.fid].open)
  /\ facts' = {} /\ UNCHANGED <<users, trees>>
  /\ files' = IF ~ok THEN files
              ELSE IF r.cmd = "read" THEN [files EXCEPT ![r.fid].readed = @ + 1]
              ELSE [files EXCEPT ![r.fid].written = @ + 1]
  /\ Answer(r, ok, NoTree, None, "none", IF ok THEN 1 ELSE 0, {})

Changed(r, ok) ==
  /\ r.cmd \in {"rename", "dispose"} /\ (ok => files[r.fid].open)
  /\ LET f == files[r.fid]
         to == <<f.path[1], r.name>>
     IN IF ~ok THEN facts' = {} /\ UNCHANGED files
        ELSE IF r.cmd = "dispose" THEN facts' = {} /\ files' = [files EXCEPT ![r.fid].delete = r.on]
        ELSE /\ facts' = {Event("rename", UserOf(r.id[2]), f.path, to, 0)}
             /\ files' = [files EXCEPT ![r.fid].path = to]
  /\ UNCHANGED <<users, trees>>
  /\ Answer(r, ok, NoTree, None, "none", 0, {})

Unmounted(r) ==
  /\ r.cmd = "tdis" /\ facts' = {} /\ trees' = [trees EXCEPT ![r.tid] = <<None, None>>]
  /\ Answer(r, TRUE, NoTree, None, "none", 0, {}) /\ UNCHANGED <<users, files>>

LoggedOff(r) ==
  /\ r.cmd = "logoff" /\ facts' = {}
  /\ users' = [users EXCEPT ![r.id[2]] = None]
  /\ trees' = [t \in Tids |-> IF trees[t][1] = r.id[2] THEN <<None, None>> ELSE trees[t]]
  /\ files' = [f \in Fids |-> IF files[f].sid = r.id[2] THEN NotOpen ELSE files[f]]
  /\ Answer(r, TRUE, NoTree, None, "none", 0, {})

Respond ==
  \E r \in asked, ok \in BOOLEAN :
    \/ Granted(r, ok) \/ Mounted(r, ok) \/ Opened(r, ok) \/ Moved(r, ok) \/ Changed(r, ok)
    \/ ok /\ (Closed(r) \/ Unmounted(r) \/ LoggedOff(r))

Next == Setup \/ Tcon \/ Tdis \/ Create \/ OnFile \/ Rename \/ Dispose \/ Logoff \/ Respond
Spec == Init /\ [][Next]_vars

-----------------------------------------------------------------------------
(* How the dispatcher goes wrong. It has nothing against an open that is   *)
(* refused, a setup without a readable token, requests in one message, an  *)
(* open that it takes for a deletion, a deletion that is taken back, a     *)
(* file that is renamed, tree connects of one session under way together,  *)
(* or one that is not read while another is still remembered, more         *)
(* requests than it remembers, an answer that was delayed, a pipe in a     *)
(* tree it does not know, and a log off before all is closed and answered. *)
(* An id of a tree or of a session that the server gives again is told by  *)
(* the answer, except when another of these stood in the way: then the     *)
(* name is that of the one before.                                         *)
Usual == odd \subseteq {"remounted", "relogged"}
StaleTree == "remounted" \in odd /\ odd \cap {"lost", "refused", "noToken", "logoff"} # {}
StaleUser == "relogged" \in odd /\ odd \cap {"lost", "refused", "noToken", "many"} # {}
Misleading == {"chain", "deleteOpen", "undelete", "rename", "reused", "trees", "pipe"}

(* What is reported is what happened, in the step in which the server's    *)
(* answer shows it, as long as nothing unusual did; except that of the log *)
(* ins that are refused those for the name or the password are reported,   *)
(* and where unsigned long has 64 bits none.                               *)
Unseen(f) == f.op = "denied" \/ (f.op = "loginfailed" /\ scenario.wide)
Exact == Usual => events \subseteq facts /\ \A f \in facts \ events : Unseen(f)

(* The dispatcher's copy of the open files is the server's: the same files *)
(* by the same names with the same marks, and as many bytes.               *)
InStep ==
  Usual =>
    /\ ~fileState[Garbage].known
    /\ \A f \in Fids :
         LET s == fileState[f]
             o == files[f]
         IN /\ s.known <=> (o.open /\ o.path[2] # NoName)
            /\ s.known => /\ s.path = o.path /\ s.isipc = (o.path[1] = IPC)
                          /\ s.isdirectory = o.directory /\ s.delete = o.delete
                          /\ s.readed = o.readed /\ s.written = o.written

(* Messages that are missed, answers under other ids, requests that are    *)
(* forgotten and a capture that begins in the middle take reports away, or *)
(* the name of the user or of the share: they never add a report, or bytes *)
(* to one. It takes an id that the server gives again after a close that   *)
(* was not seen, and the cases of Misleading, to do that.                  *)
Covers(f, e) ==
  /\ e.op = f.op /\ e.user \in {f.user, NoName} /\ e.size <= f.size
  /\ e.path[2] = f.path[2] /\ e.path[1] \in Trees \cup {f.path[1]}
  /\ e.to[2] = f.to[2] /\ e.to[1] \in Trees \cup {f.to[1]}
NothingInvented ==
  odd \cap Misleading = {} /\ ~StaleTree /\ ~StaleUser =>
    \A e \in events : \E f \in facts : Covers(f, e)

(* A tree has the name of its share or none.                               *)
TreeNamed ==
  "trees" \notin odd /\ ~StaleTree =>
    \A t \in Tids : trees[t][1] # None => treeMap[t] \in {None, trees[t][2]}
=============================================================================

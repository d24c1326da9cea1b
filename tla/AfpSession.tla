----------------------------- MODULE AfpSession ------------------------------
(***************************************************************************)
(* The AFP dispatcher of the packet analyzer (on_a_dsi_packet) on one TCP  *)
(* connection and one volume. It remembers one request only, and it names  *)
(* a folder by climbing a table of directory ids that it fills from the    *)
(* answers the capture saw. Against it: a client that mostly waits for an  *)
(* answer before its next request, a server with a tree of files, and a    *)
(* capture that may miss messages or begin in the middle.                  *)
(***************************************************************************)
EXTENDS Integers, SequencesExt, FiniteSets

CONSTANTS
  Users, Names, Forks,  \* names of users, of files and folders; fork ids
  Volume,               \* the name of the volume
  MaxDid,               \* bound: the last directory id; 1 is above the root, 2 the root
  NestLimit,            \* get_folder climbs less far (100)
  MapSize, MapCount,    \* a map of directories that is full (100), and maps (10)
  Scenarios             \* what the hosts do, as records:
    \* start             "fresh", "mounted" or "joined": a new connection, a user with
    \*                   the volume open, or the capture began after that
    \* tree              what is on the volume at the beginning, but the root
    \* users, names      names of users who log in, of files and folders
    \* commands          the commands the client sends
    \* requests, window, lost
    \*                   bounds: requests, requests under way at once, messages missed
    \* failures          commands the server may refuse
    \* forms             what an answer to GetFileDirParams has: a name in UTF-8, a
    \*                   long name, or none

None == "none"
Root == 2
Dids == 0..MaxDid

VARIABLES
  temp,       \* afp_session.temp: the last request
  loginName,  \* login_name
  volume,     \* volumemap: "unknown", "unnamed" or "named"
  dirTable,   \* dir_map_table of the volume: maps from directory ids, the newest first
  isDirs,     \* is_dir_table: parent and name of what is known to be a directory
  forkMap,    \* forkmap
  events,     \* the events of the last message
  \* the hosts
  scenario, user, mounted,
  tree,       \* entries of the volume; the id of a file is 0
  lastDid,    \* the last directory id that the server gave
  forks, asked, requests, lost,
  seen,       \* history: directory ids that an answer told of since the log in
  facts,      \* what the last message told, had it been read right
  odd         \* history: the kinds of unusual things that have happened

analyzer == <<temp, loginName, volume, dirTable, isDirs, forkMap>>
hosts == <<user, mounted, tree, lastDid, forks, asked, requests>>
vars == <<analyzer, events, scenario, hosts, lost, seen, facts, odd>>

-----------------------------------------------------------------------------
Blank == [cmd |-> None, id |-> 0, did |-> 0, fork |-> None, length |-> 0,
          name1 |-> <<>>, name2 |-> <<>>, isdir |-> FALSE]
NoFork == [known |-> FALSE, name |-> <<>>, readed |-> 0, written |-> 0]
Event(op, who, path, to, size) ==
  [op |-> op, user |-> who, path |-> path, to |-> to, size |-> size]

(* A name is a sequence: of folders from the volume on, or of one user.    *)
IsName(n) == n \in Seq(Names \cup Users \cup {Volume, "id"}) /\ Len(n) <= NestLimit + 2
Counts == 0..scenario.requests
TypeOK ==
  /\ temp.cmd \in scenario.commands \cup {None} /\ temp.id \in Counts
  /\ temp.did \in Dids /\ temp.fork \in Forks \cup {None} /\ temp.length \in 0..1
  /\ IsName(temp.name1) /\ IsName(temp.name2) /\ temp.isdir \in BOOLEAN
  /\ IsName(loginName) /\ volume \in {"unknown", "unnamed", "named"}
  /\ dirTable \in Seq(SUBSET [did : Dids, parent : Dids, name : Names \cup {Volume}])
  /\ Len(dirTable) <= MapCount /\ \A i \in DOMAIN dirTable : Cardinality(dirTable[i]) <= MapSize + 1
  /\ \A i, j \in DOMAIN dirTable : \A d \in dirTable[i], e \in dirTable[j] :
       d.did = e.did => i = j /\ d = e
  /\ isDirs \subseteq Dids \X (Names \cup {Volume})
  /\ \A f \in Forks : /\ forkMap[f].known \in BOOLEAN /\ IsName(forkMap[f].name)
                      /\ forkMap[f].readed \in Counts /\ forkMap[f].written \in Counts
  /\ \A e \in events : IsName(e.path) /\ IsName(e.to) /\ IsName(e.user) /\ e.size \in Counts

-----------------------------------------------------------------------------
(* The dispatcher.                                                         *)

(* find_did, as a set of at most one entry.                                *)
FindDid(table, did) == {e \in UNION {table[i] : i \in DOMAIN table} : e.did = did}

(* What climbing from a directory to the root finds: the id where it ends  *)
(* and the names on the way.                                               *)
Climb(table, did, limit) ==
  LET up[n \in 0..limit] ==
        IF n = 0 THEN [did |-> did, names |-> <<>>]
        ELSE LET last == up[n - 1]
                 found == FindDid(table, last.did)
             IN IF last.did <= Root \/ found = {} THEN last
                ELSE LET e == CHOOSE e \in found : TRUE
                     IN [did |-> e.parent, names |-> <<e.name>> \o last.names]
  IN up[limit]

(* get_folder. A folder above that is not known is left out, and nothing   *)
(* is left of a path that is too long to climb.                            *)
GetFolder(vol, table, did) ==
  LET top == Climb(table, did, NestLimit)
      over == FindDid(table, top.did)
  IN IF vol = "unknown" THEN <<"id">>
     ELSE IF Len(top.names) = NestLimit THEN <<>>
     ELSE IF vol = "named" THEN <<Volume>> \o top.names
     ELSE <<IF over = {} THEN "id" ELSE (CHOOSE e \in over : TRUE).name>> \o top.names
MakePath(vol, table, did, name) == GetFolder(vol, table, did) \o name
PathOf(did, name) == MakePath(volume, dirTable, did, <<name>>)

(* Mutant: the parent is not kept with the child.                          *)
InsertDir_NoParent(table, did, id, name) ==
  LET kept == [i \in DOMAIN table |-> {e \in table[i] : e.did \notin {did, id}}]
      full == kept # <<>> /\ Cardinality(kept[1]) >= MapSize
      room == IF full /\ Len(kept) >= MapCount THEN SubSeq(kept, 1, Len(kept) - 1) ELSE kept
      maps == IF full \/ room = <<>> THEN <<{}>> \o room ELSE room
  IN [maps EXCEPT ![1] = @ \cup {[did |-> id, parent |-> did, name |-> name]}]

(* The entry of a directory and that of its parent go to the newest map; a *)
(* full one gets a new one in front, and the oldest is dropped.            *)
InsertDir(table, did, id, name) ==
  LET parent == FindDid(table, did)
      kept == [i \in DOMAIN table |-> {e \in table[i] : e.did \notin {did, id}}]
      full == kept # <<>> /\ Cardinality(kept[1]) >= MapSize
      room == IF full /\ Len(kept) >= MapCount THEN SubSeq(kept, 1, Len(kept) - 1) ELSE kept
      maps == IF full \/ room = <<>> THEN <<{}>> \o room ELSE room
  IN [maps EXCEPT ![1] = @ \cup parent \cup {[did |-> id, parent |-> did, name |-> name]}]

(* insert_dir_entry.                                                       *)
InsertDirEntry(did, id, name, isdir) ==
  IF did = 0 \/ did = id THEN UNCHANGED <<volume, dirTable, isDirs>>
  ELSE /\ volume' = IF volume = "unknown" THEN "unnamed" ELSE volume
       /\ dirTable' = IF isdir THEN InsertDir(dirTable, did, id, name) ELSE dirTable
       /\ isDirs' = IF isdir THEN isDirs \cup {<<did, name>>} ELSE isDirs \ {<<did, name>>}

-----------------------------------------------------------------------------
(* What of the last request is kept beside its command and its id: only    *)
(* what the command sets; the rest stays from the request before.          *)
Took(r) ==
  LET t == [temp EXCEPT !.cmd = r.cmd, !.id = r.id]
  IN CASE r.cmd = "login" -> [t EXCEPT !.name1 = <<r.name>>]
       [] r.cmd = "openVol" -> [t EXCEPT !.name1 = <<Volume>>]
       [] r.cmd = "openFork" -> [t EXCEPT !.name1 = PathOf(r.did, r.name)]
       [] r.cmd = "closeFork" -> [t EXCEPT !.fork = r.fork]
       [] r.cmd \in {"read", "write"} ->
            [t EXCEPT !.name1 = forkMap[r.fork].name, !.fork = r.fork, !.length = 1]
       [] r.cmd \in {"createDir", "createFile", "delete"} ->
            [t EXCEPT !.did = r.did, !.name1 = <<r.name>>, !.isdir = <<r.did, r.name>> \in isDirs]
       [] r.cmd = "params" ->
            [t EXCEPT !.did = r.did, !.name1 = IF r.name = None THEN <<>> ELSE <<r.name>>]
       [] r.cmd \in {"rename", "move", "copy", "exchange"} ->
            [t EXCEPT !.name1 = PathOf(r.did, r.name), !.name2 = PathOf(r.toDid, r.to)]
       [] OTHER -> t

(* A log out is reported before the server has answered, and the session   *)
(* is erased by dispatch_ip_packet.                                        *)
LogoutRequest ==
  IF loginName = <<>> THEN events' = {} /\ UNCHANGED analyzer
  ELSE /\ events' = {Event("logout", loginName, <<>>, <<>>, 0)}
       /\ temp' = Blank /\ loginName' = <<>> /\ volume' = "unknown" /\ dirTable' = <<>>
       /\ isDirs' = {} /\ forkMap' = [f \in Forks |-> NoFork]

(* A read or a write of a fork that is not known is not looked at. The     *)
(* request to delete takes the name from the directories.                  *)
OtherRequest(r) ==
  /\ temp' = IF r.cmd \in {"read", "write"} /\ ~forkMap[r.fork].known THEN temp ELSE Took(r)
  /\ isDirs' = IF r.cmd = "delete" THEN isDirs \ {<<r.did, r.name>>} ELSE isDirs
  /\ volume' = IF r.cmd \in {"createDir", "createFile", "delete"} /\ volume = "unknown"
               THEN "unnamed" ELSE volume
  /\ events' = {} /\ UNCHANGED <<loginName, dirTable, forkMap>>

OnRequest(r) == IF r.cmd = "logout" THEN LogoutRequest ELSE OtherRequest(r)

(* The answers. What they need of the request is in temp.                  *)
Reported(op, path, to) == events' = {Event(op, loginName, path, to, 0)}

(* A log in that goes on keeps what is remembered for the next step.       *)
LoginResponse(a) ==
  /\ loginName' = IF a.result = "failed" THEN <<>> ELSE temp.name1
  /\ events' = IF a.result = "continue" THEN {}
               ELSE {Event(IF a.result = "ok" THEN "login" ELSE "loginfailed", temp.name1, <<>>, <<>>, 0)}
  /\ temp' = IF a.result = "continue" THEN temp ELSE Blank
  /\ UNCHANGED <<volume, dirTable, isDirs, forkMap>>

OpenForkResponse(a) ==
  /\ forkMap' = [forkMap EXCEPT ![a.fork] = [NoFork EXCEPT !.known = TRUE, !.name = temp.name1]]
  /\ temp' = Blank /\ events' = {} /\ UNCHANGED <<loginName, volume, dirTable, isDirs>>

(* What is remembered stays after a close.                                 *)
CloseForkResponse ==
  LET f == forkMap[temp.fork]
  IN /\ events' = {Event("read", loginName, f.name, <<>>, n) : n \in {f.readed} \ {0}}
                  \cup {Event("write", loginName, f.name, <<>>, n) : n \in {f.written} \ {0}}
     /\ forkMap' = [forkMap EXCEPT ![temp.fork] = NoFork]
     /\ UNCHANGED <<temp, loginName, volume, dirTable, isDirs>>

(* Reads and writes count what the client asked for.                       *)
CountResponse ==
  LET f == temp.fork
  IN /\ forkMap' = IF ~forkMap[f].known THEN forkMap
                   ELSE IF temp.cmd = "read" THEN [forkMap EXCEPT ![f].readed = @ + temp.length]
                   ELSE [forkMap EXCEPT ![f].written = @ + temp.length]
     /\ temp' = Blank /\ events' = {} /\ UNCHANGED <<loginName, volume, dirTable, isDirs>>

(* An answer with a name in UTF-8 tells of the child that was asked for,   *)
(* one with a long name of the folder itself, with the parent it gives;    *)
(* without a name it is the one that was asked for.                        *)
ParamsResponse(a) ==
  /\ IF a.form = "long" THEN InsertDirEntry(a.parent, temp.did, a.name, a.did # 0)
     ELSE InsertDirEntry(temp.did, a.did, IF a.form = "utf8" THEN a.name ELSE temp.name1[1], a.did # 0)
  /\ temp' = Blank /\ events' = {} /\ UNCHANGED <<loginName, forkMap>>

(* Mutant: the new folder is taken for the parent.                         *)
CreateDirResponse_Swapped(a) ==
  /\ InsertDirEntry(a.did, temp.did, temp.name1[1], TRUE)
  /\ Reported("mkdir", MakePath(volume', dirTable', temp.did, temp.name1), <<>>)
  /\ temp' = Blank /\ UNCHANGED <<loginName, forkMap>>

CreateDirResponse(a) ==
  /\ InsertDirEntry(temp.did, a.did, temp.name1[1], TRUE)
  /\ Reported("mkdir", MakePath(volume', dirTable', temp.did, temp.name1), <<>>)
  /\ temp' = Blank /\ UNCHANGED <<loginName, forkMap>>

(* The rest changes no table: what was made, deleted, moved or copied.     *)
NamesResponse ==
  /\ \/ temp.cmd = "createFile"
        /\ Reported("create", MakePath(volume, dirTable, temp.did, temp.name1), <<>>)
     \/ temp.cmd = "delete"
        /\ Reported(IF temp.isdir THEN "rmdir" ELSE "remove",
                    MakePath(volume, dirTable, temp.did, temp.name1), <<>>)
     \/ temp.cmd \in {"rename", "move"} /\ Reported("rename", temp.name1, temp.name2)
     \/ temp.cmd \in {"copy", "exchange"} /\ Reported(temp.cmd, temp.name1, temp.name2)
  /\ temp' = Blank /\ UNCHANGED <<loginName, volume, dirTable, isDirs, forkMap>>

(* Mutant: any answer is taken for that to the last request.               *)
Mine_Any(a) == temp.cmd # None

Mine(a) == a.id = temp.id

(* An answer with another id than that of the last request is not looked   *)
(* at, and a refusal only ends what is remembered.                         *)
OnResponse(a) ==
  IF ~Mine(a) THEN events' = {} /\ UNCHANGED analyzer
  ELSE IF temp.cmd \in {"login", "loginCont"} THEN LoginResponse(a)
  ELSE IF a.result # "ok"
  THEN temp' = (IF temp.cmd = "closeFork" THEN temp ELSE Blank) /\ events' = {}
       /\ UNCHANGED <<loginName, volume, dirTable, isDirs, forkMap>>
  ELSE \/ temp.cmd = "openVol" /\ volume' = "named" /\ temp' = Blank /\ events' = {}
          /\ UNCHANGED <<loginName, dirTable, isDirs, forkMap>>
       \/ temp.cmd = "openFork" /\ OpenForkResponse(a)
       \/ temp.cmd = "closeFork" /\ CloseForkResponse
       \/ temp.cmd \in {"read", "write"} /\ CountResponse
       \/ temp.cmd = "params" /\ ParamsResponse(a)
       \/ temp.cmd = "createDir" /\ CreateDirResponse(a)
       \/ temp.cmd \in {"createFile", "delete", "rename", "move", "copy", "exchange"} /\ NamesResponse

-----------------------------------------------------------------------------
(* The hosts and the capture.                                              *)
Nobody == [name |-> None, in |-> FALSE]
Closed == [open |-> FALSE, path |-> <<>>, readed |-> 0, written |-> 0]
TheUser == CHOOSE u \in Users : TRUE
Folders == {e.did : e \in tree} \ {0}
Init ==
  /\ scenario \in Scenarios
  /\ user = IF scenario.start = "fresh" THEN Nobody ELSE [name |-> TheUser, in |-> TRUE]
  /\ mounted = (scenario.start # "fresh")
  /\ tree = scenario.tree \cup {[parent |-> 1, name |-> Volume, did |-> Root]}
  /\ lastDid = CHOOSE d \in Folders : \A x \in Folders : x <= d
  /\ temp = Blank /\ loginName = IF scenario.start = "mounted" THEN <<TheUser>> ELSE <<>>
  /\ volume = IF scenario.start = "mounted" THEN "named" ELSE "unknown"
  /\ dirTable = <<>> /\ isDirs = {} /\ forkMap = [f \in Forks |-> NoFork]
  /\ forks = [f \in Forks |-> Closed] /\ asked = {} /\ requests = 0 /\ lost = 0
  /\ seen = {} /\ events = {} /\ facts = {}
  /\ odd = IF scenario.start = "joined" THEN {"joined"} ELSE {}

When(condition, kind) == IF condition THEN {kind} ELSE {}
At(did, name) == {e \in tree : e.parent = did /\ e.name = name}
Above(did, levels) == Climb(<<tree>>, did, levels)
Ancestors(did) == {Above(did, n).did : n \in 0..MaxDid}
TruePath(did, name) == <<Volume>> \o Above(did, MaxDid).names \o <<name>>
Opened(path) == {f \in Forks : forks[f].open /\ IsPrefix(path, forks[f].path)}
Who == IF user.in THEN <<user.name>> ELSE <<>>
Missed ==
  /\ lost < scenario.lost /\ lost' = lost + 1
  /\ events' = {} /\ UNCHANGED analyzer

(* The server can do only what the volume allows when it does it.          *)
Possible(r) ==
  CASE r.cmd \in {"read", "write", "closeFork"} -> forks[r.fork].open
    [] r.cmd \in {"login", "loginCont", "openVol", "logout"} -> TRUE
    [] OTHER ->
         LET here == At(r.did, r.name)
             isFile == \E e \in here : e.did = 0
             free == r.toDid \in Folders /\ At(r.toDid, r.to) = {}
         IN /\ r.did \in Folders \cup {1}
            /\ CASE r.cmd \in {"createDir", "createFile"} -> here = {}
                 [] r.cmd = "delete" ->
                      /\ Opened(TruePath(r.did, r.name)) = {}
                      /\ \E e \in here : e.did = 0 \/ \A x \in tree : x.parent # e.did
                 [] r.cmd = "params" -> r.name = None \/ here # {}
                 [] r.cmd = "openFork" -> isFile
                 [] r.cmd = "copy" -> isFile /\ free
                 [] r.cmd = "exchange" -> isFile /\ \E e \in At(r.toDid, r.to) : e.did = 0 /\ e \notin here
                 [] r.cmd \in {"rename", "move"} ->
                      free /\ \E e \in here : e.did = 0 \/ e.did \notin Ancestors(r.toDid)

(* The client sends a request, and the capture sees it or misses it.       *)
Send(r, told, kinds) ==
  /\ r.cmd \in scenario.commands /\ Possible(r)
  /\ requests < scenario.requests /\ requests' = requests + 1
  /\ Cardinality(asked) < scenario.window /\ asked' = asked \cup {r}
  /\ facts' = told
  /\ LET all == kinds \cup When(asked # {}, "pipelined")
     IN \/ OnRequest(r) /\ UNCHANGED lost /\ odd' = odd \cup all
        \/ Missed /\ odd' = odd \cup all \cup {"lost"}
  /\ seen' = IF r.cmd = "logout" THEN {} ELSE seen
  /\ UNCHANGED <<scenario, tree, lastDid>>
Request(cmd, did, name, toDid, to) ==
  [cmd |-> cmd, id |-> requests + 1, did |-> did, name |-> name, toDid |-> toDid, to |-> to, fork |-> None]
OnFork(cmd, f) == [Request(cmd, 0, None, 0, None) EXCEPT !.fork = f]

(* A name that is left from a request or a user before.                    *)
OtherName(name, u) == When(name \notin {<<>>, <<u>>}, "otherName")

Login ==
  /\ \A r \in asked : r.cmd \notin {"login", "loginCont"}
  /\ ~user.in /\ UNCHANGED <<user, mounted, forks>>
  /\ \/ user.name = None /\ \E u \in scenario.users : Send(Request("login", 0, u, 0, None), {}, {})
     \/ user.name # None /\ Send(Request("loginCont", 0, user.name, 0, None), {},
                                   OtherName(temp.name1, user.name))

OpenVol ==
  /\ user.in /\ ~mounted /\ UNCHANGED <<user, mounted, forks>>
  /\ Send(Request("openVol", 0, None, 0, None), {}, {})

(* Folders may be unknown because the capture never saw an answer that     *)
(* told of them: the client has the ids from answers that are not read.    *)
Unseen(dids) == When(~(UNION {Ancestors(d) : d \in dids} \subseteq seen \cup {Root}), "unseen")
Deep(dids) == When(\E d \in dids : Len(Above(d, MaxDid).names) >= NestLimit, "deep")
OneName ==
  /\ user.in /\ mounted /\ UNCHANGED <<user, mounted, forks>>
  /\ \E cmd \in scenario.commands \cap {"params", "createDir", "createFile", "delete", "openFork"}, d \in Folders \cup {1},
        name \in scenario.names \cup {Volume, None} :
       /\ d = 1 => cmd = "params"
       /\ name = Volume <=> d = 1
       /\ name = None => cmd = "params"
       /\ LET gone == {e.did : e \in At(d, name)} \ {0}
          IN Send(Request(cmd, d, name, 0, None), {},
                  IF cmd = "params" THEN {}
                  ELSE Deep({d}) \cup Unseen({d} \cup IF cmd = "delete" THEN gone ELSE {}))

TwoNames ==
  /\ user.in /\ mounted /\ UNCHANGED <<user, mounted, forks>>
  /\ \E cmd \in scenario.commands \cap {"rename", "move", "copy", "exchange"}, d, toDid \in Folders, name, to \in scenario.names :
       /\ cmd = "rename" => toDid = d
       /\ Send(Request(cmd, d, name, toDid, to), {}, Unseen({d, toDid}) \cup Deep({d, toDid}))

OnOpenFork ==
  /\ user.in /\ mounted /\ UNCHANGED <<user, mounted, forks>>
  /\ \E cmd \in {"read", "write", "closeFork"}, f \in Forks : Send(OnFork(cmd, f), {}, {})

Logout ==
  /\ user.in /\ user' = Nobody /\ mounted' = FALSE /\ forks' = [f \in Forks |-> Closed]
  /\ Send(Request("logout", 0, None, 0, None), {Event("logout", Who, <<>>, <<>>, 0)},
          When(asked # {}, "unanswered"))

-----------------------------------------------------------------------------
(* The server answers, and the capture sees the answer or misses it.       *)
Nothing == [fork |-> None, form |-> None, parent |-> 0, did |-> 0, name |-> None]
Answer(r, result, more, told, kinds) ==
  /\ asked' = asked \ {r}
  /\ result # "failed" => Possible(r)
  /\ result = "failed" /\ Possible(r) => r.cmd \in scenario.failures
  /\ LET a == [id |-> r.id, result |-> result, fork |-> more.fork, form |-> more.form,
               parent |-> more.parent, did |-> more.did, name |-> more.name]
     IN \/ OnResponse(a) /\ UNCHANGED lost /\ seen' = seen \cup told /\ odd' = odd \cup kinds
        \/ Missed /\ UNCHANGED seen /\ odd' = odd \cup kinds \cup {"lost"}
  /\ UNCHANGED <<scenario, requests>>

LoggedIn(r) ==
  /\ r.cmd \in {"login", "loginCont"} /\ UNCHANGED <<mounted, tree, lastDid, forks>>
  /\ \E result \in {"ok", "failed", "continue"} :
       /\ result = "continue" => r.cmd = "login" /\ "loginCont" \in scenario.commands
       /\ user' = IF result = "failed" THEN Nobody ELSE [name |-> r.name, in |-> result = "ok"]
       /\ facts' = IF result = "continue" THEN {}
                   ELSE {Event(IF result = "ok" THEN "login" ELSE "loginfailed", <<r.name>>, <<>>, <<>>, 0)}
       /\ Answer(r, result, Nothing, {}, OtherName(loginName, r.name))

Mounted(r) ==
  /\ r.cmd \in {"openVol", "logout"} /\ facts' = {} /\ UNCHANGED <<user, tree, lastDid, forks>>
  /\ mounted' = (mounted \/ (r.cmd = "openVol" /\ user.in))
  /\ Answer(r, "ok", Nothing, {}, {})

(* What an answer tells of an entry, and the folders that it tells of.     *)
Described(r) ==
  /\ r.cmd = "params" /\ facts' = {} /\ UNCHANGED <<user, mounted, tree, lastDid, forks>>
  /\ \/ Answer(r, "failed", Nothing, {}, {})
     \/ \E form \in scenario.forms,
           e \in IF r.name = None THEN {x \in tree : x.did = r.did} ELSE At(r.did, r.name) :
          LET told == IF e.did = 0 \/ (form = "long" <=> r.name # None) THEN {} ELSE {e.did}
          IN Answer(r, "ok",
                    [Nothing EXCEPT !.form = form, !.parent = e.parent, !.did = e.did, !.name = e.name],
                    told, When(Cardinality(seen \cup told) > MapSize + 1, "many"))

(* The server gives a folder an id that was never given before.            *)
Made(r) ==
  /\ r.cmd \in {"createDir", "createFile"} /\ UNCHANGED <<user, mounted, forks>>
  /\ LET did == IF r.cmd = "createFile" THEN 0 ELSE lastDid + 1
     IN \/ /\ Answer(r, "failed", Nothing, {}, {})
           /\ facts' = {} /\ UNCHANGED <<tree, lastDid>>
        \/ /\ did <= MaxDid /\ lastDid' = IF did = 0 THEN lastDid ELSE did
           /\ tree' = tree \cup {[parent |-> r.did, name |-> r.name, did |-> did]}
           /\ facts' = {Event(IF did = 0 THEN "create" ELSE "mkdir", Who, TruePath(r.did, r.name), <<>>, 0)}
           /\ Answer(r, "ok", [Nothing EXCEPT !.did = did], {did} \ {0},
                     When(Cardinality(seen \cup ({did} \ {0})) > MapSize + 1, "many"))

Changed(r) ==
  /\ r.cmd \in {"delete", "rename", "move", "copy", "exchange"} /\ UNCHANGED <<user, mounted, lastDid, forks>>
  /\ LET from == TruePath(r.did, r.name)
         to == TruePath(r.toDid, r.to)
         here == At(r.did, r.name)
         there == {[parent |-> r.toDid, name |-> r.to, did |-> e.did] : e \in here}
         folder == \E e \in here : e.did # 0
     IN \/ /\ Answer(r, "failed", Nothing, {}, When(r.cmd = "delete", "kept"))
           /\ facts' = {} /\ UNCHANGED tree
        \/ /\ tree' = CASE r.cmd = "delete" -> tree \ here
                        [] r.cmd \in {"rename", "move"} -> (tree \ here) \cup there
                        [] r.cmd = "copy" -> tree \cup there
                        [] OTHER -> tree
           /\ facts' = {CASE r.cmd = "delete" -> Event(IF folder THEN "rmdir" ELSE "remove", Who, from, <<>>, 0)
                          [] r.cmd \in {"rename", "move"} -> Event("rename", Who, from, to, 0)
                          [] OTHER -> Event(r.cmd, Who, from, to, 0)}
           /\ Answer(r, "ok", Nothing, {},
                     When(r.cmd \in {"rename", "move"} /\ (folder \/ Opened(from) # {}), "renamed"))

ForkOpened(r) ==
  /\ r.cmd = "openFork" /\ facts' = {} /\ UNCHANGED <<user, mounted, tree, lastDid>>
  /\ \/ Answer(r, "failed", Nothing, {}, {}) /\ UNCHANGED forks
     \/ \E f \in {x \in Forks : ~forks[x].open /\ \A q \in asked : q.fork # x} :
          /\ forks' = [forks EXCEPT ![f] = [Closed EXCEPT !.open = TRUE, !.path = TruePath(r.did, r.name)]]
          /\ Answer(r, "ok", [Nothing EXCEPT !.fork = f], {}, When(forkMap[f].known, "reused"))

(* A read that meets the end of the file brings data with an error.        *)
ForkUsed(r) ==
  /\ r.cmd \in {"read", "write"} /\ facts' = {} /\ UNCHANGED <<user, mounted, tree, lastDid>>
  /\ \/ Answer(r, "failed", Nothing, {}, {}) /\ UNCHANGED forks
     \/ \E result \in {"ok"} \cup When(r.cmd = "read", "eof") :
          /\ forks' = IF r.cmd = "read" THEN [forks EXCEPT ![r.fork].readed = @ + 1]
                      ELSE [forks EXCEPT ![r.fork].written = @ + 1]
          /\ Answer(r, result, Nothing, {}, When(result = "eof", "eof"))

ForkClosed(r) ==
  /\ r.cmd = "closeFork" /\ UNCHANGED <<user, mounted, tree, lastDid>>
  /\ \/ Answer(r, "failed", Nothing, {}, {}) /\ facts' = {} /\ UNCHANGED forks
     \/ LET f == forks[r.fork]
        IN /\ forks' = [forks EXCEPT ![r.fork] = Closed]
           /\ facts' = {Event("read", Who, f.path, <<>>, n) : n \in {f.readed} \ {0}}
                       \cup {Event("write", Who, f.path, <<>>, n) : n \in {f.written} \ {0}}
           /\ Answer(r, "ok", Nothing, {}, {})

Respond ==
  \E r \in asked : LoggedIn(r) \/ Mounted(r) \/ Described(r) \/ Made(r) \/ Changed(r)
                   \/ ForkOpened(r) \/ ForkUsed(r) \/ ForkClosed(r)

Next == Login \/ OpenVol \/ OneName \/ TwoNames \/ OnOpenFork \/ Logout \/ Respond
Spec == Init /\ [][Next]_vars

-----------------------------------------------------------------------------
(* Where the dispatcher goes wrong: it has nothing against a capture that  *)
(* begins late or misses a message, several requests under way, a deletion *)
(* that is refused, a folder or an open file that is renamed, the end of a *)
(* file, a folder no answer told of, more folders than fit a map, and more *)
(* levels than it climbs.                                                  *)
Usual == odd = {}
Misleading == {"renamed", "reused", "otherName", "unanswered"}

(* What is reported is what happened, in the step that shows it, with the  *)
(* full path that the tables give, as long as nothing of that did happen.  *)
Exact == Usual => events = facts

(* The dispatcher's copy of the open forks, of the user and of the folders *)
(* it was told of is the server's.                                         *)
InStep ==
  Usual =>
    /\ user.in => loginName = Who
    /\ \A f \in Forks : /\ forkMap[f].known <=> forks[f].open
                        /\ forkMap[f].name = forks[f].path
                        /\ forkMap[f].readed = forks[f].readed /\ forkMap[f].written = forks[f].written
    /\ \A e \in tree : e.did \in seen => e \in FindDid(dirTable, e.did)

(* What is missed takes reports away, or names: the user's, or the first   *)
(* folders of a path. It adds no report.                                   *)
PartOf(p, q) ==
  \/ IsSuffix(p, q)
  \/ p # <<>> /\ Head(p) \in {Volume, "id"} /\ IsSuffix(Tail(p), q)
Covers(f, e) ==
  /\ e.op = f.op \/ {e.op, f.op} = {"remove", "rmdir"}
  /\ e.user \in {f.user, <<>>} /\ e.size <= f.size
  /\ PartOf(e.path, f.path) /\ PartOf(e.to, f.to)
NothingInvented == odd \cap Misleading = {} => \A e \in events : \E f \in facts : Covers(f, e)

(* A folder in the table is the folder of the volume with that id, in      *)
(* whatever order the answers came and whatever was missed, unless folders *)
(* are renamed.                                                            *)
FoldersNamed ==
  "renamed" \notin odd => \A e \in {x \in tree : x.did # 0} : FindDid(dirTable, e.did) \subseteq {e}
=============================================================================

----------------------------- MODULE NfsSession ------------------------------
(***************************************************************************)
(* The dispatcher of RPC, the mount protocol and NFS version 3             *)
(* (on_rpc_packet), with the table of ports that decides which connections *)
(* are read at all. It keeps the last call of a connection, and the names  *)
(* of the file handles the connection told of. It reports to the log only. *)
(* Against it: a client with one connection to the port mapper, one to     *)
(* the mount service and one to the file server, or one for both, a server *)
(* with a tree of files, and a capture that may miss messages.             *)
(***************************************************************************)
EXTENDS Integers, Sequences, FiniteSets, SequencesExt

CONSTANTS
  Names,      \* names of files and folders
  Export,     \* the directory that is mounted, its handle is Root
  MaxHandle,  \* bound: the last file handle; 0 stands for bytes that are none
  Scenarios   \* what the hosts do, as records:
    \* start     "fresh" or "mounted": the client knows no handle, or all of them
    \* shared    one connection serves mounts and files
    \* ports     connections known before, by an earlier client
    \* tree, folders
    \*           what is below the export at the beginning; handles of the folders
    \* commands  the procedures the client calls
    \* failures  of "status" and "accept": an operation or a call may be refused
    \* requests, window, unseen
    \*           bounds: calls, calls under way at once, messages not looked at

None == "none"
Root == 1
Handles == 0..MaxHandle
Connections == {"portmap", "mount", "nfs"}

VARIABLES
  sessions,  \* session_data_t of each connection
  ports,     \* stream_type_map of the server: the connections that are read
  lines,     \* what the last message made the log say
  \* the hosts
  scenario, asked, requests, unseen,
  tree, gone,  \* entries of all files there ever were; handles of the removed
  held,        \* the handles the client knows
  told,      \* history: handles whose names were told on a connection
  facts,     \* the operation the last message answered
  odd        \* history: the kinds of unusual things that have happened

vars == <<sessions, ports, lines, scenario, asked, requests, unseen, tree, gone, held, told, facts, odd>>

-----------------------------------------------------------------------------
(* A session as created; its last call is whatever the memory held.        *)
Blank == [called |-> FALSE, xid |-> 0, proc |-> None, param |-> None, handle |-> 0,
          name |-> None, path |-> <<>>, paths |-> <<>>, deaf |-> FALSE]
Nothing == [proc |-> None, path |-> <<>>, due |-> FALSE]

Procedures == {"getport", "mount", "umount", "lookup", "read", "write", "create", "remove", "other"}
MountConnection == IF scenario.shared THEN "nfs" ELSE "mount"
ConnectionOf(proc) == CASE proc = "getport" -> "portmap"
                        [] proc \in {"mount", "umount"} -> MountConnection
                        [] OTHER -> "nfs"

IsPath(p) == p \in Seq(Names \cup {Export, "?", "..", None}) /\ Len(p) <= MaxHandle + scenario.requests
TypeOK ==
  /\ ports \subseteq Connections /\ held \subseteq Handles /\ gone \subseteq Handles
  /\ \A c \in Connections :
       /\ sessions[c].xid \in 0..scenario.requests /\ sessions[c].proc \in Procedures \cup {None}
       /\ sessions[c].handle \in Handles /\ IsPath(sessions[c].path)
       /\ DOMAIN sessions[c].paths \subseteq Handles
       /\ \A h \in DOMAIN sessions[c].paths : IsPath(sessions[c].paths[h])
       /\ c \notin ports => sessions[c] = Blank
  /\ Cardinality(lines) <= 1 /\ \A l \in lines : IsPath(l.path)

-----------------------------------------------------------------------------
(* The dispatcher.                                                         *)

(* A call: the last one of the connection is forgotten, answered or not.   *)
Recorded(s, r) ==
  LET call == [s EXCEPT !.called = TRUE, !.xid = r.xid, !.proc = r.proc]
      dir == IF r.handle \in DOMAIN s.paths THEN s.paths[r.handle] ELSE <<>>
  IN CASE r.proc \in {"getport", "mount", "umount"} -> [call EXCEPT !.param = r.param]
       [] r.proc = "lookup" -> [call EXCEPT !.handle = r.handle, !.name = r.name]
       [] r.proc \in {"read", "write"} -> [call EXCEPT !.handle = r.handle]
       [] r.proc \in {"create", "remove"} ->
            [call EXCEPT !.path = (IF dir = <<>> THEN <<"?">> ELSE dir) \o <<r.name>>]
       [] OTHER -> call

(* The function f with one more value.                                     *)
Put(f, x, y) == [z \in DOMAIN f \cup {x} |-> IF z = x THEN y ELSE f[z]]

(* Mutant: a looked up name stands alone, whatever its folder.             *)
LookedUp_NotBelow(s, reply) ==
  [s EXCEPT !.paths = Put(@, IF reply.ok THEN reply.handle ELSE 0, <<Export, s.name>>)]

(* The name of a handle that was looked up; the answer is read like one of *)
(* success.                                                                *)
LookedUp(s, reply) ==
  LET dir == IF s.handle \in DOMAIN s.paths THEN s.paths[s.handle] ELSE <<>>
  IN [s EXCEPT !.paths = Put(@, IF reply.ok THEN reply.handle ELSE 0, dir \o <<s.name>>)]

(* Mutant: the answer to any call is taken for that to the last one.       *)
Answers_Any(s, reply) == IF s.called THEN {s.proc} ELSE Procedures \cup {None}

(* The calls that an answer is taken to answer. Before the first call, the *)
(* number it is compared with was never written.                           *)
Answers(s, reply) ==
  IF s.called THEN {IF s.xid = reply.xid THEN s.proc ELSE None} ELSE Procedures \cup {None}

(* Mutant: the names go when a file is removed.                            *)
Session_Forgets(s, proc, reply) ==
  CASE proc = "mount" /\ reply.ok -> [s EXCEPT !.paths = Put(@, reply.handle, <<Export>>)]
    [] proc = "umount" -> Blank
    [] proc = "lookup" /\ reply.accepted -> LookedUp(s, reply)
    [] proc = "remove" -> [s EXCEPT !.paths = <<>>]
    [] OTHER -> s

(* The session after an answer. A umount leaves no protocol to watch for,  *)
(* and the session goes.                                                   *)
Session(s, proc, reply) ==
  CASE proc = "mount" /\ reply.ok -> [s EXCEPT !.paths = Put(@, reply.handle, <<Export>>)]
    [] proc = "umount" -> Blank
    [] proc = "lookup" /\ reply.accepted -> LookedUp(s, reply)
    [] OTHER -> s

(* What is logged of an operation on a file. A read or a write counts when *)
(* the call was accepted, the others in any case.                          *)
Lines(s, proc, reply) ==
  CASE proc \in {"read", "write"} /\ reply.accepted /\ s.handle \in DOMAIN s.paths ->
         {[proc |-> proc, path |-> s.paths[s.handle]]}
    [] proc \in {"create", "remove"} -> {[proc |-> proc, path |-> s.path]}
    [] OTHER -> {}

Ports(s, proc) == IF proc = "getport" /\ s.param # None THEN ports \cup {s.param} ELSE ports

(* A connection is read when its port is the port mapper's, or one that    *)
(* was told.                                                               *)
Watched(c) == c \in ports

-----------------------------------------------------------------------------
(* The server.                                                             *)

Children(h) == {e \in tree : e.parent = h /\ e.handle \notin gone}
Named(h, name) == {e \in Children(h) : e.name = name}
Entry(h) == CHOOSE e \in tree : e.handle = h
NextHandle == 2 + Cardinality(tree)

(* The path of a file from the export.                                     *)
TruePath(h) ==
  LET up[n \in 0..MaxHandle] ==
        IF n = 0 THEN [at |-> h, path |-> <<>>]
        ELSE LET last == up[n - 1]
             IN IF last.at = Root THEN last
                ELSE [at |-> Entry(last.at).parent, path |-> <<Entry(last.at).name>> \o last.path]
  IN <<Export>> \o up[MaxHandle].path

(* The handle and the success of an operation, as the server has it.       *)
Found(r) ==
  CASE r.proc = "mount" -> {Root}
    [] r.proc = "lookup" /\ r.name = ".." -> IF r.handle = Root THEN {} ELSE {Entry(r.handle).parent}
    [] r.proc = "lookup" /\ r.name # ".." -> {e.handle : e \in Named(r.handle, r.name)}
    [] r.proc = "remove" -> {e.handle : e \in Named(r.handle, r.name)} \ scenario.folders
    [] r.proc = "create" -> IF r.handle \in gone \/ Named(r.handle, r.name) # {} THEN {} ELSE {NextHandle} \cap Handles
    [] r.proc \in {"read", "write"} -> {r.handle} \ gone
    [] OTHER -> {0}

(* The handle an operation gives, and the path of what it is about.        *)
Given(r, ok) == IF ok THEN CHOOSE h \in Found(r) : TRUE ELSE 0
PathOf(r) == CASE r.proc \in {"create", "remove"} -> TruePath(r.handle) \o <<r.name>>
               [] r.proc \in {"read", "write"} -> TruePath(r.handle)
               [] OTHER -> <<>>

(* What the server does.                                                   *)
Serve(r, handle, ok) ==
  /\ tree' = IF ok /\ r.proc = "create"
             THEN tree \cup {[parent |-> r.handle, name |-> r.name, handle |-> handle]} ELSE tree
  /\ gone' = IF ok /\ r.proc = "remove" THEN gone \cup {handle} ELSE gone
  /\ held' = IF ok /\ r.proc \in {"mount", "lookup", "create"} THEN held \cup {handle} ELSE held

-----------------------------------------------------------------------------
Init ==
  /\ scenario \in Scenarios
  /\ sessions = [c \in Connections |-> Blank] /\ ports = scenario.ports \cup {"portmap"} /\ lines = {}
  /\ asked = {} /\ requests = 0 /\ unseen = 0
  /\ tree = scenario.tree /\ gone = {}
  /\ held = IF scenario.start = "fresh" THEN {} ELSE {Root} \cup {e.handle : e \in scenario.tree}
  /\ told = [c \in Connections |-> {}] /\ facts = Nothing /\ odd = {}

(* The calls the client may make.                                          *)
Calls ==
  LET Make(proc, param, handle, name) ==
        [conn |-> ConnectionOf(proc), xid |-> requests + 1, proc |-> proc, param |-> param,
         handle |-> handle, name |-> name, seen |-> FALSE]
      folders == held \cap scenario.folders
      files == held \ folders
  IN  {Make("getport", c, 0, None) : c \in {"nfs", MountConnection}}
      \cup {Make(proc, Export, 0, None) : proc \in {"mount", "umount"}}
      \cup {Make("lookup", None, h, n) : h \in folders, n \in Names \cup {".."}}
      \cup {Make(proc, None, h, n) : proc \in {"create", "remove"}, h \in folders, n \in Names}
      \cup {Make(proc, None, h, None) : proc \in {"read", "write"}, h \in files}
      \cup {Make("other", None, 0, None)}

(* A call that is looked at.                                               *)
Call ==
  \E r \in Calls :
    /\ requests < scenario.requests /\ Cardinality(asked) < scenario.window
    /\ r.proc \in scenario.commands /\ (r.name = ".." => "dotdot" \in scenario.commands)
    /\ LET read == Watched(r.conn) /\ ~ sessions[r.conn].deaf
       IN /\ asked' = asked \cup {[r EXCEPT !.seen = read]}
          /\ sessions' = IF read THEN [sessions EXCEPT ![r.conn] = Recorded(@, r)] ELSE sessions
    /\ requests' = requests + 1 /\ lines' = {} /\ facts' = Nothing
    /\ odd' = odd \cup (IF \E a \in asked : a.conn = r.conn THEN {"several"} ELSE {})
                  \cup (IF r.name = ".." THEN {"dotdot"} ELSE {})
    /\ UNCHANGED <<ports, scenario, unseen, tree, gone, held, told>>

(* A call that the capture misses, or that stands behind another one in    *)
(* its segment. A gap ends the wait for the rest of a message.             *)
CallUnseen ==
  \E r \in Calls :
    /\ requests < scenario.requests /\ Cardinality(asked) < scenario.window
    /\ unseen < scenario.unseen
    /\ r.proc \in scenario.commands /\ r.name # ".."
    /\ asked' = asked \cup {r} /\ requests' = requests + 1 /\ unseen' = unseen + 1
    /\ sessions' = [sessions EXCEPT ![r.conn].deaf = FALSE]
    /\ odd' = odd \cup {"unseen"} /\ lines' = {} /\ facts' = Nothing
    /\ UNCHANGED <<ports, scenario, tree, gone, held, told>>

(* The rest of a long write, a segment of its own, read as a call: it is   *)
(* none, or it replaces the last one, or its lengths make the dispatcher   *)
(* wait for more than will ever come.                                      *)
RestOfWrite ==
  /\ "large" \in scenario.commands
  /\ \E r \in asked :
       /\ r.proc = "write" /\ Watched("nfs") /\ ~ sessions["nfs"].deaf
       /\ \/ sessions' = [sessions EXCEPT !["nfs"].called = TRUE, !["nfs"].xid = 0, !["nfs"].proc = "other"]
          \/ sessions["nfs"].called /\ sessions' = [sessions EXCEPT !["nfs"].deaf = TRUE]
  /\ odd' = odd \cup {"large"} /\ lines' = {} /\ facts' = Nothing
  /\ UNCHANGED <<ports, scenario, asked, requests, unseen, tree, gone, held, told>>

(* An answer that is looked at, and the procedure it is taken to answer.   *)
AnswerTo(r, accepted, wanted, proc) ==
  LET ok == accepted /\ wanted /\ Found(r) # {}
      reply == [xid |-> r.xid, accepted |-> accepted, ok |-> ok, handle |-> Given(r, ok)]
      s == sessions[r.conn]
  IN /\ ~ accepted => "accept" \in scenario.failures
     /\ ~ wanted => accepted /\ "status" \in scenario.failures
     /\ Watched(r.conn) /\ proc \in Answers(s, reply)
     /\ Serve(r, reply.handle, ok)
     /\ sessions' = [sessions EXCEPT ![r.conn] = Session(s, proc, reply)]
     /\ ports' = Ports(s, proc)
     /\ lines' = Lines(s, proc, reply)
     /\ facts' = [proc |-> r.proc, path |-> PathOf(r),
                  due |-> /\ r.seen /\ accepted
                          /\ \/ r.proc \in {"create", "remove"}
                             \/ r.proc \in {"read", "write"} /\ r.handle \in told[r.conn]]
     /\ told' = [told EXCEPT ![r.conn] =
                   IF r.proc = "umount" THEN {}
                   ELSE IF r.seen /\ ok /\ r.proc \in {"mount", "lookup"} THEN @ \cup {reply.handle} ELSE @]
     /\ odd' = odd \cup (IF s.called \/ proc = None THEN {} ELSE {"garbage"})
                   \cup (IF r.proc = "umount" THEN {"umounted"} ELSE {})
     /\ asked' = asked \ {r}
     /\ UNCHANGED <<scenario, requests, unseen>>

(* Answers come in any order; an answer is looked at, or it is missed or   *)
(* stands behind another one.                                              *)
Answer ==
  \E r \in asked : \E accepted, wanted \in BOOLEAN : \E proc \in Procedures \cup {None} :
    AnswerTo(r, accepted, wanted, proc)

AnswerUnseen ==
  \E r \in asked : \E wanted \in BOOLEAN :
    LET ok == wanted /\ Found(r) # {}
    IN /\ ~ wanted => "status" \in scenario.failures
       /\ \/ ~ Watched(r.conn) /\ UNCHANGED <<unseen, odd>>
          \/ unseen < scenario.unseen /\ unseen' = unseen + 1 /\ odd' = odd \cup {"unseen"}
       /\ Serve(r, Given(r, ok), ok)
       /\ told' = IF r.proc = "umount" THEN [told EXCEPT ![r.conn] = {}] ELSE told
       /\ asked' = asked \ {r} /\ lines' = {} /\ facts' = Nothing
       /\ UNCHANGED <<sessions, ports, scenario, requests>>

(* A name changes by a procedure that the dispatcher does not know; it     *)
(* takes the place of the last call.                                       *)
Rename ==
  /\ "rename" \in scenario.commands /\ requests < scenario.requests /\ asked = {}
  /\ \E e \in tree : \E n \in Names :
       /\ {e.handle, e.parent} \cap gone = {} /\ Named(e.parent, n) = {} /\ e.parent \in held
       /\ tree' = (tree \ {e}) \cup {[e EXCEPT !.name = n]}
  /\ requests' = requests + 1
  /\ sessions' = IF Watched("nfs") /\ ~ sessions["nfs"].deaf
                 THEN [sessions EXCEPT !["nfs"].called = TRUE, !["nfs"].xid = requests + 1, !["nfs"].proc = "other"]
                 ELSE sessions
  /\ odd' = odd \cup {"renamed"} /\ lines' = {} /\ facts' = Nothing
  /\ UNCHANGED <<ports, scenario, asked, unseen, gone, held, told>>

Next == Call \/ CallUnseen \/ RestOfWrite \/ Answer \/ AnswerUnseen \/ Rename
Spec == Init /\ [][Next]_vars

-----------------------------------------------------------------------------
(* A path that was logged fits a file: it is the end of the file's path,   *)
(* or the name after a mark for an unknown folder.                         *)
Fits(path, true) == IsSuffix(IF Head(path) = "?" THEN Tail(path) ELSE path, true)

Misleading == {"renamed", "dotdot", "garbage"}

(* A line of the log is of the operation that was answered, with the end   *)
(* of its path, whatever else is under way, missed or refused.             *)
(* (cw_analizer_nfs.cpp on_rpc_packet)                                     *)
Answered ==
  odd \cap Misleading = {} =>
    \A l \in lines : l.proc = facts.proc /\ Fits(l.path, facts.path)

(* With one call at a time, and writes of one segment, each operation on a *)
(* file is logged whose call and answer were seen; a read or a write, when *)
(* the connection told of the file before. What else was missed does not   *)
(* matter.                                                                 *)
(* (cw_analizer_nfs.cpp on_rpc_packet)                                     *)
InStep ==
  odd \cap {"several", "large"} = {} /\ facts.due => \E l \in lines : l.proc = facts.proc

(* The name of a handle is the end of its path. When one connection serves *)
(* mounts and files, and is read from its beginning, it is all of it.      *)
(* (cw_analizer_nfs.cpp on_rpc_packet)                                     *)
HandlesNamed ==
  odd \cap Misleading = {} =>
    \A c \in Connections : \A h \in DOMAIN sessions[c].paths \ {0} :
      /\ IsSuffix(sessions[c].paths[h], TruePath(h))
      /\ odd = {} /\ scenario.shared /\ scenario.start = "fresh" /\ c \in scenario.ports =>
           sessions[c].paths[h] = TruePath(h)
=============================================================================

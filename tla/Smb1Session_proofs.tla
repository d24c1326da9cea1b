------------------------- MODULE Smb1Session_proofs -------------------------
(***************************************************************************)
(* Proofs about Smb1Session and AfpSession, for every set of ids, users,   *)
(* shares, forks and names, every size of the tables and every scenario:   *)
(* for each what holds whatever happens, what holds until something        *)
(* unusual happens, and that every step keeps it. The theorems, which say  *)
(* it of both, are last.                                                   *)
(***************************************************************************)
EXTENDS MCSmb1Session, SequenceTheorems, FiniteSetTheorems, WellFoundedInduction, TLAPS

--------------------------------
(* SMB1: what holds of the dispatcher and of the hosts whatever happens. *)

Entries == [cmd : scenario.commands \cup {None}, id : 0..scenario.requests, user : Users,
            name : Names \cup {NoName}, to : Names \cup {NoName}, fid : Fids \cup {None}, size : 0..2]
States == [known : BOOLEAN, isipc : BOOLEAN, isdirectory : BOOLEAN, delete : BOOLEAN,
           path : Paths, readed : Nat, written : Nat]
UserStates == [known : BOOLEAN, name : Users, trees : [Trees -> Shares \cup {None}], files : [Fids -> States]]
OpenFiles == [open : BOOLEAN, uid : Uids \cup {None}, tid : Trees, directory : BOOLEAN,
              delete : BOOLEAN, path : (Shares \cup {None}) \X (Names \cup {NoName}), readed : Nat, written : Nat]
Counted == {"close", "read", "write"}
Types ==
  /\ temp \in Seq(Entries) /\ Len(temp) <= TempLimit
  /\ \A i \in 1..Len(temp) : temp[i].cmd \in Counted => temp[i].fid \in Fids
  /\ treeCache \in [1..scenario.requests -> Shares \cup {None}] /\ userData \in [Uids -> UserStates]
  /\ \A u \in Uids : /\ ~userData[u].known => userData[u] = NoUser
                     /\ \A f \in Fids : ~userData[u].files[f].known => userData[u].files[f] = Unknown
  /\ users \in [Uids -> Users \cup {None}] /\ trees \in [Tids -> (Uids \cup {None}) \X (Shares \cup {None})]
  /\ files \in [Fids -> OpenFiles]
  /\ requests \in Nat /\ requests <= scenario.requests /\ scenario \in Scenarios

(* The bytes counted for a file and the requests under way are together *)
(* not more than the requests that were made. *)
Counts ==
  /\ IsFiniteSet(asked)
  /\ \A u \in Uids, f \in Fids :
       /\ userData[u].files[f].readed + Cardinality(asked) <= requests
       /\ userData[u].files[f].written + 2 * Cardinality(asked) <= 2 * requests

OnTrees == Opens \cup OfNames
OnFiles == Counted \cup {"dispose"}
Kinds == OnTrees \cup OnFiles \cup {"setup", "tcon", "tdis", "logoff"}

(* What the client keeps to. *)
Asks(r) ==
  /\ r.cmd \in Kinds /\ r.id \in 1..requests
  /\ r.cmd = "setup" => r.user \in Users /\ r.share \in Shares \cup {None} /\ (r.share # None => r.form = "plain")
  /\ r.cmd # "setup" => r.uid \in Uids /\ users[r.uid] # None
  /\ r.cmd = "tcon" => r.share \in Shares
  /\ r.cmd = "tdis" => r.tid \in Tids /\ trees[r.tid][1] = r.uid
  /\ r.cmd \in OnTrees => r.tid \in Tids /\ r.name \in Names /\ r.to \in Names \cup {NoName}
  /\ r.cmd \in Opens => /\ r.directory \in BOOLEAN /\ r.delete \in BOOLEAN
                        /\ r.cmd # "ntcreate" => ~r.directory
  /\ r.cmd \in OnFiles => r.fid \in Fids /\ (files[r.fid].open => files[r.fid].uid = r.uid)
  /\ r.cmd \in Counted => r.size = IF r.cmd = "write" THEN 2 ELSE 0
  /\ r.cmd = "dispose" => r.on \in BOOLEAN
Together(r, q) ==
  /\ r.id = q.id => r = q
  /\ r.cmd = "setup" /\ q.cmd = "setup" => r = q
  /\ q.cmd = "logoff" /\ r.cmd # "setup" /\ r.uid = q.uid => r = q
  /\ q.cmd = "close" /\ r.cmd = "close" /\ q.fid = r.fid => r = q
  /\ q.cmd = "tdis" /\ r.cmd \in OnTrees /\ r.uid = q.uid => r.tid # q.tid
  /\ q.cmd = "tdis" /\ r.cmd = "tdis" /\ r.uid = q.uid => r = q
Asked == (\A r \in asked : Asks(r)) /\ \A r, q \in asked : Together(r, q)

Leaving(u) == \E r \in asked : r.cmd = "logoff" /\ r.uid = u
Hosts ==
  /\ \A t \in Tids : \/ trees[t] = <<None, None>>
                     \/ trees[t] \in Uids \X Shares /\ users[trees[t][1]] # None
  /\ \A f \in Fids : \/ files[f] = NotOpen
                     \/ /\ files[f].open /\ files[f].uid \in Uids /\ users[files[f].uid] # None
                        /\ files[f].tid \in Tids
  /\ "shared" \notin odd => \A r \in asked : r.cmd \in OnTrees => trees[r.tid][1] = r.uid
  /\ "undelete" \notin odd => \A r \in asked : r.cmd = "dispose" => r.on
  /\ "evicted" \notin odd => \A r \in asked : r.cmd = "close" => files[r.fid].open

(* The entry that is found under the command and the id of a request is *)
(* that request's. *)
Newest(i, cmd, id) ==
  /\ temp[i].cmd = cmd /\ temp[i].id = id
  /\ \A j \in 1..(i - 1) : ~(temp[j].cmd = cmd /\ temp[j].id = id)
Tells(e, r) ==
  /\ r.cmd = "setup" => r.form # "negotiate" /\ e.user = r.user
  /\ r.cmd \in OnTrees => e.name = r.name /\ e.to = r.to
  /\ r.cmd \in Counted => e.fid = r.fid /\ (r.cmd = "write" => e.size = 2)
Answered == OnTrees \cup Counted \cup {"setup"}
ReadAgain == {"lost", "again"} \subseteq odd
OwnEntries ==
  /\ \A i \in 1..Len(temp) : temp[i].id <= requests
  /\ "lost" \notin odd =>
       /\ \A i \in 1..Len(temp) : temp[i].cmd = "close" => \E r \in asked : r.cmd = "close" /\ r.id = temp[i].id
       /\ \A i, j \in 1..Len(temp) : temp[i].cmd = "close" /\ temp[j].cmd = "close" /\ temp[i].id = temp[j].id => i = j
  /\ ~ReadAgain /\ "negotiate" \notin odd =>
       \A r \in asked : r.cmd \in Answered =>
         \A i \in 1..Len(temp) : Newest(i, r.cmd, r.id) => Tells(temp[i], r)

(* So is the share. *)
Mounts1(r) == r.cmd = "tcon" \/ (r.cmd = "setup" /\ r.share # None)
OwnShares ==
  /\ \A k \in 1..scenario.requests : k > requests => treeCache[k] = None
  /\ ~ReadAgain => \A r \in asked : Mounts1(r) => treeCache[r.id] \in {None, r.share}
  /\ odd \cap {"lost", "logoff"} = {} => \A r \in asked : Mounts1(r) => treeCache[r.id] = r.share

(* The names of users and of trees. *)
UsersNamed ==
  /\ odd \cap {"lost", "negotiate"} = {} =>
       \A u \in Uids : userData[u].known => users[u] # None /\ ~Leaving(u)
  /\ ~StaleName /\ "negotiate" \notin odd =>
       \A u \in Uids : users[u] # None => userData[u].name \in {NoName, users[u]}
TreesNamed ==
  /\ ~ReadAgain /\ "remounted" \notin odd =>
       \A u \in Uids, t \in Tids : userData[u].trees[t] # None =>
         \/ trees[t] = <<u, userData[u].trees[t]>>
         \/ /\ trees[t] = <<None, None>>
            /\ \A r \in asked : r.cmd \in OnTrees => ~(r.uid = u /\ r.tid = t)
  /\ odd \cap {"lost", "shared", "logoff"} = {} =>
       \A u \in Uids, t \in Tids : trees[t][1] = u => userData[u].trees[t] \in {None, trees[t][2]}

(* The dispatcher's copy of an open file is not ahead of the server. *)
Disposing(f) == \E r \in asked : r.cmd = "dispose" /\ r.fid = f /\ r.on
Follows(s, o, f) ==
  /\ s.readed <= o.readed /\ s.written <= o.written
  /\ s.path[1] \in Trees \cup {o.path[1]} /\ s.path[2] = o.path[2]
  /\ o.path[1] = IPC => Suppressed(s)
  /\ o.directory => s.isdirectory
  /\ s.delete => o.delete \/ Disposing(f)
Straight == odd \cap Misleading = {} /\ ~StaleName
FilesFollow ==
  Straight => \A u \in Uids, f \in Fids : userData[u].files[f].known =>
    \/ files[f] = NotOpen
    \/ files[f].uid = u /\ Follows(userData[u].files[f], files[f], f)

Sound == Types /\ Counts /\ Asked /\ Hosts /\ OwnEntries /\ OwnShares /\ UsersNamed /\ TreesNamed /\ FilesFollow

(* What is added until something unusual happens: nothing is missing. *)
Leaves(r) == r.cmd \in OnTrees \cup Counted \/ (r.cmd = "setup" /\ r.form # "negotiate")
Copies(s, o, u, f) ==
  /\ s.known <=> o.open /\ o.uid = u
  /\ s.known => /\ s.path = o.path /\ s.isipc = (o.path[1] = IPC)
                /\ s.isdirectory = o.directory /\ s.readed = o.readed /\ s.written = o.written
                /\ s.delete = (o.delete \/ Disposing(f))
AllRemembered == \A r \in asked : Leaves(r) => \E i \in 1..Len(temp) : temp[i].cmd = r.cmd /\ temp[i].id = r.id
UsersKnown == \A u \in Uids : users[u] # None /\ ~Leaving(u) => userData[u].known /\ userData[u].name = users[u]
TreesKnown == \A t \in Tids : trees[t][1] # None /\ ~Leaving(trees[t][1]) => userData[trees[t][1]].trees[t] = trees[t][2]
FilesCopied ==
  \A f \in Fids : /\ files[f].open => /\ files[f].path[1] \in Shares /\ ~Leaving(files[f].uid)
                                      /\ files[f].delete => ~files[f].directory
                  /\ \A u \in Uids : Copies(userData[u].files[f], files[f], u, f)
AskedPlainly ==
  \A r \in asked :
     /\ r.cmd \in Opens => ~r.delete
     /\ r.cmd \in OfNames => trees[r.tid][2] # IPC
     /\ r.cmd = "dispose" => r.on /\ files[r.fid].open /\ ~files[r.fid].directory
Kept == AllRemembered /\ UsersKnown /\ TreesKnown /\ FilesCopied /\ AskedPlainly
KeptInv == Usual => Kept /\ events = facts

--------------------------------
(* A set of numbers has a least one. *)
LEMMA Least ==
  ASSUME NEW T, T \subseteq Nat, T # {}
  PROVE  \E x \in T : \A y \in T : x <= y
<1> DEFINE R == {ss \in Nat \X Nat : ss[1] < ss[2]}
<1>1. IsWellFoundedOn(R, Nat) BY NatLessThanWellFounded DEF OpToRel
<1>2. \A x, y \in T : x \in Nat /\ y \in Nat /\ (y < x => <<y, x>> \in R) OBVIOUS
<1> HIDE DEF R
<1>3. \E x \in T : \A y \in T : ~ (<<y, x>> \in R) BY <1>1, WFMin
<1>4. \A x, y \in T : ~ (<<y, x>> \in R) => x <= y BY <1>2
<1>5. QED BY <1>3, <1>4

(* The list of requests. *)
LEMMA PushedEntries ==
  ASSUME Types, NEW e \in Entries, temp' = Pushed(e)
  PROVE  /\ temp' \in Seq(Entries) /\ Len(temp') <= TempLimit /\ Len(temp') \in Nat
         /\ 1 \in 1..Len(temp') /\ temp'[1] = e
         /\ \A i \in 1..Len(temp') :
               i = 1 \/ (i - 1 \in 1..Len(temp) /\ i \in Nat /\ temp'[i] = temp[i - 1])
         /\ \A i \in 1..Len(temp) :
               i \in Nat /\ (~(i = TempLimit /\ Len(temp) = TempLimit) =>
                              i + 1 \in 1..Len(temp') /\ temp'[i + 1] = temp[i])
<1> DEFINE w == <<e>> \o temp
<1>1. TempLimit \in Nat \ {0} /\ temp \in Seq(Entries) /\ Len(temp) <= TempLimit /\ Len(temp) \in Nat
  BY Smb1Assumption DEF Types
<1>2. /\ w \in Seq(Entries) /\ Len(w) = Len(temp) + 1 /\ w[1] = e
      /\ \A i \in 2..Len(w) : w[i] = temp[i - 1]
  BY <1>1
<1>3. temp' = IF Len(w) > TempLimit THEN SubSeq(w, 1, TempLimit) ELSE w BY DEF Pushed
<1> HIDE DEF w
<1>4. /\ temp' \in Seq(Entries) /\ Len(temp') = (IF Len(w) > TempLimit THEN TempLimit ELSE Len(w))
      /\ \A i \in 1..Len(temp') : temp'[i] = w[i]
  BY <1>1, <1>2, <1>3
<1>5. Len(temp') \in Nat /\ Len(temp') <= TempLimit /\ 1 \in 1..Len(temp') /\ temp'[1] = e BY <1>1, <1>2, <1>4
<1>6. \A i \in 1..Len(temp') : i = 1 \/ (i - 1 \in 1..Len(temp) /\ i \in Nat /\ temp'[i] = temp[i - 1])
  BY <1>1, <1>2, <1>4
<1>7. \A i \in 1..Len(temp) :
         i \in Nat /\ (~(i = TempLimit /\ Len(temp) = TempLimit) =>
                        i + 1 \in 1..Len(temp') /\ temp'[i + 1] = temp[i])
  <2> SUFFICES ASSUME NEW i \in 1..Len(temp), ~(i = TempLimit /\ Len(temp) = TempLimit)
               PROVE  i + 1 \in 1..Len(temp') /\ temp'[i + 1] = temp[i]
    BY <1>1
  <2>1. i + 1 \in 1..Len(temp') /\ i + 1 \in 2..Len(w) /\ (i + 1) - 1 = i BY <1>1, <1>2, <1>4
  <2>2. QED BY <1>2, <1>4, <2>1
<1>8. QED BY <1>4, <1>5, <1>6, <1>7

LEMMA FoundFacts ==
  ASSUME Types, NEW cmd, NEW id
  PROVE  /\ \/ Found(cmd, id) = 0
            \/ Found(cmd, id) \in 1..Len(temp) /\ Found(cmd, id) # 0 /\ Newest(Found(cmd, id), cmd, id)
         /\ (\E i \in 1..Len(temp) : temp[i].cmd = cmd /\ temp[i].id = id) => Found(cmd, id) # 0
<1> DEFINE mine == {i \in 1..Len(temp) : temp[i].cmd = cmd /\ temp[i].id = id}
<1>1. DOMAIN temp = 1..Len(temp) /\ Len(temp) \in Nat BY DEF Types
<1>2. Found(cmd, id) = IF mine = {} THEN 0 ELSE CHOOSE i \in mine : \A j \in mine : i <= j BY <1>1 DEF Found
<1>3. CASE mine = {} BY <1>2, <1>3
<1>4. CASE mine # {}
  <2>1. PICK k \in mine : \A j \in mine : k <= j
    <3>1. mine \subseteq Nat BY <1>1
    <3> HIDE DEF mine
    <3>2. QED BY <1>4, <3>1, Least
  <2>2. \E k1 \in mine : \A j \in mine : k1 <= j BY <2>1
  <2>3. Found(cmd, id) \in mine /\ \A j \in mine : Found(cmd, id) <= j BY <1>2, <1>4, <2>2
  <2>4. \A j \in 1..(Found(cmd, id) - 1) : ~(temp[j].cmd = cmd /\ temp[j].id = id) BY <1>1, <2>3
  <2>5. QED BY <1>1, <2>3, <2>4 DEF Newest
<1>5. QED BY <1>3, <1>4

--------------------------------
(* Requests. *)
Asking(r, told, kinds) ==
  /\ r.cmd \in Kinds /\ r.id \in 1..(requests + 1) /\ (\A q \in asked : q.id # r.id)
  /\ r.id <= requests => "again" \in kinds
  /\ r.cmd = "setup" =>
       /\ r.user \in Users /\ r.share \in Shares \cup {None} /\ (r.share # None => r.form = "plain")
       /\ \A q \in asked : q.cmd # "setup"
       /\ r.form = "negotiate" /\ Found("setup", r.id) # 0 => "negotiate" \in kinds
  /\ r.cmd # "setup" => r.uid \in LoggedIn
  /\ r.cmd = "tcon" => r.share \in Shares
  /\ r.cmd = "tdis" =>
       /\ r.tid \in Tids /\ trees[r.tid][1] = r.uid
       /\ \A q \in asked : q.cmd \notin {"setup", "tcon"} => q.uid # r.uid
  /\ r.cmd \in OnTrees =>
       /\ r.tid \in Tids /\ r.name \in Names /\ r.to \in Names \cup {NoName}
       /\ trees[r.tid][1] # None /\ (trees[r.tid][1] # r.uid => "shared" \in kinds)
       /\ \A q \in asked : ~(q.cmd = "tdis" /\ q.tid = r.tid)
  /\ r.cmd \in Opens =>
       /\ r.directory \in BOOLEAN /\ r.delete \in BOOLEAN /\ (r.cmd # "ntcreate" => ~r.directory)
       /\ r.delete => "deleteOpen" \in kinds
  /\ r.cmd \in OfNames => trees[r.tid][2] # IPC
  /\ r.cmd \in OnFiles =>
       /\ r.fid \in Fids /\ files[r.fid].open /\ files[r.fid].uid = r.uid
       /\ \A q \in asked : q.cmd = "close" => q.fid # r.fid
  /\ r.cmd \in Counted => r.size = IF r.cmd = "write" THEN 2 ELSE 0
  /\ r.cmd = "dispose" =>
       /\ r.on \in BOOLEAN /\ (~r.on => "undelete" \in kinds)
       /\ r.on /\ files[r.fid].directory => "directory" \in kinds
  /\ r.cmd = "logoff" =>
       /\ \A q \in asked : q.cmd # "setup" => q.uid # r.uid
       /\ asked # {} \/ (\E f \in Fids : files[f].uid = r.uid) => "logoff" \in kinds
       /\ told = IF users[r.uid] = NoName THEN {} ELSE {Told("logout", users[r.uid], NoPath)}
  /\ r.cmd # "logoff" => told = {}

LEMMA IdsAre ==
  ASSUME requests \in Nat, NEW id \in Ids
  PROVE  /\ id \in 1..(requests + 1) /\ (id <= requests => "again" \in Again(id))
         /\ (\A q \in asked : q.id \in 1..requests) => \A q \in asked : q.id # id
  BY DEF Ids, Again, When

LEMMA RequestIs ==
  ASSUME Types, Asked, Hosts, Setup \/ Tcon \/ Tdis \/ Create \/ OnFile \/ Dispose \/ OnName \/ Logoff
  PROVE  \E r, told, kinds : Asking(r, told, kinds) /\ Send(r, told, kinds)
<1> USE DEF Kinds, OnTrees, OnFiles, Counted, Opens, OfNames
<1>1. requests \in Nat /\ scenario \in Scenarios BY DEF Types
<1>2. /\ scenario.shares \subseteq Shares /\ scenario.users \subseteq Users
      /\ scenario.names \subseteq Names /\ scenario.to \subseteq Names
      /\ NoName \in Users /\ None \notin Shares \cup Uids
  BY <1>1, Smb1Assumption
<1>3. \A q \in asked : q.id \in 1..requests BY DEF Asked, Asks
<1>4. \A id \in Ids : /\ id \in 1..(requests + 1) /\ (id <= requests => "again" \in Again(id))
                      /\ \A q \in asked : q.id # id
  BY <1>1, <1>3, IdsAre
<1>5. requests + 1 \in 1..(requests + 1) /\ ~(requests + 1 <= requests) /\ \A q \in asked : q.id # requests + 1
  BY <1>1, <1>3
<1>6. \A u \in LoggedIn : u \in Uids BY DEF LoggedIn
<1>7. CASE Setup
  <2>1. PICK id \in Ids, who \in scenario.users, form \in scenario.forms, share \in scenario.shares \cup {None} :
          /\ \A r \in asked : r.cmd # "setup"
          /\ share # None => form = "plain"
          /\ Send([cmd |-> "setup", id |-> id, user |-> who, form |-> form, share |-> share], {},
                  Again(id) \cup When(form = "negotiate" /\ Found("setup", id) # 0, "negotiate"))
    BY <1>7 DEF Setup
  <2> DEFINE r == [cmd |-> "setup", id |-> id, user |-> who, form |-> form, share |-> share]
             kinds == Again(id) \cup When(form = "negotiate" /\ Found("setup", id) # 0, "negotiate")
  <2>2. r.cmd = "setup" /\ r.id = id /\ r.user = who /\ r.form = form /\ r.share = share OBVIOUS
  <2>3. form = "negotiate" /\ Found("setup", id) # 0 => "negotiate" \in kinds BY DEF When
  <2>4. id <= requests => "again" \in kinds BY <1>4
  <2>5. Send(r, {}, kinds) BY <2>1
  <2> HIDE DEF r, kinds
  <2>6. Asking(r, {}, kinds) BY <1>2, <1>4, <2>1, <2>2, <2>3, <2>4 DEF Asking
  <2>7. QED BY <2>5, <2>6
<1>8. CASE Tcon
  <2>1. PICK u \in LoggedIn, id \in Ids, share \in scenario.shares :
          Send([cmd |-> "tcon", id |-> id, uid |-> u, share |-> share], {}, Again(id))
    BY <1>8 DEF Tcon
  <2> DEFINE r == [cmd |-> "tcon", id |-> id, uid |-> u, share |-> share]
  <2>2. r.cmd = "tcon" /\ r.id = id /\ r.uid = u /\ r.share = share OBVIOUS
  <2>3. Send(r, {}, Again(id)) BY <2>1
  <2> HIDE DEF r
  <2>4. Asking(r, {}, Again(id)) BY <1>2, <1>4, <2>1, <2>2 DEF Asking
  <2>5. QED BY <2>3, <2>4
<1>9. CASE Tdis
  <2>1. PICK u \in LoggedIn, t \in Tids :
          /\ trees[t][1] = u
          /\ \A q \in asked : q.cmd \notin {"setup", "tcon"} => q.uid # u
          /\ Send([cmd |-> "tdis", id |-> requests + 1, uid |-> u, tid |-> t], {}, {})
    BY <1>9 DEF Tdis
  <2> DEFINE r == [cmd |-> "tdis", id |-> requests + 1, uid |-> u, tid |-> t]
  <2>2. r.cmd = "tdis" /\ r.id = requests + 1 /\ r.uid = u /\ r.tid = t OBVIOUS
  <2>3. Send(r, {}, {}) BY <2>1
  <2> HIDE DEF r
  <2>4. Asking(r, {}, {}) BY <1>5, <2>1, <2>2 DEF Asking
  <2>5. QED BY <2>3, <2>4
<1>10. \A u \in LoggedIn : \A t \in Connected(u) :
         /\ t \in Tids /\ trees[t][1] # None /\ (trees[t][1] # u => "shared" \in Shared(u, t))
         /\ \A q \in asked : ~(q.cmd = "tdis" /\ q.tid = t)
  BY <1>2, <1>6 DEF Connected, Shared, When
<1>11. CASE Create
  <2>1. PICK u \in LoggedIn, cmd \in Opens :
          \E t \in Connected(u), id \in Ids, n \in scenario.names, directory, delete \in BOOLEAN :
            /\ directory => "directory" \in scenario.habits /\ cmd = "ntcreate"
            /\ delete => "delete" \in scenario.habits /\ cmd = "ntcreate"
            /\ Send([cmd |-> cmd, id |-> id, uid |-> u, tid |-> t, name |-> n, to |-> NoName,
                     directory |-> directory, delete |-> delete], {},
                    Again(id) \cup Shared(u, t) \cup When(delete, "deleteOpen"))
    BY <1>11 DEF Create
  <2>2. PICK t \in Connected(u), id \in Ids, n \in scenario.names, directory, delete \in BOOLEAN :
            /\ directory => "directory" \in scenario.habits /\ cmd = "ntcreate"
            /\ delete => "delete" \in scenario.habits /\ cmd = "ntcreate"
            /\ Send([cmd |-> cmd, id |-> id, uid |-> u, tid |-> t, name |-> n, to |-> NoName,
                     directory |-> directory, delete |-> delete], {},
                    Again(id) \cup Shared(u, t) \cup When(delete, "deleteOpen"))
    BY <2>1
  <2> DEFINE r == [cmd |-> cmd, id |-> id, uid |-> u, tid |-> t, name |-> n, to |-> NoName,
                   directory |-> directory, delete |-> delete]
             kinds == Again(id) \cup Shared(u, t) \cup When(delete, "deleteOpen")
  <2>3. /\ r.cmd = cmd /\ r.id = id /\ r.uid = u /\ r.tid = t /\ r.name = n /\ r.to = NoName
        /\ r.directory = directory /\ r.delete = delete
    OBVIOUS
  <2>4. (id <= requests => "again" \in kinds) /\ (delete => "deleteOpen" \in kinds)
        /\ Shared(u, t) \subseteq kinds
    BY <1>4 DEF When
  <2>5. Send(r, {}, kinds) BY <2>2
  <2> HIDE DEF r, kinds
  <2>6. Asking(r, {}, kinds) BY <1>2, <1>4, <1>10, <2>2, <2>3, <2>4 DEF Asking
  <2>7. QED BY <2>5, <2>6
<1>12. \A f \in Usable : /\ f \in Fids /\ files[f].open /\ files[f].uid \in LoggedIn
                         /\ \A q \in asked : q.cmd = "close" => q.fid # f
  BY DEF Usable
<1>13. CASE OnFile
  <2>1. PICK f \in Usable, cmd \in {"close", "read", "write"}, id \in Ids :
          Send([cmd |-> cmd, id |-> id, uid |-> files[f].uid, tid |-> files[f].tid, fid |-> f,
                size |-> IF cmd = "write" THEN 2 ELSE 0], {}, Again(id))
    BY <1>13 DEF OnFile
  <2> DEFINE r == [cmd |-> cmd, id |-> id, uid |-> files[f].uid, tid |-> files[f].tid, fid |-> f,
                   size |-> IF cmd = "write" THEN 2 ELSE 0]
  <2>2. r.cmd = cmd /\ r.id = id /\ r.uid = files[f].uid /\ r.fid = f /\ r.size = IF cmd = "write" THEN 2 ELSE 0
    OBVIOUS
  <2>3. Send(r, {}, Again(id)) BY <2>1
  <2> HIDE DEF r
  <2>4. Asking(r, {}, Again(id)) BY <1>4, <1>12, <2>1, <2>2 DEF Asking
  <2>5. QED BY <2>3, <2>4
<1>14. CASE Dispose
  <2>1. PICK f \in Usable, on \in BOOLEAN, id \in Ids :
          Send([cmd |-> "dispose", id |-> id, uid |-> files[f].uid, tid |-> files[f].tid, fid |-> f, on |-> on],
               {}, Again(id) \cup When(~on, "undelete") \cup When(on /\ files[f].directory, "directory"))
    BY <1>14 DEF Dispose
  <2> DEFINE r == [cmd |-> "dispose", id |-> id, uid |-> files[f].uid, tid |-> files[f].tid, fid |-> f, on |-> on]
             kinds == Again(id) \cup When(~on, "undelete") \cup When(on /\ files[f].directory, "directory")
  <2>2. r.cmd = "dispose" /\ r.id = id /\ r.uid = files[f].uid /\ r.fid = f /\ r.on = on OBVIOUS
  <2>3. /\ id <= requests => "again" \in kinds
        /\ ~on => "undelete" \in kinds
        /\ on /\ files[f].directory => "directory" \in kinds
    BY <1>4 DEF When
  <2>4. Send(r, {}, kinds) BY <2>1
  <2> HIDE DEF r, kinds
  <2>5. Asking(r, {}, kinds) BY <1>4, <1>12, <2>1, <2>2, <2>3 DEF Asking
  <2>6. QED BY <2>4, <2>5
<1>15. CASE OnName
  <2>1. PICK u \in LoggedIn, cmd \in OfNames :
          \E t \in Connected(u), id \in Ids, n \in scenario.names, to \in IF cmd = "rename" THEN scenario.to ELSE {NoName} :
            /\ trees[t][2] # IPC
            /\ Send([cmd |-> cmd, id |-> id, uid |-> u, tid |-> t, name |-> n, to |-> to],
                    {}, Again(id) \cup Shared(u, t))
    BY <1>15 DEF OnName
  <2>2. PICK t \in Connected(u), id \in Ids, n \in scenario.names, to \in IF cmd = "rename" THEN scenario.to ELSE {NoName} :
            /\ trees[t][2] # IPC
            /\ Send([cmd |-> cmd, id |-> id, uid |-> u, tid |-> t, name |-> n, to |-> to],
                    {}, Again(id) \cup Shared(u, t))
    BY <2>1
  <2> DEFINE r == [cmd |-> cmd, id |-> id, uid |-> u, tid |-> t, name |-> n, to |-> to]
             kinds == Again(id) \cup Shared(u, t)
  <2>3. r.cmd = cmd /\ r.id = id /\ r.uid = u /\ r.tid = t /\ r.name = n /\ r.to = to OBVIOUS
  <2>4. (id <= requests => "again" \in kinds) /\ Shared(u, t) \subseteq kinds /\ to \in Names \cup {NoName}
    BY <1>2, <1>4
  <2>5. Send(r, {}, kinds) BY <2>2
  <2> HIDE DEF r, kinds
  <2>6. Asking(r, {}, kinds) BY <1>2, <1>4, <1>10, <2>2, <2>3, <2>4 DEF Asking
  <2>7. QED BY <2>5, <2>6
<1>16. CASE Logoff
  <2>1. PICK u \in LoggedIn :
          /\ \A q \in asked : q.cmd # "setup" => q.uid # u
          /\ Send([cmd |-> "logoff", id |-> requests + 1, uid |-> u],
                  IF users[u] = NoName THEN {} ELSE {Told("logout", users[u], NoPath)},
                  When(asked # {} \/ \E f \in Fids : files[f].uid = u, "logoff"))
    BY <1>16 DEF Logoff
  <2> DEFINE r == [cmd |-> "logoff", id |-> requests + 1, uid |-> u]
             told == IF users[u] = NoName THEN {} ELSE {Told("logout", users[u], NoPath)}
             kinds == When(asked # {} \/ \E f \in Fids : files[f].uid = u, "logoff")
  <2>2. r.cmd = "logoff" /\ r.id = requests + 1 /\ r.uid = u OBVIOUS
  <2>3. asked # {} \/ (\E f \in Fids : files[f].uid = u) => "logoff" \in kinds BY DEF When
  <2>4. Send(r, told, kinds) BY <2>1
  <2>5. told = IF users[r.uid] = NoName THEN {} ELSE {Told("logout", users[r.uid], NoPath)} BY <2>2
  <2> HIDE DEF r, kinds, told
  <2>6. Asking(r, told, kinds) BY <1>5, <2>1, <2>2, <2>3, <2>5 DEF Asking
  <2>7. QED BY <2>4, <2>6
<1>17. QED BY <1>7, <1>8, <1>9, <1>11, <1>13, <1>14, <1>15, <1>16

(* What a request changes, seen or missed. *)
Caches(r) ==
  /\ treeCache' \in [1..scenario.requests -> Shares \cup {None}]
  /\ \A k \in 1..scenario.requests :
       treeCache'[k] = IF k = r.id /\ Mounts1(r) THEN r.share ELSE treeCache[k]
SeenOther(r) ==
  /\ r.cmd # "logoff" /\ events' = {}
  /\ temp' = IF Remembered(r) THEN Pushed(Entry(r)) ELSE temp
  /\ Caches(r) /\ userData' = Marked(r)
  /\ \/ "many" \in odd'
     \/ Remembered(r) /\ Len(temp) = TempLimit =>
          \A q \in asked : ~(q.cmd = temp[TempLimit].cmd /\ q.id = temp[TempLimit].id)
Unseen == UNCHANGED analyzer /\ events' = {} /\ "lost" \in odd'

LEMMA SentIs ==
  ASSUME Types, NEW r, NEW told, NEW kinds, Asking(r, told, kinds), Send(r, told, kinds)
  PROVE  /\ requests' = requests + 1 /\ requests' <= scenario.requests /\ asked' = asked \cup {r}
         /\ facts' = told /\ UNCHANGED <<scenario, users, trees, files>>
         /\ odd \subseteq odd' /\ kinds \subseteq odd' /\ r.cmd \in scenario.commands
         /\ SeenOther(r) \/ (r.cmd = "logoff" /\ LogoffRequest(r)) \/ Unseen
<1>1. requests \in Nat /\ scenario.requests \in Nat /\ requests < scenario.requests
  BY Smb1Assumption DEF Types, Send
<1>2. \/ OnRequest(r) /\ UNCHANGED lost
         /\ Odd(kinds \cup When(/\ Remembered(r) /\ Len(temp) = TempLimit
                                /\ \E q \in asked : q.cmd = temp[TempLimit].cmd /\ q.id = temp[TempLimit].id, "many"))
      \/ Missed /\ Odd(kinds \cup {"lost"})
  BY DEF Send
<1>3. odd \subseteq odd' /\ kinds \subseteq odd' BY <1>2 DEF Odd
<1>4. CASE Missed /\ Odd(kinds \cup {"lost"}) BY <1>1, <1>3, <1>4 DEF Missed, Odd, Unseen, Send
<1>5. CASE /\ OnRequest(r)
           /\ Odd(kinds \cup When(/\ Remembered(r) /\ Len(temp) = TempLimit
                                  /\ \E q \in asked : q.cmd = temp[TempLimit].cmd /\ q.id = temp[TempLimit].id, "many"))
  <2>1. CASE r.cmd = "logoff" BY <1>1, <1>3, <1>5, <2>1 DEF OnRequest, Send
  <2>2. CASE r.cmd # "logoff"
    <3>1. OtherRequest(r) BY <1>5, <2>2 DEF OnRequest
    <3>2. \/ "many" \in odd'
          \/ Remembered(r) /\ Len(temp) = TempLimit =>
               \A q \in asked : ~(q.cmd = temp[TempLimit].cmd /\ q.id = temp[TempLimit].id)
      BY <1>5 DEF Odd, When
    <3>3. r.id \in 1..scenario.requests BY <1>1 DEF Asking
    <3>4. treeCache \in [1..scenario.requests -> Shares \cup {None}] BY DEF Types
    <3>5. treeCache' = IF Mounts1(r) THEN [treeCache EXCEPT ![r.id] = r.share] ELSE treeCache
      BY <3>1 DEF OtherRequest, Mounts1
    <3>6. Mounts1(r) => r.share \in Shares \cup {None} BY DEF Mounts1, Asking
    <3>7. Caches(r) BY <3>3, <3>4, <3>5, <3>6 DEF Caches
    <3>8. SeenOther(r) BY <2>2, <3>1, <3>2, <3>7 DEF SeenOther, OtherRequest
    <3>9. QED BY <1>1, <1>3, <3>8 DEF Send
  <2>3. QED BY <2>1, <2>2
<1>6. QED BY <1>2, <1>4, <1>5

(* A user keeps its names and files, a mark added, or is forgotten. *)
Marks(r, u, f) == r.cmd = "dispose" /\ r.on /\ r.uid = u /\ r.fid = f
Narrowed(r, u) ==
  \/ userData'[u] = NoUser
  \/ /\ userData'[u].known = userData[u].known /\ userData'[u].name = userData[u].name
     /\ userData'[u].trees = userData[u].trees
     /\ \A f \in Fids :
          \/ userData'[u].files[f] = userData[u].files[f]
          \/ /\ Marks(r, u, f) /\ userData[u].files[f].known
             /\ userData'[u].files[f] = [userData[u].files[f] EXCEPT !.delete = TRUE]
Blanks(data) ==
  \A u \in Uids : /\ ~data[u].known => data[u] = NoUser
                  /\ \A f \in Fids : ~data[u].files[f].known => data[u].files[f] = Unknown

LEMMA NoUserIs ==
  /\ NoUser \in UserStates /\ ~NoUser.known /\ NoUser.name = NoName
  /\ \A t \in Trees : NoUser.trees[t] = None
  /\ \A f \in Fids : NoUser.files[f] = Unknown
  /\ Unknown \in States /\ ~Unknown.known
  BY Smb1Assumption DEF Unknown, States, Paths, NoPath, NoUser, UserStates

LEMMA LogoffIs ==
  ASSUME Types, NEW r, r.uid \in Uids, LogoffRequest(r)
  PROVE  /\ events' = IF userData[r.uid].name = NoName THEN {} ELSE {Told("logout", userData[r.uid].name, NoPath)}
         /\ userData' \in [Uids -> UserStates] /\ userData'[r.uid] = NoUser
         /\ \/ /\ \A u \in Uids \ {r.uid} : userData'[u] = userData[u]
               /\ UNCHANGED <<temp, treeCache>>
            \/ /\ \A u \in Uids : userData'[u] = NoUser /\ (u # r.uid => ~userData[u].known)
               /\ temp' = <<>> /\ treeCache' = [i \in 1..scenario.requests |-> None]
<1> DEFINE left == [userData EXCEPT ![r.uid] = NoUser]
<1>1. userData \in [Uids -> UserStates] /\ DOMAIN treeCache = 1..scenario.requests BY DEF Types
<1>2. left \in [Uids -> UserStates] /\ left[r.uid] = NoUser /\ \A u \in Uids \ {r.uid} : left[u] = userData[u]
  BY <1>1, NoUserIs
<1>3. events' = IF userData[r.uid].name = NoName THEN {} ELSE {Told("logout", userData[r.uid].name, NoPath)}
  BY DEF LogoffRequest, GetUserName
<1>4. CASE \A u \in Uids : ~left[u].known
  <2>1. Forget BY <1>4 DEF LogoffRequest
  <2>2. userData' = [u \in Uids |-> NoUser] /\ temp' = <<>> /\ treeCache' = [i \in 1..scenario.requests |-> None]
    BY <1>1, <2>1 DEF Forget
  <2>3. \A u \in Uids : u # r.uid => ~userData[u].known BY <1>2, <1>4
  <2>4. userData' \in [Uids -> UserStates] /\ userData'[r.uid] = NoUser /\ \A u \in Uids : userData'[u] = NoUser
    BY <2>2, NoUserIs
  <2>5. QED BY <1>3, <2>2, <2>3, <2>4
<1>5. CASE ~ \A u \in Uids : ~left[u].known BY <1>2, <1>3, <1>5 DEF LogoffRequest
<1>6. QED BY <1>4, <1>5

LEMMA SentUsers ==
  ASSUME Types, NEW r, NEW told, NEW kinds, Asking(r, told, kinds), Send(r, told, kinds)
  PROVE  userData' \in [Uids -> UserStates] /\ Blanks(userData') /\ \A u \in Uids : Narrowed(r, u)
<1>1. userData \in [Uids -> UserStates] /\ Blanks(userData) BY DEF Types, Blanks
<1>2. CASE UNCHANGED userData BY <1>1, <1>2 DEF Narrowed, Blanks
<1>3. CASE r.cmd = "logoff" /\ LogoffRequest(r)
  BY <1>1, <1>3, LogoffIs, NoUserIs DEF Asking, LoggedIn, Blanks, Narrowed
<1>4. CASE SeenOther(r)
  <2>1. CASE Marked(r) = userData BY <1>1, <1>4, <2>1, <1>2 DEF SeenOther
  <2>2. CASE ~(Marked(r) = userData)
    <3>1. /\ r.cmd = "dispose" /\ r.on /\ userData[r.uid].files[r.fid].known
          /\ userData' = [userData EXCEPT ![r.uid].files[r.fid].delete = TRUE]
      BY <1>4, <2>2 DEF SeenOther, Marked, FileState
    <3>2. r.uid \in Uids /\ r.fid \in Fids BY <3>1 DEF Asking, LoggedIn, OnFiles
    <3>3. PICK d \in UserStates : d = userData[r.uid] BY <1>1, <3>2
    <3>4. PICK s \in States : s = d.files[r.fid] BY <3>2, <3>3 DEF UserStates
    <3>5. PICK s1 \in States : s1 = [s EXCEPT !.delete = TRUE] /\ s1.known = s.known
      <4>1. [s EXCEPT !.delete = TRUE] \in States /\ [s EXCEPT !.delete = TRUE].known = s.known
        BY <3>4 DEF States
      <4>2. QED BY <4>1
    <3>6. PICK d1 \in UserStates : d1 = [d EXCEPT !.files[r.fid] = s1] /\ d1.known = d.known /\ d1.name = d.name
                                   /\ d1.trees = d.trees /\ d1.files = [d.files EXCEPT ![r.fid] = s1]
      <4>1. /\ [d EXCEPT !.files[r.fid] = s1] \in UserStates
            /\ [d EXCEPT !.files[r.fid] = s1].known = d.known /\ [d EXCEPT !.files[r.fid] = s1].name = d.name
            /\ [d EXCEPT !.files[r.fid] = s1].trees = d.trees
            /\ [d EXCEPT !.files[r.fid] = s1].files = [d.files EXCEPT ![r.fid] = s1]
        BY <3>2, <3>3, <3>5 DEF UserStates
      <4>2. QED BY <4>1
    <3>7. userData' = [userData EXCEPT ![r.uid] = d1] BY <1>1, <3>1, <3>2, <3>3, <3>4, <3>5, <3>6
    <3>8. d.files \in [Fids -> States] BY <3>3 DEF UserStates
    <3>9. d1.files[r.fid] = s1 /\ \A f \in Fids \ {r.fid} : d1.files[f] = d.files[f] BY <3>2, <3>6, <3>8
    <3>10. userData' \in [Uids -> UserStates] /\ userData'[r.uid] = d1 /\ \A u \in Uids \ {r.uid} : userData'[u] = userData[u]
      BY <1>1, <3>2, <3>6, <3>7
    <3>11. s.known /\ d.known BY <1>1, <3>1, <3>2, <3>3, <3>4, NoUserIs DEF Blanks
    <3>12. Blanks(userData')
      <4>1. \A u \in Uids \ {r.uid} : /\ ~userData'[u].known => userData'[u] = NoUser
                                      /\ \A f \in Fids : ~userData'[u].files[f].known => userData'[u].files[f] = Unknown
        BY <1>1, <3>10 DEF Blanks
      <4>2. d1.known /\ \A f \in Fids : ~d1.files[f].known => d1.files[f] = Unknown
        BY <1>1, <3>2, <3>3, <3>5, <3>6, <3>9, <3>11 DEF Blanks
      <4>3. QED BY <3>10, <4>1, <4>2 DEF Blanks
    <3>13. \A u \in Uids : Narrowed(r, u)
      <4> TAKE u \in Uids
      <4>1. CASE u = r.uid
        <5>1. /\ userData'[u].known = userData[u].known /\ userData'[u].name = userData[u].name
              /\ userData'[u].trees = userData[u].trees
          BY <3>3, <3>6, <3>10, <4>1
        <5>2. Marks(r, u, r.fid) BY <3>1, <4>1 DEF Marks
        <5>3. \A f \in Fids : \/ userData'[u].files[f] = userData[u].files[f]
                               \/ /\ Marks(r, u, f) /\ userData[u].files[f].known
                                  /\ userData'[u].files[f] = [userData[u].files[f] EXCEPT !.delete = TRUE]
          BY <3>3, <3>4, <3>5, <3>9, <3>10, <3>11, <4>1, <5>2
        <5>4. QED BY <5>1, <5>3 DEF Narrowed
      <4>2. CASE u # r.uid BY <3>10, <4>2 DEF Narrowed
      <4>3. QED BY <4>1, <4>2
    <3>14. QED BY <3>10, <3>12, <3>13
  <2>3. QED BY <2>1, <2>2
<1>5. QED BY <1>2, <1>3, <1>4, SentIs DEF Unseen, analyzer

LEMMA CountsAre ==
  ASSUME userData \in [Uids -> UserStates], NEW u \in Uids, NEW f \in Fids
  PROVE  /\ userData[u].files[f] \in States /\ userData[u].files[f].readed \in Nat /\ userData[u].files[f].written \in Nat
         /\ userData[u].files \in [Fids -> States]
  BY DEF UserStates, States

LEMMA SentCounts ==
  ASSUME Types, Counts, NEW r, NEW told, NEW kinds, Asking(r, told, kinds), Send(r, told, kinds)
  PROVE  Counts'
<1>1. requests \in Nat /\ userData \in [Uids -> UserStates] BY DEF Types
<1>2. requests' = requests + 1 /\ asked' = asked \cup {r} /\ \A u \in Uids : Narrowed(r, u) BY SentIs, SentUsers
<1>3. r \notin asked BY DEF Asking
<1>4. IsFiniteSet(asked') /\ Cardinality(asked) \in Nat /\ Cardinality(asked') = Cardinality(asked) + 1
  BY <1>2, <1>3, FS_AddElement, FS_CardinalityType DEF Counts
<1> SUFFICES ASSUME NEW u \in Uids, NEW f \in Fids
             PROVE  /\ userData'[u].files[f].readed + Cardinality(asked') <= requests'
                    /\ userData'[u].files[f].written + 2 * Cardinality(asked') <= 2 * requests'
  BY <1>4 DEF Counts
<1>5. PICK s \in States : s = userData[u].files[f] /\ s.readed \in Nat /\ s.written \in Nat BY <1>1, CountsAre
<1>6. s.readed + Cardinality(asked) <= requests /\ s.written + 2 * Cardinality(asked) <= 2 * requests
  BY <1>5 DEF Counts
<1>7. \/ userData'[u].files[f] = Unknown \/ userData'[u].files[f] = s \/ userData'[u].files[f] = [s EXCEPT !.delete = TRUE]
  BY <1>2, <1>5, NoUserIs DEF Narrowed
<1>8. \/ userData'[u].files[f].readed = s.readed /\ userData'[u].files[f].written = s.written
      \/ userData'[u].files[f].readed = 0 /\ userData'[u].files[f].written = 0
  BY <1>5, <1>7 DEF States, Unknown
<1>9. QED BY <1>1, <1>2, <1>4, <1>5, <1>6, <1>8

LEMMA SentAsked ==
  ASSUME Types, Asked, Hosts, NEW r, NEW told, NEW kinds, Asking(r, told, kinds), Send(r, told, kinds)
  PROVE  Asked'
<1> USE DEF Kinds, OnTrees, OnFiles, Counted, Opens, OfNames
<1>1. requests \in Nat BY DEF Types
<1>2. requests' = requests + 1 /\ asked' = asked \cup {r} /\ UNCHANGED <<users, trees, files>> BY SentIs
<1>3. ASSUME NEW q \in asked PROVE Asks(q)' BY <1>1, <1>2 DEF Asked, Asks
<1>4. Asks(r)' BY <1>2 DEF Asking, LoggedIn, Asks
<1>5. ASSUME NEW q \in asked PROVE Together(r, q) /\ Together(q, r) BY DEF Asking, LoggedIn, Together
<1>6. Together(r, r) BY DEF Together
<1>7. QED BY <1>2, <1>3, <1>4, <1>5, <1>6 DEF Asked, Together

LEMMA SentHosts ==
  ASSUME Types, Asked, Hosts, NEW r, NEW told, NEW kinds, Asking(r, told, kinds), Send(r, told, kinds)
  PROVE  Hosts'
  BY SentIs DEF Asking, OnFiles, Counted, Hosts

LEMMA EntryIs ==
  ASSUME Types, NEW r, NEW told, NEW kinds, Asking(r, told, kinds), r.cmd \in scenario.commands,
         requests + 1 <= scenario.requests
  PROVE  /\ Entry(r) \in Entries /\ Entry(r).cmd = r.cmd /\ Entry(r).id = r.id
         /\ r.cmd = "setup" => Entry(r).user = r.user
         /\ r.cmd \in OnTrees => Entry(r).name = r.name /\ Entry(r).to = r.to
         /\ r.cmd \in Counted => Entry(r).fid = r.fid /\ (r.cmd = "write" => Entry(r).size = 2)
<1> USE DEF Kinds, OnTrees, OnFiles, Counted, Opens, OfNames
<1>1. requests \in Nat /\ scenario.requests \in Nat BY Smb1Assumption DEF Types
<1>2. r.id \in 0..scenario.requests BY <1>1 DEF Asking
<1>3. Blank \in Entries BY <1>1, Smb1Assumption DEF Blank, Entries
<1>4. PICK e \in Entries : e = [Blank EXCEPT !.cmd = r.cmd, !.id = r.id] /\ e.cmd = r.cmd /\ e.id = r.id
  <2>1. [Blank EXCEPT !.cmd = r.cmd, !.id = r.id] \in Entries BY <1>2, <1>3 DEF Entries
  <2>2. [Blank EXCEPT !.cmd = r.cmd, !.id = r.id].cmd = r.cmd /\ [Blank EXCEPT !.cmd = r.cmd, !.id = r.id].id = r.id
    BY DEF Blank
  <2>3. QED BY <2>1, <2>2
<1>5. CASE r.cmd = "setup" BY <1>4, <1>5 DEF Entry, Asking, Entries
<1>6. CASE r.cmd \in OnTrees
  <2>1. Entry(r) = [e EXCEPT !.name = r.name, !.to = r.to] /\ r.name \in Names /\ r.to \in Names \cup {NoName}
    BY <1>4, <1>6 DEF Entry, Asking
  <2>2. QED BY <1>4, <1>6, <2>1 DEF Entries
<1>7. CASE r.cmd \in {"close", "read"} BY <1>4, <1>7 DEF Entry, Asking, Entries
<1>8. CASE r.cmd = "write"
  <2>1. Entry(r) = [e EXCEPT !.fid = r.fid, !.size = r.size] /\ r.fid \in Fids /\ r.size = 2
    BY <1>4, <1>8 DEF Entry, Asking
  <2>2. QED
    <3>1. PICK f \in Fids : f = r.fid BY <2>1
    <3>2. Entry(r) = [[e EXCEPT !.fid = f] EXCEPT !.size = 2] BY <1>4, <2>1, <3>1 DEF Entries
    <3>3. PICK e1 \in Entries : e1 = [e EXCEPT !.fid = f] /\ e1.cmd = e.cmd /\ e1.id = e.id /\ e1.fid = f
      <4>1. [e EXCEPT !.fid = f] \in Entries /\ [e EXCEPT !.fid = f].cmd = e.cmd /\ [e EXCEPT !.fid = f].id = e.id
            /\ [e EXCEPT !.fid = f].fid = f
        BY DEF Entries
      <4>2. QED BY <4>1
    <3>4. 2 \in 0..2 OBVIOUS
    <3>5. QED BY <1>4, <1>8, <3>1, <3>2, <3>3, <3>4 DEF Entries
<1>9. CASE r.cmd \in {"dispose", "tcon", "tdis", "logoff"} BY <1>4, <1>9 DEF Entry
<1>10. QED BY <1>5, <1>6, <1>7, <1>8, <1>9 DEF Asking

LEMMA RememberedIs ==
  ASSUME Types, NEW r, NEW told, NEW kinds, Asking(r, told, kinds)
  PROVE  /\ Remembered(r) => r.cmd \in Answered \cup {"dispose"}
         /\ Leaves(r) /\ ~Remembered(r) => r.cmd = "close" /\ ~userData[r.uid].files[r.fid].known
         /\ r.cmd = "setup" /\ Remembered(r) => r.form # "negotiate"
         /\ r.cmd \in Answered /\ ~Remembered(r) =>
              \/ r.cmd = "close" /\ ~userData[r.uid].files[r.fid].known
              \/ r.cmd = "setup" /\ r.form = "negotiate"
  BY DEF Remembered, FileState, Leaves, Answered, Asking, Kinds, OnTrees, OnFiles, Counted, Opens, OfNames

LEMMA SentTemp ==
  ASSUME Types, NEW r, NEW told, NEW kinds, Asking(r, told, kinds), Send(r, told, kinds)
  PROVE  /\ temp' \in Seq(Entries)' /\ Len(temp') <= TempLimit
         /\ \A i \in 1..Len(temp') : temp'[i].cmd \in Counted => temp'[i].fid \in Fids
         /\ SeenOther(r) /\ Remembered(r) => Entry(r) \in Entries
<1>1. requests + 1 <= scenario.requests /\ r.cmd \in scenario.commands /\ Entries' = Entries
  BY SentIs DEF Entries
<1>2. Entry(r) \in Entries /\ (Entry(r).cmd \in Counted => Entry(r).fid \in Fids)
  BY <1>1, EntryIs DEF Asking, OnFiles
<1>3. temp' \in Seq(Entries) /\ Len(temp') <= TempLimit
  <2>1. CASE SeenOther(r) /\ Remembered(r) BY <1>2, <2>1, PushedEntries DEF SeenOther
  <2>2. CASE UNCHANGED temp BY <2>2 DEF Types
  <2>3. CASE r.cmd = "logoff" /\ LogoffRequest(r)
    <3>1. r.uid \in Uids BY <2>3 DEF Asking, LoggedIn
    <3>2. temp' = temp \/ temp' = <<>> BY <2>3, <3>1, LogoffIs
    <3>3. QED
      <4>1. temp \in Seq(Entries) /\ Len(temp) <= TempLimit /\ TempLimit \in Nat BY Smb1Assumption DEF Types
      <4>2. <<>> \in Seq(Entries) /\ Len(<<>>) = 0 OBVIOUS
      <4>3. QED
        <5>1. CASE temp' = temp BY <4>1, <5>1
        <5>2. CASE temp' = <<>> BY <4>1, <5>2
        <5>3. QED BY <3>2, <5>1, <5>2
  <2>4. QED BY <2>1, <2>2, <2>3, SentIs DEF SeenOther, Unseen, analyzer
<1>4. \A i \in 1..Len(temp') : temp'[i].cmd \in Counted => temp'[i].fid \in Fids
  <2>1. CASE SeenOther(r) /\ Remembered(r)
    <3>1. temp' = Pushed(Entry(r)) BY <2>1 DEF SeenOther
    <3>2. /\ temp'[1] = Entry(r)
          /\ \A i \in 1..Len(temp') : i = 1 \/ (i - 1 \in 1..Len(temp) /\ i \in Nat /\ temp'[i] = temp[i - 1])
      BY <1>2, <3>1, PushedEntries
    <3>3. \A i \in 1..Len(temp) : temp[i].cmd \in Counted => temp[i].fid \in Fids BY DEF Types
    <3> TAKE i \in 1..Len(temp')
    <3>4. CASE i = 1 BY <1>2, <3>2, <3>4
    <3>5. CASE i # 1 BY <3>2, <3>3, <3>5
    <3>6. QED BY <3>4, <3>5
  <2>2. CASE UNCHANGED temp BY <2>2 DEF Types
  <2>3. CASE r.cmd = "logoff" /\ LogoffRequest(r) BY <2>2, <2>3, LogoffIs DEF Asking, LoggedIn
  <2>4. QED BY <2>1, <2>2, <2>3, SentIs DEF SeenOther, Unseen, analyzer
<1>5. QED BY <1>1, <1>2, <1>3, <1>4

LEMMA SentEntries ==
  ASSUME Types, Asked, OwnEntries, NEW r, NEW told, NEW kinds, Asking(r, told, kinds), Send(r, told, kinds)
  PROVE  OwnEntries'
<1>1. /\ requests \in Nat /\ requests' = requests + 1 /\ asked' = asked \cup {r} /\ odd \subseteq odd' /\ kinds \subseteq odd'
      /\ Len(temp) \in Nat /\ temp \in Seq(Entries) /\ r.cmd \in scenario.commands /\ requests + 1 <= scenario.requests
  BY SentIs DEF Types
<1>2. r.id \in 1..(requests + 1) /\ (r.id <= requests => "again" \in odd') /\ \A q \in asked : q.id # r.id
  BY <1>1 DEF Asking
<1>3. \A i \in 1..Len(temp) : temp[i].id <= requests /\ temp[i].id \in Nat
  <2>1. \A i \in 1..Len(temp) : temp[i] \in Entries BY <1>1
  <2>2. scenario.requests \in Nat BY Smb1Assumption DEF Types
  <2>3. QED BY <2>1, <2>2 DEF OwnEntries, Entries
<1>4. "lost" \notin odd' =>
        /\ \A i \in 1..Len(temp) : temp[i].cmd = "close" => \E q \in asked : q.cmd = "close" /\ q.id = temp[i].id
        /\ \A i, j \in 1..Len(temp) : temp[i].cmd = "close" /\ temp[j].cmd = "close" /\ temp[i].id = temp[j].id => i = j
  BY <1>1 DEF OwnEntries
<1>5. ~ReadAgain' /\ "negotiate" \notin odd' =>
        \A q \in asked : q.cmd \in Answered => \A i \in 1..Len(temp) : Newest(i, q.cmd, q.id) => Tells(temp[i], q)
  BY <1>1 DEF OwnEntries, ReadAgain
<1>6. CASE UNCHANGED temp /\ (r.cmd \in Answered /\ ~ReadAgain' /\ "negotiate" \notin odd' =>
                              \A i \in 1..Len(temp) : ~(temp[i].cmd = r.cmd /\ temp[i].id = r.id))
  BY <1>1, <1>3, <1>4, <1>5, <1>6 DEF Newest, OwnEntries, Tells
<1>7. CASE temp' = <<>> BY <1>7 DEF OwnEntries
<1>8. CASE SeenOther(r) /\ Remembered(r)
  <2>1. temp' = Pushed(Entry(r)) /\ Entry(r) \in Entries BY <1>8, SentTemp DEF SeenOther
  <2> DEFINE e == Entry(r)
  <2>2. /\ Entry(r).cmd = r.cmd /\ Entry(r).id = r.id
        /\ r.cmd = "setup" => Entry(r).user = r.user
        /\ r.cmd \in OnTrees => Entry(r).name = r.name /\ Entry(r).to = r.to
        /\ r.cmd \in Counted => Entry(r).fid = r.fid /\ (r.cmd = "write" => Entry(r).size = 2)
    BY <1>1, EntryIs
  <2>3. e \in Entries /\ e.cmd = r.cmd /\ e.id = r.id /\ Tells(e, r) BY <1>8, <2>1, <2>2, RememberedIs DEF Tells
  <2>4. /\ Len(temp') \in Nat /\ 1 \in 1..Len(temp') /\ temp'[1] = e
        /\ \A i \in 1..Len(temp') : i = 1 \/ (i - 1 \in 1..Len(temp) /\ i \in Nat /\ temp'[i] = temp[i - 1])
        /\ \A i \in 1..Len(temp) :
              i \in Nat /\ (~(i = TempLimit /\ Len(temp) = TempLimit) =>
                             i + 1 \in 1..Len(temp') /\ temp'[i + 1] = temp[i])
    BY <2>1, PushedEntries
  <2> HIDE DEF e
  <2>5. \A i \in 1..Len(temp') : temp'[i].id <= requests'
    <3> TAKE i \in 1..Len(temp')
    <3>1. CASE i = 1 BY <1>1, <1>2, <2>3, <2>4, <3>1
    <3>2. CASE i # 1 BY <1>1, <1>3, <2>4, <3>2
    <3>3. QED BY <3>1, <3>2
  <2>6. ASSUME "lost" \notin odd'
        PROVE /\ \A i \in 1..Len(temp') : temp'[i].cmd = "close" => \E q \in asked' : q.cmd = "close" /\ q.id = temp'[i].id
              /\ \A i, j \in 1..Len(temp') : temp'[i].cmd = "close" /\ temp'[j].cmd = "close" /\ temp'[i].id = temp'[j].id => i = j
    <3>1. \A i \in 1..Len(temp') : temp'[i].cmd = "close" => \E q \in asked' : q.cmd = "close" /\ q.id = temp'[i].id
      <4> SUFFICES ASSUME NEW i \in 1..Len(temp'), temp'[i].cmd = "close"
                   PROVE  \E q \in asked' : q.cmd = "close" /\ q.id = temp'[i].id
        OBVIOUS
      <4>1. CASE i = 1 BY <1>1, <2>3, <2>4, <4>1
      <4>2. CASE i # 1 BY <1>1, <1>4, <2>4, <2>6, <4>2
      <4>3. QED BY <4>1, <4>2
    <3>2. \A i \in 1..Len(temp) : ~(temp[i].cmd = "close" /\ temp[i].id = r.id) BY <1>2, <1>4, <2>6
    <3>3. ASSUME NEW i \in 1..Len(temp'), NEW j \in 1..Len(temp'),
                 temp'[i].cmd = "close", temp'[j].cmd = "close", temp'[i].id = temp'[j].id
          PROVE  i = j
      <4>1. CASE i = 1 /\ j # 1 BY <2>3, <2>4, <3>2, <3>3, <4>1
      <4>2. CASE j = 1 /\ i # 1 BY <2>3, <2>4, <3>2, <3>3, <4>2
      <4>3. CASE i # 1 /\ j # 1
        <5>1. i - 1 \in 1..Len(temp) /\ j - 1 \in 1..Len(temp) /\ temp'[i] = temp[i - 1] /\ temp'[j] = temp[j - 1]
          BY <2>4, <4>3
        <5>2. i - 1 = j - 1 BY <1>4, <2>6, <3>3, <5>1
        <5>3. QED BY <5>2
      <4>4. QED BY <4>1, <4>2, <4>3
    <3>4. QED BY <3>1, <3>3
  <2>7. ASSUME ~ReadAgain', "negotiate" \notin odd', NEW q \in asked', q.cmd \in Answered,
               NEW i \in 1..Len(temp'), Newest(i, q.cmd, q.id)'
        PROVE  Tells(temp'[i], q)
    <3>1. /\ temp'[i].cmd = q.cmd /\ temp'[i].id = q.id
          /\ \A j \in 1..(i - 1) : ~(temp'[j].cmd = q.cmd /\ temp'[j].id = q.id)
      BY <2>7 DEF Newest
    <3>2. CASE q = r BY <2>3, <2>4, <3>1, <3>2
    <3>3. CASE q \in asked
      <4>1. i # 1 BY <1>2, <2>3, <2>4, <3>1, <3>3
      <4>2. PICK k \in 1..Len(temp) : k = i - 1 BY <2>4, <4>1
      <4>3. temp'[i] = temp[k] BY <2>4, <4>1, <4>2
      <4>4. ASSUME NEW j \in 1..(k - 1) PROVE ~(temp[j].cmd = q.cmd /\ temp[j].id = q.id)
        <5>1. j \in Int /\ k \in Int /\ i \in Int /\ i = k + 1 /\ k <= Len(temp) /\ Len(temp) \in Int /\ Len(temp') \in Int
          BY <1>1, <2>4, <4>2
        <5>2. j + 1 \in 1..(i - 1) /\ j + 1 \in 1..Len(temp') /\ j + 1 # 1 /\ (j + 1) - 1 = j BY <5>1
        <5>3. temp'[j + 1] = temp[j] BY <2>4, <5>2
        <5>4. QED BY <3>1, <5>2, <5>3
      <4>5. Newest(k, q.cmd, q.id) BY <3>1, <4>3, <4>4 DEF Newest
      <4>6. QED BY <1>5, <2>7, <3>3, <4>3, <4>5
    <3>4. QED BY <1>1, <2>7, <3>2, <3>3
  <2>8. QED BY <2>5, <2>6, <2>7 DEF OwnEntries
<1>9. CASE SeenOther(r) /\ ~Remembered(r)
  <2>1. UNCHANGED temp BY <1>9 DEF SeenOther
  <2>2. ASSUME r.cmd \in Answered, ~ReadAgain', "negotiate" \notin odd', NEW i \in 1..Len(temp),
               temp[i].cmd = r.cmd, temp[i].id = r.id
        PROVE  FALSE
    <3>1. r.id <= requests BY <1>3, <2>2
    <3>2. "lost" \notin odd' BY <1>2, <2>2, <3>1 DEF ReadAgain
    <3>3. r.cmd # "close" BY <1>2, <1>4, <2>2, <3>2
    <3>4. r.cmd = "setup" /\ r.form = "negotiate" BY <1>9, <2>2, <3>3, RememberedIs
    <3>5. Found("setup", r.id) # 0 BY <2>2, <3>4, FoundFacts
    <3>6. "negotiate" \in odd' BY <1>1, <3>4, <3>5 DEF Asking
    <3>7. QED BY <2>2, <3>6
  <2>3. QED BY <1>6, <2>1, <2>2
<1>10. CASE r.cmd = "logoff" /\ LogoffRequest(r)
  BY <1>6, <1>7, <1>10, LogoffIs DEF Asking, LoggedIn, Answered, OnTrees, Counted, Opens, OfNames
<1>11. CASE Unseen BY <1>2, <1>3, <1>6, <1>11 DEF Unseen, analyzer, ReadAgain
<1>12. QED BY <1>8, <1>9, <1>10, <1>11, SentIs

LEMMA SentShares ==
  ASSUME Types, Asked, OwnShares, NEW r, NEW told, NEW kinds, Asking(r, told, kinds), Send(r, told, kinds)
  PROVE  OwnShares' /\ treeCache' \in [1..scenario.requests -> Shares \cup {None}]
<1>1. /\ requests \in Nat /\ requests' = requests + 1 /\ asked' = asked \cup {r} /\ odd \subseteq odd' /\ kinds \subseteq odd'
      /\ requests + 1 <= scenario.requests /\ scenario.requests \in Nat /\ scenario' = scenario
      /\ treeCache \in [1..scenario.requests -> Shares \cup {None}]
  BY SentIs, Smb1Assumption DEF Types
<1>2. r.id \in 1..(requests + 1) /\ (r.id <= requests => "again" \in odd') /\ \A q \in asked : q.id # r.id /\ q.id \in 1..requests
  BY <1>1 DEF Asking, Asked, Asks
<1>3. /\ \A k \in 1..scenario.requests : k > requests => treeCache[k] = None
      /\ ~ReadAgain' => \A q \in asked : Mounts1(q) => treeCache[q.id] \in {None, q.share}
      /\ odd' \cap {"lost", "logoff"} = {} => \A q \in asked : Mounts1(q) => treeCache[q.id] = q.share
  BY <1>1 DEF OwnShares, ReadAgain
<1>4. CASE SeenOther(r) BY <1>1, <1>2, <1>3, <1>4 DEF SeenOther, Caches, OwnShares
<1>5. CASE Unseen BY <1>1, <1>2, <1>3, <1>5 DEF Unseen, analyzer, ReadAgain, OwnShares
<1>6. CASE r.cmd = "logoff" /\ LogoffRequest(r)
  BY <1>1, <1>2, <1>3, <1>6, LogoffIs DEF Asking, LoggedIn, Mounts1, OwnShares
<1>7. QED BY <1>4, <1>5, <1>6, SentIs

LEMMA SentNamed ==
  ASSUME Types, UsersNamed, TreesNamed, NEW r, NEW told, NEW kinds, Asking(r, told, kinds), Send(r, told, kinds)
  PROVE  UsersNamed' /\ TreesNamed'
<1>1. /\ asked' = asked \cup {r} /\ odd \subseteq odd' /\ UNCHANGED <<users, trees, files>>
      /\ \A u \in Uids : Narrowed(r, u)
  BY SentIs, SentUsers
<1>2. StaleName => StaleName' BY <1>1 DEF StaleName
<1>3. ASSUME odd' \cap {"lost", "negotiate"} = {}, NEW u \in Uids, userData'[u].known
      PROVE  users'[u] # None /\ ~Leaving(u)'
  BY <1>1, <1>3, NoUserIs, SentIs, LogoffIs DEF Narrowed, UsersNamed, SeenOther, Unseen, Leaving
<1>4. ASSUME ~StaleName', "negotiate" \notin odd', NEW u \in Uids, users'[u] # None
      PROVE  userData'[u].name \in {NoName, users'[u]}
  BY <1>1, <1>2, <1>4, NoUserIs DEF UsersNamed, Narrowed
<1>5. \A u \in Uids, t \in Tids : userData'[u].trees[t] \in {None, userData[u].trees[t]}
  BY <1>1, NoUserIs DEF Narrowed, Trees
<1>6. ASSUME ~ReadAgain', "remounted" \notin odd', NEW u \in Uids, NEW t \in Tids, userData'[u].trees[t] # None
      PROVE  \/ trees'[t] = <<u, userData'[u].trees[t]>>
             \/ /\ trees'[t] = <<None, None>>
                /\ \A q \in asked' : q.cmd \in OnTrees => ~(q.uid = u /\ q.tid = t)
  BY <1>1, <1>5, <1>6 DEF TreesNamed, ReadAgain, Asking
<1>7. ASSUME odd' \cap {"lost", "shared", "logoff"} = {}, NEW u \in Uids, NEW t \in Tids, trees'[t][1] = u
      PROVE  userData'[u].trees[t] \in {None, trees'[t][2]}
  BY <1>1, <1>5, <1>7 DEF TreesNamed
<1>8. UsersNamed' BY <1>3, <1>4 DEF UsersNamed
<1>9. TreesNamed' BY <1>6, <1>7 DEF TreesNamed
<1>10. QED BY <1>8, <1>9

(* The file that is followed does not change by a mark that was asked for. *)
LEMMA SentFiles ==
  ASSUME Types, FilesFollow, NEW r, NEW told, NEW kinds, Asking(r, told, kinds), Send(r, told, kinds)
  PROVE  FilesFollow'
<1>1. /\ asked' = asked \cup {r} /\ odd \subseteq odd' /\ UNCHANGED <<users, trees, files>>
      /\ \A u \in Uids : Narrowed(r, u)
  BY SentIs, SentUsers
<1> SUFFICES ASSUME Straight', NEW u \in Uids, NEW f \in Fids, userData'[u].files[f].known
             PROVE  \/ files'[f] = NotOpen
                    \/ files'[f].uid = u /\ Follows(userData[u].files[f], files[f], f)'
  BY DEF FilesFollow
<1>2. Straight BY <1>1 DEF Straight, StaleName
<1>3. PICK s \in States : s = userData[u].files[f] BY CountsAre DEF Types
<1>4. /\ userData[u].files[f].known
      /\ userData'[u].files[f] = s \/ (Marks(r, u, f) /\ userData'[u].files[f] = [s EXCEPT !.delete = TRUE])
  BY <1>1, <1>3, NoUserIs DEF Narrowed
<1>5. files[f] = NotOpen \/ (files[f].uid = u /\ Follows(s, files[f], f)) BY <1>2, <1>3, <1>4 DEF FilesFollow
<1>6. Disposing(f) => Disposing(f)' BY <1>1 DEF Disposing
<1>7. ASSUME Follows(s, files[f], f)
      PROVE  Follows(userData[u].files[f], files[f], f)'
  <2>1. CASE userData'[u].files[f] = s BY <1>1, <1>6, <1>7, <2>1 DEF Follows, Suppressed
  <2>2. CASE Marks(r, u, f) /\ userData'[u].files[f] = [s EXCEPT !.delete = TRUE]
    <3>1. Disposing(f)' BY <1>1, <2>2 DEF Marks, Disposing
    <3>2. PICK s1 \in States : /\ s1 = [s EXCEPT !.delete = TRUE] /\ s1.readed = s.readed /\ s1.written = s.written
                               /\ s1.path = s.path /\ s1.isipc = s.isipc /\ s1.isdirectory = s.isdirectory
      <4>1. /\ [s EXCEPT !.delete = TRUE] \in States
            /\ [s EXCEPT !.delete = TRUE].readed = s.readed /\ [s EXCEPT !.delete = TRUE].written = s.written
            /\ [s EXCEPT !.delete = TRUE].path = s.path /\ [s EXCEPT !.delete = TRUE].isipc = s.isipc
            /\ [s EXCEPT !.delete = TRUE].isdirectory = s.isdirectory
        BY DEF States
      <4>2. QED BY <4>1
    <3>3. userData'[u].files[f] = s1 BY <2>2, <3>2
    <3>4. QED BY <1>1, <1>7, <3>1, <3>2, <3>3 DEF Follows, Suppressed
  <2>3. QED BY <1>4, <2>1, <2>2
<1>8. QED BY <1>1, <1>5, <1>7

EventTypes ==
  [op : {"login", "logout", "create", "mkdir", "remove", "rmdir", "read", "write", "rename"},
   user : Users, path : Paths, to : Paths, size : Bytes]
Heard == events \subseteq EventTypes /\ NothingInvented

LEMMA ToldIs ==
  ASSUME NEW op, NEW who, NEW path
  PROVE  /\ Told(op, who, path) = [op |-> op, user |-> who, path |-> path, to |-> NoPath, size |-> 0]
         /\ Covers(Told(op, who, path), Told(op, who, path))
         /\ scenario \in Scenarios => 0 \in Bytes
         /\ op \in {"login", "logout", "create", "mkdir", "remove", "rmdir", "read", "write", "rename"}
            /\ who \in Users /\ path \in Paths /\ scenario \in Scenarios => Told(op, who, path) \in EventTypes
  BY Smb1Assumption DEF Told, Event, Covers, Bytes, NoPath, Paths, EventTypes

LEMMA SentSound ==
  ASSUME Sound, NEW r, NEW told, NEW kinds, Asking(r, told, kinds), Send(r, told, kinds)
  PROVE  Sound' /\ Heard'
<1>1. Types /\ Counts /\ Asked /\ Hosts /\ OwnEntries /\ OwnShares /\ UsersNamed /\ TreesNamed /\ FilesFollow
  BY DEF Sound
<1>2. /\ requests' = requests + 1 /\ requests' <= scenario.requests /\ facts' = told /\ odd \subseteq odd'
      /\ UNCHANGED <<scenario, users, trees, files>>
      /\ SeenOther(r) \/ (r.cmd = "logoff" /\ LogoffRequest(r)) \/ Unseen
  BY <1>1, SentIs
<1>3. Types'
  <2>1. /\ temp' \in Seq(Entries)' /\ Len(temp') <= TempLimit
        /\ \A i \in 1..Len(temp') : temp'[i].cmd \in Counted => temp'[i].fid \in Fids
    BY <1>1, SentTemp
  <2>2. treeCache' \in [1..scenario.requests' -> Shares \cup {None}] BY <1>1, <1>2, SentShares
  <2>3. userData' \in [Uids -> UserStates] /\ Blanks(userData') BY <1>1, SentUsers
  <2>4. QED BY <1>1, <1>2, <2>1, <2>2, <2>3 DEF Types, Blanks, UserStates, States, Paths, OpenFiles
<1>4. Counts' /\ Asked' /\ Hosts' /\ OwnEntries' /\ OwnShares' /\ UsersNamed' /\ TreesNamed' /\ FilesFollow'
  BY <1>1, SentCounts, SentAsked, SentHosts, SentEntries, SentShares, SentNamed, SentFiles
<1>5. CASE events' = {} BY <1>3, <1>4, <1>5 DEF Sound, Heard, NothingInvented
<1>6. CASE r.cmd = "logoff" /\ LogoffRequest(r) /\ events' # {}
  <2>1. r.uid \in Uids /\ users[r.uid] # None BY <1>6 DEF Asking, LoggedIn
  <2>2. PICK d \in UserStates : d = userData[r.uid] BY <1>1, <2>1 DEF Types
  <2>3. d.name \in Users BY <2>2 DEF UserStates
  <2>4. d.name # NoName /\ events' = {Told("logout", d.name, NoPath)} BY <1>1, <1>6, <2>1, <2>2, LogoffIs
  <2>5. NoPath \in Paths BY DEF NoPath, Paths
  <2>6. scenario \in Scenarios BY <1>1 DEF Types
  <2>7. Told("logout", d.name, NoPath) \in EventTypes BY <2>3, <2>5, <2>6, ToldIs
  <2>8. EventTypes' = EventTypes BY <1>2 DEF EventTypes, Paths, Bytes
  <2>9. ASSUME odd' \cap Misleading = {}, ~StaleName'
        PROVE  \A e \in events' : \E g \in facts' : Covers(g, e)
    BY <1>1, <1>2, <1>6, <2>1, <2>2, <2>4, <2>9, ToldIs DEF StaleName, Misleading, UsersNamed, Asking
  <2>10. QED BY <1>3, <1>4, <2>4, <2>7, <2>8, <2>9 DEF Sound, Heard, NothingInvented
<1>7. QED BY <1>2, <1>5, <1>6 DEF SeenOther, Unseen

--------------------------------
(* Answers: what the dispatcher does with one. *)

(* One file of a known user is changed. *)
LEMMA TouchedIs ==
  ASSUME userData \in [Uids -> UserStates], Blanks(userData), NEW u \in Uids, NEW f \in Fids, NEW s \in States,
         userData[u].known, ~s.known => s = Unknown,
         userData' = [userData EXCEPT ![u].files[f] = s]
  PROVE  /\ userData' \in [Uids -> UserStates] /\ Blanks(userData') /\ userData'[u].files[f] = s
         /\ \A x \in Uids, g \in Fids : (x # u \/ g # f) => userData'[x].files[g] = userData[x].files[g]
         /\ \A x \in Uids : /\ userData'[x].known = userData[x].known /\ userData'[x].name = userData[x].name
                            /\ userData'[x].trees = userData[x].trees
<1>1. PICK d \in UserStates : d = userData[u] OBVIOUS
<1>2. d.files \in [Fids -> States] BY <1>1 DEF UserStates
<1>3. PICK d1 \in UserStates : d1 = [d EXCEPT !.files[f] = s] /\ d1.known = d.known /\ d1.name = d.name
                               /\ d1.trees = d.trees /\ d1.files = [d.files EXCEPT ![f] = s]
  <2>1. /\ [d EXCEPT !.files[f] = s] \in UserStates
        /\ [d EXCEPT !.files[f] = s].known = d.known /\ [d EXCEPT !.files[f] = s].name = d.name
        /\ [d EXCEPT !.files[f] = s].trees = d.trees
        /\ [d EXCEPT !.files[f] = s].files = [d.files EXCEPT ![f] = s]
    BY <1>1, <1>2 DEF UserStates
  <2>2. QED BY <2>1
<1>4. userData' = [userData EXCEPT ![u] = d1] BY <1>1, <1>3
<1>5. userData' \in [Uids -> UserStates] /\ userData'[u] = d1 /\ \A x \in Uids \ {u} : userData'[x] = userData[x]
  BY <1>3, <1>4
<1>6. d1.files[f] = s /\ \A g \in Fids \ {f} : d1.files[g] = d.files[g] BY <1>2, <1>3
<1>7. Blanks(userData') BY <1>1, <1>3, <1>5, <1>6 DEF Blanks
<1>8. ASSUME NEW x \in Uids
      PROVE  /\ userData'[x].known = userData[x].known /\ userData'[x].name = userData[x].name
             /\ userData'[x].trees = userData[x].trees
  BY <1>1, <1>3, <1>5
<1>9. ASSUME NEW x \in Uids, NEW g \in Fids, x # u \/ g # f PROVE userData'[x].files[g] = userData[x].files[g]
  BY <1>1, <1>5, <1>6, <1>9
<1>10. QED BY <1>5, <1>6, <1>7, <1>8, <1>9

(* A user is given a name. *)
LEMMA NamedIs ==
  ASSUME NEW data \in [Uids -> UserStates], Blanks(data), NEW u \in Uids, NEW n \in Users
  PROVE  LET data1 == [data EXCEPT ![u].known = TRUE, ![u].name = n]
         IN /\ data1 \in [Uids -> UserStates] /\ Blanks(data1) /\ data1[u].known /\ data1[u].name = n
            /\ data1[u].trees = data[u].trees /\ data1[u].files = data[u].files
            /\ \A x \in Uids \ {u} : data1[x] = data[x]
<1> DEFINE data1 == [data EXCEPT ![u].known = TRUE, ![u].name = n]
<1>1. PICK d \in UserStates : d = data[u] OBVIOUS
<1>2. PICK d1 \in UserStates : d1 = [d EXCEPT !.known = TRUE, !.name = n] /\ d1.known /\ d1.name = n
                               /\ d1.trees = d.trees /\ d1.files = d.files
  <2>1. /\ [d EXCEPT !.known = TRUE, !.name = n] \in UserStates
        /\ [d EXCEPT !.known = TRUE, !.name = n].known = TRUE /\ [d EXCEPT !.known = TRUE, !.name = n].name = n
        /\ [d EXCEPT !.known = TRUE, !.name = n].trees = d.trees
        /\ [d EXCEPT !.known = TRUE, !.name = n].files = d.files
    BY <1>1 DEF UserStates
  <2>2. QED BY <2>1
<1>3. data1 = [data EXCEPT ![u] = d1] BY <1>1, <1>2
<1> HIDE DEF data1
<1>4. data1 \in [Uids -> UserStates] /\ data1[u] = d1 /\ \A x \in Uids \ {u} : data1[x] = data[x] BY <1>2, <1>3
<1>5. Blanks(data1)
  <2>1. d1.known /\ \A g \in Fids : ~d1.files[g].known => d1.files[g] = Unknown BY <1>1, <1>2 DEF Blanks
  <2>2. QED BY <1>4, <2>1 DEF Blanks
<1>6. QED BY <1>1, <1>2, <1>4, <1>5 DEF data1

(* A tree is put under a user. *)
LEMMA ConnectIs ==
  ASSUME Types, NEW data \in [Uids -> UserStates], Blanks(data), NEW a, a.uid \in Uids, a.tid \in Trees,
         a.id \in 1..scenario.requests, NEW data1, data1 = Connect(data, a)
  PROVE  /\ data1 \in [Uids -> UserStates] /\ Blanks(data1)
         /\ data1[a.uid].known <=> (data[a.uid].known \/ treeCache[a.id] # None)
         /\ data1[a.uid].name = data[a.uid].name /\ data1[a.uid].files = data[a.uid].files
         /\ \A t \in Trees : data1[a.uid].trees[t] =
               IF t = a.tid /\ treeCache[a.id] # None THEN treeCache[a.id] ELSE data[a.uid].trees[t]
         /\ \A x \in Uids \ {a.uid} : data1[x] = data[x]
<1>1. treeCache[a.id] \in Shares \cup {None} BY DEF Types
<1>2. CASE treeCache[a.id] = None BY <1>2 DEF Connect
<1>3. CASE treeCache[a.id] # None
  <2> DEFINE u == a.uid
             share == treeCache[a.id]
  <2>1. PICK d \in UserStates : d = data[u] OBVIOUS
  <2>2. d.trees \in [Trees -> Shares \cup {None}] BY <2>1 DEF UserStates
  <2>3. PICK d1 \in UserStates : d1 = [d EXCEPT !.known = TRUE, !.trees[a.tid] = share] /\ d1.known /\ d1.name = d.name
                                 /\ d1.trees = [d.trees EXCEPT ![a.tid] = share] /\ d1.files = d.files
    <3>1. /\ [d EXCEPT !.known = TRUE, !.trees[a.tid] = share] \in UserStates
          /\ [d EXCEPT !.known = TRUE, !.trees[a.tid] = share].known = TRUE
          /\ [d EXCEPT !.known = TRUE, !.trees[a.tid] = share].name = d.name
          /\ [d EXCEPT !.known = TRUE, !.trees[a.tid] = share].trees = [d.trees EXCEPT ![a.tid] = share]
          /\ [d EXCEPT !.known = TRUE, !.trees[a.tid] = share].files = d.files
      BY <1>1, <2>1, <2>2 DEF UserStates
    <3>2. QED BY <3>1
  <2>4. data1 = [data EXCEPT ![u] = d1] BY <1>3, <2>1, <2>3 DEF Connect
  <2>5. data1 \in [Uids -> UserStates] /\ data1[u] = d1 /\ \A x \in Uids \ {u} : data1[x] = data[x]
    BY <2>3, <2>4
  <2>6. Blanks(data1)
    <3>1. d1.known /\ \A g \in Fids : ~d1.files[g].known => d1.files[g] = Unknown BY <2>1, <2>3 DEF Blanks
    <3> HIDE DEF u, share
    <3>2. QED BY <2>5, <3>1 DEF Blanks
  <2>7. \A t \in Trees : d1.trees[t] = IF t = a.tid THEN share ELSE d.trees[t] BY <2>2, <2>3
  <2>8. QED BY <1>3, <2>1, <2>3, <2>5, <2>6, <2>7
<1>4. QED BY <1>2, <1>3

LEMMA DoneIs ==
  ASSUME Types, NEW i \in 1..Len(temp)
  PROVE  /\ Done(i) \in Seq(Entries) /\ Len(Done(i)) = Len(temp) /\ Done(i)[i] = Blank
         /\ \A j \in 1..Len(temp) : j # i => Done(i)[j] = temp[j]
  BY Smb1Assumption DEF Types, Blank, Entries, Done

Good(a) ==
  /\ a.cmd \in Kinds /\ a.uid \in Uids /\ a.id \in 1..scenario.requests /\ a.ok \in BOOLEAN
  /\ a.cmd \in OnTrees \cup {"setup", "tcon"} => a.tid \in Trees
  /\ a.cmd = "setup" => a.andx \in BOOLEAN
  /\ a.cmd \in Opens /\ a.ok => a.fid \in Fids /\ (a.cmd = "ntcreate" => a.directory \in BOOLEAN)
  /\ a.cmd = "read" /\ a.ok => a.size \in Nat
ListAfter(a) ==
  \/ /\ temp' = temp
     /\ a.cmd = "close" => \A i \in 1..Len(temp) : ~(temp[i].cmd = "close" /\ temp[i].id = a.id)
  \/ \E i \in 1..Len(temp) : Newest(i, a.cmd, a.id) /\ temp' = Done(i)
Puts(u, f, s) ==
  /\ s \in States /\ userData[u].known /\ userData'[u].files[f] = s
  /\ \A x \in Uids, g \in Fids : (x # u \/ g # f) => userData'[x].files[g] = userData[x].files[g]
  /\ \A x \in Uids : /\ userData'[x].known = userData[x].known /\ userData'[x].name = userData[x].name
                     /\ userData'[x].trees = userData[x].trees
Joins(a, i) ==
  /\ \A x \in Uids : userData'[x].files = userData[x].files
  /\ \A x \in Uids \ {a.uid} : userData'[x] = userData[x]
  /\ userData'[a.uid].known <=> userData[a.uid].known \/ i # 0 \/ (a.andx /\ treeCache[a.id] # None)
  /\ userData'[a.uid].name = IF i = 0 THEN userData[a.uid].name ELSE temp[i].user
  /\ \A t \in Trees : userData'[a.uid].trees[t] =
        IF a.andx /\ t = a.tid /\ treeCache[a.id] # None THEN treeCache[a.id] ELSE userData[a.uid].trees[t]
AfterSetup(a, i) ==
  \/ ~a.ok /\ userData' = userData /\ events' = {}
  \/ /\ a.ok /\ Joins(a, i)
     /\ events' = IF i = 0 \/ temp[i].user = NoName THEN {} ELSE {Told("login", temp[i].user, NoPath)}
AfterTcon(a) ==
  /\ \A x \in Uids : userData'[x].files = userData[x].files /\ userData'[x].name = userData[x].name
  /\ \A x \in Uids \ {a.uid} : userData'[x] = userData[x]
  /\ userData'[a.uid].known <=> userData[a.uid].known \/ treeCache[a.id] # None
  /\ \A t \in Trees : userData'[a.uid].trees[t] =
        IF t = a.tid /\ treeCache[a.id] # None THEN treeCache[a.id] ELSE userData[a.uid].trees[t]
  /\ events' = {}
Opens1(s, old, path, ipc, isdirectory) ==
  /\ s.known /\ s.isipc = ipc /\ s.isdirectory = isdirectory /\ s.path = path
  /\ s.delete = old.delete /\ s.readed = old.readed /\ s.written = old.written
AfterOpen(a, i) ==
  \/ ~a.ok /\ userData' = userData /\ events' = {}
  \/ \E isdirectory \in BOOLEAN :
       /\ a.ok /\ (a.cmd = "ntcreate" => isdirectory = a.directory)
       /\ \/ ~userData[a.uid].known /\ userData' = userData
          \/ \E s \in States : /\ Puts(a.uid, a.fid, s)
                               /\ Opens1(s, userData[a.uid].files[a.fid], MakePath(a.uid, a.tid, temp[i].name),
                                         IsIpc(a.uid, a.tid), isdirectory)
       /\ events' = IF a.cmd = "ntcreate" /\ a.action = "created" /\ ~IsIpc(a.uid, a.tid)
                    THEN {Told(IF isdirectory THEN "mkdir" ELSE "create", userData[a.uid].name,
                               MakePath(a.uid, a.tid, temp[i].name))}
                    ELSE {}
AfterClose(a, i) ==
  \/ ~a.ok /\ userData' = userData /\ events' = {}
  \/ /\ a.ok /\ events' = CloseEvents(userData[a.uid].files[temp[i].fid], userData[a.uid].name)
     /\ \/ ~userData[a.uid].files[temp[i].fid].known /\ userData' = userData
        \/ temp[i].fid \in Fids /\ Puts(a.uid, temp[i].fid, Unknown)
AfterCount(a, i) ==
  /\ events' = {}
  /\ \/ userData' = userData /\ (~a.ok \/ ~userData[a.uid].files[temp[i].fid].known)
     \/ /\ a.ok /\ temp[i].fid \in Fids
        /\ \E s \in States :
             LET old == userData[a.uid].files[temp[i].fid]
             IN /\ Puts(a.uid, temp[i].fid, s) /\ old.known
                /\ s.readed = IF a.cmd = "read" THEN old.readed + a.size ELSE old.readed
                /\ s.written = IF a.cmd = "read" THEN old.written ELSE old.written + temp[i].size
                /\ s.known = old.known /\ s.isipc = old.isipc /\ s.isdirectory = old.isdirectory
                /\ s.delete = old.delete /\ s.path = old.path
AfterName(a, i) ==
  /\ userData' = userData
  /\ events' = IF ~a.ok \/ IsIpc(a.uid, a.tid) THEN {}
               ELSE {Event(a.cmd, userData[a.uid].name, MakePath(a.uid, a.tid, temp[i].name),
                           IF a.cmd = "rename" THEN MakePath(a.uid, a.tid, temp[i].to) ELSE NoPath, 0)}
After(a) ==
  LET i == Found(a.cmd, a.id)
  IN /\ a.cmd = "setup" => AfterSetup(a, i)
     /\ a.cmd = "tcon" => AfterTcon(a)
     /\ a.cmd \in Opens /\ i # 0 => AfterOpen(a, i)
     /\ a.cmd = "close" /\ i # 0 => AfterClose(a, i)
     /\ a.cmd \in {"read", "write"} /\ i # 0 => AfterCount(a, i)
     /\ a.cmd \in OfNames /\ i # 0 => AfterName(a, i)
     /\ a.cmd \in {"tdis", "dispose", "logoff"} \/ (a.cmd \notin {"setup", "tcon"} /\ i = 0) =>
          userData' = userData /\ events' = {}

LEMMA ListIs ==
  ASSUME Types, NEW a, Good(a), OnResponse(a)
  PROVE  treeCache' = treeCache /\ ListAfter(a)
<1> DEFINE i == Found(a.cmd, a.id)
<1>1. /\ i = 0 \/ (i \in 1..Len(temp) /\ Newest(i, a.cmd, a.id))
      /\ (\E k \in 1..Len(temp) : temp[k].cmd = a.cmd /\ temp[k].id = a.id) => i # 0
  BY FoundFacts
<1>2. CASE a.cmd = "setup" BY <1>2 DEF OnResponse, Opens, OfNames, SetupResponse, ListAfter
<1>3. CASE a.cmd = "tcon" BY <1>3 DEF OnResponse, Opens, OfNames, ListAfter
<1>4. CASE a.cmd \in Opens \cup OfNames \cup {"close", "read", "write"} /\ i # 0
  BY <1>1, <1>4 DEF OnResponse, Opens, OfNames, OpenResponse, CloseResponse, CountResponse, NameResponse,
    ListAfter
<1>5. CASE ~(a.cmd \in {"setup", "tcon"} \/ (a.cmd \in Opens \cup OfNames \cup {"close", "read", "write"} /\ i # 0))
  BY <1>1, <1>5 DEF OnResponse, Opens, OfNames, ListAfter, analyzer
<1>6. QED BY <1>2, <1>3, <1>4, <1>5

LEMMA TouchedPuts ==
  ASSUME Types, NEW u \in Uids, NEW f \in Fids, NEW s \in States, userData[u].known, ~s.known => s = Unknown,
         userData' = [userData EXCEPT ![u].files[f] = s]
  PROVE  userData' \in [Uids -> UserStates] /\ Blanks(userData') /\ Puts(u, f, s)
<1>1. userData \in [Uids -> UserStates] /\ Blanks(userData) BY DEF Types, Blanks
<1>2. /\ userData' \in [Uids -> UserStates] /\ Blanks(userData') /\ userData'[u].files[f] = s
      /\ \A x \in Uids, g \in Fids : (x # u \/ g # f) => userData'[x].files[g] = userData[x].files[g]
      /\ \A x \in Uids : /\ userData'[x].known = userData[x].known /\ userData'[x].name = userData[x].name
                         /\ userData'[x].trees = userData[x].trees
  BY <1>1, TouchedIs
<1>3. QED BY <1>2 DEF Puts

LEMMA TempIs ==
  ASSUME Types, NEW i \in 1..Len(temp)
  PROVE  /\ temp[i] \in Entries /\ temp[i].user \in Users /\ temp[i].name \in Names \cup {NoName}
         /\ temp[i].to \in Names \cup {NoName} /\ temp[i].fid \in Fids \cup {None} /\ temp[i].size \in 0..2
         /\ temp[i].cmd \in Counted => temp[i].fid \in Fids
<1>1. temp[i] \in Entries /\ (temp[i].cmd \in Counted => temp[i].fid \in Fids) BY DEF Types
<1>2. QED BY <1>1 DEF Entries

LEMMA PathsIs ==
  ASSUME Types, NEW u \in Uids, NEW t \in Trees, NEW name \in Names \cup {NoName}
  PROVE  /\ MakePath(u, t, name) \in Paths /\ IsIpc(u, t) \in BOOLEAN /\ userData[u].trees[t] \in Shares \cup {None}
         /\ userData[u].name \in Users /\ userData[u].trees \in [Trees -> Shares \cup {None}]
  BY DEF Types, UserStates, MakePath, IsIpc, Paths

LEMMA SetupIs ==
  ASSUME Types, NEW a, Good(a), a.cmd = "setup", OnResponse(a)
  PROVE  userData' \in [Uids -> UserStates] /\ Blanks(userData') /\ After(a)
<1> DEFINE i == Found(a.cmd, a.id)
           named == IF i = 0 THEN userData
                    ELSE [userData EXCEPT ![a.uid].known = TRUE, ![a.uid].name = temp[i].user]
<1>1. i = 0 \/ (i \in 1..Len(temp) /\ i # 0) BY FoundFacts
<1>2. userData \in [Uids -> UserStates] /\ Blanks(userData) /\ a.uid \in Uids /\ a.tid \in Trees /\ a.id \in 1..scenario.requests
      /\ a.andx \in BOOLEAN /\ a.ok \in BOOLEAN
  BY DEF Types, Good, Blanks
<1>3. SetupResponse(a, i) BY DEF OnResponse, Opens, OfNames
<1>4. /\ userData' = IF ~a.ok THEN userData ELSE IF a.andx THEN Connect(named, a) ELSE named
      /\ events' = IF ~a.ok \/ i = 0 \/ temp[i].user = NoName THEN {}
                   ELSE {Told("login", temp[i].user, NoPath)}
  BY <1>3 DEF SetupResponse
<1>5. /\ named \in [Uids -> UserStates] /\ Blanks(named)
      /\ named[a.uid].known <=> userData[a.uid].known \/ i # 0
      /\ named[a.uid].name = IF i = 0 THEN userData[a.uid].name ELSE temp[i].user
      /\ named[a.uid].trees = userData[a.uid].trees /\ named[a.uid].files = userData[a.uid].files
      /\ \A x \in Uids \ {a.uid} : named[x] = userData[x]
  <2>1. CASE i = 0 BY <1>2, <2>1
  <2>2. CASE i # 0
    <3>1. temp[i].user \in Users BY <1>1, <2>2, TempIs
    <3>2. named = [userData EXCEPT ![a.uid].known = TRUE, ![a.uid].name = temp[i].user] BY <2>2
    <3> HIDE DEF named, i
    <3>3. /\ named \in [Uids -> UserStates] /\ Blanks(named) /\ named[a.uid].known /\ named[a.uid].name = temp[i].user
          /\ named[a.uid].trees = userData[a.uid].trees /\ named[a.uid].files = userData[a.uid].files
          /\ \A x \in Uids \ {a.uid} : named[x] = userData[x]
      <4>1. PICK n \in Users : n = temp[i].user BY <3>1
      <4>2. named = [userData EXCEPT ![a.uid].known = TRUE, ![a.uid].name = n] BY <3>2, <4>1
      <4>3. /\ named \in [Uids -> UserStates] /\ Blanks(named) /\ named[a.uid].known /\ named[a.uid].name = n
            /\ named[a.uid].trees = userData[a.uid].trees /\ named[a.uid].files = userData[a.uid].files
            /\ \A x \in Uids \ {a.uid} : named[x] = userData[x]
        BY <1>2, <4>2, NamedIs
      <4>4. QED BY <4>1, <4>3
    <3>4. QED BY <2>2, <3>3
  <2>3. QED BY <2>1, <2>2
<1> HIDE DEF named
<1>6. AfterSetup(a, i) /\ userData' \in [Uids -> UserStates] /\ Blanks(userData')
  BY <1>2, <1>4, <1>5, ConnectIs DEF AfterSetup, Joins
<1>7. QED BY <1>6 DEF After, Opens, OfNames

LEMMA TconIs ==
  ASSUME Types, NEW a, Good(a), a.cmd = "tcon", OnResponse(a)
  PROVE  userData' \in [Uids -> UserStates] /\ Blanks(userData') /\ After(a)
  BY ConnectIs DEF Types, Good, Blanks, OnResponse, Opens, OfNames, AfterTcon, After

LEMMA OpenIs ==
  ASSUME Types, NEW a, Good(a), a.cmd \in Opens, Found(a.cmd, a.id) # 0, OnResponse(a)
  PROVE  userData' \in [Uids -> UserStates] /\ Blanks(userData') /\ After(a)
<1> DEFINE i == Found(a.cmd, a.id)
           u == a.uid
           path == MakePath(a.uid, a.tid, temp[i].name)
           ipc == IsIpc(a.uid, a.tid)
<1>1. i \in 1..Len(temp) /\ u \in Uids /\ a.tid \in Trees /\ a.ok \in BOOLEAN BY FoundFacts DEF Good, OnTrees
<1>2. userData \in [Uids -> UserStates] /\ Blanks(userData) BY DEF Types, Blanks
<1>3. temp[i].name \in Names \cup {NoName} BY <1>1, TempIs
<1>4. path \in Paths /\ ipc \in BOOLEAN BY <1>1, <1>3, PathsIs
<1>5. OpenResponse(a, i) BY DEF OnResponse, Opens, OfNames
<1>6. CASE ~a.ok BY <1>2, <1>5, <1>6 DEF OpenResponse, After, AfterOpen, Opens, OfNames
<1>7. CASE a.ok
  <2>1. PICK isdirectory \in IF a.cmd = "ntcreate" THEN {a.directory} ELSE BOOLEAN :
          /\ userData' = IF ~userData[u].known THEN userData
                         ELSE [userData EXCEPT ![u].files[a.fid] =
                                 [@ EXCEPT !.known = TRUE, !.isipc = ipc, !.isdirectory = isdirectory, !.path = path]]
          /\ events' = IF a.cmd = "ntcreate" /\ a.action = "created" /\ ~ipc
                       THEN {Told(IF isdirectory THEN "mkdir" ELSE "create", userData[u].name, path)}
                       ELSE {}
    BY <1>5, <1>7 DEF OpenResponse, GetUserName
  <2>2. a.fid \in Fids /\ isdirectory \in BOOLEAN /\ (a.cmd = "ntcreate" => isdirectory = a.directory)
    BY <1>7, <2>1 DEF Good
  <2>3. PICK old \in States : old = userData[u].files[a.fid] BY <1>1, <1>2, <2>2, CountsAre
  <2>4. PICK s \in States : /\ s = [old EXCEPT !.known = TRUE, !.isipc = ipc, !.isdirectory = isdirectory, !.path = path]
                            /\ Opens1(s, old, path, ipc, isdirectory)
    <3> DEFINE s1 == [old EXCEPT !.known = TRUE, !.isipc = ipc, !.isdirectory = isdirectory, !.path = path]
    <3> HIDE DEF path, ipc
    <3>1. s1 \in States /\ s1.known = TRUE /\ s1.isipc = ipc /\ s1.isdirectory = isdirectory /\ s1.path = path
          /\ s1.delete = old.delete /\ s1.readed = old.readed /\ s1.written = old.written
      BY <1>4, <2>2 DEF States
    <3>2. QED BY <3>1 DEF Opens1
  <2> HIDE DEF path, ipc, i
  <2>5. /\ userData' \in [Uids -> UserStates] /\ Blanks(userData')
        /\ (~userData[u].known /\ userData' = userData) \/ Puts(u, a.fid, s)
    BY <1>1, <1>2, <2>1, <2>2, <2>3, <2>4, TouchedPuts DEF Opens1
  <2>6. AfterOpen(a, i) BY <1>7, <2>1, <2>2, <2>3, <2>4, <2>5 DEF AfterOpen, path, ipc
  <2>7. QED BY <2>5, <2>6 DEF After, Opens, OfNames, i
<1>8. QED BY <1>1, <1>6, <1>7

LEMMA CloseIs ==
  ASSUME Types, NEW a, Good(a), a.cmd = "close", Found(a.cmd, a.id) # 0, OnResponse(a)
  PROVE  userData' \in [Uids -> UserStates] /\ Blanks(userData') /\ After(a)
<1> DEFINE i == Found(a.cmd, a.id)
           u == a.uid
           f == temp[i].fid
<1>1. i \in 1..Len(temp) /\ u \in Uids /\ a.ok \in BOOLEAN BY FoundFacts DEF Good
<1>2. userData \in [Uids -> UserStates] /\ Blanks(userData) BY DEF Types, Blanks
<1>3. CloseResponse(a, i) BY DEF OnResponse, Opens, OfNames
<1>4. /\ events' = IF a.ok THEN CloseEvents(userData[u].files[f], userData[u].name) ELSE {}
      /\ userData' = IF a.ok THEN [userData EXCEPT ![u].files[f] = Unknown] ELSE userData
  BY <1>3 DEF CloseResponse, FileState, GetUserName
<1>5. f \in Fids BY <1>1, FoundFacts, TempIs DEF Newest, Counted
<1> HIDE DEF i
<1>6. CASE ~a.ok BY <1>2, <1>4, <1>6 DEF After, AfterClose, i, Opens, OfNames
<1>7. CASE a.ok
  <2>1. /\ userData' \in [Uids -> UserStates] /\ Blanks(userData')
        /\ (~userData[u].files[f].known /\ userData' = userData) \/ Puts(u, f, Unknown)
    <3>1. CASE userData[u].known BY <1>1, <1>4, <1>5, <1>7, <3>1, NoUserIs, TouchedPuts
    <3>2. CASE ~userData[u].known BY <1>1, <1>2, <1>4, <1>5, <1>7, <3>2, NoUserIs DEF Blanks, UserStates
    <3>3. QED BY <3>1, <3>2
  <2>2. QED BY <1>4, <1>5, <1>7, <2>1 DEF After, AfterClose, i, Opens, OfNames
<1>8. QED BY <1>1, <1>6, <1>7

LEMMA CountIs ==
  ASSUME Types, NEW a, Good(a), a.cmd \in {"read", "write"}, Found(a.cmd, a.id) # 0, OnResponse(a)
  PROVE  userData' \in [Uids -> UserStates] /\ Blanks(userData') /\ After(a)
<1> DEFINE i == Found(a.cmd, a.id)
           u == a.uid
           f == temp[i].fid
<1>1. i \in 1..Len(temp) /\ u \in Uids /\ a.ok \in BOOLEAN BY FoundFacts DEF Good
<1>2. userData \in [Uids -> UserStates] /\ Blanks(userData) BY DEF Types, Blanks
<1>3. CountResponse(a, i) BY DEF OnResponse, Opens, OfNames
<1>4. /\ userData' = IF ~a.ok \/ ~userData[u].files[f].known THEN userData
                     ELSE IF a.cmd = "read" THEN [userData EXCEPT ![u].files[f].readed = @ + a.size]
                     ELSE [userData EXCEPT ![u].files[f].written = @ + temp[i].size]
      /\ events' = {}
  BY <1>3 DEF CountResponse, FileState
<1>5. f \in Fids /\ temp[i].size \in Nat BY <1>1, FoundFacts, TempIs DEF Newest, Counted
<1> HIDE DEF i
<1>6. CASE ~a.ok \/ ~userData[u].files[f].known BY <1>2, <1>4, <1>6 DEF After, AfterCount, i, Opens, OfNames
<1>7. CASE a.ok /\ userData[u].files[f].known
  <2>1. PICK old \in States : old = userData[u].files[f] /\ old.readed \in Nat /\ old.written \in Nat
    BY <1>1, <1>2, <1>5, CountsAre
  <2>2. userData[u].known BY <1>1, <1>2, <1>5, <1>7, NoUserIs DEF Blanks
  <2>3. PICK s \in States :
          /\ userData' = [userData EXCEPT ![u].files[f] = s]
          /\ s.readed = IF a.cmd = "read" THEN old.readed + a.size ELSE old.readed
          /\ s.written = IF a.cmd = "read" THEN old.written ELSE old.written + temp[i].size
          /\ s.known = old.known /\ s.isipc = old.isipc /\ s.isdirectory = old.isdirectory
          /\ s.delete = old.delete /\ s.path = old.path
    <3>1. CASE a.cmd = "read"
      <4>1. PICK n \in Nat : n = old.readed + a.size BY <1>7, <2>1, <3>1 DEF Good
      <4>2. PICK s \in States : s = [old EXCEPT !.readed = n] /\ s.readed = n /\ s.written = old.written
              /\ s.known = old.known /\ s.isipc = old.isipc /\ s.isdirectory = old.isdirectory
              /\ s.delete = old.delete /\ s.path = old.path
        <5>1. /\ [old EXCEPT !.readed = n] \in States /\ [old EXCEPT !.readed = n].readed = n
              /\ [old EXCEPT !.readed = n].written = old.written
              /\ [old EXCEPT !.readed = n].known = old.known /\ [old EXCEPT !.readed = n].isipc = old.isipc
              /\ [old EXCEPT !.readed = n].isdirectory = old.isdirectory
              /\ [old EXCEPT !.readed = n].delete = old.delete /\ [old EXCEPT !.readed = n].path = old.path
          BY DEF States
        <5>2. QED BY <5>1
      <4>3. userData' = [userData EXCEPT ![u].files[f] = s]
        BY <1>1, <1>2, <1>4, <1>5, <1>7, <2>1, <3>1, <4>1, <4>2
      <4>4. QED BY <3>1, <4>1, <4>2, <4>3
    <3>2. CASE a.cmd # "read"
      <4>1. PICK n \in Nat : n = old.written + temp[i].size BY <1>5, <2>1
      <4>2. PICK s \in States : s = [old EXCEPT !.written = n] /\ s.written = n /\ s.readed = old.readed
              /\ s.known = old.known /\ s.isipc = old.isipc /\ s.isdirectory = old.isdirectory
              /\ s.delete = old.delete /\ s.path = old.path
        <5>1. /\ [old EXCEPT !.written = n] \in States /\ [old EXCEPT !.written = n].written = n
              /\ [old EXCEPT !.written = n].readed = old.readed
              /\ [old EXCEPT !.written = n].known = old.known /\ [old EXCEPT !.written = n].isipc = old.isipc
              /\ [old EXCEPT !.written = n].isdirectory = old.isdirectory
              /\ [old EXCEPT !.written = n].delete = old.delete /\ [old EXCEPT !.written = n].path = old.path
          BY DEF States
        <5>2. QED BY <5>1
      <4>3. userData' = [userData EXCEPT ![u].files[f] = s]
        BY <1>1, <1>2, <1>4, <1>5, <1>7, <2>1, <3>2, <4>1, <4>2
      <4>4. QED BY <3>2, <4>1, <4>2, <4>3
    <3>3. QED BY <3>1, <3>2
  <2>4. userData' \in [Uids -> UserStates] /\ Blanks(userData') /\ Puts(u, f, s)
    BY <1>1, <1>5, <1>7, <2>1, <2>2, <2>3, TouchedPuts
  <2>5. AfterCount(a, i) BY <1>4, <1>5, <1>7, <2>1, <2>3, <2>4 DEF AfterCount
  <2>6. QED BY <2>4, <2>5 DEF After, i, Opens, OfNames
<1>8. QED BY <1>1, <1>6, <1>7

(* The whole handler of answers. *)
LEMMA ResponseIs ==
  ASSUME Types, NEW a, Good(a), OnResponse(a)
  PROVE  treeCache' = treeCache /\ ListAfter(a) /\ userData' \in [Uids -> UserStates] /\ Blanks(userData') /\ After(a)
<1> DEFINE i == Found(a.cmd, a.id)
<1>1. treeCache' = treeCache /\ ListAfter(a) BY ListIs
<1>2. userData \in [Uids -> UserStates] /\ Blanks(userData) /\ a.ok \in BOOLEAN /\ a.cmd \in Kinds
  BY DEF Types, Blanks, Good
<1>3. userData' \in [Uids -> UserStates] /\ Blanks(userData') /\ After(a)
  <2>1. CASE a.cmd = "setup" BY <2>1, SetupIs
  <2>2. CASE a.cmd = "tcon" BY <2>2, TconIs
  <2>3. CASE a.cmd \in Opens /\ i # 0 BY <2>3, OpenIs
  <2>4. CASE a.cmd = "close" /\ i # 0 BY <2>4, CloseIs
  <2>5. CASE a.cmd \in {"read", "write"} /\ i # 0 BY <2>5, CountIs
  <2>6. CASE a.cmd \in OfNames /\ i # 0
    BY <1>2, <2>6 DEF OnResponse, Opens, OfNames, NameResponse, AfterName, GetUserName, After
  <2>7. CASE a.cmd \in {"tdis", "dispose", "logoff"} \/ (a.cmd \notin {"setup", "tcon"} /\ i = 0)
    BY <1>2, <2>7 DEF OnResponse, analyzer, Opens, OfNames, After
  <2>8. QED BY <1>2, <2>1, <2>2, <2>3, <2>4, <2>5, <2>6, <2>7 DEF Kinds, OnTrees, OnFiles, Counted
<1>4. QED BY <1>1, <1>3

--------------------------------
(* Answers: what the server does. *)
AnsweredTo(r, a) ==
  /\ r \in asked /\ a.cmd = r.cmd /\ a.id = r.id /\ Good(a)
  /\ r.cmd # "setup" => a.uid = r.uid
  /\ asked' = asked \ {r} /\ scenario' = scenario /\ requests' = requests /\ odd \subseteq odd'
  /\ OnResponse(a) \/ Unseen
HSetup(r, a) ==
  /\ r.cmd = "setup" /\ files' = files /\ users[a.uid] = None
  /\ users' = IF a.ok /\ r.form # "negotiate" THEN [users EXCEPT ![a.uid] = r.user] ELSE users
  /\ facts' = IF r.user = NoName \/ r.form = "negotiate" THEN {}
              ELSE {Told(IF a.ok THEN "login" ELSE "loginfailed", r.user, NoPath)}
  /\ a.andx = (r.share # None)
  /\ \/ /\ a.ok /\ r.form # "negotiate" /\ r.share # None /\ a.tid \in Tids /\ trees[a.tid][1] = None
        /\ trees' = [trees EXCEPT ![a.tid] = <<a.uid, r.share>>]
        /\ userData[a.uid].known \/ StillNamed(a.tid) => "remounted" \in odd'
     \/ /\ trees' = trees /\ (~a.ok => "failed" \in odd') /\ (a.ok => r.share = None)
        /\ a.ok /\ r.form # "negotiate" /\ userData[a.uid].known => "remounted" \in odd'
HTcon(r, a) ==
  /\ r.cmd = "tcon" /\ facts' = {} /\ users' = users /\ files' = files
  /\ \/ /\ a.ok /\ a.tid \in Tids /\ trees[a.tid][1] = None /\ trees' = [trees EXCEPT ![a.tid] = <<r.uid, r.share>>]
        /\ StillNamed(a.tid) => "remounted" \in odd'
     \/ ~a.ok /\ trees' = trees /\ a.tid = NoTree
HOpen(r, a) ==
  /\ r.cmd \in Opens /\ users' = users /\ trees' = trees /\ a.tid = r.tid
  /\ \/ ~a.ok /\ facts' = {} /\ files' = files
     \/ /\ a.ok /\ a.fid \in Fids /\ a.directory = r.directory /\ a.action \in {"opened", "created"}
        /\ ~files[a.fid].open /\ \A q \in asked : q.cmd \in OnFiles => q.fid # a.fid
        /\ a.action = "created" => PathOf(r, r.name)[1] # IPC
        /\ files' = [files EXCEPT ![a.fid] =
             [NotOpen EXCEPT !.open = TRUE, !.uid = r.uid, !.tid = r.tid, !.path = PathOf(r, r.name),
                             !.directory = r.directory, !.delete = r.delete]]
        /\ facts' = IF a.action = "opened" THEN {}
                    ELSE {Told(IF r.directory THEN "mkdir" ELSE "create", UserOf(r), PathOf(r, r.name))}
        /\ trees[r.tid][2] = IPC /\ userData[r.uid].trees[r.tid] # IPC /\ r.name \notin Pipes => "pipe" \in odd'
        /\ r.cmd # "ntcreate" => "old" \in odd'
        /\ (\E u \in Uids : userData[u].files[a.fid].known) => "reused" \in odd'
HClose(r, a) ==
  /\ r.cmd = "close" /\ users' = users /\ trees' = trees
  /\ \/ ~a.ok /\ facts' = {} /\ files' = files
     \/ LET f == files[r.fid]
        IN /\ a.ok /\ files' = [files EXCEPT ![r.fid] = NotOpen]
           /\ facts' = IF ~f.open \/ f.path[1] = IPC THEN {}
                  ELSE {Event("read", UserOf(r), f.path, NoPath, n) : n \in {f.readed} \ {0}}
                       \cup {Event("write", UserOf(r), f.path, NoPath, n) : n \in {f.written} \ {0}}
                       \cup IF ~f.delete THEN {}
                            ELSE {Told(IF f.directory THEN "rmdir" ELSE "remove", UserOf(r), f.path)}
           /\ (\E q \in asked : q.cmd = "dispose" /\ q.fid = r.fid) => "keptFile" \in odd'
HMove(r, a) ==
  /\ r.cmd \in {"read", "write"} /\ facts' = {} /\ users' = users /\ trees' = trees /\ (a.ok => files[r.fid].open)
  /\ a.size = (IF ~a.ok THEN 0 ELSE IF r.cmd = "read" THEN 1 ELSE a.size) /\ a.size \in 0..2
  /\ a.ok /\ r.cmd = "write" /\ a.size # 2 => "short" \in odd'
  /\ files' = IF r.cmd = "read" THEN [files EXCEPT ![r.fid].readed = @ + a.size]
              ELSE [files EXCEPT ![r.fid].written = @ + a.size]
HDispose(r, a) ==
  /\ r.cmd = "dispose" /\ facts' = {} /\ users' = users /\ trees' = trees /\ (a.ok => files[r.fid].open)
  /\ files' = IF a.ok THEN [files EXCEPT ![r.fid].delete = r.on] ELSE files
  /\ ~a.ok => "keptFile" \in odd'
HName(r, a) ==
  /\ r.cmd \in OfNames /\ users' = users /\ trees' = trees /\ a.tid = r.tid
  /\ LET path == PathOf(r, r.name)
         to == IF r.cmd = "rename" THEN PathOf(r, r.to) ELSE NoPath
         open == {f \in Fids : files[f].path = path}
     IN /\ facts' = IF a.ok THEN {Event(r.cmd, UserOf(r), path, to, 0)} ELSE {}
        /\ files' = IF a.ok THEN [f \in Fids |-> IF f \in open THEN [files[f] EXCEPT !.path = to] ELSE files[f]]
                    ELSE files
        /\ a.ok /\ open # {} => "renamed" \in odd'
HTdis(r, a) ==
  r.cmd = "tdis" /\ facts' = {} /\ trees' = [trees EXCEPT ![r.tid] = <<None, None>>] /\ users' = users /\ files' = files
HLogoff(r, a) ==
  /\ r.cmd = "logoff" /\ facts' = {} /\ users' = [users EXCEPT ![r.uid] = None]
  /\ trees' = [t \in Tids |-> IF trees[t][1] = r.uid THEN <<None, None>> ELSE trees[t]]
  /\ files' = [f \in Fids |-> IF files[f].uid = r.uid \/ (files[f].open /\ trees[files[f].tid][1] = r.uid)
                              THEN NotOpen ELSE files[f]]
  /\ (\E f \in Fids : files[f].open /\ files[f].uid # r.uid /\ trees[files[f].tid][1] = r.uid) => "evicted" \in odd'
Replied(r, a) ==
  /\ AnsweredTo(r, a)
  /\ \/ HSetup(r, a) \/ HTcon(r, a) \/ HOpen(r, a) \/ HClose(r, a) \/ HMove(r, a) \/ HDispose(r, a)
     \/ HName(r, a) \/ HTdis(r, a) \/ HLogoff(r, a)

LEMMA AnswerIs ==
  ASSUME Types, Asked, NEW r \in asked, NEW a, NEW kinds, Answer(a, kinds), a.cmd = r.cmd, a.id = r.id
  PROVE  /\ asked' = asked \ {r} /\ scenario' = scenario /\ requests' = requests /\ odd \subseteq odd' /\ kinds \subseteq odd'
         /\ OnResponse(a) \/ Unseen
         /\ r.id \in 1..scenario.requests /\ r.cmd \in Kinds
  BY Smb1Assumption DEF Answer, Asked, Together, Types, Asks, Odd, Missed, Unseen

LEMMA GrantedIs ==
  ASSUME Types, Asked, NEW r \in asked, NEW ok \in BOOLEAN, Granted(r, ok)
  PROVE  \E a : Replied(r, a)
<1>1. r.cmd = "setup" /\ UNCHANGED files /\ r.user \in Users /\ r.share \in Shares \cup {None} /\ (r.share # None => r.form = "plain")
  BY DEF Granted, Asked, Asks
<1> DEFINE Reply(u, t) == [cmd |-> "setup", id |-> r.id, ok |-> ok, uid |-> u, tid |-> t, andx |-> r.share # None]
           in == ok /\ r.form # "negotiate"
<1>2. PICK u \in {x \in Uids : users[x] = None} :
        /\ users' = IF in THEN [users EXCEPT ![u] = r.user] ELSE users
        /\ facts' = IF r.user = NoName \/ r.form = "negotiate" THEN {}
                    ELSE {Told(IF ok THEN "login" ELSE "loginfailed", r.user, NoPath)}
        /\ IF in /\ r.share # None
           THEN \E t \in {x \in Tids : trees[x][1] = None} :
                  /\ trees' = [trees EXCEPT ![t] = <<u, r.share>>]
                  /\ Answer(Reply(u, t), When(userData[u].known \/ StillNamed(t), "remounted"))
           ELSE /\ UNCHANGED trees
                /\ Answer(Reply(u, NoTree), When(~ok, "failed") \cup When(in /\ userData[u].known, "remounted"))
  BY DEF Granted
<1>3. \A t : Reply(u, t).cmd = "setup" /\ Reply(u, t).id = r.id /\ Reply(u, t).ok = ok /\ Reply(u, t).uid = u
             /\ Reply(u, t).tid = t /\ Reply(u, t).andx = (r.share # None)
  OBVIOUS
<1>4. CASE in /\ r.share # None
  <2>1. PICK t \in {x \in Tids : trees[x][1] = None} :
          /\ trees' = [trees EXCEPT ![t] = <<u, r.share>>]
          /\ Answer(Reply(u, t), When(userData[u].known \/ StillNamed(t), "remounted"))
    BY <1>2, <1>4
  <2>2. PICK a : a = Reply(u, t) OBVIOUS
  <2>3. a.cmd = "setup" /\ a.id = r.id /\ a.ok = ok /\ a.uid = u /\ a.tid = t /\ a.andx = (r.share # None)
    BY <1>3, <2>2
  <2> HIDE DEF Reply
  <2>4. /\ asked' = asked \ {r} /\ scenario' = scenario /\ requests' = requests /\ odd \subseteq odd'
        /\ When(userData[u].known \/ StillNamed(t), "remounted") \subseteq odd'
        /\ OnResponse(a) \/ Unseen
        /\ r.id \in 1..scenario.requests /\ r.cmd \in Kinds
    BY <1>1, <2>1, <2>2, <2>3, AnswerIs
  <2>5. userData[u].known \/ StillNamed(t) => "remounted" \in odd' BY <2>4 DEF When
  <2>6. AnsweredTo(r, a) BY <1>1, <1>2, <2>1, <2>3, <2>4 DEF AnsweredTo, Good, Opens, Trees
  <2>7. HSetup(r, a) BY <1>1, <1>2, <1>4, <2>1, <2>3, <2>5 DEF HSetup
  <2>8. QED BY <2>6, <2>7 DEF Replied
<1>5. CASE ~(in /\ r.share # None)
  <2>1. /\ UNCHANGED trees
        /\ Answer(Reply(u, NoTree), When(~ok, "failed") \cup When(in /\ userData[u].known, "remounted"))
    BY <1>2, <1>5
  <2>2. PICK a : a = Reply(u, NoTree) OBVIOUS
  <2>3. a.cmd = "setup" /\ a.id = r.id /\ a.ok = ok /\ a.uid = u /\ a.tid = NoTree /\ a.andx = (r.share # None)
    BY <1>3, <2>2
  <2> HIDE DEF Reply
  <2>4. /\ asked' = asked \ {r} /\ scenario' = scenario /\ requests' = requests /\ odd \subseteq odd'
        /\ When(~ok, "failed") \cup When(in /\ userData[u].known, "remounted") \subseteq odd'
        /\ OnResponse(a) \/ Unseen
        /\ r.id \in 1..scenario.requests /\ r.cmd \in Kinds
    BY <1>1, <2>1, <2>2, <2>3, AnswerIs
  <2>5. (~ok => "failed" \in odd') /\ (in /\ userData[u].known => "remounted" \in odd') BY <2>4 DEF When
  <2>6. AnsweredTo(r, a) BY <1>1, <1>2, <2>1, <2>3, <2>4 DEF AnsweredTo, Good, Opens, Trees
  <2>7. HSetup(r, a) BY <1>1, <1>2, <1>5, <2>1, <2>3, <2>5 DEF HSetup
  <2>8. QED BY <2>6, <2>7 DEF Replied
<1>6. QED BY <1>4, <1>5

LEMMA MountedIs ==
  ASSUME Types, Asked, NEW r \in asked, NEW ok \in BOOLEAN, Mounted(r, ok)
  PROVE  \E a : Replied(r, a)
<1>1. r.cmd = "tcon" /\ facts' = {} /\ UNCHANGED <<users, files>> /\ r.uid \in Uids BY DEF Mounted, Asked, Asks
<1> DEFINE Reply(t) == [cmd |-> "tcon", id |-> r.id, ok |-> ok, uid |-> r.uid, tid |-> t]
<1>2. IF ok
      THEN \E t \in {x \in Tids : trees[x][1] = None} :
             /\ trees' = [trees EXCEPT ![t] = <<r.uid, r.share>>]
             /\ Answer(Reply(t), When(StillNamed(t), "remounted"))
      ELSE UNCHANGED trees /\ Answer(Reply(NoTree), {})
  BY DEF Mounted
<1>3. \A t : Reply(t).cmd = "tcon" /\ Reply(t).id = r.id /\ Reply(t).ok = ok /\ Reply(t).uid = r.uid /\ Reply(t).tid = t
  OBVIOUS
<1>4. PICK t \in Trees : \E kinds : /\ Answer(Reply(t), kinds)
        /\ \/ /\ ok /\ t \in Tids /\ trees[t][1] = None /\ trees' = [trees EXCEPT ![t] = <<r.uid, r.share>>]
              /\ kinds = When(StillNamed(t), "remounted")
           \/ ~ok /\ trees' = trees /\ t = NoTree
  BY <1>2 DEF Trees
<1>5. PICK kinds : /\ Answer(Reply(t), kinds)
        /\ \/ /\ ok /\ t \in Tids /\ trees[t][1] = None /\ trees' = [trees EXCEPT ![t] = <<r.uid, r.share>>]
              /\ kinds = When(StillNamed(t), "remounted")
           \/ ~ok /\ trees' = trees /\ t = NoTree
  BY <1>4
<1>6. PICK a : a = Reply(t) OBVIOUS
<1>7. a.cmd = "tcon" /\ a.id = r.id /\ a.ok = ok /\ a.uid = r.uid /\ a.tid = t BY <1>3, <1>6
<1> HIDE DEF Reply
<1>8. /\ asked' = asked \ {r} /\ scenario' = scenario /\ requests' = requests /\ odd \subseteq odd' /\ kinds \subseteq odd'
      /\ OnResponse(a) \/ Unseen
      /\ r.id \in 1..scenario.requests /\ r.cmd \in Kinds
  BY <1>1, <1>5, <1>6, <1>7, AnswerIs
<1>9. AnsweredTo(r, a) BY <1>1, <1>4, <1>7, <1>8 DEF AnsweredTo, Good, Opens
<1>10. HTcon(r, a) BY <1>1, <1>5, <1>7, <1>8 DEF HTcon, When
<1>11. QED BY <1>9, <1>10 DEF Replied

LEMMA OpenedIs ==
  ASSUME Types, Asked, NEW r \in asked, NEW ok \in BOOLEAN, Opened(r, ok)
  PROVE  \E a : Replied(r, a)
<1>1. /\ r.cmd \in Opens /\ UNCHANGED <<users, trees>> /\ r.uid \in Uids /\ r.tid \in Tids /\ r.directory \in BOOLEAN
      /\ r.tid \in Trees
  BY DEF Opened, Asked, Asks, OnTrees, Opens, OfNames, Trees
<1> DEFINE Reply(fid, action) == [directory |-> r.directory, fid |-> fid, action |-> action,
                                  cmd |-> r.cmd, id |-> r.id, ok |-> ok, uid |-> r.uid, tid |-> r.tid]
           path == PathOf(r, r.name)
<1>2. IF ~ok THEN facts' = {} /\ UNCHANGED files /\ Answer(Reply(None, "none"), {})
      ELSE \E f \in Free, action \in {"opened", "created"} :
          /\ action = "created" => path[1] # IPC
          /\ files' = [files EXCEPT ![f] =
               [NotOpen EXCEPT !.open = TRUE, !.uid = r.uid, !.tid = r.tid, !.path = path,
                               !.directory = r.directory, !.delete = r.delete]]
          /\ facts' = IF action = "opened" THEN {}
                      ELSE {Told(IF r.directory THEN "mkdir" ELSE "create", UserOf(r), path)}
          /\ Answer(Reply(f, action), OnPipe(r.uid, r.tid, r.name) \cup When(r.cmd # "ntcreate", "old")
                                      \cup When(\E u \in Uids : FileState(u, f).known, "reused"))
  BY DEF Opened
<1>3. \A f, action : /\ Reply(f, action).cmd = r.cmd /\ Reply(f, action).id = r.id /\ Reply(f, action).ok = ok
                     /\ Reply(f, action).uid = r.uid /\ Reply(f, action).tid = r.tid /\ Reply(f, action).fid = f
                     /\ Reply(f, action).action = action /\ Reply(f, action).directory = r.directory
  OBVIOUS
<1>4. CASE ~ok
  <2>1. facts' = {} /\ UNCHANGED files /\ Answer(Reply(None, "none"), {}) BY <1>2, <1>4
  <2>2. PICK a : a = Reply(None, "none") OBVIOUS
  <2>3. a.cmd = r.cmd /\ a.id = r.id /\ a.ok = ok /\ a.uid = r.uid /\ a.tid = r.tid BY <1>3, <2>2
  <2> HIDE DEF Reply
  <2>4. /\ asked' = asked \ {r} /\ scenario' = scenario /\ requests' = requests /\ odd \subseteq odd'
        /\ OnResponse(a) \/ Unseen
        /\ r.id \in 1..scenario.requests /\ r.cmd \in Kinds
    BY <2>1, <2>2, <2>3, AnswerIs
  <2>5. AnsweredTo(r, a) BY <1>1, <1>4, <2>3, <2>4 DEF AnsweredTo, Good, Opens
  <2>6. HOpen(r, a) BY <1>1, <1>4, <2>1, <2>3 DEF HOpen
  <2>7. QED BY <2>5, <2>6 DEF Replied
<1>5. CASE ok
  <2>1. PICK f \in Free, action \in {"opened", "created"} :
          /\ action = "created" => path[1] # IPC
          /\ files' = [files EXCEPT ![f] =
               [NotOpen EXCEPT !.open = TRUE, !.uid = r.uid, !.tid = r.tid, !.path = path,
                               !.directory = r.directory, !.delete = r.delete]]
          /\ facts' = IF action = "opened" THEN {}
                      ELSE {Told(IF r.directory THEN "mkdir" ELSE "create", UserOf(r), path)}
          /\ Answer(Reply(f, action), OnPipe(r.uid, r.tid, r.name) \cup When(r.cmd # "ntcreate", "old")
                                      \cup When(\E u \in Uids : FileState(u, f).known, "reused"))
    BY <1>2, <1>5
  <2>2. f \in Fids /\ ~files[f].open /\ \A q \in asked : q.cmd \in OnFiles => q.fid # f
    BY DEF Free, OnFiles, Counted
  <2>3. PICK a : a = Reply(f, action) OBVIOUS
  <2>4. /\ a.cmd = r.cmd /\ a.id = r.id /\ a.ok = ok /\ a.uid = r.uid /\ a.tid = r.tid /\ a.fid = f /\ a.action = action
        /\ a.directory = r.directory
    BY <1>3, <2>3
  <2> HIDE DEF Reply
  <2> DEFINE kinds == OnPipe(r.uid, r.tid, r.name) \cup When(r.cmd # "ntcreate", "old")
                      \cup When(\E u \in Uids : FileState(u, f).known, "reused")
  <2>5. /\ trees[r.tid][2] = IPC /\ userData[r.uid].trees[r.tid] # IPC /\ r.name \notin Pipes => "pipe" \in kinds
        /\ r.cmd # "ntcreate" => "old" \in kinds
        /\ (\E u \in Uids : userData[u].files[f].known) => "reused" \in kinds
    BY DEF OnPipe, When, FileState
  <2>6. Answer(a, kinds) BY <2>1, <2>3
  <2> HIDE DEF kinds
  <2>7. /\ asked' = asked \ {r} /\ scenario' = scenario /\ requests' = requests /\ odd \subseteq odd' /\ kinds \subseteq odd'
        /\ OnResponse(a) \/ Unseen
        /\ r.id \in 1..scenario.requests /\ r.cmd \in Kinds
    BY <2>4, <2>6, AnswerIs
  <2>8. AnsweredTo(r, a) BY <1>1, <1>5, <2>2, <2>4, <2>7 DEF AnsweredTo, Good, Opens
  <2>9. HOpen(r, a) BY <1>1, <1>5, <2>1, <2>2, <2>4, <2>5, <2>7 DEF HOpen
  <2>10. QED BY <2>8, <2>9 DEF Replied
<1>6. QED BY <1>4, <1>5

LEMMA PlainlyIs ==
  ASSUME Types, Asked, NEW r \in asked, NEW ok \in BOOLEAN, NEW kinds, Answer(Plainly(r, ok), kinds),
         r.cmd \in {"close", "dispose", "tdis"} \cup OfNames
  PROVE  \E a : AnsweredTo(r, a) /\ a.ok = ok /\ a.tid = r.tid /\ kinds \subseteq odd'
<1>1. PICK a : a = Plainly(r, ok) OBVIOUS
<1>2. a.cmd = r.cmd /\ a.id = r.id /\ a.ok = ok /\ a.uid = r.uid /\ a.tid = r.tid BY <1>1 DEF Plainly
<1>3. /\ asked' = asked \ {r} /\ scenario' = scenario /\ requests' = requests /\ odd \subseteq odd' /\ kinds \subseteq odd'
      /\ OnResponse(a) \/ Unseen
      /\ r.id \in 1..scenario.requests /\ r.cmd \in Kinds
  BY <1>1, <1>2, AnswerIs
<1>4. r.uid \in Uids /\ (r.cmd \in OnTrees => r.tid \in Trees) BY DEF Asked, Asks, OfNames, Trees
<1>5. AnsweredTo(r, a) BY <1>2, <1>3, <1>4 DEF AnsweredTo, Good, OnTrees, Opens, OfNames
<1>6. QED BY <1>2, <1>3, <1>5

LEMMA ClosedIs ==
  ASSUME Types, Asked, NEW r \in asked, NEW ok \in BOOLEAN, Closed(r, ok)
  PROVE  \E a : Replied(r, a)
<1> DEFINE f == files[r.fid]
           kinds == When(ok /\ \E q \in asked : q.cmd = "dispose" /\ q.fid = r.fid, "keptFile")
<1>1. /\ r.cmd = "close" /\ UNCHANGED <<users, trees>> /\ Answer(Plainly(r, ok), kinds)
      /\ IF ~ok THEN facts' = {} /\ UNCHANGED files
         ELSE /\ files' = [files EXCEPT ![r.fid] = NotOpen]
              /\ facts' = IF ~f.open \/ f.path[1] = IPC THEN {}
                   ELSE {Event("read", UserOf(r), f.path, NoPath, n) : n \in {f.readed} \ {0}}
                        \cup {Event("write", UserOf(r), f.path, NoPath, n) : n \in {f.written} \ {0}}
                        \cup IF ~f.delete THEN {}
                             ELSE {Told(IF f.directory THEN "rmdir" ELSE "remove", UserOf(r), f.path)}
  BY DEF Closed
<1>2. ok /\ (\E q \in asked : q.cmd = "dispose" /\ q.fid = r.fid) => "keptFile" \in kinds BY DEF When
<1> HIDE DEF kinds
<1>3. PICK a : AnsweredTo(r, a) /\ a.ok = ok /\ a.tid = r.tid /\ kinds \subseteq odd' BY <1>1, PlainlyIs
<1>4. HClose(r, a) BY <1>1, <1>2, <1>3 DEF HClose
<1>5. QED BY <1>3, <1>4 DEF Replied

LEMMA MovedIs ==
  ASSUME Types, Asked, NEW r \in asked, NEW ok \in BOOLEAN, Moved(r, ok)
  PROVE  \E a : Replied(r, a)
<1>1. /\ r.cmd \in {"read", "write"} /\ (ok => files[r.fid].open) /\ facts' = {} /\ UNCHANGED <<users, trees>>
      /\ r.uid \in Uids
  BY DEF Moved, Asked, Asks
<1>2. PICK n \in IF ~ok THEN {0} ELSE IF r.cmd = "write" /\ "short" \notin scenario.habits THEN {2} ELSE {1} :
        /\ files' = IF r.cmd = "read" THEN [files EXCEPT ![r.fid].readed = @ + n]
                    ELSE [files EXCEPT ![r.fid].written = @ + n]
        /\ Answer([size |-> n, cmd |-> r.cmd, id |-> r.id, ok |-> ok, uid |-> r.uid, tid |-> r.tid],
                  When(r.cmd = "write" /\ n = 1, "short"))
  BY DEF Moved
<1>3. PICK a : a = [size |-> n, cmd |-> r.cmd, id |-> r.id, ok |-> ok, uid |-> r.uid, tid |-> r.tid] OBVIOUS
<1>4. a.size = n /\ a.cmd = r.cmd /\ a.id = r.id /\ a.ok = ok /\ a.uid = r.uid BY <1>3
<1>5. Answer(a, When(r.cmd = "write" /\ n = 1, "short")) BY <1>2, <1>3
<1>6. /\ asked' = asked \ {r} /\ scenario' = scenario /\ requests' = requests /\ odd \subseteq odd'
      /\ When(r.cmd = "write" /\ n = 1, "short") \subseteq odd'
      /\ OnResponse(a) \/ Unseen
      /\ r.id \in 1..scenario.requests /\ r.cmd \in Kinds
  BY <1>4, <1>5, AnswerIs
<1>7. n \in {0, 1, 2} /\ (~ok => n = 0) /\ (ok /\ r.cmd = "read" => n = 1) /\ (ok /\ n # 2 => n = 1) BY <1>2
<1>8. AnsweredTo(r, a) BY <1>1, <1>4, <1>6, <1>7 DEF AnsweredTo, Good, OnTrees, Opens, OfNames
<1>9. HMove(r, a) BY <1>1, <1>2, <1>4, <1>6, <1>7 DEF When, HMove
<1>10. QED BY <1>8, <1>9 DEF Replied

LEMMA DisposedIs ==
  ASSUME Types, Asked, NEW r \in asked, NEW ok \in BOOLEAN, Disposed(r, ok)
  PROVE  \E a : Replied(r, a)
  BY PlainlyIs DEF Disposed, HDispose, When, Replied

LEMMA RenamedIs ==
  ASSUME Types, Asked, NEW r \in asked, NEW ok \in BOOLEAN, Named(r, ok)
  PROVE  \E a : Replied(r, a)
<1> DEFINE path == PathOf(r, r.name)
           to == IF r.cmd = "rename" THEN PathOf(r, r.to) ELSE NoPath
           open == {f \in Fids : files[f].path = path}
<1>1. /\ r.cmd \in OfNames /\ UNCHANGED <<users, trees>>
      /\ facts' = IF ok THEN {Event(r.cmd, UserOf(r), path, to, 0)} ELSE {}
      /\ files' = IF ok THEN [f \in Fids |-> IF f \in open THEN [files[f] EXCEPT !.path = to] ELSE files[f]]
                  ELSE files
      /\ Answer(Plainly(r, ok), When(ok /\ open # {}, "renamed"))
  BY DEF Named
<1>2. PICK a : AnsweredTo(r, a) /\ a.ok = ok /\ a.tid = r.tid /\ When(ok /\ open # {}, "renamed") \subseteq odd'
  BY <1>1, PlainlyIs
<1>3. a.ok /\ open # {} => "renamed" \in odd' BY <1>2 DEF When
<1>4. HName(r, a) BY <1>1, <1>2, <1>3 DEF HName
<1>5. QED BY <1>2, <1>4 DEF Replied

LEMMA UnmountedIs ==
  ASSUME Types, Asked, NEW r \in asked, Unmounted(r)
  PROVE  \E a : Replied(r, a)
  BY PlainlyIs DEF Unmounted, HTdis, Replied

LEMMA LoggedOffIs ==
  ASSUME Types, Asked, NEW r \in asked, LoggedOff(r)
  PROVE  \E a : Replied(r, a)
<1> DEFINE kinds == When(\E f \in Fids : files[f].open /\ files[f].uid # r.uid /\ trees[files[f].tid][1] = r.uid, "evicted")
<1>1. /\ r.cmd = "logoff" /\ facts' = {} /\ users' = [users EXCEPT ![r.uid] = None] /\ r.uid \in Uids
      /\ trees' = [t \in Tids |-> IF trees[t][1] = r.uid THEN <<None, None>> ELSE trees[t]]
      /\ files' = [f \in Fids |-> IF files[f].uid = r.uid \/ (files[f].open /\ trees[files[f].tid][1] = r.uid)
                                  THEN NotOpen ELSE files[f]]
      /\ Answer([cmd |-> r.cmd, id |-> r.id, ok |-> TRUE, uid |-> r.uid, tid |-> NoTree], kinds)
  BY DEF LoggedOff, Asked, Asks
<1>2. (\E f \in Fids : files[f].open /\ files[f].uid # r.uid /\ trees[files[f].tid][1] = r.uid) => "evicted" \in kinds
  BY DEF When
<1> HIDE DEF kinds
<1>3. PICK a : a = [cmd |-> r.cmd, id |-> r.id, ok |-> TRUE, uid |-> r.uid, tid |-> NoTree] OBVIOUS
<1>4. a.cmd = r.cmd /\ a.id = r.id /\ a.ok = TRUE /\ a.uid = r.uid BY <1>3
<1>5. /\ asked' = asked \ {r} /\ scenario' = scenario /\ requests' = requests /\ odd \subseteq odd' /\ kinds \subseteq odd'
      /\ OnResponse(a) \/ Unseen
      /\ r.id \in 1..scenario.requests /\ r.cmd \in Kinds
  BY <1>1, <1>3, <1>4, AnswerIs
<1>6. AnsweredTo(r, a) BY <1>1, <1>4, <1>5 DEF AnsweredTo, Good, OnTrees, Opens, OfNames
<1>7. HLogoff(r, a) BY <1>1, <1>2, <1>5 DEF HLogoff
<1>8. QED BY <1>6, <1>7 DEF Replied

LEMMA RespondIs ==
  ASSUME Types, Asked, Respond
  PROVE  \E r, a : Replied(r, a)
  BY GrantedIs, MountedIs, OpenedIs, ClosedIs, MovedIs, DisposedIs, RenamedIs, UnmountedIs, LoggedOffIs DEF
    Respond

LEMMA SeenIs ==
  ASSUME Types, NEW r, NEW a, AnsweredTo(r, a)
  PROVE  /\ userData' \in [Uids -> UserStates] /\ Blanks(userData') /\ treeCache' = treeCache
         /\ \/ ListAfter(a) /\ After(a)
            \/ userData' = userData /\ temp' = temp /\ events' = {} /\ "lost" \in odd'
  BY ResponseIs DEF Types, Blanks, AnsweredTo, Unseen, analyzer

LEMMA RepliedTemp ==
  ASSUME Types, NEW r, NEW a, AnsweredTo(r, a)
  PROVE  /\ temp' \in Seq(Entries)' /\ Len(temp') <= TempLimit
         /\ \A i \in 1..Len(temp') : temp'[i].cmd \in Counted => temp'[i].fid \in Fids
<1>1. Entries' = Entries BY DEF AnsweredTo, Entries
<1>2. CASE temp' = temp BY <1>1, <1>2 DEF Types
<1>3. ASSUME NEW i \in 1..Len(temp), temp' = Done(i)
      PROVE  /\ temp' \in Seq(Entries)' /\ Len(temp') <= TempLimit
             /\ \A j \in 1..Len(temp') : temp'[j].cmd \in Counted => temp'[j].fid \in Fids
  BY <1>1, <1>3, DoneIs DEF Blank, Counted, None, Types
<1>4. QED BY <1>2, <1>3, SeenIs DEF ListAfter

LEMMA FilesAre ==
  ASSUME files \in [Fids -> OpenFiles], NEW f \in Fids
  PROVE  /\ files[f] \in OpenFiles /\ files[f].readed \in Nat /\ files[f].written \in Nat
         /\ files[f].open \in BOOLEAN /\ files[f].directory \in BOOLEAN /\ files[f].delete \in BOOLEAN
         /\ files[f].tid \in Trees /\ files[f].uid \in Uids \cup {None}
  BY DEF OpenFiles

LEMMA NotOpenIs ==
  /\ NotOpen \in OpenFiles /\ ~NotOpen.open /\ NotOpen.uid = None /\ NotOpen.path = NoPath
  /\ NotOpen.readed = 0 /\ NotOpen.written = 0
  BY DEF NotOpen, OpenFiles, NoPath, Trees

LEMMA TreePaths ==
  ASSUME trees \in [Tids -> (Uids \cup {None}) \X (Shares \cup {None})], NEW r, r.tid \in Tids,
         NEW name \in Names \cup {NoName}
  PROVE  PathOf(r, name) \in (Shares \cup {None}) \X (Names \cup {NoName})
  BY DEF PathOf

LEMMA RepliedTypes ==
  ASSUME Types, Asked, NEW r, NEW a, Replied(r, a)
  PROVE  Types'
<1>1. AnsweredTo(r, a) /\ r \in asked /\ scenario' = scenario /\ requests' = requests /\ a.uid \in Uids
  BY DEF Replied, AnsweredTo, Good
<1>2. Asks(r) BY <1>1 DEF Asked
<1>3. /\ users \in [Uids -> Users \cup {None}] /\ trees \in [Tids -> (Uids \cup {None}) \X (Shares \cup {None})]
      /\ files \in [Fids -> OpenFiles] /\ NoName \in Users
  BY Smb1Assumption DEF Types
<1>4. /\ users' \in [Uids -> Users \cup {None}] /\ trees' \in [Tids -> (Uids \cup {None}) \X (Shares \cup {None})]
      /\ files' \in [Fids -> OpenFiles]
  <2>1. CASE HSetup(r, a) BY <1>1, <1>2, <1>3, <2>1 DEF HSetup, Asks
  <2>2. CASE HTcon(r, a) BY <1>2, <1>3, <2>2 DEF HTcon, Asks
  <2>3. CASE HOpen(r, a)
    <3>1. /\ r.uid \in Uids /\ r.tid \in Tids /\ r.name \in Names /\ r.directory \in BOOLEAN /\ r.delete \in BOOLEAN
          /\ users' = users /\ trees' = trees /\ r.tid \in Trees
      BY <1>2, <2>3 DEF HOpen, Asks, OnTrees, Opens, OfNames, Trees
    <3>2. PICK p \in (Shares \cup {None}) \X (Names \cup {NoName}) : p = PathOf(r, r.name)
      BY <1>3, <3>1, TreePaths
    <3> DEFINE o == [NotOpen EXCEPT !.open = TRUE, !.uid = r.uid, !.tid = r.tid, !.path = p,
                                    !.directory = r.directory, !.delete = r.delete]
    <3>3. files' = files \/ (a.fid \in Fids /\ files' = [files EXCEPT ![a.fid] = o]) BY <2>3, <3>2 DEF HOpen
    <3>4. o \in OpenFiles BY <3>1, <3>2 DEF OpenFiles, NotOpen
    <3> HIDE DEF o
    <3>5. QED BY <1>3, <3>1, <3>3, <3>4
  <2>4. CASE HClose(r, a) BY <1>2, <1>3, <2>4, NotOpenIs DEF HClose, Asks, OnFiles, Counted
  <2>5. CASE HMove(r, a) BY <1>2, <1>3, <2>5, FilesAre DEF HMove, Asks, OnFiles, Counted, OpenFiles
  <2>6. CASE HDispose(r, a) BY <1>2, <1>3, <2>6 DEF HDispose, Asks, OnFiles, OpenFiles
  <2>7. CASE HName(r, a)
    <3>1. r.tid \in Tids /\ r.to \in Names \cup {NoName} /\ users' = users /\ trees' = trees
      BY <1>2, <2>7 DEF HName, Asks, OnTrees
    <3>2. PICK p \in (Shares \cup {None}) \X (Names \cup {NoName}) :
            p = IF r.cmd = "rename" THEN PathOf(r, r.to) ELSE NoPath
      BY <1>3, <3>1, TreePaths DEF NoPath
    <3>3. \/ files' = files
          \/ files' = [f \in Fids |-> IF f \in {x \in Fids : files[x].path = PathOf(r, r.name)}
                                      THEN [files[f] EXCEPT !.path = p] ELSE files[f]]
      BY <2>7, <3>2 DEF HName
    <3>4. \A o \in OpenFiles : [o EXCEPT !.path = p] \in OpenFiles BY <3>2 DEF OpenFiles
    <3>5. QED BY <1>3, <3>1, <3>3, <3>4
  <2>8. CASE HTdis(r, a) BY <1>2, <1>3, <2>8 DEF HTdis, Asks
  <2>9. CASE HLogoff(r, a) BY <1>2, <1>3, <2>9, NotOpenIs DEF HLogoff, Asks
  <2>10. QED BY <2>1, <2>2, <2>3, <2>4, <2>5, <2>6, <2>7, <2>8, <2>9 DEF Replied
<1>5. /\ temp' \in Seq(Entries)' /\ Len(temp') <= TempLimit
      /\ \A i \in 1..Len(temp') : temp'[i].cmd \in Counted => temp'[i].fid \in Fids
  BY <1>1, RepliedTemp
<1>6. userData' \in [Uids -> UserStates] /\ Blanks(userData') /\ treeCache' = treeCache BY <1>1, SeenIs
<1>7. QED BY <1>1, <1>4, <1>5, <1>6 DEF Types, Blanks, UserStates, States, Paths, OpenFiles

LEMMA RepliedCounts ==
  ASSUME Types, Counts, NEW r, NEW a, Replied(r, a)
  PROVE  Counts'
<1>1. /\ AnsweredTo(r, a) /\ r \in asked /\ asked' = asked \ {r} /\ requests' = requests /\ requests \in Nat
      /\ a.cmd = r.cmd
  BY DEF Replied, AnsweredTo, Types
<1>2. IsFiniteSet(asked') /\ Cardinality(asked) \in Nat /\ Cardinality(asked) >= 1 /\ Cardinality(asked') = Cardinality(asked) - 1
  BY <1>1, FS_RemoveElement, FS_CardinalityType, FS_EmptySet DEF Counts
<1> SUFFICES ASSUME NEW u \in Uids, NEW f \in Fids
             PROVE  /\ userData'[u].files[f].readed + Cardinality(asked') <= requests'
                    /\ userData'[u].files[f].written + 2 * Cardinality(asked') <= 2 * requests'
  BY <1>2 DEF Counts
<1>3. userData \in [Uids -> UserStates] /\ userData' \in [Uids -> UserStates] BY <1>1, SeenIs DEF Types
<1>4. PICK n, m \in Nat : n = userData[u].files[f].readed /\ m = userData[u].files[f].written BY <1>3, CountsAre
<1>5. n + Cardinality(asked) <= requests /\ m + 2 * Cardinality(asked) <= 2 * requests BY <1>4 DEF Counts
<1>6. \/ userData'[u].files[f].readed = 0 /\ userData'[u].files[f].written = 0
      \/ userData'[u].files[f].readed = n /\ userData'[u].files[f].written = m
      \/ userData'[u].files[f].readed = n + 1 /\ userData'[u].files[f].written = m
      \/ userData'[u].files[f].readed = n /\ \E k \in 0..2 : userData'[u].files[f].written = m + k
  <2> DEFINE i == Found(a.cmd, a.id)
  <2>1. CASE userData'[u].files[f] = userData[u].files[f] BY <1>4, <2>1
  <2>2. CASE After(a) /\ userData'[u].files[f] # userData[u].files[f]
    <3>1. i = 0 \/ i \in 1..Len(temp) BY FoundFacts
    <3> HIDE DEF i
    <3>2. CASE a.cmd \in {"setup", "tcon"} BY <2>2, <3>2 DEF After, AfterSetup, AfterTcon, Joins
    <3>3. CASE a.cmd \in Opens /\ i # 0 BY <1>4, <2>2, <3>3 DEF After, i, AfterOpen, Opens1, Puts
    <3>4. CASE a.cmd = "close" /\ i # 0 BY <2>2, <3>4 DEF After, i, AfterClose, Puts, Unknown
    <3>5. CASE a.cmd \in {"read", "write"} /\ i # 0
      <4>1. AfterCount(a, i) BY <2>2, <3>5 DEF After, i
      <4>2. PICK s \in States :
               LET old == userData[a.uid].files[temp[i].fid]
               IN /\ Puts(a.uid, temp[i].fid, s)
                  /\ s.readed = IF a.cmd = "read" THEN old.readed + a.size ELSE old.readed
                  /\ s.written = IF a.cmd = "read" THEN old.written ELSE old.written + temp[i].size
        BY <2>2, <4>1 DEF AfterCount
      <4>3. u = a.uid /\ f = temp[i].fid /\ userData'[u].files[f] = s BY <2>2, <4>2 DEF Puts
      <4>4. a.cmd = "read" => a.size = 1
        <5>1. a.ok BY <2>2, <4>1 DEF AfterCount
        <5>2. HMove(r, a)
          BY <1>1, <3>5 DEF Replied, HSetup, HTcon, HOpen, HClose, HDispose, HName, HTdis, HLogoff, Opens, OfNames
        <5>3. QED BY <1>1, <5>1, <5>2 DEF HMove
      <4>5. temp[i].size \in 0..2 BY <3>1, <3>5, TempIs
      <4>6. CASE a.cmd = "read" BY <1>4, <4>2, <4>3, <4>4, <4>6
      <4>7. CASE a.cmd # "read" BY <1>4, <4>2, <4>3, <4>5, <4>7
      <4>8. QED BY <4>6, <4>7
    <3>6. CASE a.cmd \in OfNames \/ a.cmd \in {"tdis", "dispose", "logoff"} \/ (a.cmd \notin {"setup", "tcon"} /\ i = 0)
      BY <2>2, <3>6 DEF After, AfterName, i, OfNames
    <3>7. QED BY <1>1, <3>2, <3>3, <3>4, <3>5, <3>6 DEF AnsweredTo, Good, Kinds, OnTrees, OnFiles, Counted
  <2>3. QED BY <1>1, <2>1, <2>2, SeenIs
<1>7. QED BY <1>1, <1>2, <1>4, <1>5, <1>6

LEMMA RepliedAsked ==
  ASSUME Types, Asked, Hosts, NEW r, NEW a, Replied(r, a)
  PROVE  Asked'
<1> USE DEF Kinds, OnTrees, OnFiles, Counted, Opens, OfNames
<1>1. /\ r \in asked /\ asked' = asked \ {r} /\ requests' = requests /\ Asks(r) /\ a.uid \in Uids
      /\ \A q \in asked : Asks(q)
  BY DEF Replied, AnsweredTo, Good, Asked
<1>2. /\ users \in [Uids -> Users \cup {None}] /\ trees \in [Tids -> (Uids \cup {None}) \X (Shares \cup {None})]
      /\ files \in [Fids -> OpenFiles]
  BY DEF Types
<1>3. ASSUME NEW q \in asked, q # r
      PROVE  /\ q.cmd # "setup" => users'[q.uid] # None
             /\ q.cmd = "tdis" => trees'[q.tid][1] = q.uid
             /\ q.cmd \in OnFiles => (files'[q.fid].open => files'[q.fid].uid = q.uid)
  <2>1. /\ q.cmd # "setup" => q.uid \in Uids /\ users[q.uid] # None
        /\ q.cmd = "tdis" => q.tid \in Tids /\ trees[q.tid][1] = q.uid
        /\ q.cmd \in OnFiles => q.fid \in Fids /\ (files[q.fid].open => files[q.fid].uid = q.uid)
    BY <1>1 DEF Asks
  <2>2. Together(q, r) /\ Together(r, q) BY <1>1 DEF Asked
  <2>3. None \notin Uids /\ None \notin Users BY Smb1Assumption
  <2>4. CASE HSetup(r, a) BY <1>1, <1>2, <2>1, <2>3, <2>4 DEF HSetup, Asks
  <2>5. CASE HTcon(r, a) BY <1>1, <1>2, <2>1, <2>3, <2>5 DEF HTcon
  <2>6. CASE HOpen(r, a) BY <1>1, <1>2, <1>3, <2>1, <2>6 DEF HOpen
  <2>7. CASE HClose(r, a) BY <1>1, <1>2, <2>1, <2>7, NotOpenIs DEF HClose, Asks
  <2>8. CASE HMove(r, a)
    <3>1. r.fid \in Fids BY <1>1, <2>8 DEF HMove, Asks
    <3>2. PICK o \in OpenFiles : o = files[r.fid] BY <1>2, <3>1
    <3> DEFINE o2 == [o EXCEPT !.readed = o.readed + a.size]
               o3 == [o EXCEPT !.written = o.written + a.size]
    <3>3. o2.open = o.open /\ o2.uid = o.uid /\ o3.open = o.open /\ o3.uid = o.uid BY <3>2 DEF OpenFiles
    <3>4. files' = [files EXCEPT ![r.fid] = o2] \/ files' = [files EXCEPT ![r.fid] = o3]
      BY <1>2, <2>8, <3>1, <3>2 DEF HMove
    <3> HIDE DEF o2, o3
    <3>5. PICK o1 : files' = [files EXCEPT ![r.fid] = o1] /\ o1.open = o.open /\ o1.uid = o.uid BY <3>3, <3>4
    <3>6. \A f \in Fids : files'[f].open = files[f].open /\ files'[f].uid = files[f].uid
      BY <1>2, <3>1, <3>2, <3>5
    <3>7. QED BY <2>1, <2>8, <3>6 DEF HMove
  <2>9. CASE HDispose(r, a) BY <1>1, <1>2, <2>1, <2>9 DEF HDispose, Asks, OpenFiles
  <2>10. CASE HName(r, a)
    <3>2. PICK p : \/ files' = files
                   \/ files' = [f \in Fids |-> IF f \in {x \in Fids : files[x].path = PathOf(r, r.name)}
                                               THEN [files[f] EXCEPT !.path = p] ELSE files[f]]
      BY <2>10 DEF HName
    <3>3. \A o \in OpenFiles : [o EXCEPT !.path = p].open = o.open /\ [o EXCEPT !.path = p].uid = o.uid
      BY DEF OpenFiles
    <3>4. \A f \in Fids : files'[f].open = files[f].open /\ files'[f].uid = files[f].uid
      <4> TAKE f \in Fids
      <4>1. PICK o \in OpenFiles : o = files[f] BY <1>2
      <4>2. files'[f] = o \/ files'[f] = [o EXCEPT !.path = p] BY <3>2, <4>1
      <4>3. QED BY <3>3, <4>1, <4>2
    <3>5. QED BY <2>1, <2>10, <3>4 DEF HName
  <2>11. CASE HTdis(r, a) BY <1>1, <1>2, <1>3, <2>1, <2>2, <2>11 DEF HTdis, Asks, Together
  <2>12. CASE HLogoff(r, a) BY <1>1, <1>2, <1>3, <2>1, <2>2, <2>12, NotOpenIs DEF HLogoff, Asks, Together
  <2>13. QED BY <2>4, <2>5, <2>6, <2>7, <2>8, <2>9, <2>10, <2>11, <2>12 DEF Replied
<1>4. ASSUME NEW q \in asked' PROVE Asks(q)' BY <1>1, <1>3 DEF Asks
<1>5. \A q, x \in asked' : Together(q, x) BY <1>1 DEF Asked
<1>6. QED BY <1>4, <1>5 DEF Asked, Together

(* What becomes of a file on the server. *)
Keeps(o1, o) == o1.open = o.open /\ o1.uid = o.uid /\ o1.tid = o.tid /\ o1.directory = o.directory
Closes(r, a, f) ==
  \/ r.cmd = "close" /\ a.ok /\ f = r.fid
  \/ r.cmd = "logoff" /\ (files[f].uid = r.uid \/ (files[f].open /\ trees[files[f].tid][1] = r.uid))
Opens2(r, a, o) ==
  /\ o.open /\ o.uid = r.uid /\ o.tid = r.tid /\ o.path = PathOf(r, r.name) /\ o.directory = r.directory
  /\ o.delete = r.delete /\ o.readed = 0 /\ o.written = 0
Moves(r, a, o1, o) ==
  /\ Keeps(o1, o) /\ o1.path = o.path /\ o1.delete = o.delete
  /\ o1.readed = IF r.cmd = "read" THEN o.readed + 1 ELSE o.readed
  /\ o1.written = IF r.cmd = "read" THEN o.written ELSE o.written + a.size
FileGoes(r, a, f) ==
  \/ files'[f] = files[f] /\ ~Closes(r, a, f) /\ ~(a.ok /\ r.cmd \in OnFiles /\ f = r.fid)
     /\ ~(a.ok /\ r.cmd \in Opens /\ f = a.fid)
  \/ files'[f] = NotOpen /\ Closes(r, a, f)
  \/ /\ r.cmd \in Opens /\ a.ok /\ f = a.fid /\ files[f] = NotOpen /\ Opens2(r, a, files'[f])
     /\ \A q \in asked : q.cmd \in OnFiles => q.fid # f
     /\ (\E u \in Uids : userData[u].files[f].known) => "reused" \in odd'
  \/ r.cmd \in {"read", "write"} /\ a.ok /\ f = r.fid /\ files[f].open /\ Moves(r, a, files'[f], files[f])
  \/ /\ r.cmd = "dispose" /\ a.ok /\ f = r.fid /\ files[f].open /\ Keeps(files'[f], files[f])
     /\ files'[f].path = files[f].path /\ files'[f].delete = r.on
     /\ files'[f].readed = files[f].readed /\ files'[f].written = files[f].written
  \/ /\ r.cmd \in OfNames /\ a.ok /\ files[f].open /\ Keeps(files'[f], files[f]) /\ "renamed" \in odd'

LEMMA FilesGo ==
  ASSUME Types, Asked, Hosts, NEW r, NEW a, Replied(r, a), NEW f \in Fids
  PROVE  FileGoes(r, a, f)
<1> USE DEF Kinds, OnTrees, OnFiles, Counted, Opens, OfNames
<1>1. /\ r \in asked /\ Asks(r) /\ a.uid \in Uids /\ files \in [Fids -> OpenFiles] /\ a.ok \in BOOLEAN
      /\ trees \in [Tids -> (Uids \cup {None}) \X (Shares \cup {None})]
  BY DEF Replied, AnsweredTo, Good, Asked, Types
<1>2. PICK o \in OpenFiles : /\ o = files[f] /\ o.readed \in Nat /\ o.written \in Nat
                             /\ o = NotOpen \/ o.open
  BY <1>1, FilesAre DEF Hosts
<1>3. CASE HSetup(r, a) \/ HTcon(r, a) \/ HTdis(r, a) BY <1>3 DEF HSetup, HTcon, HTdis, FileGoes, Closes
<1>4. CASE HOpen(r, a)
  <2>1. CASE ~a.ok BY <1>4, <2>1 DEF HOpen, FileGoes, Closes
  <2>2. CASE a.ok /\ f # a.fid BY <1>1, <1>4, <2>2 DEF HOpen, FileGoes, Closes
  <2>3. CASE a.ok /\ f = a.fid
    <3> DEFINE o1 == [NotOpen EXCEPT !.open = TRUE, !.uid = r.uid, !.tid = r.tid, !.path = PathOf(r, r.name),
                                     !.directory = r.directory, !.delete = r.delete]
    <3>1. files'[f] = o1 BY <1>1, <1>4, <2>3 DEF HOpen
    <3>2. Opens2(r, a, o1) BY DEF Opens2, NotOpen
    <3> HIDE DEF o1
    <3>3. files[f] = NotOpen BY <1>2, <1>4, <2>3 DEF HOpen
    <3>4. QED BY <1>4, <2>3, <3>1, <3>2, <3>3 DEF HOpen, FileGoes
  <2>4. QED BY <1>1, <2>1, <2>2, <2>3
<1>5. CASE HClose(r, a) BY <1>1, <1>5 DEF HClose, FileGoes, Closes, Asks
<1>6. CASE HMove(r, a) BY <1>1, <1>2, <1>6 DEF HMove, Asks, FileGoes, Closes, Moves, Keeps, OpenFiles
<1>7. CASE HDispose(r, a) BY <1>1, <1>2, <1>7 DEF HDispose, Asks, FileGoes, Closes, Keeps, OpenFiles
<1>8. CASE HName(r, a)
  BY <1>1, <1>2, <1>8, NotOpenIs, Smb1Assumption DEF HName, Asks, FileGoes, Closes, Keeps, OpenFiles, PathOf,
    NoPath
<1>9. CASE HLogoff(r, a) BY <1>9 DEF HLogoff, FileGoes, Closes
<1>10. QED BY <1>3, <1>4, <1>5, <1>6, <1>7, <1>8, <1>9 DEF Replied

LEMMA RepliedHosts ==
  ASSUME Types, Asked, Hosts, NEW r, NEW a, Replied(r, a)
  PROVE  Hosts'
<1> USE DEF Kinds, OnTrees, OnFiles, Counted, Opens, OfNames
<1>1. /\ r \in asked /\ Asks(r) /\ a.uid \in Uids /\ asked' = asked \ {r} /\ odd \subseteq odd' /\ a.ok \in BOOLEAN
      /\ \A q \in asked : Asks(q)
  BY DEF Replied, AnsweredTo, Good, Asked
<1>2. /\ trees \in [Tids -> (Uids \cup {None}) \X (Shares \cup {None})] /\ users \in [Uids -> Users \cup {None}]
      /\ files \in [Fids -> OpenFiles] /\ None \notin Uids \cup Users \cup Shares
  BY Smb1Assumption DEF Types
<1>3. \A t \in Tids : \/ trees[t] = <<None, None>>
                      \/ trees[t] \in Uids \X Shares /\ users[trees[t][1]] # None
  BY DEF Hosts
<1>4. \A q \in asked, x \in asked : Together(q, x) BY DEF Asked
<1>5. ASSUME NEW t \in Tids
      PROVE  \/ trees'[t] = <<None, None>>
             \/ trees'[t] \in Uids \X Shares /\ users'[trees'[t][1]] # None
  <2>1. CASE HSetup(r, a) BY <1>1, <1>2, <1>3, <2>1 DEF HSetup, Asks
  <2>2. CASE HTcon(r, a) BY <1>1, <1>2, <1>3, <2>2 DEF HTcon, Asks
  <2>3. CASE HOpen(r, a) \/ HClose(r, a) \/ HMove(r, a) \/ HDispose(r, a) \/ HName(r, a)
    BY <1>3, <2>3 DEF HOpen, HClose, HMove, HDispose, HName
  <2>4. CASE HTdis(r, a) BY <1>2, <1>3, <2>4 DEF HTdis
  <2>5. CASE HLogoff(r, a) BY <1>1, <1>2, <1>3, <2>5 DEF HLogoff, Asks
  <2>6. QED BY <2>1, <2>2, <2>3, <2>4, <2>5 DEF Replied
<1>6. \A u \in Uids : users[u] # None => users'[u] # None \/ (r.cmd = "logoff" /\ u = r.uid)
  <2>1. CASE HSetup(r, a) BY <1>1, <1>2, <2>1 DEF HSetup, Asks
  <2>2. CASE HLogoff(r, a) BY <1>1, <1>2, <2>2 DEF HLogoff, Asks
  <2>3. CASE users' = users BY <2>3
  <2>4. QED BY <2>1, <2>2, <2>3 DEF Replied, HTcon, HOpen, HClose, HMove, HDispose, HName, HTdis
<1>7. ASSUME NEW f \in Fids
      PROVE  \/ files'[f] = NotOpen
             \/ files'[f].open /\ files'[f].uid \in Uids /\ users'[files'[f].uid] # None /\ files'[f].tid \in Tids
  BY <1>1, <1>6, FilesGo, NotOpenIs DEF Hosts, Closes, Asks, Opens2, Keeps, FileGoes, Moves
<1>8. ASSUME "shared" \notin odd', NEW q \in asked', q.cmd \in OnTrees PROVE trees'[q.tid][1] = q.uid
  <2>1. q \in asked /\ q # r /\ trees[q.tid][1] = q.uid /\ q.tid \in Tids /\ q.uid \in Uids /\ q.uid # None
    BY <1>1, <1>2, <1>8 DEF Hosts, Asks
  <2>2. CASE HSetup(r, a) \/ HTcon(r, a) BY <1>2, <2>1, <2>2 DEF HSetup, HTcon
  <2>3. CASE HTdis(r, a) BY <1>1, <1>2, <1>4, <1>8, <2>1, <2>3 DEF HTdis, Asks, Together
  <2>4. CASE HLogoff(r, a) BY <1>1, <1>4, <1>8, <2>1, <2>4 DEF HLogoff, Together
  <2>5. CASE trees' = trees BY <2>1, <2>5
  <2>6. QED BY <2>2, <2>3, <2>4, <2>5 DEF Replied, HOpen, HClose, HMove, HDispose, HName
<1>9. "undelete" \notin odd' => \A q \in asked' : q.cmd = "dispose" => q.on BY <1>1 DEF Hosts
<1>10. ASSUME "evicted" \notin odd', NEW q \in asked', q.cmd = "close" PROVE files'[q.fid].open
  <2>1. q \in asked /\ q # r /\ files[q.fid].open /\ q.fid \in Fids BY <1>1, <1>10 DEF Hosts, Asks
  <2>2. files[q.fid].uid = q.uid BY <1>1, <1>10, <2>1 DEF Asks
  <2>3. FileGoes(r, a, q.fid) BY <2>1, FilesGo
  <2>4. ~Closes(r, a, q.fid)
    <3>1. ~(r.cmd = "close" /\ q.fid = r.fid) BY <1>1, <1>4, <1>10, <2>1 DEF Together
    <3>2. ASSUME r.cmd = "logoff", files[q.fid].uid = r.uid \/ trees[files[q.fid].tid][1] = r.uid PROVE FALSE
      <4>1. Together(q, r) BY <1>1, <1>4, <2>1
      <4>2. files[q.fid].uid # r.uid BY <1>10, <2>1, <2>2, <3>2, <4>1 DEF Together
      <4>3. HLogoff(r, a) BY <3>2 DEF Replied, HSetup, HTcon, HOpen, HClose, HMove, HDispose, HName, HTdis
      <4>4. "evicted" \in odd' BY <2>1, <3>2, <4>2, <4>3 DEF HLogoff
      <4>5. QED BY <1>10, <4>4
    <3>3. QED BY <3>1, <3>2 DEF Closes
  <2>5. QED BY <2>1, <2>3, <2>4 DEF FileGoes, Opens2, Moves, Keeps
<1>11. QED BY <1>5, <1>7, <1>8, <1>9, <1>10 DEF Hosts

LEMMA RepliedEntries ==
  ASSUME Types, Asked, OwnEntries, NEW r, NEW a, Replied(r, a)
  PROVE  OwnEntries'
<1>1. /\ AnsweredTo(r, a) /\ r \in asked /\ asked' = asked \ {r} /\ requests' = requests /\ odd \subseteq odd'
      /\ a.cmd = r.cmd /\ a.id = r.id
  BY DEF Replied, AnsweredTo
<1>2. requests \in Nat /\ Len(temp) \in Nat /\ temp \in Seq(Entries) BY DEF Types
<1>3. \A q \in asked : q.id \in 1..requests /\ (q.id = r.id => q = r) BY <1>1 DEF Asked, Asks, Together
<1>4. /\ \A i \in 1..Len(temp) : temp[i].id <= requests
      /\ "lost" \notin odd' =>
           /\ \A i \in 1..Len(temp) : temp[i].cmd = "close" => \E q \in asked : q.cmd = "close" /\ q.id = temp[i].id
           /\ \A i, j \in 1..Len(temp) : temp[i].cmd = "close" /\ temp[j].cmd = "close" /\ temp[i].id = temp[j].id => i = j
      /\ ~ReadAgain' /\ "negotiate" \notin odd' =>
           \A q \in asked : q.cmd \in Answered => \A i \in 1..Len(temp) : Newest(i, q.cmd, q.id) => Tells(temp[i], q)
  BY <1>1 DEF OwnEntries, ReadAgain
<1>5. CASE temp' = temp /\ ("lost" \notin odd' /\ r.cmd = "close" =>
                              \A i \in 1..Len(temp) : ~(temp[i].cmd = "close" /\ temp[i].id = r.id))
  BY <1>1, <1>4, <1>5 DEF Newest, OwnEntries, Tells
<1>6. ASSUME NEW i \in 1..Len(temp), Newest(i, a.cmd, a.id), temp' = Done(i)
      PROVE  OwnEntries'
  <2>1. Len(temp') = Len(temp) /\ temp'[i] = Blank /\ \A j \in 1..Len(temp) : j # i => temp'[j] = temp[j]
    BY <1>6, DoneIs
  <2>2. Blank.cmd = None /\ Blank.id = 0 /\ None # "close" /\ None \notin Answered
    BY DEF Blank, None, Answered, OnTrees, Counted, Opens, OfNames
  <2>3. temp[i].cmd = r.cmd /\ temp[i].id = r.id BY <1>1, <1>6 DEF Newest
  <2>4. \A j \in 1..Len(temp') : temp'[j].id <= requests' BY <1>1, <1>2, <1>4, <2>1, <2>2
  <2>5. ASSUME "lost" \notin odd'
        PROVE  /\ \A j \in 1..Len(temp') : temp'[j].cmd = "close" => \E q \in asked' : q.cmd = "close" /\ q.id = temp'[j].id
               /\ \A j, k \in 1..Len(temp') : temp'[j].cmd = "close" /\ temp'[k].cmd = "close" /\ temp'[j].id = temp'[k].id => j = k
    BY <1>1, <1>4, <2>1, <2>2, <2>3, <2>5
  <2>6. ASSUME ~ReadAgain', "negotiate" \notin odd', NEW q \in asked', q.cmd \in Answered,
               NEW j \in 1..Len(temp'), Newest(j, q.cmd, q.id)'
        PROVE  Tells(temp'[j], q)
    BY <1>1, <1>2, <1>3, <1>4, <2>1, <2>2, <2>3, <2>6 DEF Newest
  <2>7. QED BY <2>4, <2>5, <2>6 DEF OwnEntries
<1>7. QED BY <1>1, <1>5, <1>6, SeenIs DEF ListAfter

LEMMA RepliedShares ==
  ASSUME Types, OwnShares, NEW r, NEW a, Replied(r, a)
  PROVE  OwnShares'
  BY SeenIs DEF Replied, AnsweredTo, OwnShares, ReadAgain

(* What is found of a request is what it asked for. *)
LEMMA FoundTells ==
  ASSUME Types, OwnEntries, NEW r \in asked, r.cmd \in Answered, ~ReadAgain, "negotiate" \notin odd, Found(r.cmd, r.id) # 0
  PROVE  Found(r.cmd, r.id) \in 1..Len(temp) /\ Tells(temp[Found(r.cmd, r.id)], r)
  BY FoundFacts DEF OwnEntries

LEMMA RepliedUsers ==
  ASSUME Types, Asked, OwnEntries, OwnShares, UsersNamed, NEW r, NEW a, Replied(r, a)
  PROVE  UsersNamed'
<1>1. /\ AnsweredTo(r, a) /\ r \in asked /\ Asks(r) /\ asked' = asked \ {r} /\ odd \subseteq odd' /\ a.uid \in Uids
      /\ a.ok \in BOOLEAN /\ a.cmd = r.cmd /\ a.id = r.id /\ (r.cmd # "setup" => a.uid = r.uid)
  BY DEF Replied, AnsweredTo, Good, Asked
<1>2. /\ users \in [Uids -> Users \cup {None}] /\ None \notin Users
      /\ \A u \in Uids : ~userData[u].known => userData[u] = NoUser
  BY Smb1Assumption DEF Types
<1>3. StaleName => StaleName' BY <1>1 DEF StaleName
<1>4. ReadAgain' => StaleName' BY DEF ReadAgain, StaleName
<1>5. \A u \in Uids : Leaving(u)' => Leaving(u) BY <1>1 DEF Leaving
<1>6. "lost" \notin odd' => After(a) BY <1>1, SeenIs
<1>7. \A q \in asked : q.cmd = "logoff" /\ r.cmd # "setup" /\ q.uid = r.uid => q = r BY <1>1 DEF Asked, Together
<1>8. CASE r.cmd = "setup"
  <2> DEFINE i == Found(a.cmd, a.id)
  <2>1. HSetup(r, a) /\ r.user \in Users /\ r.user # None
    BY <1>1, <1>2, <1>8 DEF Replied, HTcon, HOpen, HClose, HMove, HDispose, HName, HTdis, HLogoff, Opens, OfNames, Asks
  <2>2. users[a.uid] = None /\ users' = IF a.ok /\ r.form # "negotiate" THEN [users EXCEPT ![a.uid] = r.user] ELSE users
    BY <2>1 DEF HSetup
  <2>3. ~Leaving(a.uid) BY <1>1, <2>2 DEF Leaving, Asked, Asks
  <2>4. ~ReadAgain' /\ "negotiate" \notin odd' /\ i # 0 => r.form # "negotiate" /\ temp[i].user = r.user
    BY <1>1, <1>8, FoundTells DEF ReadAgain, Answered, Tells
  <2> HIDE DEF i
  <2>5. After(a) => AfterSetup(a, i) BY <1>1, <1>8 DEF After, i
  <2>6. ASSUME odd' \cap {"lost", "negotiate"} = {}, NEW u \in Uids, userData'[u].known
        PROVE  users'[u] # None /\ ~Leaving(u)'
    <3>1. \A x \in Uids : userData[x].known => users[x] # None /\ ~Leaving(x) BY <1>1, <2>6 DEF UsersNamed
    <3>2. AfterSetup(a, i) BY <1>6, <2>5, <2>6
    <3>3. CASE userData[u].known BY <1>1, <1>2, <1>5, <2>2, <3>1, <3>3
    <3>4. CASE ~userData[u].known
      <4>1. u = a.uid /\ a.ok /\ (i # 0 \/ (a.andx /\ treeCache[a.id] # None))
        BY <2>6, <3>2, <3>4 DEF AfterSetup, Joins
      <4>2. r.form # "negotiate" BY <1>1, <1>8, <2>1, <2>4, <2>6, <4>1 DEF ReadAgain, HSetup, Asks
      <4>3. users'[u] = r.user BY <1>1, <1>2, <2>2, <4>1, <4>2
      <4>4. QED BY <1>5, <2>1, <2>3, <4>1, <4>3
    <3>5. QED BY <3>3, <3>4
  <2>7. ASSUME ~StaleName', "negotiate" \notin odd', NEW u \in Uids, users'[u] # None
        PROVE  userData'[u].name \in {NoName, users'[u]}
    <3>1. \A x \in Uids : users[x] # None => userData[x].name \in {NoName, users[x]}
      BY <1>1, <1>3, <2>7 DEF UsersNamed
    <3>2. ~ReadAgain' BY <1>4, <2>7
    <3>3. CASE u # a.uid BY <1>1, <1>2, <2>2, <2>5, <2>7, <3>1, <3>3, SeenIs DEF AfterSetup, Joins
    <3>4. CASE u = a.uid
      <4>1. a.ok /\ r.form # "negotiate" /\ users'[u] = r.user BY <1>1, <1>2, <2>2, <2>7, <3>4
      <4>2. userData[u].known => "remounted" \in odd' BY <2>1, <3>4, <4>1 DEF HSetup
      <4>3. userData[u].name = NoName BY <1>1, <1>2, <2>2, <2>7, <3>4, <4>2, NoUserIs DEF StaleName, UsersNamed
      <4>4. CASE userData' = userData BY <3>4, <4>3, <4>4
      <4>5. CASE AfterSetup(a, i) BY <2>4, <2>7, <3>2, <3>4, <4>1, <4>3, <4>5 DEF AfterSetup, Joins
      <4>6. QED BY <1>1, <2>5, <4>4, <4>5, SeenIs
    <3>5. QED BY <3>3, <3>4
  <2>8. QED BY <2>6, <2>7 DEF UsersNamed
<1>9. CASE r.cmd # "setup"
  <2>1. r.uid \in Uids /\ users[r.uid] # None /\ ~HSetup(r, a) BY <1>1, <1>9 DEF Asks, HSetup
  <2>2. \/ users' = users
        \/ r.cmd = "logoff" /\ users' = [users EXCEPT ![r.uid] = None]
    BY <2>1 DEF Replied, HTcon, HOpen, HClose, HMove, HDispose, HName, HTdis, HLogoff
  <2>3. \A u \in Uids : /\ userData'[u].known => userData[u].known \/ (r.cmd = "tcon" /\ u = r.uid)
                        /\ userData'[u].name = userData[u].name
    <3>1. CASE After(a)
      <4> TAKE u \in Uids
      <4>1. CASE r.cmd = "tcon" BY <1>1, <3>1, <4>1 DEF After, AfterTcon
      <4>2. CASE r.cmd # "tcon"
        <5> DEFINE i == Found(a.cmd, a.id)
        <5>1. CASE a.cmd \in Opens /\ i # 0 BY <3>1, <5>1 DEF After, AfterOpen, Puts
        <5>2. CASE a.cmd = "close" /\ i # 0 BY <3>1, <5>2 DEF After, AfterClose, Puts
        <5>3. CASE a.cmd \in {"read", "write"} /\ i # 0 BY <3>1, <5>3 DEF After, AfterCount, Puts
        <5>4. CASE a.cmd \in OfNames /\ i # 0 BY <3>1, <5>4 DEF After, AfterName
        <5>5. CASE a.cmd \in {"tdis", "dispose", "logoff"} \/ (a.cmd \notin {"setup", "tcon"} /\ i = 0)
          BY <3>1, <5>5 DEF After
        <5>6. QED BY <1>1, <1>9, <4>2, <5>1, <5>2, <5>3, <5>4, <5>5 DEF Asks, Kinds, OnTrees, OnFiles, Counted
      <4>3. QED BY <4>1, <4>2
    <3>2. CASE userData' = userData BY <3>2
    <3>3. QED BY <1>1, <3>1, <3>2, SeenIs
  <2>4. ASSUME odd' \cap {"lost", "negotiate"} = {}, NEW u \in Uids, userData'[u].known
        PROVE  users'[u] # None /\ ~Leaving(u)'
    BY <1>1, <1>2, <1>5, <1>7, <1>9, <2>1, <2>2, <2>3, <2>4 DEF UsersNamed, Leaving
  <2>5. ASSUME ~StaleName', "negotiate" \notin odd', NEW u \in Uids, users'[u] # None
        PROVE  userData'[u].name \in {NoName, users'[u]}
    BY <1>1, <1>2, <1>3, <2>1, <2>2, <2>3, <2>5 DEF UsersNamed
  <2>6. QED BY <2>4, <2>5 DEF UsersNamed
<1>10. QED BY <1>8, <1>9

(* The tree that a user gains. *)
Gains(r, a, u, t) ==
  /\ u = a.uid /\ t = a.tid /\ a.ok /\ Mounts1(r) /\ treeCache[r.id] # None
  /\ trees[t][1] = None /\ trees' = [trees EXCEPT ![t] = <<u, r.share>>]
  /\ StillNamed(t) => "remounted" \in odd'
LEMMA TreesGo ==
  ASSUME Types, Asked, NEW r, NEW a, Replied(r, a), NEW u \in Uids, NEW t \in Tids
  PROVE  \/ userData'[u].trees[t] = userData[u].trees[t]
         \/ userData'[u].trees[t] = treeCache[r.id] /\ Gains(r, a, u, t)
<1>1. /\ AnsweredTo(r, a) /\ r \in asked /\ Asks(r) /\ a.cmd = r.cmd /\ a.id = r.id /\ a.ok \in BOOLEAN /\ a.uid \in Uids
      /\ (r.cmd # "setup" => a.uid = r.uid)
  BY DEF Replied, AnsweredTo, Good, Asked
<1>2. t \in Trees /\ NoTree \notin Tids BY Smb1Assumption DEF Trees
<1>3. CASE userData' = userData BY <1>3
<1>4. CASE After(a)
  <2> DEFINE i == Found(a.cmd, a.id)
  <2>1. CASE r.cmd = "setup"
    <3>1. HSetup(r, a)
      BY <2>1 DEF Replied, HTcon, HOpen, HClose, HMove, HDispose, HName, HTdis, HLogoff, Opens, OfNames
    <3>2. AfterSetup(a, i) BY <1>1, <1>4, <2>1 DEF After
    <3>3. CASE a.ok /\ Joins(a, i) /\ u = a.uid
      <4>1. userData'[u].trees[t] =
              IF a.andx /\ t = a.tid /\ treeCache[a.id] # None THEN treeCache[a.id] ELSE userData[u].trees[t]
        BY <1>2, <3>3 DEF Joins
      <4>2. ASSUME a.andx, t = a.tid, treeCache[a.id] # None
            PROVE  Gains(r, a, u, t)
        <5>1. r.share # None /\ Mounts1(r) BY <2>1, <3>1, <4>2 DEF HSetup, Mounts1
        <5>2. /\ trees[t][1] = None /\ trees' = [trees EXCEPT ![t] = <<u, r.share>>]
              /\ StillNamed(t) => "remounted" \in odd'
          BY <3>1, <3>3, <4>2, <5>1 DEF HSetup
        <5>3. QED BY <1>1, <3>3, <4>2, <5>1, <5>2 DEF Gains
      <4>3. QED BY <1>1, <4>1, <4>2
    <3>4. CASE ~(a.ok /\ Joins(a, i) /\ u = a.uid) BY <3>2, <3>4 DEF AfterSetup, Joins
    <3>5. QED BY <3>3, <3>4
  <2>2. CASE r.cmd = "tcon"
    <3>1. HTcon(r, a)
      BY <2>2 DEF Replied, HSetup, HOpen, HClose, HMove, HDispose, HName, HTdis, HLogoff, Opens, OfNames
    <3>2. AfterTcon(a) BY <1>1, <1>4, <2>2 DEF After
    <3>3. CASE u = a.uid
      <4>1. userData'[u].trees[t] =
              IF t = a.tid /\ treeCache[a.id] # None THEN treeCache[a.id] ELSE userData[u].trees[t]
        BY <1>2, <3>2, <3>3 DEF AfterTcon
      <4>2. t = a.tid /\ treeCache[a.id] # None => Gains(r, a, u, t)
        BY <1>1, <1>2, <2>2, <3>1, <3>3 DEF HTcon, Gains, Mounts1
      <4>3. QED BY <1>1, <4>1, <4>2
    <3>4. CASE u # a.uid BY <3>2, <3>4 DEF AfterTcon
    <3>5. QED BY <3>3, <3>4
  <2>3. CASE r.cmd \notin {"setup", "tcon"}
    <3>1. CASE a.cmd \in Opens /\ i # 0 BY <1>4, <3>1 DEF After, AfterOpen, Puts
    <3>2. CASE a.cmd = "close" /\ i # 0 BY <1>4, <3>2 DEF After, AfterClose, Puts
    <3>3. CASE a.cmd \in {"read", "write"} /\ i # 0 BY <1>4, <3>3 DEF After, AfterCount, Puts
    <3>4. CASE a.cmd \in OfNames /\ i # 0 BY <1>4, <3>4 DEF After, AfterName
    <3>5. CASE a.cmd \in {"tdis", "dispose", "logoff"} \/ (a.cmd \notin {"setup", "tcon"} /\ i = 0)
      BY <1>4, <3>5 DEF After
    <3>6. QED BY <1>1, <2>3, <3>1, <3>2, <3>3, <3>4, <3>5 DEF Asks, Kinds, OnTrees, OnFiles, Counted
  <2>4. QED BY <2>1, <2>2, <2>3
<1>5. QED BY <1>1, <1>3, <1>4, SeenIs

LEMMA ServerTrees ==
  ASSUME Types, Asked, NEW r, NEW a, Replied(r, a), NEW t \in Tids
  PROVE  \/ trees'[t] = trees[t]
         \/ Mounts1(r) /\ t = a.tid /\ trees'[t] = <<a.uid, r.share>> /\ trees[t][1] = None
            /\ (StillNamed(t) => "remounted" \in odd')
         \/ trees'[t] = <<None, None>> /\ r.cmd \in {"tdis", "logoff"} /\ trees[t][1] = r.uid
            /\ (r.cmd = "tdis" => t = r.tid)
<1>1. r \in asked /\ Asks(r) /\ (r.cmd # "setup" => a.uid = r.uid) /\ trees \in [Tids -> (Uids \cup {None}) \X (Shares \cup {None})]
  BY DEF Replied, AnsweredTo, Asked, Types
<1>2. CASE HSetup(r, a) BY <1>1, <1>2 DEF HSetup, Mounts1
<1>3. CASE HTcon(r, a) BY <1>1, <1>3 DEF HTcon, Mounts1
<1>4. CASE HTdis(r, a) BY <1>1, <1>4 DEF HTdis, Asks
<1>5. CASE HLogoff(r, a) BY <1>1, <1>5 DEF HLogoff
<1>6. CASE trees' = trees BY <1>6
<1>7. QED BY <1>2, <1>3, <1>4, <1>5, <1>6 DEF Replied, HOpen, HClose, HMove, HDispose, HName

LEMMA RepliedTrees ==
  ASSUME Types, Asked, Hosts, OwnShares, TreesNamed, NEW r, NEW a, Replied(r, a)
  PROVE  TreesNamed'
<1>1. /\ r \in asked /\ Asks(r) /\ asked' = asked \ {r} /\ odd \subseteq odd' /\ a.uid \in Uids
      /\ \A q \in asked : Asks(q) /\ Together(q, r)
  BY DEF Replied, AnsweredTo, Good, Asked
<1>2. /\ trees \in [Tids -> (Uids \cup {None}) \X (Shares \cup {None})] /\ None \notin Uids
      /\ \A t \in Tids : trees[t] = <<None, None>> \/ trees[t][1] \in Uids
  BY Smb1Assumption DEF Types, Hosts
<1>3. ASSUME ~ReadAgain', "remounted" \notin odd', NEW u \in Uids, NEW t \in Tids, userData'[u].trees[t] # None
      PROVE  \/ trees'[t] = <<u, userData'[u].trees[t]>>
             \/ /\ trees'[t] = <<None, None>>
                /\ \A q \in asked' : q.cmd \in OnTrees => ~(q.uid = u /\ q.tid = t)
  <2>1. ~ReadAgain /\ "remounted" \notin odd BY <1>1, <1>3 DEF ReadAgain
  <2>2. CASE userData'[u].trees[t] = treeCache[r.id] /\ Gains(r, a, u, t)
    BY <1>1, <1>2, <2>1, <2>2 DEF OwnShares, Gains
  <2>3. CASE userData'[u].trees[t] = userData[u].trees[t]
    BY <1>1, <1>2, <1>3, <2>1, <2>3, ServerTrees DEF TreesNamed, StillNamed, Together, OnTrees, Opens, OfNames,
      Asks
  <2>4. QED BY <2>2, <2>3, TreesGo
<1>4. ASSUME odd' \cap {"lost", "shared", "logoff"} = {}, NEW u \in Uids, NEW t \in Tids, trees'[t][1] = u
      PROVE  userData'[u].trees[t] \in {None, trees'[t][2]}
  <2>1. /\ odd \cap {"lost", "shared", "logoff"} = {}
        /\ \A q \in asked : Mounts1(q) => treeCache[q.id] = q.share
        /\ trees[t][1] = u => userData[u].trees[t] \in {None, trees[t][2]}
    BY <1>1, <1>4 DEF OwnShares, TreesNamed
  <2>2. CASE trees'[t] = trees[t] BY <1>2, <1>4, <2>1, <2>2, TreesGo DEF Gains
  <2>3. CASE Mounts1(r) /\ t = a.tid /\ trees'[t] = <<a.uid, r.share>> /\ trees[t][1] = None
    <3>1. u = a.uid /\ trees'[t][2] = r.share /\ treeCache[r.id] = r.share BY <1>1, <1>4, <2>1, <2>3
    <3>2. userData'[u].trees[t] = treeCache[r.id]
      <4>1. After(a) BY <1>4, SeenIs DEF Replied
      <4>2. t \in Trees /\ a.cmd = r.cmd /\ a.id = r.id BY DEF Trees, Replied, AnsweredTo
      <4>3. r.share # None BY <1>1, <2>3, Smb1Assumption DEF Mounts1, Asks
      <4>4. CASE r.cmd = "setup"
        <5>1. HSetup(r, a)
          BY <4>4 DEF Replied, HTcon, HOpen, HClose, HMove, HDispose, HName, HTdis, HLogoff, Opens, OfNames
        <5>2. a.ok /\ a.andx BY <1>2, <1>4, <2>3, <4>3, <5>1 DEF HSetup
        <5>3. Joins(a, Found(a.cmd, a.id)) BY <4>1, <4>2, <4>4, <5>2 DEF After, AfterSetup
        <5>4. QED BY <2>3, <3>1, <4>2, <4>3, <5>2, <5>3 DEF Joins
      <4>5. CASE r.cmd = "tcon" BY <2>3, <3>1, <4>1, <4>2, <4>3, <4>5 DEF After, AfterTcon
      <4>6. QED BY <2>3, <4>4, <4>5 DEF Mounts1
    <3>3. QED BY <3>1, <3>2
  <2>4. CASE trees'[t] = <<None, None>> BY <1>2, <1>4, <2>4
  <2>5. QED BY <2>2, <2>3, <2>4, ServerTrees
<1>5. QED BY <1>3, <1>4 DEF TreesNamed

(* What a tree id of a request stands for. *)
LEMMA Resolves ==
  ASSUME Types, Asked, Hosts, TreesNamed, ~StaleName, NEW r \in asked, r.cmd \in OnTrees
  PROVE  /\ userData[r.uid].trees[r.tid] \in {None, trees[r.tid][2]}
         /\ \A name : MakePath(r.uid, r.tid, name)[1] \in Trees \cup {trees[r.tid][2]}
                      /\ MakePath(r.uid, r.tid, name)[2] = name
<1>1. Asks(r) BY DEF Asked
<1>2. r.uid \in Uids /\ r.tid \in Tids /\ r.tid \in Trees BY <1>1 DEF Asks, OnTrees, Opens, OfNames, Trees
<1>3. userData[r.uid].trees[r.tid] \in {None, trees[r.tid][2]}
  BY <1>2 DEF ReadAgain, StaleName, TreesNamed, Hosts
<1>4. QED BY <1>2, <1>3 DEF MakePath

(* What becomes of the dispatcher's copy of a file. *)
Copied(r, a, s1, s, isdirectory, name) ==
  /\ Opens1(s1, s, MakePath(r.uid, r.tid, name), IsIpc(r.uid, r.tid), isdirectory)
  /\ r.cmd = "ntcreate" => isdirectory = a.directory
CountsMore(r, a, s1, s, size) ==
  /\ s1.readed = IF r.cmd = "read" THEN s.readed + a.size ELSE s.readed
  /\ s1.written = IF r.cmd = "read" THEN s.written ELSE s.written + size
  /\ s1.known = s.known /\ s1.isipc = s.isipc /\ s1.isdirectory = s.isdirectory
  /\ s1.delete = s.delete /\ s1.path = s.path
CopyGoes(r, a, i, u, f) ==
  \/ userData'[u].files[f] = userData[u].files[f]
  \/ userData'[u].files[f] = Unknown
  \/ /\ r.cmd \in Opens /\ a.ok /\ u = r.uid /\ f = a.fid /\ i # 0
     /\ \E isdirectory \in BOOLEAN :
          Copied(r, a, userData'[u].files[f], userData[u].files[f], isdirectory, temp[i].name)
  \/ /\ r.cmd \in {"read", "write"} /\ a.ok /\ u = r.uid /\ i # 0 /\ f = temp[i].fid /\ userData[u].files[f].known
     /\ CountsMore(r, a, userData'[u].files[f], userData[u].files[f], temp[i].size)

LEMMA CopiesGo ==
  ASSUME Types, Asked, NEW r, NEW a, Replied(r, a), NEW u \in Uids, NEW f \in Fids
  PROVE  CopyGoes(r, a, Found(r.cmd, r.id), u, f)
<1> DEFINE i == Found(r.cmd, r.id)
<1>1. /\ r \in asked /\ Asks(r) /\ a.uid \in Uids /\ a.cmd = r.cmd /\ a.id = r.id /\ a.ok \in BOOLEAN
      /\ r.cmd # "setup" => a.uid = r.uid
      /\ a.cmd \in Opens /\ a.ok => a.fid \in Fids
  BY DEF Replied, AnsweredTo, Good, Asked
<1>2. CASE userData' = userData BY <1>2 DEF CopyGoes
<1>3. CASE After(a)
  <2>1. CASE r.cmd = "setup" BY <1>1, <1>3, <2>1 DEF After, AfterSetup, Joins, CopyGoes
  <2>2. CASE r.cmd = "tcon" BY <1>1, <1>3, <2>2 DEF After, AfterTcon, CopyGoes
  <2>3. CASE r.cmd \in Opens /\ i # 0
    <3>1. AfterOpen(a, i) /\ a.uid = r.uid BY <1>1, <1>3, <2>3 DEF After, Opens
    <3>2. a.tid = r.tid
      BY <2>3 DEF Replied, HSetup, HTcon, HOpen, HClose, HMove, HDispose, HName, HTdis, HLogoff, Opens, OfNames
    <3>3. CASE userData' = userData BY <3>3 DEF CopyGoes
    <3>4. CASE userData' # userData BY <1>1, <2>3, <3>1, <3>2, <3>4 DEF AfterOpen, Puts, Copied, CopyGoes
    <3>5. QED BY <3>3, <3>4
  <2>4. CASE r.cmd = "close" /\ i # 0 BY <1>1, <1>3, <2>4 DEF After, AfterClose, CopyGoes, Puts
  <2>5. CASE r.cmd \in {"read", "write"} /\ i # 0
    <3>1. AfterCount(a, i) /\ a.uid = r.uid BY <1>1, <1>3, <2>5 DEF After
    <3>3. CASE userData' = userData BY <3>3 DEF CopyGoes
    <3>4. CASE userData' # userData
      <4>1. a.ok /\ temp[i].fid \in Fids BY <3>1, <3>4 DEF AfterCount
      <4> DEFINE old == userData[r.uid].files[temp[i].fid]
      <4>2. PICK s \in States :
              /\ Puts(r.uid, temp[i].fid, s) /\ old.known
              /\ s.readed = IF a.cmd = "read" THEN old.readed + a.size ELSE old.readed
              /\ s.written = IF a.cmd = "read" THEN old.written ELSE old.written + temp[i].size
              /\ s.known = old.known /\ s.isipc = old.isipc /\ s.isdirectory = old.isdirectory
              /\ s.delete = old.delete /\ s.path = old.path
        BY <3>1, <3>4 DEF AfterCount
      <4>3. CASE u = r.uid /\ f = temp[i].fid BY <1>1, <2>5, <4>1, <4>2, <4>3 DEF Puts, CountsMore, CopyGoes
      <4>4. CASE ~(u = r.uid /\ f = temp[i].fid) BY <4>2, <4>4 DEF Puts, CopyGoes
      <4>5. QED BY <4>3, <4>4
    <3>5. QED BY <3>3, <3>4
  <2>6. CASE r.cmd \in OfNames \cup {"tdis", "dispose", "logoff"} \/ (r.cmd \notin {"setup", "tcon"} /\ i = 0)
    BY <1>1, <1>3, <2>6 DEF After, AfterName, OfNames, CopyGoes
  <2>7. QED BY <1>1, <2>1, <2>2, <2>3, <2>4, <2>5, <2>6 DEF Asks, Kinds, OnTrees, OnFiles, Counted
<1>4. QED BY <1>2, <1>3, SeenIs DEF Replied

(* The copy of a file that is opened is right. *)
LEMMA OpenedFollows ==
  ASSUME Types, Asked, Hosts, OwnEntries, TreesNamed, Straight', NEW r, NEW a, Replied(r, a),
         NEW f \in Fids, r.cmd \in Opens, a.ok, f = a.fid,
         NEW s, NEW s1, s = Unknown, NEW isdirectory \in BOOLEAN,
         Found(r.cmd, r.id) # 0,
         Copied(r, a, s1, s, isdirectory, temp[Found(r.cmd, r.id)].name),
         NEW o, Opens2(r, a, o)
  PROVE  Follows(s1, o, f)' /\ o.uid = r.uid
<1>1. /\ r \in asked /\ Asks(r) /\ odd \subseteq odd' BY DEF Replied, AnsweredTo, Good, Asked
<1>2. Straight /\ ~ReadAgain /\ ~StaleName /\ "negotiate" \notin odd
  BY <1>1 DEF Straight, StaleName, ReadAgain, Misleading
<1>3. r.cmd \in OnTrees /\ r.cmd \in Answered BY DEF OnTrees, Answered
<1>4. temp[Found(r.cmd, r.id)].name = r.name BY <1>1, <1>2, <1>3, FoundTells DEF Tells
<1>5. HOpen(r, a) BY DEF Replied, HSetup, HTcon, HClose, HMove, HDispose, HName, HTdis, HLogoff, Opens, OfNames
<1>6. /\ userData[r.uid].trees[r.tid] \in {None, trees[r.tid][2]}
      /\ MakePath(r.uid, r.tid, r.name)[1] \in Trees \cup {trees[r.tid][2]}
      /\ MakePath(r.uid, r.tid, r.name)[2] = r.name
  BY <1>1, <1>2, <1>3, Resolves
<1>7. /\ s1.path = MakePath(r.uid, r.tid, r.name) /\ s1.isipc = IsIpc(r.uid, r.tid) /\ s1.isdirectory = isdirectory
      /\ ~s1.delete /\ s1.readed = 0 /\ s1.written = 0
  BY <1>4 DEF Copied, Opens1, Unknown
<1>8. o.path[1] = trees[r.tid][2] /\ o.path[2] = r.name /\ o.readed = 0 /\ o.written = 0 /\ o.directory = r.directory
      /\ o.uid = r.uid
  BY DEF Opens2, PathOf
<1>9. o.directory => s1.isdirectory BY <1>1, <1>5, <1>7, <1>8 DEF Asks, HOpen, Copied
<1>10. o.path[1] = IPC => Suppressed(s1)
  BY <1>1, <1>3, <1>5, <1>6, <1>7, <1>8 DEF Suppressed, IsIpc, HOpen, Straight, Misleading, Asks, Trees,
    MakePath
<1>11. QED BY <1>6, <1>7, <1>8, <1>9, <1>10 DEF Follows, Suppressed

(* A copy that follows an open file follows it on. *)
LEMMA FollowsOn ==
  ASSUME Types, Asked, Hosts, OwnEntries, Straight', NEW r, NEW a, Replied(r, a),
         NEW u \in Uids, NEW f \in Fids, NEW s \in States, NEW s1 \in States, NEW o \in OpenFiles, NEW o1 \in OpenFiles,
         s = userData[u].files[f], s1 = userData'[u].files[f], o = files[f], o1 = files'[f],
         s1.known, o1 # NotOpen, o # NotOpen, o.uid = u, Follows(s, o, f),
         CopyGoes(r, a, Found(r.cmd, r.id), u, f), FileGoes(r, a, f)
  PROVE  o1.uid = u /\ Follows(s1, o1, f)'
<1> DEFINE i == Found(r.cmd, r.id)
<1>1. /\ r \in asked /\ Asks(r) /\ odd \subseteq odd' /\ asked' = asked \ {r} /\ a.cmd = r.cmd /\ a.id = r.id
      /\ a.ok \in BOOLEAN
  BY DEF Replied, AnsweredTo, Good, Asked
<1>2. /\ Straight /\ ~ReadAgain /\ ~StaleName /\ "negotiate" \notin odd /\ "undelete" \notin odd
      /\ "renamed" \notin odd' /\ "short" \notin odd' /\ "keptFile" \notin odd'
  BY <1>1 DEF Straight, StaleName, ReadAgain, Misleading
<1>3. /\ s.readed \in Nat /\ s.written \in Nat /\ o.readed \in Nat /\ o.written \in Nat
      /\ s.readed <= o.readed /\ s.written <= o.written
      /\ s.path[1] \in Trees \cup {o.path[1]} /\ s.path[2] = o.path[2]
      /\ o.path[1] = IPC => Suppressed(s)
      /\ o.directory => s.isdirectory
      /\ s.delete => o.delete \/ Disposing(f)
  BY DEF Follows, States, OpenFiles
<1>4. \/ s1 = s
      \/ /\ r.cmd \in {"read", "write"} /\ a.ok /\ u = r.uid /\ f = temp[i].fid /\ i # 0
         /\ CountsMore(r, a, s1, s, temp[i].size)
      \/ r.cmd \in Opens /\ a.ok /\ f = a.fid
  BY NoUserIs DEF CopyGoes
<1>5. ASSUME NEW q \in asked, q # r
      PROVE  q \in asked'
  BY <1>1, <1>5
<1>6. CASE o1 = o /\ ~(a.ok /\ r.cmd \in OnFiles /\ f = r.fid) /\ ~(a.ok /\ r.cmd \in Opens /\ f = a.fid)
  <2>1. s1 = s BY <1>1, <1>2, <1>4, <1>6, FoundTells DEF Answered, Counted, Tells, OnFiles
  <2>2. s.delete => o.delete \/ Disposing(f)'
    <3>1. SUFFICES ASSUME s.delete, ~o.delete
                   PROVE  Disposing(f)'
      OBVIOUS
    <3>2. PICK q \in asked : q.cmd = "dispose" /\ q.fid = f /\ q.on BY <1>3, <3>1 DEF Disposing
    <3>3. q # r
      <4>1. SUFFICES ASSUME q = r
                     PROVE  FALSE
        OBVIOUS
      <4>2. HDispose(r, a)
        BY <3>2, <4>1 DEF Replied, HSetup, HTcon, HOpen, HClose, HMove, HName, HTdis, HLogoff, Opens, OfNames
      <4>3. a.ok BY <1>1, <1>2, <4>2 DEF HDispose
      <4>4. QED BY <1>6, <3>2, <4>1, <4>3 DEF OnFiles
    <3>4. QED BY <3>2, <3>3, <1>5 DEF Disposing
  <2>3. QED BY <1>3, <1>6, <2>1, <2>2 DEF Follows, Suppressed
<1>7. CASE r.cmd \in {"read", "write"} /\ a.ok /\ f = r.fid /\ Moves(r, a, o1, o)
  <2>1. HMove(r, a)
    BY <1>7 DEF Replied, HSetup, HTcon, HOpen, HClose, HDispose, HName, HTdis, HLogoff, Opens, OfNames
  <2>2. /\ a.size \in 0..2 /\ (r.cmd = "read" => a.size = 1) /\ (r.cmd = "write" => a.size = 2)
    BY <1>1, <1>2, <1>7, <2>1 DEF HMove
  <2>3. o1.uid = o.uid /\ o1.directory = o.directory /\ o1.path = o.path /\ o1.delete = o.delete
        /\ o1.readed = (IF r.cmd = "read" THEN o.readed + 1 ELSE o.readed)
        /\ o1.written = (IF r.cmd = "read" THEN o.written ELSE o.written + a.size)
    BY <1>7 DEF Moves, Keeps
  <2>4. /\ s1.readed <= o1.readed /\ s1.written <= o1.written
        /\ s1.path = s.path /\ s1.isipc = s.isipc /\ s1.isdirectory = s.isdirectory /\ s1.delete = s.delete
    <3>1. CASE s1 = s BY <1>3, <2>2, <2>3, <3>1
    <3>2. CASE i # 0 /\ CountsMore(r, a, s1, s, temp[i].size)
      <4>1. r.cmd = "write" => temp[i].size = 2
        BY <1>1, <1>2, <1>7, <3>2, FoundTells DEF Tells, Counted, Answered
      <4>2. QED BY <1>3, <1>7, <2>2, <2>3, <3>2, <4>1 DEF CountsMore
    <3>3. QED BY <1>4, <1>7, <3>1, <3>2 DEF Opens
  <2>5. s1.delete => o1.delete \/ Disposing(f)' BY <1>3, <1>5, <1>7, <2>3, <2>4 DEF Disposing
  <2>6. QED BY <1>3, <2>3, <2>4, <2>5 DEF Follows, Suppressed
<1>8. CASE /\ r.cmd = "dispose" /\ Keeps(o1, o)
           /\ o1.path = o.path /\ o1.delete = r.on /\ o1.readed = o.readed /\ o1.written = o.written
  BY <1>1, <1>2, <1>3, <1>4, <1>8 DEF Hosts, Opens, Follows, Suppressed, Keeps
<1>9. QED BY <1>2, <1>6, <1>7, <1>8 DEF FileGoes

LEMMA RepliedFiles ==
  ASSUME Types, Asked, Hosts, OwnEntries, TreesNamed, FilesFollow, NEW r, NEW a, Replied(r, a)
  PROVE  FilesFollow'
<1>1. /\ r \in asked /\ Asks(r) /\ odd \subseteq odd' /\ asked' = asked \ {r} /\ a.cmd = r.cmd /\ a.id = r.id
      /\ a.ok \in BOOLEAN
  BY DEF Replied, AnsweredTo, Good, Asked
<1>2. Types' BY RepliedTypes
<1>3. ASSUME Straight', NEW u \in Uids, NEW f \in Fids, userData'[u].files[f].known, files'[f] # NotOpen
      PROVE  files'[f].uid = u /\ Follows(userData[u].files[f], files[f], f)'
  <2>1. PICK s \in States, s1 \in States, o \in OpenFiles, o1 \in OpenFiles :
          s = userData[u].files[f] /\ s1 = userData'[u].files[f] /\ o = files[f] /\ o1 = files'[f]
    BY <1>2 DEF Types, UserStates
  <2>2. CopyGoes(r, a, Found(r.cmd, r.id), u, f) /\ FileGoes(r, a, f) BY CopiesGo, FilesGo
  <2>3. Straight /\ ~s.known => s = Unknown BY <2>1 DEF Types
  <2>4. Straight BY <1>1, <1>3 DEF Straight, StaleName
  <2>5. CASE o # NotOpen
    <3>1. s.known
      BY <1>3, <2>1, <2>2, <2>5, NoUserIs DEF CopyGoes, FileGoes, Closes, Opens, OnFiles, Counted, OfNames
    <3>2. o.uid = u /\ Follows(s, o, f) BY <2>1, <2>4, <2>5, <3>1 DEF FilesFollow
    <3>3. o1.uid = u /\ Follows(s1, o1, f)' BY <1>3, <2>1, <2>2, <2>5, <3>2, FollowsOn
    <3>4. QED BY <2>1, <3>3 DEF Follows, Suppressed, Disposing
  <2>6. CASE o = NotOpen
    <3>1. r.cmd \in Opens /\ a.ok /\ f = a.fid /\ Opens2(r, a, o1) /\ ((\E x \in Uids : userData[x].files[f].known) => "reused" \in odd')
      BY <1>3, <2>1, <2>2, <2>6, NotOpenIs DEF FileGoes, Keeps
    <3>2. ~s.known BY <1>3, <2>1, <3>1 DEF Straight, Misleading
    <3>3. s = Unknown BY <2>3, <2>4, <3>2
    <3>4. PICK isdirectory \in BOOLEAN :
            Found(r.cmd, r.id) # 0 /\ u = r.uid
            /\ Copied(r, a, s1, s, isdirectory, temp[Found(r.cmd, r.id)].name)
      BY <1>3, <2>1, <2>2, <3>1, <3>2, NoUserIs DEF CopyGoes, Opens
    <3>5. Follows(s1, o1, f)' /\ o1.uid = r.uid BY <1>3, <3>1, <3>3, <3>4, OpenedFollows
    <3>6. QED BY <2>1, <3>4, <3>5 DEF Follows, Suppressed, Disposing
  <2>7. QED BY <2>5, <2>6
<1>4. QED BY <1>3 DEF FilesFollow

(* What is reported is of the kinds that are reported, and happened. *)
Right == events' \subseteq EventTypes /\ (Straight' => \A e \in events' : \E x \in facts' : Covers(x, e))

LEMMA EventIs ==
  ASSUME NEW op, NEW who, NEW path, NEW to, NEW size
  PROVE  /\ Event(op, who, path, to, size) = [op |-> op, user |-> who, path |-> path, to |-> to, size |-> size]
         /\ op \in {"login", "logout", "create", "mkdir", "remove", "rmdir", "read", "write", "rename"}
            /\ who \in Users /\ path \in Paths /\ to \in Paths /\ size \in Bytes =>
              Event(op, who, path, to, size) \in EventTypes
  BY DEF Event, EventTypes

LEMMA CoversIs ==
  ASSUME NEW op, NEW who, NEW path, NEW to, NEW size, NEW who1, NEW path1, NEW to1, NEW size1,
         who1 \in {who, NoName}, size1 <= size, path1[2] = path[2], path1[1] \in Trees \cup {path[1]},
         to1[2] = to[2], to1[1] \in Trees \cup {to[1]}
  PROVE  Covers(Event(op, who, path, to, size), Event(op, who1, path1, to1, size1))
  BY DEF Event, Covers

LEMMA HeardSetup ==
  ASSUME Types, Asked, OwnEntries, NEW r, NEW a, Replied(r, a), r.cmd = "setup", After(a)
  PROVE  Right
<1> DEFINE i == Found(r.cmd, r.id)
<1>1. /\ r \in asked /\ Asks(r) /\ odd \subseteq odd' /\ a.cmd = r.cmd /\ a.id = r.id /\ a.ok \in BOOLEAN
  BY DEF Replied, AnsweredTo, Good, Asked
<1>2. AfterSetup(a, i) /\ HSetup(r, a)
  BY <1>1 DEF After, Replied, HTcon, HOpen, HClose, HMove, HDispose, HName, HTdis, HLogoff, Opens, OfNames
<1>3. i = 0 \/ i \in 1..Len(temp) BY FoundFacts
<1>4. SUFFICES ASSUME a.ok, i # 0, temp[i].user # NoName, events' = {Told("login", temp[i].user, NoPath)}
               PROVE  Right
  BY <1>1, <1>2 DEF AfterSetup, Right
<1>5. Told("login", temp[i].user, NoPath) \in EventTypes BY <1>3, <1>4, TempIs, ToldIs DEF NoPath, Paths, Types
<1>6. ASSUME Straight'
      PROVE  facts' = {Told("login", temp[i].user, NoPath)}
  BY <1>1, <1>2, <1>4, <1>6, FoundTells DEF Straight, StaleName, ReadAgain, Misleading, Answered, HSetup, Tells
<1>7. QED BY <1>4, <1>5, <1>6, ToldIs DEF Right

LEMMA WhoIs ==
  ASSUME Types, Asked, UsersNamed, Straight, NEW r \in asked, r.cmd # "setup"
  PROVE  userData[r.uid].name \in {UserOf(r), NoName}
  BY DEF Types, UserStates, Asked, Asks, Straight, StaleName, Misleading, UsersNamed, UserOf

LEMMA HeardOpen ==
  ASSUME Types, Asked, Hosts, OwnEntries, UsersNamed, TreesNamed, NEW r, NEW a, Replied(r, a), r.cmd \in Opens, After(a)
  PROVE  Right
<1> DEFINE i == Found(r.cmd, r.id)
<1>1. /\ r \in asked /\ Asks(r) /\ odd \subseteq odd' /\ a.cmd = r.cmd /\ a.id = r.id /\ a.ok \in BOOLEAN
      /\ a.uid = r.uid /\ r.uid \in Uids
  BY DEF Replied, AnsweredTo, Good, Asked, Opens
<1>2. r.cmd \in OnTrees /\ r.cmd \in Answered /\ r.cmd # "setup" /\ r.cmd # "rename"
  BY DEF OnTrees, Answered, Opens
<1>3. HOpen(r, a) BY DEF Replied, HSetup, HTcon, HClose, HMove, HDispose, HName, HTdis, HLogoff, Opens, OfNames
<1>4. r.tid \in Trees /\ a.tid = r.tid BY <1>1, <1>2, <1>3 DEF HOpen, Asks, Trees
<1>5. i = 0 \/ (i \in 1..Len(temp) /\ i # 0) BY FoundFacts
<1>6. CASE i = 0 BY <1>1, <1>6 DEF After, Right, Opens
<1>7. CASE i # 0
  <2> DEFINE path == MakePath(r.uid, r.tid, temp[i].name)
  <2>1. AfterOpen(a, i) BY <1>1, <1>7 DEF After
  <2>2. SUFFICES ASSUME NEW isdirectory \in BOOLEAN, a.ok, a.cmd = "ntcreate", isdirectory = a.directory, a.action = "created",
                        events' = {Told(IF isdirectory THEN "mkdir" ELSE "create", userData[r.uid].name, path)}
                 PROVE  Right
    BY <1>1, <1>4, <2>1 DEF AfterOpen, Right
  <2>3. Told(IF isdirectory THEN "mkdir" ELSE "create", userData[r.uid].name, path) \in EventTypes
    BY <1>1, <1>4, <1>5, <1>7, TempIs, PathsIs, ToldIs DEF Types
  <2>4. ASSUME Straight'
        PROVE  \E x \in facts' : Covers(x, Told(IF isdirectory THEN "mkdir" ELSE "create", userData[r.uid].name, path))
    <3>1. Straight /\ ~ReadAgain /\ "negotiate" \notin odd /\ ~StaleName
      BY <1>1, <2>4 DEF Straight, StaleName, ReadAgain, Misleading
    <3>2. temp[i].name = r.name BY <1>1, <1>2, <1>7, <3>1, FoundTells DEF Tells
    <3>3. path[1] \in Trees \cup {PathOf(r, r.name)[1]} /\ path[2] = PathOf(r, r.name)[2]
      BY <1>1, <1>2, <3>1, <3>2, Resolves DEF PathOf
    <3>4. userData[r.uid].name \in {UserOf(r), NoName} BY <1>1, <1>2, <3>1, WhoIs
    <3>5. facts' = {Told(IF isdirectory THEN "mkdir" ELSE "create", UserOf(r), PathOf(r, r.name))}
      BY <1>3, <2>2 DEF HOpen
    <3>6. Covers(Told(IF isdirectory THEN "mkdir" ELSE "create", UserOf(r), PathOf(r, r.name)),
                 Told(IF isdirectory THEN "mkdir" ELSE "create", userData[r.uid].name, path))
      BY <3>3, <3>4, CoversIs DEF Told
    <3>7. QED BY <3>5, <3>6
  <2>5. QED BY <2>2, <2>3, <2>4 DEF Right
<1>8. QED BY <1>6, <1>7

LEMMA HeardName ==
  ASSUME Types, Asked, Hosts, OwnEntries, UsersNamed, TreesNamed, NEW r, NEW a, Replied(r, a), r.cmd \in OfNames, After(a)
  PROVE  Right
<1> DEFINE i == Found(r.cmd, r.id)
<1>1. /\ r \in asked /\ Asks(r) /\ odd \subseteq odd' /\ a.cmd = r.cmd /\ a.id = r.id /\ a.ok \in BOOLEAN
      /\ a.uid = r.uid /\ r.uid \in Uids
  BY DEF Replied, AnsweredTo, Good, Asked, OfNames
<1>2. r.cmd \in OnTrees /\ r.cmd \in Answered /\ r.cmd # "setup" BY DEF OnTrees, Answered, OfNames
<1>3. HName(r, a) BY DEF Replied, HSetup, HTcon, HOpen, HClose, HMove, HDispose, HTdis, HLogoff, Opens, OfNames
<1>4. r.tid \in Trees /\ a.tid = r.tid BY <1>1, <1>2, <1>3 DEF HName, Asks, Trees
<1>5. i = 0 \/ (i \in 1..Len(temp) /\ i # 0) BY FoundFacts
<1>6. CASE i = 0 BY <1>1, <1>6 DEF After, Right, OfNames
<1>7. CASE i # 0
  <2> DEFINE path == MakePath(r.uid, r.tid, temp[i].name)
             to == IF r.cmd = "rename" THEN MakePath(r.uid, r.tid, temp[i].to) ELSE NoPath
             e == Event(r.cmd, userData[r.uid].name, path, to, 0)
  <2>1. AfterName(a, i) BY <1>1, <1>7 DEF After
  <2>2. SUFFICES ASSUME a.ok, events' = {e}
                 PROVE  Right
    BY <1>1, <1>4, <2>1 DEF AfterName, Right
  <2>3. e \in EventTypes
    BY <1>1, <1>4, <1>5, <1>7, TempIs, PathsIs, ToldIs, EventIs DEF Types, NoPath, Paths, OfNames
  <2>4. ASSUME Straight'
        PROVE  \E x \in facts' : Covers(x, e)
    <3>1. Straight /\ ~ReadAgain /\ "negotiate" \notin odd /\ ~StaleName
      BY <1>1, <2>4 DEF Straight, StaleName, ReadAgain, Misleading
    <3>2. temp[i].name = r.name /\ temp[i].to = r.to BY <1>1, <1>2, <1>7, <3>1, FoundTells DEF Tells
    <3>3. \A name : MakePath(r.uid, r.tid, name)[1] \in Trees \cup {trees[r.tid][2]} /\ MakePath(r.uid, r.tid, name)[2] = name
      BY <1>1, <1>2, <3>1, Resolves
    <3>4. userData[r.uid].name \in {UserOf(r), NoName} BY <1>1, <1>2, <3>1, WhoIs
    <3> DEFINE to1 == IF r.cmd = "rename" THEN PathOf(r, r.to) ELSE NoPath
    <3>5. facts' = {Event(r.cmd, UserOf(r), PathOf(r, r.name), to1, 0)} BY <1>3, <2>2 DEF HName
    <3>6. path[1] \in Trees \cup {PathOf(r, r.name)[1]} /\ path[2] = PathOf(r, r.name)[2]
      BY <3>2, <3>3 DEF PathOf
    <3>7. to[1] \in Trees \cup {to1[1]} /\ to[2] = to1[2] BY <3>2, <3>3 DEF PathOf
    <3> HIDE DEF to, to1, path
    <3>8. Covers(Event(r.cmd, UserOf(r), PathOf(r, r.name), to1, 0), Event(r.cmd, userData[r.uid].name, path, to, 0))
      BY <3>4, <3>6, <3>7, CoversIs
    <3>9. QED BY <3>5, <3>8
  <2>5. QED BY <2>2, <2>3, <2>4 DEF Right
<1>8. QED BY <1>6, <1>7

LEMMA BytesAre ==
  ASSUME Types, Counts, NEW u \in Uids, NEW f \in Fids
  PROVE  /\ userData[u].files[f].readed \in Bytes /\ userData[u].files[f].written \in Bytes
         /\ userData[u].files[f].path \in Paths /\ userData[u].name \in Users
  BY FS_CardinalityType, Smb1Assumption DEF Types, UserStates, States, Counts, Bytes

LEMMA HeardClose ==
  ASSUME Types, Counts, Asked, Hosts, OwnEntries, UsersNamed, FilesFollow, NEW r, NEW a, Replied(r, a), r.cmd = "close", After(a)
  PROVE  Right
<1> DEFINE i == Found(r.cmd, r.id)
           f == temp[i].fid
           s == userData[r.uid].files[f]
           who == userData[r.uid].name
<1>1. /\ r \in asked /\ Asks(r) /\ odd \subseteq odd' /\ a.cmd = r.cmd /\ a.id = r.id /\ a.ok \in BOOLEAN
      /\ a.uid = r.uid /\ r.uid \in Uids
  BY DEF Replied, AnsweredTo, Good, Asked
<1>2. HClose(r, a) BY DEF Replied, HSetup, HTcon, HOpen, HMove, HDispose, HName, HTdis, HLogoff, Opens, OfNames
<1>3. i = 0 \/ (i \in 1..Len(temp) /\ i # 0 /\ temp[i].cmd = "close") BY FoundFacts DEF Newest
<1>4. CASE i = 0 BY <1>1, <1>4 DEF After, Right
<1>5. CASE i # 0
  <2>1. AfterClose(a, i) BY <1>1, <1>5 DEF After
  <2>2. SUFFICES ASSUME a.ok, s.known, ~Suppressed(s), events' = CloseEvents(s, who)
                 PROVE  Right
    <3>1. events' = {} \/ (a.ok /\ events' = CloseEvents(s, who)) BY <1>1, <2>1 DEF AfterClose
    <3>2. ~s.known \/ Suppressed(s) => CloseEvents(s, who) = {} BY DEF CloseEvents
    <3>3. events' = {} => Right BY DEF Right
    <3> HIDE DEF s, who
    <3>4. QED BY <2>2, <3>1, <3>2, <3>3
  <2>3. f \in Fids BY <1>3, <1>5, TempIs DEF Counted
  <2>4. s.readed \in Bytes /\ s.written \in Bytes /\ s.path \in Paths /\ who \in Users /\ NoPath \in Paths /\ 0 \in Bytes
    BY <1>1, <2>3, BytesAre, ToldIs DEF Types, NoPath, Paths
  <2>5. ASSUME NEW e \in events'
        PROVE  \/ e = Event("read", who, s.path, NoPath, s.readed) /\ s.readed # 0
               \/ e = Event("write", who, s.path, NoPath, s.written) /\ s.written # 0
               \/ e = Event("remove", who, s.path, NoPath, 0) /\ s.delete /\ ~s.isdirectory
    <3> HIDE DEF s, who
    <3> QED BY <2>2, <2>5 DEF CloseEvents, Told
  <2>6. events' \subseteq EventTypes
    <3> HIDE DEF s, who
    <3> QED BY <2>4, <2>5, EventIs
  <2>7. ASSUME Straight', NEW e \in events'
        PROVE  \E x \in facts' : Covers(x, e)
    <3>1. Straight /\ ~ReadAgain /\ "negotiate" \notin odd /\ ~StaleName /\ "evicted" \notin odd /\ "keptFile" \notin odd'
      BY <1>1, <2>7 DEF Straight, StaleName, ReadAgain, Misleading
    <3>2. f = r.fid BY <1>1, <1>5, <3>1, FoundTells DEF Tells, Answered, Counted
    <3> DEFINE o == files[f]
    <3>3. o.open BY <1>1, <3>1, <3>2 DEF Hosts
    <3>4. Follows(s, o, f) BY <1>1, <2>2, <2>3, <3>1, <3>3, NotOpenIs DEF FilesFollow
    <3>5. ~Disposing(f) BY <1>2, <2>2, <3>1, <3>2 DEF HClose, Disposing
    <3>6. facts' = {Event("read", UserOf(r), o.path, NoPath, n) : n \in {o.readed} \ {0}}
                   \cup {Event("write", UserOf(r), o.path, NoPath, n) : n \in {o.written} \ {0}}
                   \cup IF ~o.delete THEN {}
                        ELSE {Told(IF o.directory THEN "rmdir" ELSE "remove", UserOf(r), o.path)}
      <4>1. o.path[1] # IPC BY <2>2, <3>4 DEF Follows
      <4>2. QED BY <1>2, <2>2, <3>2, <3>3, <4>1 DEF HClose
    <3>7. who \in {UserOf(r), NoName} BY <1>1, <3>1, WhoIs
    <3>8. /\ s.readed <= o.readed /\ s.written <= o.written /\ o.readed \in Nat /\ o.written \in Nat
          /\ s.readed \in Nat /\ s.written \in Nat
          /\ s.path[1] \in Trees \cup {o.path[1]} /\ s.path[2] = o.path[2]
          /\ o.directory => s.isdirectory
          /\ s.delete => o.delete
      BY <1>1, <2>3, <3>4, <3>5, FilesAre, CountsAre DEF Types, Follows
    <3> DEFINE w == UserOf(r)
    <3> HIDE DEF s, who, o, w
    <3>9. /\ s.readed # 0 => Event("read", w, o.path, NoPath, o.readed) \in facts'
          /\ s.written # 0 => Event("write", w, o.path, NoPath, o.written) \in facts'
          /\ s.delete /\ ~s.isdirectory => Event("remove", w, o.path, NoPath, 0) \in facts'
      BY <3>6, <3>8 DEF Told, w
    <3>10. \A op, n, m : m <= n => Covers(Event(op, w, o.path, NoPath, n), Event(op, who, s.path, NoPath, m))
      BY <3>7, <3>8, CoversIs DEF w
    <3>11. QED BY <2>5, <2>7, <3>8, <3>9, <3>10
  <2>8. QED BY <2>6, <2>7 DEF Right
<1>6. QED BY <1>4, <1>5

LEMMA RepliedHeard ==
  ASSUME Sound, NEW r, NEW a, Replied(r, a)
  PROVE  Heard'
<1>1. /\ r \in asked /\ Asks(r) /\ a.cmd = r.cmd /\ a.id = r.id /\ scenario' = scenario
  BY DEF Sound, Replied, AnsweredTo, Good, Asked
<1>2. CASE events' = {} BY <1>2 DEF Heard, NothingInvented
<1>3. CASE After(a) /\ r.cmd \in Opens \cup OfNames \cup {"setup", "close"}
  <2>1. Right BY <1>3, HeardSetup, HeardOpen, HeardName, HeardClose DEF Sound
  <2>2. EventTypes' = EventTypes BY <1>1 DEF EventTypes, Bytes, Paths
  <2>3. QED BY <2>1, <2>2 DEF Right, Heard, NothingInvented, Straight, Covers
<1>4. CASE After(a) /\ r.cmd \in {"tcon", "read", "write", "tdis", "dispose", "logoff"}
  BY <1>1, <1>2, <1>4 DEF After, AfterTcon, AfterCount
<1>5. QED BY <1>1, <1>2, <1>3, <1>4, SeenIs DEF Sound, Replied, Asks, Kinds, OnTrees, OnFiles, Counted

LEMMA RepliedSound ==
  ASSUME Sound, NEW r, NEW a, Replied(r, a)
  PROVE  Sound' /\ Heard'
  BY RepliedTypes, RepliedCounts, RepliedAsked, RepliedHosts, RepliedEntries, RepliedShares, RepliedUsers, RepliedTrees,
     RepliedFiles, RepliedHeard DEF Sound

(* The beginning. *)
Begins(u, t, name) ==
  /\ scenario \in Scenarios /\ temp = <<>> /\ treeCache = [i \in 1..scenario.requests |-> None]
  /\ users = IF scenario.start = "fresh" THEN [x \in Uids |-> None]
             ELSE [[x \in Uids |-> None] EXCEPT ![u] = name]
  /\ trees = IF scenario.start = "fresh" THEN [x \in Tids |-> <<None, None>>]
             ELSE [[x \in Tids |-> <<None, None>>] EXCEPT ![t] = <<u, scenario.share>>]
  /\ userData = IF scenario.start # "mounted" THEN [x \in Uids |-> NoUser]
                ELSE [[x \in Uids |-> NoUser] EXCEPT ![u] =
                        [NoUser EXCEPT !.known = TRUE, !.name = name, !.trees[t] = scenario.share]]
  /\ files = [f \in Fids |-> NotOpen] /\ asked = {} /\ requests = 0 /\ events = {} /\ facts = {}
  /\ odd = IF scenario.start = "joined" THEN {"joined"} ELSE {}

LEMMA InitIs ==
  ASSUME Init
  PROVE  \E u \in Uids, t \in Tids, name \in Users \ {NoName} : Begins(u, t, name)
<1> DEFINE u == CHOOSE x \in Uids : TRUE
           t == CHOOSE x \in Tids : TRUE
           name == CHOOSE x \in Users : x # NoName
<1>1. u \in Uids /\ t \in Tids /\ name \in Users \ {NoName} BY Smb1Assumption
<1>2. Begins(u, t, name) BY DEF Init, Begins
<1>3. QED BY <1>1, <1>2

LEMMA InitUsers ==
  ASSUME NEW u \in Uids, NEW t \in Tids, NEW name \in Users \ {NoName}, Begins(u, t, name)
  PROVE  /\ userData \in [Uids -> UserStates]
         /\ \A x \in Uids :
              \/ userData[x] = NoUser
              \/ /\ x = u /\ userData[x].known /\ userData[x].name = name /\ scenario.start = "mounted"
                 /\ \A y \in Trees : userData[x].trees[y] = IF y = t THEN scenario.share ELSE None
                 /\ \A f \in Fids : userData[x].files[f] = Unknown
<1>1. scenario.share \in Shares /\ t \in Trees BY Smb1Assumption DEF Begins, Trees
<1>2. CASE scenario.start # "mounted" BY <1>2, NoUserIs DEF Begins
<1>3. CASE scenario.start = "mounted"
  <2> DEFINE d == [NoUser EXCEPT !.known = TRUE, !.name = name, !.trees[t] = scenario.share]
  <2>1. /\ NoUser.trees \in [Trees -> Shares \cup {None}] /\ NoUser.files \in [Fids -> States]
        /\ NoUser = [known |-> FALSE, name |-> NoName, trees |-> NoUser.trees, files |-> NoUser.files]
    BY NoUserIs DEF NoUser, UserStates
  <2>2. PICK d0 \in UserStates : d0 = NoUser /\ d0.trees \in [Trees -> Shares \cup {None}] BY NoUserIs, <2>1
  <2> DEFINE d1 == [d0 EXCEPT !.known = TRUE, !.name = name, !.trees[t] = scenario.share]
  <2>3. [d0.trees EXCEPT ![t] = scenario.share] \in [Trees -> Shares \cup {None}] BY <1>1, <2>2
  <2>4. /\ d \in UserStates /\ d.known /\ d.name = name /\ d.files = NoUser.files
        /\ d.trees = [NoUser.trees EXCEPT ![t] = scenario.share]
    <3>1. d = d1 BY <2>2
    <3>2. d1.known = TRUE /\ d1.name = name /\ d1.files = d0.files BY <2>2 DEF UserStates
    <3>3. d1.trees = [d0.trees EXCEPT ![t] = scenario.share] BY <2>2 DEF UserStates
    <3>4. d1 \in UserStates BY <1>1, <2>2, <2>3 DEF UserStates
    <3> HIDE DEF d, d1
    <3>5. QED BY <2>2, <3>1, <3>2, <3>3, <3>4
  <2>5. \A y \in Trees : d.trees[y] = IF y = t THEN scenario.share ELSE None BY <1>1, <2>1, <2>4, NoUserIs
  <2>6. \A f \in Fids : d.files[f] = Unknown BY <2>4, NoUserIs
  <2>7. userData = [[x \in Uids |-> NoUser] EXCEPT ![u] = d] BY <1>3 DEF Begins
  <2> HIDE DEF d
  <2>8. \A x \in Uids : userData[x] = IF x = u THEN d ELSE NoUser BY <2>7
  <2>9. userData \in [Uids -> UserStates] BY <2>4, <2>7, NoUserIs
  <2>10. QED BY <1>3, <2>4, <2>5, <2>6, <2>8, <2>9
<1>4. QED BY <1>2, <1>3

LEMMA InitSound ==
  ASSUME Init
  PROVE  Sound /\ Heard
<1>1. PICK u \in Uids, t \in Tids, name \in Users \ {NoName} : Begins(u, t, name) BY InitIs
<1>2. /\ scenario \in Scenarios /\ scenario.requests \in Nat /\ scenario.share \in Shares
      /\ None \notin Uids /\ None \notin Users
  BY <1>1, Smb1Assumption DEF Begins
<1>3. \A x \in Tids : trees[x] = <<None, None>> \/ (x = t /\ trees[x] = <<u, scenario.share>> /\ scenario.start # "fresh")
  BY <1>1 DEF Begins
<1>4. /\ \A x \in Uids : users[x] = IF scenario.start # "fresh" /\ x = u THEN name ELSE None
      /\ users \in [Uids -> Users \cup {None}]
  BY <1>1 DEF Begins
<1>5. /\ \A x \in Uids : userData[x].known => x = u /\ userData[x].name = name /\ scenario.start = "mounted"
      /\ \A x \in Uids : userData[x].name \in {NoName, name} /\ (userData[x].name = name => x = u)
      /\ \A x \in Uids : ~userData[x].known => userData[x] = NoUser
      /\ \A x \in Uids, f \in Fids : userData[x].files[f] = Unknown
      /\ \A x \in Uids, y \in Trees : userData[x].trees[y] # None =>
           x = u /\ y = t /\ userData[x].trees[y] = scenario.share /\ scenario.start = "mounted"
  BY <1>1, InitUsers, NoUserIs
<1>6. Types
  <2>1. temp \in Seq(Entries) /\ Len(temp) = 0 BY <1>1 DEF Begins
  <2>2. treeCache \in [1..scenario.requests -> Shares \cup {None}] BY <1>1 DEF Begins
  <2>3. trees \in [Tids -> (Uids \cup {None}) \X (Shares \cup {None})] BY <1>1, <1>2 DEF Begins
  <2>4. files \in [Fids -> OpenFiles] BY <1>1, NotOpenIs DEF Begins
  <2>5. requests = 0 /\ userData \in [Uids -> UserStates] BY <1>1, InitUsers DEF Begins
  <2>6. QED BY <1>2, <1>4, <1>5, <2>1, <2>2, <2>3, <2>4, <2>5, Smb1Assumption DEF Types
<1>7. Counts BY <1>1, <1>5, FS_EmptySet DEF Counts, Begins, Unknown
<1>8. Asked BY <1>1 DEF Asked, Begins
<1>9. Hosts BY <1>1, <1>2, <1>3, <1>4 DEF Begins, Hosts
<1>10. OwnEntries BY <1>1 DEF OwnEntries, Begins
<1>11. OwnShares BY <1>1 DEF OwnShares, Begins
<1>12. asked = {} BY <1>1 DEF Begins
<1>13. UsersNamed BY <1>4, <1>5, <1>12, <1>2 DEF UsersNamed, Leaving
<1>14. TreesNamed BY <1>1, <1>5 DEF Trees, Begins, TreesNamed
<1>15. FilesFollow BY <1>5, NoUserIs DEF FilesFollow
<1>16. Heard BY <1>1 DEF Heard, NothingInvented, Begins
<1>17. QED BY <1>6, <1>7, <1>8, <1>9, <1>10, <1>11, <1>13, <1>14, <1>15, <1>16 DEF Sound

LEMMA StepSound ==
  ASSUME Sound, Next
  PROVE  Sound' /\ Heard'
  BY RespondIs, RepliedSound, RequestIs, SentSound DEF Sound, Next

LEMMA SameSound ==
  ASSUME UNCHANGED vars
  PROVE  (Sound => Sound') /\ (Heard => Heard')
<1>1. /\ temp' = temp /\ treeCache' = treeCache /\ userData' = userData /\ events' = events /\ scenario' = scenario
      /\ users' = users /\ trees' = trees /\ files' = files /\ asked' = asked /\ requests' = requests
      /\ facts' = facts /\ odd' = odd
  BY DEF vars, analyzer, hosts
<1>2. /\ Types' = Types /\ Counts' = Counts /\ Asked' = Asked /\ Hosts' = Hosts
  BY <1>1 DEF Types, Counts, Asked, Hosts, Asks, Together, Entries, Paths
<1>3. /\ OwnEntries' = OwnEntries /\ OwnShares' = OwnShares /\ UsersNamed' = UsersNamed /\ TreesNamed' = TreesNamed
  BY <1>1 DEF OwnEntries, OwnShares, UsersNamed, TreesNamed, Newest, Tells, ReadAgain, Mounts1, StaleName, Leaving
<1>4. FilesFollow' = FilesFollow BY <1>1 DEF FilesFollow, Follows, Straight, StaleName, Suppressed, Disposing
<1>5. Heard' = Heard BY <1>1 DEF Heard, EventTypes, Bytes, Paths, NothingInvented, StaleName, Covers
<1>6. QED BY <1>2, <1>3, <1>4, <1>5 DEF Sound

(* SMB1: whatever the hosts do and the capture misses, the dispatcher's *)
(* copy stays sound, and it reports nothing that did not happen unless one *)
(* of the things happened that mislead it. (on_smb_packet) *)
THEOREM Smb1Sound == Spec => [](Sound /\ Heard)
<1>1. Init => Sound /\ Heard BY InitSound
<1>2. Sound /\ Heard /\ [Next]_vars => (Sound /\ Heard)' BY StepSound, SameSound
<1>3. QED BY <1>1, <1>2, PTL DEF Spec

(* The types of the dispatcher's tables. *)
LEMMA SoundTypes ==
  ASSUME Sound, Heard
  PROVE  TypeOK /\ TreeNamed
<1>1. TypeOK
  <2>1. \A i \in DOMAIN temp : temp[i] \in Entries BY DEF Sound, Types
  <2>2. ASSUME NEW u \in Uids
        PROVE  LET d == userData[u]
               IN /\ d.known \in BOOLEAN /\ d.name \in Users /\ d.trees \in [Trees -> Shares \cup {None}]
                  /\ d.files \in [Fids -> [known : BOOLEAN, isipc : BOOLEAN, isdirectory : BOOLEAN,
                                           delete : BOOLEAN, path : Paths, readed : Bytes, written : Bytes]]
                  /\ ~d.known => d = NoUser
    <3> DEFINE S == [known : BOOLEAN, isipc : BOOLEAN, isdirectory : BOOLEAN,
                     delete : BOOLEAN, path : Paths, readed : Bytes, written : Bytes]
    <3>1. userData[u] \in UserStates /\ (~userData[u].known => userData[u] = NoUser) BY DEF Sound, Types
    <3>2. \A f \in Fids : userData[u].files[f] \in S BY <3>1, BytesAre DEF Sound, UserStates, States
    <3> HIDE DEF S
    <3>3. userData[u].files \in [Fids -> S] BY <3>1, <3>2 DEF UserStates
    <3>4. QED BY <3>1, <3>3 DEF UserStates, S
  <2>3. QED BY <2>1, <2>2 DEF TypeOK, Sound, Types, Entries, Heard, EventTypes
<1>2. TreeNamed BY DEF TreeNamed, Sound, Types, StaleName, TreesNamed, ReadAgain
<1>3. QED BY <1>1, <1>2

(* Until something unusual happens. *)
Odds == {"lost", "shared", "logoff", "negotiate", "undelete", "directory", "deleteOpen", "many", "failed", "old",
         "short", "renamed", "reused", "pipe", "keptFile", "evicted", "joined"}
LEMMA UsualIs ==
  ASSUME Usual', odd \subseteq odd'
  PROVE  Usual /\ Straight /\ ~ReadAgain /\ ~StaleName /\ odd' \cap Odds = {} /\ odd \cap Odds = {}
  BY DEF Usual, Straight, ReadAgain, StaleName, Misleading, Odds

(* A request that is seen, other than a log off, takes no user, tree or *)
(* file away. *)
LEMMA MarkedIs ==
  ASSUME Types, NEW r, NEW told, NEW kinds, Asking(r, told, kinds), SeenOther(r), NEW u \in Uids
  PROVE  /\ userData'[u].known = userData[u].known /\ userData'[u].name = userData[u].name
         /\ userData'[u].trees = userData[u].trees
         /\ \A f \in Fids :
              LET s == userData[u].files[f]
                  s1 == userData'[u].files[f]
              IN /\ s1.known = s.known /\ s1.path = s.path /\ s1.isipc = s.isipc /\ s1.isdirectory = s.isdirectory
                 /\ s1.readed = s.readed /\ s1.written = s.written
                 /\ s1.delete = (s.delete \/ (Marks(r, u, f) /\ s.known))
<1>1. CASE ~(r.cmd = "dispose" /\ r.on /\ FileState(r.uid, r.fid).known)
  BY <1>1, CountsAre DEF SeenOther, Marked, Marks, FileState, Types, States
<1>2. CASE r.cmd = "dispose" /\ r.on /\ FileState(r.uid, r.fid).known
  <2>1. r.uid \in Uids /\ r.fid \in Fids BY <1>2 DEF Asking, LoggedIn, OnFiles
  <2>2. PICK d \in UserStates, s \in States : d = userData[r.uid] /\ s = d.files[r.fid] /\ s.known
    BY <1>2, <2>1, CountsAre DEF Types, FileState
  <2>3. PICK s1 \in States : s1 = [s EXCEPT !.delete = TRUE] /\ s1.known = s.known /\ s1.path = s.path /\ s1.isipc = s.isipc
             /\ s1.isdirectory = s.isdirectory /\ s1.readed = s.readed /\ s1.written = s.written /\ s1.delete
    <3>1. [s EXCEPT !.delete = TRUE] \in States BY DEF States
    <3>2. QED BY <3>1 DEF States
  <2>4. userData' = [userData EXCEPT ![r.uid].files[r.fid].delete = TRUE] BY <1>2 DEF SeenOther, Marked
  <2>5. userData' = [userData EXCEPT ![r.uid].files[r.fid] = s1] BY <2>2, <2>3, <2>4
  <2>6. userData[r.uid].known BY <2>1, <2>2, NoUserIs DEF Types
  <2>7. Puts(r.uid, r.fid, s1) BY <2>1, <2>2, <2>3, <2>5, <2>6, TouchedPuts
  <2>8. ASSUME NEW f \in Fids, ~(u = r.uid /\ f = r.fid)
        PROVE  userData'[u].files[f] = userData[u].files[f] /\ userData[u].files[f].delete \in BOOLEAN /\ ~Marks(r, u, f)
    BY <2>7, <2>8, CountsAre DEF Puts, Types, States, Marks
  <2>9. CASE u = r.uid
    <3>1. Marks(r, u, r.fid) /\ userData'[u].files[r.fid] = s1 /\ userData[u].files[r.fid] = s
      BY <1>2, <2>2, <2>7, <2>9 DEF Marks, Puts
    <3>2. /\ userData'[u].known = userData[u].known /\ userData'[u].name = userData[u].name
          /\ userData'[u].trees = userData[u].trees
      BY <2>7 DEF Puts
    <3>3. ASSUME NEW f \in Fids
          PROVE  LET t == userData[u].files[f]
                     t1 == userData'[u].files[f]
                 IN /\ t1.known = t.known /\ t1.path = t.path /\ t1.isipc = t.isipc /\ t1.isdirectory = t.isdirectory
                    /\ t1.readed = t.readed /\ t1.written = t.written
                    /\ t1.delete = (t.delete \/ (Marks(r, u, f) /\ t.known))
      <4>1. CASE f = r.fid BY <2>2, <2>3, <3>1, <4>1 DEF States
      <4>2. CASE f # r.fid BY <2>8, <2>9, <4>2
      <4>3. QED BY <4>1, <4>2
    <3>4. QED BY <3>2, <3>3
  <2>10. CASE u # r.uid BY <2>7, <2>8, <2>10 DEF Puts
  <2>11. QED BY <2>9, <2>10
<1>3. QED BY <1>1, <1>2

LEMMA SentRemembered ==
  ASSUME Sound, Kept, Usual', NEW r, NEW told, NEW kinds, Asking(r, told, kinds), Send(r, told, kinds)
  PROVE  AllRemembered'
<1>1. /\ asked' = asked \cup {r} /\ odd \subseteq odd' /\ kinds \subseteq odd'
      /\ SeenOther(r) \/ (r.cmd = "logoff" /\ LogoffRequest(r)) \/ Unseen
  BY SentIs DEF Sound
<1>2. odd' \cap Odds = {} BY <1>1, UsualIs
<1>3. CASE r.cmd = "logoff"
  BY <1>1, <1>2, <1>3 DEF Asking, Odds, Leaves, OnTrees, Opens, OfNames, Counted, AllRemembered
<1>4. CASE SeenOther(r)
  <2>1. ASSUME Leaves(r), ~Remembered(r)
        PROVE  FALSE
    BY <2>1, RememberedIs DEF Sound, Asking, OnFiles, Counted, LoggedIn, Kept, FilesCopied, Copies
  <2>2. CASE ~Remembered(r) BY <1>1, <1>4, <2>1, <2>2 DEF SeenOther, AllRemembered, Kept
  <2>3. CASE Remembered(r)
    <3>1. Entry(r) \in Entries /\ Entry(r).cmd = r.cmd /\ Entry(r).id = r.id BY EntryIs, SentIs DEF Sound
    <3>2. temp' = Pushed(Entry(r)) BY <1>4, <2>3 DEF SeenOther
    <3>3. /\ 1 \in 1..Len(temp') /\ temp'[1] = Entry(r)
          /\ \A i \in 1..Len(temp) :
                i \in Nat /\ (~(i = TempLimit /\ Len(temp) = TempLimit) =>
                               i + 1 \in 1..Len(temp') /\ temp'[i + 1] = temp[i])
      BY <3>1, <3>2, PushedEntries DEF Sound
    <3>4. ASSUME NEW q \in asked, Leaves(q)
          PROVE  \E i \in 1..Len(temp') : temp'[i].cmd = q.cmd /\ temp'[i].id = q.id
      BY <1>2, <1>4, <2>3, <3>3, <3>4 DEF Kept, AllRemembered, SeenOther, Odds
    <3>5. QED BY <1>1, <3>1, <3>3, <3>4 DEF AllRemembered
  <2>4. QED BY <2>2, <2>3
<1>5. QED BY <1>1, <1>2, <1>3, <1>4 DEF Unseen, Odds

(* A user who stays logged in stays known. *)
LEMMA StaysKnown ==
  ASSUME Sound, Kept, NEW r, r.cmd = "logoff", r.uid \in Uids, LogoffRequest(r)
  PROVE  \A u \in Uids : u # r.uid => userData'[u] = userData[u] \/ (~userData[u].known /\ userData'[u] = NoUser)
  BY LogoffIs DEF Sound

LEMMA SentKnown ==
  ASSUME Sound, Kept, Usual', NEW r, NEW told, NEW kinds, Asking(r, told, kinds), Send(r, told, kinds)
  PROVE  UsersKnown' /\ TreesKnown'
<1>1. /\ asked' = asked \cup {r} /\ odd \subseteq odd' /\ kinds \subseteq odd' /\ users' = users /\ trees' = trees
      /\ SeenOther(r) \/ (r.cmd = "logoff" /\ LogoffRequest(r)) \/ Unseen
  BY SentIs DEF Sound
<1>2. odd' \cap Odds = {} BY <1>1, UsualIs
<1>3. \A u \in Uids : ~Leaving(u)' => ~Leaving(u) /\ ~(r.cmd = "logoff" /\ r.uid = u) BY <1>1 DEF Leaving
<1>4. \A t \in Tids : trees[t][1] # None => trees[t][1] \in Uids /\ users[trees[t][1]] # None
  BY Smb1Assumption DEF Sound, Hosts
<1>5. ASSUME NEW u \in Uids, users[u] # None, ~Leaving(u)'
      PROVE  userData'[u].known = userData[u].known /\ userData'[u].name = userData[u].name /\ userData'[u].trees = userData[u].trees
  BY <1>1, <1>2, <1>3, <1>5, MarkedIs, StaysKnown DEF Sound, Asking, LoggedIn, Kept, UsersKnown, Unseen, Odds
<1>6. UsersKnown' BY <1>1, <1>3, <1>5 DEF Kept, UsersKnown
<1>7. TreesKnown' BY <1>1, <1>3, <1>4, <1>5 DEF Kept, TreesKnown, Leaving
<1>8. QED BY <1>6, <1>7

LEMMA SentCopied ==
  ASSUME Sound, Kept, Usual', NEW r, NEW told, NEW kinds, Asking(r, told, kinds), Send(r, told, kinds)
  PROVE  FilesCopied'
<1>1. /\ asked' = asked \cup {r} /\ odd \subseteq odd' /\ kinds \subseteq odd' /\ files' = files
      /\ SeenOther(r) \/ (r.cmd = "logoff" /\ LogoffRequest(r)) \/ Unseen
  BY SentIs DEF Sound
<1>2. odd' \cap Odds = {} BY <1>1, UsualIs
<1>3. files \in [Fids -> OpenFiles] /\ \A f \in Fids : files[f].open => files[f].uid \in Uids
  BY NotOpenIs DEF Sound, Types, Hosts
<1>4. ASSUME NEW f \in Fids, files[f].open
      PROVE  ~Leaving(files[f].uid)'
  BY <1>1, <1>2, <1>4 DEF Kept, FilesCopied, Asking, Odds, Leaving
<1>5. ASSUME NEW f \in Fids, NEW u \in Uids
      PROVE  Copies(userData[u].files[f], files[f], u, f)'
  <2>1. Copies(userData[u].files[f], files[f], u, f) BY DEF Kept, FilesCopied
  <2>2. CASE SeenOther(r)
    <3>0. PICK s, s1 : s = userData[u].files[f] /\ s1 = userData'[u].files[f] OBVIOUS
    <3>1. /\ s1.known = s.known /\ s1.path = s.path /\ s1.isipc = s.isipc /\ s1.isdirectory = s.isdirectory
          /\ s1.readed = s.readed /\ s1.written = s.written
          /\ s1.delete = (s.delete \/ (Marks(r, u, f) /\ s.known))
      BY <2>2, <3>0, MarkedIs DEF Sound
    <3>2. s.known => Disposing(f)' = (Disposing(f) \/ Marks(r, u, f))
      BY <1>1, <2>1, <3>0 DEF Copies, Asking, OnFiles, Disposing, Marks
    <3>3. (Disposing(f) \/ Marks(r, u, f)) \in BOOLEAN OBVIOUS
    <3>4. Copies(s, files[f], u, f) BY <2>1, <3>0
    <3>5. Copies(s1, files[f], u, f)' BY <1>1, <3>1, <3>2, <3>3, <3>4 DEF Copies
    <3>6. QED BY <3>0, <3>5 DEF Copies
  <2>3. CASE r.cmd = "logoff" /\ LogoffRequest(r)
    <3>1. r.uid \in Uids /\ files[f].uid # r.uid BY <1>1, <1>2, <2>3 DEF Asking, LoggedIn, Odds
    <3>2. Disposing(f)' = Disposing(f) BY <1>1, <2>3 DEF Disposing
    <3>3. CASE userData'[u] = userData[u] BY <1>1, <2>1, <3>2, <3>3 DEF Copies
    <3>4. CASE userData'[u] = NoUser /\ (u = r.uid \/ ~userData[u].known)
      BY <1>1, <2>1, <3>1, <3>4, NoUserIs DEF Sound, Types, Copies
    <3>5. QED BY <2>3, <3>1, <3>3, <3>4, LogoffIs DEF Sound
  <2>4. QED BY <1>1, <1>2, <2>2, <2>3 DEF Unseen, Odds
<1>6. QED BY <1>1, <1>4, <1>5 DEF Kept, FilesCopied, Leaving

LEMMA SentPlainly ==
  ASSUME Sound, Kept, Usual', NEW r, NEW told, NEW kinds, Asking(r, told, kinds), Send(r, told, kinds)
  PROVE  AskedPlainly'
  BY SentIs, UsualIs DEF Sound, Asking, Odds, OnFiles, Kept, AskedPlainly

LEMMA SentExact ==
  ASSUME Sound, Kept, Usual', NEW r, NEW told, NEW kinds, Asking(r, told, kinds), Send(r, told, kinds)
  PROVE  events' = facts'
<1>1. /\ odd \subseteq odd' /\ facts' = told
      /\ SeenOther(r) \/ (r.cmd = "logoff" /\ LogoffRequest(r)) \/ Unseen
  BY SentIs DEF Sound
<1>2. odd' \cap Odds = {} BY <1>1, UsualIs
<1>3. CASE SeenOther(r) BY <1>1, <1>3 DEF SeenOther, Asking
<1>4. CASE r.cmd = "logoff" /\ LogoffRequest(r)
  <2>1. r.uid \in LoggedIn /\ told = IF users[r.uid] = NoName THEN {} ELSE {Told("logout", users[r.uid], NoPath)}
    BY <1>4 DEF Asking
  <2>2. userData[r.uid].name = users[r.uid] /\ r.uid \in Uids BY <2>1 DEF LoggedIn, Kept, UsersKnown, Leaving
  <2>3. QED BY <1>1, <1>4, <2>1, <2>2, LogoffIs DEF Sound
<1>5. QED BY <1>1, <1>2, <1>3, <1>4 DEF Unseen, Odds

LEMMA SentKept ==
  ASSUME Sound, KeptInv, NEW r, NEW told, NEW kinds, Asking(r, told, kinds), Send(r, told, kinds)
  PROVE  KeptInv'
  BY SentIs, UsualIs, SentRemembered, SentKnown, SentCopied, SentPlainly, SentExact DEF Sound, KeptInv, Kept

LEMMA UsualReply ==
  ASSUME Sound, Kept, Usual', NEW r, NEW a, Replied(r, a)
  PROVE  /\ After(a) /\ ListAfter(a) /\ odd' \cap Odds = {} /\ odd \cap Odds = {}
         /\ Leaves(r) => /\ Found(r.cmd, r.id) \in 1..Len(temp) /\ Found(r.cmd, r.id) # 0
                         /\ Tells(temp[Found(r.cmd, r.id)], r)
         /\ r.cmd = "setup" /\ r.form = "negotiate" => Found(r.cmd, r.id) = 0
         /\ r.cmd \notin {"setup", "logoff"} =>
              /\ r.uid \in Uids /\ a.uid = r.uid /\ ~Leaving(r.uid)
              /\ userData[r.uid].known /\ userData[r.uid].name = UserOf(r)
         /\ r.cmd \in OnTrees =>
              /\ r.tid \in Tids /\ trees[r.tid][1] = r.uid /\ trees[r.tid][2] \in Shares
              /\ IsIpc(r.uid, r.tid) = (trees[r.tid][2] = IPC)
              /\ \A n : MakePath(r.uid, r.tid, n) = PathOf(r, n)
<1>1. /\ r \in asked /\ Asks(r) /\ odd \subseteq odd' /\ a.cmd = r.cmd /\ a.id = r.id /\ (r.cmd # "setup" => a.uid = r.uid)
      /\ AnsweredTo(r, a) /\ \A q \in asked : Together(r, q)
  BY DEF Sound, Replied, AnsweredTo, Asked
<1>2. /\ ~ReadAgain /\ odd' \cap Odds = {} /\ odd \cap Odds = {} /\ "lost" \notin odd' /\ "negotiate" \notin odd
      /\ "shared" \notin odd
  BY <1>1, UsualIs DEF Odds
<1>3. After(a) /\ ListAfter(a) BY <1>1, <1>2, SeenIs DEF Sound
<1>4. ASSUME Found(r.cmd, r.id) # 0, r.cmd \in Answered
      PROVE  Found(r.cmd, r.id) \in 1..Len(temp) /\ Tells(temp[Found(r.cmd, r.id)], r)
  BY <1>1, <1>2, <1>4, FoundTells DEF Sound
<1>5. ASSUME Leaves(r)
      PROVE  Found(r.cmd, r.id) # 0 /\ r.cmd \in Answered
  BY <1>1, <1>5, FoundFacts DEF Kept, AllRemembered, Sound, Leaves, Answered
<1>6. r.cmd = "setup" /\ r.form = "negotiate" => Found(r.cmd, r.id) = 0 BY <1>4 DEF Tells, Answered
<1>7. ASSUME r.cmd \notin {"setup", "logoff"}
      PROVE  /\ r.uid \in Uids /\ ~Leaving(r.uid) /\ userData[r.uid].known /\ userData[r.uid].name = UserOf(r)
  BY <1>1, <1>7 DEF Asks, Leaving, Together, Kept, UsersKnown, UserOf
<1>8. ASSUME r.cmd \in OnTrees
      PROVE  /\ r.tid \in Tids /\ trees[r.tid][1] = r.uid /\ trees[r.tid][2] \in Shares
             /\ IsIpc(r.uid, r.tid) = (trees[r.tid][2] = IPC)
             /\ \A n : MakePath(r.uid, r.tid, n) = PathOf(r, n)
  <2>1. r.tid \in Tids /\ trees[r.tid][1] = r.uid /\ r.uid # None
    BY <1>1, <1>2, <1>7, <1>8, Smb1Assumption DEF Sound, Hosts, Asks, OnTrees, Opens, OfNames
  <2>2. trees[r.tid][2] \in Shares /\ None \notin Shares BY <2>1, Smb1Assumption DEF Sound, Hosts
  <2>3. userData[r.uid].trees[r.tid] = trees[r.tid][2]
    BY <1>7, <1>8, <2>1 DEF Kept, TreesKnown, OnTrees, Opens, OfNames
  <2>4. QED BY <2>1, <2>2, <2>3 DEF IsIpc, MakePath, PathOf
<1>9. QED BY <1>1, <1>2, <1>3, <1>4, <1>5, <1>6, <1>7, <1>8

LEMMA RepliedRemembered ==
  ASSUME Sound, Kept, Usual', NEW r, NEW a, Replied(r, a)
  PROVE  AllRemembered'
<1>1. /\ r \in asked /\ asked' = asked \ {r} /\ a.cmd = r.cmd /\ a.id = r.id
      /\ \A q \in asked : Together(r, q)
  BY DEF Sound, Replied, AnsweredTo, Asked
<1>2. ListAfter(a) BY UsualReply
<1>3. SUFFICES ASSUME NEW q \in asked, q # r, Leaves(q)
               PROVE  \E i \in 1..Len(temp') : temp'[i].cmd = q.cmd /\ temp'[i].id = q.id
  BY <1>1 DEF AllRemembered
<1>4. PICK i \in 1..Len(temp) : temp[i].cmd = q.cmd /\ temp[i].id = q.id BY <1>3 DEF Kept, AllRemembered
<1>5. q.id # r.id BY <1>1, <1>3 DEF Together
<1>6. CASE temp' = temp BY <1>4, <1>6
<1>7. ASSUME NEW j \in 1..Len(temp), Newest(j, a.cmd, a.id), temp' = Done(j)
      PROVE  \E k \in 1..Len(temp') : temp'[k].cmd = q.cmd /\ temp'[k].id = q.id
  BY <1>1, <1>4, <1>5, <1>7, DoneIs DEF Sound, Newest
<1>8. QED BY <1>2, <1>6, <1>7 DEF ListAfter

(* The tree that the server gives to a user, the dispatcher gives too. *)
LEMMA TreeGained ==
  ASSUME Types, Asked, Hosts, OwnShares, NEW r, NEW a, Replied(r, a), odd' \cap {"lost", "logoff"} = {}, NEW t \in Tids,
         Mounts1(r), t = a.tid, trees'[t] = <<a.uid, r.share>>, trees[t][1] = None
  PROVE  userData'[a.uid].trees[t] = r.share
<1>1. /\ r \in asked /\ Asks(r) /\ odd \subseteq odd' /\ a.uid \in Uids /\ trees' # trees
  BY Smb1Assumption DEF Replied, AnsweredTo, Good, Asked
<1>2. After(a) BY SeenIs DEF Replied
<1>3. t \in Trees /\ a.cmd = r.cmd /\ a.id = r.id BY DEF Trees, Replied, AnsweredTo
<1>4. r.share # None BY <1>1, Smb1Assumption DEF Mounts1, Asks
<1>5. treeCache[r.id] = r.share BY <1>1 DEF OwnShares
<1>6. CASE r.cmd = "setup"
  <2>1. HSetup(r, a)
    BY <1>6 DEF Replied, HTcon, HOpen, HClose, HMove, HDispose, HName, HTdis, HLogoff, Opens, OfNames
  <2>2. a.ok /\ a.andx BY <2>1, <1>1, <1>4 DEF HSetup
  <2>3. Joins(a, Found(a.cmd, a.id)) BY <1>2, <1>3, <1>6, <2>2 DEF After, AfterSetup
  <2>4. QED BY <1>3, <1>4, <1>5, <2>2, <2>3 DEF Joins
<1>7. CASE r.cmd = "tcon" BY <1>2, <1>3, <1>4, <1>5, <1>7 DEF After, AfterTcon
<1>8. QED BY <1>6, <1>7 DEF Mounts1

LEMMA RepliedKnownTrees ==
  ASSUME Sound, Kept, Usual', NEW r, NEW a, Replied(r, a)
  PROVE  TreesKnown'
<1>1. /\ r \in asked /\ Asks(r) /\ asked' = asked \ {r} /\ a.cmd = r.cmd /\ a.id = r.id /\ a.uid \in Uids
  BY DEF Sound, Replied, AnsweredTo, Good, Asked
<1>2. odd' \cap {"lost", "logoff"} = {} BY UsualReply DEF Odds
<1>3. None \notin Uids /\ trees \in [Tids -> (Uids \cup {None}) \X (Shares \cup {None})]
  BY Smb1Assumption DEF Sound, Types
<1>4. ASSUME NEW t \in Tids, NEW u, u = trees'[t][1], u # None, ~Leaving(u)'
      PROVE  userData'[u].trees[t] = trees'[t][2]
  <2>1. CASE trees'[t] = trees[t]
    <3>1. u = trees[t][1] /\ u \in Uids BY <1>3, <1>4, <2>1
    <3>2. ~Gains(r, a, u, t) BY <1>4, <3>1 DEF Gains
    <3>3. userData'[u].trees[t] = userData[u].trees[t] BY <3>1, <3>2, TreesGo DEF Sound
    <3>4. ~Leaving(u)
      <4>1. SUFFICES ASSUME Leaving(u)
                     PROVE  FALSE
        OBVIOUS
      <4>2. r.cmd = "logoff" /\ r.uid = u BY <1>1, <1>4, <4>1 DEF Leaving
      <4>3. HLogoff(r, a)
        BY <4>2 DEF Replied, HSetup, HTcon, HOpen, HClose, HMove, HDispose, HName, HTdis, Opens, OfNames
      <4>4. trees'[t] = <<None, None>> BY <4>2, <4>3, <3>1 DEF HLogoff
      <4>5. QED BY <1>4, <4>4
    <3>5. QED BY <1>4, <2>1, <3>1, <3>3, <3>4 DEF Kept, TreesKnown
  <2>2. CASE Mounts1(r) /\ t = a.tid /\ trees'[t] = <<a.uid, r.share>> /\ trees[t][1] = None
    BY <1>2, <1>4, <2>2, TreeGained DEF Sound
  <2>3. CASE trees'[t] = <<None, None>> BY <1>4, <2>3
  <2>4. QED BY <2>1, <2>2, <2>3, ServerTrees DEF Sound
<1>5. QED BY <1>4 DEF TreesKnown, Leaving

LEMMA KnownStays ==
  ASSUME Sound, Kept, Usual', NEW r, NEW a, Replied(r, a), r.cmd # "setup", NEW u \in Uids, userData[u].known
  PROVE  userData'[u].known /\ userData'[u].name = userData[u].name
<1> DEFINE i == Found(r.cmd, r.id)
<1>1. /\ r \in asked /\ Asks(r) /\ a.cmd = r.cmd /\ a.id = r.id /\ a.uid \in Uids /\ After(a)
  BY UsualReply DEF Sound, Replied, AnsweredTo, Good, Asked
<1>2. CASE r.cmd = "tcon" BY <1>1, <1>2 DEF After, AfterTcon
<1>3. CASE r.cmd \in Opens /\ i # 0 BY <1>1, <1>3 DEF After, AfterOpen, Puts
<1>4. CASE r.cmd = "close" /\ i # 0 BY <1>1, <1>4 DEF After, AfterClose, Puts
<1>5. CASE r.cmd \in {"read", "write"} /\ i # 0 BY <1>1, <1>5 DEF After, AfterCount, Puts
<1>6. CASE r.cmd \in OfNames /\ i # 0 BY <1>1, <1>6 DEF After, AfterName
<1>7. CASE r.cmd \in {"tdis", "dispose", "logoff"} \/ (r.cmd # "tcon" /\ i = 0) BY <1>1, <1>7 DEF After
<1>8. QED BY <1>1, <1>2, <1>3, <1>4, <1>5, <1>6, <1>7 DEF Asks, Kinds, OnTrees, OnFiles, Counted

LEMMA RepliedKnownUsers ==
  ASSUME Sound, Kept, Usual', NEW r, NEW a, Replied(r, a)
  PROVE  UsersKnown'
<1> DEFINE i == Found(r.cmd, r.id)
<1>1. /\ r \in asked /\ Asks(r) /\ asked' = asked \ {r} /\ a.cmd = r.cmd /\ a.id = r.id /\ a.uid \in Uids /\ a.ok \in BOOLEAN
  BY DEF Sound, Replied, AnsweredTo, Good, Asked
<1>2. users \in [Uids -> Users \cup {None}] BY DEF Sound, Types
<1>3. SUFFICES ASSUME NEW u \in Uids, users'[u] # None, ~Leaving(u)'
               PROVE  userData'[u].known /\ userData'[u].name = users'[u]
  BY DEF UsersKnown
<1>4. r.cmd # "logoff" => ~Leaving(u) BY <1>1, <1>3 DEF Leaving
<1>5. CASE HSetup(r, a)
  BY <1>1, <1>2, <1>3, <1>4, <1>5, UsualReply DEF After, HSetup, Leaves, AfterSetup, Joins, Tells, Kept,
    UsersKnown
<1>6. CASE HLogoff(r, a) BY <1>1, <1>2, <1>3, <1>6, KnownStays DEF HLogoff, Leaving, Kept, UsersKnown
<1>7. CASE users' = users /\ r.cmd \notin {"setup", "logoff"}
  BY <1>3, <1>4, <1>7, KnownStays DEF Kept, UsersKnown
<1>8. QED BY <1>5, <1>6, <1>7 DEF Replied, HTcon, HOpen, HClose, HMove, HDispose, HName, HTdis, Opens, OfNames

(* No file is closed under a request that still uses it. *)
LEMMA NotClosed ==
  ASSUME Sound, Kept, Usual', NEW r, NEW a, Replied(r, a), NEW f \in Fids, files[f].open
  PROVE  /\ r.cmd # "close" \/ ~a.ok \/ f # r.fid => files'[f].open /\ files'[f].directory = files[f].directory
         /\ r.cmd = "logoff" => ~Closes(r, a, f)
<1>1. odd' \cap Odds = {} /\ r \in asked BY UsualReply DEF Replied, AnsweredTo
<1>2. r.cmd = "logoff" => ~Closes(r, a, f)
  <2>1. SUFFICES ASSUME r.cmd = "logoff"
                 PROVE  ~Closes(r, a, f)
    OBVIOUS
  <2>2. HLogoff(r, a)
    BY <2>1 DEF Replied, HSetup, HTcon, HOpen, HClose, HMove, HDispose, HName, HTdis, Opens, OfNames
  <2>3. files[f].uid # r.uid BY <1>1, <2>1 DEF Kept, FilesCopied, Leaving
  <2>4. trees[files[f].tid][1] # r.uid BY <1>1, <2>2, <2>3 DEF HLogoff, Odds
  <2>5. QED BY <2>1, <2>3, <2>4 DEF Closes
<1>3. files[f] # NotOpen BY NotOpenIs
<1>4. QED BY <1>1, <1>2, <1>3, FilesGo DEF FileGoes, Closes, Keeps, Moves, Sound, Odds

LEMMA RepliedPlainly ==
  ASSUME Sound, Kept, Usual', NEW r, NEW a, Replied(r, a)
  PROVE  AskedPlainly'
<1>1. /\ r \in asked /\ Asks(r) /\ asked' = asked \ {r} /\ odd' \cap Odds = {} /\ odd \cap Odds = {}
      /\ \A q \in asked : Together(r, q) /\ Together(q, r) /\ Asks(q)
  BY UsualReply DEF Sound, Replied, AnsweredTo, Asked
<1>2. SUFFICES ASSUME NEW q \in asked, q # r
               PROVE  /\ q.cmd \in Opens => ~q.delete
                      /\ q.cmd \in OfNames => trees'[q.tid][2] # IPC
                      /\ q.cmd = "dispose" => q.on /\ files'[q.fid].open /\ ~files'[q.fid].directory
  BY <1>1 DEF AskedPlainly
<1>3. q.cmd \in Opens => ~q.delete BY DEF Kept, AskedPlainly
<1>4. ASSUME q.cmd \in OfNames
      PROVE  trees'[q.tid][2] # IPC
  <2>1. /\ q.tid \in Tids /\ trees[q.tid][2] # IPC /\ trees[q.tid][1] = q.uid /\ q.uid \in Uids
    BY <1>1, <1>4 DEF Kept, AskedPlainly, Asks, Sound, Hosts, OnTrees, Opens, OfNames, Odds
  <2>2. QED BY <2>1, ServerTrees, Smb1Assumption DEF Sound
<1>5. ASSUME q.cmd = "dispose"
      PROVE  q.on /\ files'[q.fid].open /\ ~files'[q.fid].directory
  <2>1. q.on /\ files[q.fid].open /\ ~files[q.fid].directory /\ q.fid \in Fids
    BY <1>1, <1>5 DEF Kept, AskedPlainly, Asks, OnFiles
  <2>2. ~(r.cmd = "close" /\ a.ok /\ q.fid = r.fid)
    <3>1. SUFFICES ASSUME r.cmd = "close", a.ok, q.fid = r.fid
                   PROVE  FALSE
      OBVIOUS
    <3>2. HClose(r, a)
      BY <3>1 DEF Replied, HSetup, HTcon, HOpen, HMove, HDispose, HName, HTdis, HLogoff, Opens, OfNames
    <3>3. QED BY <1>1, <1>5, <3>1, <3>2 DEF HClose, Odds
  <2>3. a.ok \in BOOLEAN BY DEF Replied, AnsweredTo, Good
  <2>4. QED BY <2>1, <2>2, <2>3, NotClosed
<1>6. QED BY <1>3, <1>4, <1>5

Uses(r, a, u, f) ==
  /\ a.ok /\ u = r.uid
  /\ (r.cmd \in Opens /\ f = a.fid) \/ (r.cmd \in Counted /\ f = r.fid)
CopyIs(r, a, u, f, s, s1) ==
  \/ /\ r.cmd \in Opens /\ Uses(r, a, u, f)
     /\ \E isdirectory \in BOOLEAN : Copied(r, a, s1, s, isdirectory, r.name)
  \/ r.cmd = "close" /\ Uses(r, a, u, f) /\ s1 = Unknown
  \/ r.cmd \in {"read", "write"} /\ Uses(r, a, u, f) /\ CountsMore(r, a, s1, s, 2)
  \/ s1 = s /\ ~Uses(r, a, u, f)

LEMMA CopyFound ==
  ASSUME Sound, Kept, Usual', NEW r, NEW a, Replied(r, a), NEW u \in Uids, NEW f \in Fids
  PROVE  CopyIs(r, a, u, f, userData[u].files[f], userData'[u].files[f])
<1> DEFINE i == Found(r.cmd, r.id)
<1>1. /\ r \in asked /\ Asks(r) /\ a.cmd = r.cmd /\ a.id = r.id /\ a.uid \in Uids /\ After(a) /\ a.ok \in BOOLEAN
      /\ r.cmd # "setup" => a.uid = r.uid
  BY UsualReply DEF Sound, Replied, AnsweredTo, Good, Asked
<1>2. CASE r.cmd \notin Opens \cup Counted
  <2>1. ~Uses(r, a, u, f) BY <1>2 DEF Uses
  <2>2. userData'[u].files[f] = userData[u].files[f]
    BY <1>2, CopiesGo, NoUserIs, <1>1 DEF After, AfterSetup, Joins, AfterTcon, AfterName, Counted, Opens, OfNames, Asks, Kinds, OnTrees, OnFiles
  <2>3. QED BY <2>1, <2>2 DEF CopyIs
<1>3. CASE r.cmd \in Opens \cup Counted
  <2>1. i # 0 /\ Tells(temp[i], r) /\ a.uid = r.uid /\ userData[r.uid].known /\ r.uid \in Uids
    BY <1>1, <1>3, UsualReply DEF Leaves, OnTrees, Opens, Counted
  <2>2. CASE ~a.ok
    BY <1>1, <1>3, <2>1, <2>2 DEF After, AfterOpen, AfterClose, AfterCount, Opens, Counted, CopyIs, Uses
  <2>3. CASE a.ok /\ r.cmd \in Opens
    <3>1. AfterOpen(a, i) /\ temp[i].name = r.name /\ a.tid = r.tid
      <4>1. a.tid = r.tid
        BY <2>3 DEF Replied, HSetup, HTcon, HOpen, HClose, HMove, HDispose, HName, HTdis, HLogoff, Opens, OfNames
      <4>2. QED BY <1>1, <2>1, <2>3, <4>1 DEF After, Tells, OnTrees
    <3>2. PICK isdirectory \in BOOLEAN :
            /\ a.cmd = "ntcreate" => isdirectory = a.directory
            /\ \E s \in States : /\ Puts(a.uid, a.fid, s)
                                 /\ Opens1(s, userData[a.uid].files[a.fid], MakePath(a.uid, a.tid, temp[i].name),
                                           IsIpc(a.uid, a.tid), isdirectory)
      BY <2>1, <2>3, <3>1 DEF AfterOpen
    <3>3. PICK s \in States :
            /\ Puts(r.uid, a.fid, s)
            /\ Opens1(s, userData[r.uid].files[a.fid], MakePath(r.uid, r.tid, r.name), IsIpc(r.uid, r.tid), isdirectory)
      BY <2>1, <3>1, <3>2
    <3>4. CASE u = r.uid /\ f = a.fid BY <1>1, <2>3, <3>2, <3>3, <3>4 DEF Puts, Copied, Uses, CopyIs
    <3>5. CASE ~(u = r.uid /\ f = a.fid) BY <2>3, <3>3, <3>5 DEF Puts, Uses, Opens, Counted, CopyIs
    <3>6. QED BY <3>4, <3>5
  <2>4. CASE a.ok /\ r.cmd = "close"
    <3>1. AfterClose(a, i) /\ temp[i].fid = r.fid BY <1>1, <2>1, <2>4 DEF After, Tells, Counted
    <3>2. CASE u = r.uid /\ f = r.fid
      BY <2>1, <2>4, <3>1, <3>2 DEF AfterClose, Puts, Sound, Types, CopyIs, Uses, Counted
    <3>3. CASE ~(u = r.uid /\ f = r.fid) BY <2>1, <2>4, <3>1, <3>3 DEF AfterClose, Puts, Uses, Opens, CopyIs
    <3>4. QED BY <3>2, <3>3
  <2>5. CASE a.ok /\ r.cmd \in {"read", "write"}
    <3>1. AfterCount(a, i) /\ temp[i].fid = r.fid /\ (r.cmd = "write" => temp[i].size = 2) /\ r.fid \in Fids
      BY <1>1, <2>1, <2>5 DEF After, Tells, Counted, Asks, OnFiles
    <3>2. userData[r.uid].files[r.fid].known
      <4>1. HMove(r, a)
        BY <2>5 DEF Replied, HSetup, HTcon, HOpen, HClose, HDispose, HName, HTdis, HLogoff, Opens, OfNames
      <4>2. files[r.fid].open /\ files[r.fid].uid = r.uid BY <1>1, <2>5, <4>1 DEF HMove, Asks, OnFiles, Counted
      <4>3. QED BY <2>1, <3>1, <4>2 DEF Kept, FilesCopied, Copies
    <3> DEFINE old == userData[r.uid].files[r.fid]
    <3>3. PICK s \in States :
            /\ Puts(r.uid, r.fid, s) /\ old.known
            /\ s.readed = IF a.cmd = "read" THEN old.readed + a.size ELSE old.readed
            /\ s.written = IF a.cmd = "read" THEN old.written ELSE old.written + temp[i].size
            /\ s.known = old.known /\ s.isipc = old.isipc /\ s.isdirectory = old.isdirectory
            /\ s.delete = old.delete /\ s.path = old.path
      BY <2>1, <2>5, <3>1, <3>2 DEF AfterCount
    <3>4. CASE u = r.uid /\ f = r.fid
      BY <1>1, <2>5, <3>1, <3>3, <3>4 DEF Puts, CountsMore, CopyIs, Uses, Counted
    <3>5. CASE ~(u = r.uid /\ f = r.fid) BY <2>5, <3>3, <3>5 DEF Puts, Uses, Opens, CopyIs
    <3>6. QED BY <3>4, <3>5
  <2>6. QED BY <1>1, <1>3, <2>2, <2>3, <2>4, <2>5 DEF Counted
<1>4. QED BY <1>2, <1>3

LEMMA RepliedCopied ==
  ASSUME Sound, Kept, Usual', NEW r, NEW a, Replied(r, a)
  PROVE  FilesCopied'
<1>1. /\ r \in asked /\ Asks(r) /\ asked' = asked \ {r} /\ odd' \cap Odds = {} /\ odd \cap Odds = {} /\ a.ok \in BOOLEAN
      /\ \A q \in asked : Together(r, q)
  BY UsualReply DEF Sound, Replied, AnsweredTo, Good, Asked
<1>2. ASSUME NEW u \in Uids, NEW f \in Fids
      PROVE  /\ Copies(userData[u].files[f], files[f], u, f)'
             /\ files'[f].open => /\ files'[f].path[1] \in Shares /\ files'[f].uid \in Uids /\ ~Leaving(files[f].uid)'
                                  /\ files'[f].delete => ~files'[f].directory
  <2>1. PICK s \in States, s1 \in States, o \in OpenFiles, o1 \in OpenFiles :
          s = userData[u].files[f] /\ s1 = userData'[u].files[f] /\ o = files[f] /\ o1 = files'[f]
    BY RepliedTypes DEF Sound, Types, UserStates
  <2>2. CopyIs(r, a, u, f, s, s1) /\ FileGoes(r, a, f) BY <2>1, CopyFound, FilesGo DEF Sound
  <2>3. /\ s.known <=> o.open /\ o.uid = u
        /\ s.known => /\ s.path = o.path /\ s.isipc = (o.path[1] = IPC)
                      /\ s.isdirectory = o.directory /\ s.readed = o.readed /\ s.written = o.written
                      /\ s.delete = (o.delete \/ Disposing(f))
        /\ ~s.known => s = Unknown
    BY <2>1 DEF Kept, FilesCopied, Copies, Sound, Types
  <2>4. o = NotOpen \/ (o.open /\ o.uid \in Uids) BY <2>1 DEF Sound, Hosts
  <2>5. o.open => o.path[1] \in Shares /\ ~Leaving(o.uid) /\ (o.delete => ~o.directory)
    BY <2>1 DEF Kept, FilesCopied
  <2>6. \A x : ~Leaving(x) => ~Leaving(x)' BY <1>1 DEF Leaving
  <2>7. SUFFICES /\ s1.known <=> o1.open /\ o1.uid = u
                 /\ s1.known => /\ s1.path = o1.path /\ s1.isipc = (o1.path[1] = IPC)
                                /\ s1.isdirectory = o1.directory /\ s1.readed = o1.readed /\ s1.written = o1.written
                                /\ s1.delete = (o1.delete \/ Disposing(f)')
                 /\ o1.open => o1.path[1] \in Shares /\ o1.uid \in Uids /\ ~Leaving(o1.uid)' /\ (o1.delete => ~o1.directory)
    BY <2>1 DEF Copies, Disposing, Leaving
  <2>8. ASSUME s1 = s, o1 = o, ~(a.ok /\ r.cmd \in OnFiles /\ f = r.fid)
        PROVE  Disposing(f)' = Disposing(f)
    <3>1. ~(r.cmd = "dispose" /\ r.fid = f)
      <4>1. SUFFICES ASSUME r.cmd = "dispose", r.fid = f
                     PROVE  FALSE
        OBVIOUS
      <4>2. HDispose(r, a)
        BY <4>1 DEF Replied, HSetup, HTcon, HOpen, HClose, HMove, HName, HTdis, HLogoff, Opens, OfNames
      <4>3. QED BY <1>1, <2>8, <4>1, <4>2 DEF HDispose, OnFiles, Odds
    <3>2. QED BY <1>1, <3>1 DEF Disposing
  <2>9. ASSUME r.cmd # "dispose"
        PROVE  Disposing(f)' = Disposing(f)
    BY <1>1, <2>9 DEF Disposing
  <2>10. CASE o1 = o /\ ~(a.ok /\ r.cmd \in OnFiles /\ f = r.fid) /\ ~(a.ok /\ r.cmd \in Opens /\ f = a.fid)
    BY <2>2, <2>3, <2>4, <2>5, <2>6, <2>8, <2>10, NotOpenIs DEF CopyIs, Uses, OnFiles
  <2>11. CASE o1 = NotOpen /\ Closes(r, a, f)
    <3>1. CASE r.cmd = "logoff"
      BY <2>1, <2>2, <2>3, <2>4, <2>11, <3>1, NotClosed DEF CopyIs, Opens, Counted, Uses
    <3>2. CASE r.cmd = "close" /\ a.ok /\ f = r.fid
      <4>1. o.open /\ o.uid = r.uid BY <1>1, <2>1, <3>2 DEF Sound, Hosts, Asks, OnFiles, Counted, Odds
      <4>2. ~s1.known BY <2>2, <2>3, <3>2, <4>1, NoUserIs DEF CopyIs, Uses, Opens, Counted
      <4>3. QED BY <2>11, <4>2, NotOpenIs
    <3>3. QED BY <2>11, <3>1, <3>2 DEF Closes
  <2>12. CASE r.cmd \in Opens /\ a.ok /\ f = a.fid /\ o = NotOpen /\ Opens2(r, a, o1) /\ \A q \in asked : q.cmd \in OnFiles => q.fid # f
    <3>1. HOpen(r, a)
      BY <2>12 DEF Replied, HSetup, HTcon, HClose, HMove, HDispose, HName, HTdis, HLogoff, Opens, OfNames
    <3>2. r.cmd = "ntcreate" /\ a.directory = r.directory /\ ~r.delete
      BY <1>1, <2>12, <3>1 DEF HOpen, Odds, Kept, AskedPlainly
    <3>3. /\ ~Leaving(r.uid) /\ r.uid \in Uids /\ trees[r.tid][2] \in Shares
          /\ IsIpc(r.uid, r.tid) = (trees[r.tid][2] = IPC) /\ MakePath(r.uid, r.tid, r.name) = PathOf(r, r.name)
      BY <2>12, UsualReply DEF OnTrees, Opens
    <3>4. /\ o1.open /\ o1.uid = r.uid /\ o1.path = PathOf(r, r.name) /\ o1.directory = r.directory /\ ~o1.delete
          /\ o1.readed = 0 /\ o1.written = 0
      BY <2>12, <3>2 DEF Opens2
    <3>5. ~s.known /\ s = Unknown BY <2>3, <2>12, NotOpenIs
    <3>6. ~Disposing(f)' BY <1>1, <2>12 DEF Disposing, OnFiles
    <3>7. CASE u = r.uid
      <4>1. PICK isdirectory \in BOOLEAN : Copied(r, a, s1, s, isdirectory, r.name)
        BY <2>2, <2>12, <3>2, <3>7 DEF CopyIs, Uses
      <4>2. /\ s1.known /\ s1.path = PathOf(r, r.name) /\ s1.isipc = (trees[r.tid][2] = IPC) /\ s1.isdirectory = r.directory
            /\ s1.delete = FALSE /\ s1.readed = 0 /\ s1.written = 0
        BY <3>2, <3>3, <3>5, <4>1 DEF Copied, Opens1, Unknown
      <4>3. PathOf(r, r.name)[1] = trees[r.tid][2] BY DEF PathOf
      <4>4. QED BY <2>6, <3>3, <3>4, <3>6, <3>7, <4>2, <4>3
    <3>8. CASE u # r.uid BY <2>2, <2>6, <3>3, <3>4, <3>5, <3>8 DEF CopyIs, Uses, PathOf
    <3>9. QED BY <3>7, <3>8
  <2>13. CASE r.cmd \in {"read", "write"} /\ a.ok /\ f = r.fid /\ o.open /\ Moves(r, a, o1, o)
    <3>1. /\ (r.cmd = "read" => a.size = 1) /\ (r.cmd = "write" => a.size = 2)
      <4>1. HMove(r, a)
        BY <2>13 DEF Replied, HSetup, HTcon, HOpen, HClose, HDispose, HName, HTdis, HLogoff, Opens, OfNames
      <4>2. QED BY <1>1, <2>13, <4>1 DEF HMove, Odds
    <3>2. o.uid = r.uid BY <1>1, <2>1, <2>13 DEF Asks, OnFiles, Counted
    <3>3. Disposing(f)' = Disposing(f) BY <2>9, <2>13
    <3>4. CASE u = r.uid
      <4>1. CountsMore(r, a, s1, s, 2) BY <2>2, <2>13, <3>4 DEF CopyIs, Uses, Opens, Counted
      <4>2. s.known BY <2>3, <2>13, <3>2, <3>4
      <4>3. QED
        BY <2>3, <2>5, <2>6, <2>4, <2>13, <3>1, <3>2, <3>3, <3>4, <4>1, <4>2, NotOpenIs DEF CountsMore, Moves, Keeps
    <3>5. CASE u # r.uid
      BY <2>2, <2>3, <2>4, <2>5, <2>6, <2>13, <3>2, <3>5, NotOpenIs DEF CopyIs, Uses, Moves, Keeps
    <3>6. QED BY <3>4, <3>5
  <2>14. CASE /\ r.cmd = "dispose" /\ a.ok /\ f = r.fid /\ o.open /\ Keeps(o1, o)
              /\ o1.path = o.path /\ o1.delete = r.on /\ o1.readed = o.readed /\ o1.written = o.written
    <3>1. r.on /\ ~o.directory /\ r.on \in BOOLEAN BY <1>1, <2>1, <2>14 DEF Kept, AskedPlainly, Asks
    <3>2. s1 = s BY <2>2, <2>14 DEF CopyIs, Uses, Opens, Counted
    <3>3. Disposing(f) BY <1>1, <2>14, <3>1 DEF Disposing
    <3>4. s.known => s.delete = TRUE BY <2>3, <3>3
    <3>5. o1.delete = TRUE BY <2>14, <3>1
    <3>6. QED BY <2>3, <2>4, <2>5, <2>6, <2>14, <3>1, <3>2, <3>4, <3>5, NotOpenIs DEF Keeps
  <2>15. "renamed" \notin odd' BY <1>1 DEF Odds
  <2>16. QED BY <2>1, <2>2, <2>10, <2>11, <2>12, <2>13, <2>14, <2>15 DEF FileGoes
<1>3. Uids # {} BY Smb1Assumption
<1>4. QED BY <1>2, <1>3 DEF FilesCopied, Leaving

(* The report of a closed file, when the copy is the server's. *)
LEMMA ReportsAll ==
  ASSUME NEW s \in States, NEW o \in OpenFiles, NEW w, s.known, o.open, s.path = o.path, s.isipc = (o.path[1] = IPC),
         s.isdirectory = o.directory, s.readed = o.readed, s.written = o.written, s.delete = o.delete,
         o.path[1] \notin Trees, o.delete => ~o.directory
  PROVE  CloseEvents(s, w) =
           IF o.path[1] = IPC THEN {}
           ELSE {Event("read", w, o.path, NoPath, n) : n \in {o.readed} \ {0}}
                \cup {Event("write", w, o.path, NoPath, n) : n \in {o.written} \ {0}}
                \cup IF ~o.delete THEN {}
                     ELSE {Told(IF o.directory THEN "rmdir" ELSE "remove", w, o.path)}
<1>1. Suppressed(s) <=> o.path[1] = IPC BY DEF Suppressed
<1>2. (s.delete /\ ~s.isdirectory) <=> o.delete BY DEF States, OpenFiles
<1>3. (IF s.delete /\ ~s.isdirectory THEN {Told("remove", w, s.path)} ELSE {})
      = IF ~o.delete THEN {} ELSE {Told(IF o.directory THEN "rmdir" ELSE "remove", w, o.path)}
  BY <1>2
<1>4. {Event("read", w, s.path, NoPath, n) : n \in {s.readed} \ {0}} = {Event("read", w, o.path, NoPath, n) : n \in {o.readed} \ {0}}
  OBVIOUS
<1>5. {Event("write", w, s.path, NoPath, n) : n \in {s.written} \ {0}} = {Event("write", w, o.path, NoPath, n) : n \in {o.written} \ {0}}
  OBVIOUS
<1> DEFINE R == {Event("read", w, s.path, NoPath, n) : n \in {s.readed} \ {0}}
           W == {Event("write", w, s.path, NoPath, n) : n \in {s.written} \ {0}}
           D == IF s.delete /\ ~s.isdirectory THEN {Told("remove", w, s.path)} ELSE {}
<1>6. CloseEvents(s, w) = IF ~s.known \/ Suppressed(s) THEN {} ELSE R \cup W \cup D BY DEF CloseEvents
<1> HIDE DEF R, W, D
<1>7. CloseEvents(s, w) = IF o.path[1] = IPC THEN {} ELSE R \cup W \cup D BY <1>1, <1>6
<1>8. QED BY <1>3, <1>4, <1>5, <1>7 DEF R, W, D

LEMMA RepliedExact ==
  ASSUME Sound, Kept, Usual', NEW r, NEW a, Replied(r, a)
  PROVE  events' = facts'
<1> DEFINE i == Found(r.cmd, r.id)
<1>1. /\ r \in asked /\ Asks(r) /\ a.cmd = r.cmd /\ a.id = r.id /\ a.uid \in Uids /\ After(a) /\ a.ok \in BOOLEAN
      /\ r.cmd # "setup" => a.uid = r.uid
      /\ odd' \cap Odds = {} /\ odd \cap Odds = {}
  BY UsualReply DEF Sound, Replied, AnsweredTo, Good, Asked
<1>2. CASE HSetup(r, a) BY <1>1, <1>2, UsualReply DEF HSetup, After, Odds, AfterSetup, Leaves, Tells
<1>3. CASE HOpen(r, a)
  <2>1. /\ r.cmd \in Opens /\ a.tid = r.tid /\ (a.ok => r.cmd = "ntcreate") BY <1>1, <1>3 DEF HOpen, Odds
  <2>2. /\ i # 0 /\ temp[i].name = r.name /\ IsIpc(r.uid, r.tid) = (trees[r.tid][2] = IPC)
        /\ MakePath(r.uid, r.tid, r.name) = PathOf(r, r.name) /\ userData[r.uid].name = UserOf(r)
    BY <2>1, UsualReply DEF Leaves, Tells, OnTrees, Opens
  <2>3. AfterOpen(a, i) BY <1>1, <2>1, <2>2 DEF After
  <2>4. CASE ~a.ok BY <1>3, <2>3, <2>4 DEF HOpen, AfterOpen
  <2>5. CASE a.ok
    <3>1. PICK isdirectory \in BOOLEAN :
            /\ (a.cmd = "ntcreate" => isdirectory = a.directory)
            /\ events' = IF a.cmd = "ntcreate" /\ a.action = "created" /\ ~IsIpc(a.uid, a.tid)
                         THEN {Told(IF isdirectory THEN "mkdir" ELSE "create", userData[a.uid].name,
                                    MakePath(a.uid, a.tid, temp[i].name))}
                         ELSE {}
      BY <2>3, <2>5 DEF AfterOpen
    <3>2. a.directory = r.directory /\ a.action \in {"opened", "created"}
          /\ (a.action = "created" => PathOf(r, r.name)[1] # IPC)
          /\ facts' = IF a.action = "opened" THEN {}
                      ELSE {Told(IF r.directory THEN "mkdir" ELSE "create", UserOf(r), PathOf(r, r.name))}
      BY <1>3, <2>5 DEF HOpen
    <3>3. PathOf(r, r.name)[1] = trees[r.tid][2] BY DEF PathOf
    <3>4. isdirectory = r.directory /\ a.uid = r.uid /\ a.tid = r.tid BY <1>1, <2>1, <2>5, <3>1, <3>2 DEF Opens
    <3>5. CASE a.action = "created" BY <1>1, <2>1, <2>2, <2>5, <3>1, <3>2, <3>3, <3>4, <3>5
    <3>6. CASE a.action = "opened" BY <3>1, <3>2, <3>6
    <3>7. QED BY <3>2, <3>5, <3>6
  <2>6. QED BY <1>1, <2>4, <2>5
<1>4. CASE HName(r, a)
  <2>1. r.cmd \in OfNames /\ a.tid = r.tid /\ a.uid = r.uid BY <1>1, <1>4 DEF HName, OfNames
  <2>2. /\ i # 0 /\ temp[i].name = r.name /\ temp[i].to = r.to /\ IsIpc(r.uid, r.tid) = (trees[r.tid][2] = IPC)
        /\ (\A n : MakePath(r.uid, r.tid, n) = PathOf(r, n)) /\ userData[r.uid].name = UserOf(r)
    BY <2>1, UsualReply DEF Leaves, Tells, OnTrees, OfNames
  <2>3. ~IsIpc(r.uid, r.tid) BY <1>1, <2>1, <2>2 DEF Kept, AskedPlainly
  <2>4. AfterName(a, i) BY <1>1, <2>1, <2>2 DEF After
  <2>5. QED BY <1>1, <1>4, <2>1, <2>2, <2>3, <2>4 DEF AfterName, HName
<1>5. CASE HClose(r, a)
  <2>1. r.cmd = "close" BY <1>5 DEF HClose
  <2>2. i # 0 /\ temp[i].fid = r.fid /\ r.fid \in Fids /\ r.uid \in Uids /\ userData[r.uid].name = UserOf(r)
    BY <1>1, <2>1, UsualReply DEF Leaves, Tells, Counted, Asks, OnFiles
  <2>3. AfterClose(a, i) BY <1>1, <2>1, <2>2 DEF After
  <2>4. CASE ~a.ok BY <1>5, <2>3, <2>4 DEF HClose, AfterClose
  <2>5. CASE a.ok
    <3> DEFINE s == userData[r.uid].files[r.fid]
               o == files[r.fid]
               w == UserOf(r)
    <3>1. s \in States /\ o \in OpenFiles BY <2>2, CountsAre, FilesAre DEF Sound, Types
    <3>2. o.open /\ o.uid = r.uid BY <1>1, <2>1 DEF Sound, Hosts, Asks, OnFiles, Counted, Odds
    <3>3. ~Disposing(r.fid) BY <1>1, <1>5, <2>5 DEF HClose, Disposing, Odds
    <3>4. /\ s.known /\ s.path = o.path /\ s.isipc = (o.path[1] = IPC) /\ s.isdirectory = o.directory
          /\ s.readed = o.readed /\ s.written = o.written /\ s.delete = (o.delete \/ Disposing(r.fid))
          /\ o.path[1] \in Shares /\ (o.delete => ~o.directory)
      BY <2>2, <3>2 DEF Kept, FilesCopied, Copies
    <3>5. s.delete = o.delete /\ o.path[1] \notin Trees BY <3>1, <3>3, <3>4, Smb1Assumption DEF OpenFiles
    <3>6. facts' = IF ~o.open \/ o.path[1] = IPC THEN {}
                  ELSE {Event("read", w, o.path, NoPath, n) : n \in {o.readed} \ {0}}
                       \cup {Event("write", w, o.path, NoPath, n) : n \in {o.written} \ {0}}
                       \cup IF ~o.delete THEN {}
                            ELSE {Told(IF o.directory THEN "rmdir" ELSE "remove", w, o.path)}
      BY <1>5, <2>5 DEF HClose
    <3>7. events' = CloseEvents(s, w) BY <1>1, <2>1, <2>2, <2>3, <2>5 DEF AfterClose
    <3> HIDE DEF s, o, w
    <3>8. QED BY <3>1, <3>2, <3>4, <3>5, <3>6, <3>7, ReportsAll
  <2>6. QED BY <1>1, <2>4, <2>5
<1>6. CASE HTcon(r, a) BY <1>1, <1>6 DEF HTcon, After, AfterTcon
<1>7. CASE HMove(r, a) BY <1>1, <1>7 DEF HMove, After, AfterCount
<1>8. CASE HDispose(r, a) \/ HTdis(r, a) \/ HLogoff(r, a) BY <1>1, <1>8 DEF HDispose, HTdis, HLogoff, After
<1>9. QED BY <1>2, <1>3, <1>4, <1>5, <1>6, <1>7, <1>8 DEF Replied

LEMMA RepliedKept ==
  ASSUME Sound, KeptInv, NEW r, NEW a, Replied(r, a)
  PROVE  KeptInv'
  BY UsualIs, RepliedRemembered, RepliedKnownUsers, RepliedKnownTrees, RepliedCopied, RepliedPlainly,
    RepliedExact DEF Replied, AnsweredTo, KeptInv, Kept

LEMMA InitKept ==
  ASSUME Init
  PROVE  KeptInv
<1>1. PICK u \in Uids, t \in Tids, name \in Users \ {NoName} : Begins(u, t, name) BY InitIs
<1>2. Sound BY InitSound
<1>3. SUFFICES ASSUME Usual
               PROVE  Kept /\ events = facts
  BY DEF KeptInv
<1>4. /\ asked = {} /\ events = {} /\ facts = {} /\ files = [f \in Fids |-> NotOpen] /\ scenario.start # "joined"
      /\ scenario.start \in {"fresh", "mounted"}
  BY <1>1, <1>3, Smb1Assumption DEF Begins, Usual
<1>5. /\ scenario.start = "fresh" => users = [x \in Uids |-> None] /\ trees = [x \in Tids |-> <<None, None>>]
      /\ scenario.start = "mounted" =>
           /\ users = [[x \in Uids |-> None] EXCEPT ![u] = name]
           /\ trees = [[x \in Tids |-> <<None, None>>] EXCEPT ![t] = <<u, scenario.share>>]
           /\ userData[u].known /\ userData[u].name = name /\ userData[u].trees[t] = scenario.share
  BY <1>1, NoUserIs, InitUsers DEF Begins, NoUser, Trees
<1>6. \A x \in Uids, f \in Fids : userData[x].files[f] = Unknown BY <1>1, InitUsers, NoUserIs
<1>7. UsersKnown BY <1>4, <1>5 DEF UsersKnown
<1>8. TreesKnown BY <1>4, <1>5 DEF TreesKnown
<1>9. FilesCopied BY <1>4, <1>6, NoUserIs, NotOpenIs DEF FilesCopied, Copies
<1>10. QED BY <1>4, <1>7, <1>8, <1>9 DEF Kept, AllRemembered, AskedPlainly

LEMMA StepKept ==
  ASSUME Sound, KeptInv, Next
  PROVE  KeptInv'
  BY RespondIs, RepliedKept, RequestIs, SentKept DEF Sound, Next

LEMMA SameKept ==
  ASSUME UNCHANGED vars, KeptInv
  PROVE  KeptInv'
<1>1. /\ temp' = temp /\ userData' = userData /\ events' = events
      /\ users' = users /\ trees' = trees /\ files' = files /\ asked' = asked /\ facts' = facts /\ odd' = odd
  BY DEF vars, analyzer, hosts
<1>2. QED
  BY <1>1 DEF KeptInv, Usual, Kept, AllRemembered, UsersKnown, TreesKnown, FilesCopied, AskedPlainly, Copies, Leaving, Disposing

LEMMA KeptSays ==
  ASSUME Sound, KeptInv
  PROVE  Exact /\ InStep
  BY DEF KeptInv, Exact, InStep, Kept, FilesCopied, Copies, FileState

Smb1Inv == Sound /\ Heard /\ KeptInv
LEMMA Smb1Begins ==
  ASSUME Init
  PROVE  Smb1Inv
  BY InitSound, InitKept DEF Smb1Inv
LEMMA Smb1Step ==
  ASSUME Smb1Inv, [Next]_vars
  PROVE  Smb1Inv'
  BY StepSound, SameSound, StepKept, SameKept DEF Smb1Inv
LEMMA Smb1Says ==
  ASSUME Smb1Inv
  PROVE  TypeOK /\ InStep /\ TreeNamed /\ Exact /\ NothingInvented
  BY SoundTypes, KeptSays DEF Smb1Inv, Heard

--------------------------------
(* AFP: climbing a table of directories, level by level. *)
LEMMA Inductive ==
  ASSUME NEW T, 0 \in T, \A n \in Nat : n \in T => n + 1 \in T
  PROVE  Nat \subseteq T
<1> DEFINE M == Nat \ T
<1>1. CASE M # {}
  <2>1. PICK n \in M : \A y \in M : n <= y BY <1>1, Least
  <2>2. n # 0 /\ n - 1 \in Nat /\ (n - 1) + 1 = n /\ ~(n <= n - 1) BY <2>1
  <2>3. QED BY <2>1, <2>2
<1>2. QED BY <1>1

Up(table, p) ==
  IF p.did <= A!Root \/ A!FindDid(table, p.did) = {} THEN p
  ELSE [did |-> (CHOOSE e \in A!FindDid(table, p.did) : TRUE).parent,
        names |-> <<(CHOOSE e \in A!FindDid(table, p.did) : TRUE).name>> \o p.names]
Way(table, did, f, m) ==
  f = [n \in 0..m |-> IF n = 0 THEN [did |-> did, names |-> <<>>] ELSE Up(table, f[n - 1])]

LEMMA WayExists ==
  ASSUME NEW table, NEW did, NEW m \in Nat
  PROVE  \E f : Way(table, did, f, m)
<1> DEFINE T == {k \in Nat : \E f : Way(table, did, f, k)}
<1>1. 0 \in T
  <2>1. PICK f : f = [n \in 0..0 |-> [did |-> did, names |-> <<>>]] OBVIOUS
  <2>2. Way(table, did, f, 0) BY <2>1 DEF Way
  <2>3. QED BY <2>2
<1>2. ASSUME NEW k \in Nat, k \in T
      PROVE  k + 1 \in T
  <2>1. PICK f : Way(table, did, f, k) BY <1>2
  <2>2. PICK g : g = [n \in 0..(k + 1) |-> IF n = k + 1 THEN Up(table, f[k]) ELSE f[n]] OBVIOUS
  <2>3. ASSUME NEW n \in 0..(k + 1)
        PROVE  g[n] = IF n = 0 THEN [did |-> did, names |-> <<>>] ELSE Up(table, g[n - 1])
    BY <2>1, <2>2 DEF Way
  <2>4. g = [n \in 0..(k + 1) |-> g[n]] BY <2>2
  <2>5. Way(table, did, g, k + 1) BY <2>3, <2>4 DEF Way
  <2>6. QED BY <2>5
<1> HIDE DEF T
<1>3. Nat \subseteq T BY <1>1, <1>2, Inductive
<1>4. QED BY <1>3 DEF T

LEMMA ClimbWay ==
  ASSUME NEW table, NEW did, NEW m \in Nat
  PROVE  \E f : Way(table, did, f, m) /\ A!Climb(table, did, m) = f[m]
<1>1. PICK g : g = (CHOOSE f : Way(table, did, f, m)) OBVIOUS
<1>2. Way(table, did, g, m) BY <1>1, WayExists
<1>3. A!Climb(table, did, m) = g[m] BY <1>1 DEF A!Climb, Way, Up
<1>4. QED BY <1>2, <1>3

LEMMA WaySteps ==
  ASSUME NEW table, NEW did, NEW m \in Nat, NEW f, Way(table, did, f, m)
  PROVE  f[0] = [did |-> did, names |-> <<>>] /\ \A n \in 1..m : f[n] = Up(table, f[n - 1])
  BY DEF Way

LEMMA ClimbLaw ==
  ASSUME NEW table, NEW did
  PROVE  /\ A!Climb(table, did, 0) = [did |-> did, names |-> <<>>]
         /\ \A m \in Nat : A!Climb(table, did, m + 1) = Up(table, A!Climb(table, did, m))
<1>1. A!Climb(table, did, 0) = [did |-> did, names |-> <<>>] BY ClimbWay DEF Way
<1>2. ASSUME NEW m \in Nat
      PROVE  A!Climb(table, did, m + 1) = Up(table, A!Climb(table, did, m))
  <2>1. PICK f : Way(table, did, f, m) /\ A!Climb(table, did, m) = f[m] BY ClimbWay
  <2>2. PICK g : Way(table, did, g, m + 1) /\ A!Climb(table, did, m + 1) = g[m + 1] BY ClimbWay
  <2>3. f[0] = [did |-> did, names |-> <<>>] /\ \A n \in 1..m : f[n] = Up(table, f[n - 1]) BY <2>1, WaySteps
  <2>4. g[0] = [did |-> did, names |-> <<>>] /\ \A n \in 1..(m + 1) : g[n] = Up(table, g[n - 1])
    BY <2>2, WaySteps
  <2> DEFINE T == {n \in Nat : n <= m => f[n] = g[n]}
  <2>5. 0 \in T BY <2>3, <2>4
  <2>6. ASSUME NEW n \in Nat, n \in T
        PROVE  n + 1 \in T
    BY <2>3, <2>4, <2>6
  <2> HIDE DEF T
  <2>7. m \in T BY <2>5, <2>6, Inductive
  <2>8. f[m] = g[m] BY <2>7 DEF T
  <2>9. m + 1 \in 1..(m + 1) /\ (m + 1) - 1 = m OBVIOUS
  <2>10. QED BY <2>1, <2>2, <2>4, <2>8, <2>9
<1>3. QED BY <1>1, <1>2

AWords == AfpNames \cup AfpUsers \cup {Volume, "id"}
ANames == AfpNames \cup {Volume}
ADids == 0..MaxDid
AEntries == [did : ADids, parent : ADids, name : ANames]
Arrived(table, p) == p.did <= A!Root \/ A!FindDid(table, p.did) = {}
Typed(table) == \A x \in ADids : A!FindDid(table, x) \subseteq AEntries

Climbed(table, p, n) ==
  /\ p.did \in ADids /\ p.names \in Seq(ANames)
  /\ Len(p.names) <= n /\ (Len(p.names) = n \/ Arrived(table, p))

LEMMA ClimbTyped ==
  ASSUME NEW table, Typed(table), NEW did \in ADids
  PROVE  \A n \in Nat : Climbed(table, A!Climb(table, did, n), n)
<1> DEFINE T == {n \in Nat : Climbed(table, A!Climb(table, did, n), n)}
<1>1. 0 \in T
  <2>1. PICK p : p = [did |-> did, names |-> <<>>] OBVIOUS
  <2>2. p.did = did /\ p.names = <<>> /\ A!Climb(table, did, 0) = p BY <2>1, ClimbLaw
  <2>3. p.names \in Seq(ANames) /\ Len(p.names) = 0 BY <2>2
  <2>4. Climbed(table, p, 0) BY <2>2, <2>3 DEF Climbed
  <2>5. QED BY <2>2, <2>4
<1>2. ASSUME NEW n \in Nat, n \in T
      PROVE  n + 1 \in T
  <2>1. PICK p, x, q : p = A!Climb(table, did, n) /\ x = p.did /\ q = p.names OBVIOUS
  <2>2. x \in ADids /\ q \in Seq(ANames) /\ Len(q) <= n /\ (Len(q) = n \/ Arrived(table, p))
    BY <1>2, <2>1 DEF Climbed
  <2>3. A!Climb(table, did, n + 1) = Up(table, p) BY <2>1, ClimbLaw
  <2>4. CASE Arrived(table, p) BY <2>1, <2>2, <2>3, <2>4 DEF Up, Arrived, Climbed
  <2>5. CASE ~Arrived(table, p)
    <3>1. PICK e : e = (CHOOSE d \in A!FindDid(table, x) : TRUE) OBVIOUS
    <3>2. e \in A!FindDid(table, x) BY <2>1, <2>5, <3>1 DEF Arrived
    <3>3. e.parent \in ADids /\ e.name \in ANames BY <2>2, <3>2 DEF Typed, AEntries
    <3>4. PICK u : u = [did |-> e.parent, names |-> <<e.name>> \o q] OBVIOUS
    <3>5. Up(table, p) = u /\ u.did = e.parent /\ u.names = <<e.name>> \o q
      BY <2>1, <2>5, <3>1, <3>4 DEF Up, Arrived
    <3>6. <<e.name>> \o q \in Seq(ANames) /\ Len(<<e.name>> \o q) = n + 1 BY <2>2, <2>5, <3>3
    <3>7. Climbed(table, u, n + 1) BY <3>3, <3>5, <3>6 DEF Climbed
    <3>8. QED BY <2>3, <3>5, <3>7
  <2>6. QED BY <2>4, <2>5
<1> HIDE DEF T
<1>3. Nat \subseteq T BY <1>1, <1>2, Inductive
<1>4. QED BY <1>3 DEF T

(* Who has arrived stays there, and a longer climb adds names in front. *)
LEMMA ClimbStays ==
  ASSUME NEW table, NEW did, NEW n \in Nat, Arrived(table, A!Climb(table, did, n)), NEW m \in Nat, n <= m
  PROVE  A!Climb(table, did, m) = A!Climb(table, did, n)
<1> DEFINE T == {k \in Nat : A!Climb(table, did, n + k) = A!Climb(table, did, n)}
<1>1. 0 \in T OBVIOUS
<1>2. ASSUME NEW k \in Nat, k \in T
      PROVE  k + 1 \in T
  <2>1. n + k \in Nat /\ (n + k) + 1 = n + (k + 1) OBVIOUS
  <2>2. A!Climb(table, did, n + (k + 1)) = Up(table, A!Climb(table, did, n + k)) BY <2>1, ClimbLaw
  <2>3. QED BY <1>2, <2>2 DEF Up, Arrived
<1> HIDE DEF T
<1>3. m - n \in Nat /\ n + (m - n) = m OBVIOUS
<1>4. m - n \in T BY <1>1, <1>2, <1>3, Inductive
<1>5. QED BY <1>3, <1>4 DEF T

Ends2(s, S, t) == \E q \in Seq(S) : t = q \o s

LEMMA ClimbGrows ==
  ASSUME NEW table, Typed(table), NEW did \in ADids, NEW n \in Nat, NEW m \in Nat, n <= m
  PROVE  /\ Ends2(A!Climb(table, did, n).names, ANames, A!Climb(table, did, m).names)
         /\ Len(A!Climb(table, did, n).names) <= Len(A!Climb(table, did, m).names)
<1> DEFINE C(k) == A!Climb(table, did, k)
           T == {k \in Nat : Ends2(C(n).names, ANames, C(n + k).names)}
<1>0. \A k \in Nat : C(k).did \in ADids /\ C(k).names \in Seq(ANames) BY ClimbTyped DEF Climbed
<1>1. 0 \in T
  <2>1. PICK s : s = C(n).names OBVIOUS
  <2>2. <<>> \in Seq(ANames) /\ s = <<>> \o s BY <1>0, <2>1
  <2>3. Ends2(s, ANames, s) BY <2>2 DEF Ends2
  <2>4. n + 0 = n OBVIOUS
  <2>5. QED BY <2>1, <2>3, <2>4
<1>2. ASSUME NEW k \in Nat, k \in T
      PROVE  k + 1 \in T
  <2>1. n + k \in Nat /\ (n + k) + 1 = n + (k + 1) OBVIOUS
  <2>2. C(n + (k + 1)) = Up(table, C(n + k)) BY <2>1, ClimbLaw
  <2>3. PICK q \in Seq(ANames) : C(n + k).names = q \o C(n).names BY <1>2 DEF Ends2
  <2>4. CASE Arrived(table, C(n + k)) BY <1>2, <2>2, <2>4 DEF Up, Arrived
  <2>5. CASE ~Arrived(table, C(n + k))
    <3>1. PICK x, e : x = C(n + k).did /\ e = (CHOOSE d \in A!FindDid(table, x) : TRUE) OBVIOUS
    <3>2. x \in ADids /\ e \in A!FindDid(table, x) BY <1>0, <2>1, <2>5, <3>1 DEF Arrived
    <3>3. e.name \in ANames BY <3>2 DEF Typed, AEntries
    <3>4. C(n + (k + 1)).names = <<e.name>> \o C(n + k).names BY <2>2, <2>5, <3>1 DEF Up, Arrived
    <3>5. PICK w, s : w = <<e.name>> /\ s = C(n).names OBVIOUS
    <3>6. w \in Seq(ANames) /\ s \in Seq(ANames) BY <1>0, <3>3, <3>5
    <3>7. w \o (q \o s) = (w \o q) \o s /\ w \o q \in Seq(ANames) BY <3>6, ConcatAssociative, ConcatProperties
    <3>8. C(n + (k + 1)).names = (w \o q) \o s BY <2>3, <3>4, <3>5, <3>7
    <3>9. Ends2(C(n).names, ANames, C(n + (k + 1)).names) BY <3>5, <3>7, <3>8 DEF Ends2
    <3>10. QED BY <3>9
  <2>6. QED BY <2>4, <2>5
<1>3. m - n \in Nat /\ n + (m - n) = m OBVIOUS
<1>4. Ends2(C(n).names, ANames, C(m).names)
  <2> HIDE DEF T
  <2>1. m - n \in T BY <1>1, <1>2, <1>3, Inductive
  <2>2. QED BY <1>3, <2>1 DEF T
<1>5. PICK q \in Seq(ANames) : C(m).names = q \o C(n).names BY <1>4 DEF Ends2
<1>6. PICK s, t : s = C(n).names /\ t = C(m).names OBVIOUS
<1>7. s \in Seq(ANames) /\ t = q \o s BY <1>0, <1>5, <1>6
<1>8. Len(s) <= Len(t) BY <1>7
<1>9. QED BY <1>4, <1>6, <1>8

(* The way is the same in two tables that know the same folders on it. *)
LEMMA SameWay ==
  ASSUME NEW a, NEW b, NEW S, NEW did \in S,
         \A x \in S : x <= A!Root \/ (A!FindDid(a, x) = A!FindDid(b, x) /\ \A e \in A!FindDid(a, x) : e.parent \in S)
  PROVE  \A n \in Nat : A!Climb(a, did, n) = A!Climb(b, did, n) /\ A!Climb(a, did, n).did \in S
<1> DEFINE T == {n \in Nat : A!Climb(a, did, n) = A!Climb(b, did, n) /\ A!Climb(a, did, n).did \in S}
<1>1. 0 \in T BY ClimbLaw
<1>2. ASSUME NEW n \in Nat, n \in T
      PROVE  n + 1 \in T
  <2>1. PICK p : p = A!Climb(a, did, n) OBVIOUS
  <2>2. p.did \in S /\ p = A!Climb(b, did, n) BY <1>2, <2>1
  <2>3. /\ A!Climb(a, did, n + 1) = Up(a, p) /\ A!Climb(b, did, n + 1) = Up(b, p)
    BY <2>1, <2>2, ClimbLaw
  <2>4. CASE p.did <= A!Root BY <2>2, <2>3, <2>4 DEF Up
  <2>5. CASE ~(p.did <= A!Root)
    <3>1. A!FindDid(a, p.did) = A!FindDid(b, p.did) /\ \A e \in A!FindDid(a, p.did) : e.parent \in S
      BY <2>2, <2>5
    <3>2. Up(a, p) = Up(b, p) /\ Up(a, p).did \in S BY <2>2, <2>5, <3>1 DEF Up
    <3>3. QED BY <2>3, <3>2
  <2>6. QED BY <2>4, <2>5
<1> HIDE DEF T
<1>3. Nat \subseteq T BY <1>1, <1>2, Inductive
<1>4. QED BY <1>3 DEF T

LEMMA IsEnd ==
  ASSUME NEW S, NEW p \in Seq(S), NEW s \in Seq(S)
  PROVE  A!IsSuffix(s, p \o s)
<1>1. PICK t, k, m, n : t = p \o s /\ k = Len(p) /\ m = Len(s) /\ n = Len(t) OBVIOUS
<1>2. t \in Seq(S) /\ k \in Nat /\ m \in Nat /\ n = k + m /\ \A i \in 1..m : t[k + i] = s[i] BY <1>1
<1>3. PICK u, v : u = A!Reverse(s) /\ v = A!Reverse(t) OBVIOUS
<1>4. /\ u = [i \in 1..m |-> s[(m - i) + 1]] /\ v = [i \in 1..n |-> t[(n - i) + 1]]
  BY <1>1, <1>3 DEF A!Reverse
<1>5. ASSUME NEW i \in 1..m
      PROVE  i \in 1..n /\ u[i] = v[i]
  BY <1>2, <1>4
<1>6. u \in Seq(S) /\ v \in Seq(S) BY <1>1, <1>2, <1>4
<1>10. Len(u) = m /\ Len(v) = n BY <1>2, <1>4
<1>7. SubSeq(u, 1, m) = [i \in 1..m |-> u[i]] /\ SubSeq(v, 1, m) = [i \in 1..m |-> v[i]] /\ m <= n
  BY <1>2, <1>6, <1>10
<1>8. SubSeq(u, 1, m) = SubSeq(v, 1, m) BY <1>5, <1>7
<1>9. QED BY <1>1, <1>3, <1>7, <1>8, <1>10 DEF A!IsSuffix, A!IsPrefix

LEMMA NamedEnd ==
  ASSUME NEW q \in Seq(AWords), NEW s \in Seq(AWords), NEW h \in {Volume, "id"}
  PROVE  A!PartOf(s, q \o s) /\ A!PartOf(<<h>> \o s, q \o s)
<1>1. A!IsSuffix(s, q \o s) BY IsEnd
<1>2. PICK w : w = <<h>> \o s OBVIOUS
<1>3. h \in AWords BY DEF AWords
<1>4. w # <<>> /\ Head(w) = h /\ Tail(w) = s BY <1>2, <1>3
<1>5. QED BY <1>1, <1>2, <1>4 DEF A!PartOf

LEMMA NothingIsPart ==
  A!PartOf(<<>>, <<>>)
<1>1. <<>> \in Seq(AWords) /\ <<>> \o <<>> = <<>> OBVIOUS
<1>2. QED BY <1>1, NamedEnd

--------------------------------
(* The volume: a tree of entries, a folder before what is in it. *)
RootE == [did |-> 2, parent |-> 1, name |-> Volume]
FoldersOf(t) == {e.did : e \in t} \ {0}
GoodTree(t, last) ==
  /\ t \subseteq AEntries /\ RootE \in t /\ last \in 2..MaxDid
  /\ \A e \in t : /\ e.did # 1 /\ e.did <= last /\ e.parent # 0
                  /\ e.parent = 1 \/ e.did = 2 => e = RootE
                  /\ e = RootE \/ \E x \in t : x.did = e.parent
  /\ \A e, x \in t : (e.did = x.did /\ e.did # 0) \/ (e.parent = x.parent /\ e.name = x.name) => e = x
Rising(t) == \A e \in t : e.did = 0 \/ e.parent < e.did
PathIn(t, d, name) == <<Volume>> \o A!Climb(<<t>>, d, MaxDid).names \o <<name>>

LEMMA TreeFind ==
  ASSUME NEW t, NEW x
  PROVE  A!FindDid(<<t>>, x) = {e \in t : e.did = x}
  BY DEF A!FindDid

LEMMA TreeFolder ==
  ASSUME NEW t, NEW last, GoodTree(t, last)
  PROVE  /\ Typed(<<t>>) /\ 2 \in FoldersOf(t)
         /\ FoldersOf(t) \subseteq 2..last /\ last \in Nat /\ 2 <= last /\ last <= MaxDid /\ MaxDid \in Nat
         /\ \A e \in t : e.did # 0 => /\ e.did \in FoldersOf(t) /\ A!FindDid(<<t>>, e.did) = {e}
                                      /\ e.parent \in FoldersOf(t) \/ e.did = 2
         /\ \A x \in FoldersOf(t) : \E e \in t : e.did = x
  BY AfpAssumption, TreeFind DEF GoodTree, Typed, RootE, FoldersOf, AEntries, ADids

(* Each step up leads to a folder with a smaller id. *)
LEMMA WayUp ==
  ASSUME NEW t, NEW last, GoodTree(t, last), Rising(t), NEW d \in FoldersOf(t)
  PROVE  \A n \in Nat : /\ A!Climb(<<t>>, d, n).did \in FoldersOf(t)
                        /\ A!Climb(<<t>>, d, n).did = 2 \/ A!Climb(<<t>>, d, n).did <= d - n
<1> DEFINE P(n, x) == x \in FoldersOf(t) /\ (x = 2 \/ x <= d - n)
           T == {n \in Nat : P(n, A!Climb(<<t>>, d, n).did)}
<1>1. 0 \in T BY ClimbLaw, TreeFolder
<1>2. ASSUME NEW n \in Nat, n \in T
      PROVE  n + 1 \in T
  <2>1. PICK p, x : p = A!Climb(<<t>>, d, n) /\ x = p.did OBVIOUS
  <2>2. x \in FoldersOf(t) /\ (x = 2 \/ x <= d - n) /\ x \in Nat /\ x >= 2 /\ d \in Nat
    BY <1>2, <2>1, TreeFolder
  <2>3. A!Climb(<<t>>, d, n + 1) = Up(<<t>>, p) BY <2>1, ClimbLaw
  <2>4. CASE x = 2 BY <2>1, <2>2, <2>3, <2>4 DEF Up, A!Root
  <2>5. CASE x # 2
    <3>1. PICK e \in t : e.did = x BY <2>2, TreeFolder
    <3>2. A!FindDid(<<t>>, x) = {e} /\ e.parent \in FoldersOf(t) /\ e.parent < x
      BY <2>2, <2>5, <3>1, TreeFolder DEF Rising
    <3>3. Up(<<t>>, p).did = e.parent BY <2>1, <2>2, <2>5, <3>2 DEF Up, A!Root
    <3>4. e.parent \in Nat /\ e.parent <= d - (n + 1) BY <2>2, <2>5, <3>2, TreeFolder
    <3>5. P(n + 1, e.parent) BY <3>2, <3>4
    <3>6. QED BY <2>3, <3>3, <3>5
  <2>6. QED BY <2>4, <2>5
<1> HIDE DEF T
<1>3. Nat \subseteq T BY <1>1, <1>2, Inductive
<1>4. QED BY <1>3 DEF T

(* At the last level the climb is at the root; on the way every folder's *)
(* parent is on the way. *)
On(t, d) == {A!Climb(<<t>>, d, n).did : n \in 0..MaxDid}
LEMMA WayEnds ==
  ASSUME NEW t, NEW last, GoodTree(t, last), Rising(t), NEW d \in FoldersOf(t)
  PROVE  /\ A!Climb(<<t>>, d, MaxDid).did = 2 /\ Arrived(<<t>>, A!Climb(<<t>>, d, MaxDid))
         /\ d \in On(t, d) /\ On(t, d) \subseteq FoldersOf(t)
         /\ \A x \in On(t, d) : x <= A!Root \/ \A e \in A!FindDid(<<t>>, x) : e.parent \in On(t, d)
<1>1. MaxDid \in Nat /\ d \in Nat /\ d <= MaxDid /\ FoldersOf(t) \subseteq Nat \ {0, 1}
  <2>1. FoldersOf(t) \subseteq 2..last /\ last \in Nat /\ last <= MaxDid /\ MaxDid \in Nat BY TreeFolder
  <2>2. QED BY <2>1
<1>2. \A n \in Nat : /\ A!Climb(<<t>>, d, n).did \in FoldersOf(t)
                     /\ A!Climb(<<t>>, d, n).did = 2 \/ A!Climb(<<t>>, d, n).did <= d - n
  BY WayUp
<1>3. A!Climb(<<t>>, d, MaxDid).did = 2 BY <1>1, <1>2
<1>4. Arrived(<<t>>, A!Climb(<<t>>, d, MaxDid)) BY <1>3 DEF Arrived, A!Root
<1>5. d \in On(t, d) BY <1>1, ClimbLaw DEF On
<1>6. On(t, d) \subseteq FoldersOf(t) BY <1>1, <1>2 DEF On
<1>7. ASSUME NEW x \in On(t, d), ~(x <= A!Root), NEW e \in A!FindDid(<<t>>, x)
      PROVE  e.parent \in On(t, d)
  <2>1. PICK n \in 0..MaxDid : x = A!Climb(<<t>>, d, n).did BY DEF On
  <2>2. x \in FoldersOf(t) /\ x \in Nat /\ x > 2 /\ x <= d - n BY <1>1, <1>2, <1>7, <2>1 DEF A!Root
  <2>3. n + 1 \in 0..MaxDid /\ n \in Nat BY <1>1, <2>1, <2>2
  <2>4. A!FindDid(<<t>>, x) = {e} BY <1>7, <2>2, TreeFolder
  <2>5. PICK p : p = A!Climb(<<t>>, d, n) OBVIOUS
  <2>6. A!Climb(<<t>>, d, n + 1) = Up(<<t>>, p) /\ p.did = x BY <2>1, <2>3, <2>5, ClimbLaw
  <2>7. Up(<<t>>, p).did = e.parent BY <1>7, <2>4, <2>6 DEF Up
  <2>8. QED BY <2>3, <2>6, <2>7 DEF On
<1>8. QED BY <1>3, <1>4, <1>5, <1>6, <1>7

(* What get_folder gives is a name, whatever the table has. *)
LEMMA FolderTyped ==
  ASSUME NEW table, Typed(table), NEW did \in ADids, NEW vol
  PROVE  A!GetFolder(vol, table, did) \in Seq(AWords) /\ Len(A!GetFolder(vol, table, did)) <= NestLimit
<1>1. PICK top, over : top = A!Climb(table, did, NestLimit) /\ over = A!FindDid(table, top.did) OBVIOUS
<1>2. NestLimit \in Nat /\ NestLimit > 0 BY AfpAssumption
<1>3. top.did \in ADids /\ top.names \in Seq(ANames) /\ Len(top.names) <= NestLimit
  BY <1>1, <1>2, ClimbTyped DEF Climbed
<1>4. PICK w : w = IF over = {} THEN "id" ELSE (CHOOSE e \in over : TRUE).name OBVIOUS
<1>5. w \in AWords BY <1>1, <1>3, <1>4 DEF AWords, Typed, AEntries, ANames
<1>6. top.names \in Seq(AWords) BY <1>3 DEF ANames, AWords
<1>7. /\ <<"id">> \in Seq(AWords) /\ Len(<<"id">>) = 1 /\ <<>> \in Seq(AWords) /\ Len(<<>>) = 0
      /\ <<Volume>> \o top.names \in Seq(AWords) /\ Len(<<Volume>> \o top.names) = 1 + Len(top.names)
      /\ <<w>> \o top.names \in Seq(AWords) /\ Len(<<w>> \o top.names) = 1 + Len(top.names)
  BY <1>5, <1>6 DEF AWords
<1>8. A!GetFolder(vol, table, did) = IF vol = "unknown" THEN <<"id">> ELSE IF Len(top.names) = NestLimit THEN <<>>
                                     ELSE IF vol = "named" THEN <<Volume>> \o top.names ELSE <<w>> \o top.names
  BY <1>1, <1>4 DEF A!GetFolder
<1>9. Len(top.names) \in Nat BY <1>3
<1>10. QED BY <1>2, <1>3, <1>7, <1>8, <1>9

LEMMA PathTyped ==
  ASSUME NEW table, Typed(table), NEW did \in ADids, NEW vol, NEW name \in AWords
  PROVE  /\ A!MakePath(vol, table, did, <<name>>) \in Seq(AWords)
         /\ Len(A!MakePath(vol, table, did, <<name>>)) <= NestLimit + 1
  BY FolderTyped, AfpAssumption DEF A!MakePath

(* What a table tells of the folders of a tree is true. *)
Truly(table, t) == \A e \in t : e.did # 0 => A!FindDid(table, e.did) \subseteq {e}

LEMMA TrueClimb ==
  ASSUME NEW t, NEW last, GoodTree(t, last), Rising(t), NEW table, Truly(table, t), NEW d \in FoldersOf(t)
  PROVE  \A n \in Nat : \E k \in Nat : A!Climb(table, d, n) = A!Climb(<<t>>, d, k)
<1> DEFINE T == {n \in Nat : \E k \in Nat : A!Climb(table, d, n) = A!Climb(<<t>>, d, k)}
<1>1. 0 \in T BY ClimbLaw
<1>2. ASSUME NEW n \in Nat, n \in T
      PROVE  n + 1 \in T
  <2>1. PICK k \in Nat : A!Climb(table, d, n) = A!Climb(<<t>>, d, k) BY <1>2
  <2>2. PICK p : p = A!Climb(<<t>>, d, k) OBVIOUS
  <2>3. A!Climb(table, d, n + 1) = Up(table, p) /\ A!Climb(<<t>>, d, k + 1) = Up(<<t>>, p)
    BY <2>1, <2>2, ClimbLaw
  <2>4. p.did \in FoldersOf(t) BY <2>2, WayUp
  <2>5. PICK e \in t : e.did = p.did /\ e.did # 0 BY <2>4 DEF FoldersOf
  <2>6. A!FindDid(table, p.did) \subseteq {e} /\ A!FindDid(<<t>>, p.did) = {e} BY <2>5, TreeFolder DEF Truly
  <2>7. Up(table, p) = p \/ Up(table, p) = Up(<<t>>, p) BY <2>6 DEF Up
  <2>8. QED BY <2>1, <2>2, <2>3, <2>7
<1> HIDE DEF T
<1>3. Nat \subseteq T BY <1>1, <1>2, Inductive
<1>4. QED BY <1>3 DEF T

LEMMA PathPart ==
  ASSUME NEW t, NEW last, GoodTree(t, last), Rising(t), NEW table, Typed(table), Truly(table, t),
         NEW d \in FoldersOf(t), NEW vol, NEW name \in AWords
  PROVE  A!PartOf(A!MakePath(vol, table, d, <<name>>), PathIn(t, d, name))
<1>1. PICK top, over : top = A!Climb(table, d, NestLimit) /\ over = A!FindDid(table, top.did) OBVIOUS
<1>2. NestLimit \in Nat /\ MaxDid \in Nat /\ d \in ADids /\ Typed(<<t>>) BY TreeFolder, AfpAssumption DEF ADids
<1>3. PICK k \in Nat : top = A!Climb(<<t>>, d, k) BY <1>1, <1>2, TrueClimb
<1>4. top.did \in FoldersOf(t) /\ top.names \in Seq(ANames) /\ (Len(top.names) = NestLimit \/ Arrived(table, top))
  BY <1>1, <1>2, <1>3, ClimbTyped, WayUp DEF Climbed
<1>5. PICK full : full = A!Climb(<<t>>, d, MaxDid).names OBVIOUS
<1>6. PICK q \in Seq(ANames) : full = q \o top.names
  <2>1. CASE k <= MaxDid BY <1>2, <1>3, <1>5, <2>1, ClimbGrows DEF Ends2
  <2>2. CASE ~(k <= MaxDid)
    <3>1. top = A!Climb(<<t>>, d, MaxDid) BY <1>2, <1>3, <2>2, WayEnds, ClimbStays
    <3>2. <<>> \in Seq(ANames) /\ top.names = <<>> \o top.names BY <1>4
    <3>3. QED BY <1>5, <3>1, <3>2
  <2>3. QED BY <2>1, <2>2
<1>7. PICK v, w, n, s, x : v = <<Volume>> /\ w = <<name>> /\ n = top.names /\ s = n \o w /\ x = v \o q OBVIOUS
<1>8. /\ v \in Seq(AWords) /\ w \in Seq(AWords) /\ n \in Seq(AWords) /\ q \in Seq(AWords)
  BY <1>4, <1>7 DEF ANames, AWords
<1>9. s \in Seq(AWords) /\ x \in Seq(AWords) BY <1>7, <1>8, ConcatProperties
<1>10. PathIn(t, d, name) = x \o s
  <2>1. PathIn(t, d, name) = v \o (q \o n) \o w BY <1>5, <1>6, <1>7 DEF PathIn
  <2>2. v \o (q \o n) = (v \o q) \o n BY <1>8, ConcatAssociative
  <2>3. (x \o n) \o w = x \o (n \o w) BY <1>8, <1>9, ConcatAssociative
  <2>4. QED BY <1>7, <2>1, <2>2, <2>3
<1>15. x \o s = (x \o n) \o w /\ x \o n \in Seq(AWords)
  <2>1. (x \o n) \o w = x \o (n \o w) BY <1>8, <1>9, ConcatAssociative
  <2>2. x \o n \in Seq(AWords) BY <1>8, <1>9, ConcatProperties
  <2>3. QED BY <1>7, <2>1, <2>2
<1>11. CASE vol = "unknown" BY <1>7, <1>8, <1>10, <1>11, <1>15, NamedEnd DEF A!MakePath, A!GetFolder
<1>12. CASE vol # "unknown" /\ Len(n) = NestLimit
  <2>1. A!MakePath(vol, table, d, <<name>>) = <<>> \o w /\ <<>> \o w = w
    BY <1>1, <1>7, <1>8, <1>12 DEF A!MakePath, A!GetFolder
  <2>2. QED BY <1>8, <1>10, <1>15, <2>1, NamedEnd
<1>13. CASE vol # "unknown" /\ Len(n) # NestLimit
  <2>1. PICK h : h = IF vol = "named" THEN Volume ELSE IF over = {} THEN "id" ELSE (CHOOSE e \in over : TRUE).name
    OBVIOUS
  <2>2. A!MakePath(vol, table, d, <<name>>) = (<<h>> \o n) \o w
    BY <1>1, <1>7, <1>13, <2>1 DEF A!MakePath, A!GetFolder
  <2>3. h \in {Volume, "id"}
    <3>1. CASE vol # "named" /\ over # {}
      <4>1. PICK e \in t : e.did = top.did /\ e.did # 0 BY <1>4 DEF FoldersOf
      <4>2. over = {e}
        <5>1. A!FindDid(table, e.did) \subseteq {e} BY <4>1 DEF Truly
        <5>2. QED BY <1>1, <3>1, <4>1, <5>1
      <4>3. top.did <= 2 BY <1>1, <1>4, <1>7, <1>13, <3>1 DEF Arrived, A!Root
      <4>4. e.did = 2
        <5>1. FoldersOf(t) \subseteq 2..last /\ last \in Nat BY TreeFolder
        <5>2. QED BY <1>4, <4>1, <4>3, <5>1
      <4>5. e.name = Volume BY <4>4 DEF GoodTree, RootE
      <4>6. QED BY <2>1, <3>1, <4>2, <4>5
    <3>2. QED BY <2>1, <3>1
  <2>4. (<<h>> \o n) \o w = <<h>> \o s
    <3>1. h \in AWords BY <2>3 DEF AWords
    <3>2. <<h>> \in Seq(AWords) BY <3>1
    <3>3. (<<h>> \o n) \o w = <<h>> \o (n \o w) BY <1>8, <3>2, ConcatAssociative
    <3>4. QED BY <1>7, <3>3
  <2>5. QED BY <1>9, <1>10, <2>2, <2>3, <2>4, NamedEnd
<1>14. QED BY <1>7, <1>11, <1>12, <1>13

(* With every folder on the way known the path is the true one. *)
LEMMA PathExact ==
  ASSUME NEW t, NEW last, GoodTree(t, last), Rising(t), NEW table, NEW d \in FoldersOf(t), NEW name,
         \A x \in On(t, d) : x <= A!Root \/ A!FindDid(table, x) = A!FindDid(<<t>>, x),
         ~(Len(A!Climb(<<t>>, d, MaxDid).names) >= NestLimit)
  PROVE  A!MakePath("named", table, d, <<name>>) = PathIn(t, d, name)
<1>1. NestLimit \in Nat /\ MaxDid \in Nat /\ d \in ADids /\ Typed(<<t>>) BY TreeFolder, AfpAssumption DEF ADids
<1>2. PICK S : S = On(t, d) OBVIOUS
<1>3. d \in S /\ \A x \in S : x <= A!Root \/ \A e \in A!FindDid(<<t>>, x) : e.parent \in S BY <1>2, WayEnds
<1>4. \A x \in S : x <= A!Root \/ (A!FindDid(<<t>>, x) = A!FindDid(table, x) /\ \A e \in A!FindDid(<<t>>, x) : e.parent \in S)
  BY <1>2, <1>3
<1>5. A!Climb(<<t>>, d, NestLimit) = A!Climb(table, d, NestLimit)
  <2>1. PICK u : u = <<t>> OBVIOUS
  <2>2. \A x \in S : x <= A!Root \/ (A!FindDid(u, x) = A!FindDid(table, x) /\ \A e \in A!FindDid(u, x) : e.parent \in S)
    BY <1>4, <2>1
  <2>3. \A m \in Nat : A!Climb(u, d, m) = A!Climb(table, d, m) BY <1>3, <2>2, SameWay
  <2>4. QED BY <1>1, <2>1, <2>3
<1>6. PICK p, z : p = A!Climb(<<t>>, d, NestLimit) /\ z = A!Climb(<<t>>, d, MaxDid) OBVIOUS
<1>7. /\ Len(p.names) = NestLimit \/ Arrived(<<t>>, p)
      /\ p.names \in Seq(ANames) /\ z.names \in Seq(ANames) /\ ~(Len(z.names) >= NestLimit)
  BY <1>1, <1>6, ClimbTyped DEF Climbed
<1>8. p = z BY <1>1, <1>6, <1>7, WayEnds, ClimbStays, ClimbGrows
<1>9. Len(p.names) # NestLimit BY <1>1, <1>7, <1>8
<1>10. QED BY <1>5, <1>6, <1>8, <1>9 DEF A!MakePath, A!GetFolder, PathIn

(* The path of a folder that stays is the same afterwards. *)
LEMMA PathStays ==
  ASSUME NEW t, NEW last, GoodTree(t, last), NEW u, NEW last2, GoodTree(u, last2),
         \A e \in t : e.did \in FoldersOf(u) => e \in u,
         NEW d \in FoldersOf(t), d \in FoldersOf(u), NEW name
  PROVE  PathIn(u, d, name) = PathIn(t, d, name)
<1>1. PICK S : S = FoldersOf(t) \cap FoldersOf(u) OBVIOUS
<1>2. ASSUME NEW x \in S, ~(x <= A!Root)
      PROVE  A!FindDid(<<t>>, x) = A!FindDid(<<u>>, x) /\ \A e \in A!FindDid(<<t>>, x) : e.parent \in S
  <2>1. PICK e \in t : e.did = x /\ x # 0 BY <1>1 DEF FoldersOf
  <2>2. e \in u BY <1>1, <2>1
  <2>3. e.did # 2 BY <1>2, <2>1 DEF A!Root
  <2>4. A!FindDid(<<t>>, x) = {e} /\ e.parent \in FoldersOf(t) BY <2>1, <2>3, TreeFolder
  <2>5. A!FindDid(<<u>>, x) = {e} /\ e.parent \in FoldersOf(u) BY <2>1, <2>2, <2>3, TreeFolder
  <2>6. QED BY <1>1, <2>4, <2>5
<1>3. MaxDid \in Nat /\ d \in S BY <1>1, TreeFolder
<1>4. A!Climb(<<t>>, d, MaxDid) = A!Climb(<<u>>, d, MaxDid) BY <1>2, <1>3, SameWay
<1>5. QED BY <1>4 DEF PathIn

LEMMA SameCard ==
  ASSUME NEW S
  PROVE  A!Cardinality(S) = Cardinality(S) /\ (A!IsFiniteSet(S) <=> IsFiniteSet(S))
  BY DEF A!Cardinality, Cardinality, A!IsFiniteSet, IsFiniteSet

--------------------------------
(* insert_dir on a table with one entry for each id. *)
GoodTable(table) ==
  /\ table \in Seq(SUBSET AEntries) /\ Len(table) <= MapCount
  /\ \A i \in 1..Len(table) : IsFiniteSet(table[i]) /\ Cardinality(table[i]) <= MapSize + 1
  /\ \A i, j \in 1..Len(table) : \A d \in table[i], e \in table[j] : d.did = e.did => i = j /\ d = e

LEMMA InTable ==
  ASSUME NEW table, GoodTable(table), NEW x, NEW e
  PROVE  e \in A!FindDid(table, x) <=> \E i \in 1..Len(table) : e \in table[i] /\ e.did = x
  BY DEF GoodTable, A!FindDid

LEMMA TableFacts ==
  ASSUME NEW table, GoodTable(table)
  PROVE  /\ Typed(table)
         /\ \A x, d, e : d \in A!FindDid(table, x) /\ e \in A!FindDid(table, x) => d = e
         /\ \A x : A!FindDid(table, x) \subseteq AEntries
  BY InTable DEF GoodTable, Typed

LEMMA NoTable ==
  GoodTable(<<>>) /\ \A x : A!FindDid(<<>>, x) = {}
  BY AfpAssumption DEF GoodTable, A!FindDid

Kept1(table, did, id) == [i \in DOMAIN table |-> {e \in table[i] : e.did \notin {did, id}}]
Full(k) == k # <<>> /\ Cardinality(k[1]) >= MapSize
Room(k) == IF Full(k) /\ Len(k) >= MapCount THEN SubSeq(k, 1, Len(k) - 1) ELSE k
Maps(k) == IF Full(k) \/ Room(k) = <<>> THEN <<{}>> \o Room(k) ELSE Room(k)

LEMMA InsertDirIs ==
  ASSUME NEW table, NEW did, NEW id, NEW name
  PROVE  A!InsertDir(table, did, id, name) =
           [Maps(Kept1(table, did, id)) EXCEPT ![1] = @ \cup A!FindDid(table, did)
              \cup {[did |-> id, parent |-> did, name |-> name]}]
<1>1. PICK k : k = [i \in DOMAIN table |-> {e \in table[i] : e.did \notin {did, id}}] OBVIOUS
<1>2. PICK r : r = IF Full(k) /\ Len(k) >= MapCount THEN SubSeq(k, 1, Len(k) - 1) ELSE k OBVIOUS
<1>3. PICK m : m = IF Full(k) \/ r = <<>> THEN <<{}>> \o r ELSE r OBVIOUS
<1>4. A!InsertDir(table, did, id, name) =
        [m EXCEPT ![1] = @ \cup A!FindDid(table, did) \cup {[did |-> id, parent |-> did, name |-> name]}]
  BY <1>1, <1>2, <1>3, SameCard DEF A!InsertDir, Full
<1>5. m = Maps(Kept1(table, did, id)) BY <1>1, <1>2, <1>3 DEF Maps, Room, Kept1
<1>6. QED BY <1>4, <1>5

LEMMA KeptOnes ==
  ASSUME NEW table, GoodTable(table), NEW did, NEW id, NEW k, k = Kept1(table, did, id)
  PROVE  /\ GoodTable(k) /\ Len(k) = Len(table)
         /\ \A i \in 1..Len(k) : k[i] = {e \in table[i] : e.did \notin {did, id}}
<1>1. DOMAIN table = 1..Len(table) /\ Len(table) \in Nat /\ \A i \in 1..Len(table) : table[i] \in SUBSET AEntries
  BY DEF GoodTable
<1>2. k = [i \in 1..Len(table) |-> {e \in table[i] : e.did \notin {did, id}}] BY <1>1 DEF Kept1
<1>3. Len(k) = Len(table) /\ \A i \in 1..Len(k) : k[i] = {e \in table[i] : e.did \notin {did, id}} BY <1>1, <1>2
<1>4. k \in [1..Len(table) -> SUBSET AEntries] BY <1>1, <1>2
<1>5. k \in Seq(SUBSET AEntries) BY <1>1, <1>4
<1>6. ASSUME NEW i \in 1..Len(k)
      PROVE  IsFiniteSet(k[i]) /\ Cardinality(k[i]) <= MapSize + 1
  BY <1>3, FS_Subset, FS_CardinalityType, AfpAssumption DEF GoodTable
<1>7. QED BY <1>3, <1>5, <1>6 DEF GoodTable

(* The maps that are kept, with one in front that has room. *)
LEMMA MapsMade ==
  ASSUME NEW k, GoodTable(k), NEW m, m = Maps(k)
  PROVE  /\ GoodTable(m) /\ Len(m) \in Nat \ {0} /\ Cardinality(m[1]) + 1 <= MapSize
         /\ \A x : A!FindDid(m, x) \subseteq A!FindDid(k, x)
         /\ ~(Full(k) /\ Len(k) >= MapCount) => \A x : A!FindDid(m, x) = A!FindDid(k, x)
         /\ \A x : \A e \in A!FindDid(k, x) : e \in A!FindDid(m, x) \/ (Full(k) /\ Len(k) >= MapCount /\ e \in k[Len(k)])
<1>1. PICK r, n, o : r = Room(k) /\ n = Len(r) /\ o = IF Full(k) \/ r = <<>> THEN 1 ELSE 0 OBVIOUS
<1>2. /\ MapSize \in Nat /\ MapSize >= 1 /\ MapCount \in Nat /\ MapCount >= 2
      /\ k \in Seq(SUBSET AEntries) /\ Len(k) \in Nat /\ Len(k) <= MapCount
  BY AfpAssumption DEF GoodTable
<1>3. /\ r \in Seq(SUBSET AEntries) /\ n \in Nat /\ n <= Len(k) /\ \A i \in 1..n : r[i] = k[i]
      /\ IF Full(k) /\ Len(k) >= MapCount THEN n = Len(k) - 1 ELSE n = Len(k)
  BY <1>1, <1>2 DEF Room
<1>4. /\ m \in Seq(SUBSET AEntries) /\ Len(m) = n + o /\ o \in {0, 1}
      /\ \A i \in 1..Len(m) : IF o = 1 /\ i = 1 THEN m[i] = {} ELSE i - o \in 1..n /\ m[i] = k[i - o]
  <2>1. CASE o = 1
    <3>1. m = <<{}>> \o r BY <1>1, <2>1 DEF Maps
    <3>2. m \in Seq(SUBSET AEntries) /\ Len(m) = 1 + n /\ m[1] = {} /\ \A i \in 2..(n + 1) : m[i] = r[i - 1]
      BY <1>1, <1>3, <3>1
    <3>3. \A i \in 2..(n + 1) : i - 1 \in 1..n BY <1>3
    <3>4. QED BY <1>3, <2>1, <3>2, <3>3
  <2>2. CASE o # 1 BY <1>1, <1>3, <2>2 DEF Maps
  <2>3. QED BY <2>1, <2>2
<1>5. Len(m) \in Nat \ {0} /\ Len(m) <= MapCount BY <1>1, <1>2, <1>3, <1>4
<1>6. ASSUME NEW i \in 1..Len(m)
      PROVE  IsFiniteSet(m[i]) /\ Cardinality(m[i]) <= MapSize + 1 /\ (i = 1 => Cardinality(m[i]) + 1 <= MapSize)
  <2>1. CASE o = 1 /\ i = 1
    <3>1. m[i] = {} BY <1>4, <2>1
    <3>2. QED BY <1>2, <3>1, FS_EmptySet
  <2>2. CASE ~(o = 1 /\ i = 1)
    <3>1. i - o \in 1..Len(k) /\ m[i] = k[i - o]
      <4>1. i - o \in 1..n /\ m[i] = k[i - o] BY <1>4, <2>2
      <4>2. QED BY <1>2, <1>3, <4>1
    <3>2. IsFiniteSet(m[i]) /\ Cardinality(m[i]) <= MapSize + 1 BY <3>1 DEF GoodTable
    <3>3. ASSUME i = 1
          PROVE  Cardinality(m[i]) + 1 <= MapSize
      BY <1>1, <1>2, <1>4, <2>2, <3>1, <3>2, <3>3, FS_CardinalityType DEF Room, Full
    <3>4. QED BY <3>2, <3>3
  <2>3. QED BY <2>1, <2>2
<1>13. ASSUME NEW i \in 1..Len(m), NEW e \in m[i]
       PROVE  i - o \in 1..Len(k) /\ e \in k[i - o]
  <2>1. i - o \in 1..n /\ m[i] = k[i - o] BY <1>4
  <2>2. QED BY <1>2, <1>3, <2>1
<1>7. ASSUME NEW i \in 1..Len(m), NEW j \in 1..Len(m), NEW d \in m[i], NEW e \in m[j], d.did = e.did
      PROVE  i = j /\ d = e
  BY <1>4, <1>5, <1>7, <1>13 DEF GoodTable
<1>8. GoodTable(m) BY <1>4, <1>5, <1>6, <1>7 DEF GoodTable
<1>9. ASSUME NEW x, NEW e \in A!FindDid(m, x)
      PROVE  e \in A!FindDid(k, x)
  BY <1>8, <1>13, InTable
<1>10. ASSUME NEW x, NEW e \in A!FindDid(k, x)
       PROVE  e \in A!FindDid(m, x) \/ (Full(k) /\ Len(k) >= MapCount /\ e \in k[Len(k)])
  <2>1. PICK i \in 1..Len(k) : e \in k[i] /\ e.did = x BY InTable
  <2>2. CASE i \in 1..n
    <3>1. i + o \in 1..Len(m) /\ ~(o = 1 /\ i + o = 1) /\ (i + o) - o = i BY <1>3, <1>4, <2>2
    <3>2. e \in m[i + o] BY <1>4, <2>1, <3>1
    <3>3. QED BY <1>8, <2>1, <3>1, <3>2, InTable
  <2>3. CASE i \notin 1..n BY <1>2, <1>3, <2>1, <2>3
  <2>4. QED BY <2>2, <2>3
<1>11. Cardinality(m[1]) + 1 <= MapSize BY <1>5, <1>6
<1>12. \A x : A!FindDid(m, x) \subseteq A!FindDid(k, x) BY <1>9
<1>14. ~(Full(k) /\ Len(k) >= MapCount) => \A x : A!FindDid(m, x) = A!FindDid(k, x) BY <1>10, <1>12
<1>15. QED BY <1>5, <1>8, <1>10, <1>11, <1>12, <1>14

LEMMA Inserted ==
  ASSUME NEW table, GoodTable(table), NEW did \in ADids, NEW id \in ADids, did # id, NEW name \in ANames,
         NEW out, out = A!InsertDir(table, did, id, name),
         NEW e, e = [did |-> id, parent |-> did, name |-> name]
  PROVE  /\ GoodTable(out) /\ A!FindDid(out, id) = {e} /\ A!FindDid(out, did) = A!FindDid(table, did)
         /\ \A x : x \notin {did, id} => A!FindDid(out, x) = A!FindDid(Maps(Kept1(table, did, id)), x)
         /\ \A x : x \notin {did, id} => A!FindDid(out, x) \subseteq A!FindDid(table, x)
<1>1. PICK k, m, P : k = Kept1(table, did, id) /\ m = Maps(k) /\ P = A!FindDid(table, did) OBVIOUS
<1>2. /\ GoodTable(k) /\ Len(k) = Len(table)
      /\ \A i \in 1..Len(k) : k[i] = {d \in table[i] : d.did \notin {did, id}}
  BY <1>1, KeptOnes
<1>3. /\ GoodTable(m) /\ Len(m) \in Nat \ {0} /\ Cardinality(m[1]) + 1 <= MapSize
      /\ \A x : A!FindDid(m, x) \subseteq A!FindDid(k, x)
  BY <1>1, <1>2, MapsMade
<1>4. e \in AEntries /\ e.did = id /\ P \subseteq AEntries /\ \A c, d \in P : c = d
  BY <1>1, TableFacts DEF AEntries
<1>5. \A d \in P : d.did = did BY <1>1 DEF A!FindDid
<1>6. ASSUME NEW i \in 1..Len(m), NEW d \in m[i]
      PROVE  d.did \notin {did, id} /\ d \in A!FindDid(table, d.did)
  <2>1. d \in A!FindDid(m, d.did) BY <1>3, InTable
  <2>2. d \in A!FindDid(k, d.did) BY <1>3, <2>1
  <2>3. PICK j \in 1..Len(k) : d \in k[j] BY <1>2, <2>2, InTable
  <2>4. d \in table[j] /\ d.did \notin {did, id} /\ j \in 1..Len(table) BY <1>2, <2>3
  <2>5. QED BY <2>4, InTable
<1>7. PICK first : first = (m[1] \cup P) \cup {e} OBVIOUS
<1>8. /\ 1 \in 1..Len(m) /\ m \in Seq(SUBSET AEntries) /\ Len(m) <= MapCount /\ first \in SUBSET AEntries
      /\ IsFiniteSet(m[1])
  BY <1>3, <1>4, <1>7 DEF GoodTable
<1>9. out = [m EXCEPT ![1] = first] BY <1>1, <1>7, InsertDirIs
<1>10. /\ out \in Seq(SUBSET AEntries) /\ Len(out) = Len(m) /\ out[1] = first
       /\ \A i \in 1..Len(m) : i # 1 => out[i] = m[i]
  BY <1>8, <1>9
<1>11. IsFiniteSet(first) /\ Cardinality(first) <= MapSize + 1
  <2>1. PICK Q : Q = m[1] \cup P OBVIOUS
  <2>2. IsFiniteSet(Q) /\ Cardinality(Q) <= MapSize
    <3>1. Cardinality(m[1]) \in Nat /\ MapSize \in Nat BY <1>8, FS_CardinalityType, AfpAssumption
    <3>2. CASE P = {} BY <1>3, <1>8, <2>1, <3>1, <3>2
    <3>3. CASE P # {}
      <4>1. PICK p : P = {p} BY <1>4, <3>3
      <4>2. Q = m[1] \cup {p} BY <2>1, <4>1
      <4>3. IsFiniteSet(Q) /\ (Cardinality(Q) = Cardinality(m[1]) \/ Cardinality(Q) = Cardinality(m[1]) + 1)
        BY <1>8, <4>2, FS_AddElement
      <4>4. QED BY <1>3, <3>1, <4>3
    <3>4. QED BY <3>2, <3>3
  <2>3. first = Q \cup {e} /\ Cardinality(Q) \in Nat /\ MapSize \in Nat
    BY <1>7, <2>1, <2>2, FS_CardinalityType, AfpAssumption
  <2>4. IsFiniteSet(first) /\ (Cardinality(first) = Cardinality(Q) \/ Cardinality(first) = Cardinality(Q) + 1)
    BY <2>2, <2>3, FS_AddElement
  <2>5. QED BY <2>2, <2>3, <2>4
<1>12. ASSUME NEW i \in 1..Len(out)
       PROVE  IsFiniteSet(out[i]) /\ Cardinality(out[i]) <= MapSize + 1
  BY <1>3, <1>10, <1>11 DEF GoodTable
<1>13. ASSUME NEW i \in 1..Len(out), NEW j \in 1..Len(out), NEW c \in out[i], NEW d \in out[j], c.did = d.did
       PROVE  i = j /\ c = d
  BY <1>3, <1>4, <1>5, <1>6, <1>7, <1>10, <1>13 DEF GoodTable
<1>14. GoodTable(out) BY <1>8, <1>10, <1>12, <1>13 DEF GoodTable
<1>15. \A d : \A i \in 1..Len(out) : d \in out[i] => d \in m[i] \/ d \in P \/ d = e BY <1>7, <1>10
<1>16. A!FindDid(out, id) = {e}
  <2>1. e \in A!FindDid(out, id) BY <1>4, <1>7, <1>8, <1>10, <1>14, InTable
  <2>2. QED BY <1>14, <2>1, TableFacts
<1>17. A!FindDid(out, did) = P
  <2>1. ASSUME NEW d \in A!FindDid(out, did)
        PROVE  d \in P
    BY <1>4, <1>6, <1>10, <1>14, <1>15, InTable
  <2>2. ASSUME NEW d \in P
        PROVE  d \in A!FindDid(out, did)
    BY <1>5, <1>7, <1>8, <1>10, <1>14, InTable
  <2>3. QED BY <2>1, <2>2
<1>18. ASSUME NEW x, x \notin {did, id}
       PROVE  A!FindDid(out, x) = A!FindDid(m, x) /\ A!FindDid(out, x) \subseteq A!FindDid(table, x)
  <2>1. ASSUME NEW d \in A!FindDid(out, x)
        PROVE  d \in A!FindDid(m, x) /\ d \in A!FindDid(table, x)
    BY <1>3, <1>4, <1>5, <1>6, <1>10, <1>14, <1>15, <1>18, InTable
  <2>2. ASSUME NEW d \in A!FindDid(m, x)
        PROVE  d \in A!FindDid(out, x)
    BY <1>3, <1>7, <1>10, <1>14, InTable
  <2>3. QED BY <2>1, <2>2
<1>19. QED BY <1>1, <1>14, <1>16, <1>17, <1>18

(* With no more folders than fit one map and one more, nothing is lost: *)
(* a map that is dropped is empty. *)
LEMMA NothingDropped ==
  ASSUME NEW table, GoodTable(table), NEW did \in ADids, NEW id \in ADids, did # id, NEW name \in ANames,
         NEW Q, Q \subseteq ADids, id \in Q, Cardinality(Q) <= MapSize + 1,
         \A x : A!FindDid(table, x) # {} => x \in Q
  PROVE  \A x : x \notin {did, id} => A!FindDid(A!InsertDir(table, did, id, name), x) = A!FindDid(table, x)
<1>1. PICK k, m : k = Kept1(table, did, id) /\ m = Maps(k) OBVIOUS
<1>2. /\ GoodTable(k) /\ Len(k) = Len(table)
      /\ \A i \in 1..Len(k) : k[i] = {d \in table[i] : d.did \notin {did, id}}
  BY <1>1, KeptOnes
<1>3. /\ MapSize \in Nat /\ MapCount \in Nat /\ MapCount >= 2 /\ Len(k) \in Nat
      /\ IsFiniteSet(Q) /\ Cardinality(Q) \in Nat
  <2>1. MaxDid \in Nat /\ IsFiniteSet(0..MaxDid) BY AfpAssumption, FS_Interval
  <2>2. IsFiniteSet(Q) BY <2>1, FS_Subset DEF ADids
  <2>3. QED BY <1>2, <2>2, FS_CardinalityType, AfpAssumption DEF GoodTable
<1>4. ASSUME Full(k), Len(k) >= MapCount, NEW e \in k[Len(k)]
      PROVE  FALSE
  <2>1. 1 \in 1..Len(k) /\ Len(k) \in 1..Len(k) /\ Len(k) # 1 BY <1>3, <1>4
  <2>2. PICK W, f, R : W = k[1] \cup {e} /\ f = [d \in W |-> d.did] /\ R = Q \ {id} OBVIOUS
  <2>3. e \notin k[1] /\ IsFiniteSet(k[1]) /\ Cardinality(k[1]) >= MapSize
    BY <1>2, <1>4, <2>1 DEF GoodTable, Full
  <2>4. IsFiniteSet(W) /\ Cardinality(W) = Cardinality(k[1]) + 1 /\ Cardinality(k[1]) \in Nat
    BY <2>2, <2>3, FS_AddElement, FS_CardinalityType
  <2>5. IsFiniteSet(R) /\ Cardinality(R) = Cardinality(Q) - 1 BY <1>3, <2>2, FS_RemoveElement
  <2>6. ASSUME NEW d \in W
        PROVE  d.did \in R
    <3>1. PICK i \in 1..Len(k) : d \in k[i] BY <1>4, <2>1, <2>2
    <3>2. d \in table[i] /\ d.did \notin {did, id} /\ i \in 1..Len(table) BY <1>2, <3>1
    <3>3. d \in A!FindDid(table, d.did) BY <3>2, InTable
    <3>4. QED BY <2>2, <3>2, <3>3
  <2>7. f \in [W -> R] BY <2>2, <2>6
  <2>8. Cardinality(R) < Cardinality(W) BY <1>3, <2>3, <2>4, <2>5
  <2>9. PICK c, d \in W : c # d /\ f[c] = f[d] BY <2>4, <2>5, <2>7, <2>8, FS_PigeonHole
  <2>10. PICK i, j \in 1..Len(k) : c \in k[i] /\ d \in k[j] BY <1>4, <2>1, <2>2, <2>9
  <2>11. c.did = d.did BY <2>2, <2>9
  <2>12. QED BY <1>2, <2>9, <2>10, <2>11 DEF GoodTable
<1>5. ASSUME NEW x, x \notin {did, id}
      PROVE  A!FindDid(A!InsertDir(table, did, id, name), x) = A!FindDid(table, x)
  <2>1. PICK out : out = A!InsertDir(table, did, id, name) OBVIOUS
  <2>2. /\ \A y : y \notin {did, id} => A!FindDid(out, y) = A!FindDid(Maps(Kept1(table, did, id)), y)
        /\ \A y : y \notin {did, id} => A!FindDid(out, y) \subseteq A!FindDid(table, y)
    <3>1. PICK e : e = [did |-> id, parent |-> did, name |-> name] OBVIOUS
    <3>2. QED BY <2>1, <3>1, Inserted
  <2>3. ASSUME NEW e \in A!FindDid(table, x)
        PROVE  e \in A!FindDid(m, x)
    <3>1. PICK i \in 1..Len(table) : e \in table[i] /\ e.did = x BY InTable
    <3>2. e \in k[i] /\ i \in 1..Len(k) BY <1>2, <1>5, <3>1
    <3>3. e \in A!FindDid(k, x) BY <1>2, <3>1, <3>2, InTable
    <3>4. \A y : \A d \in A!FindDid(k, y) : d \in A!FindDid(m, y) \/ (Full(k) /\ Len(k) >= MapCount /\ d \in k[Len(k)])
      BY <1>1, <1>2, MapsMade
    <3>5. QED BY <1>4, <3>3, <3>4
  <2>4. QED BY <1>1, <1>5, <2>1, <2>2, <2>3
<1>6. QED BY <1>5

--------------------------------
(* AFP: what holds of the dispatcher and of the hosts whatever happens. *)
LogIns == {"login", "loginCont"}
Places == {"createDir", "createFile", "delete"}
OneNames == Places \cup {"openFork"}
Pairs == {"rename", "move", "copy", "exchange"}
ForkCmds == {"read", "write", "closeFork"}

ANamed == {s \in Seq(AWords) : Len(s) <= NestLimit + 2}
Temps == [cmd : afpScenario.commands \cup {A!None}, id : 0..afpScenario.requests, did : ADids,
          fork : Forks \cup {A!None}, length : 0..1, name1 : ANamed, name2 : ANamed, isdir : BOOLEAN]
AForks == [known : BOOLEAN, name : ANamed, readed : Nat, written : Nat]
AOpens == [open : BOOLEAN, path : Seq(AWords), readed : Nat, written : Nat]
AUsers == [name : AfpUsers \cup {A!None}, in : BOOLEAN]
AfpTypes ==
  /\ afpScenario \in AfpCases /\ afpRequests \in Nat /\ afpRequests <= afpScenario.requests
  /\ afpTemp \in Temps /\ afpTemp.id <= afpRequests
  /\ loginName \in ANamed /\ volume \in {"unknown", "unnamed", "named"}
  /\ GoodTable(dirTable) /\ isDirs \subseteq ADids \X ANames /\ seen \subseteq ADids \ {0}
  /\ forkMap \in [Forks -> AForks] /\ \A f \in Forks : ~forkMap[f].known => forkMap[f] = A!NoFork
  /\ forks \in [Forks -> AOpens] /\ user \in AUsers /\ (user.in => user.name \in AfpUsers)

AfpTree == GoodTree(tree, lastDid) /\ ("renamed" \notin afpOdd => Rising(tree))

(* What the client asks for, and what is remembered of it. *)
AfpAsks(r) ==
  /\ r.id \in 1..afpRequests /\ r.cmd \in afpScenario.commands
  /\ r.cmd \in LogIns => r.name \in AfpUsers
  /\ r.cmd \in OneNames \cup Pairs => r.did \in 2..lastDid /\ r.name \in AfpNames
  /\ r.cmd \in Pairs => r.toDid \in 2..lastDid /\ r.to \in AfpNames
  /\ r.cmd = "params" => r.did \in 1..lastDid /\ r.name \in ANames \cup {A!None}
  /\ r.cmd \in ForkCmds => r.fork \in Forks
Part(path, did, name) ==
  "renamed" \notin afpOdd /\ did \in FoldersOf(tree) => A!PartOf(path, PathIn(tree, did, name))
AfpHolds(r) ==
  afpTemp.id = r.id =>
    /\ r.cmd # "logout" /\ afpTemp.cmd = r.cmd
    /\ r.cmd = "login" => afpTemp.name1 = <<r.name>>
    /\ r.cmd = "loginCont" /\ "otherName" \notin afpOdd => afpTemp.name1 \in {<<>>, <<r.name>>}
    /\ r.cmd \in ForkCmds => afpTemp.fork = r.fork
    /\ r.cmd \in Places => afpTemp.did = r.did /\ afpTemp.name1 = <<r.name>>
    /\ r.cmd = "params" => afpTemp.did = r.did /\ afpTemp.name1 = IF r.name = A!None THEN <<>> ELSE <<r.name>>
    /\ r.cmd \in Pairs \cup {"openFork"} => Part(afpTemp.name1, r.did, r.name)
    /\ r.cmd \in Pairs => Part(afpTemp.name2, r.toDid, r.to)
AfpAsked ==
  /\ IsFiniteSet(afpAsked) /\ \A r \in afpAsked : AfpAsks(r) /\ AfpHolds(r)
  /\ \A q, r \in afpAsked : q.id = r.id \/ (q.cmd \in LogIns /\ r.cmd \in LogIns) => q = r
  /\ \A r \in afpAsked : r.cmd \in LogIns => ~user.in /\ (r.cmd = "loginCont" => r.name = user.name)
AfpCounts ==
  \A f \in Forks : /\ forkMap[f].readed + Cardinality(afpAsked) <= afpRequests
                   /\ forkMap[f].written + Cardinality(afpAsked) <= afpRequests

(* The table has true entries, of ids that were given. *)
AfpNamed ==
  /\ \A x : A!FindDid(dirTable, x) # {} => x <= lastDid
  /\ "renamed" \notin afpOdd => Truly(dirTable, tree)

(* Without what misleads it the dispatcher has the user's name or none, *)
(* and of an open fork that it knows the end of the path and no more bytes.*)
InPart(f) ==
  forks[f].open /\ forkMap[f].known =>
    /\ A!PartOf(forkMap[f].name, forks[f].path)
    /\ forkMap[f].readed <= forks[f].readed /\ forkMap[f].written <= forks[f].written
AfpFollows ==
  afpOdd \cap A!Misleading = {} =>
    /\ \A r \in afpAsked : r.cmd \notin LogIns \cup {"logout"} => user.in
    /\ user.in => loginName \in {<<>>, A!Who}
    /\ \A f \in Forks : InPart(f)
AfpSound == AfpTypes /\ AfpTree /\ AfpAsked /\ AfpCounts /\ AfpNamed /\ AfpFollows

AfpEvents ==
  \A e \in afpEvents : /\ e.path \in ANamed /\ e.to \in ANamed /\ e.user \in ANamed
                       /\ e.size \in 0..afpScenario.requests
AfpHeard == AfpEvents /\ A!NothingInvented

--------------------------------
(* Until something unusual happens the request under way is the one that *)
(* is remembered, and the tables are the server's. *)
AfpTold(r) ==
  /\ afpTemp.id = r.id
  /\ r.cmd \in LogIns => afpTemp.name1 = <<r.name>>
  /\ r.cmd \in {"openFork"} \cup Pairs => afpTemp.name1 = PathIn(tree, r.did, r.name)
  /\ r.cmd \in Pairs => afpTemp.name2 = PathIn(tree, r.toDid, r.to)
  /\ r.cmd \in Places => /\ mounted /\ r.did \in FoldersOf(tree) /\ On(tree, r.did) \subseteq seen \cup {2}
                         /\ ~(Len(A!Climb(<<tree>>, r.did, MaxDid).names) >= NestLimit)
  /\ r.cmd = "delete" => /\ afpTemp.isdir <=> \E e \in A!At(r.did, r.name) : e.did # 0
                         /\ <<r.did, r.name>> \notin isDirs
  /\ r.cmd \in {"read", "write"} => forkMap[r.fork].known /\ afpTemp.length = 1
AfpCopies(s, o) ==
  /\ s.known <=> o.open
  /\ s.name = o.path /\ s.readed = o.readed /\ s.written = o.written
AfpFound ==
  /\ \A x : A!FindDid(dirTable, x) # {} => x \in seen
  /\ \A e \in tree : e.did \in seen => e \in A!FindDid(dirTable, e.did)
  /\ \A p \in isDirs : \E e \in tree : e.did # 0 /\ p = <<e.parent, e.name>>
  /\ \A e \in tree : e.did \in seen =>
       \/ <<e.parent, e.name>> \in isDirs
       \/ \E r \in afpAsked : r.cmd = "delete" /\ r.did = e.parent /\ r.name = e.name
AfpKept ==
  /\ \A q, r \in afpAsked : q = r
  /\ \A r \in afpAsked : IF r.cmd = "logout" THEN user = A!Nobody ELSE AfpTold(r)
  /\ user.in => loginName = A!Who
  /\ ~user.in /\ user.name # A!None /\ afpAsked = {} => afpTemp.name1 = <<user.name>>
  /\ mounted => volume = "named"
  /\ \A f \in Forks : AfpCopies(forkMap[f], forks[f])
  /\ AfpFound
AfpUsual == A!Usual => AfpKept /\ afpEvents = afpFacts
AfpInv == AfpSound /\ AfpHeard /\ AfpUsual

LEMMA AfpConstants ==
  ASSUME AfpTypes
  PROVE  /\ NestLimit \in Nat /\ MapSize \in Nat /\ MaxDid \in Nat /\ NestLimit > 0 /\ MaxDid >= 2
         /\ afpScenario.requests \in Nat /\ afpScenario.users \subseteq AfpUsers /\ afpScenario.names \subseteq AfpNames
         /\ A!None \notin AfpUsers \cup AfpNames \cup Forks \cup {Volume}
  BY AfpAssumption DEF AfpTypes, A!None, None

LEMMA ShortNames ==
  /\ <<>> \in ANamed /\ \A x \in AWords : <<x>> \in ANamed
  /\ AfpUsers \cup ANames \subseteq AWords /\ AfpNames \subseteq ANames
  BY AfpAssumption DEF AWords, ANames, ANamed

--------------------------------
(* A request of the client. *)
Same == UNCHANGED <<user, mounted, forks>>
AfpAsking(r, told, kinds) ==
  /\ r.id = afpRequests + 1 /\ A!Send(r, told, kinds)
  /\ \/ /\ Same /\ told = {}
        /\ \/ /\ r.cmd \in LogIns /\ ~user.in /\ r.name \in AfpUsers /\ \A q \in afpAsked : q.cmd \notin LogIns
              /\ r.cmd = "loginCont" => r.name = user.name /\ kinds = A!OtherName(afpTemp.name1, user.name)
           \/ r.cmd = "openVol" /\ user.in
           \/ r.cmd = "params" /\ user.in /\ r.did \in FoldersOf(tree) \cup {1} /\ r.name \in ANames \cup {A!None}
           \/ /\ r.cmd \in OneNames /\ user.in /\ mounted /\ r.did \in FoldersOf(tree) /\ r.name \in AfpNames
              /\ A!Unseen({r.did} \cup IF r.cmd = "delete" THEN {e.did : e \in A!At(r.did, r.name)} \ {0} ELSE {}) \subseteq kinds
              /\ A!Deep({r.did}) \subseteq kinds
           \/ /\ r.cmd \in Pairs /\ user.in /\ mounted /\ r.did \in FoldersOf(tree) /\ r.toDid \in FoldersOf(tree)
              /\ r.name \in AfpNames /\ r.to \in AfpNames
              /\ A!Unseen({r.did, r.toDid}) \subseteq kinds /\ A!Deep({r.did, r.toDid}) \subseteq kinds
           \/ r.cmd \in ForkCmds /\ user.in /\ r.fork \in Forks
     \/ /\ r.cmd = "logout" /\ user.in /\ user' = A!Nobody /\ mounted' = FALSE
        /\ forks' = [f \in Forks |-> A!Closed] /\ told = {A!Event("logout", A!Who, <<>>, <<>>, 0)}
        /\ A!When(afpAsked # {}, "unanswered") \subseteq kinds

LEMMA AskedIs ==
  ASSUME NEW cmd, NEW did, NEW name, NEW toDid, NEW to, NEW r, r = A!Request(cmd, did, name, toDid, to)
  PROVE  /\ r.cmd = cmd /\ r.id = afpRequests + 1 /\ r.did = did /\ r.name = name /\ r.toDid = toDid /\ r.to = to
  BY DEF A!Request

LEMMA AfpRequestIs ==
  ASSUME AfpSound, A!Next, ~A!Respond
  PROVE  \E r, told, kinds : AfpAsking(r, told, kinds)
<1>1. /\ A!Folders = FoldersOf(tree) /\ afpScenario.users \subseteq AfpUsers /\ afpScenario.names \subseteq AfpNames
      /\ FoldersOf(tree) \subseteq 2..lastDid /\ user \in AUsers /\ AfpNames \subseteq ANames /\ Volume \in ANames
  BY AfpConstants, TreeFolder, ShortNames DEF AfpSound, AfpTypes, AfpTree, A!Folders, FoldersOf, ANames
<1>2. CASE A!Login BY <1>1, <1>2, AskedIs DEF A!Login, AfpAsking, Same, LogIns, AUsers
<1>3. CASE A!OpenVol BY <1>3, AskedIs DEF AfpAsking, A!OpenVol, Same
<1>4. CASE A!OneName
  <2>1. PICK cmd \in afpScenario.commands \cap {"params", "createDir", "createFile", "delete", "openFork"},
             d \in A!Folders \cup {1}, name \in afpScenario.names \cup {Volume, A!None} :
          /\ (d = 1 => cmd = "params") /\ (name = Volume <=> d = 1) /\ (name = A!None => cmd = "params")
          /\ A!Send(A!Request(cmd, d, name, 0, A!None), {},
               IF cmd = "params" THEN {} ELSE A!Deep({d}) \cup
                 A!Unseen({d} \cup IF cmd = "delete" THEN {e.did : e \in A!At(d, name)} \ {0} ELSE {}))
    BY <1>4 DEF A!OneName
  <2>2. PICK r, k : /\ r = A!Request(cmd, d, name, 0, A!None)
                    /\ k = IF cmd = "params" THEN {} ELSE A!Deep({d}) \cup
                             A!Unseen({d} \cup IF cmd = "delete" THEN {e.did : e \in A!At(d, name)} \ {0} ELSE {})
    OBVIOUS
  <2>3. /\ r.cmd = cmd /\ r.id = afpRequests + 1 /\ r.did = d /\ r.name = name /\ A!Send(r, {}, k)
        /\ Same /\ user.in /\ mounted
    BY <1>4, <2>1, <2>2, AskedIs DEF A!OneName, Same
  <2>4. CASE cmd = "params" BY <1>1, <2>1, <2>3, <2>4 DEF AfpAsking
  <2>5. CASE cmd # "params"
    <3>1. cmd \in OneNames /\ d # 1 BY <2>1, <2>5 DEF OneNames, Places
    <3>2. d \in FoldersOf(tree) /\ name \in AfpNames BY <1>1, <2>1, <3>1, <2>5
    <3>3. /\ A!Unseen({r.did} \cup IF r.cmd = "delete" THEN {e.did : e \in A!At(r.did, r.name)} \ {0} ELSE {}) \subseteq k
          /\ A!Deep({r.did}) \subseteq k
      BY <2>2, <2>3, <2>5
    <3>4. AfpAsking(r, {}, k) BY <2>3, <3>1, <3>2, <3>3 DEF AfpAsking
    <3>5. QED BY <3>4
  <2>6. QED BY <2>4, <2>5
<1>5. CASE A!TwoNames
  <2>1. PICK cmd \in afpScenario.commands \cap {"rename", "move", "copy", "exchange"},
             d \in A!Folders, toDid \in A!Folders, name \in afpScenario.names, to \in afpScenario.names :
          A!Send(A!Request(cmd, d, name, toDid, to), {}, A!Unseen({d, toDid}) \cup A!Deep({d, toDid}))
    BY <1>5 DEF A!TwoNames
  <2>2. PICK r, k : r = A!Request(cmd, d, name, toDid, to) /\ k = A!Unseen({d, toDid}) \cup A!Deep({d, toDid})
    OBVIOUS
  <2>3. /\ r.cmd = cmd /\ r.id = afpRequests + 1 /\ r.did = d /\ r.name = name /\ r.toDid = toDid /\ r.to = to
        /\ A!Send(r, {}, k) /\ Same /\ user.in /\ mounted
    BY <1>5, <2>1, <2>2, AskedIs DEF A!TwoNames, Same
  <2>4. AfpAsking(r, {}, k) BY <1>1, <2>1, <2>2, <2>3 DEF AfpAsking, Pairs
  <2>5. QED BY <2>4
<1>6. CASE A!OnOpenFork BY <1>6 DEF A!OnOpenFork, A!OnFork, A!Request, AfpAsking, Same, ForkCmds
<1>7. CASE A!Logout BY <1>7, AskedIs DEF AfpAsking, A!Logout
<1>8. QED BY <1>2, <1>3, <1>4, <1>5, <1>6, <1>7 DEF A!Next

--------------------------------
(* How it begins. *)
LEMMA FirstTree ==
  ASSUME A!Init
  PROVE  GoodTree(tree, lastDid) /\ Rising(tree)
<1> DEFINE s == afpScenario
<1>1. s \in AfpCases /\ tree = s.tree \cup {RootE} /\ lastDid = CHOOSE d \in A!Folders : \A x \in A!Folders : x <= d
  BY DEF A!Init, RootE, A!Root
<1>2. /\ MaxDid \in Nat /\ MaxDid >= 2 /\ s.tree \subseteq [parent : 2..MaxDid, name : AfpNames, did : 0..MaxDid]
      /\ \A e \in s.tree : /\ e.did = 0 \/ e.parent < e.did
                           /\ e.parent = 2 \/ \E x \in s.tree : x.did = e.parent
      /\ \A e, x \in s.tree : (e.did = x.did /\ e.did # 0) \/ (e.parent = x.parent /\ e.name = x.name) => e = x
  BY <1>1, AfpAssumption
<1> HIDE DEF s
<1>3. RootE \in AEntries /\ RootE.did = 2 /\ RootE.parent = 1 BY <1>2 DEF RootE, AEntries, ADids, ANames
<1>4. ASSUME NEW e \in s.tree
      PROVE  /\ e \in AEntries /\ e.did \in 0..MaxDid /\ e.parent \in 2..MaxDid /\ (e.did = 0 \/ e.did > 2)
  BY <1>2 DEF AEntries, ADids, ANames
<1>5. A!Folders \subseteq 2..MaxDid /\ 2 \in A!Folders BY <1>1, <1>2, <1>3, <1>4 DEF A!Folders
<1>6. \E d \in A!Folders : \A x \in A!Folders : x <= d
  <2> DEFINE T == {n \in Nat : MaxDid - n \in A!Folders}
  <2>1. MaxDid - 2 \in T BY <1>2, <1>5
  <2>2. PICK n \in T : \A y \in T : n <= y BY <2>1, Least
  <2>3. ASSUME NEW x \in A!Folders
        PROVE  x <= MaxDid - n
    BY <1>2, <1>5, <2>2
  <2>4. QED BY <2>2, <2>3
<1>7. lastDid \in A!Folders /\ \A x \in A!Folders : x <= lastDid BY <1>1, <1>6
<1>8. lastDid \in 2..MaxDid BY <1>5, <1>7
<1>9. tree \subseteq AEntries /\ RootE \in tree BY <1>1, <1>3, <1>4
<1>10. ASSUME NEW e \in tree
       PROVE  /\ e.did # 1 /\ e.did <= lastDid /\ e.parent # 0
              /\ e.parent = 1 \/ e.did = 2 => e = RootE
              /\ e = RootE \/ \E x \in tree : x.did = e.parent
              /\ e.did = 0 \/ e.parent < e.did
  <2>1. CASE e = RootE BY <1>3, <1>8, <2>1
  <2>2. CASE e \in s.tree
    <3>1. e.did = 0 \/ e.did \in A!Folders BY DEF A!Folders
    <3>2. e.did <= lastDid
      <4>1. CASE e.did \in A!Folders BY <1>7, <4>1
      <4>2. CASE e.did = 0 BY <1>2, <1>8, <4>2
      <4>3. QED BY <3>1, <4>1, <4>2
    <3>3. \E x \in tree : x.did = e.parent BY <1>1, <1>2, <1>3, <2>2
    <3>4. QED BY <1>2, <1>4, <2>2, <3>2, <3>3
  <2>3. QED BY <1>1, <2>1, <2>2
<1>11. ASSUME NEW e \in tree, NEW x \in tree,
              (e.did = x.did /\ e.did # 0) \/ (e.parent = x.parent /\ e.name = x.name)
       PROVE  e = x
  BY <1>1, <1>2, <1>3, <1>4, <1>11
<1>12. QED BY <1>8, <1>9, <1>10, <1>11 DEF GoodTree, Rising

LEMMA AfpBegins ==
  ASSUME A!Init
  PROVE  AfpInv
<1>1. A!TheUser \in AfpUsers BY AfpAssumption DEF A!TheUser
<1>2. /\ afpScenario \in AfpCases /\ afpScenario.start \in {"fresh", "mounted", "joined"} /\ afpScenario.requests \in Nat
      /\ afpTemp = A!Blank /\ dirTable = <<>> /\ isDirs = {} /\ forkMap = [f \in Forks |-> A!NoFork]
      /\ forks = [f \in Forks |-> A!Closed] /\ afpAsked = {} /\ afpRequests = 0 /\ seen = {} /\ afpEvents = {} /\ afpFacts = {}
      /\ user = IF afpScenario.start = "fresh" THEN A!Nobody ELSE [name |-> A!TheUser, in |-> TRUE]
      /\ mounted = (afpScenario.start # "fresh")
      /\ loginName = (IF afpScenario.start = "mounted" THEN <<A!TheUser>> ELSE <<>>)
      /\ volume = (IF afpScenario.start = "mounted" THEN "named" ELSE "unknown")
      /\ afpOdd = IF afpScenario.start = "joined" THEN {"joined"} ELSE {}
  BY AfpAssumption DEF A!Init
<1>3. GoodTree(tree, lastDid) /\ Rising(tree) BY FirstTree
<1>4. /\ <<>> \in ANamed /\ <<A!TheUser>> \in ANamed /\ <<>> \in Seq(AWords) /\ MaxDid \in Nat
  BY <1>1, ShortNames, AfpAssumption
<1>5. /\ A!Blank \in Temps /\ A!NoFork \in AForks /\ A!Closed \in AOpens /\ user \in AUsers /\ (user.in => user.name \in AfpUsers)
      /\ A!Blank.id = 0 /\ ~A!NoFork.known /\ ~A!Closed.open
  <2>1. A!Blank \in Temps BY <1>2, <1>4 DEF A!Blank, Temps, ADids
  <2>2. A!NoFork \in AForks /\ A!Closed \in AOpens BY <1>4 DEF A!NoFork, A!Closed, AForks, AOpens
  <2>3. user \in AUsers /\ (user.in => user.name \in AfpUsers) BY <1>1, <1>2 DEF AUsers, A!Nobody
  <2>4. QED BY <2>1, <2>2, <2>3 DEF A!Blank, A!NoFork, A!Closed
<1>6. AfpTypes BY <1>2, <1>4, <1>5, NoTable DEF AfpTypes
<1>7. IsFiniteSet({}) /\ Cardinality({}) = 0 BY FS_EmptySet
<1>8. AfpAsked /\ AfpCounts BY <1>2, <1>7 DEF AfpAsked, AfpCounts, A!NoFork
<1>9. AfpNamed BY <1>2, NoTable DEF AfpNamed, Truly
<1>10. user.in => loginName \in {<<>>, A!Who} BY <1>2 DEF A!Who, A!Nobody
<1>11. AfpFollows BY <1>2, <1>10 DEF AfpFollows, InPart, A!Closed
<1>12. AfpHeard BY <1>2 DEF AfpHeard, AfpEvents, A!NothingInvented
<1>13. ASSUME A!Usual PROVE AfpKept
  BY <1>2, <1>13, NoTable DEF A!Usual, A!Who, A!Nobody, AfpCopies, A!NoFork, A!Closed, AfpFound, AfpKept
<1>14. QED BY <1>2, <1>3, <1>6, <1>8, <1>9, <1>11, <1>12, <1>13 DEF AfpInv, AfpSound, AfpUsual, AfpTree

--------------------------------
(* What is remembered of a request. *)
LEMMA TookIs ==
  ASSUME AfpTypes, NEW r, NEW t, t = A!Took(r)
  PROVE  /\ t.id = r.id /\ t.cmd = r.cmd
         /\ r.cmd = "login" => t.name1 = <<r.name>>
         /\ r.cmd = "loginCont" => t.name1 = afpTemp.name1
         /\ r.cmd \in ForkCmds => t.fork = r.fork
         /\ r.cmd \in {"read", "write"} => t.length = 1
         /\ r.cmd \in Places => t.did = r.did /\ t.name1 = <<r.name>> /\ t.isdir = (<<r.did, r.name>> \in isDirs)
         /\ r.cmd = "params" => t.did = r.did /\ t.name1 = IF r.name = A!None THEN <<>> ELSE <<r.name>>
         /\ r.cmd \in Pairs \cup {"openFork"} => t.name1 = A!MakePath(volume, dirTable, r.did, <<r.name>>)
         /\ r.cmd \in Pairs => t.name2 = A!MakePath(volume, dirTable, r.toDid, <<r.to>>)
<1>1. PICK b : b = [afpTemp EXCEPT !.cmd = r.cmd, !.id = r.id] OBVIOUS
<1>2. /\ b.id = r.id /\ b.cmd = r.cmd /\ b.name1 = afpTemp.name1
      /\ DOMAIN b = {"cmd", "id", "did", "fork", "length", "name1", "name2", "isdir"}
  BY <1>1 DEF AfpTypes, Temps
<1>3. CASE r.cmd \in {"login", "loginCont", "openVol"} BY <1>1, <1>2, <1>3 DEF A!Took, ForkCmds, Places, Pairs
<1>4. CASE r.cmd = "openFork" BY <1>1, <1>2, <1>4 DEF A!Took, A!PathOf, ForkCmds, Places, Pairs
<1>5. CASE r.cmd \in ForkCmds BY <1>1, <1>2, <1>5 DEF A!Took, ForkCmds, Places, Pairs
<1>6. CASE r.cmd \in Places BY <1>1, <1>2, <1>6 DEF A!Took, Places, ForkCmds, Pairs
<1>7. CASE r.cmd = "params" BY <1>1, <1>2, <1>7 DEF A!Took, ForkCmds, Places, Pairs
<1>8. CASE r.cmd \in Pairs BY <1>1, <1>2, <1>8 DEF A!Took, A!PathOf, Pairs, ForkCmds, Places
<1>9. CASE r.cmd \notin {"login", "loginCont", "openVol", "openFork", "params"} \cup ForkCmds \cup Places \cup Pairs
  BY <1>1, <1>2, <1>9 DEF A!Took, ForkCmds, Places, Pairs
<1>10. QED BY <1>3, <1>4, <1>5, <1>6, <1>7, <1>8, <1>9

(* The fields that a command may set. *)
LEMMA TempSet ==
  ASSUME NEW b \in Temps
  PROVE  /\ \A c \in afpScenario.commands, i \in 0..afpScenario.requests : [b EXCEPT !.cmd = c, !.id = i] \in Temps
         /\ \A n \in ANamed : [b EXCEPT !.name1 = n] \in Temps
         /\ \A f \in Forks : [b EXCEPT !.fork = f] \in Temps
         /\ \A d \in ADids, n \in ANamed, i \in BOOLEAN : [b EXCEPT !.did = d, !.name1 = n, !.isdir = i] \in Temps
         /\ \A d \in ADids, n \in ANamed : [b EXCEPT !.did = d, !.name1 = n] \in Temps
         /\ \A f \in Forks, n \in ANamed : [b EXCEPT !.name1 = n, !.fork = f, !.length = 1] \in Temps
         /\ \A m, n \in ANamed : [b EXCEPT !.name1 = m, !.name2 = n] \in Temps
<1>1. PICK S1, S2, S3 : S1 = afpScenario.commands \cup {A!None} /\ S2 = 0..afpScenario.requests /\ S3 = Forks \cup {A!None}
  OBVIOUS
<1>2. Temps = [cmd : S1, id : S2, did : ADids, fork : S3, length : 0..1, name1 : ANamed, name2 : ANamed, isdir : BOOLEAN]
  BY <1>1 DEF Temps
<1>3. \A c \in S1, i \in S2 : [b EXCEPT !.cmd = c, !.id = i] \in Temps BY <1>2
<1>4. (\A n \in ANamed : [b EXCEPT !.name1 = n] \in Temps) /\ \A f \in S3 : [b EXCEPT !.fork = f] \in Temps
  BY <1>2
<1>5. \A d \in ADids, n \in ANamed, i \in BOOLEAN : [b EXCEPT !.did = d, !.name1 = n, !.isdir = i] \in Temps
  BY <1>2
<1>6. \A d \in ADids, n \in ANamed : [b EXCEPT !.did = d, !.name1 = n] \in Temps BY <1>2
<1>7. \A f \in S3, n \in ANamed : [b EXCEPT !.name1 = n, !.fork = f, !.length = 1] \in Temps
  <2>1. 1 \in 0..1 OBVIOUS
  <2>2. ASSUME NEW f \in S3, NEW n \in ANamed
        PROVE  [b EXCEPT !.name1 = n, !.fork = f, !.length = 1] \in Temps
    BY <1>2, <2>1
  <2>3. QED BY <2>2
<1>8. \A m, n \in ANamed : [b EXCEPT !.name1 = m, !.name2 = n] \in Temps BY <1>2
<1>9. QED BY <1>1, <1>3, <1>4, <1>5, <1>6, <1>7, <1>8

LEMMA TookTyped ==
  ASSUME AfpTypes, AfpTree, NEW r, r.cmd \in afpScenario.commands, r.id \in 0..afpScenario.requests,
         r.cmd \in LogIns => r.name \in AfpUsers,
         r.cmd \in OneNames \cup Pairs => r.did \in ADids /\ r.name \in AfpNames,
         r.cmd \in Pairs => r.toDid \in ADids /\ r.to \in AfpNames,
         r.cmd = "params" => r.did \in ADids /\ r.name \in ANames \cup {A!None},
         r.cmd \in ForkCmds => r.fork \in Forks
  PROVE  A!Took(r) \in Temps
<1>1. PICK b : b = [afpTemp EXCEPT !.cmd = r.cmd, !.id = r.id] OBVIOUS
<1>2. b \in Temps BY <1>1, TempSet DEF AfpTypes
<1>3. \A n \in ANamed : [b EXCEPT !.name1 = n] \in Temps BY <1>2, TempSet
<1>4. ASSUME NEW d \in ADids, NEW name \in AfpNames
      PROVE  A!MakePath(volume, dirTable, d, <<name>>) \in ANamed
  BY TableFacts, ShortNames, AfpConstants, PathTyped DEF AfpTypes, ANamed
<1>5. <<>> \in ANamed /\ (\A x \in AWords : <<x>> \in ANamed) /\ AfpUsers \cup ANames \subseteq AWords /\ AfpNames \subseteq ANames
  BY ShortNames
<1>6. CASE r.cmd \in {"login", "openVol"} BY <1>1, <1>3, <1>5, <1>6 DEF A!Took, AWords, LogIns
<1>7. CASE r.cmd = "openFork" BY <1>1, <1>3, <1>4, <1>7 DEF A!Took, A!PathOf, OneNames
<1>8. CASE r.cmd = "closeFork" BY <1>1, <1>2, <1>8, TempSet DEF A!Took, ForkCmds
<1>9. CASE r.cmd \in {"read", "write"} BY <1>1, <1>2, <1>9, TempSet DEF AfpTypes, AForks, ForkCmds, A!Took
<1>10. CASE r.cmd \in Places
  <2>1. r.did \in ADids /\ <<r.name>> \in ANamed BY <1>5, <1>10 DEF OneNames
  <2>2. A!Took(r) = [b EXCEPT !.did = r.did, !.name1 = <<r.name>>, !.isdir = <<r.did, r.name>> \in isDirs]
    BY <1>1, <1>10 DEF A!Took, Places
  <2>3. \A d \in ADids, n \in ANamed, i \in BOOLEAN : [b EXCEPT !.did = d, !.name1 = n, !.isdir = i] \in Temps
    BY <1>2, TempSet
  <2>4. (<<r.did, r.name>> \in isDirs) \in BOOLEAN OBVIOUS
  <2>5. [b EXCEPT !.did = r.did, !.name1 = <<r.name>>, !.isdir = <<r.did, r.name>> \in isDirs] \in Temps
    BY <2>1, <2>3, <2>4
  <2>6. QED BY <2>2, <2>5
<1>11. CASE r.cmd = "params" BY <1>1, <1>2, <1>5, <1>11, TempSet DEF A!Took
<1>12. CASE r.cmd \in Pairs BY <1>1, <1>2, <1>4, <1>12, TempSet DEF A!Took, A!PathOf, Pairs
<1>13. CASE r.cmd \notin {"login", "openVol", "openFork", "params"} \cup ForkCmds \cup Places \cup Pairs
  BY <1>1, <1>2, <1>13 DEF A!Took, ForkCmds, Places, Pairs
<1>14. QED BY <1>6, <1>7, <1>8, <1>9, <1>10, <1>11, <1>12, <1>13 DEF ForkCmds

--------------------------------
(* What a request changes: the dispatcher takes it, or misses it, or *)
(* forgets the session. *)
AfpStays(r) ==
  /\ UNCHANGED <<loginName, dirTable, forkMap>> /\ afpEvents' = {} /\ isDirs' \subseteq isDirs
  /\ \/ afpTemp' = afpTemp
     \/ r.cmd # "logout" /\ afpTemp' = A!Took(r)
  /\ volume' = volume \/ (volume = "unknown" /\ volume' = "unnamed")
AfpLeaves(r) ==
  /\ r.cmd = "logout" /\ loginName # <<>> /\ afpEvents' = {A!Event("logout", loginName, <<>>, <<>>, 0)}
  /\ afpTemp' = A!Blank /\ loginName' = <<>> /\ volume' = "unknown" /\ dirTable' = <<>>
  /\ isDirs' = {} /\ forkMap' = [f \in Forks |-> A!NoFork]
AfpLogsOut ==
  /\ user.in /\ user' = A!Nobody /\ mounted' = FALSE /\ forks' = [f \in Forks |-> A!Closed] /\ seen' = {}
  /\ afpFacts' = {A!Event("logout", A!Who, <<>>, <<>>, 0)} /\ (afpAsked # {} => "unanswered" \in afpOdd')
AfpKeepsOn(r) ==
  /\ Same /\ afpFacts' = {} /\ seen' = seen
  /\ r.cmd \in LogIns => /\ ~user.in /\ \A q \in afpAsked : q.cmd \notin LogIns
                         /\ r.cmd = "loginCont" => r.name = user.name
  /\ r.cmd \notin LogIns => user.in
AfpSends(r) ==
  /\ r.id = afpRequests + 1 /\ afpRequests' = afpRequests + 1 /\ afpRequests + 1 <= afpScenario.requests
  /\ afpAsked' = afpAsked \cup {r} /\ UNCHANGED <<afpScenario, tree, lastDid>>
  /\ afpOdd \subseteq afpOdd' /\ (afpAsked # {} => "pipelined" \in afpOdd')
  /\ r.cmd \in afpScenario.commands
  /\ r.cmd \in LogIns => r.name \in AfpUsers
  /\ r.cmd = "loginCont" => afpTemp.name1 \in {<<>>, <<r.name>>} \/ "otherName" \in afpOdd'
  /\ r.cmd \in OneNames \cup Pairs => r.did \in FoldersOf(tree) /\ r.name \in AfpNames
  /\ r.cmd \in Pairs => r.toDid \in FoldersOf(tree) /\ r.to \in AfpNames
  /\ r.cmd = "params" => r.did \in FoldersOf(tree) \cup {1} /\ r.name \in ANames \cup {A!None}
  /\ r.cmd \in ForkCmds => r.fork \in Forks
  /\ AfpStays(r) \/ AfpLeaves(r)
  /\ IF r.cmd = "logout" THEN AfpLogsOut ELSE AfpKeepsOn(r)

LEMMA OnRequestIs ==
  ASSUME NEW r, A!OnRequest(r)
  PROVE  AfpStays(r) \/ AfpLeaves(r)
  BY DEF A!OnRequest, A!LogoutRequest, A!analyzer, AfpStays, AfpLeaves, A!OtherRequest

LEMMA SendIs ==
  ASSUME NEW r, NEW told, NEW kinds, A!Send(r, told, kinds)
  PROVE  /\ r.cmd \in afpScenario.commands /\ A!Possible(r) /\ afpRequests < afpScenario.requests
         /\ afpRequests' = afpRequests + 1 /\ afpAsked' = afpAsked \cup {r} /\ afpFacts' = told
         /\ UNCHANGED <<afpScenario, tree, lastDid>> /\ seen' = (IF r.cmd = "logout" THEN {} ELSE seen)
         /\ afpOdd \subseteq afpOdd' /\ kinds \subseteq afpOdd' /\ (afpAsked # {} => "pipelined" \in afpOdd')
         /\ AfpStays(r) \/ AfpLeaves(r)
         /\ A!OnRequest(r) \/ "lost" \in afpOdd'
  BY OnRequestIs DEF A!Send, A!Missed, A!analyzer, AfpStays, A!When

LEMMA AfpSendsIs ==
  ASSUME AfpSound, NEW r, NEW told, NEW kinds, AfpAsking(r, told, kinds)
  PROVE  AfpSends(r)
<1>1. r.id = afpRequests + 1 /\ A!Send(r, told, kinds) BY DEF AfpAsking
<1>2. /\ r.cmd \in afpScenario.commands /\ afpRequests < afpScenario.requests
      /\ afpRequests' = afpRequests + 1 /\ afpAsked' = afpAsked \cup {r} /\ afpFacts' = told
      /\ UNCHANGED <<afpScenario, tree, lastDid>> /\ seen' = (IF r.cmd = "logout" THEN {} ELSE seen)
      /\ afpOdd \subseteq afpOdd' /\ kinds \subseteq afpOdd' /\ (afpAsked # {} => "pipelined" \in afpOdd')
      /\ AfpStays(r) \/ AfpLeaves(r)
  BY <1>1, SendIs
<1>3. afpRequests + 1 <= afpScenario.requests BY <1>2, AfpConstants DEF AfpSound, AfpTypes
<1>4. CASE r.cmd = "logout"
  <2>1. AfpLogsOut BY <1>2, <1>4 DEF AfpAsking, AfpLogsOut, A!When, LogIns, OneNames, Places, Pairs, ForkCmds
  <2>2. QED BY <1>1, <1>2, <1>3, <1>4, <2>1 DEF AfpSends, LogIns, OneNames, Places, Pairs, ForkCmds
<1>5. CASE r.cmd # "logout"
  <2>1. Same /\ told = {} BY <1>5 DEF AfpAsking
  <2>2. AfpKeepsOn(r) BY <1>2, <1>5, <2>1 DEF AfpAsking, AfpKeepsOn, LogIns, OneNames, Places, Pairs, ForkCmds
  <2>3. r.cmd = "loginCont" => afpTemp.name1 \in {<<>>, <<r.name>>} \/ "otherName" \in afpOdd'
    BY <1>2, <1>5 DEF AfpAsking, LogIns, OneNames, Places, Pairs, ForkCmds, A!OtherName, A!When
  <2>4. r.cmd \in LogIns => r.name \in AfpUsers BY <1>5 DEF AfpAsking, LogIns, OneNames, Places, Pairs, ForkCmds
  <2>5. r.cmd \in OneNames => r.did \in FoldersOf(tree) /\ r.name \in AfpNames
    BY <1>5 DEF AfpAsking, LogIns, OneNames, Places, Pairs, ForkCmds
  <2>6. r.cmd \in Pairs => r.did \in FoldersOf(tree) /\ r.name \in AfpNames /\ r.toDid \in FoldersOf(tree) /\ r.to \in AfpNames
    BY <1>5 DEF AfpAsking, LogIns, OneNames, Places, Pairs, ForkCmds
  <2>7. r.cmd = "params" => r.did \in FoldersOf(tree) \cup {1} /\ r.name \in ANames \cup {A!None}
    BY <1>5 DEF AfpAsking, LogIns, OneNames, Places, Pairs, ForkCmds
  <2>8. r.cmd \in ForkCmds => r.fork \in Forks BY <1>5 DEF AfpAsking, LogIns, OneNames, Places, Pairs, ForkCmds
  <2>9. QED BY <1>1, <1>2, <1>3, <1>5, <2>2, <2>3, <2>4, <2>5, <2>6, <2>7, <2>8 DEF AfpSends
<1>6. QED BY <1>4, <1>5

LEMMA AskedWell ==
  ASSUME AfpSound, NEW r, AfpSends(r)
  PROVE  /\ r.id \in 0..afpScenario.requests /\ r.id \in Nat /\ afpRequests \in Nat
         /\ r.cmd \in OneNames \cup Pairs => r.did \in ADids /\ r.did \in 2..lastDid
         /\ r.cmd \in Pairs => r.toDid \in ADids /\ r.toDid \in 2..lastDid
         /\ r.cmd = "params" => r.did \in ADids /\ r.did \in 1..lastDid
         /\ afpTemp' \in Temps /\ afpTemp'.id <= afpRequests + 1 /\ afpTemp.id \in Nat /\ afpTemp.id <= afpRequests
         /\ AfpLeaves(r) => afpTemp'.id = 0
<1>1. /\ afpRequests \in Nat /\ afpScenario.requests \in Nat /\ afpRequests + 1 <= afpScenario.requests
      /\ r.id = afpRequests + 1 /\ afpTemp \in Temps /\ afpTemp.id <= afpRequests
  BY AfpConstants DEF AfpSound, AfpTypes, AfpSends
<1>2. r.id \in 0..afpScenario.requests /\ r.id \in Nat BY <1>1
<1>3. FoldersOf(tree) \subseteq 2..lastDid /\ lastDid \in Nat /\ 2 <= lastDid /\ lastDid <= MaxDid /\ MaxDid \in Nat
  BY TreeFolder DEF AfpSound, AfpTree
<1>4. 2..lastDid \subseteq ADids /\ 1..lastDid \subseteq ADids /\ 2..lastDid \subseteq 1..lastDid /\ 1 \in 1..lastDid
  BY <1>3 DEF ADids
<1>5. /\ r.cmd \in OneNames \cup Pairs => r.did \in ADids /\ r.did \in 2..lastDid
      /\ r.cmd \in Pairs => r.toDid \in ADids /\ r.toDid \in 2..lastDid
      /\ r.cmd = "params" => r.did \in ADids /\ r.did \in 1..lastDid
  BY <1>3, <1>4 DEF AfpSends
<1>6. A!Took(r) \in Temps /\ A!Took(r).id = r.id BY <1>2, <1>5, TookTyped, TookIs DEF AfpSound, AfpSends
<1>7. A!Blank \in Temps /\ A!Blank.id = 0 BY <1>1, <1>3, ShortNames DEF ADids, A!Blank, Temps
<1>8. afpTemp' \in {afpTemp, A!Took(r), A!Blank} /\ (AfpLeaves(r) => afpTemp' = A!Blank)
  BY DEF AfpSends, AfpStays, AfpLeaves
<1>9. afpTemp.id \in Nat BY <1>1 DEF Temps
<1>10. \A t \in {afpTemp, A!Took(r), A!Blank} : t \in Temps /\ t.id <= afpRequests + 1 BY <1>1, <1>6, <1>7, <1>9
<1>11. afpTemp' \in Temps /\ afpTemp'.id <= afpRequests + 1 /\ (AfpLeaves(r) => afpTemp'.id = 0)
  BY <1>7, <1>8, <1>10
<1>12. QED BY <1>1, <1>2, <1>5, <1>9, <1>11

LEMMA RequestTypes ==
  ASSUME AfpSound, NEW r, AfpSends(r)
  PROVE  AfpTypes' /\ AfpTree'
<1>1. /\ afpRequests' \in Nat /\ afpRequests' <= afpScenario'.requests /\ afpScenario' = afpScenario
  BY AskedWell, AfpConstants DEF AfpSends, AfpSound, AfpTypes
<1>2. Temps' = Temps BY <1>1 DEF Temps
<1>3. afpTemp' \in Temps' /\ afpTemp'.id <= afpRequests' BY <1>2, AskedWell DEF AfpSends
<1>4. /\ A!NoFork \in AForks /\ ~A!NoFork.known /\ A!Closed \in AOpens /\ A!Nobody \in AUsers /\ ~A!Nobody.in
      /\ <<>> \in ANamed /\ GoodTable(<<>>)
  BY ShortNames, NoTable DEF A!NoFork, A!Closed, A!Nobody, AForks, AOpens, AUsers
<1>5. /\ loginName' \in ANamed /\ volume' \in {"unknown", "unnamed", "named"} /\ GoodTable(dirTable)' /\ isDirs' \subseteq ADids \X ANames
      /\ forkMap' \in [Forks -> AForks] /\ \A f \in Forks : ~forkMap'[f].known => forkMap'[f] = A!NoFork
  BY <1>4 DEF AfpStays, AfpSound, AfpTypes, AfpLeaves, AfpSends
<1>6. /\ forks' \in [Forks -> AOpens] /\ user' \in AUsers /\ (user'.in => user'.name \in AfpUsers)
      /\ seen' \subseteq ADids \ {0}
  BY <1>4 DEF AfpSends, AfpLogsOut, AfpKeepsOn, Same, AfpSound, AfpTypes
<1>7. afpScenario' \in AfpCases BY <1>1 DEF AfpSound, AfpTypes
<1>8. AfpTree' BY DEF AfpTree, AfpSends, AfpSound
<1>9. QED BY <1>1, <1>3, <1>5, <1>6, <1>7, <1>8 DEF AfpTypes

LEMMA RequestAsked ==
  ASSUME AfpSound, NEW r, AfpSends(r)
  PROVE  AfpAsked'
<1>1. /\ r.id \in Nat /\ afpRequests \in Nat /\ r.id = afpRequests + 1 /\ afpRequests' = afpRequests + 1
      /\ afpTemp.id \in Nat /\ afpTemp.id <= afpRequests /\ UNCHANGED <<afpScenario, tree, lastDid>>
      /\ afpAsked' = afpAsked \cup {r} /\ afpOdd \subseteq afpOdd'
  BY AskedWell DEF AfpSends
<1>2. \A q \in afpAsked : q.id \in Nat /\ q.id >= 1 /\ q.id <= afpRequests /\ q.id # r.id
  BY <1>1 DEF AfpSound, AfpAsked, AfpAsks
<1>3. \A q \in afpAsked : AfpAsks(q)' BY <1>1 DEF AfpSound, AfpAsked, AfpAsks
<1>4. AfpAsks(r)' BY <1>1, AskedWell DEF AfpSends, AfpAsks
<1>5. afpTemp' \in {afpTemp, A!Took(r), A!Blank} BY DEF AfpSends, AfpStays, AfpLeaves
<1>6. A!Took(r).id = r.id /\ A!Blank.id = 0 BY TookIs DEF AfpSound, A!Blank
<1>7. ASSUME NEW q \in afpAsked
      PROVE  AfpHolds(q)'
  BY <1>1, <1>2, <1>5, <1>6 DEF AfpHolds, AfpSound, AfpAsked, Part
<1>8. AfpHolds(r)'
  <2>1. SUFFICES ASSUME afpTemp'.id = r.id PROVE AfpHolds(r)' BY DEF AfpHolds
  <2>2. afpTemp' # afpTemp /\ ~AfpLeaves(r) BY <1>1, <2>1, AskedWell
  <2>3. r.cmd # "logout" /\ afpTemp' = A!Took(r) BY <2>2 DEF AfpSends, AfpStays
  <2>4. PICK t : t = A!Took(r) OBVIOUS
  <2>5. /\ t.id = r.id /\ t.cmd = r.cmd
        /\ r.cmd = "login" => t.name1 = <<r.name>>
        /\ r.cmd = "loginCont" => t.name1 = afpTemp.name1
        /\ r.cmd \in ForkCmds => t.fork = r.fork
        /\ r.cmd \in Places => t.did = r.did /\ t.name1 = <<r.name>>
        /\ r.cmd = "params" => t.did = r.did /\ t.name1 = IF r.name = A!None THEN <<>> ELSE <<r.name>>
        /\ r.cmd \in Pairs \cup {"openFork"} => t.name1 = A!MakePath(volume, dirTable, r.did, <<r.name>>)
        /\ r.cmd \in Pairs => t.name2 = A!MakePath(volume, dirTable, r.toDid, <<r.to>>)
    BY <2>4, TookIs DEF AfpSound
  <2>6. ASSUME NEW d, NEW n \in AfpNames
        PROVE  Part(A!MakePath(volume, dirTable, d, <<n>>), d, n)
    BY TableFacts, ShortNames, PathPart DEF Part, AfpSound, AfpTree, AfpNamed, AfpTypes
  <2>7. r.cmd \in Pairs \cup {"openFork"} => Part(t.name1, r.did, r.name) BY <2>5, <2>6 DEF AfpSends, OneNames
  <2>8. r.cmd \in Pairs => Part(t.name2, r.toDid, r.to) BY <2>5, <2>6 DEF AfpSends
  <2>9. /\ Part(t.name1, r.did, r.name) => Part(t.name1, r.did, r.name)'
        /\ Part(t.name2, r.toDid, r.to) => Part(t.name2, r.toDid, r.to)'
    BY <1>1 DEF Part
  <2>10. r.cmd = "loginCont" /\ "otherName" \notin afpOdd' => t.name1 \in {<<>>, <<r.name>>}
    BY <2>5 DEF AfpSends
  <2>11. afpTemp' = t BY <2>3, <2>4
  <2>12. QED BY <2>3, <2>5, <2>7, <2>8, <2>9, <2>10, <2>11 DEF AfpHolds
<1>9. IsFiniteSet(afpAsked') BY <1>1, FS_AddElement DEF AfpSound, AfpAsked
<1>10. r.cmd \in LogIns => ~user.in /\ user' = user /\ (\A q \in afpAsked : q.cmd \notin LogIns) /\ (r.cmd = "loginCont" => r.name = user.name)
  BY DEF AfpSends, AfpKeepsOn, Same, LogIns
<1>11. \A p, q \in afpAsked' : p.id = q.id \/ (p.cmd \in LogIns /\ q.cmd \in LogIns) => p = q
  BY <1>1, <1>2, <1>10 DEF AfpSound, AfpAsked
<1>12. user' = user \/ user.in BY DEF AfpSends, AfpKeepsOn, Same, AfpLogsOut
<1>13. \A q \in afpAsked' : q.cmd \in LogIns => ~user'.in /\ (q.cmd = "loginCont" => q.name = user'.name)
  BY <1>1, <1>10, <1>12 DEF AfpSound, AfpAsked
<1>14. \A q \in afpAsked' : AfpAsks(q)' /\ AfpHolds(q)' BY <1>1, <1>3, <1>4, <1>7, <1>8
<1>15. QED BY <1>9, <1>11, <1>13, <1>14 DEF AfpAsked

LEMMA RequestRest ==
  ASSUME AfpSound, NEW r, AfpSends(r)
  PROVE  AfpCounts' /\ AfpNamed' /\ AfpFollows'
<1>1. /\ r.id \in Nat /\ afpRequests \in Nat /\ r.id = afpRequests + 1 /\ afpRequests' = afpRequests + 1
      /\ UNCHANGED <<tree, lastDid>> /\ afpAsked' = afpAsked \cup {r} /\ afpOdd \subseteq afpOdd'
  BY AskedWell DEF AfpSends
<1>2. r \notin afpAsked BY <1>1 DEF AfpSound, AfpAsked, AfpAsks
<1>3. /\ IsFiniteSet(afpAsked) /\ Cardinality(afpAsked) \in Nat /\ Cardinality(afpAsked') = Cardinality(afpAsked) + 1
  BY <1>1, <1>2, FS_AddElement, FS_CardinalityType DEF AfpSound, AfpAsked
<1>4. AfpCounts'
  BY <1>1, <1>3 DEF AfpSound, AfpTypes, AForks, AfpCounts, AfpSends, AfpStays, AfpLeaves, A!NoFork
<1>5. AfpNamed'
  <2>1. CASE dirTable' = dirTable BY <1>1, <2>1 DEF AfpSound, AfpNamed, Truly
  <2>2. CASE dirTable' = <<>> BY <2>2, NoTable DEF AfpNamed, Truly
  <2>3. QED BY <2>1, <2>2 DEF AfpSends, AfpStays, AfpLeaves
<1>6. ASSUME afpOdd' \cap A!Misleading = {}
      PROVE  /\ \A q \in afpAsked' : q.cmd \notin LogIns \cup {"logout"} => user'.in
             /\ user'.in => loginName' \in {<<>>, A!Who'}
             /\ \A f \in Forks : InPart(f)'
  <2>1. afpOdd \cap A!Misleading = {} /\ "unanswered" \notin afpOdd' BY <1>1, <1>6 DEF A!Misleading
  <2>2. CASE r.cmd = "logout" BY <1>1, <2>1, <2>2 DEF AfpSends, AfpLogsOut, A!Nobody, A!Closed, InPart
  <2>3. CASE r.cmd # "logout"
    <3>1. AfpKeepsOn(r) /\ AfpStays(r) BY <2>3 DEF AfpSends, AfpLeaves
    <3>2. user' = user /\ forks' = forks /\ loginName' = loginName /\ forkMap' = forkMap
      BY <3>1 DEF AfpKeepsOn, Same, AfpStays
    <3>3. A!Who' = A!Who /\ \A f \in Forks : InPart(f)' = InPart(f) BY <3>2 DEF A!Who, InPart
    <3>4. \A q \in afpAsked' : q.cmd \notin LogIns \cup {"logout"} => user'.in
      BY <1>1, <2>1, <3>1, <3>2 DEF AfpKeepsOn, AfpSound, AfpFollows
    <3>5. QED BY <2>1, <3>2, <3>3, <3>4 DEF AfpSound, AfpFollows
  <2>4. QED BY <2>2, <2>3
<1>7. AfpFollows' BY <1>6 DEF AfpFollows
<1>8. QED BY <1>4, <1>5, <1>7

LEMMA RequestHeard ==
  ASSUME AfpSound, NEW r, AfpSends(r)
  PROVE  AfpHeard'
<1>1. CASE AfpStays(r) BY <1>1 DEF AfpStays, AfpHeard, AfpEvents, A!NothingInvented
<1>2. CASE AfpLeaves(r)
  <2>1. PICK e, f : e = A!Event("logout", loginName, <<>>, <<>>, 0) /\ f = A!Event("logout", A!Who, <<>>, <<>>, 0)
    OBVIOUS
  <2>2. afpEvents' = {e} /\ r.cmd = "logout" BY <1>2, <2>1 DEF AfpLeaves
  <2>3. afpFacts' = {f} /\ user.in /\ afpOdd \subseteq afpOdd' /\ afpScenario' = afpScenario
    BY <2>1, <2>2 DEF AfpSends, AfpLogsOut
  <2>4. /\ e.op = "logout" /\ e.user = loginName /\ e.path = <<>> /\ e.to = <<>> /\ e.size = 0
        /\ f.op = "logout" /\ f.user = A!Who /\ f.path = <<>> /\ f.to = <<>> /\ f.size = 0
    BY <2>1 DEF A!Event
  <2>5. <<>> \in ANamed /\ loginName \in ANamed /\ 0 \in 0..afpScenario.requests
    BY ShortNames, AfpConstants DEF AfpSound, AfpTypes
  <2>6. AfpEvents' BY <2>2, <2>3, <2>4, <2>5 DEF AfpEvents
  <2>7. ASSUME afpOdd' \cap A!Misleading = {}
        PROVE  A!Covers(f, e)
    BY <2>3, <2>4, <2>7, NothingIsPart DEF AfpSound, AfpFollows, A!Covers
  <2>8. QED BY <2>2, <2>3, <2>6, <2>7 DEF AfpHeard, A!NothingInvented
<1>3. QED BY <1>1, <1>2 DEF AfpSends

LEMMA AfpRequestSound ==
  ASSUME AfpSound, A!Next, ~A!Respond
  PROVE  AfpSound' /\ AfpHeard'
  BY AfpRequestIs, AfpSendsIs, RequestTypes, RequestAsked, RequestRest, RequestHeard DEF AfpSound

--------------------------------
(* Until something unusual happens: the path of a folder that answers told *)
(* of is the true one. *)
LEMMA PathTold ==
  ASSUME AfpTree, "renamed" \notin afpOdd, NEW table, NEW d \in FoldersOf(tree), NEW name,
         On(tree, d) \subseteq seen \cup {2}, ~(Len(A!Climb(<<tree>>, d, MaxDid).names) >= NestLimit),
         \A e \in tree : e.did # 0 /\ e.did \in seen => A!FindDid(table, e.did) = {e}
  PROVE  A!MakePath("named", table, d, <<name>>) = PathIn(tree, d, name)
<1>1. GoodTree(tree, lastDid) /\ Rising(tree) BY DEF AfpTree
<1>2. ASSUME NEW x \in On(tree, d)
      PROVE  x <= A!Root \/ A!FindDid(table, x) = A!FindDid(<<tree>>, x)
  <2>1. x \in FoldersOf(tree) BY <1>1, WayEnds
  <2>2. PICK e \in tree : e.did = x /\ e.did # 0 BY <2>1 DEF FoldersOf
  <2>3. A!FindDid(<<tree>>, e.did) = {e} BY <1>1, <2>2, TreeFolder
  <2>4. CASE x = 2 BY <2>4 DEF A!Root
  <2>5. CASE x \in seen BY <2>2, <2>3, <2>5
  <2>6. QED BY <2>4, <2>5
<1>3. QED BY <1>1, <1>2, PathExact

LEMMA SeenOn ==
  ASSUME NEW S, A!Unseen(S) = {}, NEW T, A!Deep(T) = {}, NEW d \in S, d \in T
  PROVE  On(tree, d) \subseteq seen \cup {2} /\ ~(Len(A!Climb(<<tree>>, d, MaxDid).names) >= NestLimit)
  BY DEF A!Unseen, A!When, A!Root, On, A!Ancestors, A!Above, A!Deep

LEMMA FoundOne ==
  ASSUME AfpSound, AfpFound, "renamed" \notin afpOdd
  PROVE  \A e \in tree : e.did # 0 /\ e.did \in seen => A!FindDid(dirTable, e.did) = {e}
  BY DEF AfpFound, AfpSound, AfpNamed, Truly

LEMMA RequestQuiet ==
  ASSUME AfpInv, NEW r, NEW told, NEW kinds, AfpAsking(r, told, kinds), AfpSends(r), afpOdd' = {}
  PROVE  /\ afpOdd = {} /\ afpAsked = {} /\ afpAsked' = {r} /\ kinds = {} /\ AfpKept /\ A!OnRequest(r) /\ A!Possible(r)
         /\ \A e \in tree : e.did # 0 /\ e.did \in seen => A!FindDid(dirTable, e.did) = {e}
  BY SendIs, FoundOne DEF AfpAsking, AfpInv, AfpUsual, A!Usual, AfpSends, AfpKept

LEMMA RequestTold ==
  ASSUME AfpInv, NEW r, NEW told, NEW kinds, AfpAsking(r, told, kinds), AfpSends(r), afpOdd' = {}, r.cmd # "logout"
  PROVE  AfpTold(r)'
<1>1. /\ afpOdd = {} /\ afpAsked = {} /\ kinds = {} /\ AfpKept /\ A!OnRequest(r) /\ A!Possible(r)
      /\ \A e \in tree : e.did # 0 /\ e.did \in seen => A!FindDid(dirTable, e.did) = {e}
  BY RequestQuiet
<1>2. AfpKeepsOn(r) /\ UNCHANGED <<tree, lastDid>> /\ A!OtherRequest(r) BY <1>1 DEF AfpSends, A!OnRequest
<1>3. user' = user /\ mounted' = mounted /\ forks' = forks /\ seen' = seen /\ forkMap' = forkMap
  BY <1>2 DEF AfpKeepsOn, Same, A!OtherRequest
<1>4. r.cmd \in {"read", "write"} => forkMap[r.fork].known
  BY <1>1 DEF A!Possible, AfpSends, ForkCmds, AfpKept, AfpCopies
<1>5. afpTemp' = A!Took(r) BY <1>2, <1>4 DEF A!OtherRequest
<1>6. PICK t : t = A!Took(r) OBVIOUS
<1>7. /\ t.id = r.id /\ t.cmd = r.cmd
      /\ r.cmd = "login" => t.name1 = <<r.name>>
      /\ r.cmd = "loginCont" => t.name1 = afpTemp.name1
      /\ r.cmd \in {"read", "write"} => t.length = 1
      /\ r.cmd \in Places => t.isdir = (<<r.did, r.name>> \in isDirs)
      /\ r.cmd \in Pairs \cup {"openFork"} => t.name1 = A!MakePath(volume, dirTable, r.did, <<r.name>>)
      /\ r.cmd \in Pairs => t.name2 = A!MakePath(volume, dirTable, r.toDid, <<r.to>>)
  BY <1>6, TookIs DEF AfpInv, AfpSound
<1>8. r.cmd \in LogIns => t.name1 = <<r.name>>
  BY <1>1, <1>2, <1>7, AfpConstants DEF AfpKeepsOn, AfpSends, LogIns, AfpKept, AfpInv, AfpSound
<1>9. r.cmd \in OneNames \cup Pairs => mounted /\ volume = "named"
  BY <1>1 DEF AfpAsking, AfpKept, LogIns, OneNames, Places, Pairs, ForkCmds
<1>10. r.cmd \in OneNames => On(tree, r.did) \subseteq seen \cup {2} /\ ~(Len(A!Climb(<<tree>>, r.did, MaxDid).names) >= NestLimit)
  <2>1. SUFFICES ASSUME r.cmd \in OneNames
                 PROVE  On(tree, r.did) \subseteq seen \cup {2} /\ ~(Len(A!Climb(<<tree>>, r.did, MaxDid).names) >= NestLimit)
    OBVIOUS
  <2>2. PICK S : S = {r.did} \cup IF r.cmd = "delete" THEN {e.did : e \in A!At(r.did, r.name)} \ {0} ELSE {}
    OBVIOUS
  <2>3. A!Unseen(S) \subseteq kinds /\ A!Deep({r.did}) \subseteq kinds
    BY <2>1, <2>2 DEF AfpAsking, LogIns, OneNames, Places, Pairs, ForkCmds
  <2>4. A!Unseen(S) = {} /\ A!Deep({r.did}) = {} /\ r.did \in S BY <1>1, <2>2, <2>3
  <2>5. QED BY <2>4, SeenOn
<1>11. r.cmd \in Pairs => \A d \in {r.did, r.toDid} :
         On(tree, d) \subseteq seen \cup {2} /\ ~(Len(A!Climb(<<tree>>, d, MaxDid).names) >= NestLimit)
  BY <1>1, SeenOn DEF AfpAsking, LogIns, OneNames, Places, Pairs, ForkCmds
<1>12. AfpTree /\ "renamed" \notin afpOdd BY <1>1 DEF AfpInv, AfpSound
<1>13. ASSUME NEW d \in FoldersOf(tree), NEW name, volume = "named",
              On(tree, d) \subseteq seen \cup {2}, ~(Len(A!Climb(<<tree>>, d, MaxDid).names) >= NestLimit)
       PROVE  A!MakePath(volume, dirTable, d, <<name>>) = PathIn(tree, d, name)
  BY <1>1, <1>12, <1>13, PathTold
<1>14. /\ r.cmd \in {"openFork"} \cup Pairs => t.name1 = PathIn(tree, r.did, r.name)
       /\ r.cmd \in Pairs => t.name2 = PathIn(tree, r.toDid, r.to)
  BY <1>7, <1>9, <1>10, <1>11, <1>13 DEF AfpSends, OneNames
<1>15. r.cmd = "delete" => (t.isdir <=> \E e \in A!At(r.did, r.name) : e.did # 0)
  <2>1. SUFFICES ASSUME r.cmd = "delete" PROVE t.isdir <=> \E e \in A!At(r.did, r.name) : e.did # 0 OBVIOUS
  <2>2. t.isdir = (<<r.did, r.name>> \in isDirs) /\ r.did \in FoldersOf(tree)
    BY <1>7, <2>1 DEF Places, AfpSends, OneNames
  <2>3. ASSUME <<r.did, r.name>> \in isDirs PROVE \E e \in A!At(r.did, r.name) : e.did # 0
    BY <1>1, <2>3 DEF AfpKept, AfpFound, A!At
  <2>4. ASSUME NEW e \in A!At(r.did, r.name), e.did # 0 PROVE <<r.did, r.name>> \in isDirs
    <3>1. PICK S : S = {r.did} \cup ({x.did : x \in A!At(r.did, r.name)} \ {0}) OBVIOUS
    <3>2. A!Unseen(S) \subseteq kinds BY <2>1, <3>1 DEF AfpAsking, LogIns, OneNames, Places, Pairs, ForkCmds
    <3>3. A!Unseen(S) = {} /\ e.did \in S BY <1>1, <2>4, <3>1, <3>2
    <3>4. e \in tree /\ e.parent = r.did /\ e.name = r.name /\ e.did \in FoldersOf(tree)
      BY <2>4 DEF A!At, FoldersOf
    <3>5. e.did \in A!Ancestors(e.did) BY <1>12, <3>4, WayEnds DEF On, A!Ancestors, A!Above, AfpTree
    <3>6. e.did \in seen \cup {2} BY <3>3, <3>5 DEF A!Unseen, A!When, A!Root
    <3>7. e.did # 2
      <4>1. e.did = 2 => e = RootE BY <1>12, <3>4 DEF AfpTree, GoodTree
      <4>2. FoldersOf(tree) \subseteq 2..lastDid BY <1>12, TreeFolder DEF AfpTree
      <4>3. RootE.parent = 1 /\ 1 \notin 2..lastDid BY DEF RootE
      <4>4. QED BY <2>2, <3>4, <4>1, <4>2, <4>3
    <3>8. QED BY <1>1, <3>4, <3>6, <3>7 DEF AfpKept, AfpFound
  <2>5. QED BY <2>2, <2>3, <2>4
<1>a. r.cmd = "delete" => <<r.did, r.name>> \notin isDirs'
  BY <1>2 DEF A!OtherRequest
<1>16. afpTemp' = t BY <1>5, <1>6
<1>17. r.cmd \in Places => r.did \in FoldersOf(tree) BY DEF AfpSends, OneNames
<1>18. A!At(r.did, r.name)' = A!At(r.did, r.name) BY <1>2 DEF A!At
<1>19. QED
  BY <1>a, <1>2, <1>3, <1>4, <1>7, <1>8, <1>9, <1>10, <1>13, <1>14, <1>15, <1>16, <1>17, <1>18 DEF AfpTold, OneNames

LEMMA RequestKept ==
  ASSUME AfpInv, NEW r, NEW told, NEW kinds, AfpAsking(r, told, kinds), AfpSends(r), afpOdd' = {}
  PROVE  AfpKept' /\ afpEvents' = afpFacts'
<1>1. /\ afpOdd = {} /\ afpAsked = {} /\ afpAsked' = {r} /\ AfpKept /\ A!OnRequest(r) /\ UNCHANGED <<tree, lastDid>>
  BY RequestQuiet DEF AfpSends
<1>2. CASE r.cmd = "logout"
  <2>1. AfpLogsOut /\ A!LogoutRequest BY <1>1, <1>2 DEF AfpSends, A!OnRequest
  <2>2. loginName = A!Who /\ A!Who # <<>> BY <1>1, <2>1 DEF AfpLogsOut, AfpKept, A!Who
  <2>3. AfpLeaves(r) BY <1>2, <2>1, <2>2 DEF A!LogoutRequest, AfpLeaves
  <2>4. /\ ~user'.in /\ ~mounted' /\ afpAsked' = {r} /\ user' = A!Nobody
        /\ \A f \in Forks : AfpCopies(forkMap'[f], forks'[f])
    BY <1>1, <2>1, <2>3 DEF AfpLogsOut, AfpLeaves, AfpCopies, A!Nobody, A!NoFork, A!Closed
  <2>5. dirTable' = <<>> /\ isDirs' = {} /\ seen' = {} BY <2>1, <2>3 DEF AfpLogsOut, AfpLeaves
  <2>6. AfpFound' BY <2>5, NoTable DEF AfpFound
  <2>7. AfpKept' BY <1>2, <2>4, <2>6 DEF AfpKept
  <2>8. QED BY <2>1, <2>2, <2>3, <2>7 DEF AfpLogsOut, AfpLeaves
<1>3. CASE r.cmd # "logout"
  <2>1. AfpKeepsOn(r) /\ A!OtherRequest(r) /\ AfpTold(r)' BY <1>1, <1>3, RequestTold DEF AfpSends, A!OnRequest
  <2>2. user' = user /\ mounted' = mounted /\ forks' = forks /\ seen' = seen /\ forkMap' = forkMap /\ loginName' = loginName /\ dirTable' = dirTable
    BY <2>1 DEF AfpKeepsOn, Same, A!OtherRequest
  <2>3. mounted' => volume' = "named" BY <1>1, <2>1, <2>2 DEF A!OtherRequest, AfpKept
  <2>4. user'.in => loginName' = A!Who' BY <1>1, <2>2 DEF AfpKept, A!Who
  <2>5. \A f \in Forks : AfpCopies(forkMap'[f], forks'[f]) BY <1>1, <2>2 DEF AfpKept
  <2>6. /\ \A x : A!FindDid(dirTable, x) # {} => x \in seen
        /\ \A e \in tree : e.did \in seen => e \in A!FindDid(dirTable, e.did)
        /\ \A p \in isDirs : \E e \in tree : e.did # 0 /\ p = <<e.parent, e.name>>
        /\ \A e \in tree : e.did \in seen => <<e.parent, e.name>> \in isDirs
    BY <1>1 DEF AfpKept, AfpFound
  <2>7. isDirs' = isDirs \/ (r.cmd = "delete" /\ isDirs' = isDirs \ {<<r.did, r.name>>})
    BY <2>1 DEF A!OtherRequest
  <2>8. \A e \in tree : e.did \in seen =>
          \/ <<e.parent, e.name>> \in isDirs'
          \/ r.cmd = "delete" /\ r.did = e.parent /\ r.name = e.name
    BY <2>6, <2>7
  <2>9. AfpFound' BY <1>1, <2>2, <2>6, <2>7, <2>8 DEF AfpFound
  <2>10. AfpKept' BY <1>1, <1>3, <2>1, <2>3, <2>4, <2>5, <2>9 DEF AfpKept
  <2>11. QED BY <2>1, <2>10 DEF AfpKeepsOn, A!OtherRequest
<1>4. QED BY <1>2, <1>3

LEMMA AfpRequestStep ==
  ASSUME AfpInv, A!Next, ~A!Respond
  PROVE  AfpInv'
  BY AfpRequestSound, AfpRequestIs, AfpSendsIs, RequestKept DEF AfpInv, AfpUsual, A!Usual

--------------------------------
(* What an answer may change: of the volume, of the table of directories, *)
(* of the open forks, and of who is logged in. *)
AfpGrows ==
  /\ GoodTree(tree', lastDid') /\ lastDid <= lastDid'
  /\ "renamed" \notin afpOdd' => Rising(tree') /\ \A e \in tree : e.did \in FoldersOf(tree') => e \in tree'
  /\ \A x \in FoldersOf(tree') : x <= lastDid => x \in FoldersOf(tree)
TableMoves ==
  /\ volume' \in {"unknown", "unnamed", "named"} /\ seen' \subseteq seen \cup FoldersOf(tree')
  /\ \/ dirTable' = dirTable /\ isDirs' \subseteq isDirs
     \/ \E e \in tree' : /\ e.did # 0 /\ e.did # e.parent /\ dirTable' = A!InsertDir(dirTable, e.parent, e.did, e.name)
                         /\ isDirs' = isDirs \cup {<<e.parent, e.name>>}
ForkMoves ==
  /\ forks' \in [Forks -> AOpens] /\ forkMap' \in [Forks -> AForks]
  /\ \A f \in Forks : /\ ~forkMap'[f].known => forkMap'[f] = A!NoFork
                      /\ forkMap'[f].readed <= forkMap[f].readed + 1 /\ forkMap'[f].written <= forkMap[f].written + 1
                      /\ afpOdd' \cap A!Misleading = {} /\ InPart(f) => InPart(f)'
LoginMoves(r) ==
  /\ loginName' \in ANamed /\ user' \in AUsers /\ (user'.in => user'.name \in AfpUsers)
  /\ user' = user \/ r.cmd \in LogIns
  /\ afpOdd' \cap A!Misleading = {} /\ user'.in => loginName' \in {<<>>, A!Who'}
AfpAnswered(r) ==
  /\ r \in afpAsked /\ afpAsked' = afpAsked \ {r} /\ UNCHANGED <<afpScenario, afpRequests>> /\ afpOdd \subseteq afpOdd'
  /\ afpTemp' \in {afpTemp, A!Blank} /\ AfpGrows /\ TableMoves /\ ForkMoves /\ LoginMoves(r)

LEMMA AnswerTypes ==
  ASSUME AfpSound, NEW r, AfpAnswered(r)
  PROVE  AfpTypes' /\ AfpTree' /\ AfpNamed'
<1>1. /\ UNCHANGED <<afpScenario, afpRequests>> /\ afpTemp' \in {afpTemp, A!Blank} /\ afpOdd \subseteq afpOdd'
      /\ AfpGrows /\ TableMoves /\ ForkMoves /\ LoginMoves(r)
  BY DEF AfpAnswered
<1>2. afpRequests \in Nat /\ afpTemp \in Temps /\ afpTemp.id <= afpRequests /\ afpScenario.requests \in Nat /\ MaxDid \in Nat /\ Temps' = Temps
  BY <1>1, AfpConstants DEF AfpSound, AfpTypes, Temps
<1>3. afpTemp' \in Temps' /\ afpTemp'.id <= afpRequests'
  <2>1. A!Blank.id = 0 /\ A!Blank \in Temps BY <1>2, ShortNames DEF ADids, A!Blank, Temps
  <2>2. QED BY <1>1, <1>2, <2>1
<1>4. /\ GoodTree(tree', lastDid') /\ FoldersOf(tree') \subseteq 2..lastDid' /\ lastDid' \in Nat /\ lastDid' <= MaxDid /\ lastDid <= lastDid'
      /\ GoodTree(tree, lastDid) /\ lastDid \in Nat /\ FoldersOf(tree) \subseteq 2..lastDid
  BY <1>1, TreeFolder DEF AfpGrows, AfpSound, AfpTree
<1>5. seen' \subseteq ADids \ {0} BY <1>1, <1>2, <1>4 DEF ADids, TableMoves, AfpSound, AfpTypes
<1>6. (\A x : A!FindDid(dirTable, x) # {} => x \in ADids /\ x <= lastDid) /\ GoodTable(dirTable)
  BY TableFacts DEF A!FindDid, AfpSound, AfpTypes, AEntries, AfpNamed
<1>7. "renamed" \notin afpOdd' => Truly(dirTable, tree')
  BY <1>1, <1>4, <1>6 DEF Truly, FoldersOf, AfpGrows, GoodTree, AfpSound, AfpNamed
<1>8. /\ GoodTable(dirTable') /\ isDirs' \subseteq ADids \X ANames
      /\ \A x : A!FindDid(dirTable', x) # {} => x <= lastDid'
      /\ "renamed" \notin afpOdd' => Truly(dirTable', tree')
  <2>1. CASE dirTable' = dirTable /\ isDirs' \subseteq isDirs
    BY <1>2, <1>4, <1>6, <1>7, <2>1 DEF ADids, AfpSound, AfpTypes
  <2>2. ASSUME NEW e \in tree', e.did # 0, e.did # e.parent, dirTable' = A!InsertDir(dirTable, e.parent, e.did, e.name),
               isDirs' = isDirs \cup {<<e.parent, e.name>>}
        PROVE  /\ GoodTable(dirTable') /\ isDirs' \subseteq ADids \X ANames
               /\ \A x : A!FindDid(dirTable', x) # {} => x <= lastDid'
               /\ "renamed" \notin afpOdd' => Truly(dirTable', tree')
    <3>1. PICK p \in ADids, d \in ADids, n \in ANames : e = [did |-> d, parent |-> p, name |-> n]
      BY <1>4 DEF GoodTree, AEntries
    <3>2. /\ GoodTable(dirTable') /\ A!FindDid(dirTable', d) = {e} /\ A!FindDid(dirTable', p) = A!FindDid(dirTable, p)
          /\ \A x : x \notin {p, d} => A!FindDid(dirTable', x) \subseteq A!FindDid(dirTable, x)
      BY <1>6, <2>2, <3>1, Inserted
    <3>3. d <= lastDid' BY <1>4, <3>1 DEF GoodTree
    <3>4. \A x : x # d => A!FindDid(dirTable', x) \subseteq A!FindDid(dirTable, x) BY <3>2
    <3>5. ASSUME NEW x, A!FindDid(dirTable', x) # {} PROVE x <= lastDid'
      BY <1>2, <1>4, <1>6, <3>3, <3>4, <3>5 DEF ADids
    <3>6. ASSUME "renamed" \notin afpOdd', NEW y \in tree', y.did # 0
          PROVE  A!FindDid(dirTable', y.did) \subseteq {y}
      BY <1>4, <1>7, <3>1, <3>2, <3>4, <3>6 DEF GoodTree, Truly
    <3>7. isDirs' \subseteq ADids \X ANames BY <2>2, <3>1 DEF AfpSound, AfpTypes
    <3>8. QED BY <3>2, <3>5, <3>6, <3>7 DEF Truly
  <2>3. QED BY <1>1, <2>1, <2>2 DEF TableMoves
<1>9. AfpTypes' BY <1>1, <1>2, <1>3, <1>5, <1>8 DEF AfpTypes, TableMoves, ForkMoves, LoginMoves, AfpSound
<1>10. AfpTree' /\ AfpNamed' BY <1>1, <1>4, <1>8 DEF AfpTree, AfpNamed, AfpGrows
<1>11. QED BY <1>9, <1>10

LEMMA AnswerSound ==
  ASSUME AfpSound, NEW r, AfpAnswered(r)
  PROVE  AfpSound'
<1>1. /\ r \in afpAsked /\ afpAsked' = afpAsked \ {r} /\ UNCHANGED <<afpScenario, afpRequests>> /\ afpOdd \subseteq afpOdd'
      /\ afpTemp' \in {afpTemp, A!Blank} /\ AfpGrows /\ TableMoves /\ ForkMoves /\ LoginMoves(r)
  BY DEF AfpAnswered
<1>2. AfpAsked BY DEF AfpSound
<1>3. lastDid \in Nat /\ lastDid' \in Nat /\ lastDid <= lastDid' /\ GoodTree(tree, lastDid) /\ GoodTree(tree', lastDid')
  BY <1>1, TreeFolder DEF AfpGrows, AfpSound, AfpTree
<1>4. ASSUME NEW q \in afpAsked'
      PROVE  AfpAsks(q)' /\ AfpHolds(q)'
  <2>1. q \in afpAsked /\ AfpAsks(q) /\ AfpHolds(q) BY <1>1, <1>2 DEF AfpAsked
  <2>2. 1..lastDid \subseteq 1..lastDid' /\ 2..lastDid \subseteq 2..lastDid' BY <1>3
  <2>3. AfpAsks(q)' BY <1>1, <2>1, <2>2 DEF AfpAsks
  <2>4. SUFFICES ASSUME afpTemp'.id = q.id PROVE AfpHolds(q)' BY <2>3 DEF AfpHolds
  <2>5. afpTemp' = afpTemp BY <1>1, <2>1, <2>4 DEF A!Blank, AfpAsks
  <2>6. ASSUME NEW p, NEW d \in 2..lastDid, NEW n, Part(p, d, n)
        PROVE  Part(p, d, n)'
    BY <1>1, <1>3, <2>6, PathStays DEF Part, AfpGrows
  <2>7. /\ q.cmd \in OneNames \cup Pairs => q.did \in 2..lastDid
        /\ q.cmd \in Pairs => q.toDid \in 2..lastDid
    BY <2>1 DEF AfpAsks
  <2>8. PICK m, n : m = afpTemp.name1 /\ n = afpTemp.name2 /\ m = afpTemp'.name1 /\ n = afpTemp'.name2 BY <2>5
  <2>9. /\ q.cmd \in Pairs \cup {"openFork"} /\ Part(m, q.did, q.name) => Part(m, q.did, q.name)'
        /\ q.cmd \in Pairs /\ Part(n, q.toDid, q.to) => Part(n, q.toDid, q.to)'
    BY <2>6, <2>7 DEF OneNames
  <2>10. QED BY <1>1, <2>1, <2>3, <2>4, <2>5, <2>8, <2>9 DEF AfpHolds
<1>5. ASSUME NEW q \in afpAsked', q.cmd \in LogIns
      PROVE  ~user'.in /\ (q.cmd = "loginCont" => q.name = user'.name)
  BY <1>1, <1>2, <1>5 DEF AfpAsked, LoginMoves
<1>6. AfpAsked' BY <1>1, <1>2, <1>4, <1>5, FS_RemoveElement DEF AfpAsked
<1>7. AfpCounts'
  <2>1. PICK c \in Nat : c = Cardinality(afpAsked) /\ Cardinality(afpAsked') = c - 1
    BY <1>1, <1>2, FS_RemoveElement, FS_CardinalityType DEF AfpAsked
  <2>2. ASSUME NEW f \in Forks
        PROVE  /\ forkMap'[f].readed + Cardinality(afpAsked') <= afpRequests
               /\ forkMap'[f].written + Cardinality(afpAsked') <= afpRequests
    BY <1>1, <2>1 DEF AfpSound, AfpTypes, AForks, ForkMoves, AfpCounts
  <2>3. QED BY <1>1, <2>2 DEF AfpCounts
<1>8. AfpFollows' BY <1>1, <1>2 DEF AfpFollows, AfpSound, AfpAsked, LoginMoves, ForkMoves
<1>9. QED BY <1>6, <1>7, <1>8, AnswerTypes DEF AfpSound

--------------------------------
(* An answer is looked at when it is to the request that is remembered. *)
AfpQuiet ==
  /\ afpEvents' = {} /\ afpTemp' \in {afpTemp, A!Blank}
  /\ UNCHANGED <<loginName, volume, dirTable, isDirs, forkMap>>
AfpReplies(r, a) ==
  /\ afpTemp.id = r.id /\ afpTemp.cmd = r.cmd /\ AfpHolds(r) /\ A!OnResponse(a) /\ a.id = afpTemp.id
  /\ r.cmd \in LogIns \/ a.result = "ok"

LEMMA AfpAnswerIs ==
  ASSUME AfpSound, NEW r \in afpAsked, NEW result, NEW more, NEW told, NEW kinds, A!Answer(r, result, more, told, kinds)
  PROVE  /\ afpAsked' = afpAsked \ {r} /\ UNCHANGED <<afpScenario, afpRequests>>
         /\ afpOdd \subseteq afpOdd' /\ kinds \subseteq afpOdd' /\ (result # "failed" => A!Possible(r))
         /\ \/ AfpQuiet /\ seen' = seen /\ afpOdd' # {}
            \/ AfpQuiet /\ seen' = seen \cup told /\ (afpTemp.id # r.id \/ (result # "ok" /\ r.cmd \notin LogIns))
            \/ /\ seen' = seen \cup told
               /\ \E a : /\ AfpReplies(r, a) /\ a.result = result /\ a.fork = more.fork /\ a.form = more.form
                         /\ a.parent = more.parent /\ a.did = more.did /\ a.name = more.name
<1>1. PICK a : a = [id |-> r.id, result |-> result, fork |-> more.fork, form |-> more.form,
                    parent |-> more.parent, did |-> more.did, name |-> more.name]
  OBVIOUS
<1>2. /\ afpAsked' = afpAsked \ {r} /\ UNCHANGED <<afpScenario, afpRequests>> /\ (result # "failed" => A!Possible(r))
      /\ \/ A!OnResponse(a) /\ seen' = seen \cup told /\ afpOdd' = afpOdd \cup kinds
         \/ A!Missed /\ seen' = seen /\ afpOdd' = afpOdd \cup kinds \cup {"lost"}
  BY <1>1 DEF A!Answer
<1>3. CASE A!Missed /\ seen' = seen /\ afpOdd' = afpOdd \cup kinds \cup {"lost"}
  BY <1>2, <1>3 DEF A!Missed, A!analyzer, AfpQuiet
<1>4. CASE A!OnResponse(a) /\ seen' = seen \cup told /\ afpOdd' = afpOdd \cup kinds
  <2>1. CASE afpTemp.id # r.id BY <1>1, <1>2, <1>4, <2>1 DEF A!OnResponse, A!Mine, A!analyzer, AfpQuiet
  <2>2. CASE afpTemp.id = r.id
    BY <1>1, <1>2, <1>4, <2>2 DEF AfpSound, AfpAsked, AfpHolds, A!OnResponse, A!Mine, AfpQuiet, LogIns,
      AfpReplies
  <2>3. QED BY <2>1, <2>2
<1>5. QED BY <1>2, <1>3, <1>4

LEMMA Frames ==
  ASSUME AfpSound, afpOdd \subseteq afpOdd'
  PROVE  /\ UNCHANGED <<tree, lastDid>> => AfpGrows
         /\ UNCHANGED <<volume, dirTable, isDirs>> /\ seen' \subseteq seen \cup FoldersOf(tree') => TableMoves
         /\ UNCHANGED <<forkMap, forks>> => ForkMoves
         /\ UNCHANGED <<loginName, user>> => \A r : LoginMoves(r)
<1>1. UNCHANGED <<tree, lastDid>> => AfpGrows
  <2>1. SUFFICES ASSUME tree' = tree, lastDid' = lastDid PROVE AfpGrows OBVIOUS
  <2>2. lastDid <= lastDid' /\ GoodTree(tree, lastDid)
    <3>1. GoodTree(tree, lastDid) BY DEF AfpSound, AfpTree
    <3>2. lastDid \in Nat BY <3>1, TreeFolder
    <3>3. QED BY <2>1, <3>1, <3>2
  <2>3. QED BY <2>1, <2>2 DEF AfpSound, AfpTree, AfpGrows
<1>2. UNCHANGED <<volume, dirTable, isDirs>> /\ seen' \subseteq seen \cup FoldersOf(tree') => TableMoves
  BY DEF AfpSound, AfpTypes, TableMoves
<1>3. UNCHANGED <<forkMap, forks>> => ForkMoves BY DEF AfpSound, AfpTypes, AForks, ForkMoves, InPart
<1>4. UNCHANGED <<loginName, user>> => \A r : LoginMoves(r)
  BY DEF A!Who, AfpSound, AfpTypes, AfpFollows, LoginMoves
<1>5. QED BY <1>1, <1>2, <1>3, <1>4

(* The request that is answered in the usual case is the one remembered. *)
LEMMA UsualAnswer ==
  ASSUME AfpInv, NEW r \in afpAsked, afpAsked' = afpAsked \ {r}, afpOdd \subseteq afpOdd', afpOdd' = {}
  PROVE  /\ AfpKept /\ afpOdd = {} /\ afpAsked = {r} /\ afpAsked' = {} /\ AfpTree /\ Rising(tree)
         /\ IF r.cmd = "logout" THEN user = A!Nobody ELSE AfpTold(r)
         /\ r.cmd \notin LogIns \cup {"logout"} => user.in
         /\ \A e \in tree : e.did # 0 /\ e.did \in seen => A!FindDid(dirTable, e.did) = {e}
  BY FoundOne DEF AfpInv, AfpUsual, A!Usual, AfpKept, AfpSound, AfpTree, AfpFollows

LEMMA QuietKept ==
  ASSUME AfpInv, NEW r \in afpAsked, afpAsked' = afpAsked \ {r}, afpOdd \subseteq afpOdd', afpOdd' = {},
         r.cmd \notin LogIns \cup {"delete"}, AfpQuiet, UNCHANGED <<user, tree, forks, seen>>,
         mounted' = mounted
  PROVE  AfpKept'
  BY UsualAnswer DEF AfpQuiet, AfpKept, AfpFound, A!Nobody, A!Who

--------------------------------
(* The answers, one command after the other. *)
AfpStepped(r) ==
  /\ AfpAnswered(r) /\ AfpHeard'
  /\ afpOdd' = {} => AfpKept' /\ afpEvents' = afpFacts'

LEMMA NothingHeard ==
  ASSUME afpEvents' = {}
  PROVE  AfpHeard'
  BY DEF AfpHeard, AfpEvents, A!NothingInvented

LEMMA AnsweredPlain ==
  ASSUME AfpSound, NEW r \in afpAsked, NEW result, NEW more, NEW kinds, A!Answer(r, result, more, {}, kinds)
  PROVE  /\ afpAsked' = afpAsked \ {r} /\ UNCHANGED <<afpScenario, afpRequests>> /\ seen' = seen
         /\ afpOdd \subseteq afpOdd' /\ kinds \subseteq afpOdd' /\ (result # "failed" => A!Possible(r))
         /\ \/ AfpQuiet /\ (afpOdd' = {} => afpTemp.id # r.id \/ (result # "ok" /\ r.cmd \notin LogIns))
            \/ \E a : AfpReplies(r, a) /\ a.result = result /\ a.fork = more.fork
  BY AfpAnswerIs

LEMMA LoginStep ==
  ASSUME AfpInv, NEW r \in afpAsked, A!LoggedIn(r)
  PROVE  AfpStepped(r)
<1>1. PICK result \in {"ok", "failed", "continue"} :
        /\ result = "continue" => r.cmd = "login"
        /\ user' = IF result = "failed" THEN A!Nobody ELSE [name |-> r.name, in |-> result = "ok"]
        /\ afpFacts' = IF result = "continue" THEN {}
                       ELSE {A!Event(IF result = "ok" THEN "login" ELSE "loginfailed", <<r.name>>, <<>>, <<>>, 0)}
        /\ A!Answer(r, result, A!Nothing, {}, A!OtherName(loginName, r.name))
  BY DEF A!LoggedIn
<1>2. r.cmd \in LogIns /\ UNCHANGED <<mounted, tree, lastDid, forks>> /\ AfpSound
  BY DEF A!LoggedIn, LogIns, AfpInv
<1>3. /\ afpAsked' = afpAsked \ {r} /\ UNCHANGED <<afpScenario, afpRequests>>
      /\ afpOdd \subseteq afpOdd' /\ A!OtherName(loginName, r.name) \subseteq afpOdd' /\ seen' = seen
      /\ \/ AfpQuiet /\ (afpOdd' = {} => afpTemp.id # r.id)
         \/ \E a : AfpReplies(r, a) /\ a.result = result
  BY <1>1, <1>2, AnsweredPlain
<1>4. r.name \in AfpUsers /\ r.name # A!None /\ <<r.name>> \in ANamed /\ <<>> \in ANamed /\ afpTemp.name1 \in ANamed
  BY <1>2, ShortNames, AfpConstants DEF AfpSound, AfpAsked, AfpAsks, AfpTypes, Temps
<1>5. /\ user' \in AUsers /\ (user'.in => user'.name \in AfpUsers /\ A!Who' = <<r.name>> /\ result = "ok")
  BY <1>1, <1>4 DEF AUsers, A!Nobody, A!Who
<1>6. ASSUME loginName' \in ANamed, UNCHANGED <<volume, dirTable, isDirs, forkMap>>, afpTemp' \in {afpTemp, A!Blank},
             afpOdd' \cap A!Misleading = {} /\ user'.in => loginName' \in {<<>>, <<r.name>>}
      PROVE  AfpAnswered(r)
  BY <1>2, <1>3, <1>5, <1>6, Frames DEF LoginMoves, AfpAnswered
<1>7. CASE AfpQuiet /\ (afpOdd' = {} => afpTemp.id # r.id)
  <2>1. afpOdd' \cap A!Misleading = {} => loginName \in {<<>>, <<r.name>>}
    BY <1>3 DEF A!OtherName, A!When, A!Misleading
  <2>2. AfpAnswered(r) /\ AfpHeard' BY <1>2, <1>6, <1>7, <2>1, NothingHeard DEF AfpQuiet, AfpSound, AfpTypes
  <2>3. afpOdd' # {} BY <1>2, <1>3, <1>7, UsualAnswer DEF AfpTold, LogIns
  <2>4. QED BY <2>2, <2>3 DEF AfpStepped
<1>8. ASSUME NEW a, AfpReplies(r, a), a.result = result
      PROVE  AfpStepped(r)
  <2>1. A!LoginResponse(a) /\ (r.cmd = "login" => afpTemp.name1 = <<r.name>>)
        /\ (r.cmd = "loginCont" /\ "otherName" \notin afpOdd' => afpTemp.name1 \in {<<>>, <<r.name>>})
    BY <1>2, <1>3, <1>8 DEF AfpReplies, AfpHolds, A!OnResponse, A!Mine, LogIns
  <2>2. /\ loginName' = IF result = "failed" THEN <<>> ELSE afpTemp.name1
        /\ afpEvents' = IF result = "continue" THEN {}
                        ELSE {A!Event(IF result = "ok" THEN "login" ELSE "loginfailed", afpTemp.name1, <<>>, <<>>, 0)}
        /\ afpTemp' = (IF result = "continue" THEN afpTemp ELSE A!Blank) /\ UNCHANGED <<volume, dirTable, isDirs, forkMap>>
    BY <1>8, <2>1 DEF A!LoginResponse
  <2>3. afpOdd' \cap A!Misleading = {} => afpTemp.name1 \in {<<>>, <<r.name>>}
    BY <1>2, <2>1 DEF A!Misleading, LogIns
  <2>4. AfpAnswered(r) BY <1>4, <1>6, <2>2, <2>3
  <2>5. AfpHeard'
    <3>1. PICK op, e, f : /\ op = IF result = "ok" THEN "login" ELSE "loginfailed"
                          /\ e = A!Event(op, afpTemp.name1, <<>>, <<>>, 0) /\ f = A!Event(op, <<r.name>>, <<>>, <<>>, 0)
      OBVIOUS
    <3>2. /\ e.op = op /\ e.user = afpTemp.name1 /\ e.path = <<>> /\ e.to = <<>> /\ e.size = 0
          /\ f.op = op /\ f.user = <<r.name>> /\ f.path = <<>> /\ f.to = <<>> /\ f.size = 0
      BY <3>1 DEF A!Event
    <3>3. CASE result = "continue" BY <2>2, <3>3, NothingHeard
    <3>4. CASE result # "continue"
      <4>1. afpEvents' = {e} /\ afpFacts' = {f} BY <1>1, <2>2, <3>1, <3>4
      <4>2. 0 \in 0..afpScenario'.requests BY <1>2, <1>3, AfpConstants DEF AfpSound
      <4>3. AfpEvents' BY <1>4, <3>2, <4>1, <4>2 DEF AfpEvents
      <4>4. A!NothingInvented' BY <2>3, <3>2, <4>1, NothingIsPart DEF A!NothingInvented, A!Covers
      <4>5. QED BY <4>3, <4>4 DEF AfpHeard
    <3>5. QED BY <3>3, <3>4
  <2>6. ASSUME afpOdd' = {} PROVE AfpKept' /\ afpEvents' = afpFacts'
    BY <1>1, <1>2, <1>3, <1>5, <2>2, <2>6, UsualAnswer DEF AfpTold, LogIns, AfpKept, AfpFound, A!Nobody
  <2>7. QED BY <2>4, <2>5, <2>6 DEF AfpStepped
<1>9. QED BY <1>3, <1>7, <1>8

LEMMA MountStep ==
  ASSUME AfpInv, NEW r \in afpAsked, A!Mounted(r)
  PROVE  AfpStepped(r)
<1>1. /\ r.cmd \in {"openVol", "logout"} /\ afpFacts' = {} /\ UNCHANGED <<user, tree, lastDid, forks>>
      /\ mounted' = (mounted \/ (r.cmd = "openVol" /\ user.in))
      /\ A!Answer(r, "ok", A!Nothing, {}, {}) /\ AfpSound
  BY DEF A!Mounted, AfpInv
<1>2. /\ afpAsked' = afpAsked \ {r} /\ UNCHANGED <<afpScenario, afpRequests>> /\ afpOdd \subseteq afpOdd' /\ seen' = seen
      /\ \/ AfpQuiet /\ (afpOdd' = {} => afpTemp.id # r.id)
         \/ \E a : AfpReplies(r, a)
  BY <1>1, AnsweredPlain
<1>3. \/ AfpQuiet /\ (afpOdd' = {} => afpTemp.id # r.id)
      \/ /\ r.cmd = "openVol" /\ volume' = "named" /\ afpTemp' = A!Blank /\ afpEvents' = {}
         /\ UNCHANGED <<loginName, dirTable, isDirs, forkMap>>
  BY <1>1, <1>2 DEF AfpReplies, AfpHolds, A!OnResponse, A!Mine, LogIns
<1>4. /\ afpEvents' = {} /\ afpTemp' \in {afpTemp, A!Blank} /\ volume' \in {"unknown", "unnamed", "named"}
      /\ UNCHANGED <<loginName, dirTable, isDirs, forkMap>>
  BY <1>1, <1>3 DEF AfpQuiet, AfpSound, AfpTypes
<1>5. AfpAnswered(r) BY <1>1, <1>2, <1>4, Frames DEF AfpAnswered, TableMoves
<1>6. ASSUME afpOdd' = {} PROVE AfpKept'
  <2>1. /\ AfpKept /\ afpAsked = {r} /\ afpAsked' = {} /\ (r.cmd = "openVol" => AfpTold(r) /\ user.in)
        /\ (r.cmd = "logout" => user = A!Nobody)
    BY <1>1, <1>2, <1>6, UsualAnswer DEF LogIns
  <2>2. AfpFound' /\ A!Who' = A!Who BY <1>1, <1>2, <1>4, <2>1 DEF AfpKept, AfpFound, A!Who
  <2>3. mounted' => volume' = "named" BY <1>1, <1>3, <1>6, <2>1 DEF AfpKept, AfpTold, AfpQuiet
  <2>4. ~user.in => user.name = A!None BY <1>1, <2>1 DEF A!Nobody
  <2>5. QED BY <1>1, <1>4, <2>1, <2>2, <2>3, <2>4 DEF AfpKept
<1>7. QED BY <1>1, <1>4, <1>5, <1>6, NothingHeard DEF AfpStepped

LEMMA RefusedStep ==
  ASSUME AfpInv, NEW r \in afpAsked, NEW more, NEW kinds, A!Answer(r, "failed", more, {}, kinds), r.cmd \notin LogIns,
         UNCHANGED <<user, mounted, tree, lastDid, forks>>, afpFacts' = {}, r.cmd = "delete" => kinds # {}
  PROVE  AfpStepped(r)
  BY AnsweredPlain, Frames, NothingHeard, QuietKept DEF AfpReplies, AfpInv, AfpAnswered, AfpQuiet, AfpStepped

LEMMA PathInTyped ==
  ASSUME AfpTree, NEW d \in FoldersOf(tree), NEW name \in AfpNames
  PROVE  A!TruePath(d, name) = PathIn(tree, d, name) /\ PathIn(tree, d, name) \in Seq(AWords)
<1>1. Typed(<<tree>>) /\ d \in ADids /\ MaxDid \in Nat BY TreeFolder DEF AfpTree, ADids
<1>2. PICK c : c = A!Climb(<<tree>>, d, MaxDid) OBVIOUS
<1>3. c.names \in Seq(ANames) BY <1>1, <1>2, ClimbTyped DEF Climbed
<1>4. c.names \in Seq(AWords) /\ <<Volume>> \in Seq(AWords) /\ <<name>> \in Seq(AWords)
  BY <1>3, ShortNames DEF AWords
<1>5. QED BY <1>2, <1>4 DEF PathIn, A!TruePath, A!Above

(* What an open fork needs. *)
LEMMA ForkStep ==
  ASSUME AfpInv, NEW r \in afpAsked, afpAsked' = afpAsked \ {r}, UNCHANGED <<afpScenario, afpRequests>>,
         afpOdd \subseteq afpOdd', seen' = seen, UNCHANGED <<user, mounted, tree, lastDid>>,
         afpTemp' \in {afpTemp, A!Blank}, UNCHANGED <<loginName, volume, dirTable, isDirs>>, r.cmd \in ForkCmds \cup {"openFork"},
         NEW g \in Forks, NEW s \in AForks, NEW o \in AOpens, ~s.known => s = A!NoFork,
         forks' = [forks EXCEPT ![g] = o], forkMap' = [forkMap EXCEPT ![g] = s],
         s.readed <= forkMap[g].readed + 1 /\ s.written <= forkMap[g].written + 1,
         afpOdd' \cap A!Misleading = {} /\ InPart(g) /\ o.open /\ s.known =>
           A!PartOf(s.name, o.path) /\ s.readed <= o.readed /\ s.written <= o.written
  PROVE  /\ AfpAnswered(r)
         /\ afpOdd' = {} /\ AfpCopies(s, o) => AfpKept'
<1>1. AfpSound BY DEF AfpInv
<1>2. ForkMoves BY <1>1 DEF AfpSound, AfpTypes, InPart, AForks, ForkMoves
<1>3. AfpAnswered(r) BY <1>1, <1>2, Frames DEF AfpAnswered
<1>4. ASSUME afpOdd' = {}, AfpCopies(s, o) PROVE AfpKept'
  BY <1>1, <1>4, UsualAnswer DEF LogIns, ForkCmds, AfpKept, AfpFound, A!Who, AfpSound, AfpTypes
<1>5. QED BY <1>3, <1>4

LEMMA ForkSet ==
  /\ A!Closed \in AOpens /\ A!Closed.readed = 0 /\ A!Closed.written = 0 /\ ~A!Closed.open /\ A!Closed.path = <<>>
  /\ A!NoFork \in AForks /\ A!NoFork.readed = 0 /\ A!NoFork.written = 0 /\ ~A!NoFork.known /\ A!NoFork.name = <<>>
  /\ \A p \in Seq(AWords) : \E o \in AOpens :
       o = [A!Closed EXCEPT !.open = TRUE, !.path = p] /\ o.open /\ o.path = p /\ o.readed = 0 /\ o.written = 0
  /\ \A n \in ANamed : \E s \in AForks :
       s = [A!NoFork EXCEPT !.known = TRUE, !.name = n] /\ s.known /\ s.name = n /\ s.readed = 0 /\ s.written = 0
<1>1. PICK e : e = <<>> OBVIOUS
<1>2. A!Closed = [open |-> FALSE, path |-> e, readed |-> 0, written |-> 0] /\ e \in Seq(AWords)
  BY <1>1 DEF A!Closed
<1>3. A!NoFork = [known |-> FALSE, name |-> e, readed |-> 0, written |-> 0] /\ e \in ANamed
  BY <1>1, ShortNames DEF A!NoFork
<1>6. A!Closed \in AOpens /\ A!Closed.readed = 0 /\ A!Closed.written = 0 /\ ~A!Closed.open /\ A!Closed.path = <<>>
  BY <1>1, <1>2 DEF AOpens
<1>7. A!NoFork \in AForks /\ A!NoFork.readed = 0 /\ A!NoFork.written = 0 /\ ~A!NoFork.known /\ A!NoFork.name = <<>>
  BY <1>1, <1>3 DEF AForks
<1>8. ASSUME NEW p \in Seq(AWords)
      PROVE  \E o \in AOpens : o = [A!Closed EXCEPT !.open = TRUE, !.path = p] /\ o.open /\ o.path = p /\ o.readed = 0 /\ o.written = 0
  <2>1. PICK b, o : b = A!Closed /\ o = [b EXCEPT !.open = TRUE, !.path = p] OBVIOUS
  <2>2. b \in AOpens /\ b.readed = 0 /\ b.written = 0 BY <1>6, <2>1
  <2>3. o \in AOpens /\ o.open /\ o.path = p /\ o.readed = 0 /\ o.written = 0 BY <2>1, <2>2 DEF AOpens
  <2>4. QED BY <2>1, <2>3
<1>9. ASSUME NEW n \in ANamed
      PROVE  \E s \in AForks : s = [A!NoFork EXCEPT !.known = TRUE, !.name = n] /\ s.known /\ s.name = n /\ s.readed = 0 /\ s.written = 0
  <2>1. PICK b, s : b = A!NoFork /\ s = [b EXCEPT !.known = TRUE, !.name = n] OBVIOUS
  <2>2. b \in AForks /\ b.readed = 0 /\ b.written = 0 BY <1>7, <2>1
  <2>3. s \in AForks /\ s.known /\ s.name = n /\ s.readed = 0 /\ s.written = 0 BY <2>1, <2>2 DEF AForks
  <2>4. QED BY <2>1, <2>3
<1>10. QED BY <1>6, <1>7, <1>8, <1>9

LEMMA OpenStep ==
  ASSUME AfpInv, NEW r \in afpAsked, A!ForkOpened(r)
  PROVE  AfpStepped(r)
<1>1. r.cmd = "openFork" /\ afpFacts' = {} /\ UNCHANGED <<user, mounted, tree, lastDid>> /\ AfpSound
  BY DEF A!ForkOpened, AfpInv
<1>2. CASE A!Answer(r, "failed", A!Nothing, {}, {}) /\ forks' = forks BY <1>1, <1>2, RefusedStep DEF LogIns
<1>3. ASSUME NEW g \in Forks, ~forks[g].open,
             forks' = [forks EXCEPT ![g] = [A!Closed EXCEPT !.open = TRUE, !.path = A!TruePath(r.did, r.name)]],
             A!Answer(r, "ok", [A!Nothing EXCEPT !.fork = g], {}, A!When(forkMap[g].known, "reused"))
      PROVE  AfpStepped(r)
  <2>1. PICK more, kinds : more = [A!Nothing EXCEPT !.fork = g] /\ kinds = A!When(forkMap[g].known, "reused")
    OBVIOUS
  <2>2. more.fork = g /\ A!Answer(r, "ok", more, {}, kinds) BY <1>3, <2>1 DEF A!Nothing
  <2>3. /\ afpAsked' = afpAsked \ {r} /\ UNCHANGED <<afpScenario, afpRequests>> /\ seen' = seen
        /\ afpOdd \subseteq afpOdd' /\ kinds \subseteq afpOdd' /\ A!Possible(r)
        /\ \/ AfpQuiet /\ (afpOdd' = {} => afpTemp.id # r.id)
           \/ \E a : AfpReplies(r, a) /\ a.fork = g
    BY <1>1, <2>2, AnsweredPlain
  <2>4. r.did \in FoldersOf(tree) /\ r.name \in AfpNames
    BY <1>1, <2>3 DEF A!Possible, AfpSound, AfpAsked, AfpAsks, OneNames, A!Folders, FoldersOf
  <2>5. PICK p \in Seq(AWords) : p = A!TruePath(r.did, r.name) /\ p = PathIn(tree, r.did, r.name)
    BY <1>1, <2>4, PathInTyped DEF AfpSound
  <2>6. PICK o \in AOpens : /\ o = [A!Closed EXCEPT !.open = TRUE, !.path = p]
                             /\ o.open /\ o.path = p /\ o.readed = 0 /\ o.written = 0
    BY ForkSet
  <2>7. o \in AOpens /\ o.open /\ o.path = p /\ o.readed = 0 /\ o.written = 0 /\ forks' = [forks EXCEPT ![g] = o]
    BY <1>3, <2>5, <2>6
  <2>8. /\ forkMap \in [Forks -> AForks] /\ forkMap[g] \in AForks /\ (~forkMap[g].known => forkMap[g] = A!NoFork)
        /\ forkMap[g].readed \in Nat /\ forkMap[g].written \in Nat
    BY <1>1 DEF AfpSound, AfpTypes, AForks
  <2>9. CASE AfpQuiet /\ (afpOdd' = {} => afpTemp.id # r.id)
    <3>1. forkMap' = [forkMap EXCEPT ![g] = forkMap[g]] BY <2>8, <2>9 DEF AfpQuiet
    <3>2. /\ forkMap[g].readed <= forkMap[g].readed + 1 /\ forkMap[g].written <= forkMap[g].written + 1
          /\ afpOdd' \cap A!Misleading = {} => ~forkMap[g].known
      BY <2>1, <2>3, <2>8 DEF A!When, A!Misleading
    <3>3. AfpAnswered(r) BY <1>1, <2>3, <2>7, <2>8, <2>9, <3>1, <3>2, ForkStep DEF AfpQuiet
    <3>4. afpOdd' # {} BY <1>1, <2>3, <2>9, UsualAnswer DEF AfpTold
    <3>5. QED BY <2>9, <3>3, <3>4, NothingHeard DEF AfpStepped, AfpQuiet
  <2>10. ASSUME NEW a, AfpReplies(r, a), a.fork = g PROVE AfpStepped(r)
    <3>1. A!OpenForkResponse(a) /\ Part(afpTemp.name1, r.did, r.name)
      BY <1>1, <2>10 DEF AfpReplies, AfpHolds, A!OnResponse, A!Mine, LogIns
    <3>2. PICK n \in ANamed : n = afpTemp.name1 BY <1>1 DEF AfpSound, AfpTypes, Temps
    <3>3. PICK s \in AForks : /\ s = [A!NoFork EXCEPT !.known = TRUE, !.name = n]
                              /\ s.known /\ s.name = n /\ s.readed = 0 /\ s.written = 0
      BY ForkSet
    <3>4. /\ s \in AForks /\ s.known /\ s.name = n /\ s.readed = 0 /\ s.written = 0 /\ forkMap' = [forkMap EXCEPT ![g] = s]
          /\ afpTemp' = A!Blank /\ afpEvents' = {} /\ UNCHANGED <<loginName, volume, dirTable, isDirs>>
      BY <2>10, <3>1, <3>2, <3>3 DEF A!OpenForkResponse
    <3>5. afpOdd' \cap A!Misleading = {} => A!PartOf(n, p)
      BY <2>3, <2>4, <2>5, <3>1, <3>2 DEF Part, A!Misleading
    <3>6. s.readed <= o.readed /\ s.written <= o.written /\ s.readed <= forkMap[g].readed + 1 /\ s.written <= forkMap[g].written + 1
      BY <2>7, <2>8, <3>4
    <3>7. AfpAnswered(r) /\ (afpOdd' = {} /\ AfpCopies(s, o) => AfpKept')
      BY <1>1, <2>3, <2>7, <3>4, <3>5, <3>6, ForkStep
    <3>8. afpOdd' = {} => n = p BY <1>1, <2>3, <2>5, <3>2, UsualAnswer DEF AfpTold
    <3>9. QED BY <1>1, <2>7, <3>4, <3>7, <3>8, NothingHeard DEF AfpStepped, AfpCopies
  <2>11. QED BY <2>3, <2>9, <2>10
<1>4. QED BY <1>2, <1>3 DEF A!ForkOpened

LEMMA UseStep ==
  ASSUME AfpInv, NEW r \in afpAsked, A!ForkUsed(r)
  PROVE  AfpStepped(r)
<1>1. r.cmd \in {"read", "write"} /\ afpFacts' = {} /\ UNCHANGED <<user, mounted, tree, lastDid>> /\ AfpSound
  BY DEF A!ForkUsed, AfpInv
<1>2. CASE A!Answer(r, "failed", A!Nothing, {}, {}) /\ forks' = forks BY <1>1, <1>2, RefusedStep DEF LogIns
<1>3. ASSUME NEW result, result # "failed",
             forks' = IF r.cmd = "read" THEN [forks EXCEPT ![r.fork].readed = @ + 1] ELSE [forks EXCEPT ![r.fork].written = @ + 1],
             A!Answer(r, result, A!Nothing, {}, A!When(result = "eof", "eof")), result \in {"ok", "eof"}
      PROVE  AfpStepped(r)
  <2>1. /\ afpAsked' = afpAsked \ {r} /\ UNCHANGED <<afpScenario, afpRequests>> /\ seen' = seen
        /\ afpOdd \subseteq afpOdd' /\ A!When(result = "eof", "eof") \subseteq afpOdd'
        /\ \/ AfpQuiet /\ (afpOdd' = {} => afpTemp.id # r.id \/ result # "ok")
           \/ \E a : AfpReplies(r, a)
    BY <1>1, <1>3, AnsweredPlain
  <2>2. PICK g \in Forks : g = r.fork BY <1>1 DEF AfpSound, AfpAsked, AfpAsks, ForkCmds
  <2>3. PICK op \in BOOLEAN, p \in Seq(AWords), i \in Nat, j \in Nat : forks[g] \in AOpens /\
          forks[g].open = op /\ forks[g].path = p /\ forks[g].readed = i /\ forks[g].written = j
    BY <1>1 DEF AfpSound, AfpTypes, AOpens
  <2>4. PICK c \in 0..1, d \in 0..1 : c + d = 1 /\ (c = 1 <=> r.cmd = "read") BY <1>1
  <2>5. PICK o : o = IF c = 1 THEN [forks[g] EXCEPT !.readed = @ + 1] ELSE [forks[g] EXCEPT !.written = @ + 1]
    OBVIOUS
  <2>6. o \in AOpens /\ forks' = [forks EXCEPT ![g] = o] /\ o.open = op /\ o.path = p /\ o.readed = i + c /\ o.written = j + d
    <3>1. i + 1 \in Nat /\ j + 1 \in Nat /\ i + 0 = i /\ j + 0 = j /\ (c = 1 => d = 0) /\ (c # 1 => c = 0 /\ d = 1)
      BY <2>4
    <3>2. forks' = [forks EXCEPT ![g] = o] BY <1>3, <2>2, <2>4, <2>5
    <3>3. CASE c = 1 BY <2>3, <2>5, <3>1, <3>2, <3>3 DEF AOpens
    <3>4. CASE c # 1 BY <2>3, <2>5, <3>1, <3>2, <3>4 DEF AOpens
    <3>5. QED BY <3>3, <3>4
  <2>7. PICK k \in BOOLEAN, n \in ANamed, x \in Nat, y \in Nat : forkMap[g] \in AForks /\
          forkMap[g].known = k /\ forkMap[g].name = n /\ forkMap[g].readed = x /\ forkMap[g].written = y
    BY <1>1 DEF AfpSound, AfpTypes, AForks
  <2>8. forkMap \in [Forks -> AForks] /\ forkMap[g] \in AForks /\ (~forkMap[g].known => forkMap[g] = A!NoFork)
    BY <1>1 DEF AfpSound, AfpTypes
  <2>9. CASE AfpQuiet /\ (afpOdd' = {} => afpTemp.id # r.id \/ result # "ok")
    <3>1. forkMap' = [forkMap EXCEPT ![g] = forkMap[g]] BY <2>8, <2>9 DEF AfpQuiet
    <3>2. x <= x + 1 /\ y <= y + 1 /\ (x <= i => x <= i + c) /\ (y <= j => y <= j + d) BY <2>4
    <3>3. InPart(g) /\ o.open /\ forkMap[g].known =>
            A!PartOf(forkMap[g].name, o.path) /\ forkMap[g].readed <= o.readed /\ forkMap[g].written <= o.written
      BY <2>3, <2>6, <2>7, <3>2 DEF InPart
    <3>4. AfpAnswered(r)
      <4>1. forkMap[g].readed <= forkMap[g].readed + 1 /\ forkMap[g].written <= forkMap[g].written + 1
        BY <2>7, <3>2
      <4>2. r.cmd \in ForkCmds \cup {"openFork"} BY <1>1 DEF ForkCmds
      <4>3. QED BY <1>1, <2>1, <2>6, <2>8, <2>9, <3>1, <3>3, <4>1, <4>2, ForkStep DEF AfpQuiet
    <3>5. afpOdd' # {} BY <1>1, <1>3, <2>1, <2>9, UsualAnswer DEF AfpTold, A!When
    <3>6. QED BY <2>9, <3>4, <3>5, NothingHeard DEF AfpStepped, AfpQuiet
  <2>10. ASSUME NEW a, AfpReplies(r, a) PROVE AfpStepped(r)
    <3>1. A!CountResponse /\ afpTemp.fork = g /\ afpTemp.cmd = r.cmd
      BY <1>1, <2>2, <2>10 DEF AfpReplies, AfpHolds, A!OnResponse, A!Mine, LogIns, ForkCmds
    <3>2. PICK l \in 0..1 : l = afpTemp.length BY <1>1 DEF AfpSound, AfpTypes, Temps
    <3>3. PICK s : s = IF ~k THEN forkMap[g] ELSE IF c = 1 THEN [forkMap[g] EXCEPT !.readed = @ + l] ELSE [forkMap[g] EXCEPT !.written = @ + l]
      OBVIOUS
    <3>4. afpTemp' = A!Blank /\ afpEvents' = {} /\ UNCHANGED <<loginName, volume, dirTable, isDirs>>
      BY <3>1 DEF A!CountResponse
    <3>5. /\ s \in AForks /\ s.known = k /\ s.name = n /\ (~k => s = forkMap[g])
          /\ (k /\ c = 1 => s.readed = x + l /\ s.written = y) /\ (k /\ c # 1 => s.readed = x /\ s.written = y + l)
      BY <2>7, <3>2, <3>3 DEF AForks
    <3>a. forkMap' = [forkMap EXCEPT ![g] = s] /\ (~s.known => s = A!NoFork)
      BY <2>4, <2>7, <2>8, <3>1, <3>2, <3>3, <3>5 DEF A!CountResponse
    <3>6. /\ s.readed <= x + 1 /\ s.written <= y + 1
          /\ x <= i => s.readed <= i + c
          /\ y <= j => s.written <= j + d
          /\ k /\ l = 1 /\ x = i /\ y = j => s.readed = i + c /\ s.written = j + d
      BY <2>4, <2>7, <3>2, <3>5
    <3>7. InPart(g) /\ o.open /\ s.known => A!PartOf(s.name, o.path) /\ s.readed <= o.readed /\ s.written <= o.written
      BY <2>3, <2>6, <2>7, <3>5, <3>6 DEF InPart
    <3>8. AfpAnswered(r) /\ (afpOdd' = {} /\ AfpCopies(s, o) => AfpKept')
      <4>1. s.readed <= forkMap[g].readed + 1 /\ s.written <= forkMap[g].written + 1 BY <2>7, <3>6
      <4>2. r.cmd \in ForkCmds \cup {"openFork"} BY <1>1 DEF ForkCmds
      <4>3. QED BY <1>1, <2>1, <2>6, <3>4, <3>5, <3>a, <3>7, <4>1, <4>2, ForkStep
    <3>9. afpOdd' = {} => AfpCopies(s, o)
      <4>1. SUFFICES ASSUME afpOdd' = {} PROVE AfpCopies(s, o) OBVIOUS
      <4>2. AfpKept /\ k /\ l = 1 BY <1>1, <2>1, <2>2, <2>7, <3>2, <4>1, UsualAnswer DEF AfpTold
      <4>3. op /\ n = p /\ x = i /\ y = j BY <2>3, <2>7, <4>2 DEF AfpKept, AfpCopies
      <4>4. QED BY <2>6, <3>5, <3>6, <4>2, <4>3 DEF AfpCopies
    <3>10. QED BY <1>1, <3>4, <3>8, <3>9, NothingHeard DEF AfpStepped
  <2>11. QED BY <2>1, <2>9, <2>10
<1>4. QED BY <1>2, <1>3 DEF A!When, A!ForkUsed

(* The events of a fork, and what they would be of the server's copy. *)
ForkEvents(who, path, i, j) ==
  {A!Event("read", who, path, <<>>, n) : n \in {i} \ {0}} \cup {A!Event("write", who, path, <<>>, n) : n \in {j} \ {0}}

LEMMA CloseStep ==
  ASSUME AfpInv, NEW r \in afpAsked, A!ForkClosed(r)
  PROVE  AfpStepped(r)
<1>1. r.cmd = "closeFork" /\ UNCHANGED <<user, mounted, tree, lastDid>> /\ AfpSound BY DEF A!ForkClosed, AfpInv
<1>2. CASE A!Answer(r, "failed", A!Nothing, {}, {}) /\ afpFacts' = {} /\ forks' = forks
  BY <1>1, <1>2, RefusedStep DEF LogIns
<1>3. ASSUME forks' = [forks EXCEPT ![r.fork] = A!Closed],
             afpFacts' = ForkEvents(A!Who, forks[r.fork].path, forks[r.fork].readed, forks[r.fork].written),
             A!Answer(r, "ok", A!Nothing, {}, {})
      PROVE  AfpStepped(r)
  <2>1. /\ afpAsked' = afpAsked \ {r} /\ UNCHANGED <<afpScenario, afpRequests>> /\ seen' = seen
        /\ afpOdd \subseteq afpOdd' /\ A!Possible(r)
        /\ \/ AfpQuiet /\ (afpOdd' = {} => afpTemp.id # r.id)
           \/ \E a : AfpReplies(r, a)
    BY <1>1, <1>3, AnsweredPlain
  <2>2. PICK g \in Forks : g = r.fork BY <1>1 DEF AfpSound, AfpAsked, AfpAsks, ForkCmds
  <2>3. /\ forkMap \in [Forks -> AForks] /\ forkMap[g] \in AForks /\ (~forkMap[g].known => forkMap[g] = A!NoFork)
        /\ forks[g].readed \in Nat /\ forks[g].written \in Nat /\ loginName \in ANamed
        /\ afpRequests \in Nat /\ afpRequests <= afpScenario.requests /\ afpScenario.requests \in Nat
    BY <1>1, AfpConstants DEF AfpSound, AfpTypes, AOpens
  <2>4. PICK n \in ANamed, x \in Nat, y \in Nat : n = forkMap[g].name /\ x = forkMap[g].readed /\ y = forkMap[g].written
    BY <2>3 DEF AForks
  <2>5. PICK o \in AOpens : o = A!Closed /\ ~o.open /\ o.path = <<>> /\ o.readed = 0 /\ o.written = 0 BY ForkSet
  <2>6. forks' = [forks EXCEPT ![g] = o] /\ r.cmd \in ForkCmds \cup {"openFork"}
    BY <1>1, <1>3, <2>2, <2>5 DEF ForkCmds
  <2>7. CASE AfpQuiet /\ (afpOdd' = {} => afpTemp.id # r.id)
    <3>1. forkMap' = [forkMap EXCEPT ![g] = forkMap[g]] /\ forkMap[g].readed <= forkMap[g].readed + 1 /\ forkMap[g].written <= forkMap[g].written + 1
      BY <2>3, <2>4, <2>7 DEF AfpQuiet
    <3>2. AfpAnswered(r) BY <1>1, <2>1, <2>3, <2>5, <2>6, <2>7, <3>1, ForkStep DEF AfpQuiet
    <3>3. afpOdd' # {} BY <1>1, <2>1, <2>7, UsualAnswer DEF AfpTold
    <3>4. QED BY <2>7, <3>2, <3>3, NothingHeard DEF AfpStepped, AfpQuiet
  <2>8. ASSUME NEW a, AfpReplies(r, a) PROVE AfpStepped(r)
    <3>1. A!CloseForkResponse /\ afpTemp.fork = g
      BY <1>1, <2>2, <2>8 DEF AfpReplies, AfpHolds, A!OnResponse, A!Mine, LogIns, ForkCmds
    <3>2. /\ afpEvents' = ForkEvents(loginName, n, x, y) /\ afpTemp' = afpTemp /\ forkMap' = [forkMap EXCEPT ![g] = A!NoFork]
          /\ UNCHANGED <<loginName, volume, dirTable, isDirs>>
      BY <2>4, <3>1 DEF A!CloseForkResponse, ForkEvents
    <3>3. PICK s \in AForks : s = A!NoFork /\ ~s.known /\ s.name = <<>> /\ s.readed = 0 /\ s.written = 0
      BY ForkSet
    <3>4. AfpAnswered(r) /\ (afpOdd' = {} => AfpKept')
      <4>1. s.readed <= forkMap[g].readed + 1 /\ s.written <= forkMap[g].written + 1 BY <2>4, <3>3
      <4>2. AfpCopies(s, o) /\ forkMap' = [forkMap EXCEPT ![g] = s] BY <2>5, <3>2, <3>3 DEF AfpCopies
      <4>3. QED BY <1>1, <2>1, <2>5, <2>6, <3>2, <3>3, <4>1, <4>2, ForkStep
    <3>5. AfpEvents'
      <4>1. x <= afpScenario.requests /\ y <= afpScenario.requests
        BY <1>1, <2>3, <2>4, FS_CardinalityType DEF AfpSound, AfpAsked, AfpCounts
      <4>2. ASSUME NEW e \in afpEvents'
            PROVE  e.path = n /\ e.to = <<>> /\ e.user = loginName /\ e.size \in {x, y}
        BY <3>2 DEF ForkEvents, A!Event
      <4>3. x \in 0..afpScenario.requests /\ y \in 0..afpScenario.requests BY <2>3, <4>1
      <4>4. QED BY <2>1, <2>3, <4>2, <4>3, ShortNames DEF AfpEvents
    <3>6. A!NothingInvented'
      <4>1. SUFFICES ASSUME afpOdd' \cap A!Misleading = {}, NEW e \in afpEvents'
                     PROVE  \E f \in afpFacts' : A!Covers(f, e)
        BY DEF A!NothingInvented
      <4>2. user.in /\ loginName \in {<<>>, A!Who} /\ InPart(g)
        BY <1>1, <2>1, <4>1 DEF AfpSound, AfpFollows, LogIns
      <4>3. forks[g].open /\ (x # 0 \/ y # 0 => forkMap[g].known)
        BY <1>1, <2>1, <2>2, <2>3, <2>4, ForkSet DEF A!Possible
      <4>4. A!PartOf(<<>>, <<>>) BY NothingIsPart
      <4>5. CASE x # 0 /\ e = A!Event("read", loginName, n, <<>>, x)
        <5>1. A!PartOf(n, forks[g].path) /\ x <= forks[g].readed /\ forks[g].readed # 0
          BY <2>3, <2>4, <4>2, <4>3, <4>5 DEF InPart
        <5>2. PICK f : f = A!Event("read", A!Who, forks[g].path, <<>>, forks[g].readed) OBVIOUS
        <5>3. f \in afpFacts' BY <1>3, <2>2, <5>1, <5>2 DEF ForkEvents
        <5>4. A!Covers(f, e) BY <4>2, <4>4, <4>5, <5>1, <5>2 DEF A!Covers, A!Event
        <5>5. QED BY <5>3, <5>4
      <4>6. CASE y # 0 /\ e = A!Event("write", loginName, n, <<>>, y)
        <5>1. A!PartOf(n, forks[g].path) /\ y <= forks[g].written /\ forks[g].written # 0
          BY <2>3, <2>4, <4>2, <4>3, <4>6 DEF InPart
        <5>2. PICK f : f = A!Event("write", A!Who, forks[g].path, <<>>, forks[g].written) OBVIOUS
        <5>3. f \in afpFacts' BY <1>3, <2>2, <5>1, <5>2 DEF ForkEvents
        <5>4. A!Covers(f, e) BY <4>2, <4>4, <4>6, <5>1, <5>2 DEF A!Covers, A!Event
        <5>5. QED BY <5>3, <5>4
      <4>7. QED BY <3>2, <4>5, <4>6 DEF ForkEvents
    <3>7. afpOdd' = {} => afpEvents' = afpFacts'
      BY <1>1, <1>3, <2>1, <2>2, <2>4, <3>2, UsualAnswer DEF LogIns, AfpKept, AfpCopies
    <3>8. QED BY <3>4, <3>5, <3>6, <3>7 DEF AfpStepped, AfpHeard
  <2>9. QED BY <2>1, <2>7, <2>8
<1>4. QED BY <1>2, <1>3 DEF A!ForkClosed, ForkEvents

(* The tables keep up with what an answer tells of, and with changes that *)
(* leave the folders that they know alone. *)
LEMMA FoundTold ==
  ASSUME AfpSound, AfpFound, GoodTree(tree', lastDid'), tree \subseteq tree', NEW r, afpAsked = {r}, r.cmd # "delete",
         NEW e \in tree', \A x \in tree' : x \in tree \/ x = e, e.did # 0, e.did # e.parent,
         dirTable' = A!InsertDir(dirTable, e.parent, e.did, e.name), isDirs' = isDirs \cup {<<e.parent, e.name>>},
         seen' = seen \cup {e.did}, Cardinality(seen') <= MapSize + 1
  PROVE  AfpFound'
<1>1. GoodTable(dirTable) /\ seen \subseteq ADids \ {0} /\ e \in AEntries BY DEF AfpSound, AfpTypes, GoodTree
<1>2. PICK id \in ADids, did \in ADids, name \in ANames : id = e.did /\ did = e.parent /\ name = e.name /\ id # did /\ id # 0
  BY <1>1 DEF AEntries
<1>3. e = [did |-> id, parent |-> did, name |-> name] BY <1>1, <1>2 DEF AEntries
<1>4. PICK out, Q : out = A!InsertDir(dirTable, did, id, name) /\ Q = seen' OBVIOUS
<1>5. A!FindDid(out, id) = {e} /\ A!FindDid(out, did) = A!FindDid(dirTable, did)
  BY <1>1, <1>2, <1>3, <1>4, Inserted
<1>6. Q \subseteq ADids /\ id \in Q /\ Cardinality(Q) <= MapSize + 1 /\ \A x : A!FindDid(dirTable, x) # {} => x \in Q
  BY <1>1, <1>2, <1>4 DEF AfpFound
<1>7. \A x : x \notin {did, id} => A!FindDid(out, x) = A!FindDid(dirTable, x)
  BY <1>1, <1>2, <1>4, <1>6, NothingDropped
<1>8. dirTable' = out /\ isDirs' = isDirs \cup {<<did, name>>} /\ seen' = seen \cup {id} BY <1>2, <1>4
<1>9. \A x : A!FindDid(out, x) # {} => x \in seen' BY <1>5, <1>7, <1>8 DEF AfpFound
<1>10. ASSUME NEW x \in tree', x.did \in seen'
       PROVE  x \in A!FindDid(out, x.did) /\ <<x.parent, x.name>> \in isDirs'
  BY <1>2, <1>5, <1>7, <1>8, <1>10 DEF GoodTree, AfpFound
<1>11. \A p \in isDirs' : \E x \in tree' : x.did # 0 /\ p = <<x.parent, x.name>> BY <1>2, <1>8 DEF AfpFound
<1>12. QED BY <1>8, <1>9, <1>10, <1>11 DEF AfpFound

LEMMA FoundSame ==
  ASSUME AfpSound, AfpFound, GoodTree(tree', lastDid'), NEW r, afpAsked = {r}, UNCHANGED <<dirTable, seen>>, isDirs' \subseteq isDirs,
         \A x \in tree' : x.did # 0 => x \in tree,
         \A p \in isDirs \ isDirs' : \E f \in tree' : f.did = 0 /\ p = <<f.parent, f.name>>,
         \A p \in isDirs' : \E x \in tree' : x.did # 0 /\ p = <<x.parent, x.name>>,
         r.cmd = "delete" => \A x \in tree' : ~(r.did = x.parent /\ r.name = x.name)
  PROVE  AfpFound'
  BY DEF AfpSound, AfpTypes, AfpFound, GoodTree

(* After an answer nothing is asked for. *)
LEMMA KeptAfter ==
  ASSUME AfpKept, afpAsked' = {}, UNCHANGED <<user, mounted, forks, loginName, forkMap>>, user.in,
         mounted => volume' = "named", AfpFound'
  PROVE  AfpKept'
  BY DEF AfpKept, A!Who, AfpCopies

(* The flag for too many folders says that those that answers told of fit. *)
LEMMA Fit ==
  ASSUME AfpSound, NEW S, S \subseteq ADids, NEW kinds, kinds = A!When(A!Cardinality(S) > MapSize + 1, "many"), kinds = {}
  PROVE  Cardinality(S) <= MapSize + 1
<1>1. MaxDid \in Nat /\ MapSize \in Nat BY AfpConstants DEF AfpSound
<1>2. IsFiniteSet(S)
  <2>1. IsFiniteSet(0..MaxDid) BY <1>1, FS_Interval
  <2>2. QED BY <2>1, FS_Subset DEF ADids
<1>3. Cardinality(S) \in Nat /\ A!Cardinality(S) = Cardinality(S) BY <1>2, FS_CardinalityType, SameCard
<1>4. ~(Cardinality(S) > MapSize + 1) BY <1>3 DEF A!When
<1>5. QED BY <1>1, <1>3, <1>4

(* What an answer about an entry does to the tables. *)
TableTold(e, told) ==
  /\ volume' \in {"unknown", "unnamed", "named"} /\ (volume = "named" => volume' = "named")
  /\ \/ /\ told = {e.did} /\ e.did # 0 /\ e.did # e.parent /\ isDirs' = isDirs \cup {<<e.parent, e.name>>}
        /\ dirTable' = A!InsertDir(dirTable, e.parent, e.did, e.name)
     \/ told = {} /\ e.did = 0 /\ dirTable' = dirTable /\ isDirs' = isDirs \ {<<e.parent, e.name>>}
     \/ UNCHANGED <<dirTable, isDirs>> /\ (told = {} \/ (told = {e.did} /\ e.did = e.parent))

LEMMA ParamsTold ==
  ASSUME AfpSound, NEW r \in afpAsked, r.cmd = "params", NEW form, NEW e \in tree, NEW told, NEW a, AfpReplies(r, a),
         IF r.name = A!None THEN e.did = r.did ELSE e.parent = r.did /\ e.name = r.name,
         told = IF e.did = 0 \/ (form = "long" <=> r.name # A!None) THEN {} ELSE {e.did},
         a.form = form, a.parent = e.parent, a.did = e.did, a.name = e.name
  PROVE  TableTold(e, told) /\ afpEvents' = {} /\ afpTemp' = A!Blank /\ UNCHANGED <<loginName, forkMap>>
<1>1. /\ A!ParamsResponse(a) /\ afpTemp.did = r.did /\ (r.name # A!None => afpTemp.name1 = <<r.name>>)
  BY DEF AfpReplies, AfpHolds, A!OnResponse, A!Mine, LogIns
<1>2. r.did \in Nat /\ r.did # 0 /\ e.parent # 0 /\ volume \in {"unknown", "unnamed", "named"}
  BY AfpConstants DEF AfpSound, AfpAsked, AfpAsks, AfpTree, GoodTree, AfpTypes
<1>3. /\ afpEvents' = {} /\ afpTemp' = A!Blank /\ UNCHANGED <<loginName, forkMap>> BY <1>1 DEF A!ParamsResponse
<1>4. CASE form = "long" BY <1>1, <1>2, <1>3, <1>4 DEF A!ParamsResponse, A!InsertDirEntry, TableTold
<1>5. CASE form # "long" BY <1>1, <1>2, <1>3, <1>5 DEF A!ParamsResponse, A!InsertDirEntry, TableTold
<1>6. QED BY <1>4, <1>5

LEMMA DescribedStep ==
  ASSUME AfpInv, NEW r \in afpAsked, A!Described(r)
  PROVE  AfpStepped(r)
<1>1. r.cmd = "params" /\ afpFacts' = {} /\ UNCHANGED <<user, mounted, tree, lastDid, forks>> /\ AfpSound
  BY DEF A!Described, AfpInv
<1>2. CASE A!Answer(r, "failed", A!Nothing, {}, {}) BY <1>1, <1>2, RefusedStep DEF LogIns
<1>3. ASSUME NEW form, NEW e, e \in IF r.name = A!None THEN {x \in tree : x.did = r.did} ELSE A!At(r.did, r.name),
             NEW told, told = IF e.did = 0 \/ (form = "long" <=> r.name # A!None) THEN {} ELSE {e.did},
             A!Answer(r, "ok", [A!Nothing EXCEPT !.form = form, !.parent = e.parent, !.did = e.did, !.name = e.name],
                      told, A!When(A!Cardinality(seen \cup told) > MapSize + 1, "many"))
      PROVE  AfpStepped(r)
  <2>1. PICK more, kinds : /\ more = [A!Nothing EXCEPT !.form = form, !.parent = e.parent, !.did = e.did, !.name = e.name]
                           /\ kinds = A!When(A!Cardinality(seen \cup told) > MapSize + 1, "many")
    OBVIOUS
  <2>2. more.form = form /\ more.parent = e.parent /\ more.did = e.did /\ more.name = e.name
    BY <2>1 DEF A!Nothing
  <2>3. e \in tree /\ IF r.name = A!None THEN e.did = r.did ELSE e.parent = r.did /\ e.name = r.name
    BY <1>3 DEF A!At
  <2>4. /\ afpAsked' = afpAsked \ {r} /\ UNCHANGED <<afpScenario, afpRequests>>
        /\ afpOdd \subseteq afpOdd' /\ kinds \subseteq afpOdd'
        /\ \/ AfpQuiet /\ seen' = seen /\ afpOdd' # {}
           \/ AfpQuiet /\ seen' = seen \cup told /\ afpTemp.id # r.id
           \/ /\ seen' = seen \cup told
              /\ \E a : AfpReplies(r, a) /\ a.form = form /\ a.parent = e.parent /\ a.did = e.did /\ a.name = e.name
    <3>1. A!Answer(r, "ok", more, told, kinds) BY <1>3, <2>1
    <3>2. QED BY <1>1, <2>2, <3>1, AfpAnswerIs
  <2>5. told \subseteq FoldersOf(tree) /\ AfpGrows /\ (UNCHANGED <<loginName, forkMap>> => ForkMoves /\ LoginMoves(r))
    BY <1>1, <1>3, <2>3, <2>4, Frames DEF FoldersOf
  <2>6. CASE AfpQuiet /\ seen' \subseteq seen \cup told /\ (afpOdd' # {} \/ afpTemp.id # r.id)
    BY <1>1, <2>4, <2>5, <2>6, Frames, UsualAnswer, NothingHeard DEF AfpQuiet, AfpTold, AfpStepped, AfpAnswered
  <2>7. ASSUME NEW a, AfpReplies(r, a), a.form = form, a.parent = e.parent, a.did = e.did, a.name = e.name, seen' = seen \cup told
        PROVE  AfpStepped(r)
    <3>1. TableTold(e, told) /\ afpEvents' = {} /\ afpTemp' = A!Blank /\ UNCHANGED <<loginName, forkMap>>
      BY <1>1, <1>3, <2>3, <2>7, ParamsTold
    <3>2. AfpAnswered(r) BY <1>1, <2>3, <2>4, <2>5, <2>7, <3>1 DEF TableMoves, TableTold, AfpAnswered
    <3>3. ASSUME afpOdd' = {}
          PROVE  AfpKept'
      <4>1. AfpKept /\ afpAsked = {r} /\ afpAsked' = {} /\ user.in /\ Rising(tree)
        BY <1>1, <2>4, <3>3, UsualAnswer DEF LogIns
      <4>2. AfpFound'
        <5>1. GoodTree(tree', lastDid') /\ seen \subseteq ADids BY <2>5 DEF AfpGrows, AfpInv, AfpSound, AfpTypes
        <5>2. CASE told = {e.did} /\ e.did # 0 /\ e.did # e.parent /\ isDirs' = isDirs \cup {<<e.parent, e.name>>}
                   /\ dirTable' = A!InsertDir(dirTable, e.parent, e.did, e.name)
          <6>1. Cardinality(seen') <= MapSize + 1
            BY <1>1, <2>1, <2>3, <2>4, <2>7, <3>3, <5>1, <5>2, Fit DEF GoodTree, AEntries
          <6>2. QED BY <1>1, <2>3, <2>7, <4>1, <5>1, <5>2, <6>1, FoundTold DEF AfpKept
        <5>3. CASE UNCHANGED dirTable /\ seen' = seen /\ (isDirs' = isDirs \/ (e.did = 0 /\ isDirs' = isDirs \ {<<e.parent, e.name>>}))
          BY <1>1, <2>3, <4>1, <5>1, <5>3, FoundSame DEF AfpKept, AfpFound
        <5>4. e.did # e.parent BY <1>1, <2>3, <4>1, <5>1 DEF Rising, GoodTree, AEntries, ADids
        <5>5. QED BY <2>7, <3>1, <5>2, <5>3, <5>4 DEF TableTold
      <4>3. mounted => volume' = "named" BY <3>1, <4>1 DEF AfpKept, TableTold
      <4>4. QED BY <1>1, <3>1, <4>1, <4>2, <4>3, KeptAfter
    <3>4. QED BY <1>1, <3>1, <3>2, <3>3, NothingHeard DEF AfpStepped
  <2>8. QED BY <2>4, <2>6, <2>7
<1>4. QED
  <2>1. SUFFICES ASSUME ~A!Answer(r, "failed", A!Nothing, {}, {}) PROVE AfpStepped(r) BY <1>2
  <2>2. PICK form \in afpScenario.forms, e \in IF r.name = A!None THEN {x \in tree : x.did = r.did} ELSE A!At(r.did, r.name) :
          A!Answer(r, "ok", [A!Nothing EXCEPT !.form = form, !.parent = e.parent, !.did = e.did, !.name = e.name],
                   IF e.did = 0 \/ (form = "long" <=> r.name # A!None) THEN {} ELSE {e.did},
                   A!When(A!Cardinality(seen \cup IF e.did = 0 \/ (form = "long" <=> r.name # A!None) THEN {} ELSE {e.did}) > MapSize + 1, "many"))
    BY <2>1, Zenon DEF A!Described
  <2>3. PICK told : told = IF e.did = 0 \/ (form = "long" <=> r.name # A!None) THEN {} ELSE {e.did} OBVIOUS
  <2>4. QED BY <1>3, <2>2, <2>3

LEMMA TreeMade ==
  ASSUME NEW t, NEW last, GoodTree(t, last), NEW d \in FoldersOf(t), NEW name \in ANames, \A x \in t : ~(x.parent = d /\ x.name = name),
         NEW did, did = 0 \/ (did = last + 1 /\ did <= MaxDid), NEW e, e = [parent |-> d, name |-> name, did |-> did],
         NEW u, u = t \cup {e}, NEW last2, last2 = IF did = 0 THEN last ELSE did
  PROVE  /\ GoodTree(u, last2) /\ last <= last2 /\ (Rising(t) => Rising(u)) /\ e.parent = d /\ e.name = name /\ e.did = did
         /\ FoldersOf(u) = FoldersOf(t) \cup ({did} \ {0}) /\ \A x \in FoldersOf(u) : x <= last => x \in FoldersOf(t)
<1>1. /\ FoldersOf(t) \subseteq 2..last /\ last \in Nat /\ 2 <= last /\ last <= MaxDid /\ MaxDid \in Nat /\ t \subseteq AEntries
      /\ last2 \in Nat /\ last <= last2 /\ last2 <= MaxDid /\ did \in Nat /\ d \in Nat /\ 2 <= d /\ d <= last
  <2>1. FoldersOf(t) \subseteq 2..last /\ last \in Nat /\ 2 <= last /\ last <= MaxDid /\ MaxDid \in Nat /\ t \subseteq AEntries
    BY TreeFolder DEF GoodTree
  <2>2. d \in 2..last BY <2>1
  <2>3. QED BY <2>1, <2>2
<1>2. e \in AEntries /\ e.parent = d /\ e.name = name /\ e.did = did BY <1>1 DEF AEntries, ADids
<1>3. \A x \in t : x.did \in Nat /\ x.did <= last BY <1>1 DEF GoodTree, AEntries, ADids
<1>4. did = 0 \/ \A x \in t : x.did # did BY <1>1, <1>3
<1>5. FoldersOf(u) = FoldersOf(t) \cup ({did} \ {0}) BY <1>2 DEF FoldersOf
<1>6. \A x \in FoldersOf(u) : x <= last => x \in FoldersOf(t) BY <1>1, <1>5
<1>7. Rising(t) => Rising(u) BY <1>1, <1>2 DEF Rising
<1>8. u \subseteq AEntries /\ RootE \in u /\ last2 \in 2..MaxDid BY <1>1, <1>2 DEF GoodTree
<1>9. ASSUME NEW x \in u
      PROVE  /\ x.did # 1 /\ x.did <= last2 /\ x.parent # 0
             /\ x.parent = 1 \/ x.did = 2 => x = RootE
             /\ x = RootE \/ \E y \in u : y.did = x.parent
  BY <1>1, <1>2, <1>3 DEF FoldersOf, GoodTree
<1>10. \A x, y \in u : (x.did = y.did /\ x.did # 0) \/ (x.parent = y.parent /\ x.name = y.name) => x = y
  BY <1>2, <1>4 DEF GoodTree
<1>11. QED BY <1>1, <1>2, <1>5, <1>6, <1>7, <1>8, <1>9, <1>10 DEF GoodTree

(* One event, and what it tells of. *)
Said(op, p, q) == afpEvents' = {A!Event(op, loginName, p, q, 0)}
Meant(op, p, q) == afpFacts' = {A!Event(op, A!Who, p, q, 0)}

LEMMA SaidOne ==
  ASSUME AfpSound, NEW r, AfpAnswered(r), r.cmd \notin LogIns \cup {"logout"},
         NEW op, NEW p \in ANamed, NEW q \in ANamed, Said(op, p, q),
         NEW op2, NEW p2, NEW q2, Meant(op2, p2, q2), op = op2 \/ {op, op2} = {"remove", "rmdir"},
         afpOdd' \cap A!Misleading = {} => A!PartOf(p, p2) /\ A!PartOf(q, q2)
  PROVE  AfpHeard'
<1>1. PICK e, f : e = A!Event(op, loginName, p, q, 0) /\ f = A!Event(op2, A!Who, p2, q2, 0) OBVIOUS
<1>2. /\ e.op = op /\ e.user = loginName /\ e.path = p /\ e.to = q /\ e.size = 0
      /\ f.op = op2 /\ f.user = A!Who /\ f.path = p2 /\ f.to = q2 /\ f.size = 0
  BY <1>1 DEF A!Event
<1>3. /\ r \in afpAsked /\ afpOdd \subseteq afpOdd' /\ afpScenario' = afpScenario /\ afpScenario.requests \in Nat /\ loginName \in ANamed
      /\ afpEvents' = {e} /\ afpFacts' = {f}
  BY <1>1, AfpConstants DEF AfpAnswered, AfpSound, AfpTypes, Said, Meant
<1>4. AfpEvents' BY <1>2, <1>3 DEF AfpEvents
<1>5. A!NothingInvented' BY <1>2, <1>3 DEF A!NothingInvented, AfpSound, AfpFollows, A!Covers
<1>6. QED BY <1>4, <1>5 DEF AfpHeard

(* The path that is said of a folder and a name, with some table. *)
LEMMA PathSaid ==
  ASSUME AfpTypes, AfpTree, "renamed" \notin afpOdd, NEW table, GoodTable(table), NEW d \in FoldersOf(tree), NEW name \in AfpNames,
         NEW vol, NEW p, p = A!MakePath(vol, table, d, <<name>>)
  PROVE  /\ Truly(table, tree) => A!PartOf(p, A!TruePath(d, name))
         /\ /\ vol = "named" /\ On(tree, d) \subseteq seen \cup {2} /\ ~(Len(A!Climb(<<tree>>, d, MaxDid).names) >= NestLimit)
            /\ \A e \in tree : e.did # 0 /\ e.did \in seen => A!FindDid(table, e.did) = {e}
            => p = A!TruePath(d, name)
<1>1. GoodTree(tree, lastDid) /\ Rising(tree) /\ Typed(table) /\ name \in AWords
  BY TableFacts, ShortNames DEF AfpTree
<1>2. A!TruePath(d, name) = PathIn(tree, d, name) BY PathInTyped
<1>3. Truly(table, tree) => A!PartOf(p, PathIn(tree, d, name)) BY <1>1, PathPart
<1>4. QED BY <1>2, <1>3, PathTold

LEMMA PathNamed ==
  ASSUME AfpTypes, AfpTree, NEW table, GoodTable(table), NEW d \in FoldersOf(tree), NEW name \in AfpNames, NEW vol
  PROVE  A!MakePath(vol, table, d, <<name>>) \in ANamed
<1>1. Typed(table) /\ name \in AWords /\ NestLimit \in Nat /\ d \in ADids
  <2>1. d \in 2..lastDid /\ lastDid \in Nat /\ lastDid <= MaxDid /\ MaxDid \in Nat BY TreeFolder DEF AfpTree
  <2>2. QED BY <2>1, TableFacts, ShortNames, AfpConstants DEF ADids
<1>2. PICK p : p = A!MakePath(vol, table, d, <<name>>) OBVIOUS
<1>3. p \in Seq(AWords) /\ Len(p) <= NestLimit + 1 BY <1>1, <1>2, PathTyped
<1>4. Len(p) <= NestLimit + 2 BY <1>1, <1>3
<1>5. QED BY <1>2, <1>3, <1>4 DEF ANamed

LEMMA MadeSaid ==
  ASSUME AfpSound, NEW r \in afpAsked, r.cmd \in {"createDir", "createFile"}, NEW a, AfpReplies(r, a), NEW did, a.did = did,
         r.cmd = "createFile" => did = 0, r.cmd = "createDir" => did # 0 /\ did # r.did, r.did # 0
  PROVE  /\ afpTemp' = A!Blank /\ UNCHANGED <<loginName, forkMap>>
         /\ volume' \in {"unknown", "unnamed", "named"} /\ (volume = "named" => volume' = "named")
         /\ Said(IF did = 0 THEN "create" ELSE "mkdir", A!MakePath(volume', dirTable', r.did, <<r.name>>), <<>>)
         /\ IF did = 0 THEN UNCHANGED <<dirTable, isDirs>>
            ELSE /\ dirTable' = A!InsertDir(dirTable, r.did, did, r.name) /\ isDirs' = isDirs \cup {<<r.did, r.name>>}
<1>1. afpTemp.did = r.did /\ afpTemp.name1 = <<r.name>> /\ afpTemp.cmd = r.cmd
  BY DEF AfpReplies, AfpHolds, Places
<1>2. volume \in {"unknown", "unnamed", "named"} BY DEF AfpSound, AfpTypes
<1>3. CASE r.cmd = "createDir"
  BY <1>1, <1>2, <1>3 DEF AfpReplies, A!OnResponse, A!Mine, LogIns, A!CreateDirResponse, A!Reported, Said,
    A!InsertDirEntry
<1>4. CASE r.cmd = "createFile"
  BY <1>1, <1>2, <1>4 DEF AfpReplies, A!OnResponse, A!Mine, LogIns, A!NamesResponse, A!Reported, Said
<1>5. QED BY <1>3, <1>4

LEMMA MadeStep ==
  ASSUME AfpInv, NEW r \in afpAsked, A!Made(r)
  PROVE  AfpStepped(r)
<1>1. r.cmd \in {"createDir", "createFile"} /\ UNCHANGED <<user, mounted, forks>> /\ AfpSound
  BY DEF A!Made, AfpInv
<1>2. PICK did : did = IF r.cmd = "createFile" THEN 0 ELSE lastDid + 1 OBVIOUS
<1>3. CASE A!Answer(r, "failed", A!Nothing, {}, {}) /\ afpFacts' = {} /\ UNCHANGED <<tree, lastDid>>
  BY <1>1, <1>3, RefusedStep DEF LogIns
<1>4. ASSUME NEW more, more = [A!Nothing EXCEPT !.did = did], did <= MaxDid, lastDid' = IF did = 0 THEN lastDid ELSE did,
             tree' = tree \cup {[parent |-> r.did, name |-> r.name, did |-> did]},
             Meant(IF did = 0 THEN "create" ELSE "mkdir", A!TruePath(r.did, r.name), <<>>),
             NEW kinds, kinds = A!When(A!Cardinality(seen \cup ({did} \ {0})) > MapSize + 1, "many"),
             A!Answer(r, "ok", more, {did} \ {0}, kinds)
      PROVE  AfpStepped(r)
  <2>1. more.did = did BY <1>4 DEF A!Nothing
  <2>2. /\ afpAsked' = afpAsked \ {r} /\ UNCHANGED <<afpScenario, afpRequests>>
        /\ afpOdd \subseteq afpOdd' /\ kinds \subseteq afpOdd' /\ A!Possible(r)
        /\ \/ AfpQuiet /\ seen' \subseteq seen \cup ({did} \ {0}) /\ (afpOdd' # {} \/ afpTemp.id # r.id)
           \/ seen' = seen \cup ({did} \ {0}) /\ \E a : AfpReplies(r, a) /\ a.did = did
    <3>1. PICK told : told = {did} \ {0} OBVIOUS
    <3>2. A!Answer(r, "ok", more, told, kinds) BY <1>4, <3>1
    <3>3. QED BY <1>1, <2>1, <3>1, <3>2, AfpAnswerIs
  <2>3. GoodTree(tree, lastDid) /\ r.did \in 2..lastDid /\ r.name \in AfpNames /\ r.did \in FoldersOf(tree) /\ A!At(r.did, r.name) = {}
    <3>1. GoodTree(tree, lastDid) /\ r.did \in 2..lastDid /\ r.name \in AfpNames
      BY <1>1 DEF AfpSound, AfpTree, AfpAsked, AfpAsks, OneNames, Places
    <3>2. r.did \in A!Folders \cup {1} /\ A!At(r.did, r.name) = {} BY <1>1, <2>2 DEF A!Possible
    <3>3. lastDid \in Nat BY <3>1, TreeFolder
    <3>4. QED BY <3>1, <3>2, <3>3 DEF A!Folders, FoldersOf
  <2>4. /\ lastDid \in Nat /\ did \in Nat /\ r.did # 0 /\ (did # 0 => did # r.did /\ did = lastDid + 1)
        /\ r.cmd = "createFile" => did = 0
        /\ r.cmd = "createDir" => did # 0
    <3>1. lastDid \in Nat BY <2>3, TreeFolder
    <3>2. QED BY <1>1, <1>2, <2>3, <3>1
  <2>5. PICK e : e = [parent |-> r.did, name |-> r.name, did |-> did] OBVIOUS
  <2>6. /\ GoodTree(tree', lastDid') /\ lastDid <= lastDid' /\ (Rising(tree) => Rising(tree'))
        /\ e.parent = r.did /\ e.name = r.name /\ e.did = did /\ tree' = tree \cup {e}
        /\ FoldersOf(tree') = FoldersOf(tree) \cup ({did} \ {0}) /\ \A x \in FoldersOf(tree') : x <= lastDid => x \in FoldersOf(tree)
    <3>1. r.name \in ANames /\ \A x \in tree : ~(x.parent = r.did /\ x.name = r.name)
      BY <2>3, ShortNames DEF A!At
    <3>2. did = 0 \/ (did = lastDid + 1 /\ did <= MaxDid) BY <1>4, <2>4
    <3>3. QED
      <4>1. PICK u, last2 : u = tree' /\ last2 = lastDid' OBVIOUS
      <4>2. u = tree \cup {e} /\ last2 = IF did = 0 THEN lastDid ELSE did BY <1>4, <2>5, <4>1
      <4>3. /\ GoodTree(u, last2) /\ lastDid <= last2 /\ (Rising(tree) => Rising(u)) /\ e.parent = r.did /\ e.name = r.name /\ e.did = did
            /\ FoldersOf(u) = FoldersOf(tree) \cup ({did} \ {0}) /\ \A x \in FoldersOf(u) : x <= lastDid => x \in FoldersOf(tree)
        BY <2>3, <2>5, <3>1, <3>2, <4>2, TreeMade
      <4>4. QED BY <4>1, <4>2, <4>3
  <2>7. AfpGrows /\ (UNCHANGED <<loginName, forkMap>> => ForkMoves /\ LoginMoves(r))
    BY <1>1, <2>2, <2>6, Frames DEF AfpSound, AfpTree, AfpGrows
  <2>8. CASE AfpQuiet /\ seen' \subseteq seen \cup ({did} \ {0}) /\ (afpOdd' # {} \/ afpTemp.id # r.id)
    BY <1>1, <2>2, <2>6, <2>7, <2>8, Frames, UsualAnswer, NothingHeard DEF AfpQuiet, AfpTold, AfpStepped,
      AfpAnswered
  <2>9. ASSUME seen' = seen \cup ({did} \ {0}), NEW a, AfpReplies(r, a), a.did = did
        PROVE  AfpStepped(r)
    <3>1. PICK op, vol, table, p : /\ op = (IF did = 0 THEN "create" ELSE "mkdir") /\ vol = volume' /\ table = dirTable'
                                   /\ p = A!MakePath(vol, table, r.did, <<r.name>>)
      OBVIOUS
    <3>2. /\ afpTemp' = A!Blank /\ UNCHANGED <<loginName, forkMap>>
          /\ vol \in {"unknown", "unnamed", "named"} /\ (volume = "named" => vol = "named")
          /\ Said(op, p, <<>>)
          /\ IF did = 0 THEN UNCHANGED <<dirTable, isDirs>>
             ELSE /\ dirTable' = A!InsertDir(dirTable, r.did, did, r.name) /\ isDirs' = isDirs \cup {<<r.did, r.name>>}
      BY <1>1, <2>4, <2>9, <3>1, MadeSaid
    <3>3. TableMoves BY <2>4, <2>6, <2>9, <3>1, <3>2 DEF TableMoves
    <3>4. AfpAnswered(r) BY <2>2, <2>7, <3>2, <3>3 DEF AfpAnswered
    <3>5. GoodTable(table) /\ ("renamed" \notin afpOdd' => Truly(table, tree))
      BY <1>1, <2>6, <3>1, <3>4, AnswerTypes DEF AfpTypes, AfpNamed, Truly
    <3>6. AfpTypes /\ AfpTree /\ p \in ANamed BY <1>1, <2>3, <3>1, <3>5, PathNamed DEF AfpSound
    <3>7. AfpHeard'
      <4>1. afpOdd' \cap A!Misleading = {} => A!PartOf(p, A!TruePath(r.did, r.name)) /\ A!PartOf(<<>>, <<>>)
        BY <2>2, <2>3, <3>1, <3>5, <3>6, PathSaid, NothingIsPart DEF A!Misleading
      <4>2. r.cmd \notin LogIns \cup {"logout"} BY <1>1 DEF LogIns
      <4>3. QED BY <1>1, <1>4, <3>1, <3>2, <3>4, <3>6, <4>1, <4>2, ShortNames, SaidOne
    <3>8. ASSUME afpOdd' = {}
          PROVE  AfpKept' /\ afpEvents' = afpFacts'
      <4>1. AfpKept /\ afpAsked = {r} /\ afpAsked' = {} /\ user.in /\ afpOdd = {} /\ mounted
            /\ On(tree, r.did) \subseteq seen \cup {2} /\ ~(Len(A!Climb(<<tree>>, r.did, MaxDid).names) >= NestLimit)
        BY <1>1, <2>2, <3>8, UsualAnswer DEF LogIns, AfpTold, Places
      <4>2. AfpFound'
        <5>1. CASE did # 0
          <6>1. Cardinality(seen') <= MapSize + 1
            <7>1. seen \cup ({did} \ {0}) \subseteq ADids BY <1>1, <1>4, <2>4 DEF ADids, AfpSound, AfpTypes
            <7>2. QED BY <1>1, <1>4, <2>2, <2>9, <3>8, <7>1, Fit
          <6>2. e \in tree' /\ e.did # 0 /\ e.did # e.parent /\ seen' = seen \cup {e.did} /\ tree \subseteq tree'
            BY <2>4, <2>6, <2>9, <5>1
          <6>3. dirTable' = A!InsertDir(dirTable, e.parent, e.did, e.name) /\ isDirs' = isDirs \cup {<<e.parent, e.name>>}
            BY <2>6, <3>2, <5>1
          <6>4. QED BY <1>1, <2>6, <4>1, <6>1, <6>2, <6>3, FoundTold DEF AfpKept
        <5>2. CASE did = 0 BY <1>1, <2>6, <2>9, <3>2, <4>1, <5>2, FoundSame DEF AfpKept, AfpFound
        <5>3. QED BY <5>1, <5>2
      <4>3. vol = "named" BY <3>2, <4>1 DEF AfpKept
      <4>4. AfpKept' BY <1>1, <3>1, <3>2, <4>1, <4>2, <4>3, KeptAfter
      <4>5. p = A!TruePath(r.did, r.name)
        <5>1. ASSUME NEW x \in tree, x.did # 0, x.did \in seen
              PROVE  A!FindDid(table, x.did) = {x}
          BY <2>6, <2>9, <3>1, <3>5, <3>8, <4>2, <5>1 DEF AfpFound, Truly
        <5>2. QED BY <2>3, <3>1, <3>5, <3>6, <4>1, <4>3, <5>1, PathSaid
      <4>6. loginName = A!Who BY <4>1 DEF AfpKept
      <4>7. QED BY <1>4, <3>1, <3>2, <4>4, <4>5, <4>6 DEF Said, Meant
    <3>9. QED BY <3>4, <3>7, <3>8 DEF AfpStepped
  <2>10. QED BY <2>2, <2>8, <2>9
<1>5. QED BY <1>2, <1>3, <1>4 DEF A!Made, Meant

LEMMA TreeLess ==
  ASSUME NEW t, NEW last, GoodTree(t, last), NEW e \in t, e.parent # 1, e.did = 0 \/ \A x \in t : x.parent # e.did
  PROVE  GoodTree(t \ {e}, last)
  BY DEF RootE, GoodTree

LEMMA TreeMoved ==
  ASSUME NEW t, NEW last, GoodTree(t, last), NEW e \in t, e.parent # 1, NEW d \in FoldersOf(t), NEW name \in ANames,
         \A x \in t : ~(x.parent = d /\ x.name = name), NEW f, f = [parent |-> d, name |-> name, did |-> e.did],
         NEW u, u = (t \ {e}) \cup {f}
  PROVE  GoodTree(u, last)
  BY TreeFolder DEF RootE, GoodTree, AEntries, ADids, FoldersOf

(* What is done to the tree, and what of the folders it leaves alone. *)
There(r) == {[parent |-> r.toDid, name |-> r.to, did |-> e.did] : e \in A!At(r.did, r.name)}
Altered(r) ==
  tree' = CASE r.cmd = "delete" -> tree \ A!At(r.did, r.name)
            [] r.cmd \in {"rename", "move"} -> (tree \ A!At(r.did, r.name)) \cup There(r)
            [] r.cmd = "copy" -> tree \cup There(r)
            [] OTHER -> tree
AfpMoves(r) == r.cmd \in {"rename", "move"} /\ \E e \in A!At(r.did, r.name) : e.did # 0

LEMMA TreeAltered ==
  ASSUME AfpSound, NEW r \in afpAsked, r.cmd \in {"delete"} \cup Pairs, A!Possible(r), Altered(r)
  PROVE  /\ GoodTree(tree', lastDid) /\ FoldersOf(tree') \subseteq FoldersOf(tree)
         /\ r.did \in FoldersOf(tree) /\ r.name \in AfpNames
         /\ r.cmd \in Pairs => r.toDid \in FoldersOf(tree) /\ r.to \in AfpNames
         /\ ~AfpMoves(r) => \A x \in tree' : x.did # 0 => x \in tree
         /\ \A x \in tree : x \in tree' \/ (x \in A!At(r.did, r.name) /\ r.cmd \in {"delete", "rename", "move"})
         /\ r.cmd = "delete" => \A x \in tree' : ~(r.did = x.parent /\ r.name = x.name)
<1>1. GoodTree(tree, lastDid) /\ r.did \in 2..lastDid /\ r.name \in AfpNames /\ (r.cmd \in Pairs => r.toDid \in 2..lastDid /\ r.to \in AfpNames)
  BY DEF AfpSound, AfpTree, AfpAsked, AfpAsks, OneNames, Places
<1>2. lastDid \in Nat /\ r.did # 0 /\ r.did # 1 /\ (r.cmd \in Pairs => r.toDid # 0 /\ r.toDid # 1) /\ AfpNames \subseteq ANames
  <2>1. lastDid \in Nat /\ AfpNames \subseteq ANames BY <1>1, TreeFolder, ShortNames
  <2>2. QED BY <1>1, <2>1
<1>3. PICK here : here = A!At(r.did, r.name) OBVIOUS
<1>4. r.did \in FoldersOf(tree) /\ \E e \in here : TRUE
  BY <1>2, <1>3 DEF A!Possible, Pairs, A!Folders, FoldersOf
<1>5. PICK e \in tree : here = {e} /\ e.parent = r.did /\ e.name = r.name BY <1>1, <1>3, <1>4 DEF A!At, GoodTree
<1>6. PICK f : f = [parent |-> r.toDid, name |-> r.to, did |-> e.did] /\ There(r) = {f}
  <2>1. There(r) = {[parent |-> r.toDid, name |-> r.to, did |-> x.did] : x \in {e}} BY <1>3, <1>5 DEF There
  <2>2. QED BY <2>1
<1>7. f.did = e.did /\ f.parent = r.toDid /\ f.name = r.to BY <1>6
<1>8. ASSUME r.cmd \in {"rename", "move", "copy"}
      PROVE  r.toDid \in FoldersOf(tree) /\ \A x \in tree : ~(x.parent = r.toDid /\ x.name = r.to)
  BY <1>8 DEF A!Possible, A!Folders, FoldersOf, A!At
<1>9. CASE r.cmd = "delete"
  BY <1>1, <1>2, <1>3, <1>4, <1>5, <1>9, TreeLess DEF Altered, A!Possible, GoodTree, FoldersOf, Pairs
<1>10. CASE r.cmd \in {"rename", "move"}
  <2>1. PICK u : u = tree' OBVIOUS
  <2>2. u = (tree \ {e}) \cup {f} BY <1>3, <1>5, <1>6, <1>10, <2>1 DEF Altered
  <2>3. GoodTree(u, lastDid) BY <1>1, <1>2, <1>5, <1>6, <1>8, <1>10, <2>2, TreeMoved DEF Pairs
  <2>4. FoldersOf(u) \subseteq FoldersOf(tree) BY <1>5, <1>7, <2>2 DEF FoldersOf
  <2>5. ~AfpMoves(r) => \A x \in u : x.did # 0 => x \in tree BY <1>3, <1>5, <1>7, <1>10, <2>2 DEF AfpMoves
  <2>6. QED BY <1>1, <1>3, <1>4, <1>5, <1>8, <1>10, <2>1, <2>2, <2>3, <2>4, <2>5 DEF Pairs
<1>11. CASE r.cmd = "copy"
  <2>1. PICK u, did : u = tree' /\ did = 0 OBVIOUS
  <2>2. u = tree \cup {f} /\ e.did = 0 BY <1>3, <1>5, <1>6, <1>11, <2>1 DEF Altered, A!Possible
  <2>3. GoodTree(u, lastDid)
    <3>1. PICK d \in FoldersOf(tree), n \in ANames : d = r.toDid /\ n = r.to /\ \A x \in tree : ~(x.parent = d /\ x.name = n)
      BY <1>1, <1>2, <1>8, <1>11 DEF Pairs
    <3>2. f = [parent |-> d, name |-> n, did |-> did] BY <1>6, <2>1, <2>2, <3>1
    <3>3. PICK last2 : last2 = IF did = 0 THEN lastDid ELSE did OBVIOUS
    <3>4. GoodTree(u, last2)
      <4>1. (did = 0 \/ (did = lastDid + 1 /\ did <= MaxDid)) /\ u = tree \cup {f} /\ GoodTree(tree, lastDid)
        BY <1>1, <2>1, <2>2
      <4>2. \A x \in tree : ~(x.parent = d /\ x.name = n) BY <3>1
      <4>3. QED BY <3>2, <3>3, <4>1, <4>2, TreeMade
    <3>5. QED BY <2>1, <3>3, <3>4
  <2>4. FoldersOf(u) \subseteq FoldersOf(tree) /\ \A x \in u : x.did # 0 => x \in tree
    BY <1>5, <1>7, <2>2 DEF FoldersOf
  <2>5. QED BY <1>1, <1>4, <1>8, <1>11, <2>1, <2>2, <2>3, <2>4 DEF Pairs
<1>12. CASE r.cmd = "exchange"
  BY <1>1, <1>2, <1>4, <1>12 DEF Altered, A!Possible, A!At, RootE, Pairs, GoodTree, FoldersOf
<1>13. QED BY <1>9, <1>10, <1>11, <1>12 DEF Pairs

Operation(r) == IF r.cmd \in {"rename", "move"} THEN "rename" ELSE r.cmd
Folder(r) == \E e \in A!At(r.did, r.name) : e.did # 0

LEMMA ChangedIs ==
  ASSUME NEW r, A!Changed(r)
  PROVE  \/ A!Answer(r, "failed", A!Nothing, {}, A!When(r.cmd = "delete", "kept")) /\ afpFacts' = {} /\ tree' = tree
         \/ /\ Altered(r) /\ \E kinds : A!Answer(r, "ok", A!Nothing, {}, kinds) /\ (AfpMoves(r) => "renamed" \in kinds)
            /\ IF r.cmd = "delete" THEN Meant(IF Folder(r) THEN "rmdir" ELSE "remove", A!TruePath(r.did, r.name), <<>>)
               ELSE Meant(Operation(r), A!TruePath(r.did, r.name), A!TruePath(r.toDid, r.to))
  BY DEF A!Changed, Altered, There, Folder, AfpMoves, A!When, Meant, Operation

LEMMA ChangedSaid ==
  ASSUME AfpSound, NEW r \in afpAsked, r.cmd \in {"delete"} \cup Pairs, NEW a, AfpReplies(r, a)
  PROVE  /\ afpTemp' = A!Blank /\ UNCHANGED <<loginName, volume, dirTable, isDirs, forkMap>>
         /\ IF r.cmd = "delete"
            THEN Said(IF afpTemp.isdir THEN "rmdir" ELSE "remove", A!MakePath(volume, dirTable, r.did, <<r.name>>), <<>>)
            ELSE Said(Operation(r), afpTemp.name1, afpTemp.name2)
<1>1. A!NamesResponse /\ afpTemp.cmd = r.cmd BY DEF AfpReplies, A!OnResponse, A!Mine, LogIns, Pairs
<1>2. afpTemp' = A!Blank /\ UNCHANGED <<loginName, volume, dirTable, isDirs, forkMap>>
  BY <1>1 DEF A!NamesResponse
<1>3. CASE r.cmd = "delete"
  BY <1>1, <1>2, <1>3 DEF AfpReplies, AfpHolds, Places, A!NamesResponse, A!Reported, Said
<1>4. CASE r.cmd \in Pairs BY <1>1, <1>2, <1>4 DEF A!NamesResponse, A!Reported, Said, Operation, Pairs
<1>5. QED BY <1>3, <1>4

LEMMA ChangedStep ==
  ASSUME AfpInv, NEW r \in afpAsked, A!Changed(r)
  PROVE  AfpStepped(r)
<1>1. r.cmd \in {"delete"} \cup Pairs /\ UNCHANGED <<user, mounted, lastDid, forks>> /\ AfpSound
  BY DEF A!Changed, AfpInv, Pairs
<1>2. CASE A!Answer(r, "failed", A!Nothing, {}, A!When(r.cmd = "delete", "kept")) /\ afpFacts' = {} /\ tree' = tree
  BY <1>1, <1>2, RefusedStep DEF A!When, LogIns, Pairs
<1>3. ASSUME Altered(r), NEW kinds, A!Answer(r, "ok", A!Nothing, {}, kinds), AfpMoves(r) => "renamed" \in kinds,
             IF r.cmd = "delete" THEN Meant(IF Folder(r) THEN "rmdir" ELSE "remove", A!TruePath(r.did, r.name), <<>>)
             ELSE Meant(Operation(r), A!TruePath(r.did, r.name), A!TruePath(r.toDid, r.to))
      PROVE  AfpStepped(r)
  <2>1. /\ afpAsked' = afpAsked \ {r} /\ UNCHANGED <<afpScenario, afpRequests>> /\ seen' = seen
        /\ afpOdd \subseteq afpOdd' /\ kinds \subseteq afpOdd' /\ A!Possible(r)
        /\ \/ AfpQuiet /\ (afpOdd' = {} => afpTemp.id # r.id)
           \/ \E a : AfpReplies(r, a)
    BY <1>1, <1>3, AnsweredPlain
  <2>2. /\ GoodTree(tree', lastDid) /\ FoldersOf(tree') \subseteq FoldersOf(tree)
        /\ r.did \in FoldersOf(tree) /\ r.name \in AfpNames
        /\ r.cmd \in Pairs => r.toDid \in FoldersOf(tree) /\ r.to \in AfpNames
        /\ ~AfpMoves(r) => \A x \in tree' : x.did # 0 => x \in tree
        /\ \A x \in tree : x \in tree' \/ (x \in A!At(r.did, r.name) /\ r.cmd \in {"delete", "rename", "move"})
        /\ r.cmd = "delete" => \A x \in tree' : ~(r.did = x.parent /\ r.name = x.name)
    BY <1>1, <1>3, <2>1, TreeAltered
  <2>3. AfpGrows /\ (UNCHANGED <<loginName, forkMap>> => ForkMoves /\ LoginMoves(r))
        /\ (UNCHANGED <<volume, dirTable, isDirs>> => TableMoves)
    <3>1. "renamed" \notin afpOdd' => Rising(tree') /\ \A e \in tree : e.did \in FoldersOf(tree') => e \in tree'
      BY <1>1, <1>3, <2>1, <2>2 DEF AfpSound, AfpTree, FoldersOf, GoodTree, Rising
    <3>2. AfpGrows
      <4>1. lastDid <= lastDid'
        <5>1. lastDid \in Nat BY <2>2, TreeFolder
        <5>2. QED BY <1>1, <5>1
      <4>2. QED BY <1>1, <2>2, <3>1, <4>1 DEF AfpGrows
    <3>3. QED BY <1>1, <2>1, <3>2, Frames
  <2>4. CASE AfpQuiet /\ (afpOdd' = {} => afpTemp.id # r.id)
    BY <1>1, <2>1, <2>3, <2>4, UsualAnswer, NothingHeard DEF AfpTold, Pairs, AfpStepped, AfpAnswered, AfpQuiet
  <2>5. ASSUME NEW a, AfpReplies(r, a)
        PROVE  AfpStepped(r)
    <3>1. /\ afpTemp' = A!Blank /\ UNCHANGED <<loginName, volume, dirTable, isDirs, forkMap>>
          /\ IF r.cmd = "delete"
             THEN Said(IF afpTemp.isdir THEN "rmdir" ELSE "remove", A!MakePath(volume, dirTable, r.did, <<r.name>>), <<>>)
             ELSE Said(Operation(r), afpTemp.name1, afpTemp.name2)
      BY <1>1, <2>5, ChangedSaid
    <3>2. AfpAnswered(r) BY <2>1, <2>3, <3>1 DEF AfpAnswered
    <3>3. AfpTypes /\ AfpTree /\ GoodTable(dirTable) /\ ("renamed" \notin afpOdd => Truly(dirTable, tree)) /\ r.cmd \notin LogIns \cup {"logout"}
      BY <1>1 DEF AfpSound, AfpTypes, AfpNamed, Pairs, LogIns
    <3>4. PICK p, q, p2, q2 : /\ p = (IF r.cmd = "delete" THEN A!MakePath(volume, dirTable, r.did, <<r.name>>) ELSE afpTemp.name1)
                              /\ q = (IF r.cmd = "delete" THEN <<>> ELSE afpTemp.name2)
                              /\ p2 = A!TruePath(r.did, r.name)
                              /\ q2 = (IF r.cmd = "delete" THEN <<>> ELSE A!TruePath(r.toDid, r.to))
      OBVIOUS
    <3>5. PICK op, op2 : /\ op = (IF r.cmd # "delete" THEN Operation(r) ELSE IF afpTemp.isdir THEN "rmdir" ELSE "remove")
                         /\ op2 = (IF r.cmd # "delete" THEN Operation(r) ELSE IF Folder(r) THEN "rmdir" ELSE "remove")
      OBVIOUS
    <3>6. Said(op, p, q) /\ Meant(op2, p2, q2) /\ (op = op2 \/ {op, op2} = {"remove", "rmdir"})
      BY <1>3, <3>1, <3>4, <3>5
    <3>7. p \in ANamed /\ q \in ANamed BY <2>2, <3>3, <3>4, PathNamed, ShortNames DEF AfpTypes, Temps
    <3>8. r.cmd \in Pairs => r.cmd # "delete" /\ q2 = PathIn(tree, r.toDid, r.to) /\ p2 = PathIn(tree, r.did, r.name)
      BY <2>2, <3>3, <3>4, PathInTyped DEF Pairs
    <3>9. afpOdd' \cap A!Misleading = {} => A!PartOf(p, p2) /\ A!PartOf(q, q2)
      BY <1>1, <2>1, <2>2, <2>5, <3>3, <3>4, <3>8, PathSaid, NothingIsPart DEF A!Misleading, AfpReplies,
        AfpHolds, Part
    <3>10. AfpHeard' BY <1>1, <3>2, <3>3, <3>6, <3>7, <3>9, SaidOne
    <3>11. ASSUME afpOdd' = {}
           PROVE  AfpKept' /\ afpEvents' = afpFacts'
      <4>1. AfpKept /\ afpAsked = {r} /\ afpAsked' = {} /\ user.in /\ afpOdd = {} /\ AfpTold(r)
            /\ \A e \in tree : e.did # 0 /\ e.did \in seen => A!FindDid(dirTable, e.did) = {e}
        BY <1>1, <2>1, <3>3, <3>11, UsualAnswer DEF LogIns
      <4>2. ~AfpMoves(r) BY <1>3, <2>1, <3>11
      <4>3. ASSUME NEW p3 \in isDirs
            PROVE  \E x \in tree' : x.did # 0 /\ p3 = <<x.parent, x.name>>
        BY <2>2, <4>1, <4>2, <4>3 DEF AfpKept, AfpFound, AfpMoves, A!At, AfpTold
      <4>4. AfpFound' BY <1>1, <2>1, <2>2, <3>1, <4>1, <4>2, <4>3, FoundSame DEF AfpKept
      <4>5. AfpKept' BY <1>1, <3>1, <4>1, <4>4, KeptAfter DEF AfpKept
      <4>6. p = p2 /\ q = q2 BY <1>1, <2>2, <3>3, <3>4, <3>8, <4>1, PathSaid DEF AfpTold, AfpKept, Places
      <4>7. op = op2 BY <3>5, <4>1 DEF AfpTold, Folder
      <4>8. loginName = A!Who BY <4>1 DEF AfpKept
      <4>9. QED BY <3>6, <4>5, <4>6, <4>7, <4>8 DEF Said, Meant
    <3>12. QED BY <3>2, <3>10, <3>11 DEF AfpStepped
  <2>6. QED BY <2>1, <2>4, <2>5
<1>4. QED BY <1>2, <1>3, ChangedIs

LEMMA AfpStep ==
  ASSUME AfpInv, [A!Next]_(A!vars)
  PROVE  AfpInv'
<1>1. CASE A!Next /\ ~A!Respond BY <1>1, AfpRequestStep
<1>2. CASE A!Respond
  <2>1. PICK r \in afpAsked : AfpStepped(r)
    BY <1>2, LoginStep, MountStep, DescribedStep, MadeStep, ChangedStep, OpenStep, UseStep, CloseStep DEF A!Respond
  <2>2. AfpSound' BY <2>1, AnswerSound DEF AfpStepped, AfpInv
  <2>3. AfpUsual' BY <2>1 DEF AfpStepped, AfpUsual, A!Usual
  <2>4. QED BY <2>1, <2>2, <2>3 DEF AfpStepped, AfpInv
<1>3. CASE UNCHANGED A!vars
  BY <1>3 DEF AfpInv, A!vars, A!analyzer, A!hosts, AfpSound, AfpHeard, AfpUsual, AfpTypes, AfpTree, AfpAsked, AfpCounts,
    AfpNamed, AfpFollows, AfpEvents, A!NothingInvented, A!Usual, AfpKept, AfpFound, AfpTold, AfpCopies, InPart,
    AfpAsks, AfpHolds, Part, Temps, AForks, AOpens, A!Who, A!At
<1>4. QED BY <1>1, <1>2, <1>3

LEMMA AfpSays ==
  ASSUME AfpInv
  PROVE  A!Exact /\ A!NothingInvented /\ A!TypeOK /\ A!InStep /\ A!FoldersNamed
<1>1. AfpTypes /\ AfpEvents /\ AfpNamed /\ AfpCounts /\ IsFiniteSet(afpAsked)
  BY DEF AfpInv, AfpSound, AfpHeard, AfpAsked
<1>2. A!Exact /\ A!NothingInvented /\ A!InStep
  BY DEF AfpInv, AfpHeard, AfpUsual, AfpKept, AfpFound, AfpCopies, A!Exact, A!InStep
<1>3. A!FoldersNamed BY <1>1 DEF AfpNamed, Truly, A!FoldersNamed
<1>4. \A n \in ANamed : A!IsName(n) BY DEF ANamed, AWords, A!IsName
<1>5. A!Dids = ADids /\ A!Counts = 0..afpScenario.requests BY DEF A!Dids, ADids, A!Counts
<1>6. /\ afpTemp.cmd \in afpScenario.commands \cup {A!None} /\ afpTemp.id \in A!Counts
      /\ afpTemp.did \in A!Dids /\ afpTemp.fork \in Forks \cup {A!None} /\ afpTemp.length \in 0..1
      /\ A!IsName(afpTemp.name1) /\ A!IsName(afpTemp.name2) /\ afpTemp.isdir \in BOOLEAN
      /\ A!IsName(loginName) /\ volume \in {"unknown", "unnamed", "named"}
  BY <1>1, <1>4, <1>5 DEF AfpTypes, Temps
<1>7. /\ dirTable \in Seq(SUBSET [did : A!Dids, parent : A!Dids, name : AfpNames \cup {Volume}]) /\ Len(dirTable) <= MapCount
      /\ \A i \in DOMAIN dirTable : A!Cardinality(dirTable[i]) <= MapSize + 1
      /\ \A i, j \in DOMAIN dirTable : \A d \in dirTable[i], e \in dirTable[j] : d.did = e.did => i = j /\ d = e
  BY <1>1, <1>5, SameCard DEF AfpTypes, GoodTable, AEntries, ANames
<1>8. isDirs \subseteq A!Dids \X (AfpNames \cup {Volume}) BY <1>1, <1>5 DEF AfpTypes, ANames
<1>9. ASSUME NEW f \in Forks
      PROVE  /\ forkMap[f].known \in BOOLEAN /\ A!IsName(forkMap[f].name)
             /\ forkMap[f].readed \in A!Counts /\ forkMap[f].written \in A!Counts
  BY <1>1, <1>4, <1>5, AfpConstants, FS_CardinalityType DEF AfpTypes, AForks, AfpCounts
<1>10. \A e \in afpEvents : A!IsName(e.path) /\ A!IsName(e.to) /\ A!IsName(e.user) /\ e.size \in A!Counts
  BY <1>1, <1>4, <1>5 DEF AfpEvents
<1>11. A!TypeOK BY <1>6, <1>7, <1>8, <1>9, <1>10 DEF A!TypeOK
<1>12. QED BY <1>2, <1>3, <1>11

(* SMB1: as long as nothing unusual happens an event is reported exactly *)
(* when the server's answer shows it, and the tables of users, trees and *)
(* files are the server's; whatever happens nothing is invented but in the *)
(* cases the property names. (on_smb_packet) *)
THEOREM Smb1Follows == MCSpec => [](TypeOK /\ InStep /\ TreeNamed /\ Exact /\ NothingInvented)
<1>1. MCInit => Smb1Inv BY Smb1Begins DEF MCInit
<1>2. Smb1Inv /\ [MCNext]_<<vars, part, afp>> => Smb1Inv'
  <2>1. SUFFICES ASSUME Smb1Inv, [MCNext]_<<vars, part, afp>>
                 PROVE  Smb1Inv'
    OBVIOUS
  <2>2. [Next]_vars BY <2>1 DEF MCNext
  <2>3. QED BY <2>1, <2>2, Smb1Step
<1>3. QED BY <1>1, <1>2, Smb1Says, PTL DEF MCSpec

(* AFP: the same of users, forks and folders, and of the path of a folder, *)
(* found by climbing the table of directory ids. (on_a_dsi_packet) *)
THEOREM AfpFollowsHosts ==
  MCSpec => [](A!TypeOK /\ A!InStep /\ A!FoldersNamed /\ A!Exact /\ A!NothingInvented)
<1>1. MCInit => AfpInv BY AfpBegins DEF MCInit
<1>2. AfpInv /\ [MCNext]_<<vars, part, afp>> => AfpInv'
  <2>1. SUFFICES ASSUME AfpInv, [MCNext]_<<vars, part, afp>>
                 PROVE  AfpInv'
    OBVIOUS
  <2>2. [A!Next]_(A!vars) BY <2>1 DEF MCNext, afp, A!vars, A!analyzer, A!hosts
  <2>3. QED BY <2>1, <2>2, AfpStep
<1>3. QED BY <1>1, <1>2, AfpSays, PTL DEF MCSpec

(* What happens on SMB1 and AFP connections is reported, in the step that *)
(* shows it, until something unusual happens. (on_smb_packet, on_afp) *)
THEOREM Smb1AfpReported == MCSpec => []Reported
  BY Smb1Follows, AfpFollowsHosts, PTL DEF Reported

(* What is missed takes reports or names away and adds none. *)
(* (on_smb_packet, on_afp) *)
THEOREM Smb1AfpNoneInvented == MCSpec => []NoneInvented
  BY Smb1Follows, AfpFollowsHosts, PTL DEF NoneInvented

(* The tables of users, trees, files, forks and folders are the hosts'. *)
(* (on_smb_packet, on_afp) *)
THEOREM Smb1AfpTables == MCSpec => []TablesInStep
  BY Smb1Follows, AfpFollowsHosts, PTL DEF TablesInStep
================================

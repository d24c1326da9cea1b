------------------------- MODULE Smb2Session_proofs -------------------------
(***************************************************************************)
(* Proofs about Smb2Session and NfsSession, for every set of ids, names    *)
(* and handles, every scenario, and every limit on what is remembered:     *)
(* what holds of SMB2 until something unusual happens; that the last call  *)
(* of NFS is followed; what holds of SMB2 whatever happens; the tree of    *)
(* files of NFS, what a session has, and that its names are true; and the  *)
(* theorems about both.                                                    *)
(***************************************************************************)
EXTENDS MCSmb2Session, SequenceTheorems, FiniteSetTheorems, WellFoundedInduction, TLAPS

--------------------------------
(* What holds of the SMB2 dispatcher and of the hosts until something *)
(* unusual happens. *)

Entries == [id : Nat \X (Sids \cup {None}), user : Users, name : Names, path : Paths,
            fid : Fids \cup {None}, info : {None, "rename", "disposition"},
            directory : BOOLEAN, delete : BOOLEAN, deleteOpen : BOOLEAN]
States == [known : BOOLEAN, isipc : BOOLEAN, isdirectory : BOOLEAN, delete : BOOLEAN,
           path : Paths, readed : Nat, written : Nat]
OpenFiles == [open : BOOLEAN, sid : Sids \cup {None}, tid : Trees, directory : BOOLEAN,
              delete : BOOLEAN, path : Paths, readed : Nat, written : Nat]
Types ==
  /\ temp \in Seq(Entries) /\ Len(temp) <= TempLimit
  /\ treeCache \in Seq([sid : Sids, share : Shares]) /\ Len(treeCache) <= CacheLimit
  /\ treeMap \in [Trees -> Shares \cup {None}] /\ fileState \in [Handles -> States]
  /\ userName \in [Sids -> Users \cup {None}] /\ held = NothingHeld /\ users \in [Sids -> Users \cup {None}]
  /\ trees \in [Tids -> (Sids \cup {None}) \X (Shares \cup {None})] /\ files \in [Fids -> OpenFiles]
  /\ requests \in Nat /\ scenario \in Scenarios

(* A request under way is known by its id; entries have ids of their own. *)
Ids ==
  /\ \A r \in asked : r.id \in (1..requests) \X Sids
  /\ \A r, q \in asked : r.id = q.id => r = q
EntryIds ==
  /\ \A i \in 1..Len(temp) : temp[i].id[1] <= requests
  /\ \A i, j \in 1..Len(temp) : temp[i].id = temp[j].id /\ temp[i].id # NoId => i = j

OnFiles == {"close", "read", "write", "dispose"}
Kinds == OnFiles \cup {"setup", "tcon", "tdis", "create", "logoff"}

(* An open that is taken for a deletion. *)
DeletesOnOpen(r) == "delete" \in r.access /\ "write" \notin r.access /\ r.options = {}

(* What the client keeps to. A session that logs off asks for nothing else.*)
Asks(r) ==
  /\ r.cmd \in Kinds
  /\ r.cmd = "setup" => r.user \in Users /\ r.token /\ users[r.id[2]] = None
  /\ r.cmd # "setup" => users[r.id[2]] # None
  /\ r.cmd = "tcon" => r.share \in Shares
  /\ r.cmd = "tdis" => r.tid \in Tids
  /\ r.cmd = "create" => /\ r.tid \in Tids /\ trees[r.tid][1] = r.id[2] /\ r.name \in Names
                         /\ r.chain = "none" /\ ~DeletesOnOpen(r)
                         /\ r.name = NoName => "delete" \notin r.options
  /\ r.cmd \in OnFiles => r.fid \in Fids /\ (files[r.fid].open => files[r.fid].sid = r.id[2])
  /\ r.cmd = "close" => files[r.fid].open
  /\ r.cmd \in {"read", "write", "dispose"} /\ files[r.fid].open => files[r.fid].path[2] # NoName
  /\ r.cmd = "dispose" => r.on = TRUE
Together(r, q) ==
  /\ q.cmd \in {"setup", "tcon", "logoff"} /\ q.cmd = r.cmd /\ q.id[2] = r.id[2] => r = q
  /\ q.cmd = "logoff" /\ q.id[2] = r.id[2] => r = q
  /\ q.cmd = "close" /\ r.cmd = "close" /\ q.fid = r.fid => r = q
  /\ q.cmd = "tdis" /\ r.cmd = "create" => q.tid # r.tid
Asked == (\A r \in asked : Asks(r)) /\ \A r, q \in asked : Together(r, q)

(* Sessions that have a user and do not log off. *)
Leaving(s) == \E r \in asked : r.cmd = "logoff" /\ r.id[2] = s
Hosts ==
  /\ \A t \in Tids : \/ trees[t] = <<None, None>>
                     \/ trees[t] \in Sids \X Shares /\ users[trees[t][1]] # None
  /\ \A f \in Fids : \/ files[f] = NotOpen
                     \/ /\ files[f].open /\ files[f].sid \in Sids /\ users[files[f].sid] # None
                        /\ ~Leaving(files[f].sid) /\ files[f].path[1] \in Shares
                        /\ files[f].path[2] = NoName => ~files[f].delete /\ files[f].readed = 0 /\ files[f].written = 0

(* The dispatcher knows the users and the shares of those. *)
Named ==
  /\ \A s \in Sids : users[s] # None /\ ~Leaving(s) => userName[s] = users[s]
  /\ \A t \in Tids : trees[t][1] # None /\ ~Leaving(trees[t][1]) => treeMap[t] = trees[t][2]

(* The tree connects that are remembered are those under way. *)
Cached ==
  /\ \A r \in asked : r.cmd = "tcon" =>
       \E j \in 1..Len(treeCache) : treeCache[j] = [sid |-> r.id[2], share |-> r.share]
  /\ \A j \in 1..Len(treeCache) : \E r \in asked : r.cmd = "tcon" /\ r.id[2] = treeCache[j].sid
  /\ \A i, j \in 1..Len(treeCache) : treeCache[i].sid = treeCache[j].sid => i = j

(* A request under way has an entry with what its answer is read with; an *)
(* open of the share itself has none. *)
Tells(e, r) ==
  /\ e.id = r.id
  /\ r.cmd = "setup" => e.user = r.user
  /\ r.cmd = "create" => /\ e.name = r.name /\ ~e.deleteOpen
                         /\ e.directory = ("directory" \in r.options) /\ e.delete = ("delete" \in r.options)
  /\ r.cmd \in OnFiles => e.fid = r.fid
  /\ r.cmd = "dispose" => e.info = "disposition" /\ e.delete
Leaves(r) ==
  r.cmd \in OnFiles \cup {"setup", "tcon"} \/ (r.cmd = "create" /\ r.name # NoName)
Remember ==
  \A r \in asked :
    /\ Leaves(r) /\ r.cmd # "tcon" => \E i \in 1..Len(temp) : Tells(temp[i], r)
    /\ r.cmd = "create" /\ r.name = NoName => \A i \in 1..Len(temp) : temp[i].id # r.id

(* The dispatcher's copy of the open files. *)
Copies(s, o) ==
  /\ s.known <=> (o.open /\ o.path[2] # NoName)
  /\ s.known => /\ s.path = o.path /\ s.isipc = (o.path[1] = IPC)
                /\ s.isdirectory = o.directory /\ s.delete = o.delete
                /\ s.readed = o.readed /\ s.written = o.written
  /\ ~s.known => s = Unknown
Copied ==
  /\ fileState[Garbage] = Unknown
  /\ \A f \in Fids : Copies(fileState[f], files[f])

Kept == Types /\ Ids /\ EntryIds /\ Asked /\ Hosts /\ Named /\ Cached /\ Remember /\ Copied
Showing == events \subseteq facts /\ \A f \in facts \ events : Unseen(f)
KeptInv == Usual => Kept /\ Showing

--------------------------------
(* Queues. *)
InFront(p, e, q, limit) ==
  /\ Len(p) >= 1 /\ Len(p) <= limit /\ p[1] = e
  /\ Len(q) = limit => Len(p) = limit
  /\ Len(q) # limit => Len(p) = Len(q) + 1
  /\ \A i \in 2..Len(p) : i - 1 \in 1..Len(q) /\ p[i] = q[i - 1]

LEMMA PushedFacts ==
  ASSUME NEW S, NEW q \in Seq(S), NEW e \in S, NEW limit \in Nat \ {0}, Len(q) <= limit
  PROVE  Pushed(e, q, limit) \in Seq(S) /\ InFront(Pushed(e, q, limit), e, q, limit)
<1> DEFINE w == <<e>> \o q
<1>1. /\ w \in Seq(S) /\ Len(w) = Len(q) + 1 /\ w[1] = e
      /\ \A i \in 2..Len(w) : w[i] = q[i - 1]
  OBVIOUS
<1>2. CASE Len(w) > limit
  <2>1. Len(q) = limit /\ Pushed(e, q, limit) = SubSeq(w, 1, limit) BY <1>1, <1>2 DEF Pushed
  <2> HIDE DEF w
  <2>2. /\ SubSeq(w, 1, limit) \in Seq(S) /\ Len(SubSeq(w, 1, limit)) = limit
        /\ \A i \in 1..limit : SubSeq(w, 1, limit)[i] = w[i]
    BY <1>1, <1>2
  <2>3. QED BY <1>1, <1>2, <2>1, <2>2 DEF InFront
<1>3. CASE ~ (Len(w) > limit) BY <1>1, <1>3 DEF Pushed, InFront
<1>4. QED BY <1>2, <1>3

LEMMA TakenOut ==
  ASSUME NEW S, NEW q \in Seq(S), NEW j \in 1..Len(q)
  PROVE  LET w == SubSeq(q, 1, j - 1) \o SubSeq(q, j + 1, Len(q))
         IN /\ w \in Seq(S) /\ Len(w) = Len(q) - 1
            /\ \A i \in 1..Len(w) : w[i] = q[IF i < j THEN i ELSE i + 1]
<1> DEFINE a == SubSeq(q, 1, j - 1)
           b == SubSeq(q, j + 1, Len(q))
<1>1. a \in Seq(S) /\ Len(a) = j - 1 /\ \A i \in 1..(j - 1) : a[i] = q[i] OBVIOUS
<1>2. b \in Seq(S) /\ Len(b) = Len(q) - j /\ \A i \in 1..Len(b) : b[i] = q[i + j] OBVIOUS
<1> HIDE DEF a, b
<1>3. /\ a \o b \in Seq(S) /\ Len(a \o b) = Len(q) - 1
      /\ \A i \in 1..(Len(q) - 1) : (a \o b)[i] = IF i <= j - 1 THEN a[i] ELSE b[i - (j - 1)]
  <2>1. Len(a) + Len(b) = Len(q) - 1 BY <1>1, <1>2
  <2>2. /\ a \o b \in Seq(S) /\ Len(a \o b) = Len(a) + Len(b)
        /\ \A i \in 1..Len(a) + Len(b) : (a \o b)[i] = IF i <= Len(a) THEN a[i] ELSE b[i - Len(a)]
    BY <1>1, <1>2, ConcatProperties
  <2>3. QED BY <1>1, <2>1, <2>2
<1>4. \A i \in 1..(Len(q) - 1) : (a \o b)[i] = q[IF i < j THEN i ELSE i + 1]
  <2> TAKE i \in 1..(Len(q) - 1)
  <2>1. CASE i < j BY <1>1, <1>3, <2>1
  <2>2. CASE ~ (i < j)
    <3>1. i - (j - 1) \in 1..Len(b) /\ (i - (j - 1)) + j = i + 1 BY <1>2, <2>2
    <3>2. QED BY <1>2, <1>3, <2>2, <3>1
  <2>3. QED BY <2>1, <2>2
<1>5. QED BY <1>3, <1>4 DEF a, b

--------------------------------
(* Entries. *)
LEMMA BlankEntry ==
  Blank \in Entries /\ Blank.id = NoId
  BY Smb2Assumption DEF Blank, Entries, NoId, NoPath, Paths

LEMMA EntryFacts ==
  ASSUME NEW r, NEW n \in Nat, NEW s \in Sids, r.id = <<n, s>>, Asks(r)
  PROVE  Entry(r) \in Entries /\ Tells(Entry(r), r)
<1> DEFINE e == [Blank EXCEPT !.id = r.id]
<1>1. e \in Entries /\ e.id = r.id BY BlankEntry DEF Entries
<1>2. CASE r.cmd = "setup"
  <2>1. Entry(r) = [e EXCEPT !.user = r.user] /\ r.user \in Users BY <1>2 DEF Entry, Asks
  <2> HIDE DEF e
  <2>2. QED BY <1>1, <1>2, <2>1 DEF Entries, Tells, OnFiles
<1>3. CASE r.cmd = "create"
  <2>1. Entry(r) = [e EXCEPT !.name = r.name, !.directory = "directory" \in r.options,
                     !.delete = "delete" \in r.options, !.deleteOpen = DeletesOnOpen(r)]
    BY <1>3 DEF Entry, DeletesOnOpen
  <2>2. r.name \in Names /\ ~DeletesOnOpen(r) BY <1>3 DEF Asks
  <2>3. DeletesOnOpen(r) \in BOOLEAN /\ ("directory" \in r.options) \in BOOLEAN
        /\ ("delete" \in r.options) \in BOOLEAN
    BY DEF DeletesOnOpen
  <2> HIDE DEF e
  <2>4. QED BY <1>1, <1>3, <2>1, <2>2, <2>3 DEF Entries, Tells, OnFiles
<1>4. CASE r.cmd \in {"close", "read", "write"}
  <2>1. Entry(r) = [e EXCEPT !.fid = r.fid] /\ r.fid \in Fids BY <1>4 DEF Entry, Asks, OnFiles
  <2> HIDE DEF e
  <2>2. QED BY <1>1, <1>4, <2>1 DEF Entries, Tells, OnFiles
<1>5. CASE r.cmd = "dispose"
  <2>1. Entry(r) = [e EXCEPT !.fid = r.fid, !.info = "disposition", !.delete = TRUE] /\ r.fid \in Fids
    BY <1>5 DEF Entry, Asks, OnFiles
  <2> HIDE DEF e
  <2>2. QED BY <1>1, <1>5, <2>1 DEF Entries, Tells, OnFiles
<1>6. CASE r.cmd \in {"tcon", "tdis", "logoff"}
  <2>1. Entry(r) = e BY <1>6 DEF Entry
  <2> HIDE DEF e
  <2>2. QED BY <1>1, <1>6, <2>1 DEF Entries, Tells, OnFiles
<1>7. QED BY <1>2, <1>3, <1>4, <1>5, <1>6 DEF Asks, Kinds, OnFiles

LEMMA FoundFacts ==
  ASSUME Types, EntryIds, NEW id, id # NoId
  PROVE  /\ \A i \in 1..Len(temp) : temp[i].id = id => Found(id) = i
         /\ (\A i \in 1..Len(temp) : temp[i].id # id) => Found(id) = 0
<1>1. DOMAIN temp = 1..Len(temp) /\ Len(temp) \in Nat BY DEF Types
<1>2. ASSUME NEW i \in 1..Len(temp), temp[i].id = id
      PROVE  Found(id) = i
  <2>1. \A j \in 1..Len(temp) : temp[j].id = id => j = i BY <1>2 DEF EntryIds
  <2>2. \A j \in 1..(i - 1) : temp[j].id # id BY <1>1, <2>1
  <2>3. QED BY <1>1, <1>2, <2>1, <2>2 DEF Found
<1>3. QED BY <1>1, <1>2 DEF Found

--------------------------------
(* Requests that the capture sees. *)
LEMMA SendSeen ==
  ASSUME Types, NEW r, NEW tell, NEW kinds, Send(r, tell, kinds), Usual'
  PROVE  /\ Usual /\ kinds \subseteq {"remounted", "relogged"} /\ OnRequest(r) /\ facts' = tell
         /\ asked' = asked \cup {r} /\ requests' = requests + 1
         /\ Remembered(r) /\ Len(temp) = TempLimit => \A q \in asked : q.id # temp[TempLimit].id
         /\ UNCHANGED <<scenario, users, trees, files>>
<1>1. ~ Odd(kinds \cup Mistaken(r) \cup {"lost"}) BY DEF Odd, Usual
<1> DEFINE many == Remembered(r) /\ Len(temp) = TempLimit /\ \E q \in asked : q.id = temp[TempLimit].id
<1>2. OnRequest(r) /\ Odd(kinds \cup Mistaken(r) \cup IF many THEN {"many"} ELSE {}) BY <1>1 DEF Send
<1>3. ~ many /\ kinds \subseteq {"remounted", "relogged"} /\ Usual BY <1>2 DEF Odd, Usual
<1>4. QED BY <1>2, <1>3 DEF Send

LEMMA OtherSeen ==
  ASSUME Types, NEW r, Asks(r), r.cmd # "logoff", r.cmd = "dispose" => fileState[r.fid].known, OnRequest(r)
  PROVE  /\ OtherRequest(r) /\ held' = held /\ events' = {} /\ UNCHANGED <<treeMap, fileState, userName>>
         /\ Remembered(r) <=> Leaves(r)
<1>1. held = NothingHeld /\ held \in [client : {FALSE}, server : {NothingHeld.server}] BY DEF Types, NothingHeld
<1>2. ~ (r.cmd = "create" /\ r.chain = "rename") /\ ~ (r.cmd = "setup" /\ ~ r.token) BY DEF Asks
<1>3. OtherRequest(r) BY <1>1, <1>2 DEF OnRequest
<1>4. held' = [held EXCEPT !.client = FALSE] BY <1>2, <1>3 DEF OtherRequest
<1>5. held' = held BY <1>1, <1>4
<1>6. Remembered(r) <=> Leaves(r)
  <2>1. CASE r.cmd = "setup" BY <2>1 DEF Remembered, Leaves, Asks, OnFiles
  <2>2. CASE r.cmd = "create" BY <1>2, <2>2 DEF Remembered, Leaves, OnFiles
  <2>3. CASE r.cmd = "dispose" BY <2>3 DEF Remembered, Leaves, Asks, OnFiles
  <2>4. CASE r.cmd \notin {"setup", "create", "dispose"} BY <2>4 DEF Remembered, Leaves, Asks, Kinds, OnFiles
  <2>5. QED BY <2>1, <2>2, <2>3, <2>4
<1>7. QED BY <1>3, <1>5, <1>6 DEF OtherRequest

LEMMA PushedEntries ==
  ASSUME Types, NEW e \in Entries, temp' = Pushed(e, temp, TempLimit)
  PROVE  /\ temp' \in Seq(Entries) /\ Len(temp') <= TempLimit /\ Len(temp') \in Nat
         /\ 1 \in 1..Len(temp') /\ temp'[1] = e
         /\ \A i \in 1..Len(temp') :
               i = 1 \/ (i - 1 \in 1..Len(temp) /\ i \in Nat /\ temp'[i] = temp[i - 1])
         /\ \A i \in 1..Len(temp) :
               i \in Nat /\ (~(i = TempLimit /\ Len(temp) = TempLimit) =>
                              i + 1 \in 1..Len(temp') /\ temp'[i + 1] = temp[i])
<1>1. TempLimit \in Nat \ {0} /\ temp \in Seq(Entries) /\ Len(temp) <= TempLimit
      /\ Len(temp) \in Nat
  BY Smb2Assumption DEF Types
<1>2. Pushed(e, temp, TempLimit) \in Seq(Entries) /\ InFront(Pushed(e, temp, TempLimit), e, temp, TempLimit)
  BY <1>1, PushedFacts
<1>3. temp' \in Seq(Entries) /\ InFront(temp', e, temp, TempLimit) BY <1>2
<1>4. Len(temp') \in Nat BY <1>3
<1>5. /\ Len(temp') <= TempLimit /\ 1 \in 1..Len(temp') /\ temp'[1] = e
      /\ \A i \in 1..Len(temp') :
            i = 1 \/ (i - 1 \in 1..Len(temp) /\ i \in Nat /\ temp'[i] = temp[i - 1])
  BY <1>1, <1>3, <1>4 DEF InFront
<1>6. \A i \in 1..Len(temp) :
         i \in Nat /\ (~(i = TempLimit /\ Len(temp) = TempLimit) =>
                        i + 1 \in 1..Len(temp') /\ temp'[i + 1] = temp[i])
  <2> TAKE i \in 1..Len(temp)
  <2> SUFFICES ASSUME ~(i = TempLimit /\ Len(temp) = TempLimit)
               PROVE  i + 1 \in 1..Len(temp') /\ temp'[i + 1] = temp[i]
    BY <1>1
  <2>1. i \in Nat /\ i >= 1 /\ i + 1 \in 2..Len(temp') /\ (i + 1) - 1 = i BY <1>1, <1>3, <1>4 DEF InFront
  <2>2. QED BY <1>3, <1>4, <2>1 DEF InFront
<1>7. QED BY <1>3, <1>4, <1>5, <1>6

(* A new entry hides no entry of a request under way. *)
LEMMA RequestedEntries ==
  ASSUME Types, Ids, EntryIds, Remember, NEW r, NEW s \in Sids, r.id = <<requests + 1, s>>,
         Asks(r), asked' = asked \cup {r}, requests' = requests + 1,
         Remembered(r) <=> Leaves(r),
         temp' = IF Remembered(r) THEN Pushed(Entry(r), temp, TempLimit) ELSE temp,
         Remembered(r) /\ Len(temp) = TempLimit => \A q \in asked : q.id # temp[TempLimit].id
  PROVE  temp' \in Seq(Entries) /\ Len(temp') <= TempLimit /\ Ids' /\ EntryIds' /\ Remember'
<1>1. requests \in Nat /\ r.id[1] = requests + 1 /\ r.id # NoId BY DEF Types, NoId
<1>2. Entry(r) \in Entries /\ Tells(Entry(r), r) /\ Entry(r).id = r.id
  <2>1. Entry(r) \in Entries /\ Tells(Entry(r), r) BY <1>1, EntryFacts, requests + 1 \in Nat
  <2>2. QED BY <2>1 DEF Tells
<1>3. TempLimit \in Nat \ {0} /\ temp \in Seq(Entries) /\ Len(temp) <= TempLimit
      /\ Len(temp) \in Nat
  BY Smb2Assumption DEF Types
<1> DEFINE Older(e) == e \in Entries /\ e.id[1] <= requests /\ e.id[1] \in Nat
<1>10. \A i \in 1..Len(temp) : Older(temp[i])
  <2> TAKE i \in 1..Len(temp)
  <2>1. temp[i] \in Entries BY <1>3
  <2>2. temp[i].id[1] <= requests BY DEF EntryIds
  <2>3. temp[i].id[1] \in Nat BY <2>1 DEF Entries
  <2>4. QED BY <2>1, <2>2, <2>3
<1>4. \A q \in asked : q.id # r.id /\ q.id[1] <= requests BY <1>1 DEF Ids
<1>5. \A i \in 1..Len(temp) : temp[i].id # r.id BY <1>1 DEF EntryIds
<1>6. /\ \A a \in asked' : a.id \in (1..requests') \X Sids
      /\ \A a, b \in asked' : a.id = b.id => a = b
  <2>1. \A q \in asked : q.id \in (1..requests) \X Sids BY DEF Ids
  <2>2. \A q \in asked : q.id \in (1..requests') \X Sids BY <1>1, <2>1
  <2>3. r.id \in (1..requests') \X Sids BY <1>1
  <2>4. \A a, b \in asked' : a.id = b.id => a = b BY <1>4 DEF Ids
  <2>5. QED BY <2>2, <2>3, <2>4
<1>7. CASE Remembered(r)
  <2>1. temp' = Pushed(Entry(r), temp, TempLimit) BY <1>7
  <2>2. /\ temp' \in Seq(Entries) /\ Len(temp') <= TempLimit /\ 1 \in 1..Len(temp') /\ temp'[1] = Entry(r)
        /\ \A i \in 1..Len(temp') :
               i = 1 \/ (i - 1 \in 1..Len(temp) /\ i \in Nat /\ temp'[i] = temp[i - 1])
        /\ \A i \in 1..Len(temp) :
               i \in Nat /\ (~(i = TempLimit /\ Len(temp) = TempLimit) =>
                              i + 1 \in 1..Len(temp') /\ temp'[i + 1] = temp[i])
    BY <1>2, <2>1, PushedEntries
  <2>3. \A i \in 1..Len(temp') :
           (i = 1 /\ temp'[i] = Entry(r)) \/ (i - 1 \in 1..Len(temp) /\ i \in Nat /\ temp'[i] = temp[i - 1])
    BY <2>2
  <2>4. \A i \in 1..Len(temp') : temp'[i].id[1] <= requests'
    <3> SUFFICES ASSUME NEW i \in 1..Len(temp') PROVE temp'[i].id[1] <= requests' OBVIOUS
    <3>1. CASE temp'[i] = Entry(r) BY <1>1, <1>2, <3>1
    <3>2. ASSUME i - 1 \in 1..Len(temp), temp'[i] = temp[i - 1]
          PROVE  temp'[i].id[1] <= requests'
      <4>1. Older(temp[i - 1]) BY <1>10, <3>2
      <4>2. temp[i - 1].id[1] <= requests' BY <1>1, <4>1
      <4>3. QED BY <3>2, <4>2
    <3>3. QED BY <2>3, <3>1, <3>2
  <2>5. \A i, j \in 1..Len(temp') : temp'[i].id = temp'[j].id /\ temp'[i].id # NoId => i = j
    <3> SUFFICES ASSUME NEW i \in 1..Len(temp'), NEW j \in 1..Len(temp'),
                        temp'[i].id = temp'[j].id, temp'[i].id # NoId
                 PROVE  i = j
      OBVIOUS
    <3>1. CASE i = 1
      <4>1. temp'[j].id = r.id BY <1>2, <2>2, <3>1
      <4>2. QED BY <1>5, <2>3, <3>1, <4>1
    <3>2. CASE j = 1
      <4>1. temp'[i].id = r.id BY <1>2, <2>2, <3>2
      <4>2. QED BY <1>5, <2>3, <3>2, <4>1
    <3>3. CASE i # 1 /\ j # 1
      <4>1. /\ i - 1 \in 1..Len(temp) /\ i \in Nat /\ temp'[i] = temp[i - 1]
            /\ j - 1 \in 1..Len(temp) /\ j \in Nat /\ temp'[j] = temp[j - 1]
        BY <2>3, <3>3
      <4>2. i - 1 = j - 1 BY <4>1 DEF EntryIds
      <4>3. QED BY <4>1, <4>2
    <3>4. QED BY <3>1, <3>2, <3>3
  <2>6. \A i \in 1..Len(temp) : (\E q \in asked : q.id = temp[i].id)
          => i + 1 \in 1..Len(temp') /\ temp'[i + 1] = temp[i]
    BY <1>7, <2>2
  <2>7. Remember'
    <3> SUFFICES ASSUME NEW q \in asked'
        PROVE /\ Leaves(q) /\ q.cmd # "tcon" => \E i \in 1..Len(temp') : Tells(temp'[i], q)
              /\ q.cmd = "create" /\ q.name = NoName => \A i \in 1..Len(temp') : temp'[i].id # q.id
      BY DEF Remember
    <3>1. CASE q = r BY <1>2, <1>7, <2>2, <3>1 DEF Leaves, OnFiles
    <3>2. CASE q \in asked
      <4>1. ASSUME NEW i \in 1..Len(temp), Tells(temp[i], q)
            PROVE  \E j \in 1..Len(temp') : Tells(temp'[j], q)
        <5>1. temp[i].id = q.id BY <4>1 DEF Tells
        <5>2. QED BY <2>6, <3>2, <4>1, <5>1
      <4>2. q.cmd = "create" /\ q.name = NoName => \A i \in 1..Len(temp') : temp'[i].id # q.id
        BY <1>2, <1>4, <2>3, <3>2 DEF Remember
      <4>3. QED BY <3>2, <4>1, <4>2 DEF Remember
    <3>3. QED BY <3>1, <3>2
  <2>8. QED BY <1>6, <2>2, <2>4, <2>5, <2>7 DEF Ids, EntryIds
<1>8. CASE ~ Remembered(r)
  <2>1. temp' = temp BY <1>8
  <2>2. \A i \in 1..Len(temp) : temp[i].id[1] <= requests' BY <1>1, <1>10
  <2>3. Ids' /\ EntryIds' /\ Remember'
    BY <1>5, <1>6, <1>8, <2>1, <2>2 DEF Ids, EntryIds, Remember, Leaves, OnFiles
  <2>4. QED BY <1>3, <2>1, <2>3
<1>9. QED BY <1>7, <1>8

LEMMA RequestedCache ==
  ASSUME Types, Ids, Cached, NEW r, NEW s \in Sids, r.id = <<requests + 1, s>>, Asks(r),
         \A q \in asked : Together(r, q), r.cmd = "tcon", Len(treeCache) < CacheLimit,
         asked' = asked \cup {r},
         treeCache' = Pushed([sid |-> r.id[2], share |-> r.share], treeCache, CacheLimit)
  PROVE  treeCache' \in Seq([sid : Sids, share : Shares]) /\ Len(treeCache') <= CacheLimit /\ Cached'
<1> DEFINE e == [sid |-> r.id[2], share |-> r.share]
<1>1. e \in [sid : Sids, share : Shares] /\ e.sid = s BY DEF Asks
<1>2. r \notin asked
  <2>1. requests \in Nat /\ r.id[1] = requests + 1 /\ \A q \in asked : q.id[1] <= requests BY DEF Types, Ids
  <2>2. QED BY <2>1
<1>3. \A j \in 1..Len(treeCache) : treeCache[j].sid # s
  <2> SUFFICES ASSUME NEW j \in 1..Len(treeCache), treeCache[j].sid = s PROVE FALSE OBVIOUS
  <2>1. PICK q \in asked : q.cmd = "tcon" /\ q.id[2] = s BY DEF Cached
  <2>2. r.id[2] = s OBVIOUS
  <2>3. r = q BY <2>1, <2>2 DEF Together
  <2>4. QED BY <1>2, <2>1, <2>3
<1>4. CacheLimit \in Nat \ {0} /\ treeCache \in Seq([sid : Sids, share : Shares]) /\ Len(treeCache) \in Nat
  BY Smb2Assumption DEF Types
<1> HIDE DEF e
<1>5. treeCache' \in Seq([sid : Sids, share : Shares]) /\ InFront(treeCache', e, treeCache, CacheLimit)
  <2>1. treeCache' = Pushed(e, treeCache, CacheLimit) BY DEF e
  <2>2. Len(treeCache) <= CacheLimit BY <1>4
  <2>3. /\ Pushed(e, treeCache, CacheLimit) \in Seq([sid : Sids, share : Shares])
        /\ InFront(Pushed(e, treeCache, CacheLimit), e, treeCache, CacheLimit)
    BY <1>1, <1>4, <2>2, PushedFacts
  <2>4. QED BY <2>1, <2>3
<1>6. /\ Len(treeCache') = Len(treeCache) + 1 /\ Len(treeCache') <= CacheLimit /\ treeCache'[1] = e
      /\ \A i \in 2..Len(treeCache') : i - 1 \in 1..Len(treeCache) /\ treeCache'[i] = treeCache[i - 1]
  BY <1>4, <1>5 DEF InFront
<1>7. \A i \in 1..Len(treeCache') : i \in Nat /\
         ((i = 1 /\ treeCache'[i] = e) \/ (i - 1 \in 1..Len(treeCache) /\ treeCache'[i] = treeCache[i - 1]))
  BY <1>4, <1>6
<1>8. \A i \in 1..Len(treeCache) : i + 1 \in 1..Len(treeCache') /\ treeCache'[i + 1] = treeCache[i]
  <2> TAKE i \in 1..Len(treeCache)
  <2>1. i + 1 \in 2..Len(treeCache') /\ (i + 1) - 1 = i BY <1>4, <1>6
  <2>2. QED BY <1>6, <2>1
<1>9. ASSUME NEW a \in asked', a.cmd = "tcon"
      PROVE  \E j \in 1..Len(treeCache') : treeCache'[j] = [sid |-> a.id[2], share |-> a.share]
  <2>1. CASE a = r
    <3>1. 1 \in 1..Len(treeCache') BY <1>4, <1>6
    <3>2. QED BY <1>6, <2>1, <3>1 DEF e
  <2>2. CASE a \in asked BY <1>8, <1>9, <2>2 DEF Cached
  <2>3. QED BY <2>1, <2>2
<1>10. \A j \in 1..Len(treeCache') : \E a \in asked' : a.cmd = "tcon" /\ a.id[2] = treeCache'[j].sid
  <2> TAKE j \in 1..Len(treeCache')
  <2>1. CASE treeCache'[j] = e BY <1>1, <2>1
  <2>2. CASE j - 1 \in 1..Len(treeCache) /\ treeCache'[j] = treeCache[j - 1] BY <2>2 DEF Cached
  <2>3. QED BY <1>7, <2>1, <2>2
<1>11. \A i, j \in 1..Len(treeCache') : treeCache'[i].sid = treeCache'[j].sid => i = j
  <2> TAKE i, j \in 1..Len(treeCache')
  <2> HAVE treeCache'[i].sid = treeCache'[j].sid
  <2>1. CASE i = 1 \/ j = 1 BY <1>1, <1>3, <1>7, <2>1
  <2>2. CASE i # 1 /\ j # 1
    <3>1. /\ i \in Nat /\ i - 1 \in 1..Len(treeCache) /\ treeCache'[i] = treeCache[i - 1]
          /\ j \in Nat /\ j - 1 \in 1..Len(treeCache) /\ treeCache'[j] = treeCache[j - 1]
      BY <1>7, <2>2
    <3>2. i - 1 = j - 1 BY <3>1 DEF Cached
    <3>3. QED BY <3>1, <3>2
  <2>3. QED BY <2>1, <2>2
<1>12. QED BY <1>5, <1>6, <1>9, <1>10, <1>11 DEF Cached

(* A request that the capture sees, other than to log off, changes nothing *)
(* but what is remembered. *)
LEMMA Requested ==
  ASSUME Kept, NEW r, NEW s \in Sids, r.id = <<requests + 1, s>>, Asks(r), r.cmd # "logoff",
         \A q \in asked : Together(r, q) /\ Together(q, r),
         r.cmd = "dispose" => fileState[r.fid].known,
         r.cmd = "tcon" => Len(treeCache) < CacheLimit,
         OnRequest(r), asked' = asked \cup {r}, requests' = requests + 1,
         Remembered(r) /\ Len(temp) = TempLimit => \A q \in asked : q.id # temp[TempLimit].id,
         UNCHANGED <<scenario, users, trees, files>>
  PROVE  Kept' /\ events' = {}
<1> USE DEF Kept
<1>1. /\ OtherRequest(r) /\ held' = held /\ events' = {} /\ UNCHANGED <<treeMap, fileState, userName>>
      /\ Remembered(r) <=> Leaves(r)
  BY OtherSeen
<1>2. temp' \in Seq(Entries) /\ Len(temp') <= TempLimit /\ Ids' /\ EntryIds' /\ Remember'
  <2>1. temp' = IF Remembered(r) THEN Pushed(Entry(r), temp, TempLimit) ELSE temp BY <1>1 DEF OtherRequest
  <2>2. QED BY <1>1, <2>1, RequestedEntries
<1>3. treeCache' \in Seq([sid : Sids, share : Shares]) /\ Len(treeCache') <= CacheLimit /\ Cached'
  <2>1. CASE r.cmd = "tcon"
    <3>1. treeCache' = Pushed([sid |-> r.id[2], share |-> r.share], treeCache, CacheLimit)
      BY <1>1, <2>1 DEF OtherRequest
    <3>2. QED BY <2>1, <3>1, RequestedCache
  <2>2. CASE r.cmd # "tcon"
    <3>1. treeCache' = treeCache BY <1>1, <2>2 DEF OtherRequest
    <3>2. Cached' BY <2>2, <3>1 DEF Cached
    <3>3. QED BY <3>1, <3>2 DEF Types
  <2>3. QED BY <2>1, <2>2
<1>4. requests \in Nat /\ requests' \in Nat BY DEF Types
<1>5. Types' BY <1>1, <1>2, <1>3, <1>4 DEF Types
<1>6. Asked'
  <2>1. \A a \in asked' : Asks(a)' BY DEF Asked, Asks
  <2>2. \A a, q \in asked' : Together(a, q)
    <3>1. Together(r, r) BY DEF Together
    <3>2. QED BY <3>1 DEF Asked
  <2>3. QED BY <2>1, <2>2 DEF Asked
<1>7. \A x : Leaving(x)' <=> Leaving(x) BY DEF Leaving
<1>8. Hosts' BY <1>7 DEF Hosts
<1>9. Named' BY <1>1, <1>7 DEF Named
<1>10. Copied' BY <1>1 DEF Copied
<1>11. QED BY <1>1, <1>2, <1>3, <1>5, <1>6, <1>8, <1>9, <1>10

(* A log off, when everything of the session is closed and answered: other *)
(* users are there, or there is nothing that could be forgotten. *)
LEMMA LogoffRequested ==
  ASSUME Kept, NEW r, NEW s \in Sids, r.id = <<requests + 1, s>>, r.cmd = "logoff", users[s] # None,
         asked = {}, \A f \in Fids : files[f].sid # s,
         OnRequest(r), asked' = {r}, requests' = requests + 1,
         UNCHANGED <<scenario, users, trees, files>>
  PROVE  Kept' /\ events' = IF users[s] = NoName THEN {} ELSE {Event("logout", users[s], NoPath, NoPath, 0)}
<1> USE DEF Kept
<1> DEFINE left == [userName EXCEPT ![s] = None]
           all == \A x \in Sids : left[x] = None
<1>1. r.id[2] = s /\ r.id[1] = requests + 1 /\ requests \in Nat /\ ~held.client BY DEF Types, NothingHeld
<1>2. /\ events' = IF GetUserName(s) = NoName THEN {}
                   ELSE {Event("logout", GetUserName(s), NoPath, NoPath, 0)}
      /\ IF all THEN Forget
         ELSE userName' = left /\ UNCHANGED <<temp, treeCache, treeMap, fileState, held>>
  BY <1>1 DEF OnRequest, LogoffRequest
<1>3. \A x : ~Leaving(x) BY DEF Leaving
<1>4. \A x : Leaving(x)' <=> x = s BY <1>1 DEF Leaving
<1>5. \A x \in Sids : users[x] # None => userName[x] = users[x] BY <1>3 DEF Named
<1>6. userName \in [Sids -> Users \cup {None}] /\ \A x \in Sids : x # s => left[x] = userName[x] BY DEF Types
<1>7. all => \A x \in Sids : x # s => users[x] = None BY <1>5, <1>6
<1> HIDE DEF all
<1>8. Types'
  <2>1. requests' \in Nat /\ left \in [Sids -> Users \cup {None}] BY <1>1, <1>6
  <2> HIDE DEF left
  <2>2. CASE all
    <3>1. Forget BY <1>2, <2>2
    <3>2. temp' \in Seq(Entries) /\ Len(temp') <= TempLimit BY <3>1, Smb2Assumption DEF Forget
    <3>3. treeCache' \in Seq([sid : Sids, share : Shares]) /\ Len(treeCache') <= CacheLimit
      BY <3>1, Smb2Assumption DEF Forget
    <3>4. fileState' \in [Handles -> States]
      <4>1. Unknown \in States BY Smb2Assumption DEF Unknown, States, Paths
      <4>2. QED BY <3>1, <4>1 DEF Forget
    <3>5. treeMap' \in [Trees -> Shares \cup {None}] /\ userName' \in [Sids -> Users \cup {None}]
          /\ held' = NothingHeld
      BY <3>1 DEF Forget
    <3>6. QED BY <2>1, <3>2, <3>3, <3>4, <3>5 DEF Types
  <2>3. CASE ~all BY <1>2, <2>1, <2>3 DEF Types
  <2>4. QED BY <2>2, <2>3
<1>9. Ids'
  <2>1. r.id \in (1..requests') \X Sids BY <1>1
  <2>2. QED BY <2>1 DEF Ids
<1>10. EntryIds'
  <2>1. CASE all BY <1>2, <2>1 DEF Forget, EntryIds
  <2>2. CASE ~all
    <3>1. temp' = temp BY <1>2, <2>2
    <3>2. \A i \in 1..Len(temp) : temp[i].id[1] <= requests'
      <4> TAKE i \in 1..Len(temp)
      <4>1. temp[i] \in Entries BY DEF Types
      <4>2. temp[i].id[1] \in Nat BY <4>1 DEF Entries
      <4>3. temp[i].id[1] <= requests BY DEF EntryIds
      <4>4. QED BY <1>1, <4>2, <4>3
    <3>3. QED BY <3>1, <3>2 DEF EntryIds
  <2>3. QED BY <2>1, <2>2
<1>11. Asked'
  <2>1. Asks(r)' BY <1>1 DEF Asks, Kinds, OnFiles
  <2>2. QED BY <2>1 DEF Asked, Together
<1>12. \A f \in Fids : files[f] = NotOpen \/ (files[f].sid \in Sids /\ files[f].sid # s /\ users[files[f].sid] # None)
  BY DEF Hosts
<1>13. Hosts' BY <1>4, <1>12 DEF Hosts
<1>14. Named'
  <2>1. CASE all
    <3>1. \A x \in Sids : users[x] # None => x = s BY <1>7, <2>1
    <3>2. \A t \in Tids : trees[t][1] # None => trees[t][1] = s BY <3>1 DEF Hosts
    <3>3. QED BY <1>4, <3>1, <3>2 DEF Named
  <2>2. CASE ~all
    <3>1. userName' = left /\ treeMap' = treeMap BY <1>2, <2>2
    <3>2. \A x \in Sids : users[x] # None /\ x # s => userName'[x] = users[x] BY <1>5, <1>6, <3>1
    <3> HIDE DEF left
    <3>3. \A t \in Tids : trees[t][1] # None => treeMap[t] = trees[t][2] BY <1>3 DEF Named
    <3>4. QED BY <1>4, <3>1, <3>2, <3>3 DEF Named
  <2>3. QED BY <2>1, <2>2
<1>15. Cached'
  <2>1. Len(treeCache) = 0
    <3>1. Len(treeCache) \in Nat /\ ~ \E j \in 1..Len(treeCache) : TRUE BY DEF Types, Cached
    <3>2. QED BY <3>1
  <2>2. Len(treeCache') = 0 BY <1>2, <2>1 DEF Forget
  <2>3. QED BY <2>2 DEF Cached
<1>16. Remember' BY DEF Remember, Leaves, OnFiles
<1>17. Copied'
  <2>1. CASE all
    <3>1. fileState' = [f \in Handles |-> Unknown] BY <1>2, <2>1 DEF Forget
    <3>2. \A f \in Fids : files[f] = NotOpen BY <1>7, <1>12, <2>1
    <3>3. Copies(Unknown, NotOpen) BY DEF Copies, Unknown, NotOpen
    <3>4. QED BY <3>1, <3>2, <3>3 DEF Copied, Handles
  <2>2. CASE ~all BY <1>2, <2>2 DEF Copied
  <2>3. QED BY <2>1, <2>2
<1>18. GetUserName(s) = users[s] BY <1>5 DEF GetUserName
<1>19. QED BY <1>2, <1>8, <1>9, <1>10, <1>11, <1>13, <1>14, <1>15, <1>16, <1>17, <1>18

LEMMA SentKeeps ==
  ASSUME Kept, Usual', NEW r, NEW kinds, Send(r, {}, kinds), NEW s \in Sids, r.id = <<requests + 1, s>>,
         Asks(r), r.cmd # "logoff", \A q \in asked : Together(r, q) /\ Together(q, r),
         r.cmd = "dispose" => fileState[r.fid].known,
         r.cmd = "tcon" => Len(treeCache) < CacheLimit
  PROVE  Kept' /\ events' = facts'
<1>1. Types BY DEF Kept
<1>2. /\ OnRequest(r) /\ facts' = {} /\ asked' = asked \cup {r} /\ requests' = requests + 1
      /\ Remembered(r) /\ Len(temp) = TempLimit => \A q \in asked : q.id # temp[TempLimit].id
      /\ UNCHANGED <<scenario, users, trees, files>>
  BY <1>1, SendSeen
<1>3. QED BY <1>2, Requested

(* A session that has a user and does not log off may ask for anything but *)
(* what may be asked for once. *)
LEMMA OnlyOne ==
  ASSUME Kept, NEW r, NEW s \in Sids, r.id[2] = s, s \in LoggedIn, r.cmd \notin {"setup", "logoff"},
         r.cmd = "tcon" => ~ \E q \in asked : q.cmd = "tcon" /\ q.id[2] = s,
         r.cmd = "close" => \A q \in asked : q.cmd = "close" => q.fid # r.fid,
         r.cmd = "tdis" => \A q \in asked : q.cmd = "create" => q.tid # r.tid,
         r.cmd = "create" => \A q \in asked : q.cmd = "tdis" => q.tid # r.tid
  PROVE  \A q \in asked : Together(r, q) /\ Together(q, r)
  BY DEF Together, LoggedIn

LEMMA SetupKeeps ==
  ASSUME Kept, Usual', Setup PROVE Kept' /\ events' = facts'
<1>0. PICK s \in Sids, u \in scenario.users, token \in scenario.tokens : \E r, kinds :
        /\ users[s] = None /\ \A q \in asked : q.cmd = "setup" => q.id[2] # s
        /\ r = [cmd |-> "setup", id |-> Id(s), user |-> u, token |-> token]
        /\ kinds = IF token THEN {} ELSE {"noToken"}
        /\ Send(r, {}, kinds)
  BY DEF Setup
<1>1. PICK r, kinds :
        /\ users[s] = None /\ \A q \in asked : q.cmd = "setup" => q.id[2] # s
        /\ r = [cmd |-> "setup", id |-> Id(s), user |-> u, token |-> token]
        /\ kinds = IF token THEN {} ELSE {"noToken"}
        /\ Send(r, {}, kinds)
  BY <1>0
<1>2. Types /\ Asked /\ scenario \in Scenarios BY DEF Kept, Types
<1>3. kinds \subseteq {"remounted", "relogged"} BY <1>1, <1>2, SendSeen
<1>4. token = TRUE /\ u \in Users BY <1>1, <1>2, <1>3, Smb2Assumption
<1>5. r.cmd = "setup" /\ r.id = <<requests + 1, s>> /\ r.user = u /\ r.token = token BY <1>1 DEF Id
<1>6. Asks(r) BY <1>1, <1>4, <1>5 DEF Asks, Kinds, OnFiles
<1>7. \A q \in asked : q.id[2] = s => q.cmd = "setup" BY <1>1, <1>2 DEF Asked, Asks
<1>8. \A q \in asked : Together(r, q) /\ Together(q, r) BY <1>1, <1>5, <1>7 DEF Together
<1>9. QED BY <1>1, <1>5, <1>6, <1>8, SentKeeps

LEMMA TconKeeps ==
  ASSUME Kept, Usual', Tcon PROVE Kept' /\ events' = facts'
<1> DEFINE several(s) == (\E q \in asked : q.cmd = "tcon" /\ q.id[2] = s) \/ Len(treeCache) = CacheLimit
<1>0. PICK s \in LoggedIn, share \in Shares : \E r, kinds :
        /\ r = [cmd |-> "tcon", id |-> Id(s), share |-> share]
        /\ kinds = IF several(s) THEN {"trees"} ELSE {}
        /\ Send(r, {}, kinds)
  BY DEF Tcon
<1>1. PICK r, kinds :
        /\ r = [cmd |-> "tcon", id |-> Id(s), share |-> share]
        /\ kinds = IF several(s) THEN {"trees"} ELSE {}
        /\ Send(r, {}, kinds)
  BY <1>0
<1>2. Types /\ s \in Sids /\ users[s] # None BY DEF Kept, LoggedIn
<1>3. kinds \subseteq {"remounted", "relogged"} BY <1>1, <1>2, SendSeen
<1>4. ~several(s) BY <1>1, <1>3
<1>5. Len(treeCache) < CacheLimit BY <1>2, <1>4, Smb2Assumption DEF Types
<1>6. r.cmd = "tcon" /\ r.id = <<requests + 1, s>> /\ r.share = share BY <1>1 DEF Id
<1>7. Asks(r) BY <1>1, <1>2, <1>6 DEF Asks, Kinds, OnFiles
<1>8. \A q \in asked : Together(r, q) /\ Together(q, r) BY <1>1, <1>2, <1>4, <1>6, OnlyOne
<1>9. QED BY <1>1, <1>2, <1>5, <1>6, <1>7, <1>8, SentKeeps

LEMMA TdisKeeps ==
  ASSUME Kept, Usual', Tdis PROVE Kept' /\ events' = facts'
<1>0. PICK t \in Connected : \E s, r :
        /\ \A q \in asked : q.id[2] # trees[t][1]
        /\ s = trees[t][1] /\ r = [cmd |-> "tdis", id |-> Id(s), tid |-> t] /\ Send(r, {}, {})
  BY DEF Tdis
<1>1. PICK s, r :
        /\ s = trees[t][1] /\ r = [cmd |-> "tdis", id |-> Id(s), tid |-> t] /\ Send(r, {}, {})
  BY <1>0
<1>2. t \in Tids /\ s \in LoggedIn /\ s \in Sids /\ users[s] # None BY <1>1 DEF Connected, LoggedIn
<1>3. r.cmd = "tdis" /\ r.id = <<requests + 1, s>> /\ r.tid = t BY <1>1 DEF Id
<1>4. Asks(r) BY <1>2, <1>3 DEF Asks, Kinds, OnFiles
<1>5. \A q \in asked : q.id[2] # s BY <1>0, <1>1
<1>6. \A q \in asked : q.cmd = "create" => q.tid # t BY <1>1, <1>5 DEF Kept, Asked, Asks
<1>7. \A q \in asked : Together(r, q) /\ Together(q, r) BY <1>2, <1>3, <1>6, OnlyOne
<1>8. QED BY <1>1, <1>2, <1>3, <1>4, <1>7, SentKeeps

LEMMA CreateKeeps ==
  ASSUME Kept, Usual', Create PROVE Kept' /\ events' = facts'
<1>0. PICK t \in Connected, n \in scenario.names, o \in scenario.opens, to \in scenario.to : \E s, r, kinds :
        /\ s = trees[t][1]
        /\ r = [cmd |-> "create", id |-> Id(s), tid |-> t, name |-> n, to |-> to,
                options |-> o.options, access |-> o.access, chain |-> o.chain]
        /\ n = NoName => "delete" \notin o.options
        /\ kinds = (IF o.chain = "none" THEN {} ELSE {"chain"})
                   \cup (IF Entry(r).deleteOpen THEN {"deleteOpen"} ELSE {})
        /\ Send(r, {}, kinds)
  BY DEF Create
<1>1. PICK s, r, kinds :
        /\ s = trees[t][1]
        /\ r = [cmd |-> "create", id |-> Id(s), tid |-> t, name |-> n, to |-> to,
                options |-> o.options, access |-> o.access, chain |-> o.chain]
        /\ n = NoName => "delete" \notin o.options
        /\ kinds = (IF o.chain = "none" THEN {} ELSE {"chain"})
                   \cup (IF Entry(r).deleteOpen THEN {"deleteOpen"} ELSE {})
        /\ Send(r, {}, kinds)
  BY <1>0
<1>2. t \in Tids /\ s \in LoggedIn /\ s \in Sids /\ users[s] # None BY <1>1 DEF Connected, LoggedIn
<1>3. Types /\ scenario \in Scenarios BY DEF Kept, Types
<1>4. kinds \subseteq {"remounted", "relogged"} BY <1>1, <1>3, SendSeen
<1>5. o.chain = "none" /\ ~Entry(r).deleteOpen BY <1>1, <1>4
<1>6. /\ r.cmd = "create" /\ r.id = <<requests + 1, s>> /\ r.tid = t /\ r.name = n
      /\ r.options = o.options /\ r.chain = o.chain
  BY <1>1 DEF Id
<1>7. ~DeletesOnOpen(r)
  <2>1. Blank \in Entries BY BlankEntry
  <2>2. Entry(r).deleteOpen = DeletesOnOpen(r) BY <1>6, <2>1 DEF Entry, DeletesOnOpen, Entries
  <2>3. QED BY <1>5, <2>2
<1>8. Asks(r) BY <1>1, <1>2, <1>3, <1>5, <1>6, <1>7, Smb2Assumption DEF Asks, Kinds, OnFiles
<1>9. \A q \in asked : Together(r, q) /\ Together(q, r)
  <2>1. \A q \in asked : q.cmd = "tdis" => q.tid # t BY DEF Connected
  <2>2. QED BY <1>2, <1>6, <2>1, OnlyOne
<1>10. QED BY <1>1, <1>2, <1>6, <1>8, <1>9, SentKeeps

LEMMA OnFileKeeps ==
  ASSUME Kept, Usual', OnFile PROVE Kept' /\ events' = facts'
<1>0. PICK f \in Usable, cmd \in {"close", "read", "write"} : \E s, r :
        /\ cmd = "close" \/ (files[f].path[2] # NoName /\ ~files[f].directory)
        /\ s = files[f].sid /\ r = [cmd |-> cmd, id |-> Id(s), fid |-> f] /\ Send(r, {}, {})
  BY DEF OnFile
<1>1. PICK s, r :
        /\ cmd = "close" \/ (files[f].path[2] # NoName /\ ~files[f].directory)
        /\ s = files[f].sid /\ r = [cmd |-> cmd, id |-> Id(s), fid |-> f] /\ Send(r, {}, {})
  BY <1>0
<1>2. /\ f \in Fids /\ files[f].open /\ s \in LoggedIn /\ s \in Sids /\ users[s] # None
      /\ \A q \in asked : q.cmd = "close" => q.fid # f
  BY <1>1 DEF Usable, LoggedIn
<1>3. r.cmd = cmd /\ r.id = <<requests + 1, s>> /\ r.fid = f BY <1>1 DEF Id
<1>4. Asks(r) BY <1>1, <1>2, <1>3 DEF Asks, Kinds, OnFiles
<1>5. \A q \in asked : Together(r, q) /\ Together(q, r) BY <1>2, <1>3, OnlyOne
<1>6. QED BY <1>1, <1>2, <1>3, <1>4, <1>5, SentKeeps

(* A file can be marked for deletion: it is known, as it has a name. *)
LEMMA DisposeKeeps ==
  ASSUME Kept, Usual', Dispose PROVE Kept' /\ events' = facts'
<1>0. PICK f \in Usable, on \in BOOLEAN : \E s, r, kinds :
        /\ files[f].path[2] # NoName
        /\ s = files[f].sid /\ r = [cmd |-> "dispose", id |-> Id(s), fid |-> f, on |-> on]
        /\ kinds = IF on THEN {} ELSE {"undelete"}
        /\ Send(r, {}, kinds)
  BY DEF Dispose
<1>1. PICK s, r, kinds :
        /\ files[f].path[2] # NoName
        /\ s = files[f].sid /\ r = [cmd |-> "dispose", id |-> Id(s), fid |-> f, on |-> on]
        /\ kinds = IF on THEN {} ELSE {"undelete"}
        /\ Send(r, {}, kinds)
  BY <1>0
<1>2. /\ f \in Fids /\ files[f].open /\ s \in LoggedIn /\ s \in Sids /\ users[s] # None
  BY <1>1 DEF Usable, LoggedIn
<1>3. Types BY DEF Kept
<1>4. kinds \subseteq {"remounted", "relogged"} BY <1>1, <1>3, SendSeen
<1>5. on = TRUE BY <1>1, <1>4
<1>6. r.cmd = "dispose" /\ r.id = <<requests + 1, s>> /\ r.fid = f /\ r.on = on BY <1>1 DEF Id
<1>7. Asks(r) BY <1>1, <1>2, <1>5, <1>6 DEF Asks, Kinds, OnFiles
<1>8. \A q \in asked : Together(r, q) /\ Together(q, r) BY <1>2, <1>6, OnlyOne
<1>9. fileState[f].known BY <1>1, <1>2 DEF Kept, Copied, Copies
<1>10. QED BY <1>1, <1>2, <1>6, <1>7, <1>8, <1>9, SentKeeps

LEMMA RenameKeeps ==
  ASSUME Kept, Usual', Rename PROVE FALSE
<1>1. PICK r : Send(r, {}, {"rename"}) BY DEF Rename
<1>2. Types BY DEF Kept
<1>3. {"rename"} \subseteq {"remounted", "relogged"} BY <1>1, <1>2, SendSeen
<1>4. QED BY <1>3

LEMMA LogoffKeeps ==
  ASSUME Kept, Usual', Logoff PROVE Kept' /\ events' = facts'
<1>0. PICK s \in LoggedIn : \E r, tells, kinds :
        /\ r = [cmd |-> "logoff", id |-> Id(s)]
        /\ tells = IF users[s] = NoName THEN {} ELSE {Event("logout", users[s], NoPath, NoPath, 0)}
        /\ kinds = (IF \E f \in Fids : files[f].sid = s THEN {"logoff"} ELSE {})
                   \cup (IF asked # {} THEN {"logoff"} ELSE {})
        /\ Send(r, tells, kinds)
  BY DEF Logoff
<1>1. PICK r, tells, kinds :
        /\ r = [cmd |-> "logoff", id |-> Id(s)]
        /\ tells = IF users[s] = NoName THEN {} ELSE {Event("logout", users[s], NoPath, NoPath, 0)}
        /\ kinds = (IF \E f \in Fids : files[f].sid = s THEN {"logoff"} ELSE {})
                   \cup (IF asked # {} THEN {"logoff"} ELSE {})
        /\ Send(r, tells, kinds)
  BY <1>0
<1>2. Types /\ s \in Sids /\ users[s] # None BY DEF Kept, LoggedIn
<1>3. /\ kinds \subseteq {"remounted", "relogged"} /\ OnRequest(r) /\ facts' = tells
      /\ asked' = asked \cup {r} /\ requests' = requests + 1 /\ UNCHANGED <<scenario, users, trees, files>>
  BY <1>1, <1>2, SendSeen
<1>4. asked = {} /\ \A f \in Fids : files[f].sid # s BY <1>1, <1>3
<1>5. r.cmd = "logoff" /\ r.id = <<requests + 1, s>> BY <1>1 DEF Id
<1>6. asked' = {r} BY <1>3, <1>4
<1>7. QED BY <1>1, <1>2, <1>3, <1>4, <1>5, <1>6, LogoffRequested

--------------------------------
(* Answers that the capture sees. *)
Seen(r, ok, tid, fid, action, size) ==
  /\ OnResponse([cmd |-> r.cmd, id |-> r.id, ok |-> ok, tid |-> tid, fid |-> fid, action |-> action,
                 size |-> size])
  /\ held.server = NothingHeld.server

LEMMA AnswerSeen ==
  ASSUME Kept, Usual', NEW r \in asked, NEW ok, NEW tid, NEW fid, NEW action, NEW size, NEW kinds,
         Answer(r, ok, tid, fid, action, size, kinds)
  PROVE  /\ kinds \subseteq {"remounted", "relogged"} /\ asked' = asked \ {r} /\ UNCHANGED <<scenario, requests>>
         /\ Seen(r, ok, tid, fid, action, size)
<1>1. ~ Odd(kinds \cup {"lost"}) BY DEF Odd, Usual
<1>2. PICK late \in BOOLEAN :
        /\ OnResponse([cmd |-> r.cmd, id |-> IF late THEN LateId ELSE r.id, ok |-> ok, tid |-> tid,
                       fid |-> fid, action |-> action, size |-> size])
        /\ Odd(kinds \cup IF late THEN {"late"} ELSE {})
  BY <1>1 DEF Answer
<1>3. ~late /\ kinds \subseteq {"remounted", "relogged"} BY <1>2 DEF Odd, Usual
<1>4. held.server = NothingHeld.server BY DEF Kept, Types
<1>5. QED BY <1>2, <1>3, <1>4 DEF Answer, Seen

(* The entry of the request that is answered is found. *)
LEMMA FoundEntry ==
  ASSUME Kept, NEW r \in asked
  PROVE  /\ r.id \in (1..requests) \X Sids /\ r.id # NoId
         /\ Leaves(r) /\ r.cmd # "tcon" =>
              /\ Found(r.id) \in 1..Len(temp) /\ Tells(temp[Found(r.id)], r) /\ Found(r.id) # 0
         /\ r.cmd = "create" /\ r.name = NoName => Found(r.id) = 0
<1>1. r.id \in (1..requests) \X Sids /\ requests \in Nat /\ Len(temp) \in Nat BY DEF Kept, Ids, Types
<1>2. r.id # NoId BY <1>1 DEF NoId
<1>3. /\ \A i \in 1..Len(temp) : temp[i].id = r.id => Found(r.id) = i
      /\ (\A i \in 1..Len(temp) : temp[i].id # r.id) => Found(r.id) = 0
  BY <1>2, FoundFacts DEF Kept
<1>4. ASSUME Leaves(r), r.cmd # "tcon"
      PROVE  Found(r.id) \in 1..Len(temp) /\ Tells(temp[Found(r.id)], r) /\ Found(r.id) # 0
  <2>1. PICK i \in 1..Len(temp) : Tells(temp[i], r) BY <1>4 DEF Kept, Remember
  <2>2. temp[i].id = r.id /\ i # 0 BY <1>1, <2>1 DEF Tells
  <2>3. Found(r.id) = i BY <1>3, <2>2
  <2>4. QED BY <2>1, <2>2, <2>3
<1>5. ASSUME r.cmd = "create", r.name = NoName
      PROVE  Found(r.id) = 0
  BY <1>3, <1>5 DEF Kept, Remember
<1>6. QED BY <1>1, <1>2, <1>4, <1>5

LEMMA AnsweredEntries ==
  ASSUME Kept, NEW r \in asked, asked' = asked \ {r}, requests' = requests,
         temp' = temp \/ \E i \in 1..Len(temp) : temp[i].id = r.id /\ temp' = Done(i)
  PROVE  temp' \in Seq(Entries) /\ Len(temp') <= TempLimit /\ Ids' /\ EntryIds' /\ Remember'
<1> USE DEF Kept
<1>1. temp \in Seq(Entries) /\ Len(temp) <= TempLimit /\ Len(temp) \in Nat /\ requests \in Nat BY DEF Types
<1>2. /\ temp' \in Seq(Entries) /\ Len(temp') = Len(temp)
      /\ \A k \in 1..Len(temp) : temp'[k] = temp[k] \/ (temp'[k] = Blank /\ temp[k].id = r.id)
  <2>1. CASE temp' = temp BY <1>1, <2>1
  <2>2. ASSUME NEW i \in 1..Len(temp), temp[i].id = r.id, temp' = Done(i)
        PROVE  <1>2
    BY <1>1, <2>2, BlankEntry DEF Done
  <2>3. QED BY <2>1, <2>2
<1>3. Ids' BY DEF Ids
<1>4. Blank.id = NoId /\ NoId[1] = 0 BY BlankEntry DEF NoId
<1>5. EntryIds'
  <2>1. \A k \in 1..Len(temp') : temp'[k].id[1] <= requests'
    <3> TAKE k \in 1..Len(temp')
    <3>1. CASE temp'[k] = temp[k] BY <1>2, <3>1 DEF EntryIds
    <3>2. CASE temp'[k] = Blank BY <1>1, <1>4, <3>2
    <3>3. QED BY <1>2, <3>1, <3>2
  <2>2. \A i, j \in 1..Len(temp') : temp'[i].id = temp'[j].id /\ temp'[i].id # NoId => i = j
    BY <1>2, <1>4 DEF EntryIds
  <2>3. QED BY <2>1, <2>2 DEF EntryIds
<1>6. Remember'
  <2>1. ASSUME NEW q \in asked' PROVE q \in asked /\ q.id # r.id /\ q.id # NoId BY <2>1, FoundEntry DEF Ids
  <2>2. ASSUME NEW q \in asked', NEW i \in 1..Len(temp), temp[i].id = q.id
        PROVE  i \in 1..Len(temp') /\ temp'[i] = temp[i]
    BY <1>2, <2>1, <2>2
  <2>3. ASSUME NEW q \in asked', Leaves(q), q.cmd # "tcon"
        PROVE  \E i \in 1..Len(temp') : Tells(temp'[i], q)
    <3>1. PICK i \in 1..Len(temp) : Tells(temp[i], q) BY <2>1, <2>3 DEF Remember
    <3>2. temp[i].id = q.id BY <3>1 DEF Tells
    <3>3. QED BY <2>2, <3>1, <3>2
  <2>4. ASSUME NEW q \in asked', q.cmd = "create", q.name = NoName
        PROVE  \A i \in 1..Len(temp') : temp'[i].id # q.id
    BY <1>2, <1>4, <2>1, <2>4 DEF Remember
  <2>5. QED BY <2>3, <2>4 DEF Remember
<1>7. QED BY <1>1, <1>2, <1>3, <1>5, <1>6

(* An answer other than to a tree connect: what is left to show. *)
LEMMA Answered ==
  ASSUME Kept, NEW r \in asked, r.cmd # "tcon", asked' = asked \ {r},
         UNCHANGED <<scenario, requests, treeCache, held>>,
         temp' = temp \/ \E i \in 1..Len(temp) : temp[i].id = r.id /\ temp' = Done(i),
         treeMap' \in [Trees -> Shares \cup {None}], fileState' \in [Handles -> States],
         userName' \in [Sids -> Users \cup {None}], users' \in [Sids -> Users \cup {None}],
         trees' \in [Tids -> (Sids \cup {None}) \X (Shares \cup {None})],
         files' \in [Fids -> OpenFiles],
         \A q \in asked \ {r} : Asks(q)', Hosts', Named', Copied'
  PROVE  Kept'
<1>1. temp' \in Seq(Entries) /\ Len(temp') <= TempLimit /\ Ids' /\ EntryIds' /\ Remember' BY AnsweredEntries
<1>2. Types' BY <1>1 DEF Kept, Types
<1>3. Asked' BY DEF Kept, Asked
<1>4. Cached'
  <2>1. \A q \in asked : q.cmd = "tcon" => q \in asked' OBVIOUS
  <2>2. QED BY <2>1 DEF Kept, Cached
<1>5. QED BY <1>1, <1>2, <1>3, <1>4 DEF Kept

LEMMA GrantedKeeps ==
  ASSUME Kept, Usual', NEW r \in asked, NEW ok \in BOOLEAN, Granted(r, ok)
  PROVE  Kept' /\ Showing'
<1>1. PICK kinds, why :
      /\ r.cmd = "setup" /\ Answer(r, ok, NoTree, None, why, 0, kinds) /\ UNCHANGED <<trees, files>>
      /\ users' = IF ok THEN [users EXCEPT ![r.id[2]] = r.user] ELSE users
      /\ facts' = IF r.user = NoName THEN {} ELSE {Told(r.user, NoPath, LoginFact(ok, why))}
  BY DEF Granted
<1>2. asked' = asked \ {r} /\ UNCHANGED <<scenario, requests>> BY <1>1, AnswerSeen
<1>3. PICK a : /\ a = [cmd |-> r.cmd, id |-> r.id, ok |-> ok, tid |-> NoTree,
                       fid |-> None, action |-> why, size |-> 0]
               /\ OnResponse(a) /\ held.server = NothingHeld.server
  <2>1. Seen(r, ok, NoTree, None, why, 0) BY <1>1, AnswerSeen
  <2>2. QED BY <2>1 DEF Seen
<1>4. a.cmd = "setup" /\ a.id = r.id /\ a.ok = ok /\ a.action = why BY <1>1, <1>3
<1> DEFINE i == Found(r.id)
           s == r.id[2]
<1>5. SetupResponse(a, i) BY <1>3, <1>4 DEF OnResponse
<1>6. i # 0 /\ Tells(temp[i], r) /\ r.id \in (1..requests) \X Sids BY <1>1, FoundEntry DEF Leaves
<1>7. temp[i].user = r.user /\ s \in Sids /\ r.user \in Users /\ users[s] = None
  BY <1>1, <1>6 DEF Tells, Kept, Asked, Asks
<1> HIDE DEF i, s
<1>8. /\ userName' = [userName EXCEPT ![s] = r.user]
      /\ events' = IF r.user = NoName THEN {}
                   ELSE {Event(op, r.user, NoPath, NoPath, 0) : op \in SetupShown(a)}
      /\ UNCHANGED <<temp, treeCache, treeMap, fileState, held>>
  BY <1>4, <1>5, <1>6, <1>7 DEF SetupResponse, s
<1>9. Showing' BY <1>1, <1>2, <1>4, <1>8 DEF Showing, Unseen, Told, Event, SetupShown, LoginFact
<1>10. /\ users \in [Sids -> Users \cup {None}] /\ userName \in [Sids -> Users \cup {None}]
       /\ None \notin Users /\ treeMap \in [Trees -> Shares \cup {None}]
       /\ fileState \in [Handles -> States] /\ files \in [Fids -> OpenFiles]
       /\ trees \in [Tids -> (Sids \cup {None}) \X (Shares \cup {None})]
  BY Smb2Assumption DEF Kept, Types
<1>11. /\ users' \in [Sids -> Users \cup {None}] /\ userName' \in [Sids -> Users \cup {None}]
       /\ \A x \in Sids : x # s => users'[x] = users[x] /\ userName'[x] = userName[x]
       /\ userName'[s] = r.user /\ users'[s] \in {None, r.user}
       /\ \A x \in Sids : users[x] # None => users'[x] # None
  BY <1>1, <1>7, <1>8, <1>10 DEF s
<1>12. \A x : Leaving(x)' <=> Leaving(x) BY <1>1, <1>2 DEF Leaving
<1>13. \A q \in asked \ {r} : Asks(q)'
  <2> TAKE q \in asked \ {r}
  <2>1. Asks(q) /\ q.id[2] \in Sids /\ (q.cmd = "setup" => q.id[2] # s)
    BY <1>1 DEF Kept, Asked, Ids, Together, s
  <2>2. q.cmd = "setup" => users'[q.id[2]] = None BY <1>11, <2>1 DEF Asks
  <2>3. q.cmd # "setup" => users'[q.id[2]] # None BY <1>11, <2>1 DEF Asks
  <2>4. QED BY <1>1, <2>1, <2>2, <2>3 DEF Asks
<1>14. Hosts' BY <1>1, <1>11, <1>12 DEF Kept, Hosts
<1>15. Named'
  <2>1. \A x \in Sids : users'[x] # None /\ ~Leaving(x) => userName'[x] = users'[x] BY <1>11 DEF Kept, Named
  <2>2. QED BY <1>1, <1>8, <1>12, <2>1 DEF Kept, Named
<1>16. Copied' BY <1>1, <1>8 DEF Kept, Copied
<1>17. Kept' BY <1>1, <1>2, <1>8, <1>10, <1>11, <1>13, <1>14, <1>15, <1>16, Answered
<1>18. QED BY <1>9, <1>17

(* A log off is answered: nothing of the session is open. *)
LEMMA LoggedOffKeeps ==
  ASSUME Kept, Usual', NEW r \in asked, LoggedOff(r)
  PROVE  Kept' /\ events' = facts'
<1>1. /\ r.cmd = "logoff" /\ facts' = {} /\ Answer(r, TRUE, NoTree, None, "none", 0, {})
      /\ users' = [users EXCEPT ![r.id[2]] = None]
      /\ trees' = [t \in Tids |-> IF trees[t][1] = r.id[2] THEN <<None, None>> ELSE trees[t]]
      /\ files' = [f \in Fids |-> IF files[f].sid = r.id[2] THEN NotOpen ELSE files[f]]
  BY DEF LoggedOff
<1>2. asked' = asked \ {r} /\ UNCHANGED <<scenario, requests>> BY <1>1, AnswerSeen
<1>3. events' = {} /\ UNCHANGED analyzer
  <2>1. Seen(r, TRUE, NoTree, None, "none", 0) BY <1>1, AnswerSeen
  <2>2. PICK a : /\ a = [cmd |-> r.cmd, id |-> r.id, ok |-> TRUE, tid |-> NoTree,
                         fid |-> None, action |-> "none", size |-> 0]
                 /\ OnResponse(a) /\ held.server = NothingHeld.server
    BY <2>1 DEF Seen
  <2>3. a.cmd = "logoff" BY <1>1, <2>2
  <2>4. QED BY <2>2, <2>3 DEF OnResponse
<1> DEFINE s == r.id[2]
<1>4. s \in Sids /\ Leaving(s) /\ None \notin Sids BY <1>1, Smb2Assumption DEF Leaving, Kept, Ids
<1>5. /\ users \in [Sids -> Users \cup {None}] /\ files \in [Fids -> OpenFiles]
      /\ trees \in [Tids -> (Sids \cup {None}) \X (Shares \cup {None})]
  BY DEF Kept, Types
<1>6. files' = files
  <2>1. \A f \in Fids : files[f].sid = s => files[f] = NotOpen BY <1>4 DEF Kept, Hosts
  <2>2. \A f \in Fids : files'[f] = files[f] BY <1>1, <2>1
  <2>3. QED BY <1>1, <1>5, <2>2
<1> HIDE DEF s
<1>7. /\ users' \in [Sids -> Users \cup {None}] /\ users'[s] = None
      /\ \A x \in Sids : x # s => users'[x] = users[x]
  BY <1>1, <1>4, <1>5 DEF s
<1>8. /\ trees' \in [Tids -> (Sids \cup {None}) \X (Shares \cup {None})]
      /\ \A t \in Tids : IF trees[t][1] = s THEN trees'[t] = <<None, None>> ELSE trees'[t] = trees[t]
  BY <1>1, <1>5 DEF s
<1>9. \A q \in asked \ {r} : q.id[2] # s /\ q.id[2] \in Sids BY <1>1 DEF Kept, Ids, Asked, Together, s
<1>10. \A x : Leaving(x)' <=> Leaving(x) /\ x # s BY <1>1, <1>2, <1>9 DEF Leaving, s
<1>11. \A q \in asked \ {r} : Asks(q)'
  <2> TAKE q \in asked \ {r}
  <2>1. Asks(q) /\ users'[q.id[2]] = users[q.id[2]] BY <1>7, <1>9 DEF Kept, Asked
  <2>2. q.cmd = "create" => trees'[q.tid] = trees[q.tid] BY <1>8, <1>9, <2>1 DEF Asks
  <2>3. QED BY <1>6, <2>1, <2>2 DEF Asks
<1>12. Hosts'
  <2>1. \A f \in Fids : files[f] # NotOpen => files[f].sid # s BY <1>4 DEF Kept, Hosts
  <2>2. \A f \in Fids : \/ files[f] = NotOpen
                        \/ users'[files[f].sid] = users[files[f].sid]
    BY <1>7, <2>1 DEF Kept, Hosts
  <2>3. \A t \in Tids : \/ trees'[t] = <<None, None>>
                        \/ trees'[t] \in Sids \X Shares /\ users'[trees'[t][1]] # None
    BY <1>7, <1>8 DEF Kept, Hosts
  <2>4. QED BY <1>6, <1>10, <2>2, <2>3 DEF Kept, Hosts
<1>13. Named'
  <2>1. \A x \in Sids : users'[x] # None /\ ~Leaving(x)' => userName'[x] = users'[x]
    BY <1>3, <1>7, <1>10 DEF Kept, Named, analyzer
  <2>2. ASSUME NEW t \in Tids, NEW x, x = trees'[t][1], x # None, ~Leaving(x)'
        PROVE  treeMap'[t] = trees'[t][2]
    <3>1. trees'[t] = trees[t] /\ x # s BY <1>8, <2>2
    <3>2. QED BY <1>3, <1>10, <2>2, <3>1 DEF Kept, Named, analyzer
  <2>3. QED BY <2>1, <2>2 DEF Named, Leaving
<1>14. Copied' BY <1>3, <1>6 DEF Kept, Copied, analyzer
<1>15. /\ treeMap' \in [Trees -> Shares \cup {None}] /\ fileState' \in [Handles -> States]
       /\ userName' \in [Sids -> Users \cup {None}] /\ files' \in [Fids -> OpenFiles]
  BY <1>3, <1>6 DEF Kept, Types, analyzer
<1>16. Kept'
  <2>1. UNCHANGED <<treeCache, held, temp>> BY <1>3 DEF analyzer
  <2>2. QED BY <1>1, <1>2, <1>7, <1>8, <1>11, <1>12, <1>13, <1>14, <1>15, <2>1, Answered
<1>17. QED BY <1>1, <1>3, <1>16

(* A share is disconnected: no open of it is under way. *)
LEMMA UnmountedKeeps ==
  ASSUME Kept, Usual', NEW r \in asked, Unmounted(r)
  PROVE  Kept' /\ events' = facts'
<1>1. /\ r.cmd = "tdis" /\ facts' = {} /\ Answer(r, TRUE, NoTree, None, "none", 0, {})
      /\ trees' = [trees EXCEPT ![r.tid] = <<None, None>>] /\ UNCHANGED <<users, files>>
  BY DEF Unmounted
<1>2. asked' = asked \ {r} /\ UNCHANGED <<scenario, requests>> BY <1>1, AnswerSeen
<1>3. events' = {} /\ UNCHANGED analyzer
  <2>1. Seen(r, TRUE, NoTree, None, "none", 0) BY <1>1, AnswerSeen
  <2>2. PICK a : /\ a = [cmd |-> r.cmd, id |-> r.id, ok |-> TRUE, tid |-> NoTree,
                         fid |-> None, action |-> "none", size |-> 0]
                 /\ OnResponse(a) /\ held.server = NothingHeld.server
    BY <2>1 DEF Seen
  <2>3. a.cmd = "tdis" BY <1>1, <2>2
  <2>4. QED BY <2>2, <2>3 DEF OnResponse
<1>4. /\ users \in [Sids -> Users \cup {None}] /\ files \in [Fids -> OpenFiles]
      /\ trees \in [Tids -> (Sids \cup {None}) \X (Shares \cup {None})]
  BY DEF Kept, Types
<1>5. r.tid \in Tids BY <1>1 DEF Kept, Asked, Asks
<1>6. /\ trees' \in [Tids -> (Sids \cup {None}) \X (Shares \cup {None})]
      /\ \A t \in Tids : IF t = r.tid THEN trees'[t] = <<None, None>> ELSE trees'[t] = trees[t]
  BY <1>1, <1>4, <1>5
<1>7. \A x : Leaving(x)' <=> Leaving(x) BY <1>1, <1>2 DEF Leaving
<1>8. \A q \in asked \ {r} : Asks(q)'
  <2> TAKE q \in asked \ {r}
  <2>1. Asks(q) /\ (q.cmd = "create" => q.tid # r.tid) BY <1>1 DEF Kept, Asked, Together
  <2>2. q.cmd = "create" => trees'[q.tid] = trees[q.tid] BY <1>6, <2>1 DEF Asks
  <2>3. QED BY <1>1, <2>1, <2>2 DEF Asks
<1>9. Hosts'
  <2>1. \A t \in Tids : \/ trees'[t] = <<None, None>>
                        \/ trees'[t] \in Sids \X Shares /\ users[trees'[t][1]] # None
    BY <1>6 DEF Kept, Hosts
  <2>2. QED BY <1>1, <1>7, <2>1 DEF Kept, Hosts
<1>10. Named'
  <2>1. ASSUME NEW t \in Tids, NEW x, x = trees'[t][1], x # None, ~Leaving(x)'
        PROVE  treeMap'[t] = trees'[t][2]
    <3>1. trees'[t] = trees[t] BY <1>6, <2>1
    <3>2. QED BY <1>3, <1>7, <2>1, <3>1 DEF Kept, Named, analyzer
  <2>2. \A x \in Sids : users'[x] # None /\ ~Leaving(x)' => userName'[x] = users'[x]
    BY <1>1, <1>3, <1>7 DEF Kept, Named, analyzer
  <2>3. QED BY <2>1, <2>2 DEF Named, Leaving
<1>11. Copied' BY <1>1, <1>3 DEF Kept, Copied, analyzer
<1>12. /\ treeMap' \in [Trees -> Shares \cup {None}] /\ fileState' \in [Handles -> States]
       /\ userName' \in [Sids -> Users \cup {None}] /\ files' \in [Fids -> OpenFiles]
       /\ users' \in [Sids -> Users \cup {None}]
  BY <1>1, <1>3, <1>4 DEF Kept, Types, analyzer
<1>13. Kept'
  <2>1. UNCHANGED <<treeCache, held, temp>> BY <1>3 DEF analyzer
  <2>2. QED BY <1>1, <1>2, <1>6, <1>8, <1>9, <1>10, <1>11, <1>12, <2>1, Answered
<1>14. QED BY <1>1, <1>3, <1>13

(* The tree connect of a session is the one that is answered, and leaves *)
(* the cache. *)
LEMMA TconFound ==
  ASSUME Kept, NEW r \in asked, r.cmd = "tcon"
  PROVE  /\ TconOf(r.id[2]) \in 1..Len(treeCache) /\ TconOf(r.id[2]) # 0
         /\ treeCache[TconOf(r.id[2])] = [sid |-> r.id[2], share |-> r.share]
<1>1. PICK j \in 1..Len(treeCache) : treeCache[j] = [sid |-> r.id[2], share |-> r.share] BY DEF Kept, Cached
<1>2. \A k \in 1..Len(treeCache) : treeCache[k].sid = r.id[2] => k = j BY <1>1 DEF Kept, Cached
<1>3. DOMAIN treeCache = 1..Len(treeCache) /\ Len(treeCache) \in Nat /\ j \in Nat /\ j # 0 BY DEF Kept, Types
<1>4. {k \in DOMAIN treeCache : treeCache[k].sid = r.id[2]} = {j} BY <1>1, <1>2, <1>3
<1>5. TconOf(r.id[2]) = j
  <2>1. TconOf(r.id[2]) = CHOOSE k \in {j} : \A m \in {j} : k <= m BY <1>4 DEF TconOf
  <2>2. j <= j BY <1>3
  <2>3. QED BY <2>1, <2>2
<1>6. QED BY <1>1, <1>3, <1>5

OldIndex(i, k, j) == k = IF i < j THEN i ELSE i + 1
Without(w, q, j) ==
  /\ Len(w) = Len(q) - 1
  /\ \A i \in 1..Len(w) : w[i] = q[IF i < j THEN i ELSE i + 1]

(* What is left when an entry is taken out: all others, each once. *)
LEMMA WithoutFacts ==
  ASSUME NEW S, NEW q \in Seq(S), NEW w \in Seq(S), NEW j \in 1..Len(q), Without(w, q, j)
  PROVE  /\ \A i \in 1..Len(w) :
               \E k \in 1..Len(q) : k # j /\ w[i] = q[k] /\ OldIndex(i, k, j)
         /\ \A k \in 1..Len(q) : k # j => \E i \in 1..Len(w) : w[i] = q[k]
<1>1. Len(q) \in Nat /\ Len(w) \in Nat /\ j \in Nat /\ j >= 1 /\ j <= Len(q) /\ Len(w) = Len(q) - 1
  BY DEF Without
<1>2. \A i \in 1..Len(w) :
        \E k \in 1..Len(q) : k # j /\ w[i] = q[k] /\ OldIndex(i, k, j)
  <2> TAKE i \in 1..Len(w)
  <2>1. i \in Nat /\ w[i] = q[IF i < j THEN i ELSE i + 1] BY <1>1 DEF Without
  <2>2. CASE i < j
    <3>1. i \in 1..Len(q) /\ i # j /\ w[i] = q[i] BY <1>1, <2>1, <2>2
    <3>2. QED BY <2>2, <3>1 DEF OldIndex
  <2>3. CASE ~(i < j)
    <3>1. i + 1 \in 1..Len(q) /\ i + 1 # j /\ w[i] = q[i + 1] BY <1>1, <2>1, <2>3
    <3>2. QED BY <2>3, <3>1 DEF OldIndex
  <2>4. QED BY <2>2, <2>3
<1>3. ASSUME NEW k \in 1..Len(q), k # j
      PROVE  \E i \in 1..Len(w) : w[i] = q[k]
  <2>1. CASE k < j
    <3>1. k \in 1..Len(w) BY <1>1, <2>1
    <3>2. QED BY <2>1, <3>1 DEF Without
  <2>2. CASE ~(k < j)
    <3>1. k - 1 \in 1..Len(w) /\ ~(k - 1 < j) /\ (k - 1) + 1 = k BY <1>1, <1>3, <2>2
    <3>2. QED BY <3>1 DEF Without
  <2>3. QED BY <2>1, <2>2
<1>4. QED BY <1>2, <1>3

LEMMA TconTaken ==
  ASSUME Kept, NEW r \in asked, r.cmd = "tcon", NEW j, j = TconOf(r.id[2]), asked' = asked \ {r},
         treeCache' \in Seq([sid : Sids, share : Shares]), Without(treeCache', treeCache, j)
  PROVE  Len(treeCache') <= CacheLimit /\ Cached'
<1>1. /\ j \in 1..Len(treeCache) /\ treeCache[j] = [sid |-> r.id[2], share |-> r.share]
      /\ treeCache \in Seq([sid : Sids, share : Shares]) /\ Len(treeCache) <= CacheLimit
      /\ Len(treeCache) \in Nat /\ j \in Nat /\ CacheLimit \in Nat
  BY TconFound, Smb2Assumption DEF Kept, Types
<1>2. treeCache[j].sid = r.id[2] BY <1>1
<1>3. \A i \in 1..Len(treeCache') :
        \E k \in 1..Len(treeCache) : k # j /\ treeCache'[i] = treeCache[k] /\ OldIndex(i, k, j)
  BY <1>1, WithoutFacts
<1>4. \A k \in 1..Len(treeCache) : k # j => \E i \in 1..Len(treeCache') : treeCache'[i] = treeCache[k]
  BY <1>1, WithoutFacts
<1>5. \A k \in 1..Len(treeCache) : k # j => treeCache[k].sid # r.id[2] BY <1>1, <1>2 DEF Kept, Cached
<1>6. ASSUME NEW q \in asked', q.cmd = "tcon"
      PROVE  \E i \in 1..Len(treeCache') : treeCache'[i] = [sid |-> q.id[2], share |-> q.share]
  <2>1. q.id[2] # r.id[2] BY <1>6 DEF Kept, Asked, Together
  <2>2. PICK k \in 1..Len(treeCache) : treeCache[k] = [sid |-> q.id[2], share |-> q.share]
    BY <1>6 DEF Kept, Cached
  <2>3. k # j BY <1>2, <2>1, <2>2
  <2>4. QED BY <1>4, <2>2, <2>3
<1>7. \A i \in 1..Len(treeCache') : \E q \in asked' : q.cmd = "tcon" /\ q.id[2] = treeCache'[i].sid
  <2> TAKE i \in 1..Len(treeCache')
  <2>1. PICK k \in 1..Len(treeCache) : k # j /\ treeCache'[i] = treeCache[k] BY <1>3
  <2>2. PICK q \in asked : q.cmd = "tcon" /\ q.id[2] = treeCache[k].sid BY DEF Kept, Cached
  <2>3. QED BY <1>5, <2>1, <2>2
<1>8. \A i, k \in 1..Len(treeCache') : treeCache'[i].sid = treeCache'[k].sid => i = k
  <2> TAKE i, k \in 1..Len(treeCache')
  <2> HAVE treeCache'[i].sid = treeCache'[k].sid
  <2>1. PICK m \in 1..Len(treeCache) : treeCache'[i] = treeCache[m] /\ OldIndex(i, m, j) BY <1>3
  <2>2. PICK n \in 1..Len(treeCache) : treeCache'[k] = treeCache[n] /\ OldIndex(k, n, j) BY <1>3
  <2>3. m = n BY <2>1, <2>2 DEF Kept, Cached
  <2>4. i \in Int /\ k \in Int OBVIOUS
  <2>5. QED BY <1>1, <2>1, <2>2, <2>3, <2>4 DEF OldIndex
<1>9. Len(treeCache') <= CacheLimit
  <2>1. Len(treeCache') = Len(treeCache) - 1 BY DEF Without
  <2>2. QED BY <1>1, <2>1
<1>10. QED BY <1>6, <1>7, <1>8, <1>9 DEF Cached

LEMMA TconRead ==
  ASSUME Kept, NEW r \in asked, r.cmd = "tcon", NEW ok, NEW tid, tid \in Trees,
         asked' = asked \ {r}, Seen(r, ok, tid, None, "none", 0)
  PROVE  /\ treeMap' = [treeMap EXCEPT ![tid] = r.share]
         /\ treeCache' \in Seq([sid : Sids, share : Shares]) /\ Len(treeCache') <= CacheLimit /\ Cached'
         /\ events' = {} /\ UNCHANGED <<temp, fileState, userName, held>>
<1>1. PICK a : /\ a = [cmd |-> r.cmd, id |-> r.id, ok |-> ok, tid |-> tid,
                       fid |-> None, action |-> "none", size |-> 0]
               /\ OnResponse(a) /\ held.server = NothingHeld.server
  BY DEF Seen
<1>2. a.cmd = "tcon" /\ a.id = r.id /\ a.tid = tid BY <1>1
<1>3. TconResponse(a) BY <1>1, <1>2 DEF OnResponse
<1>4. PICK j : j = TconOf(r.id[2]) OBVIOUS
<1>5. j \in 1..Len(treeCache) /\ j # 0 /\ treeCache[j] = [sid |-> r.id[2], share |-> r.share] BY <1>4, TconFound
<1>6. /\ treeMap' = [treeMap EXCEPT ![tid] = treeCache[j].share]
      /\ treeCache' = SubSeq(treeCache, 1, j - 1) \o SubSeq(treeCache, j + 1, Len(treeCache))
      /\ events' = {} /\ UNCHANGED <<temp, fileState, userName, held>>
  BY <1>2, <1>3, <1>4, <1>5 DEF TconResponse
<1>7. treeCache[j].share = r.share BY <1>5
<1>8. treeCache' \in Seq([sid : Sids, share : Shares]) /\ Without(treeCache', treeCache, j)
  <2>1. treeCache \in Seq([sid : Sids, share : Shares]) BY DEF Kept, Types
  <2>2. PICK w : w = SubSeq(treeCache, 1, j - 1) \o SubSeq(treeCache, j + 1, Len(treeCache)) OBVIOUS
  <2>3. /\ w \in Seq([sid : Sids, share : Shares]) /\ Len(w) = Len(treeCache) - 1
        /\ \A i \in 1..Len(w) : w[i] = treeCache[IF i < j THEN i ELSE i + 1]
    BY <1>5, <2>1, <2>2, TakenOut
  <2>4. w = treeCache' BY <1>6, <2>2
  <2>5. QED BY <2>3, <2>4 DEF Without
<1>9. Len(treeCache') <= CacheLimit /\ Cached' BY <1>4, <1>8, TconTaken
<1>10. QED BY <1>6, <1>7, <1>8, <1>9

LEMMA MountedKeeps ==
  ASSUME Kept, Usual', NEW r \in asked, NEW ok \in BOOLEAN, Mounted(r, ok)
  PROVE  Kept' /\ events' = facts'
<1>1. /\ r.cmd = "tcon" /\ facts' = {} /\ UNCHANGED <<users, files>>
      /\ \/ /\ ok
            /\ \E t \in {x \in Tids : trees[x][1] = None} : \E kinds :
                 /\ trees' = [trees EXCEPT ![t] = <<r.id[2], r.share>>]
                 /\ Answer(r, ok, t, None, "none", 0, kinds)
         \/ ~ok /\ trees' = trees /\ Answer(r, ok, NoTree, None, "none", 0, {})
  BY DEF Mounted
<1>2. PICK tid, kinds :
        /\ tid \in Trees /\ Answer(r, ok, tid, None, "none", 0, kinds)
        /\ \/ /\ tid \in Tids /\ trees[tid][1] = None
              /\ trees' = [trees EXCEPT ![tid] = <<r.id[2], r.share>>]
           \/ tid = NoTree /\ trees' = trees
  BY <1>1 DEF Trees
<1>3. /\ asked' = asked \ {r} /\ UNCHANGED <<scenario, requests>> /\ Seen(r, ok, tid, None, "none", 0)
  BY <1>2, AnswerSeen
<1>4. /\ treeMap' = [treeMap EXCEPT ![tid] = r.share]
      /\ treeCache' \in Seq([sid : Sids, share : Shares]) /\ Len(treeCache') <= CacheLimit /\ Cached'
      /\ events' = {} /\ UNCHANGED <<temp, fileState, userName, held>>
  BY <1>1, <1>2, <1>3, TconRead
<1>5. /\ r.id[2] \in Sids /\ r.share \in Shares /\ users[r.id[2]] # None
      /\ None \notin Sids \cup Shares /\ NoTree \notin Tids
  BY <1>1, Smb2Assumption DEF Kept, Asked, Asks, Ids
<1>6. /\ trees \in [Tids -> (Sids \cup {None}) \X (Shares \cup {None})]
      /\ treeMap \in [Trees -> Shares \cup {None}]
  BY DEF Kept, Types
<1>7. /\ trees' \in [Tids -> (Sids \cup {None}) \X (Shares \cup {None})]
      /\ treeMap' \in [Trees -> Shares \cup {None}]
      /\ \A t \in Tids : \/ trees'[t] = trees[t] /\ treeMap'[t] = treeMap[t]
                         \/ trees'[t] = <<r.id[2], r.share>> /\ trees[t][1] = None /\ treeMap'[t] = r.share
  <2>1. CASE tid \in Tids /\ trees[tid][1] = None /\ trees' = [trees EXCEPT ![tid] = <<r.id[2], r.share>>]
    BY <1>4, <1>5, <1>6, <2>1 DEF Trees
  <2>2. CASE tid = NoTree /\ trees' = trees BY <1>4, <1>5, <1>6, <2>2 DEF Trees
  <2>3. QED BY <1>2, <2>1, <2>2
<1>8. temp' \in Seq(Entries) /\ Len(temp') <= TempLimit /\ Ids' /\ EntryIds' /\ Remember'
  BY <1>3, <1>4, AnsweredEntries
<1>9. Types' BY <1>1, <1>3, <1>4, <1>7, <1>8 DEF Kept, Types
<1>10. \A x : Leaving(x)' <=> Leaving(x) BY <1>1, <1>3 DEF Leaving
<1>11. Asked'
  <2>1. \A q \in asked' : Asks(q)'
    <3> TAKE q \in asked'
    <3>1. Asks(q) /\ q.id[2] \in Sids BY <1>3 DEF Kept, Asked, Ids
    <3>2. q.cmd = "create" => trees'[q.tid] = trees[q.tid] BY <1>5, <1>7, <3>1 DEF Asks
    <3>3. QED BY <1>1, <3>1, <3>2 DEF Asks
  <2>2. QED BY <1>3, <2>1 DEF Kept, Asked
<1>12. Hosts'
  <2>1. \A t \in Tids : \/ trees'[t] = <<None, None>>
                        \/ trees'[t] \in Sids \X Shares /\ users[trees'[t][1]] # None
    BY <1>5, <1>7 DEF Kept, Hosts
  <2>2. QED BY <1>1, <1>10, <2>1 DEF Kept, Hosts
<1>13. Named'
  <2>1. ASSUME NEW t \in Tids, NEW x, x = trees'[t][1], x # None, ~Leaving(x)'
        PROVE  treeMap'[t] = trees'[t][2]
    BY <1>7, <1>10, <2>1 DEF Kept, Named
  <2>2. \A x \in Sids : users'[x] # None /\ ~Leaving(x)' => userName'[x] = users'[x]
    BY <1>1, <1>4, <1>10 DEF Kept, Named
  <2>3. QED BY <2>1, <2>2 DEF Named, Leaving
<1>14. Copied' BY <1>1, <1>4 DEF Kept, Copied
<1>15. QED BY <1>1, <1>4, <1>8, <1>9, <1>11, <1>12, <1>13, <1>14 DEF Kept

(* An answer about a file changes what is known of that file, and nothing *)
(* else but the entry of the request. *)
LEMMA OnFileAnswered ==
  ASSUME Kept, NEW r \in asked, r.cmd \in OnFiles, asked' = asked \ {r}, NEW i \in 1..Len(temp),
         temp[i].id = r.id, temp' = Done(i),
         UNCHANGED <<scenario, requests, treeCache, treeMap, userName, held, users, trees>>,
         NEW s \in States, NEW o \in OpenFiles,
         fileState' = [fileState EXCEPT ![r.fid] = s], files' = [files EXCEPT ![r.fid] = o],
         Copies(s, o),
         \/ o = NotOpen
         \/ /\ o.open /\ o.sid = files[r.fid].sid /\ o.path = files[r.fid].path /\ files[r.fid].open
            /\ files[r.fid].path[2] # NoName,
         r.cmd # "close" => o.open = files[r.fid].open
  PROVE  Kept'
<1>1. /\ r.fid \in Fids /\ Garbage \notin Fids /\ fileState \in [Handles -> States]
      /\ files \in [Fids -> OpenFiles]
  BY Smb2Assumption DEF Kept, Types, Asked, Asks
<1>2. /\ fileState' \in [Handles -> States] /\ files' \in [Fids -> OpenFiles]
      /\ fileState'[r.fid] = s /\ files'[r.fid] = o /\ fileState'[Garbage] = fileState[Garbage]
      /\ \A f \in Fids : f # r.fid => fileState'[f] = fileState[f] /\ files'[f] = files[f]
  BY <1>1 DEF Handles
<1>3. \A x : Leaving(x)' <=> Leaving(x) BY DEF Leaving, OnFiles
<1>4. \A q \in asked \ {r} : Asks(q)'
  <2> TAKE q \in asked \ {r}
  <2>1. Asks(q) /\ (q.cmd = "close" /\ r.cmd = "close" => q.fid # r.fid) BY DEF Kept, Asked, Together
  <2>2. CASE q.cmd \in OnFiles /\ q.fid = r.fid
    <3>1. ~NotOpen.open BY DEF NotOpen
    <3>2. o.open => o.sid = q.id[2] BY <2>1, <2>2, <3>1 DEF Asks
    <3>3. q.cmd = "close" => o.open BY <2>1, <2>2 DEF Asks
    <3>4. q.cmd \in {"read", "write", "dispose"} /\ o.open => o.path[2] # NoName BY <3>1
    <3>5. QED BY <1>2, <2>1, <2>2, <3>2, <3>3, <3>4 DEF Asks, OnFiles
  <2>3. CASE q.cmd \in OnFiles /\ q.fid # r.fid
    <3>1. files'[q.fid] = files[q.fid] BY <1>2, <2>1, <2>3 DEF Asks
    <3>2. QED BY <2>1, <3>1 DEF Asks
  <2>4. CASE q.cmd \notin OnFiles BY <2>1, <2>4 DEF Asks, OnFiles
  <2>5. QED BY <2>2, <2>3, <2>4
<1>5. Hosts'
  <2>1. o = NotOpen \/ (/\ o.open /\ o.sid \in Sids /\ users[o.sid] # None /\ ~Leaving(o.sid)
                        /\ o.path[1] \in Shares /\ o.path[2] # NoName)
    BY <1>1 DEF Kept, Hosts, NotOpen
  <2>2. \A f \in Fids : \/ files'[f] = NotOpen
                        \/ /\ files'[f].open /\ files'[f].sid \in Sids /\ users[files'[f].sid] # None
                           /\ ~Leaving(files'[f].sid) /\ files'[f].path[1] \in Shares
                           /\ files'[f].path[2] = NoName =>
                                ~files'[f].delete /\ files'[f].readed = 0 /\ files'[f].written = 0
    <3> TAKE f \in Fids
    <3>1. CASE f = r.fid BY <1>2, <2>1, <3>1
    <3>2. CASE f # r.fid BY <1>2, <3>2 DEF Kept, Hosts
    <3>3. QED BY <3>1, <3>2
  <2>3. \A x : (\E q \in asked' : q.cmd = "logoff" /\ q.id[2] = x) <=> Leaving(x) BY <1>3 DEF Leaving
  <2>4. QED BY <2>2, <2>3 DEF Kept, Hosts, Leaving
<1>6. Named' BY <1>3 DEF Kept, Named
<1>7. Copied' BY <1>2 DEF Kept, Copied
<1>8. QED
  <2>1. r.cmd # "tcon" BY DEF OnFiles
  <2>2. /\ treeMap' \in [Trees -> Shares \cup {None}] /\ userName' \in [Sids -> Users \cup {None}]
        /\ users' \in [Sids -> Users \cup {None}]
        /\ trees' \in [Tids -> (Sids \cup {None}) \X (Shares \cup {None})]
    BY DEF Kept, Types
  <2>3. QED BY <1>2, <1>4, <1>5, <1>6, <1>7, <2>1, <2>2, Answered

(* What is read of the answer to a request on a file. *)
TakenOnFile(r, ok, size, a, i) ==
  /\ a.cmd = r.cmd /\ a.id = r.id /\ a.ok = ok /\ a.size = size
  /\ i \in 1..Len(temp) /\ Tells(temp[i], r) /\ temp[i].id = r.id /\ temp[i].fid = r.fid
  /\ \/ a.cmd = "close" /\ CloseResponse(a, i)
     \/ a.cmd \in {"read", "write"} /\ CountResponse(a, i)
     \/ a.cmd \in {"rename", "dispose"} /\ SetInfoResponse(a, i)
  /\ UNCHANGED <<treeCache, treeMap, userName, held>>
LEMMA OnFileRead ==
  ASSUME Kept, NEW r \in asked, r.cmd \in OnFiles, NEW ok, NEW size, Seen(r, ok, NoTree, None, "none", size)
  PROVE  \E a, i : TakenOnFile(r, ok, size, a, i)
<1> USE DEF TakenOnFile
<1>1. PICK a : /\ a = [cmd |-> r.cmd, id |-> r.id, ok |-> ok, tid |-> NoTree,
                       fid |-> None, action |-> "none", size |-> size]
               /\ OnResponse(a) /\ held.server = NothingHeld.server
  BY DEF Seen
<1>2. a.cmd = r.cmd /\ a.id = r.id /\ a.ok = ok /\ a.size = size BY <1>1
<1>3. PICK i : i = Found(r.id) OBVIOUS
<1>4. i \in 1..Len(temp) /\ Tells(temp[i], r) /\ i # 0 BY <1>3, FoundEntry DEF Leaves, OnFiles
<1>5. temp[i].id = r.id /\ temp[i].fid = r.fid BY <1>4 DEF Tells
<1>6. /\ \/ a.cmd = "close" /\ CloseResponse(a, i)
         \/ a.cmd \in {"read", "write"} /\ CountResponse(a, i)
         \/ a.cmd \in {"rename", "dispose"} /\ SetInfoResponse(a, i)
      /\ UNCHANGED <<treeCache, treeMap, userName, held>>
  BY <1>1, <1>2, <1>3, <1>4 DEF OnResponse, OnFiles
<1>7. QED BY <1>2, <1>4, <1>5, <1>6

LEMMA OnFileFacts ==
  ASSUME Kept, NEW r \in asked, r.cmd \in OnFiles
  PROVE  /\ r.fid \in Fids /\ r.fid \in Handles /\ Asks(r) /\ Copies(fileState[r.fid], files[r.fid])
         /\ fileState \in [Handles -> States] /\ files \in [Fids -> OpenFiles]
         /\ fileState[r.fid] \in States /\ files[r.fid] \in OpenFiles
         /\ (files[r.fid] = NotOpen \/ (files[r.fid].open /\ files[r.fid].sid = r.id[2]))
         /\ r.id[2] \in Sids
<1>1. Asks(r) /\ r.id[2] \in Sids BY DEF Kept, Asked, Ids
<1>2. r.fid \in Fids /\ (files[r.fid].open => files[r.fid].sid = r.id[2]) BY <1>1 DEF Asks
<1>3. r.fid \in Handles /\ Copies(fileState[r.fid], files[r.fid]) BY <1>2 DEF Kept, Copied, Handles
<1>4. /\ fileState \in [Handles -> States] /\ files \in [Fids -> OpenFiles]
      /\ fileState[r.fid] \in States /\ files[r.fid] \in OpenFiles
  BY <1>2, <1>3 DEF Kept, Types
<1>5. files[r.fid] = NotOpen \/ files[r.fid].open BY <1>2 DEF Kept, Hosts
<1>6. QED BY <1>1, <1>2, <1>3, <1>4, <1>5

(* Bytes are counted on both sides. *)
LEMMA MovedKeeps ==
  ASSUME Kept, Usual', NEW r \in asked, NEW ok \in BOOLEAN, Moved(r, ok)
  PROVE  Kept' /\ events' = facts'
<1> DEFINE n == IF ok THEN 1 ELSE 0
<1> USE DEF TakenOnFile
<1>1. /\ r.cmd \in {"read", "write"} /\ r.cmd \in OnFiles /\ (ok => files[r.fid].open) /\ facts' = {}
      /\ UNCHANGED <<users, trees>> /\ Answer(r, ok, NoTree, None, "none", n, {})
      /\ files' = IF ~ok THEN files
                  ELSE IF r.cmd = "read" THEN [files EXCEPT ![r.fid].readed = @ + 1]
                  ELSE [files EXCEPT ![r.fid].written = @ + 1]
  BY DEF Moved, OnFiles
<1> HIDE DEF n
<1>2. asked' = asked \ {r} /\ UNCHANGED <<scenario, requests>> /\ Seen(r, ok, NoTree, None, "none", n)
  BY <1>1, AnswerSeen
<1>3. PICK a, i : TakenOnFile(r, ok, n, a, i)
  BY <1>1, <1>2, OnFileRead
<1>4. PICK f, s, o : f = r.fid /\ s = fileState[f] /\ o = files[f] OBVIOUS
<1>5. /\ f \in Fids /\ f \in Handles /\ Asks(r) /\ Copies(s, o) /\ s \in States /\ o \in OpenFiles
      /\ fileState \in [Handles -> States] /\ files \in [Fids -> OpenFiles]
      /\ (o = NotOpen \/ (o.open /\ o.path[2] # NoName))
  BY <1>1, <1>4, OnFileFacts DEF Asks
<1>6. CountResponse(a, i) BY <1>1, <1>3
<1>7. /\ fileState' = IF ~s.known THEN fileState
                      ELSE IF r.cmd = "read" THEN [fileState EXCEPT ![f].readed = @ + n]
                      ELSE [fileState EXCEPT ![f].written = @ + n]
      /\ events' = {} /\ temp' = Done(i)
  BY <1>3, <1>4, <1>6 DEF CountResponse
<1>8. PICK v, w :
        /\ v \in States /\ w \in OpenFiles
        /\ fileState' = [fileState EXCEPT ![f] = v] /\ files' = [files EXCEPT ![f] = w] /\ Copies(v, w)
        /\ \/ w = NotOpen
           \/ w.open /\ w.sid = o.sid /\ w.path = o.path /\ o.open /\ o.path[2] # NoName
        /\ w.open = o.open
  <2>1. CASE o.open
    <3>1. s.known BY <1>5, <2>1 DEF Copies, NotOpen
    <3>2. n \in Nat /\ n = IF ok THEN 1 ELSE 0 BY DEF n
    <3>3. CASE r.cmd = "read"
      <4> DEFINE v == [s EXCEPT !.readed = @ + n]
                 w == [o EXCEPT !.readed = @ + n]
      <4>1. v \in States /\ w \in OpenFiles BY <1>5, <3>2 DEF States, OpenFiles
      <4>2. Copies(v, w) BY <1>5, <3>1, <3>2 DEF Copies, States, OpenFiles
      <4>3. fileState' = [fileState EXCEPT ![f] = v] BY <1>4, <1>5, <1>7, <3>1, <3>3
      <4>4. files' = [files EXCEPT ![f] = w]
        <5>1. CASE ok BY <1>1, <1>4, <1>5, <3>2, <3>3, <5>1
        <5>2. CASE ~ok
          <6>1. w = o BY <1>5, <3>2, <5>2 DEF OpenFiles
          <6>2. QED BY <1>1, <1>4, <1>5, <5>2, <6>1
        <5>3. QED BY <5>1, <5>2
      <4>5. w.open /\ w.sid = o.sid /\ w.path = o.path /\ o.path[2] # NoName
        BY <1>5, <2>1 DEF OpenFiles, NotOpen
      <4> HIDE DEF v, w
      <4>6. QED BY <2>1, <4>1, <4>2, <4>3, <4>4, <4>5
    <3>4. CASE r.cmd = "write"
      <4> DEFINE v == [s EXCEPT !.written = @ + n]
                 w == [o EXCEPT !.written = @ + n]
      <4>1. v \in States /\ w \in OpenFiles BY <1>5, <3>2 DEF States, OpenFiles
      <4>2. Copies(v, w) BY <1>5, <3>1, <3>2 DEF Copies, States, OpenFiles
      <4>3. fileState' = [fileState EXCEPT ![f] = v] BY <1>4, <1>5, <1>7, <3>1, <3>4
      <4>4. files' = [files EXCEPT ![f] = w]
        <5>1. CASE ok BY <1>1, <1>4, <1>5, <3>2, <3>4, <5>1
        <5>2. CASE ~ok
          <6>1. w = o BY <1>5, <3>2, <5>2 DEF OpenFiles
          <6>2. QED BY <1>1, <1>4, <1>5, <5>2, <6>1
        <5>3. QED BY <5>1, <5>2
      <4>5. w.open /\ w.sid = o.sid /\ w.path = o.path /\ o.path[2] # NoName
        BY <1>5, <2>1 DEF OpenFiles, NotOpen
      <4> HIDE DEF v, w
      <4>6. QED BY <2>1, <4>1, <4>2, <4>3, <4>4, <4>5
    <3>5. QED BY <1>1, <3>3, <3>4
  <2>2. CASE ~o.open
    <3>1. ~s.known /\ ~ok /\ o = NotOpen BY <1>1, <1>4, <1>5, <2>2 DEF Copies
    <3>2. fileState' = fileState /\ files' = files BY <1>1, <1>7, <3>1
    <3>3. fileState' = [fileState EXCEPT ![f] = s] /\ files' = [files EXCEPT ![f] = o] BY <1>4, <1>5, <3>2
    <3>4. QED BY <1>5, <3>1, <3>3
  <2>3. QED BY <2>1, <2>2
<1>9. Kept' BY <1>1, <1>2, <1>3, <1>4, <1>7, <1>8, OnFileAnswered
<1>10. QED BY <1>1, <1>7, <1>9

(* A file is marked for deletion on both sides. *)
LEMMA ChangedKeeps ==
  ASSUME Kept, Usual', NEW r \in asked, NEW ok \in BOOLEAN, Changed(r, ok)
  PROVE  Kept' /\ events' = facts'
<1> USE DEF TakenOnFile
<1>1. r.cmd = "dispose" /\ r.cmd \in OnFiles /\ r.on = TRUE BY DEF Changed, Kept, Asked, Asks, Kinds, OnFiles
<1>2. /\ (ok => files[r.fid].open) /\ facts' = {} /\ UNCHANGED <<users, trees>>
      /\ Answer(r, ok, NoTree, None, "none", 0, {})
      /\ files' = IF ~ok THEN files ELSE [files EXCEPT ![r.fid].delete = TRUE]
  BY <1>1 DEF Changed
<1>3. asked' = asked \ {r} /\ UNCHANGED <<scenario, requests>> /\ Seen(r, ok, NoTree, None, "none", 0)
  BY <1>2, AnswerSeen
<1>4. PICK a, i : TakenOnFile(r, ok, 0, a, i)
  BY <1>1, <1>3, OnFileRead
<1>5. PICK f, s, o : f = r.fid /\ s = fileState[f] /\ o = files[f] OBVIOUS
<1>6. /\ f \in Fids /\ f \in Handles /\ Asks(r) /\ Copies(s, o) /\ s \in States /\ o \in OpenFiles
      /\ fileState \in [Handles -> States] /\ files \in [Fids -> OpenFiles]
      /\ (o = NotOpen \/ (o.open /\ o.path[2] # NoName))
  BY <1>1, <1>5, OnFileFacts DEF Asks
<1>7. SetInfoResponse(a, i) /\ temp[i].info = "disposition" /\ temp[i].delete = TRUE
  <2>1. temp[i].delete BY <1>1, <1>4 DEF Tells
  <2>2. temp[i] \in Entries BY <1>4 DEF Kept, Types
  <2>3. temp[i].delete \in BOOLEAN BY <2>2 DEF Entries
  <2>4. QED BY <1>1, <1>4, <2>1, <2>3 DEF Tells
<1>8. /\ events' = {} /\ temp' = Done(i)
      /\ fileState' = IF s.known /\ ok THEN [fileState EXCEPT ![f].delete = TRUE] ELSE fileState
  BY <1>4, <1>5, <1>7 DEF SetInfoResponse
<1>9. PICK v, w :
        /\ v \in States /\ w \in OpenFiles
        /\ fileState' = [fileState EXCEPT ![f] = v] /\ files' = [files EXCEPT ![f] = w] /\ Copies(v, w)
        /\ \/ w = NotOpen
           \/ w.open /\ w.sid = o.sid /\ w.path = o.path /\ o.open /\ o.path[2] # NoName
        /\ w.open = o.open
  <2>1. CASE ok
    <3>1. o.open BY <1>2, <1>5, <2>1
    <3>2. s.known BY <1>6, <3>1 DEF Copies, NotOpen
    <3> DEFINE v == [s EXCEPT !.delete = TRUE]
               w == [o EXCEPT !.delete = TRUE]
    <3>3. v \in States /\ w \in OpenFiles BY <1>6 DEF States, OpenFiles
    <3>4. Copies(v, w) BY <1>6, <3>2 DEF Copies, States, OpenFiles
    <3>5. fileState' = [fileState EXCEPT ![f] = v] /\ files' = [files EXCEPT ![f] = w]
      BY <1>2, <1>5, <1>6, <1>8, <2>1, <3>2
    <3>6. w.open /\ w.sid = o.sid /\ w.path = o.path /\ o.path[2] # NoName BY <1>6, <3>1 DEF OpenFiles, NotOpen
    <3> HIDE DEF v, w
    <3>7. QED BY <3>1, <3>3, <3>4, <3>5, <3>6
  <2>2. CASE ~ok
    <3>1. fileState' = [fileState EXCEPT ![f] = s] /\ files' = [files EXCEPT ![f] = o]
      BY <1>2, <1>5, <1>6, <1>8, <2>2
    <3>2. QED BY <1>6, <3>1
  <2>3. QED BY <2>1, <2>2
<1>10. Kept' BY <1>1, <1>2, <1>3, <1>4, <1>5, <1>8, <1>9, OnFileAnswered
<1>11. QED BY <1>2, <1>8, <1>10

(* The close of a file reports what was done with it. *)
LEMMA ClosedKeeps ==
  ASSUME Kept, Usual', NEW r \in asked, Closed(r)
  PROVE  Kept' /\ events' = facts'
<1> USE DEF TakenOnFile
<1>1. PICK f, s, o, user, ok : /\ ok = TRUE /\ f = r.fid /\ s = fileState[f] /\ o = files[f]
                              /\ user = UserOf(r.id[2])
  OBVIOUS
<1>2. /\ r.cmd = "close" /\ r.cmd \in OnFiles /\ UNCHANGED <<users, trees>>
      /\ files' = [files EXCEPT ![f] = NotOpen] /\ Answer(r, ok, NoTree, None, "none", 0, {})
      /\ facts' = IF ~o.open \/ o.path[1] = IPC THEN {}
                  ELSE {Event("read", user, o.path, NoPath, n) : n \in {o.readed} \ {0}}
                       \cup {Event("write", user, o.path, NoPath, n) : n \in {o.written} \ {0}}
                       \cup Removal(user, o)
  BY <1>1 DEF Closed, OnFiles
<1>3. asked' = asked \ {r} /\ UNCHANGED <<scenario, requests>> /\ Seen(r, ok, NoTree, None, "none", 0)
  BY <1>2, AnswerSeen
<1>4. PICK a, i : TakenOnFile(r, ok, 0, a, i)
  BY <1>2, <1>3, OnFileRead
<1>5. /\ f \in Fids /\ f \in Handles /\ Asks(r) /\ Copies(s, o) /\ s \in States /\ o \in OpenFiles
      /\ fileState \in [Handles -> States] /\ files \in [Fids -> OpenFiles] /\ o.open /\ o.sid = r.id[2]
      /\ r.id[2] \in Sids
  BY <1>1, <1>2, OnFileFacts DEF Asks
<1>6. /\ users[r.id[2]] # None /\ ~Leaving(r.id[2]) /\ o.path[1] \in Shares
      /\ o.path[2] = NoName => ~o.delete /\ o.readed = 0 /\ o.written = 0
  <2>1. o # NotOpen BY <1>5 DEF NotOpen
  <2>2. QED BY <1>1, <1>5, <2>1 DEF Kept, Hosts
<1>7. GetUserName(r.id[2]) = user
  <2>1. userName[r.id[2]] = users[r.id[2]] BY <1>5, <1>6 DEF Kept, Named
  <2>2. QED BY <1>1, <1>6, <2>1 DEF GetUserName, UserOf
<1>8. /\ events' = CloseEvents(s, user) /\ temp' = Done(i) /\ fileState' = [fileState EXCEPT ![f] = Unknown]
  BY <1>1, <1>2, <1>4, <1>7 DEF CloseResponse
<1>9. events' = facts'
  <2>1. CASE s.known
    <3>1. /\ s.path = o.path /\ s.isipc = (o.path[1] = IPC) /\ s.isdirectory = o.directory
          /\ s.delete = o.delete /\ s.readed = o.readed /\ s.written = o.written
      BY <1>5, <2>1 DEF Copies
    <3>2. o.path[1] \notin Trees BY <1>6, Smb2Assumption DEF Trees
    <3>3. Suppressed(s) <=> o.path[1] = IPC BY <3>1, <3>2 DEF Suppressed
    <3>4. CASE o.path[1] = IPC BY <1>2, <1>8, <3>3, <3>4 DEF CloseEvents
    <3>5. CASE o.path[1] # IPC
      <4>1. Removal(user, o) = {Event(d, user, o.path, NoPath, 0) :
                                  d \in IF o.delete THEN {IF o.directory THEN "rmdir" ELSE "remove"} ELSE {}}
        BY <3>5 DEF Removal, Told
      <4>2. CloseEvents(s, user) =
              {Event("read", user, o.path, NoPath, n) : n \in {o.readed} \ {0}}
              \cup {Event("write", user, o.path, NoPath, n) : n \in {o.written} \ {0}}
              \cup {Event(d, user, o.path, NoPath, 0) :
                      d \in IF o.delete THEN {IF o.directory THEN "rmdir" ELSE "remove"} ELSE {}}
        BY <2>1, <3>1, <3>3, <3>5 DEF CloseEvents
      <4>3. QED BY <1>2, <1>5, <1>8, <3>5, <4>1, <4>2
    <3>6. QED BY <3>4, <3>5
  <2>2. CASE ~s.known
    <3>1. o.path[2] = NoName BY <1>5, <2>2 DEF Copies
    <3>2. Removal(user, o) = {} BY <1>6, <3>1 DEF Removal
    <3>3. facts' = {} BY <1>2, <1>6, <3>1, <3>2
    <3>4. QED BY <1>8, <2>2, <3>3 DEF CloseEvents
  <2>3. QED BY <2>1, <2>2
<1>10. Unknown \in States /\ NotOpen \in OpenFiles /\ Copies(Unknown, NotOpen)
  BY Smb2Assumption DEF Unknown, NotOpen, States, OpenFiles, Copies, Paths, Trees
<1>11. Kept' BY <1>1, <1>2, <1>3, <1>4, <1>8, <1>10, OnFileAnswered
<1>12. QED BY <1>9, <1>11

(* What is read of the answer to an open. *)
LEMMA OpenRead ==
  ASSUME Kept, NEW r \in asked, r.cmd = "create", NEW ok \in BOOLEAN, ok, NEW f, NEW action,
         Seen(r, ok, r.tid, f, action, 0)
  PROVE  /\ UNCHANGED <<treeCache, treeMap, userName, held>>
         /\ r.name = NoName => events' = {} /\ UNCHANGED <<temp, fileState>>
         /\ r.name # NoName =>
              \E i : /\ i \in 1..Len(temp) /\ Tells(temp[i], r) /\ temp[i].id = r.id
                     /\ OpenResponse(i, r.id, r.tid, f, action)
<1>1. PICK a : /\ a = [cmd |-> r.cmd, id |-> r.id, ok |-> ok, tid |-> r.tid,
                       fid |-> f, action |-> action, size |-> 0]
               /\ OnResponse(a) /\ held.server = NothingHeld.server
  BY DEF Seen
<1>2. a.cmd = "create" /\ a.id = r.id /\ a.ok = ok /\ a.tid = r.tid /\ a.fid = f /\ a.action = action BY <1>1
<1>3. PICK i : i = Found(r.id) OBVIOUS
<1>4. CreateResponse(a, i) BY <1>1, <1>2, <1>3 DEF OnResponse
<1>5. CASE r.name = NoName
  <2>1. i = 0 BY <1>3, <1>5, FoundEntry
  <2>2. QED BY <1>4, <1>5, <2>1 DEF CreateResponse
<1>6. CASE r.name # NoName
  <2>1. i \in 1..Len(temp) /\ Tells(temp[i], r) /\ i # 0 BY <1>3, <1>6, FoundEntry DEF Leaves
  <2>2. temp[i].id = r.id BY <2>1 DEF Tells
  <2>3. OpenResponse(i, r.id, r.tid, f, action) /\ UNCHANGED <<treeCache, treeMap, userName, held>>
    BY <1>2, <1>4, <2>1 DEF CreateResponse
  <2>4. QED BY <1>6, <2>1, <2>2, <2>3
<1>7. QED BY <1>5, <1>6

(* A file is opened, by an id that nothing uses. *)
LEMMA OpenedKeeps ==
  ASSUME Kept, Usual', NEW r \in asked, NEW ok \in BOOLEAN, Opened(r, ok)
  PROVE  Kept' /\ events' = facts'
<1>1. r.cmd = "create" /\ UNCHANGED <<users, trees>> /\ Asks(r) /\ r.id[2] \in Sids
  BY DEF Opened, Kept, Asked, Ids
<1>2. /\ r.tid \in Tids /\ r.tid \in Trees /\ trees[r.tid][1] = r.id[2] /\ r.name \in Names
      /\ r.chain = "none" /\ users[r.id[2]] # None
      /\ r.name = NoName => "delete" \notin r.options
  BY <1>1 DEF Asks, Trees
<1>3. ok
  <2>1. CASE ~ok
    <3>1. Answer(r, ok, r.tid, None, "none", 0, {"refused"}) BY <2>1 DEF Opened
    <3>2. {"refused"} \subseteq {"remounted", "relogged"} BY <3>1, AnswerSeen
    <3>3. QED BY <3>2
  <2>2. QED BY <2>1
<1>4. PICK f \in Free, action \in {"opened", "created"} : \E file, user, kinds :
        /\ file = FileOf(r) /\ user = UserOf(r.id[2])
        /\ (action = "created" => r.name # NoName /\ file.path[1] # IPC)
        /\ files' = [files EXCEPT ![f] = file]
        /\ facts' = IF action = "opened" THEN {}
                    ELSE {Told(user, file.path, IF file.directory THEN "mkdir" ELSE "create")}
        /\ Answer(r, ok, r.tid, f, action, 0, kinds)
  <2>1. PICK f \in Free, action \in {"opened", "created"} :
          /\ (action = "created" => r.name # NoName /\ FileOf(r).path[1] # IPC)
          /\ files' = [files EXCEPT ![f] = IF r.chain = "none" THEN FileOf(r) ELSE NotOpen]
          /\ facts' = (IF action = "opened" THEN {}
                       ELSE {Told(UserOf(r.id[2]), FileOf(r).path,
                                  IF FileOf(r).directory THEN "mkdir" ELSE "create")})
                      \cup (IF r.chain = "close" THEN Removal(UserOf(r.id[2]), FileOf(r)) ELSE {})
                      \cup (IF r.chain = "rename"
                            THEN {Event("rename", UserOf(r.id[2]), FileOf(r).path,
                                        <<FileOf(r).path[1], r.to>>, 0)} ELSE {})
          /\ Answer(r, ok, r.tid, f, action, 0, (IF fileState[f].known THEN {"reused"} ELSE {})
                                                \cup OnPipe(r.tid, r.name))
    BY <1>3 DEF Opened
  <2>2. /\ files' = [files EXCEPT ![f] = FileOf(r)]
        /\ facts' = IF action = "opened" THEN {}
                    ELSE {Told(UserOf(r.id[2]), FileOf(r).path,
                               IF FileOf(r).directory THEN "mkdir" ELSE "create")}
    BY <1>2, <2>1
  <2>3. PICK file, user, kinds :
          /\ file = FileOf(r) /\ user = UserOf(r.id[2])
          /\ kinds = (IF fileState[f].known THEN {"reused"} ELSE {}) \cup OnPipe(r.tid, r.name)
    OBVIOUS
  <2>4. /\ (action = "created" => r.name # NoName /\ file.path[1] # IPC)
        /\ files' = [files EXCEPT ![f] = file]
        /\ facts' = IF action = "opened" THEN {}
                    ELSE {Told(user, file.path, IF file.directory THEN "mkdir" ELSE "create")}
        /\ Answer(r, ok, r.tid, f, action, 0, kinds)
    BY <2>1, <2>2, <2>3
  <2>5. QED BY <2>3, <2>4
<1>5. PICK file, user, kinds :
        /\ file = FileOf(r) /\ user = UserOf(r.id[2])
        /\ (action = "created" => r.name # NoName /\ file.path[1] # IPC)
        /\ files' = [files EXCEPT ![f] = file]
        /\ facts' = IF action = "opened" THEN {}
                    ELSE {Told(user, file.path, IF file.directory THEN "mkdir" ELSE "create")}
        /\ Answer(r, ok, r.tid, f, action, 0, kinds)
  BY <1>4
<1>6. asked' = asked \ {r} /\ UNCHANGED <<scenario, requests>> /\ Seen(r, ok, r.tid, f, action, 0)
  BY <1>5, AnswerSeen
<1>7. /\ UNCHANGED <<treeCache, treeMap, userName, held>>
      /\ r.name = NoName => events' = {} /\ UNCHANGED <<temp, fileState>>
      /\ r.name # NoName =>
           \E i : /\ i \in 1..Len(temp) /\ Tells(temp[i], r) /\ temp[i].id = r.id
                  /\ OpenResponse(i, r.id, r.tid, f, action)
  BY <1>1, <1>3, <1>6, OpenRead
<1>8. /\ f \in Fids /\ f \in Handles /\ Garbage \notin Fids /\ files[f] = NotOpen /\ fileState[f] = Unknown
      /\ \A q \in asked : q.cmd \in OnFiles => q.fid # f
  BY Smb2Assumption DEF Free, Naming, Handles, OnFiles, Kept, Hosts, Copied, Copies, NotOpen
<1>9. ~Leaving(r.id[2]) /\ r.cmd # "tcon" BY <1>1 DEF Leaving, Kept, Asked, Together
<1>10. /\ trees[r.tid][2] \in Shares /\ treeMap[r.tid] = trees[r.tid][2] /\ None \notin Shares
       /\ userName[r.id[2]] = users[r.id[2]]
  <2>1. r.id[2] # None BY <1>1, Smb2Assumption
  <2>2. trees[r.tid] \in Sids \X Shares BY <1>2, <2>1 DEF Kept, Hosts
  <2>3. treeMap[r.tid] = trees[r.tid][2] BY <1>2, <1>9, <2>1 DEF Kept, Named
  <2>4. userName[r.id[2]] = users[r.id[2]] BY <1>1, <1>2, <1>9 DEF Kept, Named
  <2>5. QED BY <2>2, <2>3, <2>4, Smb2Assumption
<1>11. GetUserName(r.id[2]) = user BY <1>2, <1>5, <1>10 DEF GetUserName, UserOf
<1>12. PICK path : path = <<trees[r.tid][2], r.name>> OBVIOUS
<1>13. /\ path \in Paths /\ path[1] = trees[r.tid][2] /\ path[2] = r.name
       /\ MakePath(r.tid, r.name) = path /\ (IsIpc(r.tid) <=> path[1] = IPC)
  BY <1>2, <1>10, <1>12 DEF Paths, MakePath, IsIpc
<1>14. /\ file \in OpenFiles /\ file.open /\ file.sid = r.id[2] /\ file.path = path
       /\ (file.directory <=> "directory" \in r.options) /\ (file.delete <=> "delete" \in r.options)
       /\ file.readed = 0 /\ file.written = 0
  <2>1. file = [open |-> TRUE, sid |-> r.id[2], tid |-> r.tid, directory |-> "directory" \in r.options,
                delete |-> "delete" \in r.options, path |-> path, readed |-> 0, written |-> 0]
    BY <1>5, <1>12 DEF FileOf
  <2>2. PICK d, x : d = ("directory" \in r.options) /\ x = ("delete" \in r.options) OBVIOUS
  <2>3. d \in BOOLEAN /\ x \in BOOLEAN BY <2>2
  <2>4. file = [open |-> TRUE, sid |-> r.id[2], tid |-> r.tid, directory |-> d, delete |-> x,
                path |-> path, readed |-> 0, written |-> 0]
    BY <2>1, <2>2
  <2>5. file \in OpenFiles BY <1>1, <1>2, <1>13, <2>3, <2>4 DEF OpenFiles
  <2>6. QED BY <2>2, <2>4, <2>5
<1>15. PICK s :
         /\ s \in States /\ Copies(s, file) /\ fileState' = [fileState EXCEPT ![f] = s] /\ events' = facts'
         /\ temp' = temp \/ \E i \in 1..Len(temp) : temp[i].id = r.id /\ temp' = Done(i)
  <2>1. fileState \in [Handles -> States] /\ Unknown \in States
    BY Smb2Assumption DEF Kept, Types, Unknown, States, Paths
  <2>2. /\ ~Unknown.known /\ Unknown.readed = 0 /\ Unknown.written = 0 BY DEF Unknown
  <2>3. CASE r.name = NoName
    <3>1. events' = facts' BY <1>5, <1>7, <2>3
    <3>2. fileState' = [fileState EXCEPT ![f] = Unknown] BY <1>7, <1>8, <2>1, <2>3
    <3>3. Copies(Unknown, file) BY <1>13, <1>14, <2>2, <2>3 DEF Copies
    <3>4. QED BY <1>7, <2>1, <2>3, <3>1, <3>2, <3>3
  <2>4. CASE r.name # NoName
    <3>1. PICK i : /\ i \in 1..Len(temp) /\ Tells(temp[i], r) /\ temp[i].id = r.id
                   /\ OpenResponse(i, r.id, r.tid, f, action)
      BY <1>7, <2>4
    <3>2. PICK e : e = temp[i] OBVIOUS
    <3>3. /\ e.name = r.name /\ ~e.deleteOpen /\ e \in Entries /\ e.directory \in BOOLEAN
          /\ e.delete \in BOOLEAN
      <4>1. e \in Entries BY <3>1, <3>2 DEF Kept, Types
      <4>2. QED BY <1>1, <3>1, <3>2, <4>1 DEF Tells, Entries
    <3>4. (e.directory <=> "directory" \in r.options) /\ (e.delete <=> "delete" \in r.options)
      BY <1>1, <3>1, <3>2 DEF Tells
    <3> DEFINE isipc == IsIpc(r.tid)
    <3>5. /\ fileState' = [fileState EXCEPT ![f] =
                 [@ EXCEPT !.known = TRUE, !.isipc = isipc, !.isdirectory = e.directory,
                           !.delete = e.delete, !.path = path]]
          /\ events' = CreateEvents(e, user, path, action) /\ temp' = Done(i)
      BY <1>11, <1>13, <3>1, <3>2, <3>3 DEF OpenResponse
    <3>6. isipc \in BOOLEAN /\ (isipc <=> path[1] = IPC) BY <1>13 DEF IsIpc
    <3> HIDE DEF isipc
    <3> DEFINE s == [Unknown EXCEPT !.known = TRUE, !.isipc = isipc, !.isdirectory = e.directory,
                                    !.delete = e.delete, !.path = path]
    <3>7. s \in States /\ fileState' = [fileState EXCEPT ![f] = s]
      BY <1>8, <1>13, <2>1, <3>3, <3>5, <3>6 DEF States
    <3>8. /\ s.known /\ s.isipc = isipc /\ s.isdirectory = e.directory /\ s.delete = e.delete
          /\ s.path = path /\ s.readed = 0 /\ s.written = 0
      BY <2>1, <2>2 DEF States
    <3> HIDE DEF s
    <3>9. file.directory \in BOOLEAN /\ file.delete \in BOOLEAN BY <1>14 DEF OpenFiles
    <3>10. Copies(s, file) BY <1>13, <1>14, <2>4, <3>3, <3>4, <3>6, <3>8, <3>9 DEF Copies
    <3>11. events' = facts'
      <4>1. CASE action = "created" BY <1>5, <1>14, <3>3, <3>4, <3>5, <4>1 DEF CreateEvents, Told
      <4>2. CASE action = "opened" BY <1>5, <3>3, <3>5, <4>2 DEF CreateEvents
      <4>3. QED BY <4>1, <4>2
    <3>12. QED BY <3>1, <3>5, <3>7, <3>10, <3>11
  <2>5. QED BY <2>3, <2>4
<1>16. /\ fileState' \in [Handles -> States] /\ files' \in [Fids -> OpenFiles]
       /\ fileState'[f] = s /\ files'[f] = file /\ fileState'[Garbage] = fileState[Garbage]
       /\ \A g \in Fids : g # f => fileState'[g] = fileState[g] /\ files'[g] = files[g]
  BY <1>5, <1>8, <1>14, <1>15 DEF Kept, Types, Handles
<1>17. \A x : Leaving(x)' <=> Leaving(x) BY <1>1, <1>6 DEF Leaving
<1>18. \A q \in asked \ {r} : Asks(q)'
  <2> TAKE q \in asked \ {r}
  <2>1. Asks(q) BY DEF Kept, Asked
  <2>2. q.cmd \in OnFiles => files'[q.fid] = files[q.fid] BY <1>8, <1>16, <2>1 DEF Asks
  <2>3. QED BY <1>1, <2>1, <2>2 DEF Asks, OnFiles
<1>19. Hosts'
  <2>1. \A g \in Fids : \/ files'[g] = NotOpen
                        \/ /\ files'[g].open /\ files'[g].sid \in Sids /\ users[files'[g].sid] # None
                           /\ ~Leaving(files'[g].sid) /\ files'[g].path[1] \in Shares
                           /\ files'[g].path[2] = NoName =>
                                ~files'[g].delete /\ files'[g].readed = 0 /\ files'[g].written = 0
    <3> TAKE g \in Fids
    <3>1. CASE g = f BY <1>1, <1>2, <1>9, <1>10, <1>13, <1>14, <1>16, <3>1
    <3>2. CASE g # f BY <1>16, <3>2 DEF Kept, Hosts
    <3>3. QED BY <3>1, <3>2
  <2>2. \A x : (\E q \in asked' : q.cmd = "logoff" /\ q.id[2] = x) <=> Leaving(x) BY <1>17 DEF Leaving
  <2>3. QED BY <1>1, <2>1, <2>2 DEF Kept, Hosts, Leaving
<1>20. Named' BY <1>1, <1>7, <1>17 DEF Kept, Named
<1>21. Copied' BY <1>15, <1>16 DEF Kept, Copied
<1>22. Kept'
  <2>1. /\ treeMap' \in [Trees -> Shares \cup {None}] /\ userName' \in [Sids -> Users \cup {None}]
        /\ users' \in [Sids -> Users \cup {None}]
        /\ trees' \in [Tids -> (Sids \cup {None}) \X (Shares \cup {None})]
    BY <1>1, <1>7 DEF Kept, Types
  <2>2. QED BY <1>6, <1>7, <1>9, <1>15, <1>16, <1>18, <1>19, <1>20, <1>21, <2>1, Answered
<1>23. QED BY <1>15, <1>22

--------------------------------
LEMMA InitKeeps ==
  ASSUME Init PROVE KeptInv
<1> SUFFICES ASSUME Usual PROVE Kept /\ events = facts BY DEF KeptInv, Showing
<1>1. PICK s, t, u, sh :
        /\ s = (CHOOSE x \in Sids : TRUE) /\ t = (CHOOSE x \in Tids : TRUE)
        /\ u = (CHOOSE x \in Users : x # NoName) /\ sh = (CHOOSE x \in Shares : x # IPC)
  OBVIOUS
<1>2. s \in Sids /\ t \in Tids /\ u \in Users /\ sh \in Shares BY <1>1, Smb2Assumption
<1>3. /\ scenario \in Scenarios /\ temp = <<>> /\ treeCache = <<>> /\ held = NothingHeld
      /\ fileState = [f \in Handles |-> Unknown] /\ files = [f \in Fids |-> NotOpen]
      /\ asked = {} /\ requests = 0 /\ events = {} /\ facts = {}
      /\ users = IF scenario.start = "fresh" THEN [x \in Sids |-> None]
                 ELSE [[x \in Sids |-> None] EXCEPT ![s] = u]
      /\ trees = IF scenario.start = "fresh" THEN [x \in Tids |-> <<None, None>>]
                 ELSE [[x \in Tids |-> <<None, None>>] EXCEPT ![t] = <<s, sh>>]
      /\ userName = IF scenario.start = "mounted" THEN users ELSE [x \in Sids |-> None]
      /\ treeMap = [x \in Trees |->
                      IF x \in Tids /\ scenario.start = "mounted" THEN trees[x][2] ELSE None]
      /\ odd = IF scenario.start = "joined" THEN {"joined"} ELSE {}
  BY <1>1 DEF Init
<1>4. scenario.start = "fresh" \/ scenario.start = "mounted"
  <2>1. scenario.start # "joined" BY <1>3 DEF Usual
  <2>2. QED BY <1>3, <2>1, Smb2Assumption
<1>5. /\ users \in [Sids -> Users \cup {None}]
      /\ users = IF scenario.start = "fresh" THEN [x \in Sids |-> None]
                 ELSE [x \in Sids |-> IF x = s THEN u ELSE None]
  BY <1>2, <1>3
<1>6. trees = IF scenario.start = "fresh" THEN [x \in Tids |-> <<None, None>>]
              ELSE [x \in Tids |-> IF x = t THEN <<s, sh>> ELSE <<None, None>>]
  BY <1>2, <1>3
<1>7. trees \in [Tids -> (Sids \cup {None}) \X (Shares \cup {None})]
  <2>1. <<None, None>> \in (Sids \cup {None}) \X (Shares \cup {None}) OBVIOUS
  <2>2. <<s, sh>> \in (Sids \cup {None}) \X (Shares \cup {None}) BY <1>2
  <2>3. QED BY <1>6, <2>1, <2>2
<1>8. \A x \in Tids : trees[x] = <<None, None>> \/ (trees[x] = <<s, sh>> /\ users[s] = u) BY <1>2, <1>5, <1>6
<1>9. userName = users BY <1>3, <1>4, <1>5
<1>10. treeMap \in [Trees -> Shares \cup {None}] /\ \A x \in Tids : treeMap[x] = trees[x][2]
  <2>1. \A x \in Tids : trees[x][2] \in Shares \cup {None} BY <1>7
  <2>2. CASE scenario.start = "mounted" BY <1>3, <2>1, <2>2 DEF Trees
  <2>3. CASE scenario.start = "fresh"
    <3>1. \A x \in Tids : trees[x][2] = None BY <1>6, <2>3
    <3>2. QED BY <1>3, <2>3, <3>1 DEF Trees
  <2>4. QED BY <1>4, <2>2, <2>3
<1>11. Types
  <2>1. Unknown \in States /\ NotOpen \in OpenFiles
    BY Smb2Assumption DEF Unknown, NotOpen, States, OpenFiles, Paths, Trees
  <2>2. TempLimit \in Nat /\ CacheLimit \in Nat BY Smb2Assumption
  <2>3. temp \in Seq(Entries) /\ Len(temp) <= TempLimit BY <1>3, <2>2
  <2>4. treeCache \in Seq([sid : Sids, share : Shares]) /\ Len(treeCache) <= CacheLimit BY <1>3, <2>2
  <2>5. fileState \in [Handles -> States] /\ files \in [Fids -> OpenFiles] BY <1>3, <2>1
  <2>6. QED BY <1>3, <1>5, <1>7, <1>9, <1>10, <2>3, <2>4, <2>5 DEF Types
<1>12. Ids /\ Asked /\ Remember BY <1>3 DEF Ids, Asked, Remember
<1>13. EntryIds /\ Cached BY <1>3 DEF EntryIds, Cached
<1>14. Hosts
  <2>1. u # None BY <1>2, Smb2Assumption
  <2>2. \A x \in Tids : \/ trees[x] = <<None, None>>
                        \/ trees[x] \in Sids \X Shares /\ users[trees[x][1]] # None
    BY <1>2, <1>8, <2>1
  <2>3. \A f \in Fids : files[f] = NotOpen BY <1>3
  <2>4. QED BY <2>2, <2>3 DEF Hosts
<1>15. Named BY <1>9, <1>10 DEF Named
<1>16. Copied
  <2>1. Copies(Unknown, NotOpen) BY DEF Copies, Unknown, NotOpen
  <2>2. QED BY <1>3, <2>1 DEF Copied, Handles
<1>17. QED BY <1>3, <1>11, <1>12, <1>13, <1>14, <1>15, <1>16 DEF Kept

(* What happened until now was usual, if the step after it is. *)
LEMMA AnswerUsual ==
  ASSUME Usual', NEW r, NEW ok, NEW tid, NEW fid, NEW action, NEW size, NEW kinds,
         Answer(r, ok, tid, fid, action, size, kinds)
  PROVE  Usual
  BY DEF Answer, Odd, Usual

LEMMA UsualBefore ==
  ASSUME Next, Usual' PROVE Usual
<1>1. CASE Respond
  <2>1. PICK r \in asked, ok \in BOOLEAN :
          \/ Granted(r, ok) \/ Mounted(r, ok) \/ Opened(r, ok) \/ Moved(r, ok) \/ Changed(r, ok)
          \/ ok /\ (Closed(r) \/ Unmounted(r) \/ LoggedOff(r))
    BY <1>1 DEF Respond
  <2>2. CASE Granted(r, ok) BY <2>2, AnswerUsual DEF Granted
  <2>3. CASE Mounted(r, ok)
    <3>1. CASE ok BY <2>3, <3>1, AnswerUsual DEF Mounted
    <3>2. CASE ~ok BY <2>3, <3>2, AnswerUsual DEF Mounted
    <3>3. QED BY <3>1, <3>2
  <2>4. CASE Opened(r, ok)
    <3>1. CASE ok BY <2>4, <3>1, AnswerUsual DEF Opened
    <3>2. CASE ~ok BY <2>4, <3>2, AnswerUsual DEF Opened
    <3>3. QED BY <3>1, <3>2
  <2>5. CASE Moved(r, ok) BY <2>5, AnswerUsual DEF Moved
  <2>6. CASE Changed(r, ok) BY <2>6, AnswerUsual DEF Changed
  <2>7. CASE Closed(r) BY <2>7, AnswerUsual DEF Closed
  <2>8. CASE Unmounted(r) BY <2>8, AnswerUsual DEF Unmounted
  <2>9. CASE LoggedOff(r) BY <2>9, AnswerUsual DEF LoggedOff
  <2>10. QED BY <2>1, <2>2, <2>3, <2>4, <2>5, <2>6, <2>7, <2>8, <2>9
<1>2. CASE ~Respond
  <2>1. PICK r, tells, kinds : Send(r, tells, kinds)
    BY <1>2 DEF Next, Setup, Tcon, Tdis, Create, OnFile, Rename, Dispose, Logoff
  <2>2. QED BY <2>1 DEF Send, Odd, Usual
<1>3. QED BY <1>1, <1>2

LEMMA NextKeeps ==
  ASSUME KeptInv, Next PROVE KeptInv'
<1> SUFFICES ASSUME Usual' PROVE Kept' /\ Showing' BY DEF KeptInv
<1>0. events' = facts' => Showing' BY DEF Showing
<1>1. Kept BY UsualBefore DEF KeptInv
<1>2. CASE Respond
  <2>1. PICK r \in asked, ok \in BOOLEAN :
          \/ Granted(r, ok) \/ Mounted(r, ok) \/ Opened(r, ok) \/ Moved(r, ok) \/ Changed(r, ok)
          \/ ok /\ (Closed(r) \/ Unmounted(r) \/ LoggedOff(r))
    BY <1>2 DEF Respond
  <2>2. QED
    BY <1>0, <1>1, <2>1, GrantedKeeps, MountedKeeps, OpenedKeeps, MovedKeeps, ChangedKeeps, ClosedKeeps,
       UnmountedKeeps, LoggedOffKeeps
<1>3. QED
  BY <1>0, <1>1, <1>2, SetupKeeps, TconKeeps, TdisKeeps, CreateKeeps, OnFileKeeps, RenameKeeps, DisposeKeeps,
     LogoffKeeps DEF Next

--------------------------------
(* What holds of the NFS dispatcher while calls come one at a time on a *)
(* connection, and writes are of one segment. *)

NfsFields == {"called", "xid", "proc", "param", "handle", "name", "path", "paths", "deaf"}
Shaped(s) == s = [x \in NfsFields |-> s[x]]
NfsTables ==
  /\ sessions = [c \in N!Connections |-> sessions[c]] /\ told = [c \in N!Connections |-> told[c]]
NfsTypes ==
  /\ nfsRequests \in Nat /\ NfsTables
  /\ \A c \in N!Connections : Shaped(sessions[c]) /\ sessions[c].xid \in 0..nfsRequests
  /\ \A r \in nfsAsked : r.conn \in N!Connections /\ r.xid \in 1..nfsRequests

(* The last call of a connection is the one under way that was seen. *)
Matches(s, r) ==
  /\ s.called /\ s.xid = r.xid /\ s.proc = r.proc
  /\ r.proc \in {"read", "write"} => s.handle = r.handle
LastCalls ==
  \A r \in nfsAsked : /\ r.seen => Matches(sessions[r.conn], r)
                      /\ ~r.seen => sessions[r.conn].xid # r.xid

(* The names that were told on a connection are kept. *)
KeepsNames(s, handles) == handles \subseteq DOMAIN s.paths /\ (~s.called => handles = {})
NamesKept == \A c \in N!Connections : KeepsNames(sessions[c], told[c])

Xids == \A r, q \in nfsAsked : r.xid = q.xid => r = q
NfsKept == NfsTypes /\ Xids /\ LastCalls /\ NamesKept
Alone == nfsOdd \cap {"several", "large"} = {}
NfsInv == (Alone => NfsKept) /\ N!InStep

LEMMA ShapedChange ==
  ASSUME NEW s, Shaped(s), NEW f \in NfsFields, NEW v
  PROVE  /\ Shaped([s EXCEPT ![f] = v]) /\ [s EXCEPT ![f] = v][f] = v
         /\ \A g \in NfsFields : g # f => [s EXCEPT ![f] = v][g] = s[g]
<1>1. PICK w : w = [s EXCEPT ![f] = v] OBVIOUS
<1>2. DOMAIN s = NfsFields BY DEF Shaped
<1>3. w = [x \in NfsFields |-> IF x = f THEN v ELSE s[x]] BY <1>1, <1>2
<1>4. Shaped(w) /\ w[f] = v /\ \A g \in NfsFields : g # f => w[g] = s[g] BY <1>3 DEF Shaped
<1>5. QED BY <1>1, <1>4

LEMMA BlankSession ==
  Shaped(N!Blank) /\ N!Blank.xid = 0 /\ N!Blank.called = FALSE
  BY DEF N!Blank, Shaped, NfsFields

LEMMA RecordedFacts ==
  ASSUME NEW s, Shaped(s), NEW r
  PROVE  /\ Shaped(N!Recorded(s, r)) /\ Matches(N!Recorded(s, r), r) /\ N!Recorded(s, r).paths = s.paths
<1>1. PICK a : a = [s EXCEPT !.called = TRUE] OBVIOUS
<1>2. Shaped(a) /\ a.called = TRUE /\ a.paths = s.paths BY <1>1, ShapedChange DEF NfsFields
<1>3. PICK b : b = [a EXCEPT !.xid = r.xid] OBVIOUS
<1>4. Shaped(b) /\ b.called = TRUE /\ b.paths = s.paths /\ b.xid = r.xid
  BY <1>2, <1>3, ShapedChange DEF NfsFields
<1>5. PICK call : call = [b EXCEPT !.proc = r.proc] OBVIOUS
<1>6. /\ Shaped(call) /\ call.called = TRUE /\ call.paths = s.paths /\ call.xid = r.xid /\ call.proc = r.proc
  BY <1>4, <1>5, ShapedChange DEF NfsFields
<1>7. call = [s EXCEPT !.called = TRUE, !.xid = r.xid, !.proc = r.proc] BY <1>1, <1>3, <1>5
<1> DEFINE dir == IF r.handle \in DOMAIN s.paths THEN s.paths[r.handle] ELSE <<>>
<1>8. N!Recorded(s, r) =
        CASE r.proc \in {"getport", "mount", "umount"} -> [call EXCEPT !.param = r.param]
          [] r.proc = "lookup" -> [call EXCEPT !.handle = r.handle, !.name = r.name]
          [] r.proc \in {"read", "write"} -> [call EXCEPT !.handle = r.handle]
          [] r.proc \in {"create", "remove"} ->
               [call EXCEPT !.path = (IF dir = <<>> THEN <<"?">> ELSE dir) \o <<r.name>>]
          [] OTHER -> call
  BY <1>7 DEF N!Recorded
<1> HIDE DEF dir
<1> DEFINE Good(w) == /\ Shaped(w) /\ Matches(w, r) /\ w.paths = s.paths
<1>9. CASE r.proc \in {"getport", "mount", "umount"}
  <2>1. PICK w : w = [call EXCEPT !.param = r.param] OBVIOUS
  <2>2. N!Recorded(s, r) = w BY <1>8, <1>9, <2>1
  <2>3. Good(w) BY <1>6, <1>9, <2>1, ShapedChange DEF NfsFields, Matches
  <2>4. QED BY <2>2, <2>3
<1>10. CASE r.proc = "lookup"
  <2>1. PICK v : v = [call EXCEPT !.handle = r.handle] OBVIOUS
  <2>2. Good(v) BY <1>6, <1>10, <2>1, ShapedChange DEF NfsFields, Matches
  <2>3. PICK w : w = [v EXCEPT !.name = r.name] OBVIOUS
  <2>4. Good(w) BY <1>10, <2>2, <2>3, ShapedChange DEF NfsFields, Matches
  <2>5. N!Recorded(s, r) = w BY <1>8, <1>10, <2>1, <2>3
  <2>6. QED BY <2>4, <2>5
<1>11. CASE r.proc \in {"read", "write"}
  <2>1. PICK w : w = [call EXCEPT !.handle = r.handle] OBVIOUS
  <2>2. N!Recorded(s, r) = w BY <1>8, <1>11, <2>1
  <2>3. Good(w) BY <1>6, <1>11, <2>1, ShapedChange DEF NfsFields, Matches
  <2>4. QED BY <2>2, <2>3
<1>12. CASE r.proc \in {"create", "remove"}
  <2>1. PICK path : path = (IF dir = <<>> THEN <<"?">> ELSE dir) \o <<r.name>> OBVIOUS
  <2>2. PICK w : w = [call EXCEPT !.path = path] OBVIOUS
  <2>3. N!Recorded(s, r) = w BY <1>8, <1>12, <2>1, <2>2
  <2>4. Good(w) BY <1>6, <1>12, <2>2, ShapedChange DEF NfsFields, Matches
  <2>5. QED BY <2>3, <2>4
<1>13. CASE r.proc \notin {"getport", "mount", "umount", "lookup", "read", "write", "create", "remove"}
  <2>1. N!Recorded(s, r) = call BY <1>8, <1>13
  <2>2. Good(call) BY <1>6, <1>13 DEF Matches
  <2>3. QED BY <2>1, <2>2
<1>14. QED BY <1>9, <1>10, <1>11, <1>12, <1>13

(* An answer leaves the last call and the names that are there, and may *)
(* add a name; the umount leaves nothing. *)
LEMMA SessionFacts ==
  ASSUME NEW s, Shaped(s), NEW proc, NEW reply, NEW w, w = N!Session(s, proc, reply)
  PROVE  /\ Shaped(w)
         /\ proc = "umount" => w = N!Blank
         /\ proc # "umount" => /\ w.called = s.called /\ w.xid = s.xid /\ w.proc = s.proc
                               /\ w.handle = s.handle /\ DOMAIN s.paths \subseteq DOMAIN w.paths
         /\ proc \in {"mount", "lookup"} /\ reply.ok /\ reply.accepted => reply.handle \in DOMAIN w.paths
<1>1. ASSUME NEW x, NEW y, w = [s EXCEPT !.paths = N!Put(s.paths, x, y)]
      PROVE  /\ Shaped(w) /\ w.called = s.called /\ w.xid = s.xid /\ w.proc = s.proc
             /\ w.handle = s.handle /\ DOMAIN s.paths \subseteq DOMAIN w.paths /\ x \in DOMAIN w.paths
  <2>1. PICK p : p = N!Put(s.paths, x, y) OBVIOUS
  <2>2. DOMAIN p = DOMAIN s.paths \cup {x} BY <2>1 DEF N!Put
  <2>3. w = [s EXCEPT !.paths = p] BY <1>1, <2>1
  <2>4. /\ Shaped(w) /\ w.called = s.called /\ w.xid = s.xid /\ w.proc = s.proc
        /\ w.handle = s.handle /\ w.paths = p
    BY <2>3, ShapedChange DEF NfsFields
  <2>5. QED BY <2>2, <2>4
<1>2. CASE proc = "mount" /\ reply.ok
  <2>1. w = [s EXCEPT !.paths = N!Put(s.paths, reply.handle, <<Export>>)]
    BY <1>2 DEF N!Session, Shaped, NfsFields
  <2>2. QED BY <1>1, <1>2, <2>1
<1>3. CASE proc = "umount"
  <2>1. w = N!Blank BY <1>3 DEF N!Session
  <2>2. QED BY <1>3, <2>1, BlankSession
<1>4. CASE proc = "lookup" /\ reply.accepted
  <2>1. PICK x, y : /\ w = [s EXCEPT !.paths = N!Put(s.paths, x, y)]
                    /\ reply.ok => x = reply.handle
    BY <1>4 DEF N!Session, N!LookedUp, Shaped, NfsFields
  <2>2. QED BY <1>1, <1>4, <2>1
<1>5. CASE ~(proc = "mount" /\ reply.ok) /\ proc # "umount" /\ ~(proc = "lookup" /\ reply.accepted)
  <2>1. w = s BY <1>5 DEF N!Session
  <2>2. QED BY <1>5, <2>1
<1>6. QED BY <1>2, <1>3, <1>4, <1>5

LEMMA CallFacts ==
  ASSUME NEW r, r \in N!Calls
  PROVE  /\ r.conn \in N!Connections /\ r.xid = nfsRequests + 1 /\ r.seen = FALSE
<1>1. PICK proc, param, handle, name :
        r = [conn |-> N!ConnectionOf(proc), xid |-> nfsRequests + 1, proc |-> proc, param |-> param,
             handle |-> handle, name |-> name, seen |-> FALSE]
  BY DEF N!Calls
<1>2. N!ConnectionOf(proc) \in N!Connections BY DEF N!ConnectionOf, N!MountConnection, N!Connections
<1>3. QED BY <1>1, <1>2

LEMMA CallSeen ==
  ASSUME NEW r, r \in N!Calls, NEW x, NEW q, q = [r EXCEPT !.seen = x]
  PROVE  q.conn = r.conn /\ q.xid = r.xid /\ q.proc = r.proc /\ q.handle = r.handle /\ q.seen = x
<1>1. PICK proc, param, handle, name :
        r = [conn |-> N!ConnectionOf(proc), xid |-> nfsRequests + 1, proc |-> proc, param |-> param,
             handle |-> handle, name |-> name, seen |-> FALSE]
  BY DEF N!Calls
<1>2. QED BY <1>1

(* What is left to show when only sessions change, and no name goes. *)
LEMMA OneSession ==
  ASSUME NfsTypes, NEW c \in N!Connections, NEW w, sessions' = [sessions EXCEPT ![c] = w]
  PROVE  /\ sessions' = [d \in N!Connections |-> sessions'[d]] /\ sessions'[c] = w
         /\ \A d \in N!Connections : d # c => sessions'[d] = sessions[d]
  BY DEF NfsTypes, NfsTables

(* A call that is looked at replaces the last one, which was answered. *)
LEMMA CallKeeps ==
  ASSUME NfsKept, N!Call, Alone' PROVE NfsKept'
<1> USE DEF NfsKept
<1>1. PICK r \in N!Calls : \E read, kinds :
        /\ read = (N!Watched(r.conn) /\ ~sessions[r.conn].deaf)
        /\ nfsAsked' = nfsAsked \cup {[r EXCEPT !.seen = read]}
        /\ sessions' = IF read THEN [sessions EXCEPT ![r.conn] = N!Recorded(sessions[r.conn], r)] ELSE sessions
        /\ nfsRequests' = nfsRequests + 1 /\ told' = told
        /\ kinds = (IF \E a \in nfsAsked : a.conn = r.conn THEN {"several"} ELSE {})
        /\ nfsOdd' = nfsOdd \cup kinds \cup (IF r.name = ".." THEN {"dotdot"} ELSE {})
  BY DEF N!Call
<1>2. PICK read, q :
        /\ read \in BOOLEAN /\ q = [r EXCEPT !.seen = read] /\ nfsAsked' = nfsAsked \cup {q}
        /\ sessions' = IF read THEN [sessions EXCEPT ![r.conn] = N!Recorded(sessions[r.conn], r)] ELSE sessions
  BY <1>1
<1>3. nfsRequests' = nfsRequests + 1 /\ told' = told /\ \A a \in nfsAsked : a.conn # r.conn BY <1>1 DEF Alone
<1>4. PICK c : c = r.conn OBVIOUS
<1>5. /\ q.conn = c /\ c \in N!Connections /\ q.xid = nfsRequests + 1 /\ q.proc = r.proc
      /\ q.handle = r.handle /\ q.seen = read /\ r.xid = nfsRequests + 1
  <2>1. r.conn \in N!Connections /\ r.xid = nfsRequests + 1 BY CallFacts
  <2>2. q.conn = r.conn /\ q.xid = r.xid /\ q.proc = r.proc /\ q.handle = r.handle /\ q.seen = read
    BY <1>2, CallSeen
  <2>3. QED BY <1>4, <2>1, <2>2
<1>6. PICK s, w : s = sessions[c] /\ w = IF read THEN N!Recorded(s, r) ELSE s OBVIOUS
<1>7. Shaped(s) /\ nfsRequests \in Nat /\ s.xid \in 0..nfsRequests BY <1>5, <1>6 DEF NfsTypes
<1>8. sessions' = [sessions EXCEPT ![c] = w]
  <2>1. CASE read BY <1>2, <1>4, <1>6, <2>1
  <2>2. CASE ~read BY <1>2, <1>5, <1>6, <2>2 DEF NfsTypes, NfsTables
  <2>3. QED BY <1>2, <2>1, <2>2
<1>9. /\ sessions' = [d \in N!Connections |-> sessions'[d]] /\ sessions'[c] = w
      /\ \A d \in N!Connections : d # c => sessions'[d] = sessions[d]
  BY <1>5, <1>8, OneSession
<1>10. /\ Shaped(w) /\ w.xid \in 0..(nfsRequests + 1) /\ (read => Matches(w, q)) /\ (~read => w.xid # q.xid)
       /\ KeepsNames(w, told[c])
  <2>1. KeepsNames(s, told[c]) BY <1>5, <1>6 DEF NamesKept
  <2>2. CASE read
    <3>1. w = N!Recorded(s, r) BY <1>6, <2>2
    <3>2. Shaped(w) /\ Matches(w, r) /\ w.paths = s.paths BY <1>7, <3>1, RecordedFacts
    <3>3. Matches(w, q) /\ w.called BY <1>5, <3>2 DEF Matches
    <3>4. w.xid = nfsRequests + 1 BY <1>5, <3>2 DEF Matches
    <3>5. w.xid \in 0..(nfsRequests + 1) BY <1>7, <3>4
    <3>6. KeepsNames(w, told[c]) BY <2>1, <3>2, <3>3 DEF KeepsNames
    <3>7. QED BY <2>2, <3>2, <3>3, <3>5, <3>6
  <2>3. CASE ~read BY <1>5, <1>6, <1>7, <2>1, <2>3
  <2>4. QED BY <1>2, <2>2, <2>3
<1>11. NfsTypes'
  <2>1. \A d \in N!Connections : Shaped(sessions'[d]) /\ sessions'[d].xid \in 0..nfsRequests'
    <3> TAKE d \in N!Connections
    <3>1. CASE d = c BY <1>3, <1>9, <1>10, <3>1
    <3>2. CASE d # c BY <1>3, <1>9, <3>2 DEF NfsTypes
    <3>3. QED BY <3>1, <3>2
  <2>2. \A a \in nfsAsked' : a.conn \in N!Connections /\ a.xid \in 1..nfsRequests'
    <3> TAKE a \in nfsAsked'
    <3>1. CASE a = q BY <1>3, <1>5, <1>7, <3>1
    <3>2. CASE a \in nfsAsked
      <4>1. a.conn \in N!Connections /\ a.xid \in 1..nfsRequests BY <3>2 DEF NfsTypes
      <4>2. QED BY <1>3, <1>7, <4>1
    <3>3. QED BY <1>2, <3>1, <3>2
  <2>3. NfsTables' BY <1>3, <1>9 DEF NfsTypes, NfsTables
  <2>4. nfsRequests' \in Nat BY <1>3, <1>7
  <2>5. QED BY <2>1, <2>2, <2>3, <2>4 DEF NfsTypes
<1>12. Xids'
  <2>1. \A a \in nfsAsked : a.xid # q.xid BY <1>5, <1>7 DEF NfsTypes
  <2>2. QED BY <1>2, <2>1 DEF Xids
<1>13. LastCalls'
  <2>1. \A a \in nfsAsked : sessions'[a.conn] = sessions[a.conn] BY <1>3, <1>4, <1>9 DEF NfsTypes
  <2>2. ASSUME NEW a \in nfsAsked'
        PROVE  /\ a.seen => Matches(sessions'[a.conn], a)
               /\ ~a.seen => sessions'[a.conn].xid # a.xid
    <3>1. CASE a = q BY <1>5, <1>9, <1>10, <3>1
    <3>2. CASE a \in nfsAsked BY <2>1, <3>2 DEF LastCalls
    <3>3. QED BY <1>2, <3>1, <3>2
  <2>3. QED BY <2>2 DEF LastCalls
<1>14. NamesKept' BY <1>3, <1>9, <1>10 DEF NamesKept
<1>15. QED BY <1>11, <1>12, <1>13, <1>14

LEMMA CallUnseenKeeps ==
  ASSUME NfsKept, N!CallUnseen PROVE NfsKept'
<1> USE DEF NfsKept
<1>1. PICK r \in N!Calls :
        /\ nfsAsked' = nfsAsked \cup {r} /\ nfsRequests' = nfsRequests + 1 /\ told' = told
        /\ sessions' = [sessions EXCEPT ![r.conn].deaf = FALSE]
  BY DEF N!CallUnseen
<1>2. PICK c, s, w : c = r.conn /\ s = sessions[c] /\ w = [s EXCEPT !.deaf = FALSE] OBVIOUS
<1>3. c \in N!Connections /\ r.xid = nfsRequests + 1 /\ r.seen = FALSE BY <1>2, CallFacts
<1>4. sessions' = [sessions EXCEPT ![c] = w] BY <1>1, <1>2
<1>5. /\ sessions' = [d \in N!Connections |-> sessions'[d]] /\ sessions'[c] = w
      /\ \A d \in N!Connections : d # c => sessions'[d] = sessions[d]
  BY <1>3, <1>4, OneSession
<1>6. Shaped(s) /\ nfsRequests \in Nat /\ s.xid \in 0..nfsRequests BY <1>2, <1>3 DEF NfsTypes
<1>7. /\ Shaped(w) /\ w.called = s.called /\ w.xid = s.xid /\ w.proc = s.proc
      /\ w.handle = s.handle /\ w.paths = s.paths
  BY <1>2, <1>6, ShapedChange DEF NfsFields
<1>8. \A d \in N!Connections :
        LET a == sessions[d] b == sessions'[d]
        IN /\ Shaped(b) /\ b.called = a.called /\ b.xid = a.xid /\ b.proc = a.proc
           /\ b.handle = a.handle /\ b.paths = a.paths
  <2> TAKE d \in N!Connections
  <2>1. CASE d = c BY <1>2, <1>5, <1>7, <2>1
  <2>2. CASE d # c BY <1>5, <2>2 DEF NfsTypes
  <2>3. QED BY <2>1, <2>2
<1>9. NfsTypes'
  <2>1. \A d \in N!Connections : Shaped(sessions'[d]) /\ sessions'[d].xid \in 0..nfsRequests'
    <3> TAKE d \in N!Connections
    <3>1. PICK x : x = sessions[d].xid OBVIOUS
    <3>2. x \in 0..nfsRequests /\ sessions'[d].xid = x /\ Shaped(sessions'[d]) BY <1>8, <3>1 DEF NfsTypes
    <3>3. x \in 0..nfsRequests' BY <1>1, <1>6, <3>2
    <3>4. QED BY <3>2, <3>3
  <2>2. \A a \in nfsAsked' : a.conn \in N!Connections /\ a.xid \in 1..nfsRequests'
    <3> TAKE a \in nfsAsked'
    <3>1. CASE a = r BY <1>1, <1>2, <1>3, <1>6, <3>1
    <3>2. CASE a \in nfsAsked
      <4>1. a.conn \in N!Connections /\ a.xid \in 1..nfsRequests BY <3>2 DEF NfsTypes
      <4>2. QED BY <1>1, <1>6, <4>1
    <3>3. QED BY <1>1, <3>1, <3>2
  <2>3. NfsTables' BY <1>1, <1>5 DEF NfsTypes, NfsTables
  <2>4. nfsRequests' \in Nat BY <1>1, <1>6
  <2>5. QED BY <2>1, <2>2, <2>3, <2>4 DEF NfsTypes
<1>10. Xids'
  <2>1. \A a \in nfsAsked : a.xid # r.xid BY <1>3, <1>6 DEF NfsTypes
  <2>2. QED BY <1>1, <2>1 DEF Xids
<1>11. LastCalls'
  <2>1. sessions'[c].xid # r.xid BY <1>3, <1>5, <1>6, <1>7
  <2>2. \A a \in nfsAsked : /\ a.seen => Matches(sessions'[a.conn], a)
                            /\ ~a.seen => sessions'[a.conn].xid # a.xid
    BY <1>8 DEF LastCalls, Matches, NfsTypes
  <2>3. QED BY <1>1, <1>2, <1>3, <2>1, <2>2 DEF LastCalls
<1>12. NamesKept' BY <1>1, <1>8 DEF NamesKept, KeepsNames
<1>13. QED BY <1>9, <1>10, <1>11, <1>12

(* An answer: the call it is taken for is the one it answers, when that *)
(* was seen, and none when it was not and another one was. *)
LEMMA AnswerKeeps ==
  ASSUME NfsKept, N!Answer PROVE NfsKept' /\ N!InStep'
<1> USE DEF NfsKept
<1>1. PICK r \in nfsAsked, accepted \in BOOLEAN, wanted \in BOOLEAN, proc \in N!Procedures \cup {N!None} :
        N!AnswerTo(r, accepted, wanted, proc)
  BY DEF N!Answer
<1>2. PICK ok, reply, s, path :
        /\ ok = (accepted /\ wanted /\ N!Found(r) # {}) /\ s = sessions[r.conn] /\ path = N!PathOf(r)
        /\ reply = [xid |-> r.xid, accepted |-> accepted, ok |-> ok, handle |-> N!Given(r, ok)]
  OBVIOUS
<1>3. /\ proc \in N!Answers(s, reply) /\ s = sessions[r.conn]
      /\ sessions' = [sessions EXCEPT ![r.conn] = N!Session(s, proc, reply)] /\ lines' = N!Lines(s, proc, reply)
      /\ nfsFacts' = [proc |-> r.proc, path |-> path,
                      due |-> /\ r.seen /\ accepted
                              /\ \/ r.proc \in {"create", "remove"}
                                 \/ r.proc \in {"read", "write"} /\ r.handle \in told[r.conn]]
      /\ told' = [told EXCEPT ![r.conn] =
                    IF r.proc = "umount" THEN {}
                    ELSE IF r.seen /\ ok /\ r.proc \in {"mount", "lookup"} THEN @ \cup {reply.handle} ELSE @]
      /\ nfsAsked' = nfsAsked \ {r} /\ UNCHANGED nfsRequests
  BY <1>2, <1>1 DEF N!AnswerTo
<1>4. /\ (ok => accepted) /\ reply.xid = r.xid /\ reply.accepted = accepted /\ reply.ok = ok BY <1>2
<1>5. PICK c, w, names :
        /\ c = r.conn /\ w = N!Session(s, proc, reply)
        /\ names = IF r.proc = "umount" THEN {}
                   ELSE IF r.seen /\ ok /\ r.proc \in {"mount", "lookup"} THEN told[c] \cup {reply.handle}
                   ELSE told[c]
  OBVIOUS
<1>6. /\ c \in N!Connections /\ Shaped(s) /\ s.xid \in 0..nfsRequests /\ nfsRequests \in Nat
      /\ KeepsNames(s, told[c]) /\ s = sessions[c] /\ r.xid \in 1..nfsRequests
  BY <1>3, <1>5 DEF NfsTypes, NamesKept
<1>7. /\ sessions' = [sessions EXCEPT ![c] = w] /\ told' = [told EXCEPT ![c] = names]
      /\ nfsAsked' = nfsAsked \ {r} /\ UNCHANGED nfsRequests
  BY <1>3, <1>5
<1>8. /\ sessions' = [d \in N!Connections |-> sessions'[d]] /\ sessions'[c] = w
      /\ \A d \in N!Connections : d # c => sessions'[d] = sessions[d]
  BY <1>6, <1>7, OneSession
<1>9. /\ told' = [d \in N!Connections |-> told'[d]] /\ told'[c] = names
      /\ \A d \in N!Connections : d # c => told'[d] = told[d]
  BY <1>6, <1>7 DEF NfsTypes, NfsTables
<1>10. /\ r.seen => s.called /\ s.xid = r.xid /\ s.proc = r.proc /\ proc = r.proc
       /\ r.seen /\ r.proc \in {"read", "write"} => s.handle = r.handle
       /\ ~r.seen /\ s.called => proc = None
       /\ ~s.called => told[c] = {}
  <2>1. r.seen => Matches(s, r) BY <1>5, <1>6 DEF LastCalls
  <2>2. ~r.seen => s.xid # r.xid BY <1>5, <1>6 DEF LastCalls
  <2>3. s.called => proc = IF s.xid = r.xid THEN s.proc ELSE None BY <1>3, <1>4 DEF N!Answers, N!None, None
  <2>4. QED BY <1>6, <2>1, <2>2, <2>3 DEF Matches, KeepsNames
<1>11. /\ Shaped(w)
       /\ proc = "umount" => w = N!Blank
       /\ proc # "umount" => /\ w.called = s.called /\ w.xid = s.xid /\ w.proc = s.proc
                             /\ w.handle = s.handle /\ DOMAIN s.paths \subseteq DOMAIN w.paths
       /\ proc \in {"mount", "lookup"} /\ reply.ok /\ reply.accepted => reply.handle \in DOMAIN w.paths
  BY <1>5, <1>6, SessionFacts
<1>12. w.xid \in 0..nfsRequests BY <1>6, <1>11, BlankSession
<1>13. KeepsNames(w, names)
  <2>1. CASE proc = "umount"
    <3>1. names = {} BY <1>5, <1>10, <2>1 DEF None
    <3>2. QED BY <3>1 DEF KeepsNames
  <2>2. CASE proc # "umount"
    <3>1. told[c] \subseteq DOMAIN w.paths /\ (~w.called => told[c] = {}) BY <1>6, <1>11, <2>2 DEF KeepsNames
    <3>2. CASE r.proc # "umount" /\ r.seen /\ ok /\ r.proc \in {"mount", "lookup"}
      <4>1. reply.handle \in DOMAIN w.paths /\ w.called BY <1>4, <1>10, <1>11, <2>2, <3>2
      <4>2. names = told[c] \cup {reply.handle} BY <1>5, <3>2
      <4>3. QED BY <3>1, <4>1, <4>2 DEF KeepsNames
    <3>3. CASE ~(r.proc # "umount" /\ r.seen /\ ok /\ r.proc \in {"mount", "lookup"})
      <4>1. names = {} \/ names = told[c] BY <1>5, <3>3
      <4>2. QED BY <3>1, <4>1 DEF KeepsNames
    <3>4. QED BY <3>2, <3>3
  <2>3. QED BY <2>1, <2>2
<1>14. ASSUME NEW q \in nfsAsked', q.conn = c
       PROVE  (q.seen => Matches(w, q)) /\ (~q.seen => w.xid # q.xid)
  <2>1. /\ q \in nfsAsked /\ q # r /\ q.xid # r.xid /\ q.xid \in 1..nfsRequests
        /\ (q.seen => Matches(s, q)) /\ (~q.seen => s.xid # q.xid)
    BY <1>6, <1>7, <1>14 DEF NfsTypes, Xids, LastCalls
  <2>2. q.seen => proc = None BY <1>10, <2>1 DEF Matches
  <2>3. CASE proc = "umount" BY <1>6, <1>11, <2>1, <2>2, <2>3, BlankSession DEF None
  <2>4. CASE proc # "umount" BY <1>11, <2>1, <2>4 DEF Matches
  <2>5. QED BY <2>3, <2>4
<1>15. NfsTypes'
  <2>1. \A d \in N!Connections : Shaped(sessions'[d]) /\ sessions'[d].xid \in 0..nfsRequests'
    <3> TAKE d \in N!Connections
    <3>1. CASE d = c BY <1>7, <1>8, <1>11, <1>12, <3>1
    <3>2. CASE d # c BY <1>7, <1>8, <3>2 DEF NfsTypes
    <3>3. QED BY <3>1, <3>2
  <2>2. NfsTables' BY <1>8, <1>9 DEF NfsTables
  <2>3. QED BY <1>7, <2>1, <2>2 DEF NfsTypes
<1>16. Xids' BY <1>7 DEF Xids
<1>17. LastCalls'
  <2>1. ASSUME NEW q \in nfsAsked', q.conn # c
        PROVE  sessions'[q.conn] = sessions[q.conn] /\ q \in nfsAsked
    BY <1>7, <1>8, <2>1 DEF NfsTypes
  <2>2. QED BY <1>8, <1>14, <2>1 DEF LastCalls
<1>18. NamesKept' BY <1>8, <1>9, <1>13 DEF NamesKept
<1>19. N!InStep'
  <2> SUFFICES ASSUME nfsFacts'.due PROVE \E l \in lines' : l.proc = nfsFacts'.proc BY DEF N!InStep
  <2>1. /\ nfsFacts'.proc = r.proc /\ r.seen /\ accepted
        /\ \/ r.proc \in {"create", "remove"}
           \/ r.proc \in {"read", "write"} /\ r.handle \in told[c]
    BY <1>3, <1>5
  <2>2. proc = r.proc /\ (r.proc \in {"read", "write"} => s.handle = r.handle) BY <1>10, <2>1
  <2>3. CASE r.proc \in {"create", "remove"}
    <3>1. lines' = {[proc |-> proc, path |-> s.path]} BY <1>3, <2>2, <2>3 DEF N!Lines
    <3>2. QED BY <2>1, <2>2, <3>1
  <2>4. CASE r.proc \in {"read", "write"} /\ r.handle \in told[c]
    <3>1. s.handle \in DOMAIN s.paths /\ reply.accepted BY <1>4, <1>6, <2>1, <2>2, <2>4 DEF KeepsNames
    <3>2. lines' = {[proc |-> proc, path |-> s.paths[s.handle]]} BY <1>3, <2>2, <2>4, <3>1 DEF N!Lines
    <3>3. QED BY <2>1, <2>2, <3>2
  <2>5. QED BY <2>1, <2>3, <2>4
<1>20. QED BY <1>15, <1>16, <1>17, <1>18, <1>19

(* An answer that is not looked at leaves the connections alone. *)
LEMMA AnswerUnseenKeeps ==
  ASSUME NfsKept, N!AnswerUnseen PROVE NfsKept'
<1> USE DEF NfsKept
<1>1. PICK r \in nfsAsked :
        /\ told' = IF r.proc = "umount" THEN [told EXCEPT ![r.conn] = {}] ELSE told
        /\ nfsAsked' = nfsAsked \ {r} /\ UNCHANGED <<sessions, nfsRequests>>
  BY DEF N!AnswerUnseen
<1>2. /\ told' = [c \in N!Connections |-> told'[c]]
      /\ \A c \in N!Connections : told'[c] = {} \/ told'[c] = told[c]
  BY <1>1 DEF NfsTypes, NfsTables
<1>3. NfsTypes' BY <1>1, <1>2 DEF NfsTypes, NfsTables
<1>4. Xids' /\ LastCalls' BY <1>1 DEF Xids, LastCalls
<1>5. NamesKept'
  <2> SUFFICES ASSUME NEW c \in N!Connections PROVE KeepsNames(sessions[c], told'[c]) BY <1>1 DEF NamesKept
  <2>1. KeepsNames(sessions[c], told[c]) BY DEF NamesKept
  <2>2. QED BY <1>2, <2>1 DEF KeepsNames
<1>6. QED BY <1>3, <1>4, <1>5

(* A rename comes alone, and takes the place of the last call. *)
LEMMA NfsRenameKeeps ==
  ASSUME NfsKept, N!Rename PROVE NfsKept'
<1> USE DEF NfsKept
<1>1. PICK s : s = sessions["nfs"] OBVIOUS
<1>2. "nfs" \in N!Connections BY DEF N!Connections
<1>3. /\ nfsAsked = {} /\ UNCHANGED <<nfsAsked, told>> /\ nfsRequests' = nfsRequests + 1
      /\ sessions' = IF N!Watched("nfs") /\ ~ sessions["nfs"].deaf
                     THEN [sessions EXCEPT !["nfs"].called = TRUE, !["nfs"].xid = nfsRequests + 1,
                                           !["nfs"].proc = "other"]
                     ELSE sessions
  BY DEF N!Rename
<1>4. Shaped(s) /\ nfsRequests \in Nat /\ s.xid \in 0..nfsRequests BY <1>1, <1>2 DEF NfsTypes
<1>5. CASE sessions' = sessions
  <2>1. \A c \in N!Connections : sessions[c].xid \in 0..nfsRequests'
    <3> SUFFICES ASSUME NEW c \in N!Connections PROVE sessions[c].xid \in 0..nfsRequests' OBVIOUS
    <3>1. PICK x : x = sessions[c].xid OBVIOUS
    <3>2. x \in 0..nfsRequests BY <3>1 DEF NfsTypes
    <3>3. QED BY <1>3, <1>4, <3>1, <3>2
  <2>2. NfsTypes'
    <3>1. nfsRequests' \in Nat /\ nfsAsked' = {} BY <1>3, <1>4
    <3>2. QED BY <1>3, <1>5, <2>1, <3>1 DEF NfsTypes, NfsTables
  <2>3. QED BY <1>3, <1>5, <2>2 DEF Xids, LastCalls, NamesKept
<1>6. CASE sessions' # sessions
  <2>1. PICK a : a = [s EXCEPT !.called = TRUE] OBVIOUS
  <2>2. Shaped(a) /\ a.called = TRUE /\ a.paths = s.paths BY <1>4, <2>1, ShapedChange DEF NfsFields
  <2>3. PICK b : b = [a EXCEPT !.xid = nfsRequests + 1] OBVIOUS
  <2>4. Shaped(b) /\ b.called = TRUE /\ b.xid = nfsRequests + 1 /\ b.paths = s.paths
    BY <2>2, <2>3, ShapedChange DEF NfsFields
  <2>5. PICK w : w = [b EXCEPT !.proc = "other"] OBVIOUS
  <2>6. Shaped(w) /\ w.called = TRUE /\ w.xid = nfsRequests + 1 /\ w.paths = s.paths
    BY <2>4, <2>5, ShapedChange DEF NfsFields
  <2>7. sessions' = [sessions EXCEPT !["nfs"] = w] BY <1>1, <1>3, <1>6, <2>1, <2>3, <2>5
  <2>8. /\ sessions' = [d \in N!Connections |-> sessions'[d]] /\ sessions'["nfs"] = w
        /\ \A d \in N!Connections : d # "nfs" => sessions'[d] = sessions[d]
    BY <1>2, <2>7, OneSession
  <2>9. \A c \in N!Connections : Shaped(sessions'[c]) /\ sessions'[c].xid \in 0..nfsRequests'
    <3> TAKE c \in N!Connections
    <3>1. PICK x : x = sessions'[c].xid OBVIOUS
    <3>2. CASE c = "nfs" BY <1>3, <1>4, <2>6, <2>8, <3>2
    <3>3. CASE c # "nfs"
      <4>1. Shaped(sessions'[c]) /\ x \in 0..nfsRequests BY <2>8, <3>1, <3>3 DEF NfsTypes
      <4>2. QED BY <1>3, <1>4, <3>1, <4>1
    <3>4. QED BY <3>2, <3>3
  <2>10. NfsTypes'
    <3>1. nfsRequests' \in Nat /\ nfsAsked' = {} BY <1>3, <1>4
    <3>2. QED BY <1>3, <2>8, <2>9, <3>1 DEF NfsTypes, NfsTables
  <2>11. NamesKept'
    <3> SUFFICES ASSUME NEW c \in N!Connections PROVE KeepsNames(sessions'[c], told[c]) BY <1>3 DEF NamesKept
    <3>1. KeepsNames(sessions[c], told[c]) BY DEF NamesKept
    <3>2. QED BY <1>1, <2>6, <2>8, <3>1 DEF KeepsNames
  <2>12. QED BY <1>3, <2>10, <2>11 DEF Xids, LastCalls
<1>7. QED BY <1>5, <1>6

LEMMA NfsInitKeeps ==
  ASSUME N!Init PROVE NfsInv
<1>1. /\ sessions = [c \in N!Connections |-> N!Blank] /\ nfsAsked = {} /\ nfsRequests = 0
      /\ told = [c \in N!Connections |-> {}] /\ nfsFacts = N!Nothing
  BY DEF N!Init
<1>2. Shaped(N!Blank) /\ N!Blank.xid = 0 BY BlankSession
<1>3. NfsTypes BY <1>1, <1>2 DEF NfsTypes, NfsTables
<1>4. Xids /\ LastCalls BY <1>1 DEF Xids, LastCalls
<1>5. NamesKept BY <1>1 DEF NamesKept, KeepsNames
<1>6. N!InStep BY <1>1 DEF N!InStep, N!Nothing
<1>7. QED BY <1>3, <1>4, <1>5, <1>6 DEF NfsInv, NfsKept

LEMMA OddGrows ==
  N!Next => nfsOdd \subseteq nfsOdd'
<1> SUFFICES ASSUME N!Next PROVE nfsOdd \subseteq nfsOdd' OBVIOUS
<1>1. CASE N!Answer
  <2>1. PICK r, accepted, wanted, proc : N!AnswerTo(r, accepted, wanted, proc) BY <1>1 DEF N!Answer
  <2>2. PICK s, kinds :
          nfsOdd' = nfsOdd \cup (IF s.called \/ proc = N!None THEN {} ELSE {"garbage"}) \cup kinds
    BY <2>1 DEF N!AnswerTo
  <2>3. QED BY <2>2
<1>2. CASE N!Call
  <2>1. PICK kinds, names : nfsOdd' = nfsOdd \cup kinds \cup names BY <1>2 DEF N!Call
  <2>2. QED BY <2>1
<1>3. CASE N!AnswerUnseen BY <1>3 DEF N!AnswerUnseen
<1>4. QED BY <1>1, <1>2, <1>3 DEF N!Next, N!CallUnseen, N!RestOfWrite, N!Rename

LEMMA NfsNextKeeps ==
  ASSUME NfsInv, N!Next PROVE NfsInv'
<1>1. nfsOdd \subseteq nfsOdd' BY OddGrows
<1>2. CASE ~Alone' BY <1>2 DEF NfsInv, Alone, N!InStep
<1>3. CASE Alone'
  <2>1. NfsKept BY <1>1, <1>3 DEF NfsInv, Alone
  <2>2. CASE N!Answer BY <2>1, <2>2, AnswerKeeps DEF NfsInv
  <2>3. CASE ~N!Answer
    <3>1. nfsFacts' = N!Nothing
      BY <2>3 DEF N!Next, N!Call, N!CallUnseen, N!RestOfWrite, N!AnswerUnseen, N!Rename
    <3>2. N!InStep' BY <3>1 DEF N!InStep, N!Nothing
    <3>3. ~N!RestOfWrite BY <1>3 DEF N!RestOfWrite, Alone
    <3>4. NfsKept'
      BY <1>3, <2>1, <2>3, <3>3, CallKeeps, CallUnseenKeeps, AnswerUnseenKeeps, NfsRenameKeeps DEF N!Next
    <3>5. QED BY <3>2, <3>4 DEF NfsInv
  <2>4. QED BY <2>2, <2>3
<1>4. QED BY <1>2, <1>3

--------------------------------
(* The two together. *)

--------------------------------
(* What holds of the SMB2 dispatcher whatever happens: what it keeps is *)
(* well formed, an entry of a request under way is its own, and no file *)
(* has more reads than were answered. *)

Helds == [client : BOOLEAN, server : [id : Nat \X (Sids \cup {None}), tid : Trees]]
Stored ==
  /\ temp \in Seq(Entries) /\ Len(temp) <= TempLimit
  /\ treeCache \in Seq([sid : Sids, share : Shares]) /\ Len(treeCache) <= CacheLimit
  /\ treeMap \in [Trees -> Shares \cup {None}] /\ fileState \in [Handles -> States]
  /\ userName \in [Sids -> Users \cup {None}] /\ held \in Helds
HostTypes ==
  /\ users \in [Sids -> Users \cup {None}] /\ trees \in [Tids -> (Sids \cup {None}) \X (Shares \cup {None})]
  /\ files \in [Fids -> OpenFiles]
  /\ scenario \in Scenarios /\ requests \in 0..scenario.requests /\ IsFiniteSet(asked)

Formed(r) ==
  /\ r.cmd \in Kinds \cup {"rename"}
  /\ r.cmd = "setup" => r.user \in Users
  /\ r.cmd = "tcon" => r.share \in Shares
  /\ r.cmd \in {"tdis", "create"} => r.tid \in Tids
  /\ r.cmd \in OnFiles \cup {"rename"} => r.fid \in Fids
  /\ r.cmd = "rename" => r.tid \in Trees
  /\ r.cmd \in {"create", "rename"} => r.name \in Names
  /\ r.cmd = "dispose" => r.on \in BOOLEAN
Own(e, r) ==
  /\ r.cmd = "setup" => e.user = r.user
  /\ r.cmd = "create" => /\ e.name = r.name /\ e.directory = ("directory" \in r.options)
                         /\ e.delete = ("delete" \in r.options)
  /\ r.cmd \in OnFiles \cup {"rename"} => e.fid = r.fid
  /\ r.cmd = "dispose" => e.info = "disposition" /\ e.delete
OwnEntries == \A r \in asked, i \in 1..Len(temp) : temp[i].id = r.id => Own(temp[i], r)
Given(id) == id \in (1..requests) \X Sids
OldIds ==
  /\ \A i \in 1..Len(temp) : temp[i].id = NoId \/ Given(temp[i].id)
  /\ held.server = NothingHeld.server \/ Given(held.server.id)
AllFormed == \A r \in asked : Formed(r)

(* The files the dispatcher counts for, with n requests to be answered. *)
Counts(f, n) ==
  /\ fileState[f].readed + n <= requests /\ fileState[f].written + n <= requests
  /\ ~fileState[f].known => fileState[f] = Unknown
Counted == \A f \in Handles : Counts(f, Cardinality(asked))

Memory == Stored /\ HostTypes /\ Ids /\ OldIds /\ AllFormed /\ OwnEntries /\ Counted

LEMMA Least ==
  ASSUME NEW T, T \subseteq Nat, T # {}
  PROVE  \E x \in T : \A y \in T : x <= y
<1> DEFINE R == {ss \in Nat \X Nat : ss[1] < ss[2]}
<1>1. IsWellFoundedOn(R, Nat) BY NatLessThanWellFounded DEF OpToRel
<1>2. \A x, y \in T : x \in Nat /\ y \in Nat /\ (y < x => <<y, x>> \in R) OBVIOUS
<1> HIDE DEF R
<1>3. \E x \in T : \A y \in T : ~ (<<y, x>> \in R) BY <1>1, WFMin
<1>4. \A x, y \in T : ~ (<<y, x>> \in R) => x <= y BY <1>2
<1>5. QED BY <1>3, <1>4

(* The entry that is found is one of the id, if there is one. *)
LEMMA FoundAny ==
  ASSUME temp \in Seq(Entries), NEW id
  PROVE  /\ Found(id) # 0 => Found(id) \in 1..Len(temp) /\ temp[Found(id)].id = id
         /\ (\E i \in 1..Len(temp) : temp[i].id = id) => Found(id) # 0
<1>1. DOMAIN temp = 1..Len(temp) /\ Len(temp) \in Nat OBVIOUS
<1> DEFINE T == {i \in 1..Len(temp) : temp[i].id = id}
<1>2. CASE T = {} BY <1>1, <1>2 DEF Found
<1>3. CASE T # {}
  <2>1. PICK x \in T : \A y \in T : x <= y
    <3>1. T \subseteq Nat BY <1>1
    <3>2. QED BY <1>3, <3>1, Least
  <2>2. x \in DOMAIN temp /\ temp[x].id = id /\ \A j \in 1..(x - 1) : temp[j].id # id BY <1>1, <2>1
  <2>3. Found(id) \in DOMAIN temp /\ temp[Found(id)].id = id BY <2>2 DEF Found
  <2>4. QED BY <1>1, <2>3
<1>4. QED BY <1>2, <1>3

LEMMA LateEntry ==
  ASSUME Stored, HostTypes, OldIds PROVE Found(LateId) = 0
<1>1. LateId[1] = 0 /\ LateId # NoId BY DEF LateId, NoId, None
<1>2. \A i \in 1..Len(temp) : temp[i].id # LateId BY <1>1 DEF OldIds, Given
<1>3. QED BY <1>2, FoundAny DEF Stored

(* How an answer is read: the capture misses it, it goes with a refusal *)
(* that was kept, or it is taken with the entry i, its own or none. *)
Idle == events' = {} /\ UNCHANGED <<temp, treeCache, treeMap, fileState, userName>>
Treated(a, i) ==
  \/ a.cmd = "setup" /\ SetupResponse(a, i)
  \/ a.cmd = "tcon" /\ TconResponse(a)
  \/ a.cmd = "create" /\ CreateResponse(a, i)
  \/ /\ i # 0 /\ UNCHANGED <<treeCache, treeMap, userName, held>>
     /\ \/ a.cmd = "close" /\ CloseResponse(a, i)
        \/ a.cmd \in {"read", "write"} /\ CountResponse(a, i)
        \/ a.cmd \in {"rename", "dispose"} /\ SetInfoResponse(a, i)
  \/ /\ a.cmd \in {"tdis", "logoff"} \/ (a.cmd \in OnFiles \cup {"rename"} /\ i = 0)
     /\ Idle /\ held' = held
Reads(a, i, r) ==
  /\ i = Found(a.id) /\ (i # 0 => i \in 1..Len(temp) /\ a.id = r.id /\ temp[i].id = r.id /\ Own(temp[i], r))
  /\ a.cmd \in {"setup", "tcon"} => a.id = r.id
  /\ (\E k \in 1..Len(temp) : temp[k].id = r.id) /\ a.id = r.id => i # 0
  /\ a.id \in {r.id, LateId}
Taken(a, i, r) ==
  \/ Idle /\ held' = [held EXCEPT !.server = NothingHeld.server] /\ "lost" \in odd'
  \/ held.server # NothingHeld.server /\ HeldResponse
  \/ held.server = NothingHeld.server /\ Reads(a, i, r) /\ Treated(a, i)

LEMMA AnswerTaken ==
  ASSUME Memory, NEW r \in asked, NEW ok, NEW tid, NEW fid, NEW action, NEW size, NEW kinds,
         Answer(r, ok, tid, fid, action, size, kinds)
  PROVE  /\ asked' = asked \ {r} /\ UNCHANGED <<scenario, requests>> /\ odd \cup kinds \subseteq odd'
         /\ \E a, i : /\ a.cmd = r.cmd /\ a.ok = ok /\ a.tid = tid /\ a.fid = fid
                      /\ a.action = action /\ a.size = size /\ Taken(a, i, r)
<1>1. asked' = asked \ {r} /\ UNCHANGED <<scenario, requests>> BY DEF Answer
<1>2. CASE Missed /\ held' = [held EXCEPT !.server = NothingHeld.server] /\ Odd(kinds \cup {"lost"})
  <2>1. PICK a : a = [cmd |-> r.cmd, id |-> r.id, ok |-> ok, tid |-> tid,
                      fid |-> fid, action |-> action, size |-> size]
    OBVIOUS
  <2>2. Taken(a, 0, r) BY <1>2 DEF Taken, Idle, Missed, Odd
  <2>3. QED BY <1>1, <1>2, <2>1, <2>2 DEF Odd
<1>3. ASSUME NEW late \in BOOLEAN, late => r.cmd \notin {"setup", "tcon"}, NEW a,
             a = [cmd |-> r.cmd, id |-> IF late THEN LateId ELSE r.id, ok |-> ok, tid |-> tid,
                  fid |-> fid, action |-> action, size |-> size],
             OnResponse(a), Odd(kinds \cup IF late THEN {"late"} ELSE {})
      PROVE  Taken(a, Found(a.id), r) /\ odd \cup kinds \subseteq odd'
  <2>1. PICK i : i = Found(a.id) OBVIOUS
  <2>2. r.cmd \in Kinds \cup {"rename"} /\ a.cmd = r.cmd BY <1>3 DEF Memory, AllFormed, Formed
  <2>3. CASE held.server # NothingHeld.server BY <1>3, <2>1, <2>3 DEF OnResponse, Taken, Odd
  <2>4. CASE held.server = NothingHeld.server
    <3>1. Treated(a, i) BY <1>3, <2>1, <2>2, <2>4 DEF OnResponse, Treated, Kinds, OnFiles, analyzer, Idle
    <3>2. Reads(a, i, r)
      <4>1. CASE late
        <5>1. a.id = LateId /\ i = 0 BY <1>3, <2>1, <4>1, LateEntry DEF Memory
        <5>2. r.id # LateId BY DEF Memory, Ids, LateId
        <5>3. QED BY <1>3, <2>1, <2>2, <4>1, <5>1, <5>2 DEF Reads
      <4>2. CASE ~late
        <5>1. a.id = r.id BY <1>3, <4>2
        <5>2. i # 0 => i \in 1..Len(temp) /\ temp[i].id = r.id BY <2>1, <5>1, FoundAny DEF Memory, Stored
        <5>3. (\E k \in 1..Len(temp) : temp[k].id = r.id) => i # 0 BY <2>1, <5>1, FoundAny DEF Memory, Stored
        <5>4. i # 0 => Own(temp[i], r) BY <5>2 DEF Memory, OwnEntries
        <5>5. QED BY <2>1, <5>1, <5>2, <5>3, <5>4 DEF Reads
      <4>3. QED BY <4>1, <4>2
    <3>3. QED BY <1>3, <2>1, <2>4, <3>1, <3>2 DEF Taken, Odd
  <2>5. QED BY <2>3, <2>4
<1>4. CASE ~(Missed /\ held' = [held EXCEPT !.server = NothingHeld.server] /\ Odd(kinds \cup {"lost"}))
  <2>1. PICK late \in BOOLEAN :
          /\ late => r.cmd \notin {"setup", "tcon"}
          /\ OnResponse([cmd |-> r.cmd, id |-> IF late THEN LateId ELSE r.id, ok |-> ok, tid |-> tid,
                         fid |-> fid, action |-> action, size |-> size])
          /\ Odd(kinds \cup IF late THEN {"late"} ELSE {})
    BY <1>4 DEF Answer
  <2>2. PICK a : a = [cmd |-> r.cmd, id |-> IF late THEN LateId ELSE r.id, ok |-> ok, tid |-> tid,
                      fid |-> fid, action |-> action, size |-> size]
    OBVIOUS
  <2>3. OnResponse(a) BY <2>1, <2>2
  <2>4. Taken(a, Found(a.id), r) /\ odd \cup kinds \subseteq odd' BY <1>3, <2>1, <2>2, <2>3
  <2>5. /\ a.cmd = r.cmd /\ a.ok = ok /\ a.tid = tid /\ a.fid = fid /\ a.action = action /\ a.size = size
    BY <2>2
  <2>6. QED BY <1>1, <2>4, <2>5
<1>5. QED BY <1>2, <1>4

(* What an answer leaves: an entry less, one file a little more, events of *)
(* known users and files. *)
EventTypes == [op : {"login", "loginfailed", "logout", "create", "mkdir", "remove", "rmdir",
                     "read", "write", "rename"},
               user : Users, path : Paths, to : Paths, size : 0..scenario.requests]
Grown(s, t) ==
  /\ s \in States /\ s.readed <= t.readed + 1 /\ s.written <= t.written + 1
  /\ ~s.known => s = Unknown
Left ==
  /\ temp' = temp \/ \E k \in 1..Len(temp) : temp' = Done(k)
  /\ fileState' = fileState \/ \E f \in Handles, s \in States :
                                 Grown(s, fileState[f]) /\ fileState' = [fileState EXCEPT ![f] = s]
  /\ events' \subseteq EventTypes

LEMMA StoredFacts ==
  ASSUME Memory
  PROVE  /\ requests \in Nat /\ scenario.requests \in Nat /\ requests <= scenario.requests
         /\ \A t \in Trees, n \in Names : MakePath(t, n) \in Paths
         /\ \A s \in Sids : GetUserName(s) \in Users
         /\ NoPath \in Paths /\ NoName \in Users
         /\ \A i \in 1..Len(temp) : temp[i] \in Entries
         /\ \A f \in Handles : /\ fileState[f] \in States /\ (~fileState[f].known => fileState[f] = Unknown)
                               /\ fileState[f].readed \in 0..scenario.requests
                               /\ fileState[f].written \in 0..scenario.requests
<1>0. Stored /\ HostTypes BY DEF Memory
<1>6. \A i \in 1..Len(temp) : temp[i] \in Entries
  <2>1. temp \in Seq(Entries) BY <1>0 DEF Stored
  <2>2. QED BY <2>1
<1> USE DEF Memory, Stored, HostTypes
<1>1. requests \in Nat /\ scenario.requests \in Nat /\ requests <= scenario.requests BY Smb2Assumption
<1>2. \A t \in Trees, n \in Names : MakePath(t, n) \in Paths BY DEF MakePath, Paths
<1>3. \A s \in Sids : GetUserName(s) \in Users BY Smb2Assumption DEF GetUserName
<1>4. NoPath \in Paths /\ NoName \in Users BY Smb2Assumption DEF NoPath, Paths
<1>5. \A f \in Handles : /\ fileState[f] \in States /\ (~fileState[f].known => fileState[f] = Unknown)
                         /\ fileState[f].readed \in 0..scenario.requests
                         /\ fileState[f].written \in 0..scenario.requests
  <2> TAKE f \in Handles
  <2>1. PICK n, s : n = Cardinality(asked) /\ s = fileState[f] OBVIOUS
  <2>2. n \in Nat /\ s \in States /\ Counts(f, n) BY <2>1, FS_CardinalityType DEF Counted
  <2>3. s.readed \in 0..scenario.requests /\ s.written \in 0..scenario.requests
    BY <1>1, <2>1, <2>2 DEF Counts, States
  <2>4. QED BY <2>1, <2>2, <2>3 DEF Counts
<1>7. QED BY <1>1, <1>2, <1>3, <1>4, <1>5, <1>6

(* An open. *)
LEMMA OpenLeft ==
  ASSUME Memory, NEW i \in 1..Len(temp), NEW id, Given(id), NEW t \in Trees, NEW f \in Handles, NEW action,
         OpenResponse(i, id, t, f, action)
  PROVE  Left
<1>0. PICK e, path, user, s0 :
        /\ e = temp[i] /\ path = MakePath(t, e.name) /\ user = GetUserName(id[2]) /\ s0 = fileState[f]
  OBVIOUS
<1>1. PICK s :
        /\ e = temp[i] /\ path = MakePath(t, e.name) /\ user = GetUserName(id[2]) /\ s0 = fileState[f]
        /\ s = [s0 EXCEPT !.known = TRUE, !.isipc = IsIpc(t), !.isdirectory = e.directory,
                          !.delete = e.delete, !.path = path]
  BY <1>0
<1>2. /\ fileState' = [fileState EXCEPT ![f] = s]
      /\ events' = CreateEvents(e, user, path, action) /\ temp' = Done(i)
  BY <1>1 DEF OpenResponse
<1>3. e \in Entries /\ path \in Paths /\ user \in Users /\ s0 \in States /\ NoPath \in Paths
  BY <1>1, StoredFacts DEF Given, Entries
<1>4. s = [s0 EXCEPT !.known = TRUE, !.isipc = (treeMap[t] = IPC), !.isdirectory = e.directory,
                     !.delete = e.delete, !.path = path]
  BY <1>1 DEF IsIpc
<1>5. s \in States /\ s.readed = s0.readed /\ s.written = s0.written /\ s.known
  BY <1>3, <1>4 DEF States, Entries
<1>6. Grown(s, s0) BY <1>3, <1>5 DEF Grown, States
<1>7. events' \subseteq EventTypes
  <2>1. \A op \in {"rmdir", "remove", "mkdir", "create"} : Event(op, user, path, NoPath, 0) \in EventTypes
    BY <1>3, StoredFacts DEF Event, EventTypes
  <2>2. \/ events' = {}
        \/ \E op \in {"rmdir", "remove", "mkdir", "create"} : events' = {Event(op, user, path, NoPath, 0)}
    BY <1>2 DEF CreateEvents
  <2>3. QED BY <2>1, <2>2
<1>8. QED BY <1>1, <1>2, <1>5, <1>6, <1>7 DEF Left

(* Other answers. *)
LEMMA CloseLeft ==
  ASSUME Memory, NEW i \in 1..Len(temp), NEW a, Given(a.id), temp[i].fid \in Fids, CloseResponse(a, i)
  PROVE  Left
<1>1. PICK f, s, user : f = temp[i].fid /\ s = fileState[f] /\ user = GetUserName(a.id[2]) OBVIOUS
<1>2. /\ events' = CloseEvents(s, user) /\ fileState' = [fileState EXCEPT ![f] = Unknown] /\ temp' = Done(i)
  BY <1>1 DEF CloseResponse
<1>3. /\ f \in Handles /\ s \in States /\ user \in Users /\ NoPath \in Paths
      /\ s.readed \in 0..scenario.requests /\ s.written \in 0..scenario.requests
  BY <1>1, StoredFacts DEF Given, Handles
<1>4. Unknown \in States /\ Grown(Unknown, s) BY <1>3, StoredFacts DEF Grown, States, Unknown, NoPath
<1>5. events' \subseteq EventTypes
  <2>1. \A n \in 0..scenario.requests : /\ Event("read", user, s.path, NoPath, n) \in EventTypes
                                        /\ Event("write", user, s.path, NoPath, n) \in EventTypes
    BY <1>3 DEF Event, EventTypes, States
  <2>2. \A o \in {"rmdir", "remove"} : Event(o, user, s.path, NoPath, 0) \in EventTypes
    BY <1>3, StoredFacts DEF Event, EventTypes, States
  <2>3. \A e \in CloseEvents(s, user) :
             \/ \E n \in {s.readed, s.written} : e \in {Event("read", user, s.path, NoPath, n), Event("write", user, s.path, NoPath, n)}
             \/ \E o \in {"rmdir", "remove"} : e = Event(o, user, s.path, NoPath, 0)
    BY DEF CloseEvents
  <2>4. QED BY <1>2, <1>3, <2>1, <2>2, <2>3
<1>6. QED BY <1>2, <1>3, <1>4, <1>5, <1>1 DEF Left

LEMMA CountLeft ==
  ASSUME Memory, NEW i \in 1..Len(temp), NEW a, a.size \in {0, 1}, temp[i].fid \in Fids, CountResponse(a, i)
  PROVE  Left
<1>1. PICK f, s : f = temp[i].fid /\ s = fileState[f] OBVIOUS
<1>2. f \in Handles /\ s \in States /\ (~s.known => s = Unknown) BY <1>1, StoredFacts DEF Handles
<1>3. events' = {} /\ temp' = Done(i) BY DEF CountResponse
<1>4. CASE ~s.known BY <1>1, <1>3, <1>4 DEF CountResponse, Left
<1>5. CASE s.known /\ a.cmd = "read"
  <2>1. PICK t : t = [s EXCEPT !.readed = @ + a.size] OBVIOUS
  <2>2. fileState' = [fileState EXCEPT ![f] = t] BY <1>1, <1>2, <1>5, <2>1 DEF CountResponse
  <2>3. t \in States /\ t.known /\ t.readed <= s.readed + 1 /\ t.written = s.written
    BY <1>2, <1>5, <2>1 DEF States
  <2>4. Grown(t, s) BY <1>2, <2>3 DEF Grown, States
  <2>5. QED BY <1>1, <1>2, <1>3, <2>2, <2>3, <2>4 DEF Left
<1>6. CASE s.known /\ a.cmd # "read"
  <2>1. PICK t : t = [s EXCEPT !.written = @ + a.size] OBVIOUS
  <2>2. fileState' = [fileState EXCEPT ![f] = t] BY <1>1, <1>2, <1>6, <2>1 DEF CountResponse
  <2>3. t \in States /\ t.known /\ t.written <= s.written + 1 /\ t.readed = s.readed
    BY <1>2, <1>6, <2>1 DEF States
  <2>4. Grown(t, s) BY <1>2, <2>3 DEF Grown, States
  <2>5. QED BY <1>1, <1>2, <1>3, <2>2, <2>3, <2>4 DEF Left
<1>7. QED BY <1>4, <1>5, <1>6

LEMMA SetInfoLeft ==
  ASSUME Memory, NEW i \in 1..Len(temp), NEW a, Given(a.id), temp[i].fid \in Fids, SetInfoResponse(a, i)
  PROVE  Left
<1>1. PICK e, s, user : e = temp[i] /\ s = fileState[e.fid] /\ user = GetUserName(a.id[2]) OBVIOUS
<1>2. /\ e \in Entries /\ e.fid \in Handles /\ s \in States /\ (~s.known => s = Unknown)
      /\ user \in Users /\ 0 \in 0..scenario.requests
  BY <1>1, StoredFacts DEF Handles, Given
<1>3. /\ events' = {} \/ events' = {Event("rename", user, s.path, e.path, 0)}
      /\ temp' = Done(i)
  BY <1>1 DEF SetInfoResponse
<1>4. events' \subseteq EventTypes BY <1>2, <1>3 DEF Event, EventTypes, States, Entries
<1>5. PICK t : t = [s EXCEPT !.delete = e.delete] OBVIOUS
<1>6. \/ fileState' = fileState
      \/ s.known /\ fileState' = [fileState EXCEPT ![e.fid] = t]
  BY <1>1, <1>5 DEF SetInfoResponse
<1>7. t \in States /\ (s.known => Grown(t, s)) BY <1>2, <1>5 DEF Grown, States, Entries
<1>8. QED BY <1>1, <1>2, <1>3, <1>4, <1>6, <1>7 DEF Left

(* The tree connect that is found is the newest of its session. *)
LEMMA TconAny ==
  ASSUME Stored, NEW s
  PROVE  \/ TconOf(s) = 0 /\ \A j \in 1..Len(treeCache) : treeCache[j].sid # s
         \/ /\ TconOf(s) \in 1..Len(treeCache) /\ TconOf(s) # 0 /\ treeCache[TconOf(s)].sid = s
            /\ \A k \in 1..Len(treeCache) : treeCache[k].sid = s => TconOf(s) <= k
<1>1. DOMAIN treeCache = 1..Len(treeCache) /\ Len(treeCache) \in Nat BY DEF Stored
<1> DEFINE T == {j \in 1..Len(treeCache) : treeCache[j].sid = s}
<1>2. TconOf(s) = IF T = {} THEN 0 ELSE CHOOSE j \in T : \A k \in T : j <= k BY <1>1 DEF TconOf
<1>3. CASE T = {} BY <1>2, <1>3
<1>4. CASE T # {}
  <2>1. PICK x \in T : \A y \in T : x <= y
    <3>1. T \subseteq Nat BY <1>1
    <3>2. QED BY <1>4, <3>1, Least
  <2>2. TconOf(s) \in T /\ \A y \in T : TconOf(s) <= y BY <1>2, <1>4, <2>1
  <2>3. QED BY <1>1, <2>2
<1>5. QED BY <1>3, <1>4

AnswerTypes(a) ==
  /\ a.ok \in BOOLEAN /\ a.tid \in Trees /\ a.size \in {0, 1}
  /\ a.cmd = "create" /\ a.ok => a.fid \in Fids
Remains ==
  /\ Left
  /\ treeCache' \in Seq([sid : Sids, share : Shares]) /\ Len(treeCache') <= CacheLimit
  /\ treeMap' \in [Trees -> Shares \cup {None}] /\ userName' \in [Sids -> Users \cup {None}]
  /\ held' \in Helds /\ (held'.server = NothingHeld.server \/ Given(held'.server.id))

LEMMA TconRemains ==
  ASSUME Memory, NEW a, AnswerTypes(a), TconResponse(a)
  PROVE  Remains
<1>1. PICK j : j = TconOf(a.id[2]) OBVIOUS
<1>2. CASE j = 0 BY <1>1, <1>2 DEF Memory, Stored, OldIds, Remains, Left, TconResponse
<1>3. CASE j # 0
  <2>1. j \in 1..Len(treeCache) BY <1>1, <1>3, TconAny DEF Memory
  <2>2. /\ treeMap' = [treeMap EXCEPT ![a.tid] = treeCache[j].share]
        /\ treeCache' = SubSeq(treeCache, 1, j - 1) \o SubSeq(treeCache, j + 1, Len(treeCache))
        /\ events' = {} /\ UNCHANGED <<temp, fileState, userName, held>>
    BY <1>1, <1>3 DEF TconResponse
  <2>3. treeCache \in Seq([sid : Sids, share : Shares]) /\ Len(treeCache) <= CacheLimit /\ CacheLimit \in Nat
    BY Smb2Assumption DEF Memory, Stored
  <2>4. treeCache' \in Seq([sid : Sids, share : Shares]) /\ Len(treeCache') = Len(treeCache) - 1
    BY <2>1, <2>2, <2>3, TakenOut
  <2>5. treeCache[j].share \in Shares
    <3>1. treeCache[j] \in [sid : Sids, share : Shares] BY <2>1, <2>3, ElementOfSeq
    <3>2. QED BY <3>1
  <2>6. treeMap' \in [Trees -> Shares \cup {None}] BY <2>2, <2>5 DEF Memory, Stored
  <2>7. Len(treeCache') <= CacheLimit BY <2>3, <2>4
  <2>8. QED BY <2>2, <2>4, <2>6, <2>7 DEF Memory, Stored, OldIds, Remains, Left
<1>4. QED BY <1>2, <1>3

LEMMA SetupRemains ==
  ASSUME Memory, NEW r \in asked, NEW a, NEW i, Reads(a, i, r), a.cmd = "setup", SetupResponse(a, i)
  PROVE  Remains
<1>1. UNCHANGED <<temp, treeCache, treeMap, fileState, held>> BY DEF SetupResponse
<1>2. userName' \in [Sids -> Users \cup {None}] /\ events' \subseteq EventTypes
  <2>1. CASE i = 0 BY <2>1 DEF SetupResponse, Memory, Stored
  <2>2. CASE i # 0
    <3>1. PICK u : u = temp[i].user OBVIOUS
    <3>2. u \in Users /\ a.id[2] \in Sids /\ NoPath \in Paths /\ 0 \in 0..scenario.requests
      <4>1. temp[i] \in Entries BY <2>2, StoredFacts DEF Reads
      <4>2. a.id[2] \in Sids BY DEF Reads, Memory, Ids
      <4>3. QED BY <3>1, <4>1, <4>2, StoredFacts DEF Entries
    <3>3. /\ userName' = [userName EXCEPT ![a.id[2]] = u]
          /\ \/ events' = {}
             \/ \E op \in {"login", "loginfailed"} : events' = {Event(op, u, NoPath, NoPath, 0)}
      BY <2>2, <3>1 DEF SetupResponse, SetupShown
    <3>4. userName' \in [Sids -> Users \cup {None}] BY <3>2, <3>3 DEF Memory, Stored
    <3>5. events' \subseteq EventTypes BY <3>2, <3>3 DEF EventTypes, Event
    <3>6. QED BY <3>4, <3>5
  <2>3. QED BY <2>1, <2>2
<1>3. QED BY <1>1, <1>2 DEF Remains, Left, Memory, Stored, OldIds

LEMMA TakenRemains ==
  ASSUME Memory, NEW r \in asked, NEW a, NEW i, a.cmd = r.cmd, AnswerTypes(a), Taken(a, i, r)
  PROVE  Remains
<1>1. Stored /\ OldIds /\ Ids /\ Formed(r) BY DEF Memory, AllFormed
<1>2. held.server \in [id : Nat \X (Sids \cup {None}), tid : Trees] /\ NothingHeld.server = [id |-> NoId, tid |-> NoTree]
  BY <1>1 DEF Stored, Helds, NothingHeld
<1>3. [held EXCEPT !.server = NothingHeld.server] \in Helds BY <1>1 DEF Stored, Helds, NothingHeld, NoId, Trees
<1>4. [held EXCEPT !.server = NothingHeld.server].server = NothingHeld.server BY <1>1 DEF Stored, Helds
<1>5. CASE Idle /\ held' = [held EXCEPT !.server = NothingHeld.server] /\ "lost" \in odd'
  BY <1>1, <1>3, <1>4, <1>5 DEF Idle, Remains, Left, Stored, Given
<1>6. CASE held.server # NothingHeld.server /\ HeldResponse
  <2>1. PICK k : k = Found(held.server.id) OBVIOUS
  <2>2. /\ IF k = 0 THEN events' = {} /\ UNCHANGED <<temp, fileState>>
           ELSE OpenResponse(k, held.server.id, held.server.tid, Garbage, "none")
        /\ held' = [held EXCEPT !.server = NothingHeld.server] /\ UNCHANGED <<treeCache, treeMap, userName>>
    BY <1>6, <2>1 DEF HeldResponse
  <2>3. CASE k = 0 BY <1>1, <1>3, <1>4, <2>2, <2>3 DEF Remains, Left, Stored
  <2>4. CASE k # 0
    <3>1. k \in 1..Len(temp) BY <1>1, <2>1, <2>4, FoundAny DEF Stored
    <3>2. Given(held.server.id) /\ held.server.tid \in Trees /\ Garbage \in Handles
      BY <1>1, <1>2, <1>6 DEF OldIds, Handles
    <3>3. Left BY <2>2, <2>4, <3>1, <3>2, OpenLeft
    <3>4. QED BY <1>1, <1>3, <1>4, <2>2, <3>3 DEF Remains, Stored
  <2>5. QED BY <2>3, <2>4
<1>7. CASE held.server = NothingHeld.server /\ Reads(a, i, r) /\ Treated(a, i)
  <2>1. i # 0 => i \in 1..Len(temp) /\ a.id = r.id /\ Given(a.id) /\ Own(temp[i], r)
    BY <1>1, <1>7 DEF Reads, Ids, Given
  <2>2. CASE a.cmd = "setup" /\ SetupResponse(a, i) BY <1>7, <2>2, SetupRemains
  <2>3. CASE a.cmd = "tcon" /\ TconResponse(a) BY <2>3, TconRemains
  <2>4. CASE a.cmd = "create" /\ CreateResponse(a, i)
    <3>1. CASE i = 0 BY <1>1, <2>4, <3>1 DEF CreateResponse, Remains, Left, Stored, OldIds
    <3>2. CASE i # 0 /\ ~a.ok
      <4>1. held' = [held EXCEPT !.server = [id |-> a.id, tid |-> a.tid]] /\ events' = {} /\ UNCHANGED <<temp, fileState>>
        BY <2>4, <3>2 DEF CreateResponse
      <4>2. held' \in Helds /\ Given(held'.server.id)
        <5>1. requests \in Nat BY StoredFacts
        <5>2. a.id \in Nat \X (Sids \cup {None}) /\ a.tid \in Trees BY <2>1, <3>2, <5>1 DEF Given, AnswerTypes
        <5>3. held' \in Helds /\ held'.server.id = a.id BY <1>1, <4>1, <5>2 DEF Stored, Helds
        <5>4. QED BY <2>1, <3>2, <5>3
      <4>3. QED BY <1>1, <2>4, <4>1, <4>2 DEF CreateResponse, Remains, Left, Stored
    <3>3. CASE i # 0 /\ a.ok
      <4>1. OpenResponse(i, a.id, a.tid, a.fid, a.action) /\ UNCHANGED <<treeCache, treeMap, userName, held>>
        BY <2>4, <3>3 DEF CreateResponse
      <4>2. Left BY <2>1, <2>4, <3>3, <4>1, OpenLeft DEF AnswerTypes, Handles
      <4>3. QED BY <1>1, <4>1, <4>2 DEF Remains, Stored, OldIds
    <3>4. QED BY <3>1, <3>2, <3>3 DEF AnswerTypes
  <2>5. CASE /\ i # 0 /\ UNCHANGED <<treeCache, treeMap, userName, held>>
             /\ \/ a.cmd = "close" /\ CloseResponse(a, i)
                \/ a.cmd \in {"read", "write"} /\ CountResponse(a, i)
                \/ a.cmd \in {"rename", "dispose"} /\ SetInfoResponse(a, i)
    <3>1. temp[i].fid \in Fids BY <1>1, <2>1, <2>5 DEF Own, Formed, OnFiles
    <3>2. Left BY <2>1, <2>5, <3>1, CloseLeft, CountLeft, SetInfoLeft DEF AnswerTypes
    <3>3. QED BY <1>1, <2>5, <3>2 DEF Remains, Stored, OldIds
  <2>6. CASE Idle /\ held' = held BY <1>1, <2>6 DEF Idle, Remains, Left, Stored, OldIds
  <2>7. QED BY <1>7, <2>2, <2>3, <2>4, <2>5, <2>6 DEF Treated
<1>8. QED BY <1>5, <1>6, <1>7 DEF Taken

HostsTyped ==
  /\ users \in [Sids -> Users \cup {None}] /\ trees \in [Tids -> (Sids \cup {None}) \X (Shares \cup {None})]
  /\ files \in [Fids -> OpenFiles]

LEMMA RemainsKeeps ==
  ASSUME Memory, Remains, NEW r \in asked, asked' = asked \ {r}, UNCHANGED <<scenario, requests>>, HostsTyped'
  PROVE  Memory' /\ events' \subseteq EventTypes'
<1>1. /\ Stored /\ HostTypes /\ Ids /\ OldIds /\ AllFormed /\ OwnEntries /\ Counted
      /\ Left /\ TempLimit \in Nat /\ requests \in Nat
  BY Smb2Assumption DEF Memory, Remains, HostTypes
<1>2. IsFiniteSet(asked) /\ IsFiniteSet(asked') /\ Cardinality(asked) \in Nat /\ Cardinality(asked') = Cardinality(asked) - 1
  BY <1>1, FS_RemoveElement, FS_CardinalityType DEF HostTypes
<1>3. HostTypes' /\ Ids' /\ AllFormed'
  <2>1. HostTypes' BY <1>1, <1>2 DEF HostTypes, HostsTyped
  <2>2. Ids' /\ AllFormed' BY <1>1 DEF Ids, AllFormed, Formed
  <2>3. QED BY <2>1, <2>2
<1>4. /\ temp' \in Seq(Entries) /\ Len(temp') = Len(temp)
      /\ \A i \in 1..Len(temp) : temp'[i] = temp[i] \/ temp'[i].id = NoId
  <2>1. CASE temp' = temp BY <1>1, <2>1 DEF Stored
  <2>2. CASE \E k \in 1..Len(temp) : temp' = Done(k)
    <3>1. PICK k \in 1..Len(temp) : temp' = [temp EXCEPT ![k] = Blank] BY <2>2 DEF Done
    <3>2. QED BY <1>1, <3>1, BlankEntry DEF Stored
  <2>3. QED BY <1>1, <2>1, <2>2 DEF Left
<1>5. /\ \A f \in Handles : fileState'[f] = fileState[f] \/ Grown(fileState'[f], fileState[f])
      /\ fileState' \in [Handles -> States]
  <2>1. CASE fileState' = fileState BY <1>1, <2>1 DEF Stored
  <2>2. CASE fileState' # fileState
    <3>1. PICK f \in Handles, s \in States :
             Grown(s, fileState[f]) /\ fileState' = [fileState EXCEPT ![f] = s]
      BY <1>1, <2>2 DEF Left
    <3>2. QED BY <1>1, <3>1 DEF Stored
  <2>3. QED BY <2>1, <2>2
<1>6. Stored' /\ OldIds'
  <2>1. Stored' BY <1>1, <1>4, <1>5 DEF Stored, Remains
  <2>2. OldIds' BY <1>1, <1>4 DEF OldIds, Remains, Given
  <2>3. QED BY <2>1, <2>2
<1>7. OwnEntries'
  <2>1. SUFFICES ASSUME NEW q \in asked', NEW i \in 1..Len(temp'), temp'[i].id = q.id
                 PROVE  Own(temp'[i], q)
    BY DEF OwnEntries, Own
  <2>2. q \in asked /\ q.id # NoId
    <3>1. q \in asked /\ q.id[2] \in Sids BY <1>1 DEF Ids
    <3>2. QED BY <3>1, Smb2Assumption DEF NoId
  <2>3. temp'[i] = temp[i] /\ i \in 1..Len(temp) BY <1>4, <2>1, <2>2
  <2>4. QED BY <1>1, <2>1, <2>2, <2>3 DEF OwnEntries
<1>8. Counted'
  <2>1. SUFFICES ASSUME NEW f \in Handles
                 PROVE  /\ fileState'[f].readed + Cardinality(asked') <= requests
                        /\ fileState'[f].written + Cardinality(asked') <= requests
                        /\ ~fileState'[f].known => fileState'[f] = Unknown
    BY DEF Counted, Counts
  <2>2. PICK n, s, t : n = Cardinality(asked) /\ s = fileState[f] /\ t = fileState'[f] OBVIOUS
  <2>3. /\ s \in States /\ t \in States /\ n \in Nat /\ (t = s \/ Grown(t, s))
        /\ s.readed + n <= requests /\ s.written + n <= requests /\ (~s.known => s = Unknown)
    BY <1>1, <1>2, <1>5, <2>2 DEF Stored, Counted, Counts
  <2>4. t.readed + (n - 1) <= requests /\ t.written + (n - 1) <= requests /\ (~t.known => t = Unknown)
    BY <1>1, <2>3 DEF Grown, States
  <2>5. QED BY <1>2, <2>2, <2>4
<1>9. QED BY <1>1, <1>3, <1>6, <1>7, <1>8 DEF Memory, Left, EventTypes

LEMMA AnyAnswer ==
  ASSUME Memory, NEW r \in asked, NEW ok \in BOOLEAN, NEW tid \in Trees, NEW fid, NEW action, NEW size \in {0, 1},
         NEW kinds, Answer(r, ok, tid, fid, action, size, kinds), r.cmd = "create" /\ ok => fid \in Fids, HostsTyped'
  PROVE  Memory' /\ events' \subseteq EventTypes'
<1>1. asked' = asked \ {r} /\ UNCHANGED <<scenario, requests>> BY AnswerTaken
<1>2. PICK a, i : /\ a.cmd = r.cmd /\ a.ok = ok /\ a.tid = tid /\ a.fid = fid
                  /\ a.action = action /\ a.size = size /\ Taken(a, i, r)
  BY AnswerTaken
<1>3. AnswerTypes(a) BY <1>2 DEF AnswerTypes
<1>4. Remains BY <1>2, <1>3, TakenRemains
<1>5. QED BY <1>1, <1>4, RemainsKeeps

LEMMA RespondTyped ==
  ASSUME Memory, Respond PROVE Memory' /\ events' \subseteq EventTypes'
<1>1. PICK r \in asked, ok \in BOOLEAN :
        \/ Granted(r, ok) \/ Mounted(r, ok) \/ Opened(r, ok) \/ Moved(r, ok) \/ Changed(r, ok)
        \/ ok /\ (Closed(r) \/ Unmounted(r) \/ LoggedOff(r))
  BY DEF Respond
<1>2. /\ HostsTyped /\ Formed(r) /\ r.id[2] \in Sids /\ NoTree \in Trees /\ Tids \subseteq Trees
      /\ NotOpen \in OpenFiles /\ <<None, None>> \in (Sids \cup {None}) \X (Shares \cup {None})
  BY Smb2Assumption DEF Memory, HostTypes, HostsTyped, AllFormed, Ids, Trees, NotOpen, OpenFiles, Paths
<1>3. CASE Granted(r, ok)
  <2>1. PICK kinds, why :
          Answer(r, ok, NoTree, None, why, 0, kinds) /\ r.cmd = "setup" /\ UNCHANGED <<trees, files>>
    BY <1>3 DEF Granted
  <2>2. HostsTyped' BY <1>2, <1>3, <2>1 DEF Granted, HostsTyped, Formed
  <2>3. QED BY <1>2, <2>1, <2>2, AnyAnswer
<1>4. CASE Mounted(r, ok)
  <2>1. r.cmd = "tcon" /\ UNCHANGED <<users, files>> /\ r.share \in Shares BY <1>2, <1>4 DEF Mounted, Formed
  <2>2. CASE ok
    <3>1. PICK t \in Tids :
            /\ trees' = [trees EXCEPT ![t] = <<r.id[2], r.share>>]
            /\ Answer(r, ok, t, None, "none", 0, IF treeMap[t] = None THEN {} ELSE {"remounted"})
      BY <1>4, <2>2 DEF Mounted
    <3>2. HostsTyped' BY <1>2, <2>1, <3>1 DEF HostsTyped
    <3>3. QED BY <1>2, <2>1, <3>1, <3>2, AnyAnswer
  <2>3. CASE ~ok
    <3>1. UNCHANGED trees /\ Answer(r, ok, NoTree, None, "none", 0, {}) BY <1>4, <2>3 DEF Mounted
    <3>2. HostsTyped' BY <1>2, <2>1, <3>1 DEF HostsTyped
    <3>3. QED BY <1>2, <2>1, <3>1, <3>2, AnyAnswer
  <2>4. QED BY <2>2, <2>3
<1>5. CASE Opened(r, ok)
  <2>1. r.cmd = "create" /\ UNCHANGED <<users, trees>> /\ r.tid \in Tids /\ r.name \in Names
    BY <1>2, <1>5 DEF Opened, Formed
  <2>2. CASE ok
    <3>0. PICK f \in Free : \E action, kinds :
            /\ files' = [files EXCEPT ![f] = IF r.chain = "none" THEN FileOf(r) ELSE NotOpen]
            /\ Answer(r, ok, r.tid, f, action, 0, kinds)
      BY <1>5, <2>2 DEF Opened
    <3>1. PICK action, kinds :
            /\ files' = [files EXCEPT ![f] = IF r.chain = "none" THEN FileOf(r) ELSE NotOpen]
            /\ Answer(r, ok, r.tid, f, action, 0, kinds)
      BY <3>0
    <3>2. f \in Fids BY DEF Free
    <3>3. FileOf(r) \in OpenFiles BY <1>2, <2>1 DEF HostsTyped, FileOf, OpenFiles, Paths
    <3>4. HostsTyped' BY <1>2, <2>1, <3>1, <3>2, <3>3 DEF HostsTyped
    <3>5. QED BY <1>2, <2>1, <3>1, <3>2, <3>4, AnyAnswer
  <2>3. CASE ~ok
    <3>1. UNCHANGED files /\ Answer(r, ok, r.tid, None, "none", 0, {"refused"}) BY <1>5, <2>3 DEF Opened
    <3>2. HostsTyped' BY <1>2, <2>1, <3>1 DEF HostsTyped
    <3>3. QED BY <1>2, <2>1, <2>3, <3>1, <3>2, AnyAnswer
  <2>4. QED BY <2>2, <2>3
<1>6. CASE Moved(r, ok)
  <2>1. /\ r.cmd \in {"read", "write"} /\ UNCHANGED <<users, trees>> /\ r.fid \in Fids
        /\ Answer(r, ok, NoTree, None, "none", IF ok THEN 1 ELSE 0, {})
    BY <1>2, <1>6 DEF Moved, Formed, OnFiles
  <2>2. PICK o, p, q : o = files[r.fid] /\ p = [o EXCEPT !.readed = @ + 1] /\ q = [o EXCEPT !.written = @ + 1]
    OBVIOUS
  <2>3. o \in OpenFiles /\ p \in OpenFiles /\ q \in OpenFiles BY <1>2, <2>1, <2>2 DEF HostsTyped, OpenFiles
  <2>4. files' = files \/ files' = [files EXCEPT ![r.fid] = p] \/ files' = [files EXCEPT ![r.fid] = q]
    BY <1>6, <2>2 DEF Moved
  <2>5. HostsTyped' BY <1>2, <2>1, <2>3, <2>4 DEF HostsTyped
  <2>6. QED BY <1>2, <2>1, <2>5, AnyAnswer
<1>7. CASE Changed(r, ok)
  <2>1. /\ r.cmd \in {"rename", "dispose"} /\ UNCHANGED <<users, trees>> /\ r.fid \in Fids
        /\ Answer(r, ok, NoTree, None, "none", 0, {})
    BY <1>2, <1>7 DEF Changed, Formed, OnFiles
  <2>2. PICK o, p, q, to : /\ o = files[r.fid] /\ p = [o EXCEPT !.delete = r.on] /\ to = <<o.path[1], r.name>>
                           /\ q = [o EXCEPT !.path = to]
    OBVIOUS
  <2>3. o \in OpenFiles /\ (r.cmd = "dispose" => p \in OpenFiles)
    BY <1>2, <2>1, <2>2 DEF HostsTyped, OpenFiles, Formed
  <2>4. r.cmd = "rename" => q \in OpenFiles BY <1>2, <2>2, <2>3 DEF OpenFiles, Paths, Formed
  <2>5. \/ files' = files
        \/ r.cmd = "dispose" /\ files' = [files EXCEPT ![r.fid] = p]
        \/ r.cmd = "rename" /\ files' = [files EXCEPT ![r.fid] = q]
    <3>1. CASE ~ok BY <1>7, <3>1 DEF Changed
    <3>2. CASE ok /\ r.cmd = "dispose" BY <1>7, <2>2, <3>2 DEF Changed
    <3>3. CASE ok /\ r.cmd = "rename" BY <1>7, <2>2, <3>3 DEF Changed
    <3>4. QED BY <2>1, <3>1, <3>2, <3>3
  <2>6. HostsTyped' BY <1>2, <2>1, <2>3, <2>4, <2>5 DEF HostsTyped
  <2>7. QED BY <1>2, <2>1, <2>6, AnyAnswer
<1>8. CASE ok /\ Closed(r)
  <2>1. /\ r.cmd = "close" /\ UNCHANGED <<users, trees>> /\ files' = [files EXCEPT ![r.fid] = NotOpen]
        /\ Answer(r, TRUE, NoTree, None, "none", 0, {})
    BY <1>8 DEF Closed
  <2>2. HostsTyped' BY <1>2, <2>1 DEF HostsTyped
  <2>3. QED BY <1>2, <2>1, <2>2, AnyAnswer
<1>9. CASE ok /\ Unmounted(r)
  <2>1. /\ r.cmd = "tdis" /\ UNCHANGED <<users, files>> /\ trees' = [trees EXCEPT ![r.tid] = <<None, None>>]
        /\ Answer(r, TRUE, NoTree, None, "none", 0, {})
    BY <1>9 DEF Unmounted
  <2>2. HostsTyped' BY <1>2, <2>1 DEF HostsTyped
  <2>3. QED BY <1>2, <2>1, <2>2, AnyAnswer
<1>10. CASE ok /\ LoggedOff(r)
  <2>1. /\ r.cmd = "logoff" /\ Answer(r, TRUE, NoTree, None, "none", 0, {})
        /\ users' = [users EXCEPT ![r.id[2]] = None]
        /\ trees' = [t \in Tids |-> IF trees[t][1] = r.id[2] THEN <<None, None>> ELSE trees[t]]
        /\ files' = [f \in Fids |-> IF files[f].sid = r.id[2] THEN NotOpen ELSE files[f]]
    BY <1>10 DEF LoggedOff
  <2>2. HostsTyped' BY <1>2, <2>1 DEF HostsTyped
  <2>3. QED BY <1>2, <2>1, <2>2, AnyAnswer
<1>11. QED BY <1>1, <1>3, <1>4, <1>5, <1>6, <1>7, <1>8, <1>9, <1>10

(* What the client keeps to, and what the history marks of a request. *)
Begins(r) ==
  /\ Formed(r) /\ r.id = Id(r.id[2]) /\ r.id[2] \in Sids
  /\ r.cmd = "setup" => users[r.id[2]] = None /\ \A q \in asked : q.cmd = "setup" => q.id[2] # r.id[2]
  /\ r.cmd # "setup" => r.id[2] \in LoggedIn
  /\ r.cmd \in {"create", "tdis"} => trees[r.tid][1] = r.id[2]
  /\ r.cmd = "create" => \A q \in asked : ~(q.cmd = "tdis" /\ q.tid = r.tid)
  /\ r.cmd \in {"tdis", "logoff"} => \A q \in asked : q.id[2] # r.id[2]
  /\ r.cmd \in OnFiles \cup {"rename"} => /\ files[r.fid].open /\ files[r.fid].sid = r.id[2]
                                          /\ \A q \in asked : q.cmd = "close" => q.fid # r.fid
Marks(r, kinds) ==
  /\ r.cmd = "setup" /\ ~r.token => "noToken" \in kinds
  /\ r.cmd = "tcon" /\ (\/ \E q \in asked : q.cmd = "tcon" /\ q.id[2] = r.id[2]
                        \/ Len(treeCache) = CacheLimit) => "trees" \in kinds
  /\ r.cmd = "create" => /\ r.chain # "none" => "chain" \in kinds
                         /\ DeletesOnOpen(r) => "deleteOpen" \in kinds
  /\ r.cmd = "rename" => "rename" \in kinds
  /\ r.cmd = "dispose" /\ ~r.on => "undelete" \in kinds
  /\ r.cmd = "logoff" /\ asked # {} => "logoff" \in kinds
Requests == Setup \/ Tcon \/ Tdis \/ Create \/ OnFile \/ Rename \/ Dispose \/ Logoff
Says(r, tell) ==
  tell = IF r.cmd = "logoff" /\ users[r.id[2]] # NoName
         THEN {Event("logout", users[r.id[2]], NoPath, NoPath, 0)} ELSE {}

LEMMA RequestBegins ==
  ASSUME Memory, Requests
  PROVE  \E r, tell, kinds : Send(r, tell, kinds) /\ Begins(r) /\ Marks(r, kinds) /\ Says(r, tell)
<1>1. scenario \in Scenarios /\ HostsTyped BY DEF Memory, HostTypes, HostsTyped
<1>2. CASE Setup
  <2>1. PICK s \in Sids, u \in scenario.users, token \in scenario.tokens : \E r, kinds :
        /\ users[s] = None /\ \A q \in asked : q.cmd = "setup" => q.id[2] # s
        /\ r = [cmd |-> "setup", id |-> Id(s), user |-> u, token |-> token]
        /\ kinds = IF token THEN {} ELSE {"noToken"}
        /\ Send(r, {}, kinds)
    BY <1>2 DEF Setup
  <2>2. PICK r, kinds :
        /\ users[s] = None /\ \A q \in asked : q.cmd = "setup" => q.id[2] # s
        /\ r = [cmd |-> "setup", id |-> Id(s), user |-> u, token |-> token]
        /\ kinds = IF token THEN {} ELSE {"noToken"}
        /\ Send(r, {}, kinds)
    BY <2>1
  <2>3. r.cmd = "setup" /\ r.id = Id(s) /\ r.id[2] = s /\ r.user = u /\ r.token = token /\ u \in Users
    BY <1>1, <2>2, Smb2Assumption DEF Id
  <2>4. Begins(r) BY <2>2, <2>3 DEF Begins, Formed, Kinds, OnFiles
  <2>5. Marks(r, kinds) /\ Says(r, {}) BY <2>2, <2>3 DEF Marks, Says
  <2>6. QED BY <2>2, <2>4, <2>5
<1>3. CASE Tcon
  <2> DEFINE several(s) == (\E q \in asked : q.cmd = "tcon" /\ q.id[2] = s) \/ Len(treeCache) = CacheLimit
  <2>1. PICK s \in LoggedIn, share \in Shares : \E r, kinds :
        /\ r = [cmd |-> "tcon", id |-> Id(s), share |-> share]
        /\ kinds = IF several(s) THEN {"trees"} ELSE {}
        /\ Send(r, {}, kinds)
    BY <1>3 DEF Tcon
  <2>2. PICK r, kinds :
        /\ r = [cmd |-> "tcon", id |-> Id(s), share |-> share]
        /\ kinds = IF several(s) THEN {"trees"} ELSE {}
        /\ Send(r, {}, kinds)
    BY <2>1
  <2>3. r.cmd = "tcon" /\ r.id = Id(s) /\ r.id[2] = s /\ r.share = share /\ s \in Sids BY <2>2 DEF Id, LoggedIn
  <2>4. Begins(r) BY <2>2, <2>3 DEF Begins, Formed, Kinds, OnFiles
  <2>5. Marks(r, kinds) /\ Says(r, {}) BY <2>2, <2>3 DEF Marks, Says
  <2>6. QED BY <2>2, <2>4, <2>5
<1>4. CASE Tdis
  <2>1. PICK t \in Connected : \E s, r :
        /\ \A q \in asked : q.id[2] # trees[t][1]
        /\ s = trees[t][1] /\ r = [cmd |-> "tdis", id |-> Id(s), tid |-> t] /\ Send(r, {}, {})
    BY <1>4 DEF Tdis
  <2>2. PICK s, r :
        /\ \A q \in asked : q.id[2] # trees[t][1]
        /\ s = trees[t][1] /\ r = [cmd |-> "tdis", id |-> Id(s), tid |-> t] /\ Send(r, {}, {})
    BY <2>1
  <2>3. r.cmd = "tdis" /\ r.id = Id(s) /\ r.id[2] = s /\ r.tid = t /\ s \in LoggedIn /\ s \in Sids /\ t \in Tids
    BY <2>2 DEF Id, LoggedIn, Connected
  <2>4. Begins(r) BY <2>2, <2>3 DEF Begins, Formed, Kinds, OnFiles
  <2>5. Marks(r, {}) /\ Says(r, {}) BY <2>2, <2>3 DEF Marks, Says
  <2>6. QED BY <2>2, <2>4, <2>5
<1>5. CASE Create
  <2>1. PICK t \in Connected, n \in scenario.names, o \in scenario.opens, to \in scenario.to : \E s, r, kinds :
        /\ s = trees[t][1]
        /\ r = [cmd |-> "create", id |-> Id(s), tid |-> t, name |-> n, to |-> to,
                options |-> o.options, access |-> o.access, chain |-> o.chain]
        /\ kinds = (IF o.chain = "none" THEN {} ELSE {"chain"})
                   \cup (IF Entry(r).deleteOpen THEN {"deleteOpen"} ELSE {})
        /\ Send(r, {}, kinds)
    BY <1>5 DEF Create
  <2>2. PICK s, r, kinds :
        /\ s = trees[t][1]
        /\ r = [cmd |-> "create", id |-> Id(s), tid |-> t, name |-> n, to |-> to,
                options |-> o.options, access |-> o.access, chain |-> o.chain]
        /\ kinds = (IF o.chain = "none" THEN {} ELSE {"chain"})
                   \cup (IF Entry(r).deleteOpen THEN {"deleteOpen"} ELSE {})
        /\ Send(r, {}, kinds)
    BY <2>1
  <2>3. /\ r.cmd = "create" /\ r.id = Id(s) /\ r.id[2] = s /\ r.tid = t /\ r.name = n /\ r.chain = o.chain
        /\ s \in LoggedIn /\ s \in Sids /\ t \in Tids /\ n \in Names
        /\ \A q \in asked : ~(q.cmd = "tdis" /\ q.tid = t)
    BY <1>1, <2>2, Smb2Assumption DEF Id, LoggedIn, Connected
  <2>4. Begins(r) BY <2>2, <2>3 DEF Begins, Formed, Kinds, OnFiles
  <2>5. DeletesOnOpen(r) => Entry(r).deleteOpen
    <3>1. PICK e : e = [Blank EXCEPT !.id = r.id] OBVIOUS
    <3>2. Entry(r) = [e EXCEPT !.name = r.name, !.directory = "directory" \in r.options,
                     !.delete = "delete" \in r.options, !.deleteOpen = DeletesOnOpen(r)]
      BY <2>3, <3>1 DEF Entry, DeletesOnOpen
    <3>3. Entry(r).deleteOpen = DeletesOnOpen(r) BY <3>1, <3>2, BlankEntry DEF Entries
    <3>4. QED BY <3>3
  <2>6. Marks(r, kinds) /\ Says(r, {}) BY <2>2, <2>3, <2>5 DEF Marks, Says
  <2>7. QED BY <2>2, <2>4, <2>6
<1>6. CASE OnFile
  <2>1. PICK f \in Usable, cmd \in {"close", "read", "write"} : \E s, r :
        s = files[f].sid /\ r = [cmd |-> cmd, id |-> Id(s), fid |-> f] /\ Send(r, {}, {})
    BY <1>6 DEF OnFile
  <2>2. PICK s, r : s = files[f].sid /\ r = [cmd |-> cmd, id |-> Id(s), fid |-> f] /\ Send(r, {}, {}) BY <2>1
  <2>3. /\ r.cmd = cmd /\ r.id = Id(s) /\ r.id[2] = s /\ r.fid = f
        /\ s \in LoggedIn /\ s \in Sids /\ f \in Fids /\ files[f].open
        /\ \A q \in asked : q.cmd = "close" => q.fid # f
    BY <2>2 DEF Id, LoggedIn, Usable
  <2>4. Begins(r) BY <2>2, <2>3 DEF Begins, Formed, Kinds, OnFiles
  <2>5. Marks(r, {}) /\ Says(r, {}) BY <2>2, <2>3 DEF Marks, Says
  <2>6. QED BY <2>2, <2>4, <2>5
<1>7. CASE Rename
  <2>1. PICK f \in Usable, to \in scenario.to : \E s, r :
        /\ s = files[f].sid
        /\ r = [cmd |-> "rename", id |-> Id(s), fid |-> f, tid |-> files[f].tid, name |-> to]
        /\ Send(r, {}, {"rename"})
    BY <1>7 DEF Rename
  <2>2. PICK s, r :
        /\ s = files[f].sid
        /\ r = [cmd |-> "rename", id |-> Id(s), fid |-> f, tid |-> files[f].tid, name |-> to]
        /\ Send(r, {}, {"rename"})
    BY <2>1
  <2>3. /\ r.cmd = "rename" /\ r.id = Id(s) /\ r.id[2] = s /\ r.fid = f /\ r.tid = files[f].tid /\ r.name = to
        /\ s \in LoggedIn /\ s \in Sids /\ f \in Fids /\ files[f].open /\ to \in Names
        /\ \A q \in asked : q.cmd = "close" => q.fid # f
    BY <1>1, <2>2, Smb2Assumption DEF Id, LoggedIn, Usable
  <2>4. r.tid \in Trees BY <1>1, <2>3 DEF HostsTyped, OpenFiles
  <2>5. Begins(r) BY <2>2, <2>3, <2>4 DEF Begins, Formed, Kinds, OnFiles
  <2>6. Marks(r, {"rename"}) /\ Says(r, {}) BY <2>2, <2>3 DEF Marks, Says
  <2>7. QED BY <2>2, <2>5, <2>6
<1>8. CASE Dispose
  <2>1. PICK f \in Usable, on \in BOOLEAN : \E s, r, kinds :
        /\ s = files[f].sid /\ r = [cmd |-> "dispose", id |-> Id(s), fid |-> f, on |-> on]
        /\ kinds = (IF on THEN {} ELSE {"undelete"}) /\ Send(r, {}, kinds)
    BY <1>8 DEF Dispose
  <2>2. PICK s, r, kinds :
        /\ s = files[f].sid /\ r = [cmd |-> "dispose", id |-> Id(s), fid |-> f, on |-> on]
        /\ kinds = (IF on THEN {} ELSE {"undelete"}) /\ Send(r, {}, kinds)
    BY <2>1
  <2>3. /\ r.cmd = "dispose" /\ r.id = Id(s) /\ r.id[2] = s /\ r.fid = f /\ r.on = on
        /\ s \in LoggedIn /\ s \in Sids /\ f \in Fids /\ files[f].open
        /\ \A q \in asked : q.cmd = "close" => q.fid # f
    BY <2>2 DEF Id, LoggedIn, Usable
  <2>4. Begins(r) BY <2>2, <2>3 DEF Begins, Formed, Kinds, OnFiles
  <2>5. Marks(r, kinds) /\ Says(r, {}) BY <2>2, <2>3 DEF Marks, Says
  <2>6. QED BY <2>2, <2>4, <2>5
<1>9. CASE Logoff
  <2>1. PICK s \in LoggedIn : \E r, tell, kinds :
        /\ \A q \in asked : q.id[2] # s
        /\ r = [cmd |-> "logoff", id |-> Id(s)]
        /\ tell = IF users[s] = NoName THEN {} ELSE {Event("logout", users[s], NoPath, NoPath, 0)}
        /\ kinds = (IF \E f \in Fids : files[f].sid = s THEN {"logoff"} ELSE {})
                   \cup (IF asked # {} THEN {"logoff"} ELSE {})
        /\ Send(r, tell, kinds)
    BY <1>9 DEF Logoff
  <2>2. PICK r, tell, kinds :
        /\ \A q \in asked : q.id[2] # s
        /\ r = [cmd |-> "logoff", id |-> Id(s)]
        /\ tell = IF users[s] = NoName THEN {} ELSE {Event("logout", users[s], NoPath, NoPath, 0)}
        /\ kinds = (IF \E f \in Fids : files[f].sid = s THEN {"logoff"} ELSE {})
                   \cup (IF asked # {} THEN {"logoff"} ELSE {})
        /\ Send(r, tell, kinds)
    BY <2>1
  <2>3. r.cmd = "logoff" /\ r.id = Id(s) /\ r.id[2] = s /\ s \in Sids BY <2>2 DEF Id, LoggedIn
  <2>4. Begins(r) BY <2>2, <2>3 DEF Begins, Formed, Kinds, OnFiles
  <2>5. Marks(r, kinds) /\ Says(r, tell) BY <2>2, <2>3 DEF Marks, Says
  <2>6. QED BY <2>2, <2>4, <2>5
<1>10. QED BY <1>2, <1>3, <1>4, <1>5, <1>6, <1>7, <1>8, <1>9 DEF Requests

LEMMA EntryAny ==
  ASSUME Memory, NEW r, Formed(r), NEW n \in Nat, NEW z \in Sids, r.id = <<n, z>>
  PROVE  /\ Entry(r) \in Entries /\ Entry(r).id = r.id /\ Own(Entry(r), r)
         /\ Entry(r).deleteOpen => r.cmd = "create" /\ DeletesOnOpen(r)
         /\ Entry(r).info = "rename" => r.cmd = "rename"
<1> DEFINE e == [Blank EXCEPT !.id = r.id]
<1>1. e \in Entries /\ e.id = r.id /\ e.deleteOpen = FALSE /\ e.info = None /\ None # "rename"
  <2>1. Blank \in Entries /\ Blank.deleteOpen = FALSE /\ Blank.info = None BY BlankEntry DEF Blank
  <2>2. None # "rename" BY DEF None
  <2>3. QED BY <2>1, <2>2 DEF Entries
<1>2. CASE r.cmd = "setup"
  <2>1. Entry(r) = [e EXCEPT !.user = r.user] /\ r.user \in Users BY <1>2 DEF Entry, Formed
  <2> HIDE DEF e
  <2>2. QED BY <1>1, <1>2, <2>1 DEF Entries, Own, OnFiles
<1>3. CASE r.cmd = "create"
  <2>1. Entry(r) = [e EXCEPT !.name = r.name, !.directory = "directory" \in r.options,
                     !.delete = "delete" \in r.options, !.deleteOpen = DeletesOnOpen(r)]
    BY <1>3 DEF Entry, DeletesOnOpen
  <2>2. r.name \in Names BY <1>3 DEF Formed
  <2>3. DeletesOnOpen(r) \in BOOLEAN /\ ("directory" \in r.options) \in BOOLEAN
        /\ ("delete" \in r.options) \in BOOLEAN
    BY DEF DeletesOnOpen
  <2> HIDE DEF e
  <2>4. QED BY <1>1, <1>3, <2>1, <2>2, <2>3 DEF Entries, Own, OnFiles
<1>4. CASE r.cmd \in {"close", "read", "write"}
  <2>1. Entry(r) = [e EXCEPT !.fid = r.fid] /\ r.fid \in Fids BY <1>4 DEF Entry, Formed, OnFiles
  <2> HIDE DEF e
  <2>2. QED BY <1>1, <1>4, <2>1 DEF Entries, Own, OnFiles
<1>5. CASE r.cmd = "dispose"
  <2>1. Entry(r) = [e EXCEPT !.fid = r.fid, !.info = "disposition", !.delete = TRUE] /\ r.fid \in Fids
    BY <1>5 DEF Entry, Formed, OnFiles
  <2> HIDE DEF e
  <2>2. QED BY <1>1, <1>5, <2>1 DEF Entries, Own, OnFiles
<1>6. CASE r.cmd = "rename"
  <2>1. PICK to : to = MakePath(r.tid, r.name) OBVIOUS
  <2>2. /\ Entry(r) = [e EXCEPT !.fid = r.fid, !.info = "rename", !.path = to] /\ r.fid \in Fids /\ to \in Paths
    BY <1>6, <2>1, StoredFacts DEF Entry, Formed
  <2> HIDE DEF e
  <2>3. QED BY <1>1, <1>6, <2>2 DEF Entries, Own, OnFiles
<1>7. CASE r.cmd \in {"tcon", "tdis", "logoff"}
  <2>1. Entry(r) = e BY <1>7 DEF Entry
  <2> HIDE DEF e
  <2>2. QED BY <1>1, <1>7, <2>1 DEF Entries, Own, OnFiles
<1>8. QED BY <1>2, <1>3, <1>4, <1>5, <1>6, <1>7 DEF Formed, Kinds, OnFiles

(* How a request is read. *)
Noted(r) ==
  \/ Idle /\ held' = held /\ held.client
  \/ Idle /\ held' = [held EXCEPT !.client = FALSE] /\ "lost" \in odd'
  \/ ~held.client /\ r.cmd = "logoff" /\ LogoffRequest(r)
  \/ ~held.client /\ r.cmd = "create" /\ r.chain = "rename" /\ ChainedRename(r)
  \/ /\ ~held.client /\ r.cmd # "logoff" /\ ~(r.cmd = "create" /\ r.chain = "rename") /\ OtherRequest(r)
     /\ Remembered(r) /\ Len(temp) = TempLimit /\ (\E q \in asked : q.id = temp[TempLimit].id) =>
          "many" \in odd'

LEMMA SendTaken ==
  ASSUME Memory, NEW r, NEW tell, NEW kinds, Send(r, tell, kinds)
  PROVE  /\ asked' = asked \cup {r} /\ requests' = requests + 1 /\ requests < scenario.requests
         /\ facts' = tell /\ odd \cup kinds \cup Mistaken(r) \subseteq odd'
         /\ UNCHANGED <<scenario, users, trees, files>> /\ Noted(r)
<1>1. /\ asked' = asked \cup {r} /\ requests' = requests + 1 /\ requests < scenario.requests
      /\ facts' = tell /\ UNCHANGED <<scenario, users, trees, files>>
  BY DEF Send
<1> DEFINE many == Remembered(r) /\ Len(temp) = TempLimit /\ \E q \in asked : q.id = temp[TempLimit].id
<1>2. CASE Missed /\ held' = [held EXCEPT !.client = FALSE] /\ Odd(kinds \cup Mistaken(r) \cup {"lost"})
  <2>1. odd \cup kinds \cup Mistaken(r) \subseteq odd' /\ "lost" \in odd' /\ Idle BY <1>2 DEF Odd, Missed, Idle
  <2>2. QED BY <1>1, <1>2, <2>1 DEF Noted
<1>3. CASE OnRequest(r) /\ Odd(kinds \cup Mistaken(r) \cup IF many THEN {"many"} ELSE {})
  <2>1. odd \cup kinds \cup Mistaken(r) \subseteq odd' /\ (many => "many" \in odd') BY <1>3 DEF Odd
  <2> HIDE DEF many
  <2>2. CASE held.client BY <1>1, <1>3, <2>1, <2>2 DEF OnRequest, Noted, Idle, analyzer
  <2>3. CASE ~held.client /\ r.cmd = "logoff" BY <1>1, <1>3, <2>1, <2>3 DEF OnRequest, Noted
  <2>4. CASE ~held.client /\ r.cmd = "create" /\ r.chain = "rename"
    BY <1>1, <1>3, <2>1, <2>4 DEF OnRequest, Noted
  <2>5. CASE ~held.client /\ r.cmd # "logoff" /\ ~(r.cmd = "create" /\ r.chain = "rename")
    BY <1>1, <1>3, <2>1, <2>5 DEF OnRequest, Noted, many
  <2>6. QED BY <2>2, <2>3, <2>4, <2>5
<1>4. QED BY <1>2, <1>3 DEF Send

LEMMA ForgetTyped ==
  ASSUME Forget
  PROVE  /\ Stored' /\ temp' = <<>> /\ held'.server = NothingHeld.server
         /\ fileState' = [f \in Handles |-> Unknown]
<1>1. /\ temp' = <<>> /\ treeCache' = <<>> /\ treeMap' = [t \in Trees |-> None]
      /\ fileState' = [f \in Handles |-> Unknown] /\ userName' = [s \in Sids |-> None] /\ held' = NothingHeld
  BY DEF Forget
<1>2. temp' \in Seq(Entries) /\ Len(temp') <= TempLimit BY <1>1, Smb2Assumption
<1>3. treeCache' \in Seq([sid : Sids, share : Shares]) /\ Len(treeCache') <= CacheLimit BY <1>1, Smb2Assumption
<1>4. Unknown \in States BY Smb2Assumption DEF Unknown, States, Paths
<1>5. held' \in Helds BY <1>1 DEF NothingHeld, Helds, NoId, Trees
<1>6. QED BY <1>1, <1>2, <1>3, <1>4, <1>5 DEF Stored

Noticed(r) ==
  /\ Stored' /\ events' \subseteq EventTypes /\ held'.server \in {held.server, NothingHeld.server}
  /\ \A i \in 1..Len(temp') : temp'[i] = Entry(r) \/ \E j \in 1..Len(temp) : temp'[i] = temp[j]
  /\ fileState' = fileState \/ fileState' = [f \in Handles |-> Unknown]

LEMMA NotedTyped ==
  ASSUME Memory, NEW r, Begins(r), Noted(r)
  PROVE  Noticed(r)
<1>1. Stored /\ Formed(r) /\ r.id = <<requests + 1, r.id[2]>> /\ r.id[2] \in Sids /\ requests + 1 \in Nat
  BY StoredFacts DEF Memory, Begins, Id
<1>2. CASE Idle /\ (held' = held \/ held' = [held EXCEPT !.client = FALSE])
  BY <1>1, <1>2 DEF Idle, Noticed, Stored, Helds
<1>3. CASE r.cmd = "logoff" /\ LogoffRequest(r)
  <2>1. PICK left, user : left = [userName EXCEPT ![r.id[2]] = None] /\ user = GetUserName(r.id[2]) OBVIOUS
  <2>2. /\ events' = IF user = NoName THEN {} ELSE {Event("logout", user, NoPath, NoPath, 0)}
        /\ \/ Forget
           \/ userName' = left /\ UNCHANGED <<temp, treeCache, treeMap, fileState, held>>
    BY <1>3, <2>1 DEF LogoffRequest
  <2>3. events' \subseteq EventTypes
    <3>1. user \in Users /\ NoPath \in Paths /\ 0 \in 0..scenario.requests BY <1>1, <2>1, StoredFacts
    <3>2. QED BY <2>2, <3>1 DEF Event, EventTypes
  <2>4. CASE Forget BY <2>3, <2>4, ForgetTyped DEF Noticed
  <2>5. CASE userName' = left /\ UNCHANGED <<temp, treeCache, treeMap, fileState, held>>
    <3>1. left \in [Sids -> Users \cup {None}] BY <1>1, <2>1 DEF Stored
    <3>2. QED BY <1>1, <2>3, <2>5, <3>1 DEF Noticed, Stored
  <2>6. QED BY <2>2, <2>4, <2>5
<1>4. CASE r.cmd = "create" /\ ChainedRename(r)
  <2>1. PICK read \in Names \ {NoName} :
          events' = {Event("rename", GetUserName(r.id[2]), MakePath(r.tid, r.name), MakePath(r.tid, read), 0)}
    BY <1>4 DEF ChainedRename
  <2>2. r.tid \in Trees /\ r.name \in Names BY <1>1, <1>4 DEF Formed, Trees
  <2>3. PICK u, p, q : u = GetUserName(r.id[2]) /\ p = MakePath(r.tid, r.name) /\ q = MakePath(r.tid, read)
    OBVIOUS
  <2>4. u \in Users /\ p \in Paths /\ q \in Paths /\ 0 \in 0..scenario.requests BY <1>1, <2>2, <2>3, StoredFacts
  <2>5. events' \subseteq EventTypes BY <2>1, <2>3, <2>4 DEF Event, EventTypes
  <2>6. QED BY <1>1, <1>4, <2>5 DEF ChainedRename, analyzer, Noticed, Stored
<1>5. CASE OtherRequest(r)
  <2>1. /\ events' = {} /\ UNCHANGED <<treeMap, fileState, userName>>
        /\ held' = [held EXCEPT !.client = r.cmd = "setup" /\ ~r.token]
    BY <1>5 DEF OtherRequest
  <2>2. held' \in Helds /\ held'.server = held.server BY <1>1, <2>1 DEF Stored, Helds
  <2>3. Entry(r) \in Entries BY <1>1, EntryAny
  <2>4. /\ temp' \in Seq(Entries) /\ Len(temp') <= TempLimit
        /\ \A i \in 1..Len(temp') : temp'[i] = Entry(r) \/ \E j \in 1..Len(temp) : temp'[i] = temp[j]
    <3>1. CASE temp' = temp BY <1>1, <3>1 DEF Stored
    <3>2. CASE temp' = Pushed(Entry(r), temp, TempLimit)
      <4>1. temp' \in Seq(Entries) /\ InFront(temp', Entry(r), temp, TempLimit)
        BY <1>1, <2>3, <3>2, PushedFacts, Smb2Assumption DEF Stored
      <4>2. \A i \in 1..Len(temp') : i = 1 \/ i \in 2..Len(temp') BY <4>1
      <4>3. QED BY <4>1, <4>2 DEF InFront
    <3>3. QED BY <1>5, <3>1, <3>2 DEF OtherRequest
  <2>5. treeCache' \in Seq([sid : Sids, share : Shares]) /\ Len(treeCache') <= CacheLimit
    <3>1. CASE r.cmd = "tcon"
      <4>1. PICK e : e = [sid |-> r.id[2], share |-> r.share] OBVIOUS
      <4>2. e \in [sid : Sids, share : Shares] /\ treeCache' = Pushed(e, treeCache, CacheLimit)
        BY <1>1, <1>5, <3>1, <4>1 DEF OtherRequest, Formed
      <4>3. treeCache' \in Seq([sid : Sids, share : Shares]) /\ InFront(treeCache', e, treeCache, CacheLimit)
        BY <1>1, <4>2, PushedFacts, Smb2Assumption DEF Stored
      <4>4. QED BY <4>3 DEF InFront
    <3>2. CASE r.cmd # "tcon" BY <1>1, <1>5, <3>2 DEF OtherRequest, Stored
    <3>3. QED BY <3>1, <3>2
  <2>6. QED BY <1>1, <2>1, <2>2, <2>4, <2>5 DEF Noticed, Stored
<1>6. QED BY <1>2, <1>3, <1>4, <1>5 DEF Noted

LEMMA RequestsTyped ==
  ASSUME Memory, NEW r, Begins(r), Noticed(r), asked' = asked \cup {r}, requests' = requests + 1,
         requests < scenario.requests, UNCHANGED <<scenario, users, trees, files>>
  PROVE  Memory' /\ events' \subseteq EventTypes'
<1>1. /\ Stored /\ HostTypes /\ Ids /\ OldIds /\ AllFormed /\ OwnEntries /\ Counted /\ Formed(r)
      /\ requests \in Nat /\ scenario.requests \in Nat /\ r.id = <<requests + 1, r.id[2]>> /\ r.id[2] \in Sids
  BY StoredFacts DEF Memory, Begins, Id
<1>2. Entry(r) \in Entries /\ Entry(r).id = r.id /\ Own(Entry(r), r) BY <1>1, EntryAny
<1>3. \A q \in asked : q.id # r.id
  <2>1. \A q \in asked : q.id[1] \in 1..requests BY <1>1 DEF Ids
  <2>2. r.id[1] = requests + 1 /\ requests + 1 \notin 1..requests BY <1>1
  <2>3. QED BY <2>1, <2>2
<1>4. IsFiniteSet(asked) /\ IsFiniteSet(asked') /\ Cardinality(asked) \in Nat /\ Cardinality(asked') = Cardinality(asked) + 1
  BY <1>1, <1>3, FS_AddElement, FS_CardinalityType DEF HostTypes
<1>5. \A id : Given(id) => id \in (1..(requests + 1)) \X Sids BY <1>1 DEF Given
<1>6. Ids' /\ AllFormed' /\ HostTypes'
  <2>1. HostTypes' BY <1>1, <1>4 DEF HostTypes
  <2>2. r.id \in (1..requests') \X Sids BY <1>1
  <2>3. \A q \in asked : q.id \in (1..requests') \X Sids BY <1>1 DEF Ids
  <2>4. Ids' BY <1>1, <1>3, <2>2, <2>3 DEF Ids
  <2>5. AllFormed' BY <1>1 DEF AllFormed, Formed
  <2>6. QED BY <2>1, <2>4, <2>5
<1>7. OldIds'
  <2>1. \A i \in 1..Len(temp') : temp'[i].id = NoId \/ temp'[i].id \in (1..requests') \X Sids
    <3>1. r.id \in (1..(requests + 1)) \X Sids
      <4>1. requests + 1 \in 1..(requests + 1) BY <1>1
      <4>2. PICK z : z = r.id[2] OBVIOUS
      <4>3. r.id = <<requests + 1, z>> /\ z \in Sids BY <1>1, <4>2
      <4>4. QED BY <4>1, <4>3
    <3>2. QED BY <1>1, <1>2, <1>5, <3>1 DEF OldIds, Noticed
  <2>2. held'.server = NothingHeld.server \/ held'.server.id \in (1..requests') \X Sids
    BY <1>1, <1>5 DEF OldIds, Noticed
  <2>3. QED BY <2>1, <2>2 DEF OldIds, Given
<1>8. OwnEntries'
  <2>1. SUFFICES ASSUME NEW q \in asked', NEW i \in 1..Len(temp'), temp'[i].id = q.id
                 PROVE  Own(temp'[i], q)
    BY DEF OwnEntries, Own
  <2>2. CASE temp'[i] = Entry(r) BY <1>2, <1>3, <2>1, <2>2
  <2>3. CASE \E j \in 1..Len(temp) : temp'[i] = temp[j]
    <3>1. PICK j \in 1..Len(temp) : temp'[i] = temp[j] BY <2>3
    <3>2. temp[j].id = NoId \/ Given(temp[j].id) BY <1>1 DEF OldIds
    <3>3. temp[j].id # r.id BY <1>1, <3>2, Smb2Assumption DEF Given, NoId
    <3>4. QED BY <1>1, <2>1, <3>1, <3>3 DEF OwnEntries
  <2>4. QED BY <2>2, <2>3 DEF Noticed
<1>9. Counted'
  <2>1. SUFFICES ASSUME NEW f \in Handles
                 PROVE  /\ fileState'[f].readed + Cardinality(asked') <= requests'
                        /\ fileState'[f].written + Cardinality(asked') <= requests'
                        /\ ~fileState'[f].known => fileState'[f] = Unknown
    BY DEF Counted, Counts
  <2>2. PICK n, s : n = Cardinality(asked) /\ s = fileState[f] OBVIOUS
  <2>3. /\ s \in States /\ n \in Nat
        /\ s.readed + n <= requests /\ s.written + n <= requests /\ (~s.known => s = Unknown)
    BY <1>1, <1>4, <2>2 DEF Stored, Counted, Counts
  <2>4. CASE fileState'[f] = s BY <1>1, <1>4, <2>2, <2>3, <2>4 DEF States
  <2>5. CASE fileState'[f] = Unknown
    <3>1. n <= requests BY <1>1, <2>3 DEF States
    <3>2. Unknown.readed = 0 /\ Unknown.written = 0 BY DEF Unknown
    <3>3. QED BY <1>1, <1>4, <2>2, <2>3, <2>5, <3>1, <3>2
  <2>6. QED BY <2>2, <2>4, <2>5 DEF Noticed
<1>10. Stored' /\ events' \subseteq EventTypes' BY DEF Noticed, EventTypes
<1>11. QED BY <1>6, <1>7, <1>8, <1>9, <1>10 DEF Memory

LEMMA MemoryInit ==
  ASSUME Init PROVE Memory /\ events \subseteq EventTypes
<1>1. PICK s, t, u, share :
        /\ s = (CHOOSE x \in Sids : TRUE) /\ t = (CHOOSE x \in Tids : TRUE)
        /\ u = (CHOOSE x \in Users : x # NoName) /\ share = (CHOOSE x \in Shares : x # IPC)
  OBVIOUS
<1>2. s \in Sids /\ t \in Tids /\ u \in Users /\ share \in Shares BY <1>1, Smb2Assumption
<1>3. /\ scenario \in Scenarios /\ temp = <<>> /\ treeCache = <<>> /\ held = NothingHeld
      /\ fileState = [f \in Handles |-> Unknown]
      /\ users = IF scenario.start = "fresh" THEN [x \in Sids |-> None]
                 ELSE [[x \in Sids |-> None] EXCEPT ![s] = u]
      /\ trees = IF scenario.start = "fresh" THEN [x \in Tids |-> <<None, None>>]
                 ELSE [[x \in Tids |-> <<None, None>>] EXCEPT ![t] = <<s, share>>]
      /\ userName = IF scenario.start = "mounted" THEN users ELSE [x \in Sids |-> None]
      /\ treeMap = [x \in Trees |->
                      IF x \in Tids /\ scenario.start = "mounted" THEN trees[x][2] ELSE None]
      /\ files = [f \in Fids |-> NotOpen] /\ asked = {} /\ requests = 0 /\ events = {}
  BY <1>1 DEF Init
<1>4. users \in [Sids -> Users \cup {None}] BY <1>2, <1>3
<1>5. trees \in [Tids -> (Sids \cup {None}) \X (Shares \cup {None})] BY <1>2, <1>3
<1>6. userName \in [Sids -> Users \cup {None}] BY <1>3, <1>4
<1>7. treeMap \in [Trees -> Shares \cup {None}] BY <1>3, <1>5
<1>8. Unknown \in States /\ NotOpen \in OpenFiles
  BY Smb2Assumption DEF Unknown, States, Paths, NotOpen, OpenFiles, Trees
<1>9. temp \in Seq(Entries) /\ Len(temp) <= TempLimit
      /\ treeCache \in Seq([sid : Sids, share : Shares]) /\ Len(treeCache) <= CacheLimit
  BY <1>3, Smb2Assumption
<1>10. held \in Helds BY <1>3 DEF NothingHeld, Helds, NoId, Trees
<1>11. Stored BY <1>3, <1>6, <1>7, <1>8, <1>9, <1>10 DEF Stored
<1>12. HostTypes BY <1>3, <1>4, <1>5, <1>8, FS_EmptySet, Smb2Assumption DEF HostTypes
<1>13. Ids /\ AllFormed /\ OwnEntries /\ OldIds BY <1>3 DEF Ids, AllFormed, OwnEntries, OldIds
<1>14. Counted BY <1>3, FS_EmptySet DEF Counted, Counts, Unknown
<1>15. QED BY <1>3, <1>11, <1>12, <1>13, <1>14 DEF Memory

LEMMA MemoryNext ==
  ASSUME Memory, Next PROVE Memory' /\ events' \subseteq EventTypes'
<1>1. CASE Requests
  <2>1. PICK r, tell, kinds : Send(r, tell, kinds) /\ Begins(r) /\ Marks(r, kinds) /\ Says(r, tell)
    BY <1>1, RequestBegins
  <2>2. QED BY <2>1, SendTaken, NotedTyped, RequestsTyped
<1>2. CASE Respond BY <1>2, RespondTyped
<1>3. QED BY <1>1, <1>2 DEF Next, Requests

LEMMA MemoryTypes ==
  ASSUME Memory, events \subseteq EventTypes PROVE TypeOK
<1>1. /\ requests \in Nat /\ scenario.requests \in Nat /\ requests <= scenario.requests /\ Stored /\ OldIds
  BY StoredFacts DEF Memory
<1>2. /\ \A id : Given(id) => id \in (0..scenario.requests) \X (Sids \cup {None})
      /\ NoId \in (0..scenario.requests) \X (Sids \cup {None})
  BY <1>1 DEF Given, NoId
<1>3. \A i \in DOMAIN temp : temp[i] \in
         [id : (0..scenario.requests) \X (Sids \cup {None}), user : Users, name : Names,
          path : Paths, fid : Fids \cup {None}, info : {None, "rename", "disposition"},
          directory : BOOLEAN, delete : BOOLEAN, deleteOpen : BOOLEAN]
  <2> TAKE i \in DOMAIN temp
  <2>1. i \in 1..Len(temp) BY <1>1 DEF Stored
  <2>2. temp[i] \in Entries /\ temp[i].id \in (0..scenario.requests) \X (Sids \cup {None})
    BY <1>1, <1>2, <2>1, StoredFacts DEF OldIds
  <2>3. QED BY <2>2 DEF Entries
<1>4. fileState \in [Handles ->
         [known : BOOLEAN, isipc : BOOLEAN, isdirectory : BOOLEAN, delete : BOOLEAN,
          path : Paths, readed : 0..scenario.requests, written : 0..scenario.requests]]
  <2>1. \A f \in Handles : fileState[f] \in
           [known : BOOLEAN, isipc : BOOLEAN, isdirectory : BOOLEAN, delete : BOOLEAN,
            path : Paths, readed : 0..scenario.requests, written : 0..scenario.requests]
    BY StoredFacts DEF States
  <2>2. QED BY <1>1, <2>1 DEF Stored
<1>5. held \in [client : BOOLEAN,
                server : [id : (0..scenario.requests) \X (Sids \cup {None}), tid : Trees]]
  BY <1>1, <1>2 DEF Stored, OldIds, Helds, NothingHeld
<1>6. QED BY <1>1, <1>3, <1>4, <1>5 DEF TypeOK, Stored, EventTypes

--------------------------------
(* Trees have the names of their shares or none: the first tree connect of *)
(* a session that is remembered is the one under way. *)
Shown == "trees" \notin odd /\ ~StaleTree
Kempt == odd \cap {"lost", "refused", "noToken", "logoff"} = {}
First(j) == \A k \in 1..Len(treeCache) : k < j => treeCache[k].sid # treeCache[j].sid
OneConnect == \A r, q \in asked : r.cmd = "tcon" /\ q.cmd = "tcon" /\ r.id[2] = q.id[2] => r = q
OwnShares ==
  \A r \in asked, j \in 1..Len(treeCache) :
    r.cmd = "tcon" /\ treeCache[j].sid = r.id[2] /\ First(j) => treeCache[j].share = r.share
AllCached ==
  \A r \in asked : r.cmd = "tcon" => \E j \in 1..Len(treeCache) : treeCache[j].sid = r.id[2]
TreesShown == \A t \in Tids : trees[t][1] # None => treeMap[t] \in {None, trees[t][2]}
TreesNamed ==
  Shown => TreesShown /\ OneConnect /\ OwnShares /\ (Kempt => held = NothingHeld /\ AllCached)

LEMMA ShownBefore ==
  ASSUME odd \subseteq odd' PROVE (Shown' => Shown) /\ (Kempt' => Kempt)
  BY DEF Shown, Kempt, StaleTree

LEMMA TreesRequested ==
  ASSUME Memory, TreesNamed, Shown', NEW r, NEW kinds, Begins(r), Marks(r, kinds), Noted(r), asked' = asked \cup {r},
         odd \cup kinds \cup Mistaken(r) \subseteq odd', UNCHANGED trees
  PROVE  TreesNamed'
<1>1. /\ TreesShown /\ OneConnect /\ OwnShares /\ (Kempt => held = NothingHeld /\ AllCached) /\ (Kempt' => Kempt)
      /\ Stored /\ Formed(r) /\ r.id[2] \in Sids
  BY ShownBefore DEF TreesNamed, Memory, Begins
<1>2. ~("trees" \in kinds) /\ ~("trees" \in Mistaken(r)) BY DEF Shown
<1>3. r.cmd = "tcon" => /\ \A q \in asked : ~(q.cmd = "tcon" /\ q.id[2] = r.id[2])
                        /\ Len(treeCache) # CacheLimit
                        /\ TconOf(r.id[2]) = 0 \/ treeCache' # treeCache
  BY <1>2 DEF Marks, Mistaken
<1>4. OneConnect' BY <1>1, <1>3 DEF OneConnect
<1>5. CASE Idle /\ ((held' = held /\ held.client) \/ "lost" \in odd')
  <2>1. UNCHANGED <<treeCache, treeMap>> BY <1>5 DEF Idle
  <2>2. TreesShown' BY <1>1, <2>1 DEF TreesShown
  <2>3. OwnShares'
    <3>1. SUFFICES ASSUME NEW q \in asked', NEW j \in 1..Len(treeCache), q.cmd = "tcon", treeCache[j].sid = q.id[2],
                          First(j)
                   PROVE  treeCache[j].share = q.share
      BY <2>1 DEF OwnShares, First
    <3>2. q # r BY <1>1, <1>3, <2>1, <3>1, TconAny
    <3>3. QED BY <1>1, <3>1, <3>2 DEF OwnShares
  <2>4. Kempt' => held' = NothingHeld /\ AllCached'
    <3>1. SUFFICES ASSUME Kempt' PROVE held' = NothingHeld /\ AllCached' OBVIOUS
    <3>2. held = NothingHeld /\ AllCached BY <1>1, <3>1
    <3>3. ~held.client /\ "lost" \notin odd' BY <3>1, <3>2 DEF NothingHeld, Kempt
    <3>4. FALSE BY <1>5, <3>3
    <3>5. QED BY <3>4
  <2>5. QED BY <1>4, <2>2, <2>3, <2>4 DEF TreesNamed
<1>6. CASE r.cmd = "logoff" /\ LogoffRequest(r)
  <2>1. \/ Forget
        \/ UNCHANGED <<temp, treeCache, treeMap, fileState, held>>
    BY <1>6 DEF LogoffRequest
  <2>2. Kempt' => asked' = {r} /\ held = NothingHeld BY <1>1, <1>6 DEF Marks, Kempt
  <2>3. CASE Forget
    <3>1. treeCache' = <<>> /\ Len(treeCache') = 0 /\ treeMap' = [t \in Trees |-> None] /\ held' = NothingHeld
      BY <2>3 DEF Forget
    <3>2. TreesShown' /\ OwnShares' BY <1>1, <3>1 DEF TreesShown, OwnShares, Trees
    <3>3. QED BY <1>4, <1>6, <2>2, <3>1, <3>2 DEF TreesNamed, AllCached
  <2>4. CASE UNCHANGED <<temp, treeCache, treeMap, fileState, held>>
    <3>1. TreesShown' /\ OwnShares' BY <1>1, <1>6, <2>4 DEF TreesShown, OwnShares, First
    <3>2. QED BY <1>4, <1>6, <2>2, <2>4, <3>1 DEF TreesNamed, AllCached
  <2>5. QED BY <2>1, <2>3, <2>4
<1>7. CASE r.cmd = "create" /\ ChainedRename(r)
  <2>1. UNCHANGED <<temp, treeCache, treeMap, fileState, held>> BY <1>7 DEF ChainedRename, analyzer
  <2>2. TreesShown' /\ OwnShares' BY <1>1, <1>7, <2>1 DEF TreesShown, OwnShares, First
  <2>3. Kempt' => held' = NothingHeld /\ AllCached' BY <1>1, <1>7, <2>1 DEF AllCached
  <2>4. QED BY <1>4, <2>2, <2>3 DEF TreesNamed
<1>8. CASE ~held.client /\ OtherRequest(r)
  <2>1. UNCHANGED treeMap /\ held' = [held EXCEPT !.client = r.cmd = "setup" /\ ~r.token]
    BY <1>8 DEF OtherRequest
  <2>2. TreesShown' BY <1>1, <2>1 DEF TreesShown
  <2>3. Kempt' => held' = NothingHeld
    <3>1. SUFFICES ASSUME Kempt' PROVE held' = NothingHeld OBVIOUS
    <3>2. held = NothingHeld /\ ~(r.cmd = "setup" /\ ~r.token) BY <1>1, <3>1 DEF Kempt, Marks
    <3>3. QED BY <2>1, <3>2 DEF NothingHeld
  <2>4. CASE r.cmd # "tcon"
    <3>1. treeCache' = treeCache BY <1>8, <2>4 DEF OtherRequest
    <3>2. OwnShares' /\ (AllCached => AllCached') BY <1>1, <2>4, <3>1 DEF OwnShares, First, AllCached
    <3>3. QED BY <1>1, <1>4, <2>2, <2>3, <3>2 DEF TreesNamed
  <2>5. CASE r.cmd = "tcon"
    <3>1. PICK e : e = [sid |-> r.id[2], share |-> r.share] OBVIOUS
    <3>2. e \in [sid : Sids, share : Shares] /\ treeCache' = Pushed(e, treeCache, CacheLimit)
      BY <1>1, <1>8, <2>5, <3>1 DEF OtherRequest, Formed
    <3>3. InFront(treeCache', e, treeCache, CacheLimit) /\ Len(treeCache) \in Nat
      <4>1. /\ treeCache \in Seq([sid : Sids, share : Shares]) /\ Len(treeCache) <= CacheLimit
            /\ CacheLimit \in Nat \ {0}
        BY <1>1, Smb2Assumption DEF Stored
      <4>2. InFront(treeCache', e, treeCache, CacheLimit) BY <3>2, <4>1, PushedFacts
      <4>3. QED BY <4>1, <4>2
    <3>4. /\ Len(treeCache') = Len(treeCache) + 1 /\ treeCache'[1] = e
          /\ \A j \in 2..Len(treeCache') : j - 1 \in 1..Len(treeCache) /\ treeCache'[j] = treeCache[j - 1]
      BY <1>3, <2>5, <3>3 DEF InFront
    <3>5. \A j \in 1..Len(treeCache) : j + 1 \in 2..Len(treeCache') /\ treeCache'[j + 1] = treeCache[j]
      <4> TAKE j \in 1..Len(treeCache)
      <4>1. j + 1 \in 2..Len(treeCache') /\ (j + 1) - 1 = j BY <3>3, <3>4
      <4>2. QED BY <3>4, <4>1
    <3>6. OwnShares'
      <4>1. SUFFICES ASSUME NEW q \in asked', NEW j \in 1..Len(treeCache'), q.cmd = "tcon",
                            treeCache'[j].sid = q.id[2],
                            \A k \in 1..Len(treeCache') : k < j => treeCache'[k].sid # treeCache'[j].sid
                     PROVE  treeCache'[j].share = q.share
        BY DEF OwnShares, First
      <4>2. CASE q = r
        <5>1. 1 \in 1..Len(treeCache') /\ treeCache'[1].sid = r.id[2] /\ treeCache'[1].share = r.share
          BY <3>1, <3>3, <3>4
        <5>2. ~(1 < j) BY <4>1, <4>2, <5>1
        <5>3. j = 1 BY <4>1, <5>2
        <5>4. QED BY <4>2, <5>1, <5>3
      <4>3. CASE q # r
        <5>1. q \in asked /\ q.id[2] # r.id[2] BY <1>3, <2>5, <4>1, <4>3
        <5>2. j # 1 /\ j \in 2..Len(treeCache') BY <3>1, <3>4, <4>1, <5>1
        <5>3. PICK i : i = j - 1 /\ i \in 1..Len(treeCache) /\ treeCache'[j] = treeCache[i] BY <3>4, <5>2
        <5>4. First(i)
          <6>1. SUFFICES ASSUME NEW k \in 1..Len(treeCache), k < i PROVE treeCache[k].sid # treeCache[i].sid
            BY DEF First
          <6>2. k + 1 \in 1..Len(treeCache') /\ k + 1 < j /\ treeCache'[k + 1] = treeCache[k]
            BY <3>3, <3>4, <3>5, <5>2, <5>3, <6>1
          <6>3. QED BY <4>1, <5>3, <6>2
        <5>5. QED BY <1>1, <4>1, <5>1, <5>3, <5>4 DEF OwnShares
      <4>4. QED BY <4>2, <4>3
    <3>7. AllCached => AllCached'
      <4>1. SUFFICES ASSUME AllCached, NEW q \in asked', q.cmd = "tcon"
                     PROVE  \E j \in 1..Len(treeCache') : treeCache'[j].sid = q.id[2]
        BY DEF AllCached
      <4>2. CASE q = r BY <3>1, <3>3, <3>4, <4>2
      <4>3. CASE q # r
        <5>1. PICK j \in 1..Len(treeCache) : treeCache[j].sid = q.id[2] BY <4>1, <4>3 DEF AllCached
        <5>2. j + 1 \in 1..Len(treeCache') /\ treeCache'[j + 1] = treeCache[j] BY <3>5, <5>1
        <5>3. QED BY <5>1, <5>2
      <4>4. QED BY <4>2, <4>3
    <3>8. QED BY <1>1, <1>4, <2>2, <2>3, <3>6, <3>7 DEF TreesNamed
  <2>6. QED BY <2>4, <2>5
<1>9. QED BY <1>5, <1>6, <1>7, <1>8 DEF Noted

(* What the hosts make of an answer. *)
TreesAfter(r, a) ==
  IF r.cmd = "tcon" /\ a.ok
  THEN /\ a.tid \in Tids /\ trees' = [trees EXCEPT ![a.tid] = <<r.id[2], r.share>>]
       /\ treeMap[a.tid] # None => "remounted" \in odd'
  ELSE \A t \in Tids : trees'[t] = trees[t] \/ trees'[t][1] = None
Refused(r, a) ==
  /\ r.cmd = "tcon" /\ ~a.ok => a.tid = NoTree
  /\ r.cmd = "create" /\ ~a.ok => "refused" \in odd'

LEMMA TreesKept ==
  ASSUME Memory, TreesNamed, Shown', NEW r \in asked, NEW a, asked' = asked \ {r}, odd \subseteq odd',
         TreesAfter(r, a), UNCHANGED <<treeCache, treeMap>>, Kempt' => held' = held /\ r.cmd # "tcon"
  PROVE  TreesNamed'
<1>1. /\ TreesShown /\ OneConnect /\ OwnShares /\ (Kempt => held = NothingHeld /\ AllCached) /\ (Kempt' => Kempt)
      /\ trees \in [Tids -> (Sids \cup {None}) \X (Shares \cup {None})]
  BY ShownBefore DEF TreesNamed, Memory, HostTypes
<1>2. OneConnect' /\ OwnShares' /\ (Kempt' => AllCached') BY <1>1 DEF OneConnect, OwnShares, AllCached, First
<1>3. TreesShown'
  <2>1. CASE ~(r.cmd = "tcon" /\ a.ok) BY <1>1, <2>1 DEF TreesShown, TreesAfter
  <2>2. CASE r.cmd = "tcon" /\ a.ok
    <3>1. treeMap[a.tid] = None /\ a.tid \in Tids /\ trees' = [trees EXCEPT ![a.tid] = <<r.id[2], r.share>>]
      BY <2>2 DEF Shown, StaleTree, Kempt, TreesAfter
    <3>2. QED BY <1>1, <2>2, <3>1 DEF TreesShown
  <2>3. QED BY <2>1, <2>2 DEF TreesAfter
<1>4. QED BY <1>1, <1>2, <1>3 DEF TreesNamed

(* One entry less: the others keep their order. *)
LEMMA CacheWithout ==
  ASSUME Stored, NEW j \in 1..Len(treeCache),
         treeCache' \in Seq([sid : Sids, share : Shares]), Without(treeCache', treeCache, j)
  PROVE  /\ \A i \in 1..Len(treeCache') : \E k \in 1..Len(treeCache) :
               /\ k # j /\ treeCache'[i] = treeCache[k]
               /\ First(i)' /\ treeCache[k].sid # treeCache[j].sid => First(k)
         /\ \A k \in 1..Len(treeCache) : k # j => \E i \in 1..Len(treeCache') : treeCache'[i] = treeCache[k]
<1>1. treeCache \in Seq([sid : Sids, share : Shares]) /\ Len(treeCache) \in Nat BY DEF Stored
<1>2. treeCache' \in Seq([sid : Sids, share : Shares]) /\ Without(treeCache', treeCache, j) OBVIOUS
<1>3. Len(treeCache') \in Nat /\ Len(treeCache') = Len(treeCache) - 1
  <2>1. Len(treeCache') = Len(treeCache) - 1 BY <1>2 DEF Without
  <2>2. QED BY <1>1, <1>2, <2>1
<1>6. \A i \in 1..Len(treeCache') :
        \E k \in 1..Len(treeCache) : k # j /\ treeCache'[i] = treeCache[k] /\ OldIndex(i, k, j)
  BY <1>1, <1>2, WithoutFacts
<1>7. \A k \in 1..Len(treeCache) : k # j => \E i \in 1..Len(treeCache') : treeCache'[i] = treeCache[k]
  BY <1>1, <1>2, WithoutFacts
<1>4. ASSUME NEW i \in 1..Len(treeCache')
      PROVE  \E k \in 1..Len(treeCache) :
               /\ k # j /\ treeCache'[i] = treeCache[k]
               /\ First(i)' /\ treeCache[k].sid # treeCache[j].sid => First(k)
  <2>1. PICK k \in 1..Len(treeCache) : k # j /\ treeCache'[i] = treeCache[k] /\ OldIndex(i, k, j) BY <1>6
  <2>2. ASSUME \A m \in 1..Len(treeCache') : m < i => treeCache'[m].sid # treeCache'[i].sid,
               treeCache[k].sid # treeCache[j].sid, NEW n \in 1..Len(treeCache), n < k
        PROVE  treeCache[n].sid # treeCache[k].sid
    <3>1. CASE n = j BY <2>2, <3>1
    <3>2. CASE n # j
      <4>1. PICK m : m = IF n < j THEN n ELSE n - 1 OBVIOUS
      <4>2. m \in 1..Len(treeCache') /\ m < i /\ n = (IF m < j THEN m ELSE m + 1)
        BY <1>1, <1>3, <2>1, <2>2, <3>2, <4>1 DEF OldIndex
      <4>3. treeCache'[m] = treeCache[n] BY <1>2, <4>2 DEF Without
      <4>4. QED BY <2>1, <2>2, <4>2, <4>3
    <3>3. QED BY <3>1, <3>2
  <2>3. QED BY <2>1, <2>2 DEF First
<1>5. QED BY <1>4, <1>7

LEMMA TreesMounted ==
  ASSUME Memory, TreesNamed, Shown', NEW r \in asked, r.cmd = "tcon", NEW a, AnswerTypes(a), a.id = r.id, asked' = asked \ {r},
         odd \subseteq odd', TreesAfter(r, a), Refused(r, a), TconResponse(a)
  PROVE  TreesNamed'
<1>1. /\ TreesShown /\ OneConnect /\ OwnShares /\ (Kempt => held = NothingHeld /\ AllCached) /\ (Kempt' => Kempt)
      /\ trees \in [Tids -> (Sids \cup {None}) \X (Shares \cup {None})] /\ Stored /\ Formed(r)
  BY ShownBefore DEF TreesNamed, Memory, HostTypes, AllFormed
<1>2. PICK j : j = TconOf(a.id[2]) OBVIOUS
<1>3. \A q \in asked' : q.cmd = "tcon" => q \in asked /\ q.id[2] # r.id[2] BY <1>1 DEF OneConnect
<1>4. CASE j = 0
  <2>1. UNCHANGED <<treeCache, treeMap, held>> BY <1>2, <1>4 DEF TconResponse
  <2>2. ~Kempt'
    <3>1. \A k \in 1..Len(treeCache) : treeCache[k].sid # r.id[2] BY <1>1, <1>2, <1>4, TconAny
    <3>2. QED BY <1>1, <3>1 DEF AllCached
  <2>3. QED BY <2>1, <2>2, TreesKept
<1>5. CASE j # 0
  <2>1. /\ treeMap' = [treeMap EXCEPT ![a.tid] = treeCache[j].share] /\ held' = held
        /\ treeCache' = SubSeq(treeCache, 1, j - 1) \o SubSeq(treeCache, j + 1, Len(treeCache))
    BY <1>2, <1>5 DEF TconResponse
  <2>2. /\ j \in 1..Len(treeCache) /\ treeCache[j].sid = r.id[2]
        /\ \A k \in 1..Len(treeCache) : treeCache[k].sid = r.id[2] => j <= k
    BY <1>1, <1>2, <1>5, TconAny
  <2>10. treeCache' \in Seq([sid : Sids, share : Shares]) /\ Without(treeCache', treeCache, j)
    <3>1. treeCache \in Seq([sid : Sids, share : Shares]) BY <1>1 DEF Stored
    <3>2. QED BY <2>1, <2>2, <3>1, TakenOut DEF Without
  <2>3. First(j)
    <3>1. SUFFICES ASSUME NEW k \in 1..Len(treeCache), k < j, treeCache[k].sid = treeCache[j].sid PROVE FALSE
      BY DEF First
    <3>2. j <= k /\ j \in Nat /\ k \in Nat BY <2>2, <3>1
    <3>3. QED BY <3>1, <3>2
  <2>4. treeCache[j].share = r.share BY <1>1, <2>2, <2>3 DEF OwnShares
  <2>5. TreesShown'
    <3>1. CASE ~a.ok
      <4>1. \A t \in Tids : treeMap'[t] = treeMap[t] BY <1>1, <2>1, <3>1, Smb2Assumption DEF Stored, Refused
      <4>2. QED BY <1>1, <3>1, <4>1 DEF TreesShown, TreesAfter
    <3>2. CASE a.ok
      <4>1. a.tid \in Tids /\ trees' = [trees EXCEPT ![a.tid] = <<r.id[2], r.share>>] BY <3>2 DEF TreesAfter
      <4>2. treeMap' = [treeMap EXCEPT ![a.tid] = r.share] BY <2>1, <2>4
      <4>3. treeMap \in [Trees -> Shares \cup {None}] /\ Tids \subseteq Trees BY <1>1 DEF Stored, Trees
      <4>4. QED BY <1>1, <4>1, <4>2, <4>3 DEF TreesShown
    <3>3. QED BY <3>1, <3>2
  <2>6. OneConnect' BY <1>1 DEF OneConnect
  <2>7. OwnShares'
    <3>1. SUFFICES ASSUME NEW q \in asked', NEW i \in 1..Len(treeCache'), q.cmd = "tcon",
                          treeCache'[i].sid = q.id[2], First(i)'
                   PROVE  treeCache'[i].share = q.share
      BY DEF OwnShares, First
    <3>2. PICK k \in 1..Len(treeCache) : /\ k # j /\ treeCache'[i] = treeCache[k]
                                         /\ First(i)' /\ treeCache[k].sid # treeCache[j].sid => First(k)
      BY <1>1, <2>2, <2>10, CacheWithout
    <3>3. q \in asked /\ q.id[2] # r.id[2] BY <1>3, <3>1
    <3>4. First(k) BY <2>2, <3>1, <3>2, <3>3
    <3>5. QED BY <1>1, <3>1, <3>2, <3>3, <3>4 DEF OwnShares
  <2>8. Kempt' => held' = NothingHeld /\ AllCached'
    <3>1. SUFFICES ASSUME Kempt' PROVE held' = NothingHeld /\ AllCached' OBVIOUS
    <3>2. ASSUME NEW q \in asked', q.cmd = "tcon"
          PROVE  \E i \in 1..Len(treeCache') : treeCache'[i].sid = q.id[2]
      <4>1. q \in asked /\ q.id[2] # r.id[2] BY <1>3, <3>2
      <4>2. PICK k \in 1..Len(treeCache) : treeCache[k].sid = q.id[2] BY <1>1, <3>1, <3>2, <4>1 DEF AllCached
      <4>3. k # j BY <2>2, <4>1, <4>2
      <4>4. PICK i \in 1..Len(treeCache') : treeCache'[i] = treeCache[k]
        BY <1>1, <2>2, <2>10, <4>3, CacheWithout
      <4>5. QED BY <4>2, <4>4
    <3>3. AllCached' BY <3>2 DEF AllCached
    <3>4. QED BY <1>1, <2>1, <3>1, <3>3
  <2>9. QED BY <2>5, <2>6, <2>7, <2>8 DEF TreesNamed
<1>6. QED BY <1>4, <1>5

LEMMA TreesAnswered ==
  ASSUME Memory, TreesNamed, NEW r \in asked, NEW a, NEW i, a.cmd = r.cmd, AnswerTypes(a), Taken(a, i, r),
         asked' = asked \ {r}, odd \subseteq odd', TreesAfter(r, a), Refused(r, a)
  PROVE  TreesNamed'
<1> SUFFICES ASSUME Shown' PROVE TreesNamed' BY DEF TreesNamed
<1>1. /\ (Kempt => held = NothingHeld) /\ (Kempt' => Kempt) /\ Formed(r)
  BY ShownBefore DEF TreesNamed, Memory, AllFormed
<1>2. CASE Idle /\ "lost" \in odd'
  <2>1. UNCHANGED <<treeCache, treeMap>> /\ ~Kempt' BY <1>2 DEF Idle, Kempt
  <2>2. QED BY <2>1, TreesKept
<1>3. CASE held.server # NothingHeld.server /\ HeldResponse
  <2>1. UNCHANGED <<treeCache, treeMap>> /\ ~Kempt' BY <1>1, <1>3 DEF HeldResponse
  <2>2. QED BY <2>1, TreesKept
<1>4. CASE r.cmd = "tcon" /\ Reads(a, i, r) /\ Treated(a, i)
  <2>1. TconResponse(a) /\ a.id = r.id BY <1>4 DEF Treated, Reads, OnFiles
  <2>2. QED BY <1>4, <2>1, TreesMounted
<1>5. CASE r.cmd # "tcon" /\ Reads(a, i, r) /\ Treated(a, i)
  <2>1. UNCHANGED <<treeCache, treeMap>> BY <1>5 DEF Treated, SetupResponse, CreateResponse, Idle
  <2>2. Kempt' => held' = held
    <3>1. CASE r.cmd = "create" /\ ~a.ok BY <3>1 DEF Refused, Kempt
    <3>2. CASE ~(r.cmd = "create" /\ ~a.ok) BY <1>5, <3>2 DEF Treated, SetupResponse, CreateResponse, Idle
    <3>3. QED BY <3>1, <3>2
  <2>3. QED BY <1>5, <2>1, <2>2, TreesKept
<1>6. QED BY <1>2, <1>3, <1>4, <1>5 DEF Taken

(* One step for each answer of the server. *)
LEMMA TreesResponded ==
  ASSUME Memory, TreesNamed, Respond PROVE TreesNamed'
<1>1. PICK r \in asked, ok \in BOOLEAN :
        \/ Granted(r, ok) \/ Mounted(r, ok) \/ Opened(r, ok) \/ Moved(r, ok) \/ Changed(r, ok)
        \/ ok /\ (Closed(r) \/ Unmounted(r) \/ LoggedOff(r))
  BY DEF Respond
<1>2. /\ Formed(r) /\ NoTree \in Trees /\ Tids \subseteq Trees
      /\ trees \in [Tids -> (Sids \cup {None}) \X (Shares \cup {None})]
  BY DEF Memory, HostTypes, AllFormed, Trees
<1>3. ASSUME NEW tid \in Trees, NEW fid, NEW action, NEW size \in {0, 1}, NEW kinds,
             Answer(r, ok, tid, fid, action, size, kinds),
             r.cmd = "create" => (ok => fid \in Fids) /\ (~ok => "refused" \in kinds),
             r.cmd = "tcon" /\ ~ok => tid = NoTree,
             IF r.cmd = "tcon" /\ ok
             THEN /\ tid \in Tids /\ trees' = [trees EXCEPT ![tid] = <<r.id[2], r.share>>]
                  /\ treeMap[tid] # None => "remounted" \in kinds
             ELSE \A t \in Tids : trees'[t] = trees[t] \/ trees'[t][1] = None
      PROVE  TreesNamed'
  <2>1. asked' = asked \ {r} /\ odd \cup kinds \subseteq odd' BY <1>3, AnswerTaken
  <2>2. PICK a, i : /\ a.cmd = r.cmd /\ a.ok = ok /\ a.tid = tid /\ a.fid = fid
                    /\ a.action = action /\ a.size = size /\ Taken(a, i, r)
    BY <1>3, AnswerTaken
  <2>3. AnswerTypes(a) BY <1>3, <2>2 DEF AnswerTypes
  <2>4. TreesAfter(r, a) BY <1>3, <2>1, <2>2 DEF TreesAfter
  <2>5. Refused(r, a) BY <1>3, <2>1, <2>2 DEF Refused
  <2>6. QED BY <2>1, <2>2, <2>3, <2>4, <2>5, TreesAnswered
<1>4. CASE Granted(r, ok)
  <2>1. PICK kinds, why : Answer(r, ok, NoTree, None, why, 0, kinds) /\ r.cmd = "setup" /\ UNCHANGED trees
    BY <1>4 DEF Granted
  <2>2. QED BY <1>2, <1>3, <2>1
<1>5. CASE Mounted(r, ok)
  <2>1. r.cmd = "tcon" BY <1>5 DEF Mounted
  <2>2. CASE ok
    <3>1. PICK t \in Tids : /\ trees' = [trees EXCEPT ![t] = <<r.id[2], r.share>>]
                            /\ Answer(r, ok, t, None, "none", 0, IF treeMap[t] = None THEN {} ELSE {"remounted"})
      BY <1>5, <2>2 DEF Mounted
    <3>2. PICK kinds : kinds = IF treeMap[t] = None THEN {} ELSE {"remounted"} OBVIOUS
    <3>3. Answer(r, ok, t, None, "none", 0, kinds) /\ (treeMap[t] # None => "remounted" \in kinds) BY <3>1, <3>2
    <3>4. QED BY <1>2, <1>3, <2>1, <2>2, <3>1, <3>3
  <2>3. CASE ~ok
    <3>1. UNCHANGED trees /\ Answer(r, ok, NoTree, None, "none", 0, {}) BY <1>5, <2>3 DEF Mounted
    <3>2. QED BY <1>2, <1>3, <2>1, <2>3, <3>1
  <2>4. QED BY <2>2, <2>3
<1>6. CASE Opened(r, ok)
  <2>1. r.cmd = "create" /\ UNCHANGED trees /\ r.tid \in Trees BY <1>2, <1>6 DEF Opened, Formed
  <2>2. CASE ok
    <3>1. PICK f \in Fids : \E action, kinds : Answer(r, ok, r.tid, f, action, 0, kinds)
      BY <1>6, <2>2 DEF Opened, Free
    <3>2. PICK action, kinds : Answer(r, ok, r.tid, f, action, 0, kinds) BY <3>1
    <3>3. QED BY <1>3, <2>1, <2>2, <3>2
  <2>3. CASE ~ok
    <3>1. Answer(r, ok, r.tid, None, "none", 0, {"refused"}) BY <1>6, <2>3 DEF Opened
    <3>2. QED BY <1>3, <2>1, <2>3, <3>1
  <2>4. QED BY <2>2, <2>3
<1>7. CASE Moved(r, ok)
  <2>1. r.cmd \in {"read", "write"} /\ UNCHANGED trees BY <1>7 DEF Moved
  <2>2. PICK size \in {0, 1} : Answer(r, ok, NoTree, None, "none", size, {}) BY <1>7 DEF Moved
  <2>3. QED BY <1>2, <1>3, <2>1, <2>2
<1>8. CASE Changed(r, ok)
  <2>1. r.cmd \in {"rename", "dispose"} /\ UNCHANGED trees /\ Answer(r, ok, NoTree, None, "none", 0, {})
    BY <1>8 DEF Changed
  <2>2. QED BY <1>2, <1>3, <2>1
<1>9. CASE ok /\ Closed(r)
  <2>1. r.cmd = "close" /\ UNCHANGED trees /\ Answer(r, ok, NoTree, None, "none", 0, {}) BY <1>9 DEF Closed
  <2>2. QED BY <1>2, <1>3, <2>1
<1>10. CASE ok /\ (Unmounted(r) \/ LoggedOff(r))
  <2>1. r.cmd \in {"tdis", "logoff"} /\ Answer(r, ok, NoTree, None, "none", 0, {})
    BY <1>10 DEF Unmounted, LoggedOff
  <2>2. \A t \in Tids : trees'[t] = trees[t] \/ trees'[t][1] = None
    <3>1. CASE Unmounted(r) BY <1>2, <3>1 DEF Unmounted
    <3>2. CASE LoggedOff(r) BY <1>2, <3>2 DEF LoggedOff
    <3>3. QED BY <1>10, <3>1, <3>2
  <2>3. QED BY <1>2, <1>3, <2>1, <2>2
<1>11. QED BY <1>1, <1>4, <1>5, <1>6, <1>7, <1>8, <1>9, <1>10

LEMMA TreesInit ==
  ASSUME Init PROVE TreesNamed
<1>1. PICK s, t, u, share :
        /\ s = (CHOOSE x \in Sids : TRUE) /\ t = (CHOOSE x \in Tids : TRUE)
        /\ u = (CHOOSE x \in Users : x # NoName) /\ share = (CHOOSE x \in Shares : x # IPC)
  OBVIOUS
<1>2. s \in Sids /\ t \in Tids /\ share \in Shares BY <1>1, Smb2Assumption
<1>3. /\ treeCache = <<>> /\ held = NothingHeld /\ asked = {}
      /\ trees = IF scenario.start = "fresh" THEN [x \in Tids |-> <<None, None>>]
                 ELSE [[x \in Tids |-> <<None, None>>] EXCEPT ![t] = <<s, share>>]
      /\ treeMap = [x \in Trees |->
                      IF x \in Tids /\ scenario.start = "mounted" THEN trees[x][2] ELSE None]
  BY <1>1 DEF Init
<1>4. TreesShown BY <1>2, <1>3 DEF TreesShown, Trees
<1>5. OneConnect /\ OwnShares /\ AllCached BY <1>3 DEF OneConnect, OwnShares, AllCached
<1>6. QED BY <1>3, <1>4, <1>5 DEF TreesNamed

LEMMA TreesNext ==
  ASSUME Memory, TreesNamed, Next PROVE TreesNamed'
<1>1. CASE Requests
  <2>1. PICK r, tell, kinds : Send(r, tell, kinds) /\ Begins(r) /\ Marks(r, kinds) /\ Says(r, tell)
    BY <1>1, RequestBegins
  <2>2. asked' = asked \cup {r} /\ odd \cup kinds \cup Mistaken(r) \subseteq odd' /\ UNCHANGED trees /\ Noted(r)
    BY <2>1, SendTaken
  <2>3. CASE Shown' BY <2>1, <2>2, <2>3, TreesRequested
  <2>4. QED BY <2>3 DEF TreesNamed
<1>2. CASE Respond BY <1>2, TreesResponded
<1>3. QED BY <1>1, <1>2 DEF Next, Requests

--------------------------------
(* What an answer makes of the users, the trees and the files, and what it *)
(* means. *)
UsersAfter(r, a) ==
  /\ r.cmd = "setup" => users' = IF a.ok THEN [users EXCEPT ![r.id[2]] = r.user] ELSE users
  /\ r.cmd = "logoff" => users' = [users EXCEPT ![r.id[2]] = None]
  /\ r.cmd \notin {"setup", "logoff"} => users' = users
  /\ r.cmd = "setup" /\ a.ok /\ GetUserName(r.id[2]) \notin {NoName, r.user} => "relogged" \in odd'
TreesLeft(r) ==
  \A t \in Tids : \/ trees'[t] = trees[t]
                  \/ r.cmd = "tcon" /\ trees[t][1] = None
                  \/ r.cmd = "tdis" /\ t = r.tid
                  \/ r.cmd = "logoff" /\ trees[t][1] = r.id[2]
FilesAfter(r, a) ==
  /\ r.cmd = "create" /\ a.ok =>
       /\ a.tid = r.tid /\ ~files[a.fid].open /\ Naming(a.fid) = {}
       /\ files' = [files EXCEPT ![a.fid] = IF r.chain = "none" THEN FileOf(r) ELSE NotOpen]
       /\ fileState[a.fid].known => "reused" \in odd'
       /\ OnPipe(r.tid, r.name) \subseteq odd'
  /\ r.cmd = "close" => files' = [files EXCEPT ![r.fid] = NotOpen]
  /\ r.cmd \in {"read", "write"} =>
       /\ a.size = IF a.ok THEN 1 ELSE 0
       /\ files' = IF ~a.ok THEN files
                   ELSE IF r.cmd = "read" THEN [files EXCEPT ![r.fid].readed = @ + 1]
                   ELSE [files EXCEPT ![r.fid].written = @ + 1]
  /\ r.cmd = "dispose" => files' = IF a.ok THEN [files EXCEPT ![r.fid].delete = r.on] ELSE files
  /\ r.cmd = "rename" => files' = IF a.ok THEN [files EXCEPT ![r.fid].path = <<files[r.fid].path[1], r.name>>]
                                  ELSE files
  /\ r.cmd = "logoff" => files' = [f \in Fids |-> IF files[f].sid = r.id[2] THEN NotOpen ELSE files[f]]
  /\ r.cmd \in {"setup", "tcon", "tdis"} \/ (r.cmd = "create" /\ ~a.ok) => files' = files
FactsAfter(r, a) ==
  /\ r.cmd = "setup" =>
       facts' = IF r.user = NoName THEN {} ELSE {Told(r.user, NoPath, LoginFact(a.ok, a.action))}
  /\ r.cmd = "create" /\ a.ok /\ r.chain = "none" =>
       facts' = IF a.action = "opened" THEN {}
                ELSE {Told(UserOf(r.id[2]), FileOf(r).path, IF FileOf(r).directory THEN "mkdir" ELSE "create")}
  /\ r.cmd = "close" =>
       LET f == files[r.fid]
           user == UserOf(r.id[2])
       IN facts' = IF ~f.open \/ f.path[1] = IPC THEN {}
                   ELSE {Event("read", user, f.path, NoPath, n) : n \in {f.readed} \ {0}}
                        \cup {Event("write", user, f.path, NoPath, n) : n \in {f.written} \ {0}}
                        \cup Removal(user, f)
After(r, a) == UsersAfter(r, a) /\ TreesLeft(r) /\ FilesAfter(r, a) /\ FactsAfter(r, a)
AnswerOf(r, a, kinds) ==
  /\ a.cmd = r.cmd /\ AnswerTypes(a) /\ Answer(r, a.ok, a.tid, a.fid, a.action, a.size, kinds)
  /\ r.cmd = "create" /\ ~a.ok => "refused" \in kinds

LEMMA GrantedAfter ==
  ASSUME Memory, NEW r \in asked, NEW ok \in BOOLEAN, Granted(r, ok)
  PROVE  \E a, kinds : AnswerOf(r, a, kinds) /\ (odd \cup kinds \subseteq odd' => After(r, a))
<1>1. PICK kinds, why :
        /\ kinds = IF ok /\ GetUserName(r.id[2]) \notin {NoName, r.user} THEN {"relogged"} ELSE {}
        /\ r.cmd = "setup" /\ Answer(r, ok, NoTree, None, why, 0, kinds) /\ UNCHANGED <<trees, files>>
        /\ users' = IF ok THEN [users EXCEPT ![r.id[2]] = r.user] ELSE users
        /\ facts' = IF r.user = NoName THEN {} ELSE {Told(r.user, NoPath, LoginFact(ok, why))}
  BY DEF Granted
<1>a. PICK a : a = [cmd |-> "setup", ok |-> ok, tid |-> NoTree, fid |-> None, action |-> why, size |-> 0]
  OBVIOUS
<1>2. AnswerOf(r, a, kinds) BY <1>1, <1>a DEF AnswerOf, AnswerTypes, Trees
<1>3. /\ a.ok = ok /\ a.cmd = "setup" /\ r.cmd = "setup" /\ UNCHANGED <<trees, files>>
      /\ users' = IF a.ok THEN [users EXCEPT ![r.id[2]] = r.user] ELSE users
      /\ facts' = IF r.user = NoName THEN {} ELSE {Told(r.user, NoPath, LoginFact(a.ok, a.action))}
      /\ a.ok /\ GetUserName(r.id[2]) \notin {NoName, r.user} => "relogged" \in kinds
  BY <1>1, <1>a
<1>4. odd \cup kinds \subseteq odd' => After(r, a)
  BY <1>3 DEF After, UsersAfter, TreesLeft, FilesAfter, FactsAfter
<1>5. QED BY <1>2, <1>4

LEMMA MountedAfter ==
  ASSUME Memory, NEW r \in asked, NEW ok \in BOOLEAN, Mounted(r, ok)
  PROVE  \E a, kinds : AnswerOf(r, a, kinds) /\ (odd \cup kinds \subseteq odd' => After(r, a))
<1>1. r.cmd = "tcon" /\ UNCHANGED <<users, files>> BY DEF Mounted
<1>2. \E t \in Trees : \E kinds : /\ Answer(r, ok, t, None, "none", 0, kinds)
                                  /\ \A x \in Tids : trees'[x] = trees[x] \/ trees[x][1] = None
  <2>1. CASE ok
    <3>1. PICK t \in Tids : /\ trees[t][1] = None
                            /\ trees' = [trees EXCEPT ![t] = <<r.id[2], r.share>>]
                            /\ Answer(r, ok, t, None, "none", 0, IF treeMap[t] = None THEN {} ELSE {"remounted"})
      BY <2>1 DEF Mounted
    <3>2. \A x \in Tids : trees'[x] = trees[x] \/ trees[x][1] = None BY <3>1 DEF Memory, HostTypes
    <3>3. t \in Trees BY DEF Trees
    <3>4. QED BY <3>1, <3>2, <3>3
  <2>2. CASE ~ok BY <2>2 DEF Mounted, Trees
  <2>3. QED BY <2>1, <2>2
<1>3. PICK t \in Trees : \E kinds : /\ Answer(r, ok, t, None, "none", 0, kinds)
                                    /\ \A x \in Tids : trees'[x] = trees[x] \/ trees[x][1] = None
  BY <1>2
<1>4. PICK kinds : /\ Answer(r, ok, t, None, "none", 0, kinds)
                   /\ \A x \in Tids : trees'[x] = trees[x] \/ trees[x][1] = None
  BY <1>3
<1>5. PICK a : a = [cmd |-> "tcon", ok |-> ok, tid |-> t, fid |-> None, action |-> "none", size |-> 0] OBVIOUS
<1>6. AnswerOf(r, a, kinds) BY <1>1, <1>4, <1>5 DEF AnswerOf, AnswerTypes
<1>7. After(r, a) BY <1>1, <1>4, <1>5 DEF After, UsersAfter, TreesLeft, FilesAfter, FactsAfter
<1>8. QED BY <1>6, <1>7

LEMMA OpenedAfter ==
  ASSUME Memory, NEW r \in asked, NEW ok \in BOOLEAN, Opened(r, ok)
  PROVE  \E a, kinds : AnswerOf(r, a, kinds) /\ (odd \cup kinds \subseteq odd' => After(r, a))
<1>1. r.cmd = "create" /\ UNCHANGED <<users, trees>> /\ r.tid \in Trees
  BY DEF Opened, Memory, AllFormed, Formed, Trees
<1>2. CASE ~ok
  <2>1. PICK a : a = [cmd |-> "create", ok |-> ok, tid |-> r.tid, fid |-> None, action |-> "none", size |-> 0]
    OBVIOUS
  <2>2. AnswerOf(r, a, {"refused"}) /\ UNCHANGED files BY <1>1, <1>2, <2>1 DEF Opened, AnswerOf, AnswerTypes
  <2>3. After(r, a) BY <1>1, <1>2, <2>1, <2>2 DEF After, UsersAfter, TreesLeft, FilesAfter, FactsAfter
  <2>4. QED BY <2>2, <2>3
<1>3. CASE ok
  <2>1. PICK f \in Free, action \in {"opened", "created"} :
          /\ files' = [files EXCEPT ![f] = IF r.chain = "none" THEN FileOf(r) ELSE NotOpen]
          /\ facts' = (IF action = "opened" THEN {}
                       ELSE {Told(UserOf(r.id[2]), FileOf(r).path, IF FileOf(r).directory THEN "mkdir" ELSE "create")})
                      \cup (IF r.chain = "close" THEN Removal(UserOf(r.id[2]), FileOf(r)) ELSE {})
                      \cup (IF r.chain = "rename"
                            THEN {Event("rename", UserOf(r.id[2]), FileOf(r).path, <<FileOf(r).path[1], r.to>>, 0)}
                            ELSE {})
          /\ Answer(r, ok, r.tid, f, action, 0, (IF fileState[f].known THEN {"reused"} ELSE {})
                                                \cup OnPipe(r.tid, r.name))
    BY <1>3 DEF Opened
  <2>2. PICK a, kinds :
          /\ a = [cmd |-> "create", ok |-> ok, tid |-> r.tid, fid |-> f, action |-> action, size |-> 0]
          /\ kinds = (IF fileState[f].known THEN {"reused"} ELSE {}) \cup OnPipe(r.tid, r.name)
    OBVIOUS
  <2>3. f \in Fids /\ ~files[f].open /\ Naming(f) = {} BY DEF Free
  <2>4. AnswerOf(r, a, kinds) BY <1>1, <1>3, <2>1, <2>2, <2>3 DEF AnswerOf, AnswerTypes
  <2>5. (fileState[f].known => "reused" \in kinds) /\ OnPipe(r.tid, r.name) \subseteq kinds BY <2>2
  <2>6. r.chain = "none" =>
          facts' = IF action = "opened" THEN {}
                   ELSE {Told(UserOf(r.id[2]), FileOf(r).path, IF FileOf(r).directory THEN "mkdir" ELSE "create")}
    BY <2>1
  <2>7. odd \cup kinds \subseteq odd' => After(r, a)
    BY <1>1, <1>3, <2>1, <2>2, <2>3, <2>5, <2>6 DEF After, UsersAfter, TreesLeft, FilesAfter, FactsAfter
  <2>8. QED BY <2>4, <2>7
<1>4. QED BY <1>2, <1>3

LEMMA MovedAfter ==
  ASSUME Memory, NEW r \in asked, NEW ok \in BOOLEAN, Moved(r, ok)
  PROVE  \E a, kinds : AnswerOf(r, a, kinds) /\ (odd \cup kinds \subseteq odd' => After(r, a))
<1>1. PICK a : a = [cmd |-> r.cmd, ok |-> ok, tid |-> NoTree, fid |-> None, action |-> "none",
                    size |-> IF ok THEN 1 ELSE 0]
  OBVIOUS
<1>2. r.cmd \in {"read", "write"} BY DEF Moved
<1>3. AnswerOf(r, a, {}) BY <1>1, <1>2 DEF Moved, AnswerOf, AnswerTypes, Trees
<1>4. After(r, a) BY <1>1, <1>2 DEF Moved, After, UsersAfter, TreesLeft, FilesAfter, FactsAfter
<1>5. QED BY <1>3, <1>4

LEMMA ChangedAfter ==
  ASSUME Memory, NEW r \in asked, NEW ok \in BOOLEAN, Changed(r, ok)
  PROVE  \E a, kinds : AnswerOf(r, a, kinds) /\ (odd \cup kinds \subseteq odd' => After(r, a))
<1>1. PICK a : a = [cmd |-> r.cmd, ok |-> ok, tid |-> NoTree, fid |-> None, action |-> "none", size |-> 0]
  OBVIOUS
<1>2. r.cmd \in {"rename", "dispose"} /\ UNCHANGED <<users, trees>> BY DEF Changed
<1>3. AnswerOf(r, a, {}) BY <1>1, <1>2 DEF Changed, AnswerOf, AnswerTypes, Trees
<1>4. /\ r.cmd = "dispose" => files' = IF ok THEN [files EXCEPT ![r.fid].delete = r.on] ELSE files
      /\ r.cmd = "rename" => files' = IF ok THEN [files EXCEPT ![r.fid].path = <<files[r.fid].path[1], r.name>>]
                                      ELSE files
  BY DEF Changed
<1>5. After(r, a) BY <1>1, <1>2, <1>4 DEF After, UsersAfter, TreesLeft, FilesAfter, FactsAfter
<1>6. QED BY <1>3, <1>5

LEMMA EndedAfter ==
  ASSUME Memory, NEW r \in asked, Closed(r) \/ Unmounted(r) \/ LoggedOff(r)
  PROVE  \E a, kinds : AnswerOf(r, a, kinds) /\ (odd \cup kinds \subseteq odd' => After(r, a))
<1>1. PICK a : a = [cmd |-> r.cmd, ok |-> TRUE, tid |-> NoTree, fid |-> None, action |-> "none", size |-> 0]
  OBVIOUS
<1>2. r.cmd \in {"close", "tdis", "logoff"} BY DEF Closed, Unmounted, LoggedOff
<1>3. AnswerOf(r, a, {}) BY <1>1, <1>2 DEF Closed, Unmounted, LoggedOff, AnswerOf, AnswerTypes, Trees
<1>4. CASE Closed(r)
  <2>1. /\ r.cmd = "close" /\ UNCHANGED <<users, trees>> /\ files' = [files EXCEPT ![r.fid] = NotOpen]
        /\ facts' = IF ~files[r.fid].open \/ files[r.fid].path[1] = IPC THEN {}
                    ELSE {Event("read", UserOf(r.id[2]), files[r.fid].path, NoPath, n) : n \in {files[r.fid].readed} \ {0}}
                         \cup {Event("write", UserOf(r.id[2]), files[r.fid].path, NoPath, n) : n \in {files[r.fid].written} \ {0}}
                         \cup Removal(UserOf(r.id[2]), files[r.fid])
    BY <1>4 DEF Closed
  <2>2. UsersAfter(r, a) /\ TreesLeft(r) /\ FilesAfter(r, a) BY <1>1, <2>1 DEF UsersAfter, TreesLeft, FilesAfter
  <2>3. FactsAfter(r, a) BY <1>1, <2>1 DEF FactsAfter
  <2>4. QED BY <1>3, <2>2, <2>3 DEF After
<1>5. CASE Unmounted(r)
  <2>1. \A t \in Tids : trees'[t] = trees[t] \/ t = r.tid BY <1>5 DEF Unmounted, Memory, HostTypes
  <2>2. After(r, a) BY <1>1, <1>5, <2>1 DEF Unmounted, After, UsersAfter, TreesLeft, FilesAfter, FactsAfter
  <2>3. QED BY <1>3, <2>2
<1>6. CASE LoggedOff(r)
  <2>1. \A t \in Tids : trees'[t] = trees[t] \/ trees[t][1] = r.id[2] BY <1>6 DEF LoggedOff
  <2>2. After(r, a) BY <1>1, <1>6, <2>1 DEF LoggedOff, After, UsersAfter, TreesLeft, FilesAfter, FactsAfter
  <2>3. QED BY <1>3, <2>2
<1>7. QED BY <1>3, <1>4, <1>5, <1>6

(* An answer of the server, as the hosts and the dispatcher take it. *)
Response(r, a, i) ==
  /\ r \in asked /\ a.cmd = r.cmd /\ AnswerTypes(a) /\ Taken(a, i, r) /\ After(r, a)
  /\ asked' = asked \ {r} /\ UNCHANGED <<scenario, requests>> /\ odd \subseteq odd'
  /\ r.cmd = "create" /\ ~a.ok => "refused" \in odd'

LEMMA Responses ==
  ASSUME Memory, Respond PROVE \E r, a, i : Response(r, a, i)
<1>1. PICK r \in asked, ok \in BOOLEAN :
        \/ Granted(r, ok) \/ Mounted(r, ok) \/ Opened(r, ok) \/ Moved(r, ok) \/ Changed(r, ok)
        \/ ok /\ (Closed(r) \/ Unmounted(r) \/ LoggedOff(r))
  BY DEF Respond
<1>2. \E a, kinds : AnswerOf(r, a, kinds) /\ (odd \cup kinds \subseteq odd' => After(r, a))
  BY <1>1, GrantedAfter, MountedAfter, OpenedAfter, MovedAfter, ChangedAfter, EndedAfter
<1>3. PICK b, kinds : AnswerOf(r, b, kinds) /\ (odd \cup kinds \subseteq odd' => After(r, b)) BY <1>2
<1>4. asked' = asked \ {r} /\ UNCHANGED <<scenario, requests>> /\ odd \cup kinds \subseteq odd'
  BY <1>3, AnswerTaken DEF AnswerOf
<1>5. PICK a, i : /\ a.cmd = r.cmd /\ a.ok = b.ok /\ a.tid = b.tid /\ a.fid = b.fid
                  /\ a.action = b.action /\ a.size = b.size /\ Taken(a, i, r)
  BY <1>3, AnswerTaken DEF AnswerOf
<1>6. AnswerTypes(a) /\ After(r, a)
  BY <1>3, <1>4, <1>5 DEF AnswerOf, AnswerTypes, After, UsersAfter, FilesAfter, FactsAfter
<1>7. r.cmd = "create" /\ ~a.ok => "refused" \in odd' BY <1>3, <1>4, <1>5 DEF AnswerOf
<1>8. QED BY <1>4, <1>5, <1>6, <1>7 DEF Response

(* What a request under way keeps of the hosts until it is answered. *)
Attended(r) ==
  /\ r.cmd = "setup" <=> users[r.id[2]] = None
  /\ r.cmd = "create" => trees[r.tid][1] = r.id[2]
  /\ r.cmd = "close" => files[r.fid].open /\ files[r.fid].sid = r.id[2]
Separate(r, q) ==
  /\ r.cmd = "setup" /\ q.cmd = "setup" /\ r.id[2] = q.id[2] => r = q
  /\ q.cmd = "logoff" /\ r.id[2] = q.id[2] => r = q
  /\ r.cmd = "close" /\ q.cmd = "close" /\ r.fid = q.fid => r = q
  /\ r.cmd = "create" /\ q.cmd = "tdis" => r.tid # q.tid
Engaged == (\A r \in asked : Attended(r)) /\ \A r, q \in asked : Separate(r, q)

LEMMA RequestsEngage ==
  ASSUME Memory, Engaged, NEW r, Begins(r), asked' = asked \cup {r}, UNCHANGED <<users, trees, files>>
  PROVE  Engaged'
<1>1. Attended(r) BY DEF Begins, Attended, LoggedIn, OnFiles
<1>2. \A q \in asked' : Attended(q)' BY <1>1 DEF Attended, Engaged
<1>3. ASSUME NEW q \in asked PROVE Separate(r, q) /\ Separate(q, r)
  <2>1. Attended(q) /\ Formed(q) BY DEF Engaged, Memory, AllFormed
  <2>2. Separate(r, q) BY <1>1, <2>1 DEF Begins, Separate, Attended, LoggedIn, OnFiles
  <2>3. Separate(q, r) BY <1>1, <2>1 DEF Begins, Separate, Attended, LoggedIn, OnFiles
  <2>4. QED BY <2>2, <2>3
<1>4. Separate(r, r) BY DEF Separate
<1>5. QED BY <1>2, <1>3, <1>4 DEF Engaged

LEMMA ResponseEngages ==
  ASSUME Memory, Engaged, NEW r, NEW a, NEW i, Response(r, a, i) PROVE Engaged'
<1>1. /\ asked' = asked \ {r} /\ r \in asked /\ UsersAfter(r, a) /\ TreesLeft(r) /\ FilesAfter(r, a) /\ Formed(r)
      /\ users \in [Sids -> Users \cup {None}] /\ trees \in [Tids -> (Sids \cup {None}) \X (Shares \cup {None})]
      /\ files \in [Fids -> OpenFiles] /\ r.id[2] \in Sids /\ a.cmd = r.cmd /\ Attended(r)
  BY DEF Response, After, Memory, AllFormed, HostTypes, Ids, Engaged
<1>2. ASSUME NEW q \in asked, q # r PROVE Attended(q)'
  <2>1. Attended(q) /\ Separate(q, r) /\ Separate(r, q) /\ Formed(q) /\ q.id[2] \in Sids
    BY <1>2, <1>1 DEF Engaged, Memory, AllFormed, Ids
  <2>2. users'[q.id[2]] = users[q.id[2]] BY <1>1, <1>2, <2>1 DEF UsersAfter, Attended, Separate
  <2>3. q.cmd = "create" => trees'[q.tid] = trees[q.tid]
    <3>1. SUFFICES ASSUME q.cmd = "create", trees'[q.tid] # trees[q.tid] PROVE FALSE OBVIOUS
    <3>2. q.tid \in Tids /\ trees[q.tid][1] = q.id[2] /\ q.id[2] # None
      BY <2>1, <3>1, Smb2Assumption DEF Formed, Attended
    <3>3. QED BY <1>1, <1>2, <2>1, <3>1, <3>2 DEF TreesLeft, Separate
  <2>4. q.cmd = "close" => files'[q.fid].open /\ files'[q.fid].sid = files[q.fid].sid
    <3>1. SUFFICES ASSUME q.cmd = "close"
                   PROVE  files'[q.fid].open /\ files'[q.fid].sid = files[q.fid].sid
      OBVIOUS
    <3>2. /\ q.fid \in Fids /\ files[q.fid].open /\ files[q.fid].sid = q.id[2] /\ files[q.fid] \in OpenFiles
      BY <1>1, <2>1, <3>1 DEF Formed, Attended, OnFiles
    <3>3. CASE r.cmd = "create" /\ a.ok BY <1>1, <3>2, <3>3 DEF FilesAfter
    <3>4. CASE r.cmd = "close" BY <1>1, <1>2, <2>1, <3>1, <3>2, <3>4 DEF FilesAfter, Separate
    <3>5. CASE r.cmd \in {"read", "write", "dispose", "rename"} BY <1>1, <3>2, <3>5 DEF FilesAfter, OpenFiles
    <3>6. CASE r.cmd = "logoff" BY <1>1, <1>2, <2>1, <3>2, <3>6 DEF FilesAfter, Separate
    <3>7. CASE r.cmd \in {"setup", "tcon", "tdis"} \/ (r.cmd = "create" /\ ~a.ok)
      BY <1>1, <3>2, <3>7 DEF FilesAfter
    <3>8. QED BY <1>1, <3>3, <3>4, <3>5, <3>6, <3>7 DEF Formed, Kinds, OnFiles
  <2>5. QED BY <2>1, <2>2, <2>3, <2>4 DEF Attended
<1>3. QED BY <1>1, <1>2 DEF Engaged

(* No entry of an open that is taken for a deletion is kept, and no other *)
(* request that misleads is under way. *)
Clean == odd \cap Misleading = {}
Ordinary(r) ==
  /\ r.cmd = "create" => r.chain = "none" /\ ~DeletesOnOpen(r)
  /\ r.cmd # "rename" /\ (r.cmd = "dispose" => r.on)
Straight == Clean => /\ \A r \in asked : Ordinary(r)
                     /\ \A i \in 1..Len(temp) : ~temp[i].deleteOpen

LEMMA RequestsStraight ==
  ASSUME Memory, Straight, NEW r, NEW kinds, Begins(r), Marks(r, kinds), Noticed(r),
         asked' = asked \cup {r}, odd \cup kinds \subseteq odd'
  PROVE  Straight'
<1>1. SUFFICES ASSUME Clean' PROVE /\ \A q \in asked' : Ordinary(q)
                                   /\ \A i \in 1..Len(temp') : ~temp'[i].deleteOpen
  BY DEF Straight
<1>2. Clean /\ kinds \cap Misleading = {} BY <1>1 DEF Clean
<1>3. Ordinary(r) BY <1>2 DEF Marks, Ordinary, Misleading
<1>4. ~Entry(r).deleteOpen
  <2>1. Formed(r) /\ r.id = <<requests + 1, r.id[2]>> /\ r.id[2] \in Sids /\ requests + 1 \in Nat
    BY StoredFacts DEF Begins, Id
  <2>2. QED BY <1>3, <2>1, EntryAny DEF Ordinary
<1>5. QED BY <1>2, <1>3, <1>4 DEF Straight, Noticed

LEMMA ResponseStraight ==
  ASSUME Memory, Straight, NEW r, NEW a, NEW i, Response(r, a, i) PROVE Straight'
<1>1. /\ asked' = asked \ {r} /\ (Clean' => Clean) /\ Left /\ Stored
  BY TakenRemains DEF Response, Clean, Remains, Memory
<1>2. \A k \in 1..Len(temp) : Done(k) = [temp EXCEPT ![k] = Blank] /\ Len(Done(k)) = Len(temp) /\ Len(temp) \in Nat
  BY <1>1 DEF Stored, Done
<1>3. ~Blank.deleteOpen BY DEF Blank
<1>4. Clean => \A k \in 1..Len(temp') : ~temp'[k].deleteOpen BY <1>1, <1>2, <1>3 DEF Left, Straight
<1>5. QED BY <1>1, <1>4 DEF Straight

--------------------------------
(* A session has the name of its user or none: the request of a session *)
(* setup is kept until it is answered, if its id had a user before. *)
Minded == odd \cap {"lost", "refused", "noToken", "many"} = {}
UsersShown == \A s \in Sids : users[s] # None => GetUserName(s) \in {NoName, users[s]}
Entered(r) == \E k \in 1..Len(temp) : temp[k].id = r.id
SetupsKept == \A r \in asked : r.cmd = "setup" => GetUserName(r.id[2]) = NoName \/ Entered(r)
UsersNamed == ~StaleUser => UsersShown /\ (Minded => held = NothingHeld /\ SetupsKept)

LEMMA MindedBefore ==
  ASSUME odd \subseteq odd' PROVE (Minded' => Minded) /\ (~StaleUser' => ~StaleUser)
BY DEF Minded, StaleUser

LEMMA EntriesPushed ==
  ASSUME Memory, NEW r, Begins(r), temp' = Pushed(Entry(r), temp, TempLimit),
         ~(Len(temp) = TempLimit /\ \E q \in asked : q.id = temp[TempLimit].id)
  PROVE  Entered(r)' /\ \A q \in asked : Entered(q) => Entered(q)'
<1>1. Stored /\ Entry(r) \in Entries /\ Entry(r).id = r.id /\ TempLimit \in Nat \ {0}
  <2>1. Formed(r) /\ r.id = <<requests + 1, r.id[2]>> /\ r.id[2] \in Sids /\ requests + 1 \in Nat
    BY StoredFacts DEF Begins, Id
  <2>2. QED BY <2>1, EntryAny, Smb2Assumption DEF Memory
<1>2. temp' \in Seq(Entries) /\ InFront(temp', Entry(r), temp, TempLimit) /\ temp \in Seq(Entries)
  BY <1>1, PushedFacts DEF Stored
<1>3. Entered(r)' BY <1>1, <1>2 DEF InFront, Entered
<1>4. ASSUME NEW q \in asked, NEW k \in 1..Len(temp), temp[k].id = q.id
      PROVE  \E j \in 1..Len(temp') : temp'[j].id = q.id
  <2>1. ~(k = TempLimit /\ Len(temp) = TempLimit) BY <1>4
  <2>2. Len(temp) <= TempLimit /\ Len(temp) \in Nat /\ Len(temp') \in Nat BY <1>1, <1>2 DEF Stored
  <2>3. k + 1 \in 2..Len(temp') BY <1>1, <1>2, <2>1, <2>2 DEF InFront
  <2>4. temp'[k + 1] = temp[k] /\ k + 1 \in 1..Len(temp') BY <1>2, <2>2, <2>3 DEF InFront
  <2>5. QED BY <1>4, <2>4
<1>5. QED BY <1>3, <1>4 DEF Entered

LEMMA RequestsUsers ==
  ASSUME Memory, UsersNamed, NEW r, NEW kinds, Begins(r), Marks(r, kinds), Noted(r), asked' = asked \cup {r},
         odd \cup kinds \subseteq odd', UNCHANGED users
  PROVE  UsersNamed'
<1> SUFFICES ASSUME ~StaleUser' PROVE UsersShown' /\ (Minded' => held' = NothingHeld /\ SetupsKept')
  BY DEF UsersNamed
<1>1. /\ UsersShown /\ (Minded => held = NothingHeld /\ SetupsKept) /\ (Minded' => Minded)
      /\ Stored /\ Formed(r) /\ r.id[2] \in Sids /\ NoName # None /\ None \notin Users
  BY MindedBefore, Smb2Assumption DEF UsersNamed, Memory, Begins
<1>2. CASE Idle /\ ((held' = held /\ held.client) \/ "lost" \in odd')
  <2>1. ~Minded' BY <1>1, <1>2 DEF Minded, NothingHeld
  <2>2. UNCHANGED userName BY <1>2 DEF Idle
  <2>3. QED BY <1>1, <2>1, <2>2 DEF UsersShown, GetUserName
<1>3. CASE r.cmd = "logoff" /\ LogoffRequest(r)
  <2>1. \A s \in Sids : userName'[s] \in {userName[s], None} BY <1>1, <1>3 DEF LogoffRequest, Forget, Stored
  <2>2. \A s \in Sids : GetUserName(s)' \in {GetUserName(s), NoName} BY <2>1 DEF GetUserName
  <2>3. UsersShown' BY <1>1, <2>2 DEF UsersShown
  <2>4. CASE Forget
    <3>1. held' = NothingHeld /\ \A s \in Sids : GetUserName(s)' = NoName BY <2>4 DEF Forget, GetUserName
    <3>2. \A q \in asked' : q.id[2] \in Sids BY <1>1 DEF Memory, Ids
    <3>3. QED BY <2>3, <3>1, <3>2 DEF SetupsKept
  <2>5. CASE UNCHANGED <<temp, held>>
    <3>1. Minded' => SetupsKept'
      <4>1. \A q \in asked : q.id[2] \in Sids BY <1>1 DEF Memory, Ids
      <4>2. QED BY <1>1, <1>3, <2>2, <2>5, <4>1 DEF SetupsKept, Entered
    <3>2. QED BY <1>1, <2>3, <2>5, <3>1
  <2>6. QED BY <1>3, <2>4, <2>5 DEF LogoffRequest
<1>4. CASE r.cmd = "create" /\ ChainedRename(r)
  <2>1. UNCHANGED <<temp, held, userName>> BY <1>4 DEF ChainedRename, analyzer
  <2>2. QED BY <1>1, <1>4, <2>1 DEF UsersShown, SetupsKept, Entered, GetUserName
<1>5. CASE /\ OtherRequest(r)
           /\ Remembered(r) /\ Len(temp) = TempLimit /\ (\E q \in asked : q.id = temp[TempLimit].id) =>
                "many" \in odd'
  <2>1. /\ temp' = IF Remembered(r) THEN Pushed(Entry(r), temp, TempLimit) ELSE temp
        /\ held' = [held EXCEPT !.client = r.cmd = "setup" /\ ~r.token] /\ UNCHANGED userName
    BY <1>5 DEF OtherRequest
  <2>2. UsersShown' BY <1>1, <2>1 DEF UsersShown, GetUserName
  <2>3. ASSUME Minded' PROVE held' = NothingHeld /\ SetupsKept'
    <3>1. ~(r.cmd = "setup" /\ ~r.token) /\ held = NothingHeld BY <1>1, <2>3 DEF Minded, Marks
    <3>2. held' = NothingHeld
      <4>1. r.cmd = "setup" /\ ~r.token <=> FALSE BY <3>1
      <4>2. held' = [NothingHeld EXCEPT !.client = FALSE] BY <2>1, <3>1, <4>1
      <4>3. QED BY <4>2 DEF NothingHeld
    <3>3. r.cmd = "setup" => Remembered(r) BY <3>1 DEF Remembered
    <3>4. \A q \in asked : Entered(q) => Entered(q)'
      <4>1. CASE Remembered(r) BY <1>5, <2>1, <2>3, <4>1, EntriesPushed DEF Minded
      <4>2. CASE ~Remembered(r) BY <2>1, <4>2 DEF Entered
      <4>3. QED BY <4>1, <4>2
    <3>5. r.cmd = "setup" => Entered(r)' BY <1>5, <2>1, <2>3, <3>3, EntriesPushed DEF Minded
    <3>6. \A s : GetUserName(s)' = GetUserName(s) BY <2>1 DEF GetUserName
    <3>7. SetupsKept BY <1>1, <2>3
    <3>8. SetupsKept' BY <3>4, <3>5, <3>6, <3>7 DEF SetupsKept
    <3>9. QED BY <3>2, <3>8
  <2>4. QED BY <2>2, <2>3
<1>6. QED BY <1>2, <1>3, <1>4, <1>5 DEF Noted

(* What a treated answer leaves of the entries and of the refusal kept. *)
LEMMA TreatedKeeps ==
  ASSUME Memory, NEW r \in asked, NEW a, NEW i, a.cmd = r.cmd, Reads(a, i, r), Treated(a, i)
  PROVE  /\ \A q \in asked : q # r /\ Entered(q) => Entered(q)'
         /\ ~(r.cmd = "create" /\ ~a.ok) => held' = held
         /\ r.cmd # "setup" => userName' = userName
<1>1. Stored /\ Formed(r) /\ \A q \in asked : q # r => q.id # r.id BY DEF Memory, AllFormed, Ids
<1>2. temp' = temp \/ (i # 0 /\ temp' = Done(i))
  BY DEF Treated, Idle, SetupResponse, TconResponse, CreateResponse, OpenResponse, CloseResponse,
         CountResponse, SetInfoResponse
<1>3. ASSUME NEW q \in asked, q # r, NEW k \in 1..Len(temp), temp[k].id = q.id
      PROVE  Entered(q)'
  <2>1. CASE temp' = temp BY <1>3, <2>1 DEF Entered
  <2>2. CASE i # 0 /\ temp' = Done(i)
    <3>1. temp[i].id = r.id /\ k # i BY <1>1, <1>3, <2>2 DEF Reads
    <3>2. temp'[k] = temp[k] /\ Len(temp') = Len(temp) BY <1>1, <2>2, <3>1 DEF Done, Stored
    <3>3. QED BY <1>3, <3>2 DEF Entered
  <2>3. QED BY <1>2, <2>1, <2>2
<1>4. ~(r.cmd = "create" /\ ~a.ok) => held' = held
  BY DEF Treated, Idle, SetupResponse, TconResponse, CreateResponse
<1>5. r.cmd # "setup" => userName' = userName BY DEF Treated, Idle, TconResponse, CreateResponse
<1>6. QED BY <1>3, <1>4, <1>5 DEF Entered

LEMMA ResponseUsers ==
  ASSUME Memory, Engaged, UsersNamed, NEW r, NEW a, NEW i, Response(r, a, i) PROVE UsersNamed'
<1> SUFFICES ASSUME ~StaleUser' PROVE UsersShown' /\ (Minded' => held' = NothingHeld /\ SetupsKept')
  BY DEF UsersNamed
<1>1. /\ UsersShown /\ (Minded => held = NothingHeld /\ SetupsKept) /\ (Minded' => Minded)
      /\ Stored /\ Formed(r) /\ r.id[2] \in Sids /\ NoName # None /\ None \notin Users
      /\ users \in [Sids -> Users \cup {None}] /\ Attended(r) /\ userName \in [Sids -> Users \cup {None}]
  BY MindedBefore, Smb2Assumption DEF UsersNamed, Memory, Response, AllFormed, Ids, HostTypes, Engaged, Stored
<1>2. /\ r \in asked /\ asked' = asked \ {r} /\ UsersAfter(r, a) /\ Taken(a, i, r) /\ a.cmd = r.cmd
      /\ r.cmd = "create" /\ ~a.ok => "refused" \in odd'
  BY DEF Response, After
<1>3. \A q \in asked' : q \in asked /\ q # r /\ q.id[2] \in Sids /\ (r.cmd = "setup" /\ q.cmd = "setup" => q.id[2] # r.id[2])
  BY <1>2 DEF Memory, Ids, Engaged, Separate
<1>4. ASSUME userName' = userName, Minded' /\ r.cmd = "setup" => GetUserName(r.id[2]) \in {NoName, r.user}
      PROVE  UsersShown'
  <2>1. \A s \in Sids : GetUserName(s)' = GetUserName(s) BY <1>4 DEF GetUserName
  <2>2. \A s \in Sids : users'[s] \in {users[s], None} \/ (r.cmd = "setup" /\ a.ok /\ s = r.id[2] /\ users'[s] = r.user)
    BY <1>1, <1>2 DEF UsersAfter, Formed, Kinds, OnFiles
  <2>3. r.cmd = "setup" /\ a.ok => GetUserName(r.id[2]) \in {NoName, r.user}
    BY <1>2, <1>4 DEF UsersAfter, StaleUser, Minded
  <2>4. QED BY <1>1, <2>1, <2>2, <2>3 DEF UsersShown
<1>5. CASE (Idle /\ "lost" \in odd') \/ (held.server # NothingHeld.server /\ HeldResponse)
  <2>1. ~Minded' /\ userName' = userName BY <1>1, <1>5 DEF Idle, Minded, HeldResponse
  <2>2. QED BY <1>4, <2>1
<1>6. CASE Reads(a, i, r) /\ Treated(a, i)
  <2>1. /\ \A q \in asked : q # r /\ Entered(q) => Entered(q)'
        /\ ~(r.cmd = "create" /\ ~a.ok) => held' = held
        /\ r.cmd # "setup" => userName' = userName
    BY <1>2, <1>6, TreatedKeeps
  <2>2. Minded' => held' = NothingHeld BY <1>1, <1>2, <2>1 DEF Minded
  <2>3. CASE userName' = userName
    <3>1. \A s \in Sids : GetUserName(s)' = GetUserName(s) BY <2>3 DEF GetUserName
    <3>2. Minded' => SetupsKept' BY <1>1, <1>2, <1>3, <2>1, <3>1 DEF SetupsKept
    <3>3. Minded' /\ r.cmd = "setup" => GetUserName(r.id[2]) \in {NoName, r.user}
      <4>1. SUFFICES ASSUME Minded', r.cmd = "setup", GetUserName(r.id[2]) # NoName
                     PROVE  GetUserName(r.id[2]) = r.user
        OBVIOUS
      <4>2. Entered(r) /\ a.id = r.id BY <1>1, <1>2, <1>6, <4>1 DEF SetupsKept, Reads
      <4>3. i # 0 /\ i \in 1..Len(temp) /\ Own(temp[i], r) BY <1>6, <4>2 DEF Reads, Entered
      <4>4. SetupResponse(a, i) BY <1>2, <1>6, <4>1 DEF Treated, OnFiles
      <4>5. userName' = [userName EXCEPT ![r.id[2]] = r.user] /\ r.user \in Users
        BY <1>1, <4>1, <4>2, <4>3, <4>4 DEF SetupResponse, Own, Formed
      <4>6. GetUserName(r.id[2]) = r.user BY <1>1, <2>3, <4>5 DEF GetUserName
      <4>7. QED BY <4>6
    <3>4. QED BY <1>4, <2>2, <2>3, <3>2, <3>3
  <2>4. CASE userName' # userName
    <3>1. r.cmd = "setup" /\ SetupResponse(a, i) /\ a.id = r.id
      BY <1>2, <1>6, <2>1, <2>4 DEF Treated, OnFiles, Reads
    <3>2. i # 0 /\ Own(temp[i], r) BY <1>6, <2>4, <3>1 DEF SetupResponse, Reads
    <3>3. userName' = [userName EXCEPT ![r.id[2]] = r.user] /\ r.user \in Users
      BY <1>1, <3>1, <3>2 DEF SetupResponse, Own, Formed
    <3>4. /\ GetUserName(r.id[2])' = r.user
          /\ \A s \in Sids : s # r.id[2] => GetUserName(s)' = GetUserName(s)
      BY <1>1, <3>3 DEF GetUserName
    <3>5. users' = IF a.ok THEN [users EXCEPT ![r.id[2]] = r.user] ELSE users BY <1>2, <3>1 DEF UsersAfter
    <3>6. users[r.id[2]] = None BY <1>1, <3>1 DEF Attended
    <3>7. UsersShown' BY <1>1, <3>4, <3>5, <3>6 DEF UsersShown
    <3>8. Minded' => SetupsKept' BY <1>1, <1>2, <1>3, <2>1, <3>1, <3>4 DEF SetupsKept
    <3>9. QED BY <2>2, <3>7, <3>8
  <2>5. QED BY <2>3, <2>4
<1>7. QED BY <1>2, <1>5, <1>6 DEF Taken

--------------------------------
(* What is kept of an open file is never more than the file. *)
Follows(s, o) ==
  /\ s.path[2] = o.path[2] /\ s.path[1] \in Trees \cup {o.path[1]}
  /\ s.delete => o.delete
  /\ s.isdirectory = o.directory /\ s.readed <= o.readed /\ s.written <= o.written
  /\ o.path[1] = IPC => Suppressed(s)
Following == \A f \in Fids : fileState[f].known /\ files[f].open => Follows(fileState[f], files[f])
FilesFollow == Clean /\ ~StaleTree => Following

(* A tree that is used has the name of its share or its id. *)
LEMMA TreeName ==
  ASSUME Memory, TreesShown, NEW t \in Tids, trees[t][1] # None, NEW n \in Names
  PROVE  /\ MakePath(t, n)[2] = n /\ MakePath(t, n)[1] \in Trees \cup {trees[t][2]}
         /\ treeMap[t] = None => MakePath(t, n)[1] = t
         /\ treeMap[t] # None => treeMap[t] = trees[t][2]
BY DEF MakePath, TreesShown, Trees

(* When an answer is not read, the file may be more than what is kept. *)
LEMMA UnreadFollows ==
  ASSUME Memory, Following, Clean', NEW r \in asked, NEW a, AnswerTypes(a), a.cmd = r.cmd, FilesAfter(r, a), Ordinary(r)
  PROVE  \A f \in Fids : fileState[f].known /\ files'[f].open => Follows(fileState[f], files'[f])
<1>1. /\ Formed(r) /\ files \in [Fids -> OpenFiles] /\ \A f \in Fids : fileState[f] \in States
  BY DEF Memory, AllFormed, HostTypes, Stored, Handles
<1> SUFFICES ASSUME NEW f \in Fids, fileState[f].known, files'[f].open PROVE Follows(fileState[f], files'[f])
  OBVIOUS
<1>2. CASE files'[f] = files[f] BY <1>2 DEF Following
<1>3. CASE r.cmd = "create" /\ a.ok /\ f = a.fid BY <1>3 DEF FilesAfter, Clean, Misleading
<1>4. CASE r.cmd = "create" /\ a.ok /\ f # a.fid BY <1>1, <1>2, <1>4 DEF FilesAfter
<1>5. CASE r.cmd = "close"
  <2>1. ~NotOpen.open BY DEF NotOpen
  <2>2. QED BY <1>1, <1>2, <1>5, <2>1 DEF FilesAfter
<1>6. CASE r.cmd = "read"
  <2>1. files'[f] = files[f] \/ files'[f] = [files[f] EXCEPT !.readed = @ + 1] BY <1>1, <1>6 DEF FilesAfter
  <2>2. files[f].open /\ Follows(fileState[f], files[f]) /\ files[f] \in OpenFiles /\ fileState[f] \in States
    BY <1>1, <2>1 DEF Following, OpenFiles
  <2>3. QED BY <2>1, <2>2 DEF Follows, OpenFiles, States
<1>7. CASE r.cmd = "write"
  <2>1. files'[f] = files[f] \/ files'[f] = [files[f] EXCEPT !.written = @ + 1] BY <1>1, <1>7 DEF FilesAfter
  <2>2. files[f].open /\ Follows(fileState[f], files[f]) /\ files[f] \in OpenFiles /\ fileState[f] \in States
    BY <1>1, <2>1 DEF Following, OpenFiles
  <2>3. QED BY <2>1, <2>2 DEF Follows, OpenFiles, States
<1>8. CASE r.cmd = "dispose"
  <2>1. files'[f] = files[f] \/ files'[f] = [files[f] EXCEPT !.delete = TRUE]
    <3>1. r.on = TRUE /\ r.fid \in Fids BY <1>1, <1>8 DEF Ordinary, Formed, OnFiles
    <3>2. files' = IF a.ok THEN [files EXCEPT ![r.fid].delete = TRUE] ELSE files BY <1>8, <3>1 DEF FilesAfter
    <3>3. QED BY <1>1, <3>1, <3>2
  <2>2. files[f].open /\ Follows(fileState[f], files[f]) /\ files[f] \in OpenFiles
    BY <1>1, <2>1 DEF Following, OpenFiles
  <2>3. QED BY <2>1, <2>2 DEF Follows, OpenFiles
<1>9. CASE r.cmd = "logoff"
  <2>1. ~NotOpen.open BY DEF NotOpen
  <2>2. QED BY <1>1, <1>2, <1>9, <2>1 DEF FilesAfter
<1>10. CASE r.cmd \in {"setup", "tcon", "tdis"} \/ (r.cmd = "create" /\ ~a.ok) BY <1>2, <1>10 DEF FilesAfter
<1>11. QED BY <1>1, <1>3, <1>4, <1>5, <1>6, <1>7, <1>8, <1>9, <1>10 DEF Formed, Ordinary, Kinds, OnFiles

LEMMA OpenFollows ==
  ASSUME Memory, TreesShown, Clean', NEW r \in asked, Attended(r), NEW a, NEW i, AnswerTypes(a), a.cmd = r.cmd,
         FilesAfter(r, a), Ordinary(r), Reads(a, i, r), i # 0, r.cmd = "create", a.ok,
         OpenResponse(i, a.id, a.tid, a.fid, a.action)
  PROVE  /\ \A f \in Fids : f # a.fid => fileState'[f] = fileState[f]
         /\ Follows(fileState'[a.fid], files'[a.fid])
<1>1. /\ r.tid \in Tids /\ r.name \in Names /\ trees[r.tid][1] # None /\ a.tid = r.tid /\ a.fid \in Handles /\ a.fid \in Fids
      /\ files \in [Fids -> OpenFiles] /\ fileState \in [Handles -> States]
  BY Smb2Assumption DEF Memory, AllFormed, Formed, Attended, Ids, HostTypes, Stored, AnswerTypes, Handles, FilesAfter
<1>2. fileState[a.fid] = Unknown BY <1>1 DEF FilesAfter, Clean, Misleading, Memory, Counted, Counts
<1>3. files' = [files EXCEPT ![a.fid] = FileOf(r)] BY DEF FilesAfter, Ordinary
<1>4. Own(temp[i], r) /\ temp[i].name = r.name BY DEF Reads, Own
<1>5. PICK p : p = MakePath(r.tid, r.name) OBVIOUS
<1>6. /\ fileState' = [fileState EXCEPT ![a.fid] =
           [@ EXCEPT !.known = TRUE, !.isipc = IsIpc(r.tid), !.isdirectory = temp[i].directory,
                     !.delete = temp[i].delete, !.path = p]]
  BY <1>1, <1>4, <1>5 DEF OpenResponse
<1>7. /\ p[2] = r.name /\ p[1] \in Trees \cup {trees[r.tid][2]} /\ (treeMap[r.tid] = None => p[1] = r.tid)
      /\ treeMap[r.tid] # None => treeMap[r.tid] = trees[r.tid][2]
  BY <1>1, <1>5, TreeName
<1>8. PICK s : s = fileState'[a.fid] OBVIOUS
<1>9. /\ s.isipc = IsIpc(r.tid) /\ s.path = p /\ s.readed = 0 /\ s.written = 0
      /\ s.isdirectory = temp[i].directory /\ s.delete = temp[i].delete
  BY <1>1, <1>2, <1>6, <1>8 DEF Unknown
<1>10. PICK o : o = files'[a.fid] OBVIOUS
<1>11. /\ o.path[2] = r.name /\ o.path[1] = trees[r.tid][2] /\ o.readed = 0 /\ o.written = 0
       /\ o.directory = temp[i].directory /\ o.delete = temp[i].delete
  BY <1>1, <1>3, <1>4, <1>10 DEF FileOf, Own
<1>12. o.path[1] = IPC => Suppressed(s)
  <2>1. SUFFICES ASSUME trees[r.tid][2] = IPC, ~IsIpc(r.tid) PROVE Suppressed(s) BY <1>9, <1>11 DEF Suppressed
  <2>2. treeMap[r.tid] = None BY <1>7, <2>1 DEF IsIpc
  <2>3. p[1] \in Trees BY <1>1, <1>7, <2>2 DEF Trees
  <2>4. r.name \in Pipes BY <2>1 DEF OnPipe, FilesAfter, Clean, Misleading
  <2>5. QED BY <1>7, <1>9, <2>3, <2>4 DEF Suppressed
<1>13. Follows(s, o) BY <1>7, <1>9, <1>11, <1>12 DEF Follows
<1>14. \A f \in Fids : f # a.fid => fileState'[f] = fileState[f] BY <1>1, <1>6 DEF Handles
<1>15. QED BY <1>8, <1>10, <1>13, <1>14

(* An answer that is read keeps up with the file. *)
LEMMA ReadFollows ==
  ASSUME Memory, Following, NEW r \in asked, NEW a, NEW i, AnswerTypes(a), a.cmd = r.cmd,
         FilesAfter(r, a), Ordinary(r), Reads(a, i, r), i # 0, Treated(a, i),
         r.cmd \in OnFiles
  PROVE  /\ \A f \in Fids : f # r.fid => fileState'[f] = fileState[f]
         /\ fileState'[r.fid].known /\ files'[r.fid].open => Follows(fileState'[r.fid], files'[r.fid])
<1>1. /\ r.fid \in Fids /\ r.fid \in Handles /\ files \in [Fids -> OpenFiles] /\ fileState \in [Handles -> States]
      /\ temp[i].fid = r.fid /\ (r.cmd = "dispose" => temp[i].info = "disposition" /\ temp[i].delete /\ r.on)
      /\ files[r.fid] \in OpenFiles /\ fileState[r.fid] \in States
  BY DEF Memory, AllFormed, Formed, HostTypes, Stored, Handles, Reads, Own, OnFiles, Ordinary
<1>2. CASE r.cmd = "close"
  <2>1. CloseResponse(a, i) BY <1>2 DEF Treated, OnFiles
  <2>2. fileState' = [fileState EXCEPT ![r.fid] = Unknown] BY <1>1, <2>1 DEF CloseResponse
  <2>3. QED BY <1>1, <2>2 DEF Unknown, Handles
<1>3. CASE r.cmd \in {"read", "write"}
  <2>1. CountResponse(a, i) BY <1>3 DEF Treated, OnFiles
  <2>2. fileState' = IF ~fileState[r.fid].known THEN fileState
                     ELSE IF r.cmd = "read" THEN [fileState EXCEPT ![r.fid].readed = @ + a.size]
                     ELSE [fileState EXCEPT ![r.fid].written = @ + a.size]
    BY <1>1, <2>1 DEF CountResponse
  <2>3. a.size \in {0, 1} /\ a.size = IF a.ok THEN 1 ELSE 0 BY <1>3 DEF AnswerTypes, FilesAfter
  <2>4. /\ files'[r.fid].open = files[r.fid].open
        /\ files'[r.fid] = IF r.cmd = "read" THEN [files[r.fid] EXCEPT !.readed = @ + a.size]
                           ELSE [files[r.fid] EXCEPT !.written = @ + a.size]
    BY <1>1, <1>3, <2>3 DEF FilesAfter, OpenFiles
  <2>5. CASE fileState[r.fid].known /\ files[r.fid].open
    <3>1. Follows(fileState[r.fid], files[r.fid]) BY <1>1, <2>5 DEF Following
    <3>2. fileState'[r.fid] = IF r.cmd = "read" THEN [fileState[r.fid] EXCEPT !.readed = @ + a.size]
                              ELSE [fileState[r.fid] EXCEPT !.written = @ + a.size]
      BY <1>1, <2>2, <2>5
    <3>3. \A f \in Fids : f # r.fid => fileState'[f] = fileState[f] BY <1>1, <2>2 DEF Handles
    <3>4. Follows(fileState'[r.fid], files'[r.fid])
      <4>1. CASE r.cmd = "read" BY <1>1, <2>3, <2>4, <3>1, <3>2, <4>1 DEF Follows, Suppressed, States, OpenFiles
      <4>2. CASE r.cmd = "write"
        BY <1>1, <2>3, <2>4, <3>1, <3>2, <4>2 DEF Follows, Suppressed, States, OpenFiles
      <4>3. QED BY <1>3, <4>1, <4>2
    <3>5. QED BY <3>3, <3>4
  <2>6. CASE ~(fileState[r.fid].known /\ files[r.fid].open)
    <3>1. \A f \in Fids : f # r.fid => fileState'[f] = fileState[f] BY <1>1, <2>2 DEF Handles
    <3>2. fileState'[r.fid].known = fileState[r.fid].known BY <1>1, <2>2 DEF States
    <3>3. QED BY <2>4, <2>6, <3>1, <3>2
  <2>7. QED BY <2>5, <2>6
<1>4. CASE r.cmd = "dispose"
  <2>1. SetInfoResponse(a, i) BY <1>4 DEF Treated, OnFiles
  <2>2. fileState' = IF fileState[r.fid].known /\ a.ok
                     THEN [fileState EXCEPT ![r.fid].delete = TRUE] ELSE fileState
    <3>1. temp[i].delete = TRUE /\ temp[i].info = "disposition" BY <1>1, <1>4 DEF Reads, Memory, Stored, Entries
    <3>2. QED BY <1>1, <2>1, <3>1 DEF SetInfoResponse
  <2>3. files' = IF a.ok THEN [files EXCEPT ![r.fid].delete = TRUE] ELSE files
    BY <1>1, <1>4 DEF FilesAfter, Memory, AllFormed, Formed
  <2>4. \A f \in Fids : f # r.fid => fileState'[f] = fileState[f] BY <1>1, <2>2 DEF Handles
  <2>5. CASE fileState[r.fid].known /\ files[r.fid].open
    <3>1. Follows(fileState[r.fid], files[r.fid]) BY <1>1, <2>5 DEF Following
    <3>2. /\ fileState'[r.fid] = IF a.ok THEN [fileState[r.fid] EXCEPT !.delete = TRUE] ELSE fileState[r.fid]
          /\ files'[r.fid] = IF a.ok THEN [files[r.fid] EXCEPT !.delete = TRUE] ELSE files[r.fid]
      BY <1>1, <2>2, <2>3, <2>5
    <3>3. Follows(fileState'[r.fid], files'[r.fid])
      BY <1>1, <3>1, <3>2 DEF Follows, Suppressed, States, OpenFiles
    <3>4. QED BY <2>4, <3>3
  <2>6. CASE ~(fileState[r.fid].known /\ files[r.fid].open)
    <3>1. fileState'[r.fid].known = fileState[r.fid].known /\ files'[r.fid].open = files[r.fid].open
      BY <1>1, <2>2, <2>3 DEF States, OpenFiles
    <3>2. QED BY <2>4, <2>6, <3>1
  <2>7. QED BY <2>5, <2>6
<1>5. QED BY <1>2, <1>3, <1>4 DEF OnFiles

LEMMA ResponseFollows ==
  ASSUME Memory, Engaged, Straight, TreesNamed, FilesFollow, NEW r, NEW a, NEW i, Response(r, a, i)
  PROVE  FilesFollow'
<1> SUFFICES ASSUME Clean', ~StaleTree' PROVE Following' BY DEF FilesFollow
<1>1. /\ r \in asked /\ Taken(a, i, r) /\ AnswerTypes(a) /\ a.cmd = r.cmd /\ FilesAfter(r, a) /\ Formed(r) /\ Attended(r)
      /\ Stored
  BY DEF Response, After, Memory, AllFormed, Engaged
<1>2. Clean /\ ~StaleTree /\ Shown BY DEF Response, Clean, StaleTree, Shown, Misleading
<1>3. Following /\ TreesShown /\ Ordinary(r) BY <1>1, <1>2 DEF FilesFollow, TreesNamed, Straight
<1>4. \A f \in Fids : fileState[f].known /\ files'[f].open => Follows(fileState[f], files'[f])
  BY <1>1, <1>3, UnreadFollows
<1>5. CASE \A f \in Fids : fileState'[f] = fileState[f] BY <1>4, <1>5 DEF Following
<1>6. CASE held.server # NothingHeld.server /\ HeldResponse
  <2>1. \A f \in Fids : fileState'[f] = fileState[f]
    BY <1>1, <1>6, Smb2Assumption DEF HeldResponse, OpenResponse, Stored, Handles
  <2>2. QED BY <1>5, <2>1
<1>7. CASE Reads(a, i, r) /\ Treated(a, i) /\ i # 0 /\ r.cmd = "create" /\ a.ok
  <2>1. OpenResponse(i, a.id, a.tid, a.fid, a.action) BY <1>1, <1>7 DEF Treated, CreateResponse, OnFiles
  <2>2. /\ \A f \in Fids : f # a.fid => fileState'[f] = fileState[f]
        /\ Follows(fileState'[a.fid], files'[a.fid])
    BY <1>1, <1>3, <1>7, <2>1, OpenFollows
  <2>3. QED BY <1>4, <2>2 DEF Following
<1>8. CASE Reads(a, i, r) /\ Treated(a, i) /\ i # 0 /\ r.cmd \in OnFiles
  <2>1. /\ \A f \in Fids : f # r.fid => fileState'[f] = fileState[f]
        /\ fileState'[r.fid].known /\ files'[r.fid].open => Follows(fileState'[r.fid], files'[r.fid])
    BY <1>1, <1>3, <1>8, ReadFollows
  <2>2. QED BY <1>4, <2>1 DEF Following
<1>9. CASE Reads(a, i, r) /\ Treated(a, i) /\ ~(i # 0 /\ r.cmd = "create" /\ a.ok) /\ ~(i # 0 /\ r.cmd \in OnFiles)
  <2>1. fileState' = fileState
    BY <1>1, <1>3, <1>9 DEF Treated, Idle, SetupResponse, TconResponse, CreateResponse, Ordinary, OnFiles
  <2>2. QED BY <1>5, <2>1
<1>10. CASE Idle BY <1>5, <1>10 DEF Idle
<1>11. QED BY <1>1, <1>6, <1>7, <1>8, <1>9, <1>10 DEF Taken

LEMMA RequestsFollow ==
  ASSUME FilesFollow, NEW r, Noticed(r), odd \subseteq odd', UNCHANGED files
  PROVE  FilesFollow'
<1>1. Clean' /\ ~StaleTree' => Following BY DEF FilesFollow, Clean, StaleTree
<1>2. fileState' = fileState \/ fileState' = [f \in Handles |-> Unknown] BY DEF Noticed
<1>3. \A f \in Fids : fileState'[f] = fileState[f] \/ ~fileState'[f].known BY <1>2 DEF Unknown, Handles
<1>4. QED BY <1>1, <1>3 DEF FilesFollow, Following

--------------------------------
(* What is reported happened. *)
Covered(reported, real) == \A e \in reported : \E f \in real : Covers(f, e)

LEMMA UserCovered ==
  ASSUME Memory, UsersShown, NEW s \in Sids, users[s] # None
  PROVE  GetUserName(s) \in {UserOf(s), NoName}
BY DEF UsersShown, UserOf

LEMMA OpenCovered ==
  ASSUME Memory, TreesShown, UsersShown, NEW r \in asked, Attended(r), NEW a, NEW i, AnswerTypes(a), a.cmd = r.cmd,
         After(r, a), Ordinary(r), Reads(a, i, r), i # 0, ~temp[i].deleteOpen, r.cmd = "create", a.ok,
         OpenResponse(i, a.id, a.tid, a.fid, a.action)
  PROVE  Covered(events', facts')
<1>1. /\ r.tid \in Tids /\ r.name \in Names /\ trees[r.tid][1] # None /\ a.tid = r.tid /\ a.id = r.id
      /\ r.id[2] \in Sids /\ users[r.id[2]] # None
  BY Smb2Assumption DEF Memory, AllFormed, Formed, Attended, Ids, After, FilesAfter, Reads
<1>2. Own(temp[i], r) /\ temp[i].name = r.name /\ (temp[i].directory <=> "directory" \in r.options)
  BY <1>1 DEF Reads, Own
<1>3. PICK p, u : p = MakePath(r.tid, r.name) /\ u = GetUserName(r.id[2]) OBVIOUS
<1>4. p[2] = r.name /\ p[1] \in Trees \cup {trees[r.tid][2]} BY <1>1, <1>3, TreeName
<1>5. u \in {UserOf(r.id[2]), NoName} BY <1>1, <1>3, UserCovered
<1>6. events' = CreateEvents(temp[i], u, p, a.action) BY <1>1, <1>2, <1>3 DEF OpenResponse
<1>7. PICK op : op = IF temp[i].directory THEN "mkdir" ELSE "create" OBVIOUS
<1>8. events' = IF a.action = "created" THEN {Event(op, u, p, NoPath, 0)} ELSE {} BY <1>6, <1>7 DEF CreateEvents
<1>9. PICK q : q = <<trees[r.tid][2], r.name>> OBVIOUS
<1>10. FileOf(r).path = q /\ FileOf(r).directory = ("directory" \in r.options) BY <1>9 DEF FileOf
<1>11. a.action # "opened" => facts' = {Event(op, UserOf(r.id[2]), q, NoPath, 0)}
  BY <1>2, <1>7, <1>10 DEF After, FactsAfter, Ordinary, Told
<1>12. Covers(Event(op, UserOf(r.id[2]), q, NoPath, 0), Event(op, u, p, NoPath, 0))
  BY <1>4, <1>5, <1>9 DEF Covers, Event
<1>13. QED BY <1>8, <1>11, <1>12 DEF Covered

LEMMA CloseCovered ==
  ASSUME Memory, UsersShown, Following, NEW r \in asked, Attended(r), NEW a, NEW i, a.cmd = r.cmd,
         After(r, a), Reads(a, i, r), i # 0, r.cmd = "close", CloseResponse(a, i)
  PROVE  Covered(events', facts')
<1>1. /\ r.fid \in Fids /\ files[r.fid].open /\ files[r.fid] \in OpenFiles /\ fileState[r.fid] \in States
      /\ r.id[2] \in Sids /\ users[r.id[2]] # None /\ a.id = r.id /\ temp[i].fid = r.fid
  BY DEF Memory, AllFormed, Formed, Attended, Ids, HostTypes, Stored, Handles, OnFiles, Reads, Own
<1>2. PICK s, o, u, v : s = fileState[r.fid] /\ o = files[r.fid] /\ u = GetUserName(r.id[2]) /\ v = UserOf(r.id[2])
  OBVIOUS
<1>3. u \in {v, NoName} BY <1>1, <1>2, UserCovered
<1>4. events' = CloseEvents(s, u) BY <1>1, <1>2 DEF CloseResponse
<1>5. CASE ~s.known \/ Suppressed(s) BY <1>4, <1>5 DEF CloseEvents, Covered
<1>6. CASE s.known /\ ~Suppressed(s)
  <2>1. Follows(s, o) /\ o.path[1] # IPC BY <1>1, <1>2, <1>6 DEF Following, Follows
  <2>2. s.readed \in Nat /\ s.written \in Nat /\ o.readed \in Nat /\ o.written \in Nat
    BY <1>1, <1>2 DEF States, OpenFiles
  <2>3. facts' = {Event("read", v, o.path, NoPath, n) : n \in {o.readed} \ {0}}
                 \cup {Event("write", v, o.path, NoPath, n) : n \in {o.written} \ {0}}
                 \cup Removal(v, o)
    BY <1>1, <1>2, <2>1 DEF After, FactsAfter
  <2>4. ASSUME NEW n \in {s.readed} \ {0}
        PROVE  \E f \in facts' : Covers(f, Event("read", u, s.path, NoPath, n))
    <3>1. o.readed # 0 /\ n <= o.readed BY <2>1, <2>2, <2>4 DEF Follows
    <3>2. Event("read", v, o.path, NoPath, o.readed) \in facts' BY <2>3, <3>1
    <3>3. Covers(Event("read", v, o.path, NoPath, o.readed), Event("read", u, s.path, NoPath, n))
      BY <1>3, <2>1, <3>1 DEF Covers, Event, Follows
    <3>4. QED BY <3>2, <3>3
  <2>5. ASSUME NEW n \in {s.written} \ {0}
        PROVE  \E f \in facts' : Covers(f, Event("write", u, s.path, NoPath, n))
    <3>1. o.written # 0 /\ n <= o.written BY <2>1, <2>2, <2>5 DEF Follows
    <3>2. Event("write", v, o.path, NoPath, o.written) \in facts' BY <2>3, <3>1
    <3>3. Covers(Event("write", v, o.path, NoPath, o.written), Event("write", u, s.path, NoPath, n))
      BY <1>3, <2>1, <3>1 DEF Covers, Event, Follows
    <3>4. QED BY <3>2, <3>3
  <2>6. ASSUME s.delete
        PROVE  \E f \in facts' :
                 Covers(f, Event(IF s.isdirectory THEN "rmdir" ELSE "remove", u, s.path, NoPath, 0))
    <3>1. PICK op : op = IF o.directory THEN "rmdir" ELSE "remove" OBVIOUS
    <3>2. o.delete /\ s.isdirectory = o.directory BY <2>1, <2>6 DEF Follows
    <3>3. Event(op, v, o.path, NoPath, 0) \in facts' BY <2>1, <2>3, <3>1, <3>2 DEF Removal, Told
    <3>4. Covers(Event(op, v, o.path, NoPath, 0), Event(op, u, s.path, NoPath, 0))
      BY <1>3, <2>1 DEF Covers, Event, Follows
    <3>5. QED BY <3>1, <3>2, <3>3, <3>4
  <2>7. QED BY <1>4, <1>6, <2>4, <2>5, <2>6 DEF CloseEvents, Covered
<1>7. QED BY <1>5, <1>6

LEMMA ResponseCovered ==
  ASSUME Memory, Engaged, Straight, TreesNamed, UsersNamed, FilesFollow, NEW r, NEW a, NEW i, Response(r, a, i)
  PROVE  NothingInvented'
<1> SUFFICES ASSUME Clean', ~StaleTree', ~StaleUser' PROVE Covered(events', facts')
  BY DEF NothingInvented, Covered, Clean
<1>1. /\ r \in asked /\ Taken(a, i, r) /\ AnswerTypes(a) /\ a.cmd = r.cmd /\ After(r, a) /\ Formed(r) /\ Attended(r)
      /\ Stored
  BY DEF Response, Memory, AllFormed, Engaged
<1>2. Clean /\ ~StaleTree /\ Shown /\ ~StaleUser BY DEF Response, Clean, StaleTree, Shown, Misleading, StaleUser
<1>3. /\ Following /\ TreesShown /\ UsersShown /\ Ordinary(r)
      /\ \A k \in 1..Len(temp) : ~temp[k].deleteOpen
  BY <1>1, <1>2 DEF FilesFollow, TreesNamed, UsersNamed, Straight
<1>4. CASE events' = {} BY <1>4 DEF Covered
<1>5. CASE held.server # NothingHeld.server /\ HeldResponse
  <2>1. PICK h, k : h = held.server /\ k = Found(h.id) OBVIOUS
  <2>2. CASE k = 0 BY <1>4, <1>5, <2>1, <2>2 DEF HeldResponse
  <2>3. CASE k # 0
    <3>1. k \in 1..Len(temp) /\ ~temp[k].deleteOpen BY <1>1, <1>3, <2>1, <2>3, FoundAny DEF Stored
    <3>2. OpenResponse(k, h.id, h.tid, Garbage, "none") BY <1>5, <2>1, <2>3 DEF HeldResponse
    <3>3. events' = {} BY <3>1, <3>2 DEF OpenResponse, CreateEvents
    <3>4. QED BY <1>4, <3>3
  <2>4. QED BY <2>2, <2>3
<1>6. CASE Reads(a, i, r) /\ Treated(a, i) /\ r.cmd = "setup"
  <2>1. SetupResponse(a, i) BY <1>1, <1>6 DEF Treated, OnFiles
  <2>2. i # 0 => temp[i].user = r.user BY <1>6 DEF Reads, Own
  <2>3. PICK e : e = Told(r.user, NoPath, LoginFact(a.ok, a.action)) OBVIOUS
  <2>4. events' \subseteq IF r.user = NoName THEN {} ELSE {e}
    BY <2>1, <2>2, <2>3 DEF SetupResponse, SetupShown, LoginFact, Told
  <2>5. facts' = IF r.user = NoName THEN {} ELSE {e} BY <1>1, <1>6, <2>3 DEF After, FactsAfter
  <2>6. Covers(e, e) BY <2>3 DEF Covers, Event, Told
  <2>7. QED BY <2>4, <2>5, <2>6 DEF Covered
<1>7. CASE Reads(a, i, r) /\ Treated(a, i) /\ i # 0 /\ r.cmd = "create" /\ a.ok
  <2>1. OpenResponse(i, a.id, a.tid, a.fid, a.action) BY <1>1, <1>7 DEF Treated, CreateResponse, OnFiles
  <2>2. ~temp[i].deleteOpen BY <1>3, <1>7 DEF Reads
  <2>3. QED BY <1>1, <1>3, <1>7, <2>1, <2>2, OpenCovered
<1>8. CASE Reads(a, i, r) /\ Treated(a, i) /\ i # 0 /\ r.cmd = "close"
  <2>1. CloseResponse(a, i) BY <1>1, <1>8 DEF Treated, OnFiles
  <2>2. QED BY <1>1, <1>3, <1>8, <2>1, CloseCovered
<1>9. CASE Reads(a, i, r) /\ Treated(a, i) /\ i # 0 /\ r.cmd = "dispose"
  <2>1. SetInfoResponse(a, i) /\ temp[i].info = "disposition" BY <1>1, <1>9 DEF Treated, OnFiles, Reads, Own
  <2>2. events' = {} BY <2>1 DEF SetInfoResponse
  <2>3. QED BY <1>4, <2>2
<1>10. CASE /\ Reads(a, i, r) /\ Treated(a, i) /\ r.cmd # "setup" /\ ~(i # 0 /\ r.cmd = "create" /\ a.ok)
            /\ ~(i # 0 /\ r.cmd \in {"close", "dispose"})
  <2>1. events' = {}
    BY <1>1, <1>3, <1>10 DEF Treated, Idle, TconResponse, CreateResponse, CountResponse, Ordinary
  <2>2. QED BY <1>4, <2>1
<1>11. QED BY <1>1, <1>4, <1>5, <1>6, <1>7, <1>8, <1>9, <1>10 DEF Taken, Idle

LEMMA RequestCovered ==
  ASSUME Memory, UsersNamed, NEW r, NEW tell, NEW kinds, Begins(r), Marks(r, kinds), Says(r, tell), Noted(r),
         odd \cup kinds \subseteq odd', facts' = tell
  PROVE  NothingInvented'
<1> SUFFICES ASSUME Clean', ~StaleTree', ~StaleUser' PROVE Covered(events', facts')
  BY DEF NothingInvented, Covered, Clean
<1>1. CASE events' = {} BY <1>1 DEF Covered
<1>2. CASE r.cmd = "logoff" /\ LogoffRequest(r)
  <2>1. PICK u : u = GetUserName(r.id[2]) OBVIOUS
  <2>2. events' = IF u = NoName THEN {} ELSE {Event("logout", u, NoPath, NoPath, 0)}
    BY <1>2, <2>1 DEF LogoffRequest
  <2>3. users[r.id[2]] # None /\ r.id[2] \in Sids BY <1>2 DEF Begins, LoggedIn
  <2>4. UsersShown BY DEF UsersNamed, StaleUser
  <2>5. CASE u # NoName
    <3>1. u = users[r.id[2]] BY <2>1, <2>3, <2>4, <2>5 DEF UsersShown
    <3>2. facts' = {Event("logout", u, NoPath, NoPath, 0)} BY <1>2, <2>5, <3>1 DEF Says
    <3>3. Covers(Event("logout", u, NoPath, NoPath, 0), Event("logout", u, NoPath, NoPath, 0))
      BY DEF Covers, Event
    <3>4. QED BY <2>2, <2>5, <3>2, <3>3 DEF Covered
  <2>6. QED BY <1>1, <2>2, <2>5
<1>3. CASE r.cmd = "create" /\ r.chain = "rename" BY <1>3 DEF Marks, Clean, Misleading
<1>4. QED BY <1>1, <1>2, <1>3 DEF Noted, Idle, OtherRequest

Sound == /\ Memory /\ TreesNamed /\ Engaged /\ Straight /\ UsersNamed /\ FilesFollow
         /\ events \subseteq EventTypes /\ NothingInvented

LEMMA SoundInit ==
  ASSUME Init PROVE Sound
<1>1. Memory /\ events \subseteq EventTypes /\ TreesNamed BY MemoryInit, TreesInit
<1>2. /\ temp = <<>> /\ held = NothingHeld /\ fileState = [f \in Handles |-> Unknown]
      /\ userName = users \/ userName = [x \in Sids |-> None]
      /\ asked = {} /\ events = {}
  BY DEF Init
<1>3. Engaged /\ Straight BY <1>2 DEF Engaged, Straight
<1>4. UsersNamed BY <1>2 DEF UsersNamed, UsersShown, SetupsKept, GetUserName
<1>5. FilesFollow /\ NothingInvented BY <1>2 DEF FilesFollow, Following, Handles, Unknown, NothingInvented
<1>6. QED BY <1>1, <1>3, <1>4, <1>5 DEF Sound

LEMMA SoundNext ==
  ASSUME Sound, Next PROVE Sound'
<1>1. Memory /\ TreesNamed /\ Engaged /\ Straight /\ UsersNamed /\ FilesFollow BY DEF Sound
<1>2. Memory' /\ events' \subseteq EventTypes' /\ TreesNamed' BY <1>1, MemoryNext, TreesNext
<1>3. CASE Requests
  <2>1. PICK r, tell, kinds : Send(r, tell, kinds) /\ Begins(r) /\ Marks(r, kinds) /\ Says(r, tell)
    BY <1>1, <1>3, RequestBegins
  <2>2. /\ asked' = asked \cup {r} /\ facts' = tell /\ odd \cup kinds \subseteq odd'
        /\ UNCHANGED <<users, trees, files>> /\ Noted(r)
    BY <1>1, <2>1, SendTaken
  <2>3. Noticed(r) BY <1>1, <2>1, <2>2, NotedTyped
  <2>4. Engaged' BY <1>1, <2>1, <2>2, RequestsEngage
  <2>5. Straight' BY <1>1, <2>1, <2>2, <2>3, RequestsStraight
  <2>6. UsersNamed' BY <1>1, <2>1, <2>2, RequestsUsers
  <2>7. FilesFollow' BY <1>1, <2>2, <2>3, RequestsFollow
  <2>8. NothingInvented' BY <1>1, <2>1, <2>2, RequestCovered
  <2>9. QED BY <1>2, <2>4, <2>5, <2>6, <2>7, <2>8 DEF Sound
<1>4. CASE Respond
  <2>1. PICK r, a, i : Response(r, a, i) BY <1>1, <1>4, Responses
  <2>2. Engaged' /\ Straight' BY <1>1, <2>1, ResponseEngages, ResponseStraight
  <2>3. UsersNamed' /\ FilesFollow' /\ NothingInvented'
    BY <1>1, <2>1, ResponseUsers, ResponseFollows, ResponseCovered
  <2>4. QED BY <1>2, <2>2, <2>3 DEF Sound
<1>5. QED BY <1>3, <1>4 DEF Next, Requests

LEMMA SoundStays ==
  ASSUME Sound, UNCHANGED vars PROVE Sound'
<1> USE DEF vars, analyzer, hosts
<1>1. Stored' /\ HostTypes' /\ Ids' /\ OldIds' /\ AllFormed'
  BY DEF Sound, Memory, Stored, HostTypes, Ids, OldIds, AllFormed, Formed, Given
<1>2. OwnEntries' /\ Counted' BY DEF Sound, Memory, OwnEntries, Counted, Counts
<1>3. TreesNamed'
  BY DEF Sound, TreesNamed, Shown, StaleTree, Kempt, TreesShown, OneConnect, OwnShares, AllCached, First
<1>4. Engaged' /\ Straight' BY DEF Sound, Engaged, Attended, Straight, Clean
<1>5. UsersNamed' /\ FilesFollow'
  BY DEF Sound, UsersNamed, StaleUser, UsersShown, GetUserName, Minded, SetupsKept, Entered, FilesFollow, Following,
         Clean, StaleTree
<1>6. events' \subseteq EventTypes' /\ NothingInvented'
  BY DEF Sound, EventTypes, NothingInvented, StaleTree, StaleUser
<1>7. QED BY <1>1, <1>2, <1>3, <1>4, <1>5, <1>6 DEF Sound, Memory

--------------------------------
(* Both dispatchers, of which one takes steps in a behaviour: until *)
(* something unusual happens. *)

LEMMA KeptStays ==
  ASSUME KeptInv, UNCHANGED vars PROVE KeptInv'
<1> USE DEF vars, analyzer, hosts
<1>1. Types => Types' BY DEF Types
<1>2. Ids /\ EntryIds => Ids' /\ EntryIds' BY DEF Ids, EntryIds
<1>3. Asked => Asked' BY DEF Asked, Asks, Together
<1>4. Hosts /\ Named => Hosts' /\ Named' BY DEF Hosts, Named, Leaving
<1>5. Cached /\ Remember => Cached' /\ Remember' BY DEF Cached, Remember
<1>6. Copied => Copied' BY DEF Copied
<1>7. Showing => Showing' BY DEF Showing, Unseen
<1>8. QED BY <1>1, <1>2, <1>3, <1>4, <1>5, <1>6, <1>7 DEF KeptInv, Usual, Kept

LEMMA ReportedInit ==
  ASSUME MCInit PROVE KeptInv /\ NfsInv
BY InitKeeps, NfsInitKeeps DEF MCInit

LEMMA ReportedNext ==
  ASSUME KeptInv, NfsInv, [MCNext]_<<vars, part, nfs>> PROVE KeptInv' /\ NfsInv'
<1>1. CASE Next /\ UNCHANGED nfs
  <2>1. NfsInv'
    BY <1>1 DEF nfs, NfsInv, Alone, NfsKept, NfsTypes, NfsTables, Xids, LastCalls, NamesKept, N!InStep
  <2>2. QED BY <1>1, <2>1, NextKeeps
<1>2. CASE N!Next /\ UNCHANGED vars
  <2>1. KeptInv' BY <1>2, KeptStays
  <2>2. QED BY <1>2, <2>1, NfsNextKeeps
<1>3. CASE UNCHANGED <<vars, part, nfs>>
  <2>1. NfsInv'
    BY <1>3 DEF nfs, NfsInv, Alone, NfsKept, NfsTypes, NfsTables, Xids, LastCalls, NamesKept, N!InStep
  <2>2. KeptInv' BY <1>3, KeptStays
  <2>3. QED BY <2>1, <2>2
<1>4. QED BY <1>1, <1>2, <1>3 DEF MCNext

(* As long as nothing unusual happens, an SMB2 event is reported exactly *)
(* when the server's answer shows it, and as it happened, but log ins that *)
(* are refused: of these those for the name or the password, and none where *)
(* unsigned long has 64 bits; with one NFS *)
(* call at a time and writes of one segment, each operation on a file that *)
(* was seen is logged: for any sets of ids, names, users and shares, any *)
(* limits on what the dispatcher remembers, and any scenario. *)
(* (cw_analizer_smb.cpp on_smb2_packet, cw_analizer_nfs.cpp on_rpc_packet) *)
THEOREM ReportedHolds == MCSpec => []Reported
<1>1. MCInit => KeptInv /\ NfsInv BY ReportedInit
<1>2. KeptInv /\ NfsInv /\ [MCNext]_<<vars, part, nfs>> => KeptInv' /\ NfsInv' BY ReportedNext
<1>3. KeptInv /\ NfsInv => Reported BY DEF KeptInv, Showing, NfsInv, Reported, Exact
<1>4. QED BY <1>1, <1>2, <1>3, PTL DEF MCSpec

LEMMA FilesInStep ==
  KeptInv => InStep
<1> SUFFICES ASSUME KeptInv, Usual PROVE InStep BY DEF InStep
<1>1. /\ fileState[Garbage] = Unknown
      /\ \A f \in Fids : Copies(fileState[f], files[f])
  BY DEF KeptInv, Kept, Copied
<1>2. QED BY <1>1 DEF InStep, Copies, Unknown

(* As long as nothing unusual happens, the dispatcher knows the open files *)
(* of the server and no others, by their names, with the same marks and *)
(* as many bytes, however ids are given again. (on_smb2_packet) *)
THEOREM FilesFollowed == MCSpec => []InStep
<1>1. MCInit => KeptInv /\ NfsInv BY ReportedInit
<1>2. KeptInv /\ NfsInv /\ [MCNext]_<<vars, part, nfs>> => KeptInv' /\ NfsInv' BY ReportedNext
<1>3. KeptInv => InStep BY FilesInStep
<1>4. QED BY <1>1, <1>2, <1>3, PTL DEF MCSpec

--------------------------------
(* The path of a file is found by climbing from folder to folder. *)
Step(p) ==
  IF p.at = N!Root THEN p
  ELSE [at |-> N!Entry(p.at).parent, path |-> <<N!Entry(p.at).name>> \o p.path]
Climb(h, f, m) == f = [n \in 0..m |-> IF n = 0 THEN [at |-> h, path |-> <<>>] ELSE Step(f[n - 1])]

LEMMA ClimbExists ==
  ASSUME NEW h, NEW m \in Nat PROVE \E f : Climb(h, f, m)
<1> DEFINE T == {k \in Nat : ~ \E f : Climb(h, f, k)}
<1>1. CASE T = {} BY <1>1
<1>2. CASE T # {}
  <2>1. PICK k \in T : \A y \in T : k <= y BY <1>2, Least
  <2>2. k # 0
    <3>1. PICK f : f = [n \in 0..0 |-> [at |-> h, path |-> <<>>]] OBVIOUS
    <3>2. Climb(h, f, 0) BY <3>1 DEF Climb
    <3>3. QED BY <2>1, <3>2
  <2>3. k - 1 \in Nat /\ k - 1 \notin T BY <2>1, <2>2
  <2>4. PICK f : Climb(h, f, k - 1) BY <2>3
  <2>5. PICK g : g = [n \in 0..k |-> IF n = k THEN Step(f[k - 1]) ELSE f[n]] OBVIOUS
  <2>6. ASSUME NEW n \in 0..k PROVE g[n] = IF n = 0 THEN [at |-> h, path |-> <<>>] ELSE Step(g[n - 1])
    <3>1. CASE n = k
      <4>1. g[n] = Step(f[k - 1]) /\ g[n - 1] = f[k - 1] BY <2>2, <2>3, <2>5, <3>1
      <4>2. QED BY <2>2, <3>1, <4>1
    <3>2. CASE n # k
      <4>1. n \in 0..(k - 1) /\ g[n] = f[n] /\ (n # 0 => g[n - 1] = f[n - 1]) BY <2>3, <2>5, <2>6, <3>2
      <4>2. f[n] = IF n = 0 THEN [at |-> h, path |-> <<>>] ELSE Step(f[n - 1]) BY <2>4, <4>1 DEF Climb
      <4>3. QED BY <4>1, <4>2
    <3>3. QED BY <3>1, <3>2
  <2>7. g = [n \in 0..k |-> g[n]] BY <2>5
  <2>8. Climb(h, g, k) BY <2>6, <2>7 DEF Climb
  <2>9. QED BY <2>1, <2>8
<1>3. QED BY <1>1, <1>2

LEMMA TruePathClimbs ==
  ASSUME NEW h, MaxHandle \in Nat
  PROVE  \E f : Climb(h, f, MaxHandle) /\ N!TruePath(h) = <<Export>> \o f[MaxHandle].path
<1>1. PICK g : g = (CHOOSE f : Climb(h, f, MaxHandle)) OBVIOUS
<1>2. Climb(h, g, MaxHandle) BY <1>1, ClimbExists
<1>3. N!TruePath(h) = <<Export>> \o g[MaxHandle].path BY <1>1 DEF N!TruePath, Climb, Step
<1>4. QED BY <1>2, <1>3

(* The files of the server have the handles from 2, a folder before what *)
(* is in it; 1 is the export. *)
Known == 1..(1 + Cardinality(tree))
NfsTree ==
  /\ IsFiniteSet(tree) /\ tree \subseteq [parent : Nat, name : NfsNames, handle : Nat]
  /\ \A e \in tree : e.handle \in Known \ {1} /\ e.parent \in 1..(e.handle - 1)
  /\ \A h \in Known \ {1} : \E e \in tree : e.handle = h
  /\ \A e, d \in tree : e.handle = d.handle => e = d
  /\ 1 + Cardinality(tree) <= MaxHandle

LEMMA KnownHandles ==
  ASSUME NfsTree
  PROVE  /\ MaxHandle \in Nat \ {0} /\ Cardinality(tree) \in Nat /\ 1 \in Known /\ Known \subseteq 1..MaxHandle
         /\ \A h \in Known \ {1} : /\ N!Entry(h) \in tree /\ N!Entry(h).handle = h /\ N!Entry(h).name \in NfsNames
                                   /\ N!Entry(h).parent \in Known /\ N!Entry(h).parent < h
         /\ \A e \in tree : N!Entry(e.handle) = e
<1>1. MaxHandle \in Nat \ {0} /\ Cardinality(tree) \in Nat BY NfsAssumption, FS_CardinalityType DEF NfsTree
<1>2. 1 \in Known /\ Known \subseteq 1..MaxHandle BY <1>1 DEF NfsTree, Known
<1>3. ASSUME NEW h \in Known \ {1}
      PROVE  N!Entry(h) \in tree /\ N!Entry(h).handle = h
  BY DEF NfsTree, N!Entry
<1>4. ASSUME NEW h \in Known \ {1}
      PROVE  N!Entry(h).name \in NfsNames /\ N!Entry(h).parent \in Known /\ N!Entry(h).parent < h
  <2>1. PICK e : e = N!Entry(h) OBVIOUS
  <2>2. e \in tree /\ e.handle = h BY <1>3, <2>1
  <2>3. e.name \in NfsNames /\ e.parent \in 1..(h - 1) /\ h \in Nat BY <1>1, <2>2 DEF NfsTree, Known
  <2>4. e.parent \in Known /\ e.parent < h BY <1>1, <2>3 DEF Known
  <2>5. QED BY <2>1, <2>3, <2>4
<1>5. \A e \in tree : N!Entry(e.handle) = e BY <1>3 DEF NfsTree
<1>6. QED BY <1>1, <1>2, <1>3, <1>4, <1>5

LEMMA ClimbSteps ==
  ASSUME NEW h, NEW f, NEW m \in Nat, Climb(h, f, m)
  PROVE  f[0] = [at |-> h, path |-> <<>>] /\ \A n \in 1..m : f[n] = Step(f[n - 1])
BY DEF Climb

(* Each step leads to a folder with a smaller handle. *)
LEMMA ClimbArrives ==
  ASSUME NfsTree, NEW h \in Known, NEW f, Climb(h, f, MaxHandle)
  PROVE  \A n \in 0..MaxHandle : /\ f[n].at \in Known /\ f[n].path \in Seq(NfsNames)
                                 /\ f[n].at = 1 \/ f[n].at <= h - n
<1> DEFINE P(n) == /\ f[n].at \in Known /\ f[n].path \in Seq(NfsNames)
                   /\ f[n].at = 1 \/ f[n].at <= h - n
           T == {n \in 0..MaxHandle : ~P(n)}
<1>1. MaxHandle \in Nat \ {0} /\ Known \subseteq Nat /\ h \in Nat BY KnownHandles
<1>2. f[0] = [at |-> h, path |-> <<>>] /\ \A n \in 1..MaxHandle : f[n] = Step(f[n - 1]) BY <1>1, ClimbSteps
<1>3. CASE T = {} BY <1>3
<1>4. CASE T # {}
  <2>1. PICK n \in T : \A y \in T : n <= y
    <3>1. T \subseteq Nat BY <1>1
    <3>2. QED BY <1>4, <3>1, Least
  <2>2. n # 0
    <3>1. P(0) BY <1>1, <1>2
    <3>2. QED BY <2>1, <3>1
  <2>3. n \in 1..MaxHandle /\ n - 1 \in 0..MaxHandle /\ n - 1 \notin T BY <1>1, <2>1, <2>2
  <2>4. PICK x, q : x = f[n - 1].at /\ q = f[n - 1].path OBVIOUS
  <2>5. x \in Known /\ q \in Seq(NfsNames) /\ (x = 1 \/ x <= h - (n - 1)) /\ x \in Nat BY <1>1, <2>3, <2>4
  <2>6. P(n)
    <3>1. CASE x = 1
      <4>1. f[n] = f[n - 1] BY <1>2, <2>3, <2>4, <3>1 DEF Step, N!Root
      <4>2. QED BY <2>4, <2>5, <3>1, <4>1
    <3>2. CASE x # 1
      <4>1. f[n] = [at |-> N!Entry(x).parent, path |-> <<N!Entry(x).name>> \o q]
        BY <1>2, <2>3, <2>4, <3>2 DEF Step, N!Root
      <4>2. PICK u, name : u = N!Entry(x).parent /\ name = N!Entry(x).name OBVIOUS
      <4>3. u \in Known /\ u < x /\ name \in NfsNames BY <2>5, <3>2, <4>2, KnownHandles
      <4>4. <<name>> \o q \in Seq(NfsNames) BY <2>5, <4>3
      <4>5. u <= h - n BY <1>1, <2>3, <2>5, <3>2, <4>3
      <4>6. QED BY <4>1, <4>2, <4>3, <4>4, <4>5
    <3>3. QED BY <3>1, <3>2
  <2>7. QED BY <2>1, <2>6
<1>5. QED BY <1>3, <1>4

(* The way from a file is the way from its folder, and its name. *)
LEMMA ClimbFrom ==
  ASSUME NfsTree, NEW h \in Known \ {1}, NEW f, Climb(h, f, MaxHandle),
         NEW g, Climb(N!Entry(h).parent, g, MaxHandle)
  PROVE  \A n \in 1..MaxHandle : /\ f[n].at = g[n - 1].at
                                 /\ f[n].path = g[n - 1].path \o <<N!Entry(h).name>>
<1>1. PICK p, name : p = N!Entry(h).parent /\ name = N!Entry(h).name OBVIOUS
<1> DEFINE P(n) == f[n].at = g[n - 1].at /\ f[n].path = g[n - 1].path \o <<name>>
           T == {n \in 1..MaxHandle : ~P(n)}
<1>2. MaxHandle \in Nat \ {0} /\ p \in Known /\ name \in NfsNames BY <1>1, KnownHandles
<1>3. f[0] = [at |-> h, path |-> <<>>] /\ \A n \in 1..MaxHandle : f[n] = Step(f[n - 1]) BY <1>2, ClimbSteps
<1>4. g[0] = [at |-> p, path |-> <<>>] /\ \A n \in 1..MaxHandle : g[n] = Step(g[n - 1])
  BY <1>1, <1>2, ClimbSteps
<1>5. \A n \in 0..MaxHandle : g[n].at \in Known /\ g[n].path \in Seq(NfsNames) BY <1>1, <1>2, ClimbArrives
<1>6. CASE T = {} BY <1>1, <1>6
<1>7. CASE T # {}
  <2>1. PICK n \in T : \A y \in T : n <= y
    <3>1. T \subseteq Nat BY <1>2
    <3>2. QED BY <1>7, <3>1, Least
  <2>2. n # 1
    <3>0. 1 \in 1..MaxHandle /\ f[1] = Step(f[0]) /\ h # 1
      <4>1. 1 \in 1..MaxHandle /\ 1 - 1 = 0 BY <1>2
      <4>2. QED BY <1>3, <4>1
    <3>1. f[1] = [at |-> p, path |-> <<name>> \o <<>>] BY <1>1, <1>3, <3>0 DEF Step, N!Root
    <3>2. <<name>> \o <<>> = <<>> \o <<name>> BY <1>2
    <3>3. P(1) BY <1>4, <3>1, <3>2
    <3>4. QED BY <2>1, <3>3
  <2>3. n \in 1..MaxHandle /\ n - 1 \in 1..MaxHandle /\ n - 1 \notin T /\ n - 2 \in 0..MaxHandle /\ (n - 1) - 1 = n - 2
    <3>1. n \in 1..MaxHandle /\ MaxHandle \in Nat BY <1>2, <2>1
    <3>2. n - 1 \in 1..MaxHandle /\ n - 2 \in 0..MaxHandle /\ (n - 1) - 1 = n - 2 /\ ~ (n <= n - 1)
      BY <2>2, <3>1
    <3>3. QED BY <2>1, <3>1, <3>2
  <2>4. PICK x, q : x = g[n - 2].at /\ q = g[n - 2].path OBVIOUS
  <2>5. x \in Known /\ q \in Seq(NfsNames) /\ f[n - 1].at = x /\ f[n - 1].path = q \o <<name>>
    BY <1>5, <2>3, <2>4
  <2>6. f[n] = Step(f[n - 1]) /\ g[n - 1] = Step(g[n - 2]) BY <1>3, <1>4, <2>3
  <2>7. P(n)
    <3>1. CASE x = 1 BY <2>4, <2>5, <2>6, <3>1 DEF Step, N!Root
    <3>2. CASE x # 1
      <4>1. PICK u, z : u = N!Entry(x).parent /\ z = N!Entry(x).name OBVIOUS
      <4>2. z \in NfsNames BY <2>5, <3>2, <4>1, KnownHandles
      <4>3. /\ f[n] = [at |-> u, path |-> <<z>> \o (q \o <<name>>)]
            /\ g[n - 1] = [at |-> u, path |-> <<z>> \o q]
        BY <2>4, <2>5, <2>6, <3>2, <4>1 DEF Step, N!Root
      <4>4. <<z>> \o (q \o <<name>>) = (<<z>> \o q) \o <<name>>
        <5>1. <<z>> \in Seq(NfsNames) /\ <<name>> \in Seq(NfsNames) BY <1>2, <4>2
        <5>2. QED BY <2>5, <5>1, ConcatAssociative
      <4>5. f[n].at = u /\ f[n].path = <<z>> \o (q \o <<name>>) /\ g[n - 1].at = u /\ g[n - 1].path = <<z>> \o q
        BY <4>3
      <4>6. QED BY <4>4, <4>5
    <3>3. QED BY <3>1, <3>2
  <2>8. QED BY <2>1, <2>7
<1>8. QED BY <1>6, <1>7

Words == NfsNames \cup {Export}
LEMMA TruePathIs ==
  ASSUME NfsTree
  PROVE  /\ N!TruePath(1) = <<Export>>
         /\ \A h \in Known : N!TruePath(h) \in Seq(Words) /\ Len(N!TruePath(h)) >= 1
         /\ \A h \in Known \ {1} : N!TruePath(h) = N!TruePath(N!Entry(h).parent) \o <<N!Entry(h).name>>
<1>1. MaxHandle \in Nat \ {0} /\ 1 \in Known /\ Known \subseteq 1..MaxHandle BY KnownHandles
<1>2. N!TruePath(1) = <<Export>>
  <2>1. PICK f : Climb(1, f, MaxHandle) /\ N!TruePath(1) = <<Export>> \o f[MaxHandle].path
    BY <1>1, TruePathClimbs
  <2>2. f[0] = [at |-> 1, path |-> <<>>] /\ \A n \in 1..MaxHandle : f[n] = Step(f[n - 1])
    BY <1>1, <2>1, ClimbSteps
  <2> DEFINE T == {n \in 0..MaxHandle : f[n] # [at |-> 1, path |-> <<>>]}
  <2>3. CASE T # {}
    <3>1. PICK n \in T : \A y \in T : n <= y
      <4>1. T \subseteq Nat BY <1>1
      <4>2. QED BY <2>3, <4>1, Least
    <3>2. n - 1 \in 0..MaxHandle /\ n - 1 \notin T /\ n \in 1..MaxHandle
      <4>1. n # 0 /\ n \in 0..MaxHandle /\ MaxHandle \in Nat BY <1>1, <2>2, <3>1
      <4>2. n - 1 \in 0..MaxHandle /\ n \in 1..MaxHandle /\ ~ (n <= n - 1) BY <4>1
      <4>3. QED BY <3>1, <4>2
    <3>3. f[n - 1] = [at |-> 1, path |-> <<>>] BY <3>2
    <3>4. f[n] = Step(f[n - 1]) /\ f[n] # [at |-> 1, path |-> <<>>] BY <2>2, <3>1, <3>2
    <3>5. Step(f[n - 1]) = f[n - 1] BY <3>3 DEF Step, N!Root
    <3>6. QED BY <3>3, <3>4, <3>5
  <2>4. CASE T = {}
    <3>1. f[MaxHandle] = [at |-> 1, path |-> <<>>] BY <1>1, <2>4
    <3>2. <<Export>> \o <<>> = <<Export>> OBVIOUS
    <3>3. QED BY <2>1, <3>1, <3>2
  <2>5. QED BY <2>3, <2>4
<1>3. ASSUME NEW h \in Known
      PROVE  N!TruePath(h) \in Seq(Words) /\ Len(N!TruePath(h)) >= 1
  <2>1. PICK f : Climb(h, f, MaxHandle) /\ N!TruePath(h) = <<Export>> \o f[MaxHandle].path
    BY <1>1, TruePathClimbs
  <2>2. PICK q : q = f[MaxHandle].path OBVIOUS
  <2>3. q \in Seq(NfsNames) BY <1>1, <2>1, <2>2, ClimbArrives
  <2>4. q \in Seq(Words) BY <2>3 DEF Words
  <2>5. <<Export>> \o q \in Seq(Words) /\ Len(<<Export>> \o q) >= 1 BY <2>4 DEF Words
  <2>6. QED BY <2>1, <2>2, <2>5
<1>4. ASSUME NEW h \in Known \ {1}
      PROVE  N!TruePath(h) = N!TruePath(N!Entry(h).parent) \o <<N!Entry(h).name>>
  <2>1. PICK p, name : p = N!Entry(h).parent /\ name = N!Entry(h).name OBVIOUS
  <2>2. PICK f : Climb(h, f, MaxHandle) /\ N!TruePath(h) = <<Export>> \o f[MaxHandle].path
    BY <1>1, TruePathClimbs
  <2>3. PICK g : Climb(p, g, MaxHandle) /\ N!TruePath(p) = <<Export>> \o g[MaxHandle].path
    BY <1>1, TruePathClimbs
  <2>4. p \in Known /\ p < h /\ name \in NfsNames /\ h <= MaxHandle /\ h \in Nat /\ p \in Nat
    <3>1. p \in Known /\ p < h /\ name \in NfsNames BY <2>1, KnownHandles
    <3>2. h \in 1..MaxHandle /\ p \in 1..MaxHandle BY <1>1, <3>1
    <3>3. QED BY <1>1, <3>1, <3>2
  <2>5. f[MaxHandle].path = g[MaxHandle - 1].path \o <<name>> BY <1>1, <2>1, <2>2, <2>3, ClimbFrom
  <2>6. \A n \in 0..MaxHandle : /\ g[n].at \in Known /\ g[n].path \in Seq(NfsNames)
                                /\ g[n].at = 1 \/ g[n].at <= p - n
    BY <2>3, <2>4, ClimbArrives
  <2>7. PICK x, q : x = g[MaxHandle - 1].at /\ q = g[MaxHandle - 1].path OBVIOUS
  <2>8. x \in Nat /\ x >= 1 /\ (x = 1 \/ x <= p - (MaxHandle - 1)) /\ q \in Seq(NfsNames)
    <3>1. MaxHandle - 1 \in 0..MaxHandle BY <1>1
    <3>2. x \in Known /\ q \in Seq(NfsNames) /\ (x = 1 \/ x <= p - (MaxHandle - 1)) BY <2>6, <2>7, <3>1
    <3>3. x \in 1..MaxHandle BY <1>1, <3>2
    <3>4. QED BY <1>1, <3>2, <3>3
  <2>9. x = 1 BY <1>1, <2>4, <2>8
  <2>10. g[MaxHandle] = g[MaxHandle - 1]
    <3>1. MaxHandle \in 1..MaxHandle /\ MaxHandle \in Nat BY <1>1
    <3>2. g[MaxHandle] = Step(g[MaxHandle - 1]) BY <2>3, <3>1, ClimbSteps
    <3>3. QED BY <2>7, <2>9, <3>2 DEF Step, N!Root
  <2>11. <<Export>> \o (q \o <<name>>) = (<<Export>> \o q) \o <<name>>
    <3>1. q \in Seq(Words) /\ <<Export>> \in Seq(Words) /\ <<name>> \in Seq(Words) BY <2>4, <2>8 DEF Words
    <3>2. QED BY <3>1, ConcatAssociative
  <2>12. QED BY <2>1, <2>2, <2>3, <2>5, <2>7, <2>10, <2>11
<1>5. QED BY <1>2, <1>3, <1>4

(* A suffix, letter by letter from the end. *)
Ends(s, t) == Len(s) <= Len(t) /\ \A i \in 1..Len(s) : s[(Len(s) - i) + 1] = t[(Len(t) - i) + 1]

LEMMA SuffixEnds ==
  ASSUME NEW S, NEW s \in Seq(S), NEW t \in Seq(S)
  PROVE  N!IsSuffix(s, t) <=> Ends(s, t)
<1>1. PICK m, n : m = Len(s) /\ n = Len(t) OBVIOUS
<1>2. m \in Nat /\ n \in Nat BY <1>1
<1>3. PICK u, v : u = N!Reverse(s) /\ v = N!Reverse(t) OBVIOUS
<1>4. /\ u = [i \in 1..m |-> s[(m - i) + 1]] /\ v = [i \in 1..n |-> t[(n - i) + 1]]
  BY <1>1, <1>3 DEF N!Reverse
<1>5. /\ \A i \in 1..m : (m - i) + 1 \in 1..m
      /\ \A i \in 1..n : (n - i) + 1 \in 1..n
  BY <1>2
<1>6. u \in Seq(S) /\ v \in Seq(S)
  <2>1. \A i \in 1..m : s[(m - i) + 1] \in S BY <1>1, <1>5
  <2>2. \A i \in 1..n : t[(n - i) + 1] \in S BY <1>1, <1>5
  <2>3. u \in [1..m -> S] /\ v \in [1..n -> S] BY <1>4, <2>1, <2>2
  <2>4. QED BY <1>2, <2>3
<1>7. Len(u) = m /\ Len(v) = n BY <1>2, <1>4
<1>8. ASSUME m <= n
      PROVE  SubSeq(u, 1, m) = SubSeq(v, 1, m) <=> \A i \in 1..m : u[i] = v[i]
  <2>1. /\ SubSeq(u, 1, m) = [i \in 1..m |-> u[i]] /\ SubSeq(v, 1, m) = [i \in 1..m |-> v[i]]
    BY <1>2, <1>6, <1>7, <1>8
  <2>2. QED BY <2>1
<1>9. ASSUME m <= n
      PROVE  \A i \in 1..m : u[i] = s[(m - i) + 1] /\ v[i] = t[(n - i) + 1]
  <2>1. \A i \in 1..m : i \in 1..n BY <1>2, <1>9
  <2>2. QED BY <1>4, <2>1
<1>10. N!IsSuffix(s, t) <=> m <= n /\ SubSeq(u, 1, m) = SubSeq(v, 1, m) BY <1>3, <1>7 DEF N!IsSuffix, N!IsPrefix
<1>11. Ends(s, t) <=> m <= n /\ \A i \in 1..m : s[(m - i) + 1] = t[(n - i) + 1] BY <1>1 DEF Ends
<1>12. CASE m <= n
  <2>1. N!IsSuffix(s, t) <=> \A i \in 1..m : u[i] = v[i] BY <1>8, <1>10, <1>12
  <2>2. (\A i \in 1..m : u[i] = v[i]) <=> \A i \in 1..m : s[(m - i) + 1] = t[(n - i) + 1] BY <1>9, <1>12
  <2>3. QED BY <1>11, <1>12, <2>1, <2>2
<1>13. CASE ~(m <= n) BY <1>10, <1>11, <1>13
<1>14. QED BY <1>12, <1>13

LEMMA SuffixLaws ==
  ASSUME NEW S, NEW s \in Seq(S), NEW t \in Seq(S), NEW x \in S
  PROVE  /\ N!IsSuffix(t, t) /\ N!IsSuffix(<<x>>, t \o <<x>>)
         /\ N!IsSuffix(s, t) => N!IsSuffix(s \o <<x>>, t \o <<x>>)
<1>1. PICK m, n : m = Len(s) /\ n = Len(t) OBVIOUS
<1>2. m \in Nat /\ n \in Nat BY <1>1
<1>3. N!IsSuffix(t, t) BY SuffixEnds DEF Ends
<1>4. PICK y, z, w : y = s \o <<x>> /\ z = t \o <<x>> /\ w = <<x>> OBVIOUS
<1>5. y \in Seq(S) /\ z \in Seq(S) /\ w \in Seq(S) /\ Len(y) = m + 1 /\ Len(z) = n + 1 /\ Len(w) = 1 /\ w[1] = x
  BY <1>1, <1>4
<1>6. /\ y[m + 1] = x /\ z[n + 1] = x
      /\ \A i \in 1..m : y[i] = s[i]
      /\ \A i \in 1..n : z[i] = t[i]
  BY <1>1, <1>4
<1>7. Ends(w, z)
  <2>1. \A i \in 1..1 : w[(1 - i) + 1] = z[((n + 1) - i) + 1]
    <3>1. \A i \in 1..1 : (1 - i) + 1 = 1 /\ ((n + 1) - i) + 1 = n + 1 BY <1>2
    <3>2. QED BY <1>5, <1>6, <3>1
  <2>2. 1 <= n + 1 BY <1>2
  <2>3. QED BY <1>5, <2>1, <2>2 DEF Ends
<1>8. ASSUME Ends(s, t) PROVE Ends(y, z)
  <2>1. m <= n /\ \A i \in 1..m : s[(m - i) + 1] = t[(n - i) + 1] BY <1>1, <1>8 DEF Ends
  <2>2. ASSUME NEW i \in 1..(m + 1) PROVE y[((m + 1) - i) + 1] = z[((n + 1) - i) + 1]
    <3>1. CASE i = 1
      <4>1. ((m + 1) - i) + 1 = m + 1 /\ ((n + 1) - i) + 1 = n + 1 BY <1>2, <3>1
      <4>2. QED BY <1>6, <4>1
    <3>2. CASE i # 1
      <4>1. PICK j : j = i - 1 OBVIOUS
      <4>2. /\ j \in 1..m /\ ((m + 1) - i) + 1 = (m - j) + 1 /\ ((n + 1) - i) + 1 = (n - j) + 1
            /\ (m - j) + 1 \in 1..m /\ (n - j) + 1 \in 1..n
        BY <1>2, <2>1, <3>2, <4>1
      <4>3. s[(m - j) + 1] = t[(n - j) + 1] BY <2>1, <4>2
      <4>4. QED BY <1>6, <4>2, <4>3
    <3>3. QED BY <3>1, <3>2
  <2>3. m + 1 <= n + 1 BY <1>2, <2>1
  <2>4. QED BY <1>5, <2>2, <2>3 DEF Ends
<1>9. /\ N!IsSuffix(s, t) <=> Ends(s, t)
      /\ N!IsSuffix(w, z) <=> Ends(w, z)
      /\ N!IsSuffix(y, z) <=> Ends(y, z)
  BY <1>5, SuffixEnds
<1>10. QED BY <1>3, <1>4, <1>7, <1>8, <1>9

TruePaths ==
  /\ N!TruePath(1) = <<Export>>
  /\ \A h \in Known : N!TruePath(h) \in Seq(Words) /\ Len(N!TruePath(h)) >= 1
  /\ \A h \in Known \ {1} : N!TruePath(h) = N!TruePath(N!Entry(h).parent) \o <<N!Entry(h).name>>

LEMMA PathsTrue == NfsTree => TruePaths
BY TruePathIs DEF TruePaths

LEMMA PathsTrueNext == NfsTree' => TruePaths'
<1>1. NfsTree => TruePaths BY PathsTrue
<1>2. QED BY <1>1, PTL

Placed ==
  /\ Cardinality(tree) \in Nat /\ 1 \in Known /\ Known \subseteq 1..MaxHandle
  /\ \A h \in Known \ {1} : /\ N!Entry(h) \in tree /\ N!Entry(h).handle = h /\ N!Entry(h).name \in NfsNames
                            /\ N!Entry(h).parent \in Known /\ N!Entry(h).parent < h
  /\ \A e \in tree : N!Entry(e.handle) = e

LEMMA AllPlaced == NfsTree => Placed
BY KnownHandles DEF Placed

LEMMA AllPlacedNext == NfsTree' => Placed'
<1>1. NfsTree => Placed BY AllPlaced
<1>2. QED BY <1>1, PTL

(* A file keeps its path when more files come. *)
LEMMA PathsStay ==
  ASSUME NfsTree, NfsTree', tree \subseteq tree'
  PROVE  /\ Known \subseteq Known'
         /\ \A h \in Known : N!TruePath(h)' = N!TruePath(h)
<1>1. Placed /\ Placed' /\ TruePaths /\ TruePaths' BY AllPlaced, AllPlacedNext, PathsTrue, PathsTrueNext
<1>2. Known \subseteq Known'
  <2>1. \A h \in Known \ {1} : N!Entry(h) \in tree' /\ N!Entry(h).handle = h BY <1>1 DEF Placed
  <2>2. \A h \in Known \ {1} : h \in Known' BY <2>1 DEF NfsTree
  <2>3. 1 \in Known' BY <1>1 DEF Placed
  <2>4. QED BY <2>2, <2>3
<1>3. ASSUME NEW h \in Known \ {1} PROVE N!Entry(h)' = N!Entry(h)
  <2>1. PICK e : e = N!Entry(h) OBVIOUS
  <2>2. e \in tree /\ e.handle = h BY <1>1, <2>1 DEF Placed
  <2>3. e \in tree' BY <2>2
  <2>4. N!Entry(e.handle)' = e BY <1>1, <2>3 DEF Placed
  <2>5. QED BY <2>1, <2>2, <2>4
<1> DEFINE T == {h \in Known : N!TruePath(h)' # N!TruePath(h)}
<1>4. CASE T = {} BY <1>2, <1>4
<1>5. CASE T # {}
  <2>1. PICK h \in T : \A y \in T : h <= y
    <3>1. Known \subseteq 1..MaxHandle BY <1>1 DEF Placed
    <3>2. Known \subseteq Nat BY <3>1, NfsAssumption
    <3>3. T \subseteq Nat BY <3>2
    <3>4. QED BY <1>5, <3>3, Least
  <2>2. h \in Known /\ h # 1 BY <1>1, <2>1 DEF TruePaths
  <2>3. PICK p, name : p = N!Entry(h).parent /\ name = N!Entry(h).name OBVIOUS
  <2>4. p \in Known /\ p < h /\ p \in Nat /\ h \in Nat
    <3>1. Known \subseteq 1..MaxHandle /\ p \in Known /\ p < h BY <1>1, <2>2, <2>3 DEF Placed
    <3>2. p \in 1..MaxHandle /\ h \in 1..MaxHandle BY <2>2, <3>1
    <3>3. QED BY <3>1, <3>2
  <2>5. N!TruePath(p)' = N!TruePath(p) BY <2>1, <2>4
  <2>6. N!TruePath(h) = N!TruePath(p) \o <<name>> BY <1>1, <2>2, <2>3 DEF TruePaths
  <2>7. N!TruePath(h)' = N!TruePath(p)' \o <<name>>
    <3>1. h \in Known' \ {1} BY <1>2, <2>2
    <3>2. N!TruePath(h)' = N!TruePath(N!Entry(h).parent)' \o <<N!Entry(h)'.name>> BY <1>1, <3>1 DEF TruePaths
    <3>3. N!Entry(h)' = N!Entry(h) BY <1>3, <2>2
    <3>4. QED BY <2>3, <3>2, <3>3
  <2>8. QED BY <2>1, <2>5, <2>6, <2>7
<1>6. QED BY <1>4, <1>5

--------------------------------
(* What the file server does. *)
NfsScenario ==
  /\ nfsScenario \in NfsCases /\ nfsScenario.requests \in Nat /\ nfsScenario.ports \subseteq N!Connections
  /\ nfsScenario.folders \subseteq Known
  /\ \A h \in nfsScenario.folders : h \in 1..(1 + Cardinality(nfsScenario.tree))
  /\ Cardinality(nfsScenario.tree) \in Nat /\ Cardinality(nfsScenario.tree) <= Cardinality(tree)

LEMMA NfsTreeInit ==
  ASSUME N!Init
  PROVE  /\ NfsTree /\ NfsScenario
         /\ nfsHeld \subseteq Known /\ (nfsScenario.start = "fresh" => nfsHeld = {})
<1>1. PICK s : s = nfsScenario OBVIOUS
<1>2. s \in NfsCases /\ tree = s.tree BY <1>1 DEF N!Init
<1>3. /\ MaxHandle \in Nat \ {0} /\ s.requests \in Nat /\ s.ports \subseteq {"portmap", "mount", "nfs"}
      /\ s.tree \subseteq [parent : Nat, name : NfsNames, handle : Nat]
      /\ IsFiniteSet(tree) /\ {e.handle : e \in tree} = 2..(1 + Cardinality(tree))
      /\ 1 + Cardinality(tree) <= MaxHandle /\ \A e \in tree : e.parent \in 1..(e.handle - 1)
      /\ s.folders \subseteq {1} \cup {e.handle : e \in tree}
  BY <1>2, NfsAssumption
<1>4. PICK n \in Nat : n = Cardinality(tree) BY <1>3, FS_CardinalityType
<1>5. /\ 2..(1 + n) = {e.handle : e \in tree} /\ Known = 1..(1 + n) /\ Known \ {1} = 2..(1 + n)
      /\ 1 \in Known
  BY <1>3, <1>4 DEF Known
<1>6. ASSUME NEW e \in tree, NEW d \in tree, e.handle = d.handle PROVE e = d
  <2>1. PICK f : f = [x \in tree |-> x.handle] OBVIOUS
  <2>2. f \in Surjection(tree, 2..(1 + n))
    <3>1. f \in [tree -> 2..(1 + n)] BY <1>5, <2>1
    <3>2. \A h \in 2..(1 + n) : \E x \in tree : f[x] = h BY <1>5, <2>1
    <3>3. QED BY <3>1, <3>2 DEF Surjection
  <2>3. Cardinality(2..(1 + n)) = n
    <3>1. 2 \in Int /\ 1 + n \in Int BY <1>4
    <3>2. Cardinality(2..(1 + n)) = IF 2 > 1 + n THEN 0 ELSE (1 + n) - 2 + 1 BY <3>1, FS_Interval
    <3>3. QED BY <1>4, <3>2
  <2>4. f \in Injection(tree, 2..(1 + n)) BY <1>3, <1>4, <2>2, <2>3, FS_SurjSameCardinalityImpliesInj
  <2>5. f[e] = f[d] BY <1>6, <2>1
  <2>6. \A a, b \in tree : f[a] = f[b] => a = b BY <2>4 DEF Injection, IsInjective
  <2>7. QED BY <2>5, <2>6
<1>7. \A e \in tree : e.handle \in Known \ {1} BY <1>5
<1>8. \A h \in Known \ {1} : \E e \in tree : e.handle = h BY <1>5
<1>9. NfsTree BY <1>2, <1>3, <1>6, <1>7, <1>8 DEF NfsTree
<1>10. s.folders \subseteq Known BY <1>3, <1>5, <1>7
<1>11. NfsScenario BY <1>1, <1>2, <1>3, <1>4, <1>5, <1>10 DEF NfsScenario, N!Connections
<1>12. nfsHeld = IF s.start = "fresh" THEN {} ELSE {1} \cup {e.handle : e \in tree}
  BY <1>1, <1>2 DEF N!Init, N!Root
<1>13. QED BY <1>1, <1>5, <1>7, <1>9, <1>11, <1>12

(* What the client asks for. *)
OnHandles == {"lookup", "create", "remove", "read", "write"}
NfsAsk(r) ==
  /\ r.proc \in N!Procedures /\ r.conn = N!ConnectionOf(r.proc)
  /\ r.handle \in Known \cup {0} /\ (r.proc \in OnHandles => r.handle \in Known)
  /\ r.proc \in {"lookup", "create", "remove"} => r.handle \in nfsHeld \cap nfsScenario.folders
  /\ r.name \in NfsNames \cup {"..", None}
  /\ r.proc \in {"create", "remove"} => r.name \in NfsNames
  /\ r.proc = "lookup" => r.name \in NfsNames \cup {".."}
  /\ r.proc = "getport" => r.param \in N!Connections

LEMMA CallAsks ==
  ASSUME nfsHeld \subseteq Known, NEW r, r \in N!Calls, NEW x, NEW q, q = [r EXCEPT !.seen = x]
  PROVE  NfsAsk(r) /\ NfsAsk(q) /\ q.name = r.name
<1>1. N!MountConnection \in N!Connections BY DEF N!MountConnection, N!Connections
<1>2. PICK proc, param, handle, name :
        /\ r = [conn |-> N!ConnectionOf(proc), xid |-> nfsRequests + 1, proc |-> proc, param |-> param,
                handle |-> handle, name |-> name, seen |-> FALSE]
        /\ \/ proc = "getport" /\ param \in N!Connections /\ handle = 0 /\ name = None
           \/ proc \in {"mount", "umount"} /\ handle = 0 /\ name = None
           \/ proc = "lookup" /\ handle \in nfsHeld \cap nfsScenario.folders /\ name \in NfsNames \cup {".."}
           \/ proc \in {"create", "remove"} /\ handle \in nfsHeld \cap nfsScenario.folders /\ name \in NfsNames
           \/ proc \in {"read", "write"} /\ handle \in nfsHeld /\ name = None
           \/ proc = "other" /\ handle = 0 /\ name = None
  BY <1>1 DEF N!Calls, N!None, None, N!Connections
<1>3. /\ r.proc = proc /\ r.conn = N!ConnectionOf(proc) /\ r.handle = handle /\ r.name = name /\ r.param = param
      /\ q.proc = proc /\ q.conn = N!ConnectionOf(proc) /\ q.handle = handle /\ q.name = name /\ q.param = param
  BY <1>2
<1>4. proc \in N!Procedures BY <1>2 DEF N!Procedures
<1>5. QED BY <1>2, <1>3, <1>4 DEF NfsAsk, OnHandles

LEMMA SameCount == \A S : N!Cardinality(S) = Cardinality(S)
BY DEF N!Cardinality, Cardinality, N!IsFiniteSet, IsFiniteSet

(* The file that an operation finds is one the server has. *)
LEMMA GivenFacts ==
  ASSUME NfsTree, gone \subseteq Known, NEW r, NfsAsk(r), NEW ok \in BOOLEAN, ok => N!Found(r) # {},
         NEW handle, handle = N!Given(r, ok)
  PROVE  /\ handle \in N!Handles
         /\ ~ok => handle = 0
         /\ ok /\ r.proc = "mount" => handle = 1
         /\ ok /\ r.proc = "lookup" => handle \in Known
         /\ ok /\ r.proc = "lookup" /\ r.name # ".." =>
              N!TruePath(handle) = N!TruePath(r.handle) \o <<r.name>>
         /\ ok /\ r.proc = "remove" => handle \in Known
         /\ ok /\ r.proc = "create" =>
              /\ handle = 2 + Cardinality(tree) /\ handle <= MaxHandle /\ handle \notin Known
              /\ \A e \in tree : e.handle # handle
<1>1. Placed /\ TruePaths BY AllPlaced, PathsTrue
<1>2. PICK n \in Nat : n = Cardinality(tree) BY <1>1 DEF Placed
<1>3. Known = 1..(1 + n) /\ 1 + n <= MaxHandle /\ MaxHandle \in Nat /\ Known \subseteq N!Handles /\ 0 \in N!Handles
  <2>1. Known = 1..(1 + n) /\ 1 + n <= MaxHandle /\ MaxHandle \in Nat BY <1>2, NfsAssumption DEF Known, NfsTree
  <2>2. QED BY <1>1, <2>1 DEF N!Handles, Placed
<1>4. CASE ~ok BY <1>3, <1>4 DEF N!Given
<1>5. CASE ok
  <2>1. handle \in N!Found(r) BY <1>5 DEF N!Given
  <2>2. CASE r.proc = "mount" BY <1>3, <1>5, <1>1, <2>1, <2>2 DEF N!Found, N!Root, Placed
  <2>3. CASE r.proc = "lookup"
    <3>1. r.handle \in Known BY <2>3 DEF NfsAsk, OnHandles
    <3>2. CASE r.name = ".."
      <4>1. r.handle # 1 /\ handle = N!Entry(r.handle).parent BY <2>1, <2>3, <3>2 DEF N!Found, N!Root
      <4>2. handle \in Known BY <1>1, <3>1, <4>1 DEF Placed
      <4>3. QED BY <1>3, <1>5, <2>3, <3>2, <4>2
    <3>3. CASE r.name # ".."
      <4>1. handle \in {e.handle : e \in N!Named(r.handle, r.name)} BY <2>1, <2>3, <3>3 DEF N!Found
      <4>2. PICK e \in tree : e.parent = r.handle /\ e.name = r.name /\ e.handle = handle
        BY <4>1 DEF N!Named, N!Children
      <4>3. handle \in Known \ {1} /\ N!Entry(handle) = e BY <1>1, <4>2 DEF NfsTree, Placed
      <4>4. N!TruePath(handle) = N!TruePath(r.handle) \o <<r.name>> BY <1>1, <4>2, <4>3 DEF TruePaths
      <4>5. QED BY <1>3, <1>5, <2>3, <4>3, <4>4
    <3>4. QED BY <3>2, <3>3
  <2>4. CASE r.proc = "remove"
    <3>1. handle \in {e.handle : e \in N!Named(r.handle, r.name)} BY <2>1, <2>4 DEF N!Found
    <3>2. PICK e \in tree : e.handle = handle BY <3>1 DEF N!Named, N!Children
    <3>3. handle \in Known BY <3>2 DEF NfsTree
    <3>4. QED BY <1>3, <1>5, <2>4, <3>3
  <2>5. CASE r.proc = "create"
    <3>1. handle = N!NextHandle /\ handle \in N!Handles BY <2>1, <2>5 DEF N!Found
    <3>2. handle = 2 + n /\ handle \in 0..MaxHandle
      <4>1. handle = 2 + Cardinality(tree) BY <3>1, SameCount DEF N!NextHandle
      <4>2. handle \in 0..MaxHandle BY <3>1 DEF N!Handles
      <4>3. QED BY <1>2, <4>1, <4>2
    <3>3. handle <= MaxHandle /\ handle \notin Known BY <1>3, <3>2
    <3>4. \A e \in tree : e.handle # handle BY <3>3 DEF NfsTree
    <3>5. QED BY <1>2, <1>5, <2>5, <3>1, <3>2, <3>3, <3>4
  <2>6. CASE r.proc \in {"read", "write"}
    <3>1. handle = r.handle /\ r.handle \in Known BY <2>1, <2>6 DEF N!Found, NfsAsk, OnHandles
    <3>2. QED BY <1>3, <1>5, <2>6, <3>1
  <2>7. CASE r.proc \notin {"mount", "lookup", "remove", "create", "read", "write"}
    <3>1. handle = 0 BY <2>1, <2>7 DEF N!Found
    <3>2. QED BY <1>3, <2>7, <3>1
  <2>8. QED BY <2>2, <2>3, <2>4, <2>5, <2>6, <2>7
<1>6. QED BY <1>4, <1>5

LEMMA ServeFacts ==
  ASSUME NfsTree, NfsScenario, gone \subseteq Known, nfsHeld \subseteq Known,
         NEW r, NfsAsk(r), NEW ok \in BOOLEAN, ok => N!Found(r) # {},
         NEW handle, handle = N!Given(r, ok), N!Serve(r, handle, ok), UNCHANGED nfsScenario
  PROVE  /\ NfsTree' /\ NfsScenario' /\ tree \subseteq tree' /\ gone' \subseteq Known'
         /\ nfsHeld \subseteq nfsHeld' /\ nfsHeld' \subseteq Known'
         /\ \/ nfsHeld' = nfsHeld
            \/ nfsHeld' = nfsHeld \cup {handle} /\ ok /\ r.proc \in {"mount", "lookup", "create"}
         /\ ok /\ r.proc = "create" => handle \notin nfsScenario.folders
<1>1. PICK n \in Nat : n = Cardinality(tree) BY AllPlaced DEF Placed
<1>2. Known = 1..(1 + n) /\ MaxHandle \in Nat BY <1>1, NfsAssumption DEF Known
<1>3. CASE ok /\ r.proc = "create"
  <2>1. PICK e : e = [parent |-> r.handle, name |-> r.name, handle |-> handle] OBVIOUS
  <2>2. /\ tree' = tree \cup {e} /\ gone' = gone /\ nfsHeld' = nfsHeld \cup {handle} BY <1>3, <2>1 DEF N!Serve
  <2>3. /\ handle = 2 + n /\ handle <= MaxHandle /\ handle \notin Known
        /\ \A d \in tree : d.handle # handle
    BY <1>1, <1>3, GivenFacts
  <2>4. e \notin tree /\ e.parent \in Known /\ e.name \in NfsNames /\ e.handle = handle
    BY <1>3, <2>1, <2>3 DEF NfsAsk, OnHandles
  <2>5. IsFiniteSet(tree') /\ Cardinality(tree') = n + 1 BY <1>1, <2>2, <2>4, FS_AddElement DEF NfsTree
  <2>6. Known' = 1..(2 + n) BY <1>1, <2>5 DEF Known
  <2>7. Known' = Known \cup {handle} /\ handle # 1 /\ handle \in Nat /\ Known \subseteq Nat
    BY <1>1, <1>2, <2>3, <2>6
  <2>8. tree' \subseteq [parent : Nat, name : NfsNames, handle : Nat] BY <2>1, <2>2, <2>4, <2>7 DEF NfsTree
  <2>9. ASSUME NEW d \in tree' PROVE d.handle \in Known' \ {1} /\ d.parent \in 1..(d.handle - 1)
    <3>1. CASE d \in tree BY <2>7, <3>1 DEF NfsTree
    <3>2. CASE d = e
      <4>1. d.handle = 2 + n /\ d.parent \in 1..(1 + n) BY <1>2, <2>3, <2>4, <3>2
      <4>2. d.parent \in 1..(d.handle - 1) BY <4>1
      <4>3. QED BY <2>4, <2>7, <3>2, <4>2
    <3>3. QED BY <2>2, <3>1, <3>2
  <2>10. \A h \in Known' \ {1} : \E d \in tree' : d.handle = h BY <2>2, <2>4, <2>7 DEF NfsTree
  <2>11. \A d, f \in tree' : d.handle = f.handle => d = f BY <2>2, <2>3, <2>4 DEF NfsTree
  <2>12. 1 + Cardinality(tree') <= MaxHandle BY <1>1, <1>2, <2>3, <2>5
  <2>13. NfsTree' BY <2>5, <2>8, <2>9, <2>10, <2>11, <2>12 DEF NfsTree
  <2>14. NfsScenario'
    <3>1. PICK m \in Nat : m = Cardinality(nfsScenario.tree) BY DEF NfsScenario
    <3>2. m <= n + 1 BY <1>1, <3>1 DEF NfsScenario
    <3>3. QED BY <2>5, <2>7, <3>1, <3>2 DEF NfsScenario
  <2>15. handle \notin nfsScenario.folders BY <2>3 DEF NfsScenario
  <2>16. QED BY <1>3, <2>2, <2>7, <2>13, <2>14, <2>15
<1>4. CASE ~(ok /\ r.proc = "create")
  <2>1. tree' = tree BY <1>4 DEF N!Serve
  <2>2. Known' = Known /\ NfsTree' /\ NfsScenario' BY <2>1 DEF Known, NfsTree, NfsScenario
  <2>3. gone' \subseteq Known'
    <3>1. gone' = gone \/ (ok /\ r.proc = "remove" /\ gone' = gone \cup {handle}) BY DEF N!Serve
    <3>2. QED BY <2>2, <3>1, GivenFacts
  <2>4. nfsHeld' = nfsHeld \/ (ok /\ r.proc \in {"mount", "lookup"} /\ nfsHeld' = nfsHeld \cup {handle})
    BY <1>4 DEF N!Serve
  <2>5. ok /\ r.proc \in {"mount", "lookup"} => handle \in Known BY GivenFacts, AllPlaced DEF Placed
  <2>6. QED BY <1>4, <2>1, <2>2, <2>3, <2>4, <2>5
<1>5. QED BY <1>3, <1>4

--------------------------------
(* What a session holds. *)

Dir(s, h) == IF h \in DOMAIN s.paths THEN s.paths[h] ELSE <<>>
Target(s, r) == (IF Dir(s, r.handle) = <<>> THEN <<"?">> ELSE Dir(s, r.handle)) \o <<r.name>>

LEMMA RecordedFields ==
  ASSUME NEW s, Shaped(s), NEW r, NEW w, w = N!Recorded(s, r)
  PROVE  /\ w.deaf = s.deaf
         /\ w.handle = IF r.proc \in {"lookup", "read", "write"} THEN r.handle ELSE s.handle
         /\ w.name = IF r.proc = "lookup" THEN r.name ELSE s.name
         /\ r.proc \in {"getport", "mount", "umount"} => w.param = r.param
         /\ w.path = IF r.proc \in {"create", "remove"} THEN Target(s, r) ELSE s.path
<1>1. PICK a : a = [s EXCEPT !.called = TRUE] OBVIOUS
<1> DEFINE Same(x) == x.deaf = s.deaf /\ x.handle = s.handle /\ x.name = s.name /\ x.path = s.path
<1>2. Shaped(a) /\ Same(a) BY <1>1, ShapedChange DEF NfsFields
<1>3. PICK b : b = [a EXCEPT !.xid = r.xid] OBVIOUS
<1>4. Shaped(b) /\ Same(b) BY <1>2, <1>3, ShapedChange DEF NfsFields
<1>5. PICK call : call = [b EXCEPT !.proc = r.proc] OBVIOUS
<1>6. Shaped(call) /\ Same(call) BY <1>4, <1>5, ShapedChange DEF NfsFields
<1>7. call = [s EXCEPT !.called = TRUE, !.xid = r.xid, !.proc = r.proc] BY <1>1, <1>3, <1>5
<1>8. PICK dir, path : dir = Dir(s, r.handle) /\ path = Target(s, r) OBVIOUS
<1>9. w = CASE r.proc \in {"getport", "mount", "umount"} -> [call EXCEPT !.param = r.param]
            [] r.proc = "lookup" -> [call EXCEPT !.handle = r.handle, !.name = r.name]
            [] r.proc \in {"read", "write"} -> [call EXCEPT !.handle = r.handle]
            [] r.proc \in {"create", "remove"} -> [call EXCEPT !.path = path]
            [] OTHER -> call
  BY <1>7, <1>8 DEF N!Recorded, Dir, Target
<1>10. CASE r.proc \in {"getport", "mount", "umount"}
  <2>1. w = [call EXCEPT !.param = r.param] BY <1>9, <1>10
  <2>2. Same(w) /\ w.param = r.param BY <1>6, <2>1, ShapedChange DEF NfsFields
  <2>3. QED BY <1>10, <2>2
<1>11. CASE r.proc = "lookup"
  <2>1. PICK v : v = [call EXCEPT !.handle = r.handle] OBVIOUS
  <2>2. Shaped(v) /\ v.deaf = s.deaf /\ v.handle = r.handle /\ v.path = s.path
    BY <1>6, <2>1, ShapedChange DEF NfsFields
  <2>3. w = [v EXCEPT !.name = r.name] BY <1>9, <1>11, <2>1
  <2>4. w.deaf = s.deaf /\ w.handle = r.handle /\ w.path = s.path /\ w.name = r.name
    BY <2>2, <2>3, ShapedChange DEF NfsFields
  <2>5. QED BY <1>11, <2>4
<1>12. CASE r.proc \in {"read", "write"}
  <2>1. w = [call EXCEPT !.handle = r.handle] BY <1>9, <1>12
  <2>2. w.deaf = s.deaf /\ w.handle = r.handle /\ w.path = s.path /\ w.name = s.name
    BY <1>6, <2>1, ShapedChange DEF NfsFields
  <2>3. QED BY <1>12, <2>2
<1>13. CASE r.proc \in {"create", "remove"}
  <2>1. w = [call EXCEPT !.path = path] BY <1>9, <1>13
  <2>2. w.deaf = s.deaf /\ w.handle = s.handle /\ w.path = path /\ w.name = s.name
    BY <1>6, <2>1, ShapedChange DEF NfsFields
  <2>3. QED BY <1>8, <1>13, <2>2
<1>14. CASE r.proc \notin {"getport", "mount", "umount", "lookup", "read", "write", "create", "remove"}
  <2>1. w = call BY <1>9, <1>14
  <2>2. QED BY <1>6, <1>14, <2>1
<1>15. QED BY <1>10, <1>11, <1>12, <1>13, <1>14

(* What an answer does to the names: at most one is put in. *)
LEMMA SessionFields ==
  ASSUME NEW s, Shaped(s), NEW proc, NEW reply, NEW w, w = N!Session(s, proc, reply), proc # "umount"
  PROVE  /\ w.deaf = s.deaf /\ w.name = s.name /\ w.param = s.param /\ w.path = s.path
         /\ \/ w.paths = s.paths
            \/ proc = "mount" /\ reply.ok /\ w.paths = N!Put(s.paths, reply.handle, <<Export>>)
            \/ /\ proc = "lookup" /\ reply.accepted
               /\ w.paths = N!Put(s.paths, IF reply.ok THEN reply.handle ELSE 0, Dir(s, s.handle) \o <<s.name>>)
<1>1. ASSUME NEW p, w = [s EXCEPT !.paths = p]
      PROVE  w.deaf = s.deaf /\ w.name = s.name /\ w.param = s.param /\ w.path = s.path /\ w.paths = p
  BY <1>1, ShapedChange DEF NfsFields
<1>2. CASE proc = "mount" /\ reply.ok
  <2>1. PICK p : p = N!Put(s.paths, reply.handle, <<Export>>) OBVIOUS
  <2>2. w = [s EXCEPT !.paths = p] BY <1>2, <2>1 DEF N!Session, Shaped, NfsFields
  <2>3. QED BY <1>1, <1>2, <2>1, <2>2
<1>3. CASE proc = "lookup" /\ reply.accepted
  <2>1. PICK p : p = N!Put(s.paths, IF reply.ok THEN reply.handle ELSE 0, Dir(s, s.handle) \o <<s.name>>)
    OBVIOUS
  <2>2. w = [s EXCEPT !.paths = p] BY <1>3, <2>1 DEF N!Session, N!LookedUp, Dir, Shaped, NfsFields
  <2>3. QED BY <1>1, <1>3, <2>1, <2>2
<1>4. CASE ~(proc = "mount" /\ reply.ok) /\ ~(proc = "lookup" /\ reply.accepted)
  <2>1. w = s BY <1>4 DEF N!Session
  <2>2. QED BY <2>1
<1>5. QED BY <1>2, <1>3, <1>4

LEMMA SessionRest ==
  ASSUME NEW s, Shaped(s), NEW proc, proc # "umount", NEW reply
  PROVE  LET w == N!Session(s, proc, reply)
         IN  w.deaf = s.deaf /\ w.name = s.name /\ w.param = s.param /\ w.path = s.path
<1>1. PICK w : w = N!Session(s, proc, reply) OBVIOUS
<1>2. /\ w.deaf = s.deaf /\ w.name = s.name /\ w.param = s.param /\ w.path = s.path
      /\ \/ w.paths = s.paths
         \/ proc = "mount" /\ reply.ok /\ w.paths = N!Put(s.paths, reply.handle, <<Export>>)
         \/ /\ proc = "lookup" /\ reply.accepted
            /\ w.paths = N!Put(s.paths, IF reply.ok THEN reply.handle ELSE 0, Dir(s, s.handle) \o <<s.name>>)
  BY <1>1, SessionFields
<1>3. QED BY <1>1, <1>2

(* The types of a session after n calls of which k are under way: each *)
(* answer puts at most one more name into a path. *)
PathWords == NfsNames \cup {Export, "?", "..", None}
TypedPaths(f, n, k) ==
  /\ DOMAIN f \subseteq N!Handles
  /\ \A h \in DOMAIN f : f[h] \in Seq(PathWords) /\ Len(f[h]) + k <= n
SessionTyped(s, n, k) ==
  /\ Shaped(s) /\ s.called \in BOOLEAN /\ s.deaf \in BOOLEAN /\ s.xid \in 0..n
  /\ s.proc \in N!Procedures \cup {None} /\ s.handle \in N!Handles
  /\ s.name \in PathWords /\ s.path \in Seq(PathWords) /\ Len(s.path) <= n + 1
  /\ s.called /\ s.proc = "getport" => s.param \in N!Connections
  /\ ~s.called => s.param = None
  /\ TypedPaths(s.paths, n, k)

LEMMA BlankTyped ==
  ASSUME NEW n \in Nat, NEW k PROVE SessionTyped(N!Blank, n, k)
<1>1. PICK s : s = N!Blank OBVIOUS
<1>2. /\ s.called = FALSE /\ s.xid = 0 /\ s.proc = None /\ s.param = None /\ s.handle = 0
      /\ s.name = None /\ s.path = <<>> /\ s.paths = <<>> /\ s.deaf = FALSE
  BY <1>1 DEF N!Blank, N!None, None
<1>3. Shaped(s) BY <1>1, BlankSession
<1>4. DOMAIN s.paths = {}
  <2>1. DOMAIN <<>> = {} OBVIOUS
  <2>2. QED BY <1>2, <2>1
<1>5. s.path \in Seq(PathWords) /\ Len(s.path) = 0 /\ Len(s.path) <= n + 1 BY <1>2
<1>6. 0 \in 0..n /\ 0 \in N!Handles BY NfsAssumption DEF N!Handles
<1>7. QED BY <1>1, <1>2, <1>3, <1>4, <1>5, <1>6 DEF SessionTyped, TypedPaths, PathWords

LEMMA TypedLater ==
  ASSUME NEW n \in Nat, NEW k \in Nat, NEW m \in Nat, NEW j \in Nat, n <= m, m - n >= j - k,
         NEW s, SessionTyped(s, n, k)
  PROVE  SessionTyped(s, m, j)
<1>1. s.xid \in 0..m /\ Len(s.path) <= m + 1 BY DEF SessionTyped
<1>2. TypedPaths(s.paths, m, j)
  <2> SUFFICES ASSUME NEW h \in DOMAIN s.paths PROVE Len(s.paths[h]) + j <= m BY DEF SessionTyped, TypedPaths
  <2>1. PICK p : p = s.paths[h] OBVIOUS
  <2>2. p \in Seq(PathWords) /\ Len(p) + k <= n BY <2>1 DEF SessionTyped, TypedPaths
  <2>3. Len(p) \in Nat BY <2>2
  <2>4. Len(p) + j <= m BY <2>2, <2>3
  <2>5. QED BY <2>1, <2>4
<1>3. QED BY <1>1, <1>2 DEF SessionTyped

LEMMA RecordedTyped ==
  ASSUME NEW n \in Nat, NEW k \in Nat, k <= n, NEW s, SessionTyped(s, n, k),
         NfsTree, NEW r, NfsAsk(r), r.xid = n + 1, NEW j \in Nat, j <= k + 1
  PROVE  SessionTyped(N!Recorded(s, r), n + 1, j)
<1>1. PICK w : w = N!Recorded(s, r) OBVIOUS
<1>2. Shaped(s) /\ SessionTyped(s, n + 1, j) BY TypedLater DEF SessionTyped
<1>3. Shaped(w) /\ w.called = TRUE /\ w.xid = n + 1 /\ w.proc = r.proc /\ w.paths = s.paths
  BY <1>1, <1>2, RecordedFacts DEF Matches
<1>4. /\ w.deaf = s.deaf
      /\ w.handle = IF r.proc \in {"lookup", "read", "write"} THEN r.handle ELSE s.handle
      /\ w.name = IF r.proc = "lookup" THEN r.name ELSE s.name
      /\ r.proc \in {"getport", "mount", "umount"} => w.param = r.param
      /\ w.path = IF r.proc \in {"create", "remove"} THEN Target(s, r) ELSE s.path
  BY <1>1, <1>2, RecordedFields
<1>5. w.handle \in N!Handles
  <2>1. Known \subseteq 1..MaxHandle /\ MaxHandle \in Nat BY AllPlaced, NfsAssumption DEF Placed
  <2>2. r.handle \in N!Handles
    <3>1. r.handle \in Known \cup {0} BY DEF NfsAsk
    <3>2. r.handle \in 0..MaxHandle
      <4>1. r.handle = 0 \/ r.handle \in 1..MaxHandle BY <2>1, <3>1
      <4>2. QED BY <2>1, <4>1
    <3>3. QED BY <3>2 DEF N!Handles
  <2>3. QED BY <1>2, <1>4, <2>2 DEF SessionTyped
<1>6. w.name \in PathWords BY <1>2, <1>4 DEF SessionTyped, NfsAsk, PathWords
<1>7. w.path \in Seq(PathWords) /\ Len(w.path) <= (n + 1) + 1
  <2>1. CASE r.proc \in {"create", "remove"}
    <3>1. PICK dir, name : dir = (IF Dir(s, r.handle) = <<>> THEN <<"?">> ELSE Dir(s, r.handle)) /\ name = r.name
      OBVIOUS
    <3>2. w.path = dir \o <<name>> /\ name \in PathWords BY <1>4, <2>1, <3>1 DEF Target, NfsAsk, PathWords
    <3>3. dir \in Seq(PathWords) /\ Len(dir) <= n + 1
      <4>1. CASE dir = <<"?">> BY <4>1 DEF PathWords
      <4>2. CASE dir # <<"?">>
        <5>1. PICK p : p = s.paths[r.handle] OBVIOUS
        <5>2. dir = p /\ r.handle \in DOMAIN s.paths BY <3>1, <4>2, <5>1 DEF Dir
        <5>3. p \in Seq(PathWords) /\ Len(p) + k <= n BY <5>1, <5>2 DEF SessionTyped, TypedPaths
        <5>4. Len(p) \in Nat BY <5>3
        <5>5. Len(p) <= n + 1 BY <5>3, <5>4
        <5>6. QED BY <5>2, <5>3, <5>5
      <4>3. QED BY <4>1, <4>2
    <3>4. <<name>> \in Seq(PathWords) /\ Len(<<name>>) = 1 BY <3>2
    <3>5. dir \o <<name>> \in Seq(PathWords) /\ Len(dir \o <<name>>) = Len(dir) + 1 /\ Len(dir) \in Nat
      BY <3>3, <3>4
    <3>6. QED BY <3>2, <3>3, <3>5
  <2>2. CASE r.proc \notin {"create", "remove"} BY <1>2, <1>4, <2>2 DEF SessionTyped
  <2>3. QED BY <2>1, <2>2
<1>8. w.proc = "getport" => w.param \in N!Connections BY <1>3, <1>4 DEF NfsAsk
<1>9. w.proc \in N!Procedures /\ w.deaf \in BOOLEAN /\ TypedPaths(w.paths, n + 1, j) /\ w.xid \in 0..(n + 1)
  BY <1>2, <1>3, <1>4 DEF NfsAsk, SessionTyped
<1>10. SessionTyped(w, n + 1, j) BY <1>3, <1>5, <1>6, <1>7, <1>8, <1>9 DEF SessionTyped
<1>11. QED BY <1>1, <1>10

LEMMA AnsweredTyped ==
  ASSUME NEW n \in Nat, NEW k \in Nat, k < n, NEW s, SessionTyped(s, n, k + 1),
         NEW proc, NEW reply, reply.handle \in N!Handles
  PROVE  SessionTyped(N!Session(s, proc, reply), n, k)
<1>1. PICK w : w = N!Session(s, proc, reply) OBVIOUS
<1>2. Shaped(s) /\ SessionTyped(s, n, k)
  <2>1. PICK m \in Nat : m = k + 1 OBVIOUS
  <2>2. n - n >= k - m /\ n <= n /\ SessionTyped(s, n, m) BY <2>1
  <2>3. SessionTyped(s, n, k) BY <2>2, TypedLater
  <2>4. QED BY <2>3 DEF SessionTyped
<1>3. CASE proc = "umount" BY <1>1, <1>2, <1>3, SessionFacts, BlankTyped
<1>4. CASE proc # "umount"
  <2>1. /\ Shaped(w) /\ w.called = s.called /\ w.xid = s.xid /\ w.proc = s.proc /\ w.handle = s.handle
    BY <1>1, <1>2, <1>4, SessionFacts
  <2>2. /\ w.deaf = s.deaf /\ w.name = s.name /\ w.param = s.param /\ w.path = s.path
        /\ \/ w.paths = s.paths
           \/ w.paths = N!Put(s.paths, reply.handle, <<Export>>)
           \/ w.paths = N!Put(s.paths, IF reply.ok THEN reply.handle ELSE 0, Dir(s, s.handle) \o <<s.name>>)
    BY <1>1, <1>2, <1>4, SessionFields
  <2>3. ASSUME NEW x \in N!Handles, NEW p \in Seq(PathWords), Len(p) + k <= n,
               w.paths = N!Put(s.paths, x, p)
        PROVE  TypedPaths(w.paths, n, k)
    <3>1. /\ DOMAIN w.paths = DOMAIN s.paths \cup {x}
          /\ \A h \in DOMAIN w.paths : w.paths[h] = IF h = x THEN p ELSE s.paths[h]
      BY <2>3 DEF N!Put
    <3>2. QED BY <1>2, <2>3, <3>1 DEF SessionTyped, TypedPaths
  <2>4. TypedPaths(w.paths, n, k)
    <3>1. CASE w.paths = s.paths BY <1>2, <3>1 DEF SessionTyped
    <3>2. CASE w.paths = N!Put(s.paths, reply.handle, <<Export>>)
      <4>1. <<Export>> \in Seq(PathWords) /\ Len(<<Export>>) = 1 BY DEF PathWords
      <4>2. Len(<<Export>>) + k <= n BY <4>1
      <4>3. QED BY <2>3, <3>2, <4>1, <4>2
    <3>3. CASE w.paths = N!Put(s.paths, IF reply.ok THEN reply.handle ELSE 0, Dir(s, s.handle) \o <<s.name>>)
      <4>1. PICK dir, name, x :
              dir = Dir(s, s.handle) /\ name = s.name /\ x = IF reply.ok THEN reply.handle ELSE 0
        OBVIOUS
      <4>2. name \in PathWords /\ x \in N!Handles BY <4>1, NfsAssumption DEF SessionTyped, N!Handles
      <4>3. dir \in Seq(PathWords) /\ Len(dir) + (k + 1) <= n
        <5>1. CASE s.handle \in DOMAIN s.paths BY <4>1, <5>1 DEF Dir, SessionTyped, TypedPaths
        <5>2. CASE s.handle \notin DOMAIN s.paths
          <6>1. dir = <<>> BY <4>1, <5>2 DEF Dir
          <6>2. dir \in Seq(PathWords) /\ Len(dir) = 0 BY <6>1
          <6>3. QED BY <6>2
        <5>3. QED BY <5>1, <5>2
      <4>4. <<name>> \in Seq(PathWords) /\ Len(<<name>>) = 1 BY <4>2
      <4>5. dir \o <<name>> \in Seq(PathWords) /\ Len(dir \o <<name>>) = Len(dir) + 1 /\ Len(dir) \in Nat
        BY <4>3, <4>4
      <4>6. Len(dir \o <<name>>) + k <= n BY <4>3, <4>5
      <4>7. QED BY <2>3, <3>3, <4>1, <4>2, <4>5, <4>6
    <3>4. QED BY <2>2, <3>1, <3>2, <3>3
  <2>5. SessionTyped(w, n, k) BY <1>2, <2>1, <2>2, <2>4 DEF SessionTyped
  <2>6. QED BY <1>1, <2>5
<1>5. QED BY <1>3, <1>4

--------------------------------
(* Types of the file server, of the calls under way and of the sessions. *)
NfsHosts ==
  NfsTree /\ NfsScenario /\ gone \subseteq Known /\ nfsHeld \subseteq Known
NfsAsks ==
  /\ nfsRequests \in Nat /\ nfsRequests <= nfsScenario.requests
  /\ IsFiniteSet(nfsAsked) /\ Cardinality(nfsAsked) <= nfsRequests
  /\ \A r \in nfsAsked : NfsAsk(r) /\ r.xid \in 1..nfsRequests
  /\ Xids
SessionsTyped(n, k) ==
  /\ ports \subseteq N!Connections /\ nfsScenario.ports \cup {"portmap"} \subseteq ports
  /\ sessions = [c \in N!Connections |-> sessions[c]]
  /\ \A c \in N!Connections : SessionTyped(sessions[c], n, k)
  /\ \A c \in N!Connections \ ports : sessions[c] = N!Blank
NfsSessions == SessionsTyped(nfsRequests, Cardinality(nfsAsked))
Logged(n) ==
  lines = {} \/ \E p \in Seq(PathWords) : \E proc : Len(p) <= n /\ lines = {[proc |-> proc, path |-> p]}

(* A session that waits for an answer waits for that to its last call. *)
Recalls(s, r) ==
  s.called /\ s.xid = r.xid =>
    /\ s.proc = r.proc
    /\ r.proc \in {"lookup", "read", "write"} => s.handle = r.handle
    /\ r.proc = "lookup" => s.name = r.name
Recalled == \A r \in nfsAsked : Recalls(sessions[r.conn], r)
NfsWorld == NfsHosts /\ NfsAsks /\ NfsSessions /\ Logged(nfsRequests + 1) /\ Recalled

LEMMA ConnectionsAre ==
  ASSUME NEW proc PROVE N!ConnectionOf(proc) \in N!Connections
BY DEF N!ConnectionOf, N!MountConnection, N!Connections

LEMMA AskStays ==
  ASSUME NEW r, NfsAsk(r), Known \subseteq Known', nfsHeld \subseteq nfsHeld', UNCHANGED nfsScenario
  PROVE  NfsAsk(r)'
<1>1. N!ConnectionOf(r.proc)' = N!ConnectionOf(r.proc) BY DEF N!ConnectionOf, N!MountConnection
<1>2. QED BY <1>1 DEF NfsAsk

LEMMA SessionChanges ==
  ASSUME NfsSessions, NfsAsks, nfsRequests' \in Nat, IsFiniteSet(nfsAsked'), nfsRequests <= nfsRequests',
         nfsRequests' - nfsRequests >= Cardinality(nfsAsked') - Cardinality(nfsAsked),
         UNCHANGED nfsScenario, ports \subseteq ports', ports' \subseteq N!Connections,
         NEW c \in N!Connections, NEW w, sessions' = [sessions EXCEPT ![c] = w],
         SessionTyped(w, nfsRequests', Cardinality(nfsAsked')), c \in ports \/ w = N!Blank
  PROVE  /\ NfsSessions' /\ sessions'[c] = w
         /\ \A d \in N!Connections : d # c => sessions'[d] = sessions[d]
<1>1. PICK n \in Nat, k \in Nat : n = nfsRequests /\ k = Cardinality(nfsAsked) BY FS_CardinalityType DEF NfsAsks
<1>2. PICK m \in Nat, j \in Nat : m = nfsRequests' /\ j = Cardinality(nfsAsked') BY FS_CardinalityType
<1>3. n <= m /\ m - n >= j - k BY <1>1, <1>2
<1>4. sessions = [d \in N!Connections |-> sessions[d]] BY DEF NfsSessions, SessionsTyped
<1>5. /\ sessions' = [d \in N!Connections |-> sessions'[d]] /\ sessions'[c] = w
      /\ \A d \in N!Connections : d # c => sessions'[d] = sessions[d]
  BY <1>4
<1>6. ASSUME NEW d \in N!Connections PROVE SessionTyped(sessions'[d], m, j)
  <2>1. CASE d = c BY <1>2, <1>5, <2>1
  <2>2. CASE d # c
    <3>1. SessionTyped(sessions[d], n, k) BY <1>1 DEF NfsSessions, SessionsTyped
    <3>2. SessionTyped(sessions[d], m, j) BY <1>3, <3>1, TypedLater
    <3>3. QED BY <1>5, <2>2, <3>2
  <2>3. QED BY <2>1, <2>2
<1>7. \A d \in N!Connections \ ports' : sessions'[d] = N!Blank
  <2> SUFFICES ASSUME NEW d \in N!Connections \ ports' PROVE sessions'[d] = N!Blank OBVIOUS
  <2>1. d \notin ports OBVIOUS
  <2>2. CASE d = c BY <1>5, <2>1, <2>2
  <2>3. CASE d # c BY <1>5, <2>1, <2>3 DEF NfsSessions, SessionsTyped
  <2>4. QED BY <2>2, <2>3
<1>8. nfsScenario'.ports \cup {"portmap"} \subseteq ports' BY DEF NfsSessions, SessionsTyped
<1>9. QED BY <1>2, <1>5, <1>6, <1>7, <1>8 DEF NfsSessions, SessionsTyped

(* A call that comes, and the session before and after it. *)
Called(q, s, w) ==
  /\ q.conn \in N!Connections /\ s = sessions[q.conn] /\ Shaped(s) /\ Shaped(w)
  /\ NfsAsk(q) /\ q.xid = nfsRequests + 1 /\ q.seen \in BOOLEAN /\ w.paths = s.paths
  /\ nfsAsked' = nfsAsked \cup {q} /\ nfsRequests' = nfsRequests + 1
  /\ sessions' = [sessions EXCEPT ![q.conn] = w]
  /\ nfsOdd \subseteq nfsOdd' /\ nfsRequests < nfsScenario.requests
  /\ lines' = {} /\ UNCHANGED <<ports, nfsScenario, tree, gone, nfsHeld>>
(* The ways a call may be taken. *)
Heeded(q, s, w) ==
  /\ q.seen = (N!Watched(q.conn) /\ ~s.deaf) /\ w = IF q.seen THEN N!Recorded(s, q) ELSE s
  /\ q.name = ".." => "dotdot" \in nfsOdd'
  /\ (\E a \in nfsAsked : a.conn = q.conn) => "several" \in nfsOdd'
Passed(q, s, w) ==
  /\ q.seen = FALSE /\ w = [s EXCEPT !.deaf = FALSE] /\ q.name # ".." /\ "unseen" \in nfsOdd'

LEMMA CallIs ==
  ASSUME NfsWorld, N!Call
  PROVE  \E q : \E s, w : Called(q, s, w) /\ Heeded(q, s, w)
<1>1. PICK r \in N!Calls : \E read :
        /\ read = (N!Watched(r.conn) /\ ~sessions[r.conn].deaf)
        /\ nfsAsked' = nfsAsked \cup {[r EXCEPT !.seen = read]}
        /\ sessions' = IF read THEN [sessions EXCEPT ![r.conn] = N!Recorded(sessions[r.conn], r)] ELSE sessions
        /\ nfsRequests' = nfsRequests + 1 /\ nfsRequests < nfsScenario.requests /\ lines' = {}
        /\ nfsOdd' = nfsOdd \cup (IF \E a \in nfsAsked : a.conn = r.conn THEN {"several"} ELSE {})
                            \cup (IF r.name = ".." THEN {"dotdot"} ELSE {})
        /\ UNCHANGED <<ports, nfsScenario, tree, gone, nfsHeld>>
  BY DEF N!Call
<1>2. PICK read : /\ read = (N!Watched(r.conn) /\ ~sessions[r.conn].deaf)
                  /\ nfsAsked' = nfsAsked \cup {[r EXCEPT !.seen = read]}
                  /\ sessions' = IF read THEN [sessions EXCEPT ![r.conn] = N!Recorded(sessions[r.conn], r)] ELSE sessions
  BY <1>1
<1>3. PICK q, s, w :
        /\ q = [r EXCEPT !.seen = read] /\ s = sessions[r.conn]
        /\ w = IF read THEN N!Recorded(sessions[r.conn], r) ELSE sessions[r.conn]
  OBVIOUS
<1>4. NfsAsk(q) /\ q.name = r.name BY <1>3, CallAsks DEF NfsWorld, NfsHosts
<1>5. r.conn \in N!Connections /\ r.xid = nfsRequests + 1 BY CallFacts
<1>6. q.conn = r.conn /\ q.xid = r.xid /\ q.proc = r.proc /\ q.handle = r.handle /\ q.seen = read
  BY <1>3, CallSeen
<1>7. q.param = r.param
  <2>1. PICK proc, param, handle, name :
          r = [conn |-> N!ConnectionOf(proc), xid |-> nfsRequests + 1, proc |-> proc, param |-> param,
               handle |-> handle, name |-> name, seen |-> FALSE]
    BY DEF N!Calls
  <2>2. QED BY <1>3, <2>1
<1>8. N!Recorded(s, q) = N!Recorded(s, r) BY <1>4, <1>6, <1>7 DEF N!Recorded
<1>9. Shaped(s) /\ sessions = [c \in N!Connections |-> sessions[c]]
  BY <1>3, <1>5 DEF NfsWorld, NfsSessions, SessionsTyped, SessionTyped
<1>10. read \in BOOLEAN BY <1>2
<1>11. CASE read
  <2>1. w = N!Recorded(s, q) /\ sessions' = [sessions EXCEPT ![q.conn] = w] BY <1>2, <1>3, <1>6, <1>8, <1>11
  <2>2. Shaped(w) /\ w.paths = s.paths BY <1>9, <2>1, RecordedFacts
  <2>3. Called(q, s, w) BY <1>1, <1>2, <1>3, <1>4, <1>5, <1>6, <1>9, <1>10, <2>1, <2>2 DEF Called
  <2>4. Heeded(q, s, w) BY <1>1, <1>2, <1>3, <1>4, <1>6, <1>11, <2>1 DEF Heeded
  <2>5. QED BY <2>3, <2>4
<1>12. CASE ~read
  <2>1. w = s /\ sessions' = [sessions EXCEPT ![q.conn] = w] BY <1>2, <1>3, <1>5, <1>6, <1>9, <1>12
  <2>2. Called(q, s, w) BY <1>1, <1>2, <1>3, <1>4, <1>5, <1>6, <1>9, <1>10, <2>1 DEF Called
  <2>3. Heeded(q, s, w) BY <1>1, <1>2, <1>3, <1>4, <1>6, <1>10, <1>12, <2>1 DEF Heeded
  <2>4. QED BY <2>2, <2>3
<1>13. QED BY <1>10, <1>11, <1>12

LEMMA CallUnseenIs ==
  ASSUME NfsWorld, N!CallUnseen
  PROVE  \E q : \E s, w : Called(q, s, w) /\ Passed(q, s, w)
<1>1. PICK q \in N!Calls :
        /\ nfsAsked' = nfsAsked \cup {q} /\ nfsRequests' = nfsRequests + 1 /\ q.name # ".."
        /\ nfsRequests < nfsScenario.requests /\ lines' = {}
        /\ sessions' = [sessions EXCEPT ![q.conn].deaf = FALSE] /\ nfsOdd' = nfsOdd \cup {"unseen"}
        /\ UNCHANGED <<ports, nfsScenario, tree, gone, nfsHeld>>
  BY DEF N!CallUnseen
<1>2. PICK s, w : s = sessions[q.conn] /\ w = [s EXCEPT !.deaf = FALSE] OBVIOUS
<1>3. sessions' = [sessions EXCEPT ![q.conn] = w] BY <1>1, <1>2
<1>4. PICK x : x = [q EXCEPT !.seen = FALSE] OBVIOUS
<1>5. NfsAsk(q) BY <1>4, CallAsks DEF NfsWorld, NfsHosts
<1>6. q.conn \in N!Connections /\ q.xid = nfsRequests + 1 /\ q.seen = FALSE BY CallFacts
<1>7. Shaped(s) BY <1>2, <1>6 DEF NfsWorld, NfsSessions, SessionsTyped, SessionTyped
<1>8. Shaped(w) /\ w.paths = s.paths BY <1>2, <1>7, ShapedChange DEF NfsFields
<1>9. Called(q, s, w) BY <1>1, <1>2, <1>3, <1>5, <1>6, <1>7, <1>8 DEF Called
<1>10. Passed(q, s, w) BY <1>1, <1>2, <1>6 DEF Passed
<1>11. QED BY <1>9, <1>10

LEMMA Undeafened ==
  ASSUME NEW s, Shaped(s), NEW w, w = [s EXCEPT !.deaf = FALSE]
  PROVE  /\ Shaped(w) /\ w.called = s.called /\ w.xid = s.xid /\ w.proc = s.proc /\ w.param = s.param
         /\ w.handle = s.handle /\ w.name = s.name /\ w.path = s.path /\ w.paths = s.paths /\ w.deaf = FALSE
         /\ s = N!Blank => w = N!Blank
<1>1. Shaped(w) /\ w.deaf = FALSE /\ \A g \in NfsFields : g # "deaf" => w[g] = s[g]
  BY ShapedChange DEF NfsFields
<1>2. s = N!Blank => s.deaf = FALSE BY DEF N!Blank
<1>3. s.deaf = FALSE => \A g \in NfsFields : w[g] = s[g] BY <1>1
<1>4. s.deaf = FALSE => w = s BY <1>1, <1>3 DEF Shaped
<1>5. QED BY <1>1, <1>2, <1>4 DEF NfsFields

LEMMA CalledWorld ==
  ASSUME NfsWorld, NEW q, NEW s, NEW w, Called(q, s, w), Heeded(q, s, w) \/ Passed(q, s, w)
  PROVE  NfsWorld'
<1>1. PICK n \in Nat, k \in Nat : n = nfsRequests /\ k = Cardinality(nfsAsked) /\ k <= n
  BY FS_CardinalityType DEF NfsWorld, NfsAsks
<1>2. PICK j \in Nat : /\ j = Cardinality(nfsAsked') /\ j <= k + 1 /\ IsFiniteSet(nfsAsked')
  BY <1>1, FS_AddElement, FS_CardinalityType DEF NfsWorld, NfsAsks, Called
<1>3. /\ q.conn \in N!Connections /\ s = sessions[q.conn] /\ Shaped(s) /\ Shaped(w)
      /\ NfsAsk(q) /\ q.xid = n + 1 /\ q.seen \in BOOLEAN /\ nfsAsked' = nfsAsked \cup {q} /\ nfsRequests' = n + 1
      /\ sessions' = [sessions EXCEPT ![q.conn] = w] /\ n < nfsScenario.requests /\ lines' = {}
      /\ UNCHANGED <<ports, nfsScenario, tree, gone, nfsHeld>>
  BY <1>1 DEF Called
<1>4. SessionTyped(s, n, k) /\ SessionsTyped(n, k) BY <1>1, <1>3 DEF NfsWorld, NfsSessions, SessionsTyped
<1>5. SessionTyped(w, n + 1, j)
  <2>1. CASE w = N!Recorded(s, q) BY <1>1, <1>2, <1>3, <1>4, <2>1, RecordedTyped DEF NfsWorld, NfsHosts
  <2>2. SessionTyped(s, n + 1, j) BY <1>1, <1>2, <1>4, TypedLater
  <2>3. CASE w = [s EXCEPT !.deaf = FALSE]
    <3>1. /\ w.called = s.called /\ w.xid = s.xid /\ w.proc = s.proc /\ w.param = s.param /\ w.handle = s.handle
          /\ w.name = s.name /\ w.path = s.path /\ w.paths = s.paths /\ w.deaf = FALSE
      BY <1>3, <2>3, Undeafened
    <3>2. QED BY <1>3, <2>2, <3>1 DEF SessionTyped
  <2>4. CASE w = s BY <2>2, <2>4
  <2>5. QED BY <2>1, <2>3, <2>4 DEF Heeded, Passed
<1>6. q.conn \in ports \/ w = N!Blank
  <2>1. CASE q.conn \notin ports
    <3>1. s = N!Blank BY <1>3, <1>4, <2>1 DEF SessionsTyped
    <3>2. ASSUME w = [s EXCEPT !.deaf = FALSE] PROVE w = N!Blank
      <4>1. Shaped(s) BY <1>3
      <4>2. QED BY <3>1, <3>2, <4>1, Undeafened
    <3>3. QED BY <2>1, <3>1, <3>2 DEF Heeded, Passed, N!Watched
  <2>2. QED BY <2>1
<1>7. /\ NfsSessions' /\ sessions'[q.conn] = w
      /\ \A d \in N!Connections : d # q.conn => sessions'[d] = sessions[d]
  <2>1. /\ nfsRequests' \in Nat /\ nfsRequests <= nfsRequests'
        /\ nfsRequests' - nfsRequests >= Cardinality(nfsAsked') - Cardinality(nfsAsked)
    BY <1>1, <1>2, <1>3
  <2>2. ports \subseteq ports' /\ ports' \subseteq N!Connections BY <1>3, <1>4 DEF SessionsTyped
  <2>3. SessionTyped(w, nfsRequests', Cardinality(nfsAsked')) BY <1>2, <1>3, <1>5
  <2>4. NfsSessions /\ NfsAsks BY DEF NfsWorld
  <2>5. QED BY <1>2, <1>3, <1>6, <2>1, <2>2, <2>3, <2>4, SessionChanges
<1>8. NfsSessions' BY <1>7
<1>9. NfsHosts' /\ Known' = Known BY <1>3 DEF NfsWorld, NfsHosts, NfsTree, NfsScenario, Known
<1>10. NfsAsks'
  <2>1. nfsRequests' \in Nat /\ nfsRequests' <= nfsScenario'.requests
    BY <1>1, <1>3 DEF NfsWorld, NfsHosts, NfsScenario
  <2>2. \A r \in nfsAsked : r.xid \in 1..n BY <1>1 DEF NfsWorld, NfsAsks
  <2>3. ASSUME NEW r \in nfsAsked' PROVE NfsAsk(r)' /\ r.xid \in 1..nfsRequests'
    <3>1. NfsAsk(r) /\ r.xid \in 1..(n + 1) BY <1>1, <1>3, <2>2 DEF NfsWorld, NfsAsks
    <3>2. QED BY <1>3, <1>9, <3>1, AskStays
  <2>4. Xids'
    <3>1. \A r \in nfsAsked : r.xid # q.xid BY <1>1, <1>3, <2>2
    <3>2. QED BY <1>3, <3>1 DEF NfsWorld, NfsAsks, Xids
  <2>5. Cardinality(nfsAsked') <= nfsRequests' BY <1>1, <1>2, <1>3
  <2>6. QED BY <1>2, <2>1, <2>3, <2>4, <2>5 DEF NfsAsks
<1>11. Logged(nfsRequests + 1)' BY <1>3 DEF Logged
<1>12. Recalled'
  <2>1. s.xid \in 0..n BY <1>4 DEF SessionTyped
  <2>2. ASSUME NEW r \in nfsAsked' PROVE Recalls(sessions'[r.conn], r)
    <3>1. CASE r = q
      <4>1. CASE w = N!Recorded(s, q)
        <5>1. w.proc = q.proc BY <1>3, <4>1, RecordedFacts DEF Matches
        <5>2. /\ w.handle = IF q.proc \in {"lookup", "read", "write"} THEN q.handle ELSE s.handle
              /\ w.name = IF q.proc = "lookup" THEN q.name ELSE s.name
          <6>1. Shaped(s) BY <1>3
          <6>2. QED BY <4>1, <6>1, RecordedFields
        <5>3. QED BY <1>7, <3>1, <5>1, <5>2 DEF Recalls
      <4>2. CASE w = s \/ w = [s EXCEPT !.deaf = FALSE]
        <5>1. w.xid = s.xid BY <1>3, <4>2, Undeafened
        <5>2. w.xid # q.xid BY <1>1, <1>3, <2>1, <5>1
        <5>3. QED BY <1>7, <3>1, <5>2 DEF Recalls
      <4>3. QED BY <4>1, <4>2 DEF Heeded, Passed
    <3>2. CASE r \in nfsAsked /\ r.conn # q.conn
      <4>1. r.conn \in N!Connections BY <3>2, ConnectionsAre DEF NfsWorld, NfsAsks, NfsAsk
      <4>2. QED BY <1>7, <3>2, <4>1 DEF NfsWorld, Recalled
    <3>3. CASE r \in nfsAsked /\ r.conn = q.conn
      <4>1. Recalls(s, r) /\ r.xid \in 1..n BY <1>1, <1>3, <3>3 DEF NfsWorld, Recalled, NfsAsks
      <4>2. CASE w = N!Recorded(s, q)
        <5>1. w.xid = n + 1 BY <1>3, <4>2, RecordedFacts DEF Matches
        <5>2. w.xid # r.xid BY <1>1, <4>1, <5>1
        <5>3. QED BY <1>7, <3>3, <5>2 DEF Recalls
      <4>3. CASE w = s BY <1>7, <3>3, <4>1, <4>3
      <4>4. CASE w = [s EXCEPT !.deaf = FALSE]
        <5>1. w.called = s.called /\ w.xid = s.xid /\ w.proc = s.proc /\ w.handle = s.handle /\ w.name = s.name
          BY <1>3, <4>4, Undeafened
        <5>2. QED BY <1>7, <3>3, <4>1, <5>1 DEF Recalls
      <4>5. QED BY <4>2, <4>3, <4>4 DEF Heeded, Passed
    <3>4. QED BY <1>3, <3>1, <3>2, <3>3
  <2>3. QED BY <2>2 DEF Recalled
<1>13. QED BY <1>8, <1>9, <1>10, <1>11, <1>12 DEF NfsWorld

(* An answer that is looked at, and the session before and after it. *)
Replied(r, s, w, proc, reply) ==
  /\ r \in nfsAsked /\ s = sessions[r.conn] /\ r.conn \in ports
  /\ reply.xid = r.xid /\ reply.ok \in BOOLEAN /\ (reply.ok => reply.accepted /\ N!Found(r) # {})
  /\ reply.handle = N!Given(r, reply.ok) /\ proc \in N!Answers(s, reply)
  /\ N!Serve(r, reply.handle, reply.ok) /\ w = N!Session(s, proc, reply)
  /\ sessions' = [sessions EXCEPT ![r.conn] = w] /\ ports' = N!Ports(s, proc)
  /\ lines' = N!Lines(s, proc, reply) /\ nfsFacts'.proc = r.proc /\ nfsFacts'.path = N!PathOf(r)
  /\ nfsAsked' = nfsAsked \ {r} /\ UNCHANGED <<nfsScenario, nfsRequests>>
  /\ nfsOdd \subseteq nfsOdd' /\ (s.called \/ proc = None \/ "garbage" \in nfsOdd')
  /\ r.proc = "umount" => "umounted" \in nfsOdd'

LEMMA AnswerIs ==
  ASSUME N!Answer PROVE \E r : \E s, w, proc, reply : Replied(r, s, w, proc, reply)
<1>1. PICK r \in nfsAsked : \E accepted, wanted \in BOOLEAN : \E proc \in N!Procedures \cup {N!None} :
        N!AnswerTo(r, accepted, wanted, proc)
  BY DEF N!Answer
<1>2. PICK accepted \in BOOLEAN, wanted \in BOOLEAN, proc \in N!Procedures \cup {N!None} :
        N!AnswerTo(r, accepted, wanted, proc)
  BY <1>1
<1>3. PICK ok \in BOOLEAN : ok = (accepted /\ wanted /\ N!Found(r) # {}) OBVIOUS
<1>4. PICK reply, s : /\ reply = [xid |-> r.xid, accepted |-> accepted, ok |-> ok, handle |-> N!Given(r, ok)]
                      /\ s = sessions[r.conn]
  OBVIOUS
<1>5. PICK w : w = N!Session(s, proc, reply) OBVIOUS
<1>6. /\ N!Watched(r.conn) /\ proc \in N!Answers(s, reply) /\ N!Serve(r, reply.handle, ok)
      /\ sessions' = [sessions EXCEPT ![r.conn] = w] /\ ports' = N!Ports(s, proc)
      /\ lines' = N!Lines(s, proc, reply) /\ nfsFacts'.proc = r.proc /\ nfsFacts'.path = N!PathOf(r)
      /\ nfsAsked' = nfsAsked \ {r} /\ UNCHANGED <<nfsScenario, nfsRequests>>
      /\ nfsOdd' = nfsOdd \cup (IF s.called \/ proc = N!None THEN {} ELSE {"garbage"})
                          \cup (IF r.proc = "umount" THEN {"umounted"} ELSE {})
  BY <1>2, <1>3, <1>4, <1>5 DEF N!AnswerTo
<1>7. /\ reply.xid = r.xid /\ reply.ok = ok /\ reply.accepted = accepted /\ reply.handle = N!Given(r, ok)
      /\ (reply.ok => reply.accepted /\ N!Found(r) # {})
  BY <1>3, <1>4
<1>8. /\ nfsOdd \subseteq nfsOdd' /\ (s.called \/ proc = None \/ "garbage" \in nfsOdd')
      /\ r.proc = "umount" => "umounted" \in nfsOdd'
  BY <1>6 DEF N!None, None
<1>9. Replied(r, s, w, proc, reply) BY <1>4, <1>5, <1>6, <1>7, <1>8 DEF Replied, N!Watched
<1>10. QED BY <1>9

LEMMA RepliedWorld ==
  ASSUME NfsWorld, NEW r, NEW s, NEW w, NEW proc, NEW reply, Replied(r, s, w, proc, reply)
  PROVE  /\ NfsWorld' /\ sessions'[r.conn] = w
         /\ \A d \in N!Connections : d # r.conn => sessions'[d] = sessions[d]
<1>1. PICK n \in Nat, k \in Nat : n = nfsRequests /\ k = Cardinality(nfsAsked) /\ k <= n
  BY FS_CardinalityType DEF NfsWorld, NfsAsks
<1>2. /\ r \in nfsAsked /\ s = sessions[r.conn] /\ r.conn \in ports
      /\ reply.xid = r.xid /\ reply.ok \in BOOLEAN /\ (reply.ok => reply.accepted /\ N!Found(r) # {})
      /\ reply.handle = N!Given(r, reply.ok) /\ proc \in N!Answers(s, reply)
      /\ N!Serve(r, reply.handle, reply.ok) /\ w = N!Session(s, proc, reply)
      /\ sessions' = [sessions EXCEPT ![r.conn] = w] /\ ports' = N!Ports(s, proc)
      /\ lines' = N!Lines(s, proc, reply)
      /\ nfsAsked' = nfsAsked \ {r} /\ nfsScenario' = nfsScenario /\ nfsRequests' = nfsRequests
  BY DEF Replied
<1>3. NfsAsk(r) /\ r.conn \in N!Connections BY <1>2, ConnectionsAre DEF NfsWorld, NfsAsks, NfsAsk
<1>4. PICK j \in Nat : j = Cardinality(nfsAsked') /\ j + 1 = k /\ IsFiniteSet(nfsAsked')
  <2>1. IsFiniteSet(nfsAsked) BY DEF NfsWorld, NfsAsks
  <2>2. IsFiniteSet(nfsAsked \ {r}) /\ Cardinality(nfsAsked \ {r}) = k - 1 BY <1>1, <1>2, <2>1, FS_RemoveElement
  <2>3. Cardinality(nfsAsked \ {r}) \in Nat BY <2>2, FS_CardinalityType
  <2>4. QED BY <1>2, <2>2, <2>3
<1>5. SessionTyped(s, n, k) BY <1>1, <1>2, <1>3 DEF NfsWorld, NfsSessions, SessionsTyped
<1>6. reply.handle \in N!Handles
  <2>1. NfsTree /\ gone \subseteq Known BY DEF NfsWorld, NfsHosts
  <2>2. PICK handle : \E ok \in BOOLEAN : ok = reply.ok /\ handle = reply.handle BY <1>2
  <2>3. PICK ok \in BOOLEAN : ok = reply.ok /\ handle = reply.handle BY <2>2
  <2>4. (ok => N!Found(r) # {}) /\ handle = N!Given(r, ok) BY <1>2, <2>3
  <2>5. QED BY <1>3, <2>1, <2>3, <2>4, GivenFacts
<1>7. SessionTyped(w, n, j)
  <2>1. j < n /\ SessionTyped(s, n, j + 1) BY <1>1, <1>4, <1>5
  <2>2. QED BY <1>2, <1>6, <2>1, AnsweredTyped
<1>8. /\ NfsHosts' /\ nfsHeld \subseteq nfsHeld' /\ Known \subseteq Known'
  <2>1. NfsTree /\ NfsScenario /\ gone \subseteq Known /\ nfsHeld \subseteq Known BY DEF NfsWorld, NfsHosts
  <2>2. PICK handle : \E ok \in BOOLEAN : ok = reply.ok /\ handle = reply.handle BY <1>2
  <2>3. PICK ok \in BOOLEAN : ok = reply.ok /\ handle = reply.handle BY <2>2
  <2>4. (ok => N!Found(r) # {}) /\ handle = N!Given(r, ok) /\ N!Serve(r, handle, ok) BY <1>2, <2>3
  <2>5. /\ NfsTree' /\ NfsScenario' /\ tree \subseteq tree' /\ gone' \subseteq Known'
        /\ nfsHeld \subseteq nfsHeld' /\ nfsHeld' \subseteq Known'
    BY <1>2, <1>3, <2>1, <2>4, ServeFacts
  <2>6. QED BY <2>1, <2>5, PathsStay DEF NfsHosts
<1>9. ports \subseteq ports' /\ ports' \subseteq N!Connections
  <2>1. ports \subseteq N!Connections BY DEF NfsWorld, NfsSessions, SessionsTyped
  <2>2. CASE proc = "getport" /\ s.param # N!None
    <3>1. s.called BY <1>5, <2>2 DEF SessionTyped, N!None, None
    <3>2. proc = s.proc BY <1>2, <2>2, <3>1 DEF N!Answers, N!None
    <3>3. s.param \in N!Connections BY <1>5, <2>2, <3>1, <3>2 DEF SessionTyped
    <3>4. QED BY <1>2, <2>1, <2>2, <3>3 DEF N!Ports
  <2>3. CASE ~(proc = "getport" /\ s.param # N!None) BY <1>2, <2>1, <2>3 DEF N!Ports
  <2>4. QED BY <2>2, <2>3
<1>10. /\ NfsSessions' /\ sessions'[r.conn] = w
       /\ \A d \in N!Connections : d # r.conn => sessions'[d] = sessions[d]
  <2>1. /\ nfsRequests' \in Nat /\ nfsRequests <= nfsRequests'
        /\ nfsRequests' - nfsRequests >= Cardinality(nfsAsked') - Cardinality(nfsAsked)
    BY <1>1, <1>2, <1>4
  <2>2. SessionTyped(w, nfsRequests', Cardinality(nfsAsked')) BY <1>1, <1>2, <1>4, <1>7
  <2>3. NfsSessions /\ NfsAsks BY DEF NfsWorld
  <2>4. QED BY <1>2, <1>3, <1>4, <1>9, <2>1, <2>2, <2>3, SessionChanges
<1>11. NfsAsks'
  <2>1. nfsRequests' \in Nat /\ nfsRequests' <= nfsScenario'.requests /\ Xids'
    BY <1>2 DEF NfsWorld, NfsAsks, Xids
  <2>2. Cardinality(nfsAsked') <= nfsRequests' BY <1>1, <1>2, <1>4
  <2>3. ASSUME NEW q \in nfsAsked' PROVE NfsAsk(q)' /\ q.xid \in 1..nfsRequests'
    <3>1. NfsAsk(q) /\ q.xid \in 1..nfsRequests BY <1>2 DEF NfsWorld, NfsAsks
    <3>2. QED BY <1>2, <1>8, <3>1, AskStays
  <2>4. QED BY <1>4, <2>1, <2>2, <2>3 DEF NfsAsks
<1>12. Logged(nfsRequests + 1)'
  <2>1. CASE lines' = {[proc |-> proc, path |-> s.path]}
    <3>1. PICK p \in Seq(PathWords) : p = s.path /\ Len(p) <= n + 1 BY <1>5 DEF SessionTyped
    <3>2. QED BY <1>1, <1>2, <2>1, <3>1 DEF Logged
  <2>2. CASE s.handle \in DOMAIN s.paths /\ lines' = {[proc |-> proc, path |-> s.paths[s.handle]]}
    <3>1. PICK p : p = s.paths[s.handle] OBVIOUS
    <3>2. p \in Seq(PathWords) /\ Len(p) + k <= n BY <1>5, <2>2, <3>1 DEF SessionTyped, TypedPaths
    <3>3. Len(p) \in Nat BY <3>2
    <3>4. Len(p) <= n + 1 BY <3>2, <3>3
    <3>5. lines' = {[proc |-> proc, path |-> p]} BY <2>2, <3>1
    <3>6. QED BY <1>1, <1>2, <3>2, <3>4, <3>5 DEF Logged
  <2>3. CASE lines' = {} BY <2>3 DEF Logged
  <2>4. QED BY <1>2, <2>1, <2>2, <2>3 DEF N!Lines
<1>13. Recalled'
  <2> SUFFICES ASSUME NEW q \in nfsAsked' PROVE Recalls(sessions'[q.conn], q) BY DEF Recalled
  <2>1. q \in nfsAsked /\ q.conn \in N!Connections /\ Recalls(sessions[q.conn], q)
    BY <1>2, ConnectionsAre DEF NfsWorld, NfsAsks, NfsAsk, Recalled
  <2>2. CASE q.conn # r.conn BY <1>10, <2>1, <2>2
  <2>3. CASE q.conn = r.conn
    <3>1. Recalls(s, q) /\ Shaped(s) BY <1>2, <1>5, <2>1, <2>3 DEF SessionTyped
    <3>2. CASE proc = "umount" BY <1>2, <1>10, <2>3, <3>1, <3>2, SessionFacts, BlankSession DEF Recalls
    <3>3. CASE proc # "umount"
      <4>1. w.called = s.called /\ w.xid = s.xid /\ w.proc = s.proc /\ w.handle = s.handle
        BY <1>2, <3>1, <3>3, SessionFacts
      <4>2. w.name = s.name
        <5>1. w = N!Session(s, proc, reply) BY <1>2
        <5>2. Shaped(s) /\ proc # "umount" BY <3>1, <3>3
        <5>3. QED BY <5>1, <5>2, SessionRest
      <4>3. QED BY <1>10, <2>3, <3>1, <4>1, <4>2 DEF Recalls
    <3>4. QED BY <3>2, <3>3
  <2>4. QED BY <2>2, <2>3
<1>14. QED BY <1>8, <1>10, <1>11, <1>12, <1>13 DEF NfsWorld

Field(w, s, f, v) == w = [s EXCEPT ![f] = v]
LEMMA FieldChange ==
  ASSUME NEW s, Shaped(s), NEW f \in NfsFields, NEW v, NEW w, Field(w, s, f, v)
  PROVE  Shaped(w) /\ w[f] = v /\ \A g \in NfsFields : g # f => w[g] = s[g]
<1>1. DOMAIN s = NfsFields BY DEF Shaped
<1>2. w = [x \in NfsFields |-> IF x = f THEN v ELSE s[x]] BY <1>1 DEF Field
<1>3. QED BY <1>2 DEF Shaped

Displaced(w, s, x) == w = [s EXCEPT !.called = TRUE, !.xid = x, !.proc = "other"]
LEMMA Replaced ==
  ASSUME NEW s, Shaped(s), NEW x, NEW w, Displaced(w, s, x)
  PROVE  /\ Shaped(w) /\ w.called = TRUE /\ w.xid = x /\ w.proc = "other" /\ w.deaf = s.deaf /\ w.param = s.param
         /\ w.handle = s.handle /\ w.name = s.name /\ w.path = s.path /\ w.paths = s.paths
<1>1. PICK a : a = [s EXCEPT !.called = TRUE] OBVIOUS
<1> DEFINE Same(y) == /\ y.deaf = s.deaf /\ y.param = s.param /\ y.handle = s.handle
                      /\ y.name = s.name /\ y.path = s.path /\ y.paths = s.paths
<1>2. Shaped(a) /\ Same(a) /\ a.called = TRUE BY <1>1, ShapedChange DEF NfsFields
<1>3. PICK b : b = [a EXCEPT !.xid = x] OBVIOUS
<1>4. Shaped(b) /\ Same(b) /\ b.called = TRUE /\ b.xid = x BY <1>2, <1>3, ShapedChange DEF NfsFields
<1>5. PICK v : v = "other" OBVIOUS
<1>6. Shaped(w) /\ w.proc = "other" /\ \A g \in NfsFields : g # "proc" => w[g] = b[g]
  <2>1. Shaped(b) /\ w = [b EXCEPT !.proc = v] BY <1>1, <1>3, <1>4, <1>5 DEF Displaced
  <2>2. "proc" \in NfsFields BY DEF NfsFields
  <2>3. Shaped(w) /\ w.proc = v /\ \A g \in NfsFields : g # "proc" => w[g] = b[g]
    <3>1. PICK f \in NfsFields : f = "proc" BY <2>2
    <3>2. Field(w, b, f, v) BY <2>1, <3>1 DEF Field
    <3>3. Shaped(b) BY <2>1
    <3>4. Shaped(w) /\ w[f] = v /\ \A g \in NfsFields : g # f => w[g] = b[g] BY <3>2, <3>3, FieldChange
    <3>5. QED BY <3>1, <3>4
  <2>4. QED BY <1>5, <2>3
<1>7. Same(w) /\ w.called = TRUE /\ w.xid = x BY <1>4, <1>6 DEF NfsFields
<1>8. QED BY <1>6, <1>7

LEMMA Deafened ==
  ASSUME NEW s, Shaped(s), NEW w, w = [s EXCEPT !.deaf = TRUE]
  PROVE  /\ Shaped(w) /\ w.called = s.called /\ w.xid = s.xid /\ w.proc = s.proc /\ w.param = s.param
         /\ w.handle = s.handle /\ w.name = s.name /\ w.path = s.path /\ w.paths = s.paths /\ w.deaf = TRUE
<1>1. Shaped(w) /\ w.deaf = TRUE /\ \A g \in NfsFields : g # "deaf" => w[g] = s[g] BY ShapedChange DEF NfsFields
<1>2. QED BY <1>1 DEF NfsFields

Rested(s, w) ==
  /\ \/ w.called = TRUE /\ w.xid = 0 /\ w.proc = "other" /\ w.deaf = s.deaf
     \/ s.called = TRUE /\ w.called = TRUE /\ w.xid = s.xid /\ w.proc = s.proc /\ w.deaf = TRUE
  /\ w.param = s.param /\ w.handle = s.handle /\ w.name = s.name /\ w.path = s.path /\ w.paths = s.paths

LEMMA RestIs ==
  ASSUME NfsWorld, N!RestOfWrite
  PROVE  \E s, w : /\ s = sessions["nfs"] /\ Shaped(s) /\ Shaped(w) /\ "nfs" \in ports
                   /\ sessions' = [sessions EXCEPT !["nfs"] = w] /\ Rested(s, w)
<1>1. PICK s : s = sessions["nfs"] OBVIOUS
<1>2. Shaped(s) /\ "nfs" \in ports /\ s.called \in BOOLEAN
  BY <1>1 DEF N!RestOfWrite, N!Watched, NfsWorld, NfsSessions, SessionsTyped, SessionTyped, N!Connections
<1>3. CASE sessions' = [sessions EXCEPT !["nfs"].called = TRUE, !["nfs"].xid = 0, !["nfs"].proc = "other"]
  <2>0. PICK x : x = 0 OBVIOUS
  <2>1. PICK w : w = [s EXCEPT !.called = TRUE, !.xid = x, !.proc = "other"] OBVIOUS
  <2>2. sessions' = [sessions EXCEPT !["nfs"] = w] BY <1>1, <1>3, <2>0, <2>1
  <2>3. /\ Shaped(w) /\ w.called = TRUE /\ w.xid = x /\ w.proc = "other" /\ w.deaf = s.deaf /\ w.param = s.param
        /\ w.handle = s.handle /\ w.name = s.name /\ w.path = s.path /\ w.paths = s.paths
    <3>1. Shaped(s) /\ Displaced(w, s, x) BY <1>2, <2>1 DEF Displaced
    <3>2. QED BY <3>1, Replaced
  <2>4. QED BY <1>1, <1>2, <2>0, <2>2, <2>3 DEF Rested
<1>4. CASE s.called /\ sessions' = [sessions EXCEPT !["nfs"].deaf = TRUE]
  <2>1. PICK w : w = [s EXCEPT !.deaf = TRUE] OBVIOUS
  <2>2. sessions' = [sessions EXCEPT !["nfs"] = w] BY <1>1, <1>4, <2>1
  <2>3. s.called = TRUE BY <1>2, <1>4
  <2>4. Shaped(w) /\ Rested(s, w) BY <1>2, <2>1, <2>3, Deafened DEF Rested
  <2>5. QED BY <1>1, <1>2, <2>2, <2>4
<1>5. QED BY <1>1, <1>3, <1>4 DEF N!RestOfWrite

LEMMA RestWorld ==
  ASSUME NfsWorld, N!RestOfWrite PROVE NfsWorld'
<1>1. PICK s, w :
        /\ s = sessions["nfs"] /\ Shaped(s) /\ Shaped(w) /\ "nfs" \in ports
        /\ sessions' = [sessions EXCEPT !["nfs"] = w] /\ Rested(s, w)
  BY RestIs
<1>2. UNCHANGED <<ports, nfsScenario, nfsAsked, nfsRequests, tree, gone, nfsHeld>> /\ lines' = {}
  BY DEF N!RestOfWrite
<1>3. PICK n \in Nat, k \in Nat : n = nfsRequests /\ k = Cardinality(nfsAsked)
  BY FS_CardinalityType DEF NfsWorld, NfsAsks
<1>4. "nfs" \in N!Connections BY DEF N!Connections
<1>5. SessionTyped(s, n, k) BY <1>1, <1>3, <1>4 DEF NfsWorld, NfsSessions, SessionsTyped
<1>6. SessionTyped(w, n, k)
  <2>1. w.called \in BOOLEAN /\ w.deaf \in BOOLEAN /\ w.xid \in 0..n /\ w.proc \in N!Procedures \cup {None}
    <3>1. 0 \in 0..n OBVIOUS
    <3>2. "other" \in N!Procedures BY DEF N!Procedures
    <3>3. QED BY <1>1, <1>5, <3>1, <3>2 DEF SessionTyped, Rested
  <2>2. w.called /\ w.proc = "getport" => w.param \in N!Connections BY <1>1, <1>5 DEF SessionTyped, Rested
  <2>3. w.called = TRUE BY <1>1, <1>5 DEF SessionTyped, Rested
  <2>4. QED BY <1>1, <1>5, <2>1, <2>2, <2>3 DEF SessionTyped, Rested
<1>7. /\ NfsSessions' /\ sessions'["nfs"] = w
      /\ \A d \in N!Connections : d # "nfs" => sessions'[d] = sessions[d]
  <2>1. NfsSessions /\ NfsAsks /\ ports \subseteq N!Connections BY DEF NfsWorld, NfsSessions, SessionsTyped
  <2>2. /\ nfsRequests' \in Nat /\ IsFiniteSet(nfsAsked') /\ nfsRequests <= nfsRequests'
        /\ nfsRequests' - nfsRequests >= Cardinality(nfsAsked') - Cardinality(nfsAsked)
    BY <1>2, <1>3, <2>1 DEF NfsAsks
  <2>3. SessionTyped(w, nfsRequests', Cardinality(nfsAsked')) BY <1>2, <1>3, <1>6
  <2>4. ports' = ports /\ nfsScenario' = nfsScenario BY <1>2
  <2>5. QED BY <1>1, <1>4, <2>1, <2>2, <2>3, <2>4, SessionChanges
<1>8. NfsHosts' /\ NfsAsks' /\ Logged(nfsRequests + 1)'
  BY <1>2 DEF NfsWorld, NfsHosts, NfsTree, NfsScenario, Known, NfsAsks, NfsAsk, N!ConnectionOf, N!MountConnection, Xids, Logged
<1>9. Recalled'
  <2> SUFFICES ASSUME NEW q \in nfsAsked PROVE Recalls(sessions'[q.conn], q) BY <1>2 DEF Recalled
  <2>1. q.conn \in N!Connections /\ Recalls(sessions[q.conn], q) /\ q.xid \in 1..n
    BY <1>3, ConnectionsAre DEF NfsWorld, NfsAsks, NfsAsk, Recalled
  <2>2. CASE q.conn = "nfs"
    <3>1. Recalls(s, q) BY <1>1, <2>1, <2>2
    <3>2. CASE w.xid = 0
      <4>1. w.xid # q.xid BY <2>1, <3>2
      <4>2. QED BY <1>7, <2>2, <4>1 DEF Recalls
    <3>3. CASE w.xid # 0
      <4>1. s.called = TRUE /\ w.xid = s.xid /\ w.proc = s.proc /\ w.handle = s.handle /\ w.name = s.name
        BY <1>1, <3>3 DEF Rested
      <4>2. QED BY <1>7, <2>2, <3>1, <4>1 DEF Recalls
    <3>4. QED BY <3>2, <3>3
  <2>3. CASE q.conn # "nfs" BY <1>7, <2>1, <2>3
  <2>4. QED BY <2>2, <2>3
<1>10. QED BY <1>7, <1>8, <1>9 DEF NfsWorld

LEMMA AnswerUnseenWorld ==
  ASSUME NfsWorld, N!AnswerUnseen
  PROVE  /\ NfsWorld' /\ sessions' = sessions /\ nfsAsked' \subseteq nfsAsked /\ nfsOdd \subseteq nfsOdd'
         /\ NfsTree' /\ tree \subseteq tree'
<1>1. PICK r \in nfsAsked, wanted \in BOOLEAN :
        \E ok \in BOOLEAN :
          /\ ok = (wanted /\ N!Found(r) # {}) /\ N!Serve(r, N!Given(r, ok), ok)
          /\ nfsAsked' = nfsAsked \ {r} /\ lines' = {} /\ UNCHANGED <<sessions, ports, nfsScenario, nfsRequests>>
          /\ nfsOdd \subseteq nfsOdd'
  BY DEF N!AnswerUnseen
<1>2. PICK ok \in BOOLEAN :
        /\ ok = (wanted /\ N!Found(r) # {}) /\ N!Serve(r, N!Given(r, ok), ok)
        /\ nfsAsked' = nfsAsked \ {r} /\ lines' = {} /\ UNCHANGED <<sessions, ports, nfsScenario, nfsRequests>>
        /\ nfsOdd \subseteq nfsOdd'
  BY <1>1
<1>3. PICK handle : handle = N!Given(r, ok) OBVIOUS
<1>4. NfsTree /\ NfsScenario /\ gone \subseteq Known /\ nfsHeld \subseteq Known /\ NfsAsk(r)
  BY DEF NfsWorld, NfsHosts, NfsAsks
<1>5. (ok => N!Found(r) # {}) /\ N!Serve(r, handle, ok) /\ nfsScenario' = nfsScenario BY <1>2, <1>3
<1>6. /\ NfsTree' /\ NfsScenario' /\ tree \subseteq tree' /\ gone' \subseteq Known'
      /\ nfsHeld \subseteq nfsHeld' /\ nfsHeld' \subseteq Known'
  BY <1>3, <1>4, <1>5, ServeFacts
<1>7. Known \subseteq Known' /\ NfsHosts' BY <1>4, <1>6, PathsStay DEF NfsHosts
<1>8. PICK n \in Nat, k \in Nat : n = nfsRequests /\ k = Cardinality(nfsAsked) /\ k <= n
  BY FS_CardinalityType DEF NfsWorld, NfsAsks
<1>9. PICK j \in Nat : j = Cardinality(nfsAsked') /\ j + 1 = k /\ IsFiniteSet(nfsAsked')
  <2>1. IsFiniteSet(nfsAsked) BY DEF NfsWorld, NfsAsks
  <2>2. IsFiniteSet(nfsAsked \ {r}) /\ Cardinality(nfsAsked \ {r}) = k - 1 BY <1>8, <2>1, FS_RemoveElement
  <2>3. Cardinality(nfsAsked \ {r}) \in Nat BY <2>2, FS_CardinalityType
  <2>4. QED BY <1>2, <2>2, <2>3
<1>10. NfsAsks'
  <2>1. nfsRequests' \in Nat /\ nfsRequests' <= nfsScenario'.requests /\ Xids'
    BY <1>2 DEF NfsWorld, NfsAsks, Xids
  <2>2. Cardinality(nfsAsked') <= nfsRequests' BY <1>2, <1>8, <1>9
  <2>3. ASSUME NEW q \in nfsAsked' PROVE NfsAsk(q)' /\ q.xid \in 1..nfsRequests'
    <3>1. NfsAsk(q) /\ q.xid \in 1..nfsRequests BY <1>2 DEF NfsWorld, NfsAsks
    <3>2. QED BY <1>2, <1>6, <1>7, <3>1, AskStays
  <2>4. QED BY <1>9, <2>1, <2>2, <2>3 DEF NfsAsks
<1>11. NfsSessions'
  <2>1. SessionsTyped(n, k) BY <1>8 DEF NfsWorld, NfsSessions
  <2>2. ASSUME NEW c \in N!Connections PROVE SessionTyped(sessions[c], n, j)
    <3>1. SessionTyped(sessions[c], n, k) /\ n <= n /\ n - n >= j - k BY <1>9, <2>1 DEF SessionsTyped
    <3>2. QED BY <3>1, TypedLater
  <2>3. QED BY <1>2, <1>8, <1>9, <2>1, <2>2 DEF NfsSessions, SessionsTyped
<1>12. Logged(nfsRequests + 1)' /\ Recalled' BY <1>2 DEF Logged, NfsWorld, Recalled
<1>13. QED BY <1>2, <1>6, <1>7, <1>10, <1>11, <1>12 DEF NfsWorld

LEMMA RenamedTree ==
  ASSUME NfsTree, NEW e \in tree, NEW name \in NfsNames, NEW d, d = [e EXCEPT !.name = name],
         tree' = (tree \ {e}) \cup {d}
  PROVE  NfsTree' /\ Known' = Known /\ Cardinality(tree') = Cardinality(tree)
<1>1. e \in [parent : Nat, name : NfsNames, handle : Nat] BY DEF NfsTree
<1>2. d \in [parent : Nat, name : NfsNames, handle : Nat] /\ d.handle = e.handle /\ d.parent = e.parent BY <1>1
<1>3. PICK n \in Nat : n = Cardinality(tree) BY AllPlaced DEF Placed
<1>4. IsFiniteSet(tree \ {e}) /\ Cardinality(tree \ {e}) = n - 1 BY <1>3, FS_RemoveElement DEF NfsTree
<1>5. d \notin tree \ {e} BY <1>2 DEF NfsTree
<1>6. IsFiniteSet(tree') /\ Cardinality(tree') = n
  <2>1. PICK rest : rest = tree \ {e} OBVIOUS
  <2>2. IsFiniteSet(rest) /\ Cardinality(rest) = n - 1 /\ d \notin rest /\ tree' = rest \cup {d}
    BY <1>4, <1>5, <2>1
  <2>3. IsFiniteSet(rest \cup {d}) /\ Cardinality(rest \cup {d}) = Cardinality(rest) + 1 BY <2>2, FS_AddElement
  <2>4. Cardinality(rest \cup {d}) = (n - 1) + 1 BY <2>2, <2>3
  <2>5. Cardinality(rest \cup {d}) = n BY <2>4
  <2>6. QED BY <2>2, <2>3, <2>5
<1>7. Known' = Known BY <1>3, <1>6 DEF Known
<1>8. tree' \subseteq [parent : Nat, name : NfsNames, handle : Nat] BY <1>2 DEF NfsTree
<1>9. \A f \in tree' : f.handle \in Known' \ {1} /\ f.parent \in 1..(f.handle - 1) BY <1>2, <1>7 DEF NfsTree
<1>10. \A h \in Known' \ {1} : \E f \in tree' : f.handle = h BY <1>2, <1>7 DEF NfsTree
<1>11. \A f, g \in tree' : f.handle = g.handle => f = g BY <1>2 DEF NfsTree
<1>12. QED BY <1>3, <1>6, <1>7, <1>8, <1>9, <1>10, <1>11 DEF NfsTree

LEMMA NfsRenameWorld ==
  ASSUME NfsWorld, N!Rename
  PROVE  NfsWorld'
<1>1. PICK e \in tree, name \in NfsNames : tree' = (tree \ {e}) \cup {[e EXCEPT !.name = name]} BY DEF N!Rename
<1>2. /\ nfsRequests < nfsScenario.requests /\ nfsAsked = {} /\ nfsRequests' = nfsRequests + 1 /\ lines' = {}
      /\ UNCHANGED <<ports, nfsScenario, nfsAsked, gone, nfsHeld>>
      /\ \/ sessions' = sessions
         \/ /\ N!Watched("nfs")
            /\ sessions' = [sessions EXCEPT !["nfs"].called = TRUE, !["nfs"].xid = nfsRequests + 1, !["nfs"].proc = "other"]
  BY DEF N!Rename
<1>3. NfsTree' /\ Known' = Known /\ Cardinality(tree') = Cardinality(tree)
  BY <1>1, RenamedTree DEF NfsWorld, NfsHosts
<1>4. NfsHosts' BY <1>2, <1>3 DEF NfsWorld, NfsHosts, NfsScenario
<1>5. PICK n \in Nat : n = nfsRequests BY DEF NfsWorld, NfsAsks
<1>6. Cardinality(nfsAsked) = 0 /\ Cardinality(nfsAsked') = 0 /\ IsFiniteSet(nfsAsked') BY <1>2, FS_EmptySet
<1>7. NfsAsks'
  <2>1. nfsRequests' \in Nat /\ nfsRequests' <= nfsScenario'.requests
    <3>1. nfsScenario.requests \in Nat BY DEF NfsWorld, NfsHosts, NfsScenario
    <3>2. QED BY <1>2, <1>5, <3>1
  <2>2. Cardinality(nfsAsked') <= nfsRequests' BY <1>2, <1>5, <1>6
  <2>3. Xids' BY <1>2 DEF Xids
  <2>4. QED BY <1>2, <1>6, <2>1, <2>2, <2>3 DEF NfsAsks
<1>8. NfsSessions'
  <2>1. SessionsTyped(n, 0) BY <1>5, <1>6 DEF NfsWorld, NfsSessions
  <2>2. CASE sessions' = sessions
    <3>1. ASSUME NEW c \in N!Connections PROVE SessionTyped(sessions[c], n + 1, 0)
      <4>1. SessionTyped(sessions[c], n, 0) BY <2>1 DEF SessionsTyped
      <4>2. n <= n + 1 /\ (n + 1) - n >= 0 - 0 /\ n + 1 \in Nat OBVIOUS
      <4>3. QED BY <4>1, <4>2, TypedLater
    <3>2. QED BY <1>2, <1>5, <1>6, <2>1, <2>2, <3>1 DEF NfsSessions, SessionsTyped
  <2>3. CASE /\ N!Watched("nfs")
             /\ sessions' = [sessions EXCEPT !["nfs"].called = TRUE, !["nfs"].xid = nfsRequests + 1, !["nfs"].proc = "other"]
    <3>1. PICK s, x : s = sessions["nfs"] /\ x = n + 1 OBVIOUS
    <3>2. PICK w : Displaced(w, s, x) BY DEF Displaced
    <3>3. "nfs" \in N!Connections /\ "nfs" \in ports BY <2>3 DEF N!Watched, N!Connections
    <3>4. SessionTyped(s, n, 0) BY <2>1, <3>1, <3>3 DEF SessionsTyped
    <3>5. Shaped(s) BY <3>4 DEF SessionTyped
    <3>6. sessions' = [sessions EXCEPT !["nfs"] = w] BY <1>5, <2>3, <3>1, <3>2 DEF Displaced
    <3>7. /\ Shaped(w) /\ w.called = TRUE /\ w.xid = x /\ w.proc = "other" /\ w.deaf = s.deaf /\ w.param = s.param
          /\ w.handle = s.handle /\ w.name = s.name /\ w.path = s.path /\ w.paths = s.paths
      BY <3>2, <3>5, Replaced
    <3>8. SessionTyped(s, n + 1, 0)
      <4>1. n <= n + 1 /\ (n + 1) - n >= 0 - 0 /\ n + 1 \in Nat OBVIOUS
      <4>2. QED BY <3>4, <4>1, TypedLater
    <3>9. SessionTyped(w, n + 1, 0)
      <4>1. x \in 0..(n + 1) BY <3>1
      <4>2. w.proc \in N!Procedures BY <3>7 DEF N!Procedures
      <4>3. QED BY <3>7, <3>8, <4>1, <4>2 DEF SessionTyped
    <3>10. /\ NfsSessions /\ NfsAsks /\ ports \subseteq ports' /\ ports' \subseteq N!Connections
           /\ nfsScenario' = nfsScenario
      BY <1>2 DEF NfsWorld, NfsSessions, SessionsTyped
    <3>11. /\ nfsRequests' \in Nat /\ nfsRequests <= nfsRequests'
           /\ nfsRequests' - nfsRequests >= Cardinality(nfsAsked') - Cardinality(nfsAsked)
      BY <1>2, <1>5, <1>6
    <3>12. SessionTyped(w, nfsRequests', Cardinality(nfsAsked')) BY <1>2, <1>5, <1>6, <3>9
    <3>13. QED BY <1>6, <3>3, <3>6, <3>10, <3>11, <3>12, SessionChanges
  <2>4. QED BY <1>2, <2>2, <2>3
<1>9. Logged(nfsRequests + 1)' /\ Recalled' BY <1>2 DEF Logged, Recalled
<1>10. QED BY <1>4, <1>7, <1>8, <1>9 DEF NfsWorld

LEMMA NfsWorldInit ==
  ASSUME N!Init PROVE NfsWorld
<1>1. /\ sessions = [c \in N!Connections |-> N!Blank] /\ nfsAsked = {} /\ nfsRequests = 0 /\ lines = {} /\ gone = {}
      /\ ports = nfsScenario.ports \cup {"portmap"}
  BY DEF N!Init
<1>2. NfsTree /\ NfsScenario /\ nfsHeld \subseteq Known BY NfsTreeInit
<1>3. NfsHosts BY <1>1, <1>2 DEF NfsHosts
<1>4. Cardinality(nfsAsked) = 0 /\ IsFiniteSet(nfsAsked) BY <1>1, FS_EmptySet
<1>5. NfsAsks BY <1>1, <1>2, <1>4 DEF NfsAsks, NfsScenario, Xids
<1>6. SessionTyped(N!Blank, 0, 0) BY BlankTyped
<1>7. NfsSessions
  <2>1. ports \subseteq N!Connections BY <1>1, <1>2 DEF NfsScenario, N!Connections
  <2>2. QED BY <1>1, <1>4, <1>6, <2>1 DEF NfsSessions, SessionsTyped
<1>8. Logged(nfsRequests + 1) /\ Recalled BY <1>1 DEF Logged, Recalled
<1>9. QED BY <1>3, <1>5, <1>7, <1>8 DEF NfsWorld

LEMMA NfsWorldNext ==
  ASSUME NfsWorld, N!Next PROVE NfsWorld'
<1>1. CASE N!Call BY <1>1, CallIs, CalledWorld
<1>2. CASE N!CallUnseen BY <1>2, CallUnseenIs, CalledWorld
<1>3. CASE N!Answer BY <1>3, AnswerIs, RepliedWorld
<1>4. QED BY <1>1, <1>2, <1>3, RestWorld, AnswerUnseenWorld, NfsRenameWorld DEF N!Next

(* The types that the proof needs are those of the module. *)
LEMMA NfsTyped ==
  ASSUME NfsWorld PROVE N!TypeOK
<1>1. PICK n \in Nat, k \in Nat : n = nfsRequests /\ k = Cardinality(nfsAsked)
  BY FS_CardinalityType DEF NfsWorld, NfsAsks
<1>2. PICK m \in Nat : m = nfsScenario.requests /\ n <= m BY <1>1 DEF NfsWorld, NfsAsks, NfsHosts, NfsScenario
<1>3. MaxHandle \in Nat \ {0} BY NfsAssumption
<1>4. ASSUME NEW p \in Seq(PathWords), Len(p) <= n + 1 PROVE N!IsPath(p)
  <2>1. Len(p) <= MaxHandle + m BY <1>2, <1>3, <1>4
  <2>2. QED BY <1>2, <2>1 DEF N!IsPath, PathWords, N!None, None
<1>5. ASSUME NEW c \in N!Connections
      PROVE  /\ sessions[c].xid \in 0..nfsScenario.requests /\ sessions[c].proc \in N!Procedures \cup {N!None}
             /\ sessions[c].handle \in N!Handles /\ N!IsPath(sessions[c].path)
             /\ DOMAIN sessions[c].paths \subseteq N!Handles
             /\ \A h \in DOMAIN sessions[c].paths : N!IsPath(sessions[c].paths[h])
             /\ c \notin ports => sessions[c] = N!Blank
  <2>1. PICK s : s = sessions[c] OBVIOUS
  <2>2. SessionTyped(s, n, k) /\ (c \notin ports => s = N!Blank)
    BY <1>1, <2>1 DEF NfsWorld, NfsSessions, SessionsTyped
  <2>3. s.xid \in 0..m BY <1>2, <2>2 DEF SessionTyped
  <2>4. N!IsPath(s.path) BY <1>4, <2>2 DEF SessionTyped
  <2>5. ASSUME NEW h \in DOMAIN s.paths PROVE N!IsPath(s.paths[h])
    <3>1. PICK p : p = s.paths[h] OBVIOUS
    <3>2. p \in Seq(PathWords) /\ Len(p) + k <= n BY <2>2, <3>1 DEF SessionTyped, TypedPaths
    <3>3. Len(p) \in Nat BY <3>2
    <3>4. Len(p) <= n + 1 BY <3>2, <3>3
    <3>5. QED BY <1>4, <3>1, <3>2, <3>4
  <2>6. QED BY <1>2, <2>1, <2>2, <2>3, <2>4, <2>5 DEF SessionTyped, TypedPaths, N!None, None
<1>6. N!Cardinality(lines) <= 1 /\ \A l \in lines : N!IsPath(l.path)
  <2>1. CASE lines = {} BY <2>1, FS_EmptySet, SameCount
  <2>2. CASE lines # {}
    <3>1. PICK p \in Seq(PathWords) : \E proc : Len(p) <= n + 1 /\ lines = {[proc |-> proc, path |-> p]}
      BY <1>1, <2>2 DEF NfsWorld, Logged
    <3>2. PICK proc : Len(p) <= n + 1 /\ lines = {[proc |-> proc, path |-> p]} BY <3>1
    <3>3. N!IsPath(p) BY <1>4, <3>2
    <3>4. Cardinality(lines) = 1 BY <3>2, FS_Singleton
    <3>5. QED BY <3>2, <3>3, <3>4, SameCount
  <2>3. QED BY <2>1, <2>2
<1>7. ports \subseteq N!Connections /\ nfsHeld \subseteq N!Handles /\ gone \subseteq N!Handles
  <2>1. Known \subseteq 1..MaxHandle BY AllPlaced DEF NfsWorld, NfsHosts, Placed
  <2>2. Known \subseteq N!Handles BY <1>3, <2>1 DEF N!Handles
  <2>3. QED BY <2>2 DEF NfsWorld, NfsHosts, NfsSessions, SessionsTyped
<1>8. QED BY <1>5, <1>6, <1>7 DEF N!TypeOK

--------------------------------
(* What the dispatcher knows of names, while none is misleading. *)
Clear == nfsOdd \cap N!Misleading = {}
NamesTrue(f) ==
  \A h \in DOMAIN f \ {0} :
    h \in Known /\ f[h] \in Seq(Words) /\ f[h] # <<>> /\ N!IsSuffix(f[h], N!TruePath(h))
TargetTrue(s, r) ==
  r.proc \in {"create", "remove"} /\ s.called /\ s.xid = r.xid =>
    N!Fits(s.path, N!TruePath(r.handle) \o <<r.name>>)
AskTrue(r) == r.name # ".." /\ TargetTrue(sessions[r.conn], r)
SessionTrue(c) == NamesTrue(sessions[c].paths)
AllTrue == (\A r \in nfsAsked : AskTrue(r)) /\ \A c \in N!Connections : SessionTrue(c)
NfsTold == (Clear => AllTrue) /\ N!Answered

LEMMA WordsFit ==
  ASSUME NEW p \in Seq(Words), p # <<>>, NEW t PROVE Head(p) # "?" /\ (N!IsSuffix(p, t) => N!Fits(p, t))
<1>1. "?" \notin Words BY NfsAssumption DEF Words
<1>2. Head(p) \in Words
  <2>1. Len(p) \in Nat /\ Len(p) # 0 OBVIOUS
  <2>2. 1 \in 1..Len(p) /\ Head(p) = p[1] BY <2>1
  <2>3. QED BY <2>2
<1>3. QED BY <1>1, <1>2 DEF N!Fits

LEMMA AfterEmpty ==
  ASSUME NEW S, NEW x \in S PROVE <<>> \o <<x>> = <<x>> /\ <<x>> # <<>>
BY ConcatEmptySeq

LEMMA AfterOne ==
  ASSUME NEW S, NEW a \in S, NEW x \in S
  PROVE  Head(<<a>> \o <<x>>) = a /\ Tail(<<a>> \o <<x>>) = <<x>>
<1>1. PICK u : u = <<a>> OBVIOUS
<1>2. u \in Seq(S) /\ u # <<>> /\ Head(u) = a /\ Tail(u) = <<>> BY <1>1
<1>3. Append(u, x) = u \o <<x>> BY <1>2, AppendIsConcat
<1>4. Head(Append(u, x)) = a /\ Tail(Append(u, x)) = Append(<<>>, x) BY <1>2, HeadTailAppend
<1>5. Append(<<>>, x) = <<x>> OBVIOUS
<1>6. QED BY <1>1, <1>3, <1>4, <1>5

LEMMA BelowTrue ==
  ASSUME NfsTree, NEW f, NamesTrue(f), NEW h \in Known, NEW name \in NfsNames, NEW dir,
         dir = IF h \in DOMAIN f THEN f[h] ELSE <<>>
  PROVE  /\ dir \in Seq(Words) /\ dir \o <<name>> \in Seq(Words) /\ dir \o <<name>> # <<>>
         /\ N!IsSuffix(dir \o <<name>>, N!TruePath(h) \o <<name>>)
<1>1. PICK t : t = N!TruePath(h) OBVIOUS
<1>2. t \in Seq(Words) /\ name \in Words BY <1>1, PathsTrue DEF TruePaths, Words
<1>3. h # 0 BY AllPlaced DEF Placed
<1>4. CASE dir = <<>>
  <2>1. dir \o <<name>> = <<name>> /\ <<name>> \in Seq(Words) /\ <<name>> # <<>>
    <3>1. <<>> \o <<name>> = <<name>> /\ <<name>> # <<>> BY <1>2, AfterEmpty
    <3>2. <<name>> \in Seq(Words) BY <1>2
    <3>3. QED BY <1>4, <3>1, <3>2
  <2>2. N!IsSuffix(<<name>>, t \o <<name>>) BY <1>2, SuffixLaws
  <2>3. dir \in Seq(Words) BY <1>4, EmptySeq
  <2>4. QED BY <1>1, <2>1, <2>2, <2>3
<1>5. CASE dir # <<>>
  <2>1. dir \in Seq(Words) /\ N!IsSuffix(dir, t) BY <1>1, <1>3, <1>5 DEF NamesTrue
  <2>2. N!IsSuffix(dir \o <<name>>, t \o <<name>>) BY <1>2, <2>1, SuffixLaws
  <2>3. dir \o <<name>> \in Seq(Words) /\ Len(dir \o <<name>>) = Len(dir) + 1 /\ Len(dir) \in Nat BY <1>2, <2>1
  <2>4. dir \o <<name>> # <<>> BY <2>3
  <2>5. QED BY <1>1, <2>1, <2>2, <2>3, <2>4
<1>6. QED BY <1>4, <1>5

LEMMA TargetFits ==
  ASSUME NfsTree, NEW s, NamesTrue(s.paths), NEW r, r.handle \in Known, r.name \in NfsNames
  PROVE  N!Fits(Target(s, r), N!TruePath(r.handle) \o <<r.name>>)
<1>1. PICK h \in Known, name \in NfsNames : h = r.handle /\ name = r.name OBVIOUS
<1>2. PICK f, dir : f = s.paths /\ dir = Dir(s, r.handle) OBVIOUS
<1>3. PICK t : t = N!TruePath(h) OBVIOUS
<1>4. t \in Seq(Words) /\ name \in Words BY <1>1, <1>3, PathsTrue DEF TruePaths, Words
<1>5. dir = IF h \in DOMAIN f THEN f[h] ELSE <<>> BY <1>1, <1>2 DEF Dir
<1>6. CASE dir = <<>>
  <2>1. Target(s, r) = <<"?">> \o <<name>> BY <1>1, <1>2, <1>6 DEF Target
  <2>2. Head(<<"?">> \o <<name>>) = "?" /\ Tail(<<"?">> \o <<name>>) = <<name>>
    <3>1. PICK S : S = Words \cup {"?"} OBVIOUS
    <3>2. "?" \in S /\ name \in S BY <1>4, <3>1
    <3>3. QED BY <3>2, AfterOne
  <2>3. PICK y : y = <<"?">> \o <<name>> OBVIOUS
  <2>4. N!IsSuffix(<<name>>, t \o <<name>>) BY <1>4, SuffixLaws
  <2>5. N!Fits(y, t \o <<name>>) BY <2>2, <2>3, <2>4 DEF N!Fits
  <2>6. QED BY <1>1, <1>3, <2>1, <2>3, <2>5
<1>7. CASE dir # <<>>
  <2>1. Target(s, r) = dir \o <<name>> BY <1>1, <1>2, <1>7 DEF Target
  <2>2. /\ dir \o <<name>> \in Seq(Words) /\ dir \o <<name>> # <<>>
        /\ N!IsSuffix(dir \o <<name>>, t \o <<name>>)
    BY <1>2, <1>3, <1>5, BelowTrue
  <2>3. N!Fits(dir \o <<name>>, t \o <<name>>) BY <2>2, WordsFit
  <2>4. QED BY <1>1, <1>3, <2>1, <2>3
<1>8. QED BY <1>6, <1>7

LEMMA TrueStays ==
  ASSUME NfsTree, NfsTree', tree \subseteq tree', NEW f, NamesTrue(f) PROVE NamesTrue(f)'
BY PathsStay DEF NamesTrue

LEMMA PutTrue ==
  ASSUME NEW f, NamesTrue(f), NEW x, NEW p,
         x # 0 => x \in Known /\ p \in Seq(Words) /\ p # <<>> /\ N!IsSuffix(p, N!TruePath(x))
  PROVE  NamesTrue(N!Put(f, x, p))
<1>1. PICK g : g = N!Put(f, x, p) OBVIOUS
<1>2. DOMAIN g = DOMAIN f \cup {x} /\ \A h \in DOMAIN g : g[h] = IF h = x THEN p ELSE f[h] BY <1>1 DEF N!Put
<1>3. NamesTrue(g) BY <1>2 DEF NamesTrue
<1>4. QED BY <1>1, <1>3

LEMMA NoneTold ==
  NamesTrue(N!Blank.paths)
<1>1. N!Blank.paths = <<>> BY DEF N!Blank
<1>2. DOMAIN <<>> = {} OBVIOUS
<1>3. QED BY <1>1, <1>2 DEF NamesTrue

LEMMA CalledTold ==
  ASSUME NfsWorld, AllTrue, NEW q, NEW s, NEW w, Called(q, s, w), Heeded(q, s, w) \/ Passed(q, s, w), Clear'
  PROVE  AllTrue'
<1>1. NfsWorld' BY CalledWorld
<1>2. NfsTree /\ NfsTree' /\ tree' = tree BY <1>1 DEF NfsWorld, NfsHosts, Called
<1>3. \A h \in Known : N!TruePath(h)' = N!TruePath(h) BY <1>2, PathsStay
<1>4. /\ q.conn \in N!Connections /\ s = sessions[q.conn] /\ Shaped(s) /\ Shaped(w) /\ NfsAsk(q)
      /\ w.paths = s.paths /\ nfsAsked' = nfsAsked \cup {q} /\ sessions' = [sessions EXCEPT ![q.conn] = w]
      /\ q.xid = nfsRequests + 1
  BY DEF Called
<1>5. /\ sessions'[q.conn] = w /\ \A d \in N!Connections : d # q.conn => sessions'[d] = sessions[d]
  BY <1>4 DEF NfsWorld, NfsSessions, SessionsTyped
<1>6. q.name # ".." BY DEF Heeded, Passed, Clear, N!Misleading
<1>7. NamesTrue(s.paths) BY <1>4 DEF AllTrue, SessionTrue
<1>8. ASSUME NEW c \in N!Connections PROVE SessionTrue(c)'
  <2>1. PICK f : f = sessions'[c].paths OBVIOUS
  <2>2. NamesTrue(f)
    <3>1. CASE c = q.conn BY <1>4, <1>5, <1>7, <2>1, <3>1
    <3>2. CASE c # q.conn BY <1>5, <2>1, <3>2 DEF AllTrue, SessionTrue
    <3>3. QED BY <3>1, <3>2
  <2>3. NamesTrue(f)' BY <1>2, <2>2, TrueStays
  <2>4. QED BY <2>1, <2>3 DEF NamesTrue, SessionTrue
<1>9. ASSUME NEW r \in nfsAsked' PROVE AskTrue(r)'
  <2>1. PICK x : x = sessions'[r.conn] OBVIOUS
  <2>2. CASE r = q
    <3>1. x = w BY <1>5, <2>1, <2>2
    <3>2. CASE r.proc \in {"create", "remove"} /\ x.called /\ x.xid = r.xid
      <4>1. r.handle \in Known /\ r.name \in NfsNames BY <1>4, <2>2, <3>2 DEF NfsAsk, OnHandles
      <4>2. w = N!Recorded(s, q)
        <5>1. PICK n \in Nat : n = nfsRequests BY DEF NfsWorld, NfsAsks
        <5>2. s.xid \in 0..n BY <1>4, <5>1 DEF NfsWorld, NfsSessions, SessionsTyped, SessionTyped
        <5>3. s.xid # q.xid BY <1>4, <5>1, <5>2
        <5>4. w # s BY <2>2, <3>1, <3>2, <5>3
        <5>5. w # [s EXCEPT !.deaf = FALSE]
          <6>1. ASSUME w = [s EXCEPT !.deaf = FALSE] PROVE w.xid = s.xid
            <7>1. Shaped(s) BY <1>4
            <7>2. QED BY <6>1, <7>1, Undeafened
          <6>2. QED BY <2>2, <3>1, <3>2, <5>3, <6>1
        <5>6. QED BY <5>4, <5>5 DEF Heeded, Passed
      <4>3. w.path = Target(s, q)
        <5>1. /\ w.deaf = s.deaf
              /\ w.handle = IF q.proc \in {"lookup", "read", "write"} THEN q.handle ELSE s.handle
              /\ w.name = IF q.proc = "lookup" THEN q.name ELSE s.name
              /\ q.proc \in {"getport", "mount", "umount"} => w.param = q.param
              /\ w.path = IF q.proc \in {"create", "remove"} THEN Target(s, q) ELSE s.path
          <6>1. Shaped(s) BY <1>4
          <6>2. QED BY <4>2, <6>1, RecordedFields
        <5>2. QED BY <2>2, <3>2, <5>1
      <4>4. N!Fits(w.path, N!TruePath(r.handle) \o <<r.name>>) BY <1>2, <1>7, <2>2, <4>1, <4>3, TargetFits
      <4>5. N!TruePath(r.handle)' = N!TruePath(r.handle) BY <1>3, <4>1
      <4>6. QED BY <1>6, <2>1, <2>2, <3>1, <4>4, <4>5 DEF TargetTrue, AskTrue
    <3>3. CASE ~(r.proc \in {"create", "remove"} /\ x.called /\ x.xid = r.xid)
      BY <1>6, <2>1, <2>2, <3>3 DEF TargetTrue, AskTrue
    <3>4. QED BY <3>2, <3>3
  <2>3. CASE r \in nfsAsked
    <3>1. /\ r.conn \in N!Connections /\ r.name # ".." /\ TargetTrue(sessions[r.conn], r) /\ NfsAsk(r)
          /\ r.xid \in 1..nfsRequests
      BY <2>3, ConnectionsAre DEF NfsWorld, NfsAsks, NfsAsk, AllTrue, AskTrue
    <3>2. CASE r.proc \in {"create", "remove"} /\ x.called /\ x.xid = r.xid
      <4>1. x.path = sessions[r.conn].path /\ x.called = sessions[r.conn].called /\ x.xid = sessions[r.conn].xid
        <5>1. CASE r.conn # q.conn BY <1>5, <2>1, <3>1, <5>1
        <5>2. CASE r.conn = q.conn
          <6>1. x = w BY <1>5, <2>1, <5>2
          <6>2. CASE w = s BY <1>4, <5>2, <6>1, <6>2
          <6>3. CASE w = [s EXCEPT !.deaf = FALSE]
            <7>1. w.path = s.path /\ w.called = s.called /\ w.xid = s.xid BY <1>4, <6>3, Undeafened
            <7>2. QED BY <1>4, <5>2, <6>1, <7>1
          <6>4. CASE w = N!Recorded(s, q)
            <7>1. w.xid = q.xid BY <1>4, <6>4, RecordedFacts DEF Matches
            <7>2. PICK n \in Nat : n = nfsRequests BY DEF NfsWorld, NfsAsks
            <7>3. r.xid # n + 1 BY <3>1, <7>2
            <7>4. QED BY <1>4, <3>2, <6>1, <7>1, <7>2, <7>3
          <6>5. QED BY <6>2, <6>3, <6>4 DEF Heeded, Passed
        <5>3. QED BY <5>1, <5>2
      <4>2. N!Fits(x.path, N!TruePath(r.handle) \o <<r.name>>) BY <3>1, <3>2, <4>1 DEF TargetTrue
      <4>3. N!TruePath(r.handle)' = N!TruePath(r.handle) BY <1>3, <3>1, <3>2 DEF NfsAsk, OnHandles
      <4>4. QED BY <2>1, <3>1, <4>2, <4>3 DEF TargetTrue, AskTrue
    <3>3. CASE ~(r.proc \in {"create", "remove"} /\ x.called /\ x.xid = r.xid)
      BY <2>1, <3>1, <3>3 DEF TargetTrue, AskTrue
    <3>4. QED BY <3>2, <3>3
  <2>4. QED BY <1>4, <2>2, <2>3
<1>10. QED BY <1>8, <1>9 DEF AllTrue

(* The procedure that an answer is taken to answer is the one it answers. *)
LEMMA RepliedProc ==
  ASSUME NfsWorld, NEW r, NEW s, NEW w, NEW proc, NEW reply, Replied(r, s, w, proc, reply), Clear'
  PROVE  /\ NfsAsk(r) /\ r.conn \in N!Connections
         /\ proc = None \/ (/\ s.called /\ s.xid = r.xid /\ s.proc = r.proc /\ proc = r.proc
                            /\ r.proc \in {"lookup", "read", "write"} => s.handle = r.handle
                            /\ r.proc = "lookup" => s.name = r.name)
<1>1. /\ r \in nfsAsked /\ s = sessions[r.conn] /\ reply.xid = r.xid /\ proc \in N!Answers(s, reply)
      /\ s.called \/ proc = None
  BY DEF Replied, Clear, N!Misleading
<1>2. NfsAsk(r) /\ r.conn \in N!Connections /\ Recalls(s, r)
  BY <1>1, ConnectionsAre DEF NfsWorld, NfsAsks, NfsAsk, Recalled
<1>3. CASE s.called
  <2>1. proc = IF s.xid = r.xid THEN s.proc ELSE None BY <1>1, <1>3 DEF N!Answers, N!None, None
  <2>2. QED BY <1>2, <1>3, <2>1 DEF Recalls
<1>4. QED BY <1>1, <1>2, <1>3

LEMMA RepliedGiven ==
  ASSUME NfsWorld, NEW r, NEW s, NEW w, NEW proc, NEW reply, Replied(r, s, w, proc, reply)
  PROVE  /\ ~reply.ok => reply.handle = 0
         /\ reply.ok /\ r.proc = "mount" => reply.handle = 1
         /\ reply.ok /\ r.proc = "lookup" => reply.handle \in Known
         /\ reply.ok /\ r.proc = "lookup" /\ r.name # ".." =>
              N!TruePath(reply.handle) = N!TruePath(r.handle) \o <<r.name>>
<1>1. PICK ok, handle : ok = reply.ok /\ handle = reply.handle OBVIOUS
<1>2. ok \in BOOLEAN /\ (ok => N!Found(r) # {}) /\ handle = N!Given(r, ok) /\ r \in nfsAsked BY <1>1 DEF Replied
<1>3. NfsTree /\ gone \subseteq Known /\ NfsAsk(r) BY <1>2 DEF NfsWorld, NfsHosts, NfsAsks
<1>4. /\ ~ok => handle = 0
      /\ ok /\ r.proc = "mount" => handle = 1
      /\ ok /\ r.proc = "lookup" => handle \in Known
      /\ ok /\ r.proc = "lookup" /\ r.name # ".." =>
           N!TruePath(handle) = N!TruePath(r.handle) \o <<r.name>>
  BY <1>2, <1>3, GivenFacts
<1>5. QED BY <1>1, <1>4

LEMMA RepliedGrows ==
  ASSUME NfsWorld, NEW r, NEW s, NEW w, NEW proc, NEW reply, Replied(r, s, w, proc, reply)
  PROVE  NfsTree /\ NfsTree' /\ tree \subseteq tree'
<1>1. NfsTree /\ NfsTree' BY RepliedWorld DEF NfsWorld, NfsHosts
<1>2. tree \subseteq tree' BY DEF Replied, N!Serve
<1>3. QED BY <1>1, <1>2

LEMMA RepliedNames ==
  ASSUME NfsWorld, AllTrue, NEW r, NEW s, NEW w, NEW proc, NEW reply, Replied(r, s, w, proc, reply), Clear'
  PROVE  NamesTrue(w.paths)
<1>1. NfsTree /\ NfsTree' /\ tree \subseteq tree' BY RepliedGrows
<1>2. \A h \in Known : N!TruePath(h)' = N!TruePath(h) BY <1>1, PathsStay
<1>3. /\ NfsAsk(r) /\ r.conn \in N!Connections
      /\ proc = None \/ (/\ s.called /\ s.xid = r.xid /\ s.proc = r.proc /\ proc = r.proc
                         /\ r.proc \in {"lookup", "read", "write"} => s.handle = r.handle
                         /\ r.proc = "lookup" => s.name = r.name)
  BY RepliedProc
<1>4. /\ r \in nfsAsked /\ s = sessions[r.conn] /\ w = N!Session(s, proc, reply) /\ nfsAsked' = nfsAsked \ {r}
  BY DEF Replied
<1>5. sessions'[r.conn] = w /\ \A d \in N!Connections : d # r.conn => sessions'[d] = sessions[d] BY RepliedWorld
<1>6. Shaped(s) /\ NamesTrue(s.paths) /\ r.name # ".."
  BY <1>3, <1>4 DEF NfsWorld, NfsSessions, SessionsTyped, SessionTyped, AllTrue, SessionTrue, AskTrue
<1>7. /\ ~reply.ok => reply.handle = 0
      /\ reply.ok /\ r.proc = "mount" => reply.handle = 1
      /\ reply.ok /\ r.proc = "lookup" => reply.handle \in Known
      /\ reply.ok /\ r.proc = "lookup" /\ r.name # ".." =>
           N!TruePath(reply.handle) = N!TruePath(r.handle) \o <<r.name>>
  BY RepliedGiven
<1>8. CASE proc = "umount" BY <1>4, <1>6, <1>8, SessionFacts, NoneTold
<1>9. CASE proc # "umount"
  <2>1. /\ w.deaf = s.deaf /\ w.name = s.name /\ w.param = s.param /\ w.path = s.path
        /\ \/ w.paths = s.paths
           \/ proc = "mount" /\ reply.ok /\ w.paths = N!Put(s.paths, reply.handle, <<Export>>)
           \/ /\ proc = "lookup" /\ reply.accepted
              /\ w.paths = N!Put(s.paths, IF reply.ok THEN reply.handle ELSE 0, Dir(s, s.handle) \o <<s.name>>)
    BY <1>4, <1>6, <1>9, SessionFields
  <2>2. CASE w.paths = s.paths BY <1>6, <2>2
  <2>3. CASE proc = "mount" /\ reply.ok /\ w.paths = N!Put(s.paths, reply.handle, <<Export>>)
    <3>1. reply.handle = 1 BY <1>3, <1>7, <2>3 DEF None
    <3>2. 1 \in Known /\ N!TruePath(1) = <<Export>> BY <1>1, AllPlaced, PathsTrue DEF Placed, TruePaths
    <3>3. PICK p : p = <<Export>> OBVIOUS
    <3>4. p \in Seq(Words) /\ p # <<>> BY <3>3 DEF Words
    <3>5. Export \in Words BY DEF Words
    <3>6. N!IsSuffix(p, p) BY <3>4, <3>5, SuffixLaws
    <3>7. QED BY <1>6, <2>3, <3>1, <3>2, <3>3, <3>4, <3>6, PutTrue
  <2>4. CASE /\ proc = "lookup" /\ reply.accepted
             /\ w.paths = N!Put(s.paths, IF reply.ok THEN reply.handle ELSE 0, Dir(s, s.handle) \o <<s.name>>)
    <3>1. r.proc = "lookup" /\ s.handle = r.handle /\ s.name = r.name BY <1>3, <2>4 DEF None
    <3>2. PICK h \in Known, name \in NfsNames : h = r.handle /\ name = r.name
      <4>1. r.handle \in Known /\ r.name \in NfsNames \cup {".."} BY <1>3, <3>1 DEF NfsAsk, OnHandles
      <4>2. QED BY <1>6, <4>1
    <3>3. PICK dir, f, p : /\ f = s.paths /\ dir = (IF h \in DOMAIN f THEN f[h] ELSE <<>>) /\ p = dir \o <<name>>
      OBVIOUS
    <3>4. /\ p \in Seq(Words) /\ p # <<>> /\ N!IsSuffix(p, N!TruePath(h) \o <<name>>)
      BY <1>1, <1>6, <3>2, <3>3, BelowTrue
    <3>5. PICK x : x = IF reply.ok THEN reply.handle ELSE 0 OBVIOUS
    <3>6. w.paths = N!Put(f, x, p) BY <2>4, <3>1, <3>2, <3>3, <3>5 DEF Dir
    <3>7. x # 0 => x \in Known /\ N!TruePath(x) = N!TruePath(h) \o <<name>> BY <1>6, <1>7, <3>1, <3>2, <3>5
    <3>8. QED BY <1>6, <3>3, <3>4, <3>6, <3>7, PutTrue
  <2>5. QED BY <2>1, <2>2, <2>3, <2>4
<1>10. QED BY <1>8, <1>9

LEMMA RepliedTold ==
  ASSUME NfsWorld, AllTrue, NEW r, NEW s, NEW w, NEW proc, NEW reply, Replied(r, s, w, proc, reply), Clear'
  PROVE  AllTrue'
<1>1. NfsTree /\ NfsTree' /\ tree \subseteq tree' BY RepliedGrows
<1>2. \A h \in Known : N!TruePath(h)' = N!TruePath(h) BY <1>1, PathsStay
<1>3. /\ NfsAsk(r) /\ r.conn \in N!Connections
      /\ proc = None \/ (/\ s.called /\ s.xid = r.xid /\ s.proc = r.proc /\ proc = r.proc
                         /\ r.proc \in {"lookup", "read", "write"} => s.handle = r.handle
                         /\ r.proc = "lookup" => s.name = r.name)
  BY RepliedProc
<1>4. /\ r \in nfsAsked /\ s = sessions[r.conn] /\ w = N!Session(s, proc, reply) /\ nfsAsked' = nfsAsked \ {r}
  BY DEF Replied
<1>5. sessions'[r.conn] = w /\ \A d \in N!Connections : d # r.conn => sessions'[d] = sessions[d] BY RepliedWorld
<1>6. Shaped(s) /\ NamesTrue(s.paths) /\ r.name # ".."
  BY <1>3, <1>4 DEF NfsWorld, NfsSessions, SessionsTyped, SessionTyped, AllTrue, SessionTrue, AskTrue
<1>8. NamesTrue(w.paths) BY RepliedNames
<1>9. ASSUME NEW c \in N!Connections PROVE SessionTrue(c)'
  <2>1. PICK f : f = sessions'[c].paths OBVIOUS
  <2>2. NamesTrue(f)
    <3>1. CASE c = r.conn BY <1>5, <1>8, <2>1, <3>1
    <3>2. CASE c # r.conn BY <1>5, <2>1, <3>2 DEF AllTrue, SessionTrue
    <3>3. QED BY <3>1, <3>2
  <2>3. NamesTrue(f)' BY <1>1, <2>2, TrueStays
  <2>4. QED BY <2>1, <2>3 DEF NamesTrue, SessionTrue
<1>10. ASSUME NEW q \in nfsAsked' PROVE AskTrue(q)'
  <2>1. /\ q \in nfsAsked /\ q.conn \in N!Connections /\ NfsAsk(q) /\ q.name # ".."
        /\ TargetTrue(sessions[q.conn], q) /\ q.xid \in 1..nfsRequests
    BY <1>4, ConnectionsAre DEF NfsWorld, NfsAsks, NfsAsk, AllTrue, AskTrue
  <2>2. PICK x : x = sessions'[q.conn] OBVIOUS
  <2>3. CASE q.proc \in {"create", "remove"} /\ x.called /\ x.xid = q.xid
    <3>1. /\ x.path = sessions[q.conn].path /\ x.called = sessions[q.conn].called
          /\ x.xid = sessions[q.conn].xid
      <4>1. CASE q.conn # r.conn BY <1>5, <2>1, <2>2, <4>1
      <4>2. CASE q.conn = r.conn
        <5>1. x = w BY <1>5, <2>2, <4>2
        <5>2. proc # "umount"
          <6>1. proc = "umount" => w.called = FALSE BY <1>4, <1>6, SessionFacts, BlankSession
          <6>2. QED BY <2>3, <5>1, <6>1
        <5>3. w.called = s.called /\ w.xid = s.xid BY <1>4, <1>6, <5>2, SessionFacts
        <5>4. w.path = s.path BY <1>4, <1>6, <5>2, SessionRest
        <5>5. QED BY <1>4, <4>2, <5>1, <5>3, <5>4
      <4>3. QED BY <4>1, <4>2
    <3>2. N!Fits(x.path, N!TruePath(q.handle) \o <<q.name>>) BY <2>1, <2>3, <3>1 DEF TargetTrue
    <3>3. N!TruePath(q.handle)' = N!TruePath(q.handle) BY <1>2, <2>1, <2>3 DEF NfsAsk, OnHandles
    <3>4. QED BY <2>1, <2>2, <3>2, <3>3 DEF TargetTrue, AskTrue
  <2>4. CASE ~(q.proc \in {"create", "remove"} /\ x.called /\ x.xid = q.xid)
    BY <2>1, <2>2, <2>4 DEF TargetTrue, AskTrue
  <2>5. QED BY <2>3, <2>4
<1>11. QED BY <1>9, <1>10 DEF AllTrue

(* What is logged of an answer is of what was answered. *)
LEMMA RepliedAnswered ==
  ASSUME NfsWorld, AllTrue, NEW r, NEW s, NEW w, NEW proc, NEW reply, Replied(r, s, w, proc, reply), Clear'
  PROVE  N!Answered'
<1>1. /\ r \in nfsAsked /\ s = sessions[r.conn] /\ lines' = N!Lines(s, proc, reply)
      /\ nfsFacts'.proc = r.proc /\ nfsFacts'.path = N!PathOf(r)
  BY DEF Replied
<1>2. /\ NfsAsk(r) /\ r.conn \in N!Connections
      /\ proc = None \/ (/\ s.called /\ s.xid = r.xid /\ s.proc = r.proc /\ proc = r.proc
                         /\ r.proc \in {"lookup", "read", "write"} => s.handle = r.handle
                         /\ r.proc = "lookup" => s.name = r.name)
  BY RepliedProc
<1>3. NamesTrue(s.paths) /\ TargetTrue(s, r) BY <1>1, <1>2 DEF AllTrue, AskTrue, SessionTrue
<1>4. SUFFICES ASSUME NEW l \in N!Lines(s, proc, reply)
               PROVE  l.proc = r.proc /\ N!Fits(l.path, N!PathOf(r))
  BY <1>1 DEF N!Answered
<1>5. CASE proc \in {"read", "write"} /\ reply.accepted /\ s.handle \in DOMAIN s.paths
  <2>1. l = [proc |-> proc, path |-> s.paths[s.handle]] BY <1>5 DEF N!Lines
  <2>2. r.proc = proc /\ s.handle = r.handle BY <1>2, <1>5 DEF None
  <2>3. r.handle \in Known BY <1>2, <1>5, <2>2 DEF NfsAsk, OnHandles
  <2>4. r.handle # 0 BY <2>3, AllPlaced DEF NfsWorld, NfsHosts, Placed
  <2>5. PICK p : p = s.paths[r.handle] OBVIOUS
  <2>6. p \in Seq(Words) /\ p # <<>> /\ N!IsSuffix(p, N!TruePath(r.handle))
    BY <1>3, <1>5, <2>2, <2>4, <2>5 DEF NamesTrue
  <2>7. N!Fits(p, N!TruePath(r.handle)) BY <2>6, WordsFit
  <2>8. N!PathOf(r) = N!TruePath(r.handle) BY <1>5, <2>2 DEF N!PathOf
  <2>9. l.proc = proc /\ l.path = p BY <2>1, <2>2, <2>5
  <2>10. QED BY <2>2, <2>7, <2>8, <2>9
<1>6. CASE proc \in {"create", "remove"}
  <2>1. l = [proc |-> proc, path |-> s.path] BY <1>6 DEF N!Lines
  <2>2. r.proc = proc /\ s.called /\ s.xid = r.xid BY <1>2, <1>6 DEF None
  <2>3. N!Fits(s.path, N!TruePath(r.handle) \o <<r.name>>) BY <1>3, <1>6, <2>2 DEF TargetTrue
  <2>4. N!PathOf(r) = N!TruePath(r.handle) \o <<r.name>> BY <1>6, <2>2 DEF N!PathOf
  <2>5. l.proc = proc /\ l.path = s.path BY <2>1
  <2>6. QED BY <2>2, <2>3, <2>4, <2>5
<1>7. CASE ~(proc \in {"read", "write"} /\ reply.accepted /\ s.handle \in DOMAIN s.paths) /\ proc \notin {"create", "remove"}
  BY <1>7 DEF N!Lines
<1>8. QED BY <1>5, <1>6, <1>7

LEMMA RestTold ==
  ASSUME NfsWorld, AllTrue, N!RestOfWrite PROVE AllTrue'
<1>1. PICK s, w :
        /\ s = sessions["nfs"] /\ Shaped(s) /\ Shaped(w) /\ "nfs" \in ports
        /\ sessions' = [sessions EXCEPT !["nfs"] = w] /\ Rested(s, w)
  BY RestIs
<1>2. UNCHANGED <<nfsAsked, nfsRequests, nfsScenario, tree>> BY DEF N!RestOfWrite
<1>3. NfsTree /\ NfsTree' /\ tree \subseteq tree' BY <1>2, RestWorld DEF NfsWorld, NfsHosts
<1>4. \A h \in Known : N!TruePath(h)' = N!TruePath(h) BY <1>3, PathsStay
<1>5. sessions'["nfs"] = w /\ \A d \in N!Connections : d # "nfs" => sessions'[d] = sessions[d]
  BY <1>1 DEF NfsWorld, NfsSessions, SessionsTyped, N!Connections
<1>6. w.paths = s.paths /\ w.path = s.path /\ (w.xid = 0 \/ (s.called /\ w.xid = s.xid)) BY <1>1 DEF Rested
<1>7. ASSUME NEW c \in N!Connections PROVE SessionTrue(c)'
  <2>1. PICK f : f = sessions'[c].paths OBVIOUS
  <2>2. NamesTrue(f)
    <3>1. NamesTrue(sessions[c].paths) BY DEF AllTrue, SessionTrue
    <3>2. CASE c = "nfs" BY <1>1, <1>5, <1>6, <2>1, <3>1, <3>2
    <3>3. CASE c # "nfs" BY <1>5, <2>1, <3>1, <3>3
    <3>4. QED BY <3>2, <3>3
  <2>3. NamesTrue(f)' BY <1>3, <2>2, TrueStays
  <2>4. QED BY <2>1, <2>3 DEF NamesTrue, SessionTrue
<1>8. ASSUME NEW q \in nfsAsked' PROVE AskTrue(q)'
  <2>1. /\ q.conn \in N!Connections /\ NfsAsk(q) /\ q.name # ".."
        /\ TargetTrue(sessions[q.conn], q) /\ q.xid \in 1..nfsRequests
    BY <1>2, ConnectionsAre DEF NfsWorld, NfsAsks, NfsAsk, AllTrue, AskTrue
  <2>2. PICK x : x = sessions'[q.conn] OBVIOUS
  <2>3. CASE q.proc \in {"create", "remove"} /\ x.called /\ x.xid = q.xid
    <3>1. /\ x.path = sessions[q.conn].path /\ sessions[q.conn].called /\ x.xid = sessions[q.conn].xid
      <4>1. CASE q.conn # "nfs" BY <1>5, <2>1, <2>2, <2>3, <4>1
      <4>2. CASE q.conn = "nfs"
        <5>1. x = w BY <1>5, <2>2, <4>2
        <5>2. q.xid # 0 BY <2>1 DEF NfsWorld, NfsAsks
        <5>3. QED BY <1>1, <1>6, <2>3, <4>2, <5>1, <5>2
      <4>3. QED BY <4>1, <4>2
    <3>2. N!Fits(x.path, N!TruePath(q.handle) \o <<q.name>>) BY <2>1, <2>3, <3>1 DEF TargetTrue
    <3>3. N!TruePath(q.handle)' = N!TruePath(q.handle) BY <1>4, <2>1, <2>3 DEF NfsAsk, OnHandles
    <3>4. QED BY <2>1, <2>2, <3>2, <3>3 DEF TargetTrue, AskTrue
  <2>4. CASE ~(q.proc \in {"create", "remove"} /\ x.called /\ x.xid = q.xid)
    BY <2>1, <2>2, <2>4 DEF TargetTrue, AskTrue
  <2>5. QED BY <2>3, <2>4
<1>9. QED BY <1>7, <1>8 DEF AllTrue

LEMMA UnseenTold ==
  ASSUME NfsWorld, AllTrue, N!AnswerUnseen PROVE AllTrue'
<1>1. /\ NfsWorld' /\ sessions' = sessions /\ nfsAsked' \subseteq nfsAsked /\ nfsOdd \subseteq nfsOdd'
      /\ NfsTree' /\ tree \subseteq tree'
  BY AnswerUnseenWorld
<1>2. NfsTree BY DEF NfsWorld, NfsHosts
<1>3. \A h \in Known : N!TruePath(h)' = N!TruePath(h) BY <1>1, <1>2, PathsStay
<1>4. ASSUME NEW c \in N!Connections PROVE SessionTrue(c)'
  <2>1. PICK f : f = sessions[c].paths OBVIOUS
  <2>2. NamesTrue(f)' BY <1>1, <1>2, <2>1, TrueStays DEF AllTrue, SessionTrue
  <2>3. QED BY <1>1, <2>1, <2>2 DEF NamesTrue, SessionTrue
<1>5. ASSUME NEW q \in nfsAsked' PROVE AskTrue(q)'
  <2>1. NfsAsk(q) /\ AskTrue(q) BY <1>1 DEF NfsWorld, NfsAsks, AllTrue
  <2>2. CASE q.proc \in {"create", "remove"}
    <3>1. N!TruePath(q.handle)' = N!TruePath(q.handle) BY <1>3, <2>1, <2>2 DEF NfsAsk, OnHandles
    <3>2. QED BY <1>1, <2>1, <3>1 DEF TargetTrue, AskTrue
  <2>3. CASE q.proc \notin {"create", "remove"} BY <2>1, <2>3 DEF TargetTrue, AskTrue
  <2>4. QED BY <2>2, <2>3
<1>6. QED BY <1>4, <1>5 DEF AllTrue

LEMMA NfsToldInit ==
  ASSUME N!Init PROVE NfsTold
<1>1. sessions = [c \in N!Connections |-> N!Blank] /\ nfsAsked = {} /\ lines = {} BY DEF N!Init
<1>2. \A c \in N!Connections : SessionTrue(c) BY <1>1, NoneTold DEF SessionTrue
<1>3. QED BY <1>1, <1>2 DEF NfsTold, AllTrue, N!Answered

LEMMA NfsToldNext ==
  ASSUME NfsWorld, NfsTold, N!Next PROVE NfsTold'
<1>1. nfsOdd \subseteq nfsOdd' BY OddGrows
<1>2. SUFFICES ASSUME Clear' PROVE AllTrue' /\ N!Answered' BY DEF NfsTold, N!Answered, Clear
<1>3. AllTrue BY <1>1, <1>2 DEF NfsTold, Clear
<1>4. ASSUME lines' = {} PROVE N!Answered' BY <1>4 DEF N!Answered
<1>5. CASE N!Call
  <2>1. PICK q : \E s, w : Called(q, s, w) /\ Heeded(q, s, w) BY <1>5, CallIs
  <2>2. PICK s, w : Called(q, s, w) /\ Heeded(q, s, w) BY <2>1
  <2>3. AllTrue' BY <1>2, <1>3, <2>2, CalledTold
  <2>4. QED BY <1>4, <2>2, <2>3 DEF Called
<1>6. CASE N!CallUnseen
  <2>1. PICK q : \E s, w : Called(q, s, w) /\ Passed(q, s, w) BY <1>6, CallUnseenIs
  <2>2. PICK s, w : Called(q, s, w) /\ Passed(q, s, w) BY <2>1
  <2>3. AllTrue' BY <1>2, <1>3, <2>2, CalledTold
  <2>4. QED BY <1>4, <2>2, <2>3 DEF Called
<1>7. CASE N!RestOfWrite BY <1>3, <1>4, <1>7, RestTold DEF N!RestOfWrite
<1>8. CASE N!Answer
  <2>1. PICK r : \E s, w, proc, reply : Replied(r, s, w, proc, reply) BY <1>8, AnswerIs
  <2>2. PICK s, w, proc, reply : Replied(r, s, w, proc, reply) BY <2>1
  <2>3. QED BY <1>2, <1>3, <2>2, RepliedTold, RepliedAnswered
<1>9. CASE N!AnswerUnseen BY <1>3, <1>4, <1>9, UnseenTold DEF N!AnswerUnseen
<1>10. CASE N!Rename
  <2>1. "renamed" \in nfsOdd' BY <1>10 DEF N!Rename
  <2>2. QED BY <1>2, <2>1 DEF Clear, N!Misleading
<1>11. QED BY <1>5, <1>6, <1>7, <1>8, <1>9, <1>10 DEF N!Next

--------------------------------
(* What the dispatcher knows of names when one connection, read from its *)
(* beginning, serves mounts and files, and nothing unusual happens. *)
Fresh == nfsScenario.shared /\ nfsScenario.start = "fresh"
Quiet == \A c \in N!Connections \ {"nfs"} : DOMAIN sessions[c].paths = {}
WholePaths(f) == \A h \in DOMAIN f \ {0} : f[h] = N!TruePath(h)
Whole ==
  /\ ~sessions["nfs"].deaf /\ \A r \in nfsAsked : r.conn = "nfs" => r.seen
  /\ nfsHeld \cap nfsScenario.folders \subseteq DOMAIN sessions["nfs"].paths
  /\ WholePaths(sessions["nfs"].paths)
NfsWhole == nfsOdd = {} /\ Fresh => Quiet /\ ("nfs" \in nfsScenario.ports => Whole)

LEMMA WholeStays ==
  ASSUME NfsTree, NfsTree', tree \subseteq tree', NEW f, NamesTrue(f), WholePaths(f) PROVE WholePaths(f)'
BY PathsStay DEF NamesTrue, WholePaths

LEMMA PutWhole ==
  ASSUME NEW f, WholePaths(f), NEW x, NEW p, x # 0 => p = N!TruePath(x)
  PROVE  WholePaths(N!Put(f, x, p)) /\ DOMAIN N!Put(f, x, p) = DOMAIN f \cup {x}
<1>1. PICK g : g = N!Put(f, x, p) OBVIOUS
<1>2. DOMAIN g = DOMAIN f \cup {x} /\ \A h \in DOMAIN g : g[h] = IF h = x THEN p ELSE f[h] BY <1>1 DEF N!Put
<1>3. WholePaths(g) BY <1>2 DEF WholePaths
<1>4. QED BY <1>1, <1>2, <1>3

LEMMA CalledWhole ==
  ASSUME NfsWorld, AllTrue, Fresh, Quiet, "nfs" \in nfsScenario.ports => Whole,
         NEW q, NEW s, NEW w, Called(q, s, w), Heeded(q, s, w)
  PROVE  Quiet' /\ ("nfs" \in nfsScenario.ports => Whole')
<1>1. /\ q.conn \in N!Connections /\ s = sessions[q.conn] /\ Shaped(s) /\ w.paths = s.paths
      /\ nfsAsked' = nfsAsked \cup {q} /\ sessions' = [sessions EXCEPT ![q.conn] = w]
      /\ UNCHANGED <<ports, nfsScenario, tree, nfsHeld>>
  BY DEF Called
<1>2. sessions'[q.conn] = w /\ \A d \in N!Connections : d # q.conn => sessions'[d] = sessions[d]
  BY <1>1 DEF NfsWorld, NfsSessions, SessionsTyped
<1>3. \A c \in N!Connections : sessions'[c].paths = sessions[c].paths BY <1>1, <1>2
<1>4. Quiet' BY <1>3 DEF Quiet
<1>5. ASSUME "nfs" \in nfsScenario.ports PROVE Whole'
  <2>1. Whole /\ "nfs" \in N!Connections /\ "nfs" \in ports
    BY <1>5 DEF NfsWorld, NfsSessions, SessionsTyped, N!Connections
  <2>2. ~sessions'["nfs"].deaf
    <3>1. CASE q.conn = "nfs"
      <4>1. CASE w = s BY <1>1, <1>2, <2>1, <3>1, <4>1 DEF Whole
      <4>2. CASE w = N!Recorded(s, q)
        <5>1. /\ w.deaf = s.deaf
              /\ w.handle = IF q.proc \in {"lookup", "read", "write"} THEN q.handle ELSE s.handle
              /\ w.name = IF q.proc = "lookup" THEN q.name ELSE s.name
              /\ q.proc \in {"getport", "mount", "umount"} => w.param = q.param
              /\ w.path = IF q.proc \in {"create", "remove"} THEN Target(s, q) ELSE s.path
          <6>1. Shaped(s) BY <1>1
          <6>2. QED BY <4>2, <6>1, RecordedFields
        <5>2. QED BY <1>1, <1>2, <2>1, <3>1, <5>1 DEF Whole
      <4>3. QED BY <4>1, <4>2 DEF Heeded
    <3>2. CASE q.conn # "nfs" BY <1>2, <2>1, <3>2 DEF Whole
    <3>3. QED BY <3>1, <3>2
  <2>3. \A r \in nfsAsked' : r.conn = "nfs" => r.seen BY <1>1, <2>1 DEF Whole, Heeded, N!Watched
  <2>4. WholePaths(sessions["nfs"].paths)'
    <3>1. PICK f : f = sessions["nfs"].paths OBVIOUS
    <3>2. NamesTrue(f) /\ WholePaths(f) BY <2>1, <3>1 DEF AllTrue, SessionTrue, Whole
    <3>3. NfsTree /\ NfsTree' BY CalledWorld DEF NfsWorld, NfsHosts
    <3>4. WholePaths(f)' BY <1>1, <3>2, <3>3, WholeStays
    <3>5. QED BY <1>3, <2>1, <3>1, <3>4 DEF WholePaths
  <2>5. QED BY <1>1, <1>3, <2>1, <2>2, <2>3, <2>4 DEF Whole
<1>6. QED BY <1>4, <1>5

LEMMA RepliedHeld ==
  ASSUME NfsWorld, NEW r, NEW s, NEW w, NEW proc, NEW reply, Replied(r, s, w, proc, reply)
  PROVE  /\ \/ nfsHeld' = nfsHeld
            \/ /\ nfsHeld' = nfsHeld \cup {reply.handle} /\ reply.ok /\ reply.accepted
               /\ r.proc \in {"mount", "lookup", "create"}
         /\ reply.ok /\ r.proc = "create" => reply.handle \notin nfsScenario.folders
<1>1. PICK ok, handle : ok = reply.ok /\ handle = reply.handle OBVIOUS
<1>2. /\ ok \in BOOLEAN /\ (ok => N!Found(r) # {}) /\ handle = N!Given(r, ok) /\ r \in nfsAsked
      /\ N!Serve(r, handle, ok) /\ nfsScenario' = nfsScenario /\ (ok => reply.accepted)
  BY <1>1 DEF Replied
<1>3. NfsTree /\ NfsScenario /\ gone \subseteq Known /\ nfsHeld \subseteq Known /\ NfsAsk(r)
  BY <1>2 DEF NfsWorld, NfsHosts, NfsAsks
<1>4. /\ \/ nfsHeld' = nfsHeld
         \/ nfsHeld' = nfsHeld \cup {handle} /\ ok /\ r.proc \in {"mount", "lookup", "create"}
      /\ ok /\ r.proc = "create" => handle \notin nfsScenario.folders
  BY <1>2, <1>3, ServeFacts
<1>5. QED BY <1>1, <1>2, <1>4

LEMMA RepliedWhole ==
  ASSUME NfsWorld, AllTrue, NfsKept, Fresh, Quiet, "nfs" \in nfsScenario.ports => Whole, nfsOdd' = {},
         NEW r, NEW s, NEW w, NEW proc, NEW reply, Replied(r, s, w, proc, reply)
  PROVE  Quiet' /\ ("nfs" \in nfsScenario.ports => Whole')
<1>1. Clear' BY DEF Clear
<1>2. /\ NfsAsk(r) /\ r.conn \in N!Connections
      /\ proc = None \/ (/\ s.called /\ s.xid = r.xid /\ s.proc = r.proc /\ proc = r.proc
                         /\ r.proc \in {"lookup", "read", "write"} => s.handle = r.handle
                         /\ r.proc = "lookup" => s.name = r.name)
  BY <1>1, RepliedProc
<1>3. /\ r \in nfsAsked /\ s = sessions[r.conn] /\ w = N!Session(s, proc, reply) /\ nfsAsked' = nfsAsked \ {r}
      /\ r.proc # "umount" /\ nfsScenario' = nfsScenario /\ reply.xid = r.xid /\ proc \in N!Answers(s, reply)
  BY DEF Replied
<1>4. sessions'[r.conn] = w /\ \A d \in N!Connections : d # r.conn => sessions'[d] = sessions[d] BY RepliedWorld
<1>5. Shaped(s) /\ NamesTrue(s.paths) /\ r.name # ".."
  BY <1>2, <1>3 DEF NfsWorld, NfsSessions, SessionsTyped, SessionTyped, AllTrue, SessionTrue, AskTrue
<1>6. proc # "umount" BY <1>2, <1>3 DEF None
<1>7. /\ w.deaf = s.deaf /\ w.name = s.name /\ w.param = s.param /\ w.path = s.path
      /\ \/ w.paths = s.paths
         \/ proc = "mount" /\ reply.ok /\ w.paths = N!Put(s.paths, reply.handle, <<Export>>)
         \/ /\ proc = "lookup" /\ reply.accepted
            /\ w.paths = N!Put(s.paths, IF reply.ok THEN reply.handle ELSE 0, Dir(s, s.handle) \o <<s.name>>)
  BY <1>3, <1>5, <1>6, SessionFields
<1>8. r.conn # "nfs" => r.proc = "getport" BY <1>2 DEF NfsAsk, N!ConnectionOf, N!MountConnection, Fresh
<1>9. r.conn # "nfs" => w.paths = s.paths BY <1>2, <1>7, <1>8 DEF None
<1>10. Quiet'
  <2> SUFFICES ASSUME NEW c \in N!Connections \ {"nfs"} PROVE DOMAIN sessions'[c].paths = {} BY DEF Quiet
  <2>1. DOMAIN sessions[c].paths = {} BY DEF Quiet
  <2>2. CASE c = r.conn BY <1>3, <1>4, <1>9, <2>1, <2>2
  <2>3. CASE c # r.conn BY <1>4, <2>1, <2>3
  <2>4. QED BY <2>2, <2>3
<1>11. ASSUME "nfs" \in nfsScenario.ports PROVE Whole'
  <2>1. Whole /\ "nfs" \in N!Connections BY <1>11 DEF N!Connections
  <2>2. ~sessions'["nfs"].deaf BY <1>3, <1>4, <1>7, <2>1 DEF Whole
  <2>3. \A q \in nfsAsked' : q.conn = "nfs" => q.seen BY <1>3, <2>1 DEF Whole
  <2>4. /\ \/ nfsHeld' = nfsHeld
           \/ /\ nfsHeld' = nfsHeld \cup {reply.handle} /\ reply.ok /\ reply.accepted
              /\ r.proc \in {"mount", "lookup", "create"}
        /\ reply.ok /\ r.proc = "create" => reply.handle \notin nfsScenario.folders
    BY RepliedHeld
  <2>5. NfsTree /\ NfsTree' /\ tree \subseteq tree' BY RepliedGrows
  <2>6. ASSUME NEW f, f = sessions'["nfs"].paths, NamesTrue(f), WholePaths(f) PROVE WholePaths(sessions["nfs"].paths)'
    <3>1. WholePaths(f)' BY <2>5, <2>6, WholeStays
    <3>2. QED BY <2>6, <3>1 DEF WholePaths
  <2>7. CASE r.conn # "nfs"
    <3>1. nfsHeld' = nfsHeld /\ sessions'["nfs"] = sessions["nfs"] BY <1>4, <1>8, <2>1, <2>4, <2>7
    <3>2. WholePaths(sessions["nfs"].paths)' BY <2>1, <2>6, <3>1 DEF Whole, AllTrue, SessionTrue
    <3>3. QED BY <1>3, <2>1, <2>2, <2>3, <3>1, <3>2 DEF Whole
  <2>8. CASE r.conn = "nfs"
    <3>1. Matches(s, r) BY <1>3, <2>1, <2>8 DEF Whole, NfsKept, LastCalls
    <3>2. s.called /\ s.xid = r.xid /\ proc = r.proc BY <1>3, <3>1 DEF Matches, N!Answers
    <3>3. r.proc = "lookup" => s.handle = r.handle /\ s.name = r.name
      <4>1. r.proc # None BY <1>2 DEF NfsAsk, N!Procedures, None
      <4>2. QED BY <1>2, <3>2, <4>1
    <3>4. w = sessions'["nfs"] /\ s = sessions["nfs"] BY <1>3, <1>4, <2>8
    <3>5. nfsHeld' \cap nfsScenario.folders \subseteq DOMAIN w.paths
      <4>1. DOMAIN s.paths \subseteq DOMAIN w.paths BY <1>3, <1>5, <1>6, SessionFacts
      <4>2. proc \in {"mount", "lookup"} /\ reply.ok /\ reply.accepted => reply.handle \in DOMAIN w.paths
        BY <1>3, <1>5, SessionFacts
      <4>3. QED BY <2>1, <2>4, <3>2, <3>4, <4>1, <4>2 DEF Whole
    <3>6. WholePaths(w.paths)
      <4>1. WholePaths(s.paths) BY <2>1, <3>4 DEF Whole
      <4>2. /\ ~reply.ok => reply.handle = 0
            /\ reply.ok /\ r.proc = "mount" => reply.handle = 1
            /\ reply.ok /\ r.proc = "lookup" => reply.handle \in Known
            /\ reply.ok /\ r.proc = "lookup" /\ r.name # ".." =>
                 N!TruePath(reply.handle) = N!TruePath(r.handle) \o <<r.name>>
        BY RepliedGiven
      <4>3. CASE w.paths = s.paths BY <4>1, <4>3
      <4>4. CASE proc = "mount" /\ reply.ok /\ w.paths = N!Put(s.paths, reply.handle, <<Export>>)
        <5>1. reply.handle = 1 BY <3>2, <4>2, <4>4
        <5>2. N!TruePath(1) = <<Export>> BY <2>5, PathsTrue DEF TruePaths
        <5>3. PICK x, p : x = reply.handle /\ p = <<Export>> OBVIOUS
        <5>4. WholePaths(N!Put(s.paths, x, p)) BY <4>1, <5>1, <5>2, <5>3, PutWhole
        <5>5. QED BY <4>4, <5>3, <5>4
      <4>5. CASE /\ proc = "lookup" /\ reply.accepted
                 /\ w.paths = N!Put(s.paths, IF reply.ok THEN reply.handle ELSE 0, Dir(s, s.handle) \o <<s.name>>)
        <5>1. r.proc = "lookup" /\ s.handle = r.handle /\ s.name = r.name BY <3>2, <3>3, <4>5
        <5>2. r.handle \in nfsHeld \cap nfsScenario.folders /\ r.handle \in Known
          BY <1>2, <5>1 DEF NfsAsk, OnHandles
        <5>3. r.handle \in DOMAIN s.paths /\ r.handle # 0 BY <2>1, <2>5, <3>4, <5>2, AllPlaced DEF Whole, Placed
        <5>4. Dir(s, s.handle) = N!TruePath(r.handle) BY <4>1, <5>1, <5>3 DEF Dir, WholePaths
        <5>5. PICK x, p : x = (IF reply.ok THEN reply.handle ELSE 0) /\ p = Dir(s, s.handle) \o <<s.name>>
          OBVIOUS
        <5>6. x # 0 => p = N!TruePath(x) BY <1>5, <4>2, <5>1, <5>4, <5>5
        <5>7. WholePaths(N!Put(s.paths, x, p)) BY <4>1, <5>6, PutWhole
        <5>8. QED BY <4>5, <5>5, <5>7
      <4>6. QED BY <1>7, <4>3, <4>4, <4>5
    <3>7. NamesTrue(w.paths) BY <1>1, RepliedNames
    <3>8. WholePaths(sessions["nfs"].paths)' BY <2>6, <3>4, <3>6, <3>7
    <3>9. QED BY <1>3, <2>2, <2>3, <3>4, <3>5, <3>8 DEF Whole
  <2>9. QED BY <2>7, <2>8
<1>12. QED BY <1>10, <1>11

LEMMA UnseenWhole ==
  ASSUME NfsWorld, AllTrue, Fresh, Quiet, "nfs" \in nfsScenario.ports => Whole, nfsOdd' = {}, N!AnswerUnseen
  PROVE  Quiet' /\ ("nfs" \in nfsScenario.ports => Whole')
<1>1. /\ NfsWorld' /\ sessions' = sessions /\ nfsAsked' \subseteq nfsAsked /\ nfsOdd \subseteq nfsOdd'
      /\ NfsTree' /\ tree \subseteq tree'
  BY AnswerUnseenWorld
<1>2. Quiet' BY <1>1 DEF Quiet
<1>3. ASSUME "nfs" \in nfsScenario.ports PROVE Whole'
  <2>1. PICK r \in nfsAsked : \E handle, ok : ~N!Watched(r.conn) /\ N!Serve(r, handle, ok) /\ nfsScenario' = nfsScenario
    BY DEF N!AnswerUnseen
  <2>2. PICK handle, ok : ~N!Watched(r.conn) /\ N!Serve(r, handle, ok) /\ nfsScenario' = nfsScenario BY <2>1
  <2>3. r.conn # "nfs" BY <1>3, <2>2 DEF NfsWorld, NfsSessions, SessionsTyped, N!Watched
  <2>4. NfsAsk(r) BY DEF NfsWorld, NfsAsks
  <2>5. r.proc = "getport" BY <2>3, <2>4 DEF NfsAsk, N!ConnectionOf, N!MountConnection, Fresh
  <2>6. nfsHeld' = nfsHeld BY <2>2, <2>5 DEF N!Serve
  <2>7. WholePaths(sessions["nfs"].paths)'
    <3>1. PICK f : f = sessions["nfs"].paths OBVIOUS
    <3>2. NamesTrue(f) /\ WholePaths(f) BY <1>3, <3>1 DEF AllTrue, SessionTrue, Whole, N!Connections
    <3>3. NfsTree BY DEF NfsWorld, NfsHosts
    <3>4. WholePaths(f)' BY <1>1, <3>2, <3>3, WholeStays
    <3>5. QED BY <1>1, <3>1, <3>4 DEF WholePaths
  <2>8. QED BY <1>1, <1>3, <2>2, <2>6, <2>7 DEF Whole
<1>4. QED BY <1>2, <1>3

LEMMA NfsWholeInit ==
  ASSUME N!Init PROVE NfsWhole
<1>1. sessions = [c \in N!Connections |-> N!Blank] /\ nfsAsked = {} BY DEF N!Init
<1>2. PICK s : s = N!Blank OBVIOUS
<1>3. \A c \in N!Connections : sessions[c] = s BY <1>1, <1>2
<1>4. DOMAIN s.paths = {} /\ ~s.deaf
  <2>1. s.paths = <<>> /\ ~s.deaf BY <1>2 DEF N!Blank
  <2>2. DOMAIN <<>> = {} OBVIOUS
  <2>3. QED BY <2>1, <2>2
<1>5. "nfs" \in N!Connections BY DEF N!Connections
<1>6. WholePaths(s.paths) BY <1>4 DEF WholePaths
<1>7. nfsScenario.start = "fresh" => nfsHeld = {} BY NfsTreeInit
<1>8. QED BY <1>1, <1>3, <1>4, <1>5, <1>6, <1>7 DEF NfsWhole, Fresh, Quiet, Whole

LEMMA NfsWholeNext ==
  ASSUME NfsWorld, NfsTold, NfsInv, NfsWhole, N!Next PROVE NfsWhole'
<1>1. nfsScenario' = nfsScenario
  <2>1. CASE N!Call BY <2>1 DEF N!Call
  <2>2. CASE N!Answer
    <3>1. PICK r, accepted, wanted, proc : N!AnswerTo(r, accepted, wanted, proc) BY <2>2 DEF N!Answer
    <3>2. QED BY <3>1 DEF N!AnswerTo
  <2>3. CASE N!AnswerUnseen BY <2>3 DEF N!AnswerUnseen
  <2>4. QED BY <2>1, <2>2, <2>3 DEF N!Next, N!CallUnseen, N!RestOfWrite, N!Rename
<1>2. SUFFICES ASSUME nfsOdd' = {}, Fresh
               PROVE  Quiet' /\ ("nfs" \in nfsScenario.ports => Whole')
  BY <1>1 DEF NfsWhole, Fresh
<1>3. nfsOdd = {} BY <1>2, OddGrows
<1>4. /\ Fresh /\ Quiet /\ ("nfs" \in nfsScenario.ports => Whole) /\ AllTrue /\ NfsKept
  BY <1>2, <1>3 DEF NfsWhole, NfsTold, Clear, NfsInv, Alone
<1>5. CASE N!Call
  <2>1. PICK q : \E s, w : Called(q, s, w) /\ Heeded(q, s, w) BY <1>5, CallIs
  <2>2. PICK s, w : Called(q, s, w) /\ Heeded(q, s, w) BY <2>1
  <2>3. QED BY <1>4, <2>2, CalledWhole
<1>6. CASE N!Answer
  <2>1. PICK r : \E s, w, proc, reply : Replied(r, s, w, proc, reply) BY <1>6, AnswerIs
  <2>2. PICK s, w, proc, reply : Replied(r, s, w, proc, reply) BY <2>1
  <2>3. QED BY <1>2, <1>4, <2>2, RepliedWhole
<1>7. CASE N!AnswerUnseen BY <1>2, <1>4, <1>7, UnseenWhole
<1>8. CASE N!CallUnseen \/ N!RestOfWrite \/ N!Rename
  <2>1. nfsOdd' # {} BY <1>8 DEF N!CallUnseen, N!RestOfWrite, N!Rename
  <2>2. QED BY <1>2, <2>1
<1>9. QED BY <1>5, <1>6, <1>7, <1>8 DEF N!Next

LEMMA NfsNamed ==
  ASSUME NfsWorld, NfsTold, NfsWhole PROVE N!HandlesNamed
<1>1. SUFFICES ASSUME Clear, NEW c \in N!Connections, NEW h \in DOMAIN sessions[c].paths \ {0}
               PROVE  /\ N!IsSuffix(sessions[c].paths[h], N!TruePath(h))
                      /\ nfsOdd = {} /\ Fresh /\ c \in nfsScenario.ports => sessions[c].paths[h] = N!TruePath(h)
  BY DEF N!HandlesNamed, Clear, Fresh
<1>2. N!IsSuffix(sessions[c].paths[h], N!TruePath(h)) BY <1>1 DEF NfsTold, AllTrue, SessionTrue, NamesTrue
<1>3. ASSUME nfsOdd = {}, Fresh, c \in nfsScenario.ports PROVE sessions[c].paths[h] = N!TruePath(h)
  <2>1. Quiet /\ ("nfs" \in nfsScenario.ports => Whole) BY <1>3 DEF NfsWhole
  <2>2. c = "nfs" BY <1>1, <2>1 DEF Quiet
  <2>3. QED BY <1>1, <1>3, <2>1, <2>2 DEF Whole, WholePaths
<1>4. QED BY <1>2, <1>3

--------------------------------
(* Both dispatchers, of which one takes steps in a behaviour: whatever *)
(* happens. *)

LEMMA NfsStays ==
  ASSUME NfsWorld, NfsTold, UNCHANGED nfs PROVE NfsWorld' /\ NfsTold'
<1> USE DEF nfs
<1>1. NfsHosts' BY DEF NfsWorld, NfsHosts, NfsTree, NfsScenario, Known
<1>2. NfsAsks' BY DEF NfsWorld, NfsAsks, NfsAsk, Known, N!ConnectionOf, N!MountConnection, Xids
<1>3. NfsSessions' BY DEF NfsWorld, NfsSessions, SessionsTyped
<1>4. Logged(nfsRequests + 1)' /\ Recalled' BY DEF NfsWorld, Logged, Recalled
<1>5. NfsTree /\ NfsTree' /\ tree' = tree BY <1>1 DEF NfsWorld, NfsHosts
<1>6. Known' = Known /\ \A h \in Known : N!TruePath(h)' = N!TruePath(h) BY <1>5, PathsStay DEF Known
<1>7. ASSUME AllTrue PROVE AllTrue'
  <2>1. ASSUME NEW c \in N!Connections PROVE SessionTrue(c)'
    <3>1. PICK f : f = sessions[c].paths OBVIOUS
    <3>2. NamesTrue(f)' BY <1>5, <1>7, <3>1, TrueStays DEF AllTrue, SessionTrue
    <3>3. QED BY <3>1, <3>2 DEF NamesTrue, SessionTrue
  <2>2. ASSUME NEW q \in nfsAsked' PROVE AskTrue(q)'
    <3>1. NfsAsk(q) /\ AskTrue(q) BY <1>7 DEF NfsWorld, NfsAsks, AllTrue
    <3>2. CASE q.proc \in {"create", "remove"}
      <4>1. N!TruePath(q.handle)' = N!TruePath(q.handle) BY <1>6, <3>1, <3>2 DEF NfsAsk, OnHandles
      <4>2. QED BY <3>1, <4>1 DEF TargetTrue, AskTrue
    <3>3. CASE q.proc \notin {"create", "remove"} BY <3>1, <3>3 DEF TargetTrue, AskTrue
    <3>4. QED BY <3>2, <3>3
  <2>3. QED BY <2>1, <2>2 DEF AllTrue
<1>8. NfsTold' BY <1>7 DEF NfsTold, Clear, N!Answered
<1>9. QED BY <1>1, <1>2, <1>3, <1>4, <1>8 DEF NfsWorld

LEMMA NfsWholeStays ==
  ASSUME NfsWorld, NfsTold, NfsWhole, UNCHANGED nfs PROVE NfsWhole'
<1> USE DEF nfs
<1>1. SUFFICES ASSUME nfsOdd = {}, Fresh, Quiet, "nfs" \in nfsScenario.ports => Whole
               PROVE  Quiet' /\ ("nfs" \in nfsScenario.ports => Whole')
  BY DEF NfsWhole, Fresh
<1>2. Quiet' BY <1>1 DEF Quiet
<1>3. ASSUME "nfs" \in nfsScenario.ports PROVE Whole'
  <2>1. Whole BY <1>1, <1>3
  <2>2. PICK f : f = sessions["nfs"].paths OBVIOUS
  <2>3. NamesTrue(f) /\ WholePaths(f)
    BY <1>1, <2>1, <2>2 DEF Whole, NfsTold, Clear, AllTrue, SessionTrue, N!Connections
  <2>4. NfsTree /\ NfsTree' /\ tree \subseteq tree' BY NfsStays DEF NfsWorld, NfsHosts
  <2>5. WholePaths(f)' BY <2>3, <2>4, WholeStays
  <2>6. WholePaths(sessions["nfs"].paths)' BY <2>2, <2>5 DEF WholePaths
  <2>7. QED BY <2>1, <2>6 DEF Whole
<1>4. QED BY <1>2, <1>3

TrueInv == Sound /\ NfsWorld /\ NfsTold

LEMMA TrueInit ==
  ASSUME MCInit PROVE TrueInv
BY SoundInit, NfsWorldInit, NfsToldInit DEF MCInit, TrueInv

LEMMA TrueNext ==
  ASSUME TrueInv, [MCNext]_<<vars, part, nfs>> PROVE TrueInv'
<1>1. CASE Next /\ UNCHANGED nfs BY <1>1, SoundNext, NfsStays DEF TrueInv
<1>2. CASE N!Next /\ UNCHANGED vars BY <1>2, SoundStays, NfsWorldNext, NfsToldNext DEF TrueInv
<1>3. CASE UNCHANGED <<vars, part, nfs>>
  <2>1. UNCHANGED vars /\ UNCHANGED nfs BY <1>3
  <2>2. QED BY <2>1, SoundStays, NfsStays DEF TrueInv
<1>4. QED BY <1>1, <1>2, <1>3 DEF MCNext

TableInv == TrueInv /\ KeptInv /\ NfsInv /\ NfsWhole

LEMMA TableInit ==
  ASSUME MCInit PROVE TableInv
BY TrueInit, ReportedInit, NfsWholeInit DEF MCInit, TableInv

LEMMA TableNext ==
  ASSUME TableInv, [MCNext]_<<vars, part, nfs>> PROVE TableInv'
<1>1. TrueInv' /\ KeptInv' /\ NfsInv' BY TrueNext, ReportedNext DEF TableInv
<1>2. NfsWorld /\ NfsTold /\ NfsInv /\ NfsWhole BY DEF TableInv, TrueInv
<1>3. CASE N!Next BY <1>1, <1>2, <1>3, NfsWholeNext DEF TableInv
<1>4. CASE UNCHANGED nfs BY <1>1, <1>2, <1>4, NfsWholeStays DEF TableInv
<1>5. N!Next \/ UNCHANGED nfs BY DEF MCNext
<1>6. QED BY <1>3, <1>4, <1>5

(* No SMB2 event is reported that did not happen, and none with bytes too *)
(* many or another's user or share, whatever messages are missed, refused *)
(* or under way and however the lists overflow; no NFS operation is logged *)
(* that was not the one answered, or under a path that is not the end of *)
(* its file's: but for the cases that Misleading of the two modules, *)
(* StaleTree and StaleUser name, and for any sets, limits and scenarios. *)
(* (cw_analizer_smb.cpp on_smb2_packet, cw_analizer_nfs.cpp on_rpc_packet) *)
THEOREM NoneInventedHolds == MCSpec => []NoneInvented
<1>1. MCInit => TrueInv BY TrueInit
<1>2. TrueInv /\ [MCNext]_<<vars, part, nfs>> => TrueInv' BY TrueNext
<1>3. TrueInv => NoneInvented BY DEF TrueInv, Sound, NfsTold, NoneInvented
<1>4. QED BY <1>1, <1>2, <1>3, PTL DEF MCSpec

(* The tables of the SMB2 dispatcher have their types and agree with the *)
(* server's: the open files as long as nothing unusual happens, the trees *)
(* but for the cases TreeNamed names. Those of the NFS dispatcher have *)
(* theirs, the name of a file handle is always the end of its path, and *)
(* all of it on a connection that serves mounts and files and is read from *)
(* its beginning: for any sets, limits and scenarios. *)
(* (cw_analizer_smb.cpp on_smb2_packet, cw_analizer_nfs.cpp on_rpc_packet) *)
THEOREM TablesHold == MCSpec => []TablesInStep
<1>1. MCInit => TableInv BY TableInit
<1>2. TableInv /\ [MCNext]_<<vars, part, nfs>> => TableInv' BY TableNext
<1>3. TableInv => TablesInStep
  <2> SUFFICES ASSUME TableInv PROVE TablesInStep OBVIOUS
  <2>1. TypeOK /\ TreeNamed
    <3>1. Memory /\ events \subseteq EventTypes /\ TreesNamed BY DEF TableInv, TrueInv, Sound
    <3>2. QED BY <3>1, MemoryTypes DEF TreesNamed, TreesShown, Shown, TreeNamed
  <2>2. InStep BY FilesInStep DEF TableInv
  <2>3. N!TypeOK /\ N!HandlesNamed BY NfsTyped, NfsNamed DEF TableInv, TrueInv
  <2>4. QED BY <2>1, <2>2, <2>3 DEF TablesInStep
<1>4. QED BY <1>1, <1>2, <1>3, PTL DEF MCSpec
=============================================================================

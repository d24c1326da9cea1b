------------------------- MODULE ConfigReload_proofs --------------------------
(***************************************************************************)
(* Proofs about ConfigReload, for every number of seconds, of edits and of *)
(* failing reads; and about the two other parts of MCConfigReload: the log *)
(* queue of LogService, for every limit of the queue and every number of   *)
(* lines that is told apart; and the rotation of the log files, for every  *)
(* number of files kept, of ends of the process and of renames that fail.  *)
(***************************************************************************)
EXTENDS MCConfigReload, Integers, SequenceTheorems, FiniteSetTheorems, TLAPS

BoundsAssumption == MaxClock \in Nat \ {0} /\ MaxWrites \in Nat /\ MaxFaults \in Nat

Opened(f) == pc \in {<<"open", f>>, <<"read", f>>}

(* A file that is opened is there, and so has a time.                      *)
FilesOK ==
  /\ clock >= 1 /\ writes \in 0..MaxWrites
  /\ \A f \in Files : Opened(f) => content[f] # Nothing /\ stated > 0
  /\ \A f \in Files : pc = <<"read", f>> => fstated > 0

(* A time of this second is that of a file changed in this second, and in  *)
(* memory that of a file opened in it.                                     *)
ThisSecond(f) ==
  /\ written[f] <= clock /\ mtime[f] <= clock
  /\ written[f] = clock => f \in touched
  /\ mtime[f] = clock => f \in touched \cap opened
  /\ Opened(f) /\ stated = clock => f \in touched
  /\ pc = <<"read", f>> /\ clock \in {stated, fstated} => f \in touched \cap opened
SecondsOK == stated <= clock /\ fstated <= clock /\ \A f \in Files : ThisSecond(f)

(* The times of a file that has not changed since its stat are one.        *)
Seen(f) ==
  f \notin changed =>
    /\ ~ Opened(f) => ~ Newer(f)
    /\ Opened(f) => stated = written[f]
    /\ pc = <<"read", f>> => fstated = written[f]
SeenOK == \A f \in Files : Seen(f)

(* What is in memory is what the file says, unless the file is newer or    *)
(* its change does not show.                                               *)
Loaded(f) == f \notin hidden /\ ~ Newer(f) => loaded[f] = content[f]
LoadedOK == \A f \in Files : Loaded(f)

(* The ini file is read only when it was edited, and the file of servers   *)
(* is not looked at before.                                                *)
IniOK ==
  /\ ~ iniEdited => ~ Newer("ini") /\ ~ Opened("ini") /\ given
  /\ given => loaded["servers"] = Nothing
  /\ pc \in {"stat", "open", "read"} \X {"servers"} => ~ given

IInv == TypeOK /\ FilesOK /\ SecondsOK /\ SeenOK /\ LoadedOK /\ IniOK

-----------------------------------------------------------------------------
LEMMA InitInv == BoundsAssumption /\ Init => IInv
<1> SUFFICES ASSUME BoundsAssumption, Init PROVE IInv
  OBVIOUS
<1> USE DEF BoundsAssumption, Init, Files, Nothing, Rest, Opened
<1>1. TypeOK
  <2>1. content \in [Files -> Contents] /\ written \in [Files -> Seconds]
    BY DEF Contents, Part, Seconds
  <2>2. loaded \in [Files -> Contents] /\ mtime \in [Files -> Seconds]
    BY <2>1 DEF Contents, Part, Seconds
  <2>3. \A f \in Files : written[f] = content[f] /\ mtime[f] <= clock /\ (mtime[f] = 0 => loaded[f] = Nothing)
    BY <2>1
  <2>4. pc = Rest /\ clock \in Seconds /\ stated \in Seconds /\ fstated \in Seconds
    BY DEF Seconds
  <2>5. hidden \cup changed \cup opened \cup touched \subseteq Files /\ given \in BOOLEAN /\ iniEdited \in BOOLEAN
    OBVIOUS
  <2>6. QED BY <2>1, <2>2, <2>3, <2>4, <2>5, Zenon DEF TypeOK
<1>2. FilesOK BY DEF FilesOK
<1>3. SecondsOK BY DEF SecondsOK, ThisSecond
<1>4. SeenOK BY DEF SeenOK, Seen, Newer
<1>5. LoadedOK BY DEF LoadedOK, Loaded, Newer
<1>6. IniOK BY DEF IniOK, Newer
<1>7. QED BY <1>1, <1>2, <1>3, <1>4, <1>5, <1>6 DEF IInv

LEMMA EverySecondInv ==
  ASSUME BoundsAssumption, IInv, EverySecond
  PROVE  IInv'
<1> USE DEF BoundsAssumption, EverySecond, memory, editor, Files, Nothing, Rest, Opened
<1>1. TypeOK' BY DEF IInv, TypeOK, FilesOK, Contents, Part, Seconds
<1>2. FilesOK' BY DEF IInv, TypeOK, FilesOK, Contents, Part, Seconds
<1>3. SecondsOK' BY DEF IInv, TypeOK, SecondsOK, ThisSecond, Seconds
<1>4. SeenOK' BY DEF IInv, TypeOK, SeenOK, Seen, Newer, Seconds
<1>5. LoadedOK' BY DEF IInv, TypeOK, SecondsOK, ThisSecond, SeenOK, Seen, LoadedOK, Loaded, Newer, Seconds
<1>6. IniOK' BY DEF IInv, TypeOK, IniOK, Newer
<1>7. QED BY <1>1, <1>2, <1>3, <1>4, <1>5, <1>6 DEF IInv

LEMMA StatInv ==
  ASSUME BoundsAssumption, IInv, NEW f \in Files, Stat(f)
  PROVE  IInv'
<1> USE DEF BoundsAssumption, Stat, Newer, After, memory, editor, Files, Nothing, Rest, Opened
<1>1. TypeOK' BY DEF IInv, TypeOK, FilesOK, Contents, Part, Seconds
<1>2. FilesOK' BY DEF IInv, TypeOK, FilesOK, Contents, Part, Seconds
<1>3. SecondsOK' BY DEF IInv, TypeOK, SecondsOK, ThisSecond, Seconds
<1>4. SeenOK' BY DEF IInv, TypeOK, SeenOK, Seen, Newer, Seconds
<1>5. LoadedOK' BY DEF IInv, TypeOK, SecondsOK, ThisSecond, SeenOK, Seen, LoadedOK, Loaded, Newer, Seconds
<1>6. IniOK' BY DEF IInv, TypeOK, IniOK, Newer
<1>7. QED BY <1>1, <1>2, <1>3, <1>4, <1>5, <1>6 DEF IInv

LEMMA OpenInv ==
  ASSUME BoundsAssumption, IInv, NEW f \in Files, Open(f)
  PROVE  IInv'
<1> USE DEF BoundsAssumption, Open, After, memory, editor, Files, Nothing, Rest, Opened
<1>1. TypeOK' BY DEF IInv, TypeOK, FilesOK, Contents, Part, Seconds
<1>2. FilesOK' BY DEF IInv, TypeOK, FilesOK, Contents, Part, Seconds
<1>3. SecondsOK' BY DEF IInv, TypeOK, SecondsOK, ThisSecond, Seconds
<1>4. SeenOK' BY DEF IInv, TypeOK, SeenOK, Seen, Newer, Seconds
<1>5. LoadedOK' BY DEF IInv, TypeOK, SecondsOK, ThisSecond, SeenOK, Seen, LoadedOK, Loaded, Newer, Seconds
<1>6. IniOK' BY DEF IInv, TypeOK, IniOK, Newer
<1>7. QED BY <1>1, <1>2, <1>3, <1>4, <1>5, <1>6 DEF IInv

LEMMA ReadInv ==
  ASSUME BoundsAssumption, IInv, NEW f \in Files, Read(f)
  PROVE  IInv'
<1> USE DEF BoundsAssumption, Read, After, TimeRead, StillGiven, memory, editor, Files, Nothing, Rest, Opened
<1>1. TypeOK'
  <2>1. loaded' \in [Files -> Contents] /\ mtime' \in [Files -> Seconds]
    BY DEF IInv, TypeOK, Contents, Part, Seconds
  <2>2. /\ pc' \in {Rest} \cup ({"stat", "open", "read"} \X Files)
        /\ {clock, stated, fstated}' \subseteq Seconds /\ given' \in BOOLEAN
    BY DEF IInv, TypeOK, Seconds
  <2>3. \A g \in Files : mtime'[g] <= clock' /\ (mtime'[g] = 0 => loaded'[g] = Nothing)
    BY DEF IInv, TypeOK, FilesOK, SecondsOK, ThisSecond, Seconds
  <2>4. QED BY <2>1, <2>2, <2>3 DEF IInv, TypeOK
<1>2. FilesOK' BY DEF IInv, TypeOK, FilesOK, Contents, Part, Seconds
<1>3. SecondsOK' BY DEF IInv, TypeOK, SecondsOK, ThisSecond, Seconds
<1>4. SeenOK' BY DEF IInv, TypeOK, SeenOK, Seen, Newer, Seconds
<1>5. LoadedOK' BY DEF IInv, TypeOK, SecondsOK, ThisSecond, SeenOK, Seen, LoadedOK, Loaded, Newer, Seconds
<1>6. IniOK' BY DEF IInv, TypeOK, IniOK, Newer
<1>7. QED BY <1>1, <1>2, <1>3, <1>4, <1>5, <1>6 DEF IInv

LEMMA WriteBeginInv ==
  ASSUME BoundsAssumption, IInv, WriteBegin
  PROVE  IInv'
<1> USE DEF BoundsAssumption, WriteBegin, Put, memory, editor, Files, Nothing, Rest, Opened
<1>1. TypeOK' BY DEF IInv, TypeOK, FilesOK, Contents, Part, Seconds
<1>2. FilesOK' BY DEF IInv, TypeOK, FilesOK, Contents, Part, Seconds
<1>3. SecondsOK' BY DEF IInv, TypeOK, SecondsOK, ThisSecond, Seconds
<1>4. SeenOK' BY DEF IInv, TypeOK, SeenOK, Seen, Newer, Seconds
<1>5. LoadedOK'
  <2> SUFFICES ASSUME NEW g \in Files PROVE Loaded(g)'
    BY DEF LoadedOK
  <2>1. Loaded(g) /\ ThisSecond(g)
    BY DEF IInv, LoadedOK, SecondsOK
  <2>2. CASE written'[g] = written[g] /\ content'[g] = content[g]
    BY <2>1, <2>2 DEF IInv, TypeOK, Loaded, Newer
  <2>3. CASE ~ (written'[g] = written[g] /\ content'[g] = content[g])
    <3>1. written'[g] = clock /\ hidden' = IF g \notin touched THEN hidden \ {g}
                                           ELSE IF g \in opened THEN hidden \cup {g} ELSE hidden
      <4>1. content \in [Files -> Contents] /\ written \in [Files -> Seconds]
        BY DEF IInv, TypeOK
      <4>2. PICK f \in Files : Put(f, Part)
        OBVIOUS
      <4>3. f = g
        BY <2>3, <4>1, <4>2
      <4>4. QED
        BY <4>1, <4>2, <4>3
    <3>2. g \notin hidden' => mtime[g] # clock
      BY <2>1, <3>1 DEF ThisSecond
    <3>3. content'[g] # Nothing /\ mtime' = mtime /\ mtime[g] \in Nat /\ clock \in Nat /\ mtime[g] <= clock
      BY <2>1, <2>3 DEF IInv, TypeOK, ThisSecond, FilesOK, Part, Seconds
    <3>4. QED BY <3>1, <3>2, <3>3 DEF Loaded, Newer
  <2>4. QED BY <2>2, <2>3
<1>6. IniOK' BY DEF IInv, TypeOK, IniOK, Newer
<1>7. QED BY <1>1, <1>2, <1>3, <1>4, <1>5, <1>6 DEF IInv

LEMMA WriteEndInv ==
  ASSUME BoundsAssumption, IInv, WriteEnd
  PROVE  IInv'
<1> USE DEF BoundsAssumption, WriteEnd, Put, memory, editor, Files, Nothing, Rest, Opened
<1>1. TypeOK' BY DEF IInv, TypeOK, FilesOK, Contents, Part, Seconds
<1>2. FilesOK' BY DEF IInv, TypeOK, FilesOK, Contents, Part, Seconds
<1>3. SecondsOK' BY DEF IInv, TypeOK, SecondsOK, ThisSecond, Seconds
<1>4. SeenOK' BY DEF IInv, TypeOK, SeenOK, Seen, Newer, Seconds
<1>5. LoadedOK'
  <2> SUFFICES ASSUME NEW g \in Files PROVE Loaded(g)'
    BY DEF LoadedOK
  <2>1. Loaded(g) /\ ThisSecond(g)
    BY DEF IInv, LoadedOK, SecondsOK
  <2>2. PICK f \in Files :
          /\ written' = [written EXCEPT ![f] = clock] /\ content' = [content EXCEPT ![f] = writes + 2]
          /\ hidden' = IF f \notin touched THEN hidden \ {f}
                       ELSE IF f \in opened THEN hidden \cup {f} ELSE hidden
          /\ loaded' = loaded /\ mtime' = mtime
    OBVIOUS
  <2>3. CASE f # g
    <3>1. written'[g] = written[g] /\ content'[g] = content[g] /\ (g \in hidden' <=> g \in hidden)
      BY <2>2, <2>3 DEF IInv, TypeOK
    <3>2. QED BY <2>1, <2>2, <3>1, Zenon DEF Loaded, Newer
  <2>4. CASE f = g
    <3>1. written'[g] = clock /\ (g \notin hidden' => mtime[g] # clock)
      BY <2>1, <2>2, <2>4 DEF IInv, TypeOK, ThisSecond
    <3>2. content'[g] # Nothing /\ mtime[g] \in Nat /\ clock \in Nat /\ mtime[g] <= clock
      BY <2>1, <2>2, <2>4 DEF IInv, TypeOK, ThisSecond, FilesOK, Seconds
    <3>3. QED BY <2>2, <3>1, <3>2 DEF Loaded, Newer
  <2>5. QED BY <2>3, <2>4
<1>6. IniOK' BY DEF IInv, TypeOK, IniOK, Newer
<1>7. QED BY <1>1, <1>2, <1>3, <1>4, <1>5, <1>6 DEF IInv

LEMMA RestoreInv ==
  ASSUME BoundsAssumption, IInv, Restore
  PROVE  IInv'
<1> USE DEF BoundsAssumption, Restore, memory, editor, Files, Nothing, Rest, Opened
<1>1. TypeOK' BY DEF IInv, TypeOK, FilesOK, Contents, Part, Seconds
<1>2. FilesOK' BY DEF IInv, TypeOK, FilesOK, Contents, Part, Seconds
<1>3. SecondsOK' BY DEF IInv, TypeOK, SecondsOK, ThisSecond, Seconds
<1>4. SeenOK' BY DEF IInv, TypeOK, SeenOK, Seen, Newer, Seconds
<1>5. LoadedOK'
  <2> SUFFICES ASSUME NEW g \in Files PROVE Loaded(g)'
    BY DEF LoadedOK
  <2>1. Loaded(g) /\ ThisSecond(g)
    BY DEF IInv, LoadedOK, SecondsOK
  <2>2. CASE written'[g] = written[g] /\ content'[g] = content[g]
    BY <2>1, <2>2 DEF IInv, TypeOK, Loaded, Newer
  <2>3. CASE ~ (written'[g] = written[g] /\ content'[g] = content[g])
    <3>1. /\ written'[g] \in Nat /\ content'[g] # Nothing /\ mtime' = mtime
          /\ g \notin hidden' => ~ (written'[g] <= mtime[g])
      BY <2>3 DEF IInv, TypeOK, FilesOK, Seconds
    <3>2. QED BY <3>1 DEF IInv, TypeOK, Loaded, Newer, Seconds
  <2>4. QED BY <2>2, <2>3
<1>6. IniOK' BY DEF IInv, TypeOK, IniOK, Newer
<1>7. QED BY <1>1, <1>2, <1>3, <1>4, <1>5, <1>6 DEF IInv

LEMMA TickInv ==
  ASSUME BoundsAssumption, IInv, Tick
  PROVE  IInv'
<1> USE DEF BoundsAssumption, Tick, memory, editor, Files, Nothing, Rest, Opened
<1>1. TypeOK' BY DEF IInv, TypeOK, FilesOK, Contents, Part, Seconds
<1>2. FilesOK' BY DEF IInv, TypeOK, FilesOK, Contents, Part, Seconds
<1>3. SecondsOK' BY DEF IInv, TypeOK, SecondsOK, ThisSecond, Seconds
<1>4. SeenOK' BY DEF IInv, TypeOK, SeenOK, Seen, Newer, Seconds
<1>5. LoadedOK' BY DEF IInv, TypeOK, SecondsOK, ThisSecond, SeenOK, Seen, LoadedOK, Loaded, Newer, Seconds
<1>6. IniOK' BY DEF IInv, TypeOK, IniOK, Newer
<1>7. QED BY <1>1, <1>2, <1>3, <1>4, <1>5, <1>6 DEF IInv

LEMMA StutterInv ==
  ASSUME BoundsAssumption, IInv, UNCHANGED vars
  PROVE  IInv'
<1> USE DEF BoundsAssumption, vars, memory, editor, Files, Nothing, Rest, Opened
<1>1. TypeOK' BY DEF IInv, TypeOK, FilesOK, Contents, Part, Seconds
<1>2. FilesOK' BY DEF IInv, TypeOK, FilesOK, Contents, Part, Seconds
<1>3. SecondsOK' BY DEF IInv, TypeOK, SecondsOK, ThisSecond, Seconds
<1>4. SeenOK' BY DEF IInv, TypeOK, SeenOK, Seen, Newer, Seconds
<1>5. LoadedOK' BY DEF IInv, TypeOK, SecondsOK, ThisSecond, SeenOK, Seen, LoadedOK, Loaded, Newer, Seconds
<1>6. IniOK' BY DEF IInv, TypeOK, IniOK, Newer
<1>7. QED BY <1>1, <1>2, <1>3, <1>4, <1>5, <1>6 DEF IInv


-----------------------------------------------------------------------------
LEMMA Inductive == ASSUME BoundsAssumption PROVE Spec => []IInv
<1>1. Init => IInv
  BY InitInv
<1>2. IInv /\ [Next]_vars => IInv'
  <2> SUFFICES ASSUME IInv, [Next]_vars PROVE IInv'
    OBVIOUS
  <2>1. CASE EverySecond BY <2>1, EverySecondInv
  <2>2. CASE \E f \in Files : Stat(f) BY <2>2, StatInv
  <2>3. CASE \E f \in Files : Open(f) BY <2>3, OpenInv
  <2>4. CASE \E f \in Files : Read(f) BY <2>4, ReadInv
  <2>5. CASE WriteBegin BY <2>5, WriteBeginInv
  <2>6. CASE WriteEnd BY <2>6, WriteEndInv
  <2>7. CASE Restore BY <2>7, RestoreInv
  <2>8. CASE Tick BY <2>8, TickInv
  <2>9. CASE UNCHANGED vars BY <2>9, StutterInv
  <2>10. QED BY <2>1, <2>2, <2>3, <2>4, <2>5, <2>6, <2>7, <2>8, <2>9 DEF Next, Progress
<1>3. QED BY <1>1, <1>2, PTL DEF Spec

(* Every variable keeps its type, no time in memory is of the future, and  *)
(* a file of which no time is kept says nothing.                           *)
(* (cw_server.cpp everysecond, main.cpp parse_ini_file)                    *)
THEOREM SettingsTyped == ASSUME BoundsAssumption PROVE Spec => []TypeOK
<1>1. IInv => TypeOK
  BY DEF IInv
<1>2. QED BY <1>1, Inductive, PTL

(* After each round the settings in memory are those of every file that    *)
(* has not changed since, unless no time shows the change or a read of it  *)
(* failed. (cw_server.cpp everysecond, main.cpp parse_ini_file)            *)
THEOREM SettingsCurrent == ASSUME BoundsAssumption PROVE Spec => []LoadedIsCurrent
<1>1. IInv => LoadedIsCurrent
  BY DEF IInv, SeenOK, Seen, LoadedOK, Loaded, LoadedIsCurrent, Opened, Rest
<1>2. QED BY <1>1, Inductive, PTL

(* The options of the command line hold until the ini file is edited, and  *)
(* the file of servers is not read before. (cw_server.cpp everysecond)     *)
THEOREM CommandLineHolds == ASSUME BoundsAssumption PROVE Spec => []OptionsHold
<1>1. IInv => OptionsHold
  BY DEF IInv, IniOK, OptionsHold
<1>2. QED BY <1>1, Inductive, PTL

-----------------------------------------------------------------------------
(* The log queue: L is LogService with its control point and its lines     *)
(* under other names.                                                      *)

(* Remainders.                                                             *)
LEMMA Division ==
  ASSUME NEW m \in Nat \ {0}, NEW p \in Nat
  PROVE  p = m * (p \div m) + (p % m) /\ p % m \in 0..(m - 1) /\ p \div m \in Nat
OBVIOUS

LEMMA Remainder ==
  ASSUME NEW m \in Nat \ {0}, NEW q \in Nat, NEW r \in 0..(m - 1)
  PROVE  (m * q + r) % m = r
OBVIOUS

LEMMA SmallRemainder ==
  ASSUME NEW m \in Nat \ {0}, NEW p \in 0..(m - 1)
  PROVE  p % m = p
OBVIOUS

LEMMA RemainderOfSum ==
  ASSUME NEW m \in Nat \ {0}, NEW p \in Nat, NEW q \in Nat
  PROVE  ((p % m) + q) % m = (p + q) % m
<1> DEFINE a == p \div m
           r == p % m
           b == (r + q) \div m
           s == (r + q) % m
<1>1. p = m * a + r /\ a \in Nat /\ r \in Nat
  BY Division
<1>2. r + q \in Nat
  BY <1>1
<1> HIDE DEF a, r
<1>3. r + q = m * b + s /\ b \in Nat /\ s \in 0..(m - 1)
  BY <1>2, Division
<1> HIDE DEF b, s
<1>4. p + q = m * (a + b) + s /\ a + b \in Nat
  BY <1>1, <1>3
<1>5. (m * (a + b) + s) % m = s
  BY <1>3, <1>4, Remainder
<1>6. QED
  BY <1>4, <1>5 DEF r, s

-----------------------------------------------------------------------------
(* Lines numbered one after another.                                       *)
Numbered(w, from, to) ==
  /\ \A n \in DOMAIN w : w[n][1] = (from + n - 1) % Numbers
  /\ to = (from + Len(w)) % Numbers

LEMMA NumberedAppend ==
  ASSUME Numbers \in Nat \ {0}, NEW w \in Seq(L!Lines), NEW from \in Nat, NEW to, NEW who,
         <<to, who>> \in L!Lines, Numbered(w, from, to)
  PROVE  Numbered(Append(w, <<to, who>>), from, L!Plus(to))
<1> DEFINE line == <<to, who>>
           more == Append(w, line)
<1>1. /\ Len(w) \in Nat /\ Len(more) = Len(w) + 1 /\ DOMAIN more = 1..(Len(w) + 1)
      /\ DOMAIN w = 1..Len(w)
      /\ \A n \in 1..Len(w) : more[n] = w[n]
      /\ more[Len(w) + 1] = line
  BY AppendProperties
<1> HIDE DEF more
<1>2. to = (from + Len(w)) % Numbers
  BY DEF Numbered
<1>3. L!Plus(to) = (from + Len(more)) % Numbers
  <2>1. (((from + Len(w)) % Numbers) + 1) % Numbers = (from + Len(w) + 1) % Numbers
    <3>1. from + Len(w) \in Nat
      BY <1>1
    <3> HIDE DEF line
    <3>2. QED
      BY <3>1, RemainderOfSum
  <2>2. from + Len(more) = from + Len(w) + 1
    BY <1>1
  <2>3. QED
    BY <1>2, <2>1, <2>2 DEF L!Plus
<1>4. ASSUME NEW n \in DOMAIN more PROVE more[n][1] = (from + n - 1) % Numbers
  <2>1. CASE n \in 1..Len(w)
    BY <1>1, <2>1 DEF Numbered
  <2>2. CASE n = Len(w) + 1
    <3>1. from + n - 1 = from + Len(w)
      BY <1>1, <2>2
    <3>2. more[n][1] = to
      BY <1>1, <2>2
    <3>3. QED
      BY <1>2, <3>1, <3>2
  <2>3. QED
    BY <1>1, <2>1, <2>2
<1>5. QED
  BY <1>3, <1>4 DEF Numbered, more

LEMMA NumberedTail ==
  ASSUME Numbers \in Nat \ {0}, NEW w \in Seq(L!Lines), w # <<>>, NEW from \in 0..(Numbers - 1), NEW to,
         Numbered(w, from, to)
  PROVE  Head(w)[1] = from /\ Numbered(Tail(w), L!Plus(from), to)
<1> DEFINE rest == Tail(w)
<1>1. /\ Len(w) \in Nat /\ Len(w) >= 1 /\ Head(w) = w[1] /\ DOMAIN w = 1..Len(w)
      /\ Len(rest) = Len(w) - 1 /\ DOMAIN rest = 1..(Len(w) - 1)
      /\ \A n \in 1..(Len(w) - 1) : rest[n] = w[n + 1]
  BY HeadTailProperties, EmptySeq
<1> HIDE DEF rest
<1>2. Head(w)[1] = from
  <2>1. w[1][1] = (from + 1 - 1) % Numbers
    BY <1>1 DEF Numbered
  <2>2. from + 1 - 1 = from
    OBVIOUS
  <2>3. QED
    BY <1>1, <2>1, <2>2, SmallRemainder
<1>3. \A k \in Nat : (L!Plus(from) + k) % Numbers = (from + 1 + k) % Numbers
  <2>1. from + 1 \in Nat
    OBVIOUS
  <2>2. QED
    BY <2>1, RemainderOfSum DEF L!Plus
<1>4. to = (L!Plus(from) + Len(rest)) % Numbers
  <2>1. from + 1 + Len(rest) = from + Len(w) /\ Len(rest) \in Nat
    BY <1>1
  <2>2. QED
    BY <1>3, <2>1 DEF Numbered
<1>5. ASSUME NEW n \in DOMAIN rest PROVE rest[n][1] = (L!Plus(from) + n - 1) % Numbers
  <2>1. n - 1 \in Nat /\ n + 1 \in DOMAIN w /\ rest[n] = w[n + 1]
    BY <1>1
  <2>2. w[n + 1][1] = (from + (n + 1) - 1) % Numbers
    BY <2>1 DEF Numbered
  <2>3. from + (n + 1) - 1 = from + 1 + (n - 1) /\ L!Plus(from) + n - 1 = L!Plus(from) + (n - 1)
    <3>1. L!Plus(from) \in Int /\ n \in Int
      BY <1>1 DEF L!Plus
    <3> HIDE DEF L!Plus
    <3>2. QED
      BY <3>1
  <2>4. QED
    BY <1>3, <2>1, <2>2, <2>3
<1>6. QED
  BY <1>2, <1>4, <1>5 DEF Numbered, rest

-----------------------------------------------------------------------------
(* The type invariant, and that the log thread holds lines exactly while   *)
(* it writes.                                                              *)
LogPoints == {"lock", "swap", "test", "sleep", "wait", "write", "done"}
MainPoints == {"run", "held", "last", "stop", "signal", "join", "exit"}
LogPcOK(p) ==
  /\ DOMAIN p = L!Threads /\ p = [t \in L!Threads |-> p[t]]
  /\ p["logThread"] \in LogPoints /\ p["main"] \in MainPoints
  /\ p["processor"] \in {"run", "held", "done"}
LogDataOK ==
  /\ queue \in Seq(L!Lines) /\ Len(queue) <= Limit /\ batch \in Seq(L!Lines)
  /\ next \in 0..(Numbers - 1) /\ printed \in 0..(Numbers - 1)
LogControlOK ==
  /\ mutex \in L!Threads \cup {"none", "handler"}
  /\ LogPcOK(at) /\ hpc \in {"none", "lock", "held", "done"} /\ on \in L!Threads
  /\ sigterm \in BOOLEAN /\ terminate \in BOOLEAN
LogWriting == batch # <<>> <=> at["logThread"] = "write"
LogInv == LogDataOK /\ LogControlOK /\ LogWriting /\ Numbered(batch \o queue, printed, next)

LEMMA LogInit ==
  ASSUME Limit \in Nat, Numbers \in Nat \ {0}, L!Init
  PROVE  LogInv
<1>1. LogDataOK /\ LogControlOK /\ LogWriting
  <2>1. LogDataOK
    BY EmptySeq DEF L!Init, LogDataOK
  <2>2. LogPcOK(at)
    BY DEF L!Init, LogPcOK, LogPoints, MainPoints, L!Threads, L!Loggers
  <2>3. LogControlOK
    BY <2>2 DEF L!Init, LogControlOK, L!Threads, L!Loggers
  <2>4. LogWriting
    BY DEF L!Init, LogWriting, L!Threads
  <2>5. QED
    BY <2>1, <2>3, <2>4
<1>2. batch \o queue = <<>>
  BY EmptySeq, ConcatEmptySeq DEF L!Init
<1>3. Numbered(<<>>, 0, 0)
  <2>1. (0 + 0) % Numbers = 0
    BY SmallRemainder
  <2>2. QED
    BY <2>1 DEF Numbered
<1>4. QED
  BY <1>1, <1>2, <1>3 DEF LogInv, L!Init

LEMMA WokenFacts ==
  ASSUME NEW p, LogPcOK(p)
  PROVE  /\ LogPcOK(L!Woken(p)) /\ LogPcOK(L!AfterPut(p))
         /\ L!Woken(p)["logThread"] = "write" <=> p["logThread"] = "write"
         /\ L!AfterPut(p)["logThread"] = "write" <=> p["logThread"] = "write"
BY DEF LogPcOK, L!Woken, L!AfterPut, LogPoints, L!Threads, L!Loggers

(* A put.                                                                  *)
LEMMA LogPutFacts ==
  ASSUME Limit \in Nat, Numbers \in Nat \ {0}, LogInv, NEW who \in L!Loggers \cup {"handler"}, L!Put(who),
         UNCHANGED <<batch, printed>>
  PROVE  LogDataOK' /\ Numbered((batch \o queue)', printed', next')
<1> DEFINE line == <<next, who>>
<1>1. CASE Len(queue) < Limit
  <2>1. queue' = Append(queue, line) /\ next' = L!Plus(next) /\ line \in L!Lines
    BY <1>1 DEF L!Put, L!Lines, LogInv, LogDataOK
  <2>2. /\ queue \in Seq(L!Lines) /\ batch \in Seq(L!Lines) /\ batch \o queue \in Seq(L!Lines)
        /\ printed \in Nat
    BY ConcatProperties DEF LogInv, LogDataOK
  <2>3. (batch \o queue)' = Append(batch \o queue, line)
    <3> HIDE DEF line
    <3>1. <<line>> \in Seq(L!Lines)
      BY <2>1
    <3>2. /\ Append(queue, line) = queue \o <<line>>
          /\ Append(batch \o queue, line) = (batch \o queue) \o <<line>>
      BY <2>1, <2>2, AppendIsConcat
    <3>3. (batch \o queue) \o <<line>> = batch \o (queue \o <<line>>)
      BY <2>2, <3>1, ConcatAssociative
    <3>4. QED
      BY <2>1, <3>2, <3>3
  <2>4. Numbered(Append(batch \o queue, line), printed, L!Plus(next))
    BY <2>1, <2>2, NumberedAppend DEF LogInv
  <2>5. Append(queue, line) \in Seq(L!Lines) /\ Len(Append(queue, line)) = Len(queue) + 1
    BY <2>1, <2>2, AppendProperties
  <2>6. L!Plus(next) \in 0..(Numbers - 1)
    BY Division DEF L!Plus, LogInv, LogDataOK
  <2>7. LogDataOK'
    <3>1. Len(queue) \in Nat
      BY <2>2
    <3>2. Len(queue) + 1 <= Limit
      BY <1>1, <3>1
    <3>3. QED
      BY <2>1, <2>2, <2>5, <2>6, <3>2 DEF LogDataOK, LogInv
  <2>8. QED
    BY <2>1, <2>3, <2>4, <2>7
<1>2. CASE ~ (Len(queue) < Limit)
  BY <1>2 DEF L!Put, LogInv, LogDataOK
<1>3. QED
  BY <1>1, <1>2

LEMMA LogStep ==
  ASSUME Limit \in Nat, Numbers \in Nat \ {0}, LogInv, [L!Next]_(L!vars)
  PROVE  LogInv'
<1> USE DEF LogInv, LogControlOK
<1>1. ASSUME UNCHANGED <<queue, batch, next, printed>> PROVE LogDataOK' /\ Numbered((batch \o queue)', printed', next')
  BY <1>1 DEF LogDataOK
<1>2. ASSUME NEW t \in L!Loggers, L!LogLock(t) PROVE LogInv'
  <2>1. /\ mutex' \in L!Threads \cup {"none", "handler"} /\ UNCHANGED <<hpc, on, sigterm, terminate>>
        /\ UNCHANGED <<queue, batch, next, printed>>
    BY <1>2 DEF L!LogLock, L!Threads
  <2>2. LogPcOK(at') /\ (at'["logThread"] = at["logThread"])
    BY <1>2 DEF L!LogLock, LogPcOK, L!Threads, L!Loggers, MainPoints
  <2>3. QED
    BY <1>1, <2>1, <2>2 DEF LogWriting
<1>3. ASSUME NEW t \in L!Loggers, L!LogPut(t) PROVE LogInv'
  <2>1. LogDataOK' /\ Numbered((batch \o queue)', printed', next')
    BY <1>3, LogPutFacts DEF L!LogPut
  <2> DEFINE p == [at EXCEPT ![t] = IF t = "main" THEN "stop" ELSE "run"]
  <2>2. LogPcOK(p) /\ p["logThread"] = at["logThread"]
    BY DEF LogPcOK, L!Threads, L!Loggers, MainPoints
  <2>3. at' = L!AfterPut(p) /\ mutex' = "none" /\ UNCHANGED <<batch, hpc, on, sigterm, terminate>>
    BY <1>3 DEF L!LogPut
  <2> HIDE DEF p
  <2>4. QED
    BY <2>1, <2>2, <2>3, WokenFacts DEF LogWriting
<1>4. CASE L!LAcquire
  <2>1. /\ mutex' = "logThread" /\ UNCHANGED <<hpc, on, sigterm, terminate>>
        /\ UNCHANGED <<queue, batch, next, printed>>
    BY <1>4 DEF L!LAcquire
  <2>2. LogPcOK(at') /\ at'["logThread"] = "swap" /\ at["logThread"] = "lock"
    BY <1>4 DEF L!LAcquire, LogPcOK, L!Threads, LogPoints, L!Loggers
  <2>3. QED
    BY <1>1, <2>1, <2>2 DEF LogWriting, L!Threads
<1>5. CASE L!LSwap
  <2>1. /\ mutex' = "none" /\ UNCHANGED <<hpc, on, sigterm, terminate, next, printed>>
        /\ batch' = queue /\ queue' = <<>> /\ at["logThread"] = "swap"
    BY <1>5 DEF L!LSwap
  <2>2. LogPcOK(at') /\ at'["logThread"] = IF queue = <<>> THEN "test" ELSE "write"
    BY <1>5 DEF L!LSwap, LogPcOK, L!Threads, LogPoints, L!Loggers
  <2>3. queue \in Seq(L!Lines) /\ batch = <<>>
    BY <2>1 DEF LogDataOK, LogWriting
  <2>4. (batch \o queue)' = batch \o queue
    BY <2>1, <2>3, ConcatEmptySeq
  <2>5. LogDataOK'
    BY <2>1, <2>3, EmptySeq DEF LogDataOK
  <2>6. QED
    BY <2>1, <2>2, <2>4, <2>5 DEF LogWriting
<1>6. CASE L!LTest \/ L!LSleep
  <2>1. /\ UNCHANGED <<mutex, hpc, on, sigterm, terminate>>
        /\ UNCHANGED <<queue, batch, next, printed>>
    BY <1>6 DEF L!LTest, L!LSleep
  <2>2. LogPcOK(at') /\ at'["logThread"] # "write" /\ at["logThread"] # "write"
    BY <1>6 DEF L!LTest, L!LSleep, LogPcOK, L!Threads, LogPoints, L!Loggers
  <2>3. QED
    BY <1>1, <2>1, <2>2 DEF LogWriting
<1>7. CASE L!LWrite
  <2>1. /\ UNCHANGED <<mutex, queue, next, hpc, on, sigterm, terminate>>
        /\ printed' = L!Plus(Head(batch)[1]) /\ batch' = Tail(batch) /\ at["logThread"] = "write"
    BY <1>7 DEF L!LWrite
  <2>2. LogPcOK(at') /\ at'["logThread"] = IF Len(batch) = 1 THEN "lock" ELSE "write"
    BY <1>7 DEF L!LWrite, LogPcOK, L!Threads, LogPoints, L!Loggers
  <2>3. batch \in Seq(L!Lines) /\ queue \in Seq(L!Lines) /\ batch # <<>>
    BY <2>1 DEF LogDataOK, LogWriting
  <2>4. /\ batch \o queue \in Seq(L!Lines) /\ batch \o queue # <<>>
        /\ Head(batch \o queue) = Head(batch) /\ Tail(batch \o queue) = Tail(batch) \o queue
    BY <2>3, ConcatProperties
  <2>5. Head(batch)[1] = printed /\ Numbered(Tail(batch) \o queue, L!Plus(printed), next)
    <3> DEFINE w == batch \o queue
    <3>1. /\ w \in Seq(L!Lines) /\ w # <<>> /\ Head(w) = Head(batch) /\ Tail(w) = Tail(batch) \o queue
          /\ printed \in 0..(Numbers - 1) /\ Numbered(w, printed, next)
      BY <2>4 DEF LogDataOK
    <3> HIDE DEF w
    <3>2. Head(w)[1] = printed /\ Numbered(Tail(w), L!Plus(printed), next)
      BY <3>1, NumberedTail
    <3>3. QED
      BY <3>1, <3>2
  <2>6. Tail(batch) \in Seq(L!Lines) /\ (Tail(batch) = <<>> <=> Len(batch) = 1)
    <3>1. Tail(batch) \in Seq(L!Lines) /\ Len(Tail(batch)) = Len(batch) - 1 /\ Len(batch) \in Nat
      BY <2>3, HeadTailProperties
    <3>2. Tail(batch) = <<>> <=> Len(Tail(batch)) = 0
      BY <3>1, EmptySeq
    <3>3. QED
      BY <3>1, <3>2
  <2>7. L!Plus(printed) \in 0..(Numbers - 1)
    BY Division DEF L!Plus, LogDataOK
  <2>8. LogDataOK'
    BY <2>1, <2>5, <2>6, <2>7 DEF LogDataOK
  <2>9. QED
    BY <2>1, <2>2, <2>5, <2>6, <2>8 DEF LogWriting
<1>8. ASSUME NEW t \in L!Threads, L!Sigterm(t) PROVE LogInv'
  BY <1>1, <1>8 DEF L!Sigterm, LogWriting, L!Threads
<1>9. CASE L!HandlerLock
  BY <1>1, <1>9 DEF L!HandlerLock, LogWriting
<1>10. CASE L!HandlerPut
  <2>1. LogDataOK' /\ Numbered((batch \o queue)', printed', next')
    BY <1>10, LogPutFacts DEF L!HandlerPut
  <2>2. /\ hpc' = "done" /\ mutex' = "none" /\ at' = L!AfterPut(at) /\ sigterm' = TRUE
        /\ UNCHANGED <<batch, on, terminate>>
    BY <1>10 DEF L!HandlerPut
  <2>3. QED
    BY <2>1, <2>2, WokenFacts DEF LogWriting
<1>11. CASE L!MainLeave \/ L!MainStop \/ L!MainJoin
  <2>1. /\ UNCHANGED <<mutex, hpc, on, sigterm>> /\ terminate' \in BOOLEAN
        /\ UNCHANGED <<queue, batch, next, printed>>
    BY <1>11 DEF L!MainLeave, L!MainStop, L!MainJoin
  <2>2. LogPcOK(at') /\ at'["logThread"] = at["logThread"]
    BY <1>11 DEF L!MainLeave, L!MainStop, L!MainJoin, LogPcOK, L!Threads, MainPoints, L!Loggers
  <2>3. QED
    BY <1>1, <2>1, <2>2 DEF LogWriting
<1>12. CASE L!MainSignal
  <2> DEFINE p == [at EXCEPT !["main"] = "join"]
  <2>1. LogPcOK(p) /\ p["logThread"] = at["logThread"]
    BY DEF LogPcOK, L!Threads, L!Loggers, MainPoints
  <2>2. /\ at' = L!Woken(p) /\ UNCHANGED <<mutex, hpc, on, sigterm, terminate>>
        /\ UNCHANGED <<queue, batch, next, printed>>
    BY <1>12 DEF L!MainSignal
  <2> HIDE DEF p
  <2>3. QED
    BY <1>1, <2>1, <2>2, WokenFacts DEF LogWriting
<1>13. CASE UNCHANGED L!vars
  BY <1>1, <1>13 DEF L!vars, LogWriting
<1>14. QED
  BY <1>2, <1>3, <1>4, <1>5, <1>6, <1>7, <1>8, <1>9, <1>10, <1>11, <1>12, <1>13 DEF L!Next

LEMMA LogInOrder == LogInv => LinesInOrder
<1>1. LogInv => L!TypeOK
  BY DEF LogInv, LogDataOK, LogControlOK, LogPcOK, LogPoints, MainPoints, L!TypeOK
<1>2. LogInv => L!LinesInOrder
  BY DEF LogInv, Numbered, L!LinesInOrder
<1>3. QED
  BY <1>1, <1>2 DEF LinesInOrder

(* Every line that entered the queue is written, once and in the order in  *)
(* which it entered, whichever signals are lost, whenever SIGTERM comes,   *)
(* and whatever the number of loggers' lines and the limit of the queue.   *)
(* (LogThread::run, log_print)                                             *)
THEOREM QueueKeepsOrder ==
  ASSUME Limit \in Nat, Numbers \in Nat \ {0}
  PROVE  MCSpec => []LinesInOrder
<1>1. MCInit => LogInv
  BY LogInit DEF MCInit
<1>2. LogInv /\ [MCNext]_<<vars, part, rotation, log>> => LogInv'
  <2>1. [MCNext]_<<vars, part, rotation, log>> => [L!Next]_(L!vars)
    BY DEF MCNext, L!vars, log
  <2>2. QED
    BY <2>1, LogStep
<1>3. QED
  BY <1>1, <1>2, LogInOrder, PTL DEF MCSpec

-----------------------------------------------------------------------------
(* The rotation. The daemon rotates only when it keeps at least one old    *)
(* file.                                                                   *)
RotationAssumption ==
  /\ N \in Nat \ {0} /\ MaxFiles \in Nat /\ MaxKills \in Nat /\ MaxRenameFaults \in Nat

Logs == Cardinality(R!Present)
Spared == Logs + kills + renameFaults
Least(a, b) == IF a <= b THEN a ELSE b
Slots == 0..(N - 1)

(* The log that the next call overwrites or unlinks. *)
Doomed ==
  \/ step = "unlink" /\ old[i - 1] # 0
  \/ step = "unlinkFirst" /\ old[0] # 0
  \/ step = "open" /\ cur # 0
Room == IF Doomed THEN Spared - 1 ELSE Spared

Between ==
  /\ Spared >= Least(begun, N + 1)
  /\ \A k \in Slots : old[k] # 0 => Spared >= k + 2
Within ==
  /\ Room + 1 >= Least(begun + 1, N + 1)
  /\ \A k \in Slots : old[k] # 0 => Room >= k + 1
  /\ step \in {"unlink", "rename"} => \A k \in Slots : old[k] # 0 /\ k < i - 1 => Room >= k + 2
PlaceOK ==
  /\ \A g \in R!Present : g <= begun
  /\ step \in {"unlink", "rename"} => i > 1
  /\ step = "unlinkFirst" => i = 1
  /\ step = "rename" => old[i - 1] = 0
  /\ step = "renameFile" => old[0] = 0
Counted ==
  /\ R!TypeOK /\ PlaceOK
  /\ step \in {"write", "stopped"} => Between
  /\ step \notin {"write", "stopped"} => Within

LEMMA LogsFinite ==
  ASSUME RotationAssumption, NEW S \in SUBSET (0..MaxFiles)
  PROVE  IsFiniteSet(S) /\ Cardinality(S) \in Nat
<1>1. IsFiniteSet(0..MaxFiles)
  BY FS_Interval DEF RotationAssumption
<1>2. QED
  BY <1>1, FS_Subset, FS_CardinalityType

(* At most one log goes, and a log that begins is one more. *)
LEMMA OneGoes ==
  ASSUME NEW S, NEW T, NEW x, IsFiniteSet(S), IsFiniteSet(T), S \ {x} \subseteq T
  PROVE  Cardinality(T) >= Cardinality(S) - 1 /\ (x \notin S => Cardinality(T) >= Cardinality(S))
<1>1. IsFiniteSet(S \ {x}) /\ Cardinality(S \ {x}) = IF x \in S THEN Cardinality(S) - 1 ELSE Cardinality(S)
  BY FS_RemoveElement
<1>2. Cardinality(S \ {x}) <= Cardinality(T)
  BY FS_Subset
<1>3. Cardinality(S) \in Nat /\ Cardinality(T) \in Nat
  BY FS_CardinalityType
<1>4. QED
  BY <1>1, <1>2, <1>3

LEMMA OneBegins ==
  ASSUME NEW S, NEW T, NEW x, NEW y, IsFiniteSet(S), IsFiniteSet(T), (S \ {x}) \cup {y} \subseteq T, y \notin S
  PROVE  Cardinality(T) >= Cardinality(S) /\ (x \notin S => Cardinality(T) >= Cardinality(S) + 1)
<1>1. IsFiniteSet(S \ {x}) /\ Cardinality(S \ {x}) = IF x \in S THEN Cardinality(S) - 1 ELSE Cardinality(S)
  BY FS_RemoveElement
<1>2. Cardinality((S \ {x}) \cup {y}) = Cardinality(S \ {x}) + 1
  BY <1>1, FS_AddElement
<1>3. Cardinality((S \ {x}) \cup {y}) <= Cardinality(T)
  BY FS_Subset
<1>4. Cardinality(S) \in Nat /\ Cardinality(T) \in Nat
  BY FS_CardinalityType
<1>5. QED
  BY <1>1, <1>2, <1>3, <1>4

-----------------------------------------------------------------------------
LEMMA RenameFacts ==
  ASSUME RotationAssumption, R!TypeOK, PlaceOK, R!Rename
  PROVE  /\ i \in 2..N /\ i' = i - 1 /\ UNCHANGED <<cur, begun, full, kills>>
         /\ step = "rename" /\ step' = IF i - 1 > 1 THEN "unlink" ELSE "unlinkFirst"
         /\ \/ /\ DOMAIN old' = Slots /\ renameFaults' = renameFaults
               /\ \A k \in Slots : old'[k] = IF k = i - 1 THEN old[i - 2]
                                             ELSE IF k = i - 2 THEN 0 ELSE old[k]
            \/ old' = old /\ renameFaults < MaxRenameFaults /\ renameFaults' = renameFaults + 1
<1>1. i \in 2..N /\ i - 1 \in Slots /\ i - 2 \in Slots /\ DOMAIN old = Slots
  <2>1. i \in 1..N /\ N \in Nat /\ i > 1
    BY DEF RotationAssumption, R!TypeOK, PlaceOK, R!Rename
  <2>2. PICK n \in Nat, j \in Nat : n = N /\ j = i /\ j > 1 /\ j <= n
    BY <2>1
  <2>3. QED
    BY <2>2 DEF R!TypeOK, Slots
<1>2. ASSUME old' = [old EXCEPT ![i - 1] = old[i - 2], ![i - 2] = 0]
      PROVE  /\ DOMAIN old' = Slots
             /\ \A k \in Slots : old'[k] = IF k = i - 1 THEN old[i - 2]
                                           ELSE IF k = i - 2 THEN 0 ELSE old[k]
  BY <1>1, <1>2
<1>3. QED
  BY <1>1, <1>2 DEF R!Rename

LEMMA RenameFileFacts ==
  ASSUME RotationAssumption, R!TypeOK, PlaceOK, R!RenameFile
  PROVE  /\ UNCHANGED <<begun, full, i, kills>> /\ step = "renameFile" /\ step' = "open"
         /\ \/ /\ DOMAIN old' = Slots /\ cur' = 0 /\ renameFaults' = renameFaults
               /\ \A k \in Slots : old'[k] = IF k = 0 THEN cur ELSE old[k]
            \/ /\ old' = old /\ cur' = cur
               /\ renameFaults < MaxRenameFaults /\ renameFaults' = renameFaults + 1
<1> USE DEF RotationAssumption, R!TypeOK, PlaceOK, R!RenameFile, Slots
<1>1. DOMAIN old = Slots /\ 0 \in Slots
  OBVIOUS
<1>2. ASSUME old' = [old EXCEPT ![0] = cur]
      PROVE  DOMAIN old' = Slots /\ \A k \in Slots : old'[k] = IF k = 0 THEN cur ELSE old[k]
  BY <1>1, <1>2
<1>3. QED
  BY <1>1, <1>2

LEMMA RotationTyped ==
  ASSUME RotationAssumption, R!TypeOK, PlaceOK, R!Next
  PROVE  R!TypeOK' /\ PlaceOK'
<1>1. CASE R!Write
  BY <1>1 DEF R!Write, RotationAssumption, R!TypeOK, PlaceOK, R!Present
<1>2. CASE R!Rotate
  BY <1>2 DEF R!Rotate, RotationAssumption, R!TypeOK, PlaceOK, R!Present
<1>3. CASE R!Unlink
  BY <1>3 DEF R!Unlink, RotationAssumption, R!TypeOK, PlaceOK, R!Present
<1>4. CASE R!Rename
  <2>1. /\ i \in 2..N /\ i' = i - 1 /\ UNCHANGED <<cur, begun, full, kills>>
        /\ step = "rename" /\ step' = IF i - 1 > 1 THEN "unlink" ELSE "unlinkFirst"
    BY <1>4, RenameFacts
  <2>2. CASE old' = old /\ renameFaults < MaxRenameFaults /\ renameFaults' = renameFaults + 1
    BY <2>1, <2>2 DEF RotationAssumption, R!TypeOK, PlaceOK, R!Present
  <2>3. CASE /\ DOMAIN old' = Slots /\ renameFaults' = renameFaults
             /\ \A k \in Slots : old'[k] = IF k = i - 1 THEN old[i - 2]
                                           ELSE IF k = i - 2 THEN 0 ELSE old[k]
    <3>1. i - 1 \in Slots /\ i - 2 \in Slots
      BY <2>1 DEF Slots, RotationAssumption
    <3>2. R!TypeOK'
      BY <2>1, <2>3, <3>1 DEF RotationAssumption, R!TypeOK, Slots
    <3>3. R!Present' \subseteq R!Present
      BY <2>1, <2>3, <3>1 DEF R!TypeOK, R!Present, Slots
    <3>4. QED
      BY <2>1, <3>2, <3>3 DEF PlaceOK, RotationAssumption
  <2>4. QED
    BY <1>4, <2>2, <2>3, RenameFacts
<1>5. CASE R!UnlinkFirst
  BY <1>5 DEF R!UnlinkFirst, RotationAssumption, R!TypeOK, PlaceOK, R!Present
<1>6. CASE R!RenameFile
  <2>1. UNCHANGED <<begun, full, i, kills>> /\ step = "renameFile" /\ step' = "open"
    BY <1>6, RenameFileFacts
  <2>2. CASE /\ old' = old /\ cur' = cur
             /\ renameFaults < MaxRenameFaults /\ renameFaults' = renameFaults + 1
    BY <2>1, <2>2 DEF RotationAssumption, R!TypeOK, PlaceOK, R!Present
  <2>3. CASE /\ DOMAIN old' = Slots /\ cur' = 0 /\ renameFaults' = renameFaults
             /\ \A k \in Slots : old'[k] = IF k = 0 THEN cur ELSE old[k]
    <3>1. R!TypeOK'
      BY <2>1, <2>3 DEF RotationAssumption, R!TypeOK, Slots
    <3>2. R!Present' \subseteq R!Present
      BY <2>1, <2>3 DEF R!TypeOK, R!Present, Slots
    <3>3. QED
      BY <2>1, <3>1, <3>2 DEF PlaceOK
  <2>4. QED
    BY <1>6, <2>2, <2>3, RenameFileFacts
<1>7. CASE R!Open
  <2>1. R!TypeOK'
    <3>1. /\ begun < MaxFiles /\ begun' = begun + 1 /\ cur' = begun + 1 /\ full' = FALSE
          /\ step' = "write" /\ UNCHANGED <<old, i, kills, renameFaults>>
      BY <1>7 DEF R!Open
    <3>2. begun' \in 0..MaxFiles /\ cur' \in 0..MaxFiles
      BY <3>1 DEF R!TypeOK, RotationAssumption
    <3>3. QED
      BY <3>1, <3>2 DEF R!TypeOK
  <2>2. R!Present' \subseteq R!Present \cup {begun + 1}
    BY <1>7 DEF R!Open, R!Present
  <2>3. begun \in Nat /\ \A g \in R!Present : g \in Nat /\ g <= begun
    BY DEF R!TypeOK, R!Present, PlaceOK, RotationAssumption
  <2>4. \A g \in R!Present' : g <= begun'
    BY <1>7, <2>2, <2>3 DEF R!Open
  <2>5. QED
    BY <1>7, <2>1, <2>4 DEF R!Open, PlaceOK
<1>8. CASE R!Kill
  BY <1>8 DEF R!Kill, RotationAssumption, R!TypeOK, PlaceOK, R!Present
<1>9. CASE R!Restart
  BY <1>9 DEF R!Restart, RotationAssumption, R!TypeOK, PlaceOK, R!Present
<1>10. QED
  BY <1>1, <1>2, <1>3, <1>4, <1>5, <1>6, <1>7, <1>8, <1>9 DEF R!Next

(* Every other step leaves the logs that are there. *)
LEMMA PresentKept ==
  ASSUME RotationAssumption, R!TypeOK, PlaceOK, R!Next, ~ (R!Unlink \/ R!UnlinkFirst \/ R!Open)
  PROVE  R!Present \subseteq R!Present'
<1>1. CASE R!Rename
  <2>1. i \in 2..N /\ cur' = cur /\ old[i - 1] = 0
    BY <1>1, RenameFacts DEF PlaceOK
  <2>2. CASE old' = old
    BY <2>1, <2>2 DEF R!Present
  <2>3. CASE /\ DOMAIN old' = Slots
             /\ \A k \in Slots : old'[k] = IF k = i - 1 THEN old[i - 2]
                                           ELSE IF k = i - 2 THEN 0 ELSE old[k]
    <3>1. i - 1 \in Slots /\ i - 2 \in Slots /\ i - 1 # i - 2 /\ DOMAIN old = Slots
      BY <2>1 DEF Slots, RotationAssumption, R!TypeOK
    <3>2. QED
      BY <2>1, <2>3, <3>1 DEF R!Present
  <2>4. QED
    BY <1>1, <2>2, <2>3, RenameFacts
<1>2. CASE R!RenameFile
  <2>1. old[0] = 0 /\ DOMAIN old = Slots /\ 0 \in Slots
    BY <1>2 DEF PlaceOK, R!RenameFile, R!TypeOK, Slots, RotationAssumption
  <2>2. CASE old' = old /\ cur' = cur
    BY <2>2 DEF R!Present
  <2>3. CASE /\ DOMAIN old' = Slots /\ cur' = 0
             /\ \A k \in Slots : old'[k] = IF k = 0 THEN cur ELSE old[k]
    BY <2>1, <2>3 DEF R!Present
  <2>4. QED
    BY <1>2, <2>2, <2>3, RenameFileFacts
<1>3. CASE R!Write \/ R!Rotate \/ R!Kill \/ R!Restart
  BY <1>3 DEF R!Write, R!Rotate, R!Kill, R!Restart, R!Present
<1>4. QED
  BY <1>1, <1>2, <1>3 DEF R!Next

LEMMA LogsOfStep ==
  ASSUME RotationAssumption, R!TypeOK, R!TypeOK', PlaceOK, R!Next
  PROVE  /\ Logs \in Nat /\ Logs' \in Nat
         /\ R!Unlink => Logs' >= Logs - 1 /\ (old[i - 1] = 0 => Logs' >= Logs)
         /\ R!UnlinkFirst => Logs' >= Logs - 1 /\ (old[0] = 0 => Logs' >= Logs)
         /\ R!Open => Logs' >= Logs /\ (cur = 0 => Logs' >= Logs + 1)
         /\ ~ (R!Unlink \/ R!UnlinkFirst \/ R!Open) => Logs' >= Logs
<1>1. R!Present \in SUBSET (0..MaxFiles) /\ R!Present' \in SUBSET (0..MaxFiles)
  BY DEF R!TypeOK, R!Present
<1>2. IsFiniteSet(R!Present) /\ IsFiniteSet(R!Present') /\ Logs \in Nat /\ Logs' \in Nat
  BY <1>1, LogsFinite DEF Logs
<1>3. ASSUME R!Unlink PROVE Logs' >= Logs - 1 /\ (old[i - 1] = 0 => Logs' >= Logs)
  <2>1. R!Present \ {old[i - 1]} \subseteq R!Present'
    BY <1>3 DEF R!Unlink, R!Present
  <2>2. old[i - 1] = 0 => old[i - 1] \notin R!Present
    BY DEF R!Present
  <2>3. QED
    BY <1>2, <2>1, <2>2, OneGoes DEF Logs
<1>4. ASSUME R!UnlinkFirst PROVE Logs' >= Logs - 1 /\ (old[0] = 0 => Logs' >= Logs)
  <2>1. R!Present \ {old[0]} \subseteq R!Present'
    BY <1>4 DEF R!UnlinkFirst, R!Present
  <2>2. old[0] = 0 => old[0] \notin R!Present
    BY DEF R!Present
  <2>3. QED
    BY <1>2, <2>1, <2>2, OneGoes DEF Logs
<1>5. ASSUME R!Open PROVE Logs' >= Logs /\ (cur = 0 => Logs' >= Logs + 1)
  <2>1. (R!Present \ {cur}) \cup {begun + 1} \subseteq R!Present'
    BY <1>5 DEF R!Open, R!Present, R!TypeOK
  <2>2. cur = 0 => cur \notin R!Present
    BY DEF R!Present
  <2>3. begun + 1 \notin R!Present
    <3>1. begun \in Nat /\ ~ (begun + 1 <= begun)
      BY DEF R!TypeOK, RotationAssumption
    <3>2. QED
      BY <3>1 DEF PlaceOK
  <2>4. QED
    BY <1>2, <2>1, <2>2, <2>3, OneBegins DEF Logs
<1>6. ASSUME ~ (R!Unlink \/ R!UnlinkFirst \/ R!Open) PROVE Logs' >= Logs
  BY <1>2, <1>6, PresentKept, FS_Subset DEF Logs
<1>7. QED
  BY <1>2, <1>3, <1>4, <1>5, <1>6

LEMMA CountedStep ==
  ASSUME RotationAssumption, Counted, R!Next
  PROVE  Counted'
<1>1. R!TypeOK /\ PlaceOK /\ R!TypeOK' /\ PlaceOK'
  BY RotationTyped DEF Counted
<1>2. /\ Logs \in Nat /\ Logs' \in Nat
      /\ R!Unlink => Logs' >= Logs - 1 /\ (old[i - 1] = 0 => Logs' >= Logs)
      /\ R!UnlinkFirst => Logs' >= Logs - 1 /\ (old[0] = 0 => Logs' >= Logs)
      /\ R!Open => Logs' >= Logs /\ (cur = 0 => Logs' >= Logs + 1)
      /\ ~ (R!Unlink \/ R!UnlinkFirst \/ R!Open) => Logs' >= Logs
  BY <1>1, LogsOfStep
(* The numbers before and after the step, as constants: logs, ends of the process,     *)
(* failed renames, logs begun, their sum and what is left of it after the next call.   *)
<1>3. PICK l \in Nat, l1 \in Nat, k0 \in Nat, k1 \in Nat, f \in Nat, f1 \in Nat, g \in Nat, g1 \in Nat,
           n \in Nat \ {0}, j \in Nat \ {0} :
        /\ l = Logs /\ l1 = Logs' /\ k0 = kills /\ k1 = kills' /\ f = renameFaults /\ f1 = renameFaults'
        /\ g = begun /\ g1 = begun' /\ n = N /\ j = i
  BY <1>1, <1>2 DEF R!TypeOK, RotationAssumption
<1>4. PICK s \in Nat, s1 \in Nat : s = Spared /\ s1 = Spared' /\ s = l + k0 + f /\ s1 = l1 + k1 + f1
  <2>1. Spared = l + k0 + f /\ Spared' = l1 + k1 + f1
    BY <1>3 DEF Spared
  <2>2. l + k0 + f \in Nat /\ l1 + k1 + f1 \in Nat
    OBVIOUS
  <2>3. QED
    BY <2>1, <2>2
<1>5. PICK r \in Int, r1 \in Int :
        /\ r = Room /\ r1 = Room'
        /\ r = (IF Doomed THEN s - 1 ELSE s) /\ r1 = (IF Doomed' THEN s1 - 1 ELSE s1)
  BY <1>4 DEF Room
<1>6. r <= s /\ DOMAIN old = Slots /\ \A k \in Slots : k \in Nat /\ k <= n - 1
  BY <1>1, <1>3, <1>5 DEF R!TypeOK, Slots
<1>7. /\ step \in {"write", "stopped"} =>
           s >= Least(g, n + 1) /\ \A k \in Slots : old[k] # 0 => s >= k + 2
      /\ step \notin {"write", "stopped"} =>
           /\ r + 1 >= Least(g + 1, n + 1)
           /\ \A k \in Slots : old[k] # 0 => r >= k + 1
           /\ step \in {"unlink", "rename"} => \A k \in Slots : old[k] # 0 /\ k < j - 1 => r >= k + 2
  BY <1>3, <1>4, <1>5 DEF Counted, Between, Within
<1>8. SUFFICES /\ step' \in {"write", "stopped"} =>
                    s1 >= Least(g1, n + 1) /\ \A k \in Slots : old'[k] # 0 => s1 >= k + 2
               /\ step' \notin {"write", "stopped"} =>
                    /\ r1 + 1 >= Least(g1 + 1, n + 1)
                    /\ \A k \in Slots : old'[k] # 0 => r1 >= k + 1
                    /\ step' \in {"unlink", "rename"} =>
                         \A k \in Slots : old'[k] # 0 /\ k < i' - 1 => r1 >= k + 2
  BY <1>1, <1>3, <1>4, <1>5 DEF Counted, Between, Within, Slots
<1>9. ASSUME g1 = g, r1 >= r, r + 1 >= Least(g + 1, n + 1)
      PROVE  r1 + 1 >= Least(g1 + 1, n + 1)
  BY <1>9 DEF Least
<1>10. ASSUME g1 = g, s1 >= s, s >= Least(g, n + 1)
       PROVE  s1 >= Least(g1, n + 1)
  BY <1>10 DEF Least
<1>11. CASE R!Write
  <2>1. UNCHANGED <<old, begun, kills, renameFaults>> /\ step' = "write" /\ step = "write"
    BY <1>11 DEF R!Write
  <2>2. l1 >= l /\ k1 = k0 /\ f1 = f /\ g1 = g
    BY <1>2, <1>3, <1>11, <2>1 DEF R!Write, R!Unlink, R!UnlinkFirst, R!Open
  <2>3. s1 >= s
    BY <1>4, <2>2
  <2>4. ASSUME NEW k \in Slots, old'[k] # 0 PROVE s1 >= k + 2
    BY <1>6, <1>7, <2>1, <2>3, <2>4
  <2>5. QED
    BY <1>7, <1>10, <2>1, <2>2, <2>3, <2>4
<1>12. CASE R!Rotate
  <2>1. /\ step = "write" /\ i' = N /\ step' = (IF N > 1 THEN "unlink" ELSE "unlinkFirst")
        /\ UNCHANGED <<old, cur, begun, full, kills, renameFaults>>
    BY <1>12 DEF R!Rotate
  <2>2. l1 >= l /\ k1 = k0 /\ f1 = f /\ g1 = g
    BY <1>2, <1>3, <1>12, <2>1 DEF R!Rotate, R!Unlink, R!UnlinkFirst, R!Open
  <2>3. s1 >= s
    BY <1>4, <2>2
  <2>4. s >= Least(g, n + 1) /\ \A k \in Slots : old[k] # 0 => s >= k + 2
    BY <1>7, <2>1
  <2>5. CASE Doomed'
    <3>1. old[n - 1] # 0
      <4>1. CASE n > 1
        BY <1>3, <2>1, <2>5, <4>1 DEF Doomed
      <4>2. CASE ~ (n > 1)
        <5>1. n - 1 = 0 /\ step' = "unlinkFirst"
          BY <1>3, <2>1, <4>2
        <5>2. QED
          BY <2>1, <2>5, <5>1 DEF Doomed
      <4>3. QED
        BY <4>1, <4>2
    <3>2. n - 1 \in Slots
      BY <1>3 DEF Slots
    <3>3. s >= (n - 1) + 2
      BY <2>4, <3>1, <3>2
    <3>4. r1 >= n
      BY <1>5, <2>3, <2>5, <3>3
    <3>5. r1 + 1 >= Least(g1 + 1, n + 1)
      BY <3>4 DEF Least
    <3>6. ASSUME NEW k \in Slots PROVE r1 >= k + 1 /\ (k < n - 1 => r1 >= k + 2)
      BY <1>6, <3>4
    <3>7. QED
      BY <1>3, <2>1, <3>5, <3>6
  <2>6. CASE ~ Doomed'
    <3>1. r1 >= s
      BY <1>5, <2>3, <2>6
    <3>2. r1 + 1 >= Least(g1 + 1, n + 1)
      BY <2>2, <2>4, <3>1 DEF Least
    <3>3. ASSUME NEW k \in Slots, old'[k] # 0 PROVE r1 >= k + 1 /\ r1 >= k + 2
      BY <1>6, <2>1, <2>4, <3>1, <3>3
    <3>4. QED
      BY <2>1, <3>2, <3>3
  <2>7. QED
    BY <2>5, <2>6
<1>13. CASE R!Unlink
  <2>1. /\ step = "unlink" /\ step' = "rename" /\ old' = [old EXCEPT ![i - 1] = 0]
        /\ UNCHANGED <<cur, begun, full, i, kills, renameFaults>>
    BY <1>13 DEF R!Unlink
  <2>2. k1 = k0 /\ f1 = f /\ g1 = g
    BY <1>3, <2>1
  <2>3. (Doomed <=> old[i - 1] # 0) /\ ~ Doomed'
    BY <2>1 DEF Doomed
  <2>4. l1 >= l - 1 /\ (~ Doomed => l1 >= l)
    BY <1>2, <1>3, <1>13, <2>3
  <2>5. r1 >= r
    BY <1>4, <1>5, <2>2, <2>3, <2>4
  <2>6. ASSUME NEW k \in Slots, old'[k] # 0 PROVE r1 >= k + 1 /\ (k < i' - 1 => r1 >= k + 2)
    <3>1. old[k] # 0
      BY <1>6, <2>1, <2>6
    <3>2. r >= k + 1 /\ (k < i' - 1 => r >= k + 2)
      BY <1>3, <1>7, <2>1, <3>1
    <3>3. QED
      BY <1>6, <2>5, <3>2
  <2>7. r1 + 1 >= Least(g1 + 1, n + 1)
    BY <1>7, <1>9, <2>1, <2>2, <2>5
  <2>8. QED
    BY <2>1, <2>6, <2>7
<1>14. CASE R!Rename
  <2>1. /\ i \in 2..N /\ i' = i - 1 /\ UNCHANGED <<cur, begun, full, kills>>
        /\ step = "rename" /\ step' = (IF i - 1 > 1 THEN "unlink" ELSE "unlinkFirst")
    BY <1>1, <1>14, RenameFacts
  <2>2. old[i - 1] = 0 /\ l1 >= l /\ k1 = k0 /\ g1 = g
    BY <1>1, <1>2, <1>3, <1>14, <2>1 DEF R!Unlink, R!UnlinkFirst, R!Open, PlaceOK
  <2>3. /\ r = s /\ r + 1 >= Least(g + 1, n + 1) /\ \A k \in Slots : old[k] # 0 => r >= k + 1
        /\ \A k \in Slots : old[k] # 0 /\ k < j - 1 => r >= k + 2
    BY <1>5, <1>7, <2>1 DEF Doomed
  <2>4. i - 1 \in Slots /\ i - 2 \in Slots /\ j >= 2
    BY <1>3, <2>1 DEF Slots
  <2>5. CASE /\ DOMAIN old' = Slots /\ renameFaults' = renameFaults
             /\ \A k \in Slots : old'[k] = IF k = i - 1 THEN old[i - 2]
                                           ELSE IF k = i - 2 THEN 0 ELSE old[k]
    <3>1. s1 >= s
      <4>1. f1 = f
        BY <1>3, <2>5
      <4>2. QED
        BY <1>4, <2>2, <4>1
    <3>2. ~ Doomed'
      <4>1. old'[i - 2] = 0
        BY <1>3, <2>4, <2>5
      <4>2. CASE j - 1 > 1
        <5>1. i' - 1 = i - 2 /\ step' = "unlink"
          BY <1>3, <2>1, <4>2
        <5>2. QED
          BY <4>1, <5>1 DEF Doomed
      <4>3. CASE ~ (j - 1 > 1)
        <5>1. i - 2 = 0 /\ step' = "unlinkFirst"
          BY <1>3, <2>1, <2>4, <4>3
        <5>2. QED
          BY <4>1, <5>1 DEF Doomed
      <4>4. QED
        BY <4>2, <4>3
    <3>3. r1 >= r
      BY <1>5, <2>3, <3>1, <3>2
    <3>4. ASSUME NEW k \in Slots, old'[k] # 0 PROVE r1 >= k + 1 /\ (k < i' - 1 => r1 >= k + 2)
      <4>1. CASE k = i - 1
        <5>1. old[i - 2] # 0
          BY <2>4, <2>5, <3>4, <4>1
        <5>2. i - 2 < j - 1
          BY <1>3
        <5>3. r >= (j - 2) + 2
          BY <1>3, <2>3, <2>4, <5>1, <5>2
        <5>4. k = j - 1 /\ i' - 1 = j - 2
          BY <1>3, <2>1, <4>1
        <5>5. QED
          BY <3>3, <5>3, <5>4
      <4>2. CASE k # i - 1
        <5>1. old[k] # 0
          BY <2>4, <2>5, <3>4, <4>2
        <5>2. r >= k + 1 /\ (k < j - 1 => r >= k + 2)
          BY <2>3, <5>1
        <5>3. i' - 1 = j - 2
          BY <1>3, <2>1
        <5>4. QED
          BY <1>6, <3>3, <5>2, <5>3
      <4>3. QED
        BY <4>1, <4>2
    <3>5. r1 + 1 >= Least(g1 + 1, n + 1)
      BY <1>9, <2>2, <2>3, <3>3
    <3>6. QED
      BY <2>1, <3>4, <3>5
  <2>6. CASE old' = old /\ renameFaults' = renameFaults + 1
    <3>1. f1 = f + 1
      BY <1>3, <2>6
    <3>2. s1 >= s + 1
      BY <1>4, <2>2, <3>1
    <3>3. r1 >= r
      BY <1>5, <2>3, <3>2
    <3>4. ASSUME NEW k \in Slots, old'[k] # 0 PROVE r1 >= k + 1 /\ (k < i' - 1 => r1 >= k + 2)
      <4>1. r >= k + 1 /\ (k < j - 1 => r >= k + 2)
        BY <2>3, <2>6, <3>4
      <4>2. i' - 1 = j - 2
        BY <1>3, <2>1
      <4>3. QED
        BY <1>6, <3>3, <4>1, <4>2
    <3>5. r1 + 1 >= Least(g1 + 1, n + 1)
      BY <1>9, <2>2, <2>3, <3>3
    <3>6. QED
      BY <2>1, <3>4, <3>5
  <2>7. QED
    BY <1>1, <1>14, <2>5, <2>6, RenameFacts
<1>15. CASE R!UnlinkFirst
  <2>1. /\ step = "unlinkFirst" /\ step' = "renameFile" /\ old' = [old EXCEPT ![0] = 0]
        /\ UNCHANGED <<cur, begun, full, i, kills, renameFaults>>
    BY <1>15 DEF R!UnlinkFirst
  <2>2. k1 = k0 /\ f1 = f /\ g1 = g
    BY <1>3, <2>1
  <2>3. (Doomed <=> old[0] # 0) /\ ~ Doomed'
    BY <2>1 DEF Doomed
  <2>4. l1 >= l - 1 /\ (~ Doomed => l1 >= l)
    BY <1>2, <1>3, <1>15, <2>3
  <2>5. r1 >= r
    BY <1>4, <1>5, <2>2, <2>3, <2>4
  <2>6. ASSUME NEW k \in Slots, old'[k] # 0 PROVE r1 >= k + 1
    <3>1. old[k] # 0
      BY <1>6, <2>1, <2>6
    <3>2. r >= k + 1
      BY <1>7, <2>1, <3>1
    <3>3. QED
      BY <1>6, <2>5, <3>2
  <2>7. r1 + 1 >= Least(g1 + 1, n + 1)
    BY <1>7, <1>9, <2>1, <2>2, <2>5
  <2>8. QED
    BY <2>1, <2>6, <2>7
<1>16. CASE R!RenameFile
  <2>1. UNCHANGED <<begun, full, i, kills>> /\ step = "renameFile" /\ step' = "open"
    BY <1>1, <1>16, RenameFileFacts
  <2>2. l1 >= l /\ k1 = k0 /\ g1 = g
    BY <1>2, <1>3, <1>16, <2>1 DEF R!Unlink, R!UnlinkFirst, R!Open
  <2>3. r = s /\ r + 1 >= Least(g + 1, n + 1) /\ \A k \in Slots : old[k] # 0 => r >= k + 1
    BY <1>5, <1>7, <2>1 DEF Doomed
  <2>4. CASE /\ DOMAIN old' = Slots /\ cur' = 0 /\ renameFaults' = renameFaults
             /\ \A k \in Slots : old'[k] = IF k = 0 THEN cur ELSE old[k]
    <3>1. s1 >= s /\ ~ Doomed'
      <4>1. f1 = f
        BY <1>3, <2>4
      <4>2. s1 >= s
        BY <1>4, <2>2, <4>1
      <4>3. QED
        BY <2>1, <2>4, <4>2 DEF Doomed
    <3>2. r1 >= r
      BY <1>5, <2>3, <3>1
    <3>3. ASSUME NEW k \in Slots, old'[k] # 0 PROVE r1 >= k + 1
      <4>1. CASE k = 0
        <5>1. cur # 0
          BY <2>4, <3>3, <4>1
        <5>2. cur \in R!Present /\ cur \in Nat
          BY <1>1, <5>1 DEF R!Present, R!TypeOK, RotationAssumption
        <5>3. cur <= g
          BY <1>1, <1>3, <5>2 DEF PlaceOK
        <5>4. r >= 1
          BY <2>3, <5>1, <5>2, <5>3 DEF Least
        <5>5. QED
          BY <3>2, <4>1, <5>4
      <4>2. CASE k # 0
        <5>1. r >= k + 1
          BY <2>3, <2>4, <3>3, <4>2
        <5>2. QED
          BY <1>6, <3>2, <5>1
      <4>3. QED
        BY <4>1, <4>2
    <3>4. r1 + 1 >= Least(g1 + 1, n + 1)
      BY <1>9, <2>2, <2>3, <3>2
    <3>5. QED
      BY <2>1, <3>3, <3>4
  <2>5. CASE old' = old /\ cur' = cur /\ renameFaults' = renameFaults + 1
    <3>1. f1 = f + 1
      BY <1>3, <2>5
    <3>2. s1 >= s + 1
      BY <1>4, <2>2, <3>1
    <3>3. r1 >= r
      BY <1>5, <2>3, <3>2
    <3>4. ASSUME NEW k \in Slots, old'[k] # 0 PROVE r1 >= k + 1
      BY <1>6, <2>3, <2>5, <3>3, <3>4
    <3>5. r1 + 1 >= Least(g1 + 1, n + 1)
      BY <1>9, <2>2, <2>3, <3>3
    <3>6. QED
      BY <2>1, <3>4, <3>5
  <2>6. QED
    BY <1>1, <1>16, <2>4, <2>5, RenameFileFacts
<1>17. CASE R!Open
  <2>1. /\ step = "open" /\ step' = "write" /\ begun' = begun + 1
        /\ UNCHANGED <<old, i, kills, renameFaults>>
    BY <1>17 DEF R!Open
  <2>2. k1 = k0 /\ f1 = f /\ g1 = g + 1
    BY <1>3, <2>1
  <2>3. Doomed <=> cur # 0
    BY <2>1 DEF Doomed
  <2>4. l1 >= l /\ (~ Doomed => l1 >= l + 1)
    BY <1>2, <1>3, <1>17, <2>3
  <2>5. s1 >= r + 1
    BY <1>4, <1>5, <2>2, <2>4
  <2>6. s1 >= Least(g1, n + 1)
    BY <1>7, <2>1, <2>2, <2>5 DEF Least
  <2>7. ASSUME NEW k \in Slots, old'[k] # 0 PROVE s1 >= k + 2
    BY <1>6, <1>7, <2>1, <2>5, <2>7
  <2>8. QED
    BY <2>1, <2>6, <2>7
<1>18. CASE R!Kill
  <2>1. /\ step # "stopped" /\ step' = "stopped" /\ kills' = kills + 1
        /\ UNCHANGED <<old, cur, begun, full, i, renameFaults>>
    BY <1>18 DEF R!Kill
  <2>2. k1 = k0 + 1 /\ f1 = f /\ g1 = g
    BY <1>3, <2>1
  <2>3. l1 >= l
    BY <1>2, <1>3, <1>18 DEF R!Kill, R!Unlink, R!UnlinkFirst, R!Open
  <2>4. s1 >= s + 1
    BY <1>4, <2>2, <2>3
  <2>5. s1 >= Least(g1, n + 1)
    BY <1>6, <1>7, <2>1, <2>2, <2>4 DEF Least
  <2>6. ASSUME NEW k \in Slots, old'[k] # 0 PROVE s1 >= k + 2
    <3>1. r >= k + 1 \/ s >= k + 2
      BY <1>7, <2>1, <2>6
    <3>2. QED
      BY <1>6, <2>4, <3>1
  <2>7. QED
    BY <2>1, <2>5, <2>6
<1>19. CASE R!Restart
  <2>1. /\ step = "stopped" /\ step' = (IF cur = 0 THEN "open" ELSE "write")
        /\ UNCHANGED <<old, cur, begun, full, i, kills, renameFaults>>
    BY <1>19 DEF R!Restart
  <2>2. l1 >= l /\ k1 = k0 /\ f1 = f /\ g1 = g
    BY <1>2, <1>3, <1>19, <2>1 DEF R!Restart, R!Unlink, R!UnlinkFirst, R!Open
  <2>3. s1 >= s
    BY <1>4, <2>2
  <2>4. s1 >= Least(g1, n + 1)
    BY <1>7, <1>10, <2>1, <2>2, <2>3
  <2>5. ASSUME NEW k \in Slots, old'[k] # 0 PROVE s1 >= k + 2 /\ s1 >= k + 1
    BY <1>6, <1>7, <2>1, <2>3, <2>5
  <2>6. CASE cur # 0
    BY <2>1, <2>4, <2>5, <2>6
  <2>7. CASE cur = 0
    <3>1. r1 = s1
      BY <1>5, <2>1, <2>7 DEF Doomed
    <3>2. r1 + 1 >= Least(g1 + 1, n + 1)
      BY <2>4, <3>1 DEF Least
    <3>3. QED
      BY <2>1, <2>5, <2>7, <3>1, <3>2
  <2>8. QED
    BY <2>6, <2>7
<1>20. QED
  BY <1>11, <1>12, <1>13, <1>14, <1>15, <1>16, <1>17, <1>18, <1>19 DEF R!Next

(* The logs are in order: older ones in higher slots, and the next call of a rotation   *)
(* destroys only the oldest, unless a rename failed.                                    *)
InOrder ==
  /\ \A k, m \in Slots : k < m /\ old[m] # 0 /\ old[k] # 0 => old[m] < old[k]
  /\ cur # 0 => \A k \in Slots : old[k] < cur
  /\ step \notin {"open", "stopped"} => cur # 0
  /\ renameFaults = 0 =>
       /\ step = "unlink" /\ i < N => old[i - 1] = 0
       /\ step = "unlinkFirst" /\ N > 1 => old[0] = 0
       /\ step = "open" => cur = 0

LEMMA InOrderStep ==
  ASSUME RotationAssumption, R!TypeOK, PlaceOK, InOrder, R!Next
  PROVE  InOrder'
<1>1. /\ DOMAIN old = Slots /\ N \in Nat \ {0} /\ renameFaults \in Nat /\ 0 \in Slots
      /\ \A k \in Slots : k \in Nat /\ k <= N - 1 /\ old[k] \in Nat
  BY DEF R!TypeOK, RotationAssumption, Slots
<1>2. \A k \in Slots : old[k] <= begun
  <2>1. \A k \in Slots : old[k] # 0 => old[k] \in R!Present
    BY <1>1 DEF R!Present
  <2>2. begun \in Nat
    BY DEF R!TypeOK, RotationAssumption
  <2>3. QED
    BY <1>1, <2>1, <2>2 DEF PlaceOK
<1>3. CASE R!Write \/ R!Kill \/ R!Restart
  <2>1. UNCHANGED <<old, cur, i, renameFaults>>
    BY <1>3 DEF R!Write, R!Kill, R!Restart
  <2>2. \/ step' = step \/ step' = "stopped"
        \/ step' = (IF cur = 0 THEN "open" ELSE "write")
    BY <1>3 DEF R!Write, R!Kill, R!Restart
  <2>3. QED
    BY <2>1, <2>2 DEF InOrder, Slots
<1>4. CASE R!Rotate
  <2>1. /\ step = "write" /\ i' = N /\ step' = (IF N > 1 THEN "unlink" ELSE "unlinkFirst")
        /\ UNCHANGED <<old, cur, renameFaults>>
    BY <1>4 DEF R!Rotate
  <2>2. QED
    BY <1>1, <2>1 DEF InOrder, Slots
<1>5. CASE R!Unlink \/ R!UnlinkFirst
  <2>1. /\ step \in {"unlink", "unlinkFirst"} /\ step' \in {"rename", "renameFile"}
        /\ DOMAIN old' = Slots /\ \A k \in Slots : old'[k] \in {0, old[k]}
        /\ UNCHANGED <<cur, i, renameFaults>>
    BY <1>1, <1>5 DEF R!Unlink, R!UnlinkFirst
  <2>2. cur # 0
    BY <2>1 DEF InOrder
  <2>3. cur \in Nat
    BY DEF R!TypeOK, RotationAssumption
  <2>4. \A k \in Slots : old'[k] < cur
    BY <2>1, <2>2, <2>3 DEF InOrder
  <2>5. \A k, m \in Slots : k < m /\ old'[m] # 0 /\ old'[k] # 0 => old'[m] < old'[k]
    BY <2>1 DEF InOrder
  <2>6. QED
    BY <2>1, <2>2, <2>4, <2>5 DEF InOrder, Slots
<1>6. CASE R!Rename
  <2>1. /\ i \in 2..N /\ i' = i - 1 /\ UNCHANGED cur
        /\ step = "rename" /\ step' = IF i - 1 > 1 THEN "unlink" ELSE "unlinkFirst"
    BY <1>6, RenameFacts
  <2>2. PICK n \in Nat, j \in Nat : n = N /\ j = i /\ j >= 2 /\ j <= n
    BY <1>1, <2>1
  <2>3. i - 1 \in Slots /\ i - 2 \in Slots /\ cur # 0
    BY <2>1, <2>2 DEF Slots, InOrder
  <2>4. CASE /\ DOMAIN old' = Slots /\ renameFaults' = renameFaults
             /\ \A k \in Slots : old'[k] = IF k = i - 1 THEN old[i - 2]
                                           ELSE IF k = i - 2 THEN 0 ELSE old[k]
    <3>1. \A k \in Slots : old'[k] < cur
      <4>1. cur \in Nat /\ 0 < cur
        BY <2>3 DEF R!TypeOK, RotationAssumption
      <4>2. \A k \in Slots : old[k] < cur
        BY <2>3 DEF InOrder
      <4>3. QED
        BY <2>3, <2>4, <4>1, <4>2
    <3>2. ASSUME NEW k \in Slots, NEW m \in Slots, k < m, old'[m] # 0, old'[k] # 0
          PROVE  old'[m] < old'[k]
      <4>1. k # j - 2 /\ m # j - 2 /\ old'[j - 2] = 0
        BY <2>2, <2>3, <2>4, <3>2
      <4>2. CASE m = j - 1
        <5>1. old'[m] = old[j - 2] /\ k # j - 1 /\ k < j - 2 /\ old'[k] = old[k] /\ j - 2 \in Slots
          BY <1>1, <2>2, <2>3, <2>4, <3>2, <4>1, <4>2
        <5>2. QED
          BY <3>2, <5>1 DEF InOrder
      <4>3. CASE k = j - 1
        <5>1. old'[k] = old[j - 2] /\ m # j - 1 /\ j - 2 < m /\ old'[m] = old[m] /\ j - 2 \in Slots
          BY <1>1, <2>2, <2>3, <2>4, <3>2, <4>1, <4>3
        <5>2. QED
          BY <3>2, <5>1 DEF InOrder
      <4>4. CASE m # j - 1 /\ k # j - 1
        BY <2>2, <2>4, <3>2, <4>1, <4>4 DEF InOrder
      <4>5. QED
        BY <4>2, <4>3, <4>4
    <3>3. old'[i - 2] = 0
      BY <2>2, <2>3, <2>4
    <3>4. step' = "unlink" => old'[i' - 1] = 0
      <4>1. i' - 1 = i - 2
        BY <2>1, <2>2
      <4>2. QED
        BY <3>3, <4>1
    <3>5. step' = "unlinkFirst" => old'[0] = 0
      <4>1. step' = "unlinkFirst" => i - 2 = 0
        BY <2>1, <2>2
      <4>2. QED
        BY <3>3, <4>1
    <3>6. QED
      BY <2>1, <2>3, <3>1, <3>2, <3>4, <3>5 DEF InOrder, Slots
  <2>5. CASE old' = old /\ renameFaults' = renameFaults + 1
    <3>1. renameFaults' # 0
      BY <1>1, <2>5
    <3>2. QED
      BY <2>1, <2>3, <2>5, <3>1 DEF InOrder, Slots
  <2>6. QED
    BY <1>6, <2>4, <2>5, RenameFacts
<1>7. CASE R!RenameFile
  <2>1. step = "renameFile" /\ step' = "open"
    BY <1>7, RenameFileFacts
  <2>2. cur # 0
    BY <2>1 DEF InOrder
  <2>3. CASE /\ DOMAIN old' = Slots /\ cur' = 0 /\ renameFaults' = renameFaults
             /\ \A k \in Slots : old'[k] = IF k = 0 THEN cur ELSE old[k]
    <3>1. ASSUME NEW k \in Slots, NEW m \in Slots, k < m, old'[m] # 0, old'[k] # 0
          PROVE  old'[m] < old'[k]
      <4>1. m # 0 /\ old'[m] = old[m]
        BY <1>1, <2>3, <3>1
      <4>2. old'[k] = (IF k = 0 THEN cur ELSE old[k])
        BY <2>3
      <4>3. QED
        BY <2>2, <3>1, <4>1, <4>2 DEF InOrder
    <3>2. QED
      BY <2>1, <2>3, <3>1 DEF InOrder, Slots
  <2>4. CASE /\ old' = old /\ cur' = cur /\ renameFaults' = renameFaults + 1
    <3>1. renameFaults' # 0
      BY <1>1, <2>4
    <3>2. QED
      BY <2>1, <2>4, <3>1 DEF InOrder, Slots
  <2>5. QED
    BY <1>7, <2>3, <2>4, RenameFileFacts
<1>8. CASE R!Open
  <2>1. step = "open" /\ step' = "write" /\ cur' = begun + 1 /\ UNCHANGED <<old, renameFaults>>
    BY <1>8 DEF R!Open
  <2>2. begun \in Nat
    BY DEF R!TypeOK, RotationAssumption
  <2>3. cur' # 0 /\ \A k \in Slots : old'[k] < cur'
    BY <1>1, <1>2, <2>1, <2>2
  <2>4. QED
    BY <2>1, <2>3 DEF InOrder, Slots
<1>9. QED
  BY <1>3, <1>4, <1>5, <1>6, <1>7, <1>8 DEF R!Next

(* A log that a step destroys is the oldest of those there are. *)
LEMMA OldestFirst ==
  ASSUME RotationAssumption, R!TypeOK, PlaceOK, InOrder, R!Next, renameFaults' = 0
  PROVE  \A g \in R!Present \ R!Present' : \A h \in R!Present : g <= h
<1>1. /\ DOMAIN old = Slots /\ N \in Nat \ {0} /\ renameFaults \in Nat /\ cur \in Nat
      /\ \A k \in Slots : k \in Nat /\ k <= N - 1 /\ old[k] \in Nat
  BY DEF R!TypeOK, RotationAssumption, Slots
<1>2. CASE R!Unlink \/ R!UnlinkFirst
  <2>1. PICK k \in Slots : old' = [old EXCEPT ![k] = 0] /\ (old[k] = 0 \/ k = N - 1)
    <3>1. CASE R!Unlink
      <4>1. /\ step = "unlink" /\ i - 1 \in Slots /\ old' = [old EXCEPT ![i - 1] = 0]
            /\ renameFaults' = renameFaults /\ i \in 1..N
        BY <1>1, <3>1 DEF R!Unlink, R!TypeOK, Slots
      <4>2. old[i - 1] = 0 \/ i = N
        BY <1>1, <4>1 DEF InOrder
      <4>3. QED
        BY <1>1, <4>1, <4>2
    <3>2. CASE R!UnlinkFirst
      <4>1. /\ step = "unlinkFirst" /\ 0 \in Slots /\ old' = [old EXCEPT ![0] = 0]
            /\ renameFaults' = renameFaults
        BY <1>1, <3>2 DEF R!UnlinkFirst, Slots
      <4>2. old[0] = 0 \/ N = 1
        BY <1>1, <4>1 DEF InOrder
      <4>3. 0 \in Slots /\ (N = 1 => 0 = N - 1)
        BY <4>1
      <4>4. QED
        BY <4>1, <4>2, <4>3
    <3>3. QED
      BY <1>2, <3>1, <3>2
  <2>2. cur # 0 /\ cur' = cur
    BY <1>2 DEF R!Unlink, R!UnlinkFirst, InOrder
  <2>3. SUFFICES ASSUME NEW g \in R!Present \ R!Present', NEW h \in R!Present
                 PROVE  g <= h
    OBVIOUS
  <2>4. g = old[k] /\ old[k] # 0 /\ k = N - 1
    BY <1>1, <2>1, <2>2 DEF R!Present
  <2>5. CASE h = cur
    BY <1>1, <2>2, <2>4, <2>5 DEF InOrder
  <2>6. CASE h # cur
    <3>1. PICK m \in Slots : h = old[m] /\ old[m] # 0
      BY <1>1, <2>6 DEF R!Present
    <3>2. m = k \/ m < k
      BY <1>1, <2>4
    <3>3. QED
      BY <1>1, <2>4, <3>1, <3>2 DEF InOrder
  <2>7. QED
    BY <2>5, <2>6
<1>3. CASE ~ (R!Unlink \/ R!UnlinkFirst)
  <2>1. CASE R!Open
    <3>1. cur = 0
      BY <2>1 DEF R!Open, InOrder
    <3>2. R!Present \subseteq R!Present'
      BY <2>1, <3>1 DEF R!Open, R!Present
    <3>3. QED
      BY <3>2
  <2>2. CASE ~ R!Open
    <3>1. R!Present \subseteq R!Present'
      BY <1>3, <2>2, PresentKept
    <3>2. QED
      BY <3>1
  <2>3. QED
    BY <2>1, <2>2
<1>4. QED
  BY <1>2, <1>3

-----------------------------------------------------------------------------
RotationOK == Counted /\ InOrder

LEMMA RotationBegins ==
  ASSUME RotationAssumption, R!Init
  PROVE  RotationOK
<1>1. /\ \A k \in Slots : old[k] = 0
      /\ cur = 0 /\ begun = 0 /\ step = "open" /\ i = 1 /\ kills = 0 /\ renameFaults = 0
  BY DEF R!Init, Slots
<1>2. R!Present = {}
  BY <1>1 DEF R!Init, R!Present
<1>3. R!TypeOK
  <2>1. 0 \in 0..MaxFiles /\ 0 \in 0..MaxKills /\ 0 \in 0..MaxRenameFaults /\ 1 \in 1..N
    BY DEF RotationAssumption
  <2>2. DOMAIN old = 0..(N - 1) /\ full \in BOOLEAN
    BY DEF R!Init
  <2>3. QED
    BY <1>1, <2>1, <2>2 DEF R!TypeOK, Slots
<1>4. PlaceOK
  BY <1>1, <1>2 DEF PlaceOK
<1>5. Logs = 0
  BY <1>2, FS_EmptySet DEF Logs
<1>6. Room = 0
  BY <1>1, <1>5 DEF Room, Spared, Doomed
<1>7. Least(1, N + 1) = 1
  BY DEF Least, RotationAssumption
<1>8. Within
  BY <1>1, <1>6, <1>7 DEF Within
<1>9. InOrder
  BY <1>1 DEF InOrder
<1>10. QED
  BY <1>1, <1>3, <1>4, <1>8, <1>9 DEF RotationOK, Counted

LEMMA RotationStep ==
  ASSUME RotationAssumption, RotationOK, R!Next
  PROVE  RotationOK'
BY CountedStep, InOrderStep DEF RotationOK, Counted

LEMMA RotationKept ==
  ASSUME RotationAssumption, RotationOK
  PROVE  R!TypeOK /\ R!Kept
<1>1. R!TypeOK
  BY DEF RotationOK, Counted
<1>2. step = "write" => Spared >= Least(begun, N + 1)
  BY DEF RotationOK, Counted, Between
<1>3. PICK n \in Nat, g \in Nat : n = N /\ g = begun
  BY <1>1 DEF R!TypeOK, RotationAssumption
<1>4. Least(g, n + 1) = IF g <= n THEN g ELSE n + 1
  BY DEF Least
<1>5. step = "write" => Cardinality(R!Present) + kills + renameFaults >= IF begun <= N THEN begun ELSE N + 1
  <2>1. Spared = Cardinality(R!Present) + kills + renameFaults
    BY DEF Spared, Logs
  <2>2. Least(begun, N + 1) = IF begun <= N THEN begun ELSE N + 1
    BY <1>3, <1>4
  <2>3. QED
    BY <1>2, <2>1, <2>2, Zenon
<1>6. R!Cardinality(R!Present) = Cardinality(R!Present)
  BY Zenon DEF R!Cardinality, Cardinality
<1>7. QED
  BY <1>1, <1>5, <1>6, Zenon DEF R!Kept

(* Whatever the number of logs that are kept, of ends of the process and of renames    *)
(* that fail: between rotations the last N + 1 logs are there, but for one per end of  *)
(* the process and one per failed rename, and while no rename has failed a log that    *)
(* disappears is the oldest. (LogThread::run)                                          *)
THEOREM RotationKeepsNewest ==
  ASSUME RotationAssumption
  PROVE  MCSpec => NewestKept
<1>1. MCInit => RotationOK
  BY RotationBegins DEF MCInit
<1>2. RotationOK /\ [MCNext]_<<vars, part, rotation, log>> => RotationOK'
  <2>1. SUFFICES ASSUME RotationOK, [MCNext]_<<vars, part, rotation, log>> PROVE RotationOK'
    OBVIOUS
  <2>2. R!Next \/ UNCHANGED rotation
    BY <2>1 DEF MCNext
  <2>3. CASE UNCHANGED rotation
    BY <2>1, <2>3 DEF rotation, RotationOK, Counted, InOrder, Between, Within, PlaceOK, Spared, Room, Doomed,
      Logs, R!Present, R!TypeOK
  <2>4. QED
    BY <2>1, <2>2, <2>3, RotationStep
<1>3. RotationOK => R!TypeOK /\ R!Kept
  BY RotationKept
<1>4. RotationOK /\ [MCNext]_<<vars, part, rotation, log>> =>
        [renameFaults' = 0 => \A g \in R!Present \ R!Present' : \A h \in R!Present : g <= h]_(R!vars)
  <2>1. [MCNext]_<<vars, part, rotation, log>> => [R!Next]_(R!vars)
    BY DEF MCNext, rotation, R!vars
  <2>2. RotationOK /\ R!Next =>
          (renameFaults' = 0 => \A g \in R!Present \ R!Present' : \A h \in R!Present : g <= h)
    BY OldestFirst DEF RotationOK, Counted
  <2>3. QED
    BY <2>1, <2>2
<1>5. QED
  BY <1>1, <1>2, <1>3, <1>4, PTL DEF MCSpec, NewestKept, R!OldestGoes
=============================================================================

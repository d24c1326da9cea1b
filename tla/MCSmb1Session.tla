---------------------------- MODULE MCSmb1Session ----------------------------
(* The scenarios of Smb1Session for TLC, and beside it an instance of      *)
(* AfpSession; an execution is of one of the two.                          *)
EXTENDS Smb1Session, TLC

Plain == [start |-> "mounted", share |-> "S", shares |-> {"S", "IPC$"},
          commands |-> {"ntcreate", "close", "read", "write"},
          requests |-> 5, window |-> 2, lost |-> 0, failures |-> {}, users |-> {"u"}, forms |-> {"auth"},
          names |-> {"a"}, to |-> {"b"}, habits |-> {}]
With(changes) == changes @@ Plain

(* Sessions and shares come and go, ids are used again. *)
Logins == With([start |-> "fresh", shares |-> {"S"}, commands |-> {"setup", "tcon", "ntcreate", "logoff"},
                failures |-> {"setup"}, users |-> {"u", "v"},
                forms |-> {"plain", "negotiate", "auth"}, requests |-> 4])
(* Two files, read and written with two requests under way. *)
Files == With([requests |-> 6, failures |-> {"read", "close"}, habits |-> {"short"}])
(* Directories and names; marks of deletion. *)
Directories == With([commands |-> {"mkdir", "rmdir", "remove", "rename", "ntcreate", "close"}, requests |-> 4,
                     names |-> {"a", "b"}, failures |-> {"mkdir", "rename"}, habits |-> {"directory"}])
Deletions == With([commands |-> {"ntcreate", "dispose", "close", "rename"}, requests |-> 4,
                   failures |-> {"dispose", "ntcreate"}, habits |-> {"directory", "delete"}])
(* The old commands. *)
Old == With([commands |-> {"create", "open", "close", "read", "dispose"}, requests |-> 4])
(* Ids used again, with a gap. *)
Repeated == With([commands |-> {"ntcreate", "remove", "close", "write"}, lost |-> 1, requests |-> 4,
                  habits |-> {"again"}])
(* More requests under way than are remembered. *)
Busy == With([window |-> 4, commands |-> {"ntcreate", "close", "read"}])
(* A capture that begins in the middle. *)
Joined == With([start |-> "joined", commands |-> {"setup", "tcon", "ntcreate", "close", "read", "logoff"},
                users |-> {"", "u"}])
Pipe == With([start |-> "joined", share |-> "IPC$", commands |-> {"setup", "tcon", "ntcreate", "close", "read"},
              requests |-> 4, names |-> {"a", "/srvsvc"}])
(* Shares that come and go, with a gap, their ids used again or not, and used by two users. *)
Mounts == With([commands |-> {"tcon", "tdis", "ntcreate", "close"}, lost |-> 1, requests |-> 4,
                shares |-> {"T", "IPC$"}])
Retried == With([commands |-> {"tcon", "ntcreate"}, lost |-> 1, shares |-> {"S", "T"}, requests |-> 4,
                 failures |-> {"tcon"}, habits |-> {"again"}])
Both == With([commands |-> {"setup", "ntcreate", "close", "read"}, users |-> {"v"}, habits |-> {"shared"}])
AllScenarios == {Logins, Files, Directories, Deletions, Old, Repeated, Busy, Joined, Pipe, Mounts, Retried, Both}

-----------------------------------------------------------------------------
CONSTANTS AfpUsers, AfpNames, Forks, Volume, MaxDid, NestLimit, MapSize, MapCount, AfpCases
VARIABLES part, afpTemp, loginName, volume, dirTable, isDirs, forkMap, afpEvents,
          afpScenario, user, mounted, tree, lastDid, forks, afpAsked, afpRequests, afpLost,
          seen, afpFacts, afpOdd
AfpScenarios == INSTANCE AfpScenarios
AllAfpScenarios == AfpScenarios!AllScenarios
A == INSTANCE AfpSession WITH
       Users <- AfpUsers, Names <- AfpNames, Scenarios <- AfpCases,
       temp <- afpTemp, events <- afpEvents, scenario <- afpScenario, asked <- afpAsked,
       requests <- afpRequests, lost <- afpLost, facts <- afpFacts, odd <- afpOdd
afp == <<afpTemp, loginName, volume, dirTable, isDirs, forkMap, afpEvents,
         afpScenario, user, mounted, tree, lastDid, forks, afpAsked, afpRequests, afpLost,
         seen, afpFacts, afpOdd>>

(* The ids of folders are given in increasing order.                       *)
ASSUME AfpAssumption ==
  /\ NestLimit \in Nat \ {0} /\ MapSize \in Nat \ {0} /\ MapCount \in Nat \ {0, 1}
  /\ MaxDid \in Nat \ {0, 1} /\ AfpUsers # {}
  /\ None \notin AfpUsers \cup AfpNames \cup Forks \cup {Volume}
  /\ \A s \in AfpCases :
       /\ s.start \in {"fresh", "mounted", "joined"} /\ s.requests \in Nat
       /\ s.users \subseteq AfpUsers /\ s.names \subseteq AfpNames
       /\ s.tree \subseteq [parent : 2..MaxDid, name : AfpNames, did : 0..MaxDid]
       /\ \A e \in s.tree :
            /\ e.did = 0 \/ e.parent < e.did
            /\ e.parent = 2 \/ \E x \in s.tree : x.did = e.parent
       /\ \A e, x \in s.tree : (e.did = x.did /\ e.did # 0) \/ (e.parent = x.parent /\ e.name = x.name) => e = x

MCInit ==
  /\ Init /\ A!Init
  /\ \/ part = "smb1" /\ afpScenario = (CHOOSE s \in AfpCases : TRUE)
     \/ part = "afp" /\ scenario = (CHOOSE s \in Scenarios : TRUE)
MCNext ==
  \/ part = "smb1" /\ Next /\ UNCHANGED <<part, afp>>
  \/ part = "afp" /\ A!Next /\ UNCHANGED <<part, vars>>
MCSpec == MCInit /\ [][MCNext]_<<vars, part, afp>>

(* What happened is reported, and nothing else, in the step in which the   *)
(* server's answer shows it, by the path it has on the server.             *)
(* (cw_analizer_smb.cpp on_smb_packet, cw_analizer_afp.cpp on_afp)         *)
Reported == Exact /\ A!Exact

(* What is missed takes reports or names away and adds none.               *)
(* (on_smb_packet, on_afp)                                                 *)
NoneInvented == NothingInvented /\ A!NothingInvented

(* The dispatchers' tables of files, trees, forks and folders are the      *)
(* server's. (on_smb_packet, on_afp)                                       *)
TablesInStep ==
  TypeOK /\ InStep /\ TreeNamed /\ A!TypeOK /\ A!InStep /\ A!FoldersNamed
=============================================================================

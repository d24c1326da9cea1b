---------------------------- MODULE MCSmb2Session ----------------------------
(* The scenarios of Smb2Session for TLC, and beside it an instance of      *)
(* NfsSession; an execution is of one of the two.                          *)
EXTENDS Smb2Session, TLC

Open(options, access, chain) == [options |-> options, access |-> access, chain |-> chain]
Plain == [start |-> "mounted", commands |-> {"create", "close", "read", "write"},
          opens |-> {Open({"other"}, {}, "none")}, requests |-> 5, window |-> 2, lost |-> 0,
          failures |-> {}, users |-> {"u"}, names |-> {"a"}, to |-> {"b"}, tokens |-> {TRUE},
          wide |-> TRUE]
With(changes) == changes @@ Plain

Both == {Open({"other"}, {}, "none"), Open({"directory", "delete"}, {"delete"}, "none")}

(* Sessions and shares come and go. *)
Logins == With([start |-> "fresh", commands |-> {"setup", "tcon", "create", "logoff"}, requests |-> 5,
                failures |-> {"setup", "tcon"}, users |-> {"", "u", "v"}, wide |-> FALSE])
(* Two files, read and written with two requests under way. *)
Files == With([requests |-> 7, names |-> {"", "a"}])
(* Deletions and renames. *)
Changes == With([commands |-> {"create", "close", "read", "rename", "dispose"},
                 opens |-> Both \cup {Open({}, {"delete"}, "none"), Open({"other"}, {}, "rename"),
                                     Open({"other"}, {"write"}, "close")},
                 failures |-> {"rename", "dispose"}])
(* Refusals and gaps. *)
Faulty == With([lost |-> 1, commands |-> {"create", "close", "read"}, failures |-> {"create", "read"},
                opens |-> Both])
(* Answers that the server delays. *)
Late == With([requests |-> 4, failures |-> {"create", "late"}, opens |-> Both])
(* A second session whose setup cannot be read. *)
Stalled == With([requests |-> 4, commands |-> {"setup", "create", "close"}, tokens |-> BOOLEAN])
(* Three requests under way, one more than are remembered. *)
Busy == With([requests |-> 5, window |-> 4, commands |-> {"create", "close", "read"}])
(* A capture that begins in the middle. *)
Joined == With([start |-> "joined", commands |-> {"setup", "tcon", "create", "close", "read", "logoff"},
                names |-> {"a", "/srvsvc"}, tokens |-> BOOLEAN])
(* Shares that come and go, with two gaps. *)
Mounts == With([commands |-> {"tcon", "tdis", "create", "close"}, lost |-> 2, requests |-> 4,
                failures |-> {"tcon"}])
(* The same behind a setup that cannot be read. *)
Behind == With([commands |-> {"setup", "tcon", "tdis"}, tokens |-> {FALSE}, lost |-> 1, requests |-> 4])
(* Users that come again, with a gap. *)
Relogins == With([start |-> "fresh", commands |-> {"setup", "create", "logoff"}, requests |-> 4, lost |-> 1,
                  failures |-> {"setup"}, users |-> {"u", "v"}])
AllScenarios == {Logins, Files, Changes, Faulty, Late, Stalled, Busy, Joined, Mounts, Behind, Relogins}

-----------------------------------------------------------------------------
CONSTANTS MaxHandle, Export, NfsNames, NfsCases
VARIABLES part, sessions, ports, lines, nfsScenario, nfsAsked, nfsRequests, unseen,
          tree, gone, nfsHeld, told, nfsFacts, nfsOdd
NfsScenarios == INSTANCE NfsScenarios
AllNfsScenarios == NfsScenarios!AllScenarios
N == INSTANCE NfsSession WITH
       Names <- NfsNames, Scenarios <- NfsCases,
       scenario <- nfsScenario, asked <- nfsAsked, requests <- nfsRequests,
       held <- nfsHeld, facts <- nfsFacts, odd <- nfsOdd
nfs == <<sessions, ports, lines, nfsScenario, nfsAsked, nfsRequests, unseen,
         tree, gone, nfsHeld, told, nfsFacts, nfsOdd>>

(* A marked path is told from all others. Handles count the files of the   *)
(* server, a folder before what is in it.                                  *)
ASSUME NfsAssumption ==
  /\ MaxHandle \in Nat \ {0} /\ {Export, "?", "..", None} \cap NfsNames = {} /\ Export # "?"
  /\ \A s \in NfsCases :
       /\ s.requests \in Nat /\ s.ports \subseteq {"portmap", "mount", "nfs"}
       /\ s.tree \subseteq [parent : Nat, name : NfsNames, handle : Nat]
       /\ IsFiniteSet(s.tree) /\ {e.handle : e \in s.tree} = 2..(1 + Cardinality(s.tree))
       /\ 1 + Cardinality(s.tree) <= MaxHandle /\ \A e \in s.tree : e.parent \in 1..(e.handle - 1)
       /\ s.folders \subseteq {1} \cup {e.handle : e \in s.tree}

(* The other part stands still, wherever it is.                            *)
MCInit ==
  /\ Init /\ N!Init
  /\ \/ part = "smb2" /\ nfsScenario = (CHOOSE s \in NfsCases : TRUE)
     \/ part = "nfs" /\ scenario = (CHOOSE s \in Scenarios : TRUE)
MCNext ==
  \/ part = "smb2" /\ Next /\ UNCHANGED <<part, nfs>>
  \/ part = "nfs" /\ N!Next /\ UNCHANGED <<part, vars>>
MCSpec == MCInit /\ [][MCNext]_<<vars, part, nfs>>

(* What happened is reported, in the step in which the server's answer     *)
(* shows it, and of refused log ins those that the build can tell.         *)
(* (cw_analizer_smb.cpp on_smb2_packet, cw_analizer_nfs.cpp)               *)
Reported == Exact /\ N!InStep

(* What is reported happened. (on_smb2_packet, on_rpc_packet)              *)
NoneInvented == NothingInvented /\ N!Answered

(* The dispatchers' tables of files, trees and handles are the server's.   *)
(* (on_smb2_packet, on_rpc_packet)                                         *)
TablesInStep == TypeOK /\ InStep /\ TreeNamed /\ N!TypeOK /\ N!HandlesNamed
=============================================================================

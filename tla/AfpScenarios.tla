---------------------------- MODULE AfpScenarios ----------------------------
(* The scenarios of AfpSession for TLC.                                    *)
EXTENDS TLC

Entry(parent, name, did) == [parent |-> parent, name |-> name, did |-> did]
Plain == [start |-> "mounted", tree |-> {Entry(2, "a", 3), Entry(2, "f", 0)},
          commands |-> {"params", "openFork", "closeFork", "read", "write"},
          requests |-> 5, window |-> 1, lost |-> 0, failures |-> {}, forms |-> {"utf8"},
          users |-> {"u"}, names |-> {"a", "f"}]
With(changes) == changes @@ Plain

(* Users come and go, with one step of log in or two. *)
Logins == With([start |-> "fresh", commands |-> {"login", "loginCont", "openVol", "createFile", "logout"},
                failures |-> {"login", "loginCont"}, users |-> {"u", "v"}, requests |-> 6, lost |-> 1])
(* Two forks, read and written, with refusals. *)
Reads == With([requests |-> 6, failures |-> {"read", "closeFork", "openFork"}, names |-> {"f"},
               commands |-> {"openFork", "closeFork", "read", "write"}])
(* Folders made, looked at in every form, and deleted. *)
Tree == With([commands |-> {"params", "createDir", "createFile", "delete"},
              forms |-> {"utf8", "long", "none"}, failures |-> {"delete", "createDir"}, requests |-> 5])
(* Levels down to where climbing ends, and more folders than are kept. *)
Levels == With([tree |-> {Entry(2, "a", 3), Entry(3, "a", 4), Entry(4, "a", 5), Entry(4, "f", 0), Entry(5, "f", 0)},
                commands |-> {"params", "createDir", "openFork"}, forms |-> {"utf8", "long"}])
Width == With([tree |-> {Entry(2, "a", 3), Entry(2, "b", 4), Entry(2, "c", 5), Entry(2, "f", 6), Entry(3, "f", 0)},
               names |-> {"a", "b", "c", "f"}, requests |-> 6, commands |-> {"params", "openFork"}])
(* Renamed, moved, copied and exchanged. *)
Names2 == With([tree |-> {Entry(2, "a", 3), Entry(2, "f", 0), Entry(3, "f", 0)},
                commands |-> {"params", "rename", "move", "copy", "exchange", "openFork", "delete"}, requests |-> 5])
(* Messages missed, requests not waited for, and a capture that begins late. *)
Missing == With([commands |-> {"params", "createDir", "delete", "openFork", "closeFork", "write"}, lost |-> 2,
                 requests |-> 4])
Forks2 == With([commands |-> {"openFork", "closeFork", "write"}, lost |-> 2,
                tree |-> {Entry(2, "a", 0), Entry(2, "f", 0)}, requests |-> 6])
Busy == With([commands |-> {"params", "createDir", "openFork", "closeFork", "read"}, window |-> 2, requests |-> 4])
Joined == With([start |-> "joined", requests |-> 4, forms |-> {"utf8", "long"},
                commands |-> {"params", "createFile", "delete", "openFork", "write", "closeFork", "logout"}])
AllScenarios == {Logins, Reads, Tree, Levels, Width, Names2, Missing, Forks2, Busy, Joined}
=============================================================================

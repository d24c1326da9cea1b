---------------------------- MODULE NfsScenarios ----------------------------
(* The scenarios of NfsSession for TLC.                                    *)
EXTENDS TLC

File(parent, name, h) == [parent |-> parent, name |-> name, handle |-> h]
Plain == [start |-> "fresh", shared |-> FALSE, ports |-> {"mount", "nfs"},
             folders |-> {1, 2}, tree |-> {File(1, "a", 2), File(2, "f", 3)}, failures |-> {},
             commands |-> {"lookup", "read", "write"}, requests |-> 5, window |-> 1, unseen |-> 0]
With(changes) == changes @@ Plain
(* The ports are asked for, a mount on a connection of its own. *)
Asking == With([ports |-> {}, commands |-> {"getport", "mount", "umount", "lookup", "read"}, unseen |-> 1])
(* Mounts and files on one connection. *)
OneForBoth == With([shared |-> TRUE, ports |-> {"nfs"}, requests |-> 6,
                       commands |-> {"mount", "umount", "lookup", "write", "create"}])
(* A connection for both that is found out late. *)
Late == With([shared |-> TRUE, ports |-> {}, commands |-> {"getport", "mount", "lookup"}, requests |-> 5])
(* Files made and removed, with refusals and calls not waited for. *)
Files == With([start |-> "mounted", failures |-> {"status", "accept"}, requests |-> 4,
                  commands |-> {"lookup", "read", "create", "remove", "other"}])
Pipelined == With([start |-> "mounted", window |-> 2, requests |-> 3, unseen |-> 1,
                      commands |-> {"lookup", "read", "create"}])
Large == With([start |-> "mounted", requests |-> 4, unseen |-> 1, commands |-> {"lookup", "write", "large"}])
(* Names that change, and climbs. *)
Moved == With([start |-> "mounted", commands |-> {"lookup", "dotdot", "rename", "read", "write"}, requests |-> 4])
AllScenarios == {Asking, OneForBoth, Late, Files, Pipelined, Large, Moved}
=============================================================================

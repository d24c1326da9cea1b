---------------------------- MODULE MCEventRules ----------------------------
(* An instance of EventRules for TLC: an exclusion of each table and two   *)
(* alert rules that watch one path in common; the clock passes two         *)
(* refreshes.                                                              *)
EXTENDS EventRules

File == [server |-> "s", host |-> <<"//s">>, rest |-> <<"/", "d", "/", "f">>, cmd |-> "read"]
Folder == [server |-> "s", host |-> <<"//s">>, rest |-> <<"/", "d">>, cmd |-> "opendir"]
Other == [server |-> "t", host |-> <<"//t">>, rest |-> <<"/", ".DS_Store">>, cmd |-> "read"]
Below == <<"//s", "/", "d", "/">>
FolderExcluded == [table |-> "path", server |-> "s", kind |-> "starts", pattern |-> <<"/", "d", "/">>]
NameExcluded == [table |-> "pattern", server |-> "any", kind |-> "ends", pattern |-> <<"d">>]
FolderWatched == [id |-> 1, server |-> "s", folder |-> TRUE, path |-> Below, commands |-> {"read", "opendir"}]
FileWatched == [id |-> 2, server |-> "s", folder |-> FALSE, path |-> Below \o <<"f">>, commands |-> {"read"}]

TwoExclusions == {FolderExcluded, NameExcluded}
TwoAlerts == {FolderWatched, FileWatched}
ThreeEvents == {File, Folder, Other}
=============================================================================

---------------------------- MODULE MCIpSessions ----------------------------
(* The scenarios of IpSessions for TLC. A message has three units, of      *)
(* which two are needed to recognise it, so that a packet can hold too     *)
(* little of a message, a part, one and a part, or more. Numbers on the    *)
(* wire are modulo 32, `unsigned long` is wider, as on a 64-bit Linux.     *)
EXTENDS IpSessions, TLC

Plain == [protocol |-> "SMB1", connections |-> 1, messages |-> 2, logoff |-> 9, refused |-> {},
          segments |-> 1..3, firstNumber |-> <<0, 9>>, hours |-> 0,
          lost |-> 0, repeated |-> 0, reloads |-> 0, clockBacks |-> 0]
With(changes) == changes @@ Plain
OneConnection == [firstNumber |-> <<0>>]

(* Losses, a logoff and a change of the targets over two connections. *)
Busy == With([connections |-> 2, logoff |-> 0, segments |-> {2, 4}, lost |-> 1, reloads |-> 1])
(* One packet missed among three messages. *)
Gap == With(OneConnection @@ [messages |-> 3, lost |-> 1])
(* A reuse of the ports at any point. *)
Reused == With([protocol |-> "SMB2", connections |-> 2])
(* The numbers wrap; nothing is missed. *)
Wrap(p) == With([protocol |-> p, segments |-> 2..4, firstNumber |-> <<28>>, hours |-> 1])
(* The numbers pass the middle of their space; the first messages get -1. *)
Half(p) == With([protocol |-> p, segments |-> 2..4, firstNumber |-> <<14>>, refused |-> {0}])
(* The clock passes the timeout, with a loss, a copy and a reload. *)
Long == With(OneConnection @@ [protocol |-> "AFP", messages |-> 1, hours |-> 3,
                               lost |-> 1, repeated |-> 1, reloads |-> 1])
(* Every fault, the clock set back included, near the wrap. *)
Everything == With([protocol |-> "SMB2", messages |-> 1, logoff |-> 0, segments |-> 2..3,
                    firstNumber |-> <<30>>, hours |-> 1, reloads |-> 1, lost |-> 1, repeated |-> 1, clockBacks |-> 1])
AllScenarios == {Busy, Gap, Reused, Wrap("SMB1"), Wrap("AFP"), Half("SMB1"), Half("AFP"), Long, Everything}

(* The instance satisfies what the proofs assume of the numbers.           *)
ASSUME SpacesAssumption
=============================================================================

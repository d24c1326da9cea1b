----------------------------- MODULE AuditTrail -----------------------------
(***************************************************************************)
(* What the pipeline promises about the events it records: a lossy but     *)
(* ordered log. An event is recorded at most once and never after a later  *)
(* event; it may be dropped at any time before that, alone or with others. *)
(***************************************************************************)
EXTENDS Naturals, Sequences

CONSTANT MaxEvents  \* bound of the model: events emitted

VARIABLES
  emitted,  \* number of events emitted so far; they are numbered 1..emitted
  pending,  \* the events that may still be recorded
  trail     \* the events recorded, oldest first

vars == <<emitted, pending, trail>>

Init == emitted = 0 /\ pending = {} /\ trail = <<>>

Emit ==
  /\ emitted < MaxEvents
  /\ emitted' = emitted + 1
  /\ pending' \in {pending, pending \union {emitted'}}
  /\ UNCHANGED trail

(* Recording an event gives up every pending event that is older, and may  *)
(* give up younger ones too.                                               *)
Record ==
  /\ \E e \in pending :
       /\ trail' = Append(trail, e)
       /\ \E D \in SUBSET pending : pending' = {d \in D : d > e}
  /\ UNCHANGED emitted

Drop ==
  /\ pending' \in SUBSET pending
  /\ UNCHANGED <<emitted, trail>>

Next == Emit \/ Record \/ Drop

Spec == Init /\ [][Next]_vars
=============================================================================

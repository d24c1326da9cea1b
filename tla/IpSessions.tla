----------------------------- MODULE IpSessions -----------------------------
(***************************************************************************)
(* The table of TCP sessions of the packet analyzer and the reassembly of  *)
(* the messages they carry (dispatch_ip_packet, dispose_forgotten_data),   *)
(* for the packets between one client port and one server port: entries of *)
(* the table never affect each other. A stream is a sequence of units, a   *)
(* message is MessageLength units of which the first is its header, and a  *)
(* packet carries consecutive units of one direction. The number of a unit *)
(* on the wire is its place in the sequence space of its connection, which *)
(* the code reads into an `unsigned long` that may be wider.               *)
(***************************************************************************)
EXTENDS Integers, Sequences, FiniteSets

CONSTANTS
  MessageLength,  \* units of a message
  PeekLength,     \* units needed to recognise a message
  Timeout,        \* hours without packets before a session is forgotten
  WireModulus, LongModulus, \* sequence numbers on the wire; values of `unsigned long`
  Scenarios       \* what may travel between the two ports, as records:
    \* protocol        "SMB1", "SMB2" or "AFP": what the port says the packets carry
    \* connections     bound: connections that use these ports
    \* messages        bound: messages of a direction of a connection
    \* logoff          the message of the client that ends its last user's session
    \* refused         the messages that a dispatcher answers with -1
    \* segments        units of a packet that carries some
    \* firstNumber     the number of the first unit of each connection
    \* hours           bound: the clock stops at this hour
    \* lost, repeated, reloads, clockBacks
    \*                 bounds: packets the capture misses, retransmissions, changes
    \*                 of the target servers file, corrections of the clock

Positive == Nat \ {0}
ASSUME IpSessionsAssumption ==
  /\ MessageLength \in Positive /\ PeekLength \in 1..MessageLength
  /\ Timeout \in Positive
  /\ WireModulus \in Positive /\ LongModulus \in Nat /\ WireModulus <= LongModulus
  /\ \A s \in Scenarios :
       /\ s.protocol \in {"SMB1", "SMB2", "AFP"}
       /\ s.connections \in Positive /\ s.messages \in Nat /\ s.logoff \in Nat
       /\ s.refused \subseteq Nat
       /\ s.segments \subseteq Positive /\ s.hours \in Nat
       /\ s.firstNumber \in [1..s.connections -> 0..(WireModulus - 1)]
       /\ {s.lost, s.repeated, s.reloads, s.clockBacks} \subseteq Nat

Dirs == {"client", "server"}

VARIABLES
  scenario,  \* the scenario: it never changes
  conn,      \* the connection that uses the ports now
  sent,      \* direction -> units sent
  finished,  \* directions that sent their FIN
  clock,
  target,    \* the server is a target of the analysis
  table,     \* the entry of _ip_session_map: {} or {session}
  out,       \* the messages the last packet let the dispatcher analyse
  seen,      \* history: the messages analysed, as <<connection, direction, number>>
  heard,     \* history: the hour of the last packet that reached the dispatcher
  faults     \* history: how often each fault happened

wire == <<conn, sent, finished>>
vars == <<scenario, wire, clock, target, table, out, seen, heard, faults>>

Protocol == scenario.protocol
StreamLength == scenario.messages * MessageLength
Units == (1..scenario.connections) \X Dirs \X (0..(StreamLength - 1))
Streams == [valid : BOOLEAN, sequence : 0..(LongModulus - 1), buffer : Seq(Units)]
Sessions == [stream : [Dirs -> Streams], lastupdate : 0..scenario.hours,
             FIN_received : BOOLEAN, mask : BOOLEAN]

TypeOK ==
  /\ conn \in 1..scenario.connections /\ sent \in [Dirs -> 0..StreamLength]
  /\ finished \subseteq Dirs /\ clock \in 0..scenario.hours /\ target \in BOOLEAN
  /\ table \subseteq Sessions /\ Cardinality(table) <= 1
  /\ out \in Seq(Seq(Units)) /\ heard \in (-Timeout)..scenario.hours

NoFaults == [lost |-> 0, repeated |-> 0, reloads |-> 0, clockBacks |-> 0]
Fault(kind) == faults[kind] < scenario[kind] /\ faults' = [faults EXCEPT ![kind] = @ + 1]

Init ==
  /\ scenario \in Scenarios
  /\ conn = 1 /\ sent = [d \in Dirs |-> 0] /\ finished = {}
  /\ clock = 0 /\ target = TRUE /\ table = {}
  /\ out = <<>> /\ seen = {} /\ heard = -Timeout /\ faults = NoFaults

-----------------------------------------------------------------------------
(* The data of a packet.                                                   *)
UnitsOf(c, d, from, n) == [i \in 1..n |-> <<c, d, from + i - 1>>]

(* BE4 shifts the first byte as an int: where `unsigned long` is wider than*)
(* the number, the upper half of the numbers gets ones in front.           *)
BE4(n) == IF 2 * n < WireModulus THEN n ELSE n + (LongModulus - WireModulus)
WireNumber(c, pos) == (scenario.firstNumber[c] + pos) % WireModulus
NumberOf(c, pos) == BE4(WireNumber(c, pos))
IsHeader(u) == u[3] % MessageLength = 0
MessageOf(u) == <<u[1], u[2], u[3] \div MessageLength>>

NewStream == [valid |-> FALSE, sequence |-> 0, buffer |-> <<>>]
NewSession == [stream |-> [d \in Dirs |-> NewStream], lastupdate |-> clock,
               FIN_received |-> FALSE, mask |-> FALSE]
Lookup == IF table = {} THEN NewSession ELSE CHOOSE s \in table : TRUE

(* Mutant: the buffer is kept when a packet is out of sequence.            *)
Receive_KeepBuffer(st, number, units) ==
  IF units = <<>> THEN st
  ELSE IF st.valid /\ st.sequence # number
       THEN [st EXCEPT !.valid = FALSE, !.buffer = st.buffer \o units]
       ELSE [valid |-> TRUE, sequence |-> (number + Len(units)) % LongModulus,
             buffer |-> st.buffer \o units]

(* Mutant: `sequence` does not wrap.                                       *)
Receive_Wide(st, number, units) ==
  IF units = <<>> THEN st
  ELSE IF st.valid /\ st.sequence # number
       THEN [st EXCEPT !.valid = FALSE, !.buffer = units]
       ELSE [valid |-> TRUE, sequence |-> number + Len(units), buffer |-> st.buffer \o units]

(* The stream buffer takes the data of a packet. The first number is       *)
(* adopted. On a number that does not match, the buffer starts again with  *)
(* the data of this packet, and the number of the next packet is adopted.  *)
(* `sequence` is an unsigned long: it wraps where that type does.          *)
Receive(st, number, units) ==
  IF units = <<>> THEN st
  ELSE IF st.valid /\ st.sequence # number
       THEN [st EXCEPT !.valid = FALSE, !.buffer = units]
       ELSE [valid |-> TRUE, sequence |-> (number + Len(units)) % LongModulus,
             buffer |-> st.buffer \o units]

(* How many whole messages stand at the head of a buffer.                  *)
WholeMessages(b) ==
  CHOOSE k \in 0..Len(b) :
    /\ \A j \in 0..(k - 1) : (j + 1) * MessageLength <= Len(b) /\ IsHeader(b[j * MessageLength + 1])
    /\ ~ ((k + 1) * MessageLength <= Len(b) /\ IsHeader(b[k * MessageLength + 1]))
After(b, k) == SubSeq(b, k * MessageLength + 1, Len(b))
First(b, k) == [j \in 1..k |-> SubSeq(b, (j - 1) * MessageLength + 1, j * MessageLength)]

(* What a dispatcher does with a buffer: the messages it analyses, what it *)
(* leaves in the buffer, and whether it marks the session as its own. The  *)
(* SMB ports need a recognisable header first. The SMB1 dispatcher         *)
(* consumes one message for a packet, the SMB2 dispatcher clears the       *)
(* buffer after one, the AFP dispatcher analyses all of them. A dispatcher *)
(* that answers a message with -1 ends there, and the buffer is cleared.   *)
Recognised(b) == Len(b) >= PeekLength /\ IsHeader(b[1])
TurnedDown(b, j) == MessageOf(b[(j - 1) * MessageLength + 1])[3] \in scenario.refused
Analysed(b) ==
  LET k == WholeMessages(b)
      ends == {j \in 1..k : TurnedDown(b, j)}
  IN IF Protocol # "AFP" THEN IF k = 0 THEN 0 ELSE 1
     ELSE IF ends = {} THEN k ELSE CHOOSE j \in ends : \A i \in ends : j <= i

(* Mutant: the rest of the buffer is dropped with the message.             *)
Left_Nothing(b) == IF Analysed(b) > 0 THEN <<>> ELSE b

(* Mutant: the message is left in the buffer.                              *)
Left_All(b) == b

Left(b) ==
  LET rest == After(b, Analysed(b))
  IN CASE Analysed(b) > 0 /\ (Protocol = "SMB2" \/ TurnedDown(b, Analysed(b))) -> <<>>
       [] Protocol = "SMB1" /\ Analysed(b) = 1 -> rest
       [] OTHER -> IF Len(rest) >= PeekLength /\ ~IsHeader(rest[1]) THEN <<>> ELSE rest
Marked(b) == Protocol = "AFP" \/ Recognised(b)
LogsOff(b) ==
  LET k == Analysed(b)
  IN /\ k > 0 /\ (Protocol = "AFP" => After(b, k) = <<>>)
     /\ Tail(MessageOf(First(b, k)[k][1])) = <<"client", scenario.logoff>>

-----------------------------------------------------------------------------
Found(messages) ==
  /\ out' = messages
  /\ seen' = seen \cup {MessageOf(messages[j][1]) : j \in DOMAIN messages}

(* Mutant: the time of the last packet is only set for a new session.      *)
Refreshed_Never(s) == s

Refreshed(s) == [s EXCEPT !.lastupdate = clock]

(* dispatch_ip_packet. The entry is created before anything else is known  *)
(* of the packet. A FIN marks it and the packet is not analysed. A packet  *)
(* of a server that is no target leaves the entry as it is. A session that *)
(* no dispatcher has marked is erased after each of its packets.           *)
Dispatch(d, number, units, fin) ==
  LET old == Lookup
      received == Receive(old.stream[d], number, units)
      b == received.buffer
      new == [old EXCEPT !.stream[d] = [received EXCEPT !.buffer = Left(b)],
                         !.mask = (@ \/ (b # <<>> /\ Marked(b))) /\ ~LogsOff(b)]
  IN IF fin \/ ~target THEN
       /\ table' = {[old EXCEPT !.FIN_received = @ \/ fin]}
       /\ Found(<<>>) /\ UNCHANGED heard
     ELSE
       /\ table' = IF new.mask THEN {Refreshed(new)} ELSE {}
       /\ Found(First(b, Analysed(b))) /\ heard' = clock

-----------------------------------------------------------------------------
(* The hosts and the capture.                                              *)
Sizes(d) == {n \in scenario.segments : sent[d] + n <= StreamLength}
Advance(d, n) == sent' = [sent EXCEPT ![d] = @ + n]

Packet(d) ==
  /\ d \notin finished
  /\ \E n \in Sizes(d) :
       Advance(d, n) /\ Dispatch(d, NumberOf(conn, sent[d]), UnitsOf(conn, d, sent[d], n), FALSE)
  /\ UNCHANGED <<scenario, conn, finished, clock, target, faults>>

Acknowledgement(d) ==
  /\ Dispatch(d, NumberOf(conn, sent[d]), <<>>, FALSE)
  /\ UNCHANGED <<scenario, wire, clock, target, faults>>

(* A FIN may carry the last data.                                          *)
Fin(d) ==
  /\ d \notin finished /\ finished' = finished \cup {d}
  /\ \E n \in {0} \cup Sizes(d) :
       Advance(d, n) /\ Dispatch(d, NumberOf(conn, sent[d]), UnitsOf(conn, d, sent[d], n), TRUE)
  /\ UNCHANGED <<scenario, conn, clock, target, faults>>

(* The capture misses a packet.                                            *)
Lose(d) ==
  /\ d \notin finished /\ Fault("lost")
  /\ \/ \E n \in Sizes(d) : Advance(d, n) /\ UNCHANGED finished
     \/ finished' = finished \cup {d} /\ UNCHANGED sent
  /\ out' = <<>> /\ UNCHANGED <<scenario, conn, clock, target, table, seen, heard>>

(* A retransmission: of a packet that was captured, or that was missed,    *)
(* which makes it come out of order.                                       *)
Repeat(d) ==
  /\ Fault("repeated")
  /\ \E from \in 0..(sent[d] - 1), n \in scenario.segments :
       /\ from + n <= sent[d]
       /\ Dispatch(d, NumberOf(conn, from), UnitsOf(conn, d, from, n), FALSE)
  /\ UNCHANGED <<scenario, wire, clock, target>>

(* Another connection takes the ports, after both ends of the last one, a  *)
(* reset, or a restart of a host.                                          *)
Reuse ==
  /\ conn < scenario.connections /\ conn' = conn + 1
  /\ sent' = [d \in Dirs |-> 0] /\ finished' = {}
  /\ out' = <<>> /\ heard' = -Timeout
  /\ UNCHANGED <<scenario, clock, target, table, seen, faults>>

Hour ==
  /\ clock < scenario.hours /\ clock' = clock + 1
  /\ out' = <<>> /\ UNCHANGED <<scenario, wire, target, table, seen, heard, faults>>

ClockBack ==
  /\ clock > 0 /\ Fault("clockBacks") /\ clock' = clock - 1
  /\ out' = <<>> /\ UNCHANGED <<scenario, wire, target, table, seen, heard>>

ReloadTargets ==
  /\ Fault("reloads") /\ target' = ~target
  /\ out' = <<>> /\ UNCHANGED <<scenario, wire, clock, table, seen, heard>>

-----------------------------------------------------------------------------
(* The difference of the clock and lastupdate is compared as an unsigned   *)
(* number: a negative one is larger than every timeout.                    *)
Fresh(s) == clock - s.lastupdate \in 0..(Timeout - 1)

(* Mutant: only the time counts.                                           *)
Kept_ByTime(s) == Fresh(s)

Kept(s) == ~s.FIN_received /\ Fresh(s)

Dispose ==
  /\ table' = {s \in table : Kept(s)}
  /\ out' = <<>> /\ UNCHANGED <<scenario, wire, clock, target, seen, heard, faults>>

Next ==
  \/ \E d \in Dirs : Packet(d) \/ Acknowledgement(d) \/ Fin(d) \/ Lose(d) \/ Repeat(d)
  \/ Reuse \/ Hour \/ ClockBack \/ ReloadTargets \/ Dispose

(* The main thread asks for a disposal every minute.                       *)
Spec == Init /\ [][Next]_vars /\ WF_vars(Dispose)

-----------------------------------------------------------------------------
(* What the wire lets the numbers tell: a packet is shorter than their     *)
(* space, and a connection does not begin at a number its predecessor on   *)
(* the ports may have stopped at.                                          *)
SpacesAssumption ==
  \A s \in Scenarios :
    /\ \A n \in s.segments : n < WireModulus
    /\ \A c \in 2..s.connections : \A pos \in 0..(s.messages * MessageLength) :
         (s.firstNumber[c - 1] + pos) % WireModulus # s.firstNumber[c]

(* No connection's numbers come from the lower half of their space into the*)
(* upper one, or `unsigned long` is as wide as they are. Where it is wider *)
(* `sequence` goes on in the lower half's way, and the packet behind the   *)
(* border looks like one after a gap. The wrap at the other end is none.   *)
Straight ==
  \/ LongModulus = WireModulus
  \/ \A c \in 1..scenario.connections : \A p \in 0..StreamLength : \A q \in p..StreamLength :
       2 * WireNumber(c, q) >= WireModulus => 2 * WireNumber(c, p) >= WireModulus

(* What is analysed is a message that was sent, never a splice of packets  *)
(* that were not sent one after the other, when one packet was missed, the *)
(* ports were reused once, or the numbers are not straight, and the server *)
(* was not dropped from the targets and taken up again. (Two gaps in a row *)
(* do splice, the one that only the code sees and those of a time as no    *)
(* target included, and so does one retransmission: the number of the      *)
(* packet after it is not checked.)                                        *)
(* (cw_analizer.cpp dispatch_ip_packet)                                    *)
OneGap == /\ faults.repeated = 0 /\ faults.reloads <= 1 /\ faults.lost + conn <= 2
          /\ (faults.lost + conn = 2 => Straight)
Genuine ==
  OneGap =>
    \A j \in DOMAIN out : \A i \in 1..MessageLength :
      /\ MessageOf(out[j][i]) = MessageOf(out[j][1])
      /\ out[j][i][3] % MessageLength = i - 1

(* Without retransmissions no message is analysed twice, whatever is lost, *)
(* forgotten, reloaded or reused. (cw_analizer.cpp dispatch_ip_packet)     *)
OnceEach ==
  [][faults'.repeated = 0 =>
       \A j \in DOMAIN out' :
         /\ MessageOf(out'[j][1]) \notin seen
         /\ \A k \in DOMAIN out' : MessageOf(out'[j][1]) = MessageOf(out'[k][1]) => j = k]_vars

(* When every packet is captured in order, is of a target, and holds       *)
(* enough of a message to recognise it, no dispatcher answers -1, and the  *)
(* numbers are straight, everything the first connection sent before its   *)
(* end and a logoff has been analysed or waits in the buffer, across the   *)
(* wrap of the sequence numbers. A segment may hold the end of a message   *)
(* and the start of the next; two starts in a segment lose the second with *)
(* SMB2. (cw_analizer.cpp dispatch_ip_packet)                              *)
Undisturbed ==
  /\ faults = NoFaults /\ conn = 1 /\ finished = {} /\ clock < Timeout
  /\ \A n \in scenario.segments : n >= PeekLength
  /\ Protocol # "SMB2" /\ scenario.logoff >= scenario.messages
  /\ scenario.refused = {} /\ Straight
NothingLost ==
  Undisturbed =>
    \A d \in Dirs : \A pos \in 0..(sent[d] - 1) :
      LET u == <<conn, d, pos>>
      IN MessageOf(u) \in seen \/ \E s \in table : \E i \in DOMAIN s.stream[d].buffer : s.stream[d].buffer[i] = u

(* Only a session that has ended or has been silent for the timeout is     *)
(* disposed of, as long as the ports serve one connection and the clock is *)
(* not set back. (cw_analizer.cpp dispose_forgotten_data)                  *)
FirstSessionKept ==
  [][Dispose /\ table' # table /\ conn = 1 /\ faults.clockBacks = 0 =>
       finished # {} \/ clock - heard >= Timeout]_vars

(* A session that has ended or was forgotten leaves the table.             *)
(* (cw_analizer.cpp dispose_forgotten_data)                                *)
EndedSessionsGo ==
  (\E s \in table : s.FIN_received \/ clock - s.lastupdate >= Timeout)
    ~> ~(\E s \in table : s.FIN_received \/ clock - s.lastupdate >= Timeout)
=============================================================================

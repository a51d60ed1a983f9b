--------------------------- MODULE TransmitQueue ---------------------------
(***************************************************************************)
(* What the transmit side of the UART promises whoever sends: one bounded  *)
(* queue of bytes.  The main loop writes its lines byte by byte and in     *)
(* order, a handler offers a packet that goes in whole or is refused and   *)
(* counted, and the oldest byte goes out.  A byte is named by its sender,  *)
(* its message and its place in the message.                               *)
(***************************************************************************)
EXTENDS Integers, Sequences

CONSTANTS Capacity, LineLen, PacketLen, Handlers

VARIABLES
  queue,      \* the bytes that wait
  out,        \* the bytes that have gone out
  written,    \* the last byte of a line written: its line and its place
  offered,    \* packets each handler has offered
  refused     \* packets that did not fit

Init ==
  /\ queue = <<>> /\ out = <<>>
  /\ written = <<0, LineLen>>
  /\ offered = [p \in Handlers |-> 0] /\ refused = 0

Fits(n) == Len(queue) + n <= Capacity

NextByte == IF written[2] = LineLen THEN <<written[1] + 1, 1>> ELSE <<written[1], written[2] + 1>>

Write ==
  /\ Fits(1)
  /\ written' = NextByte
  /\ queue' = queue \o << <<"main", written'[1], written'[2]>> >>
  /\ UNCHANGED <<out, offered, refused>>

Accept(p) ==
  /\ Fits(PacketLen)
  /\ queue' = queue \o [k \in 1..PacketLen |-> <<p, offered[p] + 1, k>>]
  /\ UNCHANGED refused

Refuse == ~Fits(PacketLen) /\ refused' = refused + 1 /\ UNCHANGED queue

Offer(p) ==
  /\ Accept(p) \/ Refuse
  /\ offered' = [offered EXCEPT ![p] = @ + 1]
  /\ UNCHANGED <<out, written>>

Transmit ==
  /\ queue # <<>>
  /\ out' = Append(out, Head(queue)) /\ queue' = Tail(queue)
  /\ UNCHANGED <<written, offered, refused>>

Next == Write \/ (\E p \in Handlers : Offer(p)) \/ Transmit

Spec == Init /\ [][Next]_<<queue, out, written, offered, refused>>
=============================================================================

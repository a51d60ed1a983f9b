----------------------------- MODULE UartTxProps -----------------------------
(***************************************************************************)
(* What the transmit ring promises its callers.                            *)
(***************************************************************************)
EXTENDS UartTx, FiniteSets

Bytes == Producers \X Nat \X Nat

TxTypeOK ==
  /\ DOMAIN tx_buf = Slots /\ tx_head \in Slots /\ tx_tail \in Slots
  /\ txeie \in BOOLEAN /\ txe \in BOOLEAN
  /\ main \in {"idle", "byte", "enable"} /\ i \in 0..LineLen
  /\ tim6 \in {"idle", "enable"} /\ usart \in {"idle", "clear"}
  /\ dropped \in 0..(2 * MaxPackets)
  /\ calls \in [Producers -> 0..(MaxLines + MaxPackets)]

Contents == [k \in 1..((tx_head - tx_tail + Size) % Size) |-> tx_buf[(tx_tail + k - 1) % Size]]

\* What has gone to the line and what waits in the ring are together every byte
\* that was enqueued, in the order of the enqueues: no producer, whatever it
\* has preempted, overwrites, loses or reorders a byte.
FifoIntact == sent \o Contents = enqueued

\* A packet of a handler is in the stream in one piece or not at all, and every
\* packet that is not there has been counted as dropped.
PacketsWholeOrCounted ==
  LET Begun == {k \in DOMAIN enqueued : enqueued[k][1] \in Handlers /\ enqueued[k][3] = 1}
  IN  /\ \A k \in DOMAIN enqueued : enqueued[k][1] \in Handlers =>
           LET first == k - enqueued[k][3] + 1
           IN  /\ first >= 1 /\ first + PacketLen - 1 <= Len(enqueued)
               /\ \A d \in 1..PacketLen :
                    enqueued[first + d - 1] = Byte(enqueued[k][1], enqueued[k][2], d)
      /\ calls["tim6"] + calls["adc"] = dropped + Cardinality(Begun)

\* The byte of a line that UART_SendStr has put into the ring last.
Written == IF main = "idle" THEN <<calls["main"], LineLen>>
           ELSE IF i = 0 THEN <<calls["main"] - 1, LineLen>> ELSE <<calls["main"], i>>

Queue == INSTANCE TransmitQueue WITH
  Capacity <- Size - 1, queue <- Contents, out <- sent, written <- Written,
  offered <- [p \in Handlers |-> calls[p]], refused <- dropped

\* The ring with its two indices, its three producers and the handler that drains it
\* is that queue: whatever is preempted where, each step of the code is one
\* operation of the queue or none (uart.c:165-209, 348-379).
TransmitQueueSpec == Queue!Spec

\* Whoever preempts it, a blocking send of the main loop comes to its end: the
\* ring is never full with the interrupt that drains it left off.
SendEnds == main # "idle" ~> main = "idle"

-----------------------------------------------------------------------------
(* What comments of the code say and the code does not keep.               *)

\* The string is put into the ring and the TXE interrupt takes it out
\* (uart.c:180).
QueueDrains == tx_head # tx_tail ~> tx_head = tx_tail

\* A line goes out in one piece, or not at all (uart.h:41).
LinesWhole ==
  \A k \in DOMAIN enqueued : k < Len(enqueued) /\ enqueued[k][1] = "main" /\ enqueued[k][3] < LineLen =>
    enqueued[k + 1] = Byte("main", enqueued[k][2], enqueued[k][3] + 1)
=============================================================================

------------------------------- MODULE UartTx -------------------------------
(***************************************************************************)
(* The transmit ring of uart.c.  Its producers are the main loop           *)
(* (UART_SendStr: byte by byte, spinning while the ring is full), TIM6 at  *)
(* priority 2 and the FOC frame of ADC1_2 at priority 0 (UART_TrySendStr:  *)
(* a whole packet or none).  Its consumer is the USART2 handler, at        *)
(* priority 2: it preempts the main loop, and ADC1_2 preempts it between   *)
(* its look at the ring and its store to CR1.                              *)
(*                                                                         *)
(* An enqueue is one step, for it runs under PRIMASK; a store of TXEIE is  *)
(* another.                                                                *)
(***************************************************************************)
EXTENDS Integers, Sequences

CONSTANTS
  Size,         \* UART_TX_BUF_SIZE
  LineLen,      \* bytes of a line of the main loop
  PacketLen,    \* bytes of a packet of a handler
  MaxLines,     \* bound: lines the main loop sends
  MaxPackets    \* bound: packets each handler sends

ASSUME UartTxAssumption ==
  /\ Size \in Nat /\ Size > 1
  /\ {LineLen, PacketLen} \subseteq Nat \ {0} /\ PacketLen < Size
  /\ {MaxLines, MaxPackets} \subseteq Nat

Slots == 0..(Size - 1)
Producers == {"main", "tim6", "adc"}
Handlers == {"tim6", "adc"}

VARIABLES
  tx_buf, tx_head, tx_tail,
  txeie,        \* CR1.TXEIE
  txe,          \* ISR.TXE: TDR is empty
  main,         \* "idle", "byte" or "enable"
  i,            \* bytes of the line UART_SendStr has enqueued
  tim6,         \* "idle" or "enable"
  usart,        \* "idle" or "clear": the handler has found the ring empty
  dropped,      \* uart_tx_dropped_count
  calls,        \* messages each producer has begun
  enqueued,     \* every byte put into the ring, in order
  sent          \* every byte stored to TDR, in order

ring == <<tx_buf, tx_head>>
vars == <<tx_buf, tx_head, tx_tail, txeie, txe, main, i, tim6, usart, dropped, calls,
          enqueued, sent>>

\* A byte is named by its message and its place in it.
Byte(p, n, k) == <<p, n, k>>
Packet(p) == [k \in 1..PacketLen |-> Byte(p, calls[p] + 1, k)]

Init ==
  /\ tx_buf = [s \in Slots |-> Byte("main", 0, 0)] /\ tx_head = 0 /\ tx_tail = 0
  /\ txeie = FALSE /\ txe = TRUE
  /\ main = "idle" /\ i = 0 /\ tim6 = "idle" /\ usart = "idle"
  /\ dropped = 0 /\ calls = [p \in Producers |-> 0]
  /\ enqueued = <<>> /\ sent = <<>>

MainRuns == tim6 = "idle" /\ usart = "idle"

Free == (tx_tail - tx_head - 1 + Size) % Size

Put(bytes) ==
  /\ tx_buf' = [s \in Slots |-> LET d == (s - tx_head + Size) % Size
                                IN  IF d < Len(bytes) THEN bytes[d + 1] ELSE tx_buf[s]]
  /\ tx_head' = (tx_head + Len(bytes)) % Size
  /\ enqueued' = enqueued \o bytes

-----------------------------------------------------------------------------
(* UART_SendStr.                                                           *)

SendLine ==
  /\ MainRuns /\ main = "idle" /\ calls["main"] < MaxLines
  /\ calls' = [calls EXCEPT !["main"] = @ + 1]
  /\ main' = "byte" /\ i' = 0
  /\ UNCHANGED <<ring, tx_tail, txeie, txe, tim6, usart, dropped, enqueued, sent>>

\* Mutant: the byte is written even when the ring is full.
HasRoomAlways == TRUE

HasRoom == (tx_head + 1) % Size # tx_tail

\* While the ring is full the loop only spins.
EnqueueByte ==
  /\ MainRuns /\ main = "byte" /\ HasRoom
  /\ Put(<<Byte("main", calls["main"], i + 1)>>)
  /\ i' = i + 1 /\ main' = "enable"
  /\ UNCHANGED <<tx_tail, txeie, txe, tim6, usart, dropped, calls, sent>>

\* Mutant: the interrupt is enabled once, after the last byte.
EnableAtEnd ==
  /\ MainRuns /\ main = "enable"
  /\ txeie' = (txeie \/ i = LineLen)
  /\ main' = IF i = LineLen THEN "idle" ELSE "byte"
  /\ UNCHANGED <<ring, tx_tail, txe, i, tim6, usart, dropped, calls, enqueued, sent>>

EnableAfterByte ==
  /\ MainRuns /\ main = "enable"
  /\ txeie' = TRUE
  /\ main' = IF i = LineLen THEN "idle" ELSE "byte"
  /\ UNCHANGED <<ring, tx_tail, txe, i, tim6, usart, dropped, calls, enqueued, sent>>

-----------------------------------------------------------------------------
(* UART_TrySendStr.                                                        *)

\* Mutant: what there is room for is sent.
CopiesWhatFits(p) ==
  /\ calls[p] < MaxPackets
  /\ calls' = [calls EXCEPT ![p] = @ + 1]
  /\ Put(SubSeq(Packet(p), 1, IF Free < PacketLen THEN Free ELSE PacketLen))
  /\ UNCHANGED dropped

\* Mutant: a packet that does not fit is not counted.
DropsSilently(p) ==
  /\ calls[p] < MaxPackets
  /\ calls' = [calls EXCEPT ![p] = @ + 1]
  /\ IF Free >= PacketLen THEN Put(Packet(p)) ELSE UNCHANGED <<ring, enqueued>>
  /\ UNCHANGED dropped

TrySend(p) ==
  /\ calls[p] < MaxPackets
  /\ calls' = [calls EXCEPT ![p] = @ + 1]
  /\ IF Free >= PacketLen THEN Put(Packet(p)) /\ UNCHANGED dropped
     ELSE dropped' = dropped + 1 /\ UNCHANGED <<ring, enqueued>>

\* TIM6 can be preempted by ADC1_2 before it enables the interrupt.
Tim6Sends ==
  /\ MainRuns
  /\ TrySend("tim6")
  /\ tim6' = IF Free >= PacketLen THEN "enable" ELSE "idle"
  /\ UNCHANGED <<tx_tail, txeie, txe, main, i, usart, sent>>

Tim6Enables ==
  /\ tim6 = "enable"
  /\ tim6' = "idle" /\ txeie' = TRUE
  /\ UNCHANGED <<ring, tx_tail, txe, main, i, usart, dropped, calls, enqueued, sent>>

AdcSends ==
  /\ TrySend("adc")
  /\ txeie' = (txeie \/ Free >= PacketLen)
  /\ UNCHANGED <<tx_tail, txe, main, i, tim6, usart, sent>>

-----------------------------------------------------------------------------
(* USART2_IRQHandler, entered for an empty TDR or for a received byte.     *)

Drain ==
  IF txe /\ tx_head # tx_tail
  THEN /\ sent' = Append(sent, tx_buf[tx_tail])
       /\ tx_tail' = (tx_tail + 1) % Size
       /\ txe' = FALSE
       /\ UNCHANGED usart
  ELSE /\ usart' = IF txe THEN "clear" ELSE "idle"
       /\ UNCHANGED <<sent, tx_tail, txe>>

Tx ==
  /\ MainRuns /\ txeie /\ txe
  /\ Drain
  /\ UNCHANGED <<ring, txeie, main, i, tim6, dropped, calls, enqueued>>

Rx ==
  /\ MainRuns
  /\ Drain
  /\ UNCHANGED <<ring, txeie, main, i, tim6, dropped, calls, enqueued>>

ClearTxeie ==
  /\ usart = "clear"
  /\ usart' = "idle" /\ txeie' = FALSE
  /\ UNCHANGED <<ring, tx_tail, txe, main, i, tim6, dropped, calls, enqueued, sent>>

\* The shift register takes TDR.
Shift ==
  /\ ~txe
  /\ txe' = TRUE
  /\ UNCHANGED <<ring, tx_tail, txeie, main, i, tim6, usart, dropped, calls, enqueued, sent>>

-----------------------------------------------------------------------------
MainSends == EnqueueByte \/ EnableAfterByte

Next ==
  \/ SendLine \/ MainSends
  \/ Tim6Sends \/ Tim6Enables \/ AdcSends
  \/ Tx \/ Rx \/ ClearTxeie \/ Shift

\* The processor goes on with a handler it has entered, a pending interrupt is
\* served, the line keeps its rate, and interrupts leave time for the main loop.
Fairness ==
  SF_vars(MainSends) /\ WF_vars(Tim6Enables) /\ WF_vars(Tx) /\ WF_vars(ClearTxeie) /\ WF_vars(Shift)

Spec == Init /\ [][Next]_vars

FairSpec == Spec /\ Fairness
=============================================================================

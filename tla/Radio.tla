------------------------------- MODULE Radio -------------------------------
(***************************************************************************)
(* One nRF24L01 as 24L01.c drives it: the mode, the first packet received, *)
(* the packet to send, and the two flags RX_DR and TX_DS that pull the IRQ *)
(* pin low.  The pin raises EXTI1 when it falls, for either flag.          *)
(***************************************************************************)
EXTENDS Sequences, Naturals

CONSTANT Packet       \* what the thirty-two bytes can say

Chip == [mode: {"rx", "tx"}, fifo: Seq(Packet), out: Seq(Packet),
         flags: SUBSET {"RX_DR", "TX_DS"}]

\* After nrf24l01_init and nrf24l01_rx_mode.
FreshChip == [mode |-> "rx", fifo |-> << >>, out |-> << >>, flags |-> {}]

\* The pin is low.
IRQ(c) == c.flags # {}

-----------------------------------------------------------------------------
(* What the chip does by itself *)

Hears(c) == c.mode = "rx"

\* The queue of the chip holds three; the driver reads the first and throws the
\* others away, so they are not kept here.
Receive(c, packet) ==
  [c EXCEPT !.fifo = IF @ = << >> THEN << packet >> ELSE @,
            !.flags = @ \cup {"RX_DR"}]

Sends(c) == c.mode = "tx" /\ c.out # << >>

Sent(c) == [c EXCEPT !.out = Tail(@), !.flags = @ \cup {"TX_DS"}]

-----------------------------------------------------------------------------
(* What the driver does *)

\* nrf24l01_tx_mode, and the payload written by nrf24l01_tx_packet
StartTx(c, packet) == [c EXCEPT !.mode = "tx", !.out = Append(@, packet)]

\* Mutant of EndTx: the FLUSH_TX is forgotten.
EndTxUnflushed(c) ==
  { [c EXCEPT !.mode = "rx", !.flags = @ \ cleared] : cleared \in SUBSET c.flags }

\* The rest of nrf24l01_tx_packet once the pin is low, and nrf24l01_rx_mode.
\* STATUS is read without selecting the chip: what is written back, and so what
\* is cleared, is any of the flags.  A packet not yet sent is flushed.
EndTx(c) ==
  { [c EXCEPT !.mode = "rx", !.out = << >>, !.flags = @ \ cleared] :
      cleared \in SUBSET c.flags }

\* nrf24l01_rx_packet: STATUS is read and written back, which clears what was
\* read ...
WriteStatus(c, sta) == [c EXCEPT !.flags = @ \ sta]

RX_OK(sta) == "RX_DR" \in sta

\* ... then one packet is read, or what an empty queue gives: the last one
\* again, or nothing that makes sense; the others are flushed.
ReadPayload(c, last, junk) ==
  IF c.fifo = << >> THEN {last, junk} ELSE {Head(c.fifo)}

FlushRx(c) == [c EXCEPT !.fifo = << >>]
=============================================================================

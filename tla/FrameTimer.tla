---------------------------- MODULE FrameTimer ----------------------------
(***************************************************************************)
(* The receive side that uart_pc and uart_dut of the test fixture share    *)
(* (struct _uart and struct _timer of hal.h): a buffer that the receive    *)
(* interrupt fills, and a software timer that TIM3 advances every 2 ms and *)
(* that every byte restarts.  A frame ends when two ticks pass without a   *)
(* byte: the timer goes off and its state becomes TIME_OUT.                *)
(***************************************************************************)
EXTENDS Naturals, Sequences

CONSTANT MaxLen         \* MAX_LEN, the size of recv_buf

ASSUME MaxLenAssumption == MaxLen \in Nat \ {0}

\* struct _timer: cnt is restarted by every byte and frozen once it is 2.
Timer == [enable : BOOLEAN, state : {"NORMAL", "TIME_OUT"}, cnt : 0 .. 2]

\* A static structure, all zero at reset.
IdleTimer == [enable |-> FALSE, state |-> "NORMAL", cnt |-> 0]

\* The tail of the receive interrupts: the count restarts, the timer is on.
OnByte(t) == [enable |-> TRUE, state |-> t.state, cnt |-> 0]

\* Mutant of OnTick: nothing stops the count at 2.
OnTickUnfrozen(t) == IF t.enable THEN [t EXCEPT !.cnt = @ + 1] ELSE t

\* Mutant of OnTick: one tick without a byte is enough.
OnTickEarly(t) ==
  IF t.enable THEN [enable |-> FALSE, state |-> "TIME_OUT", cnt |-> 2] ELSE t

\* One TIM3 interrupt.
OnTick(t) ==
  IF ~t.enable       THEN t
  ELSE IF t.cnt = 0  THEN [t EXCEPT !.cnt = 1]
  ELSE [enable |-> FALSE, state |-> "TIME_OUT", cnt |-> 2]

\* timer.state = NORMAL, as the main loop writes it.
Acknowledge(t) == [t EXCEPT !.state = "NORMAL"]

\* Mutant of Store: the limit is checked one byte too late.
StoreOffByOne(recv, b) ==
  IF Len(recv) >= MaxLen THEN << >> ELSE Append(recv, b)

\* The bytes recv_buf[0 .. recv_len - 1] after one more: a full buffer is
\* forgotten, for the code sets recv_len back to 0.
Store(recv, b) == IF Len(recv) + 1 >= MaxLen THEN << >> ELSE Append(recv, b)
=============================================================================

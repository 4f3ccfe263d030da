----------------------------- MODULE MCNetwork -----------------------------
(* Network, for TLC: its constants are numbers.                             *)
EXTENDS Network

\* What tells states apart: once the registration thread of a node has ended no
\* action reads its recv_buf but to fill it again, so what is left there only
\* multiplies the states.
Buffer(b) ==
  IF b # Router /\ pc[b]["reg"] = "done" THEN NoPacket ELSE recv[b]

MCView ==
  << history, on, event, radio, [b \in Board |-> Buffer(b)], send, pc, cur, addr,
     pool >>
=============================================================================

------------------------------ MODULE DutPort ------------------------------
(***************************************************************************)
(* What uart_to_dut promises its callers about the device under test:      *)
(* every exchange ends, with something received or with a timeout; the     *)
(* supply is left alone while it lasts, and a timeout cuts it.             *)
(***************************************************************************)
VARIABLES outcome,      \* "none" while an exchange is under way
          powered       \* DUT_PWR, the supply of the device

vars == << outcome, powered >>

Init == outcome = "timeout" /\ powered = FALSE

Ask ==
  /\ outcome # "none"
  /\ outcome' = "none"
  /\ UNCHANGED powered

\* uart_to_dut returns 0.  What came need not be an answer to this exchange:
\* it may even be the end of an earlier one, of a device that is off by now.
Answered ==
  /\ outcome = "none"
  /\ outcome' = "answer"
  /\ UNCHANGED powered

\* uart_to_dut returns -1.
GivesUp ==
  /\ outcome = "none"
  /\ outcome' = "timeout"
  /\ powered' = FALSE

\* The commands switch the supply between exchanges.
Switch ==
  /\ outcome # "none"
  /\ powered' \in BOOLEAN
  /\ UNCHANGED outcome

Return == Answered \/ GivesUp

Next == Ask \/ Return \/ Switch

Spec == Init /\ [][Next]_vars /\ WF_vars(Return)
=============================================================================

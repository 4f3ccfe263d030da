--------------------------- MODULE FixtureProofs ---------------------------
(***************************************************************************)
(* Theorems about Fixture, for any set of commands, any delay of the       *)
(* bring-up and any number of outstanding replies.                         *)
(***************************************************************************)
EXTENDS Fixture, TLAPS

\* Every step is one of these.
LEMMA Steps ==
  ASSUME [Next]_vars
  PROVE  \/ PcSends \/ USB_LP_CAN1_RX0_IRQHandler \/ TIM4_IRQHandler \/ Dma
         \/ \E x \in Exchanges : Ask(x) \/ Answered(x) \/ GivesUp(x)
         \/ handle_nothing \/ Reply \/ test_value \/ test_pwr_on
         \/ test_pwr_on_end \/ test_pwr_off \/ force_pwr_on
         \/ \E x \in {"barcode", "temp", "hall"} : Asks(x)
         \/ Reports("barcode", {"GOOD", "BAD"}) \/ Reports("temp", {"VALUE"})
         \/ test_hall_magnet \/ test_hall_lost \/ test_hall_end
         \/ test_motor_load \/ test_motor_io \/ test_motor_voltage
         \/ test_motor_on \/ test_motor_off
         \/ test_can_reset \/ test_can_start \/ test_can_answer
         \/ test_can_wait \/ test_can_frame \/ test_can_none \/ test_can_late
         \/ calc_ad_value \/ handle_flag \/ NoBringUp \/ BringUpBegins
         \/ \E i \in 1 .. 3 : BringUpStep(i)
         \/ UNCHANGED vars
BY DEF Next, main, handle_pc_data, uart_to_dut, test_barcode, test_temp,
       test_hall, test_motor, test_can, part_of_power_on

-----------------------------------------------------------------------------
(* The inductive invariant *)

\* The magnet is near only while the device is asked again about it.
MagnetOnlyForHall == "magnet" \in outputs => pc[2] = "hall2"

\* During a bring-up no reply is outstanding, and as long as its verdict is
\* good every exchange so far was answered and counted; no exchange is counted
\* twice.
AckedSoFar ==
  /\ \A i \in 1 .. 3 :
       pc[2] = BringUp[i] =>
         /\ ~reply
         /\ acked <= i - 1
         /\ verdict = "GOOD" => pc[1] # "lost" /\ acked = i - 1
  /\ At("loop", "bring") => ~reply

\* The places inside a command belong to that command, which uart_pc holds
\* until its reply is out.
Serving ==
  /\ \A c \in {"barcode", "temp", "hall", "can"} : pc[2] = c => cmd = c
  /\ pc[2] = "hall2" => cmd = "hall"
  /\ pc[2] \in {"motor_vol", "motor_on", "motor_off"} => cmd = "motor"
  /\ pc[2] \in {"can_start", "can_wait", "can_decide", "can_late"} =>
       cmd = "can"
  /\ pc[2] = "supervise" => cmd = "pwr_on"
  /\ pc[2] = "reply" => cmd \in Known

\* What the receive buffer of the CAN holds once test_can has emptied it came
\* during this test.
BufferIsFresh ==
  pc[2] \in {"can_start", "can", "can_wait", "can_decide"} =>
    (canState /\ canRight => canFresh)

\* The bring-up begins in the loop in which it falls due.
BringUpAtOnce == bringUp => At("loop", "bring") /\ delay = -1

\* Main waits for the device exactly while an exchange is under way.
WaitsDuringExchange == pc[1] = "wait" <=> outcome = "none"

FixtureInv ==
  /\ TypeOK
  /\ Supervised
  /\ MagnetOnlyForHall
  /\ AckedSoFar
  /\ GoodMeansAcked
  /\ Serving
  /\ BufferIsFresh
  /\ CanGoodIsFresh
  /\ RepliesAccounted
  /\ BringUpAtOnce
  /\ WaitsDuringExchange

LEMMA FixtureInvInit == Init => FixtureInv
<1> SUFFICES ASSUME Init
             PROVE  FixtureInv
  OBVIOUS
<1> USE DEF Init, Dut!Init
<1>1. pc \in Places
  BY DEF Places, Loop
<1>2. /\ owed \in Int /\ acked \in 0 .. 3 /\ joined \in Nat
      /\ delay \in -1 .. DelayLoops - 1
  BY FixtureAssumption
<1>3. TypeOK
  BY <1>1, <1>2 DEF TypeOK, None, Packets, Readings
<1> QED
  BY <1>3
  DEF FixtureInv, Supervised, MagnetOnlyForHall, AckedSoFar, GoodMeansAcked,
      Serving, BufferIsFresh, CanGoodIsFresh, RepliesAccounted, RepliesToCome,
      BringUpAtOnce, WaitsDuringExchange, Due, Known, None, At, BringUp

\* The places of main, one kind after the other.
LEMMA PlacesOf ==
  /\ \A f \in Loop : << "loop", f >> \in Places
  /\ \A k \in {"ask", "wait", "got", "lost"}, x \in Exchanges :
       << k, x >> \in Places
  /\ \A f \in {"supervise", "can_ack", "can_start", "can_wait", "can_decide",
               "can_late", "motor_vol", "reply"} : << "run", f >> \in Places
BY DEF Places

\* Types need AckedSoFar: it bounds the count of acknowledged exchanges.
LEMMA FixtureTypeNext == FixtureInv /\ [Next]_vars => TypeOK'
<1> SUFFICES ASSUME TypeOK, AckedSoFar, [Next]_vars
             PROVE  TypeOK'
  BY DEF FixtureInv
<1> USE DEF At, Goto, supply, bench, bring, can, pcside
<1>1. CASE PcSends
  BY <1>1, FixtureAssumption DEF PcSends, TypeOK, Known, None, Readings
<1>2. CASE USB_LP_CAN1_RX0_IRQHandler
  BY <1>2, FixtureAssumption
  DEF USB_LP_CAN1_RX0_IRQHandler, TypeOK, Known, None, Readings
<1>3. CASE TIM4_IRQHandler
  BY <1>3, FixtureAssumption DEF TIM4_IRQHandler, TypeOK, Known, None, Readings
<1>4. CASE Dma
  BY <1>4, FixtureAssumption DEF Dma, TypeOK, Known, None, Readings
<1>5. CASE \E x \in Exchanges : Ask(x)
  <2>1. pc' \in Places
    BY <1>5, PlacesOf DEF Ask, Dut!Ask
  <2> QED
    BY <1>5, <2>1 DEF Ask, Dut!Ask, TypeOK, Packets, None
<1>6. CASE \E x \in Exchanges : Answered(x)
  <2>1. pc' \in Places
    BY <1>6, PlacesOf DEF Answered, Dut!Answered
  <2> QED
    BY <1>6, <2>1 DEF Answered, Dut!Answered, TypeOK, Packets, None
<1>7. CASE \E x \in Exchanges : GivesUp(x)
  <2>1. pc' \in Places
    BY <1>7, PlacesOf DEF GivesUp, Dut!GivesUp
  <2> QED
    BY <1>7, <2>1 DEF GivesUp, Dut!GivesUp, CutSupply, TypeOK, Packets, None
<1>8. CASE handle_nothing
  <2>1. pc' \in Places
    BY <1>8, PlacesOf DEF handle_nothing, Starts, Loop
  <2> QED
    BY <1>8, <2>1 DEF handle_nothing, Starts, TypeOK, Packets, None
<1>9. CASE Reply
  <2>1. pc' \in Places
    BY <1>9, PlacesOf DEF Reply, Loop
  <2>2. /\ owed' \in Int /\ acked' \in 0 .. 3 /\ joined' \in Nat
        /\ delay' \in -1 .. DelayLoops - 1
    BY <1>9, FixtureAssumption DEF Reply, CutSupply, TypeOK
  <2> QED
    BY <1>9, <2>1, <2>2 DEF Reply, CutSupply, TypeOK, Packets, None
<1>10. CASE test_value
  <2>1. pc' \in Places
    BY <1>10, PlacesOf DEF test_value, Starts, Pack
  <2> QED
    BY <1>10, <2>1 DEF test_value, Starts, Pack, TypeOK, Packets, None
<1>11. CASE test_pwr_on
  <2>1. pc' \in Places
    BY <1>11, PlacesOf DEF test_pwr_on, Starts
  <2> QED
    BY <1>11, <2>1 DEF test_pwr_on, Starts, TypeOK, Packets, None
<1>12. CASE test_pwr_on_end
  <2>1. pc' \in Places
    BY <1>12, PlacesOf DEF test_pwr_on_end, RestartDelay, Loop
  <2>2. /\ owed' \in Int /\ acked' \in 0 .. 3 /\ joined' \in Nat
        /\ delay' \in -1 .. DelayLoops - 1
    BY <1>12, FixtureAssumption DEF test_pwr_on_end, RestartDelay,
                                                      TypeOK
  <2> QED
    BY <1>12, <2>1, <2>2 DEF test_pwr_on_end, RestartDelay, TypeOK, Packets, None
<1>13. CASE test_pwr_off
  <2>1. pc' \in Places
    BY <1>13, PlacesOf DEF test_pwr_off, Starts, Pack
  <2> QED
    BY <1>13, <2>1
    DEF test_pwr_off, Starts, CutSupply, Pack, TypeOK, Packets, None
<1>14. CASE force_pwr_on
  <2>1. pc' \in Places
    BY <1>14, PlacesOf DEF force_pwr_on, Starts, Pack
  <2> QED
    BY <1>14, <2>1 DEF force_pwr_on, Starts, Pack, TypeOK, Packets, None
<1>15. CASE \E x \in {"barcode", "temp", "hall"} : Asks(x)
  <2>1. pc' \in Places
    BY <1>15, PlacesOf DEF Asks, Starts, Exchanges, BringUp
  <2> QED
    BY <1>15, <2>1 DEF Asks, Starts, TypeOK, Packets, None
<1>16. CASE Reports("barcode", {"GOOD", "BAD"})
  <2>1. pc' \in Places
    BY <1>16, PlacesOf DEF Reports, Pack
  <2> QED
    BY <1>16, <2>1 DEF Reports, Pack, TypeOK, Packets, None
<1>17. CASE Reports("temp", {"VALUE"})
  <2>1. pc' \in Places
    BY <1>17, PlacesOf DEF Reports, Pack
  <2> QED
    BY <1>17, <2>1 DEF Reports, Pack, TypeOK, Packets, None
<1>18. CASE test_hall_magnet
  <2>1. pc' \in Places
    BY <1>18, PlacesOf DEF test_hall_magnet, Pack, Exchanges, BringUp
  <2> QED
    BY <1>18, <2>1 DEF test_hall_magnet, Pack, TypeOK, Packets, None
<1>19. CASE test_hall_lost
  <2>1. pc' \in Places
    BY <1>19, PlacesOf DEF test_hall_lost, Pack
  <2> QED
    BY <1>19, <2>1 DEF test_hall_lost, Pack, TypeOK, Packets, None
<1>20. CASE test_hall_end
  <2>1. pc' \in Places
    BY <1>20, PlacesOf DEF test_hall_end, Pack
  <2> QED
    BY <1>20, <2>1 DEF test_hall_end, Pack, TypeOK, Packets, None
<1>21. CASE test_motor_load
  <2>1. pc' \in Places
    BY <1>21, PlacesOf DEF test_motor_load, Starts, Exchanges, BringUp
  <2> QED
    BY <1>21, <2>1
    DEF test_motor_load, Starts, CalcEffect, CutSupply, TypeOK, Packets, None
<1>22. CASE test_motor_io
  <2>1. pc' \in Places
    BY <1>22, PlacesOf DEF test_motor_io, Starts, Exchanges, BringUp
  <2> QED
    BY <1>22, <2>1 DEF test_motor_io, Starts, TypeOK, Packets, None
<1>23. CASE test_motor_voltage
  <2>1. pc' \in Places
    BY <1>23, PlacesOf DEF test_motor_voltage, Exchanges, BringUp
  <2> QED
    BY <1>23, <2>1 DEF test_motor_voltage, TypeOK, Packets, None
<1>24. CASE test_motor_on
  <2>1. pc' \in Places
    BY <1>24, PlacesOf DEF test_motor_on, Exchanges, BringUp
  <2> QED
    BY <1>24, <2>1 DEF test_motor_on, TypeOK, Packets, None
<1>25. CASE test_motor_off
  <2>1. pc' \in Places
    BY <1>25, PlacesOf DEF test_motor_off, Exchanges, BringUp
  <2> QED
    BY <1>25, <2>1 DEF test_motor_off, TypeOK, Packets, None
<1>26. CASE test_can_reset
  <2>1. pc' \in Places
    BY <1>26, PlacesOf DEF test_can_reset, Starts
  <2> QED
    BY <1>26, <2>1 DEF test_can_reset, Starts, TypeOK, Packets, None
<1>27. CASE test_can_start
  <2>1. pc' \in Places
    BY <1>27, PlacesOf DEF test_can_start, Exchanges, BringUp
  <2> QED
    BY <1>27, <2>1 DEF test_can_start, TypeOK, Packets, None
<1>28. CASE test_can_answer
  <2>1. pc' \in Places
    BY <1>28, PlacesOf DEF test_can_answer, Pack
  <2> QED
    BY <1>28, <2>1 DEF test_can_answer, Pack, TypeOK, Packets, None
<1>29. CASE test_can_wait
  <2>1. pc' \in Places
    BY <1>29, PlacesOf DEF test_can_wait
  <2> QED
    BY <1>29, <2>1 DEF test_can_wait, TypeOK, Packets, None
<1>30. CASE test_can_frame
  <2>1. pc' \in Places
    BY <1>30, PlacesOf DEF test_can_frame, Pack
  <2> QED
    BY <1>30, <2>1 DEF test_can_frame, Pack, TypeOK, Packets, None
<1>31. CASE test_can_none
  <2>1. pc' \in Places
    BY <1>31, PlacesOf DEF test_can_none
  <2> QED
    BY <1>31, <2>1 DEF test_can_none, TypeOK, Packets, None
<1>32. CASE test_can_late
  <2>1. pc' \in Places
    BY <1>32, PlacesOf DEF test_can_late, Pack
  <2> QED
    BY <1>32, <2>1 DEF test_can_late, Pack, CutSupply, TypeOK, Packets, None
<1>33. CASE calc_ad_value
  <2>1. pc' \in Places
    BY <1>33, PlacesOf DEF calc_ad_value, Loop
  <2> QED
    BY <1>33, <2>1
    DEF calc_ad_value, CalcEffect, CutSupply, TypeOK, Packets, None
<1>34. CASE handle_flag
  <2>1. pc' \in Places
    BY <1>34, PlacesOf DEF handle_flag, Loop
  <2>2. /\ owed' \in Int /\ acked' \in 0 .. 3 /\ joined' \in Nat
        /\ delay' \in -1 .. DelayLoops - 1
    BY <1>34, FixtureAssumption DEF handle_flag, TypeOK
  <2> QED
    BY <1>34, <2>1, <2>2 DEF handle_flag, TypeOK, Packets, None
<1>35. CASE NoBringUp
  <2>1. pc' \in Places
    BY <1>35, PlacesOf DEF NoBringUp, Loop
  <2> QED
    BY <1>35, <2>1 DEF NoBringUp, TypeOK, Packets, None
<1>36. CASE BringUpBegins
  <2>1. pc' \in Places
    BY <1>36, PlacesOf DEF BringUpBegins, Exchanges, BringUp
  <2>2. /\ owed' \in Int /\ acked' \in 0 .. 3 /\ joined' \in Nat
        /\ delay' \in -1 .. DelayLoops - 1
    BY <1>36, FixtureAssumption DEF BringUpBegins, TypeOK
  <2> QED
    BY <1>36, <2>1, <2>2 DEF BringUpBegins, TypeOK, Packets, None
<1>37. CASE \E i \in 1 .. 3 : BringUpStep(i)
  <2> SUFFICES ASSUME NEW i \in 1 .. 3, BringUpStep(i)
               PROVE  TypeOK'
    BY <1>37
  <2>1. pc' \in Places
    <3>1. CASE i = 3
      BY <3>1, PlacesOf DEF BringUpStep, Loop
    <3>2. CASE i \in {1, 2}
      <4>1. BringUp[i + 1] \in Exchanges
        BY <3>2 DEF BringUp, Exchanges
      <4>2. pc' = << "ask", BringUp[i + 1] >>
        BY <3>2 DEF BringUpStep
      <4> QED
        BY <4>1, <4>2, PlacesOf
    <3> QED
      BY <3>1, <3>2
  <2>2. acked' \in 0 .. 3
    BY DEF BringUpStep, AckedSoFar, TypeOK
  <2>3. reply' \in BOOLEAN /\ peripherals' \in BOOLEAN
    BY DEF BringUpStep, TypeOK
  <2> QED
    BY <2>1, <2>2, <2>3 DEF BringUpStep, TypeOK
<1>38. CASE UNCHANGED vars
  BY <1>38, FixtureAssumption DEF vars, TypeOK, Known, None, Readings
<1> QED
  BY Steps, <1>1, <1>2, <1>3, <1>4, <1>5, <1>6, <1>7, <1>8, <1>9, <1>10,
     <1>11, <1>12, <1>13, <1>14, <1>15, <1>16, <1>17, <1>18, <1>19, <1>20,
     <1>21, <1>22, <1>23, <1>24, <1>25, <1>26, <1>27, <1>28, <1>29, <1>30,
     <1>31, <1>32, <1>33, <1>34, <1>35, <1>36, <1>37, <1>38

LEMMA FixtureInvNext == FixtureInv /\ [Next]_vars => FixtureInv'
<1> SUFFICES ASSUME FixtureInv, [Next]_vars
             PROVE  FixtureInv'
  OBVIOUS
<1>0. /\ TypeOK'
      /\ owed \in Int /\ owed' \in Int /\ joined \in Nat /\ joined' \in Nat
      /\ acked \in 0 .. 3 /\ acked' \in 0 .. 3
  BY FixtureTypeNext DEF FixtureInv, TypeOK
<1> USE DEF FixtureInv, Supervised, MagnetOnlyForHall, AckedSoFar,
        GoodMeansAcked, Serving, BufferIsFresh, CanGoodIsFresh,
        RepliesAccounted, RepliesToCome, BringUpAtOnce, WaitsDuringExchange,
        Due, Known, None,
        At, Goto, BringUp, supply, bench, bring, can, pcside
<1>1. CASE PcSends
  BY <1>0, <1>1 DEF PcSends
<1>2. CASE USB_LP_CAN1_RX0_IRQHandler
  <2>1. canRight' => canFresh'
    BY <1>0, <1>2 DEF USB_LP_CAN1_RX0_IRQHandler, TypeOK
  <2>2. canFresh => canFresh'
    BY <1>0, <1>2 DEF USB_LP_CAN1_RX0_IRQHandler, TypeOK
  <2>3. BufferIsFresh' /\ CanGoodIsFresh'
    BY <1>2, <2>1, <2>2 DEF USB_LP_CAN1_RX0_IRQHandler
  <2> QED
    BY <1>0, <1>2, <2>3 DEF USB_LP_CAN1_RX0_IRQHandler
<1>3. CASE TIM4_IRQHandler
  BY <1>0, <1>3 DEF TIM4_IRQHandler
<1>4. CASE Dma
  BY <1>0, <1>4 DEF Dma
<1>5. CASE \E x \in Exchanges : Ask(x)
  BY <1>0, <1>5 DEF Ask, Exchanges, Dut!Ask
<1>6. CASE \E x \in Exchanges : Answered(x)
  BY <1>0, <1>6 DEF Answered, Exchanges, Dut!Answered
<1>7. CASE \E x \in Exchanges : GivesUp(x)
  BY <1>0, <1>7 DEF GivesUp, Exchanges, Dut!GivesUp, CutSupply
<1>8. CASE handle_nothing
  BY <1>0, <1>8 DEF handle_nothing, Starts
<1>9. CASE Reply
  BY <1>0, <1>9 DEF Reply, CutSupply
<1>10. CASE test_value
  BY <1>0, <1>10 DEF test_value, Starts, Pack
<1>11. CASE test_pwr_on
  BY <1>0, <1>11 DEF test_pwr_on, Starts
<1>12. CASE test_pwr_on_end
  BY <1>0, <1>12 DEF test_pwr_on_end, RestartDelay
<1>13. CASE test_pwr_off
  BY <1>0, <1>13 DEF test_pwr_off, Starts, CutSupply, Pack
<1>14. CASE force_pwr_on
  BY <1>0, <1>14 DEF force_pwr_on, Starts, Pack
<1>15. CASE \E x \in {"barcode", "temp", "hall"} : Asks(x)
  BY <1>0, <1>15 DEF Asks, Starts
<1>16. CASE Reports("barcode", {"GOOD", "BAD"})
  BY <1>0, <1>16 DEF Reports, Pack
<1>17. CASE Reports("temp", {"VALUE"})
  BY <1>0, <1>17 DEF Reports, Pack
<1>18. CASE test_hall_magnet
  BY <1>0, <1>18 DEF test_hall_magnet, Pack
<1>19. CASE test_hall_lost
  BY <1>0, <1>19 DEF test_hall_lost, Pack
<1>20. CASE test_hall_end
  BY <1>0, <1>20 DEF test_hall_end, Pack
<1>21. CASE test_motor_load
  BY <1>0, <1>21 DEF test_motor_load, Starts, CalcEffect, CutSupply
<1>22. CASE test_motor_io
  BY <1>0, <1>22 DEF test_motor_io, Starts
<1>23. CASE test_motor_voltage
  BY <1>0, <1>23 DEF test_motor_voltage
<1>24. CASE test_motor_on
  BY <1>0, <1>24 DEF test_motor_on
<1>25. CASE test_motor_off
  BY <1>0, <1>25 DEF test_motor_off
<1>26. CASE test_can_reset
  BY <1>0, <1>26 DEF test_can_reset, Starts
<1>27. CASE test_can_start
  BY <1>0, <1>27 DEF test_can_start
<1>28. CASE test_can_answer
  BY <1>0, <1>28 DEF test_can_answer, Pack
<1>29. CASE test_can_wait
  BY <1>0, <1>29 DEF test_can_wait
<1>30. CASE test_can_frame
  BY <1>0, <1>30 DEF test_can_frame, Pack
<1>31. CASE test_can_none
  BY <1>0, <1>31 DEF test_can_none
<1>32. CASE test_can_late
  BY <1>0, <1>32 DEF test_can_late, Pack, CutSupply
<1>33. CASE calc_ad_value
  BY <1>0, <1>33 DEF calc_ad_value, CalcEffect, CutSupply
<1>34. CASE handle_flag
  <2>1. Due(delay' # -1) + Due(bringUp') = Due(delay # -1) + Due(bringUp)
    <3>1. ~bringUp \/ delay = -1
      OBVIOUS
    <3>2. /\ delay \in -1 .. DelayLoops - 1 /\ bringUp \in BOOLEAN
          /\ DelayLoops \in Nat
      BY FixtureAssumption DEF TypeOK
    <3>3. CASE delay = -1
      BY <1>34, <3>2, <3>3 DEF handle_flag
    <3>4. CASE delay # -1
      <4>1. ~bringUp /\ delay \in Nat
        BY <3>1, <3>2, <3>4
      <4>2. CASE delay + 1 >= DelayLoops
        <5>1. delay >= 0 /\ delay + 1 >= DelayLoops
          BY <4>1, <4>2
        <5>2. delay' = -1
          BY <1>34, <5>1 DEF handle_flag
        <5>3. bringUp'
          BY <1>34, <5>1, Zenon DEF handle_flag
        <5> QED
          BY <3>4, <4>1, <5>2, <5>3
      <4>3. CASE ~(delay + 1 >= DelayLoops)
        <5>1. delay' = delay + 1 /\ ~bringUp'
          BY <1>34, <3>2, <3>4, <4>1, <4>3 DEF handle_flag
        <5>2. delay' # -1
          BY <4>1, <5>1
        <5> QED
          BY <3>4, <4>1, <5>1, <5>2
      <4> QED
        BY <4>2, <4>3
    <3> QED
      BY <3>3, <3>4
  <2>2. Due(reply') = 0 /\ owed' = owed - Due(reply)
    BY <1>34 DEF handle_flag, TypeOK
  <2>3. RepliesAccounted'
    <3>1. /\ Due(cmd' \in Known) = Due(cmd \in Known) /\ joined' = joined
          /\ Due(\E i \in 1 .. 3 : pc[2] = BringUp[i]) = 0
          /\ Due(\E i \in 1 .. 3 : pc'[2] = BringUp[i]) = 0
      BY <1>34 DEF handle_flag
    <3> QED
      BY <2>1, <2>2, <3>1 DEF TypeOK
  <2> QED
    BY <1>0, <1>34, <2>3 DEF handle_flag
<1>35. CASE NoBringUp
  BY <1>0, <1>35 DEF NoBringUp
<1>36. CASE BringUpBegins
  BY <1>0, <1>36 DEF BringUpBegins
<1>37. CASE \E i \in 1 .. 3 : BringUpStep(i)
  <2>1. CASE BringUpStep(1)
    BY <1>0, <2>1 DEF BringUpStep
  <2>2. CASE BringUpStep(2)
    BY <1>0, <2>2 DEF BringUpStep
  <2>3. CASE BringUpStep(3)
    BY <1>0, <2>3 DEF BringUpStep
  <2> QED
    BY <1>37, <2>1, <2>2, <2>3
<1>38. CASE UNCHANGED vars
  BY <1>0, <1>38 DEF vars
<1> QED
  BY Steps, <1>1, <1>2, <1>3, <1>4, <1>5, <1>6, <1>7, <1>8, <1>9, <1>10,
     <1>11, <1>12, <1>13, <1>14, <1>15, <1>16, <1>17, <1>18, <1>19, <1>20,
     <1>21, <1>22, <1>23, <1>24, <1>25, <1>26, <1>27, <1>28, <1>29, <1>30,
     <1>31, <1>32, <1>33, <1>34, <1>35, <1>36, <1>37, <1>38

\* What every theorem below follows from.
LEMMA FixtureInvariant == Spec => []FixtureInv
BY FixtureInvInit, FixtureInvNext, PTL DEF Spec

-----------------------------------------------------------------------------
(* The theorems *)

\* Every variable keeps its type; in particular the delay of the bring-up never
\* runs past its end.
THEOREM FixtureTypeCorrect == Spec => []TypeOK
BY FixtureInvariant, PTL DEF FixtureInv

\* No path through the commands, the bring-up, the timeouts and calc_ad_value
\* leaves the device on a supply that nobody watches, but for force_pwr_on.
THEOREM FixtureSupervised == Spec => []Supervised
BY FixtureInvariant, PTL DEF FixtureInv

\* part_of_power_on never lets handle_flag report GOOD for a device that left
\* one of its three exchanges unanswered.
THEOREM FixtureGoodMeansAcked == Spec => []GoodMeansAcked
BY FixtureInvariant, PTL DEF FixtureInv

\* test_can never passes a device on the frame of an earlier test.
THEOREM FixtureCanGoodIsFresh == Spec => []CanGoodIsFresh
BY FixtureInvariant, PTL DEF FixtureInv

\* test_hall takes the magnet away again on every path.
THEOREM FixtureMagnetReleased == Spec => []MagnetReleased
<1>1. FixtureInv => MagnetReleased
  BY DEF FixtureInv, MagnetOnlyForHall, MagnetReleased, At
<1> QED
  BY <1>1, FixtureInvariant, PTL

\* Neither the flags between test_pwr_on and handle_flag nor any command that
\* comes between them loses or doubles a reply: the PC waits for those still to
\* come, and for one more per pwr_on that came while the delay of another ran.
THEOREM FixtureRepliesAccounted == Spec => []RepliesAccounted
BY FixtureInvariant, PTL DEF FixtureInv

\* The direct reply of uart_to_pc and the delayed one of handle_flag together
\* never answer more commands than the PC sent.
THEOREM FixtureNoUnsolicitedReply == Spec => []NoUnsolicitedReply
<1>1. FixtureInv => NoUnsolicitedReply
  BY DEF FixtureInv, TypeOK, RepliesAccounted, RepliesToCome, Due,
         NoUnsolicitedReply
<1> QED
  BY <1>1, FixtureInvariant, PTL

-----------------------------------------------------------------------------
(* The fixture keeps to DutPort *)

\* A step that leaves main where it does not wait is, for the device, a switch
\* of its supply or nothing.
LEMMA SwitchOrStutter ==
  ASSUME TypeOK', WaitsDuringExchange, pc[1] # "wait", UNCHANGED outcome
  PROVE  [Dut!Next]_(Dut!vars)
BY DEF TypeOK, WaitsDuringExchange, Dut!Next, Dut!Switch

\* Every step of the fixture is a step of DutPort or leaves it alone.
LEMMA FixtureStepsOfDut ==
  FixtureInv /\ FixtureInv' /\ [Next]_vars => [Dut!Next]_(Dut!vars)
<1> SUFFICES ASSUME FixtureInv, FixtureInv', [Next]_vars
             PROVE  [Dut!Next]_(Dut!vars)
  OBVIOUS
<1>0. TypeOK' /\ WaitsDuringExchange
  BY DEF FixtureInv
<1> USE DEF At, Goto, supply, bench, bring, can, pcside
<1>1. CASE \/ PcSends \/ USB_LP_CAN1_RX0_IRQHandler \/ TIM4_IRQHandler \/ Dma
           \/ UNCHANGED vars
  BY <1>1 DEF PcSends, USB_LP_CAN1_RX0_IRQHandler, TIM4_IRQHandler, Dma, vars,
              Dut!vars
<1>2. CASE \E x \in Exchanges : Ask(x) \/ Answered(x) \/ GivesUp(x)
  BY <1>2 DEF Ask, Answered, GivesUp, Dut!Next, Dut!Return
<1>3. ASSUME pc[1] # "wait", UNCHANGED outcome
      PROVE  [Dut!Next]_(Dut!vars)
  BY <1>0, <1>3, SwitchOrStutter
<1>4. CASE handle_nothing
  BY <1>3, <1>4 DEF Starts, handle_nothing
<1>5. CASE Reply
  BY <1>3, <1>5 DEF Reply
<1>6. CASE test_value
  BY <1>3, <1>6 DEF Pack, Starts, test_value
<1>7. CASE test_pwr_on
  BY <1>3, <1>7 DEF Starts, test_pwr_on
<1>8. CASE test_pwr_on_end
  BY <1>3, <1>8 DEF test_pwr_on_end, RestartDelay
<1>9. CASE test_pwr_off
  BY <1>3, <1>9 DEF Pack, Starts, test_pwr_off
<1>10. CASE force_pwr_on
  BY <1>3, <1>10 DEF Pack, Starts, force_pwr_on
<1>11. CASE \E x \in {"barcode", "temp", "hall"} : Asks(x)
  BY <1>3, <1>11 DEF Asks, Starts
<1>12. CASE Reports("barcode", {"GOOD", "BAD"})
  BY <1>3, <1>12 DEF Pack, Reports
<1>13. CASE Reports("temp", {"VALUE"})
  BY <1>3, <1>13 DEF Pack, Reports
<1>14. CASE test_hall_magnet
  BY <1>3, <1>14 DEF Pack, test_hall_magnet
<1>15. CASE test_hall_lost
  BY <1>3, <1>15 DEF Pack, test_hall_lost
<1>16. CASE test_hall_end
  BY <1>3, <1>16 DEF Pack, test_hall_end
<1>17. CASE test_motor_load
  BY <1>3, <1>17 DEF Starts, test_motor_load
<1>18. CASE test_motor_io
  BY <1>3, <1>18 DEF Starts, test_motor_io
<1>19. CASE test_motor_voltage
  BY <1>3, <1>19 DEF test_motor_voltage
<1>20. CASE test_motor_on
  BY <1>3, <1>20 DEF test_motor_on
<1>21. CASE test_motor_off
  BY <1>3, <1>21 DEF test_motor_off
<1>22. CASE test_can_reset
  BY <1>3, <1>22 DEF Starts, test_can_reset
<1>23. CASE test_can_start
  BY <1>3, <1>23 DEF test_can_start
<1>24. CASE test_can_answer
  BY <1>3, <1>24 DEF Pack, test_can_answer
<1>25. CASE test_can_wait
  BY <1>3, <1>25 DEF test_can_wait
<1>26. CASE test_can_frame
  BY <1>3, <1>26 DEF Pack, test_can_frame
<1>27. CASE test_can_none
  BY <1>3, <1>27 DEF test_can_none
<1>28. CASE test_can_late
  BY <1>3, <1>28 DEF Pack, test_can_late
<1>29. CASE calc_ad_value
  BY <1>3, <1>29 DEF calc_ad_value
<1>30. CASE handle_flag
  BY <1>3, <1>30 DEF handle_flag
<1>31. CASE NoBringUp
  BY <1>3, <1>31 DEF NoBringUp
<1>32. CASE BringUpBegins
  BY <1>3, <1>32 DEF BringUpBegins
<1>33. CASE \E i \in 1 .. 3 : BringUpStep(i)
  BY <1>3, <1>33 DEF BringUpStep
<1> QED
  BY Steps, <1>1, <1>2, <1>4, <1>5, <1>6, <1>7, <1>8, <1>9, <1>10, <1>11,
     <1>12, <1>13, <1>14, <1>15, <1>16, <1>17, <1>18, <1>19, <1>20, <1>21,
     <1>22, <1>23, <1>24, <1>25, <1>26, <1>27, <1>28, <1>29, <1>30, <1>31,
     <1>32, <1>33

\* Whatever the commands, the bring-up and the supervision do, the supply is
\* switched only between two calls of uart_to_dut.
THEOREM FixtureUsesDutPort == Spec => UsesDutPort
<1>1. Init => Dut!Init
  BY DEF Init
<1> QED
  BY <1>1, FixtureInvariant, FixtureStepsOfDut, PTL DEF Spec, UsesDutPort
=============================================================================

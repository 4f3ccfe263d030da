------------------------------ MODULE Fixture ------------------------------
(***************************************************************************)
(* The main loop of the test fixture (main.c) over its two links: the      *)
(* commands of the PC, the supply of the device under test and its         *)
(* supervision by the ADC, the delayed bring-up after pwr_on, the replies, *)
(* and the CAN test with its own interrupt and its one-shot TIM4.          *)
(*                                                                         *)
(* The PC link is what PcLink promises a polite PC (one command at a time, *)
(* each run once), the device link is DutPort, which DutLink implements.   *)
(* Main is sequential; the CAN and TIM4 interrupts and the ADC's DMA come  *)
(* between any two of its steps.                                           *)
(***************************************************************************)
EXTENDS Integers

CONSTANTS
  Commands,     \* the texts the PC sends
  DelayLoops,   \* loops of main from pwr_on to the bring-up (5e3 in the code)
  MaxOwed       \* the PC sends no command while it waits for this many replies,
                \* those that will never come among them

Known == {"measure", "pwr_on", "pwr_off", "barcode", "can", "motor", "hall",
          "temp", "force_pwr_on"}

ASSUME FixtureAssumption ==
  /\ Commands \subseteq Known \union {"unknown"}
  /\ DelayLoops \in Nat \ {0}
  /\ MaxOwed \in Nat \ {0}

None == "none"

\* The exchanges main has with the device, named after what is sent.
BringUp   == << "oled", "led", "beep" >>
Exchanges == {"oled", "led", "beep", "barcode", "can", "motor_on", "motor_off",
              "hall", "hall2", "temp"}

\* The places of main: the functions of its loop, the exchanges, and the
\* places inside a command where something else can come between.
Loop   == {"handle", "calc", "flag", "bring"}
Places ==
  {<< "loop", f >> : f \in Loop}
    \union ({"ask", "wait", "got", "lost"} \X Exchanges)
    \union ({"run"} \X {"supervise", "can_ack", "can_start", "can_wait",
                        "can_decide", "can_late", "motor_vol", "reply"})

Packets  == {"GOOD", "BAD", "ERROR_COM", "ERROR_VOL", "ERROR_IO", "VALUE", None}
Readings == {"low", "mid", "bad"}

VARIABLES
  pc,           \* where main is
  cmd,          \* the command uart_pc holds (state = RECEIVED), else None
  owed,         \* how many replies the PC still waits for
  packet,       \* uart_pc.send_buf, from when it is packed until it is sent
  outcome,      \* the exchange with the device (DutPort)
  powered,      \* DUT_PWR
  adcEnable,    \* adc.enable
  reading,      \* what ad_value shows: "low" and "mid" are sound voltages with a
                \* current up to 100 mA and up to 300 mA, "bad" is anything else
  delay,        \* power_on_delay: tmp while it is enabled, else -1
  bringUp,      \* cmd_to_dut.enable
  verdict,      \* cmd_to_dut.state
  reply,        \* reply_to_pc.enable
  outputs,      \* which of the motor's load and the magnet's relay are on
  canState,     \* can.state = RECEIVED
  canRight,     \* can_rxbuf.Data = can_data
  tim4,         \* TIM4 counts: "off", "own" or, from an earlier test, "stale"
  expired4,     \* timer4.state = TIME_OUT, by which of them; else "no"
  acked,        \* history: the answers of the last bring-up
  peripherals,  \* history: the device has all its peripherals on
  joined,       \* history: how often a pwr_on came while the delay of another ran
  forced,       \* history: the supply was switched on by force_pwr_on
  canFresh      \* history: a right CAN frame came during this test

supply == << powered, adcEnable, forced, peripherals >>
bring  == << delay, bringUp, verdict, reply, acked, joined >>
can    == << canState, canRight, tim4, expired4, canFresh >>
pcside == << cmd, owed, packet >>
bench  == << reading, outputs >>

vars == << pc, pcside, outcome, supply, bench, bring, can >>

Dut == INSTANCE DutPort

Init ==
  /\ pc = << "loop", "handle" >>
  /\ cmd = None /\ owed = 0 /\ packet = None
  /\ Dut!Init /\ adcEnable = FALSE /\ forced = FALSE /\ peripherals = FALSE
  /\ reading = "bad" /\ outputs = {}
  /\ delay = -1 /\ bringUp = FALSE /\ verdict = "BAD" /\ reply = FALSE
  /\ acked = 0 /\ joined = 0
  /\ canState = FALSE /\ canRight = FALSE /\ tim4 = "off" /\ expired4 = "no"
  /\ canFresh = FALSE

Goto(kind, place) == pc' = << kind, place >>

At(kind, place) == pc = << kind, place >>

\* DUT_PWR_OFF; the supervision goes with it or stays on.
CutSupply(supervised) ==
  /\ powered' = FALSE
  /\ adcEnable' = supervised
  /\ forced' = FALSE
  /\ peripherals' = FALSE

-----------------------------------------------------------------------------
(* Exchanges with the device: uart_to_dut *)

Ask(x) ==
  /\ At("ask", x)
  /\ Dut!Ask
  /\ Goto("wait", x)
  /\ UNCHANGED << pcside, adcEnable, forced, peripherals, bench, bring, can >>

Answered(x) ==
  /\ At("wait", x)
  /\ Dut!Answered
  /\ Goto("got", x)
  /\ UNCHANGED << pcside, adcEnable, forced, peripherals, bench, bring, can >>

\* Mutant of GivesUp: the verdict is not spoiled.
GivesUpSilently(x) ==
  /\ At("wait", x)
  /\ Dut!GivesUp
  /\ CutSupply(FALSE)
  /\ Goto("lost", x)
  /\ UNCHANGED << pcside, bench, bring, can >>

\* The timeout branch: whoever asked, the supply goes and the verdict with it.
GivesUp(x) ==
  /\ At("wait", x)
  /\ Dut!GivesUp
  /\ CutSupply(FALSE)
  /\ verdict' = "ERROR_COM"
  /\ Goto("lost", x)
  /\ UNCHANGED << pcside, bench, delay, bringUp, reply, acked, joined, can >>

uart_to_dut(x) == Ask(x) \/ Answered(x) \/ GivesUp(x)

\* packet_hex or packet_float, then on to uart_to_pc.
Pack(p) ==
  /\ packet' = p
  /\ Goto("run", "reply")
  /\ UNCHANGED << cmd, owed >>

-----------------------------------------------------------------------------
(* The PC and the commands it sends *)

\* execute_cmd finds no entry for an unknown text, so nobody will answer it.
PcSends ==
  /\ cmd = None
  /\ owed < MaxOwed
  /\ \E c \in Commands :
       /\ cmd' = c
       /\ owed' = IF c \in Known THEN owed + 1 ELSE owed
  /\ UNCHANGED << pc, packet, outcome, supply, bench, bring, can >>

Starts(c) == At("loop", "handle") /\ cmd = c

handle_nothing ==
  /\ Starts(None) \/ Starts("unknown")
  /\ cmd' = None
  /\ Goto("loop", "calc")
  /\ UNCHANGED << owed, packet, outcome, supply, bench, bring, can >>

\* The last statement of a command, and of handle_pc_data: the link is free.
\* test_barcode cuts the supply after its reply and leaves the ADC to notice.
Reply ==
  /\ At("run", "reply")
  /\ packet' = None
  /\ owed' = owed - 1
  /\ cmd' = None
  /\ Goto("loop", "calc")
  /\ IF cmd = "barcode" THEN CutSupply(adcEnable) ELSE UNCHANGED supply
  /\ UNCHANGED << outcome, bench, bring, can >>

test_value ==
  /\ Starts("measure")
  /\ Pack("VALUE")
  /\ UNCHANGED << outcome, supply, bench, bring, can >>

test_pwr_on ==
  /\ Starts("pwr_on")
  /\ powered' = TRUE
  /\ Goto("run", "supervise")
  /\ UNCHANGED << pcside, outcome, adcEnable, forced, peripherals, bench, bring,
                  can >>

\* The delay begins anew; a pwr_on it was running for gets no reply of its own.
RestartDelay ==
  /\ delay' = 0
  /\ joined' = IF delay = -1 THEN joined ELSE joined + 1

\* Mutant of test_pwr_on_end: the ADC is not switched on.
PwrOnUnsupervised ==
  /\ At("run", "supervise")
  /\ forced' = FALSE
  /\ RestartDelay
  /\ cmd' = None
  /\ Goto("loop", "calc")
  /\ UNCHANGED << owed, packet, outcome, powered, adcEnable, peripherals, bench,
                  bringUp, verdict, reply, acked, can >>

\* 200 ms later; the reply is left to handle_flag.
test_pwr_on_end ==
  /\ At("run", "supervise")
  /\ adcEnable' = TRUE
  /\ forced' = FALSE
  /\ RestartDelay
  /\ cmd' = None
  /\ Goto("loop", "calc")
  /\ UNCHANGED << owed, packet, outcome, powered, peripherals, bench, bringUp,
                  verdict, reply, acked, can >>

test_pwr_off ==
  /\ Starts("pwr_off")
  /\ CutSupply(FALSE)
  /\ Pack("GOOD")
  /\ UNCHANGED << outcome, bench, bring, can >>

force_pwr_on ==
  /\ Starts("force_pwr_on")
  /\ powered' = TRUE
  /\ forced' = TRUE
  /\ Pack("GOOD")
  /\ UNCHANGED << outcome, adcEnable, peripherals, bench, bring, can >>

\* test_barcode, test_temp and test_hall begin with an exchange.
Asks(c) ==
  /\ Starts(c)
  /\ Goto("ask", c)
  /\ UNCHANGED << pcside, outcome, supply, bench, bring, can >>

\* Exchanges whose answer, or whose absence, is all the command reports.
Reports(x, answers) ==
  /\ \/ At("got", x) /\ \E p \in answers : Pack(p)
     \/ At("lost", x) /\ Pack("ERROR_COM")
  /\ UNCHANGED << outcome, supply, bench, bring, can >>

test_barcode == Asks("barcode") \/ Reports("barcode", {"GOOD", "BAD"})

test_temp == Asks("temp") \/ Reports("temp", {"VALUE"})

\* With a magnet near, the device says 0, and is asked again without it.
test_hall_magnet ==
  /\ At("got", "hall")
  /\ \/ /\ Pack("BAD")
        /\ UNCHANGED outputs
     \/ /\ outputs' = outputs \union {"magnet"}
        /\ packet' = "VALUE"
        /\ Goto("ask", "hall2")
        /\ UNCHANGED << cmd, owed >>
  /\ UNCHANGED << reading, outcome, supply, bring, can >>

test_hall_lost ==
  /\ At("lost", "hall")
  /\ Pack("ERROR_COM")
  /\ UNCHANGED << outcome, supply, bench, bring, can >>

\* Mutant of test_hall_end: the magnet stays when the device gives no answer.
HallEndEarlyReturn ==
  /\ \/ /\ At("got", "hall2") /\ Pack("VALUE")
        /\ outputs' = outputs \ {"magnet"}
     \/ /\ At("lost", "hall2") /\ Pack("ERROR_COM")
        /\ UNCHANGED outputs
  /\ UNCHANGED << reading, outcome, supply, bring, can >>

test_hall_end ==
  /\ \/ At("got", "hall2") /\ Pack("VALUE")
     \/ At("lost", "hall2") /\ Pack("ERROR_COM")
  /\ outputs' = outputs \ {"magnet"}
  /\ UNCHANGED << reading, outcome, supply, bring, can >>

test_hall ==
  Asks("hall") \/ test_hall_magnet \/ test_hall_lost \/ test_hall_end

-----------------------------------------------------------------------------
(* The supervision of the supply: calc_ad_value *)

\* Until the bring-up is due 100 mA are the limit, then 300 mA.
Faulty == reading = "bad" \/ (reading = "mid" /\ ~bringUp)

CalcEffect ==
  IF adcEnable /\ Faulty THEN CutSupply(FALSE) ELSE UNCHANGED supply

calc_ad_value ==
  /\ At("loop", "calc")
  /\ CalcEffect
  /\ Goto("loop", "flag")
  /\ UNCHANGED << pcside, outcome, bench, bring, can >>

-----------------------------------------------------------------------------
(* test_motor *)

\* The pin is read, the load switched on and the voltage of the motor measured.
test_motor_load ==
  /\ Starts("motor")
  /\ outputs' = outputs \union {"load"}
  /\ CalcEffect
  /\ Goto("run", "motor_vol")
  /\ UNCHANGED << pcside, reading, outcome, bring, can >>

\* Or the pin is already high.
test_motor_io ==
  /\ Starts("motor")
  /\ packet' = "ERROR_IO"
  /\ Goto("ask", "motor_off")
  /\ UNCHANGED << cmd, owed, outcome, supply, bench, bring, can >>

test_motor_voltage ==
  /\ At("run", "motor_vol")
  /\ \/ packet' = "ERROR_VOL" /\ Goto("ask", "motor_off")
     \/ Goto("ask", "motor_on") /\ UNCHANGED packet
  /\ UNCHANGED << cmd, owed, outcome, supply, bench, bring, can >>

test_motor_on ==
  /\ \/ At("got", "motor_on") /\ packet' \in {"GOOD", "BAD"}
     \/ At("lost", "motor_on") /\ packet' = "ERROR_COM"
  /\ Goto("ask", "motor_off")
  /\ UNCHANGED << cmd, owed, outcome, supply, bench, bring, can >>

\* Whether the motor was switched off is not reported.
test_motor_off ==
  /\ At("got", "motor_off") \/ At("lost", "motor_off")
  /\ Goto("run", "reply")
  /\ UNCHANGED << pcside, outcome, supply, bench, bring, can >>

test_motor == test_motor_load \/ test_motor_io \/ test_motor_voltage
                \/ test_motor_on \/ test_motor_off

-----------------------------------------------------------------------------
(* test_can and its interrupts *)

\* Mutant of test_can_reset: can.state keeps the frame of an earlier test.
CanResetForgets ==
  /\ Starts("can")
  /\ canFresh' = FALSE
  /\ expired4' = "no"
  /\ tim4' = IF tim4 = "off" THEN "off" ELSE "stale"
  /\ Goto("run", "can_start")
  /\ UNCHANGED << pcside, outcome, supply, bench, bring, canState, canRight >>

\* can.state and timer4.state are reset before TIM4 is restarted: if an earlier
\* test left TIM4 counting, it can still expire in between.
test_can_reset ==
  /\ Starts("can")
  /\ canState' = FALSE /\ canFresh' = FALSE
  /\ expired4' = "no"
  /\ tim4' = IF tim4 = "off" THEN "off" ELSE "stale"
  /\ Goto("run", "can_start")
  /\ UNCHANGED << pcside, outcome, supply, bench, bring, canRight >>

test_can_start ==
  /\ At("run", "can_start")
  /\ tim4' = "own"
  /\ Goto("ask", "can")
  /\ UNCHANGED << pcside, outcome, supply, bench, bring, canState, canRight,
                  expired4, canFresh >>

\* TIM4 is left counting when the device does not answer, or not with its ACK.
test_can_answer ==
  /\ \/ At("got", "can") /\ Goto("run", "can_wait") /\ UNCHANGED pcside
     \/ (At("got", "can") \/ At("lost", "can")) /\ Pack("ERROR_COM")
  /\ UNCHANGED << outcome, supply, bench, bring, can >>

test_can_wait ==
  /\ At("run", "can_wait")
  /\ canState \/ expired4 # "no"
  /\ Goto("run", "can_decide")
  /\ UNCHANGED << pcside, outcome, supply, bench, bring, can >>

test_can_frame ==
  /\ At("run", "can_decide")
  /\ canState
  /\ tim4' = "off"
  /\ Pack(IF canRight THEN "GOOD" ELSE "BAD")
  /\ UNCHANGED << outcome, supply, bench, bring, canState, canRight, expired4,
                  canFresh >>

test_can_none ==
  /\ At("run", "can_decide")
  /\ ~canState
  /\ Goto("run", "can_late")
  /\ UNCHANGED << pcside, outcome, supply, bench, bring, can >>

test_can_late ==
  /\ At("run", "can_late")
  /\ CutSupply(FALSE)
  /\ Pack("ERROR_COM")
  /\ UNCHANGED << outcome, bench, bring, can >>

test_can ==
  test_can_reset \/ test_can_start \/ test_can_answer \/ test_can_wait
    \/ test_can_frame \/ test_can_none \/ test_can_late

USB_LP_CAN1_RX0_IRQHandler ==
  /\ canState' = TRUE
  /\ canRight' \in BOOLEAN
  /\ canFresh' = (canFresh \/ canRight')
  /\ UNCHANGED << pc, pcside, outcome, supply, bench, bring, tim4, expired4 >>

TIM4_IRQHandler ==
  /\ tim4 # "off"
  /\ expired4' = tim4
  /\ tim4' = "off"
  /\ UNCHANGED << pc, pcside, outcome, supply, bench, bring, canState, canRight,
                  canFresh >>

-----------------------------------------------------------------------------
(* handle_flag and part_of_power_on *)

\* Mutant of handle_flag: the delay goes one loop too far.
HandleFlagOffByOne ==
  LET due == delay + 1 > DelayLoops IN
  /\ At("loop", "flag")
  /\ delay' = IF delay = -1 \/ due THEN -1 ELSE delay + 1
  /\ bringUp' = (bringUp \/ due)
  /\ reply' = FALSE
  /\ owed' = IF reply THEN owed - 1 ELSE owed
  /\ Goto("loop", "bring")
  /\ UNCHANGED << cmd, packet, outcome, supply, bench, verdict, acked, joined,
                  can >>

\* Mutant of handle_flag: the reply is sent and still outstanding.
HandleFlagForgets ==
  LET due == delay >= 0 /\ delay + 1 >= DelayLoops IN
  /\ At("loop", "flag")
  /\ delay' = IF delay = -1 \/ due THEN -1 ELSE delay + 1
  /\ bringUp' = (bringUp \/ due)
  /\ owed' = IF reply THEN owed - 1 ELSE owed
  /\ Goto("loop", "bring")
  /\ UNCHANGED << cmd, packet, outcome, supply, bench, verdict, reply, acked,
                  joined, can >>

\* The delayed bring-up falls due, then an outstanding reply, the verdict as it
\* is by now, is packed and sent.
handle_flag ==
  LET due == delay >= 0 /\ delay + 1 >= DelayLoops IN
  /\ At("loop", "flag")
  /\ delay' = IF delay = -1 \/ due THEN -1 ELSE delay + 1
  /\ bringUp' = (bringUp \/ due)
  /\ reply' = FALSE
  /\ owed' = IF reply THEN owed - 1 ELSE owed
  /\ Goto("loop", "bring")
  /\ UNCHANGED << cmd, packet, outcome, supply, bench, verdict, acked, joined,
                  can >>

NoBringUp ==
  /\ At("loop", "bring")
  /\ ~bringUp
  /\ Goto("loop", "handle")
  /\ UNCHANGED << pcside, outcome, supply, bench, bring, can >>

BringUpBegins ==
  /\ At("loop", "bring")
  /\ bringUp
  /\ bringUp' = FALSE
  /\ verdict' = "GOOD"
  /\ acked' = 0
  /\ Goto("ask", BringUp[1])
  /\ UNCHANGED << pcside, outcome, supply, bench, delay, reply, joined, can >>

\* Mutant of BringUpStep: an exchange that fails ends the bring-up at once.
BringUpGivesUp(i) ==
  /\ \/ /\ At("got", BringUp[i])
        /\ acked' = acked + 1
        /\ IF i < 3
           THEN Goto("ask", BringUp[i + 1]) /\ UNCHANGED << reply, peripherals >>
           ELSE /\ reply' = TRUE
                /\ peripherals' = TRUE
                /\ Goto("loop", "handle")
     \/ /\ At("lost", BringUp[i])
        /\ Goto("loop", "handle")
        /\ UNCHANGED << acked, reply, peripherals >>
  /\ UNCHANGED << pcside, outcome, powered, adcEnable, forced, bench, delay,
                  bringUp, verdict, joined, can >>

\* OLED, LED and beep in turn, whatever becomes of them; only uart_to_dut
\* itself spoils the verdict.
BringUpStep(i) ==
  /\ \/ At("got", BringUp[i]) /\ acked' = acked + 1
     \/ At("lost", BringUp[i]) /\ acked' = acked
  /\ IF i < 3
     THEN Goto("ask", BringUp[i + 1]) /\ UNCHANGED << reply, peripherals >>
     ELSE /\ reply' = TRUE
          /\ peripherals' = (acked' = 3)
          /\ Goto("loop", "handle")
  /\ UNCHANGED << pcside, outcome, powered, adcEnable, forced, bench, delay,
                  bringUp, verdict, joined, can >>

part_of_power_on ==
  NoBringUp \/ BringUpBegins \/ \E i \in 1 .. 3 : BringUpStep(i)

-----------------------------------------------------------------------------
handle_pc_data ==
  \/ handle_nothing \/ test_value \/ test_pwr_on \/ test_pwr_on_end
  \/ test_pwr_off \/ force_pwr_on \/ test_barcode \/ test_temp \/ test_hall
  \/ test_motor \/ test_can \/ Reply

main ==
  \/ handle_pc_data \/ calc_ad_value \/ handle_flag \/ part_of_power_on
  \/ \E x \in Exchanges : uart_to_dut(x)

\* Mutant of Dma: the ADC's own interrupt cuts the supply.
DmaSupervises ==
  /\ reading' \in Readings
  /\ IF adcEnable /\ reading' = "bad" THEN CutSupply(FALSE) ELSE UNCHANGED supply
  /\ UNCHANGED << pc, pcside, outcome, outputs, bring, can >>

\* The DMA of the ADC writes ad_value behind the back of main.
Dma ==
  /\ reading' \in Readings
  /\ UNCHANGED << pc, pcside, outcome, supply, outputs, bring, can >>

Next ==
  main \/ PcSends \/ USB_LP_CAN1_RX0_IRQHandler \/ TIM4_IRQHandler \/ Dma

Spec == Init /\ [][Next]_vars

\* Main never rests, uart_to_dut returns (ImplementsDutPort of DutLink), and TIM4
\* counts to its end.
Fairness == WF_vars(main) /\ WF_vars(TIM4_IRQHandler)

FairSpec == Spec /\ Fairness

-----------------------------------------------------------------------------
(* What makes the fixture correct *)

\* Every variable keeps its type.
TypeOK ==
  /\ pc \in Places
  /\ cmd \in Commands \union {None}
  /\ owed \in Int
  /\ packet \in Packets
  /\ outcome \in {"none", "answer", "timeout"}
  /\ {powered, adcEnable, bringUp, reply, canState, canRight,
      peripherals, forced, canFresh} \subseteq BOOLEAN
  /\ reading \in Readings
  /\ delay \in -1 .. DelayLoops - 1
  /\ verdict \in {"GOOD", "BAD", "ERROR_COM"}
  /\ outputs \subseteq {"load", "magnet"}
  /\ tim4 \in {"off", "own", "stale"}
  /\ expired4 \in {"no", "own", "stale"}
  /\ acked \in 0 .. 3 /\ joined \in Nat

\* A device is never left on the supply without the ADC watching it, unless
\* force_pwr_on asked for that: every path that stops the supervision, in
\* whichever command and after whichever exchange, cuts the supply as well.
Supervised ==
  powered /\ ~adcEnable => forced \/ At("run", "supervise")

\* The reply to pwr_on says GOOD only if the device acknowledged the OLED, the
\* LED and the beep: part_of_power_on ignores what its three exchanges return,
\* and commands run between the bring-up and the reply.
GoodMeansAcked == reply /\ verdict = "GOOD" => acked = 3

\* The CAN test reports GOOD only for a right frame that came during this very
\* test, not for what an earlier one left in the receive buffer.
CanGoodIsFresh ==
  At("run", "reply") /\ cmd = "can" /\ packet = "GOOD" => canFresh

\* The magnet is away whenever a command starts, however the one before ended.
MagnetReleased == At("loop", "handle") => "magnet" \notin outputs

\* No reply goes out that no command is waiting for.
NoUnsolicitedReply == owed >= 0

\* The fixture keeps to DutPort: whatever a command, the supervision or an
\* interrupt does, the supply of the device is switched only between exchanges,
\* so that what is shown of DutLink under that condition holds in the fixture.
UsesDutPort == Dut!Init /\ [][Dut!Next]_(Dut!vars)

\* The replies that will be sent: to the command being served, and the one at
\* the end of the way a pwr_on takes through the delay, the bring-up and reply.
Due(p) == IF p THEN 1 ELSE 0

RepliesToCome ==
  Due(cmd \in Known) + Due(delay # -1) + Due(bringUp)
    + Due(\E i \in 1 .. 3 : pc[2] = BringUp[i]) + Due(reply)

\* No reply is lost or sent twice in the flags it is handed on by, whatever
\* commands come between pwr_on and its reply, but for a pwr_on that comes while
\* the delay of another runs: the two get one reply.
RepliesAccounted == owed = joined + RepliesToCome

\* A command that replies itself comes to its reply, and pwr_on to handle_flag
\* with the reply enabled, also when the device stays silent, when the supply is
\* cut (by a pwr_off before the bring-up, say) or when the bring-up fails.
EveryCommandAnswered ==
  /\ cmd \in Known \ {"pwr_on"} ~> At("run", "reply")
  /\ (cmd = "pwr_on" \/ delay # -1) ~> (reply /\ At("loop", "flag"))

\* A reply is on its way for every command the PC waits for: test_pwr_on leaves
\* its own to handle_flag.  A second pwr_on within the delay restarts it, so
\* this does not hold.
NoReplyForgotten == owed <= RepliesToCome

\* The limit of 100 mA is for a device whose peripherals are still off: with
\* all of them on, up to 300 mA do not cost it the supply.  calc_ad_value never
\* sees cmd_to_dut enabled, so this does not hold.
LooseLimitOncePeripheralsOn ==
  [][At("loop", "calc") /\ peripherals /\ reading = "mid" =>
       powered' = powered]_vars

\* "No CAN frame within the time" is said only once the time of this very test
\* has run out.  A TIM4 left counting can expire between the reset of its state
\* and its restart, so this does not hold.
CanTimeoutIsOwn == At("run", "can_late") => expired4 = "own"
=============================================================================

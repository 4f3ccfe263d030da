----------------------------- MODULE BackLight -----------------------------
(***************************************************************************)
(* The lamp of Logo_Back_Light_Control: main loops over key_test,          *)
(* adc_convert, led_control and led_breathing.  The key interrupt stands   *)
(* on top of main and waits inside its handler for the TIM3 interrupt,     *)
(* which nests into it.                                                    *)
(***************************************************************************)
EXTENDS Integers

CONSTANTS KeyDelay, FlashTime, BreathTime,  \* ticks: 5, LED_FLASH_TIME, BREATHING_TIME
          FlashTimes,     \* LED_FLASH_TIMES
          SettleTimes,    \* evaluations of the ADC that are thrown away, 100
          Flash, Step, PWM_3, PWM_2, PWM_1,   \* 5, PWM_1 >> 4, and the levels
          MaxEdges        \* bound: how often the key moves

\* How many values a counter of sixteen bits has.
Word == 65536

ASSUME BackLightAssumption ==
  /\ KeyDelay \in 1 .. Word - 1 /\ FlashTime \in 1 .. Word - 1
  /\ BreathTime \in 1 .. Word - 1
  /\ FlashTimes \in Nat /\ SettleTimes \in Nat /\ MaxEdges \in Nat
  /\ Flash \in Nat /\ Step \in Nat
  /\ PWM_3 \in Nat /\ PWM_2 \in Nat /\ PWM_1 \in Nat
  /\ 0 < Flash /\ Flash < Step /\ Step < PWM_3 /\ PWM_3 < PWM_2 /\ PWM_2 < PWM_1

VARIABLES
  pin,          \* level of the key, "DOWN" or "UP"
  pending,      \* EXTI line 1 is pending
  exti,         \* where EXTI0_1_IRQHandler is
  key,          \* change, delay_enable, time_cnt, sta
  led,          \* change, delay_enable, time_cnt, sta, times
  breathing,    \* change, delay_enable, time_cnt
  main,         \* where main is
  key_sta,      \* presses that key_test has acted on
  pwm, ccr3,    \* the breathing level; what the timer shows
  settled,      \* adc.times
  low,          \* battery.low
  adapter,      \* an adapter is plugged in (PA1 is 0)
  edges,        \* history: times the key moved
  calm,         \* history: so far the key moved only when main had dealt with
                \* the move before
  edgeLost      \* history: the last move came after the pin was read, before
                \* the line was cleared

history == << edges, calm, edgeLost >>
light   == << pwm, ccr3 >>
battery == << settled, low, adapter >>
vars == << pin, pending, exti, key, led, breathing, main, key_sta, pwm, ccr3,
           settled, low, adapter, edges, calm, edgeLost >>

\* After hal_init.
Init ==
  /\ pin = "UP" /\ pending = FALSE /\ exti = "idle"
  /\ key = [change |-> FALSE, enable |-> FALSE, cnt |-> 0, sta |-> "DOWN"]
  /\ led = [change |-> FALSE, enable |-> FALSE, cnt |-> 0, sta |-> FALSE, times |-> 0]
  /\ breathing = [change |-> TRUE, enable |-> TRUE, cnt |-> BreathTime]
  /\ main = "key" /\ key_sta = 0
  /\ pwm = 0 /\ ccr3 = 0
  /\ settled = 0 /\ low = FALSE /\ adapter \in BOOLEAN
  /\ edges = 0 /\ calm = TRUE /\ edgeLost = FALSE

-----------------------------------------------------------------------------
(* The world *)

\* The last move of the key has been dealt with.
AtRest ==
  /\ exti = "idle" /\ ~pending
  /\ ~key.change /\ main \notin {"clear", "read"}

\* The key moves, bounces included.  While the line is pending another edge
\* adds nothing, and the handler will clear both.
Edge ==
  /\ edges < MaxEdges
  /\ pin' = IF pin = "UP" THEN "DOWN" ELSE "UP"
  /\ pending' = TRUE
  /\ edges' = edges + 1
  /\ calm' = (calm /\ AtRest)
  /\ edgeLost' = (exti = "clear")
  /\ UNCHANGED << exti, key, led, breathing, main, key_sta, light, battery >>

Plug ==
  /\ adapter' = ~adapter
  /\ UNCHANGED << pin, pending, exti, key, led, breathing, main, key_sta,
                  light, settled, low, history >>

-----------------------------------------------------------------------------
(* EXTI0_1_IRQHandler *)

InExti == UNCHANGED << pin, led, breathing, main, key_sta, light, battery, history >>

ExtiArm ==
  /\ exti = "idle" /\ pending
  /\ key' = [key EXCEPT !.cnt = KeyDelay]
  /\ exti' = "enable"
  /\ UNCHANGED pending /\ InExti

ExtiEnable ==
  /\ exti = "enable"
  /\ key' = [key EXCEPT !.enable = TRUE]
  /\ exti' = "wait"
  /\ UNCHANGED pending /\ InExti

ExtiWait ==
  /\ exti = "wait" /\ ~key.enable
  /\ exti' = "read"
  /\ UNCHANGED << key, pending >> /\ InExti

ExtiRead ==
  /\ exti = "read"
  /\ key' = [key EXCEPT !.sta = pin]
  /\ exti' = "clear"
  /\ UNCHANGED pending /\ InExti

\* key.change = 1, and the line is cleared.
ExtiClear ==
  /\ exti = "clear"
  /\ key' = [key EXCEPT !.change = TRUE]
  /\ pending' = FALSE
  /\ exti' = "idle"
  /\ InExti

EXTI0_1_IRQHandler == ExtiArm \/ ExtiEnable \/ ExtiWait \/ ExtiRead \/ ExtiClear

-----------------------------------------------------------------------------
(* TIM3_IRQHandler, every 10 ms, also inside the other handler.  pwr_on is *)
(* never enabled anywhere and is left out.                                 *)

Down(n) == (n - 1) % Word

Count(t) == [t EXCEPT !.cnt = Down(@)]

\* Mutant of OneShot: the key's timer is reloaded like the other two.
OneShotReloads(t) ==
  LET u == Count(t) IN
  IF ~t.enable THEN t
  ELSE IF u.cnt = 0 THEN [u EXCEPT !.cnt = KeyDelay] ELSE u

\* The key's timer stops when it has run out.
OneShot(t) ==
  LET u == Count(t) IN
  IF ~t.enable THEN t
  ELSE IF u.cnt = 0 THEN [u EXCEPT !.enable = FALSE] ELSE u

Due(t) == [t EXCEPT !.change = TRUE]

\* The other two set their flag and start over.
Periodic(t, time) ==
  LET u == Count(t) IN
  IF ~t.enable THEN t
  ELSE IF u.cnt = 0 THEN [Due(u) EXCEPT !.cnt = time] ELSE u

TIM3_IRQHandler ==
  /\ key' = OneShot(key)
  /\ led' = Periodic(led, FlashTime)
  /\ breathing' = Periodic(breathing, BreathTime)
  /\ UNCHANGED << pin, pending, exti, main, key_sta, light, battery, history >>

-----------------------------------------------------------------------------
(* main: key_test *)

InMain(place) == exti = "idle" /\ main = place
World == UNCHANGED << pin, pending, exti, adapter, history >>

KeyTest ==
  /\ InMain("key")
  /\ main' = IF key.change THEN "clear" ELSE "adc"
  /\ World /\ UNCHANGED << key, led, breathing, key_sta, light, settled, low >>

\* Mutant of KeyClear: the whole structure is zeroed, and DOWN is zero.
KeyClearZeroes ==
  /\ InMain("clear")
  /\ key' = [key EXCEPT !.change = FALSE, !.sta = "DOWN"]
  /\ main' = "read"
  /\ World /\ UNCHANGED << led, breathing, key_sta, light, settled, low >>

KeyClear ==
  /\ InMain("clear")
  /\ key' = [key EXCEPT !.change = FALSE]
  /\ main' = "read"
  /\ World /\ UNCHANGED << led, breathing, key_sta, light, settled, low >>

Level(presses_) == CASE presses_ = 1 -> PWM_2 [] presses_ = 2 -> PWM_3 [] OTHER -> 0

\* The key went down: the breathing is over, the next level is shown.
KeyDown ==
  /\ key.sta = "DOWN"
  /\ breathing' = [breathing EXCEPT !.enable = FALSE]
  /\ IF key_sta < 3
     THEN key_sta' = key_sta + 1 /\ ccr3' = Level(key_sta + 1)
     ELSE UNCHANGED << key_sta, ccr3 >>
  /\ main' = "adc"

\* The key went up: after the third press that is the end, while (1).
KeyUp ==
  /\ key.sta = "UP"
  /\ main' = IF key_sta = 3 THEN "off" ELSE "adc"
  /\ UNCHANGED << breathing, key_sta, ccr3 >>

\* Mutant of KeyRead: every change counts, whichever way the key went.
KeyReadCountsAll ==
  /\ InMain("read")
  /\ key_sta' = IF key_sta < 3 THEN key_sta + 1 ELSE key_sta
  /\ ccr3' = Level(key_sta')
  /\ main' = "adc"
  /\ World /\ UNCHANGED << key, led, breathing, pwm, settled, low >>

KeyRead ==
  /\ InMain("read")
  /\ KeyDown \/ KeyUp
  /\ World /\ UNCHANGED << key, led, pwm, settled, low >>

-----------------------------------------------------------------------------
(* main: adc_convert *)

\* Not yet a buffer of conversions.
AdcNothing ==
  /\ InMain("adc")
  /\ main' = "led"
  /\ World /\ UNCHANGED << key, led, breathing, key_sta, light, settled, low >>

\* The capacitor is still charging: the first buffers are thrown away.
AdcSettles ==
  /\ InMain("adc")
  /\ settled < SettleTimes
  /\ settled' = settled + 1
  /\ main' = "led"
  /\ World /\ UNCHANGED << key, led, breathing, key_sta, light, low >>

Settled == settled >= SettleTimes

\* An adapter clears battery.low before the voltage is looked at.
AdcFine ==
  /\ InMain("adc") /\ Settled
  /\ low' = (low /\ ~adapter)
  /\ main' = "led"
  /\ World /\ UNCHANGED << key, led, breathing, key_sta, light, settled >>

\* Mutant of AdcLow: what is known to be low is found low again.
AdcLowAgain ==
  /\ InMain("adc") /\ Settled
  /\ ccr3' = 0
  /\ led' = [led EXCEPT !.cnt = FlashTime]
  /\ main' = "enable"
  /\ World /\ UNCHANGED << key, breathing, key_sta, pwm, settled, low >>

\* Mutant of AdcLow: the timer is enabled, then loaded.
AdcLowEnables ==
  /\ InMain("adc") /\ Settled
  /\ adapter \/ ~low
  /\ ccr3' = 0
  /\ led' = [led EXCEPT !.enable = TRUE]
  /\ main' = "enable"
  /\ World /\ UNCHANGED << key, breathing, key_sta, pwm, settled, low >>

\* Below 3.0 V: the light goes out and the timer for flashing is loaded.
AdcLow ==
  /\ InMain("adc") /\ Settled
  /\ adapter \/ ~low
  /\ ccr3' = 0
  /\ led' = [led EXCEPT !.cnt = FlashTime]
  /\ low' = FALSE
  /\ main' = "enable"
  /\ World /\ UNCHANGED << key, breathing, key_sta, pwm, settled >>

AdcEnable ==
  /\ InMain("enable")
  /\ led' = [led EXCEPT !.enable = TRUE]
  /\ low' = TRUE
  /\ main' = "led"
  /\ World /\ UNCHANGED << key, breathing, key_sta, light, settled >>

adc_convert == AdcNothing \/ AdcSettles \/ AdcFine \/ AdcLow \/ AdcEnable

-----------------------------------------------------------------------------
(* main: led_control and led_breathing *)

LedSame ==
  /\ InMain("led") /\ ~led.change
  /\ main' = "breath"
  /\ World /\ UNCHANGED << key, led, breathing, key_sta, light, settled, low >>

LedFlash ==
  /\ InMain("led") /\ led.change
  /\ led' = [led EXCEPT !.change = FALSE, !.sta = ~@, !.times = @ + 1]
  /\ ccr3' = IF led'.sta THEN Flash ELSE 0
  /\ main' = IF led'.times > FlashTimes THEN "off" ELSE "breath"
  /\ World /\ UNCHANGED << key, breathing, key_sta, pwm, settled, low >>

BreathTest ==
  /\ InMain("breath")
  /\ breathing' = [breathing EXCEPT !.change = FALSE]
  /\ main' = IF breathing.change THEN "fade" ELSE "key"
  /\ World /\ UNCHANGED << key, led, key_sta, light, settled, low >>

BreathFade ==
  /\ InMain("fade")
  /\ pwm' = pwm + Step
  /\ breathing' = [breathing EXCEPT !.enable = @ /\ pwm' <= PWM_1]
  /\ ccr3' = pwm'
  /\ main' = "key"
  /\ World /\ UNCHANGED << key, led, key_sta, settled, low >>

Main ==
  \/ KeyTest \/ KeyClear \/ KeyRead \/ adc_convert
  \/ LedSame \/ LedFlash \/ BreathTest \/ BreathFade

Next == Edge \/ Plug \/ EXTI0_1_IRQHandler \/ TIM3_IRQHandler \/ Main

Spec == Init /\ [][Next]_vars

\* The processor and the timer never rest; of key and battery nothing is assumed.
Fairness ==
  WF_vars(EXTI0_1_IRQHandler) /\ WF_vars(TIM3_IRQHandler) /\ WF_vars(Main)

FairSpec == Spec /\ Fairness

-----------------------------------------------------------------------------
(* What makes the lamp correct *)

Places == {"key", "clear", "read", "adc", "enable", "led", "breath", "fade", "off"}

\* Every variable keeps its type.  No counter is decremented below zero, where
\* sixteen bits would wrap: each is loaded before its timer is enabled.
TypeOK ==
  /\ pin \in {"DOWN", "UP"} /\ pending \in BOOLEAN
  /\ exti \in {"idle", "enable", "wait", "read", "clear"}
  /\ key \in [change: BOOLEAN, enable: BOOLEAN, cnt: 0 .. KeyDelay, sta: {"DOWN", "UP"}]
  /\ led \in [change: BOOLEAN, enable: BOOLEAN, cnt: 0 .. FlashTime,
              sta: BOOLEAN, times: 0 .. FlashTimes + 1]
  /\ breathing \in [change: BOOLEAN, enable: BOOLEAN, cnt: 1 .. BreathTime]
  /\ main \in Places /\ key_sta \in 0 .. 3
  /\ pwm \in 0 .. PWM_1 + 2 * Step
  /\ ccr3 \in 0 .. PWM_1 + 2 * Step
  /\ settled \in 0 .. SettleTimes /\ low \in BOOLEAN /\ adapter \in BOOLEAN
  /\ edges \in 0 .. MaxEdges
  /\ calm \in BOOLEAN /\ edgeLost \in BOOLEAN

\* The key starts up, so every other move is a press.
presses == (edges + 1) \div 2

\* A key that moves only when main has dealt with its last move is counted
\* exactly: one step of the lamp for every press, none for a release, whatever
\* breathing, battery and timer do in between.
PressesCounted ==
  calm /\ AtRest => key_sta = IF presses < 3 THEN presses ELSE 3

\* The handler of the key waits for a variable that only the timer's handler
\* changes; it comes back all the same.
HandlerReturns == exti # "idle" ~> exti = "idle"

\* After the third press the release switches the lamp off, however quickly it
\* came: it may overtake the press in main, but not be swallowed, unless it fell
\* between the reading of the pin and the clearing of the line.
PowerOffFollowsRelease ==
  key_sta = 3 /\ pin = "UP" /\ ~edgeLost ~> main = "off" \/ pin = "DOWN" \/ edgeLost

\* With no adapter to come, a battery that was found low ends in power-off:
\* neither keys nor breathing nor new readings hold the flashing up.
LowEndsInOff == <>[]~adapter => (low ~> main = "off")

\* key_test says of a press: no more breathing, straight to the chosen
\* brightness.  As long as the battery is not low, nothing else is shown then.
KeyBrightnessStays ==
  key_sta \in 1 .. 3 /\ ~led.enable /\ main # "enable" => ccr3 = Level(key_sta)
=============================================================================

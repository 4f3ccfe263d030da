--------------------------- MODULE BackLightProofs ---------------------------
(***************************************************************************)
(* Theorems about BackLight, for any levels, any times and any key.        *)
(***************************************************************************)
EXTENDS BackLight, TLAPS

-----------------------------------------------------------------------------
(* Types and counters *)

Key       == [change: BOOLEAN, enable: BOOLEAN, cnt: 0 .. KeyDelay, sta: {"DOWN", "UP"}]
Led       == [change: BOOLEAN, enable: BOOLEAN, cnt: 0 .. FlashTime,
              sta: BOOLEAN, times: 0 .. FlashTimes + 1]
Breathing == [change: BOOLEAN, enable: BOOLEAN, cnt: 1 .. BreathTime]

\* An enabled timer has been loaded.  That of the key runs only while the
\* interrupt waits for it.
KeyLoaded ==
  /\ key.enable => exti = "wait"
  /\ key.enable \/ exti = "enable" => key.cnt # 0
LedLoaded == led.enable \/ main = "enable" => led.cnt # 0

\* The lamp flashes no more once it is off.
FlashesLeft == main # "off" => led.times <= FlashTimes

\* While breathing goes on the level is below the top.  When it ends, two more
\* steps may be on their way: the one that is being made, and one that is due.
LevelBounded ==
  /\ breathing.enable => pwm <= PWM_1
  /\ breathing.change \/ main = "fade" => pwm <= PWM_1 + Step
  /\ breathing.change /\ main = "fade" => pwm <= PWM_1

LampInv == TypeOK /\ KeyLoaded /\ LedLoaded /\ FlashesLeft /\ LevelBounded

\* A loaded timer counts down without wrapping.
LEMMA WordSize == Word \in Nat /\ Word > 0
BY DEF Word

LEMMA DownSteps ==
  ASSUME NEW n \in 1 .. Word - 1
  PROVE  Down(n) = n - 1
BY WordSize DEF Down

LEMMA OneShotSteps ==
  ASSUME NEW t \in Key, t.enable => t.cnt # 0
  PROVE  /\ OneShot(t) \in Key
         /\ OneShot(t).enable => OneShot(t).cnt # 0 /\ t.enable
         /\ OneShot(t).change = t.change /\ OneShot(t).sta = t.sta
         /\ ~t.enable => OneShot(t) = t
<1>1. CASE ~t.enable
  BY <1>1 DEF OneShot
<1>2. CASE t.enable
  <2>1. t.cnt \in 1 .. KeyDelay /\ t.cnt \in 1 .. Word - 1
    BY <1>2, WordSize, BackLightAssumption DEF Key
  <2>2. Down(t.cnt) = t.cnt - 1
    BY <2>1, DownSteps
  <2> DEFINE u == Count(t)
  <2>3. u \in Key /\ u.cnt = t.cnt - 1 /\ u.enable
        /\ u.change = t.change /\ u.sta = t.sta
    BY <1>2, <2>1, <2>2, BackLightAssumption DEF Key, Count
  <2>4. OneShot(t) = IF u.cnt = 0 THEN [u EXCEPT !.enable = FALSE] ELSE u
    BY <1>2 DEF OneShot
  <2> HIDE DEF u
  <2>5. CASE u.cnt = 0
    BY <1>2, <2>3, <2>4, <2>5 DEF Key
  <2>6. CASE u.cnt # 0
    BY <1>2, <2>3, <2>4, <2>6
  <2> QED
    BY <2>5, <2>6
<1> QED
  BY <1>1, <1>2

\* The same for the two that start over.
LEMMA LedTick ==
  ASSUME NEW t \in Led, t.enable => t.cnt # 0
  PROVE  /\ Periodic(t, FlashTime) \in Led
         /\ Periodic(t, FlashTime).enable = t.enable
         /\ Periodic(t, FlashTime).times = t.times
         /\ t.enable => Periodic(t, FlashTime).cnt # 0
<1>1. CASE ~t.enable
  BY <1>1 DEF Periodic
<1>2. CASE t.enable
  <2>1. t.cnt \in 1 .. FlashTime /\ t.cnt \in 1 .. Word - 1 /\ FlashTime \in 1 .. Word - 1
    BY <1>2, WordSize, BackLightAssumption DEF Led
  <2>2. Down(t.cnt) = t.cnt - 1
    BY <2>1, DownSteps
  <2> DEFINE u == Count(t)
             v == Due(u)
             w == [v EXCEPT !.cnt = FlashTime]
  <2>3. u \in Led /\ u.cnt = t.cnt - 1 /\ u.enable /\ u.times = t.times
        /\ u.change = t.change
    BY <1>2, <2>1, <2>2 DEF Led, Count
  <2>4. Periodic(t, FlashTime) = IF u.cnt = 0 THEN w ELSE u
    BY <1>2 DEF Periodic
  <2> HIDE DEF u
  <2>5. v \in Led /\ v.enable /\ v.times = t.times
    BY <2>3 DEF Led, Due
  <2> HIDE DEF v
  <2>6. w \in Led /\ w.cnt # 0 /\ w.enable /\ w.times = t.times
    BY <2>1, <2>5 DEF Led
  <2> HIDE DEF w
  <2> QED
    BY <1>2, <2>3, <2>4, <2>6
<1> QED
  BY <1>1, <1>2

Loose == [change: BOOLEAN, enable: BOOLEAN, cnt: 0 .. BreathTime]

LEMMA BreathingTick ==
  ASSUME NEW t \in Breathing
  PROVE  /\ Periodic(t, BreathTime) \in Breathing
         /\ Periodic(t, BreathTime).enable = t.enable
         /\ ~t.enable => Periodic(t, BreathTime).change = t.change
<1>1. CASE ~t.enable
  BY <1>1 DEF Periodic
<1>2. CASE t.enable
  <2>1. t.cnt \in 1 .. BreathTime /\ t.cnt \in 1 .. Word - 1 /\ BreathTime \in 1 .. Word - 1
    BY <1>2, WordSize, BackLightAssumption DEF Breathing
  <2>2. Down(t.cnt) = t.cnt - 1
    BY <2>1, DownSteps
  <2> DEFINE u == Count(t)
             v == Due(u)
             w == [v EXCEPT !.cnt = BreathTime]
  <2>3. u \in Loose /\ u.cnt = t.cnt - 1 /\ u.enable
        /\ u.change = t.change
    BY <1>2, <2>1, <2>2 DEF Breathing, Loose, Count
  <2>4. Periodic(t, BreathTime) = IF u.cnt = 0 THEN w ELSE u
    BY <1>2 DEF Periodic
  <2> HIDE DEF u
  <2>5. v \in Loose /\ v.enable
    BY <2>3 DEF Loose, Due
  <2> HIDE DEF v
  <2>6. w \in Breathing /\ w.cnt # 0 /\ w.enable
    BY <2>1, <2>5 DEF Breathing, Loose
  <2> HIDE DEF w
  <2>7. u.cnt # 0 => u \in Breathing
    BY <2>1, <2>3 DEF Breathing, Loose
  <2> QED
    BY <1>2, <2>3, <2>4, <2>6, <2>7
<1> QED
  BY <1>1, <1>2

\* What key, led and breathing leave of the type invariant.
Rest ==
  /\ pin \in {"DOWN", "UP"} /\ pending \in BOOLEAN
  /\ exti \in {"idle", "enable", "wait", "read", "clear"}
  /\ main \in Places /\ key_sta \in 0 .. 3
  /\ pwm \in 0 .. PWM_1 + 2 * Step
  /\ ccr3 \in 0 .. PWM_1 + 2 * Step
  /\ settled \in 0 .. SettleTimes /\ low \in BOOLEAN /\ adapter \in BOOLEAN
  /\ edges \in 0 .. MaxEdges
  /\ calm \in BOOLEAN /\ edgeLost \in BOOLEAN

LEMMA TypeParts ==
  TypeOK <=> Rest /\ key \in Key /\ led \in Led /\ breathing \in Breathing
BY DEF TypeOK, Rest, Key, Led, Breathing

LEMMA LevelSteps ==
  ASSUME NEW n
  PROVE  Level(n) \in 0 .. PWM_1 + 2 * Step
BY BackLightAssumption DEF Level

LEMMA LampInvInit == Init => LampInv
<1> SUFFICES ASSUME Init
             PROVE  LampInv
  OBVIOUS
<1>1. key \in Key /\ led \in Led /\ breathing \in Breathing
  BY BackLightAssumption DEF Init, Key, Led, Breathing
<1>2. Rest
  <2>1. 0 \in 0 .. PWM_1 + 2 * Step /\ 0 \in 0 .. SettleTimes /\ 0 \in 0 .. MaxEdges
    BY BackLightAssumption
  <2>2. pwm \in 0 .. PWM_1 + 2 * Step /\ ccr3 \in 0 .. PWM_1 + 2 * Step
        /\ settled \in 0 .. SettleTimes /\ edges \in 0 .. MaxEdges
    BY <2>1 DEF Init
  <2>3. {pending, low, adapter, calm, edgeLost} \subseteq BOOLEAN
    BY DEF Init
  <2>4. pin \in {"DOWN", "UP"} /\ exti \in {"idle", "enable", "wait", "read", "clear"}
        /\ main \in Places /\ key_sta \in 0 .. 3
    BY DEF Init, Places
  <2> QED
    BY <2>2, <2>3, <2>4 DEF Rest
<1>3. ~key.enable /\ ~led.enable /\ led.times = 0
  BY DEF Init
<1> QED
  BY <1>1, <1>2, <1>3, TypeParts, BackLightAssumption
  DEF Init, LampInv, KeyLoaded, LedLoaded, FlashesLeft, LevelBounded

LEMMA LampInvNext == LampInv /\ [Next]_vars => LampInv'
<1> SUFFICES ASSUME LampInv, [Next]_vars
             PROVE  LampInv'
  OBVIOUS
<1> DEFINE Parts == Rest /\ key \in Key /\ led \in Led /\ breathing \in Breathing
<1>0. Parts /\ KeyLoaded /\ LedLoaded /\ FlashesLeft /\ LevelBounded
  BY TypeParts DEF LampInv
<1>q. SUFFICES Parts' /\ KeyLoaded' /\ LedLoaded' /\ FlashesLeft' /\ LevelBounded'
  BY DEF LampInv, TypeOK, Rest, Key, Led, Breathing
<1> USE DEF KeyLoaded, LedLoaded, FlashesLeft, LevelBounded
<1>1. CASE Edge
  BY <1>0, <1>1, BackLightAssumption DEF Edge, Rest, light, battery
<1>2. CASE Plug
  BY <1>0, <1>2 DEF Plug, Rest, light, history
<1>3. CASE EXTI0_1_IRQHandler
  <2>0. UNCHANGED << pin, led, breathing, main, key_sta, light, battery, history >>
    BY <1>3 DEF EXTI0_1_IRQHandler, ExtiArm, ExtiEnable, ExtiWait, ExtiRead,
                ExtiClear, InExti
  <2>1. pending' \in BOOLEAN
    BY <1>0, <1>3 DEF EXTI0_1_IRQHandler, ExtiArm, ExtiEnable, ExtiWait, ExtiRead,
                ExtiClear, Rest
  <2>2. Rest'
    BY <1>0, <1>3, <2>0, <2>1
    DEF EXTI0_1_IRQHandler, ExtiArm, ExtiEnable, ExtiWait, ExtiRead, ExtiClear,
        Rest, light, battery, history
  <2>3. key' \in Key /\ KeyLoaded'
    <3>1. CASE ExtiArm
      BY <1>0, <3>1, BackLightAssumption, WordSize DEF ExtiArm, Key
    <3>2. CASE ExtiEnable
      BY <1>0, <3>2 DEF ExtiEnable, Key
    <3>3. CASE ExtiWait
      BY <1>0, <3>3 DEF ExtiWait
    <3>4. CASE ExtiRead
      BY <1>0, <3>4 DEF ExtiRead, Key, Rest
    <3>5. CASE ExtiClear
      BY <1>0, <3>5 DEF ExtiClear, Key
    <3> QED
      BY <1>3, <3>1, <3>2, <3>3, <3>4, <3>5 DEF EXTI0_1_IRQHandler
  <2> QED
    BY <1>0, <2>0, <2>2, <2>3 DEF light
<1>4. CASE TIM3_IRQHandler
  <2>1. key' \in Key /\ (key'.enable => key'.cnt # 0 /\ key.enable)
    BY <1>0, <1>4, OneShotSteps DEF TIM3_IRQHandler
  <2>2. exti = "enable" => key'.cnt # 0
    BY <1>0, <1>4, OneShotSteps DEF TIM3_IRQHandler
  <2>3. led' \in Led /\ led'.times = led.times /\ led'.enable = led.enable
        /\ (led.enable => led'.cnt # 0) /\ (~led.enable => led' = led)
    BY <1>0, <1>4, LedTick DEF TIM3_IRQHandler, Periodic
  <2>4. breathing' \in Breathing /\ breathing'.enable = breathing.enable
        /\ (~breathing.enable => breathing'.change = breathing.change)
    BY <1>0, <1>4, BreathingTick DEF TIM3_IRQHandler
  <2> QED
    BY <1>0, <1>4, <2>1, <2>2, <2>3, <2>4, BackLightAssumption
    DEF TIM3_IRQHandler, Rest, light, battery, history
<1>5. CASE KeyTest
  BY <1>0, <1>5 DEF KeyTest, InMain, World, Rest, Places, light, history
<1>6. CASE KeyClear
  BY <1>0, <1>6 DEF KeyClear, InMain, World, Rest, Places, Key, light, history
<1>7. CASE KeyRead
  <2>0. UNCHANGED << pin, pending, exti, adapter, history, key, led, pwm, settled, low >>
        /\ main = "read" /\ main' \in {"adc", "off"}
    BY <1>7 DEF KeyRead, KeyDown, KeyUp, InMain, World
  <2>1. breathing' \in Breathing /\ breathing'.change = breathing.change
        /\ (breathing'.enable => breathing.enable)
    BY <1>0, <1>7 DEF KeyRead, KeyDown, KeyUp, Breathing
  <2>2. key_sta' \in 0 .. 3
    BY <1>0, <1>7 DEF KeyRead, KeyDown, KeyUp, Rest
  <2>3. ccr3' \in 0 .. PWM_1 + 2 * Step
    BY <1>0, <1>7, LevelSteps DEF KeyRead, KeyDown, KeyUp, Rest
  <2>4. Rest'
    BY <1>0, <2>0, <2>2, <2>3 DEF Rest, Places, history
  <2> QED
    BY <1>0, <2>0, <2>1, <2>4
<1>8. CASE adc_convert
  <2>1. CASE AdcNothing \/ AdcSettles \/ AdcFine
    <3>1. UNCHANGED << pin, pending, exti, adapter, history, key, led, breathing,
                       key_sta, light >> /\ main = "adc" /\ main' = "led"
      BY <2>1 DEF AdcNothing, AdcSettles, AdcFine, InMain, World
    <3>2. low' \in BOOLEAN
      BY <1>0, <2>1 DEF AdcNothing, AdcSettles, AdcFine, Rest
    <3>3. settled' \in 0 .. SettleTimes
      BY <1>0, <2>1, BackLightAssumption DEF AdcNothing, AdcSettles, AdcFine, Rest
    <3>4. Rest'
      BY <1>0, <3>1, <3>2, <3>3 DEF Rest, Places, light, history
    <3> QED
      BY <1>0, <3>1, <3>4 DEF light
  <2>2. CASE AdcLow
    <3>1. UNCHANGED << pin, pending, exti, adapter, history, key, breathing,
                       key_sta, pwm, settled >>
          /\ main = "adc" /\ main' = "enable" /\ low' = FALSE /\ ccr3' = 0
      BY <2>2 DEF AdcLow, InMain, World
    <3>2. led' \in Led /\ led'.cnt # 0 /\ led'.times = led.times
      BY <1>0, <2>2, BackLightAssumption, WordSize DEF AdcLow, Led
    <3>3. 0 \in 0 .. PWM_1 + 2 * Step
      BY BackLightAssumption
    <3>4. Rest'
      BY <1>0, <3>1, <3>3 DEF Rest, Places, history
    <3> QED
      BY <1>0, <3>1, <3>2, <3>4
  <2>3. CASE AdcEnable
    BY <1>0, <2>3 DEF AdcEnable, InMain, World, Rest, Places, Led, light, history
  <2> QED
    BY <1>8, <2>1, <2>2, <2>3 DEF adc_convert
<1>9. CASE LedSame
  BY <1>0, <1>9 DEF LedSame, InMain, World, Rest, Places, light, history
<1>10. CASE LedFlash
  <2> DEFINE u == [led EXCEPT !.change = FALSE, !.sta = ~@]
  <2>1. u \in Led /\ u.times = led.times /\ u.enable = led.enable /\ u.cnt = led.cnt
    BY <1>0 DEF Led
  <2>2. led' = [u EXCEPT !.times = @ + 1]
    BY <1>10 DEF LedFlash
  <2> HIDE DEF u
  <2>3. led.times \in 0 .. FlashTimes
    BY <1>0, <1>10, BackLightAssumption DEF LedFlash, InMain, Led
  <2>4. led' \in Led /\ led'.times = led.times + 1 /\ led'.enable = led.enable
        /\ led'.cnt = led.cnt
    BY <2>1, <2>2, <2>3, BackLightAssumption DEF Led
  <2> QED
    BY <1>0, <1>10, <2>3, <2>4, BackLightAssumption
    DEF LedFlash, InMain, World, Rest, Places, history
<1>11. CASE BreathTest
  BY <1>0, <1>11, BackLightAssumption
  DEF BreathTest, InMain, World, Rest, Places, Breathing, light, history
<1>12. CASE BreathFade
  <2>0. UNCHANGED << pin, pending, exti, adapter, history, key, led, key_sta,
                     settled, low >> /\ main = "fade" /\ main' = "key"
        /\ pwm' = pwm + Step /\ ccr3' = pwm'
    BY <1>12 DEF BreathFade, InMain, World
  <2>1. breathing' \in Breathing /\ breathing'.change = breathing.change
        /\ (breathing'.enable => pwm' <= PWM_1)
    BY <1>0, <1>12 DEF BreathFade, Breathing
  <2>2. pwm \in Nat /\ pwm <= PWM_1 + Step
        /\ (breathing.change => pwm <= PWM_1)
    BY <1>0, <2>0, BackLightAssumption DEF Rest
  <2>3. pwm' \in 0 .. PWM_1 + 2 * Step /\ (breathing.change => pwm' <= PWM_1 + Step)
    BY <2>0, <2>2, BackLightAssumption
  <2>4. Rest'
    BY <1>0, <2>0, <2>3 DEF Rest, Places, history
  <2> QED
    BY <1>0, <2>0, <2>1, <2>3, <2>4
<1>13. CASE UNCHANGED vars
  BY <1>0, <1>13 DEF vars, Rest
<1> QED
  BY <1>1, <1>2, <1>3, <1>4, <1>5, <1>6, <1>7, <1>8, <1>9, <1>10, <1>11, <1>12, <1>13
  DEF Next, Main

\* Types, for any levels, times and key: in particular every counter is loaded
\* before it counts and so never wraps, also when the timer strikes between the
\* loading and the enabling, and breathing ends at most two steps above the top.
THEOREM LampTypeCorrect == Spec => []TypeOK
<1>1. LampInv => TypeOK
  BY DEF LampInv
<1> QED
  BY <1>1, LampInvInit, LampInvNext, PTL DEF Spec

-----------------------------------------------------------------------------
(* Presses *)

Cap(n) == IF n < 3 THEN n ELSE 3

\* How many presses main has acted on: when it has dealt with the last move of
\* the key all of them, else those before it.
Handled == IF AtRest THEN (edges + 1) \div 2 ELSE edges \div 2

\* Where a move is on its way from the pin to main, for a key that waits.
OnItsWay ==
  /\ pending => ~key.change /\ main \notin {"clear", "read"}
  /\ exti # "idle" => pending
  /\ exti = "clear" \/ (~AtRest /\ ~pending) => key.sta = pin
  /\ main = "clear" => key.change
  /\ main = "read" => ~key.change

CountedInv ==
  calm =>
    /\ (pin = "UP") <=> (edges % 2 = 0)
    /\ key_sta = Cap(Handled)
    /\ OnItsWay

LEMMA CountedInvInit == Init => CountedInv
<1> SUFFICES ASSUME Init
             PROVE  CountedInv
  OBVIOUS
<1>1. AtRest
  BY DEF Init, AtRest
<1>2. (0 + 1) \div 2 = 0 /\ 0 % 2 = 0
  OBVIOUS
<1>3. key_sta = Cap(Handled)
  BY <1>1, <1>2 DEF Init, Handled, Cap
<1> QED
  BY <1>1, <1>2, <1>3 DEF Init, CountedInv, OnItsWay

LEMMA CountedInvNext == LampInv /\ CountedInv /\ [Next]_vars => CountedInv'
<1> SUFFICES ASSUME LampInv, CountedInv, [Next]_vars, calm'
             PROVE  CountedInv'
  BY DEF CountedInv
<1>0. edges \in Nat /\ key_sta \in 0 .. 3 /\ key \in Key /\ pin \in {"DOWN", "UP"}
      /\ KeyLoaded
  BY TypeParts, BackLightAssumption DEF LampInv, Rest
<1>c. calm /\ (edges' # edges => AtRest)
  BY DEF Next, Edge, Plug, EXTI0_1_IRQHandler, ExtiArm, ExtiEnable, ExtiWait, ExtiRead,
         ExtiClear, InExti, TIM3_IRQHandler, Main, KeyTest, KeyClear, KeyRead,
         adc_convert, AdcNothing, AdcSettles, AdcFine, AdcLow, AdcEnable, LedSame,
         LedFlash, BreathTest, BreathFade, World, history, vars
<1>i. /\ (pin = "UP") <=> (edges % 2 = 0)
      /\ key_sta = Cap(Handled)
      /\ OnItsWay
  BY <1>c DEF CountedInv
\* Steps that neither move the key nor bring a move forward.
<1>a. ASSUME UNCHANGED << pin, pending, exti, key_sta, edges >>,
             key'.change = key.change, key'.sta = key.sta,
             main \notin {"clear", "read"}, main' \notin {"clear", "read"}
      PROVE  CountedInv'
  BY <1>i, <1>a DEF CountedInv, Handled, OnItsWay, AtRest
<1>1. CASE Edge
  <2>1. AtRest /\ ~AtRest' /\ edges' = edges + 1
    BY <1>c, <1>1 DEF Edge, AtRest
  <2>2. Handled' = Handled /\ key_sta' = key_sta
    BY <1>1, <2>1 DEF Handled, Edge
  <2>3. (pin' = "UP") <=> (edges' % 2 = 0)
    BY <1>0, <1>i, <1>1, <2>1 DEF Edge
  <2>4. OnItsWay'
    BY <1>1, <2>1 DEF Edge, OnItsWay, AtRest
  <2> QED
    BY <1>i, <2>2, <2>3, <2>4 DEF CountedInv
<1>2. CASE Plug
  BY <1>i, <1>2 DEF Plug, CountedInv, Handled, OnItsWay, AtRest, history
<1>3. CASE EXTI0_1_IRQHandler
  <2>1. UNCHANGED << pin, main, key_sta, edges >>
    BY <1>3 DEF EXTI0_1_IRQHandler, ExtiArm, ExtiEnable, ExtiWait, ExtiRead,
                ExtiClear, InExti, history
  <2>2. pending
    BY <1>i, <1>3 DEF EXTI0_1_IRQHandler, ExtiArm, ExtiEnable, ExtiWait, ExtiRead,
                      ExtiClear, OnItsWay
  <2>3. ~AtRest /\ ~AtRest' /\ OnItsWay'
    <3>1. CASE ExtiArm \/ ExtiEnable \/ ExtiWait
      BY <1>0, <1>i, <2>1, <2>2, <3>1
      DEF ExtiArm, ExtiEnable, ExtiWait, OnItsWay, AtRest, Key
    <3>2. CASE ExtiRead
      BY <1>0, <1>i, <2>1, <2>2, <3>2 DEF ExtiRead, OnItsWay, AtRest, Key
    <3>3. CASE ExtiClear
      <4>1. key'.change /\ key'.sta = key.sta /\ exti = "clear" /\ exti' = "idle"
            /\ ~pending'
        BY <1>0, <3>3 DEF ExtiClear, Key
      <4>2. key.sta = pin /\ main \notin {"clear", "read"}
        BY <1>i, <2>2, <4>1 DEF OnItsWay
      <4>3. ~AtRest /\ ~AtRest'
        BY <2>2, <4>1 DEF AtRest
      <4>4. pin' = pin /\ main' = main
        BY <2>1
      <4>5. /\ exti' = "clear" \/ (~AtRest' /\ ~pending') => key'.sta = pin'
            /\ main' = "clear" => key'.change
            /\ main' = "read" => ~key'.change
            /\ exti' # "idle" => pending'
            /\ pending' => ~key'.change /\ main' \notin {"clear", "read"}
        BY <4>1, <4>2, <4>4
      <4> QED
        BY <4>3, <4>5 DEF OnItsWay
    <3> QED
      BY <1>3, <3>1, <3>2, <3>3 DEF EXTI0_1_IRQHandler
  <2> QED
    BY <1>i, <2>1, <2>3 DEF CountedInv, Handled
<1>4. CASE TIM3_IRQHandler
  <2>1. key'.change = key.change /\ key'.sta = key.sta
    BY <1>0, <1>4, OneShotSteps DEF TIM3_IRQHandler, KeyLoaded
  <2> QED
    BY <1>i, <1>4, <2>1
    DEF TIM3_IRQHandler, CountedInv, Handled, OnItsWay, AtRest, history
<1>5. CASE KeyTest
  BY <1>i, <1>5 DEF KeyTest, InMain, World, CountedInv, Handled, OnItsWay, AtRest, history
<1>6. CASE KeyClear
  <2>1. UNCHANGED << pin, pending, exti, key_sta, edges >> /\ key'.sta = key.sta
        /\ ~key'.change /\ main = "clear" /\ main' = "read"
    BY <1>0, <1>6 DEF KeyClear, InMain, World, history, Key
  <2> QED
    BY <1>i, <2>1 DEF CountedInv, Handled, OnItsWay, AtRest
<1>7. CASE KeyRead
  <2>1. UNCHANGED << pin, pending, exti, edges, key >> /\ main = "read"
        /\ main' \in {"adc", "off"} /\ exti = "idle"
    BY <1>7 DEF KeyRead, KeyDown, KeyUp, InMain, World, history
  <2>2. ~AtRest /\ AtRest' /\ OnItsWay' /\ key.sta = pin
    BY <1>i, <2>1 DEF AtRest, OnItsWay
  <2>3. CASE key.sta = "DOWN"
    <3>1. key_sta' = IF key_sta < 3 THEN key_sta + 1 ELSE key_sta
      BY <1>7, <2>3 DEF KeyRead, KeyDown, KeyUp
    <3>2. (edges + 1) \div 2 = edges \div 2 + 1 /\ edges \div 2 \in Nat
      BY <1>0, <1>i, <2>2, <2>3
    <3>3. key_sta' = Cap((edges + 1) \div 2)
      BY <1>0, <1>i, <2>2, <3>1, <3>2 DEF Handled, Cap
    <3> QED
      BY <1>i, <2>1, <2>2, <3>3 DEF CountedInv, Handled
  <2>4. CASE key.sta = "UP"
    <3>1. key_sta' = key_sta
      BY <1>7, <2>4 DEF KeyRead, KeyDown, KeyUp
    <3>2. (edges + 1) \div 2 = edges \div 2
      BY <1>0, <1>i, <2>2, <2>4
    <3> QED
      BY <1>i, <2>1, <2>2, <3>1, <3>2 DEF CountedInv, Handled
  <2> QED
    BY <1>0, <2>3, <2>4 DEF Key
<1>8. CASE adc_convert \/ LedSame \/ LedFlash \/ BreathTest \/ BreathFade
  <2>1. UNCHANGED << pin, pending, exti, key_sta, edges, key >>
        /\ main \notin {"clear", "read"} /\ main' \notin {"clear", "read"}
    BY <1>8 DEF adc_convert, AdcNothing, AdcSettles, AdcFine, AdcLow, AdcEnable,
                LedSame, LedFlash, BreathTest, BreathFade, InMain, World, history
  <2> QED
    BY <1>a, <2>1
<1>9. CASE UNCHANGED vars
  BY <1>i, <1>9 DEF vars, CountedInv, Handled, OnItsWay, AtRest
<1> QED
  BY <1>1, <1>2, <1>3, <1>4, <1>5, <1>6, <1>7, <1>8, <1>9 DEF Next, Main

\* Every press of a key that waits for main is counted once, for any number of
\* moves, whatever breathing, battery and timer do in between.
THEOREM LampPressesCounted == Spec => []PressesCounted
<1>1. CountedInv => PressesCounted
  BY DEF CountedInv, PressesCounted, presses, Handled, Cap
<1> QED
  BY <1>1, LampInvInit, LampInvNext, CountedInvInit, CountedInvNext, PTL DEF Spec
=============================================================================

---------------------------- MODULE DutLinkProofs ----------------------------
(***************************************************************************)
(* Theorems about DutLink, for any device, any length of answers, any size *)
(* of the buffer and any number of exchanges.                              *)
(***************************************************************************)
EXTENDS DutLink, TLAPS

-----------------------------------------------------------------------------
(* The operators the link is built from *)

\* An enabled timer never stands at 2, where a tick would find it frozen.
CountsBelowTwo(t) == t.enable => t.cnt # 2

\* The timer keeps its type and its bound; what a byte and a tick do to it.
LEMMA TimerSteps ==
  ASSUME NEW t \in Timer, CountsBelowTwo(t)
  PROVE  /\ OnByte(t) \in Timer /\ CountsBelowTwo(OnByte(t))
         /\ OnByte(t).enable /\ OnByte(t).state = t.state
         /\ OnTick(t) \in Timer /\ CountsBelowTwo(OnTick(t))
         /\ ~t.enable => OnTick(t) = t
         /\ t.enable =>
              \/ OnTick(t).enable /\ OnTick(t).state = t.state
              \/ t.cnt = 1 /\ ~OnTick(t).enable /\ OnTick(t).state = "TIME_OUT"
         /\ t.state # "NORMAL" => OnTick(t).state # "NORMAL"
         /\ Acknowledge(t) \in Timer /\ CountsBelowTwo(Acknowledge(t))
         /\ Acknowledge(t).state = "NORMAL" /\ Acknowledge(t).enable = t.enable
<1>1. OnByte(t) \in Timer /\ OnByte(t).enable /\ OnByte(t).state = t.state
      /\ CountsBelowTwo(OnByte(t))
  BY DEF Timer, OnByte, CountsBelowTwo
<1>2. /\ Acknowledge(t) \in Timer /\ CountsBelowTwo(Acknowledge(t))
      /\ Acknowledge(t).state = "NORMAL" /\ Acknowledge(t).enable = t.enable
  BY DEF Timer, Acknowledge, CountsBelowTwo
<1>3. CASE ~t.enable
  BY <1>1, <1>2, <1>3 DEF OnTick
<1>4. CASE t.enable /\ t.cnt = 0
  <2>1. OnTick(t) = [t EXCEPT !.cnt = 1]
    BY <1>4 DEF OnTick
  <2> QED
    BY <1>1, <1>2, <1>4, <2>1 DEF Timer, CountsBelowTwo
<1>5. CASE t.enable /\ t.cnt # 0
  <2>1. OnTick(t) = [enable |-> FALSE, state |-> "TIME_OUT", cnt |-> 2]
    BY <1>5 DEF OnTick
  <2>2. t.cnt = 1
    BY <1>5 DEF Timer, CountsBelowTwo
  <2> QED
    BY <1>1, <1>2, <1>5, <2>1, <2>2 DEF Timer, CountsBelowTwo
<1> QED
  BY <1>3, <1>4, <1>5

\* Storing a byte keeps the type of the buffer; one that fits is appended.
LEMMA StoreSteps ==
  ASSUME NEW S, NEW buf \in Seq(S), NEW b \in S
  PROVE  /\ Store(buf, b) \in Seq(S)
         /\ Len(buf) + 1 < MaxLen => Store(buf, b) = Append(buf, b)
<1>1. CASE Len(buf) + 1 >= MaxLen
  BY <1>1, MaxLenAssumption DEF Store
<1>2. CASE ~(Len(buf) + 1 >= MaxLen)
  BY <1>2 DEF Store
<1> QED
  BY <1>1, <1>2

\* The first k bytes of the answer to call c.
Piece(c, k) == [i \in 1 .. k |-> << c, i >>]

\* A piece, its length, and the piece that is one byte longer.
LEMMA PieceGrows ==
  ASSUME NEW c, NEW k \in Nat
  PROVE  /\ Len(Piece(c, k)) = k
         /\ Append(Piece(c, k), << c, k + 1 >>) = Piece(c, k + 1)
<1>1. Piece(c, k) \in Seq({c} \X (1 .. k)) /\ Len(Piece(c, k)) = k
  BY DEF Piece
<1>2. Append(Piece(c, k), << c, k + 1 >>)
        = [i \in 1 .. k + 1 |-> IF i = k + 1 THEN << c, k + 1 >> ELSE Piece(c, k)[i]]
  BY <1>1
<1>3. Piece(c, k + 1) = [i \in 1 .. k + 1 |-> << c, i >>]
  BY DEF Piece
<1>4. \A i \in 1 .. k + 1 :
        (IF i = k + 1 THEN << c, k + 1 >> ELSE Piece(c, k)[i]) = << c, i >>
  BY DEF Piece
<1>5. Append(Piece(c, k), << c, k + 1 >>) = [i \in 1 .. k + 1 |-> << c, i >>]
  BY <1>2, <1>4
<1> QED
  BY <1>1, <1>3, <1>5

-----------------------------------------------------------------------------
(* Types, and whose TIM2 is *)

\* ret is 1 exactly while uart_to_dut runs.
ReturnedWhenIdle == (pc = "idle") <=> (ret # 1)

\* TIM2 is started with its state cleared, is stopped when it has expired, and
\* uart_to_dut gives up only after that.
ExpiredStops ==
  /\ pc = "start" => ~expired
  /\ pc \in {"wait", "decide", "stop", "fail"} /\ expired => ~running
  /\ pc = "decide" /\ timer.state = "NORMAL" => expired
  /\ pc = "fail" => expired

DutInv ==
  /\ TypeOK
  /\ CountsBelowTwo(timer)
  /\ ReturnedWhenIdle
  /\ ExpiredStops
  /\ TimerOwned

LEMMA DutInvInit == Init => DutInv
<1> SUFFICES ASSUME Init
             PROVE  DutInv
  OBVIOUS
<1>1. IdleTimer \in Timer /\ CountsBelowTwo(IdleTimer)
  BY DEF IdleTimer, Timer, CountsBelowTwo
<1>2. recv \in Seq(Bytes) /\ said \in 0 .. AnswerLen - 1
      /\ call \in 0 .. MaxCalls /\ dut \in 0 .. MaxCalls
  BY DutLinkAssumption DEF Init
<1>3. TypeOK
  BY <1>1, <1>2 DEF Init, TypeOK
<1> QED
  BY <1>1, <1>3 DEF Init, DutInv, ReturnedWhenIdle, ExpiredStops, TimerOwned

LEMMA DutInvNext == DutInv /\ [Next]_vars => DutInv'
<1> SUFFICES ASSUME DutInv, [Next]_vars
             PROVE  DutInv'
  OBVIOUS
<1> USE DEF DutInv, ReturnedWhenIdle, ExpiredStops, TimerOwned
<1>0. timer \in Timer /\ CountsBelowTwo(timer)
  BY DEF TypeOK
<1>1. CASE Call
  BY <1>1, DutLinkAssumption DEF Call, TypeOK, tim2, device
<1>2. CASE ClearLength
  BY <1>2 DEF ClearLength, TypeOK, tim2, device
<1>3. CASE ClearTimer
  BY <1>0, <1>3, TimerSteps DEF ClearTimer, TypeOK, tim2, device
<1>4. CASE Send
  BY <1>4, DutLinkAssumption DEF Send, TypeOK, tim2
<1>5. CASE ArmTimer2
  BY <1>5 DEF ArmTimer2, TypeOK, device
<1>6. CASE StartTimer2
  <2>1. TypeOK'
    BY <1>6 DEF StartTimer2, TypeOK, device
  <2>2. timer' = timer
    BY <1>6 DEF StartTimer2
  <2> QED
    BY <1>0, <1>6, <2>1, <2>2 DEF StartTimer2, device
<1>7. CASE Wait
  BY <1>7 DEF Wait, TypeOK, tim2, device
<1>8. CASE Decide
  BY <1>8 DEF Decide, TypeOK, tim2, device
<1>9. CASE ReturnData
  <2>1. TypeOK'
    BY <1>9 DEF ReturnData, TypeOK, device
  <2>2. CountsBelowTwo(timer')
    BY <1>0, <1>9 DEF ReturnData
  <2>3. ReturnedWhenIdle' /\ ExpiredStops' /\ TimerOwned'
    BY <1>9 DEF ReturnData, device
  <2> QED
    BY <2>1, <2>2, <2>3
<1>10. CASE ReturnTimeout
  <2>1. TypeOK'
    <3>1. UNCHANGED << recv, timer, expired, running, call, prompt >>
      BY <1>10 DEF ReturnTimeout, tim2
    <3>2. powered' \in BOOLEAN /\ pc' = "idle" /\ ret' \in {-1, 0, 1}
      BY <1>10 DEF ReturnTimeout
    <3>3. dut' \in 0 .. MaxCalls /\ said' \in 0 .. AnswerLen - 1
      BY <1>10, DutLinkAssumption DEF ReturnTimeout
    <3> QED
      BY <3>1, <3>2, <3>3 DEF TypeOK
  <2>2. CountsBelowTwo(timer')
    BY <1>0, <1>10 DEF ReturnTimeout
  <2>3. ReturnedWhenIdle' /\ ExpiredStops' /\ TimerOwned'
    BY <1>10 DEF ReturnTimeout, tim2
  <2> QED
    BY <2>1, <2>2, <2>3
<1>11. CASE Switch
  BY <1>11, DutLinkAssumption DEF Switch, TypeOK, tim2
<1>12. CASE USART3_IRQHandler
  <2>1. said + 1 \in 1 .. AnswerLen /\ dut \in Calls
    BY <1>12, DutLinkAssumption DEF USART3_IRQHandler, TypeOK, Calls
  <2>2. << dut, said + 1 >> \in Bytes
    BY <2>1 DEF Bytes
  <2>3. recv' \in Seq(Bytes)
    BY <1>12, <2>2, StoreSteps DEF USART3_IRQHandler, TypeOK
  <2>4. timer' \in Timer /\ CountsBelowTwo(timer') /\ timer'.state = timer.state
    BY <1>0, <1>12, TimerSteps DEF USART3_IRQHandler
  <2>5. said' \in 0 .. AnswerLen - 1
    BY <1>12, DutLinkAssumption DEF USART3_IRQHandler, TypeOK
  <2>6. dut' \in 0 .. MaxCalls
    BY <1>12, DutLinkAssumption DEF USART3_IRQHandler, TypeOK
  <2> QED
    BY <1>12, <2>3, <2>4, <2>5, <2>6 DEF USART3_IRQHandler, TypeOK, tim2
<1>13. CASE DutFallsSilent
  BY <1>13, DutLinkAssumption DEF DutFallsSilent, TypeOK, tim2
<1>14. CASE TIM3_IRQHandler
  <2>1. timer' \in Timer /\ CountsBelowTwo(timer')
        /\ (timer'.state = "NORMAL" => timer.state = "NORMAL")
    BY <1>0, <1>14, TimerSteps DEF TIM3_IRQHandler
  <2> QED
    BY <1>14, <2>1 DEF TIM3_IRQHandler, TypeOK, tim2
<1>15. CASE TIM2_IRQHandler
  BY <1>15 DEF TIM2_IRQHandler, TypeOK
<1>16. CASE UNCHANGED vars
  BY <1>16 DEF vars, TypeOK
<1> QED
  BY <1>1, <1>2, <1>3, <1>4, <1>5, <1>6, <1>7, <1>8, <1>9, <1>10, <1>11, <1>12,
     <1>13, <1>14, <1>15, <1>16 DEF Next, uart_to_dut, Interrupts

\* The type invariant, for any device.
THEOREM DutTypeCorrect == Spec => []TypeOK
<1>1. DutInv => TypeOK
  BY DEF DutInv
<1> QED
  BY <1>1, DutInvInit, DutInvNext, PTL DEF Spec

\* TIM2 counts only inside the exchange that started it.
THEOREM DutTimerOwned == Spec => []TimerOwned
<1>1. DutInv => TimerOwned
  BY DEF DutInv
<1> QED
  BY <1>1, DutInvInit, DutInvNext, PTL DEF Spec

-----------------------------------------------------------------------------
(* The promise to the callers *)

\* Every step of the link is a step of the port, or one it does not see.
LEMMA DutPortNext == DutInv /\ [Next]_vars => [Port!Next]_(Port!vars)
<1> SUFFICES ASSUME DutInv, [Next]_vars
             PROVE  [Port!Next]_(Port!vars)
  OBVIOUS
<1>0. ReturnedWhenIdle /\ ret \in {-1, 0, 1}
  BY DEF DutInv, TypeOK
<1>1. CASE Call
  BY <1>0, <1>1 DEF Call, ReturnedWhenIdle, Port!Next, Port!Ask
<1>2. CASE ReturnData
  BY <1>0, <1>2 DEF ReturnData, ReturnedWhenIdle, Port!Next, Port!Return, Port!Answered
<1>3. CASE ReturnTimeout
  BY <1>0, <1>3 DEF ReturnTimeout, ReturnedWhenIdle, Port!Next, Port!Return, Port!GivesUp
<1>4. CASE Switch
  <2>1. powered' \in BOOLEAN
    BY <1>4 DEF Switch, DutInv, TypeOK
  <2> QED
    BY <1>0, <1>4, <2>1 DEF Switch, ReturnedWhenIdle, Port!Next, Port!Switch
<1>5. CASE \/ ClearLength \/ ClearTimer \/ Send \/ ArmTimer2 \/ StartTimer2
           \/ Wait \/ Decide
  BY <1>5 DEF ClearLength, ClearTimer, Send, ArmTimer2, StartTimer2, Wait,
              Decide, Port!vars
<1>6. CASE Interrupts \/ DutFallsSilent \/ UNCHANGED vars
  BY <1>6 DEF Interrupts, USART3_IRQHandler, TIM3_IRQHandler, TIM2_IRQHandler,
              DutFallsSilent, vars, Port!vars
<1> QED
  BY <1>1, <1>2, <1>3, <1>4, <1>5, <1>6 DEF Next, uart_to_dut

\* uart_to_dut keeps the safety half of its promise, whatever the device says:
\* it returns once for every call, switches the supply at no other moment than a
\* timeout, and then off.  (That it returns is liveness, and TLC's.)
THEOREM DutLinkImplementsPort == Spec => Port!Init /\ [][Port!Next]_(Port!vars)
<1>1. Init => Port!Init
  BY DEF Init, Port!Init
<1> QED
  BY <1>1, DutInvInit, DutInvNext, DutPortNext, PTL DEF Spec

-----------------------------------------------------------------------------
(* Answers to the right question *)

\* Nothing is coming, and nothing of what came is still being timed.
Silent == dut = 0 /\ said = 0 /\ ~timer.enable

Waits == pc \in {"arm", "start", "wait", "decide", "stop", "fail"}

\* Of the answer to this call nothing has come, or a part that the device goes on
\* with, or all of it.
HeardNothing ==
  /\ dut \in {0, call} /\ said = 0 /\ recv = << >>
  /\ ~timer.enable /\ timer.state = "NORMAL"

HeardPart ==
  /\ dut = call /\ dut # 0 /\ said # 0 /\ recv = Piece(call, said)
  /\ timer.enable /\ timer.state = "NORMAL"

HeardAll ==
  /\ dut = 0 /\ said = 0 /\ recv = Answer(call)
  /\ timer.enable <=> timer.state = "NORMAL"

\* A device that answers promptly is silent between exchanges; within one, the
\* buffer holds what it said of this answer and no more.
OwnInv ==
  prompt =>
    /\ ~Waits => Silent
    /\ pc \in {"ack", "send"} => recv = << >>
    /\ pc = "send" => timer.state = "NORMAL"
    /\ Waits => HeardNothing \/ HeardPart \/ HeardAll
    /\ Waits /\ pc \notin {"arm", "start"} /\ expired => Silent
    /\ pc = "stop" => timer.state # "NORMAL"
    /\ pc = "idle" /\ ret = 0 => recv = Answer(call)

LEMMA OwnInvNext == DutInv /\ OwnInv /\ [Next]_vars => OwnInv'
<1> SUFFICES ASSUME DutInv, OwnInv, [Next]_vars, prompt'
             PROVE  OwnInv'
  BY DEF OwnInv
<1>0. /\ timer \in Timer /\ CountsBelowTwo(timer) /\ recv \in Seq(Bytes)
      /\ said \in 0 .. AnswerLen - 1 /\ call \in Nat /\ dut \in Nat
  BY DutLinkAssumption DEF DutInv, TypeOK
<1>p. prompt
  BY DEF Next, Call, uart_to_dut, ClearLength, ClearTimer, Send, ArmTimer2,
         StartTimer2, Wait, Decide, ReturnData, ReturnTimeout, Switch,
         Interrupts, USART3_IRQHandler, DutFallsSilent, TIM3_IRQHandler,
         TIM2_IRQHandler, device, vars
<1>1. CASE Call
  BY <1>1, <1>p DEF Call, OwnInv, Waits, Silent, device, tim2
<1>2. CASE ClearLength
  BY <1>2, <1>p DEF ClearLength, OwnInv, Waits, Silent, device, tim2
<1>3. CASE ClearTimer
  <2>1. timer'.state = "NORMAL" /\ timer'.enable = timer.enable
    BY <1>0, <1>3, TimerSteps DEF ClearTimer
  <2> QED
    BY <1>3, <1>p, <2>1 DEF ClearTimer, OwnInv, Waits, Silent, device, tim2
<1>4. CASE Send
  BY <1>4, <1>p DEF Send, OwnInv, Waits, Silent, HeardNothing, tim2
<1>5. CASE ArmTimer2
  BY <1>5, <1>p DEF ArmTimer2, OwnInv, Waits, Silent, HeardNothing, HeardPart,
                    HeardAll, device
<1>6. CASE StartTimer2
  BY <1>6, <1>p DEF StartTimer2, OwnInv, Waits, Silent, HeardNothing, HeardPart,
                    HeardAll, device, DutInv, ExpiredStops
<1>7. CASE Wait
  BY <1>7, <1>p DEF Wait, OwnInv, Waits, Silent, HeardNothing, HeardPart,
                    HeardAll, device, tim2
<1>8. CASE Decide
  BY <1>8, <1>p DEF Decide, OwnInv, Waits, Silent, HeardNothing, HeardPart,
                    HeardAll, device, tim2
<1>9. CASE ReturnData
  BY <1>9, <1>p DEF ReturnData, OwnInv, Waits, Silent, HeardNothing, HeardPart,
                    HeardAll, device
<1>10. CASE ReturnTimeout
  <2>1. Silent
    BY <1>10, <1>p DEF ReturnTimeout, OwnInv, Waits, DutInv, ExpiredStops
  <2> QED
    BY <1>10, <2>1 DEF ReturnTimeout, OwnInv, Waits, Silent, tim2
<1>11. CASE Switch
  BY <1>11, <1>p DEF Switch, OwnInv, Waits, Silent, tim2
<1>12. CASE USART3_IRQHandler
  <2>1. Waits /\ pc' = pc /\ ~Silent /\ ~(dut = 0)
    BY <1>12, <1>p DEF USART3_IRQHandler, OwnInv, Silent
  <2>2. dut = call /\ recv = Piece(call, said) /\ timer.state = "NORMAL"
    <3>1. CASE HeardNothing
      <4>1. Piece(call, 0) = << >>
        BY PieceGrows DEF Piece
      <4> QED
        BY <2>1, <3>1, <4>1 DEF HeardNothing
    <3>2. CASE HeardPart
      BY <3>2 DEF HeardPart
    <3> QED
      BY <1>p, <2>1, <3>1, <3>2 DEF OwnInv, HeardAll
  <2>3. Len(recv) = said /\ said \in Nat
    BY <1>0, <2>2, PieceGrows
  <2>4. recv' = Piece(call, said + 1)
    <3>1. Len(recv) + 1 < MaxLen
      BY <1>0, <2>3, DutLinkAssumption, MaxLenAssumption
    <3>2. << dut, said + 1 >> \in Bytes
      BY <1>0, <1>12, DutLinkAssumption
      DEF USART3_IRQHandler, Bytes, Calls, DutInv, TypeOK
    <3>3. recv' = Append(recv, << dut, said + 1 >>)
      BY <1>0, <1>12, <3>1, <3>2, StoreSteps DEF USART3_IRQHandler
    <3> QED
      BY <2>2, <2>3, <3>3, PieceGrows
  <2>5. timer'.enable /\ timer'.state = "NORMAL"
    BY <1>0, <1>12, <2>2, TimerSteps DEF USART3_IRQHandler
  <2>6. CASE said + 1 = AnswerLen
    <3>1. dut' = 0 /\ said' = 0 /\ recv' = Answer(call)
      <4>1. recv' = Answer(call)
        BY <2>4, <2>6 DEF Piece, Answer
      <4>2. AnswerLen % AnswerLen = 0
        BY DutLinkAssumption
      <4> QED
        BY <1>12, <2>6, <4>1, <4>2 DEF USART3_IRQHandler
    <3>2. HeardAll'
      BY <1>12, <2>5, <3>1 DEF HeardAll, USART3_IRQHandler, Answer
    <3> QED
      BY <1>12, <1>p, <2>1, <2>2, <3>2 DEF OwnInv, USART3_IRQHandler, Waits, tim2
  <2>7. CASE said + 1 # AnswerLen
    <3>1. dut' = dut /\ said' = said + 1
      BY <1>0, <1>12, <2>7, DutLinkAssumption DEF USART3_IRQHandler
    <3>2. HeardPart'
      <4>1. call' = call
        BY <1>12 DEF USART3_IRQHandler
      <4>2. said' # 0 /\ recv' = Piece(call', said')
        BY <2>3, <2>4, <3>1, <4>1
      <4> QED
        BY <2>1, <2>2, <2>5, <3>1, <4>1, <4>2 DEF HeardPart
    <3> QED
      BY <1>12, <1>p, <2>1, <2>2, <3>2 DEF OwnInv, USART3_IRQHandler, Waits, tim2
  <2> QED
    BY <2>6, <2>7
<1>13. CASE DutFallsSilent
  <2>1. Waits /\ said = 0
    BY <1>13, <1>p DEF DutFallsSilent, OwnInv, Silent
  <2>2. HeardNothing
    BY <1>13, <1>p, <2>1 DEF DutFallsSilent, OwnInv, HeardPart, HeardAll
  <2> QED
    BY <1>13, <1>p, <2>1, <2>2 DEF DutFallsSilent, OwnInv, Waits, HeardNothing,
                                   Silent, tim2
<1>14. CASE TIM3_IRQHandler
  <2>1. UNCHANGED << recv, tim2, pc, call, ret, dut, said >> /\ timer' = OnTick(timer)
    BY <1>14 DEF TIM3_IRQHandler
  <2>2. CASE ~timer.enable
    <3>1. timer' = timer
      BY <1>0, <2>1, <2>2, TimerSteps
    <3> QED
      BY <1>p, <2>1, <3>1 DEF OwnInv, Waits, Silent, HeardNothing, HeardPart,
                              HeardAll, tim2, Answer, Piece
  <2>3. CASE timer.enable
    <3>1. Waits /\ (HeardPart \/ HeardAll)
      BY <1>p, <2>3 DEF OwnInv, Silent, HeardNothing
    <3>2. \/ timer'.enable /\ timer'.state = timer.state
          \/ timer.cnt = 1 /\ ~timer'.enable /\ timer'.state = "TIME_OUT"
      BY <1>0, <2>1, <2>3, TimerSteps
    <3>3. HeardPart' \/ HeardAll'
      <4>1. CASE HeardPart
        <5>1. said > 0
          BY <1>0, <4>1 DEF HeardPart
        <5>2. timer'.enable /\ timer'.state = timer.state
          BY <1>14, <2>3, <3>2, <5>1 DEF TIM3_IRQHandler
        <5> QED
          BY <2>1, <4>1, <5>2 DEF HeardPart, Piece
      <4>2. CASE HeardAll
        BY <2>1, <2>3, <3>2, <4>2 DEF HeardAll, Answer
      <4> QED
        BY <3>1, <4>1, <4>2
    <3>4. timer.state = "NORMAL"
      BY <2>3, <3>1 DEF HeardPart, HeardAll
    <3> QED
      BY <1>p, <2>1, <2>3, <3>1, <3>3, <3>4 DEF OwnInv, Waits, Silent, tim2
  <2> QED
    BY <2>2, <2>3
<1>15. CASE TIM2_IRQHandler
  <2>1. pc \in {"wait", "decide", "stop", "fail"}
    BY <1>15 DEF TIM2_IRQHandler, DutInv, TimerOwned
  <2>2. dut = 0 /\ ~timer.enable
    BY <1>15 DEF TIM2_IRQHandler
  <2> QED
    BY <1>15, <1>p, <2>1, <2>2 DEF TIM2_IRQHandler, OwnInv, Waits, Silent,
                               HeardNothing, HeardPart, HeardAll, Answer, Piece
<1>16. CASE UNCHANGED vars
  BY <1>16, <1>p DEF vars, OwnInv, Waits, Silent, HeardNothing, HeardPart,
                     HeardAll, Answer, Piece
<1> QED
  BY <1>1, <1>2, <1>3, <1>4, <1>5, <1>6, <1>7, <1>8, <1>9, <1>10, <1>11, <1>12,
     <1>13, <1>14, <1>15, <1>16 DEF Next, uart_to_dut, Interrupts

\* 0 is returned with the whole answer to this very command, from a device that
\* answers in one piece and in time, or not at all.
THEOREM DutAnswerIsOwn == Spec => []AnswerIsOwn
<1>1. Init => OwnInv
  BY DEF Init, OwnInv, Waits, Silent, IdleTimer
<1>2. OwnInv => AnswerIsOwn
  BY DEF OwnInv, AnswerIsOwn
<1> QED
  BY <1>1, <1>2, DutInvInit, DutInvNext, OwnInvNext, PTL DEF Spec
=============================================================================

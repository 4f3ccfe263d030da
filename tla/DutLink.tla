------------------------------ MODULE DutLink ------------------------------
(***************************************************************************)
(* One exchange with the device under test: uart_to_dut of hal.c, which    *)
(* main runs, the USART3 receive interrupt, the frame timer driven by TIM3 *)
(* and the one-shot TIM2 that limits the wait.  Interrupts land between    *)
(* any two steps of uart_to_dut.                                           *)
(***************************************************************************)
EXTENDS FrameTimer, Integers

CONSTANTS AnswerLen,    \* how many bytes an answer has
          MaxCalls      \* bound: how many exchanges the caller makes

ASSUME DutLinkAssumption ==
  /\ AnswerLen \in Nat \ {0}
  /\ AnswerLen < MaxLen
  /\ MaxCalls \in Nat

Calls == 1 .. MaxCalls
Bytes == Calls \X (1 .. AnswerLen)

VARIABLES
  recv,         \* uart_dut.recv_buf[0 .. recv_len - 1], as << call, place >>
  timer,        \* uart_dut.timer
  expired,      \* timer2.state = TIME_OUT
  running,      \* TIM2 counts
  powered,      \* DUT_PWR
  pc,           \* where uart_to_dut is; "idle" when main is not in it
  call,         \* how many exchanges were begun
  ret,          \* what the last one returned; 1 when none has
  dut, said,    \* the device: the call it answers (0: none), the bytes so far
  prompt        \* history: so far every answer came in one piece and in time

device == << dut, said, prompt >>
tim2   == << expired, running >>
vars == << recv, timer, expired, running, powered, pc, call, ret,
           dut, said, prompt >>

Init ==
  /\ recv = << >> /\ timer = IdleTimer
  /\ expired = FALSE /\ running = FALSE
  /\ powered = FALSE /\ pc = "idle"
  /\ call = 0 /\ ret = -1
  /\ dut = 0 /\ said = 0 /\ prompt = TRUE

Answer(c) == [i \in 1 .. AnswerLen |-> << c, i >>]

-----------------------------------------------------------------------------
(* uart_to_dut, statement by statement *)

Call ==
  /\ pc = "idle"
  /\ call < MaxCalls
  /\ call' = call + 1
  /\ ret' = 1
  /\ pc' = "clear"
  /\ UNCHANGED << recv, timer, tim2, powered, device >>

\* Mutant of ClearLength: the bytes of the exchange before stay in the buffer.
ClearLengthForgets ==
  /\ pc = "clear"
  /\ pc' = "ack"
  /\ UNCHANGED << recv, timer, tim2, powered, call, ret, device >>

\* uart_dut.recv_len = 0
ClearLength ==
  /\ pc = "clear"
  /\ recv' = << >>
  /\ pc' = "ack"
  /\ UNCHANGED << timer, tim2, powered, call, ret, device >>

\* uart_dut.timer.state = NORMAL; what is left of the timer goes on
ClearTimer ==
  /\ pc = "ack"
  /\ timer' = Acknowledge(timer)
  /\ pc' = "send"
  /\ UNCHANGED << recv, tim2, powered, call, ret, device >>

\* uart_dut_putln: a device that has power and time may take the command
Send ==
  /\ pc = "send"
  /\ dut' = IF powered /\ dut = 0 THEN call ELSE dut
  /\ pc' = "arm"
  /\ UNCHANGED << recv, timer, tim2, powered, call, ret, said, prompt >>

\* timer2.state = NORMAL
ArmTimer2 ==
  /\ pc = "arm"
  /\ expired' = FALSE
  /\ pc' = "start"
  /\ UNCHANGED << recv, timer, running, powered, call, ret, device >>

\* timer2.clear(); timer2.start()
StartTimer2 ==
  /\ pc = "start"
  /\ running' = TRUE
  /\ pc' = "wait"
  /\ UNCHANGED << recv, timer, expired, powered, call, ret, device >>

\* Mutant of Wait: only an answer ends it.
WaitForAnswer ==
  /\ pc = "wait"
  /\ timer.state # "NORMAL"
  /\ pc' = "decide"
  /\ UNCHANGED << recv, timer, tim2, powered, call, ret, device >>

Wait ==
  /\ pc = "wait"
  /\ timer.state # "NORMAL" \/ expired
  /\ pc' = "decide"
  /\ UNCHANGED << recv, timer, tim2, powered, call, ret, device >>

Decide ==
  /\ pc = "decide"
  /\ pc' = IF timer.state # "NORMAL" THEN "stop" ELSE "fail"
  /\ UNCHANGED << recv, timer, tim2, powered, call, ret, device >>

\* Mutant of ReturnData: TIM2 is not stopped.
ReturnDataForgets ==
  /\ pc = "stop"
  /\ ret' = 0
  /\ pc' = "idle"
  /\ UNCHANGED << recv, timer, tim2, powered, call, device >>

ReturnData ==
  /\ pc = "stop"
  /\ running' = FALSE
  /\ ret' = 0
  /\ pc' = "idle"
  /\ UNCHANGED << recv, timer, expired, powered, call, device >>

\* The supply is cut: the device stops in the middle of what it was saying.
ReturnTimeout ==
  /\ pc = "fail"
  /\ powered' = FALSE
  /\ dut' = 0 /\ said' = 0
  /\ ret' = -1
  /\ pc' = "idle"
  /\ UNCHANGED << recv, timer, tim2, call, prompt >>

uart_to_dut ==
  \/ ClearLength \/ ClearTimer \/ Send \/ ArmTimer2 \/ StartTimer2
  \/ Wait \/ Decide \/ ReturnData \/ ReturnTimeout

\* DUT_PWR_ON and DUT_PWR_OFF of the commands, between exchanges
Switch ==
  /\ pc = "idle"
  /\ powered' = ~powered
  /\ dut' = 0 /\ said' = 0
  /\ UNCHANGED << recv, timer, tim2, pc, call, ret, prompt >>

-----------------------------------------------------------------------------
(* The interrupts *)

\* The device says one more byte and the handler stores it.
USART3_IRQHandler ==
  /\ dut # 0
  /\ recv' = Store(recv, << dut, said + 1 >>)
  /\ timer' = OnByte(timer)
  /\ said' = (said + 1) % AnswerLen
  /\ dut' = IF said + 1 = AnswerLen THEN 0 ELSE dut
  /\ UNCHANGED << tim2, powered, pc, call, ret, prompt >>

\* The device does not answer this command, or breaks off.
DutFallsSilent ==
  /\ dut # 0
  /\ dut' = 0 /\ said' = 0
  /\ prompt' = (prompt /\ said = 0)
  /\ UNCHANGED << recv, timer, tim2, powered, pc, call, ret >>

\* A tick may end an answer that the device has not finished.
TIM3_IRQHandler ==
  /\ timer' = OnTick(timer)
  /\ prompt' = (prompt /\ ~(said > 0 /\ timer.enable /\ timer.cnt = 1))
  /\ UNCHANGED << recv, tim2, powered, pc, call, ret, dut, said >>

\* 50 ms after it was started.  An answer in time has ended by then.
TIM2_IRQHandler ==
  /\ running
  /\ running' = FALSE
  /\ expired' = TRUE
  /\ prompt' = (prompt /\ dut = 0 /\ ~timer.enable)
  /\ UNCHANGED << recv, timer, powered, pc, call, ret, dut, said >>

Interrupts ==
  USART3_IRQHandler \/ TIM3_IRQHandler \/ TIM2_IRQHandler

Next == Call \/ uart_to_dut \/ Switch \/ Interrupts \/ DutFallsSilent

Spec == Init /\ [][Next]_vars

\* Main and the hardware timers never rest.  Of the device nothing is assumed.
Fairness ==
  /\ WF_vars(uart_to_dut)
  /\ WF_vars(TIM3_IRQHandler)
  /\ WF_vars(TIM2_IRQHandler)

FairSpec == Spec /\ Fairness

-----------------------------------------------------------------------------
(* What makes an exchange correct *)

\* Every variable keeps its type.
TypeOK ==
  /\ recv \in Seq(Bytes)
  /\ timer \in Timer
  /\ expired \in BOOLEAN /\ running \in BOOLEAN /\ powered \in BOOLEAN
  /\ pc \in {"idle", "clear", "ack", "send", "arm", "start",
             "wait", "decide", "stop", "fail"}
  /\ call \in 0 .. MaxCalls
  /\ ret \in {-1, 0, 1}
  /\ dut \in 0 .. MaxCalls
  /\ said \in 0 .. AnswerLen - 1
  /\ prompt \in BOOLEAN

\* As long as the device answers in one piece and in time, or not at all,
\* uart_to_dut returns 0 only with the whole answer to its own command in the
\* buffer, never with a piece of it or with an earlier one's.
AnswerIsOwn == prompt /\ pc = "idle" /\ ret = 0 => recv = Answer(call)

\* TIM2 never counts outside an exchange, so the state that is cleared before
\* the wait cannot be set by an expiry that belongs to an earlier wait.
TimerOwned == running => pc \in {"wait", "decide", "stop", "fail"}

\* 0 is returned where the comment of uart_to_dut says that data came.  A frame
\* timer that a late answer left running ends the next exchange, whose buffer is
\* empty, so this does not hold.
ZeroMeansData == pc = "idle" /\ ret = 0 => recv # << >>

\* The exchange as the callers of uart_to_dut see it.
Port == INSTANCE DutPort WITH
  outcome <- CASE ret = 1 -> "none" [] ret = 0 -> "answer" [] OTHER -> "timeout"

\* uart_to_dut keeps that promise whatever the device says, late, broken off,
\* without end or never: it waits without a limit of its own and still returns.
ImplementsDutPort == Port!Spec
=============================================================================

------------------------------- MODULE PcLink -------------------------------
(***************************************************************************)
(* The link from the PC to the test fixture: the USART1 receive interrupt, *)
(* the frame timer driven by the TIM3 interrupt, and the two functions of  *)
(* the main loop that judge and execute a frame (verify_pc_data and        *)
(* handle_pc_data of hal.c).  All interrupts have one preemption priority, *)
(* so handlers do not nest, but they may land between any two steps of     *)
(* main; USART1 has the higher subpriority, so while it asks for service   *)
(* neither TIM3's handler nor main runs.                                   *)
(*                                                                         *)
(* A frame is header, text, CRC high, CRC low, ending.  A byte is here the *)
(* pair <<frame, place>> it comes from, so that the frames can be told     *)
(* apart; verify_data is shown the value it has there.                     *)
(***************************************************************************)
EXTENDS FrameTimer, Verify

CONSTANTS MaxFrames,    \* bound: how many frames the PC ever sends
          Text,         \* the command in each of them, as bytes
          Polite,       \* the PC starts a frame only when the link is quiet
          Steady,       \* the PC never pauses so long that a frame is cut
          MayLose,      \* the line may lose bytes
          MallocFails   \* malloc may return NULL

FrameNo == 1 .. MaxFrames

ASSUME PcLinkAssumption ==
  /\ MaxFrames \in Nat
  /\ Text \in [FrameNo -> Seq(Byte) \ {<< >>}]
  /\ {Polite, Steady, MayLose, MallocFails} \subseteq BOOLEAN

NoByte == << 0, 0 >>                    \* the data register is empty
Junk   == 0                             \* a text no frame carried whole
Bytes  == FrameNo \X Nat

VARIABLES
  state,        \* uart_pc.state
  recv,         \* uart_pc.recv_buf[0 .. recv_len - 1]
  timer,        \* uart_pc.timer
  dr,           \* USART1->DR while RXNE is set, else NoByte
  pc,           \* where main is
  frame, pos,   \* the frame the PC sends, and how much of it (0: none)
  hurt,         \* history: the frames that lost a byte or were cut by a pause
  cut,          \* history: those that were cut by a pause
  judged,       \* history: what verify_data last judged
  ran           \* history: the frames execute_cmd was given

link == << state, recv, timer >>
wire == << frame, pos, hurt, cut >>
vars == << state, recv, timer, dr, pc, frame, pos, hurt, cut, judged, ran >>

Init ==
  /\ state = "NORMAL" /\ recv = << >> /\ timer = IdleTimer
  /\ dr = NoByte /\ pc = "verify"
  /\ frame = 0 /\ pos = 0 /\ hurt = {} /\ cut = {}
  /\ judged = << >> /\ ran = << >>

-----------------------------------------------------------------------------
(* What a buffer is taken for *)

Frame == [f \in FrameNo |-> Command(Text[f])]

\* Header, the two bytes of the CRC and the ending are added to the text.
FrameLen == [f \in FrameNo |-> Len(Text[f]) + 4]

FrameBytes(f) == [i \in 1 .. FrameLen[f] |-> << f, i >>]

Whole(buf) == {f \in FrameNo : buf = FrameBytes(f)}

Value(b) == Frame[b[1]][b[2]]

\* verify_data(uart_pc.recv_buf, uart_pc.recv_len) == 1
Passes(buf) == verify_data([i \in DOMAIN buf |-> Value(buf[i])]) = 1

\* The number of the frame whose text the buffer holds.
TextOf(buf) == IF Whole(buf) = {} THEN Junk ELSE CHOOSE f \in Whole(buf) : TRUE

-----------------------------------------------------------------------------
(* The PC *)

\* No byte and no frame is anywhere between the line and the main loop.
Quiet ==
  /\ state = "NORMAL" /\ recv = << >>
  /\ ~timer.enable /\ timer.state = "NORMAL"
  /\ pc \in {"verify", "handle"}

\* A byte reaches the data register, or is lost on the line.
Deliver(b) ==
  /\ dr = NoByte
  /\ \/ dr' = b /\ UNCHANGED hurt
     \/ MayLose /\ hurt' = hurt \union {b[1]} /\ UNCHANGED dr

PcBegins ==
  /\ pos = 0
  /\ frame < MaxFrames
  /\ Polite => Quiet
  /\ Deliver(<< frame + 1, 1 >>)
  /\ frame' = frame + 1
  /\ pos' = 1
  /\ UNCHANGED << link, pc, cut, judged, ran >>

PcContinues ==
  /\ pos > 0
  /\ Deliver(<< frame, pos + 1 >>)
  /\ pos' = IF pos + 1 = FrameLen[frame] THEN 0 ELSE pos + 1
  /\ UNCHANGED << link, pc, frame, cut, judged, ran >>

-----------------------------------------------------------------------------
(* The interrupts *)

\* While a frame is being handled the handler returns without reading the data
\* register: RXNE stays set, the interrupt is taken again at once, and nothing
\* else runs.  That is a stutter here, and dr # NoByte stops all the rest.
USART1_IRQHandler ==
  /\ dr # NoByte
  /\ state = "NORMAL"
  /\ recv' = Store(recv, dr)
  /\ timer' = OnByte(timer)
  /\ dr' = NoByte
  /\ UNCHANGED << state, pc, wire, judged, ran >>

\* This tick ends a frame that the PC has not finished.
Cuts == pos > 0 /\ timer.enable /\ timer.cnt = 1

TIM3_IRQHandler ==
  /\ dr = NoByte
  /\ Steady => ~Cuts
  /\ timer' = OnTick(timer)
  /\ IF Cuts THEN hurt' = hurt \union {frame} /\ cut' = cut \union {frame}
             ELSE UNCHANGED << hurt, cut >>
  /\ UNCHANGED << state, recv, dr, pc, frame, pos, judged, ran >>

-----------------------------------------------------------------------------
(* verify_pc_data *)

\* Mutant of VerifyTest: what is there is judged, whether more follows or not.
VerifyTestUntimed ==
  /\ pc = "verify" /\ dr = NoByte
  /\ pc' = IF recv # << >> THEN "take" ELSE "handle"
  /\ UNCHANGED << link, dr, wire, judged, ran >>

VerifyTest ==
  /\ pc = "verify" /\ dr = NoByte
  /\ pc' = IF timer.state = "TIME_OUT" THEN "take" ELSE "handle"
  /\ UNCHANGED << link, dr, wire, judged, ran >>

VerifyTake ==
  /\ pc = "take" /\ dr = NoByte
  /\ timer' = Acknowledge(timer)
  /\ pc' = "judge"
  /\ UNCHANGED << state, recv, dr, wire, judged, ran >>

VerifyJudge ==
  /\ pc = "judge" /\ dr = NoByte
  /\ pc' = IF Passes(recv) THEN "accept" ELSE "discard"
  /\ judged' = recv
  /\ UNCHANGED << link, dr, wire, ran >>

VerifyAccept ==
  /\ pc = "accept" /\ dr = NoByte
  /\ state' = "RECEIVED"
  /\ pc' = "handle"
  /\ UNCHANGED << recv, timer, dr, wire, judged, ran >>

VerifyDiscard ==
  /\ pc = "discard" /\ dr = NoByte
  /\ recv' = << >>
  /\ pc' = "handle"
  /\ UNCHANGED << state, timer, dr, wire, judged, ran >>

(* handle_pc_data *)

\* The rest of the loop body touches nothing of the link, and is left out.
HandleTest ==
  /\ pc = "handle" /\ dr = NoByte
  /\ \/ /\ state = "RECEIVED"
        /\ pc' = "execute"
     \/ /\ state = "NORMAL" \/ MallocFails
        /\ pc' = "verify"
  /\ UNCHANGED << link, dr, wire, judged, ran >>

\* Mutant of HandleExecute: it returns before the buffer and state are reset.
HandleExecuteReturns ==
  /\ pc = "execute" /\ dr = NoByte
  /\ ran' = Append(ran, TextOf(recv))
  /\ pc' = "verify"
  /\ UNCHANGED << link, dr, wire, judged >>

\* The text is copied out of recv_buf and executed; how long that takes is the
\* time main stays at "wipe" and "reopen".
HandleExecute ==
  /\ pc = "execute" /\ dr = NoByte
  /\ ran' = Append(ran, TextOf(recv))
  /\ pc' = "wipe"
  /\ UNCHANGED << link, dr, wire, judged >>

\* Mutant of HandleWipe: recv_len is not reset.
HandleWipeForgets ==
  /\ pc = "wipe" /\ dr = NoByte
  /\ pc' = "reopen"
  /\ UNCHANGED << state, recv, timer, dr, wire, judged, ran >>

HandleWipe ==
  /\ pc = "wipe" /\ dr = NoByte
  /\ recv' = << >>
  /\ pc' = "reopen"
  /\ UNCHANGED << state, timer, dr, wire, judged, ran >>

HandleReopen ==
  /\ pc = "reopen" /\ dr = NoByte
  /\ state' = "NORMAL"
  /\ pc' = "verify"
  /\ UNCHANGED << recv, timer, dr, wire, judged, ran >>

verify_pc_data ==
  VerifyTest \/ VerifyTake \/ VerifyJudge \/ VerifyAccept \/ VerifyDiscard

handle_pc_data == HandleTest \/ HandleExecute \/ HandleWipe \/ HandleReopen

Main == verify_pc_data \/ handle_pc_data

Pc == PcBegins \/ PcContinues

Next == Pc \/ USART1_IRQHandler \/ TIM3_IRQHandler \/ Main

Spec == Init /\ [][Next]_vars

\* Main never blocks, TIM3 runs for ever, and pending interrupts are served.
\* The PC finishes a frame it has begun.
Fairness ==
  /\ WF_vars(Main)
  /\ WF_vars(USART1_IRQHandler)
  /\ WF_vars(TIM3_IRQHandler)
  /\ WF_vars(PcContinues)

FairSpec == Spec /\ Fairness

-----------------------------------------------------------------------------
(* What makes the link correct *)

\* Every variable keeps its type.
TypeOK ==
  /\ state \in {"NORMAL", "RECEIVED"}
  /\ recv \in Seq(Bytes)
  /\ timer \in Timer
  /\ dr \in Bytes \union {NoByte}
  /\ pc \in {"verify", "take", "judge", "accept", "discard",
             "handle", "execute", "wipe", "reopen"}
  /\ frame \in 0 .. MaxFrames
  /\ pos \in Nat
  /\ hurt \subseteq FrameNo /\ cut \subseteq FrameNo
  /\ judged \in Seq(Bytes)
  /\ ran \in Seq(FrameNo \union {Junk})

\* recv_len is where the receive interrupt stores the next byte of recv_buf:
\* it stays inside the array whatever the PC sends and however long main is
\* away, although only the handler looks at the limit.
IndexInBounds == Len(recv) < MaxLen

\* A byte in the buffer is never forgotten: the timer that ends its frame is
\* running, or its expiry has not been seen, or main is judging the buffer, or
\* the buffer was accepted.  The flag is cleared before the buffer is read, so
\* a byte may come in at any of these points.
NoStrandedBytes ==
  recv # << >> =>
    \/ timer.enable
    \/ timer.state = "TIME_OUT"
    \/ pc \in {"take", "judge", "accept", "discard"}
    \/ state = "RECEIVED"

\* Of a frame the PC did not interrupt, handle_pc_data executes what
\* verify_pc_data judged: the buffer does not change from the verdict to the
\* copy, two functions and a flag later.
ExecutedAsJudged == pc = "execute" /\ frame \notin cut => recv = judged

\* The same of every frame, as the comments of verify_pc_data and of the
\* interrupt say: right data are handed over, and nothing is received until
\* they are dealt with.
ExecutedIsJudged == pc = "execute" => recv = judged

\* No byte of a frame that the PC did not interrupt meets a closed link, where
\* the interrupt would leave it in the data register and be taken for ever.
NoStorm == state # "NORMAL" /\ frame \notin cut => dr = NoByte

\* verify_data answers 1 only for frames that came through whole.
AcceptedIsWhole == pc = "accept" => Whole(judged) # {}

\* No frame is executed twice or after one that was sent later, whatever was
\* merged, cut or thrown away in between.
RunInOrder ==
  \A i, j \in DOMAIN ran :
    i < j /\ ran[i] # Junk /\ ran[j] # Junk => ran[i] < ran[j]

\* The frames that verify_data turns down whole.
Refused == {f \in FrameNo : ~Passes(FrameBytes(f))}

\* The frames that the fixture cannot take as they were sent.
Spoiled == hurt \union (Refused \intersect 1 .. frame)

\* The link as a PC that keeps its manners sees it.
Port == INSTANCE CommandPort WITH
  issued <- frame, spoiled <- Spoiled, log <- ran

\* Every command of such a PC whose frame is not damaged on the way, and whose
\* CRC does not end in a zero byte, is run, once and in order: nothing that an
\* earlier frame left over, cut, merged or turned down, can spoil it.
ImplementsCommandPort == Port!Spec
=============================================================================

---------------------------- MODULE PcLinkProofs ----------------------------
(***************************************************************************)
(* Theorems about PcLink, for any number and length of frames, any size of *)
(* the buffer and, where nothing else is said, any PC and any line; and    *)
(* that it implements CommandPort.                                         *)
(***************************************************************************)
EXTENDS PcLink, TLAPS

-----------------------------------------------------------------------------
(* The operators the link is built from *)

\* The timer keeps its type, a byte leaves it running, and a tick turns a
\* running timer into a running or an expired one.
LEMMA TimerSteps ==
  ASSUME NEW t \in Timer
  PROVE  /\ OnByte(t) \in Timer /\ OnByte(t).enable
         /\ OnTick(t) \in Timer
         /\ t.enable \/ t.state = "TIME_OUT" =>
              OnTick(t).enable \/ OnTick(t).state = "TIME_OUT"
         /\ Acknowledge(t) \in Timer
<1>1. OnByte(t) \in Timer /\ OnByte(t).enable
  BY DEF Timer, OnByte
<1>2. Acknowledge(t) \in Timer
  BY DEF Timer, Acknowledge
<1>3. CASE ~t.enable
  BY <1>1, <1>2, <1>3 DEF OnTick
<1>4. CASE t.enable /\ t.cnt = 0
  <2>1. OnTick(t) = [t EXCEPT !.cnt = 1]
    BY <1>4 DEF OnTick
  <2> QED
    BY <1>1, <1>2, <1>4, <2>1 DEF Timer
<1>5. CASE t.enable /\ t.cnt # 0
  <2>1. OnTick(t) = [enable |-> FALSE, state |-> "TIME_OUT", cnt |-> 2]
    BY <1>5 DEF OnTick
  <2> QED
    BY <1>1, <1>2, <2>1 DEF Timer
<1> QED
  BY <1>3, <1>4, <1>5

\* How many frames there are, and how long they are.
LEMMA Lengths ==
  /\ MaxFrames \in Nat
  /\ FrameLen \in [FrameNo -> Nat]
  /\ \A f \in FrameNo : FrameLen[f] > 4
<1>1. ASSUME NEW f \in FrameNo
      PROVE  Len(Text[f]) \in Nat /\ Len(Text[f]) > 0
  <2>1. Text[f] \in Seq(Byte) /\ Text[f] # << >>
    BY PcLinkAssumption
  <2> QED
    BY <2>1
<1> QED
  BY <1>1, PcLinkAssumption DEF FrameLen

\* Storing a byte keeps the type of the buffer and its free place.
LEMMA StoreSteps ==
  ASSUME NEW S, NEW buf \in Seq(S), NEW b \in S
  PROVE  /\ Store(buf, b) \in Seq(S)
         /\ Len(Store(buf, b)) < MaxLen
<1>1. CASE Len(buf) + 1 >= MaxLen
  <2>1. Store(buf, b) = << >>
    BY <1>1 DEF Store
  <2> QED
    BY <2>1, MaxLenAssumption
<1>2. CASE ~(Len(buf) + 1 >= MaxLen)
  <2>1. Store(buf, b) = Append(buf, b)
    BY <1>2 DEF Store
  <2>2. Len(Append(buf, b)) = Len(buf) + 1 /\ Append(buf, b) \in Seq(S)
    OBVIOUS
  <2> QED
    BY <1>2, <2>1, <2>2, MaxLenAssumption
<1> QED
  BY <1>1, <1>2

\* What is executed is a frame's text or junk.
LEMMA TextOfType ==
  ASSUME NEW buf
  PROVE  TextOf(buf) \in FrameNo \union {Junk}
BY DEF TextOf, Whole

-----------------------------------------------------------------------------
(* The inductive invariant *)

\* A frame under way has a number.
FrameBegun == pos > 0 => frame > 0

\* While a command is executed the link is closed, and it is opened again with
\* an empty buffer: this is why no byte can be stranded by handle_pc_data.
ClosedWhileHandled ==
  /\ pc \in {"execute", "wipe", "reopen"} => state = "RECEIVED"
  /\ pc = "reopen" => recv = << >>

LinkInv ==
  /\ TypeOK
  /\ FrameBegun
  /\ IndexInBounds
  /\ ClosedWhileHandled
  /\ NoStrandedBytes

LEMMA LinkInvInit == Init => LinkInv
BY MaxLenAssumption, Lengths
DEF Init, LinkInv, TypeOK, FrameBegun, IndexInBounds, ClosedWhileHandled,
    NoStrandedBytes, IdleTimer, Timer, Bytes, FrameNo

LEMMA LinkInvNext == LinkInv /\ [Next]_vars => LinkInv'
<1> SUFFICES ASSUME LinkInv, [Next]_vars
             PROVE  LinkInv'
  OBVIOUS
<1> USE DEF LinkInv, FrameBegun, IndexInBounds, ClosedWhileHandled
<1>1. CASE PcBegins
  <2>1. << frame + 1, 1 >> \in Bytes /\ frame + 1 \in FrameNo
    <3>1. frame \in 0 .. MaxFrames /\ frame < MaxFrames /\ MaxFrames \in Nat
      BY <1>1, Lengths DEF PcBegins, TypeOK
    <3> QED
      BY <3>1 DEF Bytes, FrameNo
  <2>2. /\ dr' \in Bytes \union {NoByte} /\ hurt' \subseteq FrameNo
        /\ cut' \subseteq FrameNo
    BY <1>1, <2>1 DEF PcBegins, Deliver, TypeOK
  <2>3. frame' \in 0 .. MaxFrames /\ pos' \in Nat
    BY <1>1, <2>1 DEF PcBegins, FrameNo
  <2>4. TypeOK'
    BY <1>1, <2>2, <2>3 DEF PcBegins, TypeOK, link
  <2>5. NoStrandedBytes'
    BY <1>1 DEF PcBegins, NoStrandedBytes, link
  <2> QED
    BY <1>1, <2>4, <2>5, Lengths DEF PcBegins, TypeOK, link
<1>2. CASE PcContinues
  <2>0. frame \in FrameNo /\ pos + 1 \in Nat
    BY <1>2, Lengths DEF PcContinues, TypeOK, FrameNo
  <2>1. << frame, pos + 1 >> \in Bytes /\ frame \in FrameNo
    BY <2>0 DEF Bytes
  <2>2. /\ dr' \in Bytes \union {NoByte} /\ hurt' \subseteq FrameNo
        /\ cut' \subseteq FrameNo
    BY <1>2, <2>1 DEF PcContinues, Deliver, TypeOK
  <2>3. pos' \in Nat
    BY <1>2 DEF PcContinues, TypeOK
  <2>4. TypeOK'
    BY <1>2, <2>2, <2>3 DEF PcContinues, TypeOK, link
  <2>5. NoStrandedBytes'
    BY <1>2 DEF PcContinues, NoStrandedBytes, link
  <2> QED
    BY <1>2, <2>1, <2>4, <2>5, Lengths
    DEF PcContinues, TypeOK, link, FrameNo
<1>3. CASE USART1_IRQHandler
  <2>1. dr \in Bytes /\ recv \in Seq(Bytes) /\ timer \in Timer
    BY <1>3 DEF USART1_IRQHandler, TypeOK
  <2>2. /\ recv' \in Seq(Bytes) /\ Len(recv') < MaxLen
        /\ timer' \in Timer /\ timer'.enable
    BY <1>3, <2>1, StoreSteps, TimerSteps DEF USART1_IRQHandler
  <2>3. TypeOK'
    BY <1>3, <2>2 DEF USART1_IRQHandler, TypeOK, wire
  <2> QED
    BY <1>3, <2>2, <2>3 DEF USART1_IRQHandler, NoStrandedBytes, wire
<1>4. CASE TIM3_IRQHandler
  <2>1. timer \in Timer
    BY DEF TypeOK
  <2>2. /\ timer' \in Timer
        /\ timer.enable \/ timer.state = "TIME_OUT" =>
             timer'.enable \/ timer'.state = "TIME_OUT"
    BY <1>4, <2>1, TimerSteps DEF TIM3_IRQHandler
  <2>3. hurt' \subseteq FrameNo /\ cut' \subseteq FrameNo
    <3>1. Cuts => frame \in FrameNo
      BY DEF Cuts, TypeOK, FrameNo
    <3>2. CASE Cuts
      BY <1>4, <3>1, <3>2 DEF TIM3_IRQHandler, TypeOK
    <3>3. CASE ~Cuts
      BY <1>4, <3>3 DEF TIM3_IRQHandler, TypeOK
    <3> QED
      BY <3>2, <3>3
  <2>4. TypeOK'
    BY <1>4, <2>2, <2>3 DEF TIM3_IRQHandler, TypeOK
  <2> QED
    BY <1>4, <2>2, <2>4 DEF TIM3_IRQHandler, NoStrandedBytes
<1>5. CASE VerifyTest
  BY <1>5 DEF VerifyTest, TypeOK, NoStrandedBytes, link, wire
<1>6. CASE VerifyTake
  <2>1. timer' \in Timer
    BY <1>6, TimerSteps DEF VerifyTake, TypeOK
  <2> QED
    BY <1>6, <2>1 DEF VerifyTake, TypeOK, NoStrandedBytes, wire
<1>7. CASE VerifyJudge
  BY <1>7 DEF VerifyJudge, TypeOK, NoStrandedBytes, link, wire
<1>8. CASE VerifyAccept
  BY <1>8 DEF VerifyAccept, TypeOK, NoStrandedBytes, wire
<1>9. CASE VerifyDiscard
  BY <1>9, MaxLenAssumption DEF VerifyDiscard, TypeOK, NoStrandedBytes, wire
<1>10. CASE HandleTest
  BY <1>10 DEF HandleTest, TypeOK, NoStrandedBytes, link, wire
<1>11. CASE HandleExecute
  <2>1. ran' \in Seq(FrameNo \union {Junk})
    BY <1>11, TextOfType DEF HandleExecute, TypeOK
  <2> QED
    BY <1>11, <2>1 DEF HandleExecute, TypeOK, NoStrandedBytes, link, wire
<1>12. CASE HandleWipe
  BY <1>12, MaxLenAssumption DEF HandleWipe, TypeOK, NoStrandedBytes, wire
<1>13. CASE HandleReopen
  BY <1>13 DEF HandleReopen, TypeOK, NoStrandedBytes, wire
<1>14. CASE UNCHANGED vars
  BY <1>14 DEF vars, TypeOK, NoStrandedBytes
<1> QED
  BY <1>1, <1>2, <1>3, <1>4, <1>5, <1>6, <1>7, <1>8, <1>9, <1>10, <1>11,
     <1>12, <1>13, <1>14
  DEF Next, Pc, Main, verify_pc_data, handle_pc_data

LEMMA LinkInvariant == Spec => []LinkInv
BY LinkInvInit, LinkInvNext, PTL DEF Spec

\* Every variable of the link keeps its type, for any PC and any line.
THEOREM LinkTypeCorrect == Spec => []TypeOK
BY LinkInvariant, PTL DEF LinkInv

\* The receive interrupt of the PC's line never stores past the end of the
\* buffer, whatever the PC sends.
THEOREM LinkIndexInBounds == Spec => []IndexInBounds
BY LinkInvariant, PTL DEF LinkInv

\* No byte in the buffer is ever forgotten, wherever between the steps of
\* verify_pc_data and handle_pc_data it came in.
THEOREM LinkNoStrandedBytes == Spec => []NoStrandedBytes
BY LinkInvariant, PTL DEF LinkInv

-----------------------------------------------------------------------------
(* What a polite PC adds *)

\* The frame that went down the line last is the only one about, and once its
\* ending is anywhere, the PC has nothing more to send of it.
OneFrame ==
  /\ dr # NoByte =>
       dr[1] = frame /\ (dr[2] = FrameLen[frame] => pos = 0)
  /\ \A i \in DOMAIN recv :
       recv[i][1] = frame /\ (recv[i][2] = FrameLen[frame] =>
                                pos = 0 /\ dr = NoByte)

\* Once the frame timer of a frame that was not cut has gone off, its last byte
\* has come, until the PC begins another.
Settled ==
  /\ timer.enable => timer.cnt # 2
  /\ frame \notin cut =>
       \/ /\ timer.state = "NORMAL" /\ state = "NORMAL"
          /\ pc \in {"verify", "handle"}
       \/ pos = 0 /\ dr = NoByte

\* An accepted buffer of such a frame is the one that was judged, and it is
\* judged again with the same result if malloc fails.
HoldsJudged ==
  frame \notin cut =>
    /\ pc = "accept" \/ (state = "RECEIVED" /\ pc # "reopen") =>
         recv = judged /\ Passes(recv)
    /\ pc = "discard" => state = "NORMAL"

PoliteInv == LinkInv /\ OneFrame /\ Settled /\ HoldsJudged

LEMMA PoliteInvInit == Init => PoliteInv
BY LinkInvInit DEF Init, PoliteInv, OneFrame, Settled, HoldsJudged, IdleTimer

LEMMA PoliteInvNext ==
  ASSUME Polite
  PROVE  PoliteInv /\ [Next]_vars => PoliteInv'
<1> SUFFICES ASSUME PoliteInv, [Next]_vars
             PROVE  PoliteInv'
  OBVIOUS
<1>0. /\ LinkInv /\ LinkInv' /\ TypeOK
      /\ OneFrame /\ Settled /\ HoldsJudged
  BY LinkInvNext DEF PoliteInv, LinkInv
<1>1. CASE PcBegins
  <2>1. Quiet
    BY <1>1 DEF PcBegins
  <2>2. dr = NoByte /\ (dr' = << frame', 1 >> \/ dr' = dr)
    BY <1>1 DEF PcBegins, Deliver
  <2>3. frame' \in FrameNo /\ FrameLen[frame'] # 1
    BY <1>0, <1>1, Lengths DEF PcBegins, TypeOK, FrameNo
  <2>4. recv' = << >>
    BY <1>1, <2>1 DEF PcBegins, Quiet, link
  <2>5. OneFrame'
    BY <2>2, <2>3, <2>4 DEF OneFrame
  <2>6. Settled' /\ HoldsJudged'
    BY <1>1, <2>1 DEF PcBegins, Quiet, Settled, HoldsJudged, link
  <2> QED
    BY <1>0, <2>5, <2>6 DEF PoliteInv
<1>2. CASE PcContinues
  <2>1. dr = NoByte /\ (dr' = << frame, pos + 1 >> \/ dr' = dr)
    BY <1>2 DEF PcContinues, Deliver
  <2>2. /\ UNCHANGED << recv, frame, state, pc, timer, cut, judged >>
        /\ pos # 0
        /\ pos + 1 = FrameLen[frame] => pos' = 0
    BY <1>0, <1>2 DEF PcContinues, link, TypeOK
  <2>3. OneFrame'
    BY <1>0, <2>1, <2>2 DEF OneFrame
  <2>4. Settled' /\ HoldsJudged'
    BY <1>0, <2>2 DEF Settled, HoldsJudged
  <2> QED
    BY <1>0, <2>3, <2>4 DEF PoliteInv
<1>3. CASE USART1_IRQHandler
  <2>1. /\ recv' = << >> \/ recv' = Append(recv, dr)
        /\ dr # NoByte /\ dr' = NoByte /\ state = "NORMAL"
        /\ timer' = OnByte(timer)
        /\ UNCHANGED << frame, pos, state, pc, cut, judged >>
    BY <1>3 DEF USART1_IRQHandler, Store, wire
  <2>2. \A i \in DOMAIN recv' : \/ i \in DOMAIN recv /\ recv'[i] = recv[i]
                               \/ recv'[i] = dr
    BY <1>0, <2>1 DEF TypeOK
  <2>3. OneFrame'
    BY <1>0, <2>1, <2>2 DEF OneFrame
  <2>4. timer'.cnt = 0 /\ timer'.state = timer.state
    BY <2>1 DEF OnByte
  <2>5. Settled' /\ HoldsJudged'
    BY <1>0, <2>1, <2>4 DEF Settled, HoldsJudged
  <2> QED
    BY <1>0, <2>3, <2>5 DEF PoliteInv
<1>4. CASE TIM3_IRQHandler
  <2>1. /\ UNCHANGED << state, recv, dr, pc, frame, pos, judged >>
        /\ dr = NoByte /\ timer' = OnTick(timer) /\ timer \in Timer
        /\ frame \notin cut' => frame \notin cut /\ ~Cuts
    BY <1>0, <1>4 DEF TIM3_IRQHandler, TypeOK
  <2>2. OneFrame' /\ HoldsJudged'
    BY <1>0, <2>1 DEF OneFrame, HoldsJudged
  <2>3. Settled'
    <3>1. CASE ~timer.enable
      BY <1>0, <2>1, <3>1 DEF OnTick, Settled
    <3>2. CASE timer.enable /\ timer.cnt = 0
      <4>1. timer'.cnt = 1 /\ timer'.state = timer.state
        BY <2>1, <3>2 DEF OnTick, Timer
      <4> QED
        BY <1>0, <2>1, <4>1 DEF Settled
    <3>3. CASE timer.enable /\ timer.cnt # 0
      <4>1. ~timer'.enable
        BY <2>1, <3>3 DEF OnTick
      <4>2. timer.cnt = 1 /\ pos \in Nat
        BY <1>0, <2>1, <3>3 DEF Settled, Timer, TypeOK
      <4>3. frame \notin cut' => pos = 0
        BY <2>1, <3>3, <4>2 DEF Cuts
      <4> QED
        BY <2>1, <4>1, <4>3 DEF Settled
    <3> QED
      BY <3>1, <3>2, <3>3
  <2> QED
    BY <1>0, <2>2, <2>3 DEF PoliteInv
<1>5. CASE VerifyTest
  BY <1>0, <1>5
  DEF VerifyTest, PoliteInv, OneFrame, Settled, HoldsJudged, link, wire
<1>6. CASE VerifyTake
  <2>1. timer'.enable = timer.enable /\ timer'.cnt = timer.cnt
    BY <1>0, <1>6 DEF VerifyTake, Acknowledge, TypeOK, Timer
  <2> QED
    BY <1>0, <1>6, <2>1
    DEF VerifyTake, PoliteInv, OneFrame, Settled, HoldsJudged, wire
<1>7. CASE VerifyJudge
  <2>1. /\ UNCHANGED << state, recv, timer, dr, frame, pos, cut >>
        /\ judged' = recv /\ pc = "judge"
        /\ pc' = IF Passes(recv) THEN "accept" ELSE "discard"
    BY <1>7 DEF VerifyJudge, link, wire
  <2>2. state \in {"NORMAL", "RECEIVED"}
    BY <1>0 DEF TypeOK
  <2>3. HoldsJudged'
    BY <1>0, <2>1, <2>2 DEF HoldsJudged
  <2>4. OneFrame' /\ Settled'
    BY <1>0, <2>1 DEF OneFrame, Settled
  <2> QED
    BY <1>0, <2>3, <2>4 DEF PoliteInv
<1>8. CASE VerifyAccept
  BY <1>0, <1>8
  DEF VerifyAccept, PoliteInv, OneFrame, Settled, HoldsJudged, wire
<1>9. CASE VerifyDiscard
  BY <1>0, <1>9
  DEF VerifyDiscard, PoliteInv, OneFrame, Settled, HoldsJudged, wire
<1>10. CASE HandleTest
  BY <1>0, <1>10
  DEF HandleTest, PoliteInv, OneFrame, Settled, HoldsJudged, link, wire
<1>11. CASE HandleExecute
  BY <1>0, <1>11
  DEF HandleExecute, PoliteInv, OneFrame, Settled, HoldsJudged, link, wire
<1>12. CASE HandleWipe
  BY <1>0, <1>12
  DEF HandleWipe, PoliteInv, OneFrame, Settled, HoldsJudged, wire
<1>13. CASE HandleReopen
  BY <1>0, <1>13
  DEF HandleReopen, PoliteInv, OneFrame, Settled, HoldsJudged, wire
<1>14. CASE UNCHANGED vars
  BY <1>0, <1>14 DEF vars, PoliteInv, OneFrame, Settled, HoldsJudged
<1> QED
  BY <1>1, <1>2, <1>3, <1>4, <1>5, <1>6, <1>7, <1>8, <1>9, <1>10, <1>11,
     <1>12, <1>13, <1>14
  DEF Next, Pc, Main, verify_pc_data, handle_pc_data

\* With a PC that waits for the link to be quiet, what handle_pc_data executes
\* of a frame that PC did not interrupt is what verify_pc_data judged, on
\* however bad a line and even if malloc fails in between: its timer goes off
\* only when all of it has come.  Of an interrupted frame this is not so: a
\* byte of the CRC may pass for the ending, and the rest come in afterwards.
THEOREM PoliteExecutedAsJudged ==
  ASSUME Polite
  PROVE  Spec => []ExecutedAsJudged
<1>1. PoliteInv => ExecutedAsJudged
  BY DEF PoliteInv, HoldsJudged, LinkInv, ClosedWhileHandled, ExecutedAsJudged
<1> QED
  BY <1>1, PoliteInvInit, PoliteInvNext, PTL DEF Spec

\* Nor does any byte of such a frame reach the data register while the link is
\* closed and the interrupt does not read it.
THEOREM PoliteNoStorm ==
  ASSUME Polite
  PROVE  Spec => []NoStorm
<1>1. PoliteInv => NoStorm
  BY DEF PoliteInv, Settled, NoStorm
<1> QED
  BY <1>1, PoliteInvInit, PoliteInvNext, PTL DEF Spec

-----------------------------------------------------------------------------
(* The order in which frames are run *)

Before(a, b) == a[1] < b[1] \/ (a[1] = b[1] /\ a[2] < b[2])

\* A byte of a frame, which the PC has sent.
SentByte(b) ==
  /\ b[1] \in FrameNo /\ b[2] \in 1 .. FrameLen[b[1]]
  /\ b[1] <= frame
  /\ b[1] = frame => pos = 0 \/ b[2] <= pos

\* Bytes are in the buffer, in the data register and still to be sent in the
\* order of the PC, whatever is lost between them.
BytesInOrder ==
  /\ pos > 0 => pos < FrameLen[frame]
  /\ dr # NoByte => SentByte(dr)
  /\ \A i \in DOMAIN recv :
       SentByte(recv[i]) /\ (dr # NoByte => Before(recv[i], dr))
  /\ \A i, j \in DOMAIN recv : i < j => Before(recv[i], recv[j])

\* Nothing is left of a frame once it was run: all other bytes that will ever be
\* in the buffer belong to later ones.
RunIsOver(f) ==
  /\ f <= frame /\ (f = frame => pos = 0)
  /\ dr # NoByte => f < dr[1]
  /\ pc # "wipe" => \A i \in DOMAIN recv : f < recv[i][1]

RunsAreOver == \A k \in DOMAIN ran : ran[k] # Junk => RunIsOver(ran[k])

OrderInv == LinkInv /\ BytesInOrder /\ RunsAreOver /\ RunInOrder

\* The bytes of a whole frame: the first and the last of them.
LEMMA WholeBytes ==
  ASSUME NEW f \in FrameNo, recv = FrameBytes(f)
  PROVE  /\ FrameLen[f] \in DOMAIN recv /\ recv[FrameLen[f]] = << f, FrameLen[f] >>
         /\ 1 \in DOMAIN recv /\ recv[1] = << f, 1 >>
BY Lengths DEF FrameBytes

LEMMA OrderInvInit == Init => OrderInv
BY LinkInvInit DEF Init, OrderInv, BytesInOrder, RunsAreOver, RunInOrder

\* A byte that is delivered comes after all that were, and after what was run.
LEMMA DeliverInOrder ==
  ASSUME OrderInv, NEW b \in Bytes, Deliver(b), UNCHANGED << recv, ran, pc >>,
         b = << frame', b[2] >>, b[2] \in 1 .. FrameLen[b[1]],
         frame' \in FrameNo, pos' \in Nat,
         pos' = 0 \/ b[2] <= pos',
         pos' > 0 => pos' < FrameLen[frame'],
         \/ frame' = frame + 1
         \/ frame' = frame /\ pos > 0 /\ pos < b[2]
  PROVE  BytesInOrder' /\ RunsAreOver' /\ RunInOrder'
<1>1. dr = NoByte /\ (dr' = b \/ dr' = NoByte)
  BY DEF Deliver
<1>2. /\ frame \in 0 .. MaxFrames /\ MaxFrames \in Nat /\ pos \in Nat
      /\ ran \in Seq(FrameNo \union {Junk}) /\ recv \in Seq(Bytes)
  BY Lengths DEF OrderInv, LinkInv, TypeOK
<1>3. ASSUME NEW c, SentByte(c)
      PROVE  SentByte(c)' /\ Before(c, b)
  <2>1. b[1] = frame' /\ c[1] \in Nat /\ c[2] \in Nat /\ b[2] \in Nat
    BY <1>3, Lengths DEF SentByte, FrameNo
  <2>2. CASE frame' = frame + 1
    BY <1>2, <1>3, <2>1, <2>2 DEF SentByte, Before
  <2>3. CASE frame' = frame /\ pos > 0 /\ pos < b[2]
    BY <1>2, <1>3, <2>1, <2>3 DEF SentByte, Before
  <2> QED
    BY <2>2, <2>3
<1>4. SentByte(b)'
  BY <1>2, Lengths DEF SentByte, FrameNo
<1>5. BytesInOrder'
  BY <1>1, <1>3, <1>4 DEF BytesInOrder, OrderInv
<1>6. \A f \in FrameNo : RunIsOver(f) => RunIsOver(f)'
  BY <1>1, <1>2 DEF RunIsOver, FrameNo
<1>7. RunsAreOver'
  BY <1>2, <1>6 DEF RunsAreOver, OrderInv
<1>8. RunInOrder'
  BY DEF RunInOrder, OrderInv
<1> QED
  BY <1>5, <1>7, <1>8

LEMMA OrderInvNext == OrderInv /\ [Next]_vars => OrderInv'
<1> SUFFICES ASSUME OrderInv, [Next]_vars
             PROVE  BytesInOrder' /\ RunsAreOver' /\ RunInOrder'
  BY LinkInvNext DEF OrderInv
<1>0. /\ LinkInv /\ BytesInOrder /\ RunsAreOver /\ RunInOrder /\ TypeOK
      /\ frame \in 0 .. MaxFrames /\ MaxFrames \in Nat /\ pos \in Nat
      /\ ran \in Seq(FrameNo \union {Junk}) /\ recv \in Seq(Bytes)
  BY Lengths DEF OrderInv, LinkInv, TypeOK
<1>1. CASE PcBegins
  <2>1. frame' = frame + 1 /\ frame' \in FrameNo /\ pos' = 1
    BY <1>0, <1>1 DEF PcBegins, FrameNo
  <2>2. << frame', 1 >> \in Bytes /\ FrameLen[frame'] > 4 /\ FrameLen[frame'] \in Nat
    BY <2>1, Lengths DEF Bytes
  <2>3. Deliver(<< frame', 1 >>) /\ UNCHANGED << recv, ran, pc >>
    BY <1>1, <2>1 DEF PcBegins, link
  <2> QED
    BY <2>1, <2>2, <2>3, DeliverInOrder
<1>2. CASE PcContinues
  <2> DEFINE b == << frame, pos + 1 >>
  <2>1. frame \in FrameNo /\ frame' = frame /\ pos > 0
    BY <1>0, <1>2 DEF PcContinues, LinkInv, FrameBegun, FrameNo
  <2>2. pos < FrameLen[frame] /\ FrameLen[frame] \in Nat
    BY <1>0, <2>1, Lengths DEF BytesInOrder
  <2>3. pos' = IF pos + 1 = FrameLen[frame] THEN 0 ELSE pos + 1
    BY <1>2 DEF PcContinues
  <2>4. Deliver(b) /\ UNCHANGED << recv, ran, pc >>
    BY <1>2 DEF PcContinues, link
  <2>5. b \in Bytes /\ b[1] = frame' /\ b[2] = pos + 1
    BY <1>0, <2>1 DEF Bytes
  <2>6. /\ b[2] \in 1 .. FrameLen[b[1]] /\ pos' \in Nat
        /\ pos' = 0 \/ b[2] <= pos'
        /\ pos' > 0 => pos' < FrameLen[frame']
    BY <1>0, <2>1, <2>2, <2>3, <2>5
  <2> QED
    BY <1>0, <2>1, <2>4, <2>5, <2>6, DeliverInOrder
<1>3. CASE USART1_IRQHandler
  <2>1. /\ recv' = << >> \/ recv' = Append(recv, dr)
        /\ dr # NoByte /\ dr' = NoByte /\ dr \in Bytes /\ state = "NORMAL"
        /\ UNCHANGED << frame, pos, pc, ran >>
    BY <1>0, <1>3 DEF USART1_IRQHandler, Store, wire, TypeOK
  <2>2. CASE recv' = << >>
    BY <1>0, <2>1, <2>2 DEF BytesInOrder, RunsAreOver, RunIsOver, RunInOrder
  <2>3. CASE recv' = Append(recv, dr)
    <3>1. /\ DOMAIN recv' = 1 .. Len(recv) + 1 /\ Len(recv) \in Nat
          /\ DOMAIN recv = 1 .. Len(recv)
          /\ recv'[Len(recv) + 1] = dr
          /\ \A i \in DOMAIN recv : recv'[i] = recv[i]
      BY <1>0, <2>1, <2>3
    <3>2. \A i \in DOMAIN recv' : SentByte(recv[i])'
      BY <1>0, <2>1, <3>1 DEF BytesInOrder, SentByte
    <3>3. \A i, j \in DOMAIN recv' : i < j => Before(recv'[i], recv'[j])
      <4> SUFFICES ASSUME NEW i \in DOMAIN recv', NEW j \in DOMAIN recv', i < j
                   PROVE  Before(recv'[i], recv'[j])
        OBVIOUS
      <4>1. i \in DOMAIN recv
        BY <3>1
      <4>2. CASE j \in DOMAIN recv
        BY <1>0, <3>1, <4>1, <4>2 DEF BytesInOrder
      <4>3. CASE j = Len(recv) + 1
        BY <1>0, <2>1, <3>1, <4>1, <4>3 DEF BytesInOrder
      <4> QED
        BY <3>1, <4>2, <4>3
    <3>4. BytesInOrder'
      BY <1>0, <2>1, <3>2, <3>3 DEF BytesInOrder
    <3>5. RunsAreOver'
      BY <1>0, <2>1, <3>1 DEF RunsAreOver, RunIsOver
    <3> QED
      BY <1>0, <2>1, <3>4, <3>5 DEF RunInOrder
  <2> QED
    BY <2>1, <2>2, <2>3
<1>4. CASE HandleExecute
  <2> DEFINE f == TextOf(recv)
  <2>1. /\ ran' = Append(ran, f) /\ dr = NoByte
        /\ pc = "execute" /\ pc' = "wipe"
        /\ UNCHANGED << recv, frame, pos, dr >>
    BY <1>4 DEF HandleExecute, link, wire
  <2>2. /\ f \in FrameNo \union {Junk}
        /\ f # Junk => f \in FrameNo /\ recv = FrameBytes(f)
    BY DEF TextOf, Whole
  <2> HIDE DEF f
  <2>3. /\ DOMAIN ran' = 1 .. Len(ran) + 1 /\ Len(ran) \in Nat
        /\ DOMAIN ran = 1 .. Len(ran)
        /\ ran'[Len(ran) + 1] = f
        /\ \A k \in DOMAIN ran : ran'[k] = ran[k]
    BY <1>0, <2>1, <2>2
  <2>4. ASSUME f # Junk
        PROVE  /\ f \in FrameNo /\ f <= frame /\ (f = frame => pos = 0)
               /\ \A k \in DOMAIN ran : ran[k] # Junk => ran[k] < f
    <3>1. f \in FrameNo /\ recv = FrameBytes(f) /\ FrameLen[f] \in Nat
      BY <2>2, <2>4, Lengths
    <3>2. SentByte(<< f, FrameLen[f] >>)
      BY <1>0, <3>1, WholeBytes DEF BytesInOrder
    <3>3. f <= frame /\ (f = frame => pos = 0)
      BY <1>0, <3>1, <3>2 DEF SentByte, BytesInOrder
    <3>4. \A k \in DOMAIN ran : ran[k] # Junk => ran[k] < f
      BY <1>0, <2>1, <3>1, WholeBytes DEF RunsAreOver, RunIsOver
    <3> QED
      BY <3>1, <3>3, <3>4
  <2>5. BytesInOrder'
    BY <1>0, <2>1 DEF BytesInOrder, SentByte
  <2>6. RunsAreOver'
    BY <1>0, <2>1, <2>3, <2>4 DEF RunsAreOver, RunIsOver
  <2>7. RunInOrder'
    <3> SUFFICES ASSUME NEW i \in DOMAIN ran', NEW j \in DOMAIN ran', i < j,
                        ran'[i] # Junk, ran'[j] # Junk
                 PROVE  ran'[i] < ran'[j]
      BY DEF RunInOrder
    <3>1. i \in DOMAIN ran
      BY <2>3
    <3>2. CASE j \in DOMAIN ran
      BY <1>0, <2>3, <3>1, <3>2 DEF RunInOrder
    <3>3. CASE j = Len(ran) + 1
      BY <2>3, <2>4, <3>1, <3>3
    <3> QED
      BY <2>3, <3>2, <3>3
  <2> QED
    BY <2>5, <2>6, <2>7
<1>5. CASE VerifyDiscard \/ HandleWipe
  BY <1>0, <1>5
  DEF VerifyDiscard, HandleWipe, wire, BytesInOrder, SentByte, RunsAreOver,
      RunIsOver, RunInOrder
<1>6. CASE \/ UNCHANGED << recv, dr, frame, pos, ran >> /\ pc # "wipe"
           \/ UNCHANGED << recv, dr, frame, pos, ran, pc >>
  BY <1>0, <1>6 DEF BytesInOrder, SentByte, RunsAreOver, RunIsOver, RunInOrder
<1>7. \/ PcBegins \/ PcContinues \/ USART1_IRQHandler \/ HandleExecute
      \/ VerifyDiscard \/ HandleWipe
      \/ UNCHANGED << recv, dr, frame, pos, ran >> /\ pc # "wipe"
      \/ UNCHANGED << recv, dr, frame, pos, ran, pc >>
  BY DEF Next, Pc, Main, verify_pc_data, handle_pc_data, TIM3_IRQHandler,
         VerifyTest, VerifyTake, VerifyJudge, VerifyAccept, HandleTest,
         HandleReopen, link, wire, vars
<1> QED
  BY <1>1, <1>2, <1>3, <1>4, <1>5, <1>6, <1>7

\* Whatever the PC sends, whatever is lost, merged, cut or judged twice because
\* malloc failed, no frame is executed twice and none after a later one.
THEOREM LinkRunInOrder == Spec => []RunInOrder
<1>1. OrderInv => RunInOrder
  BY DEF OrderInv
<1> QED
  BY <1>1, OrderInvInit, OrderInvNext, PTL DEF Spec

-----------------------------------------------------------------------------
(* PcLink implements CommandPort: with a PC that waits for the link to be   *)
(* quiet, whatever the line loses and however long that PC pauses, every    *)
(* step of the link is a step of the port or leaves it alone.               *)

\* A frame fits into the buffer.
Fits == \A f \in FrameNo : FrameLen[f] < MaxLen

-----------------------------------------------------------------------------
(* Of a frame that is not damaged the buffer holds a prefix, and all of it  *)
(* when it is judged                                                       *)

\* How much of the current frame the fixture has, in buffer and register.
Have == Len(recv) + (IF dr = NoByte THEN 0 ELSE 1)

\* What is there are the bytes of the current frame from the first one on, as
\* many as the PC has sent.
Prefix ==
  /\ \A i \in DOMAIN recv : recv[i] = << frame, i >>
  /\ dr # NoByte => dr = << frame, Len(recv) + 1 >>
  /\ pos > 0 => Have = pos /\ pos < FrameLen[frame]
  /\ pos = 0 /\ Have > 0 => frame > 0 /\ Have = FrameLen[frame]

\* While bytes are outstanding the timer is not let expire, so that main has no
\* frame to judge.
Undisturbed ==
  /\ pos > 0 \/ dr # NoByte =>
       state = "NORMAL" /\ timer.state = "NORMAL" /\ pc \in {"verify", "handle"}
  /\ pos > 0 /\ dr = NoByte => timer.enable /\ timer.cnt \in {0, 1}
  /\ timer.enable => timer.cnt \in {0, 1}
  /\ pc \in {"take", "judge", "accept", "discard"} => recv # << >>
  /\ timer.enable \/ timer.state = "TIME_OUT" =>
       recv # << >> /\ state = "NORMAL" /\ pc \in {"verify", "take", "handle"}
  /\ timer.enable => timer.state = "NORMAL"
  /\ pc = "take" => timer.state = "TIME_OUT"
  /\ pc \in {"take", "judge", "accept", "discard"} => state = "NORMAL"
  /\ state = "RECEIVED" /\ pc # "reopen" => recv # << >>
  /\ pc = "accept" => judged = recv

Intact == frame \notin hurt => Prefix /\ Undisturbed

IntactInv == LinkInv /\ Intact

LEMMA IntactInvInit == Init => IntactInv
<1> SUFFICES ASSUME Init PROVE IntactInv
  OBVIOUS
<1>1. LinkInv
  BY LinkInvInit
<1>2. Len(recv) = 0 /\ Have = 0
  BY DEF Init, Have
<1>3. Prefix
  BY <1>2 DEF Init, Prefix
<1>4. Undisturbed
  BY DEF Init, Undisturbed, IdleTimer
<1> QED
  BY <1>1, <1>3, <1>4 DEF IntactInv, Intact

\* The facts that most steps need: nothing about the frame changes with them.
LEMMA PrefixKept ==
  ASSUME Prefix, UNCHANGED << recv, dr, frame, pos >>
  PROVE  Prefix'
BY DEF Prefix, Have

LEMMA IntactInvNext ==
  ASSUME Polite, Fits
  PROVE  IntactInv /\ [Next]_vars => IntactInv'
<1> SUFFICES ASSUME IntactInv, [Next]_vars, (frame \notin hurt)'
             PROVE  Prefix' /\ Undisturbed'
  BY LinkInvNext DEF IntactInv, Intact
<1>0. LinkInv
  BY DEF IntactInv
<1>a. /\ recv \in Seq(Bytes) /\ pos \in Nat /\ timer \in Timer
      /\ state \in {"NORMAL", "RECEIVED"} /\ frame \in 0 .. MaxFrames
      /\ Len(recv) \in Nat /\ (recv # << >> => Len(recv) > 0)
      /\ pos > 0 => frame > 0
  BY <1>0 DEF LinkInv, TypeOK, FrameBegun
<1>c. frame \notin hurt => Prefix /\ Undisturbed
  BY DEF IntactInv, Intact
<1>b. NoByte = << 0, 0 >> /\ \A f \in FrameNo : << f, 1 >> # NoByte
  BY DEF NoByte, FrameNo
<1>1. CASE PcBegins
  <2>1. /\ state = "NORMAL" /\ recv = << >> /\ ~timer.enable
        /\ timer.state = "NORMAL" /\ pc \in {"verify", "handle"}
    BY <1>1 DEF PcBegins, Quiet
  <2>2. /\ UNCHANGED << state, recv, timer, pc, judged >>
        /\ frame' = frame + 1 /\ pos' = 1 /\ frame' \in FrameNo
    BY <1>1, <1>a, Lengths DEF PcBegins, link, FrameNo
  <2>3. dr' = << frame + 1, 1 >>
    BY <1>1, <2>2 DEF PcBegins, Deliver
  <2>4. Len(recv) = 0 /\ dr' # NoByte /\ Have' = 1
    BY <2>1, <2>2, <2>3, <1>b DEF Have
  <2>5. Prefix'
    BY <2>1, <2>2, <2>3, <2>4, Lengths DEF Prefix
  <2>6. Undisturbed'
    BY <2>1, <2>2, <2>4 DEF Undisturbed
  <2> QED
    BY <2>5, <2>6
<1>2. CASE PcContinues
  <2>1. /\ UNCHANGED << state, recv, timer, pc, judged, frame >>
        /\ dr = NoByte /\ pos > 0
        /\ pos' = IF pos + 1 = FrameLen[frame] THEN 0 ELSE pos + 1
    BY <1>2 DEF PcContinues, Deliver, link
  <2>2. dr' = << frame, pos + 1 >> /\ Prefix /\ Undisturbed
    BY <1>2, <1>c, <2>1 DEF PcContinues, Deliver
  <2>3. Len(recv) = pos /\ pos < FrameLen[frame]
    BY <1>a, <2>1, <2>2 DEF Prefix, Have
  <2>4. frame \in FrameNo /\ FrameLen[frame] \in Nat
    BY <1>a, <2>1, Lengths DEF FrameNo
  <2>5. dr' # NoByte /\ Have' = pos + 1
    BY <1>a, <1>b, <2>1, <2>2, <2>3, <2>4 DEF Have, FrameNo
  <2>6. Prefix'
    BY <1>a, <2>1, <2>2, <2>3, <2>4, <2>5 DEF Prefix, FrameNo
  <2>7. Undisturbed'
    BY <2>1, <2>2, <2>5 DEF Undisturbed
  <2> QED
    BY <2>6, <2>7
<1>3. CASE USART1_IRQHandler
  <2>1. /\ UNCHANGED << state, pc, judged, frame, pos, hurt >>
        /\ dr # NoByte /\ dr' = NoByte /\ state = "NORMAL"
        /\ recv' = Store(recv, dr) /\ timer' = OnByte(timer)
    BY <1>3 DEF USART1_IRQHandler, wire
  <2>2. Prefix /\ Undisturbed
    BY <1>c, <2>1
  <2>3. Have = Len(recv) + 1 /\ Have <= FrameLen[frame] /\ frame \in FrameNo
    BY <1>a, <2>1, <2>2, Lengths DEF Prefix, Have, FrameNo
  <2>4. recv' = Append(recv, dr)
    BY <1>a, <2>1, <2>3, Lengths, MaxLenAssumption DEF Store, Fits
  <2>5. dr \in Bytes
    BY <1>0, <2>1 DEF LinkInv, TypeOK
  <2>6. /\ Len(recv') = Len(recv) + 1 /\ recv' # << >>
        /\ \A i \in DOMAIN recv' :
             recv'[i] = IF i = Len(recv) + 1 THEN dr ELSE recv[i]
        /\ DOMAIN recv' = 1 .. Len(recv) + 1 /\ DOMAIN recv = 1 .. Len(recv)
    BY <1>a, <2>4, <2>5
  <2>7. Have' = Have
    BY <2>1, <2>3, <2>6 DEF Have
  <2>8. \A i \in DOMAIN recv' : recv'[i] = << frame, i >>
    BY <1>a, <2>1, <2>2, <2>6 DEF Prefix
  <2>9. Prefix'
    BY <2>1, <2>2, <2>7, <2>8 DEF Prefix
  <2>10. timer'.enable /\ timer'.cnt = 0 /\ timer'.state = timer.state
    BY <2>1 DEF OnByte
  <2>11. Undisturbed'
    BY <2>1, <2>2, <2>6, <2>10 DEF Undisturbed
  <2> QED
    BY <2>9, <2>11
<1>4. CASE TIM3_IRQHandler
  <2>1. /\ UNCHANGED << state, recv, dr, pc, judged, frame, pos >>
        /\ dr = NoByte /\ timer' = OnTick(timer)
        /\ hurt' = IF Cuts THEN hurt \union {frame} ELSE hurt
    BY <1>4 DEF TIM3_IRQHandler
  <2>2. Prefix /\ Undisturbed /\ ~(pos > 0 /\ timer.enable /\ timer.cnt = 1)
    BY <1>c, <2>1 DEF Cuts
  <2>3. Prefix'
    BY <2>1, <2>2, PrefixKept
  <2>4. CASE ~timer.enable
    BY <2>1, <2>2, <2>3, <2>4 DEF OnTick, Undisturbed
  <2>5. CASE timer.enable /\ timer.cnt = 0
    <3>1. timer'.enable /\ timer'.cnt = 1 /\ timer'.state = timer.state
      BY <1>a, <2>1, <2>5 DEF OnTick, Timer
    <3> QED
      BY <2>1, <2>2, <2>3, <2>5, <3>1 DEF Undisturbed
  <2>6. CASE timer.enable /\ timer.cnt # 0
    <3>1. ~timer'.enable /\ timer'.state = "TIME_OUT"
      BY <1>a, <2>1, <2>6 DEF OnTick, Timer
    <3>2. ~(pos > 0)
      BY <2>1, <2>2, <2>6 DEF Undisturbed
    <3> QED
      BY <2>1, <2>2, <2>3, <2>6, <3>1, <3>2 DEF Undisturbed
  <2> QED
    BY <2>4, <2>5, <2>6
<1>5. CASE VerifyTest
  BY <1>c, <1>5, PrefixKept DEF VerifyTest, Undisturbed, link, wire
<1>6. CASE VerifyTake
  <2>1. /\ UNCHANGED << state, recv, dr, judged, frame, pos, hurt >>
        /\ pc = "take" /\ pc' = "judge"
        /\ timer'.enable = timer.enable /\ timer'.state = "NORMAL"
        /\ timer'.cnt = timer.cnt
    BY <1>6, <1>a DEF VerifyTake, Acknowledge, Timer, wire
  <2>2. Prefix /\ Undisturbed /\ ~timer.enable
    BY <1>c, <2>1 DEF Undisturbed
  <2> QED
    BY <2>1, <2>2, PrefixKept DEF Undisturbed
<1>7. CASE VerifyJudge
  BY <1>c, <1>7, PrefixKept DEF VerifyJudge, Undisturbed, link, wire
<1>8. CASE VerifyAccept
  BY <1>c, <1>8, PrefixKept DEF VerifyAccept, Undisturbed, wire
<1>9. CASE VerifyDiscard
  <2>1. /\ UNCHANGED << state, timer, dr, judged, frame, pos, hurt >>
        /\ pc = "discard" /\ pc' = "handle" /\ recv' = << >>
    BY <1>9 DEF VerifyDiscard, wire
  <2>2. Prefix /\ Undisturbed /\ ~(pos > 0) /\ dr = NoByte
    BY <1>c, <2>1 DEF Undisturbed
  <2>3. Len(recv') = 0 /\ Have' = 0
    BY <2>1, <2>2 DEF Have
  <2> QED
    BY <2>1, <2>2, <2>3 DEF Undisturbed, Prefix
<1>10. CASE HandleTest
  BY <1>c, <1>10, PrefixKept DEF HandleTest, Undisturbed, link, wire
<1>11. CASE HandleExecute
  BY <1>c, <1>11, PrefixKept DEF HandleExecute, Undisturbed, link, wire
<1>12. CASE HandleWipe
  <2>1. /\ UNCHANGED << state, timer, dr, judged, frame, pos, hurt >>
        /\ pc = "wipe" /\ pc' = "reopen" /\ recv' = << >>
        /\ state = "RECEIVED"
    BY <1>0, <1>12 DEF HandleWipe, wire, LinkInv, ClosedWhileHandled
  <2>2. Prefix /\ Undisturbed /\ ~(pos > 0) /\ dr = NoByte
    BY <1>c, <2>1 DEF Undisturbed
  <2>3. Len(recv') = 0 /\ Have' = 0
    BY <2>1, <2>2 DEF Have
  <2> QED
    BY <2>1, <2>2, <2>3 DEF Undisturbed, Prefix
<1>13. CASE HandleReopen
  <2>1. /\ UNCHANGED << recv, timer, dr, judged, frame, pos, hurt >>
        /\ pc = "reopen" /\ pc' = "verify" /\ state' = "NORMAL"
        /\ state = "RECEIVED"
    BY <1>0, <1>13 DEF HandleReopen, wire, LinkInv, ClosedWhileHandled
  <2> QED
    BY <1>c, <2>1, PrefixKept DEF Undisturbed
<1>14. CASE UNCHANGED vars
  BY <1>c, <1>14, PrefixKept DEF vars, Undisturbed
<1> QED
  BY <1>1, <1>2, <1>3, <1>4, <1>5, <1>6, <1>7, <1>8, <1>9, <1>10, <1>11,
     <1>12, <1>13, <1>14
  DEF Next, Pc, Main, verify_pc_data, handle_pc_data

\* In a full buffer, with nothing outstanding, stands the current frame.
LEMMA WholeFrame ==
  ASSUME LinkInv, Prefix, recv # << >>, dr = NoByte, ~(pos > 0)
  PROVE  /\ frame \in FrameNo
         /\ recv = FrameBytes(frame)
         /\ Len(recv) = FrameLen[frame]
<1>1. /\ recv \in Seq(Bytes) /\ pos = 0 /\ frame \in 0 .. MaxFrames
      /\ Len(recv) \in Nat /\ Len(recv) > 0
  BY DEF LinkInv, TypeOK
<1>2. Have = Len(recv)
  BY <1>1 DEF Have
<1>3. frame \in FrameNo /\ Len(recv) = FrameLen[frame]
  BY <1>1, <1>2, Lengths DEF Prefix, FrameNo
<1>4. recv = [i \in 1 .. Len(recv) |-> recv[i]]
  BY <1>1
<1>5. \A i \in 1 .. Len(recv) : recv[i] = << frame, i >>
  BY <1>1 DEF Prefix
<1> QED
  BY <1>3, <1>4, <1>5 DEF FrameBytes

-----------------------------------------------------------------------------
(* The refinement *)

HasRun == Port!HasRun(frame)

\* What has been executed stems from frames that were begun.
RanBegun == \A i \in DOMAIN ran : ran[i] \in 0 .. frame

\* The current frame, once executed, has left nothing behind that could be
\* executed again.
RunOnce ==
  frame > 0 /\ HasRun => pos = 0 /\ dr = NoByte /\ (recv = << >> \/ pc = "wipe")

\* A sound frame is on its way, in the buffer, or has been executed.
NoneLost ==
  /\ frame > 0 /\ frame \notin Spoiled /\ ~HasRun =>
       pos > 0 \/ dr # NoByte \/ (recv # << >> /\ pc # "wipe")
  /\ pc = "discard" => frame \in Spoiled

PortInv == PoliteInv /\ IntactInv /\ RanBegun /\ RunOnce /\ NoneLost

LEMMA PortInvInit == Init => PortInv
BY PoliteInvInit, IntactInvInit
DEF Init, PortInv, RanBegun, RunOnce, NoneLost, Port!HasRun, HasRun

\* A sound frame that stands whole in the buffer is accepted.
LEMMA WholeFrameVerifies ==
  ASSUME LinkInv, Prefix, recv # << >>, dr = NoByte, ~(pos > 0),
         frame \notin Refused
  PROVE  Passes(recv)
BY WholeFrame DEF Refused

\* Steps that leave the frame, its bytes and the log alone.
LEMMA PortInvKept ==
  ASSUME PortInv, UNCHANGED << frame, pos, dr, recv, hurt, ran >>,
         pc # "wipe", pc # "reopen",
         pc' \in {"wipe", "discard"} => pc' = pc \/ frame \in Spoiled
  PROVE  RanBegun' /\ RunOnce' /\ NoneLost' /\ UNCHANGED Port!vars
BY DEF PortInv, RanBegun, RunOnce, NoneLost, HasRun, Port!HasRun, Spoiled,
       Port!vars

\* Every step of the link is a step of the port, or leaves it alone.
LEMMA PortInvNext ==
  ASSUME Polite, Fits
  PROVE  PortInv /\ [Next]_vars => PortInv' /\ [Port!Next]_(Port!vars)
<1> SUFFICES ASSUME PortInv, [Next]_vars
             PROVE  /\ RanBegun' /\ RunOnce' /\ NoneLost'
                    /\ [Port!Next]_(Port!vars)
  BY PoliteInvNext, IntactInvNext DEF PortInv
<1>0. /\ LinkInv /\ OneFrame /\ Intact
      /\ RanBegun /\ RunOnce /\ NoneLost
  BY DEF PortInv, PoliteInv, IntactInv
<1>a. /\ frame \in 0 .. MaxFrames /\ ran \in Seq(FrameNo \union {Junk})
      /\ recv \in Seq(Bytes) /\ pos \in Nat /\ (pos > 0 => frame > 0)
      /\ hurt \subseteq FrameNo
  BY <1>0 DEF LinkInv, TypeOK, FrameBegun
<1>b. DOMAIN ran = 1 .. Len(ran) /\ Len(ran) \in Nat
  BY <1>a
<1>1. CASE PcBegins
  <2>1. /\ recv = << >> /\ pos = 0 /\ dr = NoByte
        /\ pc \in {"verify", "handle"}
    BY <1>1 DEF PcBegins, Deliver, Quiet
  <2>2. /\ UNCHANGED << recv, pc, ran >> /\ frame' = frame + 1 /\ pos' = 1
        /\ frame < MaxFrames
        /\ hurt' \in {hurt, hurt \union {frame + 1}}
    BY <1>1 DEF PcBegins, Deliver, link
  <2>3. ~(HasRun')
    BY <1>0, <1>a, <2>2 DEF RanBegun, HasRun, Port!HasRun
  <2>4. Spoiled' \in {Spoiled, Spoiled \union {frame + 1}}
    <3>1. 1 .. frame + 1 = (1 .. frame) \union {frame + 1}
      BY <1>a
    <3>2. Spoiled' = hurt' \union (Refused \intersect ((1 .. frame) \union {frame + 1}))
      BY <2>2, <3>1 DEF Spoiled
    <3>3. CASE frame + 1 \in Refused
      BY <2>2, <3>2, <3>3 DEF Spoiled
    <3>4. CASE frame + 1 \notin Refused
      <4>1. Spoiled' = hurt' \union (Refused \intersect (1 .. frame))
        BY <3>2, <3>4
      <4> QED
        BY <2>2, <4>1 DEF Spoiled
    <3> QED
      BY <3>3, <3>4
  <2>5. frame = 0 \/ frame \in Spoiled \/ HasRun
    BY <1>0, <1>a, <2>1 DEF NoneLost
  <2>6. Port!Issue
    BY <2>2, <2>4, <2>5 DEF Port!Issue, HasRun
  <2>7. RanBegun'
    BY <1>0, <1>a, <2>2 DEF RanBegun
  <2>8. RunOnce' /\ NoneLost'
    BY <2>1, <2>2, <2>3 DEF RunOnce, NoneLost
  <2> QED
    BY <2>6, <2>7, <2>8 DEF Port!Next
<1>2. CASE PcContinues
  <2>1. /\ UNCHANGED << recv, pc, ran, frame >> /\ pos > 0 /\ frame > 0
        /\ hurt' \in {hurt, hurt \union {frame}}
        /\ frame \notin hurt' => dr' # NoByte
    BY <1>2, <1>a DEF PcContinues, Deliver, link, NoByte
  <2>2. ~HasRun /\ ~(HasRun')
    BY <1>0, <2>1 DEF RunOnce, HasRun, Port!HasRun
  <2>3. RanBegun' /\ RunOnce'
    BY <1>0, <2>1, <2>2 DEF RanBegun, RunOnce
  <2>4. CASE hurt' = hurt
    <3>1. Spoiled' = Spoiled
      BY <2>1, <2>4 DEF Spoiled
    <3>2. frame \notin Spoiled => dr' # NoByte
      BY <2>1, <2>4 DEF Spoiled
    <3> QED
      BY <1>0, <2>1, <2>2, <2>3, <3>1, <3>2 DEF NoneLost, Port!vars
  <2>5. CASE hurt' = hurt \union {frame}
    <3>1. Spoiled' = Spoiled \union {frame}
      BY <2>1, <2>5 DEF Spoiled
    <3>2. Port!Spoil
      BY <2>1, <2>2, <3>1 DEF Port!Spoil, HasRun
    <3> QED
      BY <2>1, <2>3, <3>1, <3>2 DEF NoneLost, Port!Next
  <2> QED
    BY <2>1, <2>4, <2>5
<1>3. CASE USART1_IRQHandler
  <2>1. /\ UNCHANGED << pc, ran, frame, pos, hurt >> /\ dr # NoByte
        /\ dr' = NoByte /\ recv' = Store(recv, dr) /\ state = "NORMAL"
    BY <1>3 DEF USART1_IRQHandler, wire
  <2>2. frame > 0 => ~HasRun /\ ~(HasRun')
    BY <1>0, <2>1 DEF RunOnce, HasRun, Port!HasRun
  <2>3. RanBegun' /\ RunOnce' /\ UNCHANGED << Spoiled, Port!vars >>
    BY <1>0, <2>1, <2>2 DEF RanBegun, RunOnce, Spoiled, Port!vars
  <2>4. ASSUME frame > 0, frame \notin Spoiled
        PROVE  recv' # << >> /\ pc # "wipe"
    <3>1. Prefix /\ Undisturbed
      BY <1>0, <2>4 DEF Intact, Spoiled
    <3>2. Len(recv) \in Nat /\ Have = Len(recv) + 1
      BY <1>a, <2>1 DEF Have
    <3>3. frame \in FrameNo /\ Have <= FrameLen[frame]
      BY <1>a, <2>4, <3>1, <3>2, Lengths DEF Prefix, FrameNo
    <3>4. recv' = Append(recv, dr)
      BY <2>1, <3>2, <3>3, Lengths, MaxLenAssumption DEF Store, Fits
    <3>5. dr \in Bytes
      BY <1>0, <2>1 DEF LinkInv, TypeOK
    <3> QED
      BY <1>a, <2>1, <3>1, <3>4, <3>5 DEF Undisturbed
  <2>5. NoneLost'
    BY <1>0, <2>1, <2>3, <2>4 DEF NoneLost
  <2> QED
    BY <2>3, <2>5
<1>4. CASE TIM3_IRQHandler
  <2>1. /\ UNCHANGED << pc, ran, frame, pos, dr, recv >>
        /\ hurt' = IF Cuts THEN hurt \union {frame} ELSE hurt
    BY <1>4 DEF TIM3_IRQHandler
  <2>2. RanBegun' /\ RunOnce' /\ (HasRun' <=> HasRun)
    BY <1>0, <2>1 DEF RanBegun, RunOnce, HasRun, Port!HasRun
  <2>3. CASE hurt' = hurt
    <3>1. Spoiled' = Spoiled
      BY <2>1, <2>3 DEF Spoiled
    <3> QED
      BY <1>0, <2>1, <2>2, <3>1 DEF NoneLost, Port!vars
  <2>4. CASE Cuts
    <3>1. Spoiled' = Spoiled \union {frame} /\ pos > 0 /\ frame > 0
      BY <1>a, <2>1, <2>4 DEF Spoiled, Cuts
    <3>2. ~HasRun
      BY <1>0, <3>1 DEF RunOnce
    <3>3. Port!Spoil
      BY <2>1, <3>1, <3>2 DEF Port!Spoil, HasRun
    <3> QED
      BY <2>1, <2>2, <3>1, <3>3 DEF NoneLost, Port!Next
  <2> QED
    BY <2>1, <2>3, <2>4
<1>5. CASE VerifyTest
  BY <1>5, PortInvKept DEF VerifyTest, link, wire
<1>6. CASE VerifyTake
  BY <1>6, PortInvKept DEF VerifyTake, wire
<1>7. CASE VerifyJudge
  <2>1. /\ UNCHANGED << frame, pos, dr, recv, hurt, ran >> /\ pc = "judge"
        /\ pc' = IF Passes(recv) THEN "accept" ELSE "discard"
    BY <1>7 DEF VerifyJudge, link, wire
  <2>2. ~Passes(recv) => frame \in Spoiled
    <3> SUFFICES ASSUME frame \notin Spoiled PROVE Passes(recv)
      OBVIOUS
    <3>1. Prefix /\ Undisturbed
      BY <1>0 DEF Intact, Spoiled
    <3>2. recv # << >> /\ dr = NoByte /\ ~(pos > 0)
      BY <2>1, <3>1 DEF Undisturbed
    <3>3. frame \in FrameNo
      BY <1>0, <3>1, <3>2, WholeFrame
    <3>4. frame \notin Refused
      BY <3>3 DEF Spoiled, FrameNo
    <3> QED
      BY <1>0, <3>1, <3>2, <3>4, WholeFrameVerifies
  <2> QED
    BY <2>1, <2>2, PortInvKept
<1>8. CASE VerifyAccept
  BY <1>8, PortInvKept DEF VerifyAccept, wire
<1>9. CASE VerifyDiscard
  <2>1. /\ UNCHANGED << frame, pos, dr, hurt, ran >> /\ recv' = << >>
        /\ pc = "discard" /\ pc' = "handle" /\ frame \in Spoiled
    BY <1>0, <1>9 DEF VerifyDiscard, NoneLost, wire
  <2>2. frame' \in Spoiled' /\ UNCHANGED Port!vars
    BY <2>1 DEF Spoiled, Port!vars
  <2> QED
    BY <1>0, <2>1, <2>2 DEF RanBegun, RunOnce, NoneLost, HasRun, Port!HasRun
<1>10. CASE HandleTest
  BY <1>10, PortInvKept DEF HandleTest, link, wire
<1>11. CASE HandleExecute
  <2>1. /\ UNCHANGED << recv, dr, pos, frame, hurt, state >> /\ pc = "execute"
        /\ pc' = "wipe" /\ ran' = Append(ran, TextOf(recv))
        /\ state = "RECEIVED"
    BY <1>0, <1>11
    DEF HandleExecute, LinkInv, ClosedWhileHandled, link, wire
  <2>2. UNCHANGED Spoiled
    BY <2>1 DEF Spoiled
  <2>3. CASE Whole(recv) # {}
    <3>1. TextOf(recv) \in FrameNo /\ recv = FrameBytes(TextOf(recv))
      BY <2>3 DEF TextOf, Whole
    <3> DEFINE f == TextOf(recv)
    <3> HIDE DEF f
    <3>2. /\ f \in FrameNo /\ recv # << >>
          /\ FrameLen[f] \in DOMAIN recv /\ recv[FrameLen[f]] = << f, FrameLen[f] >>
      BY <3>1, WholeBytes DEF f
    <3>3. f = frame /\ frame > 0 /\ pos = 0 /\ dr = NoByte
      BY <1>0, <3>2 DEF OneFrame, FrameNo
    <3>4. TextOf(recv) = frame
      BY <3>3 DEF f
    <3>5. ~HasRun
      BY <1>0, <2>1, <3>2, <3>3 DEF RunOnce
    <3>6. Port!Run
      BY <2>1, <2>2, <3>3, <3>4, <3>5 DEF Port!Run, HasRun
    <3>7. RanBegun' /\ RunOnce'
      BY <1>0, <1>a, <2>1, <3>3, <3>4 DEF RanBegun, RunOnce
    <3>8. HasRun'
      <4>1. Len(ran) + 1 \in DOMAIN ran' /\ ran'[Len(ran) + 1] = frame
        BY <1>a, <2>1, <3>2, <3>3, <3>4
      <4> QED
        BY <2>1, <4>1 DEF HasRun, Port!HasRun
    <3> QED
      BY <2>1, <3>6, <3>7, <3>8 DEF NoneLost, Port!Next
  <2>4. CASE Whole(recv) = {}
    <3>1. ran' = Append(ran, Junk)
      BY <2>1, <2>4 DEF TextOf
    <3>2. frame \in hurt
      <4> SUFFICES ASSUME frame \notin hurt PROVE FALSE
        OBVIOUS
      <4>1. recv # << >> /\ dr = NoByte /\ ~(pos > 0) /\ Prefix
        BY <1>0, <2>1 DEF Intact, Undisturbed
      <4>2. frame \in FrameNo /\ recv = FrameBytes(frame)
        BY <1>0, <4>1, WholeFrame
      <4> QED
        BY <2>4, <4>2 DEF Whole
    <3>3. frame \in Spoiled
      BY <3>2 DEF Spoiled
    <3>4. Port!RunJunk
      BY <2>1, <2>2, <3>1, <3>3 DEF Port!RunJunk, Junk
    <3>5. /\ DOMAIN ran' = 1 .. Len(ran) + 1
          /\ ran'[Len(ran) + 1] = Junk
          /\ \A k \in DOMAIN ran : ran'[k] = ran[k]
      BY <1>a, <3>1
    <3>6. RanBegun'
      BY <1>0, <1>a, <1>b, <2>1, <3>5 DEF RanBegun, Junk
    <3>7. frame > 0 => (HasRun' <=> HasRun)
      BY <1>b, <2>1, <3>5 DEF HasRun, Port!HasRun, Junk
    <3> QED
      BY <1>0, <2>1, <2>2, <3>3, <3>4, <3>6, <3>7
      DEF RunOnce, NoneLost, Port!Next
  <2> QED
    BY <2>3, <2>4
<1>12. CASE HandleWipe
  <2>1. /\ UNCHANGED << dr, pos, frame, hurt, ran >> /\ pc = "wipe"
        /\ pc' = "reopen" /\ recv' = << >>
    BY <1>12 DEF HandleWipe, wire
  <2>2. UNCHANGED << Spoiled, HasRun, Port!vars >>
    BY <2>1 DEF Spoiled, HasRun, Port!HasRun, Port!vars
  <2> QED
    BY <1>0, <2>1, <2>2 DEF RanBegun, RunOnce, NoneLost
<1>13. CASE HandleReopen
  <2>1. /\ UNCHANGED << recv, dr, pos, frame, hurt, ran >> /\ pc = "reopen"
        /\ pc' = "verify" /\ recv = << >>
    BY <1>0, <1>13 DEF HandleReopen, wire, LinkInv, ClosedWhileHandled
  <2>2. UNCHANGED << Spoiled, HasRun, Port!vars >>
    BY <2>1 DEF Spoiled, HasRun, Port!HasRun, Port!vars
  <2> QED
    BY <1>0, <2>1, <2>2 DEF RanBegun, RunOnce, NoneLost
<1>14. CASE UNCHANGED vars
  <2>1. UNCHANGED << Spoiled, HasRun, Port!vars >>
    BY <1>14 DEF vars, Spoiled, HasRun, Port!HasRun, Port!vars
  <2> QED
    BY <1>0, <1>14, <2>1 DEF vars, RanBegun, RunOnce, NoneLost
<1> QED
  BY <1>1, <1>2, <1>3, <1>4, <1>5, <1>6, <1>7, <1>8, <1>9, <1>10, <1>11,
     <1>12, <1>13, <1>14
  DEF Next, Pc, Main, verify_pc_data, handle_pc_data

\* The link implements the command port, on any line and whatever malloc does:
\* a command whose frame is not spoiled is run once and in the order of issue,
\* before the PC sends the next, and nothing that a spoiled one leaves behind is
\* ever taken for another.  (That it is run in the end is liveness, and TLC's.)
THEOREM LinkImplementsPort ==
  ASSUME Polite, Fits
  PROVE  Spec => Port!Init /\ [][Port!Next]_(Port!vars)
<1>1. Init => Port!Init
  BY DEF Init, Port!Init, Spoiled
<1> QED
  BY <1>1, PortInvInit, PortInvNext, PTL DEF Spec
=============================================================================

------------------------------ MODULE NonLink ------------------------------
(***************************************************************************)
(* NON_T1: two stations with the same program, one of which sends.  Its    *)
(* thread_test calls non_send again and again: the packet goes out up to   *)
(* four times, until thread_recv has signalled that something came back.   *)
(* The other station has thread_recv only and sends its own packet back    *)
(* for each one it gets.  Nothing in a packet says which it answers.       *)
(***************************************************************************)
EXTENDS Naturals, SequencesExt, FiniteSetsExt

CONSTANTS Resends,        \* 3
          MaxCalls,       \* bound: calls of non_send
          MaxRaces        \* bound: races, see below

ASSUME NonLinkAssumption ==
  Resends \in Nat /\ MaxCalls \in Nat /\ MaxRaces \in Nat

Sender  == 1
Peer    == 2
Station == {Sender, Peer}
Other(s) == 3 - s
Thread(s) == IF s = Sender THEN {"test", "recv"} ELSE {"recv"}
Flag == {"EV_RECV", "EV_SEND_V"}

\* Where it goes; for the record, the call of non_send that sent it, 0 for an
\* answer, which looks the same.
Packet == [dst: Station, call: 0 .. MaxCalls]

VARIABLES
  call,       \* history: calls of non_send so far
  heard,      \* history: those of which the other station heard a packet
  acked,      \* history: how many of them returned 0
  answers,    \* history: how often the other station answered, up to MaxCalls
  lucky,      \* history: e never happened to hold EV_SEND_V
  races,      \* history: how often a time slice ended while a thread had work, or
              \* the 100 ms while thread_recv of the sender had
  spun,       \* history: a time slice ended in the wait for the pin
  smooth,     \* history: no packet was missed, nobody was early, no race
  ret,        \* what the last non_send returned; "none" while in it
  e,          \* does its variable e hold EV_SEND_V?  FALSE outside it
  num_send, wait_ack,   \* of the sender; the other station's stay 0
  event,      \* e_non of each station
  radio,      \* its nRF24L01
  buf_recv,
  sta,        \* sta of nrf24l01_rx_packet, {} outside it
  pc,         \* where its threads are
  cur         \* the thread that runs, "none" between threads

vars == << call, heard, acked, answers, lucky, races, spun, smooth, ret, e,
           num_send, wait_ack, event, radio, buf_recv, sta, pc, cur >>

Ev == INSTANCE RtEvent WITH Flags <- Flag, Threads <- {"test", "recv"}
Rf == INSTANCE Radio

\* thread_recv waits; buf_recv is zero, which is the address of the Peer.
Init ==
  /\ call = 0 /\ heard = {} /\ acked = 0 /\ answers = 0
  /\ lucky = TRUE /\ races = 0 /\ spun = FALSE /\ smooth = TRUE
  /\ ret = "none" /\ e = FALSE
  /\ num_send = 0 /\ wait_ack = FALSE
  /\ event = [s \in Station |->
                Ev!rt_event_recv(Ev!rt_event_init, "recv", {"EV_RECV"}, TRUE)]
  /\ radio = [s \in Station |-> Rf!FreshChip]
  /\ buf_recv = [s \in Station |-> [dst |-> Peer, call |-> 0]]
  /\ sta = [s \in Station |-> {}]
  /\ pc = [s \in Station |-> [test |-> "idle", recv |-> "got"]]
  /\ cur = [s \in Station |-> "none"]

-----------------------------------------------------------------------------
(* Threads; both have priority 20 *)

Ready(s, t) ==
  /\ t \in Thread(s)
  /\ pc[s][t] = "got" => ~Ev!Suspended(event[s], t)

Runs(s, t, place) ==
  /\ pc[s][t] = place /\ Ready(s, t)
  /\ cur[s] \in {t, "none"}

Goes(s, t, place) ==
  /\ pc' = [pc EXCEPT ![s][t] = place]
  /\ cur' = [cur EXCEPT ![s] = IF place = "idle" THEN "none" ELSE t]

\* rt_event_recv, by thread_recv for ever, by non_send for 100 ms; x is the
\* event with what the thread has sent.
Awaits(s, t, x) ==
  /\ event' = [event EXCEPT ![s] =
        IF t = "recv" THEN Ev!rt_event_recv(x, t, {"EV_RECV"}, TRUE)
                      ELSE Ev!rt_event_recv(x, t, {"EV_SEND_V"}, FALSE)]
  /\ pc' = [pc EXCEPT ![s][t] = "got"]
  /\ cur' = [cur EXCEPT ![s] = IF Ev!Suspended(event'[s], t) THEN "none" ELSE t]

Spinning(s) == \E t \in Thread(s) : pc[s][t] = "spin"

Race == races < MaxRaces /\ races' = races + 1

\* The time slice of the thread that runs ends, and t is next.
Preempt(s, t) ==
  /\ cur[s] \notin {t, "none"} /\ Ready(s, t) /\ pc[s][t] # "idle"
  /\ cur' = [cur EXCEPT ![s] = t]
  /\ Race
  /\ smooth' = FALSE /\ spun' = (spun \/ Spinning(s))
  /\ UNCHANGED << call, heard, acked, answers, lucky, ret, e, num_send, wait_ack,
                  event, radio, buf_recv, sta, pc >>

NonSend == << call, acked, lucky, ret, e, num_send, wait_ack >>
Air == << heard, answers, smooth >>
Races == << races, spun >>

-----------------------------------------------------------------------------
(* data_send, which both threads call *)

\* The packet that t sends.
Data(s, t) == [dst |-> Other(s), call |-> IF t = "test" THEN call ELSE 0]

TxStart(s, t) ==
  /\ Runs(s, t, "send")
  /\ radio' = [radio EXCEPT ![s] = Rf!StartTx(@, Data(s, t))]
  /\ Goes(s, t, "spin")
  /\ UNCHANGED << NonSend, Air, Races, event, buf_recv, sta >>

TxEnd(s, t) ==
  /\ Runs(s, t, "spin")
  /\ Rf!IRQ(radio[s])
  /\ \E c \in Rf!EndTx(radio[s]) : radio' = [radio EXCEPT ![s] = c]
  /\ Awaits(s, t, event[s])
  /\ UNCHANGED << NonSend, Air, Races, buf_recv, sta >>

-----------------------------------------------------------------------------
(* non_send, in thread_test *)

\* Nobody has anything to do or to say.
Quiet ==
  \A s \in Station :
    /\ ~Ready(s, "recv") /\ ~Rf!IRQ(radio[s]) /\ ~Rf!Sends(radio[s])

\* It starts; e has no value yet.
Begin ==
  /\ Runs(Sender, "test", "idle")
  /\ call < MaxCalls
  /\ call' = call + 1
  /\ \E chance \in BOOLEAN : e' = chance /\ lucky' = (lucky /\ ~chance)
  /\ num_send' = 0 /\ wait_ack' = TRUE /\ ret' = "none"
  /\ smooth' = (smooth /\ Quiet)
  /\ Goes(Sender, "test", "send")
  /\ UNCHANGED << heard, acked, answers, Races, event, radio, buf_recv, sta >>

\* The 100 ms are over.
TimedOut ==
  /\ Ev!Suspended(event[Sender], "test")
  /\ event' = [event EXCEPT ![Sender] = Ev!rt_thread_timeout(@, "test")]
  /\ smooth' = (smooth /\ Quiet)
  /\ IF Ready(Sender, "recv") THEN Race ELSE UNCHANGED races
  /\ UNCHANGED << NonSend, heard, answers, spun, radio, buf_recv, sta, pc, cur >>

\* e after rt_event_recv: written only if something was received.
Received == e \/ event[Sender].got["test"] # {}

Succeeds ==
  /\ Runs(Sender, "test", "got") /\ Received
  /\ e' = FALSE /\ wait_ack' = FALSE /\ ret' = "0"
  /\ acked' = acked + 1
  /\ Goes(Sender, "test", "idle")
  /\ UNCHANGED << Air, call, lucky, num_send, Races, event, radio, buf_recv, sta >>

\* Mutant of Retries: num_send is not counted.
RetriesUncounted ==
  /\ Runs(Sender, "test", "got") /\ ~Received
  /\ num_send < Resends
  /\ Goes(Sender, "test", "send")
  /\ UNCHANGED << Air, call, acked, lucky, ret, e, num_send, wait_ack, Races, event,
                  radio, buf_recv, sta >>

\* Mutant of Retries: once more.
RetriesOnceMore ==
  /\ Runs(Sender, "test", "got") /\ ~Received
  /\ num_send <= Resends
  /\ num_send' = num_send + 1
  /\ Goes(Sender, "test", "send")
  /\ UNCHANGED << Air, call, acked, lucky, ret, e, wait_ack, Races, event, radio,
                  buf_recv, sta >>

Retries ==
  /\ Runs(Sender, "test", "got") /\ ~Received
  /\ num_send < Resends
  /\ num_send' = num_send + 1
  /\ Goes(Sender, "test", "send")
  /\ UNCHANGED << Air, call, acked, lucky, ret, e, wait_ack, Races, event, radio,
                  buf_recv, sta >>

\* wait_ack is left as it is.
GivesUp ==
  /\ Runs(Sender, "test", "got") /\ ~Received
  /\ num_send >= Resends
  /\ num_send' = num_send + 1 /\ ret' = "-1"
  /\ Goes(Sender, "test", "idle")
  /\ UNCHANGED << Air, call, acked, lucky, e, wait_ack, Races, event, radio,
                  buf_recv, sta >>

-----------------------------------------------------------------------------
(* thread_recv *)

\* nrf24l01_rx_packet: STATUS is read ...
RxStatus(s) ==
  /\ Runs(s, "recv", "got")
  /\ sta' = [sta EXCEPT ![s] = radio[s].flags]
  /\ Goes(s, "recv", "clear")
  /\ UNCHANGED << NonSend, Air, Races, event, radio, buf_recv >>

\* Mutant of RxRead: what nrf24l01_rx_packet returns is not looked at.
RxReadAnyway(s) ==
  /\ Runs(s, "recv", "clear")
  /\ Goes(s, "recv", "flush")
  /\ radio' = [radio EXCEPT ![s] = Rf!WriteStatus(@, sta[s])]
  /\ \E p \in Rf!ReadPayload(radio[s], buf_recv[s], buf_recv[s]) :
       buf_recv' = [buf_recv EXCEPT ![s] = p]
  /\ sta' = [sta EXCEPT ![s] = {}]
  /\ UNCHANGED << NonSend, Air, Races, event >>

\* ... and written, and a packet read if there was one ...
RxRead(s) ==
  /\ Runs(s, "recv", "clear")
  /\ IF Rf!RX_OK(sta[s])
     THEN /\ \E p \in Rf!ReadPayload(radio[s], buf_recv[s], buf_recv[s]) :
               buf_recv' = [buf_recv EXCEPT ![s] = p]
          /\ Goes(s, "recv", "flush") /\ UNCHANGED event
     ELSE Awaits(s, "recv", event[s]) /\ UNCHANGED buf_recv
  /\ radio' = [radio EXCEPT ![s] = Rf!WriteStatus(@, sta[s])]
  /\ sta' = [sta EXCEPT ![s] = {}]
  /\ UNCHANGED << NonSend, Air, Races >>

\* ... and the others flushed; then it is for somebody else, or for the thread
\* that waits for an acknowledgment, or is answered by default_recv_indicate.
\* Mutant of ForMe: the source is compared.
FromMe(s) == buf_recv[s].dst # s

ForMe(s) == buf_recv[s].dst = s
Awaited(s) == s = Sender /\ wait_ack

RxHandle(s) ==
  /\ Runs(s, "recv", "flush")
  /\ radio' = [radio EXCEPT ![s] = Rf!FlushRx(@)]
  /\ \/ /\ ~ForMe(s)
        /\ Awaits(s, "recv", event[s])
     \/ /\ ForMe(s) /\ Awaited(s)
        /\ Awaits(s, "recv", Ev!rt_event_send(event[s], {"EV_SEND_V"}))
     \/ /\ ForMe(s) /\ ~Awaited(s)
        /\ Goes(s, "recv", "send") /\ UNCHANGED event
  /\ UNCHANGED << NonSend, Air, Races, buf_recv, sta >>

-----------------------------------------------------------------------------
(* The air *)

\* A packet goes out, and the other station hears it or does not;
\* EXTI1_IRQHandler of each whose pin falls.
Transmit(s) ==
  /\ Rf!Sends(radio[s])
  /\ \E hears \in {FALSE, Rf!Hears(radio[Other(s)])} :
       LET packet == radio[s].out[1]
           after(o) == IF o = s THEN Rf!Sent(radio[o])
                       ELSE IF hears THEN Rf!Receive(radio[o], packet)
                       ELSE radio[o]
           falls(o) == ~Rf!IRQ(radio[o]) /\ Rf!IRQ(after(o))
       IN /\ radio' = [o \in Station |-> after(o)]
          /\ event' = [o \in Station |->
                         IF falls(o) THEN Ev!rt_event_send(event[o], {"EV_RECV"})
                                     ELSE event[o]]
          /\ heard' = IF s = Sender /\ hears /\ packet.call # 0
                      THEN heard \cup {packet.call} ELSE heard
          /\ smooth' = (smooth /\ hears /\ ~Rf!IRQ(radio[Other(s)]))
  /\ answers' = IF s = Peer THEN Min({answers + 1, MaxCalls}) ELSE answers
  /\ UNCHANGED << NonSend, Races, buf_recv, sta, pc, cur >>

-----------------------------------------------------------------------------
Test == Begin \/ Succeeds \/ Retries \/ GivesUp
        \/ TxStart(Sender, "test") \/ TxEnd(Sender, "test")

Receiver(s) == RxStatus(s) \/ RxRead(s) \/ RxHandle(s)
               \/ TxStart(s, "recv") \/ TxEnd(s, "recv")

Next ==
  \/ Test \/ TimedOut
  \/ \E s \in Station : \/ Receiver(s) \/ Transmit(s)
                        \/ \E t \in {"test", "recv"} : Preempt(s, t)

Spec == Init /\ [][Next]_vars

\* The timer runs, the sender's radio sends what it has, a thread that has the
\* processor goes on, and one that is ready has its turn: of the same priority the
\* first that became ready is next.  Of the other station nothing is asked.
Fairness ==
  /\ WF_vars(TimedOut) /\ WF_vars(Transmit(Sender))
  /\ WF_vars(Receiver(Sender)) /\ SF_vars(Test)

FairSpec == Spec /\ Fairness

-----------------------------------------------------------------------------
(* What makes the link correct *)

Places == {"idle", "got", "clear", "flush", "send", "spin"}

\* Every variable keeps its type, and no thread is in the list of an event twice.
TypeOK ==
  /\ call \in 0 .. MaxCalls /\ races \in 0 .. MaxRaces /\ heard \subseteq 1 .. call
  /\ acked \in 0 .. call /\ answers \in 0 .. MaxCalls
  /\ {lucky, spun, smooth, e, wait_ack} \subseteq BOOLEAN
  /\ ret \in {"none", "0", "-1"} /\ num_send \in 0 .. Resends + 1
  /\ event \in [Station -> Ev!Event] /\ radio \in [Station -> Rf!Chip]
  /\ buf_recv \in [Station -> Packet]
  /\ sta \in [Station -> SUBSET {"RX_DR", "TX_DS"}]
  /\ pc \in [Station -> [{"test", "recv"} -> Places]]
  /\ cur \in [Station -> {"test", "recv", "none"}]
  /\ \A s \in Station :
       Len(event[s].wait) <= Cardinality(Thread(s)) /\ Len(radio[s].fifo) <= 1

\* No answer counts for two messages: unless e happened to hold EV_SEND_V,
\* non_send has returned 0 at most as often as the other station has answered,
\* whatever is missed, late, latched, read twice or resent.
OneAnswerOneSuccess == lucky => acked <= answers

\* If no packet is missed, nobody is early and no time slice ends at a bad
\* moment, every message is heard and acknowledged the first time: neither thread
\* takes an interrupt, a flag or a packet that was meant for the other.
SmoothSucceeds ==
  smooth /\ lucky =>
    /\ num_send = 0
    /\ ret = "0" => call \in heard /\ acked = call

\* non_send returns: whatever is missed or late, unless a time slice ended while
\* a thread waited for the pin, which the other thread may have let rise.
Sending == pc[Sender]["test"] \in {"send", "spin", "got"}
SendReturns == Sending ~> ~Sending \/ spun

\* When non_send reports success, the other station has heard the message.
SuccessMeansHeard == lucky /\ ret = "0" => call \in heard
=============================================================================

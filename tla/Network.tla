------------------------------ MODULE Network ------------------------------
(***************************************************************************)
(* net_on_nrf24l01: a router and its nodes on one radio channel.  On every *)
(* board a network thread ("nm") moves packets between the radio and one   *)
(* receive buffer and one send buffer, and a registration thread ("reg")   *)
(* reads and writes those buffers; event flags are all that orders them.   *)
(* The node's non_init ("init") waits for the registration.                *)
(*                                                                         *)
(* All threads have the same priority: one runs until it waits, or until   *)
(* its time slice ends.                                                    *)
(***************************************************************************)
EXTENDS Naturals, SequencesExt

CONSTANTS Nodes,          \* how many nodes there are
          AddrSpace,      \* addresses a byte can hold, 256
          MaxFaults       \* bound: how much comes in the way, restarts included

ASSUME NetworkAssumption ==
  /\ Nodes \in Nat /\ MaxFaults \in Nat
  /\ AddrSpace \in Nat /\ AddrSpace > Nodes + 2

\* Nodes are numbered in the order in which they are first started.
Node   == 1 .. Nodes
Router == 0
Junk   == Nodes + 1       \* what a misread id looks like

Board  == Node \cup {Router}
Ids    == Board \cup {Junk}
Thread == {"nm", "reg"}
Flag   == {"RECV_PACKET", "SEND_PACKET", "RECV_REG", "REG_SUCCESS"}

\* What pid, cmd and the addresses say; data[0 .. 11]; data[12].
Packet == [kind: {"register", "acknowledge", "confirm", "junk"},
           id: Ids, addr: 0 .. AddrSpace - 1]
NoPacket == [kind |-> "junk", id |-> Junk, addr |-> 0]

VARIABLES
  faults,     \* history: how often something came in the way, see Fault
  orderly,    \* history: the router was never restarted, and no time slice ended
              \* while a thread had work
  on,         \* boards that have been started
  event,      \* event_non of each board
  radio,      \* its nRF24L01
  recv, send, \* recv_buf, send_buf
  pc,         \* where its threads are
  cur,        \* the thread that runs, "none" between threads
  addr,       \* node_addr.addr; 0 when node_addr.flag is not 'Y'
  pool,       \* the router's addr_pool
  restarts    \* how often nodes were restarted in peace

history == << faults, orderly, restarts >>
vars == << faults, orderly, on, event, radio, recv, send, pc, cur, addr, pool,
           restarts >>

Ev == INSTANCE RtEvent WITH Flags <- Flag, Threads <- Thread
Rf == INSTANCE Radio
Dh == INSTANCE Dhcp

\* What each thread waits for in rt_event_recv: the mask, and whether all of it.
Mask(b, t) ==
  IF t = "reg" THEN << {"RECV_REG"}, TRUE >>
  ELSE IF b = Router THEN << {"RECV_PACKET"}, TRUE >>
  ELSE << {"RECV_PACKET", "SEND_PACKET"}, FALSE >>

Recv(b, t, e) == Ev!rt_event_recv(e, t, Mask(b, t)[1], Mask(b, t)[2])

\* non_init has created the threads; those with nothing to do wait.
StartPc(b) == [nm |-> "got", reg |-> IF b = Router THEN "got" ELSE "ask"]
StartEvent(b) ==
  Recv(b, "nm", IF b = Router THEN Recv(b, "reg", Ev!rt_event_init)
                              ELSE Ev!rt_event_init)

Init ==
  /\ faults = 0 /\ orderly = TRUE /\ restarts = 0
  /\ on = {Router}
  /\ event = [b \in Board |-> StartEvent(b)]
  /\ radio = [b \in Board |-> Rf!FreshChip]
  /\ recv = [b \in Board |-> NoPacket]
  /\ send = [b \in Board |-> NoPacket]
  /\ pc = [b \in Board |-> StartPc(b)]
  /\ cur = [b \in Board |-> "none"]
  /\ addr = [n \in Node |-> 0]
  /\ pool = Dh!dhcp_init(Router)

\* What a careful installation avoids.  Light: a packet that somebody does not
\* hear, a start in the middle of something.  Heavy: a time slice that ends while
\* a thread has work, malloc without memory, a restart of the router, or of a
\* node in the middle of something.
Light == 1
Heavy == 2
spent == faults + Heavy * restarts
Fault(weight) ==
  /\ spent + weight <= MaxFaults
  /\ faults' = faults + weight
NoFault == UNCHANGED faults

-----------------------------------------------------------------------------
(* Threads *)

Ready(b, t) ==
  /\ b \in on
  /\ pc[b][t] # "done"
  /\ pc[b][t] = "got" => ~Ev!Suspended(event[b], t)

\* A thread runs until it waits or ends; then any other may.
Runs(b, t, place) ==
  /\ pc[b][t] = place /\ Ready(b, t)
  /\ cur[b] \in {t, "none"}

Goes(b, t, place) ==
  /\ pc' = [pc EXCEPT ![b][t] = place]
  /\ cur' = [cur EXCEPT ![b] = IF place = "done" THEN "none" ELSE t]

Rest == UNCHANGED << faults, orderly, restarts, on >>

\* The time slice of a thread ends.
Preempt(b, t) ==
  /\ cur[b] \notin {t, "none"} /\ Ready(b, t)
  /\ cur' = [cur EXCEPT ![b] = t]
  /\ Fault(Heavy) /\ orderly' = FALSE
  /\ UNCHANGED << on, event, radio, recv, send, pc, addr, pool, restarts >>

\* On to the next event, which is e from what the thread has sent: it is there,
\* or the thread waits.
Awaits(b, t, e) ==
  /\ event' = [event EXCEPT ![b] = Recv(b, t, e)]
  /\ pc' = [pc EXCEPT ![b][t] = "got"]
  /\ cur' = [cur EXCEPT ![b] = IF Ev!Suspended(event'[b], t) THEN "none" ELSE t]

-----------------------------------------------------------------------------
(* The radio: the driver, and what is between the boards *)

\* send_packet, up to the wait for the pin
TxStart(b, t, packet) ==
  /\ radio' = [radio EXCEPT ![b] = Rf!StartTx(@, packet)]
  /\ Goes(b, t, "spin")

\* ... and after it
TxEnd(b, t) ==
  /\ Runs(b, t, "spin")
  /\ Rf!IRQ(radio[b])
  /\ \E c \in Rf!EndTx(radio[b]) : radio' = [radio EXCEPT ![b] = c]
  /\ Awaits(b, t, event[b])
  /\ Rest /\ UNCHANGED << recv, send, addr, pool >>

\* nrf24l01_rx_packet, up to the payload; STATUS is read and written in one step.
\* What arrives between its steps is flushed, and leaves RX_DR behind.
RxRead(b) ==
  /\ IF Rf!RX_OK(radio[b].flags)
     THEN /\ \E p \in Rf!ReadPayload(radio[b], recv[b], NoPacket) :
               recv' = [recv EXCEPT ![b] = p]
          /\ Goes(b, "nm", "flush") /\ UNCHANGED event
     ELSE Awaits(b, "nm", event[b]) /\ UNCHANGED recv
  /\ radio' = [radio EXCEPT ![b] = Rf!WriteStatus(@, @.flags)]

\* Does the network thread hand the packet on?
HandsOn(b) ==
  IF b = Router THEN recv[b].kind \in {"register", "confirm"} ELSE addr[b] = 0

RxFlush(b) ==
  /\ Runs(b, "nm", "flush")
  /\ radio' = [radio EXCEPT ![b] = Rf!FlushRx(@)]
  /\ Awaits(b, "nm", IF HandsOn(b) THEN Ev!rt_event_send(event[b], {"RECV_REG"})
                                   ELSE event[b])
  /\ Rest /\ UNCHANGED << recv, send, addr, pool >>

\* Who hears what b sends: everybody, with nothing unread; or some do not.
Heard(b, hearers) ==
  LET others == on \ {b} IN
  /\ hearers \subseteq {o \in others : Rf!Hears(radio[o])}
  /\ IF hearers = others /\ \A o \in others : ~Rf!IRQ(radio[o])
     THEN NoFault ELSE Fault(Light)

\* A packet is on the air; EXTI1_IRQHandler of every board whose pin falls.
Transmit(b) ==
  /\ Rf!Sends(radio[b])
  /\ \E hearers \in SUBSET on :
       LET after(o) == IF o = b THEN Rf!Sent(radio[o])
                       ELSE IF o \in hearers
                       THEN Rf!Receive(radio[o], radio[b].out[1])
                       ELSE radio[o]
           falls(o) == ~Rf!IRQ(radio[o]) /\ Rf!IRQ(after(o))
       IN /\ Heard(b, hearers)
          /\ radio' = [o \in Board |-> after(o)]
          /\ event' = [o \in Board |->
                         IF falls(o)
                         THEN Ev!rt_event_send(event[o], {"RECV_PACKET"})
                         ELSE event[o]]
  /\ UNCHANGED << orderly, on, recv, send, pc, cur, addr, pool, restarts >>

-----------------------------------------------------------------------------
(* The node *)

\* regist_therad: the request
NodeAsks(n) ==
  /\ Runs(n, "reg", "ask")
  /\ send' = [send EXCEPT ![n] = [kind |-> "register", id |-> n, addr |-> 0]]
  /\ Awaits(n, "reg", Ev!rt_event_send(event[n], {"SEND_PACKET"}))
  /\ Rest /\ UNCHANGED << radio, recv, addr, pool >>

\* Mutant of NodeLooks: an acknowledgment is an acknowledgment.
NodeLooksAway(n) ==
  /\ Runs(n, "reg", "got")
  /\ Goes(n, "reg", IF recv[n].kind = "acknowledge" THEN "take" ELSE "done")
  /\ Rest /\ UNCHANGED << event, radio, recv, send, addr, pool >>

\* What came is looked at once; anything but this node's acknowledgment ends
\* the thread.
NodeLooks(n) ==
  /\ Runs(n, "reg", "got")
  /\ Goes(n, "reg", IF recv[n].kind = "acknowledge" /\ recv[n].id = n
                    THEN "take" ELSE "done")
  /\ Rest /\ UNCHANGED << event, radio, recv, send, addr, pool >>

\* The confirmation is to be sent, and non_init, which waits for nothing but
\* REG_SUCCESS, may go on.
NodeTakes(n) ==
  /\ Runs(n, "reg", "take")
  /\ addr' = [addr EXCEPT ![n] = recv[n].addr]
  /\ send' = [send EXCEPT ![n] = [kind |-> "confirm", id |-> n, addr |-> 0]]
  /\ event' = [event EXCEPT ![n] =
        Ev!rt_event_send(Ev!rt_event_send(@, {"SEND_PACKET"}), {"REG_SUCCESS"})]
  /\ Goes(n, "reg", "done")
  /\ Rest /\ UNCHANGED << radio, recv, pool >>

\* net_manage_thread of node.c: only RECV_PACKET alone means receive.
NodeDecides(n) ==
  /\ Runs(n, "nm", "got")
  /\ IF event[n].got["nm"] = {"RECV_PACKET"}
     THEN RxRead(n) ELSE TxStart(n, "nm", send[n]) /\ UNCHANGED << event, recv >>
  /\ Rest /\ UNCHANGED << send, addr, pool >>

NodeStep(n) ==
  \/ NodeAsks(n) \/ NodeLooks(n) \/ NodeTakes(n)
  \/ NodeDecides(n) \/ TxEnd(n, "nm")

-----------------------------------------------------------------------------
(* The router *)

RouterReceives ==
  /\ Runs(Router, "nm", "got")
  /\ RxRead(Router)
  /\ Rest /\ UNCHANGED << send, addr, pool >>

\* regist_thread: a request is answered, a confirmation only noted.  Only cmd is
\* looked at, and what an empty queue gives may say anything there.
RouterLooks ==
  /\ Runs(Router, "reg", "got")
  /\ \/ /\ recv[Router].kind \in {"register", "junk"}
        /\ Goes(Router, "reg", "copy") /\ UNCHANGED event
     \/ /\ recv[Router].kind # "register"
        /\ Awaits(Router, "reg", event[Router])
  /\ Rest /\ UNCHANGED << radio, recv, send, addr, pool >>

\* The id is copied from recv_buf ...
RouterCopies ==
  /\ Runs(Router, "reg", "copy")
  /\ send' = [send EXCEPT ![Router] =
                [kind |-> "acknowledge", id |-> recv[Router].id, addr |-> 0]]
  /\ Goes(Router, "reg", "addr")
  /\ Rest /\ UNCHANGED << event, radio, recv, addr, pool >>

\* ... and looked up from there; the answer is sent.
RouterAnswers ==
  /\ Runs(Router, "reg", "addr")
  /\ pool' = Dh!Grown(pool, recv[Router].id)
  /\ send' = [send EXCEPT ![Router].addr = Dh!get_addr(pool, recv[Router].id)]
  /\ TxStart(Router, "reg", send'[Router])
  /\ Rest /\ UNCHANGED << event, recv, addr >>

\* malloc fails: no answer.
RouterFails ==
  /\ Runs(Router, "reg", "addr")
  /\ ~Dh!Found(pool, recv[Router].id)
  /\ Awaits(Router, "reg", event[Router])
  /\ Fault(Heavy)
  /\ UNCHANGED << orderly, on, radio, recv, send, addr, pool, restarts >>

RouterStep ==
  \/ RouterReceives \/ RouterLooks \/ RouterCopies \/ RouterAnswers
  \/ TxEnd(Router, "reg")

-----------------------------------------------------------------------------
(* The world *)

\* Nobody has anything to do or to say.
Quiet ==
  \A b \in on : /\ \A t \in Thread : ~Ready(b, t)
                /\ ~Rf!IRQ(radio[b]) /\ ~Rf!Sends(radio[b])

Start(n) ==
  /\ n \notin on /\ n - 1 \in on
  /\ IF Quiet THEN NoFault ELSE Fault(Light)
  /\ on' = on \cup {n}
  /\ UNCHANGED << orderly, event, radio, recv, send, pc, cur, addr, pool, restarts >>

Reset(b) ==
  /\ event' = [event EXCEPT ![b] = StartEvent(b)]
  /\ radio' = [radio EXCEPT ![b] = Rf!FreshChip]
  /\ recv' = [recv EXCEPT ![b] = NoPacket]
  /\ send' = [send EXCEPT ![b] = NoPacket]
  /\ pc' = [pc EXCEPT ![b] = StartPc(b)]
  /\ cur' = [cur EXCEPT ![b] = "none"]

\* A node is restarted; flash_write is commented out, so it knows nothing.
RestartNode(n) ==
  /\ n \in on
  /\ IF Quiet
     THEN spent + Heavy <= MaxFaults /\ restarts' = restarts + 1 /\ NoFault
     ELSE Fault(Heavy) /\ UNCHANGED restarts
  /\ Reset(n)
  /\ addr' = [addr EXCEPT ![n] = 0]
  /\ UNCHANGED << orderly, on, pool >>

\* The router forgets its pool.
RestartRouter ==
  /\ Reset(Router)
  /\ pool' = Dh!dhcp_init(Router)
  /\ Fault(Heavy) /\ orderly' = FALSE
  /\ UNCHANGED << on, addr, restarts >>

Step(b) ==
  \/ RxFlush(b)
  \/ b # Router /\ NodeStep(b)
  \/ b = Router /\ RouterStep

Work == \E b \in Board : Step(b) \/ Transmit(b)

Next ==
  \/ Work
  \/ \E b \in Board, t \in Thread : Preempt(b, t)
  \/ \E n \in Node : Start(n) \/ RestartNode(n)
  \/ RouterFails \/ RestartRouter

Spec == Init /\ [][Next]_vars

-----------------------------------------------------------------------------
(* What makes the network correct *)

Places == {"got", "flush", "spin", "ask", "take", "copy",
           "addr", "done"}

\* Every variable keeps its type: in particular no radio is ever left with a
\* packet to send when it is given the next, though the wait for the pin may end
\* before anything was sent, and no thread is in the list of an event twice.
TypeOK ==
  /\ faults \in 0 .. MaxFaults /\ restarts \in 0 .. MaxFaults /\ orderly \in BOOLEAN
  /\ Router \in on /\ on \subseteq Board
  /\ event \in [Board -> Ev!Event] /\ radio \in [Board -> Rf!Chip]
  /\ recv \in [Board -> Packet] /\ send \in [Board -> Packet]
  /\ pc \in [Board -> [Thread -> Places]]
  /\ cur \in [Board -> Thread \cup {"none"}]
  /\ addr \in [Node -> 0 .. AddrSpace - 1]
  /\ pool \in Seq(Dh!Entry)
  /\ \A b \in Board :
       /\ Len(radio[b].fifo) <= 1 /\ Len(radio[b].out) <= 1
       /\ IsInjective([i \in 1 .. Len(event[b].wait) |-> event[b].wait[i].thread])

\* Whatever the router makes of misread and overwritten packets, its pool lists
\* no id twice and gives no address twice.
PoolSound == Dh!PoolSound(pool)

\* The network as an address server.
Server == INSTANCE AddressServer WITH
  Addr  <- 0 .. AddrSpace - 1,
  lease <- [n \in Node |-> IF Dh!Found(pool, n) THEN Dh!AddrOf(pool, n) ELSE 0],
  held  <- addr

\* While the router keeps running and no time slice ends at a bad moment, each
\* node gets an address of its own, the same one after a restart, and never goes
\* by another: through lost and overtaken packets, nodes that start and restart
\* in the middle of each other's registration, and failing malloc.
ImplementsAddressServer ==
  /\ Server!Init
  /\ [][UNCHANGED << pool, addr >> \/ ~orderly' \/ Server!Next]_(Server!vars)

\* No thread can go on and no packet is on its way.
AtRest ==
  \A b \in on :
    /\ ~Rf!Sends(radio[b])
    /\ \A t \in Thread : Ready(b, t) => pc[b][t] = "spin" /\ ~Rf!IRQ(radio[b])

\* If nothing came in the way, the network never comes to rest with a node that
\* was started and is not registered, or whose non_init was not told: nobody
\* waits for an event that is gone, and nobody spins on a pin that stays high.
RestsRegistered ==
  faults = 0 /\ AtRest =>
    \A n \in on \ {Router} : addr[n] # 0 /\ "REG_SUCCESS" \in event[n].set
=============================================================================

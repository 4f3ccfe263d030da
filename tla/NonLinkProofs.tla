--------------------------- MODULE NonLinkProofs ---------------------------
(***************************************************************************)
(* Proofs about NonLink: the types, that no answer counts for two          *)
(* messages, and that what goes smoothly succeeds the first time.          *)
(***************************************************************************)
EXTENDS NonLink, FiniteSetTheorems, TLAPS

Both == {"test", "recv"}

Bd == INSTANCE BoardProofs WITH Flags <- Flag, Threads <- Both

-----------------------------------------------------------------------------
(* The invariant *)

FlagOf(t) == IF t = "recv" THEN "EV_RECV" ELSE "EV_SEND_V"

WaitOf(t) == [thread |-> t, mask |-> {FlagOf(t)}, all |-> t = "recv"]

\* Each thread waits for its own flag, and only as long as it is not there.
Good(x) ==
  /\ Bd!Tidy(x)
  /\ Bd!Waits(x) \subseteq {WaitOf("recv"), WaitOf("test")}
  /\ \A t \in Both :
       Ev!Suspended(x, t) => x.got[t] = {} /\ FlagOf(t) \notin x.set

\* The threads and the chip of a station: what is read of STATUS is kept only between
\* reading and writing it back, and nothing is sent of a call that is still to come.
ShapeAt(s) ==
  /\ Good(event[s])
  /\ \A t \in Both : Ev!Suspended(event[s], t) => pc[s][t] = "got"
  /\ pc[s]["recv"] \in {"got", "clear", "flush", "send", "spin"}
  /\ pc[s]["recv"] # "clear" => sta[s] = {}
  /\ \A i \in 1 .. Len(radio[s].out) : radio[s].out[i].call <= call

\* Only the sender calls non_send, and a call that is not over is not yet counted.
ShapeTest ==
  /\ pc[Sender]["test"] \in {"idle", "send", "spin", "got"}
  /\ pc[Peer]["test"] = "idle"
  /\ pc[Sender]["test"] # "idle" => acked < call /\ num_send <= Resends

Shape == (\A s \in Station : ShapeAt(s)) /\ ShapeTest

\* The ways in which an answer is there but not yet taken: its flag is set, the thread
\* that waited has it, thread_recv reads it, the chip has it.
Flagged == "EV_SEND_V" \in event[Sender].set
Woken == pc[Sender]["test"] = "got" /\ event[Sender].got["test"] # {}
Reading == \/ pc[Sender]["recv"] = "flush"
           \/ pc[Sender]["recv"] = "clear" /\ "RX_DR" \in sta[Sender]
Latched == "RX_DR" \in radio[Sender].flags \ sta[Sender]

\* What has not yet made non_send return 0, and still may.
Held == (IF Flagged THEN 1 ELSE 0) + (IF Woken THEN 1 ELSE 0)
          + (IF Reading THEN 1 ELSE 0) + (IF Latched THEN 1 ELSE 0)

Enough == answers = MaxCalls \/ acked + Held <= answers

\* e never says success of itself, and no answer succeeds twice.
Tokens == lucky => ~e /\ Enough

\* b has a packet it has not read; it has one or is reading it; an answer is on its way.
HasRx(b) ==
  \/ "RX_DR" \in radio[b].flags
  \/ pc[b]["recv"] = "clear" /\ "RX_DR" \in sta[b]
Holds(b) == HasRx(b) \/ pc[b]["recv"] = "flush"
Answering ==
  Holds(Peer) \/ pc[Peer]["recv"] = "send" \/ radio[Peer].out # << >>

\* The packet is where the flag says, and it is for b.
Kept(b) ==
  IF pc[b]["recv"] = "flush"
  THEN ~HasRx(b) /\ buf_recv[b].dst = b
  ELSE /\ radio[b].fifo # << >> <=> HasRx(b)
       /\ radio[b].fifo # << >> => radio[b].fifo[1].dst = b

\* The other station does one thing at a time: it has a packet, reads it, or answers.
PeerSmooth ==
  /\ HasRx(Peer) => /\ pc[Peer]["recv"] \in {"got", "clear"}
                    /\ radio[Peer].flags \subseteq {"RX_DR"}
                    /\ radio[Peer].out = << >>
  /\ pc[Peer]["recv"] \in {"flush", "send"} =>
       radio[Peer].flags = {} /\ radio[Peer].out = << >>
  /\ radio[Peer].out # << >> =>
       /\ pc[Peer]["recv"] = "spin" /\ radio[Peer].flags = {}
       /\ radio[Peer].mode = "tx"
       /\ radio[Peer].out = << [dst |-> Sender, call |-> 0] >>

\* The call goes on, all before it were acknowledged.
Underway == acked = call - 1 /\ ret = "none" /\ wait_ack

\* Between calls: nothing is left of the last one anywhere.
PhaseIdle ==
  /\ pc[Sender]["test"] = "idle"
  /\ acked = call /\ (ret = "0" => call \in heard)
  /\ radio[Sender].out = << >> /\ ~Holds(Sender) /\ ~Answering

\* The message is not yet on the air, ...
PhaseSend ==
  /\ pc[Sender]["test"] \in {"send", "spin"} /\ Underway
  /\ IF pc[Sender]["test"] = "send"
     THEN radio[Sender].out = << >>
     ELSE radio[Sender].out = << [dst |-> Peer, call |-> call] >>
  /\ radio[Sender].flags = {} /\ ~Holds(Sender) /\ ~Answering
  /\ pc[Peer]["recv"] \in {"got", "clear"}
  /\ pc[Sender]["test"] = "spin" => radio[Sender].mode = "tx"

\* ... it was heard while non_send still waits for the pin, ...
PhaseSent ==
  /\ pc[Sender]["test"] = "spin" /\ Underway /\ call \in heard
  /\ radio[Sender].mode = "tx" /\ radio[Sender].out = << >>
  /\ ~Holds(Sender) /\ Answering

\* ... non_send waits for the answer, which is on its way or has come, ...
PhaseWait ==
  /\ pc[Sender]["test"] = "got" /\ Underway /\ call \in heard
  /\ Ev!Suspended(event[Sender], "test")
  /\ radio[Sender].out = << >>
  /\ Holds(Sender) <=> ~Answering

\* ... or has been told of it.
PhaseWoken ==
  /\ pc[Sender]["test"] = "got" /\ Underway /\ call \in heard
  /\ event[Sender].got["test"] # {}
  /\ radio[Sender].out = << >> /\ ~Holds(Sender) /\ ~Answering

Going ==
  /\ ~e /\ num_send = 0 /\ ~Flagged
  /\ pc[Sender]["recv"] \in {"got", "clear", "flush"}
  /\ Kept(Sender) /\ Kept(Peer) /\ PeerSmooth
  /\ PhaseIdle \/ PhaseSend \/ PhaseSent \/ PhaseWait \/ PhaseWoken

\* As long as nothing was missed, early or raced, each call goes through these phases.
Smooth == smooth /\ lucky => Going

-----------------------------------------------------------------------------
(* The event of a station *)

\* The two instances of RtEvent say the same.
LEMMA SameSend ==
  ASSUME NEW x, NEW f
  PROVE  Ev!rt_event_send(x, f) = Bd!rt_event_send(x, f)
BY DEF Ev!rt_event_send, Bd!rt_event_send, Ev!FoldLeft, Bd!FoldLeft,
       Ev!MapThenFoldSet, Bd!MapThenFoldSet, Ev!Max, Bd!Max,
       Ev!Visit, Bd!Visit, Ev!Satisfied, Bd!Satisfied

LEMMA SameRecv ==
  ASSUME NEW x, NEW t, NEW m, NEW a
  PROVE  Ev!rt_event_recv(x, t, m, a) = Bd!rt_event_recv(x, t, m, a)
BY DEF Ev!rt_event_recv, Bd!rt_event_recv, Ev!Satisfied, Bd!Satisfied

LEMMA SameTimeout ==
  ASSUME NEW x, NEW t
  PROVE  Ev!rt_thread_timeout(x, t) = Bd!rt_thread_timeout(x, t)
BY DEF Ev!rt_thread_timeout, Bd!rt_thread_timeout, Ev!RemoveAt, Bd!RemoveAt

LEMMA SameSuspended ==
  ASSUME NEW x, NEW t
  PROVE  Ev!Suspended(x, t) = Bd!Suspended(x, t)
BY DEF Ev!Suspended, Bd!Suspended

LEMMA SameEvent == Ev!Event = Bd!Event
BY DEF Ev!Event, Bd!Event, Ev!Wait, Bd!Wait, Both

LEMMA SuspendedIs ==
  ASSUME NEW x, Good(x), NEW t \in Both
  PROVE  Ev!Suspended(x, t) <=> WaitOf(t) \in Bd!Waits(x)
<1>1. Ev!Suspended(x, t) <=> \E w \in Bd!Waits(x) : w.thread = t
  BY DEF Ev!Suspended, Bd!Waits
<1>2. WaitOf("recv").thread = "recv" /\ WaitOf("test").thread = "test"
  BY DEF WaitOf
<1> QED
  BY <1>1, <1>2 DEF Good, Both

\* r is x but for t, whether it waits, whether its flag is there, what it has.
Becomes(x, r, t, waits, there, got) ==
  /\ Good(r)
  /\ Ev!Suspended(r, t) <=> waits
  /\ FlagOf(t) \in r.set <=> there
  /\ r.got[t] = got
  /\ \A u \in Both \ {t} :
       /\ Ev!Suspended(r, u) <=> Ev!Suspended(x, u)
       /\ FlagOf(u) \in r.set <=> FlagOf(u) \in x.set
       /\ r.got[u] = x.got[u]

LEMMA Sends ==
  ASSUME NEW x, Good(x), NEW t \in Both
  PROVE  Becomes(x, Ev!rt_event_send(x, {FlagOf(t)}), t, FALSE,
                 ~Ev!Suspended(x, t),
                 IF Ev!Suspended(x, t) THEN {FlagOf(t)} ELSE x.got[t])
<1> DEFINE flags == {FlagOf(t)}
           r == Ev!rt_event_send(x, flags)
<1>1. Bd!Served(x, flags, r)
  <2>1. flags \in SUBSET Flag
    BY DEF Flag, FlagOf
  <2> QED
    BY <2>1, SameSend, Bd!SendServes DEF Good
<1> HIDE DEF r
<1>2. Bd!Due(x, flags) = IF Ev!Suspended(x, t) THEN {WaitOf(t)} ELSE {}
  <2>1. \A u \in Both : WaitOf(u) \in Bd!Due(x, flags) <=> u = t /\ Ev!Suspended(x, u)
    <3>1. \A u \in Both :
            Bd!Satisfied(x.set \cup flags, WaitOf(u).mask, WaitOf(u).all)
              <=> FlagOf(u) \in x.set \cup flags
      BY DEF Bd!Satisfied, WaitOf
    <3>2. \A u \in Both : FlagOf(u) = FlagOf(t) <=> u = t
      BY DEF FlagOf, Both
    <3> QED
      BY <3>1, <3>2, SuspendedIs DEF Bd!Due, Good
  <2>2. Bd!Due(x, flags) \subseteq {WaitOf("recv"), WaitOf("test")}
    BY DEF Bd!Due, Good
  <2> QED
    BY <2>1, <2>2 DEF Both
<1>3. /\ FlagOf("recv") # FlagOf("test")
      /\ \A u \in Both : WaitOf(u).mask = {FlagOf(u)} /\ WaitOf(u).thread = u
  BY DEF FlagOf, WaitOf, Both
<1>4. /\ Bd!Tidy(r) /\ Bd!Waits(r) = Bd!Waits(x) \ Bd!Due(x, flags)
      /\ \A f : f \in r.set <=> /\ f \in x.set \cup flags
                               /\ \A w \in Bd!Due(x, flags) : f \notin w.mask
      /\ \A w \in Bd!Due(x, flags) : r.got[w.thread] = w.mask \cap (x.set \cup flags)
      /\ \A u \in Both :
           (\A w \in Bd!Due(x, flags) : w.thread # u) => r.got[u] = x.got[u]
  BY <1>1 DEF Bd!Served
<1>5. \A u \in Both : Bd!Suspended(r, u) <=> \E w \in Bd!Waits(r) : w.thread = u
  BY DEF Bd!Suspended, Bd!Waits
<1>6. Bd!Waits(x) \subseteq {WaitOf("recv"), WaitOf("test")}
  BY DEF Good
<1>8. /\ \A w : w \in Bd!Due(x, flags) <=> Ev!Suspended(x, t) /\ w = WaitOf(t)
      /\ WaitOf(t).mask = {FlagOf(t)} /\ WaitOf(t).thread = t
      /\ \A u \in Both \ {t} : FlagOf(u) # FlagOf(t)
  BY <1>2, <1>3 DEF Both
<1>7. \A u \in Both : Bd!Suspended(r, u) <=> u # t /\ Ev!Suspended(x, u)
  <2>1. \A u \in Both : Bd!Suspended(r, u) <=> WaitOf(u) \in Bd!Waits(r)
    BY <1>3, <1>4, <1>5, <1>6 DEF Both
  <2>2. \A u \in Both : WaitOf(u) = WaitOf(t) <=> u = t
    BY <1>3
  <2> QED
    BY <1>4, <1>8, <2>1, <2>2, SuspendedIs
<1>9. /\ \A u \in Both \ {t} : FlagOf(u) \in r.set <=> FlagOf(u) \in x.set
      /\ FlagOf(t) \in r.set <=> ~Ev!Suspended(x, t)
  <2>1. \A f : f \in r.set <=> /\ f \in x.set \cup flags
                               /\ Ev!Suspended(x, t) => f # FlagOf(t)
    BY <1>4, <1>8
  <2> QED
    BY <1>8, <2>1
<1>10. r.got[t] = IF Ev!Suspended(x, t) THEN {FlagOf(t)} ELSE x.got[t]
  <2>1. CASE Ev!Suspended(x, t)
    <3>1. r.got[t] = {FlagOf(t)} \cap (x.set \cup flags)
      BY <1>4, <1>8, <2>1
    <3> QED
      BY <2>1, <3>1
  <2>2. CASE ~Ev!Suspended(x, t)
    BY <1>4, <1>8, <2>2
  <2> QED
    BY <2>1, <2>2
<1>11. \A u \in Both \ {t} : r.got[u] = x.got[u]
  BY <1>4, <1>8
<1>12. Good(r)
  <2>1. \A u \in Both : Ev!Suspended(x, u) => x.got[u] = {} /\ FlagOf(u) \notin x.set
    BY DEF Good
  <2> QED
    BY <1>4, <1>6, <1>7, <1>9, <1>11, <2>1, SameSuspended DEF Good
<1> QED
  BY <1>7, <1>9, <1>10, <1>11, <1>12, SameSuspended DEF Becomes, r

LEMMA Receives ==
  ASSUME NEW x, Good(x), NEW t \in Both, ~Ev!Suspended(x, t)
  PROVE  Becomes(x, Ev!rt_event_recv(x, t, {FlagOf(t)}, t = "recv"), t,
                 FlagOf(t) \notin x.set, FALSE,
                 IF FlagOf(t) \in x.set THEN {FlagOf(t)} ELSE {})
<1> DEFINE mask == {FlagOf(t)}
           r == Bd!rt_event_recv(x, t, mask, t = "recv")
           w == [thread |-> t, mask |-> mask, all |-> t = "recv"]
<1>0. /\ FlagOf("recv") # FlagOf("test") /\ w = WaitOf(t)
      /\ \A u \in Both : WaitOf(u).mask = {FlagOf(u)} /\ WaitOf(u).thread = u
  BY DEF FlagOf, WaitOf, Both
<1>1. Bd!Waits(x) \subseteq {WaitOf("recv"), WaitOf("test")} /\ Bd!Tidy(x)
  BY DEF Good
<1>2. WaitOf(t) \notin Bd!Waits(x) /\ ~Bd!Suspended(x, t)
  BY SuspendedIs, SameSuspended
<1>3. Len(x.wait) <= 1
  BY <1>1, <1>2, Bd!RoomForOne DEF Both
<1>4. Bd!Satisfied(x.set, mask, t = "recv") <=> FlagOf(t) \in x.set
  BY DEF Bd!Satisfied
<1>5. /\ Bd!Tidy(r)
      /\ FlagOf(t) \in x.set => /\ r.set = x.set \ mask /\ Bd!Waits(r) = Bd!Waits(x)
                               /\ r.got[t] = mask \cap x.set
      /\ FlagOf(t) \notin x.set =>
           /\ r.set = x.set /\ Bd!Waits(r) = Bd!Waits(x) \cup {w}
           /\ r.got[t] = {}
      /\ \A u \in Both : u # t => r.got[u] = x.got[u]
  <2>1. mask \in SUBSET Flag
    BY DEF Flag, FlagOf
  <2>2. \A v \in Bd!Waits(x) : v.mask \cap mask = {}
    BY <1>0, <1>1, <1>2 DEF Both
  <2>3. (t = "recv") \in BOOLEAN
    OBVIOUS
  <2>4. Bd!Asked(x, t, mask, t = "recv", r)
    <3> HIDE DEF mask
    <3> QED
      BY <1>1, <1>2, <1>3, <2>1, <2>2, <2>3, Bd!RecvServes
  <2> HIDE DEF r, mask
  <2> QED
    BY <1>4, <2>4 DEF Bd!Asked
<1>6. \A u \in Both : Bd!Suspended(r, u) <=> \E v \in Bd!Waits(r) : v.thread = u
  BY DEF Bd!Suspended, Bd!Waits
<1> HIDE DEF r
<1>7. \A u \in Both : Bd!Suspended(r, u) <=>
                        IF u = t THEN FlagOf(t) \notin x.set ELSE Ev!Suspended(x, u)
  BY <1>0, <1>1, <1>2, <1>5, <1>6, SuspendedIs DEF Both
<1>8. \A u \in Both : FlagOf(u) \in r.set <=> u # t /\ FlagOf(u) \in x.set
  BY <1>0, <1>5 DEF Both
<1>9. Good(r)
  <2>1. \A u \in Both : Ev!Suspended(x, u) => x.got[u] = {} /\ FlagOf(u) \notin x.set
    BY DEF Good
  <2> QED
    BY <1>0, <1>1, <1>5, <1>7, <1>8, <2>1, SameSuspended DEF Good, Both
<1> QED
  BY <1>5, <1>7, <1>8, <1>9, SameSuspended, SameRecv DEF Becomes, r

LEMMA TimesOut ==
  ASSUME NEW x, Good(x), Ev!Suspended(x, "test")
  PROVE  Becomes(x, Ev!rt_thread_timeout(x, "test"), "test", FALSE, FALSE, {})
<1> DEFINE r == Bd!rt_thread_timeout(x, "test")
<1>1. /\ Bd!Waits(x) \subseteq {WaitOf("recv"), WaitOf("test")} /\ Bd!Tidy(x)
      /\ \A u \in Both : Ev!Suspended(x, u) => x.got[u] = {} /\ FlagOf(u) \notin x.set
  BY DEF Good
<1>2. /\ Bd!Tidy(r) /\ r.set = x.set /\ r.got = x.got
      /\ Bd!Waits(r) = {w \in Bd!Waits(x) : w.thread # "test"}
  BY <1>1, SameSuspended, Bd!TimeoutServes DEF Both
<1>3. \A u \in Both : Bd!Suspended(r, u) <=> \E v \in Bd!Waits(r) : v.thread = u
  BY DEF Bd!Suspended, Bd!Waits
<1>4. \A u \in Both : WaitOf(u).thread = u
  BY DEF WaitOf
<1> HIDE DEF r
<1>5. \A u \in Both : Bd!Suspended(r, u) <=> u # "test" /\ Ev!Suspended(x, u)
  BY <1>1, <1>2, <1>3, <1>4, SuspendedIs DEF Both
<1>6. Good(r)
  BY <1>1, <1>2, <1>5, SameSuspended DEF Good, Both
<1> QED
  BY <1>1, <1>2, <1>5, <1>6, SameSuspended, SameTimeout DEF Becomes, Both, r

-----------------------------------------------------------------------------
(* The radio of a station *)

LEMMA RadioSame ==
  /\ Rf!Chip = Bd!Chip /\ Rf!FreshChip = Bd!FreshChip
  /\ \A c, p : Rf!StartTx(c, p) = Bd!StartTx(c, p) /\ Rf!Receive(c, p) = Bd!Receive(c, p)
  /\ \A c, f : Rf!WriteStatus(c, f) = Bd!WriteStatus(c, f)
  /\ \A c : /\ Rf!EndTx(c) = Bd!EndTx(c) /\ Rf!FlushRx(c) = Bd!FlushRx(c)
            /\ Rf!Sent(c) = Bd!Sent(c)
BY DEF Rf!Chip, Bd!Chip, Rf!FreshChip, Bd!FreshChip, Rf!StartTx, Bd!StartTx,
       Rf!Receive, Bd!Receive, Rf!WriteStatus, Bd!WriteStatus, Rf!EndTx, Bd!EndTx,
       Rf!FlushRx, Bd!FlushRx, Rf!Sent, Bd!Sent

-----------------------------------------------------------------------------
(* What the parts of an action do *)

Parts ==
  /\ event \in [Station -> Ev!Event] /\ radio \in [Station -> Rf!Chip]
  /\ buf_recv \in [Station -> Packet]
  /\ sta \in [Station -> SUBSET {"RX_DR", "TX_DS"}]
  /\ pc \in [Station -> [Both -> Places]]
  /\ cur \in [Station -> {"test", "recv", "none"}]
  /\ \A s \in Station : Len(radio[s].fifo) <= 1

Counts ==
  /\ call \in 0 .. MaxCalls /\ races \in 0 .. MaxRaces /\ heard \subseteq 1 .. call
  /\ acked \in 0 .. call /\ answers \in 0 .. MaxCalls
  /\ {lucky, spun, smooth, e, wait_ack} \subseteq BOOLEAN
  /\ ret \in {"none", "0", "-1"} /\ num_send \in 0 .. Resends + 1

LEMMA ListLength ==
  Shape => \A s \in Station : Len(event[s].wait) <= Cardinality(Thread(s))
<1> SUFFICES ASSUME Shape, NEW s \in Station
             PROVE  Len(event[s].wait) <= Cardinality(Thread(s))
  OBVIOUS
<1>1. Good(event[s]) /\ Bd!Tidy(event[s])
  BY DEF Shape, ShapeAt, Good
<1>2. CASE s = Sender
  <2>1. Cardinality({"test", "recv"}) = 2
    <3>1. {"test", "recv"} = {"test"} \cup {"recv"} /\ "recv" \notin {"test"}
      OBVIOUS
    <3>2. IsFiniteSet({"test"}) /\ Cardinality({"test"}) = 1
      BY FS_Singleton
    <3> QED
      BY <3>1, <3>2, FS_AddElement
  <2> QED
    BY <1>1, <1>2, <2>1 DEF Thread, Bd!Tidy
<1>3. CASE s = Peer
  <2>1. ~Bd!Suspended(event[s], "test")
    BY <1>3, SameSuspended DEF Shape, ShapeAt, ShapeTest, Both, Sender, Peer, Station
  <2>2. Len(event[s].wait) <= 1
    BY <1>1, <2>1, Bd!RoomForOne DEF Both
  <2>3. Cardinality({"recv"}) = 1
    BY FS_Singleton
  <2> QED
    BY <1>3, <2>2, <2>3 DEF Thread, Sender, Peer
<1> QED
  BY <1>2, <1>3 DEF Station

Moved(s, t, place) ==
  /\ pc' \in [Station -> [Both -> Places]]
  /\ cur' \in [Station -> {"test", "recv", "none"}]
  /\ pc'[s][t] = place
  /\ \A u \in Both \ {t} : pc'[s][u] = pc[s][u]
  /\ \A o \in Station \ {s} : pc'[o] = pc[o]

LEMMA GoesDoes ==
  ASSUME Parts, NEW s \in Station, NEW t \in Both, NEW place \in Places,
         Goes(s, t, place)
  PROVE  Moved(s, t, place)
BY DEF Parts, Goes, Both, Moved

\* The event of s was made x, and t has asked for its flag.
Asks(s, t, x) ==
  /\ event' \in [Station -> Ev!Event]
  /\ Becomes(x, event'[s], t, FlagOf(t) \notin x.set, FALSE,
             IF FlagOf(t) \in x.set THEN {FlagOf(t)} ELSE {})
  /\ \A o \in Station \ {s} : event'[o] = event[o]

LEMMA AwaitsDoes ==
  ASSUME Parts, NEW s \in Station, NEW t \in Both, NEW x, Good(x),
         ~Ev!Suspended(x, t), Awaits(s, t, x)
  PROVE  Asks(s, t, x) /\ Moved(s, t, "got")
<1> DEFINE r == Ev!rt_event_recv(x, t, {FlagOf(t)}, t = "recv")
<1>1. event' = [event EXCEPT ![s] = r]
  BY DEF Awaits, FlagOf, Both
<1>2. Becomes(x, r, t, FlagOf(t) \notin x.set, FALSE,
              IF FlagOf(t) \in x.set THEN {FlagOf(t)} ELSE {})
  BY Receives
<1> HIDE DEF r
<1>3. r \in Ev!Event
  BY <1>2, SameEvent DEF Becomes, Good, Bd!Tidy
<1>4. /\ event' \in [Station -> Ev!Event] /\ event'[s] = r
      /\ \A o \in Station \ {s} : event'[o] = event[o]
  BY <1>1, <1>3 DEF Parts
<1>5. Moved(s, t, "got")
  BY DEF Parts, Awaits, Both, Places, Moved
<1> QED
  BY <1>2, <1>4, <1>5 DEF Asks

LEMMA RadioDoes ==
  ASSUME Parts, NEW s \in Station, NEW r \in Rf!Chip,
         radio' = [radio EXCEPT ![s] = r]
  PROVE  /\ radio' \in [Station -> Rf!Chip] /\ radio'[s] = r
         /\ \A o \in Station \ {s} : radio'[o] = radio[o]
BY DEF Parts

Inv == Counts /\ Parts /\ Shape

LEMMA CallsAppended ==
  ASSUME NEW q \in Seq(Packet), NEW p \in Packet, NEW n,
         \A i \in 1 .. Len(q) : q[i].call <= n, p.call <= n
  PROVE  \A i \in 1 .. Len(Append(q, p)) : Append(q, p)[i].call <= n
<1> DEFINE r == Append(q, p)
<1>1. /\ Len(r) = Len(q) + 1 /\ r[Len(q) + 1] = p /\ Len(q) \in Nat
      /\ \A i \in 1 .. Len(q) : r[i] = q[i]
  OBVIOUS
<1> HIDE DEF r
<1>2. \A i \in 1 .. Len(r) : i \in 1 .. Len(q) \/ i = Len(q) + 1
  BY <1>1
<1>3. \A i \in 1 .. Len(r) : r[i].call <= n
  BY <1>1, <1>2
<1> QED
  BY <1>3 DEF r

LEMMA TxStartDoes ==
  ASSUME Inv, NEW s \in Station, NEW t \in Both, TxStart(s, t)
  PROVE  /\ radio' \in [Station -> Rf!Chip] /\ Data(s, t) \in Packet
         /\ radio'[s].mode = "tx" /\ radio'[s].fifo = radio[s].fifo
         /\ radio'[s].out = Append(radio[s].out, Data(s, t))
         /\ radio'[s].flags = radio[s].flags
         /\ \A o \in Station \ {s} : radio'[o] = radio[o]
<1> DEFINE r == Rf!StartTx(radio[s], Data(s, t))
<1>1. radio[s] \in Bd!Chip
  BY RadioSame DEF Inv, Parts
<1>2. Data(s, t) \in Packet
  BY NonLinkAssumption DEF Inv, Counts, Data, Packet, Other, Station, Sender, Peer
<1>3. /\ r \in Rf!Chip /\ r.mode = "tx" /\ r.fifo = radio[s].fifo
      /\ r.out = Append(radio[s].out, Data(s, t)) /\ r.flags = radio[s].flags
  BY <1>1, <1>2, RadioSame, Bd!StartTxIs
<1> HIDE DEF r
<1>4. radio' = [radio EXCEPT ![s] = r]
  BY DEF TxStart, r
<1>5. /\ radio' \in [Station -> Rf!Chip] /\ radio'[s] = r
      /\ \A o \in Station \ {s} : radio'[o] = radio[o]
  BY <1>3, <1>4, RadioDoes DEF Inv
<1> QED
  BY <1>2, <1>3, <1>5

LEMMA TxStartInv ==
  ASSUME Inv, NEW s \in Station, NEW t \in Both, TxStart(s, t)
  PROVE  Inv'
<1>1. /\ pc[s][t] = "send" /\ Goes(s, t, "spin") /\ t \in Thread(s)
      /\ UNCHANGED << call, acked, lucky, ret, e, num_send, wait_ack, heard, answers,
                      smooth, races, spun, event, buf_recv, sta >>
  BY DEF TxStart, Runs, Ready, NonSend, Air, Races
<1>2. /\ radio' \in [Station -> Rf!Chip] /\ Data(s, t) \in Packet
      /\ radio'[s].mode = "tx" /\ radio'[s].fifo = radio[s].fifo
      /\ radio'[s].out = Append(radio[s].out, Data(s, t))
      /\ radio'[s].flags = radio[s].flags
      /\ \A o \in Station \ {s} : radio'[o] = radio[o]
  BY TxStartDoes
<1>3. Moved(s, t, "spin")
  BY <1>1, GoesDoes DEF Inv, Places
<1>4. Counts'
  BY <1>1 DEF Inv, Counts
<1>5. Parts'
  BY <1>1, <1>2, <1>3 DEF Inv, Parts, Moved
<1>6. \A o \in Station : ShapeAt(o)'
  <2> SUFFICES ASSUME NEW o \in Station
               PROVE  ShapeAt(o)'
    OBVIOUS
  <2>1. ShapeAt(o)
    BY DEF Inv, Shape
  <2>2. \A i \in 1 .. Len(radio'[o].out) : radio'[o].out[i].call <= call
    <3>1. CASE o # s
      BY <1>2, <2>1, <3>1 DEF ShapeAt
    <3>2. CASE o = s
      <4>1. radio[s].out \in Seq(Packet)
        BY RadioSame, Bd!ChipHas DEF Inv, Parts
      <4>2. Data(s, t).call <= call
        BY DEF Data, Inv, Counts
      <4>3. \A i \in 1 .. Len(radio[s].out) : radio[s].out[i].call <= call
        BY <2>1, <3>2 DEF ShapeAt
      <4> QED
        BY <1>2, <3>2, <4>1, <4>2, <4>3, CallsAppended
    <3> QED
      BY <3>1, <3>2
  <2> QED
    BY <1>1, <1>3, <2>1, <2>2 DEF ShapeAt, Both, Moved
<1>7. ShapeTest'
  BY <1>1, <1>3 DEF Inv, Shape, ShapeTest, Both, Station, Thread, Sender, Peer, Moved
<1> QED
  BY <1>4, <1>5, <1>6, <1>7 DEF Inv, Shape

LEMMA TxEndDoes ==
  ASSUME Inv, NEW s \in Station, NEW t \in Both, TxEnd(s, t)
  PROVE  /\ radio' \in [Station -> Rf!Chip]
         /\ radio'[s].mode = "rx" /\ radio'[s].fifo = radio[s].fifo
         /\ radio'[s].out = << >> /\ radio'[s].flags \subseteq radio[s].flags
         /\ \A o \in Station \ {s} : radio'[o] = radio[o]
         /\ Asks(s, t, event[s]) /\ Moved(s, t, "got")
<1>1. radio[s] \in Bd!Chip
  BY RadioSame DEF Inv, Parts
<1>2. PICK r \in Rf!EndTx(radio[s]) : radio' = [radio EXCEPT ![s] = r]
  BY DEF TxEnd
<1>3. /\ r \in Rf!Chip /\ r.mode = "rx" /\ r.fifo = radio[s].fifo
      /\ r.out = << >> /\ r.flags \subseteq radio[s].flags
  BY <1>1, <1>2, RadioSame, Bd!EndTxIs
<1>4. /\ radio' \in [Station -> Rf!Chip] /\ radio'[s] = r
      /\ \A o \in Station \ {s} : radio'[o] = radio[o]
  BY <1>2, <1>3, RadioDoes DEF Inv
<1>5. ~Ev!Suspended(event[s], t) /\ Good(event[s])
  BY DEF TxEnd, Runs, Inv, Shape, ShapeAt
<1>6. Awaits(s, t, event[s])
  BY DEF TxEnd
<1>7. Asks(s, t, event[s]) /\ Moved(s, t, "got")
  BY <1>5, <1>6, AwaitsDoes DEF Inv
<1> QED
  BY <1>3, <1>4, <1>7

\* Whoever asks for its flag is where it may wait for it.
LEMMA AsksShape ==
  ASSUME NEW s \in Station, NEW t \in Both, NEW x,
         \A u \in Both \ {t} : Ev!Suspended(x, u) => pc[s][u] = "got",
         Asks(s, t, x), Moved(s, t, "got")
  PROVE  /\ Good(event'[s])
         /\ \A u \in Both : Ev!Suspended(event'[s], u) => pc'[s][u] = "got"
BY DEF Asks, Moved, Becomes

LEMMA TxEndInv ==
  ASSUME Inv, NEW s \in Station, NEW t \in Both, TxEnd(s, t)
  PROVE  Inv'
<1>1. /\ pc[s][t] = "spin" /\ t \in Thread(s)
      /\ UNCHANGED << call, acked, lucky, ret, e, num_send, wait_ack, heard, answers,
                      smooth, races, spun, buf_recv, sta >>
  BY DEF TxEnd, Runs, Ready, NonSend, Air, Races
<1>2. /\ radio' \in [Station -> Rf!Chip] /\ radio'[s].fifo = radio[s].fifo
      /\ radio'[s].out = << >>
      /\ \A o \in Station \ {s} : radio'[o] = radio[o]
      /\ Asks(s, t, event[s]) /\ Moved(s, t, "got")
  BY TxEndDoes
<1>3. Counts'
  BY <1>1 DEF Inv, Counts
<1>4. Parts'
  BY <1>1, <1>2 DEF Inv, Parts, Asks, Moved
<1>5. \A o \in Station : ShapeAt(o)'
  <2> SUFFICES ASSUME NEW o \in Station
               PROVE  ShapeAt(o)'
    OBVIOUS
  <2>1. ShapeAt(o)
    BY DEF Inv, Shape
  <2>2. CASE o # s
    BY <1>1, <1>2, <2>1, <2>2 DEF ShapeAt, Asks, Moved
  <2>3. CASE o = s
    <3>1. /\ Good(event'[s])
          /\ \A u \in Both : Ev!Suspended(event'[s], u) => pc'[s][u] = "got"
      BY <1>2, <2>1, <2>3, AsksShape DEF ShapeAt
    <3>2. \A i \in 1 .. Len(radio'[s].out) : radio'[s].out[i].call <= call'
      BY <1>2
    <3>3. pc'[s]["recv"] \in {"got", "clear", "flush", "send", "spin"}
      BY <1>2, <2>1, <2>3 DEF ShapeAt, Both, Moved
    <3>4. pc'[s]["recv"] # "clear" => sta'[s] = {}
      BY <1>1, <1>2, <2>1, <2>3 DEF ShapeAt, Both, Moved
    <3> QED
      BY <2>3, <3>1, <3>2, <3>3, <3>4 DEF ShapeAt
  <2> QED
    BY <2>2, <2>3
<1>6. ShapeTest'
  BY <1>1, <1>2 DEF Inv, Shape, ShapeTest, Both, Station, Thread, Sender, Peer, Moved
<1> QED
  BY <1>3, <1>4, <1>5, <1>6 DEF Inv, Shape

LEMMA BeginInv == ASSUME Inv, Begin PROVE Inv'
<1>1. /\ pc[Sender]["test"] = "idle" /\ Goes(Sender, "test", "send")
      /\ call < MaxCalls /\ call' = call + 1
      /\ e' \in BOOLEAN /\ lucky' \in BOOLEAN /\ smooth' \in BOOLEAN
      /\ num_send' = 0 /\ wait_ack' = TRUE /\ ret' = "none"
      /\ UNCHANGED << heard, acked, answers, races, spun, event, radio, buf_recv, sta >>
  BY DEF Begin, Runs, Races, Inv, Counts
<1>2. Moved(Sender, "test", "send")
  BY <1>1, GoesDoes DEF Inv, Places, Both, Station
<1>3. Counts' /\ acked' < call' /\ num_send' <= Resends
  BY <1>1, NonLinkAssumption DEF Inv, Counts
<1>4. Parts'
  BY <1>1, <1>2 DEF Inv, Parts, Moved
<1>5. \A o \in Station : ShapeAt(o)'
  <2> SUFFICES ASSUME NEW o \in Station
               PROVE  ShapeAt(o)'
    OBVIOUS
  <2>1. ShapeAt(o)
    BY DEF Inv, Shape
  <2>2. pc'[o]["recv"] = pc[o]["recv"] /\ \A u \in Both : pc[o][u] = "got" => pc'[o][u] = "got"
    BY <1>1, <1>2 DEF Both, Moved
  <2>3. \A i \in 1 .. Len(radio'[o].out) : radio'[o].out[i].call <= call'
    <3>1. radio[o].out \in Seq(Packet)
      BY RadioSame, Bd!ChipHas DEF Inv, Parts
    <3>2. \A i \in 1 .. Len(radio[o].out) : radio[o].out[i].call \in Nat
      <4>1. \A i \in 1 .. Len(radio[o].out) : radio[o].out[i] \in Packet
        BY <3>1
      <4>2. \A p \in Packet : p.call \in Nat
        BY NonLinkAssumption DEF Packet
      <4> QED
        BY <4>1, <4>2
    <3> QED
      BY <1>1, <2>1, <3>2 DEF ShapeAt, Inv, Counts
  <2> QED
    BY <1>1, <2>1, <2>2, <2>3 DEF ShapeAt
<1>6. ShapeTest'
  BY <1>1, <1>2, <1>3 DEF Inv, Shape, ShapeTest, Both, Station, Sender, Peer, Moved
<1> QED
  BY <1>3, <1>4, <1>5, <1>6 DEF Inv, Shape

LEMMA TimedOutDoes ==
  ASSUME Inv, TimedOut
  PROVE  /\ event' \in [Station -> Ev!Event]
         /\ Becomes(event[Sender], event'[Sender], "test", FALSE, FALSE, {})
         /\ \A o \in Station \ {Sender} : event'[o] = event[o]
<1> DEFINE r == Ev!rt_thread_timeout(event[Sender], "test")
<1>1. Becomes(event[Sender], r, "test", FALSE, FALSE, {})
  <2>1. Ev!Suspended(event[Sender], "test") /\ Good(event[Sender])
    BY DEF TimedOut, Inv, Shape, ShapeAt, Station
  <2> QED
    BY <2>1, TimesOut
<1>2. event' = [event EXCEPT ![Sender] = r]
  BY DEF TimedOut
<1> HIDE DEF r
<1>3. r \in Ev!Event
  BY <1>1, SameEvent DEF Becomes, Good, Bd!Tidy
<1> QED
  BY <1>1, <1>2, <1>3 DEF Inv, Parts, Station

LEMMA TimedOutInv == ASSUME Inv, TimedOut PROVE Inv'
<1>1. /\ UNCHANGED << call, acked, lucky, ret, e, num_send, wait_ack, heard, answers,
                      spun, radio, buf_recv, sta, pc, cur >>
      /\ smooth' \in BOOLEAN /\ races' \in 0 .. MaxRaces
  BY NonLinkAssumption DEF TimedOut, NonSend, Race, Inv, Counts
<1>2. Counts' /\ Parts'
  BY <1>1, TimedOutDoes DEF Inv, Counts, Parts
<1>3. \A o \in Station : ShapeAt(o)'
  <2> SUFFICES ASSUME NEW o \in Station
               PROVE  ShapeAt(o)'
    OBVIOUS
  <2>1. ShapeAt(o)
    BY DEF Inv, Shape
  <2>2. Good(event'[o]) /\ \A u \in Both : Ev!Suspended(event'[o], u) => Ev!Suspended(event[o], u)
    BY <2>1, TimedOutDoes DEF ShapeAt, Becomes, Both
  <2> QED
    BY <1>1, <2>1, <2>2 DEF ShapeAt
<1>4. ShapeTest'
  BY <1>1 DEF Inv, Shape, ShapeTest
<1> QED
  BY <1>2, <1>3, <1>4 DEF Inv, Shape

\* Nothing but where thread_test is, and it did not wait.
LEMMA TestMoves ==
  ASSUME Inv, NEW place \in Places, Moved(Sender, "test", place),
         UNCHANGED << call, event, radio, buf_recv, sta >>,
         ~Ev!Suspended(event[Sender], "test")
  PROVE  Parts' /\ \A o \in Station : ShapeAt(o)'
<1>1. Parts'
  BY DEF Inv, Parts, Moved
<1>2. ASSUME NEW o \in Station
      PROVE  ShapeAt(o)'
  <2>1. ShapeAt(o)
    BY DEF Inv, Shape
  <2>2. /\ pc'[o]["recv"] = pc[o]["recv"]
        /\ \A u \in Both : Ev!Suspended(event'[o], u) => pc'[o][u] = "got"
    BY <2>1 DEF ShapeAt, Moved, Both
  <2> QED
    BY <2>1, <2>2 DEF ShapeAt
<1> QED
  BY <1>1, <1>2

LEMMA SucceedsInv == ASSUME Inv, Succeeds PROVE Inv'
<1>1. /\ pc[Sender]["test"] = "got" /\ Goes(Sender, "test", "idle")
      /\ ~Ev!Suspended(event[Sender], "test")
      /\ e' = FALSE /\ wait_ack' = FALSE /\ ret' = "0" /\ acked' = acked + 1
      /\ UNCHANGED << heard, answers, smooth, call, lucky, num_send, races, spun,
                      event, radio, buf_recv, sta >>
  BY DEF Succeeds, Runs, Ready, Air, Races
<1>2. Moved(Sender, "test", "idle")
  BY <1>1, GoesDoes DEF Inv, Places, Both, Station
<1>3. Parts' /\ \A o \in Station : ShapeAt(o)'
  BY <1>1, <1>2, TestMoves DEF Places
<1>4. acked < call /\ num_send <= Resends
  BY <1>1 DEF Inv, Shape, ShapeTest
<1>5. Counts'
  <2>1. acked' \in 0 .. call'
    BY <1>1, <1>4, NonLinkAssumption DEF Inv, Counts
  <2> QED
    BY <1>1, <2>1 DEF Inv, Counts
<1>6. ShapeTest'
  BY <1>1, <1>2 DEF Inv, Shape, ShapeTest, Moved, Station, Sender, Peer
<1> QED
  BY <1>3, <1>5, <1>6 DEF Inv, Shape

LEMMA RetriesInv == ASSUME Inv, Retries PROVE Inv'
<1>1. /\ pc[Sender]["test"] = "got" /\ Goes(Sender, "test", "send")
      /\ ~Ev!Suspended(event[Sender], "test")
      /\ num_send < Resends /\ num_send' = num_send + 1
      /\ UNCHANGED << heard, answers, smooth, call, acked, lucky, ret, e, wait_ack,
                      races, spun, event, radio, buf_recv, sta >>
  BY DEF Retries, Runs, Ready, Air, Races
<1>2. Moved(Sender, "test", "send")
  BY <1>1, GoesDoes DEF Inv, Places, Both, Station
<1>3. Parts' /\ \A o \in Station : ShapeAt(o)'
  BY <1>1, <1>2, TestMoves DEF Places
<1>4. acked < call
  BY <1>1 DEF Inv, Shape, ShapeTest
<1>5. Counts' /\ num_send' <= Resends
  BY <1>1, <1>4, NonLinkAssumption DEF Inv, Counts
<1>6. ShapeTest'
  BY <1>1, <1>2, <1>4, <1>5 DEF Inv, Shape, ShapeTest, Moved, Station, Sender, Peer
<1> QED
  BY <1>3, <1>5, <1>6 DEF Inv, Shape

LEMMA GivesUpInv == ASSUME Inv, GivesUp PROVE Inv'
<1>1. /\ pc[Sender]["test"] = "got" /\ Goes(Sender, "test", "idle")
      /\ ~Ev!Suspended(event[Sender], "test")
      /\ num_send' = num_send + 1 /\ ret' = "-1"
      /\ UNCHANGED << heard, answers, smooth, call, acked, lucky, e, wait_ack,
                      races, spun, event, radio, buf_recv, sta >>
  BY DEF GivesUp, Runs, Ready, Air, Races
<1>2. Moved(Sender, "test", "idle")
  BY <1>1, GoesDoes DEF Inv, Places, Both, Station
<1>3. Parts' /\ \A o \in Station : ShapeAt(o)'
  BY <1>1, <1>2, TestMoves DEF Places
<1>4. num_send <= Resends
  BY <1>1 DEF Inv, Shape, ShapeTest
<1>5. Counts'
  BY <1>1, <1>4, NonLinkAssumption DEF Inv, Counts
<1>6. ShapeTest'
  BY <1>1, <1>2 DEF Inv, Shape, ShapeTest, Moved, Station, Sender, Peer
<1> QED
  BY <1>3, <1>5, <1>6 DEF Inv, Shape

LEMMA PreemptInv ==
  ASSUME Inv, NEW s \in Station, NEW t \in Both, Preempt(s, t)
  PROVE  Inv'
<1>1. /\ cur' = [cur EXCEPT ![s] = t] /\ smooth' = FALSE
      /\ races' \in 0 .. MaxRaces /\ spun' \in BOOLEAN
      /\ UNCHANGED << call, heard, acked, answers, lucky, ret, e, num_send, wait_ack,
                      event, radio, buf_recv, sta, pc >>
  <2>1. Spinning(s) \in BOOLEAN
    BY DEF Spinning
  <2> QED
    BY <2>1, NonLinkAssumption DEF Preempt, Race, Inv, Counts
<1>2. Counts' /\ Parts'
  BY <1>1 DEF Inv, Counts, Parts, Both
<1>3. Shape'
  BY <1>1 DEF Inv, Shape, ShapeAt, ShapeTest
<1> QED
  BY <1>2, <1>3 DEF Inv

LEMMA RxStatusInv ==
  ASSUME Inv, NEW s \in Station, RxStatus(s)
  PROVE  Inv'
<1>1. /\ pc[s]["recv"] = "got" /\ ~Ev!Suspended(event[s], "recv")
      /\ Goes(s, "recv", "clear") /\ sta' = [sta EXCEPT ![s] = radio[s].flags]
      /\ UNCHANGED << call, acked, lucky, ret, e, num_send, wait_ack, heard, answers,
                      smooth, races, spun, event, radio, buf_recv >>
  BY DEF RxStatus, Runs, Ready, NonSend, Air, Races
<1>2. Moved(s, "recv", "clear")
  BY <1>1, GoesDoes DEF Inv, Places, Both
<1>3. radio[s].flags \in SUBSET {"RX_DR", "TX_DS"}
  BY RadioSame, Bd!ChipHas DEF Inv, Parts
<1>4. Counts' /\ Parts'
  BY <1>1, <1>2, <1>3 DEF Inv, Counts, Parts, Moved
<1>5. \A o \in Station : ShapeAt(o)'
  <2> SUFFICES ASSUME NEW o \in Station
               PROVE  ShapeAt(o)'
    OBVIOUS
  <2>1. ShapeAt(o)
    BY DEF Inv, Shape
  <2>2. CASE o # s
    <3>1. sta'[o] = sta[o]
      BY <1>1, <2>2 DEF Inv, Parts
    <3> QED
      BY <1>1, <1>2, <2>1, <2>2, <3>1 DEF ShapeAt, Moved
  <2>3. CASE o = s
    BY <1>1, <1>2, <2>1, <2>3 DEF ShapeAt, Moved, Both
  <2> QED
    BY <2>2, <2>3
<1>6. ShapeTest'
  BY <1>1, <1>2 DEF Inv, Shape, ShapeTest, Moved, Both, Station, Sender, Peer
<1> QED
  BY <1>4, <1>5, <1>6 DEF Inv, Shape

LEMMA RxReadDoes ==
  ASSUME Inv, NEW s \in Station, RxRead(s)
  PROVE  /\ pc[s]["recv"] = "clear"
         /\ UNCHANGED << call, acked, lucky, ret, e, num_send, wait_ack, heard, answers,
                         smooth, races, spun >>
         /\ radio' \in [Station -> Rf!Chip]
         /\ radio'[s].mode = radio[s].mode /\ radio'[s].fifo = radio[s].fifo
         /\ radio'[s].out = radio[s].out /\ radio'[s].flags = radio[s].flags \ sta[s]
         /\ \A o \in Station \ {s} : radio'[o] = radio[o]
         /\ sta' = [sta EXCEPT ![s] = {}]
         /\ \/ /\ "RX_DR" \in sta[s] /\ event' = event /\ Moved(s, "recv", "flush")
               /\ buf_recv' \in [Station -> Packet]
               /\ \A o \in Station \ {s} : buf_recv'[o] = buf_recv[o]
               /\ radio[s].fifo # << >> => buf_recv'[s] = radio[s].fifo[1]
            \/ /\ "RX_DR" \notin sta[s] /\ buf_recv' = buf_recv
               /\ Asks(s, "recv", event[s]) /\ Moved(s, "recv", "got")
<1>1. /\ pc[s]["recv"] = "clear" /\ sta' = [sta EXCEPT ![s] = {}]
      /\ UNCHANGED << call, acked, lucky, ret, e, num_send, wait_ack, heard, answers,
                      smooth, races, spun >>
  BY DEF RxRead, Runs, NonSend, Air, Races
<1>2. radio[s] \in Bd!Chip
  BY RadioSame DEF Inv, Parts
<1>3. /\ radio' \in [Station -> Rf!Chip]
      /\ radio'[s].mode = radio[s].mode /\ radio'[s].fifo = radio[s].fifo
      /\ radio'[s].out = radio[s].out /\ radio'[s].flags = radio[s].flags \ sta[s]
      /\ \A o \in Station \ {s} : radio'[o] = radio[o]
  <2> DEFINE r == Rf!WriteStatus(radio[s], sta[s])
  <2>1. /\ r \in Rf!Chip /\ r.mode = radio[s].mode /\ r.fifo = radio[s].fifo
        /\ r.out = radio[s].out /\ r.flags = radio[s].flags \ sta[s]
    BY <1>2, RadioSame, Bd!WriteStatusIs
  <2>2. radio' = [radio EXCEPT ![s] = r]
    BY DEF RxRead
  <2> HIDE DEF r
  <2> QED
    BY <2>1, <2>2, RadioDoes DEF Inv
<1>4. CASE "RX_DR" \in sta[s]
  <2>1. PICK p \in Rf!ReadPayload(radio[s], buf_recv[s], buf_recv[s]) :
          buf_recv' = [buf_recv EXCEPT ![s] = p]
    BY <1>4 DEF RxRead, Rf!RX_OK
  <2>2. p \in Packet /\ (radio[s].fifo # << >> => p = radio[s].fifo[1])
    <3>1. buf_recv[s] \in Packet /\ radio[s].fifo \in Seq(Packet)
      BY <1>2, Bd!ChipHas DEF Inv, Parts
    <3>2. CASE radio[s].fifo = << >>
      BY <2>1, <3>1, <3>2 DEF Rf!ReadPayload
    <3>3. CASE radio[s].fifo # << >>
      <4>1. p = Head(radio[s].fifo)
        BY <2>1, <3>3 DEF Rf!ReadPayload
      <4> QED
        BY <3>1, <3>3, <4>1
    <3> QED
      BY <3>2, <3>3
  <2>3. /\ buf_recv' \in [Station -> Packet] /\ buf_recv'[s] = p
        /\ \A o \in Station \ {s} : buf_recv'[o] = buf_recv[o]
    BY <2>1, <2>2 DEF Inv, Parts
  <2>4. Goes(s, "recv", "flush") /\ event' = event
    BY <1>4 DEF RxRead, Rf!RX_OK
  <2>5. Moved(s, "recv", "flush")
    BY <2>4, GoesDoes DEF Inv, Places, Both
  <2> QED
    BY <1>1, <1>3, <1>4, <2>2, <2>3, <2>4, <2>5
<1>5. CASE "RX_DR" \notin sta[s]
  <2>1. Awaits(s, "recv", event[s]) /\ buf_recv' = buf_recv
    BY <1>5 DEF RxRead, Rf!RX_OK
  <2>2. Good(event[s]) /\ ~Ev!Suspended(event[s], "recv")
    BY <1>1 DEF Inv, Shape, ShapeAt, Both
  <2>3. Asks(s, "recv", event[s]) /\ Moved(s, "recv", "got")
    BY <2>1, <2>2, AwaitsDoes DEF Inv, Both
  <2> QED
    BY <1>1, <1>3, <1>5, <2>1, <2>3
<1> QED
  BY <1>4, <1>5

LEMMA RxReadInv ==
  ASSUME Inv, NEW s \in Station, RxRead(s)
  PROVE  Inv'
<1>1. /\ pc[s]["recv"] = "clear"
      /\ UNCHANGED << call, acked, lucky, ret, e, num_send, wait_ack, heard, answers,
                      smooth, races, spun >>
      /\ radio' \in [Station -> Rf!Chip]
      /\ radio'[s].fifo = radio[s].fifo /\ radio'[s].out = radio[s].out
      /\ \A o \in Station \ {s} : radio'[o] = radio[o]
      /\ sta' = [sta EXCEPT ![s] = {}] /\ buf_recv' \in [Station -> Packet]
  BY RxReadDoes DEF Inv, Parts
<1>2. \/ event' = event /\ Moved(s, "recv", "flush")
      \/ Asks(s, "recv", event[s]) /\ Moved(s, "recv", "got")
  BY RxReadDoes
<1>3. Counts' /\ Parts'
  BY <1>1, <1>2 DEF Inv, Counts, Parts, Moved, Asks
<1>4. \A o \in Station : ShapeAt(o)'
  <2> SUFFICES ASSUME NEW o \in Station
               PROVE  ShapeAt(o)'
    OBVIOUS
  <2>1. ShapeAt(o)
    BY DEF Inv, Shape
  <2>2. CASE o # s
    <3>1. sta'[o] = sta[o] /\ radio'[o] = radio[o] /\ event'[o] = event[o] /\ pc'[o] = pc[o]
      BY <1>1, <1>2, <2>2 DEF Inv, Parts, Moved, Asks
    <3> QED
      BY <1>1, <2>1, <3>1 DEF ShapeAt
  <2>3. CASE o = s
    <3>1. /\ Good(event'[s])
          /\ \A u \in Both : Ev!Suspended(event'[s], u) => pc'[s][u] = "got"
      <4>1. CASE event' = event /\ Moved(s, "recv", "flush")
        BY <1>1, <2>1, <2>3, <4>1 DEF ShapeAt, Moved, Both
      <4>2. CASE Asks(s, "recv", event[s]) /\ Moved(s, "recv", "got")
        BY <2>1, <2>3, <4>2, AsksShape DEF ShapeAt, Both
      <4> QED
        BY <1>2, <4>1, <4>2
    <3>2. /\ pc'[s]["recv"] \in {"got", "clear", "flush", "send", "spin"}
          /\ sta'[s] = {}
      BY <1>1, <1>2 DEF Moved, Inv, Parts
    <3> QED
      BY <1>1, <2>1, <2>3, <3>1, <3>2 DEF ShapeAt
  <2> QED
    BY <2>2, <2>3
<1>5. ShapeTest'
  BY <1>1, <1>2 DEF Inv, Shape, ShapeTest, Moved, Both, Station, Sender, Peer
<1> QED
  BY <1>3, <1>4, <1>5 DEF Inv, Shape

LEMMA RxHandleDoes ==
  ASSUME Inv, NEW s \in Station, RxHandle(s)
  PROVE  /\ pc[s]["recv"] = "flush"
         /\ UNCHANGED << call, acked, lucky, ret, e, num_send, wait_ack, heard, answers,
                         smooth, races, spun, buf_recv, sta >>
         /\ radio' \in [Station -> Rf!Chip]
         /\ radio'[s].mode = radio[s].mode /\ radio'[s].fifo = << >>
         /\ radio'[s].out = radio[s].out /\ radio'[s].flags = radio[s].flags
         /\ \A o \in Station \ {s} : radio'[o] = radio[o]
         /\ \/ ~ForMe(s) /\ Asks(s, "recv", event[s]) /\ Moved(s, "recv", "got")
            \/ /\ ForMe(s) /\ Awaited(s) /\ Moved(s, "recv", "got")
               /\ \E x : /\ Becomes(event[s], x, "test", FALSE,
                                    ~Ev!Suspended(event[s], "test"),
                                    IF Ev!Suspended(event[s], "test") THEN {"EV_SEND_V"}
                                    ELSE event[s].got["test"])
                         /\ Asks(s, "recv", x)
            \/ ForMe(s) /\ ~Awaited(s) /\ Moved(s, "recv", "send") /\ event' = event
<1>1. /\ pc[s]["recv"] = "flush"
      /\ UNCHANGED << call, acked, lucky, ret, e, num_send, wait_ack, heard, answers,
                      smooth, races, spun, buf_recv, sta >>
  BY DEF RxHandle, Runs, NonSend, Air, Races
<1>2. radio[s] \in Bd!Chip
  BY RadioSame DEF Inv, Parts
<1>3. /\ radio' \in [Station -> Rf!Chip]
      /\ radio'[s].mode = radio[s].mode /\ radio'[s].fifo = << >>
      /\ radio'[s].out = radio[s].out /\ radio'[s].flags = radio[s].flags
      /\ \A o \in Station \ {s} : radio'[o] = radio[o]
  <2> DEFINE r == Rf!FlushRx(radio[s])
  <2>1. /\ r \in Rf!Chip /\ r.mode = radio[s].mode /\ r.fifo = << >>
        /\ r.out = radio[s].out /\ r.flags = radio[s].flags
    BY <1>2, RadioSame, Bd!FlushRxIs
  <2>2. radio' = [radio EXCEPT ![s] = r]
    BY DEF RxHandle
  <2> HIDE DEF r
  <2> QED
    BY <2>1, <2>2, RadioDoes DEF Inv
<1>4. Good(event[s]) /\ ~Ev!Suspended(event[s], "recv")
  BY <1>1 DEF Inv, Shape, ShapeAt, Both
<1>5. CASE ~ForMe(s) /\ Awaits(s, "recv", event[s])
  <2>1. Asks(s, "recv", event[s]) /\ Moved(s, "recv", "got")
    BY <1>4, <1>5, AwaitsDoes DEF Inv, Both
  <2> QED
    BY <1>1, <1>3, <1>5, <2>1
<1>6. CASE /\ ForMe(s) /\ Awaited(s)
           /\ Awaits(s, "recv", Ev!rt_event_send(event[s], {"EV_SEND_V"}))
  <2> DEFINE x == Ev!rt_event_send(event[s], {"EV_SEND_V"})
  <2>1. FlagOf("test") = "EV_SEND_V"
    BY DEF FlagOf
  <2>2. Becomes(event[s], x, "test", FALSE, ~Ev!Suspended(event[s], "test"),
                IF Ev!Suspended(event[s], "test") THEN {"EV_SEND_V"}
                ELSE event[s].got["test"])
    BY <1>4, <2>1, Sends DEF Both
  <2>3. Awaits(s, "recv", x)
    BY <1>6
  <2> HIDE DEF x
  <2>4. Good(x) /\ ~Ev!Suspended(x, "recv")
    BY <1>4, <2>2 DEF Becomes, Both
  <2>5. Asks(s, "recv", x) /\ Moved(s, "recv", "got")
    BY <2>3, <2>4, AwaitsDoes DEF Inv, Both
  <2> QED
    BY <1>1, <1>3, <1>6, <2>2, <2>5
<1>7. CASE ForMe(s) /\ ~Awaited(s) /\ Goes(s, "recv", "send") /\ event' = event
  <2>1. Moved(s, "recv", "send")
    BY <1>7, GoesDoes DEF Inv, Places, Both
  <2> QED
    BY <1>1, <1>3, <1>7, <2>1
<1> QED
  BY <1>5, <1>6, <1>7 DEF RxHandle

LEMMA RxHandleInv ==
  ASSUME Inv, NEW s \in Station, RxHandle(s)
  PROVE  Inv'
<1>1. /\ pc[s]["recv"] = "flush"
      /\ UNCHANGED << call, acked, lucky, ret, e, num_send, wait_ack, heard, answers,
                      smooth, races, spun, buf_recv, sta >>
      /\ radio' \in [Station -> Rf!Chip]
      /\ radio'[s].fifo = << >> /\ radio'[s].out = radio[s].out
      /\ \A o \in Station \ {s} : radio'[o] = radio[o]
  BY RxHandleDoes
<1>2. \/ Moved(s, "recv", "got") /\ \E x :
            /\ \A u \in Both : Ev!Suspended(x, u) => Ev!Suspended(event[s], u)
            /\ Asks(s, "recv", x)
      \/ Moved(s, "recv", "send") /\ event' = event
  <2>1. CASE Asks(s, "recv", event[s]) /\ Moved(s, "recv", "got")
    BY <2>1
  <2>2. ASSUME NEW x, Moved(s, "recv", "got"), Asks(s, "recv", x),
               Becomes(event[s], x, "test", FALSE, ~Ev!Suspended(event[s], "test"),
                       IF Ev!Suspended(event[s], "test") THEN {"EV_SEND_V"}
                       ELSE event[s].got["test"])
        PROVE  \A u \in Both : Ev!Suspended(x, u) => Ev!Suspended(event[s], u)
    BY <2>2 DEF Becomes
  <2> QED
    BY <2>1, <2>2, RxHandleDoes
<1>3. Counts'
  BY <1>1 DEF Inv, Counts
<1>4. Parts'
  <2>1. event' \in [Station -> Ev!Event]
    BY <1>2 DEF Inv, Parts, Asks
  <2>2. \A o \in Station : Len(radio'[o].fifo) <= 1
    <3>1. Len(radio'[s].fifo) <= 1
      BY <1>1
    <3> QED
      BY <1>1, <3>1 DEF Inv, Parts
  <2> QED
    BY <1>1, <1>2, <2>1, <2>2 DEF Inv, Parts, Moved
<1>5. \A o \in Station : ShapeAt(o)'
  <2> SUFFICES ASSUME NEW o \in Station
               PROVE  ShapeAt(o)'
    OBVIOUS
  <2>1. ShapeAt(o)
    BY DEF Inv, Shape
  <2>2. CASE o # s
    <3>1. radio'[o] = radio[o] /\ event'[o] = event[o] /\ pc'[o] = pc[o]
      BY <1>1, <1>2, <2>2 DEF Inv, Parts, Moved, Asks
    <3> QED
      BY <1>1, <2>1, <3>1 DEF ShapeAt
  <2>3. CASE o = s
    <3>1. /\ Good(event'[s])
          /\ \A u \in Both : Ev!Suspended(event'[s], u) => pc'[s][u] = "got"
      <4>1. CASE Moved(s, "recv", "send") /\ event' = event
        BY <1>1, <2>1, <2>3, <4>1 DEF ShapeAt, Moved, Both
      <4>2. ASSUME NEW x, Asks(s, "recv", x), Moved(s, "recv", "got"),
                   \A u \in Both : Ev!Suspended(x, u) => Ev!Suspended(event[s], u)
            PROVE  /\ Good(event'[s])
                   /\ \A u \in Both : Ev!Suspended(event'[s], u) => pc'[s][u] = "got"
        <5>1. \A u \in Both \ {"recv"} : Ev!Suspended(x, u) => pc[s][u] = "got"
          BY <2>1, <2>3, <4>2 DEF ShapeAt
        <5> QED
          BY <4>2, <5>1, AsksShape DEF Both
      <4> QED
        BY <1>2, <4>1, <4>2
    <3>2. /\ pc'[s]["recv"] \in {"got", "clear", "flush", "send", "spin"}
          /\ sta'[s] = {}
      BY <1>1, <1>2, <2>1, <2>3 DEF Moved, ShapeAt
    <3> QED
      BY <1>1, <2>1, <2>3, <3>1, <3>2 DEF ShapeAt
  <2> QED
    BY <2>2, <2>3
<1>6. ShapeTest'
  BY <1>1, <1>2 DEF Inv, Shape, ShapeTest, Moved, Both, Station, Sender, Peer
<1> QED
  BY <1>3, <1>4, <1>5, <1>6 DEF Inv, Shape

\* The other station hears what s sends, or does not.
Carries(s, hears) ==
  LET o == Other(s) IN
  /\ radio[s].mode = "tx" /\ radio[s].out # << >>
  /\ hears => radio[o].mode = "rx"
  /\ radio' \in [Station -> Rf!Chip]
  /\ radio'[s].mode = radio[s].mode /\ radio'[s].fifo = radio[s].fifo
  /\ radio'[s].out = Tail(radio[s].out)
  /\ radio'[s].flags = radio[s].flags \cup {"TX_DS"}
  /\ radio'[o].mode = radio[o].mode /\ radio'[o].out = radio[o].out
  /\ radio'[o].fifo = IF hears /\ radio[o].fifo = << >>
                      THEN << radio[s].out[1] >> ELSE radio[o].fifo
  /\ radio'[o].flags = IF hears THEN radio[o].flags \cup {"RX_DR"} ELSE radio[o].flags
  /\ heard' = IF s = Sender /\ hears /\ radio[s].out[1].call # 0
              THEN heard \cup {radio[s].out[1].call} ELSE heard
  /\ smooth' = (smooth /\ hears /\ radio[o].flags = {})

\* The event of s after its pin has fallen, or not.
Rises(s) ==
  IF radio[s].flags = {} /\ radio'[s].flags # {}
  THEN Becomes(event[s], event'[s], "recv", FALSE, ~Ev!Suspended(event[s], "recv"),
               IF Ev!Suspended(event[s], "recv") THEN {"EV_RECV"}
               ELSE event[s].got["recv"])
  ELSE event'[s] = event[s]

LEMMA MinOfTwo ==
  ASSUME NEW a \in Nat, NEW m \in Nat, a <= m
  PROVE  Min({a + 1, m}) = IF a < m THEN a + 1 ELSE m
<1>1. CASE a < m
  <2>1. a + 1 <= m
    BY <1>1
  <2>2. \A x \in {a + 1, m} : (\A y \in {a + 1, m} : x <= y) <=> x = a + 1
    BY <2>1
  <2> QED
    BY <1>1, <2>2 DEF Min
<1>2. CASE ~(a < m)
  <2>1. \A x \in {a + 1, m} : (\A y \in {a + 1, m} : x <= y) <=> x = m
    BY <1>2
  <2> QED
    BY <1>2, <2>1 DEF Min
<1> QED
  BY <1>1, <1>2

LEMMA TransmitDoes ==
  ASSUME Inv, NEW s \in Station, Transmit(s)
  PROVE  /\ \E hears \in BOOLEAN : Carries(s, hears)
         /\ \A o \in Station : Rises(o)
         /\ event' \in [Station -> Ev!Event]
         /\ answers' = IF s = Peer /\ answers < MaxCalls THEN answers + 1 ELSE answers
         /\ UNCHANGED << call, acked, lucky, ret, e, num_send, wait_ack, races, spun,
                         buf_recv, sta, pc, cur >>
<1> DEFINE packet == radio[s].out[1]
           after(hears, o) == IF o = s THEN Rf!Sent(radio[o])
                              ELSE IF hears THEN Rf!Receive(radio[o], packet)
                              ELSE radio[o]
           falls(hears, o) == ~Rf!IRQ(radio[o]) /\ Rf!IRQ(after(hears, o))
           sent(o) == Ev!rt_event_send(event[o], {"EV_RECV"})
<1>1. PICK hears \in {FALSE, Rf!Hears(radio[Other(s)])} :
        /\ radio' = [o \in Station |-> after(hears, o)]
        /\ event' = [o \in Station |-> IF falls(hears, o) THEN sent(o) ELSE event[o]]
        /\ heard' = IF s = Sender /\ hears /\ packet.call # 0
                    THEN heard \cup {packet.call} ELSE heard
        /\ smooth' = (smooth /\ hears /\ ~Rf!IRQ(radio[Other(s)]))
  BY DEF Transmit
<1>2. /\ UNCHANGED << call, acked, lucky, ret, e, num_send, wait_ack, races, spun,
                      buf_recv, sta, pc, cur >>
      /\ answers' = IF s = Peer THEN Min({answers + 1, MaxCalls}) ELSE answers
      /\ radio[s].mode = "tx" /\ radio[s].out # << >>
  BY DEF Transmit, NonSend, Races, Rf!Sends
<1>3. answers' = IF s = Peer /\ answers < MaxCalls THEN answers + 1 ELSE answers
  BY <1>2, MinOfTwo, NonLinkAssumption DEF Inv, Counts
<1>4. Other(s) \in Station /\ Other(s) # s /\ \A o \in Station : o = s \/ o = Other(s)
  BY DEF Other, Station, Sender, Peer
<1>5. packet \in Packet /\ \A o \in Station : radio[o] \in Bd!Chip
  <2>1. \A o \in Station : radio[o] \in Bd!Chip
    BY RadioSame DEF Inv, Parts
  <2>2. radio[s].out \in Seq(Packet)
    BY <2>1, Bd!ChipHas
  <2> QED
    BY <1>2, <2>1, <2>2
<1>6. LET r == after(hears, s)
      IN  /\ r \in Rf!Chip /\ r.mode = radio[s].mode /\ r.fifo = radio[s].fifo
          /\ r.out = Tail(radio[s].out) /\ r.flags = radio[s].flags \cup {"TX_DS"}
  BY <1>2, <1>5, RadioSame, Bd!SentIs
<1>7. LET o == Other(s)
          r == after(hears, o)
      IN  /\ r \in Rf!Chip /\ r.mode = radio[o].mode /\ r.out = radio[o].out
          /\ r.fifo = IF hears /\ radio[o].fifo = << >>
                      THEN << packet >> ELSE radio[o].fifo
          /\ r.flags = IF hears THEN radio[o].flags \cup {"RX_DR"} ELSE radio[o].flags
  <2>1. CASE hears
    <3> DEFINE r == Rf!Receive(radio[Other(s)], packet)
    <3>1. /\ r \in Rf!Chip /\ r.mode = radio[Other(s)].mode
          /\ r.out = radio[Other(s)].out
          /\ r.fifo = IF radio[Other(s)].fifo = << >>
                      THEN << packet >> ELSE radio[Other(s)].fifo
          /\ r.flags = radio[Other(s)].flags \cup {"RX_DR"}
      BY <1>4, <1>5, RadioSame, Bd!ReceiveIs
    <3>2. after(hears, Other(s)) = r
      BY <1>4, <2>1
    <3> HIDE DEF r, packet, after
    <3> QED
      BY <2>1, <3>1, <3>2
  <2>2. CASE ~hears
    <3>1. after(hears, Other(s)) = radio[Other(s)]
      BY <1>4, <2>2
    <3> HIDE DEF packet, after
    <3> QED
      BY <1>4, <1>5, <2>2, <3>1, RadioSame
  <2> QED
    BY <2>1, <2>2
<1> HIDE DEF after, packet
<1>8. /\ radio' \in [Station -> Rf!Chip]
      /\ radio'[s] = after(hears, s) /\ radio'[Other(s)] = after(hears, Other(s))
  BY <1>1, <1>4, <1>6, <1>7
<1>9. hears \in BOOLEAN /\ (hears => radio[Other(s)].mode = "rx")
  BY <1>1 DEF Rf!Hears
<1>10. Carries(s, hears)
  BY <1>1, <1>2, <1>6, <1>7, <1>8, <1>9 DEF Carries, Rf!IRQ, packet
<1>11. \A o \in Station :
         Becomes(event[o], sent(o), "recv", FALSE, ~Ev!Suspended(event[o], "recv"),
                 IF Ev!Suspended(event[o], "recv") THEN {"EV_RECV"}
                 ELSE event[o].got["recv"])
  <2>1. FlagOf("recv") = "EV_RECV"
    BY DEF FlagOf
  <2>2. \A o \in Station : Good(event[o])
    BY DEF Inv, Shape, ShapeAt
  <2> QED
    BY <2>1, <2>2, Sends DEF Both
<1>12. \A o \in Station : sent(o) \in Ev!Event
  <2> HIDE DEF sent
  <2> QED
    BY <1>11, SameEvent DEF Becomes, Good, Bd!Tidy
<1> HIDE DEF sent
<1>13. \A o \in Station : falls(hears, o) <=> radio[o].flags = {} /\ radio'[o].flags # {}
  BY <1>4, <1>8 DEF Rf!IRQ
<1> HIDE DEF falls
<1>14. \A o \in Station : Rises(o)
  <2> SUFFICES ASSUME NEW o \in Station
               PROVE  Rises(o)
    OBVIOUS
  <2>1. event'[o] = IF falls(hears, o) THEN sent(o) ELSE event[o]
    BY <1>1
  <2> QED
    BY <1>11, <1>13, <2>1 DEF Rises
<1>15. event' \in [Station -> Ev!Event]
  BY <1>1, <1>12 DEF Inv, Parts
<1> QED
  BY <1>2, <1>3, <1>9, <1>10, <1>14, <1>15

LEMMA CallsOfTail ==
  ASSUME NEW q \in Seq(Packet), q # << >>, NEW n, \A i \in 1 .. Len(q) : q[i].call <= n
  PROVE  \A i \in 1 .. Len(Tail(q)) : Tail(q)[i].call <= n
<1> DEFINE r == Tail(q)
<1>1. Len(r) = Len(q) - 1 /\ Len(q) \in Nat /\ \A i \in 1 .. Len(r) : r[i] = q[i + 1]
  OBVIOUS
<1> HIDE DEF r
<1>2. \A i \in 1 .. Len(r) : i + 1 \in 1 .. Len(q)
  BY <1>1
<1>3. \A i \in 1 .. Len(r) : r[i].call <= n
  BY <1>1, <1>2
<1> QED
  BY <1>3 DEF r

LEMMA TransmitInv ==
  ASSUME Inv, NEW s \in Station, Transmit(s)
  PROVE  Inv'
<1>1. /\ \A o \in Station : Rises(o)
      /\ event' \in [Station -> Ev!Event]
      /\ answers' = IF s = Peer /\ answers < MaxCalls THEN answers + 1 ELSE answers
      /\ UNCHANGED << call, acked, lucky, ret, e, num_send, wait_ack, races, spun,
                      buf_recv, sta, pc, cur >>
  BY TransmitDoes
<1>2. PICK hears \in BOOLEAN : Carries(s, hears)
  BY TransmitDoes
<1>3. Other(s) \in Station /\ \A o \in Station : o = s \/ o = Other(s)
  BY DEF Other, Station, Sender, Peer
<1>4. \A o \in Station : radio[o].out \in Seq(Packet)
  BY RadioSame, Bd!ChipHas DEF Inv, Parts
<1>5. /\ radio[s].out # << >> /\ radio' \in [Station -> Rf!Chip]
      /\ radio'[s].fifo = radio[s].fifo /\ radio'[s].out = Tail(radio[s].out)
      /\ radio'[Other(s)].out = radio[Other(s)].out
      /\ \/ radio'[Other(s)].fifo = << radio[s].out[1] >>
         \/ radio'[Other(s)].fifo = radio[Other(s)].fifo
      /\ heard' \in {heard, heard \cup ({radio[s].out[1].call} \ {0})}
      /\ smooth' \in BOOLEAN
  BY <1>2, <1>3 DEF Carries, Inv, Counts
<1>6. radio[s].out[1].call \in 0 .. call
  <2>1. radio[s].out[1].call <= call /\ radio[s].out[1] \in Packet
    BY <1>4, <1>5 DEF Inv, Shape, ShapeAt
  <2> QED
    BY <2>1, NonLinkAssumption DEF Packet, Inv, Counts
<1>7. Counts'
  <2>1. answers' \in 0 .. MaxCalls
    BY <1>1, NonLinkAssumption DEF Inv, Counts
  <2>2. heard' \subseteq 1 .. call
    BY <1>5, <1>6 DEF Inv, Counts
  <2> QED
    BY <1>1, <1>5, <2>1, <2>2 DEF Inv, Counts
<1>8. Parts'
  <2>1. \A o \in Station : Len(radio'[o].fifo) <= 1
    <3>1. Len(<< radio[s].out[1] >>) <= 1
      OBVIOUS
    <3>2. Len(radio[s].fifo) <= 1 /\ Len(radio[Other(s)].fifo) <= 1
      BY <1>3 DEF Inv, Parts
    <3>3. Len(radio'[s].fifo) <= 1 /\ Len(radio'[Other(s)].fifo) <= 1
      BY <1>5, <3>1, <3>2
    <3> QED
      BY <1>3, <3>3
  <2> QED
    BY <1>1, <1>5, <2>1 DEF Inv, Parts
<1>9. \A o \in Station : ShapeAt(o)'
  <2> SUFFICES ASSUME NEW o \in Station
               PROVE  ShapeAt(o)'
    OBVIOUS
  <2>1. ShapeAt(o)
    BY DEF Inv, Shape
  <2>2. Good(event'[o]) /\ \A u \in Both : Ev!Suspended(event'[o], u) => Ev!Suspended(event[o], u)
    BY <1>1, <2>1 DEF ShapeAt, Rises, Becomes, Both
  <2>3. \A i \in 1 .. Len(radio'[o].out) : radio'[o].out[i].call <= call
    <3>1. CASE o = s
      BY <1>4, <1>5, <2>1, <3>1, CallsOfTail DEF ShapeAt
    <3>2. CASE o = Other(s)
      BY <1>5, <2>1, <3>2 DEF ShapeAt
    <3> QED
      BY <1>3, <3>1, <3>2
  <2> QED
    BY <1>1, <2>1, <2>2, <2>3 DEF ShapeAt
<1>10. ShapeTest'
  BY <1>1 DEF Inv, Shape, ShapeTest
<1> QED
  BY <1>7, <1>8, <1>9, <1>10 DEF Inv, Shape

LEMMA PlacesOf == [test |-> "idle", recv |-> "got"] \in [Both -> Places]
<1> DEFINE r == [test |-> "idle", recv |-> "got"]
<1>1. DOMAIN r = Both
  BY DEF Both
<1>2. r = [t \in DOMAIN r |-> r[t]]
  OBVIOUS
<1>3. r["test"] = "idle" /\ r["recv"] = "got"
  OBVIOUS
<1> HIDE DEF r
<1>4. \A t \in Both : r[t] \in Places
  BY <1>3 DEF Both, Places
<1> QED
  BY <1>1, <1>2, <1>4 DEF r

\* At first each thread_recv waits.
LEMMA FreshEventIs ==
  /\ Good(Ev!rt_event_init)
  /\ Ev!rt_event_init.set = {} /\ \A t \in Both : ~Ev!Suspended(Ev!rt_event_init, t)
<1> DEFINE q == << >>
           g == [t \in Both |-> {}]
           r == [set |-> {}, wait |-> q, got |-> g]
<1>1. Ev!rt_event_init = r
  BY DEF Ev!rt_event_init, Both
<1>2. q \in Seq(Bd!Wait) /\ Len(q) = 0
  OBVIOUS
<1>3. g \in [Both -> SUBSET Flag]
  OBVIOUS
<1> HIDE DEF q, g
<1>4. r \in Bd!Event
  BY <1>2, <1>3 DEF Bd!Event
<1>5. r.set = {} /\ Len(r.wait) = 0
  BY <1>2
<1> HIDE DEF r
<1>6. Bd!Tidy(r) /\ Bd!Waits(r) = {} /\ \A t : ~Ev!Suspended(r, t)
  BY <1>4, <1>5 DEF Bd!Tidy, Bd!Waits, Ev!Suspended
<1> QED
  BY <1>1, <1>5, <1>6 DEF Good

LEMMA InitDoes ==
  ASSUME Init, NEW s \in Station
  PROVE  /\ Becomes(Ev!rt_event_init, event[s], "recv", TRUE, FALSE, {})
         /\ ~Ev!Suspended(event[s], "test") /\ event[s].set \cap Flag = {}
         /\ radio[s] = Rf!FreshChip /\ pc[s]["test"] = "idle" /\ pc[s]["recv"] = "got"
<1> DEFINE x == Ev!rt_event_init
           r == Ev!rt_event_recv(x, "recv", {"EV_RECV"}, TRUE)
<1>1. event[s] = r
  BY DEF Init
<1>2. r = Ev!rt_event_recv(x, "recv", {FlagOf("recv")}, "recv" = "recv")
  BY DEF FlagOf
<1> HIDE DEF r, x
<1>3. Good(x) /\ x.set = {} /\ \A t \in Both : ~Ev!Suspended(x, t)
  BY FreshEventIs DEF x
<1>4. Becomes(x, r, "recv", TRUE, FALSE, {})
  <2>1. "recv" \in Both /\ FlagOf("recv") \notin x.set
    BY <1>3 DEF Both
  <2> HIDE DEF r
  <2> QED
    BY <1>2, <1>3, <2>1, Receives
<1>5. ~Ev!Suspended(r, "test") /\ r.set \cap Flag = {}
  BY <1>3, <1>4 DEF Becomes, Both, FlagOf, Flag
<1>6. radio[s] = Rf!FreshChip /\ pc[s]["test"] = "idle" /\ pc[s]["recv"] = "got"
  BY DEF Init
<1> QED
  BY <1>1, <1>4, <1>5, <1>6 DEF x

LEMMA InitInv == Init => Inv
<1> SUFFICES ASSUME Init
             PROVE  Inv
  OBVIOUS
<1>1. Counts
  <2>1. /\ call = 0 /\ heard = {} /\ acked = 0 /\ answers = 0 /\ races = 0 /\ num_send = 0
        /\ ret = "none" /\ lucky = TRUE /\ spun = FALSE /\ smooth = TRUE /\ e = FALSE
        /\ wait_ack = FALSE
    BY DEF Init
  <2>2. {lucky, spun, smooth, e, wait_ack} \subseteq BOOLEAN
    BY <2>1, Zenon
  <2>3. call \in 0 .. MaxCalls /\ races \in 0 .. MaxRaces /\ answers \in 0 .. MaxCalls
    BY <2>1, NonLinkAssumption
  <2>4. acked \in 0 .. call /\ num_send \in 0 .. Resends + 1 /\ heard \subseteq 1 .. call
    BY <2>1, NonLinkAssumption
  <2> QED
    BY <2>1, <2>2, <2>3, <2>4 DEF Counts
<1>2. \A s \in Station : Good(event[s])
  BY InitDoes DEF Becomes
<1>3. Rf!FreshChip \in Rf!Chip /\ Len(Rf!FreshChip.fifo) <= 1 /\ Len(Rf!FreshChip.out) = 0
  BY RadioSame, Bd!FreshChipIs DEF Rf!FreshChip
<1>4. Parts
  <2>1. event \in [Station -> Ev!Event]
    <3>1. \A s \in Station : event[s] \in Ev!Event
      BY <1>2, SameEvent DEF Good, Bd!Tidy
    <3> QED
      BY <3>1 DEF Init
  <2>2. pc \in [Station -> [Both -> Places]]
    <3> DEFINE p == [test |-> "idle", recv |-> "got"]
    <3>1. p \in [Both -> Places]
      BY PlacesOf
    <3>2. pc = [s \in Station |-> p]
      BY DEF Init
    <3> HIDE DEF p
    <3> QED
      BY <3>1, <3>2
  <2>3. buf_recv \in [Station -> Packet]
    BY NonLinkAssumption DEF Init, Packet, Station
  <2> QED
    BY <1>3, <2>1, <2>2, <2>3 DEF Init, Parts
<1>5. \A s \in Station : ShapeAt(s)
  <2> SUFFICES ASSUME NEW s \in Station
               PROVE  ShapeAt(s)
    OBVIOUS
  <2>1. pc[s]["recv"] = "got" /\ sta[s] = {} /\ radio[s] = Rf!FreshChip
    BY DEF Init
  <2>2. \A t \in Both : Ev!Suspended(event[s], t) => pc[s][t] = "got"
    BY <2>1, InitDoes DEF Both
  <2> QED
    BY <1>2, <1>3, <2>1, <2>2 DEF ShapeAt
<1>6. ShapeTest
  BY DEF Init, ShapeTest, Station
<1> QED
  BY <1>1, <1>4, <1>5, <1>6 DEF Inv, Shape

LEMMA NextInv == Inv /\ [Next]_vars => Inv'
<1> SUFFICES ASSUME Inv, [Next]_vars
             PROVE  Inv'
  OBVIOUS
<1>0. Sender \in Station /\ {"test", "recv"} = Both
  BY DEF Station, Both
<1>1. CASE Test
  BY <1>0, <1>1, BeginInv, SucceedsInv, RetriesInv, GivesUpInv, TxStartInv, TxEndInv
     DEF Test, Both
<1>2. CASE TimedOut
  BY <1>2, TimedOutInv
<1>3. ASSUME NEW s \in Station, Receiver(s)
      PROVE  Inv'
  BY <1>3, RxStatusInv, RxReadInv, RxHandleInv, TxStartInv, TxEndInv DEF Receiver, Both
<1>4. ASSUME NEW s \in Station, Transmit(s)
      PROVE  Inv'
  BY <1>4, TransmitInv
<1>5. ASSUME NEW s \in Station, NEW t \in Both, Preempt(s, t)
      PROVE  Inv'
  BY <1>5, PreemptInv
<1>6. CASE UNCHANGED vars
  BY <1>6 DEF vars, Inv, Counts, Parts, Shape, ShapeAt, ShapeTest
<1> QED
  BY <1>0, <1>1, <1>2, <1>3, <1>4, <1>5, <1>6 DEF Next

\* What each thread may be doing, what it may be waiting for and what the chip
\* may hold at that moment, whoever misses, restarts or is late.
THEOREM Invariant == Spec => []Inv
BY InitInv, NextInv, PTL DEF Spec

\* Every variable keeps its type, for any number of messages, resends and races: in
\* particular no thread is put on the event's list twice, and no packet is handed to
\* a chip that still has one to send.
THEOREM NonLinkTypeCorrect == Spec => []TypeOK
<1>1. Inv => TypeOK
  BY ListLength DEF Inv, Counts, Parts, TypeOK, Both
<1> QED
  BY <1>1, Invariant, PTL

LEMMA HeldIs ==
  /\ Held \in Nat /\ Held' \in Nat
  /\ (Flagged' <=> Flagged) /\ (Woken' <=> Woken) /\ (Reading' <=> Reading)
       => /\ (Latched' => Latched) => Held' <= Held
          /\ Held' <= Held + 1
BY DEF Held

LEMMA StillEnough ==
  ASSUME NEW a \in Nat, NEW h \in Nat, NEW b \in Nat, NEW g \in Nat, NEW n \in Nat,
         b + g <= a + h, a + h <= n
  PROVE  b + g <= n
OBVIOUS

LEMMA NoMore ==
  ASSUME Inv, Inv', Tokens, lucky' => lucky /\ ~e', answers' = answers,
         acked' + Held' <= acked + Held \/ ~lucky \/ e
  PROVE  Tokens'
<1>1. /\ Held \in Nat /\ Held' \in Nat /\ acked \in Nat /\ acked' \in Nat
      /\ answers \in Nat
  BY HeldIs, NonLinkAssumption DEF Inv, Counts
<1>2. ASSUME acked' + Held' <= acked + Held, acked + Held <= answers
      PROVE  acked' + Held' <= answers'
  BY <1>1, <1>2, StillEnough
<1>3. ASSUME acked' + Held' <= acked + Held, Enough
      PROVE  Enough'
  BY <1>2, <1>3 DEF Enough
<1> QED
  BY <1>3 DEF Tokens

\* The same thing is there, and the other station has done something.
LEMMA ElsewhereTokens ==
  ASSUME Tokens, pc'[Sender] = pc[Sender], event'[Sender] = event[Sender],
         radio'[Sender] = radio[Sender], sta'[Sender] = sta[Sender],
         UNCHANGED << acked, lucky, e, answers >>
  PROVE  Tokens'
<1>1. Held' = Held
  BY DEF Held, Flagged, Woken, Reading, Latched
<1> QED
  BY <1>1 DEF Tokens, Enough

LEMMA TxStartTokens ==
  ASSUME Inv, Inv', Tokens, NEW s \in Station, NEW t \in Both, TxStart(s, t)
  PROVE  Tokens'
<1>1. /\ pc[s][t] = "send" /\ Goes(s, t, "spin")
      /\ UNCHANGED << acked, lucky, e, answers, event, sta >>
  BY DEF TxStart, Runs, NonSend, Air
<1>2. Moved(s, t, "spin")
  BY <1>1, GoesDoes DEF Inv, Places
<1>3. radio'[s].flags = radio[s].flags /\ \A o \in Station \ {s} : radio'[o] = radio[o]
  BY TxStartDoes
<1>4. CASE s = Sender
  <2>1. (Flagged' <=> Flagged) /\ (Latched' <=> Latched)
    BY <1>1, <1>3, <1>4 DEF Flagged, Latched
  <2>2. (Woken' <=> Woken) /\ (Reading' <=> Reading)
    BY <1>1, <1>2, <1>4 DEF Woken, Reading, Moved, Both
  <2> QED
    BY <1>1, <2>1, <2>2, NoMore DEF Held, Tokens, Inv, Counts
<1>5. CASE s # Sender
  BY <1>1, <1>2, <1>3, <1>5, ElsewhereTokens DEF Moved, Station
<1> QED
  BY <1>4, <1>5

LEMMA TxEndTokens ==
  ASSUME Inv, Inv', Tokens, NEW s \in Station, NEW t \in Both, TxEnd(s, t)
  PROVE  Tokens'
<1>1. /\ pc[s][t] = "spin"
      /\ UNCHANGED << acked, lucky, e, answers, sta >>
  BY DEF TxEnd, Runs, NonSend, Air
<1>2. /\ radio'[s].flags \subseteq radio[s].flags
      /\ \A o \in Station \ {s} : radio'[o] = radio[o]
      /\ Asks(s, t, event[s]) /\ Moved(s, t, "got")
  BY TxEndDoes
<1>3. CASE s = Sender /\ t = "test"
  <2>1. (Latched' => Latched) /\ (Reading' <=> Reading)
    BY <1>1, <1>2, <1>3 DEF Latched, Reading, Moved, Both
  <2>2. ~Woken /\ ~Flagged' /\ (Woken' <=> Flagged)
    BY <1>1, <1>2, <1>3 DEF Woken, Flagged, Moved, Asks, Becomes, FlagOf
  <2> QED
    BY <1>1, <2>1, <2>2, NoMore DEF Tokens, Held, Inv, Counts
<1>4. CASE s = Sender /\ t = "recv"
  <2>1. (Latched' => Latched) /\ (Reading' <=> Reading)
    BY <1>1, <1>2, <1>4 DEF Latched, Reading, Moved
  <2>2. Flagged' <=> Flagged
    BY <1>2, <1>4 DEF Flagged, Asks, Becomes, FlagOf, Both
  <2>3. Woken' <=> Woken
    <3>1. event'[Sender].got["test"] = event[Sender].got["test"]
      BY <1>2, <1>4 DEF Asks, Becomes, Both
    <3>2. pc'[Sender]["test"] = pc[Sender]["test"]
      BY <1>2, <1>4 DEF Moved, Both
    <3> QED
      BY <3>1, <3>2 DEF Woken
  <2> QED
    BY <1>1, <2>1, <2>2, <2>3, NoMore DEF Tokens, Held, Inv, Counts
<1>5. CASE s # Sender
  BY <1>1, <1>2, <1>5, ElsewhereTokens DEF Moved, Asks, Station
<1> QED
  BY <1>3, <1>4, <1>5 DEF Both

LEMMA BeginTokens == ASSUME Inv, Inv', Tokens, Begin PROVE Tokens'
<1>1. /\ pc[Sender]["test"] = "idle" /\ Goes(Sender, "test", "send")
      /\ UNCHANGED << acked, answers, event, radio, sta >>
  BY DEF Begin, Runs
<1>4. lucky' => lucky /\ ~e'
  <2>1. PICK chance \in BOOLEAN : e' = chance /\ lucky' = (lucky /\ ~chance)
    BY DEF Begin
  <2> QED
    BY <2>1, Zenon
<1>2. Moved(Sender, "test", "send")
  BY <1>1, GoesDoes DEF Inv, Places, Both, Station
<1>3. Woken' = Woken /\ Flagged' = Flagged /\ Latched' = Latched /\ (Reading' <=> Reading)
  BY <1>1, <1>2 DEF Woken, Flagged, Latched, Reading, Moved, Both
<1> QED
  BY <1>1, <1>3, <1>4, NoMore DEF Held, Tokens, Inv, Counts

LEMMA TimedOutTokens == ASSUME Inv, Inv', Tokens, TimedOut PROVE Tokens'
<1>1. UNCHANGED << acked, lucky, e, answers, radio, sta, pc >>
  BY DEF TimedOut, NonSend
<1>2. /\ ~Woken' /\ ~Flagged' /\ Latched' = Latched /\ Reading' = Reading
  BY <1>1, TimedOutDoes DEF Woken, Flagged, Latched, Reading, Becomes, FlagOf
<1> QED
  BY <1>1, <1>2, NoMore DEF Tokens, Held, Inv, Counts

LEMMA SucceedsTokens == ASSUME Inv, Inv', Tokens, Succeeds PROVE Tokens'
<1>1. /\ pc[Sender]["test"] = "got" /\ Goes(Sender, "test", "idle")
      /\ e \/ event[Sender].got["test"] # {}
      /\ e' = FALSE /\ acked' = acked + 1
      /\ UNCHANGED << answers, lucky, event, radio, sta >>
  BY DEF Succeeds, Received, Runs, Air
<1>2. Moved(Sender, "test", "idle")
  BY <1>1, GoesDoes DEF Inv, Places, Both, Station
<1>3. /\ ~Woken' /\ Flagged' = Flagged /\ Latched' = Latched /\ (Reading' <=> Reading)
      /\ ~e => Woken
  BY <1>1, <1>2 DEF Woken, Flagged, Latched, Reading, Moved, Both
<1> QED
  BY <1>1, <1>3, NoMore DEF Tokens, Held, Inv, Counts

LEMMA AgainTokens ==
  ASSUME Inv, Inv', Tokens, NEW place \in {"send", "idle"}, Goes(Sender, "test", place),
         UNCHANGED << acked, answers, lucky, e, event, radio, sta >>
  PROVE  Tokens'
<1>1. Moved(Sender, "test", place)
  BY GoesDoes DEF Inv, Places, Both, Station
<1>2. ~Woken' /\ Flagged' = Flagged /\ Latched' = Latched /\ (Reading' <=> Reading)
  BY <1>1 DEF Woken, Flagged, Latched, Reading, Moved, Both
<1> QED
  BY <1>2, NoMore DEF Tokens, Held, Inv, Counts

LEMMA RxStatusTokens ==
  ASSUME Inv, Inv', Tokens, NEW s \in Station, RxStatus(s)
  PROVE  Tokens'
<1>1. /\ pc[s]["recv"] = "got" /\ Goes(s, "recv", "clear")
      /\ sta' = [sta EXCEPT ![s] = radio[s].flags]
      /\ UNCHANGED << acked, lucky, e, answers, event, radio >>
  BY DEF RxStatus, Runs, NonSend, Air
<1>2. Moved(s, "recv", "clear") /\ sta[s] = {}
  BY <1>1, GoesDoes DEF Inv, Places, Both, Shape, ShapeAt
<1>3. sta'[s] = radio[s].flags /\ \A o \in Station \ {s} : sta'[o] = sta[o]
  BY <1>1 DEF Inv, Parts
<1>4. CASE s = Sender
  <2>1. ~Reading /\ ~Latched' /\ (Reading' <=> Latched)
    BY <1>1, <1>2, <1>3, <1>4 DEF Reading, Latched, Moved
  <2>2. (Woken' <=> Woken) /\ Flagged' = Flagged
    BY <1>1, <1>2, <1>4 DEF Woken, Flagged, Moved, Both
  <2> QED
    BY <1>1, <2>1, <2>2, NoMore DEF Tokens, Held, Inv, Counts
<1>5. CASE s # Sender
  BY <1>1, <1>2, <1>3, <1>5, ElsewhereTokens DEF Moved, Station
<1> QED
  BY <1>4, <1>5

LEMMA RxReadTokens ==
  ASSUME Inv, Inv', Tokens, NEW s \in Station, RxRead(s)
  PROVE  Tokens'
<1>1. /\ pc[s]["recv"] = "clear" /\ UNCHANGED << acked, lucky, e, answers >>
      /\ radio'[s].flags = radio[s].flags \ sta[s]
      /\ \A o \in Station \ {s} : radio'[o] = radio[o]
      /\ sta' = [sta EXCEPT ![s] = {}]
      /\ \/ "RX_DR" \in sta[s] /\ event' = event /\ Moved(s, "recv", "flush")
         \/ "RX_DR" \notin sta[s] /\ Asks(s, "recv", event[s]) /\ Moved(s, "recv", "got")
  BY RxReadDoes
<1>2. sta'[s] = {} /\ \A o \in Station \ {s} : sta'[o] = sta[o]
  BY <1>1 DEF Inv, Parts
<1>3. CASE s = Sender
  <2>1. (Latched' <=> Latched) /\ (Reading' <=> Reading)
    BY <1>1, <1>2, <1>3 DEF Reading, Latched, Moved
  <2>2. (Woken' <=> Woken) /\ (Flagged' <=> Flagged)
    BY <1>1, <1>3 DEF Woken, Flagged, Moved, Asks, Becomes, FlagOf, Both
  <2> QED
    BY <1>1, <2>1, <2>2, NoMore DEF Tokens, Held, Inv, Counts
<1>4. CASE s # Sender
  BY <1>1, <1>2, <1>4, ElsewhereTokens DEF Moved, Asks, Station
<1> QED
  BY <1>3, <1>4

LEMMA RxHandleTokens ==
  ASSUME Inv, Inv', Tokens, NEW s \in Station, RxHandle(s)
  PROVE  Tokens'
<1>1. /\ pc[s]["recv"] = "flush" /\ UNCHANGED << acked, lucky, e, answers, sta >>
      /\ radio'[s].flags = radio[s].flags
      /\ \A o \in Station \ {s} : radio'[o] = radio[o]
  BY RxHandleDoes
<1>2. \/ Asks(s, "recv", event[s]) /\ Moved(s, "recv", "got")
      \/ /\ Moved(s, "recv", "got")
         /\ \E x : /\ Becomes(event[s], x, "test", FALSE,
                              ~Ev!Suspended(event[s], "test"),
                              IF Ev!Suspended(event[s], "test") THEN {"EV_SEND_V"}
                              ELSE event[s].got["test"])
                   /\ Asks(s, "recv", x)
      \/ Moved(s, "recv", "send") /\ event' = event
  BY RxHandleDoes
<1>3. CASE s = Sender
  <2>1. Reading /\ ~Reading' /\ (Latched' <=> Latched)
    BY <1>1, <1>2, <1>3 DEF Reading, Latched, Moved
  <2>2. pc'[Sender]["test"] = pc[Sender]["test"]
    BY <1>2, <1>3 DEF Moved, Both
  <2>3. CASE Asks(s, "recv", event[s]) \/ event' = event
    <3>1. (Woken' <=> Woken) /\ (Flagged' <=> Flagged)
      BY <1>3, <2>2, <2>3 DEF Woken, Flagged, Asks, Becomes, FlagOf, Both
    <3> QED
      BY <1>1, <2>1, <3>1, NoMore DEF Tokens, Held, Inv, Counts
  <2>4. ASSUME NEW x, Asks(s, "recv", x),
               Becomes(event[s], x, "test", FALSE, ~Ev!Suspended(event[s], "test"),
                       IF Ev!Suspended(event[s], "test") THEN {"EV_SEND_V"}
                       ELSE event[s].got["test"])
        PROVE  Tokens'
    <3>1. /\ Flagged' <=> ~Ev!Suspended(event[s], "test")
          /\ event'[s].got["test"] = IF Ev!Suspended(event[s], "test") THEN {"EV_SEND_V"}
                                     ELSE event[s].got["test"]
      BY <1>3, <2>4 DEF Flagged, Asks, Becomes, FlagOf, Both
    <3>2. Ev!Suspended(event[s], "test") =>
            pc[s]["test"] = "got" /\ ~Flagged /\ ~Woken
      BY <1>3 DEF Inv, Shape, ShapeAt, Good, FlagOf, Both, Flagged, Woken
    <3>3. CASE Ev!Suspended(event[s], "test")
      <4>1. ~Flagged /\ ~Woken /\ ~Flagged'
        BY <3>1, <3>2, <3>3
      <4> QED
        BY <1>1, <2>1, <4>1, NoMore DEF Tokens, Held, Inv, Counts
    <3>4. CASE ~Ev!Suspended(event[s], "test")
      <4>1. Woken' <=> Woken
        BY <1>3, <2>2, <3>1, <3>4 DEF Woken
      <4> QED
        BY <1>1, <2>1, <4>1, NoMore DEF Tokens, Held, Inv, Counts
    <3> QED
      BY <3>3, <3>4
  <2> QED
    BY <1>2, <2>3, <2>4
<1>4. CASE s # Sender
  <2>1. event'[Sender] = event[Sender] /\ pc'[Sender] = pc[Sender]
    BY <1>2, <1>4 DEF Moved, Asks, Station
  <2> QED
    BY <1>1, <1>4, <2>1, ElsewhereTokens DEF Station
<1> QED
  BY <1>3, <1>4

LEMMA TransmitTokens ==
  ASSUME Inv, Inv', Tokens, NEW s \in Station, Transmit(s)
  PROVE  Tokens'
<1>1. /\ Rises(Sender)
      /\ answers' = IF s = Peer /\ answers < MaxCalls THEN answers + 1 ELSE answers
      /\ UNCHANGED << acked, lucky, e, sta, pc >>
  BY TransmitDoes DEF Station
<1>2. PICK hears \in BOOLEAN : Carries(s, hears)
  BY TransmitDoes
<1>3. Reading' = Reading /\ (Woken' <=> Woken) /\ (Flagged' <=> Flagged)
  BY <1>1 DEF Reading, Woken, Flagged, Rises, Becomes, FlagOf, Both
<1>4. CASE s = Sender
  <2>1. Latched' <=> Latched
    BY <1>1, <1>2, <1>4 DEF Latched, Carries
  <2>2. answers' = answers
    BY <1>1, <1>4 DEF Sender, Peer
  <2> QED
    BY <1>1, <1>3, <2>1, <2>2, NoMore DEF Held, Tokens, Inv, Counts
<1>5. CASE s = Peer
  <2>1. answers' = MaxCalls \/ answers' = answers + 1
    BY <1>1, <1>5, NonLinkAssumption DEF Inv, Counts
  <2>2. Held' <= Held + 1 /\ Held \in Nat /\ Held' \in Nat
    BY <1>3, HeldIs
  <2>3. Enough => Enough'
    BY <1>1, <2>1, <2>2, NonLinkAssumption DEF Enough, Inv, Counts
  <2> QED
    BY <1>1, <2>3 DEF Tokens
<1> QED
  BY <1>4, <1>5 DEF Station

LEMMA NextTokens == Inv /\ Inv' /\ Tokens /\ [Next]_vars => Tokens'
<1> SUFFICES ASSUME Inv, Inv', Tokens, [Next]_vars
             PROVE  Tokens'
  OBVIOUS
<1>0. Sender \in Station /\ {"test", "recv"} = Both
  BY DEF Station, Both
<1>1. CASE Retries \/ GivesUp
  BY <1>1, AgainTokens DEF Retries, GivesUp, Air
<1>2. CASE Test
  BY <1>0, <1>1, <1>2, BeginTokens, SucceedsTokens, TxStartTokens, TxEndTokens
     DEF Test, Both
<1>3. CASE TimedOut
  BY <1>3, TimedOutTokens
<1>4. ASSUME NEW s \in Station, Receiver(s)
      PROVE  Tokens'
  BY <1>4, RxStatusTokens, RxReadTokens, RxHandleTokens, TxStartTokens, TxEndTokens
     DEF Receiver, Both
<1>5. ASSUME NEW s \in Station, Transmit(s)
      PROVE  Tokens'
  BY <1>5, TransmitTokens
<1>6. ASSUME NEW s \in Station, NEW t \in Both, Preempt(s, t)
      PROVE  Tokens'
  BY <1>6 DEF Preempt, Tokens, Enough, Held, Flagged, Woken, Reading, Latched
<1>7. CASE UNCHANGED vars
  BY <1>7 DEF vars, Tokens, Enough, Held, Flagged, Woken, Reading, Latched
<1> QED
  BY <1>0, <1>2, <1>3, <1>4, <1>5, <1>6, <1>7 DEF Next

LEMMA InitTokens == Init => Tokens
<1> SUFFICES ASSUME Init
             PROVE  Tokens
  OBVIOUS
<1>1. /\ ~e /\ acked = 0 /\ answers = 0 /\ sta[Sender] = {}
  BY DEF Init, Station
<1>2. ~Flagged /\ ~Woken /\ ~Reading /\ ~Latched
  BY InitDoes DEF Station, Flagged, Woken, Reading, Latched, Flag, Rf!FreshChip
<1> QED
  BY <1>1, <1>2 DEF Tokens, Enough, Held

\* Each answer that is sent makes non_send return 0 at most once, and so does the
\* flag e may have started with, whatever is lost, late or sent again.
THEOREM AnswersCount == Spec => []OneAnswerOneSuccess
<1>1. Init => Inv /\ Tokens
  BY InitInv, InitTokens
<1>2. Inv /\ Tokens /\ [Next]_vars => (Inv /\ Tokens)'
  BY NextInv, NextTokens
<1>3. Inv /\ Tokens => OneAnswerOneSuccess
  <2> SUFFICES ASSUME Inv, Tokens, lucky
               PROVE  acked <= answers
    BY DEF OneAnswerOneSuccess
  <2>1. Held \in Nat
    BY HeldIs
  <2>2. acked \in Nat /\ answers \in Nat /\ acked <= MaxCalls
    BY NonLinkAssumption DEF Inv, Counts
  <2> QED
    BY <2>1, <2>2, NonLinkAssumption DEF Tokens, Enough
<1> QED
  BY <1>1, <1>2, <1>3, PTL DEF Spec

-----------------------------------------------------------------------------
(* What goes smoothly succeeds *)

\* The other station does nothing.
LEMMA PeerRests ==
  ASSUME Going, radio'[Peer] = radio[Peer], pc'[Peer] = pc[Peer], sta'[Peer] = sta[Peer],
         buf_recv'[Peer] = buf_recv[Peer]
  PROVE  Kept(Peer)' /\ PeerSmooth' /\ (Answering' <=> Answering)
<1>1. HasRx(Peer)' <=> HasRx(Peer)
  BY DEF HasRx
<1>2. Kept(Peer)'
  BY <1>1 DEF Going, Kept
<1>3. PeerSmooth'
  BY <1>1 DEF Going, PeerSmooth
<1> QED
  BY <1>1, <1>2, <1>3 DEF Answering, Holds

\* The other station does something, the sender nothing.
LEMMA SenderRests ==
  ASSUME Going, radio'[Sender] = radio[Sender], pc'[Sender] = pc[Sender],
         sta'[Sender] = sta[Sender], buf_recv'[Sender] = buf_recv[Sender],
         event'[Sender] = event[Sender],
         UNCHANGED << call, heard, acked, ret, e, num_send, wait_ack >>,
         Kept(Peer)', PeerSmooth', Answering' <=> Answering,
         ~Answering /\ pc[Peer]["recv"] \in {"got", "clear"}
           => pc'[Peer]["recv"] \in {"got", "clear"}
  PROVE  Going'
<1>1. (HasRx(Sender)' <=> HasRx(Sender)) /\ (Holds(Sender)' <=> Holds(Sender))
  BY DEF HasRx, Holds
<1>2. Kept(Sender)'
  BY <1>1 DEF Going, Kept
<1>3. /\ PhaseIdle => PhaseIdle'
      /\ PhaseSend => PhaseSend'
      /\ PhaseSent => PhaseSent'
      /\ PhaseWait => PhaseWait'
      /\ PhaseWoken => PhaseWoken'
  BY <1>1 DEF PhaseIdle, PhaseSend, PhaseSent, PhaseWait, PhaseWoken, Underway
<1>4. ~e' /\ num_send' = 0 /\ ~Flagged' /\ pc'[Sender]["recv"] \in {"got", "clear", "flush"}
  BY DEF Going, Flagged
<1> QED
  BY <1>2, <1>3, <1>4 DEF Going

LEMMA TxStartSmooth ==
  ASSUME Inv, Inv', Going, NEW s \in Station, NEW t \in Both, TxStart(s, t)
  PROVE  Going'
<1>1. /\ pc[s][t] = "send" /\ Goes(s, t, "spin")
      /\ UNCHANGED << call, heard, acked, ret, e, num_send, wait_ack, event, buf_recv, sta >>
      /\ t \in Thread(s)
  BY DEF TxStart, Runs, Ready, NonSend, Air
<1>2. Moved(s, t, "spin")
  BY <1>1, GoesDoes DEF Inv, Places
<1>3. /\ radio'[s].mode = "tx" /\ radio'[s].fifo = radio[s].fifo
      /\ radio'[s].out = Append(radio[s].out, Data(s, t))
      /\ radio'[s].flags = radio[s].flags
      /\ \A o \in Station \ {s} : radio'[o] = radio[o]
  BY TxStartDoes
<1>4. CASE s = Sender /\ t = "test"
  <2>1. PhaseSend /\ radio[Sender].out = << >>
    BY <1>1, <1>4 DEF Going, PhaseIdle, PhaseSend, PhaseSent, PhaseWait, PhaseWoken
  <2>2. Kept(Peer)' /\ PeerSmooth' /\ (Answering' <=> Answering)
    <3>1. radio'[Peer] = radio[Peer] /\ pc'[Peer] = pc[Peer]
      BY <1>2, <1>3, <1>4 DEF Moved, Station, Sender, Peer
    <3> QED
      BY <1>1, <3>1, PeerRests
  <2>3. /\ HasRx(Sender)' <=> HasRx(Sender)
        /\ Holds(Sender)' <=> Holds(Sender)
        /\ pc'[Sender]["recv"] = pc[Sender]["recv"] /\ pc'[Sender]["test"] = "spin"
        /\ pc'[Peer] = pc[Peer]
    BY <1>1, <1>2, <1>3, <1>4 DEF HasRx, Holds, Moved, Both, Station, Sender, Peer
  <2>4. Kept(Sender)'
    BY <1>1, <1>3, <1>4, <2>3 DEF Going, Kept
  <2>5. radio'[Sender].out = << [dst |-> Peer, call |-> call] >>
    <3>1. Data(Sender, "test") = [dst |-> Peer, call |-> call]
      BY DEF Data, Other, Sender, Peer
    <3> QED
      BY <1>3, <1>4, <2>1, <3>1
  <2>6. PhaseSend'
    BY <1>1, <1>3, <1>4, <2>1, <2>2, <2>3, <2>5 DEF PhaseSend, Underway
  <2>7. ~e' /\ num_send' = 0 /\ ~Flagged' /\ pc'[Sender]["recv"] \in {"got", "clear", "flush"}
    BY <1>1, <2>3 DEF Going, Flagged
  <2> QED
    BY <2>2, <2>4, <2>6, <2>7 DEF Going
<1>5. CASE s = Sender /\ t = "recv"
  BY <1>1, <1>5 DEF Going
<1>6. CASE s = Peer
  <2>0. t = "recv" /\ Peer \in Station /\ Sender \in Station \ {Peer}
    BY <1>1, <1>6 DEF Thread, Station, Sender, Peer
  <2>1. radio[Peer].flags = {} /\ radio[Peer].out = << >> /\ ~HasRx(Peer)
    BY <1>1, <1>6, <2>0 DEF Going, PeerSmooth
  <2>2. pc'[Peer]["recv"] = "spin" /\ ~HasRx(Peer)' /\ radio[Peer].fifo = << >>
    BY <1>1, <1>2, <1>3, <1>6, <2>0, <2>1 DEF Moved, HasRx, Going, Kept
  <2>3. radio'[Peer].out = << [dst |-> Sender, call |-> 0] >>
    <3>1. Data(Peer, "recv") = [dst |-> Sender, call |-> 0]
      BY DEF Data, Other, Sender, Peer
    <3> QED
      BY <1>3, <1>6, <2>0, <2>1, <3>1
  <2>4. Kept(Peer)' /\ PeerSmooth'
    BY <1>3, <1>6, <2>1, <2>2, <2>3 DEF Kept, PeerSmooth
  <2>5. Answering /\ Answering'
    BY <1>1, <1>6, <2>0, <2>3 DEF Answering
  <2> QED
    BY <1>1, <1>2, <1>3, <1>6, <2>0, <2>4, <2>5, SenderRests DEF Moved
<1> QED
  BY <1>4, <1>5, <1>6 DEF Both, Station

LEMMA TxEndSmooth ==
  ASSUME Inv, Inv', Going, NEW s \in Station, NEW t \in Both, TxEnd(s, t)
  PROVE  Going'
<1>1. /\ pc[s][t] = "spin" /\ radio[s].flags # {} /\ t \in Thread(s)
      /\ UNCHANGED << call, heard, acked, ret, e, num_send, wait_ack, buf_recv, sta >>
  BY DEF TxEnd, Runs, Ready, NonSend, Air, Rf!IRQ
<1>2. /\ radio'[s].fifo = radio[s].fifo /\ radio'[s].out = << >>
      /\ radio'[s].flags \subseteq radio[s].flags
      /\ \A o \in Station \ {s} : radio'[o] = radio[o]
      /\ Asks(s, t, event[s]) /\ Moved(s, t, "got")
  BY TxEndDoes
<1>3. CASE s = Sender /\ t = "test"
  <2>1. PhaseSent
    BY <1>1, <1>3 DEF Going, PhaseIdle, PhaseSend, PhaseSent, PhaseWait, PhaseWoken
  <2>2. Kept(Peer)' /\ PeerSmooth' /\ (Answering' <=> Answering)
    <3>1. radio'[Peer] = radio[Peer] /\ pc'[Peer] = pc[Peer]
      BY <1>2, <1>3 DEF Moved, Station, Sender, Peer
    <3> QED
      BY <1>1, <3>1, PeerRests
  <2>3. /\ pc'[Sender]["recv"] = pc[Sender]["recv"] /\ pc'[Sender]["test"] = "got"
    BY <1>2, <1>3 DEF Moved, Both
  <2>4. ~Holds(Sender)' /\ ~HasRx(Sender)' /\ ~HasRx(Sender) /\ pc[Sender]["recv"] # "flush"
    BY <1>1, <1>2, <1>3, <2>1, <2>3 DEF HasRx, Holds, PhaseSent
  <2>5. Kept(Sender)'
    BY <1>1, <1>2, <1>3, <2>3, <2>4 DEF Going, Kept
  <2>6. Ev!Suspended(event'[Sender], "test") /\ ~Flagged'
    BY <1>2, <1>3 DEF Asks, Becomes, Going, Flagged, FlagOf
  <2>7. PhaseWait'
    BY <1>1, <1>2, <1>3, <2>1, <2>2, <2>3, <2>4, <2>6 DEF PhaseWait, PhaseSent, Underway
  <2>8. ~e' /\ num_send' = 0 /\ pc'[Sender]["recv"] \in {"got", "clear", "flush"}
    BY <1>1, <2>3 DEF Going
  <2> QED
    BY <2>2, <2>5, <2>6, <2>7, <2>8 DEF Going
<1>4. CASE s = Sender /\ t = "recv"
  BY <1>1, <1>4 DEF Going
<1>5. CASE s = Peer
  <2>0. t = "recv" /\ Peer \in Station /\ Sender \in Station \ {Peer}
    BY <1>1, <1>5 DEF Thread, Station, Sender, Peer
  <2>1. radio[Peer].out = << >> /\ ~HasRx(Peer)
    BY <1>1, <1>5, <2>0 DEF Going, PeerSmooth
  <2>2. pc'[Peer]["recv"] = "got" /\ ~HasRx(Peer)' /\ radio[Peer].fifo = << >>
    BY <1>1, <1>2, <1>5, <2>0, <2>1 DEF Moved, HasRx, Going, Kept
  <2>3. Kept(Peer)' /\ PeerSmooth'
    BY <1>2, <1>5, <2>2 DEF Kept, PeerSmooth
  <2>4. ~Answering /\ ~Answering'
    BY <1>1, <1>2, <1>5, <2>0, <2>1, <2>2 DEF Answering, Holds
  <2> QED
    BY <1>1, <1>2, <1>5, <2>0, <2>2, <2>3, <2>4, SenderRests DEF Moved, Asks
<1> QED
  BY <1>3, <1>4, <1>5 DEF Both, Station

LEMMA BeginSmooth ==
  ASSUME Inv, Inv', Going, Begin, smooth', lucky'
  PROVE  Going'
<1>1. /\ pc[Sender]["test"] = "idle" /\ Goes(Sender, "test", "send")
      /\ call' = call + 1 /\ num_send' = 0 /\ wait_ack' = TRUE /\ ret' = "none"
      /\ smooth' = (smooth /\ Quiet)
      /\ UNCHANGED << acked, heard, event, radio, buf_recv, sta >>
  BY DEF Begin, Runs
<1>2. Moved(Sender, "test", "send")
  BY <1>1, GoesDoes DEF Inv, Places, Both, Station
<1>3. Quiet
  BY <1>1
<1>4. ~e'
  <2>1. PICK chance \in BOOLEAN : e' = chance /\ lucky' = (lucky /\ ~chance)
    BY DEF Begin
  <2> QED
    BY <2>1, Zenon
<1>5. PhaseIdle
  BY <1>1 DEF Going, PhaseIdle, PhaseSend, PhaseSent, PhaseWait, PhaseWoken
<1>6. Sender \in Station /\ Peer \in Station \ {Sender}
  BY DEF Station, Sender, Peer
<1>7. pc[Peer]["recv"] = "got" /\ radio[Sender].flags = {}
  BY <1>3, <1>6 DEF Quiet, Ready, Thread, Rf!IRQ
<1>8. pc'[Peer] = pc[Peer] /\ pc'[Sender]["recv"] = pc[Sender]["recv"] /\ pc'[Sender]["test"] = "send"
  BY <1>2, <1>6 DEF Moved, Both
<1>9. Kept(Peer)' /\ PeerSmooth' /\ (Answering' <=> Answering)
  BY <1>1, <1>8, PeerRests
<1>10. (HasRx(Sender)' <=> HasRx(Sender)) /\ (Holds(Sender)' <=> Holds(Sender))
  BY <1>1, <1>8 DEF HasRx, Holds
<1>11. Kept(Sender)'
  BY <1>1, <1>8, <1>10 DEF Going, Kept
<1>12. Underway'
  BY <1>1, <1>5 DEF Underway, PhaseIdle, Inv, Counts
<1>13. PhaseSend'
  BY <1>1, <1>5, <1>7, <1>8, <1>9, <1>10, <1>12 DEF PhaseSend, PhaseIdle
<1>14. ~Flagged' /\ pc'[Sender]["recv"] \in {"got", "clear", "flush"}
  BY <1>1, <1>8 DEF Going, Flagged
<1> QED
  BY <1>1, <1>4, <1>9, <1>11, <1>13, <1>14 DEF Going

\* Something is still under way.
LEMMA TimedOutSmooth == Inv /\ Going /\ TimedOut => ~smooth'
<1> SUFFICES ASSUME Inv, Going, TimedOut, Quiet
             PROVE  FALSE
  BY DEF TimedOut
<1>1. Ev!Suspended(event[Sender], "test") /\ Sender \in Station /\ Peer \in Station
  BY DEF TimedOut, Station
<1>2. pc[Sender]["test"] = "got" /\ event[Sender].got["test"] = {}
  BY <1>1 DEF Inv, Shape, ShapeAt, Good, Both
<1>3. PhaseWait
  BY <1>2 DEF Going, PhaseIdle, PhaseSend, PhaseSent, PhaseWoken
<1>4. \A s \in Station : pc[s]["recv"] = "got" /\ radio[s].flags = {}
  BY DEF Quiet, Ready, Thread, Rf!IRQ
<1>5. ~Holds(Sender) /\ ~Holds(Peer)
  BY <1>1, <1>4 DEF Holds, HasRx
<1>6. ~Answering
  BY <1>1, <1>4, <1>5 DEF Answering, Going, PeerSmooth
<1> QED
  BY <1>3, <1>5, <1>6 DEF PhaseWait

LEMMA SucceedsSmooth ==
  ASSUME Inv, Inv', Going, Succeeds
  PROVE  Going'
<1>1. /\ pc[Sender]["test"] = "got" /\ Goes(Sender, "test", "idle")
      /\ ~Ev!Suspended(event[Sender], "test")
      /\ e' = FALSE /\ ret' = "0" /\ acked' = acked + 1
      /\ UNCHANGED << heard, call, num_send, event, radio, buf_recv, sta >>
  BY DEF Succeeds, Runs, Ready, Air
<1>2. Moved(Sender, "test", "idle")
  BY <1>1, GoesDoes DEF Inv, Places, Both, Station
<1>3. PhaseWoken
  BY <1>1 DEF Going, PhaseIdle, PhaseSend, PhaseSent, PhaseWait
<1>4. pc'[Peer] = pc[Peer] /\ pc'[Sender]["recv"] = pc[Sender]["recv"] /\ pc'[Sender]["test"] = "idle"
  BY <1>2 DEF Moved, Both, Station, Sender, Peer
<1>5. Kept(Peer)' /\ PeerSmooth' /\ (Answering' <=> Answering)
  BY <1>1, <1>4, PeerRests
<1>6. (HasRx(Sender)' <=> HasRx(Sender)) /\ (Holds(Sender)' <=> Holds(Sender))
  BY <1>1, <1>4 DEF HasRx, Holds
<1>7. Kept(Sender)'
  BY <1>1, <1>4, <1>6 DEF Going, Kept
<1>8. acked' = call'
  BY <1>1, <1>3, NonLinkAssumption DEF PhaseWoken, Underway, Inv, Counts
<1>9. PhaseIdle'
  BY <1>1, <1>3, <1>4, <1>5, <1>6, <1>8 DEF PhaseIdle, PhaseWoken
<1>10. ~e' /\ num_send' = 0 /\ ~Flagged' /\ pc'[Sender]["recv"] \in {"got", "clear", "flush"}
  BY <1>1, <1>4 DEF Going, Flagged
<1> QED
  BY <1>5, <1>7, <1>9, <1>10 DEF Going

\* Nobody sends a second time.
LEMMA AgainSmooth == Going => ~Retries /\ ~GivesUp
<1>1. ASSUME Going, Runs(Sender, "test", "got"), ~Received
      PROVE  FALSE
  <2>1. /\ pc[Sender]["test"] = "got" /\ ~Ev!Suspended(event[Sender], "test")
        /\ event[Sender].got["test"] = {}
    BY <1>1 DEF Runs, Ready, Received
  <2> QED
    BY <1>1, <2>1 DEF Going, PhaseIdle, PhaseSend, PhaseSent, PhaseWait, PhaseWoken
<1> QED
  BY <1>1 DEF Retries, GivesUp
\* thread_recv of the sender goes on, and what it has is still there.
LEMMA SenderGoesOn ==
  ASSUME Going,
         pc'[Peer] = pc[Peer], radio'[Peer] = radio[Peer], sta'[Peer] = sta[Peer],
         buf_recv'[Peer] = buf_recv[Peer],
         pc'[Sender]["test"] = pc[Sender]["test"],
         pc'[Sender]["recv"] \in {"got", "clear", "flush"},
         radio'[Sender].mode = radio[Sender].mode, radio'[Sender].out = radio[Sender].out,
         radio'[Sender].flags \subseteq radio[Sender].flags,
         UNCHANGED << call, heard, acked, ret, e, num_send, wait_ack >>,
         Ev!Suspended(event'[Sender], "test") <=> Ev!Suspended(event[Sender], "test"),
         event'[Sender].got["test"] = event[Sender].got["test"],
         Flagged' <=> Flagged, Holds(Sender)' <=> Holds(Sender), Kept(Sender)'
  PROVE  Going'
<1>1. Kept(Peer)' /\ PeerSmooth' /\ (Answering' <=> Answering)
  BY PeerRests
<1>2. /\ PhaseIdle => PhaseIdle'
      /\ PhaseSend => PhaseSend'
      /\ PhaseSent => PhaseSent'
      /\ PhaseWait => PhaseWait'
      /\ PhaseWoken => PhaseWoken'
  BY <1>1 DEF PhaseIdle, PhaseSend, PhaseSent, PhaseWait, PhaseWoken, Underway
<1> QED
  BY <1>1, <1>2 DEF Going

LEMMA RxStatusSmooth ==
  ASSUME Inv, Inv', Going, NEW s \in Station, RxStatus(s)
  PROVE  Going'
<1>1. /\ pc[s]["recv"] = "got" /\ Goes(s, "recv", "clear")
      /\ sta' = [sta EXCEPT ![s] = radio[s].flags]
      /\ UNCHANGED << call, heard, acked, ret, e, num_send, wait_ack, event, radio, buf_recv >>
  BY DEF RxStatus, Runs, NonSend, Air
<1>2. Moved(s, "recv", "clear")
  BY <1>1, GoesDoes DEF Inv, Places, Both
<1>3. sta'[s] = radio[s].flags /\ \A o \in Station \ {s} : sta'[o] = sta[o]
  BY <1>1 DEF Inv, Parts
<1>4. /\ HasRx(s)' <=> HasRx(s)
      /\ Holds(s)' <=> Holds(s)
  BY <1>1, <1>2, <1>3 DEF HasRx, Holds, Moved
<1>5. Kept(s) => Kept(s)'
  BY <1>1, <1>2, <1>4 DEF Kept, Moved
<1>6. CASE s = Sender
  <2>1. /\ pc'[Peer] = pc[Peer] /\ sta'[Peer] = sta[Peer]
        /\ pc'[Sender]["test"] = pc[Sender]["test"] /\ pc'[Sender]["recv"] = "clear"
    BY <1>2, <1>3, <1>6 DEF Moved, Both, Station, Sender, Peer
  <2>2. Flagged' <=> Flagged
    BY <1>1 DEF Flagged
  <2> QED
    BY <1>1, <1>4, <1>5, <1>6, <2>1, <2>2, SenderGoesOn DEF Going
<1>7. CASE s = Peer
  <2>0. Peer \in Station /\ Sender \in Station \ {Peer}
    BY DEF Station, Sender, Peer
  <2>1. pc'[Peer]["recv"] = "clear"
    BY <1>2, <1>7 DEF Moved
  <2>2. PeerSmooth'
    BY <1>1, <1>4, <1>7, <2>1 DEF Going, PeerSmooth
  <2>3. Answering' <=> Answering
    BY <1>1, <1>4, <1>7, <2>1 DEF Answering
  <2>4. pc'[Sender] = pc[Sender] /\ sta'[Sender] = sta[Sender]
    BY <1>2, <1>3, <1>7, <2>0 DEF Moved
  <2> QED
    BY <1>1, <1>5, <1>7, <2>1, <2>2, <2>3, <2>4, SenderRests DEF Going
<1> QED
  BY <1>6, <1>7 DEF Station

LEMMA RxReadSmooth ==
  ASSUME Inv, Inv', Going, NEW s \in Station, RxRead(s)
  PROVE  Going'
<1>1. /\ pc[s]["recv"] = "clear"
      /\ UNCHANGED << call, heard, acked, ret, e, num_send, wait_ack >>
      /\ radio'[s].mode = radio[s].mode /\ radio'[s].fifo = radio[s].fifo
      /\ radio'[s].out = radio[s].out /\ radio'[s].flags = radio[s].flags \ sta[s]
      /\ \A o \in Station \ {s} : radio'[o] = radio[o]
      /\ sta' = [sta EXCEPT ![s] = {}]
  BY RxReadDoes
<1>2. \/ /\ "RX_DR" \in sta[s] /\ event' = event /\ Moved(s, "recv", "flush")
         /\ \A o \in Station \ {s} : buf_recv'[o] = buf_recv[o]
         /\ radio[s].fifo # << >> => buf_recv'[s] = radio[s].fifo[1]
      \/ /\ "RX_DR" \notin sta[s] /\ buf_recv' = buf_recv
         /\ Asks(s, "recv", event[s]) /\ Moved(s, "recv", "got")
  BY RxReadDoes
<1>3. sta'[s] = {} /\ \A o \in Station \ {s} : sta'[o] = sta[o]
  BY <1>1 DEF Inv, Parts
<1>4. pc'[s]["recv"] \in {"got", "flush"} /\ (pc'[s]["recv"] = "flush" <=> "RX_DR" \in sta[s])
  BY <1>2 DEF Moved
<1>5. Holds(s)' <=> Holds(s)
  BY <1>1, <1>3, <1>4 DEF HasRx, Holds
<1>6. Kept(s) => Kept(s)'
  <2>1. CASE "RX_DR" \in sta[s]
    <3>1. HasRx(s) /\ ~HasRx(s)'
      BY <1>1, <1>4, <2>1 DEF HasRx
    <3> QED
      BY <1>1, <1>2, <1>4, <2>1, <3>1 DEF Kept
  <2>2. CASE "RX_DR" \notin sta[s]
    <3>1. HasRx(s)' <=> HasRx(s)
      BY <1>1, <1>4, <2>2 DEF HasRx
    <3> QED
      BY <1>1, <1>2, <1>4, <2>2, <3>1 DEF Kept
  <2> QED
    BY <2>1, <2>2
<1>7. /\ pc'[s]["test"] = pc[s]["test"]
      /\ \A o \in Station \ {s} :
           pc'[o] = pc[o] /\ event'[o] = event[o] /\ buf_recv'[o] = buf_recv[o]
  BY <1>2 DEF Moved, Both, Asks
<1>8. CASE s = Sender
  <2>1. /\ Ev!Suspended(event'[Sender], "test") <=> Ev!Suspended(event[Sender], "test")
        /\ event'[Sender].got["test"] = event[Sender].got["test"]
        /\ Flagged' <=> Flagged
    BY <1>2, <1>8 DEF Asks, Becomes, Flagged, FlagOf, Both
  <2>2. Peer \in Station \ {s}
    BY <1>8 DEF Station, Sender, Peer
  <2> QED
    BY <1>1, <1>3, <1>4, <1>5, <1>6, <1>7, <1>8, <2>1, <2>2, SenderGoesOn DEF Going
<1>9. CASE s = Peer
  <2>0. Sender \in Station \ {s}
    BY <1>9 DEF Station, Sender, Peer
  <2>1. radio[Peer].out = << >>
    BY <1>1, <1>9 DEF Going, PeerSmooth
  <2>2. PeerSmooth'
    <3>1. CASE "RX_DR" \in sta[s]
      <4>1. HasRx(Peer) /\ ~HasRx(Peer)'
        BY <1>1, <1>4, <1>9, <3>1 DEF HasRx
      <4>2. radio'[Peer].flags = {}
        BY <1>1, <1>9, <3>1, <4>1 DEF Going, PeerSmooth
      <4> QED
        BY <1>1, <1>4, <1>9, <2>1, <4>1, <4>2 DEF PeerSmooth
    <3>2. CASE "RX_DR" \notin sta[s]
      <4>1. HasRx(Peer)' <=> HasRx(Peer)
        BY <1>1, <1>4, <1>9, <3>2 DEF HasRx
      <4> QED
        BY <1>1, <1>4, <1>9, <2>1, <3>2, <4>1 DEF Going, PeerSmooth
    <3> QED
      BY <3>1, <3>2
  <2>3. Answering' <=> Answering
    BY <1>1, <1>4, <1>5, <1>9 DEF Answering
  <2>4. ~Answering => pc'[Peer]["recv"] \in {"got", "clear"}
    BY <1>1, <1>4, <1>9 DEF Answering, Holds, HasRx
  <2> QED
    BY <1>1, <1>3, <1>6, <1>7, <1>9, <2>0, <2>2, <2>3, <2>4, SenderRests DEF Going
<1> QED
  BY <1>8, <1>9 DEF Station

LEMMA RxHandleSmooth ==
  ASSUME Inv, Inv', Going, NEW s \in Station, RxHandle(s)
  PROVE  Going'
<1>1. /\ pc[s]["recv"] = "flush"
      /\ UNCHANGED << call, heard, acked, ret, e, num_send, wait_ack, buf_recv, sta >>
      /\ radio'[s].fifo = << >>
      /\ radio'[s].out = radio[s].out /\ radio'[s].flags = radio[s].flags
      /\ \A o \in Station \ {s} : radio'[o] = radio[o]
  BY RxHandleDoes
<1>2. ForMe(s) /\ ~HasRx(s)
  BY <1>1 DEF Going, Kept, ForMe, Station
<1>3. \/ /\ Awaited(s) /\ Moved(s, "recv", "got")
         /\ \E x : /\ Becomes(event[s], x, "test", FALSE,
                              ~Ev!Suspended(event[s], "test"),
                              IF Ev!Suspended(event[s], "test") THEN {"EV_SEND_V"}
                              ELSE event[s].got["test"])
                   /\ Asks(s, "recv", x)
      \/ ~Awaited(s) /\ Moved(s, "recv", "send") /\ event' = event
  BY <1>2, RxHandleDoes
<1>4. sta[s] = {}
  BY <1>1 DEF Inv, Shape, ShapeAt
<1>5. pc'[s]["recv"] # "flush" /\ ~HasRx(s)' /\ Kept(s)'
  BY <1>1, <1>2, <1>3, <1>4 DEF Moved, HasRx, Kept
<1>6. CASE s = Sender
  <2>1. PhaseWait /\ ~Answering
    BY <1>1, <1>6 DEF Going, Holds, PhaseIdle, PhaseSend, PhaseSent, PhaseWait, PhaseWoken
  <2>2. Awaited(s) /\ Ev!Suspended(event[s], "test")
    BY <1>6, <2>1 DEF PhaseWait, Underway, Awaited
  <2>3. PICK x : /\ Becomes(event[s], x, "test", FALSE, FALSE, {"EV_SEND_V"})
                 /\ Asks(s, "recv", x)
    BY <1>3, <2>2
  <2>4. event'[Sender].got["test"] # {} /\ ~Flagged'
    BY <1>6, <2>3 DEF Flagged, Asks, Becomes, FlagOf, Both
  <2>5. /\ pc'[Sender]["recv"] = "got" /\ pc'[Sender]["test"] = pc[Sender]["test"]
        /\ pc'[Peer] = pc[Peer] /\ radio'[Peer] = radio[Peer]
    <3>1. Moved(s, "recv", "got")
      BY <1>3, <2>2
    <3>2. Peer \in Station \ {s}
      BY <1>6 DEF Station, Sender, Peer
    <3> QED
      BY <1>1, <1>6, <3>1, <3>2 DEF Moved, Both
  <2>6. Kept(Peer)' /\ PeerSmooth' /\ (Answering' <=> Answering)
    BY <1>1, <2>5, PeerRests
  <2>7. ~Holds(Sender)'
    BY <1>5, <1>6 DEF Holds
  <2>8. PhaseWoken'
    BY <1>1, <1>6, <2>1, <2>4, <2>5, <2>6, <2>7 DEF PhaseWait, PhaseWoken, Underway
  <2>9. ~e' /\ num_send' = 0
    BY <1>1 DEF Going
  <2> QED
    BY <1>5, <1>6, <2>4, <2>5, <2>6, <2>8, <2>9 DEF Going
<1>7. CASE s = Peer
  <2>0. Sender \in Station \ {s} /\ ~Awaited(s)
    BY <1>7 DEF Awaited, Station, Sender, Peer
  <2>1. Moved(s, "recv", "send") /\ event' = event
    BY <1>3, <2>0
  <2>2. radio[Peer].flags = {} /\ radio[Peer].out = << >>
    BY <1>1, <1>7 DEF Going, PeerSmooth
  <2>3. PeerSmooth'
    BY <1>1, <1>5, <1>7, <2>1, <2>2 DEF PeerSmooth, Moved
  <2>4. Answering /\ Answering'
    BY <1>1, <1>7, <2>1 DEF Answering, Holds, Moved
  <2> QED
    BY <1>1, <1>5, <1>7, <2>0, <2>1, <2>3, <2>4, SenderRests DEF Moved
<1> QED
  BY <1>6, <1>7 DEF Station

LEMMA TransmitSmooth ==
  ASSUME Inv, Inv', Going, NEW s \in Station, Transmit(s), smooth'
  PROVE  Going'
<1>1. /\ Rises(Sender)
      /\ UNCHANGED << call, acked, ret, e, num_send, wait_ack, buf_recv, sta, pc >>
  BY TransmitDoes DEF Station
<1>2. PICK hears \in BOOLEAN : Carries(s, hears)
  BY TransmitDoes
<1>3. hears /\ radio[Other(s)].mode = "rx" /\ radio[Other(s)].flags = {}
  BY <1>2 DEF Carries
<1>4. /\ Ev!Suspended(event'[Sender], "test") <=> Ev!Suspended(event[Sender], "test")
      /\ event'[Sender].got["test"] = event[Sender].got["test"]
      /\ Flagged' <=> Flagged
  BY <1>1 DEF Rises, Becomes, Flagged, FlagOf, Both
<1>5. ~e' /\ num_send' = 0 /\ ~Flagged' /\ pc'[Sender]["recv"] \in {"got", "clear", "flush"}
  BY <1>1, <1>4 DEF Going
<1>6. CASE s = Sender
  <2>0. Other(s) = Peer
    BY <1>6 DEF Other, Sender, Peer
  <2>1. radio[Sender].out # << >> /\ PhaseSend /\ pc[Sender]["test"] = "spin"
    BY <1>2, <1>6 DEF Carries, Going, PhaseIdle, PhaseSend, PhaseSent, PhaseWait, PhaseWoken
  <2>2. radio[Sender].out = << [dst |-> Peer, call |-> call] >>
    BY <2>1 DEF PhaseSend
  <2>3. radio[Sender].out[1].dst = Peer /\ radio[Sender].out[1].call = call
    BY <2>2
  <2>4. ~HasRx(Peer) /\ radio[Peer].out = << >> /\ pc[Peer]["recv"] \in {"got", "clear"}
    BY <2>1 DEF PhaseSend, Answering, Holds
  <2>5. radio[Peer].fifo = << >>
    BY <2>4 DEF Going, Kept
  <2>6. /\ radio'[Peer].fifo = << radio[Sender].out[1] >> /\ radio'[Peer].flags = {"RX_DR"}
        /\ radio'[Peer].out = << >>
    BY <1>2, <1>3, <1>6, <2>0, <2>4, <2>5 DEF Carries
  <2>7. HasRx(Peer)' /\ Answering'
    BY <2>6 DEF HasRx, Answering, Holds
  <2>8. Kept(Peer)' /\ PeerSmooth'
    BY <1>1, <2>3, <2>4, <2>6, <2>7 DEF Kept, PeerSmooth
  <2>9. /\ radio'[Sender].out = << >> /\ radio'[Sender].mode = "tx"
        /\ radio'[Sender].fifo = radio[Sender].fifo
        /\ radio'[Sender].flags = radio[Sender].flags \cup {"TX_DS"}
    BY <1>2, <1>6, <2>1, <2>2 DEF Carries
  <2>10. (HasRx(Sender)' <=> HasRx(Sender)) /\ (Holds(Sender)' <=> Holds(Sender))
    BY <1>1, <2>9 DEF HasRx, Holds
  <2>11. Kept(Sender)'
    BY <1>1, <2>9, <2>10 DEF Going, Kept
  <2>12. call # 0
    BY <2>1, NonLinkAssumption DEF PhaseSend, Underway, Inv, Counts
  <2>13. call \in heard'
    BY <1>2, <1>3, <1>6, <2>3, <2>12 DEF Carries
  <2>14. PhaseSent'
    BY <1>1, <2>1, <2>7, <2>9, <2>10, <2>13 DEF PhaseSend, PhaseSent, Underway
  <2> QED
    BY <1>5, <2>8, <2>11, <2>14 DEF Going
<1>7. CASE s = Peer
  <2>0. Other(s) = Sender /\ s # Sender
    BY <1>7 DEF Other, Sender, Peer
  <2>1. /\ radio[Peer].out # << >> /\ pc[Peer]["recv"] = "spin" /\ radio[Peer].flags = {}
        /\ radio[Peer].out = << [dst |-> Sender, call |-> 0] >>
    BY <1>2, <1>7 DEF Carries, Going, PeerSmooth
  <2>2. Answering /\ ~HasRx(Peer)
    BY <2>1 DEF Answering, HasRx
  <2>3. PhaseWait /\ ~Holds(Sender)
    BY <1>3, <2>0, <2>2 DEF Going, PhaseIdle, PhaseSend, PhaseSent, PhaseWait, PhaseWoken
  <2>4. radio[Sender].fifo = << >> /\ pc[Sender]["recv"] # "flush"
    BY <2>3 DEF Going, Kept, Holds
  <2>5. radio[Peer].out[1].dst = Sender
    BY <2>1
  <2>6. /\ radio'[Sender].fifo = << radio[Peer].out[1] >>
        /\ radio'[Sender].flags = {"RX_DR"}
        /\ radio'[Sender].out = radio[Sender].out /\ heard' = heard
    BY <1>2, <1>3, <1>7, <2>0, <2>4 DEF Carries
  <2>7. HasRx(Sender)' /\ Holds(Sender)'
    BY <2>6 DEF HasRx, Holds
  <2>8. Kept(Sender)'
    BY <1>1, <2>4, <2>5, <2>6, <2>7 DEF Kept
  <2>9. /\ radio'[Peer].out = << >> /\ radio'[Peer].fifo = radio[Peer].fifo
        /\ radio'[Peer].flags = {"TX_DS"}
    BY <1>2, <1>7, <2>1 DEF Carries
  <2>10. ~HasRx(Peer)' /\ ~Answering'
    BY <1>1, <2>1, <2>9 DEF HasRx, Holds, Answering
  <2>11. Kept(Peer)' /\ PeerSmooth'
    BY <1>1, <2>1, <2>2, <2>9, <2>10 DEF Going, Kept, PeerSmooth
  <2>12. PhaseWait'
    BY <1>1, <1>4, <2>3, <2>6, <2>7, <2>10 DEF PhaseWait, Underway
  <2> QED
    BY <1>5, <2>8, <2>11, <2>12 DEF Going
<1> QED
  BY <1>6, <1>7 DEF Station

LEMMA NextSmooth == Inv /\ Inv' /\ Smooth /\ [Next]_vars => Smooth'
<1> SUFFICES ASSUME Inv, Inv', Smooth, [Next]_vars, smooth', lucky'
             PROVE  Going'
  BY DEF Smooth
<1>0. Sender \in Station /\ {"test", "recv"} = Both
  BY DEF Station, Both
<1>1. smooth
  <2>1. ASSUME NEW s \in Station, Transmit(s)
        PROVE  smooth
    <3>1. PICK hears \in BOOLEAN : Carries(s, hears)
      BY <2>1, TransmitDoes
    <3> QED
      BY <3>1 DEF Carries
  <2> QED
    BY <2>1 DEF Next, Test, TimedOut, Receiver, Preempt, Begin, Succeeds, Retries, GivesUp,
       TxStart, TxEnd, RxStatus, RxRead, RxHandle, Air, vars
<1>2. lucky
  <2>1. ASSUME Begin
        PROVE  lucky
    <3>1. PICK chance \in BOOLEAN : e' = chance /\ lucky' = (lucky /\ ~chance)
      BY <2>1 DEF Begin
    <3> QED
      BY <3>1, Zenon
  <2> QED
    BY <2>1 DEF Next, Test, TimedOut, Receiver, Preempt, Succeeds, Retries, GivesUp,
       TxStart, TxEnd, RxStatus, RxRead, RxHandle, Transmit, NonSend, vars
<1>3. Going
  BY <1>1, <1>2 DEF Smooth
<1>4. CASE Test
  BY <1>0, <1>3, <1>4, BeginSmooth, SucceedsSmooth, AgainSmooth, TxStartSmooth, TxEndSmooth
     DEF Test, Both
<1>5. CASE TimedOut
  BY <1>3, <1>5, TimedOutSmooth
<1>6. ASSUME NEW s \in Station, Receiver(s)
      PROVE  Going'
  BY <1>3, <1>6, RxStatusSmooth, RxReadSmooth, RxHandleSmooth, TxStartSmooth, TxEndSmooth
     DEF Receiver, Both
<1>7. ASSUME NEW s \in Station, Transmit(s)
      PROVE  Going'
  BY <1>3, <1>7, TransmitSmooth
<1>8. ASSUME NEW s \in Station, NEW t \in Both, Preempt(s, t)
      PROVE  Going'
  BY <1>8 DEF Preempt
<1>9. CASE UNCHANGED vars
  BY <1>3, <1>9 DEF vars, Going, Flagged, Kept, PeerSmooth, HasRx, Holds, Answering,
     PhaseIdle, PhaseSend, PhaseSent, PhaseWait, PhaseWoken, Underway
<1> QED
  BY <1>0, <1>4, <1>5, <1>6, <1>7, <1>8, <1>9 DEF Next

LEMMA InitSmooth == Init => Smooth
<1> SUFFICES ASSUME Init
             PROVE  Going
  BY DEF Smooth
<1>1. /\ e = FALSE /\ num_send = 0 /\ call = 0 /\ acked = 0 /\ ret = "none"
      /\ \A s \in Station : sta[s] = {}
  BY DEF Init
<1>2. \A s \in Station : /\ radio[s].fifo = << >> /\ radio[s].out = << >>
                         /\ radio[s].flags = {} /\ pc[s]["recv"] = "got"
                         /\ pc[s]["test"] = "idle"
  <2>1. /\ Rf!FreshChip.fifo = << >> /\ Rf!FreshChip.out = << >>
        /\ Rf!FreshChip.flags = {}
    BY DEF Rf!FreshChip
  <2> QED
    BY <2>1, InitDoes
<1>3. Sender \in Station /\ Peer \in Station
  BY DEF Station
<1>4. \A s \in Station : ~HasRx(s) /\ ~Holds(s)
  BY <1>2 DEF HasRx, Holds
<1>5. \A s \in Station : Kept(s)
  BY <1>2, <1>4 DEF Kept
<1>6. ~Answering /\ PeerSmooth
  BY <1>2, <1>3, <1>4 DEF Answering, PeerSmooth
<1>7. ~Flagged
  BY <1>3, InitDoes DEF Flagged, Flag
<1>8. PhaseIdle
  BY <1>1, <1>2, <1>3, <1>4, <1>6 DEF PhaseIdle
<1> QED
  BY <1>1, <1>2, <1>3, <1>5, <1>6, <1>7, <1>8 DEF Going

\* As long as nothing is missed, early or raced, non_send returns 0 for every message,
\* and the other station has heard it.
THEOREM SmoothIsRight == Spec => []SmoothSucceeds
<1>1. Init => Inv /\ Smooth
  BY InitInv, InitSmooth
<1>2. Inv /\ Smooth /\ [Next]_vars => (Inv /\ Smooth)'
  BY NextInv, NextSmooth
<1>3. Smooth => SmoothSucceeds
  BY DEF Smooth, SmoothSucceeds, Going, PhaseIdle, PhaseSend, PhaseSent, PhaseWait,
         PhaseWoken, Underway
<1> QED
  BY <1>1, <1>2, <1>3, PTL DEF Spec
=============================================================================

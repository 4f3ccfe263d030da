---------------------------- MODULE NetworkProofs ----------------------------
(***************************************************************************)
(* Theorems about Network, for any number of nodes, any number of          *)
(* addresses a byte can hold, and any number of faults: the pool, the      *)
(* types, and that it implements AddressServer.  And, for any number of    *)
(* nodes that nothing comes in the way of, that every node that was        *)
(* started is registered before the network comes to rest: the stages of   *)
(* one registration, and that they follow each other while all other nodes *)
(* only listen.                                                            *)
(***************************************************************************)
EXTENDS Network, FiniteSetTheorems, SequenceTheorems, TLAPS

\* p is a sequence whose addresses count up, modulo what a byte
\* holds, and no id comes twice.
Counted(p) ==
  /\ p \in Seq({p[i] : i \in 1 .. Len(p)})
  /\ \A i \in 1 .. Len(p) : p[i].addr = (i - 1) % AddrSpace
  /\ \A i, j \in 1 .. Len(p) : i # j => p[i].id # p[j].id

\* get_addr keeps that, whatever it is asked for.
LEMMA GrownSteps ==
  ASSUME NEW p, Counted(p), NEW id
  PROVE  Counted(Dh!Grown(p, id))
<1> DEFINE g == Dh!Grown(p, id)
<1> HIDE DEF g
<1> SUFFICES Counted(g)
  BY DEF g
<1>1. CASE Dh!Found(p, id)
  <2>1. g = p
    BY <1>1 DEF g, Dh!Grown
  <2> QED
    BY <2>1 DEF Counted
<1>2. CASE ~Dh!Found(p, id)
  <2> DEFINE new == [id |-> id, addr |-> Len(p) % AddrSpace]
             S   == {p[i] : i \in 1 .. Len(p)}
             n   == Len(p)
  <2>1. p \in Seq(S) /\ n \in Nat
    BY DEF Counted
  <2>2. g = Append(p, new)
    BY <1>2 DEF g, Dh!Grown
  <2> HIDE DEF S
  <2>3. /\ g \in Seq(S \cup {new}) /\ Len(g) = n + 1
        /\ g[n + 1] = new
        /\ \A i \in 1 .. n : g[i] = p[i]
    <3>1. p \in Seq(S \cup {new}) /\ new \in S \cup {new}
      BY <2>1
    <3> QED
      BY <2>2, <3>1
  <2>4. g \in Seq({g[i] : i \in 1 .. Len(g)})
    BY <2>3
  <2>5. \A i \in 1 .. n + 1 : g[i].addr = (i - 1) % AddrSpace
    <3> TAKE i \in 1 .. n + 1
    <3>1. CASE i = n + 1
      BY <2>1, <2>3, <3>1
    <3>2. CASE i \in 1 .. n
      BY <2>3, <3>2 DEF Counted
    <3> QED
      BY <2>1, <3>1, <3>2
  <2>6. \A i \in 1 .. n : p[i].id # id
    BY <1>2 DEF Dh!Found
  <2>7. \A i, j \in 1 .. n + 1 : i # j => g[i].id # g[j].id
    <3> SUFFICES ASSUME NEW i \in 1 .. n + 1, NEW j \in 1 .. n + 1, i # j
                 PROVE  g[i].id # g[j].id
      OBVIOUS
    <3>1. CASE i \in 1 .. n /\ j \in 1 .. n
      BY <2>3, <3>1 DEF Counted
    <3>2. CASE i = n + 1 /\ j \in 1 .. n
      BY <2>3, <2>6, <3>2
    <3>3. CASE i \in 1 .. n /\ j = n + 1
      BY <2>3, <2>6, <3>3
    <3> QED
      BY <2>1, <3>1, <3>2, <3>3
  <2> QED
    BY <2>3, <2>4, <2>5, <2>7 DEF Counted
<1> QED
  BY <1>1, <1>2

\* dhcp_init: the router alone.
LEMMA FirstPool == Counted(Dh!dhcp_init(Router))
<1> DEFINE entry == [id |-> Router, addr |-> 0]
           p     == Dh!dhcp_init(Router)
<1> HIDE DEF p
<1> SUFFICES Counted(p)
  BY DEF p
<1>1. p = << entry >>
  BY DEF p, Dh!dhcp_init
<1>2. Len(p) = 1 /\ p[1] = entry /\ p \in Seq({entry})
  BY <1>1
<1>3. {p[i] : i \in 1 .. Len(p)} = {entry}
  BY <1>2
<1>4. 0 % AddrSpace = 0
  BY NetworkAssumption
<1> QED
  BY <1>2, <1>3, <1>4 DEF Counted

PoolInv == Counted(pool)

LEMMA PoolInvNext == PoolInv /\ [Next]_vars => PoolInv'
<1> SUFFICES ASSUME PoolInv, [Next]_vars
             PROVE  PoolInv'
  OBVIOUS
<1>1. CASE RouterAnswers
  BY <1>1, GrownSteps DEF RouterAnswers, PoolInv
<1>2. CASE RestartRouter
  BY <1>2, FirstPool DEF RestartRouter, PoolInv
<1>3. CASE UNCHANGED pool
  BY <1>3 DEF PoolInv
<1>4. RouterStep => RouterAnswers \/ UNCHANGED pool
  BY DEF RouterStep, RouterReceives, RouterLooks, RouterCopies, TxEnd
<1>5. \A n : NodeStep(n) => UNCHANGED pool
  BY DEF NodeStep, NodeAsks, NodeLooks, NodeTakes, NodeDecides, TxEnd
<1>6. \A b : Step(b) => RouterAnswers \/ UNCHANGED pool
  BY <1>4, <1>5 DEF Step, RxFlush
<1>7. Next => RouterAnswers \/ RestartRouter \/ UNCHANGED pool
  BY <1>6 DEF Next, Work, Transmit, Preempt, Start, RestartNode, RouterFails
<1>8. UNCHANGED vars => UNCHANGED pool
  BY DEF vars
<1> QED
  BY <1>1, <1>2, <1>3, <1>7, <1>8

\* Whatever is lost, misread, overwritten in recv_buf or restarted, and however
\* many nodes there are: as long as the count fits its byte, no id is listed twice
\* and no address given out twice.
THEOREM NetworkPoolSound == Spec => []PoolSound
<1>1. Init => PoolInv
  BY FirstPool DEF Init, PoolInv
<1>2. PoolInv => PoolSound
  <2> SUFFICES ASSUME PoolInv, Len(pool) <= AddrSpace,
                      NEW i \in 1 .. Len(pool), NEW j \in 1 .. Len(pool), i # j
               PROVE  pool[i].id # pool[j].id /\ pool[i].addr # pool[j].addr
    BY DEF PoolSound, Dh!PoolSound
  <2>1. Len(pool) \in Nat
    BY DEF PoolInv, Counted
  <2>2. \A k \in 0 .. AddrSpace - 1 : k % AddrSpace = k
    BY NetworkAssumption
  <2>3. \A k \in 1 .. Len(pool) : pool[k].addr = k - 1
    <3> TAKE k \in 1 .. Len(pool)
    <3>1. k - 1 \in 0 .. AddrSpace - 1
      BY <2>1, NetworkAssumption
    <3>2. pool[k].addr = (k - 1) % AddrSpace
      BY DEF PoolInv, Counted
    <3> QED
      BY <2>2, <3>1, <3>2
  <2> QED
    BY <2>1, <2>3 DEF PoolInv, Counted
<1> QED
  BY <1>1, <1>2, PoolInvNext, PTL DEF Spec

Bd == INSTANCE BoardProofs WITH Flags <- Flag, Threads <- Thread

-----------------------------------------------------------------------------
(* The event of a board *)

MaskOf(b, t) == Mask(b, t)[1]
AllOf(b, t) == Mask(b, t)[2]
WaitOf(b, t) == [thread |-> t, mask |-> MaskOf(b, t), all |-> AllOf(b, t)]

\* Each thread waits for its own flags, and only as long as none is there.
Good(b, x) ==
  /\ Bd!Tidy(x)
  /\ Bd!Waits(x) \subseteq {WaitOf(b, "nm"), WaitOf(b, "reg")}
  /\ \A t \in Thread :
       Ev!Suspended(x, t) => x.got[t] = {} /\ x.set \cap MaskOf(b, t) = {}

LEMMA SameSend ==
  ASSUME NEW x, NEW f
  PROVE  Ev!rt_event_send(x, f) = Bd!rt_event_send(x, f)
BY DEF Ev!rt_event_send, Bd!rt_event_send, Ev!FoldLeft, Bd!FoldLeft,
       Ev!MapThenFoldSet, Bd!MapThenFoldSet, Ev!Max, Bd!Max,
       Ev!Visit, Bd!Visit, Ev!Satisfied, Bd!Satisfied

LEMMA SameRecv ==
  ASSUME NEW x, NEW t, NEW m, NEW a
  PROVE  Ev!rt_event_recv(x, t, m, a) = Bd!rt_event_recv(x, t, m, a)
BY DEF Ev!rt_event_recv, Bd!rt_event_recv, Ev!Satisfied, Bd!Satisfied

LEMMA SameSuspended ==
  ASSUME NEW x, NEW t
  PROVE  Ev!Suspended(x, t) = Bd!Suspended(x, t)
BY DEF Ev!Suspended, Bd!Suspended

LEMMA SameEvent == Ev!Event = Bd!Event
BY DEF Ev!Event, Bd!Event, Ev!Wait, Bd!Wait

LEMMA RadioSame ==
  /\ Rf!Chip = Bd!Chip /\ Rf!FreshChip = Bd!FreshChip
  /\ \A c, p : Rf!StartTx(c, p) = Bd!StartTx(c, p) /\ Rf!Receive(c, p) = Bd!Receive(c, p)
  /\ \A c, f : Rf!WriteStatus(c, f) = Bd!WriteStatus(c, f)
  /\ \A c : /\ Rf!EndTx(c) = Bd!EndTx(c) /\ Rf!FlushRx(c) = Bd!FlushRx(c)
            /\ Rf!Sent(c) = Bd!Sent(c)
BY DEF Rf!Chip, Bd!Chip, Rf!FreshChip, Bd!FreshChip, Rf!StartTx, Bd!StartTx,
       Rf!Receive, Bd!Receive, Rf!WriteStatus, Bd!WriteStatus, Rf!EndTx, Bd!EndTx,
       Rf!FlushRx, Bd!FlushRx, Rf!Sent, Bd!Sent

LEMMA PairIs ==
  ASSUME NEW x, NEW a, NEW c, x = << a, c >>
  PROVE  x[1] = a /\ x[2] = c
OBVIOUS

LEMMA MaskReg ==
  ASSUME NEW b
  PROVE  MaskOf(b, "reg") = {"RECV_REG"} /\ AllOf(b, "reg") = TRUE
<1>1. Mask(b, "reg") = << {"RECV_REG"}, TRUE >>
  BY Zenon DEF Mask
<1> QED
  BY Zenon, <1>1, PairIs DEF MaskOf, AllOf

LEMMA MaskRouter ==
  MaskOf(Router, "nm") = {"RECV_PACKET"} /\ AllOf(Router, "nm") = TRUE
<1>1. Mask(Router, "nm") = << {"RECV_PACKET"}, TRUE >>
  BY DEF Mask
<1> QED
  BY Zenon, <1>1, PairIs DEF MaskOf, AllOf

LEMMA MaskNode ==
  ASSUME NEW b, b # Router
  PROVE  MaskOf(b, "nm") = {"RECV_PACKET", "SEND_PACKET"} /\ AllOf(b, "nm") = FALSE
<1>1. Mask(b, "nm") = << {"RECV_PACKET", "SEND_PACKET"}, FALSE >>
  BY DEF Mask
<1> QED
  BY Zenon, <1>1, PairIs DEF MaskOf, AllOf

LEMMA MasksAre ==
  ASSUME NEW b
  PROVE  /\ MaskOf(b, "reg") = {"RECV_REG"}
         /\ MaskOf(b, "nm") = IF b = Router THEN {"RECV_PACKET"}
                              ELSE {"RECV_PACKET", "SEND_PACKET"}
         /\ MaskOf(b, "nm") \cap MaskOf(b, "reg") = {}
BY MaskReg, MaskRouter, MaskNode

LEMMA WaitIs ==
  ASSUME NEW b, NEW t \in Thread
  PROVE  /\ MaskOf(b, t) \in SUBSET Flag /\ AllOf(b, t) \in BOOLEAN
         /\ WaitOf(b, t).thread = t /\ WaitOf(b, t).mask = MaskOf(b, t)
         /\ WaitOf(b, t).all = AllOf(b, t)
<1>1. MaskOf(b, t) \in SUBSET Flag
  BY MasksAre DEF Flag, Thread
<1>2. AllOf(b, t) \in BOOLEAN
  BY MaskReg, MaskRouter, MaskNode DEF Thread
<1> QED
  BY <1>1, <1>2 DEF WaitOf

LEMMA SatisfiedIs ==
  ASSUME NEW b, NEW t \in Thread, NEW set
  PROVE  Bd!Satisfied(set, MaskOf(b, t), AllOf(b, t)) <=> set \cap MaskOf(b, t) # {}
<1>1. ASSUME NEW f, NEW all
      PROVE  Bd!Satisfied(set, {f}, all) <=> set \cap {f} # {}
  BY DEF Bd!Satisfied
<1>2. ASSUME NEW mask
      PROVE  Bd!Satisfied(set, mask, FALSE) <=> set \cap mask # {}
  BY DEF Bd!Satisfied
<1>3. CASE t = "reg"
  BY <1>1, <1>3, MaskReg
<1>4. CASE t = "nm" /\ b = Router
  BY <1>1, <1>4, MaskRouter
<1>5. CASE t = "nm" /\ b # Router
  BY <1>2, <1>5, MaskNode
<1> QED
  BY <1>3, <1>4, <1>5 DEF Thread

LEMMA SuspendedIs ==
  ASSUME NEW b, NEW x, Good(b, x), NEW t \in Thread
  PROVE  Ev!Suspended(x, t) <=> WaitOf(b, t) \in Bd!Waits(x)
<1>1. Ev!Suspended(x, t) <=> \E w \in Bd!Waits(x) : w.thread = t
  BY DEF Ev!Suspended, Bd!Waits
<1>2. WaitOf(b, "nm").thread = "nm" /\ WaitOf(b, "reg").thread = "reg"
  BY DEF WaitOf
<1> QED
  BY <1>1, <1>2 DEF Good, Thread

\* r is x after one flag was sent.
Posted(b, x, f, r) ==
  /\ Good(b, r)
  /\ \A t \in Thread :
       /\ Ev!Suspended(r, t) <=> Ev!Suspended(x, t) /\ f \notin MaskOf(b, t)
       /\ r.got[t] = IF Ev!Suspended(x, t) /\ f \in MaskOf(b, t) THEN {f} ELSE x.got[t]
  /\ \A g \in Flag :
       g \in r.set <=> \/ g \in x.set
                       \/ g = f /\ \A t \in Thread : Ev!Suspended(x, t) => f \notin MaskOf(b, t)

LEMMA Posts ==
  ASSUME NEW b, NEW x, Good(b, x), NEW f \in Flag
  PROVE  Posted(b, x, f, Ev!rt_event_send(x, {f}))
<1> DEFINE flags == {f}
           r == Ev!rt_event_send(x, flags)
<1>1. Bd!Served(x, flags, r)
  <2>1. flags \in SUBSET Flag
    OBVIOUS
  <2> QED
    BY <2>1, SameSend, Bd!SendServes DEF Good
<1> HIDE DEF r
<1>2. /\ Bd!Tidy(x) /\ Bd!Waits(x) \subseteq {WaitOf(b, "nm"), WaitOf(b, "reg")}
      /\ \A t \in Thread :
           Ev!Suspended(x, t) => x.got[t] = {} /\ x.set \cap MaskOf(b, t) = {}
  BY DEF Good
<1>3. \A w : w \in Bd!Due(x, flags) <=>
               \E t \in Thread : w = WaitOf(b, t) /\ Ev!Suspended(x, t) /\ f \in MaskOf(b, t)
  <2>1. \A t \in Thread : WaitOf(b, t) \in Bd!Due(x, flags) <=>
                            Ev!Suspended(x, t) /\ f \in MaskOf(b, t)
    <3> SUFFICES ASSUME NEW t \in Thread
                 PROVE  WaitOf(b, t) \in Bd!Due(x, flags) <=>
                          Ev!Suspended(x, t) /\ f \in MaskOf(b, t)
      OBVIOUS
    <3>1. Ev!Suspended(x, t) => ((x.set \cup flags) \cap MaskOf(b, t) # {} <=> f \in MaskOf(b, t))
      BY <1>2
    <3>2. Bd!Satisfied(x.set \cup flags, WaitOf(b, t).mask, WaitOf(b, t).all)
            <=> (x.set \cup flags) \cap MaskOf(b, t) # {}
      BY SatisfiedIs, WaitIs
    <3>3. Ev!Suspended(x, t) <=> WaitOf(b, t) \in Bd!Waits(x)
      BY SuspendedIs
    <3> QED
      BY <3>1, <3>2, <3>3 DEF Bd!Due
  <2>2. \A w \in Bd!Due(x, flags) : \E t \in Thread : w = WaitOf(b, t)
    BY <1>2 DEF Bd!Due, Thread
  <2> QED
    BY <2>1, <2>2
<1>4. /\ Bd!Tidy(r) /\ Bd!Waits(r) = Bd!Waits(x) \ Bd!Due(x, flags)
      /\ \A g : g \in r.set <=> /\ g \in x.set \cup flags
                               /\ \A w \in Bd!Due(x, flags) : g \notin w.mask
      /\ \A w \in Bd!Due(x, flags) : r.got[w.thread] = w.mask \cap (x.set \cup flags)
      /\ \A u \in Thread :
           (\A w \in Bd!Due(x, flags) : w.thread # u) => r.got[u] = x.got[u]
  BY <1>1 DEF Bd!Served
<1>5. \A u \in Thread : WaitOf(b, u).thread = u /\ WaitOf(b, u).mask = MaskOf(b, u)
  BY WaitIs
<1>6. \A u \in Thread : Bd!Suspended(r, u) <=> WaitOf(b, u) \in Bd!Waits(r)
  <2>1. \A u \in Thread : Bd!Suspended(r, u) <=> \E w \in Bd!Waits(r) : w.thread = u
    BY DEF Bd!Suspended, Bd!Waits
  <2> QED
    BY <1>2, <1>4, <1>5, <2>1 DEF Thread
<1>7. \A u \in Thread : Ev!Suspended(r, u) <=> Ev!Suspended(x, u) /\ f \notin MaskOf(b, u)
  <2>1. \A u \in Thread : Ev!Suspended(x, u) <=> WaitOf(b, u) \in Bd!Waits(x)
    BY SuspendedIs
  <2>2. \A u \in Thread : WaitOf(b, u) \in Bd!Due(x, flags) <=>
                            Ev!Suspended(x, u) /\ f \in MaskOf(b, u)
    BY <1>3, <1>5
  <2> QED
    BY <1>4, <1>6, <2>1, <2>2, SameSuspended
<1>8. \A t \in Thread :
        r.got[t] = IF Ev!Suspended(x, t) /\ f \in MaskOf(b, t) THEN {f} ELSE x.got[t]
  <2> SUFFICES ASSUME NEW t \in Thread
               PROVE  r.got[t] = IF Ev!Suspended(x, t) /\ f \in MaskOf(b, t) THEN {f}
                                 ELSE x.got[t]
    OBVIOUS
  <2>1. CASE Ev!Suspended(x, t) /\ f \in MaskOf(b, t)
    <3>1. r.got[t] = MaskOf(b, t) \cap (x.set \cup flags)
      <4>1. WaitOf(b, t) \in Bd!Due(x, flags)
        BY <1>3, <2>1
      <4> QED
        BY <1>4, <1>5, <4>1
    <3>2. x.set \cap MaskOf(b, t) = {}
      BY <1>2, <2>1
    <3>3. MaskOf(b, t) \cap (x.set \cup flags) = {f}
      BY <2>1, <3>2
    <3> QED
      BY <2>1, <3>1, <3>3
  <2>2. CASE ~(Ev!Suspended(x, t) /\ f \in MaskOf(b, t))
    <3>1. \A w \in Bd!Due(x, flags) : w.thread # t
      BY <1>3, <1>5, <2>2
    <3> QED
      BY <1>4, <2>2, <3>1
  <2> QED
    BY <2>1, <2>2
<1>9. \A g : g \in r.set <=>
               \/ g \in x.set
               \/ g = f /\ \A t \in Thread : Ev!Suspended(x, t) => f \notin MaskOf(b, t)
  <2> SUFFICES ASSUME NEW g
               PROVE  g \in r.set <=>
                        \/ g \in x.set
                        \/ g = f /\ \A t \in Thread : Ev!Suspended(x, t) => f \notin MaskOf(b, t)
    OBVIOUS
  <2>1. g \in r.set <=> /\ g \in x.set \/ g = f
                        /\ \A t \in Thread : Ev!Suspended(x, t) /\ f \in MaskOf(b, t)
                                               => g \notin MaskOf(b, t)
    BY <1>3, <1>4, <1>5
  <2>2. g \in x.set => \A t \in Thread : Ev!Suspended(x, t) => g \notin MaskOf(b, t)
    BY <1>2
  <2> QED
    BY <2>1, <2>2
<1>10. Good(b, r)
  <2>1. \A t \in Thread : Ev!Suspended(r, t) => r.got[t] = {} /\ r.set \cap MaskOf(b, t) = {}
    BY <1>2, <1>7, <1>8, <1>9
  <2> QED
    BY <1>2, <1>4, <2>1 DEF Good
<1> QED
  BY <1>7, <1>8, <1>9, <1>10 DEF Posted, r

\* r is x after t has asked for its flags.
Asked(b, t, x, r) ==
  /\ Good(b, r)
  /\ Ev!Suspended(r, t) <=> x.set \cap MaskOf(b, t) = {}
  /\ r.got[t] = x.set \cap MaskOf(b, t)
  /\ \A g : g \in r.set <=> g \in x.set /\ g \notin MaskOf(b, t)
  /\ \A u \in Thread \ {t} :
       (Ev!Suspended(r, u) <=> Ev!Suspended(x, u)) /\ r.got[u] = x.got[u]

LEMMA Receives ==
  ASSUME NEW b, NEW x, Good(b, x), NEW t \in Thread, ~Ev!Suspended(x, t)
  PROVE  Asked(b, t, x, Recv(b, t, x))
<1> DEFINE mask == MaskOf(b, t)
           all == AllOf(b, t)
           r == Bd!rt_event_recv(x, t, mask, all)
           w == [thread |-> t, mask |-> mask, all |-> all]
<1>15. /\ w = WaitOf(b, t) /\ mask = MaskOf(b, t)
       /\ \A u \in Thread : WaitOf(b, u).mask = MaskOf(b, u) /\ WaitOf(b, u).thread = u
       /\ mask \in SUBSET Flag /\ all \in BOOLEAN
       /\ Bd!Satisfied(x.set, mask, all) <=> x.set \cap mask # {}
       /\ MaskOf(b, "nm") \cap MaskOf(b, "reg") = {}
  BY WaitIs, SatisfiedIs, MasksAre DEF WaitOf
<1>16. Recv(b, t, x) = r
  BY SameRecv DEF Recv, MaskOf, AllOf
<1> HIDE DEF mask, all, r, w
<1>1. /\ Bd!Waits(x) \subseteq {WaitOf(b, "nm"), WaitOf(b, "reg")} /\ Bd!Tidy(x)
      /\ \A u \in Thread : Ev!Suspended(x, u) => x.got[u] = {} /\ x.set \cap MaskOf(b, u) = {}
  BY DEF Good
<1>2. WaitOf(b, t) \notin Bd!Waits(x) /\ ~Bd!Suspended(x, t)
  BY SuspendedIs, SameSuspended
<1>3. Len(x.wait) <= 1
  BY <1>1, <1>2, Bd!RoomForOne DEF Thread
<1>4. \A v \in Bd!Waits(x) : v.mask \cap mask = {}
  <2> SUFFICES ASSUME NEW v \in Bd!Waits(x)
               PROVE  v.mask \cap mask = {}
    OBVIOUS
  <2>1. \E u \in Thread : v = WaitOf(b, u) /\ u # t
    BY <1>1, <1>2 DEF Thread
  <2>2. PICK u \in Thread : v = WaitOf(b, u) /\ u # t
    BY <2>1
  <2>3. v.mask = MaskOf(b, u)
    BY <1>15, <2>2
  <2> QED
    BY <1>15, <2>2, <2>3 DEF Thread
<1>5. Bd!Asked(x, t, mask, all, r)
  BY <1>15, <1>1, <1>2, <1>3, <1>4, Bd!RecvServes DEF r
<1>6. Recv(b, t, x) = r
  BY <1>16
<1>7. /\ Bd!Tidy(r)
      /\ x.set \cap mask # {} => /\ r.set = x.set \ mask /\ Bd!Waits(r) = Bd!Waits(x)
                                /\ r.got[t] = mask \cap x.set
      /\ x.set \cap mask = {} =>
           /\ r.set = x.set /\ Bd!Waits(r) = Bd!Waits(x) \cup {w} /\ r.got[t] = {}
      /\ \A u \in Thread : u # t => r.got[u] = x.got[u]
  BY <1>15, <1>5 DEF Bd!Asked, w
<1>8. \A u \in Thread : Bd!Suspended(r, u) <=> WaitOf(b, u) \in Bd!Waits(r)
  <2>1. \A u \in Thread : Bd!Suspended(r, u) <=> \E v \in Bd!Waits(r) : v.thread = u
    BY DEF Bd!Suspended, Bd!Waits
  <2>2. \A v \in Bd!Waits(r) : \E u \in Thread : v = WaitOf(b, u)
    BY <1>15, <1>1, <1>7 DEF Thread
  <2> QED
    BY <1>15, <2>1, <2>2
<1>9. \A u \in Thread : Ev!Suspended(x, u) <=> WaitOf(b, u) \in Bd!Waits(x)
  BY SuspendedIs
<1>10. \A u \in Thread : Ev!Suspended(r, u) <=>
                          IF u = t THEN x.set \cap mask = {} ELSE Ev!Suspended(x, u)
  <2> SUFFICES ASSUME NEW u \in Thread
               PROVE  Ev!Suspended(r, u) <=>
                        IF u = t THEN x.set \cap mask = {} ELSE Ev!Suspended(x, u)
    OBVIOUS
  <2>1. Ev!Suspended(r, u) <=> WaitOf(b, u) \in Bd!Waits(r)
    BY <1>8, SameSuspended
  <2>2. u # t => WaitOf(b, u) # WaitOf(b, t)
    BY <1>15
  <2> QED
    BY <1>15, <1>2, <1>7, <1>9, <2>1, <2>2
<1>11. \A g : g \in r.set <=> g \in x.set /\ g \notin mask
  BY <1>7
<1>12. r.got[t] = x.set \cap mask
  BY <1>7
<1>13. Good(b, r)
  <2>1. Bd!Waits(r) \subseteq {WaitOf(b, "nm"), WaitOf(b, "reg")}
    BY <1>15, <1>1, <1>7 DEF Thread
  <2>2. \A u \in Thread : Ev!Suspended(r, u) => r.got[u] = {} /\ r.set \cap MaskOf(b, u) = {}
    BY <1>15, <1>1, <1>7, <1>10, <1>11, <1>12
  <2> QED
    BY <1>7, <2>1, <2>2 DEF Good
<1> QED
  BY <1>15, <1>6, <1>7, <1>10, <1>11, <1>12, <1>13 DEF Asked

-----------------------------------------------------------------------------
(* The types *)

Parts ==
  /\ faults \in Nat /\ restarts \in Nat /\ spent <= MaxFaults /\ orderly \in BOOLEAN
  /\ Router \in on /\ on \subseteq Board
  /\ event \in [Board -> Ev!Event] /\ radio \in [Board -> Rf!Chip]
  /\ recv \in [Board -> Packet] /\ send \in [Board -> Packet]
  /\ pc \in [Board -> [Thread -> Places]]
  /\ cur \in [Board -> Thread \cup {"none"}]
  /\ addr \in [Node -> 0 .. AddrSpace - 1]
  /\ pool \in Seq(Dh!Entry)

\* The only thread of b that sends.
Talker(b) == IF b = Router THEN "reg" ELSE "nm"

ShapeAt(b) ==
  /\ Good(b, event[b])
  /\ \A t \in Thread : Ev!Suspended(event[b], t) => pc[b][t] = "got"
  /\ radio[b].out # << >> => pc[b][Talker(b)] = "spin"
  /\ Len(radio[b].out) <= 1 /\ Len(radio[b].fifo) <= 1

Inv == Parts /\ \A b \in Board : ShapeAt(b)

LEMMA Boards ==
  /\ Router \in Board /\ Node \subseteq Board /\ Junk \in Ids /\ Board \subseteq Ids
  /\ \A n \in Node : n # Router
  /\ \A n \in Node : n # Junk
  /\ 0 \in 0 .. AddrSpace - 1
BY NetworkAssumption DEF Board, Node, Router, Ids, Junk

LEMMA PacketIs ==
  ASSUME NEW kind \in {"register", "acknowledge", "confirm", "junk"},
         NEW id \in Ids, NEW a \in 0 .. AddrSpace - 1
  PROVE  [kind |-> kind, id |-> id, addr |-> a] \in Packet
BY DEF Packet

LEMMA PacketHas ==
  ASSUME NEW p \in Packet
  PROVE  /\ p.kind \in {"register", "acknowledge", "confirm", "junk"}
         /\ p.id \in Ids /\ p.addr \in 0 .. AddrSpace - 1
BY DEF Packet

LEMMA NoPacketIs == NoPacket \in Packet
BY PacketIs, Boards DEF NoPacket

LEMMA ElsewhereShape ==
  ASSUME NEW o, ShapeAt(o),
         event'[o] = event[o], radio'[o] = radio[o], pc'[o] = pc[o]
  PROVE  ShapeAt(o)'
BY DEF ShapeAt

\* Thread t of b is now at place, and c is its current thread.
Moved(b, t, place, c) ==
  /\ pc' \in [Board -> [Thread -> Places]]
  /\ cur' \in [Board -> Thread \cup {"none"}]
  /\ pc'[b][t] = place
  /\ \A u \in Thread \ {t} : pc'[b][u] = pc[b][u]
  /\ cur'[b] = c
  /\ \A o \in Board \ {b} : pc'[o] = pc[o] /\ cur'[o] = cur[o]

LEMMA GoesDoes ==
  ASSUME Parts, NEW b \in Board, NEW t \in Thread, NEW place \in Places, Goes(b, t, place)
  PROVE  Moved(b, t, place, IF place = "done" THEN "none" ELSE t)
BY DEF Parts, Goes, Thread, Moved

\* The event of b was made x, and t has asked for its flags.
Asks(b, t, x) ==
  /\ event' \in [Board -> Ev!Event]
  /\ Asked(b, t, x, event'[b])
  /\ \A o \in Board \ {b} : event'[o] = event[o]

LEMMA AwaitsDoes ==
  ASSUME Parts, NEW b \in Board, NEW t \in Thread, NEW x, Good(b, x),
         ~Ev!Suspended(x, t), Awaits(b, t, x)
  PROVE  /\ Asks(b, t, x)
         /\ Moved(b, t, "got", IF x.set \cap MaskOf(b, t) = {} THEN "none" ELSE t)
<1> DEFINE r == Recv(b, t, x)
<1>1. /\ event' = [event EXCEPT ![b] = r] /\ pc' = [pc EXCEPT ![b][t] = "got"]
      /\ cur' = [cur EXCEPT ![b] = IF Ev!Suspended(event'[b], t) THEN "none" ELSE t]
  BY DEF Awaits
<1>2. Asked(b, t, x, r)
  BY Receives
<1> HIDE DEF r
<1>3. r \in Ev!Event
  BY <1>2, SameEvent DEF Asked, Good, Bd!Tidy
<1>4. event' \in [Board -> Ev!Event] /\ event'[b] = r
      /\ \A o \in Board \ {b} : event'[o] = event[o]
  BY <1>1, <1>3 DEF Parts
<1>5. Ev!Suspended(event'[b], t) <=> x.set \cap MaskOf(b, t) = {}
  BY <1>2, <1>4 DEF Asked
<1>6. "got" \in Places
  BY DEF Places
<1> QED
  BY <1>1, <1>2, <1>4, <1>5, <1>6 DEF Parts, Thread, Moved, Asks

\* A board where a thread has asked keeps its shape.
LEMMA AsksShape ==
  ASSUME NEW b \in Board, NEW t \in Thread, NEW x, NEW c,
         \A u \in Thread \ {t} : Ev!Suspended(x, u) => pc[b][u] = "got",
         Asks(b, t, x), Moved(b, t, "got", c)
  PROVE  /\ Good(b, event'[b])
         /\ \A u \in Thread : Ev!Suspended(event'[b], u) => pc'[b][u] = "got"
BY DEF Asks, Moved, Asked

LEMMA RadioDoes ==
  ASSUME Parts, NEW b \in Board, NEW r \in Rf!Chip, radio' = [radio EXCEPT ![b] = r]
  PROVE  /\ radio' \in [Board -> Rf!Chip] /\ radio'[b] = r
         /\ \A o \in Board \ {b} : radio'[o] = radio[o]
BY DEF Parts

\* What Rest keeps.
LEMMA RestKeeps ==
  ASSUME Parts, Rest
  PROVE  /\ faults' \in Nat /\ restarts' \in Nat /\ spent' <= MaxFaults /\ orderly' \in BOOLEAN
         /\ Router \in on' /\ on' \subseteq Board
BY DEF Parts, Rest, spent

LEMMA FaultKeeps ==
  ASSUME Parts, NEW w \in Nat, Fault(w), UNCHANGED restarts
  PROVE  faults' \in Nat /\ restarts' \in Nat /\ spent' <= MaxFaults
<1>1. spent \in Nat
  BY DEF spent, Parts, Heavy
<1> QED
  BY <1>1 DEF Parts, Fault, spent, Heavy

-----------------------------------------------------------------------------
(* Sending and receiving *)

LEMMA TalkerIs ==
  ASSUME NEW b \in Board
  PROVE  Talker(b) \in Thread
BY DEF Talker, Thread

LEMMA AppendsToNone ==
  ASSUME NEW q \in Seq(Packet), Len(q) <= 1, NEW p \in Packet, q = << >>
  PROVE  Append(q, p) = << p >>
OBVIOUS

\* b has been given p to send.
Loads(b, p) ==
  /\ radio' \in [Board -> Rf!Chip]
  /\ radio'[b].mode = "tx" /\ radio'[b].fifo = radio[b].fifo
  /\ radio'[b].out = << p >> /\ radio'[b].flags = radio[b].flags
  /\ \A o \in Board \ {b} : radio'[o] = radio[o]

LEMMA TxStartDoes ==
  ASSUME Inv, NEW b \in Board, NEW t \in Thread, NEW p \in Packet, TxStart(b, t, p),
         pc[b][Talker(b)] # "spin"
  PROVE  Loads(b, p) /\ Moved(b, t, "spin", t)
<1> DEFINE r == Rf!StartTx(radio[b], p)
<1>1. radio[b] \in Rf!Chip /\ radio[b].out = << >> /\ Len(radio[b].out) <= 1 /\ ShapeAt(b)
  BY DEF Inv, Parts, ShapeAt
<1>2. radio[b].out \in Seq(Packet)
  BY <1>1, RadioSame, Bd!ChipHas
<1>3. /\ r \in Rf!Chip /\ r.mode = "tx" /\ r.fifo = radio[b].fifo
      /\ r.out = Append(radio[b].out, p) /\ r.flags = radio[b].flags
  BY <1>1, RadioSame, Bd!StartTxIs
<1>4. Append(radio[b].out, p) = << p >>
  BY <1>1, <1>2, AppendsToNone
<1>5. radio' = [radio EXCEPT ![b] = r] /\ Goes(b, t, "spin")
  BY DEF TxStart
<1> HIDE DEF r
<1>6. /\ radio' \in [Board -> Rf!Chip] /\ radio'[b] = r
      /\ \A o \in Board \ {b} : radio'[o] = radio[o]
  BY <1>3, <1>5, RadioDoes DEF Inv
<1>7. Moved(b, t, "spin", t)
  BY <1>5, GoesDoes DEF Inv, Places
<1> QED
  BY <1>3, <1>4, <1>6, <1>7 DEF Loads

\* The chip of b is back in receive mode; any of its flags were cleared.
Unloads(b) ==
  /\ radio' \in [Board -> Rf!Chip]
  /\ radio'[b].mode = "rx" /\ radio'[b].fifo = radio[b].fifo
  /\ radio'[b].out = << >> /\ radio'[b].flags \subseteq radio[b].flags
  /\ \A o \in Board \ {b} : radio'[o] = radio[o]

\* Where a thread goes that asks for its flags in x.
Then(b, t, x) == IF x.set \cap MaskOf(b, t) = {} THEN "none" ELSE t

LEMMA TxEndDoes ==
  ASSUME Inv, NEW b \in Board, NEW t \in Thread, TxEnd(b, t)
  PROVE  /\ Unloads(b) /\ Asks(b, t, event[b]) /\ Moved(b, t, "got", Then(b, t, event[b]))
         /\ pc[b][t] = "spin" /\ radio[b].flags # {} /\ cur[b] \in {t, "none"} /\ b \in on
         /\ UNCHANGED << faults, orderly, restarts, on, recv, send, addr, pool >>
<1>1. PICK c \in Rf!EndTx(radio[b]) : radio' = [radio EXCEPT ![b] = c]
  BY DEF TxEnd
<1>2. radio[b] \in Rf!Chip /\ ShapeAt(b)
  BY DEF Inv, Parts
<1>3. /\ c \in Rf!Chip /\ c.mode = "rx" /\ c.fifo = radio[b].fifo
      /\ c.out = << >> /\ c.flags \subseteq radio[b].flags
  BY <1>1, <1>2, RadioSame, Bd!EndTxIs
<1>4. /\ radio' \in [Board -> Rf!Chip] /\ radio'[b] = c
      /\ \A o \in Board \ {b} : radio'[o] = radio[o]
  BY <1>1, <1>3, RadioDoes DEF Inv
<1>5. /\ pc[b][t] = "spin" /\ radio[b].flags # {} /\ cur[b] \in {t, "none"} /\ b \in on
      /\ UNCHANGED << faults, orderly, restarts, on, recv, send, addr, pool >>
      /\ Awaits(b, t, event[b])
  BY DEF TxEnd, Runs, Ready, Rest, Rf!IRQ
<1>6. ~Ev!Suspended(event[b], t) /\ Good(b, event[b])
  BY <1>2, <1>5 DEF ShapeAt
<1>7. Asks(b, t, event[b]) /\ Moved(b, t, "got", Then(b, t, event[b]))
  BY <1>5, <1>6, AwaitsDoes DEF Inv, Then
<1> QED
  BY <1>3, <1>4, <1>5, <1>7 DEF Unloads

LEMMA FifoFirst ==
  ASSUME NEW q \in Seq(Packet), q # << >>
  PROVE  Head(q) = q[1] /\ q[1] \in Packet
OBVIOUS

\* The network thread of b has read its chip: nothing came, or a packet, p.
Reads(b, p) ==
  /\ radio' \in [Board -> Rf!Chip]
  /\ radio'[b].mode = radio[b].mode /\ radio'[b].fifo = radio[b].fifo
  /\ radio'[b].out = radio[b].out /\ radio'[b].flags = {}
  /\ \A o \in Board \ {b} : radio'[o] = radio[o] /\ recv'[o] = recv[o]
  /\ recv' \in [Board -> Packet] /\ recv'[b] = p
  /\ IF "RX_DR" \in radio[b].flags
     THEN /\ p \in IF radio[b].fifo = << >> THEN {recv[b], NoPacket} ELSE {radio[b].fifo[1]}
          /\ event' = event /\ Moved(b, "nm", "flush", "nm")
     ELSE /\ p = recv[b]
          /\ Asks(b, "nm", event[b]) /\ Moved(b, "nm", "got", Then(b, "nm", event[b]))

LEMMA RxReadDoes ==
  ASSUME Inv, NEW b \in Board, RxRead(b), ~Ev!Suspended(event[b], "nm")
  PROVE  Reads(b, recv'[b])
<1> DEFINE f == radio[b].flags
           r == Rf!WriteStatus(radio[b], f)
<1>1. radio[b] \in Rf!Chip /\ ShapeAt(b) /\ recv \in [Board -> Packet] /\ Good(b, event[b])
  BY DEF Inv, Parts, ShapeAt
<1>2. /\ r \in Rf!Chip /\ r.mode = radio[b].mode /\ r.fifo = radio[b].fifo
      /\ r.out = radio[b].out /\ r.flags = {}
  <2>1. /\ r \in Bd!Chip /\ r.mode = radio[b].mode /\ r.fifo = radio[b].fifo
        /\ r.out = radio[b].out /\ r.flags = radio[b].flags \ f
    BY <1>1, RadioSame, Bd!WriteStatusIs
  <2> QED
    BY <2>1, RadioSame
<1>3. radio' = [radio EXCEPT ![b] = r]
  BY DEF RxRead
<1>4. radio[b].fifo \in Seq(Packet)
  BY <1>1, RadioSame, Bd!ChipHas
<1> HIDE DEF r
<1>5. /\ radio' \in [Board -> Rf!Chip] /\ radio'[b] = r
      /\ \A o \in Board \ {b} : radio'[o] = radio[o]
  BY <1>2, <1>3, RadioDoes DEF Inv
<1>6. "nm" \in Thread /\ "flush" \in Places
  BY DEF Thread, Places
<1>7. CASE "RX_DR" \in radio[b].flags
  <2>1. PICK p \in Rf!ReadPayload(radio[b], recv[b], NoPacket) : recv' = [recv EXCEPT ![b] = p]
    BY <1>7 DEF RxRead, Rf!RX_OK
  <2>2. Goes(b, "nm", "flush") /\ event' = event
    BY <1>7 DEF RxRead, Rf!RX_OK
  <2>3. p \in IF radio[b].fifo = << >> THEN {recv[b], NoPacket} ELSE {radio[b].fifo[1]}
    BY <1>4, <2>1, FifoFirst DEF Rf!ReadPayload
  <2>4. p \in Packet
    BY <1>1, <1>4, <2>3, FifoFirst, NoPacketIs
  <2>5. /\ recv' \in [Board -> Packet] /\ recv'[b] = p
        /\ \A o \in Board \ {b} : recv'[o] = recv[o]
    BY <1>1, <2>1, <2>4
  <2>6. Moved(b, "nm", "flush", "nm")
    BY <1>6, <2>2, GoesDoes DEF Inv
  <2> QED
    BY <1>2, <1>5, <1>7, <2>2, <2>3, <2>5, <2>6 DEF Reads
<1>8. CASE "RX_DR" \notin radio[b].flags
  <2>1. Awaits(b, "nm", event[b]) /\ recv' = recv
    BY <1>8 DEF RxRead, Rf!RX_OK
  <2>2. Asks(b, "nm", event[b]) /\ Moved(b, "nm", "got", Then(b, "nm", event[b]))
    BY <1>1, <1>6, <2>1, AwaitsDoes DEF Inv, Then
  <2> QED
    BY <1>1, <1>2, <1>5, <1>8, <2>1, <2>2 DEF Reads
<1> QED
  BY <1>7, <1>8

\* ... and has emptied it.
Flushes(b) ==
  /\ radio' \in [Board -> Rf!Chip]
  /\ radio'[b].mode = radio[b].mode /\ radio'[b].fifo = << >>
  /\ radio'[b].out = radio[b].out /\ radio'[b].flags = radio[b].flags
  /\ \A o \in Board \ {b} : radio'[o] = radio[o]

LEMMA RxFlushDoes ==
  ASSUME Inv, NEW b \in Board, RxFlush(b)
  PROVE  /\ Flushes(b) /\ pc[b]["nm"] = "flush" /\ cur[b] \in {"nm", "none"} /\ b \in on
         /\ UNCHANGED << faults, orderly, restarts, on, recv, send, addr, pool >>
         /\ \E x : /\ IF HandsOn(b) THEN Posted(b, event[b], "RECV_REG", x) ELSE x = event[b]
                   /\ Good(b, x) /\ ~Ev!Suspended(x, "nm")
                   /\ Asks(b, "nm", x) /\ Moved(b, "nm", "got", Then(b, "nm", x))
<1> DEFINE r == Rf!FlushRx(radio[b])
           x == IF HandsOn(b) THEN Ev!rt_event_send(event[b], {"RECV_REG"}) ELSE event[b]
<1>1. radio[b] \in Rf!Chip /\ ShapeAt(b) /\ Good(b, event[b])
  BY DEF Inv, Parts, ShapeAt
<1>2. /\ r \in Rf!Chip /\ r.mode = radio[b].mode /\ r.fifo = << >>
      /\ r.out = radio[b].out /\ r.flags = radio[b].flags
  BY <1>1, RadioSame, Bd!FlushRxIs
<1>3. /\ pc[b]["nm"] = "flush" /\ cur[b] \in {"nm", "none"} /\ b \in on
      /\ UNCHANGED << faults, orderly, restarts, on, recv, send, addr, pool >>
      /\ radio' = [radio EXCEPT ![b] = r] /\ Awaits(b, "nm", x)
  BY DEF RxFlush, Runs, Ready, Rest
<1>4. "nm" \in Thread /\ "RECV_REG" \in Flag
  BY DEF Thread, Flag
<1>5. IF HandsOn(b) THEN Posted(b, event[b], "RECV_REG", x) ELSE x = event[b]
  BY <1>1, <1>4, Posts
<1> HIDE DEF r, x
<1>6. /\ radio' \in [Board -> Rf!Chip] /\ radio'[b] = r
      /\ \A o \in Board \ {b} : radio'[o] = radio[o]
  BY <1>2, <1>3, RadioDoes DEF Inv
<1>7. ~Ev!Suspended(event[b], "nm")
  BY <1>1, <1>3, <1>4 DEF ShapeAt
<1>8. Good(b, x) /\ ~Ev!Suspended(x, "nm")
  BY <1>1, <1>4, <1>5, <1>7 DEF Posted
<1>9. Asks(b, "nm", x) /\ Moved(b, "nm", "got", Then(b, "nm", x))
  BY <1>3, <1>4, <1>8, AwaitsDoes DEF Inv, Then
<1> QED
  BY <1>2, <1>3, <1>5, <1>6, <1>8, <1>9 DEF Flushes

-----------------------------------------------------------------------------
(* The air *)

\* The packet of b is gone, and the hearers have it or had another.
Carried(b, hearers) ==
  /\ radio[b].mode = "tx" /\ radio[b].out # << >> /\ radio[b].out[1] \in Packet
  /\ \A o \in hearers : o # b /\ o \in on /\ radio[o].mode = "rx"
  /\ radio' \in [Board -> Rf!Chip]
  /\ radio'[b].mode = radio[b].mode /\ radio'[b].fifo = radio[b].fifo
  /\ radio'[b].out = << >> /\ radio'[b].flags = radio[b].flags \cup {"TX_DS"}
  /\ \A o \in Board \ {b} :
       /\ radio'[o].mode = radio[o].mode /\ radio'[o].out = radio[o].out
       /\ radio'[o].fifo = IF o \in hearers /\ radio[o].fifo = << >>
                           THEN << radio[b].out[1] >> ELSE radio[o].fifo
       /\ radio'[o].flags = IF o \in hearers THEN radio[o].flags \cup {"RX_DR"}
                            ELSE radio[o].flags

\* The event of b after its pin has fallen, or not.
Rises(b) ==
  IF radio[b].flags = {} /\ radio'[b].flags # {}
  THEN Posted(b, event[b], "RECV_PACKET", event'[b]) ELSE event'[b] = event[b]

LEMMA TailOfOne ==
  ASSUME NEW q \in Seq(Packet), Len(q) <= 1, q # << >>
  PROVE  Tail(q) = << >> /\ q[1] \in Packet
<1>1. Len(q) \in Nat /\ Len(q) # 0
  BY EmptySeq
<1>2. Tail(q) \in Seq(Packet) /\ Len(Tail(q)) = 0 /\ q[1] \in Packet
  BY <1>1
<1>3. Tail(q) = << >>
  BY <1>2, EmptySeq
<1> QED
  BY <1>2, <1>3

LEMMA TransmitDoes ==
  ASSUME Inv, NEW b \in Board, Transmit(b)
  PROVE  /\ \E hearers \in SUBSET on : Carried(b, hearers) /\ Heard(b, hearers)
         /\ \A o \in Board : Rises(o)
         /\ event' \in [Board -> Ev!Event]
         /\ UNCHANGED << orderly, on, recv, send, pc, cur, addr, pool, restarts >>
<1> DEFINE packet == radio[b].out[1]
           after(hearers, o) == IF o = b THEN Rf!Sent(radio[o])
                                ELSE IF o \in hearers THEN Rf!Receive(radio[o], packet)
                                ELSE radio[o]
           falls(hearers, o) == ~Rf!IRQ(radio[o]) /\ Rf!IRQ(after(hearers, o))
           sent(o) == Ev!rt_event_send(event[o], {"RECV_PACKET"})
<1>1. PICK hearers \in SUBSET on :
        /\ Heard(b, hearers)
        /\ radio' = [o \in Board |-> after(hearers, o)]
        /\ event' = [o \in Board |-> IF falls(hearers, o) THEN sent(o) ELSE event[o]]
  BY DEF Transmit
<1>2. /\ UNCHANGED << orderly, on, recv, send, pc, cur, addr, pool, restarts >>
      /\ radio[b].mode = "tx" /\ radio[b].out # << >>
  BY DEF Transmit, Rf!Sends
<1>3. \A o \in Board : radio[o] \in Bd!Chip /\ radio[o] \in Rf!Chip
  BY RadioSame DEF Inv, Parts
<1>4. packet \in Packet /\ Tail(radio[b].out) = << >>
  <2>1. radio[b].out \in Seq(Packet)
    BY <1>3, Bd!ChipHas
  <2>2. Len(radio[b].out) <= 1
    BY DEF Inv, ShapeAt
  <2> QED
    BY <1>2, <2>1, <2>2, TailOfOne
<1>5. LET r == after(hearers, b)
      IN  /\ r \in Rf!Chip /\ r.mode = radio[b].mode /\ r.fifo = radio[b].fifo
          /\ r.out = << >> /\ r.flags = radio[b].flags \cup {"TX_DS"}
  BY <1>2, <1>3, <1>4, RadioSame, Bd!SentIs
<1>6. ASSUME NEW o \in Board \ {b}
      PROVE  LET r == after(hearers, o)
             IN  /\ r \in Rf!Chip /\ r.mode = radio[o].mode /\ r.out = radio[o].out
                 /\ r.fifo = IF o \in hearers /\ radio[o].fifo = << >>
                             THEN << packet >> ELSE radio[o].fifo
                 /\ r.flags = IF o \in hearers THEN radio[o].flags \cup {"RX_DR"}
                              ELSE radio[o].flags
  <2>1. CASE o \in hearers
    <3> DEFINE r == Rf!Receive(radio[o], packet)
    <3>1. /\ r \in Rf!Chip /\ r.mode = radio[o].mode
          /\ r.out = radio[o].out
          /\ r.fifo = IF radio[o].fifo = << >> THEN << packet >> ELSE radio[o].fifo
          /\ r.flags = radio[o].flags \cup {"RX_DR"}
      BY <1>3, <1>4, RadioSame, Bd!ReceiveIs
    <3>2. after(hearers, o) = r
      BY <2>1
    <3> HIDE DEF r, packet, after
    <3> QED
      BY <2>1, <3>1, <3>2
  <2>2. CASE o \notin hearers
    <3>1. after(hearers, o) = radio[o]
      BY <2>2
    <3> HIDE DEF packet, after
    <3> QED
      BY <1>3, <2>2, <3>1
  <2> QED
    BY <2>1, <2>2
<1> HIDE DEF after, packet
<1>7. radio' \in [Board -> Rf!Chip] /\ \A o \in Board : radio'[o] = after(hearers, o)
  BY <1>1, <1>5, <1>6
<1>8. \A o \in hearers : o # b /\ o \in on /\ radio[o].mode = "rx"
  BY <1>1 DEF Heard, Rf!Hears
<1>9. Carried(b, hearers)
  BY <1>2, <1>4, <1>5, <1>6, <1>7, <1>8 DEF Carried, packet
<1>10. \A o \in Board : Posted(o, event[o], "RECV_PACKET", sent(o))
  <2>1. "RECV_PACKET" \in Flag
    BY DEF Flag
  <2>2. \A o \in Board : Good(o, event[o])
    BY DEF Inv, ShapeAt
  <2> QED
    BY <2>1, <2>2, Posts
<1>11. \A o \in Board : sent(o) \in Ev!Event
  <2> HIDE DEF sent
  <2> QED
    BY <1>10, SameEvent DEF Posted, Good, Bd!Tidy
<1> HIDE DEF sent
<1>12. \A o \in Board : falls(hearers, o) <=> radio[o].flags = {} /\ radio'[o].flags # {}
  BY <1>7 DEF Rf!IRQ
<1> HIDE DEF falls
<1>13. \A o \in Board : Rises(o)
  <2> SUFFICES ASSUME NEW o \in Board
               PROVE  Rises(o)
    OBVIOUS
  <2>1. event'[o] = IF falls(hearers, o) THEN sent(o) ELSE event[o]
    BY <1>1
  <2> QED
    BY <1>10, <1>12, <2>1 DEF Rises
<1>14. event' \in [Board -> Ev!Event]
  BY <1>1, <1>11 DEF Inv, Parts
<1> QED
  BY <1>1, <1>2, <1>9, <1>13, <1>14

-----------------------------------------------------------------------------
(* A board that starts *)

\* Nothing has happened to the event of b yet, and both threads may have asked.
Fresh(b, x) ==
  /\ Good(b, x) /\ x.set = {} /\ \A t \in Thread : x.got[t] = {}
  /\ Ev!Suspended(x, "nm")
  /\ Ev!Suspended(x, "reg") <=> b = Router

LEMMA FreshEventIs ==
  ASSUME NEW b \in Board
  PROVE  /\ Good(b, Ev!rt_event_init) /\ Ev!rt_event_init.set = {}
         /\ \A t \in Thread : /\ ~Ev!Suspended(Ev!rt_event_init, t)
                              /\ Ev!rt_event_init.got[t] = {}
<1> DEFINE q == << >>
           g == [t \in Thread |-> {}]
           r == [set |-> {}, wait |-> q, got |-> g]
<1>1. Ev!rt_event_init = r
  BY DEF Ev!rt_event_init
<1>2. q \in Seq(Bd!Wait) /\ Len(q) = 0
  OBVIOUS
<1>3. g \in [Thread -> SUBSET Flag] /\ \A t \in Thread : g[t] = {}
  OBVIOUS
<1> HIDE DEF q, g
<1>4. r \in Bd!Event
  BY <1>2, <1>3 DEF Bd!Event
<1>5. r.set = {} /\ Len(r.wait) = 0 /\ r.got = g
  BY <1>2
<1> HIDE DEF r
<1>6. Bd!Tidy(r) /\ Bd!Waits(r) = {} /\ \A t : ~Ev!Suspended(r, t)
  BY <1>4, <1>5 DEF Bd!Tidy, Bd!Waits, Ev!Suspended
<1> QED
  BY <1>1, <1>3, <1>5, <1>6 DEF Good

LEMMA StartEventIs ==
  ASSUME NEW b \in Board
  PROVE  Fresh(b, StartEvent(b))
<1> DEFINE i == Ev!rt_event_init
           x == IF b = Router THEN Recv(b, "reg", i) ELSE i
<1>1. /\ Good(b, i) /\ i.set = {}
      /\ \A t \in Thread : ~Ev!Suspended(i, t) /\ i.got[t] = {}
  BY FreshEventIs
<1>2. "nm" \in Thread /\ "reg" \in Thread /\ "nm" # "reg"
      /\ \A t \in Thread : t = "nm" \/ t = "reg"
  BY DEF Thread
<1>3. StartEvent(b) = Recv(b, "nm", x)
  BY DEF StartEvent
<1> HIDE DEF i
<1>4. Asked(b, "reg", i, Recv(b, "reg", i))
  BY <1>1, <1>2, Receives
<1>5. /\ Good(b, x) /\ x.set = {} /\ ~Ev!Suspended(x, "nm")
      /\ Ev!Suspended(x, "reg") <=> b = Router
      /\ \A t \in Thread : x.got[t] = {}
  <2>1. CASE b = Router
    <3> DEFINE y == Recv(b, "reg", i)
    <3>1. x = y
      BY <2>1
    <3>2. Asked(b, "reg", i, y)
      BY <1>4
    <3> HIDE DEF y, x
    <3>3. y.set = {}
      <4>1. \A g : g \notin y.set
        BY <1>1, <3>2 DEF Asked
      <4>2. y.set \in SUBSET Flag
        BY <3>2, Bd!EventHas DEF Asked, Good, Bd!Tidy
      <4> QED
        BY <4>1, <4>2
    <3> QED
      BY <1>1, <1>2, <2>1, <3>1, <3>2, <3>3 DEF Asked
  <2>2. CASE b # Router
    BY <1>1, <1>2, <2>2
  <2> QED
    BY <2>1, <2>2
<1> HIDE DEF x
<1>6. Asked(b, "nm", x, Recv(b, "nm", x))
  BY <1>2, <1>5, Receives
<1> DEFINE y == Recv(b, "nm", x)
<1>7. Asked(b, "nm", x, y)
  BY <1>6
<1> HIDE DEF y
<1>8. y.set = {}
  <2>1. \A g : g \notin y.set
    BY <1>5, <1>7 DEF Asked
  <2>2. y.set \in SUBSET Flag
    BY <1>7, Bd!EventHas DEF Asked, Good, Bd!Tidy
  <2> QED
    BY <2>1, <2>2
<1>9. Fresh(b, y)
  BY <1>2, <1>5, <1>7, <1>8 DEF Asked, Fresh
<1> QED
  BY <1>3, <1>9 DEF y

LEMMA StartPcIs ==
  ASSUME NEW b \in Board
  PROVE  /\ StartPc(b) \in [Thread -> Places] /\ StartPc(b)["nm"] = "got"
         /\ StartPc(b)["reg"] = IF b = Router THEN "got" ELSE "ask"
<1> DEFINE r == StartPc(b)
<1>1. DOMAIN r = Thread
  BY DEF Thread, StartPc
<1>2. r = [t \in DOMAIN r |-> r[t]]
  BY DEF StartPc
<1>3. r["nm"] = "got" /\ r["reg"] = IF b = Router THEN "got" ELSE "ask"
  BY DEF StartPc
<1> HIDE DEF r
<1>4. \A t \in Thread : r[t] \in Places
  BY <1>3 DEF Thread, Places
<1> QED
  BY <1>1, <1>2, <1>3, <1>4 DEF r

\* b is as it was when it was first started.
IsFresh(b) ==
  /\ Fresh(b, event[b]) /\ radio[b] = Rf!FreshChip
  /\ recv[b] = NoPacket /\ send[b] = NoPacket
  /\ pc[b]["nm"] = "got" /\ pc[b]["reg"] = IF b = Router THEN "got" ELSE "ask"
  /\ cur[b] = "none"

LEMMA ResetDoes ==
  ASSUME Parts, NEW b \in Board, Reset(b)
  PROVE  /\ IsFresh(b)'
         /\ event' \in [Board -> Ev!Event] /\ radio' \in [Board -> Rf!Chip]
         /\ recv' \in [Board -> Packet] /\ send' \in [Board -> Packet]
         /\ pc' \in [Board -> [Thread -> Places]]
         /\ cur' \in [Board -> Thread \cup {"none"}]
         /\ \A o \in Board \ {b} :
              /\ event'[o] = event[o] /\ radio'[o] = radio[o] /\ recv'[o] = recv[o]
              /\ send'[o] = send[o] /\ pc'[o] = pc[o] /\ cur'[o] = cur[o]
<1>1. StartEvent(b) \in Ev!Event
  BY StartEventIs, SameEvent DEF Fresh, Good, Bd!Tidy
<1>2. Rf!FreshChip \in Rf!Chip
  BY RadioSame, Bd!FreshChipIs
<1>3. StartPc(b) \in [Thread -> Places]
  BY StartPcIs
<1> QED
  BY <1>1, <1>2, <1>3, NoPacketIs, StartEventIs, StartPcIs DEF Reset, Parts, IsFresh

LEMMA FreshShape ==
  ASSUME NEW b \in Board, IsFresh(b)
  PROVE  ShapeAt(b)
<1>1. Rf!FreshChip.out = << >> /\ Rf!FreshChip.fifo = << >> /\ Len(<< >>) = 0
  BY DEF Rf!FreshChip
<1>2. radio[b].out = << >> /\ radio[b].fifo = << >>
  BY <1>1 DEF IsFresh
<1>3. Good(b, event[b]) /\ \A t \in Thread : Ev!Suspended(event[b], t) => pc[b][t] = "got"
  BY DEF IsFresh, Fresh, Thread
<1> QED
  BY <1>1, <1>2, <1>3 DEF ShapeAt

-----------------------------------------------------------------------------
(* The actions of the boards *)

LEMMA NodeAsksDoes ==
  ASSUME Inv, NEW n \in Node, NodeAsks(n)
  PROVE  /\ pc[n]["reg"] = "ask" /\ cur[n] \in {"reg", "none"} /\ n \in on
         /\ send' = [send EXCEPT ![n] = [kind |-> "register", id |-> n, addr |-> 0]]
         /\ UNCHANGED << faults, orderly, restarts, on, radio, recv, addr, pool >>
         /\ \E x : /\ Posted(n, event[n], "SEND_PACKET", x) /\ ~Ev!Suspended(x, "reg")
                   /\ Asks(n, "reg", x) /\ Moved(n, "reg", "got", Then(n, "reg", x))
<1> DEFINE x == Ev!rt_event_send(event[n], {"SEND_PACKET"})
<1>1. /\ pc[n]["reg"] = "ask" /\ cur[n] \in {"reg", "none"} /\ n \in on
      /\ send' = [send EXCEPT ![n] = [kind |-> "register", id |-> n, addr |-> 0]]
      /\ UNCHANGED << faults, orderly, restarts, on, radio, recv, addr, pool >>
      /\ Awaits(n, "reg", x)
  BY DEF NodeAsks, Runs, Ready, Rest
<1>2. n \in Board /\ ShapeAt(n) /\ Good(n, event[n])
  BY Boards DEF Inv, ShapeAt
<1>3. "reg" \in Thread /\ "SEND_PACKET" \in Flag
  BY DEF Thread, Flag
<1>4. Posted(n, event[n], "SEND_PACKET", x)
  BY <1>2, <1>3, Posts
<1> HIDE DEF x
<1>5. ~Ev!Suspended(x, "reg") /\ Good(n, x)
  BY <1>1, <1>2, <1>3, <1>4 DEF ShapeAt, Posted
<1>6. Asks(n, "reg", x) /\ Moved(n, "reg", "got", Then(n, "reg", x))
  BY <1>1, <1>2, <1>3, <1>5, AwaitsDoes DEF Inv, Then
<1> QED
  BY <1>1, <1>4, <1>5, <1>6

LEMMA NodeLooksDoes ==
  ASSUME Inv, NEW n \in Node, NodeLooks(n)
  PROVE  /\ pc[n]["reg"] = "got" /\ cur[n] \in {"reg", "none"} /\ n \in on
         /\ ~Ev!Suspended(event[n], "reg")
         /\ UNCHANGED << faults, orderly, restarts, on, event, radio, recv, send, addr, pool >>
         /\ IF recv[n].kind = "acknowledge" /\ recv[n].id = n
            THEN Moved(n, "reg", "take", "reg") ELSE Moved(n, "reg", "done", "none")
<1>1. /\ pc[n]["reg"] = "got" /\ cur[n] \in {"reg", "none"} /\ n \in on
      /\ ~Ev!Suspended(event[n], "reg")
      /\ UNCHANGED << faults, orderly, restarts, on, event, radio, recv, send, addr, pool >>
      /\ Goes(n, "reg", IF recv[n].kind = "acknowledge" /\ recv[n].id = n
                        THEN "take" ELSE "done")
  BY DEF NodeLooks, Runs, Ready, Rest
<1>2. n \in Board /\ "reg" \in Thread /\ "take" \in Places /\ "done" \in Places
      /\ Parts
  BY Boards DEF Inv, Thread, Places
<1> QED
  BY <1>1, <1>2, GoesDoes

LEMMA NodeTakesDoes ==
  ASSUME Inv, NEW n \in Node, NodeTakes(n)
  PROVE  /\ pc[n]["reg"] = "take" /\ cur[n] \in {"reg", "none"} /\ n \in on
         /\ addr' = [addr EXCEPT ![n] = recv[n].addr]
         /\ send' = [send EXCEPT ![n] = [kind |-> "confirm", id |-> n, addr |-> 0]]
         /\ UNCHANGED << faults, orderly, restarts, on, radio, recv, pool >>
         /\ \E x : /\ Posted(n, event[n], "SEND_PACKET", x)
                   /\ Posted(n, x, "REG_SUCCESS", event'[n])
         /\ event' \in [Board -> Ev!Event] /\ \A o \in Board \ {n} : event'[o] = event[o]
         /\ Moved(n, "reg", "done", "none")
<1> DEFINE x == Ev!rt_event_send(event[n], {"SEND_PACKET"})
           y == Ev!rt_event_send(x, {"REG_SUCCESS"})
<1>1. /\ pc[n]["reg"] = "take" /\ cur[n] \in {"reg", "none"} /\ n \in on
      /\ addr' = [addr EXCEPT ![n] = recv[n].addr]
      /\ send' = [send EXCEPT ![n] = [kind |-> "confirm", id |-> n, addr |-> 0]]
      /\ UNCHANGED << faults, orderly, restarts, on, radio, recv, pool >>
      /\ event' = [event EXCEPT ![n] = y] /\ Goes(n, "reg", "done")
  BY DEF NodeTakes, Runs, Ready, Rest
<1>2. n \in Board /\ ShapeAt(n) /\ Good(n, event[n]) /\ Parts
  BY Boards DEF Inv, ShapeAt
<1>3. "reg" \in Thread /\ "SEND_PACKET" \in Flag /\ "REG_SUCCESS" \in Flag /\ "done" \in Places
  BY DEF Thread, Flag, Places
<1>4. Posted(n, event[n], "SEND_PACKET", x)
  BY <1>2, <1>3, Posts
<1> HIDE DEF x
<1>5. Posted(n, x, "REG_SUCCESS", y)
  BY <1>3, <1>4, Posts DEF Posted
<1> HIDE DEF y
<1>6. y \in Ev!Event
  BY <1>5, SameEvent DEF Posted, Good, Bd!Tidy
<1>7. event' \in [Board -> Ev!Event] /\ event'[n] = y
      /\ \A o \in Board \ {n} : event'[o] = event[o]
  BY <1>1, <1>2, <1>6 DEF Parts
<1>8. Moved(n, "reg", "done", "none")
  BY <1>1, <1>2, <1>3, GoesDoes
<1> QED
  BY <1>1, <1>4, <1>5, <1>7, <1>8

LEMMA NodeDecidesDoes ==
  ASSUME Inv, NEW n \in Node, NodeDecides(n)
  PROVE  /\ pc[n]["nm"] = "got" /\ cur[n] \in {"nm", "none"} /\ n \in on
         /\ ~Ev!Suspended(event[n], "nm")
         /\ UNCHANGED << faults, orderly, restarts, on, send, addr, pool >>
         /\ IF event[n].got["nm"] = {"RECV_PACKET"} THEN Reads(n, recv'[n])
            ELSE /\ Loads(n, send[n]) /\ Moved(n, "nm", "spin", "nm")
                 /\ UNCHANGED << event, recv >>
<1>1. /\ pc[n]["nm"] = "got" /\ cur[n] \in {"nm", "none"} /\ n \in on
      /\ ~Ev!Suspended(event[n], "nm")
      /\ UNCHANGED << faults, orderly, restarts, on, send, addr, pool >>
      /\ IF event[n].got["nm"] = {"RECV_PACKET"} THEN RxRead(n)
         ELSE TxStart(n, "nm", send[n]) /\ UNCHANGED << event, recv >>
  BY DEF NodeDecides, Runs, Ready, Rest
<1>2. n \in Board /\ n # Router /\ send[n] \in Packet /\ "nm" \in Thread
  BY Boards DEF Inv, Parts, Thread
<1>3. pc[n][Talker(n)] # "spin"
  BY <1>1, <1>2 DEF Talker
<1> QED
  BY <1>1, <1>2, <1>3, RxReadDoes, TxStartDoes

LEMMA RouterReceivesDoes ==
  ASSUME Inv, RouterReceives
  PROVE  /\ pc[Router]["nm"] = "got" /\ cur[Router] \in {"nm", "none"}
         /\ ~Ev!Suspended(event[Router], "nm") /\ Reads(Router, recv'[Router])
         /\ UNCHANGED << faults, orderly, restarts, on, send, addr, pool >>
BY Boards, RxReadDoes DEF RouterReceives, Runs, Ready, Rest

\* What the router does with what it has read: it answers, or lets it pass.
Answers ==
  /\ recv[Router].kind \in {"register", "junk"}
  /\ Moved(Router, "reg", "copy", "reg") /\ event' = event
Passes ==
  /\ recv[Router].kind # "register" /\ Asks(Router, "reg", event[Router])
  /\ Moved(Router, "reg", "got", Then(Router, "reg", event[Router]))

LEMMA RouterLooksDoes ==
  ASSUME Inv, RouterLooks
  PROVE  /\ pc[Router]["reg"] = "got" /\ cur[Router] \in {"reg", "none"}
         /\ ~Ev!Suspended(event[Router], "reg")
         /\ UNCHANGED << faults, orderly, restarts, on, radio, recv, send, addr, pool >>
         /\ Answers \/ Passes
<1>1. /\ pc[Router]["reg"] = "got" /\ cur[Router] \in {"reg", "none"}
      /\ ~Ev!Suspended(event[Router], "reg")
      /\ UNCHANGED << faults, orderly, restarts, on, radio, recv, send, addr, pool >>
      /\ \/ /\ recv[Router].kind \in {"register", "junk"}
            /\ Goes(Router, "reg", "copy") /\ event' = event
         \/ recv[Router].kind # "register" /\ Awaits(Router, "reg", event[Router])
  BY DEF RouterLooks, Runs, Ready, Rest
<1>2. Router \in Board /\ "reg" \in Thread /\ "copy" \in Places /\ Parts
      /\ Good(Router, event[Router])
  BY Boards DEF Inv, Thread, Places, ShapeAt
<1> QED
  BY <1>1, <1>2, GoesDoes, AwaitsDoes DEF Then, Answers, Passes

LEMMA RouterCopiesDoes ==
  ASSUME Inv, RouterCopies
  PROVE  /\ pc[Router]["reg"] = "copy" /\ cur[Router] \in {"reg", "none"}
         /\ send' = [send EXCEPT ![Router] =
                       [kind |-> "acknowledge", id |-> recv[Router].id, addr |-> 0]]
         /\ UNCHANGED << faults, orderly, restarts, on, event, radio, recv, addr, pool >>
         /\ Moved(Router, "reg", "addr", "reg")
<1>1. /\ pc[Router]["reg"] = "copy" /\ cur[Router] \in {"reg", "none"}
      /\ send' = [send EXCEPT ![Router] =
                    [kind |-> "acknowledge", id |-> recv[Router].id, addr |-> 0]]
      /\ UNCHANGED << faults, orderly, restarts, on, event, radio, recv, addr, pool >>
      /\ Goes(Router, "reg", "addr")
  BY DEF RouterCopies, Runs, Ready, Rest
<1>2. Router \in Board /\ "reg" \in Thread /\ "addr" \in Places /\ Parts
  BY Boards DEF Inv, Thread, Places
<1> QED
  BY <1>1, <1>2, GoesDoes

\* The address that is looked up is one of the list.
LEMMA AddressIs ==
  ASSUME NEW p \in Seq(Dh!Entry), NEW id \in Ids
  PROVE  /\ Dh!Grown(p, id) \in Seq(Dh!Entry)
         /\ Dh!get_addr(p, id) \in 0 .. AddrSpace - 1
<1> DEFINE g == Dh!Grown(p, id)
           e == [id |-> id, addr |-> Len(p) % AddrSpace]
<1>1. Len(p) \in Nat /\ AddrSpace \in Nat /\ AddrSpace > 0
  BY NetworkAssumption
<1>2. Len(p) % AddrSpace \in 0 .. AddrSpace - 1
  BY <1>1
<1>3. e \in Dh!Entry /\ e.id = id
  BY <1>2 DEF Dh!Entry
<1> HIDE DEF e
<1>4. g \in Seq(Dh!Entry) /\ Dh!Found(g, id)
  <2>1. CASE Dh!Found(p, id)
    BY <2>1 DEF Dh!Grown
  <2>2. CASE ~Dh!Found(p, id)
    <3>1. g = Append(p, e)
      BY <2>2 DEF Dh!Grown, e
    <3>2. g \in Seq(Dh!Entry) /\ Len(g) = Len(p) + 1 /\ g[Len(p) + 1] = e
      BY <1>3, <3>1
    <3> HIDE DEF g
    <3>3. Len(p) + 1 \in 1 .. Len(g)
      BY <1>1, <3>2
    <3> QED
      BY <1>3, <3>2, <3>3 DEF Dh!Found
  <2> QED
    BY <2>1, <2>2
<1> HIDE DEF g
<1> DEFINE i == CHOOSE k \in 1 .. Len(g) : g[k].id = id
<1>6. i \in 1 .. Len(g)
  BY <1>4 DEF Dh!Found
<1>7. Dh!AddrOf(g, id) = g[i].addr
  BY DEF Dh!AddrOf
<1> HIDE DEF i
<1>8. g[i].addr \in 0 .. AddrSpace - 1
  <2>1. g[i] \in Dh!Entry
    BY <1>4, <1>6
  <2> QED
    BY <2>1 DEF Dh!Entry
<1> QED
  BY <1>4, <1>7, <1>8 DEF Dh!get_addr, g

LEMMA RouterAnswersDoes ==
  ASSUME Inv, RouterAnswers
  PROVE  /\ pc[Router]["reg"] = "addr" /\ cur[Router] \in {"reg", "none"}
         /\ pool' = Dh!Grown(pool, recv[Router].id)
         /\ send' = [send EXCEPT ![Router] = send'[Router]]
         /\ send'[Router] = [send[Router] EXCEPT !.addr = Dh!get_addr(pool, recv[Router].id)]
         /\ send' \in [Board -> Packet] /\ pool' \in Seq(Dh!Entry)
         /\ UNCHANGED << faults, orderly, restarts, on, event, recv, addr >>
         /\ Loads(Router, send'[Router]) /\ Moved(Router, "reg", "spin", "reg")
<1> DEFINE a == Dh!get_addr(pool, recv[Router].id)
           s == [send[Router] EXCEPT !.addr = a]
<1>1. /\ pc[Router]["reg"] = "addr" /\ cur[Router] \in {"reg", "none"}
      /\ pool' = Dh!Grown(pool, recv[Router].id)
      /\ send' = [send EXCEPT ![Router].addr = a]
      /\ UNCHANGED << faults, orderly, restarts, on, event, recv, addr >>
      /\ TxStart(Router, "reg", send'[Router])
  BY DEF RouterAnswers, Runs, Ready, Rest
<1>2. Router \in Board /\ "reg" \in Thread /\ recv[Router] \in Packet
      /\ send[Router] \in Packet /\ pool \in Seq(Dh!Entry) /\ send \in [Board -> Packet]
  BY Boards DEF Inv, Thread, Parts
<1>3. recv[Router].id \in Ids
  BY <1>2, PacketHas
<1>4. a \in 0 .. AddrSpace - 1 /\ pool' \in Seq(Dh!Entry)
  BY <1>1, <1>2, <1>3, AddressIs
<1> HIDE DEF a
<1>5. s \in Packet
  BY <1>2, <1>4 DEF Packet
<1>6. send' = [send EXCEPT ![Router] = s]
  BY <1>1
<1> HIDE DEF s
<1>7. send'[Router] = s /\ send' \in [Board -> Packet]
  BY <1>2, <1>5, <1>6
<1>8. Loads(Router, s) /\ Moved(Router, "reg", "spin", "reg")
  <2>1. pc[Router][Talker(Router)] # "spin"
    BY <1>1 DEF Talker
  <2>2. TxStart(Router, "reg", s)
    BY <1>1, <1>7
  <2> QED
    BY <1>2, <1>5, <2>1, <2>2, TxStartDoes
<1> QED
  BY <1>1, <1>4, <1>6, <1>7, <1>8 DEF s, a

LEMMA RouterFailsDoes ==
  ASSUME Inv, RouterFails
  PROVE  /\ pc[Router]["reg"] = "addr" /\ cur[Router] \in {"reg", "none"}
         /\ Fault(Heavy)
         /\ UNCHANGED << orderly, restarts, on, radio, recv, send, addr, pool >>
         /\ Asks(Router, "reg", event[Router])
         /\ Moved(Router, "reg", "got", Then(Router, "reg", event[Router]))
<1>1. /\ pc[Router]["reg"] = "addr" /\ cur[Router] \in {"reg", "none"} /\ Fault(Heavy)
      /\ UNCHANGED << orderly, restarts, on, radio, recv, send, addr, pool >>
      /\ Awaits(Router, "reg", event[Router])
  BY DEF RouterFails, Runs, Ready
<1>2. Router \in Board /\ "reg" \in Thread /\ Parts /\ ShapeAt(Router)
      /\ Good(Router, event[Router])
  BY Boards DEF Inv, Thread, ShapeAt
<1>3. ~Ev!Suspended(event[Router], "reg")
  BY <1>1, <1>2 DEF ShapeAt
<1> QED
  BY <1>1, <1>2, <1>3, AwaitsDoes DEF Then

-----------------------------------------------------------------------------
(* Every action keeps the types and the shapes *)

\* Only b was touched, and it has its shape.
LEMMA OnlyHere ==
  ASSUME NEW b \in Board, \A o \in Board : ShapeAt(o), ShapeAt(b)',
         \A o \in Board \ {b} :
           event'[o] = event[o] /\ radio'[o] = radio[o] /\ pc'[o] = pc[o]
  PROVE  \A o \in Board : ShapeAt(o)'
<1> SUFFICES ASSUME NEW o \in Board
             PROVE  ShapeAt(o)'
  OBVIOUS
<1>1. CASE o = b
  BY <1>1
<1>2. CASE o # b
  BY <1>2, ElsewhereShape
<1> QED
  BY <1>1, <1>2

LEMMA EmptyIsShort == Len(<< >>) <= 1 /\ \A p : Len(<< p >>) <= 1
OBVIOUS

LEMMA LoadsShape ==
  ASSUME Inv, NEW b \in Board, NEW p \in Packet, Loads(b, p),
         Moved(b, Talker(b), "spin", Talker(b)), event'[b] = event[b],
         ~Ev!Suspended(event[b], Talker(b))
  PROVE  ShapeAt(b)'
<1>1. ShapeAt(b) /\ Talker(b) \in Thread
  BY TalkerIs DEF Inv
<1>2. Len(radio'[b].out) <= 1 /\ Len(radio'[b].fifo) <= 1
  BY <1>1, EmptyIsShort DEF Loads, ShapeAt
<1>3. pc'[b][Talker(b)] = "spin"
  BY DEF Moved
<1>4. \A t \in Thread : Ev!Suspended(event'[b], t) => pc'[b][t] = "got"
  BY <1>1 DEF ShapeAt, Moved
<1> QED
  BY <1>1, <1>2, <1>3, <1>4 DEF ShapeAt

LEMMA TxEndInv ==
  ASSUME Inv, NEW b \in Board, TxEnd(b, Talker(b))
  PROVE  Inv'
<1> DEFINE t == Talker(b)
<1>1. /\ Unloads(b) /\ Asks(b, t, event[b]) /\ Moved(b, t, "got", Then(b, t, event[b]))
      /\ pc[b][t] = "spin" /\ t \in Thread
      /\ UNCHANGED << faults, orderly, restarts, on, recv, send, addr, pool >>
  BY TxEndDoes, TalkerIs
<1> HIDE DEF t
<1>2. Parts'
  BY <1>1 DEF Inv, Parts, Unloads, Asks, Moved, spent
<1>3. ShapeAt(b)
  BY DEF Inv
<1>4. Good(b, event'[b]) /\ \A u \in Thread : Ev!Suspended(event'[b], u) => pc'[b][u] = "got"
  BY <1>1, <1>3, AsksShape DEF ShapeAt
<1>5. ShapeAt(b)'
  BY <1>1, <1>3, <1>4, EmptyIsShort DEF ShapeAt, Unloads
<1>6. \A o \in Board : ShapeAt(o)'
  BY <1>1, <1>5, OnlyHere DEF Inv, Unloads, Asks, Moved
<1> QED
  BY <1>2, <1>6 DEF Inv

LEMMA RxFlushInv == ASSUME Inv, NEW b \in Board, RxFlush(b) PROVE Inv'
<1>1. /\ Flushes(b) /\ pc[b]["nm"] = "flush" /\ "nm" \in Thread
      /\ UNCHANGED << faults, orderly, restarts, on, recv, send, addr, pool >>
  BY RxFlushDoes DEF Thread
<1>2. PICK x : /\ IF HandsOn(b) THEN Posted(b, event[b], "RECV_REG", x) ELSE x = event[b]
               /\ Asks(b, "nm", x) /\ Moved(b, "nm", "got", Then(b, "nm", x))
  BY RxFlushDoes
<1>3. ShapeAt(b)
  BY DEF Inv
<1>4. Parts'
  BY <1>1, <1>2 DEF Inv, Parts, Flushes, Asks, Moved, spent
<1>5. Good(b, event'[b]) /\ \A u \in Thread : Ev!Suspended(event'[b], u) => pc'[b][u] = "got"
  <2>1. \A u \in Thread : Ev!Suspended(x, u) => Ev!Suspended(event[b], u)
    BY <1>2 DEF Posted
  <2> QED
    BY <1>1, <1>2, <1>3, <2>1, AsksShape DEF ShapeAt
<1>6. radio'[b].out # << >> => pc'[b][Talker(b)] = "spin"
  BY <1>1, <1>2, <1>3 DEF ShapeAt, Talker, Flushes, Moved, Thread
<1>7. ShapeAt(b)'
  BY <1>1, <1>3, <1>5, <1>6, EmptyIsShort DEF ShapeAt, Flushes
<1>8. \A o \in Board : ShapeAt(o)'
  BY <1>1, <1>2, <1>7, OnlyHere DEF Inv, Flushes, Asks, Moved
<1> QED
  BY <1>4, <1>8 DEF Inv

LEMMA ReadsInv ==
  ASSUME Inv, NEW b \in Board, Reads(b, recv'[b]), pc[b]["nm"] = "got",
         ~Ev!Suspended(event[b], "nm"),
         UNCHANGED << faults, orderly, restarts, on, send, addr, pool >>
  PROVE  Inv'
<1>1. ShapeAt(b) /\ "nm" \in Thread
  BY DEF Inv, Thread
<1>2. PICK place, c : Moved(b, "nm", place, c) /\ place \in {"got", "flush"}
  BY DEF Reads
<1>3. event' \in [Board -> Ev!Event] /\ \A o \in Board \ {b} : event'[o] = event[o]
  BY DEF Reads, Asks, Inv, Parts
<1>4. Parts'
  BY <1>2, <1>3 DEF Inv, Parts, Reads, Moved, spent
<1>5. Good(b, event'[b]) /\ \A u \in Thread : Ev!Suspended(event'[b], u) => pc'[b][u] = "got"
  <2>1. CASE "RX_DR" \in radio[b].flags
    <3>1. event'[b] = event[b] /\ Moved(b, "nm", "flush", "nm")
      BY <2>1 DEF Reads
    <3> QED
      BY <1>1, <3>1 DEF ShapeAt, Moved
  <2>2. CASE "RX_DR" \notin radio[b].flags
    <3>1. Asks(b, "nm", event[b]) /\ Moved(b, "nm", "got", Then(b, "nm", event[b]))
      BY <2>2 DEF Reads
    <3> QED
      BY <1>1, <3>1, AsksShape DEF ShapeAt
  <2> QED
    BY <2>1, <2>2
<1>6. radio'[b].out # << >> => pc'[b][Talker(b)] = "spin"
  BY <1>1, <1>2 DEF ShapeAt, Talker, Reads, Moved, Thread
<1>7. ShapeAt(b)'
  BY <1>1, <1>5, <1>6 DEF ShapeAt, Reads
<1>8. \A o \in Board : ShapeAt(o)'
  BY <1>2, <1>3, <1>7, OnlyHere DEF Inv, Reads, Moved
<1> QED
  BY <1>4, <1>8 DEF Inv

LEMMA TransmitInv == ASSUME Inv, NEW b \in Board, Transmit(b) PROVE Inv'
<1>1. /\ \A o \in Board : Rises(o)
      /\ event' \in [Board -> Ev!Event]
      /\ UNCHANGED << orderly, on, recv, send, pc, cur, addr, pool, restarts >>
  BY TransmitDoes
<1>2. PICK hearers \in SUBSET on : Carried(b, hearers) /\ Heard(b, hearers)
  BY TransmitDoes
<1>3. faults' \in Nat /\ spent' <= MaxFaults
  <2>1. CASE faults' = faults
    BY <1>1, <2>1 DEF Inv, Parts, spent
  <2>2. CASE Fault(Light)
    BY <1>1, <2>2, FaultKeeps DEF Inv, Light
  <2> QED
    BY <1>2, <2>1, <2>2 DEF Heard, NoFault
<1>4. Parts'
  BY <1>1, <1>2, <1>3 DEF Inv, Parts, Carried
<1>5. \A o \in Board : ShapeAt(o)'
  <2> SUFFICES ASSUME NEW o \in Board
               PROVE  ShapeAt(o)'
    OBVIOUS
  <2>1. ShapeAt(o)
    BY DEF Inv
  <2>2. /\ Good(o, event'[o])
        /\ \A u \in Thread : Ev!Suspended(event'[o], u) => Ev!Suspended(event[o], u)
    BY <1>1, <2>1 DEF ShapeAt, Rises, Posted
  <2>3. Len(radio'[o].fifo) <= 1
    BY <1>2, <2>1, EmptyIsShort DEF Carried, ShapeAt
  <2>4. radio'[o].out = << >> \/ radio'[o].out = radio[o].out
    BY <1>2 DEF Carried
  <2> QED
    BY <1>1, <2>1, <2>2, <2>3, <2>4, EmptyIsShort DEF ShapeAt
<1> QED
  BY <1>4, <1>5 DEF Inv

LEMMA NodeAsksInv == ASSUME Inv, NEW n \in Node, NodeAsks(n) PROVE Inv'
<1>1. /\ pc[n]["reg"] = "ask" /\ n \in Board /\ n # Router
      /\ send' = [send EXCEPT ![n] = [kind |-> "register", id |-> n, addr |-> 0]]
      /\ UNCHANGED << faults, orderly, restarts, on, radio, recv, addr, pool >>
  BY NodeAsksDoes, Boards
<1>2. PICK x : /\ Posted(n, event[n], "SEND_PACKET", x)
               /\ Asks(n, "reg", x) /\ Moved(n, "reg", "got", Then(n, "reg", x))
  BY NodeAsksDoes
<1>3. [kind |-> "register", id |-> n, addr |-> 0] \in Packet
  BY <1>1, PacketIs, Boards
<1>4. Parts'
  BY <1>1, <1>2, <1>3 DEF Inv, Parts, Asks, Moved, spent
<1>5. ShapeAt(n) /\ "reg" \in Thread /\ "nm" \in Thread /\ Talker(n) = "nm"
  BY <1>1 DEF Inv, Thread, Talker
<1>6. Good(n, event'[n]) /\ \A u \in Thread : Ev!Suspended(event'[n], u) => pc'[n][u] = "got"
  <2>1. \A u \in Thread : Ev!Suspended(x, u) => Ev!Suspended(event[n], u)
    BY <1>2 DEF Posted
  <2> QED
    BY <1>1, <1>2, <1>5, <2>1, AsksShape DEF ShapeAt
<1>7. ShapeAt(n)'
  BY <1>1, <1>2, <1>5, <1>6 DEF ShapeAt, Moved
<1>8. \A o \in Board : ShapeAt(o)'
  BY <1>1, <1>2, <1>7, OnlyHere DEF Inv, Asks, Moved
<1> QED
  BY <1>4, <1>8 DEF Inv

LEMMA NodeLooksInv == ASSUME Inv, NEW n \in Node, NodeLooks(n) PROVE Inv'
<1>1. /\ ~Ev!Suspended(event[n], "reg") /\ n \in Board /\ n # Router
      /\ UNCHANGED << faults, orderly, restarts, on, event, radio, recv, send, addr, pool >>
  BY NodeLooksDoes, Boards
<1>2. PICK place, c : Moved(n, "reg", place, c)
  BY NodeLooksDoes
<1>3. Parts'
  BY <1>1, <1>2 DEF Inv, Parts, Moved, spent
<1>4. ShapeAt(n)'
  BY <1>1, <1>2 DEF Inv, ShapeAt, Moved, Thread, Talker
<1>5. \A o \in Board : ShapeAt(o)'
  BY <1>1, <1>2, <1>4, OnlyHere DEF Inv, Moved
<1> QED
  BY <1>3, <1>5 DEF Inv

LEMMA NodeTakesInv == ASSUME Inv, NEW n \in Node, NodeTakes(n) PROVE Inv'
<1>1. /\ pc[n]["reg"] = "take" /\ n \in Board /\ n # Router
      /\ addr' = [addr EXCEPT ![n] = recv[n].addr]
      /\ send' = [send EXCEPT ![n] = [kind |-> "confirm", id |-> n, addr |-> 0]]
      /\ UNCHANGED << faults, orderly, restarts, on, radio, recv, pool >>
      /\ event' \in [Board -> Ev!Event] /\ \A o \in Board \ {n} : event'[o] = event[o]
      /\ Moved(n, "reg", "done", "none")
  BY NodeTakesDoes, Boards
<1>2. PICK x : Posted(n, event[n], "SEND_PACKET", x) /\ Posted(n, x, "REG_SUCCESS", event'[n])
  BY NodeTakesDoes
<1>3. [kind |-> "confirm", id |-> n, addr |-> 0] \in Packet
  BY <1>1, PacketIs, Boards
<1>4. recv[n].addr \in 0 .. AddrSpace - 1
  BY <1>1, PacketHas DEF Inv, Parts
<1>5. Parts'
  BY <1>1, <1>3, <1>4 DEF Inv, Parts, Moved, spent
<1>6. ShapeAt(n) /\ "reg" \in Thread /\ "nm" \in Thread /\ Talker(n) = "nm"
  BY <1>1 DEF Inv, Thread, Talker
<1>7. /\ Good(n, event'[n])
      /\ \A u \in Thread : Ev!Suspended(event'[n], u) => Ev!Suspended(event[n], u)
  BY <1>2 DEF Posted
<1>8. ShapeAt(n)'
  BY <1>1, <1>6, <1>7 DEF ShapeAt, Moved
<1>9. \A o \in Board : ShapeAt(o)'
  BY <1>1, <1>8, OnlyHere DEF Inv, Moved
<1> QED
  BY <1>5, <1>9 DEF Inv

LEMMA NodeDecidesInv == ASSUME Inv, NEW n \in Node, NodeDecides(n) PROVE Inv'
<1>1. /\ pc[n]["nm"] = "got" /\ ~Ev!Suspended(event[n], "nm") /\ n \in Board
      /\ UNCHANGED << faults, orderly, restarts, on, send, addr, pool >>
  BY NodeDecidesDoes, Boards
<1>2. CASE event[n].got["nm"] = {"RECV_PACKET"}
  BY <1>1, <1>2, NodeDecidesDoes, ReadsInv
<1>3. CASE event[n].got["nm"] # {"RECV_PACKET"}
  <2>1. /\ Loads(n, send[n]) /\ Moved(n, "nm", "spin", "nm") /\ UNCHANGED << event, recv >>
    BY <1>3, NodeDecidesDoes
  <2>2. send[n] \in Packet /\ Talker(n) = "nm"
    BY <1>1, Boards DEF Inv, Parts, Talker
  <2>3. ShapeAt(n)'
    BY <1>1, <2>1, <2>2, LoadsShape
  <2>4. Parts'
    BY <1>1, <2>1 DEF Inv, Parts, Loads, Moved, spent
  <2>5. \A o \in Board : ShapeAt(o)'
    BY <1>1, <2>1, <2>3, OnlyHere DEF Inv, Loads, Moved
  <2> QED
    BY <2>4, <2>5 DEF Inv
<1> QED
  BY <1>2, <1>3

LEMMA RouterLooksInv == ASSUME Inv, RouterLooks PROVE Inv'
<1>1. /\ ~Ev!Suspended(event[Router], "reg") /\ Router \in Board
      /\ pc[Router]["reg"] = "got"
      /\ UNCHANGED << faults, orderly, restarts, on, radio, recv, send, addr, pool >>
  BY RouterLooksDoes, Boards
<1>2. ShapeAt(Router) /\ "reg" \in Thread /\ Talker(Router) = "reg"
  BY <1>1 DEF Inv, Thread, Talker
<1>3. /\ event' \in [Board -> Ev!Event] /\ \A o \in Board \ {Router} : event'[o] = event[o]
      /\ Good(Router, event'[Router])
      /\ \A u \in Thread : Ev!Suspended(event'[Router], u) => pc'[Router][u] = "got"
  <2>1. CASE Answers
    <3>1. event' = event /\ \A u \in Thread \ {"reg"} : pc'[Router][u] = pc[Router][u]
      BY <2>1 DEF Answers, Moved
    <3>2. event \in [Board -> Ev!Event] /\ Good(Router, event[Router])
      BY <1>2 DEF ShapeAt, Inv, Parts
    <3>3. \A u \in Thread : Ev!Suspended(event[Router], u) => pc[Router][u] = "got"
      BY <1>2 DEF ShapeAt
    <3> QED
      BY <1>1, <3>1, <3>2, <3>3
  <2>2. CASE Passes
    <3>1. /\ Asks(Router, "reg", event[Router])
          /\ Moved(Router, "reg", "got", Then(Router, "reg", event[Router]))
      BY <2>2 DEF Passes
    <3>2. event' \in [Board -> Ev!Event] /\ \A o \in Board \ {Router} : event'[o] = event[o]
      BY <3>1 DEF Asks
    <3> QED
      BY <1>1, <1>2, <3>1, <3>2, AsksShape DEF ShapeAt
  <2> QED
    BY <2>1, <2>2, RouterLooksDoes
<1>4. PICK place, c : Moved(Router, "reg", place, c)
  BY RouterLooksDoes DEF Answers, Passes
<1>5. Parts'
  BY <1>1, <1>3, <1>4 DEF Inv, Parts, Moved, spent
<1>6. ShapeAt(Router)'
  BY <1>1, <1>2, <1>3 DEF ShapeAt
<1>7. \A o \in Board : ShapeAt(o)'
  BY <1>1, <1>3, <1>4, <1>6, OnlyHere DEF Inv, Moved
<1> QED
  BY <1>5, <1>7 DEF Inv

LEMMA RouterCopiesInv == ASSUME Inv, RouterCopies PROVE Inv'
<1>1. /\ pc[Router]["reg"] = "copy" /\ Router \in Board
      /\ send' = [send EXCEPT ![Router] =
                    [kind |-> "acknowledge", id |-> recv[Router].id, addr |-> 0]]
      /\ UNCHANGED << faults, orderly, restarts, on, event, radio, recv, addr, pool >>
      /\ Moved(Router, "reg", "addr", "reg")
  BY RouterCopiesDoes, Boards
<1>2. ShapeAt(Router) /\ "reg" \in Thread /\ Talker(Router) = "reg"
  BY <1>1 DEF Inv, Thread, Talker
<1>3. [kind |-> "acknowledge", id |-> recv[Router].id, addr |-> 0] \in Packet
  BY <1>1, PacketIs, PacketHas, Boards DEF Inv, Parts
<1>4. Parts'
  BY <1>1, <1>3 DEF Inv, Parts, Moved, spent
<1>5. ShapeAt(Router)'
  BY <1>1, <1>2 DEF ShapeAt, Moved
<1>6. \A o \in Board : ShapeAt(o)'
  BY <1>1, <1>5, OnlyHere DEF Inv, Moved
<1> QED
  BY <1>4, <1>6 DEF Inv

LEMMA RouterAnswersInv == ASSUME Inv, RouterAnswers PROVE Inv'
<1>1. /\ pc[Router]["reg"] = "addr" /\ Router \in Board
      /\ send' \in [Board -> Packet] /\ pool' \in Seq(Dh!Entry)
      /\ UNCHANGED << faults, orderly, restarts, on, event, recv, addr >>
      /\ Loads(Router, send'[Router]) /\ Moved(Router, "reg", "spin", "reg")
  BY RouterAnswersDoes, Boards
<1>2. ShapeAt(Router) /\ "reg" \in Thread /\ Talker(Router) = "reg"
  BY <1>1 DEF Inv, Thread, Talker
<1>3. ~Ev!Suspended(event[Router], "reg")
  BY <1>1, <1>2 DEF ShapeAt
<1>4. Parts'
  BY <1>1 DEF Inv, Parts, Moved, Loads, spent
<1>5. ShapeAt(Router)'
  BY <1>1, <1>2, <1>3, LoadsShape
<1>6. \A o \in Board : ShapeAt(o)'
  BY <1>1, <1>5, OnlyHere DEF Inv, Moved, Loads
<1> QED
  BY <1>4, <1>6 DEF Inv

LEMMA RouterFailsInv == ASSUME Inv, RouterFails PROVE Inv'
<1>1. /\ pc[Router]["reg"] = "addr" /\ Router \in Board /\ Fault(Heavy)
      /\ UNCHANGED << orderly, restarts, on, radio, recv, send, addr, pool >>
      /\ Asks(Router, "reg", event[Router])
      /\ Moved(Router, "reg", "got", Then(Router, "reg", event[Router]))
  BY RouterFailsDoes, Boards
<1>2. ShapeAt(Router) /\ "reg" \in Thread /\ Talker(Router) = "reg"
  BY <1>1 DEF Inv, Thread, Talker
<1>3. faults' \in Nat /\ spent' <= MaxFaults
  BY <1>1, FaultKeeps DEF Inv, Heavy
<1>4. Parts'
  BY <1>1, <1>3 DEF Inv, Parts, Moved, Asks
<1>5. Good(Router, event'[Router])
      /\ \A u \in Thread : Ev!Suspended(event'[Router], u) => pc'[Router][u] = "got"
  BY <1>1, <1>2, AsksShape DEF ShapeAt
<1>6. ShapeAt(Router)'
  BY <1>1, <1>2, <1>5 DEF ShapeAt
<1>7. \A o \in Board : ShapeAt(o)'
  BY <1>1, <1>6, OnlyHere DEF Inv, Moved, Asks
<1> QED
  BY <1>4, <1>7 DEF Inv

LEMMA PreemptInv ==
  ASSUME Inv, NEW b \in Board, NEW t \in Thread, Preempt(b, t)
  PROVE  Inv'
<1>1. /\ Fault(Heavy) /\ orderly' = FALSE
      /\ cur' = [cur EXCEPT ![b] = t]
      /\ UNCHANGED << on, event, radio, recv, send, pc, addr, pool, restarts >>
  BY DEF Preempt
<1>2. faults' \in Nat /\ spent' <= MaxFaults
  BY <1>1, FaultKeeps DEF Inv, Heavy
<1>3. Parts'
  BY <1>1, <1>2 DEF Inv, Parts
<1>4. \A o \in Board : ShapeAt(o)'
  BY <1>1, ElsewhereShape DEF Inv
<1> QED
  BY <1>3, <1>4 DEF Inv

LEMMA StartInv == ASSUME Inv, NEW n \in Node, Start(n) PROVE Inv'
<1>1. /\ on' = on \cup {n} /\ (NoFault \/ Fault(Light))
      /\ UNCHANGED << orderly, event, radio, recv, send, pc, cur, addr, pool, restarts >>
  BY DEF Start
<1>2. faults' \in Nat /\ spent' <= MaxFaults
  <2>1. CASE faults' = faults
    BY <1>1, <2>1 DEF Inv, Parts, spent
  <2>2. CASE Fault(Light)
    BY <1>1, <2>2, FaultKeeps DEF Inv, Light
  <2> QED
    BY <1>1, <2>1, <2>2 DEF NoFault
<1>3. Parts'
  BY <1>1, <1>2, Boards DEF Inv, Parts
<1>4. \A o \in Board : ShapeAt(o)'
  BY <1>1, ElsewhereShape DEF Inv
<1> QED
  BY <1>3, <1>4 DEF Inv

LEMMA ResetShape ==
  ASSUME Inv, NEW b \in Board, Reset(b)
  PROVE  \A o \in Board : ShapeAt(o)'
<1>1. /\ IsFresh(b)'
      /\ \A o \in Board \ {b} :
           event'[o] = event[o] /\ radio'[o] = radio[o] /\ pc'[o] = pc[o]
  BY ResetDoes DEF Inv
<1>2. Rf!FreshChip.out = << >> /\ Rf!FreshChip.fifo = << >>
  BY DEF Rf!FreshChip
<1>3. radio'[b].out = << >> /\ radio'[b].fifo = << >>
  BY <1>1, <1>2 DEF IsFresh
<1>4. Good(b, event'[b]) /\ \A t \in Thread : Ev!Suspended(event'[b], t) => pc'[b][t] = "got"
  BY <1>1 DEF IsFresh, Fresh, Thread
<1>5. ShapeAt(b)'
  BY <1>3, <1>4, EmptyIsShort DEF ShapeAt
<1> QED
  BY <1>1, <1>5, OnlyHere DEF Inv

LEMMA RestartNodeInv == ASSUME Inv, NEW n \in Node, RestartNode(n) PROVE Inv'
<1>1. /\ Reset(n) /\ addr' = [addr EXCEPT ![n] = 0] /\ n \in Board
      /\ UNCHANGED << orderly, on, pool >>
      /\ \/ spent + Heavy <= MaxFaults /\ restarts' = restarts + 1 /\ faults' = faults
         \/ Fault(Heavy) /\ UNCHANGED restarts
  BY Boards DEF RestartNode, NoFault
<1>2. faults' \in Nat /\ restarts' \in Nat /\ spent' <= MaxFaults
  <2>1. CASE spent + Heavy <= MaxFaults /\ restarts' = restarts + 1 /\ faults' = faults
    BY <2>1, NetworkAssumption DEF Inv, Parts, spent, Heavy
  <2>2. CASE Fault(Heavy) /\ UNCHANGED restarts
    BY <2>2, FaultKeeps DEF Inv, Heavy
  <2> QED
    BY <1>1, <2>1, <2>2
<1>3. Parts'
  BY <1>1, <1>2, ResetDoes, Boards DEF Inv, Parts
<1> QED
  BY <1>1, <1>3, ResetShape DEF Inv

LEMMA RestartRouterInv == ASSUME Inv, RestartRouter PROVE Inv'
<1>1. /\ Reset(Router) /\ pool' = Dh!dhcp_init(Router) /\ Fault(Heavy) /\ orderly' = FALSE
      /\ UNCHANGED << on, addr, restarts >>
  BY DEF RestartRouter
<1>2. faults' \in Nat /\ spent' <= MaxFaults
  BY <1>1, FaultKeeps DEF Inv, Heavy
<1>3. pool' \in Seq(Dh!Entry)
  <2>1. [id |-> Router, addr |-> 0] \in Dh!Entry
    BY Boards DEF Dh!Entry
  <2> QED
    BY <1>1, <2>1 DEF Dh!dhcp_init
<1>4. Parts'
  BY <1>1, <1>2, <1>3, ResetDoes, Boards DEF Inv, Parts
<1> QED
  BY <1>1, <1>4, ResetShape, Boards DEF Inv

LEMMA InitInv == Init => Inv
<1> SUFFICES ASSUME Init
             PROVE  Inv
  OBVIOUS
<1>1. /\ faults = 0 /\ orderly = TRUE /\ restarts = 0 /\ on = {Router}
      /\ event = [b \in Board |-> StartEvent(b)] /\ radio = [b \in Board |-> Rf!FreshChip]
      /\ recv = [b \in Board |-> NoPacket] /\ send = [b \in Board |-> NoPacket]
      /\ pc = [b \in Board |-> StartPc(b)] /\ cur = [b \in Board |-> "none"]
      /\ addr = [n \in Node |-> 0] /\ pool = Dh!dhcp_init(Router)
  BY DEF Init
<1>2. \A b \in Board : IsFresh(b)
  BY <1>1, StartEventIs, StartPcIs DEF IsFresh
<1>3. \A b \in Board : StartEvent(b) \in Ev!Event /\ StartPc(b) \in [Thread -> Places]
  BY StartEventIs, StartPcIs, SameEvent DEF Fresh, Good, Bd!Tidy
<1>4. Rf!FreshChip \in Rf!Chip
  BY RadioSame, Bd!FreshChipIs
<1>5. pool \in Seq(Dh!Entry)
  <2>1. [id |-> Router, addr |-> 0] \in Dh!Entry
    BY Boards DEF Dh!Entry
  <2> QED
    BY <1>1, <2>1 DEF Dh!dhcp_init
<1>6. spent <= MaxFaults
  BY <1>1, NetworkAssumption DEF spent, Heavy
<1>7. Parts
  BY <1>1, <1>3, <1>4, <1>5, <1>6, NoPacketIs, Boards DEF Parts
<1> QED
  BY <1>2, <1>7, FreshShape DEF Inv

\* What a step can be.
LEMMA Steps ==
  ASSUME [Next]_vars
  PROVE  \/ \E b \in Board : RxFlush(b) \/ TxEnd(b, Talker(b)) \/ Transmit(b)
         \/ \E n \in Node : NodeAsks(n) \/ NodeLooks(n) \/ NodeTakes(n) \/ NodeDecides(n)
         \/ RouterReceives \/ RouterLooks \/ RouterCopies \/ RouterAnswers \/ RouterFails
         \/ \E b \in Board, t \in Thread : Preempt(b, t)
         \/ \E n \in Node : Start(n) \/ RestartNode(n)
         \/ RestartRouter \/ UNCHANGED vars
<1>1. \A b \in Board : b # Router => b \in Node /\ Talker(b) = "nm"
  BY DEF Board, Talker
<1>2. Talker(Router) = "reg" /\ Router \in Board
  BY Boards DEF Talker
<1>3. \A b \in Board : Step(b) =>
        \/ RxFlush(b) \/ TxEnd(b, Talker(b))
        \/ \E n \in Node : NodeAsks(n) \/ NodeLooks(n) \/ NodeTakes(n) \/ NodeDecides(n)
        \/ RouterReceives \/ RouterLooks \/ RouterCopies \/ RouterAnswers
  BY <1>1, <1>2 DEF Step, NodeStep, RouterStep
<1> QED
  BY <1>3 DEF Next, Work

LEMMA NextInv == Inv /\ [Next]_vars => Inv'
<1> SUFFICES ASSUME Inv, [Next]_vars
             PROVE  Inv'
  OBVIOUS
<1>1. CASE \E b \in Board : RxFlush(b) \/ TxEnd(b, Talker(b)) \/ Transmit(b)
  BY <1>1, RxFlushInv, TxEndInv, TransmitInv
<1>2. CASE \E n \in Node : NodeAsks(n) \/ NodeLooks(n) \/ NodeTakes(n) \/ NodeDecides(n)
  BY <1>2, NodeAsksInv, NodeLooksInv, NodeTakesInv, NodeDecidesInv
<1>3. CASE RouterReceives \/ RouterLooks \/ RouterCopies \/ RouterAnswers \/ RouterFails
  BY <1>3, RouterReceivesDoes, ReadsInv, RouterLooksInv, RouterCopiesInv,
     RouterAnswersInv, RouterFailsInv, Boards
<1>4. CASE \E b \in Board, t \in Thread : Preempt(b, t)
  BY <1>4, PreemptInv
<1>5. CASE \E n \in Node : Start(n) \/ RestartNode(n)
  BY <1>5, StartInv, RestartNodeInv
<1>6. CASE RestartRouter
  BY <1>6, RestartRouterInv
<1>7. CASE UNCHANGED vars
  <2>1. UNCHANGED << faults, orderly, on, event, radio, recv, send, pc, cur, addr, pool,
                     restarts >>
    BY <1>7 DEF vars
  <2>2. Parts'
    BY <2>1 DEF Inv, Parts, spent
  <2> QED
    BY <2>1, <2>2, ElsewhereShape DEF Inv
<1> QED
  BY <1>1, <1>2, <1>3, <1>4, <1>5, <1>6, <1>7, Steps

\* What each thread of a board may be doing, what it may be waiting for and what its
\* chip may hold at that moment, whatever is lost, delayed or restarted.
THEOREM Invariant == Spec => []Inv
BY InitInv, NextInv, PTL DEF Spec

\* No thread is in the list of an event twice.
LEMMA NoneTwice ==
  ASSUME NEW b, NEW x, Good(b, x)
  PROVE  IsInjective([i \in 1 .. Len(x.wait) |-> x.wait[i].thread])
<1> DEFINE f == [i \in 1 .. Len(x.wait) |-> x.wait[i].thread]
<1>1. \A i, j \in 1 .. Len(x.wait) : i # j => x.wait[i].thread # x.wait[j].thread
  BY DEF Good, Bd!Tidy, Bd!Apart
<1>2. \A i, j \in DOMAIN f : f[i] = f[j] => i = j
  BY <1>1
<1> QED
  BY <1>2 DEF IsInjective

\* Every variable keeps its type, however many nodes and faults there are: no radio
\* is given a packet while it has one, and no thread waits twice.
THEOREM NetworkTypeCorrect == Spec => []TypeOK
<1>1. Inv => TypeOK
  <2> SUFFICES ASSUME Inv
               PROVE  TypeOK
    OBVIOUS
  <2>1. faults \in 0 .. MaxFaults /\ restarts \in 0 .. MaxFaults
    BY NetworkAssumption DEF Inv, Parts, spent, Heavy
  <2> QED
    BY <2>1, NoneTwice DEF Inv, Parts, ShapeAt, TypeOK
<1> QED
  BY <1>1, Invariant, PTL

-----------------------------------------------------------------------------
(* The network is an address server: what holds of the pool and the packets *)

\* What an acknowledgment for a node says is what the pool q says.
RightIn(q, p) ==
  p.kind = "acknowledge" /\ p.id \in Node =>
    Dh!Found(q, p.id) /\ p.addr = Dh!AddrOf(q, p.id)

RightAt(b) ==
  /\ RightIn(pool, recv[b])
  /\ radio[b].fifo # << >> => RightIn(pool, radio[b].fifo[1])
  /\ radio[b].out # << >> => RightIn(pool, radio[b].out[1])

\* Nobody runs between reading recv_buf and using what was read.
AtWork ==
  /\ pc[Router]["reg"] \in {"copy", "addr"} => cur[Router] = "reg"
  /\ pc[Router]["reg"] = "addr" =>
       send[Router].kind = "acknowledge" /\ send[Router].id = recv[Router].id
  /\ \A n \in Node : pc[n]["reg"] = "take" =>
       cur[n] = "reg" /\ recv[n].kind = "acknowledge" /\ recv[n].id = n

\* A node acknowledges nothing, and has no address before it is done.
NodesHold ==
  \A n \in Node : /\ send[n].kind # "acknowledge"
                  /\ pc[n]["reg"] # "done" => addr[n] = 0

RouterFirst == Len(pool) >= 1 /\ pool[1].id = Router

Working == AtWork /\ \A b \in Board : RightAt(b)

Serving == RouterFirst /\ NodesHold /\ (orderly => Working)

\* An id is found where it is.
LEMMA FoundAt ==
  ASSUME NEW p, Counted(p), NEW k \in 1 .. Len(p)
  PROVE  Dh!Found(p, p[k].id) /\ Dh!AddrOf(p, p[k].id) = p[k].addr
<1> DEFINE i == CHOOSE j \in 1 .. Len(p) : p[j].id = p[k].id
<1>1. i \in 1 .. Len(p) /\ p[i].id = p[k].id
  OBVIOUS
<1>2. i = k
  BY <1>1 DEF Counted
<1>3. Dh!AddrOf(p, p[k].id) = p[i].addr
  BY DEF Dh!AddrOf
<1> HIDE DEF i
<1> QED
  BY <1>2, <1>3 DEF Dh!Found

\* g is p, in which id is found too; what was there has not changed.
Grows(p, g, id) ==
  /\ Counted(g) /\ Dh!Found(g, id)
  /\ Len(p) >= 1 => Len(g) >= 1 /\ g[1] = p[1]
  /\ \A m : Dh!Found(p, m) => Dh!Found(g, m) /\ Dh!AddrOf(g, m) = Dh!AddrOf(p, m)
  /\ \A m : m # id => (Dh!Found(g, m) <=> Dh!Found(p, m))
  /\ ~Dh!Found(p, id) => Dh!AddrOf(g, id) = Len(p) % AddrSpace

LEMMA GrownIs ==
  ASSUME NEW p, Counted(p), NEW id
  PROVE  Grows(p, Dh!Grown(p, id), id)
<1> DEFINE g == Dh!Grown(p, id)
<1>1. Counted(g)
  BY GrownSteps
<1>2. CASE Dh!Found(p, id)
  <2>1. g = p
    BY <1>2 DEF Dh!Grown
  <2> HIDE DEF g
  <2>2. Grows(p, g, id)
    BY <1>1, <1>2, <2>1 DEF Grows
  <2> QED
    BY <2>2 DEF g
<1>3. CASE ~Dh!Found(p, id)
  <2> DEFINE new == [id |-> id, addr |-> Len(p) % AddrSpace]
             S   == {p[i] : i \in 1 .. Len(p)}
             n   == Len(p)
  <2>1. p \in Seq(S) /\ n \in Nat
    BY DEF Counted
  <2>2. g = Append(p, new)
    BY <1>3 DEF Dh!Grown
  <2>3. new.id = id /\ new.addr = n % AddrSpace
    OBVIOUS
  <2> HIDE DEF S, new, g
  <2>4. /\ Len(g) = n + 1 /\ g[n + 1] = new
        /\ \A i \in 1 .. n : g[i] = p[i]
    <3>1. p \in Seq(S \cup {new}) /\ new \in S \cup {new}
      BY <2>1
    <3> QED
      BY <2>2, <3>1
  <2> HIDE DEF n
  <2>5. n + 1 \in 1 .. Len(g) /\ \A i \in 1 .. n : i \in 1 .. Len(g)
    BY <2>1, <2>4
  <2>6. Dh!Found(g, id) /\ Dh!AddrOf(g, id) = n % AddrSpace
    BY <1>1, <2>3, <2>4, <2>5, FoundAt
  <2>7. ASSUME NEW m, Dh!Found(p, m)
        PROVE  Dh!Found(g, m) /\ Dh!AddrOf(g, m) = Dh!AddrOf(p, m)
    <3>1. PICK i \in 1 .. n : p[i].id = m
      BY <2>7 DEF Dh!Found, n
    <3>2. g[i] = p[i] /\ i \in 1 .. Len(g)
      BY <2>4, <2>5
    <3>3. Dh!AddrOf(p, p[i].id) = p[i].addr
      BY <3>1, FoundAt DEF n
    <3>4. Dh!Found(g, g[i].id) /\ Dh!AddrOf(g, g[i].id) = g[i].addr
      BY <1>1, <3>2, FoundAt
    <3> QED
      BY <3>1, <3>2, <3>3, <3>4
  <2>8. ASSUME NEW m, m # id, Dh!Found(g, m)
        PROVE  Dh!Found(p, m)
    <3>1. PICK i \in 1 .. n + 1 : g[i].id = m
      BY <2>4, <2>8 DEF Dh!Found
    <3>2. i # n + 1
      BY <2>3, <2>4, <2>8, <3>1
    <3>3. i \in 1 .. n
      BY <2>1, <3>1, <3>2
    <3> QED
      BY <2>4, <3>1, <3>3 DEF Dh!Found, n
  <2>9. n >= 1 => Len(g) >= 1 /\ g[1] = p[1]
    BY <2>1, <2>4
  <2>10. Grows(p, g, id)
    BY <1>1, <2>6, <2>7, <2>8, <2>9 DEF Grows, n
  <2> QED
    BY <2>10 DEF g
<1> QED
  BY <1>2, <1>3

LEMMA GrownRight ==
  ASSUME NEW p, NEW g, NEW id, Grows(p, g, id), NEW x, RightIn(p, x)
  PROVE  RightIn(g, x)
BY DEF Grows, RightIn

LEMMA NothingWrong == \A q : RightIn(q, NoPacket)
BY DEF RightIn, NoPacket

\* The network thread of b has moved while no other thread of b was at work.
LEMMA NmAtWork ==
  ASSUME AtWork, NEW b \in Board, NEW place, NEW c, Moved(b, "nm", place, c),
         cur[b] \in {"nm", "none"}, send' = send,
         \A o \in Board \ {b} : recv'[o] = recv[o]
  PROVE  AtWork'
<1>1. \A o \in Board : pc'[o]["reg"] = pc[o]["reg"]
  BY DEF Moved, Thread
<1>2. \A o \in Board \ {b} : cur'[o] = cur[o]
  BY DEF Moved
<1>3. \A n \in Node : n \in Board /\ n # Router
  BY Boards
<1>4. \A n \in Node : pc'[n]["reg"] = "take" =>
        cur'[n] = "reg" /\ recv'[n].kind = "acknowledge" /\ recv'[n].id = n
  BY <1>1, <1>2, <1>3 DEF AtWork
<1>5. Router \in Board
  BY Boards
<1>6. pc'[Router]["reg"] \in {"copy", "addr"} => cur'[Router] = "reg" /\ b # Router
  BY <1>1, <1>2, <1>5 DEF AtWork
<1>7. pc'[Router]["reg"] = "addr" =>
        send'[Router].kind = "acknowledge" /\ send'[Router].id = recv'[Router].id
  BY <1>1, <1>5, <1>6 DEF AtWork
<1> QED
  BY <1>4, <1>6, <1>7 DEF AtWork

\* The registration thread of b has moved; recv_buf is as it was.
LEMMA RegAtWork ==
  ASSUME AtWork, NEW b \in Board, NEW place, NEW c, Moved(b, "reg", place, c), recv' = recv,
         \A o \in Board \ {b} : send'[o] = send[o],
         place \in {"copy", "addr", "take"} => c = "reg",
         place = "addr" => send'[b].kind = "acknowledge" /\ send'[b].id = recv[b].id,
         place = "take" => recv[b].kind = "acknowledge" /\ recv[b].id = b
  PROVE  AtWork'
<1>1. \A o \in Board \ {b} : pc'[o] = pc[o] /\ cur'[o] = cur[o]
  BY DEF Moved
<1>2. pc'[b]["reg"] = place /\ cur'[b] = c
  BY DEF Moved
<1>3. \A n \in Node : n \in Board
  BY Boards
<1>4. \A n \in Node : pc'[n]["reg"] = "take" =>
        cur'[n] = "reg" /\ recv'[n].kind = "acknowledge" /\ recv'[n].id = n
  BY <1>1, <1>2, <1>3 DEF AtWork
<1>5. Router \in Board
  BY Boards
<1>6. pc'[Router]["reg"] \in {"copy", "addr"} => cur'[Router] = "reg"
  BY <1>1, <1>2, <1>5 DEF AtWork
<1>7. pc'[Router]["reg"] = "addr" =>
        send'[Router].kind = "acknowledge" /\ send'[Router].id = recv'[Router].id
  BY <1>1, <1>2, <1>5 DEF AtWork
<1> QED
  BY <1>4, <1>6, <1>7 DEF AtWork

LEMMA RegHolds ==
  ASSUME NodesHold, NEW b \in Board, NEW place, NEW c, Moved(b, "nm", place, c),
         send' = send, addr' = addr
  PROVE  NodesHold'
<1>1. \A n \in Node : n \in Board
  BY Boards
<1> QED
  BY <1>1 DEF NodesHold, Moved, Thread

\* The invariants so far, and what the network serves.
Known == Inv /\ PoolInv /\ Serving

LEMMA StaysRight ==
  ASSUME NEW b \in Board, \A o \in Board : RightAt(o), pool' = pool,
         RightIn(pool, recv'[b]),
         radio'[b].fifo # << >> => RightIn(pool, radio'[b].fifo[1]),
         radio'[b].out # << >> => RightIn(pool, radio'[b].out[1]),
         \A o \in Board \ {b} : radio'[o] = radio[o] /\ recv'[o] = recv[o]
  PROVE  \A o \in Board : RightAt(o)'
<1> SUFFICES ASSUME NEW o \in Board
             PROVE  RightAt(o)'
  OBVIOUS
<1>1. CASE o = b
  BY <1>1 DEF RightAt
<1>2. CASE o # b
  BY <1>2 DEF RightAt
<1> QED
  BY <1>1, <1>2

LEMMA ReadsServing ==
  ASSUME Known, NEW b \in Board, Reads(b, recv'[b]), cur[b] \in {"nm", "none"},
         UNCHANGED << orderly, send, addr, pool >>
  PROVE  Serving'
<1>1. PICK place, c : Moved(b, "nm", place, c)
  BY DEF Reads
<1>2. RouterFirst' /\ NodesHold'
  BY <1>1, RegHolds DEF Known, Serving, RouterFirst
<1>3. ASSUME orderly
      PROVE  Working'
  <2>1. AtWork'
    BY <1>1, <1>3, NmAtWork DEF Known, Serving, Working, Reads
  <2>2. RightAt(b)
    BY <1>3 DEF Known, Serving, Working
  <2>3. recv'[b] = recv[b] \/ recv'[b] = NoPacket
          \/ (radio[b].fifo # << >> /\ recv'[b] = radio[b].fifo[1])
    BY DEF Reads
  <2>4. RightIn(pool, recv'[b])
    BY <2>2, <2>3, NothingWrong DEF RightAt
  <2>5. \A o \in Board : RightAt(o)'
    BY <1>3, <2>2, <2>4, StaysRight DEF Known, Serving, Working, Reads, RightAt
  <2> QED
    BY <2>1, <2>5 DEF Working
<1> QED
  BY <1>2, <1>3 DEF Serving

LEMMA RxFlushServing == ASSUME Known, NEW b \in Board, RxFlush(b) PROVE Serving'
<1>1. /\ Flushes(b) /\ cur[b] \in {"nm", "none"}
      /\ UNCHANGED << faults, orderly, restarts, on, recv, send, addr, pool >>
  BY RxFlushDoes DEF Known
<1>2. PICK place, c : Moved(b, "nm", place, c)
  BY RxFlushDoes DEF Known
<1>3. RouterFirst' /\ NodesHold'
  BY <1>1, <1>2, RegHolds DEF Known, Serving, RouterFirst
<1>4. ASSUME orderly
      PROVE  Working'
  <2>1. AtWork'
    BY <1>1, <1>2, <1>4, NmAtWork DEF Known, Serving, Working
  <2>2. RightAt(b)
    BY <1>4 DEF Known, Serving, Working
  <2>3. \A o \in Board : RightAt(o)'
    BY <1>1, <1>4, <2>2, StaysRight DEF Known, Serving, Working, Flushes, RightAt
  <2> QED
    BY <2>1, <2>3 DEF Working
<1> QED
  BY <1>1, <1>3, <1>4 DEF Serving

LEMMA TxEndServing == ASSUME Known, NEW b \in Board, TxEnd(b, Talker(b)) PROVE Serving'
<1> DEFINE t == Talker(b)
<1>1. /\ Unloads(b) /\ Moved(b, t, "got", Then(b, t, event[b]))
      /\ cur[b] \in {t, "none"} /\ pc[b][t] = "spin"
      /\ UNCHANGED << faults, orderly, restarts, on, recv, send, addr, pool >>
  BY TxEndDoes, TalkerIs DEF Known
<1>2. RouterFirst'
  BY <1>1 DEF Known, Serving, RouterFirst
<1>3. NodesHold'
  <2>1. CASE b = Router
    <3>1. \A n \in Node : n \in Board \ {b}
      BY <2>1, Boards
    <3> QED
      BY <1>1, <3>1 DEF Known, Serving, NodesHold, Moved
  <2>2. CASE b # Router
    <3>1. t = "nm"
      BY <2>2 DEF Talker
    <3> QED
      BY <1>1, <3>1, RegHolds DEF Known, Serving
  <2> QED
    BY <2>1, <2>2
<1>4. ASSUME orderly
      PROVE  Working'
  <2>1. AtWork'
    <3>1. CASE b = Router
      <4>1. t = "reg"
        BY <3>1 DEF Talker
      <4> QED
        BY <1>1, <1>4, <4>1, RegAtWork DEF Known, Serving, Working
    <3>2. CASE b # Router
      <4>1. t = "nm"
        BY <3>2 DEF Talker
      <4> QED
        BY <1>1, <1>4, <4>1, NmAtWork DEF Known, Serving, Working
    <3> QED
      BY <3>1, <3>2
  <2>2. RightAt(b)
    BY <1>4 DEF Known, Serving, Working
  <2>3. \A o \in Board : RightAt(o)'
    BY <1>1, <1>4, <2>2, StaysRight DEF Known, Serving, Working, Unloads, RightAt
  <2> QED
    BY <2>1, <2>3 DEF Working
<1> QED
  BY <1>1, <1>2, <1>3, <1>4 DEF Serving

LEMMA FirstOfOne == \A p : << p >>[1] = p /\ << p >> # << >>
OBVIOUS

LEMMA TransmitServing == ASSUME Known, NEW b \in Board, Transmit(b) PROVE Serving'
<1>1. UNCHANGED << orderly, on, recv, send, pc, cur, addr, pool, restarts >>
  BY TransmitDoes DEF Known
<1>2. PICK hearers \in SUBSET on : Carried(b, hearers)
  BY TransmitDoes DEF Known
<1>3. RouterFirst' /\ NodesHold'
  BY <1>1 DEF Known, Serving, RouterFirst, NodesHold
<1>4. ASSUME orderly
      PROVE  Working'
  <2>1. AtWork'
    BY <1>1, <1>4 DEF Known, Serving, Working, AtWork
  <2>2. \A o \in Board : RightAt(o)
    BY <1>4 DEF Known, Serving, Working
  <2>3. RightIn(pool, radio[b].out[1])
    BY <1>2, <2>2 DEF Carried, RightAt
  <2>4. ASSUME NEW o \in Board
        PROVE  RightAt(o)'
    <3>1. radio'[o].out = << >> \/ radio'[o].out = radio[o].out
      BY <1>2 DEF Carried
    <3>2. radio'[o].fifo = radio[o].fifo \/ radio'[o].fifo = << radio[b].out[1] >>
      BY <1>2 DEF Carried
    <3> QED
      BY <1>1, <2>2, <2>3, <3>1, <3>2, FirstOfOne DEF RightAt
  <2> QED
    BY <2>1, <2>4 DEF Working
<1> QED
  BY <1>1, <1>3, <1>4 DEF Serving

\* A step of a registration thread that leaves the radio and recv_buf alone.
RegStep(b, place, c) ==
  /\ Moved(b, "reg", place, c)
  /\ UNCHANGED << orderly, radio, recv, pool >>
  /\ \A o \in Board \ {b} : send'[o] = send[o]
  /\ b # Router => send'[b].kind # "acknowledge"
  /\ \A n \in Node : addr'[n] = addr[n] \/ (n = b /\ place = "done")
  /\ b \in Node /\ place # "done" => pc[b]["reg"] # "done"
  /\ place \in {"copy", "addr", "take"} => c = "reg"
  /\ place = "addr" => send'[b].kind = "acknowledge" /\ send'[b].id = recv[b].id
  /\ place = "take" => recv[b].kind = "acknowledge" /\ recv[b].id = b

LEMMA RegServing ==
  ASSUME Known, NEW b \in Board, NEW place, NEW c, RegStep(b, place, c)
  PROVE  Serving'
<1>1. RouterFirst'
  BY DEF Known, Serving, RouterFirst, RegStep
<1>2. NodesHold'
  <2> SUFFICES ASSUME NEW n \in Node
               PROVE  /\ send'[n].kind # "acknowledge"
                      /\ pc'[n]["reg"] # "done" => addr'[n] = 0
    BY DEF NodesHold
  <2>1. n \in Board /\ n # Router
    BY Boards
  <2>2. send[n].kind # "acknowledge" /\ (pc[n]["reg"] # "done" => addr[n] = 0)
    BY DEF Known, Serving, NodesHold
  <2>3. CASE n = b
    BY <2>1, <2>2, <2>3 DEF RegStep, Moved
  <2>4. CASE n # b
    BY <2>1, <2>2, <2>4 DEF RegStep, Moved
  <2> QED
    BY <2>3, <2>4
<1>3. ASSUME orderly
      PROVE  Working'
  <2>1. AtWork'
    BY <1>3, RegAtWork DEF Known, Serving, Working, RegStep
  <2>2. \A o \in Board : RightAt(o)'
    BY <1>3 DEF Known, Serving, Working, RightAt, RegStep
  <2> QED
    BY <2>1, <2>2 DEF Working
<1> QED
  BY <1>1, <1>2, <1>3 DEF Serving, RegStep

LEMMA NodeAsksServing == ASSUME Known, NEW n \in Node, NodeAsks(n) PROVE Serving'
<1>1. /\ pc[n]["reg"] = "ask" /\ n \in Board /\ n # Router
      /\ send' = [send EXCEPT ![n] = [kind |-> "register", id |-> n, addr |-> 0]]
      /\ UNCHANGED << faults, orderly, restarts, on, radio, recv, addr, pool >>
  BY NodeAsksDoes, Boards DEF Known
<1>2. PICK x : Moved(n, "reg", "got", Then(n, "reg", x))
  BY NodeAsksDoes DEF Known
<1>3. send'[n].kind = "register" /\ \A o \in Board \ {n} : send'[o] = send[o]
  BY <1>1 DEF Known, Inv, Parts
<1>4. RegStep(n, "got", Then(n, "reg", x))
  BY <1>1, <1>2, <1>3 DEF RegStep
<1> QED
  BY <1>1, <1>4, RegServing

LEMMA NodeLooksServing == ASSUME Known, NEW n \in Node, NodeLooks(n) PROVE Serving'
<1>1. /\ pc[n]["reg"] = "got" /\ n \in Board /\ n # Router
      /\ UNCHANGED << faults, orderly, restarts, on, event, radio, recv, send, addr, pool >>
  BY NodeLooksDoes, Boards DEF Known
<1>2. send[n].kind # "acknowledge"
  BY DEF Known, Serving, NodesHold
<1>3. CASE recv[n].kind = "acknowledge" /\ recv[n].id = n
  <2>1. Moved(n, "reg", "take", "reg")
    BY <1>3, NodeLooksDoes DEF Known
  <2>2. RegStep(n, "take", "reg")
    BY <1>1, <1>2, <1>3, <2>1 DEF RegStep
  <2> QED
    BY <1>1, <2>2, RegServing
<1>4. CASE ~(recv[n].kind = "acknowledge" /\ recv[n].id = n)
  <2>1. Moved(n, "reg", "done", "none")
    BY <1>4, NodeLooksDoes DEF Known
  <2>2. RegStep(n, "done", "none")
    BY <1>1, <1>2, <2>1 DEF RegStep
  <2> QED
    BY <1>1, <2>2, RegServing
<1> QED
  BY <1>3, <1>4

LEMMA NodeTakesServing == ASSUME Known, NEW n \in Node, NodeTakes(n) PROVE Serving'
<1>1. /\ pc[n]["reg"] = "take" /\ n \in Board /\ n # Router
      /\ addr' = [addr EXCEPT ![n] = recv[n].addr]
      /\ send' = [send EXCEPT ![n] = [kind |-> "confirm", id |-> n, addr |-> 0]]
      /\ UNCHANGED << faults, orderly, restarts, on, radio, recv, pool >>
      /\ Moved(n, "reg", "done", "none")
  BY NodeTakesDoes, Boards DEF Known
<1>2. send'[n].kind = "confirm" /\ \A o \in Board \ {n} : send'[o] = send[o]
  BY <1>1 DEF Known, Inv, Parts
<1>3. \A m \in Node : addr'[m] = addr[m] \/ m = n
  BY <1>1 DEF Known, Inv, Parts
<1>4. RegStep(n, "done", "none")
  BY <1>1, <1>2, <1>3 DEF RegStep
<1> QED
  BY <1>1, <1>4, RegServing

LEMMA NodeDecidesServing == ASSUME Known, NEW n \in Node, NodeDecides(n) PROVE Serving'
<1>1. /\ cur[n] \in {"nm", "none"} /\ n \in Board
      /\ UNCHANGED << faults, orderly, restarts, on, send, addr, pool >>
  BY NodeDecidesDoes, Boards DEF Known
<1>2. CASE event[n].got["nm"] = {"RECV_PACKET"}
  BY <1>1, <1>2, NodeDecidesDoes, ReadsServing DEF Known
<1>3. CASE event[n].got["nm"] # {"RECV_PACKET"}
  <2>1. /\ Loads(n, send[n]) /\ Moved(n, "nm", "spin", "nm") /\ UNCHANGED << event, recv >>
    BY <1>3, NodeDecidesDoes DEF Known
  <2>2. RouterFirst' /\ NodesHold'
    BY <1>1, <2>1, RegHolds DEF Known, Serving, RouterFirst
  <2>3. ASSUME orderly
        PROVE  Working'
    <3>1. AtWork'
      BY <1>1, <2>1, <2>3, NmAtWork DEF Known, Serving, Working
    <3>2. RightAt(n)
      BY <1>1, <2>3 DEF Known, Serving, Working
    <3>3. RightIn(pool, send[n])
      BY DEF Known, Serving, NodesHold, RightIn
    <3>4. radio'[n].out[1] = send[n] /\ radio'[n].fifo = radio[n].fifo
      BY <2>1, FirstOfOne DEF Loads
    <3>5. \A o \in Board \ {n} : radio'[o] = radio[o] /\ recv'[o] = recv[o]
      BY <2>1 DEF Loads
    <3>6. \A o \in Board : RightAt(o)
      BY <2>3 DEF Known, Serving, Working
    <3>7. \A o \in Board : RightAt(o)'
      BY <1>1, <2>1, <3>2, <3>3, <3>4, <3>5, <3>6, StaysRight DEF RightAt
    <3> QED
      BY <3>1, <3>7 DEF Working
  <2> QED
    BY <1>1, <2>2, <2>3 DEF Serving
<1> QED
  BY <1>2, <1>3

LEMMA RouterLooksServing == ASSUME Known, RouterLooks PROVE Serving'
<1>1. /\ Router \in Board /\ Router \notin Node
      /\ UNCHANGED << faults, orderly, restarts, on, radio, recv, send, addr, pool >>
  BY RouterLooksDoes, Boards DEF Known
<1>2. CASE Answers
  <2>1. Moved(Router, "reg", "copy", "reg")
    BY <1>2 DEF Answers
  <2>2. RegStep(Router, "copy", "reg")
    BY <1>1, <2>1 DEF RegStep
  <2> QED
    BY <1>1, <2>2, RegServing
<1>3. CASE Passes
  <2>1. PICK c : Moved(Router, "reg", "got", c)
    BY <1>3 DEF Passes
  <2>2. RegStep(Router, "got", c)
    BY <1>1, <2>1 DEF RegStep
  <2> QED
    BY <1>1, <2>2, RegServing
<1> QED
  BY <1>2, <1>3, RouterLooksDoes DEF Known

LEMMA RouterCopiesServing == ASSUME Known, RouterCopies PROVE Serving'
<1>1. /\ Router \in Board /\ Router \notin Node
      /\ send' = [send EXCEPT ![Router] =
                    [kind |-> "acknowledge", id |-> recv[Router].id, addr |-> 0]]
      /\ UNCHANGED << faults, orderly, restarts, on, event, radio, recv, addr, pool >>
      /\ Moved(Router, "reg", "addr", "reg")
  BY RouterCopiesDoes, Boards DEF Known
<1>2. /\ send'[Router].kind = "acknowledge" /\ send'[Router].id = recv[Router].id
      /\ \A o \in Board \ {Router} : send'[o] = send[o]
  BY <1>1 DEF Known, Inv, Parts
<1>3. RegStep(Router, "addr", "reg")
  BY <1>1, <1>2 DEF RegStep
<1> QED
  BY <1>1, <1>3, RegServing

LEMMA RouterFailsServing == ASSUME Known, RouterFails PROVE Serving'
<1>1. /\ Router \in Board /\ Router \notin Node
      /\ UNCHANGED << orderly, restarts, on, radio, recv, send, addr, pool >>
  BY RouterFailsDoes, Boards DEF Known
<1>2. PICK c : Moved(Router, "reg", "got", c)
  BY RouterFailsDoes DEF Known
<1>3. RegStep(Router, "got", c)
  BY <1>1, <1>2 DEF RegStep
<1> QED
  BY <1>1, <1>3, RegServing

LEMMA RouterAnswersServing == ASSUME Known, RouterAnswers PROVE Serving'
<1> DEFINE id == recv[Router].id
           ack == send'[Router]
<1>1. /\ pc[Router]["reg"] = "addr" /\ pool' = Dh!Grown(pool, id)
      /\ send' = [send EXCEPT ![Router] = ack]
      /\ ack = [send[Router] EXCEPT !.addr = Dh!get_addr(pool, id)]
      /\ UNCHANGED << faults, orderly, restarts, on, event, recv, addr >>
      /\ Loads(Router, ack) /\ Moved(Router, "reg", "spin", "reg")
  BY RouterAnswersDoes DEF Known
<1>2. Grows(pool, pool', id)
  BY <1>1, GrownIs DEF Known, PoolInv
<1>3. RouterFirst'
  BY <1>2 DEF Known, Serving, RouterFirst, Grows
<1>4. send \in [Board -> Packet] /\ Router \in Board /\ send[Router] \in Packet
  BY Boards DEF Known, Inv, Parts
<1>5. \A n \in Node : n \in Board \ {Router}
  BY Boards
<1>6. NodesHold'
  <2>1. \A n \in Node : send'[n] = send[n] /\ pc'[n] = pc[n]
    BY <1>1, <1>4, <1>5 DEF Moved
  <2> QED
    BY <1>1, <2>1 DEF Known, Serving, NodesHold
<1>7. ASSUME orderly
      PROVE  Working'
  <2>1. AtWork /\ \A o \in Board : RightAt(o)
    BY <1>7 DEF Known, Serving, Working
  <2>2. AtWork'
    <3>1. \A o \in Board \ {Router} : send'[o] = send[o]
      BY <1>1, <1>4
    <3> QED
      BY <1>1, <1>4, <2>1, <3>1, RegAtWork
  <2>3. ack.kind = "acknowledge" /\ ack.id = id /\ ack.addr = Dh!get_addr(pool, id)
    <3>1. send[Router].kind = "acknowledge" /\ send[Router].id = id
      BY <1>1, <2>1 DEF AtWork
    <3>2. ack.kind = send[Router].kind /\ ack.id = send[Router].id
            /\ ack.addr = Dh!get_addr(pool, id)
      BY <1>1, <1>4 DEF Packet
    <3> QED
      BY <3>1, <3>2
  <2>4. RightIn(pool', ack)
    BY <1>1, <1>2, <2>3 DEF RightIn, Grows, Dh!get_addr
  <2>5. ASSUME NEW o \in Board
        PROVE  RightAt(o)'
    <3>1. RightIn(pool', recv[o]) /\ (radio[o].fifo # << >> => RightIn(pool', radio[o].fifo[1]))
            /\ (radio[o].out # << >> => RightIn(pool', radio[o].out[1]))
      BY <1>2, <2>1, GrownRight DEF RightAt
    <3>2. radio'[o].fifo = radio[o].fifo
            /\ (radio'[o].out = radio[o].out \/ radio'[o].out = << ack >>)
      BY <1>1 DEF Loads
    <3> QED
      BY <1>1, <2>4, <3>1, <3>2, FirstOfOne DEF RightAt
  <2> QED
    BY <2>2, <2>5 DEF Working
<1> QED
  BY <1>1, <1>3, <1>6, <1>7 DEF Serving

LEMMA RestartNodeServing == ASSUME Known, NEW n \in Node, RestartNode(n) PROVE Serving'
<1>1. /\ n \in Board /\ n # Router /\ Reset(n) /\ addr' = [addr EXCEPT ![n] = 0]
      /\ UNCHANGED << orderly, on, pool >>
  BY Boards DEF RestartNode
<1>2. /\ IsFresh(n)'
      /\ \A o \in Board \ {n} :
           /\ radio'[o] = radio[o] /\ recv'[o] = recv[o]
           /\ send'[o] = send[o] /\ pc'[o] = pc[o] /\ cur'[o] = cur[o]
  BY <1>1, ResetDoes DEF Known, Inv
<1>3. /\ recv'[n] = NoPacket /\ send'[n] = NoPacket /\ pc'[n]["reg"] = "ask"
      /\ radio'[n] = Rf!FreshChip
  BY <1>1, <1>2 DEF IsFresh
<1>4. radio'[n].fifo = << >> /\ radio'[n].out = << >> /\ NoPacket.kind = "junk"
  BY <1>3 DEF Rf!FreshChip, NoPacket
<1>5. RouterFirst'
  BY <1>1 DEF Known, Serving, RouterFirst
<1>6. NodesHold'
  <2> SUFFICES ASSUME NEW m \in Node
               PROVE  /\ send'[m].kind # "acknowledge"
                      /\ pc'[m]["reg"] # "done" => addr'[m] = 0
    BY DEF NodesHold
  <2>1. CASE m = n
    BY <1>1, <1>3, <1>4, <2>1 DEF Known, Inv, Parts
  <2>2. CASE m # n
    <3>1. m \in Board \ {n}
      BY <2>2, Boards
    <3> QED
      BY <1>1, <1>2, <2>2, <3>1 DEF Known, Inv, Parts, Serving, NodesHold
  <2> QED
    BY <2>1, <2>2
<1>7. ASSUME orderly
      PROVE  Working'
  <2>1. AtWork /\ \A o \in Board : RightAt(o)
    BY <1>7 DEF Known, Serving, Working
  <2>2. Router \in Board \ {n} /\ \A m \in Node : m \in Board
    BY <1>1, Boards
  <2>3. AtWork'
    BY <1>2, <1>3, <2>1, <2>2 DEF AtWork
  <2>4. \A o \in Board : RightAt(o)'
    BY <1>1, <1>2, <1>3, <1>4, <2>1, NothingWrong, StaysRight
  <2> QED
    BY <2>3, <2>4 DEF Working
<1> QED
  BY <1>1, <1>5, <1>6, <1>7 DEF Serving

LEMMA RestartRouterServing == ASSUME Known, RestartRouter PROVE Serving'
<1>1. /\ Reset(Router) /\ pool' = Dh!dhcp_init(Router) /\ orderly' = FALSE
      /\ UNCHANGED << on, addr, restarts >>
  BY DEF RestartRouter
<1>2. \A o \in Board \ {Router} : send'[o] = send[o] /\ pc'[o] = pc[o]
  BY <1>1, ResetDoes, Boards DEF Known, Inv
<1>3. \A n \in Node : n \in Board \ {Router}
  BY Boards
<1>4. NodesHold'
  BY <1>1, <1>2, <1>3 DEF Known, Serving, NodesHold
<1>5. RouterFirst'
  <2> DEFINE e == [id |-> Router, addr |-> 0]
             q == << e >>
  <2>1. pool' = q /\ e.id = Router
    BY <1>1 DEF Dh!dhcp_init
  <2> HIDE DEF e
  <2>2. Len(q) = 1 /\ q[1] = e
    OBVIOUS
  <2> HIDE DEF q
  <2> QED
    BY <2>1, <2>2 DEF RouterFirst
<1> QED
  BY <1>1, <1>4, <1>5 DEF Serving

LEMMA PreemptServing ==
  ASSUME Known, NEW b \in Board, NEW t \in Thread, Preempt(b, t)
  PROVE  Serving'
BY DEF Preempt, Known, Serving, RouterFirst, NodesHold

LEMMA StartServing ==
  ASSUME Known, NEW n \in Node, Start(n)
  PROVE  Serving'
BY DEF Start, Known, Serving, RouterFirst, NodesHold, Working, AtWork, RightAt

LEMMA KnownInit == Init => Known
<1> SUFFICES ASSUME Init
             PROVE  Known
  OBVIOUS
<1>1. Inv /\ PoolInv
  BY InitInv, FirstPool DEF Init, PoolInv
<1>2. /\ recv = [b \in Board |-> NoPacket] /\ send = [b \in Board |-> NoPacket]
      /\ pc = [b \in Board |-> StartPc(b)] /\ addr = [n \in Node |-> 0]
      /\ radio = [b \in Board |-> Rf!FreshChip] /\ pool = Dh!dhcp_init(Router)
  BY DEF Init
<1>3. Rf!FreshChip.out = << >> /\ Rf!FreshChip.fifo = << >> /\ NoPacket.kind = "junk"
  BY DEF Rf!FreshChip, NoPacket
<1>4. NodesHold
  BY <1>2, <1>3, Boards DEF NodesHold
<1>5. \A b \in Board : RightAt(b)
  BY <1>2, <1>3, NothingWrong DEF RightAt
<1>6. AtWork
  BY <1>2, StartPcIs, Boards DEF AtWork
<1>7. RouterFirst
  <2> DEFINE e == [id |-> Router, addr |-> 0]
             q == << e >>
  <2>1. pool = q /\ e.id = Router
    BY <1>2 DEF Dh!dhcp_init
  <2> HIDE DEF e
  <2>2. Len(q) = 1 /\ q[1] = e
    OBVIOUS
  <2> HIDE DEF q
  <2> QED
    BY <2>1, <2>2 DEF RouterFirst
<1> QED
  BY <1>1, <1>4, <1>5, <1>6, <1>7 DEF Known, Serving, Working

LEMMA KnownNext == Known /\ [Next]_vars => Known'
<1> SUFFICES ASSUME Known, [Next]_vars
             PROVE  Serving'
  BY NextInv, PoolInvNext DEF Known
<1>1. CASE \E b \in Board : RxFlush(b) \/ TxEnd(b, Talker(b)) \/ Transmit(b)
  BY <1>1, RxFlushServing, TxEndServing, TransmitServing
<1>2. CASE \E n \in Node : NodeAsks(n) \/ NodeLooks(n) \/ NodeTakes(n) \/ NodeDecides(n)
  BY <1>2, NodeAsksServing, NodeLooksServing, NodeTakesServing, NodeDecidesServing
<1>3. CASE RouterReceives
  BY <1>3, RouterReceivesDoes, ReadsServing, Boards DEF Known
<1>4. CASE RouterLooks \/ RouterCopies \/ RouterAnswers \/ RouterFails
  BY <1>4, RouterLooksServing, RouterCopiesServing, RouterAnswersServing, RouterFailsServing
<1>5. CASE \E b \in Board, t \in Thread : Preempt(b, t)
  BY <1>5, PreemptServing
<1>6. CASE \E n \in Node : Start(n) \/ RestartNode(n)
  BY <1>6, StartServing, RestartNodeServing
<1>7. CASE RestartRouter
  BY <1>7, RestartRouterServing
<1>8. CASE UNCHANGED vars
  BY <1>8 DEF vars, Known, Serving, RouterFirst, NodesHold, Working, AtWork, RightAt
<1> QED
  BY <1>1, <1>2, <1>3, <1>4, <1>5, <1>6, <1>7, <1>8, Steps

\* Each id is listed once, so the list is never longer than there are ids.
LEMMA PoolFits ==
  ASSUME Known
  PROVE  Len(pool) \in Nat /\ Len(pool) < AddrSpace
<1> DEFINE f == [i \in 1 .. Len(pool) |-> pool[i].id]
           n == Len(pool)
<1>1. n \in Nat /\ \A i \in 1 .. n : pool[i].id \in Ids
  <2>1. pool \in Seq(Dh!Entry)
    BY DEF Known, Inv, Parts
  <2>2. n \in Nat /\ \A i \in 1 .. n : pool[i] \in Dh!Entry
    BY <2>1
  <2>3. \A e \in Dh!Entry : e.id \in Ids
    BY DEF Dh!Entry
  <2> QED
    BY <2>2, <2>3
<1>2. Ids = 0 .. Nodes + 1
  BY NetworkAssumption DEF Ids, Board, Node, Router, Junk
<1>3. IsFiniteSet(Ids) /\ Cardinality(Ids) = Nodes + 2
  BY <1>2, FS_Interval, NetworkAssumption
<1>4. IsFiniteSet(1 .. n) /\ Cardinality(1 .. n) = n
  BY <1>1, FS_Interval
<1>5. f \in [1 .. n -> Ids]
  BY <1>1
<1>6. \A i, j \in 1 .. n : i # j => f[i] # f[j]
  BY DEF Known, PoolInv, Counted
<1> HIDE DEF f, n
<1>7. ~(Nodes + 2 < n)
  BY <1>3, <1>4, <1>5, <1>6, FS_PigeonHole
<1> QED
  BY <1>1, <1>7, NetworkAssumption DEF n

\* The address of the k-th is k - 1, and of nobody else.
LEMMA AddressesAre ==
  ASSUME Known
  PROVE  \A id : Dh!Found(pool, id) =>
           \E k \in 1 .. Len(pool) : /\ pool[k].id = id
                                     /\ Dh!AddrOf(pool, id) = k - 1
<1> SUFFICES ASSUME NEW id, Dh!Found(pool, id)
             PROVE  \E k \in 1 .. Len(pool) : pool[k].id = id /\ Dh!AddrOf(pool, id) = k - 1
  OBVIOUS
<1>1. PICK k \in 1 .. Len(pool) : pool[k].id = id
  BY DEF Dh!Found
<1>2. Dh!AddrOf(pool, id) = pool[k].addr
  BY <1>1, FoundAt DEF Known, PoolInv
<1>3. pool[k].addr = (k - 1) % AddrSpace
  BY DEF Known, PoolInv, Counted
<1>4. k - 1 \in 0 .. AddrSpace - 1
  <2>1. Len(pool) \in Nat /\ Len(pool) < AddrSpace
    BY PoolFits
  <2> QED
    BY <2>1, NetworkAssumption
<1>5. (k - 1) % AddrSpace = k - 1
  BY <1>4, NetworkAssumption
<1> QED
  BY <1>1, <1>2, <1>3, <1>5

LeaseOf(q, n) == IF Dh!Found(q, n) THEN Dh!AddrOf(q, n) ELSE 0

\* An answer leases an address that is free, or leases nothing.
LEMMA AnswerLeases ==
  ASSUME Known, NEW id \in Ids, pool' = Dh!Grown(pool, id)
  PROVE  \/ \A m \in Node : LeaseOf(pool', m) = LeaseOf(pool, m)
         \/ /\ id \in Node /\ LeaseOf(pool, id) = 0
            /\ LeaseOf(pool', id) \in 1 .. AddrSpace - 1
            /\ \A m \in Node : LeaseOf(pool, m) # LeaseOf(pool', id)
            /\ \A m \in Node : m # id => LeaseOf(pool', m) = LeaseOf(pool, m)
<1>1. Grows(pool, pool', id)
  BY GrownIs DEF Known, PoolInv
<1>2. \A m : m # id => LeaseOf(pool', m) = LeaseOf(pool, m)
  BY <1>1 DEF Grows, LeaseOf
<1>3. CASE Dh!Found(pool, id) \/ id \notin Node
  BY <1>1, <1>2, <1>3 DEF Grows, LeaseOf
<1>4. CASE ~Dh!Found(pool, id) /\ id \in Node
  <2>1. LeaseOf(pool, id) = 0
    BY <1>4 DEF LeaseOf
  <2>2. Len(pool) \in 1 .. AddrSpace - 1
    BY PoolFits, NetworkAssumption DEF Known, Serving, RouterFirst
  <2>3. Len(pool) % AddrSpace = Len(pool)
    BY <2>2, NetworkAssumption
  <2>4. LeaseOf(pool', id) = Len(pool)
    BY <1>1, <1>4, <2>3 DEF Grows, LeaseOf
  <2>5. \A m : LeaseOf(pool, m) # Len(pool)
    <3> SUFFICES ASSUME NEW m
                 PROVE  LeaseOf(pool, m) # Len(pool)
      OBVIOUS
    <3>1. CASE Dh!Found(pool, m)
      <4>1. PICK k \in 1 .. Len(pool) : Dh!AddrOf(pool, m) = k - 1
        BY <3>1, AddressesAre
      <4>2. k - 1 # Len(pool)
        BY <2>2
      <4> QED
        BY <3>1, <4>1, <4>2 DEF LeaseOf
    <3>2. CASE ~Dh!Found(pool, m)
      BY <2>2, <3>2 DEF LeaseOf
    <3> QED
      BY <3>1, <3>2
  <2> QED
    BY <1>2, <1>4, <2>1, <2>2, <2>4, <2>5
<1> QED
  BY <1>3, <1>4

\* A node takes what it was leased.
LEMMA TakesLease ==
  ASSUME Known, orderly, NEW n \in Node, NodeTakes(n)
  PROVE  addr[n] = 0 /\ LeaseOf(pool, n) # 0 /\ recv[n].addr = LeaseOf(pool, n)
<1>1. pc[n]["reg"] = "take" /\ n \in Board
  BY NodeTakesDoes, Boards DEF Known
<1>2. addr[n] = 0
  BY <1>1 DEF Known, Serving, NodesHold
<1>3. recv[n].kind = "acknowledge" /\ recv[n].id = n /\ RightAt(n)
  BY <1>1 DEF Known, Serving, Working, AtWork
<1>4. Dh!Found(pool, n) /\ recv[n].addr = Dh!AddrOf(pool, n)
  BY <1>3 DEF RightAt, RightIn
<1>5. PICK k \in 1 .. Len(pool) : pool[k].id = n /\ Dh!AddrOf(pool, n) = k - 1
  BY <1>4, AddressesAre
<1>6. k # 1
  BY <1>5, Boards DEF Known, Serving, RouterFirst
<1>7. k - 1 # 0
  BY <1>5, <1>6
<1> QED
  BY <1>2, <1>4, <1>5, <1>7 DEF LeaseOf

LEMMA StepsRefine ==
  ASSUME Known, [Next]_vars
  PROVE  [UNCHANGED << pool, addr >> \/ ~orderly' \/ Server!Next]_(Server!vars)
<1> DEFINE lease == [n \in Node |-> LeaseOf(pool, n)]
<1>1. CASE UNCHANGED << pool, addr >>
  BY <1>1
<1>2. CASE RouterAnswers
  <2>1. /\ pool' = Dh!Grown(pool, recv[Router].id) /\ addr' = addr
        /\ recv[Router].id \in Ids
    BY <1>2, RouterAnswersDoes, PacketHas, Boards DEF Known, Inv, Parts
  <2>2. CASE \A m \in Node : LeaseOf(pool', m) = LeaseOf(pool, m)
    BY <2>1, <2>2 DEF Server!vars, LeaseOf
  <2>3. CASE \E n \in Node :
               /\ LeaseOf(pool, n) = 0 /\ LeaseOf(pool', n) \in 1 .. AddrSpace - 1
               /\ \A m \in Node : LeaseOf(pool, m) # LeaseOf(pool', n)
               /\ \A m \in Node : m # n => LeaseOf(pool', m) = LeaseOf(pool, m)
    <3>1. PICK n \in Node :
               /\ LeaseOf(pool, n) = 0 /\ LeaseOf(pool', n) \in 1 .. AddrSpace - 1
               /\ \A m \in Node : LeaseOf(pool, m) # LeaseOf(pool', n)
               /\ \A m \in Node : m # n => LeaseOf(pool', m) = LeaseOf(pool, m)
      BY <2>3
    <3>2. lease' = [lease EXCEPT ![n] = LeaseOf(pool', n)]
      BY <3>1
    <3>3. LeaseOf(pool', n) \in (0 .. AddrSpace - 1) \ {0}
      BY <3>1, NetworkAssumption
    <3>4. lease[n] = 0 /\ \A m \in Node : lease[m] # LeaseOf(pool', n)
      BY <3>1
    <3>5. Server!Grant(n)
      BY <2>1, <3>2, <3>3, <3>4 DEF Server!Grant, Server!NoAddr, LeaseOf
    <3> QED
      BY <3>5 DEF Server!Next
  <2> QED
    BY <2>1, <2>2, <2>3, AnswerLeases
<1>3. ASSUME NEW n \in Node, NodeTakes(n)
      PROVE  ~orderly' \/ Server!Next
  <2>1. /\ addr' = [addr EXCEPT ![n] = recv[n].addr] /\ pool' = pool /\ orderly' = orderly
    BY <1>3, NodeTakesDoes DEF Known
  <2>2. CASE orderly
    <3>1. addr[n] = 0 /\ LeaseOf(pool, n) # 0 /\ recv[n].addr = LeaseOf(pool, n)
      BY <1>3, <2>2, TakesLease
    <3>2. Server!Take(n)
      BY <2>1, <3>1 DEF Server!Take, Server!NoAddr, LeaseOf
    <3> QED
      BY <3>2 DEF Server!Next
  <2> QED
    BY <2>1, <2>2 DEF Known, Inv, Parts
<1>4. ASSUME NEW n \in Node, RestartNode(n)
      PROVE  Server!Next
  <2>1. addr' = [addr EXCEPT ![n] = 0] /\ pool' = pool
    BY <1>4 DEF RestartNode
  <2>2. Server!Forget(n)
    BY <2>1 DEF Server!Forget, Server!NoAddr
  <2> QED
    BY <2>2 DEF Server!Next
<1>5. RestartRouter => ~orderly'
  BY DEF RestartRouter
<1>6. \/ UNCHANGED << pool, addr >> \/ RouterAnswers \/ RestartRouter
      \/ \E n \in Node : NodeTakes(n) \/ RestartNode(n)
  BY Steps DEF RxFlush, TxEnd, Transmit, NodeAsks, NodeLooks, NodeDecides, RouterReceives,
     RouterLooks, RouterCopies, RouterFails, Preempt, Start, vars
<1> QED
  BY <1>1, <1>2, <1>3, <1>4, <1>5, <1>6

\* While the router keeps running and no time slice ends at a bad moment, each node
\* is leased one address for good and goes by no other.
THEOREM Refines == Spec => ImplementsAddressServer
<1>1. Init => Server!Init
  <2> SUFFICES ASSUME Init
               PROVE  Server!Init
    OBVIOUS
  <2>1. addr = [n \in Node |-> 0] /\ pool = << [id |-> Router, addr |-> 0] >>
    BY DEF Init, Dh!dhcp_init
  <2>2. \A n \in Node : ~Dh!Found(pool, n)
    <3> DEFINE e == [id |-> Router, addr |-> 0]
               q == << e >>
    <3>1. pool = q /\ e.id = Router
      BY <2>1
    <3> HIDE DEF e
    <3>2. Len(q) = 1 /\ q[1] = e
      OBVIOUS
    <3> HIDE DEF q
    <3> QED
      BY <3>1, <3>2, Boards DEF Dh!Found
  <2> QED
    BY <2>1, <2>2 DEF Server!Init, Server!NoAddr
<1>2. Known /\ [Next]_vars =>
        [UNCHANGED << pool, addr >> \/ ~orderly' \/ Server!Next]_(Server!vars)
  BY StepsRefine
<1> QED
  BY <1>1, <1>2, KnownInit, KnownNext, PTL DEF Spec, ImplementsAddressServer

-----------------------------------------------------------------------------
(* Nothing comes in the way: each node in turn registers, the others listen *)

Idle(b, t) == Ev!Suspended(event[b], t)

\* What a packet says.
Requests(p, n) == p.kind = "register" /\ p.id = n
Acknowledges(p, n) == p.kind = "acknowledge" /\ p.id = n
Confirms(p) == p.kind = "confirm"

\* n has its address; all it may still say is the confirmation.
Registered(n) ==
  /\ addr[n] # 0 /\ "REG_SUCCESS" \in event[n].set /\ pc[n]["reg"] = "done"
  /\ pc[n]["nm"] \in {"got", "flush", "spin"}
  /\ Confirms(send[n])
  /\ radio[n].out # << >> => Confirms(radio[n].out[1])

\* n has nothing to say, and its network thread is not about to.
Heeds(n) ==
  /\ "SEND_PACKET" \notin event[n].set
  /\ Idle(n, "nm") \/ event[n].got["nm"] = {"RECV_PACKET"}

Listens(n) ==
  /\ radio[n].out = << >>
  /\ \/ pc[n]["nm"] = "got" /\ Heeds(n)
     \/ pc[n]["nm"] \in {"flush", "spin"} /\ "SEND_PACKET" \notin event[n].set

Settled(n) == Registered(n) /\ Listens(n)

\* The registration of n before its request is on the air, ...
Requesting(n) ==
  /\ radio[n].fifo = << >> /\ radio[n].flags = {}
  /\ "SEND_PACKET" \notin event[n].set /\ "RECV_REG" \notin event[n].set
  /\ \/ /\ pc[n]["reg"] = "ask" /\ pc[n]["nm"] = "got" /\ Idle(n, "nm")
        /\ radio[n].out = << >>
     \/ /\ pc[n]["reg"] = "got" /\ Idle(n, "reg")
        /\ pc[n]["nm"] = "got" /\ ~Idle(n, "nm") /\ event[n].got["nm"] = {"SEND_PACKET"}
        /\ radio[n].out = << >> /\ Requests(send[n], n)
     \/ /\ pc[n]["reg"] = "got" /\ Idle(n, "reg") /\ pc[n]["nm"] = "spin"
        /\ radio[n].mode = "tx" /\ radio[n].out # << >> /\ Requests(radio[n].out[1], n)

\* ... until the answer is, ...
Waiting(n) ==
  /\ pc[n]["reg"] = "got" /\ Idle(n, "reg")
  /\ radio[n].fifo = << >> /\ radio[n].out = << >> /\ "RX_DR" \notin radio[n].flags
  /\ "SEND_PACKET" \notin event[n].set
  /\ \/ pc[n]["nm"] = "spin" /\ radio[n].flags # {}
     \/ pc[n]["nm"] = "got" /\ Heeds(n)

\* ... and while n has it: in its chip, in recv_buf, and with the registration thread.
Arrived(n) ==
  /\ pc[n]["reg"] = "got" /\ Idle(n, "reg")
  /\ pc[n]["nm"] = "got" /\ ~Idle(n, "nm") /\ "RX_DR" \in radio[n].flags
  /\ radio[n].fifo # << >> /\ Acknowledges(radio[n].fifo[1], n)

Fetched(n) ==
  /\ pc[n]["reg"] = "got" /\ Idle(n, "reg")
  /\ pc[n]["nm"] = "flush" /\ "RX_DR" \notin radio[n].flags
  /\ Acknowledges(recv[n], n)

HandedOn(n) ==
  /\ pc[n]["reg"] \in {"got", "take"} /\ ~Idle(n, "reg")
  /\ pc[n]["nm"] = "got" /\ "RX_DR" \notin radio[n].flags
  /\ Acknowledges(recv[n], n)

Answered(n) == Listens(n) /\ (Arrived(n) \/ Fetched(n) \/ HandedOn(n))

\* n is registered and has to say so: once.
ToConfirm(n) ==
  \/ /\ radio[n].out = << >> /\ "SEND_PACKET" \in event[n].set
     /\ \/ pc[n]["nm"] = "flush"
        \/ /\ pc[n]["nm"] = "got" /\ ~Idle(n, "nm")
           /\ event[n].got["nm"] = {"RECV_PACKET"}
  \/ /\ radio[n].out = << >> /\ "SEND_PACKET" \notin event[n].set
     /\ pc[n]["nm"] = "got" /\ ~Idle(n, "nm") /\ "SEND_PACKET" \in event[n].got["nm"]
  \/ /\ radio[n].out # << >> /\ "SEND_PACKET" \notin event[n].set
     /\ pc[n]["nm"] = "spin" /\ radio[n].mode = "tx"

Confirming(n) == Registered(n) /\ ToConfirm(n)

\* The router before the request of n, ...
Rests ==
  /\ pc[Router]["nm"] = "got" /\ Idle(Router, "nm")
  /\ pc[Router]["reg"] = "got" /\ Idle(Router, "reg")
  /\ radio[Router].fifo = << >> /\ radio[Router].flags = {} /\ radio[Router].out = << >>

\* ... until it has answered, ...
Received(n) ==
  /\ pc[Router]["reg"] = "got" /\ Idle(Router, "reg") /\ radio[Router].out = << >>
  /\ pc[Router]["nm"] = "got" /\ ~Idle(Router, "nm") /\ radio[Router].flags = {"RX_DR"}
  /\ radio[Router].fifo # << >> /\ Requests(radio[Router].fifo[1], n)

Reading(n) ==
  /\ pc[Router]["reg"] = "got" /\ Idle(Router, "reg") /\ radio[Router].out = << >>
  /\ pc[Router]["nm"] = "flush" /\ radio[Router].flags = {}
  /\ Requests(recv[Router], n)

ReplyAt(n) ==
  \/ pc[Router]["reg"] = "got" /\ ~Idle(Router, "reg") /\ radio[Router].out = << >>
  \/ pc[Router]["reg"] = "copy" /\ radio[Router].out = << >>
  \/ /\ pc[Router]["reg"] = "addr" /\ radio[Router].out = << >>
     /\ Acknowledges(send[Router], n)
  \/ /\ pc[Router]["reg"] = "spin" /\ radio[Router].mode = "tx"
     /\ radio[Router].out # << >> /\ Acknowledges(radio[Router].out[1], n)

Replying(n) ==
  /\ pc[Router]["nm"] = "got" /\ radio[Router].fifo = << >> /\ radio[Router].flags = {}
  /\ "RECV_REG" \notin event[Router].set /\ Requests(recv[Router], n)
  /\ ReplyAt(n)

Handling(n) == Received(n) \/ Reading(n) \/ Replying(n)

\* ... until it hears the confirmation, ...
Replied ==
  /\ radio[Router].out = << >> /\ radio[Router].fifo = << >>
  /\ "RX_DR" \notin radio[Router].flags
  /\ pc[Router]["nm"] = "got" /\ "RECV_REG" \notin event[Router].set
  /\ \/ pc[Router]["reg"] = "got" /\ Idle(Router, "reg")
     \/ pc[Router]["reg"] = "spin" /\ radio[Router].mode = "tx"

\* ... and after that: whatever it reads, there is no request left to answer, nor
\* anything that might look like one.
Harmless ==
  /\ radio[Router].out = << >> /\ pc[Router]["reg"] = "got"
  /\ \/ pc[Router]["nm"] = "got"
     \/ pc[Router]["nm"] = "flush" /\ radio[Router].flags = {}
  /\ radio[Router].fifo # << >> =>
       /\ Confirms(radio[Router].fifo[1])
       /\ pc[Router]["nm"] = "flush" \/ "RX_DR" \in radio[Router].flags
  /\ "RX_DR" \in radio[Router].flags => radio[Router].fifo # << >>
  /\ ~Confirms(recv[Router]) =>
       /\ pc[Router]["nm"] # "flush" /\ "RECV_REG" \notin event[Router].set
       /\ Idle(Router, "reg")

\* Nobody registers, and no node has anything to say.
Calm == (Replied \/ Harmless) /\ \A n \in on \ {Router} : Settled(n)

\* a registers, and nobody else has anything to say.
Busy(a) ==
  /\ \A n \in on \ {Router, a} : Settled(n)
  /\ \/ Requesting(a) /\ Rests
     \/ Waiting(a) /\ Handling(a)
     \/ Answered(a) /\ Replied
     \/ Confirming(a) /\ Replied

\* A node that was not started yet is as it will be when it is.
OffFresh == \A n \in Node \ on : IsFresh(n)

\* At most one node registers at a time, for a node is only started in peace.
Peaceful == orderly /\ (Calm \/ \E a \in on \ {Router} : Busy(a))

\* The invariant: that holds as long as nothing came in the way.
Registering == OffFresh /\ (faults = 0 => Peaceful)

LEMMA NodeIs ==
  ASSUME NEW n \in Node
  PROVE  /\ n \in Board /\ n # Router /\ Talker(n) = "nm"
         /\ MaskOf(n, "nm") = {"RECV_PACKET", "SEND_PACKET"}
         /\ MaskOf(n, "reg") = {"RECV_REG"}
BY Boards, MasksAre DEF Talker

LEMMA ThreadsAre == "nm" \in Thread /\ "reg" \in Thread /\ \A t \in Thread : t = "nm" \/ t = "reg"
BY DEF Thread

\* What Inv says of a thread that waits.
LEMMA IdleIs ==
  ASSUME Inv, NEW b \in Board, NEW t \in Thread
  PROVE  /\ Idle(b, t) => /\ pc[b][t] = "got" /\ event[b].got[t] = {}
                          /\ event[b].set \cap MaskOf(b, t) = {}
         /\ radio[b].out # << >> => pc[b][Talker(b)] = "spin"
BY DEF Inv, ShapeAt, Good, Idle

\* The network thread of n has asked for its flags: it waits or has heard.
LEMMA AsksHeeds ==
  ASSUME NEW n \in Node, NEW x, Asks(n, "nm", x), "SEND_PACKET" \notin x.set
  PROVE  Heeds(n)'
<1>1. Asked(n, "nm", x, event'[n]) /\ MaskOf(n, "nm") = {"RECV_PACKET", "SEND_PACKET"}
  BY NodeIs DEF Asks
<1>2. "SEND_PACKET" \notin event'[n].set
  BY <1>1 DEF Asked
<1>3. CASE "RECV_PACKET" \in x.set
  BY <1>1, <1>2, <1>3 DEF Asked, Heeds
<1>4. CASE "RECV_PACKET" \notin x.set
  BY <1>1, <1>2, <1>4 DEF Asked, Heeds, Idle
<1> QED
  BY <1>3, <1>4

\* ... and the other thread goes on waiting, or not.
LEMMA AsksOther ==
  ASSUME NEW b, NEW t \in Thread, NEW u \in Thread, u # t, NEW x, Asks(b, t, x)
  PROVE  /\ Idle(b, u)' <=> Ev!Suspended(x, u)
         /\ event'[b].got[u] = x.got[u]
         /\ \A g : g \in event'[b].set <=> g \in x.set /\ g \notin MaskOf(b, t)
BY DEF Asks, Asked, Idle

\* b has not moved.
Untouched(b) ==
  /\ event'[b] = event[b] /\ radio'[b] = radio[b] /\ pc'[b] = pc[b]
  /\ recv'[b] = recv[b] /\ send'[b] = send[b] /\ cur'[b] = cur[b]

LEMMA RegisteredStays ==
  ASSUME NEW n, Registered(n), Untouched(n), addr'[n] = addr[n]
  PROVE  Registered(n)'
BY DEF Registered, Untouched, Confirms

LEMMA ListensStays ==
  ASSUME NEW n, Listens(n), Untouched(n)
  PROVE  Listens(n)'
BY DEF Listens, Untouched, Heeds, Idle

LEMMA RequestingStays ==
  ASSUME NEW n, Requesting(n), Untouched(n)
  PROVE  Requesting(n)'
BY DEF Requesting, Untouched, Requests, Idle

LEMMA WaitingStays ==
  ASSUME NEW n, Waiting(n), Untouched(n)
  PROVE  Waiting(n)'
BY DEF Waiting, Untouched, Heeds, Idle

LEMMA AnsweredStays ==
  ASSUME NEW n, Answered(n), Untouched(n)
  PROVE  Answered(n)'
<1>1. Listens(n) /\ Listens(n)'
  BY ListensStays DEF Answered
<1> QED
  BY <1>1 DEF Answered, Arrived, Fetched, HandedOn, Untouched, Acknowledges, Idle

LEMMA ConfirmingStays ==
  ASSUME NEW n, Confirming(n), Untouched(n), addr'[n] = addr[n]
  PROVE  Confirming(n)'
BY RegisteredStays DEF Confirming, ToConfirm, Untouched, Idle

LEMMA RestsStays ==
  ASSUME Rests, Untouched(Router)
  PROVE  Rests'
BY DEF Rests, Untouched, Idle

LEMMA HandlingStays ==
  ASSUME NEW n, Handling(n), Untouched(Router)
  PROVE  Handling(n)'
BY DEF Handling, Received, Reading, Replying, ReplyAt, Untouched, Requests, Acknowledges, Idle

LEMMA RepliedStays ==
  ASSUME Replied, Untouched(Router)
  PROVE  Replied'
BY DEF Replied, Untouched, Idle

LEMMA HarmlessStays ==
  ASSUME Harmless, Untouched(Router)
  PROVE  Harmless'
BY DEF Harmless, Untouched, Confirms, Idle

LEMMA FreshStays ==
  ASSUME NEW n, IsFresh(n), Untouched(n)
  PROVE  IsFresh(n)'
BY DEF IsFresh, Untouched

-----------------------------------------------------------------------------
(* The steps of the nodes' threads *)

NodeActs(n) ==
  \/ RxFlush(n) \/ TxEnd(n, "nm") \/ NodeDecides(n)
  \/ NodeAsks(n) \/ NodeLooks(n) \/ NodeTakes(n)

\* A step of b is nobody else's.
Alone(b) ==
  /\ b \in on /\ UNCHANGED << faults, orderly, on >>
  /\ \A o \in Board \ {b} : Untouched(o)
  /\ \A m \in Node : m # b => addr'[m] = addr[m]

LEMMA ReadsAlone ==
  ASSUME NEW b \in Board, Reads(b, recv'[b]), b \in on,
         UNCHANGED << faults, orderly, restarts, on, send, addr, pool >>
  PROVE  Alone(b)
<1>1. CASE "RX_DR" \in radio[b].flags
  BY <1>1 DEF Reads, Moved, Alone, Untouched
<1>2. CASE "RX_DR" \notin radio[b].flags
  BY <1>2 DEF Reads, Asks, Moved, Alone, Untouched
<1> QED
  BY <1>1, <1>2

LEMMA FlushAlone ==
  ASSUME Inv, NEW b \in Board, RxFlush(b)
  PROVE  Alone(b)
<1>1. PICK x : Asks(b, "nm", x) /\ Moved(b, "nm", "got", Then(b, "nm", x))
  BY RxFlushDoes
<1> QED
  BY <1>1, RxFlushDoes DEF Flushes, Asks, Moved, Alone, Untouched

LEMMA TxEndAlone ==
  ASSUME Inv, NEW b \in Board, NEW t \in Thread, TxEnd(b, t)
  PROVE  Alone(b)
BY TxEndDoes DEF Unloads, Asks, Moved, Alone, Untouched

LEMMA NodeActsAlone ==
  ASSUME Inv, NEW n \in Node, NodeActs(n)
  PROVE  Alone(n)
<1>1. CASE RxFlush(n)
  BY <1>1, FlushAlone, NodeIs
<1>2. CASE TxEnd(n, "nm")
  BY <1>2, TxEndAlone, NodeIs, ThreadsAre
<1>3. CASE NodeDecides(n)
  <2>1. CASE event[n].got["nm"] = {"RECV_PACKET"}
    BY <1>3, <2>1, NodeDecidesDoes, ReadsAlone, NodeIs
  <2>2. CASE event[n].got["nm"] # {"RECV_PACKET"}
    BY <1>3, <2>2, NodeDecidesDoes DEF Loads, Moved, Alone, Untouched
  <2> QED
    BY <2>1, <2>2
<1>4. CASE NodeAsks(n)
  <2>1. PICK x : Asks(n, "reg", x) /\ Moved(n, "reg", "got", Then(n, "reg", x))
    BY <1>4, NodeAsksDoes
  <2> QED
    BY <1>4, <2>1, NodeAsksDoes DEF Inv, Parts, Asks, Moved, Alone, Untouched
<1>5. CASE NodeLooks(n)
  <2>1. PICK place, c : Moved(n, "reg", place, c)
    BY <1>5, NodeLooksDoes
  <2> QED
    BY <1>5, <2>1, NodeLooksDoes DEF Moved, Alone, Untouched
<1>6. CASE NodeTakes(n)
  BY <1>6, NodeTakesDoes DEF Inv, Parts, Moved, Alone, Untouched
<1> QED
  BY <1>1, <1>2, <1>3, <1>4, <1>5, <1>6 DEF NodeActs

\* A node that is registered only flushes, finishes sending or decides.
LEMMA RegisteredActs ==
  ASSUME Known, NEW n \in Node, Registered(n), NodeActs(n)
  PROVE  Registered(n)' /\ (RxFlush(n) \/ TxEnd(n, "nm") \/ NodeDecides(n))
<1>0. Inv /\ n \in Board /\ n # Router /\ "REG_SUCCESS" \notin MaskOf(n, "nm")
  BY NodeIs DEF Known
<1>1. CASE RxFlush(n)
  <2>1. ~HandsOn(n)
    BY <1>0 DEF HandsOn, Registered
  <2>2. /\ Asks(n, "nm", event[n]) /\ Moved(n, "nm", "got", Then(n, "nm", event[n]))
        /\ radio'[n].out = radio[n].out /\ UNCHANGED << send, addr >>
    BY <1>0, <1>1, <2>1, RxFlushDoes DEF Flushes
  <2>3. "REG_SUCCESS" \in event'[n].set
    BY <1>0, <2>2, AsksOther, ThreadsAre DEF Registered
  <2> QED
    BY <1>1, <2>2, <2>3, ThreadsAre DEF Registered, Moved, Confirms
<1>2. CASE TxEnd(n, "nm")
  <2>1. /\ Asks(n, "nm", event[n]) /\ Moved(n, "nm", "got", Then(n, "nm", event[n]))
        /\ radio'[n].out = << >> /\ UNCHANGED << send, addr >>
    BY <1>0, <1>2, TxEndDoes, ThreadsAre DEF Unloads
  <2>2. "REG_SUCCESS" \in event'[n].set
    BY <1>0, <2>1, AsksOther, ThreadsAre DEF Registered
  <2> QED
    BY <1>2, <2>1, <2>2, ThreadsAre DEF Registered, Moved, Confirms
<1>3. CASE NodeDecides(n)
  <2>1. UNCHANGED << send, addr >>
    BY <1>0, <1>3, NodeDecidesDoes
  <2>2. CASE event[n].got["nm"] = {"RECV_PACKET"}
    <3>1. Reads(n, recv'[n])
      BY <1>0, <1>3, <2>2, NodeDecidesDoes
    <3>2. radio'[n].out = radio[n].out
      BY <3>1 DEF Reads
    <3>3. CASE "RX_DR" \in radio[n].flags
      <4>1. event' = event /\ Moved(n, "nm", "flush", "nm")
        BY <3>1, <3>3 DEF Reads
      <4> QED
        BY <1>3, <2>1, <3>2, <4>1, ThreadsAre DEF Registered, Moved, Confirms
    <3>4. CASE "RX_DR" \notin radio[n].flags
      <4>1. Asks(n, "nm", event[n]) /\ Moved(n, "nm", "got", Then(n, "nm", event[n]))
        BY <3>1, <3>4 DEF Reads
      <4>2. "REG_SUCCESS" \in event'[n].set
        BY <1>0, <4>1, AsksOther, ThreadsAre DEF Registered
      <4> QED
        BY <1>3, <2>1, <3>2, <4>1, <4>2, ThreadsAre DEF Registered, Moved, Confirms
    <3> QED
      BY <3>3, <3>4
  <2>3. CASE event[n].got["nm"] # {"RECV_PACKET"}
    <3>1. Loads(n, send[n]) /\ Moved(n, "nm", "spin", "nm") /\ event' = event
      BY <1>0, <1>3, <2>3, NodeDecidesDoes
    <3>2. radio'[n].out[1] = send[n]
      BY <3>1, FirstOfOne DEF Loads
    <3> QED
      BY <1>3, <2>1, <3>1, <3>2, ThreadsAre DEF Registered, Moved, Confirms
  <2> QED
    BY <2>2, <2>3
<1>4. CASE NodeAsks(n) \/ NodeLooks(n) \/ NodeTakes(n)
  BY <1>0, <1>4, NodeAsksDoes, NodeLooksDoes, NodeTakesDoes DEF Registered
<1> QED
  BY <1>1, <1>2, <1>3, <1>4 DEF NodeActs

\* A node that listens goes on listening.
LEMMA ListensActs ==
  ASSUME Inv, NEW n \in Node, Listens(n), RxFlush(n) \/ TxEnd(n, "nm") \/ NodeDecides(n)
  PROVE  Listens(n)'
<1>0. n \in Board
  BY NodeIs
<1>1. CASE RxFlush(n)
  <2>1. PICK x : /\ IF HandsOn(n) THEN Posted(n, event[n], "RECV_REG", x) ELSE x = event[n]
                 /\ Asks(n, "nm", x) /\ Moved(n, "nm", "got", Then(n, "nm", x))
    BY <1>0, <1>1, RxFlushDoes
  <2>2. pc[n]["nm"] = "flush" /\ radio'[n].out = radio[n].out
    BY <1>0, <1>1, RxFlushDoes DEF Flushes
  <2>3. "SEND_PACKET" \notin x.set
    BY <2>1, <2>2 DEF Listens, Posted, Flag
  <2>4. Heeds(n)'
    BY <2>1, <2>3, AsksHeeds
  <2> QED
    BY <2>1, <2>2, <2>4 DEF Listens, Moved
<1>2. CASE TxEnd(n, "nm")
  <2>1. /\ Unloads(n) /\ Asks(n, "nm", event[n]) /\ pc[n]["nm"] = "spin"
        /\ Moved(n, "nm", "got", Then(n, "nm", event[n]))
    BY <1>0, <1>2, TxEndDoes, ThreadsAre
  <2>2. Heeds(n)'
    BY <2>1, AsksHeeds DEF Listens
  <2> QED
    BY <2>1, <2>2 DEF Unloads, Listens, Moved
<1>3. CASE NodeDecides(n)
  <2>1. event[n].got["nm"] = {"RECV_PACKET"} /\ "SEND_PACKET" \notin event[n].set
    BY <1>3, NodeDecidesDoes DEF Listens, Heeds, Idle
  <2>2. Reads(n, recv'[n])
    BY <1>3, <2>1, NodeDecidesDoes
  <2>3. CASE "RX_DR" \in radio[n].flags
    BY <2>1, <2>2, <2>3 DEF Reads, Listens, Moved
  <2>4. CASE "RX_DR" \notin radio[n].flags
    <3>1. Asks(n, "nm", event[n]) /\ Moved(n, "nm", "got", Then(n, "nm", event[n]))
      BY <2>2, <2>4 DEF Reads
    <3>2. Heeds(n)'
      BY <2>1, <3>1, AsksHeeds
    <3> QED
      BY <2>2, <3>1, <3>2 DEF Reads, Listens, Moved
  <2> QED
    BY <2>3, <2>4
<1> QED
  BY <1>1, <1>2, <1>3

LEMMA SettledActs ==
  ASSUME Known, NEW n \in Node, Settled(n), NodeActs(n)
  PROVE  Settled(n)'
<1>1. Registered(n)' /\ (RxFlush(n) \/ TxEnd(n, "nm") \/ NodeDecides(n))
  BY RegisteredActs DEF Settled
<1>2. Listens(n)'
  BY <1>1, ListensActs DEF Settled, Known
<1> QED
  BY <1>1, <1>2 DEF Settled

\* The confirmation is sent once; it may be lost on the way to the air.
LEMMA ConfirmingActs ==
  ASSUME Known, NEW n \in Node, Confirming(n), NodeActs(n)
  PROVE  Confirming(n)' \/ Settled(n)'
<1>0. /\ n \in Board /\ n # Router /\ Inv /\ "nm" \in Thread
      /\ MaskOf(n, "nm") = {"RECV_PACKET", "SEND_PACKET"}
  BY NodeIs, ThreadsAre DEF Known
<1>1. Registered(n)' /\ (RxFlush(n) \/ TxEnd(n, "nm") \/ NodeDecides(n))
  BY RegisteredActs DEF Confirming
<1>2. SUFFICES ToConfirm(n)' \/ Listens(n)'
  BY <1>1 DEF Confirming, Settled
<1>3. ASSUME Asks(n, "nm", event[n]), "SEND_PACKET" \in event[n].set
      PROVE  /\ ~Idle(n, "nm")' /\ "SEND_PACKET" \in event'[n].got["nm"]
             /\ "SEND_PACKET" \notin event'[n].set
  BY <1>0, <1>3 DEF Asks, Asked, Idle
<1>4. CASE RxFlush(n)
  <2>1. ~HandsOn(n)
    BY <1>0 DEF HandsOn, Confirming, Registered
  <2>2. /\ Asks(n, "nm", event[n]) /\ Moved(n, "nm", "got", Then(n, "nm", event[n]))
        /\ radio'[n].out = radio[n].out /\ pc[n]["nm"] = "flush"
    BY <1>0, <1>4, <2>1, RxFlushDoes DEF Flushes
  <2>3. radio[n].out = << >> /\ "SEND_PACKET" \in event[n].set
    BY <2>2 DEF Confirming, ToConfirm
  <2>4. pc'[n]["nm"] = "got"
    BY <2>2, ThreadsAre DEF Moved
  <2> QED
    BY <1>3, <2>2, <2>3, <2>4 DEF ToConfirm
<1>5. CASE TxEnd(n, "nm")
  <2>1. /\ Unloads(n) /\ Asks(n, "nm", event[n]) /\ pc[n]["nm"] = "spin"
        /\ Moved(n, "nm", "got", Then(n, "nm", event[n]))
    BY <1>0, <1>5, TxEndDoes
  <2>2. "SEND_PACKET" \notin event[n].set
    BY <2>1 DEF Confirming, ToConfirm
  <2>3. Heeds(n)'
    BY <2>1, <2>2, AsksHeeds
  <2>4. pc'[n]["nm"] = "got"
    BY <2>1, ThreadsAre DEF Moved
  <2> QED
    BY <2>1, <2>3, <2>4 DEF Unloads, Listens
<1>6. CASE NodeDecides(n)
  <2>0. pc[n]["nm"] = "got"
    BY <1>0, <1>6, NodeDecidesDoes
  <2>1. CASE event[n].got["nm"] = {"RECV_PACKET"}
    <3>1. "SEND_PACKET" \in event[n].set /\ radio[n].out = << >>
      BY <2>0, <2>1 DEF Confirming, ToConfirm
    <3>2. Reads(n, recv'[n])
      BY <1>0, <1>6, <2>1, NodeDecidesDoes
    <3>3. radio'[n].out = << >>
      BY <3>1, <3>2 DEF Reads
    <3>4. CASE "RX_DR" \in radio[n].flags
      <4>1. event' = event /\ Moved(n, "nm", "flush", "nm")
        BY <3>2, <3>4 DEF Reads
      <4>2. pc'[n]["nm"] = "flush"
        BY <4>1, ThreadsAre DEF Moved
      <4> QED
        BY <3>1, <3>3, <4>1, <4>2 DEF ToConfirm
    <3>5. CASE "RX_DR" \notin radio[n].flags
      <4>1. Asks(n, "nm", event[n]) /\ Moved(n, "nm", "got", Then(n, "nm", event[n]))
        BY <3>2, <3>5 DEF Reads
      <4>2. pc'[n]["nm"] = "got"
        BY <4>1, ThreadsAre DEF Moved
      <4> QED
        BY <1>3, <3>1, <3>3, <4>1, <4>2 DEF ToConfirm
    <3> QED
      BY <3>4, <3>5
  <2>2. CASE event[n].got["nm"] # {"RECV_PACKET"}
    <3>1. Loads(n, send[n]) /\ Moved(n, "nm", "spin", "nm") /\ event' = event
      BY <1>0, <1>6, <2>2, NodeDecidesDoes
    <3>2. "SEND_PACKET" \notin event[n].set
      BY <2>0, <2>2 DEF Confirming, ToConfirm
    <3>3. radio'[n].out # << >> /\ radio'[n].mode = "tx"
      BY <3>1 DEF Loads
    <3>4. pc'[n]["nm"] = "spin"
      BY <3>1, ThreadsAre DEF Moved
    <3> QED
      BY <3>1, <3>2, <3>3, <3>4 DEF ToConfirm
  <2> QED
    BY <2>1, <2>2
<1> QED
  BY <1>1, <1>4, <1>5, <1>6

LEMMA RequestingActs ==
  ASSUME Inv, NEW n \in Node, Requesting(n), NodeActs(n)
  PROVE  Requesting(n)'
<1>0. /\ n \in Board /\ n # Router /\ MaskOf(n, "nm") = {"RECV_PACKET", "SEND_PACKET"}
      /\ MaskOf(n, "reg") = {"RECV_REG"} /\ n \in Ids
  BY NodeIs, Boards
<1>1. CASE RxFlush(n)
  BY <1>0, <1>1, RxFlushDoes DEF Requesting
<1>2. CASE TxEnd(n, "nm")
  BY <1>0, <1>2, TxEndDoes, ThreadsAre DEF Requesting
<1>3. CASE NodeDecides(n)
  <2>1. pc[n]["nm"] = "got" /\ ~Idle(n, "nm")
    BY <1>3, NodeDecidesDoes DEF Idle
  <2>2. /\ event[n].got["nm"] = {"SEND_PACKET"} /\ Requests(send[n], n)
        /\ pc[n]["reg"] = "got" /\ Idle(n, "reg")
    BY <2>1 DEF Requesting
  <2>3. event[n].got["nm"] # {"RECV_PACKET"}
    BY <2>2
  <2>4. Loads(n, send[n]) /\ Moved(n, "nm", "spin", "nm") /\ event' = event
    BY <1>3, <2>3, NodeDecidesDoes
  <2>5. /\ radio'[n].out # << >> /\ radio'[n].out[1] = send[n] /\ radio'[n].mode = "tx"
        /\ radio'[n].fifo = << >> /\ radio'[n].flags = {}
    BY <2>4, FirstOfOne DEF Loads, Requesting
  <2>6. pc'[n]["nm"] = "spin" /\ pc'[n]["reg"] = "got" /\ Idle(n, "reg")'
    BY <2>2, <2>4, ThreadsAre DEF Moved, Idle
  <2> QED
    BY <2>2, <2>4, <2>5, <2>6 DEF Requesting, Requests
<1>4. CASE NodeAsks(n)
  <2>1. PICK x : /\ Posted(n, event[n], "SEND_PACKET", x) /\ ~Ev!Suspended(x, "reg")
                 /\ Asks(n, "reg", x) /\ Moved(n, "reg", "got", Then(n, "reg", x))
    BY <1>4, NodeAsksDoes
  <2>2. /\ pc[n]["reg"] = "ask" /\ radio' = radio
        /\ send' = [send EXCEPT ![n] = [kind |-> "register", id |-> n, addr |-> 0]]
    BY <1>4, NodeAsksDoes
  <2>3. /\ pc[n]["nm"] = "got" /\ Idle(n, "nm") /\ radio[n].out = << >>
        /\ "SEND_PACKET" \notin event[n].set /\ "RECV_REG" \notin event[n].set
    BY <2>2 DEF Requesting
  <2>4. Requests(send'[n], n)
    BY <1>0, <2>2 DEF Inv, Parts, Requests
  <2>5. /\ ~Ev!Suspended(x, "nm") /\ x.got["nm"] = {"SEND_PACKET"}
        /\ "SEND_PACKET" \notin x.set /\ "RECV_REG" \notin x.set
    BY <1>0, <2>1, <2>3, ThreadsAre DEF Posted, Idle, Flag
  <2>6. Idle(n, "reg")'
    BY <1>0, <2>1, <2>5 DEF Asks, Asked, Idle
  <2>7. /\ ~Idle(n, "nm")' /\ event'[n].got["nm"] = {"SEND_PACKET"}
        /\ "SEND_PACKET" \notin event'[n].set /\ "RECV_REG" \notin event'[n].set
    <3>1. Asks(n, "reg", x) /\ "nm" \in Thread /\ "reg" \in Thread /\ "nm" # "reg"
      BY <2>1, ThreadsAre
    <3>2. /\ Idle(n, "nm")' <=> Ev!Suspended(x, "nm")
          /\ event'[n].got["nm"] = x.got["nm"]
          /\ \A g : g \in event'[n].set <=> g \in x.set /\ g \notin MaskOf(n, "reg")
      BY <3>1, AsksOther
    <3> QED
      BY <2>5, <3>2
  <2>8. pc'[n]["reg"] = "got" /\ pc'[n]["nm"] = "got"
    BY <2>1, <2>3, ThreadsAre DEF Moved
  <2> QED
    BY <2>2, <2>3, <2>4, <2>6, <2>7, <2>8 DEF Requesting
<1>5. CASE NodeLooks(n)
  BY <1>5, NodeLooksDoes DEF Requesting, Idle
<1>6. CASE NodeTakes(n)
  BY <1>6, NodeTakesDoes DEF Requesting
<1> QED
  BY <1>1, <1>2, <1>3, <1>4, <1>5, <1>6 DEF NodeActs

LEMMA WaitingActs ==
  ASSUME Inv, NEW n \in Node, Waiting(n), NodeActs(n)
  PROVE  Waiting(n)'
<1>0. n \in Board
  BY NodeIs
<1>1. CASE RxFlush(n)
  BY <1>0, <1>1, RxFlushDoes DEF Waiting
<1>2. CASE TxEnd(n, "nm")
  <2>1. /\ Unloads(n) /\ Asks(n, "nm", event[n])
        /\ Moved(n, "nm", "got", Then(n, "nm", event[n]))
    BY <1>0, <1>2, TxEndDoes, ThreadsAre
  <2>2. Heeds(n)' /\ Idle(n, "reg")'
    BY <2>1, AsksHeeds, AsksOther, ThreadsAre DEF Waiting, Idle
  <2>3. pc'[n]["nm"] = "got" /\ pc'[n]["reg"] = "got"
    BY <2>1, ThreadsAre DEF Moved, Waiting
  <2>4. "SEND_PACKET" \notin event'[n].set
    BY <2>2 DEF Heeds
  <2> QED
    BY <2>1, <2>2, <2>3, <2>4 DEF Waiting, Unloads
<1>3. CASE NodeDecides(n)
  <2>1. event[n].got["nm"] = {"RECV_PACKET"} /\ "SEND_PACKET" \notin event[n].set
    BY <1>3, NodeDecidesDoes DEF Waiting, Heeds, Idle
  <2>2. Reads(n, recv'[n])
    BY <1>3, <2>1, NodeDecidesDoes
  <2>3. Asks(n, "nm", event[n]) /\ Moved(n, "nm", "got", Then(n, "nm", event[n]))
    BY <2>2 DEF Reads, Waiting
  <2>4. Heeds(n)' /\ Idle(n, "reg")'
    BY <2>1, <2>3, AsksHeeds, AsksOther, ThreadsAre DEF Waiting, Idle
  <2>5. pc'[n]["nm"] = "got" /\ pc'[n]["reg"] = "got"
    BY <2>3, ThreadsAre DEF Moved, Waiting
  <2>6. "SEND_PACKET" \notin event'[n].set
    BY <2>4 DEF Heeds
  <2> QED
    BY <2>2, <2>4, <2>5, <2>6 DEF Waiting, Reads
<1>4. CASE NodeAsks(n) \/ NodeLooks(n) \/ NodeTakes(n)
  BY <1>4, NodeAsksDoes, NodeLooksDoes, NodeTakesDoes DEF Waiting, Idle
<1> QED
  BY <1>1, <1>2, <1>3, <1>4 DEF NodeActs

LEMMA ArrivedActs ==
  ASSUME Inv, NEW n \in Node, Listens(n), Arrived(n), NodeActs(n)
  PROVE  Listens(n)' /\ Fetched(n)'
<1>0. n \in Board
  BY NodeIs
<1>1. CASE RxFlush(n) \/ TxEnd(n, "nm") \/ NodeAsks(n) \/ NodeLooks(n) \/ NodeTakes(n)
  BY <1>0, <1>1, RxFlushDoes, TxEndDoes, NodeAsksDoes, NodeLooksDoes, NodeTakesDoes,
     ThreadsAre DEF Arrived, Idle
<1>2. CASE NodeDecides(n)
  <2>1. event[n].got["nm"] = {"RECV_PACKET"}
    BY DEF Arrived, Listens, Heeds
  <2>2. Reads(n, recv'[n])
    BY <1>2, <2>1, NodeDecidesDoes
  <2>3. /\ recv'[n] = radio[n].fifo[1] /\ radio'[n].flags = {}
        /\ event' = event /\ Moved(n, "nm", "flush", "nm")
    BY <2>2 DEF Reads, Arrived
  <2>4. Listens(n)'
    BY <1>2, ListensActs
  <2> QED
    BY <2>3, <2>4, ThreadsAre DEF Arrived, Fetched, Moved, Idle, Acknowledges
<1> QED
  BY <1>1, <1>2 DEF NodeActs

LEMMA FetchedActs ==
  ASSUME Known, NEW n \in Node, Listens(n), Fetched(n), NodeActs(n)
  PROVE  Listens(n)' /\ HandedOn(n)'
<1>0. n \in Board /\ n # Router /\ MaskOf(n, "reg") = {"RECV_REG"} /\ Inv
  BY NodeIs DEF Known
<1>1. CASE TxEnd(n, "nm") \/ NodeDecides(n) \/ NodeAsks(n) \/ NodeLooks(n) \/ NodeTakes(n)
  BY <1>0, <1>1, NodeDecidesDoes, TxEndDoes, NodeAsksDoes, NodeLooksDoes, NodeTakesDoes,
     ThreadsAre DEF Fetched, Idle
<1>2. CASE RxFlush(n)
  <2>1. HandsOn(n)
    BY <1>0 DEF Known, Serving, NodesHold, Fetched, HandsOn
  <2>2. PICK x : /\ Posted(n, event[n], "RECV_REG", x)
                 /\ Asks(n, "nm", x) /\ Moved(n, "nm", "got", Then(n, "nm", x))
    BY <1>0, <1>2, <2>1, RxFlushDoes
  <2>3. radio'[n].flags = radio[n].flags /\ recv' = recv
    BY <1>0, <1>2, RxFlushDoes DEF Flushes
  <2>4. ~Ev!Suspended(x, "reg")
    BY <1>0, <2>2, ThreadsAre DEF Posted
  <2>5. ~Idle(n, "reg")'
    BY <2>2, <2>4, AsksOther, ThreadsAre
  <2>6. Listens(n)'
    BY <1>0, <1>2, ListensActs
  <2>7. pc'[n]["nm"] = "got" /\ pc'[n]["reg"] = "got"
    BY <2>2, ThreadsAre DEF Moved, Fetched
  <2> QED
    BY <2>3, <2>5, <2>6, <2>7 DEF Fetched, HandedOn, Acknowledges
<1> QED
  BY <1>1, <1>2 DEF NodeActs

LEMMA TakesRegisters ==
  ASSUME Known, orderly, NEW n \in Node, Listens(n), NodeTakes(n), pc[n]["nm"] = "got"
  PROVE  Confirming(n)'
<1>0. n \in Board /\ MaskOf(n, "nm") = {"RECV_PACKET", "SEND_PACKET"}
      /\ MaskOf(n, "reg") = {"RECV_REG"} /\ Inv
  BY NodeIs DEF Known
<1>1. LeaseOf(pool, n) # 0 /\ recv[n].addr = LeaseOf(pool, n)
  BY TakesLease
<1>2. /\ addr' = [addr EXCEPT ![n] = recv[n].addr]
      /\ send' = [send EXCEPT ![n] = [kind |-> "confirm", id |-> n, addr |-> 0]]
      /\ radio' = radio /\ Moved(n, "reg", "done", "none")
  BY <1>0, NodeTakesDoes
<1>3. addr'[n] # 0 /\ Confirms(send'[n])
  BY <1>0, <1>1, <1>2 DEF Inv, Parts, Confirms
<1>4. PICK x : Posted(n, event[n], "SEND_PACKET", x) /\ Posted(n, x, "REG_SUCCESS", event'[n])
  BY <1>0, NodeTakesDoes
<1>5. "REG_SUCCESS" \in event'[n].set
  BY <1>0, <1>4, ThreadsAre DEF Posted, Flag
<1>6. pc'[n]["reg"] = "done" /\ pc'[n]["nm"] = "got"
  BY <1>2, ThreadsAre DEF Moved
<1>7. Registered(n)'
  BY <1>2, <1>3, <1>5, <1>6 DEF Registered, Listens
<1>8. radio'[n].out = << >> /\ Heeds(n)
  BY <1>2 DEF Listens
<1>9. ~Idle(n, "nm")'
  BY <1>0, <1>4, ThreadsAre DEF Posted, Idle
<1>10. CASE Idle(n, "nm")
  <2>1. /\ x.got["nm"] = {"SEND_PACKET"} /\ "SEND_PACKET" \notin x.set
        /\ ~Ev!Suspended(x, "nm")
    BY <1>0, <1>4, <1>8, <1>10, ThreadsAre DEF Posted, Idle, Heeds, Flag
  <2>2. event'[n].got["nm"] = {"SEND_PACKET"} /\ "SEND_PACKET" \notin event'[n].set
    BY <1>4, <2>1, ThreadsAre DEF Posted, Flag
  <2> QED
    BY <1>6, <1>7, <1>8, <1>9, <2>2 DEF Confirming, ToConfirm
<1>11. CASE ~Idle(n, "nm")
  <2>1. /\ x.got["nm"] = {"RECV_PACKET"} /\ ~Ev!Suspended(x, "nm")
        /\ \A t \in Thread : Ev!Suspended(event[n], t) => "SEND_PACKET" \notin MaskOf(n, t)
    BY <1>0, <1>4, <1>8, <1>11, ThreadsAre DEF Posted, Idle, Heeds
  <2>2. "SEND_PACKET" \in x.set
    BY <1>4, <2>1 DEF Posted, Flag
  <2>3. event'[n].got["nm"] = {"RECV_PACKET"} /\ "SEND_PACKET" \in event'[n].set
    BY <1>4, <2>1, <2>2, ThreadsAre DEF Posted, Flag
  <2> QED
    BY <1>6, <1>7, <1>8, <1>9, <2>3 DEF Confirming, ToConfirm
<1> QED
  BY <1>10, <1>11

LEMMA HandedOnActs ==
  ASSUME Known, orderly, NEW n \in Node, Listens(n), HandedOn(n), NodeActs(n)
  PROVE  (Listens(n)' /\ HandedOn(n)') \/ Confirming(n)'
<1>0. n \in Board /\ Inv
  BY NodeIs DEF Known
<1>1. CASE RxFlush(n) \/ TxEnd(n, "nm") \/ NodeAsks(n)
  BY <1>0, <1>1, RxFlushDoes, TxEndDoes, NodeAsksDoes, ThreadsAre DEF HandedOn
<1>2. CASE NodeDecides(n)
  <2>1. event[n].got["nm"] = {"RECV_PACKET"}
    BY <1>0, <1>2, NodeDecidesDoes DEF HandedOn, Listens, Heeds, Idle
  <2>2. Reads(n, recv'[n])
    BY <1>0, <1>2, <2>1, NodeDecidesDoes
  <2>3. /\ Asks(n, "nm", event[n]) /\ Moved(n, "nm", "got", Then(n, "nm", event[n]))
        /\ recv'[n] = recv[n] /\ radio'[n].flags = {}
    BY <2>2 DEF Reads, HandedOn
  <2>4. ~Idle(n, "reg")'
    BY <2>3, AsksOther, ThreadsAre DEF HandedOn, Idle
  <2>5. Listens(n)'
    BY <1>0, <1>2, ListensActs
  <2>6. pc'[n]["nm"] = "got" /\ pc'[n]["reg"] = pc[n]["reg"]
    BY <2>3, ThreadsAre DEF Moved
  <2> QED
    BY <2>3, <2>4, <2>5, <2>6 DEF HandedOn, Acknowledges
<1>3. CASE NodeLooks(n)
  <2>1. /\ Moved(n, "reg", "take", "reg")
        /\ event' = event /\ radio' = radio /\ recv' = recv
    BY <1>0, <1>3, NodeLooksDoes DEF HandedOn, Acknowledges
  <2>2. pc'[n]["reg"] = "take" /\ pc'[n]["nm"] = pc[n]["nm"]
    BY <2>1, ThreadsAre DEF Moved
  <2>3. Listens(n)'
    BY <2>1, <2>2 DEF Listens, Heeds, Idle
  <2> QED
    BY <2>1, <2>2, <2>3 DEF HandedOn, Acknowledges, Idle
<1>4. CASE NodeTakes(n)
  BY <1>4, TakesRegisters DEF HandedOn
<1> QED
  BY <1>1, <1>2, <1>3, <1>4 DEF NodeActs

LEMMA AnsweredActs ==
  ASSUME Known, orderly, NEW n \in Node, Answered(n), NodeActs(n)
  PROVE  Answered(n)' \/ Confirming(n)'
<1>1. Listens(n) /\ (Arrived(n) \/ Fetched(n) \/ HandedOn(n)) /\ Inv
  BY DEF Answered, Known
<1>2. Confirming(n)' \/ (Listens(n)' /\ (Arrived(n)' \/ Fetched(n)' \/ HandedOn(n)'))
  BY <1>1, ArrivedActs, FetchedActs, HandedOnActs
<1> QED
  BY <1>2 DEF Answered

-----------------------------------------------------------------------------
(* The steps of the router's threads *)

RouterActs ==
  \/ RxFlush(Router) \/ TxEnd(Router, "reg") \/ RouterReceives
  \/ RouterLooks \/ RouterCopies \/ RouterAnswers

LEMMA RouterIs ==
  /\ Router \in Board /\ Talker(Router) = "reg"
  /\ MaskOf(Router, "nm") = {"RECV_PACKET"} /\ MaskOf(Router, "reg") = {"RECV_REG"}
BY Boards, MasksAre DEF Talker

LEMMA RouterActsAlone ==
  ASSUME Inv, RouterActs
  PROVE  Alone(Router)
<1>0. Router \in Board /\ Router \in on
  BY RouterIs DEF Inv, Parts
<1>1. CASE RxFlush(Router)
  BY <1>0, <1>1, FlushAlone
<1>2. CASE TxEnd(Router, "reg")
  BY <1>0, <1>2, TxEndAlone, ThreadsAre
<1>3. CASE RouterReceives
  BY <1>0, <1>3, RouterReceivesDoes, ReadsAlone
<1>4. CASE RouterLooks
  <2>1. CASE Answers
    BY <1>0, <1>4, <2>1, RouterLooksDoes DEF Answers, Moved, Alone, Untouched
  <2>2. CASE Passes
    BY <1>0, <1>4, <2>2, RouterLooksDoes DEF Passes, Asks, Moved, Alone, Untouched
  <2> QED
    BY <1>4, <2>1, <2>2, RouterLooksDoes
<1>5. CASE RouterCopies
  BY <1>0, <1>5, RouterCopiesDoes DEF Inv, Parts, Moved, Alone, Untouched
<1>6. CASE RouterAnswers
  <2>1. \A o \in Board \ {Router} : send'[o] = send[o]
    <3> DEFINE s == send'[Router]
    <3>1. send' = [send EXCEPT ![Router] = s]
      BY <1>6, RouterAnswersDoes
    <3> HIDE DEF s
    <3> QED
      BY <3>1 DEF Inv, Parts
  <2> QED
    BY <1>0, <1>6, <2>1, RouterAnswersDoes DEF Loads, Moved, Alone, Untouched
<1> QED
  BY <1>1, <1>2, <1>3, <1>4, <1>5, <1>6 DEF RouterActs

\* A router that rests has nothing to do.
LEMMA RestsActs == ASSUME Inv, Rests PROVE ~RouterActs
<1>1. ~RxFlush(Router) /\ ~TxEnd(Router, "reg")
  BY RouterIs, RxFlushDoes, TxEndDoes, ThreadsAre DEF Rests
<1>2. ~RouterReceives /\ ~RouterLooks /\ ~RouterCopies /\ ~RouterAnswers
  BY RouterReceivesDoes, RouterLooksDoes, RouterCopiesDoes, RouterAnswersDoes DEF Rests, Idle
<1> QED
  BY <1>1, <1>2 DEF RouterActs

LEMMA ReceivedActs ==
  ASSUME Inv, NEW n, Received(n), RouterActs
  PROVE  Reading(n)'
<1>1. ~RxFlush(Router) /\ ~TxEnd(Router, "reg")
  BY RouterIs, RxFlushDoes, TxEndDoes, ThreadsAre DEF Received
<1>2. ~RouterLooks /\ ~RouterCopies /\ ~RouterAnswers
  BY RouterLooksDoes, RouterCopiesDoes, RouterAnswersDoes DEF Received, Idle
<1>3. RouterReceives
  BY <1>1, <1>2 DEF RouterActs
<1>4. Reads(Router, recv'[Router])
  BY <1>3, RouterReceivesDoes
<1>5. /\ recv'[Router] = radio[Router].fifo[1] /\ radio'[Router].flags = {}
      /\ radio'[Router].out = radio[Router].out
      /\ event' = event /\ Moved(Router, "nm", "flush", "nm")
  BY <1>4 DEF Reads, Received
<1> QED
  BY <1>5, ThreadsAre DEF Received, Reading, Moved, Idle, Requests

LEMMA ReadingActs ==
  ASSUME Inv, NEW n, Reading(n), RouterActs
  PROVE  Replying(n)'
<1>1. ~TxEnd(Router, "reg") /\ ~RouterReceives
  BY RouterIs, TxEndDoes, RouterReceivesDoes, ThreadsAre DEF Reading
<1>2. ~RouterLooks /\ ~RouterCopies /\ ~RouterAnswers
  BY RouterLooksDoes, RouterCopiesDoes, RouterAnswersDoes DEF Reading, Idle
<1>3. RxFlush(Router)
  BY <1>1, <1>2 DEF RouterActs
<1>4. HandsOn(Router)
  BY DEF HandsOn, Reading, Requests
<1>5. PICK x : /\ Posted(Router, event[Router], "RECV_REG", x)
               /\ Asks(Router, "nm", x) /\ Moved(Router, "nm", "got", Then(Router, "nm", x))
  BY <1>3, <1>4, RxFlushDoes, RouterIs
<1>6. /\ radio'[Router].fifo = << >> /\ radio'[Router].flags = {}
      /\ radio'[Router].out = << >> /\ recv' = recv
  BY <1>3, RxFlushDoes, RouterIs DEF Flushes, Reading
<1>7. "RECV_REG" \notin event[Router].set
  BY IdleIs, RouterIs, ThreadsAre DEF Reading
<1>8. ~Ev!Suspended(x, "reg") /\ "RECV_REG" \notin x.set
  BY <1>5, <1>7, RouterIs, ThreadsAre DEF Posted, Reading, Idle, Flag
<1>9. ~Idle(Router, "reg")' /\ "RECV_REG" \notin event'[Router].set
  <2>1. Asks(Router, "nm", x) /\ "nm" \in Thread /\ "reg" \in Thread /\ "nm" # "reg"
    BY <1>5, ThreadsAre
  <2> QED
    BY <1>8, <2>1, AsksOther
<1>10. pc'[Router]["nm"] = "got" /\ pc'[Router]["reg"] = "got"
  BY <1>5, ThreadsAre DEF Moved, Reading
<1> QED
  BY <1>6, <1>9, <1>10 DEF Reading, Replying, ReplyAt, Requests

LEMMA ReplyingActs ==
  ASSUME Inv, NEW n \in Node, Replying(n), RouterActs
  PROVE  Replying(n)'
<1>0. Router \in Board /\ recv[Router].kind = "register" /\ recv[Router].id = n
      /\ send \in [Board -> Packet] /\ send[Router] \in Packet
  BY RouterIs DEF Replying, Requests, Inv, Parts
<1>1. CASE RxFlush(Router) \/ TxEnd(Router, "reg")
  BY <1>0, <1>1, RxFlushDoes, TxEndDoes, ThreadsAre DEF Replying
<1>2. CASE RouterReceives
  <2>1. Reads(Router, recv'[Router]) /\ send' = send
    BY <1>2, RouterReceivesDoes
  <2>2. /\ Asks(Router, "nm", event[Router]) /\ recv'[Router] = recv[Router]
        /\ Moved(Router, "nm", "got", Then(Router, "nm", event[Router]))
        /\ radio'[Router].fifo = << >> /\ radio'[Router].flags = {}
        /\ radio'[Router].mode = radio[Router].mode /\ radio'[Router].out = radio[Router].out
    BY <2>1 DEF Reads, Replying
  <2>3. /\ Idle(Router, "reg")' <=> Idle(Router, "reg")
        /\ "RECV_REG" \notin event'[Router].set
    <3>1. "nm" \in Thread /\ "reg" \in Thread /\ "nm" # "reg"
      BY ThreadsAre
    <3>2. /\ Idle(Router, "reg")' <=> Ev!Suspended(event[Router], "reg")
          /\ \A g : g \in event'[Router].set <=>
                    g \in event[Router].set /\ g \notin MaskOf(Router, "nm")
      BY <2>2, <3>1, AsksOther
    <3>3. "RECV_REG" \notin event[Router].set
      BY DEF Replying
    <3> QED
      BY <3>2, <3>3 DEF Idle
  <2>4. pc'[Router]["nm"] = "got" /\ pc'[Router]["reg"] = pc[Router]["reg"]
    BY <2>2, ThreadsAre DEF Moved
  <2>5. ReplyAt(n)'
    BY <2>1, <2>2, <2>3, <2>4 DEF Replying, ReplyAt, Acknowledges
  <2> QED
    BY <2>2, <2>3, <2>4, <2>5 DEF Replying, Requests
<1>3. CASE RouterLooks
  <2>1. Moved(Router, "reg", "copy", "reg") /\ UNCHANGED << event, radio, recv >>
        /\ pc[Router]["reg"] = "got"
    BY <1>0, <1>3, RouterLooksDoes DEF Answers, Passes
  <2>2. pc'[Router]["reg"] = "copy" /\ pc'[Router]["nm"] = pc[Router]["nm"]
    BY <2>1, ThreadsAre DEF Moved
  <2> QED
    BY <2>1, <2>2 DEF Replying, ReplyAt, Requests
<1>4. CASE RouterCopies
  <2>1. /\ Moved(Router, "reg", "addr", "reg") /\ UNCHANGED << event, radio, recv >>
        /\ send' = [send EXCEPT ![Router] =
                      [kind |-> "acknowledge", id |-> recv[Router].id, addr |-> 0]]
        /\ pc[Router]["reg"] = "copy"
    BY <1>4, RouterCopiesDoes
  <2>2. pc'[Router]["reg"] = "addr" /\ pc'[Router]["nm"] = pc[Router]["nm"]
    BY <2>1, ThreadsAre DEF Moved
  <2>3. Acknowledges(send'[Router], n)
    BY <1>0, <2>1 DEF Acknowledges
  <2> QED
    BY <2>1, <2>2, <2>3 DEF Replying, ReplyAt, Requests, Acknowledges
<1>5. CASE RouterAnswers
  <2>1. /\ Moved(Router, "reg", "spin", "reg") /\ UNCHANGED << event, recv >>
        /\ Loads(Router, send'[Router]) /\ pc[Router]["reg"] = "addr"
        /\ send'[Router] = [send[Router] EXCEPT !.addr = Dh!get_addr(pool, recv[Router].id)]
    BY <1>5, RouterAnswersDoes
  <2>2. pc'[Router]["reg"] = "spin" /\ pc'[Router]["nm"] = pc[Router]["nm"]
    BY <2>1, ThreadsAre DEF Moved
  <2>3. Acknowledges(send[Router], n)
    BY <2>1 DEF Replying, ReplyAt
  <2>4. send'[Router].kind = send[Router].kind /\ send'[Router].id = send[Router].id
    <3> DEFINE a == Dh!get_addr(pool, recv[Router].id)
    <3>1. send'[Router] = [send[Router] EXCEPT !.addr = a]
      BY <2>1
    <3> HIDE DEF a
    <3> QED
      BY <1>0, <3>1 DEF Packet
  <2>5. /\ radio'[Router].mode = "tx" /\ radio'[Router].out # << >>
        /\ radio'[Router].out[1] = send'[Router]
        /\ radio'[Router].fifo = << >> /\ radio'[Router].flags = {}
    BY <2>1, FirstOfOne DEF Loads, Replying
  <2> QED
    BY <2>1, <2>2, <2>3, <2>4, <2>5 DEF Replying, ReplyAt, Requests, Acknowledges
<1> QED
  BY <1>1, <1>2, <1>3, <1>4, <1>5 DEF RouterActs

LEMMA HandlingActs ==
  ASSUME Inv, NEW n \in Node, Handling(n), RouterActs
  PROVE  Handling(n)'
BY ReceivedActs, ReadingActs, ReplyingActs DEF Handling

LEMMA RepliedActs ==
  ASSUME Inv, Replied, RouterActs
  PROVE  Replied'
<1>0. Router \in Board /\ "nm" \in Thread /\ "reg" \in Thread /\ "nm" # "reg"
      /\ MaskOf(Router, "reg") = {"RECV_REG"}
  BY RouterIs, ThreadsAre
<1>1. CASE TxEnd(Router, "reg")
  <2>1. /\ Unloads(Router) /\ Asks(Router, "reg", event[Router])
        /\ Moved(Router, "reg", "got", Then(Router, "reg", event[Router]))
    BY <1>0, <1>1, TxEndDoes
  <2>2. pc'[Router]["reg"] = "got" /\ pc'[Router]["nm"] = pc[Router]["nm"]
    BY <1>0, <2>1 DEF Moved
  <2>3. Idle(Router, "reg")' /\ "RECV_REG" \notin event'[Router].set
    BY <1>0, <2>1 DEF Asks, Asked, Idle, Replied
  <2> QED
    BY <2>1, <2>2, <2>3 DEF Unloads, Replied
<1>2. CASE RouterReceives
  <2>1. Reads(Router, recv'[Router])
    BY <1>2, RouterReceivesDoes
  <2>2. /\ Asks(Router, "nm", event[Router])
        /\ Moved(Router, "nm", "got", Then(Router, "nm", event[Router]))
        /\ radio'[Router].fifo = << >> /\ radio'[Router].flags = {}
        /\ radio'[Router].mode = radio[Router].mode /\ radio'[Router].out = << >>
    BY <2>1 DEF Reads, Replied
  <2>3. /\ Idle(Router, "reg")' <=> Idle(Router, "reg")
        /\ "RECV_REG" \notin event'[Router].set
    BY <1>0, <2>2, AsksOther DEF Idle, Replied
  <2>4. pc'[Router]["nm"] = "got" /\ pc'[Router]["reg"] = pc[Router]["reg"]
    BY <1>0, <2>2 DEF Moved
  <2> QED
    BY <2>2, <2>3, <2>4 DEF Replied
<1>3. ~RxFlush(Router) /\ ~RouterLooks /\ ~RouterCopies /\ ~RouterAnswers
  BY <1>0, RxFlushDoes, RouterLooksDoes, RouterCopiesDoes, RouterAnswersDoes DEF Replied, Idle
<1> QED
  BY <1>1, <1>2, <1>3 DEF RouterActs

LEMMA HarmlessActs ==
  ASSUME Inv, Harmless, RouterActs
  PROVE  Harmless'
<1>0. Router \in Board /\ "nm" \in Thread /\ "reg" \in Thread /\ "nm" # "reg"
      /\ MaskOf(Router, "reg") = {"RECV_REG"}
  BY RouterIs, ThreadsAre
<1>1. CASE RxFlush(Router)
  <2>1. PICK x : Asks(Router, "nm", x) /\ Moved(Router, "nm", "got", Then(Router, "nm", x))
    BY <1>0, <1>1, RxFlushDoes
  <2>2. /\ pc[Router]["nm"] = "flush" /\ radio'[Router].fifo = << >>
        /\ radio'[Router].out = << >> /\ radio'[Router].flags = {} /\ recv' = recv
    BY <1>0, <1>1, RxFlushDoes DEF Flushes, Harmless
  <2>3. Confirms(recv'[Router])
    BY <2>2 DEF Harmless
  <2>4. pc'[Router]["nm"] = "got" /\ pc'[Router]["reg"] = "got"
    BY <1>0, <2>1 DEF Moved, Harmless
  <2> QED
    BY <2>2, <2>3, <2>4 DEF Harmless
<1>2. CASE RouterReceives
  <2>1. Reads(Router, recv'[Router]) /\ pc[Router]["nm"] = "got"
    BY <1>2, RouterReceivesDoes
  <2>2. /\ radio'[Router].fifo = radio[Router].fifo
        /\ radio'[Router].out = << >> /\ radio'[Router].flags = {}
    BY <2>1 DEF Reads, Harmless
  <2>3. CASE "RX_DR" \in radio[Router].flags
    <3>1. Moved(Router, "nm", "flush", "nm") /\ recv'[Router] = radio[Router].fifo[1]
          /\ radio[Router].fifo # << >>
      BY <2>1, <2>3 DEF Reads, Harmless
    <3>2. Confirms(recv'[Router]) /\ Confirms(radio'[Router].fifo[1])
      BY <2>2, <3>1 DEF Harmless, Confirms
    <3>3. pc'[Router]["nm"] = "flush" /\ pc'[Router]["reg"] = "got"
      BY <1>0, <3>1 DEF Moved, Harmless
    <3> QED
      BY <2>2, <3>2, <3>3 DEF Harmless
  <2>4. CASE "RX_DR" \notin radio[Router].flags
    <3>1. /\ Asks(Router, "nm", event[Router]) /\ recv'[Router] = recv[Router]
          /\ Moved(Router, "nm", "got", Then(Router, "nm", event[Router]))
      BY <2>1, <2>4 DEF Reads
    <3>2. /\ Idle(Router, "reg")' <=> Idle(Router, "reg")
          /\ "RECV_REG" \in event'[Router].set => "RECV_REG" \in event[Router].set
      BY <1>0, <3>1, AsksOther DEF Idle
    <3>3. pc'[Router]["nm"] = "got" /\ pc'[Router]["reg"] = "got"
      BY <1>0, <3>1 DEF Moved, Harmless
    <3>4. radio'[Router].fifo = << >>
      BY <2>1, <2>2, <2>4 DEF Harmless
    <3> QED
      BY <2>2, <3>1, <3>2, <3>3, <3>4 DEF Harmless, Confirms
  <2> QED
    BY <2>3, <2>4
<1>3. CASE RouterLooks
  <2>1. /\ pc[Router]["reg"] = "got" /\ ~Idle(Router, "reg")
        /\ UNCHANGED << radio, recv >>
    BY <1>3, RouterLooksDoes DEF Idle
  <2>2. Confirms(recv[Router])
    BY <2>1 DEF Harmless
  <2>3. Moved(Router, "reg", "got", Then(Router, "reg", event[Router]))
    BY <1>3, <2>2, RouterLooksDoes DEF Answers, Passes, Confirms
  <2>4. pc'[Router]["reg"] = "got" /\ pc'[Router]["nm"] = pc[Router]["nm"]
    BY <1>0, <2>3 DEF Moved
  <2> QED
    BY <2>1, <2>2, <2>4 DEF Harmless, Confirms
<1>4. ~TxEnd(Router, "reg") /\ ~RouterCopies /\ ~RouterAnswers
  BY <1>0, TxEndDoes, RouterCopiesDoes, RouterAnswersDoes DEF Harmless
<1> QED
  BY <1>1, <1>2, <1>3, <1>4 DEF RouterActs

-----------------------------------------------------------------------------
(* A packet that everybody hears *)

Keeps == UNCHANGED << orderly, on, recv, send, pc, cur, addr, pool, restarts >>

\* The packet of b is gone, ...
Gone(b) ==
  /\ radio[b].mode = "tx" /\ radio[b].out # << >>
  /\ radio'[b].mode = "tx" /\ radio'[b].out = << >>
  /\ radio'[b].fifo = radio[b].fifo /\ radio'[b].flags = radio[b].flags \cup {"TX_DS"}
  /\ Rises(b)

\* ... and o has p, or had another.
Gets(o, p) ==
  /\ radio[o].mode = "rx" /\ radio[o].flags = {}
  /\ radio'[o].mode = "rx" /\ radio'[o].out = radio[o].out
  /\ radio'[o].fifo = IF radio[o].fifo = << >> THEN << p >> ELSE radio[o].fifo
  /\ radio'[o].flags = {"RX_DR"}
  /\ Posted(o, event[o], "RECV_PACKET", event'[o])

LEMMA SameChip ==
  ASSUME NEW c \in Rf!Chip, NEW d \in Rf!Chip,
         c.mode = d.mode, c.fifo = d.fifo, c.out = d.out, c.flags = d.flags
  PROVE  c = d
BY DEF Rf!Chip

\* Only a board that was started sends, and only those hear.
LEMMA OnlyOnTransmit ==
  ASSUME Inv, OffFresh, NEW b \in Board, Transmit(b)
  PROVE  b \in on /\ on' = on /\ \A o \in Board \ on : Untouched(o)
<1>1. /\ \A o \in Board : Rises(o)
      /\ UNCHANGED << orderly, on, recv, send, pc, cur, addr, pool, restarts >>
  BY TransmitDoes
<1>2. PICK hearers \in SUBSET on : Carried(b, hearers)
  BY TransmitDoes
<1>3. b \in on
  <2>1. Rf!FreshChip.mode = "rx" /\ "rx" # "tx"
    BY DEF Rf!FreshChip
  <2>2. radio[b].mode = "tx"
    BY <1>2 DEF Carried
  <2>3. b \notin on => b \in Node
    BY DEF Inv, Parts, Board
  <2> QED
    BY <2>1, <2>2, <2>3 DEF OffFresh, IsFresh
<1>4. \A o \in Board \ on : Untouched(o)
  <2> SUFFICES ASSUME NEW o \in Board, o \notin on
               PROVE  Untouched(o)
    OBVIOUS
  <2>1. o # b /\ o \notin hearers
    BY <1>3
  <2>2. /\ radio'[o].mode = radio[o].mode /\ radio'[o].out = radio[o].out
        /\ radio'[o].fifo = radio[o].fifo /\ radio'[o].flags = radio[o].flags
        /\ radio'[o] \in Rf!Chip /\ radio[o] \in Rf!Chip
    BY <1>2, <2>1 DEF Carried, Inv, Parts
  <2>3. radio'[o] = radio[o]
    BY <2>2, SameChip
  <2>4. event'[o] = event[o]
    BY <1>1, <2>2 DEF Rises
  <2> QED
    BY <1>1, <2>3, <2>4 DEF Untouched
<1> QED
  BY <1>1, <1>3, <1>4

LEMMA CleanTransmit ==
  ASSUME Inv, OffFresh, NEW b \in Board, Transmit(b), faults' = 0
  PROVE  /\ faults = 0 /\ Keeps /\ b \in on /\ Gone(b)
         /\ \A o \in on \ {b} : Gets(o, radio[b].out[1])
<1>1. /\ \A o \in Board : Rises(o)
      /\ UNCHANGED << orderly, on, recv, send, pc, cur, addr, pool, restarts >>
      /\ b \in on
  BY TransmitDoes, OnlyOnTransmit
<1>2. PICK hearers \in SUBSET on : Carried(b, hearers) /\ Heard(b, hearers)
  BY TransmitDoes
<1>3. ~Fault(Light)
  BY DEF Inv, Parts, Fault, Light
<1>4. /\ faults' = faults /\ hearers = on \ {b}
      /\ \A o \in on \ {b} : radio[o].flags = {}
  BY <1>2, <1>3 DEF Heard, NoFault, Rf!IRQ
<1>5. Gone(b)
  BY <1>1, <1>2 DEF Carried, Gone
<1>6. ASSUME NEW o \in on \ {b}
      PROVE  Gets(o, radio[b].out[1])
  <2>1. o \in Board /\ o \in hearers /\ o # b /\ radio[o].flags = {}
    BY <1>4 DEF Inv, Parts
  <2>2. /\ radio[o].mode = "rx"
        /\ radio'[o].mode = radio[o].mode /\ radio'[o].out = radio[o].out
        /\ radio'[o].fifo = IF radio[o].fifo = << >> THEN << radio[b].out[1] >>
                            ELSE radio[o].fifo
        /\ radio'[o].flags = {"RX_DR"}
    BY <1>2, <2>1 DEF Carried
  <2>3. Posted(o, event[o], "RECV_PACKET", event'[o])
    BY <1>1, <2>1, <2>2 DEF Rises
  <2> QED
    BY <2>1, <2>2, <2>3 DEF Gets
<1> QED
  BY <1>1, <1>4, <1>5, <1>6 DEF Keeps

\* What the flag of the pin leaves alone.
LEMMA PostsPacket ==
  ASSUME NEW b, Posted(b, event[b], "RECV_PACKET", event'[b])
  PROVE  /\ Idle(b, "reg")' <=> Idle(b, "reg")
         /\ ~Idle(b, "nm")'
         /\ event'[b].got["nm"] = IF Idle(b, "nm") THEN {"RECV_PACKET"} ELSE event[b].got["nm"]
         /\ \A g \in Flag \ {"RECV_PACKET"} : g \in event'[b].set <=> g \in event[b].set
<1>1. "RECV_PACKET" \notin MaskOf(b, "reg") /\ "RECV_PACKET" \in MaskOf(b, "nm")
  BY MasksAre
<1>2. \A t \in Thread :
        /\ Ev!Suspended(event'[b], t) <=>
             Ev!Suspended(event[b], t) /\ "RECV_PACKET" \notin MaskOf(b, t)
        /\ event'[b].got[t] = IF Ev!Suspended(event[b], t) /\ "RECV_PACKET" \in MaskOf(b, t)
                              THEN {"RECV_PACKET"} ELSE event[b].got[t]
  BY DEF Posted
<1>3. \A g \in Flag \ {"RECV_PACKET"} : g \in event'[b].set <=> g \in event[b].set
  BY DEF Posted
<1> QED
  BY <1>1, <1>2, <1>3, ThreadsAre DEF Idle

LEMMA FlagsAre ==
  /\ "REG_SUCCESS" \in Flag \ {"RECV_PACKET"} /\ "SEND_PACKET" \in Flag \ {"RECV_PACKET"}
  /\ "RECV_REG" \in Flag \ {"RECV_PACKET"}
BY DEF Flag

LEMMA ConfirmingSends ==
  ASSUME NEW n, Confirming(n), Keeps, Gone(n)
  PROVE  Settled(n)' /\ Confirms(radio[n].out[1])
<1>1. /\ "REG_SUCCESS" \in event'[n].set <=> "REG_SUCCESS" \in event[n].set
      /\ "SEND_PACKET" \in event'[n].set <=> "SEND_PACKET" \in event[n].set
  BY PostsPacket, FlagsAre DEF Gone, Rises
<1>2. Registered(n)' /\ Confirms(radio[n].out[1])
  BY <1>1 DEF Confirming, Registered, Keeps, Gone, Confirms
<1>3. pc[n]["nm"] = "spin" /\ "SEND_PACKET" \notin event[n].set
  BY DEF Confirming, ToConfirm, Gone
<1>4. Listens(n)'
  BY <1>1, <1>3 DEF Listens, Keeps, Gone
<1> QED
  BY <1>2, <1>4 DEF Settled

LEMMA RegisteredGets ==
  ASSUME NEW n, NEW p, Registered(n), Keeps, Gets(n, p)
  PROVE  Registered(n)'
<1>1. "REG_SUCCESS" \in event'[n].set
  BY PostsPacket, FlagsAre DEF Registered, Gets
<1> QED
  BY <1>1 DEF Registered, Keeps, Gets, Confirms

LEMMA ListensGets ==
  ASSUME NEW n, NEW p, Listens(n), Keeps, Gets(n, p)
  PROVE  Listens(n)'
<1>1. /\ "SEND_PACKET" \in event'[n].set <=> "SEND_PACKET" \in event[n].set
      /\ event'[n].got["nm"] = IF Idle(n, "nm") THEN {"RECV_PACKET"} ELSE event[n].got["nm"]
      /\ ~Idle(n, "nm")'
  BY PostsPacket, FlagsAre DEF Gets
<1>2. radio'[n].out = radio[n].out /\ pc' = pc
  BY DEF Keeps, Gets
<1> QED
  BY <1>1, <1>2 DEF Listens, Heeds

LEMMA SettledGets ==
  ASSUME NEW n, NEW p, Settled(n), Keeps, Gets(n, p)
  PROVE  Settled(n)'
BY RegisteredGets, ListensGets DEF Settled

LEMMA RequestingSends ==
  ASSUME NEW n, Requesting(n), Keeps, Gone(n)
  PROVE  Waiting(n)' /\ Requests(radio[n].out[1], n)
<1>1. /\ pc[n]["reg"] = "got" /\ Idle(n, "reg") /\ pc[n]["nm"] = "spin"
      /\ Requests(radio[n].out[1], n)
      /\ radio[n].fifo = << >> /\ radio[n].flags = {} /\ "SEND_PACKET" \notin event[n].set
  BY DEF Requesting, Gone
<1>2. /\ radio'[n].fifo = << >> /\ radio'[n].flags = {"TX_DS"} /\ radio'[n].out = << >>
      /\ Posted(n, event[n], "RECV_PACKET", event'[n])
  BY <1>1 DEF Gone, Rises
<1>3. Idle(n, "reg")' /\ "SEND_PACKET" \notin event'[n].set
  BY <1>1, <1>2, PostsPacket, FlagsAre
<1> QED
  BY <1>1, <1>2, <1>3 DEF Keeps, Waiting

LEMMA WaitingGets ==
  ASSUME NEW n, NEW p, Waiting(n), Keeps, Gets(n, p), Acknowledges(p, n)
  PROVE  Answered(n)'
<1>1. /\ pc[n]["reg"] = "got" /\ Idle(n, "reg") /\ pc[n]["nm"] = "got" /\ Heeds(n)
      /\ radio[n].fifo = << >> /\ radio[n].out = << >>
  BY DEF Waiting, Gets
<1>2. Listens(n)
  BY <1>1 DEF Listens
<1>3. Listens(n)'
  BY <1>2, ListensGets
<1>4. Idle(n, "reg")' /\ ~Idle(n, "nm")'
  BY <1>1, PostsPacket DEF Gets
<1>5. radio'[n].fifo # << >> /\ radio'[n].fifo[1] = p /\ "RX_DR" \in radio'[n].flags
  BY <1>1, FirstOfOne DEF Gets
<1>6. Arrived(n)'
  BY <1>1, <1>4, <1>5 DEF Keeps, Arrived, Acknowledges
<1> QED
  BY <1>3, <1>6 DEF Answered

LEMMA RestsGets ==
  ASSUME NEW n, NEW p, Rests, Keeps, Gets(Router, p), Requests(p, n)
  PROVE  Handling(n)'
<1>1. Idle(Router, "reg")' /\ ~Idle(Router, "nm")'
  BY PostsPacket DEF Gets, Rests
<1>2. /\ radio'[Router].fifo # << >> /\ radio'[Router].fifo[1] = p
      /\ radio'[Router].flags = {"RX_DR"} /\ radio'[Router].out = << >>
  BY FirstOfOne DEF Gets, Rests
<1> QED
  BY <1>1, <1>2 DEF Rests, Keeps, Handling, Received, Requests

LEMMA HandlingSends ==
  ASSUME NEW n, Handling(n), Keeps, Gone(Router)
  PROVE  Replied' /\ Acknowledges(radio[Router].out[1], n)
<1>1. /\ pc[Router]["nm"] = "got" /\ radio[Router].fifo = << >> /\ radio[Router].flags = {}
      /\ "RECV_REG" \notin event[Router].set
      /\ pc[Router]["reg"] = "spin" /\ Acknowledges(radio[Router].out[1], n)
  BY DEF Gone, Handling, Received, Reading, Replying, ReplyAt
<1>2. "RECV_REG" \notin event'[Router].set
  BY <1>1, PostsPacket, FlagsAre DEF Gone, Rises
<1> QED
  BY <1>1, <1>2 DEF Gone, Keeps, Replied

LEMMA RepliedGets ==
  ASSUME NEW p, Replied, Keeps, Gets(Router, p), Confirms(p)
  PROVE  Harmless'
<1>1. /\ pc[Router]["reg"] = "got" /\ Idle(Router, "reg") /\ pc[Router]["nm"] = "got"
      /\ "RECV_REG" \notin event[Router].set
  BY DEF Replied, Gets
<1>2. Idle(Router, "reg")' /\ "RECV_REG" \notin event'[Router].set
  BY <1>1, PostsPacket, FlagsAre DEF Gets
<1>3. /\ radio'[Router].fifo # << >> /\ Confirms(radio'[Router].fifo[1])
      /\ radio'[Router].out = << >> /\ "RX_DR" \in radio'[Router].flags
  BY FirstOfOne DEF Replied, Gets
<1> QED
  BY <1>1, <1>2, <1>3 DEF Harmless, Keeps

-----------------------------------------------------------------------------
(* Rest *)

LEMMA MoreThanSpin ==
  ASSUME NEW b \in on, NEW t \in Thread, AtRest,
         pc[b][t] # "done", pc[b][t] = "got" => ~Idle(b, t)
  PROVE  pc[b][t] = "spin" /\ radio[b].flags = {}
BY DEF AtRest, Ready, Idle, Rf!IRQ

LEMMA NotSending ==
  ASSUME NEW b \in on, AtRest, radio[b].mode = "tx"
  PROVE  radio[b].out = << >>
BY DEF AtRest, Rf!Sends

LEMMA HandlingGoesOn ==
  ASSUME NEW n, Handling(n), AtRest, Router \in on
  PROVE  FALSE
<1>1. CASE Received(n) \/ Reading(n)
  BY <1>1, MoreThanSpin, ThreadsAre DEF Received, Reading
<1>2. CASE Replying(n)
  BY <1>2, MoreThanSpin, NotSending, ThreadsAre DEF Replying, ReplyAt
<1> QED
  BY <1>1, <1>2 DEF Handling

\* A registration that has begun goes on.
LEMMA BusyGoesOn ==
  ASSUME Inv, NEW a \in on, Busy(a)
  PROVE  ~AtRest
<1> SUFFICES ASSUME AtRest
             PROVE  FALSE
  OBVIOUS
<1>1. CASE Requesting(a)
  BY <1>1, MoreThanSpin, NotSending, ThreadsAre DEF Requesting
<1>2. CASE Handling(a)
  BY <1>2, HandlingGoesOn DEF Inv, Parts
<1>3. CASE Answered(a)
  <2>1. CASE Arrived(a) \/ Fetched(a)
    BY <2>1, MoreThanSpin, ThreadsAre DEF Arrived, Fetched
  <2>2. CASE HandedOn(a)
    BY <2>2, MoreThanSpin, ThreadsAre DEF HandedOn
  <2> QED
    BY <1>3, <2>1, <2>2 DEF Answered
<1>4. CASE Confirming(a)
  BY <1>4, MoreThanSpin, NotSending, ThreadsAre DEF Confirming, ToConfirm
<1> QED
  BY <1>1, <1>2, <1>3, <1>4 DEF Busy

LEMMA QuietRests == Quiet => AtRest
BY DEF Quiet, AtRest

\* With nobody at work, everybody waits.
LEMMA QuietIdle ==
  ASSUME Inv, Quiet, NEW b \in on
  PROVE  /\ radio[b].flags = {} /\ radio[b].out = << >>
         /\ \A t \in Thread : pc[b][t] = "done" \/ (pc[b][t] = "got" /\ Idle(b, t))
<1>1. /\ radio[b].flags = {}
      /\ \A t \in Thread : pc[b][t] = "done" \/ (pc[b][t] = "got" /\ Idle(b, t))
  BY DEF Quiet, Ready, Idle, Rf!IRQ
<1>2. b \in Board /\ Talker(b) \in Thread
  BY TalkerIs DEF Inv, Parts
<1>3. radio[b].out # << >> => pc[b][Talker(b)] = "spin"
  BY <1>2 DEF Inv, ShapeAt
<1> QED
  BY <1>1, <1>2, <1>3

LEMMA QuietIsCalm ==
  ASSUME Inv, Peaceful, Quiet
  PROVE  orderly /\ Rests /\ \A n \in on \ {Router} : Settled(n)
<1>0. Router \in on
  BY DEF Inv, Parts
<1>1. Calm
  BY QuietRests, BusyGoesOn DEF Peaceful
<1>2. (Replied \/ Harmless) /\ radio[Router].flags = {} /\ radio[Router].out = << >>
  BY <1>0, <1>1, QuietIdle DEF Calm
<1>3. /\ pc[Router]["nm"] = "got" /\ Idle(Router, "nm")
      /\ pc[Router]["reg"] = "got" /\ Idle(Router, "reg")
  BY <1>0, <1>2, QuietIdle, ThreadsAre DEF Replied, Harmless
<1>4. radio[Router].fifo = << >>
  BY <1>2, <1>3 DEF Replied, Harmless
<1> QED
  BY <1>1, <1>2, <1>3, <1>4 DEF Peaceful, Calm, Rests

LEMMA FreshRequests ==
  ASSUME NEW n \in Node, IsFresh(n)'
  PROVE  Requesting(n)'
<1>1. Rf!FreshChip.out = << >> /\ Rf!FreshChip.fifo = << >> /\ Rf!FreshChip.flags = {}
  BY DEF Rf!FreshChip
<1> QED
  BY <1>1, NodeIs DEF IsFresh, Fresh, Requesting, Idle

-----------------------------------------------------------------------------
(* Every step *)

LEMMA SettledStays ==
  ASSUME NEW n, Settled(n), Untouched(n), addr'[n] = addr[n]
  PROVE  Settled(n)'
BY RegisteredStays, ListensStays DEF Settled

\* The steps of a thread of n ...
LEMMA NodeActsPeaceful ==
  ASSUME Known, Peaceful, NEW n \in Node, NodeActs(n)
  PROVE  Peaceful'
<1>1. /\ Inv /\ Alone(n) /\ n \in on \ {Router} /\ on' = on /\ orderly' = orderly
      /\ orderly /\ Router \in Board /\ Untouched(Router)
  BY NodeActsAlone, NodeIs, RouterIs DEF Known, Alone, Peaceful
<1>2. \A m \in on \ {Router, n} : m \in Node /\ Untouched(m) /\ addr'[m] = addr[m]
  BY <1>1 DEF Alone, Inv, Parts, Board
<1>3. CASE Calm
  <2>1. Settled(n)'
    BY <1>1, <1>3, SettledActs DEF Calm
  <2>2. \A m \in on \ {Router, n} : Settled(m)'
    BY <1>2, <1>3, SettledStays DEF Calm
  <2>3. Replied' \/ Harmless'
    BY <1>1, <1>3, RepliedStays, HarmlessStays DEF Calm
  <2> QED
    BY <1>1, <2>1, <2>2, <2>3 DEF Peaceful, Calm
<1>4. ASSUME NEW a \in on \ {Router}, a # n, Busy(a)
      PROVE  Peaceful'
  <2>1. Settled(n) /\ Untouched(a) /\ addr'[a] = addr[a]
    BY <1>1, <1>2, <1>4 DEF Busy
  <2>2. Settled(n)'
    BY <2>1, SettledActs
  <2>3. \A m \in on \ {Router, a} : Settled(m)'
    BY <1>2, <1>4, <2>2, SettledStays DEF Busy
  <2>4. \/ Requesting(a)' /\ Rests'
        \/ Waiting(a)' /\ Handling(a)'
        \/ Answered(a)' /\ Replied'
        \/ Confirming(a)' /\ Replied'
    BY <1>1, <1>4, <2>1, RequestingStays, RestsStays, WaitingStays, HandlingStays,
       AnsweredStays, ConfirmingStays, RepliedStays DEF Busy
  <2> QED
    BY <1>1, <2>3, <2>4 DEF Peaceful, Busy
<1>5. CASE Busy(n)
  <2>1. \A m \in on \ {Router, n} : Settled(m)'
    BY <1>2, <1>5, SettledStays DEF Busy
  <2>2. CASE Requesting(n) /\ Rests
    BY <1>1, <2>1, <2>2, RequestingActs, RestsStays DEF Peaceful, Busy
  <2>3. CASE Waiting(n) /\ Handling(n)
    BY <1>1, <2>1, <2>3, WaitingActs, HandlingStays DEF Peaceful, Busy
  <2>4. CASE Answered(n) /\ Replied
    BY <1>1, <2>1, <2>4, AnsweredActs, RepliedStays DEF Peaceful, Busy
  <2>5. CASE Confirming(n) /\ Replied
    <3>1. (Confirming(n)' \/ Settled(n)') /\ Replied'
      BY <1>1, <2>5, ConfirmingActs, RepliedStays
    <3>2. CASE Confirming(n)'
      BY <1>1, <2>1, <3>1, <3>2 DEF Peaceful, Busy
    <3>3. CASE Settled(n)'
      BY <1>1, <2>1, <3>1, <3>3 DEF Peaceful, Calm
    <3> QED
      BY <3>1, <3>2, <3>3
  <2> QED
    BY <1>5, <2>2, <2>3, <2>4, <2>5 DEF Busy
<1> QED
  BY <1>3, <1>4, <1>5 DEF Peaceful

\* ... of the router ...
LEMMA RouterActsPeaceful ==
  ASSUME Known, Peaceful, RouterActs
  PROVE  Peaceful'
<1>1. Inv /\ Alone(Router) /\ on' = on /\ orderly' = orderly /\ orderly
  BY RouterActsAlone DEF Known, Alone, Peaceful
<1>2. \A m \in on \ {Router} : m \in Node /\ Untouched(m) /\ addr'[m] = addr[m]
  BY <1>1, Boards DEF Alone, Inv, Parts, Board
<1>3. CASE Calm
  <2>1. \A m \in on \ {Router} : Settled(m)'
    BY <1>2, <1>3, SettledStays DEF Calm
  <2>2. Replied' \/ Harmless'
    BY <1>1, <1>3, RepliedActs, HarmlessActs DEF Calm
  <2> QED
    BY <1>1, <2>1, <2>2 DEF Peaceful, Calm
<1>4. ASSUME NEW a \in on \ {Router}, Busy(a)
      PROVE  Peaceful'
  <2>1. \A m \in on \ {Router, a} : Settled(m)'
    BY <1>2, <1>4, SettledStays DEF Busy
  <2>2. ~(Requesting(a) /\ Rests)
    BY <1>1, RestsActs
  <2>3. CASE Waiting(a) /\ Handling(a)
    BY <1>1, <1>2, <2>1, <2>3, WaitingStays, HandlingActs DEF Peaceful, Busy
  <2>4. CASE Answered(a) /\ Replied
    BY <1>1, <1>2, <2>1, <2>4, AnsweredStays, RepliedActs DEF Peaceful, Busy
  <2>5. CASE Confirming(a) /\ Replied
    BY <1>1, <1>2, <2>1, <2>5, ConfirmingStays, RepliedActs DEF Peaceful, Busy
  <2> QED
    BY <1>4, <2>2, <2>3, <2>4, <2>5 DEF Busy
<1> QED
  BY <1>3, <1>4 DEF Peaceful

\* ... and the air.
LEMMA TransmitPeaceful ==
  ASSUME Known, OffFresh, Peaceful, NEW b \in Board, Transmit(b), faults' = 0
  PROVE  Peaceful'
<1>1. /\ Inv /\ Keeps /\ on' = on /\ orderly' = orderly /\ orderly /\ b \in on /\ Gone(b)
      /\ \A o \in on \ {b} : Gets(o, radio[b].out[1])
      /\ Router \in on
  BY CleanTransmit DEF Known, Keeps, Peaceful, Inv, Parts
<1>2. radio[b].out # << >>
  BY <1>1 DEF Gone
<1>3. ~Calm
  BY <1>1, <1>2 DEF Calm, Replied, Harmless, Settled, Listens
<1>4. ASSUME NEW a \in on \ {Router}, Busy(a)
      PROVE  Peaceful'
  <2>1. b = Router \/ b = a
    BY <1>1, <1>2, <1>4 DEF Busy, Settled, Listens
  <2>2. \A m \in on \ {Router, a} : Settled(m)'
    BY <1>1, <1>4, <2>1, SettledGets DEF Busy
  <2>3. CASE b = Router
    <3>1. Waiting(a) /\ Handling(a)
      BY <1>2, <1>4, <2>3 DEF Busy, Rests, Replied
    <3>2. Replied' /\ Acknowledges(radio[Router].out[1], a)
      BY <1>1, <2>3, <3>1, HandlingSends
    <3>3. Answered(a)'
      BY <1>1, <2>3, <3>1, <3>2, WaitingGets
    <3> QED
      BY <1>1, <2>2, <3>2, <3>3 DEF Peaceful, Busy
  <2>4. CASE b = a
    <3>1. (Requesting(a) /\ Rests) \/ (Confirming(a) /\ Replied)
      BY <1>2, <1>4, <2>4 DEF Busy, Waiting, Answered, Listens
    <3>2. CASE Requesting(a) /\ Rests
      <4>1. Waiting(a)' /\ Requests(radio[a].out[1], a)
        BY <1>1, <2>4, <3>2, RequestingSends
      <4>2. Handling(a)'
        BY <1>1, <2>4, <3>2, <4>1, RestsGets
      <4> QED
        BY <1>1, <2>2, <4>1, <4>2 DEF Peaceful, Busy
    <3>3. CASE Confirming(a) /\ Replied
      <4>1. Settled(a)' /\ Confirms(radio[a].out[1])
        BY <1>1, <2>4, <3>3, ConfirmingSends
      <4>2. Harmless'
        BY <1>1, <2>4, <3>3, <4>1, RepliedGets
      <4> QED
        BY <1>1, <2>2, <4>1, <4>2 DEF Peaceful, Calm
    <3> QED
      BY <3>1, <3>2, <3>3
  <2> QED
    BY <2>1, <2>3, <2>4
<1> QED
  BY <1>3, <1>4 DEF Peaceful

\* A node that starts, or starts again, while nobody has anything to do.
LEMMA BeginsPeaceful ==
  ASSUME Inv, Peaceful, Quiet, NEW n \in Node, orderly' = orderly, on' = on \cup {n},
         IsFresh(n)', Untouched(Router),
         \A m \in on \ {Router, n} : Untouched(m) /\ addr'[m] = addr[m]
  PROVE  Peaceful'
<1>1. orderly /\ Rests /\ \A m \in on \ {Router} : Settled(m)
  BY QuietIsCalm
<1>2. \A m \in on \ {Router, n} : Settled(m)'
  BY <1>1, SettledStays
<1>3. Rests' /\ n # Router
  BY <1>1, RestsStays, Boards
<1>4. Requesting(n)'
  BY FreshRequests
<1> QED
  BY <1>1, <1>2, <1>3, <1>4 DEF Peaceful, Busy

LEMMA NoFaultCosts ==
  ASSUME Inv, NEW w \in {Light, Heavy}, Fault(w)
  PROVE  faults' # 0
BY DEF Inv, Parts, Fault, Light, Heavy

LEMMA StartPeaceful ==
  ASSUME Inv, OffFresh, Peaceful, NEW n \in Node, Start(n), faults' = 0
  PROVE  Peaceful'
<1>1. /\ Quiet /\ on' = on \cup {n} /\ n \notin on
      /\ UNCHANGED << orderly, event, radio, recv, send, pc, cur, addr, pool, restarts >>
  BY NoFaultCosts DEF Start
<1>2. \A m : Untouched(m)
  BY <1>1 DEF Untouched
<1>3. IsFresh(n) /\ IsFresh(n)'
  BY <1>1, <1>2, FreshStays DEF OffFresh
<1> QED
  BY <1>1, <1>2, <1>3, BeginsPeaceful

LEMMA RestartNodePeaceful ==
  ASSUME Inv, Peaceful, NEW n \in Node, RestartNode(n), faults' = 0
  PROVE  Peaceful'
<1>1. /\ Quiet /\ n \in on /\ on' = on /\ orderly' = orderly
      /\ Reset(n) /\ addr' = [addr EXCEPT ![n] = 0] /\ n \in Board /\ n # Router
  BY NoFaultCosts, Boards DEF RestartNode
<1>2. IsFresh(n)' /\ \A o \in Board \ {n} : Untouched(o)
  BY <1>1, ResetDoes DEF Inv, Untouched
<1>3. /\ Untouched(Router)
      /\ \A m \in on \ {Router, n} : Untouched(m) /\ addr'[m] = addr[m]
  BY <1>1, <1>2, Boards DEF Inv, Parts, Board
<1>4. on' = on \cup {n}
  BY <1>1
<1> QED
  BY <1>1, <1>2, <1>3, <1>4, BeginsPeaceful

LEMMA PeacefulNext ==
  ASSUME Known, Registering, [Next]_vars, faults' = 0
  PROVE  Peaceful'
<1>1. Inv /\ OffFresh /\ faults \in Nat
  BY DEF Known, Registering, Inv, Parts
<1>2. ASSUME faults = 0 => Peaceful, NEW n \in Node, NodeActs(n)
      PROVE  Peaceful'
  <2>1. faults' = faults
    BY <1>1, <1>2, NodeActsAlone DEF Alone
  <2> QED
    BY <1>2, <2>1, NodeActsPeaceful
<1>3. ASSUME faults = 0 => Peaceful, RouterActs
      PROVE  Peaceful'
  <2>1. faults' = faults
    BY <1>1, <1>3, RouterActsAlone DEF Alone
  <2> QED
    BY <1>3, <2>1, RouterActsPeaceful
<1>4. CASE \E b \in Board : RxFlush(b) \/ TxEnd(b, Talker(b)) \/ Transmit(b)
  <2>1. PICK b \in Board : RxFlush(b) \/ TxEnd(b, Talker(b)) \/ Transmit(b)
    BY <1>4
  <2>2. CASE Transmit(b)
    BY <1>1, <2>2, CleanTransmit, TransmitPeaceful DEF Registering
  <2>3. CASE (RxFlush(b) \/ TxEnd(b, Talker(b))) /\ b = Router
    BY <1>3, <2>3, RouterIs DEF RouterActs, Registering
  <2>4. CASE (RxFlush(b) \/ TxEnd(b, Talker(b))) /\ b \in Node
    BY <1>2, <2>4, NodeIs DEF NodeActs, Registering
  <2> QED
    BY <2>1, <2>2, <2>3, <2>4 DEF Board
<1>5. CASE \E n \in Node : NodeAsks(n) \/ NodeLooks(n) \/ NodeTakes(n) \/ NodeDecides(n)
  BY <1>2, <1>5 DEF NodeActs, Registering
<1>6. CASE RouterReceives \/ RouterLooks \/ RouterCopies \/ RouterAnswers
  BY <1>3, <1>6 DEF RouterActs, Registering
<1>7. ~RouterFails /\ ~RestartRouter /\ \A b \in Board, t \in Thread : ~Preempt(b, t)
  BY <1>1, NoFaultCosts DEF RouterFails, RestartRouter, Preempt
<1>8. CASE \E n \in Node : Start(n) \/ RestartNode(n)
  <2>1. faults = 0
    BY <1>1, <1>8, NoFaultCosts DEF Start, RestartNode, NoFault
  <2> QED
    BY <1>1, <1>8, <2>1, StartPeaceful, RestartNodePeaceful DEF Registering
<1>9. CASE UNCHANGED vars
  <2>1. UNCHANGED << faults, orderly, on, event, radio, recv, send, pc, cur, addr, pool,
                     restarts >>
    BY <1>9 DEF vars
  <2>2. \A b : Untouched(b) /\ addr'[b] = addr[b]
    BY <2>1 DEF Untouched
  <2>3. Peaceful
    BY <2>1 DEF Registering
  <2>4. CASE Calm
    BY <2>1, <2>2, <2>3, <2>4, SettledStays, RepliedStays, HarmlessStays DEF Peaceful, Calm
  <2>5. ASSUME NEW a \in on \ {Router}, Busy(a)
        PROVE  Busy(a)'
    BY <2>1, <2>2, <2>5, SettledStays, RequestingStays, RestsStays, WaitingStays,
       HandlingStays, AnsweredStays, ConfirmingStays, RepliedStays DEF Busy
  <2> QED
    BY <2>1, <2>3, <2>4, <2>5 DEF Peaceful
<1> QED
  BY <1>4, <1>5, <1>6, <1>7, <1>8, <1>9, Steps

LEMMA AloneFresh ==
  ASSUME OffFresh, NEW b \in Board, Alone(b)
  PROVE  OffFresh'
BY FreshStays, Boards DEF OffFresh, Alone

LEMMA StillFresh ==
  ASSUME OffFresh, on \subseteq on', \A o \in Node \ on : Untouched(o)
  PROVE  OffFresh'
BY FreshStays DEF OffFresh

LEMMA OffFreshNext ==
  ASSUME Inv, OffFresh, [Next]_vars
  PROVE  OffFresh'
<1>1. CASE \E b \in Board : RxFlush(b) \/ TxEnd(b, Talker(b)) \/ Transmit(b)
  <2>1. PICK b \in Board : RxFlush(b) \/ TxEnd(b, Talker(b)) \/ Transmit(b)
    BY <1>1
  <2>2. CASE Transmit(b)
    BY <2>2, OnlyOnTransmit, StillFresh, Boards
  <2> QED
    BY <2>1, <2>2, FlushAlone, TxEndAlone, TalkerIs, AloneFresh
<1>2. CASE \E n \in Node : NodeAsks(n) \/ NodeLooks(n) \/ NodeTakes(n) \/ NodeDecides(n)
  BY <1>2, NodeActsAlone, AloneFresh, Boards DEF NodeActs
<1>3. CASE RouterReceives \/ RouterLooks \/ RouterCopies \/ RouterAnswers
  BY <1>3, RouterActsAlone, AloneFresh, Boards DEF RouterActs
<1>4. CASE RouterFails
  <2>1. /\ Router \in on /\ on' = on
        /\ \A o \in Board \ {Router} : event'[o] = event[o] /\ pc'[o] = pc[o] /\ cur'[o] = cur[o]
        /\ UNCHANGED << radio, recv, send >>
    BY <1>4, RouterFailsDoes DEF Asks, Moved, Inv, Parts
  <2> QED
    BY <2>1, StillFresh, Boards DEF Untouched
<1>5. CASE \E b \in Board, t \in Thread : Preempt(b, t)
  <2>1. PICK b \in on : cur' = [cur EXCEPT ![b] = cur'[b]]
                        /\ UNCHANGED << on, event, radio, recv, send, pc >>
    BY <1>5 DEF Preempt, Ready, Inv, Parts
  <2>2. \A o \in Board \ {b} : cur'[o] = cur[o]
    BY <2>1 DEF Inv, Parts
  <2> QED
    BY <2>1, <2>2, StillFresh, Boards DEF Untouched
<1>6. CASE \E n \in Node : Start(n)
  BY <1>6, StillFresh DEF Start, Untouched
<1>7. CASE \E n \in Node : RestartNode(n)
  <2>1. PICK n \in Node : n \in on /\ on' = on /\ Reset(n)
    BY <1>7 DEF RestartNode
  <2> QED
    BY <2>1, ResetDoes, StillFresh, Boards DEF Untouched, Inv
<1>8. CASE RestartRouter
  <2>1. Router \in on /\ on' = on /\ Reset(Router)
    BY <1>8 DEF RestartRouter, Inv, Parts
  <2> QED
    BY <2>1, ResetDoes, StillFresh, Boards DEF Untouched, Inv
<1>9. CASE UNCHANGED vars
  BY <1>9, StillFresh DEF vars, Untouched
<1> QED
  BY <1>1, <1>2, <1>3, <1>4, <1>5, <1>6, <1>7, <1>8, <1>9, Steps

LEMMA RegisteringInit == Init => Registering
<1> SUFFICES ASSUME Init
             PROVE  Registering
  OBVIOUS
<1>1. /\ on = {Router} /\ orderly = TRUE /\ Router \in Board
      /\ event = [b \in Board |-> StartEvent(b)] /\ radio = [b \in Board |-> Rf!FreshChip]
      /\ recv = [b \in Board |-> NoPacket] /\ send = [b \in Board |-> NoPacket]
      /\ pc = [b \in Board |-> StartPc(b)] /\ cur = [b \in Board |-> "none"]
  BY Boards DEF Init
<1>2. \A b \in Board : IsFresh(b)
  BY <1>1, StartEventIs, StartPcIs DEF IsFresh
<1>3. OffFresh
  BY <1>2, Boards DEF OffFresh
<1>4. /\ Rf!FreshChip.out = << >> /\ Rf!FreshChip.fifo = << >>
      /\ Rf!FreshChip.flags = {}
  BY DEF Rf!FreshChip
<1>5. Harmless
  <2>1. /\ radio[Router].out = << >> /\ radio[Router].fifo = << >>
        /\ radio[Router].flags = {}
    BY <1>1, <1>2, <1>4 DEF IsFresh
  <2>2. /\ pc[Router]["nm"] = "got" /\ pc[Router]["reg"] = "got"
        /\ Fresh(Router, event[Router])
    BY <1>1, <1>2 DEF IsFresh
  <2>3. Idle(Router, "reg") /\ event[Router].set = {}
    BY <2>2 DEF Fresh, Idle
  <2> QED
    BY <2>1, <2>2, <2>3 DEF Harmless
<1>6. Calm
  BY <1>1, <1>5 DEF Calm
<1> QED
  BY <1>1, <1>3, <1>6 DEF Registering, Peaceful

LEMMA RegisteringNext == Known /\ Registering /\ [Next]_vars => Registering'
BY OffFreshNext, PeacefulNext DEF Registering, Known

\* If nothing comes in the way, the network never comes to rest with a node that was
\* started and has no address, or whose non_init was not told that it has one: no
\* event is sent before somebody can hear it, and no thread is left with a pin that
\* stays high, whatever flags are cleared with the wrong status.
THEOREM AllRegister == Spec => []RestsRegistered
<1>1. Known /\ Registering => RestsRegistered
  <2> SUFFICES ASSUME Known, Registering, faults = 0, AtRest, NEW n \in on \ {Router}
               PROVE  addr[n] # 0 /\ "REG_SUCCESS" \in event[n].set
    BY DEF RestsRegistered
  <2>1. Calm
    BY BusyGoesOn DEF Known, Registering, Peaceful
  <2> QED
    BY <2>1 DEF Calm, Settled, Registered
<1> QED
  BY <1>1, KnownInit, KnownNext, RegisteringInit, RegisteringNext, PTL DEF Spec
====

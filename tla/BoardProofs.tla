---------------------------- MODULE BoardProofs ----------------------------
(***************************************************************************)
(* What the operations of RtEvent and Radio do, for any set of flags and   *)
(* at most two waiting threads: RtEvent serves its waiters by folding over *)
(* their list, and here each way that can go is worked out once.  The      *)
(* proofs about Network and NonLink instantiate this module.               *)
(***************************************************************************)
EXTENDS RtEvent, Radio, Integers, SequenceTheorems, TLAPS

LEMMA MaxOfFew == Max({1}) = 1 /\ Max({2}) = 2 /\ Max({1, 2}) = 2
<1>1. Max({1}) = 1
  BY DEF Max
<1>2. Max({2}) = 2
  BY DEF Max
<1>3. Max({1, 2}) = 2
  <2>1. \E x \in {1, 2} : \A y \in {1, 2} : x >= y
    OBVIOUS
  <2>2. \A x \in {1, 2} : (\A y \in {1, 2} : x >= y) => x = 2
    OBVIOUS
  <2> QED
    BY <2>1, <2>2 DEF Max
<1> QED
  BY <1>1, <1>2, <1>3

LEMMA SetsOfTwo == {1} \ {1} = {} /\ {1, 2} \ {2} = {1} /\ {2} \ {2} = {}
OBVIOUS

Given(e, flags) == [set |-> e.set \cup flags, wait |-> << >>, got |-> e.got]

LEMMA SendToNobody ==
  ASSUME NEW e, e.wait = << >>, NEW flags
  PROVE  rt_event_send(e, flags) = Given(e, flags)
<1> DEFINE base == Given(e, flags)
           F(iter) == [s \in SUBSET {} |->
                         IF s = {} THEN base
                         ELSE Visit(iter[s \ {Max(s)}], e.wait[Max(s)])]
           it == CHOOSE iter : iter = F(iter)
           g == [s \in SUBSET {} |-> base]
<1>1. rt_event_send(e, flags) = it[{}]
  BY DEF rt_event_send, FoldLeft, MapThenFoldSet, Given
<1> HIDE DEF base
<1>2. g = F(g)
  OBVIOUS
<1> HIDE DEF g
<1>3. it = F(it)
  BY <1>2
<1> HIDE DEF it
<1>4. it[{}] = base
  BY <1>3
<1> QED
  BY <1>1, <1>4 DEF base

LEMMA SendToOne ==
  ASSUME NEW e, NEW w, e.wait = << w >>, NEW flags
  PROVE  rt_event_send(e, flags) = Visit(Given(e, flags), w)
<1> DEFINE base == Given(e, flags)
           F(iter) == [s \in SUBSET {1} |->
                         IF s = {} THEN base
                         ELSE Visit(iter[s \ {Max(s)}], e.wait[Max(s)])]
           it == CHOOSE iter : iter = F(iter)
           g == [s \in SUBSET {1} |-> IF s = {} THEN base ELSE Visit(base, w)]
<1>0. DOMAIN e.wait = {1} /\ e.wait[1] = w
  OBVIOUS
<1>1. rt_event_send(e, flags) = it[{1}]
  BY <1>0 DEF rt_event_send, FoldLeft, MapThenFoldSet, Given
<1> HIDE DEF base
<1>2. g = F(g)
  <2>1. \A s \in SUBSET {1} : s = {} \/ s = {1}
    OBVIOUS
  <2>2. F(g)[{1}] = Visit(g[{1} \ {1}], w) /\ F(g)[{}] = base
    BY <1>0, MaxOfFew
  <2>3. g[{}] = base /\ g[{1}] = Visit(base, w)
    OBVIOUS
  <2>4. \A s \in SUBSET {1} : g[s] = F(g)[s]
    BY <2>1, <2>2, <2>3, SetsOfTwo
  <2> QED
    BY <2>4
<1> HIDE DEF g
<1>3. it = F(it)
  BY <1>2
<1> HIDE DEF it
<1>4. it[{}] = base
  BY <1>3
<1>5. it[{1}] = Visit(it[{}], w)
  <2>1. F(it)[{1}] = Visit(it[{1} \ {1}], w)
    BY <1>0, MaxOfFew
  <2> HIDE DEF F
  <2> QED
    BY <1>3, <2>1, SetsOfTwo
<1> QED
  BY <1>1, <1>4, <1>5 DEF base

LEMMA SendToTwo ==
  ASSUME NEW e, NEW v, NEW w, e.wait = << v, w >>, NEW flags
  PROVE  rt_event_send(e, flags) = Visit(Visit(Given(e, flags), v), w)
<1> DEFINE base == Given(e, flags)
           F(iter) == [s \in SUBSET {1, 2} |->
                         IF s = {} THEN base
                         ELSE Visit(iter[s \ {Max(s)}], e.wait[Max(s)])]
           it == CHOOSE iter : iter = F(iter)
           g == [s \in SUBSET {1, 2} |->
                   IF s = {} THEN base
                   ELSE IF s = {1} THEN Visit(base, v)
                   ELSE IF s = {2} THEN Visit(base, w)
                   ELSE Visit(Visit(base, v), w)]
<1>0. DOMAIN e.wait = {1, 2} /\ e.wait[1] = v /\ e.wait[2] = w
  OBVIOUS
<1>1. rt_event_send(e, flags) = it[{1, 2}]
  BY <1>0 DEF rt_event_send, FoldLeft, MapThenFoldSet, Given
<1> HIDE DEF base
<1>2. g = F(g)
  <2>1. \A s \in SUBSET {1, 2} : s \in {{}, {1}, {2}, {1, 2}}
    OBVIOUS
  <2>2. F(g)[{1}] = Visit(g[{}], v) /\ F(g)[{2}] = Visit(g[{}], w)
    BY <1>0, MaxOfFew
  <2>3. F(g)[{1, 2}] = Visit(g[{1}], w)
    <3>1. {1, 2} \ {2} = {1}
      OBVIOUS
    <3> QED
      BY <1>0, <3>1, MaxOfFew
  <2> QED
    BY <2>1, <2>2, <2>3
<1> HIDE DEF g
<1>3. it = F(it)
  BY <1>2
<1> HIDE DEF it
<1>4. it[{}] = base
  BY <1>3
<1>5. it[{1}] = Visit(it[{}], v)
  <2>1. F(it)[{1}] = Visit(it[{1} \ {1}], v)
    BY <1>0, MaxOfFew
  <2> HIDE DEF F
  <2> QED
    BY <1>3, <2>1, SetsOfTwo
<1>6. it[{1, 2}] = Visit(it[{1}], w)
  <2>1. {1, 2} \ {2} = {1}
    OBVIOUS
  <2> QED
    BY <1>0, <1>3, <2>1, MaxOfFew
<1> QED
  BY <1>1, <1>4, <1>5, <1>6 DEF base

-----------------------------------------------------------------------------
(* What the three calls do to a list in which nobody waits twice, nor two    *)
(* for the same flag *)

Waits(e) == {e.wait[i] : i \in 1 .. Len(e.wait)}

Apart(v, w) == v.thread # w.thread /\ v.mask \cap w.mask = {}

Tidy(e) ==
  /\ e \in Event /\ Len(e.wait) <= 2
  /\ \A i, j \in 1 .. Len(e.wait) : i # j => Apart(e.wait[i], e.wait[j])

Due(e, flags) == {w \in Waits(e) : Satisfied(e.set \cup flags, w.mask, w.all)}

LEMMA EventIs ==
  ASSUME NEW S \in SUBSET Flags, NEW q \in Seq(Wait), NEW g \in [Threads -> SUBSET Flags]
  PROVE  [set |-> S, wait |-> q, got |-> g] \in Event
BY DEF Event

LEMMA EventHas ==
  ASSUME NEW e \in Event
  PROVE  /\ e.set \in SUBSET Flags /\ e.wait \in Seq(Wait)
         /\ e.got \in [Threads -> SUBSET Flags]
         /\ e = [set |-> e.set, wait |-> e.wait, got |-> e.got]
BY DEF Event

LEMMA WaitHas ==
  ASSUME NEW w \in Wait
  PROVE  w.thread \in Threads /\ w.mask \in SUBSET Flags /\ w.all \in BOOLEAN
BY DEF Wait

LEMMA GotExcept ==
  ASSUME NEW g \in [Threads -> SUBSET Flags], NEW t \in Threads, NEW x
  PROVE  /\ [g EXCEPT ![t] = x][t] = x
         /\ \A u \in Threads : u # t => [g EXCEPT ![t] = x][u] = g[u]
OBVIOUS

LEMMA AppendsToFew ==
  ASSUME NEW v \in Wait, NEW w \in Wait
  PROVE  Append(<< >>, w) = << w >> /\ Append(<< v >>, w) = << v, w >>
<1>1. Append(<< >>, w) = << w >>
  OBVIOUS
<1>2. Append(<< v >>, w) = << v, w >>
  <2> DEFINE p == Append(<< v >>, w)
             q == << v, w >>
  <2>1. << v >> \in Seq(Wait) /\ Len(<< v >>) = 1 /\ << v >>[1] = v
    OBVIOUS
  <2>2. p \in Seq(Wait) /\ Len(p) = 2 /\ p[1] = v /\ p[2] = w
    BY <2>1
  <2>3. q \in Seq(Wait) /\ Len(q) = 2 /\ q[1] = v /\ q[2] = w
    OBVIOUS
  <2> HIDE DEF p, q
  <2>4. \A i \in 1 .. 2 : p[i] = q[i]
    BY <2>2, <2>3
  <2>5. p = q
    BY <2>2, <2>3, <2>4
  <2> QED
    BY <2>5 DEF p, q
<1> QED
  BY <1>1, <1>2

LEMMA VisitTakes ==
  ASSUME NEW e \in Event, NEW w \in Wait, Satisfied(e.set, w.mask, w.all)
  PROVE  Visit(e, w) =
           [set |-> e.set \ w.mask, wait |-> e.wait,
            got |-> [e.got EXCEPT ![w.thread] = w.mask \cap e.set]]
BY DEF Visit, Event, Wait

LEMMA VisitLeaves ==
  ASSUME NEW e \in Event, NEW w \in Wait, ~Satisfied(e.set, w.mask, w.all)
  PROVE  Visit(e, w) = [set |-> e.set, wait |-> Append(e.wait, w), got |-> e.got]
BY DEF Visit, Event, Wait

LEMMA GivenType ==
  ASSUME NEW e \in Event, NEW flags \in SUBSET Flags
  PROVE  Given(e, flags) \in Event
<1>1. e.set \in SUBSET Flags /\ e.got \in [Threads -> SUBSET Flags]
  BY EventHas
<1>2. e.set \cup flags \in SUBSET Flags /\ << >> \in Seq(Wait)
  BY <1>1
<1> QED
  BY <1>1, <1>2, EventIs DEF Given

LEMMA VisitType ==
  ASSUME NEW e \in Event, NEW w \in Wait
  PROVE  Visit(e, w) \in Event
<1>0. /\ w.mask \cap e.set \in SUBSET Flags /\ e.set \ w.mask \in SUBSET Flags
      /\ w.thread \in Threads
      /\ e.set \in SUBSET Flags /\ e.wait \in Seq(Wait) /\ e.got \in [Threads -> SUBSET Flags]
  BY EventHas, WaitHas
<1>1. CASE Satisfied(e.set, w.mask, w.all)
  <2> DEFINE g == [e.got EXCEPT ![w.thread] = w.mask \cap e.set]
             r == [set |-> e.set \ w.mask, wait |-> e.wait, got |-> g]
  <2>1. g \in [Threads -> SUBSET Flags]
    BY <1>0
  <2>2. r \in Event
    <3> HIDE DEF g
    <3> QED
      BY <1>0, <2>1, EventIs
  <2>3. Visit(e, w) = r
    BY <1>1, VisitTakes
  <2> QED
    BY <2>2, <2>3
<1>2. CASE ~Satisfied(e.set, w.mask, w.all)
  <2> DEFINE r == [set |-> e.set, wait |-> Append(e.wait, w), got |-> e.got]
  <2>1. Append(e.wait, w) \in Seq(Wait)
    BY <1>0
  <2>2. r \in Event
    BY <1>0, <2>1, EventIs
  <2>3. Visit(e, w) = r
    BY <1>2, VisitLeaves
  <2> HIDE DEF r
  <2> QED
    BY <2>2, <2>3
<1> QED
  BY <1>1, <1>2

LEMMA SatisfiedApart ==
  ASSUME NEW S, NEW v, NEW w, Apart(v, w)
  PROVE  Satisfied(S \ v.mask, w.mask, w.all) <=> Satisfied(S, w.mask, w.all)
BY DEF Satisfied, Apart

LEMMA UpToTwo ==
  ASSUME NEW n \in Nat, n <= 2
  PROVE  n = 0 \/ n = 1 \/ n = 2
OBVIOUS

LEMMA ListsOfTwo ==
  ASSUME NEW q \in Seq(Wait), Len(q) <= 2
  PROVE  \/ q = << >>
         \/ \E w \in Wait : q = << w >>
         \/ \E v, w \in Wait : q = << v, w >>
<1>1. CASE Len(q) = 0
  BY <1>1
<1>2. CASE Len(q) = 1
  <2>1. q[1] \in Wait
    <3>1. \A i \in 1 .. Len(q) : q[i] \in Wait
      OBVIOUS
    <3>2. 1 \in 1 .. Len(q)
      BY <1>2
    <3> QED
      BY <3>1, <3>2
  <2>2. q = << q[1] >>
    <3> DEFINE p == << q[1] >>
    <3>1. p \in Seq(Wait) /\ Len(p) = 1 /\ p[1] = q[1]
      BY <2>1
    <3> HIDE DEF p
    <3>2. \A i \in 1 .. 1 : p[i] = q[i]
      BY <3>1
    <3> QED
      BY <1>2, <3>1, <3>2 DEF p
  <2> QED
    BY <2>1, <2>2
<1>3. CASE Len(q) = 2
  <2>1. q = << q[1], q[2] >> /\ q[1] \in Wait /\ q[2] \in Wait
    BY <1>3
  <2> QED
    BY <2>1
<1>4. Len(q) = 0 \/ Len(q) = 1 \/ Len(q) = 2
  <2>1. Len(q) \in Nat
    OBVIOUS
  <2> QED
    BY <2>1, UpToTwo
<1> QED
  BY <1>1, <1>2, <1>3, <1>4, Zenon

LEMMA ListsOfOne ==
  ASSUME NEW q \in Seq(Wait), Len(q) <= 1
  PROVE  q = << >> \/ \E w \in Wait : q = << w >>
<1>1. Len(q) <= 2
  BY DEF Wait
<1>2. \A v, w \in Wait : Len(<< v, w >>) = 2
  OBVIOUS
<1> QED
  BY <1>1, <1>2, ListsOfTwo

\* What a send leaves behind, r: whoever is due has the flags of its mask, and
\* nobody else has them; the others wait as before.
Served(e, flags, r) ==
  /\ Tidy(r)
  /\ Waits(r) = Waits(e) \ Due(e, flags)
  /\ \A f : f \in r.set <=> /\ f \in e.set \cup flags
                           /\ \A w \in Due(e, flags) : f \notin w.mask
  /\ \A w \in Due(e, flags) : r.got[w.thread] = w.mask \cap (e.set \cup flags)
  /\ \A t \in Threads : (\A w \in Due(e, flags) : w.thread # t) => r.got[t] = e.got[t]

LEMMA ServedNobody ==
  ASSUME NEW e \in Event, NEW flags \in SUBSET Flags, e.wait = << >>
  PROVE  Served(e, flags, rt_event_send(e, flags))
<1> DEFINE r == Given(e, flags)
<1>1. rt_event_send(e, flags) = r
  BY SendToNobody
<1>2. r \in Event /\ r.set = e.set \cup flags /\ r.wait = << >> /\ r.got = e.got
  BY GivenType DEF Given
<1>3. Waits(e) = {} /\ Waits(r) = {} /\ Due(e, flags) = {}
  BY <1>2 DEF Waits, Due
<1>4. Tidy(r)
  BY <1>2 DEF Tidy
<1> HIDE DEF r
<1> QED
  BY <1>1, <1>2, <1>3, <1>4 DEF Served

LEMMA ServedOne ==
  ASSUME NEW e \in Event, NEW flags \in SUBSET Flags,
         NEW w \in Wait, e.wait = << w >>
  PROVE  Served(e, flags, rt_event_send(e, flags))
<1> DEFINE b == Given(e, flags)
           r == Visit(b, w)
<1>1. rt_event_send(e, flags) = r
  BY SendToOne
<1>2. b \in Event /\ b.set = e.set \cup flags /\ b.wait = << >> /\ b.got = e.got
  BY GivenType DEF Given
<1> HIDE DEF b
<1>3. r \in Event
  BY <1>2, VisitType
<1>4. Waits(e) = {w}
  BY DEF Waits
<1>5. w.thread \in Threads /\ b.got \in [Threads -> SUBSET Flags]
  BY <1>2, EventHas, WaitHas
<1>6. CASE Satisfied(b.set, w.mask, w.all)
  <2>1. /\ r.set = b.set \ w.mask /\ r.wait = << >>
        /\ r.got = [b.got EXCEPT ![w.thread] = w.mask \cap b.set]
    <3>1. r = [set |-> b.set \ w.mask, wait |-> b.wait,
               got |-> [b.got EXCEPT ![w.thread] = w.mask \cap b.set]]
      BY <1>2, <1>6, VisitTakes
    <3> HIDE DEF r
    <3> QED
      BY <1>2, <3>1
  <2> HIDE DEF r
  <2>2. Due(e, flags) = {w} /\ Waits(r) = {}
    BY <1>2, <1>4, <1>6, <2>1 DEF Due, Waits
  <2>3. Tidy(r)
    BY <1>3, <2>1 DEF Tidy
  <2>4. /\ r.got[w.thread] = w.mask \cap b.set
        /\ \A t \in Threads : t # w.thread => r.got[t] = b.got[t]
    BY <1>5, <2>1
  <2> QED
    BY <1>1, <1>2, <1>4, <2>1, <2>2, <2>3, <2>4 DEF Served
<1>7. CASE ~Satisfied(b.set, w.mask, w.all)
  <2>1. r.set = b.set /\ r.wait = << w >> /\ r.got = b.got
    <3>1. r = [set |-> b.set, wait |-> Append(b.wait, w), got |-> b.got]
      BY <1>2, <1>7, VisitLeaves
    <3>2. Append(<< >>, w) = << w >>
      OBVIOUS
    <3> HIDE DEF r
    <3> QED
      BY <1>2, <3>1, <3>2
  <2> HIDE DEF r
  <2>2. Due(e, flags) = {} /\ Waits(r) = {w}
    BY <1>2, <1>4, <1>7, <2>1 DEF Due, Waits
  <2>3. Tidy(r)
    BY <1>3, <2>1 DEF Tidy
  <2> QED
    BY <1>1, <1>2, <1>4, <2>1, <2>2, <2>3 DEF Served
<1> QED
  BY <1>6, <1>7

LEMMA ServedTwo ==
  ASSUME NEW e \in Event, NEW flags \in SUBSET Flags,
         NEW v \in Wait, NEW w \in Wait, e.wait = << v, w >>, Apart(v, w)
  PROVE  Served(e, flags, rt_event_send(e, flags))
<1> DEFINE b == Given(e, flags)
           m == Visit(b, v)
           r == Visit(m, w)
<1>1. rt_event_send(e, flags) = r
  BY SendToTwo
<1>2. b \in Event /\ b.set = e.set \cup flags /\ b.wait = << >> /\ b.got = e.got
  BY GivenType DEF Given
<1> HIDE DEF b
<1>3. m \in Event
  BY <1>2, VisitType
<1>4. r \in Event
  <2> HIDE DEF m
  <2> QED
    BY <1>3, VisitType
<1>5. Waits(e) = {v, w}
  BY DEF Waits
<1>6. /\ v.thread \in Threads /\ w.thread \in Threads /\ v.thread # w.thread
      /\ v.mask \cap w.mask = {}
      /\ b.got \in [Threads -> SUBSET Flags] /\ m.got \in [Threads -> SUBSET Flags]
  BY <1>2, <1>3, EventHas, WaitHas DEF Apart
<1>7. /\ Satisfied(m.set, w.mask, w.all) <=> Satisfied(b.set, w.mask, w.all)
      /\ \/ /\ Satisfied(b.set, v.mask, v.all)
            /\ m.set = b.set \ v.mask /\ m.wait = << >>
            /\ m.got = [b.got EXCEPT ![v.thread] = v.mask \cap b.set]
         \/ /\ ~Satisfied(b.set, v.mask, v.all)
            /\ m.set = b.set /\ m.wait = << v >> /\ m.got = b.got
  <2>1. CASE Satisfied(b.set, v.mask, v.all)
    <3>1. m = [set |-> b.set \ v.mask, wait |-> b.wait,
               got |-> [b.got EXCEPT ![v.thread] = v.mask \cap b.set]]
      BY <1>2, <2>1, VisitTakes
    <3> HIDE DEF m
    <3>2. m.set = b.set \ v.mask
      BY <3>1
    <3>3. Satisfied(m.set, w.mask, w.all) <=> Satisfied(b.set, w.mask, w.all)
      BY <3>2, SatisfiedApart
    <3> QED
      BY <1>2, <2>1, <3>1, <3>3
  <2>2. CASE ~Satisfied(b.set, v.mask, v.all)
    <3>1. m = [set |-> b.set, wait |-> Append(b.wait, v), got |-> b.got]
      BY <1>2, <2>2, VisitLeaves
    <3>2. Append(<< >>, v) = << v >>
      OBVIOUS
    <3> HIDE DEF m
    <3>3. m.set = b.set /\ m.wait = << v >> /\ m.got = b.got
      BY <1>2, <3>1, <3>2
    <3> QED
      BY <2>2, <3>3
  <2> QED
    BY <2>1, <2>2
<1> HIDE DEF m
<1>8. CASE Satisfied(b.set, w.mask, w.all)
  <2>1. /\ r.set = m.set \ w.mask /\ r.wait = m.wait
        /\ r.got = [m.got EXCEPT ![w.thread] = w.mask \cap m.set]
    <3>1. r = [set |-> m.set \ w.mask, wait |-> m.wait,
               got |-> [m.got EXCEPT ![w.thread] = w.mask \cap m.set]]
      BY <1>3, <1>7, <1>8, VisitTakes
    <3> HIDE DEF r
    <3> QED
      BY <3>1
  <2> HIDE DEF r
  <2>2. w.mask \cap m.set = w.mask \cap b.set
    BY <1>6, <1>7
  <2>3. /\ r.got[w.thread] = w.mask \cap b.set
        /\ \A t \in Threads : t # w.thread => r.got[t] = m.got[t]
    BY <1>6, <2>1, <2>2
  <2>4. CASE Satisfied(b.set, v.mask, v.all)
    <3>1. r.wait = << >> /\ r.set = (b.set \ v.mask) \ w.mask
      BY <1>7, <2>1, <2>4
    <3>2. Due(e, flags) = {v, w} /\ Waits(r) = {}
      BY <1>2, <1>5, <1>8, <2>4, <3>1 DEF Due, Waits
    <3>3. Tidy(r)
      BY <1>4, <3>1 DEF Tidy
    <3>4. /\ m.got[v.thread] = v.mask \cap b.set
          /\ \A t \in Threads : t # v.thread => m.got[t] = b.got[t]
      BY <1>6, <1>7, <2>4, GotExcept
    <3> QED
      BY <1>1, <1>2, <1>5, <1>6, <2>3, <3>1, <3>2, <3>3, <3>4 DEF Served
  <2>5. CASE ~Satisfied(b.set, v.mask, v.all)
    <3>1. r.wait = << v >> /\ r.set = b.set \ w.mask /\ m.got = b.got
      BY <1>7, <2>1, <2>5
    <3>2. Due(e, flags) = {w} /\ Waits(r) = {v} /\ v # w
      BY <1>2, <1>5, <1>6, <1>8, <2>5, <3>1 DEF Due, Waits
    <3>3. Tidy(r)
      BY <1>4, <3>1 DEF Tidy
    <3> QED
      BY <1>1, <1>2, <1>5, <1>6, <2>3, <3>1, <3>2, <3>3 DEF Served
  <2> QED
    BY <2>4, <2>5
<1>9. CASE ~Satisfied(b.set, w.mask, w.all)
  <2>1. r.set = m.set /\ r.wait = Append(m.wait, w) /\ r.got = m.got
    <3>1. r = [set |-> m.set, wait |-> Append(m.wait, w), got |-> m.got]
      BY <1>3, <1>7, <1>9, VisitLeaves
    <3> HIDE DEF r
    <3> QED
      BY <3>1
  <2>2. Append(<< >>, w) = << w >> /\ Append(<< v >>, w) = << v, w >>
    BY AppendsToFew
  <2> HIDE DEF r
  <2>3. CASE Satisfied(b.set, v.mask, v.all)
    <3>1. r.wait = << w >> /\ r.set = b.set \ v.mask /\ r.got = m.got
      BY <1>7, <2>1, <2>2, <2>3
    <3>2. Due(e, flags) = {v} /\ Waits(r) = {w} /\ v # w
      BY <1>2, <1>5, <1>6, <1>9, <2>3, <3>1 DEF Due, Waits
    <3>3. Tidy(r)
      BY <1>4, <3>1 DEF Tidy
    <3>4. /\ m.got[v.thread] = v.mask \cap b.set
          /\ \A t \in Threads : t # v.thread => m.got[t] = b.got[t]
      BY <1>6, <1>7, <2>3, GotExcept
    <3> QED
      BY <1>1, <1>2, <1>5, <3>1, <3>2, <3>3, <3>4 DEF Served
  <2>4. CASE ~Satisfied(b.set, v.mask, v.all)
    <3>1. r.wait = << v, w >> /\ r.set = b.set /\ r.got = b.got
      BY <1>7, <2>1, <2>2, <2>4
    <3>2. Due(e, flags) = {} /\ Waits(r) = {v, w}
      BY <1>2, <1>5, <1>9, <2>4, <3>1 DEF Due, Waits
    <3>3. Tidy(r)
      BY <1>4, <1>6, <3>1 DEF Tidy, Apart
    <3> QED
      BY <1>1, <1>2, <1>5, <3>1, <3>2, <3>3 DEF Served
  <2> QED
    BY <2>3, <2>4
<1> QED
  BY <1>8, <1>9

\* rt_event_send serves those that are due and nobody else.
THEOREM SendServes ==
  ASSUME NEW e, Tidy(e), NEW flags \in SUBSET Flags
  PROVE  Served(e, flags, rt_event_send(e, flags))
<1>1. e \in Event /\ e.wait \in Seq(Wait) /\ Len(e.wait) <= 2
  BY EventHas DEF Tidy
<1>2. CASE e.wait = << >>
  BY <1>1, <1>2, ServedNobody
<1>3. ASSUME NEW w \in Wait, e.wait = << w >>
      PROVE  Served(e, flags, rt_event_send(e, flags))
  BY <1>1, <1>3, ServedOne
<1>4. ASSUME NEW v \in Wait, NEW w \in Wait, e.wait = << v, w >>
      PROVE  Served(e, flags, rt_event_send(e, flags))
  <2>1. Apart(v, w)
    BY <1>4 DEF Tidy
  <2> QED
    BY <1>1, <1>4, <2>1, ServedTwo
<1> QED
  BY <1>1, <1>2, <1>3, <1>4, ListsOfTwo
-----------------------------------------------------------------------------
(* To receive, and to give up *)

\* What a receive leaves behind, r: t has the flags it asked for, which are gone,
\* or has nothing and waits.
Asked(e, t, mask, all, r) ==
  /\ Tidy(r)
  /\ Satisfied(e.set, mask, all) =>
       /\ r.set = e.set \ mask /\ Waits(r) = Waits(e)
       /\ r.got[t] = mask \cap e.set
  /\ ~Satisfied(e.set, mask, all) =>
       /\ r.set = e.set
       /\ Waits(r) = Waits(e) \cup {[thread |-> t, mask |-> mask, all |-> all]}
       /\ r.got[t] = {}
  /\ \A u \in Threads : u # t => r.got[u] = e.got[u]

\* rt_event_recv does that for a thread that does not wait.
THEOREM RecvServes ==
  ASSUME NEW e, Tidy(e), Len(e.wait) <= 1,
         NEW t \in Threads, ~Suspended(e, t),
         NEW mask \in SUBSET Flags, NEW all \in BOOLEAN,
         \A w \in Waits(e) : w.mask \cap mask = {}
  PROVE  Asked(e, t, mask, all, rt_event_recv(e, t, mask, all))
<1> DEFINE r == rt_event_recv(e, t, mask, all)
           w == [thread |-> t, mask |-> mask, all |-> all]
<1>1. /\ e \in Event /\ e.set \in SUBSET Flags /\ e.wait \in Seq(Wait)
      /\ e.got \in [Threads -> SUBSET Flags]
  BY EventHas DEF Tidy
<1>2. w \in Wait /\ w.thread = t /\ w.mask = mask
  BY DEF Wait
<1>3. mask \cap e.set \in SUBSET Flags /\ {} \in SUBSET Flags /\ e.set \ mask \in SUBSET Flags
  BY <1>1
<1>4. CASE Satisfied(e.set, mask, all)
  <2> DEFINE g == [e.got EXCEPT ![t] = mask \cap e.set]
             x == [set |-> e.set \ mask, wait |-> e.wait, got |-> g]
  <2>1. r = x
    BY <1>1, <1>4 DEF rt_event_recv, Event
  <2>2. g \in [Threads -> SUBSET Flags]
    BY <1>1, <1>3
  <2>3. g[t] = mask \cap e.set /\ \A u \in Threads : u # t => g[u] = e.got[u]
    BY <1>1, GotExcept
  <2> HIDE DEF g
  <2>4. x \in Event
    BY <1>1, <1>3, <2>2, EventIs
  <2>5. x.set = e.set \ mask /\ x.wait = e.wait /\ x.got = g
    OBVIOUS
  <2> HIDE DEF x, r
  <2>6. Tidy(r) /\ Waits(r) = Waits(e)
    BY <2>1, <2>4, <2>5 DEF Tidy, Waits
  <2> QED
    BY <1>4, <2>1, <2>3, <2>5, <2>6 DEF r, Asked
<1>5. CASE ~Satisfied(e.set, mask, all)
  <2> DEFINE g == [e.got EXCEPT ![t] = {}]
             q == Append(e.wait, w)
             x == [set |-> e.set, wait |-> q, got |-> g]
  <2>1. r = x
    BY <1>1, <1>5 DEF rt_event_recv, Event
  <2>2. g \in [Threads -> SUBSET Flags]
    BY <1>1, <1>3
  <2>3. g[t] = {} /\ \A u \in Threads : u # t => g[u] = e.got[u]
    BY <1>1, GotExcept
  <2> HIDE DEF g
  <2>4. q \in Seq(Wait)
    BY <1>1, <1>2
  <2>5. x \in Event
    <3> HIDE DEF q
    <3> QED
      BY <1>1, <2>2, <2>4, EventIs
  <2>6. x.set = e.set /\ x.wait = q /\ x.got = g
    OBVIOUS
  <2>7. \/ e.wait = << >> /\ q = << w >>
        \/ \E v \in Wait : e.wait = << v >> /\ q = << v, w >>
    <3>1. e.wait = << >> \/ \E v \in Wait : e.wait = << v >>
      BY <1>1, ListsOfOne
    <3>2. CASE e.wait = << >>
      BY <1>2, <3>2, AppendsToFew
    <3>3. ASSUME NEW v \in Wait, e.wait = << v >>
          PROVE  q = << v, w >>
      BY <1>2, <3>3, AppendsToFew
    <3> QED
      BY <3>1, <3>2, <3>3
  <2> HIDE DEF x, r, q, w
  <2>8. Tidy(r) /\ Waits(r) = Waits(e) \cup {w}
    <3>1. CASE e.wait = << >> /\ q = << w >>
      BY <2>1, <2>5, <2>6, <3>1 DEF Tidy, Waits
    <3>2. ASSUME NEW v \in Wait, e.wait = << v >>, q = << v, w >>
          PROVE  Tidy(r) /\ Waits(r) = Waits(e) \cup {w}
      <4>1. Waits(e) = {v}
        BY <3>2 DEF Waits
      <4>2. v.thread # t /\ v.mask \cap mask = {}
        BY <3>2, <4>1 DEF Suspended
      <4>3. Apart(v, w) /\ Apart(w, v)
        BY <1>2, <4>2 DEF Apart
      <4>4. Len(r.wait) = 2 /\ r.wait[1] = v /\ r.wait[2] = w /\ r \in Event
        BY <2>1, <2>5, <2>6, <3>2
      <4> QED
        BY <4>1, <4>3, <4>4 DEF Tidy, Waits
    <3> QED
      BY <2>7, <3>1, <3>2
  <2> QED
    BY <1>5, <2>1, <2>3, <2>6, <2>8 DEF r, w, Asked
<1> QED
  BY <1>4, <1>5

LEMMA ListOfOne ==
  ASSUME NEW w \in Wait, NEW p \in Seq(Wait), Len(p) = 1, p[1] = w
  PROVE  p = << w >>
<1> DEFINE q == << w >>
<1>1. q \in Seq(Wait) /\ Len(q) = 1 /\ q[1] = w
  OBVIOUS
<1> HIDE DEF q
<1>2. \A i \in 1 .. Len(p) : p[i] = q[i]
  BY <1>1
<1>3. p = q
  BY <1>1, <1>2, SeqEqual
<1> QED
  BY <1>3 DEF q

LEMMA RemovesOfTwo ==
  ASSUME NEW v \in Wait, NEW w \in Wait
  PROVE  /\ RemoveAt(<< v >>, 1) = << >>
         /\ RemoveAt(<< v, w >>, 1) = << w >> /\ RemoveAt(<< v, w >>, 2) = << v >>
<1> DEFINE q == << v, w >>
<1>1. RemoveAt(<< v >>, 1) = << >>
  BY DEF RemoveAt
<1>2. q \in Seq(Wait) /\ Len(q) = 2 /\ q[1] = v /\ q[2] = w
  OBVIOUS
<1> HIDE DEF q
<1>3. /\ SubSeq(q, 1, 0) = << >> /\ SubSeq(q, 3, 2) = << >>
  BY <1>2, SubSeqEmpty
<1>4. SubSeq(q, 2, 2) \in Seq(Wait) /\ Len(SubSeq(q, 2, 2)) = 1 /\ SubSeq(q, 2, 2)[1] = w
  BY <1>2
<1>5. SubSeq(q, 1, 1) \in Seq(Wait) /\ Len(SubSeq(q, 1, 1)) = 1 /\ SubSeq(q, 1, 1)[1] = v
  BY <1>2
<1>6. SubSeq(q, 2, 2) = << w >>
  BY <1>4, ListOfOne
<1>7. SubSeq(q, 1, 1) = << v >>
  BY <1>5, ListOfOne
<1>8. << >> \o << w >> = << w >> /\ << v >> \o << >> = << v >>
  OBVIOUS
<1>9. RemoveAt(q, 1) = << w >>
  <2>1. RemoveAt(q, 1) = SubSeq(q, 1, 0) \o SubSeq(q, 2, 2)
    BY <1>2 DEF RemoveAt
  <2> QED
    BY <2>1, <1>3, <1>6, <1>8
<1>10. RemoveAt(q, 2) = << v >>
  <2>1. RemoveAt(q, 2) = SubSeq(q, 1, 1) \o SubSeq(q, 3, 2)
    BY <1>2 DEF RemoveAt
  <2> QED
    BY <2>1, <1>3, <1>7, <1>8
<1> QED
  BY <1>1, <1>9, <1>10 DEF q

\* A thread that waits is taken off the list; nothing else changes.
THEOREM TimeoutServes ==
  ASSUME NEW e, Tidy(e), NEW t \in Threads, Suspended(e, t)
  PROVE  LET r == rt_thread_timeout(e, t)
         IN  /\ Tidy(r) /\ r.set = e.set /\ r.got = e.got
             /\ Waits(r) = {w \in Waits(e) : w.thread # t}
<1> DEFINE place == CHOOSE i \in 1 .. Len(e.wait) : e.wait[i].thread = t
           q == RemoveAt(e.wait, place)
           r == rt_thread_timeout(e, t)
           x == [set |-> e.set, wait |-> q, got |-> e.got]
<1>1. /\ e \in Event /\ e.set \in SUBSET Flags /\ e.wait \in Seq(Wait)
      /\ e.got \in [Threads -> SUBSET Flags] /\ Len(e.wait) <= 2
  BY EventHas DEF Tidy
<1>2. place \in 1 .. Len(e.wait) /\ e.wait[place].thread = t
  BY DEF Suspended
<1>3. r = x
  BY <1>1 DEF rt_thread_timeout, Event
<1> HIDE DEF place
<1>4. SUFFICES /\ q \in Seq(Wait) /\ Len(q) <= 2
               /\ \A i, j \in 1 .. Len(q) : i # j => Apart(q[i], q[j])
               /\ {q[i] : i \in 1 .. Len(q)} = {w \in Waits(e) : w.thread # t}
  <2> HIDE DEF q
  <2>1. x \in Event
    BY <1>1, <1>4, EventIs
  <2>2. x.set = e.set /\ x.wait = q /\ x.got = e.got
    OBVIOUS
  <2> HIDE DEF x, r
  <2> QED
    BY <1>3, <1>4, <2>1, <2>2 DEF Tidy, Waits, r
<1>5. CASE e.wait = << >>
  BY <1>2, <1>5
<1>6. ASSUME NEW v \in Wait, e.wait = << v >>
      PROVE  /\ q \in Seq(Wait) /\ Len(q) <= 2
             /\ \A i, j \in 1 .. Len(q) : i # j => Apart(q[i], q[j])
             /\ {q[i] : i \in 1 .. Len(q)} = {w \in Waits(e) : w.thread # t}
  <2>1. place = 1 /\ Waits(e) = {v} /\ v.thread = t
    BY <1>2, <1>6 DEF Waits
  <2>2. q = << >>
    BY <1>6, <2>1, RemovesOfTwo
  <2> HIDE DEF q
  <2> QED
    BY <2>1, <2>2
<1>7. ASSUME NEW v \in Wait, NEW w \in Wait, e.wait = << v, w >>
      PROVE  /\ q \in Seq(Wait) /\ Len(q) <= 2
             /\ \A i, j \in 1 .. Len(q) : i # j => Apart(q[i], q[j])
             /\ {q[i] : i \in 1 .. Len(q)} = {y \in Waits(e) : y.thread # t}
  <2>1. Waits(e) = {v, w} /\ v.thread # w.thread
    BY <1>7 DEF Waits, Tidy, Apart
  <2>2. place = 1 \/ place = 2
    BY <1>2, <1>7
  <2>3. CASE place = 1
    <3>1. v.thread = t
      BY <1>2, <1>7, <2>3
    <3>2. q = << w >>
      <4>1. RemoveAt(<< v, w >>, 1) = << w >>
        BY RemovesOfTwo
      <4> QED
        BY <1>7, <2>3, <4>1, Zenon
    <3> HIDE DEF q
    <3> QED
      BY <2>1, <3>1, <3>2
  <2>4. CASE place = 2
    <3>1. w.thread = t
      BY <1>2, <1>7, <2>4
    <3>2. q = << v >>
      <4>1. RemoveAt(<< v, w >>, 2) = << v >>
        BY RemovesOfTwo
      <4> QED
        BY <1>7, <2>4, <4>1, Zenon
    <3> HIDE DEF q
    <3> QED
      BY <2>1, <3>1, <3>2
  <2> QED
    BY <2>2, <2>3, <2>4
<1> QED
  BY <1>1, <1>5, <1>6, <1>7, ListsOfTwo

\* Of two threads, one that does not wait leaves room for one at most.
LEMMA RoomForOne ==
  ASSUME NEW e, Tidy(e), NEW a, NEW b, Threads = {a, b},
         NEW t \in Threads, ~Suspended(e, t)
  PROVE  Len(e.wait) <= 1
<1>1. e.wait \in Seq(Wait) /\ Len(e.wait) <= 2
  BY EventHas DEF Tidy
<1>2. CASE e.wait = << >>
  BY <1>2
<1>3. ASSUME NEW w \in Wait, e.wait = << w >>
      PROVE  Len(e.wait) <= 1
  BY <1>3
<1>4. ASSUME NEW v \in Wait, NEW w \in Wait, e.wait = << v, w >>
      PROVE  FALSE
  <2>1. v.thread # w.thread /\ v.thread \in {a, b} /\ w.thread \in {a, b}
    BY <1>4, WaitHas DEF Tidy, Apart
  <2>2. v.thread # t /\ w.thread # t
    BY <1>4 DEF Suspended
  <2> QED
    BY <2>1, <2>2
<1> QED
  BY <1>1, <1>2, <1>3, <1>4, ListsOfTwo

-----------------------------------------------------------------------------
(* The radio *)

LEMMA NoPackets == << >> \in Seq(Packet)
OBVIOUS

LEMMA ChipHas ==
  ASSUME NEW c \in Chip
  PROVE  /\ c.mode \in {"rx", "tx"} /\ c.fifo \in Seq(Packet) /\ c.out \in Seq(Packet)
         /\ c.flags \in SUBSET {"RX_DR", "TX_DS"}
BY DEF Chip

LEMMA StartTxIs ==
  ASSUME NEW c \in Chip, NEW p \in Packet
  PROVE  LET r == StartTx(c, p)
         IN  /\ r \in Chip /\ r.mode = "tx" /\ r.fifo = c.fifo
             /\ r.out = Append(c.out, p) /\ r.flags = c.flags
<1> DEFINE q == Append(c.out, p)
           r == [c EXCEPT !.mode = "tx", !.out = q]
<1>1. q \in Seq(Packet)
  BY ChipHas
<1> HIDE DEF q
<1>2. /\ r \in Chip /\ r.mode = "tx" /\ r.fifo = c.fifo
      /\ r.out = q /\ r.flags = c.flags
  BY <1>1 DEF Chip
<1> QED
  BY <1>2 DEF StartTx, q

LEMMA EndTxIs ==
  ASSUME NEW c \in Chip, NEW r \in EndTx(c)
  PROVE  /\ r \in Chip /\ r.mode = "rx" /\ r.fifo = c.fifo
         /\ r.out = << >> /\ r.flags \subseteq c.flags
<1>1. PICK f \in SUBSET c.flags :
        r = [c EXCEPT !.mode = "rx", !.out = << >>, !.flags = @ \ f]
  BY DEF EndTx
<1> DEFINE q == << >>
           g == c.flags \ f
<1>2. q \in Seq(Packet) /\ g \in SUBSET {"RX_DR", "TX_DS"} /\ g \subseteq c.flags
  BY NoPackets, ChipHas
<1>3. r = [c EXCEPT !.mode = "rx", !.out = q, !.flags = g]
  BY <1>1, Zenon
<1> HIDE DEF q, g
<1>4. /\ r \in Chip /\ r.mode = "rx" /\ r.fifo = c.fifo
      /\ r.out = q /\ r.flags = g
  BY <1>2, <1>3 DEF Chip
<1> QED
  BY <1>2, <1>4 DEF q

LEMMA WriteStatusIs ==
  ASSUME NEW c \in Chip, NEW sta
  PROVE  LET r == WriteStatus(c, sta)
         IN  /\ r \in Chip /\ r.mode = c.mode /\ r.fifo = c.fifo
             /\ r.out = c.out /\ r.flags = c.flags \ sta
BY DEF WriteStatus, Chip

LEMMA FlushRxIs ==
  ASSUME NEW c \in Chip
  PROVE  LET r == FlushRx(c)
         IN  /\ r \in Chip /\ r.mode = c.mode /\ r.fifo = << >>
             /\ r.out = c.out /\ r.flags = c.flags
<1> DEFINE q == << >>
           r == [c EXCEPT !.fifo = q]
<1>1. q \in Seq(Packet)
  BY NoPackets
<1> HIDE DEF q
<1>2. /\ r \in Chip /\ r.mode = c.mode /\ r.fifo = q
      /\ r.out = c.out /\ r.flags = c.flags
  BY <1>1 DEF Chip
<1> QED
  BY <1>2 DEF FlushRx, q

LEMMA ReceiveIs ==
  ASSUME NEW c \in Chip, NEW p \in Packet
  PROVE  LET r == Receive(c, p)
         IN  /\ r \in Chip /\ r.mode = c.mode
             /\ r.fifo = IF c.fifo = << >> THEN << p >> ELSE c.fifo
             /\ r.out = c.out /\ r.flags = c.flags \cup {"RX_DR"}
<1> DEFINE q == IF c.fifo = << >> THEN << p >> ELSE c.fifo
           f == c.flags \cup {"RX_DR"}
           r == [c EXCEPT !.fifo = q, !.flags = f]
<1>1. q \in Seq(Packet) /\ f \in SUBSET {"RX_DR", "TX_DS"}
  <2>1. << p >> \in Seq(Packet)
    OBVIOUS
  <2> QED
    BY <2>1, ChipHas
<1>2. Receive(c, p) = r
  BY DEF Receive
<1> HIDE DEF q, f
<1>3. /\ r \in Chip /\ r.mode = c.mode /\ r.fifo = q
      /\ r.out = c.out /\ r.flags = f
  BY <1>1 DEF Chip
<1> QED
  BY <1>2, <1>3 DEF q, f

LEMMA SentIs ==
  ASSUME NEW c \in Chip, c.out # << >>
  PROVE  LET r == Sent(c)
         IN  /\ r \in Chip /\ r.mode = c.mode /\ r.fifo = c.fifo
             /\ r.out = Tail(c.out) /\ r.flags = c.flags \cup {"TX_DS"}
<1> DEFINE q == Tail(c.out)
           f == c.flags \cup {"TX_DS"}
           r == [c EXCEPT !.out = q, !.flags = f]
<1>1. q \in Seq(Packet) /\ f \in SUBSET {"RX_DR", "TX_DS"}
  BY ChipHas
<1>2. Sent(c) = r
  BY DEF Sent
<1> HIDE DEF q, f
<1>3. /\ r \in Chip /\ r.mode = c.mode /\ r.fifo = c.fifo
      /\ r.out = q /\ r.flags = f
  BY <1>1 DEF Chip
<1> QED
  BY <1>2, <1>3 DEF q, f

LEMMA FreshChipIs == FreshChip \in Chip
<1> DEFINE q == << >>
           r == [mode |-> "rx", fifo |-> q, out |-> q, flags |-> {}]
<1>1. q \in Seq(Packet)
  BY NoPackets
<1> HIDE DEF q
<1>2. r \in Chip
  BY <1>1 DEF Chip
<1> QED
  BY <1>2 DEF FreshChip, q
=============================================================================

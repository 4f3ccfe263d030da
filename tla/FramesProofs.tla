---------------------------- MODULE FramesProofs ----------------------------
(***************************************************************************)
(* What holds of every frame, whatever it carries: of the CRC of the PC    *)
(* link, of the replies the fixture packs and the commands it takes, and   *)
(* of the frames for the device.                                           *)
(***************************************************************************)
EXTENDS PcFrames, DutFrames, WellFoundedInduction, SequenceTheorems, TLAPS

-----------------------------------------------------------------------------
(* Induction, and functions defined by recursion, from the least element of *)
(* a set: the theorems of the library take an operator, these a set.       *)

LEMMA SetInduction ==
  ASSUME NEW T, 0 \in T, \A n \in Nat : n \in T => n + 1 \in T
  PROVE  Nat \subseteq T
<1> DEFINE R == OpToRel(<, Nat)
           B == {n \in Nat : n \notin T}
<1>1. IsWellFoundedOn(R, Nat)  BY NatLessThanWellFounded
<1>2. \A x, y \in Nat : x < y => << x, y >> \in R  BY DEF OpToRel
<1> HIDE DEF R
<1>3. SUFFICES ASSUME B # {} PROVE FALSE  OBVIOUS
<1>4. B \subseteq Nat  OBVIOUS
<1>5. PICK x \in B : \A y \in B : << y, x >> \notin R
  <2> HIDE DEF B
  <2> QED BY <1>1, <1>3, <1>4, WFMin
<1>6. x \in Nat /\ x - 1 \in B /\ x - 1 \in Nat  BY SMT
<1>7. << x - 1, x >> \in R  BY <1>6, <1>2
<1> HIDE DEF B
<1> QED BY <1>5, <1>6, <1>7

\* Recursion over 0 .. m with values in S
StepsOver(S) == [Nat -> [S -> S]]

\* f takes m of the steps, from e on.
Steps(f, m, S, e, step) ==
  /\ f \in [0 .. m -> S]
  /\ f[0] = e /\ \A n \in 1 .. m : f[n] = step[n][f[n - 1]]

LEMMA Recursion ==
  ASSUME NEW S, NEW e \in S, NEW step \in StepsOver(S), NEW m \in Nat
  PROVE  \E f : Steps(f, m, S, e, step)
<1> DEFINE T == {k \in Nat : \E f : Steps(f, k, S, e, step)}
<1>0. step \in [Nat -> [S -> S]]  BY DEF StepsOver
<1>1. 0 \in T
  <2> DEFINE f == [n \in 0 .. 0 |-> e]
  <2>1. f \in [0 .. 0 -> S] /\ f[0] = e  OBVIOUS
  <2> HIDE DEF f
  <2>2. Steps(f, 0, S, e, step)  BY <2>1 DEF Steps
  <2> QED BY <2>2
<1>2. ASSUME NEW k \in Nat, k \in T PROVE k + 1 \in T
  <2>1. PICK f : Steps(f, k, S, e, step)  BY <1>2
  <2>2. /\ f \in [0 .. k -> S] /\ f[0] = e
        /\ \A n \in 1 .. k : f[n] = step[n][f[n - 1]]
    BY <2>1 DEF Steps
  <2> DEFINE g == [n \in 0 .. k + 1 |-> IF n = k + 1 THEN step[n][f[k]] ELSE f[n]]
  <2>3. g \in [0 .. k + 1 -> S]  BY <1>0, <2>2
  <2>4. /\ \A n \in 0 .. k : g[n] = f[n]
        /\ g[k + 1] = step[k + 1][f[k]]  OBVIOUS
  <2> HIDE DEF g
  <2>5. g[0] = e  BY <2>2, <2>4
  <2>6. \A n \in 1 .. k + 1 : g[n] = step[n][g[n - 1]]
    <3> TAKE n \in 1 .. k + 1
    <3>1. g[n - 1] = f[n - 1]  BY <2>4
    <3> QED BY <2>2, <2>4, <3>1
  <2>7. Steps(g, k + 1, S, e, step)  BY <2>3, <2>5, <2>6 DEF Steps
  <2> QED BY <2>7
<1> HIDE DEF T
<1>3. Nat \subseteq T  BY <1>1, <1>2, SetInduction
<1> QED BY <1>3 DEF T

Agree(f, g, m) == \A n \in 0 .. m : f[n] = g[n]

\* Where they agreed one step before they agree.
AgreeOn(f, g, m) ==
  f[0] = g[0] /\ \A n \in 1 .. m : f[n - 1] = g[n - 1] => f[n] = g[n]

LEMMA SameRecursion ==
  ASSUME NEW m \in Nat, NEW f, NEW g, AgreeOn(f, g, m)
  PROVE  Agree(f, g, m)
<1> DEFINE T == {n \in Nat : n <= m => f[n] = g[n]}
<1>1. 0 \in T  BY DEF AgreeOn
<1>2. \A n \in Nat : n \in T => n + 1 \in T
  <2> SUFFICES ASSUME NEW n \in Nat, n <= m => f[n] = g[n], n + 1 <= m
               PROVE  f[n + 1] = g[n + 1]
    OBVIOUS
  <2>1. n + 1 \in 1 .. m /\ (n + 1) - 1 = n  OBVIOUS
  <2> QED BY <2>1 DEF AgreeOn
<1> HIDE DEF T
<1>3. Nat \subseteq T  BY <1>1, <1>2, SetInduction
<1> QED BY <1>3 DEF T, Agree

LEMMA Words ==
  MaxWord \in Nat /\ \A a : a \in Word16 <=> a \in Nat /\ a <= 65535
<1>1. MaxWord \in Nat  BY DEF MaxWord
<1>2. \A a : a \in Word16 <=> a \in Nat /\ a <= MaxWord  BY <1>1 DEF Word16
<1> QED BY <1>1, <1>2 DEF MaxWord

LEMMA XorDef ==
  xor = [a \in Word16 |->
          [b \in Nat |-> IF a = 0 THEN b
                         ELSE 2 * xor[a \div 2][b \div 2] + ((a + b) % 2)]]
<1> DEFINE Row(f, a) == [b \in Nat |-> IF a = 0 THEN b
                          ELSE 2 * f[a \div 2][b \div 2] + ((a + b) % 2)]
           T == {k \in Nat : \E f : /\ f = [a \in 0 .. k |-> f[a]]
                                    /\ \A a \in 0 .. k : f[a] = Row(f, a)}
<1>1. \A f, g : \A a \in Nat : a = 0 \/ f[a \div 2] = g[a \div 2] => Row(f, a) = Row(g, a)
  OBVIOUS
<1> HIDE DEF Row
<1>2. 0 \in T
  <2> DEFINE f == [a \in 0 .. 0 |-> Row(0, 0)]
  <2>1. f = [a \in 0 .. 0 |-> f[a]] /\ f[0] = Row(0, 0)  OBVIOUS
  <2> HIDE DEF f
  <2>2. f[0] = Row(f, 0)  BY <1>1, <2>1
  <2> QED BY <2>1, <2>2
<1>3. ASSUME NEW k \in Nat, k \in T PROVE k + 1 \in T
  <2>1. PICK f : /\ f = [a \in 0 .. k |-> f[a]]
                 /\ \A a \in 0 .. k : f[a] = Row(f, a)
    BY <1>3
  <2> DEFINE g == [a \in 0 .. k + 1 |-> IF a = k + 1 THEN Row(f, a) ELSE f[a]]
  <2>2. /\ \A a \in 0 .. k : g[a] = f[a]
        /\ g[k + 1] = Row(f, k + 1)
        /\ g = [a \in 0 .. k + 1 |-> g[a]]
    OBVIOUS
  <2> HIDE DEF g
  <2>3. ASSUME NEW a \in 0 .. k + 1 PROVE g[a] = Row(g, a)
    <3>1. a = 0 \/ a \div 2 \in 0 .. k  OBVIOUS
    <3>2. a = 0 \/ f[a \div 2] = g[a \div 2]  BY <3>1, <2>2
    <3>3. Row(f, a) = Row(g, a)  BY <3>2, <1>1
    <3>4. g[a] = Row(f, a)  BY <2>1, <2>2
    <3> QED BY <3>3, <3>4
  <2> QED BY <2>2, <2>3
<1> HIDE DEF T
<1>4. MaxWord \in T  BY <1>2, <1>3, Words, SetInduction
<1>5. PICK f : /\ f = [a \in Word16 |-> f[a]]
               /\ \A a \in Word16 : f[a] = Row(f, a)
  BY <1>4 DEF T, Word16
<1>6. f = [a \in Word16 |-> Row(f, a)]
  BY <1>5
<1> QED BY <1>6, Zenon DEF xor, Row

LEMMA XorHalves ==
  ASSUME NEW a \in Word16, NEW b \in Word16
  PROVE  /\ a ^^ b \in Nat
         /\ (a ^^ b) \div 2 = (a \div 2) ^^ (b \div 2)
         /\ (a ^^ b) % 2 = (a + b) % 2
         /\ 0 ^^ b = b
<1> DEFINE T == {k \in Nat : \A x \in 0 .. k, y \in Word16 : x \in Word16 => xor[x][y] \in Nat}
<1>0. /\ \A y \in Nat : xor[0][y] = y
      /\ \A x \in Word16, y \in Nat : x # 0 => xor[x][y] = 2 * xor[x \div 2][y \div 2] + ((x + y) % 2)
  <2>1. \A x \in Word16, y \in Nat : xor[x][y] = IF x = 0 THEN y ELSE 2 * xor[x \div 2][y \div 2] + ((x + y) % 2)
    <3> TAKE x \in Word16, y \in Nat
    <3> DEFINE row == [d \in Nat |-> IF x = 0 THEN d
                                    ELSE 2 * xor[x \div 2][d \div 2] + ((x + d) % 2)]
    <3>1. xor[x] = row  BY XorDef, Zenon
    <3>2. row[y] = IF x = 0 THEN y ELSE 2 * xor[x \div 2][y \div 2] + ((x + y) % 2)  OBVIOUS
    <3> HIDE DEF row
    <3> QED BY <3>1, <3>2
  <2>2. 0 \in Word16  BY Words
  <2> QED BY <2>1, <2>2
<1>1. 0 \in T  BY <1>0, Words
<1>2. ASSUME NEW k \in Nat, k \in T PROVE k + 1 \in T
  <2>1. SUFFICES ASSUME NEW y \in Word16, k + 1 \in Word16 PROVE xor[k + 1][y] \in Nat
    BY <1>2
  <2>2. (k + 1) \div 2 \in 0 .. k /\ (k + 1) \div 2 \in Word16 /\ y \div 2 \in Word16  BY <2>1, Words
  <2>3. xor[(k + 1) \div 2][y \div 2] \in Nat  BY <2>2, <1>2
  <2>4. xor[k + 1][y] = 2 * xor[(k + 1) \div 2][y \div 2] + ((k + 1 + y) % 2)  BY <1>0, <2>1, Words
  <2> HIDE DEF T
  <2> QED BY <2>3, <2>4, <2>1, Words
<1> HIDE DEF T
<1>3. \A x, y \in Word16 : xor[x][y] \in Nat
  <2>1. MaxWord \in T  BY <1>1, <1>2, Words, SetInduction
  <2> QED BY <2>1 DEF T, Word16
<1>4. a \div 2 \in Word16 /\ b \div 2 \in Word16 /\ a \in Nat /\ b \in Nat  BY Words
<1>5. xor[a \div 2][b \div 2] \in Nat /\ xor[a][b] \in Nat  BY <1>3, <1>4
<1>6. CASE a = 0  BY <1>0, <1>4, <1>6 DEF ^^
<1>7. CASE a # 0
  <2>1. xor[a][b] = 2 * xor[a \div 2][b \div 2] + ((a + b) % 2)  BY <1>0, <1>4, <1>7
  <2>2. \A h \in Nat, p \in {0, 1} : (2 * h + p) \div 2 = h /\ (2 * h + p) % 2 = p
    OBVIOUS
  <2>3. (a + b) % 2 \in {0, 1}  BY <1>4
  <2>4. /\ xor[a][b] \div 2 = xor[a \div 2][b \div 2]
        /\ xor[a][b] % 2 = (a + b) % 2
    BY <2>1, <2>2, <2>3, <1>5
  <2> QED BY <2>4, <1>0, <1>4, <1>5 DEF ^^
<1> QED BY <1>6, <1>7

-----------------------------------------------------------------------------
(* The exclusive or: what holds of it bit by bit holds of words.           *)

LEMMA WordInduction ==
  ASSUME NEW T, 0 \in T, \A a \in Word16 : a # 0 /\ a \div 2 \in T => a \in T
  PROVE  Word16 \subseteq T
<1> DEFINE U == {k \in Nat : \A a \in 0 .. k : a \in Word16 => a \in T}
<1>1. 0 \in U  OBVIOUS
<1>2. ASSUME NEW k \in Nat, k \in U PROVE k + 1 \in U
  <2> SUFFICES ASSUME k + 1 \in Word16 PROVE k + 1 \in T  BY <1>2
  <2>1. (k + 1) \div 2 \in 0 .. k /\ (k + 1) \div 2 \in Word16  BY Words
  <2>2. (k + 1) \div 2 \in T  BY <2>1, <1>2
  <2> QED BY <2>2
<1> HIDE DEF U
<1>3. MaxWord \in U  BY <1>1, <1>2, Words, SetInduction
<1> QED BY <1>3 DEF U, Word16

\* what a word is from its halves
LEMMA SameHalves ==
  ASSUME NEW x \in Nat, NEW y \in Nat, x \div 2 = y \div 2, x % 2 = y % 2
  PROVE  x = y
  OBVIOUS

LEMMA XorBelow ==
  ASSUME NEW m \in Nat, \A a, b \in Word16 : a < m /\ b < m => a ^^ b < m
  PROVE  \A a, b \in Word16 : a < 2 * m /\ b < 2 * m => a ^^ b < 2 * m
<1> TAKE a \in Word16, b \in Word16
<1> HAVE a < 2 * m /\ b < 2 * m
<1>1. a \div 2 < m /\ b \div 2 < m /\ a \div 2 \in Word16 /\ b \div 2 \in Word16  BY Words
<1>2. (a ^^ b) \div 2 < m  BY <1>1, XorHalves
<1>3. a ^^ b \in Nat  BY XorHalves
<1> QED BY <1>2, <1>3

LEMMA XorBound ==
  /\ \A a, b \in Word16 : a < 256 /\ b < 256 => a ^^ b < 256
  /\ \A a, b \in Word16 : a < 32768 /\ b < 32768 => a ^^ b < 32768
  /\ \A a, b \in Word16 : a ^^ b \in Word16
<1> DEFINE P(m) == \A a, b \in Word16 : a < m /\ b < m => a ^^ b < m
<1>1. P(1)
  <2>1. \A a \in Word16 : a < 1 => a = 0  BY Words
  <2>2. 0 \in Word16 BY Words
  <2> QED BY <2>1, <2>2, XorHalves
<1>2. \A m \in Nat : P(m) => P(2 * m)  BY XorBelow
<1> HIDE DEF P
<1>3. P(2) BY <1>1, <1>2
<1>4. P(4) BY <1>3, <1>2
<1>5. P(8) BY <1>4, <1>2
<1>6. P(16) BY <1>5, <1>2
<1>7. P(32) BY <1>6, <1>2
<1>8. P(64) BY <1>7, <1>2
<1>9. P(128) BY <1>8, <1>2
<1>10. P(256) BY <1>9, <1>2
<1>11. P(512) BY <1>10, <1>2
<1>12. P(1024) BY <1>11, <1>2
<1>13. P(2048) BY <1>12, <1>2
<1>14. P(4096) BY <1>13, <1>2
<1>15. P(8192) BY <1>14, <1>2
<1>16. P(16384) BY <1>15, <1>2
<1>17. P(32768) BY <1>16, <1>2
<1>18. P(65536) BY <1>17, <1>2
<1> QED BY <1>10, <1>17, <1>18, Words, XorHalves DEF P

LEMMA XorZero == \A a \in Word16 : a ^^ 0 = a
<1> DEFINE T == {a \in Word16 : a ^^ 0 = a}
<1>0. 0 \in Word16  BY Words
<1>1. 0 \in T  BY <1>0, XorHalves
<1>2. ASSUME NEW a \in Word16, a \div 2 \in T PROVE a \in T
  <2>1. a ^^ 0 \in Nat /\ (a ^^ 0) \div 2 = (a \div 2) ^^ (0 \div 2) /\ (a ^^ 0) % 2 = (a + 0) % 2
    BY <1>0, XorHalves
  <2>2. a \in Nat /\ 0 \div 2 = 0 /\ (a + 0) % 2 = a % 2  BY Words
  <2>3. a ^^ 0 = a  BY <2>1, <2>2, <1>2, SameHalves
  <2> QED BY <2>3
<1> QED BY <1>1, <1>2, WordInduction

LEMMA XorSelf == \A a \in Word16 : a ^^ a = 0
<1> DEFINE T == {a \in Word16 : a ^^ a = 0}
<1>0. 0 \in Word16  BY Words
<1>1. 0 \in T  BY <1>0, XorHalves
<1>2. ASSUME NEW a \in Word16, a \div 2 \in T PROVE a \in T
  <2>1. a ^^ a \in Nat /\ (a ^^ a) \div 2 = (a \div 2) ^^ (a \div 2) /\ (a ^^ a) % 2 = (a + a) % 2
    BY XorHalves
  <2>2. a \in Nat /\ 0 \div 2 = 0 /\ (a + a) % 2 = 0  BY Words
  <2> HIDE DEF T
  <2>3. (a \div 2) ^^ (a \div 2) = 0  BY <1>2 DEF T
  <2>4. a ^^ a = 0  BY <2>1, <2>2, <2>3
  <2> QED BY <2>4 DEF T
<1> QED BY <1>1, <1>2, WordInduction

LEMMA XorComm == \A a, b \in Word16 : a ^^ b = b ^^ a
<1> DEFINE T == {a \in Word16 : \A b \in Word16 : a ^^ b = b ^^ a}
<1>0. 0 \in Word16  BY Words
<1>1. 0 \in T  BY <1>0, XorHalves, XorZero
<1>2. ASSUME NEW a \in Word16, a \div 2 \in T PROVE a \in T
  <2> SUFFICES ASSUME NEW b \in Word16 PROVE a ^^ b = b ^^ a  OBVIOUS
  <2>1. a ^^ b \in Nat /\ (a ^^ b) \div 2 = (a \div 2) ^^ (b \div 2) /\ (a ^^ b) % 2 = (a + b) % 2
    BY XorHalves
  <2>2. b ^^ a \in Nat /\ (b ^^ a) \div 2 = (b \div 2) ^^ (a \div 2) /\ (b ^^ a) % 2 = (b + a) % 2
    BY XorHalves
  <2>3. a \in Nat /\ b \in Nat /\ b \div 2 \in Word16  BY Words
  <2>4. (a \div 2) ^^ (b \div 2) = (b \div 2) ^^ (a \div 2)  BY <1>2, <2>3
  <2>5. (a + b) % 2 = (b + a) % 2  BY <2>3
  <2> HIDE DEF T
  <2> QED BY <2>1, <2>2, <2>4, <2>5, SameHalves
<1> HIDE DEF T
<1>3. Word16 \subseteq T  BY <1>1, <1>2, WordInduction
<1> QED BY <1>3 DEF T

LEMMA XorAssoc == \A a, b, c \in Word16 : (a ^^ b) ^^ c = a ^^ (b ^^ c)
<1> DEFINE T == {a \in Word16 : \A b, c \in Word16 : (a ^^ b) ^^ c = a ^^ (b ^^ c)}
<1>0. 0 \in Word16  BY Words
<1>1. 0 \in T  BY <1>0, XorHalves, XorBound
<1>2. ASSUME NEW a \in Word16, a \div 2 \in T PROVE a \in T
  <2> SUFFICES ASSUME NEW b \in Word16, NEW c \in Word16 PROVE (a ^^ b) ^^ c = a ^^ (b ^^ c)  OBVIOUS
  <2>0. a ^^ b \in Word16 /\ b ^^ c \in Word16  BY XorBound
  <2>1. /\ (a ^^ b) ^^ c \in Nat /\ ((a ^^ b) ^^ c) \div 2 = ((a ^^ b) \div 2) ^^ (c \div 2)
        /\ ((a ^^ b) ^^ c) % 2 = ((a ^^ b) + c) % 2
        /\ (a ^^ b) \div 2 = (a \div 2) ^^ (b \div 2) /\ (a ^^ b) % 2 = (a + b) % 2
    BY <2>0, XorHalves
  <2>2. /\ a ^^ (b ^^ c) \in Nat /\ (a ^^ (b ^^ c)) \div 2 = (a \div 2) ^^ ((b ^^ c) \div 2)
        /\ (a ^^ (b ^^ c)) % 2 = (a + (b ^^ c)) % 2
        /\ (b ^^ c) \div 2 = (b \div 2) ^^ (c \div 2) /\ (b ^^ c) % 2 = (b + c) % 2
    BY <2>0, XorHalves
  <2>3. b \div 2 \in Word16 /\ c \div 2 \in Word16  BY Words
  <2>4. ((a \div 2) ^^ (b \div 2)) ^^ (c \div 2) = (a \div 2) ^^ ((b \div 2) ^^ (c \div 2))  BY <1>2, <2>3
  <2>5. ((a ^^ b) + c) % 2 = (a + (b ^^ c)) % 2
    <3>1. \A x, y, z, u, v \in Nat : u % 2 = (x + y) % 2 /\ v % 2 = (y + z) % 2 => (u + z) % 2 = (x + v) % 2
      OBVIOUS
    <3>2. a \in Nat /\ b \in Nat /\ c \in Nat /\ a ^^ b \in Nat /\ b ^^ c \in Nat  BY <2>0, Words
    <3> QED BY <3>1, <3>2, <2>1, <2>2
  <2> HIDE DEF T
  <2> QED BY <2>1, <2>2, <2>4, <2>5, SameHalves
<1> HIDE DEF T
<1>3. Word16 \subseteq T  BY <1>1, <1>2, WordInduction
<1> QED BY <1>3 DEF T

LEMMA XorLowStep ==
  ASSUME NEW m \in Nat,
         \A h, l, b, x \in Word16 :
            l < m /\ b < m /\ x = m * h + l => x ^^ b = m * h + (l ^^ b)
  PROVE  \A h, l, b, x \in Word16 :
            l < 2 * m /\ b < 2 * m /\ x = (2 * m) * h + l
              => x ^^ b = (2 * m) * h + (l ^^ b)
<1> SUFFICES ASSUME NEW h \in Word16, NEW l \in Word16, NEW b \in Word16, NEW x \in Word16,
                    l < 2 * m, b < 2 * m, x = (2 * m) * h + l
             PROVE  x ^^ b = (2 * m) * h + (l ^^ b)
  OBVIOUS
<1> DEFINE p == m * h
<1>0. h \in Nat /\ l \in Nat /\ b \in Nat /\ x \in Nat  BY Words
<1>1. p \in Nat /\ (2 * m) * h = 2 * p  BY <1>0
<1>2. (x \div 2) \in Word16 /\ (l \div 2) \in Word16 /\ (b \div 2) \in Word16  BY Words
<1>3. x \div 2 = m * h + (l \div 2) => (x \div 2) ^^ (b \div 2) = m * h + ((l \div 2) ^^ (b \div 2))
  <2>1. l \div 2 < m /\ b \div 2 < m  BY <1>0
  <2> QED BY <1>2, <2>1
<1>4. x = 2 * p + l  BY <1>1
<1>5. x \div 2 = p + (l \div 2) => (x \div 2) ^^ (b \div 2) = p + ((l \div 2) ^^ (b \div 2))
  BY <1>3
<1> HIDE DEF p
<1>6. x \div 2 = p + (l \div 2) /\ (x + b) % 2 = (l + b) % 2  BY <1>0, <1>1, <1>4
<1>7. /\ l ^^ b \in Nat /\ (l ^^ b) \div 2 = (l \div 2) ^^ (b \div 2) /\ (l ^^ b) % 2 = (l + b) % 2
      /\ x ^^ b \in Nat /\ (x ^^ b) \div 2 = (x \div 2) ^^ (b \div 2) /\ (x ^^ b) % 2 = (x + b) % 2
  BY XorHalves
<1>8. \A u, v \in Nat : u \div 2 = p + (v \div 2) /\ u % 2 = v % 2 => u = 2 * p + v  BY <1>1
<1>9. x ^^ b = 2 * p + (l ^^ b)  BY <1>5, <1>6, <1>7, <1>8
<1> QED BY <1>1, <1>9

\* The high byte is not touched by a byte.
LEMMA XorLow ==
  ASSUME NEW x \in Word16, NEW b \in Word16, b < 256
  PROVE  (x ^^ b) \div 256 = x \div 256 /\ (x ^^ b) % 256 = (x % 256) ^^ b
<1> DEFINE P(m) == \A h, l, d, y \in Word16 :
                      l < m /\ d < m /\ y = m * h + l => y ^^ d = m * h + (l ^^ d)
<1>1. P(1)
  <2> SUFFICES ASSUME NEW h \in Word16, NEW l \in Word16, NEW d \in Word16, NEW y \in Word16,
                      l < 1, d < 1, y = 1 * h + l
               PROVE  y ^^ d = 1 * h + (l ^^ d)
    OBVIOUS
  <2>1. l = 0 /\ d = 0 /\ y = h  BY Words
  <2>2. h ^^ 0 = h /\ 0 ^^ 0 = 0  BY <2>1, XorZero
  <2> QED BY <2>1, <2>2, Words
<1>2. \A m \in Nat : P(m) => P(2 * m)  BY XorLowStep
<1> HIDE DEF P
<1>3. P(2) BY <1>1, <1>2
<1>4. P(4) BY <1>3, <1>2
<1>5. P(8) BY <1>4, <1>2
<1>6. P(16) BY <1>5, <1>2
<1>7. P(32) BY <1>6, <1>2
<1>8. P(64) BY <1>7, <1>2
<1>9. P(128) BY <1>8, <1>2
<1>10. P(256) BY <1>9, <1>2
<1>11. x \in Nat /\ x \div 256 \in Word16 /\ x % 256 \in Word16 /\ x % 256 < 256
       /\ x = 256 * (x \div 256) + (x % 256)
  BY Words
<1>12. x ^^ b = 256 * (x \div 256) + ((x % 256) ^^ b)
  BY <1>10, <1>11 DEF P
<1>13. (x % 256) ^^ b \in Nat /\ (x % 256) ^^ b < 256  BY <1>11, XorBound, Words
<1>14. \A u, v \in Nat : v < 256 => (256 * u + v) \div 256 = u /\ (256 * u + v) % 256 = v  OBVIOUS
<1>15. x \div 256 \in Nat  BY <1>11
<1> HIDE DEF P
<1> QED BY <1>12, <1>13, <1>14, <1>15

-----------------------------------------------------------------------------
(* The table against the polynomial.                                       *)

LEMMA Bytes == \A a : a \in Byte <=> a \in Nat /\ a <= 255
  BY DEF Byte

LEMMA BytesAreWords == Byte \subseteq Word16  BY Bytes, Words

LEMMA HalveIs ==
  \A r \in Word16 : Halve[r] = IF r % 2 = 1 THEN (r \div 2) ^^ \hA001 ELSE r \div 2
  BY Words DEF Halve

LEMMA HalveLinear ==
  ASSUME NEW a \in Word16, NEW b \in Word16
  PROVE  Halve[a] \in Word16 /\ Halve[a ^^ b] = Halve[a] ^^ Halve[b]
<1> DEFINE g == \hA001
           x == a \div 2
           y == b \div 2
<1>1. g \in Word16 /\ x \in Word16 /\ y \in Word16 /\ 0 \in Word16  BY Words
<1>2. /\ a ^^ b \in Nat /\ (a ^^ b) \div 2 = x ^^ y
      /\ (a ^^ b) % 2 = 1 <=> ~ (a % 2 = 1 <=> b % 2 = 1)
  <2>1. a \in Nat /\ b \in Nat  BY Words
  <2>2. (a + b) % 2 = 1 <=> ~ (a % 2 = 1 <=> b % 2 = 1)  BY <2>1
  <2> QED BY <2>2, XorHalves
<1>3. /\ Halve[a] = IF a % 2 = 1 THEN x ^^ g ELSE x
      /\ Halve[b] = IF b % 2 = 1 THEN y ^^ g ELSE y
      /\ Halve[a ^^ b] = IF (a ^^ b) % 2 = 1 THEN (x ^^ y) ^^ g ELSE x ^^ y
  BY <1>2, HalveIs, XorBound
<1> HIDE DEF g, x, y
<1>4. /\ x ^^ y \in Word16 /\ x ^^ g \in Word16 /\ y ^^ g \in Word16 /\ g ^^ y \in Word16
  BY <1>1, XorBound
<1>5. (x ^^ y) ^^ g = x ^^ (y ^^ g)  BY <1>1, XorAssoc
<1>6. (x ^^ y) ^^ g = (x ^^ g) ^^ y
  BY <1>1, <1>4, XorAssoc, XorComm
<1>7. (x ^^ g) ^^ (y ^^ g) = x ^^ y
  <2>1. (x ^^ g) ^^ (y ^^ g) = x ^^ (g ^^ (y ^^ g))  BY <1>1, <1>4, XorAssoc
  <2>2. g ^^ (y ^^ g) = g ^^ (g ^^ y)  BY <1>1, XorComm
  <2>3. g ^^ (g ^^ y) = (g ^^ g) ^^ y  BY <1>1, XorAssoc
  <2>4. (g ^^ g) ^^ y = y  BY <1>1, XorSelf, XorHalves
  <2> QED BY <2>1, <2>2, <2>3, <2>4
<1> QED BY <1>1, <1>2, <1>3, <1>4, <1>5, <1>6, <1>7

LEMMA EightLinear ==
  ASSUME NEW a \in Word16, NEW b \in Word16
  PROVE  Eight(a) \in Word16 /\ Eight(a ^^ b) = Eight(a) ^^ Eight(b)
<1> DEFINE A1 == Halve[a]   B1 == Halve[b]
           A2 == Halve[A1]  B2 == Halve[B1]
           A3 == Halve[A2]  B3 == Halve[B2]
           A4 == Halve[A3]  B4 == Halve[B3]
           A5 == Halve[A4]  B5 == Halve[B4]
           A6 == Halve[A5]  B6 == Halve[B5]
           A7 == Halve[A6]  B7 == Halve[B6]
           A8 == Halve[A7]  B8 == Halve[B7]
           Both(c, d, e, f) == c \in Word16 /\ d \in Word16 /\ Halve[e ^^ f] = c ^^ d
<1>0. \A e, f \in Word16 : Both(Halve[e], Halve[f], e, f)  BY HalveLinear
<1>1. Both(A1, B1, a, b)  BY <1>0
<1>2. Both(A2, B2, A1, B1)  BY <1>0, <1>1
<1>3. Both(A3, B3, A2, B2)  BY <1>0, <1>2
<1>4. Both(A4, B4, A3, B3)  BY <1>0, <1>3
<1>5. Both(A5, B5, A4, B4)  BY <1>0, <1>4
<1>6. Both(A6, B6, A5, B5)  BY <1>0, <1>5
<1>7. Both(A7, B7, A6, B6)  BY <1>0, <1>6
<1>8. Both(A8, B8, A7, B7)  BY <1>0, <1>7
<1>9. Eight(a) = A8 /\ Eight(b) = B8  BY DEF Eight
<1> HIDE DEF A1, A2, A3, A4, A5, A6, A7, A8, B1, B2, B3, B4, B5, B6, B7, B8
<1>10. Eight(a ^^ b) = A8 ^^ B8
  BY <1>1, <1>2, <1>3, <1>4, <1>5, <1>6, <1>7, <1>8 DEF Eight
<1> QED BY <1>8, <1>9, <1>10

\* Eight zero bits go out without a trace.
LEMMA EightHigh ==
  ASSUME NEW h \in Nat, h < 256
  PROVE  256 * h \in Word16 /\ Eight(256 * h) = h
<1>1. \A n \in Nat : 2 * n <= 65535 => Halve[2 * n] = n  BY HalveIs, Words
<1>2. /\ 256 * h = 2 * (128 * h) /\ 128 * h = 2 * (64 * h) /\ 64 * h = 2 * (32 * h)
      /\ 32 * h = 2 * (16 * h) /\ 16 * h = 2 * (8 * h) /\ 8 * h = 2 * (4 * h)
      /\ 4 * h = 2 * (2 * h) /\ 256 * h <= 65535 /\ 256 * h \in Nat
  OBVIOUS
<1>3. /\ Halve[256 * h] = 128 * h /\ Halve[128 * h] = 64 * h /\ Halve[64 * h] = 32 * h
      /\ Halve[32 * h] = 16 * h /\ Halve[16 * h] = 8 * h /\ Halve[8 * h] = 4 * h
      /\ Halve[4 * h] = 2 * h /\ Halve[2 * h] = h
  BY <1>1, <1>2
<1>4. 256 * h \in Word16  BY <1>2, Words
<1> QED BY <1>3, <1>4 DEF Eight

LEMMA CrcStepIs ==
  ASSUME NEW w \in Word16, NEW b \in Byte
  PROVE  CrcStep(w, b) = Eight(w ^^ b) /\ CrcStep(w, b) \in Word16
<1> DEFINE x == w ^^ b
           h == x \div 256
           l == x % 256
<1>1. b \in Word16 /\ b < 256 /\ x \in Word16  BY BytesAreWords, Bytes, XorBound
<1>2. h = w \div 256 /\ l = (w % 256) ^^ b  BY <1>1, XorLow
<1>3. /\ h \in Nat /\ h < 256 /\ l \in 0 .. 255 /\ x = 256 * h + l
      /\ h \in Word16 /\ l \in Word16
  BY <1>1, Words
<1> HIDE DEF x, h, l
<1>4. x = (256 * h) ^^ l
  <2>1. 256 * h \in Word16  BY <1>3, EightHigh
  <2>2. ((256 * h) ^^ l) \div 256 = h /\ ((256 * h) ^^ l) % 256 = l
    <3>1. (256 * h) \div 256 = h /\ (256 * h) % 256 = 0  BY <1>3
    <3>2. 0 ^^ l = l  BY <1>3, XorHalves
    <3> QED BY <2>1, <1>3, <3>1, <3>2, XorLow
  <2>3. (256 * h) ^^ l \in Nat  BY <2>1, <1>3, XorHalves
  <2>4. \A n \in Nat : n = 256 * (n \div 256) + (n % 256)  OBVIOUS
  <2> QED BY <1>3, <2>2, <2>3, <2>4
<1>5. Eight(x) = h ^^ Eight(l)
  <2>1. 256 * h \in Word16 /\ Eight(256 * h) = h  BY <1>3, EightHigh
  <2>2. Eight((256 * h) ^^ l) = Eight(256 * h) ^^ Eight(l)  BY <2>1, <1>3, EightLinear
  <2> QED BY <1>4, <2>1, <2>2
<1>6. Eight(l) = crc16_table[l + 1]  BY <1>3, CrcTable
<1>7. CrcStep(w, b) = Eight(x)  BY <1>2, <1>5, <1>6 DEF CrcStep
<1>8. Eight(x) \in Word16  BY <1>1, EightLinear
<1> QED BY <1>7, <1>8 DEF x

\* f is the register over the bytes of buf.
Over(buf, f) ==
  /\ f \in [0 .. Len(buf) -> Word16] /\ f[0] = 0
  /\ \A n \in 1 .. Len(buf) : f[n] = Eight(f[n - 1] ^^ buf[n])

LEMMA CrcOver ==
  ASSUME NEW buf \in Seq(Byte)
  PROVE  \E f : Over(buf, f) /\ crc16_calc(buf) = f[Len(buf)] /\ Polynomial(buf) = f[Len(buf)]
<1>a. PICK L \in Nat : L = Len(buf)  OBVIOUS
<1> DEFINE Table(g) == [n \in 0 .. L |-> IF n = 0 THEN 0 ELSE CrcStep(g[n - 1], buf[n])]
           Plain(g) == [n \in 0 .. L |-> IF n = 0 THEN 0 ELSE Eight(g[n - 1] ^^ buf[n])]
           step == [n \in Nat |-> [r \in Word16 |-> IF n \in 1 .. L THEN Eight(r ^^ buf[n]) ELSE 0]]
<1>0. L \in Nat /\ 0 \in Word16 /\ \A n \in 1 .. L : buf[n] \in Byte /\ buf[n] \in Word16
  BY <1>a, BytesAreWords, Words
<1>1. \A n \in 1 .. L, r \in Word16 : Eight(r ^^ buf[n]) \in Word16
  BY <1>0, XorBound, EightLinear
<1>2. step \in StepsOver(Word16)  BY <1>0, <1>1 DEF StepsOver
<1>3. \A n \in 1 .. L, r \in Word16 : step[n][r] = Eight(r ^^ buf[n])  OBVIOUS
<1> HIDE DEF step
<1>4. PICK f : Steps(f, L, Word16, 0, step)
  BY <1>0, <1>2, Recursion
<1>4a. /\ f \in [0 .. L -> Word16] /\ f[0] = 0
       /\ \A n \in 1 .. L : f[n] = step[n][f[n - 1]]
  BY <1>4 DEF Steps
<1>5. \A n \in 1 .. L : f[n] = Eight(f[n - 1] ^^ buf[n])  BY <1>0, <1>3, <1>4a
<1>6. \A n \in 1 .. L : f[n] = CrcStep(f[n - 1], buf[n])
  <2> TAKE n \in 1 .. L
  <2>1. f[n - 1] \in Word16  BY <1>0, <1>4a
  <2> QED BY <2>1, <1>0, <1>5, CrcStepIs
<1>7. f = Plain(f)  BY <1>0, <1>4a, <1>5
<1>8. f = Table(f)  BY <1>0, <1>4a, <1>6
<1>9. Polynomial(buf) = f[L]
  <2> DEFINE g == CHOOSE g : g = Plain(g)
  <2>1. g = Plain(g)  BY <1>7
  <2>2. Polynomial(buf) = g[L]  BY <1>a, Zenon DEF Polynomial
  <2> HIDE DEF g
  <2>3. g[0] = 0 /\ \A n \in 1 .. L : g[n] = Eight(g[n - 1] ^^ buf[n])  BY <2>1, <1>0
  <2>4. \A n \in 0 .. L : f[n] = g[n]
    <3>1. \A n \in 1 .. L : f[n - 1] = g[n - 1] => f[n] = g[n]  BY <1>5, <2>3
    <3>2. AgreeOn(f, g, L)  BY <1>4a, <2>3, <3>1 DEF AgreeOn
    <3> QED BY <3>2, SameRecursion DEF Agree
  <2> QED BY <1>0, <2>2, <2>4
<1>10. crc16_calc(buf) = f[L]
  <2> DEFINE g == CHOOSE g : g = Table(g)
  <2>1. g = Table(g)  BY <1>8
  <2>2. crc16_calc(buf) = g[L]  BY <1>a, Zenon DEF crc16_calc
  <2> HIDE DEF g
  <2>3. g[0] = 0 /\ \A n \in 1 .. L : g[n] = CrcStep(g[n - 1], buf[n])  BY <2>1, <1>0
  <2>4. \A n \in 0 .. L : f[n] = g[n]
    <3>1. \A n \in 1 .. L : f[n - 1] = g[n - 1] => f[n] = g[n]  BY <1>6, <2>3
    <3>2. AgreeOn(f, g, L)  BY <1>4a, <2>3, <3>1 DEF AgreeOn
    <3> QED BY <3>2, SameRecursion DEF Agree
  <2> QED BY <1>0, <2>2, <2>4
<1>11. Over(buf, f)  BY <1>4a, <1>5, <1>a DEF Over
<1> QED BY <1>9, <1>10, <1>11, <1>a

\* Of every sequence of bytes, however long: crc16_calc, a byte and a lookup at
\* a time, computes the remainder by the polynomial it stands for.
THEOREM TableIsPolynomial ==
  \A buf \in Seq(Byte) : crc16_calc(buf) = Polynomial(buf) /\ crc16_calc(buf) \in Word16
<1> TAKE buf \in Seq(Byte)
<1>1. PICK f : Over(buf, f) /\ crc16_calc(buf) = f[Len(buf)] /\ Polynomial(buf) = f[Len(buf)]
  BY CrcOver
<1>2. Len(buf) \in 0 .. Len(buf)  OBVIOUS
<1> QED BY <1>1, <1>2 DEF Over

LEMMA XorCancel ==
  ASSUME NEW a \in Word16, NEW b \in Word16, NEW c \in Word16, a ^^ b = a ^^ c
  PROVE  b = c
<1>1. a ^^ (a ^^ b) = b /\ a ^^ (a ^^ c) = c  BY XorAssoc, XorSelf, XorHalves
<1> QED BY <1>1

LEMMA XorSame ==
  ASSUME NEW a \in Word16, NEW b \in Word16, a ^^ b = 0
  PROVE  a = b
<1>1. a ^^ a = a ^^ b  BY XorSelf
<1> QED BY <1>1, XorCancel

\* A register below 32768 was even before the last bit went out.
LEMMA HalveSmall ==
  ASSUME NEW r \in Word16, Halve[r] < 32768
  PROVE  r = 2 * Halve[r]
<1> DEFINE x == r \div 2
<1>1. r \in Nat /\ x \in Word16 /\ x < 32768 /\ \hA001 \in Word16 /\ ~ (\hA001 < 32768)  BY Words
<1> HIDE DEF x
<1>2. CASE r % 2 = 1
  <2>1. Halve[r] = x ^^ \hA001  BY <1>2, HalveIs DEF x
  <2>2. x ^^ \hA001 \in Word16  BY <1>1, XorBound
  <2>3. x ^^ (x ^^ \hA001) < 32768
    <3> DEFINE y == x ^^ \hA001
    <3>1. y \in Word16 /\ y < 32768  BY <2>1, <2>2
    <3> HIDE DEF y
    <3>2. x ^^ y < 32768  BY <1>1, <3>1, XorBound
    <3> QED BY <3>2 DEF y
  <2>4. x ^^ (x ^^ \hA001) = \hA001  BY <1>1, XorAssoc, XorSelf, XorHalves
  <2> QED BY <1>1, <2>3, <2>4
<1>3. CASE r % 2 # 1
  <2>1. Halve[r] = r \div 2  BY <1>3, HalveIs
  <2> QED BY <2>1, <1>1, <1>3
<1> QED BY <1>2, <1>3

LEMMA EightSmall ==
  ASSUME NEW r \in Word16, Eight(r) < 256
  PROVE  r = 256 * Eight(r)
<1> DEFINE A1 == Halve[r]
           A2 == Halve[A1]
           A3 == Halve[A2]
           A4 == Halve[A3]
           A5 == Halve[A4]
           A6 == Halve[A5]
           A7 == Halve[A6]
           A8 == Halve[A7]
<1>1. /\ A1 \in Word16 /\ A2 \in Word16 /\ A3 \in Word16 /\ A4 \in Word16
      /\ A5 \in Word16 /\ A6 \in Word16 /\ A7 \in Word16 /\ A8 \in Word16
  BY HalveLinear
<1>2. Eight(r) = A8  BY DEF Eight
<1>3. \A a \in Word16 : Halve[a] < 32768 => a = 2 * Halve[a]  BY HalveSmall
<1> HIDE DEF A1, A2, A3, A4, A5, A6, A7, A8
<1>5. A8 \in Nat /\ A8 < 256  BY <1>1, <1>2, Words
<1>6. A7 = 2 * A8   BY <1>1, <1>3, <1>5 DEF A8
<1>7. A6 = 4 * A8   BY <1>1, <1>3, <1>5, <1>6 DEF A7
<1>8. A5 = 8 * A8   BY <1>1, <1>3, <1>5, <1>7 DEF A6
<1>9. A4 = 16 * A8  BY <1>1, <1>3, <1>5, <1>8 DEF A5
<1>10. A3 = 32 * A8  BY <1>1, <1>3, <1>5, <1>9 DEF A4
<1>11. A2 = 64 * A8  BY <1>1, <1>3, <1>5, <1>10 DEF A3
<1>12. A1 = 128 * A8 /\ A1 < 32768  BY <1>1, <1>3, <1>5, <1>11 DEF A2
<1>13. r = 2 * A1  BY <1>3, <1>12 DEF A1
<1> QED BY <1>2, <1>5, <1>12, <1>13

LEMMA EightInjective ==
  ASSUME NEW a \in Word16, NEW b \in Word16, Eight(a) = Eight(b)
  PROVE  a = b
<1>1. a ^^ b \in Word16 /\ Eight(a) \in Word16 BY XorBound, EightLinear
<1>2. Eight(a ^^ b) = 0  BY <1>1, EightLinear, XorSelf
<1>3. a ^^ b = 256 * 0  BY <1>1, <1>2, EightSmall
<1> QED BY <1>3, XorSame

LEMMA RegisterInjective ==
  ASSUME NEW v \in Word16, NEW w \in Word16, NEW x \in Byte, NEW y \in Byte,
         Eight(v ^^ x) = Eight(w ^^ y)
  PROVE  v ^^ x = w ^^ y /\ (v = w <=> x = y)
<1>1. x \in Word16 /\ y \in Word16 /\ v ^^ x \in Word16 /\ w ^^ y \in Word16  BY BytesAreWords, XorBound
<1>2. v ^^ x = w ^^ y  BY <1>1, EightInjective
<1>3. v = w => x = y  BY <1>1, <1>2, XorCancel
<1>4. x = y => v = w  BY <1>1, <1>2, XorCancel, XorComm
<1> QED BY <1>2, <1>3, <1>4

\* two bytes, one after the other
LEMMA TwoBytes ==
  ASSUME NEW w \in Word16, NEW x \in Byte, NEW y \in Byte, NEW u \in Byte, NEW v \in Byte,
         Eight(Eight(w ^^ x) ^^ y) = Eight(Eight(w ^^ u) ^^ v)
  PROVE  x = u /\ y = v
<1> DEFINE p == Eight(w ^^ x)
           q == Eight(w ^^ u)
<1>1. /\ x \in Word16 /\ y \in Word16 /\ u \in Word16 /\ v \in Word16
      /\ w ^^ x \in Word16 /\ w ^^ u \in Word16 /\ x ^^ u \in Word16 /\ y ^^ v \in Word16
      /\ x ^^ u < 256 /\ y ^^ v < 256
  <2>1. \A a \in Byte : a \in Word16 /\ a < 256  BY BytesAreWords, Bytes
  <2> QED BY <2>1, XorBound
<1>2. p \in Word16 /\ q \in Word16 /\ p ^^ q = Eight((w ^^ x) ^^ (w ^^ u))
  BY <1>1, EightLinear
<1>3. (w ^^ x) ^^ (w ^^ u) = x ^^ u
  <2>1. (w ^^ x) ^^ (w ^^ u) = ((x ^^ w) ^^ w) ^^ u  BY <1>1, XorAssoc, XorComm
  <2>2. (x ^^ w) ^^ w = x ^^ 0  BY <1>1, XorAssoc, XorSelf
  <2> QED BY <1>1, <2>1, <2>2, XorZero
<1> HIDE DEF p, q
<1>4. p ^^ y = q ^^ v  BY <1>2, RegisterInjective DEF p, q
<1>5. p ^^ q = y ^^ v
  <2>1. q ^^ (p ^^ y) = v
    <3>1. q ^^ (q ^^ v) = v  BY <1>1, <1>2, XorAssoc, XorSelf, XorHalves
    <3> QED BY <3>1, <1>4
  <2>2. (q ^^ p) ^^ y = v  BY <1>1, <1>2, <2>1, XorAssoc
  <2>3. q ^^ p \in Word16 /\ q ^^ p = p ^^ q  BY <1>2, XorBound, XorComm
  <2>4. ((p ^^ q) ^^ y) ^^ y = v ^^ y  BY <2>2, <2>3
  <2>5. ((p ^^ q) ^^ y) ^^ y = p ^^ q  BY <1>1, <2>3, XorAssoc, XorSelf, XorZero
  <2> QED BY <1>1, <2>4, <2>5, XorComm
<1>6. x ^^ u = 256 * (y ^^ v)
  <2>1. Eight(x ^^ u) = y ^^ v  BY <1>2, <1>3, <1>5
  <2>2. Eight(x ^^ u) < 256  BY <1>1, <2>1
  <2> QED BY <1>1, <2>1, <2>2, EightSmall
<1>7. x ^^ u = 0 /\ y ^^ v = 0
  <2>1. x ^^ u \in Nat /\ y ^^ v \in Nat  BY <1>1, Words
  <2> QED BY <1>1, <1>6, <2>1
<1> QED BY <1>1, <1>7, XorSame

\* Of every sequence of bytes: damage to one byte, or to two next to each other,
\* whatever bits of them it changes, always shows in crc16_calc.
THEOREM DamageShows ==
  ASSUME NEW buf \in Seq(Byte), NEW bad \in Seq(Byte), Len(bad) = Len(buf),
         NEW i \in 1 .. Len(buf),
         \A j \in 1 .. Len(buf) : j \notin {i, i + 1} => buf[j] = bad[j],
         buf # bad
  PROVE  crc16_calc(buf) # crc16_calc(bad)
<1>1. PICK L \in Nat : L = Len(buf)  OBVIOUS
<1>2. PICK f : Over(buf, f) /\ crc16_calc(buf) = f[L]  BY <1>1, CrcOver
<1>3. PICK g : Over(bad, g) /\ crc16_calc(bad) = g[L]  BY <1>1, CrcOver
<1>4. /\ \A n \in 0 .. L : f[n] \in Word16 /\ g[n] \in Word16
      /\ f[0] = 0 /\ g[0] = 0
      /\ \A n \in 1 .. L : /\ f[n] = Eight(f[n - 1] ^^ buf[n])
                           /\ g[n] = Eight(g[n - 1] ^^ bad[n])
                           /\ n - 1 \in 0 .. L
      /\ \A n \in 1 .. L : buf[n] \in Byte /\ bad[n] \in Byte
      /\ i \in 1 .. L
      /\ \A n \in 1 .. L : n \notin {i, i + 1} => buf[n] = bad[n]
  <2>1. i \in 1 .. L /\ \A n \in 1 .. L : n \notin {i, i + 1} => buf[n] = bad[n]
    BY <1>1
  <2>2. \A n \in 1 .. L : buf[n] \in Byte /\ bad[n] \in Byte  BY <1>1
  <2>3. \A n \in 1 .. L : f[n] = Eight(f[n - 1] ^^ buf[n]) /\ f[0] = 0
    BY <1>1, <1>2 DEF Over
  <2>4. \A n \in 1 .. L : g[n] = Eight(g[n - 1] ^^ bad[n]) /\ g[0] = 0
    BY <1>1, <1>3 DEF Over
  <2>5. \A n \in 0 .. L : f[n] \in Word16 /\ g[n] \in Word16
    BY <1>1, <1>2, <1>3 DEF Over
  <2> QED BY <1>1, <1>2, <1>3, <2>1, <2>2, <2>3, <2>4, <2>5
<1>5. f[i - 1] = g[i - 1]
  <2>1. AgreeOn(f, g, i - 1)  BY <1>4 DEF AgreeOn
  <2>2. i - 1 \in Nat  BY <1>4
  <2>3. Agree(f, g, i - 1)  BY <2>1, <2>2, SameRecursion
  <2> QED BY <2>2, <2>3 DEF Agree
<1>6. \E j \in 1 .. L : buf[j] # bad[j]  BY <1>1
<1>7. PICK k \in {i, i + 1} : k <= L /\ (k = i + 1 \/ k = L) /\ f[k] # g[k]
  <2>1. i - 1 \in 0 .. L /\ f[i - 1] \in Word16  BY <1>4
  <2>2. CASE i = L
    <3>1. buf[i] # bad[i]  BY <1>4, <1>6, <2>2
    <3>2. f[i] # g[i]  BY <1>4, <1>5, <2>1, <3>1, RegisterInjective
    <3> QED BY <2>2, <3>2
  <2>3. CASE i + 1 \in 1 .. L
    <3>1. buf[i] # bad[i] \/ buf[i + 1] # bad[i + 1]  BY <1>4, <1>6
    <3>2. f[i] = Eight(f[i - 1] ^^ buf[i]) /\ g[i] = Eight(f[i - 1] ^^ bad[i])  BY <1>4, <1>5
    <3>3. (i + 1) - 1 = i  BY <1>4
    <3>4. f[i + 1] = Eight(f[i] ^^ buf[i + 1]) /\ g[i + 1] = Eight(g[i] ^^ bad[i + 1])
      BY <1>4, <2>3, <3>3
    <3>5. buf[i] \in Byte /\ bad[i] \in Byte /\ buf[i + 1] \in Byte /\ bad[i + 1] \in Byte
      BY <1>4, <2>3
    <3>6. f[i + 1] # g[i + 1]
      BY <2>1, <3>1, <3>2, <3>4, <3>5, TwoBytes
    <3> QED BY <2>3, <3>6
  <2> QED BY <1>4, <2>2, <2>3
<1>8. k \in 1 .. L /\ \A n \in k + 1 .. L : n \in 1 .. L /\ buf[n] = bad[n]
  <2>1. k \in 1 .. L  BY <1>4, <1>7
  <2> SUFFICES ASSUME NEW n \in k + 1 .. L PROVE n \in 1 .. L /\ buf[n] = bad[n]
    BY <2>1
  <2>2. n \in 1 .. L /\ n # i  BY <1>4, <1>7, <2>1
  <2>3. n # i + 1  BY <1>4, <1>7, <2>1
  <2> QED BY <1>4, <2>2, <2>3
<1>9. \A n \in k + 1 .. L : f[n - 1] # g[n - 1] => f[n] # g[n]
  <2> SUFFICES ASSUME NEW n \in k + 1 .. L, f[n] = g[n] PROVE f[n - 1] = g[n - 1]  OBVIOUS
  <2>1. n \in 1 .. L /\ buf[n] = bad[n] /\ buf[n] \in Byte  BY <1>4, <1>8
  <2>2. f[n - 1] \in Word16 /\ g[n - 1] \in Word16  BY <1>4, <2>1
  <2>3. Eight(f[n - 1] ^^ buf[n]) = Eight(g[n - 1] ^^ buf[n])  BY <1>4, <2>1
  <2> QED BY <2>1, <2>2, <2>3, RegisterInjective
<1> DEFINE T == {n \in Nat : k <= n /\ n <= L => f[n] # g[n]}
<1>10. 0 \in T  BY <1>8
<1>11. ASSUME NEW n \in Nat, n \in T PROVE n + 1 \in T
  <2> SUFFICES ASSUME k <= n + 1, n + 1 <= L PROVE f[n + 1] # g[n + 1]  OBVIOUS
  <2>1. CASE k = n + 1  BY <1>7, <2>1
  <2>2. CASE k <= n
    <3>1. n + 1 \in k + 1 .. L /\ (n + 1) - 1 = n  BY <1>8, <2>2
    <3>2. f[n] # g[n]  BY <1>11, <2>2
    <3> QED BY <1>9, <3>1, <3>2
  <2> QED BY <1>8, <2>1, <2>2
<1> HIDE DEF T
<1>12. Nat \subseteq T  BY <1>10, <1>11, SetInduction
<1>13. f[L] # g[L]  BY <1>8, <1>12 DEF T
<1> QED BY <1>2, <1>3, <1>13

-----------------------------------------------------------------------------
(* The CRCs that packet_hex has typed in.                                  *)

LEMMA Bit ==
  ASSUME NEW b \in 0 .. 7
  PROVE  2 ^ b \in {1, 2, 4, 8, 16, 32, 64, 128}
<1>0. CASE b = 0  BY <1>0
<1>1. CASE b = 1  BY <1>1
<1>2. CASE b = 2  BY <1>2
<1>3. CASE b = 3  BY <1>3
<1>4. CASE b = 4  BY <1>4
<1>5. CASE b = 5  BY <1>5
<1>6. CASE b = 6  BY <1>6
<1>7. CASE b = 7  BY <1>7
<1> QED BY <1>0, <1>1, <1>2, <1>3, <1>4, <1>5, <1>6, <1>7

LEMMA Tens ==
  ASSUME NEW e \in 0 .. 8
  PROVE  10 ^ e \in Nat /\ 10 ^ e >= 1 /\ 10 ^ (e + 1) = 10 * 10 ^ e
<1>0. CASE e = 0  BY <1>0
<1>1. CASE e = 1  BY <1>1
<1>2. CASE e = 2  BY <1>2
<1>3. CASE e = 3  BY <1>3
<1>4. CASE e = 4  BY <1>4
<1>5. CASE e = 5  BY <1>5
<1>6. CASE e = 6  BY <1>6
<1>7. CASE e = 7  BY <1>7
<1>8. CASE e = 8  BY <1>8
<1> QED BY <1>0, <1>1, <1>2, <1>3, <1>4, <1>5, <1>6, <1>7, <1>8

LEMMA XorStep ==
  /\ \A a, b \in Nat : a < 65536 /\ b < 65536 => a ^^ b = 2 * ((a \div 2) ^^ (b \div 2)) + ((a + b) % 2)
  /\ \A b \in Nat : b < 65536 => 0 ^^ b = b
<1>1. ASSUME NEW b \in Nat, b < 65536 PROVE 0 ^^ b = b
  <2>1. 0 \in Word16 /\ b \in Word16  BY <1>1, Words
  <2> QED BY <2>1, XorHalves
<1>2. ASSUME NEW a \in Nat, NEW b \in Nat, a < 65536, b < 65536
      PROVE  a ^^ b = 2 * ((a \div 2) ^^ (b \div 2)) + ((a + b) % 2)
  <2>1. a \in Word16 /\ b \in Word16  BY <1>2, Words
  <2>2. a ^^ b \in Nat /\ (a ^^ b) \div 2 = (a \div 2) ^^ (b \div 2) /\ (a ^^ b) % 2 = (a + b) % 2
    BY <2>1, XorHalves
  <2>3. \A x \in Nat : x = 2 * (x \div 2) + (x % 2)  OBVIOUS
  <2> QED BY <2>2, <2>3
<1> QED BY <1>1, <1>2

LEMMA FixedXors ==
  /\ 192 ^^ 49 = 241 /\ 192 ^^ 50 = 242 /\ 192 ^^ 51 = 243
  /\ 29 ^^ 33985 = 34012 /\ 29 ^^ 34177 = 34204 /\ 29 ^^ 17728 = 17757
<1>1. 192 ^^ 49 = 241  BY XorStep
<1>2. 192 ^^ 50 = 242  BY XorStep
<1>3. 192 ^^ 51 = 243  BY XorStep
<1>4. 29 ^^ 33985 = 34012  BY XorStep
<1>5. 29 ^^ 34177 = 34204  BY XorStep
<1>6. 29 ^^ 17728 = 17757  BY XorStep
<1> QED BY <1>1, <1>2, <1>3, <1>4, <1>5, <1>6

LEMMA FixedEntries ==
  /\ crc16_table[49] = 5120 /\ crc16_table[50] = 54465 /\ crc16_table[46] = 7616
  /\ crc16_table[242] = 33985 /\ crc16_table[243] = 34177 /\ crc16_table[244] = 17728
  BY DEF crc16_table

LEMMA OneByte ==
  ASSUME NEW a \in Byte
  PROVE  Polynomial(<< a >>) = crc16_table[a + 1]
<1>1. PICK s : s = << a >>  OBVIOUS
<1>2. s \in Seq(Byte) /\ Len(s) = 1 /\ s[1] = a  BY <1>1
<1>3. PICK f : Over(s, f) /\ Polynomial(s) = f[1]  BY <1>2, CrcOver
<1>4. f[0] = 0 /\ f[1] = Eight(f[0] ^^ s[1])
  <2>1. f[0] = 0 /\ \A n \in 1 .. 1 : f[n] = Eight(f[n - 1] ^^ s[n])
    BY <1>2, <1>3 DEF Over
  <2>2. f[1] = Eight(f[1 - 1] ^^ s[1])  BY <2>1
  <2> QED BY <2>1, <2>2
<1>5. 0 ^^ a = a  BY XorHalves, BytesAreWords, Words
<1>6. crc16_table[a + 1] = Eight(a)  BY CrcTable DEF Byte
<1> QED BY <1>1, <1>2, <1>3, <1>4, <1>5, <1>6

LEMMA TwoByteCrc ==
  ASSUME NEW a \in Byte, NEW b \in Byte, NEW w, w = crc16_table[a + 1]
  PROVE  Polynomial(<< a, b >>) = (w \div 256) ^^ crc16_table[((w % 256) ^^ b) + 1]
<1>1. PICK s : s = << a, b >>  OBVIOUS
<1>2. s \in Seq(Byte) /\ Len(s) = 2 /\ s[1] = a /\ s[2] = b  BY <1>1
<1>3. PICK f : Over(s, f) /\ Polynomial(s) = f[2]  BY <1>2, CrcOver
<1>4. f[0] = 0 /\ f[1] = Eight(f[0] ^^ s[1]) /\ f[2] = Eight(f[1] ^^ s[2]) /\ f[1] \in Word16
  <2>1. f[0] = 0 /\ \A n \in 1 .. 2 : f[n] = Eight(f[n - 1] ^^ s[n])
    BY <1>2, <1>3 DEF Over
  <2>2. f[1] = Eight(f[1 - 1] ^^ s[1]) /\ f[2] = Eight(f[2 - 1] ^^ s[2])  BY <2>1
  <2>3. f \in [0 .. 2 -> Word16]  BY <1>2, <1>3 DEF Over
  <2> QED BY <2>1, <2>2, <2>3
<1>5. 0 ^^ a = a  BY XorHalves, BytesAreWords, Words
<1>6. crc16_table[a + 1] = Eight(a)  BY CrcTable DEF Byte
<1>7. f[1] = w  BY <1>2, <1>4, <1>5, <1>6
<1>8. CrcStep(w, b) = Eight(w ^^ b)  BY <1>4, <1>7, CrcStepIs
<1> QED BY <1>1, <1>2, <1>3, <1>4, <1>7, <1>8 DEF CrcStep

LEMMA FixedCrcs ==
  /\ Polynomial(<< 48 >>) = 5120 /\ Polynomial(<< 49 >>) = 54465
  /\ Polynomial(<< 45, 49 >>) = 34012 /\ Polynomial(<< 45, 50 >>) = 34204
  /\ Polynomial(<< 45, 51 >>) = 17757
<1>1. 45 \in Byte /\ 48 \in Byte /\ 49 \in Byte /\ 50 \in Byte /\ 51 \in Byte  BY Bytes
<1>2. Polynomial(<< 48 >>) = 5120 /\ Polynomial(<< 49 >>) = 54465
  BY <1>1, OneByte, FixedEntries
<1>3. 7616 \div 256 = 29 /\ 7616 % 256 = 192  OBVIOUS
<1>4. crc16_table[45 + 1] = 7616  BY FixedEntries
<1>5. \A b \in Byte : Polynomial(<< 45, b >>) = 29 ^^ crc16_table[(192 ^^ b) + 1]
  BY <1>1, <1>3, <1>4, TwoByteCrc
<1>6. Polynomial(<< 45, 49 >>) = 34012  BY <1>1, <1>5, FixedXors, FixedEntries
<1>7. Polynomial(<< 45, 50 >>) = 34204  BY <1>1, <1>5, FixedXors, FixedEntries
<1>8. Polynomial(<< 45, 51 >>) = 17757  BY <1>1, <1>5, FixedXors, FixedEntries
<1> QED BY <1>2, <1>6, <1>7, <1>8

LEMMA NoFixedByte ==
  \A l \in 1 .. 255 : crc16_table[l + 1] # 257 * l
  BY SMTT(100) DEF crc16_table

LEMMA Piece ==
  ASSUME NEW S, NEW s \in Seq(S), NEW m \in Nat, NEW n \in Nat, 1 <= m, m <= n, n <= Len(s)
  PROVE  /\ SubSeq(s, m, n) \in Seq(S) /\ Len(SubSeq(s, m, n)) = n - m + 1
         /\ \A i \in 1 .. n - m + 1 : SubSeq(s, m, n)[i] = s[m + i - 1]
  OBVIOUS

\* q is s followed by t.
Joined(q, s, t) ==
  /\ Len(q) = Len(s) + Len(t)
  /\ \A i \in 1 .. Len(s) : q[i] = s[i]
  /\ \A i \in 1 .. Len(t) : q[Len(s) + i] = t[i]

LEMMA Join ==
  ASSUME NEW S, NEW s \in Seq(S), NEW t \in Seq(S)
  PROVE  s \o t \in Seq(S) /\ Joined(s \o t, s, t)
<1>1. s \o t \in Seq(S)  OBVIOUS
<1>2. Len(s \o t) = Len(s) + Len(t)  OBVIOUS
<1>3. \A i \in 1 .. Len(s) : (s \o t)[i] = s[i]  OBVIOUS
<1>4. \A i \in 1 .. Len(t) : (s \o t)[Len(s) + i] = t[i]  OBVIOUS
<1> QED BY <1>1, <1>2, <1>3, <1>4, Zenon DEF Joined

\* q is the bytes of body between a and z.
Between(q, a, body, z) ==
  /\ q \in Seq(Byte)
  /\ Len(q) = Len(body) + 2
  /\ q[1] = a /\ q[Len(body) + 2] = z
  /\ \A i \in 1 .. Len(body) : q[i + 1] = body[i]

LEMMA Enclose ==
  ASSUME NEW body \in Seq(Byte), NEW a \in Byte, NEW z \in Byte
  PROVE  Between(<< a >> \o body \o << z >>, a, body, z)
<1>1. PICK h : h = << a >>  OBVIOUS
<1>2. PICK e : e = << z >>  OBVIOUS
<1>3. h \in Seq(Byte) /\ Len(h) = 1 /\ h[1] = a  BY <1>1
<1>4. e \in Seq(Byte) /\ Len(e) = 1 /\ e[1] = z  BY <1>2
<1>5. PICK p : p = h \o body  OBVIOUS
<1>6. p \in Seq(Byte) /\ Joined(p, h, body)  BY <1>3, <1>5, Join, Zenon
<1>7. PICK q : q = p \o e  OBVIOUS
<1>8. q \in Seq(Byte) /\ Joined(q, p, e)  BY <1>4, <1>6, <1>7, Join, Zenon
<1>9. PICK n \in Nat : n = Len(body)  OBVIOUS
<1>10. Len(p) = n + 1 /\ p[1] = a /\ \A i \in 1 .. n : p[1 + i] = body[i]
  BY <1>3, <1>6, <1>9 DEF Joined
<1>11. Len(q) = n + 2 /\ q[n + 2] = z /\ \A i \in 1 .. n + 1 : q[i] = p[i]
  <2>1. Len(q) = (n + 1) + 1  BY <1>4, <1>8, <1>10 DEF Joined
  <2>2. \A i \in 1 .. 1 : q[(n + 1) + i] = e[i]  BY <1>4, <1>8, <1>10 DEF Joined
  <2>3. q[(n + 1) + 1] = e[1]  BY <2>2
  <2>4. \A i \in 1 .. n + 1 : q[i] = p[i]  BY <1>8, <1>10 DEF Joined
  <2> QED BY <1>4, <1>9, <2>1, <2>3, <2>4
<1>12. q[1] = a /\ \A i \in 1 .. n : q[i + 1] = body[i]
  <2>1. q[1] = p[1] /\ \A i \in 1 .. n : q[i + 1] = p[1 + i]  BY <1>9, <1>11
  <2> QED BY <1>10, <2>1
<1>13. Between(q, a, body, z)  BY <1>8, <1>9, <1>11, <1>12 DEF Between
<1> QED BY <1>1, <1>2, <1>5, <1>7, <1>13, Zenon

\* The buffer as packet_hex leaves it.
HexPacked(val) ==
  /\ send_buf = Fresh(<< Header >> \o HexBody(val) \o << Ending >>)
  /\ send_len = Len(HexBody(val)) + 2

\* A reply of n bytes of text, with its CRC.
CrcAt(n) ==
  /\ n \in Nat /\ send_len = n + 4 /\ Body \in Seq(Byte) /\ Len(Body) = n
  /\ Polynomial(Body) = 256 * send_buf[n + 2] + send_buf[n + 3]

LEMMA OneFrom ==
  ASSUME NEW s, NEW a \in Byte, s[2] = a
  PROVE  SubSeq(s, 2, 2) = << a >>
<1>1. \A i \in 2 .. 2 : s[i] \in Byte  OBVIOUS
<1>2. PICK q : q = SubSeq(s, 2, 2)  OBVIOUS
<1>3. q \in Seq(Byte) /\ Len(q) = 1 /\ q[1] = a
  <2>1. /\ SubSeq(s, 2, 2) \in Seq(Byte)
        /\ Len(SubSeq(s, 2, 2)) = (IF 2 <= 2 THEN 2 - 2 + 1 ELSE 0)
        /\ \A i \in 1 .. 2 - 2 + 1 : SubSeq(s, 2, 2)[i] = s[2 + i - 1]
    BY <1>1, SubSeqProperties
  <2> QED BY <1>2, <2>1
<1>4. << a >> \in Seq(Byte) /\ Len(<< a >>) = 1 /\ << a >>[1] = a  OBVIOUS
<1>5. q = << a >>  BY <1>3, <1>4, SeqEqual
<1> QED BY <1>2, <1>5

LEMMA TwoFrom ==
  ASSUME NEW s, NEW a \in Byte, NEW b \in Byte, s[2] = a, s[3] = b
  PROVE  SubSeq(s, 2, 3) = << a, b >>
<1>1. \A i \in 2 .. 3 : s[i] \in Byte  OBVIOUS
<1>2. PICK q : q = SubSeq(s, 2, 3)  OBVIOUS
<1>3. q \in Seq(Byte) /\ Len(q) = 2 /\ q[1] = a /\ q[2] = b
  <2>1. /\ SubSeq(s, 2, 3) \in Seq(Byte)
        /\ Len(SubSeq(s, 2, 3)) = (IF 2 <= 3 THEN 3 - 2 + 1 ELSE 0)
        /\ \A i \in 1 .. 3 - 2 + 1 : SubSeq(s, 2, 3)[i] = s[2 + i - 1]
    BY <1>1, SubSeqProperties
  <2> QED BY <1>2, <2>1
<1>4. << a, b >> \in Seq(Byte) /\ Len(<< a, b >>) = 2 /\ << a, b >>[1] = a /\ << a, b >>[2] = b
  OBVIOUS
<1>5. q = << a, b >>  BY <1>3, <1>4, SeqEqual
<1> QED BY <1>2, <1>5

LEMMA HexThree ==
  ASSUME NEW val, HexPacked(val), NEW a \in Byte, NEW b \in Byte, NEW c \in Byte,
         HexBody(val) = << a, b, c >>, Polynomial(<< a >>) = 256 * b + c
  PROVE  CrcAt(1)
<1>1. PICK h : h = HexBody(val)  OBVIOUS
<1>2. h \in Seq(Byte) /\ Len(h) = 3 /\ h[1] = a /\ h[2] = b /\ h[3] = c  BY <1>1
<1>3. Header \in Byte /\ Ending \in Byte  BY Bytes DEF Header, Ending
<1>4. PICK q : q = << Header >> \o h \o << Ending >>  OBVIOUS
<1>5. Between(q, Header, h, Ending)  BY <1>2, <1>3, <1>4, Enclose, Zenon
<1>6. Len(q) = 5 /\ q[2] = a /\ q[3] = b /\ q[4] = c
  <2>1. Len(q) = 3 + 2 /\ \A i \in 1 .. 3 : q[i + 1] = h[i]  BY <1>2, <1>5 DEF Between
  <2>2. q[1 + 1] = h[1] /\ q[2 + 1] = h[2] /\ q[3 + 1] = h[3]  BY <2>1
  <2> QED BY <1>2, <2>1, <2>2
<1>7. send_buf = Fresh(q) /\ send_len = 5
  <2>1. send_buf = Fresh(q)  BY <1>1, <1>4 DEF HexPacked
  <2>2. send_len = 3 + 2  BY <1>1, <1>2 DEF HexPacked
  <2> QED BY <2>1, <2>2
<1>8. send_buf[2] = a /\ send_buf[3] = b /\ send_buf[4] = c
  <2>1. \A i \in 1 .. MaxLen : i <= 5 => send_buf[i] = q[i]  BY <1>6, <1>7 DEF Fresh
  <2>2. MaxLen \in Nat /\ MaxLen > 16  BY PcFramesAssumption
  <2> QED BY <1>6, <2>1, <2>2
<1>9. Body = << a >>
  <2>1. Body = SubSeq(send_buf, 2, 2)  BY <1>7 DEF Body
  <2>2. SubSeq(send_buf, 2, 2) = << a >>  BY <1>8, OneFrom
  <2> QED BY <2>1, <2>2
<1>10. << a >> \in Seq(Byte) /\ Len(<< a >>) = 1  OBVIOUS
<1> QED BY <1>7, <1>8, <1>9, <1>10 DEF CrcAt

LEMMA HexFour ==
  ASSUME NEW val, HexPacked(val), NEW a \in Byte, NEW b \in Byte, NEW c \in Byte, NEW d \in Byte,
         HexBody(val) = << a, b, c, d >>, Polynomial(<< a, b >>) = 256 * c + d
  PROVE  CrcAt(2)
<1>1. PICK h : h = HexBody(val)  OBVIOUS
<1>2. h \in Seq(Byte) /\ Len(h) = 4 /\ h[1] = a /\ h[2] = b /\ h[3] = c /\ h[4] = d  BY <1>1
<1>3. Header \in Byte /\ Ending \in Byte  BY Bytes DEF Header, Ending
<1>4. PICK q : q = << Header >> \o h \o << Ending >>  OBVIOUS
<1>5. Between(q, Header, h, Ending)  BY <1>2, <1>3, <1>4, Enclose, Zenon
<1>6. Len(q) = 6 /\ q[2] = a /\ q[3] = b /\ q[4] = c /\ q[5] = d
  <2>1. Len(q) = 4 + 2 /\ \A i \in 1 .. 4 : q[i + 1] = h[i]  BY <1>2, <1>5 DEF Between
  <2>2. q[1 + 1] = h[1] /\ q[2 + 1] = h[2] /\ q[3 + 1] = h[3] /\ q[4 + 1] = h[4]  BY <2>1
  <2> QED BY <1>2, <2>1, <2>2
<1>7. send_buf = Fresh(q) /\ send_len = 6
  <2>1. send_buf = Fresh(q)  BY <1>1, <1>4 DEF HexPacked
  <2>2. send_len = 4 + 2  BY <1>1, <1>2 DEF HexPacked
  <2> QED BY <2>1, <2>2
<1>8. send_buf[2] = a /\ send_buf[3] = b /\ send_buf[4] = c /\ send_buf[5] = d
  <2>1. \A i \in 1 .. MaxLen : i <= 6 => send_buf[i] = q[i]  BY <1>6, <1>7 DEF Fresh
  <2>2. MaxLen \in Nat /\ MaxLen > 16  BY PcFramesAssumption
  <2> QED BY <1>6, <2>1, <2>2
<1>9. Body = << a, b >>
  <2>1. Body = SubSeq(send_buf, 2, 3)  BY <1>7 DEF Body
  <2>2. SubSeq(send_buf, 2, 3) = << a, b >>  BY <1>8, TwoFrom
  <2> QED BY <2>1, <2>2
<1>10. << a, b >> \in Seq(Byte) /\ Len(<< a, b >>) = 2  OBVIOUS
<1> QED BY <1>7, <1>8, <1>9, <1>10 DEF CrcAt

LEMMA HexRight ==
  ASSUME NEW val \in {-3, -2, -1, 0, 1}, HexPacked(val)
  PROVE  \E n : CrcAt(n)
<1>0. \A b \in {0, 20, 45, 48, 49, 50, 51, 69, 93, 132, 133, 156, 193, 212, 220} : b \in Byte
  BY Bytes
<1>1. CASE val = 0
  <2>1. HexBody(val) = << 48, 20, 0 >>  BY <1>1 DEF HexBody, Zero
  <2> QED BY <1>0, <2>1, FixedCrcs, HexThree
<1>2. CASE val = 1
  <2>1. HexBody(val) = << 49, 212, 193 >>  BY <1>2 DEF HexBody, Zero
  <2> QED BY <1>0, <2>1, FixedCrcs, HexThree
<1>3. CASE val = -1
  <2>1. HexBody(val) = << 45, 49, 132, 220 >>  BY <1>3 DEF HexBody, Zero, Minus
  <2> QED BY <1>0, <2>1, FixedCrcs, HexFour
<1>4. CASE val = -2
  <2>1. HexBody(val) = << 45, 50, 133, 156 >>  BY <1>4 DEF HexBody, Zero, Minus
  <2> QED BY <1>0, <2>1, FixedCrcs, HexFour
<1>5. CASE val = -3
  <2>1. HexBody(val) = << 45, 51, 69, 93 >>  BY <1>5 DEF HexBody, Zero, Minus
  <2> QED BY <1>0, <2>1, FixedCrcs, HexFour
<1> QED BY <1>1, <1>2, <1>3, <1>4, <1>5

-----------------------------------------------------------------------------
(* What sprintf writes of a number.                                        *)

LEMMA LeastElement ==
  ASSUME NEW S \in SUBSET Nat, NEW s \in S
  PROVE  \E d \in S : \A e \in S : d <= e
<1> SUFFICES ASSUME \A d \in S : \E e \in S : e < d PROVE FALSE
  BY \A d, e \in S : ~ (d <= e) => e < d
<1> DEFINE T == {n \in Nat : \A m \in 0 .. n : m \notin S}
<1>1. 0 \in T  OBVIOUS
<1>2. \A n \in Nat : n \in T => n + 1 \in T  OBVIOUS
<1>3. Nat \subseteq T
  <2> HIDE DEF T
  <2> QED BY <1>1, <1>2, SetInduction
<1> QED BY <1>3

\* The i-th of the d digits of n.
Digit(n, d, i) == (n \div 10 ^ (d - i)) % 10

LEMMA Power ==
  ASSUME NEW e \in 0 .. 9
  PROVE  10 ^ e \in Nat /\ 10 ^ e >= 1
<1>1. CASE e \in 0 .. 8  BY <1>1, Tens
<1>2. CASE e = 9  BY <1>2
<1> QED BY <1>1, <1>2

LEMMA DigitRange ==
  ASSUME NEW n \in Nat, NEW d \in 0 .. 9, NEW i \in 1 .. d
  PROVE  Digit(n, d, i) \in 0 .. 9
<1>1. d - i \in 0 .. 9  OBVIOUS
<1>2. PICK p : p = 10 ^ (d - i)  OBVIOUS
<1>3. p \in Nat /\ p >= 1  BY <1>1, <1>2, Power
<1>4. n \div p \in Nat  BY <1>3
<1>5. (n \div p) % 10 \in 0 .. 9  BY <1>4
<1> QED BY <1>2, <1>5 DEF Digit

\* s is the d digits of n, the least number of them that holds n and is k.
Written(s, n, k, d) ==
  /\ d \in k .. 9 /\ n < 10 ^ d /\ \A e \in k .. d - 1 : n >= 10 ^ e
  /\ s \in Seq(Byte) /\ Len(s) = d
  /\ \A i \in 1 .. d : s[i] = 48 + Digit(n, d, i)

LEMMA DecimalIs ==
  ASSUME NEW n \in Nat, n < 10 ^ 9, NEW k \in 0 .. 9
  PROVE  \E d : Written(Decimal(n, k), n, k, d)
<1> DEFINE Good(d) == n < 10 ^ d /\ \A e \in k .. d - 1 : n >= 10 ^ e
           x == CHOOSE d \in k .. 9 : Good(d)
           S == {d \in k .. 9 : n < 10 ^ d}
<1>1. \E d \in k .. 9 : Good(d)
  <2>1. S \in SUBSET Nat /\ 9 \in S  OBVIOUS
  <2>2. PICK d \in S : \A e \in S : d <= e
    <3> HIDE DEF S
    <3> QED BY <2>1, LeastElement
  <2>3. ASSUME NEW e \in k .. d - 1 PROVE n >= 10 ^ e
    <3>1. e \in k .. 9 /\ ~ (d <= e) /\ e \in 0 .. 9  OBVIOUS
    <3>2. ~ (n < 10 ^ e)  BY <2>2, <3>1
    <3> QED BY <3>1, <3>2, Power
  <2> QED BY <2>2, <2>3
<1>2. x \in k .. 9 /\ Good(x)  BY <1>1, Zenon
<1>3. Decimal(n, k) = [i \in 1 .. x |-> Zero + ((n \div 10 ^ (x - i)) % 10)]
  BY DEF Decimal
<1> HIDE DEF x
<1>4. PICK s : s = [i \in 1 .. x |-> 48 + Digit(n, x, i)]  OBVIOUS
<1>5. Decimal(n, k) = s  BY <1>3, <1>4 DEF Digit, Zero
<1>6. x \in 0 .. 9  BY <1>2
<1>7. \A i \in 1 .. x : 48 + Digit(n, x, i) \in Byte
  <2> TAKE i \in 1 .. x
  <2>1. Digit(n, x, i) \in 0 .. 9  BY <1>6, DigitRange
  <2> QED BY <2>1, Bytes
<1>8. s \in Seq(Byte) /\ Len(s) = x  BY <1>4, <1>6, <1>7
<1>9. \A i \in 1 .. x : s[i] = 48 + Digit(n, x, i)  BY <1>4
<1>10. Written(s, n, k, x)  BY <1>2, <1>8, <1>9 DEF Written
<1> QED BY <1>5, <1>10

\* t is p blanks, the number w, and, when there are digits after the point, the
\* point and the k of them, f.
Printed(t, p, w, d, k, f) ==
  /\ t \in Seq(Byte) /\ p \in Nat /\ d \in 1 .. 9
  /\ Len(t) = p + d + (IF k = 0 THEN 0 ELSE k + 1)
  /\ \A i \in 1 .. p : t[i] = 32
  /\ \A i \in 1 .. d : t[p + i] = 48 + Digit(w, d, i)
  /\ k > 0 => /\ t[p + d + 1] = 46
              /\ \A i \in 1 .. k : t[p + d + 1 + i] = 48 + Digit(f, k, i)

LEMMA DivMod ==
  ASSUME NEW n \in Nat, NEW p \in Nat, p >= 1
  PROVE  /\ n \div p \in Nat /\ n % p \in Nat /\ n % p < p /\ n \div p <= n
         /\ n = p * (n \div p) + (n % p)
  OBVIOUS

\* s is a text of n bytes.
Text(s, n) == n \in Nat /\ s \in Seq(Byte) /\ Len(s) = n

\* q is s, m bytes, and t, n bytes.
Pieces(q, s, m, t, n) ==
  /\ Text(q, m + n)
  /\ \A i \in 1 .. m : q[i] = s[i]
  /\ \A i \in 1 .. n : q[m + i] = t[i]

LEMMA JoinAt ==
  ASSUME NEW s, NEW t, NEW m, NEW n, Text(s, m), Text(t, n)
  PROVE  Pieces(s \o t, s, m, t, n)
<1>1. s \in Seq(Byte) /\ t \in Seq(Byte)  BY DEF Text
<1>2. PICK q : q = s \o t  OBVIOUS
<1>3. Joined(q, s, t) /\ q \in Seq(Byte)  BY <1>1, <1>2, Join, Zenon
<1>4. Pieces(q, s, m, t, n)  BY <1>3 DEF Joined, Pieces, Text
<1> QED BY <1>2, <1>4, Zenon

\* t is p blanks and the n bytes of x.
Padded(t, p, x, n) ==
  /\ Text(t, p + n)
  /\ \A i \in 1 .. p : t[i] = 32
  /\ \A i \in 1 .. n : t[p + i] = x[i]

LEMMA Pad ==
  ASSUME NEW p \in Nat, NEW x, NEW n, Text(x, n)
  PROVE  Padded([i \in 1 .. p |-> Blank] \o x, p, x, n)
<1>1. PICK b : b = [i \in 1 .. p |-> Blank]  OBVIOUS
<1>2. Text(b, p) /\ \A i \in 1 .. p : b[i] = 32
  <2>1. 32 \in Byte  BY Bytes
  <2> QED BY <1>1, <2>1 DEF Blank, Text
<1>3. PICK t : t = b \o x  OBVIOUS
<1>4. Pieces(t, b, p, x, n)  BY <1>2, <1>3, JoinAt, Zenon
<1>5. Padded(t, p, x, n)  BY <1>2, <1>4 DEF Pieces, Padded
<1> QED BY <1>1, <1>3, <1>5, Zenon

LEMMA FormatInteger ==
  ASSUME NEW val \in Nat, val < 10 ^ 9, NEW itg \in 1 .. 4
  PROVE  \E p, d, x : /\ Printed(Format(val, itg, 0), p, val, d, 0, 0)
                      /\ Written(x, val, 1, d)
                      /\ p = 0 \/ Len(Format(val, itg, 0)) <= itg
<1>1. PICK x : x = Decimal(val, 1)  OBVIOUS
<1>2. PICK d : Written(x, val, 1, d)  BY <1>1, DecimalIs
<1>3. d \in 1 .. 9 /\ x \in Seq(Byte) /\ Len(x) = d /\ \A i \in 1 .. d : x[i] = 48 + Digit(val, d, i)
  BY <1>2 DEF Written
<1>4. x \o << >> = x  BY <1>3, ConcatEmptySeq
<1>5. 10 ^ 0 = 1 /\ val \div 1 = val  OBVIOUS
<1>6. PICK p : p = IF Len(x) < itg THEN itg - Len(x) ELSE 0  OBVIOUS
<1>7. p \in Nat  BY <1>3, <1>6
<1>8. Format(val, itg, 0) = [i \in 1 .. p |-> Blank] \o x
  <2>1. Decimal(val \div 10 ^ 0, 1) \o << >> = x  BY <1>1, <1>4, <1>5
  <2> QED BY <2>1, <1>6 DEF Format
<1>9. PICK t : t = [i \in 1 .. p |-> Blank] \o x  OBVIOUS
<1>10. Padded(t, p, x, d)
  <2>1. Text(x, d)  BY <1>3 DEF Text
  <2> QED BY <1>7, <1>9, <2>1, Pad, Zenon
<1>11. Printed(t, p, val, d, 0, 0)  BY <1>3, <1>7, <1>10 DEF Printed, Padded, Text
<1>12. p = 0 \/ Len(t) <= itg
  <2>1. Len(t) = p + d  BY <1>10 DEF Padded, Text
  <2> QED BY <1>3, <1>6, <2>1
<1> QED BY <1>2, <1>8, <1>9, <1>11, <1>12, Zenon

LEMMA FormatPoint ==
  ASSUME NEW val \in Nat, val < 10 ^ 9, NEW itg \in 1 .. 4, NEW dcm \in 1 .. 2
  PROVE  \E p, d, x : /\ Printed(Format(val, itg, dcm), p, val \div 10 ^ dcm, d, dcm, val % 10 ^ dcm)
                      /\ Written(x, val \div 10 ^ dcm, 1, d)
                      /\ p = 0 \/ Len(Format(val, itg, dcm)) <= itg
<1>0. PICK s \in Nat : s = 10 ^ dcm /\ s >= 1
  <2>1. dcm \in 0 .. 9  OBVIOUS
  <2> QED BY <2>1, Power
<1>1. PICK w \in Nat : w = val \div s /\ w < 10 ^ 9  BY <1>0, DivMod
<1>2. PICK f \in Nat : f = val % s /\ f < 10 ^ dcm /\ f < 10 ^ 9
  <2>1. val % s \in Nat /\ val % s < s /\ val % s <= val  BY <1>0, DivMod
  <2> QED BY <1>0, <2>1
<1>3. PICK x : x = Decimal(w, 1)  OBVIOUS
<1>4. PICK d : Written(x, w, 1, d)  BY <1>1, <1>3, DecimalIs
<1>5. d \in 1 .. 9 /\ x \in Seq(Byte) /\ Len(x) = d /\ \A i \in 1 .. d : x[i] = 48 + Digit(w, d, i)
  BY <1>4 DEF Written
<1>6. PICK y : y = Decimal(f, dcm)  OBVIOUS
<1>7. PICK e : Written(y, f, dcm, e)  BY <1>2, <1>6, DecimalIs
<1>8. e = dcm
  <2>1. e \in dcm .. 9 /\ \A g \in dcm .. e - 1 : f >= 10 ^ g  BY <1>7 DEF Written
  <2>2. e # dcm => f >= 10 ^ dcm  BY <2>1
  <2> QED BY <1>0, <1>2, <2>2
<1>9. y \in Seq(Byte) /\ Len(y) = dcm /\ \A i \in 1 .. dcm : y[i] = 48 + Digit(f, dcm, i)
  BY <1>7, <1>8 DEF Written
<1>10. PICK o : o = << Dot >>  OBVIOUS
<1>11. o \in Seq(Byte) /\ Len(o) = 1 /\ o[1] = 46
  <2>1. 46 \in Byte  BY Bytes
  <2> QED BY <1>10, <2>1 DEF Dot
<1>12. PICK z : z = o \o y  OBVIOUS
<1>13. /\ Text(z, 1 + dcm) /\ z[1] = 46
       /\ \A i \in 1 .. dcm : z[1 + i] = y[i]
  <2>1. Text(o, 1) /\ Text(y, dcm)  BY <1>9, <1>11 DEF Text
  <2>2. Pieces(z, o, 1, y, dcm)  BY <1>12, <2>1, JoinAt, Zenon
  <2> QED BY <1>11, <2>2 DEF Pieces
<1>14. PICK n \in Nat : n = 1 + dcm  OBVIOUS
<1>15. PICK text : text = x \o z  OBVIOUS
<1>16. /\ Text(text, d + n)
       /\ \A i \in 1 .. d : text[i] = x[i]
       /\ \A i \in 1 .. n : text[d + i] = z[i]
  <2>1. Text(x, d) /\ Text(z, n)  BY <1>5, <1>13, <1>14 DEF Text
  <2>2. Pieces(text, x, d, z, n)  BY <1>15, <2>1, JoinAt, Zenon
  <2> QED BY <2>2 DEF Pieces
<1>17. PICK p : p = IF Len(text) < itg THEN itg - Len(text) ELSE 0  OBVIOUS
<1>18. p \in Nat  BY <1>16, <1>17 DEF Text
<1>19. Format(val, itg, dcm) = [i \in 1 .. p |-> Blank] \o text
  <2>1. dcm # 0  OBVIOUS
  <2>2. text = Decimal(val \div 10 ^ dcm, 1) \o (<< Dot >> \o Decimal(val % 10 ^ dcm, dcm))
    BY <1>0, <1>1, <1>2, <1>3, <1>6, <1>10, <1>12, <1>15
  <2> QED BY <2>1, <2>2, <1>17 DEF Format
<1>20. PICK m \in Nat : m = d + n  BY <1>5
<1>21. PICK t : t = [i \in 1 .. p |-> Blank] \o text  OBVIOUS
<1>21a. /\ t \in Seq(Byte) /\ Len(t) = p + m
        /\ \A i \in 1 .. p : t[i] = 32
        /\ \A i \in 1 .. m : t[p + i] = text[i]
  <2>1. Text(text, m)  BY <1>16, <1>20
  <2>2. Padded(t, p, text, m)  BY <1>18, <1>21, <2>1, Pad, Zenon
  <2> QED BY <2>2 DEF Padded, Text
<1>22. \A i \in 1 .. d : t[p + i] = 48 + Digit(w, d, i)
  <2> TAKE i \in 1 .. d
  <2>1. i \in 1 .. m  BY <1>5, <1>20
  <2>2. t[p + i] = text[i] /\ text[i] = x[i]  BY <1>16, <1>21a, <2>1
  <2> QED BY <1>5, <2>2
<1>23. \A i \in 1 .. n : t[p + d + i] = z[i]
  <2> TAKE i \in 1 .. n
  <2>1. d + i \in 1 .. m /\ p + (d + i) = p + d + i  BY <1>5, <1>18, <1>20
  <2> QED BY <1>16, <1>21a, <2>1
<1>24. t[p + d + 1] = 46  BY <1>13, <1>14, <1>23
<1>25. \A i \in 1 .. dcm : t[p + d + 1 + i] = 48 + Digit(f, dcm, i)
  <2> TAKE i \in 1 .. dcm
  <2>1. 1 + i \in 1 .. n /\ p + d + (1 + i) = p + d + 1 + i  BY <1>5, <1>14, <1>18
  <2> QED BY <1>9, <1>13, <1>23, <2>1
<1>26. Len(t) = p + d + (dcm + 1) /\ dcm # 0  BY <1>5, <1>14, <1>18, <1>20, <1>21a
<1>27. Printed(t, p, w, d, dcm, f)
  BY <1>5, <1>18, <1>21a, <1>22, <1>24, <1>25, <1>26 DEF Printed
<1>28. p = 0 \/ Len(t) <= itg
  <2>1. Len(text) = m /\ Len(t) = p + m  BY <1>16, <1>20, <1>21a DEF Text
  <2> QED BY <1>17, <2>1
<1> QED BY <1>0, <1>1, <1>2, <1>4, <1>19, <1>21, <1>27, <1>28, Zenon

-----------------------------------------------------------------------------
(* What packet_float leaves in the buffer.                                 *)

\* How long packet_float takes the text of a channel for.
TextLen(c) == Digits[c].itg + Digits[c].dcm + 1

Written16(c, val) == Format(val, Digits[c].itg, Digits[c].dcm)

\* The buffer as packet_float leaves it, text in it and n bytes taken for that.
Summed16(n, text) ==
  LET sum == crc16_calc(SubSeq(text, 2, n + 1)) IN
  /\ send_buf = [text EXCEPT ![n + 2] = sum \div 256,
                             ![n + 3] = sum % 256,
                             ![n + 4] = Ending]
  /\ send_len = n + 4

FloatPacked(c, val) ==
  Summed16(TextLen(c), Fresh(<< Header >> \o Written16(c, val)))

LEMMA Places ==
  ASSUME NEW c \in Channels
  PROVE  Digits[c].itg \in 1 .. 4 /\ Digits[c].dcm \in 0 .. 2 /\ TextLen(c) \in 2 .. 7
  BY PcFramesAssumption DEF TextLen

\* t, and no byte after it.
Filled(t, i) == IF i <= Len(t) THEN t[i] ELSE 0

LEMMA SubSeqOf ==
  ASSUME NEW s, NEW n \in Nat, n >= 1, \A i \in 1 .. n : s[i + 1] \in Byte
  PROVE  \E q : q = SubSeq(s, 2, n + 1) /\ Text(q, n) /\ \A i \in 1 .. n : q[i] = s[i + 1]
<1>1. PICK m \in Int : m = n + 1  OBVIOUS
<1>2. \A i \in 2 .. m : s[i] \in Byte
  <2> TAKE i \in 2 .. m
  <2>1. i - 1 \in 1 .. n /\ (i - 1) + 1 = i  BY <1>1
  <2> QED BY <2>1
<1>3. PICK q : q = SubSeq(s, 2, m)  OBVIOUS
<1>4. /\ q \in Seq(Byte) /\ Len(q) = (IF 2 <= m THEN m - 2 + 1 ELSE 0)
      /\ \A i \in 1 .. m - 2 + 1 : q[i] = s[2 + i - 1]
  <2>1. /\ SubSeq(s, 2, m) \in Seq(Byte)
        /\ Len(SubSeq(s, 2, m)) = (IF 2 <= m THEN m - 2 + 1 ELSE 0)
        /\ \A i \in 1 .. m - 2 + 1 : SubSeq(s, 2, m)[i] = s[2 + i - 1]
    BY <1>2, SubSeqProperties
  <2> QED BY <1>3, <2>1, Zenon
<1>5. q \in Seq(Byte) /\ Len(q) = n /\ \A i \in 1 .. n : q[i] = s[i + 1]
  BY <1>1, <1>4
<1> QED BY <1>1, <1>3, <1>5 DEF Text

LEMMA FormatText ==
  ASSUME NEW c \in Channels, NEW val \in Nat, val < 10 ^ 9
  PROVE  Written16(c, val) \in Seq(Byte)
<1>1. Digits[c].itg \in 1 .. 4 /\ Digits[c].dcm \in 0 .. 2  BY Places
<1>2. CASE Digits[c].dcm = 0
  <2>1. PICK p, d, x : Printed(Format(val, Digits[c].itg, 0), p, val, d, 0, 0)
    BY <1>1, FormatInteger
  <2> QED BY <1>2, <2>1 DEF Printed, Written16
<1>3. CASE Digits[c].dcm \in 1 .. 2
  <2>1. PICK p, d, x : Printed(Format(val, Digits[c].itg, Digits[c].dcm), p,
                          val \div 10 ^ Digits[c].dcm, d, Digits[c].dcm,
                          val % 10 ^ Digits[c].dcm)
    BY <1>1, <1>3, FormatPoint
  <2> QED BY <2>1 DEF Printed, Written16
<1> QED BY <1>1, <1>2, <1>3

LEMMA FloatRight ==
  ASSUME NEW c \in Channels, NEW val \in Nat, val < 10 ^ 9, FloatPacked(c, val)
  PROVE  /\ CrcAt(TextLen(c))
         /\ \A i \in 1 .. TextLen(c) : Body[i] = Filled(Written16(c, val), i)
<1>1. PICK t : t = Written16(c, val)  OBVIOUS
<1>2. t \in Seq(Byte)  BY <1>1, FormatText
<1>3. PICK n \in 2 .. 7 : n = TextLen(c)  BY Places
<1>4. PICK h : h = << Header >>  OBVIOUS
<1>5. Text(h, 1) /\ Header \in Byte /\ h[1] = Header
  <2>1. Header \in Byte  BY Bytes DEF Header
  <2> QED BY <1>4, <2>1 DEF Text
<1>6. PICK q : q = h \o t  OBVIOUS
<1>7. PICK m \in Nat : m = Len(t)  BY <1>2
<1>8. Pieces(q, h, 1, t, m)
  <2>1. Text(t, m)  BY <1>2, <1>7 DEF Text
  <2> QED BY <1>5, <1>6, <2>1, JoinAt, Zenon
<1>9. Len(q) = 1 + m /\ \A i \in 1 .. m : q[1 + i] = t[i]  BY <1>8 DEF Pieces, Text
<1>10. PICK S : S = Fresh(q)  OBVIOUS
<1>11. /\ S = [i \in 1 .. MaxLen |-> S[i]]
       /\ \A i \in 1 .. MaxLen : S[i] = IF i <= 1 + m THEN q[i] ELSE 0
  BY <1>9, <1>10 DEF Fresh
<1>12. MaxLen \in Nat /\ MaxLen > 16  BY PcFramesAssumption
<1>13. \A i \in 1 .. n : S[i + 1] = Filled(t, i) /\ Filled(t, i) \in Byte
  <2> TAKE i \in 1 .. n
  <2>1. i + 1 \in 1 .. MaxLen /\ i \in Nat /\ i >= 1  BY <1>12
  <2>2. CASE i <= m
    <3>1. S[i + 1] = q[i + 1]  BY <1>11, <2>1, <2>2
    <3>2. i \in 1 .. m /\ i + 1 = 1 + i  BY <2>1, <2>2
    <3>3. q[i + 1] = t[i] /\ t[i] \in Byte  BY <1>2, <1>7, <1>9, <3>2
    <3> QED BY <1>7, <2>2, <3>1, <3>3 DEF Filled
  <2>3. CASE ~ (i <= m)
    <3>1. S[i + 1] = 0  BY <1>11, <2>1, <2>3
    <3>2. 0 \in Byte  BY Bytes
    <3> QED BY <1>7, <2>3, <3>1, <3>2 DEF Filled
  <2> QED BY <1>7, <2>1, <2>2, <2>3
<1>14. PICK u : /\ u = SubSeq(S, 2, n + 1) /\ Text(u, n)
                /\ \A i \in 1 .. n : u[i] = S[i + 1]
  <2>1. \A i \in 1 .. n : S[i + 1] \in Byte  BY <1>13
  <2>2. n \in Nat /\ n >= 1  OBVIOUS
  <2> QED BY <2>1, <2>2, SubSeqOf
<1>15. PICK sum : sum = crc16_calc(u)  OBVIOUS
<1>16. sum = Polynomial(u) /\ sum \in Nat
  <2>1. u \in Seq(Byte)  BY <1>14 DEF Text
  <2>2. crc16_calc(u) = Polynomial(u) /\ crc16_calc(u) \in Word16  BY <2>1, TableIsPolynomial, Zenon
  <2> QED BY <1>15, <2>2, Words
<1>17. /\ send_len = n + 4
       /\ send_buf = [S EXCEPT ![n + 2] = sum \div 256, ![n + 3] = sum % 256, ![n + 4] = Ending]
  <2>1. << Header >> \o Written16(c, val) = q  BY <1>1, <1>4, <1>6, Zenon
  <2>2. Fresh(<< Header >> \o Written16(c, val)) = S  BY <1>10, <2>1, Zenon
  <2>3. Summed16(n, S)  BY <1>3, <2>2, Zenon DEF FloatPacked
  <2> QED BY <1>14, <1>15, <2>3, Zenon DEF Summed16
<1>18. /\ send_buf[n + 2] = sum \div 256 /\ send_buf[n + 3] = sum % 256
       /\ \A i \in 1 .. n : send_buf[i + 1] = S[i + 1]
  <2>1. n + 2 \in 1 .. MaxLen /\ n + 3 \in 1 .. MaxLen /\ n + 4 \in 1 .. MaxLen  BY <1>12
  <2>2. \A j \in 1 .. MaxLen : send_buf[j] = IF j = n + 4 THEN Ending ELSE
                                             IF j = n + 3 THEN sum % 256 ELSE
                                             IF j = n + 2 THEN sum \div 256 ELSE S[j]
    BY <1>11, <1>17
  <2>3. \A i \in 1 .. n : i + 1 \in 1 .. MaxLen /\ i + 1 < n + 2  BY <1>12
  <2> QED BY <2>1, <2>2, <2>3
<1>19. PICK b : /\ b = SubSeq(send_buf, 2, n + 1) /\ Text(b, n)
                /\ \A i \in 1 .. n : b[i] = send_buf[i + 1]
  <2>1. \A i \in 1 .. n : send_buf[i + 1] \in Byte  BY <1>13, <1>18
  <2>2. n \in Nat /\ n >= 1  OBVIOUS
  <2> QED BY <2>1, <2>2, SubSeqOf
<1>20. b = Body
  <2>1. send_len - 3 = n + 1  BY <1>17
  <2> QED BY <1>19, <2>1 DEF Body
<1>21. b = u
  <2>1. b \in Seq(Byte) /\ u \in Seq(Byte) /\ Len(b) = n /\ Len(u) = n  BY <1>14, <1>19 DEF Text
  <2>2. \A i \in 1 .. Len(b) : b[i] = u[i]  BY <1>14, <1>18, <1>19, <2>1
  <2> QED BY <2>1, <2>2, SeqEqual
<1>22. sum = 256 * (sum \div 256) + (sum % 256)  BY <1>16
<1>23. CrcAt(n)
  <2>1. Body \in Seq(Byte) /\ Len(Body) = n  BY <1>19, <1>20 DEF Text
  <2>2. Polynomial(Body) = 256 * send_buf[n + 2] + send_buf[n + 3]
    BY <1>16, <1>18, <1>20, <1>21, <1>22
  <2> QED BY <1>17, <2>1, <2>2 DEF CrcAt
<1>24. \A i \in 1 .. n : Body[i] = Filled(t, i)  BY <1>13, <1>18, <1>19, <1>20
<1> QED BY <1>1, <1>3, <1>23, <1>24, Zenon

-----------------------------------------------------------------------------
(* What verify_data says of a command that comes through whole.            *)

LEMMA HighAndLow ==
  ASSUME NEW h \in Byte
  PROVE  (256 * h) ^^ h = 257 * h
<1>1. h \in Nat /\ h < 256 /\ h \in Word16  BY Bytes, Words
<1>2. PICK x : x = 256 * h  OBVIOUS
<1>3. x \in Word16 /\ x \div 256 = h /\ x % 256 = 0  BY <1>1, <1>2, Words
<1>4. (x ^^ h) \div 256 = h /\ (x ^^ h) % 256 = 0 ^^ h  BY <1>1, <1>3, XorLow
<1>5. 0 ^^ h = h /\ x ^^ h \in Nat
  <2>1. 0 \in Word16  BY Words
  <2> QED BY <1>1, <1>3, <2>1, XorHalves
<1>6. \A y \in Nat : y \div 256 = h /\ y % 256 = h => y = 257 * h  BY <1>1
<1> QED BY <1>2, <1>4, <1>5, <1>6

LEMMA CrcPast ==
  ASSUME NEW h \in Byte, h # 0
  PROVE  CrcStep(256 * h, h) # 256 * h
<1>1. h \in Nat /\ h < 256 /\ h \in Word16 /\ h \in 1 .. 255  BY Bytes, Words
<1>2. PICK x : x = 256 * h  OBVIOUS
<1>3. x \in Word16 /\ x \div 256 = h /\ x % 256 = 0  BY <1>1, <1>2, Words
<1>4. 0 \in Word16 /\ 0 ^^ h = h
  <2>1. 0 \in Word16  BY Words
  <2> QED BY <1>1, <2>1, XorHalves
<1>5. PICK T \in Word16 : T = crc16_table[h + 1]
  <2>1. CrcStep(0, h) \in Word16 /\ CrcStep(0, h) = (0 \div 256) ^^ crc16_table[((0 % 256) ^^ h) + 1]
    BY <1>4, CrcStepIs DEF CrcStep
  <2>2. crc16_table[h + 1] = Eight(h)  BY CrcTable, <1>1
  <2>3. Eight(h) \in Word16  BY <1>1, EightLinear
  <2> QED BY <2>2, <2>3
<1>6. CrcStep(x, h) = h ^^ T  BY <1>3, <1>4, <1>5 DEF CrcStep
<1>7. SUFFICES ASSUME h ^^ T = x PROVE FALSE  BY <1>2, <1>6
<1>8. h ^^ x = T
  <2>1. h ^^ (h ^^ T) = (h ^^ h) ^^ T  BY <1>1, <1>5, XorAssoc
  <2>2. (h ^^ h) ^^ T = T  BY <1>1, <1>4, <1>5, XorSelf, XorHalves
  <2> QED BY <1>7, <2>1, <2>2
<1>9. h ^^ x = x ^^ h  BY <1>1, <1>3, XorComm
<1>10. x ^^ h = 257 * h  BY <1>2, HighAndLow
<1>11. T # 257 * h  BY <1>1, <1>5, NoFixedByte
<1> QED BY <1>8, <1>9, <1>10, <1>11

\* p is the n bytes of text and then byte a.
Longer(p, text, n, a) ==
  Text(text, n) /\ Text(p, n + 1) /\ p[n + 1] = a /\ \A i \in 1 .. n : p[i] = text[i]

\* buf is a frame of n bytes of text and a CRC of bytes a and b; p is what
\* verify_data computes the CRC of.
Frame(buf, p, text, n, a, b) ==
  /\ buf = << Header >> \o text \o << a, b, Ending >>
  /\ Len(buf) = n + 4 /\ buf[1] = Header /\ buf[n + 4] = Ending
  /\ buf[n + 2] = a /\ buf[n + 3] = b
  /\ p = SubSeq(buf, 2, n + 2)
  /\ Longer(p, text, n, a)

LEMMA CommandPlaces ==
  ASSUME NEW text, NEW n, Text(text, n), NEW a \in Byte, NEW b \in Byte
  PROVE  \E buf, p : Frame(buf, p, text, n, a, b)
<1>0. n \in Nat  BY DEF Text
<1>1. PICK h : h = << Header >>  OBVIOUS
<1>2. Text(h, 1) /\ h[1] = Header
  <2>1. Header \in Byte  BY Bytes DEF Header
  <2> QED BY <1>1, <2>1 DEF Text
<1>3. PICK e : e = << a, b, Ending >>  OBVIOUS
<1>4. Text(e, 3) /\ e[1] = a /\ e[2] = b /\ e[3] = Ending
  <2>1. Ending \in Byte  BY Bytes DEF Ending
  <2> QED BY <1>3, <2>1 DEF Text
<1>5. PICK g : g = h \o text  OBVIOUS
<1>6. Pieces(g, h, 1, text, n)  BY <1>2, <1>5, JoinAt, Zenon
<1>7. Text(g, n + 1) /\ g[1] = Header /\ \A i \in 1 .. n : g[1 + i] = text[i]
  <2>1. 1 + n = n + 1  BY <1>0
  <2> QED BY <1>2, <1>6, <2>1 DEF Pieces
<1>8. PICK buf : buf = g \o e  OBVIOUS
<1>9. PICK m \in Nat : m = n + 1  BY <1>0
<1>10. Pieces(buf, g, m, e, 3)
  <2>1. Text(g, m)  BY <1>7, <1>9
  <2> QED BY <1>4, <1>8, <2>1, JoinAt, Zenon
<1>11. /\ buf \in Seq(Byte) /\ Len(buf) = m + 3 /\ buf[m + 1] = a /\ buf[m + 2] = b /\ buf[m + 3] = Ending
       /\ \A i \in 1 .. m : buf[i] = g[i]
  <2>1. Text(buf, m + 3) /\ \A i \in 1 .. m : buf[i] = g[i]  BY <1>10 DEF Pieces
  <2>2. buf[m + 1] = e[1] /\ buf[m + 2] = e[2] /\ buf[m + 3] = e[3]  BY <1>10 DEF Pieces
  <2>3. buf \in Seq(Byte) /\ Len(buf) = m + 3  BY <2>1 DEF Text
  <2> QED BY <1>4, <2>1, <2>2, <2>3
<1>12. buf[1] = Header /\ \A i \in 1 .. n : buf[i + 1] = text[i]
  <2>1. 1 \in 1 .. m /\ \A i \in 1 .. n : i + 1 \in 1 .. m /\ i + 1 = 1 + i  BY <1>0, <1>9
  <2> QED BY <1>7, <1>11, <2>1
<1>13. PICK p : p = SubSeq(buf, 2, m + 1) /\ Text(p, m) /\ \A i \in 1 .. m : p[i] = buf[i + 1]
  <2>1. \A i \in 1 .. m : buf[i + 1] \in Byte
    <3> TAKE i \in 1 .. m
    <3>1. i + 1 \in 1 .. m + 3  BY <1>9
    <3> QED BY <1>11, <3>1
  <2>2. m >= 1  BY <1>0, <1>9
  <2> QED BY <2>1, <2>2, SubSeqOf
<1>14. /\ \A i \in 1 .. n : p[i] = text[i]
       /\ p[n + 1] = a
  <2>1. \A i \in 1 .. n : i \in 1 .. m  BY <1>0, <1>9
  <2>2. n + 1 \in 1 .. m /\ n + 1 = m  BY <1>0, <1>9
  <2> QED BY <1>11, <1>12, <1>13, <2>1, <2>2
<1>15. m + 1 = n + 2 /\ m + 2 = n + 3 /\ m + 3 = n + 4 /\ m = n + 1  BY <1>0, <1>9
<1>16. buf = << Header >> \o text \o << a, b, Ending >>  BY <1>1, <1>3, <1>5, <1>8
<1>17. Len(buf) = n + 4 /\ buf[n + 4] = Ending /\ buf[n + 2] = a /\ buf[n + 3] = b
  <2>1. m + 1 = n + 2 /\ m + 2 = n + 3 /\ m + 3 = n + 4  BY <1>0, <1>9
  <2> QED BY <1>11, <2>1
<1>18. p = SubSeq(buf, 2, n + 2) /\ Text(p, n + 1)  BY <1>9, <1>13, <1>15
<1>19. Longer(p, text, n, a)  BY <1>14, <1>18 DEF Longer
<1>20. Frame(buf, p, text, n, a, b)  BY <1>12, <1>16, <1>17, <1>18, <1>19, Zenon DEF Frame
<1> QED BY <1>20

\* One byte more.
LEMMA CrcLonger ==
  ASSUME NEW text, NEW n, NEW p, NEW a, Longer(p, text, n, a)
  PROVE  crc16_calc(p) = CrcStep(crc16_calc(text), a)
<1>0. /\ n \in Nat /\ text \in Seq(Byte) /\ Len(text) = n /\ p \in Seq(Byte) /\ Len(p) = n + 1
      /\ p[n + 1] = a /\ \A i \in 1 .. n : p[i] = text[i]
  BY DEF Text, Longer
<1>1. PICK f : Over(text, f) /\ crc16_calc(text) = f[n]  BY <1>0, CrcOver
<1>2. PICK g : Over(p, g) /\ crc16_calc(p) = g[n + 1]  BY <1>0, CrcOver
<1>3. /\ f \in [0 .. n -> Word16] /\ f[0] = 0
      /\ \A k \in 1 .. n : f[k] = Eight(f[k - 1] ^^ text[k])
  BY <1>0, <1>1 DEF Over
<1>4. /\ g[0] = 0
      /\ \A k \in 1 .. n + 1 : g[k] = Eight(g[k - 1] ^^ p[k])
  BY <1>0, <1>2 DEF Over
<1>5. AgreeOn(g, f, n)
  <2>1. \A k \in 1 .. n : g[k - 1] = f[k - 1] => g[k] = f[k]
    <3> TAKE k \in 1 .. n
    <3>1. k \in 1 .. n + 1  BY <1>0
    <3>2. g[k] = Eight(g[k - 1] ^^ p[k])  BY <1>4, <3>1
    <3>3. f[k] = Eight(f[k - 1] ^^ text[k])  BY <1>3
    <3>4. p[k] = text[k]  BY <1>0
    <3> QED BY <3>2, <3>3, <3>4, Zenon
  <2> QED BY <1>3, <1>4, <2>1 DEF AgreeOn
<1>6. g[n] = f[n] /\ f[n] \in Word16
  <2>1. Agree(g, f, n)  BY <1>0, <1>5, SameRecursion
  <2> QED BY <1>0, <1>3, <2>1 DEF Agree
<1>7. g[n + 1] = Eight(g[n] ^^ p[n + 1]) /\ p[n + 1] \in Byte
  <2>1. n + 1 \in 1 .. n + 1 /\ (n + 1) - 1 = n  BY <1>0
  <2> QED BY <1>0, <1>4, <2>1
<1> QED BY <1>0, <1>1, <1>2, <1>6, <1>7, CrcStepIs

\* Of every command with its right CRC: verify_data takes it exactly if the low
\* byte of that CRC is not zero or all of it is.  Its condition compares a CRC over
\* a byte too many with the high byte alone; if the low byte is zero, they agree
\* only for a CRC of zero.
THEOREM CommandsTaken ==
  \A text \in Seq(Byte) \ {<< >>} : verify_data(Command(text)) = 1 <=> Takes(text)
<1> TAKE text \in Seq(Byte) \ {<< >>}
<1>1. PICK n \in Nat : n = Len(text) /\ n >= 1  BY EmptySeq
<1>2. Text(text, n)  BY <1>1 DEF Text
<1>3. PICK sum \in Nat : sum = Polynomial(text) /\ sum < 65536
  <2>1. crc16_calc(text) = Polynomial(text) /\ crc16_calc(text) \in Word16  BY TableIsPolynomial, Zenon
  <2> QED BY <2>1, Words
<1>4. PICK a \in Byte : a = sum \div 256 /\ a \in Nat
  <2>1. sum \div 256 \in Nat /\ sum \div 256 <= 255  BY <1>3
  <2> QED BY <2>1, Bytes
<1>5. PICK b \in Byte : b = sum % 256 /\ b \in Nat
  <2>1. sum % 256 \in Nat /\ sum % 256 <= 255  BY <1>3
  <2> QED BY <2>1, Bytes
<1>6. PICK buf, p : Frame(buf, p, text, n, a, b)
  BY <1>2, CommandPlaces
<1>6a. /\ Len(buf) = n + 4 /\ buf[1] = Header /\ buf[n + 4] = Ending
       /\ buf[n + 2] = a /\ buf[n + 3] = b
       /\ p = SubSeq(buf, 2, n + 2)
  BY <1>6, Zenon DEF Frame
<1>7. buf = Command(text)
  <2>1. buf = << Header >> \o text \o << a, b, Ending >>  BY <1>6, Zenon DEF Frame
  <2>2. a = Polynomial(text) \div 256 /\ b = Polynomial(text) % 256  BY <1>3, <1>4, <1>5
  <2> QED BY <2>1, <2>2, Zenon DEF Command
<1>8. crc16_calc(p) = CrcStep(sum, a)
  <2>1. text \in Seq(Byte)  OBVIOUS
  <2>2. crc16_calc(text) = Polynomial(text)  BY <2>1, TableIsPolynomial, Zenon
  <2>3. Longer(p, text, n, a)  BY <1>6, Zenon DEF Frame
  <2>4. crc16_calc(p) = CrcStep(crc16_calc(text), a)  BY <2>3, CrcLonger, Zenon
  <2>5. crc16_calc(text) = sum  BY <1>3, <2>2
  <2> QED BY <2>4, <2>5
<1>9. verify_data(buf) = 1 <=> crc16_calc(p) = 256 * a \/ b # 0
  <2>1. (n + 4) - 2 = n + 2 /\ (n + 4) - 1 = n + 3 /\ ~ (n + 4 <= 4)  BY <1>1
  <2> QED BY <1>6a, <2>1 DEF verify_data
<1>10. CASE b # 0  BY <1>3, <1>5, <1>7, <1>9, <1>10 DEF Takes
<1>11. CASE b = 0 /\ a = 0
  <2>1. sum = 0  BY <1>3, <1>4, <1>5, <1>11
  <2>2. CrcStep(0, 0) = 0
    <3>1. 0 \in Word16 /\ 0 \in Byte  BY Words, Bytes
    <3>2. 0 ^^ 0 = 0  BY <3>1, XorHalves
    <3>3. crc16_table[1] = 0  BY DEF crc16_table
    <3> QED BY <3>2, <3>3 DEF CrcStep
  <2> QED BY <1>3, <1>7, <1>8, <1>9, <1>11, <2>1, <2>2 DEF Takes
<1>12. CASE b = 0 /\ a # 0
  <2>1. sum = 256 * a  BY <1>3, <1>4, <1>5, <1>12
  <2>2. CrcStep(256 * a, a) # 256 * a  BY <1>12, CrcPast
  <2>3. sum # 0  BY <1>4, <1>12, <2>1
  <2> QED BY <1>3, <1>5, <1>7, <1>8, <1>9, <1>12, <2>1, <2>2, <2>3 DEF Takes
<1> QED BY <1>10, <1>11, <1>12

-----------------------------------------------------------------------------
(* The invariant of PcFrames, and what it says of every reply and command. *)

\* What was packed last is in the buffer, and what came in is a command whole.
PcInv ==
  /\ \/ packed = << >>
     \/ \E val \in Codes : packed = << "hex", val >> /\ HexPacked(val)
     \/ \E c \in Channels : \E val \in Span[c] : packed = << c, val >> /\ FloatPacked(c, val)
  /\ recv = << >> \/ \E text \in Texts : recv = Command(text)

LEMMA PcInvInit == Init => PcInv
  BY DEF Init, PcInv

LEMMA PcInvNext == PcInv /\ [Next]_vars => PcInv'
<1> SUFFICES ASSUME PcInv, [Next]_vars PROVE PcInv'  OBVIOUS
<1>1. CASE \E text \in Texts : PcSends(text)
  <2>1. PICK text \in Texts : PcSends(text)  BY <1>1
  <2>2. recv' = Command(text) /\ packed' = << >>  BY <2>1 DEF PcSends, Command
  <2> QED BY <2>2 DEF PcInv
<1>2. CASE \E val \in Codes : packet_hex(val)
  <2>1. PICK val \in Codes : packet_hex(val)  BY <1>2
  <2>2. HexPacked(val)' /\ packed' = << "hex", val >> /\ recv' = << >>
    BY <2>1 DEF packet_hex, HexPacked
  <2> QED BY <2>2 DEF PcInv
<1>3. CASE \E c \in Channels : \E val \in Span[c] : packet_float(c, val)
  <2>0. PICK c \in Channels : \E val \in Span[c] : packet_float(c, val)  BY <1>3
  <2>1. PICK val \in Span[c] : packet_float(c, val)  BY <2>0
  <2>2. packed' = << c, val >> /\ recv' = << >>  BY <2>1 DEF packet_float
  <2>3. FloatPacked(c, val)'
    BY <2>1, Zenon DEF packet_float, FloatPacked, Summed16, TextLen, Written16
  <2> QED BY <2>2, <2>3 DEF PcInv
<1>4. CASE UNCHANGED vars
  <2>1. packed' = packed /\ recv' = recv /\ send_buf' = send_buf /\ send_len' = send_len
    BY <1>4 DEF vars
  <2> QED BY <2>1 DEF PcInv, HexPacked, FloatPacked, Summed16
<1> QED BY <1>1, <1>2, <1>3, <1>4 DEF Next

LEMMA PcInvHolds == Spec => []PcInv
  BY PcInvInit, PcInvNext, PTL DEF Spec

LEMMA Packed ==
  ASSUME PcInv, packed # << >>
  PROVE  \E n : CrcAt(n)
<1>1. CASE \E val \in Codes : HexPacked(val)
  <2>1. PICK val \in Codes : HexPacked(val)  BY <1>1
  <2>2. val \in {-3, -2, -1, 0, 1}  BY PcFramesAssumption
  <2> QED BY <2>1, <2>2, HexRight
<1>2. CASE \E c \in Channels : \E val \in Span[c] : FloatPacked(c, val)
  <2>0. PICK c \in Channels : \E val \in Span[c] : FloatPacked(c, val)  BY <1>2
  <2>1. PICK val \in Span[c] : FloatPacked(c, val)  BY <2>0
  <2>2. val \in Nat /\ val < 10 ^ 9  BY PcFramesAssumption
  <2> QED BY <2>1, <2>2, FloatRight
<1> QED BY <1>1, <1>2 DEF PcInv

LEMMA CrcRightOne == PcInv => ReplyCrcRight
<1> SUFFICES ASSUME PcInv, packed # << >>
             PROVE  Polynomial(Body) = 256 * send_buf[send_len - 2] + send_buf[send_len - 1]
  BY DEF ReplyCrcRight
<1>1. PICK n : CrcAt(n)  BY Packed
<1>2. n \in Nat /\ send_len = n + 4  BY <1>1 DEF CrcAt
<1>3. send_len - 2 = n + 2 /\ send_len - 1 = n + 3  BY <1>2
<1> QED BY <1>1, <1>3 DEF CrcAt

\* For every buffer, set of channels and value below 10 ^ 9: each reply that
\* packet_hex and packet_float pack carries the CRC of its text.
THEOREM RepliesRight == Spec => []ReplyCrcRight
  BY PcInvHolds, CrcRightOne, PTL

LEMMA OtherByte ==
  ASSUME NEW a \in Byte, NEW b \in 0 .. 7
  PROVE  a ^^ (2 ^ b) \in Byte /\ a ^^ (2 ^ b) # a
<1>1. PICK x : x = 2 ^ b  OBVIOUS
<1>2. x \in Nat /\ x < 256 /\ x # 0
  <2>1. x \in {1, 2, 4, 8, 16, 32, 64, 128}  BY <1>1, Bit, Zenon
  <2> QED BY <2>1
<1>3. x \in Word16 /\ a \in Word16 /\ a < 256 /\ 0 \in Word16  BY <1>2, Words, Bytes
<1>4. a ^^ x \in Nat /\ a ^^ x < 256
  BY <1>2, <1>3, XorBound, XorHalves
<1>5. a ^^ x # a
  <2>1. a ^^ x = a ^^ 0 => x = 0  BY <1>3, XorCancel
  <2> QED BY <1>2, <1>3, <2>1, XorZero
<1> QED BY <1>1, <1>4, <1>5, Bytes

LEMMA BitShows ==
  ASSUME NEW s \in Seq(Byte), NEW i \in 1 .. Len(s), NEW b \in 0 .. 7
  PROVE  crc16_calc([s EXCEPT ![i] = @ ^^ (2 ^ b)]) # crc16_calc(s)
<1>1. PICK x : x = s[i] ^^ (2 ^ b)  OBVIOUS
<1>2. s[i] \in Byte  OBVIOUS
<1>3. x \in Byte /\ x # s[i]  BY <1>1, <1>2, OtherByte
<1>4. PICK t : t = [s EXCEPT ![i] = x]  OBVIOUS
<1>5. t \in Seq(Byte) /\ Len(t) = Len(s) /\ t[i] = x /\ \A j \in 1 .. Len(s) : j # i => t[j] = s[j]
  <2>1. /\ [s EXCEPT ![i] = x] \in Seq(Byte)
        /\ Len([s EXCEPT ![i] = x]) = Len(s)
        /\ \A j \in 1 .. Len(s) : [s EXCEPT ![i] = x][j] = IF j = i THEN x ELSE s[j]
    BY <1>3, ExceptSeq
  <2> QED BY <1>4, <2>1
<1>6. crc16_calc(s) # crc16_calc(t)
  <2>1. s # t  BY <1>3, <1>5
  <2>2. \A j \in 1 .. Len(s) : j \notin {i, i + 1} => s[j] = t[j]  BY <1>5
  <2> QED BY <1>5, <2>1, <2>2, DamageShows
<1> QED BY <1>1, <1>4, <1>6

LEMMA BitShowsOne == PcInv => OneBitShows
<1> SUFFICES ASSUME PcInv, packed # << >>, NEW i \in 1 .. Len(Body), NEW b \in 0 .. 7
             PROVE  crc16_calc([Body EXCEPT ![i] = @ ^^ (2 ^ b)]) # crc16_calc(Body)
  BY DEF OneBitShows
<1>1. Body \in Seq(Byte)  BY Packed DEF CrcAt
<1> QED BY <1>1, BitShows

\* Of every reply: no single damaged bit of its text leaves the CRC as it is.
THEOREM BitsShow == Spec => []OneBitShows
  BY PcInvHolds, BitShowsOne, PTL

LEMMA RefusedOne == PcInv => OnlyZeroEndingsRefused
<1> SUFFICES ASSUME NEW text \in Texts, recv = Command(text)
             PROVE  verify_data(recv) = 1 <=> Takes(text)
  BY DEF OnlyZeroEndingsRefused
<1>1. text \in Seq(Byte) \ {<< >>}  BY PcFramesAssumption
<1> QED BY <1>1, CommandsTaken

\* For every set of commands: the PC gets those through, whole and with the right
\* CRC, whose CRC does not end in a zero byte, or is zero, and no others.
THEOREM ZeroEndingsRefused == Spec => []OnlyZeroEndingsRefused
  BY PcInvHolds, RefusedOne, PTL

-----------------------------------------------------------------------------
(* What a reader makes of the text of a reply.                             *)

\* The number read so far, after one more byte.
ReadOn(r, b) == IF b \in Zero .. Zero + 9 THEN 10 * r + b - Zero ELSE r

\* f is what was read of s after each of its first n bytes.
Reads(f, s, n) ==
  f[0] = 0 /\ \A i \in 1 .. n : f[i] = ReadOn(f[i - 1], s[i])

LEMMA ReadDef ==
  ASSUME NEW s
  PROVE  Read(s) = (CHOOSE g : g = [i \in 0 .. Len(s) |->
                      IF i = 0 THEN 0 ELSE ReadOn(g[i - 1], s[i])])[Len(s)]
  BY DEF Read, ReadOn

LEMMA ReadIs ==
  ASSUME NEW s, NEW n, Text(s, n)
  PROVE  \E f : Reads(f, s, n) /\ Read(s) = f[n]
<1>1. n \in Nat /\ s \in Seq(Byte) /\ Len(s) = n  BY DEF Text
<1>2. \A i \in 1 .. n : s[i] \in Nat  BY <1>1, Bytes
<1> DEFINE step == [i \in Nat |-> [r \in Nat |-> IF i \in 1 .. n THEN ReadOn(r, s[i]) ELSE 0]]
           After(g) == [i \in 0 .. n |-> IF i = 0 THEN 0 ELSE ReadOn(g[i - 1], s[i])]
           h == CHOOSE g : g = After(g)
<1>3. \A i \in 1 .. n, r \in Nat : ReadOn(r, s[i]) \in Nat
  <2> TAKE i \in 1 .. n, r \in Nat
  <2>1. s[i] \in Nat  BY <1>2
  <2> QED BY <2>1 DEF ReadOn, Zero
<1>4. step \in StepsOver(Nat)  BY <1>3 DEF StepsOver
<1>5. \A i \in 1 .. n, r \in Nat : step[i][r] = ReadOn(r, s[i])  BY <1>1
<1> HIDE DEF step
<1>6. PICK f : Steps(f, n, Nat, 0, step)  BY <1>1, <1>4, Recursion
<1>7. /\ f \in [0 .. n -> Nat] /\ f[0] = 0
      /\ \A i \in 1 .. n : f[i] = step[i][f[i - 1]]
  BY <1>6 DEF Steps
<1>8. \A i \in 1 .. n : f[i] = ReadOn(f[i - 1], s[i])
  <2> TAKE i \in 1 .. n
  <2>1. i - 1 \in 0 .. n  BY <1>1
  <2>2. f[i - 1] \in Nat  BY <1>7, <2>1
  <2> QED BY <1>5, <1>7, <2>2
<1>9. f = After(f)  BY <1>1, <1>7, <1>8
<1>10. h = After(h)  BY <1>9
<1>11. Read(s) = h[n]  BY <1>1, ReadDef, Zenon
<1> HIDE DEF h
<1>12. h[0] = 0 /\ \A i \in 1 .. n : h[i] = ReadOn(h[i - 1], s[i])  BY <1>1, <1>10
<1>13. Reads(h, s, n)  BY <1>12 DEF Reads
<1> QED BY <1>11, <1>13

LEMMA Skip ==
  ASSUME NEW f, NEW s, NEW q \in Nat, NEW m \in Nat,
         \A i \in q + 1 .. q + m : f[i] = ReadOn(f[i - 1], s[i]),
         \A i \in q + 1 .. q + m : s[i] \notin Zero .. Zero + 9
  PROVE  f[q + m] = f[q]
<1> DEFINE T == {j \in Nat : j <= m => f[q + j] = f[q]}
<1>1. 0 \in T  OBVIOUS
<1>2. ASSUME NEW j \in Nat, j \in T PROVE j + 1 \in T
  <2> SUFFICES ASSUME j + 1 <= m PROVE f[q + (j + 1)] = f[q]  OBVIOUS
  <2>1. PICK i : i = q + (j + 1)  OBVIOUS
  <2>2. i \in q + 1 .. q + m /\ i - 1 = q + j  BY <2>1
  <2>3. f[i] = f[i - 1]  BY <2>2 DEF ReadOn
  <2>4. f[q + j] = f[q]  BY <1>2
  <2> QED BY <2>1, <2>2, <2>3, <2>4
<1> HIDE DEF T
<1>3. Nat \subseteq T  BY <1>1, <1>2, SetInduction
<1> QED BY <1>3 DEF T

LEMMA DivTen ==
  ASSUME NEW n \in Nat, NEW e \in 0 .. 8
  PROVE  n \div 10 ^ (e + 1) = (n \div 10 ^ e) \div 10
<1>0. CASE e = 0  BY <1>0
<1>1. CASE e = 1  BY <1>1
<1>2. CASE e = 2  BY <1>2
<1>3. CASE e = 3  BY <1>3
<1>4. CASE e = 4  BY <1>4
<1>5. CASE e = 5  BY <1>5
<1>6. CASE e = 6  BY <1>6
<1>7. CASE e = 7  BY <1>7
<1>8. CASE e = 8  BY <1>8
<1> QED BY <1>0, <1>1, <1>2, <1>3, <1>4, <1>5, <1>6, <1>7, <1>8

\* f reads s on over the m bytes after the first q.
ReadsPart(f, s, q, m) == \A i \in q + 1 .. q + m : f[i] = ReadOn(f[i - 1], s[i])

\* None of those bytes is a digit; they are the digits of n, which has no more.
NoDigits(s, q, m) == \A i \in q + 1 .. q + m : s[i] \notin Zero .. Zero + 9
DigitsAt(s, q, d, n) == \A i \in 1 .. d : s[q + i] = 48 + Digit(n, d, i)
Short(n, d) == n < 10 ^ d

\* y is x with the d digits of n after it.
Appended(y, x, d, n) == y = x * 10 ^ d + n

\* The first z of the d digits of n.
FirstDigits(s, q, z, d, n) == \A i \in 1 .. z : s[q + i] = 48 + Digit(n, d, i)

LEMMA FirstDigitsRead ==
  ASSUME NEW f, NEW s, NEW q \in Nat, NEW d \in 0 .. 9, NEW n \in Nat, Short(n, d),
         NEW z \in 0 .. d,
         f[q] \in Nat, ReadsPart(f, s, q, z), FirstDigits(s, q, z, d, n)
  PROVE  Appended(f[q + z], f[q], z, n \div 10 ^ (d - z))
<1> PICK r \in Nat : f[q] = r  OBVIOUS
<1>a. n < 10 ^ d  BY DEF Short
<1>b. \A i \in q + 1 .. q + z : f[i] = ReadOn(f[i - 1], s[i])  BY DEF ReadsPart
<1>c. \A i \in 1 .. z : s[q + i] = 48 + Digit(n, d, i)  BY DEF FirstDigits
<1> DEFINE T == {j \in Nat : j <= z => f[q + j] = r * 10 ^ j + (n \div 10 ^ (d - j))}
<1>1. 0 \in T
  <2>1. PICK p \in Nat : p = 10 ^ d /\ p >= 1  BY Power
  <2>2. n \div p = 0  BY <1>a, <2>1
  <2>3. 10 ^ 0 = 1 /\ d - 0 = d /\ q + 0 = q  OBVIOUS
  <2>4. n \div 10 ^ (d - 0) = 0  BY <2>1, <2>2, <2>3
  <2>5. r * 10 ^ 0 = r  BY <2>3
  <2> QED BY <2>3, <2>4, <2>5
<1>2. ASSUME NEW j \in Nat, j \in T PROVE j + 1 \in T
  <2> SUFFICES ASSUME j + 1 <= z
               PROVE  f[q + (j + 1)] = r * 10 ^ (j + 1) + (n \div 10 ^ (d - (j + 1)))
    OBVIOUS
  <2>1. PICK e \in 0 .. 8 : e = d - (j + 1) /\ d - j = e + 1
    <3>1. d - (j + 1) \in 0 .. 8 /\ d - j = (d - (j + 1)) + 1  OBVIOUS
    <3> QED BY <3>1
  <2>2. PICK x \in Nat : x = 10 ^ j /\ 10 ^ (j + 1) = 10 * x
    <3>1. j \in 0 .. 8  OBVIOUS
    <3> QED BY <3>1, Tens
  <2>3. PICK a \in Nat : a = n \div 10 ^ e
    <3>1. 10 ^ e \in Nat /\ 10 ^ e >= 1  BY Tens
    <3> QED BY <3>1, DivMod
  <2>4. n \div 10 ^ (d - j) = a \div 10
    <3>1. n \div 10 ^ (e + 1) = (n \div 10 ^ e) \div 10  BY DivTen
    <3> QED BY <2>1, <2>3, <3>1, Zenon
  <2>5. f[q + j] = r * x + (a \div 10)  BY <1>2, <2>2, <2>4
  <2>6. PICK i : i = q + (j + 1)  OBVIOUS
  <2>7. i \in q + 1 .. q + z /\ i - 1 = q + j /\ j + 1 \in 1 .. z  BY <2>6
  <2>8. s[i] = 48 + (a % 10)
    <3>1. Digit(n, d, j + 1) = a % 10  BY <2>1, <2>3 DEF Digit
    <3> QED BY <1>c, <2>6, <2>7, <3>1
  <2>9. s[i] \in Zero .. Zero + 9 /\ s[i] - Zero = a % 10  BY <2>3, <2>8 DEF Zero
  <2>10. f[i] = 10 * f[q + j] + s[i] - Zero  BY <1>b, <2>7, <2>9 DEF ReadOn
  <2>11. PICK y \in Nat : y = r * x  OBVIOUS
  <2>12. f[i] = 10 * y + a
    <3>1. f[i] = 10 * (y + (a \div 10)) + (48 + (a % 10)) - 48
      BY <2>5, <2>8, <2>10, <2>11 DEF Zero
    <3>2. 10 * (y + (a \div 10)) + (48 + (a % 10)) - 48 = 10 * y + a  BY <2>3, <2>11
    <3> QED BY <3>1, <3>2
  <2>13. r * (10 * x) = 10 * y  BY <2>2, <2>11
  <2> QED BY <2>1, <2>2, <2>3, <2>6, <2>12, <2>13
<1> HIDE DEF T
<1>3. Nat \subseteq T  BY <1>1, <1>2, SetInduction
<1>4. f[q + z] = r * 10 ^ z + (n \div 10 ^ (d - z))
  <2>1. z \in Nat /\ z <= z  OBVIOUS
  <2>2. z \in T  BY <1>3, <2>1
  <2> QED BY <2>1, <2>2 DEF T
<1> QED BY <1>4 DEF Appended

LEMMA DigitsRead ==
  ASSUME NEW f, NEW s, NEW q \in Nat, NEW d \in 0 .. 9, NEW n \in Nat, Short(n, d),
         f[q] \in Nat, ReadsPart(f, s, q, d), DigitsAt(s, q, d, n)
  PROVE  Appended(f[q + d], f[q], d, n)
<1>1. d \in 0 .. d  OBVIOUS
<1>2. FirstDigits(s, q, d, d, n)  BY DEF DigitsAt, FirstDigits
<1>3. Appended(f[q + d], f[q], d, n \div 10 ^ (d - d))
  BY <1>1, <1>2, FirstDigitsRead, Zenon
<1>4. n \div 10 ^ (d - d) = n
  <2>1. d - d = 0 /\ 10 ^ 0 = 1 /\ n \div 1 = n  OBVIOUS
  <2> QED BY <2>1
<1> QED BY <1>3, <1>4, Zenon

LEMMA PartOf ==
  ASSUME NEW f, NEW s, NEW n \in Nat, Reads(f, s, n),
         NEW q \in Nat, NEW m \in Nat, q + m <= n
  PROVE  ReadsPart(f, s, q, m)
<1>1. \A i \in 1 .. n : f[i] = ReadOn(f[i - 1], s[i])  BY DEF Reads
<1>2. \A i \in q + 1 .. q + m : i \in 1 .. n  OBVIOUS
<1> QED BY <1>1, <1>2 DEF ReadsPart

LEMMA SkipPart ==
  ASSUME NEW f, NEW s, NEW q \in Nat, NEW m \in Nat, ReadsPart(f, s, q, m), NoDigits(s, q, m)
  PROVE  f[q + m] = f[q]
  BY Skip, Zenon DEF ReadsPart, NoDigits

\* b is the first n bytes of t, filled up with zeros.
Holding(b, n, t) == Text(b, n) /\ Len(t) <= n /\ \A i \in 1 .. n : b[i] = Filled(t, i)

LEMMA TextRead ==
  ASSUME NEW t, NEW p, NEW w \in Nat, NEW d, NEW k \in 0 .. 2, NEW g \in Nat,
         Printed(t, p, w, d, k, g), Short(w, d), Short(g, k),
         NEW b, NEW n \in Nat, Holding(b, n, t)
  PROVE  Appended(Read(b), w, k, g)
<1>0. Text(b, n) /\ Len(t) <= n /\ \A i \in 1 .. n : b[i] = Filled(t, i)  BY DEF Holding
<1>1. PICK f : Reads(f, b, n) /\ Read(b) = f[n]  BY <1>0, ReadIs
<1>2. PICK m \in Nat : m = Len(t) /\ m <= n  BY <1>0 DEF Printed
<1>3. p \in Nat /\ d \in 1 .. 9 /\ m = p + d + (IF k = 0 THEN 0 ELSE k + 1)
  BY <1>2 DEF Printed
<1>4. \A i \in 1 .. m : b[i] = t[i]  BY <1>0, <1>2 DEF Filled
<1>5. NoDigits(b, m, n - m)
  <2>1. \A i \in m + 1 .. m + (n - m) : i \in 1 .. n /\ ~ (i <= Len(t))  BY <1>2
  <2>2. \A i \in m + 1 .. m + (n - m) : b[i] = 0  BY <1>0, <2>1 DEF Filled
  <2> QED BY <2>2 DEF NoDigits, Zero
<1>6. f[0] = 0  BY <1>1 DEF Reads
<1>7. f[p] = 0
  <2>1. \A i \in 1 .. p : b[i] = 32
    <3>1. \A i \in 1 .. p : t[i] = 32  BY DEF Printed
    <3>2. \A i \in 1 .. p : i \in 1 .. m  BY <1>3
    <3> QED BY <1>4, <3>1, <3>2
  <2>2. NoDigits(b, 0, p)
    <3>1. 0 + 1 = 1 /\ 0 + p = p  BY <1>3
    <3> QED BY <2>1, <3>1 DEF NoDigits, Zero
  <2>3. 0 \in Nat /\ 0 + p = p /\ 0 + p <= n  BY <1>2, <1>3
  <2>4. ReadsPart(f, b, 0, p)  BY <1>1, <1>3, <2>3, PartOf, Zenon
  <2>5. f[0 + p] = f[0]  BY <1>3, <2>2, <2>3, <2>4, SkipPart, Zenon
  <2> QED BY <1>6, <2>3, <2>5, Zenon
<1>8. f[p + d] = w
  <2>1. p + d <= n /\ p + d <= m /\ d \in Nat /\ d \in 0 .. 9 /\ 0 \in Nat  BY <1>2, <1>3
  <2>2. ReadsPart(f, b, p, d)  BY <1>1, <1>3, <2>1, PartOf, Zenon
  <2>3. DigitsAt(b, p, d, w)
    <3>1. \A i \in 1 .. d : t[p + i] = 48 + Digit(w, d, i)  BY DEF Printed
    <3>2. \A i \in 1 .. d : p + i \in 1 .. m  BY <1>3
    <3> QED BY <1>4, <3>1, <3>2 DEF DigitsAt
  <2>3a. f[p] \in Nat  BY <1>7
  <2>4. f[p + d] = 0 * 10 ^ d + w
    <3>1. Appended(f[p + d], f[p], d, w)  BY <1>3, <2>1, <2>2, <2>3, <2>3a, DigitsRead, Zenon
    <3> QED BY <1>7, <3>1, Zenon DEF Appended
  <2>5. PICK x \in Nat : x = 10 ^ d  BY <2>1, Power
  <2>6. 0 * x + w = w  OBVIOUS
  <2> QED BY <2>4, <2>5, <2>6, Zenon
<1>9. Appended(f[m], w, k, g)
  <2>1. CASE k = 0
    <3>1. 10 ^ k = 1 /\ g = 0 /\ m = p + d  BY <1>3, <2>1 DEF Short
    <3>2. f[m] = w  BY <1>8, <3>1
    <3>3. w = w * 1 + 0  OBVIOUS
    <3> QED BY <3>1, <3>2, <3>3, Zenon DEF Appended
  <2>2. CASE k > 0
    <3>1. PICK q \in Nat : q = p + d  BY <1>3
    <3>2. PICK r \in Nat : r = q + 1 /\ m = r + k  BY <1>3, <2>2, <3>1
    <3>3. f[r] = w
      <4>1. b[r] = 46
        <5>1. t[p + d + 1] = 46  BY <2>2 DEF Printed
        <5>2. r \in 1 .. m /\ p + d + 1 = r  BY <3>1, <3>2
        <5>3. t[r] = 46  BY <5>1, <5>2, Zenon
        <5> QED BY <1>4, <5>2, <5>3
      <4>2. NoDigits(b, q, 1)
        <5>1. \A i \in q + 1 .. q + 1 : i = r  BY <3>2
        <5>2. \A i \in q + 1 .. q + 1 : b[i] = 46  BY <4>1, <5>1
        <5> QED BY <5>2 DEF NoDigits, Zero
      <4>3. 1 \in Nat /\ q + 1 <= n  BY <1>2, <3>2
      <4>4. ReadsPart(f, b, q, 1)  BY <1>1, <4>3, PartOf, Zenon
      <4>5. f[q + 1] = f[q]  BY <4>2, <4>3, <4>4, SkipPart, Zenon
      <4> QED BY <1>8, <3>1, <3>2, <4>5, Zenon
    <3>4. k \in Nat /\ k \in 0 .. 9 /\ r + k <= n  BY <1>2, <3>2
    <3>5. ReadsPart(f, b, r, k)  BY <1>1, <3>4, PartOf, Zenon
    <3>6. DigitsAt(b, r, k, g)
      <4>1. \A i \in 1 .. k : t[p + d + 1 + i] = 48 + Digit(g, k, i)  BY <2>2 DEF Printed
      <4>2. p + d + 1 = r  BY <3>1, <3>2
      <4>3. \A i \in 1 .. k : t[r + i] = 48 + Digit(g, k, i)  BY <4>1, <4>2, Zenon
      <4>4. \A i \in 1 .. k : r + i \in 1 .. m  BY <3>2
      <4> QED BY <1>4, <4>3, <4>4 DEF DigitsAt
    <3>6a. f[r] \in Nat  BY <3>3
    <3>7. Appended(f[r + k], f[r], k, g)  BY <3>4, <3>5, <3>6, <3>6a, DigitsRead, Zenon
    <3> QED BY <3>2, <3>3, <3>7, Zenon
  <2> QED BY <2>1, <2>2
<1>10. f[n] = f[m]
  <2>1. n - m \in Nat /\ m + (n - m) = n /\ m + (n - m) <= n  BY <1>2
  <2>2. ReadsPart(f, b, m, n - m)  BY <1>1, <2>1, PartOf, Zenon
  <2>3. f[m + (n - m)] = f[m]  BY <1>5, <2>1, <2>2, SkipPart, Zenon
  <2> QED BY <2>1, <2>3, Zenon
<1> QED BY <1>1, <1>9, <1>10, Zenon

LEMMA RoomFor ==
  ASSUME NEW x, NEW w \in Nat, NEW d, Written(x, w, 1, d), NEW r \in 1 .. 5, w < 10 ^ r
  PROVE  d <= r
<1>1. d \in 1 .. 9 /\ \A e \in 1 .. d - 1 : w >= 10 ^ e  BY DEF Written
<1>2. ~ (d <= r) => r \in 1 .. d - 1  BY <1>1
<1>3. r \in 0 .. 9  OBVIOUS
<1>4. PICK y \in Nat : y = 10 ^ r  BY <1>3, Power
<1> QED BY <1>1, <1>2, <1>4

LEMMA NoRoomFor ==
  ASSUME NEW w \in Nat, NEW d \in 1 .. 9, NEW r \in 1 .. 5, w < 10 ^ d, ~(w < 10 ^ r)
  PROVE  d > r
<1> DEFINE T == {j \in Nat : d + j <= 9 => w < 10 ^ (d + j)}
<1>1. 0 \in T
  <2>1. d + 0 = d  OBVIOUS
  <2> QED BY <2>1
<1>2. ASSUME NEW j \in Nat, j \in T PROVE j + 1 \in T
  <2> SUFFICES ASSUME d + (j + 1) <= 9 PROVE w < 10 ^ (d + (j + 1))  OBVIOUS
  <2>1. PICK i \in 0 .. 8 : i = d + j /\ d + (j + 1) = i + 1
    <3>1. d + j \in 0 .. 8 /\ d + (j + 1) = (d + j) + 1  OBVIOUS
    <3> QED BY <3>1
  <2>2. PICK x \in Nat : x = 10 ^ i /\ 10 ^ (i + 1) = 10 * x  BY Tens
  <2>3. w < x  BY <1>2, <2>1, <2>2
  <2>4. w < 10 * x  BY <2>3
  <2> QED BY <2>1, <2>2, <2>4
<1> HIDE DEF T
<1>3. Nat \subseteq T  BY <1>1, <1>2, SetInduction
<1>4. SUFFICES ASSUME d <= r PROVE FALSE  OBVIOUS
<1>5. PICK j \in Nat : d + j = r /\ d + j <= 9
  <2>1. r - d \in Nat /\ d + (r - d) = r /\ r <= 9  BY <1>4
  <2> QED BY <2>1
<1>6. w < 10 ^ (d + j)  BY <1>3, <1>5 DEF T
<1> QED BY <1>5, <1>6, Zenon

LEMMA DivPow ==
  ASSUME NEW n \in Nat, NEW a \in 0 .. 9, NEW e \in 0 .. 9, a + e <= 9
  PROVE  n \div 10 ^ (a + e) = (n \div 10 ^ a) \div 10 ^ e
<1>0. PICK m \in Nat : m = n \div 10 ^ a
  <2>1. PICK x \in Nat : x = 10 ^ a /\ x >= 1  BY Power
  <2> QED BY <2>1, DivMod
<1> DEFINE T == {j \in Nat : a + j <= 9 => n \div 10 ^ (a + j) = m \div 10 ^ j}
<1>1. 0 \in T
  <2>1. a + 0 = a /\ 10 ^ 0 = 1 /\ m \div 1 = m  OBVIOUS
  <2>2. n \div 10 ^ (a + 0) = m \div 10 ^ 0  BY <1>0, <2>1, Zenon
  <2> QED BY <2>2
<1>2. ASSUME NEW j \in Nat, j \in T PROVE j + 1 \in T
  <2> SUFFICES ASSUME a + (j + 1) <= 9
               PROVE  n \div 10 ^ (a + (j + 1)) = m \div 10 ^ (j + 1)
    OBVIOUS
  <2>1. PICK i \in 0 .. 8 : i = a + j /\ a + (j + 1) = i + 1
    <3>1. a + j \in 0 .. 8 /\ a + (j + 1) = (a + j) + 1  OBVIOUS
    <3> QED BY <3>1
  <2>2. n \div 10 ^ (i + 1) = (n \div 10 ^ i) \div 10  BY DivTen
  <2>3. n \div 10 ^ i = m \div 10 ^ j  BY <1>2, <2>1
  <2>4. m \div 10 ^ (j + 1) = (m \div 10 ^ j) \div 10
    <3>1. j \in 0 .. 8  OBVIOUS
    <3> QED BY <3>1, DivTen
  <2> QED BY <2>1, <2>2, <2>3, <2>4, Zenon
<1> HIDE DEF T
<1>3. e \in T  BY <1>1, <1>2, SetInduction
<1> QED BY <1>0, <1>3 DEF T

\* b is the first n bytes of t, which has more; there is room for a digit before
\* the point and the k digits after it.
Cutting(b, n, t, k) ==
  Text(b, n) /\ n >= k + 2 /\ n < Len(t) /\ \A i \in 1 .. n : b[i] = t[i]

\* t is what packet_float prints of val, without blanks.
Holds(t, val, w, d, k, g) ==
  /\ val \in Nat /\ w \in Nat /\ g \in Nat /\ k \in 0 .. 2
  /\ Printed(t, 0, w, d, k, g) /\ Short(w, d) /\ Short(g, k) /\ Appended(val, w, k, g)

\* A reader of b finds the number without its last digits.
Led(b, val) == \E lost \in 1 .. 9 : Read(b) = val \div 10 ^ lost

LEMMA CutRead ==
  ASSUME NEW t, NEW w, NEW d, NEW k, NEW g, NEW val, Holds(t, val, w, d, k, g),
         NEW b, NEW n, Cutting(b, n, t, k)
  PROVE  Led(b, val)
<1>0. /\ val \in Nat /\ w \in Nat /\ g \in Nat /\ k \in 0 .. 2 /\ n \in Nat
      /\ Printed(t, 0, w, d, k, g) /\ Short(w, d) /\ Short(g, k)
  BY DEF Holds, Cutting, Text
<1> USE <1>0
<1>1. /\ Text(b, n) /\ n >= k + 2 /\ n < Len(t) /\ \A i \in 1 .. n : b[i] = t[i]
      /\ val = w * 10 ^ k + g
  BY DEF Cutting, Holds, Appended
<1>2. PICK f : Reads(f, b, n) /\ Read(b) = f[n]  BY <1>1, ReadIs
<1>3. f[0] = 0  BY <1>2 DEF Reads
<1>4. d \in 1 .. 9 /\ Len(t) = d + (IF k = 0 THEN 0 ELSE k + 1)  BY DEF Printed
<1>5. val \div 10 ^ k = w
  <2>1. PICK s \in Nat : s = 10 ^ k /\ s \in {1, 10, 100} /\ g < s
    <3>1. k \in {0, 1, 2} /\ 10 ^ 0 = 1 /\ 10 ^ 1 = 10 /\ 10 ^ 2 = 100  OBVIOUS
    <3>2. 10 ^ k \in {1, 10, 100}  BY <3>1
    <3> QED BY <3>2 DEF Short
  <2>2. val = w * s + g  BY <1>1, <2>1
  <2>3. val \div s = w  BY <2>1, <2>2
  <2> QED BY <2>1, <2>3
<1>6. \A i \in 1 .. d : t[i] = 48 + Digit(w, d, i)
  <2>1. \A i \in 1 .. d : t[0 + i] = 48 + Digit(w, d, i)  BY DEF Printed
  <2> QED BY <1>4, <2>1
<1>7. \A z \in 0 .. d : z <= n => f[z] = w \div 10 ^ (d - z)
  <2> SUFFICES ASSUME NEW z \in 0 .. d, z <= n PROVE f[z] = w \div 10 ^ (d - z)  OBVIOUS
  <2>1. d \in 0 .. 9 /\ 0 \in Nat /\ z \in Nat /\ 0 + z = z /\ 0 + z <= n  BY <1>4
  <2>2. ReadsPart(f, b, 0, z)  BY <1>2, <2>1, PartOf, Zenon
  <2>3. FirstDigits(b, 0, z, d, w)
    <3>1. \A i \in 1 .. z : i \in 1 .. n /\ i \in 1 .. d /\ 0 + i = i  BY <1>4
    <3> QED BY <1>1, <1>6, <3>1 DEF FirstDigits
  <2>4. f[0] \in Nat  BY <1>3
  <2>5. Appended(f[0 + z], f[0], z, w \div 10 ^ (d - z))
    BY <2>1, <2>2, <2>3, <2>4, FirstDigitsRead, Zenon
  <2>6. f[z] = 0 * 10 ^ z + (w \div 10 ^ (d - z))  BY <1>3, <2>1, <2>5, Zenon DEF Appended
  <2>7. PICK x \in Nat : x = 10 ^ z
    <3>1. z \in 0 .. 9  BY <1>4
    <3> QED BY <3>1, Power
  <2>8. PICK y \in Nat : y = w \div 10 ^ (d - z)
    <3>1. d - z \in 0 .. 9  BY <1>4
    <3>2. PICK v \in Nat : v = 10 ^ (d - z) /\ v >= 1  BY <3>1, Power
    <3> QED BY <3>2, DivMod
  <2>9. 0 * x + y = y  OBVIOUS
  <2> QED BY <2>6, <2>7, <2>8, <2>9, Zenon
<1>8. CASE n <= d
  <2>1. PICK e \in 0 .. 7 : e = d - n /\ k + e \in 1 .. 9 /\ n \in 0 .. d
    BY <1>1, <1>4, <1>8
  <2>2. f[n] = w \div 10 ^ e  BY <1>7, <2>1
  <2>3. val \div 10 ^ (k + e) = (val \div 10 ^ k) \div 10 ^ e
    <3>1. k \in 0 .. 9 /\ e \in 0 .. 9 /\ k + e <= 9  BY <2>1
    <3> QED BY <3>1, DivPow
  <2> QED BY <1>2, <1>5, <2>1, <2>2, <2>3 DEF Led
<1>9. CASE ~(n <= d)
  <2>1. k \in 1 .. 2 /\ n \in d + 1 .. d + k /\ d + 1 \in 1 .. n  BY <1>1, <1>4, <1>9
  <2>2. f[d] = w
    <3>1. d \in 0 .. d /\ d <= n /\ d - d = 0 /\ 10 ^ 0 = 1 /\ w \div 1 = w  BY <1>4, <2>1
    <3> QED BY <1>7, <3>1
  <2>3. f[d + 1] = w
    <3>1. t[0 + d + 1] = 46  BY <2>1 DEF Printed
    <3>2. 0 + d + 1 = d + 1 /\ (d + 1) - 1 = d  BY <1>4
    <3>3. b[d + 1] = 46  BY <1>1, <2>1, <3>1, <3>2
    <3>4. f[d + 1] = ReadOn(f[d], b[d + 1])  BY <1>2, <2>1, <3>2 DEF Reads
    <3> QED BY <2>2, <3>3, <3>4 DEF ReadOn, Zero
  <2>4. CASE n = d + 1
    <3>1. k \in 1 .. 9  BY <2>1
    <3> QED BY <1>2, <1>5, <2>3, <2>4, <3>1 DEF Led
  <2>5. CASE n # d + 1
    <3>1. k = 2 /\ n = d + 2 /\ n \in 1 .. n /\ n - 1 = d + 1  BY <1>4, <2>1, <2>5
    <3>2. t[0 + d + 1 + 1] = 48 + Digit(g, 2, 1)  BY <3>1 DEF Printed
    <3>3. b[n] = 48 + Digit(g, 2, 1)
      <4>1. 0 + d + 1 + 1 = n  BY <1>4, <3>1
      <4> QED BY <1>1, <3>1, <3>2, <4>1
    <3>4. g < 100 /\ val = w * 100 + g
      <4>1. 10 ^ 2 = 100  OBVIOUS
      <4> QED BY <1>1, <3>1, <4>1 DEF Short
    <3>5. Digit(g, 2, 1) = g \div 10
      <4>1. 2 - 1 = 1 /\ 10 ^ 1 = 10  OBVIOUS
      <4>2. Digit(g, 2, 1) = (g \div 10) % 10  BY <4>1 DEF Digit
      <4> QED BY <3>4, <4>2
    <3>6. f[n] = ReadOn(w, b[n])  BY <1>2, <2>3, <3>1 DEF Reads
    <3>7. f[n] = 10 * w + (g \div 10)
      <4>1. PICK h \in 0 .. 9 : h = g \div 10  BY <3>4
      <4>2. b[n] = 48 + h  BY <3>3, <3>5, <4>1
      <4>3. ReadOn(w, 48 + h) = 10 * w + h  BY DEF ReadOn, Zero
      <4> QED BY <3>6, <4>1, <4>2, <4>3
    <3>8. val \div 10 = 10 * w + (g \div 10)  BY <3>4
    <3>9. 10 ^ 1 = 10 /\ 1 \in 1 .. 9  OBVIOUS
    <3> QED BY <1>2, <3>7, <3>8, <3>9 DEF Led
  <2> QED BY <2>4, <2>5
<1> QED BY <1>8, <1>9

LEMMA ValueRead ==
  ASSUME NEW c \in Channels, NEW val \in Span[c], FloatPacked(c, val)
  PROVE  \E lost \in 0 .. 9 :
           Read(Body) = val \div 10 ^ lost /\ (lost = 0 <=> Fits(c, val))
<1>1. val \in Nat /\ val < 10 ^ 9  BY PcFramesAssumption
<1>2. PICK itg \in 1 .. 4 : itg = Digits[c].itg  BY Places
<1>3. PICK k \in 0 .. 2 : k = Digits[c].dcm  BY Places
<1>4. PICK n \in Nat : n = TextLen(c) /\ n = itg + k + 1  BY <1>2, <1>3, Places DEF TextLen
<1>5. PICK t : t = Written16(c, val) /\ t = Format(val, itg, k)  BY <1>2, <1>3 DEF Written16
<1>6. PICK b : b = Body  OBVIOUS
<1>7. Text(b, n) /\ \A i \in 1 .. n : b[i] = Filled(t, i)
  <2>1. CrcAt(n) /\ \A i \in 1 .. n : Body[i] = Filled(t, i)
    BY <1>1, <1>4, <1>5, FloatRight
  <2> QED BY <1>6, <2>1 DEF CrcAt, Text
<1>8. PICK r \in 1 .. 5 : r = Room(c) /\ r = (IF k = 0 THEN itg + 1 ELSE itg)
  BY <1>2, <1>3 DEF Room
<1>9. PICK s \in Nat : s = 10 ^ k /\ s >= 1
  <2>1. k \in 0 .. 9  OBVIOUS
  <2> QED BY <2>1, Power
<1>11. PICK w \in Nat : w = val \div s  BY <1>1, <1>9, DivMod
<1>12. PICK g \in Nat : g = val % s /\ g < s /\ val = s * w + g
  <2>1. val % s \in Nat /\ val % s < s /\ val = s * (val \div s) + (val % s)
    BY <1>1, <1>9, DivMod
  <2> QED BY <1>11, <2>1, Zenon
<1>13. \E p, d, x : Printed(t, p, w, d, k, g) /\ Written(x, w, 1, d) /\ (p = 0 \/ Len(t) <= itg)
  <2>1. CASE k = 0
    <3>1. PICK p, d, x : /\ Printed(Format(val, itg, 0), p, val, d, 0, 0)
                         /\ Written(x, val, 1, d)
                         /\ p = 0 \/ Len(Format(val, itg, 0)) <= itg
      BY <1>1, FormatInteger
    <3>2. w = val /\ g = 0  BY <1>1, <1>9, <1>11, <1>12, <2>1
    <3>3. t = Format(val, itg, 0)  BY <1>5, <2>1
    <3>4. Printed(t, p, w, d, k, g) /\ Written(x, w, 1, d) /\ (p = 0 \/ Len(t) <= itg)
      BY <3>1, <3>2, <3>3, <2>1, Zenon
    <3> QED BY <3>4
  <2>2. CASE k \in 1 .. 2
    <3>1. PICK p, d, x : /\ Printed(Format(val, itg, k), p, val \div 10 ^ k, d, k, val % 10 ^ k)
                         /\ Written(x, val \div 10 ^ k, 1, d)
                         /\ p = 0 \/ Len(Format(val, itg, k)) <= itg
      BY <1>1, <2>2, FormatPoint
    <3>2. w = val \div 10 ^ k /\ g = val % 10 ^ k  BY <1>9, <1>11, <1>12
    <3>3. Printed(t, p, w, d, k, g) /\ Written(x, w, 1, d) /\ (p = 0 \/ Len(t) <= itg)
      BY <1>5, <3>1, <3>2, Zenon
    <3> QED BY <3>3
  <2> QED BY <2>1, <2>2
<1>14. PICK p, d, x : Printed(t, p, w, d, k, g) /\ Written(x, w, 1, d) /\ (p = 0 \/ Len(t) <= itg)
  BY <1>13
<1>10. Fits(c, val) <=> w < 10 ^ r  BY <1>3, <1>8, <1>9, <1>11 DEF Fits
<1>15. Short(w, d)  BY <1>14 DEF Written, Short
<1>16. p \in Nat /\ d \in 1 .. 9 /\ Len(t) = p + d + (IF k = 0 THEN 0 ELSE k + 1)
  BY <1>14 DEF Printed
<1>17. Short(g, k)  BY <1>9, <1>12 DEF Short
<1>18. val = w * 10 ^ k + g
  <2>1. w * s + g = val  BY <1>12
  <2> QED BY <1>9, <2>1, Zenon
<1>19. CASE Fits(c, val)
  <2>1. d <= r
    <3>1. w < 10 ^ r  BY <1>10, <1>19
    <3> QED BY <1>14, <3>1, RoomFor
  <2>2. Len(t) <= n  BY <1>4, <1>8, <1>14, <1>16, <2>1
  <2>3. Holding(b, n, t)  BY <1>7, <2>2 DEF Holding
  <2>4. Appended(Read(b), w, k, g)  BY <1>14, <1>15, <1>17, <2>3, TextRead, Zenon
  <2>5. Read(b) = val  BY <1>18, <2>4, Zenon DEF Appended
  <2>6. val \div 10 ^ 0 = val /\ 0 \in 0 .. 9  BY <1>1
  <2> QED BY <1>6, <1>19, <2>5, <2>6
<1>20. CASE ~Fits(c, val)
  <2>1. d > r
    <3>1. ~(w < 10 ^ r)  BY <1>10, <1>20
    <3>2. w < 10 ^ d  BY <1>15 DEF Short
    <3> QED BY <1>16, <3>1, <3>2, NoRoomFor, Zenon
  <2>2. n < Len(t) /\ p = 0  BY <1>4, <1>8, <1>14, <1>16, <2>1
  <2>3. \A i \in 1 .. n : b[i] = t[i]
    <3>1. \A i \in 1 .. n : i <= Len(t)  BY <1>16, <2>2
    <3> QED BY <1>7, <3>1 DEF Filled
  <2>4. Cutting(b, n, t, k)
    <3>1. n >= k + 2  BY <1>4
    <3> QED BY <1>7, <2>2, <2>3, <3>1 DEF Cutting
  <2>5. Printed(t, 0, w, d, k, g)  BY <1>14, <2>2
  <2>6. Holds(t, val, w, d, k, g)  BY <1>1, <1>15, <1>17, <1>18, <2>5 DEF Holds, Appended
  <2>7. \E lost \in 1 .. 9 : Read(b) = val \div 10 ^ lost
    <3>1. Led(b, val)  BY <2>4, <2>6, CutRead, Zenon
    <3> QED BY <3>1, Zenon DEF Led
  <2>8. \A lost \in 1 .. 9 : lost \in 0 .. 9 /\ lost # 0  OBVIOUS
  <2> QED BY <1>6, <1>20, <2>7, <2>8, Zenon
<1> QED BY <1>19, <1>20

LEMMA ValueShown == PcInv => ReplyShowsLeadingDigits
<1> SUFFICES ASSUME PcInv, packed # << >>, packed[1] # "hex"
             PROVE  \E lost \in 0 .. 9 :
                      /\ Read(Body) = packed[2] \div 10 ^ lost
                      /\ lost = 0 <=> Fits(packed[1], packed[2])
  BY DEF ReplyShowsLeadingDigits
<1>1. \E c \in Channels : \E val \in Span[c] : packed = << c, val >> /\ FloatPacked(c, val)
  <2>1. \A val \in Codes : packed # << "hex", val >>  OBVIOUS
  <2> QED BY <2>1 DEF PcInv
<1>2. PICK c \in Channels : \E val \in Span[c] : packed = << c, val >> /\ FloatPacked(c, val)
  BY <1>1
<1>3. PICK val \in Span[c] : packed = << c, val >> /\ FloatPacked(c, val)  BY <1>2
<1>4. packed[1] = c /\ packed[2] = val  BY <1>3
<1>5. \E lost \in 0 .. 9 :
        Read(Body) = val \div 10 ^ lost /\ (lost = 0 <=> Fits(c, val))
  BY <1>3, ValueRead
<1> QED BY <1>4, <1>5

\* For every set of channels and every value below 10 ^ 9: what is read from a
\* reply are the leading digits of the value, all of them exactly if the digits
\* before the point fit what packet_float asks for.
THEOREM LeadingDigitsArrive == Spec => []ReplyShowsLeadingDigits
  BY PcInvHolds, ValueShown, PTL

-----------------------------------------------------------------------------
(* The frames between the fixture and the device.                          *)

LEMMA Ten ==
  ASSUME NEW a \in Nat, NEW b \in Nat, NEW c \in Nat, NEW d \in Nat, NEW e \in Nat,
         NEW g \in Nat, NEW h \in Nat, NEW i \in Nat, NEW j \in Nat, NEW k \in Nat
  PROVE  LET f == << a, b, c, d, e, g, h, i, j, k >>
         IN f \in Seq(Nat) /\ Len(f) = 10 /\ f[1] = a /\ f[2] = b /\ f[4] = d
  OBVIOUS

LEMMA Twelve ==
  ASSUME NEW a \in Nat, NEW b \in Nat, NEW c \in Nat, NEW d \in Nat, NEW e \in Nat,
         NEW g \in Nat, NEW h \in Nat, NEW i \in Nat, NEW j \in Nat, NEW k \in Nat,
         NEW l \in Nat, NEW m \in Nat
  PROVE  LET f == << a, b, c, d, e, g, h, i, j, k, l, m >>
         IN f \in Seq(Nat) /\ Len(f) = 12 /\ f[1] = a /\ f[2] = b /\ f[4] = d
  OBVIOUS

Shape(f) ==
         /\ f \in Seq(Nat) /\ Len(f) \in {10, 12}
         /\ f[1] = \h55 /\ f[2] = \hAA /\ f[4] = Len(f) - 4

LEMMA TypedShape == \A f \in Requests \union Acks : Shape(f)
<1> SUFFICES ASSUME NEW f \in Requests \union Acks PROVE Shape(f)  OBVIOUS
<1>1. CASE f \in Requests
  <2>1. CASE f = << \h55, \hAA, \h00, \h06, \h01, \h01, \hC8, \h9E, \h60, \h3D >>
    BY <2>1, Ten DEF Shape
  <2>2. CASE f = << \h55, \hAA, \h00, \h06, \h02, \h01, \h5F, \h36, \h77, \hE6 >>
    BY <2>2, Ten DEF Shape
  <2>3. CASE f = << \h55, \hAA, \h00, \h06, \h02, \h00, \hE8, \h2B, \hB6, \hE2 >>
    BY <2>3, Ten DEF Shape
  <2>4. CASE f = << \h55, \hAA, \h00, \h06, \h03, \hFF, \hD1, \h0C, \h4C, \h1A >>
    BY <2>4, Ten DEF Shape
  <2>5. CASE f = << \h55, \hAA, \h00, \h06, \h04, \hFF, \hC5, \h27, \hAF, \hE1 >>
    BY <2>5, Ten DEF Shape
  <2>6. CASE f = << \h55, \hAA, \h00, \h06, \h05, \h01, \h4B, \h1D, \h94, \h1D >>
    BY <2>6, Ten DEF Shape
  <2>7. CASE f = << \h55, \hAA, \h00, \h06, \h06, \h01, \hDC, \hB5, \h83, \hC6 >>
    BY <2>7, Ten DEF Shape
  <2>8. CASE f = << \h55, \hAA, \h00, \h06, \h06, \h00, \h6B, \hA8, \h42, \hC2 >>
    BY <2>8, Ten DEF Shape
  <2>9. CASE f = << \h55, \hAA, \h00, \h06, \h07, \hFF, \h52, \h8F, \hB8, \h3A >>
    BY <2>9, Ten DEF Shape
  <2> QED BY <1>1, <2>1, <2>2, <2>3, <2>4, <2>5, <2>6, <2>7, <2>8, <2>9 DEF Requests
<1>2. CASE f \in Acks
  <2>1. CASE f = << \h55, \hAA, \h01, \h06, \h01, \h00, \h7A, \hD5, \h05, \hD1 >>
    BY <2>1, Ten DEF Shape
  <2>2. CASE f = << \h55, \hAA, \h01, \h06, \h02, \h00, \hED, \h7D, \h12, \h0A >>
    BY <2>2, Ten DEF Shape
  <2>3. CASE f = << \h55, \hAA, \h01, \h08, \h03, \h00, \h1D, \h00, \h22, \h31, \h63, \h16 >>
    BY <2>3, Twelve DEF Shape
  <2>4. CASE f = << \h55, \hAA, \h01, \h08, \h04, \h00, \h01, \h00, \hDE, \h22, \h53, \h66 >>
    BY <2>4, Twelve DEF Shape
  <2>5. CASE f = << \h55, \hAA, \h01, \h08, \h04, \h00, \h00, \h00, \h53, \h45, \h5E, \h2F >>
    BY <2>5, Twelve DEF Shape
  <2>6. CASE f = << \h55, \hAA, \h01, \h06, \h05, \h00, \hF9, \h56, \hF1, \hF1 >>
    BY <2>6, Ten DEF Shape
  <2>7. CASE f = << \h55, \hAA, \h01, \h08, \h06, \h00, \h3F, \h00, \h5F, \hD7, \h6A, \hC0 >>
    BY <2>7, Twelve DEF Shape
  <2>8. CASE f = << \h55, \hAA, \h01, \h06, \h07, \h00, \hE3, \h99, \hEB, \h63 >>
    BY <2>8, Ten DEF Shape
  <2> QED BY <1>2, <2>1, <2>2, <2>3, <2>4, <2>5, <2>6, <2>7, <2>8 DEF Acks
<1> QED BY <1>1, <1>2

Start == << \hFFFF, \hFFFF >>

Turn(r, byte) == Word[r][byte]

\* f is the register after each of the first n bytes.
Fed(f, bytes, n) ==
  /\ f = [k \in 0 .. n |-> f[k]]
  /\ f[0] = Start
  /\ \A k \in 1 .. n : f[k] = Turn(f[k - 1], bytes[k])

LEMMA RegisterDef ==
  ASSUME NEW bytes
  PROVE  Register(bytes) = (CHOOSE g : g = [n \in 0 .. Len(bytes) |->
                              IF n = 0 THEN Start ELSE Turn(g[n - 1], bytes[n])])[Len(bytes)]
  BY DEF Register, Start, Turn

LEMMA RegisterIs ==
  ASSUME NEW S, NEW bytes \in Seq(S), NEW f, Fed(f, bytes, Len(bytes))
  PROVE  Register(bytes) = f[Len(bytes)]
<1>a. PICK L \in Nat : L = Len(bytes)  OBVIOUS
<1> DEFINE After(g) == [n \in 0 .. L |-> IF n = 0 THEN Start ELSE Turn(g[n - 1], bytes[n])]
           h == CHOOSE g : g = After(g)
<1>0. /\ f = [k \in 0 .. L |-> f[k]]
      /\ f[0] = Start
      /\ \A k \in 1 .. L : f[k] = Turn(f[k - 1], bytes[k])
  BY <1>a DEF Fed
<1>1. f = After(f)
  <2>2. \A k \in 0 .. L : f[k] = IF k = 0 THEN Start ELSE Turn(f[k - 1], bytes[k])
    BY <1>0
  <2> QED BY <1>0, <2>2
<1>2. h = After(h)  BY <1>1
<1>3. Register(bytes) = h[L]  BY <1>a, RegisterDef, Zenon
<1> HIDE DEF h
<1>4. h[0] = Start /\ \A k \in 1 .. L : h[k] = Turn(h[k - 1], bytes[k])
  BY <1>2
<1>5. AgreeOn(f, h, L)  BY <1>0, <1>4 DEF AgreeOn
<1>6. Agree(f, h, L)  BY <1>5, SameRecursion
<1> QED BY <1>a, <1>3, <1>6 DEF Agree

Framed(c) ==
  /\ c \in Seq(Nat) /\ Len(c) >= 5
  /\ c[1] = \h55 /\ c[2] = \hAA /\ c[4] = Len(c)

LEMMA TypedCode ==
  ASSUME NEW f \in Requests \union Acks
  PROVE  \E c : /\ c = SubSeq(f, 1, Len(f) - 4)
         /\ Framed(c)
         /\ SubSeq(c, 3, Len(c)) = SubSeq(f, 3, Len(f) - 4)
         /\ Len(SubSeq(f, Len(f) - 3, Len(f))) = 4
<1>1. f \in Seq(Nat) /\ Len(f) \in {10, 12} /\ f[1] = \h55 /\ f[2] = \hAA /\ f[4] = Len(f) - 4
  BY TypedShape DEF Shape
<1>0. PICK L \in {10, 12} : L = Len(f)  BY <1>1
<1>c. PICK c : c = SubSeq(f, 1, L - 4)  OBVIOUS
<1>2. c \in Seq(Nat) /\ Len(c) = L - 4 /\ \A i \in 1 .. L - 4 : c[i] = f[i]
  <2>0. L - 4 \in Nat /\ 1 <= L - 4 /\ L - 4 <= L
    BY <1>0
  <2>1. PICK n \in Nat : n = L - 4 /\ 1 <= n /\ n <= L
    BY <2>0
  <2>a. f \in Seq(Nat) /\ n <= Len(f)
    BY <1>0, <1>1, <2>1
  <2>2. /\ SubSeq(f, 1, n) \in Seq(Nat) /\ Len(SubSeq(f, 1, n)) = n - 1 + 1
        /\ \A i \in 1 .. n - 1 + 1 : SubSeq(f, 1, n)[i] = f[1 + i - 1]
    BY <2>1, <2>a, Piece
  <2>3. n - 1 + 1 = n /\ \A i \in 1 .. n : 1 + i - 1 = i
    BY <2>1
  <2> QED BY <1>c, <2>1, <2>2, <2>3
<1>3. Len(SubSeq(f, L - 3, L)) = 4
  <2>1. Len(SubSeq(f, L - 3, L)) = L - (L - 3) + 1  BY <1>0, <1>1, Piece
  <2> QED BY <2>1, <1>0
<1>4. SubSeq(c, 3, L - 4) = SubSeq(f, 3, L - 4)
  <2>1. /\ SubSeq(c, 3, L - 4) \in Seq(Nat) /\ Len(SubSeq(c, 3, L - 4)) = (L - 4) - 3 + 1
        /\ \A i \in 1 .. (L - 4) - 3 + 1 : SubSeq(c, 3, L - 4)[i] = c[3 + i - 1]
    <3>0. L - 4 \in Nat /\ 3 <= L - 4  BY <1>0
    <3>1. PICK n \in Nat : n = L - 4 /\ 3 <= n  BY <3>0
    <3>2. n <= Len(c)  BY <1>2, <3>1
    <3>3. /\ SubSeq(c, 3, n) \in Seq(Nat) /\ Len(SubSeq(c, 3, n)) = n - 3 + 1
          /\ \A i \in 1 .. n - 3 + 1 : SubSeq(c, 3, n)[i] = c[3 + i - 1]
      BY <1>2, <3>1, <3>2, Piece
    <3> QED BY <3>1, <3>3
  <2>2. /\ SubSeq(f, 3, L - 4) \in Seq(Nat) /\ Len(SubSeq(f, 3, L - 4)) = (L - 4) - 3 + 1
        /\ \A i \in 1 .. (L - 4) - 3 + 1 : SubSeq(f, 3, L - 4)[i] = f[3 + i - 1]
    BY <1>0, <1>1, Piece
  <2>3. \A i \in 1 .. (L - 4) - 3 + 1 : c[3 + i - 1] = f[3 + i - 1]
    BY <1>0, <1>2
  <2>4. \A i \in 1 .. Len(SubSeq(c, 3, L - 4)) : SubSeq(c, 3, L - 4)[i] = SubSeq(f, 3, L - 4)[i]
    BY <2>1, <2>2, <2>3
  <2> QED BY <2>1, <2>2, <2>4, SeqEqual
<1>5. c[1] = f[1] /\ c[2] = f[2] /\ c[4] = f[4]  BY <1>2
<1>6. Framed(c)  BY <1>0, <1>1, <1>2, <1>5 DEF Framed
<1>7. Len(c) = L - 4 /\ Len(f) = L  BY <1>0, <1>2
<1> QED BY <1>c, <1>3, <1>4, <1>6, <1>7, Zenon

BarcodeCode(b) ==
  << \h55, \hAA, \h00, \h0A, \h08 >>
    \o [i \in 1 .. 5 |-> Pair(RecvBuf(b), 8 + 2 * i)]

\* The two digits that go into a byte come out of it.
LEMMA PairHalves ==
  ASSUME NEW b \in Barcodes, NEW i \in 1 .. 5
  PROVE  /\ Pair(RecvBuf(b), 8 + 2 * i) \in Nat
         /\ Pair(RecvBuf(b), 8 + 2 * i) \div 16 = b[2 * i - 1]
         /\ Pair(RecvBuf(b), 8 + 2 * i) % 16 = b[2 * i]
<1> DEFINE r == RecvBuf(b)
           j == 8 + 2 * i
<1>0. j \in Nat /\ j \in 10 .. 18 /\ j - 9 = 2 * i - 1 /\ (j + 1) - 9 = 2 * i
  OBVIOUS
<1>1. \A k \in 1 .. 10 : b[k] \in 0 .. 9  BY DutFramesAssumption
<1>2. \A k \in 1 .. 10 : r[k + 9] = b[k] + 48
  BY DEF RecvBuf
<1> HIDE DEF r, j
<1>3. r[j] = b[2 * i - 1] + 48 /\ r[j + 1] = b[2 * i] + 48
  <2>1. (2 * i - 1) \in 1 .. 10 /\ (2 * i) \in 1 .. 10 /\ (2 * i - 1) + 9 = j /\ (2 * i) + 9 = j + 1
    BY <1>0
  <2> QED BY <1>2, <2>1
<1>4. \A x, y \in 0 .. 9 :
        LET p == (((x + 48) - 48) * 16 + ((y + 48) - 48)) % 256
        IN p \in Nat /\ p \div 16 = x /\ p % 16 = y
  OBVIOUS
<1>5. b[2 * i - 1] \in 0 .. 9 /\ b[2 * i] \in 0 .. 9
  <2>1. (2 * i - 1) \in 1 .. 10 /\ (2 * i) \in 1 .. 10  OBVIOUS
  <2> QED BY <1>1, <2>1
<1>6. Pair(r, j) = (((b[2 * i - 1] + 48) - 48) * 16 + ((b[2 * i] + 48) - 48)) % 256
  BY <1>3 DEF Pair
<1> QED BY <1>4, <1>5, <1>6 DEF r, j

LEMMA BarcodeShape ==
  ASSUME NEW b \in Barcodes
  PROVE  \E c : c = BarcodeCode(b) /\ Framed(c) /\ Len(c) = 10
         /\ \A i \in 1 .. 5 : c[5 + i] = Pair(RecvBuf(b), 8 + 2 * i)
<1> DEFINE Two(i) == Pair(RecvBuf(b), 8 + 2 * i)
<1>1. \A i \in 1 .. 5 : Two(i) \in Nat  BY PairHalves
<1> HIDE DEF Two
<1>2. PICK p : p = [i \in 1 .. 5 |-> Two(i)]  OBVIOUS
<1>3. p \in Seq(Nat) /\ Len(p) = 5 /\ \A i \in 1 .. 5 : p[i] = Two(i)
  BY <1>1, <1>2
<1>4. PICK head : head = << \h55, \hAA, \h00, \h0A, \h08 >>  OBVIOUS
<1>5. head \in Seq(Nat) /\ Len(head) = 5 /\ head[1] = \h55 /\ head[2] = \hAA /\ head[4] = 10
  BY <1>4
<1>6. BarcodeCode(b) = head \o p  BY <1>2, <1>4, Zenon DEF BarcodeCode, Two
<1>c. PICK c : c = head \o p  OBVIOUS
<1>7. /\ c \in Seq(Nat) /\ Len(c) = 10
      /\ \A i \in 1 .. 5 : c[i] = head[i]
      /\ \A i \in 1 .. 5 : c[5 + i] = p[i]
  <2>1. Joined(c, head, p) /\ c \in Seq(Nat)  BY <1>3, <1>5, <1>c, Join, Zenon
  <2> QED BY <2>1, <1>3, <1>5 DEF Joined
<1>8. c[1] = head[1] /\ c[2] = head[2] /\ c[4] = head[4]  BY <1>7
<1>9. Framed(c)  BY <1>5, <1>7, <1>8 DEF Framed
<1>10. \A i \in 1 .. 5 : c[5 + i] = Pair(RecvBuf(b), 8 + 2 * i)  BY <1>3, <1>7 DEF Two
<1> QED BY <1>6, <1>c, <1>7, <1>9, <1>10, Zenon

\* What the CRC of frame c covers, and its length.
Rest(c) == SubSeq(c, 3, Len(c))

LEMMA RestIs ==
  ASSUME NEW c, Framed(c)
  PROVE  Rest(c) \in Seq(Nat) /\ Len(Rest(c)) = Len(c) - 2
<1>1. c \in Seq(Nat) /\ Len(c) \in Nat /\ Len(c) >= 5  BY DEF Framed
<1>2. SubSeq(c, 3, Len(c)) \in Seq(Nat) /\ Len(SubSeq(c, 3, Len(c))) = Len(c) - 2
   BY <1>1, Piece
<1> QED BY <1>2 DEF Rest

LEMMA HeaderIs ==
  ASSUME NEW c, Framed(c)
  PROVE  c # << >> /\ SubSeq(c, 1, 2) = << \h55, \hAA >>
<1>1. c \in Seq(Nat) /\ Len(c) \in Nat /\ Len(c) >= 5 /\ c[1] = \h55 /\ c[2] = \hAA
  BY DEF Framed
<1>2. c # << >>  BY <1>1
<1>3. SubSeq(c, 1, 2) \in Seq(Nat) /\ Len(SubSeq(c, 1, 2)) = 2
      /\ \A i \in 1 .. 2 : SubSeq(c, 1, 2)[i] = c[i]
  BY <1>1, Piece
<1>4. PICK h : h = << \h55, \hAA >>  OBVIOUS
<1>5. h \in Seq(Nat) /\ Len(h) = 2 /\ h[1] = \h55 /\ h[2] = \hAA  BY <1>4
<1>6. \A i \in 1 .. Len(SubSeq(c, 1, 2)) : SubSeq(c, 1, 2)[i] = h[i]
  BY <1>1, <1>3, <1>5
<1>7. SubSeq(c, 1, 2) = h  BY <1>3, <1>5, <1>6, SeqEqual
<1> QED BY <1>2, <1>4, <1>7

\* r is the register after the first n of the bytes it covers.
Summing(c, r, n) ==
  /\ n \in Nat /\ n <= Len(Rest(c))
  /\ \E f : Fed(f, Rest(c), n) /\ r = f[n]

LEMMA SummingFirst ==
  ASSUME NEW c, Framed(c)
  PROVE  Summing(c, Start, 0)
<1>1. PICK f : f = [k \in 0 .. 0 |-> Start]  OBVIOUS
<1>2. f = [k \in 0 .. 0 |-> f[k]] /\ f[0] = Start  BY <1>1
<1>3. Fed(f, Rest(c), 0)  BY <1>2 DEF Fed
<1>4. 0 <= Len(Rest(c))
  <2>1. Len(c) >= 5  BY DEF Framed
  <2> QED BY <2>1, RestIs
<1> QED BY <1>2, <1>3, <1>4 DEF Summing

LEMMA SummingNext ==
  ASSUME NEW c, Framed(c), NEW r, NEW n, Summing(c, r, n), n < Len(Rest(c))
  PROVE  Summing(c, Turn(r, Rest(c)[n + 1]), n + 1)
<1>1. PICK w : w = Rest(c)  OBVIOUS
<1>2. n \in Nat /\ Len(w) \in Nat /\ n < Len(w)
  <2>1. Len(w) = Len(c) - 2 /\ Len(c) \in Nat /\ Len(c) >= 5
    <3>1. Len(Rest(c)) = Len(c) - 2 /\ Len(c) \in Nat  BY RestIs DEF Framed
    <3>2. Len(c) >= 5  BY DEF Framed
    <3> QED BY <1>1, <3>1, <3>2, Zenon
  <2> QED BY <1>1, <2>1 DEF Summing
<1>3. PICK f : Fed(f, w, n) /\ r = f[n]  BY <1>1 DEF Summing
<1>4. PICK g : g = [k \in 0 .. n + 1 |-> IF k = n + 1 THEN Turn(r, w[n + 1]) ELSE f[k]]  OBVIOUS
<1>5g. g = [k \in 0 .. n + 1 |-> g[k]]
  BY <1>2, <1>4
<1>5. /\ g[n + 1] = Turn(r, w[n + 1])
      /\ \A k \in 0 .. n : g[k] = f[k]
  BY <1>2, <1>4
<1>6. f[0] = Start /\ \A k \in 1 .. n : f[k] = Turn(f[k - 1], w[k])  BY <1>3 DEF Fed
<1>7. g[0] = Start
  <2>1. 0 \in 0 .. n  BY <1>2
  <2> QED BY <2>1, <1>5, <1>6, Zenon
<1>8. \A k \in 1 .. n + 1 : g[k] = Turn(g[k - 1], w[k])
  <2> TAKE k \in 1 .. n + 1
  <2>0. k - 1 \in 0 .. n  BY <1>2
  <2>1. g[k - 1] = f[k - 1]  BY <2>0, <1>5, Zenon
  <2>2. CASE k = n + 1
    <3>1. k - 1 = n  BY <1>2, <2>2
    <3> QED BY <2>1, <2>2, <3>1, <1>3, <1>5
  <2>3. CASE k \in 1 .. n
    <3>1. g[k] = f[k]  BY <1>5, <2>3
    <3> QED BY <1>6, <2>1, <2>3, <3>1
  <2> QED BY <1>2, <2>2, <2>3
<1>9. Fed(g, w, n + 1)  BY <1>5g, <1>7, <1>8, Zenon DEF Fed
<1> QED BY <1>1, <1>2, <1>5, <1>9 DEF Summing

LEMMA SummingAll ==
  ASSUME NEW c, Framed(c), NEW r, NEW n, Summing(c, r, n), n = Len(Rest(c))
  PROVE  r = Register(Rest(c))
<1>1. PICK f : Fed(f, Rest(c), Len(Rest(c))) /\ r = f[Len(Rest(c))]  BY DEF Summing
<1>2. Rest(c) \in Seq(Nat)  BY RestIs, Zenon
<1> QED BY <1>1, <1>2, RegisterIs

IsTyped(f) ==
  /\ code = SubSeq(f, 1, Len(f) - 4)
  /\ crc = SubSeq(f, Len(f) - 3, Len(f))
  /\ digits = << >>

IsBarcode ==
  /\ digits \in Barcodes /\ code = BarcodeCode(digits)
  /\ crc = << >> \/ (crc = LowFirst(reg) /\ fed = Len(Rest(code)))

\* There is no frame yet, or one that is known; what was written to the CRC
\* unit is the start of what it covers.
DutInv ==
  \/ code = << >> /\ crc = << >> /\ digits = << >> /\ fed = 0
  \/ /\ IsBarcode \/ \E f \in Requests \union Acks : IsTyped(f)
     /\ Summing(code, reg, fed)

LEMMA TypedIs ==
  ASSUME NEW f \in Requests \union Acks, IsTyped(f)
  PROVE  /\ Framed(code) /\ Len(crc) = 4 /\ digits = << >> /\ crc # << >>
         /\ crc = LowFirst(Register(Rest(code)))
<1>1. PICK c : /\ c = SubSeq(f, 1, Len(f) - 4)
               /\ Framed(c)
               /\ SubSeq(c, 3, Len(c)) = SubSeq(f, 3, Len(f) - 4)
               /\ Len(SubSeq(f, Len(f) - 3, Len(f))) = 4
  BY TypedCode
<1>2. code = c /\ Len(crc) = 4 /\ digits = << >>  BY <1>1, Zenon DEF IsTyped
<1>3. crc = LowFirst(Register(SubSeq(f, 3, Len(f) - 4)))
  BY TypedFrames, Zenon DEF IsTyped
<1>4. crc # << >>
  <2>1. Len(<< >>) = 0  OBVIOUS
  <2>2. crc = << >> => 4 = 0  BY <1>2, <2>1, Zenon
  <2> QED BY <2>2
<1>5. Rest(code) = SubSeq(f, 3, Len(f) - 4)  BY <1>1, <1>2, Zenon DEF Rest
<1> QED BY <1>1, <1>2, <1>3, <1>4, <1>5, Zenon

LEMMA BarcodeIs ==
  ASSUME IsBarcode
  PROVE  Framed(code) /\ digits # << >>
<1>1. Framed(code)  BY BarcodeShape, Zenon DEF IsBarcode
<1>2. Len(digits) = 10  BY DutFramesAssumption DEF IsBarcode
<1>3. digits # << >>  BY <1>2
<1> QED BY <1>1, <1>3

LEMMA LowFirstIs ==
  ASSUME NEW r
  PROVE  Len(LowFirst(r)) = 4
  BY DEF LowFirst

-----------------------------------------------------------------------------
(* The invariant of DutFrames, and what it says of every frame.            *)

LEMMA DutInvInit == DutInit => DutInv
  BY DEF DutInit, DutInv

LEMMA Known ==
  ASSUME DutInv, code # << >>
  PROVE  /\ IsBarcode \/ \E f \in Requests \union Acks : IsTyped(f)
         /\ Summing(code, reg, fed) /\ Framed(code)
<1>1. /\ IsBarcode \/ \E f \in Requests \union Acks : IsTyped(f)
      /\ Summing(code, reg, fed)
  BY DEF DutInv
<1>2. Framed(code)  BY <1>1, BarcodeIs, TypedIs
<1> QED BY <1>1, <1>2

LEMMA ResetSums ==
  ASSUME Framed(code'), Reset
  PROVE  Summing(code', reg', fed')
<1>1. reg' = Start /\ fed' = 0  BY DEF Reset, Start
<1> QED BY <1>1, SummingFirst

LEMMA TypedStep ==
  ASSUME NEW f \in Requests \union Acks, Typed(f)
  PROVE  DutInv'
<1>1. IsTyped(f)'  BY DEF Typed, IsTyped
<1>2. Framed(code')
  <2>1. PICK c : c = SubSeq(f, 1, Len(f) - 4) /\ Framed(c)  BY TypedCode
  <2>2. code' = c  BY <2>1, Zenon DEF Typed
  <2> QED BY <2>1, <2>2
<1>3. Summing(code', reg', fed')  BY <1>2, ResetSums DEF Typed
<1> QED BY <1>1, <1>3 DEF DutInv

LEMMA BarcodeStep ==
  ASSUME NEW b \in Barcodes, test_barcode(b)
  PROVE  DutInv'
<1>1. code' = BarcodeCode(b) /\ crc' = << >> /\ digits' = b /\ Reset
  BY DEF test_barcode, BarcodeCode
<1>2. IsBarcode'  BY <1>1 DEF IsBarcode
<1>3. Framed(code')
  <2>1. PICK c : c = BarcodeCode(b) /\ Framed(c)  BY BarcodeShape
  <2> QED BY <1>1, <2>1
<1>4. Summing(code', reg', fed')  BY <1>1, <1>3, ResetSums
<1> QED BY <1>2, <1>4 DEF DutInv

LEMMA ByteStep ==
  ASSUME DutInv, u8CRC_CalcBlockCRC
  PROVE  DutInv'
<1>1. /\ fed < Len(Rest(code))
      /\ reg' = Turn(reg, Rest(code)[fed + 1]) /\ fed' = fed + 1
      /\ code' = code /\ crc' = crc /\ digits' = digits
  BY DEF u8CRC_CalcBlockCRC, Covered, Rest, Turn
<1>2. code # << >>
  <2> SUFFICES ASSUME code = << >> PROVE FALSE  OBVIOUS
  <2>1. fed = 0
    <3>1. ~ Framed(<< >>)  BY HeaderIs
    <3> QED BY <3>1, Known, BarcodeIs, TypedIs DEF DutInv
  <2>2. Rest(code) = << >>  BY DEF Rest
  <2>3. Len(Rest(code)) = 0  BY <2>2
  <2> QED BY <1>1, <2>1, <2>3
<1>3. /\ IsBarcode \/ \E f \in Requests \union Acks : IsTyped(f)
      /\ Summing(code, reg, fed) /\ Framed(code)
  BY <1>2, Known
<1>4. Summing(code, Turn(reg, Rest(code)[fed + 1]), fed + 1)  BY <1>1, <1>3, SummingNext
<1>5. Summing(code', reg', fed')  BY <1>1, <1>4
<1>6. CASE IsBarcode
  <2>1. fed # Len(Rest(code))
    <3>1. fed \in Nat  BY <1>3 DEF Summing
    <3> QED BY <1>1, <3>1
  <2>2. IsBarcode'  BY <1>1, <1>6, <2>1 DEF IsBarcode
  <2> QED BY <1>5, <2>2 DEF DutInv
<1>7. CASE \E f \in Requests \union Acks : IsTyped(f)
  <2>1. \E f \in Requests \union Acks : IsTyped(f)'  BY <1>1, <1>7 DEF IsTyped
  <2> QED BY <1>5, <2>1 DEF DutInv
<1> QED BY <1>3, <1>6, <1>7

LEMMA CrcStepDut ==
  ASSUME DutInv, test_barcode_crc
  PROVE  DutInv'
<1>1. /\ code # << >> /\ fed = Len(Rest(code)) /\ crc = << >> /\ crc' = LowFirst(reg)
      /\ code' = code /\ reg' = reg /\ fed' = fed /\ digits' = digits
  BY DEF test_barcode_crc, Summed, Covered, Rest
<1>2. IsBarcode /\ Summing(code, reg, fed)  BY <1>1, Known, TypedIs
<1>3. IsBarcode'  BY <1>1, <1>2 DEF IsBarcode
<1>4. Summing(code', reg', fed')  BY <1>1, <1>2
<1> QED BY <1>3, <1>4 DEF DutInv

LEMMA DutInvNext == DutInv /\ [DutNext]_dutvars => DutInv'
<1> SUFFICES ASSUME DutInv, [DutNext]_dutvars PROVE DutInv'  OBVIOUS
<1>1. CASE u8CRC_CalcBlockCRC  BY <1>1, ByteStep
<1>2. CASE test_barcode_crc  BY <1>2, CrcStepDut
<1>3. CASE \E f \in Requests \union Acks : Typed(f)  BY <1>3, TypedStep
<1>4. CASE \E b \in Barcodes : test_barcode(b)  BY <1>4, BarcodeStep
<1>5. CASE UNCHANGED dutvars
  BY <1>5 DEF dutvars, DutInv, IsBarcode, IsTyped
<1> QED BY <1>1, <1>2, <1>3, <1>4, <1>5 DEF DutNext

LEMMA DutInvHolds == DutSpec => []DutInv
  BY DutInvInit, DutInvNext, PTL DEF DutSpec

LEMMA RightOne == DutInv => DutFrameRight
<1> SUFFICES ASSUME DutInv, Summed, crc # << >>
             PROVE  /\ SubSeq(code, 1, 2) = << \h55, \hAA >>
                    /\ code[4] = Len(code) + Len(crc) - 4
                    /\ crc = LowFirst(reg)
  BY DEF DutFrameRight
<1>1. code # << >> /\ fed = Len(Rest(code))  BY DEF Summed, Covered, Rest
<1>2. /\ IsBarcode \/ \E f \in Requests \union Acks : IsTyped(f)
      /\ Summing(code, reg, fed) /\ Framed(code)
  BY <1>1, Known
<1>3. reg = Register(Rest(code))  BY <1>1, <1>2, SummingAll
<1>4. crc = LowFirst(reg) /\ Len(crc) = 4
  <2>1. CASE IsBarcode  BY <2>1, LowFirstIs DEF IsBarcode
  <2>2. CASE \E f \in Requests \union Acks : IsTyped(f)  BY <2>2, <1>3, TypedIs
  <2> QED BY <1>2, <2>1, <2>2
<1>5. SubSeq(code, 1, 2) = << \h55, \hAA >>  BY <1>2, HeaderIs
<1>6. code[4] = Len(code) + 4 - 4  BY <1>2 DEF Framed
<1> QED BY <1>4, <1>5, <1>6

\* For every set of barcodes: header, length and CRC of each frame fit the rest,
\* in the typed frames and in those test_barcode builds.
THEOREM DutFramesRight == DutSpec => []DutFrameRight
  BY DutInvHolds, RightOne, PTL

LEMMA ArrivesOne == DutInv => BarcodeArrives
<1> SUFFICES ASSUME DutInv, digits # << >> PROVE BarcodeArrives  BY DEF BarcodeArrives
<1>1. IsBarcode  BY TypedIs DEF DutInv
<1>2. PICK b \in Barcodes : digits = b /\ code = BarcodeCode(b)  BY <1>1 DEF IsBarcode
<1>3. \A i \in 1 .. 5 : code[5 + i] = Pair(RecvBuf(b), 8 + 2 * i)  BY <1>2, BarcodeShape
<1>4. \A i \in 1 .. 5 : code[5 + i] \div 16 = b[2 * i - 1] /\ code[5 + i] % 16 = b[2 * i]
  BY <1>3, PairHalves
<1>5. \A i \in 1 .. 10 : (IF i % 2 = 1 THEN code[5 + (i + 1) \div 2] \div 16
                          ELSE code[5 + i \div 2] % 16) = b[i]
  <2> TAKE i \in 1 .. 10
  <2>1. CASE i % 2 = 1
    <3>1. (i + 1) \div 2 \in 1 .. 5 /\ 2 * ((i + 1) \div 2) - 1 = i  BY <2>1
    <3> QED BY <1>4, <2>1, <3>1
  <2>2. CASE i % 2 # 1
    <3>1. i \div 2 \in 1 .. 5 /\ 2 * (i \div 2) = i  BY <2>2
    <3> QED BY <1>4, <2>2, <3>1
  <2> QED BY <2>1, <2>2
<1>6. b = [i \in 1 .. 10 |-> b[i]]  BY DutFramesAssumption
<1> QED BY <1>2, <1>5, <1>6 DEF BarcodeArrives

\* For every set of barcodes: the digits the PC sent are in the frame, two to a
\* byte and in order.
THEOREM BarcodesArrive == DutSpec => []BarcodeArrives
  BY DutInvHolds, ArrivesOne, PTL
=============================================================================

---------------------------- MODULE WrapLemmas ----------------------------
(***************************************************************************)
(* Arithmetic modulo a word and modulo the size of a ring, for any size.   *)
(***************************************************************************)
EXTENDS Integers, TLAPS

\* A number that lies within one turn of 0..(W - 1) is brought there by one turn.
LEMMA ModRange ==
  ASSUME NEW W \in Nat \ {0}, NEW x \in Int
  PROVE  x % W \in 0..(W - 1)
OBVIOUS

LEMMA ModSmall ==
  ASSUME NEW W \in Nat \ {0}, NEW x \in 0..(W - 1)
  PROVE  x % W = x
OBVIOUS

LEMMA ModBelow ==
  ASSUME NEW W \in Nat \ {0}, NEW x \in (-W)..(-1)
  PROVE  x % W = x + W
OBVIOUS

LEMMA ModAbove ==
  ASSUME NEW W \in Nat \ {0}, NEW x \in W..(2 * W - 1)
  PROVE  x % W = x - W
OBVIOUS

\* A counter that wraps, and the difference of two, which goes up and down with them.
LEMMA Successor ==
  ASSUME NEW W \in Nat \ {0}, NEW a \in 0..(W - 1)
  PROVE  (a + 1) % W = IF a = W - 1 THEN 0 ELSE a + 1
<1>1. CASE a = W - 1
  <2>1. a + 1 \in W..(2 * W - 1) BY <1>1
  <2> QED BY <1>1, <2>1, ModAbove
<1>2. CASE a # W - 1
  <2>1. a + 1 \in 0..(W - 1) BY <1>2
  <2> QED BY <1>2, <2>1, ModSmall
<1> QED BY <1>1, <1>2

LEMMA Difference ==
  ASSUME NEW W \in Nat \ {0}, NEW a \in 0..(W - 1), NEW b \in 0..(W - 1)
  PROVE  (a - b) % W = IF a >= b THEN a - b ELSE a - b + W
<1>1. CASE a >= b
  <2>1. a - b \in 0..(W - 1) BY <1>1
  <2> QED BY <1>1, <2>1, ModSmall
<1>2. CASE a < b
  <2>1. a - b \in (-W)..(-1) BY <1>2
  <2> QED BY <1>2, <2>1, ModBelow
<1> QED BY <1>1, <1>2

LEMMA Sum ==
  ASSUME NEW W \in Nat \ {0}, NEW a \in 0..(W - 1), NEW b \in 0..(W - 1)
  PROVE  (a + b) % W = IF a + b < W THEN a + b ELSE a + b - W
<1>1. CASE a + b < W
  <2>1. a + b \in 0..(W - 1) BY <1>1
  <2> QED BY <1>1, <2>1, ModSmall
<1>2. CASE a + b >= W
  <2>1. a + b \in W..(2 * W - 1) BY <1>2
  <2>2. (a + b) % W = a + b - W BY <2>1, ModAbove
  <2> QED BY <1>2, <2>2
<1> QED BY <1>1, <1>2

LEMMA DifferenceUp ==
  ASSUME NEW W \in Nat \ {0}, NEW a \in 0..(W - 1), NEW b \in 0..(W - 1), (a - b) % W < W - 1
  PROVE  (((a + 1) % W) - b) % W = ((a - b) % W) + 1
<1> DEFINE c == (a + 1) % W
<1>1. c = IF a = W - 1 THEN 0 ELSE a + 1 BY Successor
<1>2. (a - b) % W = IF a >= b THEN a - b ELSE a - b + W BY Difference
<1> HIDE DEF c
<1>3. c \in 0..(W - 1) BY <1>1
<1>4. (c - b) % W = IF c >= b THEN c - b ELSE c - b + W BY <1>3, Difference
<1>5. (c - b) % W = ((a - b) % W) + 1 BY <1>1, <1>2, <1>4
<1> QED BY <1>5 DEF c

LEMMA DifferenceDown ==
  ASSUME NEW W \in Nat \ {0}, NEW a \in 0..(W - 1), NEW b \in 0..(W - 1), a # b
  PROVE  (a - ((b + 1) % W)) % W = ((a - b) % W) - 1
<1> DEFINE c == (b + 1) % W
<1>1. c = IF b = W - 1 THEN 0 ELSE b + 1 BY Successor
<1>2. (a - b) % W = IF a >= b THEN a - b ELSE a - b + W BY Difference
<1> HIDE DEF c
<1>3. c \in 0..(W - 1) BY <1>1
<1>4. (a - c) % W = IF a >= c THEN a - c ELSE a - c + W BY <1>3, Difference
<1>5. (a - c) % W = ((a - b) % W) - 1 BY <1>1, <1>2, <1>4
<1> QED BY <1>5 DEF c

\* A multiple of P other than 0 is at least P away from 0, so quotient and
\* remainder are unique.
LEMMA Multiple ==
  ASSUME NEW P \in Nat \ {0}, NEW d \in Int, d # 0
  PROVE  P * d >= P \/ P * d <= -P
OBVIOUS

LEMMA DivMod ==
  ASSUME NEW P \in Nat \ {0}, NEW x \in Int
  PROVE  x = P * (x \div P) + (x % P) /\ x \div P \in Int /\ x % P \in 0..(P - 1)
OBVIOUS

LEMMA UniqueMod ==
  ASSUME NEW P \in Nat \ {0}, NEW q \in Int, NEW s \in Int,
         NEW r \in 0..(P - 1), NEW t \in 0..(P - 1), P * q + r = P * s + t
  PROVE  r = t
<1>1. P * (q - s) = t - r OBVIOUS
<1>2. CASE q = s BY <1>2
<1>3. CASE q # s
  <2>1. P * (q - s) >= P \/ P * (q - s) <= -P BY <1>3, Multiple
  <2> QED BY <1>1, <2>1
<1> QED BY <1>2, <1>3

\* Adding a multiple of P does not change the remainder.
LEMMA ModAdd ==
  ASSUME NEW P \in Nat \ {0}, NEW W \in Int, W % P = 0, NEW a \in Int
  PROVE  (a + W) % P = a % P
<1> DEFINE q == a \div P
           k == W \div P
           s == (a + W) \div P
           r == a % P
           t == (a + W) % P
<1>1. a = P * q + r /\ q \in Int /\ r \in 0..(P - 1) BY DivMod
<1>2. W = P * k /\ k \in Int BY DivMod
<1>3. a + W = P * s + t /\ s \in Int /\ t \in 0..(P - 1)
  <2>1. a + W \in Int OBVIOUS
  <2> QED BY <2>1, DivMod, Zenon
<1> HIDE DEF q, k, s, r, t
<1>4. P * (q + k) = P * q + P * k BY <1>1, <1>2
<1>5. P * (q + k) + r = P * s + t BY <1>1, <1>2, <1>3, <1>4
<1>6. q + k \in Int BY <1>1, <1>2
<1>7. r = t BY <1>1, <1>3, <1>5, <1>6, UniqueMod
<1> QED BY <1>7 DEF r, t

\* Two numbers less than P apart have different remainders.
LEMMA ModApart ==
  ASSUME NEW P \in Nat \ {0}, NEW a \in Int, NEW d \in 1..(P - 1)
  PROVE  (a + d) % P # a % P
<1> SUFFICES ASSUME (a + d) % P = a % P PROVE FALSE OBVIOUS
<1> DEFINE q == a \div P
           s == (a + d) \div P
           r == a % P
<1>1. a = P * q + r /\ q \in Int /\ r \in 0..(P - 1) BY DivMod
<1>2. a + d = P * s + r /\ s \in Int BY DivMod
<1> HIDE DEF q, s, r
<1>3. P * (s - q) = d BY <1>1, <1>2
<1>4. s # q BY <1>1, <1>2, <1>3
<1>5. P * (s - q) >= P \/ P * (s - q) <= -P BY <1>1, <1>2, <1>4, Multiple
<1> QED BY <1>3, <1>5
====

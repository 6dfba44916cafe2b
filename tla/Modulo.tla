------------------------------- MODULE Modulo -------------------------------
(***************************************************************************)
(* Facts about remainders, for the unsigned counters that wrap around and  *)
(* index a ring (the pipe, the console), and about concatenation.          *)
(***************************************************************************)
EXTENDS Integers, Sequences, TLAPS

USE SMTT(30), ZenonT(30)

\* A number is a multiple of m and a remainder.
LEMMA DivMod ==
    ASSUME NEW a \in Int, NEW m \in Nat \ {0}
    PROVE  /\ a % m \in 0..(m - 1)
           /\ \E q \in Int : a = q * m + (a % m)
<1>1. a % m \in 0..(m - 1)
  OBVIOUS
<1>2. (a \div m) \in Int /\ a = (a \div m) * m + (a % m)
  OBVIOUS
<1> QED  BY <1>1, <1>2, Zenon

\* The remainder is the only one.
LEMMA ModUnique ==
    ASSUME NEW m \in Nat \ {0}, NEW q \in Int, NEW s \in 0..(m - 1)
    PROVE  (q * m + s) % m = s
<1> DEFINE a == q * m + s
           t == a % m
<1>1. a \in Int /\ q * m \in Int
  OBVIOUS
<1> HIDE DEF a
<1>2. PICK p \in Int : a = p * m + t
  BY <1>1, DivMod, Zenon
<1>3. t \in 0..(m - 1)
  BY <1>1, DivMod
<1> HIDE DEF t
<1>4. p * m \in Int /\ (q - p) * m = q * m - p * m
  BY <1>2
<1>5. (q - p) * m = t - s
  BY <1>1, <1>2, <1>3, <1>4 DEF a
<1>6. ASSUME NEW d \in Int, d >= 1 PROVE d * m >= m
  BY <1>6
<1>7. ASSUME NEW d \in Int, d <= -1 PROVE d * m <= -m
  BY <1>7
<1>8. q - p = 0
  <2>1. (q - p) * m < m /\ (q - p) * m > -m /\ q - p \in Int
    BY <1>2, <1>3, <1>5
  <2>2. q - p >= 1 => (q - p) * m >= m
    BY <2>1, <1>6
  <2>3. q - p <= -1 => (q - p) * m <= -m
    BY <2>1, <1>7
  <2> QED  BY <2>1, <2>2, <2>3
<1> QED  BY <1>3, <1>4, <1>5, <1>8 DEF t, a

\* Multiples of m do not matter.
LEMMA ModShift ==
    ASSUME NEW a \in Int, NEW m \in Nat \ {0}, NEW q \in Int
    PROVE  (a + q * m) % m = a % m
<1>1. PICK p \in Int : a = p * m + (a % m)
  BY DivMod, Zenon
<1>2. a % m \in 0..(m - 1)
  BY DivMod
<1>3. a + q * m = (p + q) * m + (a % m)
  <2>1. p * m \in Int /\ q * m \in Int /\ (p + q) * m = p * m + q * m
    OBVIOUS
  <2> QED  BY <1>1, <1>2, <2>1
<1>4. p + q \in Int
  OBVIOUS
<1> QED  BY <1>2, <1>3, <1>4, ModUnique, Zenon

\* A number below m is its own remainder.
LEMMA ModSmall ==
    ASSUME NEW m \in Nat \ {0}, NEW s \in 0..(m - 1)
    PROVE  s % m = s
<1>1. 0 * m + s = s
  OBVIOUS
<1> QED  BY <1>1, ModUnique

\* Numbers that are less than m apart have different remainders.
LEMMA ModDistinct ==
    ASSUME NEW x \in Int, NEW y \in Int, NEW m \in Nat \ {0}, x < y, y - x < m
    PROVE  x % m # y % m
<1> SUFFICES ASSUME x % m = y % m PROVE FALSE
  OBVIOUS
<1>1. PICK p \in Int : x = p * m + (x % m)
  BY DivMod, Zenon
<1>2. PICK q \in Int : y = q * m + (y % m)
  BY DivMod, Zenon
<1>3. x % m \in 0..(m - 1)
  BY DivMod
<1>4. p * m \in Int /\ q * m \in Int /\ (q - p) * m = q * m - p * m
  OBVIOUS
<1>5. (q - p) * m = y - x /\ q - p \in Int
  BY <1>1, <1>2, <1>3, <1>4
<1>6. ASSUME NEW d \in Int, d >= 1 PROVE d * m >= m
  BY <1>6
<1>7. ASSUME NEW d \in Int, d <= 0 PROVE d * m <= 0
  BY <1>7
<1>8. q - p >= 1 => (q - p) * m >= m
  BY <1>5, <1>6
<1>9. q - p <= 0 => (q - p) * m <= 0
  BY <1>5, <1>7
<1> QED  BY <1>5, <1>8, <1>9

\* A remainder differs from the number by a multiple of m.
LEMMA ModIs ==
    ASSUME NEW a \in Int, NEW m \in Nat \ {0}
    PROVE  \E q \in Int : a % m = a + q * m
<1>1. PICK q \in Int : a = q * m + (a % m)
  BY DivMod, Zenon
<1>2. a % m \in 0..(m - 1)
  BY DivMod
<1>3. -q \in Int /\ (-q) * m = -(q * m) /\ q * m \in Int
  OBVIOUS
<1>4. a % m = a + (-q) * m
  BY <1>1, <1>2, <1>3
<1> QED  BY <1>3, <1>4, Zenon

\* A counter that wraps at m, moved on by c.
LEMMA ModPlus ==
    ASSUME NEW a \in Int, NEW m \in Nat \ {0}, NEW c \in Int
    PROVE  ((a % m) + c) % m = (a + c) % m
<1>1. PICK q \in Int : a % m = a + q * m
  BY ModIs, Zenon
<1>2. q * m \in Int /\ a + c \in Int
  OBVIOUS
<1>3. (a % m) + c = (a + c) + q * m
  BY <1>1, <1>2
<1>4. ((a + c) + q * m) % m = (a + c) % m
  BY <1>2, ModShift, Zenon
<1> QED  BY <1>3, <1>4

Divides(k, m) == m % k = 0

\* The place in a ring of k does not depend on the wrapping if k divides m.
LEMMA ModRing ==
    ASSUME NEW a \in Int, NEW m \in Nat \ {0}, NEW c \in Int, NEW k \in Nat \ {0}, Divides(k, m)
    PROVE  ((a % m) + c) % k = (a + c) % k
<1>1. PICK q \in Int : a % m = a + q * m
  BY ModIs, Zenon
<1>2. PICK r \in Int : m = r * k + (m % k)
  <2>1. m \in Int
    OBVIOUS
  <2> QED  BY <2>1, DivMod, Zenon
<1>3. r * k \in Int /\ m = r * k
  BY <1>2 DEF Divides
<1>4. q * r \in Int /\ q * m = (q * r) * k /\ (q * r) * k \in Int
  <2>1. q * (r * k) = (q * r) * k
    OBVIOUS
  <2> QED  BY <1>3, <2>1
<1>5. (a % m) + c = (a + c) + (q * r) * k /\ a + c \in Int
  BY <1>1, <1>4
<1>6. ((a + c) + (q * r) * k) % k = (a + c) % k
  BY <1>4, <1>5, ModShift, Zenon
<1> QED  BY <1>5, <1>6

\* The distance between two counters that wrap at m.
LEMMA ModMinus ==
    ASSUME NEW a \in Int, NEW b \in Int, NEW m \in Nat \ {0}, a - b \in 0..(m - 1)
    PROVE  ((a % m) - (b % m)) % m = a - b
<1>1. PICK q \in Int : b % m = b + q * m
  BY ModIs, Zenon
<1>2. -(b % m) \in Int /\ a % m \in Int /\ b % m \in Int
  BY DivMod
<1>3. ((a % m) - (b % m)) % m = (a + (-(b % m))) % m
  <2>1. (a % m) - (b % m) = (a % m) + (-(b % m))
    BY <1>2
  <2> QED  BY <1>2, <2>1, ModPlus, Zenon
<1>4. -q \in Int /\ (-q) * m = -(q * m) /\ q * m \in Int
  OBVIOUS
<1>5. a + (-(b % m)) = (a - b) + (-q) * m
  BY <1>1, <1>2, <1>4
<1>6. (a - b) % m = a - b
  BY ModSmall
<1>7. ((a - b) + (-q) * m) % m = (a - b) % m
  <2>1. a - b \in Int
    OBVIOUS
  <2> QED  BY <1>4, <2>1, ModShift, Zenon
<1> QED  BY <1>3, <1>5, <1>6, <1>7

\* The elements of a concatenation.
LEMMA Concat ==
    ASSUME NEW V, NEW s \in Seq(V), NEW t \in Seq(V)
    PROVE  /\ s \o t \in Seq(V) /\ Len(s \o t) = Len(s) + Len(t)
           /\ \A i \in 1..Len(s) : (s \o t)[i] = s[i]
           /\ \A i \in (Len(s) + 1)..(Len(s) + Len(t)) : (s \o t)[i] = t[i - Len(s)]
<1>1. Len(s) \in Nat /\ Len(t) \in Nat
  OBVIOUS
<1>2. s \o t \in Seq(V) /\ Len(s \o t) = Len(s) + Len(t)
  OBVIOUS
<1>3. ASSUME NEW i \in 1..Len(s) PROVE (s \o t)[i] = s[i]
  BY <1>1
<1>4. ASSUME NEW i \in (Len(s) + 1)..(Len(s) + Len(t)) PROVE (s \o t)[i] = t[i - Len(s)]
  BY <1>1
<1> QED  BY <1>2, <1>3, <1>4, Zenon
=============================================================================

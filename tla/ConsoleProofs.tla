--------------------------- MODULE ConsoleProofs ----------------------------
(***************************************************************************)
(* Proofs about the console: the ring of consoleintr and consoleread,      *)
(* whose unsigned indices r, w and e wrap around, as a piece of text that  *)
(* starts at r, m characters to read and d characters typed in all.        *)
(***************************************************************************)
EXTENDS Console, Modulo, NaturalsInduction, WellFoundedInduction, TLAPS

USE SMTT(30), ZenonT(30)

-----------------------------------------------------------------------------
(* The indices r, w and e, which wrap around at UINT, in a buffer of INPUT_BUF characters. *)

Index == 0..(UINT - 1)

\* An index is some number modulo UINT.
LEMMA Wrapped ==
    ASSUME NEW a \in Int
    PROVE  a % UINT \in Index /\ \E q \in Int : a % UINT = a + q * UINT
<1>1. UINT \in Nat \ {0}
  BY ConsoleAssumption
<1> QED  BY <1>1, DivMod, ModIs, Zenon DEF Index

\* Adding to an index that has wrapped.
LEMMA WrapPlus ==
    ASSUME NEW a \in Int, NEW c \in Int
    PROVE  ((a % UINT) + c) % UINT = (a + c) % UINT
<1>1. UINT \in Nat \ {0}
  BY ConsoleAssumption
<1> QED  BY <1>1, ModPlus, Zenon

\* The place in the buffer does not depend on the wrapping, as INPUT_BUF divides UINT.
LEMMA WrapAt ==
    ASSUME NEW a \in Int, NEW c \in Int
    PROVE  /\ ((a % UINT) + c) % INPUT_BUF = (a + c) % INPUT_BUF
           /\ (a % UINT) % INPUT_BUF = a % INPUT_BUF
<1>1. UINT \in Nat \ {0} /\ INPUT_BUF \in Nat \ {0} /\ Divides(INPUT_BUF, UINT)
  BY ConsoleAssumption DEF Divides
<1>2. a % UINT \in Int /\ 0 \in Int
  BY <1>1
<1>3. (a % UINT) + 0 = a % UINT /\ a + 0 = a
  BY <1>2
<1>4. ((a % UINT) + 0) % INPUT_BUF = (a + 0) % INPUT_BUF
  BY <1>1, <1>2, ModRing, ZenonT(30)
<1>5. ((a % UINT) + c) % INPUT_BUF = (a + c) % INPUT_BUF
  BY <1>1, ModRing, ZenonT(30)
<1> QED  BY <1>3, <1>4, <1>5

\* The distance between two indices.
LEMMA MinusIs ==
    ASSUME NEW a \in Int, NEW b \in Int, a - b \in Index
    PROVE  Minus(a % UINT, b % UINT) = a - b
<1> USE ConsoleAssumption DEF ConsoleAssumption
<1>1. PICK q \in Int : b % UINT = b + q * UINT
  BY Wrapped, Zenon
<1>2. -(b % UINT) \in Int /\ a % UINT \in Int /\ b % UINT \in Int /\ UINT \in Nat \ {0}
  BY Wrapped DEF Index
<1>3. Minus(a % UINT, b % UINT) = (a + (-(b % UINT))) % UINT
  <2>1. (a % UINT) - (b % UINT) = (a % UINT) + (-(b % UINT))
    BY <1>2
  <2> QED  BY <1>2, <2>1, WrapPlus, Zenon DEF Minus
<1>4. -q \in Int /\ (-q) * UINT = -(q * UINT) /\ q * UINT \in Int
  BY <1>2
<1>5. a + (-(b % UINT)) = (a - b) + (-q) * UINT
  BY <1>1, <1>2, <1>4
<1>6. (a - b) % UINT = a - b
  BY <1>2, ModSmall DEF Index
<1>7. ((a - b) + (-q) * UINT) % UINT = (a - b) % UINT
  <2>1. a - b \in Int
    OBVIOUS
  <2> QED  BY <1>2, <1>4, <2>1, ModShift, ZenonT(30)
<1> QED  BY <1>3, <1>5, <1>6, <1>7

\* The distance leads from one index to the other.
LEMMA MinusBack ==
    ASSUME NEW x \in Index, NEW y \in Index
    PROVE  Minus(x, y) \in Index /\ (y + Minus(x, y)) % UINT = x
<1> USE ConsoleAssumption DEF ConsoleAssumption
<1>1. x - y \in Int /\ y \in Int /\ UINT \in Nat \ {0}
  BY DEF Index
<1>2. Minus(x, y) \in Index
  BY <1>1, Wrapped, Zenon DEF Minus
<1>3. (y + Minus(x, y)) % UINT = (((x - y) % UINT) + y) % UINT
  BY <1>1, <1>2 DEF Minus, Index
<1>4. (((x - y) % UINT) + y) % UINT = ((x - y) + y) % UINT
  BY <1>1, WrapPlus, Zenon
<1>5. (x - y) + y = x
  BY <1>1 DEF Index
<1> QED  BY <1>1, <1>2, <1>3, <1>4, <1>5, ModSmall DEF Index

\* The m characters of a buffer f from index a on.
Str(f, a, m) == [i \in 1..m |-> f[(a + i - 1) % INPUT_BUF]]

\* Text, with the index before it wraps.
LEMMA TextIs ==
    ASSUME NEW f, NEW a \in Int, NEW m \in Index
    PROVE  [i \in 1..Minus((a + m) % UINT, a % UINT) |-> f[((a % UINT) + i - 1) % INPUT_BUF]]
             = Str(f, a, m)
<1>1. m \in Int /\ a + m \in Int /\ (a + m) - a = m
  BY ConsoleAssumption DEF ConsoleAssumption, Index
<1>2. Minus((a + m) % UINT, a % UINT) = m
  BY <1>1, MinusIs
<1>3. ASSUME NEW i \in 1..m PROVE ((a % UINT) + i - 1) % INPUT_BUF = (a + i - 1) % INPUT_BUF
  <2>1. i - 1 \in Int /\ a % UINT \in Int
    BY <1>1, Wrapped, ConsoleAssumption DEF ConsoleAssumption, Index
  <2>2. (a % UINT) + i - 1 = (a % UINT) + (i - 1) /\ a + i - 1 = a + (i - 1)
    BY <1>1, <2>1
  <2> QED  BY <2>1, <2>2, WrapAt
<1> QED  BY <1>2, <1>3 DEF Str

\* The buffer g is f with c at j.
Puts(f, g, j, c) == g[j] = c /\ \A i \in 0..(INPUT_BUF - 1) : i # j => g[i] = f[i]

\* A character put behind the text does not change it.
LEMMA StrKeep ==
    ASSUME NEW a \in Int, NEW d \in 0..(INPUT_BUF - 1), NEW m \in 0..d, NEW f, NEW g, NEW c,
           Puts(f, g, (a + d) % INPUT_BUF, c)
    PROVE  Str(g, a, m) = Str(f, a, m)
<1> USE ConsoleAssumption DEF ConsoleAssumption
<1>1. ASSUME NEW i \in 1..m PROVE g[(a + i - 1) % INPUT_BUF] = f[(a + i - 1) % INPUT_BUF]
  <2>1. a + i - 1 \in Int /\ a + d \in Int /\ a + i - 1 < a + d /\ (a + d) - (a + i - 1) < INPUT_BUF
    OBVIOUS
  <2>2. INPUT_BUF \in Nat \ {0}
    OBVIOUS
  <2>3. (a + i - 1) % INPUT_BUF # (a + d) % INPUT_BUF
    BY <2>1, <2>2, ModDistinct, Zenon
  <2>4. (a + i - 1) % INPUT_BUF \in 0..(INPUT_BUF - 1)
    BY <2>1, <2>2, DivMod, Zenon
  <2> QED  BY <2>3, <2>4, Zenon DEF Puts
<1> QED  BY <1>1, Zenon DEF Str

\* A sequence cut at m, and an element behind it.
LEMMA Join ==
    ASSUME NEW V, NEW d \in Nat, NEW x \in [1..d -> V], NEW c \in V, NEW m \in 0..d
    PROVE  [i \in 1..m |-> x[i]] \o Append([i \in 1..(d - m) |-> x[m + i]], c)
             = [i \in 1..(d + 1) |-> IF i <= d THEN x[i] ELSE c]
<1> DEFINE s == [i \in 1..m |-> x[i]]
           u == [i \in 1..(d - m) |-> x[m + i]]
           z == s \o Append(u, c)
<1>1. s \in Seq(V) /\ Len(s) = m /\ \A i \in 1..m : s[i] = x[i]
  <2>1. s \in [1..m -> V] /\ m \in Nat
    OBVIOUS
  <2> QED  BY <2>1
<1>2. u \in Seq(V) /\ Len(u) = d - m /\ \A i \in 1..(d - m) : u[i] = x[m + i]
  <2>1. \A i \in 1..(d - m) : m + i \in 1..d
    OBVIOUS
  <2>2. u \in [1..(d - m) -> V] /\ d - m \in Nat
    BY <2>1
  <2> QED  BY <2>2
<1> HIDE DEF s, u
<1>3. /\ Append(u, c) \in Seq(V) /\ Len(Append(u, c)) = d - m + 1
      /\ \A i \in 1..(d - m) : Append(u, c)[i] = u[i]
      /\ Append(u, c)[d - m + 1] = c
  BY <1>2
<1>4. /\ z \in Seq(V) /\ Len(z) = d + 1
      /\ \A i \in 1..m : z[i] = s[i]
      /\ \A i \in (m + 1)..(d + 1) : z[i] = Append(u, c)[i - m]
  <2>1. PICK t : t = Append(u, c)
    BY Zenon
  <2>2. t \in Seq(V) /\ s \in Seq(V) /\ Len(s) = m /\ Len(t) = d - m + 1
    BY <1>1, <1>3, <2>1, Zenon
  <2>3. m + (d - m + 1) = d + 1
    OBVIOUS
  <2>4. /\ s \o t \in Seq(V) /\ Len(s \o t) = Len(s) + Len(t)
        /\ \A i \in 1..Len(s) : (s \o t)[i] = s[i]
        /\ \A i \in (Len(s) + 1)..(Len(s) + Len(t)) : (s \o t)[i] = t[i - Len(s)]
    BY <2>2, Concat, Zenon
  <2> QED  BY <2>1, <2>2, <2>3, <2>4, Zenon
<1> HIDE DEF z
<1>5. \A i \in 1..(d + 1) : z[i] = IF i <= d THEN x[i] ELSE c
  <2> SUFFICES ASSUME NEW i \in 1..(d + 1) PROVE z[i] = IF i <= d THEN x[i] ELSE c
    OBVIOUS
  <2>1. CASE i <= m
    BY <1>1, <1>4, <2>1
  <2>2. CASE i > m /\ i <= d
    <3>1. i - m \in 1..(d - m) /\ m + (i - m) = i /\ i \in (m + 1)..(d + 1)
      BY <2>2
    <3>2. z[i] = u[i - m] /\ u[i - m] = x[m + (i - m)]
      BY <1>2, <1>3, <1>4, <3>1
    <3> QED  BY <2>2, <3>1, <3>2
  <2>3. CASE i = d + 1
    <3>1. i - m = d - m + 1 /\ i \in (m + 1)..(d + 1) /\ ~(i <= d)
      BY <2>3
    <3> QED  BY <1>3, <1>4, <3>1
  <2> QED  BY <2>1, <2>2, <2>3
<1>6. DOMAIN z = 1..(d + 1) /\ z = [i \in DOMAIN z |-> z[i]]
  BY <1>4
<1>7. z = [i \in 1..(d + 1) |-> IF i <= d THEN x[i] ELSE c]
  BY <1>5, <1>6
<1> QED  BY <1>7, Zenon DEF s, u, z

\* The text of length m, the text behind it up to d, and c make a text.
Grown(f, g, a, m, d, c) ==
    Str(f, a, m) \o Append(Str(f, a + m, d - m), c) = Str(g, a, d + 1)

\* A character put behind the text continues it.
LEMMA StrGrow ==
    ASSUME NEW a \in Int, NEW d \in 0..(INPUT_BUF - 1), NEW m \in 0..d, NEW f, NEW g, NEW c,
           Puts(f, g, (a + d) % INPUT_BUF, c)
    PROVE  Grown(f, g, a, m, d, c)
<1>1. d \in 0..d /\ d \in Nat
  OBVIOUS
<1>2. Str(g, a, d) = Str(f, a, d)
  BY <1>1, StrKeep, ZenonT(30)
<1> USE ConsoleAssumption DEF ConsoleAssumption
<1> DEFINE x == Str(f, a, d)
           V == {x[i] : i \in 1..d} \cup {c}
<1>3. x \in [1..d -> V] /\ c \in V
  BY Zenon DEF Str
<1>4. Str(f, a, m) = [i \in 1..m |-> x[i]]
  <2>1. \A i \in 1..m : i \in 1..d
    OBVIOUS
  <2> QED  BY <2>1, Zenon DEF Str
<1>5. Str(f, a + m, d - m) = [i \in 1..(d - m) |-> x[m + i]]
  <2>1. \A i \in 1..(d - m) : m + i \in 1..d /\ a + m + i - 1 = a + (m + i) - 1
    OBVIOUS
  <2>2. \A i \in 1..(d - m) : x[m + i] = f[(a + m + i - 1) % INPUT_BUF]
    BY <2>1, Zenon DEF Str
  <2> QED  BY <2>2, Zenon DEF Str
<1>6. Str(g, a, d + 1) = [i \in 1..(d + 1) |-> IF i <= d THEN x[i] ELSE c]
  <2>1. ASSUME NEW i \in 1..(d + 1)
        PROVE  g[(a + i - 1) % INPUT_BUF] = IF i <= d THEN x[i] ELSE c
    <3>1. CASE i <= d
      <4>1. i \in 1..d
        BY <3>1
      <4>2. Str(g, a, d)[i] = g[(a + i - 1) % INPUT_BUF]
        BY <4>1, Zenon DEF Str
      <4> QED  BY <1>2, <3>1, <4>2
    <3>2. CASE ~(i <= d)
      <4>1. a + i - 1 = a + d
        BY <3>2
      <4> QED  BY <3>2, <4>1 DEF Puts
    <3> QED  BY <3>1, <3>2
  <2> QED  BY <2>1, Zenon DEF Str
<1> HIDE DEF x, V
<1>7. [i \in 1..m |-> x[i]] \o Append([i \in 1..(d - m) |-> x[m + i]], c)
        = [i \in 1..(d + 1) |-> IF i <= d THEN x[i] ELSE c]
  <2>1. \A y \in [1..d -> V] :
          [i \in 1..m |-> y[i]] \o Append([i \in 1..(d - m) |-> y[m + i]], c)
            = [i \in 1..(d + 1) |-> IF i <= d THEN y[i] ELSE c]
    BY <1>1, <1>3, Join
  <2> QED  BY <1>3, <2>1, Zenon
<1> QED  BY <1>4, <1>5, <1>6, <1>7, Zenon DEF Grown

\* What is left of a text when its first k characters are taken.
LEMMA StrRest ==
    ASSUME NEW f, NEW a \in Int, NEW m \in Nat, NEW k \in 0..m
    PROVE  SubSeq(Str(f, a, m), k + 1, Len(Str(f, a, m))) = Str(f, a + k, m - k)
<1> DEFINE s == Str(f, a, m)
           V == {s[i] : i \in 1..m}
<1>1. s \in Seq(V) /\ Len(s) = m
  <2>1. s \in [1..m -> V]
    BY Zenon DEF Str
  <2> QED  BY <2>1
<1>2. \A i \in 1..m : s[i] = f[(a + i - 1) % INPUT_BUF]
  BY DEF Str
<1> HIDE DEF s, V
<1>3. SubSeq(s, k + 1, m) = [i \in 1..(m - k) |-> s[k + i]]
  BY <1>1
<1>4. \A i \in 1..(m - k) : k + i \in 1..m /\ a + k + i - 1 = a + (k + i) - 1
  OBVIOUS
<1> QED  BY <1>1, <1>2, <1>3, <1>4 DEF s, Str

\* A set of numbers that is not empty has a smallest one.
LEMMA Smallest ==
    ASSUME NEW S \in SUBSET Nat, S # {}
    PROVE  \E k \in S : \A j \in S : k <= j
<1>1. PICK k \in S : \A j \in S : ~(j < k)
  <2>1. IsWellFoundedOn(OpToRel(<, Nat), Nat)
    BY NatLessThanWellFounded, Zenon
  <2>2. PICK k \in S : \A j \in S : ~(<<j, k>> \in OpToRel(<, Nat))
    BY <2>1, WFMin, Zenon
  <2> QED  BY <2>2, Zenon DEF OpToRel
<1> QED  BY <1>1

-----------------------------------------------------------------------------
(* The invariant. *)

Chars == Keys \cup {"x", "\n"}

\* There are m characters to read behind r and d - m of a line that is being typed.
Ring(m, d) ==
    /\ m <= d /\ (d = INPUT_BUF => m = d)
    /\ r \in Index /\ w = (r + m) % UINT /\ e = (r + d) % UINT
    /\ unread = Str(buf, r, m)

RingOK ==
    /\ buf \in [0..(INPUT_BUF - 1) -> Chars]
    /\ \E m, d \in 0..INPUT_BUF : Ring(m, d)

CallOK ==
    /\ pc \in [Procs -> {"user", "enter", "cons", "relock", "leave"}]
    /\ n \in [Procs -> Nat] /\ target \in [Procs -> Nat] /\ result \in [Procs -> Int]
    /\ \A p \in Procs : n[p] <= target[p]
    /\ \A p \in Readers : pc[p] \in {"enter", "cons"} => target[p] \in Sizes

ConsoleInv == RingOK /\ CallOK

\* What the ring says of the distances and of the texts.
LEMMA RingView ==
    ASSUME NEW m \in 0..INPUT_BUF, NEW d \in 0..INPUT_BUF, Ring(m, d)
    PROVE  /\ Minus(w, r) = m /\ Minus(e, r) = d /\ Minus(e, w) = d - m
           /\ Text(r, w) = Str(buf, r, m)
           /\ Text(w, e) = Str(buf, r + m, d - m)
<1> USE ConsoleAssumption DEF ConsoleAssumption
<1>1. /\ r \in Int /\ r + m \in Int /\ r + d \in Int
      /\ m \in Index /\ d \in Index /\ d - m \in Index
      /\ (r + m) - r = m /\ (r + d) - r = d /\ (r + d) - (r + m) = d - m
      /\ (r + m) + (d - m) = r + d
  BY DEF Ring, Index
<1>2. r % UINT = r
  BY ModSmall DEF Ring, Index
<1>3. Minus(w, r) = m
  BY <1>1, <1>2, MinusIs, ZenonT(30) DEF Ring
<1>4. Minus(e, r) = d
  BY <1>1, <1>2, MinusIs, ZenonT(30) DEF Ring
<1>5. Minus(e, w) = d - m
  BY <1>1, MinusIs, Zenon DEF Ring
<1>6. Text(r, w) = Str(buf, r, m)
  <2>1. [i \in 1..Minus((r + m) % UINT, r % UINT) |-> buf[((r % UINT) + i - 1) % INPUT_BUF]]
          = Str(buf, r, m)
    BY <1>1, TextIs, Zenon
  <2> QED  BY <1>2, <2>1, Zenon DEF Ring, Text, At
<1>7. Text(w, e) = Str(buf, r + m, d - m)
  <2>1. [i \in 1..Minus(((r + m) + (d - m)) % UINT, (r + m) % UINT)
           |-> buf[(((r + m) % UINT) + i - 1) % INPUT_BUF]]
          = Str(buf, r + m, d - m)
    BY <1>1, TextIs, Zenon
  <2> QED  BY <1>1, <2>1, Zenon DEF Ring, Text, At
<1> QED  BY <1>3, <1>4, <1>5, <1>6, <1>7

\* The ring gives what the runs check.
LEMMA RingGives == RingOK => InputOrder /\ NeverStuck
<1> SUFFICES ASSUME NEW m \in 0..INPUT_BUF, NEW d \in 0..INPUT_BUF, Ring(m, d)
             PROVE  InputOrder /\ NeverStuck
  BY DEF RingOK
<1>1. InputOrder
  BY RingView DEF InputOrder, Ring
<1>2. Minus(e, r) = d
  BY RingView
<1>3. d = INPUT_BUF => w = e
  BY DEF Ring
<1> QED  BY <1>1, <1>2, <1>3 DEF NeverStuck

-----------------------------------------------------------------------------
(* consoleintr. *)

\* Where k characters are erased at the end of the line.
LEMMA Back ==
    ASSUME NEW m \in 0..INPUT_BUF, NEW d \in 0..INPUT_BUF, Ring(m, d), NEW k \in 0..(d - m)
    PROVE  Minus(e, k) = (r + (d - k)) % UINT
<1> USE ConsoleAssumption DEF ConsoleAssumption
<1>1. r + d \in Int /\ -k \in Int /\ e \in Int /\ e - k = e + (-k) /\ (r + d) + (-k) = r + (d - k)
  <2>1. r \in Int /\ r + d \in Int
    BY DEF Ring, Index
  <2>2. e \in Int
    BY <2>1, Wrapped DEF Ring, Index
  <2> QED  BY <2>1, <2>2
<1>2. (((r + d) % UINT) + (-k)) % UINT = ((r + d) + (-k)) % UINT
  BY <1>1, WrapPlus, Zenon
<1>3. e = (r + d) % UINT
  BY Zenon DEF Ring
<1> QED  BY <1>1, <1>2, <1>3, Zenon DEF Minus

\* Erasing keeps what is available.
LEMMA EraseStep ==
    ASSUME RingOK, NEW m \in 0..INPUT_BUF, NEW d \in 0..INPUT_BUF, Ring(m, d),
           NEW k \in 0..(d - m), e' = Minus(e, k), UNCHANGED <<buf, r, w, unread>>
    PROVE  RingOK'
<1> USE ConsoleAssumption DEF ConsoleAssumption
<1>1. d - k \in 0..INPUT_BUF /\ m <= d - k /\ (d - k = INPUT_BUF => m = d - k)
  BY DEF Ring
<1>2. e' = (r + (d - k)) % UINT
  BY Back
<1>3. Ring(m, d - k)'
  BY <1>1, <1>2, Zenon DEF Ring
<1> QED  BY <1>1, <1>3, Zenon DEF RingOK

\* ^U goes back no further than w.
LEMMA LineStartIs ==
    ASSUME NEW m \in 0..INPUT_BUF, NEW d \in 0..INPUT_BUF, Ring(m, d)
    PROVE  \E k \in 0..(d - m) : LineStart = Minus(e, k)
<1> USE ConsoleAssumption DEF ConsoleAssumption
<1> DEFINE S == {k \in 0..(d - m) : k = d - m \/ At(Minus(e, k + 1)) = "\n"}
           P(k) == /\ k = d - m \/ At(Minus(e, k + 1)) = "\n"
                   /\ \A j \in 0..(k - 1) : At(Minus(e, j + 1)) # "\n"
<1>1. Minus(e, w) = d - m
  BY RingView
<1>2. d - m \in Nat
  BY DEF Ring
<1>3. S \in SUBSET Nat /\ S # {}
  <2>1. d - m \in 0..(d - m) /\ 0..(d - m) \subseteq Nat
    BY <1>2
  <2> QED  BY <2>1, Zenon
<1>4. PICK k \in S : \A j \in S : k <= j
  BY <1>3, Smallest, Zenon
<1>5. k \in 0..(d - m) /\ P(k)
  <2>1. \A j \in 0..(k - 1) : j \in 0..(d - m) /\ ~(k <= j)
    BY <1>2, <1>4
  <2> QED  BY <1>4, <2>1
<1>6. LineStart = LET l == CHOOSE l \in 0..(d - m) : P(l) IN Minus(e, l)
  BY <1>1, Zenon DEF LineStart
<1> QED  BY <1>5, <1>6, Zenon

\* What consoleintr does with a character c when the buffer is not full.
Typed(c) ==
    /\ buf' = [buf EXCEPT ![e % INPUT_BUF] = c]
    /\ e' = (e + 1) % UINT
    /\ IF Completes(c) THEN w' = e' /\ unread' = unread \o Append(Text(w, e), c)
                       ELSE UNCHANGED <<w, unread>>
    /\ UNCHANGED r

\* A character typed, in a buffer that is not full.
LEMMA TypeStep ==
    ASSUME RingOK, NEW m \in 0..INPUT_BUF, NEW d \in 0..INPUT_BUF, Ring(m, d),
           NEW c \in Chars, Minus(e, r) < INPUT_BUF, Typed(c)
    PROVE  RingOK'
<1>1. d \in 0..(INPUT_BUF - 1) /\ m \in 0..d /\ r \in Int /\ r + d \in Int /\ d + 1 \in 0..INPUT_BUF
  <2>1. Minus(e, r) = d
    BY RingView, ConsoleAssumption DEF ConsoleAssumption
  <2> QED  BY <2>1, ConsoleAssumption DEF ConsoleAssumption, Ring, Index
<1>2. e = (r + d) % UINT
  BY Zenon DEF Ring
<1>3. e % INPUT_BUF = (r + d) % INPUT_BUF
  <2>1. 1 \in Int
    BY ConsoleAssumption DEF ConsoleAssumption
  <2> QED  BY <1>1, <1>2, <2>1, WrapAt, Zenon
<1>4. (r + d) % INPUT_BUF \in 0..(INPUT_BUF - 1)
  <2>1. INPUT_BUF \in Nat \ {0}
    BY ConsoleAssumption DEF ConsoleAssumption
  <2> QED  BY <1>1, <2>1, DivMod, Zenon
<1>5. /\ buf' \in [0..(INPUT_BUF - 1) -> Chars]
      /\ Puts(buf, buf', (r + d) % INPUT_BUF, c)
  <2>1. PICK i \in 0..(INPUT_BUF - 1) : i = (r + d) % INPUT_BUF
    BY <1>4, Zenon
  <2>2. buf' = [buf EXCEPT ![i] = c] /\ buf \in [0..(INPUT_BUF - 1) -> Chars]
    BY <1>3, <2>1, Zenon DEF RingOK, Typed
  <2>3. /\ buf' \in [0..(INPUT_BUF - 1) -> Chars]
        /\ Puts(buf, buf', i, c)
    BY <2>2, ConsoleAssumption DEF ConsoleAssumption, Puts
  <2> QED  BY <2>1, <2>3, Zenon
<1>6. e' = (r + (d + 1)) % UINT
  <2>1. 1 \in Int /\ (r + d) + 1 = r + (d + 1)
    BY <1>1, ConsoleAssumption DEF ConsoleAssumption
  <2>2. (((r + d) % UINT) + 1) % UINT = ((r + d) + 1) % UINT
    BY <1>1, <2>1, WrapPlus, Zenon
  <2> QED  BY <1>2, <2>1, <2>2, Zenon DEF Typed
<1>7. PICK f, g, a : f = buf /\ g = buf' /\ a = r
  OBVIOUS
<1>8. /\ a \in Int /\ d \in 0..(INPUT_BUF - 1) /\ m \in 0..d
      /\ Puts(f, g, (a + d) % INPUT_BUF, c)
  BY <1>1, <1>5, <1>7, Zenon
<1>9. CASE Completes(c)
  <2>1. unread = Str(buf, r, m) /\ Text(w, e) = Str(buf, r + m, d - m)
    BY RingView, Zenon DEF Ring
  <2>2. Str(buf, r, m) \o Append(Str(buf, r + m, d - m), c) = Str(buf', r, d + 1)
    <3>1. Grown(f, g, a, m, d, c)
      BY <1>8, StrGrow, Zenon
    <3> QED  BY <1>7, <3>1, Zenon DEF Grown
  <2>3. w' = (r + (d + 1)) % UINT /\ unread' = Str(buf', r, d + 1)
    BY <1>6, <1>9, <2>1, <2>2, Zenon DEF Typed
  <2>4. d + 1 <= d + 1
    BY <1>1, ConsoleAssumption DEF ConsoleAssumption
  <2>5. Ring(d + 1, d + 1)'
    BY <1>6, <2>3, <2>4, Zenon DEF Ring, Typed
  <2> QED  BY <1>1, <1>5, <2>5, Zenon DEF RingOK
<1>10. CASE ~Completes(c)
  <2>1. d + 1 # INPUT_BUF
    <3>1. e \in Int /\ 1 - r \in Int /\ (e + 1) - r = e + (1 - r) /\ (r + d) + (1 - r) = d + 1
      BY <1>1, <1>2, Wrapped, ConsoleAssumption DEF ConsoleAssumption, Index
    <3>2. (((r + d) % UINT) + (1 - r)) % UINT = ((r + d) + (1 - r)) % UINT
      BY <1>1, <3>1, WrapPlus, Zenon
    <3>3. (d + 1) % UINT = d + 1
      <4>1. UINT \in Nat \ {0} /\ d + 1 \in 0..(UINT - 1)
        BY <1>1, ConsoleAssumption DEF ConsoleAssumption
      <4> QED  BY <4>1, ModSmall, Zenon
    <3>4. Minus(e + 1, r) = d + 1
      BY <1>2, <3>1, <3>2, <3>3, Zenon DEF Minus
    <3> QED  BY <1>10, <3>4, Zenon DEF Completes
  <2>2. Str(buf', r, m) = Str(buf, r, m)
    <3>1. Str(g, a, m) = Str(f, a, m)
      BY <1>8, StrKeep, ZenonT(30)
    <3> QED  BY <1>7, <3>1, Zenon
  <2>3. m <= d + 1
    BY <1>1, ConsoleAssumption DEF ConsoleAssumption
  <2>4. Ring(m, d + 1)'
    BY <1>6, <1>10, <2>1, <2>2, <2>3, Zenon DEF Ring, Typed
  <2> QED  BY <1>1, <1>5, <2>4, Zenon DEF RingOK
<1> QED  BY <1>9, <1>10, Zenon

\* One round of the loop of consoleintr keeps the ring.
LEMMA IntrStep ==
    ASSUME RingOK, NEW key \in Keys, Intr(key)
    PROVE  RingOK'
<1>1. PICK m \in 0..INPUT_BUF, d \in 0..INPUT_BUF : Ring(m, d)
  BY Zenon DEF RingOK
<1>2. PICK c \in Chars : c = IF key = "\r" THEN "\n" ELSE key
  BY Zenon DEF Chars
<1>3. d - m \in Nat /\ 0 \in 0..(d - m) /\ (d # m => 1 \in 0..(d - m))
  BY <1>1, ConsoleAssumption DEF Ring, ConsoleAssumption
<1>4. CASE UNCHANGED <<input, unread>>
  BY <1>4, Zenon DEF RingOK, Ring, input
<1>5. CASE e' = LineStart /\ UNCHANGED <<buf, r, w, unread>>
  <2>1. PICK k \in 0..(d - m) : LineStart = Minus(e, k)
    BY <1>1, LineStartIs, Zenon
  <2> QED  BY <1>1, <1>5, <2>1, EraseStep, Zenon
<1>6. CASE e' = (IF Erasable THEN Minus(e, 1) ELSE e) /\ UNCHANGED <<buf, r, w, unread>>
  <2>1. CASE e # w
    <3>1. d # m
      BY <1>1, <2>1, Zenon DEF Ring
    <3> QED  BY <1>1, <1>3, <1>6, <2>1, <3>1, EraseStep, Zenon DEF Erasable
  <2>2. CASE e = w
    BY <1>6, <2>2, Zenon DEF RingOK, Ring, Erasable
  <2> QED  BY <2>1, <2>2, Zenon
<1>7. CASE Minus(e, r) < INPUT_BUF /\ Typed(c)
  BY <1>1, <1>7, TypeStep, Zenon
<1>8. \/ UNCHANGED <<input, unread>>
      \/ e' = LineStart /\ UNCHANGED <<buf, r, w, unread>>
      \/ e' = (IF Erasable THEN Minus(e, 1) ELSE e) /\ UNCHANGED <<buf, r, w, unread>>
      \/ Minus(e, r) < INPUT_BUF /\ Typed(c)
  BY <1>2, Zenon DEF Intr, Typed
<1> QED  BY <1>4, <1>5, <1>6, <1>7, <1>8, Zenon

-----------------------------------------------------------------------------
(* consoleread. *)

\* What one pass of consoleread does: of the m characters that are available it looks at k and
\* takes u, and it still wants x.
Passes(p, m, k, u, x) ==
    /\ n' = [n EXCEPT ![p] = x]
    /\ r' = (r + u) % UINT
    /\ unread' = SubSeq(unread, u + 1, Len(unread))
    /\ \A j \in 1..(k - 1) : Str(buf, r, m)[j] # "^D"
    /\ \/ u = k /\ x = n[p] - k /\ (k = 0 \/ Str(buf, r, m)[k] # "^D")
       \/ /\ k > 0 /\ x = n[p] - (k - 1) /\ Str(buf, r, m)[k] = "^D"
          /\ u = IF x < target[p] THEN k - 1 ELSE k
    /\ \/ (k > 0 \/ x = 0) /\ result' = [result EXCEPT ![p] = target[p] - x]
       \/ result' = [result EXCEPT ![p] = -1]
       \/ UNCHANGED result

\* Read does such a pass.
LEMMA ReadPasses ==
    ASSUME CallOK, NEW p \in Procs, Read(p),
           NEW m \in 0..INPUT_BUF, NEW d \in 0..INPUT_BUF, Ring(m, d)
    PROVE  \E k \in 0..m, u \in 0..m, x \in 0..n[p] : Passes(p, m, k, u, x)
<1> DEFINE s == Str(buf, r, m)
           avail == Text(r, w)
           most == IF Len(avail) < n[p] THEN Len(avail) ELSE n[p]
           ends == {i \in 1..most : avail[i] \in {"\n", "^D"}}
           k == IF ends = {} THEN most ELSE CHOOSE i \in ends : \A j \in ends : i <= j
           c == IF ends = {} THEN "x" ELSE avail[k]
           used == IF Kept(p, k, c) THEN k - 1 ELSE k
           rest == n[p] - (IF c = "^D" THEN k - 1 ELSE k)
<1>0. m \in Nat /\ n[p] \in Nat /\ target[p] \in Nat
  BY ConsoleAssumption DEF CallOK, ConsoleAssumption
<1>1. /\ n' = [n EXCEPT ![p] = rest]
      /\ r' = (r + used) % UINT
      /\ unread' = SubSeq(unread, used + 1, Len(unread))
      /\ \/ (ends # {} \/ rest = 0) /\ result' = [result EXCEPT ![p] = target[p] - rest]
         \/ result' = [result EXCEPT ![p] = -1]
         \/ UNCHANGED result
  BY Zenon DEF Read
<1>2. avail = s
  BY RingView
<1>3. Len(avail) = m
  <2>1. avail = [i \in 1..m |-> buf[(r + i - 1) % INPUT_BUF]]
    BY <1>2, Zenon DEF Str
  <2> HIDE DEF avail
  <2>2. avail \in Seq({avail[i] : i \in 1..m}) /\ Len(avail) = m
    <3>1. avail \in [1..m -> {avail[i] : i \in 1..m}]
      BY <2>1
    <3> QED  BY <1>0, <3>1
  <2> QED  BY <2>2
<1> HIDE DEF avail
<1>4. most \in Nat /\ most <= m /\ most <= n[p]
  BY <1>0, <1>3
<1> HIDE DEF most
<1>5. ends # {} => k \in ends /\ \A j \in ends : k <= j
  <2> SUFFICES ASSUME ends # {} PROVE k \in ends /\ \A j \in ends : k <= j
    OBVIOUS
  <2>1. ends \in SUBSET Nat
    BY <1>4
  <2> HIDE DEF ends
  <2>2. \E i \in ends : \A j \in ends : i <= j
    BY <2>1, Smallest
  <2> QED  BY <2>2, Zenon
<1>6. ends = {} => k = most
  OBVIOUS
<1> HIDE DEF k
<1>7. k \in 0..m /\ k <= n[p] /\ k <= most /\ (ends # {} => k > 0)
  BY <1>0, <1>4, <1>5, <1>6
<1>8. \A j \in 1..(k - 1) : s[j] # "^D"
  <2> SUFFICES ASSUME NEW j \in 1..(k - 1), avail[j] = "^D" PROVE FALSE
    BY <1>2, Zenon
  <2>1. j \in 1..most /\ ~(k <= j)
    BY <1>0, <1>4, <1>7
  <2>2. j \in ends
    BY <2>1, Zenon
  <2> QED  BY <1>5, <2>1, <2>2, Zenon
<1>9. ends = {} => k = 0 \/ s[k] # "^D"
  <2> SUFFICES ASSUME ends = {}, k # 0, avail[k] = "^D" PROVE FALSE
    BY <1>2, Zenon
  <2>1. k \in 1..most
    BY <1>0, <1>4, <1>7
  <2> QED  BY <2>1, Zenon
<1>10. c = "^D" => ends # {} /\ s[k] = "^D" /\ k > 0
  BY <1>2, <1>7
<1>11. c # "^D" => k = 0 \/ s[k] # "^D"
  BY <1>2, <1>9
<1> HIDE DEF ends, c
<1>12. CASE c # "^D"
  <2>1. used = k /\ rest = n[p] - k
    BY <1>12, Zenon DEF Kept
  <2>2. n[p] - k \in 0..n[p]
    BY <1>0, <1>7
  <2>3. Passes(p, m, k, k, n[p] - k)
    <3>1. (ends # {} \/ n[p] - k = 0) => k > 0 \/ n[p] - k = 0
      BY <1>7, Zenon
    <3> QED  BY <1>1, <1>8, <1>11, <1>12, <2>1, <3>1, Zenon DEF Passes
  <2> QED  BY <1>7, <2>2, <2>3, Zenon
<1>13. CASE c = "^D"
  <2>1. rest = n[p] - (k - 1)
    BY <1>13, Zenon
  <2>2. used = IF n[p] - (k - 1) < target[p] THEN k - 1 ELSE k
    BY <1>13, Zenon DEF Kept
  <2>3. n[p] - (k - 1) \in 0..n[p] /\ k - 1 \in 0..m
    BY <1>0, <1>7, <1>10, <1>13
  <2>4. used \in 0..m
    BY <1>7, <2>2, <2>3
  <2> HIDE DEF used, rest
  <2>5. Passes(p, m, k, used, n[p] - (k - 1))
    BY <1>1, <1>8, <1>10, <1>13, <2>1, <2>2, Zenon DEF Passes
  <2> QED  BY <1>7, <2>3, <2>4, <2>5, Zenon
<1> QED  BY <1>12, <1>13, Zenon

\* A pass keeps the ring: what it takes is gone from the front of what is unread.
LEMMA PassRing ==
    ASSUME RingOK, NEW p \in Procs, UNCHANGED <<buf, w, e>>,
           NEW m \in 0..INPUT_BUF, NEW d \in 0..INPUT_BUF, Ring(m, d),
           NEW k, NEW u \in 0..m, NEW x, Passes(p, m, k, u, x)
    PROVE  RingOK'
<1>1. /\ r \in Int /\ r + u \in Int /\ m - u \in 0..INPUT_BUF /\ d - u \in 0..INPUT_BUF
      /\ m - u <= d - u /\ (d - u = INPUT_BUF => m - u = d - u)
      /\ (r + u) + (m - u) = r + m /\ (r + u) + (d - u) = r + d /\ m \in Nat
      /\ m - u \in Int /\ d - u \in Int
  BY ConsoleAssumption DEF Ring, Index, ConsoleAssumption
<1>2. r' = (r + u) % UINT /\ r' \in Index
  <2>1. r' = (r + u) % UINT
    BY Zenon DEF Passes
  <2> QED  BY <1>1, <2>1, Wrapped, Zenon
<1>3. w' = (r' + (m - u)) % UINT /\ e' = (r' + (d - u)) % UINT
  <2>1. (((r + u) % UINT) + (m - u)) % UINT = ((r + u) + (m - u)) % UINT
    BY <1>1, WrapPlus, Zenon
  <2>2. (((r + u) % UINT) + (d - u)) % UINT = ((r + u) + (d - u)) % UINT
    BY <1>1, WrapPlus, Zenon
  <2> QED  BY <1>1, <1>2, <2>1, <2>2, Zenon DEF Ring
<1>4. unread' = Str(buf, r + u, m - u)
  <2>1. unread = Str(buf, r, m) /\ unread' = SubSeq(unread, u + 1, Len(unread))
    BY Zenon DEF Passes, Ring
  <2> QED  BY <1>1, <2>1, StrRest, ZenonT(30)
<1>5. Str(buf, r + u, m - u) = Str(buf, (r + u) % UINT, m - u)
  <2>1. ASSUME NEW i \in 1..(m - u)
        PROVE  (((r + u) % UINT) + i - 1) % INPUT_BUF = ((r + u) + i - 1) % INPUT_BUF
    <3>1. /\ i - 1 \in Int /\ ((r + u) % UINT) + i - 1 = ((r + u) % UINT) + (i - 1)
          /\ (r + u) + i - 1 = (r + u) + (i - 1)
      BY <1>1, Wrapped, ConsoleAssumption DEF Index, ConsoleAssumption
    <3>2. (((r + u) % UINT) + (i - 1)) % INPUT_BUF = ((r + u) + (i - 1)) % INPUT_BUF
      BY <1>1, <3>1, WrapAt, ZenonT(30)
    <3> QED  BY <3>1, <3>2, Zenon
  <2> QED  BY <2>1, Zenon DEF Str
<1>6. Ring(m - u, d - u)'
  BY <1>1, <1>2, <1>3, <1>4, <1>5, Zenon DEF Ring
<1> QED  BY <1>1, <1>6, Zenon DEF RingOK

-----------------------------------------------------------------------------
(* The steps of the calls. *)

\* A step of one process that leaves the others alone keeps CallOK.
LEMMA CallStep ==
    ASSUME CallOK, NEW p \in Procs,
           NEW l \in {"user", "enter", "cons", "relock", "leave"}, pc' = [pc EXCEPT ![p] = l],
           NEW x \in Nat, n' = [n EXCEPT ![p] = x],
           NEW t \in Nat, target' = [target EXCEPT ![p] = t],
           NEW v \in Int, result' = [result EXCEPT ![p] = v],
           x <= t, p \in Readers /\ l \in {"enter", "cons"} => t \in Sizes
    PROVE  CallOK'
<1>1. /\ pc' \in [Procs -> {"user", "enter", "cons", "relock", "leave"}]
      /\ n' \in [Procs -> Nat] /\ target' \in [Procs -> Nat] /\ result' \in [Procs -> Int]
  BY DEF CallOK
<1>2. \A q \in Procs : n'[q] <= target'[q]
  BY DEF CallOK
<1>3. \A q \in Readers : pc'[q] \in {"enter", "cons"} => target'[q] \in Sizes
  <2> SUFFICES ASSUME NEW q \in Readers, pc'[q] \in {"enter", "cons"} PROVE target'[q] \in Sizes
    OBVIOUS
  <2>1. q \in Procs
    BY DEF Procs
  <2>2. CASE q = p
    BY <2>1, <2>2 DEF CallOK
  <2>3. CASE q # p
    BY <2>1, <2>3 DEF CallOK
  <2> QED  BY <2>2, <2>3
<1> QED  BY <1>1, <1>2, <1>3, Zenon DEF CallOK

\* What is not assigned is assigned its own value.
LEMMA Itself ==
    ASSUME CallOK, NEW p \in Procs
    PROVE  /\ pc[p] \in {"user", "enter", "cons", "relock", "leave"}
           /\ n[p] \in Nat /\ target[p] \in Nat /\ result[p] \in Int /\ n[p] <= target[p]
           /\ pc = [pc EXCEPT ![p] = pc[p]] /\ n = [n EXCEPT ![p] = n[p]]
           /\ target = [target EXCEPT ![p] = target[p]]
           /\ result = [result EXCEPT ![p] = result[p]]
           /\ p \in Readers /\ pc[p] \in {"enter", "cons"} => target[p] \in Sizes
  BY DEF CallOK

\* A call that begins asks for one of the sizes, and has read nothing yet.
LEMMA EnterStep ==
    ASSUME CallOK, NEW p \in Procs, Enter(p) PROVE CallOK'
<1>1. PICK s \in IF p \in Readers THEN Sizes ELSE {0} :
        n' = [n EXCEPT ![p] = s] /\ target' = [target EXCEPT ![p] = s]
  BY Zenon DEF Enter
<1>2. s \in Nat /\ s <= s /\ (p \in Readers => s \in Sizes)
  BY <1>1, ConsoleAssumption DEF ConsoleAssumption
<1>3. pc' = [pc EXCEPT ![p] = "enter"] /\ result' = [result EXCEPT ![p] = result[p]]
  BY Itself, Zenon DEF Enter, Goto
<1> QED  BY <1>1, <1>2, <1>3, Itself, CallStep, Zenon

\* Leaving the inode changes neither what is asked for nor what is left.
LEMMA UnlockStep ==
    ASSUME CallOK, NEW p \in Procs, Unlock(p) PROVE CallOK'
<1>1. /\ pc[p] = "enter" /\ pc' = [pc EXCEPT ![p] = "cons"] /\ n' = [n EXCEPT ![p] = n[p]]
      /\ target' = [target EXCEPT ![p] = target[p]] /\ result' = [result EXCEPT ![p] = result[p]]
  BY Itself, Zenon DEF Unlock, Ready, Goto
<1> QED  BY <1>1, Itself, CallStep, Zenon

\* The end of consolewrite, and ilock before the return, change nothing of the request.
LEMMA LaterStep ==
    ASSUME CallOK, NEW p \in Procs, Write(p) \/ Relock(p) PROVE CallOK'
<1>1. PICK l \in {"relock", "leave"} : pc' = [pc EXCEPT ![p] = l]
  BY Zenon DEF Write, Relock, Goto
<1>2. /\ n' = [n EXCEPT ![p] = n[p]] /\ target' = [target EXCEPT ![p] = target[p]]
      /\ result' = [result EXCEPT ![p] = result[p]]
  BY Itself, Zenon DEF Write, Relock
<1>3. l \in {"user", "enter", "cons", "relock", "leave"} /\ l \notin {"enter", "cons"}
  BY <1>1
<1> QED  BY <1>1, <1>2, <1>3, Itself, CallStep, Zenon

\* The return of a call clears its request.
LEMMA LeaveStep ==
    ASSUME CallOK, NEW p \in Procs, Leave(p) PROVE CallOK'
<1>1. /\ pc' = [pc EXCEPT ![p] = "user"] /\ n' = [n EXCEPT ![p] = 0]
      /\ target' = [target EXCEPT ![p] = 0] /\ result' = [result EXCEPT ![p] = None]
  BY Zenon DEF Leave, Goto
<1>2. 0 \in Nat /\ 0 <= 0 /\ None \in Int /\ "user" \notin {"enter", "cons"}
  BY DEF None
<1> QED  BY <1>1, <1>2, CallStep, Zenon

\* A pass of consoleread leaves at most what was asked for, and the ring.
LEMMA ReadCall ==
    ASSUME RingOK, CallOK, NEW p \in Procs, Read(p) PROVE RingOK' /\ CallOK'
<1>1. PICK m \in 0..INPUT_BUF, d \in 0..INPUT_BUF : Ring(m, d)
  BY Zenon DEF RingOK
<1>2. PICK k \in 0..m, u \in 0..m, x \in 0..n[p] : Passes(p, m, k, u, x)
  BY <1>1, ReadPasses, Zenon
<1>3. UNCHANGED <<buf, w, e, target>>
  BY Zenon DEF Read
<1>4. RingOK'
  BY <1>1, <1>2, <1>3, PassRing, Zenon
<1>5. x \in Nat /\ x <= target[p] /\ n[p] \in Nat /\ target[p] \in Nat
  BY <1>2, Itself
<1>6. n' = [n EXCEPT ![p] = x]
  BY <1>2, Zenon DEF Passes
<1>7. PICK l : l \in {"relock", "cons"} /\ pc[p] = "cons" /\ pc' = [pc EXCEPT ![p] = l]
  BY Itself, Zenon DEF Read, Goto, Ready
<1>8. PICK v : v \in Int /\ result' = [result EXCEPT ![p] = v]
  <2>1. target[p] - x \in Int /\ -1 \in Int
    BY <1>5
  <2>2. \/ result' = [result EXCEPT ![p] = target[p] - x]
        \/ result' = [result EXCEPT ![p] = -1]
        \/ UNCHANGED result
    BY <1>2, Zenon DEF Passes
  <2>3. result[p] \in Int /\ result = [result EXCEPT ![p] = result[p]]
    BY Itself, Zenon
  <2> QED  BY <2>1, <2>2, <2>3, Zenon
<1>9. target' = [target EXCEPT ![p] = target[p]]
  BY <1>3, Itself, Zenon
<1>10. /\ l \in {"user", "enter", "cons", "relock", "leave"}
       /\ p \in Readers /\ l \in {"enter", "cons"} => target[p] \in Sizes
  BY <1>7, Itself
<1> QED  BY <1>4, <1>5, <1>6, <1>7, <1>8, <1>9, <1>10, CallStep, Zenon

\* The buffer is empty at first, and nobody is in a call.
LEMMA InitInv == Init => ConsoleInv
<1> SUFFICES ASSUME Init PROVE ConsoleInv
  OBVIOUS
<1>1. CallOK
  <2>1. 0 \in Nat /\ None \in Int /\ 0 <= 0
    BY DEF None
  <2>2. /\ pc \in [Procs -> {"user", "enter", "cons", "relock", "leave"}]
        /\ n \in [Procs -> Nat] /\ target \in [Procs -> Nat] /\ result \in [Procs -> Int]
    BY <2>1 DEF Init
  <2>3. \A p \in Procs : n[p] = 0 /\ target[p] = 0 /\ pc[p] = "user"
    BY DEF Init
  <2>4. \A p \in Readers : p \in Procs
    BY DEF Procs
  <2> QED  BY <2>1, <2>2, <2>3, <2>4 DEF CallOK
<1>2. buf \in [0..(INPUT_BUF - 1) -> Chars]
  BY DEF Init, Chars
<1>3. Ring(0, 0) /\ 0 \in 0..INPUT_BUF
  <2>1. 0 \in Index /\ 0 + 0 = 0 /\ 0 <= 0 /\ 0 \in 0..INPUT_BUF /\ UINT \in Nat \ {0}
        /\ 0 \in 0..(UINT - 1)
    BY ConsoleAssumption DEF ConsoleAssumption, Index
  <2>2. 0 % UINT = 0
    BY <2>1, ModSmall, Zenon
  <2>3. Str(buf, 0, 0) = <<>>
    BY DEF Str
  <2> QED  BY <2>1, <2>2, <2>3, Zenon DEF Ring, Init
<1> QED  BY <1>1, <1>2, <1>3, Zenon DEF ConsoleInv, RingOK

\* Every step keeps the invariant.
LEMMA NextInv == ConsoleInv /\ [Next]_vars => ConsoleInv'
<1> SUFFICES ASSUME RingOK, CallOK, [Next]_vars PROVE RingOK' /\ CallOK'
  BY Zenon DEF ConsoleInv
<1>1. ASSUME UNCHANGED input, UNCHANGED unread PROVE RingOK'
  BY <1>1, Zenon DEF RingOK, Ring, input
<1>2. ASSUME UNCHANGED <<pc, n, target, result>> PROVE CallOK'
  BY <1>2, Zenon DEF CallOK
<1>3. ASSUME NEW p \in Procs, Enter(p) PROVE RingOK' /\ CallOK'
  <2>1. UNCHANGED input /\ UNCHANGED unread
    BY <1>3, Zenon DEF Enter
  <2> QED  BY <1>1, <1>3, <2>1, EnterStep, Zenon
<1>4. ASSUME NEW p \in Procs, Unlock(p) PROVE RingOK' /\ CallOK'
  <2>1. UNCHANGED input /\ UNCHANGED unread
    BY <1>4, Zenon DEF Unlock
  <2> QED  BY <1>1, <1>4, <2>1, UnlockStep, Zenon
<1>5. ASSUME NEW p \in Procs, Write(p) \/ Relock(p) PROVE RingOK' /\ CallOK'
  <2>1. UNCHANGED input /\ UNCHANGED unread
    BY <1>5, Zenon DEF Write, Relock
  <2> QED  BY <1>1, <1>5, <2>1, LaterStep, Zenon
<1>6. ASSUME NEW p \in Procs, Leave(p) PROVE RingOK' /\ CallOK'
  <2>1. UNCHANGED input /\ UNCHANGED unread
    BY <1>6, Zenon DEF Leave
  <2> QED  BY <1>1, <1>6, <2>1, LeaveStep, Zenon
<1>7. ASSUME NEW p \in Procs, Read(p) PROVE RingOK' /\ CallOK'
  BY <1>7, ReadCall, Zenon
<1>8. ASSUME NEW p \in Procs, Kill(p) PROVE RingOK' /\ CallOK'
  BY <1>1, <1>2, <1>8, Zenon DEF Kill, call
<1>9. ASSUME NEW key \in Keys, Intr(key) PROVE RingOK' /\ CallOK'
  BY <1>2, <1>9, IntrStep, Zenon DEF Intr, call
<1>10. CASE UNCHANGED vars
  BY <1>1, <1>2, <1>10, Zenon DEF vars, input
<1> QED  BY <1>3, <1>4, <1>5, <1>6, <1>7, <1>8, <1>9, <1>10, Zenon DEF Next, Step

-----------------------------------------------------------------------------
(* The end of a read. *)

\* A pass of consoleread that returns.
LEMMA PassEnds ==
    ASSUME 0 \notin Sizes, CallOK, NEW p \in Readers, p \in Procs, pc[p] = "cons",
           NEW m \in 0..INPUT_BUF, NEW d \in 0..INPUT_BUF, Ring(m, d),
           NEW k \in 0..m, NEW u \in 0..m, NEW x \in 0..n[p], Passes(p, m, k, u, x)
    PROVE  EndsWell(p)
<1>1. /\ n[p] \in Nat /\ target[p] \in Nat /\ target[p] # 0 /\ n[p] <= target[p]
      /\ m \in Nat /\ k \in Nat /\ u \in Nat /\ x \in Nat /\ r \in Int /\ r + u \in Int
  BY Itself, ConsoleAssumption DEF Ring, Index, ConsoleAssumption
<1>2. \A i \in 1..m : Str(buf, r, m)[i] = buf[(r + i - 1) % INPUT_BUF]
  BY Zenon DEF Str
<1>3. r' = (r + u) % UINT /\ r \in Index
  BY Zenon DEF Passes, Ring
<1>4. u = 0 => r' = r
  <2>1. r % UINT = r
    BY ModSmall, ConsoleAssumption DEF Ring, Index, ConsoleAssumption
  <2> QED  BY <1>1, <1>3, <2>1
<1>5. u > 0 => At(Minus(r', 1)) = Str(buf, r, m)[u]
  <2> SUFFICES ASSUME u > 0 PROVE At(Minus(r', 1)) = Str(buf, r, m)[u]
    OBVIOUS
  <2>1. /\ u \in 1..m /\ -1 \in Int /\ r' \in Int /\ r' - 1 = r' + (-1)
        /\ (r + u) + (-1) = r + u - 1 /\ r + u - 1 \in Int
    BY <1>1, <1>3, Wrapped, ConsoleAssumption DEF Index, ConsoleAssumption
  <2>2. Minus(r', 1) = (r + u - 1) % UINT
    <3>1. (((r + u) % UINT) + (-1)) % UINT = ((r + u) + (-1)) % UINT
      BY <1>1, <2>1, WrapPlus, Zenon
    <3> QED  BY <1>3, <2>1, <3>1, Zenon DEF Minus
  <2>3. ((r + u - 1) % UINT) % INPUT_BUF = (r + u - 1) % INPUT_BUF
    BY <2>1, WrapAt, Zenon
  <2> QED  BY <1>2, <2>1, <2>2, <2>3, Zenon DEF At
<1>6. CASE /\ (k > 0 \/ x = 0) /\ result'[p] = target[p] - x
           /\ u = k /\ x = n[p] - k /\ (k = 0 \/ Str(buf, r, m)[k] # "^D")
  <2>1. result'[p] # 0
    <3>1. k > 0 => target[p] - (n[p] - k) # 0
      BY <1>1
    <3>2. x = 0 => target[p] - x # 0
      BY <1>1
    <3> QED  BY <1>6, <3>1, <3>2, Zenon
  <2>2. u = 0 \/ u > 0
    BY <1>1
  <2> QED  BY <1>4, <1>5, <1>6, <2>1, <2>2, Zenon DEF EndsWell
<1>7. CASE /\ result'[p] = target[p] - x
           /\ k > 0 /\ x = n[p] - (k - 1) /\ Str(buf, r, m)[k] = "^D"
           /\ u = (IF x < target[p] THEN k - 1 ELSE k)
           /\ \A j \in 1..(k - 1) : Str(buf, r, m)[j] # "^D"
  <2>1. CASE x < target[p]
    <3>1. result'[p] # 0 /\ u = k - 1
      <4>1. target[p] - x # 0
        BY <1>1, <2>1
      <4> QED  BY <1>7, <2>1, <4>1, Zenon
    <3>2. u = 0 \/ (u > 0 /\ u \in 1..(k - 1))
      BY <1>1, <3>1
    <3> QED  BY <1>4, <1>5, <1>7, <3>1, <3>2, Zenon DEF EndsWell
  <2>2. CASE ~(x < target[p])
    <3>1. x = target[p] /\ k = 1 /\ u = 1 /\ result'[p] = 0 /\ 1 \in 1..m
      <4>1. x = n[p] - (k - 1) /\ k > 0 /\ u = k /\ result'[p] = target[p] - x
        BY <1>7, <2>2, Zenon
      <4>2. x = target[p] /\ k = 1
        BY <1>1, <2>2, <4>1
      <4> QED  BY <1>1, <4>1, <4>2
    <3>2. At(r) = "^D"
      <4>1. r + 1 - 1 = r
        BY <1>1
      <4> QED  BY <1>2, <1>7, <3>1, <4>1, Zenon DEF At
    <3>3. r' # r
      <4>1. /\ UINT \in Nat \ {0} /\ r + 1 \in Int /\ r < r + 1 /\ (r + 1) - r < UINT
            /\ r \in 0..(UINT - 1)
        BY <1>1, ConsoleAssumption DEF Ring, Index, ConsoleAssumption
      <4>2. r % UINT # (r + 1) % UINT
        BY <1>1, <4>1, ModDistinct
      <4>3. r % UINT = r
        BY <4>1, ModSmall
      <4> QED  BY <1>3, <3>1, <4>2, <4>3
    <3>4. ~(result'[p] > 0)
      BY <3>1
    <3> QED  BY <3>2, <3>3, <3>4, Zenon DEF EndsWell
  <2> QED  BY <2>1, <2>2, Zenon
<1>8. CASE result'[p] = -1
  <2>1. ~(result'[p] = 0) /\ ~(result'[p] > 0)
    BY <1>8
  <2> QED  BY <2>1, Zenon DEF EndsWell
<1>9. CASE UNCHANGED result
  BY <1>9, Zenon DEF EndsWell
<1>10. ASSUME NEW v, result' = [result EXCEPT ![p] = v] PROVE result'[p] = v
  <2>1. result \in [Procs -> Int]
    BY Zenon DEF CallOK
  <2> QED  BY <1>10, <2>1, Zenon
<1>11. \/ (k > 0 \/ x = 0) /\ result'[p] = target[p] - x
       \/ result'[p] = -1
       \/ UNCHANGED result
  BY <1>10, Zenon DEF Passes
<1>12. /\ \A j \in 1..(k - 1) : Str(buf, r, m)[j] # "^D"
       /\ \/ u = k /\ x = n[p] - k /\ (k = 0 \/ Str(buf, r, m)[k] # "^D")
          \/ /\ k > 0 /\ x = n[p] - (k - 1) /\ Str(buf, r, m)[k] = "^D"
             /\ u = IF x < target[p] THEN k - 1 ELSE k
  BY Zenon DEF Passes
<1> QED  BY <1>6, <1>7, <1>8, <1>9, <1>11, <1>12, ZenonT(30)

\* Any step: only a pass of its own read gives a reader a result.
LEMMA EofStep ==
    ASSUME 0 \notin Sizes, ConsoleInv, [Next]_vars
    PROVE  [\A p \in Readers : EndsWell(p)]_vars
<1> SUFFICES ASSUME NEW p \in Readers, Next PROVE EndsWell(p)
  BY Zenon
<1>1. RingOK /\ CallOK /\ p \in Procs
  BY Zenon DEF ConsoleInv, Procs
<1>2. CASE UNCHANGED result
  BY <1>2, Zenon DEF EndsWell
<1>3. ASSUME NEW q \in Procs, Read(q) PROVE EndsWell(p)
  <2>1. PICK m \in 0..INPUT_BUF, d \in 0..INPUT_BUF : Ring(m, d)
    BY <1>1, Zenon DEF RingOK
  <2>2. PICK k \in 0..m, u \in 0..m, x \in 0..n[q] : Passes(q, m, k, u, x)
    BY <1>1, <1>3, <2>1, ReadPasses, Zenon
  <2>3. q \in Readers /\ pc[q] = "cons"
    BY <1>3, Zenon DEF Read, Ready
  <2>4. CASE q = p
    BY <1>1, <2>1, <2>2, <2>3, <2>4, PassEnds, Zenon
  <2>5. CASE q # p
    <3>1. result'[p] = result[p]
      <4>1. result \in [Procs -> Int]
        BY <1>1, Zenon DEF CallOK
      <4> QED  BY <1>1, <2>2, <2>5, <4>1, Zenon DEF Passes
    <3> QED  BY <3>1, Zenon DEF EndsWell
  <2> QED  BY <2>4, <2>5, Zenon
<1>4. ASSUME NEW q \in Procs, Leave(q) PROVE EndsWell(p)
  <2>1. result' = [result EXCEPT ![q] = None] /\ result \in [Procs -> Int]
    BY <1>1, <1>4, Zenon DEF Leave, CallOK
  <2>2. result'[p] = None \/ result'[p] = result[p]
    BY <1>1, <2>1, Zenon
  <2> QED  BY <2>2, Zenon DEF EndsWell
<1>5. ASSUME NEW q \in Procs, Enter(q) \/ Unlock(q) \/ Write(q) \/ Relock(q) \/ Kill(q)
      PROVE  UNCHANGED result
  BY <1>5, Zenon DEF Enter, Unlock, Write, Relock, Kill, call
<1>6. ASSUME NEW key \in Keys, Intr(key) PROVE UNCHANGED result
  BY <1>6, Zenon DEF Intr, call
<1> QED  BY <1>2, <1>3, <1>4, <1>5, <1>6, Zenon DEF Next, Step

-----------------------------------------------------------------------------
\* The invariant of the console holds for every number of readers and writers, every size of
\* the buffer that divides the range of the indices, and every script of keys.
THEOREM ConsoleInvariant == Spec => []ConsoleInv
  BY InitInv, NextInv, PTL DEF Spec

\* What lies between r and w is what was completed and not yet taken, in its order, however
\* often the unsigned indices have wrapped around.
THEOREM InputInOrder == Spec => []InputOrder
  BY ConsoleInvariant, RingGives, PTL DEF ConsoleInv

\* A full buffer has been handed to the readers: consoleintr does not drop characters of a line
\* that no reader can have.
THEOREM BufferNeverStuck == Spec => []NeverStuck
  BY ConsoleInvariant, RingGives, PTL DEF ConsoleInv

\* When every read asks for something, a read returns nothing only for a ^D that it uses up,
\* and one that returns text leaves a ^D behind that text for the next read.
THEOREM EndOfFileOnce ==
    ASSUME 0 \notin Sizes
    PROVE  Spec => EofOnce
<1>1. ConsoleInv /\ [Next]_vars => [\A p \in Readers : EndsWell(p)]_vars
  BY EofStep
<1> QED  BY <1>1, ConsoleInvariant, PTL DEF Spec, EofOnce

=============================================================================

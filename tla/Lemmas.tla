------------------------------- MODULE Lemmas ------------------------------
(***************************************************************************)
(* Facts that the proofs of several modules need: extremes of sets of      *)
(* numbers, packed numbers of 12 bits, division, and loops that end.       *)
(***************************************************************************)
EXTENDS Integers, Sequences, WellFoundedInduction, TLAPS

(* Bounded sets of natural numbers have a least and a greatest element, so *)
(* that a CHOOSE for one of them chooses it.                               *)
LEMMA LeastExists ==
    ASSUME NEW T, T \subseteq Nat, T # {}
    PROVE  \E i \in T : \A j \in T : i <= j
<1>1. PICK i \in T : \A j \in T : <<j, i>> \notin OpToRel(<, Nat)
  BY WFMin, NatLessThanWellFounded
<1>2. \A j \in T : ~ (j < i)
  BY <1>1 DEF OpToRel
<1> QED
  BY <1>2

(* A nonempty set of natural numbers that are at most n has a greatest     *)
(* element.                                                                *)
LEMMA GreatestExists ==
    ASSUME NEW n \in Nat, NEW T, T \subseteq 0 .. n, T # {}
    PROVE  \E i \in T : \A j \in T : j <= i
<1> DEFINE D == {n - i : i \in T}
<1>1. D \subseteq Nat /\ D # {}
  <2>1. \A i \in T : n - i \in Nat
    OBVIOUS
  <2>2. D # {}
    OBVIOUS
  <2> QED
    BY <2>1, <2>2
<1>2. PICK d \in D : \A e \in D : d <= e
  BY <1>1, LeastExists
<1>3. PICK i \in T : d = n - i
  OBVIOUS
<1>4. ASSUME NEW j \in T PROVE j <= i
  <2>1. d <= n - j
    BY <1>2
  <2> QED
    BY <2>1, <1>3
<1> QED
  BY <1>4

-----------------------------------------------------------------------------
(* Two numbers of 12 bits in three bytes, as FAT12 packs its table         *)

LEMMA Thirds ==
    ASSUME NEW m \in Nat
    PROVE  /\ (3 * m) \div 3 = m /\ (3 * m + 1) \div 3 = m /\ (3 * m + 2) \div 3 = m
           /\ (3 * m) % 3 = 0 /\ (3 * m + 1) % 3 = 1 /\ (3 * m + 2) % 3 = 2
OBVIOUS

Packed(fat, n, slot) ==
    /\ \A i \in Nat : slot[i] \in 0 .. 4095
    /\ \A k \in 0 .. (n * 3) \div 2 + 1 :
           /\ k % 3 = 0 => fat[k] = slot[2 * (k \div 3)] % 256
           /\ k % 3 = 1 => fat[k] = slot[2 * (k \div 3)] \div 256
                                     + 16 * (slot[2 * (k \div 3) + 1] % 16)
           /\ k % 3 = 2 => fat[k] = slot[2 * (k \div 3) + 1] \div 16

(* The word at byte 3c/2 has slot c, at odd c behind four other bits.      *)
LEMMA Unpacked ==
    ASSUME NEW n \in Nat, NEW slot, NEW fat, Packed(fat, n, slot),
           NEW c \in 0 .. n,
           NEW w, w = fat[(c * 3) \div 2] + 256 * fat[(c * 3) \div 2 + 1]
    PROVE  slot[c] = IF c % 2 = 0 THEN w % 4096 ELSE w \div 16
<1>0. \A k \in 0 .. (n * 3) \div 2 + 1 :
          /\ k % 3 = 0 => fat[k] = slot[2 * (k \div 3)] % 256
          /\ k % 3 = 1 => fat[k] = slot[2 * (k \div 3)] \div 256
                                    + 16 * (slot[2 * (k \div 3) + 1] % 16)
          /\ k % 3 = 2 => fat[k] = slot[2 * (k \div 3) + 1] \div 16
  BY DEF Packed
<1>1. PICK m \in Nat : c = 2 * m \/ c = 2 * m + 1
  <2>1. c \div 2 \in Nat /\ (c = 2 * (c \div 2) \/ c = 2 * (c \div 2) + 1)
    OBVIOUS
  <2> QED
    BY <2>1
<1>2. PICK e, o : e = slot[2 * m] /\ o = slot[2 * m + 1]
  OBVIOUS
<1>3. e \in 0 .. 4095 /\ o \in 0 .. 4095
  <2>1. 2 * m \in Nat /\ 2 * m + 1 \in Nat
    OBVIOUS
  <2> DEFINE V == 0 .. 4095
  <2>2. \A i \in Nat : slot[i] \in V
    BY DEF Packed
  <2> HIDE DEF V
  <2>3. slot[2 * m] \in V /\ slot[2 * m + 1] \in V
    BY ONLY <2>1, <2>2, Zenon
  <2>4. e \in V /\ o \in V
    BY ONLY <1>2, <2>3, Zenon
  <2> QED
    BY ONLY <2>4 DEF V
<1>4. PICK k \in Nat : k = 3 * m
  OBVIOUS
<1>5. /\ k \div 3 = m /\ (k + 1) \div 3 = m /\ (k + 2) \div 3 = m
      /\ k % 3 = 0 /\ (k + 1) % 3 = 1 /\ (k + 2) % 3 = 2
  BY <1>4, Thirds
<1>6. fat[k] = e % 256
  <2>1. k \in 0 .. (n * 3) \div 2 + 1
    BY <1>1, <1>4
  <2>2. k % 3 = 0 => fat[k] = slot[2 * (k \div 3)] % 256
    BY ONLY <1>0, <2>1, Zenon
  <2>3. slot[2 * (k \div 3)] = e
    BY ONLY <1>2, <1>5
  <2> QED
    BY ONLY <1>5, <2>2, <2>3
<1>7. fat[k + 1] = e \div 256 + 16 * (o % 16)
  <2>1. k + 1 \in 0 .. (n * 3) \div 2 + 1
    BY <1>1, <1>4
  <2>2. (k + 1) % 3 = 1 =>
            fat[k + 1] = slot[2 * ((k + 1) \div 3)] \div 256
                         + 16 * (slot[2 * ((k + 1) \div 3) + 1] % 16)
    BY ONLY <1>0, <2>1, Zenon
  <2>3. slot[2 * ((k + 1) \div 3)] = e /\ slot[2 * ((k + 1) \div 3) + 1] = o
    BY ONLY <1>2, <1>5
  <2> QED
    BY ONLY <1>5, <2>2, <2>3
<1>8. ASSUME c = 2 * m + 1 PROVE fat[k + 2] = o \div 16
  <2>1. k + 2 \in 0 .. (n * 3) \div 2 + 1
    BY <1>4, <1>8
  <2>2. (k + 2) % 3 = 2 => fat[k + 2] = slot[2 * ((k + 2) \div 3) + 1] \div 16
    BY ONLY <1>0, <2>1, Zenon
  <2>3. slot[2 * ((k + 2) \div 3) + 1] = o
    BY ONLY <1>2, <1>5
  <2> QED
    BY ONLY <1>5, <2>2, <2>3
<1>9. CASE c = 2 * m
  <2>1. (c * 3) \div 2 = k /\ c % 2 = 0
    BY <1>4, <1>9
  <2>2. w = (e % 256) + 256 * (e \div 256 + 16 * (o % 16))
    BY <1>6, <1>7, <2>1
  <2>3. w % 4096 = e
    BY ONLY <1>3, <2>2
  <2> QED
    BY <1>2, <1>9, <2>1, <2>3
<1>10. CASE c = 2 * m + 1
  <2>1. (c * 3) \div 2 = k + 1 /\ c % 2 # 0 /\ (k + 1) + 1 = k + 2
    BY <1>4, <1>10
  <2>2. w = e \div 256 + 16 * (o % 16) + 256 * (o \div 16)
    <3>1. w = fat[k + 1] + 256 * fat[k + 2]
      BY <2>1
    <3>2. fat[k + 2] = o \div 16
      BY <1>8, <1>10
    <3> QED
      BY ONLY <1>7, <3>1, <3>2
  <2>3. w \div 16 = o
    BY ONLY <1>3, <2>2
  <2> QED
    BY <1>2, <1>10, <2>1, <2>3
<1> QED
  BY <1>1, <1>9, <1>10

-----------------------------------------------------------------------------
(* Quotients and remainders, and how they grow by a step that stays within *)
(* a multiple or ends at one.                                              *)

LEMMA Division ==
    ASSUME NEW n \in Nat, NEW d \in Nat \ {0}
    PROVE  n \div d \in Nat /\ n % d \in 0 .. d - 1 /\ n = d * (n \div d) + (n % d)
OBVIOUS

LEMMA DivisionIs ==
    ASSUME NEW n \in Nat, NEW d \in Nat \ {0}, NEW q \in Nat, NEW r \in 0 .. d - 1,
           n = d * q + r
    PROVE  n \div d = q /\ n % d = r
<1>1. PICK p \in Nat, s \in 0 .. d - 1 : p = n \div d /\ s = n % d /\ n = d * p + s
  BY Division
<1>2. ASSUME NEW a \in Nat, NEW b \in Nat, NEW x \in 0 .. d - 1, NEW y \in 0 .. d - 1,
             d * a + x = d * b + y
      PROVE  ~(a < b)
  <2>1. SUFFICES ASSUME a < b PROVE FALSE
    OBVIOUS
  <2>2. PICK t \in Nat : b = a + 1 + t
    <3>1. b - a - 1 \in Nat /\ b = a + 1 + (b - a - 1)
      BY <2>1
    <3> QED BY <3>1
  <2>3. d * b = d * a + d + d * t /\ d * t \in Nat /\ d * a \in Nat
    BY ONLY <2>2, a \in Nat, t \in Nat, d \in Nat \ {0}
  <2> QED BY <1>2, <2>3
<1>3. p = q
  <2>1. ~(p < q) /\ ~(q < p)
    BY <1>1, <1>2
  <2> QED BY <2>1
<1> QED BY <1>1, <1>3

LEMMA DivisionAfter ==
    ASSUME NEW n \in Nat, NEW d \in Nat \ {0}, NEW k \in Nat, (n % d) + k <= d
    PROVE  /\ (n % d) + k < d => (n + k) % d = (n % d) + k /\ (n + k) \div d = n \div d
           /\ (n % d) + k = d => (n + k) % d = 0 /\ (n + k) \div d = n \div d + 1
<1>1. PICK p \in Nat, s \in 0 .. d - 1 : p = n \div d /\ s = n % d /\ n = d * p + s
  BY Division
<1>2. CASE s + k < d
  <2>1. s + k \in 0 .. d - 1 /\ n + k = d * p + (s + k) /\ n + k \in Nat
    <3>1. d * p \in Nat
      OBVIOUS
    <3> QED BY <1>1, <1>2, <3>1
  <2>2. (n + k) \div d = p /\ (n + k) % d = s + k
    BY ONLY <2>1, DivisionIs, p \in Nat, d \in Nat \ {0}
  <2> QED BY <1>1, <1>2, <2>2
<1>3. CASE s + k = d
  <2>1. 0 \in 0 .. d - 1 /\ n + k = d * (p + 1) + 0 /\ n + k \in Nat /\ p + 1 \in Nat
    <3>1. d * p \in Nat /\ d * (p + 1) = d * p + d
      OBVIOUS
    <3> QED BY <1>1, <1>3, <3>1
  <2>2. (n + k) \div d = p + 1 /\ (n + k) % d = 0
    BY ONLY <2>1, DivisionIs, d \in Nat \ {0}
  <2> QED BY <1>1, <1>3, <2>2
<1> QED BY <1>1, <1>2, <1>3

(* To divide twice is to divide by the product.                            *)
LEMMA DivisionTwice ==
    ASSUME NEW n \in Nat, NEW d \in Nat \ {0}, NEW e \in Nat \ {0}, NEW de, de = e * d
    PROVE  n \div de = (n \div d) \div e
<1>1. PICK q \in Nat, r \in 0 .. d - 1 : q = n \div d /\ r = n % d /\ n = d * q + r
  BY Division
<1>2. PICK p \in Nat, s \in 0 .. e - 1 : p = q \div e /\ s = q % e /\ q = e * p + s
  BY Division
<1>3. PICK w \in Nat \ {0} : w = de
  BY ONLY de = e * d, d \in Nat \ {0}, e \in Nat \ {0}
<1>4. PICK x \in Nat : x = d * s + r
  <2>1. d * s \in Nat
    OBVIOUS
  <2> QED BY <2>1
<1>5. n = w * p + x
  <2>1. d * q = d * (e * p) + d * s
    <3>1. PICK ep \in Nat : ep = e * p
      BY ONLY e \in Nat \ {0}, p \in Nat
    <3>2. d * (ep + s) = d * ep + d * s
      BY ONLY d \in Nat \ {0}, ep \in Nat, s \in 0 .. e - 1
    <3> QED BY <1>2, <3>1, <3>2
  <2>2. d * (e * p) = w * p
    BY ONLY <1>3, de = e * d, d \in Nat \ {0}, e \in Nat \ {0}, p \in Nat
  <2>3. d * q \in Nat /\ d * s \in Nat /\ w * p \in Nat
    OBVIOUS
  <2> QED BY <1>1, <1>4, <2>1, <2>2, <2>3
<1>6. x < w
  <2>1. PICK t \in Nat : t = e - 1 - s
    OBVIOUS
  <2>2. w = d * s + d * t + d /\ d * t \in Nat /\ d * s \in Nat
    BY ONLY <1>3, <2>1, de = e * d, d \in Nat \ {0}, e \in Nat \ {0}, t \in Nat,
            s \in 0 .. e - 1
  <2> QED BY <1>1, <1>4, <2>2
<1>7. x \in 0 .. w - 1
  BY <1>6
<1>8. n \div w = p
  BY ONLY <1>5, <1>7, DivisionIs, w \in Nat \ {0}, p \in Nat, n \in Nat
<1> QED BY <1>1, <1>2, <1>3, <1>8

LEMMA QuotientAtMost ==
    ASSUME NEW n \in Nat, NEW d \in Nat \ {0}, NEW q \in Nat, n <= q * d
    PROVE  n \div d <= q
<1>1. PICK p \in Nat, s \in 0 .. d - 1 : p = n \div d /\ s = n % d /\ n = d * p + s
  BY Division
<1>2. ASSUME q < p PROVE FALSE
  <2>1. PICK t \in Nat : p = q + 1 + t
    <3>1. p - q - 1 \in Nat /\ p = q + 1 + (p - q - 1)
      BY <1>2
    <3> QED BY <3>1
  <2>2. d * p = q * d + d + d * t /\ d * t \in Nat /\ q * d \in Nat
    BY ONLY <2>1, q \in Nat, t \in Nat, d \in Nat \ {0}
  <2> QED BY <1>1, <2>2
<1> QED BY <1>1, <1>2

-----------------------------------------------------------------------------
(* A recursion over R has the value out[r] on D, and elsewhere a value     *)
(* made of r and of that of next[r]. It ends since m decreases.            *)

Ends(R, D, next, m) ==
    /\ \A r \in R : m[r] \in Nat
    /\ \A r \in R \ D : next[r] \in R /\ m[next[r]] < m[r]

Solves(L, R, D, next, out, F) ==
    \A r \in R : L[r] = IF r \in D THEN out[r] ELSE F[r][L[next[r]]]

LEMMA RecursionExists ==
    ASSUME NEW R, NEW D, NEW next, NEW out, NEW F, NEW V, NEW m,
           Ends(R, D, next, m),
           \A r \in R \cap D : out[r] \in V,
           \A r \in R \ D, v \in V : F[r][v] \in V
    PROVE  \E L \in [R -> V] : Solves(L, R, D, next, out, F)
<1> DEFINE Part(k) == {r \in R : m[r] < k}
           For(g, k) == g \in [Part(k) -> V] /\ Solves(g, Part(k), D, next, out, F)
<1>1. \A k \in Nat : \E g : For(g, k)
  <2> DEFINE T == {k \in Nat : \A g : ~For(g, k)}
  <2> SUFFICES ASSUME T # {} PROVE FALSE
    OBVIOUS
  <2>1. PICK k \in T : \A j \in T : k <= j
    <3>1. T \subseteq Nat
      OBVIOUS
    <3> HIDE DEF T
    <3> QED BY <3>1, LeastExists
  <2>2. CASE k = 0
    <3>1. Part(0) = {}
      BY DEF Ends
    <3>2. For([r \in {} |-> 0], 0)
      BY <3>1 DEF Solves
    <3> QED BY <2>2, <3>2
  <2>3. CASE k # 0
    <3>1. k - 1 \in Nat /\ k - 1 \notin T
      BY <2>1, <2>3
    <3>2. PICK g : For(g, k - 1)
      BY <3>1
    <3> DEFINE h == [r \in Part(k) |-> IF r \in D THEN out[r] ELSE F[r][g[next[r]]]]
    <3>3. ASSUME NEW r \in Part(k), r \notin D
          PROVE  /\ next[r] \in Part(k - 1) /\ next[r] \in Part(k)
                 /\ g[next[r]] \in V
      <4>1. next[r] \in Part(k - 1) /\ next[r] \in Part(k)
        BY <2>1, <3>3 DEF Ends
      <4> QED BY <3>2, <4>1
    <3>4. \A r \in Part(k - 1) : g[r] = IF r \in D THEN out[r] ELSE F[r][g[next[r]]]
      BY <3>2 DEF Solves
    <3>5. \A r \in Part(k - 1) : r \in Part(k)
      BY <2>1 DEF Ends
    <3>6. \A r \in Part(k - 1) : h[r] = g[r]
      BY <3>4, <3>5
    <3>7. ASSUME NEW r \in Part(k)
          PROVE  h[r] \in V /\ h[r] = IF r \in D THEN out[r] ELSE F[r][h[next[r]]]
      BY <3>3, <3>6
    <3>8. For(h, k)
      <4>1. h = [r \in Part(k) |-> h[r]]
        OBVIOUS
      <4> HIDE DEF h
      <4> QED BY <3>7, <4>1 DEF Solves
    <3> QED BY <2>1, <3>8
  <2> QED BY <2>2, <2>3
<1>2. ASSUME NEW g, NEW h, NEW j \in Nat, NEW k \in Nat, For(g, j), For(h, k),
             NEW x \in Part(j), x \in Part(k)
      PROVE  g[x] = h[x]
  <2> DEFINE U == {i \in Nat : \E r \in Part(j) : r \in Part(k) /\ m[r] = i /\ g[r] # h[r]}
  <2> SUFFICES ASSUME U # {} PROVE FALSE
    BY <1>2 DEF Ends
  <2>1. PICK i \in U : \A l \in U : i <= l
    <3>1. U \subseteq Nat
      OBVIOUS
    <3> HIDE DEF U
    <3> QED BY <3>1, LeastExists
  <2>2. PICK r \in Part(j) : r \in Part(k) /\ m[r] = i /\ g[r] # h[r]
    BY <2>1
  <2>3. /\ g[r] = IF r \in D THEN out[r] ELSE F[r][g[next[r]]]
        /\ h[r] = IF r \in D THEN out[r] ELSE F[r][h[next[r]]]
    BY <1>2, <2>2 DEF Solves
  <2>4. r \notin D /\ g[next[r]] # h[next[r]]
    BY <2>2, <2>3
  <2>5. next[r] \in R /\ m[next[r]] \in Nat /\ m[next[r]] < i
    BY <2>2, <2>4 DEF Ends
  <2>6. next[r] \in Part(j) /\ next[r] \in Part(k)
    BY <2>1, <2>2, <2>5
  <2>7. m[next[r]] \in U
    BY <2>4, <2>5, <2>6
  <2> QED BY <2>1, <2>5, <2>7
<1> DEFINE G(k) == CHOOSE g : For(g, k)
           L == [r \in R |-> G(m[r] + 1)[r]]
<1>3. \A k \in Nat : For(G(k), k)
  BY <1>1
<1>4. ASSUME NEW r \in R
      PROVE  L[r] \in V /\ L[r] = IF r \in D THEN out[r] ELSE F[r][L[next[r]]]
  <2>1. m[r] \in Nat /\ m[r] + 1 \in Nat /\ r \in Part(m[r] + 1)
    BY DEF Ends
  <2>2. For(G(m[r] + 1), m[r] + 1)
    BY <1>3, <2>1
  <2>3. G(m[r] + 1)[r] = IF r \in D THEN out[r] ELSE F[r][G(m[r] + 1)[next[r]]]
    <3> HIDE DEF G
    <3> QED BY <2>1, <2>2 DEF Solves
  <2>4. L[r] \in V
    <3> HIDE DEF G
    <3> QED BY <2>1, <2>2
  <2>5. CASE r \notin D
    <3>1. /\ next[r] \in R /\ m[next[r]] \in Nat /\ m[next[r]] + 1 \in Nat
          /\ next[r] \in Part(m[r] + 1) /\ next[r] \in Part(m[next[r]] + 1)
      BY <2>1, <2>5 DEF Ends
    <3>2. For(G(m[next[r]] + 1), m[next[r]] + 1)
      BY <1>3, <3>1
    <3>3. G(m[r] + 1)[next[r]] = G(m[next[r]] + 1)[next[r]]
      <4> HIDE DEF G, For, Part
      <4> QED BY <1>2, <2>1, <2>2, <3>1, <3>2
    <3> HIDE DEF G
    <3> QED BY <2>3, <2>4, <2>5, <3>1, <3>3
  <2>6. CASE r \in D
    BY <2>3, <2>4, <2>6
  <2> QED BY <2>5, <2>6
<1>5. L \in [R -> V] /\ Solves(L, R, D, next, out, F)
  <2>1. L = [r \in R |-> L[r]]
    OBVIOUS
  <2> HIDE DEF L
  <2> QED BY <1>4, <2>1 DEF Solves
<1> QED BY <1>5

(* A loop does nothing with the value of next[r].                          *)
Computes(L, R, D, next, out) ==
    L = [r \in R |-> IF r \in D THEN out[r] ELSE L[next[r]]]

LEMMA LoopExists ==
    ASSUME NEW R, NEW D, NEW next, NEW out, NEW m, Ends(R, D, next, m)
    PROVE  \E L : Computes(L, R, D, next, out)
<1> DEFINE V == {out[r] : r \in R \cap D}
           F == [r \in R |-> [v \in V |-> v]]
<1>1. \A r \in R \ D, v \in V : F[r][v] = v
  OBVIOUS
<1>2. \A r \in R \cap D : out[r] \in V
  OBVIOUS
<1>3. PICK L \in [R -> V] : Solves(L, R, D, next, out, F)
  <2>1. \A r \in R \ D, v \in V : F[r][v] \in V
    BY <1>1
  <2> HIDE DEF V, F
  <2> QED BY <1>2, <2>1, RecursionExists
<1>4. \A r \in R : L[r] = IF r \in D THEN out[r] ELSE L[next[r]]
  <2>1. \A r \in R \ D : next[r] \in R /\ L[next[r]] \in V
    BY <1>3 DEF Ends
  <2> HIDE DEF V, F
  <2> QED BY <1>1, <1>3, <2>1 DEF Solves
<1>5. L = [r \in R |-> L[r]]
  BY <1>3
<1> QED BY <1>4, <1>5 DEF Computes

(* What every turn keeps holds where the loop ends.                        *)
LEMMA LoopKeeps ==
    ASSUME NEW R, NEW D, NEW next, NEW out, NEW m, Ends(R, D, next, m),
           NEW L, Computes(L, R, D, next, out),
           NEW I, I \subseteq R, \A r \in I \ D : next[r] \in I,
           NEW x \in I
    PROVE  \E q \in I : q \in D /\ L[x] = out[q]
<1> DEFINE Good(r) == \E q \in I : q \in D /\ L[r] = out[q]
           T == {i \in Nat : \E r \in I : m[r] = i /\ ~Good(r)}
<1> SUFFICES ASSUME T # {} PROVE FALSE
  BY DEF Ends
<1>1. PICK i \in T : \A j \in T : i <= j
  <2>1. T \subseteq Nat
    OBVIOUS
  <2> HIDE DEF T
  <2> QED BY <2>1, LeastExists
<1>2. PICK r \in I : m[r] = i /\ ~Good(r)
  BY <1>1
<1>3. L[r] = IF r \in D THEN out[r] ELSE L[next[r]]
  BY DEF Computes
<1>4. r \notin D /\ L[r] = L[next[r]]
  BY <1>2, <1>3
<1>5. next[r] \in I /\ m[next[r]] \in Nat /\ m[next[r]] < i
  BY <1>2, <1>4 DEF Ends
<1>6. ~Good(next[r])
  BY <1>2, <1>4
<1>7. m[next[r]] \in T
  <2> HIDE DEF Good
  <2> QED BY <1>5, <1>6
<1> QED BY <1>1, <1>5, <1>7
-----------------------------------------------------------------------------
(* The path that starts in c and that `table' continues, for as long as it *)
(* is in 2 .. last.                                                        *)

Upwards(last, table) ==
    /\ last \in Nat
    /\ \A c \in 2 .. last : /\ table[c] \in Nat
                            /\ table[c] \in c + 1 .. last \/ table[c] \notin 2 .. last

LEMMA PathExists ==
    ASSUME NEW last, NEW table, Upwards(last, table)
    PROVE  \E L : L = [c \in Nat |-> IF c \in 2 .. last THEN <<c>> \o L[table[c]] ELSE <<>>]
<1> DEFINE D == {c \in Nat : c \notin 2 .. last}
           next == [c \in Nat |-> table[c]]
           out == [c \in Nat |-> <<>>]
           F == [c \in Nat |-> [v \in Seq(Nat) |-> <<c>> \o v]]
           m == [c \in Nat |-> IF c \in 2 .. last THEN last + 1 - c ELSE 0]
<1>1. Ends(Nat, D, next, m)
  <2>1. \A c \in Nat : m[c] \in Nat
    BY DEF Upwards
  <2>2. ASSUME NEW c \in 2 .. last
        PROVE  next[c] \in Nat /\ m[next[c]] < m[c]
    <3>1. PICK b \in Nat : /\ b = table[c]
                           /\ b \in c + 1 .. last \/ b \notin 2 .. last
      BY DEF Upwards
    <3>2. m[b] < m[c]
      BY <3>1 DEF Upwards
    <3> QED BY <3>1, <3>2
  <2> HIDE DEF next, m
  <2> QED BY <2>1, <2>2 DEF Ends, Upwards
<1>2. \A c \in Nat, v \in Seq(Nat) : F[c][v] = <<c>> \o v /\ <<c>> \o v \in Seq(Nat)
  OBVIOUS
<1>3. PICK L \in [Nat -> Seq(Nat)] : Solves(L, Nat, D, next, out, F)
  <2>1. \A c \in Nat \cap D : out[c] \in Seq(Nat)
    OBVIOUS
  <2>2. \A c \in Nat \ D, v \in Seq(Nat) : F[c][v] \in Seq(Nat)
    BY <1>2
  <2> HIDE DEF D, next, out, F, m
  <2> QED BY <1>1, <2>1, <2>2, RecursionExists
<1>4. \A c \in Nat : L[c] = IF c \in 2 .. last THEN <<c>> \o L[table[c]] ELSE <<>>
  <2>1. \A c \in 2 .. last : table[c] \in Nat
    BY DEF Upwards
  <2>2. ASSUME NEW c \in 2 .. last PROVE L[c] = <<c>> \o L[table[c]]
    <3>1. c \in Nat /\ c \notin D /\ L[table[c]] \in Seq(Nat)
      BY <1>3, <2>1 DEF Upwards
    <3>2. L[c] = F[c][L[next[c]]]
      BY <1>3, <3>1 DEF Solves
    <3> QED BY <1>2, <3>1, <3>2
  <2>3. ASSUME NEW c \in Nat, c \notin 2 .. last PROVE L[c] = <<>>
    BY <1>3, <2>3 DEF Solves
  <2> QED BY <2>2, <2>3
<1>5. L = [c \in Nat |-> IF c \in 2 .. last THEN <<c>> \o L[table[c]] ELSE <<>>]
  <2>1. L = [c \in Nat |-> L[c]]
    OBVIOUS
  <2> QED BY <1>4, <2>1
<1> QED BY <1>5

LEMMA PathIs ==
    ASSUME NEW last, NEW table, Upwards(last, table), NEW C,
           C = [c \in Nat |-> IF c \in 2 .. last THEN <<c>> \o C[table[c]] ELSE <<>>]
    PROVE  /\ C \in [Nat -> Seq(Nat)]
           /\ \A c \in Nat : C[c] = IF c \in 2 .. last THEN <<c>> \o C[table[c]] ELSE <<>>
<1> DEFINE m == [c \in Nat |-> IF c \in 2 .. last THEN last + 1 - c ELSE 0]
<1>1. \A c \in Nat : C[c] = IF c \in 2 .. last THEN <<c>> \o C[table[c]] ELSE <<>>
  OBVIOUS
<1>2. \A c \in Nat : C[c] \in Seq(Nat)
  <2> DEFINE T == {i \in Nat : \E c \in Nat : m[c] = i /\ C[c] \notin Seq(Nat)}
  <2>0. \A c \in Nat : m[c] \in Nat
    BY DEF Upwards
  <2> SUFFICES ASSUME T # {} PROVE FALSE
    <3> HIDE DEF m
    <3> QED BY <2>0
  <2>1. PICK i \in T : \A j \in T : i <= j
    <3>1. T \subseteq Nat
      OBVIOUS
    <3> HIDE DEF T
    <3> QED BY <3>1, LeastExists
  <2>2. PICK c \in Nat : m[c] = i /\ C[c] \notin Seq(Nat)
    BY <2>1
  <2>3. c \in 2 .. last
    <3>1. <<>> \in Seq(Nat)
      OBVIOUS
    <3> QED BY ONLY <1>1, <2>2, <3>1
  <2>4. table[c] \in Nat /\ m[table[c]] \in Nat /\ m[table[c]] < i
    BY <2>2, <2>3 DEF Upwards
  <2>5. ASSUME C[table[c]] \in Seq(Nat) PROVE FALSE
    <3>1. PICK v \in Seq(Nat) : v = C[table[c]]
      BY <2>5
    <3>2. C[c] = <<c>> \o v
      BY <1>1, <2>3, <3>1
    <3>3. <<c>> \o v \in Seq(Nat)
      OBVIOUS
    <3> QED BY ONLY <2>2, <3>2, <3>3
  <2>6. m[table[c]] \in T
    <3> HIDE DEF m
    <3> QED BY <2>4, <2>5
  <2>7. i \in Nat /\ i <= m[table[c]]
    <3> HIDE DEF m
    <3> QED BY <2>1, <2>6
  <2> HIDE DEF T, m
  <2> QED BY ONLY <2>4, <2>7
<1>3. C = [c \in Nat |-> C[c]]
  OBVIOUS
<1> QED BY <1>1, <1>2, <1>3
=============================================================================

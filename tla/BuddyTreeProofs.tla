-------------------------- MODULE BuddyTreeProofs --------------------------
(***************************************************************************)
(* Lemmas about the tree of blocks of BuddyTree.tla and about what one     *)
(* call of buddy_alloc or buddy_free does to the bitmap, for every number  *)
(* of layers that buddy_layers has a place for.                            *)
(***************************************************************************)
EXTENDS BuddyTree, Lemmas

-----------------------------------------------------------------------------
(* The table                                                               *)

LEMMA Pow2Table ==
    /\ Pow2(0) = 1
    /\ \A k \in 0 .. 15 : Pow2(k) \in Nat \ {0}
    /\ \A k \in 0 .. 14 : Pow2(k + 1) = 2 * Pow2(k)
<1>1. \A k \in 0 .. 15 : \/ k = 0 \/ k = 1 \/ k = 2 \/ k = 3 \/ k = 4
                         \/ k = 5 \/ k = 6 \/ k = 7 \/ k = 8 \/ k = 9
                         \/ k = 10 \/ k = 11 \/ k = 12 \/ k = 13
                         \/ k = 14 \/ k = 15
  OBVIOUS
<1>2. \A k \in 0 .. 15 : Pow2(k) \in Nat \ {0}
  BY <1>1 DEF Pow2, buddy_layers
<1>3. \A k \in 0 .. 14 : Pow2(k + 1) = 2 * Pow2(k)
  BY <1>1 DEF Pow2, buddy_layers
<1> QED BY <1>2, <1>3 DEF Pow2, buddy_layers

(* A layer is longer than all those above it.                              *)
LEMMA Pow2Grows ==
    ASSUME NEW i \in 0 .. 15, NEW j \in 0 .. 15, i < j
    PROVE  Pow2(i + 1) <= Pow2(j)
<1> DEFINE T == {k \in Nat : k <= 15 /\ i < k /\ ~(Pow2(i + 1) <= Pow2(k))}
<1> SUFFICES ASSUME T # {} PROVE FALSE
  OBVIOUS
<1>1. PICK k \in T : \A x \in T : k <= x
  BY LeastExists
<1>2. k # i + 1
  BY <1>1, Pow2Table
<1>3. k - 1 \in 0 .. 14 /\ i < k - 1 /\ k - 1 \notin T
  BY <1>1, <1>2
<1>4. Pow2(i + 1) <= Pow2(k - 1)
  BY <1>3
<1>5. Pow2((k - 1) + 1) = 2 * Pow2(k - 1)
  BY <1>3, Pow2Table
<1>6. (k - 1) + 1 = k /\ k - 1 \in 0 .. 15 /\ i + 1 \in 0 .. 15
  BY <1>1, <1>3
<1> QED BY <1>1, <1>4, <1>5, <1>6, Pow2Table

-----------------------------------------------------------------------------
(* Layers                                                                  *)

LEMMA NodeIsNat == (\A n \in Node : n \in Nat /\ n >= 1) /\ 1 \in Node
  BY TreeAssumption, Pow2Table, Pow2Grows DEF Node

LEMMA LayerDef ==
    ASSUME NEW n \in Node
    PROVE  LayerOf[n] \in 0 .. Layers - 1 /\ n \in At(LayerOf[n])
<1> DEFINE T == {l \in 0 .. Layers - 1 : Pow2(l) <= n}
<1>1. 0 \in T /\ Layers - 1 \in Nat /\ n \in Nat
  BY TreeAssumption, Pow2Table, NodeIsNat
<1>2. PICK l \in T : \A x \in T : x <= l
  BY <1>1, GreatestExists
<1>3. n < Pow2(l + 1)
  <2>1. CASE l = Layers - 1
    BY <2>1, TreeAssumption, Pow2Table DEF Node
  <2>2. CASE l # Layers - 1
    <3>1. l + 1 \in 0 .. Layers - 1 /\ l + 1 \notin T
      BY <1>2, <2>2, TreeAssumption
    <3>2. Pow2(l + 1) \in Nat
      BY <3>1, TreeAssumption, Pow2Table
    <3> QED BY <1>1, <3>1, <3>2
  <2> QED BY <2>1, <2>2
<1>4. l \in 0 .. Layers - 1 /\ n \in At(l)
  <2>1. Pow2(l) \in Nat /\ Pow2(l + 1) \in Nat
    BY <1>2, TreeAssumption, Pow2Table
  <2> QED BY <1>1, <1>2, <1>3, <2>1 DEF At
<1> QED BY <1>4 DEF LayerOf

LEMMA LayerIsNat == \A n \in Node : LayerOf[n] \in Nat /\ LayerOf[n] < Layers
  BY LayerDef, TreeAssumption

(* A block of a deeper layer has a greater number.                         *)
LEMMA LayersAscend ==
    ASSUME NEW i \in 0 .. 14, NEW j \in 0 .. 14, i < j,
           NEW m \in At(i), NEW n \in At(j)
    PROVE  m < n
<1>1. Pow2(i + 1) <= Pow2(j)
  BY Pow2Grows
<1>2. Pow2(i) \in Nat /\ Pow2(i + 1) \in Nat /\ Pow2(j) \in Nat /\ Pow2(j + 1) \in Nat
  BY Pow2Table
<1> QED BY <1>1, <1>2 DEF At

LEMMA LayerIs ==
    ASSUME NEW l \in 0 .. Layers - 1, NEW n \in At(l)
    PROVE  n \in Node /\ LayerOf[n] = l
<1>1. n \in Node
  <2>1. Pow2(l + 1) <= Pow2(Layers)
    BY Pow2Grows, TreeAssumption
  <2>2. Pow2(l) \in Nat \ {0} /\ Pow2(l + 1) \in Nat /\ Pow2(Layers) \in Nat
    BY Pow2Table, TreeAssumption
  <2> QED BY <2>1, <2>2 DEF At, Node
<1>2. LayerOf[n] \in 0 .. Layers - 1 /\ n \in At(LayerOf[n])
  BY <1>1, LayerDef
<1>3. l \in 0 .. 14 /\ LayerOf[n] \in 0 .. 14 /\ n \in Nat
  BY <1>1, <1>2, TreeAssumption, NodeIsNat
<1> QED BY <1>1, <1>2, <1>3, LayersAscend

LEMMA LayerGrows ==
    ASSUME NEW m \in Node, NEW n \in Node, LayerOf[m] < LayerOf[n]
    PROVE  m < n
  BY LayerDef, LayersAscend, TreeAssumption

(* The root is alone in its layer.                                         *)
LEMMA RootLayer == LayerOf[1] = 0 /\ \A n \in Node : LayerOf[n] = 0 => n = 1
<1>1. At(0) = {1}
  BY Pow2Table DEF At
<1> QED BY <1>1, LayerDef, LayerIs, TreeAssumption
LEMMA HalfFacts ==
    \A n \in Nat : /\ n \div 2 \in Nat
                   /\ n = 2 * (n \div 2) \/ n = 2 * (n \div 2) + 1
                   /\ (2 * n) \div 2 = n
                   /\ (2 * n + 1) \div 2 = n
  OBVIOUS

(* The two halves of a block are one layer deeper.                         *)
LEMMA Halves ==
    ASSUME NEW n \in Node, LayerOf[n] < Layers - 1
    PROVE  /\ 2 * n \in Node /\ LayerOf[2 * n] = LayerOf[n] + 1
           /\ 2 * n + 1 \in Node /\ LayerOf[2 * n + 1] = LayerOf[n] + 1
<1> DEFINE l == LayerOf[n]
<1>1. l \in 0 .. Layers - 1 /\ n \in At(l)
  BY LayerDef
<1> HIDE DEF l
<1>2. l + 1 \in 0 .. Layers - 1 /\ l \in 0 .. 13 /\ l + 1 \in 0 .. 14
  BY <1>1, TreeAssumption DEF l
<1>3. Pow2(l + 1) = 2 * Pow2(l) /\ Pow2(l) \in Nat
  BY <1>2, Pow2Table
<1>4. Pow2((l + 1) + 1) = 2 * Pow2(l + 1)
  BY <1>2, Pow2Table
<1>5. 2 * n \in At(l + 1) /\ 2 * n + 1 \in At(l + 1)
  BY <1>1, <1>3, <1>4 DEF At
<1> QED BY <1>2, <1>5, LayerIs DEF l

(* A block other than the root is a half of its parent.                    *)
LEMMA ParentOfHalf ==
    ASSUME NEW n \in Node, n # 1
    PROVE  /\ Parent(n) \in Node
           /\ LayerOf[n] \in 1 .. Layers - 1
           /\ LayerOf[Parent(n)] = LayerOf[n] - 1
           /\ n = 2 * Parent(n) \/ n = 2 * Parent(n) + 1
           /\ Parent(n) < n
<1> DEFINE l == LayerOf[n]
           p == Parent(n)
<1>1. l \in 1 .. Layers - 1 /\ n \in At(l)
  BY LayerDef, RootLayer
<1>2. p \in Nat /\ (n = 2 * p \/ n = 2 * p + 1)
  BY NodeIsNat, HalfFacts DEF Parent
<1> HIDE DEF l, p
<1>3. l - 1 \in 0 .. Layers - 1 /\ l - 1 \in 0 .. 14 /\ l \in 0 .. 14
  BY <1>1, TreeAssumption
<1>4. Pow2((l - 1) + 1) = 2 * Pow2(l - 1)
  BY <1>3, Pow2Table
<1>5. Pow2(l + 1) = 2 * Pow2(l)
  BY <1>3, Pow2Table
<1>6. (l - 1) + 1 = l /\ Pow2(l) \in Nat /\ Pow2(l - 1) \in Nat \ {0}
  BY <1>1, <1>3, Pow2Table
<1>7. p \in At(l - 1)
  BY <1>1, <1>2, <1>4, <1>5, <1>6 DEF At
<1>8. p \in Node /\ LayerOf[p] = l - 1
  BY <1>3, <1>7, LayerIs
<1>9. p < n
  BY <1>2, <1>8, NodeIsNat
<1> QED BY <1>1, <1>2, <1>8, <1>9 DEF l, p

LEMMA BuddyIsOtherHalf ==
    ASSUME NEW n \in Nat
    PROVE  BuddyOf(2 * n) = 2 * n + 1 /\ BuddyOf(2 * n + 1) = 2 * n
<1>1. (2 * n) % 2 = 0 /\ (2 * n + 1) % 2 = 1
  OBVIOUS
<1> QED BY <1>1 DEF BuddyOf

-----------------------------------------------------------------------------
(* Ways up the tree                                                        *)

Up(n, k) == n \div Pow2(k)

LEMMA AncestorsAreUp ==
    ASSUME NEW n \in Node
    PROVE  Ancestors(n) = {Up(n, k) : k \in 0 .. LayerOf[n]}
  BY DEF Ancestors, Up

LEMMA QuotientIs ==
    ASSUME NEW m \in Nat, NEW d \in Nat \ {0}, NEW x \in Nat,
           NEW y \in 0 .. d - 1, m = d * x + y
    PROVE  m \div d = x
<1> DEFINE a == m \div d
           r == m % d
<1>1. m = d * a + r /\ r \in 0 .. d - 1 /\ a \in Nat
  OBVIOUS
<1> HIDE DEF a, r
<1>2. \A u, v \in Nat : u < v => d * u + d <= d * v
  <2> SUFFICES ASSUME NEW u \in Nat, NEW v \in Nat, u < v
               PROVE  d * u + d <= d * v
    OBVIOUS
  <2>1. d * v = d * u + d * (v - u)
    OBVIOUS
  <2>2. v - u >= 1 /\ v - u \in Nat
    OBVIOUS
  <2>3. d * (v - u) >= d
    BY <2>2
  <2>4. d * u \in Nat /\ d * (v - u) \in Nat
    BY <2>2
  <2> QED BY <2>1, <2>3, <2>4
<1>3. d * a \in Nat /\ d * x \in Nat
  BY <1>1
<1>4. ~(a < x) /\ ~(x < a)
  BY <1>1, <1>2, <1>3
<1> QED BY <1>1, <1>4 DEF a

LEMMA HalfOfQuotient ==
    ASSUME NEW n \in Nat, NEW q \in Nat \ {0}
    PROVE  (n \div q) \div 2 = n \div (2 * q)
<1> DEFINE a == n \div q
           r == n % q
           b == a \div 2
           s == a % 2
<1>1. n = q * a + r /\ r \in 0 .. q - 1 /\ a \in Nat
  OBVIOUS
<1>2. a = 2 * b + s /\ s \in 0 .. 1 /\ b \in Nat
  BY <1>1
<1> HIDE DEF a, r, b, s
<1>3. q * a = 2 * (q * b) + q * s
  BY <1>1, <1>2
<1>4. q * s \in 0 .. q /\ q * b \in Nat
  BY <1>2
<1>5. n = (2 * q) * b + (q * s + r) /\ q * s + r \in 0 .. 2 * q - 1
  <2>1. (2 * q) * b = 2 * (q * b)
    BY <1>2
  <2>2. n = 2 * (q * b) + (q * s + r)
    BY <1>1, <1>3, <1>4
  <2>3. q * s + r \in 0 .. 2 * q - 1
    BY <1>1, <1>4
  <2> QED BY <2>1, <2>2, <2>3
<1>6. n \div (2 * q) = b
  <2>1. 2 * q \in Nat \ {0}
    OBVIOUS
  <2> QED BY <1>2, <1>5, <2>1, QuotientIs
<1> QED BY <1>6 DEF a, b

LEMMA UpIsParent ==
    ASSUME NEW n \in Node, NEW k \in 0 .. 14
    PROVE  Up(n, k + 1) = Parent(Up(n, k)) /\ Up(n, 0) = n
<1>1. Pow2(k) \in Nat \ {0} /\ Pow2(k + 1) = 2 * Pow2(k) /\ Pow2(0) = 1
  BY Pow2Table
<1>2. n \in Nat
  BY NodeIsNat
<1>3. n \div 1 = n
  BY <1>2
<1>4. (n \div Pow2(k)) \div 2 = n \div (2 * Pow2(k))
  BY <1>1, <1>2, HalfOfQuotient
<1> QED BY <1>1, <1>3, <1>4 DEF Up, Parent

LEMMA UpLayer ==
    ASSUME NEW n \in Node, NEW k \in 0 .. LayerOf[n]
    PROVE  Up(n, k) \in Node /\ LayerOf[Up(n, k)] = LayerOf[n] - k
<1> DEFINE T == {i \in Nat : /\ i <= LayerOf[n]
                             /\ ~(/\ Up(n, i) \in Node
                                  /\ LayerOf[Up(n, i)] = LayerOf[n] - i)}
<1> SUFFICES ASSUME T # {} PROVE FALSE
  OBVIOUS
<1>1. PICK i \in T : \A x \in T : i <= x
  BY LeastExists
<1>2. LayerOf[n] \in 0 .. 13
  BY LayerDef, TreeAssumption
<1>3. i # 0
  BY <1>1, <1>2, UpIsParent
<1>4. i - 1 \in 0 .. 14 /\ i - 1 \notin T /\ (i - 1) + 1 = i
  BY <1>1, <1>2, <1>3
<1> DEFINE m == Up(n, i - 1)
<1>5. m \in Node /\ LayerOf[m] = LayerOf[n] - (i - 1)
  BY <1>1, <1>2, <1>4
<1>6. m # 1
  BY <1>1, <1>2, <1>4, <1>5, RootLayer
<1>7. Up(n, i) = Parent(m)
  BY <1>4, UpIsParent
<1> QED BY <1>1, <1>2, <1>4, <1>5, <1>6, <1>7, ParentOfHalf

LEMMA UpUp ==
    ASSUME NEW n \in Node, NEW i \in 0 .. LayerOf[n], NEW j \in i .. LayerOf[n]
    PROVE  Up(Up(n, i), j - i) = Up(n, j)
<1> DEFINE m == Up(n, i)
           T == {x \in Nat : i <= x /\ x <= LayerOf[n] /\ Up(m, x - i) # Up(n, x)}
<1> SUFFICES ASSUME T # {} PROVE FALSE
  OBVIOUS
<1>1. PICK x \in T : \A y \in T : x <= y
  BY LeastExists
<1>2. LayerOf[n] \in 0 .. 13 /\ m \in Node
  <2>1. LayerOf[n] \in 0 .. 13
    BY LayerDef, TreeAssumption
  <2> QED BY <2>1, UpLayer
<1> HIDE DEF m
<1>3. x # i
  <2>1. Up(m, 0) = m
    BY <1>2, UpIsParent
  <2> QED BY <1>1, <2>1 DEF m
<1>4. x - 1 \in 0 .. 14 /\ x - 1 \notin T /\ (x - 1) + 1 = x
  BY <1>1, <1>2, <1>3
<1>5. (x - 1) - i \in 0 .. 14 /\ ((x - 1) - i) + 1 = x - i
  BY <1>1, <1>2, <1>3
<1>6. Up(m, (x - 1) - i) = Up(n, x - 1)
  BY <1>1, <1>2, <1>3, <1>4
<1>7. Up(n, x) = Parent(Up(n, x - 1))
  BY <1>4, UpIsParent
<1>8. Up(m, x - i) = Parent(Up(m, (x - 1) - i))
  BY <1>2, <1>5, UpIsParent
<1> QED BY <1>1, <1>6, <1>7, <1>8

-----------------------------------------------------------------------------
(* Ancestors                                                               *)

LEMMA AncestorIs ==
    ASSUME NEW n \in Node, NEW m \in Ancestors(n)
    PROVE  /\ m \in Node
           /\ LayerOf[m] \in 0 .. LayerOf[n]
           /\ m = Up(n, LayerOf[n] - LayerOf[m])
           /\ m = n \/ LayerOf[m] < LayerOf[n]
<1>1. PICK k \in 0 .. LayerOf[n] : m = Up(n, k)
  BY AncestorsAreUp
<1>2. LayerOf[n] \in Nat
  BY LayerDef
<1>3. m \in Node /\ LayerOf[m] = LayerOf[n] - k
  BY <1>1, UpLayer
<1>4. k = 0 => m = n
  BY <1>1, UpIsParent
<1> QED BY <1>1, <1>2, <1>3, <1>4

LEMMA AncestorNotGreater ==
    ASSUME NEW n \in Node, NEW m \in Ancestors(n)
    PROVE  m <= n /\ (m = n \/ m < n)
<1>1. m \in Node /\ (m = n \/ LayerOf[m] < LayerOf[n])
  BY AncestorIs
<1>2. m = n \/ m < n
  BY <1>1, LayerGrows
<1> QED BY <1>1, <1>2, NodeIsNat

LEMMA RootIsAncestor ==
    ASSUME NEW n \in Node
    PROVE  n \in Ancestors(n) /\ 1 \in Ancestors(n)
<1>1. LayerOf[n] \in Nat
  BY LayerDef
<1>2. n = Up(n, 0)
  BY UpIsParent
<1>3. 1 = Up(n, LayerOf[n])
  <2>1. Up(n, LayerOf[n]) \in Node /\ LayerOf[Up(n, LayerOf[n])] = 0
    BY <1>1, UpLayer
  <2> QED BY <2>1, RootLayer
<1> QED BY <1>1, <1>2, <1>3, AncestorsAreUp

LEMMA OneAncestorPerLayer ==
    ASSUME NEW n \in Node, NEW a \in Ancestors(n), NEW b \in Ancestors(n),
           LayerOf[a] = LayerOf[b]
    PROVE  a = b
<1>1. a = Up(n, LayerOf[n] - LayerOf[a]) /\ b = Up(n, LayerOf[n] - LayerOf[b])
  BY AncestorIs
<1> QED BY <1>1

LEMMA ParentIsAncestor ==
    ASSUME NEW n \in Node, NEW m \in Ancestors(n), m # 1
    PROVE  Parent(m) \in Ancestors(n)
<1>1. PICK k \in 0 .. LayerOf[n] : m = Up(n, k)
  BY AncestorsAreUp
<1>2. LayerOf[n] \in 0 .. 13
  BY LayerDef, TreeAssumption
<1>3. m \in Node /\ LayerOf[m] = LayerOf[n] - k
  BY <1>1, UpLayer
<1>4. k + 1 \in 0 .. LayerOf[n] /\ k \in 0 .. 14
  BY <1>2, <1>3, RootLayer
<1>5. Parent(m) = Up(n, k + 1)
  BY <1>1, <1>4, UpIsParent
<1> QED BY <1>4, <1>5, AncestorsAreUp

(* Below a proper ancestor there is one of its halves.                     *)
LEMMA HalfIsAncestor ==
    ASSUME NEW n \in Node, NEW m \in Ancestors(n), m # n
    PROVE  \E x \in Ancestors(n) :
                /\ x = 2 * m \/ x = 2 * m + 1
                /\ x # 1 /\ Parent(x) = m /\ m < x
<1>1. PICK k \in 0 .. LayerOf[n] : m = Up(n, k)
  BY AncestorsAreUp
<1>2. LayerOf[n] \in 0 .. 13
  BY LayerDef, TreeAssumption
<1>3. k # 0
  BY <1>1, UpIsParent
<1>4. k - 1 \in 0 .. LayerOf[n] /\ k - 1 \in 0 .. 14 /\ (k - 1) + 1 = k
  BY <1>1, <1>2, <1>3
<1> DEFINE x == Up(n, k - 1)
<1>5. x \in Node /\ LayerOf[x] = LayerOf[n] - (k - 1)
  BY <1>4, UpLayer
<1>6. m = Parent(x)
  BY <1>1, <1>4, UpIsParent
<1>7. x \in Ancestors(n)
  BY <1>4, AncestorsAreUp
<1> HIDE DEF x
<1>8. x # 1
  BY <1>2, <1>4, <1>5, RootLayer
<1> QED BY <1>5, <1>6, <1>7, <1>8, ParentOfHalf

LEMMA AncestorsAreChain ==
    ASSUME NEW n \in Node, NEW a \in Ancestors(n), NEW b \in Ancestors(n),
           LayerOf[a] <= LayerOf[b]
    PROVE  a \in Ancestors(b)
<1> DEFINE i == LayerOf[n] - LayerOf[b]
           j == LayerOf[n] - LayerOf[a]
<1>1. /\ a = Up(n, j) /\ b = Up(n, i)
      /\ LayerOf[a] \in 0 .. LayerOf[n] /\ LayerOf[b] \in 0 .. LayerOf[n]
      /\ LayerOf[n] \in Nat /\ a \in Node /\ b \in Node
  BY AncestorIs, LayerDef
<1>2. i \in 0 .. LayerOf[n] /\ j \in i .. LayerOf[n]
      /\ j - i \in 0 .. LayerOf[b]
  BY <1>1
<1>3. Up(b, j - i) = a
  BY <1>1, <1>2, UpUp
<1> QED BY <1>1, <1>2, <1>3, AncestorsAreUp

LEMMA AncestorOfAncestor ==
    ASSUME NEW n \in Node, NEW m \in Ancestors(n), NEW a \in Ancestors(m)
    PROVE  a \in Ancestors(n)
<1> DEFINE i == LayerOf[n] - LayerOf[m]
           d == LayerOf[m] - LayerOf[a]
<1>1. /\ m \in Node /\ m = Up(n, i)
      /\ LayerOf[m] \in 0 .. LayerOf[n] /\ LayerOf[n] \in Nat
  BY AncestorIs, LayerDef
<1>2. a \in Node /\ a = Up(m, d) /\ LayerOf[a] \in 0 .. LayerOf[m]
  BY <1>1, AncestorIs
<1>3. /\ i \in 0 .. LayerOf[n] /\ i + d \in i .. LayerOf[n]
      /\ (i + d) - i = d
  BY <1>1, <1>2
<1>4. Up(Up(n, i), (i + d) - i) = Up(n, i + d)
  BY <1>3, UpUp
<1>5. a = Up(n, i + d)
  BY <1>1, <1>2, <1>3, <1>4
<1> QED BY <1>1, <1>3, <1>5, AncestorsAreUp

(* What is set in a tree is set all the way up.                            *)
LEMMA TreeIsClosed ==
    ASSUME NEW bits, bits \subseteq Node, IsTree(bits), NEW n \in bits
    PROVE  Ancestors(n) \subseteq bits
<1> DEFINE T == {i \in Nat : i <= LayerOf[n] /\ Up(n, i) \notin bits}
<1>1. LayerOf[n] \in 0 .. 13 /\ n \in Node
  BY LayerDef, TreeAssumption
<1>2. T = {}
  <2> SUFFICES ASSUME T # {} PROVE FALSE
    OBVIOUS
  <2>1. PICK i \in T : \A x \in T : i <= x
    BY LeastExists
  <2>2. i # 0
    BY <1>1, <2>1, UpIsParent
  <2>3. i - 1 \in 0 .. 14 /\ i - 1 \notin T /\ (i - 1) + 1 = i
    BY <1>1, <2>1, <2>2
  <2>4. Up(n, i - 1) \in bits /\ LayerOf[Up(n, i - 1)] # 0
    BY <1>1, <2>1, <2>3, UpLayer
  <2>5. Up(n, i) = Parent(Up(n, i - 1))
    BY <1>1, <2>3, UpIsParent
  <2> QED BY <2>1, <2>4, <2>5, RootLayer DEF IsTree
<1> QED BY <1>1, <1>2, AncestorsAreUp

-----------------------------------------------------------------------------
(* The memory of a block                                                   *)

LEMMA BlockSizes ==
    /\ \A l \in 0 .. Layers - 1 : BlockSize(l) \in Nat \ {0}
    /\ \A l \in 0 .. Layers - 2 : BlockSize(l) = 2 * BlockSize(l + 1)
    /\ BlockSize(Layers - 1) = 1
<1>1. \A l \in 0 .. Layers - 1 : Layers - 1 - l \in 0 .. 15
  BY TreeAssumption
<1>2. \A l \in 0 .. Layers - 2 :
          /\ Layers - 1 - (l + 1) \in 0 .. 14
          /\ (Layers - 1 - (l + 1)) + 1 = Layers - 1 - l
  BY TreeAssumption
<1>3. Layers - 1 - (Layers - 1) = 0
  BY TreeAssumption
<1> QED BY <1>1, <1>2, <1>3, Pow2Table DEF BlockSize

LEMMA LeavesAre ==
    ASSUME NEW n \in Node, NEW idx, idx = n - Pow2(LayerOf[n]),
           NEW size, size = BlockSize(LayerOf[n])
    PROVE  /\ Leaves[n] = idx * size .. (idx + 1) * size - 1
           /\ idx \in Nat /\ size \in Nat \ {0}
           /\ (idx + 1) * size = idx * size + size
           /\ idx * size \in Nat
<1>1. LayerOf[n] \in 0 .. Layers - 1 /\ n \in At(LayerOf[n])
  BY LayerDef
<1>2. size \in Nat \ {0}
  BY <1>1, BlockSizes
<1>3. idx \in Nat
  <2>1. Pow2(LayerOf[n]) \in Nat
    BY <1>1, TreeAssumption, Pow2Table
  <2> QED BY <1>1, <2>1, NodeIsNat DEF At
<1>4. (idx + 1) * size = idx * size + size /\ idx * size \in Nat
  BY <1>2, <1>3
<1> QED BY <1>2, <1>3, <1>4 DEF Leaves

LEMMA LeavesOfHalf ==
    ASSUME NEW n \in Node, n # 1
    PROVE  Leaves[n] \subseteq Leaves[Parent(n)]
<1>1. PICK p : p = Parent(n)
  OBVIOUS
<1>2. PICK l : l = LayerOf[p]
  OBVIOUS
<1>3. /\ p \in Node /\ LayerOf[n] = l + 1 /\ l \in 0 .. Layers - 2
      /\ n = 2 * p \/ n = 2 * p + 1
  BY <1>1, <1>2, ParentOfHalf, TreeAssumption
<1>4. PICK idx : idx = p - Pow2(l)
  OBVIOUS
<1>5. PICK s : s = BlockSize(l + 1)
  OBVIOUS
<1>6. BlockSize(l) = 2 * s /\ s \in Nat \ {0}
  BY <1>3, <1>5, BlockSizes, TreeAssumption
<1>7. /\ Leaves[p] = idx * (2 * s) .. (idx + 1) * (2 * s) - 1
      /\ idx \in Nat
  BY <1>2, <1>3, <1>4, <1>6, LeavesAre
<1>8. PICK half : half = n - Pow2(l + 1)
  OBVIOUS
<1>9. Leaves[n] = half * s .. (half + 1) * s - 1
  BY <1>3, <1>5, <1>8, LeavesAre
<1>10. half = 2 * idx \/ half = 2 * idx + 1
  <2>1. Pow2(l + 1) = 2 * Pow2(l) /\ Pow2(l) \in Nat
    BY <1>3, Pow2Table, TreeAssumption
  <2> QED BY <1>3, <1>4, <1>8, <2>1, NodeIsNat
<1>11. PICK a : a = idx * s
  OBVIOUS
<1>12. /\ a \in Nat
       /\ idx * (2 * s) = 2 * a
       /\ (idx + 1) * (2 * s) = 2 * a + 2 * s
       /\ (2 * idx) * s = 2 * a
       /\ (2 * idx + 1) * s = 2 * a + s
       /\ ((2 * idx + 1) + 1) * s = 2 * a + 2 * s
  BY <1>6, <1>7, <1>11
<1>13. Leaves[p] = 2 * a .. 2 * a + 2 * s - 1
  <2>1. PICK u, v : u = idx * (2 * s) /\ v = (idx + 1) * (2 * s)
    OBVIOUS
  <2>2. Leaves[p] = u .. v - 1
    BY ONLY <1>7, <2>1, Zenon
  <2>3. u = 2 * a /\ v = 2 * a + 2 * s
    BY ONLY <1>12, <2>1
  <2> QED BY ONLY <1>6, <1>12, <2>2, <2>3
<1>14. \/ Leaves[n] = 2 * a .. 2 * a + s - 1
       \/ Leaves[n] = 2 * a + s .. 2 * a + 2 * s - 1
  <2>1. PICK u, v : u = half * s /\ v = (half + 1) * s
    OBVIOUS
  <2>2. Leaves[n] = u .. v - 1
    BY ONLY <1>9, <2>1, Zenon
  <2>3. CASE half = 2 * idx
    <3>1. u = 2 * a /\ v = 2 * a + s
      BY ONLY <1>12, <2>1, <2>3
    <3> QED BY ONLY <1>6, <1>12, <2>2, <3>1
  <2>4. CASE half = 2 * idx + 1
    <3>1. u = 2 * a + s /\ v = 2 * a + 2 * s
      BY ONLY <1>12, <2>1, <2>4
    <3> QED BY ONLY <1>6, <1>12, <2>2, <3>1
  <2> QED BY <1>10, <2>3, <2>4
<1>15. Leaves[n] \subseteq Leaves[p]
  BY ONLY <1>6, <1>12, <1>13, <1>14
<1> QED BY <1>1, <1>15

LEMMA LeavesOfAncestor ==
    ASSUME NEW n \in Node, NEW m \in Ancestors(n)
    PROVE  Leaves[n] \subseteq Leaves[m]
<1> DEFINE T == {i \in Nat : i <= LayerOf[n] /\ ~(Leaves[n] \subseteq Leaves[Up(n, i)])}
<1>1. LayerOf[n] \in 0 .. 13
  BY LayerDef, TreeAssumption
<1>2. T = {}
  <2> SUFFICES ASSUME T # {} PROVE FALSE
    OBVIOUS
  <2>1. PICK i \in T : \A x \in T : i <= x
    BY LeastExists
  <2>2. i # 0
    BY <2>1, UpIsParent
  <2>3. i - 1 \in 0 .. LayerOf[n] /\ i - 1 \in 0 .. 14
        /\ i - 1 \notin T /\ (i - 1) + 1 = i
    BY <1>1, <2>1, <2>2
  <2>4. Leaves[n] \subseteq Leaves[Up(n, i - 1)]
    BY <2>3
  <2>5. Up(n, i - 1) \in Node /\ Up(n, i - 1) # 1
    BY <1>1, <2>1, <2>3, UpLayer, RootLayer
  <2>6. Up(n, i) = Parent(Up(n, i - 1))
    BY <2>3, UpIsParent
  <2> QED BY <2>1, <2>4, <2>5, <2>6, LeavesOfHalf
<1> QED BY <1>1, <1>2, AncestorsAreUp

LEMMA LeavesExist ==
    ASSUME NEW n \in Node
    PROVE  Leaves[n] # {} /\ Leaves[n] \subseteq 0 .. Pow2(Layers - 1) - 1
<1>1. Leaves[n] # {}
  <2>1. PICK idx : idx = n - Pow2(LayerOf[n])
    OBVIOUS
  <2>2. PICK s : s = BlockSize(LayerOf[n])
    OBVIOUS
  <2>3. idx * s \in Leaves[n]
    BY <2>1, <2>2, LeavesAre
  <2> QED BY <2>3
<1>2. Leaves[1] = 0 .. Pow2(Layers - 1) - 1
  <2>1. Layers - 1 - 0 = Layers - 1 /\ 1 - Pow2(0) = 0
    BY TreeAssumption, Pow2Table
  <2>2. PICK s : s = Pow2(Layers - 1)
    OBVIOUS
  <2>3. s = BlockSize(0) /\ s \in Nat
    BY <2>1, <2>2, BlockSizes, TreeAssumption DEF BlockSize
  <2>4. Leaves[1] = 0 * s .. (0 + 1) * s - 1
    <3>1. 1 \in Node /\ 0 = 1 - Pow2(LayerOf[1]) /\ s = BlockSize(LayerOf[1])
      BY <2>1, <2>3, RootLayer, NodeIsNat
    <3> QED BY <3>1, LeavesAre
  <2> QED BY <2>2, <2>3, <2>4
<1> QED BY <1>1, <1>2, RootIsAncestor, LeavesOfAncestor

LEMMA SameLayerApart ==
    ASSUME NEW m \in Node, NEW n \in Node, LayerOf[m] = LayerOf[n], m < n
    PROVE  Leaves[m] \cap Leaves[n] = {}
<1>1. PICK i : i = m - Pow2(LayerOf[m])
  OBVIOUS
<1>2. PICK j : j = n - Pow2(LayerOf[n])
  OBVIOUS
<1>3. PICK s : s = BlockSize(LayerOf[m])
  OBVIOUS
<1>4. /\ Leaves[m] = i * s .. (i + 1) * s - 1 /\ i \in Nat /\ s \in Nat \ {0}
  BY <1>1, <1>3, LeavesAre
<1>5. /\ Leaves[n] = j * s .. (j + 1) * s - 1 /\ j \in Nat
  BY <1>2, <1>3, LeavesAre
<1>6. i < j
  BY <1>1, <1>2, NodeIsNat, LayerDef, TreeAssumption, Pow2Table
<1>7. PICK d \in Nat : j = (i + 1) + d
  BY <1>4, <1>5, <1>6
<1>8. j * s = (i + 1) * s + d * s /\ d * s \in Nat /\ (i + 1) * s \in Nat
      /\ (j + 1) * s \in Nat /\ i * s \in Nat
  BY <1>4, <1>5, <1>7
<1> QED BY <1>4, <1>5, <1>8

(* Blocks that share memory lie one inside the other.                      *)
LEMMA OverlapIsNesting ==
    ASSUME NEW m \in Node, NEW n \in Node, Leaves[m] \cap Leaves[n] # {}
    PROVE  m \in Ancestors(n) \/ n \in Ancestors(m)
<1>1. ASSUME NEW a \in Node, NEW b \in Node, LayerOf[a] <= LayerOf[b],
             Leaves[a] \cap Leaves[b] # {}
      PROVE  a \in Ancestors(b)
  <2>1. LayerOf[a] \in Nat /\ LayerOf[b] \in Nat
    BY LayerDef
  <2>2. LayerOf[b] - LayerOf[a] \in 0 .. LayerOf[b]
    BY <1>1, <2>1
  <2>3. PICK x : x = Up(b, LayerOf[b] - LayerOf[a])
    OBVIOUS
  <2>4. x \in Ancestors(b)
    BY <2>2, <2>3, AncestorsAreUp
  <2>5. x \in Node /\ LayerOf[x] = LayerOf[a]
    BY <2>1, <2>2, <2>3, UpLayer
  <2>6. Leaves[a] \cap Leaves[x] # {}
    BY <1>1, <2>4, LeavesOfAncestor
  <2>7. ~(a < x) /\ ~(x < a)
    BY <2>5, <2>6, SameLayerApart
  <2>8. a = x
    BY <2>5, <2>7, NodeIsNat
  <2> QED BY <2>4, <2>8
<1>2. LayerOf[m] \in Nat /\ LayerOf[n] \in Nat
  BY LayerDef
<1>3. Leaves[n] \cap Leaves[m] # {}
  OBVIOUS
<1> QED BY <1>1, <1>2, <1>3

LEMMA MaxIs ==
    ASSUME NEW n \in Nat, NEW T, T \subseteq 0 .. n, T # {}
    PROVE  Max(T) \in T /\ \A j \in T : j <= Max(T)
<1>1. \E i \in T : \A j \in T : i >= j
  BY GreatestExists
<1>2. Max(T) \in T /\ \A j \in T : Max(T) >= j
  BY <1>1 DEF Max
<1> QED BY <1>2

LEMMA MinIs ==
    ASSUME NEW T, T \subseteq Nat, T # {}
    PROVE  Min(T) \in T /\ \A j \in T : Min(T) <= j
<1>1. \E i \in T : \A j \in T : i <= j
  BY LeastExists
<1> QED BY <1>1 DEF Min

(* Live blocks share no memory, because the bitmap is a tree.              *)
LEMMA BlocksApart ==
    ASSUME NEW bits, bits \subseteq Node, IsTree(bits),
           NEW m \in Blocks(bits), NEW n \in Blocks(bits), m # n
    PROVE  Leaves[m] \cap Leaves[n] = {}
<1> SUFFICES ASSUME Leaves[m] \cap Leaves[n] # {} PROVE FALSE
  OBVIOUS
<1>1. m \in bits /\ n \in bits /\ m \in Node /\ n \in Node
  BY DEF Blocks
<1>2. ASSUME NEW a \in Blocks(bits), NEW b \in bits, a # b, a \in Ancestors(b)
      PROVE  FALSE
  <2>1. \E x \in Ancestors(b) : x = 2 * a \/ x = 2 * a + 1
    BY <1>2, HalfIsAncestor
  <2>2. Ancestors(b) \subseteq bits
    BY <1>2, TreeIsClosed
  <2> QED BY <2>1, <2>2 DEF Blocks
<1> QED BY <1>1, <1>2, OverlapIsNesting

-----------------------------------------------------------------------------
(* buddy_free                                                              *)

(* The leaf at the start of a block lies in the block.                     *)
LEMMA FirstLeafIsInside ==
    ASSUME NEW n \in Node
    PROVE  FirstLeaf(n) \in Node /\ n \in Ancestors(FirstLeaf(n))
<1>1. PICK first : first = Min(Leaves[n])
  OBVIOUS
<1>2. first \in Leaves[n] /\ first \in 0 .. Pow2(Layers - 1) - 1
  <2>1. Leaves[n] \subseteq Nat /\ Leaves[n] # {}
    BY LeavesExist, TreeAssumption, Pow2Table
  <2>2. first \in Leaves[n]
    BY <1>1, <2>1, MinIs
  <2> QED BY <2>2, LeavesExist
<1>3. PICK f : f = Pow2(Layers - 1) + first
  OBVIOUS
<1>4. f \in Node /\ LayerOf[f] = Layers - 1
  <2>1. /\ Layers - 1 \in 0 .. 14 /\ (Layers - 1) + 1 = Layers
        /\ Layers - 1 \in 0 .. Layers - 1
    BY TreeAssumption
  <2>2. Pow2(Layers) = 2 * Pow2(Layers - 1) /\ Pow2(Layers - 1) \in Nat
    BY <2>1, Pow2Table
  <2>3. f \in At(Layers - 1)
    BY <1>2, <1>3, <2>1, <2>2 DEF At
  <2> QED BY <2>1, <2>3, LayerIs
<1>5. Leaves[f] = {first}
  <2>1. first = f - Pow2(LayerOf[f]) /\ 1 = BlockSize(LayerOf[f])
    BY <1>2, <1>3, <1>4, BlockSizes, TreeAssumption, Pow2Table
  <2>2. Leaves[f] = first * 1 .. (first + 1) * 1 - 1 /\ first \in Nat
    BY <1>4, <2>1, LeavesAre
  <2> QED BY <2>2
<1>6. n \in Ancestors(f) \/ f \in Ancestors(n)
  BY <1>2, <1>4, <1>5, OverlapIsNesting
<1>7. f \in Ancestors(n) => f = n
  <2>1. LayerOf[n] \in 0 .. Layers - 1
    BY LayerDef
  <2> QED BY <1>4, <2>1, AncestorIs, TreeAssumption
<1> QED BY <1>1, <1>3, <1>4, <1>6, <1>7, RootIsAncestor DEF FirstLeaf

(* free finds the block that alloc handed out.                             *)
LEMMA FoundIsFreed ==
    ASSUME NEW bits, bits \subseteq Node, IsTree(bits), NEW n \in Blocks(bits)
    PROVE  Found(bits, n) = n
<1>1. n \in bits /\ n \in Node
  BY DEF Blocks
<1>2. PICK f : f = FirstLeaf(n)
  OBVIOUS
<1>3. f \in Node /\ n \in Ancestors(f)
  BY <1>1, <1>2, FirstLeafIsInside
<1> DEFINE T == Ancestors(f) \cap bits
<1>4. n \in T
  BY <1>1, <1>3
<1>5. \A m \in T : m <= n
  <2> SUFFICES ASSUME NEW m \in T, ~(m <= n) PROVE FALSE
    OBVIOUS
  <2>1. m \in Node /\ m \in bits /\ n < m
    BY <1>1, NodeIsNat
  <2>2. LayerOf[n] <= LayerOf[m]
    <3>1. ~(LayerOf[m] < LayerOf[n])
      BY <1>1, <2>1, LayerGrows, NodeIsNat
    <3> QED BY <1>1, <2>1, <3>1, LayerDef
  <2>3. n \in Ancestors(m)
    BY <1>3, <2>2, AncestorsAreChain
  <2>4. \E x \in Ancestors(m) : x = 2 * n \/ x = 2 * n + 1
    BY <2>1, <2>3, HalfIsAncestor, NodeIsNat
  <2>5. Ancestors(m) \subseteq bits
    BY <2>1, TreeIsClosed
  <2> QED BY <2>4, <2>5 DEF Blocks
<1>6. n \in Nat /\ T \subseteq 0 .. n
  BY <1>1, <1>5, NodeIsNat
<1> HIDE DEF T
<1>7. Max(T) \in T /\ \A j \in T : j <= Max(T)
  BY <1>4, <1>6, MaxIs
<1>8. Max(T) = n
  <2>1. Max(T) \in Nat /\ Max(T) <= n /\ n <= Max(T)
    <3>1. Max(T) \in 0 .. n
      BY <1>6, <1>7
    <3>2. n <= Max(T)
      BY <1>4, <1>7
    <3> QED BY <1>6, <3>1, <3>2
  <2> QED BY <1>6, <2>1
<1> QED BY <1>2, <1>8 DEF Found, T

(* The block merged into: an ancestor of the freed block, above which no   *)
(* half can be joined, and the deepest such.                               *)
LEMMA MergedIs ==
    ASSUME NEW bits, bits \subseteq Node, IsTree(bits), NEW n \in Blocks(bits)
    PROVE  /\ MergedInto(bits, n) \in Ancestors(n)
           /\ MergedInto(bits, n) # 1 => BuddyOf(MergedInto(bits, n)) \in bits
           /\ \A m \in Ancestors(n) \ {1} :
                  BuddyOf(m) \in bits => m <= MergedInto(bits, n)
<1> DEFINE stops == {m \in Ancestors(n) \ {1} : BuddyOf(m) \in bits}
<1>1. n \in Node
  BY DEF Blocks
<1>2. MergedInto(bits, n) = IF stops = {} THEN 1 ELSE Max(stops)
  BY FoundIsFreed DEF MergedInto
<1>3. \A m \in Ancestors(n) : m \in Nat /\ m <= n
  BY <1>1, AncestorNotGreater, AncestorIs, NodeIsNat
<1>4. stops \subseteq 0 .. n /\ n \in Nat
  BY <1>1, <1>3, NodeIsNat
<1>5. CASE stops = {}
  BY <1>1, <1>2, <1>5, RootIsAncestor
<1>6. CASE stops # {}
  <2>1. Max(stops) \in stops /\ \A j \in stops : j <= Max(stops)
    <3> HIDE DEF stops
    <3> QED BY <1>4, <1>6, MaxIs
  <2> QED BY <1>2, <1>6, <2>1
<1> QED BY <1>5, <1>6

LEMMA FreeBitsAre ==
    ASSUME NEW bits, bits \subseteq Node, IsTree(bits), NEW n \in Blocks(bits)
    PROVE  FreeBits(bits, n) =
               bits \ {m \in Ancestors(n) : m >= MergedInto(bits, n)}
  BY FoundIsFreed DEF FreeBits

LEMMA FreeKeepsTree ==
    ASSUME NEW bits, bits \subseteq Node, IsTree(bits), NEW n \in Blocks(bits)
    PROVE  IsTree(FreeBits(bits, n)) /\ FreeBits(bits, n) \subseteq Node
<1>1. PICK M : M = MergedInto(bits, n)
  OBVIOUS
<1>2. n \in bits /\ n \in Node /\ M \in Node
  BY <1>1, MergedIs, AncestorIs DEF Blocks
<1>3. FreeBits(bits, n) = bits \ {m \in Ancestors(n) : m >= M}
  BY <1>1, FreeBitsAre
<1> SUFFICES ASSUME NEW x \in bits \ {1}, Parent(x) \in Ancestors(n),
                    Parent(x) >= M, ~(x \in Ancestors(n) /\ x >= M)
             PROVE  FALSE
  BY <1>3 DEF IsTree
<1>4. PICK p : p = Parent(x)
  OBVIOUS
<1>5. /\ p \in Node /\ x \in Node /\ p < x
      /\ x = 2 * p \/ x = 2 * p + 1
  BY <1>4, ParentOfHalf
<1>6. p # n
  BY <1>5 DEF Blocks
<1>7. PICK y \in Ancestors(n) : /\ y = 2 * p \/ y = 2 * p + 1
                                /\ y # 1 /\ p < y
  BY <1>2, <1>4, <1>6, HalfIsAncestor
<1>8. y # x
  BY <1>2, <1>4, <1>5, <1>7, NodeIsNat
<1>9. x = BuddyOf(y)
  BY <1>5, <1>7, <1>8, BuddyIsOtherHalf, NodeIsNat
<1>10. y <= M
  BY <1>1, <1>7, <1>9, MergedIs
<1> QED BY <1>2, <1>4, <1>5, <1>7, <1>10, NodeIsNat

(* Exactly the freed block is live no more.                                *)
LEMMA FreeBlocks ==
    ASSUME NEW bits, bits \subseteq Node, IsTree(bits), NEW n \in Blocks(bits)
    PROVE  Blocks(FreeBits(bits, n)) = Blocks(bits) \ {n}
<1>1. PICK M : M = MergedInto(bits, n)
  OBVIOUS
<1>2. n \in bits /\ n \in Node /\ M \in Node /\ M \in Ancestors(n)
  BY <1>1, MergedIs, AncestorIs DEF Blocks
<1>3. PICK new : new = FreeBits(bits, n)
  OBVIOUS
<1>4. new = bits \ {m \in Ancestors(n) : m >= M}
  BY <1>1, <1>3, FreeBitsAre
<1>5. n \notin new
  <2>1. M <= n /\ n \in Ancestors(n)
    BY <1>2, AncestorNotGreater, RootIsAncestor
  <2> QED BY <1>2, <1>4, <2>1, NodeIsNat
<1>6. ASSUME NEW b \in Blocks(bits), b # n PROVE b \in Blocks(new)
  <2>1. b \in bits /\ 2 * b \notin new /\ 2 * b + 1 \notin new
    BY <1>4, <1>6 DEF Blocks
  <2>2. b \notin Ancestors(n)
    <3> SUFFICES ASSUME b \in Ancestors(n) PROVE FALSE
      OBVIOUS
    <3>1. \E x \in Ancestors(n) : x = 2 * b \/ x = 2 * b + 1
      BY <1>2, <1>6, HalfIsAncestor
    <3> QED BY <1>2, <1>6, <3>1, TreeIsClosed DEF Blocks
  <2> QED BY <1>4, <2>1, <2>2 DEF Blocks
<1>7. ASSUME NEW b \in Blocks(new) PROVE b \in Blocks(bits)
  <2>1. b \in new /\ b \in bits /\ b \in Node /\ b \in Nat
        /\ 2 * b \notin new /\ 2 * b + 1 \notin new
    BY <1>4, NodeIsNat DEF Blocks
  <2>2. SUFFICES ASSUME NEW x \in bits, x = 2 * b \/ x = 2 * b + 1 PROVE FALSE
    BY <2>1 DEF Blocks
  <2>3. x \in Ancestors(n) /\ x >= M /\ x # 1 /\ x \in Node
    BY <1>4, <2>1, <2>2, NodeIsNat
  <2>4. Parent(x) = b
    BY <2>1, <2>2, HalfFacts DEF Parent
  <2>5. b \in Ancestors(n)
    BY <1>2, <2>3, <2>4, ParentIsAncestor
  <2>6. b < M
    <3>1. M \in Nat /\ ~(b >= M)
      BY <1>2, <1>4, <2>1, <2>5, NodeIsNat
    <3> QED BY <2>1, <3>1
  <2>7. LayerOf[b] <= LayerOf[M] /\ b # M
    <3>1. ~(LayerOf[M] < LayerOf[b])
      <4> SUFFICES ASSUME LayerOf[M] < LayerOf[b] PROVE FALSE
        OBVIOUS
      <4>1. M < b
        BY <1>2, <2>1, LayerGrows
      <4>2. M \in Nat
        BY <1>2, NodeIsNat
      <4> QED BY <2>1, <2>6, <4>1, <4>2
    <3>2. LayerOf[M] \in Nat /\ LayerOf[b] \in Nat /\ M \in Nat
      BY <1>2, <2>1, LayerIsNat, NodeIsNat
    <3> QED BY <2>1, <2>6, <3>1, <3>2
  <2>8. b \in Ancestors(M)
    BY <1>2, <2>5, <2>7, AncestorsAreChain
  <2>9. PICK y \in Ancestors(M) : y = 2 * b \/ y = 2 * b + 1
    BY <1>2, <2>7, <2>8, HalfIsAncestor
  <2>10. y \in Ancestors(n) /\ y <= M
    BY <1>2, <2>9, AncestorOfAncestor, AncestorNotGreater
  <2>11. x = y
    <3>1. x \in Node /\ y \in Node /\ Parent(y) = b /\ x # 1 /\ y # 1
      BY <1>2, <2>1, <2>3, <2>9, <2>10, AncestorIs, HalfFacts, NodeIsNat
         DEF Parent
    <3>2. LayerOf[x] = LayerOf[y]
      BY <2>4, <3>1, ParentOfHalf, LayerDef
    <3> QED BY <1>2, <2>3, <2>10, <3>2, OneAncestorPerLayer
  <2>12. x = M
    BY <1>2, <2>3, <2>10, <2>11, NodeIsNat
  <2>13. BuddyOf(x) \in bits
    BY <1>1, <2>3, <2>12, MergedIs
  <2>14. BuddyOf(x) # x /\ (BuddyOf(x) = 2 * b \/ BuddyOf(x) = 2 * b + 1)
    BY <2>1, <2>2, BuddyIsOtherHalf
  <2>15. BuddyOf(x) \in Ancestors(n)
    BY <1>4, <2>1, <2>13, <2>14
  <2>16. LayerOf[BuddyOf(x)] = LayerOf[x]
    <3>1. BuddyOf(x) \in Node /\ BuddyOf(x) # 1 /\ Parent(BuddyOf(x)) = b
      BY <2>1, <2>13, <2>14, HalfFacts, NodeIsNat DEF Parent
    <3> QED BY <2>3, <2>4, <3>1, ParentOfHalf, LayerDef
  <2> QED BY <1>2, <2>3, <2>14, <2>15, <2>16, OneAncestorPerLayer
<1> QED BY <1>3, <1>5, <1>6, <1>7 DEF Blocks

(* What is unmapped and joined holds no other live block.                  *)
LEMMA MergedIsApart ==
    ASSUME NEW bits, bits \subseteq Node, IsTree(bits),
           NEW n \in Blocks(bits), NEW m \in Blocks(bits), m # n
    PROVE  Leaves[m] \cap Leaves[MergedInto(bits, n)] = {}
<1> SUFFICES ASSUME Leaves[m] \cap Leaves[MergedInto(bits, n)] # {}
             PROVE  FALSE
  OBVIOUS
<1>1. PICK M : M = MergedInto(bits, n)
  OBVIOUS
<1>2. /\ n \in Node /\ m \in Node /\ M \in Node
      /\ M \in Ancestors(n)
  BY <1>1, MergedIs, AncestorIs DEF Blocks
<1>3. PICK new : new = FreeBits(bits, n)
  OBVIOUS
<1>4. new \subseteq Node /\ IsTree(new) /\ m \in Blocks(new) /\ M \notin new
  <2>1. M \notin new
    BY <1>1, <1>2, <1>3, FreeBitsAre, NodeIsNat
  <2> QED BY <1>3, <2>1, FreeKeepsTree, FreeBlocks
<1>5. M \in Ancestors(m) \/ m \in Ancestors(M)
  BY <1>1, <1>2, OverlapIsNesting
<1>6. M \notin Ancestors(m)
  BY <1>4, TreeIsClosed DEF Blocks
<1>7. m \in Ancestors(n)
  BY <1>2, <1>5, <1>6, AncestorOfAncestor
<1>8. Leaves[n] \subseteq Leaves[m] /\ Leaves[n] # {}
  BY <1>2, <1>7, LeavesOfAncestor, LeavesExist
<1> QED BY <1>8, BlocksApart

-----------------------------------------------------------------------------
(* buddy_alloc                                                             *)

Down(c, j) == c * Pow2(j)

LEMMA DownStep ==
    ASSUME NEW c \in Node, NEW j \in 0 .. 14
    PROVE  Down(c, 0) = c /\ Down(c, j + 1) = 2 * Down(c, j)
<1>1. Pow2(0) = 1 /\ Pow2(j) \in Nat /\ Pow2(j + 1) = 2 * Pow2(j) /\ c \in Nat
  BY Pow2Table, NodeIsNat
<1>2. PICK p \in Nat : p = Pow2(j)
  BY <1>1
<1>3. c * (2 * p) = 2 * (c * p) /\ c * 1 = c
  BY <1>1
<1> QED BY <1>1, <1>2, <1>3 DEF Down

(* The way down along the first halves.                                    *)
LEMMA DownIs ==
    ASSUME NEW c \in Node, NEW j \in 0 .. Layers - 1 - LayerOf[c]
    PROVE  /\ Down(c, j) \in Node
           /\ LayerOf[Down(c, j)] = LayerOf[c] + j
           /\ c \in Ancestors(Down(c, j))
<1> DEFINE Fine(i) == /\ Down(c, i) \in Node
                      /\ LayerOf[Down(c, i)] = LayerOf[c] + i
                      /\ c \in Ancestors(Down(c, i))
           T == {i \in Nat : i <= Layers - 1 - LayerOf[c] /\ ~Fine(i)}
<1>1. LayerOf[c] \in Nat /\ Layers \in 2 .. 14
  BY LayerIsNat, TreeAssumption
<1>2. T = {}
  <2> SUFFICES ASSUME T # {} PROVE FALSE
    OBVIOUS
  <2>1. PICK i \in T : \A x \in T : i <= x
    BY LeastExists
  <2>2. i # 0
    BY <1>1, <2>1, DownStep, RootIsAncestor
  <2>3. i - 1 \in 0 .. 14 /\ i - 1 \notin T /\ (i - 1) + 1 = i
    BY <1>1, <2>1, <2>2
  <2>4. PICK x : x = Down(c, i - 1)
    OBVIOUS
  <2>5. x \in Node /\ LayerOf[x] = LayerOf[c] + (i - 1) /\ c \in Ancestors(x)
    BY <1>1, <2>1, <2>3, <2>4
  <2>6. Down(c, i) = 2 * x
    BY <2>3, <2>4, DownStep
  <2>7. 2 * x \in Node /\ LayerOf[2 * x] = LayerOf[c] + i
    <3>1. LayerOf[x] < Layers - 1
      BY <1>1, <2>1, <2>5
    <3> QED BY <1>1, <2>1, <2>5, <3>1, Halves
  <2>8. c \in Ancestors(2 * x)
    <3>1. Parent(2 * x) = x /\ 2 * x # 1
      BY <2>5, HalfFacts, NodeIsNat DEF Parent
    <3>2. x \in Ancestors(2 * x)
      BY <2>7, <3>1, RootIsAncestor, ParentIsAncestor
    <3> QED BY <2>5, <2>7, <3>2, AncestorOfAncestor
  <2> QED BY <2>1, <2>6, <2>7, <2>8
<1>3. j \in Nat /\ j <= Layers - 1 - LayerOf[c]
  BY <1>1
<1> QED BY <1>2, <1>3

LEMMA MinLayerIs ==
    ASSUME NEW size \in 0 .. Pow2(Layers - 1)
    PROVE  MinLayer[size] \in 0 .. Layers - 1
<1> DEFINE T == {l \in 0 .. Layers - 1 : BlockSize(l) >= size}
<1>1. Layers - 1 \in Nat /\ Layers - 1 - 0 = Layers - 1
  BY TreeAssumption
<1>2. 0 \in T
  <2>1. BlockSize(0) = Pow2(Layers - 1) /\ Pow2(Layers - 1) \in Nat
    BY <1>1, TreeAssumption, Pow2Table DEF BlockSize
  <2> QED BY <1>1, <2>1
<1>3. PICK l \in T : \A x \in T : x <= l
  BY <1>1, <1>2, GreatestExists
<1>4. l < Layers - 1 => BlockSize(l + 1) < size
  <2> SUFFICES ASSUME l < Layers - 1 PROVE BlockSize(l + 1) < size
    OBVIOUS
  <2>1. l + 1 \in 0 .. Layers - 1 /\ l + 1 \notin T
    BY <1>1, <1>3
  <2>2. BlockSize(l + 1) \in Nat
    BY <2>1, BlockSizes
  <2> QED BY <2>1, <2>2, TreeAssumption, Pow2Table
<1>5. \E i \in 0 .. Layers - 1 : /\ BlockSize(i) >= size
                                 /\ i < Layers - 1 => BlockSize(i + 1) < size
  BY <1>3, <1>4
<1> QED BY <1>5 DEF MinLayer

(* What the search finds: a clear block whose other half is set, and the   *)
(* way down from it to the layer asked for.                                *)
LEMMA AllocPathIs ==
    ASSUME NEW bits, bits \subseteq Node, 1 \in bits,
           NEW size \in Request, AllocSucceeds(bits, size)
    PROVE  \E c \in Node \ bits : \E d \in Nat :
              /\ c # 1 /\ Parent(c) \in bits /\ BuddyOf(c) \in bits
              /\ LayerOf[c] + d = MinLayer[size]
              /\ LayerOf[c] + d <= Layers - 1
              /\ AllocPath(bits, size) = {Down(c, j) : j \in 0 .. d}
<1>1. size \in 0 .. Pow2(Layers - 1)
  <2>1. Pow2(Layers - 1) \in Nat
    BY TreeAssumption, Pow2Table
  <2>2. ~(size > Pow2(Layers - 1))
    BY DEF AllocSucceeds, CandidateLayers
  <2> QED BY <2>1, <2>2 DEF Request
<1>2. PICK L \in 0 .. Layers - 1 : L = MinLayer[size]
  BY <1>1, MinLayerIs
<1> DEFINE T == {l \in 0 .. L : Candidates(bits, l) # {}}
<1>3. CandidateLayers(bits, size) = T /\ T # {}
  <2>1. ~(size > Pow2(Layers - 1))
    BY DEF AllocSucceeds, CandidateLayers
  <2> QED BY <1>2, <2>1 DEF AllocSucceeds, CandidateLayers
<1>4. L \in Nat /\ L <= Layers - 1 /\ Layers \in Nat
  BY TreeAssumption
<1>5. PICK l \in T : l = Max(CandidateLayers(bits, size))
  <2>1. T \subseteq 0 .. L
    OBVIOUS
  <2> HIDE DEF T
  <2> QED BY <1>3, <1>4, <2>1, MaxIs
<1>6. l \in 0 .. L /\ l \in 0 .. Layers - 1 /\ Candidates(bits, l) # {}
  BY <1>4, <1>5
<1>7. PICK c \in Candidates(bits, l) : c = Min(Candidates(bits, l))
  <2>1. Candidates(bits, l) \subseteq Nat
    BY <1>6, LayerIs, NodeIsNat DEF Candidates
  <2> QED BY <1>6, <2>1, MinIs
<1>8. c \in Node \ bits /\ LayerOf[c] = l
  BY <1>6, LayerIs DEF Candidates
<1>9. c # 1 /\ Parent(c) \in bits /\ BuddyOf(c) \in bits
  BY <1>8 DEF Candidates
<1>10. AllocPath(bits, size) = {Down(c, j) : j \in 0 .. L - l}
  BY <1>2, <1>5, <1>7, <1>8 DEF AllocPath, Descent, Down
<1>11. L - l \in Nat /\ l + (L - l) = L
  BY <1>4, <1>6
<1> QED BY <1>2, <1>4, <1>8, <1>9, <1>10, <1>11

(* Everything below a clear block of a tree is clear.                      *)
LEMMA BelowClear ==
    ASSUME NEW bits, bits \subseteq Node, IsTree(bits), NEW c \in Node \ bits,
           NEW j \in 0 .. Layers - 1 - LayerOf[c]
    PROVE  Down(c, j) \notin bits
  BY DownIs, TreeIsClosed

LEMMA AllocNodeIs ==
    ASSUME NEW bits, bits \subseteq Node, NEW size \in Request,
           NEW c \in Node, NEW d \in Nat, LayerOf[c] + d <= Layers - 1,
           AllocPath(bits, size) = {Down(c, j) : j \in 0 .. d}
    PROVE  AllocNode(bits, size) = Down(c, d)
<1>1. LayerOf[c] \in Nat /\ Layers \in Nat
  BY LayerIsNat, TreeAssumption
<1>2. \A j \in 0 .. d : j \in 0 .. Layers - 1 - LayerOf[c]
  BY <1>1
<1>3. PICK n : n = Down(c, d)
  OBVIOUS
<1>4. n \in Node /\ n \in Nat /\ LayerOf[n] = LayerOf[c] + d
  BY <1>2, <1>3, DownIs, NodeIsNat
<1> DEFINE T == AllocPath(bits, size)
<1>5. n \in T
  BY <1>3
<1>6. \A m \in T : m \in Nat /\ m <= n
  <2> SUFFICES ASSUME NEW j \in 0 .. d
               PROVE  Down(c, j) \in Nat /\ Down(c, j) <= n
    OBVIOUS
  <2>1. Down(c, j) \in Node /\ LayerOf[Down(c, j)] = LayerOf[c] + j
    BY <1>2, DownIs
  <2>2. CASE j = d
    BY <1>3, <1>4, <2>2
  <2>3. CASE j < d
    <3>1. LayerOf[Down(c, j)] < LayerOf[n]
      BY <1>1, <1>4, <2>1, <2>3
    <3>2. Down(c, j) < n
      BY <1>4, <2>1, <3>1, LayerGrows
    <3>3. Down(c, j) \in Nat
      BY <2>1, NodeIsNat
    <3> QED BY <1>4, <3>2, <3>3
  <2> QED BY <2>2, <2>3
<1> HIDE DEF T
<1>7. T \subseteq 0 .. n
  BY <1>4, <1>6
<1>8. Max(T) \in T /\ \A j \in T : j <= Max(T)
  BY <1>4, <1>5, <1>7, MaxIs
<1>9. Max(T) = n
  <2>1. Max(T) \in Nat /\ Max(T) <= n /\ n <= Max(T)
    BY <1>5, <1>6, <1>8
  <2> QED BY <1>4, <2>1
<1> QED BY <1>3, <1>9 DEF AllocNode, T

(* A request that succeeds is answered with a clear block of its layer,    *)
(* keeps the tree, and makes this block live and no other.                 *)
LEMMA AllocIs ==
    ASSUME NEW bits, bits \subseteq Node, IsTree(bits), 1 \in bits,
           NEW size \in Request, AllocSucceeds(bits, size)
    PROVE  /\ AllocNode(bits, size) \in Node \ bits
           /\ LayerOf[AllocNode(bits, size)] = MinLayer[size]
           /\ AllocBits(bits, size) \subseteq Node
           /\ IsTree(AllocBits(bits, size))
           /\ Blocks(AllocBits(bits, size)) =
                  Blocks(bits) \cup {AllocNode(bits, size)}
<1>1. PICK c \in Node \ bits : \E d \in Nat :
          /\ c # 1 /\ Parent(c) \in bits /\ BuddyOf(c) \in bits
          /\ LayerOf[c] + d = MinLayer[size]
          /\ LayerOf[c] + d <= Layers - 1
          /\ AllocPath(bits, size) = {Down(c, j) : j \in 0 .. d}
  BY AllocPathIs
<1>2. PICK d \in Nat :
          /\ c # 1 /\ Parent(c) \in bits /\ BuddyOf(c) \in bits
          /\ LayerOf[c] + d = MinLayer[size]
          /\ LayerOf[c] + d <= Layers - 1
          /\ AllocPath(bits, size) = {Down(c, j) : j \in 0 .. d}
  BY <1>1
<1>3. PICK n : n = AllocNode(bits, size)
  OBVIOUS
<1>4. n = Down(c, d)
  BY <1>2, <1>3, AllocNodeIs
<1>5. PICK new : new = AllocBits(bits, size)
  OBVIOUS
<1>6. new = bits \cup {Down(c, j) : j \in 0 .. d}
  BY <1>2, <1>5 DEF AllocBits
<1>7. \A j \in 0 .. d : /\ j \in 0 .. Layers - 1 - LayerOf[c] /\ j \in 0 .. 14
                        /\ Down(c, j) \in Node \ bits
                        /\ LayerOf[Down(c, j)] = LayerOf[c] + j
  <2>1. LayerOf[c] \in Nat /\ Layers \in 2 .. 14
    BY LayerIsNat, TreeAssumption
  <2>2. \A j \in 0 .. d : j \in 0 .. Layers - 1 - LayerOf[c] /\ j \in 0 .. 14
    BY <1>2, <2>1
  <2> QED BY <2>2, DownIs, BelowClear
<1>8. \A j \in 0 .. d : j # 0 => /\ j - 1 \in 0 .. d
                                 /\ Down(c, j) = 2 * Down(c, j - 1)
  <2> SUFFICES ASSUME NEW j \in 0 .. d, j # 0
               PROVE  j - 1 \in 0 .. d /\ Down(c, j) = 2 * Down(c, j - 1)
    OBVIOUS
  <2>1. j - 1 \in 0 .. d /\ (j - 1) + 1 = j
    OBVIOUS
  <2> QED BY <1>7, <2>1, DownStep
<1>9. Down(c, 0) = c /\ 0 \in 0 .. d
  BY DownStep
<1>10. n \in Node \ bits /\ LayerOf[n] = MinLayer[size]
  BY <1>2, <1>4, <1>7
<1>11. new \subseteq Node
  BY <1>6, <1>7
<1>12. IsTree(new)
  <2> SUFFICES ASSUME NEW x \in new, x # 1 PROVE Parent(x) \in new
    BY DEF IsTree
  <2>1. CASE x \in bits
    BY <1>6, <2>1 DEF IsTree
  <2>2. CASE x = c
    BY <1>2, <1>6, <2>2
  <2>3. ASSUME NEW j \in 0 .. d, x = Down(c, j), j # 0 PROVE Parent(x) \in new
    <3>1. x = 2 * Down(c, j - 1) /\ j - 1 \in 0 .. d
      BY <1>8, <2>3
    <3>2. Parent(x) = Down(c, j - 1)
      BY <1>7, <3>1, HalfFacts, NodeIsNat DEF Parent
    <3> QED BY <1>6, <3>1, <3>2
  <2> QED BY <1>6, <1>9, <2>1, <2>2, <2>3
<1>13. ASSUME NEW b \in Blocks(new) PROVE b \in Blocks(bits) \cup {n}
  <2>1. b \in new /\ 2 * b \notin new /\ 2 * b + 1 \notin new
    BY DEF Blocks
  <2>2. CASE b \in bits
    BY <1>6, <2>1, <2>2 DEF Blocks
  <2>3. ASSUME NEW j \in 0 .. d, b = Down(c, j), j # d PROVE FALSE
    <3>1. j + 1 \in 0 .. d /\ j + 1 # 0 /\ (j + 1) - 1 = j
      BY <2>3
    <3>2. Down(c, j + 1) = 2 * b
      BY <1>8, <2>3, <3>1
    <3> QED BY <1>6, <2>1, <3>1, <3>2
  <2> QED BY <1>4, <1>6, <2>1, <2>2, <2>3
<1>14. n \in Blocks(new)
  <2>1. n \in new
    BY <1>4, <1>6
  <2>2. ASSUME NEW x \in new, x = 2 * n \/ x = 2 * n + 1 PROVE FALSE
    <3>1. /\ n \in Node /\ x \in Node /\ n \in Nat /\ x # 1
          /\ Parent(x) = n
      BY <1>10, <1>11, <2>2, HalfFacts, NodeIsNat DEF Parent
    <3>2. LayerOf[x] = LayerOf[c] + d + 1
      <4>1. LayerOf[n] = LayerOf[x] - 1
        BY <3>1, ParentOfHalf
      <4>2. LayerOf[n] = LayerOf[c] + d
        BY <1>4, <1>7
      <4>3. LayerOf[c] \in Nat /\ LayerOf[x] \in Nat
        BY <3>1, LayerIsNat
      <4> QED BY <4>1, <4>2, <4>3
    <3>3. x \notin bits
      <4>1. n \in Ancestors(x)
        BY <3>1, RootIsAncestor, ParentIsAncestor
      <4> QED BY <1>10, <4>1, TreeIsClosed
    <3>4. PICK j \in 0 .. d : x = Down(c, j)
      BY <1>6, <3>3
    <3>5. LayerOf[x] = LayerOf[c] + j /\ LayerOf[c] \in Nat
      BY <1>7, <3>4, LayerIsNat
    <3> QED BY <3>2, <3>5
  <2> QED BY <2>1, <2>2 DEF Blocks
<1>15. ASSUME NEW b \in Blocks(bits) PROVE b \in Blocks(new)
  <2>1. /\ b \in bits /\ b \in Node /\ b \in Nat
        /\ 2 * b \notin bits /\ 2 * b + 1 \notin bits
    BY NodeIsNat DEF Blocks
  <2>2. ASSUME NEW x \in new, x = 2 * b \/ x = 2 * b + 1 PROVE FALSE
    <3>1. PICK j \in 0 .. d : x = Down(c, j)
      BY <1>6, <2>1, <2>2
    <3>2. Parent(x) = b
      BY <2>1, <2>2, HalfFacts DEF Parent
    <3>3. CASE j = 0
      <4>1. BuddyOf(c) = 2 * b \/ BuddyOf(c) = 2 * b + 1
        BY <1>9, <2>1, <2>2, <3>1, <3>3, BuddyIsOtherHalf
      <4> QED BY <1>2, <2>1, <4>1
    <3>4. CASE j # 0
      <4>1. x = 2 * Down(c, j - 1) /\ j - 1 \in 0 .. d
        BY <1>8, <3>1, <3>4
      <4>2. Parent(x) = Down(c, j - 1)
        BY <1>7, <4>1, HalfFacts, NodeIsNat DEF Parent
      <4> QED BY <1>7, <2>1, <3>2, <4>1, <4>2
    <3> QED BY <3>3, <3>4
  <2> QED BY <1>6, <2>1, <2>2 DEF Blocks
<1>16. Blocks(new) = Blocks(bits) \cup {n}
  BY <1>13, <1>14, <1>15
<1> QED BY <1>3, <1>5, <1>10, <1>11, <1>12, <1>16

(* Below a set block of a tree, or at it, some block is live.              *)
LEMMA LiveBelow ==
    ASSUME NEW bits, bits \subseteq Node, NEW b \in bits
    PROVE  \E m \in Blocks(bits) : b \in Ancestors(m)
<1> DEFINE T == {x \in bits : b \in Ancestors(x)}
<1>1. b \in Node /\ b \in T
  BY RootIsAncestor
<1>2. T \subseteq 0 .. Pow2(Layers) /\ Pow2(Layers) \in Nat
  <2>1. Pow2(Layers) \in Nat
    BY TreeAssumption, Pow2Table
  <2>2. \A x \in Node : x \in 0 .. Pow2(Layers)
    BY <2>1 DEF Node
  <2> QED BY <2>1, <2>2
<1>3. PICK m \in T : \A x \in T : x <= m
  BY <1>1, <1>2, GreatestExists
<1>4. m \in Nat /\ m \in Node /\ m >= 1
  BY NodeIsNat
<1>5. ASSUME NEW x \in bits, x = 2 * m \/ x = 2 * m + 1 PROVE FALSE
  <2>1. x \in Node /\ x # 1 /\ Parent(x) = m /\ x > m
    BY <1>4, <1>5, HalfFacts DEF Parent
  <2>2. m \in Ancestors(x)
    BY <2>1, RootIsAncestor, ParentIsAncestor
  <2>3. x \in T
    BY <2>1, <2>2, AncestorOfAncestor
  <2>4. x <= m /\ x \in Nat
    BY <1>3, <2>1, <2>3, NodeIsNat
  <2> QED BY <1>4, <2>1, <2>4
<1>6. m \in Blocks(bits)
  BY <1>5 DEF Blocks
<1> QED BY <1>6

(* A request that fails finds every block of its layer taken.              *)
LEMMA RefusedIsFull ==
    ASSUME NEW bits, bits \subseteq Node, IsTree(bits), 1 \in bits,
           NEW size \in Request, ~AllocSucceeds(bits, size),
           size <= Pow2(Layers - 1),
           NEW b \in Node, LayerOf[b] = MinLayer[size]
    PROVE  \E m \in Blocks(bits) : Leaves[b] \cap Leaves[m] # {}
<1>1. CASE b \in bits
  <2>1. PICK m \in Blocks(bits) : b \in Ancestors(m)
    BY <1>1, LiveBelow
  <2>2. m \in Node
    BY DEF Blocks
  <2>3. Leaves[m] \subseteq Leaves[b] /\ Leaves[m] # {}
    BY <2>1, <2>2, LeavesOfAncestor, LeavesExist
  <2> QED BY <2>3
<1>2. CASE b \notin bits
  <2> DEFINE T == Ancestors(b) \ bits
  <2>1. b \in T
    BY <1>2, RootIsAncestor
  <2>2. T \subseteq Nat
    BY AncestorIs, NodeIsNat
  <2>3. PICK a \in T : \A x \in T : a <= x
    BY <2>1, <2>2, LeastExists
  <2>4. a \in Node /\ a \in Nat /\ a # 1 /\ a \in Ancestors(b) /\ a \notin bits
    BY AncestorIs, NodeIsNat
  <2>5. PICK p : p = Parent(a)
    OBVIOUS
  <2>6. /\ p \in Node /\ p \in Nat /\ p < a
        /\ a = 2 * p \/ a = 2 * p + 1
    BY <2>4, <2>5, ParentOfHalf, NodeIsNat
  <2>7. p \in Ancestors(b)
    BY <2>4, <2>5, ParentIsAncestor
  <2>8. p \in bits
    <3> SUFFICES ASSUME p \in T PROVE FALSE
      BY <2>7
    <3> QED BY <2>3, <2>4, <2>6
  <2>9. CASE BuddyOf(a) \in bits
    <3>1. LayerOf[a] \in 0 .. MinLayer[size] /\ a \in At(LayerOf[a])
      BY <2>4, AncestorIs, LayerDef
    <3>2. a \in Candidates(bits, LayerOf[a])
      BY <2>4, <2>5, <2>8, <2>9, <3>1 DEF Candidates
    <3>3. ~(size > Pow2(Layers - 1))
      BY TreeAssumption, Pow2Table DEF Request
    <3> QED BY <3>1, <3>2, <3>3 DEF AllocSucceeds, CandidateLayers
  <2>10. CASE BuddyOf(a) \notin bits
    <3>1. p \in Blocks(bits)
      BY <2>4, <2>6, <2>8, <2>10, BuddyIsOtherHalf DEF Blocks
    <3>2. Leaves[b] \subseteq Leaves[p] /\ Leaves[b] # {}
      BY <2>7, LeavesOfAncestor, LeavesExist
    <3> QED BY <3>1, <3>2
  <2> QED BY <2>9, <2>10
<1> QED BY <1>1, <1>2

-----------------------------------------------------------------------------
(* The tree after heap_init's request                                      *)



-----------------------------------------------------------------------------
(* The bitmap that heap_init's request leaves                              *)

LEMMA ReservedIs == Reserved \in Node /\ Reserved # 1
<1>1. ReservedLayer \in 0 .. Layers - 1 /\ ReservedLayer \in 1 .. 13
  BY TreeAssumption
<1>2. Pow2(ReservedLayer) \in At(ReservedLayer)
  BY <1>1, Pow2Table DEF At
<1>3. Reserved \in Node /\ LayerOf[Reserved] = ReservedLayer
  BY <1>1, <1>2, LayerIs DEF Reserved
<1> QED BY <1>1, <1>3, RootLayer

LEMMA InitialTree ==
    /\ InitialBits \subseteq Node
    /\ IsTree(InitialBits)
    /\ Blocks(InitialBits) = {Reserved}
<1>1. ReservedLayer \in 1 .. 13 /\ ReservedLayer <= Layers - 1 /\ Layers \in 2 .. 14
  BY TreeAssumption
<1>2. \A k \in 0 .. ReservedLayer :
          /\ k \in 0 .. Layers - 1 /\ k \in 0 .. 13
          /\ Pow2(k) \in At(k)
  BY <1>1, Pow2Table DEF At
<1>3. \A k \in 0 .. ReservedLayer :
          Pow2(k) \in Node /\ LayerOf[Pow2(k)] = k /\ Pow2(k) \in Nat
  BY <1>2, LayerIs, NodeIsNat
<1>4. InitialBits \subseteq Node
  BY <1>3 DEF InitialBits
<1>5. ASSUME NEW k \in 0 .. ReservedLayer, k # 0
      PROVE  k - 1 \in 0 .. ReservedLayer /\ Pow2(k) = 2 * Pow2(k - 1)
  <2>1. k - 1 \in 0 .. ReservedLayer /\ k - 1 \in 0 .. 14 /\ (k - 1) + 1 = k
    BY <1>1, <1>5
  <2> QED BY <2>1, Pow2Table
<1>6. IsTree(InitialBits)
  <2> SUFFICES ASSUME NEW k \in 0 .. ReservedLayer, Pow2(k) # 1
               PROVE  Parent(Pow2(k)) \in InitialBits
    BY DEF IsTree, InitialBits
  <2>1. k # 0
    BY Pow2Table
  <2>2. k - 1 \in 0 .. ReservedLayer /\ Pow2(k) = 2 * Pow2(k - 1)
    BY <1>5, <2>1
  <2>3. Parent(Pow2(k)) = Pow2(k - 1)
    BY <1>3, <2>2, HalfFacts DEF Parent
  <2> QED BY <2>2, <2>3 DEF InitialBits
<1>7. ASSUME NEW b \in Blocks(InitialBits) PROVE b = Reserved
  <2>1. PICK k \in 0 .. ReservedLayer : b = Pow2(k)
    BY DEF Blocks, InitialBits
  <2>2. SUFFICES ASSUME k # ReservedLayer PROVE FALSE
    BY <2>1 DEF Reserved
  <2>3. k + 1 \in 0 .. ReservedLayer /\ k + 1 # 0 /\ (k + 1) - 1 = k
    BY <1>1, <2>2
  <2>4. Pow2(k + 1) = 2 * b
    BY <1>5, <2>1, <2>3
  <2> QED BY <2>3, <2>4 DEF Blocks, InitialBits
<1>8. Reserved \in Blocks(InitialBits)
  <2>1. Reserved \in InitialBits
    BY <1>1 DEF InitialBits, Reserved
  <2>2. ASSUME NEW k \in 0 .. ReservedLayer,
               Pow2(k) = 2 * Reserved \/ Pow2(k) = 2 * Reserved + 1
        PROVE  FALSE
    <3>1. Pow2(k) \in Node /\ Pow2(k) # 1 /\ Parent(Pow2(k)) = Reserved
      BY <1>3, <2>2, ReservedIs, HalfFacts, NodeIsNat DEF Parent
    <3>2. LayerOf[Reserved] = LayerOf[Pow2(k)] - 1
      BY <3>1, ParentOfHalf
    <3>3. LayerOf[Reserved] = ReservedLayer /\ LayerOf[Pow2(k)] = k
      BY <1>1, <1>3 DEF Reserved
    <3> QED BY <1>1, <3>2, <3>3
  <2> QED BY <2>1, <2>2 DEF Blocks, InitialBits
<1> QED BY <1>4, <1>6, <1>7, <1>8

=============================================================================

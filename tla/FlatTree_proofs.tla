--------------------------- MODULE FlatTree_proofs ---------------------------
(***************************************************************************)
(* The flat tree of CoreStore, for every length of the core: how its nodes *)
(* lie in each other, and what that says about the nodes a proof brings.   *)
(***************************************************************************)
EXTENDS CoreStore, Induction

\* The q-th node of k blocks.
Node(k, q) == <<q * k, q * k + k - 1>>
Covers(n, i) == n[1] <= i /\ i <= n[2]

----------------------------------------------------------------------------
(* Numbers.                                                                *)

(* Between two multiples lies a whole step.                                *)
LEMMA NextMultiple ==
  ASSUME NEW a \in Nat, NEW b \in Nat, NEW k \in Nat, a < b
  PROVE  a * k + k <= b * k
OBVIOUS

(* Quotient and remainder.                                                 *)
LEMMA Division ==
  ASSUME NEW x \in Nat, NEW k \in Nat \ {0}
  PROVE  x \div k \in Nat /\ x % k \in 0..(k - 1) /\ x = (x \div k) * k + (x % k)
OBVIOUS

(* They are the only ones.                                                 *)
LEMMA Remainder ==
  ASSUME NEW q \in Nat, NEW k \in Nat \ {0}, NEW r \in 0..(k - 1)
  PROVE  (q * k + r) % k = r
<1> DEFINE x == q * k + r
<1>1. x \in Nat
  OBVIOUS
<1>2. x \div k \in Nat /\ x % k \in 0..(k - 1) /\ x = (x \div k) * k + (x % k)
  BY <1>1, Division
<1>3. ~(x \div k < q) /\ ~(q < x \div k)
  BY <1>2, NextMultiple
<1> QED BY <1>2, <1>3

(* Multiples of k that share a point of the k blocks behind them are the same. *)
LEMMA SameMultiple ==
  ASSUME NEW q \in Nat, NEW p \in Nat, NEW k \in Nat \ {0}, NEW i \in Nat,
         Covers(Node(k, q), i), Covers(Node(k, p), i)
  PROVE  q = p
<1>1. q * k <= i /\ i < q * k + k /\ p * k <= i /\ i < p * k + k
  BY DEF Covers, Node
<1>2. ~(q < p) /\ ~(p < q)
  BY <1>1, NextMultiple
<1> QED BY <1>2

(* The widths exist, and double from height to height.                     *)
LEMMA WidthValues ==
  /\ Width \in [0..Height -> Nat \ {0}] /\ Width[0] = 1
  /\ \A h \in 1..Height : Width[h] = 2 * Width[h - 1]
<1> DEFINE F == [h \in 1..Height |-> [w \in Nat |-> 2 * w]]
           Is(f) == f = [h \in 0..Height |-> IF h = 0 THEN 1 ELSE 2 * f[h - 1]]
<1>1. Height \in Nat
  BY StoreAssumption
<1>2. F \in [1..Height -> [Nat -> Nat]]
  OBVIOUS
<1>3. \A h \in 1..Height : \A w \in Nat : F[h][w] = 2 * w
  OBVIOUS
<1> HIDE DEF F
<1>4. PICK f \in [0..Height -> Nat] : f[0] = 1 /\ \A h \in 1..Height : f[h] = F[h][f[h - 1]]
  <2>1. Iterations(Height, Nat, 1, F) # {}
    BY <1>1, <1>2, Recursion
  <2> QED BY <2>1 DEF Iterations
<1>5. Is(f)
  <2>1. ASSUME NEW h \in 1..Height PROVE f[h] = 2 * f[h - 1]
    <3>1. h - 1 \in 0..Height
      BY <1>1
    <3>2. f[h - 1] \in Nat
      BY <1>4, <3>1
    <3> QED BY <1>3, <1>4, <3>2
  <2> QED BY <1>1, <1>4, <2>1
<1>6. Width = CHOOSE g : Is(g)
  BY DEF Width
<1>7. Is(Width)
  BY <1>5, <1>6
<1> DEFINE S == {h \in 0..Height : Width[h] \in Nat \ {0}}
<1>8. 0 \in S
  BY <1>1, <1>7
<1>9. ASSUME NEW h \in 1..Height, h - 1 \in S PROVE h \in S
  <2>1. h \in 0..Height /\ h # 0 /\ Width[h - 1] \in Nat \ {0}
    BY <1>1, <1>9
  <2>2. Width[h] = 2 * Width[h - 1]
    BY <1>7, <2>1
  <2> QED BY <2>1, <2>2
<1> HIDE DEF S
<1>10. 0..Height \subseteq S
  BY <1>1, <1>8, <1>9, SetInductionTo
<1>11. \A h \in 0..Height : Width[h] \in Nat \ {0}
  BY <1>10 DEF S
<1>12. Width \in [0..Height -> Nat \ {0}]
  BY <1>7, <1>11
<1>13. Width[0] = 1
  BY <1>1, <1>7
<1>14. ASSUME NEW h \in 1..Height PROVE Width[h] = 2 * Width[h - 1]
  <2>1. h \in 0..Height /\ h # 0
    BY <1>1
  <2> QED BY <1>7, <2>1
<1> QED BY <1>12, <1>13, <1>14

----------------------------------------------------------------------------
(* Nodes.                                                                  *)

(* A node is one of the intervals of its width, one after the other. *)
LEMMA NodeShape ==
  ASSUME NEW n \in TreeNodes
  PROVE  \E h \in 0..Height, q \in Nat :
           n = Node(Width[h], q) /\ n[1] \in Nat /\ n[2] \in Nat /\ n[1] <= n[2]
             /\ n[2] < MaxLen
<1>1. n \in Tree /\ n[1] % (n[2] - n[1] + 1) = 0 /\ n[2] < MaxLen
  BY DEF TreeNodes
<1>2. PICK f \in 0..(MaxLen - 1), h \in 0..Height : n = <<f, f + Width[h] - 1>>
  BY <1>1 DEF Tree
<1> DEFINE k == Width[h]
<1>3. k \in Nat \ {0}
  BY WidthValues
<1> HIDE DEF k
<1>4. n[1] = f /\ n[2] = f + k - 1 /\ n[2] - n[1] + 1 = k /\ f \in Nat /\ f % k = 0
  BY <1>1, <1>2, <1>3, StoreAssumption DEF k
<1>5. f \div k \in Nat /\ f = (f \div k) * k + (f % k)
  BY <1>3, <1>4, Division
<1>6. (f \div k) * k = f
  BY <1>3, <1>4, <1>5
<1>7. n = Node(k, f \div k)
  BY <1>2, <1>6 DEF Node, k
<1>8. n[1] \in Nat /\ n[2] \in Nat /\ n[1] <= n[2]
  BY <1>3, <1>4
<1> QED BY <1>1, <1>5, <1>7, <1>8 DEF k

(* An interval of such a width, aligned and below MaxLen, is a node.       *)
LEMMA IsNode ==
  ASSUME NEW h \in 0..Height, NEW q \in Nat, Node(Width[h], q)[2] < MaxLen
  PROVE  Node(Width[h], q) \in TreeNodes
<1> DEFINE k == Width[h]
           n == Node(k, q)
<1>1. k \in Nat \ {0} /\ MaxLen \in Nat
  BY WidthValues, StoreAssumption
<1>2. q * k \in Nat /\ n[1] = q * k /\ n[2] = q * k + k - 1 /\ n[2] - n[1] + 1 = k
  BY <1>1 DEF Node
<1>3. n \in Tree
  BY <1>1, <1>2 DEF Tree, Node
<1>4. (q * k + 0) % k = 0
  BY <1>1, Remainder
<1> QED BY <1>1, <1>2, <1>3, <1>4 DEF TreeNodes

(* The parent of a node is the node of twice its width that holds it. *)
LEMMA ParentIs ==
  ASSUME NEW k \in Nat \ {0}, NEW q \in Nat
  PROVE  /\ Parent(Node(k, q)) = Node(2 * k, q \div 2) /\ q \div 2 \in Nat
         /\ Inside(Node(k, q), Node(2 * k, q \div 2))
<1> DEFINE n == Node(k, q)
           p == q \div 2
           w == 2 * k
<1>0. w \in Nat \ {0} /\ w = 2 * k /\ k \in 0..(w - 1) /\ 0 \in 0..(w - 1)
  OBVIOUS
<1> HIDE DEF w
<1>1. p \in Nat /\ (q = 2 * p \/ q = 2 * p + 1)
  OBVIOUS
<1>2. n[1] = q * k /\ n[2] = q * k + k - 1 /\ n[2] - n[1] + 1 = k
  BY DEF Node
<1>3. Node(w, p) = <<p * w, p * w + w - 1>> /\ p * w \in Nat
  BY <1>0, <1>1 DEF Node
<1>4. CASE q = 2 * p
  <2>1. q * k = p * w
    BY <1>0, <1>1, <1>4
  <2>2. (p * w + 0) % w = 0
    BY <1>0, <1>1, Remainder
  <2>3. Parent(n) = <<p * w, p * w + w - 1>>
    BY <1>2, <1>3, <2>1, <2>2, <1>0 DEF Parent
  <2> QED BY <1>1, <1>2, <1>3, <2>1, <2>3, <1>0 DEF Inside, w
<1>5. CASE q = 2 * p + 1
  <2>1. q * k = p * w + k
    BY <1>0, <1>1, <1>5
  <2>2. (p * w + k) % w = k
    BY <1>0, <1>1, Remainder
  <2>3. Parent(n) = <<p * w, p * w + w - 1>>
    BY <1>2, <1>3, <2>1, <2>2, <1>0 DEF Parent
  <2> QED BY <1>1, <1>2, <1>3, <2>1, <2>3, <1>0 DEF Inside, w
<1> QED BY <1>1, <1>4, <1>5

(* A node lies in every node that is as wide or wider and shares a block. *)
LEMMA WiderHolds ==
  ASSUME NEW h \in 0..Height, NEW g \in 0..Height, h <= g, NEW q \in Nat, NEW p \in Nat,
         NEW i \in Nat, Covers(Node(Width[h], q), i), Covers(Node(Width[g], p), i)
  PROVE  Inside(Node(Width[h], q), Node(Width[g], p))
<1> DEFINE m == Node(Width[g], p)
           S == {d \in Nat : \A e \in 0..Height, r \in Nat :
                   e + d = g /\ Covers(Node(Width[e], r), i) => Inside(Node(Width[e], r), m)}
<1>1. Height \in Nat
  BY StoreAssumption
<1>2. 0 \in S
  <2> SUFFICES ASSUME NEW e \in 0..Height, NEW r \in Nat, e + 0 = g, Covers(Node(Width[e], r), i)
               PROVE  Inside(Node(Width[e], r), m)
    OBVIOUS
  <2>1. e = g /\ Width[g] \in Nat \ {0}
    BY <1>1, WidthValues
  <2>2. r = p
    BY <2>1, SameMultiple
  <2> QED BY <2>1, <2>2 DEF Inside, Node
<1>3. ASSUME NEW d \in 1..g, d - 1 \in S PROVE d \in S
  <2> SUFFICES ASSUME NEW e \in 0..Height, NEW r \in Nat, e + d = g, Covers(Node(Width[e], r), i)
               PROVE  Inside(Node(Width[e], r), m)
    BY <1>1
  <2>1. e + 1 \in 0..Height /\ (e + 1) + (d - 1) = g /\ e + 1 \in 1..Height /\ (e + 1) - 1 = e
    BY <1>1
  <2>2. Width[e] \in Nat \ {0} /\ Width[e + 1] = 2 * Width[e]
    BY <2>1, WidthValues
  <2>3. r \div 2 \in Nat /\ Inside(Node(Width[e], r), Node(Width[e + 1], r \div 2))
    BY <2>2, ParentIs
  <2>4. Node(Width[e], r)[1] \in Int /\ Node(Width[e], r)[2] \in Int
        /\ Node(Width[e + 1], r \div 2)[1] \in Int /\ Node(Width[e + 1], r \div 2)[2] \in Int
        /\ m[1] \in Int /\ m[2] \in Int
    <3>1. Width[g] \in Nat /\ Width[e + 1] \in Nat
      BY <2>1, WidthValues
    <3> QED BY <2>2, <2>3, <3>1 DEF Node
  <2> HIDE DEF m
  <2>5. Covers(Node(Width[e + 1], r \div 2), i)
    BY <2>3, <2>4 DEF Covers, Inside
  <2>6. Inside(Node(Width[e + 1], r \div 2), m)
    BY <1>3, <2>1, <2>3, <2>5
  <2> QED BY <2>3, <2>4, <2>6 DEF Inside
<1> HIDE DEF S
<1>4. g \in Nat /\ 0..g \subseteq S
  BY <1>1, <1>2, <1>3, SetInductionTo
<1>5. g - h \in 0..g /\ h + (g - h) = g
  BY <1>1
<1>6. g - h \in S
  BY <1>4, <1>5
<1> QED BY <1>5, <1>6 DEF S

(* A node is an interval of blocks.                                        *)
LEMMA NodeType ==
  ASSUME NEW n \in TreeNodes
  PROVE  n = <<n[1], n[2]>> /\ n[1] \in Nat /\ n[2] \in Nat /\ n[1] <= n[2] /\ n[2] < MaxLen
BY NodeShape DEF Node

(* Two nodes that share a block lie one in the other. *)
LEMMA Laminar ==
  ASSUME NEW n \in TreeNodes, NEW m \in TreeNodes, NEW i \in Nat, Covers(n, i), Covers(m, i)
  PROVE  Inside(n, m) \/ Inside(m, n)
<1>1. PICK h \in 0..Height, q \in Nat : n = Node(Width[h], q)
  BY NodeShape
<1>2. PICK g \in 0..Height, p \in Nat : m = Node(Width[g], p)
  BY NodeShape
<1>3. h <= g \/ g <= h
  BY StoreAssumption
<1> QED BY <1>1, <1>2, <1>3, WiderHolds

(* Nodes inside each other are the same.                                   *)
LEMMA SameNode ==
  ASSUME NEW n \in TreeNodes, NEW m \in TreeNodes, Inside(n, m), Inside(m, n)
  PROVE  n = m
BY NodeType DEF Inside

(* A node that lies in another lies in it with its parent. *)
LEMMA ParentInside ==
  ASSUME NEW n \in TreeNodes, NEW m \in TreeNodes, Inside(n, m), n # m
  PROVE  Inside(Parent(n), m)
<1>1. PICK h \in 0..Height, q \in Nat : n = Node(Width[h], q)
  BY NodeShape
<1>2. PICK g \in 0..Height, p \in Nat : m = Node(Width[g], p)
  BY NodeShape
<1> DEFINE i == n[1]
<1>3. i \in Nat /\ Covers(n, i) /\ Covers(m, i)
  BY NodeType DEF Covers, Inside
<1>4. Height \in Nat /\ ~(g <= h)
  <2>1. ~Inside(m, n)
    BY SameNode
  <2> HIDE DEF i
  <2> QED BY <2>1, <1>1, <1>2, <1>3, WiderHolds, StoreAssumption
<1>5. h + 1 \in 1..Height /\ h + 1 \in 0..Height /\ (h + 1) - 1 = h /\ h + 1 <= g
  BY <1>4
<1>6. Width[h] \in Nat \ {0} /\ Width[h + 1] = 2 * Width[h] /\ Width[h + 1] \in Nat
  BY <1>5, WidthValues
<1>7. /\ Parent(n) = Node(Width[h + 1], q \div 2) /\ q \div 2 \in Nat
      /\ Inside(n, Node(Width[h + 1], q \div 2))
  BY <1>1, <1>6, ParentIs
<1>8. Covers(Node(Width[h + 1], q \div 2), i)
  BY <1>6, <1>7, NodeType DEF Inside, Covers, Node
<1> HIDE DEF i
<1> QED BY <1>2, <1>3, <1>5, <1>7, <1>8, WiderHolds

(* The parent of a node is a node, unless it goes beyond the longest core. *)
LEMMA ParentNode ==
  ASSUME NEW n \in TreeNodes
  PROVE  /\ Parent(n)[1] \in Int /\ Parent(n)[2] \in Int /\ Inside(n, Parent(n)) /\ n # Parent(n)
         /\ Parent(n)[2] < MaxLen => Parent(n) \in TreeNodes
<1>1. PICK h \in 0..Height, q \in Nat : n = Node(Width[h], q)
  BY NodeShape
<1>2. Width[h] \in Nat \ {0}
  BY WidthValues
<1>3. /\ Parent(n) = Node(2 * Width[h], q \div 2) /\ q \div 2 \in Nat
      /\ Inside(n, Node(2 * Width[h], q \div 2))
  BY <1>1, <1>2, ParentIs
<1> DEFINE w == 2 * Width[h]
<1>4. w \in Nat \ {0} /\ Width[h] < w
  BY <1>2
<1>5. Parent(n) = Node(w, q \div 2)
  BY <1>3
<1>6. n[2] - n[1] = Width[h] - 1
  BY <1>1, <1>2 DEF Node
<1> HIDE DEF w
<1>7. /\ Parent(n)[1] = (q \div 2) * w /\ Parent(n)[2] = (q \div 2) * w + w - 1
      /\ (q \div 2) * w \in Nat
  BY <1>3, <1>4, <1>5 DEF Node
<1>8. Parent(n)[2] - Parent(n)[1] = w - 1
  BY <1>4, <1>7
<1>9. n # Parent(n)
  BY <1>2, <1>4, <1>6, <1>8
<1>10. ASSUME Parent(n)[2] < MaxLen PROVE Parent(n) \in TreeNodes
  <2>1. Height \in Nat /\ MaxLen \in Nat /\ MaxLen <= Width[Height]
    BY StoreAssumption
  <2>2. h # Height
    <3>1. w <= Parent(n)[2] + 1
      BY <1>4, <1>7
    <3>2. w <= MaxLen
      BY <1>4, <1>7, <1>10, <2>1, <3>1
    <3> QED BY <1>2, <1>4, <2>1, <3>2
  <2>3. h + 1 \in 1..Height /\ (h + 1) - 1 = h
    BY <2>1, <2>2
  <2>4. w = Width[h + 1]
    BY <2>3, WidthValues DEF w
  <2> QED BY <1>3, <1>5, <1>10, <2>3, <2>4, IsNode
<1> QED BY <1>3, <1>4, <1>5, <1>7, <1>9, <1>10 DEF w

(* Every block has its leaf.                                               *)
LEMMA LeafNode ==
  ASSUME NEW i \in 0..(MaxLen - 1)
  PROVE  Leaf(i) \in TreeNodes /\ Leaf(i) \in Path(i)
<1>1. 0 \in 0..Height /\ i \in Nat /\ i < MaxLen
  BY StoreAssumption
<1>2. Node(Width[0], i) = <<i, i>>
  BY <1>1, WidthValues DEF Node
<1>3. Leaf(i) \in TreeNodes
  BY <1>1, <1>2, IsNode DEF Leaf
<1> QED BY <1>1, <1>3 DEF Path, Inside, Leaf

----------------------------------------------------------------------------
(* What a proof brings.                                                    *)

(* Every verified node lies under a full root: the widest verified node    *)
(* that it lies in.                                                        *)
LEMMA RootAbove ==
  ASSUME NEW length \in 0..MaxLen, NEW n \in TreeNodes, n[2] < length
  PROVE  \E r \in Roots(length) : Inside(n, r)
<1> DEFINE above == {m \in TreeNodes : Inside(n, m) /\ m[2] < length}
           spare == {MaxLen - (m[2] - m[1]) : m \in above}
<1>1. n \in above
  BY NodeType DEF Inside
<1>2. spare \in SUBSET Nat /\ spare # {}
  BY <1>1, NodeType, StoreAssumption
<1>3. PICK x \in spare : \A y \in spare : x <= y
  <2> HIDE DEF spare
  <2> QED BY <1>2, Least
<1>4. PICK r \in above : x = MaxLen - (r[2] - r[1])
  BY <1>3
<1>5. ASSUME NEW m \in above PROVE m[2] - m[1] <= r[2] - r[1]
  <2>1. MaxLen - (r[2] - r[1]) <= MaxLen - (m[2] - m[1])
    BY <1>3, <1>4
  <2>2. m[1] \in Nat /\ m[2] \in Nat /\ r[1] \in Nat /\ r[2] \in Nat /\ MaxLen \in Nat
    BY <1>4, NodeType, StoreAssumption
  <2> QED BY <2>1, <2>2
<1>6. r \in TreeNodes /\ Inside(n, r) /\ r[2] < length /\ r[1] \in Nat /\ r[2] \in Nat
  BY <1>4, NodeType
<1> HIDE DEF spare
<1>7. ~(Parent(r)[2] < length)
  <2> SUFFICES ASSUME Parent(r)[2] < length PROVE FALSE
    OBVIOUS
  <2>1. /\ Parent(r)[1] \in Int /\ Parent(r)[2] \in Int /\ Inside(r, Parent(r)) /\ r # Parent(r)
        /\ Parent(r) \in TreeNodes
    BY <1>6, ParentNode, StoreAssumption
  <2>2. Parent(r) \in above
    BY <1>6, <2>1, NodeType DEF Inside
  <2>3. Parent(r)[2] - Parent(r)[1] <= r[2] - r[1]
    BY <1>5, <2>2
  <2>4. Inside(Parent(r), r)
    BY <1>6, <2>1, <2>3 DEF Inside
  <2> QED BY <1>6, <2>1, <2>4, SameNode
<1>8. Parent(r)[2] \in Int
  BY <1>6, ParentNode
<1> QED BY <1>6, <1>7, <1>8 DEF Roots

(* Of the nodes of a path that are in a set, if any, one is the lowest. *)
LEMMA Lowest ==
  ASSUME NEW i \in 0..(MaxLen - 1), NEW K, Path(i) \cap K # {}
  PROVE  \E n \in Path(i) \cap K : \A m \in Path(i) \cap K : Inside(n, m)
<1> DEFINE widths == {m[2] - m[1] : m \in Path(i) \cap K}
<1>1. \A m \in Path(i) : m \in TreeNodes /\ Covers(m, i)
  BY DEF Path, Inside, Leaf, Covers
<1>2. widths \in SUBSET Nat /\ widths # {}
  BY <1>1, NodeType
<1>3. PICK x \in widths : \A y \in widths : x <= y
  <2> HIDE DEF widths
  <2> QED BY <1>2, Least
<1>4. PICK n \in Path(i) \cap K : x = n[2] - n[1]
  BY <1>3
<1>5. ASSUME NEW m \in Path(i) \cap K PROVE Inside(n, m)
  <2>1. n[2] - n[1] <= m[2] - m[1]
    BY <1>3, <1>4
  <2>2. Inside(n, m) \/ Inside(m, n)
    BY <1>1, Laminar, StoreAssumption
  <2>3. n[1] \in Nat /\ n[2] \in Nat /\ m[1] \in Nat /\ m[2] \in Nat
    BY <1>1, NodeType
  <2> QED BY <2>1, <2>2, <2>3 DEF Inside
<1> QED BY <1>5

(* An upgrade brings the new full roots that are not old ones. *)
LEMMA RootsGrow ==
  ASSUME NEW a \in 0..MaxLen, NEW b \in 0..MaxLen, a <= b
  PROVE  Roots(b) \subseteq Roots(a) \cup UpgradeNodes(a, b)
<1> SUFFICES ASSUME NEW n \in Roots(b) PROVE n \in Roots(a) \cup UpgradeNodes(a, b)
  OBVIOUS
<1>1. n \in TreeNodes /\ n[2] < b /\ Parent(n)[2] >= b
  BY DEF Roots
<1>2. n[1] \in Nat /\ n[2] \in Nat /\ Parent(n)[2] \in Int
  BY <1>1, NodeType, ParentNode
<1>3. CASE n[2] < a
  BY <1>1, <1>2, <1>3 DEF Roots
<1>4. CASE a <= n[2]
  BY <1>1, <1>2, <1>4 DEF UpgradeNodes
<1> QED BY <1>2, <1>3, <1>4

(* The offset of a block in a longer core takes nodes that gave it before, *)
(* or old full roots.                                                      *)
LEMMA OffsetGrows ==
  ASSUME NEW a \in 0..MaxLen, NEW b \in 0..MaxLen, a <= b, NEW i \in 0..(MaxLen - 1), i < a
  PROVE  OffsetNodes(Leaf(i), b) \subseteq OffsetNodes(Leaf(i), a) \cup Roots(a)
<1> SUFFICES ASSUME NEW m \in OffsetNodes(Leaf(i), b)
             PROVE  m \in OffsetNodes(Leaf(i), a) \cup Roots(a)
  OBVIOUS
<1>1. m \in TreeNodes /\ m[2] < i /\ Inside(Leaf(i), Parent(m))
  BY DEF OffsetNodes, Leaf
<1>2. PICK r \in Roots(b) : Inside(Parent(m), r)
  BY DEF OffsetNodes
<1>3. r \in TreeNodes /\ r[2] < b /\ r[2] \in Nat /\ r[2] < MaxLen
  BY <1>2, NodeType DEF Roots
<1>4. m[1] \in Nat /\ m[2] \in Nat /\ Parent(m)[1] \in Int /\ Parent(m)[2] \in Int
  BY <1>1, NodeType, ParentNode
<1>5. Parent(m) \in TreeNodes
  BY <1>1, <1>2, <1>3, <1>4, ParentNode, StoreAssumption DEF Inside
<1>6. CASE Parent(m)[2] < a
  <2>1. PICK s \in Roots(a) : Inside(Parent(m), s)
    BY <1>5, <1>6, RootAbove
  <2>2. s[1] \in Nat /\ s[2] \in Nat
    BY NodeType DEF Roots
  <2>3. Inside(Leaf(i), s)
    BY <1>1, <1>4, <2>1, <2>2 DEF Inside, Leaf
  <2> QED BY <1>1, <2>1, <2>3 DEF OffsetNodes, Leaf
<1>7. CASE Parent(m)[2] >= a
  BY <1>1, <1>4, <1>7 DEF Roots
<1> QED BY <1>4, <1>6, <1>7

(* The proof of a block and the nodes that give the offset of its anchor *)
(* give the length and the offset of the block.                          *)
LEMMA BlockPlaced ==
  ASSUME NEW length \in 0..MaxLen, NEW i \in 0..(MaxLen - 1), NEW anchor \in Path(i),
         NEW K, OffsetNodes(anchor, length) \subseteq K
  PROVE  /\ Leaf(i) \in BlockNodes(i, anchor)
         /\ OffsetNodes(Leaf(i), length) \subseteq K \cup BlockNodes(i, anchor)
<1>1. anchor \in TreeNodes /\ anchor[1] \in Nat /\ anchor[2] \in Nat /\ anchor[1] <= i
        /\ i <= anchor[2]
  BY NodeType DEF Path, Inside, Leaf
<1>2. Leaf(i) \in BlockNodes(i, anchor)
  BY LeafNode DEF BlockNodes, Path
<1>3. ASSUME NEW m \in OffsetNodes(Leaf(i), length)
      PROVE  m \in K \cup BlockNodes(i, anchor)
  <2>1. m \in TreeNodes /\ m[2] < i /\ Inside(Leaf(i), Parent(m))
    BY DEF OffsetNodes, Leaf
  <2>2. PICK r \in Roots(length) : Inside(Parent(m), r)
    BY DEF OffsetNodes
  <2>3. r \in TreeNodes /\ r[1] \in Nat /\ r[2] \in Nat /\ r[2] < MaxLen
    BY <2>2, NodeType DEF Roots
  <2>4. m[1] \in Nat /\ m[2] \in Nat /\ Parent(m)[1] \in Int /\ Parent(m)[2] \in Int
    BY <2>1, NodeType, ParentNode
  <2>5. Parent(m) \in TreeNodes
    BY <2>1, <2>2, <2>3, <2>4, ParentNode, StoreAssumption DEF Inside
  <2>6. Covers(Parent(m), i) /\ Covers(anchor, i) /\ i \in Nat
    BY <1>1, <2>1 DEF Covers, Inside, Leaf
  <2>7. CASE Inside(Parent(m), anchor)
    BY <2>1, <2>5, <2>7 DEF BlockNodes, Path
  <2>8. CASE Inside(anchor, Parent(m)) /\ ~Inside(Parent(m), anchor)
    <3>1. ~Covers(m, i)
      BY <2>1, <2>4 DEF Covers
    <3>2. ~Inside(anchor, m)
      BY <1>1, <2>1, <2>4 DEF Inside
    <3>3. ~Inside(m, anchor)
      BY <1>1, <2>1, <2>6, <2>8, <3>1, ParentInside
    <3>4. m[2] < anchor[1]
      <4>1. ~(Covers(m, m[2]) /\ Covers(anchor, m[2]))
        BY <1>1, <2>1, <2>4, <3>2, <3>3, Laminar
      <4>2. Covers(m, m[2])
        BY <2>1, <2>4, NodeType DEF Covers
      <4> QED BY <1>1, <2>1, <2>4, <4>1, <4>2 DEF Covers
    <3>5. Inside(Leaf(anchor[1]), Parent(m)) /\ Inside(anchor, r)
      BY <1>1, <2>2, <2>3, <2>4, <2>8 DEF Inside, Leaf
    <3>6. m \in OffsetNodes(anchor, length)
      BY <2>1, <2>2, <3>4, <3>5 DEF OffsetNodes
    <3> QED BY <3>6
  <2> QED BY <1>1, <2>5, <2>6, <2>7, <2>8, Laminar
<1> QED BY <1>2, <1>3
=============================================================================

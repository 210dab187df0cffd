-------------------------- MODULE CoreStore_proofs --------------------------
(***************************************************************************)
(* Proof that a core on disk survives every power cut outside two windows: *)
(* between a header and the cut of the oplog behind it, and while entries  *)
(* that are nowhere else lie under a newer one.  For every length of the   *)
(* core and any number of cuts.                                            *)
(***************************************************************************)
EXTENDS FlatTree_proofs, SequenceTheorems

\* The power is cut in neither window.
Benign == CrashAt \cap {"cut", "overwritten"} = {}

HeaderType == [bit : BOOLEAN, len : 0..MaxLen, contig : 0..MaxLen, man : BOOLEAN, blank : BOOLEAN]
UpgradeType ==
  [kind : {"upgrade"}, ancestors : 0..MaxLen, length : 0..MaxLen, nodes : SUBSET TreeNodes]
BlockType == [kind : {"block"}, index : 0..(MaxLen - 1), nodes : SUBSET TreeNodes]
EntryType == UpgradeType \cup BlockType
CoreType ==
  [ok : BOOLEAN, len : 0..MaxLen, contig : 0..MaxLen, man : BOOLEAN,
   slots : [1..2 -> BOOLEAN], held : SUBSET (0..(MaxLen - 1)),
   fresh : SUBSET TreeNodes, blanked : SUBSET TreeNodes, cut : 0..NoCut,
   end : 0..4, over : BOOLEAN, skip : 0..3]

Types ==
  /\ hdr \in [1..2 -> HeaderType] /\ log \in Seq(EntryType \cup {Torn})
  /\ tree \subseteq TreeNodes /\ bitmap \subseteq 0..(MaxLen - 1)
       /\ data \subseteq 0..(MaxLen - 1)
  /\ mem \in CoreType /\ op \in EntryType \cup {NoOp} /\ step \in Steps
       /\ crashes \in 0..MaxCrashes

\* The blocks and the nodes that the entries a to b of s bring.
BlocksIn(s, a, b) == {s[k].index : k \in {j \in a..b : s[j].kind = "block"}}
NodesIn(s, a, b) == UNION {s[k].nodes : k \in a..b}
\* The nodes that can be found, on disk or not yet.
Known == tree \cup mem.fresh
\* Block i of a core of this length can be read with these nodes.
Placed(i, length, nodes) == Leaf(i) \in nodes /\ OffsetNodes(Leaf(i), length) \subseteq nodes

\* Entry e takes a core of length a to length b.
Extends(e, a, b) ==
  \/ a < b /\ e = Upgrade(a, b)
  \/ a = b /\ \E i \in 0..(a - 1), anchor \in TreeNodes : e = Block(i, anchor)
\* L are the lengths between the entries, from the newest header to memory.
Chain(L) ==
  /\ L \in [0..Len(log) -> 0..MaxLen] /\ L[0] = Newest.len /\ L[Len(log)] = mem.len
  /\ \A k \in 1..Len(log) : Extends(log[k], L[k - 1], L[k])

\* The newest header and the entries behind it are what is in memory.
Faithful ==
  /\ 0..(Newest.contig - 1) \subseteq bitmap
  /\ Newest.contig \in bitmap => Newest.contig \in BlocksIn(log, 1, Len(log))
  /\ bitmap \cup BlocksIn(log, 1, Len(log)) = mem.held
  /\ Roots(Newest.len) \subseteq tree
  /\ tree \cup NodesIn(log, 1, Len(log)) = Known
  /\ Newest.man \/ (Newest.len = 0 /\ log = <<>>)
  /\ \E L \in [0..Len(log) -> 0..MaxLen] : Chain(L)

\* The core in memory, as it is or was before the power was cut.
MemoryRight ==
  /\ mem.ok /\ mem.cut = NoCut /\ mem.blanked = {}
  /\ Roots(mem.len) \subseteq Known
  /\ mem.held \subseteq data
  /\ \A i \in mem.held : i < mem.len /\ Placed(i, mem.len, Known)
  /\ 0..(mem.contig - 1) \subseteq mem.held /\ mem.contig \notin mem.held
  /\ mem.len > 0 => mem.man

\* An operation is applied to memory and disk one step after the other.
Stages ==
  /\ step # "down" => mem.slots = Bits
  /\ mem.over => step \in {"bits", "nodes", "header"}
  /\ step \in {"idle", "entry"} =>
       /\ mem.end + mem.skip <= 3
       /\ mem.end = Len(log) \/ (mem.end = 0 /\ mem.skip = 0)
       /\ mem.man = Newest.man
  /\ step = "entry" =>
       /\ mem.man
       /\ \E b \in 0..MaxLen : Extends(op, mem.len, b)
       /\ op.kind = "block" => op.index \in data
            /\ Placed(op.index, mem.len, Known \cup op.nodes)
  /\ step \in {"nodes", "header", "cut"} => bitmap = mem.held
  /\ step \in {"header", "cut"} => mem.fresh = {}
  /\ step = "cut" =>
       mem.end = 0 /\ Newest.len = mem.len /\ Newest.contig = mem.contig /\ Newest.man = mem.man

StoreInv ==
  /\ Benign /\ Types /\ MemoryRight /\ Stages
  /\ ~mem.over /\ step # "cut" => Faithful

----------------------------------------------------------------------------
(* Memory.                                                                 *)

Held(m, i, c) == [m EXCEPT !.held = @ \cup {i}, !.contig = c]
Longer(m, b) == [m EXCEPT !.len = b]

LEMMA HeldType ==
  ASSUME NEW m \in CoreType, NEW i \in 0..(MaxLen - 1), NEW c \in 0..MaxLen
  PROVE  Held(m, i, c) \in CoreType
BY DEF Held, CoreType

(* A block that is added is held, and the hint, which had only held blocks *)
(* below it, still has, and is not held unless it was neither moved nor    *)
(* right.                                                                  *)
LEMMA BlockAdded ==
  ASSUME NEW m \in CoreType, NEW i \in 0..(MaxLen - 1)
  PROVE  \E c \in 0..MaxLen :
           /\ AddBlock(m, i) = Held(m, i, c)
           /\ 0..(m.contig - 1) \subseteq m.held => 0..(c - 1) \subseteq m.held \cup {i}
           /\ c \in m.held \cup {i} => c = m.contig /\ c # i
<1> DEFINE held == m.held \cup {i}
           free == {c \in (i + 1)..MaxLen : c \notin held}
           Next1(c) == c \notin held /\ (i + 1)..(c - 1) \subseteq held
           next == CHOOSE c \in (i + 1)..MaxLen : Next1(c)
<1>1. MaxLen \in Nat \ {0} /\ i \in Nat /\ m.held \subseteq 0..(MaxLen - 1)
        /\ m.contig \in 0..MaxLen
  BY StoreAssumption DEF CoreType
<1>2. free \in SUBSET Nat /\ MaxLen \in free
  BY <1>1
<1>3. PICK d \in free : \A y \in free : d <= y
  <2> HIDE DEF free
  <2> QED BY <1>2, Least
<1>4. d \in (i + 1)..MaxLen /\ Next1(d)
  BY <1>1, <1>3
<1>5. next \in (i + 1)..MaxLen /\ Next1(next)
  <2> HIDE DEF Next1
  <2> QED BY <1>4
<1> HIDE DEF next
<1> DEFINE c == IF i <= m.contig /\ m.contig <= i + 1 THEN next ELSE m.contig
<1>6. AddBlock(m, i) = Held(m, i, c)
  BY DEF AddBlock, Held, next, CoreType
<1>7. c \in 0..MaxLen
  BY <1>1, <1>5
<1>8. ASSUME 0..(m.contig - 1) \subseteq m.held PROVE 0..(c - 1) \subseteq held
  BY <1>1, <1>5, <1>8
<1>9. c \in held => c = m.contig /\ c # i
  BY <1>1, <1>5
<1> QED BY <1>6, <1>7, <1>8, <1>9

(* An upgrade that is not taken for a truncation changes the length and    *)
(* nothing else.                                                           *)
LEMMA GrowType ==
  ASSUME NEW m \in CoreType, NEW a \in 0..MaxLen, NEW b \in 0..MaxLen
  PROVE  /\ Grow(m, a, b) \in CoreType
         /\ m.len <= a => Grow(m, a, b) = Longer(m, b)
<1>1. MaxLen \in Nat /\ m.len \in 0..MaxLen /\ m.cut \in 0..NoCut
  BY StoreAssumption DEF CoreType
<1>2. CASE a >= m.len
  <2>1. Grow(m, a, b) = Longer(m, b)
    BY <1>2 DEF Grow, Longer
  <2> QED BY <2>1 DEF Longer, CoreType
<1>3. CASE ~(a >= m.len)
  <2> DEFINE climbed == {n \in Path(a - 1) : \A p \in Path(a - 1) : p[1] = 0 => Inside(n, p)}
             joins == {n \in climbed : n[2] >= a /\ Index(n) < 2 * a}
             below == {n \in m.fresh : Index(n) < 2 * a}
             fresh == below \ joins
             blanked == {n \in m.blanked : Index(n) < 2 * a} \cup joins
             cut == IF m.cut < a THEN m.cut ELSE a
  <2>1. Grow(m, a, b) = [m EXCEPT !.fresh = fresh, !.blanked = blanked, !.cut = cut, !.len = b]
    BY <1>3 DEF Grow, CoreType
  <2>2. fresh \subseteq TreeNodes /\ blanked \subseteq TreeNodes
    BY DEF CoreType, Path
  <2>3. cut \in 0..NoCut
    BY <1>1 DEF NoCut
  <2> HIDE DEF fresh, blanked, cut
  <2>4. Grow(m, a, b) \in CoreType
    <3>1. [m EXCEPT !.fresh = fresh, !.blanked = blanked] \in CoreType
      BY <2>2 DEF CoreType
    <3>2. [[m EXCEPT !.fresh = fresh, !.blanked = blanked] EXCEPT !.cut = cut, !.len = b] \in CoreType
      BY <2>3, <3>1 DEF CoreType
    <3>3. Grow(m, a, b) = [[m EXCEPT !.fresh = fresh, !.blanked = blanked] EXCEPT !.cut = cut, !.len = b]
      BY <2>1 DEF CoreType
    <3> QED BY <3>2, <3>3
  <2>5. ~(m.len <= a)
    BY <1>1, <1>3
  <2> QED BY <2>4, <2>5
<1> QED BY <1>2, <1>3

(* Replaying keeps the type of the core.                                   *)
LEMMA ReplayType ==
  ASSUME NEW m \in CoreType, NEW e \in EntryType \cup {Torn}
  PROVE  Replay(m, e) \in CoreType
<1>1. CASE ~m.ok \/ e.kind = "torn"
  BY <1>1 DEF Replay, CoreType
<1>2. CASE ~(~m.ok \/ e.kind = "torn")
  <2>1. e \in UpgradeType \/ e \in BlockType
    BY <1>2 DEF EntryType, Torn
  <2> DEFINE m1 == AddNodes(m, e.nodes)
  <2>2. m1 \in CoreType
    BY <2>1 DEF AddNodes, CoreType, UpgradeType, BlockType
  <2> HIDE DEF m1
  <2>3. CASE e \in BlockType
    <3>1. e.kind = "block" /\ e.index \in 0..(MaxLen - 1)
            /\ Replay(m, e) = AddBlock(m1, e.index)
      BY <1>2, <2>3 DEF BlockType, Replay, m1
    <3> QED BY <2>2, <3>1, BlockAdded, HeldType
  <2>4. CASE e \in UpgradeType
    <3>1. /\ e.kind = "upgrade" /\ e.ancestors \in 0..MaxLen /\ e.length \in 0..MaxLen
          /\ Replay(m, e) = [Grow(m1, e.ancestors, e.length) EXCEPT
                               !.ok = \A r \in Roots(e.length) \ Roots(m.len) : Has(m1, r)]
      BY <1>2, <2>4 DEF UpgradeType, Replay, m1
    <3>2. Grow(m1, e.ancestors, e.length) \in CoreType
      BY <2>2, <3>1, GrowType
    <3> QED BY <3>1, <3>2 DEF CoreType
  <2> QED BY <2>1, <2>3, <2>4
<1> QED BY <1>1, <1>2

----------------------------------------------------------------------------
(* Opening.                                                                *)

(* One of the two headers is the newest.                                   *)
LEMMA NewestType ==
  ASSUME Types
  PROVE  /\ Newest \in HeaderType /\ Bits \in [1..2 -> BOOLEAN]
         /\ Opened \in CoreType
              /\ Opened = Core(Roots(Newest.len) \subseteq tree, Newest, Bits, bitmap)
<1>1. hdr[1] \in HeaderType /\ hdr[2] \in HeaderType
  BY DEF Types
<1>2. Newest \in HeaderType
  BY <1>1 DEF Newest
<1>3. hdr[1].bit \in BOOLEAN /\ hdr[2].bit \in BOOLEAN
  BY <1>1 DEF HeaderType
<1>4. Bits \in [1..2 -> BOOLEAN]
  BY <1>3 DEF Bits
<1>5. NoCut \in 0..NoCut
  BY StoreAssumption DEF NoCut
<1>6. bitmap \in SUBSET (0..(MaxLen - 1))
  BY DEF Types
<1>7. Newest.len \in 0..MaxLen /\ Newest.contig \in 0..MaxLen /\ Newest.man \in BOOLEAN
  BY <1>2 DEF HeaderType
<1>8. Opened \in CoreType
  BY <1>4, <1>5, <1>6, <1>7 DEF Opened, Core, CoreType
<1> QED BY <1>2, <1>4, <1>8 DEF Opened

(* What opening computes from the oplog exists, and is made entry by       *)
(* entry.                                                                  *)
LEMMA ReplayedSteps ==
  ASSUME Types
  PROVE  /\ Len(log) \in Nat /\ Replayed[0] = Opened
         /\ \A k \in 0..Len(log) : Replayed[k] \in CoreType
         /\ \A k \in 1..Len(log) : Replayed[k] = Replay(Replayed[k - 1], log[k])
<1> DEFINE n == Len(log)
           F == [k \in 1..n |-> [m \in CoreType |-> Replay(m, log[k])]]
           Is(f) == f = [k \in 0..n |-> IF k = 0 THEN Opened ELSE Replay(f[k - 1], log[k])]
<1>1. n \in Nat /\ Opened \in CoreType /\ \A k \in 1..n : log[k] \in EntryType \cup {Torn}
  BY NewestType DEF Types
<1>2. \A k \in 1..n : \A m \in CoreType : Replay(m, log[k]) \in CoreType
  BY <1>1, ReplayType
<1> HIDE DEF n
<1>3. F \in [1..n -> [CoreType -> CoreType]]
        /\ \A k \in 1..n : \A m \in CoreType : F[k][m] = Replay(m, log[k])
  BY <1>2
<1> HIDE DEF F
<1>4. PICK f \in [0..n -> CoreType] : f[0] = Opened /\ \A k \in 1..n : f[k] = F[k][f[k - 1]]
  <2>1. Iterations(n, CoreType, Opened, F) # {}
    BY <1>1, <1>3, Recursion
  <2> QED BY <2>1 DEF Iterations
<1>5. Is(f)
  <2>1. ASSUME NEW k \in 1..n PROVE f[k] = Replay(f[k - 1], log[k])
    <3>1. f[k - 1] \in CoreType
      BY <1>1, <1>4
    <3> QED BY <1>3, <1>4, <3>1
  <2> QED BY <1>1, <1>4, <2>1
<1>6. Replayed = CHOOSE g : Is(g)
  BY DEF Replayed, n
<1>7. Is(Replayed)
  BY <1>5, <1>6
<1> DEFINE S == {k \in 0..n : Replayed[k] \in CoreType}
<1>8. 0 \in S
  BY <1>1, <1>7
<1>9. ASSUME NEW k \in 1..n, k - 1 \in S PROVE k \in S
  BY <1>1, <1>2, <1>7, <1>9
<1> HIDE DEF S
<1>10. 0..n \subseteq S
  BY <1>1, <1>8, <1>9, SetInductionTo
<1>11. \A k \in 0..n : Replayed[k] \in CoreType
  BY <1>10 DEF S
<1> QED BY <1>1, <1>7, <1>11 DEF n

(* Entries bring what their parts bring.                                   *)
LEMMA EntriesSplit ==
  ASSUME NEW s, NEW a \in Int, NEW b \in Int, NEW c \in Int, a <= b + 1, b <= c
  PROVE  /\ BlocksIn(s, a, c) = BlocksIn(s, a, b) \cup BlocksIn(s, b + 1, c)
         /\ NodesIn(s, a, c) = NodesIn(s, a, b) \cup NodesIn(s, b + 1, c)
<1>1. a..c = (a..b) \cup ((b + 1)..c)
  OBVIOUS
<1>2. BlocksIn(s, a, c) = BlocksIn(s, a, b) \cup BlocksIn(s, b + 1, c)
  BY <1>1 DEF BlocksIn
<1>3. NodesIn(s, a, c) = NodesIn(s, a, b) \cup NodesIn(s, b + 1, c)
  BY <1>1 DEF NodesIn
<1> QED BY <1>2, <1>3

(* One entry brings its block and its nodes.                               *)
LEMMA OneEntry ==
  ASSUME NEW s, NEW k \in Int
  PROVE  /\ BlocksIn(s, k, k) = IF s[k].kind = "block" THEN {s[k].index} ELSE {}
         /\ NodesIn(s, k, k) = s[k].nodes
<1>1. k..k = {k}
  OBVIOUS
<1>2. BlocksIn(s, k, k) = IF s[k].kind = "block" THEN {s[k].index} ELSE {}
  BY <1>1 DEF BlocksIn
<1>3. NodesIn(s, k, k) = s[k].nodes
  BY <1>1 DEF NodesIn
<1> QED BY <1>2, <1>3

(* No entries bring nothing.                                               *)
LEMMA NoEntries ==
  ASSUME NEW s, NEW a \in Int, NEW b \in Int, b < a
  PROVE  BlocksIn(s, a, b) = {} /\ NodesIn(s, a, b) = {}
<1>1. a..b = {}
  OBVIOUS
<1> QED BY <1>1 DEF BlocksIn, NodesIn

(* What an entry that extends a core is. *)
LEMMA EntryShape ==
  ASSUME NEW a \in 0..MaxLen, NEW b \in 0..MaxLen, NEW e, Extends(e, a, b)
  PROVE  /\ e \in EntryType /\ e.nodes \subseteq TreeNodes
         /\ \/ /\ e.kind = "upgrade" /\ a < b /\ e.ancestors = a /\ e.length = b
               /\ e.nodes = UpgradeNodes(a, b)
            \/ /\ e.kind = "block" /\ a = b /\ e.index \in 0..(MaxLen - 1) /\ e.index < a
<1>1. CASE a < b /\ e = Upgrade(a, b)
  <2>1. UpgradeNodes(a, b) \subseteq TreeNodes
    BY DEF UpgradeNodes
  <2> QED BY <1>1, <2>1 DEF Upgrade, EntryType, UpgradeType
<1>2. CASE a = b /\ \E i \in 0..(a - 1), anchor \in TreeNodes : e = Block(i, anchor)
  <2>1. PICK i \in 0..(a - 1), anchor \in TreeNodes : e = Block(i, anchor)
    BY <1>2
  <2>2. BlockNodes(i, anchor) \subseteq TreeNodes
    BY DEF BlockNodes, Path
  <2>3. i \in 0..(MaxLen - 1) /\ i < a
    BY StoreAssumption
  <2> QED BY <1>2, <2>1, <2>2, <2>3 DEF Block, EntryType, BlockType
<1> QED BY <1>1, <1>2 DEF Extends

\* Memory m after the first k entries.
RecoveredTo(m, k, L) ==
  /\ m.ok = TRUE /\ m.len = L[k] /\ m.man = Newest.man /\ m.slots = Bits
  /\ m.held = bitmap \cup BlocksIn(log, 1, k) /\ m.fresh = NodesIn(log, 1, k)
  /\ m.cut = NoCut /\ m.blanked = {} /\ m.end = 0 /\ m.skip = 0 /\ m.over = FALSE
  /\ 0..(m.contig - 1) \subseteq m.held
  /\ m.contig \in m.held => m.contig \in BlocksIn(log, k + 1, Len(log))

(* Replaying the next entry leads from what the entries before it recover  *)
(* to what it recovers.                                                    *)
LEMMA RecoverEntry ==
  ASSUME Types, NEW L, Chain(L), NEW k \in 1..Len(log), NEW m \in CoreType,
         RecoveredTo(m, k - 1, L)
  PROVE  RecoveredTo(Replay(m, log[k]), k, L)
<1> DEFINE e == log[k]
           m1 == AddNodes(m, e.nodes)
           a == L[k - 1]
           b == L[k]
<1>1. Len(log) \in Nat /\ k \in Int
  BY DEF Types
<1>2. a \in 0..MaxLen /\ b \in 0..MaxLen /\ Extends(e, a, b)
  <2>1. k \in 0..Len(log) /\ k - 1 \in 0..Len(log)
    BY <1>1
  <2>2. L \in [0..Len(log) -> 0..MaxLen] /\ Extends(log[k], L[k - 1], L[k])
    BY DEF Chain
  <2> QED BY <2>1, <2>2
<1>3. /\ e \in EntryType /\ e.nodes \subseteq TreeNodes
      /\ \/ /\ e.kind = "upgrade" /\ a < b /\ e.ancestors = a /\ e.length = b
            /\ e.nodes = UpgradeNodes(a, b)
         \/ /\ e.kind = "block" /\ a = b /\ e.index \in 0..(MaxLen - 1) /\ e.index < a
  <2> HIDE DEF a, b, e
  <2> QED BY <1>2, EntryShape
<1>4. /\ BlocksIn(log, 1, k) = BlocksIn(log, 1, k - 1) \cup BlocksIn(log, k, k)
      /\ NodesIn(log, 1, k) = NodesIn(log, 1, k - 1) \cup NodesIn(log, k, k)
  <2>1. 1 <= (k - 1) + 1 /\ k - 1 <= k /\ (k - 1) + 1 = k /\ k - 1 \in Int
    BY <1>1
  <2> QED BY <1>1, <2>1, EntriesSplit
<1>5. BlocksIn(log, k, Len(log)) = BlocksIn(log, k, k) \cup BlocksIn(log, k + 1, Len(log))
  BY <1>1, EntriesSplit
<1>6. /\ BlocksIn(log, k, k) = IF e.kind = "block" THEN {e.index} ELSE {}
      /\ NodesIn(log, k, k) = e.nodes
  BY <1>1, OneEntry
<1>7. (k - 1) + 1 = k
  BY <1>1
<1> HIDE DEF e, a, b
<1>8. /\ m1 \in CoreType /\ m1.fresh = m.fresh \cup e.nodes /\ m1.blanked = {}
      /\ m1.ok = TRUE /\ m1.len = a /\ m1.man = Newest.man /\ m1.slots = Bits
      /\ m1.held = m.held /\ m1.contig = m.contig
      /\ m1.cut = NoCut /\ m1.end = 0 /\ m1.skip = 0 /\ m1.over = FALSE
  BY <1>3 DEF AddNodes, CoreType, RecoveredTo, a
<1> HIDE DEF m1
<1>9. CASE e.kind = "block"
  <2>1. e.index \in 0..(MaxLen - 1) /\ a = b
    BY <1>3, <1>9
  <2>2. Replay(m, e) = AddBlock(m1, e.index)
    BY <1>9 DEF Replay, RecoveredTo, m1
  <2>3. PICK c \in 0..MaxLen :
          /\ AddBlock(m1, e.index) = Held(m1, e.index, c)
          /\ 0..(m1.contig - 1) \subseteq m1.held => 0..(c - 1) \subseteq m1.held \cup {e.index}
          /\ c \in m1.held \cup {e.index} => c = m1.contig /\ c # e.index
    BY <1>8, <2>1, BlockAdded
  <2> DEFINE r == Held(m1, e.index, c)
  <2>4. /\ r.fresh = m1.fresh /\ r.blanked = {}
        /\ r.ok = TRUE /\ r.len = b /\ r.man = Newest.man /\ r.slots = Bits
        /\ r.held = m1.held \cup {e.index} /\ r.contig = c
        /\ r.cut = NoCut /\ r.end = 0 /\ r.skip = 0 /\ r.over = FALSE
    BY <1>8, <2>1 DEF Held, CoreType
  <2> HIDE DEF r
  <2>5. r.held = bitmap \cup BlocksIn(log, 1, k) /\ r.fresh = NodesIn(log, 1, k)
    BY <1>4, <1>6, <1>8, <1>9, <2>4 DEF RecoveredTo
  <2>6. 0..(c - 1) \subseteq m1.held \cup {e.index}
    BY <1>8, <2>3 DEF RecoveredTo
  <2>7. ASSUME c \in m1.held \cup {e.index} PROVE c \in BlocksIn(log, k + 1, Len(log))
    <3>1. c = m.contig /\ c # e.index /\ c \in m.held
      BY <1>8, <2>3, <2>7
    <3>2. c \in BlocksIn(log, k, Len(log))
      BY <1>7, <3>1 DEF RecoveredTo
    <3> QED BY <1>5, <1>6, <1>9, <3>1, <3>2
  <2> QED BY <2>2, <2>3, <2>4, <2>5, <2>6, <2>7 DEF RecoveredTo, r, e, b
<1>10. CASE e.kind = "upgrade"
  <2>1. e.ancestors = a /\ e.length = b /\ a < b /\ e.nodes = UpgradeNodes(a, b)
    BY <1>3, <1>10
  <2>2. \A r \in Roots(b) \ Roots(m.len) : Has(m1, r)
    <3>1. Roots(b) \subseteq Roots(a) \cup UpgradeNodes(a, b)
      BY <1>2, <2>1, RootsGrow
    <3> QED BY <1>8, <2>1, <3>1 DEF Has, RecoveredTo, a
  <2>3. Grow(m1, a, b) = Longer(m1, b)
    BY <1>2, <1>8, GrowType
  <2>4. Replay(m, e) = [Longer(m1, b) EXCEPT !.ok = TRUE]
    BY <1>10, <2>1, <2>2, <2>3 DEF Replay, RecoveredTo, m1
  <2> DEFINE r == Replay(m, e)
  <2>5. /\ r.fresh = m1.fresh /\ r.blanked = {}
        /\ r.ok = TRUE /\ r.len = b /\ r.man = Newest.man /\ r.slots = Bits
        /\ r.held = m.held /\ r.contig = m.contig
        /\ r.cut = NoCut /\ r.end = 0 /\ r.skip = 0 /\ r.over = FALSE
    BY <1>2, <1>8, <2>4 DEF Longer, CoreType
  <2> HIDE DEF r
  <2>6. r.held = bitmap \cup BlocksIn(log, 1, k) /\ r.fresh = NodesIn(log, 1, k)
    BY <1>4, <1>6, <1>8, <1>10, <2>5 DEF RecoveredTo
  <2>7. r.contig \in r.held => r.contig \in BlocksIn(log, k + 1, Len(log))
    BY <1>5, <1>6, <1>7, <1>10, <2>5 DEF RecoveredTo
  <2>8. 0..(r.contig - 1) \subseteq r.held
    BY <2>5 DEF RecoveredTo
  <2> QED BY <2>5, <2>6, <2>7, <2>8 DEF RecoveredTo, r, e, b
<1> QED BY <1>3, <1>9, <1>10

(* Opening faithful files gives the core that was in memory, but for the   *)
(* hint, which is right again, and the counters, which start over.         *)
LEMMA Recovers ==
  ASSUME Types, Faithful
  PROVE  /\ Recovered \in CoreType
         /\ Recovered.ok = TRUE /\ Recovered.len = mem.len /\ Recovered.man = Newest.man
         /\ Recovered.slots = Bits /\ Recovered.held = mem.held
         /\ Recovered.fresh = NodesIn(log, 1, Len(log))
         /\ Recovered.cut = NoCut /\ Recovered.blanked = {}
         /\ Recovered.end = 0 /\ Recovered.skip = 0 /\ Recovered.over = FALSE
         /\ 0..(Recovered.contig - 1) \subseteq Recovered.held
              /\ Recovered.contig \notin Recovered.held
<1> DEFINE n == Len(log)
<1>1. PICK L \in [0..Len(log) -> 0..MaxLen] : Chain(L)
  BY DEF Faithful
<1> DEFINE S == {k \in 0..n : RecoveredTo(Replayed[k], k, L)}
<1>2. n \in Nat
  BY ReplayedSteps
<1>3. 0 \in S
  <2>1. BlocksIn(log, 1, 0) = {} /\ NodesIn(log, 1, 0) = {}
    BY NoEntries
  <2>2. Opened = Core(TRUE, Newest, Bits, bitmap)
    BY NewestType DEF Faithful
  <2>3. RecoveredTo(Opened, 0, L)
    BY <1>1, <2>1, <2>2 DEF RecoveredTo, Core, Chain, Faithful
  <2> QED BY <1>2, <2>3, ReplayedSteps
<1>4. ASSUME NEW k \in 1..n, k - 1 \in S PROVE k \in S
  <2>1. k - 1 \in 0..n /\ k \in 0..n
    BY <1>2
  <2>2. RecoveredTo(Replay(Replayed[k - 1], log[k]), k, L)
    BY <1>1, <1>4, <2>1, RecoverEntry, ReplayedSteps
  <2> QED BY <2>1, <2>2, ReplayedSteps
<1> HIDE DEF S, n
<1>5. 0..n \subseteq S
  BY <1>2, <1>3, <1>4, SetInductionTo
<1>6. n \in S
  BY <1>2, <1>5
<1>7. RecoveredTo(Recovered, n, L)
  BY <1>6 DEF S, n, Recovered
<1>8. BlocksIn(log, n + 1, n) = {}
  BY <1>2, NoEntries
<1>9. Recovered \in CoreType
  BY <1>2, ReplayedSteps DEF Recovered, n
<1> QED BY <1>1, <1>7, <1>8, <1>9 DEF RecoveredTo, Chain, Faithful, n

----------------------------------------------------------------------------
(* The operations.                                                         *)

(* While nothing is blanked or cut, a node is found on disk or among the   *)
(* unflushed ones.                                                         *)
LEMMA KnownNodes ==
  ASSUME Types, MemoryRight
  PROVE  /\ \A n : Has(mem, n) <=> n \in Known
         /\ Kept = tree
BY DEF MemoryRight, Has, Known, Kept

(* A slot that is written is not blank.                                    *)
LEMMA HeaderWritten ==
  ASSUME NEW h \in HeaderType
  PROVE  LET g == [h EXCEPT !.blank = FALSE]
         IN  /\ g \in HeaderType /\ g.bit = h.bit /\ g.len = h.len /\ g.contig = h.contig
             /\ g.man = h.man /\ g.blank = FALSE
BY DEF HeaderType

(* It holds of a new core.                                                 *)
LEMMA InitRight == ASSUME Benign, Init PROVE StoreInv
<1> DEFINE h == [NoHeader EXCEPT !.blank = FALSE]
<1>1. MaxLen \in Nat \ {0} /\ NoCut \in 0..NoCut /\ MaxCrashes \in Nat
  BY StoreAssumption DEF NoCut
<1>2. NoHeader \in HeaderType
  BY <1>1 DEF NoHeader, HeaderType
<1>3. /\ h \in HeaderType /\ h.bit = FALSE /\ h.len = 0 /\ h.contig = 0
      /\ h.man = FALSE /\ h.blank = FALSE
  <2>1. /\ NoHeader.bit = FALSE /\ NoHeader.len = 0 /\ NoHeader.contig = 0
        /\ NoHeader.man = FALSE
    BY DEF NoHeader
  <2> QED BY <1>2, <2>1, HeaderWritten
<1>4. /\ hdr = <<h, NoHeader>> /\ log = <<>> /\ tree = {} /\ bitmap = {} /\ data = {}
      /\ mem = Core(TRUE, NoHeader, <<FALSE, FALSE>>, {})
      /\ op = NoOp /\ step = "idle" /\ crashes = 0
  BY DEF Init
<1> HIDE DEF h
<1>5. hdr \in [1..2 -> HeaderType] /\ hdr[1] = h /\ hdr[2] = NoHeader
  BY <1>2, <1>3, <1>4
<1>6. Bits = <<FALSE, FALSE>> /\ Bits[1] = FALSE /\ Bits[2] = FALSE
  <2>1. NoHeader.blank = TRUE
    BY DEF NoHeader
  <2>2. Bits = <<hdr[1].bit, hdr[1].bit>>
    BY <1>5, <2>1 DEF Bits
  <2> QED BY <1>3, <1>5, <2>2
<1>7. Newest = h
  BY <1>5, <1>6 DEF Newest
<1>8. /\ mem.ok = TRUE /\ mem.len = 0 /\ mem.contig = 0 /\ mem.man = FALSE
      /\ mem.slots = Bits /\ mem.held = {} /\ mem.fresh = {} /\ mem.blanked = {}
      /\ mem.cut = NoCut /\ mem.end = 0 /\ mem.over = FALSE /\ mem.skip = 0
  BY <1>4, <1>6 DEF Core, NoHeader
<1>9. mem \in CoreType
  <2>1. Bits \in [1..2 -> BOOLEAN]
    <3>1. hdr[1].bit \in BOOLEAN /\ hdr[2].bit \in BOOLEAN
      BY <1>5 DEF HeaderType
    <3> QED BY <3>1 DEF Bits
  <2>2. mem = Core(TRUE, NoHeader, Bits, bitmap) /\ bitmap \in SUBSET (0..(MaxLen - 1))
    BY <1>4, <1>6
  <2>3. NoHeader.len \in 0..MaxLen /\ NoHeader.contig \in 0..MaxLen /\ NoHeader.man \in BOOLEAN
    BY <1>1 DEF NoHeader
  <2> QED BY <1>1, <2>1, <2>2, <2>3 DEF Core, CoreType
<1>10. Len(log) = 0 /\ BlocksIn(log, 1, Len(log)) = {} /\ NodesIn(log, 1, Len(log)) = {}
  <2>1. Len(log) = 0
    BY <1>4
  <2> QED BY <2>1, NoEntries
<1>11. Roots(0) = {}
  BY NodeType DEF Roots
<1>12. Types
  <2>1. log \in Seq(EntryType \cup {Torn}) /\ op \in EntryType \cup {NoOp}
    BY <1>4
  <2>2. step \in Steps /\ crashes \in 0..MaxCrashes
    BY <1>1, <1>4 DEF Steps
  <2>3. tree \subseteq TreeNodes /\ bitmap \subseteq 0..(MaxLen - 1)
          /\ data \subseteq 0..(MaxLen - 1)
    BY <1>4
  <2> QED BY <1>5, <1>9, <2>1, <2>2, <2>3 DEF Types
<1>13. MemoryRight
  BY <1>8, <1>11 DEF MemoryRight
<1>14. Stages
  <2>1. mem.end + mem.skip <= 3 /\ mem.end = Len(log)
    BY <1>8, <1>10
  <2>3. mem.man = Newest.man
    BY <1>3, <1>7, <1>8, Zenon
  <2>2. step = "idle" /\ mem.slots = Bits /\ ~mem.over
    BY <1>4, <1>8
  <2> QED BY <2>1, <2>2, <2>3 DEF Stages
<1>15. Faithful
  <2>1. [k \in 0..0 |-> 0] \in [0..0 -> 0..MaxLen]
    BY <1>1
  <2>2. Chain([k \in 0..0 |-> 0])
    BY <1>1, <1>3, <1>7, <1>8, <1>10 DEF Chain
  <2>3. \E L \in [0..Len(log) -> 0..MaxLen] : Chain(L)
    BY <1>10, <2>1, <2>2
  <2>4. /\ 0..(Newest.contig - 1) \subseteq bitmap /\ Newest.contig \notin bitmap
        /\ Newest.len = 0 /\ Roots(Newest.len) \subseteq tree
    BY <1>3, <1>4, <1>7, <1>11
  <2>5. bitmap \cup BlocksIn(log, 1, Len(log)) = mem.held
          /\ tree \cup NodesIn(log, 1, Len(log)) = Known
    BY <1>4, <1>8, <1>10 DEF Known
  <2> QED BY <1>4, <2>3, <2>4, <2>5 DEF Faithful
<1> QED BY <1>12, <1>13, <1>14, <1>15 DEF StoreInv

(* What makes the files faithful still does when none but the nodes and the *)
(* bitfield are written.                                                    *)
LEMMA StillFaithful ==
  ASSUME Faithful, UNCHANGED <<hdr, log>>, mem'.len = mem.len, mem'.held = mem.held,
         bitmap' = bitmap \/ bitmap' = mem.held, tree \subseteq tree',
         tree' \subseteq Known, Known' = Known
  PROVE  Faithful'
<1>1. Newest' = Newest
  BY DEF Newest, Bits
<1>2. PICK L \in [0..Len(log) -> 0..MaxLen] : Chain(L)
  BY DEF Faithful
<1>3. Chain(L)'
  BY <1>1, <1>2 DEF Chain
<1>4. tree' \cup NodesIn(log, 1, Len(log)) = Known'
  BY DEF Faithful
<1>5. /\ 0..(Newest.contig - 1) \subseteq bitmap'
      /\ Newest.contig \in bitmap' => Newest.contig \in BlocksIn(log, 1, Len(log))
      /\ bitmap' \cup BlocksIn(log, 1, Len(log)) = mem'.held
  BY DEF Faithful
<1>6. Roots(Newest.len) \subseteq tree'
  BY DEF Faithful
<1>7. \E K \in [0..Len(log') -> 0..MaxLen] : Chain(K)'
  BY <1>2, <1>3
<1> QED BY <1>1, <1>4, <1>5, <1>6, <1>7 DEF Faithful

(* An upgrade to be applied extends the chain of lengths.                  *)
LEMMA ApplyUpgradeKeeps ==
  ASSUME StoreInv, NEW n \in 1..MaxLen, ApplyUpgrade(n)
  PROVE  StoreInv'
<1>1. /\ step = "idle" /\ mem.man /\ n > mem.len /\ op' = Upgrade(mem.len, n) /\ step' = "entry"
      /\ hdr' = hdr /\ log' = log /\ tree' = tree /\ bitmap' = bitmap /\ data' = data
      /\ mem' = mem /\ crashes' = crashes
  BY DEF ApplyUpgrade, disk
<1>2. Types /\ MemoryRight /\ Stages /\ Benign /\ ~mem.over /\ Faithful
  BY <1>1 DEF StoreInv, Stages
<1>3. mem.len \in 0..MaxLen /\ n \in 0..MaxLen /\ mem.len < n
  BY <1>1, <1>2, StoreAssumption DEF Types, CoreType
<1>4. Extends(op', mem.len, n)
  BY <1>1, <1>3 DEF Extends
<1>5. op' \in EntryType /\ op'.kind = "upgrade"
  BY <1>3, <1>4, EntryShape
<1>6. Types'
  BY <1>1, <1>2, <1>5 DEF Types, Steps
<1>7. MemoryRight'
  BY <1>1, <1>2 DEF MemoryRight, Known
<1>8. Newest' = Newest /\ Bits' = Bits
  BY <1>1 DEF Newest, Bits
<1>9. Stages'
  BY <1>1, <1>2, <1>3, <1>4, <1>5, <1>8 DEF Stages
<1>10. Faithful'
  BY <1>1, <1>2, StillFaithful DEF Known
<1> QED BY <1>2, <1>6, <1>7, <1>9, <1>10 DEF StoreInv

(* A block to be applied has its value, and will have its nodes.           *)
LEMMA ApplyBlockKeeps ==
  ASSUME StoreInv, NEW i \in 0..(MaxLen - 1), ApplyBlock(i)
  PROVE  StoreInv'
<1>1. PICK anchor \in Anchor(i) :
        /\ step = "idle" /\ i < mem.len /\ \A n \in OffsetNodes(anchor, mem.len) : Has(mem, n)
        /\ op' = Block(i, anchor) /\ data' = data \cup {i} /\ step' = "entry"
        /\ hdr' = hdr /\ log' = log /\ tree' = tree /\ bitmap' = bitmap
        /\ mem' = mem /\ crashes' = crashes
  BY DEF ApplyBlock
<1>2. Types /\ MemoryRight /\ Stages /\ Benign /\ ~mem.over /\ Faithful
  BY <1>1 DEF StoreInv, Stages
<1>3. mem.len \in 0..MaxLen /\ mem.len > 0 /\ i \in 0..(mem.len - 1)
  BY <1>1, <1>2, StoreAssumption DEF Types, CoreType
<1>4. anchor \in Path(i) /\ anchor \in TreeNodes
  BY DEF Anchor, Path
<1>5. Extends(op', mem.len, mem.len)
  BY <1>1, <1>3, <1>4 DEF Extends
<1>6. op' \in EntryType /\ op'.kind = "block"
  <2>1. op' \in EntryType
    BY <1>3, <1>5, EntryShape
  <2> QED BY <1>1, <2>1 DEF Block
<1>7. op'.index = i /\ op'.nodes = BlockNodes(i, anchor)
  BY <1>1 DEF Block
<1>8. Placed(i, mem.len, Known \cup op'.nodes)
  <2>1. OffsetNodes(anchor, mem.len) \subseteq Known
    BY <1>1, <1>2, KnownNodes
  <2>2. /\ Leaf(i) \in BlockNodes(i, anchor)
        /\ OffsetNodes(Leaf(i), mem.len) \subseteq Known \cup BlockNodes(i, anchor)
    BY <1>3, <1>4, <2>1, BlockPlaced
  <2> QED BY <1>7, <2>2 DEF Placed
<1>9. Types'
  BY <1>1, <1>2, <1>6 DEF Types, Steps
<1>10. MemoryRight'
  BY <1>1, <1>2 DEF MemoryRight, Known
<1>11. Newest' = Newest /\ Bits' = Bits /\ Known' = Known
  BY <1>1 DEF Newest, Bits, Known
<1>12. Stages'
  <2>1. mem.man
    BY <1>2, <1>3 DEF MemoryRight
  <2>2. op'.index \in data' /\ Placed(op'.index, mem'.len, Known' \cup op'.nodes)
    BY <1>1, <1>7, <1>8, <1>11
  <2>3. \E b \in 0..MaxLen : Extends(op', mem'.len, b)
    BY <1>1, <1>3, <1>5
  <2> QED BY <1>1, <1>2, <1>11, <2>1, <2>2, <2>3 DEF Stages
<1>13. Faithful'
  BY <1>1, <1>2, <1>11, StillFaithful DEF Known
<1> QED BY <1>2, <1>9, <1>10, <1>12, <1>13 DEF StoreInv

(* The manifest changes nothing but itself.                                *)
LEMMA SetManifestKeeps == ASSUME StoreInv, SetManifest PROVE StoreInv'
<1>1. /\ step = "idle" /\ mem' = [mem EXCEPT !.man = TRUE] /\ step' = "bits"
      /\ hdr' = hdr /\ log' = log /\ tree' = tree /\ bitmap' = bitmap /\ data' = data
      /\ op' = op /\ crashes' = crashes
  BY DEF SetManifest, disk
<1>2. Types /\ MemoryRight /\ Stages /\ Benign /\ ~mem.over /\ Faithful /\ mem \in CoreType
  BY <1>1 DEF StoreInv, Stages, Types
<1>3. /\ mem' \in CoreType /\ mem'.ok = mem.ok /\ mem'.len = mem.len /\ mem'.contig = mem.contig
      /\ mem'.man = TRUE /\ mem'.slots = mem.slots /\ mem'.held = mem.held
           /\ mem'.fresh = mem.fresh
      /\ mem'.blanked = mem.blanked /\ mem'.cut = mem.cut /\ mem'.over = mem.over
  BY <1>1, <1>2 DEF CoreType
<1>4. Types'
  BY <1>1, <1>2, <1>3 DEF Types, Steps
<1>5. Known' = Known /\ Newest' = Newest /\ Bits' = Bits
  BY <1>1, <1>3 DEF Known, Newest, Bits
<1>6. MemoryRight'
  BY <1>1, <1>2, <1>3, <1>5 DEF MemoryRight
<1>7. Stages'
  BY <1>1, <1>2, <1>3, <1>5 DEF Stages
<1>8. Faithful'
  BY <1>1, <1>2, <1>3, <1>5, StillFaithful DEF Known
<1> QED BY <1>2, <1>4, <1>6, <1>7, <1>8 DEF StoreInv

(* A bitfield that is flushed says what the entries behind the header say. *)
LEMMA FlushBitfieldKeeps == ASSUME StoreInv, FlushBitfield PROVE StoreInv'
<1>1. /\ step = "bits" /\ bitmap' = mem.held /\ step' = "nodes"
      /\ hdr' = hdr /\ log' = log /\ tree' = tree /\ data' = data
      /\ mem' = mem /\ op' = op /\ crashes' = crashes
  BY DEF FlushBitfield
<1>2. Types /\ MemoryRight /\ Stages /\ Benign /\ (~mem.over => Faithful)
  BY <1>1 DEF StoreInv
<1>3. Types'
  <2>1. mem.held \subseteq 0..(MaxLen - 1)
    BY <1>2 DEF Types, CoreType
  <2> QED BY <1>1, <1>2, <2>1 DEF Types, Steps
<1>4. Known' = Known /\ Newest' = Newest /\ Bits' = Bits
  BY <1>1 DEF Known, Newest, Bits
<1>5. MemoryRight'
  BY <1>1, <1>2, <1>4 DEF MemoryRight
<1>6. Stages'
  BY <1>1, <1>2, <1>4 DEF Stages
<1>7. ~mem'.over => Faithful'
  BY <1>1, <1>2, <1>4, StillFaithful DEF Known
<1> QED BY <1>2, <1>3, <1>5, <1>6, <1>7 DEF StoreInv

(* The nodes that move from memory to the tree file stay known.            *)
LEMMA FlushTreeKeeps == ASSUME StoreInv, FlushTree PROVE StoreInv'
<1>1. /\ step = "nodes" /\ tree' = Kept \cup mem.fresh /\ step' = "header"
      /\ mem' = [mem EXCEPT !.fresh = {}, !.blanked = {}, !.cut = NoCut]
      /\ hdr' = hdr /\ log' = log /\ bitmap' = bitmap /\ data' = data
      /\ op' = op /\ crashes' = crashes
  BY DEF FlushTree
<1>2. Types /\ MemoryRight /\ Stages /\ Benign /\ (~mem.over => Faithful) /\ mem \in CoreType
  BY <1>1 DEF StoreInv, Types
<1>3. NoCut \in 0..NoCut
  BY StoreAssumption DEF NoCut
<1>4. /\ mem' \in CoreType /\ mem'.ok = mem.ok /\ mem'.len = mem.len /\ mem'.contig = mem.contig
      /\ mem'.man = mem.man /\ mem'.slots = mem.slots /\ mem'.held = mem.held /\ mem'.fresh = {}
      /\ mem'.blanked = {} /\ mem'.cut = NoCut /\ mem'.over = mem.over
  BY <1>1, <1>2, <1>3 DEF CoreType
<1>5. tree' = tree \cup mem.fresh
  BY <1>1, <1>2, KnownNodes
<1>6. Types'
  <2>1. mem.fresh \subseteq TreeNodes
    BY <1>2 DEF CoreType
  <2> QED BY <1>1, <1>2, <1>4, <1>5, <2>1 DEF Types, Steps
<1>7. Known' = Known /\ Newest' = Newest /\ Bits' = Bits
  BY <1>1, <1>4, <1>5 DEF Known, Newest, Bits
<1>8. MemoryRight'
  BY <1>1, <1>2, <1>4, <1>7 DEF MemoryRight
<1>9. Stages'
  BY <1>1, <1>2, <1>4, <1>7 DEF Stages
<1>10. ~mem'.over => Faithful'
  BY <1>1, <1>2, <1>4, <1>5, <1>7, StillFaithful DEF Known
<1> QED BY <1>2, <1>6, <1>8, <1>9, <1>10 DEF StoreInv

(* A header, once written, is the newest, and says what memory says.       *)
LEMMA WriteHeaderKeeps == ASSUME StoreInv, WriteHeader PROVE StoreInv'
<1> DEFINE slot == IF mem.slots[1] # mem.slots[2] THEN 1 ELSE 2
           bit == ~mem.slots[slot]
           h == Header(bit, mem)
<1>1. /\ step = "header" /\ hdr' = [hdr EXCEPT ![slot] = h] /\ step' = "cut"
      /\ mem' = [mem EXCEPT !.slots[slot] = bit, !.end = 0, !.over = FALSE]
      /\ log' = log /\ tree' = tree /\ bitmap' = bitmap /\ data' = data
      /\ op' = op /\ crashes' = crashes
  BY DEF WriteHeader
<1>2. Types /\ MemoryRight /\ Stages /\ Benign /\ mem \in CoreType
  BY DEF StoreInv, Types
<1>3. /\ slot \in 1..2 /\ bit \in BOOLEAN /\ mem.slots \in [1..2 -> BOOLEAN]
      /\ hdr \in [1..2 -> HeaderType] /\ mem.slots = Bits
  BY <1>1, <1>2 DEF CoreType, Types, Stages
<1>4. /\ h \in HeaderType /\ h.bit = bit /\ h.blank = FALSE
      /\ h.len = mem.len /\ h.contig = mem.contig /\ h.man = mem.man
  BY <1>2, <1>3 DEF Header, HeaderType, CoreType
<1> HIDE DEF bit, h, slot
<1>12. PICK slots \in [1..2 -> BOOLEAN] : slots = [mem.slots EXCEPT ![slot] = bit]
  BY <1>3
<1>13. PICK none \in 0..4 : none = 0
  OBVIOUS
<1>15. PICK no \in BOOLEAN : no = FALSE
  OBVIOUS
<1>14. mem' = [mem EXCEPT !.slots = slots, !.end = none, !.over = no]
  BY <1>1, <1>12, <1>13, <1>15
<1>5. /\ mem' \in CoreType /\ mem'.ok = mem.ok /\ mem'.len = mem.len /\ mem'.contig = mem.contig
      /\ mem'.man = mem.man /\ mem'.held = mem.held /\ mem'.fresh = mem.fresh
      /\ mem'.blanked = mem.blanked /\ mem'.cut = mem.cut /\ mem'.over = FALSE /\ mem'.end = 0
      /\ mem'.slots = slots
  BY <1>2, <1>13, <1>14, <1>15 DEF CoreType
<1>6. hdr' \in [1..2 -> HeaderType]
  BY <1>1, <1>3, <1>4
<1>7. Bits' = mem'.slots /\ Newest' = h
  <2>1. Bits[1] = hdr[1].bit /\ Bits[2] = IF hdr[2].blank THEN hdr[1].bit ELSE hdr[2].bit
    BY DEF Bits
  <2>2. CASE mem.slots[1] # mem.slots[2]
    <3>1. slot = 1 /\ bit = mem.slots[2] /\ hdr[2].blank = FALSE /\ hdr[2].bit = mem.slots[2]
      BY <1>3, <2>1, <2>2 DEF bit, slot, HeaderType
    <3>2. hdr'[1] = h /\ hdr'[2] = hdr[2]
      BY <1>1, <1>3, <3>1
    <3>3. Bits' = <<bit, bit>> /\ Newest' = h
      BY <1>4, <3>1, <3>2 DEF Bits, Newest
    <3>4. mem'.slots = <<bit, bit>>
      BY <1>3, <1>5, <1>12, <3>1
    <3> QED BY <3>3, <3>4
  <2>3. CASE mem.slots[1] = mem.slots[2]
    <3>1. slot = 2 /\ bit = ~mem.slots[1] /\ hdr[1].bit = mem.slots[1]
      BY <1>3, <2>1, <2>3 DEF bit, slot
    <3>2. hdr'[1] = hdr[1] /\ hdr'[2] = h
      BY <1>1, <1>3, <3>1
    <3>3. Bits' = <<mem.slots[1], bit>>
      BY <1>4, <3>1, <3>2 DEF Bits
    <3>4. Newest' = h
      <4>1. Bits'[1] # Bits'[2]
        BY <1>3, <3>1, <3>3
      <4> QED BY <3>2, <4>1 DEF Newest
    <3>5. mem'.slots = <<mem.slots[1], bit>>
      BY <1>3, <1>5, <1>12, <3>1
    <3> QED BY <3>3, <3>4, <3>5
  <2> QED BY <2>2, <2>3
<1>8. Types'
  BY <1>1, <1>2, <1>5, <1>6 DEF Types, Steps
<1>9. Known' = Known
  BY <1>1, <1>5 DEF Known
<1>10. MemoryRight'
  BY <1>1, <1>2, <1>5, <1>9 DEF MemoryRight
<1>11. Stages'
  BY <1>1, <1>2, <1>4, <1>5, <1>7 DEF Stages
<1> QED BY <1>1, <1>2, <1>8, <1>10, <1>11 DEF StoreInv

(* Behind a header that says what memory says no entry is needed.          *)
LEMMA CutLogKeeps == ASSUME StoreInv, CutLog PROVE StoreInv'
<1>1. /\ step = "cut" /\ log' = <<>> /\ step' = "idle"
      /\ hdr' = hdr /\ tree' = tree /\ bitmap' = bitmap /\ data' = data
      /\ mem' = mem /\ op' = op /\ crashes' = crashes
  BY DEF CutLog
<1>2. Types /\ MemoryRight /\ Stages /\ Benign
  BY DEF StoreInv
<1>3. Known' = Known /\ Newest' = Newest /\ Bits' = Bits
  BY <1>1 DEF Known, Newest, Bits
<1>4. /\ bitmap = mem.held /\ mem.fresh = {} /\ mem.end = 0 /\ Newest.len = mem.len
      /\ Newest.contig = mem.contig /\ Newest.man = mem.man /\ mem.slots = Bits /\ ~mem.over
  BY <1>1, <1>2 DEF Stages
<1>5. Len(log') = 0 /\ mem.len \in 0..MaxLen /\ mem.skip \in 0..3
  BY <1>1, <1>2 DEF Types, CoreType
<1>6. BlocksIn(log', 1, Len(log')) = {} /\ NodesIn(log', 1, Len(log')) = {}
  BY <1>5, NoEntries
<1>7. Types'
  BY <1>1, <1>2 DEF Types, Steps
<1>8. MemoryRight'
  BY <1>1, <1>2, <1>3 DEF MemoryRight
<1>9. Stages'
  <2>1. mem.end + mem.skip <= 3 /\ mem.end = Len(log')
    BY <1>4, <1>5
  <2> QED BY <1>1, <1>3, <1>4, <2>1 DEF Stages
<1>10. Faithful'
  <2>1. PICK L \in [0..Len(log') -> 0..MaxLen] : L[0] = mem.len
    <3>1. [k \in 0..0 |-> mem.len] \in [0..0 -> 0..MaxLen]
      BY <1>5
    <3>2. [k \in 0..0 |-> mem.len][0] = mem.len
      OBVIOUS
    <3>3. \E L \in [0..0 -> 0..MaxLen] : L[0] = mem.len
      BY <3>1, <3>2, Zenon
    <3> QED BY <1>5, <3>3
  <2>2. Chain(L)'
    BY <1>1, <1>3, <1>4, <1>5, <2>1 DEF Chain
  <2>3. \E K \in [0..Len(log') -> 0..MaxLen] : Chain(K)'
    BY <2>1, <2>2
  <2>4. Newest.man \/ Newest.len = 0
    BY <1>2, <1>4, <1>5 DEF MemoryRight
  <2>5. Roots(Newest.len) \subseteq tree
    BY <1>2, <1>4 DEF MemoryRight, Known
  <2>6. tree' \cup NodesIn(log', 1, Len(log')) = Known'
    BY <1>1, <1>4, <1>6 DEF Known
  <2>7. /\ 0..(Newest.contig - 1) \subseteq bitmap /\ Newest.contig \notin bitmap
        /\ bitmap \cup BlocksIn(log', 1, Len(log')) = mem.held
    BY <1>2, <1>4, <1>6 DEF MemoryRight
  <2> QED BY <1>1, <1>3, <2>3, <2>4, <2>5, <2>6, <2>7 DEF Faithful
<1> QED BY <1>2, <1>7, <1>8, <1>9, <1>10 DEF StoreInv

(* A power cut takes unflushed nodes, but every one of them is in an       *)
(* entry.                                                                  *)
LEMMA CrashKeeps == ASSUME StoreInv, Crash PROVE StoreInv'
<1>1. /\ Window \in CrashAt /\ step # "down" /\ crashes < MaxCrashes /\ crashes' = crashes + 1
      /\ op' = NoOp /\ step' = "down"
      /\ hdr' = hdr /\ log' = log /\ bitmap' = bitmap /\ data' = data /\ mem' = mem
      /\ (\E some \in SUBSET mem.fresh : tree' = Kept \cup some) \/ tree' = tree
  BY DEF Crash
<1>2. Types /\ MemoryRight /\ Stages /\ Benign /\ mem.over \in BOOLEAN
  BY DEF StoreInv, Types, CoreType
<1>3. ~mem.over /\ step # "cut" /\ Faithful
  <2>1. ~mem.over
    BY <1>1, <1>2 DEF Benign, Window
  <2>2. step # "cut"
    BY <1>1, <1>2, <2>1 DEF Benign, Window
  <2> QED BY <2>1, <2>2 DEF StoreInv
<1>4. tree \subseteq tree' /\ tree' \subseteq Known /\ Known' = Known
  BY <1>1, <1>2, KnownNodes DEF Known
<1>5. Types'
  <2>1. crashes' \in 0..MaxCrashes
    BY <1>1, <1>2, StoreAssumption DEF Types
  <2>2. tree' \subseteq TreeNodes
    BY <1>2, <1>4 DEF Types, CoreType, Known
  <2> QED BY <1>1, <1>2, <2>1, <2>2 DEF Types, Steps
<1>6. MemoryRight'
  BY <1>1, <1>2, <1>4 DEF MemoryRight
<1>7. Stages'
  BY <1>1, <1>3 DEF Stages
<1>8. Faithful'
  BY <1>1, <1>3, <1>4, StillFaithful
<1> QED BY <1>2, <1>5, <1>6, <1>7, <1>8 DEF StoreInv

(* Opening recovers what was in memory, and no entries are over others.    *)
LEMMA OpenKeeps ==
  ASSUME StoreInv, Open
  PROVE  StoreInv' /\ mem'.len = mem.len /\ mem'.held = mem.held
<1>1. /\ step = "down" /\ mem' = Recovered /\ step' = IF mem'.ok THEN "idle" ELSE "down"
      /\ hdr' = hdr /\ log' = log /\ tree' = tree /\ bitmap' = bitmap /\ data' = data
      /\ op' = op /\ crashes' = crashes
  BY DEF Open, disk
<1>2. Types /\ MemoryRight /\ Stages /\ Benign /\ Faithful
  BY <1>1 DEF StoreInv, Stages
<1>3. /\ mem' \in CoreType
      /\ mem'.ok = TRUE /\ mem'.len = mem.len /\ mem'.man = Newest.man
      /\ mem'.slots = Bits /\ mem'.held = mem.held
      /\ mem'.fresh = NodesIn(log, 1, Len(log))
      /\ mem'.cut = NoCut /\ mem'.blanked = {}
      /\ mem'.end = 0 /\ mem'.skip = 0 /\ mem'.over = FALSE
      /\ 0..(mem'.contig - 1) \subseteq mem'.held /\ mem'.contig \notin mem'.held
  BY <1>1, <1>2, Recovers
<1>4. step' = "idle"
  BY <1>1, <1>3
<1>5. Known' = Known /\ Newest' = Newest /\ Bits' = Bits
  BY <1>1, <1>2, <1>3 DEF Known, Newest, Bits, Faithful
<1>6. Types'
  BY <1>1, <1>2, <1>3, <1>4 DEF Types, Steps
<1>7. mem'.len > 0 => mem'.man
  <2>1. ASSUME mem.len > 0, log = <<>>, Newest.len = 0 PROVE FALSE
    <3>1. PICK L \in [0..Len(log) -> 0..MaxLen] : Chain(L)
      BY <1>2 DEF Faithful
    <3>2. Len(log) = 0
      BY <2>1
    <3> QED BY <2>1, <3>1, <3>2 DEF Chain
  <2> QED BY <1>2, <1>3, <2>1 DEF Faithful
<1>8. MemoryRight'
  BY <1>1, <1>2, <1>3, <1>5, <1>7 DEF MemoryRight
<1>9. Stages'
  BY <1>1, <1>3, <1>4, <1>5 DEF Stages
<1>10. Faithful'
  BY <1>1, <1>2, <1>3, <1>5, StillFaithful DEF Known
<1> QED BY <1>2, <1>3, <1>6, <1>8, <1>9, <1>10 DEF StoreInv

(* The entry that is appended makes memory what it says. *)
LEMMA MemoryGrows ==
  ASSUME StoreInv, AppendEntry
  PROVE  /\ mem' \in CoreType /\ MemoryRight' /\ Known' = Known \cup op.nodes /\ op \in EntryType
         /\ mem'.slots = mem.slots /\ mem'.man = mem.man /\ mem'.end = mem.end + 1
         /\ mem'.skip = (IF mem.skip = 0 THEN 3 ELSE mem.skip - 1)
         /\ mem'.over <=> mem.end < Len(log)
         /\ mem.len <= mem'.len /\ Extends(op, mem.len, mem'.len)
         /\ mem'.held = mem.held \cup BlocksIn(<<op>>, 1, 1)
<1> DEFINE m == IF op.kind = "block" THEN AddBlock(mem, op.index)
                                     ELSE Grow(mem, op.ancestors, op.length)
           skip == IF mem.skip = 0 THEN 3 ELSE mem.skip - 1
           over == mem.end < Len(log)
<1>1. /\ step = "entry" /\ tree' = tree /\ data' = data
      /\ mem' = [AddNodes(m, op.nodes) EXCEPT !.end = @ + 1, !.skip = IF @ = 0 THEN 3 ELSE @ - 1, !.over = over]
  BY DEF AppendEntry
<1>2. Types /\ MemoryRight /\ Stages /\ mem \in CoreType
  BY DEF StoreInv, Types
<1>3. /\ mem.len \in 0..MaxLen /\ mem.end \in 0..3 /\ mem.skip \in 0..3 /\ skip \in 0..3
      /\ mem.man = TRUE
  BY <1>1, <1>2, StoreAssumption DEF CoreType, Stages
<1>4. PICK b \in 0..MaxLen : Extends(op, mem.len, b)
  BY <1>1, <1>2 DEF Stages
<1>5. /\ op \in EntryType /\ op.nodes \subseteq TreeNodes
      /\ \/ /\ op.kind = "upgrade" /\ mem.len < b /\ op.ancestors = mem.len /\ op.length = b
            /\ op.nodes = UpgradeNodes(mem.len, b)
         \/ /\ op.kind = "block" /\ mem.len = b /\ op.index \in 0..(MaxLen - 1)
                 /\ op.index < mem.len
  BY <1>3, <1>4, EntryShape
<1>6. /\ BlocksIn(<<op>>, 1, 1) = IF op.kind = "block" THEN {op.index} ELSE {}
      /\ mem.len <= b
  <2> DEFINE s == <<op>>
  <2>1. s[1] = op
    OBVIOUS
  <2>2. mem.len <= b
    BY <1>3, <1>5
  <2> HIDE DEF s
  <2>3. BlocksIn(s, 1, 1) = IF s[1].kind = "block" THEN {s[1].index} ELSE {}
    BY OneEntry
  <2> QED BY <2>1, <2>2, <2>3 DEF s
\* The parts of memory that either kind of entry leaves alone.
<1>7. /\ m \in CoreType /\ m.ok = mem.ok /\ m.man = mem.man /\ m.slots = mem.slots
      /\ m.fresh = mem.fresh /\ m.blanked = mem.blanked /\ m.cut = mem.cut
      /\ m.end = mem.end /\ m.skip = mem.skip /\ m.len = b
      /\ m.held = mem.held \cup BlocksIn(<<op>>, 1, 1)
      /\ 0..(m.contig - 1) \subseteq m.held /\ m.contig \notin m.held
  <2>1. CASE op.kind = "block"
    <3>1. PICK c \in 0..MaxLen :
            /\ AddBlock(mem, op.index) = Held(mem, op.index, c)
            /\ 0..(mem.contig - 1) \subseteq mem.held => 0..(c - 1) \subseteq mem.held \cup {op.index}
            /\ c \in mem.held \cup {op.index} => c = mem.contig /\ c # op.index
      BY <1>2, <1>5, <2>1, BlockAdded
    <3>2. PICK i \in 0..(MaxLen - 1) : i = op.index
      BY <1>5, <2>1
    <3>3. m = Held(mem, i, c)
      BY <2>1, <3>1, <3>2
    <3>4. /\ m \in CoreType /\ m.ok = mem.ok /\ m.man = mem.man /\ m.slots = mem.slots
          /\ m.fresh = mem.fresh /\ m.blanked = mem.blanked /\ m.cut = mem.cut
          /\ m.end = mem.end /\ m.skip = mem.skip /\ m.len = mem.len
          /\ m.held = mem.held \cup {i} /\ m.contig = c
      <4> HIDE DEF m
      <4> QED BY <1>2, <3>3 DEF Held, CoreType
    <3> HIDE DEF m
    <3>5. 0..(c - 1) \subseteq mem.held \cup {i} /\ c \notin mem.held \cup {i}
      BY <1>2, <3>1, <3>2 DEF MemoryRight
    <3> QED BY <1>5, <1>6, <2>1, <3>2, <3>4, <3>5
  <2>2. CASE op.kind = "upgrade"
    <3>1. m = Longer(mem, b)
      BY <1>2, <1>3, <1>5, <2>2, GrowType
    <3>2. /\ m \in CoreType /\ m.ok = mem.ok /\ m.man = mem.man /\ m.slots = mem.slots
          /\ m.fresh = mem.fresh /\ m.blanked = mem.blanked /\ m.cut = mem.cut
          /\ m.end = mem.end /\ m.skip = mem.skip /\ m.len = b
          /\ m.held = mem.held /\ m.contig = mem.contig
      <4> HIDE DEF m
      <4> QED BY <1>2, <3>1 DEF Longer, CoreType
    <3> HIDE DEF m
    <3> QED BY <1>2, <1>6, <2>2, <3>2 DEF MemoryRight
  <2> QED BY <1>5, <2>1, <2>2
<1> HIDE DEF m
<1> DEFINE m1 == AddNodes(m, op.nodes)
<1>8. /\ m1 \in CoreType /\ m1.ok = m.ok /\ m1.man = m.man /\ m1.slots = m.slots
      /\ m1.fresh = m.fresh \cup op.nodes /\ m1.blanked = m.blanked \ op.nodes /\ m1.cut = m.cut
      /\ m1.end = m.end /\ m1.skip = m.skip /\ m1.len = m.len
      /\ m1.held = m.held /\ m1.contig = m.contig
  BY <1>5, <1>7 DEF AddNodes, CoreType
<1> HIDE DEF m1
<1>9. PICK e \in 0..4 : e = mem.end + 1
  BY <1>3
<1>10. PICK s \in 0..3 : s = skip
  BY <1>3
<1>11. PICK o \in BOOLEAN : o = over
  <2>1. over \in BOOLEAN
    OBVIOUS
  <2> HIDE DEF over
  <2> QED BY <2>1
<1> HIDE DEF skip, over
<1>12. mem' = [m1 EXCEPT !.end = e, !.skip = s, !.over = o]
  BY <1>1, <1>7, <1>8, <1>9, <1>10, <1>11 DEF m1, skip
<1>13. /\ mem' \in CoreType /\ mem'.ok = m1.ok /\ mem'.man = m1.man /\ mem'.slots = m1.slots
       /\ mem'.fresh = m1.fresh /\ mem'.blanked = m1.blanked /\ mem'.cut = m1.cut
       /\ mem'.end = e /\ mem'.skip = s /\ mem'.over = o /\ mem'.len = m1.len
       /\ mem'.held = m1.held /\ mem'.contig = m1.contig
  BY <1>8, <1>12 DEF CoreType
<1>14. Known' = Known \cup op.nodes
  BY <1>1, <1>7, <1>8, <1>13 DEF Known
<1>15. MemoryRight'
  <2>1. Roots(b) \subseteq Known'
    <3>1. Roots(b) \subseteq Roots(mem.len) \cup UpgradeNodes(mem.len, b)
      BY <1>3, <1>6, RootsGrow
    <3>2. CASE op.kind = "upgrade"
      BY <1>2, <1>5, <1>14, <3>1, <3>2 DEF MemoryRight
    <3>3. CASE op.kind = "block"
      BY <1>2, <1>5, <1>14, <3>3 DEF MemoryRight
    <3> QED BY <1>5, <3>2, <3>3
  <2>2. ASSUME NEW i \in mem'.held PROVE i \in data' /\ i < b /\ Placed(i, b, Known')
    <3>1. CASE i \in mem.held
      <4>1. i \in data /\ i < mem.len /\ Placed(i, mem.len, Known) /\ i \in 0..(MaxLen - 1)
        BY <1>2, <3>1 DEF MemoryRight, CoreType
      <4>2. OffsetNodes(Leaf(i), b) \subseteq OffsetNodes(Leaf(i), mem.len) \cup Roots(mem.len)
        BY <1>3, <1>6, <4>1, OffsetGrows
      <4>3. Placed(i, b, Known')
        BY <1>2, <1>14, <4>1, <4>2 DEF Placed, MemoryRight
      <4> QED BY <1>1, <1>3, <1>6, <4>1, <4>3
    <3>2. CASE op.kind = "block" /\ i = op.index
      BY <1>1, <1>2, <1>5, <1>14, <3>2 DEF Stages
    <3> QED BY <1>6, <1>7, <1>8, <1>13, <3>1, <3>2
  <2>3. mem'.ok /\ mem'.cut = NoCut /\ mem'.blanked = {} /\ mem'.man /\ mem'.len = b
    BY <1>2, <1>3, <1>7, <1>8, <1>13 DEF MemoryRight
  <2>4. 0..(mem'.contig - 1) \subseteq mem'.held /\ mem'.contig \notin mem'.held
    BY <1>7, <1>8, <1>13
  <2> QED BY <2>1, <2>2, <2>3, <2>4 DEF MemoryRight
<1> QED BY <1>4, <1>5, <1>6, <1>7, <1>8, <1>9, <1>10, <1>11, <1>13, <1>14, <1>15 DEF skip, over

(* The entry of a proof becomes part of the oplog and of memory alike.     *)
LEMMA AppendEntryKeeps ==
  ASSUME StoreInv, AppendEntry
  PROVE  StoreInv'
<1>1. /\ step = "entry" /\ op' = NoOp /\ step' = (IF mem.skip = 0 THEN "bits" ELSE "idle")
      /\ hdr' = hdr /\ tree' = tree /\ bitmap' = bitmap /\ data' = data /\ crashes' = crashes
      /\ \E rest \in Remains(SubSeq(log, mem.end + 1, Len(log)), op) :
            log' = SubSeq(log, 1, mem.end) \o <<op>> \o rest
  BY DEF AppendEntry
<1>2. Types /\ MemoryRight /\ Stages /\ Benign /\ ~mem.over /\ Faithful
  BY <1>1 DEF StoreInv, Stages
<1>3. /\ mem' \in CoreType /\ MemoryRight' /\ Known' = Known \cup op.nodes /\ op \in EntryType
      /\ mem'.slots = mem.slots /\ mem'.man = mem.man /\ mem'.end = mem.end + 1
      /\ mem'.skip = (IF mem.skip = 0 THEN 3 ELSE mem.skip - 1)
      /\ mem'.over <=> mem.end < Len(log)
      /\ mem.len <= mem'.len /\ Extends(op, mem.len, mem'.len)
      /\ mem'.held = mem.held \cup BlocksIn(<<op>>, 1, 1)
  BY MemoryGrows
<1>4. /\ mem.end + mem.skip <= 3 /\ (mem.end = Len(log) \/ (mem.end = 0 /\ mem.skip = 0))
      /\ mem.man /\ mem.man = Newest.man /\ mem.slots = Bits
      /\ mem.end \in 0..4 /\ mem.skip \in 0..3
  BY <1>1, <1>2 DEF Stages, Types, CoreType
<1> DEFINE T == EntryType \cup {Torn}
           n == Len(log)
<1>5. log \in Seq(T) /\ n \in Nat
  BY <1>2 DEF Types
<1>6. CASE mem.end = n
  <2>1. SubSeq(log, mem.end + 1, Len(log)) = <<>> /\ SubSeq(log, 1, mem.end) = log
    BY <1>5, <1>6
  <2>2. Remains(<<>>, op) = {<<>>}
    BY DEF Remains
  <2>3. log' = log \o <<op>> \o <<>>
    <3>1. PICK rest \in Remains(SubSeq(log, mem.end + 1, Len(log)), op) :
            log' = SubSeq(log, 1, mem.end) \o <<op>> \o rest
      BY <1>1
    <3>2. rest \in Remains(<<>>, op)
      BY <2>1, <3>1, Zenon
    <3>3. rest = <<>>
      BY <2>2, <3>2
    <3> QED BY <2>1, <3>1, <3>3, Zenon
  <2>4. log' = Append(log, op)
    BY <1>3, <1>5, <2>3
  <2>5. /\ log' \in Seq(T) /\ Len(log') = n + 1 /\ log'[n + 1] = op
        /\ \A k \in 1..n : log'[k] = log[k]
    BY <1>3, <1>5, <2>4
  <2> HIDE DEF T, n
  <2>6. Types'
    BY <1>1, <1>2, <1>3, <2>5 DEF Types, Steps, T
  <2>7. Newest' = Newest /\ Bits' = Bits /\ ~mem'.over
    BY <1>1, <1>3, <1>5, <1>6 DEF Newest, Bits, n
  <2>8. Stages'
    <3>1. ASSUME step' = "idle" PROVE mem'.end + mem'.skip <= 3 /\ mem'.end = Len(log')
      <4>1. mem.skip # 0
        BY <1>1, <3>1
      <4>2. mem'.skip = mem.skip - 1 /\ mem'.end = mem.end + 1
        BY <1>3, <4>1
      <4> QED BY <1>4, <1>6, <2>5, <4>2
    <3> QED BY <1>1, <1>3, <1>4, <2>7, <3>1 DEF Stages
  <2>9. /\ BlocksIn(log', 1, n + 1) = BlocksIn(log, 1, n) \cup BlocksIn(<<op>>, 1, 1)
        /\ NodesIn(log', 1, n + 1) = NodesIn(log, 1, n) \cup op.nodes
    <3>1. /\ BlocksIn(log', 1, n + 1) = BlocksIn(log', 1, n) \cup BlocksIn(log', n + 1, n + 1)
          /\ NodesIn(log', 1, n + 1) = NodesIn(log', 1, n) \cup NodesIn(log', n + 1, n + 1)
      BY <1>5, EntriesSplit
    <3>2. BlocksIn(log', 1, n) = BlocksIn(log, 1, n) /\ NodesIn(log', 1, n) = NodesIn(log, 1, n)
      BY <2>5 DEF BlocksIn, NodesIn
    <3>3. /\ BlocksIn(log', n + 1, n + 1) = IF op.kind = "block" THEN {op.index} ELSE {}
          /\ NodesIn(log', n + 1, n + 1) = op.nodes
      <4>1. n + 1 \in Int
        BY <1>5
      <4>2. /\ BlocksIn(log', n + 1, n + 1) = IF log'[n + 1].kind = "block" THEN {log'[n + 1].index} ELSE {}
            /\ NodesIn(log', n + 1, n + 1) = log'[n + 1].nodes
        BY <4>1, OneEntry
      <4> QED BY <2>5, <4>2
    <3>4. BlocksIn(<<op>>, 1, 1) = IF op.kind = "block" THEN {op.index} ELSE {}
      <4> DEFINE s == <<op>>
      <4>1. s[1] = op /\ 1 \in Int
        OBVIOUS
      <4> HIDE DEF s
      <4>2. BlocksIn(s, 1, 1) = IF s[1].kind = "block" THEN {s[1].index} ELSE {}
        BY <4>1, OneEntry
      <4>3. BlocksIn(s, 1, 1) = IF op.kind = "block" THEN {op.index} ELSE {}
        BY <4>1, <4>2
      <4> QED BY <4>3 DEF s
    <3> QED BY <3>1, <3>2, <3>3, <3>4
  <2>10. Faithful'
    <3>1. PICK L \in [0..n -> 0..MaxLen] : Chain(L)
      BY <1>2 DEF Faithful, n
    <3>2. mem'.len \in 0..MaxLen
      BY <1>3 DEF CoreType
    <3>3. PICK K \in [0..(n + 1) -> 0..MaxLen] :
            K[n + 1] = mem'.len /\ \A k \in 0..n : K[k] = L[k]
      <4> DEFINE K == [k \in 0..(n + 1) |-> IF k = n + 1 THEN mem'.len ELSE L[k]]
      <4>1. K \in [0..(n + 1) -> 0..MaxLen]
        BY <1>5, <3>1, <3>2
      <4>2. K[n + 1] = mem'.len /\ \A k \in 0..n : K[k] = L[k]
        BY <1>5
      <4> HIDE DEF K
      <4> QED BY <4>1, <4>2
    <3>4. Chain(K)'
      <4>1. ASSUME NEW k \in 1..n PROVE Extends(log'[k], K[k - 1], K[k])
        <5>1. Extends(log[k], L[k - 1], L[k])
          BY <3>1 DEF Chain, n
        <5>2. k \in 0..n /\ k - 1 \in 0..n
          BY <1>5
        <5>3. K[k] = L[k] /\ K[k - 1] = L[k - 1] /\ log'[k] = log[k]
          BY <2>5, <3>3, <5>2
        <5> QED BY <5>1, <5>3
      <4>2. Extends(log'[n + 1], K[(n + 1) - 1], K[n + 1])
        <5>1. (n + 1) - 1 = n /\ K[n] = mem.len
          BY <1>5, <3>1, <3>3 DEF Chain, n
        <5> QED BY <1>3, <2>5, <3>3, <5>1
      <4>3. \A k \in 1..(n + 1) : Extends(log'[k], K[k - 1], K[k])
        <5>1. \A k \in 1..(n + 1) : k \in 1..n \/ k = n + 1
          BY <1>5
        <5> QED BY <4>1, <4>2, <5>1
      <4>4. K[0] = Newest.len
        BY <1>5, <3>1, <3>3 DEF Chain
      <4> QED BY <2>5, <2>7, <3>3, <4>3, <4>4 DEF Chain
    <3>5. \E J \in [0..Len(log') -> 0..MaxLen] : Chain(J)'
      BY <2>5, <3>3, <3>4
    <3>6. bitmap' \cup BlocksIn(log', 1, Len(log')) = mem'.held
      BY <1>1, <1>2, <1>3, <2>5, <2>9 DEF Faithful, n
    <3>7. tree' \cup NodesIn(log', 1, Len(log')) = Known'
      BY <1>1, <1>2, <1>3, <2>5, <2>9 DEF Faithful, n
    <3>8. Newest.contig \in bitmap => Newest.contig \in BlocksIn(log', 1, Len(log'))
      BY <1>2, <2>5, <2>9 DEF Faithful, n
    <3>9. Newest.man
      BY <1>4
    <3> QED BY <1>1, <1>2, <2>7, <3>5, <3>6, <3>7, <3>8, <3>9 DEF Faithful
  <2> QED BY <1>2, <1>3, <2>6, <2>8, <2>10 DEF StoreInv
<1>7. CASE mem.end # n
  <2>1. mem.end = 0 /\ mem.skip = 0 /\ mem'.over /\ step' = "bits"
    <3>1. mem.end = 0 /\ mem.skip = 0 /\ mem.end < Len(log)
      BY <1>4, <1>5, <1>7
    <3> QED BY <1>1, <1>3, <3>1
  <2>2. log' \in Seq(T)
    <3>1. PICK rest \in Remains(SubSeq(log, mem.end + 1, Len(log)), op) :
            log' = SubSeq(log, 1, mem.end) \o <<op>> \o rest
      BY <1>1
    <3>2. SubSeq(log, 1, 0) = <<>> /\ SubSeq(log, 1, Len(log)) = log
      BY <1>5
    <3>3. rest \in Seq(T)
      <4> HIDE DEF n
      <4>3. SubSeq(log, mem.end + 1, Len(log)) = log
        BY <2>1, <3>2
      <4>4. rest \in Remains(log, op)
        BY <3>1, <4>3, Zenon
      <4>1. rest \in {<<>>, <<Torn>>} \/ \E k \in 0..Len(log) : rest = SubSeq(log, k + 1, Len(log))
        BY <4>4 DEF Remains
      <4>2. \A k \in 0..Len(log) : SubSeq(log, k + 1, Len(log)) \in Seq(T)
        BY <1>5
      <4>5. <<>> \in Seq(T) /\ <<Torn>> \in Seq(T)
        OBVIOUS
      <4> HIDE DEF T
      <4> QED BY <4>1, <4>2, <4>5
    <3> QED BY <1>3, <2>1, <3>1, <3>2, <3>3
  <2>3. Newest' = Newest /\ Bits' = Bits
    BY <1>1 DEF Newest, Bits
  <2> HIDE DEF T, n
  <2>4. Types'
    BY <1>1, <1>2, <1>3, <2>1, <2>2 DEF Types, Steps, T
  <2>5. Stages'
    BY <1>3, <1>4, <2>1, <2>3 DEF Stages
  <2> QED BY <1>2, <1>3, <2>1, <2>4, <2>5 DEF StoreInv
<1> QED BY <1>6, <1>7

(* Every step keeps the invariant.                                         *)
LEMMA StoreKeeps == ASSUME StoreInv, [Next]_vars PROVE StoreInv'
<1>1. ASSUME NEW n \in 1..MaxLen, ApplyUpgrade(n) PROVE StoreInv'
  BY <1>1, ApplyUpgradeKeeps
<1>2. ASSUME NEW i \in 0..(MaxLen - 1), ApplyBlock(i) PROVE StoreInv'
  BY <1>2, ApplyBlockKeeps
<1>3. CASE UNCHANGED vars
  <2>1. /\ hdr' = hdr /\ log' = log /\ tree' = tree /\ bitmap' = bitmap /\ data' = data
        /\ mem' = mem /\ op' = op /\ step' = step /\ crashes' = crashes
    BY <1>3 DEF vars, disk
  <2>2. Known' = Known /\ Newest' = Newest /\ Bits' = Bits
    BY <2>1 DEF Known, Newest, Bits
  <2>3. Types'
    BY <2>1 DEF StoreInv, Types
  <2>4. MemoryRight'
    BY <2>1, <2>2 DEF StoreInv, MemoryRight
  <2>5. Stages'
    BY <2>1, <2>2 DEF StoreInv, Stages
  <2>6. ~mem'.over /\ step' # "cut" => Faithful'
    BY <2>1, <2>2, StillFaithful DEF StoreInv, Known
  <2> QED BY <2>1, <2>3, <2>4, <2>5, <2>6 DEF StoreInv
<1> QED BY <1>1, <1>2, <1>3, AppendEntryKeeps, SetManifestKeeps, FlushBitfieldKeeps,
           FlushTreeKeeps,
     WriteHeaderKeeps, CutLogKeeps, CrashKeeps, OpenKeeps DEF Next

(* For every length of the core and any number of power cuts outside the   *)
(* two windows, the newest header and the entries behind it say what the   *)
(* core in memory is, and every node it rests on is on disk or in an entry *)
(* (core.rs 127-254, oplog/mod.rs 140-200).                                *)
THEOREM StoreInvariant == Benign /\ Spec => []StoreInv
<1>1. Benign /\ Init => StoreInv
  BY InitRight
<1>2. StoreInv /\ [Next]_vars => StoreInv'
  BY StoreKeeps
<1> QED BY <1>1, <1>2, PTL DEF Spec

----------------------------------------------------------------------------
(* The properties.                                                         *)

(* The variables have their types, and the flush counter its bounds. *)
THEOREM StoreTypes == Benign /\ Spec => []TypeOK
<1>1. ASSUME StoreInv PROVE TypeOK
  <2>1. Types
    BY <1>1 DEF StoreInv
  <2>2. hdr \in Seq(HeaderType) /\ Len(hdr) = 2
    <3>1. hdr \in [1..2 -> HeaderType]
      BY <2>1 DEF Types
    <3>2. hdr \in Seq(HeaderType)
      BY <3>1, SeqDef
    <3> QED BY <3>1, <3>2, LenProperties
  <2>3. \A k \in DOMAIN log : log[k].kind \in {"upgrade", "block", "torn"}
    <3>1. \A k \in DOMAIN log : log[k] \in UpgradeType \cup BlockType \cup {Torn}
      BY <2>1 DEF Types, EntryType
    <3> QED BY <3>1 DEF UpgradeType, BlockType, Torn
  <2>4. op.kind \in {"none", "upgrade", "block"}
    BY <2>1 DEF Types, EntryType, UpgradeType, BlockType, NoOp
  <2>5. mem \in CoreType
    BY <2>1 DEF Types
  <2> QED BY <2>1, <2>2, <2>3, <2>4, <2>5 DEF TypeOK, Types, HeaderType, CoreType
<1> QED BY <1>1, StoreInvariant, PTL

(* The hint is the length of the gapless prefix, also after a replay. *)
THEOREM HintRight == Benign /\ Spec => []ContiguousRight
<1>1. ASSUME StoreInv PROVE ContiguousRight
  BY <1>1 DEF StoreInv, MemoryRight, ContiguousRight
<1> QED BY <1>1, StoreInvariant, PTL

(* A core that has a length has its manifest. *)
THEOREM ManifestKept == Benign /\ Spec => []ManifestFirst
<1>1. ASSUME StoreInv PROVE ManifestFirst
  BY <1>1 DEF StoreInv, MemoryRight, ManifestFirst
<1> QED BY <1>1, StoreInvariant, PTL

(* Every block that is held can be read. *)
THEOREM HeldReadable == Benign /\ Spec => []Readable
<1>1. ASSUME StoreInv PROVE Readable
  <2>1. Types /\ MemoryRight
    BY <1>1 DEF StoreInv
  <2> SUFFICES ASSUME NEW i \in mem.held
               PROVE  /\ i \in data
                      /\ \A n \in {Leaf(i)} \cup OffsetNodes(Leaf(i), mem.len) : Has(mem, n)
    BY DEF Readable
  <2>2. i \in data /\ Placed(i, mem.len, Known)
    BY <2>1 DEF MemoryRight
  <2> QED BY <2>1, <2>2, KnownNodes DEF Placed
<1> QED BY <1>1, StoreInvariant, PTL

(* Every block of the verified prefix can be fetched. *)
THEOREM PrefixFetchable == Benign /\ Spec => []Fetchable
<1>1. ASSUME StoreInv PROVE Fetchable
  <2>1. Types /\ MemoryRight /\ mem.len \in 0..MaxLen
    BY <1>1 DEF StoreInv, Types, CoreType
  <2> SUFFICES ASSUME NEW i \in 0..(mem.len - 1) PROVE Anchor(i) # {}
    BY DEF Fetchable
  <2>2. i \in 0..(MaxLen - 1) /\ i < mem.len
    BY <2>1, StoreAssumption
  <2>3. Leaf(i) \in TreeNodes /\ Leaf(i)[2] < mem.len
    BY <2>2, LeafNode DEF Leaf
  <2>4. PICK r \in Roots(mem.len) : Inside(Leaf(i), r)
    BY <2>1, <2>3, RootAbove
  <2>5. r \in TreeNodes /\ r[2] < mem.len /\ r \in Known
    BY <2>1, <2>4 DEF Roots, MemoryRight
  <2>6. r \in Path(i)
    BY <2>4, <2>5 DEF Path
  <2>7. Path(i) \cap Known # {}
    BY <2>5, <2>6
  <2>8. PICK n \in Path(i) \cap Known : \A m \in Path(i) \cap Known : Inside(n, m)
    BY <2>2, <2>7, Lowest
  <2>9. n[2] \in Nat /\ r[2] \in Nat /\ n[2] <= r[2]
    BY <2>5, <2>6, <2>8, NodeType DEF Inside, Path
  <2>10. \A m : Has(mem, m) <=> m \in Known
    BY <2>1, KnownNodes
  <2>11. n \in Anchor(i)
    BY <2>1, <2>5, <2>8, <2>9, <2>10 DEF Anchor
  <2> QED BY <2>11
<1> QED BY <1>1, StoreInvariant, PTL

(* No power cut outside the two windows, however many there are, and nothing *)
(* done after one takes back a length or a block.                            *)
THEOREM NothingLost == Benign /\ Spec => Durable
<1> DEFINE Kept1 == mem'.ok /\ mem.len <= mem'.len /\ mem.held \subseteq mem'.held
<1>1. ASSUME StoreInv, StoreInv', [Next]_vars PROVE [Kept1]_vars
  <2>1. mem'.ok /\ mem \in CoreType /\ mem.len \in 0..MaxLen /\ mem.len <= mem.len
    <3>1. mem'.ok
      BY <1>1 DEF StoreInv, MemoryRight
    <3>2. mem \in CoreType
      BY <1>1 DEF StoreInv, Types
    <3>3. mem.len \in 0..MaxLen /\ MaxLen \in Nat
      BY <3>2, StoreAssumption DEF CoreType
    <3> QED BY <3>1, <3>2, <3>3
  <2>2. CASE AppendEntry
    BY <1>1, <2>1, <2>2, MemoryGrows
  <2>3. CASE Open
    BY <1>1, <2>1, <2>3, OpenKeeps
  <2>4. CASE SetManifest
    BY <2>1, <2>4 DEF SetManifest, CoreType
  <2>5. CASE FlushTree
    BY <2>1, <2>5 DEF FlushTree, CoreType
  <2>6. CASE WriteHeader
    <3>1. mem'.len = mem.len /\ mem'.held = mem.held
      BY <2>1, <2>6 DEF WriteHeader, CoreType
    <3> QED BY <2>1, <3>1
  <2>7. CASE mem' = mem
    BY <2>1, <2>7
  <2>8. CASE Crash \/ CutLog \/ FlushBitfield \/ UNCHANGED vars
                 \/ (\E n \in 1..MaxLen : ApplyUpgrade(n)) \/ \E i \in 0..(MaxLen - 1) : ApplyBlock(i)
    <3>1. mem' = mem
      BY <2>8 DEF Crash, CutLog, FlushBitfield, vars, ApplyUpgrade, ApplyBlock
    <3> QED BY <2>7, <3>1
  <2> QED BY <1>1, <2>2, <2>3, <2>4, <2>5, <2>6, <2>8 DEF Next
<1> QED BY <1>1, StoreInvariant, PTL DEF Spec, Durable
=============================================================================

----------------------------- MODULE CoreStore -----------------------------
(***************************************************************************)
(* How one mirrored core is kept on disk: Hypercore of the vendored        *)
(* hypercore crate over its four files oplog, tree, bitfield and data.     *)
(*                                                                         *)
(* A proof is applied by writing the block's value, then an entry at the   *)
(* end of the oplog, then memory.  Every fourth proof, and the first after *)
(* opening, flushes: the bitfield, the Merkle tree, then a header into the *)
(* older of two slots, after which the oplog is cut back to its headers.   *)
(* Opening reads the newer header and replays the entries behind it.       *)
(*                                                                         *)
(* A step is one call of Storage::flush_infos, except that writing the     *)
(* header and cutting the oplog, one call, are two: a crash may come       *)
(* between any two steps, and in the middle of writing the tree nodes.     *)
(* A single record reaches the disk whole or not at all.                   *)
(*                                                                         *)
(* Hashes, signatures and byte lengths are left out.  The bitfield is one  *)
(* page.  Operations the leaf never calls (append, clear, reorg) are too.  *)
(***************************************************************************)
EXTENDS Integers, Sequences, SequencesExt, FiniteSets

CONSTANTS
  MaxLen,      \* bound: blocks the core ever has
  Height,      \* of the tree, at least log2(MaxLen)
  CrashAt,     \* the windows in which the device may lose power, see Window
  MaxCrashes   \* bound: crashes

Steps == {"idle", "entry", "bits", "nodes", "header", "cut", "down"}

\* Blocks under a node of the tree, by its height.
Width[h \in 0..Height] == IF h = 0 THEN 1 ELSE 2 * Width[h - 1]

ASSUME StoreAssumption ==
  /\ MaxLen \in Nat \ {0} /\ Height \in Nat /\ MaxLen <= Width[Height]
  /\ MaxCrashes \in Nat
  /\ CrashAt \subseteq (Steps \ {"down"}) \cup {"overwritten"}

----------------------------------------------------------------------------
(* The flat tree.  A node is the interval of blocks it spans, <<first,     *)
(* last>>; its index in the tree file is first + last.                     *)

Tree == {<<f, f + k - 1>> : f \in 0..(MaxLen - 1), k \in {Width[h] : h \in 0..Height}}
TreeNodes == {n \in Tree : n[1] % (n[2] - n[1] + 1) = 0 /\ n[2] < MaxLen}

Index(n) == n[1] + n[2]
Leaf(i) == <<i, i>>
Inside(n, m) == m[1] <= n[1] /\ n[2] <= m[2]
Parent(n) ==
  LET k == n[2] - n[1] + 1
  IN  IF n[1] % (2 * k) = 0 THEN <<n[1], n[2] + k>> ELSE <<n[1] - k, n[2]>>
Path(i) == {n \in TreeNodes : Inside(Leaf(i), n)}

\* The full roots of a tree of the given length.
Roots(length) == {n \in TreeNodes : n[2] < length /\ Parent(n)[2] >= length}

\* Mutant: a full root is taken over into the roots but not into the nodes.
UpgradeNodesJoined(a, b) ==
  {n \in TreeNodes : a <= n[2] /\ n[2] < b /\ (n[1] < a \/ Parent(n)[1] < a)}

\* The nodes an upgrade from a to b brings: the largest subtrees of the new
\* blocks, and every node in which they are joined to the old ones.
UpgradeNodes(a, b) ==
  {n \in TreeNodes : /\ a <= n[2] /\ n[2] < b
                     /\ n[1] < a \/ Parent(n)[1] < a \/ Parent(n)[2] >= b}

\* The nodes a block's proof brings: its path up to the node the requester
\* has already, and the siblings along it.
BlockNodes(i, anchor) ==
  LET path == {n \in Path(i) : Inside(n, anchor)}
  IN  path \cup {n \in TreeNodes : Parent(n) \in path}

\* The nodes whose lengths add up to the byte offset of node n: the subtrees
\* to its left under the root that holds it.
OffsetNodes(n, length) ==
  {m \in TreeNodes : /\ m[2] < n[1] /\ Inside(Leaf(n[1]), Parent(m))
                     /\ \E r \in Roots(length) : Inside(n, r) /\ Inside(Parent(m), r)}
----------------------------------------------------------------------------
VARIABLES
  hdr,     \* the oplog's two header slots
  log,     \* the oplog's entries, as a reader that opens the file finds them
  tree,    \* the tree file: the nodes it holds
  bitmap,  \* the bitfield file: the blocks marked as held
  data,    \* the data file: the blocks whose value is in place
  mem,     \* the Hypercore in memory, see Core; while the device is down,
           \* what it was, which only the properties look at
  op,      \* the entry of the proof being applied
  step,    \* the next call of flush_infos; "idle" between operations
  crashes  \* how much of MaxCrashes is used

disk == <<hdr, log, tree, bitmap, data>>
vars == <<disk, mem, op, step, crashes>>

NoHeader == [bit |-> FALSE, len |-> 0, contig |-> 0, man |-> FALSE, blank |-> TRUE]
Header(bit, m) ==
  [bit |-> bit, len |-> m.len, contig |-> m.contig, man |-> m.man, blank |-> FALSE]

Upgrade(a, b) ==
  [kind |-> "upgrade", ancestors |-> a, length |-> b, nodes |-> UpgradeNodes(a, b)]
Block(i, anchor) ==
  [kind |-> "block", index |-> i, nodes |-> BlockNodes(i, anchor)]
Torn == [kind |-> "torn"]   \* bytes whose checksum is wrong
NoOp == [kind |-> "none"]

\* Bytes of an entry, as far as one entry's end can meet another's.
Size(e) == 40 * Cardinality(e.nodes) + (IF e.kind = "upgrade" THEN 67 ELSE 3)
SizeOf(s) == FoldLeft(LAMBDA n, e : n + Size(e), 0, s)

\* What a reader finds behind an entry written over the entries s: nothing
\* when they were shorter; the later ones when it ends where one of them
\* did; otherwise bytes that end the log or fail their checksum.
Remains(s, e) ==
  LET same == {k \in 0..Len(s) : SizeOf(SubSeq(s, 1, k)) = Size(e)}
  IN  IF s = <<>> \/ SizeOf(s) < Size(e) THEN {<<>>}
      ELSE IF same # {} THEN {SubSeq(s, k + 1, Len(s)) : k \in same}
      ELSE {<<>>, <<Torn>>}

----------------------------------------------------------------------------
(* The core in memory.                                                     *)

NoCut == MaxLen + 1   \* MerkleTree.truncated = false

Core(ok, h, slots, held) ==
  [ok |-> ok,                     \* every read and check succeeded
   len |-> h.len, contig |-> h.contig, man |-> h.man,
   slots |-> slots,               \* Oplog.header_bits
   held |-> held,                 \* the bitfield
   fresh |-> {}, blanked |-> {},  \* MerkleTree.unflushed
   cut |-> NoCut,                 \* MerkleTree.truncate_to
   end |-> 0,                     \* Oplog.entries_byte_length, in entries
   over |-> FALSE,                \* an entry lies over unflushed ones (history)
   skip |-> 0]                    \* skip_flush_count

\* Of the two headers the first is newer if their bits agree.
Bits == <<hdr[1].bit, IF hdr[2].blank THEN hdr[1].bit ELSE hdr[2].bit>>
Newest == IF Bits[1] = Bits[2] THEN hdr[1] ELSE hdr[2]

\* What Hypercore::new has read before it replays the oplog.
Opened == Core(Roots(Newest.len) \subseteq tree, Newest, Bits, bitmap)

\* MerkleTree::node finds node n.
Has(m, n) ==
  IF n \in m.fresh THEN m.cut = NoCut \/ Index(n) < 2 * m.cut
                   ELSE n \notin m.blanked /\ n \in tree

AddNodes(m, nodes) == [m EXCEPT !.fresh = @ \cup nodes, !.blanked = @ \ nodes]

\* Mutant: the hint does not run over the blocks that came early.
AddBlockShort(m, i) ==
  [m EXCEPT !.held = @ \cup {i}, !.contig = IF i <= @ /\ @ <= i + 1 THEN i + 1 ELSE @]

\* Bitfield::update, then update_contiguous_length: the hint moves only when
\* the block touches it, and then to the next block that is missing.
AddBlock(m, i) ==
  LET held == m.held \cup {i}
      next == CHOOSE c \in (i + 1)..MaxLen : c \notin held /\ (i + 1)..(c - 1) \subseteq held
  IN  [m EXCEPT !.held = held,
                !.contig = IF i <= @ /\ @ <= i + 1 THEN next ELSE @]

\* MerkleTree::commit of an upgrade.  One that starts below the current
\* length is taken for a truncation: nodes that join both sides of the cut
\* are blanked, and nodes behind it are to be cut from the file.
Grow(m, ancestors, length) ==
  LET climbed == {n \in Path(ancestors - 1) :
                    \A p \in Path(ancestors - 1) : p[1] = 0 => Inside(n, p)}
      joins == {n \in climbed : n[2] >= ancestors /\ Index(n) < 2 * ancestors}
      below == {n \in m.fresh : Index(n) < 2 * ancestors}
      m1 == IF ancestors >= m.len THEN m
            ELSE [m EXCEPT !.fresh = below \ joins,
                           !.blanked = {n \in @ : Index(n) < 2 * ancestors} \cup joins,
                           !.cut = IF @ < ancestors THEN @ ELSE ancestors]
  IN  [m1 EXCEPT !.len = length]

\* Mutant: only an upgrade's nodes are restored from the oplog.
ReplayUpgradesOnly(m, e) ==
  IF ~m.ok \/ e.kind = "torn" THEN [m EXCEPT !.ok = FALSE]
  ELSE IF e.kind = "block" THEN AddBlock(m, e.index)
  ELSE Grow(AddNodes(m, e.nodes), e.ancestors, e.length)


Replay(m, e) ==
  IF ~m.ok \/ e.kind = "torn" THEN [m EXCEPT !.ok = FALSE]
  ELSE LET m1 == AddNodes(m, e.nodes)
       IN  IF e.kind = "block" THEN AddBlock(m1, e.index)
           ELSE [Grow(m1, e.ancestors, e.length) EXCEPT
                   !.ok = \A r \in Roots(e.length) \ Roots(m.len) : Has(m1, r)]

\* The core after so many entries, and after all.
Replayed[k \in 0..Len(log)] == IF k = 0 THEN Opened ELSE Replay(Replayed[k - 1], log[k])
Recovered == Replayed[Len(log)]
----------------------------------------------------------------------------
(* The operations, one flush_infos at a time.                              *)

\* Hypercore::new on an empty directory, with the core's key alone: a first
\* header is written to the first slot.
Init ==
  /\ hdr = <<[NoHeader EXCEPT !.blank = FALSE], NoHeader>>
  /\ log = <<>> /\ tree = {} /\ bitmap = {} /\ data = {}
  /\ mem = Core(TRUE, NoHeader, <<FALSE, FALSE>>, {})
  /\ op = NoOp /\ step = "idle" /\ crashes = 0

\* verify_and_apply_proof of an upgrade: the verifier needs the manifest.
ApplyUpgrade(n) ==
  /\ step = "idle" /\ mem.man /\ n > mem.len
  /\ op' = Upgrade(mem.len, n)
  /\ step' = "entry"
  /\ UNCHANGED <<disk, mem, crashes>>

\* The lowest node of block i's path that the tree has: where missing_nodes
\* stops counting, and where the proof it asks for ends.
Anchor(i) ==
  {n \in Path(i) : /\ n[2] < mem.len /\ Has(mem, n)
                   /\ \A m \in Path(i) : Has(mem, m) => Inside(n, m)}

\* verify_and_apply_proof of a block: its value goes to the data file, at an
\* offset that other nodes give.
ApplyBlock(i) == \E anchor \in Anchor(i) :
  /\ step = "idle" /\ i < mem.len
  /\ \A n \in OffsetNodes(anchor, mem.len) : Has(mem, n)
  /\ op' = Block(i, anchor)
  /\ data' = data \cup {i}
  /\ step' = "entry"
  /\ UNCHANGED <<hdr, log, tree, bitmap, mem, crashes>>

\* Mutant: no entry for a proof that is flushed anyway.
AppendEntryUnlogged ==
  /\ step = "entry"
  /\ log' = IF mem.skip = 0 THEN log ELSE Append(log, op)
  /\ LET m == IF op.kind = "block" THEN AddBlock(mem, op.index)
                                   ELSE Grow(mem, op.ancestors, op.length)
     IN  mem' = [AddNodes(m, op.nodes) EXCEPT
                   !.end = Len(log'), !.skip = IF @ = 0 THEN 3 ELSE @ - 1]
  /\ step' = IF mem.skip = 0 THEN "bits" ELSE "idle"
  /\ op' = NoOp
  /\ UNCHANGED <<hdr, tree, bitmap, data, crashes>>

\* Mutant: the flush counter is never set back.
AppendEntryNoReset ==
  /\ step = "entry"
  /\ log' = Append(SubSeq(log, 1, mem.end), op)
  /\ mem' = [mem EXCEPT !.end = @ + 1, !.skip = @ - 1]
  /\ step' = IF mem.skip = 0 THEN "bits" ELSE "idle"
  /\ op' = NoOp
  /\ UNCHANGED <<hdr, tree, bitmap, data, crashes>>

\* The proof becomes an entry of the oplog, then part of the core in memory.
AppendEntry ==
  /\ step = "entry"
  /\ \E rest \in Remains(SubSeq(log, mem.end + 1, Len(log)), op) :
        log' = SubSeq(log, 1, mem.end) \o <<op>> \o rest
  /\ LET m == IF op.kind = "block" THEN AddBlock(mem, op.index)
                                   ELSE Grow(mem, op.ancestors, op.length)
     IN  mem' = [AddNodes(m, op.nodes) EXCEPT
                   !.end = @ + 1, !.skip = IF @ = 0 THEN 3 ELSE @ - 1,
                   !.over = mem.end < Len(log)]
  /\ step' = IF mem.skip = 0 THEN "bits" ELSE "idle"
  /\ op' = NoOp
  /\ UNCHANGED <<hdr, tree, bitmap, data, crashes>>

\* Mutant: the manifest is left to the next flush.
SetManifestLater ==
  /\ step = "idle" /\ ~mem.man
  /\ mem' = [mem EXCEPT !.man = TRUE]
  /\ UNCHANGED <<disk, op, step, crashes>>

\* set_manifest: no entry of its own, but a flush of everything.
SetManifest ==
  /\ step = "idle" /\ ~mem.man
  /\ mem' = [mem EXCEPT !.man = TRUE]
  /\ step' = "bits"
  /\ UNCHANGED <<disk, op, crashes>>

\* The three parts of flush_bitfield_and_tree_and_oplog; the last one writes
\* the header and then cuts the oplog.
FlushBitfield ==
  /\ step = "bits"
  /\ bitmap' = mem.held
  /\ step' = "nodes"
  /\ UNCHANGED <<hdr, log, tree, data, mem, op, crashes>>

\* flush_truncation: the file ends behind the last leaf that is kept.
Kept == {n \in tree \ mem.blanked : mem.cut # NoCut => Index(n) < 2 * mem.cut - 1}

FlushTree ==
  /\ step = "nodes"
  /\ tree' = Kept \cup mem.fresh
  /\ mem' = [mem EXCEPT !.fresh = {}, !.blanked = {}, !.cut = NoCut]
  /\ step' = "header"
  /\ UNCHANGED <<hdr, log, bitmap, data, op, crashes>>

\* insert_header: the slot and the bit that make this header the newer one.
WriteHeader ==
  LET slot == IF mem.slots[1] # mem.slots[2] THEN 1 ELSE 2
      bit == ~mem.slots[slot]
  IN  /\ step = "header"
      /\ hdr' = [hdr EXCEPT ![slot] = Header(bit, mem)]
      /\ mem' = [mem EXCEPT !.slots[slot] = bit, !.end = 0, !.over = FALSE]
      /\ step' = "cut"
      /\ UNCHANGED <<log, tree, bitmap, data, op, crashes>>

CutLog ==
  /\ step = "cut"
  /\ log' = <<>>
  /\ step' = "idle"
  /\ UNCHANGED <<hdr, tree, bitmap, data, mem, op, crashes>>

\* Between two steps, or while entries that are nowhere else lie under the
\* first entry written since the core was opened.
Window == IF mem.over THEN "overwritten" ELSE step

Crash ==
  /\ Window \in CrashAt /\ step # "down" /\ crashes < MaxCrashes
  /\ crashes' = crashes + 1
  /\ IF step = "nodes" THEN \E some \in SUBSET mem.fresh : tree' = Kept \cup some
                       ELSE UNCHANGED tree
  /\ op' = NoOp /\ step' = "down"
  /\ UNCHANGED <<hdr, log, bitmap, data, mem>>

\* Hypercore::new after a restart; it fails when a read or a check does.
Open ==
  /\ step = "down"
  /\ mem' = Recovered
  /\ step' = IF mem'.ok THEN "idle" ELSE "down"
  /\ UNCHANGED <<disk, op, crashes>>

Next ==
  \/ \E n \in 1..MaxLen : ApplyUpgrade(n)
  \/ \E i \in 0..(MaxLen - 1) : ApplyBlock(i)
  \/ AppendEntry \/ SetManifest
  \/ FlushBitfield \/ FlushTree \/ WriteHeader \/ CutLog
  \/ Crash \/ Open

Spec == Init /\ [][Next]_vars

----------------------------------------------------------------------------
(* Properties.                                                             *)

TypeOK ==
  /\ hdr \in Seq([bit : BOOLEAN, len : 0..MaxLen, contig : 0..MaxLen, man : BOOLEAN,
                  blank : BOOLEAN])
  /\ Len(hdr) = 2
  /\ \A k \in DOMAIN log : log[k].kind \in {"upgrade", "block", "torn"}
  /\ tree \subseteq TreeNodes
  /\ bitmap \subseteq 0..(MaxLen - 1) /\ data \subseteq 0..(MaxLen - 1)
  /\ mem.len \in 0..MaxLen /\ mem.contig \in 0..MaxLen /\ mem.held \subseteq 0..(MaxLen - 1)
  /\ mem.fresh \subseteq TreeNodes /\ mem.blanked \subseteq TreeNodes
  /\ mem.cut \in 0..NoCut /\ mem.end \in 0..4 /\ mem.skip \in 0..3 /\ mem.over \in BOOLEAN
  /\ op.kind \in {"none", "upgrade", "block"}
  /\ step \in Steps /\ crashes \in 0..MaxCrashes

Up == step # "down"

\* What a proof added stays for good: no crash, and nothing done after one,
\* takes back a length or a block, or leaves files that cannot be opened.
Durable ==
  [][mem'.ok /\ mem.len <= mem'.len /\ mem.held \subseteq mem'.held]_vars

\* Every block the core says it holds can be read: its value is in place
\* and so are the tree nodes that give its length and offset.
Readable ==
  step = "idle" =>
    \A i \in mem.held :
      /\ i \in data
      /\ \A n \in {Leaf(i)} \cup OffsetNodes(Leaf(i), mem.len) : Has(mem, n)

\* Every block of the verified prefix can still be fetched: some node on its
\* path is there for a proof to end at.
Fetchable ==
  step = "idle" =>
    \A i \in 0..(mem.len - 1) : Anchor(i) # {}

\* The hint the leaf fetches from and reloads up to is the length of the
\* gapless prefix it holds, also after the oplog was replayed.
ContiguousRight ==
  Up => 0..(mem.contig - 1) \subseteq mem.held /\ mem.contig \notin mem.held

\* A core that has a length has the manifest its next upgrade is checked with.
ManifestFirst == Up /\ mem.len > 0 => mem.man
=============================================================================

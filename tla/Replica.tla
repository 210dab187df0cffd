------------------------------ MODULE Replica ------------------------------
(***************************************************************************)
(* What mirroring one append-only log promises: the log grows at its       *)
(* source; every replica verifies a prefix of it that only grows, and      *)
(* stores blocks of the prefix it has verified, in any order, for good.    *)
(***************************************************************************)
EXTENDS Naturals

CONSTANTS Leaves, MaxLen

VARIABLES
  log,       \* number of blocks the source has published
  verified,  \* verified[n]: the prefix replica n has verified
  stored     \* stored[n]: the blocks replica n stores

vars == <<log, verified, stored>>

Init ==
  /\ log = 0
  /\ verified = [n \in Leaves |-> 0]
  /\ stored = [n \in Leaves |-> {}]

Publish ==
  /\ log < MaxLen
  /\ log' = log + 1
  /\ UNCHANGED <<verified, stored>>

Verify(n) ==
  /\ \E k \in (verified[n] + 1)..log : verified' = [verified EXCEPT ![n] = k]
  /\ UNCHANGED <<log, stored>>

Store(n) ==
  /\ \E i \in 0..(verified[n] - 1) :
        i \notin stored[n] /\ stored' = [stored EXCEPT ![n] = @ \cup {i}]
  /\ UNCHANGED <<log, verified>>

Advance(n) == Verify(n) \/ Store(n)

Next == Publish \/ \E n \in Leaves : Advance(n)

Spec == Init /\ [][Next]_vars
=============================================================================

---------------------------- MODULE MCMirrorNode ----------------------------
(* Instances of MirrorNode for TLC. *)
EXTENDS MirrorNode, TLC

CONSTANTS c1, c2, x, y

\* One entry, one core.
OneCore == <<{x}>>
\* Two entries, one core each; the second repeats the first core.
TwoEntries == <<{x}, {x, y}>>
=============================================================================

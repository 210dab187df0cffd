--------------------------- MODULE MCCoreChannel ---------------------------
(* Instances of CoreChannel for TLC. *)
EXTENDS CoreChannel, TLC

CONSTANTS h, a, b

\* One leaf on one hub.
Direct == {<<a, h, 1>>}
\* One leaf that dials two addresses of the hub.
Twice == {<<a, h, 1>>, <<a, h, 2>>}
\* A second leaf that reaches the hub only through the first.
Chain == {<<a, h, 1>>, <<b, a, 1>>}
\* Only the hub sends keepalives; leaves do not.
HubLinks == {l \in Links : h \in {l[1], l[2]}}
=============================================================================

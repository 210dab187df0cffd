------------------------------ MODULE MCDevice ------------------------------
(* Instances of Device for TLC. *)
EXTENDS Device

CONSTANTS home, cabin, note, strong, weak

\* Two configurations of two parts, and a note that is no configuration.
Sizes == [p \in {home, cabin, note} |-> IF p = note THEN 1 ELSE 2]
TwoNetworks == <<strong, weak>>
=============================================================================

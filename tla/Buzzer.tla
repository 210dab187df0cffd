------------------------------- MODULE Buzzer -------------------------------
(***************************************************************************)
(* The tune player (buzzer.rs): tunes come in a shuffled order, cycle by   *)
(* cycle.  A tune is its index in GAME_TUNES, counted from 1.              *)
(***************************************************************************)
EXTENDS Naturals, Functions

CONSTANT Tunes  \* how many there are

ASSUME BuzzerAssumption == Tunes \in Nat \ {0}

VARIABLES
  tuneOrder, \* tune_order
  nextTune,  \* next_tune: how many tunes of the order have been played
  lastTune   \* last_tune, 0 for none

buzzerVars == <<tuneOrder, nextTune, lastTune>>

Index == 1..Tunes
\* Any permutation: the random source is not modelled further.
Shuffled == {o \in [Index -> Index] : IsInjective(o)}

\* A mutant: the first tune is not looked at.
KeepFirst(o, avoid) == o
\* order.swap(0, 1) when the order begins with the tune to avoid.
AvoidFirst(o, avoid) ==
  IF Tunes > 1 /\ o[1] = avoid THEN [o EXCEPT ![1] = o[2], ![2] = o[1]] ELSE o
Shuffle(avoid) == {AvoidFirst(o, avoid) : o \in Shuffled}

BuzzerInit ==
  /\ tuneOrder \in Shuffle(0)
  /\ nextTune = 0 /\ lastTune = 0

\* play_random: a tune that fails half way does not count as played.
PlayRandom(succeeds) ==
  \E o \in IF nextTune = Tunes THEN Shuffle(lastTune) ELSE {tuneOrder} :
    LET n == IF nextTune = Tunes THEN 0 ELSE nextTune IN
    /\ tuneOrder' = o
    /\ IF succeeds
         THEN nextTune' = n + 1 /\ lastTune' = o[n + 1]
         ELSE nextTune' = n /\ UNCHANGED lastTune

BuzzerNext == \E succeeds \in BOOLEAN : PlayRandom(succeeds)
BuzzerSpec == BuzzerInit /\ [][BuzzerNext]_buzzerVars

-----------------------------------------------------------------------------
(* The types of the variables; the order holds every tune once. *)
BuzzerTypeOK ==
  /\ tuneOrder \in Shuffled
  /\ nextTune \in 0..Tunes /\ lastTune \in 0..Tunes

(* No tune is played twice in a row, also across the end of a cycle and    *)
(* also when a tune fails in between (buzzer.rs 47-50 and 89-101).         *)
NeverTwice == [][Tunes > 1 /\ nextTune' # nextTune /\ nextTune' # 0 => lastTune' # lastTune]_buzzerVars
=============================================================================

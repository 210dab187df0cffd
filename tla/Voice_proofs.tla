---------------------------- MODULE Voice_proofs ----------------------------
(***************************************************************************)
(* Proofs about the voice thread, for every number of tunes, every length  *)
(* of the buffers and every limit of the timers: the tune player never     *)
(* repeats itself, an utterance is framed as Framed says, `petito` leads   *)
(* to a tune as TuneUnlessLate says, and all stays within its bounds.      *)
(***************************************************************************)
EXTENDS Voice, SequenceTheorems, Induction

\* The tune to come is not the one before; with it the types are inductive.
BuzzerInv ==
  /\ BuzzerTypeOK
  /\ Tunes > 1 /\ nextTune < Tunes => tuneOrder[nextTune + 1] # lastTune

(* A shuffle is an order of all tunes, and does not begin with the one to *)
(* avoid.                                                                 *)
LEMMA ShuffleAvoids ==
  ASSUME NEW avoid \in 0..Tunes, NEW o \in Shuffle(avoid)
  PROVE  o \in Shuffled /\ (Tunes > 1 => o[1] # avoid)
<1>1. PICK p \in Shuffled : o = AvoidFirst(p, avoid)
  BY DEF Shuffle
<1>2. p \in [Index -> Index] /\ \A a, b \in Index : p[a] = p[b] => a = b
  BY <1>1 DEF Shuffled, IsInjective
<1>3. CASE Tunes > 1 /\ p[1] = avoid
  <2>1. o = [p EXCEPT ![1] = p[2], ![2] = p[1]]
    BY <1>1, <1>3 DEF AvoidFirst
  <2>2. 1 \in Index /\ 2 \in Index
    BY <1>3, BuzzerAssumption DEF Index
  <2>3. o \in [Index -> Index] /\ o[1] = p[2] /\ o[2] = p[1]
    BY <2>1, <2>2, <1>2
  <2>4. ASSUME NEW i \in Index, i # 1, i # 2 PROVE o[i] = p[i]
    BY <2>1, <2>4, <1>2
  <2>5. ASSUME NEW a \in Index, NEW b \in Index, o[a] = o[b] PROVE a = b
    BY <2>2, <2>3, <2>4, <2>5, <1>2
  <2>6. o \in Shuffled
    BY <2>3, <2>5 DEF Shuffled, IsInjective
  <2>7. o[1] # avoid
    BY <2>2, <2>3, <1>2, <1>3
  <2> QED BY <2>6, <2>7
<1>4. CASE ~(Tunes > 1 /\ p[1] = avoid)
  BY <1>1, <1>4 DEF AvoidFirst
<1> QED BY <1>3, <1>4

(* Initially no tune has been played. *)
LEMMA BuzzerInitial == BuzzerInit => BuzzerInv
<1> SUFFICES ASSUME BuzzerInit PROVE BuzzerInv
  OBVIOUS
<1>1. 0 \in 0..Tunes /\ nextTune = 0 /\ lastTune = 0 /\ tuneOrder \in Shuffle(0)
  BY BuzzerAssumption DEF BuzzerInit
<1>2. tuneOrder \in Shuffled /\ (Tunes > 1 => tuneOrder[1] # 0)
  BY <1>1, ShuffleAvoids
<1> QED BY <1>1, <1>2 DEF BuzzerInv, BuzzerTypeOK

(* Playing keeps the invariant; a tune that was played is a new one. *)
LEMMA Playing ==
  ASSUME BuzzerInv, NEW succeeds \in BOOLEAN, PlayRandom(succeeds)
  PROVE  /\ BuzzerInv'
         /\ Tunes > 1 /\ nextTune' # nextTune /\ nextTune' # 0 => lastTune' # lastTune
<1> DEFINE n == IF nextTune = Tunes THEN 0 ELSE nextTune
<1>1. PICK o \in IF nextTune = Tunes THEN Shuffle(lastTune) ELSE {tuneOrder} :
        /\ tuneOrder' = o
        /\ IF succeeds
             THEN nextTune' = n + 1 /\ lastTune' = o[n + 1]
             ELSE nextTune' = n /\ UNCHANGED lastTune
  BY DEF PlayRandom
<1>2. nextTune \in 0..Tunes /\ lastTune \in 0..Tunes /\ Tunes \in Nat \ {0}
  BY BuzzerAssumption DEF BuzzerInv, BuzzerTypeOK
<1>3. n \in 0..(Tunes - 1) /\ n + 1 \in Index
  BY <1>2 DEF Index
<1>4. o \in Shuffled /\ (Tunes > 1 => o[n + 1] # lastTune)
  <2>1. CASE nextTune = Tunes
    BY <1>1, <1>2, <2>1, ShuffleAvoids
  <2>2. CASE nextTune # Tunes
    BY <1>1, <1>2, <2>2 DEF BuzzerInv, BuzzerTypeOK
  <2> QED BY <2>1, <2>2
<1>5. o \in [Index -> Index] /\ \A a, b \in Index : o[a] = o[b] => a = b
  BY <1>4 DEF Shuffled, IsInjective
<1>6. CASE succeeds
  <2>1. nextTune' = n + 1 /\ lastTune' = o[n + 1] /\ tuneOrder' = o
    BY <1>1, <1>6
  <2>2. BuzzerTypeOK'
    BY <2>1, <1>2, <1>3, <1>4, <1>5 DEF BuzzerTypeOK, Index
  <2>3. ASSUME Tunes > 1, nextTune' < Tunes PROVE o[nextTune' + 1] # lastTune'
    <3>1. n + 2 \in Index /\ n + 2 # n + 1
      BY <2>1, <2>3, <1>2, <1>3 DEF Index
    <3> QED BY <3>1, <2>1, <1>3, <1>5
  <2> QED BY <2>1, <2>2, <2>3, <1>4 DEF BuzzerInv
<1>7. CASE ~succeeds
  <2>1. nextTune' = n /\ lastTune' = lastTune /\ tuneOrder' = o
    BY <1>1, <1>7
  <2>2. BuzzerTypeOK'
    BY <2>1, <1>2, <1>3, <1>4 DEF BuzzerTypeOK
  <2> QED BY <2>1, <2>2, <1>2, <1>4 DEF BuzzerInv
<1> QED BY <1>6, <1>7

\* What a step means to the player: it plays, or nothing.
PlayerStep == BuzzerNext \/ UNCHANGED buzzerVars

(* The invariant survives a step of the player. *)
LEMMA PlayerKeeps == ASSUME BuzzerInv, PlayerStep PROVE BuzzerInv'
<1>1. CASE BuzzerNext
  BY <1>1, Playing DEF BuzzerNext
<1>2. CASE UNCHANGED buzzerVars
  BY <1>2 DEF buzzerVars, BuzzerInv, BuzzerTypeOK
<1> QED BY <1>1, <1>2 DEF PlayerStep

(* The voice thread uses the player only through play_random. *)
LEMMA VoicePlays == ASSUME [VoiceNext]_voiceVars PROVE PlayerStep
<1>1. CASE IdleWindow \/ OpenGate \/ FeedbackEnds
  BY <1>1 DEF IdleWindow, OpenGate, FeedbackEnds, player, PlayerStep
<1>2. ASSUME NEW loud \in BOOLEAN, NEW v \in Verdicts, CaptureWindow(loud, v) PROVE PlayerStep
  <2>1. PlayTune \/ \E h : Stream(h)
    BY <1>2 DEF CaptureWindow
  <2>2. CASE PlayTune
    BY <2>2 DEF PlayTune, PlayerStep, BuzzerNext, player
  <2>3. CASE \E h : Stream(h)
    BY <2>3 DEF Stream, player, PlayerStep
  <2> QED BY <2>1, <2>2, <2>3
<1>3. CASE UNCHANGED voiceVars
  BY <1>3 DEF voiceVars, PlayerStep, buzzerVars
<1> QED BY <1>1, <1>2, <1>3 DEF VoiceNext, ReadsWindow

(* Whatever the microphone, the models and the host do, the order always   *)
(* holds every tune once and the next tune is not the last one             *)
(* (buzzer.rs 41-51 and 89-101, voice.rs 530-575).                         *)
THEOREM PlayerInvariant == VoiceSpec => []BuzzerInv
<1>1. VoiceInit => BuzzerInv
  BY BuzzerInitial DEF VoiceInit
<1>2. BuzzerInv /\ [VoiceNext]_voiceVars => BuzzerInv'
  BY PlayerKeeps, VoicePlays
<1> QED BY <1>1, <1>2, PTL DEF VoiceSpec

(* No tune is played twice in a row by the voice thread, for any number of *)
(* tunes above one.                                                        *)
THEOREM NeverTwiceInARow == VoiceSpec => NeverTwice
<1>1. BuzzerInv /\ [VoiceNext]_voiceVars
        => [Tunes > 1 /\ nextTune' # nextTune /\ nextTune' # 0 => lastTune' # lastTune]_buzzerVars
  <2> SUFFICES ASSUME BuzzerInv, [VoiceNext]_voiceVars, ~UNCHANGED buzzerVars
      PROVE  Tunes > 1 /\ nextTune' # nextTune /\ nextTune' # 0 => lastTune' # lastTune
    OBVIOUS
  <2>1. PICK succeeds \in BOOLEAN : PlayRandom(succeeds)
    BY VoicePlays DEF PlayerStep, BuzzerNext
  <2> QED BY <2>1, Playing
<1> QED BY <1>1, PlayerInvariant, PTL DEF VoiceSpec, NeverTwice

(***************************************************************************)
(* The framing of an utterance.                                            *)
(***************************************************************************)

States == {"none", "open", "broken"}
Frame == {Hello, Start, End} \cup {Chunk(w) : w \in Nat}
\* The windows from a to b, and the frames that carry them.
Windows(a, b) == [i \in 1..(b - a + 1) |-> a + i - 1]
Carried(a, b) == [i \in 1..(b - a + 1) |-> Chunk(a + i - 1)]
\* The first window kept when window w is the last one.
First(w) == LargerOf(1, w - Prewake + 1)
\* What the host has got after window b, when the wake fired in window w.
Utterance(w, b) == <<Hello, Start>> \o Carried(First(w), b)

\* Before the stream is started, the connection is closed and the last Prewake
\* windows are kept; a wake that waits for its stream came with the pre-roll.
BeforeStream ==
  /\ stream = "none" /\ sent = <<>>
  /\ prewake = Windows(First(window), window)
  /\ heard.wake => woke = window /\ window <= Preroll
Listening ==
  /\ window # 0 /\ woke <= window
  /\ heard.wake <=> woke # 0
  /\ IF started THEN heard.wake ELSE BeforeStream
FrameInv ==
  /\ phase \in {"idle", "capturing", "feedback", "stopped"}
  /\ lead \in Nat /\ window \in Nat /\ woke \in Nat
  /\ started \in BOOLEAN /\ stream \in States
  /\ phase \in {"idle", "stopped"} => stream = "none"
  /\ phase = "capturing" => Listening
  /\ stream = "open" =>
       /\ woke # 0 /\ woke <= window
       /\ sent = Utterance(woke, window) \o IF phase = "capturing" THEN <<>> ELSE <<End>>

(* Where the windows kept begin. *)
LEMMA FirstWindow ==
  ASSUME NEW w \in Nat
  PROVE  /\ First(w) \in Nat \ {0}
         /\ w # 0 => First(w) <= w
         /\ First(w + 1) = IF w < Prewake THEN 1 ELSE First(w) + 1
         /\ w <= Prewake => First(w) = 1
         /\ w >= Prewake => First(w) = w - Prewake + 1
BY VoiceAssumption DEF First, LargerOf

(* The shape of the two kinds of sequences. *)
LEMMA WindowsShape ==
  ASSUME NEW a \in Nat \ {0}, NEW b \in Nat, a <= b + 1
  PROVE  /\ Windows(a, b) \in Seq(Nat) /\ Len(Windows(a, b)) = b - a + 1
         /\ Carried(a, b) \in Seq(Frame) /\ Len(Carried(a, b)) = b - a + 1
<1>1. b - a + 1 \in Nat
  OBVIOUS
<1>2. \A i \in 1..(b - a + 1) : a + i - 1 \in Nat /\ Chunk(a + i - 1) \in Frame
  BY DEF Frame
<1> QED BY <1>1, <1>2 DEF Windows, Carried

(* The frames of a run of windows carry that run. *)
LEMMA ChunksOfWindows ==
  ASSUME NEW a \in Nat \ {0}, NEW b \in Nat, a <= b + 1
  PROVE  Chunks(Windows(a, b)) = Carried(a, b)
<1>1. Len(Windows(a, b)) = b - a + 1
  BY WindowsShape
<1>2. \A i \in 1..(b - a + 1) : Windows(a, b)[i] = a + i - 1
  BY DEF Windows
<1> QED BY <1>1, <1>2 DEF Chunks, Carried

(* Pushing a window and dropping what exceeds the buffer: by the numbers. *)
LEMMA Pushes ==
  ASSUME NEW w \in Nat \ {0}, NEW a \in 1..w, NEW c \in 1..(w + 1),
         IF w < Prewake THEN a = 1 /\ c = 1 ELSE a = w - Prewake + 1 /\ c = a + 1
  PROVE  LastOf(Append(Windows(a, w), w + 1), Prewake) = Windows(c, w + 1)
<1>1. Prewake \in Nat \ {0}
  BY VoiceAssumption
<1>2. PICK n \in Nat : n = w - a + 1
  OBVIOUS
<1>3. PICK s : s = Windows(a, w)
  OBVIOUS
<1>4. s \in Seq(Nat) /\ Len(s) = n /\ \A i \in 1..n : s[i] = a + i - 1
  BY <1>2, <1>3, WindowsShape DEF Windows
<1>5. PICK t : t = Append(s, w + 1)
  OBVIOUS
<1>6. t \in Seq(Nat) /\ Len(t) = n + 1 /\ (\A i \in 1..n : t[i] = s[i]) /\ t[n + 1] = w + 1
  <2>1. w + 1 \in Nat
    OBVIOUS
  <2> QED BY <2>1, <1>4, <1>5, AppendProperties
<1>7. \A i \in 1..(n + 1) : t[i] = a + i - 1 /\ t[i] \in Nat
  <2> SUFFICES ASSUME NEW i \in 1..(n + 1) PROVE t[i] = a + i - 1 /\ t[i] \in Nat
    OBVIOUS
  <2>1. CASE i = n + 1
    BY <2>1, <1>2, <1>6
  <2>2. CASE i # n + 1
    <3>1. i \in 1..n /\ a + i - 1 \in Nat
      BY <2>2
    <3> QED BY <3>1, <1>4, <1>6
  <2> QED BY <2>1, <2>2
<1>8. PICK m \in Nat : m = LargerOf(1, n + 1 - Prewake + 1)
  <2>1. n + 1 - Prewake + 1 \in Int
    BY <1>1
  <2>2. LargerOf(1, n + 1 - Prewake + 1) \in Nat
    BY <2>1 DEF LargerOf
  <2> QED BY <2>2
<1>9. m \in 1..(n + 1) /\ a + m - 1 = c
  BY <1>1, <1>2, <1>8 DEF LargerOf
<1>10. LastOf(t, Prewake) = SubSeq(t, m, n + 1)
  <2>1. Len(t) - Prewake + 1 = n + 1 - Prewake + 1
    BY <1>1, <1>6
  <2> QED BY <2>1, <1>6, <1>8 DEF LastOf
<1>11. PICK u : u = SubSeq(t, m, n + 1)
  OBVIOUS
<1>12. PICK k \in Nat : k = w + 1 - c + 1
  OBVIOUS
<1>13. k = n + 1 - m + 1
  BY <1>2, <1>9, <1>12
<1>14. u \in Seq(Nat) /\ Len(u) = k /\ \A i \in 1..k : u[i] = t[m + i - 1]
  <2>1. \A i \in m..(n + 1) : t[i] \in Nat
    BY <1>7, <1>9
  <2>2. m \in Int /\ n + 1 \in Int /\ m <= n + 1
    BY <1>9
  <2> QED BY <2>1, <2>2, <1>11, <1>13, SubSeqProperties
<1>15. \A i \in 1..k : u[i] = c + i - 1
  <2> SUFFICES ASSUME NEW i \in 1..k PROVE u[i] = c + i - 1
    OBVIOUS
  <2>1. m + i - 1 \in 1..(n + 1) /\ a + (m + i - 1) - 1 = c + i - 1
    BY <1>9, <1>13
  <2> QED BY <2>1, <1>7, <1>14
<1>16. /\ Windows(c, w + 1) \in Seq(Nat) /\ Len(Windows(c, w + 1)) = k
       /\ \A i \in 1..k : Windows(c, w + 1)[i] = c + i - 1
  <2>1. c \in Nat \ {0} /\ w + 1 \in Nat /\ c <= (w + 1) + 1 /\ k = (w + 1) - c + 1
    BY <1>12
  <2>2. Windows(c, w + 1) \in Seq(Nat) /\ Len(Windows(c, w + 1)) = k
    BY <2>1, WindowsShape
  <2>3. \A i \in 1..k : Windows(c, w + 1)[i] = c + i - 1
    BY <2>1 DEF Windows
  <2> QED BY <2>2, <2>3
<1>17. u = Windows(c, w + 1)
  BY <1>14, <1>15, <1>16, SeqEqual
<1> QED BY <1>3, <1>5, <1>10, <1>11, <1>17

(* So the buffer keeps the last windows (voice.rs 440-445). *)
LEMMA KeepsLast ==
  ASSUME NEW w \in Nat \ {0}
  PROVE  LastOf(Append(Windows(First(w), w), w + 1), Prewake) = Windows(First(w + 1), w + 1)
<1>1. PICK a : a = First(w)
  OBVIOUS
<1>2. PICK c : c = First(w + 1)
  OBVIOUS
<1>3. a \in 1..w /\ c \in 1..(w + 1)
      /\ IF w < Prewake THEN a = 1 /\ c = 1 ELSE a = w - Prewake + 1 /\ c = a + 1
  BY <1>1, <1>2, VoiceAssumption DEF First, LargerOf
<1> QED BY <1>1, <1>2, <1>3, Pushes

(* One more window, sent by itself. *)
LEMMA OneMoreCarried ==
  ASSUME NEW a \in Nat \ {0}, NEW b \in Nat, a <= b + 1
  PROVE  Carried(a, b) \o <<Chunk(b + 1)>> = Carried(a, b + 1)
<1>1. PICK n \in Nat : n = b - a + 1
  OBVIOUS
<1>2. PICK s : s = Carried(a, b)
  OBVIOUS
<1>3. PICK d : d = Carried(a, b + 1)
  OBVIOUS
<1>4. PICK e : e = <<Chunk(b + 1)>>
  OBVIOUS
<1>5. s \in Seq(Frame) /\ Len(s) = n /\ \A i \in 1..n : s[i] = Chunk(a + i - 1)
  BY <1>1, <1>2, WindowsShape DEF Carried
<1>6. d \in Seq(Frame) /\ Len(d) = n + 1 /\ \A i \in 1..(n + 1) : d[i] = Chunk(a + i - 1)
  <2>1. b + 1 \in Nat /\ a <= (b + 1) + 1 /\ n + 1 = (b + 1) - a + 1
    BY <1>1
  <2>2. d \in Seq(Frame) /\ Len(d) = n + 1
    BY <2>1, <1>3, WindowsShape
  <2>3. \A i \in 1..(n + 1) : d[i] = Chunk(a + i - 1)
    BY <2>1, <1>3 DEF Carried
  <2> QED BY <2>2, <2>3
<1>7. e \in Seq(Frame) /\ Len(e) = 1 /\ e[1] = Chunk(b + 1)
  <2>1. Chunk(b + 1) \in Frame
    BY DEF Frame
  <2> QED BY <2>1, <1>4
<1>8. PICK c : c = s \o e
  OBVIOUS
<1>9. c \in Seq(Frame) /\ Len(c) = n + 1
      /\ \A i \in 1..(n + 1) : c[i] = IF i <= n THEN s[i] ELSE e[i - n]
  <2>1. /\ s \o e \in Seq(Frame) /\ Len(s \o e) = Len(s) + Len(e)
        /\ \A i \in 1..(Len(s) + Len(e)) : (s \o e)[i] = IF i <= Len(s) THEN s[i] ELSE e[i - Len(s)]
    BY <1>5, <1>7, ConcatProperties
  <2>2. Len(s) = n /\ Len(e) = 1
    BY <1>5, <1>7
  <2> QED BY <2>1, <2>2, <1>8
<1>10. \A i \in 1..(n + 1) : c[i] = d[i]
  <2> SUFFICES ASSUME NEW i \in 1..(n + 1) PROVE c[i] = d[i]
    OBVIOUS
  <2>1. CASE i <= n
    BY <2>1, <1>5, <1>6, <1>9
  <2>2. CASE ~(i <= n)
    <3>1. i = n + 1 /\ i - n = 1 /\ a + i - 1 = b + 1
      BY <2>2, <1>1
    <3>2. c[i] = Chunk(b + 1)
      BY <3>1, <2>2, <1>7, <1>9
    <3>3. d[i] = Chunk(a + i - 1)
      BY <1>6
    <3> QED BY <3>1, <3>2, <3>3
  <2> QED BY <2>1, <2>2
<1>11. c = d
  BY <1>6, <1>9, <1>10, SeqEqual
<1> QED BY <1>2, <1>3, <1>4, <1>8, <1>11

(* Utterances are sequences of frames. *)
LEMMA UtteranceType ==
  ASSUME NEW w \in Nat \ {0}, NEW b \in Nat, w <= b
  PROVE  /\ First(w) \in Nat \ {0} /\ First(w) <= b + 1
         /\ Carried(First(w), b) \in Seq(Frame) /\ <<Hello, Start>> \in Seq(Frame)
         /\ Utterance(w, b) \in Seq(Frame)
<1>1. First(w) \in Nat \ {0} /\ First(w) <= b + 1
  BY FirstWindow
<1>2. Carried(First(w), b) \in Seq(Frame)
  BY <1>1, WindowsShape
<1>3. Hello \in Frame /\ Start \in Frame
  BY DEF Frame
<1>4. <<Hello, Start>> \in Seq(Frame)
  BY <1>3
<1> QED BY <1>1, <1>2, <1>4, ConcatProperties DEF Utterance

(* A window sent by itself continues the utterance. *)
LEMMA OneMore ==
  ASSUME NEW w \in Nat \ {0}, NEW b \in Nat, w <= b
  PROVE  Utterance(w, b) \o <<Chunk(b + 1)>> = Utterance(w, b + 1)
<1>1. PICK a : a = First(w)
  OBVIOUS
<1>2. a \in Nat \ {0} /\ a <= b + 1 /\ Carried(a, b) \in Seq(Frame)
        /\ <<Hello, Start>> \in Seq(Frame)
  BY <1>1, UtteranceType
<1>3. Chunk(b + 1) \in Frame
  BY DEF Frame
<1>4. <<Chunk(b + 1)>> \in Seq(Frame)
  BY <1>3
<1>5. (<<Hello, Start>> \o Carried(a, b)) \o <<Chunk(b + 1)>>
        = <<Hello, Start>> \o (Carried(a, b) \o <<Chunk(b + 1)>>)
  BY <1>2, <1>4, ConcatAssociative
<1>6. Carried(a, b) \o <<Chunk(b + 1)>> = Carried(a, b + 1)
  BY <1>2, OneMoreCarried
<1> QED BY <1>1, <1>5, <1>6 DEF Utterance

(* A send leaves a closed connection as it is, and an open one that is     *)
(* still open afterwards has got all its frames.                           *)
LEMMA SendOutcome ==
  ASSUME NEW c, c.state \in States, NEW frames, NEW checked \in BOOLEAN,
         NEW s \in Send(c, frames, checked)
  PROVE  /\ s.state \in States
         /\ c.state = "none" => s = c
         /\ s.state = "open" => c.state = "open" /\ s.got = c.got \o frames
<1>1. CASE c.state = "none"
  BY <1>1 DEF Send, States
<1>2. ASSUME s \in Broken(checked) PROVE s.state \in {"broken", "none"}
  BY <1>2 DEF Broken
<1>3. CASE c.state = "broken"
  BY <1>2, <1>3 DEF Send, States
<1>4. CASE c.state = "open"
  <2>1. s \in Broken(checked) \/ s = [state |-> "open", got |-> c.got \o frames]
    BY <1>4 DEF Send
  <2> QED BY <2>1, <1>2, <1>4 DEF States
<1> QED BY <1>1, <1>3, <1>4 DEF States

(* What a step of a capture does, when the window is streamed or kept. *)
LEMMA Opens ==
  ASSUME FrameInv, phase = "capturing", NEW v \in Verdicts, NEW h, h = MwwStep(heard, v),
         h.wake /\ ~started, NEW b, b = (IF heard.wake THEN window ELSE window + 1),
         NEW w, w = (IF woke = 0 THEN window + 1 ELSE woke)
  PROVE  <<Hello, Start>> \o Chunks(Kept) = Utterance(w, b)
<1>1. Listening /\ BeforeStream /\ window \in Nat \ {0}
  BY DEF FrameInv, Listening
<1>2. CASE heard.wake
  <2>1. b = window /\ w = window /\ window <= Preroll /\ woke = window /\ Kept = prewake
    BY <1>1, <1>2 DEF BeforeStream, Kept
  <2>2. Kept = Windows(First(window), window)
    BY <2>1, <1>1 DEF BeforeStream
  <2>3. First(window) \in Nat \ {0} /\ First(window) <= window + 1
    BY <1>1, FirstWindow
  <2>4. Chunks(Kept) = Carried(First(window), window)
    BY <2>2, <2>3, <1>1, ChunksOfWindows
  <2> QED BY <2>1, <2>4 DEF Utterance
<1>3. CASE ~heard.wake
  <2>1. b = window + 1 /\ w = window + 1
    BY <1>1, <1>3 DEF Listening
  <2>2. Kept = Windows(First(window + 1), window + 1)
    BY <1>1, <1>3, KeepsLast DEF Kept, BeforeStream
  <2>3. window + 1 \in Nat \ {0}
    BY <1>1
  <2>4. First(window + 1) \in Nat \ {0} /\ First(window + 1) <= (window + 1) + 1
    BY <2>3, FirstWindow
  <2>5. Chunks(Kept) = Carried(First(window + 1), window + 1)
    BY <2>2, <2>3, <2>4, ChunksOfWindows
  <2> QED BY <2>1, <2>5 DEF Utterance
<1> QED BY <1>2, <1>3

(* A wake is not taken back. *)
LEMMA StaysAwake ==
  ASSUME NEW v, heard.wake PROVE MwwStep(heard, v) = heard
BY DEF MwwStep

(* A window of a capture that ends in no tune. *)
LEMMA StreamKeeps ==
  ASSUME FrameInv, phase = "capturing", NEW v \in Verdicts, NEW h, h = MwwStep(heard, v), Stream(h)
  PROVE  FrameInv'
<1> DEFINE starts == h.wake /\ ~started
           over == silent' >= SilenceBudget(h, spoke') \/ listen' >= CommandMax(h)
<1>1. Listening /\ window \in Nat \ {0} /\ woke \in Nat /\ stream \in States
        /\ started \in BOOLEAN
  BY DEF FrameInv, Listening
<1>2. heard.wake => h = heard
  BY StaysAwake
<1>3. /\ window' = window + 1 /\ heard' = h /\ started' = (started \/ h.wake)
      /\ woke' = (IF h.wake /\ woke = 0 THEN window' ELSE woke)
      /\ prewake' = (IF starts \/ over THEN <<>> ELSE Kept)
      /\ lead' = lead
  BY DEF Stream
<1>4. PICK s1 \in (IF starts THEN StartStream(Kept) ELSE {[state |-> stream, got |-> sent]}) :
      \E s2 \in IF WasAwake THEN Send(s1, <<Chunk(window')>>, TRUE) ELSE {s1} :
      \E s3 \in IF over THEN Send(s2, <<End>>, FALSE) ELSE {s2} :
        /\ stream' = s3.state /\ sent' = s3.got
        /\ phase' = CASE ~over -> "capturing"
                      [] over /\ s3.state = "none" -> "idle"
                      [] OTHER -> "feedback"
  BY DEF Stream
<1>5. PICK s2 \in (IF WasAwake THEN Send(s1, <<Chunk(window')>>, TRUE) ELSE {s1}) :
      \E s3 \in IF over THEN Send(s2, <<End>>, FALSE) ELSE {s2} :
        /\ stream' = s3.state /\ sent' = s3.got
        /\ phase' = CASE ~over -> "capturing"
                      [] over /\ s3.state = "none" -> "idle"
                      [] OTHER -> "feedback"
  BY <1>4
<1>6. PICK s3 \in (IF over THEN Send(s2, <<End>>, FALSE) ELSE {s2}) :
        /\ stream' = s3.state /\ sent' = s3.got
        /\ phase' = CASE ~over -> "capturing"
                      [] over /\ s3.state = "none" -> "idle"
                      [] OTHER -> "feedback"
  BY <1>5
<1> HIDE DEF starts, over
<1>7. PICK b : b = (IF heard.wake THEN window ELSE window + 1)
  OBVIOUS
\* The connection before this window is sent: opened just now, or as it was.
<1>8.
        /\ s1.state \in States
        /\ ~starts /\ ~started => s1.state = "none" /\ s1.got = <<>>
        /\ s1.state = "open" => /\ h.wake /\ woke' # 0 /\ woke' <= window + 1
                                /\ s1.got = Utterance(woke', b)
                                /\ heard.wake => woke' = woke
  <2>1. CASE ~starts
    <3>1. s1.state = stream /\ s1.got = sent
      BY <2>1, <1>4
    <3>2. ~started => stream = "none" /\ sent = <<>>
      BY <1>1 DEF Listening, BeforeStream
    <3>3. ASSUME stream = "open"
          PROVE  h.wake /\ woke' # 0 /\ woke' <= window + 1 /\ sent = Utterance(woke', b)
                 /\ (heard.wake => woke' = woke)
      <4>1. started /\ heard.wake /\ woke # 0 /\ woke <= window /\ h = heard
        BY <3>2, <3>3, <1>1, <1>2 DEF Listening
      <4>2. sent = Utterance(woke, window) \o <<>>
        BY <3>3 DEF FrameInv
      <4>3. Utterance(woke, window) \o <<>> = Utterance(woke, window)
        BY <4>1, <1>1, UtteranceType, ConcatEmptySeq
      <4>4. woke' = woke
        BY <4>1, <1>3
      <4>5. b = window
        BY <4>1, <1>7
      <4> QED BY <4>1, <4>2, <4>3, <4>4, <4>5, <1>1
    <3>4. s1.state = "open" => h.wake /\ woke' # 0 /\ woke' <= window + 1
            /\ s1.got = Utterance(woke', b)
            /\ (heard.wake => woke' = woke)
      BY <3>1, <3>3
    <3>5. ~starts /\ ~started => s1.state = "none" /\ s1.got = <<>>
      BY <3>1, <3>2
    <3>6. s1.state \in States
      BY <3>1, <1>1
    <3> QED BY <3>4, <3>5, <3>6
  <2>2. CASE starts
    <3> DEFINE f == <<Hello, Start>> \o Chunks(Kept)
    <3>1. h.wake /\ ~started /\ stream = "none" /\ sent = <<>>
      BY <2>2, <1>1 DEF starts, Listening, BeforeStream
    <3>2. s1 = [state |-> "none", got |-> sent] \/ s1 \in Send([state |-> "open", got |-> sent], f, FALSE)
      BY <2>2, <1>4 DEF StartStream
    <3>3. PICK w : w = (IF woke = 0 THEN window + 1 ELSE woke)
      OBVIOUS
    <3>5. f = Utterance(w, b)
      BY <1>7, <3>1, <3>3, Opens
    <3>6. w = woke' /\ w \in Nat \ {0} /\ w <= b /\ b \in Nat /\ b <= window + 1
      BY <1>7, <3>1, <3>3, <1>1, <1>3 DEF Listening
    <3>7. f \in Seq(Frame)
      BY <3>5, <3>6, UtteranceType
    <3>8. sent \o f = f
      <4> HIDE DEF f
      <4> QED BY <3>1, <3>7, ConcatEmptySeq
    <3>9. heard.wake => woke' = woke
      BY <1>1, <1>3 DEF Listening
    <3> HIDE DEF f
    <3>10. CASE s1 = [state |-> "none", got |-> sent]
      BY <3>10, <2>2 DEF States
    <3>11. CASE s1 \in Send([state |-> "open", got |-> sent], f, FALSE)
      <4>1. PICK c : c = [state |-> "open", got |-> sent]
        OBVIOUS
      <4>2. s1.state \in States /\ (s1.state = "open" => s1.got = sent \o f)
        <5>1. c.state \in States /\ c.got = sent /\ s1 \in Send(c, f, FALSE)
          BY <4>1, <3>11 DEF States
        <5> QED BY <5>1, SendOutcome
      <4>3. woke' # 0 /\ woke' <= window + 1 /\ h.wake
        BY <1>1, <3>1, <3>6
      <4>4. s1.state = "open" => s1.got = Utterance(woke', b)
        BY <4>2, <3>5, <3>6, <3>8
      <4> QED BY <4>2, <4>3, <4>4, <2>2, <3>9
    <3> QED BY <3>2, <3>10, <3>11
  <2> QED BY <2>1, <2>2
\* With it, the host has everything up to this window.
<1>9.
        /\ s2.state \in States
        /\ ~starts /\ ~started => s2.state = "none" /\ s2.got = <<>>
        /\ s2.state = "open" => h.wake /\ woke' # 0 /\ woke' <= window'
             /\ s2.got = Utterance(woke', window')
  <2>1. CASE heard.wake
    <3>1. s2 \in Send(s1, <<Chunk(window')>>, TRUE)
      BY <2>1, <1>5, <1>8 DEF WasAwake
    <3>2. /\ s2.state \in States
          /\ s1.state = "none" => s2 = s1
          /\ s2.state = "open" => s1.state = "open" /\ s2.got = s1.got \o <<Chunk(window')>>
      BY <3>1, <1>8, SendOutcome
    <3>3. ASSUME s2.state = "open"
          PROVE  h.wake /\ woke' # 0 /\ woke' <= window' /\ s2.got = Utterance(woke', window')
      <4>1. s1.state = "open" /\ s1.got = Utterance(woke, window) /\ woke' = woke /\ h.wake
        BY <3>2, <3>3, <1>8, <1>7, <2>1
      <4>2. woke \in Nat \ {0} /\ woke <= window
        BY <1>1, <2>1 DEF Listening
      <4>3. Utterance(woke, window) \o <<Chunk(window + 1)>> = Utterance(woke, window + 1)
        BY <4>2, <1>1, OneMore
      <4>4. s2.got = Utterance(woke, window + 1)
        BY <3>2, <3>3, <4>1, <4>3, <1>3
      <4> QED BY <4>1, <4>2, <4>4, <1>1, <1>3
    <3> QED BY <3>2, <3>3, <1>8
  <2>2. CASE ~heard.wake
    <3>1. s2 = s1
      BY <2>2, <1>5 DEF WasAwake
    <3> QED BY <3>1, <2>2, <1>3, <1>8, <1>7
  <2> QED BY <2>1, <2>2
\* And the end of the utterance, if this is it.
<1>10.
        /\ s3.state \in States
        /\ ~starts /\ ~started => s3.state = "none" /\ s3.got = <<>>
        /\ s3.state = "open" => /\ h.wake /\ woke' # 0 /\ woke' <= window'
                                /\ s3.got = Utterance(woke', window') \o IF over THEN <<End>> ELSE <<>>
  <2>1. CASE over
    <3>1. s3 \in Send(s2, <<End>>, FALSE)
      BY <2>1, <1>6
    <3>2. /\ s3.state \in States
          /\ s2.state = "none" => s3 = s2
          /\ s3.state = "open" => s2.state = "open" /\ s3.got = s2.got \o <<End>>
      BY <3>1, <1>9, SendOutcome
    <3> QED BY <2>1, <3>2, <1>9
  <2>2. CASE ~over
    <3>1. s3 = s2
      BY <2>2, <1>6
    <3>2. s2.state = "open" => Utterance(woke', window') \o <<>> = Utterance(woke', window')
      <4> SUFFICES ASSUME s2.state = "open"
                   PROVE  Utterance(woke', window') \o <<>> = Utterance(woke', window')
        OBVIOUS
      <4>1. woke' \in Nat \ {0} /\ window' \in Nat /\ woke' <= window'
        BY <1>1, <1>3, <1>9
      <4> QED BY <4>1, UtteranceType, ConcatEmptySeq
    <3> QED BY <2>2, <3>1, <3>2, <1>9
  <2> QED BY <2>1, <2>2
<1>11. stream' = s3.state /\ sent' = s3.got
  BY <1>6, <1>10
<1>12. phase' = IF ~over THEN "capturing" ELSE IF s3.state = "none" THEN "idle" ELSE "feedback"
  BY <1>6, <1>10
<1>13. window' \in Nat /\ woke' \in Nat /\ started' \in BOOLEAN /\ lead' \in Nat
         /\ stream' \in States
  BY <1>1, <1>3, <1>11, <1>10 DEF FrameInv
<1>14. ASSUME phase' = "capturing" PROVE Listening'
  <2>1. ~over
    BY <1>12, <1>14
  <2>2. window' # 0 /\ woke' <= window' /\ (h.wake <=> woke' # 0)
    BY <1>1, <1>2, <1>3 DEF Listening
  <2>3. CASE started'
    <3>1. h.wake
      BY <2>3, <1>1, <1>2, <1>3 DEF Listening
    <3> QED BY <3>1, <2>2, <2>3, <1>3 DEF Listening
  <2>4. CASE ~started'
    <3>1. ~started /\ ~h.wake /\ ~starts /\ ~heard.wake
      BY <2>4, <1>2, <1>3 DEF starts
    <3>2. stream' = "none" /\ sent' = <<>>
      BY <3>1, <1>10, <1>11
    <3>3. prewake' = Windows(First(window'), window')
      <4>1. prewake' = LastOf(Append(prewake, window + 1), Prewake)
              /\ prewake = Windows(First(window), window)
        BY <3>1, <2>1, <1>1, <1>3 DEF Kept, Listening, BeforeStream
      <4> QED BY <4>1, <1>1, <1>3, KeepsLast
    <3>4. BeforeStream'
      BY <3>1, <3>2, <3>3, <1>3 DEF BeforeStream
    <3> QED BY <3>4, <2>2, <2>4, <1>3 DEF Listening
  <2> QED BY <2>3, <2>4
<1>15. stream' = "open" => /\ woke' # 0 /\ woke' <= window'
         /\ sent' = Utterance(woke', window') \o IF phase' = "capturing" THEN <<>> ELSE <<End>>
  BY <1>10, <1>11, <1>12
<1>16. phase' \in {"idle", "capturing", "feedback", "stopped"}
       /\ (phase' \in {"idle", "stopped"} => stream' = "none")
  BY <1>11, <1>12
<1> QED BY <1>13, <1>14, <1>15, <1>16 DEF FrameInv, Utterance, Carried

(* A tune is played only while nothing is being streamed. *)
LEMMA TuneKeeps ==
  ASSUME FrameInv, phase = "capturing", NEW v \in Verdicts, ~MwwStep(heard, v).wake, PlayTune
  PROVE  FrameInv'
<1>1. ~heard.wake
  BY StaysAwake
<1>2. stream = "none"
  BY <1>1 DEF FrameInv, Listening, BeforeStream
<1>3. /\ phase' \in {"idle", "stopped"} /\ lead' = 0 /\ window' = 0
      /\ started' = started /\ stream' = stream /\ woke' = woke
  BY DEF PlayTune, wire
<1> QED BY <1>2, <1>3 DEF FrameInv, States

(* The gate opens: the pre-roll is kept whole, since it is no longer than  *)
(* the buffer.                                                             *)
LEMMA OpenGateKeeps == ASSUME FrameInv, OpenGate PROVE FrameInv'
<1>1. lead \in Nat /\ stream = "none" /\ Preroll \in Nat \ {0} /\ Prewake \in Nat \ {0}
        /\ Preroll <= Prewake
  BY VoiceAssumption DEF FrameInv, OpenGate
<1>2. /\ phase' = "capturing" /\ window' = SmallerOf(lead + 1, Preroll)
      /\ prewake' = [i \in 1..window' |-> i] /\ lead' = 0
      /\ started' = FALSE /\ sent' = <<>> /\ stream' = stream
      /\ woke' = (IF heard'.wake THEN window' ELSE 0)
  BY DEF OpenGate
<1>3. window' \in Nat \ {0} /\ window' <= Preroll /\ window' <= Prewake
  BY <1>1, <1>2 DEF SmallerOf
<1>4. First(window') = 1
  BY <1>3, FirstWindow
<1>5. Windows(1, window') = [i \in 1..window' |-> i]
  <2>1. PICK w \in Nat : w = window'
    BY <1>3
  <2>2. w - 1 + 1 = w /\ \A i \in 1..w : 1 + i - 1 = i
    OBVIOUS
  <2>3. Windows(1, w) = [i \in 1..w |-> i]
    BY <2>2 DEF Windows
  <2> QED BY <2>1, <2>3
<1>6. BeforeStream'
  BY <1>1, <1>2, <1>3, <1>4, <1>5 DEF BeforeStream
<1>7. Listening'
  BY <1>2, <1>3, <1>6 DEF Listening
<1>8. stream' = "none" /\ phase' = "capturing" /\ lead' \in Nat /\ window' \in Nat
        /\ woke' \in Nat /\ started' \in BOOLEAN
  BY <1>1, <1>2, <1>3
<1> QED BY <1>7, <1>8 DEF FrameInv, States

(* No step of the voice thread breaks the framing. *)
LEMMA FramesKept == ASSUME FrameInv, [VoiceNext]_voiceVars PROVE FrameInv'
<1>1. CASE IdleWindow
  <2>1. phase = "idle" /\ lead' \in Nat
    BY <1>1, VoiceAssumption DEF IdleWindow, FrameInv, SmallerOf
  <2>2. UNCHANGED <<phase, window, woke, started, stream>>
    BY <1>1 DEF IdleWindow, wire
  <2> QED BY <2>1, <2>2 DEF FrameInv
<1>2. CASE OpenGate
  BY <1>2, OpenGateKeeps
<1>3. ASSUME NEW loud \in BOOLEAN, NEW v \in Verdicts, CaptureWindow(loud, v) PROVE FrameInv'
  <2>1. phase = "capturing"
    BY <1>3 DEF CaptureWindow
  <2>2. PICK h : h = MwwStep(heard, v)
    OBVIOUS
  <2>3. (~h.wake /\ PlayTune) \/ Stream(h)
    BY <1>3, <2>2 DEF CaptureWindow
  <2>4. CASE ~h.wake /\ PlayTune
    BY <2>1, <2>2, <2>4, TuneKeeps
  <2>5. CASE Stream(h)
    BY <2>1, <2>2, <2>5, StreamKeeps
  <2> QED BY <2>3, <2>4, <2>5
<1>4. CASE FeedbackEnds
  <2>1. phase' = "idle" /\ stream' = "none" /\ window' = 0 /\ woke' = 0 /\ lead' = lead
          /\ started' = started
    BY <1>4 DEF FeedbackEnds
  <2> QED BY <2>1 DEF FrameInv, States
<1>5. CASE UNCHANGED voiceVars
  BY <1>5 DEF voiceVars, FrameInv, Listening, BeforeStream
<1> QED BY <1>1, <1>2, <1>3, <1>4, <1>5 DEF VoiceNext, ReadsWindow

(* At any time the stream to the host and the windows kept for it are as   *)
(* FrameInv says, whatever the sound, the models and the host do.          *)
THEOREM FrameInvariant == VoiceSpec => []FrameInv
<1>1. VoiceInit => FrameInv
  <2> SUFFICES ASSUME VoiceInit PROVE FrameInv
    OBVIOUS
  <2>1. /\ phase \in {"idle", "stopped"} /\ lead = 0 /\ window = 0 /\ woke = 0
        /\ started = FALSE /\ stream = "none"
    BY DEF VoiceInit
  <2> QED BY <2>1 DEF FrameInv, States
<1> QED BY <1>1, FramesKept, PTL DEF VoiceSpec

(* For every length of the pre-roll and of the buffer and every limit, an  *)
(* unbroken connection carries hello, start, the kept windows and the ones *)
(* after them once each and in order, and the end (voice.rs 440-508 and    *)
(* 607-621).                                                               *)
THEOREM UtterancesFramed == VoiceSpec => []Framed
<1>1. FrameInv => Framed
  <2> SUFFICES ASSUME FrameInv, stream = "open" PROVE Framed
    BY DEF Framed
  <2>1. woke # 0
          /\ sent = Utterance(woke, window) \o IF phase = "capturing" THEN <<>> ELSE <<End>>
    BY DEF FrameInv
  <2> QED BY <2>1 DEF Framed, Utterance, Carried, First
<1> QED BY <1>1, FrameInvariant, PTL

(***************************************************************************)
(* What is known of the silence while petito waits.                        *)
(***************************************************************************)

\* `petito` has fired and `yo petito` has not.
Alone(h) == h.music /\ ~h.wake
Late == listen >= FastMax \/ quiet > Slack

\* While it waits, the silence is no longer than it was when it fired and the
\* time that it has waited for; and what ends the capture then is lateness.
TuneInv ==
  /\ silent \in Nat /\ quiet \in Nat /\ pending \in Nat
  /\ phase = "capturing" /\ Alone(heard) => pending < Disambiguation
       /\ silent <= quiet + pending
  /\ phase = "feedback" => ~Alone(heard)
  /\ phase = "idle" /\ Alone(heard) => Late

(* A window that starts no stream and has none leaves the host out of it. *)
LEMMA NoHost ==
  ASSUME FrameInv, phase = "capturing", NEW v \in Verdicts, NEW h, h = MwwStep(heard, v),
         Stream(h), ~h.wake
  PROVE  phase' = IF silent' >= SilenceBudget(h, spoke') \/ listen' >= CommandMax(h)
                    THEN "idle" ELSE "capturing"
<1> DEFINE over == silent' >= SilenceBudget(h, spoke') \/ listen' >= CommandMax(h)
<1>1. ~heard.wake
  BY StaysAwake
<1>2. ~started /\ stream = "none"
  BY <1>1 DEF FrameInv, Listening, BeforeStream
<1>3. PICK s1 \in {[state |-> stream, got |-> sent]} :
      \E s2 \in {s1} : \E s3 \in IF over THEN Send(s2, <<End>>, FALSE) ELSE {s2} :
        phase' = CASE ~over -> "capturing"
                   [] over /\ s3.state = "none" -> "idle"
                   [] OTHER -> "feedback"
  BY <1>1 DEF Stream, WasAwake
<1> HIDE DEF over
<1>4. PICK s3 \in (IF over THEN Send(s1, <<End>>, FALSE) ELSE {s1}) :
        phase' = CASE ~over -> "capturing"
                   [] over /\ s3.state = "none" -> "idle"
                   [] OTHER -> "feedback"
  BY <1>3
<1>5. s1.state = "none"
  BY <1>2, <1>3
<1>6. Send(s1, <<End>>, FALSE) = {s1}
  BY <1>5 DEF Send
<1>7. s3.state = "none"
  BY <1>4, <1>5, <1>6
<1>8. phase' = IF over THEN "idle" ELSE "capturing"
  BY <1>4, <1>7
<1> QED BY <1>8 DEF over

(* Silence that outlasts the waiting was there before it. *)
LEMMA LateQuiet ==
  ASSUME NEW d \in Nat, NEW k \in Nat, NEW b \in Nat, b >= d + k,
         NEW s \in Nat, NEW q \in Nat, NEW p \in Nat, s <= q + p, p < d, s >= b
  PROVE  q > k
OBVIOUS

(* A window of the capture adds at most one to the silence and, while      *)
(* `petito` waits, exactly one to its waiting.                             *)
LEMMA WindowKeepsTune ==
  ASSUME TuneInv, FrameInv, phase = "capturing", NEW loud \in BOOLEAN, NEW v \in Verdicts,
         NEW h, h = MwwStep(heard, v), Account(loud, h), Stream(h),
         ~(h.music /\ ~h.wake /\ PendingAfter(h) >= Disambiguation)
  PROVE  TuneInv'
<1>1. /\ heard' = h /\ pending' = PendingAfter(h)
      /\ quiet' = (IF h.music /\ ~heard.music THEN silent ELSE quiet)
  BY DEF Stream
<1>2. silent \in Nat /\ quiet \in Nat /\ pending \in Nat /\ Disambiguation \in Nat \ {0}
        /\ Slack \in Nat
  BY VoiceAssumption DEF TuneInv
<1>3. pending' \in Nat /\ quiet' \in Nat
  BY <1>1, <1>2 DEF PendingAfter
<1>4. silent' \in Nat
  BY <1>2 DEF Account
<1>5. ASSUME Alone(h)
      PROVE  /\ pending' < Disambiguation /\ silent' <= quiet' + pending'
             /\ phase' # "feedback"
             /\ phase' = "idle" => Late'
  <2>1. h.music /\ ~h.wake /\ ~heard.wake
    BY <1>5, StaysAwake DEF Alone
  <2>2. pending' = pending + 1 /\ pending' < Disambiguation
    BY <2>1, <1>1, <1>2 DEF PendingAfter
  <2>3. silent' <= silent + 1
    BY <2>1, <1>2 DEF Account
  <2>4. silent' <= quiet' + pending'
    <3>1. CASE heard.music
      <4>1. silent <= quiet + pending /\ quiet' = quiet
        BY <3>1, <2>1, <1>1 DEF TuneInv, Alone
      <4> QED BY <4>1, <2>2, <2>3, <1>2, <1>4
    <3>2. CASE ~heard.music
      <4>1. quiet' = silent
        BY <3>2, <2>1, <1>1
      <4> QED BY <4>1, <2>2, <2>3, <1>2, <1>4
    <3> QED BY <3>1, <3>2
  <2>5. SilenceBudget(h, spoke') >= Disambiguation + Slack /\ CommandMax(h) = FastMax
    <3>1. SilenceBudget(h, spoke') = LargerOf(Disambiguation + Slack, Silence)
      BY <2>1 DEF SilenceBudget
    <3>2. Silence \in Nat
      BY VoiceAssumption
    <3> QED BY <3>1, <3>2, <2>1, <1>2 DEF LargerOf, CommandMax
  <2>6. SilenceBudget(h, spoke') \in Nat
    BY <2>1, VoiceAssumption DEF SilenceBudget, LargerOf
  <2>7. phase' = IF silent' >= SilenceBudget(h, spoke') \/ listen' >= FastMax
                   THEN "idle" ELSE "capturing"
    BY <2>1, <2>5, NoHost
  <2>8. silent' >= SilenceBudget(h, spoke') => quiet' > Slack
    <3>1. PICK b \in Nat : b = SilenceBudget(h, spoke')
      BY <2>6
    <3>2. b >= Disambiguation + Slack
      BY <2>5, <3>1
    <3>3. /\ silent' \in Nat /\ quiet' \in Nat /\ pending' \in Nat
          /\ silent' <= quiet' + pending' /\ pending' < Disambiguation
      BY <1>3, <1>4, <2>2, <2>4
    <3>4. silent' >= b => quiet' > Slack
      BY <3>2, <3>3, <1>2, LateQuiet
    <3> QED BY <3>1, <3>4
  <2> QED BY <2>2, <2>4, <2>7, <2>8 DEF Late
<1> QED BY <1>1, <1>3, <1>4, <1>5 DEF TuneInv

LEMMA TunesKept == ASSUME TuneInv, FrameInv, [VoiceNext]_voiceVars PROVE TuneInv'
<1>1. CASE IdleWindow
  BY <1>1 DEF IdleWindow, TuneInv, timers, Alone, Late
<1>2. CASE OpenGate
  <2>1. phase' = "capturing" /\ pending' = 0 /\ silent' = 0 /\ quiet' = 0
    BY <1>2 DEF OpenGate
  <2>2. Disambiguation \in Nat \ {0}
    BY VoiceAssumption
  <2> QED BY <2>1, <2>2 DEF TuneInv
<1>3. ASSUME NEW loud \in BOOLEAN, NEW v \in Verdicts, CaptureWindow(loud, v) PROVE TuneInv'
  <2>1. PICK h : h = MwwStep(heard, v)
    OBVIOUS
  <2>2. /\ phase = "capturing" /\ Account(loud, h)
        /\ IF h.music /\ ~h.wake
             /\ PendingAfter(h) >= Disambiguation THEN PlayTune ELSE Stream(h)
    BY <1>3, <2>1 DEF CaptureWindow
  <2>3. CASE h.music /\ ~h.wake /\ PendingAfter(h) >= Disambiguation
    <3>1. /\ phase' \in {"idle", "stopped"} /\ heard' = NothingHeard /\ pending' = 0
               /\ quiet' = 0
      BY <2>2, <2>3 DEF PlayTune
    <3>2. silent' \in Nat
      BY <2>2 DEF TuneInv, Account
    <3>3. ~Alone(heard')
      BY <3>1 DEF Alone, NothingHeard
    <3> QED BY <3>1, <3>2, <3>3 DEF TuneInv
  <2>4. CASE ~(h.music /\ ~h.wake /\ PendingAfter(h) >= Disambiguation)
    BY <2>1, <2>2, <2>4, WindowKeepsTune
  <2> QED BY <2>3, <2>4
<1>4. CASE FeedbackEnds
  <2>1. /\ phase = "feedback" /\ phase' = "idle" /\ quiet' = 0
        /\ heard' = heard /\ pending' = pending /\ silent' = silent
    BY <1>4 DEF FeedbackEnds, timers
  <2> QED BY <2>1 DEF TuneInv, Alone
<1>5. CASE UNCHANGED voiceVars
  BY <1>5 DEF voiceVars, TuneInv, Alone, Late
<1> QED BY <1>1, <1>2, <1>3, <1>4, <1>5 DEF VoiceNext, ReadsWindow

(* For all limits of the timers: for `petito` without `yo petito` the      *)
(* buzzer is asked for a tune, unless the capture reached its limit first  *)
(* or more than Slack windows were quiet already when it fired (voice.rs   *)
(* 526-589).                                                               *)
THEOREM PetitoAnswered == VoiceSpec => []TuneUnlessLate
<1>1. VoiceInit => TuneInv
  <2>1. VoiceInit => ~Alone(heard)
    BY DEF VoiceInit, Alone, NothingHeard
  <2> QED BY <2>1 DEF VoiceInit, TuneInv
<1>2. TuneInv => TuneUnlessLate
  BY DEF TuneInv, TuneUnlessLate, Alone, Late
<1> QED BY <1>1, <1>2, TunesKept, FrameInvariant, PTL DEF VoiceSpec

(***************************************************************************)
(* The bounds of the buffers and the timers.                               *)
(***************************************************************************)

Heard == [petito : 0..Hits, yo : 0..Hits, music : BOOLEAN, wake : BOOLEAN]

\* While a capture runs it is within its limits, and its window is as far
\* behind the pre-roll as it has listened, before and since the wake.
BoundsInv ==
  /\ lead \in 0..Preroll /\ window \in 0..(Preroll + FastMax + ExtendedMax)
  /\ heard \in Heard /\ pending \in Nat /\ pending < Disambiguation
  /\ silent \in Nat /\ listen \in Nat /\ silent <= listen
       /\ listen <= LargerOf(FastMax, ExtendedMax)
  /\ paused \in BOOLEAN /\ spoke \in BOOLEAN
  /\ prewake \in Seq(Nat) /\ Len(prewake) <= Prewake
  /\ phase = "capturing" =>
       listen < CommandMax(heard) /\ window <= Preroll + listen + IF started THEN FastMax ELSE 0

(* What the models made of the windows so far is of the same kind after *)
(* another one.                                                         *)
LEMMA StepHears == ASSUME NEW h \in Heard, NEW v PROVE MwwStep(h, v) \in Heard
<1>1. Hits \in Nat \ {0}
  BY VoiceAssumption
<1>2. \A k \in 0..Hits : SmallerOf(k + 1, Hits) \in 0..Hits /\ 0 \in 0..Hits
  BY <1>1 DEF SmallerOf
<1>3. h.petito \in 0..Hits /\ h.yo \in 0..Hits /\ h.music \in BOOLEAN /\ h.wake \in BOOLEAN
  BY DEF Heard
<1>4. PICK p \in 0..Hits : p = HitsAfter(h.petito, "petito" \in v)
  BY <1>2, <1>3 DEF HitsAfter
<1>5. PICK y \in 0..Hits : y = HitsAfter(h.yo, "yo" \in v)
  BY <1>2, <1>3 DEF HitsAfter
<1>6. MwwStep(h, v) = IF v = {"unready"} \/ h.wake THEN h
                      ELSE [petito |-> p, yo |-> y,
                            music |-> (h.music \/ p = Hits), wake |-> (h.wake \/ y = Hits)]
  BY <1>4, <1>5 DEF MwwStep
<1> QED BY <1>6 DEF Heard

(* So it is after the windows of the pre-roll, however many. *)
LEMMA WarmedHears == ASSUME NEW n \in Nat, NEW v \in [1..n -> Verdicts]
                     PROVE  Warmed(v) \in Heard
<1> DEFINE Is(f) == f = [k \in 0..n |-> IF k = 0 THEN NothingHeard ELSE MwwStep(f[k - 1], v[k])]
           F == [k \in 1..n |-> [h \in Heard |-> MwwStep(h, v[k])]]
<1>1. NothingHeard \in Heard
  BY VoiceAssumption DEF NothingHeard, Heard
<1>2. Len(v) = n
  OBVIOUS
<1>3. F \in [1..n -> [Heard -> Heard]]
        /\ \A k \in 1..n : \A h \in Heard : F[k][h] = MwwStep(h, v[k])
  BY StepHears
<1> HIDE DEF F
<1>4. PICK f \in [0..n -> Heard] : f[0] = NothingHeard /\ \A k \in 1..n : f[k] = F[k][f[k - 1]]
  <2>1. Iterations(n, Heard, NothingHeard, F) # {}
    BY <1>1, <1>3, Recursion
  <2> QED BY <2>1 DEF Iterations
<1>5. Is(f)
  <2>1. ASSUME NEW k \in 1..n PROVE f[k] = MwwStep(f[k - 1], v[k])
    <3>1. f[k - 1] \in Heard
      BY <1>4
    <3> QED BY <1>3, <1>4, <3>1
  <2> QED BY <1>4, <2>1
<1>6. PICK after : after = (CHOOSE g : Is(g))
  OBVIOUS
<1>7. Is(after)
  BY <1>5, <1>6
<1>8. Warmed(v) = after[n]
  BY <1>2, <1>6 DEF Warmed
<1> DEFINE S == {k \in 0..n : after[k] \in Heard}
<1>9. 0 \in S
  BY <1>1, <1>7
<1>10. ASSUME NEW k \in 1..n, k - 1 \in S PROVE k \in S
  BY <1>7, <1>10, StepHears
<1> HIDE DEF S
<1>11. 0..n \subseteq S
  BY <1>9, <1>10, SetInductionTo
<1> QED BY <1>8, <1>11 DEF S

(* The windows kept are no more than the buffer has room for. *)
LEMMA KeptType ==
  ASSUME prewake \in Seq(Nat), Len(prewake) <= Prewake, window \in Nat
  PROVE  Kept \in Seq(Nat) /\ Len(Kept) <= Prewake
<1>1. PICK s \in Seq(Nat) : s = Append(prewake, window + 1)
  <2>1. window + 1 \in Nat
    OBVIOUS
  <2> QED BY <2>1, AppendProperties
<1>2. Prewake \in Nat \ {0} /\ Len(s) \in Nat
  BY VoiceAssumption
<1>3. PICK m \in 1..(Len(s) + 1) : m = LargerOf(1, Len(s) - Prewake + 1)
  BY <1>2 DEF LargerOf
<1>4. Len(s) - m + 1 <= Prewake
  BY <1>2, <1>3 DEF LargerOf
<1>5. SubSeq(s, m, Len(s)) \in Seq(Nat) /\ Len(SubSeq(s, m, Len(s))) = Len(s) - m + 1
  <2>1. \A i \in m..Len(s) : s[i] \in Nat
    BY <1>3
  <2>2. m \in Int /\ Len(s) \in Int /\ m <= Len(s) + 1
    BY <1>2, <1>3
  <2> QED BY <2>1, <2>2, SubSeqProperties
<1>6. LastOf(s, Prewake) = SubSeq(s, m, Len(s))
  BY <1>3 DEF LastOf
<1> QED BY <1>1, <1>4, <1>5, <1>6 DEF Kept

(* A capture goes on only within its limits. *)
LEMMA GoesOn ==
  ASSUME NEW h, Stream(h), phase' = "capturing"
  PROVE  ~(silent' >= SilenceBudget(h, spoke') \/ listen' >= CommandMax(h))
<1> DEFINE over == silent' >= SilenceBudget(h, spoke') \/ listen' >= CommandMax(h)
<1>1. \E s3 : phase' = CASE ~over -> "capturing"
                         [] over /\ s3.state = "none" -> "idle"
                         [] OTHER -> "feedback"
  BY DEF Stream
<1> HIDE DEF over
<1>2. ~over
  BY <1>1
<1> QED BY <1>2 DEF over

(* A window of the capture adds at most one to everything. *)
LEMMA WindowBounds ==
  ASSUME BoundsInv, FrameInv, FrameInv', phase = "capturing", NEW loud \in BOOLEAN, NEW v \in Verdicts,
         NEW h, h = MwwStep(heard, v), Account(loud, h), Stream(h),
         ~(h.music /\ ~h.wake /\ PendingAfter(h) >= Disambiguation)
  PROVE  BoundsInv'
<1> DEFINE starts == h.wake /\ ~started
<1>1. /\ window' = window + 1 /\ heard' = h /\ pending' = PendingAfter(h) /\ lead' = lead
      /\ started' = (started \/ h.wake)
      /\ prewake' = <<>> \/ prewake' = Kept
  BY DEF Stream
<1>2. /\ lead \in 0..Preroll /\ window \in Nat /\ pending \in Nat /\ pending < Disambiguation
      /\ silent \in Nat /\ listen \in Nat /\ silent <= listen
      /\ prewake \in Seq(Nat) /\ Len(prewake) <= Prewake /\ heard \in Heard
      /\ listen < CommandMax(heard)
           /\ window <= Preroll + listen + IF started THEN FastMax ELSE 0
  <2>1. 0..(Preroll + FastMax + ExtendedMax) \subseteq Nat
    BY VoiceAssumption
  <2> QED BY <2>1 DEF BoundsInv
<1>3. /\ Preroll \in Nat \ {0} /\ FastMax \in Nat \ {0} /\ ExtendedMax \in Nat \ {0}
           /\ Prewake \in Nat \ {0}
      /\ Disambiguation \in Nat \ {0}
  BY VoiceAssumption
<1>4. h \in Heard /\ h.wake \in BOOLEAN /\ started \in BOOLEAN
  BY <1>2, StepHears DEF Heard, FrameInv
<1>5. pending' \in Nat /\ pending' < Disambiguation
  <2>1. CASE h.wake
    <3>1. pending' = 0
      BY <1>1, <2>1 DEF PendingAfter
    <3> QED BY <1>3, <3>1
  <2>2. CASE ~h.wake /\ h.music
    <3>1. pending' = pending + 1 /\ ~(pending' >= Disambiguation)
      BY <1>1, <2>2 DEF PendingAfter
    <3> QED BY <1>2, <1>3, <3>1
  <2>3. CASE ~h.wake /\ ~h.music
    <3>1. pending' = pending
      BY <1>1, <2>3 DEF PendingAfter
    <3> QED BY <1>2, <3>1
  <2> QED BY <2>1, <2>2, <2>3
<1>6. /\ listen' = (IF starts THEN 0 ELSE listen) + 1
      /\ silent' = IF loud THEN 0 ELSE (IF starts THEN 0 ELSE silent) + 1
  BY DEF Account
<1>7. paused' \in BOOLEAN /\ spoke' \in BOOLEAN
  <2>1. paused \in BOOLEAN /\ spoke \in BOOLEAN
    BY DEF BoundsInv
  <2>2. paused' = (paused \/ (h.wake /\ ~loud))
          /\ spoke' = (spoke \/ (h.wake /\ loud /\ paused))
    BY DEF Account
  <2> QED BY <2>1, <2>2
<1>8. listen' \in Nat /\ silent' \in Nat /\ silent' <= listen'
  BY <1>2, <1>6
<1>9. prewake' \in Seq(Nat) /\ Len(prewake') <= Prewake
  <2>1. Kept \in Seq(Nat) /\ Len(Kept) <= Prewake
    BY <1>2, KeptType
  <2>2. <<>> \in Seq(Nat) /\ Len(<<>>) <= Prewake
    BY <1>3
  <2> QED BY <1>1, <2>1, <2>2
<1>10. CASE starts
  <2>1. listen' = 1 /\ started' /\ CommandMax(h) = ExtendedMax
    <3>1. h.wake /\ ~started
      BY <1>10
    <3>2. starts <=> TRUE
      BY <3>1
    <3>3. listen' = 1
      BY <1>6, <3>2
    <3>4. started'
      BY <1>1, <3>1
    <3> QED BY <3>1, <3>3, <3>4 DEF CommandMax
  <2>2. window' <= Preroll + FastMax
    <3>1. CASE heard.wake
      <4>1. window <= Preroll
        BY <1>10, <3>1 DEF FrameInv, Listening, BeforeStream
      <4> QED BY <4>1, <1>1, <1>2, <1>3
    <3>2. CASE ~heard.wake
      <4>1. CommandMax(heard) = FastMax /\ (IF started THEN FastMax ELSE 0) = 0
        BY <1>10, <3>2 DEF CommandMax
      <4>2. listen < FastMax /\ window <= Preroll + listen + 0
        BY <4>1, <1>2
      <4> QED BY <4>2, <1>1, <1>2, <1>3
    <3> QED BY <3>1, <3>2
  <2>3. listen' <= LargerOf(FastMax, ExtendedMax)
    BY <2>1, <1>3 DEF LargerOf
  <2>4. window' \in 0..(Preroll + FastMax + ExtendedMax)
        /\ window' <= Preroll + listen' + IF started' THEN FastMax ELSE 0
    BY <2>1, <2>2, <1>1, <1>2, <1>3
  <2>5. phase' = "capturing" => listen' < CommandMax(heard')
    BY <2>1, <1>1, <1>3, GoesOn
  <2> QED BY <1>1, <1>2, <1>4, <1>5, <1>7, <1>8, <1>9, <2>3, <2>4, <2>5 DEF BoundsInv
<1>11. CASE ~starts
  <2>1. listen' = listen + 1 /\ started' = started
    BY <1>1, <1>4, <1>6, <1>11
  <2>2. heard.wake <=> h.wake
    <3>1. heard.wake => h.wake
      BY StaysAwake
    <3>2. started => heard.wake
      BY DEF FrameInv, Listening
    <3> QED BY <1>11, <3>1, <3>2
  <2>3. CommandMax(h) = CommandMax(heard) /\ CommandMax(h) \in Nat /\ listen' <= CommandMax(h)
    BY <2>1, <2>2, <1>2, <1>3 DEF CommandMax
  <2>4. listen' <= LargerOf(FastMax, ExtendedMax)
    BY <2>3, <1>3, <1>8 DEF CommandMax, LargerOf
  <2>5. window' <= Preroll + listen' + IF started' THEN FastMax ELSE 0
    BY <2>1, <1>1, <1>2, <1>3, <1>4
  <2>6. listen' <= IF started' THEN ExtendedMax ELSE FastMax
    <3>1. started => h.wake
      BY <2>2 DEF FrameInv, Listening
    <3>2. h.wake => started
      BY <1>11
    <3> QED BY <2>1, <2>3, <3>1, <3>2 DEF CommandMax
  <2>7. window' \in 0..(Preroll + FastMax + ExtendedMax)
    BY <2>1, <2>5, <2>6, <1>1, <1>2, <1>3, <1>4, <1>8
  <2>8. phase' = "capturing" => listen' < CommandMax(heard')
    BY <2>3, <1>1, <1>8, GoesOn
  <2> QED BY <1>1, <1>2, <1>4, <1>5, <1>7, <1>8, <1>9, <2>4, <2>5, <2>7, <2>8 DEF BoundsInv
<1> QED BY <1>10, <1>11

(* A tune starts everything over but the timers. *)
LEMMA TuneBounds ==
  ASSUME BoundsInv, phase = "capturing", NEW loud \in BOOLEAN, NEW h, Account(loud, h), PlayTune,
         ~h.wake, heard.wake => h.wake
  PROVE  BoundsInv'
<1>1. /\ phase' # "capturing" /\ heard' = NothingHeard /\ pending' = 0 /\ prewake' = <<>>
      /\ lead' = 0 /\ window' = 0
  BY DEF PlayTune
<1>2. /\ Preroll \in Nat \ {0} /\ FastMax \in Nat \ {0} /\ ExtendedMax \in Nat \ {0}
           /\ Prewake \in Nat \ {0}
      /\ Disambiguation \in Nat \ {0} /\ Hits \in Nat
  BY VoiceAssumption
<1>3. silent \in Nat /\ listen \in Nat /\ silent <= listen /\ listen < FastMax
  BY DEF BoundsInv, CommandMax
<1>4. listen' = listen + 1 /\ silent' = IF loud THEN 0 ELSE silent + 1
  BY DEF Account
<1>5. /\ listen' \in Nat /\ silent' \in Nat /\ silent' <= listen'
           /\ listen' <= LargerOf(FastMax, ExtendedMax)
  BY <1>2, <1>3, <1>4 DEF LargerOf
<1>6. paused' \in BOOLEAN /\ spoke' \in BOOLEAN
  <2>1. paused \in BOOLEAN /\ spoke \in BOOLEAN
    BY DEF BoundsInv
  <2>2. paused' = (paused \/ (h.wake /\ ~loud))
          /\ spoke' = (spoke \/ (h.wake /\ loud /\ paused))
    BY DEF Account
  <2> QED BY <2>1, <2>2
<1>7. NothingHeard \in Heard
  BY <1>2 DEF NothingHeard, Heard
<1>8. /\ 0 \in 0..(Preroll + FastMax + ExtendedMax) /\ 0 \in 0..Preroll /\ 0 \in Nat
      /\ 0 < Disambiguation /\ <<>> \in Seq(Nat) /\ Len(<<>>) <= Prewake
  BY <1>2
<1> QED BY <1>1, <1>5, <1>6, <1>7, <1>8 DEF BoundsInv

(* The gate opens on a full pre-roll at most. *)
LEMMA GateBounds == ASSUME BoundsInv, OpenGate PROVE BoundsInv'
<1>1. /\ Preroll \in Nat \ {0} /\ FastMax \in Nat \ {0} /\ ExtendedMax \in Nat \ {0}
           /\ Prewake \in Nat \ {0}
      /\ Disambiguation \in Nat \ {0} /\ Preroll <= Prewake
  BY VoiceAssumption
<1>2. PICK w \in 1..Preroll : w = SmallerOf(lead + 1, Preroll)
  BY <1>1 DEF BoundsInv, SmallerOf
<1>3. /\ window' = w /\ prewake' = [i \in 1..w |-> i] /\ lead' = 0 /\ pending' = 0
      /\ listen' = 0 /\ silent' = 0 /\ paused' = FALSE /\ spoke' = FALSE /\ started' = FALSE
      /\ \E v \in [1..w -> Verdicts] : heard' = Warmed(v)
  BY <1>2 DEF OpenGate
<1>4. heard' \in Heard
  <2>1. w \in Nat
    BY <1>1
  <2> QED BY <2>1, <1>3, WarmedHears
<1>5. prewake' \in Seq(Nat) /\ Len(prewake') <= Prewake
  BY <1>1, <1>3
<1>6. 0 < CommandMax(heard') /\ 0 <= LargerOf(FastMax, ExtendedMax)
  BY <1>1 DEF CommandMax, LargerOf
<1>7. /\ w \in 0..(Preroll + FastMax + ExtendedMax) /\ 0 \in 0..Preroll /\ 0 < Disambiguation
      /\ w <= Preroll + 0 + IF FALSE THEN FastMax ELSE 0
  BY <1>1, <1>2
<1>8. phase' = "capturing" => listen' < CommandMax(heard')
        /\ window' <= Preroll + listen' + IF started' THEN FastMax ELSE 0
  BY <1>3, <1>6, <1>7
<1>9. /\ lead' \in 0..Preroll /\ window' \in 0..(Preroll + FastMax + ExtendedMax)
      /\ pending' \in Nat /\ pending' < Disambiguation /\ paused' \in BOOLEAN
           /\ spoke' \in BOOLEAN
  BY <1>3, <1>7
<1>10. silent' \in Nat /\ listen' \in Nat /\ silent' <= listen'
         /\ listen' <= LargerOf(FastMax, ExtendedMax)
  BY <1>3, <1>6
<1> QED BY <1>4, <1>5, <1>8, <1>9, <1>10 DEF BoundsInv

(* No step of the voice thread leaves the bounds. *)
LEMMA BoundsKept ==
  ASSUME BoundsInv, FrameInv, FrameInv', [VoiceNext]_voiceVars
  PROVE  BoundsInv'
<1>1. CASE IdleWindow
  <2>1. lead' \in 0..Preroll
    <3>1. lead \in 0..Preroll /\ Preroll \in Nat
      BY VoiceAssumption DEF BoundsInv
    <3>2. lead' = SmallerOf(lead + 1, Preroll)
      BY <1>1 DEF IdleWindow
    <3> QED BY <3>1, <3>2 DEF SmallerOf
  <2> QED BY <1>1, <2>1 DEF IdleWindow, timers, BoundsInv
<1>2. CASE OpenGate
  BY <1>2, GateBounds
<1>3. ASSUME NEW loud \in BOOLEAN, NEW v \in Verdicts, CaptureWindow(loud, v) PROVE BoundsInv'
  <2>1. PICK h : h = MwwStep(heard, v)
    OBVIOUS
  <2>2. /\ phase = "capturing" /\ Account(loud, h)
        /\ IF h.music /\ ~h.wake
             /\ PendingAfter(h) >= Disambiguation THEN PlayTune ELSE Stream(h)
    BY <1>3, <2>1 DEF CaptureWindow
  <2>3. heard.wake => h.wake
    BY <2>1, StaysAwake
  <2> QED BY <2>1, <2>2, <2>3, WindowBounds, TuneBounds
<1>4. CASE FeedbackEnds
  <2>1. /\ phase' = "idle" /\ prewake' = <<>> /\ window' = 0
        /\ UNCHANGED <<lead, heard, pending, listen, silent, paused, spoke>>
    BY <1>4 DEF FeedbackEnds, timers
  <2> QED BY <2>1, VoiceAssumption DEF BoundsInv
<1>5. CASE UNCHANGED voiceVars
  BY <1>5 DEF voiceVars, BoundsInv, CommandMax
<1> QED BY <1>1, <1>2, <1>3, <1>4, <1>5 DEF VoiceNext, ReadsWindow

(* In the beginning nothing was heard. *)
LEMMA BoundsInitially == VoiceInit => BoundsInv
<1>1. /\ Preroll \in Nat \ {0} /\ FastMax \in Nat \ {0} /\ ExtendedMax \in Nat \ {0}
           /\ Prewake \in Nat \ {0}
      /\ Disambiguation \in Nat \ {0} /\ Hits \in Nat
  BY VoiceAssumption
<1>2. NothingHeard \in Heard /\ 0 <= LargerOf(FastMax, ExtendedMax)
  BY <1>1 DEF NothingHeard, Heard, LargerOf
<1>3. /\ 0 \in 0..(Preroll + FastMax + ExtendedMax) /\ 0 \in 0..Preroll /\ 0 < Disambiguation
      /\ <<>> \in Seq(Nat) /\ Len(<<>>) <= Prewake
  BY <1>1
<1>4. 0 \in Nat /\ 0 <= 0 /\ "idle" # "capturing" /\ "stopped" # "capturing"
        /\ FALSE \in BOOLEAN
  OBVIOUS
<1> QED BY <1>2, <1>3, <1>4 DEF VoiceInit, BoundsInv

(* For all limits of the timers and lengths of the buffers no timer runs   *)
(* beyond the limit of a command, no buffer grows beyond its length, and a *)
(* capture ends after at most a pre-roll and two commands (voice.rs        *)
(* 436-589).                                                               *)
THEOREM VoiceBounded == VoiceSpec => []VoiceTypeOK
<1>1. VoiceInit => BoundsInv
  BY BoundsInitially
<1>2. BoundsInv /\ FrameInv /\ FrameInv' /\ [VoiceNext]_voiceVars => BoundsInv'
  BY BoundsKept
<1>3. BoundsInv /\ FrameInv /\ BuzzerInv => VoiceTypeOK
  <2>1. LargerOf(FastMax, ExtendedMax) \in Nat /\ Disambiguation \in Nat
    BY VoiceAssumption DEF LargerOf
  <2> QED BY <2>1 DEF BoundsInv, FrameInv, BuzzerInv, VoiceTypeOK, Heard, States
<1> QED BY <1>1, <1>2, <1>3, FrameInvariant, PlayerInvariant, PTL DEF VoiceSpec
=============================================================================

-------------------------------- MODULE Voice --------------------------------
(***************************************************************************)
(* The voice thread (voice.rs): a loudness gate opens a capture, two wake  *)
(* models listen, `petito` plays a tune on the board and `yo petito`       *)
(* streams the utterance to the audio bridge.                              *)
(*                                                                         *)
(* The unit of time is the window the microphone delivers (64 ms).  The    *)
(* windows of a capture are numbered from 1, its pre-roll included.  The   *)
(* two pre-rolls and the LED are left out: the first have the same windows *)
(* in them, the second shows what is known here anyway.                    *)
(***************************************************************************)
EXTENDS Buzzer, Integers, Sequences

CONSTANTS
  Preroll,      \* PREROLL_WINDOWS
  Prewake,      \* PREWAKE_WINDOWS
  Hits,         \* WAKE_CONSECUTIVE_HITS
  Disambiguation, \* PETITO_DISAMBIGUATION_MS
  Slack,        \* the 250 ms added to it
  Silence,      \* silence_timeout_ms
  PostWake,     \* POST_WAKE_SILENCE_MS
  FastMax,      \* FAST_COMMAND_MAX_MS
  ExtendedMax   \* EXTENDED_COMMAND_MAX_MS

ASSUME VoiceAssumption ==
  /\ {Preroll, Prewake, Hits, Disambiguation, Silence, PostWake, FastMax, ExtendedMax} \subseteq Nat \ {0}
  /\ Slack \in Nat /\ Preroll <= Prewake

VARIABLES
  phase,   \* "idle", "capturing", "feedback" (waits for the host), "stopped"
  lead,    \* windows in the pre-roll
  window,  \* number of the last window captured (history; also win_n)
  heard,   \* what the models made of it: consecutive hits, and what has fired
  pending, \* petito_pending_ms
  listen, silent, \* listen_ms and silent_ms
  paused, spoke,  \* wake_pause_seen and spoke_after_wake
  prewake, \* prewake_audio: window numbers
  started, \* wake_stream_started
  stream,  \* "none", "open", or "broken": the host receives nothing any more
  sent,    \* the frames that reached the host over the open connection (history)
  woke,    \* the window `yo petito` fired in, 0 before (history)
  quiet    \* silent when `petito` fired (history)

player == buzzerVars
timers == <<listen, silent, paused, spoke>>
wire == <<started, stream, sent>>
voiceVars == <<phase, lead, window, heard, pending, listen, silent, paused, spoke, prewake,
  started, stream, sent, woke, quiet, tuneOrder, nextTune, lastTune>>

LargerOf(a, b) == IF a > b THEN a ELSE b
SmallerOf(a, b) == IF a < b THEN a ELSE b
\* The last k elements of s, or all.
LastOf(s, k) == SubSeq(s, LargerOf(1, Len(s) - k + 1), Len(s))

(***************************************************************************)
(* mww_step.  wake stands for wake_fired and extended_wake_fired, which    *)
(* are always set together.  Hits are counted up to Hits, and only until   *)
(* the wake: nothing but a log line depends on them later.                 *)
(***************************************************************************)
NothingHeard == [petito |-> 0, yo |-> 0, music |-> FALSE, wake |-> FALSE]
\* What the models may say of a window: nothing, as long as there are no
\* frames for them, or which of the two was recognised.
Verdicts == {{"unready"}} \cup SUBSET {"petito", "yo"}
HitsAfter(hits, hit) == IF hit THEN SmallerOf(hits + 1, Hits) ELSE 0
MwwStep(h, v) ==
  IF v = {"unready"} \/ h.wake THEN h
  ELSE LET p == HitsAfter(h.petito, "petito" \in v)
           y == HitsAfter(h.yo, "yo" \in v)
       IN [petito |-> p, yo |-> y,
           music |-> (h.music \/ p = Hits), wake |-> (h.wake \/ y = Hits)]

\* What they have made of a run of windows.
Warmed(v) ==
  LET after[i \in 0..Len(v)] == IF i = 0 THEN NothingHeard ELSE MwwStep(after[i - 1], v[i])
  IN  after[Len(v)]

VoiceInit ==
  /\ BuzzerInit
  /\ phase \in {"idle", "stopped"}  \* the LED, the microphone or both may fail
  /\ lead = 0 /\ window = 0 /\ heard = NothingHeard /\ pending = 0
  /\ listen = 0 /\ silent = 0 /\ paused = FALSE /\ spoke = FALSE
  /\ prewake = <<>> /\ started = FALSE /\ stream = "none" /\ sent = <<>>
  /\ woke = 0 /\ quiet = 0

\* Below the gate: the window is only kept for the pre-roll.
IdleWindow ==
  /\ phase = "idle"
  /\ lead' = SmallerOf(lead + 1, Preroll)
  /\ UNCHANGED <<phase, window, heard, pending, timers, prewake, wire, woke, quiet, player>>

\* The gate opens; the models are warmed on the pre-roll, and may fire on it.
OpenGate ==
  /\ phase = "idle"
  /\ phase' = "capturing"
  /\ window' = SmallerOf(lead + 1, Preroll)
  /\ \E v \in [1..window' -> Verdicts] : heard' = Warmed(v)
  /\ prewake' = [i \in 1..window' |-> i]
  /\ lead' = 0 /\ pending' = 0
  /\ listen' = 0 /\ silent' = 0 /\ paused' = FALSE /\ spoke' = FALSE
  /\ started' = FALSE /\ sent' = <<>>
  /\ woke' = (IF heard'.wake THEN window' ELSE 0) /\ quiet' = 0
  /\ UNCHANGED <<stream, player>>

(***************************************************************************)
(* The stream to the host: a state of the connection and the frames that   *)
(* arrived over it.  Each send below yields the set of its outcomes.       *)
(***************************************************************************)
Hello == <<"hello", 0>>
Start == <<"start", 0>>
Chunk(w) == <<"chunk", w>>
End == <<"end", 0>>
Chunks(ws) == [i \in 1..Len(ws) |-> Chunk(ws[i])]

\* send_frame for each of the frames; the connection may break before any, and
\* what arrived until then is forgotten here.  Where the result is checked, an
\* error drops the connection.
Broken(checked) == {[state |-> s, got |-> <<>>] : s \in IF checked THEN {"broken", "none"} ELSE {"broken"}}
Send(conn, frames, checked) ==
  CASE conn.state = "none" -> {conn}
    [] conn.state = "broken" -> Broken(checked)
    [] conn.state = "open" -> {[state |-> "open", got |-> conn.got \o frames]} \cup Broken(checked)

\* connect_any, hello, start and what was kept from before the wake.
StartStream(kept) ==
  {[state |-> "none", got |-> sent]}
    \cup Send([state |-> "open", got |-> sent], <<Hello, Start>> \o Chunks(kept), FALSE)

(***************************************************************************)
(* A window while capturing.                                               *)
(***************************************************************************)
\* A mutant: the time `petito` has to wait is not allowed for.
BudgetUnextended(h, spoken) ==
  IF h.wake /\ ~spoken THEN LargerOf(PostWake, Silence) ELSE Silence
SilenceBudget(h, spoken) ==
  CASE h.music /\ ~h.wake -> LargerOf(Disambiguation + Slack, Silence)
    [] h.wake /\ ~spoken -> LargerOf(PostWake, Silence)
    [] OTHER -> Silence

CommandMax(h) == IF h.wake THEN ExtendedMax ELSE FastMax

\* A mutant: the window the wake fired in is sent by itself as well.
AwakeNow == heard'.wake
\* Awake before this window: only then it is sent by itself.
WasAwake == heard.wake

\* A mutant: the buffer is not bounded.
KeptAll == IF heard.wake THEN prewake ELSE Append(prewake, window + 1)
\* Kept until the wake, this window included.
Kept == IF heard.wake THEN prewake ELSE LastOf(Append(prewake, window + 1), Prewake)

PendingAfter(h) ==
  CASE h.wake -> 0 [] h.music /\ ~h.wake -> pending + 1 [] OTHER -> pending

\* The limits of a command start where the stream does.
Account(loud, h) ==
  LET starts == h.wake /\ ~started
      quietSoFar == IF starts THEN 0 ELSE silent
  IN /\ listen' = (IF starts THEN 0 ELSE listen) + 1
     /\ silent' = IF loud THEN 0 ELSE quietSoFar + 1
     /\ paused' = (paused \/ (h.wake /\ ~loud))
     /\ spoke' = (spoke \/ (h.wake /\ loud /\ paused))

\* `petito` alone: the microphone pauses, a tune is played, if there is a
\* buzzer, and everything starts over; without a microphone the thread ends.
PlayTune ==
  /\ phase' \in {"idle", "stopped"}
  /\ (\E succeeds \in BOOLEAN : PlayRandom(succeeds)) \/ UNCHANGED player
  /\ heard' = NothingHeard /\ pending' = 0 /\ prewake' = <<>> /\ lead' = 0
  /\ window' = 0 /\ quiet' = 0
  /\ UNCHANGED <<wire, woke>>

\* Streaming, and the end of the utterance.
Stream(h) ==
  LET starts == h.wake /\ ~started
      over == silent' >= SilenceBudget(h, spoke') \/ listen' >= CommandMax(h)
  IN /\ window' = window + 1
     /\ heard' = h /\ pending' = PendingAfter(h)
     /\ started' = (started \/ h.wake)
     /\ \E s1 \in IF starts THEN StartStream(Kept) ELSE {[state |-> stream, got |-> sent]} :
        \E s2 \in IF WasAwake THEN Send(s1, <<Chunk(window')>>, TRUE) ELSE {s1} :
        \E s3 \in IF over THEN Send(s2, <<End>>, FALSE) ELSE {s2} :
          /\ stream' = s3.state /\ sent' = s3.got
          /\ phase' = CASE ~over -> "capturing"
                        [] over /\ s3.state = "none" -> "idle"
                        [] OTHER -> "feedback"
     /\ prewake' = IF starts \/ over THEN <<>> ELSE Kept
     /\ woke' = IF h.wake /\ woke = 0 THEN window' ELSE woke
     /\ quiet' = IF h.music /\ ~heard.music THEN silent ELSE quiet
     /\ UNCHANGED <<lead, player>>

CaptureWindow(loud, v) ==
  /\ phase = "capturing"
  /\ LET h == MwwStep(heard, v) IN
       /\ Account(loud, h)
       /\ IF h.music /\ ~h.wake /\ PendingAfter(h) >= Disambiguation
            THEN PlayTune
            ELSE Stream(h)

\* A mutant: no deadline, a host that is gone is waited for.
FeedbackEndsByHost ==
  /\ phase = "feedback" /\ stream = "open"
  /\ phase' = "idle" /\ stream' = "none" /\ prewake' = <<>>
  /\ window' = 0 /\ sent' = <<>> /\ woke' = 0 /\ quiet' = 0
  /\ UNCHANGED <<lead, heard, pending, timers, started, player>>

\* drive_feedback: done, an error, or 25 s are over.
FeedbackEnds ==
  /\ phase = "feedback"
  /\ phase' = "idle" /\ stream' = "none" /\ prewake' = <<>>
  /\ window' = 0 /\ sent' = <<>> /\ woke' = 0 /\ quiet' = 0
  /\ UNCHANGED <<lead, heard, pending, timers, started, player>>

ReadsWindow ==
  \/ IdleWindow
  \/ OpenGate
  \/ \E loud \in BOOLEAN, v \in Verdicts : CaptureWindow(loud, v)

VoiceNext == ReadsWindow \/ FeedbackEnds

\* The microphone delivers windows, writes to the host return, and feedback
\* has its deadline.
VoiceSpec ==
  VoiceInit /\ [][VoiceNext]_voiceVars /\ WF_voiceVars(ReadsWindow) /\ WF_voiceVars(FeedbackEnds)

-----------------------------------------------------------------------------
(* The types of the variables, and the bounds of the buffer and the timers. *)
VoiceTypeOK ==
  /\ BuzzerTypeOK
  /\ phase \in {"idle", "capturing", "feedback", "stopped"}
  /\ lead \in 0..Preroll /\ window \in 0..(Preroll + FastMax + ExtendedMax)
  /\ heard \in [petito : 0..Hits, yo : 0..Hits, music : BOOLEAN, wake : BOOLEAN]
  /\ pending \in 0..Disambiguation
  /\ listen \in 0..LargerOf(FastMax, ExtendedMax) /\ silent \in 0..LargerOf(FastMax, ExtendedMax)
  /\ paused \in BOOLEAN /\ spoke \in BOOLEAN
  /\ Len(prewake) <= Prewake
  /\ started \in BOOLEAN /\ stream \in {"none", "open", "broken"}

(* What the host gets of an utterance over a connection that does not      *)
(* break is its hello, its start, then every window from at most Prewake   *)
(* before the wake on, once and in order, and its end: nothing before a    *)
(* wake, and nothing missing or doubled where the kept windows and the     *)
(* direct ones meet (voice.rs 440-508 and 607-621).                        *)
Framed ==
  LET from == LargerOf(1, woke - Prewake + 1)
      whole == <<Hello, Start>> \o [i \in 1..(window - from + 1) |-> Chunk(from + i - 1)]
        \o IF phase = "capturing" THEN <<>> ELSE <<End>>
  IN stream = "open" => woke # 0 /\ sent = whole

(* For `petito` without `yo petito` the buzzer is asked for a tune (it may *)
(* be missing, or fail), unless the capture reached its limit first or     *)
(* more than Slack windows were quiet already when it fired (voice.rs      *)
(* 526-589).                                                               *)
TuneUnlessLate ==
  phase = "idle" /\ heard.music /\ ~heard.wake => listen >= FastMax \/ quiet > Slack

(* A capture ends, in silence and in lasting noise alike, also when a wake *)
(* has lengthened it, and the host's answer is not waited for forever.     *)
ComesBack == []<>(phase \in {"idle", "stopped"})
=============================================================================

CONSTANTS
  Tunes = 3
  Preroll = 2
  Prewake = 3
  Hits = 2
  Disambiguation = 3
  Slack = 1
  Silence = 3
  PostWake = 4
  FastMax = 5
  ExtendedMax = 6
SPECIFICATION VoiceSpec
INVARIANT VoiceTypeOK
INVARIANT Framed
INVARIANT TuneUnlessLate
PROPERTY NeverTwice
PROPERTY ComesBack
CHECK_DEADLOCK FALSE

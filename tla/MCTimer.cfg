SPECIFICATION TimerSpec
CONSTANTS
  Word = 4
  Context = {c1}
  Delay = {0, 3}
  MaxTime = 14
  AlarmWord = 20
  Window = 8
  Margin = 2
  MinDelta = 4
  Delta = {0, 5}
  JD_MIN_MAX_SLEEP = 5
  jd_max_sleep = 6
  Cb = {cb1}
  Latency = 2
  MaxLate = 8
  AlarmTime = 26
INVARIANTS TimeWithinCall FewRounds WaitsEnough AlarmOK
PROPERTIES LosesOnlyLate

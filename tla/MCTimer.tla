------------------------------ MODULE MCTimer ------------------------------
\* Micros and Alarm for TLC: two independent questions about tim.c, on clocks of
\* their own.  A behaviour is one of the one or one of the other: part tells
\* which, and the other stays in its initial state.  Micros has words of two
\* bits, so that the count carries several times, and one caller, since callers
\* share nothing but the clock; the low word of Alarm wraps once.
EXTENDS Micros

CONSTANTS AlarmWord, Window, Margin, MinDelta, Delta, JD_MIN_MAX_SLEEP, jd_max_sleep, Cb,
          Latency, MaxLate, AlarmTime

VARIABLES part, now, timer_cb, due, alarm, armed, intr, spc, base, delta, tpc, f, fdue, entered,
          late

alarmVars == <<now, timer_cb, due, alarm, armed, intr, spc, base, delta, tpc, f, fdue, entered,
               late>>

A == INSTANCE Alarm WITH Word <- AlarmWord, MaxTime <- AlarmTime, time <- now

ASSUME AlarmAssumption == A!AlarmConstants /\ A!Margins

TimerInit == part \in {"clock", "alarm"} /\ Init /\ A!Init

TimerNext ==
  \/ part = "clock" /\ Next /\ UNCHANGED <<alarmVars, part>>
  \/ part = "alarm" /\ A!Next /\ UNCHANGED <<vars, part>>

TimerSpec == TimerInit /\ [][TimerNext]_<<vars, alarmVars, part>>

\* A callback is not called before its time, up to the margin, and one that is
\* set has an alarm ahead or an interrupt (tim.c:21-35, 68-72).
AlarmOK == A!TypeOK /\ A!NotEarly /\ A!NotLost

\* tim_handler erases a callback without calling it only if it was set between
\* the test and the erasure (tim.c:19-38).
LosesOnlyLate == A!LosesOnlyLate
=============================================================================

------------------------------- MODULE Alarm -------------------------------
(***************************************************************************)
(* The one-shot timer of tim.c against the clock.  The alarm register is   *)
(* compared with the low word of the count, so that everything here is     *)
(* modulo Word.  tim_set_timer runs with interrupts off, but the clock     *)
(* goes on between its steps; a handler of priority 0 may call it between  *)
(* any two steps of tim_handler, except in the part with interrupts off.   *)
(* The margins of the code are the constants: the checks show which        *)
(* latencies they allow for.  (JacdacUart has the same race without time.) *)
(***************************************************************************)
EXTENDS Integers

CONSTANTS
  Word,         \* 2^32
  Window,       \* 2^29: an alarm less than this ahead is still to come
  Margin,       \* 5: unless it is nearer than this
  MinDelta,     \* 10: the shortest delay of tim_set_timer
  Delta,        \* arguments of tim_set_timer
  JD_MIN_MAX_SLEEP, jd_max_sleep,
  Cb,           \* callbacks
  Latency,      \* longest time from the clock read of tim_set_timer to the end
                \* of its caller and, if that preempted tim_handler, its test
  MaxLate,      \* longest time from the alarm to the test of tim_handler
  MaxTime       \* bound on the clock for TLC

NULL == "NULL"

\* Variant: short delays are taken as they are.
DeltaUnclamped(d) == d

EffectiveDelta(d) ==
  LET e == IF d < MinDelta THEN MinDelta ELSE d
  IN  IF e = JD_MIN_MAX_SLEEP THEN jd_max_sleep ELSE e

AlarmConstants ==
  /\ {Word, Window, Margin, MinDelta, jd_max_sleep, Latency, MaxLate, MaxTime} \subseteq Nat
  /\ Delta \subseteq Int /\ JD_MIN_MAX_SLEEP \in Int /\ NULL \notin Cb
\* What makes the code's margins sufficient: with none, an alarm might be due
\* before tim_set_timer has cleared the interrupt of the last one.
Margins ==
  /\ 0 < Margin /\ Latency + Margin <= MinDelta /\ MinDelta <= jd_max_sleep
  /\ Margin + MaxLate + Window <= Word
  /\ \A d \in Delta : EffectiveDelta(d) < Window

VARIABLES
  time,
  timer_cb, due,         \* the callback, and when it was asked for
  alarm, armed, intr,    \* the alarm: register, armed, interrupt raised
  spc, base, delta,      \* tim_set_timer: control point, the time it read, delta
  tpc, f, fdue, entered, \* tim_handler: control point, f and when it was due
  late                   \* history: tim_set_timer was called since the last test

vars == <<time, timer_cb, due, alarm, armed, intr, spc, base, delta, tpc, f, fdue, entered, late>>
setVars == <<spc, base, delta>>
timVars == <<tpc, f, fdue, entered, late>>

TypeOK ==
  /\ {time, due, base, delta, fdue, entered} \subseteq Nat
  /\ {timer_cb, f} \subseteq Cb \cup {NULL}
  /\ alarm \in 0 .. Word - 1 /\ {armed, intr, late} \subseteq BOOLEAN
  /\ spc \in {"idle", "alarm", "clear", "return"}
  /\ tpc \in {"idle", "read", "check", "clear", "call"}

Init ==
  /\ time = 0 /\ due = 0 /\ base = 0 /\ delta = 0 /\ fdue = 0 /\ entered = 0
  /\ timer_cb = NULL /\ f = NULL
  /\ alarm = 0 /\ armed = FALSE /\ intr = FALSE /\ late = FALSE
  /\ spc = "idle" /\ tpc = "idle"

-----------------------------------------------------------------------------
(* The clock and the alarm (external). *)

\* The callers of tim_set_timer and tim_handler are quick enough.
InTime ==
  /\ spc # "idle" \/ (tpc \in {"read", "check"} /\ base >= entered) => time - base < Latency
  /\ timer_cb # NULL /\ (intr \/ tpc \in {"read", "check"}) /\ time >= due => time - due < MaxLate

\* An armed alarm fires when the low word reaches it.
Tick ==
  /\ InTime /\ time < MaxTime
  /\ time' = time + 1
  /\ LET hit == armed /\ (time + 1) % Word = alarm
     IN  intr' = (intr \/ hit) /\ armed' = (armed /\ ~hit)
  /\ UNCHANGED <<timer_cb, due, alarm, setVars, timVars>>

-----------------------------------------------------------------------------
(* tim_set_timer, with interrupts off up to SetClear. *)

SetCb(cb, d) ==
  /\ spc = "idle" /\ spc' = "alarm"
  /\ timer_cb' = cb /\ base' = time /\ delta' = EffectiveDelta(d)
  /\ due' = base' + delta' /\ late' = TRUE
  /\ UNCHANGED <<time, alarm, armed, intr, tpc, f, fdue, entered>>

\* Variant: the sum is not cut to a word.
SetAlarmWide ==
  /\ spc = "alarm" /\ spc' = "clear"
  /\ alarm' = base + delta /\ armed' = TRUE
  /\ UNCHANGED <<time, timer_cb, due, intr, base, delta, timVars>>

SetAlarm ==
  /\ spc = "alarm" /\ spc' = "clear"
  /\ alarm' = (base + delta) % Word /\ armed' = TRUE
  /\ UNCHANGED <<time, timer_cb, due, intr, base, delta, timVars>>

\* Drop an interrupt of the alarm that was set before.
SetClear ==
  /\ spc = "clear" /\ spc' = "return"
  /\ intr' = FALSE
  /\ UNCHANGED <<time, timer_cb, due, alarm, armed, base, delta, timVars>>

\* The handler that called tim_set_timer, or the callback, returns.
SetReturn ==
  /\ spc = "return" /\ spc' = "idle"
  /\ UNCHANGED <<time, timer_cb, due, alarm, armed, intr, base, delta, timVars>>

tim_set_timer == SetAlarm \/ SetClear \/ SetReturn \/ \E cb \in Cb, d \in Delta : SetCb(cb, d)

-----------------------------------------------------------------------------
(* tim_handler *)

At(p, q) == spc = "idle" /\ tpc = p /\ tpc' = q

\* Entered on the interrupt, which it acknowledges.
TimEnter ==
  /\ intr /\ At("idle", "read") /\ intr' = FALSE /\ entered' = time
  /\ UNCHANGED <<time, timer_cb, due, alarm, armed, setVars, f, fdue, late>>

TimRead ==
  /\ At("read", IF timer_cb = NULL THEN "idle" ELSE "check")
  /\ f' = timer_cb /\ fdue' = due
  /\ UNCHANGED <<time, timer_cb, due, alarm, armed, intr, setVars, entered, late>>

\* tal - (now + 5), in 32 bits, below 2^29: the alarm is still to come.
StillToCome == (alarm - (time + Margin)) % Word < Window

\* Variant: whatever raised the interrupt, the callback is called.
TimCheckNone ==
  /\ At("check", "clear") /\ late' = FALSE
  /\ UNCHANGED <<time, timer_cb, due, alarm, armed, intr, setVars, f, fdue, entered>>

\* With interrupts off: arm the alarm again, or go on.
TimCheck ==
  \/ /\ At("check", "idle") /\ StillToCome
     /\ armed' = TRUE
     /\ UNCHANGED <<time, timer_cb, due, alarm, intr, setVars, f, fdue, entered, late>>
  \/ /\ At("check", "clear") /\ ~StillToCome /\ late' = FALSE
     /\ UNCHANGED <<time, timer_cb, due, alarm, armed, intr, setVars, f, fdue, entered>>

TimClear ==
  /\ At("clear", "call") /\ timer_cb' = NULL
  /\ UNCHANGED <<time, due, alarm, armed, intr, setVars, f, fdue, entered, late>>

\* f() may call tim_set_timer before it returns.
TimCall ==
  /\ At("call", "idle")
  /\ UNCHANGED <<time, timer_cb, due, alarm, armed, intr, setVars, f, fdue, entered, late>>

tim_handler == TimEnter \/ TimRead \/ TimCheck \/ TimClear \/ TimCall

Next == Tick \/ tim_set_timer \/ tim_handler

Spec == Init /\ [][Next]_vars

-----------------------------------------------------------------------------
(* Properties. *)

\* A callback is never called earlier than it was asked for, up to the margin
\* of 5us: an interrupt of an alarm that was replaced while tim_handler
\* began is told from that of the new one, also across the wrap of the low
\* word (tim.c:21-35).
NotEarly == tpc = "clear" /\ spc = "idle" => time + Margin >= fdue

\* The only callback that tim_handler erases without calling it is one that was
\* set between its test and the erasure.  One set earlier, by a handler that
\* preempts it before the test, is left to its own alarm; apart from the window
\* of tim.c:35-38, what is erased is what is called (tim.c:19-38).
LosesOnlyLate ==
  [][tpc = "clear" /\ tpc' = "call" => late \/ (f = timer_cb /\ fdue = due)]_vars

\* While tim_handler does not run, a callback that is set has an alarm that is
\* still ahead, or its interrupt is pending: the alarm is never written
\* behind the clock, nor its own interrupt cleared (tim.c:68-72).
NotLost ==
  timer_cb # NULL /\ spc = "idle" /\ tpc = "idle" =>
    intr \/ (armed /\ alarm = due % Word /\ time < due)
=============================================================================

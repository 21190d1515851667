---------------------------- MODULE TimerProofs -----------------------------
(***************************************************************************)
(* Proofs about Micros, for every word size, every set of callers and any  *)
(* delays, and about Alarm, for all constants that satisfy its Margins.    *)
(***************************************************************************)
EXTENDS MCTimer, TLAPS

\* The two words of a count determine it.
LEMMA DivMod ==
  ASSUME NEW W \in Nat \ {0}, NEW t \in Nat
  PROVE  t = W * (t \div W) + (t % W) /\ t \div W \in Nat /\ t % W \in 0 .. W - 1
BY SMT

\* The high word does not go down.
LEMMA DivMono ==
  ASSUME NEW W \in Nat \ {0}, NEW s \in Nat, NEW t \in Nat, s <= t
  PROVE  s \div W <= t \div W
BY DivMod, SMT

\* The difference of two low words, modulo the word, is at most the time
\* between them.
LEMMA ModDiff ==
  ASSUME NEW W \in Nat \ {0}, NEW s \in Nat, NEW t \in Nat, s <= t
  PROVE  ((t % W) - (s % W)) % W <= t - s
<1> DEFINE x == (t % W) - (s % W)
           k == (t \div W) - (s \div W)
<1>1. /\ t = W * (t \div W) + (t % W) /\ t \div W \in Nat /\ t % W \in 0 .. W - 1
      /\ s = W * (s \div W) + (s % W) /\ s \div W \in Nat /\ s % W \in 0 .. W - 1
      /\ s \div W <= t \div W
  BY DivMod, DivMono
<1>2. x \in Int /\ -W < x /\ x < W /\ k \in Nat
  BY <1>1, SMT
<1>3. t - s = W * k + x
  <2>1. W * k = W * (t \div W) - W * (s \div W)
    BY <1>1, SMT
  <2>. QED  BY <1>1, <2>1, SMT
<1> HIDE DEF x, k
<1>4. CASE x >= 0
  <2>1. x % W = x
    BY <1>2, <1>4, SMT
  <2>2. W * k >= 0
    BY <1>2, SMT
  <2>. QED  BY <1>2, <1>3, <2>1, <2>2, SMT DEF x
<1>5. CASE x < 0
  <2>1. x % W = x + W
    BY <1>2, <1>5, SMT
  <2>2. k # 0
    <3>1. SUFFICES ASSUME k = 0 PROVE FALSE
      OBVIOUS
    <3>2. W * k = 0
      BY <3>1, SMT
    <3>. QED  BY <1>2, <1>3, <1>5, <3>2, SMT
  <2>3. W * k >= W
    BY <1>2, <2>2, SMT
  <2>. QED  BY <1>2, <1>3, <2>1, <2>3, SMT DEF x
<1>. QED  BY <1>2, <1>4, <1>5, SMT

-----------------------------------------------------------------------------
(* The inductive invariant: what a caller's locals say of the clock at each *)
(* of its points.                                                           *)

\* Between the reads of the words: hi was the high word at or before now, and
\* every round before this one met a carry.
LoInv(c) ==
  pc[c] = "lo" =>
    /\ began[c] \div Word <= hi[c] /\ hi[c] <= time \div Word
    /\ rounds[c] <= hi[c] - (began[c] \div Word)

\* After the read of the low word: it was read at some t of the call, and the
\* high word cannot have been above hi before t.
NextInv(c) ==
  pc[c] = "next" =>
    /\ \E t \in began[c] .. time : lo[c] = t % Word /\ hi[c] <= t \div Word
    /\ began[c] \div Word <= hi[c]
    /\ rounds[c] <= 1 + hi[c] - (began[c] \div Word)

ReturnedInv(c) ==
  pc[c] = "returned" =>
    /\ began[c] <= ret[c] /\ ret[c] <= time
    /\ rounds[c] <= 1 + (time \div Word) - (began[c] \div Word)

WaitInv(c) ==
  /\ pc[c] = "poll" => start[c] = began[c] % Word
  /\ pc[c] = "waited" => time >= began[c] + n[c]

StartInv(c) ==
  began[c] <= time /\ (pc[c] = "hi" => rounds[c] = 0)

CallerInv(c) ==
  StartInv(c) /\ LoInv(c) /\ NextInv(c) /\ ReturnedInv(c) /\ WaitInv(c)

IInv == TypeOK /\ \A c \in Context : CallerInv(c)

-----------------------------------------------------------------------------
(* Every step keeps it. *)

CallerStep(c) == tim_get_micros(c) \/ target_wait_us(c)

\* Types.
LEMMA TypeStep ==
  ASSUME TypeOK, [Next]_vars
  PROVE  TypeOK'
<1> USE WordAssumption, DelayAssumption
<1>1. CASE Tick
  BY <1>1 DEF TypeOK, Tick
<1>2. ASSUME NEW c \in Context, CallerStep(c) PROVE TypeOK'
  <2>1. timerawh \in Nat /\ timerawl \in 0 .. Word - 1
    BY DivMod DEF TypeOK, timerawh, timerawl
  <2> USE <2>1 DEF TypeOK, Points, Goto, CallersIdle
  <2>2. CASE Call(c)
    BY <2>2 DEF Call
  <2>3. CASE ReadHi(c)
    BY <2>3 DEF ReadHi
  <2>4. CASE ReadLo(c)
    BY <2>4 DEF ReadLo
  <2>5. CASE ReadNext(c)
    <3>1. hi[c] * Word + lo[c] \in Nat
      BY SMT
    <3>. QED  BY <2>5, <3>1 DEF ReadNext
  <2>6. CASE WaitPoll(c) \/ WaitAgain(c)
    BY <2>6 DEF WaitPoll, WaitAgain
  <2>7. ASSUME NEW d \in Delay, WaitStart(c, d) PROVE TypeOK'
    <3>1. /\ pc' = [pc EXCEPT ![c] = "poll"] /\ began' = [began EXCEPT ![c] = time]
          /\ n' = [n EXCEPT ![c] = d] /\ start' = [start EXCEPT ![c] = timerawl]
          /\ UNCHANGED <<time, hi, lo, rounds, ret>>
      BY <2>7 DEF WaitStart
    <3>2. d \in Nat
      BY <2>7
    <3>3. pc' \in [Context -> Points]
      BY <3>1
    <3>4. n' \in [Context -> Nat] /\ began' \in [Context -> Nat]
      BY <3>1, <3>2
    <3>5. start' \in [Context -> 0 .. Word - 1]
      BY <3>1
    <3>. QED  BY <3>1, <3>3, <3>4, <3>5
  <2>. QED  BY <1>2, <2>2, <2>3, <2>4, <2>5, <2>6, <2>7
            DEF CallerStep, tim_get_micros, target_wait_us
<1>3. CASE UNCHANGED vars
  BY <1>3 DEF TypeOK, vars
<1>. QED  BY <1>1, <1>2, <1>3 DEF Next, CallerStep

\* The passing of time disturbs nothing: the high word only goes up.
LEMMA TickStep ==
  ASSUME IInv, Tick, NEW c \in Context
  PROVE  CallerInv(c)'
<1> USE WordAssumption DEF IInv, TypeOK
<1>1. /\ time' = time + 1 /\ time' \in Nat /\ pc' = pc /\ hi' = hi /\ lo' = lo /\ n' = n
      /\ start' = start /\ began' = began /\ rounds' = rounds /\ ret' = ret
  BY DEF Tick
<1>2. time \div Word <= time' \div Word /\ time \div Word \in Nat /\ time' \div Word \in Nat
  <2>1. time \in Nat /\ time' \in Nat /\ time <= time'
    BY <1>1
  <2> HIDE DEF IInv, TypeOK
  <2>2. time \div Word <= time' \div Word
    BY <2>1, DivMono
  <2>. QED  BY <2>1, <2>2, DivMod
<1>3. began[c] \div Word \in Nat
  BY DivMod
<1>4. StartInv(c)' /\ WaitInv(c)'
  BY <1>1 DEF CallerInv, StartInv, WaitInv
<1>5. LoInv(c)'
  BY <1>1, <1>2, <1>3 DEF CallerInv, LoInv
<1>6. NextInv(c)'
  <2>1. began[c] .. time \subseteq began[c] .. time'
    BY <1>1
  <2>. QED  BY <1>1, <2>1 DEF CallerInv, NextInv
<1>7. ReturnedInv(c)'
  BY <1>1, <1>2, <1>3 DEF CallerInv, ReturnedInv
<1>. QED  BY <1>4, <1>5, <1>6, <1>7 DEF CallerInv

\* The high word at an earlier moment of a call.
LEMMA CountBefore ==
  ASSUME IInv, NEW c \in Context, NEW t \in began[c] .. time
  PROVE  t \in Nat /\ t <= time /\ t \div Word <= time \div Word /\ t \div Word \in Nat
<1>1. t \in Nat /\ time \in Nat /\ t <= time
  BY DEF IInv, TypeOK
<1>2. t \div Word <= time \div Word
  BY <1>1, DivMono, WordAssumption
<1>. QED  BY <1>1, <1>2, DivMod, WordAssumption

\* A caller whose locals a step leaves alone.
LEMMA Frame ==
  ASSUME NEW d \in Context, CallerInv(d), time' = time, pc'[d] = pc[d], hi'[d] = hi[d],
         lo'[d] = lo[d], n'[d] = n[d], start'[d] = start[d], began'[d] = began[d],
         rounds'[d] = rounds[d], ret'[d] = ret[d]
  PROVE  CallerInv(d)'
BY DEF CallerInv, StartInv, LoInv, NextInv, ReturnedInv, WaitInv

\* The second read of the high word agrees with the first: both words are of
\* the moment at which the low word was read.
LEMMA ReadAgrees ==
  ASSUME IInv, NEW c \in Context, pc[c] = "next", hi[c] = time \div Word
  PROVE  began[c] <= hi[c] * Word + lo[c] /\ hi[c] * Word + lo[c] <= time
<1> USE WordAssumption DEF IInv, TypeOK
<1>1. PICK t \in began[c] .. time : lo[c] = t % Word /\ hi[c] <= t \div Word
  BY DEF CallerInv, NextInv
<1>2. t \in Nat /\ t <= time /\ t \div Word <= time \div Word /\ t \div Word \in Nat
  BY CountBefore
<1>3. t \div Word = hi[c]
  BY <1>1, <1>2
<1>4. t = Word * hi[c] + lo[c]
  BY <1>1, <1>2, <1>3, DivMod
<1>5. Word * hi[c] = hi[c] * Word
  BY SMT
<1>. QED  BY <1>1, <1>4, <1>5

\* The caller that takes a step.
LEMMA OwnStep ==
  ASSUME IInv, NEW c \in Context, CallerStep(c)
  PROVE  CallerInv(c)'
<1> USE WordAssumption DEF IInv, TypeOK, Goto
<1>1. /\ time \div Word \in Nat /\ began[c] \div Word \in Nat
      /\ began[c] \div Word <= time \div Word /\ time \in began[c] .. time
  <2>1. time \in Nat /\ began[c] \in Nat /\ began[c] <= time
    BY DEF CallerInv, StartInv
  <2> HIDE DEF IInv, TypeOK
  <2>2. began[c] \div Word <= time \div Word
    BY <2>1, DivMono
  <2>. QED  BY <2>1, <2>2, DivMod
<1> USE DEF timerawh, timerawl, CallersIdle
<1>2. CASE Call(c)
  BY <1>2 DEF Call, CallerInv, StartInv, LoInv, NextInv, ReturnedInv, WaitInv
<1>3. CASE ReadHi(c)
  BY <1>1, <1>3 DEF ReadHi, CallerInv, StartInv, LoInv, NextInv, ReturnedInv, WaitInv
<1>4. CASE ReadLo(c)
  <2>1. /\ pc'[c] = "next" /\ time' = time /\ hi' = hi /\ began' = began
        /\ lo'[c] = time % Word /\ rounds'[c] = rounds[c] + 1 /\ pc[c] = "lo"
    BY <1>4 DEF ReadLo
  <2>2. NextInv(c)'
    <3>1. lo'[c] = time % Word /\ hi'[c] <= time \div Word
      BY <2>1 DEF CallerInv, LoInv
    <3>2. \E t \in began'[c] .. time' : lo'[c] = t % Word /\ hi'[c] <= t \div Word
      BY <1>1, <2>1, <3>1
    <3>3. began[c] \div Word <= hi[c] /\ rounds[c] <= hi[c] - (began[c] \div Word)
      BY <2>1 DEF CallerInv, LoInv
    <3>4. rounds'[c] <= 1 + hi[c] - (began[c] \div Word)
      BY <1>1, <2>1, <3>3
    <3> HIDE DEF IInv, TypeOK
    <3>. QED  BY <2>1, <3>2, <3>3, <3>4 DEF NextInv
  <2>. QED  BY <2>1, <2>2 DEF CallerInv, StartInv, LoInv, ReturnedInv, WaitInv
<1>5. CASE ReadNext(c) /\ pc'[c] = "returned"
  <2>1. /\ hi[c] = time \div Word /\ ret'[c] = hi[c] * Word + lo[c] /\ pc[c] = "next"
        /\ time' = time /\ began' = began /\ rounds' = rounds
    BY <1>5 DEF ReadNext
  <2>2. ReturnedInv(c)'
    BY <1>1, <2>1, ReadAgrees DEF CallerInv, NextInv, ReturnedInv
  <2>. QED  BY <1>5, <2>1, <2>2 DEF CallerInv, StartInv, LoInv, NextInv, WaitInv
<1>6. CASE ReadNext(c) /\ pc'[c] = "lo"
  <2>1. /\ hi[c] # time \div Word /\ hi'[c] = time \div Word /\ pc[c] = "next"
        /\ time' = time /\ began' = began /\ rounds' = rounds
    BY <1>6 DEF ReadNext
  <2>2. PICK t \in began[c] .. time : lo[c] = t % Word /\ hi[c] <= t \div Word
    BY <2>1 DEF CallerInv, NextInv
  <2>3. t \in Nat /\ t \div Word \in Nat /\ t \div Word <= time \div Word
    BY CountBefore
  <2>4. hi[c] < time \div Word
    BY <1>1, <2>1, <2>2, <2>3
  <2>5. LoInv(c)'
    BY <1>1, <2>1, <2>4 DEF CallerInv, NextInv, LoInv
  <2>. QED  BY <1>6, <2>1, <2>5 DEF CallerInv, StartInv, NextInv, ReturnedInv, WaitInv
<1>7. CASE WaitPoll(c)
  <2>1. /\ pc[c] = "poll" /\ pc'[c] = "waited" /\ time' = time /\ began' = began /\ n' = n
        /\ ((time % Word) - start[c]) % Word >= n[c]
    BY <1>7 DEF WaitPoll
  <2>2. start[c] = began[c] % Word /\ began[c] <= time
    BY <2>1 DEF CallerInv, WaitInv, StartInv
  <2>3. ((time % Word) - (began[c] % Word)) % Word <= time - began[c]
    BY <2>2, ModDiff
  <2>4. ((time % Word) - (began[c] % Word)) % Word \in Int
    BY DivMod, SMT
  <2>5. n[c] <= time - began[c]
    BY <2>1, <2>2, <2>3, <2>4
  <2>. QED  BY <2>1, <2>5 DEF CallerInv, StartInv, LoInv, NextInv, ReturnedInv, WaitInv
<1>8. CASE WaitAgain(c)
  BY <1>8, Frame DEF WaitAgain
<1>9. ASSUME NEW d \in Delay, WaitStart(c, d) PROVE CallerInv(c)'
  BY <1>9 DEF WaitStart, CallerInv, StartInv, LoInv, NextInv, ReturnedInv, WaitInv
<1>10. ReadNext(c) => pc'[c] \in {"returned", "lo"}
  BY DEF ReadNext
<1>. QED  BY <1>2, <1>3, <1>4, <1>5, <1>6, <1>7, <1>8, <1>9, <1>10
          DEF CallerStep, tim_get_micros, target_wait_us

\* The step of one caller leaves the others alone.
LEMMA OtherStep ==
  ASSUME IInv, NEW c \in Context, CallerStep(c), NEW d \in Context, d # c
  PROVE  CallerInv(d)'
<1> USE DEF IInv, TypeOK, Goto
<1>1. /\ time' = time /\ pc'[d] = pc[d] /\ hi'[d] = hi[d] /\ lo'[d] = lo[d] /\ n'[d] = n[d]
      /\ start'[d] = start[d] /\ began'[d] = began[d] /\ rounds'[d] = rounds[d]
      /\ ret'[d] = ret[d]
  BY DEF CallerStep, tim_get_micros, target_wait_us, Call, ReadHi, ReadLo, ReadNext,
         WaitStart, WaitPoll, WaitAgain
<1>. QED  BY <1>1, Frame

\* The invariant holds in every reachable state.
THEOREM MicrosInvariance == Spec => []IInv
<1>1. Init => IInv
  BY WordAssumption DEF Init, IInv, TypeOK, Zeros, Points, CallerInv, StartInv, LoInv, NextInv,
                        ReturnedInv, WaitInv
<1>2. IInv /\ [Next]_vars => IInv'
  <2>1. SUFFICES ASSUME IInv, [Next]_vars, NEW d \in Context PROVE CallerInv(d)'
    BY TypeStep DEF IInv
  <2>2. CASE Tick
    BY <2>1, <2>2, TickStep
  <2>3. ASSUME NEW c \in Context, CallerStep(c) PROVE CallerInv(d)'
    BY <2>1, <2>3, OwnStep, OtherStep
  <2>4. CASE UNCHANGED vars
    BY <2>1, <2>4, Frame DEF vars, IInv
  <2>. QED  BY <2>1, <2>2, <2>3, <2>4 DEF Next, CallerStep
<1>. QED  BY <1>1, <1>2, PTL DEF Spec

\* The registers and locals of the two loops stay in their ranges: the low
\* words below Word (tim.c:77-101).
THEOREM ClockTypes == Spec => []TypeOK
<1>1. IInv => TypeOK
  BY DEF IInv
<1>. QED  BY <1>1, MicrosInvariance, PTL

\* tim_get_micros returns a time at which it was running: the loop of
\* tim.c:82-92 is right for every word size, however long each read takes.
THEOREM ReadsAreWithinCall == Spec => []TimeWithinCall
<1>1. IInv => TimeWithinCall
  BY DEF IInv, CallerInv, ReturnedInv, TimeWithinCall
<1>. QED  BY <1>1, MicrosInvariance, PTL

\* A round of the loop of tim_get_micros is repeated only after a carry.
THEOREM RoundsAreBounded == Spec => []FewRounds
<1>1. ASSUME IInv, NEW c \in Context, pc[c] = "next"
      PROVE  rounds[c] <= 1 + (time \div Word) - (began[c] \div Word)
  <2> USE WordAssumption DEF IInv, TypeOK
  <2>1. PICK t \in began[c] .. time : lo[c] = t % Word /\ hi[c] <= t \div Word
    BY <1>1 DEF CallerInv, NextInv
  <2>2. t \in Nat /\ t \div Word \in Nat /\ t \div Word <= time \div Word
    BY <1>1, CountBefore
  <2>3. began[c] \div Word \in Nat /\ time \div Word \in Nat
    BY <1>1, DivMod
  <2>. QED  BY <1>1, <2>1, <2>2, <2>3 DEF CallerInv, NextInv
<1>2. IInv => FewRounds
  BY <1>1 DEF IInv, CallerInv, ReturnedInv, FewRounds
<1>. QED  BY <1>2, MicrosInvariance, PTL

\* target_wait_us never returns early (tim.c:97-101), whatever the delay.
THEOREM WaitsAreLongEnough == Spec => []WaitsEnough
<1>1. IInv => WaitsEnough
  BY DEF IInv, CallerInv, WaitInv, WaitsEnough
<1>. QED  BY <1>1, MicrosInvariance, PTL

-----------------------------------------------------------------------------
(* Alarm: the inductive invariant. *)

\* The callback that is set has its alarm ahead; or it has come, and its
\* interrupt is raised; or tim_handler has taken that interrupt.
Ahead == ~intr /\ armed /\ alarm = due % AlarmWord /\ now < due
Fired == intr /\ ~armed /\ alarm = due % AlarmWord /\ due <= now
Taken == ~intr /\ ~armed /\ alarm = due % AlarmWord /\ due <= now

Testing == tpc \in {"read", "check"}

\* tim_set_timer is quick: the alarm it writes is ahead, and so is the one of a
\* callback that was set since tim_handler began, until it has been tested.
SetInv ==
  /\ base <= now /\ entered <= now
  /\ spc # "idle" => timer_cb # A!NULL
  /\ timer_cb # A!NULL =>
       /\ due = base + delta /\ MinDelta <= delta /\ delta < Window
       /\ spc # "idle" => now - base <= Latency
       /\ spc # "idle" /\ tpc \in {"read", "check", "clear"} => entered <= base
       /\ spc \in {"clear", "return"} => armed /\ alarm = due % AlarmWord
       /\ spc = "return" => ~intr
       /\ Testing /\ entered <= base => now - base <= Latency

\* Where the alarm of the callback is while tim_set_timer does not run: taken
\* only by the tim_handler that began after it was set.
AheadInv ==
  timer_cb # A!NULL /\ spc = "idle" =>
    IF tpc \in {"idle", "call"} \/ entered <= base THEN Ahead \/ Fired ELSE Taken

\* tim_handler is not too late.
LateInv ==
  timer_cb # A!NULL /\ (intr \/ Testing) /\ due <= now => now - due <= MaxLate

\* What tim_handler has read is what is set, unless it was replaced since.
ReadInv ==
  /\ tpc = "check" => timer_cb # A!NULL /\ (base < entered => f = timer_cb /\ fdue = due)
  /\ tpc = "clear" => fdue <= now

AlarmInv == A!TypeOK /\ SetInv /\ AheadInv /\ LateInv /\ ReadInv

-----------------------------------------------------------------------------
(* The alarm register counts modulo the word. *)

LEMMA AlarmNumbers ==
  /\ {AlarmWord, Window, Margin, MinDelta, jd_max_sleep, Latency, MaxLate, AlarmTime} \subseteq Nat
  /\ 0 < Margin /\ Latency + Margin <= MinDelta /\ MinDelta <= jd_max_sleep
  /\ Margin + MaxLate + Window <= AlarmWord /\ 0 < AlarmWord
  /\ A!NULL \notin Cb
<1>1. A!AlarmConstants /\ A!Margins BY AlarmAssumption
<1>2. {AlarmWord, Window, Margin, MinDelta, jd_max_sleep, Latency, MaxLate, AlarmTime} \subseteq Nat
  BY <1>1 DEF A!AlarmConstants
<1> QED BY <1>1, <1>2 DEF A!AlarmConstants, A!Margins

\* Every delay that tim_set_timer works with is long enough, and in the window.
LEMMA DelayBounds ==
  ASSUME NEW d \in Delta
  PROVE  /\ A!EffectiveDelta(d) \in Nat /\ MinDelta <= A!EffectiveDelta(d)
         /\ A!EffectiveDelta(d) < Window
<1>1. d \in Int /\ JD_MIN_MAX_SLEEP \in Int BY AlarmAssumption DEF A!AlarmConstants
<1>2. A!EffectiveDelta(d) < Window BY AlarmAssumption DEF A!Margins
<1>3. A!EffectiveDelta(d) \in Nat /\ MinDelta <= A!EffectiveDelta(d)
  BY <1>1, AlarmNumbers DEF A!EffectiveDelta
<1> QED BY <1>2, <1>3

\* A remainder is determined by any way to write the number.
LEMMA ModUnique ==
  ASSUME NEW W \in Nat \ {0}, NEW x \in Int, NEW q \in Int, NEW r \in 0 .. W - 1, x = W * q + r
  PROVE  x % W = r
<1> DEFINE p == x \div W
           s == x % W
<1>1. p \in Int /\ s \in 0 .. W - 1 /\ x = W * p + s BY SMT
<1> HIDE DEF p, s
<1>2. W * (p - q) = r - s
  <2>1. W * (p - q) = W * p - W * q BY <1>1, SMT
  <2> QED BY <1>1, <2>1, SMT
<1>3. p - q > 0 => W * (p - q) >= W BY <1>1, SMT
<1>4. p - q < 0 => W * (p - q) <= -W BY <1>1, SMT
<1>5. p - q = 0 BY <1>1, <1>2, <1>3, <1>4, SMT
<1>6. W * (p - q) = 0 BY <1>5, SMT
<1>7. r = s BY <1>1, <1>2, <1>6, SMT
<1> QED BY <1>7 DEF s

\* A time before the alarm, by less than a word, is not the alarm's.
LEMMA NoHitBefore ==
  ASSUME NEW W \in Nat \ {0}, NEW d \in Nat, NEW t \in Nat, t < d, d - t < W
  PROVE  t % W # d % W
<1> SUFFICES ASSUME t % W = d % W PROVE FALSE OBVIOUS
<1> DEFINE p == t \div W
           q == d \div W
           r == d % W
<1>1. p \in Int /\ q \in Int /\ r \in 0 .. W - 1 /\ t = W * p + r /\ d = W * q + r
  BY DivMod, SMT
<1> HIDE DEF p, q, r
<1>2. W * (q - p) = d - t
  <2>1. W * (q - p) = W * q - W * p BY <1>1, SMT
  <2> QED BY <1>1, <2>1, SMT
<1>3. q - p > 0 => W * (q - p) >= W BY <1>1, SMT
<1>4. q - p <= 0 => W * (q - p) <= 0 BY <1>1, SMT
<1> QED BY <1>1, <1>2, <1>3, <1>4, SMT

\* The test of tim_handler: an alarm ahead of the clock by the margin is
\* recognised, ...
LEMMA TestAhead ==
  ASSUME NEW W \in Nat \ {0}, NEW d \in Nat, NEW b \in Nat, b <= d, d - b < W
  PROVE  ((d % W) - b) % W = d - b
<1> DEFINE q == d \div W
           r == d % W
<1>1. q \in Int /\ r \in 0 .. W - 1 /\ d = W * q + r BY DivMod, SMT
<1> HIDE DEF q, r
<1>2. r - b = W * (-q) + (d - b)
  <2>1. W * (-q) = -(W * q) BY <1>1, SMT
  <2> QED BY <1>1, <2>1, SMT
<1>3. r - b \in Int /\ -q \in Int /\ d - b \in 0 .. W - 1 BY <1>1, SMT
<1>4. (r - b) % W = d - b BY <1>2, <1>3, ModUnique
<1> QED BY <1>4 DEF r

\* ... and so is one that has passed.
LEMMA TestPassed ==
  ASSUME NEW W \in Nat \ {0}, NEW d \in Nat, NEW b \in Nat, d < b, b - d <= W
  PROVE  ((d % W) - b) % W = W - (b - d)
<1> DEFINE q == d \div W
           r == d % W
<1>1. q \in Int /\ r \in 0 .. W - 1 /\ d = W * q + r BY DivMod, SMT
<1> HIDE DEF q, r
<1>2. r - b = W * (-q - 1) + (W - (b - d))
  <2>1. W * (-q - 1) = -(W * q) - W BY <1>1, SMT
  <2> QED BY <1>1, <2>1, SMT
<1>3. r - b \in Int /\ -q - 1 \in Int /\ W - (b - d) \in 0 .. W - 1 BY <1>1, SMT
<1>4. (r - b) % W = W - (b - d) BY <1>2, <1>3, ModUnique
<1> QED BY <1>4 DEF r

-----------------------------------------------------------------------------
(* Every step of Alarm keeps its invariant. *)


LEMMA AlarmTypes ==
  ASSUME A!TypeOK
  PROVE  /\ now \in Nat /\ due \in Nat /\ base \in Nat /\ delta \in Nat /\ fdue \in Nat
         /\ entered \in Nat /\ intr \in BOOLEAN /\ armed \in BOOLEAN /\ late \in BOOLEAN
         /\ alarm \in 0 .. AlarmWord - 1
         /\ timer_cb \in Cb \cup {A!NULL} /\ f \in Cb \cup {A!NULL}
         /\ spc \in {"idle", "alarm", "clear", "return"}
         /\ tpc \in {"idle", "read", "check", "clear", "call"}
  BY DEF A!TypeOK

LEMMA AlarmTypesPrime ==
  ASSUME now' \in Nat, due' \in Nat, base' \in Nat, delta' \in Nat, fdue' \in Nat,
         entered' \in Nat, intr' \in BOOLEAN, armed' \in BOOLEAN, late' \in BOOLEAN,
         alarm' \in 0 .. AlarmWord - 1,
         timer_cb' \in Cb \cup {A!NULL}, f' \in Cb \cup {A!NULL},
         spc' \in {"idle", "alarm", "clear", "return"},
         tpc' \in {"idle", "read", "check", "clear", "call"}
  PROVE  A!TypeOK'
  BY DEF A!TypeOK

\* A callback that is being set, or was set since tim_handler began and not
\* tested yet, is not due, by the margin at least.
LEMMA NotYetDue ==
  ASSUME A!TypeOK, SetInv, timer_cb # A!NULL, spc # "idle" \/ (Testing /\ entered <= base)
  PROVE  now + Margin <= due /\ now < due /\ due - now < AlarmWord /\ now - base <= Latency
<1>1. now \in Nat /\ base \in Nat /\ delta \in Nat /\ due \in Nat BY AlarmTypes
<1>2. /\ now - base <= Latency /\ base <= now /\ due = base + delta /\ MinDelta <= delta
      /\ delta < Window
  BY DEF SetInv
<1> QED BY <1>1, <1>2, AlarmNumbers

LEMMA AlarmInit == A!Init => AlarmInv
<1> SUFFICES ASSUME A!Init PROVE AlarmInv OBVIOUS
<1>1. /\ now = 0 /\ due = 0 /\ base = 0 /\ delta = 0 /\ fdue = 0 /\ entered = 0
      /\ timer_cb = A!NULL /\ f = A!NULL /\ alarm = 0 /\ armed = FALSE /\ intr = FALSE
      /\ late = FALSE /\ spc = "idle" /\ tpc = "idle"
  BY DEF A!Init
<1>2. 0 \in 0 .. AlarmWord - 1 BY AlarmNumbers
<1>3. A!TypeOK
  <2>1. {now, due, base, delta, fdue, entered} \subseteq Nat BY <1>1
  <2>2. {timer_cb, f} \subseteq Cb \cup {A!NULL} BY <1>1
  <2>3. {armed, intr, late} \subseteq BOOLEAN BY <1>1
  <2> QED BY <1>1, <1>2, <2>1, <2>2, <2>3 DEF A!TypeOK
<1> QED BY <1>1, <1>3 DEF AlarmInv, SetInv, AheadInv, LateInv, ReadInv

\* The clock: an alarm fires at its time, not before, and the core is in time.
LEMMA AlarmTick == ASSUME AlarmInv, A!Tick PROVE AlarmInv'
<1> DEFINE hit == armed /\ (now + 1) % AlarmWord = alarm
<1>1. /\ now' = now + 1 /\ intr' = (intr \/ hit) /\ armed' = (armed /\ ~hit)
      /\ UNCHANGED <<timer_cb, due, alarm, spc, base, delta, tpc, f, fdue, entered, late>>
  BY DEF A!Tick, A!setVars, A!timVars
<1>2. /\ spc # "idle" \/ (Testing /\ entered <= base) => now - base < Latency
      /\ timer_cb # A!NULL /\ (intr \/ Testing) /\ due <= now => now - due < MaxLate
  <2>1. now \in Nat /\ due \in Nat /\ base \in Nat /\ entered \in Nat BY AlarmTypes DEF AlarmInv
  <2> QED BY <2>1 DEF A!Tick, A!InTime, Testing
<1>3. /\ now \in Nat /\ due \in Nat /\ base \in Nat /\ delta \in Nat /\ entered \in Nat
      /\ fdue \in Nat /\ intr \in BOOLEAN /\ armed \in BOOLEAN
  BY AlarmTypes DEF AlarmInv
<1>4. timer_cb # A!NULL /\ alarm = due % AlarmWord /\ now + 1 < due => ~hit
  <2> SUFFICES ASSUME timer_cb # A!NULL, alarm = due % AlarmWord, now + 1 < due PROVE ~hit
    OBVIOUS
  <2>1. due = base + delta /\ delta < Window /\ base <= now BY DEF AlarmInv, SetInv
  <2>2. due - (now + 1) < AlarmWord /\ AlarmWord \in Nat \ {0} BY <1>3, <2>1, AlarmNumbers
  <2>3. now + 1 \in Nat BY <1>3
  <2>4. (now + 1) % AlarmWord # due % AlarmWord BY <1>3, <2>2, <2>3, NoHitBefore
  <2> QED BY <2>4
<1>5. alarm = due % AlarmWord /\ now + 1 = due /\ armed => hit OBVIOUS
<1> HIDE DEF hit
<1>6. hit => armed BY DEF hit
<1>7. A!TypeOK'
  <2>1. now' \in Nat /\ intr' \in BOOLEAN /\ armed' \in BOOLEAN BY <1>1, <1>3
  <2> QED BY <1>1, <2>1, AlarmTypes, AlarmTypesPrime DEF AlarmInv
<1>8. SetInv'
  <2>1. base <= now' /\ entered <= now' BY <1>1, <1>3 DEF AlarmInv, SetInv
  <2>2. ASSUME timer_cb # A!NULL, spc # "idle" \/ (Testing /\ entered <= base)
        PROVE  now' - base <= Latency
    BY <1>1, <1>2, <1>3, <2>2, AlarmNumbers
  <2>3. ASSUME timer_cb # A!NULL, spc \in {"clear", "return"}
        PROVE  armed' /\ intr' = intr
    <3>1. armed /\ alarm = due % AlarmWord BY <2>3 DEF AlarmInv, SetInv
    <3>2. now + 1 < due
      <4>1. now - base < Latency BY <1>2, <2>3
      <4>2. due = base + delta /\ MinDelta <= delta BY <2>3 DEF AlarmInv, SetInv
      <4> QED BY <1>3, <4>1, <4>2, AlarmNumbers
    <3>3. ~hit BY <1>4, <2>3, <3>1, <3>2
    <3> QED BY <1>1, <1>3, <3>1, <3>3
  <2> QED BY <1>1, <2>1, <2>2, <2>3 DEF AlarmInv, SetInv, Testing
<1>9. AheadInv'
  <2> SUFFICES ASSUME timer_cb # A!NULL, spc = "idle"
               PROVE  IF tpc \in {"idle", "call"} \/ entered <= base THEN (Ahead \/ Fired)'
                      ELSE Taken'
    BY <1>1 DEF AheadInv
  <2>1. ASSUME Ahead PROVE (Ahead \/ Fired)'
    <3>1. CASE now + 1 = due
      <4>1. hit BY <1>5, <2>1, <3>1 DEF Ahead
      <4>2. intr' /\ ~armed' BY <1>1, <4>1
      <4>3. alarm' = due' % AlarmWord /\ due' <= now' BY <1>1, <1>3, <2>1, <3>1 DEF Ahead
      <4> QED BY <4>2, <4>3 DEF Fired
    <3>2. CASE now + 1 # due
      <4>1. now + 1 < due BY <1>3, <2>1, <3>2 DEF Ahead
      <4>2. ~hit BY <1>4, <2>1, <4>1 DEF Ahead
      <4>3. ~intr' /\ armed' BY <1>1, <2>1, <4>2 DEF Ahead
      <4> QED BY <1>1, <2>1, <4>1, <4>3 DEF Ahead
    <3> QED BY <3>1, <3>2
  <2>2. ASSUME Fired PROVE Fired'
    <3>1. ~hit /\ due <= now' BY <1>1, <1>3, <1>6, <2>2 DEF Fired
    <3> QED BY <1>1, <2>2, <3>1 DEF Fired
  <2>3. ASSUME Taken PROVE Taken'
    <3>1. ~hit /\ due <= now' BY <1>1, <1>3, <1>6, <2>3 DEF Taken
    <3> QED BY <1>1, <2>3, <3>1 DEF Taken
  <2> QED BY <2>1, <2>2, <2>3 DEF AlarmInv, AheadInv
<1>10. LateInv'
  <2>1. Testing' = Testing BY <1>1 DEF Testing
  <2> SUFFICES ASSUME timer_cb' # A!NULL, intr' \/ Testing', due' <= now'
               PROVE  now' - due' <= MaxLate
    BY DEF LateInv
  <2>2. timer_cb # A!NULL /\ (intr' \/ Testing) /\ due <= now + 1 BY <1>1, <2>1
  <2>3. now' = now + 1 /\ due' = due BY <1>1
  <2>4. ASSUME now + 1 = due PROVE now + 1 - due <= MaxLate BY <1>3, <2>4, AlarmNumbers
  <2>5. ASSUME due <= now, intr \/ Testing PROVE now + 1 - due <= MaxLate
    BY <1>2, <1>3, <2>2, <2>5, AlarmNumbers
  <2>6. ASSUME due <= now, ~intr, ~Testing PROVE FALSE
    <3>1. armed BY <1>1, <1>6, <2>2, <2>6
    <3>2. spc = "idle" BY <1>3, <2>2, <2>6, NotYetDue DEF AlarmInv
    <3>3. Ahead \/ Fired \/ Taken BY <2>2, <3>2 DEF AlarmInv, AheadInv
    <3> QED BY <1>3, <2>6, <3>1, <3>3 DEF Ahead, Fired, Taken
  <2>7. due <= now \/ now + 1 = due BY <1>3, <2>2
  <2>8. now + 1 - due <= MaxLate BY <2>4, <2>5, <2>6, <2>7
  <2>9. MaxLate \in Nat BY AlarmNumbers
  <2> QED BY <1>3, <2>3, <2>8, <2>9
<1>11. ReadInv'
  <2>1. tpc = "clear" => fdue <= now' BY <1>1, <1>3 DEF AlarmInv, ReadInv
  <2> QED BY <1>1, <2>1 DEF AlarmInv, ReadInv
<1> QED BY <1>7, <1>8, <1>9, <1>10, <1>11 DEF AlarmInv

\* tim_set_timer, from the read of the clock to the return.
LEMMA SetCbStep ==
  ASSUME AlarmInv, NEW cb \in Cb, NEW d \in Delta, A!SetCb(cb, d)
  PROVE  AlarmInv'
<1>1. /\ spc' = "alarm" /\ timer_cb' = cb /\ base' = now /\ delta' = A!EffectiveDelta(d)
      /\ due' = base' + delta' /\ late' = TRUE
      /\ UNCHANGED <<now, alarm, armed, intr, tpc, f, fdue, entered>>
  BY DEF A!SetCb, A!timVars
<1>2. now \in Nat /\ entered <= now BY AlarmTypes DEF AlarmInv, SetInv
<1>3. delta' \in Nat /\ MinDelta <= delta' /\ delta' < Window BY <1>1, DelayBounds
<1>4. cb # A!NULL BY AlarmNumbers
<1>5. due' \in Nat /\ now < due' /\ now - now <= Latency BY <1>1, <1>2, <1>3, AlarmNumbers
<1>6. A!TypeOK' BY <1>1, <1>2, <1>3, <1>5, AlarmTypes, AlarmTypesPrime DEF AlarmInv
<1>7. SetInv' BY <1>1, <1>2, <1>3, <1>4, <1>5 DEF SetInv
<1>8. AheadInv' BY <1>1 DEF AheadInv
<1>9. LateInv'
  <2>1. ~(due' <= now) BY <1>2, <1>5
  <2> QED BY <1>1, <2>1 DEF LateInv
<1>10. ReadInv'
  <2>1. ~(now < entered) BY <1>2, AlarmTypes DEF AlarmInv
  <2> QED BY <1>1, <1>4, <2>1 DEF AlarmInv, ReadInv
<1> QED BY <1>6, <1>7, <1>8, <1>9, <1>10 DEF AlarmInv

LEMMA SetStep == ASSUME AlarmInv, A!SetAlarm \/ A!SetClear \/ A!SetReturn PROVE AlarmInv'
<1>1. UNCHANGED <<now, timer_cb, due, base, delta, tpc, f, fdue, entered, late>>
  BY DEF A!SetAlarm, A!SetClear, A!SetReturn, A!timVars
<1>2. spc # "idle" BY DEF A!SetAlarm, A!SetClear, A!SetReturn
<1>3. /\ timer_cb # A!NULL /\ due = base + delta /\ now < due /\ now - base <= Latency
  BY <1>2, NotYetDue DEF AlarmInv, SetInv
<1>4. due \in Nat /\ AlarmWord \in Nat \ {0} BY AlarmTypes, AlarmNumbers DEF AlarmInv
<1>5. ReadInv' BY <1>1 DEF AlarmInv, ReadInv
<1>6. LateInv'
  <2>1. ~(due <= now) BY <1>3, <1>4, AlarmTypes DEF AlarmInv
  <2> QED BY <1>1, <2>1 DEF LateInv
<1>7. CASE A!SetAlarm
  <2>1. spc' = "clear" /\ alarm' = due % AlarmWord /\ armed' = TRUE /\ intr' = intr
    BY <1>3, <1>7 DEF A!SetAlarm
  <2>2. alarm' \in 0 .. AlarmWord - 1 BY <1>4, <2>1, DivMod
  <2>3. A!TypeOK' BY <1>1, <2>1, <2>2, AlarmTypes, AlarmTypesPrime DEF AlarmInv
  <2>4. SetInv' BY <1>1, <1>2, <2>1 DEF AlarmInv, SetInv, Testing
  <2>5. AheadInv' BY <2>1 DEF AheadInv
  <2> QED BY <1>5, <1>6, <2>3, <2>4, <2>5 DEF AlarmInv
<1>8. CASE A!SetClear
  <2>1. spc = "clear" /\ spc' = "return" /\ intr' = FALSE /\ UNCHANGED <<alarm, armed>>
    BY <1>8 DEF A!SetClear
  <2>2. A!TypeOK' BY <1>1, <2>1, AlarmTypes, AlarmTypesPrime DEF AlarmInv
  <2>3. SetInv' BY <1>1, <1>2, <2>1 DEF AlarmInv, SetInv, Testing
  <2>4. AheadInv' BY <2>1 DEF AheadInv
  <2> QED BY <1>5, <1>6, <2>2, <2>3, <2>4 DEF AlarmInv
<1>9. CASE A!SetReturn
  <2>1. spc = "return" /\ spc' = "idle" /\ UNCHANGED <<alarm, armed, intr>>
    BY <1>9 DEF A!SetReturn
  <2>2. A!TypeOK' BY <1>1, <2>1, AlarmTypes, AlarmTypesPrime DEF AlarmInv
  <2>3. SetInv' BY <1>1, <1>2, <2>1 DEF AlarmInv, SetInv, Testing
  <2>4. AheadInv'
    <3>1. Ahead' BY <1>1, <1>3, <2>1 DEF AlarmInv, SetInv, Ahead
    <3>2. tpc \in {"idle", "call"} \/ entered <= base
      BY <1>2, <1>3, AlarmTypes DEF AlarmInv, SetInv
    <3> QED BY <1>1, <3>1, <3>2 DEF AheadInv
  <2> QED BY <1>5, <1>6, <2>2, <2>3, <2>4 DEF AlarmInv
<1> QED BY <1>7, <1>8, <1>9

\* The test of tim_handler is right: it finds the alarm still to come exactly
\* when the callback was replaced since tim_handler began.
LEMMA TestDecides ==
  ASSUME AlarmInv, spc = "idle", tpc = "check"
  PROVE  /\ entered <= base => A!StillToCome /\ Ahead
         /\ base < entered  => ~A!StillToCome /\ Taken
<1> DEFINE b == now + Margin
<1>1. /\ now \in Nat /\ due \in Nat /\ base \in Nat /\ delta \in Nat /\ entered \in Nat
      /\ intr \in BOOLEAN /\ armed \in BOOLEAN
  BY AlarmTypes DEF AlarmInv
<1>2. b \in Nat /\ AlarmWord \in Nat \ {0} BY <1>1, AlarmNumbers
<1>3. timer_cb # A!NULL /\ Testing BY DEF AlarmInv, ReadInv, Testing
<1>4. ASSUME entered <= base PROVE A!StillToCome /\ Ahead
  <2>1. b <= due /\ now < due BY <1>3, <1>4, NotYetDue DEF AlarmInv
  <2>2. Ahead BY <1>1, <1>3, <1>4, <2>1 DEF AlarmInv, AheadInv, Fired
  <2>3. due = base + delta /\ delta < Window /\ base <= now BY <1>3 DEF AlarmInv, SetInv
  <2>4. due - b < Window /\ due - b < AlarmWord BY <1>1, <2>3, AlarmNumbers
  <2> HIDE DEF b
  <2>5. ((due % AlarmWord) - b) % AlarmWord = due - b BY <1>1, <1>2, <2>1, <2>4, TestAhead
  <2>6. (alarm - b) % AlarmWord < Window BY <2>2, <2>4, <2>5 DEF Ahead
  <2> QED BY <2>2, <2>6 DEF A!StillToCome, b
<1>5. ASSUME base < entered PROVE ~A!StillToCome /\ Taken
  <2>1. Taken
    <3>1. ~(entered <= base) BY <1>1, <1>5
    <3> QED BY <1>3, <3>1 DEF AlarmInv, AheadInv
  <2>2. now - due <= MaxLate BY <1>3, <2>1 DEF AlarmInv, LateInv, Taken
  <2>3. due < b /\ b - due <= AlarmWord /\ AlarmWord - (b - due) >= Window
    BY <1>1, <2>1, <2>2, AlarmNumbers DEF Taken
  <2> HIDE DEF b
  <2>4. ((due % AlarmWord) - b) % AlarmWord = AlarmWord - (b - due)
    BY <1>1, <1>2, <2>3, TestPassed
  <2>5. ~((alarm - b) % AlarmWord < Window)
    <3>1. Window \in Nat BY AlarmNumbers
    <3>2. (alarm - b) % AlarmWord = AlarmWord - (b - due) BY <2>1, <2>4 DEF Taken
    <3> QED BY <1>1, <1>2, <2>3, <3>1, <3>2
  <2> QED BY <2>1, <2>5 DEF A!StillToCome, b
<1> QED BY <1>4, <1>5

\* tim_handler.
LEMMA EnterStep == ASSUME AlarmInv, A!TimEnter PROVE AlarmInv'
<1>1. /\ spc = "idle" /\ tpc = "idle" /\ tpc' = "read" /\ intr = TRUE /\ intr' = FALSE
      /\ entered' = now
      /\ UNCHANGED <<now, timer_cb, due, alarm, armed, spc, base, delta, f, fdue, late>>
  <2>1. intr \in BOOLEAN BY AlarmTypes DEF AlarmInv
  <2> QED BY <2>1 DEF A!TimEnter, A!At, A!setVars
<1>2. now \in Nat /\ due \in Nat /\ base \in Nat /\ delta \in Nat BY AlarmTypes DEF AlarmInv
<1>3. A!TypeOK' BY <1>1, <1>2, AlarmTypes, AlarmTypesPrime DEF AlarmInv
<1>4. timer_cb # A!NULL => Fired /\ base < now
  <2> SUFFICES ASSUME timer_cb # A!NULL PROVE Fired /\ base < now OBVIOUS
  <2>1. Fired BY <1>1 DEF AlarmInv, AheadInv, Ahead
  <2>2. due = base + delta /\ MinDelta <= delta BY DEF AlarmInv, SetInv
  <2> QED BY <1>2, <2>1, <2>2, AlarmNumbers DEF Fired
<1>5. timer_cb # A!NULL => ~(entered' <= base) BY <1>1, <1>2, <1>4
<1>6. SetInv'
  <2>1. entered' <= now BY <1>1, <1>2
  <2> QED BY <1>1, <1>5, <2>1 DEF AlarmInv, SetInv
<1>7. AheadInv'
  <2>1. timer_cb # A!NULL => Taken' BY <1>1, <1>4 DEF Fired, Taken
  <2> QED BY <1>1, <1>5, <2>1 DEF AheadInv
<1>8. LateInv' BY <1>1 DEF AlarmInv, LateInv
<1>9. ReadInv' BY <1>1 DEF ReadInv
<1> QED BY <1>3, <1>6, <1>7, <1>8, <1>9 DEF AlarmInv

LEMMA ReadStep == ASSUME AlarmInv, A!TimRead PROVE AlarmInv'
<1>1. /\ spc = "idle" /\ tpc = "read" /\ tpc' = (IF timer_cb = A!NULL THEN "idle" ELSE "check")
      /\ f' = timer_cb /\ fdue' = due
      /\ UNCHANGED <<now, timer_cb, due, alarm, armed, intr, spc, base, delta, entered, late>>
  BY DEF A!TimRead, A!At, A!setVars
<1>2. A!TypeOK' BY <1>1, AlarmTypes, AlarmTypesPrime DEF AlarmInv
<1>3. CASE timer_cb = A!NULL
  BY <1>1, <1>2, <1>3 DEF AlarmInv, SetInv, AheadInv, LateInv, ReadInv
<1>4. CASE timer_cb # A!NULL
  <2>1. tpc' = "check" /\ Testing /\ Testing' BY <1>1, <1>4 DEF Testing
  <2>2. SetInv' BY <1>1, <2>1 DEF AlarmInv, SetInv
  <2>3. AheadInv' BY <1>1, <2>1 DEF AlarmInv, AheadInv, Ahead, Fired, Taken
  <2>4. LateInv' BY <1>1, <2>1 DEF AlarmInv, LateInv
  <2>5. ReadInv' BY <1>1, <1>4, <2>1 DEF ReadInv
  <2> QED BY <1>2, <2>2, <2>3, <2>4, <2>5 DEF AlarmInv
<1> QED BY <1>3, <1>4

LEMMA CheckStep == ASSUME AlarmInv, A!TimCheck PROVE AlarmInv'
<1>1. /\ spc = "idle" /\ tpc = "check"
      /\ UNCHANGED <<now, timer_cb, due, alarm, intr, spc, base, delta, f, fdue, entered>>
      /\ \/ A!StillToCome /\ tpc' = "idle" /\ armed' = TRUE /\ late' = late
         \/ ~A!StillToCome /\ tpc' = "clear" /\ armed' = armed /\ late' = FALSE
  BY DEF A!TimCheck, A!At, A!setVars
<1>2. base \in Nat /\ entered \in Nat /\ armed \in BOOLEAN /\ late \in BOOLEAN /\ timer_cb # A!NULL
  BY <1>1, AlarmTypes DEF AlarmInv, ReadInv
<1>3. A!TypeOK'
  <2>1. armed' \in BOOLEAN /\ late' \in BOOLEAN /\ tpc' \in {"idle", "read", "check", "clear", "call"} BY <1>1, <1>2
  <2> QED BY <1>1, <2>1, AlarmTypes, AlarmTypesPrime DEF AlarmInv
<1>4. SetInv' BY <1>1 DEF AlarmInv, SetInv, Testing
<1>5. LateInv' BY <1>1 DEF AlarmInv, LateInv, Testing
<1>6. CASE entered <= base
  <2>1. Ahead /\ A!StillToCome BY <1>1, <1>6, TestDecides
  <2>2. tpc' = "idle" /\ armed' = TRUE BY <1>1, <2>1
  <2>3. Ahead' BY <1>1, <2>1, <2>2 DEF Ahead
  <2>4. AheadInv' BY <2>2, <2>3 DEF AheadInv
  <2>5. ReadInv' BY <2>2 DEF ReadInv
  <2> QED BY <1>3, <1>4, <1>5, <2>4, <2>5 DEF AlarmInv
<1>7. CASE ~(entered <= base)
  <2>1. base < entered BY <1>2, <1>7
  <2>2. Taken /\ ~A!StillToCome BY <1>1, <2>1, TestDecides
  <2>3. tpc' = "clear" /\ armed' = armed BY <1>1, <2>2
  <2>4. Taken' BY <1>1, <2>2, <2>3 DEF Taken
  <2>5. AheadInv' BY <1>1, <1>7, <2>3, <2>4 DEF AheadInv
  <2>6. ReadInv' BY <1>1, <2>1, <2>2, <2>3 DEF AlarmInv, ReadInv, Taken
  <2> QED BY <1>3, <1>4, <1>5, <2>5, <2>6 DEF AlarmInv
<1> QED BY <1>6, <1>7

LEMMA EndStep == ASSUME AlarmInv, A!TimClear \/ A!TimCall PROVE AlarmInv'
<1>1. CASE A!TimClear
  <2>1. /\ spc = "idle" /\ tpc' = "call" /\ timer_cb' = A!NULL
        /\ UNCHANGED <<now, due, alarm, armed, intr, spc, base, delta, f, fdue, entered, late>>
    BY <1>1 DEF A!TimClear, A!At, A!setVars
  <2>2. A!TypeOK' BY <2>1, AlarmTypes, AlarmTypesPrime DEF AlarmInv
  <2> QED BY <2>1, <2>2 DEF AlarmInv, SetInv, AheadInv, LateInv, ReadInv
<1>2. CASE A!TimCall
  <2>1. /\ spc = "idle" /\ tpc = "call" /\ tpc' = "idle"
        /\ UNCHANGED <<now, timer_cb, due, alarm, armed, intr, spc, base, delta, f, fdue, entered, late>>
    BY <1>2 DEF A!TimCall, A!At, A!setVars
  <2>2. A!TypeOK' BY <2>1, AlarmTypes, AlarmTypesPrime DEF AlarmInv
  <2>3. SetInv' BY <2>1 DEF AlarmInv, SetInv, Testing
  <2>4. AheadInv' BY <2>1 DEF AlarmInv, AheadInv, Ahead, Fired
  <2>5. LateInv' /\ ReadInv' BY <2>1 DEF AlarmInv, LateInv, ReadInv, Testing
  <2> QED BY <2>2, <2>3, <2>4, <2>5 DEF AlarmInv
<1> QED BY <1>1, <1>2

LEMMA AlarmStep == AlarmInv /\ [A!Next]_(A!vars) => AlarmInv'
<1> SUFFICES ASSUME AlarmInv, [A!Next]_(A!vars) PROVE AlarmInv' OBVIOUS
<1>1. CASE A!Tick BY <1>1, AlarmTick
<1>2. CASE A!tim_set_timer BY <1>2, SetStep, SetCbStep DEF A!tim_set_timer
<1>3. CASE A!tim_handler
  BY <1>3, EnterStep, ReadStep, CheckStep, EndStep DEF A!tim_handler
<1>4. CASE UNCHANGED A!vars
  <2>1. UNCHANGED <<now, timer_cb, due, alarm, armed, intr, spc, base, delta, tpc, f, fdue, entered, late>>
    BY <1>4 DEF A!vars
  <2>2. A!TypeOK' BY <2>1, AlarmTypes, AlarmTypesPrime DEF AlarmInv
  <2>3. SetInv' BY <2>1 DEF AlarmInv, SetInv, Testing
  <2>4. AheadInv' BY <2>1 DEF AlarmInv, AheadInv, Ahead, Fired, Taken
  <2>5. LateInv' /\ ReadInv' BY <2>1 DEF AlarmInv, LateInv, ReadInv, Testing
  <2> QED BY <2>2, <2>3, <2>4, <2>5 DEF AlarmInv
<1> QED BY <1>1, <1>2, <1>3, <1>4 DEF A!Next

\* The invariant of the one-shot timer (tim.c:19-38, 50-73), for every word and
\* all latencies that the margins of the code allow for.
THEOREM AlarmInvariance == A!Spec => []AlarmInv
  BY AlarmInit, AlarmStep, PTL DEF A!Spec

\* No callback is called before its time, up to the margin, and one that is set
\* always has its alarm ahead or its interrupt pending (tim.c:21-35, 68-72).
THEOREM CallbacksAreInTime == A!Spec => []AlarmOK
<1>1. AlarmInv => AlarmOK
  <2> SUFFICES ASSUME AlarmInv PROVE A!TypeOK /\ A!NotEarly /\ A!NotLost BY DEF AlarmOK
  <2>1. A!TypeOK BY DEF AlarmInv
  <2>2. now \in Nat /\ fdue \in Nat BY <2>1, AlarmTypes
  <2>3. A!NotEarly
    <3>1. tpc = "clear" => now + Margin >= fdue BY <2>2, AlarmNumbers DEF AlarmInv, ReadInv
    <3> QED BY <3>1 DEF A!NotEarly
  <2>4. A!NotLost BY DEF AlarmInv, AheadInv, Ahead, Fired, A!NotLost
  <2> QED BY <2>1, <2>3, <2>4
<1> QED BY <1>1, AlarmInvariance, PTL

\* After the test, what tim_handler has read is what is set, unless tim_set_timer
\* was called since.
LastInv == tpc = "clear" /\ ~late => f = timer_cb /\ fdue = due

LEMMA LastStep == AlarmInv /\ LastInv /\ [A!Next]_(A!vars) => LastInv'
<1> SUFFICES ASSUME AlarmInv, LastInv, [A!Next]_(A!vars), tpc' = "clear", ~late'
             PROVE  f' = timer_cb' /\ fdue' = due'
  BY DEF LastInv
<1>1. CASE A!Tick \/ A!SetAlarm \/ A!SetClear \/ A!SetReturn \/ UNCHANGED A!vars
  BY <1>1 DEF A!Tick, A!SetAlarm, A!SetClear, A!SetReturn, A!vars, A!timVars, LastInv
<1>2. ASSUME NEW cb \in Cb, NEW d \in Delta, A!SetCb(cb, d) PROVE FALSE BY <1>2 DEF A!SetCb
<1>3. CASE A!TimEnter \/ A!TimRead \/ A!TimClear \/ A!TimCall
  BY <1>3 DEF A!TimEnter, A!TimRead, A!TimClear, A!TimCall, A!At
<1>4. CASE A!TimCheck
  <2>1. /\ spc = "idle" /\ tpc = "check" /\ ~A!StillToCome
        /\ UNCHANGED <<timer_cb, due, f, fdue>>
    BY <1>4 DEF A!TimCheck, A!At
  <2>2. base \in Nat /\ entered \in Nat BY AlarmTypes DEF AlarmInv
  <2>3. base < entered BY <2>1, <2>2, TestDecides
  <2> QED BY <2>1, <2>3 DEF AlarmInv, ReadInv
<1> QED BY <1>1, <1>2, <1>3, <1>4 DEF A!Next, A!tim_set_timer, A!tim_handler

\* tim_handler erases a callback without calling it only if it was set between
\* the test and the erasure: one set before the test is left alone, and one that
\* passes it is the one that is called (tim.c:19-38).
THEOREM LosesNothingElse == A!Spec => LosesOnlyLate
<1>1. A!Init => LastInv BY DEF A!Init, LastInv
<1>2. LastInv /\ [A!Next]_(A!vars)
      => [tpc = "clear" /\ tpc' = "call" => late \/ (f = timer_cb /\ fdue = due)]_(A!vars)
  BY DEF LastInv
<1> QED BY <1>1, <1>2, LastStep, AlarmInvariance, PTL DEF A!Spec, LosesOnlyLate, A!LosesOnlyLate
=============================================================================

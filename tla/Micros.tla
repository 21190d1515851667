------------------------------- MODULE Micros -------------------------------
(***************************************************************************)
(* The clock of tim.c.  The hardware counts microseconds in 64 bits and    *)
(* shows them as two registers, timerawh and timerawl, which the code can  *)
(* only read one at a time while the count goes on.  tim_get_micros reads  *)
(* high, low, high until both reads of the high word agree; target_wait_us *)
(* polls the low word.  Any number of callers are in these loops at once:  *)
(* the main loop and the handlers that preempt it.                         *)
(***************************************************************************)
EXTENDS Integers

CONSTANTS
  Word,       \* values of one register: 2^32
  Context,    \* levels that call: main loop, tim_handler, priority 0
  Delay,      \* arguments of target_wait_us
  MaxTime     \* bound on the clock for TLC

ASSUME WordAssumption == Word \in Nat \ {0}
ASSUME DelayAssumption == Delay \subseteq Nat
ASSUME TimeBound == MaxTime \in Nat

VARIABLES
  time,         \* the 64-bit count
  pc,           \* per caller: what it does next
  hi, lo,       \* locals of tim_get_micros
  n, start,     \* argument and local of target_wait_us
  began,        \* when the call in progress, or the last one, began
  rounds,       \* times the loop of tim_get_micros read the low word
  ret           \* what tim_get_micros returned last

vars == <<time, pc, hi, lo, n, start, began, rounds, ret>>

Points == {"idle", "hi", "lo", "next", "returned", "poll", "waited"}

TypeOK ==
  /\ time \in Nat
  /\ pc \in [Context -> Points]
  /\ {hi, began, rounds, ret, n} \subseteq [Context -> Nat]
  /\ {lo, start} \subseteq [Context -> 0 .. Word - 1]

Zeros == [c \in Context |-> 0]

Init ==
  /\ time = 0 /\ pc = [c \in Context |-> "idle"]
  /\ hi = Zeros /\ lo = Zeros /\ n = Zeros /\ start = Zeros
  /\ began = Zeros /\ rounds = Zeros /\ ret = Zeros

Tick ==
  /\ time < MaxTime /\ time' = time + 1
  /\ UNCHANGED <<pc, hi, lo, n, start, began, rounds, ret>>

timerawh == time \div Word
timerawl == time % Word

Goto(c, p, q) == pc[c] \in p /\ pc' = [pc EXCEPT ![c] = q] /\ UNCHANGED time

CallersIdle == {"idle", "returned", "waited"}

-----------------------------------------------------------------------------
(* tim_get_micros *)

Call(c) ==
  /\ Goto(c, CallersIdle, "hi")
  /\ began' = [began EXCEPT ![c] = time] /\ rounds' = [rounds EXCEPT ![c] = 0]
  /\ UNCHANGED <<hi, lo, n, start, ret>>

ReadHi(c) ==
  /\ Goto(c, {"hi"}, "lo")
  /\ hi' = [hi EXCEPT ![c] = timerawh]
  /\ UNCHANGED <<lo, n, start, began, rounds, ret>>

ReadLo(c) ==
  /\ Goto(c, {"lo"}, "next")
  /\ lo' = [lo EXCEPT ![c] = timerawl] /\ rounds' = [rounds EXCEPT ![c] = @ + 1]
  /\ UNCHANGED <<hi, n, start, began, ret>>

\* Variant: the new high word is taken, the low word is not read again.
ReadNextOnce(c) ==
  /\ Goto(c, {"next"}, "returned")
  /\ ret' = [ret EXCEPT ![c] = timerawh * Word + lo[c]]
  /\ UNCHANGED <<hi, lo, n, start, began, rounds>>

\* Variant: the first high word is kept for the next round.
ReadNextKeepsHi(c) ==
  \/ /\ Goto(c, {"next"}, "returned") /\ hi[c] = timerawh
     /\ ret' = [ret EXCEPT ![c] = hi[c] * Word + lo[c]]
     /\ UNCHANGED <<hi, lo, n, start, began, rounds>>
  \/ /\ Goto(c, {"next"}, "lo") /\ hi[c] # timerawh
     /\ UNCHANGED <<hi, lo, n, start, began, rounds, ret>>

\* The second read of the high word: done if it agrees, else another round.
ReadNext(c) ==
  \/ /\ Goto(c, {"next"}, "returned") /\ hi[c] = timerawh
     /\ ret' = [ret EXCEPT ![c] = hi[c] * Word + lo[c]]
     /\ UNCHANGED <<hi, lo, n, start, began, rounds>>
  \/ /\ Goto(c, {"next"}, "lo") /\ hi[c] # timerawh
     /\ hi' = [hi EXCEPT ![c] = timerawh]
     /\ UNCHANGED <<lo, n, start, began, rounds, ret>>

tim_get_micros(c) == Call(c) \/ ReadHi(c) \/ ReadLo(c) \/ ReadNext(c)

-----------------------------------------------------------------------------
(* target_wait_us *)

WaitStart(c, d) ==
  /\ Goto(c, CallersIdle, "poll")
  /\ began' = [began EXCEPT ![c] = time] /\ n' = [n EXCEPT ![c] = d]
  /\ start' = [start EXCEPT ![c] = timerawl]
  /\ UNCHANGED <<hi, lo, rounds, ret>>

\* Variant: compares the end with the time instead of the difference.
WaitUntil(c) ==
  /\ Goto(c, {"poll"}, "waited")
  /\ timerawl >= (start[c] + n[c]) % Word
  /\ UNCHANGED <<hi, lo, n, start, began, rounds, ret>>

\* The loop ends when the difference of the low words, modulo 2^32, is n.
WaitPoll(c) ==
  /\ Goto(c, {"poll"}, "waited")
  /\ (timerawl - start[c]) % Word >= n[c]
  /\ UNCHANGED <<hi, lo, n, start, began, rounds, ret>>

WaitAgain(c) == Goto(c, {"poll"}, "poll") /\ (timerawl - start[c]) % Word < n[c]
                /\ UNCHANGED <<hi, lo, n, start, began, rounds, ret>>

target_wait_us(c) == WaitPoll(c) \/ WaitAgain(c) \/ \E d \in Delay : WaitStart(c, d)

Next == Tick \/ \E c \in Context : tim_get_micros(c) \/ target_wait_us(c)

Spec == Init /\ [][Next]_vars

-----------------------------------------------------------------------------
(* Properties. *)

\* tim_get_micros returns a time at which it was running, wherever the count
\* carries into the high word between its reads: never 2^32 too early or too
\* late, and so never backwards from one call to the next (tim.c:77-94).
TimeWithinCall ==
  \A c \in Context : pc[c] = "returned" => began[c] <= ret[c] /\ ret[c] <= time

\* The loop goes round again only if the count carried: a call that takes
\* less than 2^32 us reads the low word at most twice (tim.c:82-92).
FewRounds ==
  \A c \in Context : pc[c] \in {"next", "returned"} =>
    rounds[c] <= 1 + (time \div Word) - (began[c] \div Word)

\* target_wait_us waits at least as long as it was asked to, also when the
\* low word wraps in the middle (tim.c:97-101).
WaitsEnough ==
  \A c \in Context : pc[c] = "waited" => time >= began[c] + n[c]
=============================================================================

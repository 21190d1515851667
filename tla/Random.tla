------------------------------- MODULE Random -------------------------------
(***************************************************************************)
(* jd_crypto_get_random of platform.c fills a buffer of any size from      *)
(* numbers of four bytes.  A number is told from the others by its place   *)
(* in the sequence that hw_random makes; 0 is what was in memory before.   *)
(* Memory goes on behind the buffer.                                       *)
(***************************************************************************)
EXTENDS Integers

CONSTANTS MaxSize     \* bound on the size of the buffer

Width == 4            \* bytes of an uint32_t

SizeBound == MaxSize \in Nat

VARIABLES
  size,     \* argument; 0 before the first call
  i,        \* the loop's index
  drawn,    \* numbers that this call took from hw_random
  buf       \* memory from the start of its buffer on: who wrote each byte

vars == <<size, i, drawn, buf>>

Memory == 0 .. MaxSize + Width - 1

TypeOK ==
  /\ size \in 0 .. MaxSize /\ drawn \in Nat /\ buf \in [Memory -> Nat]
  /\ i \in 0 .. size + Width - 1

Untouched == [k \in Memory |-> 0]

Init == size = 0 /\ i = 0 /\ drawn = 0 /\ buf = Untouched

hw_random == drawn + 1

\* Variant: the last number is copied whole.
CopyWhole == Width

\* How much of the number is copied.
Copy == IF size - i < Width THEN size - i ELSE Width

More == i < size

\* Called, with a buffer of n bytes, ...
jd_crypto_get_random(n) ==
  ~More /\ size' = n /\ i' = 0 /\ drawn' = 0 /\ buf' = Untouched

\* ... and one iteration of its loop.
FillNext ==
  /\ More
  /\ drawn' = hw_random /\ i' = i + Width
  /\ buf' = [k \in Memory |-> IF k \in i .. i + Copy - 1 THEN hw_random ELSE buf[k]]
  /\ UNCHANGED size

Next == FillNext \/ \E n \in 0 .. MaxSize : jd_crypto_get_random(n)

Spec == Init /\ [][Next]_vars

-----------------------------------------------------------------------------
(* Properties. *)

\* Up to the loop's index every byte of the buffer, and no byte behind it, is
\* written, each group of four from a number of its own, whatever remains for
\* the last one (platform.c:182-187).  When the loop ends that is all of it.
Filled ==
  \A k \in Memory : buf[k] = IF k < i /\ k < size THEN k \div Width + 1 ELSE 0
=============================================================================

------------------------------- MODULE Store --------------------------------
(***************************************************************************)
(* What the storage promises: a memory that is written behind.  A cell     *)
(* moves from view, what its users asked for, to cache, what the driver    *)
(* accepted, to durable, what the chip holds.  Accepted values are never   *)
(* taken back, except by a power failure, which leaves each cell as it was *)
(* or as it was accepted.                                                  *)
(***************************************************************************)
CONSTANTS Addr, Erased

VARIABLES view, cache, durable

vars == <<view, cache, durable>>

Init == view = durable /\ cache = durable

\* Each cell of the first memory stays or is taken over from the second.
Moves(new, old, from) == \A a \in Addr : new[a] \in {old[a], from[a]}

\* A request changes no memory but the view.
Write == UNCHANGED <<cache, durable>>

Accept == UNCHANGED <<view, durable>> /\ Moves(cache', cache, view)

WriteBehind == UNCHANGED <<view, cache>> /\ Moves(durable', durable, cache)

\* A cell is erased from all three at once.
Erase ==
  \A a \in Addr : \/ UNCHANGED <<view[a], cache[a], durable[a]>>
                  \/ {view'[a], cache'[a], durable'[a]} = {Erased}

PowerFails ==
  /\ view' = durable' /\ cache' = durable'
  /\ \/ Moves(durable', durable, cache)
     \/ \A a \in Addr : durable'[a] \in {durable[a], Erased}

Next == Write \/ Accept \/ WriteBehind \/ Erase \/ PowerFails

Spec == Init /\ [][Next]_vars
=============================================================================

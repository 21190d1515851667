-------------------------------- MODULE Dma --------------------------------
(***************************************************************************)
(* The DMA dispatcher of dma.c and the controller registers it drives, as  *)
(* operators on one value d: for every channel, whether a transfer runs    *)
(* (busy), the raw interrupt flag (intr), its enable bit in inte0 (inte)   *)
(* and the entry of the table dmaHandler[] (handler).  The modules of the  *)
(* drivers that use DMA keep such a value in a variable.                   *)
(***************************************************************************)
EXTENDS Integers

CONSTANT Channel            \* channel numbers; 0..11 on the chip

ASSUME ChannelAssumption == Channel \subseteq Nat

NULL == "NULL"

Slot(H) == [busy: BOOLEAN, intr: BOOLEAN, inte: BOOLEAN, handler: H \cup {NULL}]

DmaReset == [c \in Channel |->
    [busy |-> FALSE, intr |-> FALSE, inte |-> FALSE, handler |-> NULL]]

-----------------------------------------------------------------------------
(* The controller. *)

\* The register ints0: the channels that raise DMA_IRQ_0.
ints0(d) == {c \in Channel : d[c].intr /\ d[c].inte}

\* Writing ones to ints0 clears the raw flags.
WriteInts0(d, m) == [c \in Channel |-> [d[c] EXCEPT !.intr = @ /\ c \notin m]]

StartChannel(d, c) == [d EXCEPT ![c].busy = TRUE]

\* A transfer ends by itself: the channel goes idle and flags its interrupt.
FinishChannel(d, c) == [d EXCEPT ![c] = [@ EXCEPT !.busy = FALSE, !.intr = TRUE]]

\* Writing the abort register stops the busy channels of m; each flags its
\* interrupt as if it had finished.  The drivers depend on it: nothing else
\* takes the handler of an aborted channel out of dmaHandler[].
AbortChannels(d, m) ==
  [c \in Channel |->
      IF c \in m /\ d[c].busy THEN [d[c] EXCEPT !.busy = FALSE, !.intr = TRUE]
                              ELSE d[c]]

-----------------------------------------------------------------------------
(* dma.c *)

\* JD_ASSERT(!dmaHandler[channel].handler) of dma_set_ch_cb.
SlotFree(d, c) == d[c].handler = NULL

\* dma_set_ch_cb, its assertion aside: register the handler, drop a stale
\* interrupt, then let the channel interrupt.
dma_set_ch_cb(d, c, h) ==
  [d EXCEPT ![c] = [@ EXCEPT !.handler = h, !.intr = FALSE, !.inte = TRUE]]

\* isr_dma_0 takes a handler out of the table before it calls it.
Retire(d, c) == [d EXCEPT ![c] = [@ EXCEPT !.inte = FALSE, !.handler = NULL]]

\* isr_dma_0 visits the channels of its mask in ascending order.
IsFirst(c, m) == \A e \in m : c <= e
=============================================================================

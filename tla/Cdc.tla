-------------------------------- MODULE Cdc ---------------------------------
(***************************************************************************)
(* The USB serial line of usb.c, which carries Jacdac frames both ways.    *)
(* jd_usb_process pulls what waits for the host into TinyUSB's transmit    *)
(* queue as long as there is room for a whole packet; tud_cdc_rx_cb, which *)
(* tud_task calls when a packet came, pushes what arrived.                 *)
(*                                                                         *)
(* TinyUSB, the host and the source of frames (jd_usb_pull) are external.  *)
(* A byte is its number in the stream.  The line state and the end of      *)
(* transfers are seen by tud_task only.                                    *)
(***************************************************************************)
EXTENDS Integers, Sequences

CONSTANTS
  Packet,     \* 64: the packet, and the buffers of usb.c
  TxFifo,     \* 128: CFG_TUD_CDC_TX_BUFSIZE
  RxFifo,     \* 64: CFG_TUD_CDC_RX_BUFSIZE
  MaxBytes    \* bound on the length of the streams

CdcSizes ==
  /\ {Packet, TxFifo, RxFifo, MaxBytes} \subseteq Nat \ {0}
  /\ Packet <= TxFifo

VARIABLES
  connected,     \* tud_cdc_connected: the host has opened the port
  pc,            \* "idle", or "fill" in the loop of jd_usb_process
  made,          \* bytes that the source has made
  pulled,        \* bytes that jd_usb_pull has given
  fifo,          \* transmit queue
  ep,            \* the transmit endpoint's packet ...
  ep_state,      \* ... "idle", "queued", or "done" when the host has it
  got,           \* the last byte the host got, or was to get before a reset
  rx,            \* receive queue
  rx_event,      \* a packet came that tud_task has not seen
  came,          \* bytes that the host has sent
  pushed         \* history: the last byte given to jd_usb_push, in order so far

tx == <<made, pulled, fifo, ep, ep_state, got>>
in == <<rx, rx_event, came, pushed>>
vars == <<connected, pc, tx, in>>

Bytes == Seq(1 .. MaxBytes)

TypeOK ==
  /\ connected \in BOOLEAN /\ pc \in {"idle", "fill"} /\ rx_event \in BOOLEAN
  /\ pc = "fill" => connected
  /\ {made, pulled, got, came, pushed} \subseteq 0 .. MaxBytes /\ pulled <= made
  /\ fifo \in Bytes /\ Len(fifo) <= TxFifo /\ ep \in Bytes /\ Len(ep) <= Packet
  /\ ep_state \in {"idle", "queued", "done"} /\ (ep_state = "idle" => ep = <<>>)
  /\ rx \in Bytes /\ Len(rx) <= RxFifo

Init ==
  /\ connected = FALSE /\ pc = "idle"
  /\ made = 0 /\ pulled = 0 /\ fifo = <<>> /\ ep = <<>> /\ ep_state = "idle" /\ got = 0
  /\ rx = <<>> /\ rx_event = FALSE /\ came = 0 /\ pushed = 0

Range1(a, n) == [i \in 1 .. n |-> a + i]
Least(a, b) == IF a < b THEN a ELSE b

\* tud_cdc_n_write_flush of queue q to an idle endpoint.
FlushInto(q) ==
  LET n == Least(Len(q), Packet)
  IN  IF n = 0 THEN fifo' = q /\ ep' = <<>> /\ ep_state' = "idle"
      ELSE fifo' = SubSeq(q, n + 1, Len(q)) /\ ep' = SubSeq(q, 1, n) /\ ep_state' = "queued"

\* tud_task: the end of a transfer starts the next.
TaskTx == IF ep_state = "done" THEN FlushInto(fifo) ELSE UNCHANGED <<fifo, ep, ep_state>>

\* Variant: one read.
DrainedOnce == SubSeq(rx, 1, Least(Packet, Len(rx)))

\* What the loop of tud_cdc_rx_cb reads, a buffer at a time.
Drained == rx

\* jd_usb_push must get consecutive bytes: pushed stops at a gap.
TaskRx ==
  IF ~rx_event THEN UNCHANGED in
  ELSE /\ rx_event' = FALSE /\ rx' = SubSeq(rx, Len(Drained) + 1, Len(rx))
       /\ pushed' = IF Drained = Range1(pushed, Len(Drained)) THEN pushed + Len(Drained)
                                                              ELSE pushed
       /\ UNCHANGED came

-----------------------------------------------------------------------------
(* jd_usb_process; hid_process is in Hid. *)

\* Variant: the queue is filled whether or not the port is open.
ProcessStartAlways ==
  /\ pc = "idle" /\ pc' = "fill" /\ TaskTx /\ TaskRx
  /\ UNCHANGED <<connected, made, pulled, got>>

ProcessStart ==
  /\ pc = "idle" /\ pc' = IF connected THEN "fill" ELSE "idle"
  /\ TaskTx /\ TaskRx
  /\ UNCHANGED <<connected, made, pulled, got>>

\* Variant: there is room for a byte.
RoomForOne == TxFifo - Len(fifo) >= 1

Room == TxFifo - Len(fifo) >= Packet

\* Variant: a short packet is not flushed.
FlushFull(q) == IF ep_state = "idle" /\ Len(q) >= Packet THEN FlushInto(q)
                ELSE fifo' = q /\ UNCHANGED <<ep, ep_state>>

Flush(q) == IF ep_state = "idle" THEN FlushInto(q)
            ELSE fifo' = q /\ UNCHANGED <<ep, ep_state>>

\* Pull, write what the queue takes, flush.
Fill ==
  /\ pc = "fill" /\ Room
  /\ \E sz \in 1 .. Least(Packet, made - pulled) :
       /\ pulled' = pulled + sz
       /\ Flush(fifo \o SubSeq(Range1(pulled, sz), 1, Least(sz, TxFifo - Len(fifo))))
  /\ UNCHANGED <<connected, pc, made, got, in>>

FillEnd ==
  /\ pc = "fill" /\ (~Room \/ made = pulled)
  /\ pc' = "idle" /\ TaskTx /\ TaskRx
  /\ UNCHANGED <<connected, made, pulled, got>>

-----------------------------------------------------------------------------
(* The source of frames and the host. *)

Produce == /\ made < MaxBytes /\ made' = made + 1
           /\ UNCHANGED <<connected, pc, pulled, fifo, ep, ep_state, got, in>>

LineState == /\ pc = "idle" /\ connected' = ~connected
             /\ UNCHANGED <<pc, tx, in>>

\* A bus reset empties the queues.
BusReset ==
  /\ pc = "idle" /\ connected' = FALSE
  /\ fifo' = <<>> /\ ep' = <<>> /\ ep_state' = "idle" /\ got' = pulled
  /\ rx' = <<>> /\ rx_event' = FALSE /\ pushed' = came
  /\ UNCHANGED <<pc, made, pulled, came>>

HostReads ==
  /\ ep_state = "queued" /\ ep_state' = "done"
  /\ got' = IF ep = Range1(got, Len(ep)) THEN got + Len(ep) ELSE got
  /\ UNCHANGED <<connected, pc, made, pulled, fifo, ep, in>>

HostSends ==
  /\ ~rx_event /\ rx_event' = TRUE
  /\ \E n \in 1 .. Least(RxFifo - Len(rx), MaxBytes - came) :
       rx' = rx \o Range1(came, n) /\ came' = came + n
  /\ UNCHANGED <<connected, pc, tx, pushed>>

Next == \/ ProcessStart \/ Fill \/ FillEnd
        \/ Produce \/ LineState \/ BusReset \/ HostReads \/ HostSends

Spec == Init /\ [][Next]_vars

\* The main loop runs and the host reads.
FairSpec == Spec /\ WF_vars(ProcessStart) /\ WF_vars(Fill) /\ WF_vars(FillEnd)
                 /\ WF_vars(HostReads)

-----------------------------------------------------------------------------
(* Properties. *)

\* Between what the host got and what was pulled nothing is missing, doubled
\* or out of order: the result of tud_cdc_n_write may be ignored, because
\* there is room for whatever jd_usb_pull returns (usb.c:50-58).
NothingDropped ==
  LET way == (IF ep_state = "queued" THEN ep ELSE <<>>) \o fifo
  IN  way = Range1(got, Len(way)) /\ got + Len(way) = pulled

\* While the port stays open, whatever the source makes reaches the host: the
\* queue cannot fill up in a way that stops the loop for good (usb.c:15-21:
\* "we eagerly fill buffers in usb_process()").
AllSent == <>[]connected => <>[](got = made)

\* What the host sends is pushed, to the last byte, without waiting for the
\* host to send more (usb.c:27-35).
AllPushed == []<>(pushed = came)
=============================================================================

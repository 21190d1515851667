------------------------------ MODULE MainLoop ------------------------------
(***************************************************************************)
(* The main loop of main.c with the two drivers that hand it the results   *)
(* of DMA transfers: the SPI master of spi.c and the log output of         *)
(* uart_log.c.  The loop is preempted between any two of its steps by      *)
(* isr_dma_0, which runs spi_dma_cb and tx_handler, and by interrupts of   *)
(* the other drivers, which deliver frames and log messages.  It sleeps    *)
(* with wfe, which an interrupt ends and which does not sleep at all if    *)
(* one has happened since the last wfe.                                    *)
(*                                                                         *)
(* The code under jd_process_everything and the done_fn callbacks belong   *)
(* to submodules: they may call any operation of the SPI driver, at any    *)
(* time it allows, and may log.                                            *)
(***************************************************************************)
EXTENDS Dma, FiniteSets

CONSTANTS
  dma_tx, dma_rx, dmachTx,   \* the channels the two drivers claim
  DoneFn,                    \* callbacks passed to jd_spi_xfer
  Controllers, spi_default,  \* those the pins may select, and the board's own
  Mixes,                     \* sets of transfers, "tx", "rx" or "txrx", that a program uses
  LogPins,                   \* pins that log.pinTX may name, NO_PIN included
  MaxFrames, MaxLog          \* bounds on the frames and messages waiting

ASSUME MainChannels ==
  /\ {dma_tx, dma_rx, dmachTx} \subseteq Channel
  /\ dma_tx # dma_rx /\ dmachTx \notin {dma_tx, dma_rx}
ASSUME MainInputs ==
  /\ Mixes \subseteq SUBSET {"tx", "rx", "txrx"} /\ NULL \notin DoneFn \cup Controllers
  /\ {MaxFrames, MaxLog} \subseteq Nat

NO_PIN  == "NO_PIN"
RxDepth == 2     \* bound on rxq; the queue drops what does not fit

VARIABLES
  spi,           \* the controller in use
  spi_in_use, spi_done_cb,
  rxq,           \* transfers' worth of bytes in the receive queue
  context,       \* the argument stored with spi_dma_cb in dmaHandler[]
  dma,           \* see Dma
  in_tx,         \* uart_log.c
  logCh,         \* its dmachTx: "unset" (-1), "off" (-2) or "on" (a channel)
  prev_tx_pin,
  dmesg,         \* messages not yet read by jd_dmesg_read
  frames,        \* frames waiting for jd_process_everything
  pc, f,         \* the loop: control point, and f of jd_spi_process
  xfer,          \* arguments of the jd_spi_xfer in progress
  event,         \* the event register that wfe tests
  owed,          \* the callback of the transfer accepted last, until called
  clean,         \* history: nothing of an earlier transfer was left when it began
  kinds,         \* the transfers that this program uses
  fault          \* first failed assertion

spiVars == <<spi, spi_in_use, spi_done_cb, rxq, context, owed, clean>>
logVars == <<in_tx, logCh, prev_tx_pin>>
cpuVars == <<pc, f, xfer, event>>
vars == <<spiVars, dma, logVars, dmesg, frames, cpuVars, fault, kinds>>

Handlers == {"spi_dma_cb", "tx_handler"}
Points   == {"log_init", "jd_init", "process", "spi_read", "spi_clear", "spi_free",
             "spi_call", "in_cb", "log", "log_start", "has_frame", "wfe", "asleep",
             "xfer_cb", "xfer_start"}
NoXfer   == [kind |-> NULL, fn |-> NULL, ret |-> NULL]

TypeOK ==
  /\ {spi_in_use, in_tx, event, clean} \subseteq BOOLEAN /\ spi \in Controllers \cup {NULL}
  /\ {spi_done_cb, context, f, owed} \subseteq DoneFn \cup {NULL}
  /\ rxq \in 0 .. RxDepth /\ dma \in [Channel -> Slot(Handlers)]
  /\ logCh \in {"unset", "off", "on"} /\ prev_tx_pin \in LogPins \cup {NO_PIN}
  /\ dmesg \in 0 .. MaxLog /\ frames \in 0 .. MaxFrames
  /\ pc \in Points
  /\ xfer \in [kind: kinds, fn: DoneFn, ret: {"process", "in_cb"}] \cup {NoXfer}
  /\ fault \in {"none", "spi_done_cb", "dma_slot", "wrong_cb"} /\ kinds \in Mixes

Init ==
  /\ spi = NULL /\ spi_in_use = FALSE /\ spi_done_cb = NULL /\ rxq = 0
  /\ context = NULL /\ owed = NULL /\ clean = FALSE
  /\ dma = DmaReset
  /\ in_tx = FALSE /\ logCh = "unset" /\ prev_tx_pin = NO_PIN
  /\ dmesg = 0 /\ frames = 0
  /\ pc = "log_init" /\ f = NULL /\ xfer = NoXfer /\ event = FALSE
  /\ fault = "none" /\ kinds \in Mixes

\* A step of the loop from p to q; a pending interrupt comes first.
At(p, q) == fault = "none" /\ ints0(dma) = {} /\ pc = p /\ pc' = q

-----------------------------------------------------------------------------
(* spi.c *)

\* Variant: ready once configured.
ReadyIfConfigured == spi # NULL

jd_spi_is_ready == spi # NULL /\ ~spi_in_use

\* The pins select a controller, and spi_init resets it and empties its queues.
\* The receive channel is paced by that controller but reads the data register
\* of spi_default, see SpiRxDone.
jd_spi_init ==
  /\ \E p \in {"process", "in_cb"} : At(p, p)
  /\ ~spi_in_use
  /\ spi' \in Controllers /\ rxq' = 0
  /\ UNCHANGED <<spi_in_use, spi_done_cb, context, owed, clean, dma, logVars, dmesg, frames,
                 f, xfer, event, fault>>

\* Nothing is left of earlier transfers that could end one of kind k early: the
\* transmit channel is idle and, if the receive channel is to tell the end, that
\* one reads the controller in use, whose queue is empty.
Quiet(k) == ~dma[dma_tx].busy /\ (k = "tx" \/ (spi = spi_default /\ rxq = 0))

\* jd_spi_xfer, called at p with a length that is in range: nothing happens
\* unless the driver is ready, ...
jd_spi_xfer(p, k, fn) ==
  /\ At(p, "xfer_cb")
  /\ jd_spi_is_ready
  /\ spi_in_use' = TRUE
  /\ xfer' = [kind |-> k, fn |-> fn, ret |-> p]
  /\ owed' = fn /\ clean' = Quiet(k)
  /\ UNCHANGED <<spi, spi_done_cb, rxq, context, dma, logVars, dmesg, frames, f, event, fault>>

\* Variant: the callback goes to the transmit channel if there is one.
LastChannelTx == IF xfer.kind = "rx" THEN dma_rx ELSE dma_tx

LastChannel == IF xfer.kind = "tx" THEN dma_tx ELSE dma_rx

\* ... the callback goes to the receive channel if there is one, ...
XferSetCb ==
  LET c == LastChannel
  IN  /\ At("xfer_cb", "xfer_start")
      /\ fault' = IF SlotFree(dma, c) THEN fault ELSE "dma_slot"
      /\ dma' = dma_set_ch_cb(dma, c, "spi_dma_cb")
      /\ context' = xfer.fn
      /\ UNCHANGED <<spi, spi_in_use, spi_done_cb, rxq, owed, clean, logVars, dmesg, frames,
                     f, xfer, event>>

\* ... and the channels are started together.
XferStart ==
  LET tx == IF xfer.kind = "rx" THEN dma ELSE StartChannel(dma, dma_tx)
  IN  /\ At("xfer_start", xfer.ret)
      /\ dma' = IF xfer.kind = "tx" THEN tx ELSE StartChannel(tx, dma_rx)
      /\ xfer' = NoXfer
      /\ UNCHANGED <<spiVars, logVars, dmesg, frames, f, event, fault>>

\* jd_spi_process reads spi_done_cb, clears it, frees the driver and only
\* then calls, so that the callback may start the next transfer.
SpiRead ==
  /\ At("spi_read", IF spi_done_cb = NULL THEN "log" ELSE "spi_clear")
  /\ f' = spi_done_cb
  /\ UNCHANGED <<spiVars, dma, logVars, dmesg, frames, xfer, event, fault>>

\* Variant: spi_done_cb is not cleared.
SpiKeepsCb ==
  /\ At("spi_clear", "spi_free")
  /\ UNCHANGED <<spiVars, dma, logVars, dmesg, frames, f, xfer, event, fault>>

SpiClear ==
  /\ At("spi_clear", "spi_free")
  /\ spi_done_cb' = NULL
  /\ UNCHANGED <<spi, spi_in_use, rxq, context, owed, clean, dma, logVars, dmesg, frames,
                 f, xfer, event, fault>>

SpiFree ==
  /\ At("spi_free", "spi_call")
  /\ spi_in_use' = FALSE
  /\ UNCHANGED <<spi, spi_done_cb, rxq, context, owed, clean, dma, logVars, dmesg, frames,
                 f, xfer, event, fault>>

SpiCall ==
  /\ At("spi_call", "in_cb")
  /\ fault' = IF f = owed THEN fault ELSE "wrong_cb"
  /\ owed' = NULL
  /\ UNCHANGED <<spi, spi_in_use, spi_done_cb, rxq, context, clean, dma, logVars, dmesg, frames,
                 f, xfer, event>>

SpiCallReturns ==
  /\ At("in_cb", "log")
  /\ UNCHANGED <<spiVars, dma, logVars, dmesg, frames, f, xfer, event, fault>>

-----------------------------------------------------------------------------
(* uart_log.c and dmesg_to_stdout.  LogPins are the valid pins: an invalid *)
(* one counts as NO_PIN in uart_log_init and is ignored afterwards.        *)

uart_log_init(p) == /\ logCh' = IF p = NO_PIN THEN "off" ELSE "on"
                    /\ prev_tx_pin' = p

MainLogInit ==
  /\ At("log_init", "jd_init")
  /\ \E p \in LogPins \cup {NO_PIN} : uart_log_init(p)
  /\ UNCHANGED <<spiVars, dma, in_tx, dmesg, frames, f, xfer, event, fault>>

\* jd_init reaches app_init_services, where the configuration may name
\* another pin by now.
uart_log_sync_pin ==
  /\ At("jd_init", "process")
  /\ \E p \in LogPins \cup {NO_PIN} :
       IF p # prev_tx_pin /\ logCh = "off" THEN uart_log_init(p)
                                           ELSE prev_tx_pin' = p /\ UNCHANGED logCh
  /\ UNCHANGED <<spiVars, dma, in_tx, dmesg, frames, f, xfer, event, fault>>

\* Variant: the flag of the write is not set.
LogFlagMissing ==
  /\ At("log", IF in_tx THEN "process" ELSE IF dmesg = 0 THEN "has_frame"
               ELSE IF logCh = "off" THEN "process" ELSE "log_start")
  /\ dmesg' = IF in_tx \/ dmesg = 0 THEN dmesg ELSE dmesg - 1
  /\ UNCHANGED <<spiVars, dma, logVars, frames, f, xfer, event, fault>>

\* Variant: the length that was read is not tested.
LogLengthUnchecked ==
  /\ At("log", IF in_tx \/ logCh = "off" THEN "process" ELSE "log_start")
  /\ dmesg' = IF in_tx THEN dmesg ELSE dmesg - 1
  /\ in_tx' = (in_tx \/ logCh = "on")
  /\ UNCHANGED <<spiVars, dma, logCh, prev_tx_pin, frames, f, xfer, event, fault>>

\* dmesg_to_stdout: wait for the last write; else fill the static
\* buffer with messages and write it, or drop it when the log is off.
dmesg_to_stdout ==
  /\ At("log", IF in_tx THEN "process" ELSE IF dmesg = 0 THEN "has_frame"
               ELSE IF logCh = "off" THEN "process" ELSE "log_start")
  /\ dmesg' = IF in_tx \/ dmesg = 0 THEN dmesg ELSE dmesg - 1
  /\ in_tx' = (in_tx \/ (dmesg > 0 /\ logCh = "on"))
  /\ UNCHANGED <<spiVars, dma, logCh, prev_tx_pin, frames, f, xfer, event, fault>>

\* The rest of uart_log_write.
LogStart ==
  /\ At("log_start", "process")
  /\ fault' = IF SlotFree(dma, dmachTx) THEN fault ELSE "dma_slot"
  /\ dma' = StartChannel(dma_set_ch_cb(dma, dmachTx, "tx_handler"), dmachTx)
  /\ UNCHANGED <<spiVars, logVars, dmesg, frames, f, xfer, event>>

-----------------------------------------------------------------------------
(* The rest of the loop. *)

\* jd_process_everything (external) takes a frame; it may log and use SPI.
Process ==
  /\ At("process", "spi_read")
  /\ frames' = IF frames = 0 THEN 0 ELSE frames - 1
  /\ UNCHANGED <<spiVars, dma, logVars, dmesg, f, xfer, event, fault>>

AppLog ==
  /\ \E p \in {"process", "in_cb"} : At(p, p)
  /\ dmesg < MaxLog /\ dmesg' = dmesg + 1
  /\ UNCHANGED <<spiVars, dma, logVars, frames, f, xfer, event, fault>>

HasFrame ==
  /\ At("has_frame", IF frames > 0 THEN "process" ELSE "wfe")
  /\ UNCHANGED <<spiVars, dma, logVars, dmesg, frames, f, xfer, event, fault>>

\* Variant: sleep whatever has happened since the test.
WfeForgets ==
  /\ At("wfe", "asleep")
  /\ event' = FALSE
  /\ UNCHANGED <<spiVars, dma, logVars, dmesg, frames, f, xfer, fault>>

Wfe ==
  /\ At("wfe", IF event THEN "process" ELSE "asleep")
  /\ event' = FALSE
  /\ UNCHANGED <<spiVars, dma, logVars, dmesg, frames, f, xfer, fault>>

App  == jd_spi_init \/ AppLog
        \/ \E p \in {"process", "in_cb"}, k \in kinds, fn \in DoneFn : jd_spi_xfer(p, k, fn)
Loop == MainLogInit \/ uart_log_sync_pin \/ Process \/ XferSetCb \/ XferStart
        \/ SpiRead \/ SpiClear \/ SpiFree \/ SpiCall \/ SpiCallReturns
        \/ dmesg_to_stdout \/ LogStart \/ HasFrame \/ Wfe

-----------------------------------------------------------------------------
(* Interrupts and the hardware. *)

\* Taking an interrupt sets the event register and ends a sleep.
Interrupt ==
  /\ fault = "none" /\ event' = TRUE
  /\ pc' = IF pc = "asleep" THEN "process" ELSE pc
  /\ UNCHANGED <<f, xfer>>

\* isr_dma_0 for the channels of the two drivers: each handler is retired,
\* then spi_dma_cb hands its callback to the loop and tx_handler frees the log.
isr_dma_0 ==
  LET m      == ints0(dma)
      called == {dma[c].handler : c \in m}
      acked  == WriteInts0(dma, m)
  IN  /\ m # {} /\ Interrupt
      /\ dma' = [c \in Channel |-> IF c \in m THEN Retire(acked, c)[c] ELSE acked[c]]
      /\ fault' = IF "spi_dma_cb" \in called /\ spi_done_cb # NULL THEN "spi_done_cb" ELSE fault
      /\ spi_done_cb' = IF "spi_dma_cb" \in called THEN context ELSE spi_done_cb
      /\ in_tx' = (in_tx /\ "tx_handler" \notin called)
      /\ UNCHANGED <<spi, spi_in_use, rxq, context, owed, clean, logCh, prev_tx_pin, dmesg, frames>>

\* Other interrupts (external): a frame arrives, a message is logged, or
\* neither.
OtherIsr ==
  /\ Interrupt
  /\ frames' \in {frames, frames + 1} /\ frames' <= MaxFrames
  /\ dmesg' \in {dmesg, dmesg + 1} /\ dmesg' <= MaxLog
  /\ UNCHANGED <<spiVars, dma, logVars, fault>>

\* The SPI controller (external): every byte sent clocks one in.
SpiTxDone ==
  /\ dma[dma_tx].busy
  /\ dma' = FinishChannel(dma, dma_tx)
  /\ rxq' = IF rxq = RxDepth THEN rxq ELSE rxq + 1
  /\ UNCHANGED <<spi, spi_in_use, spi_done_cb, context, owed, clean, logVars, dmesg, frames,
                 cpuVars, fault>>

\* The receive channel has moved its count.  If it reads another controller than
\* the one that paces it, the queue is not drained, and one byte in it, which the
\* transfer's own first byte may be, is enough.
SpiRxDone ==
  /\ dma[dma_rx].busy
  /\ \/ spi = spi_default /\ rxq > 0 /\ rxq' = rxq - 1
     \/ spi # spi_default /\ (rxq > 0 \/ dma[dma_tx].busy) /\ rxq' = rxq
  /\ dma' = FinishChannel(dma, dma_rx)
  /\ UNCHANGED <<spi, spi_in_use, spi_done_cb, context, owed, clean, logVars, dmesg, frames,
                 cpuVars, fault>>

LogDone ==
  /\ dma[dmachTx].busy
  /\ dma' = FinishChannel(dma, dmachTx)
  /\ UNCHANGED <<spiVars, logVars, dmesg, frames, cpuVars, fault>>

Step == App \/ Loop \/ isr_dma_0 \/ OtherIsr \/ SpiTxDone \/ SpiRxDone \/ LogDone
Next == Step /\ UNCHANGED kinds

\* The loop runs whenever no interrupt is served, interrupts are served, and
\* the controllers finish what they can.  Nothing is assumed of the other
\* interrupts: none may ever come to end a sleep.
Fairness ==
  /\ WF_vars(Loop /\ UNCHANGED kinds) /\ WF_vars(isr_dma_0 /\ UNCHANGED kinds)
  /\ WF_vars(SpiTxDone /\ UNCHANGED kinds) /\ WF_vars(SpiRxDone /\ UNCHANGED kinds)
  /\ WF_vars(LogDone /\ UNCHANGED kinds)

Spec     == Init /\ [][Next]_vars
FairSpec == Spec /\ Fairness

-----------------------------------------------------------------------------
(* Properties. *)

\* No assertion of spi.c or dma.c fails, and jd_spi_process calls the
\* callback that the last accepted transfer was given: spi_done_cb is free
\* when spi_dma_cb fills it, whenever the interrupt comes and although a
\* callback may start the next transfer (spi.c:28, 89, 117; dma.c:63).
CompletionsInOrder == fault = "none"

\* Where the callback of a transfer can be on its way back to its caller.
Places == {
  <<"arg", pc = "xfer_cb">>,
  <<"dma", \E c \in {dma_tx, dma_rx} : dma[c].handler = "spi_dma_cb" /\ context = owed>>,
  <<"done", spi_done_cb # NULL /\ spi_done_cb = owed>>,
  <<"loop", pc \in {"spi_free", "spi_call"} /\ f = owed>>}

\* The callback of an accepted transfer is in exactly one place until it is
\* called, and in none afterwards: never lost, never called twice; and the
\* driver accepts no transfer meanwhile (spi.c:18-30, 116-118).
CallbackOnce ==
  /\ CompletionsInOrder
  /\ Cardinality({p \in Places : p[2]}) = (IF owed = NULL THEN 0 ELSE 1)
  /\ owed # NULL /\ pc # "spi_call" => spi_in_use

\* The loop never sleeps over work, whatever arrives between its tests and
\* wfe: a frame, a finished transfer, an unread message (main.c:46-57).
NoSleepOverWork ==
  pc = "asleep" => frames = 0 /\ spi_done_cb = NULL /\ dmesg = 0 /\ ~in_tx

\* The static buffer of dmesg_to_stdout is not refilled while it is being
\* sent: as long as the channel runs, uart_log_can_write says no (main.c:29).
LogBufferStable == dma[dmachTx].busy => in_tx

\* When the loop is given the callback of a transfer, and until it has called it,
\* the receive channel is done with the caller's buffer, and so is the transmit
\* channel unless something of an earlier transfer was left when this one began:
\* bytes in the queue, after a transfer without rxdata or on a controller whose
\* queue is not drained, or a transmit channel that such bytes have let run on
\* (spi.c:75, 104-118).
SpiBuffersFree ==
  spi_done_cb # NULL \/ pc \in {"spi_clear", "spi_free", "spi_call"}
    => ~dma[dma_rx].busy /\ (clean => ~dma[dma_tx].busy)

\* No buffer is given back or refilled under a running channel (main.c:29,
\* spi.c:75, 104-118).
BuffersFree == LogBufferStable /\ SpiBuffersFree

\* jd_spi_xfer "can in fact be invoked from done_fn()" (spi.c:89): it does not
\* set up a channel that still runs for the transfer before.
SetsUpIdleChannels == pc = "xfer_cb" => \A c \in {dma_tx, dma_rx} : ~dma[c].busy

\* Every transfer that jd_spi_xfer accepts is completed: its callback is
\* called (spi.c:88-121 with 18-30).
SpiCompletes == owed # NULL ~> owed = NULL
=============================================================================

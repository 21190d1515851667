----------------------------- MODULE JacdacUart -----------------------------
(***************************************************************************)
(* The single-wire Jacdac UART of uart.c with everything it shares the     *)
(* interrupt system with: the pin edge interrupt (pins.c), the DMA         *)
(* dispatcher (dma.c), the one-shot timer (tim.c) and the nesting of       *)
(* target_disable_irq (platform.c).                                        *)
(*                                                                         *)
(* Three kinds of code run on the core.  The main loop is preempted by     *)
(* everything; tim_handler runs at IRQ_PRIORITY_TIM and is preempted by    *)
(* the handlers of priority 0: isr_pio0_0, isr_dma_0 and isr_io_bank0,     *)
(* which do not preempt each other.  A step of a lower level is possible   *)
(* only when no unmasked interrupt of a higher one is pending.             *)
(*                                                                         *)
(* The caller of the driver, the physical layer of jacdac-c, is a          *)
(* submodule: its operators below are marked external.  Timing is          *)
(* abstract except for the two assumptions named in RxEndPossible and      *)
(* AlarmFires.                                                             *)
(***************************************************************************)
EXTENDS Dma

CONSTANTS dmachRx, dmachTx     \* the channels uart_init_ claims

ASSUME UartChannels == {dmachRx, dmachTx} \subseteq Channel /\ dmachRx # dmachTx

VARIABLES
  jacdac_pin,   \* "PIN", or "NO_PIN" when the board configures none
  uart_status,  \* "IDLE", "TX" or "RX"
  exti,         \* edge interrupt of the pin: en(abled), edge latched
  pin,          \* pad: pio selects PIO over SIO, oe the SIO and dir the PIO direction
  sm,           \* PIO machines: tx, rx enabled; fifo holds data; stall flag
  brk,          \* PIO break interrupt: flag, src enabled, pend in the NVIC
  dma,          \* see Dma
  timer,        \* timer_cb, and the alarm: armed, pend(ing interrupt)
  irq,          \* irq_disabled and PRIMASK
  jd_status,    \* jacdac-c: subset of the activities it tracks
  txPending,    \* jacdac-c: a frame waits to be sent
  tpc, f,       \* tim_handler: control point and its local callback f
  isr, mask,    \* isr_dma_0: what it is doing and the channels left to visit
  bus,          \* what the other devices do with the line
  fault         \* first failed assertion, "none" when none has failed

uartVars == <<uart_status, exti, pin, brk>>
jdVars   == <<jd_status, txPending>>
vars == <<jacdac_pin, uart_status, exti, pin, sm, brk, dma, timer, irq,
          jd_status, txPending, tpc, f, isr, mask, bus, fault>>

Callbacks == {"tick", "flush_tx_queue", "setup_rx_timeout", "rx_timeout"}
Handlers  == {"rx_handler", "tx_handler", "client"}
Others    == Channel \ {dmachRx, dmachTx}     \* the SPI and log drivers' channels
TimPoints == {"idle", "check", "clear", "call",
              "flush", "txcheck", "txown", "probe", "collide", "collided", "arm",
              "setcb", "start", "started", "txfail", "retry",
              "setup", "rxto", "rxtodone", "rxtoend"}

ExtiType  == [en: BOOLEAN, edge: BOOLEAN]
PinType   == [pio: BOOLEAN, oe: BOOLEAN, dir: BOOLEAN]
SmType    == [tx: BOOLEAN, rx: BOOLEAN, fifo: BOOLEAN, stall: BOOLEAN]
BrkType   == [flag: BOOLEAN, src: BOOLEAN, pend: BOOLEAN]
DmaType   == [Channel -> Slot(Handlers)]
IrqType   == [disabled: Nat, primask: BOOLEAN]
TimerType == [cb: Callbacks \cup {NULL}, armed: BOOLEAN, pend: BOOLEAN]
Faults    == {"dma_slot", "tx_status", "line_falling", "no_pin", "phantom_rx"}

DriverTypeOK ==
  /\ uart_status \in {"IDLE", "TX", "RX"} /\ exti \in ExtiType /\ pin \in PinType
  /\ sm \in SmType /\ brk \in BrkType /\ dma \in DmaType /\ irq \in IrqType

LayerTypeOK ==
  /\ jd_status \subseteq {"RX_ACTIVE", "TX_ACTIVE", "TX_QUEUED"} /\ timer \in TimerType

ControlTypeOK ==
  /\ jacdac_pin \in {"PIN", "NO_PIN"} /\ txPending \in BOOLEAN
  /\ tpc \in TimPoints /\ f \in Callbacks \cup {NULL}
  /\ isr \in {"none", "dma", "txwait"} /\ mask \subseteq Channel
  /\ bus \in {"idle", "low", "frame"} /\ fault \in Faults \cup {"none"}

TypeOK == DriverTypeOK /\ LayerTypeOK /\ ControlTypeOK

\* State after platform_init: uart_init_ ends in uart_disable when a pin is
\* configured.  The transmitter is stalled on its empty queue once enabled.
Init ==
  /\ jacdac_pin \in {"PIN", "NO_PIN"}
  /\ uart_status = "IDLE"
  /\ exti = [en |-> jacdac_pin = "PIN", edge |-> FALSE]
  /\ pin = [pio |-> FALSE, oe |-> FALSE, dir |-> FALSE]
  /\ sm = [tx |-> FALSE, rx |-> FALSE, fifo |-> FALSE, stall |-> FALSE]
  /\ brk = [flag |-> FALSE, src |-> FALSE, pend |-> FALSE]
  /\ dma = DmaReset
  /\ timer = [cb |-> NULL, armed |-> FALSE, pend |-> FALSE]
  /\ irq = [disabled |-> 0, primask |-> FALSE]
  /\ jd_status = {} /\ txPending = FALSE
  /\ tpc = "idle" /\ f = NULL
  /\ isr = "none" /\ mask = {}
  /\ bus = "idle"
  /\ fault = "none"

-----------------------------------------------------------------------------
(* platform.c, tim.c and pins.c as the handlers below use them. *)

target_disable_irq(i) == [disabled |-> i.disabled + 1, primask |-> TRUE]

\* Variant: no nesting.
EnableUnnested(i) == [disabled |-> 0, primask |-> FALSE]

target_enable_irq(i) ==
  IF i.disabled <= 1 THEN [disabled |-> 0, primask |-> FALSE]
                     ELSE [i EXCEPT !.disabled = i.disabled - 1]

\* The critical section inside uart_disable and tim_set_timer.
Nested(i) == target_enable_irq(target_disable_irq(i))

tim_set_timer(cb) == [cb |-> cb, armed |-> TRUE, pend |-> FALSE]

\* gpio_set_irq_enabled acknowledges a latched edge before it sets the enable.
exti_set(on) == [en |-> on, edge |-> FALSE]

\* A flag whose source is enabled pends the interrupt in the NVIC, where it
\* stays pending after the source is disabled.
Latch(b) == [b EXCEPT !.pend = @ \/ (b.flag /\ b.src)]

PioIrq  == brk.pend
DmaIrq  == ints0(dma) # {}
ExtiIrq == exti.en /\ exti.edge

\* Variant: the edge interrupt is served before the DMA interrupt.
ServeExtiBeforeDma == ExtiIrq /\ ~PioIrq

\* Equal priorities: the NVIC serves PIO0_IRQ_0, DMA_IRQ_0, IO_IRQ_BANK0 in
\* the order of their numbers.
ServePio  == PioIrq
ServeDma  == DmaIrq /\ ~PioIrq
ServeExti == ExtiIrq /\ ~PioIrq /\ ~DmaIrq

IsrMayStart == fault = "none" /\ isr = "none" /\ ~irq.primask
TimMayRun   == /\ fault = "none" /\ isr = "none"
               /\ irq.primask \/ ~(PioIrq \/ DmaIrq \/ ExtiIrq)
MainMayRun  == TimMayRun /\ tpc = "idle" /\ ~timer.pend

\* The core drives the line.
Driving == IF pin.pio THEN pin.dir ELSE pin.oe

-----------------------------------------------------------------------------
(* uart.c: what the driver does to the hardware.  d and b are the DMA and  *)
(* break interrupt states at the time of the call.                         *)

\* Variant: the edge interrupt stays off.
DisableWithoutExti(d, b) ==
  /\ uart_status' = "IDLE" /\ dma' = AbortChannels(d, {dmachRx, dmachTx})
  /\ pin' = [pin EXCEPT !.pio = FALSE, !.oe = FALSE]
  /\ sm' = [sm EXCEPT !.tx = FALSE, !.rx = FALSE]
  /\ brk' = [b EXCEPT !.src = FALSE] /\ exti' = exti_set(FALSE) /\ irq' = Nested(irq)

uart_disable(d, b) ==
  IF jacdac_pin = "NO_PIN"
  THEN dma' = d /\ brk' = b /\ UNCHANGED <<uart_status, exti, pin, sm, irq>>
  ELSE /\ uart_status' = "IDLE"
       /\ dma' = AbortChannels(d, {dmachRx, dmachTx})
       /\ pin' = [pin EXCEPT !.pio = FALSE, !.oe = FALSE]
       /\ sm' = [sm EXCEPT !.tx = FALSE, !.rx = FALSE]
       /\ brk' = [b EXCEPT !.src = FALSE]
       /\ exti' = exti_set(TRUE)
       /\ irq' = Nested(irq)

\* Variant: the PIO direction left by the last transmission.
RxArmKeepsDirection ==
  /\ pin' = [pin EXCEPT !.pio = TRUE]
  /\ exti' = exti_set(FALSE)

jd_rx_arm_pin ==
  /\ pin' = [pin EXCEPT !.dir = FALSE, !.pio = TRUE]
  /\ exti' = exti_set(FALSE)

\* Variant: uart_status |= STATUS_RX.
StartRxOrStatus(d) ==
  /\ uart_status' = IF uart_status = "TX" THEN "TX|RX" ELSE "RX"
  /\ jd_rx_arm_pin
  /\ sm' = [sm EXCEPT !.rx = TRUE]
  /\ brk' = Latch([brk EXCEPT !.flag = FALSE, !.src = TRUE])
  /\ dma' = StartChannel(dma_set_ch_cb(d, dmachRx, "rx_handler"), dmachRx)

uart_start_rx(d) ==
  /\ uart_status' = "RX"
  /\ jd_rx_arm_pin
  /\ sm' = [sm EXCEPT !.rx = TRUE]
  /\ brk' = Latch([brk EXCEPT !.flag = FALSE, !.src = TRUE])
  /\ dma' = StartChannel(dma_set_ch_cb(d, dmachRx, "rx_handler"), dmachRx)

\* uart_wait_high: -1 only if the line stays low for the whole wait.
uart_wait_high == IF bus = "low" THEN {0, -1} ELSE {0}

-----------------------------------------------------------------------------
(* jacdac-c's physical layer (external), as the driver calls it. *)

set_tick_timer(clear) ==
  LET st     == jd_status \ clear
      hold   == "RX_ACTIVE" \in st            \* the receiver owns the timer
      queued == txPending /\ "TX_ACTIVE" \notin st
  IN  /\ jd_status' = IF hold THEN st
                     ELSE IF queued THEN st \cup {"TX_QUEUED"} ELSE st \ {"TX_QUEUED"}
      /\ timer' = IF hold THEN timer
                 ELSE tim_set_timer(IF queued THEN "flush_tx_queue" ELSE "tick")

jd_tx_completed == set_tick_timer({"TX_ACTIVE"})
jd_rx_completed == set_tick_timer({"RX_ACTIVE"})

\* jd_line_falling: panic if a reception is active, else mark one and wait
\* for the end of the start pulse, then receive; if the line stays low it
\* gives up as rx_timeout does.
jd_line_falling(d) ==
  \/ /\ 0 \in uart_wait_high
     /\ bus' = IF bus = "low" THEN "frame" ELSE bus
     /\ uart_start_rx(d)
     /\ jd_status' = jd_status \cup {"RX_ACTIVE"}
     /\ timer' = tim_set_timer("setup_rx_timeout")
     /\ irq' = Nested(irq)
     /\ fault' = IF "RX_ACTIVE" \in jd_status THEN "line_falling"
                ELSE IF jacdac_pin = "NO_PIN" THEN "no_pin"
                ELSE IF SlotFree(d, dmachRx) THEN fault ELSE "dma_slot"
  \/ /\ -1 \in uart_wait_high
     /\ uart_disable(d, brk)
     /\ jd_rx_completed
     /\ fault' = IF "RX_ACTIVE" \in jd_status THEN "line_falling" ELSE fault
     /\ UNCHANGED bus

-----------------------------------------------------------------------------
(* Handlers of priority 0. *)

\* Variant: the driver is left receiving.
RxDoneNoDisable(d, b) ==
  /\ IF uart_status = "RX" THEN jd_rx_completed ELSE UNCHANGED <<jd_status, timer>>
  /\ dma' = d /\ brk' = b
  /\ UNCHANGED <<uart_status, exti, pin, sm, irq, fault>>

\* rx_done: only a reception in progress is completed.
rx_done(d, b) ==
  \/ /\ uart_status = "RX"
     /\ uart_disable(d, b)
     /\ jd_rx_completed
     /\ fault' = IF "RX_ACTIVE" \in jd_status THEN fault ELSE "phantom_rx"
  \/ /\ uart_status # "RX"
     /\ dma' = d /\ brk' = b
     /\ UNCHANGED <<uart_status, exti, pin, sm, irq, jd_status, timer, fault>>

\* isr_pio0_0 clears the flags it read; the break flag ends the reception.
isr_pio0_0 ==
  /\ IsrMayStart /\ ServePio
  /\ LET b == [brk EXCEPT !.flag = FALSE, !.pend = FALSE]
     IN  IF brk.flag THEN rx_done(dma, b)
         ELSE /\ brk' = b
              /\ UNCHANGED <<uart_status, exti, pin, sm, dma, irq, jd_status, timer, fault>>
  /\ UNCHANGED <<jacdac_pin, txPending, tpc, f, isr, mask, bus>>

\* isr_io_bank0 acknowledges the edge and calls jd_line_falling.
isr_io_bank0 ==
  /\ IsrMayStart /\ ServeExti
  /\ jd_line_falling(dma)
  /\ UNCHANGED <<jacdac_pin, txPending, tpc, f, isr, mask>>

\* isr_dma_0 reads and clears ints0, ...
IsrDmaEnter ==
  /\ IsrMayStart /\ ServeDma
  /\ isr' = "dma" /\ mask' = ints0(dma)
  /\ dma' = WriteInts0(dma, ints0(dma))
  /\ UNCHANGED <<jacdac_pin, uartVars, sm, timer, irq, jdVars, tpc, f, bus, fault>>

\* ... then visits the channels it read in ascending order, retires the
\* handler of each and calls it (a channel with no handler would be skipped;
\* none is ever in mask, or the model would deadlock there),
Dispatch(c, h) ==
  /\ fault = "none" /\ isr = "dma"
  /\ IsFirst(c, mask) /\ dma[c].handler = h
  /\ mask' = mask \ {c}

IsrDmaRx ==
  /\ \E c \in mask : Dispatch(c, "rx_handler") /\ rx_done(Retire(dma, c), brk)
  /\ UNCHANGED <<jacdac_pin, txPending, tpc, f, isr, bus>>

IsrDmaClient ==
  /\ \E c \in mask : Dispatch(c, "client") /\ dma' = Retire(dma, c)
  /\ UNCHANGED <<jacdac_pin, uartVars, sm, timer, irq, jdVars, tpc, f, isr, bus, fault>>

\* Variant: a stale stall flag is not cleared.
IsrDmaTxStaleStall ==
  /\ \E c \in mask : Dispatch(c, "tx_handler") /\ dma' = Retire(dma, c)
  /\ isr' = "txwait"
  /\ UNCHANGED <<jacdac_pin, uartVars, sm, timer, irq, jdVars, tpc, f, bus, fault>>

\* where tx_handler first clears the stall flag and waits for it, ...
IsrDmaTx ==
  /\ \E c \in mask : Dispatch(c, "tx_handler") /\ dma' = Retire(dma, c)
  /\ isr' = "txwait"
  /\ sm' = [sm EXCEPT !.stall = FALSE]
  /\ UNCHANGED <<jacdac_pin, uartVars, timer, irq, jdVars, tpc, f, bus, fault>>

\* then sends the final break and completes.
tx_handler_stalled ==
  /\ fault = "none" /\ isr = "txwait" /\ sm.stall
  /\ isr' = "dma"
  /\ uart_disable(dma, brk)
  /\ jd_tx_completed
  /\ UNCHANGED <<jacdac_pin, txPending, tpc, f, mask, bus, fault>>

\* Variant: the flags are cleared at the end of the handler.
IsrDmaExitLateClear ==
  /\ fault = "none" /\ isr = "dma" /\ mask = {}
  /\ isr' = "none"
  /\ dma' = WriteInts0(dma, Channel)
  /\ UNCHANGED <<jacdac_pin, uartVars, sm, timer, irq, jdVars, tpc, f, mask, bus, fault>>

IsrDmaExit ==
  /\ fault = "none" /\ isr = "dma" /\ mask = {}
  /\ isr' = "none"
  /\ UNCHANGED <<jacdac_pin, uartVars, sm, dma, timer, irq, jdVars, tpc, f, mask, bus, fault>>

Isr0 == isr_pio0_0 \/ isr_io_bank0 \/ IsrDmaEnter \/ IsrDmaRx \/ IsrDmaClient
        \/ IsrDmaTx \/ tx_handler_stalled \/ IsrDmaExit

-----------------------------------------------------------------------------
(* tim_handler.  At(p, q) is one step of it, from control point p to q;    *)
(* between two steps the handlers above may run unless interrupts are off. *)

At(p, q) == TimMayRun /\ tpc = p /\ tpc' = q

\* Entry: acknowledge the interrupt, read timer_cb into f.
TimEnter ==
  /\ At("idle", IF timer.cb = NULL THEN "idle" ELSE "check")
  /\ timer.pend
  /\ timer' = [timer EXCEPT !.pend = FALSE]
  /\ f' = timer.cb
  /\ UNCHANGED <<jacdac_pin, uartVars, sm, dma, irq, jdVars, isr, mask, bus, fault>>

\* The alarm is in the future when a handler of priority 0 has set it again
\* since: leave it armed and return.
TimCheck ==
  /\ At("check", IF timer.armed THEN "idle" ELSE "clear")
  /\ irq' = Nested(irq)
  /\ UNCHANGED <<jacdac_pin, uartVars, sm, dma, timer, jdVars, f, isr, mask, bus, fault>>

\* timer_cb = NULL
TimClear ==
  /\ At("clear", "call")
  /\ timer' = [timer EXCEPT !.cb = NULL]
  /\ UNCHANGED <<jacdac_pin, uartVars, sm, dma, irq, jdVars, f, isr, mask, bus, fault>>

\* f(): tick
tick ==
  /\ At("call", "idle") /\ f = "tick"
  /\ set_tick_timer({})
  /\ UNCHANGED <<jacdac_pin, uartVars, sm, dma, irq, txPending, f, isr, mask, bus, fault>>

\* f(): flush_tx_queue up to its call of uart_start_tx
flush_tx_queue ==
  LET busy == {"RX_ACTIVE", "TX_ACTIVE"} \cap jd_status # {}
  IN  /\ At("call", IF busy THEN "idle" ELSE "flush") /\ f = "flush_tx_queue"
      /\ jd_status' = IF busy THEN jd_status ELSE jd_status \cup {"TX_ACTIVE"}
      /\ txPending' = (busy /\ txPending)
      /\ UNCHANGED <<jacdac_pin, uartVars, sm, dma, timer, irq, f, isr, mask, bus, fault>>

\* f(): setup_rx_timeout reads its status, then sets the timer
setup_rx_timeout ==
  /\ At("call", IF "RX_ACTIVE" \in jd_status THEN "setup" ELSE "idle")
  /\ f = "setup_rx_timeout"
  /\ UNCHANGED <<jacdac_pin, uartVars, sm, dma, timer, irq, jdVars, f, isr, mask, bus, fault>>

setup_rx_timeout_set ==
  /\ At("setup", "idle")
  /\ timer' = tim_set_timer("rx_timeout")
  /\ UNCHANGED <<jacdac_pin, uartVars, sm, dma, irq, jdVars, f, isr, mask, bus, fault>>

\* f(): rx_timeout, with interrupts off around uart_disable and jd_rx_completed
rx_timeout ==
  /\ At("call", "rxto") /\ f = "rx_timeout"
  /\ irq' = target_disable_irq(irq)
  /\ UNCHANGED <<jacdac_pin, uartVars, sm, dma, timer, jdVars, f, isr, mask, bus, fault>>

rx_timeout_disable ==
  /\ At("rxto", "rxtodone")
  /\ uart_disable(dma, brk)
  /\ UNCHANGED <<jacdac_pin, timer, jdVars, f, isr, mask, bus, fault>>

rx_timeout_completed ==
  /\ At("rxtodone", "rxtoend")
  /\ jd_rx_completed
  /\ irq' = Nested(irq)
  /\ UNCHANGED <<jacdac_pin, uartVars, sm, dma, txPending, f, isr, mask, bus, fault>>

rx_timeout_enable ==
  /\ At("rxtoend", "idle")
  /\ irq' = target_enable_irq(irq)
  /\ UNCHANGED <<jacdac_pin, uartVars, sm, dma, timer, jdVars, f, isr, mask, bus, fault>>

-----------------------------------------------------------------------------
(* uart_start_tx, called by flush_tx_queue. *)

\* Variant: without a pin, return without completing the frame.
StartTxNoPinSilent ==
  /\ At("flush", "idle") /\ jacdac_pin = "NO_PIN"
  /\ UNCHANGED <<jacdac_pin, uartVars, sm, dma, timer, irq, jdVars, f, isr, mask, bus, fault>>

\* With no pin configured the frame counts as sent.
StartTxNoPin ==
  /\ At("flush", "idle") /\ jacdac_pin = "NO_PIN"
  /\ jd_tx_completed
  /\ UNCHANGED <<jacdac_pin, uartVars, sm, dma, irq, txPending, f, isr, mask, bus, fault>>

\* Variant: EXTI stays enabled.
StartTxKeepExti ==
  /\ At("flush", "txcheck") /\ jacdac_pin = "PIN"
  /\ UNCHANGED <<jacdac_pin, uartVars, sm, dma, timer, irq, jdVars, f, isr, mask, bus, fault>>

StartTxDisableExti ==
  /\ At("flush", "txcheck") /\ jacdac_pin = "PIN"
  /\ exti' = exti_set(FALSE)
  /\ UNCHANGED <<jacdac_pin, uart_status, pin, brk, sm, dma, timer, irq, jdVars, f, isr, mask, bus, fault>>

\* Variant: no test of STATUS_RX.
StartTxUnchecked ==
  /\ At("txcheck", "txown")
  /\ UNCHANGED <<jacdac_pin, uartVars, sm, dma, timer, irq, jdVars, f, isr, mask, bus, fault>>

\* A reception got in before EXTI was disabled: return -1.
StartTxCheck ==
  /\ At("txcheck", IF uart_status = "RX" THEN "txfail" ELSE "txown")
  /\ UNCHANGED <<jacdac_pin, uartVars, sm, dma, timer, irq, jdVars, f, isr, mask, bus, fault>>

StartTxOwn ==
  /\ At("txown", "probe")
  /\ fault' = IF uart_status = "IDLE" THEN fault ELSE "tx_status"
  /\ uart_status' = "TX"
  /\ UNCHANGED <<jacdac_pin, exti, pin, brk, sm, dma, timer, irq, jdVars, f, isr, mask, bus>>

\* gpio_probe_and_set: the line is found high and pulled low by the same
\* statement, which is a falling edge like any other, ...
StartTxProbeHigh ==
  /\ At("probe", "arm") /\ bus # "low"
  /\ pin' = [pin EXCEPT !.oe = TRUE]
  /\ exti' = [exti EXCEPT !.edge = TRUE]
  /\ UNCHANGED <<jacdac_pin, uart_status, brk, sm, dma, timer, irq, jdVars, f, isr, mask, bus, fault>>

\* ... or found low: another device was first.
StartTxProbeLow ==
  /\ At("probe", "collide") /\ bus # "idle"
  /\ irq' = target_disable_irq(irq)
  /\ UNCHANGED <<jacdac_pin, uartVars, sm, dma, timer, jdVars, f, isr, mask, bus, fault>>

StartTxCollide ==
  /\ At("collide", "collided")
  /\ jd_line_falling(dma)
  /\ UNCHANGED <<jacdac_pin, txPending, f, isr, mask>>

StartTxCollided ==
  /\ At("collided", "txfail")
  /\ irq' = target_enable_irq(irq)
  /\ UNCHANGED <<jacdac_pin, uartVars, sm, dma, timer, jdVars, f, isr, mask, bus, fault>>

\* The end of the start pulse: jd_tx_arm_pin and the state machine.
StartTxArm ==
  /\ At("arm", "setcb")
  /\ pin' = [pin EXCEPT !.dir = TRUE, !.pio = TRUE]
  /\ sm' = [sm EXCEPT !.tx = TRUE]
  /\ UNCHANGED <<jacdac_pin, uart_status, exti, brk, dma, timer, irq, jdVars, f, isr, mask, bus, fault>>

StartTxSetCb ==
  /\ At("setcb", "start")
  /\ fault' = IF SlotFree(dma, dmachTx) THEN fault ELSE "dma_slot"
  /\ dma' = dma_set_ch_cb(dma, dmachTx, "tx_handler")
  /\ UNCHANGED <<jacdac_pin, uartVars, sm, timer, irq, jdVars, f, isr, mask, bus>>

StartTxDma ==
  /\ At("start", "started")
  /\ dma' = StartChannel(dma, dmachTx)
  /\ UNCHANGED <<jacdac_pin, uartVars, sm, timer, irq, jdVars, f, isr, mask, bus, fault>>

\* Clear the stall flag, return 0; flush_tx_queue sets its timer.
StartTxDone ==
  /\ At("started", "idle")
  /\ sm' = [sm EXCEPT !.stall = FALSE]
  /\ set_tick_timer({})
  /\ UNCHANGED <<jacdac_pin, uartVars, dma, irq, txPending, f, isr, mask, bus, fault>>

\* Returned -1: flush_tx_queue ends its transmission and keeps the frame.
FlushFailed ==
  /\ At("txfail", "retry")
  /\ set_tick_timer({"TX_ACTIVE"})
  /\ UNCHANGED <<jacdac_pin, uartVars, sm, dma, irq, txPending, f, isr, mask, bus, fault>>

FlushRetry ==
  /\ At("retry", "idle")
  /\ txPending' = TRUE
  /\ UNCHANGED <<jacdac_pin, uartVars, sm, dma, timer, irq, jd_status, f, isr, mask, bus, fault>>

uart_start_tx ==
  StartTxNoPin \/ StartTxDisableExti \/ StartTxCheck \/ StartTxOwn \/ StartTxProbeHigh
  \/ StartTxProbeLow \/ StartTxCollide \/ StartTxCollided \/ StartTxArm \/ StartTxSetCb
  \/ StartTxDma \/ StartTxDone

tim_handler ==
  TimEnter \/ TimCheck \/ TimClear \/ tick \/ flush_tx_queue \/ uart_start_tx
  \/ FlushFailed \/ FlushRetry \/ setup_rx_timeout \/ setup_rx_timeout_set
  \/ rx_timeout \/ rx_timeout_disable \/ rx_timeout_completed \/ rx_timeout_enable

-----------------------------------------------------------------------------
(* The main loop: a frame is queued, or another driver starts a transfer.  *)

jd_packet_ready ==
  /\ MainMayRun
  /\ txPending' = TRUE
  /\ jd_status' = IF jd_status = {} THEN {"TX_QUEUED"} ELSE jd_status
  /\ timer' = IF jd_status = {} THEN tim_set_timer("flush_tx_queue") ELSE timer
  /\ UNCHANGED <<jacdac_pin, uartVars, sm, dma, irq, tpc, f, isr, mask, bus, fault>>

\* jd_spi_xfer and uart_log_write start a transfer when none of theirs runs.
ClientStart(c) ==
  /\ MainMayRun
  /\ ~dma[c].busy /\ SlotFree(dma, c)
  /\ dma' = StartChannel(dma_set_ch_cb(dma, c, "client"), c)
  /\ UNCHANGED <<jacdac_pin, uartVars, sm, timer, irq, jdVars, tpc, f, isr, mask, bus, fault>>

-----------------------------------------------------------------------------
(* The hardware and the other devices on the line (external). *)

\* Timing assumption: a reception does not end between exti_disable and the
\* test of STATUS_RX in uart_start_tx.  flush_tx_queue calls it only when no
\* reception is active, so one that is running there began a few
\* instructions ago, and a frame takes over 100us.
RxEndPossible == ~sm.rx \/ tpc # "txcheck"

\* A low pulse is an edge; an enabled receiver reads it as a break.
LowPulse ==
  /\ exti' = [exti EXCEPT !.edge = TRUE]
  /\ brk' = IF sm.rx THEN Latch([brk EXCEPT !.flag = TRUE]) ELSE brk

BusStart ==
  /\ jacdac_pin = "PIN" /\ bus = "idle" /\ ~Driving /\ RxEndPossible
  /\ bus' = "low"
  /\ LowPulse
  /\ UNCHANGED <<jacdac_pin, uart_status, pin, sm, dma, timer, irq, jdVars, tpc, f, isr, mask, fault>>

BusRelease ==
  /\ bus = "low"
  /\ bus' = "frame"
  /\ UNCHANGED <<jacdac_pin, uartVars, sm, dma, timer, irq, jdVars, tpc, f, isr, mask, fault>>

BusData ==
  /\ bus = "frame" /\ ~exti.edge
  /\ exti' = [exti EXCEPT !.edge = TRUE]
  /\ UNCHANGED <<jacdac_pin, uart_status, pin, brk, sm, dma, timer, irq, jdVars, tpc, f, isr, mask, bus, fault>>

BusBreak ==
  /\ bus = "frame" /\ RxEndPossible
  /\ bus' = "idle"
  /\ LowPulse
  /\ UNCHANGED <<jacdac_pin, uart_status, pin, sm, dma, timer, irq, jdVars, tpc, f, isr, mask, fault>>

\* A device falls silent in the middle of a frame.
BusDies ==
  /\ bus # "idle"
  /\ bus' = "idle"
  /\ UNCHANGED <<jacdac_pin, uartVars, sm, dma, timer, irq, jdVars, tpc, f, isr, mask, fault>>

RxBufferFull ==
  /\ bus = "frame" /\ sm.rx /\ dma[dmachRx].busy /\ RxEndPossible
  /\ dma' = FinishChannel(dma, dmachRx)
  /\ UNCHANGED <<jacdac_pin, uartVars, sm, timer, irq, jdVars, tpc, f, isr, mask, bus, fault>>

\* The last byte is in the transmit queue, is sent, and the machine stalls.
TxDmaDone ==
  /\ dma[dmachTx].busy /\ sm.tx
  /\ dma' = FinishChannel(dma, dmachTx)
  /\ sm' = [sm EXCEPT !.fifo = TRUE]
  /\ UNCHANGED <<jacdac_pin, uartVars, timer, irq, jdVars, tpc, f, isr, mask, bus, fault>>

TxDrain ==
  /\ sm.tx /\ sm.fifo
  /\ sm' = [sm EXCEPT !.fifo = FALSE]
  /\ UNCHANGED <<jacdac_pin, uartVars, dma, timer, irq, jdVars, tpc, f, isr, mask, bus, fault>>

TxStall ==
  /\ sm.tx /\ ~sm.fifo /\ ~sm.stall
  /\ sm' = [sm EXCEPT !.stall = TRUE]
  /\ UNCHANGED <<jacdac_pin, uartVars, dma, timer, irq, jdVars, tpc, f, isr, mask, bus, fault>>

ClientDone(c) ==
  /\ dma[c].busy
  /\ dma' = FinishChannel(dma, c)
  /\ UNCHANGED <<jacdac_pin, uartVars, sm, timer, irq, jdVars, tpc, f, isr, mask, bus, fault>>

\* Timing assumption: an alarm set while tim_handler is at its check does not
\* fire there; tim_set_timer sets it at least 10us ahead.
AlarmFires ==
  /\ timer.armed /\ tpc # "check"
  /\ timer' = [timer EXCEPT !.armed = FALSE, !.pend = TRUE]
  /\ UNCHANGED <<jacdac_pin, uartVars, sm, dma, irq, jdVars, tpc, f, isr, mask, bus, fault>>

Devices == BusStart \/ BusRelease \/ BusData \/ BusBreak \/ BusDies
Chip    == RxBufferFull \/ TxDmaDone \/ TxDrain \/ TxStall \/ AlarmFires
           \/ \E c \in Others : ClientDone(c)

Next == Isr0 \/ tim_handler \/ jd_packet_ready \/ (\E c \in Others : ClientStart(c))
        \/ Devices \/ Chip

Spec == Init /\ [][Next]_vars

\* The core serves what is pending, and tim_handler gets to run between the
\* handlers of priority 0 that preempt it: the line is slower than the core.
\* Transfers, the transmit queue and the alarm make progress by themselves.
Fairness ==
  /\ WF_vars(Isr0) /\ SF_vars(tim_handler)
  /\ WF_vars(TxDmaDone) /\ WF_vars(TxDrain) /\ WF_vars(TxStall) /\ WF_vars(AlarmFires)
  /\ \A c \in Others : WF_vars(ClientDone(c))

\* Some other device keeps using the line.
LiveBus == WF_vars(BusStart) /\ WF_vars(BusRelease) /\ WF_vars(BusBreak \/ BusDies)

FairSpec == Spec /\ Fairness

-----------------------------------------------------------------------------
(* Properties. *)

\* dma_set_ch_cb never finds a handler in the slot it is about to fill
\* (JD_ASSERT at dma.c:63), although a reception that ends by a break or a
\* timeout leaves rx_handler there until the interrupt of the aborted channel.
DmaSlotFree == fault # "dma_slot"

\* The driver never starts a reception or a transmission on top of another
\* one, and never completes a reception nobody started: the assertions at
\* uart.c:310 and uart.c:338, the panic of jd_line_falling, and the call of
\* jd_rx_completed in rx_done.
ActivitiesExclusive == fault \in {"none", "dma_slot"}

\* The pin is driven only by a transmission, through SIO or through PIO: a
\* receiver never holds the line it listens to (uart.c:175-189, 271-286).
BusDrivenOnlyInTx == Driving => uart_status = "TX"

\* The edge interrupt is enabled exactly when the driver is idle, up to the
\* moment uart_start_tx takes the line: neither deaf when idle nor disturbed
\* by the edges of a frame (uart.c:186, 284, 302).
ExtiMatchesStatus ==
  jacdac_pin = "PIN" => (exti.en <=> uart_status = "IDLE" /\ tpc \notin {"txcheck", "txown"})

\* The driver and the physical layer above it agree on what is going on,
\* except inside rx_timeout between its two calls.
LayersAgree ==
  /\ tpc # "rxtodone" => (uart_status = "RX" <=> "RX_ACTIVE" \in jd_status)
  /\ uart_status = "TX" => "TX_ACTIVE" \in jd_status

\* Points of tim_handler with interrupts off; with uart_start_tx setting up a
\* transmission; and with flush_tx_queue between its mark and the outcome.
IrqOff  == {"collide", "collided", "rxto", "rxtodone", "rxtoend"}
TxSetup == {"probe", "collide", "arm", "setcb", "start"}
Sending == TxSetup \cup {"flush", "txcheck", "txown", "collided", "txfail"}

\* Channel c will call its handler: it runs, or its interrupt is pending or
\* being served, and enabled.
WillComplete(c) ==
  dma[c].handler # NULL /\ dma[c].inte /\ (dma[c].busy \/ dma[c].intr \/ c \in mask)

\* No completion is lost (isr_dma_0, dma_set_ch_cb, uart_disable): a reception
\* in progress and a transmission that was handed over are still going to
\* reach rx_handler and tx_handler.
CompletionPending ==
  /\ uart_status = "RX" => WillComplete(dmachRx)
  /\ "TX_ACTIVE" \in jd_status /\ tpc \notin Sending =>
       isr = "txwait" \/ WillComplete(dmachTx)

\* Interrupts are off exactly inside the two critical sections, however the
\* nested sections of uart_disable and tim_set_timer end (platform.c:157-170).
IrqBalanced ==
  /\ irq.disabled = IF tpc \in IrqOff THEN 1 ELSE 0
  /\ irq.primask <=> tpc \in IrqOff

\* Driver, edge interrupt, physical layer and interrupt nesting are consistent
\* with each other wherever tim_handler is preempted (uart.c:107-140, 271-348).
Consistent == LayersAgree /\ ExtiMatchesStatus /\ IrqBalanced

\* A transmission is never cut short: when the transmitter is switched off
\* its channel is done and its queue has been sent (tx_handler's wait).
NoTruncation == [][sm.tx /\ ~sm'.tx => ~sm.fifo /\ ~dma[dmachTx].busy]_vars

\* The driver with the layer above it is a half-duplex line, however handlers,
\* timeouts and collisions interleave: every activity that is opened takes
\* the line, if at all, alone, and is closed once (uart.c:107-140, 271-348).
H == INSTANCE HalfDuplex WITH line <- uart_status,
       open <- {a \in {"RX", "TX"} : (a = "RX" /\ "RX_ACTIVE" \in jd_status)
                                   \/ (a = "TX" /\ "TX_ACTIVE" \in jd_status)}
IsHalfDuplex == H!Spec

\* Every transmission comes to an end, whatever the other devices do and
\* also when no pin is configured (uart.c:297-300, tx_handler).
TxCompletes == "TX_ACTIVE" \in jd_status ~> "TX_ACTIVE" \notin jd_status

\* The driver listens again: "we don't re-enable EXTI - the RX complete will
\* do it" (uart.c:307).
ExtiReenabled == jacdac_pin = "PIN" /\ ~exti.en ~> exti.en

\* It does so as long as some other device keeps using the line: a reception
\* whose timeout tim_handler dropped is ended by the next break (uart.c:142-149).
HeardAgain == LiveBus => ExtiReenabled
=============================================================================

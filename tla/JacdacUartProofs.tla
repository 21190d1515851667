-------------------------- MODULE JacdacUartProofs --------------------------
(***************************************************************************)
(* Proofs about JacdacUart for any set of DMA channels.  IInv is the       *)
(* inductive invariant; the safety invariants of JacdacUart follow from it.*)
(***************************************************************************)
EXTENDS JacdacUart, TLAPS

-----------------------------------------------------------------------------
(* The inductive invariant. *)

\* A transmission has been handed over and tx_handler has not finished.
TxOwned == isr = "txwait" \/ dma[dmachTx].handler # NULL

IrqInv ==
  /\ IrqBalanced
  /\ isr # "none" => tpc \notin IrqOff
  /\ isr = "none" => mask = {}

\* The handler each channel may have.
Owner(c) == IF c = dmachRx THEN "rx_handler"
            ELSE IF c = dmachTx THEN "tx_handler" ELSE "client"

\* A registered handler is going to be called, unless uart_start_tx is about
\* to start its channel.
DmaInv == \A c \in Channel :
  /\ dma[c].handler \in {NULL, Owner(c)}
  /\ dma[c].inte <=> dma[c].handler # NULL
  /\ dma[c].busy \/ c \in mask => dma[c].handler # NULL
  /\ dma[c].intr /\ dma[c].inte => ~dma[c].busy
  /\ c \in mask => ~dma[c].busy
  /\ dma[c].handler # NULL =>
       dma[c].busy \/ dma[c].intr \/ c \in mask \/ (c = dmachTx /\ tpc = "start")
  /\ c = dmachTx /\ tpc = "start" => ~dma[c].intr /\ ~dma[c].busy /\ c \notin mask

NoPinInv == jacdac_pin = "NO_PIN" =>
  /\ ~exti.en /\ uart_status = "IDLE"
  /\ tpc \notin (Sending \cup {"started"}) \ {"flush"}

RxInv ==
  /\ dma[dmachRx].busy => uart_status = "RX"
  /\ uart_status = "RX" => dma[dmachRx].handler # NULL
  /\ tpc = "collide" => dma[dmachRx].handler = NULL
  /\ tpc # "rxtodone" => (uart_status = "RX" <=> "RX_ACTIVE" \in jd_status)

\* A reception that uart_start_tx finds at its test is not about to end.
NewRxInv ==
  /\ uart_status = "RX" => sm.rx
  /\ tpc = "txcheck" /\ uart_status = "RX" =>
       ~brk.pend /\ ~dma[dmachRx].intr /\ dmachRx \notin mask

TxInv ==
  /\ TxOwned => uart_status = "TX" /\ tpc \notin Sending \ {"start"}
  /\ uart_status = "TX" => TxOwned \/ tpc \in TxSetup
  /\ "TX_ACTIVE" \in jd_status <=> tpc \in Sending \/ uart_status = "TX"
  /\ tpc \in TxSetup => uart_status = "TX"
  /\ tpc = "txown" => uart_status = "IDLE"
  /\ uart_status = "TX" => tpc \notin Sending \ TxSetup
  /\ isr = "txwait" => dma[dmachTx].handler = NULL
  /\ tpc = "start" => dma[dmachTx].handler # NULL

\* rx_timeout is never called on top of a transmission, even when it is late.
TimInv ==
  /\ timer.cb = "rx_timeout" => tpc \in {"idle", "check", "clear"}
  /\ \/ timer.cb = "rx_timeout"
     \/ f = "rx_timeout" /\ tpc \in {"check", "clear", "call"}
     \/ tpc \in {"setup", "rxto", "rxtodone", "rxtoend"}
     => uart_status # "TX"
  /\ tpc \in {"rxtodone", "rxtoend"} => uart_status = "IDLE"

SafeInv == /\ fault = "none" /\ IrqInv /\ DmaInv /\ NoPinInv /\ RxInv /\ NewRxInv
           /\ TxInv /\ TimInv /\ ExtiMatchesStatus

IInv == TypeOK /\ SafeInv

-----------------------------------------------------------------------------
USE DEF NULL

\* The operators on the DMA state keep its type.
LEMMA DmaTypes ==
  ASSUME NEW d \in DmaType, NEW c, NEW h \in Handlers, NEW m
  PROVE  /\ WriteInts0(d, m) \in DmaType
         /\ StartChannel(d, c) \in DmaType
         /\ FinishChannel(d, c) \in DmaType
         /\ AbortChannels(d, m) \in DmaType
         /\ dma_set_ch_cb(d, c, h) \in DmaType
         /\ Retire(d, c) \in DmaType
<1>1. WriteInts0(d, m) \in DmaType BY DEF WriteInts0, DmaType, Slot
<1>2. StartChannel(d, c) \in DmaType BY DEF StartChannel, DmaType, Slot
<1>3. FinishChannel(d, c) \in DmaType BY DEF FinishChannel, DmaType, Slot
<1>4. AbortChannels(d, m) \in DmaType BY DEF AbortChannels, DmaType, Slot
<1>5. dma_set_ch_cb(d, c, h) \in DmaType BY DEF dma_set_ch_cb, DmaType, Slot
<1>6. Retire(d, c) \in DmaType BY DEF Retire, DmaType, Slot
<1> QED BY <1>1, <1>2, <1>3, <1>4, <1>5, <1>6

\* The nesting operators of platform.c keep the type of the interrupt state.
LEMMA IrqTypes ==
  ASSUME NEW i \in IrqType
  PROVE  /\ target_disable_irq(i) \in IrqType
         /\ target_enable_irq(i) \in IrqType
         /\ Nested(i) \in IrqType
<1>1. \A j \in IrqType : target_disable_irq(j) \in IrqType
  BY DEF IrqType, target_disable_irq
<1>2. \A j \in IrqType : target_enable_irq(j) \in IrqType
  <2>1. TAKE j \in IrqType
  <2>2. CASE j.disabled <= 1 BY <2>2 DEF IrqType, target_enable_irq
  <2>3. CASE ~(j.disabled <= 1) 
    <3>1. j.disabled - 1 \in Nat BY <2>3 DEF IrqType
    <3> QED BY <2>3, <3>1 DEF IrqType, target_enable_irq
  <2> QED BY <2>2, <2>3
<1> QED BY <1>1, <1>2 DEF Nested

\* A critical section inside a balanced one, or outside any, leaves irq_disabled
\* and PRIMASK as it found them (target_disable_irq, target_enable_irq).
LEMMA NestedIsId ==
  ASSUME NEW i \in IrqType, i.primask <=> i.disabled > 0
  PROVE  Nested(i) = i
<1> DEFINE j == target_disable_irq(i)
<1>1. i.primask \in BOOLEAN /\ i.disabled \in Nat BY DEF IrqType
<1>2. i = [disabled |-> i.disabled, primask |-> i.primask] BY DEF IrqType
<1>3. j \in IrqType /\ j.disabled = i.disabled + 1 /\ j.primask = TRUE
  BY IrqTypes DEF target_disable_irq
<1>4. CASE i.disabled = 0
  <2>1. i.primask = FALSE BY <1>1, <1>4
  <2>2. Nested(i) = [disabled |-> 0, primask |-> FALSE]
    BY <1>3, <1>4 DEF Nested, target_enable_irq
  <2> QED BY <1>2, <1>4, <2>1, <2>2
<1>5. CASE i.disabled # 0
  <2>1. i.primask = TRUE BY <1>1, <1>5
  <2>2. ~(j.disabled <= 1) /\ j.disabled - 1 = i.disabled BY <1>1, <1>3, <1>5
  <2>4. j = [disabled |-> j.disabled, primask |-> TRUE] BY <1>3 DEF IrqType
  <2> HIDE DEF j
  <2>3. target_enable_irq(j) = [disabled |-> i.disabled, primask |-> TRUE]
    BY <2>2, <1>1, <1>3, <2>4 DEF target_enable_irq, IrqType
  <2> QED BY <1>2, <2>1, <2>3 DEF Nested, j
<1> QED BY <1>4, <1>5

-----------------------------------------------------------------------------
(* Types. *)

\* exti_enable, exti_disable and an edge keep the type of the pin interrupt.
LEMMA ExtiTypes ==
  /\ exti_set(TRUE) \in ExtiType /\ exti_set(FALSE) \in ExtiType
  /\ \A x \in ExtiType : [x EXCEPT !.edge = TRUE] \in ExtiType
  BY DEF exti_set, ExtiType

\* The updates of the PIO break interrupt keep its type.
LEMMA BrkTypes ==
  ASSUME NEW b \in BrkType
  PROVE  /\ Latch(b) \in BrkType
         /\ [b EXCEPT !.src = FALSE] \in BrkType
         /\ [b EXCEPT !.flag = TRUE] \in BrkType
         /\ [b EXCEPT !.flag = FALSE, !.pend = FALSE] \in BrkType
         /\ [b EXCEPT !.flag = FALSE, !.src = TRUE] \in BrkType
<1>1. Latch(b) \in BrkType BY DEF Latch, BrkType
<1>2. [b EXCEPT !.src = FALSE] \in BrkType BY DEF BrkType
<1>3. [b EXCEPT !.flag = TRUE] \in BrkType BY DEF BrkType
<1>4. [b EXCEPT !.flag = FALSE, !.pend = FALSE] \in BrkType BY DEF BrkType
<1>5. [b EXCEPT !.flag = FALSE, !.src = TRUE] \in BrkType BY DEF BrkType
<1> QED BY <1>1, <1>2, <1>3, <1>4, <1>5

\* tim_set_timer and the updates in tim_handler keep the type of the timer.
LEMMA TimerTypes ==
  /\ \A cb \in Callbacks : tim_set_timer(cb) \in TimerType
  /\ \A x \in TimerType : /\ [x EXCEPT !.pend = FALSE] \in TimerType
                          /\ [x EXCEPT !.cb = NULL] \in TimerType
                          /\ [x EXCEPT !.armed = FALSE, !.pend = TRUE] \in TimerType
<1>1. \A cb \in Callbacks : tim_set_timer(cb) \in TimerType BY DEF tim_set_timer, TimerType
<1>2. \A x \in TimerType : [x EXCEPT !.pend = FALSE] \in TimerType BY DEF TimerType
<1>3. \A x \in TimerType : [x EXCEPT !.cb = NULL] \in TimerType BY DEF TimerType
<1>4. \A x \in TimerType : [x EXCEPT !.armed = FALSE, !.pend = TRUE] \in TimerType BY DEF TimerType
<1> QED BY <1>1, <1>2, <1>3, <1>4

\* set_tick_timer keeps the types of the status and the timer.
LEMMA TickTypes ==
  ASSUME LayerTypeOK, txPending \in BOOLEAN, NEW clear, set_tick_timer(clear)
  PROVE  LayerTypeOK'
<1>1. (jd_status \subseteq {"RX_ACTIVE", "TX_ACTIVE", "TX_QUEUED"})' BY DEF LayerTypeOK, set_tick_timer
<1>2. {"flush_tx_queue", "tick"} \subseteq Callbacks BY DEF Callbacks
<1>3. timer' \in TimerType BY <1>2, TimerTypes DEF LayerTypeOK, set_tick_timer
<1> QED BY <1>1, <1>3 DEF LayerTypeOK

\* uart_disable keeps the types of the driver and of the hardware.
LEMMA DisableTypes ==
  ASSUME DriverTypeOK, NEW d \in DmaType, NEW b \in BrkType, uart_disable(d, b)
  PROVE  DriverTypeOK'
<1>1. CASE jacdac_pin = "NO_PIN" BY <1>1 DEF uart_disable, DriverTypeOK
<1>2. CASE jacdac_pin # "NO_PIN"
  <2>1. dma' \in DmaType
    <3>1. \A m : AbortChannels(d, m) \in DmaType BY DmaTypes DEF Handlers
    <3> QED BY <1>2, <3>1 DEF uart_disable
  <2>2. pin' \in PinType BY <1>2 DEF uart_disable, DriverTypeOK, PinType
  <2>3. sm' \in SmType BY <1>2 DEF uart_disable, DriverTypeOK, SmType
  <2>4. brk' \in BrkType BY <1>2, BrkTypes DEF uart_disable
  <2>5. exti' \in ExtiType BY <1>2, ExtiTypes DEF uart_disable
  <2>6. irq' \in IrqType BY <1>2, IrqTypes DEF uart_disable, DriverTypeOK
  <2>7. uart_status' = "IDLE" BY <1>2 DEF uart_disable
  <2> QED BY <2>1, <2>2, <2>3, <2>4, <2>5, <2>6, <2>7 DEF DriverTypeOK
<1> QED BY <1>1, <1>2

\* jd_line_falling keeps the types, whether it receives or gives up.
LEMMA LineFallingTypes ==
  ASSUME TypeOK, jd_line_falling(dma)
  PROVE  /\ DriverTypeOK' /\ LayerTypeOK' /\ bus' \in {"idle", "low", "frame"}
         /\ fault' \in {fault, "dma_slot", "line_falling", "no_pin"}
<1> USE DEF TypeOK
<1>1. CASE uart_start_rx(dma) /\ irq' = Nested(irq) /\ timer' = tim_set_timer("setup_rx_timeout")
           /\ jd_status' = jd_status \cup {"RX_ACTIVE"}
  <2>1. dma' \in DmaType BY <1>1, DmaTypes DEF uart_start_rx, DriverTypeOK, Handlers
  <2>2. pin' \in PinType BY <1>1 DEF uart_start_rx, jd_rx_arm_pin, DriverTypeOK, PinType
  <2>3. sm' \in SmType BY <1>1 DEF uart_start_rx, DriverTypeOK, SmType
  <2>4. brk' \in BrkType BY <1>1, BrkTypes DEF uart_start_rx, DriverTypeOK
  <2>5. exti' \in ExtiType BY <1>1, ExtiTypes DEF uart_start_rx, jd_rx_arm_pin
  <2>6. irq' \in IrqType BY <1>1, IrqTypes DEF DriverTypeOK
  <2>7. uart_status' = "RX" BY <1>1 DEF uart_start_rx
  <2>8. timer' \in TimerType BY <1>1, TimerTypes DEF Callbacks
  <2>9. LayerTypeOK' BY <1>1, <2>8 DEF LayerTypeOK
  <2> QED BY <2>1, <2>2, <2>3, <2>4, <2>5, <2>6, <2>7, <2>9 DEF DriverTypeOK, jd_line_falling, ControlTypeOK
<1>2. CASE uart_disable(dma, brk) /\ jd_rx_completed
  <2>1. DriverTypeOK' BY <1>2, DisableTypes DEF DriverTypeOK
  <2>2. LayerTypeOK' BY <1>2, TickTypes DEF jd_rx_completed, ControlTypeOK
  <2> QED BY <2>1, <2>2 DEF jd_line_falling, ControlTypeOK
<1> QED BY <1>1, <1>2 DEF jd_line_falling

\* rx_done keeps the types, whether or not a reception was in progress.
LEMMA RxDoneTypes ==
  ASSUME TypeOK, NEW d \in DmaType, NEW b \in BrkType, rx_done(d, b)
  PROVE  DriverTypeOK' /\ LayerTypeOK' /\ fault' \in {fault, "phantom_rx"}
<1> USE DEF TypeOK
<1>1. CASE uart_status = "RX"
  <2>1. DriverTypeOK' BY <1>1, DisableTypes DEF rx_done
  <2>2. LayerTypeOK' BY <1>1, TickTypes DEF rx_done, jd_rx_completed, ControlTypeOK
  <2> QED BY <1>1, <2>1, <2>2 DEF rx_done
<1>2. CASE uart_status # "RX" BY <1>2 DEF rx_done, DriverTypeOK, LayerTypeOK
<1> QED BY <1>1, <1>2

\* The state platform_init leaves is well typed.
LEMMA InitTypes == Init => TypeOK
<1> SUFFICES ASSUME Init PROVE TypeOK OBVIOUS
<1> USE DEF Init
<1>1. DriverTypeOK
  BY DEF DriverTypeOK, ExtiType, PinType, SmType, BrkType, DmaType, IrqType, DmaReset, Slot
<1>2. LayerTypeOK BY DEF LayerTypeOK, TimerType
<1>3. ControlTypeOK BY DEF ControlTypeOK, TimPoints
<1> QED BY <1>1, <1>2, <1>3 DEF TypeOK

\* The handlers of priority 0 keep the types.
LEMMA IsrTypes == ASSUME TypeOK, Isr0 PROVE TypeOK'
<1> USE DEF TypeOK, uartVars, jdVars
<1>0. DriverTypeOK /\ LayerTypeOK /\ ControlTypeOK OBVIOUS
<1>1. CASE isr_pio0_0
  <2> DEFINE b == [brk EXCEPT !.flag = FALSE, !.pend = FALSE]
  <2>1. b \in BrkType BY <1>0, BrkTypes DEF DriverTypeOK
  <2>2. CASE brk.flag
    <3>1. rx_done(dma, b) BY <1>1, <2>2 DEF isr_pio0_0
    <3>2. DriverTypeOK' /\ LayerTypeOK' /\ fault' \in {fault, "phantom_rx"} BY <1>0, <2>1, <3>1, RxDoneTypes DEF DriverTypeOK
    <3>3. ControlTypeOK' BY <1>0, <1>1, <3>2 DEF isr_pio0_0, ControlTypeOK, Faults
    <3> QED BY <3>2, <3>3
  <2>3. CASE ~brk.flag BY <1>0, <1>1, <2>1, <2>3 DEF isr_pio0_0, DriverTypeOK, LayerTypeOK, ControlTypeOK
  <2> QED BY <2>2, <2>3
<1>2. CASE isr_io_bank0
  <2>1. ControlTypeOK' BY <1>0, <1>2, LineFallingTypes DEF isr_io_bank0, ControlTypeOK, Faults
  <2> QED BY <1>2, <2>1, LineFallingTypes DEF isr_io_bank0
<1>3. CASE IsrDmaEnter
  <2>1. dma' \in DmaType BY <1>0, <1>3, DmaTypes DEF IsrDmaEnter, DriverTypeOK, Handlers
  <2>2. mask' \subseteq Channel BY <1>3 DEF IsrDmaEnter, ints0
  <2> QED BY <1>0, <1>3, <2>1, <2>2 DEF IsrDmaEnter, DriverTypeOK, LayerTypeOK, ControlTypeOK
<1>4. CASE IsrDmaRx
  <2>1. PICK c \in mask : Dispatch(c, "rx_handler") /\ rx_done(Retire(dma, c), brk)
    BY <1>4 DEF IsrDmaRx
  <2>2. Retire(dma, c) \in DmaType BY <1>0, DmaTypes DEF DriverTypeOK, Handlers
  <2>3. DriverTypeOK' /\ LayerTypeOK' /\ fault' \in {fault, "phantom_rx"} BY <1>0, <2>1, <2>2, RxDoneTypes DEF DriverTypeOK
  <2>4. ControlTypeOK' BY <1>0, <1>4, <2>1, <2>3 DEF IsrDmaRx, Dispatch, ControlTypeOK, Faults
  <2> QED BY <2>3, <2>4
<1>5. CASE IsrDmaClient
  <2>1. PICK c \in mask : Dispatch(c, "client") /\ dma' = Retire(dma, c) BY <1>5 DEF IsrDmaClient
  <2>2. dma' \in DmaType BY <1>0, <2>1, DmaTypes DEF DriverTypeOK, Handlers
  <2> QED BY <1>0, <1>5, <2>1, <2>2 DEF IsrDmaClient, Dispatch, DriverTypeOK, LayerTypeOK, ControlTypeOK
<1>6. CASE IsrDmaTx
  <2>1. PICK c \in mask : Dispatch(c, "tx_handler") /\ dma' = Retire(dma, c) BY <1>6 DEF IsrDmaTx
  <2>2. dma' \in DmaType BY <1>0, <2>1, DmaTypes DEF DriverTypeOK, Handlers
  <2>3. sm' \in SmType BY <1>0, <1>6 DEF IsrDmaTx, DriverTypeOK, SmType
  <2> QED BY <1>0, <1>6, <2>1, <2>2, <2>3 DEF IsrDmaTx, Dispatch, DriverTypeOK, LayerTypeOK, ControlTypeOK
<1>7. CASE tx_handler_stalled
  <2>1. DriverTypeOK' BY <1>0, <1>7, DisableTypes DEF tx_handler_stalled, DriverTypeOK
  <2>2. LayerTypeOK' BY <1>0, <1>7, TickTypes DEF tx_handler_stalled, jd_tx_completed, ControlTypeOK
  <2>3. ControlTypeOK' BY <1>0, <1>7 DEF tx_handler_stalled, ControlTypeOK
  <2> QED BY <2>1, <2>2, <2>3
<1>8. CASE IsrDmaExit BY <1>0, <1>8 DEF IsrDmaExit, DriverTypeOK, LayerTypeOK, ControlTypeOK
<1> QED BY <1>1, <1>2, <1>3, <1>4, <1>5, <1>6, <1>7, <1>8 DEF Isr0

\* The steps of tim_handler keep the types.
LEMMA TimTypes == ASSUME TypeOK, tim_handler PROVE TypeOK'
<1> USE DEF TypeOK, uartVars, jdVars, At
<1>0. DriverTypeOK /\ LayerTypeOK /\ ControlTypeOK OBVIOUS
<1>1. CASE TimEnter
  <2>1. timer' \in TimerType
    BY <1>0, <1>1, TimerTypes DEF TimEnter, LayerTypeOK, TimerType, Callbacks
  <2>2. f' \in Callbacks \cup {NULL} BY <1>0, <1>1 DEF TimEnter, LayerTypeOK, TimerType
  <2> QED BY <1>0, <1>1, <2>1, <2>2 DEF TimEnter, DriverTypeOK, LayerTypeOK, ControlTypeOK, TimPoints, Faults
<1>2. CASE TimCheck
  <2>1. irq' \in IrqType
    BY <1>0, <1>2, IrqTypes DEF TimCheck, DriverTypeOK
  <2> QED BY <1>0, <1>2, <2>1 DEF TimCheck, DriverTypeOK, LayerTypeOK, ControlTypeOK, TimPoints, Faults
<1>3. CASE TimClear
  <2>1. timer' \in TimerType
    BY <1>0, <1>3, TimerTypes DEF TimClear, LayerTypeOK, TimerType, Callbacks
  <2> QED BY <1>0, <1>3, <2>1 DEF TimClear, DriverTypeOK, LayerTypeOK, ControlTypeOK, TimPoints, Faults
<1>4. CASE flush_tx_queue
  BY <1>0, <1>4 DEF flush_tx_queue, DriverTypeOK, LayerTypeOK, ControlTypeOK, TimPoints, Faults
<1>5. CASE setup_rx_timeout
  BY <1>0, <1>5 DEF setup_rx_timeout, DriverTypeOK, LayerTypeOK, ControlTypeOK, TimPoints, Faults
<1>6. CASE setup_rx_timeout_set
  <2>1. timer' \in TimerType
    BY <1>0, <1>6, TimerTypes DEF setup_rx_timeout_set, LayerTypeOK, TimerType, Callbacks
  <2> QED BY <1>0, <1>6, <2>1 DEF setup_rx_timeout_set, DriverTypeOK, LayerTypeOK, ControlTypeOK, TimPoints, Faults
<1>7. CASE rx_timeout
  <2>1. irq' \in IrqType
    BY <1>0, <1>7, IrqTypes DEF rx_timeout, DriverTypeOK
  <2> QED BY <1>0, <1>7, <2>1 DEF rx_timeout, DriverTypeOK, LayerTypeOK, ControlTypeOK, TimPoints, Faults
<1>8. CASE rx_timeout_enable
  <2>1. irq' \in IrqType
    BY <1>0, <1>8, IrqTypes DEF rx_timeout_enable, DriverTypeOK
  <2> QED BY <1>0, <1>8, <2>1 DEF rx_timeout_enable, DriverTypeOK, LayerTypeOK, ControlTypeOK, TimPoints, Faults
<1>9. CASE StartTxDisableExti
  <2>1. exti' \in ExtiType
    BY <1>0, <1>9, ExtiTypes DEF StartTxDisableExti, DriverTypeOK
  <2> QED BY <1>0, <1>9, <2>1 DEF StartTxDisableExti, DriverTypeOK, LayerTypeOK, ControlTypeOK, TimPoints, Faults
<1>10. CASE StartTxCheck
  BY <1>0, <1>10 DEF StartTxCheck, DriverTypeOK, LayerTypeOK, ControlTypeOK, TimPoints, Faults
<1>11. CASE StartTxOwn
  BY <1>0, <1>11 DEF StartTxOwn, DriverTypeOK, LayerTypeOK, ControlTypeOK, TimPoints, Faults
<1>12. CASE StartTxProbeHigh
  <2>1. pin' \in PinType
    BY <1>0, <1>12 DEF StartTxProbeHigh, DriverTypeOK, PinType
  <2>2. exti' \in ExtiType
    BY <1>0, <1>12, ExtiTypes DEF StartTxProbeHigh, DriverTypeOK
  <2> QED BY <1>0, <1>12, <2>1, <2>2 DEF StartTxProbeHigh, DriverTypeOK, LayerTypeOK, ControlTypeOK, TimPoints, Faults
<1>13. CASE StartTxProbeLow
  <2>1. irq' \in IrqType
    BY <1>0, <1>13, IrqTypes DEF StartTxProbeLow, DriverTypeOK
  <2> QED BY <1>0, <1>13, <2>1 DEF StartTxProbeLow, DriverTypeOK, LayerTypeOK, ControlTypeOK, TimPoints, Faults
<1>14. CASE StartTxCollided
  <2>1. irq' \in IrqType
    BY <1>0, <1>14, IrqTypes DEF StartTxCollided, DriverTypeOK
  <2> QED BY <1>0, <1>14, <2>1 DEF StartTxCollided, DriverTypeOK, LayerTypeOK, ControlTypeOK, TimPoints, Faults
<1>15. CASE StartTxArm
  <2>1. pin' \in PinType
    BY <1>0, <1>15 DEF StartTxArm, DriverTypeOK, PinType
  <2>2. sm' \in SmType
    BY <1>0, <1>15 DEF StartTxArm, DriverTypeOK, SmType
  <2> QED BY <1>0, <1>15, <2>1, <2>2 DEF StartTxArm, DriverTypeOK, LayerTypeOK, ControlTypeOK, TimPoints, Faults
<1>16. CASE StartTxSetCb
  <2>1. dma' \in DmaType
    BY <1>0, <1>16, DmaTypes DEF StartTxSetCb, DriverTypeOK, Handlers
  <2> QED BY <1>0, <1>16, <2>1 DEF StartTxSetCb, DriverTypeOK, LayerTypeOK, ControlTypeOK, TimPoints, Faults
<1>17. CASE StartTxDma
  <2>1. dma' \in DmaType
    BY <1>0, <1>17, DmaTypes DEF StartTxDma, DriverTypeOK, Handlers
  <2> QED BY <1>0, <1>17, <2>1 DEF StartTxDma, DriverTypeOK, LayerTypeOK, ControlTypeOK, TimPoints, Faults
<1>18. CASE FlushRetry
  BY <1>0, <1>18 DEF FlushRetry, DriverTypeOK, LayerTypeOK, ControlTypeOK, TimPoints, Faults
<1>19. CASE tick
  <2>1. LayerTypeOK'
    BY <1>0, <1>19, TickTypes DEF tick, ControlTypeOK, jd_tx_completed, jd_rx_completed
  <2> QED BY <1>0, <1>19, <2>1 DEF tick, DriverTypeOK, LayerTypeOK, ControlTypeOK, TimPoints, Faults
<1>20. CASE StartTxNoPin
  <2>1. LayerTypeOK'
    BY <1>0, <1>20, TickTypes DEF StartTxNoPin, ControlTypeOK, jd_tx_completed, jd_rx_completed
  <2> QED BY <1>0, <1>20, <2>1 DEF StartTxNoPin, DriverTypeOK, LayerTypeOK, ControlTypeOK, TimPoints, Faults
<1>21. CASE StartTxDone
  <2>1. sm' \in SmType
    BY <1>0, <1>21 DEF StartTxDone, DriverTypeOK, SmType
  <2>2. LayerTypeOK'
    BY <1>0, <1>21, TickTypes DEF StartTxDone, ControlTypeOK, jd_tx_completed, jd_rx_completed
  <2> QED BY <1>0, <1>21, <2>1, <2>2 DEF StartTxDone, DriverTypeOK, LayerTypeOK, ControlTypeOK, TimPoints, Faults
<1>22. CASE FlushFailed
  <2>1. LayerTypeOK'
    BY <1>0, <1>22, TickTypes DEF FlushFailed, ControlTypeOK, jd_tx_completed, jd_rx_completed
  <2> QED BY <1>0, <1>22, <2>1 DEF FlushFailed, DriverTypeOK, LayerTypeOK, ControlTypeOK, TimPoints, Faults
<1>23. CASE rx_timeout_completed
  <2>1. irq' \in IrqType
    BY <1>0, <1>23, IrqTypes DEF rx_timeout_completed, DriverTypeOK
  <2>2. LayerTypeOK'
    BY <1>0, <1>23, TickTypes DEF rx_timeout_completed, ControlTypeOK, jd_tx_completed, jd_rx_completed
  <2> QED BY <1>0, <1>23, <2>1, <2>2 DEF rx_timeout_completed, DriverTypeOK, LayerTypeOK, ControlTypeOK, TimPoints, Faults
<1>24. CASE rx_timeout_disable
  <2>1. DriverTypeOK'
    BY <1>0, <1>24, DisableTypes DEF rx_timeout_disable, DriverTypeOK
  <2> QED BY <1>0, <1>24, <2>1 DEF rx_timeout_disable, DriverTypeOK, LayerTypeOK, ControlTypeOK, TimPoints, Faults
<1>25. CASE StartTxCollide
  <2>1. DriverTypeOK' /\ LayerTypeOK' /\ bus' \in {"idle", "low", "frame"}
       /\ fault' \in {fault, "dma_slot", "line_falling", "no_pin"}
    BY <1>0, <1>25, LineFallingTypes DEF StartTxCollide
  <2> QED BY <1>0, <1>25, <2>1 DEF StartTxCollide, DriverTypeOK, LayerTypeOK, ControlTypeOK, TimPoints, Faults
<1> QED BY <1>1, <1>2, <1>3, <1>4, <1>5, <1>6, <1>7, <1>8, <1>9, <1>10, <1>11, <1>12, <1>13,
     <1>14, <1>15, <1>16, <1>17, <1>18, <1>19, <1>20, <1>21, <1>22, <1>23, <1>24, <1>25 DEF tim_handler, uart_start_tx

\* The main loop, the devices and the chip keep the types.
LEMMA OtherTypes ==
  ASSUME TypeOK, jd_packet_ready \/ (\E c \in Others : ClientStart(c)) \/ Devices \/ Chip
  PROVE  TypeOK'
<1> USE DEF TypeOK, uartVars, jdVars
<1>0. DriverTypeOK /\ LayerTypeOK /\ ControlTypeOK OBVIOUS
<1>1. CASE jd_packet_ready
  <2>1. timer' \in TimerType
    BY <1>0, <1>1, TimerTypes DEF jd_packet_ready, LayerTypeOK, TimerType, Callbacks
  <2> QED BY <1>0, <1>1, <2>1 DEF jd_packet_ready, DriverTypeOK, LayerTypeOK, ControlTypeOK, TimPoints, Faults
<1>2. CASE BusRelease
  BY <1>0, <1>2 DEF BusRelease, DriverTypeOK, LayerTypeOK, ControlTypeOK, TimPoints, Faults
<1>3. CASE BusData
  <2>1. exti' \in ExtiType
    BY <1>0, <1>3, ExtiTypes DEF BusData, DriverTypeOK
  <2> QED BY <1>0, <1>3, <2>1 DEF BusData, DriverTypeOK, LayerTypeOK, ControlTypeOK, TimPoints, Faults
<1>4. CASE BusDies
  BY <1>0, <1>4 DEF BusDies, DriverTypeOK, LayerTypeOK, ControlTypeOK, TimPoints, Faults
<1>5. CASE RxBufferFull
  <2>1. dma' \in DmaType
    BY <1>0, <1>5, DmaTypes DEF RxBufferFull, DriverTypeOK, Handlers
  <2> QED BY <1>0, <1>5, <2>1 DEF RxBufferFull, DriverTypeOK, LayerTypeOK, ControlTypeOK, TimPoints, Faults
<1>6. CASE TxDmaDone
  <2>1. dma' \in DmaType
    BY <1>0, <1>6, DmaTypes DEF TxDmaDone, DriverTypeOK, Handlers
  <2>2. sm' \in SmType
    BY <1>0, <1>6 DEF TxDmaDone, DriverTypeOK, SmType
  <2> QED BY <1>0, <1>6, <2>1, <2>2 DEF TxDmaDone, DriverTypeOK, LayerTypeOK, ControlTypeOK, TimPoints, Faults
<1>7. CASE TxDrain
  <2>1. sm' \in SmType
    BY <1>0, <1>7 DEF TxDrain, DriverTypeOK, SmType
  <2> QED BY <1>0, <1>7, <2>1 DEF TxDrain, DriverTypeOK, LayerTypeOK, ControlTypeOK, TimPoints, Faults
<1>8. CASE TxStall
  <2>1. sm' \in SmType
    BY <1>0, <1>8 DEF TxStall, DriverTypeOK, SmType
  <2> QED BY <1>0, <1>8, <2>1 DEF TxStall, DriverTypeOK, LayerTypeOK, ControlTypeOK, TimPoints, Faults
<1>9. CASE AlarmFires
  <2>1. timer' \in TimerType
    BY <1>0, <1>9, TimerTypes DEF AlarmFires, LayerTypeOK, TimerType, Callbacks
  <2> QED BY <1>0, <1>9, <2>1 DEF AlarmFires, DriverTypeOK, LayerTypeOK, ControlTypeOK, TimPoints, Faults
<1>10. CASE BusStart
  <2>1. exti' \in ExtiType BY <1>0, <1>10, ExtiTypes DEF BusStart, LowPulse, DriverTypeOK
  <2>2. brk' \in BrkType BY <1>0, <1>10, BrkTypes DEF BusStart, LowPulse, DriverTypeOK
  <2> QED BY <1>0, <1>10, <2>1, <2>2 DEF BusStart, DriverTypeOK, LayerTypeOK, ControlTypeOK
<1>11. CASE BusBreak
  <2>1. exti' \in ExtiType BY <1>0, <1>11, ExtiTypes DEF BusBreak, LowPulse, DriverTypeOK
  <2>2. brk' \in BrkType BY <1>0, <1>11, BrkTypes DEF BusBreak, LowPulse, DriverTypeOK
  <2> QED BY <1>0, <1>11, <2>1, <2>2 DEF BusBreak, DriverTypeOK, LayerTypeOK, ControlTypeOK
<1>12. ASSUME NEW c \in Others, ClientStart(c) PROVE TypeOK'
  <2>1. dma' \in DmaType BY <1>0, <1>12, DmaTypes DEF ClientStart, DriverTypeOK, Handlers
  <2> QED BY <1>0, <1>12, <2>1 DEF ClientStart, DriverTypeOK, LayerTypeOK, ControlTypeOK
<1>13. ASSUME NEW c \in Others, ClientDone(c) PROVE TypeOK'
  <2>1. dma' \in DmaType BY <1>0, <1>13, DmaTypes DEF ClientDone, DriverTypeOK, Handlers
  <2> QED BY <1>0, <1>13, <2>1 DEF ClientDone, DriverTypeOK, LayerTypeOK, ControlTypeOK
<1> QED BY <1>1, <1>2, <1>3, <1>4, <1>5, <1>6, <1>7, <1>8, <1>9, <1>10, <1>11, <1>12,
     <1>13 DEF Devices, Chip

\* Every variable keeps its type: uart_status is always exactly one of the
\* three STATUS values, whatever interrupts uart_start_tx.
THEOREM TypeCorrect == Spec => []TypeOK
<1>1. TypeOK /\ [Next]_vars => TypeOK'
  <2> SUFFICES ASSUME TypeOK, [Next]_vars PROVE TypeOK' OBVIOUS
  <2>1. CASE Next BY <2>1, IsrTypes, TimTypes, OtherTypes DEF Next
  <2>2. CASE UNCHANGED vars BY <2>2 DEF vars, TypeOK, DriverTypeOK, LayerTypeOK, ControlTypeOK
  <2> QED BY <2>1, <2>2
<1> QED BY InitTypes, <1>1, PTL DEF Spec

-----------------------------------------------------------------------------
(* What the operators the handlers share do, under the invariant. *)

\* The nested critical sections are no-ops on a balanced interrupt state.
LEMMA NestedIrq == ASSUME irq \in IrqType, IrqBalanced PROVE Nested(irq) = irq
  BY NestedIsId DEF IrqBalanced, IrqType

\* uart_disable with a pin: idle, EXTI on, both channels stopped; a channel that
\* ran keeps its handler and flags its interrupt (uart.c:271-286).
LEMMA DisableEffect ==
  ASSUME irq \in IrqType, IrqBalanced, jacdac_pin # "NO_PIN",
         NEW d \in DmaType, NEW b, uart_disable(d, b)
  PROVE  /\ uart_status' = "IDLE" /\ exti'.en /\ irq' = irq
         /\ \A c \in Channel :
              /\ dma'[c].handler = d[c].handler
              /\ dma'[c].inte <=> d[c].inte
              /\ dma'[c].busy <=> d[c].busy /\ c \notin {dmachRx, dmachTx}
              /\ dma'[c].intr <=> d[c].intr \/ (d[c].busy /\ c \in {dmachRx, dmachTx})
<1>1. uart_status' = "IDLE" /\ exti'.en BY DEF uart_disable, exti_set
<1>2. irq' = irq BY NestedIrq DEF uart_disable
<1>3. dma' = AbortChannels(d, {dmachRx, dmachTx}) BY DEF uart_disable
<1>4. ASSUME NEW c \in Channel
      PROVE  /\ dma'[c].handler = d[c].handler
             /\ dma'[c].inte <=> d[c].inte
             /\ dma'[c].busy <=> d[c].busy /\ c \notin {dmachRx, dmachTx}
             /\ dma'[c].intr <=> d[c].intr \/ (d[c].busy /\ c \in {dmachRx, dmachTx})
  BY <1>3 DEF AbortChannels, DmaType, Slot
<1> QED BY <1>1, <1>2, <1>4

\* set_tick_timer clears no activity but the one it is told, and never
\* schedules a reception timeout.
LEMMA TickEffect ==
  ASSUME NEW clear, set_tick_timer(clear)
  PROVE  /\ "RX_ACTIVE" \in jd_status' <=> "RX_ACTIVE" \in jd_status \ clear
         /\ "TX_ACTIVE" \in jd_status' <=> "TX_ACTIVE" \in jd_status \ clear
         /\ timer'.cb \in {timer.cb, "tick", "flush_tx_queue"}
  BY DEF set_tick_timer, tim_set_timer

\* dma_set_ch_cb fills one slot, enables its interrupt and drops a stale flag
\* (dma.c:59-69).
LEMMA SetCbEffect ==
  ASSUME NEW d \in DmaType, NEW c \in Channel, NEW h \in Handlers, NEW e \in Channel
  PROVE  /\ dma_set_ch_cb(d, c, h)[c].handler = h
         /\ dma_set_ch_cb(d, c, h)[c].inte
         /\ ~dma_set_ch_cb(d, c, h)[c].intr
         /\ dma_set_ch_cb(d, c, h)[c].busy = d[c].busy
         /\ e # c => dma_set_ch_cb(d, c, h)[e] = d[e]
  BY DEF dma_set_ch_cb, DmaType, Slot

\* Starting a channel only makes it busy.
LEMMA StartEffect ==
  ASSUME NEW d \in DmaType, NEW c \in Channel, NEW e \in Channel
  PROVE  /\ StartChannel(d, c)[e].handler = d[e].handler
         /\ StartChannel(d, c)[e].inte = d[e].inte
         /\ StartChannel(d, c)[e].intr = d[e].intr
         /\ StartChannel(d, c)[e].busy <=> d[e].busy \/ e = c
  BY DEF StartChannel, DmaType, Slot

\* isr_dma_0 empties the slot of the channel it visits and no other
\* (dma.c:41-46).
LEMMA RetireEffect ==
  ASSUME NEW d \in DmaType, NEW c \in Channel, NEW e \in Channel
  PROVE  /\ Retire(d, c)[c].handler = NULL
         /\ ~Retire(d, c)[c].inte
         /\ Retire(d, c)[c].busy = d[c].busy
         /\ Retire(d, c)[c].intr = d[c].intr
         /\ e # c => Retire(d, c)[e] = d[e]
  BY DEF Retire, DmaType, Slot

\* uart_start_rx: status RX, EXTI off, the receiver and its channel running
\* with rx_handler registered (uart.c:336-348).
LEMMA StartRxEffect ==
  ASSUME dma \in DmaType, sm \in SmType, uart_start_rx(dma)
  PROVE  /\ uart_status' = "RX" /\ ~exti'.en /\ sm'.rx
         /\ dma'[dmachRx].handler = "rx_handler"
         /\ dma'[dmachRx].inte /\ dma'[dmachRx].busy /\ ~dma'[dmachRx].intr
         /\ \A c \in Channel \ {dmachRx} :
              /\ dma'[c].handler = dma[c].handler /\ dma'[c].inte = dma[c].inte
              /\ dma'[c].intr = dma[c].intr /\ (dma'[c].busy <=> dma[c].busy)
<1> DEFINE d == dma_set_ch_cb(dma, dmachRx, "rx_handler")
<1>1. d \in DmaType BY DmaTypes DEF Handlers
<1>2. dma' = StartChannel(d, dmachRx) BY DEF uart_start_rx
<1>3. "rx_handler" \in Handlers /\ dmachRx \in Channel BY UartChannels DEF Handlers
<1>4. uart_status' = "RX" /\ ~exti'.en /\ sm'.rx
  BY DEF uart_start_rx, jd_rx_arm_pin, exti_set, SmType
<1>5. /\ d[dmachRx].handler = "rx_handler" /\ d[dmachRx].inte /\ ~d[dmachRx].intr
      /\ \A c \in Channel \ {dmachRx} : d[c] = dma[c] BY <1>3, SetCbEffect
<1> HIDE DEF d
<1> QED BY <1>1, <1>2, <1>3, <1>4, <1>5, StartEffect

-----------------------------------------------------------------------------
(* SafeInv is inductive, given the types. *)

\* The types, as the steps below use them.
LEMMA TypedState ==
  ASSUME TypeOK
  PROVE  /\ dma \in [Channel -> Slot(Handlers)] /\ irq \in [disabled: Nat, primask: BOOLEAN]
         /\ timer \in [cb: Callbacks \cup {NULL}, armed: BOOLEAN, pend: BOOLEAN]
         /\ exti \in [en: BOOLEAN, edge: BOOLEAN]
         /\ sm \in [tx: BOOLEAN, rx: BOOLEAN, fifo: BOOLEAN, stall: BOOLEAN]
         /\ brk \in [flag: BOOLEAN, src: BOOLEAN, pend: BOOLEAN]
         /\ mask \subseteq Channel /\ tpc \in TimPoints /\ jacdac_pin \in {"PIN", "NO_PIN"}
         /\ uart_status \in {"IDLE", "TX", "RX"} /\ isr \in {"none", "dma", "txwait"}
  BY DEF TypeOK, DriverTypeOK, LayerTypeOK, ControlTypeOK, DmaType, IrqType, TimerType,
         ExtiType, SmType, BrkType

\* Under the invariant the nested critical sections are no-ops.
LEMMA NestedStep == ASSUME TypeOK, SafeInv PROVE Nested(irq) = irq
  BY NestedIrq DEF TypeOK, DriverTypeOK, SafeInv, IrqInv

\* SafeInv holds when platform_init is done.
LEMMA InitSafe == Init => SafeInv
<1> SUFFICES ASSUME Init PROVE SafeInv OBVIOUS
<1> USE UartChannels DEF Init
<1>1. IrqInv BY DEF IrqInv, IrqBalanced, IrqOff
<1>2. DmaInv BY DEF DmaInv, Owner, DmaReset
<1>3. NoPinInv BY DEF NoPinInv, Sending, TxSetup
<1>4. RxInv BY DEF RxInv, DmaReset
<1>8. NewRxInv BY DEF NewRxInv
<1>5. TxInv BY DEF TxInv, TxOwned, DmaReset, Sending, TxSetup
<1>6. TimInv BY DEF TimInv
<1>7. ExtiMatchesStatus BY DEF ExtiMatchesStatus
<1> QED BY <1>1, <1>2, <1>3, <1>4, <1>5, <1>6, <1>7, <1>8 DEF SafeInv

\* rx_done preserves SafeInv when called by isr_pio0_0 or by isr_dma_0, for the
\* reception in progress as well as for a stale rx_handler.
LEMMA RxDoneSafe ==
  ASSUME TypeOK, SafeInv, UNCHANGED <<jacdac_pin, tpc, f, isr>>, tpc \notin IrqOff,
         NEW d \in DmaType, NEW b, rx_done(d, b),
         tpc = "txcheck" /\ uart_status = "RX" => brk.pend \/ dmachRx \in mask,
         \/ d = dma /\ mask' = mask
         \/ d = Retire(dma, dmachRx) /\ mask' = mask \ {dmachRx} /\ dmachRx \in mask
  PROVE  SafeInv'
<1> USE TypedState, UartChannels
        DEF SafeInv, IrqInv, IrqBalanced, IrqOff, DmaInv, Owner, NoPinInv, RxInv, NewRxInv,
            TxInv, TxOwned, Sending, TxSetup, TimInv, ExtiMatchesStatus, Slot
<1>0. /\ mask' \subseteq mask
      /\ \A c \in Channel \ {dmachRx} : d[c] = dma[c] /\ (c \in mask' <=> c \in mask)
      /\ d[dmachRx].busy <=> dma[dmachRx].busy
      /\ d[dmachRx].intr <=> dma[dmachRx].intr
      /\ \/ /\ d[dmachRx].handler = dma[dmachRx].handler /\ (d[dmachRx].inte <=> dma[dmachRx].inte)
            /\ dmachRx \in mask' <=> dmachRx \in mask
         \/ d[dmachRx].handler = NULL /\ ~d[dmachRx].inte /\ dmachRx \notin mask' /\ dmachRx \in mask
  <2>1. CASE d = dma /\ mask' = mask BY <2>1
  <2>2. CASE d = Retire(dma, dmachRx) /\ mask' = mask \ {dmachRx} /\ dmachRx \in mask
    <3>1. dma \in DmaType BY DEF DmaType
    <3> QED BY <2>2, <3>1, RetireEffect
  <2> QED BY <2>1, <2>2
<1>1. CASE uart_status = "RX"
  <2>1. jacdac_pin # "NO_PIN" /\ irq \in IrqType BY <1>1 DEF IrqType
  <2>2. uart_disable(d, b) /\ set_tick_timer({"RX_ACTIVE"}) /\ fault' = "none"
    BY <1>1 DEF rx_done, jd_rx_completed
  <2>3. /\ uart_status' = "IDLE" /\ exti'.en /\ irq' = irq
        /\ \A c \in Channel :
             /\ dma'[c].handler = d[c].handler
             /\ dma'[c].inte <=> d[c].inte
             /\ dma'[c].busy <=> d[c].busy /\ c \notin {dmachRx, dmachTx}
             /\ dma'[c].intr <=> d[c].intr \/ (d[c].busy /\ c \in {dmachRx, dmachTx})
    BY <2>1, <2>2, DisableEffect
  <2>4. /\ "RX_ACTIVE" \notin jd_status'
        /\ "TX_ACTIVE" \in jd_status' <=> "TX_ACTIVE" \in jd_status
        /\ timer'.cb \in {timer.cb, "tick", "flush_tx_queue"}
    BY <2>2, TickEffect
  <2>5. IrqInv' BY <1>0, <2>3
  <2>6. DmaInv' BY <1>0, <1>1, <2>3
  <2>7. RxInv' BY <1>0, <2>3, <2>4
  <2>8. TxInv' BY <1>0, <1>1, <2>3, <2>4
  <2>9. NoPinInv' /\ NewRxInv' /\ TimInv' /\ ExtiMatchesStatus' BY <1>1, <2>1, <2>3, <2>4
  <2> QED BY <2>2, <2>5, <2>6, <2>7, <2>8, <2>9
<1>2. CASE uart_status # "RX"
  <2>1. dma' = d /\ UNCHANGED <<uart_status, exti, sm, irq, jd_status, timer, fault>>
    BY <1>2 DEF rx_done
  <2>2. DmaInv' BY <1>0, <1>2, <2>1
  <2>3. IrqInv' /\ NoPinInv' /\ TimInv' /\ ExtiMatchesStatus' BY <1>0, <2>1
  <2>4. RxInv' /\ NewRxInv' BY <1>0, <1>2, <2>1
  <2>5. TxInv' BY <1>0, <2>1
  <2> QED BY <2>1, <2>2, <2>3, <2>4, <2>5
<1> QED BY <1>1, <1>2

\* jd_line_falling preserves SafeInv when called by isr_io_bank0 or for a
\* collision in uart_start_tx, once both slots are empty.
LEMMA LineFallingSafe ==
  ASSUME TypeOK, SafeInv, jacdac_pin = "PIN", jd_line_falling(dma), isr = "none",
         UNCHANGED <<jacdac_pin, f, isr, mask>>,
         dma[dmachRx].handler = NULL, dma[dmachTx].handler = NULL,
         \/ tpc = "collide" /\ tpc' = "collided"
         \/ tpc \notin IrqOff /\ tpc' = tpc /\ uart_status = "IDLE" /\ exti.en
  PROVE  SafeInv'
<1> USE TypedState, UartChannels
        DEF SafeInv, IrqInv, IrqBalanced, IrqOff, DmaInv, Owner, NoPinInv, RxInv, NewRxInv,
            TxInv, TxOwned, Sending, TxSetup, TimInv, ExtiMatchesStatus, Slot
<1>0. "RX_ACTIVE" \notin jd_status /\ uart_status # "RX" OBVIOUS
<1>1. CASE uart_start_rx(dma) /\ irq' = Nested(irq) /\ timer' = tim_set_timer("setup_rx_timeout")
           /\ jd_status' = jd_status \cup {"RX_ACTIVE"}
  <2>1. /\ uart_status' = "RX" /\ ~exti'.en /\ sm'.rx
        /\ dma'[dmachRx].handler = "rx_handler"
        /\ dma'[dmachRx].inte /\ dma'[dmachRx].busy /\ ~dma'[dmachRx].intr
        /\ \A c \in Channel \ {dmachRx} :
             /\ dma'[c].handler = dma[c].handler /\ dma'[c].inte = dma[c].inte
             /\ dma'[c].intr = dma[c].intr /\ (dma'[c].busy <=> dma[c].busy)
    BY <1>1, StartRxEffect DEF DmaType, SmType
  <2>2. irq' = irq /\ timer'.cb = "setup_rx_timeout" BY <1>1, NestedStep DEF tim_set_timer
  <2>3. fault' = "none" BY <1>0, <1>1, <2>1 DEF jd_line_falling, SlotFree, uart_disable
  <2>4. IrqInv' BY <2>2
  <2>5. DmaInv' BY <2>1
  <2>6. RxInv' /\ NewRxInv' BY <1>1, <2>1
  <2>7. TxInv' BY <1>1, <2>1
  <2>8. NoPinInv' /\ TimInv' /\ ExtiMatchesStatus' BY <2>1, <2>2
  <2> QED BY <2>3, <2>4, <2>5, <2>6, <2>7, <2>8
<1>2. CASE uart_disable(dma, brk) /\ jd_rx_completed
           /\ fault' = IF "RX_ACTIVE" \in jd_status THEN "line_falling" ELSE fault
  <2>1. /\ uart_status' = "IDLE" /\ exti'.en /\ irq' = irq
        /\ \A c \in Channel :
             /\ dma'[c].handler = dma[c].handler
             /\ dma'[c].inte <=> dma[c].inte
             /\ dma'[c].busy <=> dma[c].busy /\ c \notin {dmachRx, dmachTx}
             /\ dma'[c].intr <=> dma[c].intr \/ (dma[c].busy /\ c \in {dmachRx, dmachTx})
    BY <1>2, DisableEffect DEF DmaType, IrqType
  <2>2. /\ "RX_ACTIVE" \notin jd_status'
        /\ "TX_ACTIVE" \in jd_status' <=> "TX_ACTIVE" \in jd_status
        /\ timer'.cb \in {timer.cb, "tick", "flush_tx_queue"}
    BY <1>2, TickEffect DEF jd_rx_completed
  <2>3. fault' = "none" BY <1>0, <1>2
  <2>4. IrqInv' BY <2>1
  <2>5. DmaInv' BY <2>1
  <2>6. RxInv' /\ NewRxInv' BY <2>1, <2>2
  <2>7. TxInv' BY <2>1, <2>2
  <2>8. NoPinInv' /\ TimInv' /\ ExtiMatchesStatus' BY <2>1, <2>2
  <2> QED BY <2>3, <2>4, <2>5, <2>6, <2>7, <2>8
<1> QED BY <1>1, <1>2 DEF jd_line_falling

\* The handlers of priority 0 preserve SafeInv.
LEMMA IsrSafe == ASSUME TypeOK, SafeInv, Isr0 PROVE SafeInv'
<1> USE TypedState, UartChannels
        DEF SafeInv, IrqInv, IrqBalanced, IrqOff, DmaInv, Owner, NoPinInv, RxInv, NewRxInv,
            TxInv, TxOwned, Sending, TxSetup, TimInv, ExtiMatchesStatus, Slot, uartVars, jdVars
<1>0. dma \in DmaType /\ irq \in IrqType BY DEF DmaType, IrqType
<1>1. CASE isr_pio0_0
  <2>1. UNCHANGED <<jacdac_pin, tpc, f, isr, mask>> /\ tpc \notin IrqOff
    BY <1>1 DEF isr_pio0_0, IsrMayStart
  <2>2. CASE brk.flag
    <3>1. rx_done(dma, [brk EXCEPT !.flag = FALSE, !.pend = FALSE]) BY <1>1, <2>2 DEF isr_pio0_0
    <3>2. brk.pend BY <1>1 DEF isr_pio0_0, ServePio, PioIrq
    <3> QED BY <1>0, <2>1, <3>1, <3>2, RxDoneSafe
  <2>3. CASE ~brk.flag
    <3>1. ~brk'.pend BY <1>1, <2>3 DEF isr_pio0_0
    <3> QED BY <1>1, <2>1, <2>3, <3>1 DEF isr_pio0_0
  <2> QED BY <2>2, <2>3
<1>2. CASE isr_io_bank0
  <2>1. /\ isr = "none" /\ exti.en /\ tpc \notin IrqOff /\ ints0(dma) = {}
        /\ jd_line_falling(dma) /\ UNCHANGED <<jacdac_pin, tpc, f, isr, mask>>
    BY <1>2 DEF isr_io_bank0, IsrMayStart, ServeExti, ExtiIrq, DmaIrq
  <2>2. jacdac_pin = "PIN" /\ uart_status = "IDLE" BY <2>1
  <2>3. dma[dmachRx].handler = NULL /\ dma[dmachTx].handler = NULL BY <2>1, <2>2 DEF ints0
  <2> QED BY <2>1, <2>2, <2>3, LineFallingSafe
<1>3. CASE IsrDmaEnter BY <1>3 DEF IsrDmaEnter, IsrMayStart, WriteInts0, ints0
<1>4. CASE IsrDmaRx
  <2>1. PICK c \in mask : Dispatch(c, "rx_handler") /\ rx_done(Retire(dma, c), brk)
    BY <1>4 DEF IsrDmaRx
  <2>2. c = dmachRx BY <2>1 DEF Dispatch
  <2>3. UNCHANGED <<jacdac_pin, tpc, f, isr>> /\ tpc \notin IrqOff /\ mask' = mask \ {dmachRx}
    BY <1>4, <2>1, <2>2 DEF IsrDmaRx, Dispatch
  <2>4. Retire(dma, dmachRx) \in DmaType BY <1>0, DmaTypes DEF Handlers
  <2> QED BY <2>1, <2>2, <2>3, <2>4, RxDoneSafe
<1>5. CASE IsrDmaClient BY <1>5 DEF IsrDmaClient, Dispatch, Retire
<1>6. CASE IsrDmaTx
  <2>1. PICK c \in mask : Dispatch(c, "tx_handler") /\ dma' = Retire(dma, c) BY <1>6 DEF IsrDmaTx
  <2>2. c = dmachTx BY <2>1 DEF Dispatch
  <2>3. /\ UNCHANGED <<jacdac_pin, uart_status, exti, timer, irq, jd_status, tpc, f, fault>>
        /\ isr = "dma" /\ isr' = "txwait" /\ mask' = mask \ {dmachTx}
    BY <1>6, <2>1, <2>2 DEF IsrDmaTx, Dispatch
  <2>4. /\ dma'[dmachTx].handler = NULL /\ ~dma'[dmachTx].inte /\ ~dma'[dmachTx].busy
        /\ \A e \in Channel \ {dmachTx} : dma'[e] = dma[e]
    BY <1>0, <2>1, <2>2, RetireEffect
  <2>5. DmaInv' BY <2>1, <2>2, <2>3, <2>4
  <2>6. RxInv' /\ NewRxInv' BY <1>6, <2>3, <2>4 DEF IsrDmaTx
  <2>7. TxInv' BY <2>1, <2>2, <2>3, <2>4
  <2>8. IrqInv' /\ NoPinInv' /\ TimInv' /\ ExtiMatchesStatus' BY <2>3
  <2> QED BY <2>3, <2>5, <2>6, <2>7, <2>8
<1>7. CASE tx_handler_stalled
  <2>1. /\ isr = "txwait" /\ isr' = "dma" /\ UNCHANGED <<jacdac_pin, tpc, f, mask, fault>>
        /\ uart_disable(dma, brk) /\ set_tick_timer({"TX_ACTIVE"})
    BY <1>7 DEF tx_handler_stalled, jd_tx_completed
  <2>2. jacdac_pin # "NO_PIN" /\ uart_status = "TX" BY <2>1
  <2>3. /\ uart_status' = "IDLE" /\ exti'.en /\ irq' = irq
        /\ \A c \in Channel :
             /\ dma'[c].handler = dma[c].handler
             /\ dma'[c].inte <=> dma[c].inte
             /\ dma'[c].busy <=> dma[c].busy /\ c \notin {dmachRx, dmachTx}
             /\ dma'[c].intr <=> dma[c].intr \/ (dma[c].busy /\ c \in {dmachRx, dmachTx})
    BY <1>0, <2>1, <2>2, DisableEffect
  <2>4. /\ "TX_ACTIVE" \notin jd_status'
        /\ "RX_ACTIVE" \in jd_status' <=> "RX_ACTIVE" \in jd_status
        /\ timer'.cb \in {timer.cb, "tick", "flush_tx_queue"}
    BY <2>1, TickEffect
  <2>5. DmaInv' BY <2>1, <2>3
  <2>6. RxInv' /\ NewRxInv' BY <2>1, <2>2, <2>3, <2>4
  <2>7. TxInv' BY <2>1, <2>2, <2>3, <2>4
  <2>8. IrqInv' /\ NoPinInv' /\ TimInv' /\ ExtiMatchesStatus' BY <2>1, <2>2, <2>3, <2>4
  <2> QED BY <2>1, <2>5, <2>6, <2>7, <2>8
<1>8. CASE IsrDmaExit BY <1>8 DEF IsrDmaExit
<1> QED BY <1>1, <1>2, <1>3, <1>4, <1>5, <1>6, <1>7, <1>8 DEF Isr0

\* The steps of tim_handler, uart_start_tx among them, preserve SafeInv.
LEMMA TimSafe == ASSUME TypeOK, SafeInv, tim_handler PROVE SafeInv'
<1> USE TypedState, NestedStep, UartChannels
        DEF SafeInv, IrqInv, IrqBalanced, IrqOff, DmaInv, Owner, NoPinInv, RxInv, NewRxInv,
            TxInv, TxOwned, Sending, TxSetup, TimInv, ExtiMatchesStatus, Slot, uartVars, jdVars,
            At, TimMayRun, DmaIrq, ints0
<1>1. CASE TimEnter BY <1>1 DEF TimEnter
<1>2. CASE TimCheck BY <1>2 DEF TimCheck
<1>3. CASE TimClear BY <1>3 DEF TimClear
<1>4. CASE tick BY <1>4 DEF tick, set_tick_timer, tim_set_timer
<1>5. CASE flush_tx_queue BY <1>5 DEF flush_tx_queue
<1>6. CASE setup_rx_timeout BY <1>6 DEF setup_rx_timeout
<1>7. CASE setup_rx_timeout_set BY <1>7 DEF setup_rx_timeout_set, tim_set_timer
<1>8. CASE rx_timeout BY <1>8 DEF rx_timeout, target_disable_irq, target_enable_irq
<1>9. CASE rx_timeout_disable
  <2>1. /\ tpc = "rxto" /\ tpc' = "rxtodone" /\ isr = "none"
        /\ UNCHANGED <<jacdac_pin, timer, jd_status, f, isr, mask, fault>> /\ uart_disable(dma, brk)
    BY <1>9 DEF rx_timeout_disable
  <2>2. CASE jacdac_pin = "NO_PIN" BY <2>1, <2>2 DEF uart_disable
  <2>3. CASE jacdac_pin # "NO_PIN"
    <3>1. /\ uart_status' = "IDLE" /\ exti'.en /\ irq' = irq
          /\ \A c \in Channel :
               /\ dma'[c].handler = dma[c].handler
               /\ dma'[c].inte <=> dma[c].inte
               /\ dma'[c].busy <=> dma[c].busy /\ c \notin {dmachRx, dmachTx}
               /\ dma'[c].intr <=> dma[c].intr \/ (dma[c].busy /\ c \in {dmachRx, dmachTx})
      BY <2>1, <2>3, DisableEffect DEF DmaType, IrqType
    <3>2. DmaInv' BY <2>1, <3>1
    <3>3. RxInv' /\ NewRxInv' BY <2>1, <3>1
    <3>4. TxInv' BY <2>1, <3>1
    <3>5. IrqInv' /\ NoPinInv' /\ TimInv' /\ ExtiMatchesStatus' BY <2>1, <2>3, <3>1
    <3> QED BY <2>1, <3>2, <3>3, <3>4, <3>5
  <2> QED BY <2>2, <2>3
<1>10. CASE rx_timeout_completed BY <1>10 DEF rx_timeout_completed, jd_rx_completed, set_tick_timer, tim_set_timer
<1>11. CASE rx_timeout_enable BY <1>11 DEF rx_timeout_enable, target_disable_irq, target_enable_irq
<1>12. CASE StartTxNoPin BY <1>12 DEF StartTxNoPin, jd_tx_completed, set_tick_timer, tim_set_timer
<1>13. CASE StartTxDisableExti
  <2>1. NewRxInv' BY <1>13 DEF StartTxDisableExti, PioIrq
  <2> QED BY <1>13, <2>1 DEF StartTxDisableExti, exti_set
<1>14. CASE StartTxCheck BY <1>14 DEF StartTxCheck
<1>15. CASE StartTxOwn BY <1>15 DEF StartTxOwn
<1>16. CASE StartTxProbeHigh BY <1>16 DEF StartTxProbeHigh
<1>17. CASE StartTxProbeLow BY <1>17 DEF StartTxProbeLow, target_disable_irq, target_enable_irq
<1>18. CASE StartTxCollide
  <2>1. /\ tpc = "collide" /\ tpc' = "collided" /\ isr = "none" /\ jd_line_falling(dma)
        /\ UNCHANGED <<jacdac_pin, f, isr, mask>>
    BY <1>18 DEF StartTxCollide
  <2>2. jacdac_pin = "PIN" /\ dma[dmachRx].handler = NULL /\ dma[dmachTx].handler = NULL BY <2>1
  <2> QED BY <2>1, <2>2, LineFallingSafe
<1>19. CASE StartTxCollided BY <1>19 DEF StartTxCollided, target_disable_irq, target_enable_irq
<1>20. CASE StartTxArm BY <1>20 DEF StartTxArm
<1>21. CASE StartTxSetCb BY <1>21 DEF StartTxSetCb, SlotFree, dma_set_ch_cb
<1>22. CASE StartTxDma BY <1>22 DEF StartTxDma, StartChannel
<1>23. CASE StartTxDone BY <1>23 DEF StartTxDone, set_tick_timer, tim_set_timer
<1>24. CASE FlushFailed BY <1>24 DEF FlushFailed, set_tick_timer, tim_set_timer
<1>25. CASE FlushRetry BY <1>25 DEF FlushRetry
<1> QED BY <1>1, <1>2, <1>3, <1>4, <1>5, <1>6, <1>7, <1>8, <1>9, <1>10, <1>11, <1>12, <1>13,
     <1>14, <1>15, <1>16, <1>17, <1>18, <1>19, <1>20, <1>21, <1>22, <1>23, <1>24, <1>25
     DEF tim_handler, uart_start_tx

\* The main loop, the devices and the chip preserve SafeInv.
LEMMA OtherSafe ==
  ASSUME TypeOK, SafeInv, jd_packet_ready \/ (\E c \in Others : ClientStart(c)) \/ Devices \/ Chip
  PROVE  SafeInv'
<1> USE TypedState, UartChannels
        DEF SafeInv, IrqInv, IrqBalanced, IrqOff, DmaInv, Owner, NoPinInv, RxInv, NewRxInv,
            TxInv, TxOwned, Sending, TxSetup, TimInv, ExtiMatchesStatus, Slot, uartVars, jdVars
<1>1. CASE jd_packet_ready BY <1>1 DEF jd_packet_ready, MainMayRun, tim_set_timer
<1>2. CASE BusStart BY <1>2 DEF BusStart, LowPulse, RxEndPossible
<1>3. CASE BusRelease BY <1>3 DEF BusRelease
<1>4. CASE BusData BY <1>4 DEF BusData
<1>5. CASE BusBreak BY <1>5 DEF BusBreak, LowPulse, RxEndPossible
<1>6. CASE BusDies BY <1>6 DEF BusDies
<1>7. CASE RxBufferFull BY <1>7 DEF RxBufferFull, FinishChannel, RxEndPossible
<1>8. CASE TxDmaDone BY <1>8 DEF TxDmaDone, FinishChannel
<1>9. CASE TxDrain BY <1>9 DEF TxDrain
<1>10. CASE TxStall BY <1>10 DEF TxStall
<1>11. CASE AlarmFires BY <1>11 DEF AlarmFires
<1>12. ASSUME NEW c \in Others, ClientStart(c) PROVE SafeInv'
  <2> DEFINE d == dma_set_ch_cb(dma, c, "client")
  <2>1. /\ c \in Channel /\ c \notin {dmachRx, dmachTx} /\ dma \in DmaType /\ "client" \in Handlers
    BY DEF Others, DmaType, Handlers
  <2>2. /\ dma' = StartChannel(d, c) /\ mask = {} /\ tpc = "idle"
        /\ UNCHANGED <<jacdac_pin, uart_status, exti, sm, brk, timer, irq, jd_status, tpc, f, isr, mask, fault>>
    BY <1>12 DEF ClientStart, MainMayRun, TimMayRun
  <2>3. /\ d \in DmaType /\ d[c].handler = "client" /\ d[c].inte /\ ~d[c].intr
        /\ \A e \in Channel \ {c} : d[e] = dma[e]
    <3>1. d \in DmaType BY <2>1, DmaTypes
    <3>2. d[c].handler = "client" /\ d[c].inte /\ ~d[c].intr BY <2>1, SetCbEffect
    <3>3. \A e \in Channel \ {c} : d[e] = dma[e] BY <2>1, SetCbEffect
    <3> QED BY <3>1, <3>2, <3>3
  <2> HIDE DEF d
  <2>4. \A e \in Channel : /\ dma'[e].handler = d[e].handler /\ dma'[e].inte = d[e].inte
                           /\ dma'[e].intr = d[e].intr /\ (dma'[e].busy <=> d[e].busy \/ e = c)
    BY <2>1, <2>2, <2>3, StartEffect
  <2>5. DmaInv' BY <2>1, <2>2, <2>3, <2>4
  <2>6. RxInv' /\ NewRxInv' BY <2>1, <2>2, <2>3, <2>4
  <2>7. TxInv' BY <2>1, <2>2, <2>3, <2>4
  <2>8. IrqInv' /\ NoPinInv' /\ TimInv' /\ ExtiMatchesStatus' BY <2>2
  <2> QED BY <2>2, <2>5, <2>6, <2>7, <2>8
<1>13. ASSUME NEW c \in Others, ClientDone(c) PROVE SafeInv'
  BY <1>13 DEF ClientDone, FinishChannel, Others
<1> QED BY <1>1, <1>2, <1>3, <1>4, <1>5, <1>6, <1>7, <1>8, <1>9, <1>10, <1>11, <1>12, <1>13
     DEF Devices, Chip

\* IInv is an invariant of the driver for every set of DMA channels.
THEOREM Invariance == Spec => []IInv
<1>1. Init => IInv BY InitTypes, InitSafe DEF IInv
<1>2. IInv /\ [Next]_vars => IInv'
  <2> SUFFICES ASSUME IInv, [Next]_vars PROVE IInv' OBVIOUS
  <2>1. CASE Next BY <2>1, IsrTypes, TimTypes, OtherTypes, IsrSafe, TimSafe, OtherSafe DEF Next, IInv
  <2>2. CASE UNCHANGED vars
    <3>1. TypeOK' BY <2>2 DEF IInv, vars, TypeOK, DriverTypeOK, LayerTypeOK, ControlTypeOK
    <3>2. SafeInv'
      BY <2>2 DEF IInv, vars, SafeInv, IrqInv, IrqBalanced, DmaInv, NoPinInv, RxInv, NewRxInv, TxInv,
                  TxOwned, TimInv, ExtiMatchesStatus
    <3> QED BY <3>1, <3>2 DEF IInv
  <2> QED BY <2>1, <2>2
<1> QED BY <1>1, <1>2, PTL DEF Spec

\* The assertion of dma_set_ch_cb (dma.c:63) never fails: the interrupt of an
\* aborted channel is always served before the next reception or transmission.
THEOREM DmaSlots == Spec => []DmaSlotFree
<1>1. IInv => DmaSlotFree BY DEF IInv, SafeInv, DmaSlotFree
<1> QED BY <1>1, Invariance, PTL

\* Receptions and transmissions never overlap and no reception is completed
\* that was not started (uart.c:107-113, 310, 338).
THEOREM Exclusive == Spec => []ActivitiesExclusive
<1>1. IInv => ActivitiesExclusive BY DEF IInv, SafeInv, ActivitiesExclusive
<1> QED BY <1>1, Invariance, PTL

\* No completion is lost: a frame in progress always has its DMA interrupt, and
\* the handler for it, still to come (dma.c:36-51, uart.c:107-140).
THEOREM Completion == Spec => []CompletionPending
<1>1. IInv => CompletionPending
  BY UartChannels DEF IInv, SafeInv, IrqInv, DmaInv, RxInv, TxInv, TxOwned, Sending, TxSetup, CompletionPending, WillComplete
<1> QED BY <1>1, Invariance, PTL

\* The driver and the layer above agree, EXTI is on exactly when idle, and
\* interrupts are off exactly in the critical sections of tim_handler's callees.
THEOREM Agreement == Spec => []Consistent
<1>1. IInv => Consistent
  BY DEF IInv, SafeInv, IrqInv, RxInv, TxInv, LayersAgree, Consistent
<1> QED BY <1>1, Invariance, PTL

-----------------------------------------------------------------------------
(* The pin, the transmitter and the line. *)

\* The pin is driven, and the transmitter on, only in a transmission, the
\* latter from the end of the start pulse; while tx_handler waits, a stall flag
\* is of this frame.
LineInv ==
  /\ BusDrivenOnlyInTx
  /\ sm.tx => uart_status = "TX" /\ tpc \notin {"probe", "collide", "arm"}
  /\ isr = "txwait" /\ sm.stall => ~sm.fifo

\* uart_disable takes the core off the line and stops the transmitter.
LEMMA DisableLine ==
  ASSUME TypeOK, jacdac_pin # "NO_PIN", NEW d, NEW b, uart_disable(d, b)
  PROVE  ~Driving' /\ ~sm'.tx /\ sm'.fifo = sm.fifo /\ sm'.stall = sm.stall
<1>1. pin \in PinType /\ sm \in SmType BY DEF TypeOK, DriverTypeOK
<1>2. ~Driving' BY <1>1 DEF uart_disable, Driving, PinType
<1>3. ~sm'.tx /\ sm'.fifo = sm.fifo /\ sm'.stall = sm.stall BY <1>1 DEF uart_disable, SmType
<1> QED BY <1>2, <1>3

\* jd_line_falling leaves the line to the other device.
LEMMA FallingLine ==
  ASSUME TypeOK, jacdac_pin # "NO_PIN", ~sm.tx, jd_line_falling(dma)
  PROVE  ~Driving' /\ ~sm'.tx
<1>1. pin \in PinType /\ sm \in SmType BY DEF TypeOK, DriverTypeOK
<1>2. CASE uart_start_rx(dma)
  <2>1. ~Driving' BY <1>1, <1>2 DEF uart_start_rx, jd_rx_arm_pin, Driving, PinType
  <2>2. ~sm'.tx BY <1>1, <1>2 DEF uart_start_rx, SmType
  <2> QED BY <2>1, <2>2
<1>3. CASE uart_disable(dma, brk) BY <1>3, DisableLine
<1> QED BY <1>2, <1>3 DEF jd_line_falling

\* What a step may do to the transmitter: it is switched off with its channel
\* done and its queue sent, or not at all.
TxWhole == sm.tx /\ ~sm'.tx => ~sm.fifo /\ ~dma[dmachTx].busy

\* The handlers of priority 0 preserve LineInv and cut no transmission short.
LEMMA IsrLine == ASSUME TypeOK, SafeInv, LineInv, Isr0 PROVE LineInv' /\ TxWhole
<1> USE TypedState, UartChannels DEF uartVars, jdVars, TxWhole
<1>0. /\ Driving => uart_status = "TX"
      /\ sm.tx => uart_status = "TX" /\ tpc \notin {"probe", "collide", "arm"}
      /\ isr = "txwait" /\ sm.stall => ~sm.fifo
  BY DEF LineInv, BusDrivenOnlyInTx
<1>1. ASSUME NEW d, NEW b, rx_done(d, b), UNCHANGED <<jacdac_pin, tpc, isr>>, isr # "txwait"
      PROVE  LineInv' /\ TxWhole
  <2>1. CASE uart_status = "RX"
    <3>1. jacdac_pin # "NO_PIN" BY <2>1 DEF SafeInv, NoPinInv
    <3>2. ~Driving' /\ ~sm'.tx BY <1>1, <2>1, <3>1, DisableLine DEF rx_done
    <3> QED BY <1>0, <1>1, <2>1, <3>2 DEF LineInv, BusDrivenOnlyInTx
  <2>2. CASE uart_status # "RX"
    BY <1>0, <1>1, <2>2 DEF rx_done, LineInv, BusDrivenOnlyInTx, Driving
  <2> QED BY <2>1, <2>2
<1>2. CASE isr_pio0_0
  <2>1. isr # "txwait" /\ UNCHANGED <<jacdac_pin, tpc, isr>> BY <1>2 DEF isr_pio0_0, IsrMayStart
  <2>2. CASE brk.flag
    <3>1. rx_done(dma, [brk EXCEPT !.flag = FALSE, !.pend = FALSE]) BY <1>2, <2>2 DEF isr_pio0_0
    <3> QED BY <1>1, <2>1, <3>1
  <2>3. CASE ~brk.flag
    BY <1>0, <1>2, <2>3 DEF isr_pio0_0, LineInv, BusDrivenOnlyInTx, Driving
  <2> QED BY <2>2, <2>3
<1>3. CASE isr_io_bank0
  <2>1. /\ exti.en /\ jd_line_falling(dma) /\ isr = "none" /\ UNCHANGED <<tpc, isr>>
    BY <1>3 DEF isr_io_bank0, IsrMayStart, ServeExti, ExtiIrq
  <2>2. jacdac_pin # "NO_PIN" /\ uart_status = "IDLE"
    BY <2>1 DEF SafeInv, NoPinInv, ExtiMatchesStatus
  <2>3. ~Driving' /\ ~sm'.tx BY <1>0, <2>1, <2>2, FallingLine
  <2> QED BY <1>0, <2>1, <2>2, <2>3 DEF LineInv, BusDrivenOnlyInTx
<1>4. CASE IsrDmaEnter
  BY <1>0, <1>4 DEF IsrDmaEnter, IsrMayStart, LineInv, BusDrivenOnlyInTx, Driving
<1>5. CASE IsrDmaRx
  <2>1. PICK c \in mask : Dispatch(c, "rx_handler") /\ rx_done(Retire(dma, c), brk)
    BY <1>5 DEF IsrDmaRx
  <2> QED BY <1>1, <1>5, <2>1 DEF IsrDmaRx, Dispatch
<1>6. CASE IsrDmaClient
  BY <1>0, <1>6 DEF IsrDmaClient, LineInv, BusDrivenOnlyInTx, Driving
<1>7. CASE IsrDmaTx
  BY <1>0, <1>7 DEF IsrDmaTx, LineInv, BusDrivenOnlyInTx, Driving
<1>8. CASE tx_handler_stalled
  <2>1. isr = "txwait" /\ sm.stall /\ isr' = "dma" /\ uart_disable(dma, brk)
    BY <1>8 DEF tx_handler_stalled
  <2>2. uart_status = "TX" /\ jacdac_pin # "NO_PIN" /\ dma[dmachTx].handler = NULL
    BY <2>1 DEF SafeInv, TxInv, TxOwned, NoPinInv
  <2>3. ~Driving' /\ ~sm'.tx BY <2>1, <2>2, DisableLine
  <2>4. ~dma[dmachTx].busy BY <2>2 DEF SafeInv, DmaInv
  <2> QED BY <1>0, <2>1, <2>3, <2>4 DEF LineInv, BusDrivenOnlyInTx
<1>9. CASE IsrDmaExit
  BY <1>0, <1>9 DEF IsrDmaExit, LineInv, BusDrivenOnlyInTx, Driving
<1> QED BY <1>2, <1>3, <1>4, <1>5, <1>6, <1>7, <1>8, <1>9 DEF Isr0

\* The steps of tim_handler do.
LEMMA TimLine == ASSUME TypeOK, SafeInv, LineInv, tim_handler PROVE LineInv' /\ TxWhole
<1> USE TypedState, UartChannels DEF uartVars, jdVars, TxWhole, At, TimMayRun
<1>0. /\ Driving => uart_status = "TX"
      /\ sm.tx => uart_status = "TX" /\ tpc \notin {"probe", "collide", "arm"}
      /\ isr = "txwait" /\ sm.stall => ~sm.fifo
      /\ pin \in PinType
  BY DEF LineInv, BusDrivenOnlyInTx, TypeOK, DriverTypeOK
<1>1. ASSUME UNCHANGED <<uart_status, pin, sm, isr>>, tpc' \notin {"probe", "collide", "arm"}
      PROVE  LineInv' /\ TxWhole
  BY <1>0, <1>1 DEF LineInv, BusDrivenOnlyInTx, Driving
<1>2. CASE TimEnter \/ TimCheck \/ TimClear \/ tick
  BY <1>1, <1>2 DEF TimEnter, TimCheck, TimClear, tick
<1>3. CASE flush_tx_queue \/ setup_rx_timeout \/ setup_rx_timeout_set \/ rx_timeout
  BY <1>1, <1>3 DEF flush_tx_queue, setup_rx_timeout, setup_rx_timeout_set, rx_timeout
<1>4. CASE rx_timeout_completed \/ rx_timeout_enable \/ StartTxNoPin \/ StartTxDisableExti
  BY <1>1, <1>4 DEF rx_timeout_completed, rx_timeout_enable, StartTxNoPin, StartTxDisableExti
<1>5. CASE StartTxCheck \/ StartTxCollided \/ StartTxSetCb \/ StartTxDma
  BY <1>1, <1>5 DEF StartTxCheck, StartTxCollided, StartTxSetCb, StartTxDma
<1>6. CASE FlushFailed \/ FlushRetry
  BY <1>1, <1>6 DEF FlushFailed, FlushRetry
<1>7. CASE rx_timeout_disable
  <2>1. tpc = "rxto" /\ tpc' = "rxtodone" /\ isr = "none" /\ isr' = isr /\ uart_disable(dma, brk)
    BY <1>7 DEF rx_timeout_disable
  <2>2. uart_status # "TX" BY <2>1 DEF SafeInv, TimInv
  <2>3. CASE jacdac_pin = "NO_PIN" BY <1>1, <2>1, <2>3 DEF uart_disable
  <2>4. CASE jacdac_pin # "NO_PIN"
    BY <1>0, <2>1, <2>2, <2>4, DisableLine DEF LineInv, BusDrivenOnlyInTx
  <2> QED BY <2>3, <2>4
<1>8. CASE StartTxOwn
  <2>1. uart_status = "IDLE" BY <1>8 DEF StartTxOwn, SafeInv, TxInv
  <2> QED BY <1>0, <1>8, <2>1 DEF StartTxOwn, LineInv, BusDrivenOnlyInTx, Driving
<1>9. CASE StartTxProbeHigh \/ StartTxProbeLow
  <2>1. uart_status = "TX" BY <1>9 DEF StartTxProbeHigh, StartTxProbeLow, SafeInv, TxInv, TxSetup
  <2> QED BY <1>0, <1>9, <2>1 DEF StartTxProbeHigh, StartTxProbeLow, LineInv, BusDrivenOnlyInTx
<1>10. CASE StartTxCollide
  <2>1. /\ tpc = "collide" /\ tpc' = "collided" /\ isr = "none" /\ isr' = isr
        /\ jd_line_falling(dma)
    BY <1>10 DEF StartTxCollide
  <2>2. jacdac_pin # "NO_PIN" BY <2>1 DEF SafeInv, NoPinInv, Sending, TxSetup
  <2>3. ~Driving' /\ ~sm'.tx BY <1>0, <2>1, <2>2, FallingLine
  <2> QED BY <1>0, <2>1, <2>3 DEF LineInv, BusDrivenOnlyInTx
<1>11. CASE StartTxArm
  <2>1. uart_status = "TX" BY <1>11 DEF StartTxArm, SafeInv, TxInv, TxSetup
  <2> QED BY <1>0, <1>11, <2>1 DEF StartTxArm, LineInv, BusDrivenOnlyInTx
<1>12. CASE StartTxDone
  BY <1>0, <1>12 DEF StartTxDone, LineInv, BusDrivenOnlyInTx, Driving
<1> QED BY <1>2, <1>3, <1>4, <1>5, <1>6, <1>7, <1>8, <1>9, <1>10, <1>11, <1>12
     DEF tim_handler, uart_start_tx

\* The main loop, the devices and the chip do.
LEMMA OtherLine ==
  ASSUME TypeOK, SafeInv, LineInv,
         jd_packet_ready \/ (\E c \in Others : ClientStart(c)) \/ Devices \/ Chip
  PROVE  LineInv' /\ TxWhole
<1> USE TypedState, UartChannels DEF uartVars, jdVars, TxWhole
<1>0. /\ Driving => uart_status = "TX"
      /\ sm.tx => uart_status = "TX" /\ tpc \notin {"probe", "collide", "arm"}
      /\ isr = "txwait" /\ sm.stall => ~sm.fifo
  BY DEF LineInv, BusDrivenOnlyInTx
<1>1. ASSUME UNCHANGED <<uart_status, pin, sm, isr, tpc>> PROVE LineInv' /\ TxWhole
  BY <1>0, <1>1 DEF LineInv, BusDrivenOnlyInTx, Driving
<1>2. CASE jd_packet_ready \/ (\E c \in Others : ClientStart(c))
  BY <1>1, <1>2 DEF jd_packet_ready, ClientStart
<1>3. CASE Devices
  BY <1>1, <1>3 DEF Devices, BusStart, BusRelease, BusData, BusBreak, BusDies
<1>4. CASE RxBufferFull \/ AlarmFires \/ \E c \in Others : ClientDone(c)
  BY <1>1, <1>4 DEF RxBufferFull, AlarmFires, ClientDone
<1>5. CASE TxDmaDone
  <2>1. isr # "txwait" BY <1>5 DEF TxDmaDone, SafeInv, DmaInv, TxInv
  <2> QED BY <1>0, <1>5, <2>1 DEF TxDmaDone, LineInv, BusDrivenOnlyInTx, Driving
<1>6. CASE TxDrain \/ TxStall
  BY <1>0, <1>6 DEF TxDrain, TxStall, LineInv, BusDrivenOnlyInTx, Driving
<1> QED BY <1>2, <1>3, <1>4, <1>5, <1>6 DEF Chip

\* LineInv is inductive relative to IInv, and every step leaves a transmission whole.
LEMMA LineStep == ASSUME IInv, LineInv, [Next]_vars PROVE LineInv' /\ [TxWhole]_vars
<1>1. CASE Next BY <1>1, IsrLine, TimLine, OtherLine DEF Next, IInv
<1>2. CASE UNCHANGED vars BY <1>2 DEF vars, LineInv, BusDrivenOnlyInTx, Driving
<1> QED BY <1>1, <1>2

\* LineInv holds in every state of the driver, for every set of DMA channels.
THEOREM LineInvariance == Spec => []LineInv
<1>1. Init => LineInv BY DEF Init, LineInv, BusDrivenOnlyInTx, Driving
<1> QED BY <1>1, LineStep, Invariance, PTL DEF Spec

\* The pin is driven, through SIO or PIO, only by a transmission: a receiver
\* never holds the line it listens to (uart.c:175-189, 271-286).
THEOREM DrivenOnlyInTx == Spec => []BusDrivenOnlyInTx
<1>1. LineInv => BusDrivenOnlyInTx BY DEF LineInv
<1> QED BY <1>1, LineInvariance, PTL

\* No transmission is cut short: neither a reception, nor a timeout, nor a
\* collision switches off a transmitter that has something to send
\* (uart.c:115-140, 271-286).
THEOREM WholeFrames == Spec => NoTruncation
<1>1. [TxWhole]_vars => [sm.tx /\ ~sm'.tx => ~sm.fifo /\ ~dma[dmachTx].busy]_vars
  BY DEF TxWhole
<1> QED BY <1>1, LineStep, LineInvariance, Invariance, PTL DEF Spec, NoTruncation

-----------------------------------------------------------------------------
(* The driver implements HalfDuplex. *)

\* What HalfDuplex takes for the activities that are open.
Open == {a \in {"RX", "TX"} : (a = "RX" /\ "RX_ACTIVE" \in jd_status)
                              \/ (a = "TX" /\ "TX_ACTIVE" \in jd_status)}

HStep == [H!Next]_(H!vars)

\* A step of HalfDuplex, told from what happens to the status and to the two
\* activities of jacdac-c.
LEMMA HalfDuplexStep ==
  ASSUME \/ UNCHANGED <<uart_status, Open>>
         \/ "TX" \notin Open /\ Open' = Open \cup {"TX"} /\ UNCHANGED uart_status
         \/ uart_status = "IDLE" /\ "TX" \in Open /\ uart_status' = "TX" /\ UNCHANGED Open
         \/ /\ "TX" \in Open /\ Open' = Open \ {"TX"}
            /\ uart_status' = IF uart_status = "TX" THEN "IDLE" ELSE uart_status
         \/ uart_status = "TX" /\ "TX" \in Open /\ uart_status' = "IDLE" /\ UNCHANGED Open
         \/ /\ uart_status = "IDLE" \/ (uart_status = "TX" /\ "TX" \in Open)
            /\ "RX" \notin Open /\ uart_status' = "RX" /\ Open' = Open \cup {"RX"}
         \/ uart_status = "RX" /\ uart_status' = "IDLE" /\ Open' = Open \ {"RX"}
         \/ uart_status = "RX" /\ uart_status' = "IDLE" /\ UNCHANGED Open
         \/ /\ uart_status = "IDLE" /\ "RX" \in Open /\ Open' = Open \ {"RX"}
            /\ UNCHANGED uart_status
  PROVE  HStep
  BY DEF HStep, Open, H!Next, H!vars, H!AskToSend, H!Transmit, H!EndSend, H!Abandon, H!Receive,
         H!EndReceive, H!StopReceive, H!TellStopped

\* set_tick_timer closes what it is told to close and opens nothing.
LEMMA TickOpen ==
  ASSUME NEW clear, set_tick_timer(clear)
  PROVE  /\ clear = {} => Open' = Open
         /\ clear = {"RX_ACTIVE"} => Open' = Open \ {"RX"}
         /\ clear = {"TX_ACTIVE"} => Open' = Open \ {"TX"}
<1>1. /\ "RX_ACTIVE" \in jd_status' <=> "RX_ACTIVE" \in jd_status \ clear
      /\ "TX_ACTIVE" \in jd_status' <=> "TX_ACTIVE" \in jd_status \ clear
  BY TickEffect
<1> QED BY <1>1 DEF Open

\* jd_line_falling with no reception open and nothing in the receive slot:
\* receive, or leave the line.
LEMMA FallingStep ==
  ASSUME TypeOK, SafeInv, jd_line_falling(dma), jacdac_pin # "NO_PIN",
         "RX" \notin Open, uart_status = "IDLE" \/ (uart_status = "TX" /\ "TX" \in Open)
  PROVE  HStep
<1>1. CASE uart_start_rx(dma) /\ jd_status' = jd_status \cup {"RX_ACTIVE"}
  <2>1. uart_status' = "RX" BY <1>1 DEF uart_start_rx
  <2>2. Open' = Open \cup {"RX"} BY <1>1 DEF Open
  <2> QED BY <2>1, <2>2, HalfDuplexStep
<1>2. CASE uart_disable(dma, brk) /\ jd_rx_completed
  <2>1. uart_status' = "IDLE" BY <1>2 DEF uart_disable
  <2>2. Open' = Open \ {"RX"} BY <1>2, TickOpen DEF jd_rx_completed
  <2> QED BY <2>1, <2>2, HalfDuplexStep
<1> QED BY <1>1, <1>2 DEF jd_line_falling

\* Every handler of priority 0 is a step of HalfDuplex.
LEMMA IsrImplements == ASSUME TypeOK, SafeInv, Isr0 PROVE HStep
<1> USE TypedState DEF uartVars, jdVars
<1>1. ASSUME NEW d, NEW b, rx_done(d, b) PROVE HStep
  <2>1. CASE uart_status = "RX"
    <3>1. jacdac_pin # "NO_PIN" BY <2>1 DEF SafeInv, NoPinInv
    <3>2. uart_status' = "IDLE" BY <1>1, <2>1, <3>1 DEF rx_done, uart_disable
    <3>3. Open' = Open \ {"RX"} BY <1>1, <2>1, TickOpen DEF rx_done, jd_rx_completed
    <3> QED BY <2>1, <3>2, <3>3, HalfDuplexStep
  <2>2. CASE uart_status # "RX"
    <3>1. UNCHANGED <<uart_status, jd_status>> BY <1>1, <2>2 DEF rx_done
    <3> QED BY <3>1, HalfDuplexStep DEF Open
  <2> QED BY <2>1, <2>2
<1>2. ASSUME UNCHANGED <<uart_status, jd_status>> PROVE HStep
  BY <1>2, HalfDuplexStep DEF Open
<1>3. CASE isr_pio0_0
  <2>1. CASE brk.flag BY <1>1, <1>3, <2>1 DEF isr_pio0_0
  <2>2. CASE ~brk.flag BY <1>2, <1>3, <2>2 DEF isr_pio0_0
  <2> QED BY <2>1, <2>2
<1>4. CASE isr_io_bank0
  <2>1. exti.en /\ jd_line_falling(dma) BY <1>4 DEF isr_io_bank0, ServeExti, ExtiIrq
  <2>2. jacdac_pin # "NO_PIN" /\ uart_status = "IDLE" /\ tpc # "rxtodone"
    BY <1>4, <2>1 DEF SafeInv, NoPinInv, ExtiMatchesStatus, isr_io_bank0, IsrMayStart, IrqInv,
                      IrqBalanced, IrqOff
  <2>3. "RX" \notin Open BY <2>2 DEF SafeInv, RxInv, Open
  <2> QED BY <2>1, <2>2, <2>3, FallingStep
<1>5. CASE IsrDmaRx BY <1>1, <1>5 DEF IsrDmaRx
<1>6. CASE IsrDmaEnter \/ IsrDmaClient \/ IsrDmaTx \/ IsrDmaExit
  BY <1>2, <1>6 DEF IsrDmaEnter, IsrDmaClient, IsrDmaTx, IsrDmaExit
<1>7. CASE tx_handler_stalled
  <2>1. uart_status = "TX" /\ "TX" \in Open /\ jacdac_pin # "NO_PIN"
    BY <1>7 DEF tx_handler_stalled, SafeInv, TxInv, TxOwned, NoPinInv, Open
  <2>2. uart_status' = "IDLE" BY <1>7, <2>1 DEF tx_handler_stalled, uart_disable
  <2>3. Open' = Open \ {"TX"} BY <1>7, TickOpen DEF tx_handler_stalled, jd_tx_completed
  <2> QED BY <2>1, <2>2, <2>3, HalfDuplexStep
<1> QED BY <1>3, <1>4, <1>5, <1>6, <1>7 DEF Isr0

\* Every step of tim_handler is one.
LEMMA TimImplements == ASSUME TypeOK, SafeInv, tim_handler PROVE HStep
<1> USE TypedState DEF uartVars, jdVars, At
<1>1. ASSUME UNCHANGED <<uart_status, jd_status>> PROVE HStep
  BY <1>1, HalfDuplexStep DEF Open
<1>2. CASE TimEnter \/ TimCheck \/ TimClear \/ setup_rx_timeout \/ setup_rx_timeout_set
  BY <1>1, <1>2 DEF TimEnter, TimCheck, TimClear, setup_rx_timeout, setup_rx_timeout_set
<1>3. CASE rx_timeout \/ rx_timeout_enable \/ StartTxDisableExti \/ StartTxCheck
  BY <1>1, <1>3 DEF rx_timeout, rx_timeout_enable, StartTxDisableExti, StartTxCheck
<1>4. CASE StartTxProbeHigh \/ StartTxProbeLow \/ StartTxCollided \/ StartTxArm
  BY <1>1, <1>4 DEF StartTxProbeHigh, StartTxProbeLow, StartTxCollided, StartTxArm
<1>5. CASE StartTxSetCb \/ StartTxDma \/ FlushRetry
  BY <1>1, <1>5 DEF StartTxSetCb, StartTxDma, FlushRetry
<1>6. CASE tick \/ StartTxDone
  BY <1>6, TickOpen, HalfDuplexStep DEF tick, StartTxDone
<1>7. CASE flush_tx_queue
  <2>1. CASE {"RX_ACTIVE", "TX_ACTIVE"} \cap jd_status # {}
    BY <1>1, <1>7, <2>1 DEF flush_tx_queue
  <2>2. CASE {"RX_ACTIVE", "TX_ACTIVE"} \cap jd_status = {}
    <3>1. "TX" \notin Open /\ Open' = Open \cup {"TX"}
      BY <1>7, <2>2 DEF flush_tx_queue, Open
    <3> QED BY <1>7, <3>1, HalfDuplexStep DEF flush_tx_queue
  <2> QED BY <2>1, <2>2
<1>8. CASE StartTxNoPin
  <2>1. "TX" \in Open /\ uart_status # "TX"
    BY <1>8 DEF StartTxNoPin, SafeInv, TxInv, NoPinInv, Sending, Open
  <2>2. Open' = Open \ {"TX"} BY <1>8, TickOpen DEF StartTxNoPin, jd_tx_completed
  <2> QED BY <1>8, <2>1, <2>2, HalfDuplexStep DEF StartTxNoPin
<1>9. CASE StartTxOwn
  <2>1. uart_status = "IDLE" /\ "TX" \in Open
    BY <1>9 DEF StartTxOwn, SafeInv, TxInv, Sending, Open
  <2>2. Open' = Open BY <1>9 DEF StartTxOwn, Open
  <2> QED BY <1>9, <2>1, <2>2, HalfDuplexStep DEF StartTxOwn
<1>10. CASE StartTxCollide
  <2>1. uart_status = "TX" /\ jacdac_pin # "NO_PIN" /\ "TX" \in Open /\ "RX" \notin Open
    BY <1>10 DEF StartTxCollide, SafeInv, TxInv, RxInv, NoPinInv, Sending, TxSetup, Open
  <2> QED BY <1>10, <2>1, FallingStep DEF StartTxCollide
<1>11. CASE FlushFailed
  <2>1. "TX" \in Open /\ uart_status # "TX"
    BY <1>11 DEF FlushFailed, SafeInv, TxInv, Sending, TxSetup, Open
  <2>2. Open' = Open \ {"TX"} BY <1>11, TickOpen DEF FlushFailed
  <2> QED BY <1>11, <2>1, <2>2, HalfDuplexStep DEF FlushFailed
<1>12. CASE rx_timeout_disable
  <2>1. uart_status # "TX" BY <1>12 DEF rx_timeout_disable, SafeInv, TimInv
  <2>2. Open' = Open BY <1>12 DEF rx_timeout_disable, Open
  <2>3. uart_status' \in {uart_status, "IDLE"} BY <1>12 DEF rx_timeout_disable, uart_disable
  <2> QED BY <2>1, <2>2, <2>3, HalfDuplexStep
<1>13. CASE rx_timeout_completed
  <2>1. uart_status = "IDLE" BY <1>13 DEF rx_timeout_completed, SafeInv, TimInv
  <2>2. Open' = Open \ {"RX"} BY <1>13, TickOpen DEF rx_timeout_completed, jd_rx_completed
  <2>3. uart_status' = uart_status BY <1>13 DEF rx_timeout_completed
  <2> QED BY <2>1, <2>2, <2>3, HalfDuplexStep
<1> QED BY <1>2, <1>3, <1>4, <1>5, <1>6, <1>7, <1>8, <1>9, <1>10, <1>11, <1>12, <1>13
     DEF tim_handler, uart_start_tx

\* No other step has a part in it.
LEMMA OtherImplements ==
  ASSUME jd_packet_ready \/ (\E c \in Others : ClientStart(c)) \/ Devices \/ Chip
  PROVE  HStep
<1> USE DEF uartVars, jdVars
<1>1. ASSUME UNCHANGED <<uart_status, jd_status>> PROVE HStep
  BY <1>1, HalfDuplexStep DEF Open
<1>2. CASE jd_packet_ready
  <2>1. Open' = Open BY <1>2 DEF jd_packet_ready, Open
  <2> QED BY <1>2, <2>1, HalfDuplexStep DEF jd_packet_ready
<1>3. CASE \E c \in Others : ClientStart(c) BY <1>1, <1>3 DEF ClientStart
<1>4. CASE Devices BY <1>1, <1>4 DEF Devices, BusStart, BusRelease, BusData, BusBreak, BusDies
<1>5. CASE Chip
  BY <1>1, <1>5 DEF Chip, RxBufferFull, TxDmaDone, TxDrain, TxStall, AlarmFires, ClientDone
<1> QED BY <1>2, <1>3, <1>4, <1>5

\* The driver with the layer above it implements the half-duplex line: every
\* step of every handler, wherever it falls, opens, closes or moves at most one
\* activity, and the line never has two (uart.c:107-140, 271-348).
THEOREM Implements == Spec => IsHalfDuplex
<1>1. Init => H!Init BY DEF Init, H!Init
<1>2. IInv /\ [Next]_vars => [H!Next]_(H!vars)
  <2> SUFFICES ASSUME IInv, [Next]_vars PROVE HStep BY DEF HStep
  <2>1. CASE Next BY <2>1, IsrImplements, TimImplements, OtherImplements DEF Next, IInv
  <2>2. CASE UNCHANGED vars BY <2>2, HalfDuplexStep DEF vars, Open
  <2> QED BY <2>1, <2>2
<1> QED BY <1>1, <1>2, Invariance, PTL DEF Spec, IsHalfDuplex, H!Spec
====

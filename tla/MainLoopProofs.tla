--------------------------- MODULE MainLoopProofs ---------------------------
(***************************************************************************)
(* Proofs about MainLoop for any set of DMA channels, of callbacks, of     *)
(* pins and of mixes of transfers, and any bounds on what may wait.        *)
(***************************************************************************)
EXTENDS MainLoop, FiniteSetTheorems, TLAPS

-----------------------------------------------------------------------------
(* The inductive invariant. *)

SpiChannel == {dma_tx, dma_rx}

\* The handler a channel may have.
Owner(c) == IF c \in SpiChannel THEN "spi_dma_cb" ELSE "tx_handler"

\* A channel interrupts exactly while it has a handler, and when it does so it
\* has stopped.
DmaInv == \A c \in Channel :
  /\ dma[c].handler \in {NULL, Owner(c)}
  /\ dma[c].handler # NULL => c \in {dma_tx, dma_rx, dmachTx}
  /\ dma[c].inte <=> dma[c].handler # NULL

\* The four places of a callback, and that they exclude each other.
InArg  == pc = "xfer_cb"
InDma  == \E c \in SpiChannel : dma[c].handler # NULL
InDone == spi_done_cb # NULL
InLoop == pc \in {"spi_free", "spi_call"}

AtMostOne ==
  /\ InArg  => ~InDma /\ ~InDone /\ ~InLoop
  /\ InDma  => ~InDone /\ ~InLoop
  /\ InDone => ~InLoop
  /\ ~(dma[dma_tx].handler # NULL /\ dma[dma_rx].handler # NULL)

\* Where a callback is, it is the one that is owed.
CbInv ==
  /\ AtMostOne
  /\ owed # NULL <=> InArg \/ InDma \/ InDone \/ InLoop
  /\ InArg => xfer.fn = owed
  /\ InDma => context = owed
  /\ InDone => spi_done_cb = owed
  /\ InLoop \/ pc = "spi_clear" => f = owed
  /\ pc = "spi_clear" => InDone
  /\ spi_in_use <=> owed # NULL /\ pc # "spi_call"

XferInv ==
  /\ xfer # NoXfer <=> pc \in {"xfer_cb", "xfer_start"}
  /\ pc = "xfer_start" => InDma \/ InDone

\* The log's channel runs and has its handler only between the two ends of a
\* write.
LogInv ==
  /\ dma[dmachTx].busy => dma[dmachTx].handler # NULL
  /\ dma[dmachTx].handler # NULL => in_tx
  /\ dma[dmachTx].intr /\ dma[dmachTx].inte => ~dma[dmachTx].busy
  /\ pc = "log_start" => in_tx /\ dma[dmachTx].handler = NULL
  /\ pc # "log_init" => logCh # "unset"

\* What came after the loop looked for it has set the event register.
Unseen == event \/ spi_done_cb = NULL
SleepInv ==
  /\ pc \in {"in_cb", "log"} \/ (pc \in {"xfer_cb", "xfer_start"} /\ xfer.ret = "in_cb") => Unseen
  /\ pc = "has_frame" => (event \/ dmesg = 0) /\ Unseen /\ ~in_tx
  /\ pc = "wfe" => (event \/ (dmesg = 0 /\ frames = 0)) /\ Unseen /\ ~in_tx
  /\ pc = "asleep" => dmesg = 0 /\ frames = 0 /\ spi_done_cb = NULL /\ ~in_tx

\* The receive channel runs only with its handler, which jd_spi_xfer sets first.
RxInv ==
  /\ dma[dma_rx].busy => dma[dma_rx].handler # NULL
  /\ dma[dma_rx].intr /\ dma[dma_rx].inte => ~dma[dma_rx].busy
  /\ pc = "xfer_start" => /\ ~dma[dma_rx].busy /\ (dma[dma_rx].inte => ~dma[dma_rx].intr)
                          /\ xfer.kind # "tx" <=> dma[dma_rx].handler # NULL

\* A transfer that began in quiet: until it is started nothing moves; then every
\* byte received was sent for it, so that the receive channel outlasts the other.
ByteInv == clean =>
  /\ pc \in {"xfer_cb", "xfer_start"} =>
       ~dma[dma_tx].busy /\ (xfer.kind = "tx" \/ (spi = spi_default /\ rxq = 0))
  /\ pc = "xfer_start" /\ xfer.kind = "tx" => dma[dma_tx].handler # NULL /\ ~dma[dma_tx].intr
  /\ dma[dma_tx].intr /\ dma[dma_tx].inte => ~dma[dma_tx].busy
  /\ dma[dma_rx].handler # NULL /\ dma[dma_tx].busy =>
       dma[dma_rx].busy /\ spi = spi_default /\ rxq = 0
  /\ InDone \/ InLoop \/ pc = "spi_clear" => ~dma[dma_tx].busy

SafeInv == /\ fault = "none" /\ DmaInv /\ CbInv /\ XferInv /\ LogInv /\ SleepInv /\ RxInv /\ ByteInv

IInv == TypeOK /\ SafeInv

-----------------------------------------------------------------------------
USE DEF NULL

DmaType == [Channel -> Slot(Handlers)]

\* The operators on the DMA state keep its type.
LEMMA DmaTypes ==
  ASSUME NEW d \in DmaType, NEW c, NEW h \in Handlers
  PROVE  /\ StartChannel(d, c) \in DmaType
         /\ FinishChannel(d, c) \in DmaType
         /\ dma_set_ch_cb(d, c, h) \in DmaType
<1>1. StartChannel(d, c) \in DmaType BY DEF StartChannel, DmaType, Slot
<1>2. FinishChannel(d, c) \in DmaType BY DEF FinishChannel, DmaType, Slot
<1>3. dma_set_ch_cb(d, c, h) \in DmaType BY DEF dma_set_ch_cb, DmaType, Slot
<1> QED BY <1>1, <1>2, <1>3

\* Registering a handler, starting a channel and its end, field by field.
LEMMA SetCbEffect ==
  ASSUME NEW d \in DmaType, NEW c \in Channel, NEW h \in Handlers, NEW e \in Channel
  PROVE  /\ dma_set_ch_cb(d, c, h)[c].handler = h
         /\ dma_set_ch_cb(d, c, h)[c].inte
         /\ ~dma_set_ch_cb(d, c, h)[c].intr
         /\ dma_set_ch_cb(d, c, h)[c].busy = d[c].busy
         /\ e # c => dma_set_ch_cb(d, c, h)[e] = d[e]
  BY DEF dma_set_ch_cb, DmaType, Slot

LEMMA StartEffect ==
  ASSUME NEW d \in DmaType, NEW c \in Channel, NEW e \in Channel
  PROVE  /\ StartChannel(d, c)[e].handler = d[e].handler
         /\ StartChannel(d, c)[e].inte = d[e].inte
         /\ StartChannel(d, c)[e].intr = d[e].intr
         /\ StartChannel(d, c)[e].busy <=> d[e].busy \/ e = c
  BY DEF StartChannel, DmaType, Slot

LEMMA FinishEffect ==
  ASSUME NEW d \in DmaType, NEW c \in Channel, NEW e \in Channel
  PROVE  /\ FinishChannel(d, c)[e].handler = d[e].handler
         /\ FinishChannel(d, c)[e].inte = d[e].inte
         /\ FinishChannel(d, c)[e].intr <=> d[e].intr \/ e = c
         /\ FinishChannel(d, c)[e].busy <=> d[e].busy /\ e # c
  BY DEF FinishChannel, DmaType, Slot

\* isr_dma_0 takes out the handlers of the channels that interrupt, and calls
\* spi_dma_cb or tx_handler as those channels are the driver's or the log's.
LEMMA IsrEffect ==
  ASSUME dma \in DmaType, DmaInv, isr_dma_0
  PROVE  LET m == ints0(dma)
         IN  /\ dma' \in DmaType
             /\ \A c \in Channel :
                  /\ dma'[c].busy = dma[c].busy
                  /\ c \in m => dma'[c].handler = NULL /\ ~dma'[c].inte /\ ~dma'[c].intr
                  /\ c \notin m => dma'[c] = dma[c]
             /\ spi_done_cb' = IF \E c \in SpiChannel : c \in m THEN context ELSE spi_done_cb
             /\ fault' = IF (\E c \in SpiChannel : c \in m) /\ spi_done_cb # NULL
                         THEN "spi_done_cb" ELSE fault
             /\ in_tx' = (in_tx /\ dmachTx \notin m)
<1> DEFINE m == ints0(dma)
           called == {dma[c].handler : c \in m}
           acked == WriteInts0(dma, m)
<1>1. m \subseteq Channel BY DEF ints0
<1>2. dma' = [c \in Channel |-> IF c \in m THEN Retire(acked, c)[c] ELSE acked[c]]
  BY DEF isr_dma_0
<1>3. ASSUME NEW c \in Channel
      PROVE  /\ dma'[c].busy = dma[c].busy /\ dma'[c] \in Slot(Handlers)
             /\ c \in m => dma'[c].handler = NULL /\ ~dma'[c].inte /\ ~dma'[c].intr
             /\ c \notin m => dma'[c] = dma[c]
  <2>1. acked \in DmaType /\ acked[c] = [dma[c] EXCEPT !.intr = @ /\ c \notin m]
    BY DEF WriteInts0, DmaType, Slot
  <2>2. CASE c \in m
    <3>1. dma'[c] = [acked[c] EXCEPT !.inte = FALSE, !.handler = NULL]
      BY <1>2, <2>1, <2>2 DEF Retire, DmaType
    <3>2. acked[c] \in Slot(Handlers) /\ acked[c].busy = dma[c].busy /\ ~acked[c].intr
      BY <2>1, <2>2 DEF DmaType, Slot
    <3> HIDE DEF acked
    <3> QED BY <2>2, <3>1, <3>2 DEF Slot
  <2>3. CASE c \notin m
    <3>1. dma'[c] = [dma[c] EXCEPT !.intr = @ /\ c \notin m] BY <1>2, <2>1, <2>3
    <3>2. dma[c].intr \in BOOLEAN BY DEF DmaType, Slot
    <3> QED BY <2>3, <3>1, <3>2 DEF DmaType, Slot
  <2> QED BY <2>2, <2>3
<1>4. dma' \in DmaType BY <1>2, <1>3 DEF DmaType
<1>5. \A c \in m : dma[c].handler = Owner(c) /\ c \in {dma_tx, dma_rx, dmachTx}
  BY <1>1 DEF DmaInv, ints0
<1>6. "spi_dma_cb" \in called <=> \E c \in SpiChannel : c \in m
  BY <1>5, MainChannels DEF Owner, SpiChannel
<1>7. "tx_handler" \in called <=> dmachTx \in m
  BY <1>5, MainChannels DEF Owner, SpiChannel
<1>8. /\ spi_done_cb' = IF "spi_dma_cb" \in called THEN context ELSE spi_done_cb
      /\ fault' = IF "spi_dma_cb" \in called /\ spi_done_cb # NULL THEN "spi_done_cb" ELSE fault
      /\ in_tx' = (in_tx /\ "tx_handler" \notin called)
  BY DEF isr_dma_0
<1> HIDE DEF m, called, acked
<1> QED BY <1>3, <1>4, <1>6, <1>7, <1>8 DEF m

-----------------------------------------------------------------------------
(* IInv is inductive. *)

\* The types, as the steps below use them.
LEMMA TypedState ==
  ASSUME TypeOK
  PROVE  /\ spi \in Controllers \cup {NULL} /\ clean \in BOOLEAN /\ spi_in_use \in BOOLEAN /\ in_tx \in BOOLEAN /\ event \in BOOLEAN
         /\ spi_done_cb \in DoneFn \cup {NULL} /\ context \in DoneFn \cup {NULL}
         /\ f \in DoneFn \cup {NULL} /\ owed \in DoneFn \cup {NULL} /\ rxq \in 0 .. 2
         /\ dma \in DmaType /\ pc \in Points /\ kinds \in Mixes
         /\ dmesg \in 0 .. MaxLog /\ frames \in 0 .. MaxFrames
         /\ logCh \in {"unset", "off", "on"} /\ prev_tx_pin \in LogPins \cup {NO_PIN}
         /\ xfer \in [kind: kinds, fn: DoneFn, ret: {"process", "in_cb"}] \cup {NoXfer}
         /\ fault \in {"none", "spi_done_cb", "dma_slot", "wrong_cb"}
  BY DEF TypeOK, DmaType, RxDepth

\* The steps of the application and of the loop keep the types.
LEMMA LoopTypes ==
  ASSUME TypeOK, XferInv, App \/ Loop, UNCHANGED kinds
  PROVE  TypeOK'
<1> USE TypedState, MainInputs DEF At, spiVars, logVars, cpuVars, Points, RxDepth
<1>1. CASE jd_spi_init BY <1>1 DEF jd_spi_init, TypeOK, DmaType
<1>2. CASE AppLog BY <1>2 DEF AppLog, TypeOK, DmaType
<1>3. ASSUME NEW p \in {"process", "in_cb"}, NEW k \in kinds, NEW fn \in DoneFn, jd_spi_xfer(p, k, fn)
      PROVE  TypeOK'
  <2>1. clean' \in BOOLEAN BY <1>3, Zenon DEF jd_spi_xfer, Quiet
  <2> QED BY <1>3, <2>1 DEF jd_spi_xfer, TypeOK, DmaType
<1>4. CASE MainLogInit BY <1>4 DEF MainLogInit, uart_log_init, TypeOK, DmaType
<1>5. CASE uart_log_sync_pin BY <1>5 DEF uart_log_sync_pin, uart_log_init, TypeOK, DmaType
<1>6. CASE Process BY <1>6 DEF Process, TypeOK, DmaType
<1>7. CASE XferSetCb
  <2>1. dma' \in DmaType BY <1>7, DmaTypes DEF XferSetCb, Handlers
  <2> QED BY <1>7, <2>1 DEF XferSetCb, XferInv, NoXfer, TypeOK, DmaType
<1>8. CASE XferStart
  <2>1. dma' \in DmaType BY <1>8, DmaTypes DEF XferStart, Handlers
  <2> QED BY <1>8, <2>1 DEF XferStart, XferInv, TypeOK, DmaType
<1>9. CASE SpiRead BY <1>9 DEF SpiRead, TypeOK, DmaType
<1>10. CASE SpiClear BY <1>10 DEF SpiClear, TypeOK, DmaType
<1>11. CASE SpiFree BY <1>11 DEF SpiFree, TypeOK, DmaType
<1>12. CASE SpiCall BY <1>12 DEF SpiCall, TypeOK, DmaType
<1>13. CASE SpiCallReturns BY <1>13 DEF SpiCallReturns, TypeOK, DmaType
<1>14. CASE dmesg_to_stdout BY <1>14 DEF dmesg_to_stdout, TypeOK, DmaType
<1>15. CASE LogStart
  <2>1. dma' \in DmaType BY <1>15, DmaTypes DEF LogStart, Handlers
  <2> QED BY <1>15, <2>1 DEF LogStart, TypeOK, DmaType
<1>16. CASE HasFrame BY <1>16 DEF HasFrame, TypeOK, DmaType
<1>17. CASE Wfe BY <1>17 DEF Wfe, TypeOK, DmaType
<1> QED BY <1>1, <1>2, <1>3, <1>4, <1>5, <1>6, <1>7, <1>8, <1>9, <1>10, <1>11, <1>12, <1>13,
     <1>14, <1>15, <1>16, <1>17 DEF App, Loop

\* Interrupts and the hardware keep the types.
LEMMA IsrTypes ==
  ASSUME TypeOK, DmaInv, isr_dma_0 \/ OtherIsr \/ SpiTxDone \/ SpiRxDone \/ LogDone,
         UNCHANGED kinds
  PROVE  TypeOK'
<1> USE TypedState, MainInputs DEF Interrupt, spiVars, logVars, cpuVars, Points, RxDepth
<1>1. CASE isr_dma_0
  <2>1. /\ dma' \in DmaType /\ spi_done_cb' \in {context, spi_done_cb}
        /\ fault' \in {"spi_done_cb", fault} /\ in_tx' \in BOOLEAN
    BY <1>1, IsrEffect
  <2> QED BY <1>1, <2>1 DEF isr_dma_0, TypeOK, DmaType
<1>2. CASE OtherIsr BY <1>2 DEF OtherIsr, TypeOK, DmaType
<1>3. CASE SpiTxDone
  <2>1. dma' \in DmaType BY <1>3, DmaTypes DEF SpiTxDone, Handlers
  <2> QED BY <1>3, <2>1 DEF SpiTxDone, TypeOK, DmaType
<1>4. CASE SpiRxDone
  <2>1. dma' \in DmaType BY <1>4, DmaTypes DEF SpiRxDone, Handlers
  <2> QED BY <1>4, <2>1 DEF SpiRxDone, TypeOK, DmaType
<1>5. CASE LogDone
  <2>1. dma' \in DmaType BY <1>5, DmaTypes DEF LogDone, Handlers
  <2> QED BY <1>5, <2>1 DEF LogDone, TypeOK, DmaType
<1> QED BY <1>1, <1>2, <1>3, <1>4, <1>5

\* The application and the loop, where they leave the DMA controller alone.
LEMMA LoopSafe ==
  ASSUME TypeOK, SafeInv, UNCHANGED kinds,
         \/ App \/ MainLogInit \/ uart_log_sync_pin \/ Process
         \/ SpiRead \/ SpiClear \/ SpiFree \/ SpiCall \/ SpiCallReturns
         \/ dmesg_to_stdout \/ HasFrame \/ Wfe
  PROVE  SafeInv'
<1> USE TypedState, MainInputs, MainChannels
        DEF At, spiVars, logVars, cpuVars, SafeInv, CbInv, AtMostOne, InArg, InDma,
            InDone, InLoop, SpiChannel, XferInv, LogInv, SleepInv, Unseen, RxInv, ByteInv, DmaInv
<1>1. CASE jd_spi_init BY <1>1 DEF jd_spi_init
<1>2. CASE AppLog BY <1>2 DEF AppLog
<1>3. ASSUME NEW p \in {"process", "in_cb"}, NEW k \in kinds, NEW fn \in DoneFn, jd_spi_xfer(p, k, fn)
      PROVE  SafeInv'
  BY <1>3 DEF jd_spi_xfer, jd_spi_is_ready, NoXfer, Quiet
<1>4. CASE MainLogInit BY <1>4 DEF MainLogInit, uart_log_init
<1>5. CASE uart_log_sync_pin BY <1>5 DEF uart_log_sync_pin, uart_log_init
<1>6. CASE Process BY <1>6 DEF Process
<1>9. CASE SpiRead BY <1>9 DEF SpiRead
<1>10. CASE SpiClear BY <1>10 DEF SpiClear
<1>11. CASE SpiFree BY <1>11 DEF SpiFree
<1>12. CASE SpiCall BY <1>12 DEF SpiCall
<1>13. CASE SpiCallReturns BY <1>13 DEF SpiCallReturns
<1>14. CASE dmesg_to_stdout
  <2>1. /\ pc = "log" /\ UNCHANGED <<spiVars, dma, logCh, frames, f, xfer, event, fault>>
        /\ in_tx' = (in_tx \/ (dmesg > 0 /\ logCh = "on"))
        /\ dmesg' = IF in_tx \/ dmesg = 0 THEN dmesg ELSE dmesg - 1
    BY <1>14 DEF dmesg_to_stdout
  <2>2. \/ pc' = "process" /\ (in_tx => in_tx')
        \/ pc' = "has_frame" /\ ~in_tx' /\ dmesg' = 0 /\ ~in_tx
        \/ pc' = "log_start" /\ in_tx' /\ ~in_tx
    <3>1. logCh \in {"on", "off"} BY <2>1
    <3> HIDE DEF SafeInv
    <3>2. CASE in_tx BY <1>14, <3>2 DEF dmesg_to_stdout
    <3>3. CASE ~in_tx /\ dmesg = 0 BY <1>14, <3>3 DEF dmesg_to_stdout
    <3>4. CASE ~in_tx /\ dmesg > 0 /\ logCh = "off" BY <1>14, <3>4 DEF dmesg_to_stdout
    <3>5. CASE ~in_tx /\ dmesg > 0 /\ logCh = "on"
      <4>1. pc' = "log_start"
        <5>1. dmesg # 0 /\ logCh # "off" BY <3>5
        <5> QED BY <1>14, <3>5, <5>1, Zenon DEF dmesg_to_stdout
      <4>2. in_tx' BY <2>1, <3>5, Zenon
      <4> QED BY <3>5, <4>1, <4>2
    <3> QED BY <3>1, <3>2, <3>3, <3>4, <3>5
  <2> HIDE DEF SafeInv
  <2>3. CbInv' /\ DmaInv' /\ XferInv' BY <2>1, <2>2 DEF SafeInv
  <2>4. LogInv' BY <2>1, <2>2 DEF SafeInv
  <2>5. SleepInv' BY <2>1, <2>2 DEF SafeInv
  <2>6. RxInv' /\ ByteInv' BY <2>1, <2>2 DEF SafeInv
  <2> QED BY <2>1, <2>3, <2>4, <2>5, <2>6 DEF SafeInv
<1>16. CASE HasFrame BY <1>16 DEF HasFrame
<1>17. CASE Wfe BY <1>17 DEF Wfe
<1> QED BY <1>1, <1>2, <1>3, <1>4, <1>5, <1>6, <1>9, <1>10, <1>11, <1>12, <1>13,
     <1>14, <1>16, <1>17 DEF App

\* The steps of jd_spi_xfer and uart_log_write that set the controller up.
LEMMA StartSafe ==
  ASSUME TypeOK, SafeInv, UNCHANGED kinds, XferSetCb \/ XferStart \/ LogStart
  PROVE  SafeInv'
<1> USE TypedState, MainInputs, MainChannels
        DEF At, spiVars, logVars, cpuVars
<1>1. CASE XferSetCb
  <2> DEFINE c == LastChannel
  <2>1. c \in SpiChannel /\ c \in Channel BY DEF LastChannel, SpiChannel
  <2>2. /\ dma' = dma_set_ch_cb(dma, c, "spi_dma_cb") /\ "spi_dma_cb" \in Handlers
    BY <1>1 DEF XferSetCb, Handlers
  <2>3. /\ dma'[c].handler = "spi_dma_cb" /\ dma'[c].inte /\ ~dma'[c].intr
        /\ dma'[c].busy = dma[c].busy /\ \A e \in Channel \ {c} : dma'[e] = dma[e]
    BY <2>1, <2>2, SetCbEffect
  <2> HIDE DEF c
  <2>4. \A e \in SpiChannel : dma[e].handler = NULL
    BY <1>1 DEF XferSetCb, SafeInv, CbInv, AtMostOne, InArg, InDma
  <2>5. fault' = "none" BY <1>1, <2>1, <2>4 DEF XferSetCb, SlotFree, SafeInv, c
  <2>6. DmaInv' BY <2>1, <2>3 DEF SafeInv, DmaInv, Owner, SpiChannel
  <2>7. CbInv'
    BY <1>1, <2>1, <2>3, <2>4 DEF XferSetCb, SafeInv, CbInv, AtMostOne, InArg, InDma, InDone,
       InLoop, SpiChannel, XferInv
  <2>8. XferInv' BY <1>1, <2>1, <2>3 DEF XferSetCb, SafeInv, XferInv, InDma
  <2>9. LogInv' BY <1>1, <2>1, <2>3 DEF XferSetCb, SafeInv, LogInv, SpiChannel
  <2>10. SleepInv' BY <1>1 DEF XferSetCb, SafeInv, SleepInv, Unseen
  <2>11. /\ pc = "xfer_cb" /\ pc' = "xfer_start" /\ xfer' = xfer
         /\ UNCHANGED <<spi, rxq, clean, spi_done_cb>>
         /\ c = IF xfer.kind = "tx" THEN dma_tx ELSE dma_rx
    BY <1>1 DEF XferSetCb, c, LastChannel
  <2>12. ~dma[dma_rx].busy BY <2>4 DEF SafeInv, RxInv, SpiChannel
  <2>13. RxInv'
    <3>1. CASE xfer.kind = "tx"
      <4>1. dma'[dma_rx] = dma[dma_rx] /\ dma[dma_rx].handler = NULL /\ ~dma[dma_rx].inte
        BY <2>3, <2>4, <2>11, <3>1 DEF SafeInv, DmaInv, SpiChannel
      <4> QED BY <2>11, <2>12, <3>1, <4>1 DEF RxInv
    <3>2. CASE xfer.kind # "tx" BY <2>3, <2>4, <2>11, <2>12, <3>2 DEF RxInv, SpiChannel
    <3> QED BY <3>1, <3>2
  <2>14. ByteInv'
    <3> SUFFICES ASSUME clean PROVE ByteInv' BY <2>11 DEF ByteInv
    <3>1. ~dma[dma_tx].busy /\ (xfer.kind = "tx" \/ (spi = spi_default /\ rxq = 0))
      BY <2>11 DEF SafeInv, ByteInv
    <3>2. ~dma'[dma_tx].busy BY <2>3, <3>1
    <3>3. xfer.kind = "tx" => dma'[dma_tx].handler # NULL /\ ~dma'[dma_tx].intr BY <2>3, <2>11
    <3> QED BY <2>11, <3>1, <3>2, <3>3 DEF ByteInv
  <2> QED BY <2>5, <2>6, <2>7, <2>8, <2>9, <2>10, <2>13, <2>14 DEF SafeInv
<1>2. CASE XferStart
  <2> DEFINE tx == IF xfer.kind = "rx" THEN dma ELSE StartChannel(dma, dma_tx)
  <2>1. dma' = IF xfer.kind = "tx" THEN tx ELSE StartChannel(tx, dma_rx) BY <1>2 DEF XferStart
  <2>2. tx \in DmaType BY DmaTypes DEF Handlers
  <2>3. \A e \in Channel : /\ tx[e].handler = dma[e].handler /\ tx[e].inte = dma[e].inte
                           /\ tx[e].intr = dma[e].intr
                           /\ tx[e].busy <=> dma[e].busy \/ (e = dma_tx /\ xfer.kind # "rx")
    <3>1. CASE xfer.kind = "rx" BY <3>1
    <3>2. CASE xfer.kind # "rx" BY <3>2, StartEffect
    <3> QED BY <3>1, <3>2
  <2> HIDE DEF tx
  <2>4. \A e \in Channel : /\ dma'[e].handler = dma[e].handler /\ dma'[e].inte = dma[e].inte
                           /\ dma'[e].intr = dma[e].intr
                           /\ dma'[e].busy <=> \/ dma[e].busy
                                               \/ e = dma_tx /\ xfer.kind # "rx"
                                               \/ e = dma_rx /\ xfer.kind # "tx"
    <3>1. CASE xfer.kind = "tx" BY <2>1, <2>3, <3>1
    <3>2. CASE xfer.kind # "tx" BY <2>1, <2>2, <2>3, <3>2, StartEffect
    <3> QED BY <3>1, <3>2
  <2>5. fault' = "none" /\ UNCHANGED spiVars BY <1>2 DEF XferStart, SafeInv
  <2>6. DmaInv' BY <2>4 DEF SafeInv, DmaInv
  <2>7. CbInv'
    BY <1>2, <2>4 DEF XferStart, SafeInv, CbInv, AtMostOne, InArg, InDma, InDone, InLoop, SpiChannel,
       XferInv
  <2>8. XferInv' BY <1>2 DEF XferStart, SafeInv, XferInv, NoXfer
  <2>9. LogInv' BY <1>2, <2>4 DEF XferStart, SafeInv, LogInv, XferInv
  <2>10. SleepInv' BY <1>2 DEF XferStart, SafeInv, SleepInv, Unseen, XferInv
  <2>11. /\ pc = "xfer_start" /\ pc' \in {"process", "in_cb"}
         /\ UNCHANGED <<spi, rxq, clean, spi_done_cb>>
    BY <1>2 DEF XferStart, SafeInv, XferInv
  <2>12. RxInv' BY <2>4, <2>11 DEF SafeInv, RxInv, DmaInv
  <2>13. ByteInv'
    <3> SUFFICES ASSUME clean PROVE ByteInv' BY <2>11 DEF ByteInv
    <3>1. /\ ~dma[dma_tx].busy /\ (xfer.kind = "tx" \/ (spi = spi_default /\ rxq = 0))
          /\ xfer.kind = "tx" => dma[dma_tx].handler # NULL /\ ~dma[dma_tx].intr
      BY <2>11 DEF SafeInv, ByteInv
    <3>2. xfer.kind # "tx" <=> dma[dma_rx].handler # NULL BY <2>11 DEF SafeInv, RxInv
    <3>3. ~InDone
      BY <2>11, <3>1, <3>2 DEF SafeInv, CbInv, AtMostOne, InDma, InDone, SpiChannel
    <3>4. CASE xfer.kind = "tx"
      BY <2>4, <2>11, <3>1, <3>2, <3>3, <3>4 DEF ByteInv, InDone, InLoop
    <3>5. CASE xfer.kind # "tx"
      <4>1. ~dma[dma_tx].inte BY <3>2, <3>5 DEF SafeInv, CbInv, AtMostOne, DmaInv
      <4>2. dma'[dma_rx].busy /\ ~dma'[dma_tx].inte BY <2>4, <3>5, <4>1
      <4> QED BY <2>11, <3>1, <3>3, <3>5, <4>2 DEF ByteInv, InDone, InLoop
    <3> QED BY <3>4, <3>5
  <2> QED BY <2>5, <2>6, <2>7, <2>8, <2>9, <2>10, <2>12, <2>13 DEF SafeInv
<1>3. CASE LogStart
  <2> DEFINE d == dma_set_ch_cb(dma, dmachTx, "tx_handler")
  <2>1. dma' = StartChannel(d, dmachTx) BY <1>3 DEF LogStart
  <2>2. d \in DmaType /\ "tx_handler" \in Handlers BY DmaTypes DEF Handlers
  <2>3. /\ d[dmachTx].handler = "tx_handler" /\ d[dmachTx].inte /\ ~d[dmachTx].intr
        /\ \A e \in Channel \ {dmachTx} : d[e] = dma[e]
    BY <2>2, SetCbEffect
  <2> HIDE DEF d
  <2>4. \A e \in Channel : /\ dma'[e].handler = d[e].handler /\ dma'[e].inte = d[e].inte
                           /\ dma'[e].intr = d[e].intr
                           /\ dma'[e].busy <=> d[e].busy \/ e = dmachTx
    BY <2>1, <2>2, StartEffect
  <2>5. fault' = "none" /\ UNCHANGED spiVars /\ UNCHANGED <<in_tx, logCh, dmesg, frames, f, xfer, event>>
        /\ pc = "log_start" /\ pc' = "process"
    BY <1>3 DEF LogStart, SafeInv, LogInv, SlotFree
  <2>6. DmaInv' BY <2>3, <2>4 DEF SafeInv, DmaInv, Owner, SpiChannel
  <2>7. CbInv'
    BY <2>3, <2>4, <2>5 DEF SafeInv, CbInv, AtMostOne, InArg, InDma, InDone, InLoop, SpiChannel
  <2>8. XferInv' BY <2>5 DEF SafeInv, XferInv
  <2>9. LogInv' BY <2>3, <2>4, <2>5 DEF SafeInv, LogInv
  <2>10. SleepInv' BY <2>5 DEF SafeInv, SleepInv, Unseen
  <2>11. RxInv' /\ ByteInv' BY <2>3, <2>4, <2>5 DEF SafeInv, RxInv, ByteInv, InDone, InLoop
  <2> QED BY <2>5, <2>6, <2>7, <2>8, <2>9, <2>10, <2>11 DEF SafeInv
<1> QED BY <1>1, <1>2, <1>3

\* Interrupts and the hardware.
LEMMA IsrSafe ==
  ASSUME TypeOK, SafeInv, UNCHANGED kinds,
         isr_dma_0 \/ OtherIsr \/ SpiTxDone \/ SpiRxDone \/ LogDone
  PROVE  SafeInv'
<1> USE TypedState, MainInputs, MainChannels DEF Interrupt, spiVars, logVars, cpuVars, RxDepth
<1>1. CASE isr_dma_0
  <2> DEFINE m == ints0(dma)
  <2>0. DmaInv BY DEF SafeInv
  <2>1. /\ \A c \in Channel :
             /\ dma'[c].busy = dma[c].busy
             /\ c \in m => dma'[c].handler = NULL /\ ~dma'[c].inte /\ ~dma'[c].intr
             /\ c \notin m => dma'[c] = dma[c]
        /\ spi_done_cb' = IF \E c \in SpiChannel : c \in m THEN context ELSE spi_done_cb
        /\ fault' = IF (\E c \in SpiChannel : c \in m) /\ spi_done_cb # NULL
                    THEN "spi_done_cb" ELSE fault
        /\ in_tx' = (in_tx /\ dmachTx \notin m)
    BY <1>1, <2>0, IsrEffect
  <2>2. \A c \in Channel : c \in m <=> dma[c].intr /\ dma[c].inte BY DEF ints0
  <2> HIDE DEF m
  <2>3. /\ event' = TRUE /\ pc' = IF pc = "asleep" THEN "process" ELSE pc
        /\ UNCHANGED <<f, xfer, spi, spi_in_use, rxq, context, owed, clean, logCh, dmesg, frames>>
    BY <1>1 DEF isr_dma_0
  <2>4. ASSUME NEW c \in SpiChannel, c \in m PROVE spi_done_cb = NULL
    BY <2>2, <2>4, <2>0 DEF SafeInv, CbInv, AtMostOne, InDma, InDone, SpiChannel, DmaInv
  <2>5. fault' = "none" BY <2>1, <2>4 DEF SafeInv
  <2>6. DmaInv' BY <2>1 DEF SafeInv, DmaInv
  <2>7. CbInv'
    <3>1. CASE \E c \in SpiChannel : c \in m
      <4>1. PICK c \in SpiChannel : c \in m BY <3>1
      <4>2. dma[c].handler # NULL BY <2>0, <2>2, <4>1 DEF DmaInv, SpiChannel
      <4>3. /\ InDma /\ context = owed /\ owed # NULL /\ ~InArg /\ ~InLoop /\ ~InDone
            /\ pc # "spi_clear"
        BY <4>1, <4>2 DEF SafeInv, CbInv, AtMostOne, InDma
      <4>4. \A e \in SpiChannel : dma'[e].handler = NULL
        BY <2>1, <4>1, <4>2 DEF SafeInv, CbInv, AtMostOne, SpiChannel
      <4>5. spi_done_cb' = owed BY <2>1, <3>1, <4>3
      <4> QED BY <2>3, <4>3, <4>4, <4>5
              DEF SafeInv, CbInv, AtMostOne, InDma, InDone, InArg, InLoop, SpiChannel
    <3>2. CASE ~\E c \in SpiChannel : c \in m
      <4>1. spi_done_cb' = spi_done_cb /\ \A e \in SpiChannel : dma'[e] = dma[e]
        BY <2>1, <3>2 DEF SpiChannel
      <4> QED BY <2>3, <4>1
              DEF SafeInv, CbInv, AtMostOne, InDma, InDone, InArg, InLoop, SpiChannel
    <3> QED BY <3>1, <3>2
  <2>8. XferInv' 
    <3>1. pc = "xfer_start" => InDma' \/ InDone'
      BY <2>3, <2>7 DEF SafeInv, CbInv, InDma, InArg, InLoop, InDone, XferInv
    <3> QED BY <2>3, <3>1 DEF SafeInv, XferInv
  <2>9. LogInv' BY <2>1, <2>2, <2>3 DEF SafeInv, LogInv, DmaInv
  <2>10. SleepInv' BY <2>1, <2>3 DEF SafeInv, SleepInv, Unseen
  <2>11. RxInv'
    <3>1. pc = "xfer_start" => dma_rx \notin m BY <2>2 DEF SafeInv, RxInv
    <3> QED BY <2>1, <2>2, <2>3, <3>1 DEF SafeInv, RxInv
  <2>12. ByteInv'
    <3> SUFFICES ASSUME clean PROVE ByteInv' BY <2>3 DEF ByteInv
    <3>1. \A c \in SpiChannel : c \in m => ~dma[dma_tx].busy
      BY <2>0, <2>2 DEF SafeInv, RxInv, ByteInv, DmaInv, SpiChannel
    <3>2. pc = "xfer_start" /\ xfer.kind = "tx" => dma_tx \notin m
      BY <2>2 DEF SafeInv, ByteInv
    <3>3. spi_done_cb' # NULL /\ spi_done_cb = NULL => ~dma[dma_tx].busy BY <2>1, <3>1
    <3>4. dma'[dma_tx].busy = dma[dma_tx].busy /\ dma'[dma_rx].busy = dma[dma_rx].busy BY <2>1
    <3>5. pc' = pc \/ (pc = "asleep" /\ pc' = "process") BY <2>3
    <3>6. InDone' \/ InLoop' \/ pc' = "spi_clear" => ~dma'[dma_tx].busy
      BY <3>3, <3>4, <3>5 DEF SafeInv, ByteInv, InDone, InLoop
    <3> QED BY <2>1, <2>3, <3>2, <3>4, <3>5, <3>6 DEF SafeInv, ByteInv
  <2> QED BY <2>5, <2>6, <2>7, <2>8, <2>9, <2>10, <2>11, <2>12 DEF SafeInv
<1>2. CASE OtherIsr
  BY <1>2 DEF OtherIsr, SafeInv, CbInv, AtMostOne, InArg, InDma, InDone, InLoop, SpiChannel,
              XferInv, LogInv, SleepInv, Unseen, RxInv, ByteInv, DmaInv
<1>3. ASSUME NEW c \in Channel, dma' = FinishChannel(dma, c), dma[c].busy,
             UNCHANGED <<spi_in_use, spi_done_cb, context, owed, logVars, dmesg, frames, cpuVars, fault>>
      PROVE  fault' = "none" /\ DmaInv' /\ CbInv' /\ XferInv' /\ LogInv' /\ SleepInv'
  <2>1. \A e \in Channel : /\ dma'[e].handler = dma[e].handler /\ dma'[e].inte = dma[e].inte
                           /\ dma'[e].intr <=> dma[e].intr \/ e = c
                           /\ dma'[e].busy <=> dma[e].busy /\ e # c
    BY <1>3, FinishEffect
  <2>2. fault' = "none" /\ DmaInv' BY <1>3, <2>1 DEF SafeInv, DmaInv
  <2>3. CbInv' BY <1>3, <2>1 DEF SafeInv, CbInv, AtMostOne, InArg, InDma, InDone, InLoop, SpiChannel
  <2>4. XferInv' BY <1>3, <2>1 DEF SafeInv, XferInv, InDma, InDone, SpiChannel
  <2>5. LogInv' BY <1>3, <2>1 DEF SafeInv, LogInv
  <2>6. SleepInv' BY <1>3 DEF SafeInv, SleepInv, Unseen
  <2> QED BY <2>2, <2>3, <2>4, <2>5, <2>6
<1>4. ASSUME NEW c \in Channel, dma' = FinishChannel(dma, c), dma[c].busy, UNCHANGED <<pc, xfer>>
      PROVE  /\ RxInv'
             /\ \A e \in Channel : /\ dma'[e].handler = dma[e].handler /\ dma'[e].inte = dma[e].inte
                                   /\ dma'[e].intr <=> dma[e].intr \/ e = c
                                   /\ dma'[e].busy <=> dma[e].busy /\ e # c
  <2>1. \A e \in Channel : /\ dma'[e].handler = dma[e].handler /\ dma'[e].inte = dma[e].inte
                           /\ dma'[e].intr <=> dma[e].intr \/ e = c
                           /\ dma'[e].busy <=> dma[e].busy /\ e # c
    BY <1>4, FinishEffect
  <2>2. RxInv' BY <1>4, <2>1 DEF SafeInv, RxInv
  <2> QED BY <2>1, <2>2
<1>5. CASE SpiTxDone
  <2>1. /\ dma' = FinishChannel(dma, dma_tx) /\ dma[dma_tx].busy
        /\ UNCHANGED <<spi, clean, pc, xfer, spi_done_cb>>
    BY <1>5 DEF SpiTxDone
  <2>2. ByteInv'
    <3>1. ~dma'[dma_tx].busy BY <1>4, <2>1
    <3>2. clean => pc \notin {"xfer_cb", "xfer_start"} BY <2>1 DEF SafeInv, ByteInv
    <3> QED BY <2>1, <3>1, <3>2 DEF ByteInv
  <2> QED BY <1>3, <1>4, <1>5, <2>1, <2>2 DEF SpiTxDone, SafeInv
<1>6. CASE SpiRxDone
  <2>1. /\ dma' = FinishChannel(dma, dma_rx) /\ dma[dma_rx].busy
        /\ UNCHANGED <<spi, clean, pc, xfer, spi_done_cb>>
        /\ spi = spi_default => rxq > 0
    BY <1>6 DEF SpiRxDone
  <2>2. ByteInv'
    <3> SUFFICES ASSUME clean PROVE ByteInv' BY <2>1 DEF ByteInv
    <3>1. dma[dma_rx].handler # NULL /\ pc # "xfer_start" BY <2>1 DEF SafeInv, RxInv
    <3>2. pc # "xfer_cb" BY <3>1 DEF SafeInv, CbInv, AtMostOne, InArg, InDma, SpiChannel
    <3>3. ~dma[dma_tx].busy BY <2>1, <3>1 DEF SafeInv, ByteInv
    <3>4. ~dma'[dma_tx].busy BY <1>4, <2>1, <3>3
    <3> QED BY <2>1, <3>1, <3>2, <3>4 DEF ByteInv
  <2> QED BY <1>3, <1>4, <1>6, <2>1, <2>2 DEF SpiRxDone, SafeInv
<1>7. CASE LogDone
  <2>1. dma' = FinishChannel(dma, dmachTx) /\ dma[dmachTx].busy /\ UNCHANGED <<spiVars, pc, xfer>>
    BY <1>7 DEF LogDone
  <2>2. \A e \in SpiChannel : /\ dma'[e].handler = dma[e].handler /\ dma'[e].inte = dma[e].inte
                              /\ (dma'[e].intr <=> dma[e].intr) /\ (dma'[e].busy <=> dma[e].busy)
    BY <1>4, <2>1 DEF SpiChannel
  <2>3. ByteInv' BY <2>1, <2>2 DEF SafeInv, ByteInv, SpiChannel, InDone, InLoop
  <2> QED BY <1>3, <1>4, <1>7, <2>1, <2>3 DEF LogDone, SafeInv
<1> QED BY <1>1, <1>2, <1>5, <1>6, <1>7

\* A step that changes nothing.
LEMMA Frozen ==
  ASSUME IInv, UNCHANGED vars
  PROVE  IInv'
  BY DEF vars, spiVars, logVars, cpuVars, IInv, TypeOK, SafeInv, CbInv, AtMostOne, InArg, InDma,
     InDone, InLoop, SpiChannel, XferInv, LogInv, SleepInv, Unseen, RxInv, ByteInv, DmaInv

\* Every step keeps the invariant.
LEMMA IInvStep ==
  ASSUME IInv, [Next]_vars
  PROVE  IInv'
<1> USE DEF IInv
<1>1. CASE App \/ Loop
  <2>1. CASE UNCHANGED kinds
    <3>1. TypeOK' BY <1>1, <2>1, LoopTypes DEF SafeInv
    <3>2. SafeInv' BY <1>1, <2>1, LoopSafe, StartSafe DEF Loop
    <3> QED BY <3>1, <3>2
  <2>2. CASE UNCHANGED vars
    BY <2>2, Frozen
  <2> QED BY <2>1, <2>2 DEF Next
<1>2. CASE isr_dma_0 \/ OtherIsr \/ SpiTxDone \/ SpiRxDone \/ LogDone
  <2>1. CASE UNCHANGED kinds
    <3>1. TypeOK' BY <1>2, <2>1, IsrTypes DEF SafeInv
    <3>2. SafeInv' BY <1>2, <2>1, IsrSafe
    <3> QED BY <3>1, <3>2
  <2>2. CASE UNCHANGED vars BY <2>2, Frozen
  <2> QED BY <2>1, <2>2 DEF Next
<1>3. CASE UNCHANGED vars BY <1>3, Frozen
<1> QED BY <1>1, <1>2, <1>3 DEF Next, Step

\* The invariant holds when main starts: no channel has a handler, no
\* transfer is accepted.
LEMMA IInvInit ==
  ASSUME Init
  PROVE  IInv
<1>1. \A c \in Channel : dma[c] = [busy |-> FALSE, intr |-> FALSE, inte |-> FALSE, handler |-> NULL]
  BY DEF Init, DmaReset
<1>2. dma \in [Channel -> Slot(Handlers)] BY DEF Init, DmaReset, Slot
<1>3. TypeOK
  <2>1. {spi_in_use, in_tx, event, clean} \subseteq BOOLEAN /\ spi = NULL BY DEF Init
  <2>2. {spi_done_cb, context, f, owed} \subseteq DoneFn \cup {NULL} BY DEF Init
  <2>3. rxq \in 0 .. RxDepth /\ dmesg \in 0 .. MaxLog /\ frames \in 0 .. MaxFrames
    BY MainInputs DEF Init, RxDepth
  <2>4. pc \in Points /\ xfer = NoXfer /\ prev_tx_pin = NO_PIN /\ kinds \in Mixes /\ fault = "none"
        /\ logCh = "unset"
    BY DEF Init, Points
  <2> QED BY <1>2, <2>1, <2>2, <2>3, <2>4 DEF TypeOK
<1>4. SafeInv
  BY <1>1, MainChannels DEF Init, SafeInv, CbInv, AtMostOne, InArg, InDma, InDone, InLoop, SpiChannel,
     XferInv, LogInv, SleepInv, Unseen, RxInv, ByteInv, DmaInv
<1> QED BY <1>3, <1>4 DEF IInv

\* Of four places that exclude each other, one is taken or none.
LEMMA OnePlace ==
  ASSUME NEW a \in BOOLEAN, NEW b \in BOOLEAN, NEW d \in BOOLEAN, NEW e \in BOOLEAN,
         a => ~b /\ ~d /\ ~e, b => ~d /\ ~e, d => ~e
  PROVE  Cardinality({p \in {<<"arg", a>>, <<"dma", b>>, <<"done", d>>, <<"loop", e>>} : p[2]})
           = (IF a \/ b \/ d \/ e THEN 1 ELSE 0)
<1> DEFINE P == {p \in {<<"arg", a>>, <<"dma", b>>, <<"done", d>>, <<"loop", e>>} : p[2]}
<1>1. CASE a
  <2>1. a = TRUE /\ b = FALSE /\ d = FALSE /\ e = FALSE BY <1>1
  <2>2. <<"arg", a>> \in P BY <2>1
  <2>3. ASSUME NEW p \in P PROVE p = <<"arg", a>>
    <3>1. ~<<"dma", b>>[2] /\ ~<<"done", d>>[2] /\ ~<<"loop", e>>[2] BY <2>1
    <3> QED BY <3>1, Zenon
  <2>4. P = {<<"arg", a>>} BY <2>2, <2>3
  <2> QED BY <1>1, <2>4, FS_Singleton
<1>2. CASE b
  <2>1. b = TRUE /\ a = FALSE /\ d = FALSE /\ e = FALSE BY <1>2
  <2>2. <<"dma", b>> \in P BY <2>1
  <2>3. ASSUME NEW p \in P PROVE p = <<"dma", b>>
    <3>1. ~<<"arg", a>>[2] /\ ~<<"done", d>>[2] /\ ~<<"loop", e>>[2] BY <2>1
    <3> QED BY <3>1, Zenon
  <2>4. P = {<<"dma", b>>} BY <2>2, <2>3
  <2> QED BY <1>2, <2>4, FS_Singleton
<1>3. CASE d
  <2>1. d = TRUE /\ a = FALSE /\ b = FALSE /\ e = FALSE BY <1>3
  <2>2. <<"done", d>> \in P BY <2>1
  <2>3. ASSUME NEW p \in P PROVE p = <<"done", d>>
    <3>1. ~<<"arg", a>>[2] /\ ~<<"dma", b>>[2] /\ ~<<"loop", e>>[2] BY <2>1
    <3> QED BY <3>1, Zenon
  <2>4. P = {<<"done", d>>} BY <2>2, <2>3
  <2> QED BY <1>3, <2>4, FS_Singleton
<1>4. CASE e
  <2>1. e = TRUE /\ a = FALSE /\ b = FALSE /\ d = FALSE BY <1>4
  <2>2. <<"loop", e>> \in P BY <2>1
  <2>3. ASSUME NEW p \in P PROVE p = <<"loop", e>>
    <3>1. ~<<"arg", a>>[2] /\ ~<<"dma", b>>[2] /\ ~<<"done", d>>[2] BY <2>1
    <3> QED BY <3>1, Zenon
  <2>4. P = {<<"loop", e>>} BY <2>2, <2>3
  <2> QED BY <1>4, <2>4, FS_Singleton
<1>5. CASE ~(a \/ b \/ d \/ e)
  <2>1. P = {} BY <1>5
  <2> QED BY <1>5, <2>1, FS_EmptySet
<1> QED BY <1>1, <1>2, <1>3, <1>4, <1>5

-----------------------------------------------------------------------------
(* Theorems. *)

\* In every behaviour the callback of an accepted transfer is in one place, a
\* channel has a handler only while a transfer of its driver runs, and what
\* arrives after the loop looked for it has set the event register (main.c,
\* spi.c, uart_log.c, dma.c).
THEOREM MainInvariance == Spec => []IInv
<1>1. Init => IInv BY IInvInit
<1>2. IInv /\ [Next]_vars => IInv' BY IInvStep
<1> QED BY <1>1, <1>2, PTL DEF Spec

\* The loop, its drivers and the DMA table keep their types.
THEOREM MainTypes == Spec => []TypeOK
<1>1. IInv => TypeOK BY DEF IInv
<1> QED BY <1>1, MainInvariance, PTL

\* The callback of an accepted transfer is in exactly one place until it is
\* called and in none afterwards, no assertion of spi.c or dma.c fails, and
\* the driver accepts nothing meanwhile (spi.c:18-30, 116-118; dma.c:63).
THEOREM CallbackCalledOnce == Spec => []CallbackOnce
<1>1. ASSUME IInv PROVE CallbackOnce
  <2> DEFINE a == pc = "xfer_cb"
             b == \E c \in {dma_tx, dma_rx} : dma[c].handler = "spi_dma_cb" /\ context = owed
             d == spi_done_cb # NULL /\ spi_done_cb = owed
             e == pc \in {"spi_free", "spi_call"} /\ f = owed
  <2>1. TypeOK /\ SafeInv BY <1>1 DEF IInv
  <2>2. \A c \in SpiChannel : dma[c].handler = "spi_dma_cb" <=> dma[c].handler # NULL
    BY <2>1, MainChannels DEF SafeInv, DmaInv, Owner, SpiChannel
  <2>3. (a <=> InArg) /\ (b <=> InDma) /\ (d <=> InDone) /\ (e <=> InLoop)
    BY <2>1, <2>2 DEF SafeInv, CbInv, InArg, InDma, InDone, InLoop, SpiChannel
  <2>4. /\ a => ~b /\ ~d /\ ~e
        /\ b => ~d /\ ~e
        /\ d => ~e
    BY <2>1, <2>3 DEF SafeInv, CbInv, AtMostOne
  <2>5. owed # NULL <=> a \/ b \/ d \/ e BY <2>1, <2>3 DEF SafeInv, CbInv
  <2>6. a \in BOOLEAN /\ b \in BOOLEAN /\ d \in BOOLEAN /\ e \in BOOLEAN OBVIOUS
  <2>7. Places = {<<"arg", a>>, <<"dma", b>>, <<"done", d>>, <<"loop", e>>} BY Zenon DEF Places
  <2> HIDE DEF a, b, d, e
  <2>8. Cardinality({p \in Places : p[2]}) = (IF a \/ b \/ d \/ e THEN 1 ELSE 0)
    BY <2>4, <2>6, <2>7, OnePlace
  <2> QED BY <2>1, <2>5, <2>8 DEF CallbackOnce, CompletionsInOrder, SafeInv, CbInv
<1> QED BY <1>1, MainInvariance, PTL

\* The loop never sleeps over a frame, a finished transfer, an unread message
\* or a write in progress: what came between its tests and wfe has set the
\* event register, and wfe returns at once (main.c:46-57).
THEOREM NeverSleepsOverWork == Spec => []NoSleepOverWork
<1>1. IInv => NoSleepOverWork BY DEF IInv, SafeInv, SleepInv, NoSleepOverWork
<1> QED BY <1>1, MainInvariance, PTL

\* No buffer is refilled or given back under a running channel: the log's static
\* buffer, the caller's receive buffer, and its transmit buffer if nothing of an
\* earlier transfer was left when this one began (main.c:29, spi.c:75, 104-118).
THEOREM BuffersAreFree == Spec => []BuffersFree
<1>1. ASSUME IInv PROVE BuffersFree
  <2>1. LogBufferStable BY <1>1 DEF IInv, SafeInv, LogInv, LogBufferStable
  <2>2. ASSUME spi_done_cb # NULL \/ pc \in {"spi_clear", "spi_free", "spi_call"}
        PROVE  ~dma[dma_rx].busy /\ (clean => ~dma[dma_tx].busy)
    BY <1>1, <2>2 DEF IInv, SafeInv, RxInv, ByteInv, CbInv, AtMostOne, InDma, InDone, InLoop, SpiChannel
  <2> QED BY <2>1, <2>2 DEF BuffersFree, SpiBuffersFree
<1> QED BY <1>1, MainInvariance, PTL
=============================================================================

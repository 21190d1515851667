------------------------- MODULE PeripheralsProofs -------------------------
(***************************************************************************)
(* Proofs about Exti, for any number of pins, and about the small drivers: *)
(* Board, for any pins and readings, Adc, for every sample, I2c, for every *)
(* pair of pins, Random, for any size of buffer, and Descriptors, for any  *)
(* table of strings.                                                       *)
(***************************************************************************)
EXTENDS MCPeripherals, Sequences, TLAPS

-----------------------------------------------------------------------------
(* Exti: the inductive invariant. *)

\* Only events that the table knows are enabled, and an operation in progress
\* works on them: so the acknowledge and the disable leave none behind.
EventsInv ==
  /\ \A p \in Pin : inte[p] \subseteq exti_ev[p]
  /\ op.at # None => op.events = exti_ev[op.pin]

\* While a pin is being turned on its own callback does not run: the interrupt
\* is masked, or nothing of the pin is enabled yet.
TurningOn == op.at \in {"ack", "enable"}
EnableInv ==
  /\ op.masked => isr.at = None
  /\ TurningOn => op.pin \notin off /\ ~(isr.at \in {"ack", "call"} /\ isr.pin = op.pin)
  /\ TurningOn /\ ~op.masked => inte[op.pin] = {}

\* What is latched between the acknowledge and the enable is new.
FreshInv == op.at = "enable" /\ intr[op.pin] \cap op.events # {} => op.pin \in since

IInv == TypeOK /\ NoEdgeLost /\ NoStaleEdge /\ OffIsOff /\ EventsInv /\ EnableInv /\ FreshInv

-----------------------------------------------------------------------------
(* Types. *)

OpType  == [at: {None, "ack", "enable", "nvic", "dis_ack", "disable"}, pin: Pin,
            events: SUBSET Edge, masked: BOOLEAN]
IsrType == [at: {None, "read", "ack", "call", "return"}, pin: Pin, events: SUBSET Edge,
            masked: {FALSE}]

\* No operation is in progress, or the loop is at its first pin.
LEMMA IdleType ==
  /\ Idle \in OpType /\ Idle \in IsrType /\ [Idle EXCEPT !.at = "read"] \in IsrType
  /\ \A p \in Pin : [Idle EXCEPT !.at = "read", !.pin = p] \in IsrType
<1>1. 0 \in Pin BY PinsAssumption DEF Pin
<1> QED BY <1>1 DEF Idle, OpType, IsrType

\* The next pin of the loop is a pin.
LEMMA NextPinType ==
  ASSUME TypeOK
  PROVE  NextPin \in IsrType /\ NextPin.at \in {None, "read"}
<1>1. CASE isr.pin + 1 < NumPins
  <2>1. isr.pin + 1 \in Pin BY <1>1, PinsAssumption DEF TypeOK, Pin
  <2>2. NextPin = [Idle EXCEPT !.at = "read", !.pin = isr.pin + 1] BY <1>1 DEF NextPin
  <2>3. NextPin.at = "read" BY <2>2 DEF Idle
  <2> QED BY <2>1, <2>2, <2>3, IdleType
<1>2. CASE ~(isr.pin + 1 < NumPins)
  <2>1. NextPin = Idle BY <1>2 DEF NextPin
  <2> QED BY <2>1, IdleType DEF Idle
<1> QED BY <1>1, <1>2

\* Every step keeps the types.
LEMMA TypeStep ==
  ASSUME TypeOK, [Next]_vars
  PROVE  TypeOK'
<1> USE IdleType DEF TypeOK, At, IsrAt, OpType, IsrType
<1>1. ASSUME NEW p \in Pin, NEW e \in Edge, PinEdge(p, e) PROVE TypeOK' BY <1>1 DEF PinEdge
<1>2. ASSUME NEW p \in Pin, NEW ev \in SUBSET Edge, exti_set_callback(p, ev) PROVE TypeOK'
  BY <1>2 DEF exti_set_callback
<1>3. ASSUME NEW p \in Pin, exti_enable(p) PROVE TypeOK' BY <1>3 DEF exti_enable, Masked
<1>4. ASSUME NEW p \in Pin, exti_disable(p) PROVE TypeOK' BY <1>4 DEF exti_disable
<1>5. CASE EnableAck BY <1>5 DEF EnableAck
<1>6. CASE EnableSet BY <1>6 DEF EnableSet
<1>7. CASE EnableNvic BY <1>7 DEF EnableNvic
<1>8. CASE DisableAck BY <1>8 DEF DisableAck
<1>9. CASE DisableClear BY <1>9 DEF DisableClear
<1>10. CASE IsrEnter BY <1>10 DEF IsrEnter
<1>11. CASE IsrRead BY <1>11, NextPinType DEF IsrRead
<1>12. CASE IsrAck BY <1>12 DEF IsrAck
<1>13. CASE IsrCall
  <2>1. UNCHANGED <<exti_cb, exti_ev, nvic, op, since>> /\ isr' = [isr EXCEPT !.at = "return"]
        /\ due' = due \ {isr.pin} /\ (UNCHANGED off \/ off' = off \cup {isr.pin})
    BY <1>13 DEF IsrCall
  <2>2. \/ UNCHANGED <<intr, inte>>
        \/ /\ intr' = [intr EXCEPT ![isr.pin] = @ \ exti_ev[isr.pin]]
           /\ inte' = [inte EXCEPT ![isr.pin] = @ \ exti_ev[isr.pin]]
    BY <1>13 DEF IsrCall
  <2>3. isr.pin \in Pin BY DEF IsrType
  <2>4. CASE UNCHANGED <<intr, inte>> BY <2>1, <2>4
  <2>5. CASE /\ intr' = [intr EXCEPT ![isr.pin] = @ \ exti_ev[isr.pin]]
             /\ inte' = [inte EXCEPT ![isr.pin] = @ \ exti_ev[isr.pin]]
    <3>1. intr' \in [Pin -> SUBSET Edge] /\ inte' \in [Pin -> SUBSET Edge] BY <2>3, <2>5
    <3> QED BY <2>1, <3>1
  <2> QED BY <2>2, <2>4, <2>5
<1>14. CASE IsrReturn BY <1>14, NextPinType DEF IsrReturn
<1>15. CASE UNCHANGED vars BY <1>15 DEF vars
<1> QED BY <1>1, <1>2, <1>3, <1>4, <1>5, <1>6, <1>7, <1>8, <1>9, <1>10, <1>11, <1>12, <1>13,
     <1>14, <1>15 DEF Next, Isr

-----------------------------------------------------------------------------
(* Every step keeps the invariant. *)

\* A pin changes.
LEMMA EdgeStep ==
  ASSUME IInv, NEW q \in Pin, NEW e \in Edge, PinEdge(q, e)
  PROVE  NoEdgeLost' /\ NoStaleEdge' /\ OffIsOff' /\ EventsInv' /\ EnableInv' /\ FreshInv'
<1>1. \A p \in Pin : Pending(p) => Pending(p)' BY DEF IInv, TypeOK, PinEdge, Pending
<1>2. \A p \in Pin : Pending(p)' => Pending(p) \/ p = q BY DEF IInv, TypeOK, PinEdge, Pending
<1>3. NoEdgeLost'
  <2>1. e \in inte[q] => Pending(q)' BY DEF IInv, TypeOK, PinEdge, Pending
  <2> QED BY <1>1, <2>1 DEF IInv, TypeOK, PinEdge, NoEdgeLost, Serving
<1>4. NoStaleEdge' BY <1>2 DEF IInv, TypeOK, PinEdge, NoStaleEdge
<1>5. OffIsOff' /\ EventsInv' /\ EnableInv'
  BY DEF IInv, TypeOK, PinEdge, OffIsOff, EventsInv, EnableInv, TurningOn
<1>6. FreshInv' BY DEF IInv, TypeOK, PinEdge, FreshInv
<1> QED BY <1>3, <1>4, <1>5, <1>6

\* The operations below the interrupt.
LEMMA OpStep ==
  ASSUME IInv,
         \/ \E p \in Pin : \/ \E ev \in SUBSET Edge \ {{}} : exti_set_callback(p, ev)
                           \/ exti_enable(p) \/ exti_disable(p)
         \/ EnableAck \/ EnableSet \/ EnableNvic \/ DisableAck \/ DisableClear
  PROVE  NoEdgeLost' /\ NoStaleEdge' /\ OffIsOff' /\ EventsInv' /\ EnableInv' /\ FreshInv'
<1> USE DEF IInv, TypeOK, At, MayRun
<1>1. ASSUME NEW p \in Pin, NEW ev \in SUBSET Edge, exti_set_callback(p, ev)
      PROVE  NoEdgeLost' /\ NoStaleEdge' /\ OffIsOff' /\ EventsInv' /\ EnableInv' /\ FreshInv'
  <2>1. NoEdgeLost' /\ NoStaleEdge' /\ OffIsOff'
    BY <1>1 DEF exti_set_callback, NoEdgeLost, NoStaleEdge, OffIsOff, Pending, Serving
  <2>2. EventsInv' BY <1>1 DEF exti_set_callback, EventsInv
  <2>3. EnableInv' /\ FreshInv' BY <1>1 DEF exti_set_callback, EnableInv, FreshInv, TurningOn, None
  <2> QED BY <2>1, <2>2, <2>3
<1>2. ASSUME NEW p \in Pin, exti_enable(p)
      PROVE  NoEdgeLost' /\ NoStaleEdge' /\ OffIsOff' /\ EventsInv' /\ EnableInv' /\ FreshInv'
  <2>1. NoEdgeLost' /\ NoStaleEdge' /\ OffIsOff'
    BY <1>2 DEF exti_enable, NoEdgeLost, NoStaleEdge, OffIsOff, Pending, Serving
  <2>2. EventsInv' BY <1>2 DEF exti_enable, EventsInv
  <2>3. EnableInv' /\ FreshInv' BY <1>2 DEF exti_enable, EnableInv, FreshInv, TurningOn, None, Masked
  <2> QED BY <2>1, <2>2, <2>3
<1>3. ASSUME NEW p \in Pin, exti_disable(p)
      PROVE  NoEdgeLost' /\ NoStaleEdge' /\ OffIsOff' /\ EventsInv' /\ EnableInv' /\ FreshInv'
  <2>1. NoEdgeLost' /\ NoStaleEdge' /\ OffIsOff'
    BY <1>3 DEF exti_disable, NoEdgeLost, NoStaleEdge, OffIsOff, Pending, Serving
  <2>2. EventsInv' BY <1>3 DEF exti_disable, EventsInv
  <2>3. EnableInv' /\ FreshInv' BY <1>3 DEF exti_disable, EnableInv, FreshInv, TurningOn, None
  <2> QED BY <2>1, <2>2, <2>3
<1>4. CASE EnableAck
  <2>1. \A p \in Pin : p # op.pin => (Pending(p)' <=> Pending(p)) BY <1>4 DEF EnableAck, Pending
  <2>2. inte[op.pin] \subseteq op.events BY <1>4 DEF EnableAck, EventsInv, None
  <2>3. ~Pending(op.pin)' BY <1>4, <2>2 DEF EnableAck, Pending
  <2>4. NoEdgeLost' BY <1>4, <2>1 DEF EnableAck, NoEdgeLost, Serving
  <2>5. NoStaleEdge' BY <1>4, <2>1, <2>3 DEF EnableAck, NoStaleEdge, None
  <2>6. OffIsOff' /\ EventsInv' BY <1>4 DEF EnableAck, OffIsOff, EventsInv, None
  <2>7. EnableInv' BY <1>4 DEF EnableAck, EnableInv, TurningOn
  <2>8. FreshInv' BY <1>4 DEF EnableAck, FreshInv
  <2> QED BY <2>4, <2>5, <2>6, <2>7, <2>8
<1>5. CASE EnableSet
  <2>1. \A p \in Pin : p # op.pin => (Pending(p)' <=> Pending(p)) BY <1>5 DEF EnableSet, Pending
  <2>2. Pending(op.pin)' <=> Pending(op.pin) \/ intr[op.pin] \cap op.events # {}
    BY <1>5 DEF EnableSet, Pending
  <2>3. NoEdgeLost' BY <1>5, <2>1, <2>2 DEF EnableSet, NoEdgeLost, Serving
  <2>4. NoStaleEdge' BY <1>5, <2>1, <2>2 DEF EnableSet, NoStaleEdge, FreshInv, None
  <2>5. OffIsOff' BY <1>5 DEF EnableSet, OffIsOff, EnableInv, TurningOn
  <2>6. EventsInv' BY <1>5 DEF EnableSet, EventsInv, None
  <2>7. EnableInv' /\ FreshInv' BY <1>5 DEF EnableSet, EnableInv, FreshInv, TurningOn
  <2> QED BY <2>3, <2>4, <2>5, <2>6, <2>7
<1>6. CASE EnableNvic
  <2>1. NoEdgeLost' /\ NoStaleEdge' /\ OffIsOff'
    BY <1>6 DEF EnableNvic, NoEdgeLost, NoStaleEdge, OffIsOff, Pending, Serving
  <2>2. EventsInv' /\ EnableInv' /\ FreshInv'
    BY <1>6 DEF EnableNvic, EventsInv, EnableInv, FreshInv, TurningOn, Idle, None
  <2> QED BY <2>1, <2>2
<1>7. CASE DisableAck
  <2>1. \A p \in Pin : p # op.pin => (Pending(p)' <=> Pending(p)) BY <1>7 DEF DisableAck, Pending
  <2>2. Pending(op.pin)' => Pending(op.pin) BY <1>7 DEF DisableAck, Pending
  <2>3. NoEdgeLost' BY <1>7, <2>1 DEF DisableAck, NoEdgeLost, Serving
  <2>4. NoStaleEdge' BY <1>7, <2>1, <2>2 DEF DisableAck, NoStaleEdge
  <2>5. OffIsOff' /\ EventsInv' /\ EnableInv' /\ FreshInv'
    BY <1>7 DEF DisableAck, OffIsOff, EventsInv, EnableInv, FreshInv, TurningOn, None
  <2> QED BY <2>3, <2>4, <2>5
<1>8. CASE DisableClear
  <2>1. \A p \in Pin : p # op.pin => (Pending(p)' <=> Pending(p)) BY <1>8 DEF DisableClear, Pending
  <2>2. \A p \in Pin : Pending(p)' => Pending(p) BY <1>8 DEF DisableClear, Pending
  <2>3. NoEdgeLost' BY <1>8, <2>1 DEF DisableClear, NoEdgeLost, Serving
  <2>4. NoStaleEdge' BY <1>8, <2>1, <2>2 DEF DisableClear, NoStaleEdge
  <2>5. OffIsOff' BY <1>8 DEF DisableClear, OffIsOff, EventsInv, None
  <2>6. EventsInv' /\ EnableInv' /\ FreshInv'
    BY <1>8 DEF DisableClear, EventsInv, EnableInv, FreshInv, TurningOn, Idle, None
  <2> QED BY <2>3, <2>4, <2>5, <2>6
<1> QED BY <1>1, <1>2, <1>3, <1>4, <1>5, <1>6, <1>7, <1>8

\* isr_io_bank0.
LEMMA IsrStep ==
  ASSUME IInv, Isr
  PROVE  NoEdgeLost' /\ NoStaleEdge' /\ OffIsOff' /\ EventsInv' /\ EnableInv' /\ FreshInv'
<1> USE DEF IInv, TypeOK, IsrAt
<1>1. CASE IsrEnter
  BY <1>1 DEF IsrEnter, IsrMayStart, NoEdgeLost, NoStaleEdge, OffIsOff, EventsInv, EnableInv, FreshInv,
     TurningOn, Pending, Serving, Idle, None
<1>2. CASE IsrRead
  <2>1. UNCHANGED <<exti_cb, exti_ev, nvic, op, since, intr, inte, due, off>> /\ isr.at = "read"
    BY <1>2 DEF IsrRead
  <2>2. \A p \in Pin : Pending(p)' <=> Pending(p) BY <2>1 DEF Pending
  <2>3. \/ Pending(isr.pin) /\ isr'.at = "ack" /\ isr'.pin = isr.pin
        \/ isr'.at \in {None, "read"}
    BY <1>2, NextPinType DEF IsrRead
  <2>4. NoEdgeLost' BY <2>1, <2>2 DEF NoEdgeLost, Serving
  <2>5. NoStaleEdge' BY <2>1, <2>2, <2>3 DEF NoStaleEdge, None
  <2>6. OffIsOff' /\ EventsInv' /\ FreshInv' BY <2>1 DEF OffIsOff, EventsInv, FreshInv
  <2>7. EnableInv' BY <2>1, <2>3 DEF EnableInv, TurningOn, Pending, None
  <2> QED BY <2>4, <2>5, <2>6, <2>7
<1>3. CASE IsrAck
  <2>1. \A p \in Pin : p # isr.pin => (Pending(p)' <=> Pending(p)) BY <1>3 DEF IsrAck, Pending
  <2>2. NoEdgeLost' BY <1>3, <2>1 DEF IsrAck, NoEdgeLost, Serving
  <2>3. NoStaleEdge' BY <1>3, <2>1 DEF IsrAck, NoStaleEdge
  <2>4. OffIsOff' /\ EventsInv' BY <1>3 DEF IsrAck, OffIsOff, EventsInv
  <2>5. EnableInv' BY <1>3 DEF IsrAck, EnableInv, TurningOn, None
  <2>6. FreshInv' BY <1>3 DEF IsrAck, FreshInv
  <2> QED BY <2>2, <2>3, <2>4, <2>5, <2>6
<1>4. CASE IsrCall
  <2>1. \A p \in Pin : p # isr.pin => (Pending(p)' <=> Pending(p)) BY <1>4 DEF IsrCall, Pending
  <2>2. Pending(isr.pin)' => Pending(isr.pin) BY <1>4 DEF IsrCall, Pending
  <2>3. NoEdgeLost' BY <1>4, <2>1 DEF IsrCall, NoEdgeLost, Serving
  <2>4. NoStaleEdge' BY <1>4, <2>1, <2>2 DEF IsrCall, NoStaleEdge
  <2>5. OffIsOff' BY <1>4 DEF IsrCall, OffIsOff, EventsInv
  <2>6. EventsInv' BY <1>4 DEF IsrCall, EventsInv
  <2>7. EnableInv' BY <1>4 DEF IsrCall, EnableInv, TurningOn, None
  <2>8. FreshInv' BY <1>4 DEF IsrCall, FreshInv
  <2> QED BY <2>3, <2>4, <2>5, <2>6, <2>7, <2>8
<1>5. CASE IsrReturn
  <2>1. UNCHANGED <<exti_cb, exti_ev, nvic, op, since, intr, inte, due, off>>
        /\ isr.at = "return" /\ isr'.at \in {None, "read"}
    BY <1>5, NextPinType DEF IsrReturn
  <2> QED BY <2>1 DEF NoEdgeLost, NoStaleEdge, OffIsOff, EventsInv, EnableInv, FreshInv,
     TurningOn, Pending, Serving, None
<1> QED BY <1>1, <1>2, <1>3, <1>4, <1>5 DEF Isr

-----------------------------------------------------------------------------
(* Theorems. *)

\* However edges fall between the register accesses of exti_enable,
\* exti_disable and isr_io_bank0, only events of the table are enabled and a
\* pin that is being turned on is not served meanwhile (pins.c:9-41, 69-81,
\* 182-202).
THEOREM ExtiInvariance == Spec => []IInv
<1>1. Init => IInv
  <2> SUFFICES ASSUME Init PROVE IInv OBVIOUS
  <2>1. TypeOK
    <3>1. intr \in [Pin -> SUBSET Edge] BY DEF Init, Edge
    <3> QED BY <3>1, IdleType DEF Init, TypeOK, OpType, IsrType
  <2>2. NoEdgeLost /\ NoStaleEdge /\ OffIsOff
    BY DEF Init, NoEdgeLost, NoStaleEdge, OffIsOff, Pending, Idle, None
  <2>3. EventsInv /\ EnableInv /\ FreshInv
    BY DEF Init, EventsInv, EnableInv, FreshInv, TurningOn, Idle, None
  <2> QED BY <2>1, <2>2, <2>3 DEF IInv
<1>2. IInv /\ [Next]_vars => IInv'
  <2> SUFFICES ASSUME IInv, [Next]_vars PROVE IInv' OBVIOUS
  <2>1. TypeOK' BY TypeStep DEF IInv
  <2>2. CASE UNCHANGED vars
    BY <2>1, <2>2 DEF vars, IInv, NoEdgeLost, NoStaleEdge, OffIsOff, EventsInv, EnableInv, FreshInv,
       TurningOn, Pending, Serving
  <2>3. CASE Next BY <2>1, <2>3, EdgeStep, OpStep, IsrStep DEF Next, IInv
  <2> QED BY <2>2, <2>3
<1> QED BY <1>1, <1>2, PTL DEF Spec

\* Every edge of a pin that is on leads to a callback, no edge from before it
\* was turned on does, and a pin that was turned off stays off (pins.c:9-41,
\* 69-81, 182-202).
THEOREM EdgesAreServedOnce == Spec => []EdgesOK
<1>1. IInv => EdgesOK BY DEF IInv, EdgesOK
<1> QED BY <1>1, ExtiInvariance, PTL

-----------------------------------------------------------------------------
(* Adc *)

Bits12 == 0 .. 4095
CallType == [op: {"none", "pin", "temp"}, sample: Bits12, result: Int]

LEMMA AdcTypes ==
  ASSUME adc_inited \in BOOLEAN, sensor \in BOOLEAN, input \in 0 .. 4, call \in CallType,
         call.op # "none" => adc_inited /\ (input = 4 <=> call.op = "temp")
  PROVE  A!TypeOK
  BY DEF A!TypeOK, CallType, Bits12

LEMMA AdcTypesPrime ==
  ASSUME adc_inited' \in BOOLEAN, sensor' \in BOOLEAN, input' \in 0 .. 4, call' \in CallType,
         call'.op # "none" => adc_inited' /\ (input' = 4 <=> call'.op = "temp")
  PROVE  A!TypeOK'
  BY DEF A!TypeOK, CallType, Bits12

\* t is the temperature of the sample, off by a quarter of a degree at most and
\* rounded down.
CloseTo(t, adc) ==
  LET e == t * 4096 * 1721 - A!Datasheet(adc)
      d == 4096 * 1721
  IN  -5 * d <= 4 * e /\ 4 * e <= d

\* That holds over the whole range of the converter: the slope, cut to a whole
\* number, costs less than a quarter of a degree at either end of it.
LEMMA TempError ==
  ASSUME NEW adc \in Bits12
  PROVE  A!Temp(adc) \in Int /\ CloseTo(A!Temp(adc), adc)
<1> DEFINE x == 27 * 4096 - (adc - 876) * 1917
           t == x \div 4096
<1>1. x \in Int /\ x = 27 * 4096 + 876 * 1917 - 1917 * adc /\ adc \in 0 .. 4095 BY DEF Bits12
<1>2. A!Temp(adc) = t BY DEF A!Temp, A!Offset, A!Slope
<1>3. t \in Int /\ t * 4096 <= x /\ x <= t * 4096 + 4095
  <2> HIDE DEF x
  <2> QED BY <1>1, SMT
<1> HIDE DEF x, t
<1>4. A!Datasheet(adc) = 27 * 4096 * 1721 + 706 * 4096 * 1000 - 3300000 * adc
  BY <1>1 DEF A!Datasheet
<1>5. t * 4096 * 1721 <= x * 1721 /\ x * 1721 <= t * 4096 * 1721 + 4095 * 1721 BY <1>1, <1>3
<1> QED BY <1>1, <1>2, <1>3, <1>4, <1>5 DEF CloseTo

AdcInv == A!TypeOK /\ (call.op = "temp" => CloseTo(call.result, call.sample))

LEMMA AdcInvariance == A!Spec => []AdcInv
<1>1. ASSUME A!Init PROVE AdcInv
  <2>1. adc_inited = FALSE /\ sensor = FALSE BY <1>1 DEF A!Init
  <2>2. input = 0 /\ call = [op |-> "none", sample |-> 0, result |-> 0] BY <1>1 DEF A!Init
  <2>3. input \in 0 .. 4 /\ call \in CallType /\ call.op = "none" BY <2>2 DEF CallType, Bits12
  <2>4. adc_inited \in BOOLEAN /\ sensor \in BOOLEAN BY <2>1
  <2> QED BY <2>3, <2>4, AdcTypes DEF AdcInv
<1>2. AdcInv /\ [A!Next]_(A!vars) => AdcInv'
  <2> SUFFICES ASSUME AdcInv, [A!Next]_(A!vars) PROVE AdcInv' OBVIOUS
  <2>1. ASSUME NEW pin \in 24 .. 31, NEW v \in Volts, A!adc_read_pin(pin, v) PROVE AdcInv'
    <3>1. v \in Bits12 /\ v * 16 \in Int BY DriverAssumptions DEF A!Samples, Bits12
    <3>2. A!get_adc_ch(pin) \in 0 .. 3
      BY <2>1 DEF A!adc_read_pin, A!adc_can_read_pin, A!get_adc_ch
    <3>3. adc_inited' = TRUE /\ sensor' = sensor BY <2>1 DEF A!adc_read_pin
    <3>4. /\ input' = A!get_adc_ch(pin)
          /\ call' = [op |-> "pin", sample |-> v, result |-> v * 16]
      BY <2>1 DEF A!adc_read_pin
    <3>5. input' \in 0 .. 4 /\ input' # 4 BY <3>2, <3>4
    <3>6. call' \in CallType /\ call'.op = "pin" BY <3>1, <3>4 DEF CallType
    <3>7. adc_inited' \in BOOLEAN /\ sensor' \in BOOLEAN BY <3>3 DEF AdcInv, A!TypeOK
    <3> QED BY <3>3, <3>5, <3>6, <3>7, AdcTypesPrime DEF AdcInv
  <2>2. ASSUME NEW adc \in Sample, A!adc_read_temp(adc) PROVE AdcInv'
    <3>1. adc \in Bits12 BY DriverAssumptions DEF A!Samples, Bits12
    <3>2. adc_inited' = TRUE /\ sensor' = FALSE BY <2>2 DEF A!adc_read_temp
    <3>3. input' = 4 /\ call' = [op |-> "temp", sample |-> adc, result |-> A!Temp(adc)]
      BY <2>2 DEF A!adc_read_temp
    <3>4. A!Temp(adc) \in Int /\ CloseTo(A!Temp(adc), adc) BY <3>1, TempError
    <3>5. call' \in CallType /\ call'.op = "temp" /\ call'.sample = adc /\ call'.result = A!Temp(adc)
      BY <3>1, <3>3, <3>4 DEF CallType
    <3>6. CloseTo(call'.result, call'.sample) BY <3>4, <3>5
    <3>7. (call.op = "temp" => CloseTo(call.result, call.sample))'
      BY <3>6 DEF CloseTo, A!Datasheet
    <3>8. input' \in 0 .. 4 BY <3>3
    <3>9. adc_inited' \in BOOLEAN /\ sensor' \in BOOLEAN BY <3>2
    <3>10. A!TypeOK' BY <3>2, <3>3, <3>5, <3>8, <3>9, AdcTypesPrime
    <3> QED BY <3>7, <3>10 DEF AdcInv
  <2>3. CASE UNCHANGED A!vars BY <2>3 DEF A!vars, AdcInv, A!TypeOK, CloseTo, A!Datasheet
  <2> QED BY <2>1, <2>2, <2>3 DEF A!Next
<1> QED BY <1>1, <1>2, PTL DEF A!Spec

-----------------------------------------------------------------------------
(* I2c *)

\* A bus that was never set up is not kept, and the instance comes from pins
\* that were tested.
I2cInv ==
  /\ I!TypeOK /\ I!HeldOnRequest
  /\ i2c_inst # I!NoInst => I!PinsValid /\ i2c_inst = I!I2C_INST(sda)

\* The pin numbers and the functions of the pins: a pair that passes the test
\* of i2c_init_ is a data and a clock line of one instance.
LEMMA PinFunctions ==
  ASSUME sda \in I!Pin, scl \in I!Pin, I!PinsValid
  PROVE  /\ I!I2C_INST(sda) \in {0, 1}
         /\ I!Function(sda) = <<"SDA", I!I2C_INST(sda)>>
         /\ I!Function(scl) = <<"SCL", I!I2C_INST(sda)>>
<1>1. sda \in 0 .. 29 /\ scl \in 0 .. 29 BY DEF I!PinsValid, I!Pin
<1>2. \A p \in 0 .. 29 : p % 4 = 2 * ((p \div 2) % 2) + (p % 2) /\ (p \div 2) % 2 \in {0, 1}
                         /\ p % 2 \in {0, 1}
  BY SMT
<1>3. sda % 2 = 0 /\ scl % 2 = 1 /\ (sda \div 2) % 2 = (scl \div 2) % 2
  BY DEF I!PinsValid, I!I2C_INST
<1>4. /\ sda % 4 = 2 * ((sda \div 2) % 2) /\ scl % 4 = 2 * ((sda \div 2) % 2) + 1
      /\ (sda \div 2) % 2 \in {0, 1}
  BY <1>1, <1>2, <1>3
<1>5. CASE (sda \div 2) % 2 = 0 BY <1>4, <1>5 DEF I!I2C_INST, I!Function
<1>6. CASE (sda \div 2) % 2 = 1 BY <1>4, <1>6 DEF I!I2C_INST, I!Function
<1> QED BY <1>4, <1>5, <1>6

LEMMA I2cInvariance == I!Spec => []I2cInv
<1>1. ASSUME I!Init PROVE I2cInv
  <2>1. /\ sda \in I!Pin /\ scl \in I!Pin /\ i2c_inst = I!NoInst /\ held = FALSE
        /\ last = [op |-> "none", repeated |-> FALSE, ok |-> FALSE]
    BY <1>1 DEF I!Init
  <2>2. last \in I!Call /\ last.op = "none" /\ last.ok = FALSE BY <2>1 DEF I!Call
  <2> QED BY <2>1, <2>2 DEF I2cInv, I!TypeOK, I!HeldOnRequest
<1>2. I2cInv /\ [I!Next]_(I!vars) => I2cInv'
  <2> SUFFICES ASSUME I2cInv, [I!Next]_(I!vars) PROVE I2cInv' OBVIOUS
  <2>1. CASE I!i2c_init_
    <3>1. ~held /\ ~last.ok BY <2>1 DEF I2cInv, I!i2c_init_, I!TypeOK, I!HeldOnRequest
    <3>2. I!I2C_INST(sda) \in {0, 1} BY <2>1, PinFunctions DEF I!i2c_init_, I2cInv, I!TypeOK
    <3> QED BY <2>1, <3>1, <3>2 DEF I2cInv, I!i2c_init_, I!TypeOK, I!HeldOnRequest, I!PinsValid
  <2>2. CASE I!i2c_read_ex
    <3>1. PICK ok \in BOOLEAN :
             /\ held' = IF I!Ready THEN FALSE ELSE held
             /\ last' = [op |-> "read", repeated |-> FALSE, ok |-> I!Ready /\ ok]
             /\ UNCHANGED <<sda, scl, i2c_inst>>
      BY <2>2 DEF I!i2c_read_ex
    <3>2. last' \in I!Call /\ last'.op = "read" /\ (last'.ok => I!Ready) BY <3>1 DEF I!Call
    <3>3. held' = FALSE BY <3>1 DEF I2cInv, I!TypeOK, I!HeldOnRequest, I!Ready
    <3> QED BY <3>1, <3>2, <3>3 DEF I2cInv, I!TypeOK, I!HeldOnRequest, I!PinsValid, I!Ready
  <2>3. ASSUME NEW len2 \in 0 .. MaxLen, NEW repeated \in BOOLEAN, I!i2c_write_ex2(len2, repeated)
        PROVE  I2cInv'
    BY <2>3 DEF I2cInv, I!i2c_write_ex2, I!TypeOK, I!HeldOnRequest, I!PinsValid, I!Ready, I!Keep,
       I!Call
  <2>4. CASE UNCHANGED I!vars
    BY <2>4 DEF I!vars, I2cInv, I!TypeOK, I!HeldOnRequest, I!PinsValid
  <2> QED BY <2>1, <2>2, <2>3, <2>4 DEF I!Next
<1> QED BY <1>1, <1>2, PTL DEF I!Spec

-----------------------------------------------------------------------------
(* Random *)

\* The loop has taken one number for every four bytes up to its index.
RandomInv == R!TypeOK /\ R!Filled /\ i = 4 * drawn

LEMMA RandomInvariance == R!Spec => []RandomInv
<1> USE DEF R!Width
<1>1. ASSUME R!Init PROVE RandomInv
  <2>1. size = 0 /\ i = 0 /\ drawn = 0 /\ buf = [k \in R!Memory |-> 0] /\ MaxSize \in Nat
    BY <1>1, DriverAssumptions DEF R!Init, R!Untouched, R!SizeBound
  <2>2. \A k \in R!Memory : k \in Nat BY <2>1 DEF R!Memory
  <2> QED BY <2>1, <2>2 DEF RandomInv, R!TypeOK, R!Filled
<1>2. RandomInv /\ [R!Next]_(R!vars) => RandomInv'
  <2> SUFFICES ASSUME RandomInv, [R!Next]_(R!vars) PROVE RandomInv' OBVIOUS
  <2>1. /\ size \in 0 .. MaxSize /\ drawn \in Nat /\ buf \in [R!Memory -> Nat] /\ MaxSize \in Nat
        /\ i \in Nat /\ i <= size + 3 /\ i = 4 * drawn
    BY DriverAssumptions DEF RandomInv, R!TypeOK, R!SizeBound
  <2>2. \A k \in R!Memory : k \in Nat BY <2>1 DEF R!Memory
  <2>3. CASE R!FillNext
    <3>1. /\ i < size /\ size' = size /\ drawn' = drawn + 1 /\ i' = i + 4
          /\ buf' = [k \in R!Memory |-> IF k \in i .. i + R!Copy - 1 THEN drawn + 1 ELSE buf[k]]
      BY <2>3 DEF R!FillNext, R!More, R!hw_random
    <3>2. R!TypeOK' /\ i' = 4 * drawn' BY <2>1, <3>1 DEF R!TypeOK, R!Memory
    <3>3. ASSUME NEW k \in R!Memory
          PROVE  buf'[k] = IF k < i + 4 /\ k < size THEN k \div 4 + 1 ELSE 0
      <4>1. k \in Nat /\ buf[k] = IF k < i /\ k < size THEN k \div 4 + 1 ELSE 0
        BY <2>2, <3>3 DEF RandomInv, R!Filled
      <4>2. R!Copy \in Nat /\ i + R!Copy <= size /\ i + R!Copy <= i + 4
            /\ (i + R!Copy = size \/ i + R!Copy = i + 4)
        BY <2>1, <3>1 DEF R!Copy
      <4>3. CASE k \in i .. i + R!Copy - 1
        <5>1. 4 * drawn <= k /\ k < 4 * drawn + 4 BY <2>1, <4>1, <4>2, <4>3
        <5>2. k \div 4 = drawn BY <2>1, <4>1, <5>1, SMT
        <5>3. buf'[k] = drawn + 1 BY <3>1, <3>3, <4>3
        <5>4. k < i + 4 /\ k < size BY <2>1, <4>1, <4>2, <4>3
        <5> QED BY <5>2, <5>3, <5>4
      <4>4. CASE k \notin i .. i + R!Copy - 1
        <5>1. buf'[k] = buf[k] BY <3>1, <3>3, <4>4
        <5>2. (k < i + 4 /\ k < size) <=> (k < i /\ k < size) BY <2>1, <3>1, <4>1, <4>2, <4>4
        <5> QED BY <4>1, <5>1, <5>2
      <4> QED BY <4>3, <4>4
    <3>4. R!Filled' BY <3>1, <3>3 DEF R!Filled, R!Memory
    <3> QED BY <3>2, <3>4 DEF RandomInv
  <2>4. ASSUME NEW n \in 0 .. MaxSize, R!jd_crypto_get_random(n) PROVE RandomInv'
    <3>1. size' = n /\ i' = 0 /\ drawn' = 0 /\ buf' = [k \in R!Memory |-> 0]
      BY <2>4 DEF R!jd_crypto_get_random, R!Untouched
    <3>2. R!TypeOK' /\ i' = 4 * drawn' BY <2>1, <3>1 DEF R!TypeOK, R!Memory
    <3>3. R!Filled' BY <2>2, <3>1 DEF R!Filled, R!Memory
    <3> QED BY <3>2, <3>3 DEF RandomInv
  <2>5. CASE UNCHANGED R!vars BY <2>5 DEF R!vars, RandomInv, R!TypeOK, R!Filled, R!Memory
  <2> QED BY <2>3, <2>4, <2>5 DEF R!Next
<1> QED BY <1>1, <1>2, PTL DEF R!Spec

-----------------------------------------------------------------------------
(* Descriptors *)

DescInv == D!TypeOK /\ D!StringIsWhole

AnswerType == [kind: {"none", "string", "report"}, index: D!Index, result: {D!NULL} \cup D!Index]

\* A string that is written stays inside the buffer and is there as a whole.
LEMMA WrittenHolds ==
  ASSUME D!TypeOK, NEW n \in Nat, NEW len \in Nat, len <= BufLen - 1, desc_str' = D!Written(n, len)
  PROVE  /\ desc_str'.header = len /\ desc_str'.header \in 0 .. BufLen - 1
         /\ DOMAIN desc_str'.char = 1 .. BufLen - 1
         /\ \A k \in 1 .. desc_str'.header : desc_str'.char[k] = <<n, k>>
<1>1. BufLen \in Nat /\ BufLen > 1 BY DriverAssumptions DEF D!StringTable
<1>2. DOMAIN desc_str.char = 1 .. BufLen - 1 BY DEF D!TypeOK
<1>3. DOMAIN desc_str.char \cup 1 .. len = 1 .. BufLen - 1 BY <1>1, <1>2
<1>4. /\ desc_str'.header = len
      /\ desc_str'.char = [k \in 1 .. BufLen - 1 |-> IF k <= len THEN <<n, k>> ELSE desc_str.char[k]]
  BY <1>3 DEF D!Written
<1> QED BY <1>1, <1>4

LEMMA DescInvariance == D!Spec => []DescInv
<1> USE DEF D!NULL
<1>0. /\ StrLen \in Seq(Nat) /\ BufLen \in Nat /\ BufLen > 1 /\ MaxIndex \in Nat
      /\ D!Index = 0 .. MaxIndex
  BY DriverAssumptions DEF D!StringTable, D!Index
<1>1. ASSUME D!Init PROVE DescInv
  <2>1. /\ desc_str.header = 0 /\ DOMAIN desc_str.char = 1 .. BufLen - 1
        /\ answer = [kind |-> "none", index |-> 0, result |-> -1]
    BY <1>1 DEF D!Init, D!Fresh
  <2>2. answer \in AnswerType /\ answer.kind = "none" BY <1>0, <2>1 DEF AnswerType
  <2>3. serial_made \in BOOLEAN BY <1>1 DEF D!Init
  <2>4. desc_str.header \in 0 .. BufLen - 1 BY <1>0, <2>1
  <2> QED BY <2>1, <2>2, <2>3, <2>4 DEF DescInv, D!TypeOK, D!StringIsWhole, AnswerType
<1>2. DescInv /\ [D!Next]_(D!vars) => DescInv'
  <2> SUFFICES ASSUME DescInv, [D!Next]_(D!vars) PROVE DescInv' OBVIOUS
  <2>1. ASSUME NEW n \in D!Index, D!tud_descriptor_string_cb(n) PROVE DescInv'
    <3>0. n \in Nat /\ serial_made' \in BOOLEAN BY <1>0, <2>1 DEF D!tud_descriptor_string_cb
    <3>1. ASSUME NEW len \in Nat, desc_str' = D!Written(n, len),
                 len = (LET l == IF n = 0 THEN 1 ELSE StrLen[n]
                        IN  IF l < BufLen THEN l ELSE BufLen - 1),
                 len <= BufLen - 1, answer' = [kind |-> "string", index |-> n, result |-> n]
          PROVE  DescInv'
      <4>1. /\ desc_str'.header = len /\ desc_str'.header \in 0 .. BufLen - 1
            /\ DOMAIN desc_str'.char = 1 .. BufLen - 1
            /\ \A k \in 1 .. desc_str'.header : desc_str'.char[k] = <<n, k>>
        BY <3>0, <3>1, WrittenHolds DEF DescInv
      <4>2. answer' \in AnswerType /\ answer'.index = n BY <1>0, <3>1 DEF AnswerType
      <4>3. D!TypeOK' BY <3>0, <4>1, <4>2 DEF D!TypeOK, AnswerType, D!Index
      <4>4. D!StringIsWhole' BY <3>1, <4>1, <4>2 DEF D!StringIsWhole
      <4> QED BY <4>3, <4>4 DEF DescInv
    <3>2. CASE n = 0
      <4>1. desc_str' = D!Written(n, 1) /\ answer' = [kind |-> "string", index |-> n, result |-> n]
        BY <2>1, <3>2 DEF D!tud_descriptor_string_cb, D!Answer
      <4> QED BY <1>0, <3>1, <3>2, <4>1
    <3>3. CASE n > Len(StrLen)
      <4>1. UNCHANGED desc_str /\ answer' = [kind |-> "string", index |-> n, result |-> -1]
        BY <1>0, <2>1, <3>0, <3>3 DEF D!tud_descriptor_string_cb, D!Answer
      <4>2. answer' \in AnswerType /\ answer'.result = -1 BY <4>1 DEF AnswerType
      <4> QED BY <3>0, <4>1, <4>2 DEF DescInv, D!TypeOK, D!StringIsWhole, AnswerType, D!Index
    <3>4. CASE ~(n = 0) /\ ~(n > Len(StrLen))
      <4>1. /\ desc_str' = D!Written(n, D!CopyLen(n))
            /\ answer' = [kind |-> "string", index |-> n, result |-> n]
        BY <2>1, <3>4 DEF D!tud_descriptor_string_cb, D!Answer
      <4>2. StrLen[n] \in Nat BY <1>0, <3>0, <3>4
      <4>3. D!CopyLen(n) \in Nat /\ D!CopyLen(n) <= BufLen - 1
            /\ D!CopyLen(n) = IF StrLen[n] < BufLen THEN StrLen[n] ELSE BufLen - 1
        BY <1>0, <4>2 DEF D!CopyLen
      <4> QED BY <3>1, <3>4, <4>1, <4>3
    <3> QED BY <3>2, <3>3, <3>4
  <2>2. ASSUME NEW n \in D!Index, D!tud_hid_descriptor_report_cb(n) PROVE DescInv'
    <3>1. PICK r \in {-1, n} : answer' = [kind |-> "report", index |-> n, result |-> r]
      BY <2>2 DEF D!tud_hid_descriptor_report_cb, D!Answer
    <3>2. UNCHANGED <<desc_str, serial_made>> BY <2>2 DEF D!tud_hid_descriptor_report_cb
    <3>3. answer' \in AnswerType /\ answer'.kind = "report" BY <3>1 DEF AnswerType
    <3> QED BY <3>2, <3>3 DEF DescInv, D!TypeOK, D!StringIsWhole, AnswerType, D!Index
  <2>3. CASE UNCHANGED D!vars BY <2>3 DEF D!vars, DescInv, D!TypeOK, D!StringIsWhole, D!Index
  <2> QED BY <2>1, <2>2, <2>3 DEF D!Next
<1> QED BY <1>1, <1>2, PTL DEF D!Spec

-----------------------------------------------------------------------------
(* Board *)

\* Registers r are those of a pin set up for m.
Matches(r, m) ==
  /\ m = "output" => r.fn = "SIO" /\ r.oe
  /\ m \in {"input", "released"} => ~(r.fn = "SIO" /\ r.oe) /\ r.fn = "SIO" /\ r.ie
  /\ m = "analog" => r.fn = "NULL" /\ ~r.ie /\ r.pull = 0
  /\ m = "pwm" => r.fn = "PWM" /\ r.ie
  /\ m = "af" => r.fn = "AF" /\ r.ie

\* The order of the boot: nothing drives the LED's pin before platform_init, the
\* LED is there after it, the chip is initialised on a Pico W only.
BootInv ==
  /\ ~booted => ~B!Drives(LedPin) /\ ~is_pico_w
  /\ inited => is_pico_w
  /\ use_pico_led # 0 => booted
  /\ use_pico_led # 0 /\ ~is_pico_w => B!Drives(LedPin)

\* is_on is what the chip was told; the pin has the colour last set.
LedInv ==
  /\ is_on <=> chip
  /\ asked # B!Unset => use_pico_led # 0
  /\ asked # B!Unset /\ is_pico_w => (B!Lit(asked) <=> chip)
  /\ asked # B!Unset /\ ~is_pico_w => (B!Lit(asked) <=> pad[LedPin].out = 1)

BoardInv ==
  /\ B!TypeOK /\ B!PadMatchesMode
  /\ mode[LedPin] = B!None /\ mode[VsysPin] = B!None
  /\ BootInv /\ LedInv

\* The registers that each operation leaves, from any registers.
LEMMA PadOps ==
  ASSUME NEW r \in B!Pad
  PROVE  /\ B!pin_setup_output(r) \in B!Pad /\ Matches(B!pin_setup_output(r), "output")
         /\ B!pin_setup_output(r).out = r.out
         /\ \A pull \in {-1, 0, 1} : /\ B!pin_setup_input(r, pull) \in B!Pad
                                     /\ Matches(B!pin_setup_input(r, pull), "input")
         /\ B!pin_setup_analog_input(r) \in B!Pad /\ Matches(B!pin_setup_analog_input(r), "analog")
         /\ B!pin_setup_output_af(r) \in B!Pad /\ Matches(B!pin_setup_output_af(r), "af")
         /\ B!jd_pwm_enable(r, TRUE) \in B!Pad /\ Matches(B!jd_pwm_enable(r, TRUE), "pwm")
         /\ B!jd_pwm_enable(r, FALSE) \in B!Pad /\ Matches(B!jd_pwm_enable(r, FALSE), "released")
<1> USE DEF B!Pad, Matches, B!gpio_set_function_
<1>1. B!pin_setup_output(r) \in B!Pad /\ Matches(B!pin_setup_output(r), "output")
      /\ B!pin_setup_output(r).out = r.out
  BY DEF B!pin_setup_output
<1>2. ASSUME NEW pull \in {-1, 0, 1}
      PROVE  B!pin_setup_input(r, pull) \in B!Pad /\ Matches(B!pin_setup_input(r, pull), "input")
  BY DEF B!pin_setup_input, B!pin_set_pull
<1>3. B!pin_setup_analog_input(r) \in B!Pad /\ Matches(B!pin_setup_analog_input(r), "analog")
  BY DEF B!pin_setup_analog_input, B!pin_set_pull
<1>4. B!pin_setup_output_af(r) \in B!Pad /\ Matches(B!pin_setup_output_af(r), "af")
  BY DEF B!pin_setup_output_af
<1>5. B!jd_pwm_enable(r, TRUE) \in B!Pad /\ Matches(B!jd_pwm_enable(r, TRUE), "pwm")
  BY DEF B!jd_pwm_enable
<1>6. B!jd_pwm_enable(r, FALSE) \in B!Pad /\ Matches(B!jd_pwm_enable(r, FALSE), "released")
  BY DEF B!jd_pwm_enable, B!gpio_init_
<1> QED BY <1>1, <1>2, <1>3, <1>4, <1>5, <1>6

\* A write to the output register leaves a pin's use alone, and so does a new
\* pull, unless the pin is an analog one.
LEMMA PadWrites ==
  ASSUME NEW r \in B!Pad, NEW m, Matches(r, m)
  PROVE  /\ \A v \in {0, 1} : /\ B!pin_set(r, v) \in B!Pad /\ Matches(B!pin_set(r, v), m)
                              /\ B!pin_set(r, v).out = v /\ B!pin_set(r, v).fn = r.fn
                              /\ B!pin_set(r, v).oe = r.oe
         /\ m # "analog" => \A pull \in {-1, 0, 1} : /\ B!pin_set_pull(r, pull) \in B!Pad
                                                     /\ Matches(B!pin_set_pull(r, pull), m)
<1>1. ASSUME NEW v \in {0, 1}
      PROVE  /\ B!pin_set(r, v) \in B!Pad /\ B!pin_set(r, v).out = v /\ B!pin_set(r, v).fn = r.fn
             /\ B!pin_set(r, v).oe = r.oe /\ B!pin_set(r, v).ie = r.ie
             /\ B!pin_set(r, v).pull = r.pull
  BY DEF B!Pad, B!pin_set
<1>2. ASSUME NEW pull \in {-1, 0, 1}
      PROVE  /\ B!pin_set_pull(r, pull) \in B!Pad /\ B!pin_set_pull(r, pull).fn = r.fn
             /\ B!pin_set_pull(r, pull).oe = r.oe /\ B!pin_set_pull(r, pull).ie = r.ie
  BY DEF B!Pad, B!pin_set_pull
<1>3. ASSUME NEW v \in {0, 1} PROVE Matches(B!pin_set(r, v), m) BY <1>1 DEF Matches
<1>4. ASSUME NEW pull \in {-1, 0, 1}, m # "analog" PROVE Matches(B!pin_set_pull(r, pull), m)
  BY <1>2, <1>4 DEF Matches
<1> QED BY <1>1, <1>2, <1>3, <1>4

\* What the pads and the uses of the pins have to do with each other.
LEMMA PadMatches == B!PadMatchesMode <=> \A p \in B!Pin : Matches(pad[p], mode[p])
  BY DEF B!PadMatchesMode, Matches, B!Drives

LEMMA PadMatchesPrime == B!PadMatchesMode' <=> \A p \in B!Pin : Matches(pad'[p], mode'[p])
  BY DEF B!PadMatchesMode, Matches, B!Drives

LEMMA BoardPinsApart ==
  /\ LedPin \in B!Pin /\ VsysPin \in B!Pin /\ LedPin # VsysPin /\ AppPin \subseteq B!Pin
  /\ LedPin \notin AppPin /\ VsysPin \notin AppPin /\ LedPin # 0
  BY DriverAssumptions DEF B!BoardPins, B!Pin

\* The application sets up a pin of its own: the LED's is not touched.
LEMMA ConfigureStep ==
  ASSUME BoardInv, NEW p \in AppPin, NEW r \in B!Pad, NEW m \in B!Mode, Matches(r, m),
         B!Configure(p, r, m)
  PROVE  BoardInv'
<1>1. p \in B!Pin /\ p # LedPin /\ p # VsysPin BY BoardPinsApart
<1>2. /\ pad' = [pad EXCEPT ![p] = r] /\ mode' = [mode EXCEPT ![p] = m]
      /\ UNCHANGED <<booted, led_type, is_pico_w, use_pico_led, inited, is_on, chip, asked>>
  BY DEF B!Configure, B!led
<1>3. pad \in [B!Pin -> B!Pad] /\ mode \in [B!Pin -> B!Mode] BY DEF BoardInv, B!TypeOK
<1>4. pad' \in [B!Pin -> B!Pad] /\ mode' \in [B!Pin -> B!Mode] BY <1>2, <1>3
<1>5. /\ pad'[LedPin] = pad[LedPin] /\ mode'[LedPin] = mode[LedPin]
      /\ mode'[VsysPin] = mode[VsysPin]
  BY <1>1, <1>2, <1>3, BoardPinsApart
<1>6. B!PadMatchesMode'
  <2>1. \A q \in B!Pin : Matches(pad[q], mode[q]) BY PadMatches DEF BoardInv
  <2>2. ASSUME NEW q \in B!Pin PROVE Matches(pad'[q], mode'[q])
    <3>1. CASE q = p
      <4>1. pad'[q] = r /\ mode'[q] = m BY <1>1, <1>2, <1>3, <3>1
      <4> QED BY <4>1
    <3>2. CASE q # p
      <4>1. pad'[q] = pad[q] /\ mode'[q] = mode[q] BY <1>2, <1>3, <3>2
      <4> QED BY <2>1, <4>1
    <3> QED BY <3>1, <3>2
  <2> QED BY <2>2, PadMatchesPrime
<1>7. B!TypeOK' BY <1>2, <1>4, <1>5 DEF BoardInv, B!TypeOK, B!Drives, B!Pin, B!Pad, B!Mode
<1>8. BootInv' BY <1>2, <1>5 DEF BoardInv, BootInv, B!Drives
<1>9. LedInv' BY <1>2, <1>5 DEF BoardInv, LedInv, B!Lit
<1> QED BY <1>5, <1>6, <1>7, <1>8, <1>9 DEF BoardInv

LEMMA AppStep ==
  ASSUME BoardInv, NEW p \in AppPin, B!AppConfigures(p)
  PROVE  BoardInv'
<1> DEFINE r == pad[p]
<1>1. p \in B!Pin BY BoardPinsApart
<1>2. r \in B!Pad /\ mode[p] \in B!Mode BY <1>1 DEF BoardInv, B!TypeOK
<1>3. Matches(r, mode[p]) BY <1>1, PadMatches DEF BoardInv
<1>4. {"output", "input", "analog", "af", "pwm", "released"} \subseteq B!Mode BY DEF B!Mode
<1>5. PICK s, m : B!Configure(p, s, m) /\ s \in B!Pad /\ m \in B!Mode /\ Matches(s, m)
  <2> HIDE DEF r
  <2>1. CASE B!Configure(p, B!pin_setup_output(r), "output") BY <1>2, <1>4, <2>1, PadOps
  <2>2. CASE B!Configure(p, B!pin_set(B!pin_setup_output(r), 0), "output")
    <3>1. B!pin_setup_output(r) \in B!Pad /\ Matches(B!pin_setup_output(r), "output") BY <1>2, PadOps
    <3>2. /\ B!pin_set(B!pin_setup_output(r), 0) \in B!Pad
          /\ Matches(B!pin_set(B!pin_setup_output(r), 0), "output")
      BY <3>1, PadWrites
    <3> QED BY <1>4, <2>2, <3>2
  <2>3. ASSUME NEW pull \in {-1, 0, 1}, B!Configure(p, B!pin_setup_input(r, pull), "input")
        PROVE  \E s, m : B!Configure(p, s, m) /\ s \in B!Pad /\ m \in B!Mode /\ Matches(s, m)
    BY <1>2, <1>4, <2>3, PadOps
  <2>4. CASE B!Configure(p, B!pin_setup_analog_input(r), "analog") BY <1>2, <1>4, <2>4, PadOps
  <2>5. CASE B!Configure(p, B!pin_setup_output_af(r), "af") BY <1>2, <1>4, <2>5, PadOps
  <2>6. CASE B!Configure(p, B!jd_pwm_enable(r, TRUE), "pwm") BY <1>2, <1>4, <2>6, PadOps
  <2>7. CASE B!Configure(p, B!jd_pwm_enable(r, FALSE), "released") BY <1>2, <1>4, <2>7, PadOps
  <2>8. ASSUME NEW v \in {0, 1}, B!Configure(p, B!pin_set(r, v), mode[p])
        PROVE  \E s, m : B!Configure(p, s, m) /\ s \in B!Pad /\ m \in B!Mode /\ Matches(s, m)
    <3>1. B!pin_set(r, v) \in B!Pad /\ Matches(B!pin_set(r, v), mode[p]) BY <1>2, <1>3, PadWrites
    <3> QED BY <1>2, <2>8, <3>1
  <2>9. ASSUME NEW pull \in {-1, 0, 1}, mode[p] \in {"input", "output"},
               B!Configure(p, B!pin_set_pull(r, pull), mode[p])
        PROVE  \E s, m : B!Configure(p, s, m) /\ s \in B!Pad /\ m \in B!Mode /\ Matches(s, m)
    <3>1. mode[p] # "analog" BY <2>9
    <3>2. B!pin_set_pull(r, pull) \in B!Pad /\ Matches(B!pin_set_pull(r, pull), mode[p])
      BY <1>2, <1>3, <3>1, PadWrites
    <3> QED BY <1>2, <2>9, <3>2
  <2> QED BY <2>1, <2>2, <2>3, <2>4, <2>5, <2>6, <2>7, <2>8, <2>9 DEF B!AppConfigures, r
<1> QED BY <1>5, ConfigureStep

\* A step that leaves the application's pins and the uses of the pins alone.
LEMMA PlatformPads ==
  ASSUME BoardInv, UNCHANGED mode, \A p \in AppPin : pad'[p] = pad[p]
  PROVE  /\ B!PadMatchesMode' /\ mode'[LedPin] = B!None /\ mode'[VsysPin] = B!None
<1>1. mode'[LedPin] = B!None /\ mode'[VsysPin] = B!None BY DEF BoardInv
<1>2. ASSUME NEW p \in B!Pin PROVE Matches(pad'[p], mode'[p])
  <2>1. CASE p \in AppPin
    <3>1. pad'[p] = pad[p] /\ mode'[p] = mode[p] BY <2>1
    <3>2. Matches(pad[p], mode[p]) BY PadMatches DEF BoardInv
    <3> QED BY <3>1, <3>2
  <2>2. CASE p \notin AppPin
    <3>1. mode'[p] = "none" BY <1>1, <2>2 DEF B!Pin, B!None
    <3> QED BY <3>1 DEF Matches
  <2> QED BY <2>1, <2>2
<1> QED BY <1>1, <1>2, PadMatchesPrime

\* The board is told apart, whatever the two measurements: the LED's pin is not
\* driven in the end.
LEMMA InitStep ==
  ASSUME BoardInv, B!platform_init
  PROVE  BoardInv'
<1> USE BoardPinsApart
<1>1. /\ ~booted /\ booted' /\ booted' \in BOOLEAN
      /\ UNCHANGED <<mode, led_type, use_pico_led, inited, is_on, chip, asked>>
  BY DEF B!platform_init
<1>2. pad \in [B!Pin -> B!Pad] BY DEF BoardInv, B!TypeOK
<1>3. use_pico_led = 0 /\ asked = B!Unset /\ ~B!Drives(LedPin) /\ ~is_pico_w /\ ~inited
  BY <1>1 DEF BoardInv, BootInv, LedInv
<1>4. /\ pad' \in [B!Pin -> B!Pad] /\ \A p \in AppPin : pad'[p] = pad[p]
      /\ ~(pad'[LedPin].fn = "SIO" /\ pad'[LedPin].oe) /\ is_pico_w' \in BOOLEAN
  <2>1. CASE UNCHANGED <<pad, is_pico_w>>
    BY <1>2, <1>3, <2>1 DEF BoardInv, B!TypeOK, B!Drives
  <2>2. ASSUME NEW first \in Reading, NEW second \in Reading, B!pico_w_init(first, second)
        PROVE  /\ pad' \in [B!Pin -> B!Pad] /\ \A p \in AppPin : pad'[p] = pad[p]
               /\ ~(pad'[LedPin].fn = "SIO" /\ pad'[LedPin].oe) /\ is_pico_w' \in BOOLEAN
    <3> DEFINE vsys == B!pin_setup_analog_input(pad[VsysPin])
               low  == B!pin_set(pad[LedPin], 0)
               led0 == B!pin_setup_output(low)
               ledA == B!pin_setup_analog_input(led0)
    <3>1. vsys \in B!Pad BY <1>2, PadOps
    <3>2. low \in B!Pad
      <4>1. pad[LedPin] \in B!Pad BY <1>2
      <4> QED BY <4>1 DEF B!Pad, B!pin_set
    <3>3. led0 \in B!Pad
      <4> HIDE DEF low
      <4> QED BY <3>2, PadOps
    <3>4. ledA \in B!Pad /\ ledA.fn = "NULL"
      <4> HIDE DEF led0
      <4> QED BY <3>3, PadOps DEF Matches
    <3>5. \/ is_pico_w' = TRUE /\ pad' = [pad EXCEPT ![VsysPin] = vsys]
          \/ is_pico_w' = (second < B!Threshold)
             /\ pad' = [pad EXCEPT ![VsysPin] = vsys, ![LedPin] = ledA]
      BY <2>2 DEF B!pico_w_init
    <3> HIDE DEF vsys, ledA
    <3>6. is_pico_w' \in BOOLEAN
      <4>1. (second < B!Threshold) \in BOOLEAN OBVIOUS
      <4>2. is_pico_w' = TRUE \/ is_pico_w' = (second < B!Threshold) BY <3>5, Zenon
      <4> QED BY <4>1, <4>2, Zenon
    <3>7. CASE pad' = [pad EXCEPT ![VsysPin] = vsys]
      <4>1. pad'[LedPin] = pad[LedPin] BY <1>2, <3>7
      <4> QED BY <1>2, <1>3, <3>1, <3>6, <3>7, <4>1 DEF B!Drives
    <3>8. CASE pad' = [pad EXCEPT ![VsysPin] = vsys, ![LedPin] = ledA]
      <4>1. pad'[LedPin] = ledA BY <1>2, <3>8
      <4> QED BY <1>2, <3>1, <3>4, <3>6, <3>8, <4>1
    <3> QED BY <3>5, <3>7, <3>8
  <2> QED BY <2>1, <2>2 DEF B!platform_init
<1>5. B!PadMatchesMode' /\ mode'[LedPin] = B!None /\ mode'[VsysPin] = B!None
  BY <1>1, <1>4, PlatformPads
<1>6. B!TypeOK' BY <1>1, <1>4 DEF BoardInv, B!TypeOK, B!Drives, B!Pin, B!Pad, B!Mode
<1>7. BootInv' BY <1>1, <1>3 DEF BootInv
<1>8. LedInv' BY <1>1, <1>3 DEF BoardInv, LedInv
<1> QED BY <1>5, <1>6, <1>7, <1>8 DEF BoardInv

\* On a Pico the LED's pin becomes an output and keeps its level; on a Pico W
\* it is left alone.
LEMMA RgbextInitStep ==
  ASSUME BoardInv, B!jd_rgbext_init
  PROVE  BoardInv'
<1> USE BoardPinsApart
<1>1. /\ booted /\ use_pico_led' = LedPin
      /\ UNCHANGED <<booted, led_type, is_pico_w, inited, is_on, chip, asked, mode>>
  BY DEF B!jd_rgbext_init
<1>2. pad \in [B!Pin -> B!Pad] BY DEF BoardInv, B!TypeOK
<1>3. pad[LedPin] \in B!Pad BY <1>2
<1>4. /\ pad' \in [B!Pin -> B!Pad] /\ \A p \in AppPin : pad'[p] = pad[p]
      /\ pad'[LedPin].out = pad[LedPin].out
      /\ ~is_pico_w => pad'[LedPin].fn = "SIO" /\ pad'[LedPin].oe
      /\ is_pico_w => pad' = pad
  <2>1. CASE is_pico_w
    <3>1. pad' = pad BY <2>1 DEF B!jd_rgbext_init
    <3> QED BY <1>2, <2>1, <3>1
  <2>2. CASE ~is_pico_w
    <3> DEFINE s == B!pin_setup_output(pad[LedPin])
    <3>1. pad' = [pad EXCEPT ![LedPin] = s] BY <2>2 DEF B!jd_rgbext_init
    <3>2. s \in B!Pad /\ s.fn = "SIO" /\ s.oe /\ s.out = pad[LedPin].out
      BY <1>3, PadOps DEF Matches
    <3> HIDE DEF s
    <3>3. pad'[LedPin] = s BY <1>2, <3>1
    <3> QED BY <1>2, <2>2, <3>1, <3>2, <3>3
  <2> QED BY <2>1, <2>2
<1>5. B!PadMatchesMode' /\ mode'[LedPin] = B!None /\ mode'[VsysPin] = B!None
  BY <1>1, <1>4, PlatformPads
<1>6. B!TypeOK' BY <1>1, <1>4 DEF BoardInv, B!TypeOK, B!Drives, B!Pin, B!Pad, B!Mode
<1>7. BootInv' BY <1>1, <1>4 DEF BoardInv, BootInv, B!Drives
<1>8. LedInv' BY <1>1, <1>4 DEF BoardInv, LedInv, B!Lit
<1> QED BY <1>5, <1>6, <1>7, <1>8 DEF BoardInv

\* A colour goes to the pin or, once the chip is there, to the chip.
LEMMA RgbextSetStep ==
  ASSUME BoardInv, NEW c \in B!Colour, B!jd_rgbext_set(c)
  PROVE  BoardInv'
<1> USE BoardPinsApart
<1>1. /\ use_pico_led # 0
      /\ UNCHANGED <<booted, led_type, is_pico_w, use_pico_led, inited, mode>>
  BY DEF B!jd_rgbext_set
<1>2. pad \in [B!Pin -> B!Pad] /\ pad[LedPin] \in B!Pad BY DEF BoardInv, B!TypeOK
<1>3. B!Lit(c) \in BOOLEAN BY DEF B!Lit
<1>4. CASE is_pico_w
  <2>1. UNCHANGED pad /\ B!pico_w_set_led(c) BY <1>4 DEF B!jd_rgbext_set
  <2>2. B!PadMatchesMode' /\ mode'[LedPin] = B!None /\ mode'[VsysPin] = B!None
    BY <1>1, <2>1, PlatformPads
  <2>3. BootInv' BY <1>1, <2>1 DEF BoardInv, BootInv, B!Drives
  <2>4. CASE ~inited
    <3>1. UNCHANGED <<is_on, chip, asked>> BY <2>1, <2>4 DEF B!pico_w_set_led
    <3>2. B!TypeOK' BY <1>1, <2>1, <3>1 DEF BoardInv, B!TypeOK, B!Drives, B!Pin, B!Pad, B!Mode
    <3>3. LedInv' BY <1>1, <2>1, <3>1 DEF BoardInv, LedInv, B!Lit
    <3> QED BY <2>2, <2>3, <3>2, <3>3 DEF BoardInv
  <2>5. CASE inited
    <3>1. /\ is_on' = B!Lit(c) /\ asked' = c
          /\ chip' = IF is_on # B!Lit(c) THEN B!Lit(c) ELSE chip
      BY <2>1, <2>5 DEF B!pico_w_set_led
    <3>2. is_on \in BOOLEAN /\ chip \in BOOLEAN /\ (is_on <=> chip)
      BY DEF BoardInv, LedInv, B!TypeOK
    <3>3. chip' = B!Lit(c)
      <4> HIDE DEF B!Lit
      <4> QED BY <1>3, <3>1, <3>2, Zenon
    <3>4. is_on' \in BOOLEAN /\ chip' \in BOOLEAN BY <1>3, <3>1, <3>3
    <3>5. B!TypeOK' BY <1>1, <2>1, <3>1, <3>4 DEF BoardInv, B!TypeOK, B!Drives, B!Pin, B!Pad, B!Mode
    <3>6. (is_on <=> chip)' BY <3>1, <3>3
    <3>7. B!Lit(asked)' <=> chip' BY <3>1, <3>3 DEF B!Lit
    <3>8. LedInv' BY <1>1, <1>4, <3>6, <3>7 DEF LedInv
    <3> QED BY <2>2, <2>3, <3>5, <3>8 DEF BoardInv
  <2> QED BY <2>4, <2>5
<1>5. CASE ~is_pico_w
  <2> DEFINE v == IF B!Lit(c) THEN 1 ELSE 0
             s == B!pin_set(pad[LedPin], v)
  <2>1. pad' = [pad EXCEPT ![LedPin] = s] /\ asked' = c /\ UNCHANGED <<is_on, chip>>
    BY <1>5 DEF B!jd_rgbext_set
  <2>2. v \in {0, 1} /\ (B!Lit(c) <=> v = 1) OBVIOUS
  <2>3. s \in B!Pad /\ s.out = v /\ s.fn = pad[LedPin].fn /\ s.oe = pad[LedPin].oe
    <3> HIDE DEF v
    <3> QED BY <1>2, <2>2 DEF B!Pad, B!pin_set
  <2> HIDE DEF v, s
  <2>4. pad' \in [B!Pin -> B!Pad] /\ pad'[LedPin] = s /\ \A p \in AppPin : pad'[p] = pad[p]
    BY <1>2, <2>1, <2>3
  <2>5. B!PadMatchesMode' /\ mode'[LedPin] = B!None /\ mode'[VsysPin] = B!None
    BY <1>1, <2>4, PlatformPads
  <2>6. B!TypeOK' BY <1>1, <1>5, <2>1, <2>4 DEF BoardInv, B!TypeOK, B!Drives, B!Pin, B!Pad, B!Mode
  <2>7. BootInv' BY <1>1, <1>5, <2>3, <2>4 DEF BoardInv, BootInv, B!Drives
  <2>8. B!Lit(asked)' <=> pad'[LedPin].out = 1 BY <2>1, <2>2, <2>3, <2>4 DEF B!Lit
  <2>9. LedInv' BY <1>1, <1>5, <2>1, <2>8 DEF BoardInv, LedInv
  <2> QED BY <2>5, <2>6, <2>7, <2>9 DEF BoardInv
<1> QED BY <1>4, <1>5

\* For any pins of the application and any readings: a pin does what it was last
\* set up for (pins.c:43-173), the LED's pin is not driven on a Pico W
\* (platform.c:73), and the LED shows the last colour set since it was there, on
\* either board (platform.c:58-68, wifi_impl.c:162-172).
THEOREM BoardIsOK == B!Spec => []BoardOK
<1>1. ASSUME B!Init PROVE BoardInv
  <2>1. /\ pad = [p \in B!Pin |-> B!ResetPad] /\ mode = [p \in B!Pin |-> "none"]
        /\ ~booted /\ ~is_pico_w /\ ~inited /\ ~is_on /\ ~chip /\ asked = B!Unset
        /\ use_pico_led = 0
    BY <1>1 DEF B!Init, B!None
  <2>2. B!ResetPad \in B!Pad /\ B!ResetPad.fn = "NULL" BY DEF B!ResetPad, B!Pad
  <2>3. pad \in [B!Pin -> B!Pad] /\ pad[LedPin].fn = "NULL" BY <2>1, <2>2, BoardPinsApart
  <2>4. mode \in [B!Pin -> B!Mode] /\ mode[LedPin] = "none" /\ mode[VsysPin] = "none"
    BY <2>1, BoardPinsApart DEF B!Mode, B!None
  <2>5. B!PadMatchesMode BY <2>1 DEF B!PadMatchesMode
  <2>6. /\ booted \in BOOLEAN /\ is_pico_w \in BOOLEAN /\ inited \in BOOLEAN /\ is_on \in BOOLEAN
        /\ chip \in BOOLEAN /\ led_type \in {0, 100}
    BY <1>1 DEF B!Init
  <2>7. B!TypeOK BY <2>1, <2>3, <2>4, <2>6 DEF B!TypeOK
  <2>8. BootInv /\ LedInv BY <2>1, <2>3 DEF BootInv, LedInv, B!Drives
  <2> QED BY <2>4, <2>5, <2>7, <2>8 DEF BoardInv, B!None
<1>2. BoardInv /\ [B!Next]_(B!vars) => BoardInv'
  <2> SUFFICES ASSUME BoardInv, [B!Next]_(B!vars) PROVE BoardInv' OBVIOUS
  <2>1. CASE B!jd_wifi_init
    <3>1. /\ is_pico_w /\ inited' = TRUE
          /\ UNCHANGED <<pad, booted, led_type, is_pico_w, use_pico_led, is_on, chip, asked, mode>>
      BY <2>1 DEF B!jd_wifi_init
    <3>2. B!PadMatchesMode' /\ mode'[LedPin] = B!None /\ mode'[VsysPin] = B!None
      BY <3>1, PlatformPads
    <3>3. B!TypeOK' BY <3>1 DEF BoardInv, B!TypeOK, B!Drives, B!Pin, B!Pad, B!Mode
    <3>4. BootInv' BY <3>1 DEF BoardInv, BootInv, B!Drives
    <3>5. LedInv' BY <3>1 DEF BoardInv, LedInv, B!Lit
    <3> QED BY <3>2, <3>3, <3>4, <3>5 DEF BoardInv
  <2>2. CASE UNCHANGED B!vars
    <3>1. UNCHANGED <<pad, booted, led_type, is_pico_w, use_pico_led, inited, is_on, chip, asked, mode>>
      BY <2>2 DEF B!vars, B!led
    <3>2. B!PadMatchesMode' /\ mode'[LedPin] = B!None /\ mode'[VsysPin] = B!None
      BY <3>1, PlatformPads
    <3>3. B!TypeOK' BY <3>1 DEF BoardInv, B!TypeOK, B!Drives, B!Pin, B!Pad, B!Mode
    <3>4. BootInv' BY <3>1 DEF BoardInv, BootInv, B!Drives
    <3>5. LedInv' BY <3>1 DEF BoardInv, LedInv, B!Lit
    <3> QED BY <3>2, <3>3, <3>4, <3>5 DEF BoardInv
  <2> QED BY <2>1, <2>2, InitStep, RgbextInitStep, RgbextSetStep, AppStep DEF B!Next
<1>3. BoardInv => BoardOK
  <2> SUFFICES ASSUME BoardInv PROVE BoardOK OBVIOUS
  <2>1. B!LedFollows BY DEF BoardInv, BootInv, LedInv, B!LedFollows, B!Lit, B!TypeOK
  <2> QED BY <2>1 DEF BoardInv, BoardOK
<1> QED BY <1>1, <1>2, <1>3, PTL DEF B!Spec

-----------------------------------------------------------------------------
(* The drivers together. *)

\* Each of the four drivers keeps what it promises, from every state it can
\* reach: the temperature is the datasheet's for every sample of the converter
\* (adc.c:37-39), the pins are those of the I2C instance for every pair of pins
\* and the bus is held only on request (i2c.c:24-33, 58-63), a random buffer is
\* filled to its size and no further, of whatever size (platform.c:182-187), and
\* the host reads the string it asked for, whatever the table of strings and the
\* buffer's length (usb_descriptors.c:133-160).
THEOREM DriversAreOK == A!Spec /\ I!Spec /\ R!Spec /\ D!Spec => []DriversOK
<1>1. AdcInv => A!TypeOK /\ A!TempIsClose
  BY DEF AdcInv, A!TempIsClose, CloseTo
<1>2. I2cInv => I!TypeOK /\ I!PinsServeInst /\ I!HeldOnRequest
  BY PinFunctions DEF I2cInv, I!TypeOK, I!PinsServeInst
<1>3. RandomInv => R!TypeOK /\ R!Filled BY DEF RandomInv
<1>4. DescInv => D!TypeOK /\ D!StringIsWhole BY DEF DescInv
<1>5. AdcInv /\ I2cInv /\ RandomInv /\ DescInv => DriversOK BY <1>1, <1>2, <1>3, <1>4 DEF DriversOK
<1> QED BY <1>5, AdcInvariance, I2cInvariance, RandomInvariance, DescInvariance, PTL

\* The composition that TLC runs is one of the behaviours spoken of: a step of it
\* is a step of the pins (pins.c:9-202) or of one driver, and the others stay as
\* they are, so its three invariants hold for every value of the constants too.
THEOREM RunIsOK == AllSpec => [](EdgesOK /\ BoardOK /\ DriversOK)
<1>1. AllInit => Init /\ B!Init /\ A!Init /\ I!Init /\ R!Init /\ D!Init BY DEF AllInit
<1>2. [AllNext]_allVars => [B!Next]_(B!vars)
  BY DEF AllNext, allVars, PinsRun, boardVars, B!vars, B!led
<1>3. [AllNext]_allVars => [A!Next]_(A!vars) BY DEF AllNext, allVars, PinsRun, adcVars, A!vars
<1>4. [AllNext]_allVars => [I!Next]_(I!vars) BY DEF AllNext, allVars, PinsRun, i2cVars, I!vars
<1>5. [AllNext]_allVars => [R!Next]_(R!vars) BY DEF AllNext, allVars, PinsRun, randomVars, R!vars
<1>6. [AllNext]_allVars => [D!Next]_(D!vars) BY DEF AllNext, allVars, PinsRun, descVars, D!vars
<1>7. [AllNext]_allVars => [Next]_vars BY DEF AllNext, allVars, PinsRun
<1>8. AllSpec => Spec /\ B!Spec /\ A!Spec /\ I!Spec /\ R!Spec /\ D!Spec
  BY <1>1, <1>2, <1>3, <1>4, <1>5, <1>6, <1>7, PTL
     DEF AllSpec, Spec, B!Spec, A!Spec, I!Spec, R!Spec, D!Spec
<1> QED BY <1>8, EdgesAreServedOnce, BoardIsOK, DriversAreOK, PTL
=============================================================================

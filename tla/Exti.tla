-------------------------------- MODULE Exti --------------------------------
(***************************************************************************)
(* Pin interrupts of pins.c: exti_set_callback, exti_enable and            *)
(* exti_disable, run by the main loop or the timer handler and interrupted *)
(* between register writes, and isr_io_bank0, which serves all pins and    *)
(* which nothing preempts (IRQ_PRIORITY_EXTI is 0).  Edges come at any     *)
(* time.  JacdacUart uses one pin and takes isr_io_bank0 as one step; here *)
(* are several pins and every register access.                             *)
(***************************************************************************)
EXTENDS Integers

CONSTANTS NumPins     \* NUM_BANK0_GPIOS: 30

ASSUME PinsAssumption == NumPins \in Nat \ {0}

Pin  == 0 .. NumPins - 1
Edge == {"fall", "rise"}
None == "none"

VARIABLES
  exti_cb,     \* pins that have a callback
  exti_ev,     \* the events each pin was set up for
  intr, inte,  \* edges latched, edges enabled
  nvic,        \* IO_IRQ_BANK0 is enabled
  op,          \* the operation in progress below the interrupt: place, pin, interrupts off
  isr,         \* isr_io_bank0: the pin of the loop and the place in its body, or none
  due,         \* history: enabled pins with an edge that no callback has followed
  since,       \* history: pins with an edge since they were last turned on
  off          \* history: pins that exti_disable has turned off

vars == <<exti_cb, exti_ev, intr, inte, nvic, op, isr, due, since, off>>

Idle == [at |-> None, pin |-> 0, events |-> {}, masked |-> FALSE]

TypeOK ==
  /\ exti_cb \subseteq Pin /\ due \subseteq Pin /\ since \subseteq Pin /\ off \subseteq Pin
  /\ nvic \in BOOLEAN
  /\ exti_ev \in [Pin -> SUBSET Edge] /\ intr \in [Pin -> SUBSET Edge]
  /\ inte \in [Pin -> SUBSET Edge]
  /\ op \in [at: {None, "ack", "enable", "nvic", "dis_ack", "disable"}, pin: Pin,
             events: SUBSET Edge, masked: BOOLEAN]
  /\ isr \in [at: {None, "read", "ack", "call", "return"}, pin: Pin, events: SUBSET Edge,
              masked: {FALSE}]

Init ==
  /\ exti_cb = {} /\ exti_ev = [p \in Pin |-> {}]
  /\ intr \in [Pin -> {{}, {"fall"}}] /\ inte = [p \in Pin |-> {}] /\ nvic = FALSE
  /\ op = Idle /\ isr = Idle /\ due = {} /\ since = {} /\ off = {}

Pending(p) == intr[p] \cap inte[p] # {}

\* A pin changes.
PinEdge(p, e) ==
  /\ intr' = [intr EXCEPT ![p] = @ \cup {e}]
  /\ due' = IF e \in inte[p] THEN due \cup {p} ELSE due
  /\ since' = since \cup {p}
  /\ UNCHANGED <<exti_cb, exti_ev, inte, nvic, op, isr, off>>

-----------------------------------------------------------------------------
(* The operations, one register access at a time.  Below the interrupt     *)
(* nothing runs while it is pending.                                       *)

IsrMayStart == isr.at = None /\ nvic /\ ~op.masked /\ \E p \in Pin : Pending(p)
MayRun == isr.at = None /\ ~IsrMayStart

At(a) == MayRun /\ op.at = a

\* A pin is set up for other events only while its interrupt is off: the
\* events it had would stay enabled, and exti_disable would not know them.
exti_set_callback(p, ev) ==
  /\ At(None) /\ inte[p] = {}
  /\ exti_cb' = exti_cb \cup {p} /\ exti_ev' = [exti_ev EXCEPT ![p] = ev]
  /\ op' = [at |-> "ack", pin |-> p, events |-> ev, masked |-> FALSE] /\ off' = off \ {p}
  /\ UNCHANGED <<intr, inte, nvic, isr, due, since>>

\* Variant: interrupts stay on.
MaskedNot == FALSE

\* uart_disable calls exti_enable with interrupts off.  (Otherwise the pin's
\* own callback could turn it off in between, and EnableSet turn it on again.)
Masked == TRUE

exti_enable(p) ==
  /\ At(None) /\ p \in exti_cb
  /\ op' = [at |-> "ack", pin |-> p, events |-> exti_ev[p], masked |-> Masked] /\ off' = off \ {p}
  /\ UNCHANGED <<exti_cb, exti_ev, intr, inte, nvic, isr, due, since>>

\* Variant: stale events are not cleared.
EnableWithoutAck ==
  /\ At("ack") /\ op' = [op EXCEPT !.at = "enable"] /\ since' = since \ {op.pin}
  /\ UNCHANGED <<exti_cb, exti_ev, intr, inte, nvic, isr, off, due>>

\* gpio_set_irq_enabled_: clear stale events ...
EnableAck ==
  /\ At("ack") /\ op' = [op EXCEPT !.at = "enable"] /\ since' = since \ {op.pin}
  /\ intr' = [intr EXCEPT ![op.pin] = @ \ op.events] /\ due' = due \ {op.pin}
  /\ UNCHANGED <<exti_cb, exti_ev, inte, nvic, isr, off>>

\* ... and enable.  An edge in between counts.
EnableSet ==
  /\ At("enable") /\ op' = [op EXCEPT !.at = "nvic"]
  /\ inte' = [inte EXCEPT ![op.pin] = @ \cup op.events]
  /\ due' = IF intr[op.pin] \cap op.events # {} THEN due \cup {op.pin} ELSE due
  /\ UNCHANGED <<exti_cb, exti_ev, intr, nvic, isr, off, since>>

\* exti_set_callback turns the interrupt on last; after exti_enable it is on.
EnableNvic ==
  /\ At("nvic") /\ op' = Idle /\ nvic' = TRUE
  /\ UNCHANGED <<exti_cb, exti_ev, intr, inte, isr, due, off, since>>

exti_disable(p) ==
  /\ At(None) /\ p \in exti_cb
  /\ op' = [at |-> "dis_ack", pin |-> p, events |-> exti_ev[p], masked |-> FALSE]
  /\ UNCHANGED <<exti_cb, exti_ev, intr, inte, nvic, isr, due, off, since>>

DisableAck ==
  /\ At("dis_ack") /\ op' = [op EXCEPT !.at = "disable"]
  /\ intr' = [intr EXCEPT ![op.pin] = @ \ op.events] /\ due' = due \ {op.pin}
  /\ UNCHANGED <<exti_cb, exti_ev, inte, nvic, isr, off, since>>

DisableClear ==
  /\ At("disable") /\ op' = Idle
  /\ inte' = [inte EXCEPT ![op.pin] = @ \ op.events]
  /\ due' = due \ {op.pin} /\ off' = off \cup {op.pin}
  /\ UNCHANGED <<exti_cb, exti_ev, intr, nvic, isr, since>>

-----------------------------------------------------------------------------
(* isr_io_bank0 *)

IsrAt(a) == isr.at = a /\ UNCHANGED <<exti_cb, exti_ev, nvic, op, since>>

\* Variant: the loop ends after the first pin.
NextPinReturns == Idle

\* Variant: the loop goes one pin too far.
NextPinTooFar == IF isr.pin < NumPins THEN [Idle EXCEPT !.at = "read", !.pin = isr.pin + 1]
                                      ELSE Idle

\* On to the next pin of the loop, or return.
NextPin == IF isr.pin + 1 < NumPins THEN [Idle EXCEPT !.at = "read", !.pin = isr.pin + 1]
                                    ELSE Idle

IsrEnter ==
  /\ IsrAt(None) /\ IsrMayStart
  /\ isr' = [Idle EXCEPT !.at = "read"]
  /\ UNCHANGED <<intr, inte, due, off>>

IsrRead ==
  /\ IsrAt("read")
  /\ isr' = IF Pending(isr.pin)
            THEN [isr EXCEPT !.at = "ack", !.events = intr[isr.pin] \cap inte[isr.pin]]
            ELSE NextPin
  /\ UNCHANGED <<intr, inte, due, off>>

\* Only the events that were read.
IsrAck ==
  /\ IsrAt("ack") /\ isr' = [isr EXCEPT !.at = "call"]
  /\ intr' = [intr EXCEPT ![isr.pin] = @ \ isr.events]
  /\ UNCHANGED <<inte, due, off>>

\* The callback, which may turn its pin off, as jd_line_falling does.
IsrCall ==
  /\ IsrAt("call") /\ isr' = [isr EXCEPT !.at = "return"]
  /\ \/ due' = due \ {isr.pin} /\ UNCHANGED <<intr, inte, off>>
     \/ LET p == isr.pin
        IN  /\ p \in exti_cb
            /\ intr' = [intr EXCEPT ![p] = @ \ exti_ev[p]]
            /\ inte' = [inte EXCEPT ![p] = @ \ exti_ev[p]]
            /\ due' = due \ {p} /\ off' = off \cup {p}

\* Variant: acknowledge after the callback.
IsrReturnAcks ==
  /\ IsrAt("return") /\ isr' = NextPin
  /\ intr' = [intr EXCEPT ![isr.pin] = @ \ isr.events]
  /\ UNCHANGED <<inte, due, off>>

\* The callback returns.
IsrReturn ==
  /\ IsrAt("return") /\ isr' = NextPin
  /\ UNCHANGED <<intr, inte, due, off>>

Isr == IsrEnter \/ IsrRead \/ IsrAck \/ IsrCall \/ IsrReturn

Next ==
  \/ \E p \in Pin : \/ \E e \in Edge : PinEdge(p, e)
                    \/ \E ev \in SUBSET Edge \ {{}} : exti_set_callback(p, ev)
                    \/ exti_enable(p) \/ exti_disable(p)
  \/ EnableAck \/ EnableSet \/ EnableNvic \/ DisableAck \/ DisableClear
  \/ Isr

Spec == Init /\ [][Next]_vars

\* Interrupts are served, and the code that turned them off turns them on.
FairSpec == Spec /\ WF_vars(Isr) /\ WF_vars(EnableAck \/ EnableSet \/ EnableNvic)

-----------------------------------------------------------------------------
(* Properties. *)

Serving(p) == isr.pin = p /\ isr.at = "call"

\* No edge is lost: one that came while its pin was on leads to a callback
\* that starts later, however it falls between the reads and writes of
\* isr_io_bank0 (pins.c:72-79: acknowledge first, then call).
NoEdgeLost == \A p \in due : Pending(p) \/ Serving(p)

\* Nothing else leads to a callback, in particular no edge from before the pin
\* was turned on: "Clear stale events which might cause immediate spurious
\* handler entry" (pins.c:17-18).
NoStaleEdge == \A p \in Pin : Pending(p) \/ (isr.pin = p /\ isr.at = "ack") => p \in since

\* A pin that was turned off stays so until it is turned on (pins.c:196-198).
OffIsOff == \A p \in off : inte[p] = {}

\* The callbacks called are those of the edges that came while their pins were
\* on, no more and no fewer (pins.c:9-41, 69-81, 182-202).
EdgesOK == TypeOK /\ NoEdgeLost /\ NoStaleEdge /\ OffIsOff

\* Edges of one pin do not starve another (pins.c:72).
EdgesServed == \A p \in Pin : (nvic /\ p \in due) ~> (p \notin due)
=============================================================================

----------------------------- MODULE UsbProofs ------------------------------
(***************************************************************************)
(* Proofs about Hid and Cdc: for any replaced reports, buttons, movements  *)
(* and width of a coordinate, and for any sizes of packets and queues.     *)
(***************************************************************************)
EXTENDS MCUsb, Sequences, TLAPS

-----------------------------------------------------------------------------
(* Coordinates count modulo Width. *)

LEMMA Wraps ==
  ASSUME NEW W \in Nat \ {0}, NEW x \in Int, -W <= x, x < 2 * W
  PROVE  x % W = IF x < 0 THEN x + W ELSE IF x < W THEN x ELSE x - W
<1>1. CASE x < 0 BY <1>1
<1>2. CASE 0 <= x /\ x < W BY <1>2
<1>3. CASE W <= x BY <1>3
<1> QED BY <1>1, <1>2, <1>3

\* A movement that is taken away again leaves the other, ...
LEMMA Sums ==
  ASSUME NEW W \in Nat \ {0}, NEW a \in 0 .. W - 1, NEW b \in 0 .. W - 1
  PROVE  /\ (a + b) % W \in 0 .. W - 1 /\ (a - b) % W \in 0 .. W - 1
         /\ (((a + b) % W) - b) % W = a /\ a % W = a
<1> DEFINE R(x) == IF x < 0 THEN x + W ELSE IF x < W THEN x ELSE x - W
<1>1. \A x, y \in Int : x = y /\ -W <= y /\ y < 2 * W => x % W = R(y) BY Wraps
<1>2. /\ a + b \in Int /\ a - b \in Int /\ a \in Int /\ -W <= a + b /\ a + b < 2 * W
      /\ -W <= a - b /\ a - b < 2 * W /\ -W <= a /\ a < 2 * W
  OBVIOUS
<1>3. R(a + b) \in 0 .. W - 1 /\ R(a - b) \in 0 .. W - 1 OBVIOUS
<1>4. R(R(a + b) - b) = a /\ R(a) = a OBVIOUS
<1> HIDE DEF R
<1>5. (a + b) % W = R(a + b) /\ (a - b) % W = R(a - b) /\ a % W = R(a) BY <1>1, <1>2
<1>6. R(a + b) - b \in Int /\ -W <= R(a + b) - b /\ R(a + b) - b < 2 * W BY <1>3
<1>7. (R(a + b) - b) % W = R(R(a + b) - b) BY <1>1, <1>6
<1> QED BY <1>3, <1>4, <1>5, <1>7

\* ... and movements are added in any order.
LEMMA Swap ==
  ASSUME NEW W \in Nat \ {0}, NEW a \in 0 .. W - 1, NEW b \in 0 .. W - 1, NEW c \in 0 .. W - 1
  PROVE  (((a + b) % W) + c) % W = (((a + c) % W) + b) % W
<1> DEFINE R(x) == IF x < 0 THEN x + W ELSE IF x < W THEN x ELSE x - W
<1>1. \A x, y \in Int : x = y /\ -W <= y /\ y < 2 * W => x % W = R(y) BY Wraps
<1>2. /\ a + b \in Int /\ a + c \in Int /\ -W <= a + b /\ a + b < 2 * W
      /\ -W <= a + c /\ a + c < 2 * W
  OBVIOUS
<1>3. R(a + b) \in 0 .. W - 1 /\ R(a + c) \in 0 .. W - 1 OBVIOUS
<1>4. R(R(a + b) + c) = R(R(a + c) + b) OBVIOUS
<1> HIDE DEF R
<1>5. (a + b) % W = R(a + b) /\ (a + c) % W = R(a + c) BY <1>1, <1>2
<1>6. /\ R(a + b) + c \in Int /\ R(a + c) + b \in Int
      /\ -W <= R(a + b) + c /\ R(a + b) + c < 2 * W /\ -W <= R(a + c) + b /\ R(a + c) + b < 2 * W
  BY <1>3
<1>7. (R(a + b) + c) % W = R(R(a + b) + c) /\ (R(a + c) + b) % W = R(R(a + c) + b)
  BY <1>1, <1>6
<1> QED BY <1>4, <1>5, <1>7

-----------------------------------------------------------------------------
(* Hid: the inductive invariant. *)

\* A mouse report that is not marked has nothing to tell.
MouseInv == ~dirty[Mouse] => mouse = NoMove

HidInv == TypeOK /\ MouseConserved /\ MouseInv

LEMMA NoMoveType == NoMove \in Move /\ NoMove.x = 0 /\ NoMove.buttons = {}
  BY HidInputs DEF NoMove, Move

\* The mouse in a state of HidInv.
LEMMA MouseTypes ==
  ASSUME TypeOK
  PROVE  /\ mouse \in Move /\ sent[Mouse] \in Move /\ InFlight \in Move
         /\ mouse.x \in 0 .. Width - 1 /\ mouse.buttons \subseteq Button
         /\ InFlight.x \in 0 .. Width - 1 /\ InFlight.buttons \subseteq Button
         /\ Width \in Nat \ {0} /\ owed \in 0 .. Width - 1 /\ Mouse \in Itf /\ Mouse \notin Latest
<1>1. Mouse \in Itf /\ Mouse \notin Latest BY HidInputs DEF Itf
<1>2. mouse \in Move /\ sent[Mouse] \in Move BY <1>1 DEF TypeOK
<1>3. InFlight \in Move BY <1>2, NoMoveType DEF InFlight
<1> QED BY <1>1, <1>2, <1>3, HidInputs DEF TypeOK, Move

LEMMA HidInit == Init => HidInv
<1> SUFFICES ASSUME Init PROVE HidInv OBVIOUS
<1>1. Mouse \in Itf /\ Released \in Report /\ Width \in Nat \ {0} BY HidInputs DEF Itf
<1>2. TypeOK
  <2>1. \A i \in Itf : sent[i] \in IF i = Mouse THEN Move ELSE Report
    BY <1>1, NoMoveType DEF Init, Empty
  <2>2. 0 \in 0 .. Width - 1 BY <1>1
  <2> QED BY <1>1, <2>1, <2>2, NoMoveType DEF Init, TypeOK
<1>3. ep[Mouse] = "idle" /\ mouse = NoMove /\ owed = 0 /\ unseen = {} BY <1>1 DEF Init
<1>4. InFlight = NoMove BY <1>3 DEF InFlight
<1>5. 0 = (0 + 0) % Width BY <1>1
<1>6. MouseConserved BY <1>3, <1>4, <1>5, NoMoveType DEF MouseConserved
<1> QED BY <1>2, <1>3, <1>6 DEF HidInv, MouseInv

\* A report of the keyboard or of the gamepad.
LEMMA SetReportStep ==
  ASSUME HidInv, NEW i \in Latest, NEW r \in Report, set_report(i, r)
  PROVE  HidInv'
<1>1. Mouse # i /\ i \in Itf BY HidInputs DEF Itf
<1>2. TypeOK' BY <1>1 DEF HidInv, TypeOK, set_report
<1>3. dirty'[Mouse] = dirty[Mouse] /\ UNCHANGED <<mouse, ep, sent, owed, unseen>>
  BY <1>1 DEF HidInv, TypeOK, set_report, Itf
<1>4. MouseConserved' BY <1>3 DEF HidInv, MouseConserved, InFlight
<1>5. MouseInv' BY <1>3 DEF HidInv, MouseInv
<1> QED BY <1>2, <1>4, <1>5 DEF HidInv

\* A movement.
LEMMA MoveStep ==
  ASSUME HidInv, NEW m \in Move, jd_hid_mouse_move(m)
  PROVE  HidInv'
<1>1. /\ mouse.x \in 0 .. Width - 1 /\ mouse.buttons \subseteq Button
      /\ InFlight.x \in 0 .. Width - 1 /\ Width \in Nat \ {0} /\ owed \in 0 .. Width - 1
      /\ Mouse \in Itf
  BY MouseTypes DEF HidInv
<1>2. m.x \in 0 .. Width - 1 /\ m.buttons \subseteq Button BY DEF Move
<1>3. /\ mouse' = Added(m) /\ dirty' = [dirty EXCEPT ![Mouse] = TRUE]
      /\ owed' = (owed + m.x) % Width /\ unseen' = unseen \cup m.buttons
      /\ UNCHANGED <<report, ep, sent, mounted, host, fresh>>
  BY DEF jd_hid_mouse_move
<1>4. mouse'.x = (mouse.x + m.x) % Width /\ mouse'.buttons = mouse.buttons \cup m.buttons
  BY <1>3 DEF Added
<1>5. mouse' \in Move
  <2>1. (mouse.x + m.x) % Width \in 0 .. Width - 1 BY <1>1, <1>2, Sums
  <2> QED BY <1>1, <1>2, <1>3, <2>1 DEF Added, Move
<1>6. dirty'[Mouse] /\ dirty' \in [Itf -> BOOLEAN] BY <1>1, <1>3 DEF HidInv, TypeOK
<1>7. owed' \in 0 .. Width - 1 BY <1>1, <1>2, <1>3, Sums
<1>8. TypeOK' BY <1>2, <1>3, <1>5, <1>6, <1>7 DEF HidInv, TypeOK
<1>9. InFlight' = InFlight BY <1>3 DEF InFlight
<1>10. owed' = (mouse'.x + InFlight.x) % Width
  <2>1. owed = (mouse.x + InFlight.x) % Width BY DEF HidInv, MouseConserved
  <2>2. (((mouse.x + InFlight.x) % Width) + m.x) % Width
          = (((mouse.x + m.x) % Width) + InFlight.x) % Width
    BY <1>1, <1>2, Swap
  <2> QED BY <1>3, <1>4, <2>1, <2>2
<1>11. unseen' \subseteq mouse'.buttons \cup InFlight.buttons
  BY <1>3, <1>4 DEF HidInv, MouseConserved
<1> QED BY <1>6, <1>8, <1>9, <1>10, <1>11 DEF HidInv, MouseConserved, MouseInv

\* The main loop gives the reports to TinyUSB.
LEMMA ProcessStep == ASSUME HidInv, hid_process PROVE HidInv'
<1>1. /\ mouse \in Move /\ sent[Mouse] \in Move /\ mouse.x \in 0 .. Width - 1
      /\ Width \in Nat \ {0} /\ Mouse \in Itf /\ Mouse \notin Latest
  BY MouseTypes DEF HidInv
<1>2. /\ dirty' = [i \in Itf |-> DirtyAfter(i)]
      /\ ep' = [i \in Itf |-> IF Sends(i) THEN "queued" ELSE Polled[i]]
      /\ mouse' = (IF Sends(Mouse) THEN NoMove ELSE mouse)
      /\ UNCHANGED <<report, mounted, host, fresh, owed, unseen>>
  BY DEF hid_process, MouseSent
<1>3. \A i \in Itf : sent'[i] = IF i = Mouse THEN (IF Sends(Mouse) THEN mouse ELSE sent[Mouse])
                                ELSE IF Sends(i) THEN report[i] ELSE sent[i]
  BY DEF hid_process, MouseSent
<1>4. \A i \in Itf : Polled[i] = IF ep[i] = "done" THEN "idle" ELSE ep[i] BY DEF Polled
<1>5. \A i \in Itf : Sends(i) => dirty[i] /\ mounted /\ ep[i] # "queued"
  BY <1>4 DEF Sends
<1>6. TypeOK'
  <2>1. mouse' \in Move BY <1>1, <1>2, NoMoveType
  <2>2. dirty' \in [Itf -> BOOLEAN] BY <1>2 DEF HidInv, TypeOK, DirtyAfter, Sends
  <2>3. ep' \in [Itf -> {"idle", "queued", "done"}] BY <1>2, <1>4 DEF HidInv, TypeOK
  <2>4. \A i \in Itf : sent'[i] \in IF i = Mouse THEN Move ELSE Report
    BY <1>1, <1>3 DEF HidInv, TypeOK, Itf
  <2>5. ~mounted' => \A i \in Itf : ep'[i] = "idle" BY <1>2, <1>4, <1>5 DEF HidInv, TypeOK
  <2> QED BY <1>2, <2>1, <2>2, <2>3, <2>4, <2>5 DEF HidInv, TypeOK
<1>7. CASE Sends(Mouse)
  <2>1. InFlight = NoMove BY <1>1, <1>5, <1>7 DEF InFlight
  <2>2. mouse' = NoMove /\ ep'[Mouse] = "queued" /\ sent'[Mouse] = mouse
    BY <1>1, <1>2, <1>3, <1>7
  <2>3. InFlight' = mouse BY <2>2 DEF InFlight
  <2>4. owed' = (mouse'.x + InFlight'.x) % Width
    <3>1. owed = (mouse.x + 0) % Width BY <2>1, NoMoveType DEF HidInv, MouseConserved
    <3>2. mouse.x + 0 = 0 + mouse.x BY <1>1
    <3> QED BY <1>2, <2>2, <2>3, <3>1, <3>2, NoMoveType
  <2>5. unseen' \subseteq mouse'.buttons \cup InFlight'.buttons
    BY <1>2, <2>1, <2>3, NoMoveType DEF HidInv, MouseConserved
  <2> QED BY <1>6, <2>2, <2>4, <2>5 DEF HidInv, MouseConserved, MouseInv
<1>8. CASE ~Sends(Mouse)
  <2>1. /\ mouse' = mouse /\ ep'[Mouse] = Polled[Mouse] /\ sent'[Mouse] = sent[Mouse]
        /\ dirty'[Mouse] = dirty[Mouse]
    BY <1>1, <1>2, <1>3, <1>8 DEF DirtyAfter, HidInv, TypeOK
  <2>2. ep'[Mouse] = "queued" <=> ep[Mouse] = "queued" BY <1>1, <1>4, <2>1
  <2>3. InFlight' = InFlight BY <2>1, <2>2 DEF InFlight
  <2> QED BY <1>2, <1>6, <2>1, <2>2, <2>3 DEF HidInv, MouseConserved, MouseInv
<1> QED BY <1>7, <1>8

\* What was in the endpoint has arrived, or is lost: the rest is still owed.
LEMMA ArrivesStep ==
  ASSUME HidInv, ep[Mouse] = "queued", ep'[Mouse] # "queued", UNCHANGED <<mouse, dirty>>,
         owed' = (owed - sent[Mouse].x) % Width, unseen' = unseen \ sent[Mouse].buttons
  PROVE  owed' \in 0 .. Width - 1 /\ unseen' \subseteq Button /\ MouseConserved' /\ MouseInv'
<1>1. /\ mouse.x \in 0 .. Width - 1 /\ mouse.buttons \subseteq Button
      /\ InFlight.x \in 0 .. Width - 1 /\ Width \in Nat \ {0} /\ owed \in 0 .. Width - 1
  BY MouseTypes DEF HidInv
<1>2. InFlight = sent[Mouse] /\ InFlight' = NoMove BY DEF InFlight
<1>3. owed = (mouse.x + InFlight.x) % Width BY DEF HidInv, MouseConserved
<1>4. owed' = mouse.x BY <1>1, <1>2, <1>3, Sums
<1>5. mouse.x = (mouse.x + 0) % Width
  <2>1. mouse.x + 0 = mouse.x BY <1>1
  <2> QED BY <1>1, <2>1, Sums
<1>6. unseen' \subseteq mouse.buttons BY <1>2 DEF HidInv, MouseConserved
<1>7. MouseInv' BY DEF HidInv, MouseInv
<1>8. ~dirty[Mouse] => owed' = 0 /\ unseen' = {}
  BY <1>4, <1>6, NoMoveType DEF HidInv, MouseInv
<1>9. MouseConserved' BY <1>2, <1>4, <1>5, <1>6, <1>8, NoMoveType DEF MouseConserved
<1> QED BY <1>1, <1>4, <1>6, <1>7, <1>9

LEMMA PollStep == ASSUME HidInv, NEW i \in Itf, HostPolls(i) PROVE HidInv'
<1>1. /\ ep[i] = "queued" /\ ep' = [ep EXCEPT ![i] = "done"]
      /\ UNCHANGED <<report, mouse, dirty, sent, mounted, fresh>>
  BY DEF HostPolls
<1>2. ep' \in [Itf -> {"idle", "queued", "done"}] /\ ep'[i] = "done" /\ mounted
  BY <1>1 DEF HidInv, TypeOK
<1>3. Mouse \in Itf BY DEF Itf
<1>4. CASE i = Mouse
  <2>1. /\ owed' = (owed - sent[Mouse].x) % Width /\ unseen' = unseen \ sent[Mouse].buttons
        /\ host' = host
    BY <1>4 DEF HostPolls
  <2>2. owed' \in 0 .. Width - 1 /\ unseen' \subseteq Button /\ MouseConserved' /\ MouseInv'
    BY <1>1, <1>2, <1>4, <2>1, ArrivesStep
  <2>3. TypeOK' BY <1>1, <1>2, <2>1, <2>2 DEF HidInv, TypeOK
  <2> QED BY <2>2, <2>3 DEF HidInv
<1>5. CASE i # Mouse
  <2>1. host' = [host EXCEPT ![i] = sent[i]] /\ UNCHANGED <<owed, unseen>> BY <1>5 DEF HostPolls
  <2>2. host' \in [Latest -> Report] BY <1>5, <2>1 DEF HidInv, TypeOK, Itf
  <2>3. TypeOK' BY <1>1, <1>2, <2>1, <2>2 DEF HidInv, TypeOK
  <2>4. ep'[Mouse] = ep[Mouse] BY <1>1, <1>3, <1>5 DEF HidInv, TypeOK
  <2>5. MouseConserved' /\ MouseInv'
    BY <1>1, <2>1, <2>4 DEF HidInv, MouseConserved, MouseInv, InFlight
  <2> QED BY <2>3, <2>5 DEF HidInv
<1> QED BY <1>4, <1>5

LEMMA ResetStep == ASSUME HidInv, BusReset PROVE HidInv'
<1>1. /\ mounted' = FALSE /\ ep' = [i \in Itf |-> "idle"] /\ sent' = Empty
      /\ host' = [i \in Latest |-> Released] /\ fresh' \subseteq Latest
      /\ UNCHANGED <<report, mouse, dirty>>
  BY DEF BusReset
<1>2. Mouse \in Itf /\ Released \in Report BY HidInputs DEF Itf
<1>3. ep'[Mouse] = "idle" BY <1>1, <1>2
<1>4. owed' \in 0 .. Width - 1 /\ unseen' \subseteq Button /\ MouseConserved' /\ MouseInv'
  <2>1. CASE ep[Mouse] = "queued"
    <3>1. owed' = (owed - sent[Mouse].x) % Width /\ unseen' = unseen \ sent[Mouse].buttons
      BY <2>1 DEF BusReset
    <3> QED BY <1>1, <1>3, <2>1, <3>1, ArrivesStep
  <2>2. CASE ep[Mouse] # "queued"
    <3>1. UNCHANGED <<owed, unseen>> BY <2>2 DEF BusReset
    <3>2. InFlight' = InFlight BY <1>3, <2>2 DEF InFlight
    <3> QED BY <1>1, <1>3, <2>2, <3>1, <3>2 DEF HidInv, TypeOK, MouseConserved, MouseInv
  <2> QED BY <2>1, <2>2
<1>5. TypeOK'
  <2>1. \A i \in Itf : sent'[i] \in IF i = Mouse THEN Move ELSE Report
    BY <1>1, <1>2, NoMoveType DEF Empty
  <2> QED BY <1>1, <1>2, <1>4, <2>1 DEF HidInv, TypeOK
<1> QED BY <1>4, <1>5 DEF HidInv

LEMMA HidStep == HidInv /\ [Next]_vars => HidInv'
<1> SUFFICES ASSUME HidInv, [Next]_vars PROVE HidInv' OBVIOUS
<1>1. ASSUME NEW i \in Latest, NEW r \in Report, set_report(i, r) PROVE HidInv'
  BY <1>1, SetReportStep
<1>2. ASSUME NEW b \in SUBSET Button, NEW x \in Step,
             jd_hid_mouse_move([buttons |-> b, x |-> x])
      PROVE  HidInv'
  <2>1. [buttons |-> b, x |-> x] \in Move BY HidInputs DEF Move
  <2> QED BY <1>2, <2>1, MoveStep
<1>3. CASE hid_process BY <1>3, ProcessStep
<1>4. CASE Configure
  <2>1. TypeOK' BY <1>4 DEF HidInv, TypeOK, Configure
  <2>2. MouseConserved' /\ MouseInv'
    BY <1>4 DEF HidInv, MouseConserved, MouseInv, InFlight, Configure
  <2> QED BY <2>1, <2>2 DEF HidInv
<1>5. CASE BusReset BY <1>5, ResetStep
<1>6. ASSUME NEW i \in Itf, HostPolls(i) PROVE HidInv' BY <1>6, PollStep
<1>7. CASE UNCHANGED vars
  <2>1. TypeOK' BY <1>7 DEF HidInv, TypeOK, vars
  <2>2. MouseConserved' /\ MouseInv' BY <1>7 DEF HidInv, MouseConserved, MouseInv, InFlight, vars
  <2> QED BY <2>1, <2>2 DEF HidInv
<1> QED BY <1>1, <1>2, <1>3, <1>4, <1>5, <1>6, <1>7 DEF Next, App

\* No movement of the mouse is lost or counted twice and no pressed button is
\* forgotten, for coordinates of any width and any set of reports: hid.c:27-60.
THEOREM HidIsOK == Spec => []HidOK
<1>1. HidInv => HidOK BY DEF HidInv, HidOK
<1> QED BY <1>1, HidInit, HidStep, PTL DEF Spec

-----------------------------------------------------------------------------
(* Cdc: the inductive invariant. *)

\* The packet that the host has still to read.
Queued == IF ep_state = "queued" THEN cdc_ep ELSE <<>>

\* s is the part of the stream behind byte a.
Run(s, a) == \A i \in 1 .. Len(s) : s[i] = a + i

\* Byte by byte what NothingDropped says, for the packet and the queue apart.
TxInv ==
  /\ fifo \in C!Bytes /\ Len(fifo) <= TxFifo /\ cdc_ep \in C!Bytes /\ Len(cdc_ep) <= Packet
  /\ ep_state \in {"idle", "queued", "done"} /\ (ep_state = "idle" => cdc_ep = <<>>)
  /\ Run(Queued, got) /\ Run(fifo, got + Len(Queued))
  /\ got + Len(Queued) + Len(fifo) = pulled

RxInv ==
  /\ rx_event \in BOOLEAN /\ rx \in C!Bytes /\ Len(rx) <= RxFifo
  /\ came \in 0 .. MaxBytes /\ pushed \in 0 .. MaxBytes

LoopInv ==
  /\ connected \in BOOLEAN /\ pc \in {"idle", "fill"} /\ (pc = "fill" => connected)
  /\ {made, pulled, got} \subseteq 0 .. MaxBytes /\ pulled <= made

CdcInv == LoopInv /\ TxInv /\ RxInv

LEMMA CdcNumbers ==
  /\ Packet \in Nat \ {0} /\ TxFifo \in Nat /\ RxFifo \in Nat /\ MaxBytes \in Nat
  /\ Packet <= TxFifo
  BY CdcAssumption DEF C!CdcSizes

LEMMA EmptyBytes == <<>> \in C!Bytes /\ Len(<<>>) = 0 /\ \A a : Run(<<>>, a)
  BY DEF C!Bytes, Run

LEMMA ElementType ==
  ASSUME NEW S, NEW s \in Seq(S)
  PROVE  \A i \in 1 .. Len(s) : s[i] \in S
  OBVIOUS

LEMMA JoinType ==
  ASSUME NEW S, NEW s \in Seq(S), NEW t \in Seq(S)
  PROVE  s \o t \in Seq(S) /\ Len(s \o t) = Len(s) + Len(t)
  OBVIOUS

\* A part of the stream is a value of Range1.
LEMMA RunIsRange ==
  ASSUME NEW s \in C!Bytes, NEW a \in Nat
  PROVE  Run(s, a) <=> s = C!Range1(a, Len(s))
<1>1. s = [i \in 1 .. Len(s) |-> s[i]] /\ Len(s) \in Nat BY DEF C!Bytes
<1>2. ASSUME Run(s, a) PROVE s = C!Range1(a, Len(s)) BY <1>1, <1>2 DEF Run, C!Range1
<1>3. ASSUME s = C!Range1(a, Len(s)) PROVE Run(s, a)
  <2> SUFFICES ASSUME NEW i \in 1 .. Len(s) PROVE s[i] = a + i BY DEF Run
  <2>1. C!Range1(a, Len(s))[i] = a + i BY DEF C!Range1
  <2> QED BY <1>3, <2>1
<1> QED BY <1>2, <1>3

\* A range inside the stream.
LEMMA RangeType ==
  ASSUME NEW a \in Nat, NEW n \in Nat, a + n <= MaxBytes
  PROVE  /\ C!Range1(a, n) \in C!Bytes /\ Len(C!Range1(a, n)) = n
         /\ \A i \in 1 .. n : C!Range1(a, n)[i] = a + i
<1>1. \A i \in 1 .. n : a + i \in 1 .. MaxBytes BY CdcNumbers
<1> QED BY <1>1 DEF C!Range1, C!Bytes

\* A flush splits the queue into a packet and the rest, in order.
LEMMA FlushEffect ==
  ASSUME NEW q \in C!Bytes, Len(q) <= TxFifo, NEW g \in Nat, Run(q, g), C!FlushInto(q)
  PROVE  /\ fifo' \in C!Bytes /\ Len(fifo') <= TxFifo
         /\ cdc_ep' \in C!Bytes /\ Len(cdc_ep') <= Packet
         /\ ep_state' \in {"idle", "queued", "done"} /\ (ep_state' = "idle" => cdc_ep' = <<>>)
         /\ Run(Queued', g) /\ Run(fifo', g + Len(Queued'))
         /\ Len(Queued') + Len(fifo') = Len(q)
<1> DEFINE n == C!Least(Len(q), Packet)
<1>1. Len(q) \in Nat /\ q \in Seq(1 .. MaxBytes) BY DEF C!Bytes
<1>2. n \in 0 .. Len(q) /\ n <= Packet BY <1>1, CdcNumbers DEF C!Least
<1>3. n = 0 => Len(q) = 0 BY <1>1, CdcNumbers DEF C!Least
<1>4. CASE n = 0
  <2>1. fifo' = q /\ cdc_ep' = <<>> /\ ep_state' = "idle" BY <1>4 DEF C!FlushInto
  <2>2. Queued' = <<>> BY <2>1 DEF Queued
  <2>3. Run(Queued', g) /\ Len(Queued') = 0 BY <2>2, EmptyBytes
  <2>4. g + 0 = g /\ 0 + Len(q) = Len(q) BY <1>1
  <2> QED BY <2>1, <2>3, <2>4, CdcNumbers, EmptyBytes
<1>5. CASE n # 0
  <2>1. fifo' = SubSeq(q, n + 1, Len(q)) /\ cdc_ep' = SubSeq(q, 1, n) /\ ep_state' = "queued"
    BY <1>5 DEF C!FlushInto
  <2> HIDE DEF n
  <2>2. Queued' = cdc_ep' BY <2>1 DEF Queued
  <2>3. \A i \in 1 .. Len(q) : q[i] \in 1 .. MaxBytes BY <1>1, ElementType
  <2>4. /\ cdc_ep' \in Seq(1 .. MaxBytes) /\ Len(cdc_ep') = n
        /\ \A i \in 1 .. n : cdc_ep'[i] = q[i]
    BY <1>1, <1>2, <2>1, <2>3
  <2>5. /\ fifo' \in Seq(1 .. MaxBytes) /\ Len(fifo') = Len(q) - n
        /\ \A i \in 1 .. Len(q) - n : fifo'[i] = q[n + i]
    BY <1>1, <1>2, <2>1, <2>3
  <2>6. Run(cdc_ep', g)
    <3> SUFFICES ASSUME NEW i \in 1 .. n PROVE cdc_ep'[i] = g + i BY <2>4 DEF Run
    <3>1. i \in 1 .. Len(q) BY <1>1, <1>2
    <3> QED BY <2>4, <3>1 DEF Run
  <2>7. Run(fifo', g + n)
    <3> SUFFICES ASSUME NEW i \in 1 .. Len(q) - n PROVE fifo'[i] = (g + n) + i BY <2>5 DEF Run
    <3>1. n + i \in 1 .. Len(q) /\ g + (n + i) = (g + n) + i BY <1>1, <1>2
    <3> QED BY <2>5, <3>1 DEF Run
  <2>8. n + (Len(q) - n) = Len(q) /\ Len(q) - n <= TxFifo BY <1>1, <1>2, CdcNumbers
  <2> QED BY <1>2, <2>1, <2>2, <2>4, <2>5, <2>6, <2>7, <2>8 DEF C!Bytes
<1> QED BY <1>4, <1>5

LEMMA CdcInit == C!Init => CdcInv
<1> SUFFICES ASSUME C!Init PROVE CdcInv OBVIOUS
<1>1. /\ connected = FALSE /\ pc = "idle" /\ made = 0 /\ pulled = 0 /\ got = 0
      /\ fifo = <<>> /\ cdc_ep = <<>> /\ ep_state = "idle"
      /\ rx = <<>> /\ rx_event = FALSE /\ came = 0 /\ pushed = 0
  BY DEF C!Init
<1>2. Queued = <<>> BY <1>1 DEF Queued
<1>3. 0 \in 0 .. MaxBytes /\ 0 <= TxFifo /\ 0 <= Packet /\ 0 <= RxFifo BY CdcNumbers
<1>4. LoopInv
  <2>1. connected \in BOOLEAN /\ pc \in {"idle", "fill"} /\ pc # "fill" BY <1>1
  <2>2. {made, pulled, got} \subseteq 0 .. MaxBytes /\ pulled <= made BY <1>1, <1>3
  <2> QED BY <2>1, <2>2 DEF LoopInv
<1>5. TxInv BY <1>1, <1>2, <1>3, EmptyBytes DEF TxInv
<1>6. RxInv BY <1>1, <1>3, EmptyBytes DEF RxInv
<1> QED BY <1>4, <1>5, <1>6 DEF CdcInv

\* The lengths and numbers of the transmit side.
LEMMA TxNumbers ==
  ASSUME CdcInv
  PROVE  /\ got \in Nat /\ pulled \in Nat /\ made \in Nat /\ made <= MaxBytes
         /\ Len(fifo) \in Nat /\ Len(cdc_ep) \in Nat /\ Len(Queued) \in Nat
         /\ Queued \in C!Bytes
<1>1. Queued \in C!Bytes BY EmptyBytes DEF CdcInv, TxInv, Queued
<1> QED BY <1>1, CdcNumbers DEF CdcInv, LoopInv, TxInv, C!Bytes

\* tud_task starts the next packet.
LEMMA TaskTxEffect ==
  ASSUME CdcInv, C!TaskTx, UNCHANGED <<got, pulled>>
  PROVE  TxInv'
<1>1. CASE ep_state = "done"
  <2>1. Queued = <<>> /\ C!FlushInto(fifo) BY <1>1 DEF Queued, C!TaskTx
  <2>2. Run(fifo, got) /\ got + Len(fifo) = pulled
    <3>1. got + Len(Queued) = got BY <2>1, EmptyBytes, TxNumbers
    <3> QED BY <3>1 DEF CdcInv, TxInv
  <2>3. fifo \in C!Bytes /\ Len(fifo) <= TxFifo BY DEF CdcInv, TxInv
  <2>4. got \in Nat BY TxNumbers
  <2>5. /\ fifo' \in C!Bytes /\ Len(fifo') <= TxFifo
        /\ cdc_ep' \in C!Bytes /\ Len(cdc_ep') <= Packet
        /\ ep_state' \in {"idle", "queued", "done"} /\ (ep_state' = "idle" => cdc_ep' = <<>>)
        /\ Run(Queued', got) /\ Run(fifo', got + Len(Queued'))
        /\ Len(Queued') + Len(fifo') = Len(fifo)
    BY <2>1, <2>2, <2>3, <2>4, FlushEffect
  <2>6. Len(Queued') \in Nat /\ Len(fifo') \in Nat
    <3>1. Queued' \in C!Bytes BY <2>5, EmptyBytes DEF Queued
    <3> QED BY <2>5, <3>1 DEF C!Bytes
  <2>7. got + Len(Queued') + Len(fifo') = pulled BY <2>2, <2>4, <2>5, <2>6
  <2> QED BY <2>5, <2>7 DEF TxInv
<1>2. CASE ep_state # "done"
  <2>1. UNCHANGED <<fifo, cdc_ep, ep_state>> BY <1>2 DEF C!TaskTx
  <2>2. Queued' = Queued BY <2>1 DEF Queued
  <2> QED BY <2>1, <2>2 DEF CdcInv, TxInv
<1> QED BY <1>1, <1>2

\* tud_task gives what came to tud_cdc_rx_cb.
LEMMA TaskRxEffect ==
  ASSUME RxInv, C!TaskRx
  PROVE  RxInv'
<1>1. CASE ~rx_event BY <1>1 DEF RxInv, C!TaskRx, C!in
<1>2. CASE rx_event
  <2>1. /\ rx_event' = FALSE /\ rx' = SubSeq(rx, Len(rx) + 1, Len(rx)) /\ came' = came
        /\ pushed' = IF rx = C!Range1(pushed, Len(rx)) THEN pushed + Len(rx) ELSE pushed
    BY <1>2 DEF C!TaskRx, C!Drained
  <2>2. rx \in Seq(1 .. MaxBytes) /\ Len(rx) \in Nat BY DEF RxInv, C!Bytes
  <2>3. rx' = <<>> BY <2>1, <2>2
  <2>4. pushed' \in 0 .. MaxBytes
    <3>1. CASE rx # C!Range1(pushed, Len(rx)) BY <2>1, <3>1 DEF RxInv
    <3>2. CASE rx = C!Range1(pushed, Len(rx)) /\ Len(rx) = 0
      BY <2>1, <3>2, CdcNumbers DEF RxInv
    <3>3. CASE rx = C!Range1(pushed, Len(rx)) /\ Len(rx) # 0
      <4>1. Len(rx) \in 1 .. Len(rx) BY <2>2, <3>3
      <4>2. rx[Len(rx)] \in 1 .. MaxBytes BY <2>2, <4>1, ElementType
      <4>3. C!Range1(pushed, Len(rx))[Len(rx)] = pushed + Len(rx) BY <4>1 DEF C!Range1
      <4>4. pushed + Len(rx) \in 1 .. MaxBytes BY <3>3, <4>2, <4>3
      <4> QED BY <2>1, <3>3, <4>4, CdcNumbers
    <3> QED BY <3>1, <3>2, <3>3
  <2>5. rx' \in C!Bytes /\ Len(rx') <= RxFifo BY <2>3, EmptyBytes, CdcNumbers
  <2>6. rx_event' \in BOOLEAN /\ came' \in 0 .. MaxBytes BY <2>1 DEF RxInv
  <2> QED BY <2>4, <2>5, <2>6 DEF RxInv
<1> QED BY <1>1, <1>2 DEF RxInv

\* The loop of jd_usb_process: what is pulled goes behind the queue as a whole.
LEMMA FillStep == ASSUME CdcInv, C!Fill PROVE CdcInv'
<1>1. PICK sz \in 1 .. C!Least(Packet, made - pulled) :
        /\ pulled' = pulled + sz
        /\ C!Flush(fifo \o SubSeq(C!Range1(pulled, sz), 1, C!Least(sz, TxFifo - Len(fifo))))
  BY DEF C!Fill
<1>2. /\ pc = "fill" /\ C!Room
      /\ UNCHANGED <<connected, pc, made, got, rx, rx_event, came, pushed>>
  BY DEF C!Fill, C!in
<1>3. /\ got \in Nat /\ pulled \in Nat /\ made \in Nat /\ made <= MaxBytes /\ pulled <= made
      /\ Len(fifo) \in Nat /\ Len(Queued) \in Nat
  BY TxNumbers DEF CdcInv, LoopInv
<1>4. sz \in Nat /\ sz <= Packet /\ pulled + sz <= made BY <1>3, CdcNumbers DEF C!Least
<1>5. sz <= TxFifo - Len(fifo) BY <1>2, <1>3, <1>4, CdcNumbers DEF C!Room
<1>6. C!Least(sz, TxFifo - Len(fifo)) = sz BY <1>3, <1>4, <1>5, CdcNumbers DEF C!Least
<1> DEFINE r == C!Range1(pulled, sz)
           q == fifo \o r
<1>7. r \in C!Bytes /\ Len(r) = sz /\ \A i \in 1 .. sz : r[i] = pulled + i
  <2>1. pulled + sz <= MaxBytes BY <1>3, <1>4, CdcNumbers
  <2> QED BY <1>3, <1>4, <2>1, RangeType
<1> HIDE DEF r
<1>8. SubSeq(r, 1, sz) = r
  <2>1. r \in Seq(1 .. MaxBytes) BY <1>7 DEF C!Bytes
  <2> QED BY <1>4, <1>7, <2>1
<1>9. C!Flush(q) BY <1>1, <1>6, <1>8 DEF r
<1>10. fifo \in Seq(1 .. MaxBytes) /\ r \in Seq(1 .. MaxBytes)
  BY <1>7 DEF CdcInv, TxInv, C!Bytes
<1>11. /\ q \in C!Bytes /\ Len(q) = Len(fifo) + sz
       /\ \A i \in 1 .. Len(fifo) : q[i] = fifo[i]
       /\ \A i \in 1 .. sz : q[Len(fifo) + i] = r[i]
  BY <1>3, <1>4, <1>7, <1>10 DEF C!Bytes
<1> HIDE DEF q
<1>12. Run(q, got + Len(Queued))
  <2> SUFFICES ASSUME NEW i \in 1 .. Len(q) PROVE q[i] = got + Len(Queued) + i BY DEF Run
  <2>1. CASE i \in 1 .. Len(fifo) BY <1>11, <2>1 DEF CdcInv, TxInv, Run
  <2>2. CASE i \notin 1 .. Len(fifo)
    <3> DEFINE j == i - Len(fifo)
    <3>1. j \in 1 .. sz /\ i = Len(fifo) + j BY <1>3, <1>4, <1>11, <2>2
    <3> HIDE DEF j
    <3>2. q[i] = pulled + j BY <1>7, <1>11, <3>1
    <3>3. got + Len(Queued) + Len(fifo) = pulled BY DEF CdcInv, TxInv
    <3> QED BY <1>3, <1>4, <3>1, <3>2, <3>3
  <2> QED BY <2>1, <2>2
<1>13. Len(q) <= TxFifo BY <1>3, <1>4, <1>5, <1>11, CdcNumbers
<1>14. got + Len(Queued) + Len(q) = pulled'
  <2>1. got + Len(Queued) + Len(fifo) = pulled BY DEF CdcInv, TxInv
  <2>2. pulled' = pulled + sz /\ Len(q) = Len(fifo) + sz BY <1>1, <1>11
  <2> QED BY <1>3, <1>4, <2>1, <2>2
<1>15. TxInv'
  <2>1. CASE ep_state = "idle"
    <3>1. C!FlushInto(q) /\ Queued = <<>> BY <1>9, <2>1 DEF C!Flush, Queued
    <3>2. Run(q, got) /\ got + Len(q) = pulled'
      <4>1. got + Len(Queued) = got BY <1>3, <3>1, EmptyBytes
      <4> QED BY <1>12, <1>14, <4>1
    <3>3. /\ fifo' \in C!Bytes /\ Len(fifo') <= TxFifo
          /\ cdc_ep' \in C!Bytes /\ Len(cdc_ep') <= Packet
          /\ ep_state' \in {"idle", "queued", "done"} /\ (ep_state' = "idle" => cdc_ep' = <<>>)
          /\ Run(Queued', got) /\ Run(fifo', got + Len(Queued'))
          /\ Len(Queued') + Len(fifo') = Len(q)
      BY <1>3, <1>11, <1>13, <3>1, <3>2, FlushEffect
    <3>4. Len(Queued') \in Nat /\ Len(fifo') \in Nat
      <4>1. Queued' \in C!Bytes BY <3>3, EmptyBytes DEF Queued
      <4> QED BY <3>3, <4>1 DEF C!Bytes
    <3>5. got + Len(Queued') + Len(fifo') = pulled' BY <1>3, <3>2, <3>3, <3>4
    <3> QED BY <1>2, <3>3, <3>5 DEF TxInv
  <2>2. CASE ep_state # "idle"
    <3>1. fifo' = q /\ UNCHANGED <<cdc_ep, ep_state>> BY <1>9, <2>2 DEF C!Flush
    <3>2. Queued' = Queued BY <3>1 DEF Queued
    <3> QED BY <1>2, <1>11, <1>12, <1>13, <1>14, <3>1, <3>2 DEF CdcInv, TxInv
  <2> QED BY <2>1, <2>2
<1>16. RxInv' BY <1>2 DEF CdcInv, RxInv
<1>17. LoopInv'
  <2>1. pulled' \in 0 .. MaxBytes /\ pulled' <= made BY <1>1, <1>3, <1>4, CdcNumbers
  <2> QED BY <1>2, <2>1 DEF CdcInv, LoopInv
<1> QED BY <1>15, <1>16, <1>17 DEF CdcInv

\* The host reads a packet: what it gets goes on where it was.
LEMMA ReadStep == ASSUME CdcInv, C!HostReads PROVE CdcInv'
<1>1. /\ ep_state = "queued" /\ ep_state' = "done"
      /\ got' = IF cdc_ep = C!Range1(got, Len(cdc_ep)) THEN got + Len(cdc_ep) ELSE got
      /\ UNCHANGED <<connected, pc, made, pulled, fifo, cdc_ep, rx, rx_event, came, pushed>>
  BY DEF C!HostReads, C!in
<1>2. Queued = cdc_ep /\ Queued' = <<>> BY <1>1 DEF Queued
<1>3. got \in Nat /\ pulled \in Nat /\ Len(cdc_ep) \in Nat /\ Len(fifo) \in Nat BY TxNumbers
<1>4. got' = got + Len(cdc_ep)
  <2>1. Run(cdc_ep, got) /\ cdc_ep \in C!Bytes BY <1>2 DEF CdcInv, TxInv
  <2> QED BY <1>1, <1>3, <2>1, RunIsRange
<1>5. Run(Queued', got') /\ Len(Queued') = 0 /\ got' + 0 = got' BY <1>2, <1>3, <1>4, EmptyBytes
<1>6. /\ Run(fifo, got + Len(cdc_ep)) /\ got + Len(cdc_ep) + Len(fifo) = pulled
  BY <1>2 DEF CdcInv, TxInv
<1>7. TxInv' BY <1>1, <1>4, <1>5, <1>6 DEF CdcInv, TxInv
<1>8. RxInv' BY <1>1 DEF CdcInv, RxInv
<1>9. LoopInv'
  <2>1. pulled \in 0 .. MaxBytes BY DEF CdcInv, LoopInv
  <2>2. got' \in 0 .. MaxBytes BY <1>3, <1>4, <1>6, <2>1, CdcNumbers
  <2> QED BY <1>1, <2>2 DEF CdcInv, LoopInv
<1> QED BY <1>7, <1>8, <1>9 DEF CdcInv

\* The host sends a packet.
LEMMA SendStep == ASSUME CdcInv, C!HostSends PROVE CdcInv'
<1>1. PICK n \in 1 .. C!Least(RxFifo - Len(rx), MaxBytes - came) :
        rx' = rx \o C!Range1(came, n) /\ came' = came + n
  BY DEF C!HostSends
<1>2. /\ rx_event' = TRUE
      /\ UNCHANGED <<connected, pc, made, pulled, fifo, cdc_ep, ep_state, got, pushed>>
  BY DEF C!HostSends, C!tx
<1>3. Len(rx) \in Nat /\ rx \in Seq(1 .. MaxBytes) /\ came \in Nat /\ came <= MaxBytes
  BY CdcNumbers DEF CdcInv, RxInv, C!Bytes
<1>4. n \in Nat /\ n <= RxFifo - Len(rx) /\ came + n <= MaxBytes
  BY <1>3, CdcNumbers DEF C!Least
<1>5. C!Range1(came, n) \in Seq(1 .. MaxBytes) /\ Len(C!Range1(came, n)) = n
  BY <1>3, <1>4, RangeType DEF C!Bytes
<1>6. rx' \in Seq(1 .. MaxBytes) /\ Len(rx') = Len(rx) + n
  BY <1>1, <1>3, <1>4, <1>5, JoinType
<1>7. Len(rx') <= RxFifo /\ came' \in 0 .. MaxBytes BY <1>1, <1>3, <1>4, <1>6, CdcNumbers
<1>8. RxInv' BY <1>2, <1>6, <1>7 DEF CdcInv, RxInv, C!Bytes
<1>9. Queued' = Queued BY <1>2 DEF Queued
<1>10. TxInv' BY <1>2, <1>9 DEF CdcInv, TxInv
<1>11. LoopInv' BY <1>2 DEF CdcInv, LoopInv
<1> QED BY <1>8, <1>10, <1>11 DEF CdcInv

LEMMA CdcStep == CdcInv /\ [C!Next]_(C!vars) => CdcInv'
<1> SUFFICES ASSUME CdcInv, [C!Next]_(C!vars) PROVE CdcInv' OBVIOUS
<1>1. CASE C!ProcessStart \/ C!FillEnd
  <2>1. /\ C!TaskTx /\ C!TaskRx /\ UNCHANGED <<connected, made, pulled, got>>
        /\ pc' \in {"idle", "fill"} /\ (pc' = "fill" => connected)
    BY <1>1 DEF C!ProcessStart, C!FillEnd
  <2>2. TxInv' BY <2>1, TaskTxEffect
  <2>3. RxInv' BY <2>1, TaskRxEffect DEF CdcInv
  <2>4. LoopInv' BY <2>1 DEF CdcInv, LoopInv
  <2> QED BY <2>2, <2>3, <2>4 DEF CdcInv
<1>2. CASE C!Fill BY <1>2, FillStep
<1>3. CASE C!Produce
  <2>1. /\ made < MaxBytes /\ made' = made + 1
        /\ UNCHANGED <<connected, pc, pulled, fifo, cdc_ep, ep_state, got, rx, rx_event, came, pushed>>
    BY <1>3 DEF C!Produce, C!in
  <2>2. made' \in 0 .. MaxBytes /\ pulled <= made'
    BY <2>1, TxNumbers, CdcNumbers DEF CdcInv, LoopInv
  <2>3. Queued' = Queued BY <2>1 DEF Queued
  <2> QED BY <2>1, <2>2, <2>3 DEF CdcInv, LoopInv, TxInv, RxInv
<1>4. CASE C!LineState
  <2>1. /\ pc = "idle" /\ connected' = ~connected
        /\ UNCHANGED <<pc, made, pulled, fifo, cdc_ep, ep_state, got, rx, rx_event, came, pushed>>
    BY <1>4 DEF C!LineState, C!tx, C!in
  <2>2. Queued' = Queued BY <2>1 DEF Queued
  <2>3. LoopInv' BY <2>1 DEF CdcInv, LoopInv
  <2>4. TxInv' /\ RxInv' BY <2>1, <2>2 DEF CdcInv, TxInv, RxInv
  <2> QED BY <2>3, <2>4 DEF CdcInv
<1>5. CASE C!BusReset
  <2>1. /\ connected' = FALSE /\ fifo' = <<>> /\ cdc_ep' = <<>> /\ ep_state' = "idle"
        /\ got' = pulled /\ rx' = <<>> /\ rx_event' = FALSE /\ pushed' = came
        /\ pc = "idle" /\ UNCHANGED <<pc, made, pulled, came>>
    BY <1>5 DEF C!BusReset
  <2>2. Queued' = <<>> BY <2>1 DEF Queued
  <2>3. LoopInv' BY <2>1 DEF CdcInv, LoopInv
  <2>4. TxInv'
    <3>1. pulled + 0 + 0 = pulled BY TxNumbers
    <3> QED BY <2>1, <2>2, <3>1, EmptyBytes, CdcNumbers DEF TxInv
  <2>5. RxInv'
    <3>1. rx' \in C!Bytes /\ Len(rx') <= RxFifo BY <2>1, EmptyBytes, CdcNumbers
    <3>2. rx_event' \in BOOLEAN /\ came' \in 0 .. MaxBytes /\ pushed' \in 0 .. MaxBytes
      BY <2>1 DEF CdcInv, RxInv
    <3> QED BY <3>1, <3>2 DEF RxInv
  <2> QED BY <2>3, <2>4, <2>5 DEF CdcInv
<1>6. CASE C!HostReads BY <1>6, ReadStep
<1>7. CASE C!HostSends BY <1>7, SendStep
<1>8. CASE UNCHANGED C!vars
  <2>1. UNCHANGED <<connected, pc, made, pulled, fifo, cdc_ep, ep_state, got, rx, rx_event, came, pushed>>
    BY <1>8 DEF C!vars, C!tx, C!in
  <2>2. Queued' = Queued BY <2>1 DEF Queued
  <2> QED BY <2>1, <2>2 DEF CdcInv, LoopInv, TxInv, RxInv
<1> QED BY <1>1, <1>2, <1>3, <1>4, <1>5, <1>6, <1>7, <1>8 DEF C!Next

\* Between what the host got and what was pulled no byte is missing, doubled or
\* out of order, for packets and queues of any size, as long as a packet fits
\* the queue: usb.c:46-58.
THEOREM CdcIsOK == C!Spec => []CdcOK
<1>1. CdcInv => CdcOK
  <2> SUFFICES ASSUME CdcInv PROVE C!TypeOK /\ C!NothingDropped BY DEF CdcOK
  <2>1. C!TypeOK BY DEF CdcInv, LoopInv, TxInv, RxInv, C!TypeOK
  <2> DEFINE way == Queued \o fifo
  <2>2. Queued \in Seq(1 .. MaxBytes) /\ fifo \in Seq(1 .. MaxBytes)
    BY TxNumbers DEF CdcInv, TxInv, C!Bytes
  <2>3. /\ got \in Nat /\ Len(Queued) \in Nat /\ Len(fifo) \in Nat BY TxNumbers
  <2>4. /\ way \in Seq(1 .. MaxBytes) /\ Len(way) = Len(Queued) + Len(fifo)
        /\ \A i \in 1 .. Len(Queued) : way[i] = Queued[i]
        /\ \A i \in 1 .. Len(fifo) : way[Len(Queued) + i] = fifo[i]
    BY <2>2, <2>3
  <2> HIDE DEF way
  <2>5. got + Len(way) = pulled BY <2>3, <2>4 DEF CdcInv, TxInv
  <2>6. Run(way, got)
    <3> SUFFICES ASSUME NEW i \in 1 .. Len(way) PROVE way[i] = got + i BY DEF Run
    <3>1. CASE i \in 1 .. Len(Queued) BY <2>4, <3>1 DEF CdcInv, TxInv, Run
    <3>2. CASE i \notin 1 .. Len(Queued)
      <4> DEFINE j == i - Len(Queued)
      <4>1. j \in 1 .. Len(fifo) /\ i = Len(Queued) + j BY <2>3, <2>4, <3>2
      <4> HIDE DEF j
      <4>2. way[i] = (got + Len(Queued)) + j BY <2>4, <4>1 DEF CdcInv, TxInv, Run
      <4> QED BY <2>3, <4>1, <4>2
    <3> QED BY <3>1, <3>2
  <2>7. way = C!Range1(got, Len(way)) BY <2>3, <2>4, <2>6, RunIsRange DEF C!Bytes
  <2> QED BY <2>1, <2>5, <2>7 DEF way, Queued, C!NothingDropped
<1> QED BY <1>1, CdcInit, CdcStep, PTL DEF C!Spec
=============================================================================

-------------------------------- MODULE Hid ---------------------------------
(***************************************************************************)
(* The USB keyboard, mouse and gamepad of hid.c.  The application leaves   *)
(* reports in static variables; hid_process, called by jd_usb_process in   *)
(* the main loop after tud_task, gives them to TinyUSB one at a time.  A   *)
(* report of the keyboard or the gamepad replaces the last one; mouse      *)
(* movements add up, in a number of limited width, until they are sent.    *)
(*                                                                         *)
(* TinyUSB and the host are external.  An endpoint is "idle", holds a      *)
(* report that the host will poll ("queued"), or one that the host has     *)
(* taken and tud_task not noticed ("done").  A bus reset loses what is     *)
(* queued, and the host forgets what it got.                               *)
(***************************************************************************)
EXTENDS Integers, FiniteSets

CONSTANTS
  Latest,    \* the interfaces with replaced reports: keyboard, gamepad
  Report,    \* their reports; one is the report of nothing pressed
  Button,    \* mouse buttons
  Width,     \* a mouse coordinate counts modulo Width (2^8 in the report)
  Step       \* movements the application asks for

Released == "released"
Mouse == "mouse"
Itf == Latest \cup {Mouse}

ASSUME HidInputs ==
  /\ Released \in Report /\ Mouse \notin Latest
  /\ Width \in Nat \ {0} /\ Step \subseteq 0 .. Width - 1

VARIABLES
  report,    \* kbd_report and gamepad_report
  mouse,     \* mouse_report
  dirty,     \* kbd_report_dirty, mouse_report_dirty, gamepad_report_dirty
  ep,        \* state of each endpoint
  sent,      \* the report in each endpoint
  mounted,   \* the device is configured by the host
  host,      \* what the host knows of Latest: the last report since the reset
  fresh,     \* history: interfaces of Latest with a report since the reset
  owed,      \* history: movement asked for that neither arrived nor was lost
  unseen     \* history: buttons pressed that the host did not see, nor lost

vars == <<report, mouse, dirty, ep, sent, mounted, host, fresh, owed, unseen>>

Move == [buttons: SUBSET Button, x: 0 .. Width - 1]
NoMove == [buttons |-> {}, x |-> 0]

TypeOK ==
  /\ report \in [Latest -> Report] /\ mouse \in Move /\ dirty \in [Itf -> BOOLEAN]
  /\ ep \in [Itf -> {"idle", "queued", "done"}]
  /\ \A i \in Itf : sent[i] \in IF i = Mouse THEN Move ELSE Report
  /\ mounted \in BOOLEAN /\ (~mounted => \A i \in Itf : ep[i] = "idle")
  /\ host \in [Latest -> Report] /\ fresh \subseteq Latest
  /\ owed \in 0 .. Width - 1 /\ unseen \subseteq Button

Empty == [i \in Itf |-> IF i = Mouse THEN NoMove ELSE Released]

Init ==
  /\ report = [i \in Latest |-> Released] /\ mouse = NoMove
  /\ dirty = [i \in Itf |-> FALSE]
  /\ ep = [i \in Itf |-> "idle"] /\ sent = Empty /\ mounted = FALSE
  /\ host = [i \in Latest |-> Released] /\ fresh = {} /\ owed = 0 /\ unseen = {}

-----------------------------------------------------------------------------
(* The application. *)

\* jd_hid_keyboard_set_report, jd_hid_gamepad_set_report (NULL: nothing pressed)
set_report(i, r) ==
  /\ report' = [report EXCEPT ![i] = r] /\ dirty' = [dirty EXCEPT ![i] = TRUE]
  /\ fresh' = fresh \cup {i}
  /\ UNCHANGED <<mouse, ep, sent, mounted, host, owed, unseen>>

\* y, wheel and pan are as x.
Added(m) == [buttons |-> mouse.buttons \cup m.buttons, x |-> (mouse.x + m.x) % Width]

jd_hid_mouse_move(m) ==
  /\ mouse' = Added(m) /\ dirty' = [dirty EXCEPT ![Mouse] = TRUE]
  /\ owed' = (owed + m.x) % Width /\ unseen' = unseen \cup m.buttons
  /\ UNCHANGED <<report, ep, sent, mounted, host, fresh>>

-----------------------------------------------------------------------------
(* jd_usb_process *)

\* The endpoints after tud_task.
Polled == [i \in Itf |-> IF ep[i] = "done" THEN "idle" ELSE ep[i]]

\* Variant: a report is given to TinyUSB while there is no host.
SendsUnmounted(i) == dirty[i] /\ Polled[i] = "idle"

\* tud_hid_n_ready
Sends(i) == dirty[i] /\ mounted /\ Polled[i] = "idle"

\* Variant: the movement sent is kept.
MouseKept == [now |-> IF Sends(Mouse) THEN mouse ELSE sent[Mouse], left |-> mouse]

MouseSent == [now  |-> IF Sends(Mouse) THEN mouse ELSE sent[Mouse],
              left |-> IF Sends(Mouse) THEN NoMove ELSE mouse]

\* Variant: what is pending is dropped while there is no host.
DirtyAfterDrops(i) == dirty[i] /\ mounted /\ ~Sends(i)

DirtyAfter(i) == dirty[i] /\ ~Sends(i)

hid_process ==
  /\ dirty' = [i \in Itf |-> DirtyAfter(i)]
  /\ ep' = [i \in Itf |-> IF Sends(i) THEN "queued" ELSE Polled[i]]
  /\ sent' = [i \in Itf |-> IF i = Mouse THEN MouseSent.now
                            ELSE IF Sends(i) THEN report[i] ELSE sent[i]]
  /\ mouse' = MouseSent.left
  /\ UNCHANGED <<report, mounted, host, fresh, owed, unseen>>

-----------------------------------------------------------------------------
(* The host. *)

Configure ==
  /\ ~mounted /\ mounted' = TRUE
  /\ UNCHANGED <<report, mouse, dirty, ep, sent, host, fresh, owed, unseen>>

\* The host polls an endpoint, every 10ms.
HostPolls(i) ==
  /\ ep[i] = "queued" /\ ep' = [ep EXCEPT ![i] = "done"]
  /\ IF i = Mouse
     THEN /\ owed' = (owed - sent[i].x) % Width /\ unseen' = unseen \ sent[i].buttons
          /\ UNCHANGED host
     ELSE /\ host' = [host EXCEPT ![i] = sent[i]]
          /\ UNCHANGED <<owed, unseen>>
  /\ UNCHANGED <<report, mouse, dirty, sent, mounted, fresh>>

BusReset ==
  /\ mounted /\ mounted' = FALSE
  /\ ep' = [i \in Itf |-> "idle"] /\ sent' = Empty
  /\ host' = [i \in Latest |-> Released] /\ fresh' = {i \in Latest : dirty[i]}
  /\ IF ep[Mouse] = "queued"
     THEN owed' = (owed - sent[Mouse].x) % Width /\ unseen' = unseen \ sent[Mouse].buttons
     ELSE UNCHANGED <<owed, unseen>>
  /\ UNCHANGED <<report, mouse, dirty>>

App == \/ \E i \in Latest, r \in Report : set_report(i, r)
       \/ \E b \in SUBSET Button, x \in Step : jd_hid_mouse_move([buttons |-> b, x |-> x])

Next == App \/ hid_process \/ Configure \/ BusReset \/ \E i \in Itf : HostPolls(i)

Spec == Init /\ [][Next]_vars

\* The main loop runs; a host configures the device and polls.
FairSpec ==
  /\ Spec /\ WF_vars(hid_process) /\ WF_vars(Configure) /\ \A i \in Itf : WF_vars(HostPolls(i))

-----------------------------------------------------------------------------
(* Properties. *)

InFlight == IF ep[Mouse] = "queued" THEN sent[Mouse] ELSE NoMove

\* However movements, reports and resets interleave, no movement is lost or
\* counted twice (up to a multiple of Width), and a pressed button stays in a
\* report until the host has seen it: hid.c:27-34 and 55-60.  Only what is in
\* the endpoint at a bus reset is lost.
MouseConserved ==
  /\ owed = (mouse.x + InFlight.x) % Width
  /\ unseen \subseteq mouse.buttons \cup InFlight.buttons
  /\ (owed # 0 \/ unseen # {}) => dirty[Mouse] \/ ep[Mouse] = "queued"

\* The types, no report without a host, and no movement lost (hid.c:27-60).
HidOK == TypeOK /\ MouseConserved

Settled == <>[][~App /\ ~BusReset]_vars

\* Once the application and the bus are quiet, the host has the last report of
\* the keyboard and of the gamepad, unless a reset came after it (hid.c:50-53
\* and 62-65: a report is sent once), ...
LatestArrives == Settled => <>[](\A i \in fresh : host[i] = report[i])

\* ... and all movements and buttons of the mouse.
MouseArrives == Settled => <>[](owed = 0 /\ unseen = {})

\* Whatever the application left for the host arrives (hid.c:44-66).
ReportsArrive == LatestArrives /\ MouseArrives
=============================================================================

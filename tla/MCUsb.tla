------------------------------- MODULE MCUsb -------------------------------
\* Hid and Cdc for TLC.  The two share jd_usb_process and nothing else, so a
\* behaviour is one of the one or one of the other: part tells which, and the
\* other stays in its initial state.
EXTENDS Hid

CONSTANTS Packet, TxFifo, RxFifo, MaxBytes

VARIABLES part, connected, pc, made, pulled, fifo, cdc_ep, ep_state, got,
          rx, rx_event, came, pushed

cdcVars == <<connected, pc, made, pulled, fifo, cdc_ep, ep_state, got, rx, rx_event, came, pushed>>

C == INSTANCE Cdc WITH ep <- cdc_ep

ASSUME CdcAssumption == C!CdcSizes

HidRuns == part = "hid" /\ UNCHANGED <<cdcVars, part>>
CdcRuns == part = "cdc" /\ UNCHANGED <<vars, part>>

UsbInit == part \in {"hid", "cdc"} /\ Init /\ C!Init
UsbNext == (HidRuns /\ Next) \/ (CdcRuns /\ C!Next)
usbVars == <<vars, cdcVars, part>>

\* The fairness of the two.
UsbSpec ==
  /\ UsbInit /\ [][UsbNext]_usbVars
  /\ WF_usbVars(HidRuns /\ hid_process) /\ WF_usbVars(HidRuns /\ Configure)
  /\ \A i \in Itf : WF_usbVars(HidRuns /\ HostPolls(i))
  /\ WF_usbVars(CdcRuns /\ C!ProcessStart) /\ WF_usbVars(CdcRuns /\ C!Fill)
  /\ WF_usbVars(CdcRuns /\ C!FillEnd) /\ WF_usbVars(CdcRuns /\ C!HostReads)

\* No byte that was pulled is missing, doubled or out of order, and the queue is
\* filled for an open port only (usb.c:46-58).
CdcOK == C!TypeOK /\ C!NothingDropped

\* While the port stays open everything reaches the host, and everything that
\* the host sends is pushed (usb.c:15-35, 50-58).
SerialDrains == C!AllSent /\ C!AllPushed
=============================================================================

----------------------------- MODULE HalfDuplex -----------------------------
(***************************************************************************)
(* What the Jacdac driver promises to the layer above: one activity at a   *)
(* time on the line, and for every reception and transmission that began   *)
(* one end.  A transmission is asked for before it takes the line, and     *)
(* may be refused, also after it has taken the line and met another        *)
(* device there; a reception is never given up for a transmission.         *)
(***************************************************************************)
VARIABLES
  line,     \* "IDLE", "RX" or "TX"
  open      \* the activities that the layer above has open: "RX", "TX"

vars == <<line, open>>

Init == line = "IDLE" /\ open = {}

AskToSend == "TX" \notin open /\ open' = open \cup {"TX"} /\ UNCHANGED line

Transmit == line = "IDLE" /\ "TX" \in open /\ line' = "TX" /\ UNCHANGED open

\* Refused, or sent to the end.
EndSend == /\ "TX" \in open /\ open' = open \ {"TX"}
           /\ line' = IF line = "TX" THEN "IDLE" ELSE line

\* Another device is on the line: leave it, to be refused.
Abandon == line = "TX" /\ "TX" \in open /\ line' = "IDLE" /\ UNCHANGED open

\* On an idle line, or on one that was left just now.
Receive == /\ line = "IDLE" \/ (line = "TX" /\ "TX" \in open)
           /\ "RX" \notin open
           /\ line' = "RX" /\ open' = open \cup {"RX"}

EndReceive == line = "RX" /\ line' = "IDLE" /\ open' = open \ {"RX"}

\* A timeout stops the line first and tells the layer above then.
StopReceive == line = "RX" /\ line' = "IDLE" /\ UNCHANGED open
TellStopped == line = "IDLE" /\ "RX" \in open /\ open' = open \ {"RX"} /\ UNCHANGED line

Next == \/ AskToSend \/ Transmit \/ Abandon \/ EndSend
        \/ Receive \/ EndReceive \/ StopReceive \/ TellStopped

Spec == Init /\ [][Next]_vars
=============================================================================

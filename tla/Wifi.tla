-------------------------------- MODULE Wifi --------------------------------
(***************************************************************************)
(* The Wi-Fi station of wifi_impl.c: the table of scan results that grows  *)
(* while they arrive and is handed to the application, and the status of   *)
(* the link, which is polled.                                              *)
(*                                                                         *)
(* The cyw43 driver is external.  It delivers its results whenever it runs,*)
(* which every call makes it do, not only cyw43_arch_poll: a scan may end, *)
(* and the link change, between any two calls.  Results without a name are *)
(* dropped by scan_result and left out here.  The chip was initialised.    *)
(***************************************************************************)
EXTENDS Integers, Sequences

CONSTANTS
  AP,       \* access points, named by their bssid
  Rssi,     \* signal strengths: what a second result of a point changes
  Grow      \* 5 in the code

None == "none"

ASSUME GrowAssumption == Grow \in Nat \ {0}
ASSUME RssiAssumption == None \notin Rssi

\* What cyw43_tcpip_link_status returns.
LinkStatus == {"DOWN", "JOIN", "NOIP", "UP", "FAIL", "NONET", "BADAUTH"}

VARIABLES
  scan_res,     \* the table: its first scan_ptr entries
  scan_size,    \* entries it has room for, as the code counts them
  in_scan,
  prev_status,
  active,       \* cyw43_wifi_scan_active
  link,         \* cyw43_tcpip_link_status
  block,        \* history: entries the memory behind scan_res really holds
  heard,        \* history: the last result of each point since the last report
  told          \* history: calls of jd_wifi_got_ip_cb less those of jd_wifi_lost_ip_cb, modulo 3

scan == <<scan_res, scan_size, in_scan, active, block, heard>>
vars == <<scan, prev_status, link, told>>

Entry == [bssid: AP, rssi: Rssi]

\* The types.  An address is reported lost when it was reported before, once:
\* told is 0 or 1 (wifi_impl.c:145-157).
TypeOK ==
  /\ scan_res \in Seq(Entry) /\ scan_size \in Nat /\ block \in Nat
  /\ in_scan \in BOOLEAN /\ active \in BOOLEAN
  /\ prev_status \in LinkStatus \cup {None} /\ link \in LinkStatus
  /\ heard \in [AP -> Rssi \cup {None}]
  /\ told \in {0, 1}

NotHeard == [a \in AP |-> None]

Init ==
  /\ scan_res = <<>> /\ scan_size = 0 /\ block = 0 /\ in_scan = FALSE /\ active = FALSE
  /\ heard = NotHeard
  /\ prev_status = None /\ link = "DOWN" /\ told = 0

-----------------------------------------------------------------------------
(* Scanning. *)

\* Variant: the table is grown when it is already too small.
FullTooLate == Len(scan_res) > scan_size

Full == Len(scan_res) >= scan_size

\* Variant: every result is a new entry.
EnterAlways(ent) ==
  /\ scan_res' = Append(scan_res, ent)
  /\ UNCHANGED <<scan_size, block>>

\* Replace the entry of the same point, or add one, in a larger table if need be.
Enter(ent) ==
  LET at == {i \in DOMAIN scan_res : scan_res[i].bssid = ent.bssid}
  IN  IF at # {}
      THEN \E i \in at : /\ \A j \in at : i <= j
                         /\ scan_res' = [scan_res EXCEPT ![i] = ent]
                         /\ UNCHANGED <<scan_size, block>>
      ELSE /\ scan_size' = IF Full THEN scan_size * 2 + Grow ELSE scan_size
           /\ block' = IF Full THEN scan_size' ELSE block
           /\ scan_res' = Append(scan_res, ent)

scan_result(ent) ==
  /\ active
  /\ Enter(ent)
  /\ heard' = [heard EXCEPT ![ent.bssid] = ent.rssi]
  /\ UNCHANGED <<in_scan, active, prev_status, link, told>>

\* Refused while a scan runs.  The driver may fail to start one: in_scan is
\* set all the same, and an empty report follows.
jd_wifi_start_scan ==
  /\ ~active
  /\ in_scan' = TRUE /\ active' \in BOOLEAN
  /\ UNCHANGED <<scan_res, scan_size, block, heard, prev_status, link, told>>

ScanEnds ==
  /\ active /\ active' = FALSE
  /\ UNCHANGED <<scan_res, scan_size, block, in_scan, heard, prev_status, link, told>>

-----------------------------------------------------------------------------
(* The link. *)

\* cyw43_arch_wifi_connect_async starts to join; if it fails nothing changes.
jd_wifi_connect == link' = "JOIN" /\ UNCHANGED <<scan, prev_status, told>>

jd_wifi_disconnect == link' = "DOWN" /\ UNCHANGED <<scan, prev_status, told>>

\* What the driver does by itself.
LinkChanges ==
  /\ \/ link = "JOIN" /\ link' \in {"NOIP", "FAIL", "NONET", "BADAUTH", "DOWN"}
     \/ link = "NOIP" /\ link' \in {"UP", "DOWN"}
     \/ link = "UP" /\ link' \in {"NOIP", "DOWN"}
  /\ UNCHANGED <<scan, prev_status, told>>

-----------------------------------------------------------------------------
(* jd_wifi_process: poll the driver, then report. *)

\* jd_wifi_scan_done_cb takes the table.
HandOver ==
  /\ in_scan' = FALSE /\ heard' = NotHeard
  /\ scan_res' = <<>> /\ block' = 0 /\ scan_size' = 0
  /\ UNCHANGED active

\* Variant: the report of a scan waits for a result.
ScanDoneWithResults == in_scan /\ ~active /\ scan_res # <<>>

ScanDone == in_scan /\ ~active

\* Variants: every status but UP is a loss; the previous status is gone before
\* it is looked at.
WasUpAlways == TRUE
WasUpNever  == FALSE

WasUp == prev_status = "UP"

\* A change of the status since the last pass: got_ip, or leave and lost_ip.
StatusStep ==
  IF prev_status = link THEN UNCHANGED <<prev_status, link, told>>
  ELSE /\ prev_status' = link
       /\ told' = IF link = "UP" THEN (told + 1) % 3 ELSE IF WasUp THEN told - 1 ELSE told
       /\ link' = IF link # "UP" /\ WasUp THEN "DOWN" ELSE link

jd_wifi_process ==
  /\ IF ScanDone THEN HandOver ELSE UNCHANGED scan
  /\ StatusStep

Next ==
  \/ \E ent \in Entry : scan_result(ent)
  \/ jd_wifi_start_scan \/ ScanEnds
  \/ jd_wifi_connect \/ jd_wifi_disconnect \/ LinkChanges
  \/ jd_wifi_process

Spec == Init /\ [][Next]_vars

\* The main loop keeps calling jd_wifi_process, and scans end.
FairSpec == Spec /\ WF_vars(jd_wifi_process) /\ WF_vars(ScanEnds)

-----------------------------------------------------------------------------
(* Properties. *)

\* The table never grows over the memory it is in, through every scan and
\* hand-over: wifi_impl.c:38-46 and 139-142.
InBounds == Len(scan_res) <= block

\* A report holds every access point heard since the last one, once, with
\* what was heard of it last: wifi_impl.c:27-47.  This holds of a report of
\* two scans as well, when the second starts before the first is reported.
ReportIsComplete ==
  /\ \A i, j \in DOMAIN scan_res : scan_res[i].bssid = scan_res[j].bssid => i = j
  /\ {<<e.bssid, e.rssi>> : e \in {scan_res[i] : i \in DOMAIN scan_res}}
       = {<<a, heard[a]>> : a \in {a \in AP : heard[a] # None}}

\* The table is in its memory and holds what was heard, through every scan and
\* hand-over; losses are reported once (wifi_impl.c:16-62, 133-157).
TableOK == TypeOK /\ InBounds /\ ReportIsComplete

\* Once the application asks for no more scans, the last one is reported, even
\* if it failed to start or heard nothing: wifi_impl.c:55-62 and 136-143.
ScanReported == <>[][~jd_wifi_start_scan]_vars => <>[]~in_scan

\* A link that stays up, or stays away, is reported so: wifi_impl.c:145-157.
LinkReported ==
  /\ <>[](link = "UP") => <>[](told = 1)
  /\ <>[](link # "UP") => <>[](told = 0)

\* Everything is reported in the end (wifi_impl.c:133-158).
Reported == ScanReported /\ LinkReported
=============================================================================

----------------------------- MODULE WifiProofs -----------------------------
(***************************************************************************)
(* Proofs about Wifi for any access points, any signal strengths and any   *)
(* step by which the table grows.                                          *)
(***************************************************************************)
EXTENDS Wifi, TLAPS

-----------------------------------------------------------------------------
(* The inductive invariant. *)

\* The code knows the size of its memory, and the table fits.
SizeInv == block = scan_size /\ Len(scan_res) <= scan_size

\* Cell by cell what ReportIsComplete says of the table as a whole: no point has
\* two entries, an entry is what was heard last, and what was heard is there.
Unique  == \A i, j \in DOMAIN scan_res : scan_res[i].bssid = scan_res[j].bssid => i = j
Latest  == \A i \in DOMAIN scan_res : heard[scan_res[i].bssid] = scan_res[i].rssi
Present == \A a \in AP : heard[a] # None => \E i \in DOMAIN scan_res : scan_res[i].bssid = a
EntryInv == Unique /\ Latest /\ Present

\* The application was told of an address exactly if the last status seen was UP.
ToldInv == told = IF prev_status = "UP" THEN 1 ELSE 0

IInv == TypeOK /\ SizeInv /\ EntryInv /\ ToldInv

-----------------------------------------------------------------------------
(* The table. *)

\* scan_result keeps the table: a point heard again has its entry replaced, a
\* new one is added behind the others, in a larger table if there is no room.
LEMMA ResultStep ==
  ASSUME IInv, NEW ent \in Entry, scan_result(ent)
  PROVE  IInv'
<1> DEFINE at == {i \in DOMAIN scan_res : scan_res[i].bssid = ent.bssid}
           n  == Len(scan_res)
<1>1. /\ scan_res \in Seq(Entry) /\ scan_size \in Nat /\ n \in Nat /\ DOMAIN scan_res = 1 .. n
      /\ heard \in [AP -> Rssi \cup {None}]
      /\ ent.bssid \in AP /\ ent.rssi \in Rssi /\ ent.rssi # None
      /\ \A i \in 1 .. n : scan_res[i] \in Entry
  <2>1. scan_res \in Seq(Entry) /\ scan_size \in Nat /\ heard \in [AP -> Rssi \cup {None}]
    BY DEF IInv, TypeOK
  <2>2. n \in Nat /\ DOMAIN scan_res = 1 .. n /\ \A i \in 1 .. n : scan_res[i] \in Entry
    BY <2>1
  <2>3. ent.bssid \in AP /\ ent.rssi \in Rssi /\ ent.rssi # None BY RssiAssumption DEF Entry
  <2> QED BY <2>1, <2>2, <2>3
<1>2. /\ heard' = [heard EXCEPT ![ent.bssid] = ent.rssi]
      /\ UNCHANGED <<in_scan, active, prev_status, link, told>>
  BY DEF scan_result
<1>3. heard' \in [AP -> Rssi \cup {None}] BY <1>1, <1>2
<1>4. ToldInv' BY <1>2 DEF IInv, ToldInv
<1>5. CASE at # {}
  <2>1. PICK i \in at : scan_res' = [scan_res EXCEPT ![i] = ent] /\ UNCHANGED <<scan_size, block>>
    BY <1>5, Zenon DEF scan_result, Enter
  <2>2. /\ scan_res' \in Seq(Entry) /\ Len(scan_res') = n /\ DOMAIN scan_res' = 1 .. n
        /\ i \in 1 .. n /\ scan_res[i].bssid = ent.bssid
        /\ scan_res'[i] = ent /\ \A j \in 1 .. n : j # i => scan_res'[j] = scan_res[j]
    BY <1>1, <2>1
  <2>3. \A j \in 1 .. n : scan_res'[j].bssid = scan_res[j].bssid BY <2>2
  <2>4. SizeInv' BY <2>1, <2>2 DEF IInv, SizeInv
  <2>5. Unique' BY <1>1, <2>2, <2>3 DEF IInv, EntryInv, Unique
  <2>6. Latest'
    <3>1. \A j \in 1 .. n : j # i => scan_res[j].bssid # ent.bssid
      BY <1>1, <2>2 DEF IInv, EntryInv, Unique
    <3> QED BY <1>1, <1>2, <2>2, <3>1 DEF IInv, EntryInv, Latest, Entry
  <2>7. Present' BY <1>1, <1>2, <2>2, <2>3 DEF IInv, EntryInv, Present
  <2> QED BY <1>2, <1>3, <1>4, <2>1, <2>2, <2>4, <2>5, <2>6, <2>7 DEF IInv, TypeOK, EntryInv
<1>6. CASE at = {}
  <2>1. /\ scan_size' = IF Full THEN scan_size * 2 + Grow ELSE scan_size
        /\ block' = IF Full THEN scan_size' ELSE block
        /\ scan_res' = Append(scan_res, ent)
    BY <1>6, Zenon DEF scan_result, Enter
  <2>2. /\ scan_res' \in Seq(Entry) /\ Len(scan_res') = n + 1 /\ DOMAIN scan_res' = 1 .. n + 1
        /\ scan_res'[n + 1] = ent /\ \A j \in 1 .. n : scan_res'[j] = scan_res[j]
    BY <1>1, <2>1
  <2>3. \A j \in 1 .. n : scan_res[j].bssid # ent.bssid BY <1>1, <1>6
  <2>4. SizeInv' /\ scan_size' \in Nat /\ block' \in Nat
    <3>1. CASE Full
      <4>1. scan_size' = scan_size * 2 + Grow /\ block' = scan_size' BY <2>1, <3>1
      <4> QED BY <1>1, <2>2, <4>1, GrowAssumption DEF IInv, SizeInv
    <3>2. CASE ~Full
      <4>1. scan_size' = scan_size /\ block' = block /\ n < scan_size
        BY <1>1, <2>1, <3>2 DEF Full
      <4> QED BY <1>1, <2>2, <4>1 DEF IInv, SizeInv
    <3> QED BY <3>1, <3>2
  <2>5. Unique' BY <1>1, <2>2, <2>3 DEF IInv, EntryInv, Unique
  <2>6. Latest' BY <1>1, <1>2, <2>2, <2>3 DEF IInv, EntryInv, Latest, Entry
  <2>7. Present' BY <1>1, <1>2, <2>2 DEF IInv, EntryInv, Present
  <2> QED BY <1>2, <1>3, <1>4, <2>2, <2>4, <2>5, <2>6, <2>7 DEF IInv, TypeOK, EntryInv
<1> QED BY <1>5, <1>6

\* A step that leaves the table and what was heard alone.
LEMMA TableKept ==
  ASSUME IInv, UNCHANGED <<scan_res, scan_size, block, heard>>
  PROVE  SizeInv' /\ EntryInv'
  BY DEF IInv, SizeInv, EntryInv, Unique, Latest, Present

\* jd_wifi_process hands the table over and tells of the link.
LEMMA ProcessStep ==
  ASSUME IInv, jd_wifi_process
  PROVE  IInv'
<1>1. /\ scan_res' \in Seq(Entry) /\ scan_size' \in Nat /\ block' \in Nat /\ in_scan' \in BOOLEAN
      /\ active' \in BOOLEAN /\ heard' \in [AP -> Rssi \cup {None}] /\ SizeInv' /\ EntryInv'
  <2>1. CASE ScanDone
    <3>1. /\ in_scan' = FALSE /\ heard' = NotHeard /\ active' = active
          /\ scan_res' = <<>> /\ block' = 0 /\ scan_size' = 0
      BY <2>1 DEF jd_wifi_process, HandOver
    <3>2. SizeInv' BY <3>1 DEF SizeInv
    <3>3. EntryInv' BY <3>1 DEF EntryInv, Unique, Latest, Present, NotHeard
    <3>4. <<>> \in Seq(Entry) /\ NotHeard \in [AP -> Rssi \cup {None}] BY DEF NotHeard
    <3>5. active \in BOOLEAN BY DEF IInv, TypeOK
    <3> QED BY <3>1, <3>2, <3>3, <3>4, <3>5
  <2>2. CASE ~ScanDone
    <3>1. UNCHANGED scan BY <2>2 DEF jd_wifi_process
    <3> QED BY <3>1, TableKept DEF IInv, TypeOK, scan
  <2> QED BY <2>1, <2>2
<1>2. /\ prev_status' \in LinkStatus \cup {None} /\ link' \in LinkStatus /\ told' \in {0, 1}
      /\ ToldInv'
  <2>1. CASE prev_status = link
    BY <2>1 DEF jd_wifi_process, StatusStep, IInv, TypeOK, ToldInv
  <2>2. CASE prev_status # link /\ link = "UP"
    <3>1. prev_status' = "UP" /\ told' = (told + 1) % 3 /\ link' = link /\ told = 0
      BY <2>2 DEF jd_wifi_process, StatusStep, IInv, ToldInv
    <3> QED BY <3>1 DEF IInv, TypeOK, ToldInv, LinkStatus
  <2>3. CASE prev_status # link /\ link # "UP"
    BY <2>3 DEF jd_wifi_process, StatusStep, WasUp, IInv, TypeOK, ToldInv, LinkStatus
  <2> QED BY <2>1, <2>2, <2>3
<1> QED BY <1>1, <1>2 DEF IInv, TypeOK

-----------------------------------------------------------------------------
(* Theorems. *)

\* The code's count of its memory is right, the table fits, every point that was
\* heard has one entry with its last result, and losses follow addresses
\* (wifi_impl.c:16-62, 133-157).
THEOREM WifiInvariance == Spec => []IInv
<1>1. Init => IInv
  <2> SUFFICES ASSUME Init PROVE IInv OBVIOUS
  <2>1. TypeOK
    <3>1. <<>> \in Seq(Entry) /\ NotHeard \in [AP -> Rssi \cup {None}] BY DEF NotHeard
    <3> QED BY <3>1 DEF Init, TypeOK, LinkStatus
  <2>2. SizeInv /\ ToldInv BY DEF Init, SizeInv, ToldInv, None
  <2>3. EntryInv BY DEF Init, EntryInv, Unique, Latest, Present, NotHeard
  <2> QED BY <2>1, <2>2, <2>3 DEF IInv
<1>2. IInv /\ [Next]_vars => IInv'
  <2> SUFFICES ASSUME IInv, [Next]_vars PROVE IInv' OBVIOUS
  <2>1. CASE jd_wifi_start_scan \/ ScanEnds
    BY <2>1, TableKept DEF jd_wifi_start_scan, ScanEnds, IInv, TypeOK, ToldInv
  <2>2. CASE jd_wifi_connect \/ jd_wifi_disconnect \/ LinkChanges
    BY <2>2, TableKept
       DEF jd_wifi_connect, jd_wifi_disconnect, LinkChanges, scan, IInv, TypeOK, ToldInv, LinkStatus
  <2>3. CASE UNCHANGED vars BY <2>3, TableKept DEF vars, scan, IInv, TypeOK, ToldInv
  <2> QED BY <2>1, <2>2, <2>3, ResultStep, ProcessStep DEF Next
<1> QED BY <1>1, <1>2, PTL DEF Spec

\* The table never grows over its memory, and a report holds every access point
\* heard since the last one, once, with what was heard of it last
\* (wifi_impl.c:27-47, 139-142).
THEOREM TableIsOK == Spec => []TableOK
<1>1. ASSUME IInv PROVE TableOK
  <2>1. InBounds BY <1>1 DEF IInv, SizeInv, InBounds
  <2> DEFINE entries == {<<e.bssid, e.rssi>> : e \in {scan_res[i] : i \in DOMAIN scan_res}}
             results == {<<a, heard[a]>> : a \in {a \in AP : heard[a] # None}}
  <2>2. /\ scan_res \in Seq(Entry) /\ \A i \in DOMAIN scan_res : scan_res[i] \in Entry
    BY <1>1 DEF IInv, TypeOK
  <2>3. ASSUME NEW i \in DOMAIN scan_res
        PROVE  /\ scan_res[i].bssid \in AP /\ heard[scan_res[i].bssid] = scan_res[i].rssi
               /\ scan_res[i].rssi # None
    BY <1>1, <2>2, <2>3, RssiAssumption DEF IInv, EntryInv, Latest, Entry
  <2>4. entries \subseteq results
    <3> SUFFICES ASSUME NEW i \in DOMAIN scan_res
                 PROVE  <<scan_res[i].bssid, scan_res[i].rssi>> \in results
      OBVIOUS
    <3> QED BY <2>3
  <2>5. results \subseteq entries
    <3> SUFFICES ASSUME NEW a \in AP, heard[a] # None PROVE <<a, heard[a]>> \in entries OBVIOUS
    <3>1. PICK i \in DOMAIN scan_res : scan_res[i].bssid = a BY <1>1 DEF IInv, EntryInv, Present
    <3>2. scan_res[i].rssi = heard[a] BY <2>3, <3>1
    <3> QED BY <3>1, <3>2
  <2>6. ReportIsComplete
    BY <1>1, <2>4, <2>5 DEF ReportIsComplete, IInv, EntryInv, Unique
  <2> QED BY <1>1, <2>1, <2>6 DEF TableOK, IInv
<1> QED BY <1>1, WifiInvariance, PTL
=============================================================================

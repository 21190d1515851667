----------------------------- MODULE Descriptors ----------------------------
(***************************************************************************)
(* The string and report descriptors that usb_descriptors.c gives the      *)
(* host.  All strings are returned in one static buffer, desc_str, whose   *)
(* first cell is the header; a character is its string and its place in    *)
(* it.  serial_str, string number Serial, is made when a string is first   *)
(* asked for: up to then it is empty.  The host (external) asks for any    *)
(* index.                                                                  *)
(***************************************************************************)
EXTENDS Integers, Sequences

CONSTANTS
  StrLen,      \* the lengths of string_descriptors[1], [2], ...
  Serial,      \* USB_STR_SERIAL
  BufLen,      \* cells of desc_str: 32
  MaxIndex,    \* the indices that the host asks for
  HidTotal     \* HID_ITF_TOTAL

StringTable ==
  /\ StrLen \in Seq(Nat) /\ Serial \in DOMAIN StrLen
  /\ BufLen \in Nat \ {0, 1} /\ {MaxIndex, HidTotal} \subseteq Nat

NULL  == -1
Index == 0 .. MaxIndex

VARIABLES
  desc_str,      \* the buffer; its header is the number of characters
  serial_made,   \* serial_str[0] is set
  answer         \* history: the last request, its index and what it returned

vars == <<desc_str, serial_made, answer>>

Fresh == [header |-> 0, char |-> [k \in 1 .. BufLen - 1 |-> <<0, 0>>]]

\* The types: no character is written behind the buffer.
TypeOK ==
  /\ desc_str.header \in 0 .. BufLen - 1 /\ DOMAIN desc_str.char = 1 .. BufLen - 1
  /\ serial_made \in BOOLEAN
  /\ answer \in [kind: {"none", "string", "report"}, index: Index, result: {NULL} \cup Index]

Init ==
  /\ desc_str = Fresh /\ serial_made = FALSE
  /\ answer = [kind |-> "none", index |-> 0, result |-> NULL]

Answer(k, n, r) == answer' = [kind |-> k, index |-> n, result |-> r]

\* Variants: the header's cell is forgotten; the serial number is made late.
CopyLenWhole(n) == IF StrLen[n] < BufLen THEN StrLen[n] ELSE BufLen
CopyLenUnmade(n) == IF n = Serial /\ ~serial_made THEN 0
                    ELSE IF StrLen[n] < BufLen - 1 THEN StrLen[n] ELSE BufLen - 1

\* Characters copied: the string, which has been made by now, or what fits.
CopyLen(n) == IF StrLen[n] < BufLen - 1 THEN StrLen[n] ELSE BufLen - 1

\* The buffer with string n, or with the language (0), of length len.
Written(n, len) ==
  [header |-> len,
   char   |-> [k \in DOMAIN desc_str.char \cup 1 .. len |->
                 IF k <= len THEN <<n, k>> ELSE desc_str.char[k]]]

tud_descriptor_string_cb(n) ==
  /\ serial_made' = TRUE
  /\ CASE n = 0             -> desc_str' = Written(0, 1) /\ Answer("string", n, n)
       [] n > Len(StrLen)   -> UNCHANGED desc_str /\ Answer("string", n, NULL)
       [] OTHER             -> desc_str' = Written(n, CopyLen(n)) /\ Answer("string", n, n)

tud_hid_descriptor_report_cb(n) ==
  /\ Answer("report", n, IF n < HidTotal THEN n ELSE NULL)
  /\ UNCHANGED <<desc_str, serial_made>>

Next == \E n \in Index : tud_descriptor_string_cb(n) \/ tud_hid_descriptor_report_cb(n)

Spec == Init /\ [][Next]_vars

-----------------------------------------------------------------------------
(* Properties. *)

\* What the host reads after a request, header characters of the buffer, is
\* the string it asked for from its beginning, whole or cut at the end of the
\* buffer, whichever strings were in the buffer before; the serial number is
\* there the first time (usb_descriptors.c:133-160).
StringIsWhole ==
  answer.kind = "string" /\ answer.result # NULL =>
    LET n   == answer.index
        len == IF n = 0 THEN 1 ELSE StrLen[n]
    IN  /\ desc_str.header = IF len < BufLen THEN len ELSE BufLen - 1
        /\ \A k \in 1 .. desc_str.header : desc_str.char[k] = <<n, k>>
=============================================================================

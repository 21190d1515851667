----------------------------- MODULE Connection -----------------------------
(***************************************************************************)
(* What the application of a TCP socket may rely on: one connection at a   *)
(* time, and events about that connection only, in an order that makes     *)
(* sense: OPEN, messages while open, and at the end of a connection that   *)
(* the application has not closed itself, ERROR and CLOSE.                 *)
(***************************************************************************)
EXTENDS Sequences

VARIABLES
  conn,      \* "closed", "opening", "open", or "ending" between ERROR and CLOSE
  events     \* what the application was told since its last call of open or close

vars == <<conn, events>>

Init == conn = "closed" /\ events = <<"closed">>

\* The application asks for a connection and thereby gives up the last one.
Open == conn' = "opening" /\ events' = <<>>

OpenFails == conn' = "ending" /\ events' = <<"ERROR">>

Close == conn' = "closed" /\ events' = <<"closed">>

Connected == conn = "opening" /\ conn' = "open" /\ events' = Append(events, "OPEN")

Message == conn = "open" /\ events' = Append(events, "MESSAGE") /\ UNCHANGED conn

Lost == /\ conn \in {"opening", "open"} /\ conn' = "ending"
        /\ events' = Append(events, "ERROR")

Ended == conn = "ending" /\ conn' = "closed" /\ events' = Append(events, "CLOSE")

Next == Open \/ OpenFails \/ Close \/ Connected \/ Message \/ Lost \/ Ended

Spec == Init /\ [][Next]_vars
=============================================================================

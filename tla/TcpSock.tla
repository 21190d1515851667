------------------------------ MODULE TcpSock ------------------------------
(***************************************************************************)
(* The TCP socket of lwip_sock.c.  There is one, in the static sock_state. *)
(* It is driven from three sides, all on the main loop: by the application *)
(* (jd_tcpsock_new, write, close, process), by DNS answers (host_found)    *)
(* and by callbacks of lwIP's control blocks, which carry a pointer to     *)
(* sock_state, not to the connection they are about.                       *)
(*                                                                         *)
(* An event of the socket is a call of the application, which may call the *)
(* socket before it returns.  stack holds what is left to do when it does. *)
(*                                                                         *)
(* lwIP is external.  env, the same all through a behaviour, names what it *)
(* or the application may do that the driver makes no provision for:       *)
(*   "cached"   dns_gethostbyname knows the answer at once                 *)
(*   "late"     the application does not wait for a DNS answer before it   *)
(*              closes the socket or opens it again                        *)
(*   "unknown"  a name is not found: host_found gets no address            *)
(*   "reset"    lwIP reports an error of a block and frees it              *)
(*   "abort"    the same with ERR_ABRT, as when a peer does not answer     *)
(*   "nomem"    tcp_close fails, and tcp_abort frees the block at once     *)
(*   "message"  the application calls the socket from OPEN and MESSAGE     *)
(*   "ending"   the application calls the socket from ERROR and CLOSE      *)
(***************************************************************************)
EXTENDS Integers, Sequences

CONSTANTS
  Host,        \* names
  Port,        \* the ports the application asks for, valid or not
  Pcb,         \* lwIP's pool of control blocks
  Envs,        \* the environments considered
  MaxEvents,   \* bound on the messages of a connection
  MaxDepth     \* bound on the calls in progress when the application calls

NULL   == "NULL"
NoPort == 0
UINT16_MAX == 65535

ASSUME SockInputs ==
  /\ NULL \notin Host \cup Pcb /\ Port \subseteq Int /\ {MaxEvents, MaxDepth} \subseteq Nat
  /\ Envs \subseteq SUBSET {"cached", "late", "unknown", "reset", "abort", "nomem",
                           "message", "ending"}

VARIABLES
  sock,      \* sock_state
  pcb,       \* lwIP's control blocks
  dns,       \* names whose answers are to come
  stack,     \* functions that wait for the application, the innermost first
  events,    \* history: what jd_tcpsock_on_event got since the last new or close
  misuse,    \* history: how control blocks were used after lwIP freed them
  env        \* what lwIP and the application may do here

vars == <<sock, pcb, dns, stack, events, misuse, env>>

\* memset(state, 0)
Zero == [ipaddr |-> NULL, hostname |-> NULL, tcp_pcb |-> NULL, port_num |-> NoPort,
         host_found_pending |-> FALSE, connected |-> FALSE, connecting |-> FALSE]

\* A control block: its state, the peer, and whether it has our callbacks.
FreePcb == [st |-> "free", to |-> <<NULL, NoPort>>, cb |-> FALSE]

\* A function that waits for the application: "opened" and "closed" return to
\* lwIP, which goes on with block pcb; "message" is tcp_client_recv with left
\* buffers still to pass on; "error" is raise_error before its CLOSE, and
\* "refused" jd_tcpsock_new before its last jd_tcpsock_close.
Frame(d, p, n) == [do |-> d, pcb |-> p, left |-> n]
InOpen  == {"opened", "message"}
InClose == {"error", "closed", "refused"}

\* The address that host_found reads through a null pointer.
Nowhere == "nowhere"

Addr == Host \cup {Nowhere, NULL}
Peer == Addr \X (0 .. UINT16_MAX)

TypeOK ==
  /\ sock \in [ipaddr: Addr, hostname: Host \cup {NULL}, tcp_pcb: Pcb \cup {NULL},
               port_num: 0 .. UINT16_MAX, host_found_pending: BOOLEAN,
               connected: BOOLEAN, connecting: BOOLEAN]
  /\ sock.connecting => sock.port_num # NoPort
  /\ pcb \in [Pcb -> [st: {"free", "new", "syn", "est", "closing"}, to: Peer,
                      cb: BOOLEAN]]
  /\ dns \subseteq Host /\ misuse \subseteq {"driver", "recved", "return"}
  /\ stack \in Seq([do: InOpen \cup InClose, pcb: Pcb \cup {NULL}, left: Nat])
  /\ events \in Seq({"OPEN", "MESSAGE", "ERROR", "CLOSE", "closed"}) /\ env \in Envs

Init ==
  /\ sock = Zero /\ pcb = [p \in Pcb |-> FreePcb] /\ dns = {} /\ stack = <<>>
  /\ events = <<"closed">> /\ misuse = {} /\ env \in Envs

-----------------------------------------------------------------------------
(* jd_tcpsock_close and raise_error, of the socket s and control blocks P. *)

Freed(s, P) == s.tcp_pcb # NULL /\ P[s.tcp_pcb].st = "free"

\* Variant: the callbacks are left in place.
ClosedPcbKeepsCallbacks(s, P, failed) ==
  IF s.tcp_pcb = NULL \/ Freed(s, P) THEN P
  ELSE [P EXCEPT ![s.tcp_pcb] = [@ EXCEPT !.st = "closing"]]

\* Variant: the block is aborted whether or not tcp_close has failed.
ClosedPcbAborts(s, P, failed) ==
  IF s.tcp_pcb = NULL \/ Freed(s, P) THEN P ELSE [P EXCEPT ![s.tcp_pcb] = FreePcb]

\* Variant: the pointer to the closed block is kept.
ZeroKeepsPcb(s) == [Zero EXCEPT !.tcp_pcb = s.tcp_pcb]

\* What jd_tcpsock_close leaves in sock_state.
Closed(s) == Zero

\* Take the callbacks off and close: lwIP frees the block when it is done, or,
\* if tcp_close has failed, in tcp_abort.
ClosedPcb(s, P, failed) ==
  IF s.tcp_pcb = NULL \/ Freed(s, P) THEN P
  ELSE [P EXCEPT ![s.tcp_pcb] = [FreePcb EXCEPT !.st = IF failed THEN "free" ELSE "closing"]]

\* The calls of lwIP with tcp_pcb.
Touch(s, P) == misuse' = misuse \cup (IF Freed(s, P) THEN {"driver"} ELSE {})

Close(s, P) ==
  /\ \E failed \in BOOLEAN : /\ failed => "nomem" \in env
                             /\ pcb' = ClosedPcb(s, P, failed)
  /\ sock' = Closed(s) /\ Touch(s, P)

\* Variant: an error is raised whether or not there is a connection.
RaiseAlways(s, P, callers) ==
  /\ Close(s, P) /\ events' = Append(events, "ERROR")
  /\ stack' = <<Frame("error", NULL, 0)>> \o callers

\* An error is raised in the functions callers: they wait for raise_error, and
\* that for the application, which is told ERROR.
raise_error(s, P, callers) ==
  \/ /\ ~s.connecting
     /\ sock' = s /\ pcb' = P /\ UNCHANGED <<stack, events, misuse>>
  \/ /\ s.connecting
     /\ Close(s, P) /\ events' = Append(events, "ERROR")
     /\ stack' = <<Frame("error", NULL, 0)>> \o callers

-----------------------------------------------------------------------------
(* The application, on its own or from an event. *)

AppMay ==
  /\ "late" \in env \/ dns = {}
  /\ \/ stack = <<>>
     \/ /\ stack # <<>> /\ Len(stack) < MaxDepth
        /\ \/ "message" \in env /\ Head(stack).do \in InOpen
           \/ "ending" \in env /\ Head(stack).do \in InClose

jd_tcpsock_close ==
  /\ AppMay
  /\ Close(sock, pcb) /\ events' = <<"closed">>
  /\ UNCHANGED <<dns, stack>>

\* Variant: only a missing port is refused.
PortGiven(p) == p # 0

ValidPort(p) == p # 0 /\ p \in 0 .. UINT16_MAX

\* port_num is a uint16_t.
Opening(h, p) ==
  [Closed(sock) EXCEPT !.hostname = h, !.port_num = p % (UINT16_MAX + 1), !.connecting = TRUE]

\* dns_gethostbyname cannot ask: raise_error, and then jd_tcpsock_close again.
Refused ==
  /\ UNCHANGED dns /\ sock' = Closed(sock) /\ events' = <<"ERROR">>
  /\ stack' = <<Frame("error", NULL, 0), Frame("refused", NULL, 0)>> \o stack

\* Variant: the last connection is not closed.
NewWithoutClose(h, p) ==
  /\ AppMay /\ ValidPort(p) /\ UNCHANGED <<pcb, misuse>>
  /\ \/ /\ h \notin dns /\ dns' = dns \cup {h}
        /\ sock' = Opening(h, p) /\ events' = <<>> /\ UNCHANGED stack
     \/ Refused

\* jd_tcpsock_new closes the last connection and asks for the address, which
\* is looked up, known already, or cannot be asked for.  (lwIP may refuse a
\* second look-up of a name.)
jd_tcpsock_new(h, p) ==
  /\ AppMay /\ ValidPort(p)
  /\ \E failed \in BOOLEAN : /\ failed => "nomem" \in env
                             /\ pcb' = ClosedPcb(sock, pcb, failed)
  /\ Touch(sock, pcb)
  /\ \/ /\ h \notin dns /\ dns' = dns \cup {h}
        /\ sock' = Opening(h, p) /\ events' = <<>> /\ UNCHANGED stack
     \/ /\ "cached" \in env /\ UNCHANGED <<dns, stack>> /\ events' = <<>>
        /\ sock' = [Opening(h, p) EXCEPT !.ipaddr = h, !.host_found_pending = TRUE]
     \/ Refused

\* tcp_write or tcp_output fails, or both succeed and nothing changes here.
jd_tcpsock_write ==
  /\ AppMay /\ sock.connected /\ UNCHANGED dns
  /\ \/ raise_error(sock, pcb, stack)
     \/ Touch(sock, pcb) /\ UNCHANGED <<sock, pcb, stack, events>>

-----------------------------------------------------------------------------
(* The address is known: connect. *)

\* There is no control block left, ...
NoPcb(a) == raise_error([sock EXCEPT !.ipaddr = a, !.tcp_pcb = NULL], pcb, stack)

\* ... or one is set up with our callbacks, and tcp_connect starts or fails.
host_found(a) ==
  \/ NoPcb(a)
  \/ \E p \in Pcb, started \in BOOLEAN :
       LET s == [sock EXCEPT !.ipaddr = a, !.tcp_pcb = p]
           P == [pcb EXCEPT ![p] = [st |-> IF started THEN "syn" ELSE "new",
                                    to |-> <<a, sock.port_num>>, cb |-> TRUE]]
       IN  /\ pcb[p].st = "free"
           /\ IF started THEN sock' = s /\ pcb' = P /\ UNCHANGED <<stack, events, misuse>>
                         ELSE raise_error(s, P, stack)

\* A cached answer: the flag is set again, not consumed.
jd_tcpsock_process ==
  /\ stack = <<>> /\ sock.host_found_pending
  /\ host_found(sock.ipaddr)
  /\ UNCHANGED dns

DnsAnswer(h) ==
  /\ stack = <<>> /\ h \in dns /\ dns' = dns \ {h}
  /\ \/ host_found(h)
     \/ "unknown" \in env /\ host_found(Nowhere)

-----------------------------------------------------------------------------
(* Callbacks of control blocks. *)

Callback(p, st) == stack = <<>> /\ pcb[p].cb /\ pcb[p].st \in st /\ UNCHANGED dns

tcp_client_connected(p) ==
  /\ Callback(p, {"syn"}) /\ Len(events) < MaxEvents
  /\ pcb' = [pcb EXCEPT ![p] = [@ EXCEPT !.st = "est"]]
  /\ sock' = [sock EXCEPT !.connected = TRUE]
  /\ events' = Append(events, "OPEN") /\ stack' = <<Frame("opened", p, 0)>>
  /\ UNCHANGED misuse

\* Variant: a connection that was refused is not reported.
ConnectedIgnoresError(p) ==
  /\ Callback(p, {"syn"}) /\ pcb' = [pcb EXCEPT ![p] = FreePcb]
  /\ UNCHANGED <<sock, events, misuse, stack>>

tcp_client_connected_err(p) ==
  Callback(p, {"syn"}) /\ raise_error(sock, pcb, <<Frame("closed", p, 0)>>)

\* Every buffer of a chain is an event of its own; this is the first.
tcp_client_recv(p) ==
  /\ Callback(p, {"est"}) /\ Len(events) < MaxEvents
  /\ \E n \in 0 .. 1 : stack' = <<Frame("message", p, n)>>
  /\ events' = Append(events, "MESSAGE")
  /\ UNCHANGED <<sock, pcb, misuse>>

\* The peer closes.
tcp_client_recv_null(p) ==
  Callback(p, {"est"}) /\ raise_error(sock, pcb, <<Frame("closed", p, 0)>>)

\* lwIP gives the block up: tcp_client_err passes every reason but ERR_ABRT on.
\* (It does not touch the block again.)
tcp_client_err(p) ==
  /\ "reset" \in env /\ Callback(p, {"syn", "est"})
  /\ raise_error(sock, [pcb EXCEPT ![p] = FreePcb], <<>>)

tcp_client_err_abrt(p) ==
  /\ "abort" \in env /\ Callback(p, {"syn", "est"})
  /\ pcb' = [pcb EXCEPT ![p] = FreePcb]
  /\ UNCHANGED <<sock, events, misuse, stack>>

\* lwIP is done with a block that was closed.
PcbDone(p) ==
  /\ stack = <<>> /\ pcb[p].st = "closing"
  /\ pcb' = [pcb EXCEPT ![p] = FreePcb]
  /\ UNCHANGED <<sock, dns, stack, events, misuse>>

-----------------------------------------------------------------------------
(* The application returns to the function that called it. *)

Returns(do) == stack # <<>> /\ Head(stack).do \in do /\ UNCHANGED dns

\* Block p is used as ways say.
Use(p, ways) ==
  misuse' = misuse \cup (IF p # NULL /\ pcb[p].st = "free" THEN ways ELSE {})

RecvNext ==
  /\ Returns({"message"}) /\ Head(stack).left > 0
  /\ events' = Append(events, "MESSAGE")
  /\ stack' = <<[Head(stack) EXCEPT !.left = @ - 1]>> \o Tail(stack)
  /\ UNCHANGED <<sock, pcb, misuse>>

\* tcp_recved, and the return to lwIP, which uses the block too.
RecvReturns ==
  /\ Returns({"message"}) /\ Head(stack).left = 0
  /\ Use(Head(stack).pcb, {"recved", "return"}) /\ stack' = Tail(stack)
  /\ UNCHANGED <<sock, pcb, events>>

\* Whatever the application has done meanwhile, raise_error goes on with CLOSE.
ErrorReturns ==
  /\ Returns({"error"})
  /\ events' = Append(events, "CLOSE") /\ stack' = Tail(stack)
  /\ UNCHANGED <<sock, pcb, misuse>>

NewReturns ==
  /\ Returns({"refused"})
  /\ Close(sock, pcb) /\ stack' = Tail(stack)
  /\ UNCHANGED events

\* A callback returns ERR_OK, also if its block was aborted.
CallbackReturns ==
  /\ Returns({"opened", "closed"})
  /\ Use(Head(stack).pcb, {"return"}) /\ stack' = Tail(stack)
  /\ UNCHANGED <<sock, pcb, events>>

Return == RecvNext \/ RecvReturns \/ ErrorReturns \/ NewReturns \/ CallbackReturns

Call  == jd_tcpsock_close \/ \E h \in Host, p \in Port : jd_tcpsock_new(h, p)
Reply(p) == \/ tcp_client_connected(p) \/ tcp_client_connected_err(p)
            \/ tcp_client_err(p) \/ tcp_client_err_abrt(p)

Step ==
  \/ Call \/ jd_tcpsock_write \/ jd_tcpsock_process \/ Return
  \/ \E h \in Host : DnsAnswer(h)
  \/ \E p \in Pcb : Reply(p) \/ tcp_client_recv(p) \/ tcp_client_recv_null(p) \/ PcbDone(p)

Next == Step /\ UNCHANGED env

Spec == Init /\ [][Next]_vars

\* DNS answers, the peer does or lwIP gives up, the main loop runs, and the
\* application returns from events.
Fairness ==
  /\ WF_vars(jd_tcpsock_process /\ UNCHANGED env) /\ WF_vars(Return /\ UNCHANGED env)
  /\ \A h \in Host : WF_vars(DnsAnswer(h) /\ UNCHANGED env)
  /\ \A p \in Pcb : WF_vars(Reply(p) /\ UNCHANGED env) /\ WF_vars(PcbDone(p) /\ UNCHANGED env)

FairSpec == Spec /\ Fairness

-----------------------------------------------------------------------------
(* Properties.  Each holds in the environments it names; the README says   *)
(* how the others break it.                                                *)

Ending == \E i \in DOMAIN stack : stack[i].do = "error"

conn == IF sock.connected THEN "open"
        ELSE IF sock.connecting THEN "opening"
        ELSE IF Ending THEN "ending" ELSE "closed"

\* Where a look-up is always asked for and waited for and the application does
\* not call the socket from its events, the socket is the connection that it was
\* promised: no event of an earlier connection, none after a close, OPEN before
\* any message, and CLOSE after ERROR (lwip_sock.c:43-113).
Waiting == env \cap {"cached", "late", "message", "ending"} = {}
C == INSTANCE Connection WITH conn <- IF Waiting THEN conn ELSE "closed",
                              events <- IF Waiting THEN events ELSE <<"closed">>
IsConnection == C!Spec

\* If the application does not call the socket from ERROR or CLOSE, the end of a
\* connection, however many callbacks notice, is reported once, and not at all
\* if the application closed it; and no connection disappears without a report:
\* raise_error (lwip_sock.c:48-69) and the two ends of jd_tcpsock_new (144,
\* 158-159).
OneClose ==
  LET closes == {i \in DOMAIN events : events[i] = "CLOSE"}
      byApp  == Len(events) > 0 /\ events[1] = "closed"
  IN  "ending" \notin env =>
        /\ \A i, j \in closes : i = j
        /\ closes # {} => ~sock.connecting /\ ~byApp
        /\ stack = <<>> /\ ~sock.connecting => closes # {} \/ byApp

\* The types, and the reports of the end of a connection (lwip_sock.c:43-69, 141).
EventsOK == TypeOK /\ OneClose

\* Where look-ups are waited for and succeed, every control block that can
\* still call back is the socket's own and goes to the peer asked for last, so
\* that no block leaks, and what is written goes there, also if the application
\* closes or opens the socket from OPEN or MESSAGE (lwip_sock.c:114-134, 190-193).
OwnBlock ==
  env \cap {"cached", "late", "unknown", "abort", "ending"} = {} =>
    /\ \A p \in Pcb : pcb[p].cb =>
         sock.tcp_pcb = p /\ pcb[p].to = <<sock.hostname, sock.port_num>>
    /\ sock.connected => sock.tcp_pcb # NULL /\ pcb[sock.tcp_pcb].st = "est"

\* The socket touches no block that was freed as long as lwIP gives up none by
\* itself.  tcp_recved, and lwIP when a callback returns, find the block of the
\* call, whatever the application does in it, unless a tcp_close fails and the
\* block is aborted; then tcp_recved finds it if the application does not call
\* the socket from MESSAGE (lwip_sock.c:27-41, 71-113).
NoUseAfterFree ==
  /\ env \cap {"reset", "abort"} = {} => "driver" \notin misuse
  /\ "nomem" \notin env => misuse \subseteq {"driver"}
  /\ "message" \notin env => "recved" \notin misuse

\* Once the application leaves the socket alone and lwIP aborts no more
\* connections, the one asked for is made or reported as failed, unless it is
\* one that was aborted, of which tcp_client_err says nothing (lwip_sock.c:70-91).
Settles ==
  <>[][~Call /\ \A p \in Pcb : ~tcp_client_err_abrt(p)]_vars
    => <>[](sock.connecting => sock.connected \/ Freed(sock, pcb))
=============================================================================

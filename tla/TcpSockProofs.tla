--------------------------- MODULE TcpSockProofs ----------------------------
(***************************************************************************)
(* Proofs about TcpSock for any hosts and ports, any pool of control       *)
(* blocks, any environments and calls of the application at any depth.     *)
(***************************************************************************)
EXTENDS TcpSock, TLAPS

-----------------------------------------------------------------------------
(* The inductive invariant. *)

\* The end was reported, at most once, or the application closed the socket.
Ended == \E i \in DOMAIN events : events[i] = "CLOSE"
Once  == \A i, j \in DOMAIN events : events[i] = "CLOSE" /\ events[j] = "CLOSE" => i = j
ByApp == Len(events) > 0 /\ events[1] = "closed"

\* If the application does not call from ERROR or CLOSE: raise_error is the
\* innermost function in progress, its CLOSE is still to come, and nothing is
\* opened before the functions around it have returned.
EndInv == "ending" \notin env =>
  /\ Once /\ (Ended => ~ByApp)
  /\ sock.connecting => ~Ended /\ ~ByApp
  /\ ~sock.connecting => Ended \/ ByApp \/ Ending
  /\ \A i \in DOMAIN stack : stack[i].do \in InClose => ~sock.connecting
  /\ \A i \in DOMAIN stack : stack[i].do = "error" => i = 1 /\ ~Ended /\ ~ByApp

\* A block that lwIP has freed or is closing does not call back.
FreeInv == \A p \in Pcb : pcb[p].st \in {"free", "closing"} => ~pcb[p].cb

\* As long as lwIP frees no block by itself, the socket's is in use.
LiveInv == env \cap {"reset", "abort"} = {} =>
  /\ "driver" \notin misuse
  /\ sock.tcp_pcb # NULL => pcb[sock.tcp_pcb].st \in {"new", "syn", "est"}

\* Where look-ups are always asked for and waited for: one is on its way only
\* before there is a block, for the name asked for last; and a block that can
\* call back is the socket's, established exactly when the socket says so.
PatientEnv == env \cap {"cached", "late", "ending"} = {}
LookupInv == PatientEnv =>
  /\ ~sock.host_found_pending
  /\ dns # {} => /\ sock.connecting /\ ~sock.connected /\ sock.tcp_pcb = NULL
                 /\ dns = {sock.hostname}
BlockInv == PatientEnv =>
  /\ sock.connected => sock.connecting
  /\ \A p \in Pcb : pcb[p].cb =>
       /\ sock.tcp_pcb = p /\ sock.connecting /\ pcb[p].st \in {"syn", "est"}
       /\ pcb[p].st = "est" <=> sock.connected
       /\ "unknown" \notin env => pcb[p].to = <<sock.hostname, sock.port_num>>
  /\ "abort" \notin env /\ sock.connected => sock.tcp_pcb # NULL /\ pcb[sock.tcp_pcb].cb

\* lwIP calls from outside only.  A function in progress finds its block, since
\* nothing but an abort frees one meanwhile; and the connection of a message is
\* open if the application does not call from there.
Held(f) == f.pcb # NULL /\ ("nomem" \in env => "message" \notin env /\ f.do \in InOpen)
FrameInv == \A i \in DOMAIN stack :
  /\ stack[i].do \in InOpen => i = Len(stack) /\ ("message" \in env \/ i = 1)
  /\ Held(stack[i]) => pcb[stack[i].pcb].st # "free"
  /\ PatientEnv /\ "message" \notin env /\ stack[i].do \in InOpen => sock.connected
UseInv == /\ "nomem" \notin env => misuse \subseteq {"driver"}
          /\ "message" \notin env => "recved" \notin misuse

PcbInv == FreeInv /\ LiveInv /\ LookupInv /\ BlockInv

IInv == TypeOK /\ EndInv /\ PcbInv /\ FrameInv /\ UseInv

-----------------------------------------------------------------------------
(* Types. *)

EventSet  == {"OPEN", "MESSAGE", "ERROR", "CLOSE", "closed"}
MisuseSet == {"driver", "recved", "return"}
SockType == [ipaddr: Addr, hostname: Host \cup {NULL}, tcp_pcb: Pcb \cup {NULL},
             port_num: 0 .. UINT16_MAX, host_found_pending: BOOLEAN,
             connected: BOOLEAN, connecting: BOOLEAN]
PcbType  == [Pcb -> [st: {"free", "new", "syn", "est", "closing"}, to: Peer, cb: BOOLEAN]]
FrameType == [do: InOpen \cup InClose, pcb: Pcb \cup {NULL}, left: Nat]

LEMMA Types ==
  TypeOK <=> /\ sock \in SockType /\ (sock.connecting => sock.port_num # NoPort)
             /\ pcb \in PcbType /\ dns \subseteq Host /\ misuse \subseteq MisuseSet
             /\ stack \in Seq(FrameType) /\ events \in Seq(EventSet) /\ env \in Envs
  BY DEF TypeOK, SockType, PcbType, EventSet, MisuseSet, FrameType

LEMMA TypesPrime ==
  ASSUME sock' \in SockType, sock'.connecting => sock'.port_num # NoPort, pcb' \in PcbType,
         dns' \subseteq Host, misuse' \subseteq MisuseSet, stack' \in Seq(FrameType),
         events' \in Seq(EventSet), env' \in Envs
  PROVE  TypeOK'
  BY Zenon DEF TypeOK, SockType, PcbType, EventSet, MisuseSet, FrameType

\* What a close leaves behind.
LEMMA ZeroType ==
  /\ Zero \in SockType /\ Zero.tcp_pcb = NULL /\ ~Zero.connecting /\ ~Zero.connected
  /\ ~Zero.host_found_pending
  BY DEF Zero, SockType, Addr, NoPort, UINT16_MAX

LEMMA FreePcbType ==
  ASSUME NEW st \in {"free", "closing"}
  PROVE  /\ FreePcb \in [st: {"free", "new", "syn", "est", "closing"}, to: Peer, cb: BOOLEAN]
         /\ FreePcb.st = "free" /\ ~FreePcb.cb
         /\ [FreePcb EXCEPT !.st = st] \in [st: {"free", "new", "syn", "est", "closing"}, to: Peer,
                                            cb: BOOLEAN]
         /\ [FreePcb EXCEPT !.st = st].st = st /\ ~[FreePcb EXCEPT !.st = st].cb
<1>1. NULL \in Addr /\ NoPort \in 0 .. UINT16_MAX BY DEF Addr, NoPort, UINT16_MAX
<1>2. <<NULL, NoPort>> \in Peer BY <1>1, Zenon DEF Peer
<1> QED BY <1>2 DEF FreePcb

\* The functions that can be in progress.
LEMMA FrameTypes ==
  ASSUME NEW d \in InOpen \cup InClose, NEW p \in Pcb \cup {NULL}, NEW n \in Nat
  PROVE  /\ Frame(d, p, n) \in FrameType /\ Frame(d, p, n).do = d
         /\ Frame(d, p, n).pcb = p /\ Frame(d, p, n).left = n
  BY DEF Frame, FrameType

\* What jd_tcpsock_close does to the blocks P: the socket's, unless it has none
\* or lwIP has freed it, is closed and does not call back.
Closing(s, P) ==
  /\ pcb' \in PcbType
  /\ \A p \in Pcb :
       \/ pcb'[p] = P[p] /\ (s.tcp_pcb = p => P[p].st = "free")
       \/ /\ s.tcp_pcb = p /\ P[p].st # "free"
          /\ ~pcb'[p].cb /\ pcb'[p].st \in {"free", "closing"}
          /\ pcb'[p].st = "free" => "nomem" \in env

LEMMA CloseEffect ==
  ASSUME NEW s \in SockType, NEW P \in PcbType, NEW failed \in BOOLEAN, failed => "nomem" \in env,
         pcb' = ClosedPcb(s, P, failed)
  PROVE  Closing(s, P)
<1>1. CASE s.tcp_pcb = NULL \/ Freed(s, P)
  BY <1>1, SockInputs DEF ClosedPcb, Closing, Freed
<1>2. CASE ~(s.tcp_pcb = NULL \/ Freed(s, P))
  <2>1. PICK q \in Pcb : q = s.tcp_pcb BY <1>2 DEF SockType
  <2>2. PICK st \in {"free", "closing"} : st = IF failed THEN "free" ELSE "closing" OBVIOUS
  <2>3. pcb' = [P EXCEPT ![q] = [FreePcb EXCEPT !.st = st]] BY <1>2, <2>1, <2>2 DEF ClosedPcb
  <2>4. /\ pcb' \in PcbType /\ pcb'[q].st = st /\ ~pcb'[q].cb
        /\ \A p \in Pcb \ {q} : pcb'[p] = P[p]
    BY <2>3, FreePcbType DEF PcbType
  <2>5. P[q].st # "free" BY <1>2, <2>1 DEF Freed
  <2> QED BY <2>1, <2>2, <2>4, <2>5 DEF Closing
<1> QED BY <1>1, <1>2

LEMMA TouchType ==
  ASSUME misuse \subseteq MisuseSet, NEW s, NEW P, Touch(s, P)
  PROVE  /\ misuse' \subseteq MisuseSet /\ misuse' \subseteq misuse \cup {"driver"}
         /\ "driver" \in misuse' => "driver" \in misuse \/ Freed(s, P)
  BY DEF Touch, MisuseSet

\* jd_tcpsock_close as a whole.
LEMMA CloseCase ==
  ASSUME TypeOK, NEW s \in SockType, NEW P \in PcbType, Close(s, P)
  PROVE  sock' = Zero /\ Closing(s, P) /\ Touch(s, P)
  BY CloseEffect DEF Close, Closed

\* The two ends of raise_error.
Stays(s, P) == sock' = s /\ pcb' = P /\ UNCHANGED <<stack, events, misuse>>
Ends(s, P, callers) ==
  /\ sock' = Zero /\ Closing(s, P) /\ Touch(s, P)
  /\ events' = Append(events, "ERROR") /\ stack' = <<Frame("error", NULL, 0)>> \o callers

LEMMA RaiseCases ==
  ASSUME TypeOK, NEW s \in SockType, NEW P \in PcbType, NEW callers, raise_error(s, P, callers)
  PROVE  \/ ~s.connecting /\ Stays(s, P)
         \/ s.connecting /\ Ends(s, P, callers)
  BY CloseCase DEF raise_error, Stays, Ends

-----------------------------------------------------------------------------
(* The stack and the event log. *)

LEMMA Pushed ==
  ASSUME NEW f \in FrameType, NEW c \in Seq(FrameType), stack' = <<f>> \o c
  PROVE  /\ stack' \in Seq(FrameType) /\ Len(stack') = Len(c) + 1 /\ Len(c) \in Nat
         /\ DOMAIN stack' = 1 .. Len(c) + 1 /\ DOMAIN c = 1 .. Len(c)
         /\ stack'[1] = f
         /\ \A i \in DOMAIN stack' : i = 1 \/ (i - 1 \in DOMAIN c /\ stack'[i] = c[i - 1])
  OBVIOUS

LEMMA PushedTwo ==
  ASSUME NEW f \in FrameType, NEW g \in FrameType, NEW c \in Seq(FrameType), stack' = <<f, g>> \o c
  PROVE  /\ stack' \in Seq(FrameType) /\ Len(stack') = Len(c) + 2 /\ Len(c) \in Nat
         /\ DOMAIN stack' = 1 .. Len(c) + 2 /\ DOMAIN c = 1 .. Len(c)
         /\ stack'[1] = f /\ stack'[2] = g
         /\ \A i \in DOMAIN stack' : i \in {1, 2} \/ (i - 2 \in DOMAIN c /\ stack'[i] = c[i - 2])
  OBVIOUS

LEMMA Popped ==
  ASSUME stack \in Seq(FrameType), stack # <<>>, stack' = Tail(stack)
  PROVE  /\ stack' \in Seq(FrameType) /\ Len(stack') = Len(stack) - 1 /\ Len(stack') \in Nat
         /\ DOMAIN stack' = 1 .. Len(stack') /\ DOMAIN stack = 1 .. Len(stack)
         /\ Head(stack) = stack[1] /\ Head(stack) \in FrameType /\ 1 \in DOMAIN stack
         /\ \A i \in DOMAIN stack' : i \in Nat \ {0} /\ i + 1 \in DOMAIN stack /\ stack'[i] = stack[i + 1]
  OBVIOUS

\* The log after an event that ends nothing, and after CLOSE.
LEMMA LogGrows ==
  ASSUME events \in Seq(EventSet), NEW e \in EventSet \ {"CLOSE", "closed"},
         events' = Append(events, e)
  PROVE  /\ events' \in Seq(EventSet) /\ (Once => Once') /\ (Ended' <=> Ended) /\ (ByApp' <=> ByApp)
<1>1. /\ DOMAIN events' = 1 .. Len(events) + 1 /\ DOMAIN events = 1 .. Len(events)
      /\ Len(events') = Len(events) + 1 /\ Len(events) \in Nat
      /\ events'[Len(events) + 1] = e /\ \A i \in 1 .. Len(events) : events'[i] = events[i]
      /\ events' \in Seq(EventSet)
  BY DEF EventSet
<1>2. \A i \in DOMAIN events' : events'[i] = "CLOSE" => i \in DOMAIN events /\ events[i] = "CLOSE"
  BY <1>1
<1>3. \A i \in DOMAIN events : i \in DOMAIN events' /\ events'[i] = events[i] BY <1>1
<1>4. events'[1] = "closed" <=> Len(events) > 0 /\ events[1] = "closed"
  <2>1. CASE Len(events) > 0 BY <1>1, <2>1
  <2>2. CASE Len(events) = 0 BY <1>1, <2>2
  <2> QED BY <1>1, <2>1, <2>2
<1>5. Once => Once' BY <1>2 DEF Once
<1>6. Ended' <=> Ended BY <1>2, <1>3 DEF Ended
<1>7. ByApp' <=> ByApp BY <1>1, <1>4 DEF ByApp
<1> QED BY <1>1, <1>5, <1>6, <1>7

LEMMA LogEnds ==
  ASSUME events \in Seq(EventSet), events' = Append(events, "CLOSE")
  PROVE  /\ events' \in Seq(EventSet) /\ Ended'
         /\ ~Ended => Once'
         /\ ~ByApp => ~ByApp'
<1>1. /\ DOMAIN events' = 1 .. Len(events) + 1 /\ DOMAIN events = 1 .. Len(events)
      /\ Len(events') = Len(events) + 1 /\ Len(events) \in Nat
      /\ events'[Len(events) + 1] = "CLOSE" /\ \A i \in 1 .. Len(events) : events'[i] = events[i]
      /\ events' \in Seq(EventSet)
  BY DEF EventSet
<1>2. Ended' BY <1>1 DEF Ended
<1>3. ~Ended => Once'
  <2>1. SUFFICES ASSUME ~Ended PROVE \A i \in DOMAIN events' : events'[i] = "CLOSE" => i = Len(events) + 1
    BY DEF Once
  <2> QED BY <1>1, <2>1 DEF Ended
<1>4. ~ByApp => ~ByApp'
  <2>1. CASE Len(events) > 0 BY <1>1, <2>1 DEF ByApp
  <2>2. CASE Len(events) = 0 BY <1>1, <2>2 DEF ByApp
  <2> QED BY <1>1, <2>1, <2>2
<1> QED BY <1>1, <1>2, <1>3, <1>4

\* After a call of the application.
LEMMA LogStarts ==
  /\ <<>> \in Seq(EventSet) /\ <<"closed">> \in Seq(EventSet) /\ <<"ERROR">> \in Seq(EventSet)
  /\ events' \in {<<>>, <<"ERROR">>} => Once' /\ ~Ended' /\ ~ByApp'
  /\ events' = <<"closed">> => Once' /\ ~Ended' /\ ByApp'
  BY DEF EventSet, Once, Ended, ByApp

-----------------------------------------------------------------------------
(* Every step keeps the types. *)

LEMMA CloseType ==
  ASSUME TypeOK, NEW s \in SockType, NEW P, sock' = Zero, Closing(s, P), Touch(s, P),
         dns' \subseteq Host, stack' \in Seq(FrameType), events' \in Seq(EventSet), UNCHANGED env
  PROVE  TypeOK'
<1>1. misuse' \subseteq MisuseSet BY Types, TouchType
<1>2. pcb' \in PcbType BY DEF Closing
<1>3. env' \in Envs BY Types
<1> QED BY <1>1, <1>2, <1>3, ZeroType, TypesPrime

LEMMA RaiseErrorType ==
  ASSUME TypeOK, NEW s \in SockType, s.connecting => s.port_num # NoPort, NEW P \in PcbType,
         NEW c \in Seq(FrameType), raise_error(s, P, c), dns' \subseteq Host, UNCHANGED env
  PROVE  TypeOK'
<1>1. CASE ~s.connecting /\ Stays(s, P) BY <1>1, Types, TypesPrime DEF Stays
<1>2. CASE Ends(s, P, c)
  <2>1. stack' \in Seq(FrameType) /\ events' \in Seq(EventSet)
    <3>1. Frame("error", NULL, 0) \in FrameType BY FrameTypes DEF InClose
    <3> QED BY <1>2, <3>1, Types, Pushed, LogGrows DEF Ends, EventSet
  <2> QED BY <1>2, <2>1, CloseType DEF Ends
<1> QED BY <1>1, <1>2, RaiseCases

\* The application asks for a connection.
LEMMA OpeningType ==
  ASSUME NEW h \in Host, NEW p \in Port, ValidPort(p)
  PROVE  /\ Opening(h, p) \in SockType /\ Opening(h, p).port_num # NoPort
         /\ Opening(h, p).connecting /\ ~Opening(h, p).connected /\ ~Opening(h, p).host_found_pending
         /\ Opening(h, p).tcp_pcb = NULL /\ Opening(h, p).hostname = h
         /\ [Opening(h, p) EXCEPT !.ipaddr = h, !.host_found_pending = TRUE] \in SockType
         /\ [Opening(h, p) EXCEPT !.ipaddr = h, !.host_found_pending = TRUE].port_num # NoPort
         /\ [Opening(h, p) EXCEPT !.ipaddr = h, !.host_found_pending = TRUE].tcp_pcb = NULL
         /\ [Opening(h, p) EXCEPT !.ipaddr = h, !.host_found_pending = TRUE].connecting
         /\ ~[Opening(h, p) EXCEPT !.ipaddr = h, !.host_found_pending = TRUE].connected
<1>1. p \in 0 .. UINT16_MAX /\ p # 0 BY DEF ValidPort
<1>2. p % (UINT16_MAX + 1) = p
  <2>1. p \in Int /\ 0 <= p /\ p <= 65535 BY <1>1 DEF UINT16_MAX
  <2>2. p % 65536 = p BY <2>1
  <2>3. UINT16_MAX + 1 = 65536 BY DEF UINT16_MAX
  <2> QED BY <2>2, <2>3
<1> QED BY <1>1, <1>2, ZeroType DEF Opening, Closed, Zero, SockType, Addr, NoPort

\* What jd_tcpsock_new comes to: a look-up, a cached answer, or a refusal.
LEMMA NewCases ==
  ASSUME TypeOK, NEW h \in Host, NEW p \in Port, jd_tcpsock_new(h, p)
  PROVE  /\ AppMay /\ ValidPort(p) /\ Closing(sock, pcb) /\ Touch(sock, pcb)
         /\ \/ /\ h \notin dns /\ dns' = dns \cup {h} /\ sock' = Opening(h, p)
               /\ events' = <<>> /\ UNCHANGED stack
            \/ /\ "cached" \in env /\ UNCHANGED <<dns, stack>> /\ events' = <<>>
               /\ sock' = [Opening(h, p) EXCEPT !.ipaddr = h, !.host_found_pending = TRUE]
            \/ /\ UNCHANGED dns /\ sock' = Zero /\ events' = <<"ERROR">>
               /\ stack' = <<Frame("error", NULL, 0), Frame("refused", NULL, 0)>> \o stack
<1>1. Closing(sock, pcb) BY Types, CloseEffect DEF jd_tcpsock_new
<1> QED BY <1>1 DEF jd_tcpsock_new, Refused, Closed

\* The socket and the blocks that host_found connects with.
FoundSock(a, p)        == [sock EXCEPT !.ipaddr = a, !.tcp_pcb = p]
FoundPcb(a, p, st) ==
  [pcb EXCEPT ![p] = [st |-> st, to |-> <<a, sock.port_num>>, cb |-> TRUE]]

LEMMA FoundTypes ==
  ASSUME TypeOK, NEW a \in Addr
  PROVE  /\ \A p \in Pcb \cup {NULL} :
              /\ FoundSock(a, p) \in SockType /\ FoundSock(a, p).tcp_pcb = p
              /\ FoundSock(a, p).connecting = sock.connecting
              /\ FoundSock(a, p).connected = sock.connected
              /\ FoundSock(a, p).host_found_pending = sock.host_found_pending
              /\ FoundSock(a, p).port_num = sock.port_num /\ FoundSock(a, p).hostname = sock.hostname
         /\ \A p \in Pcb, st \in {"new", "syn"} :
              /\ FoundPcb(a, p, st) \in PcbType /\ FoundPcb(a, p, st)[p].st = st
              /\ FoundPcb(a, p, st)[p].to = <<a, sock.port_num>> /\ FoundPcb(a, p, st)[p].cb
              /\ \A q \in Pcb \ {p} : FoundPcb(a, p, st)[q] = pcb[q]
<1> USE Types
<1>1. ASSUME NEW p \in Pcb \cup {NULL}
      PROVE  /\ FoundSock(a, p) \in SockType /\ FoundSock(a, p).tcp_pcb = p
             /\ FoundSock(a, p).connecting = sock.connecting
             /\ FoundSock(a, p).connected = sock.connected
             /\ FoundSock(a, p).host_found_pending = sock.host_found_pending
             /\ FoundSock(a, p).port_num = sock.port_num /\ FoundSock(a, p).hostname = sock.hostname
  BY DEF FoundSock, SockType
<1>2. ASSUME NEW p \in Pcb, NEW st \in {"new", "syn"}
      PROVE  /\ FoundPcb(a, p, st) \in PcbType /\ FoundPcb(a, p, st)[p].st = st
             /\ FoundPcb(a, p, st)[p].to = <<a, sock.port_num>> /\ FoundPcb(a, p, st)[p].cb
             /\ \A q \in Pcb \ {p} : FoundPcb(a, p, st)[q] = pcb[q]
  <2>1. <<a, sock.port_num>> \in Peer
    <3>1. sock.port_num \in 0 .. UINT16_MAX BY DEF SockType
    <3> QED BY <3>1, Zenon DEF Peer
  <2> QED BY <2>1 DEF FoundPcb, PcbType
<1> QED BY <1>1, <1>2

\* host_found finds no block, starts to connect with one, or cannot.
LEMMA HostFoundCases ==
  ASSUME NEW a, host_found(a)
  PROVE  \/ raise_error(FoundSock(a, NULL), pcb, stack)
         \/ \E p \in Pcb :
              /\ pcb[p].st = "free"
              /\ \/ /\ sock' = FoundSock(a, p) /\ pcb' = FoundPcb(a, p, "syn")
                    /\ UNCHANGED <<stack, events, misuse>>
                 \/ raise_error(FoundSock(a, p), FoundPcb(a, p, "new"), stack)
<1>1. CASE NoPcb(a) BY <1>1 DEF NoPcb, FoundSock
<1>2. CASE ~NoPcb(a)
  <2>1. PICK p \in Pcb, started \in BOOLEAN :
          /\ pcb[p].st = "free"
          /\ IF started THEN /\ sock' = FoundSock(a, p)
                             /\ pcb' = FoundPcb(a, p, IF started THEN "syn" ELSE "new")
                             /\ UNCHANGED <<stack, events, misuse>>
             ELSE raise_error(FoundSock(a, p), FoundPcb(a, p, IF started THEN "syn" ELSE "new"), stack)
    BY <1>2, Zenon DEF host_found, FoundSock, FoundPcb
  <2>2. CASE started = TRUE BY <2>1, <2>2
  <2>3. CASE started = FALSE BY <2>1, <2>3
  <2> QED BY <2>2, <2>3
<1> QED BY <1>1, <1>2

LEMMA HostFoundType ==
  ASSUME TypeOK, NEW a \in Addr, host_found(a), dns' \subseteq Host, UNCHANGED env
  PROVE  TypeOK'
<1> USE Types, TypesPrime
<1>1. CASE raise_error(FoundSock(a, NULL), pcb, stack) BY <1>1, FoundTypes, RaiseErrorType
<1>2. ASSUME NEW p \in Pcb, sock' = FoundSock(a, p), pcb' = FoundPcb(a, p, "syn"),
             UNCHANGED <<stack, events, misuse>>
      PROVE  TypeOK'
  BY <1>2, FoundTypes
<1>3. ASSUME NEW p \in Pcb, raise_error(FoundSock(a, p), FoundPcb(a, p, "new"), stack) PROVE TypeOK'
  <2>1. /\ FoundSock(a, p) \in SockType /\ FoundPcb(a, p, "new") \in PcbType
        /\ FoundSock(a, p).connecting => FoundSock(a, p).port_num # NoPort
    BY FoundTypes
  <2> QED BY <1>3, <2>1, RaiseErrorType
<1> QED BY <1>1, <1>2, <1>3, HostFoundCases

LEMMA CloseFrames ==
  /\ Frame("error", NULL, 0) \in FrameType /\ Frame("refused", NULL, 0) \in FrameType
  /\ Frame("error", NULL, 0).do = "error" /\ Frame("refused", NULL, 0).do = "refused"
  /\ Frame("error", NULL, 0).pcb = NULL /\ Frame("refused", NULL, 0).pcb = NULL
<1>1. "error" \in InOpen \cup InClose /\ "refused" \in InOpen \cup InClose BY DEF InClose
<1> QED BY <1>1, FrameTypes

\* A frame that waits for lwIP, alone.
LEMMA Alone ==
  ASSUME NEW d \in InOpen \cup InClose, NEW p \in Pcb, NEW n \in Nat
  PROVE  /\ <<>> \in Seq(FrameType) /\ <<Frame(d, p, n)>> \in Seq(FrameType)
         /\ Len(<<Frame(d, p, n)>>) = 1 /\ <<Frame(d, p, n)>>[1].do = d
         /\ <<Frame(d, p, n)>>[1].pcb = p /\ DOMAIN <<Frame(d, p, n)>> = {1}
  BY FrameTypes

\* The next buffer of a chain.
LEMMA OneLeft ==
  ASSUME NEW f \in FrameType, f.left > 0
  PROVE  /\ [f EXCEPT !.left = @ - 1] \in FrameType
         /\ [f EXCEPT !.left = @ - 1].do = f.do /\ [f EXCEPT !.left = @ - 1].pcb = f.pcb
<1>1. f.left - 1 \in Nat BY DEF FrameType
<1> QED BY <1>1 DEF FrameType

\* The application has a block of a function in progress used.
LEMMA UseType ==
  ASSUME misuse \subseteq MisuseSet, NEW p, NEW ways \in SUBSET {"recved", "return"}, Use(p, ways)
  PROVE  /\ misuse' \subseteq MisuseSet /\ misuse' \subseteq misuse \cup ways
         /\ p = NULL \/ pcb[p].st # "free" => misuse' = misuse
  BY DEF Use, MisuseSet

LEMMA TypeStep ==
  ASSUME TypeOK, [Next]_vars
  PROVE  TypeOK'
<1> USE Types, TypesPrime
<1>1. CASE UNCHANGED vars BY <1>1 DEF vars
<1> SUFFICES ASSUME Step, UNCHANGED env PROVE TypeOK' BY <1>1 DEF Next
<1>2. CASE jd_tcpsock_close
  BY <1>2, CloseCase, CloseType, LogStarts DEF jd_tcpsock_close
<1>3. ASSUME NEW h \in Host, NEW p \in Port, jd_tcpsock_new(h, p) PROVE TypeOK'
  <2>1. ValidPort(p) /\ Closing(sock, pcb) /\ Touch(sock, pcb) BY <1>3, NewCases
  <2>2. misuse' \subseteq MisuseSet /\ pcb' \in PcbType BY <2>1, TouchType DEF Closing
  <2>3. stack' \in Seq(FrameType)
    <3>1. Frame("error", NULL, 0) \in FrameType /\ Frame("refused", NULL, 0) \in FrameType
      BY FrameTypes DEF InClose
    <3> QED BY <1>3, <3>1, NewCases, PushedTwo
  <2>4. events' \in Seq(EventSet) /\ dns' \subseteq Host BY <1>3, NewCases, LogStarts
  <2>5. sock' \in SockType /\ (sock'.connecting => sock'.port_num # NoPort)
    <3>1. \/ sock' = Opening(h, p) \/ sock' = Zero
          \/ sock' = [Opening(h, p) EXCEPT !.ipaddr = h, !.host_found_pending = TRUE]
      BY <1>3, NewCases
    <3>2. CASE sock' = Zero BY <3>2, ZeroType
    <3>3. CASE sock' = Opening(h, p) BY <2>1, <3>3, OpeningType
    <3>4. CASE sock' = [Opening(h, p) EXCEPT !.ipaddr = h, !.host_found_pending = TRUE]
      BY <2>1, <3>4, OpeningType
    <3> QED BY <3>1, <3>2, <3>3, <3>4
  <2> QED BY <2>2, <2>3, <2>4, <2>5
<1>4. CASE jd_tcpsock_write
  <2>1. CASE raise_error(sock, pcb, stack) BY <1>4, <2>1, RaiseErrorType DEF jd_tcpsock_write
  <2>2. CASE Touch(sock, pcb) /\ UNCHANGED <<sock, pcb, stack, events>>
    BY <1>4, <2>2, TouchType DEF jd_tcpsock_write
  <2> QED BY <1>4, <2>1, <2>2 DEF jd_tcpsock_write
<1>5. CASE jd_tcpsock_process
  <2>1. sock.ipaddr \in Addr BY Zenon DEF SockType
  <2> QED BY <1>5, <2>1, HostFoundType DEF jd_tcpsock_process
<1>6. ASSUME NEW h \in Host, DnsAnswer(h) PROVE TypeOK'
  <2>1. h \in Addr /\ Nowhere \in Addr BY DEF Addr
  <2> QED BY <1>6, <2>1, HostFoundType DEF DnsAnswer
<1>7. ASSUME NEW p \in Pcb, tcp_client_connected(p) PROVE TypeOK'
  <2>1. events' \in Seq(EventSet) BY <1>7, LogGrows DEF tcp_client_connected, EventSet
  <2>2. stack' \in Seq(FrameType) BY <1>7, Alone DEF tcp_client_connected, InOpen
  <2>3. sock' \in SockType /\ (sock'.connecting => sock'.port_num # NoPort) /\ pcb' \in PcbType
    BY <1>7 DEF tcp_client_connected, PcbType, SockType
  <2> QED BY <1>7, <2>1, <2>2, <2>3 DEF tcp_client_connected, Callback
<1>8. ASSUME NEW p \in Pcb, tcp_client_connected_err(p) \/ tcp_client_recv_null(p) PROVE TypeOK'
  <2>1. <<Frame("closed", p, 0)>> \in Seq(FrameType) BY Alone DEF InClose
  <2> QED BY <1>8, <2>1, RaiseErrorType DEF tcp_client_connected_err, tcp_client_recv_null, Callback
<1>9. ASSUME NEW p \in Pcb, tcp_client_err(p) PROVE TypeOK'
  <2>1. [pcb EXCEPT ![p] = FreePcb] \in PcbType BY FreePcbType DEF PcbType
  <2>2. <<>> \in Seq(FrameType) OBVIOUS
  <2> QED BY <1>9, <2>1, <2>2, RaiseErrorType DEF tcp_client_err, Callback
<1>10. ASSUME NEW p \in Pcb, tcp_client_err_abrt(p) \/ PcbDone(p) PROVE TypeOK'
  <2>1. [pcb EXCEPT ![p] = FreePcb] \in PcbType BY FreePcbType DEF PcbType
  <2> QED BY <1>10, <2>1 DEF tcp_client_err_abrt, PcbDone, Callback
<1>11. ASSUME NEW p \in Pcb, tcp_client_recv(p) PROVE TypeOK'
  <2>1. events' \in Seq(EventSet) BY <1>11, LogGrows DEF tcp_client_recv, EventSet
  <2>2. stack' \in Seq(FrameType)
    <3>1. PICK n \in 0 .. 1 : stack' = <<Frame("message", p, n)>> BY <1>11 DEF tcp_client_recv
    <3>2. n \in Nat /\ "message" \in InOpen BY DEF InOpen
    <3> QED BY <3>1, <3>2, Alone
  <2> QED BY <1>11, <2>1, <2>2 DEF tcp_client_recv, Callback
<1>12. CASE RecvNext
  <2>1. events' \in Seq(EventSet) BY <1>12, LogGrows DEF RecvNext, EventSet
  <2>2. Head(stack) \in FrameType /\ Tail(stack) \in Seq(FrameType) BY <1>12 DEF RecvNext, Returns
  <2>3. [Head(stack) EXCEPT !.left = @ - 1] \in FrameType BY <1>12, <2>2, OneLeft DEF RecvNext
  <2>4. stack' \in Seq(FrameType) BY <1>12, <2>2, <2>3, Pushed DEF RecvNext
  <2> QED BY <1>12, <2>1, <2>4 DEF RecvNext, Returns
<1>13. CASE RecvReturns
  <2>1. misuse' \subseteq MisuseSet BY <1>13, UseType DEF RecvReturns
  <2> QED BY <1>13, <2>1, Popped DEF RecvReturns, Returns
<1>14. CASE ErrorReturns
  <2>1. events' \in Seq(EventSet) BY <1>14, LogEnds DEF ErrorReturns
  <2> QED BY <1>14, <2>1, Popped DEF ErrorReturns, Returns
<1>15. CASE NewReturns
  <2>1. stack' \in Seq(FrameType) BY <1>15, Popped DEF NewReturns, Returns
  <2> QED BY <1>15, <2>1, CloseCase, CloseType DEF NewReturns, Returns
<1>16. CASE CallbackReturns
  <2>1. misuse' \subseteq MisuseSet BY <1>16, UseType DEF CallbackReturns
  <2> QED BY <1>16, <2>1, Popped DEF CallbackReturns, Returns
<1>17. CASE Return BY <1>12, <1>13, <1>14, <1>15, <1>16, <1>17 DEF Return
<1> QED BY <1>2, <1>3, <1>4, <1>5, <1>6, <1>7, <1>8, <1>9, <1>10, <1>11, <1>17
        DEF Step, Call, Reply

-----------------------------------------------------------------------------
(* Who may be in progress when the application calls. *)

LEMMA AppFrames ==
  ASSUME TypeOK, FrameInv, AppMay
  PROVE  /\ "ending" \notin env => \A i \in DOMAIN stack : stack[i].do \notin InClose
         /\ "message" \notin env => \A i \in DOMAIN stack : stack[i].do \notin InOpen
         /\ env \cap {"message", "ending"} = {} => stack = <<>>
         /\ "late" \notin env => dns = {}
<1>1. stack \in Seq(FrameType) /\ DOMAIN stack = 1 .. Len(stack) /\ Len(stack) \in Nat BY Types
<1>2. "late" \notin env => dns = {} BY DEF AppMay
<1>3. CASE stack = <<>> BY <1>2, <1>3
<1>4. CASE stack # <<>>
  <2>1. 1 \in DOMAIN stack /\ Head(stack) = stack[1] BY <1>1, <1>4
  <2>2. \/ "message" \in env /\ stack[1].do \in InOpen
        \/ "ending" \in env /\ stack[1].do \in InClose
    BY <1>4, <2>1 DEF AppMay
  <2>3. "ending" \notin env => \A i \in DOMAIN stack : stack[i].do \notin InClose
    <3>1. SUFFICES ASSUME "ending" \notin env PROVE \A i \in DOMAIN stack : stack[i].do \notin InClose
      OBVIOUS
    <3>2. stack[1].do \in InOpen BY <2>2, <3>1
    <3>3. Len(stack) = 1 BY <2>1, <3>2 DEF FrameInv
    <3> QED BY <1>1, <3>2, <3>3 DEF InOpen, InClose
  <2>4. "message" \notin env => \A i \in DOMAIN stack : stack[i].do \notin InOpen
    <3>1. SUFFICES ASSUME "message" \notin env PROVE \A i \in DOMAIN stack : stack[i].do \notin InOpen
      OBVIOUS
    <3>2. stack[1].do \notin InOpen BY <2>2, <3>1 DEF InOpen, InClose
    <3> QED BY <2>1, <3>1, <3>2 DEF FrameInv
  <2>5. env \cap {"message", "ending"} # {} BY <2>2
  <2> QED BY <1>2, <2>3, <2>4, <2>5
<1> QED BY <1>3, <1>4

\* The same of the function that goes on when the application returns.
LEMMA ReturnFrames ==
  ASSUME TypeOK, FrameInv, NEW d, Returns(d)
  PROVE  /\ stack # <<>> /\ 1 \in DOMAIN stack /\ Head(stack) = stack[1] /\ stack[1].do \in d
         /\ stack[1] \in FrameType /\ UNCHANGED dns
         /\ stack[1].do \in InOpen => DOMAIN stack = {1} /\ Tail(stack) = <<>>
         /\ "message" \notin env /\ stack[1].do \in InClose =>
              \A i \in DOMAIN stack : stack[i].do \notin InOpen
<1>1. /\ stack \in Seq(FrameType) /\ DOMAIN stack = 1 .. Len(stack) /\ Len(stack) \in Nat
      /\ stack # <<>> /\ 1 \in DOMAIN stack /\ Head(stack) = stack[1] /\ stack[1] \in FrameType
  BY Types DEF Returns
<1>2. stack[1].do \in d /\ UNCHANGED dns BY <1>1 DEF Returns
<1>3. stack[1].do \in InOpen => Len(stack) = 1 BY <1>1 DEF FrameInv
<1>4. Len(stack) = 1 => DOMAIN stack = {1} /\ Tail(stack) = <<>>
  <2>1. Tail(stack) \in Seq(FrameType) /\ Len(Tail(stack)) = Len(stack) - 1 BY <1>1
  <2>2. Len(stack) = 1 => DOMAIN stack = {1} BY <1>1
  <2>3. Len(stack) = 1 => Len(Tail(stack)) = 0 BY <1>1, <2>1
  <2>4. \A s \in Seq(FrameType) : Len(s) = 0 => s = <<>> OBVIOUS
  <2> QED BY <2>1, <2>2, <2>3, <2>4, Zenon
<1>5. "message" \notin env /\ stack[1].do \in InClose => \A i \in DOMAIN stack : stack[i].do \notin InOpen
  BY <1>1 DEF FrameInv, InOpen, InClose
<1> QED BY <1>1, <1>2, <1>3, <1>4, <1>5

\* The functions that lwIP calls and that tell the application something.
LEMMA CallFrame ==
  ASSUME NEW p \in Pcb, tcp_client_connected(p) \/ tcp_client_recv(p)
  PROVE  \E d \in InOpen, n \in Nat : stack' = <<Frame(d, p, n)>> /\ stack = <<>>
<1>1. CASE tcp_client_connected(p)
  <2>1. "opened" \in InOpen /\ 0 \in Nat BY DEF InOpen
  <2> QED BY <1>1, <2>1 DEF tcp_client_connected, Callback
<1>2. CASE tcp_client_recv(p)
  <2>1. PICK n \in 0 .. 1 : stack' = <<Frame("message", p, n)>> BY <1>2 DEF tcp_client_recv
  <2>2. "message" \in InOpen /\ n \in Nat BY DEF InOpen
  <2> QED BY <1>2, <2>1, <2>2 DEF tcp_client_recv, Callback
<1> QED BY <1>1, <1>2

LEMMA NextFrame ==
  ASSUME TypeOK, FrameInv, RecvNext
  PROVE  /\ DOMAIN stack = {1} /\ stack[1].do = "message" /\ stack[1] \in FrameType
         /\ DOMAIN stack' = {1} /\ stack'[1].do = "message" /\ stack'[1].pcb = stack[1].pcb
         /\ Len(stack') = 1 /\ UNCHANGED dns
<1>1. /\ stack[1].do = "message" /\ Head(stack) = stack[1] /\ stack[1] \in FrameType
      /\ DOMAIN stack = {1} /\ Tail(stack) = <<>> /\ UNCHANGED dns
  BY ReturnFrames DEF RecvNext, InOpen
<1>2. stack[1].left > 0 /\ stack' = <<[stack[1] EXCEPT !.left = @ - 1]>> \o <<>>
  BY <1>1 DEF RecvNext
<1>3. /\ [stack[1] EXCEPT !.left = @ - 1] \in FrameType
      /\ [stack[1] EXCEPT !.left = @ - 1].do = "message"
      /\ [stack[1] EXCEPT !.left = @ - 1].pcb = stack[1].pcb
  BY <1>1, <1>2, OneLeft
<1>4. <<>> \in Seq(FrameType) /\ Len(<<>>) = 0 OBVIOUS
<1>5. DOMAIN stack' = 1 .. 1 /\ stack'[1] = [stack[1] EXCEPT !.left = @ - 1] /\ Len(stack') = 1
  BY <1>2, <1>3, <1>4, Pushed
<1> QED BY <1>1, <1>3, <1>5

-----------------------------------------------------------------------------
(* EndInv. *)

\* A connection ends: the application is told ERROR.
LEMMA EndRaised ==
  ASSUME TypeOK, EndInv, NEW s \in SockType, NEW P \in PcbType, NEW c \in Seq(FrameType),
         raise_error(s, P, c), s.connecting = sock.connecting, UNCHANGED env,
         "ending" \notin env => \A i \in DOMAIN c : c[i].do # "error"
  PROVE  EndInv'
<1> SUFFICES ASSUME "ending" \notin env PROVE EndInv' BY DEF EndInv
<1>1. CASE ~s.connecting /\ Stays(s, P)
  BY <1>1 DEF Stays, EndInv, Once, Ended, ByApp, Ending
<1>2. CASE s.connecting /\ Ends(s, P, c)
  <2>1. Once' /\ ~Ended' /\ ~ByApp' BY <1>2, Types, LogGrows DEF Ends, EndInv, EventSet
  <2>2. ~sock'.connecting BY <1>2, ZeroType DEF Ends
  <2>3. /\ 1 \in DOMAIN stack' /\ stack'[1].do = "error"
        /\ \A i \in DOMAIN stack' : i = 1 \/ stack'[i].do # "error"
    BY <1>2, CloseFrames, Pushed DEF Ends
  <2>4. Ending' BY <2>3 DEF Ending
  <2> QED BY <2>1, <2>2, <2>3, <2>4 DEF EndInv
<1> QED BY <1>1, <1>2, RaiseCases

LEMMA EndFound ==
  ASSUME TypeOK, EndInv, NEW a \in Addr, host_found(a), stack = <<>>, UNCHANGED env
  PROVE  EndInv'
<1>1. pcb \in PcbType /\ stack \in Seq(FrameType) /\ \A i \in DOMAIN stack : FALSE BY Types
<1>2. CASE raise_error(FoundSock(a, NULL), pcb, stack) BY <1>1, <1>2, FoundTypes, EndRaised
<1>3. ASSUME NEW p \in Pcb, sock' = FoundSock(a, p), UNCHANGED <<stack, events>> PROVE EndInv'
  <2>1. sock'.connecting = sock.connecting BY <1>3, FoundTypes
  <2> QED BY <1>3, <2>1 DEF EndInv, Once, Ended, ByApp, Ending
<1>4. ASSUME NEW p \in Pcb, raise_error(FoundSock(a, p), FoundPcb(a, p, "new"), stack) PROVE EndInv'
  <2>1. /\ FoundSock(a, p) \in SockType /\ FoundPcb(a, p, "new") \in PcbType
        /\ FoundSock(a, p).connecting = sock.connecting
    BY FoundTypes
  <2> QED BY <1>1, <1>4, <2>1, EndRaised
<1> QED BY <1>2, <1>3, <1>4, HostFoundCases

LEMMA EndStep ==
  ASSUME TypeOK, FrameInv, EndInv, Step, UNCHANGED env
  PROVE  EndInv'
<1> SUFFICES ASSUME "ending" \notin env PROVE EndInv' BY DEF EndInv
<1> USE Types
<1>1. CASE jd_tcpsock_close
  <2>1. AppMay /\ sock' = Zero /\ events' = <<"closed">> /\ UNCHANGED stack
    BY <1>1, CloseCase DEF jd_tcpsock_close
  <2>2. \A i \in DOMAIN stack : stack[i].do \notin InClose BY <2>1, AppFrames
  <2> QED BY <2>1, <2>2, LogStarts, ZeroType DEF EndInv, InClose
<1>2. ASSUME NEW h \in Host, NEW p \in Port, jd_tcpsock_new(h, p) PROVE EndInv'
  <2>1. AppMay /\ ValidPort(p) BY <1>2, NewCases
  <2>2. \A i \in DOMAIN stack : stack[i].do \notin InClose BY <2>1, AppFrames
  <2>3. CASE events' = <<>> /\ UNCHANGED stack /\ sock'.connecting
    BY <2>2, <2>3, LogStarts DEF EndInv, InClose
  <2>4. CASE /\ sock' = Zero /\ events' = <<"ERROR">>
             /\ stack' = <<Frame("error", NULL, 0), Frame("refused", NULL, 0)>> \o stack
    <3>2. /\ 1 \in DOMAIN stack' /\ stack'[1].do = "error"
          /\ \A i \in DOMAIN stack' : i = 1 \/ stack'[i].do # "error"
      BY <2>2, <2>4, CloseFrames, PushedTwo DEF InClose
    <3>3. Ending' BY <3>2 DEF Ending
    <3> QED BY <2>4, <3>2, <3>3, LogStarts, ZeroType DEF EndInv
  <2>5. CASE sock' = Opening(h, p) /\ events' = <<>> /\ UNCHANGED stack
    BY <2>1, <2>3, <2>5, OpeningType
  <2>6. CASE /\ sock' = [Opening(h, p) EXCEPT !.ipaddr = h, !.host_found_pending = TRUE]
             /\ events' = <<>> /\ UNCHANGED stack
    BY <2>1, <2>3, <2>6, OpeningType
  <2> QED BY <1>2, <2>4, <2>5, <2>6, NewCases
<1>3. CASE jd_tcpsock_write
  <2>1. \A i \in DOMAIN stack : stack[i].do # "error"
    BY <1>3, AppFrames DEF jd_tcpsock_write, InClose
  <2>2. CASE raise_error(sock, pcb, stack) BY <2>1, <2>2, EndRaised
  <2>3. CASE UNCHANGED <<sock, stack, events>> BY <2>3 DEF EndInv, Once, Ended, ByApp, Ending
  <2> QED BY <1>3, <2>2, <2>3 DEF jd_tcpsock_write
<1>4. CASE jd_tcpsock_process
  <2>1. sock.ipaddr \in Addr BY Zenon DEF SockType
  <2> QED BY <1>4, <2>1, EndFound DEF jd_tcpsock_process
<1>5. ASSUME NEW h \in Host, DnsAnswer(h) PROVE EndInv'
  <2>1. h \in Addr /\ Nowhere \in Addr BY DEF Addr
  <2> QED BY <1>5, <2>1, EndFound DEF DnsAnswer
<1>6. ASSUME NEW p \in Pcb, tcp_client_connected(p) \/ tcp_client_recv(p) PROVE EndInv'
  <2>1. PICK d \in InOpen, n \in Nat : stack' = <<Frame(d, p, n)>> /\ stack = <<>>
    BY <1>6, CallFrame
  <2>2. sock'.connecting = sock.connecting
    BY <1>6 DEF tcp_client_connected, tcp_client_recv, SockType
  <2>6. Once' /\ (Ended' <=> Ended) /\ (ByApp' <=> ByApp)
    <3>1. events' = Append(events, "OPEN") \/ events' = Append(events, "MESSAGE")
      BY <1>6 DEF tcp_client_connected, tcp_client_recv
    <3> QED BY <3>1, LogGrows DEF EventSet, EndInv
  <2>3. \A i \in DOMAIN stack' : stack'[i].do \notin InClose BY <2>1, Alone DEF InOpen, InClose
  <2>4. ~Ending BY <2>1 DEF Ending
  <2>5. "error" \in InClose BY DEF InClose
  <2> QED BY <2>1, <2>2, <2>3, <2>4, <2>5, <2>6 DEF EndInv
<1>7. ASSUME NEW p \in Pcb, tcp_client_connected_err(p) \/ tcp_client_recv_null(p) PROVE EndInv'
  <2>1. /\ <<Frame("closed", p, 0)>> \in Seq(FrameType)
        /\ \A i \in DOMAIN <<Frame("closed", p, 0)>> : <<Frame("closed", p, 0)>>[i].do # "error"
    BY Alone DEF InClose
  <2> QED BY <1>7, <2>1, EndRaised DEF tcp_client_connected_err, tcp_client_recv_null
<1>8. ASSUME NEW p \in Pcb, tcp_client_err(p) PROVE EndInv'
  <2>1. [pcb EXCEPT ![p] = FreePcb] \in PcbType BY FreePcbType DEF PcbType
  <2>2. <<>> \in Seq(FrameType) /\ \A i \in DOMAIN <<>> : FALSE OBVIOUS
  <2> QED BY <1>8, <2>1, <2>2, EndRaised DEF tcp_client_err
<1>9. ASSUME NEW p \in Pcb, tcp_client_err_abrt(p) \/ PcbDone(p) PROVE EndInv'
  BY <1>9 DEF tcp_client_err_abrt, PcbDone, EndInv, Once, Ended, ByApp, Ending
<1>10. CASE RecvNext
  <2>1. events' = Append(events, "MESSAGE") /\ sock' = sock BY <1>10 DEF RecvNext
  <2>2. /\ DOMAIN stack = {1} /\ stack[1].do = "message"
        /\ DOMAIN stack' = {1} /\ stack'[1].do = "message"
    BY <1>10, NextFrame
  <2>3. Once' /\ (Ended' <=> Ended) /\ (ByApp' <=> ByApp) BY <2>1, LogGrows DEF EventSet, EndInv
  <2> QED BY <2>1, <2>2, <2>3 DEF EndInv, InClose, Ending
<1>11. CASE RecvReturns \/ CallbackReturns
  <2>1. /\ stack # <<>> /\ stack[1].do # "error" /\ stack' = Tail(stack) /\ UNCHANGED <<sock, events>>
    BY <1>11, ReturnFrames DEF RecvReturns, CallbackReturns
  <2>2. \A i \in DOMAIN stack' : i \in Nat \ {0} /\ i + 1 \in DOMAIN stack /\ stack'[i] = stack[i + 1]
    BY <2>1, Popped
  <2>3. ~Ending BY <2>1 DEF EndInv, Ending
  <2>4. \A i \in DOMAIN stack' : stack'[i].do # "error" BY <2>2, <2>3 DEF Ending
  <2>5. Once' /\ (Ended' <=> Ended) /\ (ByApp' <=> ByApp) BY <2>1 DEF EndInv, Once, Ended, ByApp
  <2> QED BY <2>1, <2>2, <2>3, <2>4, <2>5 DEF EndInv
<1>12. CASE ErrorReturns
  <2>1. /\ stack # <<>> /\ 1 \in DOMAIN stack /\ stack[1].do = "error" /\ stack' = Tail(stack)
        /\ UNCHANGED sock /\ events' = Append(events, "CLOSE")
    BY <1>12, ReturnFrames DEF ErrorReturns
  <2>2. \A i \in DOMAIN stack' : i \in Nat \ {0} /\ i + 1 \in DOMAIN stack /\ stack'[i] = stack[i + 1]
    BY <2>1, Popped
  <2>3. ~Ended /\ ~ByApp /\ ~sock.connecting BY <2>1 DEF EndInv, InClose
  <2>4. Once' /\ Ended' /\ ~ByApp' BY <2>1, <2>3, LogEnds
  <2>5. \A i \in DOMAIN stack' : stack'[i].do # "error"
    <3>1. ASSUME NEW i \in DOMAIN stack' PROVE stack'[i].do # "error"
      <4>1. i \in Nat \ {0} /\ i + 1 \in DOMAIN stack /\ stack'[i] = stack[i + 1] BY <2>2
      <4>2. i + 1 # 1 BY <4>1
      <4> QED BY <4>1, <4>2 DEF EndInv
    <3> QED BY <3>1
  <2> QED BY <2>1, <2>3, <2>4, <2>5 DEF EndInv
<1>13. CASE NewReturns
  <2>1. /\ stack # <<>> /\ 1 \in DOMAIN stack /\ stack[1].do = "refused" /\ stack' = Tail(stack)
        /\ sock' = Zero /\ UNCHANGED events
    BY <1>13, ReturnFrames, CloseCase DEF NewReturns
  <2>2. \A i \in DOMAIN stack' : i \in Nat \ {0} /\ i + 1 \in DOMAIN stack /\ stack'[i] = stack[i + 1]
    BY <2>1, Popped
  <2>3. ~Ending BY <2>1 DEF EndInv, Ending
  <2>4. \A i \in DOMAIN stack' : stack'[i].do # "error" BY <2>2, <2>3 DEF Ending
  <2>5. ~sock.connecting BY <2>1 DEF EndInv, InClose
  <2>6. Once' /\ (Ended' <=> Ended) /\ (ByApp' <=> ByApp) BY <2>1 DEF EndInv, Once, Ended, ByApp
  <2> QED BY <2>1, <2>3, <2>4, <2>5, <2>6, ZeroType DEF EndInv
<1>14. CASE Return BY <1>10, <1>11, <1>12, <1>13, <1>14 DEF Return
<1> QED BY <1>1, <1>2, <1>3, <1>4, <1>5, <1>6, <1>7, <1>8, <1>9, <1>14 DEF Step, Call, Reply

-----------------------------------------------------------------------------
(* PcbInv. *)

\* The socket s with blocks P is closed; what is left is closed or opening.
LEMMA PcbClosed ==
  ASSUME TypeOK', NEW s \in SockType, NEW P \in PcbType, Closing(s, P), Touch(s, P),
         misuse \subseteq MisuseSet, UNCHANGED env,
         sock'.tcp_pcb = NULL, ~sock'.connected,
         PatientEnv => ~sock'.host_found_pending,
         PatientEnv /\ dns' # {} => sock'.connecting /\ dns' = {sock'.hostname},
         \A p \in Pcb : P[p].st \in {"free", "closing"} => ~P[p].cb,
         env \cap {"reset", "abort"} = {} => "driver" \notin misuse /\ ~Freed(s, P),
         PatientEnv => \A p \in Pcb : P[p].cb => s.tcp_pcb = p
  PROVE  PcbInv'
<1>1. FreeInv' BY DEF Closing, FreeInv
<1>2. LiveInv' BY TouchType DEF LiveInv
<1>3. LookupInv' BY DEF LookupInv, PatientEnv
<1>4. PatientEnv => \A p \in Pcb : ~pcb'[p].cb BY DEF Closing
<1>5. BlockInv' BY <1>4 DEF BlockInv, PatientEnv
<1> QED BY <1>1, <1>2, <1>3, <1>5 DEF PcbInv

LEMMA PcbRaised ==
  ASSUME TypeOK, TypeOK', NEW s \in SockType, NEW P \in PcbType, NEW c, raise_error(s, P, c),
         UNCHANGED env,
         PatientEnv => s.connecting /\ dns' = {},
         \A p \in Pcb : P[p].st \in {"free", "closing"} => ~P[p].cb,
         env \cap {"reset", "abort"} = {} =>
           /\ "driver" \notin misuse
           /\ s.tcp_pcb # NULL => P[s.tcp_pcb].st \in {"new", "syn", "est"},
         PatientEnv => \A p \in Pcb : P[p].cb => s.tcp_pcb = p
  PROVE  PcbInv'
<1>1. CASE ~s.connecting /\ Stays(s, P)
  <2>1. ~PatientEnv /\ ~PatientEnv' BY <1>1 DEF PatientEnv
  <2>2. sock' = s /\ pcb' = P /\ misuse' = misuse BY <1>1 DEF Stays
  <2>3. FreeInv' /\ LiveInv' BY <2>2 DEF FreeInv, LiveInv
  <2> QED BY <2>1, <2>3 DEF PcbInv, LookupInv, BlockInv
<1>2. CASE Ends(s, P, c)
  <2>1. env \cap {"reset", "abort"} = {} => "driver" \notin misuse /\ ~Freed(s, P) BY DEF Freed
  <2>2. /\ sock'.tcp_pcb = NULL /\ ~sock'.connected /\ ~sock'.host_found_pending
        /\ Closing(s, P) /\ Touch(s, P)
    BY <1>2, ZeroType DEF Ends
  <2>3. misuse \subseteq MisuseSet BY Types
  <2> QED BY <2>1, <2>2, <2>3, PcbClosed
<1> QED BY <1>1, <1>2, RaiseCases

\* host_found connects, if look-ups are waited for with no block in the way.
LEMMA PcbFound ==
  ASSUME TypeOK, TypeOK', PcbInv, NEW a \in Addr, host_found(a), UNCHANGED env,
         PatientEnv => /\ sock.connecting /\ ~sock.connected /\ sock.tcp_pcb = NULL /\ dns' = {}
                       /\ "unknown" \notin env => a = sock.hostname
  PROVE  PcbInv'
<1> USE Types
<1>1. PatientEnv => \A p \in Pcb : ~pcb[p].cb BY SockInputs DEF PcbInv, BlockInv
<1>2. CASE raise_error(FoundSock(a, NULL), pcb, stack)
  <2>1. /\ FoundSock(a, NULL) \in SockType /\ FoundSock(a, NULL).tcp_pcb = NULL
        /\ FoundSock(a, NULL).connecting = sock.connecting
    BY FoundTypes
  <2>2. \A p \in Pcb : pcb[p].st \in {"free", "closing"} => ~pcb[p].cb BY DEF PcbInv, FreeInv
  <2>3. env \cap {"reset", "abort"} = {} => "driver" \notin misuse BY DEF PcbInv, LiveInv
  <2> QED BY <1>1, <1>2, <2>1, <2>2, <2>3, PcbRaised
<1>3. ASSUME NEW p \in Pcb, raise_error(FoundSock(a, p), FoundPcb(a, p, "new"), stack) PROVE PcbInv'
  <2>1. /\ FoundSock(a, p) \in SockType /\ FoundSock(a, p).tcp_pcb = p
        /\ FoundSock(a, p).connecting = sock.connecting
        /\ FoundPcb(a, p, "new") \in PcbType /\ FoundPcb(a, p, "new")[p].st = "new"
        /\ \A q \in Pcb \ {p} : FoundPcb(a, p, "new")[q] = pcb[q]
    BY FoundTypes
  <2>2. \A q \in Pcb : FoundPcb(a, p, "new")[q].st \in {"free", "closing"} => ~FoundPcb(a, p, "new")[q].cb
    BY <2>1 DEF PcbInv, FreeInv
  <2>3. env \cap {"reset", "abort"} = {} => "driver" \notin misuse BY DEF PcbInv, LiveInv
  <2>4. PatientEnv => \A q \in Pcb : FoundPcb(a, p, "new")[q].cb => FoundSock(a, p).tcp_pcb = q
    BY <1>1, <2>1
  <2> QED BY <1>3, <2>1, <2>2, <2>3, <2>4, PcbRaised
<1>4. ASSUME NEW p \in Pcb, sock' = FoundSock(a, p), pcb' = FoundPcb(a, p, "syn"),
             UNCHANGED misuse
      PROVE  PcbInv'
  <2>1. /\ sock'.tcp_pcb = p /\ sock'.connecting = sock.connecting /\ sock'.connected = sock.connected
        /\ sock'.host_found_pending = sock.host_found_pending
        /\ sock'.hostname = sock.hostname /\ sock'.port_num = sock.port_num
    BY <1>4, FoundTypes
  <2>2. /\ pcb'[p].st = "syn" /\ pcb'[p].to = <<a, sock.port_num>> /\ pcb'[p].cb
        /\ \A q \in Pcb \ {p} : pcb'[q] = pcb[q]
    BY <1>4, FoundTypes
  <2>3. FreeInv' BY <2>2 DEF PcbInv, FreeInv
  <2>4. LiveInv' BY <1>4, <2>1, <2>2 DEF PcbInv, LiveInv
  <2>5. LookupInv' BY <2>1 DEF PcbInv, LookupInv, PatientEnv
  <2>6. BlockInv' BY <1>1, <2>1, <2>2 DEF BlockInv, PatientEnv
  <2> QED BY <2>3, <2>4, <2>5, <2>6 DEF PcbInv
<1> QED BY <1>2, <1>3, <1>4, HostFoundCases

\* The connection is made.
LEMMA PcbConnected ==
  ASSUME TypeOK, PcbInv, NEW p \in Pcb, tcp_client_connected(p), UNCHANGED env
  PROVE  PcbInv'
<1> USE Types
<1>1. pcb[p].cb /\ pcb[p].st = "syn" /\ UNCHANGED <<misuse, dns>>
  BY DEF tcp_client_connected, Callback
<1>2. /\ sock'.connected /\ sock'.connecting = sock.connecting /\ sock'.tcp_pcb = sock.tcp_pcb
      /\ sock'.host_found_pending = sock.host_found_pending
      /\ sock'.hostname = sock.hostname /\ sock'.port_num = sock.port_num
  BY DEF tcp_client_connected, SockType
<1>3. /\ pcb'[p].st = "est" /\ pcb'[p].cb = pcb[p].cb /\ pcb'[p].to = pcb[p].to
      /\ \A q \in Pcb \ {p} : pcb'[q] = pcb[q]
  BY DEF tcp_client_connected, PcbType
<1>4. FreeInv' BY <1>3 DEF PcbInv, FreeInv
<1>5. LiveInv' BY <1>1, <1>2, <1>3 DEF PcbInv, LiveInv, SockType
<1>6. PatientEnv => sock.tcp_pcb = p /\ sock.connecting /\ dns = {}
  BY <1>1, SockInputs DEF PcbInv, BlockInv, LookupInv
<1>7. LookupInv' BY <1>1, <1>2, <1>6 DEF PcbInv, LookupInv, PatientEnv
<1>8. BlockInv'
  <2>1. SUFFICES ASSUME PatientEnv PROVE BlockInv' BY DEF BlockInv, PatientEnv
  <2>2. \A q \in Pcb \ {p} : ~pcb'[q].cb BY <1>3, <1>6, <2>1 DEF PcbInv, BlockInv
  <2>3. pcb'[p].cb /\ pcb'[p].st = "est" /\ sock'.tcp_pcb = p /\ sock'.tcp_pcb # NULL
    BY <1>1, <1>2, <1>3, <1>6, <2>1, SockInputs
  <2>4. "unknown" \notin env' => pcb'[p].to = <<sock'.hostname, sock'.port_num>>
    BY <1>1, <1>2, <1>3, <2>1 DEF PcbInv, BlockInv
  <2> QED BY <1>2, <1>6, <2>1, <2>2, <2>3, <2>4 DEF BlockInv
<1> QED BY <1>4, <1>5, <1>7, <1>8 DEF PcbInv

\* lwIP frees a block that did not tell us, or that we gave up.
LEMMA PcbFreed ==
  ASSUME TypeOK, PcbInv, NEW p \in Pcb, pcb' = [pcb EXCEPT ![p] = FreePcb],
         UNCHANGED <<sock, dns, misuse, env>>, "abort" \in env \/ pcb[p].st = "closing"
  PROVE  PcbInv'
<1> USE Types
<1>1. /\ pcb'[p].st = "free" /\ ~pcb'[p].cb /\ \A q \in Pcb \ {p} : pcb'[q] = pcb[q]
  BY DEF PcbType, FreePcb
<1>2. FreeInv' BY <1>1 DEF PcbInv, FreeInv
<1>3. LiveInv' BY <1>1 DEF PcbInv, LiveInv, SockType
<1>4. LookupInv' BY DEF PcbInv, LookupInv, PatientEnv
<1>5. BlockInv'
  <2>1. pcb[p].cb => "abort" \in env BY DEF PcbInv, FreeInv
  <2> QED BY <1>1, <2>1 DEF PcbInv, BlockInv, PatientEnv, SockType
<1> QED BY <1>2, <1>3, <1>4, <1>5 DEF PcbInv

LEMMA PcbStep ==
  ASSUME TypeOK, TypeOK', FrameInv, EndInv, PcbInv, Step, UNCHANGED env
  PROVE  PcbInv'
<1> USE Types
<1>1. /\ \A p \in Pcb : pcb[p].st \in {"free", "closing"} => ~pcb[p].cb
      /\ env \cap {"reset", "abort"} = {} =>
           /\ "driver" \notin misuse /\ ~Freed(sock, pcb)
           /\ sock.tcp_pcb # NULL => pcb[sock.tcp_pcb].st \in {"new", "syn", "est"}
      /\ PatientEnv => \A p \in Pcb : pcb[p].cb => sock.tcp_pcb = p
  BY DEF PcbInv, FreeInv, LiveInv, BlockInv, Freed
<1>3. AppMay /\ PatientEnv => dns = {} BY DEF AppMay, PatientEnv
<1>4. CASE jd_tcpsock_close
  <2>1. AppMay /\ sock' = Zero /\ Closing(sock, pcb) /\ Touch(sock, pcb) /\ dns' = dns
    BY <1>4, CloseCase DEF jd_tcpsock_close
  <2> QED BY <1>1, <1>3, <2>1, ZeroType, PcbClosed
<1>5. ASSUME NEW h \in Host, NEW p \in Port, jd_tcpsock_new(h, p) PROVE PcbInv'
  <2>1. AppMay /\ ValidPort(p) /\ Closing(sock, pcb) /\ Touch(sock, pcb) BY <1>5, NewCases
  <2>2. /\ sock'.tcp_pcb = NULL /\ ~sock'.connected
        /\ PatientEnv => ~sock'.host_found_pending
        /\ PatientEnv /\ dns' # {} => sock'.connecting /\ dns' = {sock'.hostname}
    <3>1. CASE sock' = Zero /\ dns' = dns BY <1>3, <2>1, <3>1, ZeroType
    <3>2. CASE sock' = Opening(h, p) /\ dns' = dns \cup {h}
      <4>1. /\ Opening(h, p).connecting /\ ~Opening(h, p).connected /\ Opening(h, p).tcp_pcb = NULL
            /\ ~Opening(h, p).host_found_pending /\ Opening(h, p).hostname = h
        BY <2>1, OpeningType
      <4> QED BY <1>3, <2>1, <3>2, <4>1
    <3>3. CASE /\ "cached" \in env
               /\ sock' = [Opening(h, p) EXCEPT !.ipaddr = h, !.host_found_pending = TRUE]
      <4>1. ~PatientEnv BY <3>3 DEF PatientEnv
      <4> QED BY <2>1, <3>3, <4>1, OpeningType
    <3> QED BY <1>5, <3>1, <3>2, <3>3, NewCases
  <2> QED BY <1>1, <2>1, <2>2, PcbClosed
<1>6. CASE jd_tcpsock_write
  <2>1. AppMay /\ sock.connected /\ UNCHANGED dns BY <1>6 DEF jd_tcpsock_write
  <2>2. CASE raise_error(sock, pcb, stack)
    <3>1. PatientEnv => sock.connecting /\ dns' = {} BY <1>3, <2>1 DEF PcbInv, BlockInv
    <3> QED BY <1>1, <2>2, <3>1, PcbRaised
  <2>3. CASE Touch(sock, pcb) /\ UNCHANGED <<sock, pcb>>
    <3>1. LiveInv' BY <1>1, <2>3, TouchType DEF LiveInv
    <3>2. FreeInv' /\ LookupInv' /\ BlockInv'
      BY <2>1, <2>3 DEF PcbInv, FreeInv, LookupInv, BlockInv, PatientEnv
    <3> QED BY <3>1, <3>2 DEF PcbInv
  <2> QED BY <1>6, <2>2, <2>3 DEF jd_tcpsock_write
<1>7. CASE jd_tcpsock_process
  <2>1. sock.ipaddr \in Addr BY Zenon DEF SockType
  <2>2. ~PatientEnv BY <1>7 DEF jd_tcpsock_process, PcbInv, LookupInv
  <2> QED BY <1>7, <2>1, <2>2, PcbFound DEF jd_tcpsock_process
<1>8. ASSUME NEW h \in Host, DnsAnswer(h) PROVE PcbInv'
  <2>1. h \in Addr /\ Nowhere \in Addr BY DEF Addr
  <2>2. PatientEnv => /\ sock.connecting /\ ~sock.connected /\ sock.tcp_pcb = NULL
                      /\ dns' = {} /\ h = sock.hostname
    BY <1>8 DEF DnsAnswer, PcbInv, LookupInv
  <2> QED BY <1>8, <2>1, <2>2, PcbFound DEF DnsAnswer
<1>9. ASSUME NEW p \in Pcb, pcb[p].cb PROVE PatientEnv => sock.connecting /\ dns = {}
  BY <1>9, SockInputs DEF PcbInv, BlockInv, LookupInv
<1>10. ASSUME NEW p \in Pcb, tcp_client_connected_err(p) \/ tcp_client_recv_null(p) PROVE PcbInv'
  <2>1. raise_error(sock, pcb, <<Frame("closed", p, 0)>>) /\ pcb[p].cb /\ UNCHANGED dns
    BY <1>10 DEF tcp_client_connected_err, tcp_client_recv_null, Callback
  <2>2. PatientEnv => sock.connecting /\ dns' = {} BY <1>9, <2>1
  <2> QED BY <1>1, <2>1, <2>2, PcbRaised
<1>11. ASSUME NEW p \in Pcb, tcp_client_err(p) PROVE PcbInv'
  <2> DEFINE P == [pcb EXCEPT ![p] = FreePcb]
  <2>1. P \in PcbType /\ \A q \in Pcb : P[q] = IF q = p THEN FreePcb ELSE pcb[q]
    BY FreePcbType DEF PcbType
  <2>2. ~FreePcb.cb BY FreePcbType
  <2>3. raise_error(sock, P, <<>>) /\ "reset" \in env /\ pcb[p].cb /\ UNCHANGED dns
    BY <1>11 DEF tcp_client_err, Callback
  <2> HIDE DEF P
  <2>4. /\ \A q \in Pcb : P[q].st \in {"free", "closing"} => ~P[q].cb
        /\ PatientEnv => \A q \in Pcb : P[q].cb => sock.tcp_pcb = q
    BY <1>1, <2>1, <2>2
  <2> QED BY <1>9, <2>1, <2>3, <2>4, PcbRaised
<1>12. ASSUME NEW p \in Pcb, tcp_client_err_abrt(p) \/ PcbDone(p) PROVE PcbInv'
  BY <1>12, PcbFreed DEF tcp_client_err_abrt, PcbDone, Callback
<1>13. CASE UNCHANGED <<sock, pcb, dns>> /\ ("driver" \in misuse' => "driver" \in misuse)
  BY <1>13 DEF PcbInv, FreeInv, LiveInv, LookupInv, BlockInv, PatientEnv
<1>14. ASSUME NEW p \in Pcb, tcp_client_recv(p) PROVE PcbInv'
  BY <1>13, <1>14 DEF tcp_client_recv, Callback
<1>15. CASE RecvNext \/ RecvReturns \/ ErrorReturns \/ CallbackReturns
  <2>1. UNCHANGED <<sock, pcb, dns>>
    BY <1>15 DEF RecvNext, RecvReturns, ErrorReturns, CallbackReturns, Returns
  <2>2. "driver" \in misuse' => "driver" \in misuse
    BY <1>15 DEF RecvNext, RecvReturns, ErrorReturns, CallbackReturns, Use
  <2> QED BY <1>13, <2>1, <2>2
<1>16. CASE NewReturns
  <2>1. /\ sock' = Zero /\ Closing(sock, pcb) /\ Touch(sock, pcb) /\ UNCHANGED dns
        /\ 1 \in DOMAIN stack /\ stack[1].do = "refused"
    BY <1>16, CloseCase, ReturnFrames DEF NewReturns
  <2>2. PatientEnv => dns = {} BY <2>1 DEF EndInv, PcbInv, LookupInv, PatientEnv, InClose
  <2> QED BY <1>1, <2>1, <2>2, ZeroType, PcbClosed
<1>17. CASE Return BY <1>15, <1>16, <1>17 DEF Return
<1> QED BY <1>4, <1>5, <1>6, <1>7, <1>8, <1>10, <1>11, <1>12, <1>14, <1>17, PcbConnected
        DEF Step, Call, Reply

-----------------------------------------------------------------------------
(* FrameInv. *)

\* Functions in progress stay, return or are joined by some of the socket's
\* own, and no block is freed but by an abort.
LEMMA FrameKept ==
  ASSUME FrameInv, UNCHANGED env,
         "message" \notin env => \A i \in DOMAIN stack : stack[i].do \notin InOpen,
         \A p \in Pcb : pcb'[p].st = "free" => pcb[p].st = "free" \/ "nomem" \in env,
         stack \in Seq(FrameType),
         \A i \in DOMAIN stack' :
           \/ stack'[i].do \in InClose /\ stack'[i].pcb = NULL
           \/ \E j \in DOMAIN stack : stack'[i] = stack[j] /\ Len(stack') - i = Len(stack) - j,
         Len(stack') \in Nat, DOMAIN stack' = 1 .. Len(stack')
  PROVE  FrameInv'
<1> SUFFICES ASSUME NEW i \in DOMAIN stack'
             PROVE  /\ stack'[i].do \in InOpen => i = Len(stack') /\ ("message" \in env \/ i = 1)
                    /\ Held(stack'[i]) => pcb'[stack'[i].pcb].st # "free"
                    /\ PatientEnv /\ "message" \notin env /\ stack'[i].do \in InOpen => sock'.connected
  BY DEF FrameInv, Held, PatientEnv
<1>1. CASE stack'[i].do \in InClose /\ stack'[i].pcb = NULL
  BY <1>1 DEF InOpen, InClose, Held
<1>2. ASSUME NEW j \in DOMAIN stack, stack'[i] = stack[j], Len(stack') - i = Len(stack) - j
      PROVE  /\ stack'[i].do \in InOpen => i = Len(stack') /\ ("message" \in env \/ i = 1)
             /\ Held(stack'[i]) => pcb'[stack'[i].pcb].st # "free"
             /\ PatientEnv /\ "message" \notin env /\ stack'[i].do \in InOpen => sock'.connected
  <2>1. stack'[i].do \in InOpen => "message" \in env /\ j = Len(stack) BY <1>2 DEF FrameInv
  <2>2. stack'[i].do \in InOpen => i = Len(stack')
    <3>1. i \in Int /\ Len(stack') \in Int /\ Len(stack) \in Int BY DOMAIN stack' = 1 .. Len(stack')
    <3> QED BY <1>2, <2>1, <3>1
  <2>3. Held(stack'[i]) => pcb'[stack'[i].pcb].st # "free"
    <3>1. SUFFICES ASSUME Held(stack'[i]) PROVE pcb'[stack'[i].pcb].st # "free" OBVIOUS
    <3>2. "nomem" \notin env BY <2>1, <3>1 DEF Held
    <3>3. stack'[i].pcb \in Pcb
      <4>1. stack[j] \in FrameType OBVIOUS
      <4>2. stack[j].pcb \in Pcb \cup {NULL} BY <4>1 DEF FrameType
      <4> QED BY <1>2, <3>1, <4>2 DEF Held
    <3>4. pcb[stack'[i].pcb].st # "free" BY <1>2, <3>1 DEF FrameInv
    <3> QED BY <3>2, <3>3, <3>4
  <2> QED BY <2>1, <2>2, <2>3
<1> QED BY <1>1, <1>2

\* The three ways in which the stack changes then.
LEMMA FrameSame ==
  ASSUME stack \in Seq(FrameType), UNCHANGED stack
  PROVE  /\ Len(stack') \in Nat /\ DOMAIN stack' = 1 .. Len(stack')
         /\ \A i \in DOMAIN stack' :
              \E j \in DOMAIN stack : stack'[i] = stack[j] /\ Len(stack') - i = Len(stack) - j
  OBVIOUS

LEMMA FramePopped ==
  ASSUME stack \in Seq(FrameType), stack # <<>>, stack' = Tail(stack)
  PROVE  /\ Len(stack') \in Nat /\ DOMAIN stack' = 1 .. Len(stack')
         /\ \A i \in DOMAIN stack' :
              \E j \in DOMAIN stack : stack'[i] = stack[j] /\ Len(stack') - i = Len(stack) - j
<1>1. /\ Len(stack') = Len(stack) - 1 /\ Len(stack') \in Nat /\ DOMAIN stack' = 1 .. Len(stack')
      /\ \A i \in DOMAIN stack' : i \in Nat /\ i + 1 \in DOMAIN stack /\ stack'[i] = stack[i + 1]
  BY Popped
<1>2. ASSUME NEW i \in DOMAIN stack'
      PROVE  \E j \in DOMAIN stack : stack'[i] = stack[j] /\ Len(stack') - i = Len(stack) - j
  <2>1. i \in Nat /\ i + 1 \in DOMAIN stack /\ stack'[i] = stack[i + 1] BY <1>1
  <2>2. Len(stack) \in Nat OBVIOUS
  <2>3. Len(stack') - i = Len(stack) - (i + 1) BY <1>1, <2>1, <2>2
  <2> QED BY <2>1, <2>3
<1> QED BY <1>1, <1>2

LEMMA FramePushed ==
  ASSUME stack \in Seq(FrameType),
         \/ stack' = <<Frame("error", NULL, 0)>> \o stack
         \/ stack' = <<Frame("error", NULL, 0), Frame("refused", NULL, 0)>> \o stack
  PROVE  /\ Len(stack') \in Nat /\ DOMAIN stack' = 1 .. Len(stack')
         /\ \A i \in DOMAIN stack' :
              \/ stack'[i].do \in InClose /\ stack'[i].pcb = NULL
              \/ \E j \in DOMAIN stack : stack'[i] = stack[j] /\ Len(stack') - i = Len(stack) - j
<1>1. PICK n \in {1, 2} :
        /\ Len(stack') = Len(stack) + n /\ Len(stack) \in Nat /\ DOMAIN stack' = 1 .. Len(stack) + n
        /\ \A i \in DOMAIN stack' :
             \/ stack'[i].do \in InClose /\ stack'[i].pcb = NULL
             \/ i - n \in DOMAIN stack /\ stack'[i] = stack[i - n]
  <2>1. CASE stack' = <<Frame("error", NULL, 0)>> \o stack
    BY <2>1, CloseFrames, Pushed DEF InClose
  <2>2. CASE stack' = <<Frame("error", NULL, 0), Frame("refused", NULL, 0)>> \o stack
    BY <2>2, CloseFrames, PushedTwo DEF InClose
  <2> QED BY <2>1, <2>2
<1>2. ASSUME NEW i \in DOMAIN stack', i - n \in DOMAIN stack, stack'[i] = stack[i - n]
      PROVE  \E j \in DOMAIN stack : stack'[i] = stack[j] /\ Len(stack') - i = Len(stack) - j
  <2>1. i \in Int /\ Len(stack) \in Int /\ n \in Int BY <1>1
  <2>2. Len(stack') - i = Len(stack) - (i - n) BY <1>1, <2>1
  <2> QED BY <1>2, <2>2
<1> QED BY <1>1, <1>2

\* raise_error called from outside.
LEMMA FrameRaised ==
  ASSUME TypeOK, stack = <<>>, UNCHANGED env, NEW s \in SockType, NEW P \in PcbType,
         NEW c \in Seq(FrameType), raise_error(s, P, c),
         \A i \in DOMAIN c : c[i].do \in InClose /\ (c[i].pcb # NULL => P[c[i].pcb].st # "free")
  PROVE  FrameInv'
<1>1. CASE Stays(s, P) BY <1>1 DEF Stays, FrameInv
<1>2. CASE Ends(s, P, c)
  <2>1. \A i \in DOMAIN stack' :
          \/ stack'[i].do \in InClose /\ stack'[i].pcb = NULL
          \/ \E j \in DOMAIN c : stack'[i] = c[j]
    BY <1>2, CloseFrames, Pushed DEF Ends, InClose
  <2>2. ASSUME NEW j \in DOMAIN c, Held(c[j]), c[j].do \in InClose PROVE pcb'[c[j].pcb].st # "free"
    <3>1. "nomem" \notin env BY <2>2 DEF Held, InOpen, InClose
    <3>2. c[j].pcb \in Pcb /\ P[c[j].pcb].st # "free"
      <4>1. c[j] \in FrameType OBVIOUS
      <4>2. c[j].pcb \in Pcb \cup {NULL} BY <4>1 DEF FrameType
      <4> QED BY <2>2, <4>2 DEF Held
    <3> QED BY <1>2, <3>1, <3>2 DEF Ends, Closing
  <2>3. \A i \in DOMAIN stack' : stack'[i].do \in InClose BY <2>1
  <2>4. \A i \in DOMAIN stack' : Held(stack'[i]) => pcb'[stack'[i].pcb].st # "free"
    BY <2>1, <2>2 DEF Held
  <2>5. \A d \in InClose : d \notin InOpen BY DEF InOpen, InClose
  <2> QED BY <2>3, <2>4, <2>5 DEF FrameInv, Held
<1> QED BY <1>1, <1>2, RaiseCases

LEMMA FrameFound ==
  ASSUME TypeOK, stack = <<>>, NEW a \in Addr, host_found(a), UNCHANGED env
  PROVE  FrameInv'
<1>1. pcb \in PcbType /\ stack \in Seq(FrameType) /\ \A i \in DOMAIN stack : FALSE BY Types
<1>2. CASE raise_error(FoundSock(a, NULL), pcb, stack) BY <1>1, <1>2, FoundTypes, FrameRaised
<1>3. CASE UNCHANGED stack BY <1>3 DEF FrameInv
<1>4. ASSUME NEW p \in Pcb, raise_error(FoundSock(a, p), FoundPcb(a, p, "new"), stack) PROVE FrameInv'
  <2>1. FoundSock(a, p) \in SockType /\ FoundPcb(a, p, "new") \in PcbType BY FoundTypes
  <2> QED BY <1>1, <1>4, <2>1, FrameRaised
<1> QED BY <1>2, <1>3, <1>4, HostFoundCases

LEMMA FrameStep ==
  ASSUME TypeOK, FrameInv, PcbInv, Step, UNCHANGED env
  PROVE  FrameInv'
<1> USE Types
<1>1. Closing(sock, pcb) =>
        \A p \in Pcb : pcb'[p].st = "free" => pcb[p].st = "free" \/ "nomem" \in env
  BY DEF Closing
<1>2. CASE jd_tcpsock_close
  <2>1. AppMay /\ Closing(sock, pcb) /\ UNCHANGED stack BY <1>2, CloseCase DEF jd_tcpsock_close
  <2> QED BY <1>1, <2>1, AppFrames, FrameSame, FrameKept
<1>3. ASSUME NEW h \in Host, NEW p \in Port, jd_tcpsock_new(h, p) PROVE FrameInv'
  <2>1. AppMay /\ Closing(sock, pcb) BY <1>3, NewCases
  <2>2. CASE UNCHANGED stack BY <1>1, <2>1, <2>2, AppFrames, FrameSame, FrameKept
  <2>3. CASE stack' = <<Frame("error", NULL, 0), Frame("refused", NULL, 0)>> \o stack
    BY <1>1, <2>1, <2>3, AppFrames, FramePushed, FrameKept
  <2> QED BY <1>3, <2>2, <2>3, NewCases
<1>4. CASE jd_tcpsock_write
  <2>1. AppMay BY <1>4 DEF jd_tcpsock_write
  <2>2. CASE UNCHANGED <<pcb, stack>> BY <2>1, <2>2, AppFrames, FrameSame, FrameKept
  <2>3. CASE Ends(sock, pcb, stack)
    BY <1>1, <2>1, <2>3, AppFrames, FramePushed, FrameKept DEF Ends
  <2>4. CASE raise_error(sock, pcb, stack) BY <2>2, <2>3, <2>4, RaiseCases DEF Stays
  <2> QED BY <1>4, <2>2, <2>4 DEF jd_tcpsock_write
<1>5. CASE jd_tcpsock_process
  <2>1. sock.ipaddr \in Addr BY Zenon DEF SockType
  <2> QED BY <1>5, <2>1, FrameFound DEF jd_tcpsock_process
<1>6. ASSUME NEW h \in Host, DnsAnswer(h) PROVE FrameInv'
  <2>1. h \in Addr /\ Nowhere \in Addr BY DEF Addr
  <2> QED BY <1>6, <2>1, FrameFound DEF DnsAnswer
<1>7. ASSUME NEW p \in Pcb, tcp_client_connected(p) \/ tcp_client_recv(p) PROVE FrameInv'
  <2>1. PICK d \in InOpen, n \in Nat : stack' = <<Frame(d, p, n)>> BY <1>7, CallFrame
  <2>2. DOMAIN stack' = {1} /\ Len(stack') = 1 /\ stack'[1].do = d /\ stack'[1].pcb = p BY <2>1, Alone
  <2>3. pcb'[p].st # "free" BY <1>7 DEF tcp_client_connected, tcp_client_recv, Callback, PcbType
  <2>4. PatientEnv => sock'.connected
    <3>1. CASE tcp_client_connected(p) BY <3>1 DEF tcp_client_connected, SockType
    <3>2. CASE tcp_client_recv(p) BY <3>2 DEF tcp_client_recv, Callback, PcbInv, BlockInv
    <3> QED BY <1>7, <3>1, <3>2
  <2>5. PatientEnv' = PatientEnv BY DEF PatientEnv
  <2> QED BY <2>2, <2>3, <2>4, <2>5 DEF FrameInv
<1>8. ASSUME NEW p \in Pcb, tcp_client_connected_err(p) \/ tcp_client_recv_null(p) PROVE FrameInv'
  <2>1. /\ raise_error(sock, pcb, <<Frame("closed", p, 0)>>) /\ stack = <<>> /\ pcb[p].st # "free"
    BY <1>8 DEF tcp_client_connected_err, tcp_client_recv_null, Callback
  <2>2. /\ <<Frame("closed", p, 0)>> \in Seq(FrameType)
        /\ \A i \in DOMAIN <<Frame("closed", p, 0)>> :
             /\ <<Frame("closed", p, 0)>>[i].do \in InClose
             /\ <<Frame("closed", p, 0)>>[i].pcb = p
    <3>1. "closed" \in InClose /\ "closed" \in InOpen \cup InClose /\ 0 \in Nat BY DEF InClose
    <3>2. PICK d \in InClose : d = "closed" BY <3>1
    <3>3. /\ <<Frame(d, p, 0)>> \in Seq(FrameType) /\ DOMAIN <<Frame(d, p, 0)>> = {1}
          /\ <<Frame(d, p, 0)>>[1].do = d /\ <<Frame(d, p, 0)>>[1].pcb = p
      BY <3>1, <3>2, Alone
    <3> QED BY <3>2, <3>3
  <2> QED BY <2>1, <2>2, FrameRaised
<1>9. ASSUME NEW p \in Pcb, tcp_client_err(p) PROVE FrameInv'
  <2>1. [pcb EXCEPT ![p] = FreePcb] \in PcbType BY FreePcbType DEF PcbType
  <2>2. <<>> \in Seq(FrameType) /\ \A i \in DOMAIN <<>> : FALSE OBVIOUS
  <2> QED BY <1>9, <2>1, <2>2, FrameRaised DEF tcp_client_err, Callback
<1>10. ASSUME NEW p \in Pcb, tcp_client_err_abrt(p) \/ PcbDone(p) PROVE FrameInv'
  BY <1>10 DEF tcp_client_err_abrt, PcbDone, Callback, FrameInv
<1>11. CASE RecvNext
  <2>1. /\ DOMAIN stack = {1} /\ stack[1].do = "message" /\ stack'[1].do = "message"
        /\ DOMAIN stack' = {1} /\ Len(stack') = 1 /\ stack'[1].pcb = stack[1].pcb
    BY <1>11, NextFrame
  <2>2. UNCHANGED <<sock, pcb>> BY <1>11 DEF RecvNext
  <2> QED BY <2>1, <2>2 DEF FrameInv, Held, PatientEnv
<1>12. CASE RecvReturns \/ CallbackReturns \/ ErrorReturns
  <2>1. /\ stack # <<>> /\ stack' = Tail(stack) /\ UNCHANGED <<sock, pcb>> /\ stack[1].do \in InOpen \cup InClose
        /\ stack[1].do \in InOpen => Tail(stack) = <<>>
        /\ "message" \notin env /\ stack[1].do \in InClose =>
             \A i \in DOMAIN stack : stack[i].do \notin InOpen
    BY <1>12, ReturnFrames DEF RecvReturns, CallbackReturns, ErrorReturns, FrameType
  <2>2. CASE stack[1].do \in InOpen BY <2>1, <2>2 DEF FrameInv
  <2>3. CASE stack[1].do \in InClose BY <2>1, <2>3, FramePopped, FrameKept
  <2> QED BY <2>1, <2>2, <2>3
<1>13. CASE NewReturns
  <2>1. /\ stack # <<>> /\ stack' = Tail(stack) /\ Closing(sock, pcb) /\ stack[1].do \in InClose
        /\ "message" \notin env => \A i \in DOMAIN stack : stack[i].do \notin InOpen
    BY <1>13, ReturnFrames, CloseCase DEF NewReturns, InClose
  <2> QED BY <1>1, <2>1, FramePopped, FrameKept
<1>14. CASE Return BY <1>11, <1>12, <1>13, <1>14 DEF Return
<1> QED BY <1>2, <1>3, <1>4, <1>5, <1>6, <1>7, <1>8, <1>9, <1>10, <1>14 DEF Step, Call, Reply

\* Who uses a block of a function in progress.
LEMMA UseStep ==
  ASSUME TypeOK, FrameInv, UseInv, Step, UNCHANGED env
  PROVE  UseInv'
<1> USE Types
<1>1. CASE misuse' \subseteq misuse \cup {"driver"} BY <1>1 DEF UseInv
<1>2. ASSUME NEW s \in SockType, NEW P \in PcbType, NEW c, raise_error(s, P, c)
      PROVE  misuse' \subseteq misuse \cup {"driver"}
  BY <1>2, RaiseCases, TouchType DEF Stays, Ends
<1>3. ASSUME NEW a \in Addr, host_found(a) PROVE misuse' \subseteq misuse \cup {"driver"}
  <2>1. /\ FoundSock(a, NULL) \in SockType
        /\ \A p \in Pcb : FoundSock(a, p) \in SockType /\ FoundPcb(a, p, "new") \in PcbType
    BY FoundTypes
  <2> QED BY <1>2, <1>3, <2>1, HostFoundCases
<1>4. CASE Call \/ jd_tcpsock_write
  <2>1. CASE jd_tcpsock_close BY <1>1, <2>1, CloseCase, TouchType DEF jd_tcpsock_close
  <2>2. ASSUME NEW h \in Host, NEW p \in Port, jd_tcpsock_new(h, p) PROVE UseInv'
    BY <1>1, <2>2, NewCases, TouchType
  <2>3. CASE jd_tcpsock_write BY <1>1, <1>2, <2>3, TouchType DEF jd_tcpsock_write
  <2> QED BY <1>4, <2>1, <2>2, <2>3 DEF Call
<1>5. CASE jd_tcpsock_process
  <2>1. sock.ipaddr \in Addr BY Zenon DEF SockType
  <2> QED BY <1>1, <1>3, <1>5, <2>1 DEF jd_tcpsock_process
<1>6. ASSUME NEW h \in Host, DnsAnswer(h) PROVE UseInv'
  <2>1. h \in Addr /\ Nowhere \in Addr BY DEF Addr
  <2> QED BY <1>1, <1>3, <1>6, <2>1 DEF DnsAnswer
<1>7. ASSUME NEW p \in Pcb, \/ tcp_client_connected(p) \/ tcp_client_err_abrt(p)
                            \/ tcp_client_recv(p) \/ PcbDone(p)
      PROVE  UseInv'
  BY <1>1, <1>7 DEF tcp_client_connected, tcp_client_err_abrt, tcp_client_recv, PcbDone
<1>8. ASSUME NEW p \in Pcb, \/ tcp_client_connected_err(p) \/ tcp_client_recv_null(p)
                            \/ tcp_client_err(p)
      PROVE  UseInv'
  <2>1. [pcb EXCEPT ![p] = FreePcb] \in PcbType BY FreePcbType DEF PcbType
  <2> QED BY <1>1, <1>2, <1>8, <2>1 DEF tcp_client_connected_err, tcp_client_recv_null, tcp_client_err
<1>9. CASE RecvNext \/ ErrorReturns BY <1>1, <1>9 DEF RecvNext, ErrorReturns
<1>10. CASE NewReturns BY <1>1, <1>10, CloseCase, TouchType DEF NewReturns
<1>11. CASE RecvReturns
  <2>1. /\ 1 \in DOMAIN stack /\ stack[1].do = "message" /\ Use(stack[1].pcb, {"recved", "return"})
    BY <1>11, ReturnFrames DEF RecvReturns
  <2>2. "nomem" \notin env \/ "message" \notin env => misuse' = misuse
    BY <2>1 DEF FrameInv, Held, InOpen, Use
  <2> QED BY <2>2 DEF UseInv
<1>12. CASE CallbackReturns
  <2>1. 1 \in DOMAIN stack /\ Use(stack[1].pcb, {"return"}) BY <1>12, ReturnFrames DEF CallbackReturns
  <2>2. "nomem" \notin env => misuse' = misuse BY <2>1 DEF FrameInv, Held, Use
  <2>3. misuse' \subseteq misuse \cup {"return"} BY <2>1 DEF Use
  <2> QED BY <2>2, <2>3 DEF UseInv
<1>13. CASE Return BY <1>9, <1>10, <1>11, <1>12, <1>13 DEF Return
<1> QED BY <1>4, <1>5, <1>6, <1>7, <1>8, <1>13 DEF Step, Reply

-----------------------------------------------------------------------------
(* Theorems. *)

\* In every environment the invariant holds: what is reported of the end of a
\* connection, whose block can call back, and what the functions in progress
\* find when the application returns (lwip_sock.c:27-194).
THEOREM SockInvariance == Spec => []IInv
<1>1. Init => IInv
  <2> SUFFICES ASSUME Init PROVE IInv OBVIOUS
  <2>1. /\ sock = Zero /\ dns = {} /\ stack = <<>> /\ misuse = {} /\ env \in Envs
        /\ events = <<"closed">> /\ pcb \in PcbType /\ \A p \in Pcb : pcb[p] = FreePcb
    BY FreePcbType DEF Init, PcbType
  <2>2. events \in Seq(EventSet) /\ stack \in Seq(FrameType) BY <2>1, LogStarts
  <2>3. TypeOK BY <2>1, <2>2, ZeroType, Types
  <2>4. EndInv BY <2>1, ZeroType DEF EndInv, Once, Ended, ByApp
  <2>5. ~FreePcb.cb BY FreePcbType
  <2>6. PcbInv BY <2>1, <2>5, ZeroType DEF PcbInv, FreeInv, LiveInv, LookupInv, BlockInv
  <2>7. FrameInv /\ UseInv BY <2>1 DEF FrameInv, UseInv
  <2> QED BY <2>3, <2>4, <2>6, <2>7 DEF IInv
<1>2. IInv /\ [Next]_vars => IInv'
  <2> SUFFICES ASSUME IInv, [Next]_vars PROVE IInv' OBVIOUS
  <2>1. CASE UNCHANGED vars
    BY <2>1 DEF vars, IInv, TypeOK, EndInv, Once, Ended, ByApp, Ending, PcbInv, FreeInv, LiveInv,
                LookupInv, BlockInv, PatientEnv, FrameInv, Held, UseInv
  <2>2. CASE Step /\ UNCHANGED env BY <2>2, TypeStep, EndStep, PcbStep, FrameStep, UseStep DEF IInv
  <2> QED BY <2>1, <2>2 DEF Next
<1> QED BY <1>1, <1>2, PTL DEF Spec

\* If the application does not call the socket from ERROR or CLOSE, the end of a
\* connection is reported once, however many callbacks notice, not at all if the
\* application closed it, and always otherwise (lwip_sock.c:43-69, 141-163).
THEOREM EventsAreOK == Spec => []EventsOK
<1>1. IInv => EventsOK
  <2> SUFFICES ASSUME IInv, "ending" \notin env PROVE OneClose BY DEF IInv, EventsOK, OneClose
  <2>1. stack = <<>> => ~Ending BY DEF Ending
  <2>2. /\ Once /\ (sock.connecting => ~Ended /\ ~ByApp)
        /\ stack = <<>> /\ ~sock.connecting => Ended \/ ByApp
        /\ Ended => ~ByApp
    BY <2>1 DEF IInv, EndInv
  <2> QED BY <2>2 DEF OneClose, Once, Ended, ByApp
<1> QED BY <1>1, SockInvariance, PTL

\* Where look-ups are waited for and succeed, a control block that can still
\* call back is the socket's own and goes to the peer asked for last, also if
\* the application calls the socket from OPEN or MESSAGE (lwip_sock.c:114-134,
\* 190-193).
THEOREM BlockIsOwn == Spec => []OwnBlock
<1>1. IInv => OwnBlock
  <2> SUFFICES ASSUME IInv, env \cap {"cached", "late", "unknown", "abort", "ending"} = {}
               PROVE  OwnBlock
    BY DEF OwnBlock
  <2>1. PatientEnv /\ "unknown" \notin env /\ "abort" \notin env BY DEF PatientEnv
  <2>2. sock \in SockType BY Types DEF IInv
  <2> QED BY <2>1, <2>2, SockInputs DEF IInv, PcbInv, BlockInv, OwnBlock, SockType
<1> QED BY <1>1, SockInvariance, PTL

\* The socket uses no block that lwIP has freed as long as lwIP frees none by
\* itself; nor do tcp_recved and lwIP after a callback, whatever the application
\* does in it, as long as tcp_close does not fail; and tcp_recved also then, if
\* the application does not call from MESSAGE (lwip_sock.c:27-41, 71-113).
THEOREM NeverUsedAfterFree == Spec => []NoUseAfterFree
<1>1. IInv => NoUseAfterFree BY DEF IInv, PcbInv, LiveInv, UseInv, NoUseAfterFree
<1> QED BY <1>1, SockInvariance, PTL

-----------------------------------------------------------------------------
(* TcpSock implements Connection. *)

\* A step of the socket that is, as conn and events show it, a step of
\* Connection or none.
CStep ==
  \/ conn' = "opening" /\ events' = <<>>
  \/ conn' = "ending" /\ events' = <<"ERROR">>
  \/ conn' = "closed" /\ events' = <<"closed">>
  \/ conn = "opening" /\ conn' = "open" /\ events' = Append(events, "OPEN")
  \/ conn = "open" /\ events' = Append(events, "MESSAGE") /\ UNCHANGED conn
  \/ /\ conn \in {"opening", "open"} /\ conn' = "ending"
     /\ events' = Append(events, "ERROR")
  \/ conn = "ending" /\ conn' = "closed" /\ events' = Append(events, "CLOSE")
  \/ UNCHANGED <<conn, events>>

\* Such a step implements Connection where look-ups are waited for and the
\* application does not call from events; elsewhere nothing is claimed.
LEMMA ConnectionStep ==
  ASSUME UNCHANGED env, Waiting => CStep
  PROVE  [C!Next]_(C!vars)
<1>1. CASE ~Waiting
  <2>1. ~Waiting' BY <1>1 DEF Waiting
  <2> QED BY <1>1, <2>1 DEF C!vars
<1>2. CASE Waiting
  <2>1. Waiting' BY <1>2 DEF Waiting
  <2> HIDE DEF conn
  <2> QED BY <1>2, <2>1
          DEF CStep, C!Next, C!Open, C!OpenFails, C!Close, C!Connected, C!Message, C!Lost, C!Ended,
              C!vars
<1> QED BY <1>1, <1>2

\* raise_error ends the connection in progress.
LEMMA ConnectionLost ==
  ASSUME TypeOK, NEW s \in SockType, NEW P \in PcbType, NEW c \in Seq(FrameType),
         raise_error(s, P, c), s.connecting, sock.connecting
  PROVE  CStep
<1>1. Ends(s, P, c) BY RaiseCases
<1>2. Ending' BY <1>1, CloseFrames, Pushed DEF Ends, Ending
<1>3. conn' = "ending" /\ conn \in {"opening", "open"} BY <1>1, <1>2, ZeroType DEF Ends, conn
<1> QED BY <1>1, <1>3 DEF CStep, Ends

\* Every step of the socket is a step of the connection or none.
LEMMA ConnectionNext ==
  ASSUME IInv, Step, UNCHANGED env, Waiting
  PROVE  CStep
<1> USE Types DEF IInv
<1>1. /\ PatientEnv /\ "message" \notin env /\ "cached" \notin env /\ "ending" \notin env
      /\ env \cap {"message", "ending"} = {}
  BY DEF Waiting, PatientEnv
<1>2. /\ ~sock.host_found_pending
      /\ sock.connected => sock.connecting
      /\ dns # {} => sock.connecting /\ ~sock.connected
      /\ \A p \in Pcb : pcb[p].cb => sock.connecting /\ (pcb[p].st = "syn" => ~sock.connected)
  BY <1>1 DEF PcbInv, LookupInv, BlockInv
<1>3. AppMay => stack = <<>> BY <1>1, AppFrames
<1>4. stack = <<>> => ~Ending BY DEF Ending
<1>5. CASE jd_tcpsock_close
  <2>1. sock' = Zero /\ events' = <<"closed">> /\ stack' = <<>>
    BY <1>3, <1>5, CloseCase DEF jd_tcpsock_close
  <2>2. conn' = "closed" BY <2>1, ZeroType DEF conn, Ending
  <2> QED BY <2>1, <2>2 DEF CStep
<1>6. ASSUME NEW h \in Host, NEW p \in Port, jd_tcpsock_new(h, p) PROVE CStep
  <2>1. ValidPort(p) /\ stack = <<>> BY <1>3, <1>6, NewCases
  <2>2. CASE sock' = Opening(h, p) /\ events' = <<>>
    <3>1. conn' = "opening" BY <2>1, <2>2, OpeningType DEF conn
    <3> QED BY <2>2, <3>1 DEF CStep
  <2>3. CASE /\ sock' = Zero /\ events' = <<"ERROR">>
             /\ stack' = <<Frame("error", NULL, 0), Frame("refused", NULL, 0)>> \o stack
    <3>1. Ending'
      <4>1. stack'[1] = Frame("error", NULL, 0) /\ 1 \in DOMAIN stack' BY <2>3, CloseFrames, PushedTwo
      <4> QED BY <4>1, CloseFrames DEF Ending
    <3>2. conn' = "ending" BY <2>3, <3>1, ZeroType DEF conn
    <3> QED BY <2>3, <3>2 DEF CStep
  <2> QED BY <1>1, <1>6, <2>2, <2>3, NewCases
<1>7. CASE UNCHANGED <<sock, events, stack>> BY <1>7 DEF CStep, conn, Ending
<1>8. CASE jd_tcpsock_write
  BY <1>2, <1>7, <1>8, ConnectionLost DEF jd_tcpsock_write
<1>9. CASE jd_tcpsock_process BY <1>2, <1>9 DEF jd_tcpsock_process
<1>10. ASSUME NEW h \in Host, DnsAnswer(h) PROVE CStep
  <2>1. PICK a \in Addr : host_found(a) BY <1>10 DEF DnsAnswer, Addr
  <2>2. sock.connecting BY <1>2, <1>10 DEF DnsAnswer
  <2>3. CASE raise_error(FoundSock(a, NULL), pcb, stack)
    <3>1. FoundSock(a, NULL) \in SockType /\ FoundSock(a, NULL).connecting BY <2>2, FoundTypes
    <3> QED BY <2>2, <2>3, <3>1, ConnectionLost
  <2>4. ASSUME NEW p \in Pcb, raise_error(FoundSock(a, p), FoundPcb(a, p, "new"), stack) PROVE CStep
    <3>1. /\ FoundSock(a, p) \in SockType /\ FoundSock(a, p).connecting
          /\ FoundPcb(a, p, "new") \in PcbType
      BY <2>2, FoundTypes
    <3> QED BY <2>2, <2>4, <3>1, ConnectionLost
  <2>5. ASSUME NEW p \in Pcb, sock' = FoundSock(a, p), UNCHANGED <<stack, events>> PROVE CStep
    <3>1. sock'.connected = sock.connected /\ sock'.connecting = sock.connecting
      BY <2>5, FoundTypes
    <3> QED BY <2>5, <3>1 DEF CStep, conn, Ending
  <2> QED BY <2>1, <2>3, <2>4, <2>5, HostFoundCases
<1>11. ASSUME NEW p \in Pcb, tcp_client_connected(p) PROVE CStep
  <2>1. pcb[p].cb /\ pcb[p].st = "syn" /\ events' = Append(events, "OPEN")
    BY <1>11 DEF tcp_client_connected, Callback
  <2>2. sock'.connected BY <1>11 DEF tcp_client_connected, SockType
  <2>3. conn = "opening" /\ conn' = "open" BY <1>2, <2>1, <2>2 DEF conn
  <2> QED BY <2>1, <2>3 DEF CStep
<1>12. CASE sock.connected /\ UNCHANGED sock /\ events' = Append(events, "MESSAGE")
  <2>1. conn = "open" /\ conn' = "open" BY <1>12 DEF conn
  <2> QED BY <1>12, <2>1 DEF CStep
<1>13. ASSUME NEW p \in Pcb, tcp_client_recv(p) PROVE CStep
  <2>1. pcb[p].cb /\ pcb[p].st = "est" /\ UNCHANGED sock /\ events' = Append(events, "MESSAGE")
    BY <1>13 DEF tcp_client_recv, Callback
  <2> QED BY <1>1, <1>12, <2>1 DEF PcbInv, BlockInv
<1>14. ASSUME NEW p \in Pcb, tcp_client_connected_err(p) \/ tcp_client_recv_null(p) PROVE CStep
  <2>1. sock.connecting /\ raise_error(sock, pcb, <<Frame("closed", p, 0)>>)
    BY <1>2, <1>14 DEF tcp_client_connected_err, tcp_client_recv_null, Callback
  <2>2. <<Frame("closed", p, 0)>> \in Seq(FrameType) BY Alone DEF InClose
  <2> QED BY <2>1, <2>2, ConnectionLost
<1>15. ASSUME NEW p \in Pcb, tcp_client_err(p) PROVE CStep
  <2>1. sock.connecting /\ raise_error(sock, [pcb EXCEPT ![p] = FreePcb], <<>>)
    BY <1>2, <1>15 DEF tcp_client_err, Callback
  <2>2. [pcb EXCEPT ![p] = FreePcb] \in PcbType BY FreePcbType DEF PcbType
  <2>3. <<>> \in Seq(FrameType) OBVIOUS
  <2> QED BY <2>1, <2>2, <2>3, ConnectionLost
<1>16. ASSUME NEW p \in Pcb, tcp_client_err_abrt(p) \/ PcbDone(p) PROVE CStep
  BY <1>7, <1>16 DEF tcp_client_err_abrt, PcbDone
<1>17. CASE RecvNext
  <2>1. UNCHANGED sock /\ events' = Append(events, "MESSAGE") BY <1>17 DEF RecvNext
  <2>2. DOMAIN stack = {1} /\ stack[1].do = "message" BY <1>17, NextFrame
  <2>3. sock.connected BY <1>1, <2>2 DEF FrameInv, InOpen
  <2> QED BY <1>12, <2>1, <2>3
<1>18. ASSUME stack # <<>>, stack' = Tail(stack) PROVE ~Ending'
  <2>1. ASSUME NEW i \in DOMAIN stack' PROVE stack'[i].do # "error"
    <3>1. i \in Nat \ {0} /\ i + 1 \in DOMAIN stack /\ stack'[i] = stack[i + 1] BY <1>18, Popped
    <3>2. i + 1 # 1 BY <3>1
    <3> QED BY <1>1, <3>1, <3>2 DEF EndInv
  <2> QED BY <2>1 DEF Ending
<1>19. CASE RecvReturns \/ CallbackReturns
  <2>1. stack # <<>> /\ stack' = Tail(stack) /\ UNCHANGED <<sock, events>> /\ stack[1].do # "error"
    BY <1>19, ReturnFrames DEF RecvReturns, CallbackReturns
  <2>2. ~Ending BY <1>1, <2>1 DEF EndInv, Ending
  <2>3. ~Ending' BY <1>18, <2>1
  <2> QED BY <2>1, <2>2, <2>3 DEF CStep, conn
<1>20. ASSUME 1 \in DOMAIN stack, stack[1].do \in InClose PROVE ~sock.connecting /\ ~sock.connected
  BY <1>1, <1>2, <1>20 DEF EndInv
<1>21. CASE ErrorReturns
  <2>1. /\ stack # <<>> /\ 1 \in DOMAIN stack /\ stack[1].do = "error" /\ stack' = Tail(stack)
        /\ UNCHANGED sock /\ events' = Append(events, "CLOSE")
    BY <1>21, ReturnFrames DEF ErrorReturns
  <2>2. Ending /\ ~Ending' BY <1>18, <2>1 DEF Ending
  <2>3. ~sock.connecting /\ ~sock.connected BY <1>20, <2>1 DEF InClose
  <2>4. conn = "ending" /\ conn' = "closed" BY <2>1, <2>2, <2>3 DEF conn
  <2> QED BY <2>1, <2>4 DEF CStep
<1>22. CASE NewReturns
  <2>1. /\ stack # <<>> /\ 1 \in DOMAIN stack /\ stack[1].do = "refused" /\ stack' = Tail(stack)
        /\ sock' = Zero /\ UNCHANGED events
    BY <1>22, ReturnFrames, CloseCase DEF NewReturns
  <2>2. ~Ending BY <1>1, <2>1 DEF EndInv, Ending
  <2>3. ~sock.connecting /\ ~sock.connected BY <1>20, <2>1 DEF InClose
  <2>4. conn = "closed" /\ conn' = "closed" BY <1>18, <2>1, <2>2, <2>3, ZeroType DEF conn
  <2> QED BY <2>1, <2>4 DEF CStep
<1>23. CASE Return BY <1>17, <1>19, <1>21, <1>22, <1>23 DEF Return
<1> QED BY <1>5, <1>6, <1>8, <1>9, <1>10, <1>11, <1>13, <1>14, <1>15, <1>16, <1>23
        DEF Step, Call, Reply

\* Where a look-up is always asked for and waited for and the application does
\* not call the socket from its events, the socket is the connection that the
\* application was promised: no event of an earlier connection, none after a
\* close, OPEN before any message, CLOSE after ERROR (lwip_sock.c:43-113).
THEOREM Implements == Spec => IsConnection
<1>1. Init => C!Init
  <2> SUFFICES ASSUME Init PROVE C!Init OBVIOUS
  <2>1. sock = Zero /\ stack = <<>> /\ events = <<"closed">> BY DEF Init
  <2>2. conn = "closed" BY <2>1, ZeroType DEF conn, Ending
  <2> QED BY <2>1, <2>2 DEF C!Init
<1>2. IInv /\ [Next]_vars => [C!Next]_(C!vars)
  <2> SUFFICES ASSUME IInv, [Next]_vars PROVE [C!Next]_(C!vars) OBVIOUS
  <2>1. CASE Next BY <2>1, ConnectionNext, ConnectionStep DEF Next
  <2>2. CASE UNCHANGED vars
    <3>1. UNCHANGED <<conn, events, env>> BY <2>2 DEF vars, conn, Ending
    <3> QED BY <3>1, ConnectionStep DEF CStep
  <2> QED BY <2>1, <2>2
<1> QED BY <1>1, <1>2, SockInvariance, PTL DEF Spec, IsConnection, C!Spec
=============================================================================

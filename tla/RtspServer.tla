----------------------------- MODULE RtspServer -----------------------------
(***************************************************************************)
(* The RTSP server of lib/rtsp_server with the sessions of                 *)
(* lib/Micro-RTSP, driven by task_rtsp, and the client counter of          *)
(* health_monitor.cpp.                                                     *)
(*                                                                         *)
(* Every timer tick runs client_handler: it accepts one waiting connection *)
(* or turns it away, reads once from every session, and removes, one by    *)
(* one, the sessions that have stopped.  Between two ticks a frame may be  *)
(* broadcast; which one is FramePipeline's matter, here it only matters    *)
(* whether there is a socket to send it to.  The clients are external:     *)
(* they send any requests in any order, close or vanish between any two    *)
(* steps.                                                                  *)
(*                                                                         *)
(* A request is its command.  A UDP socket is the port it is bound to; the *)
(* ports are pairs 2p, 2p + 1 for RTP and RTCP.  A pointer to a socket is  *)
(* its port, NullSocket, or DeletedSocket: one that has been deleted and   *)
(* is still pointed to.  What using it does is undefined.                  *)
(***************************************************************************)
EXTENDS Integers, Sequences, FiniteSets

CONSTANTS
    Clients,        \* connections that may be open at the same time
    MaxClients,     \* MAX_RTSP_CLIENTS
    Pairs,          \* the port pairs InitTransport scans are 1..Pairs
    Foreign,        \* UDP ports that other users of the network stack hold
    NullSocket,     \* the null WiFiUDP*
    DeletedSocket,  \* a WiFiUDP* to a socket that has been deleted
    MaxInbox,       \* requests a client sends before the server reads
    Requests        \* the requests that clients send

ASSUME CapAssumption == MaxClients \in Nat \ {0}
ASSUME PortsAssumption ==
    /\ Pairs \in Nat /\ Foreign \subseteq Nat
    /\ NullSocket \notin Int /\ DeletedSocket \notin Int \cup {NullSocket}
ASSUME RequestsAssumption ==
    /\ MaxInbox \in Nat \ {0}
    /\ Requests \subseteq {"OPTIONS", "DESCRIBE", "SETUP_UDP", "SETUP_TCP", "PLAY",
                           "PAUSE", "TEARDOWN", "GET_PARAMETER"}

VARIABLES
    peer,       \* each client's end of its connection
    backlog,    \* connections waiting for accept(), oldest first
    inbox,      \* requests sent and not yet read, by client
    bye,        \* the client has sent TEARDOWN (history)
    pc,         \* where task_rtsp is in client_handler; "panic": the CPU stopped
    clients,    \* clients_
    toRead,     \* sessions client_handler has still to read from
    count,      \* g_rtsp_client_count
    session,    \* the CRtspSession and CStreamer of each client in clients_
    bound,      \* UDP sockets that are open
    forgotten   \* those of them to which the last pointer was overwritten (history)

peerVars == <<peer, bye>>
socketVars == <<session, bound, forgotten>>
serverVars == <<clients, count, socketVars>>
vars == <<peerVars, backlog, inbox, pc, toRead, serverVars>>

\* tcp, rtp and rtcp are the streamer's m_TCPTransport, m_RtpSocket and
\* m_RtcpSocket.  scan is history: how the last scan for a port pair ended, or
\* that the pair it found was closed by whoever used a deleted socket.
NewSession == [m_streaming |-> FALSE, m_stopped |-> FALSE, tcp |-> FALSE,
               rtp |-> NullSocket, rtcp |-> NullSocket, scan |-> "none"]
Elems(s) == {s[i] : i \in 1..Len(s)}
Listed == Elems(clients)
SetUps == {"SETUP_UDP", "SETUP_TCP"}
PortsInUse == Foreign \cup bound
Ports == 2..2 * Pairs + 1
Pointers == Ports \cup {NullSocket, DeletedSocket}

TypeOK ==
    /\ peer \in [Clients -> {"away", "backlog", "open", "closed"}]
    /\ backlog \in Seq(Clients)
    /\ inbox \in [Clients -> Seq(Requests)]
    /\ bye \in [Clients -> BOOLEAN]
    /\ pc \in {"idle", "read", "remove", "panic"}
    /\ clients \in Seq(Clients)
    /\ toRead \in Seq(Clients)
    /\ count \in 0..MaxClients
    /\ session \in [Clients -> [m_streaming : BOOLEAN, m_stopped : BOOLEAN,
                                tcp : BOOLEAN, rtp : Pointers, rtcp : Pointers,
                                scan : {"none", "found", "failed", "robbed"}]]
    /\ bound \subseteq Ports /\ forgotten \subseteq Ports

Init ==
    /\ peer = [c \in Clients |-> "away"]
    /\ backlog = <<>>
    /\ inbox = [c \in Clients |-> <<>>]
    /\ bye = [c \in Clients |-> FALSE]
    /\ pc = "idle"
    /\ clients = <<>> /\ toRead = <<>>
    /\ count = 0
    /\ session = [c \in Clients |-> NewSession]
    /\ bound = {} /\ forgotten = {}

-----------------------------------------------------------------------------
(* The clients.                                                            *)

Connect(c) ==
    /\ peer[c] = "away" /\ c \notin Listed
    /\ peer' = [peer EXCEPT ![c] = "backlog"]
    /\ backlog' = Append(backlog, c)
    /\ UNCHANGED <<bye, inbox, pc, toRead, serverVars>>

Send(c) ==
    /\ peer[c] = "open" /\ Len(inbox[c]) < MaxInbox
    /\ \E r \in Requests :
         /\ inbox' = [inbox EXCEPT ![c] = Append(@, r)]
         /\ bye' = [bye EXCEPT ![c] = @ \/ r = "TEARDOWN"]
    /\ UNCHANGED <<peer, backlog, pc, toRead, serverVars>>

Close(c) ==
    /\ peer[c] = "open"
    /\ peer' = [peer EXCEPT ![c] = "closed"]
    /\ UNCHANGED <<bye, backlog, inbox, pc, toRead, serverVars>>

-----------------------------------------------------------------------------
(* health_monitor.cpp: the slots.                                          *)

\* rtsp_client_accept takes a slot if there is one; rtsp_client_release gives one
\* back, and never counts below 0.
rtsp_client_accept == count < MaxClients
rtsp_client_release(n) == IF n > 0 THEN n - 1 ELSE 0

-----------------------------------------------------------------------------
(* client_handler: accept.                                                 *)

\* The rejected connection is told "503" and stopped.
TurnAway(c) ==
    /\ peer' = [peer EXCEPT ![c] = "away"]
    /\ inbox' = [inbox EXCEPT ![c] = <<>>]
    /\ UNCHANGED bye

\* Mutant: the heap guard rejects the client and keeps its slot.
AcceptGuardedKeepsSlot ==
    /\ pc = "idle" /\ backlog # <<>> /\ rtsp_client_accept
    /\ TurnAway(Head(backlog))
    /\ backlog' = Tail(backlog)
    /\ count' = count + 1
    /\ UNCHANGED <<pc, toRead, clients, socketVars>>

\* The heap guard trips or the camera has no sensor: the slot just taken is
\* released and the callback returns before any session is read.
AcceptGuarded ==
    /\ pc = "idle" /\ backlog # <<>> /\ rtsp_client_accept
    /\ TurnAway(Head(backlog))
    /\ backlog' = Tail(backlog)
    /\ count' = rtsp_client_release(count + 1)
    /\ UNCHANGED <<pc, toRead, clients, socketVars>>

Accept ==
    /\ pc = "idle" /\ backlog # <<>> /\ rtsp_client_accept
    /\ LET c == Head(backlog) IN
         /\ clients' = Append(clients, c)
         /\ session' = [session EXCEPT ![c] = NewSession]
         /\ peer' = [peer EXCEPT ![c] = "open"]
    /\ backlog' = Tail(backlog)
    /\ count' = count + 1
    /\ toRead' = clients' /\ pc' = "read"
    /\ UNCHANGED <<bye, inbox, bound, forgotten>>

\* Mutant: the cap is checked first and the connection is left waiting.
RejectLeavesWaiting ==
    /\ pc = "idle" /\ backlog # <<>> /\ ~rtsp_client_accept
    /\ toRead' = clients /\ pc' = "read"
    /\ UNCHANGED <<peerVars, backlog, inbox, serverVars>>

\* All slots are taken.
Reject ==
    /\ pc = "idle" /\ backlog # <<>> /\ ~rtsp_client_accept
    /\ TurnAway(Head(backlog))
    /\ backlog' = Tail(backlog)
    /\ toRead' = clients /\ pc' = "read"
    /\ UNCHANGED serverVars

AcceptNobody ==
    /\ pc = "idle" /\ backlog = <<>>
    /\ toRead' = clients /\ pc' = "read"
    /\ UNCHANGED <<peerVars, backlog, inbox, serverVars>>

-----------------------------------------------------------------------------
(* handleRequests: at most one request of each session per tick.           *)

\* The sockets a session points to, also where there is no socket any more.
SocketsOf(c) == {session[c].rtp, session[c].rtcp}

\* The pairs whose even port is free, and both are.  A socket on a free port may still
\* not be made: WiFiUDP::begin also fails for want of memory or of sockets.
FreeEvens == {p \in 1..Pairs : 2 * p \notin PortsInUse}
FreePairs == {p \in FreeEvens : 2 * p + 1 \notin PortsInUse}

\* The scan ends at a pair.  The pointers to the sockets of an earlier SETUP are
\* overwritten, which does not close them.
PairFound(c) ==
    \E p \in FreePairs :
        /\ session' = [session EXCEPT ![c] =
               [@ EXCEPT !.tcp = FALSE, !.rtp = 2 * p, !.rtcp = 2 * p + 1, !.scan = "found"]]
        /\ forgotten' = forgotten \cup (SocketsOf(c) \cap bound)
        /\ bound' = bound \cup {2 * p, 2 * p + 1}

\* No RTP socket could be made: m_RtcpSocket is never assigned.
NoRtpSocket(c) ==
    /\ session' = [session EXCEPT ![c] =
           [@ EXCEPT !.tcp = FALSE, !.rtp = NullSocket, !.scan = "failed"]]
    /\ forgotten' = forgotten \cup ({session[c].rtp} \cap bound)
    /\ UNCHANGED bound

\* RTP sockets could be made, the last of them for pair p, and never an RTCP socket
\* beside one.  Each was deleted; only a later attempt overwrites the pointer to it.
NoRtcpSocket(c) ==
    \E p \in FreeEvens :
        /\ session' = [session EXCEPT ![c] =
               [@ EXCEPT !.tcp = FALSE, !.rtcp = NullSocket, !.scan = "failed",
                         !.rtp = IF p = Pairs THEN DeletedSocket ELSE NullSocket]]
        /\ forgotten' = forgotten \cup (SocketsOf(c) \cap bound)
        /\ UNCHANGED bound

\* Mutant: the sockets of an earlier SETUP are closed first, their pointers kept.
InitTransportClosesFirst(c, tcp) ==
    \/ /\ tcp
       /\ session' = [session EXCEPT ![c].tcp = TRUE]
       /\ bound' = bound \ SocketsOf(c) /\ UNCHANGED forgotten
    \/ ~tcp /\ (PairFound(c) \/ NoRtpSocket(c) \/ NoRtcpSocket(c))

\* InitTransport: over UDP, a scan of the port pairs.  What it ended with, nobody
\* looks at: SETUP is answered all the same.
InitTransport(c, tcp) ==
    \/ /\ tcp
       /\ session' = [session EXCEPT ![c].tcp = TRUE]
       /\ UNCHANGED <<bound, forgotten>>
    \/ ~tcp /\ (PairFound(c) \/ NoRtpSocket(c) \/ NoRtcpSocket(c))

\* TEARDOWN and PAUSE have no handler and get no answer.
Answered == {"OPTIONS", "DESCRIBE", "SETUP_UDP", "SETUP_TCP", "PLAY"}

\* Handle_RtspRequest on one command, with what handleRequests does on its result.
Handle(c, r) ==
    \/ r \in SetUps /\ InitTransport(c, r = "SETUP_TCP")
    \/ /\ r = "PLAY"
       /\ session' = [session EXCEPT ![c].m_streaming = TRUE]
       /\ UNCHANGED <<bound, forgotten>>
    \/ /\ r = "TEARDOWN"
       /\ session' = [session EXCEPT ![c].m_stopped = TRUE]
       /\ UNCHANGED <<bound, forgotten>>
    \/ /\ r \in {"OPTIONS", "DESCRIBE", "PAUSE", "GET_PARAMETER"}
       /\ UNCHANGED socketVars

\* The client has closed and connected() sees it: the session stops, whatever the
\* client still had to say.
ReadClosed ==
    /\ pc = "read" /\ toRead # <<>>
    /\ LET c == Head(toRead) IN
         /\ ~session[c].m_stopped /\ peer[c] = "closed"
         /\ session' = [session EXCEPT ![c].m_stopped = TRUE]
    /\ toRead' = Tail(toRead)
    /\ UNCHANGED <<peerVars, backlog, inbox, pc, clients, count, bound, forgotten>>

\* One read takes what has arrived, possibly several requests; only the first
\* one is handled.  A client that has closed may still be read from.
ReadRequest ==
    /\ pc = "read" /\ toRead # <<>>
    /\ LET c == Head(toRead)
           r == Head(inbox[c])
       IN  /\ ~session[c].m_stopped /\ inbox[c] # <<>>
           /\ \E k \in 1..Len(inbox[c]) :
                inbox' = [inbox EXCEPT ![c] = SubSeq(@, k + 1, Len(@))]
           /\ Handle(c, r)
    /\ toRead' = Tail(toRead)
    /\ UNCHANGED <<peer, bye, backlog, pc, clients, count>>

\* Mutant: a read that finds nothing is taken for the end of the connection.
ReadNothingStops ==
    /\ pc = "read" /\ toRead # <<>>
    /\ LET c == Head(toRead) IN
         /\ session[c].m_stopped \/ (peer[c] = "open" /\ inbox[c] = <<>>)
         /\ session' = [session EXCEPT ![c].m_stopped = TRUE]
    /\ toRead' = Tail(toRead)
    /\ UNCHANGED <<peerVars, backlog, inbox, pc, clients, count, bound, forgotten>>

\* Nothing to read, or the session is closed down already.
ReadNothing ==
    /\ pc = "read" /\ toRead # <<>>
    /\ LET c == Head(toRead) IN
         session[c].m_stopped \/ (peer[c] = "open" /\ inbox[c] = <<>>)
    /\ toRead' = Tail(toRead)
    /\ UNCHANGED <<peerVars, backlog, inbox, pc, serverVars>>

ReadAll ==
    /\ pc = "read" /\ toRead = <<>>
    /\ pc' = "remove"
    /\ UNCHANGED <<peerVars, backlog, inbox, toRead, serverVars>>

\* Mutant: only sessions that are streaming are seen to have stopped.
StoppedStreaming == {c \in Listed : session[c].m_stopped /\ session[c].m_streaming}

Stopped == {c \in Listed : session[c].m_stopped}

Without(s, i) == [j \in 1..Len(s) - 1 |-> IF j < i THEN s[j] ELSE s[j + 1]]

\* remove_if comes to this session.
FirstStopped(i) == clients[i] \in Stopped /\ \A j \in 1..i - 1 : clients[j] \notin Stopped

\* c points to a socket that has been deleted.
Dangles(c) == DeletedSocket \in SocketsOf(c)

\* The session of d after the sockets in S have been closed and deleted by another.
Robbed(d, S) ==
    [session[d] EXCEPT !.rtp  = IF @ \in S THEN DeletedSocket ELSE @,
                       !.rtcp = IF @ \in S THEN DeletedSocket ELSE @,
                       !.scan = IF SocketsOf(d) \cap S # {} THEN "robbed" ELSE @]

\* What is closed in the place of a deleted socket, if there is no panic: nothing, or
\* an open one that has got its memory.
Robberies(c) ==
    IF Dangles(c)
    THEN {S \in SUBSET (bound \ SocketsOf(c)) :
            Cardinality(S) <= Cardinality({x \in {"rtp", "rtcp"} :
                                             session[c][x] = DeletedSocket})}
    ELSE {{}}

\* Mutant: the streamer closes its RTP socket and forgets the RTCP socket.
DestroyKeepsRtcp(c) ==
    \E S \in Robberies(c) :
        /\ session' = [d \in Clients |-> IF d = c THEN NewSession ELSE Robbed(d, S)]
        /\ bound' = bound \ ({session[c].rtp} \cup S)
        /\ forgotten' = forgotten \ S

\* ~CRtspSession and ~CStreamer: both sockets of the session are closed.
Destroy(c) ==
    \E S \in Robberies(c) :
        /\ session' = [d \in Clients |-> IF d = c THEN NewSession ELSE Robbed(d, S)]
        /\ bound' = bound \ (SocketsOf(c) \cup S)
        /\ forgotten' = forgotten \ S

\* remove_if comes to a session that has stopped: it gives its slot back and is
\* destroyed.
RemoveStopped ==
    /\ pc = "remove"
    /\ \E i \in 1..Len(clients) :
         /\ FirstStopped(i)
         /\ clients' = Without(clients, i)
         /\ Destroy(clients[i])
         /\ peer' = [peer EXCEPT ![clients[i]] = "away"]
         /\ inbox' = [inbox EXCEPT ![clients[i]] = <<>>]
         /\ bye' = [bye EXCEPT ![clients[i]] = FALSE]
    /\ count' = rtsp_client_release(count)
    /\ UNCHANGED <<backlog, pc, toRead>>

\* remove_if has come to the end of the list.
RemoveNoMore ==
    /\ pc = "remove" /\ Stopped = {}
    /\ pc' = "idle"
    /\ UNCHANGED <<peerVars, backlog, inbox, toRead, serverVars>>

-----------------------------------------------------------------------------
(* Panics.                                                                 *)

\* ~CStreamer stops and deletes a socket that is no object any more.
DestroyPanics ==
    /\ pc = "remove"
    /\ \E i \in 1..Len(clients) : FirstStopped(i) /\ Dangles(clients[i])
    /\ pc' = "panic"
    /\ UNCHANGED <<peerVars, backlog, inbox, toRead, serverVars>>

\* broadcastFrame sends a frame to each session that streams, over its TCP connection
\* or m_RtpSocket.  (It need not come to it: there may be no frame, and a deleted
\* socket may seem to work.)
BroadcastPanics ==
    /\ pc = "idle"
    /\ \E c \in Listed :
         /\ session[c].m_streaming /\ ~session[c].m_stopped /\ ~session[c].tcp
         /\ session[c].rtp \in {NullSocket, DeletedSocket}
    /\ pc' = "panic"
    /\ UNCHANGED <<peerVars, backlog, inbox, toRead, serverVars>>

\* The device restarts; nothing of this is kept.
Reboot ==
    /\ pc = "panic" /\ pc' = "idle"
    /\ peer' = [c \in Clients |-> "away"]
    /\ backlog' = <<>> /\ inbox' = [c \in Clients |-> <<>>]
    /\ bye' = [c \in Clients |-> FALSE]
    /\ clients' = <<>> /\ toRead' = <<>> /\ count' = 0
    /\ session' = [c \in Clients |-> NewSession]
    /\ bound' = {} /\ forgotten' = {}

Next ==
    \/ \E c \in Clients : Connect(c) \/ Send(c) \/ Close(c)
    \/ AcceptGuarded \/ Accept \/ Reject \/ AcceptNobody
    \/ ReadClosed \/ ReadRequest \/ ReadNothing \/ ReadAll
    \/ RemoveStopped \/ RemoveNoMore
    \/ DestroyPanics \/ BroadcastPanics \/ Reboot

Spec == Init /\ [][Next]_vars

\* task_rtsp's timer goes on ticking and a panic restarts the device; nothing is
\* assumed of the clients, of the heap or of the sockets.
Tick == AcceptGuarded \/ Accept \/ Reject \/ AcceptNobody
Fairness ==
    /\ WF_vars(Tick)
    /\ WF_vars(ReadClosed \/ ReadRequest \/ ReadNothing \/ ReadAll)
    /\ WF_vars(RemoveStopped \/ RemoveNoMore)
    /\ WF_vars(Reboot)

FairSpec == Spec /\ Fairness

-----------------------------------------------------------------------------
(* Correctness.                                                            *)

\* The counter that admits clients counts exactly the sessions of the server:
\* on no path through client_handler is a slot lost or given back twice
\* (ARCHITECTURE.md:236-240).
SlotsAreSessions ==
    /\ count = Len(clients) /\ count <= MaxClients
    /\ \A i, j \in 1..Len(clients) : i # j => clients[i] # clients[j]

\* Every UDP socket that is open is one that a session of the list points to, or was
\* forgotten by a second SETUP (CStreamer.cpp:140): the end of a session leaves none
\* behind, also when memory or ports run out in the middle of a scan or a deleted
\* socket is closed again.  No port has two owners, or one beside a foreign one.
SocketsAreOwned ==
    /\ bound = forgotten \cup UNION {SocketsOf(c) \cap Ports : c \in Listed}
    /\ \A c \in Listed :
         /\ SocketsOf(c) \cap forgotten = {}
         /\ \A d \in Listed \ {c} : SocketsOf(c) \cap SocketsOf(d) \cap Ports = {}
    /\ bound \cap Foreign = {}

\* The pair a SETUP found stays with its session to the end, whatever it and others
\* send, whoever else goes and whatever fails.  So the device only panics over a
\* session that plays over UDP and never asked for it (CRtspSession.cpp:387), whose
\* scan came to nothing, or which lost its pair to such a one.
TransportStays ==
    /\ \A c \in Listed : session[c].scan = "found" => SocketsOf(c) \subseteq bound
    /\ pc = "panic" => \E c \in Listed :
         \/ session[c].scan = "none" /\ session[c].m_streaming /\ ~session[c].tcp
         \/ session[c].scan \in {"failed", "robbed"}

\* A session ends only because its own client tore it down or closed the
\* connection, or in a panic; connections that are turned away disturb nobody
\* (EMBEDDED_SYSTEM_DESIGN.md:157).
SessionsEndOnlyByClient ==
    [][\A c \in Listed : c \notin Elems(clients') =>
          bye[c] \/ peer[c] = "closed" \/ pc = "panic"]_vars

\* Every waiting connection is accepted or turned away.
BacklogIsServed == \A c \in Clients : peer[c] = "backlog" ~> peer[c] # "backlog"

\* The session of a client that has gone is removed, provided client_handler
\* goes on getting as far as its sessions.
GoneIsRemoved ==
    []<>(pc = "read") =>
        \A c \in Clients : (peer[c] = "closed" /\ c \in Listed) ~> c \notin Listed

-----------------------------------------------------------------------------
(* What only holds as long as nobody repeats SETUP or plays first and sockets *)
(* can be had.                                                                *)

\* The sockets that are open are those of the sessions.
NoSocketForgotten == forgotten = {}

\* A frame is only ever sent over a transport that is there.
StreamsHaveTransport ==
    \A c \in Listed : session[c].m_streaming /\ ~session[c].m_stopped =>
        session[c].tcp \/ session[c].rtp \in bound

-----------------------------------------------------------------------------
(* What the documents say and the code does not do.                        *)

\* ARCHITECTURE.md:240: the slot is released when the session ends.
EndedSessionsRelease ==
    \A c \in Clients : (peer[c] = "closed" /\ c \in Listed) ~> c \notin Listed

\* CRtspSession.cpp:237: the methods listed as Public are answered.
RequestsAreAnswered ==
    [][\A c \in Listed : Len(inbox'[c]) < Len(inbox[c]) /\ peer'[c] = "open" =>
          Len(inbox[c]) = 1 /\ Head(inbox[c]) \in Answered]_vars
=============================================================================

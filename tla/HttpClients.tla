----------------------------- MODULE HttpClients -----------------------------
(***************************************************************************)
(* The route handlers of web_ui_service.cpp and the client slots of        *)
(* health_monitor.cpp they share.                                          *)
(*                                                                         *)
(* Handlers and disconnect callbacks are external calls of AsyncTCP's one  *)
(* task: each is a single action.  A response is its status; a page that   *)
(* is sent in pieces is in LatestFrame, what is on it in WebPage.         *)
(***************************************************************************)
EXTENDS Naturals, FiniteSets

CONSTANTS
    Conns,          \* TCP connections of the web server's port
    MaxClients,     \* MAX_HTTP_CLIENTS
    KeepAlive       \* the library keeps a connection open unless told to close it

ASSUME ConnsAssumption == IsFiniteSet(Conns)
ASSUME CapAssumption == MaxClients \in Nat
ASSUME KeepAliveAssumption == KeepAlive \in BOOLEAN

VARIABLES
    conn,       \* each connection: the last response, if any, and whether it is open
    hooked,     \* connections with on_client_disconnect registered
    count,      \* g_http_client_count
    apMode      \* network_is_ap_mode()

httpVars == <<conn, hooked, count, apMode>>

Routes == {"/", "/status", "/config", "/snapshot", "/stream", "other"}

\* Handlers that answer from memory, and handlers that may have no frame to send.
FrameRoutes == {"/snapshot", "/stream"}
Replies == {200, 302, 404, 503}
Open == {c \in Conns : conn[c].open}

HttpTypeOK ==
    /\ conn \in [Conns -> [open : BOOLEAN, busy : BOOLEAN, reply : Replies \cup {0}]]
    /\ hooked \subseteq Conns
    /\ count \in 0..MaxClients
    /\ apMode \in BOOLEAN

Fresh == [open |-> FALSE, busy |-> FALSE, reply |-> 0]

HttpInit ==
    /\ conn = [c \in Conns |-> Fresh]
    /\ hooked = {}
    /\ count = 0
    /\ apMode \in BOOLEAN

-----------------------------------------------------------------------------
(* health_monitor.cpp.                                                     *)

http_client_accept == count < MaxClients /\ count' = count + 1
http_client_full == count >= MaxClients /\ count' = count
http_client_release == count' = IF count > 0 THEN count - 1 ELSE count

-----------------------------------------------------------------------------
(* The handlers.                                                           *)

Connect(c) ==
    /\ ~conn[c].open
    /\ conn' = [conn EXCEPT ![c] = [Fresh EXCEPT !.open = TRUE]]
    /\ UNCHANGED <<hooked, count, apMode>>

Idle(c) == conn[c].open /\ ~conn[c].busy

\* A response that says "Connection: close" keeps the connection busy to its end.
Respond(c, status, close) ==
    conn' = [conn EXCEPT ![c].reply = status, ![c].busy = close \/ ~KeepAlive]

\* In AP mode "/" is redirected to the configuration portal before anything else.
RootRedirect(c) ==
    /\ Idle(c) /\ apMode
    /\ Respond(c, 302, FALSE)
    /\ UNCHANGED <<hooked, count, apMode>>

\* The cap is reached: 503 with Retry-After.
Refuse(c, route) ==
    /\ Idle(c) /\ ~(route = "/" /\ apMode)
    /\ http_client_full
    /\ Respond(c, 503, FALSE)
    /\ UNCHANGED <<hooked, apMode>>

\* The connection ends, and with it what was registered for it.
End(c) ==
    /\ conn' = [conn EXCEPT ![c].open = FALSE, ![c].busy = FALSE]
    /\ IF c \in hooked THEN http_client_release ELSE count' = count
    /\ hooked' = hooked \ {c}

\* Mutant: the slot of a client that has gone is kept.
GoneKeepsSlot(c, route) ==
    /\ Idle(c) /\ ~(route = "/" /\ apMode)
    /\ http_client_accept
    /\ conn' = [conn EXCEPT ![c].open = FALSE]
    /\ UNCHANGED <<hooked, apMode>>

\* The client has gone before the handler runs: the slot just taken is given back
\* at once.
Gone(c, route) ==
    /\ Idle(c) /\ ~(route = "/" /\ apMode)
    /\ count < MaxClients
    /\ End(c)
    /\ UNCHANGED apMode

StatusOf(route) ==
    CASE route = "/config" -> 302
      [] route = "other" -> IF apMode THEN 302 ELSE 404
      [] OTHER -> 200

Answer(c, route) ==
    /\ Idle(c) /\ ~(route = "/" /\ apMode)
    /\ http_client_accept
    /\ hooked' = hooked \cup {c}
    /\ Respond(c, StatusOf(route), TRUE)
    /\ UNCHANGED apMode

\* Mutant: the handler gives the slot back itself when it has no frame.
NoFrameReleases(c, route) ==
    /\ Idle(c) /\ route \in FrameRoutes
    /\ count < MaxClients /\ count' = count
    /\ hooked' = hooked \cup {c}
    /\ Respond(c, 503, FALSE)
    /\ UNCHANGED apMode

\* /snapshot and /stream without a frame, or without memory for one: the callback
\* that is already registered will give the slot back.
NoFrame(c, route) ==
    /\ Idle(c) /\ route \in FrameRoutes
    /\ http_client_accept
    /\ hooked' = hooked \cup {c}
    /\ Respond(c, 503, FALSE)
    /\ UNCHANGED apMode

\* The response has been sent, the client has closed, or the connection timed out.
Disconnect(c) ==
    /\ conn[c].open
    /\ End(c)
    /\ UNCHANGED apMode

\* task_network enters or leaves AP mode.
ModeChange == apMode' = ~apMode /\ UNCHANGED <<conn, hooked, count>>

HttpNext ==
    \/ \E c \in Conns :
         \/ Connect(c) \/ RootRedirect(c) \/ Disconnect(c)
         \/ \E r \in Routes : Refuse(c, r) \/ Gone(c, r) \/ Answer(c, r) \/ NoFrame(c, r)
    \/ ModeChange

HttpSpec == HttpInit /\ [][HttpNext]_httpVars

-----------------------------------------------------------------------------
(* Correctness.                                                            *)

\* Every slot that is taken belongs to one connection that is open and will give it
\* back: no path through a handler loses a slot or returns it twice, so that the cap
\* neither shrinks nor grows with time (web_ui_service.cpp:318-320).
SlotsAreConnections ==
    /\ count = Cardinality(hooked)
    /\ hooked \subseteq Open

\* A connection is refused for want of a slot only while that many others are being
\* served.
RefusedOnlyWhenFull ==
    [][\A c \in Conns :
         (conn'[c] # conn[c] /\ conn'[c].reply = 503 /\ conn'[c].open /\ c \notin hooked') =>
             Cardinality(Open \ {c}) >= MaxClients]_httpVars
=============================================================================

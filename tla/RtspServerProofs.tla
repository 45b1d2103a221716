-------------------------- MODULE RtspServerProofs --------------------------
(***************************************************************************)
(* Proofs about RtspServer, for any clients, cap, ports and requests.      *)
(***************************************************************************)
EXTENDS RtspServer, TLAPS

Distinct(s) == \A i, j \in 1..Len(s) : i # j => s[i] # s[j]

\* The list and the waiting line: a client is in at most one of them, once, and its
\* connection tells in which.  What is still to be read from is in the list.
ListInv ==
    /\ Distinct(backlog)
    /\ \A c \in Clients : c \in Listed <=> peer[c] \in {"open", "closed"}
    /\ \A c \in Clients : c \in Elems(backlog) <=> peer[c] = "backlog"
    /\ Elems(toRead) \subseteq Listed
    /\ pc # "read" => toRead = <<>>

\* What is not in the list has left nothing behind.
GoneInv ==
    \A c \in Clients : c \notin Listed => session[c] = NewSession /\ inbox[c] = <<>>

\* Why a session has stopped.
StopInv ==
    \A c \in Clients :
        /\ "TEARDOWN" \in Elems(inbox[c]) => bye[c]
        /\ session[c].m_stopped => bye[c] \/ peer[c] = "closed"

\* Whose the sockets are: an open one is pointed to by one session, once, or it is
\* forgotten; what a session points to is open, or no socket at all.
SocketInv ==
    /\ \A c \in Clients :
         /\ SocketsOf(c) \cap Ports \subseteq bound \ forgotten
         /\ session[c].rtp \in Ports => session[c].rtp # session[c].rtcp
         /\ \A d \in Clients \ {c} : SocketsOf(c) \cap SocketsOf(d) \cap Ports = {}
    /\ \A s \in bound \ forgotten : \E c \in Clients : s \in SocketsOf(c)
    /\ forgotten \subseteq bound /\ bound \cap Foreign = {}

\* What is known of the pointers of a session.
ScanInv ==
    \A c \in Clients :
        /\ session[c].scan = "found" => session[c].rtp \in Ports /\ session[c].rtcp \in Ports
        /\ session[c].scan = "none" =>
              session[c].rtp = NullSocket /\ session[c].rtcp = NullSocket

\* There is a session to blame for a panic.
PanicInv ==
    pc = "panic" => \E c \in Listed :
        \/ session[c].scan = "none" /\ session[c].m_streaming /\ ~session[c].tcp
        \/ session[c].scan \in {"failed", "robbed"}

-----------------------------------------------------------------------------
(* Sequences.                                                              *)

LEMMA AppendElems ==
  ASSUME NEW S, NEW s \in Seq(S), NEW x \in S
  PROVE  /\ Append(s, x) \in Seq(S)
         /\ Elems(Append(s, x)) = Elems(s) \cup {x}
         /\ x \notin Elems(s) /\ Distinct(s) => Distinct(Append(s, x))
<1>1. /\ Append(s, x) \in Seq(S) /\ Len(Append(s, x)) = Len(s) + 1
      /\ \A i \in 1..Len(s) : Append(s, x)[i] = s[i]
      /\ Append(s, x)[Len(s) + 1] = x
    OBVIOUS
<1>2. Len(s) \in Nat
    OBVIOUS
<1>3. Elems(Append(s, x)) = Elems(s) \cup {x}
    BY <1>1, <1>2 DEF Elems
<1>4. x \notin Elems(s) /\ Distinct(s) => Distinct(Append(s, x))
    BY <1>1, <1>2 DEF Elems, Distinct
<1>. QED
    BY <1>1, <1>3, <1>4

LEMMA TailElems ==
  ASSUME NEW S, NEW s \in Seq(S), s # <<>>
  PROVE  /\ Head(s) \in S /\ Tail(s) \in Seq(S)
         /\ Elems(s) = Elems(Tail(s)) \cup {Head(s)}
         /\ Distinct(s) => Distinct(Tail(s)) /\ Head(s) \notin Elems(Tail(s))
<1>1. /\ Tail(s) \in Seq(S) /\ Len(Tail(s)) = Len(s) - 1 /\ Len(s) \in Nat \ {0}
      /\ \A i \in 1..Len(s) - 1 : Tail(s)[i] = s[i + 1]
      /\ Head(s) = s[1] /\ s[1] \in S
    OBVIOUS
<1>2. \A i \in 1..Len(s) : i = 1 \/ (i - 1 \in 1..Len(s) - 1 /\ Tail(s)[i - 1] = s[i])
    BY <1>1
<1>3. Elems(s) = Elems(Tail(s)) \cup {Head(s)}
    <2>1. \A x \in Elems(s) : x \in Elems(Tail(s)) \cup {Head(s)}
        BY <1>1, <1>2 DEF Elems
    <2>2. \A x \in Elems(Tail(s)) : x \in Elems(s)
        BY <1>1 DEF Elems
    <2>3. Head(s) \in Elems(s)
        BY <1>1 DEF Elems
    <2>. QED
        BY <2>1, <2>2, <2>3
<1>4. Distinct(s) => Distinct(Tail(s)) /\ Head(s) \notin Elems(Tail(s))
    BY <1>1 DEF Distinct, Elems
<1>. QED
    BY <1>1, <1>3, <1>4

\* What a read leaves of the requests that have arrived.
LEMMA RestElems ==
  ASSUME NEW S, NEW s \in Seq(S), NEW k \in 1..Len(s)
  PROVE  /\ SubSeq(s, k + 1, Len(s)) \in Seq(S)
         /\ Elems(SubSeq(s, k + 1, Len(s))) \subseteq Elems(s)
         /\ Len(SubSeq(s, k + 1, Len(s))) = Len(s) - k
         /\ \A i \in 1..Len(s) - k : SubSeq(s, k + 1, Len(s))[i] = s[i + k]
<1>1. Len(s) \in Nat
    OBVIOUS
<1>2. /\ Len(SubSeq(s, k + 1, Len(s))) = Len(s) - k
      /\ \A i \in 1..Len(s) - k : SubSeq(s, k + 1, Len(s))[i] = s[i + k]
      /\ SubSeq(s, k + 1, Len(s)) \in Seq(S)
    BY <1>1
<1>3. Elems(SubSeq(s, k + 1, Len(s))) \subseteq Elems(s)
    BY <1>1, <1>2 DEF Elems
<1>. QED
    BY <1>2, <1>3

\* What remove_if leaves of a list when it takes one of its entries out.
LEMMA WithoutElems ==
  ASSUME NEW S, NEW s \in Seq(S), NEW i \in 1..Len(s)
  PROVE  /\ Without(s, i) \in Seq(S) /\ Len(Without(s, i)) = Len(s) - 1
         /\ Elems(s) \subseteq Elems(Without(s, i)) \cup {s[i]}
         /\ Elems(Without(s, i)) \subseteq Elems(s)
         /\ Distinct(s) => /\ Distinct(Without(s, i))
                           /\ s[i] \notin Elems(Without(s, i))
<1>. DEFINE t == Without(s, i)
<1>1. Len(s) \in Nat /\ \A j \in 1..Len(s) : s[j] \in S
    OBVIOUS
<1>2. t \in Seq(S) /\ Len(t) = Len(s) - 1
    BY <1>1 DEF Without
<1>3. \A j \in 1..Len(s) - 1 : t[j] = IF j < i THEN s[j] ELSE s[j + 1]
    BY DEF Without
<1>. HIDE DEF t
<1>4. \A j \in 1..Len(s) : j = i \/ s[j] \in Elems(t)
    <2>. TAKE j \in 1..Len(s)
    <2>1. CASE j < i
        BY <1>1, <1>2, <1>3, <2>1 DEF Elems
    <2>2. CASE j > i
        <3>1. j - 1 \in 1..Len(s) - 1 /\ ~(j - 1 < i)
            BY <1>1, <2>2
        <3>2. t[j - 1] = s[j]
            BY <1>1, <1>3, <3>1
        <3>. QED
            BY <1>2, <3>1, <3>2 DEF Elems
    <2>. QED
        BY <1>1, <2>1, <2>2
<1>5. Elems(t) \subseteq Elems(s)
    BY <1>1, <1>2, <1>3 DEF Elems
<1>6. Distinct(s) => Distinct(t) /\ s[i] \notin Elems(t)
    BY <1>1, <1>2, <1>3 DEF Distinct, Elems
<1>. QED
    BY <1>2, <1>4, <1>5, <1>6 DEF t, Elems

-----------------------------------------------------------------------------
(* Types.                                                                  *)

SessionType == [m_streaming : BOOLEAN, m_stopped : BOOLEAN, tcp : BOOLEAN,
                rtp : Pointers, rtcp : Pointers,
                scan : {"none", "found", "failed", "robbed"}]

LEMMA InitTypeOK == Init => TypeOK
BY CapAssumption DEF Init, TypeOK, NewSession, Pointers

LEMMA PairPorts == \A p \in 1..Pairs : 2 * p \in Ports /\ 2 * p + 1 \in Ports
BY PortsAssumption DEF Ports

LEMMA PortsAreNumbers ==
  /\ Ports \subseteq Int /\ NullSocket \notin Ports /\ DeletedSocket \notin Ports
  /\ NullSocket # DeletedSocket
<1>1. \A s \in Ports : s \in Int
    BY PortsAssumption DEF Ports
<1>. QED
    BY <1>1, PortsAssumption

\* What a request does to its session.
LEMMA HandleTypeOK ==
  ASSUME TypeOK, NEW c \in Clients, NEW r, Handle(c, r)
  PROVE  /\ session' \in [Clients -> SessionType]
         /\ bound' \subseteq Ports /\ forgotten' \subseteq Ports
         /\ \A d \in Clients \ {c} : session'[d] = session[d]
<1>. USE DEF TypeOK, SessionType
<1>1. CASE PairFound(c)
    <2>1. PICK p \in FreePairs :
             /\ session' = [session EXCEPT ![c] =
                   [@ EXCEPT !.tcp = FALSE, !.rtp = 2 * p, !.rtcp = 2 * p + 1, !.scan = "found"]]
             /\ forgotten' = forgotten \cup (SocketsOf(c) \cap bound)
             /\ bound' = bound \cup {2 * p, 2 * p + 1}
        BY <1>1 DEF PairFound
    <2>2. 2 * p \in Ports /\ 2 * p + 1 \in Ports
        BY PairPorts DEF FreePairs, FreeEvens
    <2>3. [session[c] EXCEPT !.tcp = FALSE, !.rtp = 2 * p, !.rtcp = 2 * p + 1, !.scan = "found"]
            \in SessionType
        BY <2>2 DEF Pointers
    <2>. QED
        BY <2>1, <2>2, <2>3
<1>2. CASE NoRtpSocket(c)
    <2>1. [session[c] EXCEPT !.tcp = FALSE, !.rtp = NullSocket, !.scan = "failed"] \in SessionType
        BY DEF Pointers
    <2>. QED
        BY <1>2, <2>1 DEF NoRtpSocket
<1>3. CASE NoRtcpSocket(c)
    <2>1. PICK p \in FreeEvens :
             session' = [session EXCEPT ![c] =
                   [@ EXCEPT !.tcp = FALSE, !.rtcp = NullSocket, !.scan = "failed",
                             !.rtp = IF p = Pairs THEN DeletedSocket ELSE NullSocket]]
        BY <1>3 DEF NoRtcpSocket
    <2>2. [session[c] EXCEPT !.tcp = FALSE, !.rtcp = NullSocket, !.scan = "failed",
                             !.rtp = IF p = Pairs THEN DeletedSocket ELSE NullSocket]
            \in SessionType
        BY DEF Pointers
    <2>. QED
        BY <1>3, <2>1, <2>2 DEF NoRtcpSocket
<1>4. CASE session' = [session EXCEPT ![c].tcp = TRUE] /\ UNCHANGED <<bound, forgotten>>
    BY <1>4
<1>5. CASE session' = [session EXCEPT ![c].m_streaming = TRUE] /\ UNCHANGED <<bound, forgotten>>
    BY <1>5
<1>6. CASE session' = [session EXCEPT ![c].m_stopped = TRUE] /\ UNCHANGED <<bound, forgotten>>
    BY <1>6
<1>7. CASE UNCHANGED socketVars
    BY <1>7 DEF socketVars
<1>. QED
    BY <1>1, <1>2, <1>3, <1>4, <1>5, <1>6, <1>7 DEF Handle, InitTransport

LEMMA RobbedTypeOK ==
  ASSUME TypeOK, NEW d \in Clients, NEW S
  PROVE  Robbed(d, S) \in SessionType
BY DEF TypeOK, SessionType, Robbed, Pointers

\* What the end of a session does to the sockets and to the other sessions.
LEMMA DestroyTypeOK ==
  ASSUME TypeOK, NEW c \in Clients, Destroy(c)
  PROVE  /\ session' \in [Clients -> SessionType]
         /\ bound' \subseteq Ports /\ forgotten' \subseteq Ports
         /\ session'[c] = NewSession
         /\ \E S \in SUBSET bound :
              /\ S # {} => Dangles(c)
              /\ S \cap SocketsOf(c) = {}
              /\ bound' = bound \ (SocketsOf(c) \cup S)
              /\ forgotten' = forgotten \ S
              /\ \A d \in Clients \ {c} : session'[d] = Robbed(d, S)
<1>1. PICK S \in Robberies(c) :
         /\ session' = [d \in Clients |-> IF d = c THEN NewSession ELSE Robbed(d, S)]
         /\ bound' = bound \ (SocketsOf(c) \cup S)
         /\ forgotten' = forgotten \ S
    BY DEF Destroy
<1>2. S \subseteq bound /\ S \cap SocketsOf(c) = {} /\ (S # {} => Dangles(c))
    BY DEF Robberies
<1>3. NewSession \in SessionType
    BY DEF NewSession, SessionType, Pointers
<1>. QED
    BY <1>1, <1>2, <1>3, RobbedTypeOK DEF TypeOK

LEMMA StepTypeOK == TypeOK /\ [Next]_vars => TypeOK'
<1>. SUFFICES ASSUME TypeOK, [Next]_vars PROVE TypeOK'
    OBVIOUS
<1>. USE CapAssumption DEF peerVars, serverVars, socketVars
<1>1. ASSUME NEW c \in Clients, Connect(c) PROVE TypeOK'
    BY <1>1, AppendElems DEF TypeOK, Connect
<1>2. ASSUME NEW c \in Clients, Send(c) PROVE TypeOK'
    <2>1. PICK r \in Requests :
             /\ inbox' = [inbox EXCEPT ![c] = Append(@, r)]
             /\ bye' = [bye EXCEPT ![c] = @ \/ r = "TEARDOWN"]
        BY <1>2 DEF Send
    <2>2. Append(inbox[c], r) \in Seq(Requests)
        BY AppendElems DEF TypeOK
    <2>. QED
        BY <1>2, <2>1, <2>2 DEF TypeOK, Send
<1>3. ASSUME NEW c \in Clients, Close(c) PROVE TypeOK'
    BY <1>3 DEF TypeOK, Close
<1>4. CASE AcceptGuarded
    BY <1>4, TailElems DEF TypeOK, AcceptGuarded, TurnAway, rtsp_client_accept,
                           rtsp_client_release
<1>5. CASE Accept
    BY <1>5, TailElems, AppendElems DEF TypeOK, Accept, rtsp_client_accept, NewSession,
                                        Pointers
<1>6. CASE Reject
    BY <1>6, TailElems DEF TypeOK, Reject, TurnAway
<1>7. CASE AcceptNobody
    BY <1>7 DEF TypeOK, AcceptNobody
<1>8. CASE ReadClosed
    <2>1. Head(toRead) \in Clients /\ toRead' \in Seq(Clients)
        BY <1>8, TailElems DEF TypeOK, ReadClosed
    <2>2. session' = [session EXCEPT ![Head(toRead)].m_stopped = TRUE]
        BY <1>8 DEF ReadClosed
    <2>3. session' \in [Clients -> SessionType]
        BY <2>1, <2>2 DEF TypeOK, SessionType
    <2>. QED
        BY <1>8, <2>1, <2>3 DEF TypeOK, ReadClosed, SessionType
<1>9. CASE ReadRequest
    <2>. DEFINE c == Head(toRead)
    <2>1. c \in Clients /\ toRead' \in Seq(Clients)
        BY <1>9, TailElems DEF TypeOK, ReadRequest
    <2>2. PICK k \in 1..Len(inbox[c]) :
             inbox' = [inbox EXCEPT ![c] = SubSeq(@, k + 1, Len(@))]
        BY <1>9 DEF ReadRequest
    <2>3. inbox' \in [Clients -> Seq(Requests)]
        BY <2>1, <2>2, RestElems DEF TypeOK
    <2>4. /\ session' \in [Clients -> SessionType]
          /\ bound' \subseteq Ports /\ forgotten' \subseteq Ports
        BY <1>9, <2>1, HandleTypeOK DEF ReadRequest
    <2>. QED
        BY <1>9, <2>1, <2>3, <2>4 DEF TypeOK, ReadRequest, SessionType
<1>10. CASE ReadNothing
    BY <1>10, TailElems DEF TypeOK, ReadNothing
<1>11. CASE ReadAll
    BY <1>11 DEF TypeOK, ReadAll
<1>12. CASE RemoveStopped
    <2>1. PICK i \in 1..Len(clients) :
             /\ clients' = Without(clients, i)
             /\ Destroy(clients[i])
             /\ peer' = [peer EXCEPT ![clients[i]] = "away"]
             /\ inbox' = [inbox EXCEPT ![clients[i]] = <<>>]
             /\ bye' = [bye EXCEPT ![clients[i]] = FALSE]
        BY <1>12 DEF RemoveStopped
    <2>2. clients' \in Seq(Clients) /\ clients[i] \in Clients
        BY <2>1, WithoutElems DEF TypeOK
    <2>3. /\ session' \in [Clients -> SessionType]
          /\ bound' \subseteq Ports /\ forgotten' \subseteq Ports
        BY <2>1, <2>2, DestroyTypeOK
    <2>4. /\ peer' \in [Clients -> {"away", "backlog", "open", "closed"}]
          /\ inbox' \in [Clients -> Seq(Requests)] /\ bye' \in [Clients -> BOOLEAN]
        BY <2>1, <2>2 DEF TypeOK
    <2>5. count' \in 0..MaxClients /\ UNCHANGED <<backlog, pc, toRead>>
        BY <1>12 DEF TypeOK, RemoveStopped, rtsp_client_release
    <2>. QED
        BY <2>2, <2>3, <2>4, <2>5 DEF TypeOK, SessionType
<1>13. CASE RemoveNoMore
    BY <1>13 DEF TypeOK, RemoveNoMore
<1>14. CASE DestroyPanics \/ BroadcastPanics
    BY <1>14 DEF TypeOK, DestroyPanics, BroadcastPanics
<1>15. CASE Reboot
    BY <1>15, InitTypeOK DEF TypeOK, Reboot, NewSession, Pointers
<1>16. CASE UNCHANGED vars
    BY <1>16 DEF TypeOK, vars
<1>. QED
    BY <1>1, <1>2, <1>3, <1>4, <1>5, <1>6, <1>7, <1>8, <1>9, <1>10, <1>11, <1>12, <1>13,
       <1>14, <1>15, <1>16 DEF Next

\* Every variable keeps its type: the lists hold clients, the counter stays in
\* 0..MaxClients, every session has the shape of a CRtspSession.
THEOREM TypeCorrect == Spec => []TypeOK
BY InitTypeOK, StepTypeOK, PTL DEF Spec

-----------------------------------------------------------------------------
(* The list and its slots.                                                 *)

LEMMA InitList == Init => ListInv /\ SlotsAreSessions
BY CapAssumption DEF Init, ListInv, SlotsAreSessions, Distinct, Elems, Listed

\* What is known of a client at the head of the waiting line.
LEMMA HeadOfBacklog ==
  ASSUME TypeOK, ListInv, backlog # <<>>
  PROVE  /\ Head(backlog) \in Clients /\ Tail(backlog) \in Seq(Clients)
         /\ peer[Head(backlog)] = "backlog" /\ Head(backlog) \notin Listed
         /\ Distinct(Tail(backlog))
         /\ Elems(Tail(backlog)) = Elems(backlog) \ {Head(backlog)}
<1>1. /\ Head(backlog) \in Clients /\ Tail(backlog) \in Seq(Clients)
      /\ Elems(backlog) = Elems(Tail(backlog)) \cup {Head(backlog)}
      /\ Distinct(Tail(backlog)) /\ Head(backlog) \notin Elems(Tail(backlog))
    BY TailElems DEF TypeOK, ListInv
<1>2. peer[Head(backlog)] = "backlog"
    BY <1>1 DEF ListInv
<1>. QED
    BY <1>1, <1>2 DEF ListInv

\* What is known of the session client_handler is about to read from.
LEMMA HeadOfToRead ==
  ASSUME TypeOK, ListInv, toRead # <<>>
  PROVE  /\ Head(toRead) \in Clients /\ Head(toRead) \in Listed
         /\ Elems(Tail(toRead)) \subseteq Listed
BY TailElems DEF TypeOK, ListInv

\* A session that remove_if takes out.
LEMMA Removed ==
  ASSUME TypeOK, ListInv, SlotsAreSessions, RemoveStopped
  PROVE  \E c \in Clients :
           /\ c \in Listed /\ session[c].m_stopped
           /\ Listed' = Listed \ {c} /\ Len(clients') = Len(clients) - 1
           /\ Distinct(clients') /\ Len(clients) # 0
           /\ Destroy(c)
           /\ peer' = [peer EXCEPT ![c] = "away"]
           /\ inbox' = [inbox EXCEPT ![c] = <<>>]
           /\ bye' = [bye EXCEPT ![c] = FALSE]
<1>1. PICK i \in 1..Len(clients) :
         /\ clients[i] \in Stopped
         /\ clients' = Without(clients, i)
         /\ Destroy(clients[i])
         /\ peer' = [peer EXCEPT ![clients[i]] = "away"]
         /\ inbox' = [inbox EXCEPT ![clients[i]] = <<>>]
         /\ bye' = [bye EXCEPT ![clients[i]] = FALSE]
    BY DEF RemoveStopped, FirstStopped
<1>2. clients[i] \in Clients /\ clients[i] \in Listed /\ Len(clients) # 0
    BY DEF TypeOK, Listed, Elems
<1>3. /\ Len(Without(clients, i)) = Len(clients) - 1
      /\ Elems(clients) \subseteq Elems(Without(clients, i)) \cup {clients[i]}
      /\ Elems(Without(clients, i)) \subseteq Elems(clients)
      /\ Distinct(Without(clients, i))
      /\ clients[i] \notin Elems(Without(clients, i))
    BY WithoutElems DEF TypeOK, SlotsAreSessions, Distinct
<1>4. Elems(Without(clients, i)) = Elems(clients) \ {clients[i]}
    BY <1>3
<1>. QED
    BY <1>1, <1>2, <1>3, <1>4 DEF Listed, Stopped

LEMMA StepList ==
  ASSUME TypeOK, ListInv, SlotsAreSessions, [Next]_vars
  PROVE  ListInv' /\ SlotsAreSessions'
<1>. USE CapAssumption DEF peerVars, serverVars, socketVars
<1>0. Distinct(clients)
    BY DEF SlotsAreSessions, Distinct
<1>1. ASSUME NEW c \in Clients, Connect(c) PROVE ListInv' /\ SlotsAreSessions'
    <2>1. /\ c \notin Elems(backlog) /\ Distinct(backlog')
          /\ Elems(backlog') = Elems(backlog) \cup {c}
        BY <1>1, AppendElems DEF TypeOK, ListInv, Connect
    <2>2. \A d \in Clients : peer'[d] = IF d = c THEN "backlog" ELSE peer[d]
        BY <1>1 DEF TypeOK, Connect
    <2>. QED
        BY <1>1, <2>1, <2>2 DEF ListInv, SlotsAreSessions, Connect, Listed
<1>2. ASSUME NEW c \in Clients, Send(c) PROVE ListInv' /\ SlotsAreSessions'
    BY <1>2 DEF Send, ListInv, SlotsAreSessions, Listed
<1>3. ASSUME NEW c \in Clients, Close(c) PROVE ListInv' /\ SlotsAreSessions'
    BY <1>3 DEF TypeOK, Close, ListInv, SlotsAreSessions, Listed
<1>4. ASSUME backlog # <<>>, TurnAway(Head(backlog)), backlog' = Tail(backlog),
             UNCHANGED <<clients, count>>,
             Elems(toRead') \subseteq Listed, pc' # "read" => toRead' = <<>>
      PROVE  ListInv' /\ SlotsAreSessions'
    <2>1. \A d \in Clients : peer'[d] = IF d = Head(backlog) THEN "away" ELSE peer[d]
        BY <1>4, HeadOfBacklog DEF TypeOK, TurnAway
    <2>2. Listed' = Listed
        BY <1>4 DEF Listed
    <2>. QED
        BY <1>4, <2>1, <2>2, HeadOfBacklog DEF ListInv, SlotsAreSessions
<1>5. CASE AcceptGuarded
    BY <1>4, <1>5 DEF AcceptGuarded, ListInv, TypeOK, rtsp_client_release
<1>6. CASE Accept
    <2>. DEFINE c == Head(backlog)
    <2>1. \A d \in Clients : peer'[d] = IF d = c THEN "open" ELSE peer[d]
        BY <1>6 DEF TypeOK, Accept
    <2>2. /\ Elems(clients') = Elems(clients) \cup {c} /\ Distinct(clients')
          /\ Len(clients') = Len(clients) + 1
        BY <1>0, <1>6, AppendElems, HeadOfBacklog DEF TypeOK, Accept, Listed
    <2>3. count' = count + 1 /\ count' <= MaxClients
        BY <1>6 DEF Accept, TypeOK, rtsp_client_accept
    <2>4. SlotsAreSessions'
        BY <2>2, <2>3 DEF SlotsAreSessions, Distinct
    <2>. QED
        BY <1>6, <2>1, <2>2, <2>4, HeadOfBacklog DEF ListInv, Accept, Listed
<1>7. CASE Reject
    BY <1>4, <1>7 DEF Reject, Listed
<1>8. CASE AcceptNobody
    BY <1>8 DEF AcceptNobody, ListInv, SlotsAreSessions, Listed
<1>9. ASSUME pc = "read", toRead # <<>>, toRead' = Tail(toRead),
             UNCHANGED <<peer, backlog, pc, clients, count>>
      PROVE  ListInv' /\ SlotsAreSessions'
    BY <1>9, HeadOfToRead DEF ListInv, SlotsAreSessions, Listed
<1>10. CASE ReadClosed \/ ReadRequest \/ ReadNothing
    BY <1>9, <1>10 DEF ReadClosed, ReadRequest, ReadNothing
<1>11. CASE ReadAll
    BY <1>11 DEF ReadAll, ListInv, SlotsAreSessions, Listed
<1>12. CASE RemoveStopped
    <2>1. PICK c \in Clients :
             /\ Listed' = Listed \ {c} /\ Len(clients') = Len(clients) - 1
             /\ Distinct(clients') /\ Len(clients) # 0
             /\ peer' = [peer EXCEPT ![c] = "away"] /\ c \in Listed
        BY <1>12, Removed
    <2>2. \A d \in Clients : peer'[d] = IF d = c THEN "away" ELSE peer[d]
        BY <2>1 DEF TypeOK
    <2>3. count' = count - 1
        BY <1>12, <2>1 DEF RemoveStopped, rtsp_client_release, SlotsAreSessions, TypeOK
    <2>4. SlotsAreSessions'
        BY <2>1, <2>3 DEF SlotsAreSessions, Distinct, TypeOK
    <2>5. toRead' = <<>> /\ UNCHANGED <<backlog, pc>>
        BY <1>12 DEF RemoveStopped, ListInv
    <2>. QED
        BY <2>1, <2>2, <2>4, <2>5 DEF ListInv, Elems
<1>13. CASE RemoveNoMore
    BY <1>13 DEF RemoveNoMore, ListInv, SlotsAreSessions, Listed
<1>14. CASE DestroyPanics \/ BroadcastPanics
    BY <1>14 DEF DestroyPanics, BroadcastPanics, ListInv, SlotsAreSessions, Listed
<1>15. CASE Reboot
    BY <1>15 DEF Reboot, ListInv, SlotsAreSessions, Distinct, Elems, Listed
<1>16. CASE UNCHANGED vars
    BY <1>16 DEF vars, ListInv, SlotsAreSessions, Listed
<1>. QED
    BY <1>1, <1>2, <1>3, <1>5, <1>6, <1>7, <1>8, <1>10, <1>11, <1>12, <1>13, <1>14, <1>15,
       <1>16 DEF Next

\* The counter that admits clients counts exactly the sessions of the server: no path
\* through client_handler loses a slot or gives one back twice.
THEOREM SlotsAreKept == Spec => []SlotsAreSessions
<1>1. Init => TypeOK /\ ListInv /\ SlotsAreSessions
    BY InitTypeOK, InitList
<1>2. TypeOK /\ ListInv /\ SlotsAreSessions /\ [Next]_vars
        => (TypeOK /\ ListInv /\ SlotsAreSessions)'
    BY StepTypeOK, StepList
<1>. QED
    BY <1>1, <1>2, PTL DEF Spec

-----------------------------------------------------------------------------
(* Sessions.                                                               *)

\* What one request does: it leaves the sockets alone or goes through a scan.
LEMMA HandleEffect ==
  ASSUME TypeOK, NEW c \in Clients, NEW r, Handle(c, r)
  PROVE  /\ session'[c].m_stopped => session[c].m_stopped \/ r = "TEARDOWN"
         /\ \/ PairFound(c) \/ NoRtpSocket(c) \/ NoRtcpSocket(c)
            \/ /\ session'[c].rtp = session[c].rtp /\ session'[c].rtcp = session[c].rtcp
               /\ session'[c].scan = session[c].scan
               /\ UNCHANGED <<bound, forgotten>>
<1>1. session[c] \in SessionType
    BY DEF TypeOK, SessionType
<1>. USE DEF TypeOK, SessionType
<1>2. CASE PairFound(c)
    <2>1. session'[c].m_stopped = session[c].m_stopped
        BY <1>1, <1>2 DEF PairFound
    <2>. QED
        BY <1>2, <2>1
<1>3. CASE NoRtpSocket(c)
    <2>1. session'[c].m_stopped = session[c].m_stopped
        BY <1>1, <1>3 DEF NoRtpSocket
    <2>. QED
        BY <1>3, <2>1
<1>4. CASE NoRtcpSocket(c)
    <2>1. session'[c].m_stopped = session[c].m_stopped
        BY <1>1, <1>4 DEF NoRtcpSocket
    <2>. QED
        BY <1>4, <2>1
<1>5. CASE session' = [session EXCEPT ![c].tcp = TRUE] /\ UNCHANGED <<bound, forgotten>>
    BY <1>1, <1>5
<1>6. CASE session' = [session EXCEPT ![c].m_streaming = TRUE] /\ UNCHANGED <<bound, forgotten>>
    BY <1>1, <1>6
<1>7. CASE r = "TEARDOWN" /\ session' = [session EXCEPT ![c].m_stopped = TRUE]
           /\ UNCHANGED <<bound, forgotten>>
    BY <1>1, <1>7
<1>8. CASE UNCHANGED socketVars
    BY <1>1, <1>8 DEF socketVars
<1>. QED
    BY <1>2, <1>3, <1>4, <1>5, <1>6, <1>7, <1>8 DEF Handle, InitTransport

\* What one read does: the request at the head is handled, it and perhaps more are gone.
LEMMA ReadEffect ==
  ASSUME TypeOK, ListInv, ReadRequest
  PROVE  \E c \in Clients, r \in Requests :
           /\ c \in Listed /\ Handle(c, r) /\ r \in Elems(inbox[c])
           /\ \A d \in Clients \ {c} : inbox'[d] = inbox[d]
           /\ Elems(inbox'[c]) \subseteq Elems(inbox[c])
<1>. DEFINE c == Head(toRead)
<1>1. c \in Clients /\ c \in Listed
    BY HeadOfToRead DEF ReadRequest
<1>2. inbox[c] # <<>> /\ inbox[c] \in Seq(Requests) /\ Handle(c, Head(inbox[c]))
    BY <1>1 DEF ReadRequest, TypeOK
<1>3. PICK k \in 1..Len(inbox[c]) :
         inbox' = [inbox EXCEPT ![c] = SubSeq(@, k + 1, Len(@))]
    BY DEF ReadRequest
<1>4. Head(inbox[c]) \in Requests /\ Head(inbox[c]) \in Elems(inbox[c])
    BY <1>2, TailElems
<1>5. /\ \A d \in Clients \ {c} : inbox'[d] = inbox[d]
      /\ inbox'[c] = SubSeq(inbox[c], k + 1, Len(inbox[c]))
    BY <1>1, <1>3 DEF TypeOK
<1>6. Elems(inbox'[c]) \subseteq Elems(inbox[c])
    BY <1>2, <1>5, RestElems
<1>. QED
    BY <1>1, <1>2, <1>4, <1>5, <1>6

\* The end of a session leaves the others theirs, but for sockets closed in the place of
\* a deleted one.
LEMMA RemoveEffect ==
  ASSUME TypeOK, ListInv, SlotsAreSessions, RemoveStopped
  PROVE  \E c \in Clients, S \in SUBSET bound :
           /\ c \in Listed /\ Listed' = Listed \ {c}
           /\ session[c].m_stopped /\ session'[c] = NewSession
           /\ inbox'[c] = <<>> /\ peer'[c] = "away" /\ ~bye'[c]
           /\ \A d \in Clients \ {c} :
                /\ session'[d] = Robbed(d, S)
                /\ inbox'[d] = inbox[d] /\ peer'[d] = peer[d] /\ bye'[d] = bye[d]
           /\ S # {} => Dangles(c)
           /\ S \cap SocketsOf(c) = {}
           /\ bound' = bound \ (SocketsOf(c) \cup S)
           /\ forgotten' = forgotten \ S
<1>1. PICK c \in Clients :
         /\ c \in Listed /\ session[c].m_stopped /\ Listed' = Listed \ {c}
         /\ Destroy(c)
         /\ peer' = [peer EXCEPT ![c] = "away"]
         /\ inbox' = [inbox EXCEPT ![c] = <<>>]
         /\ bye' = [bye EXCEPT ![c] = FALSE]
    BY Removed
<1>2. PICK S \in SUBSET bound :
         /\ S # {} => Dangles(c)
         /\ S \cap SocketsOf(c) = {}
         /\ bound' = bound \ (SocketsOf(c) \cup S)
         /\ forgotten' = forgotten \ S
         /\ \A d \in Clients \ {c} : session'[d] = Robbed(d, S)
    BY <1>1, DestroyTypeOK
<1>3. session'[c] = NewSession
    BY <1>1, DestroyTypeOK
<1>4. /\ inbox'[c] = <<>> /\ peer'[c] = "away" /\ ~bye'[c]
      /\ \A d \in Clients \ {c} :
           inbox'[d] = inbox[d] /\ peer'[d] = peer[d] /\ bye'[d] = bye[d]
    BY <1>1 DEF TypeOK
<1>. QED
    BY <1>1, <1>2, <1>3, <1>4

\* A socket of another is closed: what that does to a session.
LEMMA RobbedSession ==
  ASSUME TypeOK, NEW d \in Clients, NEW S \in SUBSET bound
  PROVE  /\ Robbed(d, S).m_stopped = session[d].m_stopped
         /\ Robbed(d, S).rtp = IF session[d].rtp \in S THEN DeletedSocket ELSE session[d].rtp
         /\ Robbed(d, S).rtcp = IF session[d].rtcp \in S THEN DeletedSocket ELSE session[d].rtcp
         /\ Robbed(d, S).scan = IF SocketsOf(d) \cap S # {} THEN "robbed" ELSE session[d].scan
         /\ session[d] = NewSession => Robbed(d, S) = NewSession
<1>1. session[d] \in SessionType
    BY DEF TypeOK, SessionType
<1>2. NullSocket \notin S
    BY PortsAreNumbers DEF TypeOK
<1>3. session[d] = NewSession => SocketsOf(d) = {NullSocket}
    BY DEF SocketsOf, NewSession
<1>4. ASSUME session[d] = NewSession PROVE Robbed(d, S) = NewSession
    <2>1. SocketsOf(d) \cap S = {} /\ session[d].rtp \notin S /\ session[d].rtcp \notin S
        BY <1>2, <1>3, <1>4 DEF SocketsOf
    <2>2. Robbed(d, S) = [session[d] EXCEPT !.rtp = session[d].rtp, !.rtcp = session[d].rtcp,
                                            !.scan = session[d].scan]
        BY <1>1, <1>4, <2>1 DEF Robbed, SessionType
    <2>. QED
        BY <1>1, <1>4, <2>2 DEF SessionType
<1>. QED
    BY <1>1, <1>4 DEF Robbed, SessionType

LEMMA StepGone ==
  ASSUME TypeOK, ListInv, SlotsAreSessions, GoneInv, [Next]_vars
  PROVE  GoneInv'
<1>. USE DEF peerVars, serverVars, socketVars
<1>1. ASSUME NEW c \in Clients, Send(c) PROVE GoneInv'
    <2>1. c \in Listed
        BY <1>1 DEF Send, ListInv
    <2>. QED
        BY <1>1, <2>1 DEF Send, GoneInv, TypeOK, Listed
<1>2. CASE AcceptGuarded \/ Reject
    BY <1>2, HeadOfBacklog DEF AcceptGuarded, Reject, TurnAway, GoneInv, TypeOK, Listed
<1>3. CASE Accept
    <2>1. Head(backlog) \in Clients /\ Listed' = Listed \cup {Head(backlog)}
        BY <1>3, HeadOfBacklog, AppendElems DEF Accept, TypeOK, Listed
    <2>. QED
        BY <1>3, <2>1 DEF Accept, GoneInv, TypeOK
<1>4. CASE ReadClosed
    <2>1. Head(toRead) \in Listed
        BY <1>4, HeadOfToRead DEF ReadClosed
    <2>. QED
        BY <1>4, <2>1 DEF ReadClosed, GoneInv, TypeOK, Listed
<1>5. CASE ReadRequest
    <2>1. PICK c \in Clients, r \in Requests :
             /\ c \in Listed /\ Handle(c, r)
             /\ \A d \in Clients \ {c} : inbox'[d] = inbox[d]
        BY <1>5, ReadEffect
    <2>2. \A d \in Clients \ {c} : session'[d] = session[d]
        BY <2>1, HandleTypeOK
    <2>3. Listed' = Listed
        BY <1>5 DEF ReadRequest, Listed
    <2>. QED
        BY <2>1, <2>2, <2>3 DEF GoneInv
<1>6. CASE RemoveStopped
    <2>1. PICK c \in Clients, S \in SUBSET bound :
             /\ Listed' = Listed \ {c} /\ session'[c] = NewSession /\ inbox'[c] = <<>>
             /\ \A d \in Clients \ {c} : session'[d] = Robbed(d, S) /\ inbox'[d] = inbox[d]
        BY <1>6, RemoveEffect
    <2>. QED
        BY <2>1, RobbedSession DEF GoneInv
<1>7. CASE Reboot
    BY <1>7 DEF Reboot, GoneInv
<1>8. CASE UNCHANGED <<clients, session, inbox>>
    BY <1>8 DEF GoneInv, Listed
<1>9. CASE \/ \E c \in Clients : Connect(c) \/ Close(c)
           \/ AcceptNobody \/ ReadNothing \/ ReadAll \/ RemoveNoMore
           \/ DestroyPanics \/ BroadcastPanics \/ UNCHANGED vars
    BY <1>8, <1>9 DEF Connect, Close, AcceptNobody, ReadNothing, ReadAll, RemoveNoMore,
                      DestroyPanics, BroadcastPanics, vars
<1>. QED
    BY <1>1, <1>2, <1>3, <1>4, <1>5, <1>6, <1>7, <1>9 DEF Next

LEMMA StepStop ==
  ASSUME TypeOK, ListInv, SlotsAreSessions, GoneInv, StopInv, [Next]_vars
  PROVE  StopInv'
<1>. USE DEF peerVars, serverVars, socketVars
<1>1. ASSUME NEW c \in Clients, Connect(c) PROVE StopInv'
    <2>1. /\ \A d \in Clients \ {c} : peer'[d] = peer[d]
          /\ c \notin Listed /\ UNCHANGED <<session, inbox, bye>>
        BY <1>1 DEF Connect, TypeOK
    <2>2. ~session[c].m_stopped
        BY <2>1 DEF GoneInv, NewSession
    <2>. QED
        BY <2>1, <2>2 DEF StopInv
<1>2. ASSUME NEW c \in Clients, Send(c) PROVE StopInv'
    <2>1. PICK r \in Requests :
             /\ inbox' = [inbox EXCEPT ![c] = Append(@, r)]
             /\ bye' = [bye EXCEPT ![c] = @ \/ r = "TEARDOWN"]
        BY <1>2 DEF Send
    <2>2. /\ UNCHANGED <<session, peer>>
          /\ \A d \in Clients \ {c} : bye'[d] = bye[d] /\ inbox'[d] = inbox[d]
          /\ bye'[c] = (bye[c] \/ r = "TEARDOWN")
        BY <1>2, <2>1 DEF Send, TypeOK
    <2>3. Elems(inbox'[c]) = Elems(inbox[c]) \cup {r}
        BY <2>1, AppendElems DEF TypeOK
    <2>. QED
        BY <2>2, <2>3 DEF StopInv
<1>3. ASSUME NEW c \in Clients, Close(c) PROVE StopInv'
    BY <1>3 DEF Close, StopInv, TypeOK
<1>4. CASE AcceptGuarded \/ Reject
    <2>. DEFINE c == Head(backlog)
    <2>1. c \in Clients /\ c \notin Listed
        BY <1>4, HeadOfBacklog DEF AcceptGuarded, Reject
    <2>2. /\ \A d \in Clients \ {c} : peer'[d] = peer[d] /\ inbox'[d] = inbox[d]
          /\ inbox'[c] = <<>> /\ UNCHANGED <<session, bye>>
        BY <1>4, <2>1 DEF AcceptGuarded, Reject, TurnAway, TypeOK
    <2>3. ~session[c].m_stopped /\ Elems(<<>>) = {}
        BY <2>1 DEF GoneInv, NewSession, Elems
    <2>. QED
        BY <2>1, <2>2, <2>3 DEF StopInv
<1>5. CASE Accept
    <2>. DEFINE c == Head(backlog)
    <2>1. c \in Clients
        BY <1>5, HeadOfBacklog DEF Accept
    <2>2. /\ \A d \in Clients \ {c} : peer'[d] = peer[d] /\ session'[d] = session[d]
          /\ ~session'[c].m_stopped /\ UNCHANGED <<inbox, bye>>
        BY <1>5, <2>1 DEF Accept, TypeOK, NewSession
    <2>. QED
        BY <2>1, <2>2 DEF StopInv
<1>6. CASE ReadClosed
    <2>1. Head(toRead) \in Clients
        BY <1>6, HeadOfToRead DEF ReadClosed
    <2>2. \A d \in Clients \ {Head(toRead)} : session'[d] = session[d]
        BY <1>6, <2>1 DEF ReadClosed, TypeOK
    <2>. QED
        BY <1>6, <2>1, <2>2 DEF ReadClosed, StopInv
<1>7. CASE ReadRequest
    <2>1. PICK c \in Clients, r \in Requests :
             /\ Handle(c, r) /\ r \in Elems(inbox[c])
             /\ \A d \in Clients \ {c} : inbox'[d] = inbox[d]
             /\ Elems(inbox'[c]) \subseteq Elems(inbox[c])
        BY <1>7, ReadEffect
    <2>2. \A d \in Clients \ {c} : session'[d] = session[d]
        BY <2>1, HandleTypeOK
    <2>3. session'[c].m_stopped => session[c].m_stopped \/ r = "TEARDOWN"
        BY <2>1, HandleEffect
    <2>4. UNCHANGED <<peer, bye>>
        BY <1>7 DEF ReadRequest
    <2>. QED
        BY <2>1, <2>2, <2>3, <2>4 DEF StopInv
<1>8. CASE RemoveStopped
    <2>1. PICK c \in Clients, S \in SUBSET bound :
             /\ session'[c] = NewSession /\ inbox'[c] = <<>>
             /\ \A d \in Clients \ {c} :
                  /\ session'[d] = Robbed(d, S)
                  /\ inbox'[d] = inbox[d] /\ peer'[d] = peer[d] /\ bye'[d] = bye[d]
        BY <1>8, RemoveEffect
    <2>2. \A d \in Clients \ {c} : session'[d].m_stopped = session[d].m_stopped
        BY <2>1, RobbedSession
    <2>3. ~session'[c].m_stopped /\ Elems(inbox'[c]) = {}
        BY <2>1 DEF NewSession, Elems
    <2>. QED
        BY <2>1, <2>2, <2>3 DEF StopInv
<1>9. CASE Reboot
    BY <1>9 DEF Reboot, StopInv, NewSession, Elems
<1>10. CASE UNCHANGED <<peer, bye, session, inbox>>
    BY <1>10 DEF StopInv
<1>11. CASE \/ AcceptNobody \/ ReadNothing \/ ReadAll \/ RemoveNoMore
            \/ DestroyPanics \/ BroadcastPanics \/ UNCHANGED vars
    BY <1>10, <1>11 DEF AcceptNobody, ReadNothing, ReadAll, RemoveNoMore, DestroyPanics,
                        BroadcastPanics, vars
<1>. QED
    BY <1>1, <1>2, <1>3, <1>4, <1>5, <1>6, <1>7, <1>8, <1>9, <1>11 DEF Next

-----------------------------------------------------------------------------
(* Sockets.                                                                *)

\* A session whose pointers stay as they are, among sockets that stay as they are.
LEMMA SameSockets ==
  ASSUME SocketInv, ScanInv, UNCHANGED <<bound, forgotten>>,
         \A c \in Clients : /\ session'[c].rtp = session[c].rtp
                            /\ session'[c].rtcp = session[c].rtcp
                            /\ session'[c].scan = session[c].scan
  PROVE  SocketInv' /\ ScanInv'
<1>1. \A c \in Clients : SocketsOf(c)' = SocketsOf(c)
    BY DEF SocketsOf
<1>. QED
    BY <1>1 DEF SocketInv, ScanInv

\* A scan that finds a pair.
LEMMA StepPairFound ==
  ASSUME TypeOK, SocketInv, ScanInv, NEW c \in Clients, PairFound(c)
  PROVE  SocketInv' /\ ScanInv'
<1>1. PICK p \in FreePairs :
         /\ session' = [session EXCEPT ![c] =
               [@ EXCEPT !.tcp = FALSE, !.rtp = 2 * p, !.rtcp = 2 * p + 1, !.scan = "found"]]
         /\ forgotten' = forgotten \cup (SocketsOf(c) \cap bound)
         /\ bound' = bound \cup {2 * p, 2 * p + 1}
    BY DEF PairFound
<1>. DEFINE rtp == 2 * p
            rtcp == 2 * p + 1
<1>2. /\ rtp \in Ports /\ rtcp \in Ports /\ rtp # rtcp
      /\ rtp \notin bound /\ rtcp \notin bound /\ rtp \notin Foreign /\ rtcp \notin Foreign
    BY PairPorts, PortsAssumption DEF FreePairs, FreeEvens, PortsInUse
<1>3. /\ session'[c].rtp = rtp /\ session'[c].rtcp = rtcp /\ session'[c].scan = "found"
      /\ \A d \in Clients \ {c} : session'[d] = session[d]
    BY <1>1 DEF TypeOK
<1>. HIDE DEF rtp, rtcp
<1>4. /\ SocketsOf(c)' = {rtp, rtcp}
      /\ \A d \in Clients \ {c} : SocketsOf(d)' = SocketsOf(d)
    BY <1>3 DEF SocketsOf
<1>5. /\ forgotten' = forgotten \cup (SocketsOf(c) \cap bound)
      /\ bound' = bound \cup {rtp, rtcp}
    BY <1>1 DEF rtp, rtcp
<1>6. SocketInv'
    <2>1. ASSUME NEW d \in Clients
          PROVE  /\ SocketsOf(d)' \cap Ports \subseteq bound' \ forgotten'
                 /\ session'[d].rtp \in Ports => session'[d].rtp # session'[d].rtcp
                 /\ \A e \in Clients \ {d} : SocketsOf(d)' \cap SocketsOf(e)' \cap Ports = {}
        <3>1. CASE d = c
            BY <1>2, <1>3, <1>4, <1>5, <3>1 DEF SocketInv
        <3>2. CASE d # c
            <4>1. SocketsOf(d)' = SocketsOf(d) /\ SocketsOf(d) \cap Ports \subseteq bound \ forgotten
                BY <1>4, <3>2 DEF SocketInv
            <4>2. SocketsOf(d) \cap SocketsOf(c) \cap Ports = {}
                BY <3>2 DEF SocketInv
            <4>3. SocketsOf(d)' \cap Ports \subseteq bound' \ forgotten'
                BY <1>5, <4>1, <4>2
            <4>4. \A e \in Clients \ {d} : SocketsOf(d)' \cap SocketsOf(e)' \cap Ports = {}
                BY <1>2, <1>4, <4>1 DEF SocketInv
            <4>. QED
                BY <1>3, <3>2, <4>3, <4>4 DEF SocketInv
        <3>. QED
            BY <3>1, <3>2
    <2>2. ASSUME NEW s \in bound' \ forgotten' PROVE \E d \in Clients : s \in SocketsOf(d)'
        <3>1. CASE s \in {rtp, rtcp}
            BY <1>4, <3>1
        <3>2. CASE s \in bound
            BY <1>4, <1>5, <3>2 DEF SocketInv
        <3>. QED
            BY <1>5, <3>1, <3>2
    <2>3. forgotten' \subseteq bound' /\ bound' \cap Foreign = {}
        BY <1>2, <1>5 DEF SocketInv
    <2>. QED
        BY <2>1, <2>2, <2>3 DEF SocketInv
<1>7. ScanInv'
    BY <1>2, <1>3 DEF ScanInv
<1>. QED
    BY <1>6, <1>7

\* A scan that comes to nothing: the pointers lose sockets and gain none.
LEMMA StepNoPair ==
  ASSUME TypeOK, SocketInv, ScanInv, NEW c \in Clients,
         NoRtpSocket(c) \/ NoRtcpSocket(c)
  PROVE  SocketInv' /\ ScanInv'
<1>1. /\ session'[c].scan = "failed" /\ UNCHANGED bound
      /\ \A d \in Clients \ {c} : session'[d] = session[d]
    BY DEF NoRtpSocket, NoRtcpSocket, TypeOK
<1>2. /\ session'[c].rtp \notin Ports
      /\ session'[c].rtcp \in Ports => session'[c].rtcp = session[c].rtcp
      /\ forgotten' = forgotten \cup ((SocketsOf(c) \ SocketsOf(c)') \cap bound)
    <2>1. CASE NoRtpSocket(c)
        <3>1. session'[c].rtp = NullSocket /\ session'[c].rtcp = session[c].rtcp
            BY <2>1 DEF NoRtpSocket, TypeOK
        <3>2. forgotten' = forgotten \cup ({session[c].rtp} \cap bound)
            BY <2>1 DEF NoRtpSocket
        <3>3. session[c].rtp \in bound => session[c].rtp # session[c].rtcp /\ session[c].rtp # NullSocket
            BY PortsAreNumbers DEF SocketInv, TypeOK
        <3>4. (SocketsOf(c) \ SocketsOf(c)') \cap bound = {session[c].rtp} \cap bound
            BY <3>1, <3>3 DEF SocketsOf
        <3>. QED
            BY <3>1, <3>2, <3>4, PortsAreNumbers
    <2>2. CASE NoRtcpSocket(c)
        <3>1. /\ session'[c].rtp \in {NullSocket, DeletedSocket}
              /\ session'[c].rtcp = NullSocket
            <4>1. PICK p \in FreeEvens :
                     session' = [session EXCEPT ![c] =
                        [@ EXCEPT !.tcp = FALSE, !.rtcp = NullSocket, !.scan = "failed",
                                  !.rtp = IF p = Pairs THEN DeletedSocket ELSE NullSocket]]
                BY <2>2 DEF NoRtcpSocket
            <4>. QED
                BY <4>1 DEF TypeOK
        <3>2. SocketsOf(c)' \cap bound = {}
            BY <3>1, PortsAreNumbers DEF SocketsOf, TypeOK
        <3>. QED
            BY <2>2, <3>1, <3>2, PortsAreNumbers DEF NoRtcpSocket
    <2>. QED
        BY <2>1, <2>2
<1>3. /\ SocketsOf(c)' \cap Ports \subseteq SocketsOf(c)
      /\ \A d \in Clients \ {c} : SocketsOf(d)' = SocketsOf(d)
    BY <1>1, <1>2 DEF SocketsOf
<1>4. SocketInv'
    <2>1. ASSUME NEW d \in Clients
          PROVE  /\ SocketsOf(d)' \cap Ports \subseteq bound' \ forgotten'
                 /\ session'[d].rtp \in Ports => session'[d].rtp # session'[d].rtcp
                 /\ \A e \in Clients \ {d} : SocketsOf(d)' \cap SocketsOf(e)' \cap Ports = {}
        <3>1. SocketsOf(d)' \cap Ports \subseteq bound' \ forgotten'
            BY <1>1, <1>2, <1>3 DEF SocketInv
        <3>2. session'[d].rtp \in Ports => session'[d].rtp # session'[d].rtcp
            BY <1>1, <1>2 DEF SocketInv
        <3>3. \A e \in Clients : SocketsOf(e)' \cap Ports \subseteq SocketsOf(e)
            BY <1>3
        <3>. QED
            BY <3>1, <3>2, <3>3 DEF SocketInv
    <2>2. ASSUME NEW s \in bound' \ forgotten' PROVE \E d \in Clients : s \in SocketsOf(d)'
        BY <1>1, <1>2, <1>3 DEF SocketInv
    <2>3. forgotten' \subseteq bound' /\ bound' \cap Foreign = {}
        BY <1>1, <1>2 DEF SocketInv
    <2>. QED
        BY <2>1, <2>2, <2>3 DEF SocketInv
<1>5. ScanInv'
    BY <1>1 DEF ScanInv
<1>. QED
    BY <1>4, <1>5

\* A session ends: its sockets are closed and perhaps others with them.
LEMMA StepRemoved ==
  ASSUME TypeOK, ListInv, SlotsAreSessions, SocketInv, ScanInv, RemoveStopped
  PROVE  SocketInv' /\ ScanInv'
<1>1. PICK c \in Clients, S \in SUBSET bound :
         /\ session'[c] = NewSession
         /\ \A d \in Clients \ {c} : session'[d] = Robbed(d, S)
         /\ bound' = bound \ (SocketsOf(c) \cup S)
         /\ forgotten' = forgotten \ S
    BY RemoveEffect
<1>2. S \subseteq Ports /\ bound \subseteq Ports
    BY DEF TypeOK
<1>3. session'[c].rtp = NullSocket /\ session'[c].rtcp = NullSocket /\ session'[c].scan = "none"
    BY <1>1 DEF NewSession
<1>4. ASSUME NEW d \in Clients \ {c}
      PROVE  /\ session'[d].rtp = IF session[d].rtp \in S THEN DeletedSocket ELSE session[d].rtp
             /\ session'[d].rtcp = IF session[d].rtcp \in S THEN DeletedSocket ELSE session[d].rtcp
             /\ session'[d].scan =
                  IF SocketsOf(d) \cap S # {} THEN "robbed" ELSE session[d].scan
    BY <1>1, RobbedSession
<1>5. /\ SocketsOf(c)' \cap Ports = {}
      /\ \A d \in Clients \ {c} : SocketsOf(d)' \cap Ports = (SocketsOf(d) \cap Ports) \ S
    BY <1>3, <1>4, PortsAreNumbers DEF SocketsOf
<1>6. SocketInv'
    <2>1. ASSUME NEW d \in Clients
          PROVE  /\ SocketsOf(d)' \cap Ports \subseteq bound' \ forgotten'
                 /\ session'[d].rtp \in Ports => session'[d].rtp # session'[d].rtcp
                 /\ \A e \in Clients \ {d} : SocketsOf(d)' \cap SocketsOf(e)' \cap Ports = {}
        <3>1. CASE d = c
            BY <1>3, <1>5, <3>1, PortsAreNumbers
        <3>2. CASE d # c
            <4>1. /\ SocketsOf(d) \cap Ports \subseteq bound \ forgotten
                  /\ SocketsOf(d) \cap SocketsOf(c) \cap Ports = {}
                BY <3>2 DEF SocketInv
            <4>2. SocketsOf(d)' \cap Ports \subseteq bound' \ forgotten'
                BY <1>1, <1>5, <3>2, <4>1
            <4>3. session'[d].rtp \in Ports => session'[d].rtp # session'[d].rtcp
                BY <1>4, <3>2, PortsAreNumbers DEF SocketInv
            <4>4. \A e \in Clients \ {d} : SocketsOf(d)' \cap SocketsOf(e)' \cap Ports = {}
                BY <1>5, <3>2 DEF SocketInv
            <4>. QED
                BY <4>2, <4>3, <4>4
        <3>. QED
            BY <3>1, <3>2
    <2>2. ASSUME NEW s \in bound' \ forgotten' PROVE \E d \in Clients : s \in SocketsOf(d)'
        <3>1. s \in bound \ forgotten /\ s \notin SocketsOf(c) /\ s \notin S /\ s \in Ports
            BY <1>1, <1>2
        <3>2. PICK d \in Clients : s \in SocketsOf(d)
            BY <3>1 DEF SocketInv
        <3>. QED
            BY <1>5, <3>1, <3>2
    <2>3. forgotten' \subseteq bound' /\ bound' \cap Foreign = {}
        <3>1. SocketsOf(c) \cap forgotten = {}
            BY <1>2 DEF SocketInv
        <3>. QED
            BY <1>1, <3>1 DEF SocketInv
    <2>. QED
        BY <2>1, <2>2, <2>3 DEF SocketInv
<1>7. ScanInv'
    <2>1. ASSUME NEW d \in Clients \ {c}
          PROVE  /\ session'[d].scan = "found" =>
                        session'[d].rtp \in Ports /\ session'[d].rtcp \in Ports
                 /\ session'[d].scan = "none" =>
                        session'[d].rtp = NullSocket /\ session'[d].rtcp = NullSocket
        BY <1>2, <1>4, PortsAreNumbers DEF ScanInv, SocketsOf
    <2>. QED
        BY <1>3, <2>1 DEF ScanInv
<1>. QED
    BY <1>6, <1>7

LEMMA StepSockets ==
  ASSUME TypeOK, ListInv, SlotsAreSessions, GoneInv, SocketInv, ScanInv, [Next]_vars
  PROVE  SocketInv' /\ ScanInv'
<1>. USE DEF peerVars, serverVars, socketVars
<1>1. CASE Accept
    <2>1. /\ Head(backlog) \in Clients /\ session[Head(backlog)] = NewSession
          /\ session' = [session EXCEPT ![Head(backlog)] = NewSession]
        BY <1>1, HeadOfBacklog DEF Accept, GoneInv
    <2>2. \A c \in Clients : session'[c] = session[c]
        BY <2>1 DEF TypeOK
    <2>. QED
        BY <1>1, <2>2, SameSockets DEF Accept
<1>2. CASE ReadClosed
    <2>1. /\ Head(toRead) \in Clients
          /\ session' = [session EXCEPT ![Head(toRead)].m_stopped = TRUE]
        BY <1>2, HeadOfToRead DEF ReadClosed
    <2>2. \A c \in Clients : /\ session'[c].rtp = session[c].rtp
                             /\ session'[c].rtcp = session[c].rtcp
                             /\ session'[c].scan = session[c].scan
        BY <2>1 DEF TypeOK
    <2>. QED
        BY <1>2, <2>2, SameSockets DEF ReadClosed
<1>3. CASE ReadRequest
    <2>1. PICK c \in Clients, r \in Requests : Handle(c, r)
        BY <1>3, ReadEffect
    <2>2. \A d \in Clients \ {c} : session'[d] = session[d]
        BY <2>1, HandleTypeOK
    <2>3. CASE /\ session'[c].rtp = session[c].rtp /\ session'[c].rtcp = session[c].rtcp
               /\ session'[c].scan = session[c].scan
               /\ UNCHANGED <<bound, forgotten>>
        BY <2>2, <2>3, SameSockets
    <2>. QED
        BY <2>1, <2>3, HandleEffect, StepPairFound, StepNoPair
<1>4. CASE RemoveStopped
    BY <1>4, StepRemoved
<1>5. CASE Reboot
    BY <1>5, PortsAreNumbers DEF Reboot, SocketInv, ScanInv, SocketsOf, NewSession
<1>6. CASE UNCHANGED socketVars
    BY <1>6, SameSockets
<1>7. CASE \/ \E c \in Clients : Connect(c) \/ Send(c) \/ Close(c)
           \/ AcceptGuarded \/ Reject \/ AcceptNobody \/ ReadNothing \/ ReadAll
           \/ RemoveNoMore \/ DestroyPanics \/ BroadcastPanics \/ UNCHANGED vars
    BY <1>6, <1>7 DEF Connect, Send, Close, AcceptGuarded, Reject, AcceptNobody, ReadNothing,
                      ReadAll, RemoveNoMore, DestroyPanics, BroadcastPanics, vars
<1>. QED
    BY <1>1, <1>2, <1>3, <1>4, <1>5, <1>7 DEF Next

\* What panics the device is not a session that has found a pair and kept it.
LEMMA StepPanic ==
  ASSUME TypeOK, ListInv, SlotsAreSessions, ScanInv, PanicInv, [Next]_vars
  PROVE  PanicInv'
<1>. USE DEF peerVars, serverVars, socketVars
<1>1. \A c \in Clients : session[c] \in SessionType
    BY DEF TypeOK, SessionType
<1>2. CASE DestroyPanics
    <2>1. PICK c \in Listed : Dangles(c)
        BY <1>2 DEF DestroyPanics, Listed, Elems
    <2>2. c \in Clients
        BY DEF TypeOK, Listed, Elems
    <2>3. session[c].scan \in {"failed", "robbed"}
        BY <1>1, <2>1, <2>2, PortsAreNumbers DEF Dangles, SocketsOf, ScanInv, SessionType
    <2>. QED
        BY <1>2, <2>3 DEF DestroyPanics, PanicInv, Listed
<1>3. CASE BroadcastPanics
    <2>1. PICK c \in Listed :
             /\ session[c].m_streaming /\ ~session[c].tcp
             /\ session[c].rtp \in {NullSocket, DeletedSocket}
        BY <1>3 DEF BroadcastPanics
    <2>2. c \in Clients
        BY DEF TypeOK, Listed, Elems
    <2>3. session[c].scan # "found"
        BY <2>1, <2>2, PortsAreNumbers DEF ScanInv
    <2>4. session[c].scan \in {"none", "failed", "robbed"}
        BY <1>1, <2>2, <2>3 DEF SessionType
    <2>. QED
        BY <1>3, <2>1, <2>4 DEF BroadcastPanics, PanicInv, Listed
<1>4. CASE pc' # "panic"
    BY <1>4 DEF PanicInv
<1>5. CASE UNCHANGED <<pc, clients, session>>
    BY <1>5 DEF PanicInv, Listed
<1>6. CASE \E c \in Clients : Connect(c) \/ Send(c) \/ Close(c)
    BY <1>5, <1>6 DEF Connect, Send, Close
<1>7. CASE \/ AcceptGuarded \/ Accept \/ Reject \/ AcceptNobody
           \/ ReadClosed \/ ReadRequest \/ ReadNothing \/ ReadAll
           \/ RemoveStopped \/ RemoveNoMore \/ Reboot
    BY <1>4, <1>7 DEF AcceptGuarded, Accept, Reject, AcceptNobody, ReadClosed, ReadRequest,
                      ReadNothing, ReadAll, RemoveStopped, RemoveNoMore, Reboot
<1>8. CASE UNCHANGED vars
    BY <1>5, <1>8 DEF vars
<1>. QED
    BY <1>2, <1>3, <1>6, <1>7, <1>8 DEF Next

-----------------------------------------------------------------------------
(* The theorems.                                                           *)

ServerInv ==
    /\ TypeOK /\ ListInv /\ SlotsAreSessions
    /\ GoneInv /\ StopInv
    /\ SocketInv /\ ScanInv /\ PanicInv

LEMMA InitServerInv == Init => ServerInv
<1>. SUFFICES ASSUME Init PROVE ServerInv
    OBVIOUS
<1>1. TypeOK /\ ListInv /\ SlotsAreSessions
    BY InitTypeOK, InitList
<1>2. GoneInv /\ StopInv /\ PanicInv
    BY DEF Init, GoneInv, StopInv, PanicInv, NewSession, Elems, Listed
<1>3. SocketInv /\ ScanInv
    BY PortsAreNumbers DEF Init, SocketInv, ScanInv, SocketsOf, NewSession
<1>. QED
    BY <1>1, <1>2, <1>3 DEF ServerInv

LEMMA StepServerInv == ServerInv /\ [Next]_vars => ServerInv'
BY StepTypeOK, StepList, StepGone, StepStop, StepSockets, StepPanic DEF ServerInv

\* A session ends only because its own client tore it down or closed the connection, or
\* in a panic, whatever requests the clients send in whatever order.
THEOREM OnlyClientsEndSessions == Spec => SessionsEndOnlyByClient
<1>1. ServerInv /\ [Next]_vars
        => [\A c \in Listed : c \notin Elems(clients') =>
               bye[c] \/ peer[c] = "closed" \/ pc = "panic"]_vars
    <2>. SUFFICES ASSUME ServerInv, [Next]_vars,
                         NEW c \in Listed, c \notin Elems(clients')
                  PROVE  bye[c] \/ peer[c] = "closed" \/ pc = "panic"
        OBVIOUS
    <2>1. c \in Clients
        BY DEF ServerInv, TypeOK, Listed, Elems
    <2>2. CASE Accept
        BY <2>2, HeadOfBacklog, AppendElems DEF Accept, ServerInv, TypeOK, Listed
    <2>3. CASE RemoveStopped
        <3>1. PICK d \in Clients : session[d].m_stopped /\ Listed' = Listed \ {d}
            BY <2>3, Removed DEF ServerInv
        <3>2. c = d
            BY <3>1 DEF Listed
        <3>. QED
            BY <3>1, <3>2 DEF ServerInv, StopInv
    <2>4. CASE Reboot
        BY <2>4 DEF Reboot
    <2>5. CASE UNCHANGED clients
        BY <2>5 DEF Listed
    <2>6. CASE \/ \E d \in Clients : Connect(d) \/ Send(d) \/ Close(d)
               \/ AcceptGuarded \/ Reject \/ AcceptNobody \/ ReadClosed \/ ReadRequest
               \/ ReadNothing \/ ReadAll \/ RemoveNoMore
               \/ DestroyPanics \/ BroadcastPanics \/ UNCHANGED vars
        BY <2>5, <2>6 DEF Connect, Send, Close, AcceptGuarded, Reject, AcceptNobody,
              ReadClosed, ReadRequest, ReadNothing, ReadAll, RemoveNoMore, DestroyPanics,
              BroadcastPanics, vars, serverVars
    <2>. QED
        BY <2>2, <2>3, <2>4, <2>6 DEF Next
<1>. QED
    BY <1>1, InitServerInv, StepServerInv, PTL DEF Spec, SessionsEndOnlyByClient

\* Every open UDP socket has one owner or was forgotten by a second SETUP, whatever the
\* clients send in whatever order and whichever sockets cannot be made.
THEOREM SocketsKeepOwners == Spec => []SocketsAreOwned
<1>1. ServerInv => SocketsAreOwned
    <2>. SUFFICES ASSUME ServerInv PROVE SocketsAreOwned
        OBVIOUS
    <2>1. Listed \subseteq Clients
        BY DEF ServerInv, TypeOK, Listed, Elems
    <2>2. \A c \in Clients \ Listed : SocketsOf(c) \cap Ports = {}
        BY PortsAreNumbers DEF ServerInv, GoneInv, SocketsOf, NewSession
    <2>3. \A s \in bound \ forgotten : \E c \in Listed : s \in SocketsOf(c) \cap Ports
        BY <2>2 DEF ServerInv, TypeOK, SocketInv
    <2>4. \A c \in Listed : SocketsOf(c) \cap Ports \subseteq bound
        BY <2>1 DEF ServerInv, SocketInv
    <2>5. bound = forgotten \cup UNION {SocketsOf(c) \cap Ports : c \in Listed}
        BY <2>3, <2>4 DEF ServerInv, SocketInv
    <2>6. \A c \in Listed : SocketsOf(c) \cap forgotten = {}
        BY <2>1 DEF ServerInv, TypeOK, SocketInv
    <2>7. \A c \in Listed, d \in Listed : c # d => SocketsOf(c) \cap SocketsOf(d) \cap Ports = {}
        BY <2>1 DEF ServerInv, SocketInv
    <2>8. bound \cap Foreign = {}
        BY DEF ServerInv, SocketInv
    <2>. QED
        BY <2>5, <2>6, <2>7, <2>8 DEF SocketsAreOwned
<1>. QED
    BY <1>1, InitServerInv, StepServerInv, PTL DEF Spec

\* A session whose scan found a pair keeps it open to its end; the device panics only
\* over a session that played without SETUP, found no pair, or was robbed of its own.
THEOREM TransportsStay == Spec => []TransportStays
<1>1. ServerInv => TransportStays
    <2>. SUFFICES ASSUME ServerInv PROVE TransportStays
        OBVIOUS
    <2>1. Listed \subseteq Clients
        BY DEF ServerInv, TypeOK, Listed, Elems
    <2>2. ASSUME NEW c \in Listed, session[c].scan = "found" PROVE SocketsOf(c) \subseteq bound
        <3>1. SocketsOf(c) \subseteq Ports
            BY <2>1, <2>2 DEF ServerInv, ScanInv, SocketsOf
        <3>. QED
            BY <2>1, <3>1 DEF ServerInv, SocketInv
    <2>. QED
        BY <2>2 DEF TransportStays, ServerInv, PanicInv
<1>. QED
    BY <1>1, InitServerInv, StepServerInv, PTL DEF Spec

=============================================================================

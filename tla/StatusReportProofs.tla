------------------------- MODULE StatusReportProofs -------------------------
(***************************************************************************)
(* Proofs about StatusReport, for any number of retries and connections    *)
(* and every order in which the compiler may put the stores.               *)
(***************************************************************************)
EXTENDS StatusReport, TLAPS

\* What a store may write: one field, of its type.
StoreType == {<<"state", s>> : s \in States} \cup {<<"retries", n>> : n \in 0..MaxRetries}
                \cup {<<"error", t>> : t \in Texts}
                \cup {<<"since", c>> : c \in 0..MaxConnects}

StatusType == [state : States, rssi : BOOLEAN, retries : 0..MaxRetries, error : Texts,
               clock : 0..MaxConnects, uptime : {"none", "some", "wrapped"}]

TypeInv ==
    /\ TypeOK
    /\ stores \in Seq(SUBSET StoreType)
    /\ status \in StatusType

Writes(set, field) == \E s \in set : s[1] = field
NoState(list) == \A i \in 1..Len(list) : ~Writes(list[i], "state")

\* The last store to the state in the list is to value v.
EndsIn(list, v) ==
    \E i \in 1..Len(list) :
        /\ Writes(list[i], "state")
        /\ \A s \in list[i] : s[1] = "state" => s[2] = v
        /\ \A j \in i + 1..Len(list) : ~Writes(list[j], "state")

\* When all stores are done, the state in memory is the state: it is there already, or
\* the last store to it is still to come.
LastState == (ram.state = state /\ NoState(stores)) \/ EndsIn(stores, state)

\* What store s leaves of a connection's report: nothing of earlier attempts.
Harmless(s) == s[1] = "since" \/ s = <<"state", "STA_CONNECTED">>

Cleared == /\ ram.retries = 0 /\ ram.error = "none"
           /\ \A i \in 1..Len(stores) : \A s \in stores[i] : Harmless(s)

\* The count and the error are being cleared, and the state is not shown before.
Clearing ==
    /\ ram.state # "STA_CONNECTED" /\ Len(stores) > 0
    /\ stores[1] \subseteq {<<"retries", 0>>, <<"error", "none">>}
    /\ <<"retries", 0>> \in stores[1] \/ ram.retries = 0
    /\ <<"error", "none">> \in stores[1] \/ ram.error = "none"
    /\ \A i \in 2..Len(stores) : \A s \in stores[i] : Harmless(s)

\* While the present connection has met no failure, its report is clean or not shown.
ConnectionInv == ~ending /\ state = "STA_CONNECTED" => Cleared \/ Clearing

\* Before the first connection nothing shows one.
BeforeInv ==
    ~ending /\ state # "STA_CONNECTED" =>
        /\ ram.state # "STA_CONNECTED"
        /\ \A i \in 1..Len(stores) : <<"state", "STA_CONNECTED">> \notin stores[i]

Filling == {"signal", "count", "error", "copied", "since", "uptime", "assign"}

\* What task_web_ui has read of a connection that has met no failure yet.
ReaderInv ==
    at \in Filling /\ status.state = "STA_CONNECTED" /\ ~overlap =>
        /\ ~ending /\ ram.state = "STA_CONNECTED"
        /\ at \notin {"signal", "count"} => status.retries = 0
        /\ at \notin {"signal", "count", "error"} => status.error = "none"

IInv == TypeInv /\ LastState /\ ConnectionInv /\ BeforeInv /\ ReaderInv

-----------------------------------------------------------------------------
(* Lists of stores.                                                        *)

Lists == Seq(SUBSET StoreType)

LEMMA Joined ==
  ASSUME NEW s \in Lists, NEW t \in Lists
  PROVE  /\ s \o t \in Lists /\ Len(s \o t) = Len(s) + Len(t)
         /\ Len(s) \in Nat /\ Len(t) \in Nat
         /\ \A i \in 1..Len(s) : (s \o t)[i] = s[i]
         /\ \A i \in 1..Len(t) : (s \o t)[Len(s) + i] = t[i]
         /\ \A i \in 1..Len(s \o t) : i <= Len(s) \/ i - Len(s) \in 1..Len(t)
BY DEF Lists

LEMMA JoinedNoState ==
  ASSUME NEW s \in Lists, NEW t \in Lists, NoState(s), NoState(t)
  PROVE  NoState(s \o t)
<1>. SUFFICES ASSUME NEW i \in 1..Len(s \o t) PROVE ~Writes((s \o t)[i], "state")
    BY DEF NoState
<1>1. CASE i <= Len(s)
    BY <1>1, Joined DEF NoState
<1>2. CASE i - Len(s) \in 1..Len(t)
    <2>1. (s \o t)[Len(s) + (i - Len(s))] = t[i - Len(s)] /\ Len(s) + (i - Len(s)) = i
        BY <1>2, Joined
    <2>. QED
        BY <1>2, <2>1 DEF NoState
<1>. QED
    BY <1>1, <1>2, Joined

LEMMA StateAtEnd ==
  ASSUME NEW s \in Lists, NEW v \in States
  PROVE  s \o <<{<<"state", v>>}>> \in Lists /\ EndsIn(s \o <<{<<"state", v>>}>>, v)
<1>. DEFINE t == <<{<<"state", v>>}>>
<1>1. t \in Lists /\ Len(t) = 1 /\ t[1] = {<<"state", v>>}
    BY DEF Lists, StoreType
<1>. HIDE DEF t
<1>2. /\ s \o t \in Lists /\ Len(s) \in Nat /\ Len(s \o t) = Len(s) + 1
      /\ (s \o t)[Len(s) + 1] = {<<"state", v>>}
    <2>1. 1 \in 1..Len(t)
        BY <1>1
    <2>2. (s \o t)[Len(s) + 1] = t[1]
        BY <1>1, <2>1, Joined
    <2>3. s \o t \in Lists /\ Len(s) \in Nat /\ Len(s \o t) = Len(s) + Len(t)
        BY <1>1, Joined
    <2>. QED
        BY <1>1, <2>2, <2>3
<1>3. EndsIn(s \o t, v)
    <2>1. Len(s) + 1 \in 1..Len(s \o t) /\ Len(s) + 1 + 1..Len(s \o t) = {}
        BY <1>2
    <2>2. Writes((s \o t)[Len(s) + 1], "state")
        BY <1>2 DEF Writes
    <2>3. \A x \in (s \o t)[Len(s) + 1] : x[1] = "state" => x[2] = v
        BY <1>2
    <2>. QED
        BY <2>1, <2>2, <2>3 DEF EndsIn
<1>. QED
    BY <1>2, <1>3 DEF t

LEMMA ShownAtEnd ==
  ASSUME NEW s \in Lists, NEW v \in States, NEW w \in States, EndsIn(s, v)
  PROVE  s \o Shown(v, w) \in Lists /\ EndsIn(s \o Shown(v, w), w)
<1>1. CASE v = w
    <2>1. Shown(v, w) = <<>> /\ s \o <<>> = s
        BY <1>1 DEF Shown, Lists
    <2>. QED
        BY <1>1, <2>1
<1>2. CASE v # w
    BY <1>2, StateAtEnd DEF Shown
<1>. QED
    BY <1>1, <1>2

LEMMA WrittenText ==
  ASSUME NEW t \in Texts PROVE Written(t) \in Lists /\ NoState(Written(t))
<1>1. {<<"error", "mixed">>} \subseteq StoreType /\ {<<"error", t>>} \subseteq StoreType
    BY DEF StoreType, Texts
<1>2. /\ Written(t) \in Lists /\ Len(Written(t)) = 2
      /\ Written(t)[1] = {<<"error", "mixed">>} /\ Written(t)[2] = {<<"error", t>>}
    BY <1>1 DEF Written, Lists
<1>. QED
    BY <1>2 DEF NoState, Writes

LEMMA CountStore ==
  ASSUME NEW n \in 0..MaxRetries
  PROVE  <<{<<"retries", n>>}>> \in Lists /\ NoState(<<{<<"retries", n>>}>>)
<1>1. {<<"retries", n>>} \subseteq StoreType
    BY DEF StoreType
<1>2. <<{<<"retries", n>>}>> \in Lists
    BY <1>1 DEF Lists
<1>. QED
    BY <1>2 DEF NoState, Writes

-----------------------------------------------------------------------------
(* The moves of task_network.                                              *)

MoveResult ==
    /\ stores' \in Lists
    /\ (NoState(stores') /\ state' = state) \/ EndsIn(stores', state')

LEMMA FailResult ==
  ASSUME TypeInv, Fail, stores' \in FailStores
  PROVE  MoveResult /\ NoState(stores')
<1>1. retries' \in 0..MaxRetries /\ error' \in Texts /\ state' = state
    <2>1. retries \in 0..MaxRetries - 1
        BY DEF TypeInv, TypeOK
    <2>2. /\ (retries + 1 < MaxRetries /\ retries' = retries + 1) \/ retries' = 0
          /\ error' \in {"retrying", "exhausted"} /\ state' = state
        BY DEF Fail
    <2>. QED
        BY <2>1, <2>2, RetriesAssumption DEF Texts
<1>2. Written(error') \in Lists /\ NoState(Written(error'))
    BY <1>1, WrittenText
<1>3. \A n \in 0..MaxRetries :
         /\ <<{<<"retries", n>>}>> \o Written(error') \in Lists
         /\ NoState(<<{<<"retries", n>>}>> \o Written(error'))
    BY <1>2, CountStore, Joined, JoinedNoState
<1>4. 0 \in 0..MaxRetries /\ MaxRetries \in 0..MaxRetries
    BY RetriesAssumption
<1>5. CASE retries' # 0
    BY <1>1, <1>3, <1>5 DEF FailStores, MoveResult
<1>6. CASE retries' = 0
    <2>1. PICK s \in {<<>>, <<{<<"retries", MaxRetries>>}>>} :
             stores' = s \o <<{<<"retries", 0>>}>> \o Written(error')
        BY <1>6 DEF FailStores
    <2>2. s \in Lists /\ NoState(s)
        <3>1. <<>> \in Lists /\ NoState(<<>>)
            BY DEF Lists, NoState
        <3>. QED
            BY <1>4, <2>1, <3>1, CountStore
    <2>3. s \o <<{<<"retries", 0>>}>> \in Lists /\ NoState(s \o <<{<<"retries", 0>>}>>)
        BY <1>4, <2>2, CountStore, Joined, JoinedNoState
    <2>. QED
        BY <1>1, <1>2, <2>1, <2>3, Joined, JoinedNoState DEF MoveResult
<1>. QED
    BY <1>5, <1>6

LEMMA LoseResult ==
  ASSUME TypeInv, Lose, stores' = LoseStores
  PROVE  MoveResult
<1>1. "DISCONNECTED" \in States /\ state' \in States /\ "disconnected" \in Texts
      /\ 0 \in 0..MaxRetries
    BY RetriesAssumption DEF Lose, Becomes, States, Texts
<1>. DEFINE s == <<{<<"retries", 0>>}>> \o Written("disconnected")
<1>2. s \in Lists
    BY <1>1, CountStore, WrittenText, Joined
<1>. HIDE DEF s
<1>3. /\ s \o <<{<<"state", "DISCONNECTED">>}>> \in Lists
      /\ EndsIn(s \o <<{<<"state", "DISCONNECTED">>}>>, "DISCONNECTED")
    BY <1>1, <1>2, StateAtEnd
<1>4. stores' = s \o <<{<<"state", "DISCONNECTED">>}>> \o Shown("DISCONNECTED", state')
    BY DEF LoseStores, s
<1>. QED
    BY <1>1, <1>3, <1>4, ShownAtEnd DEF MoveResult

LEMMA SingleGroup ==
  ASSUME NEW g \in SUBSET StoreType, NEW v \in States, <<"state", v>> \in g,
         \A x \in g : x[1] = "state" => x = <<"state", v>>
  PROVE  <<g>> \in Lists /\ EndsIn(<<g>>, v)
<1>1. <<g>> \in Lists /\ Len(<<g>>) = 1 /\ <<g>>[1] = g
    BY DEF Lists
<1>2. Writes(g, "state") /\ \A x \in g : x[1] = "state" => x[2] = v
    BY DEF Writes
<1>. QED
    BY <1>1, <1>2 DEF EndsIn

LEMMA OneGroupResult ==
  ASSUME TypeInv,
         \/ StartConnecting /\ stores' = StartStores
         \/ Saved /\ stores' = SavedStores
         \/ OpenPortal /\ stores' = <<{<<"state", "AP_MODE">>}>>
  PROVE  MoveResult
<1>1. CASE StartConnecting /\ stores' = StartStores
    <2>1. "STA_CONNECTING" \in States /\ state' \in States
        BY <1>1 DEF StartConnecting, Becomes, States
    <2>2. {<<"state", "STA_CONNECTING">>} \subseteq StoreType
        BY <2>1 DEF StoreType
    <2>3. <<{<<"state", "STA_CONNECTING">>}>> \in Lists
          /\ EndsIn(<<{<<"state", "STA_CONNECTING">>}>>, "STA_CONNECTING")
        BY <2>1, <2>2, SingleGroup
    <2>. QED
        BY <1>1, <2>1, <2>3, ShownAtEnd DEF StartStores, MoveResult
<1>2. CASE Saved /\ stores' = SavedStores
    <2>. DEFINE g == {<<"retries", 0>>, <<"error", "none">>, <<"state", "DISCONNECTED">>}
    <2>1. "DISCONNECTED" \in States /\ state' \in States /\ 0 \in 0..MaxRetries
        <3>1. state' \in {"DISCONNECTED", "AP_MODE"}
            BY <1>2 DEF Saved, Becomes
        <3>. QED
            BY <3>1, RetriesAssumption DEF States
    <2>2. g \subseteq StoreType
        BY <2>1 DEF StoreType, Texts
    <2>3. <<g>> \in Lists /\ EndsIn(<<g>>, "DISCONNECTED")
        <3>1. \A x \in g : x[1] = "state" => x = <<"state", "DISCONNECTED">>
            <4>1. /\ <<"retries", 0>>[1] = "retries" /\ <<"error", "none">>[1] = "error"
                  /\ "retries" # "state" /\ "error" # "state"
                OBVIOUS
            <4>. QED
                BY <4>1
        <3>. QED
            BY <2>1, <2>2, <3>1, SingleGroup
    <2>. QED
        BY <1>2, <2>1, <2>3, ShownAtEnd DEF SavedStores, MoveResult
<1>3. CASE OpenPortal /\ stores' = <<{<<"state", "AP_MODE">>}>>
    <2>1. "AP_MODE" \in States /\ state' = "AP_MODE"
        BY <1>3 DEF OpenPortal, States
    <2>2. {<<"state", "AP_MODE">>} \subseteq StoreType
        BY <2>1 DEF StoreType
    <2>. QED
        BY <1>3, <2>1, <2>2, SingleGroup DEF MoveResult
<1>. QED
    BY <1>1, <1>2, <1>3

\* The stores of a new connection: two groups, and one more if the portal opens.
First == {<<"retries", 0>>, <<"error", "none">>}
Second == {<<"since", connects + 1>>, <<"state", "STA_CONNECTED">>}

LEMMA ConnectResult ==
  ASSUME TypeInv, NewConnection
  PROVE  /\ MoveResult
         /\ state' = "STA_CONNECTED" => stores' = <<First, Second>>
<1>1. "STA_CONNECTED" \in States /\ state' \in States /\ 0 \in 0..MaxRetries
      /\ connects + 1 \in 0..MaxConnects
    <2>1. state' \in {"STA_CONNECTED", "AP_MODE"} /\ connects < MaxConnects
        BY DEF NewConnection, Connect, Becomes
    <2>2. connects \in 0..MaxConnects
        BY DEF TypeInv, TypeOK
    <2>. QED
        BY <2>1, <2>2, RetriesAssumption, ConnectsAssumption DEF States
<1>2. First \subseteq StoreType /\ Second \subseteq StoreType
    BY <1>1 DEF StoreType, First, Second, Texts
<1>. DEFINE s == <<First, Second>>
<1>3. s \in Lists /\ Len(s) = 2 /\ s[2] = Second
    BY <1>2 DEF Lists
<1>4. EndsIn(s, "STA_CONNECTED")
    <2>1. Writes(Second, "state") /\ \A x \in Second : x[1] = "state" => x[2] = "STA_CONNECTED"
        BY DEF Second, Writes
    <2>2. 2 \in 1..Len(s) /\ 2 + 1..Len(s) = {}
        BY <1>3
    <2>. QED
        BY <1>3, <2>1, <2>2 DEF EndsIn
<1>5. stores' = s \o Shown("STA_CONNECTED", state')
    BY DEF NewConnection, ConnectStores, First, Second
<1>6. state' = "STA_CONNECTED" => stores' = s
    BY <1>3, <1>5 DEF Shown, Lists
<1>. HIDE DEF s
<1>7. MoveResult
    BY <1>1, <1>3, <1>4, <1>5, ShownAtEnd DEF MoveResult
<1>. QED
    BY <1>6, <1>7 DEF s

\* What a move leaves: the state of the last store is the state; without a failure it
\* is a new connection, or none has been made yet.
LEMMA MoveEffect ==
  ASSUME TypeInv, LastState, Move
  PROVE  /\ MoveResult /\ ram.state = state
         /\ ~ending' /\ state' = "STA_CONNECTED" =>
               state = "STA_CONNECTING" /\ stores' = <<First, Second>>
         /\ ~ending' /\ state' # "STA_CONNECTED" =>
               /\ ~ending /\ state # "STA_CONNECTED"
               /\ \A i \in 1..Len(stores') : <<"state", "STA_CONNECTED">> \notin stores'[i]
<1>1. stores = <<>> /\ (NewConnection \/ OtherMove)
    BY DEF Move
<1>2. ram.state = state
    <2>1. Len(stores) = 0
        BY <1>1
    <2>. QED
        BY <2>1 DEF LastState, EndsIn
<1>3. CASE NewConnection
    BY <1>2, <1>3, ConnectResult DEF NewConnection, Connect
<1>4. CASE OtherMove
    <2>1. MoveResult
        BY <1>4, FailResult, LoseResult, OneGroupResult DEF OtherMove
    <2>2. ~ending' => ~ending /\ state # "STA_CONNECTED"
        BY <1>4 DEF OtherMove
    <2>3. ~ending' => state' # "STA_CONNECTED"
        BY <1>4, <2>2 DEF OtherMove, Fail, StartConnecting, Lose, Saved, OpenPortal, Becomes
    <2>4. ASSUME ~ending', NEW i \in 1..Len(stores')
          PROVE  <<"state", "STA_CONNECTED">> \notin stores'[i]
        <3>1. CASE Fail /\ stores' \in FailStores
            BY <3>1, <2>4, FailResult DEF NoState, Writes
        <3>2. CASE StartConnecting /\ stores' = StartStores
            BY <2>4, <3>2, <2>3 DEF StartStores, Shown
        <3>3. CASE Lose /\ stores' = LoseStores
            BY <2>2, <2>4, <3>3 DEF Lose
        <3>4. CASE Saved /\ stores' = SavedStores
            BY <2>4, <3>4, <2>3 DEF SavedStores, Shown
        <3>5. CASE OpenPortal /\ stores' = <<{<<"state", "AP_MODE">>}>>
            BY <2>4, <3>5
        <3>. QED
            BY <1>4, <3>1, <3>2, <3>3, <3>4, <3>5 DEF OtherMove
    <2>. QED
        BY <1>2, <2>1, <2>2, <2>3, <2>4
<1>. QED
    BY <1>1, <1>3, <1>4

\* What one store leaves of the list.
LEMMA StoreEffect ==
  ASSUME TypeInv, Store
  PROVE  \E s \in stores[1] :
           /\ 1 \in 1..Len(stores) /\ s \in StoreType
           /\ ram' = [ram EXCEPT ![s[1]] = s[2]]
           /\ stores' \in Lists
           /\ \/ /\ stores[1] = {s} /\ Len(stores') = Len(stores) - 1
                 /\ \A i \in 1..Len(stores') : i + 1 \in 1..Len(stores)
                                               /\ stores'[i] = stores[i + 1]
                 /\ \A i \in 2..Len(stores) : i - 1 \in 1..Len(stores')
                                               /\ stores'[i - 1] = stores[i]
              \/ /\ Len(stores') = Len(stores)
                 /\ stores'[1] = stores[1] \ {s}
                 /\ \A i \in 2..Len(stores) : stores'[i] = stores[i]
<1>1. stores # <<>> /\ stores \in Lists
    BY DEF Store, TypeInv, Lists
<1>2. /\ Len(stores) \in Nat \ {0} /\ Head(stores) = stores[1]
      /\ stores[1] \in SUBSET StoreType
      /\ Tail(stores) \in Lists /\ Len(Tail(stores)) = Len(stores) - 1
      /\ \A i \in 1..Len(stores) - 1 : Tail(stores)[i] = stores[i + 1]
    BY <1>1 DEF Lists
<1>3. PICK s \in stores[1] :
         /\ ram' = [ram EXCEPT ![s[1]] = s[2]]
         /\ stores' = IF stores[1] = {s} THEN Tail(stores)
                      ELSE <<stores[1] \ {s}>> \o Tail(stores)
    BY <1>2 DEF Store
<1>4. CASE stores[1] = {s}
    <2>1. stores' = Tail(stores)
        BY <1>3, <1>4
    <2>2. \A i \in 1..Len(stores') : i + 1 \in 1..Len(stores) /\ stores'[i] = stores[i + 1]
        BY <1>2, <2>1
    <2>3. \A i \in 2..Len(stores) : i - 1 \in 1..Len(stores') /\ (i - 1) + 1 = i
        BY <1>2, <2>1
    <2>4. \A i \in 2..Len(stores) : stores'[i - 1] = stores[i]
        BY <2>2, <2>3
    <2>5. 1 \in 1..Len(stores) /\ s \in StoreType
        BY <1>2
    <2>. QED
        BY <1>2, <1>3, <1>4, <2>1, <2>2, <2>3, <2>4, <2>5
<1>5. CASE stores[1] # {s}
    <2>. DEFINE h == <<stores[1] \ {s}>>
    <2>1. h \in Lists /\ Len(h) = 1 /\ h[1] = stores[1] \ {s} /\ 1 \in 1..Len(h)
        BY <1>2 DEF Lists
    <2>2. stores' = h \o Tail(stores)
        BY <1>3, <1>5
    <2>. DEFINE t == Tail(stores)
    <2>. HIDE DEF h
    <2>3. /\ stores' \in Lists /\ Len(stores') = 1 + (Len(stores) - 1)
          /\ stores'[1] = h[1]
          /\ \A i \in 1..Len(stores) - 1 : stores'[1 + i] = t[i]
        <3>1. t \in Lists /\ Len(t) = Len(stores) - 1 /\ stores' = h \o t
            BY <1>2, <2>2
        <3>. HIDE DEF t
        <3>2. /\ h \o t \in Lists /\ Len(h \o t) = Len(h) + Len(t)
              /\ \A i \in 1..Len(h) : (h \o t)[i] = h[i]
              /\ \A i \in 1..Len(t) : (h \o t)[Len(h) + i] = t[i]
            BY <2>1, <3>1, Joined
        <3>. QED
            BY <2>1, <3>1, <3>2
    <2>4. ASSUME NEW i \in 2..Len(stores) PROVE stores'[i] = stores[i]
        <3>1. i - 1 \in 1..Len(stores) - 1 /\ 1 + (i - 1) = i /\ (i - 1) + 1 = i
            BY <1>2
        <3>2. stores'[1 + (i - 1)] = Tail(stores)[i - 1]
            BY <2>3, <3>1
        <3>3. Tail(stores)[i - 1] = stores[(i - 1) + 1]
            BY <1>2, <3>1
        <3>. QED
            BY <3>1, <3>2, <3>3
    <2>5. 1 \in 1..Len(stores) /\ s \in StoreType /\ Len(stores') = Len(stores)
        BY <1>2, <2>3
    <2>. QED
        BY <1>3, <2>1, <2>3, <2>4, <2>5
<1>. QED
    BY <1>4, <1>5

\* What one store writes to memory.
LEMMA StoreWrites ==
  ASSUME TypeInv, NEW s \in StoreType, ram' = [ram EXCEPT ![s[1]] = s[2]]
  PROVE  /\ ram' \in [state : States, retries : 0..MaxRetries, error : Texts,
                      since : 0..MaxConnects]
         /\ s[1] = "state" => ram'.state = s[2]
         /\ s[1] # "state" => ram'.state = ram.state
         /\ s = <<"retries", 0>> => ram'.retries = 0 /\ ram'.error = ram.error
         /\ s = <<"error", "none">> => ram'.error = "none" /\ ram'.retries = ram.retries
         /\ s[1] \in {"since", "state"} =>
               ram'.retries = ram.retries /\ ram'.error = ram.error
<1>1. ram \in [state : States, retries : 0..MaxRetries, error : Texts,
               since : 0..MaxConnects]
    BY DEF TypeInv, TypeOK
<1>2. CASE \E v \in States : s = <<"state", v>>
    BY <1>1, <1>2
<1>3. CASE \E n \in 0..MaxRetries : s = <<"retries", n>>
    BY <1>1, <1>3
<1>4. CASE \E t \in Texts : s = <<"error", t>>
    BY <1>1, <1>4
<1>5. CASE \E c \in 0..MaxConnects : s = <<"since", c>>
    BY <1>1, <1>5
<1>. QED
    BY <1>2, <1>3, <1>4, <1>5 DEF StoreType

-----------------------------------------------------------------------------
(* The invariant.                                                          *)

LEMMA InitIInv == Init => IInv
<1>. SUFFICES ASSUME Init PROVE IInv
    OBVIOUS
<1>1. /\ 0 \in 0..MaxRetries - 1 /\ 0 \in 0..MaxRetries /\ 0 \in 0..MaxConnects
      /\ "DISCONNECTED" \in States /\ "none" \in Texts
    BY RetriesAssumption, ConnectsAssumption DEF States, Texts
<1>2. TypeOK
    BY <1>1 DEF Init, ViewInit, TypeOK, Contents
<1>3. status \in StatusType
    BY <1>1 DEF Init, Blank, StatusType
<1>4. stores \in Lists /\ Len(stores) = 0
    BY DEF Init, Lists
<1>5. LastState /\ BeforeInv /\ ConnectionInv
    BY <1>4 DEF Init, ViewInit, LastState, NoState, BeforeInv, ConnectionInv
<1>6. ReaderInv
    BY DEF Init, ReaderInv, Filling
<1>. QED
    BY <1>2, <1>3, <1>4, <1>5, <1>6 DEF IInv, TypeInv, Lists

\* task_web_ui and AsyncTCP only read what task_network writes.
LEMMA ReadersOnlyRead ==
  ASSUME Update \/ handle_status \/ Copied
  PROVE  UNCHANGED <<state, retries, error, connectedOnce, stores, connects, ending, ram>>
BY DEF Update, Begin, network_get_status, ReadState, ReadSignal, ReadCount, ReadError,
       ErrorCopied, ReadNever, ReadClock, ReadSince, Fill, Assign, Assigned,
       handle_status, Copied, writerVars, view

LEMMA StepTypeInv == ASSUME TypeInv, LastState, [Next]_vars PROVE TypeInv'
<1>. DEFINE Ram == [state : States, retries : 0..MaxRetries, error : Texts,
                    since : 0..MaxConnects]
<1>0. /\ state \in States /\ retries \in 0..MaxRetries - 1 /\ error \in Texts
      /\ connectedOnce \in BOOLEAN /\ ram \in Ram
      /\ connects \in 0..MaxConnects /\ ending \in BOOLEAN /\ overlap \in BOOLEAN
      /\ json \in Contents /\ copying \in BOOLEAN
      /\ status \in StatusType /\ stores \in Lists
    BY DEF TypeInv, TypeOK, Lists
<1>1. CASE Move
    <2>1. /\ state' \in States /\ retries' \in 0..MaxRetries - 1 /\ error' \in Texts
          /\ connectedOnce' \in BOOLEAN /\ connects' \in 0..MaxConnects
          /\ ending' \in BOOLEAN /\ overlap' \in BOOLEAN
        <3>1. CASE NewConnection
            <4>1. /\ state' \in {"STA_CONNECTED", "AP_MODE"} /\ retries' = 0
                  /\ error' = "none" /\ connectedOnce' = TRUE
                  /\ connects' = connects + 1 /\ connects < MaxConnects
                  /\ ending' = (state' # "STA_CONNECTED") /\ overlap' = (overlap \/ ending')
                BY <1>1, <3>1 DEF NewConnection, Connect, Becomes, Move
            <4>2. connects' \in 0..MaxConnects /\ 0 \in 0..MaxRetries - 1
                BY <1>0, <4>1, RetriesAssumption, ConnectsAssumption
            <4>. QED
                BY <1>0, <4>1, <4>2 DEF States, Texts
        <3>2. CASE OtherMove
            <4>1. /\ state' \in States
                  /\ \/ retries' \in {retries, 0}
                     \/ retries' = retries + 1 /\ retries + 1 < MaxRetries
                  /\ error' \in {error, "none", "retrying", "exhausted", "disconnected"}
                  /\ connectedOnce' = connectedOnce
                BY <1>0, <3>2 DEF OtherMove, Fail, StartConnecting, Lose, Saved, OpenPortal,
                                  Becomes, States
            <4>2. retries' \in 0..MaxRetries - 1
                BY <1>0, <4>1, RetriesAssumption
            <4>3. connects' = connects /\ ending' = (ending \/ state = "STA_CONNECTED")
                  /\ overlap' = (overlap \/ ending')
                BY <1>1, <3>2 DEF OtherMove, Move
            <4>. QED
                BY <1>0, <4>1, <4>2, <4>3 DEF Texts
        <3>. QED
            BY <1>1, <3>1, <3>2 DEF Move
    <2>2. stores' \in Lists
        BY <1>1, MoveEffect DEF MoveResult
    <2>3. UNCHANGED <<ram, at, status, json, copying>>
        BY <1>1 DEF Move, readerVars
    <2>. QED
        BY <2>1, <2>2, <2>3 DEF TypeInv, TypeOK, Lists
<1>2. CASE Store
    <2>1. PICK s \in stores[1] :
             s \in StoreType /\ ram' = [ram EXCEPT ![s[1]] = s[2]] /\ stores' \in Lists
        BY <1>2, StoreEffect
    <2>2. ram' \in Ram
        BY <2>1, StoreWrites
    <2>3. json' \in Contents
        BY <1>0, <1>2 DEF Store, Dated, Contents
    <2>4. UNCHANGED <<state, retries, error, connectedOnce, connects, ending, at, status,
                      overlap, copying>>
        BY <1>2 DEF Store, view, readerVars
    <2>. QED
        BY <2>1, <2>2, <2>3, <2>4 DEF TypeInv, TypeOK, Lists
<1>3. CASE Update \/ handle_status \/ Copied
    <2>. USE <1>0
    <2>1. UNCHANGED <<state, retries, error, connectedOnce, stores, connects, ending, ram>>
        BY <1>3, ReadersOnlyRead
    <2>. SUFFICES /\ status' \in StatusType /\ overlap' \in BOOLEAN
                  /\ at' \in {"boot", "state", "signal", "count", "error", "copied",
                              "since", "uptime", "assign", "assigning"}
                  /\ json' \in Contents /\ copying' \in BOOLEAN
        BY <2>1 DEF TypeInv, TypeOK, Lists
    <2>2. CASE handle_status \/ Copied
        <3>1. at \in {"boot", "state", "signal", "count", "error", "copied", "since",
                     "uptime", "assign", "assigning"}
            BY DEF TypeInv, TypeOK
        <3>2. /\ at' = at /\ status' = status /\ overlap' = overlap /\ json' = json
              /\ copying' = TRUE \/ copying' = FALSE
            BY <2>2 DEF handle_status, Copied, readerVars
        <3>. QED
            BY <3>1, <3>2
    <2>3. CASE Begin \/ Assign
        BY <2>3 DEF Begin, Assign, Contents
    <2>4. CASE Assigned
        <3>1. Blank \in StatusType
            BY RetriesAssumption, ConnectsAssumption DEF Blank, StatusType, States, Texts
        <3>. QED
            BY <2>4, <3>1 DEF Assigned, Contents
    <2>5. CASE ReadState \/ ReadCount \/ ReadError \/ ReadNever \/ ReadSignal
        BY <2>5 DEF ReadState, ReadSignal, ReadCount, ReadError, ReadNever, Fill, StatusType
    <2>6. CASE ErrorCopied
        <3>1. "mixed" \in Texts
            BY DEF Texts
        <3>. QED
            BY <2>6, <3>1 DEF ErrorCopied, Fill, StatusType
    <2>7. CASE ReadClock
        BY <2>7 DEF ReadClock, Fill, StatusType
    <2>8. CASE ReadSince
        <3>1. PICK u \in {"none", "some", "wrapped"} :
                 status' = [status EXCEPT !.clock = 0, !.uptime = u]
            <4>. DEFINE u == IF ram.since > status.clock THEN "wrapped" ELSE "some"
            <4>1. u \in {"none", "some", "wrapped"}
                OBVIOUS
            <4>2. status' = [status EXCEPT !.clock = 0, !.uptime = u]
                BY <2>8 DEF ReadSince
            <4>. QED
                BY <4>1, <4>2
        <3>2. status' \in StatusType
            <4>1. 0 \in 0..MaxConnects
                BY ConnectsAssumption
            <4>. QED
                BY <3>1, <4>1 DEF StatusType
        <3>. QED
            BY <2>8, <3>2 DEF ReadSince
    <2>9. \/ handle_status \/ Copied \/ Begin \/ Assign \/ Assigned
          \/ ReadState \/ ReadCount \/ ReadError \/ ReadNever \/ ReadSignal
          \/ ErrorCopied \/ ReadClock \/ ReadSince
        BY <1>3 DEF Update, network_get_status
    <2>. QED
        BY <2>2, <2>3, <2>4, <2>5, <2>6, <2>7, <2>8, <2>9
<1>4. CASE UNCHANGED vars
    BY <1>4 DEF vars, writerVars, readerVars, view, TypeInv, TypeOK
<1>. QED
    BY <1>1, <1>2, <1>3, <1>4 DEF Next

\* A store that is done keeps the promise about the last one.
LEMMA StepLastState == ASSUME TypeInv, LastState, [Next]_vars PROVE LastState'
<1>1. CASE Move
    BY <1>1, MoveEffect DEF MoveResult, LastState, Move
<1>2. CASE Store
    <2>1. PICK s \in stores[1] :
             /\ 1 \in 1..Len(stores) /\ s \in StoreType
             /\ ram' = [ram EXCEPT ![s[1]] = s[2]]
             /\ stores' \in Lists
             /\ \/ /\ stores[1] = {s} /\ Len(stores') = Len(stores) - 1
                   /\ \A i \in 1..Len(stores') : i + 1 \in 1..Len(stores)
                                                 /\ stores'[i] = stores[i + 1]
                   /\ \A i \in 2..Len(stores) : i - 1 \in 1..Len(stores')
                                                 /\ stores'[i - 1] = stores[i]
                \/ /\ Len(stores') = Len(stores)
                   /\ stores'[1] = stores[1] \ {s}
                   /\ \A i \in 2..Len(stores) : stores'[i] = stores[i]
        BY <1>2, StoreEffect
    <2>2. /\ s[1] = "state" => ram'.state = s[2]
          /\ s[1] # "state" => ram'.state = ram.state
        BY <2>1, StoreWrites
    <2>3. state' = state /\ Len(stores) \in Nat /\ Len(stores') \in Nat
        BY <1>2, <2>1 DEF Store, view, TypeInv, Lists
    <2>4. CASE ram.state = state /\ NoState(stores)
        <3>1. s[1] # "state"
            BY <2>1, <2>4 DEF NoState, Writes
        <3>2. NoState(stores')
            BY <2>1, <2>3, <2>4 DEF NoState, Writes
        <3>. QED
            BY <2>2, <2>3, <2>4, <3>1, <3>2 DEF LastState
    <2>5. ASSUME NEW k \in 1..Len(stores), Writes(stores[k], "state"),
                 \A x \in stores[k] : x[1] = "state" => x[2] = state,
                 \A j \in k + 1..Len(stores) : ~Writes(stores[j], "state")
          PROVE  LastState'
        <3>1. CASE k = 1 /\ ~Writes(stores[1] \ {s}, "state")
            <4>1. s[1] = "state" /\ s[2] = state
                BY <2>5, <3>1 DEF Writes
            <4>2. \A j \in 1..Len(stores') : ~Writes(stores'[j], "state")
                <5>. TAKE j \in 1..Len(stores')
                <5>0. \A i \in 2..Len(stores) : ~Writes(stores[i], "state")
                    BY <2>3, <2>5, <3>1
                <5>1. CASE stores[1] = {s} /\ Len(stores') = Len(stores) - 1
                           /\ \A i \in 1..Len(stores') : i + 1 \in 1..Len(stores)
                                                         /\ stores'[i] = stores[i + 1]
                    <6>1. j + 1 \in 2..Len(stores) /\ stores'[j] = stores[j + 1]
                        BY <2>3, <5>1
                    <6>. QED
                        BY <5>0, <6>1
                <5>2. CASE /\ Len(stores') = Len(stores)
                           /\ stores'[1] = stores[1] \ {s}
                           /\ \A i \in 2..Len(stores) : stores'[i] = stores[i]
                    <6>1. j = 1 \/ j \in 2..Len(stores)
                        BY <2>3, <5>2
                    <6>. QED
                        BY <3>1, <5>0, <5>2, <6>1
                <5>. QED
                    BY <2>1, <5>1, <5>2
            <4>. QED
                BY <2>2, <2>3, <4>1, <4>2 DEF LastState, NoState
        <3>2. CASE k = 1 /\ Writes(stores[1] \ {s}, "state")
            <4>1. stores[1] # {s}
                BY <3>2 DEF Writes
            <4>2. /\ Len(stores') = Len(stores) /\ stores'[1] = stores[1] \ {s}
                  /\ \A i \in 2..Len(stores) : stores'[i] = stores[i]
                BY <2>1, <4>1
            <4>3. \A j \in 1 + 1..Len(stores') : ~Writes(stores'[j], "state")
                BY <2>3, <2>5, <3>2, <4>2
            <4>4. \A x \in stores'[1] : x[1] = "state" => x[2] = state
                BY <2>5, <3>2, <4>2
            <4>5. EndsIn(stores', state)
                BY <2>1, <3>2, <4>2, <4>3, <4>4 DEF EndsIn
            <4>. QED
                BY <2>3, <4>5 DEF LastState
        <3>3. CASE k # 1
            <4>1. k \in 2..Len(stores)
                BY <2>3, <3>3
            <4>2. CASE /\ stores[1] = {s} /\ Len(stores') = Len(stores) - 1
                       /\ \A i \in 1..Len(stores') : i + 1 \in 1..Len(stores)
                                                     /\ stores'[i] = stores[i + 1]
                       /\ \A i \in 2..Len(stores) : i - 1 \in 1..Len(stores')
                                                     /\ stores'[i - 1] = stores[i]
                <5>1. k - 1 \in 1..Len(stores') /\ stores'[k - 1] = stores[k]
                    BY <4>1, <4>2
                <5>2. \A j \in (k - 1) + 1..Len(stores') : ~Writes(stores'[j], "state")
                    <6>. TAKE j \in (k - 1) + 1..Len(stores')
                    <6>1. j \in 1..Len(stores') /\ j + 1 \in k + 1..Len(stores)
                        BY <2>3, <4>1, <4>2
                    <6>. QED
                        BY <2>5, <4>2, <6>1
                <5>3. EndsIn(stores', state)
                    BY <2>5, <5>1, <5>2 DEF EndsIn
                <5>. QED
                    BY <2>3, <5>3 DEF LastState
            <4>3. CASE /\ Len(stores') = Len(stores)
                       /\ \A i \in 2..Len(stores) : stores'[i] = stores[i]
                <5>1. k \in 1..Len(stores') /\ stores'[k] = stores[k]
                    BY <4>1, <4>3
                <5>2. \A j \in k + 1..Len(stores') : ~Writes(stores'[j], "state")
                    <6>. TAKE j \in k + 1..Len(stores')
                    <6>1. j \in 2..Len(stores) /\ j \in k + 1..Len(stores)
                        BY <2>3, <4>1, <4>3
                    <6>. QED
                        BY <2>5, <4>3, <6>1
                <5>3. EndsIn(stores', state)
                    BY <2>5, <5>1, <5>2 DEF EndsIn
                <5>. QED
                    BY <2>3, <5>3 DEF LastState
            <4>. QED
                BY <2>1, <4>2, <4>3
        <3>. QED
            BY <3>1, <3>2, <3>3
    <2>. QED
        BY <2>4, <2>5 DEF LastState, EndsIn
<1>3. CASE UNCHANGED <<state, stores, ram>>
    BY <1>3 DEF LastState
<1>4. CASE Update \/ handle_status \/ Copied \/ UNCHANGED vars
    BY <1>3, <1>4, ReadersOnlyRead DEF vars, writerVars, view
<1>. QED
    BY <1>1, <1>2, <1>4 DEF Next

\* Stores that are harmless stay so.
LEMMA StoresLeft ==
  ASSUME TypeInv, Store
  PROVE  \E s \in stores[1] :
           /\ 1 \in 1..Len(stores) /\ s \in StoreType
           /\ ram' = [ram EXCEPT ![s[1]] = s[2]]
           /\ \A i \in 1..Len(stores') : \E j \in 1..Len(stores) : stores'[i] \subseteq stores[j]
           /\ \/ stores[1] = {s} /\ \A i \in 1..Len(stores') :
                    i + 1 \in 2..Len(stores) /\ stores'[i] = stores[i + 1]
              \/ /\ Len(stores') = Len(stores) /\ stores'[1] = stores[1] \ {s}
                 /\ \A i \in 2..Len(stores') : stores'[i] = stores[i]
<1>1. PICK s \in stores[1] :
         /\ 1 \in 1..Len(stores) /\ s \in StoreType
         /\ ram' = [ram EXCEPT ![s[1]] = s[2]]
         /\ stores' \in Lists
         /\ \/ /\ stores[1] = {s} /\ Len(stores') = Len(stores) - 1
               /\ \A i \in 1..Len(stores') : i + 1 \in 1..Len(stores)
                                             /\ stores'[i] = stores[i + 1]
            \/ /\ Len(stores') = Len(stores)
               /\ stores'[1] = stores[1] \ {s}
               /\ \A i \in 2..Len(stores) : stores'[i] = stores[i]
    BY StoreEffect
<1>2. Len(stores) \in Nat /\ Len(stores') \in Nat
    BY <1>1 DEF TypeInv, Lists
<1>3. CASE /\ stores[1] = {s} /\ Len(stores') = Len(stores) - 1
           /\ \A i \in 1..Len(stores') : i + 1 \in 1..Len(stores)
                                         /\ stores'[i] = stores[i + 1]
    <2>1. \A i \in 1..Len(stores') : i + 1 \in 2..Len(stores)
        BY <1>2, <1>3
    <2>. QED
        BY <1>1, <1>3, <2>1
<1>4. CASE /\ Len(stores') = Len(stores)
           /\ stores'[1] = stores[1] \ {s}
           /\ \A i \in 2..Len(stores) : stores'[i] = stores[i]
    <2>1. \A i \in 1..Len(stores') : i = 1 \/ i \in 2..Len(stores)
        BY <1>2, <1>4
    <2>2. \A i \in 1..Len(stores') : stores'[i] \subseteq stores[i]
        BY <1>4, <2>1
    <2>. QED
        BY <1>1, <1>4, <2>2
<1>. QED
    BY <1>1, <1>3, <1>4

LEMMA StepBefore == ASSUME TypeInv, LastState, BeforeInv, [Next]_vars PROVE BeforeInv'
<1>1. CASE Move
    <2>1. ram' = ram
        BY <1>1 DEF Move
    <2>. QED
        BY <1>1, <2>1, MoveEffect DEF BeforeInv
<1>2. CASE Store
    <2>. SUFFICES ASSUME ~ending', state' # "STA_CONNECTED"
                  PROVE  /\ ram'.state # "STA_CONNECTED"
                         /\ \A i \in 1..Len(stores') :
                               <<"state", "STA_CONNECTED">> \notin stores'[i]
        BY DEF BeforeInv
    <2>1. /\ ram.state # "STA_CONNECTED"
          /\ \A i \in 1..Len(stores) : <<"state", "STA_CONNECTED">> \notin stores[i]
        BY <1>2 DEF Store, view, BeforeInv
    <2>2. PICK s \in stores[1] :
             /\ 1 \in 1..Len(stores) /\ s \in StoreType
             /\ ram' = [ram EXCEPT ![s[1]] = s[2]]
             /\ \A i \in 1..Len(stores') : \E j \in 1..Len(stores) : stores'[i] \subseteq stores[j]
        BY <1>2, StoresLeft
    <2>3. ram'.state # "STA_CONNECTED"
        <3>1. s # <<"state", "STA_CONNECTED">>
            BY <2>1, <2>2
        <3>2. s[1] = "state" => s = <<"state", s[2]>>
            BY <2>2 DEF StoreType
        <3>. QED
            BY <2>1, <2>2, <3>1, <3>2, StoreWrites
    <2>. QED
        BY <2>1, <2>2, <2>3
<1>3. CASE UNCHANGED <<state, stores, ram, ending>>
    BY <1>3 DEF BeforeInv
<1>4. CASE Update \/ handle_status \/ Copied \/ UNCHANGED vars
    BY <1>3, <1>4, ReadersOnlyRead DEF vars, writerVars, view
<1>. QED
    BY <1>1, <1>2, <1>4 DEF Next

LEMMA StepConnection ==
  ASSUME TypeInv, LastState, ConnectionInv, [Next]_vars
  PROVE  ConnectionInv'
<1>1. CASE Move
    <2>. SUFFICES ASSUME ~ending', state' = "STA_CONNECTED" PROVE Clearing'
        BY DEF ConnectionInv
    <2>1. ram.state = "STA_CONNECTING" /\ stores' = <<First, Second>> /\ ram' = ram
        BY <1>1, MoveEffect DEF Move
    <2>2. Len(stores') = 2 /\ stores'[1] = First /\ stores'[2] = Second
        BY <2>1
    <2>3. \A i \in 2..Len(stores') : \A s \in stores'[i] : Harmless(s)
        BY <2>2 DEF Second, Harmless
    <2>. QED
        BY <2>1, <2>2, <2>3 DEF Clearing, First
<1>2. CASE Store
    <2>. SUFFICES ASSUME ~ending', state' = "STA_CONNECTED" PROVE Cleared' \/ Clearing'
        BY DEF ConnectionInv
    <2>1. Cleared \/ Clearing
        BY <1>2 DEF Store, view, ConnectionInv
    <2>2. PICK s \in stores[1] :
             /\ 1 \in 1..Len(stores) /\ s \in StoreType
             /\ ram' = [ram EXCEPT ![s[1]] = s[2]]
             /\ \A i \in 1..Len(stores') : \E j \in 1..Len(stores) : stores'[i] \subseteq stores[j]
             /\ \/ stores[1] = {s} /\ \A i \in 1..Len(stores') :
                      i + 1 \in 2..Len(stores) /\ stores'[i] = stores[i + 1]
                \/ /\ Len(stores') = Len(stores) /\ stores'[1] = stores[1] \ {s}
                   /\ \A i \in 2..Len(stores') : stores'[i] = stores[i]
        BY <1>2, StoresLeft
    <2>3. CASE Cleared
        <3>1. s[1] \in {"since", "state"}
            BY <2>2, <2>3 DEF Cleared, Harmless
        <3>2. ram'.retries = 0 /\ ram'.error = "none"
            BY <2>2, <2>3, <3>1, StoreWrites DEF Cleared
        <3>. QED
            BY <2>2, <2>3, <3>2 DEF Cleared
    <2>4. CASE Clearing
        <3>1. s \in {<<"retries", 0>>, <<"error", "none">>}
            BY <2>2, <2>4 DEF Clearing
        <3>2. /\ ram'.state = ram.state
              /\ s = <<"retries", 0>> => ram'.retries = 0 /\ ram'.error = ram.error
              /\ s = <<"error", "none">> => ram'.error = "none" /\ ram'.retries = ram.retries
            <4>1. s[1] # "state"
                BY <3>1
            <4>. QED
                BY <2>2, <4>1, StoreWrites
        <3>3. /\ <<"retries", 0>> \in stores[1] \ {s} \/ ram'.retries = 0
              /\ <<"error", "none">> \in stores[1] \ {s} \/ ram'.error = "none"
            BY <2>4, <3>1, <3>2 DEF Clearing
        <3>4. CASE stores[1] = {s} /\ \A i \in 1..Len(stores') :
                      i + 1 \in 2..Len(stores) /\ stores'[i] = stores[i + 1]
            BY <2>4, <3>3, <3>4 DEF Clearing, Cleared
        <3>5. CASE /\ Len(stores') = Len(stores) /\ stores'[1] = stores[1] \ {s}
                   /\ \A i \in 2..Len(stores') : stores'[i] = stores[i]
            BY <2>4, <3>2, <3>3, <3>5 DEF Clearing
        <3>. QED
            BY <2>2, <3>4, <3>5
    <2>. QED
        BY <2>1, <2>3, <2>4
<1>3. CASE UNCHANGED <<state, stores, ram, ending>>
    BY <1>3 DEF ConnectionInv, Cleared, Clearing
<1>4. CASE Update \/ handle_status \/ Copied \/ UNCHANGED vars
    BY <1>3, <1>4, ReadersOnlyRead DEF vars, writerVars, view
<1>. QED
    BY <1>1, <1>2, <1>4 DEF Next

\* A connection that is shown and has met no failure is clean, and stays shown.
LEMMA ShownIsClean ==
  ASSUME ConnectionInv, BeforeInv, ~ending, ram.state = "STA_CONNECTED"
  PROVE  state = "STA_CONNECTED" /\ Cleared
BY DEF ConnectionInv, BeforeInv, Clearing

LEMMA StepReader ==
  ASSUME TypeInv, ConnectionInv, BeforeInv, ReaderInv, [Next]_vars
  PROVE  ReaderInv'
<1>0. overlap \in BOOLEAN /\ ending \in BOOLEAN /\ status \in StatusType
    BY DEF TypeInv, TypeOK
<1>1. CASE Move
    <2>1. UNCHANGED <<ram, at, status>> /\ overlap' = (overlap \/ ending')
        BY <1>1 DEF Move, readerVars
    <2>. QED
        BY <1>0, <2>1 DEF ReaderInv
<1>2. CASE Store
    <2>1. UNCHANGED <<at, status, overlap, ending>>
        BY <1>2 DEF Store, readerVars
    <2>2. ~ending /\ ram.state = "STA_CONNECTED" => ram'.state = "STA_CONNECTED"
        <3>. SUFFICES ASSUME ~ending, ram.state = "STA_CONNECTED"
                      PROVE  ram'.state = "STA_CONNECTED"
            OBVIOUS
        <3>1. PICK s \in stores[1] :
                 /\ 1 \in 1..Len(stores) /\ s \in StoreType
                 /\ ram' = [ram EXCEPT ![s[1]] = s[2]]
            BY <1>2, StoresLeft
        <3>2. Harmless(s)
            BY <3>1, ShownIsClean DEF Cleared
        <3>3. s[1] = "state" => s[2] = "STA_CONNECTED"
            BY <3>2 DEF Harmless
        <3>. QED
            BY <3>1, <3>3, StoreWrites
    <2>. QED
        BY <2>1, <2>2 DEF ReaderInv
<1>3. CASE Update
    <2>1. UNCHANGED <<ram, ending>>
        BY <1>3, ReadersOnlyRead
    <2>2. ~ending /\ ram.state = "STA_CONNECTED" => ram.retries = 0 /\ ram.error = "none"
        BY ShownIsClean DEF Cleared
    <2>3. CASE Begin \/ Assign \/ Assigned
        BY <2>3 DEF Begin, Assign, Assigned, ReaderInv, Filling
    <2>4. CASE ReadState
        BY <1>0, <2>1, <2>4 DEF ReadState, Fill, ReaderInv, StatusType
    <2>5. CASE ReadSignal
        BY <1>0, <2>1, <2>5 DEF ReadSignal, Fill, ReaderInv, Filling, StatusType
    <2>6. CASE ReadCount
        BY <1>0, <2>1, <2>2, <2>6 DEF ReadCount, Fill, ReaderInv, Filling, StatusType
    <2>7. CASE ReadError
        BY <1>0, <2>1, <2>2, <2>7 DEF ReadError, Fill, ReaderInv, Filling, StatusType
    <2>8. CASE ErrorCopied
        BY <1>0, <2>1, <2>8 DEF ErrorCopied, Fill, ReaderInv, Filling, StatusType
    <2>9. CASE ReadNever \/ ReadClock \/ ReadSince
        BY <1>0, <2>1, <2>9 DEF ReadNever, ReadClock, ReadSince, Fill, ReaderInv, Filling,
                                StatusType
    <2>. QED
        BY <1>3, <2>3, <2>4, <2>5, <2>6, <2>7, <2>8, <2>9 DEF Update, network_get_status
<1>4. CASE handle_status \/ Copied \/ UNCHANGED vars
    BY <1>4 DEF handle_status, Copied, vars, writerVars, readerVars, ReaderInv
<1>. QED
    BY <1>1, <1>2, <1>3, <1>4 DEF Next

LEMMA NextIInv == IInv /\ [Next]_vars => IInv'
BY StepTypeInv, StepLastState, StepBefore, StepConnection, StepReader DEF IInv

\* A report that says STA_CONNECTED carries no retries and no error of earlier attempts
\* unless the connection had met its end meanwhile, wherever the tasks interleave and
\* whatever stores the compiler exchanged between two calls.
THEOREM ReportsAreClean == Spec => []ConnectedReportsAreClean
<1>1. IInv => ConnectedReportsAreClean
    BY DEF IInv, ReaderInv, Filling, ConnectedReportsAreClean, Built
<1>. QED
    BY <1>1, InitIInv, NextIInv, PTL DEF Spec

=============================================================================

---------------------------- MODULE StatusReport ----------------------------
(***************************************************************************)
(* /status: task_network writes its connection status, task_web_ui on the  *)
(* other core reads it piece by piece (network_get_status) and rebuilds    *)
(* the JSON, AsyncTCP copies the JSON into responses.  No lock is taken by *)
(* any of them.                                                            *)
(*                                                                         *)
(* The writer makes the moves of WifiView, which NetworkManager implements. *)
(* Here a move is the list of its stores in the source's order.  The globals *)
(* are plain ones, so that the compiler may put stores in any order that   *)
(* stand between two calls (snprintf, millis, log_i): such a list is a     *)
(* sequence of sets of stores.  A text is neither written nor copied at    *)
(* once; what is not one of the texts is "mixed".                          *)
(* With the state not STA_CONNECTED the compiler may also load the count   *)
(* first; no property tells such reports apart.                            *)
(***************************************************************************)
EXTENDS WifiView, Sequences

CONSTANT MaxConnects    \* bound on the connections made

ASSUME RetriesAssumption == MaxRetries \in Nat \ {0}
ASSUME ConnectsAssumption == MaxConnects \in Nat \ {0}

VARIABLES
    ram,        \* the globals as they are in memory
    stores,     \* what task_network has still to store for its present move
    connects,   \* connections made so far, as a clock (bounded)
    ending,     \* the connection has met its first failure or loss (history)
    at,         \* task_web_ui: "boot", "state", "signal", ... "assigning"
    status,     \* the WiFiStatus network_get_status is filling
    overlap,    \* the connection it saw was ending (history)
    json,       \* what g_cached_status_json tells
    copying     \* AsyncTCP is copying it into a response

writerVars == <<view, stores, connects, ending>>
readerVars == <<at, status>>
vars == <<writerVars, ram, readerVars, overlap, json, copying>>

States == {"DISCONNECTED", "STA_CONNECTING", "STA_CONNECTED", "AP_MODE"}
Texts  == {"none", "retrying", "exhausted", "disconnected", "mixed"}

\* A JSON is empty (before the first assignment), torn (bytes of two strings, or of
\* memory already freed), or a report; then it is the truth or not.
Contents == {"empty", "torn", "untrue", "true"}

TypeOK ==
    /\ state \in States /\ retries \in 0..MaxRetries - 1 /\ error \in Texts
    /\ connectedOnce \in BOOLEAN
    /\ ram \in [state : States, retries : 0..MaxRetries, error : Texts,
                since : 0..MaxConnects]
    /\ connects \in 0..MaxConnects /\ ending \in BOOLEAN
    /\ at \in {"boot", "state", "signal", "count", "error", "copied", "since", "uptime",
               "assign", "assigning"}
    /\ overlap \in BOOLEAN
    /\ json \in Contents /\ copying \in BOOLEAN

Blank == [state |-> "DISCONNECTED", rssi |-> FALSE, retries |-> 0, error |-> "none",
          clock |-> 0, uptime |-> "none"]

Init ==
    /\ ViewInit
    /\ ram = [state |-> "DISCONNECTED", retries |-> 0, error |-> "none", since |-> 0]
    /\ stores = <<>> /\ connects = 0 /\ ending = FALSE
    /\ at = "boot" /\ status = Blank /\ overlap = FALSE
    /\ json = "empty" /\ copying = FALSE

-----------------------------------------------------------------------------
(* task_network: the stores of each move.                                  *)

Written(text) == <<{<<"error", "mixed">>}, {<<"error", text>>}>>     \* snprintf
Shown(first, last) ==
    IF first = last THEN <<>> ELSE <<{<<"state", last>>}>>

\* on_wifi_connection_failed; when the attempts are exhausted the incremented count
\* may or may not reach memory.
FailStores ==
    IF retries' # 0
      THEN {<<{<<"retries", retries'>>}>> \o Written(error')}
      ELSE {s \o <<{<<"retries", 0>>}>> \o Written(error') :
               s \in {<<>>, <<{<<"retries", MaxRetries>>}>>}}

\* Mutant: the state is published before what the old attempts left is cleared.
ConnectStoresStateFirst ==
    <<{<<"state", "STA_CONNECTED">>}, {<<"retries", 0>>, <<"error", "none">>},
      {<<"since", connects + 1>>}>> \o Shown("STA_CONNECTED", state')

\* network_tick, STA_CONNECTING: millis() stands between the two groups.
ConnectStores ==
    <<{<<"retries", 0>>, <<"error", "none">>},
      {<<"since", connects + 1>>, <<"state", "STA_CONNECTED">>}>>
        \o Shown("STA_CONNECTED", state')

LoseStores ==
    <<{<<"retries", 0>>}>> \o Written("disconnected")
        \o <<{<<"state", "DISCONNECTED">>}>> \o Shown("DISCONNECTED", state')

SavedStores ==
    <<{<<"retries", 0>>, <<"error", "none">>, <<"state", "DISCONNECTED">>}>>
        \o Shown("DISCONNECTED", state')

StartStores == <<{<<"state", "STA_CONNECTING">>}>> \o Shown("STA_CONNECTING", state')

NewConnection ==
    /\ Connect /\ stores' = ConnectStores
    /\ connects < MaxConnects /\ connects' = connects + 1
    /\ ending' = (state' # "STA_CONNECTED")

OtherMove ==
    /\ \/ Fail /\ stores' \in FailStores
       \/ StartConnecting /\ stores' = StartStores
       \/ Lose /\ stores' = LoseStores
       \/ Saved /\ stores' = SavedStores
       \/ OpenPortal /\ stores' = <<{<<"state", "AP_MODE">>}>>
    /\ ending' = (ending \/ state = "STA_CONNECTED")
    /\ UNCHANGED connects

\* The next move of network_tick or of the failure handler begins.
Move ==
    /\ stores = <<>>
    /\ NewConnection \/ OtherMove
    /\ overlap' = (overlap \/ ending')
    /\ UNCHANGED <<ram, readerVars, json, copying>>

\* What was true is so no more.
Dated(content) == IF content = "true" THEN "untrue" ELSE content

\* One of the stores that may come next.
Store ==
    /\ stores # <<>>
    /\ \E store \in Head(stores) :
         /\ ram' = [ram EXCEPT ![store[1]] = store[2]]
         /\ stores' = IF Head(stores) = {store} THEN Tail(stores)
                      ELSE <<Head(stores) \ {store}>> \o Tail(stores)
    /\ json' = Dated(json)
    /\ UNCHANGED <<view, connects, ending, readerVars, overlap, copying>>

-----------------------------------------------------------------------------
(* task_web_ui: web_ui_init, then web_ui_update_status for ever.           *)

\* web_ui_init starts the server before it builds the first JSON.
Begin ==
    /\ at = "boot" /\ at' = "state"
    /\ UNCHANGED <<writerVars, ram, status, overlap, json, copying>>

Fill(from, to, field, value) ==
    /\ at = from /\ at' = to
    /\ status' = [status EXCEPT ![field] = value]
    /\ UNCHANGED <<writerVars, ram, json, copying>>

\* status.state = g_state.
ReadState ==
    /\ Fill("state", "signal", "state", ram.state)
    /\ overlap' = ending

\* g_state once more, from memory or from a register; WiFi.RSSI() if connected.
ReadSignal ==
    /\ \E s \in {status.state, ram.state} :
         Fill("signal", "count", "rssi", s = "STA_CONNECTED")
    /\ UNCHANGED overlap

ReadCount == Fill("count", "error", "retries", ram.retries) /\ UNCHANGED overlap

\* Mutant: an error is only copied while retries are counted.
ReadErrorIfRetrying ==
    /\ Fill("error", "copied", "error", IF status.retries = 0 THEN "none" ELSE ram.error)
    /\ UNCHANGED overlap

\* strncpy of g_last_error, which ends at once if the text is empty ...
ReadError == Fill("error", "copied", "error", ram.error) /\ UNCHANGED overlap

\* ... and otherwise runs into whatever is written meanwhile.
ErrorCopied ==
    /\ Fill("copied", "since", "error",
            IF status.error \in {"none", ram.error} THEN status.error ELSE "mixed")
    /\ UNCHANGED overlap

\* g_connected_since_ms != 0, then millis() ...
ReadNever ==
    /\ ram.since = 0
    /\ Fill("since", "assign", "uptime", "none")
    /\ UNCHANGED overlap

ReadClock ==
    /\ ram.since # 0
    /\ Fill("since", "uptime", "clock", connects)
    /\ UNCHANGED overlap

\* ... less g_connected_since_ms as it is now, in unsigned arithmetic.
ReadSince ==
    /\ at = "uptime" /\ at' = "assign"
    /\ status' = [status EXCEPT !.clock = 0,
                     !.uptime = IF ram.since > status.clock THEN "wrapped" ELSE "some"]
    /\ UNCHANGED <<writerVars, ram, overlap, json, copying>>

network_get_status ==
    ReadState \/ ReadSignal \/ ReadCount \/ ReadError \/ ErrorCopied
        \/ ReadNever \/ ReadClock \/ ReadSince

\* What build_status_json makes of the WiFiStatus, and what would be true.
Built ==
    [state |-> status.state, rssi |-> status.rssi, retries |-> status.retries,
     error |-> status.error, uptime |-> status.uptime]
Truth ==
    [state |-> ram.state, rssi |-> ram.state = "STA_CONNECTED", retries |-> ram.retries,
     error |-> ram.error, uptime |-> IF ram.since = 0 THEN "none" ELSE "some"]

\* The String is assigned: its memory is moved in place or freed, then it is whole
\* again.
Assign ==
    /\ at = "assign" /\ at' = "assigning"
    /\ json' = "torn"
    /\ UNCHANGED <<writerVars, ram, status, overlap, copying>>

Assigned ==
    /\ at = "assigning" /\ at' = "state"
    /\ json' = IF Built = Truth THEN "true" ELSE "untrue"
    /\ status' = Blank
    /\ UNCHANGED <<writerVars, ram, overlap, copying>>

Update == Begin \/ network_get_status \/ Assign \/ Assigned

-----------------------------------------------------------------------------
(* AsyncTCP: handle_status copies the String into a response.              *)

handle_status ==
    /\ at # "boot" /\ ~copying /\ copying' = TRUE
    /\ UNCHANGED <<writerVars, ram, readerVars, overlap, json>>

Copied ==
    /\ copying /\ copying' = FALSE
    /\ UNCHANGED <<writerVars, ram, readerVars, overlap, json>>

Next == Move \/ Store \/ Update \/ handle_status \/ Copied

Spec == Init /\ [][Next]_vars

\* The tasks go on with what they began; nothing is assumed of the radio or of the
\* users.
FairSpec == Spec /\ WF_vars(Store) /\ WF_vars(Update)

-----------------------------------------------------------------------------
(* Correctness.                                                            *)

\* A report that says STA_CONNECTED never carries the retries or the error of the
\* attempts before that connection: it shows some only if the connection had met its
\* end while the report was being put together.  (The writer clears them before it
\* publishes the state, the reader reads the state first.)
ConnectedReportsAreClean ==
    at = "assign" /\ status.state = "STA_CONNECTED" /\ ~overlap =>
        Built.retries = 0 /\ Built.error = "none"

\* When the connection has come to rest, the JSON that /status serves is in the end
\* always the whole truth, but for the moments of its assignment: whatever was mixed
\* or out of date on the way is mended.
StatusCatchesUp ==
    <>[][FALSE]_<<view, stores, ram>> => <>[](json = "true" \/ at = "assigning")

-----------------------------------------------------------------------------
(* What the comments say and the code does not do.                         *)

\* network_manager.h:67, "Get current WiFi status snapshot. Safe to call from any
\* task": its parts were true together at some moment of the call, if only as to
\* state and signal strength (network_manager.h:33, "0 if not connected").
SignalOnlyIfConnected == at = "assign" /\ status.rssi => status.state = "STA_CONNECTED"

\* network_manager.h:36: seconds since STA_CONNECTED.
UptimeIsATime == at = "assign" => status.uptime # "wrapped"

\* web_ui_service.cpp:206-207: GET /status serves the cached status JSON: not an empty
\* String before there is one, nor one that is being assigned.
ServesReports ==
    /\ [](copying => json # "empty")
    /\ [][copying /\ copying' => UNCHANGED (json = "torn")]_vars
=============================================================================

------------------------------ MODULE WifiView ------------------------------
(***************************************************************************)
(* What network_manager.cpp promises to those who ask network_get_status:  *)
(* the connection state, the retry count, the last error and whether there *)
(* has been a connection yet, without the event bits, timers and IotWebConf *)
(* that drive them.  NetworkManager implements it, and StatusReport takes  *)
(* it as the writer of what it reads.                                      *)
(*                                                                         *)
(* The count and the error say how the present attempt to connect goes:    *)
(* they change with a failure, and a new start clears them together with   *)
(* the move of the state it belongs to.                                    *)
(***************************************************************************)
EXTENDS Naturals

CONSTANT MaxRetries     \* WIFI_RETRY_COUNT

VARIABLES
    state,          \* g_state
    retries,        \* g_retry_count
    error,          \* g_last_error: which of its texts, "none" if empty
    connectedOnce   \* g_connected_since_ms # 0

view == <<state, retries, error, connectedOnce>>

ViewInit ==
    state = "DISCONNECTED" /\ retries = 0 /\ error = "none" /\ connectedOnce = FALSE

\* network_tick may find IotWebConf's access point open and end in AP_MODE instead.
Becomes(next) == state' \in {next, "AP_MODE"}

\* An attempt fails: one more retry, or the attempts are exhausted.  If the state is
\* still STA_CONNECTED, it is left before another attempt can fail.
Fail ==
    /\ state = "STA_CONNECTED" => error = "none"
    /\ IF retries + 1 < MaxRetries
         THEN retries' = retries + 1 /\ error' = "retrying"
         ELSE retries' = 0 /\ error' = "exhausted"
    /\ UNCHANGED <<state, connectedOnce>>

\* The next attempt goes on counting where the last one stopped.
StartConnecting ==
    /\ state = "DISCONNECTED"
    /\ Becomes("STA_CONNECTING")
    /\ UNCHANGED <<retries, error, connectedOnce>>

Connect ==
    /\ state = "STA_CONNECTING"
    /\ Becomes("STA_CONNECTED")
    /\ retries' = 0 /\ error' = "none" /\ connectedOnce' = TRUE

Lose ==
    /\ state = "STA_CONNECTED"
    /\ Becomes("DISCONNECTED")
    /\ retries' = 0 /\ error' = "disconnected"
    /\ UNCHANGED connectedOnce

\* The user saves a configuration on the portal.
Saved ==
    /\ state = "AP_MODE"
    /\ Becomes("DISCONNECTED")
    /\ retries' = 0 /\ error' = "none"
    /\ UNCHANGED connectedOnce

\* The access point opens, and nothing else happens in this tick.
OpenPortal ==
    /\ state # "AP_MODE" /\ state' = "AP_MODE"
    /\ UNCHANGED <<retries, error, connectedOnce>>

ViewNext == Fail \/ StartConnecting \/ Connect \/ Lose \/ Saved \/ OpenPortal

ViewSpec == ViewInit /\ [][ViewNext]_view
=============================================================================

------------------------------ MODULE RebootLog ------------------------------
(***************************************************************************)
(* log_reboot_reason of health_monitor.cpp over many lives of the device:  *)
(* every boot reads the counter from NVS, writes the counter and the       *)
(* reason of the reset, and commits.  Any call may fail, and a reset may   *)
(* come between any two of them; NVS promises a write only once it is      *)
(* committed, so that an earlier reset may lose it or not, each key on its *)
(* own.                                                                    *)
(***************************************************************************)
EXTENDS Naturals

CONSTANTS
    PowerOn,        \* ESP_RST_POWERON
    Reasons,        \* the values of esp_reset_reason()
    NoReason,       \* "last_reason" is not in NVS
    MaxBoots        \* bound: lives of the device

ASSUME ReasonsAssumption == NoReason \notin Reasons /\ PowerOn \in Reasons
ASSUME BoundAssumption == MaxBoots \in Nat \ {0}

VARIABLES
    pc,         \* where health_init is
    reason,     \* esp_reset_reason()
    rebootCount,    \* reboot_count, the local variable
    stored,     \* the two keys as committed to NVS (count 0: not there)
    written,    \* the two keys as NVS returns them in this life
    boots,      \* lives so far (history)
    logged,     \* lives whose log was written without an error (history)
    readable    \* no read of the counter has failed so far (history)

logVars == <<pc, reason, rebootCount, stored, written, boots, logged, readable>>

Log == [count : Nat, reason : Reasons \cup {NoReason}]

LogTypeOK ==
    /\ pc \in {"init", "no_wdt", "open", "get", "set_count", "set_reason", "commit",
               "ok", "failed"}
    /\ reason \in Reasons
    /\ rebootCount \in Nat
    /\ stored \in Log /\ written \in Log
    /\ boots \in 1..MaxBoots /\ logged \in 0..MaxBoots
    /\ readable \in BOOLEAN

LogInit ==
    /\ pc = "init" /\ reason = PowerOn /\ rebootCount = 0
    /\ stored = [count |-> 0, reason |-> NoReason] /\ written = stored
    /\ boots = 1 /\ logged = 0 /\ readable = TRUE

\* esp_task_wdt_init comes first; if it fails health_init returns.
WdtInit ==
    /\ pc = "init"
    /\ pc' \in {"open", "no_wdt"}
    /\ UNCHANGED <<reason, rebootCount, stored, written, boots, logged, readable>>

NvsOpen ==
    /\ pc = "open"
    /\ pc' \in {"get", "failed"}
    /\ UNCHANGED <<reason, rebootCount, stored, written, boots, logged, readable>>

\* Mutant: without an else the counter of the first boot is incremented too.
GetCountNoElse ==
    /\ pc = "get" /\ pc' = "set_count"
    /\ \/ /\ rebootCount' = (IF written.count = 0 THEN 1 ELSE written.count) + 1
          /\ UNCHANGED readable
       \/ rebootCount' = 1 /\ readable' = FALSE
    /\ UNCHANGED <<reason, stored, written, boots, logged>>

\* Mutant: a power-on counts as the first boot.
GetCountPowerOn ==
    /\ pc = "get" /\ pc' = "set_count"
    /\ \/ /\ rebootCount' = IF reason = PowerOn THEN 1 ELSE written.count + 1
          /\ UNCHANGED readable
       \/ rebootCount' = 1 /\ readable' = FALSE
    /\ UNCHANGED <<reason, stored, written, boots, logged>>

\* nvs_get_u32: a counter that is not there, or that cannot be read, starts at 1.
GetCount ==
    /\ pc = "get" /\ pc' = "set_count"
    /\ \/ rebootCount' = written.count + 1 /\ UNCHANGED readable
       \/ rebootCount' = 1 /\ readable' = FALSE
    /\ UNCHANGED <<reason, stored, written, boots, logged>>

\* nvs_set_u32; an error is logged and the rest goes on.
SetCount ==
    /\ pc = "set_count" /\ pc' = "set_reason"
    /\ \E done \in BOOLEAN :
         written' = IF done THEN [written EXCEPT !.count = rebootCount] ELSE written
    /\ UNCHANGED <<reason, rebootCount, stored, boots, logged, readable>>

\* nvs_set_u8.
SetReason ==
    /\ pc = "set_reason" /\ pc' = "commit"
    /\ \E done \in BOOLEAN :
         written' = IF done THEN [written EXCEPT !.reason = reason] ELSE written
    /\ UNCHANGED <<reason, rebootCount, stored, boots, logged, readable>>

\* nvs_commit and nvs_close.
Commit ==
    /\ pc = "commit"
    /\ \/ /\ pc' = "ok" /\ stored' = written
          /\ logged' = IF written = [count |-> rebootCount, reason |-> reason]
                       THEN logged + 1 ELSE logged
       \/ pc' = "failed" /\ UNCHANGED <<stored, logged>>
    /\ UNCHANGED <<reason, rebootCount, written, boots, readable>>

\* The device is reset, whatever it is doing.
Reset ==
    /\ boots < MaxBoots /\ boots' = boots + 1
    /\ pc' = "init" /\ reason' \in Reasons /\ rebootCount' = 0
    /\ stored' \in [count : {stored.count, written.count},
                    reason : {stored.reason, written.reason}]
    /\ written' = stored'
    /\ UNCHANGED <<logged, readable>>

\* health_init has returned and the device runs; the log stays as it is.
Run == pc \in {"ok", "failed", "no_wdt"} /\ UNCHANGED logVars

LogNext ==
    \/ WdtInit \/ NvsOpen \/ GetCount \/ SetCount \/ SetReason \/ Commit
    \/ Reset \/ Run

LogSpec == LogInit /\ [][LogNext]_logVars

-----------------------------------------------------------------------------
(* Correctness.                                                            *)

\* What the web page would be told: health_get_reboot_count and
\* health_get_last_reboot_reason.
health_get_reboot_count == written.count
health_get_last_reboot_reason == written.reason

\* The counter never runs ahead of the lives of the device, whatever fails and
\* wherever a reset comes.
CountNeverAhead == health_get_reboot_count <= boots /\ stored.count <= boots

\* No life that was logged is lost from the counter, as long as the counter can be
\* read: what fails elsewhere costs at most the life it happens in.
LoggedLivesAreCounted == readable => logged <= stored.count


-----------------------------------------------------------------------------
(* What the documents say and the code does not do.                        *)

\* health_monitor.h:10: the reason is stored on every boot.  (This asks nothing of
\* boots in which NVS failed.)
ReasonOnEveryBoot == pc = "no_wdt" => health_get_last_reboot_reason = reason
=============================================================================

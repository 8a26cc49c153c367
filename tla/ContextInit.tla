---------------------------- MODULE ContextInit ----------------------------
(***************************************************************************)
(* init() of source/external_server_api.cpp: it allocates a context, goes  *)
(* through the key-value pairs of the external server's configuration in   *)
(* the order the container yields them, checks the value of every key it   *)
(* knows, and either deletes the context and returns nullptr or hands the  *)
(* settings to the fleet API client and returns the context.  A caller     *)
(* that got nullptr may call again.                                        *)
(*                                                                         *)
(* Values are abstracted to what the checks tell apart:                    *)
(*   "empty"     nothing                                                   *)
(*   "proper"    a URL, a lower-case name or a number, as the key needs    *)
(*   "tailed"    a proper value followed by what does not belong to it,    *)
(*               "5000 ms"                                                 *)
(*   "negative"  a number below 0                                          *)
(*   "oversized" a number above 0 that does not fit an int; its digits     *)
(*               make a name                                               *)
(***************************************************************************)
EXTENDS Integers

CONSTANTS
  Configs,    \* configurations: functions from a set of keys to values
  MaxCalls    \* bound on the calls of init()

Names == {"company_name", "car_name"}

Texts == {"api_url", "api_key"} \cup Names

Numbers == {"max_requests_threshold_count", "max_requests_threshold_period_ms",
            "delay_after_threshold_reached_ms", "retry_requests_delay_ms"}

Settings == Texts \cup Numbers

Values == {"empty", "proper", "tailed", "negative", "oversized"}

ASSUME InitAssumption ==
  /\ \A c \in Configs : \A k \in DOMAIN c : c[k] \in Values
  /\ MaxCalls \in Nat

VARIABLES
  config,      \* the external server's configuration of the module
  pending,     \* keys the loop has not reached
  settings,    \* the locals of init(); "garbage" is an indeterminate value
  contexts,    \* number of contexts allocated and not deleted
  result,      \* "none" before the first call, "running", "null" or "context"
  calls        \* number of calls

vars == <<config, pending, settings, contexts, result, calls>>

TypeOK ==
  /\ config \in Configs
  /\ pending \subseteq DOMAIN config
  /\ settings \in [Settings -> Values \cup {"garbage"}]
  /\ contexts \in 0 .. 1
  /\ result \in {"none", "running", "null", "context"}
  /\ calls \in 0 .. MaxCalls

\* Strings are constructed empty; the four numbers are declared without a value.
Fresh == [s \in Settings |-> IF s \in Texts THEN "empty" ELSE "garbage"]

Init ==
  /\ config \in Configs
  /\ pending = {}
  /\ settings = Fresh
  /\ contexts = 0
  /\ result = "none"
  /\ calls = 0

CallInit ==
  /\ result \in {"none", "null"}
  /\ calls < MaxCalls
  /\ calls' = calls + 1
  /\ pending' = DOMAIN config
  /\ settings' = Fresh
  /\ contexts' = contexts + 1
  /\ result' = "running"
  /\ UNCHANGED config

\* Mutant: a name may be empty, as its pattern allows.
AcceptsEmptyName(k, v) ==
  \/ k \in Texts /\ v = "proper"
  \/ k \in Names /\ v \in {"oversized", "empty"}
  \/ k = "api_key" /\ v # "empty"
  \/ k \in Numbers /\ v \in {"proper", "tailed"}

\* The check of key k lets value v pass: stoi stops at the first character
\* that is not a digit and throws on a number that is too large, a name may
\* consist of digits, and any api_key will do if there is one.
Accepts(k, v) ==
  \/ k \in Texts /\ v = "proper"
  \/ k \in Names /\ v = "oversized"
  \/ k = "api_key" /\ v # "empty"
  \/ k \in Numbers /\ v \in {"proper", "tailed"}

\* Mutant: a number is stored in the variable of another one.
SettingMixedUp(k) ==
  IF k = "retry_requests_delay_ms" THEN "delay_after_threshold_reached_ms" ELSE k

SettingOf(k) == k

ReadSetting(k) ==
  /\ k \in Settings
  /\ Accepts(k, config[k])
  /\ settings' = [settings EXCEPT ![SettingOf(k)] = config[k]]
  /\ pending' = pending \ {k}
  /\ UNCHANGED <<config, contexts, result, calls>>

\* A key init() does not know is skipped.
SkipKey(k) ==
  /\ k \notin Settings
  /\ pending' = pending \ {k}
  /\ UNCHANGED <<config, settings, contexts, result, calls>>

\* Mutant: one of the early returns does not delete the context.
DeletedUnlessKey(k) == IF k = "api_key" THEN 0 ELSE 1

\* How many contexts the early return for key k deletes.
Deleted(k) == 1

\* The first bad value ends the call: delete context; return nullptr.
RejectConfig(k) ==
  /\ k \in Settings
  /\ ~Accepts(k, config[k])
  /\ contexts' = contexts - Deleted(k)
  /\ result' = "null"
  /\ UNCHANGED <<config, pending, settings, calls>>

\* The settings go to the API client, whatever they are.
ReturnContext ==
  /\ result = "running"
  /\ pending = {}
  /\ result' = "context"
  /\ UNCHANGED <<config, pending, settings, contexts, calls>>

ReadEntry(k) ==
  /\ result = "running"
  /\ \/ ReadSetting(k)
     \/ SkipKey(k)
     \/ RejectConfig(k)

Next ==
  \/ CallInit
  \/ \E k \in pending : ReadEntry(k)
  \/ ReturnContext

Spec == Init /\ [][Next]_vars

-----------------------------------------------------------------------------
(***************************************************************************)
(* Properties.                                                             *)
(***************************************************************************)

\* Whether a configuration is accepted depends on its values alone, not on the
\* order the loop meets them in or on where it stops.
OutcomeFromValues ==
  LET bad == {k \in DOMAIN config \cap Settings :
                \/ config[k] = "empty"
                \/ config[k] = "negative" /\ k # "api_key"
                \/ config[k] = "tailed" /\ k \in Texts \ {"api_key"}
                \/ config[k] = "oversized" /\ k \in Numbers \cup {"api_url"}}
  IN  /\ result = "context" => bad = {}
      /\ result = "null" => bad # {}

\* There is one context exactly while init() runs or when it has returned one:
\* a refused configuration leaves nothing behind, however often it is tried.
ContextsAccounted == contexts = IF result \in {"running", "context"} THEN 1 ELSE 0

\* The API client gets an indeterminate number exactly for the keys that the
\* configuration does not have; a missing text is an empty one.
GarbageOnlyIfAbsent ==
  result = "context" =>
    \A s \in Settings :
      settings[s] = IF s \in DOMAIN config THEN config[s]
                    ELSE IF s \in Texts THEN "empty" ELSE "garbage"
=============================================================================

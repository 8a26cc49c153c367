--------------------------- MODULE MCContextInit ---------------------------
(***************************************************************************)
(* Small instances of ContextInit: one key for each kind of check, two     *)
(* numbers, and a key init() does not know.                                *)
(***************************************************************************)
EXTENDS ContextInit

MCKeys == {"api_url", "api_key", "car_name", "delay_after_threshold_reached_ms",
           "retry_requests_delay_ms"}

MCConfigs ==
  UNION {[K -> Values] : K \in SUBSET MCKeys}
    \cup {[k \in {"api_key", "comment"} |-> v] : v \in Values}
=============================================================================

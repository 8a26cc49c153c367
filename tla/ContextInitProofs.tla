-------------------------- MODULE ContextInitProofs --------------------------
(***************************************************************************)
(* Proofs about ContextInit, for every set of configurations and any       *)
(* number of calls.                                                        *)
(***************************************************************************)
EXTENDS ContextInit, TLAPS

\* The keys the loop has reached.
Seen == DOMAIN config \ pending

\* What the loop has let pass is good, and it has set what it has seen.
LoopSoFar ==
  result \in {"running", "context"} =>
    /\ \A k \in Seen \cap Settings : Accepts(k, config[k])
    /\ \A s \in Settings : settings[s] = IF s \in Seen THEN config[s] ELSE Fresh[s]
    /\ result = "context" => pending = {}

NullForBadValue ==
  result = "null" => \E k \in DOMAIN config \cap Settings : ~Accepts(k, config[k])

Inv == TypeOK /\ ContextsAccounted /\ LoopSoFar /\ NullForBadValue

-----------------------------------------------------------------------------
(***************************************************************************)
(* Every step preserves Inv.                                               *)
(***************************************************************************)

LEMMA FreshType == Fresh \in [Settings -> Values \cup {"garbage"}]
  BY DEF Fresh, Values

LEMMA ConfigValues == ASSUME TypeOK, NEW k \in DOMAIN config PROVE config[k] \in Values
  BY InitAssumption DEF TypeOK

LEMMA CallInitInv == ASSUME Inv, CallInit PROVE Inv'
<1>1. /\ result \in {"none", "null"} /\ calls < MaxCalls /\ calls' = calls + 1
      /\ pending' = DOMAIN config /\ settings' = Fresh /\ contexts' = contexts + 1
      /\ result' = "running" /\ config' = config
  BY DEF CallInit
<1>2. contexts = 0
  BY <1>1 DEF Inv, ContextsAccounted
<1>3. TypeOK'
  BY <1>1, <1>2, FreshType, InitAssumption DEF Inv, TypeOK
<1>4. ContextsAccounted' /\ NullForBadValue'
  BY <1>1, <1>2 DEF ContextsAccounted, NullForBadValue
<1>5. LoopSoFar'
  BY <1>1 DEF LoopSoFar, Seen, Fresh
<1> QED
  BY <1>3, <1>4, <1>5 DEF Inv

LEMMA ReadSettingInv ==
  ASSUME Inv, result = "running", NEW k \in pending, ReadSetting(k)
  PROVE  Inv'
<1>1. /\ k \in Settings /\ k \in DOMAIN config /\ Accepts(k, config[k])
      /\ settings' = [settings EXCEPT ![k] = config[k]] /\ pending' = pending \ {k}
      /\ UNCHANGED <<config, contexts, result, calls>>
  BY DEF Inv, TypeOK, ReadSetting, SettingOf
<1>2. settings \in [Settings -> Values \cup {"garbage"}] /\ config[k] \in Values
  BY <1>1, ConfigValues DEF Inv, TypeOK
<1>3. TypeOK'
  BY <1>1, <1>2 DEF Inv, TypeOK
<1>4. ContextsAccounted' /\ NullForBadValue'
  BY <1>1 DEF Inv, ContextsAccounted, NullForBadValue
<1>5. LoopSoFar'
  <2>1. Seen' = Seen \cup {k} /\ k \notin Seen
    BY <1>1 DEF Seen
  <2>2. \A j \in Seen' \cap Settings : Accepts(j, config[j])
    BY <1>1, <2>1 DEF Inv, LoopSoFar
  <2>3. \A s \in Settings : settings'[s] = IF s \in Seen' THEN config[s] ELSE Fresh[s]
    BY <1>1, <1>2, <2>1 DEF Inv, LoopSoFar
  <2> QED
    BY <1>1, <2>2, <2>3 DEF LoopSoFar
<1> QED
  BY <1>3, <1>4, <1>5 DEF Inv

LEMMA SkipKeyInv == ASSUME Inv, result = "running", NEW k \in pending, SkipKey(k) PROVE Inv'
<1>1. /\ k \notin Settings /\ pending' = pending \ {k}
      /\ UNCHANGED <<config, settings, contexts, result, calls>>
  BY DEF SkipKey
<1>2. TypeOK' /\ ContextsAccounted' /\ NullForBadValue'
  BY <1>1 DEF Inv, TypeOK, ContextsAccounted, NullForBadValue
<1>3. LoopSoFar'
  <2>1. \A s \in Settings : s \in Seen' <=> s \in Seen
    BY <1>1 DEF Seen
  <2> QED
    BY <1>1, <2>1 DEF Inv, LoopSoFar
<1> QED
  BY <1>2, <1>3 DEF Inv

LEMMA RejectConfigInv == ASSUME Inv, result = "running", NEW k \in pending, RejectConfig(k) PROVE Inv'
<1>1. /\ k \in Settings /\ k \in DOMAIN config /\ ~Accepts(k, config[k])
      /\ contexts' = contexts - 1 /\ result' = "null"
      /\ UNCHANGED <<config, pending, settings, calls>>
  BY DEF Inv, TypeOK, RejectConfig, Deleted
<1>2. contexts = 1
  BY DEF Inv, ContextsAccounted
<1>3. TypeOK'
  BY <1>1, <1>2 DEF Inv, TypeOK
<1>4. ContextsAccounted' /\ LoopSoFar' /\ NullForBadValue'
  BY <1>1, <1>2 DEF ContextsAccounted, LoopSoFar, NullForBadValue
<1> QED
  BY <1>3, <1>4 DEF Inv

LEMMA ReturnContextInv == ASSUME Inv, ReturnContext PROVE Inv'
<1>1. /\ result = "running" /\ pending = {} /\ result' = "context"
      /\ UNCHANGED <<config, pending, settings, contexts, calls>>
  BY DEF ReturnContext
<1>2. TypeOK' /\ ContextsAccounted' /\ NullForBadValue'
  BY <1>1 DEF Inv, TypeOK, ContextsAccounted, NullForBadValue
<1>3. LoopSoFar'
  BY <1>1 DEF Inv, LoopSoFar, Seen
<1> QED
  BY <1>2, <1>3 DEF Inv

\* The inductive invariant.
THEOREM InvHolds == Spec => []Inv
<1>1. Init => Inv
  BY FreshType, InitAssumption DEF Init, Inv, TypeOK, ContextsAccounted, LoopSoFar, NullForBadValue
<1>2. ASSUME Inv, [Next]_vars PROVE Inv'
  <2>1. CASE CallInit
    BY <1>2, <2>1, CallInitInv
  <2>2. CASE \E k \in pending : ReadEntry(k)
    <3>1. PICK k \in pending : ReadEntry(k)
      BY <2>2
    <3>2. result = "running" /\ (ReadSetting(k) \/ SkipKey(k) \/ RejectConfig(k))
      BY <3>1 DEF ReadEntry
    <3> QED
      BY <1>2, <3>2, ReadSettingInv, SkipKeyInv, RejectConfigInv
  <2>3. CASE ReturnContext
    BY <1>2, <2>3, ReturnContextInv
  <2>4. CASE UNCHANGED vars
    BY <1>2, <2>4 DEF vars, Inv, TypeOK, ContextsAccounted, LoopSoFar, Seen, NullForBadValue
  <2> QED
    BY <1>2, <2>1, <2>2, <2>3, <2>4 DEF Next
<1> QED
  BY <1>1, <1>2, PTL DEF Spec

-----------------------------------------------------------------------------
(***************************************************************************)
(* The properties.                                                         *)
(***************************************************************************)

\* Every variable keeps its type, so no context is deleted twice.
THEOREM TypeCorrect == Spec => []TypeOK
  BY InvHolds, PTL DEF Inv

\* There is a context exactly while init() runs or when it has returned one.
THEOREM NoContextLeaks == Spec => []ContextsAccounted
  BY InvHolds, PTL DEF Inv

\* The order the loop meets the keys in does not decide what init() returns.
THEOREM OrderDoesNotMatter == Spec => []OutcomeFromValues
<1>1. Inv => OutcomeFromValues
  <2> SUFFICES ASSUME Inv PROVE OutcomeFromValues
    OBVIOUS
  <2> DEFINE Bad(k) == \/ config[k] = "empty"
                       \/ config[k] = "negative" /\ k # "api_key"
                       \/ config[k] = "tailed" /\ k \in Texts \ {"api_key"}
                       \/ config[k] = "oversized" /\ k \in Numbers \cup {"api_url"}
  <2>1. ASSUME NEW k \in DOMAIN config \cap Settings PROVE Bad(k) <=> ~Accepts(k, config[k])
    <3>1. config[k] \in Values
      BY ConfigValues DEF Inv
    <3> QED
      BY <3>1 DEF Values, Settings, Texts, Names, Numbers, Accepts
  <2>2. result = "context" => \A k \in DOMAIN config \cap Settings : ~Bad(k)
    BY <2>1 DEF Inv, LoopSoFar, Seen
  <2>3. result = "null" => \E k \in DOMAIN config \cap Settings : Bad(k)
    BY <2>1 DEF Inv, NullForBadValue
  <2> QED
    BY <2>2, <2>3 DEF OutcomeFromValues
<1> QED
  BY <1>1, InvHolds, PTL

\* Only the keys the configuration lacks leave an indeterminate number.
THEOREM GarbageIfAbsent == Spec => []GarbageOnlyIfAbsent
<1>1. Inv => GarbageOnlyIfAbsent
  BY DEF Inv, LoopSoFar, Seen, Fresh, GarbageOnlyIfAbsent
<1> QED
  BY <1>1, InvHolds, PTL
=============================================================================

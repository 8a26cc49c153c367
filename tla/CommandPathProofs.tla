-------------------------- MODULE CommandPathProofs --------------------------
(***************************************************************************)
(* Proofs about CommandPath, for any messages, documents and bounds.  The  *)
(* order in which commands leave the external server rests on the          *)
(* inductive invariant of CommandApi, and PathInv carries it over the      *)
(* drains and along the wire.                                              *)
(***************************************************************************)
EXTENDS CommandPath, CommandApiProofs

\* What a parsing loop has yet to queue is newer than what was handed over.
BatchAhead ==
  pc = "loop" /\ answered /\ ~blind => \A b \in batch, n \in delivered : ts[n] < ts[b]

Oldest(m) == m \in drained /\ \A n \in drained : ts[m] <= ts[n]

LastSent == wire[Len(wire)]

\* The front of the vector leaves last and is older than all of the drain that
\* left before; then it is at the end of the wire, or kept by the gateway.
OldestLeavesLast ==
  SortedReplies =>
    /\ vec # <<>> => \A m \in drained : ts[vec[1]] <= ts[m]
    /\ vec = <<>> /\ drained # {} =>
         IF wire # <<>> THEN Oldest(LastSent) ELSE effective = Nobody \/ Oldest(effective)

PathInv ==
  /\ IndInv
  /\ wire \in Seq(Messages)
  /\ drained \subseteq delivered
  /\ ~known => effective = Nobody
  /\ BatchAhead
  /\ StaleNeverOverrules
  /\ OldestLeavesLast

-----------------------------------------------------------------------------
(***************************************************************************)
(* Every step of the path is one of CommandApi's, or none.                 *)
(***************************************************************************)

LEMMA PathStep == [PathNext]_pathVars => [Next]_vars
<1>1. HandOver => Next
  BY DEF HandOver, Next
<1>2. OtherApiStep => Next
  BY DEF OtherApiStep, Next
<1>3. GatewayTakes \/ GatewayDrops \/ DeviceSeen \/ DeviceLost => UNCHANGED vars
  BY DEF GatewayTakes, GatewayDrops, DeviceSeen, DeviceLost
<1> QED
  BY <1>1, <1>2, <1>3 DEF PathNext, pathVars

\* The path does with the commands what CommandApi does.
THEOREM PathIsApi == PathSpec => Spec
<1>1. PathInit => Init
  BY DEF PathInit
<1> QED
  BY <1>1, PathStep, PTL DEF PathSpec, Spec

-----------------------------------------------------------------------------
(***************************************************************************)
(* What the steps do to the vector and the stamps.                         *)
(***************************************************************************)

\* A message that was posted keeps its stamp.
LEMMA StampsStay ==
  ASSUME IndInv, [Next]_vars
  PROVE  \A m \in Handled \cup batch : ts'[m] = ts[m]
<1>1. \A m \in Handled \cup batch : Posted(m) /\ m \in Messages
  BY CommandAssumption DEF IndInv, HandledBehindMark, CallState, TypeOK, SetsOK
<1>2. \/ ts' = ts
      \/ \E m \in Messages : ~Posted(m) /\ ts' = [ts EXCEPT ![m] = now]
  BY DEF Next, vars, apiVars, Tick, Post, InitContext, Destroy, Crash, ContextGone,
         WaitForCommand, GetCommandsThrows, GetCommandsReturns, GetCommandsFails,
         HandleMessage, SkipForeign, DiscardStale, QueueCommand, RejectMalformed,
         WaitReturns, PopCommand, PopFails
<1> QED
  BY <1>1, <1>2 DEF IndInv, TypeOK, DataOK, Posted

\* Taking the back off the vector.
LEMMA PopShrinks ==
  ASSUME IndInv, PopCommand
  PROVE  /\ Len(vec) \in Nat \ {0} /\ Back \in Queued /\ Back \in Messages
         /\ Len(vec') = Len(vec) - 1
         /\ \A i \in 1 .. Len(vec') : vec'[i] = vec[i]
         /\ Queued' = Queued \ {Back}
         /\ vec' = <<>> <=> Len(vec) = 1
<1>1. /\ vec \in Seq(Messages) /\ vec # <<>> /\ vec' = SubSeq(vec, 1, Len(vec) - 1)
      /\ \A i, j \in 1 .. Len(vec) : i # j => vec[i] # vec[j]
  BY DEF IndInv, TypeOK, DataOK, QueuedApart, QueuedOnce, PopCommand, WithoutBack
<1> DEFINE front == SubSeq(vec, 1, Len(vec) - 1)
<1>2. /\ Len(vec) \in Nat \ {0}
      /\ front \in Seq(Messages)
      /\ Len(front) = Len(vec) - 1
      /\ \A i \in 1 .. Len(front) : front[i] = vec[i]
      /\ {front[i] : i \in 1 .. Len(front)} = {vec[i] : i \in 1 .. Len(vec)} \ {vec[Len(vec)]}
  <2> HIDE DEF front
  <2>1. front = SubSeq(vec, 1, Len(vec) - 1)
    BY DEF front
  <2>2. /\ vec \in Seq(Messages) /\ vec # <<>>
        /\ \A i, j \in 1 .. Len(vec) : i # j => vec[i] # vec[j]
    BY <1>1
  <2>3. Len(vec) \in Nat \ {0} /\ front \in Seq(Messages) /\ Len(front) = Len(vec) - 1
    BY <2>1, <2>2, FrontElements
  <2>4. \A i \in 1 .. Len(front) : front[i] = vec[i]
    BY <2>1, <2>2, FrontElements
  <2>5. {front[i] : i \in 1 .. Len(front)} = {vec[i] : i \in 1 .. Len(vec)} \ {vec[Len(vec)]}
    BY <2>1, <2>2, FrontElements
  <2> QED
    BY <2>3, <2>4, <2>5
<1> HIDE DEF front
<1>4. vec' = front
  BY <1>1 DEF front
<1>3. front = <<>> <=> Len(vec) = 1
  BY <1>2, EmptySeq
<1>5. Queued' = Queued \ {Back}
  BY <1>2, <1>4 DEF Queued, Back
<1> QED
  BY <1>1, <1>2, <1>3, <1>4, <1>5, ElementOfSeq DEF Queued, Back

\* Adding a command at the back.
LEMMA QueueGrows ==
  ASSUME IndInv, NEW m \in Messages, QueueCommand(m)
  PROVE  /\ Queued' = Queued \cup {m} /\ vec' # <<>>
         /\ vec # <<>> => vec'[1] = vec[1]
<1>1. vec \in Seq(Messages) /\ vec' = Append(vec, m)
  BY DEF IndInv, TypeOK, DataOK, QueueCommand, Enqueue
<1>2. Queued' = Queued \cup {m}
  BY <1>1, AppendElements DEF Queued
<1>3. vec' # <<>> /\ \A i \in 1 .. Len(vec) : vec'[i] = vec[i]
  BY <1>1, AppendProperties
<1>4. vec # <<>> => 1 \in 1 .. Len(vec)
  BY <1>1, EmptySeq
<1> QED
  BY <1>2, <1>3, <1>4

\* Every other step leaves the vector alone or empties it.
LEMMA VectorElsewhere ==
  ASSUME OtherApiStep, \A m \in Messages : ~QueueCommand(m)
  PROVE  /\ (vec' = vec /\ drained' = drained) \/ vec' = <<>>
         /\ delivered' = delivered
BY DEF OtherApiStep, Tick, Post, InitContext, Destroy, Crash, ContextGone,
       WaitForCommand, GetCommandsThrows, GetCommandsReturns, GetCommandsFails,
       HandleMessage, SkipForeign, DiscardStale, RejectMalformed, WaitReturns,
       PopFails, ctxVars, histVars

\* A flaw of the first reply is forgotten with the context only.
LEMMA BlindStays ==
  ASSUME OtherApiStep, ~blind', vec' # <<>>
  PROVE  ~blind
BY DEF OtherApiStep, Tick, Post, InitContext, Destroy, Crash, ContextGone,
       WaitForCommand, GetCommandsThrows, GetCommandsReturns, GetCommandsFails,
       HandleMessage, SkipForeign, DiscardStale, QueueCommand, RejectMalformed,
       WaitReturns, PopFails, ctxVars, histVars

-----------------------------------------------------------------------------
(***************************************************************************)
(* PathInv is inductive: one lemma per action.                             *)
(***************************************************************************)

LEMMA HandOverInv == ASSUME PathInv, HandOver PROVE PathInv'
<1>1. PopCommand /\ wire' = Append(wire, Back) /\ drained' = drained \cup {Back}
      /\ known' = known /\ effective' = effective
  BY DEF HandOver, gatewayVars
<1>2. /\ delivered' = delivered \cup {Back} /\ ts' = ts /\ blind' = blind
      /\ pc = "pop" /\ (pc' = "pop" \/ pc' = "idle") /\ vec # <<>>
  BY <1>1 DEF PopCommand, apiVars
<1>3. IndInv'
  BY <1>1, PopCommandInv DEF PathInv
<1>4. /\ Len(vec) \in Nat \ {0} /\ Back \in Queued /\ Back \in Messages
      /\ Len(vec') = Len(vec) - 1
      /\ \A i \in 1 .. Len(vec') : vec'[i] = vec[i]
      /\ Queued' = Queued \ {Back}
      /\ vec' = <<>> <=> Len(vec) = 1
  BY <1>1, PopShrinks DEF PathInv
<1>5. wire' \in Seq(Messages) /\ wire' # <<>> /\ wire'[Len(wire')] = Back
  <2>1. /\ wire' \in Seq(Messages) /\ wire' # <<>> /\ Len(wire') = Len(wire) + 1
        /\ wire'[Len(wire) + 1] = Back
    BY <1>1, <1>4, AppendProperties DEF PathInv
  <2> QED
    BY <2>1
<1>6. drained' \subseteq delivered' /\ (~known => effective = Nobody)' /\ BatchAhead'
  BY <1>1, <1>2 DEF PathInv, BatchAhead
<1>7. StaleNeverOverrules'
  <2>1. vec' # <<>> => Outdated' \subseteq Outdated
    BY <1>1, <1>2 DEF Outdated
  <2>2. vec' = <<>> => Queued' = {}
    BY EmptyVector DEF Queued
  <2> QED
    BY <1>2, <1>4, <2>1, <2>2 DEF PathInv, StaleNeverOverrules
<1>8. OldestLeavesLast'
  <2> SUFFICES ASSUME SortedReplies PROVE
        /\ vec' # <<>> => \A m \in drained' : ts'[vec'[1]] <= ts'[m]
        /\ vec' = <<>> => Oldest(LastSent)'
    BY <1>5 DEF OldestLeavesLast
  <2>1. \A m \in drained : ts[vec[1]] <= ts[m]
    BY <1>2 DEF PathInv, OldestLeavesLast
  <2>2. \A i \in 1 .. Len(vec) : i < Len(vec) => ts[vec[i]] <= ts[Back]
    BY <1>4 DEF PathInv, IndInv, NewestFirst, Back
  <2>3. ts[Back] \in Nat
    BY <1>4 DEF PathInv, IndInv, TypeOK, DataOK
  <2>4. ASSUME vec' # <<>> PROVE \A m \in drained' : ts'[vec'[1]] <= ts'[m]
    <3>1. 1 \in 1 .. Len(vec') /\ 1 < Len(vec) /\ 1 \in 1 .. Len(vec)
      BY <1>4, <2>4
    <3>2. vec'[1] = vec[1] /\ ts[vec[1]] <= ts[Back]
      BY <1>4, <2>2, <3>1
    <3> QED
      BY <1>1, <1>2, <2>1, <3>2
  <2>5. ASSUME vec' = <<>> PROVE Oldest(LastSent)'
    <3>1. Back = vec[1]
      BY <1>4, <2>5 DEF Back
    <3> QED
      BY <1>1, <1>2, <1>5, <2>1, <2>3, <3>1 DEF Oldest, LastSent
  <2> QED
    BY <2>4, <2>5
<1> QED
  BY <1>3, <1>5, <1>6, <1>7, <1>8 DEF PathInv

LEMMA OtherApiInv == ASSUME PathInv, OtherApiStep PROVE PathInv'
<1>1. Next /\ wire' = wire /\ known' = known /\ effective' = effective
  BY DEF OtherApiStep, Next, gatewayVars
<1>2. IndInv' /\ IndInv
  BY <1>1, NextInv DEF PathInv
<1>3. \A m \in Handled \cup batch : ts'[m] = ts[m]
  BY <1>1, StampsStay DEF PathInv
<1>4. drained \subseteq delivered /\ delivered \subseteq Handled /\ Queued \subseteq Handled
  BY DEF PathInv, Handled
<1>5. \A m \in Handled \cup batch : ts[m] \in Nat
  BY CommandAssumption, <1>2 DEF IndInv, HandledBehindMark, TypeOK, DataOK, SetsOK
<1>6. delivered' = delivered
  BY DEF OtherApiStep, Tick, Post, InitContext, Destroy, Crash, ContextGone,
         WaitForCommand, GetCommandsThrows, GetCommandsReturns, GetCommandsFails,
         HandleMessage, SkipForeign, DiscardStale, QueueCommand, RejectMalformed,
         WaitReturns, PopFails, ctxVars, histVars
<1>7. drained' \subseteq delivered'
  BY <1>4, <1>6 DEF OtherApiStep
<1>8. BatchAhead'
  <2> SUFFICES ASSUME pc' = "loop", answered', ~blind', NEW b \in batch', NEW n \in delivered
               PROVE  ts'[n] < ts'[b]
    BY <1>6 DEF BatchAhead
  <2>1. CASE GetCommandsReturns
    <3>1. /\ answered /\ ~blind /\ ts' = ts /\ b \in Messages /\ ts[b] >= last + 1
      BY <2>1 DEF GetCommandsReturns, apiVars, histVars, Since
    <3>2. ts[n] <= last /\ ts[n] \in Nat /\ ts[b] \in Nat /\ last \in Nat
      BY <1>2, <1>4, <1>5, <3>1 DEF IndInv, HandledBehindMark, TypeOK, DataOK
    <3> QED
      BY <3>1, <3>2
  <2>2. CASE ~GetCommandsReturns
    <3>1. pc = "loop" /\ answered /\ ~blind /\ b \in batch
      <4>1. CASE \E m \in Messages : HandleMessage(m)
        <5>1. pc = "loop" /\ answered' = answered /\ blind' = blind /\ batch' \subseteq batch
          BY <4>1 DEF HandleMessage, SkipForeign, DiscardStale, QueueCommand, RejectMalformed,
                      EndCall, Reaches, histVars
        <5> QED
          BY <5>1
      <4>2. CASE Tick \/ (\E m \in Messages : Post(m)) \/ InitContext
        <5>1. pc' = pc /\ answered' = answered /\ blind' = blind /\ batch' = batch
          BY <4>2 DEF Tick, Post, InitContext, callVars, histVars
        <5> QED
          BY <5>1
      <4>3. CASE Destroy \/ Crash \/ WaitForCommand \/ GetCommandsThrows \/ WaitReturns \/ PopFails
        <5>1. pc' # "loop"
          BY <4>3 DEF Destroy, Crash, ContextGone, WaitForCommand, GetCommandsThrows, WaitReturns,
                      PopFails, EndCall
        <5> QED
          BY <5>1
      <4>4. CASE GetCommandsFails
        BY <4>4 DEF GetCommandsFails
      <4> QED
        BY <2>2, <4>1, <4>2, <4>3, <4>4 DEF OtherApiStep
    <3> QED
      BY <1>3, <1>4, <3>1 DEF PathInv, BatchAhead
  <2> QED
    BY <2>1, <2>2
<1>9. (StaleNeverOverrules /\ OldestLeavesLast)'
  <2>1. CASE \E m \in Messages : QueueCommand(m)
    <3> PICK m \in Messages : QueueCommand(m)
      BY <2>1
    <3>1. /\ Queued' = Queued \cup {m} /\ vec' # <<>>
          /\ vec # <<>> => vec'[1] = vec[1]
      BY <1>2, QueueGrows
    <3>2. /\ pc = "loop" /\ parse /\ m \in batch /\ ts' = ts /\ blind' = blind
          /\ drained' = IF vec = <<>> THEN {} ELSE drained
      BY <3>1 DEF QueueCommand, Reaches, apiVars, histVars, OtherApiStep
    <3>3. answered
      BY <1>2, <3>2 DEF IndInv, CallState
    <3>4. ~blind => \A n \in delivered : ts[n] < ts[m]
      BY <3>2, <3>3 DEF PathInv, BatchAhead
    <3>5. vec = <<>> => Queued = {}
      BY DEF Queued
    <3>6. StaleNeverOverrules'
      BY <1>6, <3>1, <3>2, <3>4, <3>5 DEF PathInv, StaleNeverOverrules, Outdated
    <3>7. OldestLeavesLast'
      BY <3>1, <3>2 DEF PathInv, OldestLeavesLast
    <3> QED
      BY <3>6, <3>7
  <2>2. CASE \A m \in Messages : ~QueueCommand(m)
    <3>1. (vec' = vec /\ drained' = drained) \/ vec' = <<>>
      BY <2>2, VectorElsewhere
    <3>2. StaleNeverOverrules'
      <4>1. CASE vec' = <<>>
        BY <4>1 DEF StaleNeverOverrules, Queued
      <4>2. CASE vec' # <<>> /\ vec' = vec /\ drained' = drained
        <5>1. Queued' = Queued /\ Outdated' = Outdated /\ Outdated \subseteq delivered
          BY <1>6, <4>2 DEF Queued, Outdated
        <5> QED
          BY <1>3, <1>4, <4>2, <5>1, BlindStays DEF PathInv, StaleNeverOverrules
      <4> QED
        BY <3>1, <4>1, <4>2
    <3>3. OldestLeavesLast'
      <4>0. drained' = {} \/ (drained' = drained /\ (vec' = <<>> <=> vec = <<>>))
        BY DEF OtherApiStep
      <4>1. CASE vec' = <<>> /\ drained' = {}
        BY <4>1 DEF OldestLeavesLast
      <4>2. CASE vec' = <<>> /\ vec = <<>> /\ drained' = drained
        <5>1. \A m \in drained : ts'[m] = ts[m]
          BY <1>3, <1>4
        <5> QED
          BY <1>1, <4>2, <5>1 DEF PathInv, OldestLeavesLast, Oldest, LastSent
      <4>3. CASE vec' # <<>> /\ vec' = vec /\ drained' = drained
        <5>1. vec[1] \in Queued
          <6>1. vec \in Seq(Messages) /\ vec # <<>>
            BY <1>2, <4>3 DEF IndInv, TypeOK, DataOK
          <6>2. 1 \in 1 .. Len(vec)
            BY <6>1, EmptySeq
          <6> QED
            BY <6>2 DEF Queued
        <5>2. \A m \in drained \cup Queued : ts'[m] = ts[m]
          BY <1>3, <1>4
        <5> QED
          BY <4>3, <5>1, <5>2 DEF PathInv, OldestLeavesLast
      <4> QED
        BY <3>1, <4>0, <4>1, <4>2, <4>3
    <3> QED
      BY <3>2, <3>3
  <2> QED
    BY <2>1, <2>2
<1> QED
  BY <1>1, <1>2, <1>7, <1>8, <1>9 DEF PathInv

\* The gateway's steps leave everything but the wire and its command alone.
LEMMA GatewayInv ==
  ASSUME PathInv, GatewayTakes \/ GatewayDrops \/ DeviceSeen \/ DeviceLost
  PROVE  PathInv'
<1>1. UNCHANGED vars /\ drained' = drained
  BY DEF GatewayTakes, GatewayDrops, DeviceSeen, DeviceLost
<1>2. IndInv'
  BY <1>1, NextInv DEF PathInv
<1>3. BatchAhead' /\ StaleNeverOverrules' /\ (drained \subseteq delivered)'
  BY <1>1 DEF PathInv, BatchAhead, StaleNeverOverrules, Outdated, Queued,
              vars, apiVars, ctxVars, callVars, histVars
<1>4. /\ (~known => effective = Nobody)'
      /\ wire' \in Seq(Messages)
      /\ (wire' = Tail(wire) /\ wire # <<>>) \/ wire' = wire
  <2>1. CASE GatewayTakes
    <3>1. known /\ known' = known
      BY <2>1 DEF GatewayTakes, Gateway!CommandPosted
    <3> QED
      BY <2>1, <3>1, HeadTailProperties DEF GatewayTakes, PathInv
  <2>2. CASE GatewayDrops
    BY <2>2, HeadTailProperties DEF GatewayDrops, gatewayVars, PathInv
  <2>3. CASE DeviceSeen
    BY <2>3 DEF DeviceSeen, Gateway!FirstStatus, PathInv
  <2>4. CASE DeviceLost
    BY <2>4 DEF DeviceLost, PathInv
  <2> QED
    BY <2>1, <2>2, <2>3, <2>4
<1>5. OldestLeavesLast'
  <2> SUFFICES ASSUME SortedReplies, vec = <<>>, drained # {}
               PROVE  IF wire' # <<>> THEN Oldest(LastSent)'
                                      ELSE effective' = Nobody \/ Oldest(effective)'
    BY <1>1 DEF OldestLeavesLast, PathInv, vars, apiVars, ctxVars
  <2>1. \A m : Oldest(m)' <=> m \in drained /\ \A n \in drained : ts[m] <= ts[n]
    BY <1>1 DEF Oldest, vars, apiVars
  <2>2. IF wire # <<>> THEN Oldest(LastSent) ELSE effective = Nobody \/ Oldest(effective)
    BY DEF PathInv, OldestLeavesLast
  <2>3. CASE wire' = wire
    <3>1. effective' = effective \/ effective' = Nobody \/ GatewayTakes \/ GatewayDrops
      BY DEF DeviceSeen, DeviceLost
    <3>2. wire # <<>> => wire' # Tail(wire)
      BY <2>3, HeadTailProperties DEF PathInv
    <3>3. effective' = effective \/ effective' = Nobody
      BY <3>1, <3>2 DEF GatewayTakes, GatewayDrops
    <3> QED
      BY <1>1, <2>2, <2>3, <3>3 DEF Oldest, LastSent, vars, apiVars
  <2>4. CASE wire # <<>> /\ wire' = Tail(wire)
    <3>1. /\ Len(wire) \in Nat \ {0} /\ Len(wire') = Len(wire) - 1
          /\ \A i \in 1 .. Len(wire') : wire'[i] = wire[i + 1]
          /\ wire' \in Seq(Messages)
      BY <2>4, HeadTailProperties, EmptySeq DEF PathInv
    <3>2. CASE wire' # <<>>
      <4>1. Len(wire') \in Nat \ {0}
        BY <3>1, <3>2, EmptySeq
      <4>2. wire'[Len(wire')] = LastSent
        BY <3>1, <4>1 DEF LastSent
      <4> QED
        BY <1>1, <2>2, <2>4, <3>2, <4>2 DEF Oldest, LastSent, vars, apiVars
    <3>3. CASE wire' = <<>>
      <4>1. Len(wire) = 1
        BY <3>1, <3>3
      <4>2. Head(wire) = LastSent
        BY <2>4, <4>1 DEF LastSent
      <4>3. effective' = Head(wire) \/ effective' = Nobody
        <5>1. CASE GatewayTakes
          BY <5>1 DEF GatewayTakes
        <5>2. CASE ~GatewayTakes
          BY <5>2 DEF GatewayDrops, DeviceSeen, DeviceLost, gatewayVars, PathInv, Gateway!FirstStatus
        <5> QED
          BY <5>1, <5>2
      <4> QED
        BY <1>1, <2>2, <2>4, <3>3, <4>2, <4>3 DEF Oldest, vars, apiVars
    <3> QED
      BY <3>2, <3>3
  <2> QED
    BY <1>4, <2>3, <2>4
<1> QED
  BY <1>2, <1>3, <1>4, <1>5 DEF PathInv

-----------------------------------------------------------------------------

\* The inductive invariant of the path.
THEOREM PathInvHolds == PathSpec => []PathInv
<1>1. PathInit => PathInv
  <2> SUFFICES ASSUME PathInit PROVE PathInv
    OBVIOUS
  <2>1. Init /\ wire = <<>> /\ drained = {} /\ effective = Nobody
    BY DEF PathInit
  <2>2. IndInv
    BY <2>1, InitInv
  <2>3. wire \in Seq(Messages)
    BY <2>1, EmptySeq
  <2>4. vec = <<>> /\ delivered = {} /\ pc = "idle"
    BY <2>1 DEF Init
  <2>5. Queued = {}
    BY <2>4 DEF Queued
  <2> QED
    BY <2>1, <2>2, <2>3, <2>4, <2>5
    DEF PathInv, BatchAhead, StaleNeverOverrules, OldestLeavesLast
<1>2. ASSUME PathInv, [PathNext]_pathVars PROVE PathInv'
  <2>1. CASE UNCHANGED pathVars
    <3>1. IndInv'
      BY <1>2, <2>1, NextInv DEF pathVars, PathInv
    <3>2. UNCHANGED <<vec, ts, pc, answered, blind, batch, delivered, wire, known, effective, drained>>
      BY <2>1 DEF pathVars, gatewayVars, vars, apiVars, ctxVars, callVars, histVars
    <3> QED
      BY <1>2, <3>1, <3>2 DEF PathInv, BatchAhead, StaleNeverOverrules, Outdated, Queued,
                              OldestLeavesLast, Oldest, LastSent
  <2> QED
    BY <1>2, <2>1, HandOverInv, OtherApiInv, GatewayInv DEF PathNext
<1> QED
  BY <1>1, <1>2, PTL DEF PathSpec

\* Whatever is queued is newer than every command of an earlier drain, unless the
\* context's first answer was a failure by its return code, which nobody saw; if
\* failed requests always throw, there is no such context, and no exception.
THEOREM StaleIsNoThreat ==
  PathSpec => []/\ StaleNeverOverrules
                /\ ~FailedReplies => \A m \in Queued, n \in Outdated : ts[n] < ts[m]
<1>1. PathInv => StaleNeverOverrules
  BY DEF PathInv
<1>2. PathInv /\ ~FailedReplies => ~blind
  BY DEF PathInv, IndInv, CallState
<1>3. PathInv /\ ~FailedReplies => \A m \in Queued, n \in Outdated : ts[n] < ts[m]
  BY <1>1, <1>2 DEF StaleNeverOverrules
<1> QED
  BY <1>1, <1>3, PathInvHolds, PTL

\* When all commands of a drain have arrived the gateway keeps the oldest.
THEOREM OldestIsKept == PathSpec => []OldestOfDrainStays
<1>1. PathInv => OldestOfDrainStays
  BY DEF PathInv, OldestLeavesLast, OldestOfDrainStays, Oldest
<1> QED
  BY <1>1, PathInvHolds, PTL

\* The whole path keeps the promise of CommandDelivery.
THEOREM PathKeepsPromise == ASSUME ~FailedReplies PROVE PathSpec => KeepsPromise
BY PathIsApi, CommandApiRefines, PTL
=============================================================================

-------------------------- MODULE CommandApiProofs --------------------------
(***************************************************************************)
(* Proofs about CommandApi, for any set of messages, any classification of *)
(* them, any order of replies and any bounds: IndInv is inductive, the     *)
(* safety invariants follow from it, and CommandApi implements             *)
(* CommandDelivery.                                                        *)
(***************************************************************************)
EXTENDS CommandApi, SequenceTheorems, TLAPS

-----------------------------------------------------------------------------
(***************************************************************************)
(* Lemmas on the vector.                                                   *)
(***************************************************************************)

\* Appending a command adds it, and nothing else, to the queued ones.
LEMMA AppendElements ==
  ASSUME NEW S, NEW s \in Seq(S), NEW e \in S
  PROVE  {Append(s, e)[i] : i \in 1 .. Len(Append(s, e))}
           = {s[i] : i \in 1 .. Len(s)} \cup {e}
<1>1. /\ Len(Append(s, e)) = Len(s) + 1
      /\ \A i \in 1 .. Len(s) : Append(s, e)[i] = s[i]
      /\ Append(s, e)[Len(s) + 1] = e
  BY AppendProperties
<1>2. Len(s) \in Nat
  BY LenProperties
<1>3. 1 .. Len(s) + 1 = (1 .. Len(s)) \cup {Len(s) + 1}
  BY <1>2
<1>4. QED
  BY <1>1, <1>2, <1>3

\* Arithmetic of the length of a vector that is not empty.
LEMMA Predecessor ==
  ASSUME NEW n \in Nat \ {0}
  PROVE  /\ n - 1 \in Nat
         /\ (IF 1 <= n - 1 THEN (n - 1) - 1 + 1 ELSE 0) = n - 1
         /\ 1 .. (n - 1) - 1 + 1 = 1 .. n - 1
         /\ \A i \in 1 .. n - 1 : 1 + i - 1 = i /\ i \in 1 .. n
         /\ 1 .. n = (1 .. n - 1) \cup {n}
         /\ n \notin 1 .. n - 1
OBVIOUS

\* A prefix of a sequence.
LEMMA PrefixProperties ==
  ASSUME NEW S, NEW s, NEW n \in Nat, \A i \in 1 .. n : s[i] \in S
  PROVE  /\ SubSeq(s, 1, n) \in Seq(S)
         /\ Len(SubSeq(s, 1, n)) = n
         /\ \A i \in 1 .. n : SubSeq(s, 1, n)[i] = s[i]
<1>1. /\ SubSeq(s, 1, n) \in Seq(S)
      /\ Len(SubSeq(s, 1, n)) = IF 1 <= n THEN n - 1 + 1 ELSE 0
      /\ \A i \in 1 .. n - 1 + 1 : SubSeq(s, 1, n)[i] = s[1 + i - 1]
  BY SubSeqProperties
<1>2. Len(SubSeq(s, 1, n)) = n
  BY <1>1
<1>3. ASSUME NEW i \in 1 .. n PROVE SubSeq(s, 1, n)[i] = s[i]
  <2>1. 1 + i - 1 = i /\ i \in 1 .. n - 1 + 1
    OBVIOUS
  <2>2. SubSeq(s, 1, n)[i] = s[1 + i - 1]
    BY <1>1, <2>1, Zenon
  <2>3. QED
    BY <2>1, <2>2, Zenon
<1>4. QED
  BY <1>1, <1>2, <1>3, Zenon

\* Taking the back off a vector without repetitions removes just that command.
LEMMA FrontElements ==
  ASSUME NEW S, NEW s \in Seq(S), s # <<>>,
         \A i, j \in 1 .. Len(s) : i # j => s[i] # s[j],
         NEW t, t = SubSeq(s, 1, Len(s) - 1)
  PROVE  /\ Len(s) \in Nat \ {0}
         /\ t \in Seq(S)
         /\ Len(t) = Len(s) - 1
         /\ \A i \in 1 .. Len(t) : t[i] = s[i]
         /\ 1 .. Len(s) = (1 .. Len(t)) \cup {Len(s)}
         /\ {t[i] : i \in 1 .. Len(t)} = {s[i] : i \in 1 .. Len(s)} \ {s[Len(s)]}
<1>1. Len(s) \in Nat \ {0}
  BY EmptySeq, Zenon
<1>2. Len(s) - 1 \in Nat
  BY <1>1, Predecessor, Zenon
<1>3. \A i \in 1 .. Len(s) - 1 : s[i] \in S
  BY <1>1, Predecessor, ElementOfSeq
<1>4. /\ t \in Seq(S)
      /\ Len(t) = Len(s) - 1
      /\ \A i \in 1 .. Len(s) - 1 : t[i] = s[i]
  <2> DEFINE n == Len(s) - 1
  <2>1. n \in Nat /\ (\A i \in 1 .. n : s[i] \in S) /\ t = SubSeq(s, 1, n)
    BY <1>2, <1>3
  <2> HIDE DEF n
  <2>2. t \in Seq(S) /\ Len(t) = n /\ \A i \in 1 .. n : t[i] = s[i]
    <3>1. /\ SubSeq(s, 1, n) \in Seq(S)
          /\ Len(SubSeq(s, 1, n)) = n
          /\ \A i \in 1 .. n : SubSeq(s, 1, n)[i] = s[i]
      BY <2>1, PrefixProperties
    <3>2. QED
      BY <2>1, <3>1, Zenon
  <2>3. QED
    BY <2>2 DEF n
<1>5. Len(t) = Len(s) - 1
  BY <1>4
<1>6. \A i \in 1 .. Len(t) : t[i] = s[i]
  BY <1>4, Zenon
<1>7. 1 .. Len(s) = (1 .. Len(t)) \cup {Len(s)} /\ Len(s) \notin 1 .. Len(t)
  BY <1>1, <1>5, Predecessor, Zenon
<1>8. {t[i] : i \in 1 .. Len(t)} = {s[i] : i \in 1 .. Len(s)} \ {s[Len(s)]}
  BY <1>6, <1>7
<1>9. QED
  BY <1>1, <1>4, <1>5, <1>6, <1>7, <1>8, Zenon

\* Nothing is queued in an empty vector.
LEMMA EmptyVector == ASSUME NEW s, s = <<>> PROVE Len(s) = 0 /\ 1 .. Len(s) = {}
<1>1. Len(s) = 0
  BY EmptySeq
<1>2. QED
  BY <1>1

\* Queued commands are messages.
LEMMA QueuedType == vec \in Seq(Messages) => Queued \subseteq Messages
  BY ElementOfSeq DEF Queued

-----------------------------------------------------------------------------
(***************************************************************************)
(* Every step preserves the inductive invariant: one lemma per action.     *)
(***************************************************************************)

LEMMA InitInv == Init => IndInv
<1> SUFFICES ASSUME Init PROVE IndInv
  OBVIOUS
<1> USE DEF Init, FirstTime
<1>1. TypeOK
  <2>1. DataOK
    BY EmptySeq DEF DataOK, Locations
  <2>2. FlagsOK
    BY DEF FlagsOK
  <2>3. SetsOK
    BY DEF SetsOK
  <2>4. QED
    BY <2>1, <2>2, <2>3 DEF TypeOK
<1>2. Handled = {} /\ Queued = {}
  BY DEF Handled, Queued
<1>3. StampsBehindClock /\ CallState /\ VectorState
  BY DEF StampsBehindClock, CallState, VectorState, PopHasCommand, Posted
<1>4. HandledBehindMark /\ ReplyComplete /\ NoCommandLost
  BY <1>2, CommandAssumption DEF HandledBehindMark, ReplyComplete, NoCommandLost, Posted
<1>5. QueuedApart /\ NewestFirst
  <2>1. Len(vec) = 0
    BY EmptySeq
  <2>2. 1 .. Len(vec) = {}
    BY <2>1
  <2>3. QED
    BY <1>2, <2>2 DEF QueuedApart, QueuedOnce, NewestFirst
<1>6. QED
  BY <1>1, <1>3, <1>4, <1>5 DEF IndInv

LEMMA TickInv == ASSUME IndInv, Tick PROVE IndInv'
<1> USE DEF Tick, IndInv, ctxVars, callVars, histVars
<1>1. TypeOK'
  <2>1. DataOK'
    BY DEF TypeOK, DataOK, FirstTime
  <2>2. FlagsOK'
    BY DEF TypeOK, FlagsOK
  <2>3. SetsOK'
    BY DEF TypeOK, SetsOK
  <2>4. QED
    BY <2>1, <2>2, <2>3 DEF TypeOK
<1>2. StampsBehindClock'
  BY DEF StampsBehindClock, TypeOK, DataOK, Posted
<1>3. Handled' = Handled /\ Queued' = Queued
  BY DEF Handled, Queued
<1>4. (CallState /\ VectorState)'
  BY DEF CallState, VectorState, PopHasCommand, Posted
<1>5. (HandledBehindMark /\ QueuedApart)'
  BY <1>3 DEF HandledBehindMark, QueuedApart, QueuedOnce, Posted
<1>6. (ReplyComplete /\ NoCommandLost /\ NewestFirst)'
  BY <1>3 DEF ReplyComplete, NoCommandLost, NewestFirst, Posted, Reachable, TooLate, CutOff
<1>7. QED
  BY <1>1, <1>2, <1>4, <1>5, <1>6

\* A new message is stamped with the clock, which no mark is ahead of: either it
\* can be reached, or something of its stamp has been fetched.
LEMMA PostInv == ASSUME IndInv, NEW m \in Messages, Post(m) PROVE IndInv'
<1> USE DEF Post, IndInv, apiVars, ctxVars, callVars, histVars
<1>1. TypeOK'
  <2>1. DataOK'
    BY DEF TypeOK, DataOK, Locations, FirstTime
  <2>2. FlagsOK'
    BY DEF TypeOK, FlagsOK
  <2>3. SetsOK'
    BY DEF TypeOK, DataOK, SetsOK
  <2>4. QED
    BY <2>1, <2>2, <2>3 DEF TypeOK
<1>2. StampsBehindClock'
  BY DEF StampsBehindClock, TypeOK, DataOK, Posted, FirstTime
<1>3. Handled' = Handled /\ Queued' = Queued
  BY DEF Handled, Queued
<1>4. (CallState /\ VectorState)'
  BY DEF CallState, VectorState, PopHasCommand, Posted, TypeOK, FlagsOK
<1>5. (HandledBehindMark /\ QueuedApart)'
  <2>1. QueuedApart'
    BY <1>3 DEF QueuedApart, QueuedOnce
  <2>2. Handled \subseteq Messages \ {m} /\ Queued \subseteq Handled
    BY CommandAssumption DEF HandledBehindMark, Handled
  <2>3. \A n \in Handled : ts'[n] = ts[n]
    BY <2>2 DEF TypeOK, DataOK
  <2>4. HandledBehindMark'
    BY <1>3, <2>2, <2>3 DEF HandledBehindMark, Posted, CallState
  <2>5. QED
    BY <2>1, <2>4
<1>6. (ReplyComplete /\ NoCommandLost /\ NewestFirst)'
  <2>0. /\ ts' \in [Messages -> Nat] /\ ts'[m] = now /\ batch \subseteq Messages \ {m}
        /\ \A n \in Messages \ {m} : ts'[n] = ts[n]
        /\ \A n \in Messages : ts[n] <= now
    BY DEF TypeOK, DataOK, SetsOK, CallState, Posted, StampsBehindClock
  <2>1. ReplyComplete'
    <3>1. \A b \in batch : ts'[b] = ts[b] /\ ts[b] <= now
      BY <2>0
    <3>2. ASSUME NEW n \in Messages \ {m}, Posted(n)', Reachable(n)', pc = "loop", n \notin late'
          PROVE  n \in batch \/ \A b \in batch : ts'[b] < ts'[n]
      BY <2>0, <3>1, <3>2 DEF ReplyComplete, Posted, Reachable
    <3>3. ASSUME m \notin late' PROVE \A b \in batch : ts'[b] < ts'[m]
      <4>1. \A b \in batch : ts[b] # now
        BY <3>3 DEF NowFetched
      <4>2. \A b \in batch : ts[b] \in Nat /\ now \in Nat
        BY DEF TypeOK, DataOK, SetsOK
      <4>3. QED
        BY <2>0, <3>1, <4>1, <4>2
    <3>4. pc = "loop" /\ SortedReplies => \A b \in batch : last <= ts'[b]
      BY <3>1 DEF ReplyComplete
    <3>5. QED
      BY <2>0, <3>2, <3>3, <3>4 DEF ReplyComplete
  <2>2. ASSUME NEW n \in IOCommands, Posted(n)'
        PROVE  (Reachable(n) \/ n \in Handled \/ TooLate(n) \/ CutOff(n))'
    <3>1. n \in Messages /\ last \in Nat /\ now \in Nat /\ last <= now
      BY CommandAssumption DEF TypeOK, DataOK, StampsBehindClock
    <3>2. CASE n = m
      <4>1. CASE last = now
        BY <2>0, <3>1, <3>2, <4>1 DEF NowFetched, TooLate
      <4>2. CASE last # now
        BY <2>0, <3>1, <3>2, <4>2 DEF Reachable
      <4>3. QED
        BY <4>1, <4>2
    <3>3. CASE n # m
      <4>1. Posted(n)
        BY <2>2, <3>1, <3>3 DEF Posted, TypeOK, DataOK
      <4>2. Reachable(n) \/ n \in Handled \/ TooLate(n) \/ CutOff(n)
        BY <4>1 DEF NoCommandLost
      <4>3. CutOff(n) => CutOff(n)'
        <5>1. rejected \subseteq Messages \ {m}
          BY <2>0 DEF HandledBehindMark, Handled, Posted, TypeOK, SetsOK
        <5>2. QED
          BY <2>0, <3>1, <3>3, <5>1 DEF CutOff
      <4>4. Reachable(n) <=> Reachable(n)'
        BY <2>0, <3>1, <3>3 DEF Reachable
      <4>5. TooLate(n) => TooLate(n)'
        BY <4>4 DEF TooLate
      <4>6. QED
        BY <1>3, <4>2, <4>3, <4>4, <4>5
    <3>4. QED
      BY <3>2, <3>3
  <2>3. NewestFirst'
    <3>1. \A i \in 1 .. Len(vec) : vec[i] \in Messages /\ vec[i] # m
      BY DEF HandledBehindMark, Handled, Queued, Post, CommandAssumption, TypeOK, DataOK, Posted
    <3>2. QED
      BY <3>1 DEF NewestFirst, TypeOK, DataOK
  <2>4. NoCommandLost'
    BY <2>2 DEF NoCommandLost
  <2>5. QED
    BY <2>1, <2>3, <2>4
<1>7. QED
  BY <1>1, <1>2, <1>4, <1>5, <1>6

\* A fresh context starts with an empty vector and mark 0.
LEMMA InitContextInv == ASSUME IndInv, InitContext PROVE IndInv'
<1> USE DEF InitContext, IndInv, apiVars, ctxVars, callVars, histVars
<1>1. TypeOK'
  <2>1. DataOK'
    BY EmptySeq DEF TypeOK, DataOK, Locations, FirstTime
  <2>2. FlagsOK'
    BY DEF TypeOK, FlagsOK
  <2>3. SetsOK'
    BY DEF TypeOK, DataOK, SetsOK
  <2>4. QED
    BY <2>1, <2>2, <2>3 DEF TypeOK
<1>2. StampsBehindClock'
  BY DEF StampsBehindClock, TypeOK, DataOK, Posted, FirstTime
<1>3. Handled' = Handled /\ Queued' = {} /\ 1 .. Len(vec') = {}
  <2>1. vec = <<>>
    BY DEF CallState
  <2>2. Queued = {} /\ Queued' = {} /\ 1 .. Len(vec') = {}
    BY <2>1, EmptyVector DEF Queued
  <2>3. QED
    BY <2>2 DEF Handled
<1>4. (CallState /\ VectorState)'
  BY DEF CallState, VectorState, PopHasCommand, Posted, TypeOK, FlagsOK
<1>5. (HandledBehindMark /\ QueuedApart)'
  BY <1>3 DEF HandledBehindMark, QueuedApart, QueuedOnce, Posted, CallState, TypeOK, FlagsOK
<1>6. (ReplyComplete /\ NoCommandLost /\ NewestFirst)'
  <2>1. ReplyComplete'
    BY DEF ReplyComplete, CallState
  <2>2. NewestFirst'
    BY <1>3 DEF NewestFirst
  <2>3. NoCommandLost'
    <3>1. \A n \in IOCommands : Posted(n) => ts[n] > 0
      BY CommandAssumption DEF StampsBehindClock, FirstTime, Posted, TypeOK, DataOK
    <3>2. QED
      BY <3>1 DEF NoCommandLost, Reachable, Posted
  <2>4. QED
    BY <2>1, <2>2, <2>3
<1>7. QED
  BY <1>1, <1>2, <1>4, <1>5, <1>6

\* What was queued counts as lost when the context goes.
LEMMA ContextGoneInv == ASSUME IndInv, ContextGone PROVE IndInv'
<1> USE DEF ContextGone, IndInv, apiVars, ctxVars, callVars, histVars
<1>1. TypeOK'
  <2>1. DataOK'
    BY EmptySeq DEF TypeOK, DataOK, Locations, FirstTime
  <2>2. FlagsOK'
    BY DEF TypeOK, FlagsOK
  <2>3. SetsOK'
    BY QueuedType DEF TypeOK, DataOK, SetsOK
  <2>4. QED
    BY <2>1, <2>2, <2>3 DEF TypeOK
<1>2. StampsBehindClock'
  BY DEF StampsBehindClock, TypeOK, DataOK, Posted, FirstTime
<1>3. Handled' = Handled /\ Queued' = {} /\ 1 .. Len(vec') = {}
  <2>1. Queued' = {} /\ 1 .. Len(vec') = {}
    BY EmptyVector DEF Queued
  <2>2. QED
    BY <2>1 DEF Handled
<1>4. (CallState /\ VectorState)'
  BY DEF CallState, VectorState, PopHasCommand, Posted, TypeOK, FlagsOK
<1>5. (HandledBehindMark /\ QueuedApart)'
  <2>1. HandledBehindMark'
    BY <1>3 DEF HandledBehindMark, Posted
  <2>2. QueuedApart'
    BY <1>3 DEF QueuedApart, QueuedOnce
  <2>3. QED
    BY <2>1, <2>2
<1>6. (ReplyComplete /\ NoCommandLost /\ NewestFirst)'
  <2>1. ReplyComplete'
    BY DEF ReplyComplete
  <2>2. NewestFirst'
    BY <1>3 DEF NewestFirst
  <2>3. NoCommandLost'
    <3>1. \A n \in IOCommands : Posted(n) => ts[n] > 0
      BY CommandAssumption DEF StampsBehindClock, FirstTime, Posted, TypeOK, DataOK
    <3>2. QED
      BY <3>1 DEF NoCommandLost, Reachable, Posted
  <2>4. QED
    BY <2>1, <2>2, <2>3
<1>7. QED
  BY <1>1, <1>2, <1>4, <1>5, <1>6

\* A call starts with parse_commands telling whether a poll was answered.
LEMMA WaitForCommandInv == ASSUME IndInv, WaitForCommand PROVE IndInv'
<1> USE DEF WaitForCommand, ParseCommands, IndInv, apiVars, ctxVars, callVars, histVars
<1>1. TypeOK'
  <2>1. DataOK'
    BY DEF TypeOK, DataOK, Locations, FirstTime
  <2>2. FlagsOK'
    BY DEF TypeOK, FlagsOK
  <2>3. SetsOK'
    BY DEF TypeOK, DataOK, SetsOK
  <2>4. QED
    BY <2>1, <2>2, <2>3 DEF TypeOK
<1>2. StampsBehindClock'
  BY DEF StampsBehindClock, TypeOK, DataOK, Posted, FirstTime
<1>3. Handled' = Handled /\ Queued' = Queued
  BY DEF Handled, Queued
<1>4. (CallState /\ VectorState)'
  BY DEF CallState, VectorState, PopHasCommand, Posted, TypeOK, FlagsOK
<1>5. (HandledBehindMark /\ QueuedApart)'
  BY <1>3 DEF HandledBehindMark, QueuedApart, QueuedOnce, Posted, CallState
<1>6. (ReplyComplete /\ NoCommandLost /\ NewestFirst)'
  BY <1>3 DEF ReplyComplete, NoCommandLost, NewestFirst, Posted, Reachable, TooLate, CutOff, CallState
<1>7. QED
  BY <1>1, <1>2, <1>4, <1>5, <1>6

\* A request that fails leaves the context as it was.
LEMMA ThrowsInv == ASSUME IndInv, GetCommandsThrows PROVE IndInv'
<1> USE DEF GetCommandsThrows, EndCall, IndInv, apiVars, ctxVars, callVars, histVars
<1>1. TypeOK'
  <2>1. DataOK'
    BY DEF TypeOK, DataOK, Locations, FirstTime
  <2>2. FlagsOK'
    BY DEF TypeOK, FlagsOK
  <2>3. SetsOK'
    BY DEF TypeOK, DataOK, SetsOK
  <2>4. QED
    BY <2>1, <2>2, <2>3 DEF TypeOK
<1>2. StampsBehindClock'
  BY DEF StampsBehindClock, TypeOK, DataOK, Posted, FirstTime
<1>3. Handled' = Handled /\ Queued' = Queued
  BY DEF Handled, Queued
<1>4. (CallState /\ VectorState)'
  BY DEF CallState, VectorState, PopHasCommand, Posted, TypeOK, FlagsOK
<1>5. (HandledBehindMark /\ QueuedApart)'
  BY <1>3 DEF HandledBehindMark, QueuedApart, QueuedOnce, Posted, CallState
<1>6. (ReplyComplete /\ NoCommandLost /\ NewestFirst)'
  BY <1>3 DEF ReplyComplete, NoCommandLost, NewestFirst, Posted, Reachable, TooLate, CutOff, CallState
<1>7. QED
  BY <1>1, <1>2, <1>4, <1>5, <1>6

\* A reply holds everything beyond the mark and nothing else.
LEMMA ReturnsInv == ASSUME IndInv, GetCommandsReturns PROVE IndInv'
<1> USE DEF GetCommandsReturns, Since, IndInv, apiVars, ctxVars, callVars, histVars
<1>1. TypeOK'
  <2>1. DataOK'
    BY DEF TypeOK, DataOK, Locations, FirstTime
  <2>2. FlagsOK'
    BY DEF TypeOK, FlagsOK
  <2>3. SetsOK'
    BY DEF TypeOK, DataOK, SetsOK
  <2>4. QED
    BY <2>1, <2>2, <2>3 DEF TypeOK
<1>2. StampsBehindClock'
  BY DEF StampsBehindClock, TypeOK, DataOK, Posted, FirstTime
<1>3. Handled' = Handled /\ Queued' = Queued
  BY DEF Handled, Queued
<1>4. (CallState /\ VectorState)'
  BY DEF CallState, VectorState, PopHasCommand, Posted, TypeOK, FlagsOK
<1>5. (HandledBehindMark /\ QueuedApart)'
  <2>1. QueuedApart'
    BY <1>3 DEF QueuedApart, QueuedOnce
  <2>2. ASSUME NEW n \in Messages, ts[n] <= last
        PROVE  n \notin batch'
    BY <2>2 DEF TypeOK, DataOK
  <2>3. ASSUME ~answered
        PROVE  Handled \subseteq batch'
    <3>1. last = 0
      BY <2>3 DEF CallState
    <3>2. QED
      BY <3>1, CommandAssumption
      DEF HandledBehindMark, Posted, StampsBehindClock, FirstTime, TypeOK, DataOK
  <2>4. Handled \subseteq Messages /\ Queued \subseteq Handled
    BY CommandAssumption DEF HandledBehindMark, Handled
  <2>5. HandledBehindMark'
    BY <1>3, <2>2, <2>3, <2>4 DEF HandledBehindMark, Posted
  <2>6. QED
    BY <2>1, <2>5
<1>6. (ReplyComplete /\ NoCommandLost /\ NewestFirst)'
  <2>1. ReplyComplete'
    BY DEF ReplyComplete, Posted, Reachable, TypeOK, DataOK
  <2>2. NoCommandLost'
    BY <1>3 DEF NoCommandLost, Posted, Reachable, TooLate, CutOff, CallState
  <2>3. NewestFirst'
    BY DEF NewestFirst
  <2>4. QED
    BY <2>1, <2>2, <2>3
<1>7. QED
  BY <1>1, <1>2, <1>4, <1>5, <1>6

\* A failure that passes for an empty reply fetches nothing; a first one makes the context blind.
LEMMA FailsInv == ASSUME IndInv, GetCommandsFails PROVE IndInv'
<1> USE DEF GetCommandsFails, IndInv, apiVars, ctxVars, callVars, histVars
<1>1. TypeOK'
  <2>1. DataOK'
    BY DEF TypeOK, DataOK, Locations, FirstTime
  <2>2. FlagsOK'
    BY DEF TypeOK, FlagsOK
  <2>3. SetsOK'
    BY DEF TypeOK, DataOK, SetsOK
  <2>4. QED
    BY <2>1, <2>2, <2>3 DEF TypeOK
<1>2. StampsBehindClock'
  BY DEF StampsBehindClock, TypeOK, DataOK, Posted, FirstTime
<1>3. Handled' = Handled /\ Queued' = Queued
  BY DEF Handled, Queued
<1>4. (CallState /\ VectorState)'
  BY DEF CallState, VectorState, PopHasCommand, Posted, TypeOK, FlagsOK
<1>5. (HandledBehindMark /\ QueuedApart)'
  BY <1>3 DEF HandledBehindMark, QueuedApart, QueuedOnce, Posted, CallState
<1>6. (ReplyComplete /\ NoCommandLost /\ NewestFirst)'
  BY <1>3 DEF ReplyComplete, NoCommandLost, NewestFirst, Posted, Reachable, TooLate, CutOff, CallState
<1>7. QED
  BY <1>1, <1>2, <1>4, <1>5, <1>6

(***************************************************************************)
(* The loop takes message m: the mark moves past m, and past nothing else  *)
(* that is still wanted unless it was posted late.                         *)
(***************************************************************************)
LEMMA Advance ==
  ASSUME IndInv, NEW m \in Messages, Reaches(m), last' = Mark(m), ts' = ts
  PROVE  /\ last' \in Nat /\ last' >= last /\ last' >= ts[m] /\ last' # 0
         /\ last' \in {last, ts[m]}
         /\ ts[m] \in Nat /\ Posted(m)
         /\ \A n \in Messages : Posted(n) /\ ts[n] > last =>
              n \in batch \/ ts[n] > last' \/ n \in late
         /\ \A n \in Messages : Posted(n) /\ ts[n] > last' =>
              n \in late \/ n \in batch \/ \A b \in batch : ts[b] < ts[n]
         /\ SortedReplies => \A b \in batch : last' <= ts[b] /\ last' = ts[m]
<1> USE DEF IndInv, Reaches, Mark
<1>1. /\ ts \in [Messages -> Nat] /\ last \in Nat /\ batch \subseteq Messages
      /\ m \in batch /\ pc = "loop"
  BY DEF TypeOK, DataOK, SetsOK
<1>2. Posted(m) /\ ts[m] >= 2
  BY <1>1 DEF CallState, StampsBehindClock, FirstTime
<1>3. /\ last' \in Nat /\ last' >= last /\ last' >= ts[m] /\ last' # 0
      /\ last' \in {last, ts[m]} /\ ts[m] \in Nat
  BY <1>1, <1>2
<1>4. \A n \in Messages : Posted(n) /\ ts[n] > last =>
        n \in late \/ n \in batch \/ \A b \in batch : ts[b] < ts[n]
  BY <1>1 DEF ReplyComplete, Reachable
<1>5. ASSUME NEW n \in Messages, Posted(n), ts[n] > last, n \notin batch, n \notin late
      PROVE  ts[n] > last'
  <2>1. ts[m] < ts[n]
    BY <1>1, <1>4, <1>5
  <2>2. QED
    BY <1>1, <1>3, <1>5, <2>1
<1>6. ASSUME NEW n \in Messages, Posted(n), ts[n] > last'
      PROVE  n \in late \/ n \in batch \/ \A b \in batch : ts[b] < ts[n]
  <2>1. ts[n] > last
    BY <1>1, <1>3, <1>6
  <2>2. QED
    BY <1>4, <1>6, <2>1
<1>7. ASSUME SortedReplies, NEW b \in batch
      PROVE  last' <= ts[b] /\ last' = ts[m]
  BY <1>1, <1>7 DEF ReplyComplete
<1>8. QED
  BY <1>2, <1>3, <1>5, <1>6, <1>7

\* A message of another module only moves the mark.
LEMMA SkipForeignInv == ASSUME IndInv, NEW m \in Messages, SkipForeign(m) PROVE IndInv'
<1> USE DEF SkipForeign, IndInv, apiVars, ctxVars, callVars, histVars
<1>a. /\ last' \in Nat /\ last' >= last /\ last' >= ts[m] /\ last' # 0
      /\ last' \in {last, ts[m]}
      /\ ts[m] \in Nat /\ Posted(m)
      /\ \A n \in Messages : Posted(n) /\ ts[n] > last =>
           n \in batch \/ ts[n] > last' \/ n \in late
      /\ \A n \in Messages : Posted(n) /\ ts[n] > last' =>
           n \in late \/ n \in batch \/ \A b \in batch : ts[b] < ts[n]
      /\ SortedReplies => \A b \in batch : last' <= ts[b] /\ last' = ts[m]
  BY Advance
<1>b. /\ ts \in [Messages -> Nat] /\ last \in Nat /\ batch \subseteq Messages
      /\ m \in batch /\ pc = "loop" /\ IOCommands \subseteq Messages
      /\ Handled \subseteq IOCommands /\ Queued \subseteq Handled
  <2>1. Queued \subseteq Handled
    BY DEF Handled
  <2>2. QED
    BY <2>1, CommandAssumption DEF TypeOK, DataOK, SetsOK, Reaches, HandledBehindMark
<1>1. TypeOK'
  <2>1. DataOK'
    BY <1>a DEF TypeOK, DataOK, Locations, FirstTime
  <2>2. FlagsOK'
    BY DEF TypeOK, FlagsOK
  <2>3. SetsOK'
    BY DEF TypeOK, DataOK, SetsOK
  <2>4. QED
    BY <2>1, <2>2, <2>3 DEF TypeOK
<1>2. StampsBehindClock'
  <2>1. last' <= now
    BY <1>a, <1>b DEF StampsBehindClock
  <2>2. last' \in {0, 1} \/ \E n \in Messages : ts[n] = last'
    BY <1>a, <1>b DEF StampsBehindClock
  <2>3. QED
    BY <2>1, <2>2 DEF StampsBehindClock, Posted
<1>3. Handled' = Handled /\ Queued' = Queued
  BY DEF Handled, Queued
<1>4. (CallState /\ VectorState)'
  BY <1>a DEF CallState, VectorState, PopHasCommand, Posted, TypeOK, FlagsOK, Reaches
<1>5. (HandledBehindMark /\ QueuedApart)'
  <2>1. QueuedApart'
    BY <1>3 DEF QueuedApart, QueuedOnce
  <2>2. ASSUME NEW n \in Handled PROVE ts[n] <= last => ts[n] <= last'
    BY <1>a, <1>b
  <2>3. ASSUME NEW n \in Handled PROVE n # m
    BY <1>b
  <2>4. HandledBehindMark'
    BY <1>3, <1>b, <2>2, <2>3 DEF HandledBehindMark, Posted
  <2>5. QED
    BY <2>1, <2>4
<1>6. (ReplyComplete /\ NoCommandLost /\ NewestFirst)'
  <2>1. ReplyComplete'
    <3>1. ASSUME NEW n \in Messages, Posted(n), ts[n] > last', n \notin batch', n \notin late
          PROVE  \A b \in batch' : ts[b] < ts[n]
      <4>1. n # m
        BY <1>a, <1>b, <3>1
      <4>2. QED
        BY <1>a, <3>1, <4>1
    <3>2. SortedReplies => \A b \in batch' : last' <= ts[b]
      BY <1>a
    <3>3. QED
      BY <3>1, <3>2 DEF ReplyComplete, Reachable, Posted
  <2>2. NoCommandLost'
    <3>1. ASSUME NEW n \in IOCommands, Posted(n)
          PROVE  Reachable(n)' \/ n \in Handled' \/ n \in late \/ CutOff(n)
      <4>1. CASE n = m
        BY <4>1
      <4>2. CASE n # m
        <5>1. Reachable(n) \/ n \in Handled \/ n \in late \/ CutOff(n)
          BY <3>1 DEF NoCommandLost, TooLate
        <5>2. Reachable(n) => n \in batch' \/ ts[n] > last' \/ n \in late
          BY <1>a, <1>b, <3>1, <4>2 DEF Reachable
        <5>3. QED
          BY <1>3, <5>1, <5>2 DEF Reachable
      <4>3. QED
        BY <4>1, <4>2
    <3>2. QED
      BY <3>1 DEF NoCommandLost, Posted, TooLate, CutOff
  <2>3. NewestFirst'
    BY DEF NewestFirst
  <2>4. QED
    BY <2>1, <2>2, <2>3
<1>7. QED
  BY <1>1, <1>2, <1>4, <1>5, <1>6

\* The first poll finishes with a command by discarding it.
LEMMA DiscardStaleInv == ASSUME IndInv, NEW m \in Messages, DiscardStale(m) PROVE IndInv'
<1> USE DEF DiscardStale, IndInv, apiVars, ctxVars, callVars, histVars
<1>a. /\ last' \in Nat /\ last' >= last /\ last' >= ts[m] /\ last' # 0
      /\ last' \in {last, ts[m]}
      /\ ts[m] \in Nat /\ Posted(m)
      /\ \A n \in Messages : Posted(n) /\ ts[n] > last =>
           n \in batch \/ ts[n] > last' \/ n \in late
      /\ \A n \in Messages : Posted(n) /\ ts[n] > last' =>
           n \in late \/ n \in batch \/ \A b \in batch : ts[b] < ts[n]
      /\ SortedReplies => \A b \in batch : last' <= ts[b] /\ last' = ts[m]
  BY Advance
<1>b. /\ ts \in [Messages -> Nat] /\ last \in Nat /\ batch \subseteq Messages
      /\ m \in batch /\ pc = "loop" /\ IOCommands \subseteq Messages
      /\ Handled \subseteq IOCommands /\ Queued \subseteq Handled
  <2>1. Queued \subseteq Handled
    BY DEF Handled
  <2>2. QED
    BY <2>1, CommandAssumption DEF TypeOK, DataOK, SetsOK, Reaches, HandledBehindMark
<1>1. TypeOK'
  <2>1. DataOK'
    BY <1>a DEF TypeOK, DataOK, Locations, FirstTime
  <2>2. FlagsOK'
    BY DEF TypeOK, FlagsOK
  <2>3. SetsOK'
    BY DEF TypeOK, DataOK, SetsOK
  <2>4. QED
    BY <2>1, <2>2, <2>3 DEF TypeOK
<1>2. StampsBehindClock'
  <2>1. last' <= now
    BY <1>a, <1>b DEF StampsBehindClock
  <2>2. last' \in {0, 1} \/ \E n \in Messages : ts[n] = last'
    BY <1>a, <1>b DEF StampsBehindClock
  <2>3. QED
    BY <2>1, <2>2 DEF StampsBehindClock, Posted
<1>3. Handled' = Handled \cup {m} /\ Queued' = {} /\ 1 .. Len(vec') = {}
  <2>1. vec = <<>>
    BY <1>b DEF CallState
  <2>2. Queued' = {} /\ 1 .. Len(vec') = {}
    BY <2>1, EmptyVector DEF Queued
  <2>3. QED
    BY <2>1, <2>2 DEF Handled, Queued
<1>4. (CallState /\ VectorState)'
  BY <1>a DEF CallState, VectorState, PopHasCommand, Posted, TypeOK, FlagsOK, Reaches
<1>5. (HandledBehindMark /\ QueuedApart)'
  <2>1. QueuedApart'
    BY <1>3 DEF QueuedApart, QueuedOnce
  <2>2. ASSUME NEW n \in Handled PROVE ts[n] <= last => ts[n] <= last'
    BY <1>a, <1>b
  <2>3. ~answered
    BY <1>b DEF CallState
  <2>4. HandledBehindMark'
    BY <1>3, <1>a, <1>b, <2>2, <2>3 DEF HandledBehindMark, Posted
  <2>5. QED
    BY <2>1, <2>4
<1>6. (ReplyComplete /\ NoCommandLost /\ NewestFirst)'
  <2>1. ReplyComplete'
    <3>1. ASSUME NEW n \in Messages, Posted(n), ts[n] > last', n \notin batch', n \notin late
          PROVE  \A b \in batch' : ts[b] < ts[n]
      <4>1. n # m
        BY <1>a, <1>b, <3>1
      <4>2. QED
        BY <1>a, <3>1, <4>1
    <3>2. SortedReplies => \A b \in batch' : last' <= ts[b]
      BY <1>a
    <3>3. QED
      BY <3>1, <3>2 DEF ReplyComplete, Reachable, Posted
  <2>2. NoCommandLost'
    <3>1. ASSUME NEW n \in IOCommands, Posted(n)
          PROVE  Reachable(n)' \/ n \in Handled' \/ n \in late \/ CutOff(n)
      <4>1. CASE n = m
        BY <1>3, <4>1
      <4>2. CASE n # m
        <5>1. Reachable(n) \/ n \in Handled \/ n \in late \/ CutOff(n)
          BY <3>1 DEF NoCommandLost, TooLate
        <5>2. Reachable(n) => n \in batch' \/ ts[n] > last' \/ n \in late
          BY <1>a, <1>b, <3>1, <4>2 DEF Reachable
        <5>3. QED
          BY <1>3, <5>1, <5>2 DEF Reachable
      <4>3. QED
        BY <4>1, <4>2
    <3>2. QED
      BY <3>1 DEF NoCommandLost, Posted, TooLate, CutOff
  <2>3. NewestFirst'
    BY <1>3 DEF NewestFirst
  <2>4. QED
    BY <2>1, <2>2, <2>3
<1>7. QED
  BY <1>1, <1>2, <1>4, <1>5, <1>6

\* A parsed command joins the vector; no earlier poll took it, and none behind it is newer.
LEMMA QueueCommandInv == ASSUME IndInv, NEW m \in Messages, QueueCommand(m) PROVE IndInv'
<1> USE DEF QueueCommand, Enqueue, IndInv, apiVars, ctxVars, callVars, histVars
<1>a. /\ last' \in Nat /\ last' >= last /\ last' >= ts[m] /\ last' # 0
      /\ last' \in {last, ts[m]}
      /\ ts[m] \in Nat /\ Posted(m)
      /\ \A n \in Messages : Posted(n) /\ ts[n] > last =>
           n \in batch \/ ts[n] > last' \/ n \in late
      /\ \A n \in Messages : Posted(n) /\ ts[n] > last' =>
           n \in late \/ n \in batch \/ \A b \in batch : ts[b] < ts[n]
      /\ SortedReplies => \A b \in batch : last' <= ts[b] /\ last' = ts[m]
  BY Advance
<1>b. /\ ts \in [Messages -> Nat] /\ last \in Nat /\ batch \subseteq Messages
      /\ m \in batch /\ pc = "loop" /\ IOCommands \subseteq Messages
      /\ Handled \subseteq IOCommands /\ Queued \subseteq Handled
  <2>1. Queued \subseteq Handled
    BY DEF Handled
  <2>2. QED
    BY <2>1, CommandAssumption DEF TypeOK, DataOK, SetsOK, Reaches, HandledBehindMark
<1>1. TypeOK'
  <2>1. DataOK'
    BY <1>a, AppendProperties DEF TypeOK, DataOK, Locations, FirstTime
  <2>2. FlagsOK'
    BY DEF TypeOK, FlagsOK
  <2>3. SetsOK'
    BY DEF TypeOK, DataOK, SetsOK
  <2>4. QED
    BY <2>1, <2>2, <2>3 DEF TypeOK
<1>2. StampsBehindClock'
  <2>1. last' <= now
    BY <1>a, <1>b DEF StampsBehindClock
  <2>2. last' \in {0, 1} \/ \E n \in Messages : ts[n] = last'
    BY <1>a, <1>b DEF StampsBehindClock
  <2>3. QED
    BY <2>1, <2>2 DEF StampsBehindClock, Posted
<1>3. /\ Handled' = Handled \cup {m} /\ Queued' = Queued \cup {m} /\ answered
      /\ m \notin Queued /\ (~blind => m \notin Handled)
  <2>1. Queued' = Queued \cup {m}
    BY AppendElements DEF Queued, TypeOK, DataOK
  <2>2. answered
    BY <1>b DEF CallState
  <2>3. m \notin Queued /\ (~blind => m \notin Handled)
    BY <1>b, <2>2 DEF HandledBehindMark
  <2>4. QED
    BY <2>1, <2>2, <2>3 DEF Handled
<1>c. /\ 1 .. Len(vec') = (1 .. Len(vec)) \cup {Len(vec')}
      /\ vec'[Len(vec')] = m /\ Len(vec) \in Nat /\ Len(vec') = Len(vec) + 1
      /\ \A i \in 1 .. Len(vec) : vec'[i] = vec[i] /\ vec[i] \in Queued
  BY AppendProperties, LenProperties DEF Queued, TypeOK, DataOK
<1>4. (CallState /\ VectorState)'
  <2>1. vec' # <<>>
    BY AppendProperties DEF TypeOK, DataOK
  <2>2. QED
    BY <1>a, <2>1 DEF CallState, VectorState, PopHasCommand, Posted, TypeOK, FlagsOK, Reaches
<1>5. (HandledBehindMark /\ QueuedApart)'
  <2>1. QueuedOnce'
    <3>1. ASSUME NEW i \in 1 .. Len(vec'), NEW j \in 1 .. Len(vec'), i # j
          PROVE  vec'[i] # vec'[j]
      <4>1. \A k \in 1 .. Len(vec) : vec'[k] = vec[k] /\ vec[k] # m
        BY <1>3, <1>c
      <4>2. vec'[Len(vec')] = m
        BY <1>c
      <4>3. CASE i \in 1 .. Len(vec) /\ j \in 1 .. Len(vec)
        BY <3>1, <4>1, <4>3 DEF QueuedApart, QueuedOnce
      <4>4. CASE i = Len(vec') /\ j \in 1 .. Len(vec)
        BY <4>1, <4>2, <4>4
      <4>5. CASE j = Len(vec') /\ i \in 1 .. Len(vec)
        BY <4>1, <4>2, <4>5
      <4>6. QED
        BY <1>c, <3>1, <4>3, <4>4, <4>5
    <3>2. ~blind' => Queued' \cap delivered' = {}
      BY <1>3 DEF QueuedApart, QueuedOnce, Handled
    <3>3. QED
      BY <3>1, <3>2 DEF QueuedOnce
  <2>2. QueuedApart'
    BY <1>3, <2>1 DEF QueuedApart, Handled
  <2>3. ASSUME NEW n \in Handled PROVE ts[n] <= last => ts[n] <= last'
    BY <1>a, <1>b
  <2>4. HandledBehindMark'
    BY <1>3, <1>a, <1>b, <2>3 DEF HandledBehindMark, Posted
  <2>5. QED
    BY <2>2, <2>4
<1>6. (ReplyComplete /\ NoCommandLost /\ NewestFirst)'
  <2>1. ReplyComplete'
    <3>1. ASSUME NEW n \in Messages, Posted(n), ts[n] > last', n \notin batch', n \notin late
          PROVE  \A b \in batch' : ts[b] < ts[n]
      <4>1. n # m
        BY <1>a, <1>b, <3>1
      <4>2. QED
        BY <1>a, <3>1, <4>1
    <3>2. SortedReplies => \A b \in batch' : last' <= ts[b]
      BY <1>a
    <3>3. QED
      BY <3>1, <3>2 DEF ReplyComplete, Reachable, Posted
  <2>2. NoCommandLost'
    <3>1. ASSUME NEW n \in IOCommands, Posted(n)
          PROVE  Reachable(n)' \/ n \in Handled' \/ n \in late \/ CutOff(n)
      <4>1. CASE n = m
        BY <1>3, <4>1
      <4>2. CASE n # m
        <5>1. Reachable(n) \/ n \in Handled \/ n \in late \/ CutOff(n)
          BY <3>1 DEF NoCommandLost, TooLate
        <5>2. Reachable(n) => n \in batch' \/ ts[n] > last' \/ n \in late
          BY <1>a, <1>b, <3>1, <4>2 DEF Reachable
        <5>3. QED
          BY <1>3, <5>1, <5>2 DEF Reachable
      <4>3. QED
        BY <4>1, <4>2
    <3>2. QED
      BY <3>1 DEF NoCommandLost, Posted, TooLate, CutOff
  <2>3. NewestFirst'
    <3> SUFFICES ASSUME SortedReplies,
                        NEW i \in 1 .. Len(vec'), NEW j \in 1 .. Len(vec'), i < j
                 PROVE  ts[vec'[i]] <= ts[vec'[j]]
      BY DEF NewestFirst
    <3>1. i \in 1 .. Len(vec) /\ vec'[i] = vec[i]
      BY <1>c
    <3>2. CASE j \in 1 .. Len(vec)
      BY <1>c, <3>1, <3>2 DEF NewestFirst
    <3>3. CASE j = Len(vec')
      <4>1. vec[i] \in Queued /\ vec[i] \in Messages
        BY <1>b, <1>c, <3>1
      <4>2. ts[vec[i]] <= last
        BY <1>3, <4>1 DEF HandledBehindMark
      <4>3. last' = ts[m]
        BY <1>a, <1>b
      <4>4. QED
        BY <1>a, <1>b, <1>c, <3>1, <3>3, <4>1, <4>2, <4>3
    <3>4. QED
      BY <1>c, <3>2, <3>3
  <2>4. QED
    BY <2>1, <2>2, <2>3
<1>7. QED
  BY <1>1, <1>2, <1>4, <1>5, <1>6

\* A payload that does not parse ends the call with the mark moved past it.
LEMMA RejectInv == ASSUME IndInv, NEW m \in Messages, RejectMalformed(m) PROVE IndInv'
<1> USE DEF RejectMalformed, EndCall, IndInv, apiVars, ctxVars, callVars, histVars
<1>a. /\ last' \in Nat /\ last' >= last /\ last' >= ts[m] /\ last' # 0
      /\ last' \in {last, ts[m]}
      /\ ts[m] \in Nat /\ Posted(m)
      /\ \A n \in Messages : Posted(n) /\ ts[n] > last =>
           n \in batch \/ ts[n] > last' \/ n \in late
      /\ \A n \in Messages : Posted(n) /\ ts[n] > last' =>
           n \in late \/ n \in batch \/ \A b \in batch : ts[b] < ts[n]
      /\ SortedReplies => \A b \in batch : last' <= ts[b] /\ last' = ts[m]
  BY Advance
<1>b. /\ ts \in [Messages -> Nat] /\ last \in Nat /\ batch \subseteq Messages
      /\ m \in batch /\ pc = "loop" /\ IOCommands \subseteq Messages
      /\ Handled \subseteq IOCommands /\ Queued \subseteq Handled
  <2>1. Queued \subseteq Handled
    BY DEF Handled
  <2>2. QED
    BY <2>1, CommandAssumption DEF TypeOK, DataOK, SetsOK, Reaches, HandledBehindMark
<1>1. TypeOK'
  <2>1. DataOK'
    BY <1>a DEF TypeOK, DataOK, Locations, FirstTime
  <2>2. FlagsOK'
    BY DEF TypeOK, FlagsOK
  <2>3. SetsOK'
    BY DEF TypeOK, DataOK, SetsOK
  <2>4. QED
    BY <2>1, <2>2, <2>3 DEF TypeOK
<1>2. StampsBehindClock'
  <2>1. last' <= now
    BY <1>a, <1>b DEF StampsBehindClock
  <2>2. last' \in {0, 1} \/ \E n \in Messages : ts[n] = last'
    BY <1>a, <1>b DEF StampsBehindClock
  <2>3. QED
    BY <2>1, <2>2 DEF StampsBehindClock, Posted
<1>3. /\ Handled' = Handled \cup {m} /\ Queued' = Queued /\ answered
      /\ m \notin Queued /\ (~blind => m \notin Handled)
  <2>1. answered
    BY <1>b DEF CallState
  <2>2. m \notin Queued /\ (~blind => m \notin Handled)
    BY <1>b, <2>1 DEF HandledBehindMark
  <2>3. QED
    BY <2>1, <2>2 DEF Handled, Queued
<1>4. (CallState /\ VectorState)'
  BY <1>a DEF CallState, VectorState, PopHasCommand, Posted, TypeOK, FlagsOK, Reaches
<1>5. (HandledBehindMark /\ QueuedApart)'
  <2>1. QueuedApart'
    BY <1>3 DEF QueuedApart, QueuedOnce, Handled
  <2>2. ASSUME NEW n \in Handled PROVE ts[n] <= last => ts[n] <= last'
    BY <1>a, <1>b
  <2>3. HandledBehindMark'
    BY <1>3, <1>a, <1>b, <2>2 DEF HandledBehindMark, Posted
  <2>4. QED
    BY <2>1, <2>3
<1>6. (ReplyComplete /\ NoCommandLost /\ NewestFirst)'
  <2>1. ReplyComplete'
    BY DEF ReplyComplete
  <2>2. NoCommandLost'
    <3>1. ASSUME NEW n \in IOCommands, Posted(n)
          PROVE  ts[n] > last' \/ n \in Handled' \/ n \in late \/ CutOff(n)'
      <4>1. CASE n \in batch /\ n # m /\ ~(ts[n] > last')
        <5>1. n \in skipped'
          <6>1. ts[n] <= Mark(m)
            BY <1>a, <1>b, <4>1
          <6>2. QED
            BY <4>1, <6>1
        <5>2. SortedReplies => ts[n] = ts[m]
          BY <1>a, <1>b, <4>1
        <5>3. m \in rejected' \ {n}
          BY <4>1
        <5>4. QED
          BY <5>1, <5>2, <5>3 DEF CutOff
      <4>2. CASE n \notin batch
        <5>1. ts[n] > last \/ n \in Handled \/ n \in late \/ CutOff(n)
          BY <3>1, <4>2 DEF NoCommandLost, Reachable, TooLate
        <5>2. CutOff(n) => CutOff(n)'
          BY DEF CutOff
        <5>3. QED
          BY <1>3, <1>a, <1>b, <3>1, <4>2, <5>1, <5>2
      <4>3. QED
        BY <1>3, <4>1, <4>2
    <3>2. QED
      BY <3>1 DEF NoCommandLost, Reachable, Posted, TooLate, CutOff
  <2>3. NewestFirst'
    BY DEF NewestFirst
  <2>4. QED
    BY <2>1, <2>2, <2>3
<1>7. QED
  BY <1>1, <1>2, <1>4, <1>5, <1>6

\* The end of the call: the mark now tells that a poll was answered.
LEMMA WaitReturnsInv == ASSUME IndInv, WaitReturns PROVE IndInv'
<1> USE DEF WaitReturns, EndCall, MarkAtReturn, ReturnsOk, IndInv, apiVars, ctxVars, callVars, histVars
<1>1. TypeOK'
  <2>1. DataOK'
    BY DEF TypeOK, DataOK, Locations, FirstTime
  <2>2. FlagsOK'
    BY DEF TypeOK, FlagsOK
  <2>3. SetsOK'
    BY DEF TypeOK, DataOK, SetsOK
  <2>4. QED
    BY <2>1, <2>2, <2>3 DEF TypeOK
<1>2. StampsBehindClock'
  BY DEF StampsBehindClock, TypeOK, DataOK, Posted, FirstTime
<1>3. Handled' = Handled /\ Queued' = Queued
  BY DEF Handled, Queued
<1>4. (CallState /\ VectorState)'
  BY DEF CallState, VectorState, PopHasCommand, Posted, TypeOK, FlagsOK
<1>5. (HandledBehindMark /\ QueuedApart)'
  <2>1. QueuedApart'
    BY <1>3 DEF QueuedApart, QueuedOnce
  <2>2. ASSUME NEW n \in Handled, ~blind PROVE ts[n] <= last'
    BY <2>2 DEF HandledBehindMark, CallState
  <2>3. ASSUME NEW n \in Queued PROVE ts[n] <= last'
    <3>1. answered
      BY <2>3, EmptyVector DEF CallState, Queued
    <3>2. last' = last
      BY <3>1 DEF CallState
    <3>3. QED
      BY <2>3, <3>1, <3>2 DEF HandledBehindMark
  <2>4. HandledBehindMark'
    BY <1>3, <2>2, <2>3 DEF HandledBehindMark, Posted
  <2>5. QED
    BY <2>1, <2>4
<1>6. (ReplyComplete /\ NoCommandLost /\ NewestFirst)'
  <2>1. ReplyComplete'
    BY DEF ReplyComplete
  <2>2. ASSUME NEW n \in IOCommands, Posted(n), Reachable(n)
        PROVE  ts[n] > last'
    <3>1. n \in Messages /\ ts[n] > last /\ ts[n] > 1
      BY <2>2, CommandAssumption
      DEF Reachable, StampsBehindClock, FirstTime, Posted, TypeOK, DataOK
    <3>2. QED
      BY <3>1
  <2>3. NoCommandLost'
    BY <1>3, <2>2 DEF NoCommandLost, Posted, Reachable, TooLate, CutOff
  <2>4. NewestFirst'
    BY DEF NewestFirst
  <2>5. QED
    BY <2>1, <2>3, <2>4
<1>7. QED
  BY <1>1, <1>2, <1>4, <1>5, <1>6

\* pop_command moves the back of the vector to the delivered commands.
LEMMA PopCommandInv == ASSUME IndInv, PopCommand PROVE IndInv'
<1> USE DEF PopCommand, WithoutBack, Back, Remaining, IndInv, apiVars, ctxVars, callVars, histVars
<1>a. /\ Len(vec) \in Nat \ {0}
      /\ vec' \in Seq(Messages)
      /\ Len(vec') = Len(vec) - 1
      /\ \A i \in 1 .. Len(vec') : vec'[i] = vec[i]
      /\ 1 .. Len(vec) = (1 .. Len(vec')) \cup {Len(vec)}
      /\ Queued' = Queued \ {Back}
  <2>1. /\ vec \in Seq(Messages) /\ vec # <<>> /\ vec' = SubSeq(vec, 1, Len(vec) - 1)
        /\ \A i, j \in 1 .. Len(vec) : i # j => vec[i] # vec[j]
    BY DEF TypeOK, DataOK, QueuedApart, QueuedOnce
  <2>2. /\ Len(vec) \in Nat \ {0}
        /\ vec' \in Seq(Messages)
        /\ Len(vec') = Len(vec) - 1
        /\ \A i \in 1 .. Len(vec') : vec'[i] = vec[i]
        /\ 1 .. Len(vec) = (1 .. Len(vec')) \cup {Len(vec)}
        /\ {vec'[i] : i \in 1 .. Len(vec')}
              = {vec[i] : i \in 1 .. Len(vec)} \ {vec[Len(vec)]}
    BY <2>1, FrontElements
  <2>3. QED
    BY <2>2 DEF Queued
<1>b. Back \in Queued /\ Back \in Messages
  BY <1>a, ElementOfSeq DEF TypeOK, DataOK, Queued
<1>1. TypeOK'
  <2>1. DataOK'
    BY <1>a DEF TypeOK, DataOK, Locations, FirstTime
  <2>2. FlagsOK'
    BY DEF TypeOK, FlagsOK
  <2>3. SetsOK'
    BY <1>b DEF TypeOK, DataOK, SetsOK
  <2>4. QED
    BY <2>1, <2>2, <2>3 DEF TypeOK
<1>2. StampsBehindClock'
  BY DEF StampsBehindClock, TypeOK, DataOK, Posted, FirstTime
<1>3. Handled' = Handled
  BY <1>a, <1>b DEF Handled
<1>4. (CallState /\ VectorState)'
  <2>1. Remaining > 0 <=> vec' # <<>>
    BY <1>a, EmptySeq
  <2>2. QED
    BY <2>1 DEF CallState, VectorState, PopHasCommand, Posted, TypeOK, FlagsOK
<1>5. (HandledBehindMark /\ QueuedApart)'
  <2>1. QueuedApart'
    BY <1>a, <1>b DEF QueuedApart, QueuedOnce
  <2>2. HandledBehindMark'
    BY <1>3, <1>a DEF HandledBehindMark, Posted
  <2>3. QED
    BY <2>1, <2>2
<1>6. (ReplyComplete /\ NoCommandLost /\ NewestFirst)'
  <2>1. ReplyComplete'
    BY DEF ReplyComplete
  <2>2. NoCommandLost'
    BY <1>3 DEF NoCommandLost, Posted, Reachable, TooLate, CutOff
  <2>3. NewestFirst'
    BY <1>a DEF NewestFirst
  <2>4. QED
    BY <2>1, <2>2, <2>3
<1>7. QED
  BY <1>1, <1>2, <1>4, <1>5, <1>6

\* A pop_command that runs out of memory changes nothing but the caller's mind.
LEMMA PopFailsInv == ASSUME IndInv, PopFails PROVE IndInv'
<1> USE DEF PopFails, IndInv, apiVars, ctxVars, callVars, histVars
<1>1. TypeOK'
  <2>1. DataOK'
    BY DEF TypeOK, DataOK, Locations, FirstTime
  <2>2. FlagsOK'
    BY DEF TypeOK, FlagsOK
  <2>3. SetsOK'
    BY DEF TypeOK, DataOK, SetsOK
  <2>4. QED
    BY <2>1, <2>2, <2>3 DEF TypeOK
<1>2. StampsBehindClock'
  BY DEF StampsBehindClock, TypeOK, DataOK, Posted, FirstTime
<1>3. Handled' = Handled /\ Queued' = Queued
  BY DEF Handled, Queued
<1>4. (CallState /\ VectorState)'
  BY DEF CallState, VectorState, PopHasCommand, Posted, TypeOK, FlagsOK
<1>5. (HandledBehindMark /\ QueuedApart)'
  BY <1>3 DEF HandledBehindMark, QueuedApart, QueuedOnce, Posted, CallState
<1>6. (ReplyComplete /\ NoCommandLost /\ NewestFirst)'
  BY <1>3 DEF ReplyComplete, NoCommandLost, NewestFirst, Posted, Reachable, TooLate, CutOff, CallState
<1>7. QED
  BY <1>1, <1>2, <1>4, <1>5, <1>6

\* A step that changes nothing.
LEMMA StutterInv == ASSUME IndInv, UNCHANGED vars PROVE IndInv'
<1> USE DEF vars, apiVars, ctxVars, callVars, histVars, IndInv
<1>1. TypeOK'
  BY DEF TypeOK, DataOK, FlagsOK, SetsOK
<1>2. Handled' = Handled /\ Queued' = Queued
  BY DEF Handled, Queued
<1>3. (StampsBehindClock /\ CallState /\ VectorState)'
  BY DEF StampsBehindClock, CallState, VectorState, PopHasCommand, Posted
<1>4. (HandledBehindMark /\ QueuedApart)'
  BY <1>2 DEF HandledBehindMark, QueuedApart, QueuedOnce, Posted
<1>5. (ReplyComplete /\ NoCommandLost /\ NewestFirst)'
  BY <1>2 DEF ReplyComplete, NoCommandLost, NewestFirst, Posted, Reachable, TooLate, CutOff
<1>6. QED
  BY <1>1, <1>3, <1>4, <1>5

LEMMA NextInv == ASSUME IndInv, [Next]_vars PROVE IndInv'
<1>1. CASE Tick
  BY <1>1, TickInv
<1>2. CASE \E m \in Messages : Post(m)
  BY <1>2, PostInv
<1>3. CASE InitContext
  BY <1>3, InitContextInv
<1>4. CASE Destroy
  BY <1>4, ContextGoneInv DEF Destroy
<1>5. CASE Crash
  BY <1>5, ContextGoneInv DEF Crash
<1>6. CASE WaitForCommand
  BY <1>6, WaitForCommandInv
<1>7. CASE GetCommandsThrows
  BY <1>7, ThrowsInv
<1>8. CASE GetCommandsReturns
  BY <1>8, ReturnsInv
<1>8a. CASE GetCommandsFails
  BY <1>8a, FailsInv
<1>9. CASE \E m \in Messages : HandleMessage(m)
  BY <1>9, SkipForeignInv, DiscardStaleInv, QueueCommandInv, RejectInv DEF HandleMessage
<1>10. CASE WaitReturns
  BY <1>10, WaitReturnsInv
<1>11. CASE PopCommand
  BY <1>11, PopCommandInv
<1>12. CASE PopFails
  BY <1>12, PopFailsInv
<1>13. CASE UNCHANGED vars
  BY <1>13, StutterInv
<1>14. QED
  BY <1>1, <1>2, <1>3, <1>4, <1>5, <1>6, <1>7, <1>8, <1>8a, <1>9, <1>10, <1>11,
     <1>12, <1>13
  DEF Next

-----------------------------------------------------------------------------
(***************************************************************************)
(* The safety properties, for every set of messages, every classification  *)
(* of them, every order of replies and every bound.                        *)
(***************************************************************************)

\* The conjunction that carries all the others holds in every state.
THEOREM IndInvHolds == Spec => []IndInv
<1>1. Init => IndInv
  BY InitInv
<1>2. IndInv /\ [Next]_vars => IndInv'
  BY NextInv
<1>3. QED
  BY <1>1, <1>2, PTL DEF Spec

\* Every variable keeps its type.
THEOREM TypeCorrect == Spec => []TypeOK
<1>1. IndInv => TypeOK
  BY DEF IndInv
<1>2. QED
  BY <1>1, IndInvHolds, PTL

\* pop_command is called on a vector that holds a command.
THEOREM PopIsSafe == Spec => []PopHasCommand
<1>1. IndInv => PopHasCommand
  BY DEF IndInv, VectorState
<1>2. QED
  BY <1>1, IndInvHolds, PTL

\* A parsing poll gets no command that an earlier poll took.
THEOREM NothingFetchedTwice == Spec => []FetchedOnce
<1>1. IndInv => FetchedOnce
  BY DEF IndInv, FetchedOnce, HandledBehindMark, CallState
<1>2. QED
  BY <1>1, IndInvHolds, PTL

\* No command is in the vector twice; and none is queued that was handed over,
\* unless the context's first answer was a failure by its return code, which
\* nobody saw.  If failed requests always throw, there is no such exception.
THEOREM NothingQueuedTwice ==
  Spec => []/\ QueuedOnce
            /\ ~FailedReplies => Queued \cap delivered = {}
<1>1. IndInv => QueuedOnce
  BY DEF IndInv, QueuedApart
<1>2. IndInv /\ ~FailedReplies => ~blind
  BY DEF IndInv, CallState
<1>3. IndInv /\ ~FailedReplies => Queued \cap delivered = {}
  BY <1>1, <1>2 DEF QueuedOnce
<1>4. QED
  BY <1>1, <1>3, IndInvHolds, PTL

\* Commands are lost only through the three gaps NoCommandLost names.
THEOREM CommandsAreKept == Spec => []NoCommandLost
<1>1. IndInv => NoCommandLost
  BY DEF IndInv
<1>2. QED
  BY <1>1, IndInvHolds, PTL

\* Only the first answered poll of a context discards.
THEOREM BacklogOnly == Spec => []OnlyBacklogDiscarded
<1>1. IndInv => OnlyBacklogDiscarded
  BY DEF IndInv, OnlyBacklogDiscarded, CallState
<1>2. QED
  BY <1>1, IndInvHolds, PTL

\* With replies in stamp order the vector is sorted, so pops go newest first.
THEOREM VectorSorted == Spec => []NewestFirst
<1>1. IndInv => NewestFirst
  BY DEF IndInv
<1>2. QED
  BY <1>1, IndInvHolds, PTL

\* A command is stranded in the vector only by a failed poll or pop.
THEOREM StrandedByFailure == Spec => []StrandedOnlyByFailure
<1>1. IndInv => StrandedOnlyByFailure
  BY DEF IndInv, StrandedOnlyByFailure, VectorState, CallState
<1>2. QED
  BY <1>1, IndInvHolds, PTL

\* Once a poll was answered, the mark of a live context never goes back.
THEOREM MarkGrows == Spec => MarkOnlyGrows
<1>1. ASSUME IndInv, [Next]_vars, answered, context' = "live" PROVE last' >= last
  <2>1. last \in Nat /\ ts \in [Messages -> Nat]
    BY <1>1 DEF IndInv, TypeOK, DataOK
  <2>2. CASE \E m \in Messages : HandleMessage(m)
    BY <2>1, <2>2
    DEF HandleMessage, SkipForeign, DiscardStale, QueueCommand, RejectMalformed, Mark
  <2>3. CASE WaitReturns
    <3>1. parse
      BY <1>1, <2>3 DEF IndInv, CallState, WaitReturns
    <3>2. last' = last
      BY <2>3, <3>1 DEF WaitReturns, MarkAtReturn
    <3>3. QED
      BY <2>1, <3>2
  <2>4. CASE InitContext
    <3>1. context = "none"
      BY <2>4 DEF InitContext
    <3>2. QED
      BY <1>1, <3>1 DEF IndInv, CallState
  <2>5. CASE Destroy \/ Crash
    BY <1>1, <2>5 DEF Destroy, Crash, ContextGone
  <2>6. CASE \/ Tick
             \/ \E m \in Messages : Post(m)
             \/ WaitForCommand
             \/ GetCommandsThrows
             \/ GetCommandsReturns
             \/ GetCommandsFails
             \/ PopCommand
             \/ PopFails
             \/ UNCHANGED vars
    <3>1. last' = last
      BY <2>6 DEF Tick, Post, WaitForCommand, GetCommandsThrows, GetCommandsReturns,
                  GetCommandsFails, PopCommand, PopFails, vars, ctxVars
    <3>2. QED
      BY <2>1, <3>1
  <2>7. QED
    BY <1>1, <2>2, <2>3, <2>4, <2>5, <2>6 DEF Next
<1>2. IndInv /\ [Next]_vars => [answered /\ context' = "live" => last' >= last]_vars
  BY <1>1
<1>3. QED
  BY <1>2, IndInvHolds, PTL DEF Spec, MarkOnlyGrows

-----------------------------------------------------------------------------
(***************************************************************************)
(* CommandApi implements CommandDelivery.                                  *)
(***************************************************************************)

\* statusOf, case by case, before and after a step.
LEMMA StatusCases ==
  ASSUME NEW m
  PROVE  /\ m \in delivered => statusOf(m) = "delivered"
         /\ m \notin delivered /\ m \in Queued => statusOf(m) = "accepted"
         /\ m \in Handled /\ m \notin delivered /\ m \notin Queued => statusOf(m) = "dropped"
         /\ m \notin Handled /\ Posted(m) => statusOf(m) = "posted"
         /\ m \notin Handled /\ ~Posted(m) => statusOf(m) = "unposted"
  BY DEF statusOf, Handled

LEMMA StatusCasesNext ==
  ASSUME NEW m
  PROVE  /\ m \in delivered' => statusOf(m)' = "delivered"
         /\ m \notin delivered' /\ m \in Queued' => statusOf(m)' = "accepted"
         /\ m \in Handled' /\ m \notin delivered' /\ m \notin Queued' =>
              statusOf(m)' = "dropped"
         /\ m \notin Handled' /\ Posted(m)' => statusOf(m)' = "posted"
         /\ m \notin Handled' /\ ~Posted(m)' => statusOf(m)' = "unposted"
  BY DEF statusOf, Handled

\* A step that leaves the sets alone leaves every status alone.
LEMMA SameStatus ==
  ASSUME UNCHANGED <<ts, delivered>>, Handled' = Handled, Queued' = Queued
  PROVE  \A m \in Messages : statusOf(m)' = statusOf(m)
<1> TAKE m \in Messages
<1>1. Posted(m)' <=> Posted(m)
  BY DEF Posted
<1>2. QED
  BY <1>1, StatusCases, StatusCasesNext

\* A step that changes the status of message m only is a Move of the promise.
LEMMA OneStatus ==
  ASSUME NEW m \in Messages, NEW from, NEW to, answered' = answered,
         statusOf(m) = from, statusOf(m)' = to,
         \A n \in Messages \ {m} : statusOf(n)' = statusOf(n)
  PROVE  Promise!Move(m, from, to)
  BY DEF Promise!Move

\* A step that leaves every status and the phase alone is a stutter.
LEMMA Stutters ==
  ASSUME answered' = answered, \A n \in Messages : statusOf(n)' = statusOf(n)
  PROVE  UNCHANGED Promise!vars
<1>1. [m \in Messages |-> statusOf(m)]' = [m \in Messages |-> statusOf(m)]
  OBVIOUS
<1>2. QED
  BY <1>1 DEF Promise!vars

\* The initial state: nothing is posted and the module is starting.
LEMMA InitRefines == Init => Promise!Init
<1> SUFFICES ASSUME Init PROVE Promise!Init
  OBVIOUS
<1>1. Queued = {}
  BY EmptyVector DEF Init, Queued
<1>2. Handled = {}
  BY <1>1 DEF Init, Handled
<1>3. ASSUME NEW m \in Messages PROVE statusOf(m) = "unposted"
  BY <1>2, StatusCases DEF Init, Posted
<1>4. ~answered
  BY DEF Init
<1>5. QED
  BY <1>3, <1>4 DEF Promise!Init

\* Steps that show in the promise, each with the step it stands for.
LEMMA PostRefines ==
  ASSUME IndInv, NEW m \in Messages, Post(m) PROVE Promise!Post(m)
<1>1. Handled' = Handled /\ Queued' = Queued /\ delivered' = delivered /\ answered' = answered
  BY DEF Post, Handled, Queued, ctxVars, histVars
<1>2. m \notin Handled /\ ~Posted(m)
  BY DEF Post, IndInv, HandledBehindMark
<1>3. Posted(m)' /\ \A n \in Messages \ {m} : Posted(n)' <=> Posted(n)
  BY DEF Post, Posted, IndInv, TypeOK, DataOK, FirstTime
<1>4. statusOf(m) = "unposted" /\ statusOf(m)' = "posted"
  BY <1>1, <1>2, <1>3, StatusCases, StatusCasesNext
<1>5. ASSUME NEW n \in Messages \ {m} PROVE statusOf(n)' = statusOf(n)
  BY <1>1, <1>3, StatusCases, StatusCasesNext
<1>6. QED
  BY <1>1, <1>4, <1>5, OneStatus DEF Promise!Post

LEMMA QueueRefines ==
  ASSUME IndInv, ~blind, NEW m \in Messages, QueueCommand(m) PROVE Promise!Accept(m)
<1>1. /\ answered /\ m \in IOCommands \ Malformed /\ Posted(m) /\ m \notin Handled
      /\ answered' = answered /\ delivered' = delivered /\ ts' = ts
  BY DEF QueueCommand, Reaches, IndInv, CallState, HandledBehindMark, apiVars, histVars
<1>2. Queued' = Queued \cup {m}
  BY AppendElements DEF QueueCommand, Enqueue, Queued, IndInv, TypeOK, DataOK
<1>3. Handled' = Handled \cup {m}
  BY <1>2 DEF Handled, QueueCommand, histVars
<1>4. m \notin delivered
  BY <1>1 DEF Handled
<1>5. statusOf(m) = "posted" /\ statusOf(m)' = "accepted"
  BY <1>1, <1>2, <1>4, StatusCases, StatusCasesNext
<1>6. ASSUME NEW n \in Messages \ {m} PROVE statusOf(n)' = statusOf(n)
  <2>1. Posted(n)' <=> Posted(n)
    BY <1>1 DEF Posted
  <2>2. QED
    BY <1>1, <1>2, <1>3, <2>1, StatusCases, StatusCasesNext
<1>7. QED
  BY <1>1, <1>5, <1>6, OneStatus DEF Promise!Accept

LEMMA RejectRefines ==
  ASSUME IndInv, ~blind, NEW m \in Messages, RejectMalformed(m) PROVE Promise!Reject(m)
<1>1. /\ m \notin IOCommands \ Malformed /\ Posted(m) /\ m \notin Handled
      /\ answered' = answered /\ delivered' = delivered /\ ts' = ts /\ vec' = vec
  BY DEF RejectMalformed, Reaches, IndInv, CallState, HandledBehindMark, apiVars
<1>2. Queued' = Queued
  BY <1>1 DEF Queued
<1>3. Handled' = Handled \cup {m}
  BY <1>2 DEF Handled, RejectMalformed
<1>4. m \notin delivered /\ m \notin Queued
  BY <1>1 DEF Handled
<1>5. statusOf(m) = "posted" /\ statusOf(m)' = "dropped"
  BY <1>1, <1>2, <1>3, <1>4, StatusCases, StatusCasesNext
<1>6. ASSUME NEW n \in Messages \ {m} PROVE statusOf(n)' = statusOf(n)
  <2>1. Posted(n)' <=> Posted(n)
    BY <1>1 DEF Posted
  <2>2. QED
    BY <1>1, <1>2, <1>3, <2>1, StatusCases, StatusCasesNext
<1>7. QED
  BY <1>1, <1>5, <1>6, OneStatus DEF Promise!Reject

\* A first poll may meet commands handled before a restart: nothing shows.
LEMMA DiscardRefines ==
  ASSUME IndInv, NEW m \in Messages, DiscardStale(m)
  PROVE  Promise!DropStale(m) \/ UNCHANGED Promise!vars
<1>1. /\ ~answered /\ Posted(m) /\ vec = <<>>
      /\ answered' = answered /\ delivered' = delivered /\ ts' = ts /\ vec' = vec
  BY DEF DiscardStale, Reaches, IndInv, CallState, apiVars
<1>2. Queued = {} /\ Queued' = {}
  BY <1>1, EmptyVector DEF Queued
<1>3. Handled' = Handled \cup {m}
  BY <1>2 DEF Handled, DiscardStale
<1>4. ASSUME NEW n \in Messages \ {m} PROVE statusOf(n)' = statusOf(n)
  <2>1. Posted(n)' <=> Posted(n)
    BY <1>1 DEF Posted
  <2>2. QED
    BY <1>1, <1>2, <1>3, <2>1, StatusCases, StatusCasesNext
<1>5. CASE m \in Handled
  <2>1. statusOf(m)' = statusOf(m)
    BY <1>1, <1>2, <1>3, <1>5, StatusCases, StatusCasesNext
  <2>2. QED
    BY <1>1, <1>4, <2>1, Stutters
<1>6. CASE m \notin Handled
  <2>1. m \notin delivered
    BY <1>6 DEF Handled
  <2>2. statusOf(m) = "posted" /\ statusOf(m)' = "dropped"
    BY <1>1, <1>2, <1>3, <1>6, <2>1, StatusCases, StatusCasesNext
  <2>3. QED
    BY <1>1, <1>4, <2>2, OneStatus DEF Promise!DropStale
<1>7. QED
  BY <1>5, <1>6

LEMMA PopRefines ==
  ASSUME IndInv, ~blind, PopCommand PROVE \E m \in Messages : Promise!Deliver(m)
<1>1. /\ vec \in Seq(Messages) /\ vec # <<>> /\ vec' = SubSeq(vec, 1, Len(vec) - 1)
      /\ \A i, j \in 1 .. Len(vec) : i # j => vec[i] # vec[j]
      /\ answered' = answered /\ ts' = ts /\ delivered' = delivered \cup {Back}
      /\ Queued \cap delivered = {}
  BY DEF IndInv, TypeOK, DataOK, QueuedApart, QueuedOnce, PopCommand, WithoutBack, apiVars
<1>2. Len(vec) \in Nat \ {0} /\ Queued' = Queued \ {Back}
  BY <1>1, FrontElements DEF Queued, Back
<1>3. Back \in Queued /\ Back \in Messages
  <2>1. Len(vec) \in 1 .. Len(vec)
    BY <1>2
  <2>2. QED
    BY <1>1, <2>1, ElementOfSeq DEF Back, Queued
<1>4. Handled' = Handled
  BY <1>1, <1>2, <1>3 DEF Handled, PopCommand
<1>5. statusOf(Back) = "accepted"
  BY <1>1, <1>3, StatusCases
<1>6. ASSUME NEW m \in Messages, m = Back PROVE statusOf(m)' = "delivered"
  BY <1>1, <1>6, StatusCasesNext
<1>7. ASSUME NEW n \in Messages \ {Back} PROVE statusOf(n)' = statusOf(n)
  <2>1. Posted(n)' <=> Posted(n)
    BY <1>1 DEF Posted
  <2>2. QED
    BY <1>1, <1>2, <1>4, <2>1, StatusCases, StatusCasesNext
<1>8. PICK m \in Messages : m = Back
  BY <1>3
<1>9. Promise!Deliver(m)
  BY <1>1, <1>5, <1>6, <1>7, <1>8, OneStatus DEF Promise!Deliver
<1>10. QED
  BY <1>9

\* The first answered poll ends the starting phase.
LEMMA WaitReturnsRefines ==
  ASSUME IndInv, WaitReturns PROVE Promise!Serve \/ UNCHANGED Promise!vars
<1>1. /\ Handled' = Handled /\ Queued' = Queued
      /\ delivered' = delivered /\ ts' = ts /\ answered'
  BY DEF WaitReturns, Handled, Queued, apiVars
<1>2. \A n \in Messages : statusOf(n)' = statusOf(n)
  BY <1>1, SameStatus
<1>3. [m \in Messages |-> statusOf(m)]' = [m \in Messages |-> statusOf(m)]
  BY <1>2
<1>4. answered \in BOOLEAN /\ answered' = TRUE
  BY DEF IndInv, TypeOK, FlagsOK, WaitReturns
<1>5. CASE answered
  BY <1>2, <1>4, <1>5, Stutters
<1>6. CASE ~answered
  BY <1>3, <1>4, <1>6 DEF Promise!Serve
<1>7. QED
  BY <1>4, <1>5, <1>6

\* Losing the context drops what was accepted and not handed over.
LEMMA GoneRefines == ASSUME IndInv, ContextGone PROVE Promise!Restart
<1>1. delivered' = delivered /\ ts' = ts /\ ~answered' /\ Queued' = {}
  BY EmptyVector DEF ContextGone, Queued, apiVars
<1>2. Handled' = Handled
  BY <1>1 DEF Handled, ContextGone
<1>3. ASSUME NEW m \in Messages
      PROVE  statusOf(m)' = IF statusOf(m) = "accepted" THEN "dropped" ELSE statusOf(m)
  <2>1. Posted(m)' <=> Posted(m)
    BY <1>1 DEF Posted
  <2>2. m \in delivered => m \in Handled
    BY DEF Handled
  <2>3. m \in Queued => m \in Handled
    BY DEF Handled
  <2>4. QED
    BY <1>1, <1>2, <2>1, <2>2, <2>3, StatusCases, StatusCasesNext
<1>4. QED
  BY <1>1, <1>3 DEF Promise!Restart

\* Every step is a step of the promise or a stutter.
LEMMA StepRefines ==
  ASSUME IndInv, ~FailedReplies, [Next]_vars
  PROVE  [Promise!Next]_(Promise!vars)
<1>0. ~blind
  BY DEF IndInv, CallState
<1>1. CASE \E m \in Messages : Post(m)
  BY <1>1, PostRefines DEF Promise!Next
<1>2. CASE Destroy \/ Crash
  BY <1>2, GoneRefines DEF Destroy, Crash, Promise!Next
<1>3. CASE \E m \in Messages : QueueCommand(m)
  BY <1>0, <1>3, QueueRefines DEF Promise!Next
<1>4. CASE \E m \in Messages : RejectMalformed(m)
  BY <1>0, <1>4, RejectRefines DEF Promise!Next
<1>5. CASE \E m \in Messages : DiscardStale(m)
  BY <1>5, DiscardRefines DEF Promise!Next
<1>6. CASE PopCommand
  BY <1>0, <1>6, PopRefines DEF Promise!Next
<1>7. CASE WaitReturns
  BY <1>7, WaitReturnsRefines DEF Promise!Next
<1>8. CASE \/ Tick
           \/ InitContext
           \/ WaitForCommand
           \/ GetCommandsThrows
           \/ GetCommandsReturns
           \/ GetCommandsFails
           \/ \E m \in Messages : SkipForeign(m)
           \/ PopFails
           \/ UNCHANGED vars
  <2>1. ts' = ts /\ answered' = answered /\ delivered' = delivered
    BY <1>8 DEF Tick, InitContext, WaitForCommand, GetCommandsThrows, GetCommandsReturns,
                  GetCommandsFails, SkipForeign, PopFails, vars, apiVars, histVars
  <2>2. vec' = vec
    BY <1>8 DEF Tick, InitContext, WaitForCommand, GetCommandsThrows, GetCommandsReturns,
                  GetCommandsFails, SkipForeign, PopFails, vars, ctxVars, IndInv, CallState
  <2>3. discarded' = discarded /\ rejected' = rejected /\ lost' = lost
    BY <1>8 DEF Tick, InitContext, WaitForCommand, GetCommandsThrows, GetCommandsReturns,
                  GetCommandsFails, SkipForeign, PopFails, vars, histVars
  <2>4. Handled' = Handled /\ Queued' = Queued
    BY <2>1, <2>2, <2>3 DEF Handled, Queued
  <2>5. QED
    BY <2>1, <2>4, SameStatus, Stutters
<1>9. QED
  BY <1>1, <1>2, <1>3, <1>4, <1>5, <1>6, <1>7, <1>8 DEF Next, HandleMessage

\* Polling, time stamps, the vector and the restarts keep the promise that
\* nothing is delivered twice, that nothing dropped comes back, and that a
\* serving module drops no command it could have executed, as long as a
\* request that fails always throws.
THEOREM CommandApiRefines == ASSUME ~FailedReplies PROVE Spec => KeepsPromise
<1>1. Init => Promise!Init
  BY InitRefines
<1>2. IndInv /\ [Next]_vars => [Promise!Next]_(Promise!vars)
  BY StepRefines
<1>3. QED
  BY <1>1, <1>2, IndInvHolds, PTL DEF Spec, KeepsPromise, Promise!Spec
=============================================================================

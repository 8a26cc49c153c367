------------------------- MODULE SharedContextProofs -------------------------
(***************************************************************************)
(* Proofs about SharedContext, for any number of threads and of commands.  *)
(***************************************************************************)
EXTENDS SharedContext, SequenceTheorems, TLAPS

\* Exactly the thread inside wait_for_command holds the mutex.
MutexInv == \A t \in Threads : Polls(t) <=> holder = t

\* The locals of the polling thread agree with the context.
CallInv ==
  /\ context = "none" => vec = <<>> /\ \A t \in Threads : pc[t] = "idle"
  /\ last = 0 => vec = <<>>
  /\ \A t \in Threads :
       /\ pc[t] = "request" => none[t] /\ (parse[t] <=> last # 0)
       /\ pc[t] = "loop" => IF parse[t] THEN last # 0
                                        ELSE vec = <<>> /\ (none[t] <=> last = 0)

\* A thread that pops owns what is in the vector, and one whose poll has queued
\* something will own it: nobody has been popping since.
PopInv ==
  /\ ~raced => ~Race
  /\ PopTakesWhatItCopied
  /\ \A t \in Threads :
       pc[t] = "loop" /\ parse[t] /\ ~none[t] => vec # <<>> /\ \A u \in Threads : ~Pops(u)

Scans(t) == pc[t] = "loop" /\ ~parse[t]

\* A poll has come to its end once the mark has moved and nobody scans the
\* backlog any more.
AnswerInv ==
  answered <=> context = "live" /\ last # 0 /\ \A t \in Threads : ~Scans(t)

\* The commands nothing can happen to any more.
Settled == handed \cup dropped

\* What was handled lies behind the mark and what a reply holds ahead of it,
\* except that a new context's first poll gets everything once more.
MarkInv ==
  /\ QueuedByOne
  /\ \A k \in Queued \cup Settled : k \in 1 .. posted
  /\ \A k \in Queued : Stamp(k) <= last
  /\ last # 0 /\ (\A t \in Threads : ~Scans(t)) => \A k \in Settled : Stamp(k) <= last
  /\ \A t \in Threads :
       /\ pc[t] = "loop" => \A k \in reply[t] : k \in 1 .. posted /\ Stamp(k) > last
       /\ Scans(t) => \A k \in Settled : Stamp(k) <= last \/ k \in reply[t]

Inv == TypeOK /\ MutexInv /\ CallInv /\ PopInv /\ AnswerInv /\ MarkInv

-----------------------------------------------------------------------------
(***************************************************************************)
(* The vector.                                                             *)
(***************************************************************************)

LEMMA Push ==
  ASSUME vec \in Seq(Commands), QueuedByOne, NEW k \in Commands, k \notin Queued \cup handed,
         vec' = Append(vec, k), handed' = handed
  PROVE  vec' \in Seq(Commands) /\ vec' # <<>> /\ Queued' = Queued \cup {k} /\ QueuedByOne'
<1>1. /\ Len(vec') = Len(vec) + 1
      /\ \A i \in 1 .. Len(vec) : vec'[i] = vec[i]
      /\ vec'[Len(vec) + 1] = k
      /\ vec' \in Seq(Commands) /\ vec' # <<>>
  BY AppendProperties
<1>2. Len(vec) \in Nat
  BY LenProperties
<1>3. 1 .. Len(vec) + 1 = (1 .. Len(vec)) \cup {Len(vec) + 1}
  BY <1>2
<1>4. Queued' = Queued \cup {k}
  BY <1>1, <1>3 DEF Queued
<1>5. \A i, j \in 1 .. Len(vec') : i # j => vec'[i] # vec'[j]
  BY <1>1, <1>3 DEF QueuedByOne, Queued
<1> QED
  BY <1>1, <1>4, <1>5 DEF QueuedByOne

LEMMA Shrink ==
  ASSUME vec \in Seq(Commands), vec # <<>>, QueuedByOne,
         vec' = SubSeq(vec, 1, Len(vec) - 1), handed' = handed \cup {Back}
  PROVE  /\ vec' \in Seq(Commands)
         /\ Len(vec) > 1 => vec' # <<>>
         /\ Back \in Queued
         /\ Queued' = Queued \ {Back}
         /\ QueuedByOne'
<1> DEFINE n == Len(vec) - 1
<1>1. Len(vec) \in Nat \ {0}
  BY EmptySeq
<1>2. n \in Nat /\ 1 .. Len(vec) = (1 .. n) \cup {Len(vec)} /\ Len(vec) \notin 1 .. n
  BY <1>1
<1>3. \A i \in 1 .. n : vec[i] \in Commands
  BY <1>2, ElementOfSeq
<1>4. vec' \in Seq(Commands) /\ Len(vec') = n /\ \A i \in 1 .. n : vec'[i] = vec[i]
  <2> HIDE DEF n
  <2>1. /\ SubSeq(vec, 1, n) \in Seq(Commands)
        /\ Len(SubSeq(vec, 1, n)) = IF 1 <= n THEN n - 1 + 1 ELSE 0
        /\ \A i \in 1 .. n - 1 + 1 : SubSeq(vec, 1, n)[i] = vec[1 + i - 1]
    BY <1>2, <1>3, SubSeqProperties
  <2>2. n - 1 + 1 = n /\ \A i \in 1 .. n : 1 + i - 1 = i
    BY <1>2
  <2>3. \A i \in 1 .. n : SubSeq(vec, 1, n)[i] = vec[i]
    BY <2>1, <2>2, Zenon
  <2>4. Len(SubSeq(vec, 1, n)) = n
    BY <1>2, <2>1
  <2> QED
    BY <2>1, <2>3, <2>4 DEF n
<1> HIDE DEF n
<1>5. Back \in Queued
  BY <1>1 DEF Back, Queued
<1>6. Queued' = Queued \ {Back}
  BY <1>2, <1>4 DEF Queued, Back, QueuedByOne
<1>7. QueuedByOne'
  <2>1. \A i, j \in 1 .. Len(vec') : i # j => vec'[i] # vec'[j]
    BY <1>2, <1>4 DEF QueuedByOne
  <2>2. Queued' \cap handed' = {}
    BY <1>6 DEF QueuedByOne
  <2> QED
    BY <2>1, <2>2 DEF QueuedByOne
<1>8. Len(vec) > 1 => vec' # <<>>
  <2>1. Len(vec) > 1 => n # 0
    BY <1>1 DEF n
  <2>2. vec' = <<>> => Len(vec') = 0
    OBVIOUS
  <2> QED
    BY <1>4, <2>1, <2>2
<1> QED
  BY <1>4, <1>5, <1>6, <1>7, <1>8

-----------------------------------------------------------------------------
(***************************************************************************)
(* One part of the invariant at a time.                                    *)
(***************************************************************************)

\* The thread that polls does so alone, and while another one writes the
\* vector it does not come near it.
LEMMA Alone ==
  ASSUME Inv, ~raced, NEW t \in Threads, NEW u \in Threads, t # u
  PROVE  /\ ~(Polls(t) /\ Polls(u))
         /\ WritesVector(t) => ~Pops(u) /\ ~WritesVector(u)
  BY DEF Inv, PopInv, Race, Conflict, AccessesVector, WritesVector, Queues, Pops

LEMMA LocalsTyped ==
  ASSUME TypeOK, NEW t \in Threads
  PROVE  /\ pc[t] \in Locations /\ parse[t] \in BOOLEAN /\ none[t] \in BOOLEAN
         /\ reply[t] \subseteq Commands /\ copied[t] \in 0 .. MaxCommands
  BY DEF TypeOK

LEMMA QueuedTyped ==
  ASSUME TypeOK
  PROVE  Queued \subseteq Commands
<1>1. \A i \in 1 .. Len(vec) : vec[i] \in Commands
  BY ElementOfSeq DEF TypeOK
<1> QED
  BY <1>1 DEF Queued

LEMMA NextIsAhead ==
  ASSUME Inv, NEW t \in Threads, pc[t] = "loop", NEW k \in reply[t], IsNext(t, k)
  PROVE  /\ k \in Commands /\ k \in 1 .. posted
         /\ Mark(k) = Stamp(k) /\ Stamp(k) \in Nat /\ Stamp(k) > last
         /\ \A l \in reply[t] \ {k} : Stamp(l) > Stamp(k)
<1>1. k \in Commands /\ k \in 1 .. posted /\ last \in Nat /\ Stamp(k) > last
  BY DEF Inv, TypeOK, MarkInv
<1>2. k \in Nat
  BY <1>1, SharedAssumption DEF Commands
<1>3. \A l \in reply[t] : l \in Nat /\ k <= l
  BY SharedAssumption DEF Inv, TypeOK, Commands, IsNext
<1> QED
  BY <1>1, <1>2, <1>3 DEF Mark, Stamp

LEMMA TypeStep ==
  ASSUME Inv, Step, raced' \in BOOLEAN
  PROVE  TypeOK'
<1> USE DEF Inv
<1>1. CASE Post
  BY <1>1, SharedAssumption DEF Post, TypeOK, ctxVars, callVars, histVars
<1>2. CASE InitContext
  BY <1>2, EmptySeq DEF InitContext, TypeOK, callVars, histVars
<1>3. CASE Stop
  BY <1>3 DEF Stop, TypeOK, callVars, histVars
<1>5. CASE Destroy
  <2>1. Queued \subseteq Commands
    BY QueuedTyped
  <2> QED
    BY <1>5, <2>1, EmptySeq DEF Destroy, TypeOK, callVars
<1>4. ASSUME NEW t \in Threads, ThreadStep(t) PROVE TypeOK'
  <2>1. CASE ContextIncorrect(t) \/ WaitForCommand(t) \/ GetCommandsThrows(t) \/ PopFails(t)
    BY <2>1 DEF ContextIncorrect, WaitForCommand, GetCommandsThrows, PopFails, Unlocked, TypeOK,
       ctxVars, callVars, histVars, Locations
  <2>2. CASE Lock(t)
    BY <2>2 DEF Lock, TypeOK, ctxVars, histVars, Locations
  <2>3. CASE GetCommandsReturns(t)
    <3>1. {k \in 1 .. posted : Stamp(k) >= Since} \subseteq Commands
      BY SharedAssumption DEF TypeOK, Commands
    <3> QED
      BY <2>3, <3>1 DEF GetCommandsReturns, TypeOK, ctxVars, histVars, Locations
  <2>4. CASE TakeCommand(t)
    <3>1. PICK k \in reply[t] : /\ IsNext(t, k)
                                /\ last' = Mark(k)
                                /\ none' = [none EXCEPT ![t] = FALSE]
                                /\ vec' = IF parse[t] THEN Append(vec, k) ELSE vec
                                /\ dropped' = IF parse[t] THEN dropped ELSE dropped \cup ({k} \ handed)
                                /\ reply' = [reply EXCEPT ![t] = @ \ {k}]
      BY <2>4 DEF TakeCommand
    <3>2. last' \in Nat /\ vec' \in Seq(Commands) /\ dropped' \subseteq Commands
      BY <2>4, <3>1, NextIsAhead, AppendProperties DEF TakeCommand, TypeOK
    <3> QED
      BY <2>4, <3>1, <3>2 DEF TakeCommand, TypeOK
  <2>5. CASE RejectCommand(t)
    <3>1. last' \in Nat /\ dropped' \subseteq Commands
      BY <2>5, NextIsAhead DEF RejectCommand, TypeOK
    <3> QED
      BY <2>5, <3>1 DEF RejectCommand, Unlocked, TypeOK, Locations
  <2>6. CASE WaitReturns(t)
    BY <2>6 DEF WaitReturns, MarkAtReturn, Unlocked, TypeOK, Locations
  <2>7. CASE CopyBack(t)
    <3>1. Back \in 0 .. MaxCommands
      <4>1. Len(vec) \in Nat \ {0}
        BY <2>7, EmptySeq DEF CopyBack, TypeOK
      <4>2. Back \in Commands
        BY <4>1, ElementOfSeq DEF Back, TypeOK
      <4> QED
        BY <4>2, SharedAssumption DEF Commands
    <3> QED
      BY <2>7, <3>1 DEF CopyBack, TypeOK, ctxVars, histVars, Locations
  <2>8. CASE PopBack(t)
    <3>1. vec # <<>> /\ copied[t] = Back /\ QueuedByOne
      BY <2>8 DEF PopBack, PopInv, MarkInv, PopTakesWhatItCopied, Pops
    <3>2. vec' \in Seq(Commands) /\ Back \in Commands
      <4>1. Len(vec) \in Nat \ {0}
        BY <3>1, EmptySeq DEF TypeOK
      <4>2. Back \in Commands
        BY <4>1, ElementOfSeq DEF Back, TypeOK
      <4> QED
        BY <2>8, <3>1, <4>2, Shrink DEF PopBack, TypeOK
    <3> QED
      BY <2>8, <3>1, <3>2, SharedAssumption DEF PopBack, TypeOK, Locations
  <2>9. CASE GetCommandsFails(t)
    BY <2>9 DEF GetCommandsFails, TypeOK, ctxVars, Locations
  <2> QED
    BY <1>4, <2>1, <2>2, <2>3, <2>4, <2>5, <2>6, <2>7, <2>8, <2>9 DEF ThreadStep
<1> QED
  BY <1>1, <1>2, <1>3, <1>4, <1>5 DEF Step

LEMMA MutexStep ==
  ASSUME Inv, Step
  PROVE  MutexInv'
<1> USE DEF Inv, MutexInv, Polls
<1>1. CASE Post \/ InitContext \/ Stop \/ Destroy
  BY <1>1 DEF Post, InitContext, Stop, Destroy, callVars, histVars
<1>2. ASSUME NEW t \in Threads, ThreadStep(t) PROVE MutexInv'
  <2> USE DEF TypeOK
  <2>1. CASE \/ ContextIncorrect(t) \/ WaitForCommand(t) \/ GetCommandsReturns(t)
             \/ GetCommandsFails(t) \/ TakeCommand(t)
    BY <2>1 DEF ContextIncorrect, WaitForCommand, GetCommandsReturns, GetCommandsFails,
       TakeCommand, callVars, histVars
  <2>2. CASE Lock(t)
    BY <2>2, SharedAssumption DEF Lock, MutexFree
  <2>3. CASE GetCommandsThrows(t) \/ RejectCommand(t) \/ WaitReturns(t)
    BY <2>3, SharedAssumption DEF GetCommandsThrows, RejectCommand, WaitReturns, Unlocked
  <2>4. CASE CopyBack(t) \/ PopFails(t) \/ PopBack(t)
    BY <2>4 DEF CopyBack, PopFails, PopBack
  <2> QED
    BY <1>2, <2>1, <2>2, <2>3, <2>4 DEF ThreadStep
<1> QED
  BY <1>1, <1>2 DEF Step

LEMMA CallStep ==
  ASSUME Inv, Step, ~raced
  PROVE  CallInv'
<1> USE DEF Inv, CallInv
<1>1. CASE Post
  BY <1>1 DEF Post, ctxVars, callVars, histVars
<1>2. CASE InitContext
  BY <1>2 DEF InitContext, callVars, histVars
<1>3. CASE Stop \/ Destroy
  BY <1>3 DEF Stop, Destroy, callVars, histVars
<1>4. ASSUME NEW t \in Threads, ThreadStep(t) PROVE CallInv'
  <2> USE DEF TypeOK
  <2>0. \A u \in Threads : u # t => ~(Polls(t) /\ Polls(u))
    BY <1>4, Alone
  <2>1. CASE ContextIncorrect(t) \/ WaitForCommand(t) \/ GetCommandsThrows(t) \/ PopFails(t)
    BY <2>1 DEF ContextIncorrect, WaitForCommand, GetCommandsThrows, PopFails, ctxVars, callVars, histVars
  <2>2. CASE Lock(t)
    BY <2>2 DEF Lock, ctxVars, histVars
  <2>3. CASE GetCommandsReturns(t) \/ GetCommandsFails(t)
    BY <2>3 DEF GetCommandsReturns, GetCommandsFails, ctxVars, histVars
  <2>4. CASE TakeCommand(t)
    <3>1. PICK k \in reply[t] : /\ IsNext(t, k)
                                /\ last' = Mark(k)
                                /\ none' = [none EXCEPT ![t] = FALSE]
                                /\ vec' = IF parse[t] THEN Append(vec, k) ELSE vec
      BY <2>4 DEF TakeCommand
    <3>2. last' # 0
      BY <2>4, <3>1, NextIsAhead DEF TakeCommand
    <3> QED
      BY <2>0, <2>4, <3>1, <3>2 DEF TakeCommand, Polls
  <2>5. CASE RejectCommand(t)
    <3>1. last' # 0
      BY <2>5, NextIsAhead DEF RejectCommand
    <3> QED
      BY <2>0, <2>5, <3>1 DEF RejectCommand, Polls
  <2>6. CASE WaitReturns(t)
    BY <2>0, <2>6 DEF WaitReturns, MarkAtReturn, Polls
  <2>7. CASE CopyBack(t)
    BY <2>7 DEF CopyBack, ctxVars, histVars
  <2>8. CASE PopBack(t)
    <3>1. vec # <<>>
      BY <2>8 DEF PopBack, PopInv, PopTakesWhatItCopied, Pops
    <3> QED
      BY <2>8, <3>1 DEF PopBack
  <2> QED
    BY <1>4, <2>1, <2>2, <2>3, <2>4, <2>5, <2>6, <2>7, <2>8 DEF ThreadStep
<1> QED
  BY <1>1, <1>2, <1>3, <1>4 DEF Step

LEMMA PopStep ==
  ASSUME Inv, Step, ~raced, raced' = Race'
  PROVE  PopInv'
<1> DEFINE Own == PopTakesWhatItCopied /\
             \A t \in Threads : pc[t] = "loop" /\ parse[t] /\ ~none[t] =>
                                 vec # <<>> /\ \A u \in Threads : ~Pops(u)
<1>0. SUFFICES Own'
  BY DEF PopInv
<1> USE DEF Inv, PopInv, PopTakesWhatItCopied, Pops, Back
<1>1. CASE Post \/ Stop
  BY <1>1 DEF Post, Stop, ctxVars, callVars, histVars
<1>2. CASE InitContext \/ Destroy
  BY <1>2 DEF InitContext, Destroy, callVars, histVars, CallInv
<1>3. ASSUME NEW t \in Threads, ThreadStep(t) PROVE Own'
  <2> USE DEF TypeOK
  <2>0. \A u \in Threads : u # t => /\ ~(Polls(t) /\ Polls(u))
                                    /\ WritesVector(t) => ~Pops(u) /\ ~WritesVector(u)
    BY <1>3, Alone
  <2>1. CASE ContextIncorrect(t) \/ WaitForCommand(t) \/ GetCommandsThrows(t) \/ PopFails(t)
    BY <2>1 DEF ContextIncorrect, WaitForCommand, GetCommandsThrows, PopFails, ctxVars, callVars, histVars
  <2>2. CASE Lock(t)
    BY <2>2 DEF Lock, ctxVars, histVars
  <2>3. CASE GetCommandsReturns(t) \/ GetCommandsFails(t)
    BY <2>3 DEF GetCommandsReturns, GetCommandsFails, ctxVars, histVars, CallInv
  <2>4. CASE TakeCommand(t)
    <3>1. PICK k \in reply[t] : /\ IsNext(t, k) /\ (parse[t] => k \notin Malformed)
                                /\ none' = [none EXCEPT ![t] = FALSE]
                                /\ vec' = IF parse[t] THEN Append(vec, k) ELSE vec
      BY <2>4 DEF TakeCommand
    <3>2. CASE parse[t]
      <4>1. WritesVector(t) /\ \A u \in Threads : ~Pops(u)
        BY <2>0, <2>4, <3>1, <3>2 DEF TakeCommand, WritesVector, Queues
      <4>2. vec' # <<>>
        BY <3>1, <3>2, AppendProperties
      <4> QED
        BY <2>4, <4>1, <4>2 DEF TakeCommand
    <3>3. CASE ~parse[t]
      BY <2>4, <3>1, <3>3 DEF TakeCommand
    <3> QED
      BY <3>2, <3>3
  <2>5. CASE RejectCommand(t)
    BY <2>5 DEF RejectCommand
  <2>6. CASE WaitReturns(t)
    BY <2>0, <2>6 DEF WaitReturns, ReturnsOk, Polls
  <2>7. CASE CopyBack(t)
    BY <2>7 DEF CopyBack, ctxVars, histVars
  <2>8. CASE PopBack(t)
    <3>1. WritesVector(t) /\ \A u \in Threads : u # t => ~Pops(u)
      BY <2>0, <2>8 DEF PopBack, WritesVector
    <3>2. \A u \in Threads : pc[u] = "loop" /\ parse[u] => none[u]
      BY <2>8 DEF PopBack
    <3>3. Len(vec) > 1 => vec' # <<>>
      <4>1. vec # <<>> /\ copied[t] = Back
        BY <2>8 DEF PopBack
      <4> QED
        BY <2>8, <4>1, Shrink DEF PopBack, MarkInv
    <3> QED
      BY <2>8, <3>1, <3>2, <3>3 DEF PopBack
  <2> QED
    BY <1>3, <2>1, <2>2, <2>3, <2>4, <2>5, <2>6, <2>7, <2>8 DEF ThreadStep
<1> QED
  BY <1>1, <1>2, <1>3 DEF Step

LEMMA AnswerStep ==
  ASSUME Inv, Step, ~raced
  PROVE  AnswerInv'
<1> DEFINE Served == context = "live" /\ last # 0 /\ \A t \in Threads : ~Scans(t)
<1> USE DEF Inv
<1>0. answered \in BOOLEAN /\ (answered <=> Served)
  BY Zenon DEF TypeOK, AnswerInv
<1>1. CASE Post \/ Stop
  BY <1>0, <1>1 DEF Post, Stop, ctxVars, callVars, histVars, AnswerInv, Scans
<1>2. CASE InitContext
  BY <1>0, <1>2 DEF InitContext, callVars, histVars, AnswerInv
<1>3. CASE Destroy
  BY <1>3 DEF Destroy, AnswerInv
<1>4. ASSUME NEW t \in Threads, ThreadStep(t) PROVE AnswerInv'
  <2> USE DEF TypeOK
  <2>0. \A u \in Threads : u # t => ~(Polls(t) /\ Polls(u))
    BY <1>4, Alone
  <2>1. CASE UNCHANGED <<context, last, answered>>
             /\ \A u \in Threads : (pc'[u] = "loop") = (pc[u] = "loop") /\ parse'[u] = parse[u]
    <3>1. Served' <=> Served
      BY <2>1 DEF Scans
    <3> QED
      BY <1>0, <2>1, <3>1 DEF AnswerInv
  <2>2. CASE \/ ContextIncorrect(t) \/ WaitForCommand(t) \/ GetCommandsThrows(t)
             \/ PopFails(t) \/ CopyBack(t) \/ PopBack(t)
    BY <2>1, <2>2 DEF ContextIncorrect, WaitForCommand, GetCommandsThrows, PopFails, CopyBack, PopBack,
       ctxVars, callVars, histVars
  <2>3. CASE Lock(t)
    <3>1. Served' <=> Served
      BY <2>3 DEF Lock, ctxVars, Scans
    <3> QED
      BY <1>0, <2>3, <3>1 DEF Lock, histVars, AnswerInv
  <2>4. CASE GetCommandsReturns(t) \/ GetCommandsFails(t)
    <3>1. /\ UNCHANGED <<context, last, answered, parse>>
          /\ pc[t] = "request" /\ pc' = [pc EXCEPT ![t] = "loop"]
      BY <2>4 DEF GetCommandsReturns, GetCommandsFails, ctxVars, histVars
    <3>2. parse[t] <=> last # 0
      BY <3>1 DEF CallInv
    <3>3. Served' <=> Served
      BY <3>1, <3>2 DEF Scans
    <3> QED
      BY <1>0, <3>1, <3>3 DEF AnswerInv
  <2>5. CASE TakeCommand(t)
    <3>1. /\ UNCHANGED <<context, answered, pc, parse>> /\ pc[t] = "loop"
          /\ \E k \in reply[t] : IsNext(t, k) /\ last' = Mark(k)
      BY <2>5 DEF TakeCommand
    <3>2. last' # 0
      BY <3>1, NextIsAhead
    <3>3. Served' <=> Served
      <4>1. CASE parse[t]
        BY <3>1, <3>2, <4>1 DEF CallInv, Scans
      <4>2. CASE ~parse[t]
        BY <3>1, <4>2 DEF Scans
      <4> QED
        BY <4>1, <4>2
    <3> QED
      BY <1>0, <3>1, <3>3 DEF AnswerInv
  <2>6. CASE RejectCommand(t)
    <3>1. /\ UNCHANGED <<context, answered, parse>> /\ pc[t] = "loop" /\ parse[t]
          /\ pc' = [pc EXCEPT ![t] = "idle"]
          /\ \E k \in reply[t] : IsNext(t, k) /\ last' = Mark(k)
      BY <2>6 DEF RejectCommand
    <3>2. last' # 0 /\ last # 0
      BY <3>1, NextIsAhead DEF CallInv
    <3>3. Served' <=> Served
      BY <3>1, <3>2 DEF Scans
    <3> QED
      BY <1>0, <3>1, <3>3 DEF AnswerInv
  <2>7. CASE WaitReturns(t)
    <3>1. /\ UNCHANGED context /\ pc[t] = "loop" /\ answered' = TRUE /\ last' = MarkAtReturn(t)
          /\ pc'[t] # "loop" /\ \A u \in Threads : u # t => pc'[u] = pc[u]
      BY <2>7 DEF WaitReturns
    <3>2. \A u \in Threads : ~Scans(u)'
      BY <2>0, <3>1 DEF Scans, Polls
    <3>3. last' # 0
      BY <3>1 DEF MarkAtReturn, CallInv
    <3>4. context' = "live"
      BY <3>1 DEF CallInv
    <3> QED
      BY <3>1, <3>2, <3>3, <3>4 DEF AnswerInv
  <2> QED
    BY <1>4, <2>2, <2>3, <2>4, <2>5, <2>6, <2>7 DEF ThreadStep
<1> QED
  BY <1>1, <1>2, <1>3, <1>4 DEF Step

LEMMA MarkStep ==
  ASSUME Inv, Step, ~raced
  PROVE  MarkInv'
<1> USE DEF Inv
<1>1. CASE Post
  <2>1. \A k \in 1 .. posted : k \in 1 .. posted'
    BY <1>1 DEF Post, TypeOK
  <2> QED
    BY <1>1, <2>1 DEF Post, ctxVars, callVars, histVars, MarkInv, QueuedByOne, Queued, Settled, Scans
<1>2. CASE InitContext
  <2>1. Queued' = {} /\ QueuedByOne' /\ last' = 0 /\ \A t \in Threads : pc'[t] = "idle"
    BY <1>2 DEF InitContext, callVars, histVars, CallInv, Queued, QueuedByOne
  <2> QED
    BY <1>2, <2>1 DEF InitContext, callVars, histVars, MarkInv, Settled, Scans
<1>3. CASE Stop
  BY <1>3 DEF Stop, callVars, histVars, MarkInv, QueuedByOne, Queued, Settled, Scans
<1>4. CASE Destroy
  <2>1. Queued' = {} /\ QueuedByOne'
    BY <1>4 DEF Destroy, Queued, QueuedByOne
  <2>2. /\ UNCHANGED <<posted, last, reply>> /\ Settled' = Settled \cup Queued
        /\ \A t \in Threads : pc'[t] = "idle" /\ pc[t] = "idle"
    BY <1>4 DEF Destroy, callVars, Settled
  <2> QED
    BY <2>1, <2>2 DEF MarkInv, Scans
<1>5. ASSUME NEW t \in Threads, ThreadStep(t) PROVE MarkInv'
  <2> USE DEF TypeOK
  <2>0. \A u \in Threads : u # t => ~(Polls(t) /\ Polls(u))
    BY <1>5, Alone
  <2>1. CASE UNCHANGED <<posted, last, vec, reply, handed, dropped>>
             /\ \A u \in Threads : (pc'[u] = "loop") = (pc[u] = "loop") /\ parse'[u] = parse[u]
    BY <2>1 DEF MarkInv, QueuedByOne, Queued, Settled, Scans
  <2>2. CASE \/ ContextIncorrect(t) \/ WaitForCommand(t) \/ GetCommandsThrows(t)
             \/ PopFails(t) \/ CopyBack(t)
    BY <2>1, <2>2 DEF ContextIncorrect, WaitForCommand, GetCommandsThrows, PopFails, CopyBack,
       ctxVars, callVars, histVars
  <2>3. CASE Lock(t)
    BY <2>3 DEF Lock, ctxVars, histVars, MarkInv, QueuedByOne, Queued, Settled, Scans
  <2>4. CASE GetCommandsReturns(t)
    <3>1. \A u \in Threads : u # t => pc[u] # "loop"
      BY <2>0, <2>4 DEF GetCommandsReturns, Polls
    <3>2. reply'[t] = {k \in 1 .. posted : Stamp(k) >= last + 1}
      BY <2>4 DEF GetCommandsReturns, Since
    <3>3. \A k \in 1 .. posted : Stamp(k) \in Nat /\ Stamp(k) >= 1
      BY DEF Stamp
    <3>4. \A k \in reply'[t] : k \in 1 .. posted /\ Stamp(k) > last
      BY <3>2, <3>3
    <3>5. ~parse[t] => last = 0
      BY <2>4 DEF GetCommandsReturns, CallInv
    <3>6. ~parse[t] => \A k \in Settled : k \in reply'[t]
      BY <3>2, <3>3, <3>5 DEF MarkInv
    <3>7. /\ UNCHANGED <<posted, last, vec, handed, parse>> /\ Settled' = Settled
          /\ pc' = [pc EXCEPT ![t] = "loop"]
      BY <2>4 DEF GetCommandsReturns, ctxVars, histVars, Settled
    <3>8. last # 0 => \A k \in Settled : Stamp(k) <= last
      BY <3>1, <2>4 DEF MarkInv, Scans, GetCommandsReturns
    <3>9. QueuedByOne' /\ Queued' = Queued
      BY <3>7 DEF MarkInv, QueuedByOne, Queued
    <3> QED
      BY <3>1, <3>4, <3>6, <3>7, <3>8, <3>9 DEF MarkInv, Scans
  <2>5. CASE TakeCommand(t)
    <3>0. pc[t] = "loop" /\ UNCHANGED <<posted, pc, parse, handed>>
      BY <2>5 DEF TakeCommand
    <3>1. PICK k \in reply[t] : /\ IsNext(t, k)
                                /\ last' = Mark(k)
                                /\ vec' = IF parse[t] THEN Append(vec, k) ELSE vec
                                /\ dropped' = IF parse[t] THEN dropped ELSE dropped \cup ({k} \ handed)
                                /\ reply' = [reply EXCEPT ![t] = @ \ {k}]
      BY <2>5 DEF TakeCommand
    <3>2. /\ k \in Commands /\ k \in 1 .. posted
          /\ last' = Stamp(k) /\ Stamp(k) \in Nat /\ Stamp(k) > last
          /\ \A l \in reply[t] \ {k} : Stamp(l) > last'
      BY <3>0, <3>1, NextIsAhead
    <3>3. \A u \in Threads : u # t => pc[u] # "loop"
      BY <2>0, <3>0 DEF Polls
    <3>4. \A l \in Queued \cup Settled : Stamp(l) \in Nat
      BY SharedAssumption DEF MarkInv, Stamp
    <3>5. \A l \in Queued : Stamp(l) <= last'
      BY <3>2, <3>4 DEF MarkInv
    <3>6. /\ QueuedByOne' /\ Queued' \subseteq Queued \cup {k}
      <4>1. CASE parse[t]
        <5>1. last # 0 /\ \A u \in Threads : ~Scans(u)
          BY <3>0, <3>3, <4>1 DEF CallInv, Scans
        <5>2. k \notin Queued \cup handed
          BY <3>2, <3>4, <5>1 DEF MarkInv, Settled
        <5> QED
          BY <3>0, <3>1, <3>2, <4>1, <5>2, Push DEF MarkInv
      <4>2. CASE ~parse[t]
        BY <3>0, <3>1, <4>2 DEF MarkInv, QueuedByOne, Queued
      <4> QED
        BY <4>1, <4>2
    <3>7. parse[t] => \A l \in Settled : Stamp(l) <= last'
      <4>1. SUFFICES ASSUME parse[t], NEW l \in Settled PROVE Stamp(l) <= last'
        OBVIOUS
      <4>2. last # 0 /\ \A u \in Threads : ~Scans(u)
        BY <3>0, <3>3, <4>1 DEF CallInv, Scans
      <4>3. Stamp(l) <= last
        BY <4>2 DEF MarkInv
      <4> QED
        BY <3>2, <3>4, <4>3
    <3>8. Scans(t) => \A l \in Settled : Stamp(l) <= last' \/ l \in reply'[t]
      <4>1. SUFFICES ASSUME Scans(t), NEW l \in Settled PROVE Stamp(l) <= last' \/ l \in reply'[t]
        OBVIOUS
      <4>2. Stamp(l) <= last \/ l \in reply[t]
        BY <4>1 DEF MarkInv
      <4> QED
        BY <3>1, <3>2, <3>4, <4>2
    <3>9. reply'[t] = reply[t] \ {k} /\ Stamp(k) <= last'
      BY <3>1, <3>2
    <3>10. \A l \in reply'[t] : l \in 1 .. posted /\ Stamp(l) > last'
      BY <3>0, <3>2, <3>9 DEF MarkInv
    <3>11. Settled' = Settled \/ (~parse[t] /\ Settled' = Settled \cup {k})
      BY <3>0, <3>1 DEF Settled
    <3>12. \A l \in Queued' \cup Settled' : l \in 1 .. posted'
      BY <3>0, <3>2, <3>6, <3>11 DEF MarkInv
    <3>13. \A l \in Queued' : Stamp(l) <= last'
      BY <3>2, <3>5, <3>6
    <3>14. last' # 0 /\ (\A u \in Threads : ~Scans(u)') => \A l \in Settled' : Stamp(l) <= last'
      BY <3>0, <3>7, <3>11 DEF Scans
    <3>15. Scans(t)' => \A l \in Settled' : Stamp(l) <= last' \/ l \in reply'[t]
      BY <3>0, <3>8, <3>9, <3>11 DEF Scans
    <3>16. \A u \in Threads \ {t} : pc'[u] # "loop"
      BY <3>0, <3>3
    <3> QED
      BY <3>0, <3>6, <3>10, <3>12, <3>13, <3>14, <3>15, <3>16 DEF MarkInv, Scans
  <2>6. CASE RejectCommand(t)
    <3>0. pc[t] = "loop" /\ parse[t] /\ pc' = [pc EXCEPT ![t] = "idle"]
          /\ UNCHANGED <<posted, vec, parse, handed>>
      BY <2>6 DEF RejectCommand
    <3>1. PICK k \in reply[t] : IsNext(t, k) /\ last' = Mark(k) /\ dropped' = dropped \cup {k}
      BY <2>6 DEF RejectCommand
    <3>2. last' = Stamp(k) /\ Stamp(k) \in Nat /\ Stamp(k) > last /\ k \in 1 .. posted
      BY <3>0, <3>1, NextIsAhead
    <3>3. \A u \in Threads : u # t => pc[u] # "loop"
      BY <2>0, <3>0 DEF Polls
    <3>4. last # 0 /\ \A u \in Threads : ~Scans(u)
      BY <3>0, <3>3 DEF CallInv, Scans
    <3>5. \A l \in Queued \cup Settled : Stamp(l) \in Nat /\ Stamp(l) <= last
      BY <3>4, SharedAssumption DEF MarkInv, Stamp
    <3>6. QueuedByOne' /\ Queued' = Queued /\ Settled' = Settled \cup {k}
      BY <3>0, <3>1 DEF MarkInv, QueuedByOne, Queued, Settled
    <3>7. \A l \in Queued' \cup Settled' : Stamp(l) <= last'
      BY <3>2, <3>5, <3>6
    <3> QED
      BY <3>0, <3>2, <3>3, <3>6, <3>7 DEF MarkInv, Scans
  <2>7. CASE WaitReturns(t)
    <3>0. pc[t] = "loop" /\ reply[t] = {} /\ last' = MarkAtReturn(t)
          /\ pc'[t] # "loop" /\ (\A u \in Threads : u # t => pc'[u] = pc[u])
          /\ UNCHANGED <<posted, vec, parse, reply, handed>> /\ Settled' = Settled
      BY <2>7 DEF WaitReturns, Settled
    <3>1. \A u \in Threads : pc'[u] # "loop"
      BY <2>0, <3>0 DEF Polls
    <3>2. \A l \in Settled : Stamp(l) <= last
      <4>1. CASE parse[t]
        BY <2>0, <3>0, <4>1 DEF CallInv, MarkInv, Scans, Polls
      <4>2. CASE ~parse[t]
        BY <3>0, <4>2 DEF MarkInv, Scans
      <4> QED
        BY <4>1, <4>2
    <3>3. last' \in Nat /\ last' >= last
      BY <3>0 DEF MarkAtReturn, CallInv
    <3>4. \A l \in Queued \cup Settled : Stamp(l) \in Nat /\ Stamp(l) <= last
      BY <3>2, SharedAssumption DEF MarkInv, Stamp
    <3>5. \A l \in Queued \cup Settled : Stamp(l) <= last'
      BY <3>3, <3>4
    <3>6. QueuedByOne' /\ Queued' = Queued
      BY <3>0 DEF MarkInv, QueuedByOne, Queued
    <3> QED
      BY <3>0, <3>1, <3>5, <3>6 DEF MarkInv, Scans
  <2>8. CASE PopBack(t)
    <3>0. /\ UNCHANGED <<posted, last, parse, reply>>
          /\ vec' = SubSeq(vec, 1, Len(vec) - 1)
          /\ vec # <<>> /\ handed' = handed \cup {Back} /\ Settled' = Settled \cup {Back}
          /\ \A u \in Threads : (pc'[u] = "loop") = (pc[u] = "loop")
      BY <2>8 DEF PopBack, PopInv, PopTakesWhatItCopied, Pops, Settled
    <3>1. Queued' = Queued \ {Back} /\ QueuedByOne' /\ Back \in Queued
      BY <3>0, Shrink DEF MarkInv
    <3>2. Stamp(Back) <= last /\ Back \in 1 .. posted
      BY <3>1 DEF MarkInv
    <3> QED
      BY <3>0, <3>1, <3>2 DEF MarkInv, Scans
  <2>9. CASE GetCommandsFails(t)
    <3>1. \A u \in Threads : u # t => pc[u] # "loop"
      BY <2>0, <2>9 DEF GetCommandsFails, Polls
    <3>2. /\ UNCHANGED <<posted, last, vec, parse>>
          /\ pc[t] = "request" /\ pc' = [pc EXCEPT ![t] = "loop"]
          /\ reply'[t] = {} /\ Queued' = Queued /\ handed' \subseteq handed
      BY <2>9 DEF GetCommandsFails, ctxVars, Queued
    <3>3. QueuedByOne'
      BY <3>2 DEF MarkInv, QueuedByOne
    <3>4. Settled' = IF parse[t] THEN Settled ELSE {}
      BY <2>9 DEF GetCommandsFails, Settled
    <3>5. last # 0 => \A k \in Settled : Stamp(k) <= last
      BY <3>1, <3>2 DEF MarkInv, Scans
    <3>6. Scans(t)' <=> ~parse[t]
      BY <3>2 DEF Scans
    <3>7. \A u \in Threads : u # t => pc'[u] # "loop"
      BY <3>1, <3>2
    <3>8. \A k \in Queued' \cup Settled' : k \in 1 .. posted'
      BY <3>2, <3>4 DEF MarkInv
    <3>9. \A k \in Queued' : Stamp(k) <= last'
      BY <3>2 DEF MarkInv
    <3>10. last' # 0 => \A k \in Settled' : Stamp(k) <= last'
      BY <3>2, <3>4, <3>5
    <3>11. Scans(t)' => \A k \in Settled' : Stamp(k) <= last' \/ k \in reply'[t]
      BY <3>4, <3>6
    <3> QED
      BY <3>2, <3>3, <3>7, <3>8, <3>9, <3>10, <3>11 DEF MarkInv, Scans
  <2> QED
    BY <1>5, <2>2, <2>3, <2>4, <2>5, <2>6, <2>7, <2>8, <2>9 DEF ThreadStep
<1> QED
  BY <1>1, <1>2, <1>3, <1>4, <1>5 DEF Step

-----------------------------------------------------------------------------

\* The inductive invariant.
THEOREM InvHolds == Spec => []Inv
<1>1. Init => Inv
  <2> SUFFICES ASSUME Init PROVE Inv
    OBVIOUS
  <2>1. TypeOK
    <3>1. vec \in Seq(Commands)
      BY EmptySeq DEF Init
    <3>2. /\ pc \in [Threads -> Locations]
          /\ parse \in [Threads -> BOOLEAN] /\ none \in [Threads -> BOOLEAN]
          /\ reply \in [Threads -> SUBSET Commands]
      BY DEF Init, Locations
    <3>3. copied \in [Threads -> 0 .. MaxCommands]
      BY SharedAssumption DEF Init
    <3>4. posted \in 0 .. MaxCommands /\ last \in Nat
      BY SharedAssumption DEF Init
    <3>5. /\ context \in {"none", "live"} /\ stop \in BOOLEAN
          /\ holder \in Threads \cup {Nobody} /\ raced \in BOOLEAN
      BY Zenon DEF Init
    <3>6. handed \subseteq Commands /\ dropped \subseteq Commands /\ answered \in BOOLEAN
      BY DEF Init
    <3> QED
      BY <3>1, <3>2, <3>3, <3>4, <3>5, <3>6 DEF TypeOK
  <2>2. Queued = {}
    BY DEF Init, Queued
  <2>3. MutexInv /\ CallInv
    BY SharedAssumption DEF Init, MutexInv, Polls, CallInv
  <2>4. PopInv
    BY DEF Init, PopInv, Race, Conflict, WritesVector, Queues, Polls, Pops, PopTakesWhatItCopied
  <2>5. MarkInv
    BY <2>2 DEF Init, MarkInv, QueuedByOne, Settled, Scans
  <2>6. AnswerInv
    BY DEF Init, AnswerInv
  <2> QED
    BY <2>1, <2>3, <2>4, <2>5, <2>6 DEF Inv
<1>2. ASSUME Inv, [Next]_vars PROVE Inv'
  <2>1. CASE RaceFree(Step)
    <3>1. Step /\ ~raced /\ raced' = Race' /\ raced' \in BOOLEAN
      BY <2>1 DEF RaceFree, Race
    <3> QED
      BY <1>2, <3>1, TypeStep, MutexStep, CallStep, PopStep, AnswerStep, MarkStep DEF Inv
  <2>2. CASE Undefined \/ UNCHANGED vars
    <3>1. UNCHANGED vars
      BY <2>2 DEF Undefined
    <3> USE <1>2, <3>1 DEF vars, ctxVars, callVars, histVars, Inv
    <3>2. TypeOK'
      BY DEF TypeOK
    <3>3. MutexInv' /\ CallInv'
      BY DEF MutexInv, CallInv, Polls
    <3>4. PopInv'
      BY DEF PopInv, Race, Conflict, WritesVector, AccessesVector, Queues, IsNext, Polls, Pops,
         PopTakesWhatItCopied, Back
    <3>5. MarkInv'
      BY DEF MarkInv, QueuedByOne, Queued, Settled, Scans
    <3>6. AnswerInv'
      BY DEF AnswerInv, Scans
    <3> QED
      BY <3>2, <3>3, <3>4, <3>5, <3>6
  <2> QED
    BY <1>2, <2>1, <2>2 DEF Next
<1> QED
  BY <1>1, <1>2, PTL DEF Spec

\* The state of the context and of its threads is well-formed.
THEOREM TypeCorrect == Spec => []TypeOK
<1>1. Inv => TypeOK
  BY DEF Inv
<1> QED
  BY <1>1, InvHolds, PTL

\* Two threads only ever race on the context when one of them is in
\* pop_command.
THEOREM MutexGuardsPolls == Spec => []OnlyPopRaces
<1>1. Inv => OnlyPopRaces
  BY DEF Inv, MutexInv, OnlyPopRaces, Conflict, WritesVector, AccessesVector, Queues, Polls, Pops
<1> QED
  BY <1>1, InvHolds, PTL

\* Up to the first race pop_command finds a command and removes the one it
\* hands over.
THEOREM PopIsWhole == Spec => []PopTakesWhatItCopied
<1>1. Inv => PopTakesWhatItCopied
  BY DEF Inv, PopInv
<1> QED
  BY <1>1, InvHolds, PTL

\* No two threads queue the same command, and what was handed over is queued
\* again only by a context whose first request failed unseen after that.
THEOREM QueuedOnce == Spec => []QueuedByOne
<1>1. Inv => QueuedByOne
  BY DEF Inv, MarkInv
<1> QED
  BY <1>1, InvHolds, PTL

-----------------------------------------------------------------------------
(***************************************************************************)
(* SharedContext implements CommandDelivery.                               *)
(***************************************************************************)

\* statusOf, case by case, before and after a step.
LEMMA StatusCases ==
  ASSUME NEW k
  PROVE  /\ k \in handed => statusOf(k) = "delivered"
         /\ k \notin handed /\ k \in Queued => statusOf(k) = "accepted"
         /\ k \notin handed \cup Queued /\ k \in dropped => statusOf(k) = "dropped"
         /\ k \notin Queued \cup Settled /\ k \in 1 .. posted => statusOf(k) = "posted"
         /\ k \notin Queued \cup Settled /\ k \notin 1 .. posted => statusOf(k) = "unposted"
  BY DEF statusOf, Settled

LEMMA StatusCasesNext ==
  ASSUME NEW k
  PROVE  /\ k \in handed' => statusOf(k)' = "delivered"
         /\ k \notin handed' /\ k \in Queued' => statusOf(k)' = "accepted"
         /\ k \notin handed' \cup Queued' /\ k \in dropped' => statusOf(k)' = "dropped"
         /\ k \notin Queued' \cup Settled' /\ k \in 1 .. posted' => statusOf(k)' = "posted"
         /\ k \notin Queued' \cup Settled' /\ k \notin 1 .. posted' =>
              statusOf(k)' = "unposted"
  BY DEF statusOf, Settled

\* A command keeps its status when it is in the same sets as before.
LEMMA SameStatus ==
  ASSUME NEW k,
         k \in handed' <=> k \in handed, k \in Queued' <=> k \in Queued,
         k \in dropped' <=> k \in dropped, k \in 1 .. posted' <=> k \in 1 .. posted
  PROVE  statusOf(k)' = statusOf(k)
  BY DEF statusOf

\* A step that changes the status of command k only is a Move of the promise.
LEMMA OneStatus ==
  ASSUME NEW k \in Commands, NEW from, NEW to, answered' = answered,
         statusOf(k) = from, statusOf(k)' = to,
         \A l \in Commands \ {k} : statusOf(l)' = statusOf(l)
  PROVE  Promise!Move(k, from, to)
  BY DEF Promise!Move

\* A step that leaves every status and the phase alone is a stutter.
LEMMA Stutters ==
  ASSUME answered' = answered, \A k \in Commands : statusOf(k)' = statusOf(k)
  PROVE  UNCHANGED Promise!vars
<1>1. [k \in Commands |-> statusOf(k)]' = [k \in Commands |-> statusOf(k)]
  OBVIOUS
<1> QED
  BY <1>1 DEF Promise!vars

\* While a poll whose reply counts is in its loop, what the reply holds is
\* posted and nothing has become of it yet.
LEMMA ParsedIsFresh ==
  ASSUME Inv, ~raced, NEW t \in Threads, pc[t] = "loop", parse[t],
         NEW k \in reply[t], IsNext(t, k)
  PROVE  answered /\ k \in Commands /\ k \notin Queued \cup Settled /\ statusOf(k) = "posted"
<1>1. k \in Commands /\ k \in 1 .. posted /\ Stamp(k) \in Nat /\ Stamp(k) > last
  BY NextIsAhead
<1>2. \A u \in Threads : ~Scans(u)
  BY Alone DEF Scans, Polls
<1>3. last # 0 /\ context = "live" /\ last \in Nat
  BY DEF Inv, TypeOK, CallInv
<1>4. answered
  BY <1>2, <1>3 DEF Inv, AnswerInv
<1>5. \A l \in Queued \cup Settled : Stamp(l) \in Nat /\ Stamp(l) <= last
  BY <1>2, <1>3, SharedAssumption DEF Inv, MarkInv, Stamp
<1>6. k \notin Queued \cup Settled
  BY <1>1, <1>3, <1>5
<1> QED
  BY <1>1, <1>4, <1>6, StatusCases

\* The initial state: nothing is posted and the context is starting.
LEMMA InitRefines == Init => Promise!Init
<1> SUFFICES ASSUME Init PROVE Promise!Init
  OBVIOUS
<1>1. Queued = {} /\ Settled = {} /\ 1 .. posted = {} /\ answered = FALSE
  BY DEF Init, Queued, Settled
<1>2. ASSUME NEW k \in Commands PROVE statusOf(k) = "unposted"
  BY <1>1, StatusCases
<1> QED
  BY <1>1, <1>2 DEF Promise!Init

\* Steps that show in the promise, each with the step it stands for.
LEMMA PostRefines ==
  ASSUME Inv, Post PROVE \E k \in Commands : Promise!Post(k)
<1>1. /\ posted \in Nat /\ posted + 1 \in Commands /\ posted' = posted + 1
      /\ UNCHANGED <<vec, handed, dropped, answered>> /\ Queued' = Queued /\ Settled' = Settled
  BY SharedAssumption DEF Post, Inv, TypeOK, Commands, Queued, Settled, ctxVars, histVars
<1>2. PICK k \in Commands : k = posted + 1
  BY <1>1
<1>3. k \notin 1 .. posted /\ k \in 1 .. posted'
  BY <1>1, <1>2
<1>4. k \notin Queued \cup Settled
  BY <1>3 DEF Inv, MarkInv
<1>5. ASSUME NEW l \in Commands \ {k} PROVE statusOf(l)' = statusOf(l)
  <2>1. l \in 1 .. posted' <=> l \in 1 .. posted
    BY <1>1, <1>2, SharedAssumption DEF Commands
  <2> QED
    BY <1>1, <2>1, SameStatus
<1>6. statusOf(k) = "unposted" /\ statusOf(k)' = "posted"
  BY <1>1, <1>3, <1>4, StatusCases, StatusCasesNext
<1>7. Promise!Post(k)
  BY <1>1, <1>5, <1>6, OneStatus DEF Promise!Post
<1> QED
  BY <1>7

\* A reply that counts: its command is queued.
LEMMA QueueRefines ==
  ASSUME Inv, ~raced, NEW t \in Threads, TakeCommand(t), parse[t]
  PROVE  \E k \in Commands : Promise!Accept(k)
<1>1. PICK k \in reply[t] : /\ IsNext(t, k) /\ k \notin Malformed
                            /\ vec' = Append(vec, k)
                            /\ UNCHANGED <<posted, handed, dropped, answered>>
  BY DEF TakeCommand
<1>2. answered /\ k \in Commands /\ k \notin Queued \cup Settled /\ statusOf(k) = "posted"
  BY <1>1, ParsedIsFresh DEF TakeCommand
<1>3. Queued' = Queued \cup {k}
  BY <1>1, <1>2, Push DEF Inv, TypeOK, MarkInv, Settled
<1>4. statusOf(k)' = "accepted"
  BY <1>1, <1>2, <1>3, StatusCasesNext DEF Settled
<1>5. ASSUME NEW l \in Commands \ {k} PROVE statusOf(l)' = statusOf(l)
  BY <1>1, <1>3, SameStatus
<1>6. Promise!Accept(k)
  BY <1>1, <1>2, <1>4, <1>5, OneStatus DEF Promise!Accept
<1> QED
  BY <1>2, <1>6

\* The backlog of a new context: a command is dropped the first time it is met.
LEMMA ScanRefines ==
  ASSUME Inv, ~raced, NEW t \in Threads, TakeCommand(t), ~parse[t]
  PROVE  (\E k \in Commands : Promise!DropStale(k)) \/ UNCHANGED Promise!vars
<1>1. PICK k \in reply[t] : /\ IsNext(t, k)
                            /\ dropped' = dropped \cup ({k} \ handed)
                            /\ UNCHANGED <<posted, vec, handed, answered>>
  BY DEF TakeCommand
<1>2. k \in Commands /\ k \in 1 .. posted
  BY <1>1, NextIsAhead DEF TakeCommand
<1>3. Scans(t) /\ Queued = {} /\ Queued' = {}
  BY <1>1 DEF TakeCommand, Scans, Inv, CallInv, Queued
<1>4. ~answered
  BY <1>3 DEF Inv, AnswerInv
<1>5. ASSUME NEW l \in Commands \ {k} PROVE statusOf(l)' = statusOf(l)
  BY <1>1, <1>3, SameStatus
<1>6. CASE k \in Settled
  <2>1. statusOf(k)' = statusOf(k)
    BY <1>1, <1>3, <1>6, SameStatus DEF Settled
  <2> QED
    BY <1>1, <1>5, <2>1, Stutters
<1>7. CASE k \notin Settled
  <2>1. statusOf(k) = "posted" /\ statusOf(k)' = "dropped"
    BY <1>1, <1>2, <1>3, <1>7, StatusCases, StatusCasesNext DEF Settled
  <2>2. Promise!DropStale(k)
    BY <1>1, <1>2, <1>4, <1>5, <2>1, OneStatus DEF Promise!DropStale
  <2> QED
    BY <1>2, <2>2
<1> QED
  BY <1>6, <1>7

LEMMA RejectRefines ==
  ASSUME Inv, ~raced, NEW t \in Threads, RejectCommand(t)
  PROVE  \E k \in Commands : Promise!Reject(k)
<1>1. PICK k \in reply[t] : /\ IsNext(t, k) /\ k \in Malformed
                            /\ dropped' = dropped \cup {k}
                            /\ UNCHANGED <<posted, vec, handed, answered>>
  BY DEF RejectCommand
<1>2. k \in Commands /\ k \notin Queued \cup Settled /\ statusOf(k) = "posted"
  BY <1>1, ParsedIsFresh DEF RejectCommand
<1>3. Queued' = Queued
  BY <1>1 DEF Queued
<1>4. statusOf(k)' = "dropped"
  BY <1>1, <1>2, <1>3, StatusCasesNext DEF Settled
<1>5. ASSUME NEW l \in Commands \ {k} PROVE statusOf(l)' = statusOf(l)
  BY <1>1, <1>3, SameStatus
<1>6. Promise!Reject(k)
  BY <1>1, <1>2, <1>4, <1>5, OneStatus DEF Promise!Reject
<1> QED
  BY <1>2, <1>6

\* pop_command hands over what it takes off, and nothing else changes.
LEMMA PopRefines ==
  ASSUME Inv, NEW t \in Threads, PopBack(t)
  PROVE  \E k \in Commands : Promise!Deliver(k)
<1>1. /\ vec # <<>> /\ vec' = SubSeq(vec, 1, Len(vec) - 1) /\ handed' = handed \cup {Back}
      /\ UNCHANGED <<posted, dropped, answered>>
  BY DEF PopBack, Inv, PopInv, PopTakesWhatItCopied, Pops
<1>2. Queued' = Queued \ {Back} /\ Back \in Queued
  BY <1>1, Shrink DEF Inv, TypeOK, MarkInv
<1>3. Back \in Commands /\ Back \notin handed
  BY <1>2, QueuedTyped DEF Inv, MarkInv, QueuedByOne
<1>4. PICK k \in Commands : k = Back
  BY <1>3
<1>5. statusOf(k) = "accepted" /\ statusOf(k)' = "delivered"
  BY <1>1, <1>2, <1>3, <1>4, StatusCases, StatusCasesNext
<1>6. ASSUME NEW l \in Commands \ {k} PROVE statusOf(l)' = statusOf(l)
  BY <1>1, <1>2, <1>4, SameStatus
<1>7. Promise!Deliver(k)
  BY <1>1, <1>5, <1>6, OneStatus DEF Promise!Deliver
<1> QED
  BY <1>7

\* The first poll of a context that comes to its end begins to serve.
LEMMA WaitReturnsRefines ==
  ASSUME Inv, NEW t \in Threads, WaitReturns(t)
  PROVE  Promise!Serve \/ UNCHANGED Promise!vars
<1>1. UNCHANGED <<posted, vec, handed, dropped>> /\ Queued' = Queued /\ answered' = TRUE
  BY DEF WaitReturns, Queued
<1>2. \A k \in Commands : statusOf(k)' = statusOf(k)
  BY <1>1, SameStatus
<1>3. [k \in Commands |-> statusOf(k)]' = [k \in Commands |-> statusOf(k)]
  BY <1>2
<1>4. answered \in BOOLEAN
  BY DEF Inv, TypeOK
<1>5. CASE answered
  BY <1>1, <1>2, <1>4, <1>5, Stutters
<1>6. CASE ~answered
  BY <1>1, <1>3, <1>6 DEF Promise!Serve
<1> QED
  BY <1>4, <1>5, <1>6

\* A first request that fails unseen forgets what was dealt with; a later one
\* does not show.
LEMMA FailsRefines ==
  ASSUME Inv, NEW t \in Threads, GetCommandsFails(t)
  PROVE  Promise!Forget \/ UNCHANGED Promise!vars
<1>1. UNCHANGED <<posted, vec, answered>> /\ Queued' = Queued
  BY DEF GetCommandsFails, ctxVars, Queued
<1>2. CASE parse[t]
  <2>1. UNCHANGED <<handed, dropped>>
    BY <1>2 DEF GetCommandsFails
  <2> QED
    BY <1>1, <2>1, SameStatus, Stutters
<1>3. CASE ~parse[t]
  <2>1. last = 0 /\ Settled' = {}
    BY <1>3 DEF GetCommandsFails, Settled, Inv, CallInv
  <2>2. ~answered /\ Queued = {}
    BY <2>1 DEF Inv, AnswerInv, CallInv, Queued
  <2>3. ASSUME NEW k \in Commands
        PROVE  statusOf(k)' = IF statusOf(k) \in {"delivered", "dropped"} THEN "posted"
                              ELSE statusOf(k)
    <3>1. CASE k \in Settled
      <4>1. k \in 1 .. posted
        BY <3>1 DEF Inv, MarkInv
      <4>2. statusOf(k) \in {"delivered", "dropped"}
        BY <2>2, <3>1, StatusCases DEF Settled
      <4>3. statusOf(k)' = "posted"
        BY <1>1, <2>1, <2>2, <4>1, StatusCasesNext
      <4> QED
        BY <4>2, <4>3
    <3>2. CASE k \notin Settled
      <4>1. statusOf(k) \notin {"delivered", "dropped"}
        BY <3>2 DEF statusOf, Settled
      <4>2. statusOf(k)' = statusOf(k)
        BY <1>1, <2>1, <3>2, SameStatus DEF Settled
      <4> QED
        BY <4>1, <4>2
    <3> QED
      BY <3>1, <3>2
  <2>4. FailedReplies
    BY DEF GetCommandsFails
  <2> QED
    BY <1>1, <2>2, <2>3, <2>4 DEF Promise!Forget
<1> QED
  BY <1>2, <1>3

\* Losing the context drops what was queued and not handed over.
LEMMA DestroyRefines == ASSUME Inv, Destroy PROVE Promise!Restart
<1>1. /\ UNCHANGED <<posted, handed>> /\ dropped' = dropped \cup Queued /\ Queued' = {}
      /\ answered' = FALSE
  BY DEF Destroy, Queued
<1>2. Queued \cap handed = {}
  BY DEF Inv, MarkInv, QueuedByOne
<1>3. ASSUME NEW k \in Commands
      PROVE  statusOf(k)' = IF statusOf(k) = "accepted" THEN "dropped" ELSE statusOf(k)
  <2>1. CASE k \in Queued
    BY <1>1, <1>2, <2>1, StatusCases, StatusCasesNext
  <2>2. CASE k \notin Queued
    <3>1. statusOf(k)' = statusOf(k)
      BY <1>1, <2>2, SameStatus
    <3>2. statusOf(k) # "accepted"
      BY <2>2 DEF statusOf
    <3> QED
      BY <3>1, <3>2
  <2> QED
    BY <2>1, <2>2
<1> QED
  BY <1>1, <1>3 DEF Promise!Restart

\* Every step is a step of the promise or a stutter.
LEMMA StepRefines ==
  ASSUME Inv, [Next]_vars
  PROVE  [Promise!Next]_(Promise!vars)
<1>1. ASSUME UNCHANGED <<posted, vec, histVars>> PROVE UNCHANGED Promise!vars
  <2>1. Queued' = Queued /\ UNCHANGED <<posted, handed, dropped, answered>>
    BY <1>1 DEF Queued, histVars
  <2>2. \A k \in Commands : statusOf(k)' = statusOf(k)
    BY <2>1, SameStatus
  <2> QED
    BY <2>1, <2>2, Stutters
<1>2. CASE Undefined \/ UNCHANGED vars
  BY <1>1, <1>2 DEF Undefined, vars, ctxVars
<1>3. ASSUME ~raced, Step PROVE [Promise!Next]_(Promise!vars)
  <2>1. CASE Post
    BY <2>1, PostRefines DEF Promise!Next
  <2>2. CASE InitContext
    BY <1>1, <2>2 DEF InitContext, Inv, CallInv
  <2>3. CASE Stop
    BY <1>1, <2>3 DEF Stop
  <2>4. CASE Destroy
    BY <2>4, DestroyRefines DEF Promise!Next
  <2>5. ASSUME NEW t \in Threads, ThreadStep(t) PROVE [Promise!Next]_(Promise!vars)
    <3>1. CASE \/ ContextIncorrect(t) \/ WaitForCommand(t) \/ Lock(t) \/ GetCommandsReturns(t)
               \/ GetCommandsThrows(t) \/ CopyBack(t) \/ PopFails(t)
      BY <1>1, <3>1 DEF ContextIncorrect, WaitForCommand, Lock, GetCommandsReturns,
         GetCommandsThrows, CopyBack, PopFails, ctxVars
    <3>2. CASE TakeCommand(t)
      <4>1. CASE parse[t]
        BY <1>3, <3>2, <4>1, QueueRefines DEF Promise!Next
      <4>2. CASE ~parse[t]
        BY <1>3, <3>2, <4>2, ScanRefines DEF Promise!Next
      <4> QED
        BY <4>1, <4>2
    <3>3. CASE RejectCommand(t)
      BY <1>3, <3>3, RejectRefines DEF Promise!Next
    <3>4. CASE WaitReturns(t)
      BY <3>4, WaitReturnsRefines DEF Promise!Next
    <3>5. CASE PopBack(t)
      BY <3>5, PopRefines DEF Promise!Next
    <3>6. CASE GetCommandsFails(t)
      BY <3>6, FailsRefines DEF Promise!Next
    <3> QED
      BY <2>5, <3>1, <3>2, <3>3, <3>4, <3>5, <3>6 DEF ThreadStep
  <2> QED
    BY <1>3, <2>1, <2>2, <2>3, <2>4, <2>5 DEF Step
<1> QED
  BY <1>2, <1>3 DEF Next, RaceFree

\* Any number of threads on one context keep what a single one promises, up to
\* the first race: after a poll has come to its end only destroy() drops
\* commands that parse, nothing is delivered twice and nothing dropped comes
\* back.  Where requests may fail unseen, this holds but for a context's first
\* one: until a poll has come to its end, everything may be forgotten.
THEOREM SharedContextRefines == Spec => KeepsPromise
<1>1. Init => Promise!Init
  BY InitRefines
<1>2. Inv /\ [Next]_vars => [Promise!Next]_(Promise!vars)
  BY StepRefines
<1> QED
  BY <1>1, <1>2, InvHolds, PTL DEF Spec, KeepsPromise, Promise!Spec
=============================================================================

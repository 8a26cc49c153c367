---------------------------- MODULE SharedContext ----------------------------
(***************************************************************************)
(* One context of source/external_server_api.cpp used by several command   *)
(* threads.  wait_for_command holds the context's mutex from its first     *)
(* line to its return, also while the HTTP request runs; pop_command does  *)
(* not take it.  The threads are the caller's: each polls and drains in a  *)
(* loop until it is told to stop, and the context is destroyed when all of *)
(* them have ended.                                                        *)
(*                                                                         *)
(* What one thread makes of any reply is the subject of CommandApi; here   *)
(* all messages are commands of the module, replies are sorted and stamps  *)
(* differ, so that a command is its number.  A data race is undefined      *)
(* behaviour: from there on the model claims nothing.                      *)
(*                                                                         *)
(* A request that fails may say so in its return code only, which the code *)
(* never reads.  If it is the first of its context, the context takes all  *)
(* commands for new: what was dealt with before is forgotten.              *)
(***************************************************************************)
EXTENDS Integers, Sequences, FiniteSets

CONSTANTS
  Threads,       \* the caller's command threads
  Nobody,        \* no thread
  MaxCommands,   \* bound on the commands posted to the fleet API
  Malformed,     \* those whose payload does not parse
  FailedReplies  \* TRUE: getCommands may report a failure by its return code

ASSUME SharedAssumption ==
  /\ Nobody \notin Threads
  /\ MaxCommands \in Nat
  /\ Malformed \subseteq 1 .. MaxCommands
  /\ FailedReplies \in BOOLEAN

VARIABLES
  posted,     \* number of commands at the fleet API: 1 .. posted
  context,    \* "none" or "live"
  stop,       \* the caller has told its threads to stop
  holder,     \* the thread that holds context->mutex
  last,       \* context->last_command_timestamp
  vec,        \* context->command_vector
  pc,         \* where every thread is
  parse,      \* local parse_commands of every thread
  none,       \* local received_no_commands of every thread
  reply,      \* commands of the reply the loop has not reached yet
  copied,     \* what pop_command has copied from the back of the vector
  handed,     \* history: commands handed over and not forgotten
  dropped,    \* history: commands dropped and not forgotten
  answered,   \* history: a poll of this context has come to its end
  raced       \* history: two threads accessed the context in a race

ctxVars  == <<context, stop, last, vec>>
callVars == <<pc, holder, parse, none, reply, copied>>
histVars == <<handed, dropped, answered>>
vars     == <<posted, ctxVars, callVars, histVars, raced>>

Commands == 1 .. MaxCommands

\* 0 and 1 are no stamps, see CommandApi.
Stamp(k) == k + 1

Locations == {"idle", "lock", "request", "loop", "read", "shrink"}

Queued == {vec[i] : i \in 1 .. Len(vec)}

TypeOK ==
  /\ posted \in 0 .. MaxCommands
  /\ context \in {"none", "live"}
  /\ stop \in BOOLEAN
  /\ holder \in Threads \cup {Nobody}
  /\ last \in Nat
  /\ vec \in Seq(Commands)
  /\ pc \in [Threads -> Locations]
  /\ parse \in [Threads -> BOOLEAN]
  /\ none \in [Threads -> BOOLEAN]
  /\ reply \in [Threads -> SUBSET Commands]
  /\ copied \in [Threads -> 0 .. MaxCommands]
  /\ handed \subseteq Commands /\ dropped \subseteq Commands
  /\ answered \in BOOLEAN
  /\ raced \in BOOLEAN

Init ==
  /\ posted = 0
  /\ context = "none"
  /\ stop = FALSE
  /\ holder = Nobody
  /\ last = 0
  /\ vec = <<>>
  /\ pc = [t \in Threads |-> "idle"]
  /\ parse = [t \in Threads |-> FALSE]
  /\ none = [t \in Threads |-> TRUE]
  /\ reply = [t \in Threads |-> {}]
  /\ copied = [t \in Threads |-> 0]
  /\ handed = {} /\ dropped = {}
  /\ answered = FALSE
  /\ raced = FALSE

-----------------------------------------------------------------------------
(***************************************************************************)
(* The fleet API and the caller's main thread.                             *)
(***************************************************************************)

Post ==
  /\ posted < MaxCommands
  /\ posted' = posted + 1
  /\ UNCHANGED <<ctxVars, callVars, histVars>>

InitContext ==
  /\ context = "none"
  /\ context' = "live"
  /\ stop' = FALSE
  /\ last' = 0
  /\ vec' = <<>>
  /\ UNCHANGED <<posted, callVars, histVars>>

Stop ==
  /\ context = "live"
  /\ stop' = TRUE
  /\ UNCHANGED <<posted, context, last, vec, callVars, histVars>>

\* The threads are joined; destroy() deletes the context.
Destroy ==
  /\ context = "live"
  /\ stop
  /\ \A t \in Threads : pc[t] = "idle"
  /\ context' = "none"
  /\ vec' = <<>>
  /\ dropped' = dropped \cup Queued
  /\ answered' = FALSE
  /\ UNCHANGED <<posted, stop, last, callVars, handed>>

-----------------------------------------------------------------------------
(***************************************************************************)
(* wait_for_command.                                                       *)
(***************************************************************************)

\* A thread whose context pointer is null gets CONTEXT_INCORRECT at once.
ContextIncorrect(t) ==
  /\ context = "none"
  /\ pc[t] = "idle"
  /\ UNCHANGED <<posted, ctxVars, callVars, histVars>>

WaitForCommand(t) ==
  /\ context = "live"
  /\ ~stop
  /\ pc[t] = "idle"
  /\ pc' = [pc EXCEPT ![t] = "lock"]
  /\ UNCHANGED <<posted, ctxVars, holder, parse, none, reply, copied, histVars>>

\* Mutant: wait_for_command does not use the mutex either.
NoMutex(t) == pc[t] = "lock"

MutexFree(t) == holder = Nobody

\* std::unique_lock lock(con->mutex); the request is about to go out.
Lock(t) ==
  /\ pc[t] = "lock"
  /\ MutexFree(t)
  /\ holder' = t
  /\ pc' = [pc EXCEPT ![t] = "request"]
  /\ parse' = [parse EXCEPT ![t] = last # 0]
  /\ none' = [none EXCEPT ![t] = TRUE]
  /\ UNCHANGED <<posted, ctxVars, reply, copied, histVars>>

\* Mutant: asks for the last stamp again.
SinceInclusive == last

Since == last + 1

GetCommandsReturns(t) ==
  /\ pc[t] = "request"
  /\ pc' = [pc EXCEPT ![t] = "loop"]
  /\ reply' = [reply EXCEPT ![t] = {k \in 1 .. posted : Stamp(k) >= Since}]
  /\ UNCHANGED <<posted, ctxVars, holder, parse, none, copied, histVars>>

\* The request fails by its return code, next to an empty list: it passes for
\* an empty reply.  To a first poll, that is an empty backlog.
GetCommandsFails(t) ==
  /\ FailedReplies
  /\ pc[t] = "request"
  /\ pc' = [pc EXCEPT ![t] = "loop"]
  /\ reply' = [reply EXCEPT ![t] = {}]
  /\ handed' = IF parse[t] THEN handed ELSE {}
  /\ dropped' = IF parse[t] THEN dropped ELSE {}
  /\ UNCHANGED <<posted, ctxVars, holder, parse, none, copied, answered>>

\* Mutant: the mutex is unlocked where the call ends with OK only.
StillLocked(t) == IF pc[t] = "request" THEN t ELSE Nobody

Unlocked(t) == Nobody

\* getCommands throws: TIMEOUT_OCCURRED, and unwinding unlocks the mutex.
GetCommandsThrows(t) ==
  /\ pc[t] = "request"
  /\ pc' = [pc EXCEPT ![t] = "idle"]
  /\ holder' = Unlocked(t)
  /\ UNCHANGED <<posted, ctxVars, parse, none, reply, copied, histVars>>

IsNext(t, k) == k \in reply[t] /\ \A l \in reply[t] : k <= l

Mark(k) == IF Stamp(k) > last THEN Stamp(k) ELSE last

TakeCommand(t) ==
  /\ pc[t] = "loop"
  /\ \E k \in reply[t] :
       /\ IsNext(t, k)
       /\ parse[t] => k \notin Malformed
       /\ last' = Mark(k)
       /\ none' = [none EXCEPT ![t] = FALSE]
       /\ vec' = IF parse[t] THEN Append(vec, k) ELSE vec
       /\ dropped' = IF parse[t] THEN dropped ELSE dropped \cup ({k} \ handed)
       /\ reply' = [reply EXCEPT ![t] = @ \ {k}]
  /\ UNCHANGED <<posted, context, stop, pc, holder, parse, copied, handed, answered>>

\* A payload that does not parse: NOT_OK, from inside the loop.
RejectCommand(t) ==
  /\ pc[t] = "loop"
  /\ parse[t]
  /\ \E k \in reply[t] \cap Malformed :
       /\ IsNext(t, k)
       /\ last' = Mark(k)
       /\ dropped' = dropped \cup {k}
  /\ pc' = [pc EXCEPT ![t] = "idle"]
  /\ reply' = [reply EXCEPT ![t] = {}]
  /\ holder' = Unlocked(t)
  /\ UNCHANGED <<posted, context, stop, vec, parse, none, copied, handed, answered>>

\* Mutant: parse_commands is not asked for at the return.
OkWithoutParse(t) == ~none[t]

ReturnsOk(t) == ~none[t] /\ parse[t]

\* Mutant: after a first poll without commands the mark stays 0.
MarkAsItIs(t) == last

MarkAtReturn(t) == IF none[t] /\ ~parse[t] THEN 1 ELSE last

WaitReturns(t) ==
  /\ pc[t] = "loop"
  /\ reply[t] = {}
  /\ last' = MarkAtReturn(t)
  /\ pc' = [pc EXCEPT ![t] = IF ReturnsOk(t) THEN "read" ELSE "idle"]
  /\ holder' = Unlocked(t)
  /\ answered' = TRUE
  /\ UNCHANGED <<posted, context, stop, vec, parse, none, reply, copied, handed, dropped>>

-----------------------------------------------------------------------------
(***************************************************************************)
(* pop_command: the back of the vector is copied, and later taken off.     *)
(***************************************************************************)

Back == vec[Len(vec)]

\* On an empty vector back() is undefined, see PopTakesWhatItCopied.
CopyBack(t) ==
  /\ pc[t] = "read"
  /\ vec # <<>>
  /\ copied' = [copied EXCEPT ![t] = Back]
  /\ pc' = [pc EXCEPT ![t] = "shrink"]
  /\ UNCHANGED <<posted, ctxVars, holder, parse, none, reply, histVars>>

\* Memory runs out: NOT_OK.
PopFails(t) ==
  /\ pc[t] = "read"
  /\ pc' = [pc EXCEPT ![t] = "idle"]
  /\ UNCHANGED <<posted, ctxVars, holder, parse, none, reply, copied, histVars>>

\* pop_back, and the size that tells the caller whether to go on.
PopBack(t) ==
  /\ pc[t] = "shrink"
  /\ vec' = SubSeq(vec, 1, Len(vec) - 1)
  /\ handed' = handed \cup {copied[t]}
  /\ pc' = [pc EXCEPT ![t] = IF Len(vec) > 1 THEN "read" ELSE "idle"]
  /\ copied' = [copied EXCEPT ![t] = 0]
  /\ UNCHANGED <<posted, context, stop, last, holder, parse, none, reply, dropped, answered>>

-----------------------------------------------------------------------------
(***************************************************************************)
(* Data races: two threads are about to access one field of the context,   *)
(* one of them to write it.                                                *)
(***************************************************************************)
Polls(t) == pc[t] \in {"request", "loop"}

Pops(t) == pc[t] \in {"read", "shrink"}

\* The loop is about to queue a command; one that does not parse ends it.
Queues(t) ==
  /\ pc[t] = "loop"
  /\ parse[t]
  /\ \E k \in reply[t] \ Malformed : IsNext(t, k)

WritesVector(t) == pc[t] = "shrink" \/ Queues(t)

AccessesVector(t) == WritesVector(t) \/ pc[t] = "read"

Conflict(t, u) ==
  \/ WritesVector(t) /\ AccessesVector(u)
  \/ Polls(t) /\ Polls(u)   \* both use last_command_timestamp

Race == \E t, u \in Threads : t # u /\ Conflict(t, u)

ThreadStep(t) ==
  \/ ContextIncorrect(t)
  \/ WaitForCommand(t)
  \/ Lock(t)
  \/ GetCommandsReturns(t)
  \/ GetCommandsFails(t)
  \/ GetCommandsThrows(t)
  \/ TakeCommand(t)
  \/ RejectCommand(t)
  \/ WaitReturns(t)
  \/ CopyBack(t)
  \/ PopFails(t)
  \/ PopBack(t)

Step ==
  \/ Post
  \/ InitContext
  \/ Stop
  \/ Destroy
  \/ \E t \in Threads : ThreadStep(t)

\* Behaviour is undefined after a race; the model stands still.
Undefined == raced /\ UNCHANGED vars

RaceFree(A) == ~raced /\ A /\ raced' = Race'

Next ==
  \/ RaceFree(Step)
  \/ Undefined

Spec == Init /\ [][Next]_vars

\* Threads are scheduled, and a request ends by itself, one way or the other:
\* timeout_time_in_ms does not end it.  A mutex that stays free is taken.
Proceeds(t) ==
  \/ Lock(t)
  \/ GetCommandsReturns(t)
  \/ GetCommandsFails(t)
  \/ GetCommandsThrows(t)
  \/ TakeCommand(t)
  \/ RejectCommand(t)
  \/ WaitReturns(t)
  \/ CopyBack(t)
  \/ PopBack(t)

Fairness ==
  /\ \A t \in Threads : WF_vars(RaceFree(Proceeds(t)))
  /\ WF_vars(RaceFree(Destroy))

FairSpec == Spec /\ Fairness

-----------------------------------------------------------------------------
(***************************************************************************)
(* Properties.                                                             *)
(***************************************************************************)

\* The mutex does its part: when two threads race on the context, one of them
\* is in pop_command; two calls of wait_for_command never do.
OnlyPopRaces == \A t, u \in Threads : t # u /\ Conflict(t, u) => Pops(t) \/ Pops(u)

\* A thread that was told to pop finds a command, and what it takes off is
\* what it has handed over, up to the first race, whatever the others do.
PopTakesWhatItCopied ==
  \A t \in Threads : /\ Pops(t) => vec # <<>>
                     /\ pc[t] = "shrink" => copied[t] = Back

\* However many threads poll, no command is queued by two of them, and none
\* that was handed over is queued again, by a later context either.  What an
\* unseen failure of a context's first request made the code forget is excepted
\* (it has left handed), but only once: from then on it holds for that, too.
QueuedByOne ==
  /\ \A i, j \in 1 .. Len(vec) : i # j => vec[i] # vec[j]
  /\ Queued \cap handed = {}

\* What has become of a command, as CommandDelivery tells it.
statusOf(k) ==
  IF k \in handed THEN "delivered"
  ELSE IF k \in Queued THEN "accepted"
  ELSE IF k \in dropped THEN "dropped"
  ELSE IF k \in 1 .. posted THEN "posted" ELSE "unposted"

\* Up to the first race, several threads on one context deliver commands like
\* a single one: once a poll has come to its end no command is dropped that
\* parses, except by destroy(), and nothing is delivered twice and nothing
\* dropped comes back, except where requests may fail unseen: a first one that
\* does makes the context forget all that was dealt with before, and no other.
Promise == INSTANCE CommandDelivery WITH
  Acceptable <- Commands \ Malformed,
  Forgetful  <- FailedReplies,
  phase      <- IF answered THEN "serving" ELSE "starting",
  status     <- [k \in Commands |-> statusOf(k)]

KeepsPromise == Promise!Spec

\* A stop is always completed: no thread is left in a call, waiting for the
\* mutex of one that has ended.  It may take as many requests as there are
\* threads, since each sends its own with the mutex held.
StopCompletes == []~raced => (stop ~> context = "none")
=============================================================================

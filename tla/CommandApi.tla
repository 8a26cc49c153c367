----------------------------- MODULE CommandApi -----------------------------
(***************************************************************************)
(* The command half of source/external_server_api.cpp: wait_for_command    *)
(* polls the fleet HTTP API for messages and queues the module's own       *)
(* commands in the context's command_vector; pop_command hands them to the *)
(* caller one by one.                                                      *)
(*                                                                         *)
(* Three parties take steps.                                               *)
(*   - The fleet API, external to this repository: it stamps and keeps     *)
(*     messages of every module (Post, Tick) and answers getCommands.      *)
(*   - The external server's command thread, also external: it calls       *)
(*     wait_for_command in a loop and, when that returns OK, pop_command   *)
(*     until no command remains (pop_command returns the number left).     *)
(*   - The library, whose code runs inside that thread.  wait_for_command  *)
(*     is split at the HTTP request and at every iteration of its loop,    *)
(*     because the fleet API goes on taking messages meanwhile and the     *)
(*     process may die at any of these points.                             *)
(*                                                                         *)
(* Messages are model values.  What matters of a message is its time       *)
(* stamp, whether its device id names this module, and whether its payload *)
(* deserializes as a DeviceCommand.                                        *)
(***************************************************************************)
EXTENDS Integers, Sequences

CONSTANTS
  Messages,        \* identities of the messages that may be posted
  IOCommands,      \* those whose device id has module = IO_MODULE_NUMBER
  Malformed,       \* those DeviceCommand::deserializeFromBuffer rejects
  SortedReplies,   \* TRUE: getCommands answers in time-stamp order
  FailedReplies,   \* TRUE: getCommands may report a failure by its return code
  MaxTime,         \* bound on the fleet API's clock
  MaxRestarts      \* bound on how often the process crashes or is stopped

ASSUME CommandAssumption ==
  /\ IOCommands \subseteq Messages
  /\ Malformed \subseteq Messages
  /\ SortedReplies \in BOOLEAN
  /\ FailedReplies \in BOOLEAN
  /\ MaxTime \in Nat
  /\ MaxRestarts \in Nat

VARIABLES
  now,            \* the fleet API's clock
  ts,             \* time stamp of every message, 0 while it is not posted
  context,        \* "none" or "live": what init() returned and destroy() frees
  last,           \* context->last_command_timestamp
  vec,            \* context->command_vector; the back of the vector is its end
  pc,             \* where the command thread is
  parse,          \* local parse_commands of wait_for_command
  none,           \* local received_no_commands of wait_for_command
  batch,          \* messages of the reply the loop has not reached yet
  restarts,       \* how often the process crashed or was stopped
  delivered,      \* history: commands pop_command handed over
  discarded,      \* history: commands fetched by a poll that does not parse
  rejected,       \* history: commands whose payload made a poll fail
  late,           \* history: posted when a message of that stamp had been fetched
  skipped,        \* history: rest of the reply when a poll failed half way, as
                  \*          far as the mark had reached it
  lost,           \* history: queued commands that died with the context
  answered,       \* history: this context has completed an answered poll
  blind,          \* history: the first such answer was a failure, unseen
  interrupted     \* history: a poll or a drain failed since the last full drain

apiVars  == <<now, ts>>
ctxVars  == <<context, last, vec>>
callVars == <<pc, parse, none, batch>>
histVars == <<delivered, discarded, rejected, late, skipped, lost, answered, blind, interrupted>>
vars     == <<apiVars, ctxVars, callVars, restarts, histVars>>

Locations == {"idle", "request", "loop", "pop"}

\* Real stamps are milliseconds since 1970, far above the 0 ("no poll yet")
\* and the 1 ("polled, nothing there") the code keeps in the same variable.
FirstTime == 2

Posted(m) == ts[m] # 0

Queued == {vec[i] : i \in 1 .. Len(vec)}

\* Every command of this module that has been taken off the fleet API.
Handled == Queued \cup delivered \cup discarded \cup rejected \cup lost

\* The types of the data, of the flags and of the histories.
DataOK ==
  /\ now \in Nat /\ now >= FirstTime
  /\ ts \in [Messages -> Nat]
  /\ context \in {"none", "live"}
  /\ last \in Nat
  /\ vec \in Seq(Messages)
  /\ pc \in Locations
  /\ restarts \in Nat

FlagsOK ==
  /\ parse \in BOOLEAN
  /\ none \in BOOLEAN
  /\ answered \in BOOLEAN
  /\ blind \in BOOLEAN
  /\ interrupted \in BOOLEAN

SetsOK ==
  /\ batch \subseteq Messages
  /\ delivered \subseteq Messages
  /\ discarded \subseteq Messages
  /\ rejected \subseteq Messages
  /\ late \subseteq Messages
  /\ skipped \subseteq Messages
  /\ lost \subseteq Messages

TypeOK == DataOK /\ FlagsOK /\ SetsOK

Init ==
  /\ now = FirstTime
  /\ ts = [m \in Messages |-> 0]
  /\ context = "none"
  /\ last = 0
  /\ vec = <<>>
  /\ pc = "idle"
  /\ parse = FALSE
  /\ none = TRUE
  /\ batch = {}
  /\ restarts = 0
  /\ delivered = {}
  /\ discarded = {}
  /\ rejected = {}
  /\ late = {}
  /\ skipped = {}
  /\ lost = {}
  /\ answered = FALSE
  /\ blind = FALSE
  /\ interrupted = FALSE

-----------------------------------------------------------------------------
(***************************************************************************)
(* The fleet API.                                                          *)
(***************************************************************************)

Tick ==
  /\ now < MaxTime
  /\ now' = now + 1
  /\ UNCHANGED <<ts, ctxVars, callVars, restarts, histVars>>

\* A message with the current stamp is in the reply, or the mark has passed it.
NowFetched == last = now \/ \E n \in batch : ts[n] = now

\* Some client (or another module's device) posts message m.
Post(m) ==
  /\ ~Posted(m)
  /\ ts' = [ts EXCEPT ![m] = now]
  /\ late' = IF NowFetched THEN late \cup {m} ELSE late
  /\ UNCHANGED <<now, ctxVars, callVars, restarts, delivered, discarded, rejected,
                 skipped, lost, answered, blind, interrupted>>

-----------------------------------------------------------------------------
(***************************************************************************)
(* Life of the context.                                                    *)
(***************************************************************************)

\* init() returns a fresh context.  (When it returns nullptr nothing changes.)
InitContext ==
  /\ context = "none"
  /\ context' = "live"
  /\ last' = 0
  /\ vec' = <<>>
  /\ UNCHANGED <<apiVars, callVars, restarts, histVars>>

\* The context's memory is gone, and with it the queued commands.
ContextGone ==
  /\ context' = "none"
  /\ last' = 0
  /\ vec' = <<>>
  /\ pc' = "idle"
  /\ parse' = FALSE
  /\ none' = TRUE
  /\ batch' = {}
  /\ restarts' = restarts + 1
  /\ lost' = lost \cup Queued
  /\ answered' = FALSE
  /\ blind' = FALSE
  /\ interrupted' = FALSE
  /\ UNCHANGED <<apiVars, delivered, discarded, rejected, late, skipped>>

\* destroy(): the caller has joined its command thread, so no call is running.
Destroy ==
  /\ context = "live"
  /\ pc = "idle"
  /\ restarts < MaxRestarts
  /\ ContextGone

\* The process dies, wherever its command thread is.
Crash ==
  /\ context = "live"
  /\ restarts < MaxRestarts
  /\ ContextGone

-----------------------------------------------------------------------------
(***************************************************************************)
(* wait_for_command.                                                       *)
(***************************************************************************)

\* Mutant: commands found by the very first poll are parsed too.
ParseAlways == TRUE

ParseCommands == last # 0

\* Mutants: the poll asks for the last stamp again, or for one too late.
SinceInclusive == last
SinceTooLate == last + 2

Since == last + 1

\* Mutants: the mark follows the latest message even backwards; a payload that
\* fails to parse does not move it.
MarkOverwritten(m) == ts[m]
MarkAfterParse(m) == IF m \notin Malformed /\ ts[m] > last THEN ts[m] ELSE last

Mark(m) == IF ts[m] > last THEN ts[m] ELSE last

\* Mutant: the mark stays 0 after a first poll that found nothing.
MarkNotSet == last

MarkAtReturn == IF none /\ ~parse THEN 1 ELSE last

\* Mutant: the test of parse_commands at the return is forgotten.
OkWithoutParse == ~none

ReturnsOk == ~(none \/ ~parse)

\* Mutant: the command goes to the front of the vector.
EnqueueFront(m) == <<m>> \o vec

Enqueue(m) == Append(vec, m)

\* The call takes the mutex and is about to send the HTTP request.
WaitForCommand ==
  /\ context = "live"
  /\ pc = "idle"
  /\ pc' = "request"
  /\ parse' = ParseCommands
  /\ none' = TRUE
  /\ UNCHANGED <<apiVars, ctxVars, batch, restarts, histVars>>

\* Every return releases the mutex and the call's locals.
EndCall(next) ==
  /\ pc' = next
  /\ parse' = FALSE
  /\ none' = TRUE
  /\ batch' = {}

\* getCommands throws: the call returns TIMEOUT_OCCURRED.
GetCommandsThrows ==
  /\ pc = "request"
  /\ EndCall("idle")
  /\ UNCHANGED <<apiVars, ctxVars, restarts, histVars>>

\* getCommands answers with every message stamped Since or later.  It may be
\* empty: the fleet API ends a long poll on its own timeout.
GetCommandsReturns ==
  /\ pc = "request"
  /\ pc' = "loop"
  /\ batch' = {m \in Messages : Posted(m) /\ ts[m] >= Since}
  /\ UNCHANGED <<apiVars, ctxVars, parse, none, restarts, histVars>>

\* The request fails and getCommands says so in its return code, next to an
\* empty list: the code never reads it, so this passes for an empty reply.
GetCommandsFails ==
  /\ FailedReplies
  /\ pc = "request"
  /\ pc' = "loop"
  /\ batch' = {}
  /\ blind' = (blind \/ ~parse)
  /\ UNCHANGED <<apiVars, ctxVars, parse, none, restarts, delivered, discarded,
                 rejected, late, skipped, lost, answered, interrupted>>

\* m is the message the loop reaches next.
Reaches(m) ==
  /\ pc = "loop"
  /\ m \in batch
  /\ SortedReplies => \A n \in batch : ts[m] <= ts[n]

\* A message of another module only moves the time stamp.
SkipForeign(m) ==
  /\ Reaches(m)
  /\ m \notin IOCommands
  /\ last' = Mark(m)
  /\ batch' = batch \ {m}
  /\ UNCHANGED <<apiVars, context, vec, pc, parse, none, restarts, histVars>>

\* The context's first poll takes its own commands off without parsing them.
DiscardStale(m) ==
  /\ Reaches(m)
  /\ m \in IOCommands
  /\ ~parse
  /\ last' = Mark(m)
  /\ none' = FALSE
  /\ batch' = batch \ {m}
  /\ discarded' = discarded \cup {m}
  /\ UNCHANGED <<apiVars, context, vec, pc, parse, restarts, delivered, rejected,
                 late, skipped, lost, answered, blind, interrupted>>

\* The payload deserializes: the command goes to the back of the vector.
QueueCommand(m) ==
  /\ Reaches(m)
  /\ m \in IOCommands \ Malformed
  /\ parse
  /\ last' = Mark(m)
  /\ none' = FALSE
  /\ batch' = batch \ {m}
  /\ vec' = Enqueue(m)
  /\ UNCHANGED <<apiVars, context, pc, parse, restarts, histVars>>

\* The payload does not deserialize: the call returns NOT_OK at once, with the
\* stamp already taken over, the commands queued so far left in the vector
\* and the rest of the reply dropped.  Of that rest the next poll asks again for
\* what is stamped behind the mark.
RejectMalformed(m) ==
  /\ Reaches(m)
  /\ m \in IOCommands \cap Malformed
  /\ parse
  /\ last' = Mark(m)
  /\ EndCall("idle")
  /\ rejected' = rejected \cup {m}
  /\ skipped' = skipped \cup {n \in batch \ {m} : ts[n] <= Mark(m)}
  /\ interrupted' = TRUE
  /\ UNCHANGED <<apiVars, context, vec, restarts, delivered, discarded, late, lost,
                 answered, blind>>

\* The loop is over.  OK sends the caller to pop_command, TIMEOUT_OCCURRED
\* back to its loop.
WaitReturns ==
  /\ pc = "loop"
  /\ batch = {}
  /\ last' = MarkAtReturn
  /\ EndCall(IF ReturnsOk THEN "pop" ELSE "idle")
  /\ answered' = TRUE
  /\ UNCHANGED <<apiVars, context, vec, restarts, delivered, discarded, rejected,
                 late, skipped, lost, blind, interrupted>>

-----------------------------------------------------------------------------
(***************************************************************************)
(* pop_command.                                                            *)
(***************************************************************************)

\* Mutant: the size is taken one too small, as if two commands were popped.
RemainingShort == Len(vec) - 2

\* The value pop_command returns: the size of the vector after pop_back.
Remaining == Len(vec) - 1

Back == vec[Len(vec)]

WithoutBack == SubSeq(vec, 1, Len(vec) - 1)

\* The call succeeds; the caller goes on while commands remain.
PopCommand ==
  /\ pc = "pop"
  /\ vec # <<>>
  /\ vec' = WithoutBack
  /\ delivered' = delivered \cup {Back}
  /\ IF Remaining > 0
     THEN UNCHANGED <<pc, interrupted>>
     ELSE pc' = "idle" /\ interrupted' = FALSE
  /\ UNCHANGED <<apiVars, context, last, parse, none, batch, restarts, discarded,
                 rejected, late, skipped, lost, answered, blind>>

\* An allocation fails: the call returns NOT_OK before pop_back, and the
\* caller, told that nothing was popped, goes back to wait_for_command.
PopFails ==
  /\ pc = "pop"
  /\ vec # <<>>
  /\ pc' = "idle"
  /\ interrupted' = TRUE
  /\ UNCHANGED <<apiVars, ctxVars, parse, none, batch, restarts, delivered, discarded,
                 rejected, late, skipped, lost, answered, blind>>

-----------------------------------------------------------------------------

HandleMessage(m) ==
  \/ SkipForeign(m)
  \/ DiscardStale(m)
  \/ QueueCommand(m)
  \/ RejectMalformed(m)

Next ==
  \/ Tick
  \/ \E m \in Messages : Post(m)
  \/ InitContext
  \/ Destroy
  \/ Crash
  \/ WaitForCommand
  \/ GetCommandsThrows
  \/ GetCommandsReturns
  \/ GetCommandsFails
  \/ \E m \in Messages : HandleMessage(m)
  \/ WaitReturns
  \/ PopCommand
  \/ PopFails

Spec == Init /\ [][Next]_vars

-----------------------------------------------------------------------------
(***************************************************************************)
(* Fairness, for the liveness properties only.  The command thread keeps   *)
(* running (WF on the steps it takes by itself), init() is called again    *)
(* after a stop, and a request that is repeated for ever is answered in    *)
(* the end (SF: any number of them may throw before).  No fairness for     *)
(* the clock, for posts, for failing allocations or for crashes.           *)
(***************************************************************************)
Fairness ==
  /\ WF_vars(InitContext)
  /\ WF_vars(WaitForCommand)
  /\ SF_vars(GetCommandsReturns)
  /\ WF_vars(\E m \in Messages : HandleMessage(m))
  /\ WF_vars(WaitReturns)
  /\ WF_vars(PopCommand)

FairSpec == Spec /\ Fairness

-----------------------------------------------------------------------------
(***************************************************************************)
(* Properties.                                                             *)
(***************************************************************************)

\* wait_for_command returns OK only with a command in command_vector, and the
\* caller's pop loop stops in time: pop_command, which calls back() on the
\* vector without looking at its size, is never called on an empty one.
PopHasCommand == pc = "pop" => vec # <<>>

\* A poll that parses never gets a command again that this context already
\* queued, nor one that any earlier poll, before a restart too, had taken:
\* nothing is executed twice, and a payload that cannot be parsed does not
\* come back to fail poll after poll.  The second half has one gap: a context
\* whose first reply was a failure reported by the return code only takes the
\* backlog for new, and with it what earlier contexts had dealt with.
FetchedOnce ==
  pc = "loop" /\ parse => /\ batch \cap Queued = {}
                          /\ ~blind => batch \cap Handled = {}

\* command_vector holds no command twice and, but for that gap, none that was
\* handed over.
QueuedOnce ==
  /\ \A i, j \in 1 .. Len(vec) : i # j => vec[i] # vec[j]
  /\ ~blind => Queued \cap delivered = {}

\* wait_for_command can still reach m: a later poll asks for its stamp, or
\* the reply being worked through contains it.
Reachable(m) == ts[m] > last \/ m \in batch

\* m was posted with the stamp of a message that had been fetched already, and
\* the next poll asks for later stamps.
TooLate(m) == m \in late /\ ~Reachable(m)

\* m was in a reply behind a rejected command, and the mark had reached its
\* stamp when the loop was left: if the reply was in stamp order, only because
\* the rejected command has the same stamp.
CutOff(m) ==
  /\ m \in skipped
  /\ SortedReplies => \E n \in rejected \ {m} : ts[n] = ts[m]

\* No command of this module is lost on the way: it can still be reached, or
\* it was queued, handed over, discarded by a first poll, rejected, or died
\* with the context.  There are three gaps, all of them at the mark:
\*   - a command posted with the stamp of a message that was fetched before;
\*   - a command with the stamp of a rejected one that stood before it in the
\*     reply, even if both were there when the reply was fetched;
\*   - if replies are not in stamp order, whatever else of a cut reply has a
\*     stamp that the mark has reached.
NoCommandLost ==
  \A m \in IOCommands :
    Posted(m) => \/ Reachable(m)
                 \/ m \in Handled
                 \/ TooLate(m)
                 \/ CutOff(m)

\* Only the first answered poll of a context discards: every later reply is
\* parsed, also when that first reply had none of the module's commands.
OnlyBacklogDiscarded == pc = "loop" /\ answered => parse

\* pop_command takes from the back, so commands leave newest first; that
\* holds across polls too: what a failed poll or drain left in the vector is
\* older than, and leaves after, everything a later poll adds.
NewestFirst ==
  SortedReplies => \A i, j \in 1 .. Len(vec) : i < j => ts[vec[i]] <= ts[vec[j]]

\* Commands wait in the vector with nobody popping them only after a poll
\* that failed half way or a pop_command that ran out of memory.
StrandedOnlyByFailure == pc \in {"idle", "request"} /\ vec # <<>> => interrupted

\* last_command_timestamp goes back only at the end of the context's first
\* answered poll, or when the context goes: from then on it only grows.
MarkOnlyGrows == [][answered /\ context' = "live" => last' >= last]_vars

\* Every command posted for the module is settled in the end: handed over,
\* discarded, rejected, lost with a context or in one of the three gaps above,
\* or left in the vector by a failed poll or pop, where it waits for a poll that
\* returns OK.  A payload that cannot be parsed does not fail every later poll:
\* what its reply held behind it, at a stamp the mark had not reached, is
\* fetched again.
Settled(m) ==
  \/ m \in delivered \cup discarded \cup rejected \cup lost
  \/ m \in Queued /\ interrupted
  \/ TooLate(m)
  \/ CutOff(m)

EveryCommandSettles == \A m \in IOCommands : Posted(m) ~> Settled(m)

-----------------------------------------------------------------------------
(***************************************************************************)
(* The inductive invariant.  The properties above are not inductive: that  *)
(* a poll fetches nothing twice depends on where the mark stands relative  *)
(* to everything handled so far, and that, while the first poll's loop     *)
(* runs, on the part of the reply that is still ahead of the loop.         *)
(***************************************************************************)

\* No stamp and no mark is ahead of the clock, and a mark is some stamp.
StampsBehindClock ==
  /\ \A m \in Messages : ts[m] <= now /\ (Posted(m) => ts[m] >= FirstTime)
  /\ last <= now
  /\ last \in {0, 1} \/ \E n \in Messages : ts[n] = last

\* The mark tells whether a poll was answered, and the locals agree with it.
CallState ==
  /\ context = "none" => pc = "idle" /\ ~answered /\ last = 0
  /\ pc # "loop" => batch = {} /\ (answered <=> last # 0)
  /\ pc # "loop" => none
  /\ pc = "request" => (parse <=> answered)
  /\ pc = "loop" => (parse <=> answered) /\ (answered \/ ~none => last # 0)
  /\ pc = "pop" => answered
  /\ ~answered => vec = <<>>
  /\ blind => FailedReplies
  /\ pc = "request" /\ ~answered => ~blind
  /\ pc # "loop" /\ blind => answered
  /\ \A m \in batch : Posted(m)

\* A parsing loop that found a command has queued one, and leftovers in the
\* vector outside a drain stem from a failure.
VectorState ==
  /\ PopHasCommand
  /\ pc = "loop" /\ parse /\ ~none => vec # <<>>
  /\ pc # "pop" /\ none /\ vec # <<>> => interrupted

\* What was handled lies behind the mark, except what the first poll of a new
\* context fetches again from before the restart and has not reached yet.
HandledBehindMark ==
  /\ \A m \in Handled : m \in IOCommands /\ Posted(m)
  /\ answered => \A m \in Queued : ts[m] <= last /\ m \notin batch
  /\ answered /\ ~blind => \A m \in Handled : ts[m] <= last /\ m \notin batch
  /\ pc = "loop" /\ ~answered /\ ~blind =>
       /\ \A m \in Handled : m \in batch \/ ts[m] <= last
       /\ none => Handled \subseteq batch

\* Nothing is in two places.
QueuedApart ==
  /\ QueuedOnce
  /\ ~blind => Queued \cap (discarded \cup rejected \cup lost) = {}

\* A reply holds everything between the mark and what was posted since.
ReplyComplete ==
  pc = "loop" =>
    /\ \A m \in Messages : Posted(m) /\ Reachable(m) /\ m \notin late =>
         m \in batch \/ \A b \in batch : ts[b] < ts[m]
    /\ SortedReplies => \A b \in batch : last <= ts[b]

IndInv ==
  /\ TypeOK
  /\ StampsBehindClock
  /\ CallState
  /\ VectorState
  /\ HandledBehindMark
  /\ QueuedApart
  /\ ReplyComplete
  /\ NoCommandLost
  /\ NewestFirst

-----------------------------------------------------------------------------
(***************************************************************************)
(* The promise, and how this state maps to it.  A message of another       *)
(* module, and a command in one of the three gaps, stays "posted".         *)
(***************************************************************************)
statusOf(m) ==
  CASE m \in delivered                              -> "delivered"
    [] m \in Queued \ delivered                     -> "accepted"
    [] m \in (discarded \cup rejected \cup lost)
             \ (delivered \cup Queued)              -> "dropped"
    [] m \notin Handled /\ Posted(m)                -> "posted"
    [] OTHER                                        -> "unposted"

Promise == INSTANCE CommandDelivery WITH
  Commands   <- Messages,
  Acceptable <- IOCommands \ Malformed,
  Forgetful  <- FALSE,
  phase      <- IF answered THEN "serving" ELSE "starting",
  status     <- [m \in Messages |-> statusOf(m)]

\* The polling implementation keeps the promise of CommandDelivery, provided
\* that a failed request always shows as an exception.
KeepsPromise == Promise!Spec
=============================================================================

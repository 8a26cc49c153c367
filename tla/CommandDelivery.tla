-------------------------- MODULE CommandDelivery --------------------------
(***************************************************************************)
(* What the external-server side of the IO module promises to its caller   *)
(* about commands, with no polling, time stamps, locks or queues in it.    *)
(*                                                                         *)
(* A command is posted to the fleet API, the module may accept it, and an  *)
(* accepted command may be delivered (pop_command hands it to the caller). *)
(* While the module is starting, commands that are already waiting count   *)
(* as stale and may be dropped; once it is serving, only a command it      *)
(* cannot parse is dropped.  A restart drops accepted commands that were   *)
(* not delivered yet.  Delivered and dropped are final: nothing is ever    *)
(* delivered twice, and nothing dropped comes back.  A module that is      *)
(* Forgetful breaks this at one point: while it is starting it may take    *)
(* everything that was dealt with before for new.                          *)
(***************************************************************************)
CONSTANTS
  Commands,     \* identities of the messages the fleet API may ever hold
  Acceptable,   \* those that are addressed to the module and well formed
  Forgetful     \* TRUE: a starting module may forget what was dealt with

VARIABLES
  phase,        \* "starting" until the backlog has been dealt with
  status        \* what has become of each command

vars == <<phase, status>>

Phases == {"starting", "serving"}

Statuses == {"unposted", "posted", "accepted", "delivered", "dropped"}

TypeOK ==
  /\ phase \in Phases
  /\ status \in [Commands -> Statuses]

Init ==
  /\ phase = "starting"
  /\ status = [c \in Commands |-> "unposted"]

Move(c, from, to) ==
  /\ status[c] = from
  /\ status' = [status EXCEPT ![c] = to]
  /\ UNCHANGED phase

Post(c) == Move(c, "unposted", "posted")

\* Only commands the module can act on are accepted, and only while serving.
Accept(c) ==
  /\ phase = "serving"
  /\ c \in Acceptable
  /\ Move(c, "posted", "accepted")

Deliver(c) == Move(c, "accepted", "delivered")

\* A stale command is dropped only while the module is starting.
DropStale(c) ==
  /\ phase = "starting"
  /\ Move(c, "posted", "dropped")

\* A serving module drops nothing it could have acted on.
Reject(c) ==
  /\ c \notin Acceptable
  /\ Move(c, "posted", "dropped")

\* All of it, or nothing.
Forget ==
  /\ Forgetful
  /\ phase = "starting"
  /\ status' = [c \in Commands |->
                  IF status[c] \in {"delivered", "dropped"} THEN "posted" ELSE status[c]]
  /\ UNCHANGED phase

Serve ==
  /\ phase = "starting"
  /\ phase' = "serving"
  /\ UNCHANGED status

\* The process stops: what it held in memory is gone.
Restart ==
  /\ phase' = "starting"
  /\ status' = [c \in Commands |->
                  IF status[c] = "accepted" THEN "dropped" ELSE status[c]]

Next ==
  \/ \E c \in Commands :
       \/ Post(c)
       \/ Accept(c)
       \/ Deliver(c)
       \/ DropStale(c)
       \/ Reject(c)
  \/ Forget
  \/ Serve
  \/ Restart

Spec == Init /\ [][Next]_vars
=============================================================================

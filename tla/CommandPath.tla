----------------------------- MODULE CommandPath -----------------------------
(***************************************************************************)
(* The whole way of a command for one device: CommandApi, the context and  *)
(* the command thread of the external server, and CommandRelay, what the   *)
(* module gateway keeps for the device, joined by the connection between   *)
(* the two.  The connection is external and keeps the order; what is on it *)
(* survives a restart of the external server's process.                    *)
(*                                                                         *)
(* The device is an Opta whose answers are left to CommandRelay: here it   *)
(* matters which of several commands the gateway keeps in the end.         *)
(***************************************************************************)
EXTENDS CommandApi

CONSTANTS
  Payload,              \* the document every message carries
  ByteSize, WordSize,   \* widths of integers, see IoMessages
  Nobody                \* no message

VARIABLES
  wire,        \* commands pop_command handed over, on their way to the gateway
  known,       \* gateway: the device has sent its first status
  command,     \* gateway: the command kept for the device
  source,      \* history: the posted document it comes from
  effective,   \* history: the message it comes from, or Nobody
  drained      \* history: commands handed over since the vector was last empty

gatewayVars == <<known, command, source, effective>>
pathVars    == <<vars, wire, gatewayVars, drained>>

Gateway == INSTANCE CommandRelay WITH
  OutputsOf      <- [t \in {"opta", "mega", "uno", "button"} |-> 0],
  PostedCommands <- {Payload[m] : m \in Messages},
  type           <- "opta",
  given          <- [absent |-> TRUE],
  outputs        <- <<>>,
  refused        <- {}

\* Malformed is what DeviceCommand cannot read.
ASSUME PathAssumption ==
  /\ Nobody \notin Messages
  /\ \A m \in Messages : Payload[m] \in Gateway!Documents
  /\ Malformed = {m \in Messages : ~Gateway!CommandReadable(Payload[m])}

PathInit ==
  /\ Init
  /\ Gateway!Init
  /\ wire = <<>>
  /\ effective = Nobody
  /\ drained = {}

-----------------------------------------------------------------------------

\* pop_command's caller sends the command to the gateway.
HandOver ==
  /\ PopCommand
  /\ wire' = Append(wire, Back)
  /\ drained' = drained \cup {Back}
  /\ UNCHANGED gatewayVars

\* Any other step of the fleet API and the external server.  A new drain
\* begins, or the commands left of one die with the context.
OtherApiStep ==
  /\ \/ Tick
     \/ \E m \in Messages : Post(m) \/ HandleMessage(m)
     \/ InitContext
     \/ Destroy
     \/ Crash
     \/ WaitForCommand
     \/ GetCommandsThrows
     \/ GetCommandsReturns
     \/ GetCommandsFails
     \/ WaitReturns
     \/ PopFails
  /\ drained' = IF (vec = <<>>) # (vec' = <<>>) THEN {} ELSE drained
  /\ UNCHANGED <<wire, gatewayVars>>

\* The gateway replaces the command it keeps.
GatewayTakes ==
  /\ wire # <<>>
  /\ Gateway!CommandPosted(Payload[Head(wire)])
  /\ effective' = Head(wire)
  /\ wire' = Tail(wire)
  /\ UNCHANGED <<vars, drained>>

\* The gateway has no such device.
GatewayDrops ==
  /\ wire # <<>>
  /\ ~known
  /\ wire' = Tail(wire)
  /\ UNCHANGED <<vars, gatewayVars, drained>>

DeviceSeen ==
  /\ Gateway!FirstStatus
  /\ UNCHANGED <<vars, wire, effective, drained>>

DeviceLost ==
  /\ Gateway!DeviceGone
  /\ effective' = Nobody
  /\ UNCHANGED <<vars, wire, drained>>

PathNext ==
  \/ HandOver
  \/ OtherApiStep
  \/ GatewayTakes
  \/ GatewayDrops
  \/ DeviceSeen
  \/ DeviceLost

PathSpec == PathInit /\ [][PathNext]_pathVars

-----------------------------------------------------------------------------
(***************************************************************************)
(* Properties.                                                             *)
(***************************************************************************)

\* The commands a later poll can no longer share a drain with.
Outdated == IF vec = <<>> THEN delivered ELSE delivered \ drained

\* No command overrules a newer one that was handed over in an earlier drain:
\* whatever is queued was stamped after all of those, before a restart too.
\* (The exception is a context whose first reply was a failure unseen.)
StaleNeverOverrules == ~blind => \A m \in Queued, n \in Outdated : ts[n] < ts[m]

\* Within one drain it is the other way round: commands leave newest first, so
\* that once all have arrived the gateway keeps the oldest of them for the
\* device, and the newer ones are overruled.
OldestOfDrainStays ==
  SortedReplies /\ vec = <<>> /\ wire = <<>> /\ drained # {} /\ effective # Nobody =>
    effective \in drained /\ \A m \in drained : ts[effective] <= ts[m]
=============================================================================

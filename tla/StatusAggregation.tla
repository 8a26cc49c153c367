------------------------- MODULE StatusAggregation -------------------------
(***************************************************************************)
(* The module-gateway half of the IO module: source/module_manager.cpp and *)
(* the four device managers under source/bringauto/modules/devices.        *)
(*                                                                         *)
(* The library only has functions from buffers to buffers; the state is    *)
(* kept by the module gateway, which is external.  It keeps, for a device, *)
(* the current status and, while the external server is out of reach, the  *)
(* error message, and it calls the library:                                *)
(*   - status_data_valid on every status a device sends;                   *)
(*   - send_status_condition and aggregate_status to decide whether the    *)
(*     status is passed on, and to replace the current one;                *)
(*   - aggregate_error on every status it should pass on but cannot.       *)
(* When the external server is back it gets the current status and the     *)
(* error message, which starts afresh.                                     *)
(*                                                                         *)
(* One device is modelled, of any of the four types: for any other number  *)
(* every function returns NOT_OK, so that no status of it is ever valid.   *)
(* How many inputs and outputs a type has are parameters.                  *)
(***************************************************************************)
EXTENDS IoMessages

CONSTANTS
  None,         \* no status, or no error message: a buffer with data = nullptr
  InputsOf,     \* number of inputs of every device type
  OutputsOf,    \* number of outputs of every device type
  Documents,    \* what devices of each type may send, a set for every type
  MaxStatuses   \* bound on the number of statuses received

DeviceTypes == {"opta", "mega", "uno", "button"}

ASSUME AggregationAssumption ==
  /\ None \notin Int
  /\ InputsOf \in [DeviceTypes -> 0 .. ByteSize - 1]
  /\ OutputsOf \in [DeviceTypes -> 0 .. ByteSize - 1]
  /\ OutputsOf["button"] = 0
  /\ MaxStatuses \in Nat

\* What is looked up in a readable document has the type the code asks for.
ASSUME DocumentsAssumption ==
  \A t \in DeviceTypes : \A doc \in Documents[t] :
    Readable(doc, InputsOf[t], OutputsOf[t]) =>
      Decode(doc, InputsOf[t], OutputsOf[t]) \in Statuses(InputsOf[t], OutputsOf[t])

VARIABLES
  type,       \* the device's type
  current,    \* gateway: the device's current status, a document or None
  error,      \* gateway: the number in the device's error message, or None
  online,     \* gateway: the external server is connected
  app,        \* the status the external server got last, or None
  received,   \* statuses received from the device
  lastRead,   \* history: the last valid status that replaced the current one,
              \*          as it was read on arrival, or None
  pressed,    \* history: button presses in all valid statuses received
  handed,     \* history: button presses in statuses passed on
  missed,     \* history: presses in statuses that could not be passed on
              \*          since the connection was lost
  noted,      \* history: the same for earlier losses of the connection
  lost,       \* history: presses in statuses aggregate_status had no memory for
  short       \* history: memory ran out since the connection was lost

vars == <<type, current, error, online, app, received, lastRead, pressed,
          handed, missed, noted, lost, short>>

Read(doc) == Decode(doc, InputsOf[type], OutputsOf[type])

status_data_valid(doc) == Readable(doc, InputsOf[type], OutputsOf[type])

TypeOK ==
  /\ type \in DeviceTypes
  /\ current = None \/ status_data_valid(current)
  /\ error = None \/ (2 * error < WordSize /\ -2 * error <= WordSize)
  /\ online \in BOOLEAN
  /\ app = None \/ status_data_valid(app)
  /\ received \in 0 .. MaxStatuses
  /\ lastRead = None \/ lastRead \in Statuses(InputsOf[type], OutputsOf[type])
  /\ {pressed, handed, missed, noted, lost} \subseteq Nat
  /\ short \in BOOLEAN

Init ==
  /\ type \in DeviceTypes
  /\ current = None
  /\ error = None
  /\ online \in BOOLEAN
  /\ app = None
  /\ received = 0
  /\ lastRead = None
  /\ pressed = 0
  /\ handed = 0
  /\ missed = 0
  /\ noted = 0
  /\ lost = 0
  /\ short = FALSE

-----------------------------------------------------------------------------
(***************************************************************************)
(* send_status_condition, for the decoded current status c and new one n.  *)
(***************************************************************************)

\* Mutant: an output error alone is not seen.
OutputStatesDiffer(c, n) == \E i \in DOMAIN c.outputs : c.outputs[i].st # n.outputs[i].st

OutputsDiffer(c, n) == \E i \in DOMAIN c.outputs : c.outputs[i] # n.outputs[i]

InputsDiffer(c, n) == \E i \in DOMAIN c.inputs : c.inputs[i] # n.inputs[i]

\* Mutant: a status with the same number of presses as the last one is no news.
PressesDiffer(c, n) == c.presses # n.presses

PressesMatter(c, n) == n.presses > 0 \/ (c.presses > 0 /\ n.presses = 0)

arduino_opta_condition(c, n) == OutputsDiffer(c, n) \/ PressesMatter(c, n) \/ InputsDiffer(c, n)

arduino_mega_condition(c, n) == OutputsDiffer(c, n) \/ InputsDiffer(c, n)

arduino_uno_condition(c, n) == OutputsDiffer(c, n) \/ InputsDiffer(c, n)

button_condition(c, n) == InputsDiffer(c, n)

send_status_condition(doc) ==
  LET c == Read(current)
      n == Read(doc)
  IN  CASE type = "opta"   -> arduino_opta_condition(c, n)
        [] type = "mega"   -> arduino_mega_condition(c, n)
        [] type = "uno"    -> arduino_uno_condition(c, n)
        [] type = "button" -> button_condition(c, n)

\* What every device's aggregate_status makes of the new status.
aggregate_status(doc) == Encode(Read(doc), InputsOf[type], OutputsOf[type])

-----------------------------------------------------------------------------
(***************************************************************************)
(* aggregate_error.                                                        *)
(***************************************************************************)

\* deserialize_error: its callers take a count that reads back negative for
\* the -1 of a message that cannot be read.
ErrorReads == error # None => error >= 0

\* It returns OK.
ErrorAggregates(doc) == type = "button" \/ (status_data_valid(doc) /\ ErrorReads)

\* Mutant: the new presses replace the old ones.
LatestError(doc) == AsInt(Read(doc).presses)

\* Mutant: the sum is kept in a wider integer.
WideError(doc) == (IF error = None THEN 0 ELSE error) + Read(doc).presses

\* All Arduinos: the sum is computed in uint32_t and passed on as an int.
arduino_aggregate_error(doc) ==
  AsInt((IF error = None THEN 0 ELSE error) + Read(doc).presses)

button_aggregate_error == 0

aggregate_error(doc) ==
  IF type = "button" THEN button_aggregate_error ELSE arduino_aggregate_error(doc)

-----------------------------------------------------------------------------
(***************************************************************************)
(* The module gateway.                                                     *)
(***************************************************************************)

\* A status goes on to the external server, or into the error message.  In
\* the second case memory may run out; the old error message stays then.
PassOn(doc) ==
  \/ /\ online
     /\ app' = doc
     /\ handed' = handed + Read(doc).presses
     /\ UNCHANGED <<error, missed, short>>
  \/ /\ ~online
     /\ missed' = missed + Read(doc).presses
     /\ \/ /\ ErrorAggregates(doc)
           /\ error' = aggregate_error(doc)
           /\ UNCHANGED short
        \/ ~ErrorAggregates(doc) /\ UNCHANGED <<error, short>>
        \/ short' = TRUE /\ UNCHANGED error
     /\ UNCHANGED <<app, handed>>

Receive(doc) ==
  /\ received < MaxStatuses
  /\ received' = received + 1
  /\ UNCHANGED <<type, online, noted>>

\* status_data_valid returned NOT_OK: the status is dropped.
Reject(doc) ==
  /\ Receive(doc)
  /\ ~status_data_valid(doc)
  /\ UNCHANGED <<current, error, app, lastRead, pressed, handed, missed, lost, short>>

Accepted(doc) ==
  /\ Receive(doc)
  /\ status_data_valid(doc)
  /\ lastRead' = Read(doc)
  /\ pressed' = pressed + Read(doc).presses

\* The first status of the device is kept as it came, and passed on.
FirstStatus(doc) ==
  /\ current = None
  /\ Accepted(doc)
  /\ current' = doc
  /\ PassOn(doc)
  /\ UNCHANGED lost

\* send_status_condition returned OK.
PassedStatus(doc) ==
  /\ current # None
  /\ Accepted(doc)
  /\ send_status_condition(doc)
  /\ current' = aggregate_status(doc)
  /\ PassOn(aggregate_status(doc))
  /\ UNCHANGED lost

\* send_status_condition returned CONDITION_NOT_MET.
KeptStatus(doc) ==
  /\ current # None
  /\ Accepted(doc)
  /\ ~send_status_condition(doc)
  /\ current' = aggregate_status(doc)
  /\ UNCHANGED <<error, app, handed, missed, lost, short>>

\* aggregate_status ran out of memory and returned NOT_OK: there is nothing to
\* replace the current status by, and the new one is lost with its presses.
AggregationFails(doc) ==
  /\ current # None
  /\ Receive(doc)
  /\ status_data_valid(doc)
  /\ pressed' = pressed + Read(doc).presses
  /\ lost' = lost + Read(doc).presses
  /\ UNCHANGED <<current, error, app, lastRead, handed, missed, short>>

Disconnect ==
  /\ online
  /\ online' = FALSE
  /\ UNCHANGED <<type, current, error, app, received, lastRead, pressed, handed,
                 missed, noted, lost, short>>

\* The external server is back: it gets the current status and the error
\* message, and both start afresh.
Reconnect ==
  /\ ~online
  /\ online' = TRUE
  /\ app' = current
  /\ error' = None
  /\ missed' = 0
  /\ noted' = noted + missed
  /\ short' = FALSE
  /\ UNCHANGED <<type, current, received, lastRead, pressed, handed, lost>>

HandleStatus(doc) ==
  \/ Reject(doc)
  \/ FirstStatus(doc)
  \/ PassedStatus(doc)
  \/ KeptStatus(doc)
  \/ AggregationFails(doc)

Next ==
  \/ \E doc \in Documents[type] : HandleStatus(doc)
  \/ Disconnect
  \/ Reconnect

Spec == Init /\ [][Next]_vars

-----------------------------------------------------------------------------
(***************************************************************************)
(* Properties.                                                             *)
(***************************************************************************)

\* Aggregation loses nothing of a status: what the gateway holds reads as the
\* valid status it was made from, so comparing with it is comparing with that
\* status.  That is the last one aggregate_status had the memory to write.
CurrentIsLast == current # None => Read(current) = lastRead

\* While connected, the external server's last status reads like the gateway's
\* current one: a status that send_status_condition held back differs in
\* nothing the conditions are about.  Presses are reported by the Opta only;
\* the documentation says the other devices' count is always 0.
AppSeesCurrent ==
  online /\ current # None =>
    /\ Read(app).inputs = Read(current).inputs
    /\ Read(app).outputs = Read(current).outputs
    /\ type = "opta" => Read(app).presses = Read(current).presses

\* Every press of the Opta's button in a valid status was passed on or given to
\* aggregate_error, unless aggregate_status ran out of memory for that very
\* status: none is in a status that was held back.
NoPressHeldBack == type = "opta" => pressed = handed + missed + noted + lost

\* The error message of an Arduino counts the presses the external server has
\* missed exactly as long as they fit an int.  Beyond that it shows their
\* number as narrowed to an int, until this is negative for once: then it
\* stays what it was at that moment, however many more are missed.
ErrorCountsMissed ==
  type # "button" /\ ~short =>
    LET count == IF error = None THEN 0 ELSE error
    IN  /\ 2 * missed < WordSize => count = missed
        /\ IF count >= 0 THEN count = AsInt(missed)
                         ELSE \E then \in 0 .. missed : count = AsInt(then)

\* What src/README.md says of status errors: they are not defined for this
\* module, so that the gateway never holds an error message of a device.
NoErrorMessage == error = None
=============================================================================

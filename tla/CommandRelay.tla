---------------------------- MODULE CommandRelay ----------------------------
(***************************************************************************)
(* The way of a command from whoever writes it to the device.  The         *)
(* external server gets commands from the fleet HTTP API and reads them    *)
(* (wait_for_command), writes them again (pop_command) and sends them to   *)
(* the module gateway; server.py sends its own to the gateway as they are. *)
(* The gateway, which is external, keeps one command for a device: it      *)
(* starts with generate_first_command, is replaced by every command that   *)
(* command_data_valid accepts, and generate_command makes the answer to    *)
(* each of the device's statuses from it.                                  *)
(*                                                                         *)
(* One device is modelled.  When commands are fetched and popped is the    *)
(* subject of CommandApi; here the documents matter.                       *)
(***************************************************************************)
EXTENDS IoCommands, FiniteSets

CONSTANTS
  OutputsOf,        \* number of outputs of every device type
  PostedCommands    \* documents posted to the fleet HTTP API

DeviceTypes == {"opta", "mega", "uno", "button"}

RawActions == [ok : BOOLEAN, outNum : Int, actType : Int]

Documents == [json : BOOLEAN, actions : Seq(RawActions)]

\* No command.
None == [absent |-> TRUE]

\* server.py's example has the keys outputNumber and actionType.
default_json_command ==
  LET action == [ok |-> FALSE, outNum |-> 0, actType |-> 0]
  IN  [json |-> TRUE, actions |-> <<action, action>>]

empty_json_command == [json |-> TRUE, actions |-> <<>>]

ServerCommands == {default_json_command, empty_json_command}

ASSUME RelayAssumption ==
  /\ \A doc \in PostedCommands : doc \in Documents
  /\ OutputsOf \in [DeviceTypes -> Nat]
  /\ TOGGLE < WordSize

VARIABLES
  type,       \* the device's type
  known,      \* gateway: the device has sent its first status
  command,    \* gateway: the command kept for the device
  given,      \* the command the device got last, or None
  outputs,    \* states of the device's outputs
  source,     \* history: the posted document the command comes from, or None
  refused     \* history: documents command_data_valid has refused

vars == <<type, known, command, given, outputs, source, refused>>

OutputStates == [1 .. OutputsOf[type] -> BOOLEAN]

TypeOK ==
  /\ type \in DeviceTypes
  /\ outputs \in OutputStates
  /\ known \in BOOLEAN
  /\ IF known THEN command \in Documents ELSE command = None
  /\ given \in Documents \/ given = None
  /\ source \in PostedCommands \cup {None}
  /\ refused \subseteq ServerCommands

Init ==
  /\ type \in DeviceTypes
  /\ known = FALSE
  /\ command = None
  /\ given = None
  /\ outputs \in OutputStates
  /\ source = None
  /\ refused = {}

-----------------------------------------------------------------------------
(***************************************************************************)
(* The module gateway's half of the library.                               *)
(***************************************************************************)

\* The outputs as OutputIndexes numbers them, from 0.
OutputIndexes == [OUTPUT_1 |-> 0, OUTPUT_2 |-> 1, OUTPUT_3 |-> 2, OUTPUT_4 |-> 3]

SetOff(output) == [outNum |-> output, actType |-> SET_OFF]

arduino_opta_generate_first_command ==
  EncodeCommand(<<SetOff(OutputIndexes.OUTPUT_1), SetOff(OutputIndexes.OUTPUT_2),
                  SetOff(OutputIndexes.OUTPUT_3), SetOff(OutputIndexes.OUTPUT_4)>>)

\* for (i = OUTPUT_1; i <= OUTPUT_4; i++)
AllOff == [k \in 1 .. OutputIndexes.OUTPUT_4 + 1 |-> SetOff(OutputIndexes.OUTPUT_1 + k - 1)]

arduino_mega_generate_first_command == EncodeCommand(AllOff)

arduino_uno_generate_first_command == EncodeCommand(AllOff)

\* Mutant: nothing is written for a device without outputs.
NothingWritten == None

button_generate_first_command == EncodeCommand(<<>>)

\* Every Arduino gets a command for four outputs, whatever it has.
generate_first_command ==
  CASE type = "opta"   -> arduino_opta_generate_first_command
    [] type = "mega"   -> arduino_mega_generate_first_command
    [] type = "uno"    -> arduino_uno_generate_first_command
    [] type = "button" -> button_generate_first_command

\* Mutant: any document will do.
AnyDocumentValid(doc) == doc.json

command_data_valid(doc) == CommandReadable(doc)

generate_command(doc) == doc

-----------------------------------------------------------------------------
(***************************************************************************)
(* The device's half, which is external: it executes the actions of a      *)
(* command in their order and ignores outputs and types it does not have.  *)
(* An output ends as the last SET_ON or SET_OFF left it, or as it was,     *)
(* negated by every TOGGLE since.                                          *)
(***************************************************************************)
ActionsOn(list, output, types) ==
  {k \in 1 .. Len(list) : list[k].outNum = output /\ list[k].actType \in types}

Executed(list) ==
  [o \in DOMAIN outputs |->
     LET sets    == ActionsOn(list, o, {SET_ON, SET_OFF})
         toggles == {k \in ActionsOn(list, o, {TOGGLE}) : sets = {} \/ LatestOf(sets) < k}
         set     == IF sets = {} THEN outputs[o] ELSE list[LatestOf(sets)].actType = SET_ON
     IN  set # (Cardinality(toggles) % 2 = 1)]

-----------------------------------------------------------------------------
(***************************************************************************)
(* Steps.  Every function may run out of memory and return NOT_OK; the     *)
(* gateway then goes on with what it had.                                  *)
(***************************************************************************)

FirstStatus ==
  /\ ~known
  /\ known' = TRUE
  /\ command' = generate_first_command
  /\ source' = None
  /\ UNCHANGED <<type, given, outputs, refused>>

FirstCommandFails ==
  /\ ~known
  /\ UNCHANGED vars

\* A status is answered with a copy of the command the gateway keeps, which
\* the device executes, every time again.
AnswerStatus ==
  /\ known
  /\ given' = generate_command(command)
  /\ outputs' = Executed(DecodeCommand(given'))
  /\ UNCHANGED <<type, known, command, source, refused>>

AnswerFails ==
  /\ known
  /\ UNCHANGED vars

\* What pop_command writes for the document doc that wait_for_command read.
Popped(doc) == EncodeCommand(DecodeCommand(doc))

\* wait_for_command reads a posted document, pop_command writes it again, and
\* the gateway asks command_data_valid.
CommandPosted(doc) ==
  /\ known
  /\ CommandReadable(doc)
  /\ command_data_valid(Popped(doc))
  /\ command' = Popped(doc)
  /\ source' = doc
  /\ UNCHANGED <<type, known, given, outputs, refused>>

\* server.py sends a document of its own.
CommandSent(doc) ==
  /\ known
  /\ IF command_data_valid(doc)
       THEN command' = doc /\ source' = None /\ UNCHANGED refused
       ELSE refused' = refused \cup {doc} /\ UNCHANGED <<command, source>>
  /\ UNCHANGED <<type, known, given, outputs>>

\* The device disconnects; the gateway forgets its command.  Its outputs are
\* whatever it makes of them until it is back.
DeviceGone ==
  /\ known
  /\ known' = FALSE
  /\ command' = None
  /\ given' = None
  /\ outputs' \in OutputStates
  /\ source' = None
  /\ UNCHANGED <<type, refused>>

Next ==
  \/ FirstStatus
  \/ FirstCommandFails
  \/ AnswerStatus
  \/ AnswerFails
  \/ \E doc \in PostedCommands : CommandPosted(doc)
  \/ \E doc \in ServerCommands : CommandSent(doc)
  \/ DeviceGone

Spec == Init /\ [][Next]_vars

-----------------------------------------------------------------------------
(***************************************************************************)
(* Properties.                                                             *)
(***************************************************************************)

\* A device gets no command that DeviceCommand cannot read to its end, from
\* whichever side and by whichever path it came.
GivenIsReadable ==
  /\ command # None => CommandReadable(command)
  /\ given # None => CommandReadable(given)

\* What the gateway keeps of a posted command reads as the same actions, in the
\* same order, as the document that was posted; and the numbers are the posted
\* ones if they fit an output number.
PostedActionsKept ==
  source # None =>
    /\ DecodeCommand(command) = DecodeCommand(source)
    /\ (\A k \in 1 .. Len(source.actions) : source.actions[k].outNum \in 0 .. ByteSize - 1) =>
         \A k \in 1 .. Len(source.actions) :
           command.actions[k].outNum = source.actions[k].outNum

\* Every number and every type of the document is one the code can keep.
Fits(doc) ==
  \A k \in 1 .. Len(doc.actions) : /\ doc.actions[k].outNum \in 0 .. ByteSize - 1
                                   /\ doc.actions[k].actType \in ActionTypes

\* A device that got a posted command has its outputs as the document asks: an
\* output whose last action in it is SET_ON or SET_OFF is on or off, however
\* often the command was repeated with a status since and whatever the device
\* did before.  (An output whose last action is TOGGLE is not settled: it is
\* negated anew with each status unless a SET goes before.)
OutputsAsPosted ==
  given # None /\ given = command /\ source # None /\ Fits(source) =>
    \A k \in 1 .. Len(source.actions) :
      LET action == source.actions[k]
      IN  /\ action.outNum \in DOMAIN outputs
          /\ action.actType # TOGGLE
          /\ \A l \in k + 1 .. Len(source.actions) : source.actions[l].outNum # action.outNum
          => outputs[action.outNum] = (action.actType = SET_ON)

\* README.md:66 says that an action's type is SET_ON, SET_OFF or TOGGLE.
KnownActionsOnly ==
  given # None => \A k \in 1 .. Len(given.actions) : given.actions[k].actType \in ActionTypes

\* README.md:65 says that an action's number is that of the output it affects,
\* and outputs are numbered from 1.
FirstCommandNamesOutputs ==
  command = generate_first_command =>
    \A k \in 1 .. Len(command.actions) : command.actions[k].outNum \in 1 .. OutputsOf[type]

\* README.md:96 says that server.py's example command is meant for an Opta.
ExampleCommandTaken == type = "opta" => refused = {}
=============================================================================

----------------------------- MODULE IoCommands -----------------------------
(***************************************************************************)
(* The command documents of the IO module and what                         *)
(* source/bringauto/io_module_utils/DeviceCommand.cpp makes of them.       *)
(*                                                                         *)
(* A document is a record [json, actions]: json tells whether json::parse  *)
(* takes it, and actions is a sequence of [ok, outNum, actType], where ok  *)
(* is FALSE if a key is missing or holds no number, or if the document is  *)
(* no array.  An empty object, null and an empty array all read as a       *)
(* command without actions.                                                *)
(***************************************************************************)
EXTENDS IoMessages

SET_OFF == 0
SET_ON == 1
TOGGLE == 2

ActionTypes == {SET_OFF, SET_ON, TOGGLE}

\* deserializeFromBuffer returns OK.
CommandReadable(doc) == doc.json /\ \A k \in 1 .. Len(doc.actions) : doc.actions[k].ok

\* The output actions of the object deserializeFromBuffer fills.
DecodeCommand(doc) ==
  [k \in 1 .. Len(doc.actions) |-> [outNum  |-> AsByte(doc.actions[k].outNum),
                                   actType |-> AsWord(doc.actions[k].actType)]]

\* Mutant: actions are added at the front of the list.
EncodeReversed(list) ==
  [json    |-> TRUE,
   actions |-> [k \in 1 .. Len(list) |->
                  [ok      |-> TRUE,
                   outNum  |-> list[Len(list) + 1 - k].outNum,
                   actType |-> list[Len(list) + 1 - k].actType]]]

\* The document serializeToBuffer writes.
EncodeCommand(list) ==
  [json    |-> TRUE,
   actions |-> [k \in 1 .. Len(list) |->
                  [ok |-> TRUE, outNum |-> list[k].outNum, actType |-> list[k].actType]]]
=============================================================================

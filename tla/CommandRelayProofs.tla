------------------------- MODULE CommandRelayProofs -------------------------
(***************************************************************************)
(* Proofs about CommandRelay, for any posted commands, any devices and any *)
(* width of the integers.                                                  *)
(***************************************************************************)
EXTENDS CommandRelay, SequenceTheorems, FiniteSetTheorems, TLAPS

-----------------------------------------------------------------------------
(***************************************************************************)
(* Integers of a fixed width, and commands that are written and read.      *)
(***************************************************************************)

\* A number that fits is stored as it is.
LEMMA SmallMod ==
  ASSUME NEW n \in Nat \ {0}, NEW x \in 0 .. n - 1
  PROVE  x % n = x
  BY SMT

\* What was narrowed once fits.
LEMMA NarrowTwice ==
  ASSUME NEW x \in Int
  PROVE  /\ AsByte(x) \in 0 .. ByteSize - 1
         /\ AsWord(x) \in 0 .. WordSize - 1
         /\ AsByte(AsByte(x)) = AsByte(x)
         /\ AsWord(AsWord(x)) = AsWord(x)
         /\ x \in 0 .. ByteSize - 1 => AsByte(x) = x
<1>1. ByteSize \in Nat \ {0} /\ WordSize \in Nat \ {0}
  BY WidthAssumption
<1>2. x % ByteSize \in 0 .. ByteSize - 1 /\ x % WordSize \in 0 .. WordSize - 1
  BY <1>1
<1>3. (x % ByteSize) % ByteSize = x % ByteSize /\ (x % WordSize) % WordSize = x % WordSize
  BY <1>1, <1>2, SmallMod
<1>4. x \in 0 .. ByteSize - 1 => x % ByteSize = x
  BY <1>1, SmallMod
<1> QED
  BY <1>2, <1>3, <1>4 DEF AsByte, AsWord

\* A command that is written can be read; and writing what was read of a
\* document does not change what it says, nor its numbers if they fit.
LEMMA CommandRoundTrip ==
  ASSUME NEW doc,
         Len(doc.actions) \in Nat,
         \A k \in 1 .. Len(doc.actions) :
           doc.actions[k].outNum \in Int /\ doc.actions[k].actType \in Int,
         NEW copy, copy = EncodeCommand(DecodeCommand(doc))
  PROVE  /\ CommandReadable(copy)
         /\ DecodeCommand(copy) = DecodeCommand(doc)
         /\ \A k \in 1 .. Len(doc.actions) :
              doc.actions[k].outNum \in 0 .. ByteSize - 1 =>
                copy.actions[k].outNum = doc.actions[k].outNum
<1> DEFINE n == Len(doc.actions)
           list == DecodeCommand(doc)
           byte(k) == AsByte(doc.actions[k].outNum)
           word(k) == AsWord(doc.actions[k].actType)
<1>1. list = [k \in 1 .. n |-> [outNum |-> byte(k), actType |-> word(k)]]
  BY DEF DecodeCommand
<1>2. n \in Nat
  OBVIOUS
<1>3. \A k \in 1 .. n : AsByte(byte(k)) = byte(k) /\ AsWord(word(k)) = word(k)
  BY NarrowTwice
<1>4. \A k \in 1 .. n : doc.actions[k].outNum \in 0 .. ByteSize - 1 => byte(k) = doc.actions[k].outNum
  BY NarrowTwice
<1> HIDE DEF n, byte, word
<1>5. Len(list) = n
  BY <1>1, <1>2
<1>6. copy.json = TRUE
      /\ copy.actions = [k \in 1 .. Len(list) |->
           [ok |-> TRUE, outNum |-> list[k].outNum, actType |-> list[k].actType]]
  BY DEF EncodeCommand
<1> HIDE DEF list
<1>7. copy.actions = [k \in 1 .. n |-> [ok |-> TRUE, outNum |-> byte(k), actType |-> word(k)]]
  BY <1>1, <1>5, <1>6
<1>8. Len(copy.actions) = n
  BY <1>2, <1>7
<1>9. \A k \in 1 .. n : /\ copy.actions[k].ok = TRUE
                        /\ copy.actions[k].outNum = byte(k)
                        /\ copy.actions[k].actType = word(k)
  BY <1>7
<1>10. CommandReadable(copy)
  BY <1>6, <1>8, <1>9 DEF CommandReadable
<1>11. DecodeCommand(copy) = list
  <2>1. DecodeCommand(copy) = [k \in 1 .. n |-> [outNum  |-> AsByte(byte(k)), actType |-> AsWord(word(k))]]
    BY <1>8, <1>9 DEF DecodeCommand
  <2> QED
    BY <1>1, <1>3, <2>1
<1> QED
  BY <1>4, <1>9, <1>10, <1>11 DEF n, list

-----------------------------------------------------------------------------

\* The outputs are as the list asks, where it asks for a state.
AsAsked(list, outs) ==
  \A k \in 1 .. Len(list) :
    /\ list[k].outNum \in DOMAIN outs
    /\ list[k].actType \in {SET_ON, SET_OFF}
    /\ \A l \in k + 1 .. Len(list) : list[l].outNum # list[k].outNum
    => outs[list[k].outNum] = (list[k].actType = SET_ON)

OutputsAsGiven == given # None => AsAsked(DecodeCommand(given), outputs)

\* OutputsAsPosted is not inductive: a command that is posted once more after
\* another one may be the command the device got before that other one.
RelayInv == TypeOK /\ GivenIsReadable /\ PostedActionsKept /\ OutputsAsGiven

-----------------------------------------------------------------------------
(***************************************************************************)
(* Documents.                                                              *)
(***************************************************************************)

LEMMA DocumentFields ==
  ASSUME NEW doc \in Documents
  PROVE  /\ doc # None
         /\ Len(doc.actions) \in Nat
         /\ \A k \in 1 .. Len(doc.actions) :
              doc.actions[k].outNum \in Int /\ doc.actions[k].actType \in Int
<1> DEFINE s == doc.actions
<1>1. s \in Seq(RawActions)
  BY DEF Documents
<1>0. DOMAIN doc # DOMAIN None
  BY DEF Documents, None
<1> HIDE DEF s
<1>2. Len(s) \in Nat /\ \A k \in 1 .. Len(s) : s[k] \in RawActions
  BY <1>1, LenProperties, ElementOfSeq
<1> QED
  BY <1>0, <1>2 DEF s, RawActions

LEMMA MakeDocument ==
  ASSUME NEW actions \in Seq(RawActions)
  PROVE  [json |-> TRUE, actions |-> actions] \in Documents
<1> DEFINE AllActions == Seq(RawActions)
<1>1. actions \in AllActions
  OBVIOUS
<1> HIDE DEF AllActions
<1>2. [json |-> TRUE, actions |-> actions] \in [json : BOOLEAN, actions : AllActions]
  BY <1>1
<1> QED
  BY <1>2 DEF Documents, AllActions

\* What is written for a list of numbers is a document that can be read.
LEMMA EncodedIsReadable ==
  ASSUME NEW n \in Nat, NEW list, list = [k \in 1 .. n |-> list[k]],
         \A k \in 1 .. n : list[k].outNum \in Int /\ list[k].actType \in Int
  PROVE  CommandReadable(EncodeCommand(list)) /\ EncodeCommand(list) \in Documents
<1> DEFINE actions == [k \in 1 .. n |-> [ok |-> TRUE, outNum |-> list[k].outNum, actType |-> list[k].actType]]
<1>1. Len(list) = n /\ Len(actions) = n
  OBVIOUS
<1>2. actions \in Seq(RawActions)
  <2>1. actions \in [1 .. n -> RawActions]
    BY DEF RawActions
  <2> HIDE DEF actions
  <2> QED
    BY <2>1, SeqDef
<1>3. EncodeCommand(list) = [json |-> TRUE, actions |-> actions]
  BY <1>1 DEF EncodeCommand
<1> HIDE DEF actions
<1>4. EncodeCommand(list) \in Documents
  BY <1>2, <1>3, MakeDocument
<1>5. CommandReadable(EncodeCommand(list))
  BY <1>1, <1>3 DEF CommandReadable, actions
<1> QED
  BY <1>4, <1>5

\* The same of the list that was read from a document.
LEMMA PoppedIsDocument ==
  ASSUME NEW doc \in Documents
  PROVE  Popped(doc) \in Documents
<1> DEFINE n == Len(doc.actions)
           list == DecodeCommand(doc)
<1>1. n \in Nat /\ list = [k \in 1 .. n |-> list[k]]
  BY DocumentFields DEF DecodeCommand
<1>2. \A k \in 1 .. n : list[k].outNum \in Int /\ list[k].actType \in Int
  BY DocumentFields, WidthAssumption DEF DecodeCommand, AsByte, AsWord
<1> HIDE DEF n, list
<1>3. EncodeCommand(list) \in Documents
  BY <1>1, <1>2, EncodedIsReadable
<1> QED
  BY <1>3 DEF Popped, list

\* Every device's first command can be read.
LEMMA FirstIsReadable ==
  ASSUME TypeOK
  PROVE  CommandReadable(generate_first_command) /\ generate_first_command \in Documents
<1> USE DEF OutputIndexes, SetOff, SET_OFF
<1>1. CommandReadable(EncodeCommand(AllOff)) /\ EncodeCommand(AllOff) \in Documents
  <2>1. /\ AllOff = [k \in 1 .. 4 |-> AllOff[k]]
        /\ \A k \in 1 .. 4 : AllOff[k].outNum \in Int /\ AllOff[k].actType \in Int
    BY DEF AllOff
  <2> QED
    BY <2>1, EncodedIsReadable
<1>2. CommandReadable(arduino_opta_generate_first_command)
      /\ arduino_opta_generate_first_command \in Documents
  <2> DEFINE list == <<SetOff(0), SetOff(1), SetOff(2), SetOff(3)>>
  <2>1. /\ list = [k \in 1 .. 4 |-> list[k]]
        /\ \A k \in 1 .. 4 : list[k].outNum \in Int /\ list[k].actType \in Int
    OBVIOUS
  <2> HIDE DEF list
  <2>2. CommandReadable(EncodeCommand(list)) /\ EncodeCommand(list) \in Documents
    BY <2>1, EncodedIsReadable
  <2> QED
    BY <2>2 DEF arduino_opta_generate_first_command, list
<1>3. CommandReadable(EncodeCommand(<<>>)) /\ EncodeCommand(<<>>) \in Documents
  BY DEF CommandReadable, EncodeCommand, Documents
<1> QED
  BY <1>1, <1>2, <1>3 DEF TypeOK, DeviceTypes, generate_first_command, button_generate_first_command,
     arduino_mega_generate_first_command, arduino_uno_generate_first_command

LEMMA ServerCommandIsDocument == ASSUME NEW doc \in ServerCommands PROVE doc \in Documents
<1> DEFINE action == [ok |-> FALSE, outNum |-> 0, actType |-> 0]
<1>1. action \in RawActions
  BY DEF RawActions
<1> HIDE DEF action
<1>2. <<action, action>> \in Seq(RawActions) /\ <<>> \in Seq(RawActions)
  BY <1>1
<1>3. doc = [json |-> TRUE, actions |-> <<action, action>>] \/ doc = [json |-> TRUE, actions |-> <<>>]
  BY DEF ServerCommands, default_json_command, empty_json_command, action
<1> QED
  BY <1>2, <1>3, MakeDocument

-----------------------------------------------------------------------------
(***************************************************************************)
(* The device.                                                             *)
(***************************************************************************)

\* However the outputs were: once a command is executed they are as it asks.
LEMMA ExecutedAsAsked ==
  ASSUME TypeOK, NEW list, Len(list) \in Nat, outputs' = Executed(list)
  PROVE  AsAsked(list, outputs') /\ outputs' \in OutputStates
<1>1. outputs' \in OutputStates
  <2>1. outputs \in OutputStates
    BY DEF TypeOK
  <2>2. Executed(list) = [o \in DOMAIN outputs |-> Executed(list)[o]]
        /\ \A o \in DOMAIN outputs : Executed(list)[o] \in BOOLEAN
    BY DEF Executed
  <2> QED
    BY <2>1, <2>2 DEF OutputStates
<1>2. ASSUME NEW k \in 1 .. Len(list),
             list[k].outNum \in DOMAIN outputs,
             list[k].actType \in {SET_ON, SET_OFF},
             \A l \in k + 1 .. Len(list) : list[l].outNum # list[k].outNum
      PROVE  Executed(list)[list[k].outNum] = (list[k].actType = SET_ON)
  <2> DEFINE o == list[k].outNum
             sets == ActionsOn(list, o, {SET_ON, SET_OFF})
             flips == ActionsOn(list, o, {TOGGLE})
             toggles == {l \in flips : sets = {} \/ LatestOf(sets) < l}
  <2>1. k \in sets /\ \A l \in sets : l \in Int /\ l <= k
    BY <1>2 DEF ActionsOn
  <2>2. \A l \in flips : l \in Int /\ l <= k
    BY <1>2 DEF ActionsOn
  <2>3. LatestOf(sets) = k
    <3> HIDE DEF sets
    <3>1. \A l \in sets : (\A j \in sets : j <= l) => l = k
      BY <2>1
    <3> QED
      BY <2>1, <3>1 DEF LatestOf
  <2>4. toggles = {}
    <3> HIDE DEF sets, flips
    <3> QED
      BY <2>1, <2>2, <2>3
  <2>5. Cardinality(toggles) = 0
    BY <2>4, FS_EmptySet
  <2>6. Executed(list)[o] = ((list[LatestOf(sets)].actType = SET_ON) # (Cardinality(toggles) % 2 = 1))
    BY <1>2, <2>1 DEF Executed
  <2> HIDE DEF toggles, sets
  <2>7. ~(Cardinality(toggles) % 2 = 1)
    BY <2>5
  <2> QED
    BY <2>3, <2>6, <2>7
<1>3. DOMAIN outputs' = DOMAIN outputs
  BY DEF Executed
<1> QED
  BY <1>1, <1>2, <1>3 DEF AsAsked

-----------------------------------------------------------------------------

THEOREM RelayInvHolds == Spec => []RelayInv
<1>1. Init => RelayInv
  BY DEF Init, RelayInv, TypeOK, GivenIsReadable, PostedActionsKept, OutputsAsGiven
<1>2. ASSUME RelayInv, [Next]_vars PROVE RelayInv'
  <2> USE DEF RelayInv
  <2>1. CASE FirstStatus
    <3>1. CommandReadable(command') /\ command' \in Documents /\ source' = None
      BY <1>2, <2>1, FirstIsReadable DEF FirstStatus
    <3>2. TypeOK'
      BY <1>2, <2>1, <3>1 DEF FirstStatus, TypeOK, OutputStates
    <3>3. GivenIsReadable' /\ PostedActionsKept'
      BY <1>2, <2>1, <3>1 DEF FirstStatus, GivenIsReadable, PostedActionsKept
    <3>4. OutputsAsGiven'
      BY <1>2, <2>1 DEF FirstStatus, OutputsAsGiven
    <3> QED
      BY <3>2, <3>3, <3>4
  <2>2. CASE FirstCommandFails \/ AnswerFails \/ UNCHANGED vars
    <3>1. UNCHANGED vars
      BY <2>2 DEF FirstCommandFails, AnswerFails
    <3>2. TypeOK' /\ GivenIsReadable'
      BY <1>2, <3>1 DEF vars, TypeOK, OutputStates, GivenIsReadable
    <3>3. PostedActionsKept' /\ OutputsAsGiven'
      BY <1>2, <3>1 DEF vars, PostedActionsKept, OutputsAsGiven
    <3> QED
      BY <3>2, <3>3
  <2>3. CASE AnswerStatus
    <3>1. /\ given' = command /\ command \in Documents
          /\ Len(DecodeCommand(given')) \in Nat
          /\ outputs' = Executed(DecodeCommand(given'))
      <4>1. given' = command /\ command \in Documents /\ outputs' = Executed(DecodeCommand(given'))
        BY <1>2, <2>3 DEF AnswerStatus, generate_command, TypeOK
      <4>2. Len(command.actions) \in Nat
        BY <4>1, DocumentFields
      <4>3. Len(DecodeCommand(command)) = Len(command.actions)
        BY <4>2 DEF DecodeCommand
      <4> QED
        BY <4>1, <4>2, <4>3
    <3> DEFINE list == DecodeCommand(given')
    <3> HIDE DEF list
    <3>2. outputs' \in OutputStates /\ AsAsked(list, outputs')
      BY <1>2, <3>1, ExecutedAsAsked DEF list
    <3>3. TypeOK'
      BY <1>2, <2>3, <3>1, <3>2 DEF AnswerStatus, TypeOK, OutputStates
    <3>4. OutputsAsGiven'
      BY <3>2 DEF OutputsAsGiven, list
    <3>5. GivenIsReadable' /\ PostedActionsKept'
      BY <1>2, <2>3, <3>1 DEF AnswerStatus, GivenIsReadable, PostedActionsKept
    <3> QED
      BY <3>3, <3>4, <3>5
  <2>4. ASSUME NEW doc \in PostedCommands, CommandPosted(doc) PROVE RelayInv'
    <3>1. /\ command' = EncodeCommand(DecodeCommand(doc)) /\ source' = doc
          /\ CommandReadable(command')
          /\ UNCHANGED <<given, outputs, type>>
      BY <2>4 DEF CommandPosted, Popped, command_data_valid
    <3>2. doc \in Documents /\ command' \in Documents
      BY <3>1, RelayAssumption, PoppedIsDocument DEF Popped
    <3>3. /\ doc # None
          /\ DecodeCommand(command') = DecodeCommand(doc)
          /\ \A k \in 1 .. Len(doc.actions) :
               doc.actions[k].outNum \in 0 .. ByteSize - 1 =>
                 command'.actions[k].outNum = doc.actions[k].outNum
      BY <3>1, <3>2, DocumentFields, CommandRoundTrip
    <3>4. TypeOK'
      BY <1>2, <2>4, <3>1, <3>2 DEF CommandPosted, TypeOK, OutputStates
    <3>5. GivenIsReadable' /\ OutputsAsGiven'
      BY <1>2, <3>1 DEF GivenIsReadable, OutputsAsGiven, AsAsked
    <3>6. PostedActionsKept'
      BY <3>1, <3>3 DEF PostedActionsKept
    <3> QED
      BY <3>4, <3>5, <3>6
  <2>5. ASSUME NEW doc \in ServerCommands, CommandSent(doc) PROVE RelayInv'
    <3>1. TypeOK'
      BY <1>2, <2>5, ServerCommandIsDocument DEF CommandSent, TypeOK, OutputStates
    <3> QED
      BY <1>2, <2>5, <3>1 DEF CommandSent, command_data_valid, GivenIsReadable, PostedActionsKept,
         OutputsAsGiven, AsAsked
  <2>6. CASE DeviceGone
    BY <1>2, <2>6 DEF DeviceGone, TypeOK, OutputStates, GivenIsReadable, PostedActionsKept, OutputsAsGiven
  <2> QED
    BY <1>2, <2>1, <2>2, <2>3, <2>4, <2>5, <2>6 DEF Next
<1> QED
  BY <1>1, <1>2, PTL DEF Spec

THEOREM TypeCorrect == Spec => []TypeOK
<1>1. RelayInv => TypeOK
  BY DEF RelayInv
<1> QED
  BY RelayInvHolds, <1>1, PTL

\* A device only ever gets commands that DeviceCommand can read to the end.
THEOREM DeviceGetsReadable == Spec => []GivenIsReadable
<1>1. RelayInv => GivenIsReadable
  BY DEF RelayInv
<1> QED
  BY RelayInvHolds, <1>1, PTL

\* Reading a command in one library and writing it again in the other keeps
\* its actions, their order, and the numbers that fit.
THEOREM ActionsKept == Spec => []PostedActionsKept
<1>1. RelayInv => PostedActionsKept
  BY DEF RelayInv
<1> QED
  BY RelayInvHolds, <1>1, PTL

\* A list that was read from a document whose numbers fit says what the
\* document says.
LEMMA FittingIsDecoded ==
  ASSUME NEW doc, Fits(doc)
  PROVE  \A k \in 1 .. Len(doc.actions) :
           /\ DecodeCommand(doc)[k].outNum = doc.actions[k].outNum
           /\ DecodeCommand(doc)[k].actType = doc.actions[k].actType
<1>1. \A k \in 1 .. Len(doc.actions) :
        /\ AsByte(doc.actions[k].outNum) = doc.actions[k].outNum
        /\ AsWord(doc.actions[k].actType) = doc.actions[k].actType
  <2> SUFFICES ASSUME NEW k \in 1 .. Len(doc.actions)
               PROVE  /\ AsByte(doc.actions[k].outNum) = doc.actions[k].outNum
                      /\ AsWord(doc.actions[k].actType) = doc.actions[k].actType
    OBVIOUS
  <2>1. doc.actions[k].outNum \in 0 .. ByteSize - 1 /\ doc.actions[k].actType \in 0 .. WordSize - 1
    BY WidthAssumption, RelayAssumption DEF Fits, ActionTypes, SET_OFF, SET_ON, TOGGLE
  <2> QED
    BY <2>1, SmallMod, WidthAssumption DEF AsByte, AsWord
<1> QED
  BY <1>1 DEF DecodeCommand

\* However often a posted command is repeated with the device's statuses, its
\* outputs are as it asks.
THEOREM OutputsFollowCommand == Spec => []OutputsAsPosted
<1>1. ASSUME RelayInv PROVE OutputsAsPosted
  <2> SUFFICES ASSUME given # None, given = command, source # None, Fits(source),
                      NEW k \in 1 .. Len(source.actions),
                      source.actions[k].outNum \in DOMAIN outputs,
                      source.actions[k].actType # TOGGLE,
                      \A l \in k + 1 .. Len(source.actions) :
                        source.actions[l].outNum # source.actions[k].outNum
               PROVE  outputs[source.actions[k].outNum] = (source.actions[k].actType = SET_ON)
    BY DEF OutputsAsPosted
  <2> DEFINE list == DecodeCommand(source)
  <2>1. AsAsked(list, outputs)
    BY <1>1 DEF RelayInv, PostedActionsKept, OutputsAsGiven
  <2>2. Len(source.actions) \in Nat
    BY <1>1, RelayAssumption, DocumentFields DEF RelayInv, TypeOK
  <2>3. Len(list) = Len(source.actions)
    BY <2>2 DEF DecodeCommand
  <2>4. \A l \in 1 .. Len(list) : /\ list[l].outNum = source.actions[l].outNum
                                  /\ list[l].actType = source.actions[l].actType
    BY <1>1, <2>3, FittingIsDecoded
  <2>5. source.actions[k].actType \in {SET_ON, SET_OFF}
    BY DEF Fits, ActionTypes
  <2> HIDE DEF list
  <2>6. \A l \in k + 1 .. Len(list) : l \in 1 .. Len(list)
    BY <2>2, <2>3
  <2> QED
    BY <2>1, <2>3, <2>4, <2>5, <2>6 DEF AsAsked
<1> QED
  BY <1>1, RelayInvHolds, PTL
=============================================================================

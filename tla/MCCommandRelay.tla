------------------------- MODULE MCCommandRelay -------------------------
(***************************************************************************)
(* Small instances of CommandRelay.  A byte has 8 values and a word 16, so *)
(* that the numbers of all outputs fit and others wrap.                    *)
(***************************************************************************)
EXTENDS CommandRelay

MCOutputsOf == [t \in DeviceTypes |->
  CASE t = "button" -> 0 [] t = "uno" -> 7 [] OTHER -> 4]

Array(list) == [json |-> TRUE, actions |-> list]

Action(outNum, actType) == [ok |-> TRUE, outNum |-> outNum, actType |-> actType]

Broken == [ok |-> FALSE, outNum |-> 0, actType |-> 0]

\* The README's example, repeated and empty lists, numbers that wrap, an action
\* type that does not exist, and documents that cannot be read.
MCPostedCommands ==
  {Array(<<Action(1, SET_ON), Action(2, SET_ON), Action(3, TOGGLE)>>),
   Array(<<Action(2, TOGGLE), Action(2, SET_OFF)>>),
   Array(<<>>),
   Array(<<Action(9, SET_ON), Action(-1, SET_OFF)>>),
   Array(<<Action(4, 3), Action(4, 17)>>),
   Array(<<Action(1, SET_ON), Broken>>),
   [Array(<<>>) EXCEPT !.json = FALSE]}
=============================================================================

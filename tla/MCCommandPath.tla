---------------------------- MODULE MCCommandPath ----------------------------
(***************************************************************************)
(* A small instance of CommandPath: three commands with the same document, *)
(* which may change places, and one whose payload cannot be read.          *)
(***************************************************************************)
EXTENDS CommandPath, TLC

MCPayload ==
  [m \in Messages |->
     [json    |-> TRUE,
      actions |-> <<[ok |-> m \notin Malformed, outNum |-> 1, actType |-> 1]>>]]

Symmetry == Permutations(IOCommands \ Malformed)
=============================================================================

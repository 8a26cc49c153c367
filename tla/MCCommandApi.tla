---------------------------- MODULE MCCommandApi ----------------------------
(***************************************************************************)
(* Small instances of CommandApi for TLC.  The messages are model values,  *)
(* given in the cfg files: own1 and own2 are well-formed commands of the   *)
(* IO module, bad is a command of the module with a payload that does not  *)
(* parse, other is a message of another module.                            *)
(***************************************************************************)
EXTENDS CommandApi
=============================================================================

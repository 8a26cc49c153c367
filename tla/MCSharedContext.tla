-------------------------- MODULE MCSharedContext --------------------------
(***************************************************************************)
(* Small instances of SharedContext; threads are model values.             *)
(***************************************************************************)
EXTENDS SharedContext
=============================================================================

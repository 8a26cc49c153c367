----------------------------- MODULE MCPyServer -----------------------------
(***************************************************************************)
(* Small instances of PyServer: a gateway with two devices.                *)
(***************************************************************************)
EXTENDS PyServer

CONSTANTS lights, doors

MCDevice == {lights, doors}
=============================================================================

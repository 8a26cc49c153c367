---------------------------- MODULE MCDeviceApi ----------------------------
(***************************************************************************)
(* Small instances of DeviceApi: three devices, two of which differ in     *)
(* their priority only, and two in their name only, and two threads.       *)
(***************************************************************************)
EXTENDS DeviceApi, TLC

CONSTANTS b1, b2, b3, b4, b5, t1, t2

Device(name, priority) ==
  [module |-> 2, device_type |-> 1, priority |-> priority, device_role |-> "lights",
   device_name |-> name]

MCDevices == {Device("left", 0), Device("left", 1), Device("right", 1)}

MCBuffers == {b1, b2, b3, b4, b5}

MCThreads == {t1, t2}

Symmetry == Permutations(MCBuffers) \cup Permutations(MCThreads)
=============================================================================

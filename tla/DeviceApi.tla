----------------------------- MODULE DeviceApi -----------------------------
(***************************************************************************)
(* The device half of source/external_server_api.cpp: device_connected and *)
(* device_disconnected keep the context's vector of devices, whose role    *)
(* and name live in buffers of their own; forward_status and               *)
(* forward_error_message send what a device reports to the fleet HTTP API, *)
(* under the identification the API client was given last.  init and       *)
(* destroy are modelled as far as they touch this state.                   *)
(*                                                                         *)
(* Nothing here takes the context's mutex.  The vector is touched by one   *)
(* call at a time, as the external server has to see to; statuses may be   *)
(* forwarded by several of its threads at once.                            *)
(***************************************************************************)
EXTENDS Integers, FiniteSets, SequencesExt

CONSTANTS
  None,      \* no identification set, nothing sent
  Devices,   \* records [module, device_type, priority, device_role, device_name]
  Threads,   \* threads of the external server that forward statuses
  Buffers    \* the memory there is for roles and names

ASSUME DeviceAssumption ==
  \A d \in Devices :
    d = [module |-> d.module, device_type |-> d.device_type, priority |-> d.priority,
         device_role |-> d.device_role, device_name |-> d.device_name]

VARIABLES
  context,       \* "none" or "live"
  heap,          \* buffers allocated and not deallocated
  devices,       \* context->devices: sequence of [device, role, name]
  identified,    \* what setDeviceIdentification gave the API client, or None
  sending,       \* the device whose status a thread is sending, or None
  during,        \* history: devices whose forwards began since that one did
  sent,          \* the last status the fleet API took, or None: its device, the
                 \* identification it went under, and its during
  open,          \* history: connects minus disconnects of every device
  lost,          \* history: roles whose device_connected failed half way
  abandoned      \* history: buffers of devices still there at destroy()

apiVars == <<identified, sending, during, sent>>
vars    == <<context, heap, devices, apiVars, open, lost, abandoned>>

Owned(entry) == {entry.role, entry.name}

TypeOK ==
  /\ context \in {"none", "live"}
  /\ heap \subseteq Buffers
  /\ devices \in Seq([device : Devices, role : Buffers, name : Buffers])
  /\ sending \in [Threads -> Devices \cup {None}]
  /\ during \in [Threads -> SUBSET Devices]
  /\ open \in [Devices -> Nat]
  /\ lost \in Nat
  /\ abandoned \in Nat

Init ==
  /\ context = "none"
  /\ heap = {}
  /\ devices = <<>>
  /\ identified = None
  /\ sending = [t \in Threads |-> None]
  /\ during = [t \in Threads |-> {}]
  /\ sent = None
  /\ open = [d \in Devices |-> 0]
  /\ lost = 0
  /\ abandoned = 0

-----------------------------------------------------------------------------
(***************************************************************************)
(* The context.                                                            *)
(***************************************************************************)

\* All four functions return CONTEXT_INCORRECT when there is none.
ContextIncorrect ==
  /\ context = "none"
  /\ UNCHANGED vars

\* init() makes an empty context and a new API client.
InitContext ==
  /\ context = "none"
  /\ context' = "live"
  /\ devices' = <<>>
  /\ identified' = None
  /\ open' = [d \in Devices |-> 0]
  /\ UNCHANGED <<heap, sending, during, sent, lost, abandoned>>

\* destroy() deletes the context; the buffers of the devices in its vector are
\* plain pointers, so nothing deallocates them.  No call is under way then.
Destroy ==
  /\ context = "live"
  /\ \A t \in Threads : sending[t] = None
  /\ context' = "none"
  /\ devices' = <<>>
  /\ identified' = None
  /\ abandoned' = abandoned + 2 * Len(devices)
  /\ open' = [d \in Devices |-> 0]
  /\ UNCHANGED <<heap, sending, during, sent, lost>>

-----------------------------------------------------------------------------
(***************************************************************************)
(* device_connected and device_disconnected.                               *)
(***************************************************************************)

\* A device that is in the vector already is entered once more.
DeviceConnected(d) ==
  /\ context = "live"
  /\ \E role \in Buffers \ heap : \E name \in Buffers \ (heap \cup {role}) :
       /\ heap' = heap \cup {role, name}
       /\ devices' = Append(devices, [device |-> d, role |-> role, name |-> name])
  /\ open' = [open EXCEPT ![d] = @ + 1]
  /\ UNCHANGED <<context, apiVars, lost, abandoned>>

\* There is no memory for the role: NOT_OK, and nothing has changed.
ConnectWithoutRole(d) ==
  /\ context = "live"
  /\ UNCHANGED vars

\* There is memory for the role but not for the name: NOT_OK, and the role's
\* buffer stays behind.
ConnectWithoutName(d) ==
  /\ context = "live"
  /\ \E role \in Buffers \ heap : heap' = heap \cup {role}
  /\ lost' = lost + 1
  /\ UNCHANGED <<context, devices, apiVars, open, abandoned>>

\* Mutant: the priority is not compared.
SameButPriority(a, b) == [a EXCEPT !.priority = 0] = [b EXCEPT !.priority = 0]

SameDevice(a, b) ==
  /\ a.module = b.module
  /\ a.device_type = b.device_type
  /\ a.priority = b.priority
  /\ a.device_role = b.device_role
  /\ a.device_name = b.device_name

IsEntry(i, d) == SameDevice(devices[i].device, d)

\* The loop stops at the first entry of device d.
IsFirstEntry(i, d) == IsEntry(i, d) /\ \A j \in 1 .. i - 1 : ~IsEntry(j, d)

\* Mutant: the entry behind the one whose buffers are deallocated goes.
EraseNext(i) == RemoveAt(devices, IF i < Len(devices) THEN i + 1 ELSE i)

Erase(i) == RemoveAt(devices, i)

\* Mutant: only the role is deallocated.
DeallocateRole(i) == {devices[i].role}

Deallocated(i) == Owned(devices[i])

DeviceDisconnected(d) ==
  /\ context = "live"
  /\ \E i \in 1 .. Len(devices) :
       /\ IsFirstEntry(i, d)
       /\ heap' = heap \ Deallocated(i)
       /\ devices' = Erase(i)
  /\ open' = [open EXCEPT ![d] = @ - 1]
  /\ UNCHANGED <<context, apiVars, lost, abandoned>>

\* The device is not in the vector: NOT_OK.
DisconnectUnknown(d) ==
  /\ context = "live"
  /\ \A i \in 1 .. Len(devices) : ~IsEntry(i, d)
  /\ UNCHANGED vars

-----------------------------------------------------------------------------
(***************************************************************************)
(* forward_status and forward_error_message.  The device need not be       *)
(* connected; its priority is always given as 0.                           *)
(***************************************************************************)

\* Mutant: an identification that was set is not set again.
IdentifyOnce(d) ==
  IF identified # None THEN identified ELSE [d EXCEPT !.priority = 0]

DeviceIdentification(d) == [d EXCEPT !.priority = 0]

\* setDeviceIdentification, before the status goes out.
ForwardStatus(t, d) ==
  /\ context = "live"
  /\ sending[t] = None
  /\ identified' = DeviceIdentification(d)
  /\ sending' = [sending EXCEPT ![t] = d]
  /\ during' = [u \in Threads |-> IF u = t THEN {d}
                                  ELSE IF sending[u] # None THEN during[u] \cup {d}
                                  ELSE {}]
  /\ UNCHANGED <<context, heap, devices, sent, open, lost, abandoned>>

ForwardEnds(t) ==
  /\ sending[t] # None
  /\ sending' = [sending EXCEPT ![t] = None]
  /\ during' = [during EXCEPT ![t] = {}]
  /\ UNCHANGED <<context, heap, devices, identified, open, lost, abandoned>>

\* sendStatus returns: the API has the status, under the identification the
\* client had when the request went out.
StatusSent(t) ==
  /\ ForwardEnds(t)
  /\ sent' = [device |-> sending[t], under |-> identified, during |-> during[t]]

\* sendStatus throws: NOT_OK, and the identification stays set.
SendThrows(t) ==
  /\ ForwardEnds(t)
  /\ UNCHANGED sent

Next ==
  \/ InitContext
  \/ Destroy
  \/ ContextIncorrect
  \/ \E d \in Devices :
       \/ DeviceConnected(d)
       \/ ConnectWithoutRole(d)
       \/ ConnectWithoutName(d)
       \/ DeviceDisconnected(d)
       \/ DisconnectUnknown(d)
       \/ \E t \in Threads : ForwardStatus(t, d)
  \/ \E t \in Threads : StatusSent(t) \/ SendThrows(t)

Spec == Init /\ [][Next]_vars

-----------------------------------------------------------------------------
(***************************************************************************)
(* Properties.                                                             *)
(***************************************************************************)

\* Every entry of the vector has two live buffers, and shares none with another
\* entry: device_disconnected compares no freed name and frees nothing twice.
EntriesOwnTheirBuffers ==
  /\ \A i \in 1 .. Len(devices) :
       devices[i].role # devices[i].name /\ Owned(devices[i]) \subseteq heap
  /\ \A i, j \in 1 .. Len(devices) :
       i # j => Owned(devices[i]) \cap Owned(devices[j]) = {}

\* Memory is lost only where a connect fails half way and where the context is
\* destroyed with devices in it: everything else is in the vector.
LeaksAccounted ==
  Cardinality(heap) = 2 * Len(devices) + lost + abandoned

\* The vector holds a device as often as it connected more than it
\* disconnected, however much the devices have in common.
RegistryCountsCalls ==
  \A d \in Devices : Cardinality({i \in 1 .. Len(devices) : devices[i].device = d}) = open[d]

\* A status may reach the fleet API under the identification of another device,
\* but only of one whose forward began while its own was under way: it never
\* goes out under what an earlier call, or a failed one, has left behind, and
\* under its own device's where no two forwards overlap.
MixedUpOnlyByOverlap ==
  sent # None =>
    /\ sent.device \in sent.during
    /\ sent.under \in {[d EXCEPT !.priority = 0] : d \in sent.during}
=============================================================================

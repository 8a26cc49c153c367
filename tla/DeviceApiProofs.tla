-------------------------- MODULE DeviceApiProofs --------------------------
(***************************************************************************)
(* Proofs about DeviceApi, for any devices and any amount of memory: the   *)
(* ownership of buffers, the counts of entries and of lost buffers, and    *)
(* the identification statuses are sent under.                             *)
(***************************************************************************)
EXTENDS DeviceApi, SequenceTheorems, FiniteSetTheorems, TLAPS

\* The vector without entry i.
LEMMA RemoveAtProperties ==
  ASSUME NEW S, NEW s \in Seq(S), NEW i \in 1 .. Len(s)
  PROVE  /\ RemoveAt(s, i) \in Seq(S)
         /\ Len(RemoveAt(s, i)) = Len(s) - 1
         /\ \A j \in 1 .. Len(s) - 1 :
              RemoveAt(s, i)[j] = IF j < i THEN s[j] ELSE s[j + 1]
<1> DEFINE a == SubSeq(s, 1, i - 1)
           b == SubSeq(s, i + 1, Len(s))
<1>1. Len(s) \in Nat /\ i \in Nat /\ i >= 1 /\ i <= Len(s)
  BY LenProperties
<1>2. \A k \in 1 .. Len(s) : s[k] \in S
  BY ElementOfSeq
<1>3. /\ a \in Seq(S) /\ Len(a) = i - 1
      /\ \A j \in 1 .. i - 1 : a[j] = s[j]
  <2>1. \A k \in 1 .. i - 1 : s[k] \in S
    BY <1>1, <1>2
  <2> QED
    BY <1>1, <2>1, SubSeqProperties
<1>4. /\ b \in Seq(S) /\ Len(b) = Len(s) - i
      /\ \A j \in 1 .. Len(s) - i : b[j] = s[j + i]
  <2>1. \A k \in i + 1 .. Len(s) : s[k] \in S
    BY <1>1, <1>2
  <2> QED
    BY <1>1, <2>1, SubSeqProperties
<1>5. RemoveAt(s, i) = a \o b
  BY DEF RemoveAt
<1> HIDE DEF a, b
<1>6. /\ a \o b \in Seq(S) /\ Len(a \o b) = Len(a) + Len(b)
      /\ \A j \in 1 .. Len(a) + Len(b) :
           (a \o b)[j] = IF j <= Len(a) THEN a[j] ELSE b[j - Len(a)]
  BY <1>3, <1>4, ConcatProperties
<1>7. ASSUME NEW j \in 1 .. Len(s) - 1
      PROVE  (a \o b)[j] = IF j < i THEN s[j] ELSE s[j + 1]
  <2>1. CASE j < i
    BY <1>1, <1>3, <1>4, <1>6, <2>1
  <2>2. CASE ~(j < i)
    <3>1. j - (i - 1) \in 1 .. Len(s) - i /\ j - (i - 1) + i = j + 1
      BY <1>1, <2>2
    <3>2. (a \o b)[j] = b[j - (i - 1)]
      BY <1>1, <1>3, <1>4, <1>6, <2>2
    <3> QED
      BY <1>4, <2>2, <3>1, <3>2
  <2> QED
    BY <2>1, <2>2
<1> QED
  BY <1>1, <1>3, <1>4, <1>5, <1>6, <1>7

-----------------------------------------------------------------------------
(***************************************************************************)
(* Ownership of buffers.                                                   *)
(***************************************************************************)

Entries == [device : Devices, role : Buffers, name : Buffers]

OwnershipInv == devices \in Seq(Entries) /\ EntriesOwnTheirBuffers

LEMMA OwnershipInit == Init => OwnershipInv
<1> SUFFICES ASSUME Init PROVE OwnershipInv
  OBVIOUS
<1>1. devices = <<>> /\ Len(devices) = 0 /\ devices \in Seq(Entries)
  BY DEF Init
<1> QED
  BY <1>1 DEF OwnershipInv, EntriesOwnTheirBuffers

\* A new entry has buffers nobody had.
LEMMA ConnectOwnership ==
  ASSUME OwnershipInv, NEW d \in Devices, DeviceConnected(d)
  PROVE  OwnershipInv'
<1>1. PICK role \in Buffers, name \in Buffers :
        /\ role \notin heap /\ name \notin heap /\ name # role
        /\ heap' = heap \cup {role, name}
        /\ devices' = Append(devices, [device |-> d, role |-> role, name |-> name])
  BY DEF DeviceConnected
<1> DEFINE e == [device |-> d, role |-> role, name |-> name]
           n == Len(devices)
<1>2. e \in Entries /\ e.role = role /\ e.name = name
  BY DEF Entries
<1> HIDE DEF e
<1>3. devices \in Seq(Entries) /\ n \in Nat
  BY LenProperties DEF OwnershipInv
<1>4. /\ devices' \in Seq(Entries) /\ Len(devices') = n + 1
      /\ \A i \in 1 .. n : devices'[i] = devices[i]
      /\ devices'[n + 1] = e
  BY <1>1, <1>2, <1>3, AppendProperties DEF e
<1>5. \A i \in 1 .. n + 1 : i \in 1 .. n \/ i = n + 1
  BY <1>3
<1>6. \A i \in 1 .. n : devices[i].role # devices[i].name /\ Owned(devices[i]) \subseteq heap
  BY DEF OwnershipInv, EntriesOwnTheirBuffers
<1>7. \A i, j \in 1 .. n : i # j => Owned(devices[i]) \cap Owned(devices[j]) = {}
  BY DEF OwnershipInv, EntriesOwnTheirBuffers
<1>8. Owned(e) = {role, name} /\ role # name /\ Owned(e) \cap heap = {}
  BY <1>1, <1>2 DEF Owned
<1> HIDE DEF n
<1>9. \A i \in 1 .. n + 1 : devices'[i].role # devices'[i].name /\ Owned(devices'[i]) \subseteq heap'
  BY <1>1, <1>2, <1>4, <1>5, <1>6, <1>8
<1>10. ASSUME NEW i \in 1 .. n + 1, NEW j \in 1 .. n + 1, i # j
       PROVE  Owned(devices'[i]) \cap Owned(devices'[j]) = {}
  <2>1. CASE i \in 1 .. n /\ j \in 1 .. n
    BY <1>4, <1>7, <1>10, <2>1
  <2>2. CASE i \in 1 .. n /\ j = n + 1
    BY <1>4, <1>6, <1>8, <2>2
  <2>3. CASE i = n + 1 /\ j \in 1 .. n
    BY <1>4, <1>6, <1>8, <2>3
  <2> QED
    BY <1>5, <1>10, <2>1, <2>2, <2>3
<1>11. EntriesOwnTheirBuffers'
  BY <1>4, <1>9, <1>10 DEF EntriesOwnTheirBuffers, Owned
<1> QED
  BY <1>4, <1>11 DEF OwnershipInv

\* What is deallocated belongs to the entry that is erased, and to no other.
LEMMA DisconnectOwnership ==
  ASSUME OwnershipInv, NEW d \in Devices, DeviceDisconnected(d)
  PROVE  OwnershipInv'
<1>1. PICK i \in 1 .. Len(devices) : heap' = heap \ Owned(devices[i]) /\ devices' = RemoveAt(devices, i)
  BY DEF DeviceDisconnected, Deallocated, Erase
<1> DEFINE n == Len(devices)
           old(j) == IF j < i THEN j ELSE j + 1
<1>2. devices \in Seq(Entries) /\ n \in Nat
  BY LenProperties DEF OwnershipInv
<1>3. /\ devices' \in Seq(Entries) /\ Len(devices') = n - 1
      /\ \A j \in 1 .. n - 1 : devices'[j] = devices[old(j)]
  BY <1>1, <1>2, RemoveAtProperties
<1>4. \A j \in 1 .. n - 1 : old(j) \in 1 .. n /\ old(j) # i
  BY <1>2
<1>5. \A j, k \in 1 .. n - 1 : j # k => old(j) # old(k)
  BY <1>2
<1> HIDE DEF old
<1>6. \A j \in 1 .. n : devices[j].role # devices[j].name /\ Owned(devices[j]) \subseteq heap
  BY DEF OwnershipInv, EntriesOwnTheirBuffers
<1>7. \A j, k \in 1 .. n : j # k => Owned(devices[j]) \cap Owned(devices[k]) = {}
  BY DEF OwnershipInv, EntriesOwnTheirBuffers
<1>8. i \in 1 .. n
  OBVIOUS
<1> HIDE DEF n
<1>9. \A j \in 1 .. n - 1 : devices'[j].role # devices'[j].name /\ Owned(devices'[j]) \subseteq heap'
  <2> TAKE j \in 1 .. n - 1
  <2>1. Owned(devices[old(j)]) \cap Owned(devices[i]) = {}
    BY <1>4, <1>7, <1>8
  <2> QED
    BY <1>1, <1>3, <1>4, <1>6, <2>1
<1>10. \A j, k \in 1 .. n - 1 : j # k => Owned(devices'[j]) \cap Owned(devices'[k]) = {}
  BY <1>3, <1>4, <1>5, <1>7
<1>11. EntriesOwnTheirBuffers'
  BY <1>3, <1>9, <1>10 DEF EntriesOwnTheirBuffers, Owned
<1> QED
  BY <1>3, <1>11 DEF OwnershipInv

\* Steps that leave the vector alone and deallocate nothing.
LEMMA OtherOwnership ==
  ASSUME OwnershipInv, devices' = devices, heap \subseteq heap'
  PROVE  OwnershipInv'
BY DEF OwnershipInv, EntriesOwnTheirBuffers, Owned

\* Steps that leave an empty vector.
LEMMA EmptyOwnership ==
  ASSUME devices' = <<>>
  PROVE  OwnershipInv'
<1>1. Len(devices') = 0 /\ devices' \in Seq(Entries)
  OBVIOUS
<1> QED
  BY <1>1 DEF OwnershipInv, EntriesOwnTheirBuffers

\* device_disconnected never compares or deallocates a role or a name that is
\* gone: every entry has two live buffers, and they are its own.
THEOREM BuffersOwned == Spec => []EntriesOwnTheirBuffers
<1>1. ASSUME OwnershipInv, [Next]_vars PROVE OwnershipInv'
  <2>1. CASE InitContext \/ Destroy
    BY <2>1, EmptyOwnership DEF InitContext, Destroy
  <2>2. ASSUME NEW d \in Devices, DeviceConnected(d) PROVE OwnershipInv'
    BY <1>1, <2>2, ConnectOwnership
  <2>3. ASSUME NEW d \in Devices, DeviceDisconnected(d) PROVE OwnershipInv'
    BY <1>1, <2>3, DisconnectOwnership
  <2>4. ASSUME NEW d \in Devices, ConnectWithoutName(d) PROVE OwnershipInv'
    <3>1. devices' = devices /\ heap \subseteq heap'
      BY <2>4 DEF ConnectWithoutName
    <3> QED
      BY <1>1, <3>1, OtherOwnership
  <2>5. ASSUME NEW d \in Devices,
               \/ ConnectWithoutRole(d) \/ DisconnectUnknown(d)
               \/ \E t \in Threads : ForwardStatus(t, d)
        PROVE  OwnershipInv'
    <3>1. devices' = devices /\ heap' = heap
      BY <2>5 DEF ConnectWithoutRole, DisconnectUnknown, ForwardStatus, vars
    <3> QED
      BY <1>1, <3>1, OtherOwnership
  <2>6. CASE \/ \E t \in Threads : StatusSent(t) \/ SendThrows(t)
             \/ ContextIncorrect \/ UNCHANGED vars
    <3>1. devices' = devices /\ heap' = heap
      BY <2>6 DEF StatusSent, SendThrows, ForwardEnds, ContextIncorrect, vars
    <3> QED
      BY <1>1, <3>1, OtherOwnership
  <2> QED
    BY <1>1, <2>1, <2>2, <2>3, <2>4, <2>5, <2>6 DEF Next
<1>2. OwnershipInv => EntriesOwnTheirBuffers
  BY DEF OwnershipInv
<1> QED
  BY OwnershipInit, <1>1, <1>2, PTL DEF Spec

-----------------------------------------------------------------------------
(***************************************************************************)
(* Counts.                                                                 *)
(***************************************************************************)

Positions(d) == {i \in 1 .. Len(devices) : devices[i].device = d}

CountInv ==
  /\ OwnershipInv
  /\ TypeOK
  /\ context = "none" => Len(devices) = 0
  /\ IsFiniteSet(heap)
  /\ LeaksAccounted
  /\ RegistryCountsCalls

\* Devices that agree in all fields are one.
LEMMA SameIsEqual ==
  ASSUME NEW a \in Devices, NEW b \in Devices
  PROVE  SameDevice(a, b) <=> a = b
BY DeviceAssumption DEF SameDevice

LEMMA PositionsFinite ==
  ASSUME devices \in Seq(Entries), NEW d
  PROVE  IsFiniteSet(Positions(d)) /\ Cardinality(Positions(d)) \in Nat
<1>1. IsFiniteSet(1 .. Len(devices))
  BY LenProperties, FS_Interval
<1>2. Positions(d) \in SUBSET (1 .. Len(devices))
  BY DEF Positions
<1> QED
  BY <1>1, <1>2, FS_Subset, FS_CardinalityType

\* A connect adds one position, the last, to those of its device.
LEMMA PositionsConnect ==
  ASSUME devices \in Seq(Entries), NEW e \in Entries, devices' = Append(devices, e), NEW d
  PROVE  Cardinality(Positions(d)') =
           IF e.device = d THEN Cardinality(Positions(d)) + 1 ELSE Cardinality(Positions(d))
<1> DEFINE n == Len(devices)
<1>1. /\ Len(devices') = n + 1 /\ devices'[n + 1] = e /\ n \in Nat
      /\ \A i \in 1 .. n : devices'[i] = devices[i]
  BY AppendProperties, LenProperties
<1>2. 1 .. n + 1 = (1 .. n) \cup {n + 1} /\ n + 1 \notin 1 .. n
  BY <1>1
<1>3. Positions(d)' = IF e.device = d THEN Positions(d) \cup {n + 1} ELSE Positions(d)
  BY <1>1, <1>2 DEF Positions
<1>4. n + 1 \notin Positions(d)
  BY <1>2 DEF Positions
<1> QED
  BY <1>3, <1>4, PositionsFinite, FS_AddElement

\* A disconnect takes one position away: the others move up.
LEMMA PositionsDisconnect ==
  ASSUME devices \in Seq(Entries), NEW i \in 1 .. Len(devices),
         devices' = RemoveAt(devices, i), NEW d
  PROVE  Cardinality(Positions(d)') =
           IF devices[i].device = d THEN Cardinality(Positions(d)) - 1
                                    ELSE Cardinality(Positions(d))
<1> DEFINE n == Len(devices)
           Q == Positions(d) \ {i}
           move == [k \in Q |-> IF k < i THEN k ELSE k - 1]
<1>1. /\ n \in Nat /\ Len(devices') = n - 1
      /\ \A j \in 1 .. n - 1 : devices'[j] = IF j < i THEN devices[j] ELSE devices[j + 1]
  BY RemoveAtProperties, LenProperties
<1>2. \A k \in Q : k \in 1 .. n /\ k # i /\ devices[k].device = d
  BY DEF Positions
<1>3. \A j : j \in Positions(d)' <=> j \in 1 .. n - 1 /\ devices'[j].device = d
  BY <1>1 DEF Positions
<1>4. \A k \in Q : move[k] \in Positions(d)'
  <2> TAKE k \in Q
  <2>1. move[k] \in 1 .. n - 1
    BY <1>1, <1>2
  <2>2. devices'[move[k]] = devices[k]
    <3>1. CASE k < i
      BY <1>1, <1>2, <2>1, <3>1
    <3>2. CASE ~(k < i)
      <4>1. move[k] = k - 1 /\ ~(k - 1 < i) /\ k - 1 + 1 = k
        BY <1>2, <3>2
      <4> QED
        BY <1>1, <2>1, <4>1
    <3> QED
      BY <3>1, <3>2
  <2> QED
    BY <1>2, <1>3, <2>1, <2>2
<1>5. ASSUME NEW j \in Positions(d)' PROVE \E k \in Q : move[k] = j
  <2>1. j \in 1 .. n - 1 /\ devices'[j].device = d
    BY <1>3
  <2>2. CASE j < i
    <3>1. j \in Q
      BY <1>1, <2>1, <2>2 DEF Positions
    <3> QED
      BY <2>2, <3>1
  <2>3. CASE ~(j < i)
    <3>1. j + 1 \in 1 .. n /\ devices[j + 1].device = d /\ ~(j + 1 < i) /\ j + 1 # i
      BY <1>1, <2>1, <2>3
    <3>2. j + 1 \in Q
      BY <3>1 DEF Positions
    <3>3. move[j + 1] = j
      BY <2>1, <3>1, <3>2
    <3> QED
      BY <3>2, <3>3
  <2> QED
    BY <2>2, <2>3
<1>6. \A k, l \in Q : move[k] = move[l] => k = l
  BY <1>1, <1>2
<1>7. move \in Bijection(Q, Positions(d)')
  <2>1. move \in [Q -> Positions(d)'] /\ DOMAIN move = Q
    BY <1>4
  <2> HIDE DEF move, Q
  <2>2. move \in Injection(Q, Positions(d)')
    BY <1>6, <2>1 DEF Injection, IsInjective
  <2>3. move \in Surjection(Q, Positions(d)')
    BY <1>5, <2>1 DEF Surjection
  <2> QED
    BY <2>2, <2>3 DEF Bijection
<1>8. /\ IsFiniteSet(Q)
      /\ Cardinality(Q) = IF i \in Positions(d) THEN Cardinality(Positions(d)) - 1
                                                ELSE Cardinality(Positions(d))
  BY PositionsFinite, FS_RemoveElement
<1>9. i \in Positions(d) <=> devices[i].device = d
  BY DEF Positions
<1> HIDE DEF Q, move
<1>10. Cardinality(Positions(d)') = Cardinality(Q)
  BY <1>7, <1>8, FS_Bijection DEF ExistsBijection
<1> QED
  BY <1>8, <1>9, <1>10

LEMMA ConnectCount ==
  ASSUME CountInv, NEW d \in Devices, DeviceConnected(d)
  PROVE  CountInv'
<1>1. PICK role \in Buffers, name \in Buffers :
        /\ role \notin heap /\ name \notin heap /\ name # role
        /\ heap' = heap \cup {role, name}
        /\ devices' = Append(devices, [device |-> d, role |-> role, name |-> name])
  BY DEF DeviceConnected
<1> DEFINE e == [device |-> d, role |-> role, name |-> name]
<1>2. e \in Entries /\ e.device = d
  BY DEF Entries
<1>3. devices \in Seq(Entries) /\ devices' = Append(devices, e)
  BY <1>1 DEF CountInv, OwnershipInv
<1> HIDE DEF e
<1>4. open' = [open EXCEPT ![d] = @ + 1] /\ UNCHANGED <<context, sending, during, lost, abandoned>>
  BY DEF DeviceConnected, apiVars
<1>5. devices' \in Seq(Entries) /\ Len(devices') = Len(devices) + 1 /\ Len(devices) \in Nat
  BY <1>2, <1>3, AppendProperties, LenProperties
<1>6. TypeOK'
  BY <1>1, <1>4, <1>5 DEF CountInv, TypeOK, Entries
<1>7. IsFiniteSet(heap') /\ Cardinality(heap') = Cardinality(heap) + 2 /\ Cardinality(heap) \in Nat
  <2>1. heap' = (heap \cup {role}) \cup {name}
    BY <1>1
  <2>2. IsFiniteSet(heap \cup {role}) /\ Cardinality(heap \cup {role}) = Cardinality(heap) + 1
    BY <1>1, FS_AddElement DEF CountInv
  <2>3. name \notin heap \cup {role}
    BY <1>1
  <2>4. Cardinality(heap) \in Nat
    BY FS_CardinalityType DEF CountInv
  <2> DEFINE half == heap \cup {role}
  <2> HIDE DEF half
  <2>5. IsFiniteSet(half \cup {name}) /\ Cardinality(half \cup {name}) = Cardinality(half) + 1
    BY <2>2, <2>3, FS_AddElement DEF half
  <2>6. heap' = half \cup {name} /\ Cardinality(half) = Cardinality(heap) + 1
    BY <2>1, <2>2 DEF half
  <2> QED
    BY <2>4, <2>5, <2>6
<1>8. LeaksAccounted'
  BY <1>4, <1>5, <1>7 DEF CountInv, LeaksAccounted, TypeOK
<1>9. RegistryCountsCalls'
  <2> SUFFICES ASSUME NEW c \in Devices PROVE Cardinality(Positions(c)') = open'[c]
    BY DEF RegistryCountsCalls, Positions
  <2>1. Cardinality(Positions(c)) = open[c]
    BY DEF CountInv, RegistryCountsCalls, Positions
  <2> QED
    BY <1>2, <1>3, <1>4, <2>1, PositionsConnect DEF CountInv, TypeOK
<1>10. OwnershipInv'
  BY ConnectOwnership DEF CountInv
<1> QED
  BY <1>4, <1>6, <1>7, <1>8, <1>9, <1>10 DEF CountInv, DeviceConnected

LEMMA DisconnectCount ==
  ASSUME CountInv, NEW d \in Devices, DeviceDisconnected(d)
  PROVE  CountInv'
<1>1. PICK i \in 1 .. Len(devices) :
        /\ SameDevice(devices[i].device, d)
        /\ heap' = heap \ Owned(devices[i])
        /\ devices' = RemoveAt(devices, i)
  BY DEF DeviceDisconnected, Deallocated, Erase, IsFirstEntry, IsEntry
<1>2. devices \in Seq(Entries) /\ devices[i] \in Entries
  BY ElementOfSeq DEF CountInv, OwnershipInv
<1>3. devices[i].device = d
  BY <1>1, <1>2, SameIsEqual DEF Entries
<1>4. open' = [open EXCEPT ![d] = @ - 1] /\ UNCHANGED <<context, sending, during, lost, abandoned>>
  BY DEF DeviceDisconnected, apiVars
<1>5. devices' \in Seq(Entries) /\ Len(devices') = Len(devices) - 1 /\ Len(devices) \in Nat
  BY <1>1, <1>2, RemoveAtProperties, LenProperties
<1>6. open[d] \in Nat \ {0}
  <2>1. i \in Positions(d) /\ Cardinality(Positions(d)) = open[d]
    BY <1>3 DEF Positions, CountInv, RegistryCountsCalls
  <2>2. Cardinality(Positions(d)) # 0
    BY <1>2, <2>1, PositionsFinite, FS_EmptySet
  <2> QED
    BY <2>1, <2>2 DEF CountInv, TypeOK
<1>7. TypeOK'
  BY <1>1, <1>4, <1>5, <1>6 DEF CountInv, TypeOK, Entries
<1>8. IsFiniteSet(heap') /\ Cardinality(heap') = Cardinality(heap) - 2 /\ Cardinality(heap) \in Nat
  <2> DEFINE role == devices[i].role
             name == devices[i].name
  <2>1. role # name /\ role \in heap /\ name \in heap
    BY DEF CountInv, OwnershipInv, EntriesOwnTheirBuffers, Owned
  <2>2. heap' = (heap \ {role}) \ {name}
    BY <1>1 DEF Owned
  <2> HIDE DEF role, name
  <2>3. IsFiniteSet(heap \ {role}) /\ Cardinality(heap \ {role}) = Cardinality(heap) - 1
    BY <2>1, FS_RemoveElement DEF CountInv
  <2>4. name \in heap \ {role}
    BY <2>1
  <2>5. Cardinality(heap) \in Nat
    BY FS_CardinalityType DEF CountInv
  <2> DEFINE half == heap \ {role}
  <2> HIDE DEF half
  <2>6. IsFiniteSet(half \ {name}) /\ Cardinality(half \ {name}) = Cardinality(half) - 1
    BY <2>3, <2>4, FS_RemoveElement DEF half
  <2>7. heap' = half \ {name} /\ Cardinality(half) = Cardinality(heap) - 1
    BY <2>2, <2>3 DEF half
  <2> QED
    BY <2>5, <2>6, <2>7
<1>9. LeaksAccounted'
  BY <1>4, <1>5, <1>8 DEF CountInv, LeaksAccounted, TypeOK
<1>10. RegistryCountsCalls'
  <2> SUFFICES ASSUME NEW c \in Devices PROVE Cardinality(Positions(c)') = open'[c]
    BY DEF RegistryCountsCalls, Positions
  <2>1. Cardinality(Positions(c)) = open[c]
    BY DEF CountInv, RegistryCountsCalls, Positions
  <2> QED
    BY <1>1, <1>2, <1>3, <1>4, <2>1, PositionsDisconnect DEF CountInv, TypeOK
<1>11. OwnershipInv'
  BY DisconnectOwnership DEF CountInv
<1> QED
  BY <1>4, <1>7, <1>8, <1>9, <1>10, <1>11 DEF CountInv, DeviceDisconnected

\* A role without a name: one buffer more, and one lost.
LEMMA HalfConnectCount ==
  ASSUME CountInv, NEW d \in Devices, ConnectWithoutName(d)
  PROVE  CountInv'
<1>1. PICK role \in Buffers \ heap : heap' = heap \cup {role}
  BY DEF ConnectWithoutName
<1>2. lost' = lost + 1 /\ UNCHANGED <<context, devices, sending, during, open, abandoned>>
  BY DEF ConnectWithoutName, apiVars
<1>3. IsFiniteSet(heap') /\ Cardinality(heap') = Cardinality(heap) + 1 /\ Cardinality(heap) \in Nat
  BY <1>1, FS_AddElement, FS_CardinalityType DEF CountInv
<1>4. Len(devices) \in Nat
  BY LenProperties DEF CountInv, OwnershipInv
<1>5. TypeOK' /\ LeaksAccounted'
  BY <1>1, <1>2, <1>3, <1>4 DEF CountInv, TypeOK, LeaksAccounted
<1>6. RegistryCountsCalls'
  BY <1>2 DEF CountInv, RegistryCountsCalls
<1>7. OwnershipInv' /\ (context = "none" => Len(devices) = 0)'
  BY <1>1, <1>2, OtherOwnership DEF CountInv
<1> QED
  BY <1>3, <1>5, <1>6, <1>7 DEF CountInv

\* A context without devices.
LEMMA EmptyCount ==
  ASSUME devices' = <<>>, IsFiniteSet(heap'), Cardinality(heap') = lost' + abandoned',
         open' = [d \in Devices |-> 0], lost' \in Nat, abandoned' \in Nat,
         context' \in {"none", "live"}, heap' \subseteq Buffers,
         sending' \in [Threads -> Devices \cup {None}], during' \in [Threads -> SUBSET Devices]
  PROVE  CountInv'
<1>1. devices' \in Seq([device : Devices, role : Buffers, name : Buffers]) /\ Len(devices') = 0
  OBVIOUS
<1>2. TypeOK'
  BY <1>1 DEF TypeOK
<1>3. LeaksAccounted'
  BY <1>1 DEF LeaksAccounted
<1>4. \A d \in Devices : Positions(d)' = {}
  BY <1>1 DEF Positions
<1>5. RegistryCountsCalls'
  BY <1>4, FS_EmptySet DEF RegistryCountsCalls, Positions
<1> QED
  BY <1>1, <1>2, <1>3, <1>5, EmptyOwnership DEF CountInv

\* Every buffer and every entry is accounted for.
THEOREM CountInvHolds == Spec => []CountInv
<1>1. Init => CountInv
  <2> SUFFICES ASSUME Init PROVE CountInv
    OBVIOUS
  <2>1. devices = <<>> /\ Len(devices) = 0 /\ heap = {} /\ lost = 0 /\ abandoned = 0
    BY DEF Init
  <2>2. TypeOK
    <3>1. devices \in Seq([device : Devices, role : Buffers, name : Buffers])
      BY <2>1
    <3> QED
      BY <3>1 DEF Init, TypeOK
  <2>3. IsFiniteSet(heap) /\ LeaksAccounted
    BY <2>1, FS_EmptySet DEF LeaksAccounted
  <2>4. \A d \in Devices : Positions(d) = {} /\ open[d] = 0
    BY <2>1 DEF Init, Positions
  <2>5. RegistryCountsCalls
    BY <2>4, FS_EmptySet DEF RegistryCountsCalls, Positions
  <2> QED
    BY <2>1, <2>2, <2>3, <2>5, OwnershipInit DEF CountInv
<1>2. ASSUME CountInv, [Next]_vars PROVE CountInv'
  <2>0. Len(devices) \in Nat /\ TypeOK /\ IsFiniteSet(heap) /\ LeaksAccounted
    BY <1>2, LenProperties DEF CountInv, OwnershipInv
  <2>1. CASE Destroy
    <3>1. Cardinality(heap) = lost' + abandoned' /\ abandoned' \in Nat
      BY <2>0, <2>1 DEF Destroy, LeaksAccounted, TypeOK
    <3> QED
      BY <2>0, <2>1, <3>1, EmptyCount DEF Destroy, TypeOK
  <2>2. CASE InitContext
    <3>1. Cardinality(heap) = lost' + abandoned'
      BY <1>2, <2>0, <2>2 DEF InitContext, LeaksAccounted, TypeOK, CountInv
    <3> QED
      BY <2>0, <2>2, <3>1, EmptyCount DEF InitContext, TypeOK
  <2>3. ASSUME NEW d \in Devices, DeviceConnected(d) PROVE CountInv'
    BY <1>2, <2>3, ConnectCount
  <2>4. ASSUME NEW d \in Devices, DeviceDisconnected(d) PROVE CountInv'
    BY <1>2, <2>4, DisconnectCount
  <2>5. ASSUME NEW d \in Devices, ConnectWithoutName(d) PROVE CountInv'
    BY <1>2, <2>5, HalfConnectCount
  <2>6. ASSUME \/ \E d \in Devices :
                    \/ ConnectWithoutRole(d) \/ DisconnectUnknown(d)
                    \/ \E t \in Threads : ForwardStatus(t, d)
               \/ \E t \in Threads : StatusSent(t) \/ SendThrows(t)
               \/ ContextIncorrect \/ UNCHANGED vars
        PROVE  CountInv'
    <3>1. UNCHANGED <<context, heap, devices, open, lost, abandoned>>
      BY <2>6 DEF ConnectWithoutRole, DisconnectUnknown, ForwardStatus, StatusSent, SendThrows,
         ForwardEnds, ContextIncorrect, vars
    <3>2. /\ sending' \in [Threads -> Devices \cup {None}]
          /\ during' \in [Threads -> SUBSET Devices]
      <4>1. /\ sending \in [Threads -> Devices \cup {None}]
            /\ during \in [Threads -> SUBSET Devices]
        BY <2>0 DEF TypeOK
      <4>2. ASSUME NEW d \in Devices, NEW t \in Threads, ForwardStatus(t, d)
            PROVE  /\ sending' \in [Threads -> Devices \cup {None}]
                   /\ during' \in [Threads -> SUBSET Devices]
        BY <4>1, <4>2 DEF ForwardStatus
      <4>3. ASSUME NEW t \in Threads, StatusSent(t) \/ SendThrows(t)
            PROVE  /\ sending' \in [Threads -> Devices \cup {None}]
                   /\ during' \in [Threads -> SUBSET Devices]
        BY <4>1, <4>3 DEF StatusSent, SendThrows, ForwardEnds
      <4>4. CASE UNCHANGED vars
        BY <4>1, <4>4 DEF vars, apiVars
      <4> QED
        BY <2>6, <4>2, <4>3, <4>4 DEF ConnectWithoutRole, DisconnectUnknown, ContextIncorrect
    <3>3. TypeOK' /\ LeaksAccounted' /\ RegistryCountsCalls'
      BY <1>2, <2>0, <3>1, <3>2 DEF CountInv, TypeOK, LeaksAccounted, RegistryCountsCalls
    <3>4. OwnershipInv' /\ IsFiniteSet(heap') /\ (context = "none" => Len(devices) = 0)'
      BY <1>2, <3>1, OtherOwnership DEF CountInv
    <3> QED
      BY <3>3, <3>4 DEF CountInv
  <2> QED
    BY <1>2, <2>1, <2>2, <2>3, <2>4, <2>5, <2>6 DEF Next
<1> QED
  BY <1>1, <1>2, PTL DEF Spec

\* The state of the registry is well-formed.
THEOREM TypeCorrect == Spec => []TypeOK
<1>1. CountInv => TypeOK
  BY DEF CountInv
<1> QED
  BY <1>1, CountInvHolds, PTL

\* Buffers are lost in half a connect and with a context that is destroyed,
\* and nowhere else.
THEOREM LeaksKnown == Spec => []LeaksAccounted
<1>1. CountInv => LeaksAccounted
  BY DEF CountInv
<1> QED
  BY <1>1, CountInvHolds, PTL

\* The vector holds a device once for each connect that was not undone.
THEOREM RegistryCounts == Spec => []RegistryCountsCalls
<1>1. CountInv => RegistryCountsCalls
  BY DEF CountInv
<1> QED
  BY <1>1, CountInvHolds, PTL

-----------------------------------------------------------------------------
(***************************************************************************)
(* Identification.                                                         *)
(***************************************************************************)

\* While a status is being sent, the API client has the identification of a
\* device whose forward began since then, or of its own.
Overlapping(t) ==
  /\ sending[t] \in during[t]
  /\ identified \in {[d EXCEPT !.priority = 0] : d \in during[t]}

IdentityInv ==
  /\ sending \in [Threads -> Devices \cup {None}]
  /\ during \in [Threads -> SUBSET Devices]
  /\ \A t \in Threads : sending[t] # None => Overlapping(t) /\ context = "live"
  /\ MixedUpOnlyByOverlap

\* No status is sent under an identification that an earlier call has left, or
\* a failed one: it takes two forwards that overlap.
THEOREM SentUnderOverlapping == Spec => []MixedUpOnlyByOverlap
<1>1. Init => IdentityInv
  BY DEF Init, IdentityInv, MixedUpOnlyByOverlap
<1>2. ASSUME IdentityInv, [Next]_vars PROVE IdentityInv'
  <2> USE DEF IdentityInv
  <2>1. CASE InitContext
    <3>1. \A t \in Threads : sending[t] = None
      BY <1>2, <2>1 DEF InitContext
    <3> QED
      BY <1>2, <2>1, <3>1 DEF InitContext, MixedUpOnlyByOverlap
  <2>2. CASE Destroy
    BY <1>2, <2>2 DEF Destroy, MixedUpOnlyByOverlap
  <2>3. ASSUME NEW d \in Devices, NEW t \in Threads, ForwardStatus(t, d) PROVE IdentityInv'
    <3>1. /\ context = "live" /\ identified' = [d EXCEPT !.priority = 0]
          /\ sending' = [sending EXCEPT ![t] = d]
          /\ during' = [u \in Threads |-> IF u = t THEN {d}
                                          ELSE IF sending[u] # None THEN during[u] \cup {d}
                                          ELSE {}]
          /\ context' = context /\ sent' = sent
      BY <2>3 DEF ForwardStatus, DeviceIdentification
    <3>2. /\ sending' \in [Threads -> Devices \cup {None}]
          /\ during' \in [Threads -> SUBSET Devices]
      BY <1>2, <3>1
    <3>3. ASSUME NEW u \in Threads, sending'[u] # None PROVE Overlapping(u)'
      <4>1. d \in during'[u] /\ sending'[u] \in during'[u]
        BY <1>2, <3>1, <3>3 DEF Overlapping
      <4> QED
        BY <3>1, <4>1 DEF Overlapping
    <3> QED
      BY <1>2, <3>1, <3>2, <3>3 DEF MixedUpOnlyByOverlap
  <2>4. ASSUME NEW t \in Threads, StatusSent(t) \/ SendThrows(t) PROVE IdentityInv'
    <3>1. /\ sending[t] # None /\ sending' = [sending EXCEPT ![t] = None]
          /\ during' = [during EXCEPT ![t] = {}]
          /\ UNCHANGED <<context, identified>>
      BY <2>4 DEF StatusSent, SendThrows, ForwardEnds
    <3>2. /\ sending' \in [Threads -> Devices \cup {None}]
          /\ during' \in [Threads -> SUBSET Devices]
      BY <1>2, <3>1
    <3>3. \A u \in Threads : sending'[u] # None => Overlapping(u)' /\ context' = "live"
      BY <1>2, <3>1 DEF Overlapping
    <3>4. MixedUpOnlyByOverlap'
      <4>1. CASE StatusSent(t)
        BY <1>2, <3>1, <4>1 DEF StatusSent, Overlapping, MixedUpOnlyByOverlap
      <4>2. CASE SendThrows(t)
        BY <1>2, <4>2 DEF SendThrows, MixedUpOnlyByOverlap
      <4> QED
        BY <2>4, <4>1, <4>2
    <3> QED
      BY <3>2, <3>3, <3>4
  <2>5. ASSUME UNCHANGED <<context, apiVars>> PROVE IdentityInv'
    BY <1>2, <2>5 DEF apiVars, Overlapping, MixedUpOnlyByOverlap
  <2>6. CASE \E d \in Devices :
               \/ DeviceConnected(d) \/ ConnectWithoutRole(d) \/ ConnectWithoutName(d)
               \/ DeviceDisconnected(d) \/ DisconnectUnknown(d)
    BY <2>5, <2>6 DEF DeviceConnected, ConnectWithoutRole, ConnectWithoutName,
       DeviceDisconnected, DisconnectUnknown, vars
  <2>7. CASE ContextIncorrect \/ UNCHANGED vars
    BY <2>5, <2>7 DEF ContextIncorrect, vars
  <2> QED
    BY <1>2, <2>1, <2>2, <2>3, <2>4, <2>6, <2>7 DEF Next
<1>3. IdentityInv => MixedUpOnlyByOverlap
  BY DEF IdentityInv
<1> QED
  BY <1>1, <1>2, <1>3, PTL DEF Spec
=============================================================================

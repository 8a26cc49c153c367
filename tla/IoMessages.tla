----------------------------- MODULE IoMessages -----------------------------
(***************************************************************************)
(* The JSON documents of the IO module and what its classes make of them:  *)
(* DeviceStatus (include/bringauto/io_module_utils/DeviceStatus.hpp) and   *)
(* the integers of SerializationUtils::serialize_error.                    *)
(*                                                                         *)
(* A document is a record with what the code looks up in it, and json      *)
(* tells whether json::parse takes it at all:                              *)
(*   status    [json, ins, outs, ok, presses], with ins and outs sequences *)
(*             of entries [ok, num, st] and [ok, num, err, st]             *)
(* ok is FALSE where a key is missing or holds a value of another type, so *)
(* that json.at() or the conversion throws.  Numbers in a document are any *)
(* integers; the code stores them in a byte or in a 32-bit word.           *)
(***************************************************************************)
EXTENDS Integers, Sequences

CONSTANTS
  ByteSize,   \* how many values a uint8_t has, 256 in the code
  WordSize    \* how many values a uint32_t has, 2^32 in the code

ASSUME WidthAssumption ==
  /\ ByteSize \in Nat \ {0}
  /\ WordSize \in Nat \ {0}

AsByte(x) == x % ByteSize

AsWord(x) == x % WordSize

\* A 32-bit word taken for an int.
AsInt(x) == IF 2 * AsWord(x) < WordSize THEN AsWord(x) ELSE AsWord(x) - WordSize

-----------------------------------------------------------------------------
(***************************************************************************)
(* DeviceStatus<ni, no>.                                                   *)
(***************************************************************************)

\* The first n entries are there and complete; what follows is not looked at.
Complete(entries, n) ==
  /\ n <= Len(entries)
  /\ \A k \in 1 .. n : entries[k].ok

\* deserializeFromBuffer returns OK.
Readable(doc, ni, no) ==
  /\ doc.json
  /\ Complete(doc.ins, ni)
  /\ Complete(doc.outs, no)
  /\ doc.ok

\* The entries that set input or output i: numbers start at 1, and any other
\* number (0, or beyond the device) is ignored.
Writers(entries, n, i) == {k \in 1 .. n : AsByte(entries[k].num) = i}

LatestOf(S) == CHOOSE k \in S : \A l \in S : l <= k

Off == [err |-> FALSE, st |-> FALSE]

\* The object deserializeFromBuffer fills; the last of several entries wins.
Decode(doc, ni, no) ==
  [inputs  |-> [i \in 1 .. ni |->
                  LET W == Writers(doc.ins, ni, i)
                  IN  IF W = {} THEN FALSE ELSE doc.ins[LatestOf(W)].st],
   outputs |-> [i \in 1 .. no |->
                  LET W == Writers(doc.outs, no, i)
                      e == doc.outs[LatestOf(W)]
                  IN  IF W = {} THEN Off ELSE [err |-> e.err, st |-> e.st]],
   presses |-> AsWord(doc.presses)]

\* Mutant: serialized numbers start at 0, like OutputIndexes in io_module.h.
EncodeFromZero(s, ni, no) ==
  [json    |-> TRUE,
   ins     |-> [i \in 1 .. ni |-> [ok |-> TRUE, num |-> i - 1, st |-> s.inputs[i]]],
   outs    |-> [i \in 1 .. no |-> [ok |-> TRUE, num |-> i - 1, err |-> s.outputs[i].err,
                                  st |-> s.outputs[i].st]],
   ok      |-> TRUE,
   presses |-> s.presses]

\* The document serializeToBuffer writes.
Encode(s, ni, no) ==
  [json    |-> TRUE,
   ins     |-> [i \in 1 .. ni |-> [ok |-> TRUE, num |-> i, st |-> s.inputs[i]]],
   outs    |-> [i \in 1 .. no |-> [ok |-> TRUE, num |-> i, err |-> s.outputs[i].err,
                                  st |-> s.outputs[i].st]],
   ok      |-> TRUE,
   presses |-> s.presses]

\* The statuses a DeviceStatus<ni, no> object can hold.
Statuses(ni, no) ==
  [inputs  : [1 .. ni -> BOOLEAN],
   outputs : [1 .. no -> [err : BOOLEAN, st : BOOLEAN]],
   presses : 0 .. WordSize - 1]

=============================================================================

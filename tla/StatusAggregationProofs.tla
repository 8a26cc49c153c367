---------------------- MODULE StatusAggregationProofs ----------------------
(***************************************************************************)
(* Proofs of the properties of StatusAggregation, for every device, every  *)
(* width of the integers and every set of documents.                       *)
(***************************************************************************)
EXTENDS StatusAggregation, TLAPS

-----------------------------------------------------------------------------
(***************************************************************************)
(* Integers of a fixed width, and statuses that are written and read.      *)
(***************************************************************************)

\* A number that fits is stored as it is.
LEMMA SmallMod ==
  ASSUME NEW n \in Nat \ {0}, NEW x \in 0 .. n - 1
  PROVE  x % n = x
  BY SMT

\* The remainder of a division fits, and is not larger than the number.
LEMMA ModRange ==
  ASSUME NEW n \in Nat \ {0}, NEW x \in Nat
  PROVE  x % n \in 0 .. n - 1 /\ x % n <= x
  BY SMT

LEMMA HalfFits ==
  ASSUME NEW n \in Nat, NEW m \in Nat, NEW w \in Nat, n <= m, 2 * m < w
  PROVE  2 * n < w
  OBVIOUS

\* Every number is its remainder and a multiple of the divisor.
LEMMA Division ==
  ASSUME NEW n \in Nat \ {0}, NEW x \in Nat
  PROVE  \E q \in Nat : x = (x % n) + q * n
<1>1. x \div n \in Nat
  BY SMT
<1>2. x = n * (x \div n) + (x % n)
  BY SMT
<1>3. PICK q \in Nat : q = x \div n
  BY <1>1
<1>4. x % n \in Nat
  BY ModRange
<1>5. PICK r \in Nat : r = x % n
  BY <1>4
<1>6. x = r + q * n
  BY <1>2, <1>3, <1>5
<1> QED
  BY <1>5, <1>6, Zenon

\* The remainder is determined by that.
LEMMA Remainder ==
  ASSUME NEW n \in Nat \ {0}, NEW q \in Nat, NEW r \in 0 .. n - 1
  PROVE  (r + q * n) % n = r
  BY SMT

\* Adding to the remainder is adding to the number.
LEMMA ModAdd ==
  ASSUME NEW n \in Nat \ {0}, NEW x \in Nat, NEW p \in Nat
  PROVE  ((x % n) + p) % n = (x + p) % n
<1>1. x % n \in 0 .. n - 1
  BY ModRange
<1>2. PICK q \in Nat : x = (x % n) + q * n
  BY Division
<1>3. PICK r \in 0 .. n - 1 : r = x % n
  BY <1>1
<1>4. r + p \in Nat /\ x = r + q * n
  BY <1>2, <1>3
<1>5. PICK k \in Nat : r + p = ((r + p) % n) + k * n
  BY <1>4, Division
<1>6. (r + p) % n \in 0 .. n - 1
  BY <1>4, ModRange
<1>7. PICK w \in 0 .. n - 1 : w = (r + p) % n
  BY <1>6
<1>8. x + p = w + (k + q) * n
  <2>1. r + p = w + k * n
    BY <1>5, <1>7
  <2>2. (k + q) * n = k * n + q * n
    BY SMT
  <2>3. k * n \in Nat /\ q * n \in Nat
    BY SMT
  <2> QED
    BY <1>4, <2>1, <2>2, <2>3
<1>9. (x + p) % n = w
  <2>1. k + q \in Nat
    OBVIOUS
  <2>2. (w + (k + q) * n) % n = w
    BY <2>1, Remainder
  <2> QED
    BY <1>8, <2>2
<1> QED
  BY <1>3, <1>7, <1>9

\* What AsInt makes of a number that is not negative.
LEMMA AsIntOfNat ==
  ASSUME NEW x \in Nat
  PROVE  /\ AsInt(x) \in Int
         /\ AsInt(x) <= x
         /\ 2 * x < WordSize => AsInt(x) = x
         /\ 2 * AsInt(x) < WordSize
         /\ -2 * AsInt(x) <= WordSize
<1> DEFINE w == x % WordSize
<1>1. WordSize \in Nat \ {0}
  BY WidthAssumption
<1>2. w \in 0 .. WordSize - 1 /\ w <= x
  BY <1>1, ModRange
<1>3. 2 * x < WordSize => w = x
  BY <1>1, SmallMod
<1>4. AsInt(x) = IF 2 * w < WordSize THEN w ELSE w - WordSize
  BY DEF AsInt, AsWord
<1> HIDE DEF w
<1> QED
  BY <1>1, <1>2, <1>3, <1>4, SMT

\* A number that was narrowed and is not negative may be counted on.
LEMMA CountOn ==
  ASSUME NEW x \in Nat, NEW p \in Nat, AsInt(x) >= 0
  PROVE  AsInt(AsInt(x) + p) = AsInt(x + p)
<1>1. WordSize \in Nat \ {0}
  BY WidthAssumption
<1>2. x % WordSize \in 0 .. WordSize - 1
  BY <1>1, ModRange
<1>3. PICK w \in 0 .. WordSize - 1 : w = x % WordSize
  BY <1>2
<1>4. AsInt(x) = w
  <2>1. AsInt(x) = IF 2 * w < WordSize THEN w ELSE w - WordSize
    BY <1>3 DEF AsInt, AsWord
  <2> QED
    BY <1>1, <2>1
<1>5. ((x % WordSize) + p) % WordSize = (x + p) % WordSize
  BY <1>1, ModAdd
<1> QED
  BY <1>3, <1>4, <1>5 DEF AsInt, AsWord

\* In a written list of entries, entry i and no other one sets number i.
LEMMA OwnWriter ==
  ASSUME NEW n \in 0 .. ByteSize - 1, NEW e,
         \A k \in 1 .. n : e[k].num = k,
         NEW i \in 1 .. n
  PROVE  Writers(e, n, i) = {i} /\ LatestOf(Writers(e, n, i)) = i
<1>1. \A k \in 1 .. n : AsByte(e[k].num) = k
  <2> TAKE k \in 1 .. n
  <2>1. ByteSize \in Nat \ {0} /\ k \in 0 .. ByteSize - 1
    BY WidthAssumption
  <2>2. k % ByteSize = k
    BY <2>1, SmallMod
  <2> QED
    BY <2>2 DEF AsByte
<1>2. Writers(e, n, i) = {i}
  BY <1>1 DEF Writers
<1>3. LatestOf({i}) = i
  BY DEF LatestOf
<1> QED
  BY <1>2, <1>3

\* deserializeFromBuffer reads what serializeToBuffer wrote, and gets the same
\* status.
LEMMA RoundTrip ==
  ASSUME NEW ni \in 0 .. ByteSize - 1, NEW no \in 0 .. ByteSize - 1,
         NEW s \in Statuses(ni, no)
  PROVE  Readable(Encode(s, ni, no), ni, no) /\ Decode(Encode(s, ni, no), ni, no) = s
<1> DEFINE doc == Encode(s, ni, no)
           in(i)  == [ok |-> TRUE, num |-> i, st |-> s.inputs[i]]
           out(i) == [ok |-> TRUE, num |-> i, err |-> s.outputs[i].err, st |-> s.outputs[i].st]
<1>1. /\ doc.json = TRUE
      /\ doc.ins = [i \in 1 .. ni |-> in(i)]
      /\ doc.outs = [i \in 1 .. no |-> out(i)]
      /\ doc.ok = TRUE
      /\ doc.presses = s.presses
  BY DEF Encode
<1>2. ni \in Nat /\ no \in Nat
  BY WidthAssumption
<1>3. /\ s = [inputs |-> s.inputs, outputs |-> s.outputs, presses |-> s.presses]
      /\ s.inputs \in [1 .. ni -> BOOLEAN]
      /\ s.outputs \in [1 .. no -> [err : BOOLEAN, st : BOOLEAN]]
      /\ s.presses \in 0 .. WordSize - 1
  BY DEF Statuses
<1> HIDE DEF doc
<1>4. Complete(doc.ins, ni)
  <2>1. Len(doc.ins) = ni
    BY <1>1, <1>2
  <2> QED
    BY <1>1, <1>2, <2>1 DEF Complete
<1>5. Complete(doc.outs, no)
  <2>1. Len(doc.outs) = no
    BY <1>1, <1>2
  <2> QED
    BY <1>1, <1>2, <2>1 DEF Complete
<1>6. Readable(doc, ni, no)
  BY <1>1, <1>4, <1>5 DEF Readable
<1>7. ASSUME NEW i \in 1 .. ni
      PROVE  Writers(doc.ins, ni, i) = {i} /\ doc.ins[LatestOf(Writers(doc.ins, ni, i))].st = s.inputs[i]
  <2>1. \A k \in 1 .. ni : doc.ins[k].num = k
    BY <1>1
  <2>2. Writers(doc.ins, ni, i) = {i} /\ LatestOf(Writers(doc.ins, ni, i)) = i
    BY <2>1, OwnWriter
  <2>3. doc.ins[i].st = s.inputs[i]
    BY <1>1
  <2> QED
    BY <2>2, <2>3, Zenon
<1>8. ASSUME NEW i \in 1 .. no
      PROVE  /\ Writers(doc.outs, no, i) = {i}
             /\ doc.outs[LatestOf(Writers(doc.outs, no, i))] = out(i)
  <2>1. \A k \in 1 .. no : doc.outs[k].num = k
    BY <1>1
  <2>2. Writers(doc.outs, no, i) = {i} /\ LatestOf(Writers(doc.outs, no, i)) = i
    BY <2>1, OwnWriter
  <2> QED
    BY <1>1, <2>2
<1>9. Decode(doc, ni, no).inputs = s.inputs
  <2>1. Decode(doc, ni, no).inputs = [i \in 1 .. ni |-> s.inputs[i]]
    BY <1>7 DEF Decode
  <2> QED
    BY <1>3, <2>1
<1>10. Decode(doc, ni, no).outputs = s.outputs
  <2>1. \A i \in 1 .. no : Decode(doc, ni, no).outputs[i] = [err |-> s.outputs[i].err, st |-> s.outputs[i].st]
    <3> TAKE i \in 1 .. no
    <3>1. {i} # {}
      OBVIOUS
    <3>2. Decode(doc, ni, no).outputs[i] =
            [err |-> doc.outs[LatestOf(Writers(doc.outs, no, i))].err,
             st  |-> doc.outs[LatestOf(Writers(doc.outs, no, i))].st]
      BY <1>8, <3>1 DEF Decode
    <3>3. out(i).err = s.outputs[i].err /\ out(i).st = s.outputs[i].st
      OBVIOUS
    <3>4. doc.outs[LatestOf(Writers(doc.outs, no, i))] = out(i)
      BY <1>8
    <3> HIDE DEF out
    <3> QED
      BY <3>2, <3>3, <3>4, Zenon
  <2>2. \A i \in 1 .. no : s.outputs[i] = [err |-> s.outputs[i].err, st |-> s.outputs[i].st]
    BY <1>3
  <2>3. Decode(doc, ni, no).outputs = [i \in 1 .. no |-> Decode(doc, ni, no).outputs[i]]
    BY DEF Decode
  <2> QED
    BY <1>3, <2>1, <2>2, <2>3
<1>11. Decode(doc, ni, no).presses = s.presses
  <2>1. s.presses % WordSize = s.presses
    BY <1>3, WidthAssumption, SmallMod
  <2> QED
    BY <1>1, <2>1 DEF Decode, AsWord
<1>12. Decode(doc, ni, no) = s
  <2>1. Decode(doc, ni, no) = [inputs |-> Decode(doc, ni, no).inputs,
                               outputs |-> Decode(doc, ni, no).outputs,
                               presses |-> Decode(doc, ni, no).presses]
    BY DEF Decode
  <2> QED
    BY <1>3, <1>9, <1>10, <1>11, <2>1
<1> QED
  BY <1>6, <1>12 DEF doc

-----------------------------------------------------------------------------
(***************************************************************************)
(* The invariant.  Beyond TypeOK and the properties it says that error is  *)
(* an integer and that the status lastRead stands for is a real one.       *)
(***************************************************************************)

Inv ==
  /\ TypeOK
  /\ error = None \/ error \in Int
  /\ current # None => lastRead \in Statuses(InputsOf[type], OutputsOf[type])
  /\ CurrentIsLast
  /\ AppSeesCurrent
  /\ NoPressHeldBack
  /\ ErrorCountsMissed

\* Facts about the constants in the form the steps need.
LEMMA Widths ==
  ASSUME type \in DeviceTypes
  PROVE  /\ InputsOf[type] \in 0 .. ByteSize - 1
         /\ OutputsOf[type] \in 0 .. ByteSize - 1
         /\ OutputsOf["button"] = 0
         /\ None \notin Int
         /\ WordSize \in Nat \ {0}
BY AggregationAssumption, WidthAssumption

\* A valid document a device sends reads as a status of the device.
LEMMA ReadIsStatus ==
  ASSUME type \in DeviceTypes, NEW doc \in Documents[type], status_data_valid(doc)
  PROVE  Read(doc) \in Statuses(InputsOf[type], OutputsOf[type])
BY DocumentsAssumption DEF Read, status_data_valid

\* Re-writing a status changes nothing of it.
LEMMA AggregateReads ==
  ASSUME type \in DeviceTypes, NEW doc,
         Read(doc) \in Statuses(InputsOf[type], OutputsOf[type])
  PROVE  status_data_valid(aggregate_status(doc)) /\ Read(aggregate_status(doc)) = Read(doc)
<1>1. InputsOf[type] \in 0 .. ByteSize - 1 /\ OutputsOf[type] \in 0 .. ByteSize - 1
  BY Widths
<1>2. DEFINE s == Read(doc)
<1>3. s \in Statuses(InputsOf[type], OutputsOf[type])
  OBVIOUS
<1> HIDE DEF s
<1>4. /\ Readable(Encode(s, InputsOf[type], OutputsOf[type]), InputsOf[type], OutputsOf[type])
      /\ Decode(Encode(s, InputsOf[type], OutputsOf[type]), InputsOf[type], OutputsOf[type]) = s
  BY <1>1, <1>3, RoundTrip
<1> QED
  BY <1>4 DEF s, aggregate_status, status_data_valid, Read

\* The parts of a status.
LEMMA StatusParts ==
  ASSUME NEW ni, NEW no, NEW s \in Statuses(ni, no)
  PROVE  /\ s.inputs \in [1 .. ni -> BOOLEAN]
         /\ s.outputs \in [1 .. no -> [err : BOOLEAN, st : BOOLEAN]]
         /\ s.presses \in Nat
BY WidthAssumption DEF Statuses

\* Passing a status on counts its presses once, here or in the error message.
LEMMA PassOnCounts ==
  ASSUME Inv, NEW d, PassOn(d), status_data_valid(d), type' = type, Read(d).presses \in Nat
  PROVE  /\ handed' \in Nat /\ missed' \in Nat /\ short' \in BOOLEAN
         /\ handed' + missed' = handed + missed + Read(d).presses
         /\ error' = None \/ error' \in Int
         /\ error' = None \/ (2 * error' < WordSize /\ -2 * error' <= WordSize)
         /\ ErrorCountsMissed'
         /\ app' = IF online THEN d ELSE app
<1> DEFINE p == Read(d).presses
           e == IF error = None THEN 0 ELSE error
<1>1. /\ handed \in Nat /\ missed \in Nat /\ short \in BOOLEAN /\ type \in DeviceTypes
      /\ error = None \/ error \in Int
      /\ error = None \/ (2 * error < WordSize /\ -2 * error <= WordSize)
      /\ p \in Nat
  BY DEF Inv, TypeOK
<1>2. None \notin Int /\ WordSize \in Nat \ {0}
  BY <1>1, Widths
<1>3. type # "button" /\ ~short =>
        /\ 2 * missed < WordSize => e = missed
        /\ IF e >= 0 THEN e = AsInt(missed) ELSE \E then \in 0 .. missed : e = AsInt(then)
  BY DEF Inv, ErrorCountsMissed
<1>4. CASE online
  <2>1. /\ app' = d /\ handed' = handed + p /\ error' = error /\ missed' = missed
        /\ short' = short
    BY <1>4 DEF PassOn
  <2>2. ErrorCountsMissed'
    BY <2>1 DEF Inv, ErrorCountsMissed
  <2>3. /\ handed' \in Nat /\ missed' \in Nat
        /\ handed' + missed' = handed + missed + p
    BY <1>1, <2>1
  <2> QED
    BY <1>1, <1>4, <2>1, <2>2, <2>3
<1>5. CASE ~online
  <2>1. missed' = missed + p /\ app' = app /\ handed' = handed
    BY <1>5 DEF PassOn
  <2>2. /\ handed' \in Nat /\ missed' \in Nat
        /\ handed' + missed' = handed + missed + p
    BY <1>1, <2>1
  <2>3. \/ ErrorAggregates(d) /\ error' = aggregate_error(d) /\ short' = short
        \/ ~ErrorAggregates(d) /\ error' = error /\ short' = short
        \/ short' = TRUE /\ error' = error
    BY <1>5 DEF PassOn
  <2>4. CASE ErrorAggregates(d) /\ error' = aggregate_error(d) /\ short' = short
    <3>1. CASE type = "button"
      <4>1. error' = 0
        BY <2>4, <3>1 DEF aggregate_error, button_aggregate_error
      <4>2. ErrorCountsMissed'
        BY <3>1 DEF ErrorCountsMissed
      <4> QED
        BY <1>1, <1>2, <1>5, <2>1, <2>2, <2>4, <4>1, <4>2
    <3>2. CASE type # "button"
      <4>1. error' = AsInt(e + p) /\ e \in Nat
        BY <1>1, <2>4, <3>2 DEF ErrorAggregates, ErrorReads, aggregate_error, arduino_aggregate_error
      <4>2. /\ error' \in Int
            /\ error' <= e + p
            /\ 2 * (e + p) < WordSize => error' = e + p
            /\ 2 * error' < WordSize
            /\ -2 * error' <= WordSize
        BY <1>1, <4>1, AsIntOfNat
      <4>3. short \/ error' = AsInt(missed')
        <5>1. SUFFICES ASSUME ~short PROVE error' = AsInt(missed')
          BY <1>1
        <5>2. e = AsInt(missed) /\ AsInt(missed) >= 0
          BY <1>3, <3>2, <4>1, <5>1
        <5>3. AsInt(AsInt(missed) + p) = AsInt(missed + p)
          BY <1>1, <5>2, CountOn
        <5> QED
          BY <2>1, <4>1, <5>2, <5>3
      <4>4. short \/ (2 * missed' < WordSize => error' = missed')
        BY <2>2, <4>3, AsIntOfNat
      <4>5. short \/ \E then \in 0 .. missed' : error' = AsInt(then)
        BY <2>2, <4>3
      <4>6. ErrorCountsMissed'
        BY <1>2, <2>4, <4>2, <4>3, <4>4, <4>5 DEF ErrorCountsMissed
      <4> QED
        BY <1>1, <1>5, <2>1, <2>2, <2>4, <4>2, <4>6
    <3> QED
      BY <3>1, <3>2
  <2>5. CASE ~ErrorAggregates(d) /\ error' = error /\ short' = short
    <3>1. type # "button" /\ error # None /\ ~(error >= 0)
      BY <2>5 DEF ErrorAggregates, ErrorReads
    <3>2. e = error /\ error \in Int /\ e < 0
      BY <1>1, <3>1
    <3>3. short \/ \E then \in 0 .. missed : e = AsInt(then)
      BY <1>3, <3>1, <3>2
    <3>4. short \/ ~(2 * missed < WordSize)
      BY <1>1, <1>3, <3>1, <3>2
    <3>5. 0 .. missed \subseteq 0 .. missed' /\ missed <= missed'
      BY <1>1, <2>1
    <3>6. short \/ ~(2 * missed' < WordSize)
      <4>1. 2 * missed' < WordSize => 2 * missed < WordSize
        <5>1. missed \in Nat /\ missed' \in Nat /\ WordSize \in Nat /\ missed <= missed'
          BY <1>1, <1>2, <2>2, <3>5
        <5> QED
          BY <5>1, HalfFits
      <4> QED
        BY <3>4, <4>1, Zenon
    <3>7. short \/ \E then \in 0 .. missed' : e = AsInt(then)
      BY <3>3, <3>5
    <3>8. ErrorCountsMissed'
      BY <1>1, <2>5, <3>1, <3>2, <3>6, <3>7 DEF ErrorCountsMissed
    <3> QED
      BY <1>1, <1>5, <2>1, <2>2, <2>5, <3>8
  <2>6. CASE short' = TRUE /\ error' = error
    <3>1. ErrorCountsMissed'
      BY <2>6 DEF ErrorCountsMissed
    <3> QED
      BY <1>1, <1>5, <2>1, <2>2, <2>6, <3>1
  <2> QED
    BY <2>3, <2>4, <2>5, <2>6
<1> QED
  BY <1>1, <1>4, <1>5 DEF Inv, TypeOK

LEMMA InitInv == Init => Inv
<1> SUFFICES ASSUME Init PROVE Inv
  OBVIOUS
<1>1. WordSize \in Nat \ {0} /\ MaxStatuses \in Nat /\ None \notin Int
  BY WidthAssumption, AggregationAssumption
<1>2. TypeOK
  <2>1. 0 \in 0 .. MaxStatuses /\ {0} \subseteq Nat
    BY <1>1
  <2> QED
    BY <2>1, Zenon DEF Init, TypeOK
<1>3. CurrentIsLast /\ AppSeesCurrent /\ NoPressHeldBack
  BY <1>1 DEF Init, CurrentIsLast, AppSeesCurrent, NoPressHeldBack
<1>4. ErrorCountsMissed
  <2>1. AsInt(0) = 0
    BY <1>1, AsIntOfNat
  <2> QED
    BY <1>1, <2>1 DEF Init, ErrorCountsMissed
<1> QED
  BY <1>2, <1>3, <1>4 DEF Inv, Init

\* A status that replaces the current one and is passed on: doc is what was
\* received, d how it is kept.
LEMMA PassedInv ==
  ASSUME Inv, NEW doc \in Documents[type], NEW d, Accepted(doc), PassOn(d),
         current' = d, lost' = lost, status_data_valid(d), Read(d) = Read(doc)
  PROVE  Inv'
<1>1. /\ received' = received + 1 /\ received < MaxStatuses
      /\ type' = type /\ online' = online /\ noted' = noted
      /\ lastRead' = Read(doc)
      /\ pressed' = pressed + Read(doc).presses
      /\ status_data_valid(doc)
  BY DEF Accepted, Receive
<1>2. type \in DeviceTypes /\ online \in BOOLEAN
      /\ {pressed, noted, handed, missed, lost} \subseteq Nat
      /\ received \in 0 .. MaxStatuses
  BY DEF Inv, TypeOK
<1>3. Read(doc) \in Statuses(InputsOf[type], OutputsOf[type]) /\ Read(doc).presses \in Nat
  BY <1>1, <1>2, ReadIsStatus, StatusParts
<1>4. /\ handed' \in Nat /\ missed' \in Nat /\ short' \in BOOLEAN
      /\ handed' + missed' = handed + missed + Read(d).presses
      /\ error' = None \/ error' \in Int
      /\ error' = None \/ (2 * error' < WordSize /\ -2 * error' <= WordSize)
      /\ ErrorCountsMissed'
      /\ app' = IF online THEN d ELSE app
  BY <1>1, <1>3, PassOnCounts
<1>5. /\ status_data_valid(d)' = status_data_valid(d)
      /\ status_data_valid(current)' = status_data_valid(d)
      /\ status_data_valid(app)' = status_data_valid(app')
      /\ Read(current)' = Read(d)
      /\ Read(app)' = Read(app')
  BY <1>1 DEF status_data_valid, Read
<1>6. TypeOK'
  <2>1. received' \in 0 .. MaxStatuses /\ pressed' \in Nat
    BY <1>1, <1>2, <1>3, AggregationAssumption
  <2>2. app' = None \/ status_data_valid(app')
    BY <1>4 DEF Inv, TypeOK
  <2>3. lastRead' \in Statuses(InputsOf[type'], OutputsOf[type'])
    BY <1>1, <1>3
  <2> QED
    BY <1>1, <1>2, <1>4, <1>5, <2>1, <2>2, <2>3 DEF TypeOK
<1>7. (current # None => lastRead \in Statuses(InputsOf[type], OutputsOf[type]))'
  BY <1>1, <1>3
<1>8. CurrentIsLast'
  BY <1>1, <1>5 DEF CurrentIsLast
<1>9. AppSeesCurrent'
  BY <1>1, <1>4, <1>5 DEF AppSeesCurrent
<1>10. NoPressHeldBack'
  <2>1. type = "opta" => pressed = handed + missed + noted + lost
    BY DEF Inv, NoPressHeldBack
  <2>2. type = "opta" => pressed' = handed' + missed' + noted' + lost'
    BY <1>1, <1>2, <1>3, <1>4, <2>1
  <2> QED
    BY <1>1, <2>2 DEF NoPressHeldBack
<1> QED
  BY <1>4, <1>6, <1>7, <1>8, <1>9, <1>10 DEF Inv

\* What a status that is held back has in common with the current one.
LEMMA HeldBack ==
  ASSUME type \in DeviceTypes, NEW doc, ~send_status_condition(doc),
         Read(current) \in Statuses(InputsOf[type], OutputsOf[type]),
         Read(doc) \in Statuses(InputsOf[type], OutputsOf[type])
  PROVE  /\ Read(doc).inputs = Read(current).inputs
         /\ Read(doc).outputs = Read(current).outputs
         /\ type = "opta" => Read(doc).presses = 0 /\ Read(current).presses = 0
<1> DEFINE c == Read(current)
           n == Read(doc)
<1>1. /\ c.inputs \in [1 .. InputsOf[type] -> BOOLEAN]
      /\ n.inputs \in [1 .. InputsOf[type] -> BOOLEAN]
      /\ c.outputs \in [1 .. OutputsOf[type] -> [err : BOOLEAN, st : BOOLEAN]]
      /\ n.outputs \in [1 .. OutputsOf[type] -> [err : BOOLEAN, st : BOOLEAN]]
      /\ c.presses \in Nat /\ n.presses \in Nat
  BY StatusParts
<1> HIDE DEF c, n
<1>2. ~InputsDiffer(c, n) => n.inputs = c.inputs
  BY <1>1 DEF InputsDiffer
<1>3. ~OutputsDiffer(c, n) => n.outputs = c.outputs
  BY <1>1 DEF OutputsDiffer
<1>4. ~PressesMatter(c, n) => n.presses = 0 /\ c.presses = 0
  BY <1>1 DEF PressesMatter
<1>5. CASE type = "opta"
  <2>1. ~arduino_opta_condition(c, n)
    BY <1>5 DEF send_status_condition, c, n
  <2> QED
    BY <1>2, <1>3, <1>4, <2>1 DEF arduino_opta_condition, c, n
<1>6. CASE type = "mega"
  <2>1. ~arduino_mega_condition(c, n)
    BY <1>6 DEF send_status_condition, c, n
  <2> QED
    BY <1>2, <1>3, <1>6, <2>1 DEF arduino_mega_condition, c, n
<1>7. CASE type = "uno"
  <2>1. ~arduino_uno_condition(c, n)
    BY <1>7 DEF send_status_condition, c, n
  <2> QED
    BY <1>2, <1>3, <1>7, <2>1 DEF arduino_uno_condition, c, n
<1>8. CASE type = "button"
  <2>1. ~button_condition(c, n)
    BY <1>8 DEF send_status_condition, c, n
  <2>2. n.outputs = c.outputs
    BY <1>1, <1>8, AggregationAssumption
  <2> QED
    BY <1>2, <1>8, <2>1, <2>2 DEF button_condition, c, n
<1> QED
  BY <1>5, <1>6, <1>7, <1>8 DEF DeviceTypes

LEMMA KeptInv ==
  ASSUME Inv, NEW doc \in Documents[type], KeptStatus(doc)
  PROVE  Inv'
<1> DEFINE d == aggregate_status(doc)
<1>1. /\ current # None /\ current' = d /\ ~send_status_condition(doc)
      /\ received' = received + 1 /\ received < MaxStatuses
      /\ type' = type /\ online' = online /\ noted' = noted
      /\ lastRead' = Read(doc)
      /\ pressed' = pressed + Read(doc).presses
      /\ status_data_valid(doc)
      /\ UNCHANGED <<error, app, handed, missed, lost, short>>
  BY DEF KeptStatus, Accepted, Receive
<1>2. type \in DeviceTypes /\ online \in BOOLEAN
      /\ {pressed, noted, handed, missed, lost} \subseteq Nat
      /\ received \in 0 .. MaxStatuses
  BY DEF Inv, TypeOK
<1>3. Read(doc) \in Statuses(InputsOf[type], OutputsOf[type]) /\ Read(doc).presses \in Nat
  BY <1>1, <1>2, ReadIsStatus, StatusParts
<1>4. status_data_valid(d) /\ Read(d) = Read(doc)
  BY <1>2, <1>3, AggregateReads
<1> HIDE DEF d
<1>5. Read(current) \in Statuses(InputsOf[type], OutputsOf[type])
  BY <1>1 DEF Inv, CurrentIsLast
<1>6. /\ Read(doc).inputs = Read(current).inputs
      /\ Read(doc).outputs = Read(current).outputs
      /\ type = "opta" => Read(doc).presses = 0 /\ Read(current).presses = 0
  BY <1>1, <1>2, <1>3, <1>5, HeldBack
<1>7. /\ status_data_valid(current)' = status_data_valid(d)
      /\ status_data_valid(app)' = status_data_valid(app)
      /\ Read(current)' = Read(d)
      /\ Read(app)' = Read(app)
  BY <1>1 DEF status_data_valid, Read
<1>8. TypeOK'
  <2>1. received' \in 0 .. MaxStatuses /\ pressed' \in Nat
    BY <1>1, <1>2, <1>3, AggregationAssumption
  <2>2. lastRead' \in Statuses(InputsOf[type'], OutputsOf[type'])
    BY <1>1, <1>3
  <2> QED
    BY <1>1, <1>2, <1>4, <1>7, <2>1, <2>2 DEF Inv, TypeOK
<1>9. (current # None => lastRead \in Statuses(InputsOf[type], OutputsOf[type]))'
  BY <1>1, <1>3
<1>10. CurrentIsLast'
  BY <1>1, <1>4, <1>7 DEF CurrentIsLast
<1>11. AppSeesCurrent'
  BY <1>1, <1>4, <1>6, <1>7 DEF Inv, AppSeesCurrent
<1>12. NoPressHeldBack'
  <2>1. type = "opta" => pressed = handed + missed + noted + lost
    BY DEF Inv, NoPressHeldBack
  <2>2. type = "opta" => pressed' = handed' + missed' + noted' + lost'
    BY <1>1, <1>2, <1>6, <2>1
  <2> QED
    BY <1>1, <2>2 DEF NoPressHeldBack
<1>13. ErrorCountsMissed' /\ (error = None \/ error \in Int)'
  BY <1>1 DEF Inv, ErrorCountsMissed
<1> QED
  BY <1>8, <1>9, <1>10, <1>11, <1>12, <1>13 DEF Inv

\* A status that is dropped changes nothing but the number received, and the
\* count of lost presses when it was valid.
LEMMA DroppedInv ==
  ASSUME Inv, NEW doc \in Documents[type], Reject(doc) \/ AggregationFails(doc)
  PROVE  Inv'
<1>1. /\ received' = received + 1 /\ received < MaxStatuses
      /\ UNCHANGED <<type, current, error, online, app, lastRead, handed, missed, noted, short>>
  BY DEF Reject, AggregationFails, Receive
<1>2. {pressed, noted, handed, missed, lost} \subseteq Nat /\ type \in DeviceTypes
  BY DEF Inv, TypeOK
<1>3. \E p \in Nat : pressed' = pressed + p /\ lost' = lost + p
  <2>1. CASE Reject(doc)
    BY <1>2, <2>1 DEF Reject
  <2>2. CASE AggregationFails(doc)
    <3>1. Read(doc).presses \in Nat
      BY <1>2, <2>2, ReadIsStatus, StatusParts DEF AggregationFails
    <3> QED
      BY <2>2, <3>1 DEF AggregationFails
  <2> QED
    BY <2>1, <2>2
<1>4. {pressed', noted', handed', missed', lost'} \subseteq Nat
  BY <1>1, <1>2, <1>3
<1>5. received' \in 0 .. MaxStatuses
  BY <1>1, AggregationAssumption DEF Inv, TypeOK
<1>6. TypeOK'
  BY <1>1, <1>4, <1>5 DEF Inv, TypeOK, status_data_valid
<1>7. (CurrentIsLast /\ AppSeesCurrent)'
  BY <1>1 DEF Inv, CurrentIsLast, AppSeesCurrent, Read
<1>8. NoPressHeldBack'
  BY <1>1, <1>2, <1>3 DEF Inv, NoPressHeldBack
<1>9. ErrorCountsMissed'
  BY <1>1 DEF Inv, ErrorCountsMissed
<1> QED
  BY <1>1, <1>6, <1>7, <1>8, <1>9 DEF Inv

LEMMA DisconnectInv ==
  ASSUME Inv, Disconnect
  PROVE  Inv'
<1>1. /\ online' = FALSE
      /\ UNCHANGED <<type, current, error, app, received, lastRead, pressed, handed,
                     missed, noted, lost, short>>
  BY DEF Disconnect
<1>2. TypeOK'
  BY <1>1 DEF Inv, TypeOK, status_data_valid
<1>3. (CurrentIsLast /\ AppSeesCurrent)'
  BY <1>1 DEF Inv, CurrentIsLast, AppSeesCurrent, Read
<1>4. (NoPressHeldBack /\ ErrorCountsMissed)'
  BY <1>1 DEF Inv, NoPressHeldBack, ErrorCountsMissed
<1> QED
  BY <1>1, <1>2, <1>3, <1>4 DEF Inv

LEMMA ReconnectInv ==
  ASSUME Inv, Reconnect
  PROVE  Inv'
<1>1. /\ online' = TRUE /\ app' = current /\ error' = None /\ missed' = 0
      /\ noted' = noted + missed /\ short' = FALSE
      /\ UNCHANGED <<type, current, received, lastRead, pressed, handed, lost>>
  BY DEF Reconnect
<1>2. {pressed, noted, handed, missed, lost} \subseteq Nat
  BY DEF Inv, TypeOK
<1>3. TypeOK'
  <2>1. {pressed', handed', missed', noted', lost'} \subseteq Nat
    BY <1>1, <1>2
  <2>2. app' = None \/ status_data_valid(app)'
    BY <1>1 DEF Inv, TypeOK, status_data_valid
  <2>3. current' = None \/ status_data_valid(current)'
    BY <1>1 DEF Inv, TypeOK, status_data_valid
  <2> QED
    BY <1>1, <2>1, <2>2, <2>3 DEF Inv, TypeOK
<1>4. (CurrentIsLast /\ AppSeesCurrent)'
  BY <1>1 DEF Inv, CurrentIsLast, AppSeesCurrent, Read
<1>5. NoPressHeldBack'
  BY <1>1, <1>2 DEF Inv, NoPressHeldBack
<1>6. ErrorCountsMissed'
  <2>1. AsInt(0) = 0
    BY AsIntOfNat, WidthAssumption
  <2> QED
    BY <1>1, <2>1 DEF ErrorCountsMissed
<1> QED
  BY <1>1, <1>3, <1>4, <1>5, <1>6 DEF Inv

LEMMA NextInv == Inv /\ [Next]_vars => Inv'
<1> SUFFICES ASSUME Inv, [Next]_vars PROVE Inv'
  OBVIOUS
<1>1. ASSUME NEW doc \in Documents[type], HandleStatus(doc) PROVE Inv'
  <2>1. CASE Reject(doc) \/ AggregationFails(doc)
    BY <2>1, DroppedInv
  <2>2. CASE FirstStatus(doc)
    <3>1. Accepted(doc) /\ PassOn(doc) /\ current' = doc /\ status_data_valid(doc) /\ lost' = lost
      BY <2>2 DEF FirstStatus, Accepted
    <3> QED
      BY <3>1, PassedInv
  <2>3. CASE PassedStatus(doc)
    <3>1. /\ Accepted(doc) /\ PassOn(aggregate_status(doc)) /\ current' = aggregate_status(doc)
          /\ lost' = lost /\ status_data_valid(doc) /\ type \in DeviceTypes
      BY <2>3 DEF PassedStatus, Accepted, Inv, TypeOK
    <3>2. status_data_valid(aggregate_status(doc)) /\ Read(aggregate_status(doc)) = Read(doc)
      BY <3>1, ReadIsStatus, AggregateReads
    <3> QED
      BY <3>1, <3>2, PassedInv
  <2>4. CASE KeptStatus(doc)
    BY <2>4, KeptInv
  <2> QED
    BY <1>1, <2>1, <2>2, <2>3, <2>4 DEF HandleStatus
<1>2. CASE Disconnect
  BY <1>2, DisconnectInv
<1>3. CASE Reconnect
  BY <1>3, ReconnectInv
<1>4. CASE UNCHANGED vars
  <2>1. UNCHANGED <<type, current, error, online, app, received, lastRead, pressed, handed,
                    missed, noted, lost, short>>
    BY <1>4 DEF vars
  <2>2. TypeOK'
    <3>1. /\ status_data_valid(current)' = status_data_valid(current)
          /\ status_data_valid(app)' = status_data_valid(app)
      BY <2>1 DEF status_data_valid
    <3>2. online' \in BOOLEAN /\ short' \in BOOLEAN /\ received' \in 0 .. MaxStatuses
      BY <2>1 DEF Inv, TypeOK
    <3> QED
      BY <2>1, <3>1, <3>2 DEF Inv, TypeOK
  <2>3. (CurrentIsLast /\ AppSeesCurrent)'
    BY <2>1 DEF Inv, CurrentIsLast, AppSeesCurrent, Read
  <2>4. (NoPressHeldBack /\ ErrorCountsMissed)'
    BY <2>1 DEF Inv, NoPressHeldBack, ErrorCountsMissed
  <2> QED
    BY <2>1, <2>2, <2>3, <2>4 DEF Inv
<1> QED
  BY <1>1, <1>2, <1>3, <1>4 DEF Next

THEOREM InvHolds == Spec => []Inv
BY InitInv, NextInv, PTL DEF Spec

-----------------------------------------------------------------------------
(***************************************************************************)
(* The properties.                                                         *)
(***************************************************************************)

\* Every variable keeps its type; in particular the error number always fits
\* an int and what the gateway holds can be read.
THEOREM TypeCorrect == Spec => []TypeOK
<1>1. Inv => TypeOK
  BY DEF Inv
<1> QED
  BY InvHolds, <1>1, PTL

\* Whatever documents the device sends, its current status reads as the valid
\* one it was made from: aggregate_status loses nothing.
THEOREM NothingLostInAggregation == Spec => []CurrentIsLast
<1>1. Inv => CurrentIsLast
  BY DEF Inv
<1> QED
  BY InvHolds, <1>1, PTL

\* A status send_status_condition held back has nothing new for the external
\* server, for devices with any number of inputs and outputs.
THEOREM NothingNewHeldBack == Spec => []AppSeesCurrent
<1>1. Inv => AppSeesCurrent
  BY DEF Inv
<1> QED
  BY InvHolds, <1>1, PTL

\* Every press of the Opta's button in a valid status is passed on or counted,
\* unless there was no memory to aggregate that status.
THEOREM PressesPassedOn == Spec => []NoPressHeldBack
<1>1. Inv => NoPressHeldBack
  BY DEF Inv
<1> QED
  BY InvHolds, <1>1, PTL

\* The error message counts the missed presses, narrowed to an int, until the
\* number is negative for once, whatever the width of the integers.
THEOREM PressesCounted == Spec => []ErrorCountsMissed
<1>1. Inv => ErrorCountsMissed
  BY DEF Inv
<1> QED
  BY InvHolds, <1>1, PTL
=============================================================================

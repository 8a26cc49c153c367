------------------------ MODULE MCStatusAggregation ------------------------
(***************************************************************************)
(* Small instances of StatusAggregation.  An Arduino has two inputs and    *)
(* one output here (the Uno one input and two outputs), the button one     *)
(* input and no output; a byte has 4 values and a word 8.                  *)
(***************************************************************************)
EXTENDS StatusAggregation

MCInputsOf == [t \in DeviceTypes |-> IF t \in {"uno", "button"} THEN 1 ELSE 2]

MCOutputsOf == [t \in DeviceTypes |->
  CASE t = "button" -> 0 [] t = "uno" -> 2 [] OTHER -> 1]

\* Documents a device of this type writes.
Regular(t) ==
  {Encode(s, MCInputsOf[t], MCOutputsOf[t]) :
     s \in [inputs  : [1 .. MCInputsOf[t] -> BOOLEAN],
            outputs : [1 .. MCOutputsOf[t] -> [err : BOOLEAN, st : {TRUE}] \cup {Off}],
            presses : IF t = "opta" THEN {0, 1, 3} ELSE {0}]}

\* Documents in another order, with repeated, foreign or wrapping numbers,
\* with entries too many, or not readable.
Odd(t) ==
  LET in(n, b)  == [ok |-> TRUE, num |-> n, st |-> b]
      out(n)    == [ok |-> TRUE, num |-> n, err |-> FALSE, st |-> TRUE]
      broken    == [ok |-> FALSE]
      doc(i, o, p) == [json |-> TRUE, ins |-> i, outs |-> o, ok |-> TRUE, presses |-> p]
  IN  {doc(<<in(2, TRUE), in(1, FALSE)>>, <<out(1), out(1)>>, 1),
       doc(<<in(1, TRUE), in(5, FALSE), in(1, TRUE)>>, <<out(1), out(2)>>, 9),
       doc(<<in(0, TRUE), in(1, TRUE)>>, <<out(5), out(7)>>, -1),
       doc(<<in(1, TRUE), broken>>, <<out(1), out(2)>>, 0),
       doc(<<in(1, TRUE), in(2, TRUE)>>, <<broken>>, 0),
       doc(<<>>, <<>>, 0),
       [doc(<<in(1, TRUE), in(2, TRUE)>>, <<out(1), out(2)>>, 0) EXCEPT !.ok = FALSE],
       [json |-> FALSE]}

MCDocuments == [t \in DeviceTypes |-> Regular(t) \cup Odd(t)]
=============================================================================

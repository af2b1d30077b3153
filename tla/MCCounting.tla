----------------------------- MODULE MCCounting -----------------------------
(***************************************************************************)
(* Loops for TLC, with ints of four values and long longs of ten.          *)
(***************************************************************************)
EXTENDS UMCounting

Ints == {Value("INT", n) : n \in InType("INT")}
LongLongs == {Value("LONGLONG", n) : n \in InType("LONGLONG")}
Booleans == {Bool(b) : b \in BOOLEAN}
Halves == {[type |-> "DOUBLE", n |-> n, half |-> TRUE] : n \in InType("INT")}

SomeCounters == {NullValue} \cup Booleans \cup Ints \cup LongLongs
SomeLimits == SomeCounters \cup Halves \cup {Value("DOUBLE", 1)}

(* Nothing, truth, a wide number, and one that is truncated to zero. *)
SomeSteps ==
    {NullValue, Bool(TRUE), Value("INT", 1), Value("INT", -2), Value("LONGLONG", 2),
     Value("LONGLONG", 4), Value("DOUBLE", 1)} \cup Halves

=============================================================================

---------------------------- MODULE MCDocuments ----------------------------
(***************************************************************************)
(* A document for TLC, whose text changes.                                 *)
(***************************************************************************)
EXTENDS UMScriptDocument

CONSTANT kept   \* an environment the host keeps

Function(name, calls) == [name |-> name, calls |-> calls]

(* A main after the function it calls, a call of a function that is not *)
(* there, and a syntax error before main. *)
SomeFunctions ==
    [down  |-> <<Function("f", {}), Function("main", {"f"})>>,
     none  |-> <<Function("main", {"f"})>>,
     error |-> <<Function("f", {})>>]

Documents == {"a"}

(* The host keeps an environment for it. *)
KeptFor == [d \in Documents |-> {kept}]

TextsOf == [d \in Documents |-> DOMAIN SomeFunctions]

=============================================================================

-------------------------- MODULE MCCompilerPipes --------------------------
(***************************************************************************)
(* Compiles for TLC.  compileSource makes an environment for each compile. *)
(***************************************************************************)
EXTENDS UMCompilerPipes

AJob(c, e, s, b, q) ==
    [caller |-> c, env |-> e, size |-> s, bad |-> b, silent |-> q]

(* One thread: a source with a syntax error in the second piece the scanner *)
(* asks for, of which the rest may or may not have been taken out of the     *)
(* pipe by then, and one without, with a comment. *)
OneAfterAnother == <<AJob(1, 1, 6, 3, {}), AJob(1, 2, 4, 0, {2})>>

(* A syntax error in a source that does not fit into the pipe. *)
SyntaxError == <<AJob(1, 1, 4, 2, {2})>>

(* Two threads that compile two documents. *)
SideBySide == <<AJob(1, 1, 1, 0, {}), AJob(2, 2, 1, 0, {})>>

=============================================================================

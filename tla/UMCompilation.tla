---------------------------- MODULE UMCompilation ----------------------------
(***************************************************************************)
(* What compile:stdOut:stdErr: promises its callers, without threads,      *)
(* pipes or descriptors: the source is scanned from its beginning to its   *)
(* end, or to a syntax error, and compile answers with the echo of the     *)
(* tokens, but for less than a buffer of it.                               *)
(***************************************************************************)
EXTENDS Naturals, Sequences, FiniteSets

CONSTANTS
    Jobs,       \* the compiles, as in UMCompilerPipes
    FillSize,   \* bytes the scanner asks for before it goes on
    EchoSize    \* bytes of echo that are written together

VARIABLES
    phase,      \* of each job: "idle", "compiling", "answered" or "failed"
    bytes,      \* the bytes of its source that were scanned
    output,     \* the bytes of echo it answered with
    gone        \* has the process been killed?

vars == <<phase, bytes, output, gone>>

Job == DOMAIN Jobs
Ended(j) == phase[j] \in {"answered", "failed"}

(* A thread compiles its sources in order, an environment one at a time. *)
Begin(j) ==
    /\ phase[j] = "idle"
    /\ \A i \in Job : /\ Jobs[i].caller = Jobs[j].caller /\ i < j => Ended(i)
                      /\ Jobs[i].env = Jobs[j].env => phase[i] # "compiling"
    /\ phase' = [phase EXCEPT ![j] = "compiling"]
    /\ UNCHANGED <<bytes, output, gone>>

(* Nothing was scanned: there were no descriptors for the pipes. *)
Fail(j) ==
    /\ phase[j] = "compiling" /\ bytes[j] = 0
    /\ phase' = [phase EXCEPT ![j] = "failed"]
    /\ UNCHANGED <<bytes, output, gone>>

(* Where the parser gives up, or the source ends. *)
End(j) == IF Jobs[j].bad = 0 THEN Jobs[j].size ELSE Jobs[j].bad

Scan(j) ==
    /\ phase[j] = "compiling"
    /\ \E n \in bytes[j] + 1 .. End(j) : bytes' = [bytes EXCEPT ![j] = n]
    /\ UNCHANGED <<phase, output, gone>>

(* The first n bytes without comments and bad characters. *)
Tokens(j, n) == (1 .. n) \ Jobs[j].silent

Answer(j) ==
    /\ phase[j] = "compiling" /\ bytes[j] = End(j)
    /\ \E n \in 0 .. Cardinality(Tokens(j, End(j))) :
          /\ Cardinality(Tokens(j, End(j))) < n + EchoSize
          /\ output' = [output EXCEPT ![j] = n]
    /\ phase' = [phase EXCEPT ![j] = "answered"]
    /\ UNCHANGED <<bytes, gone>>

(* What the scanner had asked for when it looked at the last byte. *)
Asked(j) == ((End(j) - 1) \div FillSize + 1) * FillSize

(* SIGPIPE, for a source whose end nobody reads any more. *)
Die ==
    \E j \in Job :
        /\ Jobs[j].bad # 0 /\ bytes[j] = End(j) /\ Asked(j) < Jobs[j].size
        /\ gone' = TRUE
        /\ UNCHANGED <<phase, bytes, output>>

-----------------------------------------------------------------------------
Init ==
    /\ phase = [j \in Job |-> "idle"]
    /\ bytes = [j \in Job |-> 0]
    /\ output = [j \in Job |-> 0]
    /\ gone = FALSE

Compile(j) == Begin(j) \/ Fail(j) \/ Scan(j) \/ Answer(j)
Next == ~gone /\ (Die \/ \E j \in Job : Compile(j))

Safety == Init /\ [][Next]_vars

(* Every source is compiled, in an order that the callers allow. *)
Spec == Safety /\ \A j \in Job : WF_vars(~gone /\ Compile(j))

=============================================================================

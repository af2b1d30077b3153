---------------------------- MODULE UMProtocols ----------------------------
(***************************************************************************)
(* How each operator and library function of umscript evaluates its        *)
(* parameters under interrupts: what its evaluateWithParams:environment:   *)
(* continueFrom: pulls from the interrupt it continues from, which         *)
(* parameters it then evaluates, and what its catch blocks record.         *)
(* What a function computes from the values is left symbolic.              *)
(***************************************************************************)
EXTENDS Naturals, Sequences

CONSTANT MaxParams      \* bound: the parameters of one call

ASSUME ParamsAssumption == MaxParams \in Nat /\ MaxParams >= 3

Counts == 0 .. MaxParams
Always == MaxParams + 1

(***************************************************************************)
(* A step evaluates parameter param, counted from 0, unless the position   *)
(* the function starts at is beyond upTo, and keeps the value in a local;  *)
(* local 0 is one that nothing reads.  An interrupt that leaves the        *)
(* parameter is caught and recorded with position pos and the locals       *)
(* "saves" as temporaryResult and temporaryResult2.  Not every function    *)
(* hands the interrupt it continues from on to its parameters (continued)  *)
(* or catches the one that leaves them (caught), and one steps over a      *)
(* parameter depending on the values (optional).                           *)
(***************************************************************************)
Step(param, local, pos, upTo, saves) ==
    [param |-> param, local |-> local, pos |-> pos, upTo |-> upTo,
     saves |-> saves, continued |-> TRUE, caught |-> TRUE, optional |-> FALSE]

(* temporaryResult, or the second one, goes to a local if start is in at. *)
Restore(local, at) == [local |-> local, at |-> at]
First == <<Restore(1, Counts)>>

(***************************************************************************)
(* A protocol: the parameter counts at which reading params raises before  *)
(* anything else, those the function accepts (any other is answered with   *)
(* discreteNull), when it pulls its entry ("first": before the count is    *)
(* looked at, "accepted": after, "never"), what it restores from it, its   *)
(* steps for each accepted count, and whether it folds each value into     *)
(* the local instead of keeping it.                                        *)
(***************************************************************************)
Function(accepts, pulls, restores, steps) ==
    [raises |-> {}, accepts |-> accepts, pulls |-> pulls,
     restores |-> restores, folds |-> FALSE,
     steps |-> [n \in Counts |-> IF n \in accepts THEN steps[n] ELSE <<>>]]

EachParam(step(_)) == [n \in Counts |-> [i \in 1 .. n |-> step(i - 1)]]
TheSteps(steps) == [n \in Counts |-> steps]

-----------------------------------------------------------------------------
(* Folds over all parameters: result = [result op: next] *)

Folding(accepts, restores, saves) ==
    [Function(accepts, "first", restores,
              EachParam(LAMBDA i : Step(i, 1, i, i, saves)))
        EXCEPT !.folds = TRUE]

(* The catch blocks of most folds leave temporaryResult unset. *)
LosingFold == Folding(Counts, First, <<>>)

(* Mutant: add does not record its partial result. *)
AddLoses == LosingFold

Add      == Folding(Counts, First, <<1>>)
Or       == LosingFold
Xor      == LosingFold
Subtract == LosingFold
Multiply == LosingFold
Divide   == LosingFold
Modulo   == LosingFold
Dot      == Folding(Counts, <<>>, <<>>)
And      == [Folding(Counts \ {0, 1}, First, <<1>>)
                EXCEPT !.pulls = "accepted"]

(* Array and struct accesses always begin with the first parameter. *)
Access ==
    [Function(Counts \ {0, 1}, "first", <<>>,
              EachParam(LAMBDA i : Step(i, 1, 0, Always, <<>>)))
        EXCEPT !.folds = TRUE]
ArrayAccess  == Access
StructAccess == Access

-----------------------------------------------------------------------------
(* Two operands: the second is evaluated in any case *)

Operands(restores, saves) ==
    Function({2}, "accepted", restores,
             TheSteps(<<Step(0, 1, 0, 0, <<>>),
                        Step(1, 2, 1, Always, saves)>>))

TwoOperands == Operands(First, <<1>>)

(* Mutant: the second operand is recorded at the first's position. *)
EqualAtZero ==
    Function({2}, "accepted", First,
             TheSteps(<<Step(0, 1, 0, 0, <<>>), Step(1, 2, 0, Always, <<1>>)>>))

Equal                == TwoOperands
EqualCaseInsensitive == TwoOperands
NotEqual             == TwoOperands
LessThan             == TwoOperands
LessOrEqual          == TwoOperands
GreaterThan          == TwoOperands
GreaterOrEqual       == TwoOperands
SetVar               == TwoOperands
SetField             == TwoOperands
StartsWith           == TwoOperands
EndsWith             == TwoOperands
HasPrefix            == TwoOperands
HasSuffix            == TwoOperands
Regex                == TwoOperands
NamedlistAdd         == TwoOperands
NamedlistRemove      == TwoOperands
NamedlistContains    == TwoOperands

(* The bit operators restore the first operand at position 1 only; bit_and *)
(* does not record it. *)
BitOperands(saves) == Operands(<<Restore(1, {1})>>, saves)
BitOr         == BitOperands(<<1>>)
BitXor        == BitOperands(<<1>>)
BitShiftLeft  == BitOperands(<<1>>)
BitShiftRight == BitOperands(<<1>>)
BitAnd        == BitOperands(<<>>)

-----------------------------------------------------------------------------
(* One operand *)

OneOperand(accepts, pulls) ==
    Function(accepts, pulls, <<>>, TheSteps(<<Step(0, 1, 0, Always, <<>>)>>))

(* Conversions read params[0] whatever the count is. *)
Conversion == [OneOperand(Counts \ {0}, "first") EXCEPT !.raises = {0}]

(* Mutant: not leaves its entry to the function in its operand. *)
NotLeavesEntry == OneOperand(Counts \ {0}, "never")

Not       == OneOperand(Counts \ {0}, "accepted")
BitNot    == OneOperand({1}, "first")
GetField  == OneOperand({1}, "first")
IntOf     == Conversion
LongLong  == Conversion
Double    == Conversion
StringOf  == Conversion
Data      == Conversion
CountryOf == Function({1}, "accepted", First,
                      TheSteps(<<Step(0, 1, 0, 0, <<>>)>>))

(* getvar neither hands the interrupt on nor catches one. *)
GetVar ==
    Function({1}, "first", <<>>,
             TheSteps(<<[Step(0, 1, 0, Always, <<>>)
                            EXCEPT !.continued = FALSE, !.caught = FALSE]>>))

(* Only the right side of an assignment is evaluated, and its entry is     *)
(* recorded but never pulled. *)
Assign ==
    Function({2}, "never", <<>>, TheSteps(<<Step(1, 1, 0, Always, <<>>)>>))

-----------------------------------------------------------------------------
(* Functions with protocols of their own *)

(* print hands the interrupt on to none of its parameters. *)
PrintAll ==
    Function(Counts, "first", <<>>,
             EachParam(LAMBDA i : [Step(i, 0, i, i, <<>>)
                                      EXCEPT !.continued = FALSE]))

(* sizeOfType and sizeOfVar ignore interrupts. *)
SizeOf ==
    [Function(Counts, "never", <<>>,
              EachParam(LAMBDA i : [Step(i, 1, 0, Always, <<>>)
                                       EXCEPT !.continued = FALSE,
                                              !.caught = FALSE]))
        EXCEPT !.folds = TRUE]
SizeOfType == SizeOf
SizeOfVar  == SizeOf

(* substr: temporaryResult2 is recorded from startValue and restored into  *)
(* lenValue; the length is evaluated again, unless the start is beyond the *)
(* end of the string. *)
Substr ==
    LET two == <<Step(0, 1, 0, 0, <<>>), Step(1, 2, 1, 1, <<1>>)>>
        len == Step(2, 3, 2, Always, <<1, 2>>)
    IN Function({2, 3}, "accepted", <<Restore(1, Counts), Restore(3, Counts)>>,
                [n \in Counts |->
                    IF n = 2 THEN two
                    ELSE two \o <<len, [len EXCEPT !.continued = FALSE,
                                                   !.caught = FALSE,
                                                   !.optional = TRUE]>>])

(* With three parameters stringcompare reads params[3]. *)
StringCompare ==
    [Function(Counts \ {0, 1}, "accepted", First, TwoOperands.steps)
        EXCEPT !.raises = {3},
               !.steps = [n \in Counts |->
                             IF n \in {0, 1, 3} THEN <<>>
                             ELSE TwoOperands.steps[2]]]

(* datetime and hash read all their parameters at entry.  The third value  *)
(* of datetime is the second parameter's again. *)
RestoreBoth == <<Restore(1, Counts \ {0}), Restore(2, Counts \ {0, 1})>>

DateTime ==
    [Function(Counts \ {0, 1, 2}, "accepted", RestoreBoth,
              TheSteps(<<Step(0, 1, 0, 0, <<>>), Step(1, 2, 1, 1, <<1>>),
                         Step(1, 3, 2, 2, <<1, 2>>)>>))
        EXCEPT !.raises = {0, 1, 2}]

Hash ==
    [Function({2}, "accepted", RestoreBoth,
              TheSteps(<<Step(0, 1, 0, 0, <<>>), Step(1, 2, 1, 1, <<1>>)>>))
        EXCEPT !.raises = {0, 1}]

(* Functions that evaluate none of their parameters; starIdentifier        *)
(* answers nil, as a fold over nothing does. *)
NoOperand == Function(Counts, "never", <<>>, TheSteps(<<>>))
AddressOf      == NoOperand
CastTo         == NoOperand
StarIdentifier == [NoOperand EXCEPT !.folds = TRUE]
External       == NoOperand

-----------------------------------------------------------------------------
(* The functions by their names *)
Protocol ==
    [add |-> Add, sub |-> Subtract, mul |-> Multiply, div |-> Divide,
     modulo |-> Modulo, dot |-> Dot, and |-> And, or |-> Or, xor |-> Xor,
     arrayAccess |-> ArrayAccess, structAccess |-> StructAccess,
     equal |-> Equal, equalCaseInsensitive |-> EqualCaseInsensitive,
     notequal |-> NotEqual, lessthan |-> LessThan, lessorequal |-> LessOrEqual,
     greaterthan |-> GreaterThan, greaterorequal |-> GreaterOrEqual,
     setvar |-> SetVar, setfield |-> SetField, startswith |-> StartsWith,
     endswith |-> EndsWith, has_prefix |-> HasPrefix, has_suffix |-> HasSuffix,
     regex |-> Regex, namedlist_add |-> NamedlistAdd,
     namedlist_remove |-> NamedlistRemove,
     namedlist_contains |-> NamedlistContains, bit_or |-> BitOr,
     bit_xor |-> BitXor, bit_shiftleft |-> BitShiftLeft,
     bit_shiftright |-> BitShiftRight, bit_and |-> BitAnd, not |-> Not,
     bit_not |-> BitNot, getfield |-> GetField, int |-> IntOf,
     longlong |-> LongLong, double |-> Double, string |-> StringOf,
     data |-> Data, country_of |-> CountryOf, getvar |-> GetVar,
     assign |-> Assign, print |-> PrintAll, sizeOfType |-> SizeOfType,
     sizeOfVar |-> SizeOfVar, substr |-> Substr,
     stringCompare |-> StringCompare, datetime |-> DateTime, hash |-> Hash,
     addressOf |-> AddressOf, castTo |-> CastTo,
     starIdentifier |-> StarIdentifier, external |-> External]

-----------------------------------------------------------------------------
(* The functions that do not come back to the parameter they were          *)
(* interrupted at: they evaluate one again, or never pull their entry. *)
StartingOver ==
    {"arrayAccess", "structAccess", "assign", "getvar", "print", "sizeOfType",
     "sizeOfVar"}

(* Those that come back, and yet lose the values they had computed. *)
Losing == {"or", "xor", "sub", "mul", "div", "modulo", "dot", "bit_and"}

=============================================================================

-------------------------- MODULE UMDiscreteValue --------------------------
(***************************************************************************)
(* The values a script computes with, as far as they are numbers: the six  *)
(* comparisons and the arithmetic of UMDiscreteValue, whose methods decide *)
(* by the type of the left operand how wide they compute.                  *)
(*                                                                         *)
(* A number is n, or n and a half: a double need not be whole.  NSNumber   *)
(* compares numbers by what they are.  The left operand of the arithmetic  *)
(* is no double; strings and data are not modelled.                        *)
(***************************************************************************)
EXTENDS Integers

CONSTANTS
    IntLimit,   \* an int is one of -IntLimit .. IntLimit - 1
    LongLimit   \* a long long is one of -LongLimit .. LongLimit - 1

ASSUME LimitAssumption ==
    /\ IntLimit \in Nat \ {0}
    /\ LongLimit \in Nat \ {0}
    /\ IntLimit <= LongLimit

Limit(t) == IF t = "INT" THEN IntLimit ELSE LongLimit
InType(t) == -Limit(t) .. Limit(t) - 1

Value(t, n) == [type |-> t, n |-> n, half |-> FALSE]
NullValue == Value("NULL", 0)
Bool(b) == Value("BOOL", IF b THEN 1 ELSE 0)

(* Of a division C leaves undefined: the process is killed, or goes on with *)
(* some number, as the machine has it. *)
Undefined == Value("undefined", 0)

IsNull(x) == x.type = "NULL"
IsNumber(x) == x.type \in {"BOOL", "INT", "LONGLONG", "DOUBLE"}

-----------------------------------------------------------------------------
(* Conversions *)

(* The bits of k that a value of type t has. *)
Wrapped(t, k) == ((k + Limit(t)) % (2 * Limit(t))) - Limit(t)

Truncated(x) == IF x.half /\ x.n < 0 THEN x.n + 1 ELSE x.n

(* intValue, longLongValue; nothing answers 0 *)
Converted(t, x) == Wrapped(t, Truncated(x))

(* boolValue *)
Truth(x) == x.n # 0 \/ x.half

-----------------------------------------------------------------------------
(* Comparisons *)

(* NSNumber's: x is less than y. *)
Below(x, y) == x.n < y.n \/ (x.n = y.n /\ ~x.half /\ y.half)

Equal(x, y) ==
    IF IsNull(x) \/ IsNull(y) THEN x.type = y.type
                              ELSE x.n = y.n /\ x.half = y.half

NotEqual(x, y) == ~Equal(x, y)

GreaterThan(x, y) == ~IsNull(x) /\ (IsNull(y) \/ Below(y, x))

(* Mutant: nothing is greater than or equal to null. *)
GreaterOrEqualNoNull(x, y) == ~IsNull(x) /\ (IsNull(y) \/ ~Below(x, y))

GreaterOrEqual(x, y) ==
    IF IsNull(x) THEN IsNull(y) ELSE IsNull(y) \/ ~Below(x, y)

LessThan(x, y) == ~IsNull(y) /\ (IsNull(x) \/ Below(x, y))

LessOrEqual(x, y) ==
    IF IsNull(y) THEN IsNull(x) ELSE IsNull(x) \/ ~Below(y, x)

-----------------------------------------------------------------------------
(* Arithmetic, in the type of x *)

(* Mutant: the sum is an int, whatever the operand. *)
AddInt(x, y) ==
    IF IsNull(x) THEN NullValue
    ELSE IF x.type = "BOOL" THEN Bool(Truth(x) \/ Truth(y))
    ELSE Value(x.type, Wrapped("INT", x.n + Converted("INT", y)))

Add(x, y) ==
    IF IsNull(x) THEN NullValue
    ELSE IF x.type = "BOOL" THEN Bool(Truth(x) \/ Truth(y))
    ELSE Value(x.type, Wrapped(x.type, x.n + Converted(x.type, y)))

(* Mutant: a difference stays at the end of its type. *)
SubtractSaturates(x, y) ==
    IF IsNull(x) THEN NullValue
    ELSE IF x.type = "BOOL" THEN Bool(Truth(x) # Truth(y))
    ELSE LET d == x.n - Converted(x.type, y)
         IN Value(x.type, IF d < -Limit(x.type) THEN -Limit(x.type)
                          ELSE IF d >= Limit(x.type) THEN Limit(x.type) - 1 ELSE d)

Subtract(x, y) ==
    IF IsNull(x) THEN NullValue
    ELSE IF x.type = "BOOL" THEN Bool(Truth(x) # Truth(y))
    ELSE Value(x.type, Wrapped(x.type, x.n - Converted(x.type, y)))

Multiply(x, y) ==
    IF ~IsNumber(x) \/ ~IsNumber(y) THEN NullValue
    ELSE IF x.type = "BOOL" THEN Bool(Truth(x) /\ Truth(y))
    ELSE Value(x.type, Wrapped(x.type, x.n * Converted(x.type, y)))

Magnitude(k) == IF k < 0 THEN -k ELSE k

(* C's division: towards zero. *)
Quotient(a, b) ==
    LET q == Magnitude(a) \div Magnitude(b)
    IN IF (a < 0) = (b < 0) THEN q ELSE -q

Remainder(a, b) ==
    LET r == Magnitude(a) % Magnitude(b) IN IF a < 0 THEN -r ELSE r

(* By zero, and the one quotient that is no value of the type. *)
NoQuotient(x, d) == d = 0 \/ (x.n = -Limit(x.type) /\ d = -1)

Divide(x, y) ==
    IF ~IsNumber(x) \/ ~IsNumber(y) THEN NullValue
    ELSE IF x.type = "BOOL" THEN IF Truth(y) THEN Bool(Truth(x)) ELSE NullValue
    ELSE LET d == Converted(x.type, y)
         IN IF NoQuotient(x, d) THEN Undefined ELSE Value(x.type, Quotient(x.n, d))

(* Mutant: the remainder has the sign of the divisor. *)
PercentFloors(x, y) ==
    IF IsNull(x) THEN NullValue
    ELSE IF x.type = "BOOL" THEN IF Truth(y) THEN Bool(FALSE) ELSE Undefined
    ELSE LET d == Converted(x.type, y)
         IN IF NoQuotient(x, d) THEN Undefined
            ELSE Value(x.type, IF d < 0 THEN -((-x.n) % (-d)) ELSE x.n % d)

Percent(x, y) ==
    IF IsNull(x) THEN NullValue
    ELSE IF x.type = "BOOL" THEN IF Truth(y) THEN Bool(FALSE) ELSE Undefined
    ELSE LET d == Converted(x.type, y)
         IN IF NoQuotient(x, d) THEN Undefined ELSE Value(x.type, Remainder(x.n, d))

(* Mutant: any number is increased as an int. *)
IncreaseInt(x) ==
    IF IsNull(x) THEN NullValue
    ELSE IF x.type = "BOOL" THEN Bool(TRUE)
    ELSE Value(x.type, Wrapped("INT", x.n + 1))

Increase(x) ==
    IF IsNull(x) THEN NullValue
    ELSE IF x.type = "BOOL" THEN Bool(TRUE)
    ELSE Value(x.type, Wrapped(x.type, x.n + 1))

Decrease(x) ==
    IF IsNull(x) THEN NullValue
    ELSE IF x.type = "BOOL" THEN Bool(FALSE)
    ELSE Value(x.type, Wrapped(x.type, x.n - 1))

=============================================================================

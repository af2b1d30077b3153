----------------------------- MODULE UMCounting -----------------------------
(***************************************************************************)
(* A loop of a script that counts: while ($i < $limit) $i = $i + $by; with *)
(* any of the four order comparisons, and a sum, a difference, ++ or -- as *)
(* its step.  The values are of any type, the ones a host puts into fields *)
(* or a parser reads from a literal.                                       *)
(***************************************************************************)
EXTENDS UMDiscreteValue

CONSTANTS Counters, Limits, Steps   \* the values of i, of limit and of by

Types == {"NULL", "BOOL", "INT", "LONGLONG", "DOUBLE"}

(* What the arithmetic is modelled for: nothing, a truth, or an integer. *)
Counter ==
    {NullValue, Bool(TRUE), Bool(FALSE)}
        \cup {Value("INT", n) : n \in InType("INT")}
        \cup {Value("LONGLONG", n) : n \in InType("LONGLONG")}

Operand(v) ==
    /\ v.type \in Types /\ v.n \in Int /\ v.half \in BOOLEAN
    /\ v = [type |-> v.type, n |-> v.n, half |-> v.half]
    /\ IsNull(v) => v = NullValue

ASSUME ValuesAssumption ==
    /\ Counters \subseteq Counter
    /\ \A v \in Limits \cup Steps : Operand(v)

VARIABLES
    i, limit, by,   \* of the script
    test, step,     \* the comparison and the step it uses
    start,          \* the first value of i
    pc

inputs == <<limit, by, test, step, start>>
vars == <<i, inputs, pc>>

Init ==
    /\ i \in Counters /\ start = i
    /\ limit \in Limits
    /\ test \in {"<", "<=", ">", ">="}
    /\ step \in {"+", "-", "++", "--"}
    /\ by \in IF step \in {"+", "-"} THEN Steps ELSE {NullValue}
    /\ pc = "test"

Holds(x) ==
    CASE test = "<"  -> LessThan(x, limit)
      [] test = "<=" -> LessOrEqual(x, limit)
      [] test = ">"  -> GreaterThan(x, limit)
      [] test = ">=" -> GreaterOrEqual(x, limit)

Stepped(x) ==
    CASE step = "+"  -> Add(x, by)
      [] step = "-"  -> Subtract(x, by)
      [] step = "++" -> Increase(x)
      [] step = "--" -> Decrease(x)

Test ==
    /\ pc = "test"
    /\ pc' = IF Holds(i) THEN "body" ELSE "end"
    /\ UNCHANGED <<i, inputs>>

Body ==
    /\ pc = "body"
    /\ i' = Stepped(i)
    /\ pc' = "test"
    /\ UNCHANGED inputs

Next == Test \/ Body

(* The evaluator goes on. *)
Spec == Init /\ [][Next]_vars
FairSpec == Spec /\ WF_vars(Next)

-----------------------------------------------------------------------------
(* Properties *)

(* The counter keeps its type, and a value the type has. *)
TypeOK ==
    /\ i \in Counter /\ start \in Counter /\ i.type = start.type
    /\ limit \in Limits
    /\ by \in Steps \cup {NullValue}
    /\ test \in {"<", "<=", ">", ">="}
    /\ step \in {"+", "-", "++", "--"}
    /\ pc \in {"test", "body", "end"}

(* What the step adds, to integers. *)
Delta ==
    CASE step = "+"  -> Converted(start.type, by)
      [] step = "-"  -> -Converted(start.type, by)
      [] step = "++" -> 1
      [] step = "--" -> -1

(* The counter is an integer, and no value the test lets through leaves its *)
(* type in a step. *)
Fits ==
    /\ start.type \in {"INT", "LONGLONG"}
    /\ \A n \in InType(start.type) :
          Holds(Value(start.type, n)) => n + Delta \in InType(start.type)

Towards == IF test \in {"<", "<="} THEN Delta > 0 ELSE Delta < 0

(* A loop whose values fit counts as integers do, whatever the types of the *)
(* limit and of the step (UMDiscreteValue.m:1500, 1556, 2027, 2061). *)
CountsAsIntegers ==
    [][Fits => (i' = i \/ i' = Value(start.type, i.n + Delta))]_vars

(* And it ends, if the step goes towards the limit. *)
LoopEnds == (Fits /\ Towards) ~> pc = "end"

(* The comparisons, each written by itself, agree on one order of all       *)
(* numbers with null before them (UMDiscreteValue.m:1257-1450). *)
OrderIsTotal ==
    \A v \in Limits :
        /\ LessThan(i, v) <=> ~GreaterOrEqual(i, v)
        /\ GreaterThan(i, v) <=> ~LessOrEqual(i, v)
        /\ Equal(i, v) <=> LessOrEqual(i, v) /\ GreaterOrEqual(i, v)
        /\ NotEqual(i, v) <=> LessThan(i, v) \/ GreaterThan(i, v)
        /\ LessThan(i, v) <=> GreaterThan(v, i)
        /\ LessOrEqual(i, v) /\ LessOrEqual(v, limit) => LessOrEqual(i, limit)

(* A subtraction takes back an addition, though either may leave the type   *)
(* and by may be of a wider type (UMDiscreteValue.m:1500, 1556). *)
SubtractUndoesAdd ==
    i.type \in {"INT", "LONGLONG"} => Subtract(Add(i, by), by) = i

(* Quotient and remainder belong together, and are undefined together: for  *)
(* a divisor that converts to zero (UMDiscreteValue.m:1595, 1637, 1704). *)
DivisionFitsRemainder ==
    LET q == Divide(i, limit)
        r == Percent(i, limit)
    IN (i.type \in {"INT", "LONGLONG"} /\ IsNumber(limit))
       => \/ q = Undefined /\ r = Undefined
          \/ q # Undefined /\ r # Undefined /\ Add(Multiply(q, limit), r) = i

=============================================================================

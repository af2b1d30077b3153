-------------------------- MODULE UMCountingProofs --------------------------
(***************************************************************************)
(* For ints and long longs of every width, and all counters, limits and    *)
(* steps.  Everything rests on two lemmas: Wrapped(t, k) is the one value  *)
(* of t that differs from k by a multiple of the type's size, and a chain  *)
(* of wrapped operations that would end within the type ends there.        *)
(***************************************************************************)
EXTENDS UMCounting, TLAPS

-----------------------------------------------------------------------------
(* Integers *)

LEMMA Mod ==
    ASSUME NEW a \in Int, NEW m \in Nat \ {0}
    PROVE  /\ a % m \in 0 .. m - 1
           /\ a \div m \in Int
           /\ a = (a \div m) * m + (a % m)
<1>1. a % m \in 0 .. m - 1
  OBVIOUS
<1>2. a = (a \div m) * m + (a % m)
  OBVIOUS
<1>3. a \div m \in Int
  OBVIOUS
<1> QED BY <1>1, <1>2, <1>3

(* Two values of a type that differ by a multiple of its size are equal. *)
LEMMA Close ==
    ASSUME NEW L \in Nat \ {0}, NEW x \in Int, NEW y \in Int, NEW k \in Int,
           -L <= x, x < L, -L <= y, y < L, x = y + k * (2 * L)
    PROVE  x = y
<1>1. CASE k = 0
  BY <1>1
<1>2. CASE k >= 1
  <2>1. k * (2 * L) >= 2 * L
    BY <1>2
  <2> QED BY <2>1
<1>3. CASE k <= -1
  <2>1. k * (2 * L) <= -(2 * L)
    BY <1>3
  <2> QED BY <2>1
<1> QED BY <1>1, <1>2, <1>3

LEMMA LimitFacts ==
    ASSUME NEW t
    PROVE  /\ Limit(t) \in Nat \ {0}
           /\ InType(t) \subseteq Int
           /\ 0 \in InType(t) /\ -1 \in InType(t)
           /\ \A x \in Int : x \in InType(t) <=> -Limit(t) <= x /\ x < Limit(t)
<1>1. Limit(t) \in Nat \ {0}
  BY LimitAssumption DEF Limit
<1> QED BY <1>1 DEF InType

LEMMA WrappedIs ==
    ASSUME NEW t, NEW x \in Int
    PROVE  /\ Wrapped(t, x) \in InType(t)
           /\ Wrapped(t, x) \in Int
           /\ \E k \in Int : Wrapped(t, x) = x + k * (2 * Limit(t))
<1> DEFINE L == Limit(t)
           m == 2 * L
           a == x + L
<1>1. L \in Nat \ {0}
  BY LimitFacts
<1>2. m \in Nat \ {0} /\ a \in Int
  BY <1>1
<1> HIDE DEF L
<1>3. /\ a % m \in 0 .. m - 1
      /\ a \div m \in Int
      /\ a = (a \div m) * m + (a % m)
  <2> HIDE DEF a, m
  <2> QED BY <1>2, Mod
<1>4. Wrapped(t, x) = (a % m) - L
  BY DEF Wrapped, L
<1>5. Wrapped(t, x) \in InType(t) /\ Wrapped(t, x) \in Int
  <2> DEFINE r == a % m
  <2>1. r \in 0 .. m - 1 /\ Wrapped(t, x) = r - L
    BY <1>3, <1>4
  <2> HIDE DEF r
  <2>2. Wrapped(t, x) \in -L .. L - 1
    BY <1>1, <2>1
  <2>3. InType(t) = -L .. L - 1
    BY DEF InType, L
  <2> QED BY <1>1, <2>2, <2>3
<1>6. PICK k \in Int : a = k * m + (a % m)
  BY <1>3
<1>7. Wrapped(t, x) = x - k * m
  BY <1>1, <1>2, <1>3, <1>4, <1>6
<1>8. x - k * m = x + (-k) * m /\ -k \in Int
  <2> HIDE DEF m
  <2> QED BY <1>2
<1> QED BY <1>5, <1>7, <1>8 DEF L

(* What is done to a wrapped number is done to the number. *)
LEMMA WrappedOnce ==
    ASSUME NEW t, NEW x \in Int, NEW c \in Int, x + c \in InType(t)
    PROVE  Wrapped(t, Wrapped(t, x) + c) = x + c
<1> DEFINE w == Wrapped(t, x)
           m == 2 * Limit(t)
<1>1. Limit(t) \in Nat \ {0} /\ m \in Nat
  BY LimitFacts
<1>2. PICK j \in Int : w = x + j * m
  BY WrappedIs
<1>3. w \in Int
  BY WrappedIs
<1> HIDE DEF w
<1>4. PICK k \in Int : Wrapped(t, w + c) = w + c + k * m
  BY <1>3, WrappedIs
<1>5. Wrapped(t, w + c) = x + c + (j + k) * m
  <2> HIDE DEF m
  <2>1. (j + k) * m = j * m + k * m
    BY <1>1
  <2>2. j * m \in Int /\ k * m \in Int
    BY <1>1
  <2> QED BY <1>2, <1>4, <2>1, <2>2
<1>6. Wrapped(t, w + c) \in InType(t) /\ Wrapped(t, w + c) \in Int
  BY <1>3, WrappedIs
<1>7. -Limit(t) <= Wrapped(t, w + c) /\ Wrapped(t, w + c) < Limit(t)
  BY <1>6, LimitFacts
<1>8. -Limit(t) <= x + c /\ x + c < Limit(t)
  BY LimitFacts
<1>9. Wrapped(t, w + c) = x + c
  BY <1>1, <1>5, <1>6, <1>7, <1>8, Close
<1> QED BY <1>9 DEF w

LEMMA WrappedStays ==
    ASSUME NEW t, NEW x \in InType(t)
    PROVE  Wrapped(t, x) = x
<1>1. x \in Int /\ x + 0 = x
  BY LimitFacts
<1>2. PICK k \in Int : Wrapped(t, x) = x + k * (2 * Limit(t))
  BY <1>1, WrappedIs
<1>3. Wrapped(t, x) \in InType(t) /\ Wrapped(t, x) \in Int
  BY <1>1, WrappedIs
<1>4. /\ Limit(t) \in Nat \ {0}
      /\ -Limit(t) <= x /\ x < Limit(t)
      /\ -Limit(t) <= Wrapped(t, x) /\ Wrapped(t, x) < Limit(t)
  BY <1>1, <1>3, LimitFacts
<1> QED BY <1>1, <1>2, <1>3, <1>4, Close

LEMMA QuotientAndRemainder ==
    ASSUME NEW a \in Int, NEW b \in Int \ {0}
    PROVE  /\ Quotient(a, b) \in Int
           /\ Remainder(a, b) \in Int
           /\ Quotient(a, b) * b + Remainder(a, b) = a
           /\ -Magnitude(b) < Remainder(a, b) /\ Remainder(a, b) < Magnitude(b)
<1> DEFINE q == Magnitude(a) \div Magnitude(b)
           r == Magnitude(a) % Magnitude(b)
<1>1. Magnitude(a) \in Int /\ Magnitude(b) \in Nat \ {0}
  BY DEF Magnitude
<1>2. q \in Int /\ r \in 0 .. Magnitude(b) - 1 /\ Magnitude(a) = q * Magnitude(b) + r
  BY <1>1, Mod
<1>3. /\ Quotient(a, b) = IF (a < 0) = (b < 0) THEN q ELSE -q
      /\ Remainder(a, b) = IF a < 0 THEN -r ELSE r
  BY DEF Quotient, Remainder
<1> HIDE DEF q, r
<1>4. /\ Quotient(a, b) \in Int
      /\ Remainder(a, b) \in Int
      /\ -Magnitude(b) < Remainder(a, b) /\ Remainder(a, b) < Magnitude(b)
  BY <1>1, <1>2, <1>3
<1>5. Quotient(a, b) * b + Remainder(a, b) = a
  <2>1. CASE a < 0 /\ b < 0
    BY <2>1, <1>2, <1>3 DEF Magnitude
  <2>2. CASE a < 0 /\ ~(b < 0)
    BY <2>2, <1>2, <1>3 DEF Magnitude
  <2>3. CASE ~(a < 0) /\ b < 0
    BY <2>3, <1>2, <1>3 DEF Magnitude
  <2>4. CASE ~(a < 0) /\ ~(b < 0)
    BY <2>4, <1>2, <1>3 DEF Magnitude
  <2> QED BY <2>1, <2>2, <2>3, <2>4
<1> QED BY <1>4, <1>5
-----------------------------------------------------------------------------
(* Values *)

LEMMA CounterIs ==
    ASSUME NEW x \in Counter
    PROVE  /\ x = Value(x.type, x.n) /\ ~x.half /\ x.n \in Int
           /\ \/ x = NullValue
              \/ x.type = "BOOL" /\ x \in {Bool(TRUE), Bool(FALSE)}
              \/ x.type \in {"INT", "LONGLONG"} /\ x.n \in InType(x.type)
<1>1. CASE x \in {NullValue, Bool(TRUE), Bool(FALSE)}
  BY <1>1 DEF NullValue, Bool, Value
<1>2. CASE x \in {Value("INT", n) : n \in InType("INT")}
  <2>1. PICK n \in InType("INT") : x = Value("INT", n)
    BY <1>2
  <2>2. n \in Int
    BY LimitFacts
  <2> QED BY <2>1, <2>2 DEF Value
<1>3. CASE x \in {Value("LONGLONG", n) : n \in InType("LONGLONG")}
  <2>1. PICK n \in InType("LONGLONG") : x = Value("LONGLONG", n)
    BY <1>3
  <2>2. n \in Int
    BY LimitFacts
  <2> QED BY <2>1, <2>2 DEF Value
<1> QED BY <1>1, <1>2, <1>3 DEF Counter

LEMMA IntegerIsCounter ==
    ASSUME NEW t \in {"INT", "LONGLONG"}, NEW n \in InType(t)
    PROVE  Value(t, n) \in Counter /\ Value(t, n).type = t /\ Value(t, n).n = n
BY DEF Counter, Value

LEMMA BoolIsCounter ==
    ASSUME NEW b \in BOOLEAN
    PROVE  Bool(b) \in Counter /\ Bool(b).type = "BOOL"
BY DEF Counter, Bool, Value

LEMMA NullIsCounter == NullValue \in Counter /\ NullValue.type = "NULL"
BY DEF Counter, NullValue, Value

LEMMA CounterIsOperand ==
    ASSUME NEW x \in Counter
    PROVE  Operand(x)
<1>1. x = [type |-> x.type, n |-> x.n, half |-> FALSE] /\ x.n \in Int
  BY CounterIs DEF Value
<1>2. x.half = FALSE
  BY <1>1
<1>3. x.type \in Types /\ (IsNull(x) => x = NullValue)
  BY CounterIs DEF Types, IsNull, NullValue, Value
<1> QED BY <1>1, <1>2, <1>3 DEF Operand

LEMMA ConvertedIs ==
    ASSUME NEW t, NEW y, Operand(y)
    PROVE  Converted(t, y) \in InType(t) /\ Converted(t, y) \in Int
<1>1. Truncated(y) \in Int
  BY DEF Truncated, Operand
<1> QED BY <1>1, WrappedIs DEF Converted

LEMMA ConvertedInteger ==
    ASSUME NEW t \in {"INT", "LONGLONG"}, NEW n \in InType(t)
    PROVE  Converted(t, Value(t, n)) = n
BY WrappedStays DEF Converted, Truncated, Value

-----------------------------------------------------------------------------
(* Arithmetic *)

LEMMA AddIs ==
    ASSUME NEW x \in Counter, NEW y, Operand(y)
    PROVE  /\ Add(x, y) \in Counter /\ Add(x, y).type = x.type
           /\ x.type \in {"INT", "LONGLONG"}
                 => Add(x, y) = Value(x.type, Wrapped(x.type, x.n + Converted(x.type, y)))
<1>1. CASE x = NullValue
  BY <1>1, NullIsCounter DEF Add, IsNull
<1>2. CASE x.type = "BOOL"
  <2>1. Add(x, y) = Bool(Truth(x) \/ Truth(y))
    BY <1>2 DEF Add, IsNull
  <2>2. (Truth(x) \/ Truth(y)) \in BOOLEAN
    OBVIOUS
  <2> QED BY <1>2, <2>1, <2>2, BoolIsCounter
<1>3. CASE x.type \in {"INT", "LONGLONG"}
  <2>1. Add(x, y) = Value(x.type, Wrapped(x.type, x.n + Converted(x.type, y)))
    BY <1>3 DEF Add, IsNull
  <2>2. x.n + Converted(x.type, y) \in Int
    <3>1. x.n \in Int
      BY CounterIs
    <3>2. Converted(x.type, y) \in Int
      BY ConvertedIs
    <3> QED BY <3>1, <3>2
  <2>3. Wrapped(x.type, x.n + Converted(x.type, y)) \in InType(x.type)
    BY <2>2, WrappedIs
  <2> QED BY <1>3, <2>1, <2>3, IntegerIsCounter
<1> QED BY <1>1, <1>2, <1>3, CounterIs DEF NullValue, Value

LEMMA SubtractIs ==
    ASSUME NEW x \in Counter, NEW y, Operand(y)
    PROVE  /\ Subtract(x, y) \in Counter /\ Subtract(x, y).type = x.type
           /\ x.type \in {"INT", "LONGLONG"}
                 => Subtract(x, y)
                       = Value(x.type, Wrapped(x.type, x.n - Converted(x.type, y)))
<1>1. CASE x = NullValue
  BY <1>1, NullIsCounter DEF Subtract, IsNull
<1>2. CASE x.type = "BOOL"
  <2>1. Subtract(x, y) = Bool(Truth(x) # Truth(y))
    BY <1>2 DEF Subtract, IsNull
  <2>2. (Truth(x) # Truth(y)) \in BOOLEAN
    OBVIOUS
  <2> QED BY <1>2, <2>1, <2>2, BoolIsCounter
<1>3. CASE x.type \in {"INT", "LONGLONG"}
  <2>1. Subtract(x, y) = Value(x.type, Wrapped(x.type, x.n - Converted(x.type, y)))
    BY <1>3 DEF Subtract, IsNull
  <2>2. x.n - Converted(x.type, y) \in Int
    <3>1. x.n \in Int
      BY CounterIs
    <3>2. Converted(x.type, y) \in Int
      BY ConvertedIs
    <3> QED BY <3>1, <3>2
  <2>3. Wrapped(x.type, x.n - Converted(x.type, y)) \in InType(x.type)
    BY <2>2, WrappedIs
  <2> QED BY <1>3, <2>1, <2>3, IntegerIsCounter
<1> QED BY <1>1, <1>2, <1>3, CounterIs DEF NullValue, Value

LEMMA IncreaseIs ==
    ASSUME NEW x \in Counter
    PROVE  /\ Increase(x) \in Counter /\ Increase(x).type = x.type
           /\ Decrease(x) \in Counter /\ Decrease(x).type = x.type
           /\ x.type \in {"INT", "LONGLONG"}
                 => /\ Increase(x) = Value(x.type, Wrapped(x.type, x.n + 1))
                    /\ Decrease(x) = Value(x.type, Wrapped(x.type, x.n - 1))
<1>1. CASE x = NullValue
  BY <1>1, NullIsCounter DEF Increase, Decrease, IsNull
<1>2. CASE x.type = "BOOL"
  <2>1. Increase(x) = Bool(TRUE) /\ Decrease(x) = Bool(FALSE)
    BY <1>2 DEF Increase, Decrease, IsNull
  <2> QED BY <1>2, <2>1, BoolIsCounter
<1>3. CASE x.type \in {"INT", "LONGLONG"}
  <2>1. /\ Increase(x) = Value(x.type, Wrapped(x.type, x.n + 1))
        /\ Decrease(x) = Value(x.type, Wrapped(x.type, x.n - 1))
    BY <1>3 DEF Increase, Decrease, IsNull
  <2>2. x.n + 1 \in Int /\ x.n - 1 \in Int
    <3>1. x.n \in Int
      BY CounterIs
    <3> QED BY <3>1
  <2>3. /\ Wrapped(x.type, x.n + 1) \in InType(x.type)
        /\ Wrapped(x.type, x.n - 1) \in InType(x.type)
    BY <2>2, WrappedIs
  <2> QED BY <1>3, <2>1, <2>3, IntegerIsCounter
<1> QED BY <1>1, <1>2, <1>3, CounterIs DEF NullValue, Value

-----------------------------------------------------------------------------
(* The loop *)

(* In a loop under way the test held for the counter. *)
IInv == TypeOK /\ (pc = "body" => Holds(i))

LEMMA Inputs ==
    ASSUME TypeOK
    PROVE  Operand(limit) /\ Operand(by) /\ Operand(NullValue)
<1>1. Operand(NullValue)
  BY NullIsCounter, CounterIsOperand
<1> QED BY <1>1, ValuesAssumption DEF TypeOK

LEMMA SteppedIs ==
    ASSUME TypeOK
    PROVE  /\ Stepped(i) \in Counter /\ Stepped(i).type = i.type
           /\ i.type \in {"INT", "LONGLONG"}
                 => /\ Delta \in Int
                    /\ Stepped(i) = Value(i.type, Wrapped(i.type, i.n + Delta))
<1> USE DEF TypeOK
<1>1. Operand(by) /\ i \in Counter /\ start.type = i.type
  BY Inputs
<1>2. i.n \in Int /\ Converted(i.type, by) \in Int
  BY <1>1, CounterIs, ConvertedIs
<1>3. CASE step = "+"
  <2>1. Stepped(i) = Add(i, by) /\ Delta = Converted(i.type, by)
    BY <1>1, <1>3 DEF Stepped, Delta
  <2> QED BY <1>1, <1>2, <2>1, AddIs
<1>4. CASE step = "-"
  <2>1. Stepped(i) = Subtract(i, by) /\ Delta = -Converted(i.type, by)
    BY <1>1, <1>4 DEF Stepped, Delta
  <2>2. i.n - Converted(i.type, by) = i.n + Delta /\ Delta \in Int
    BY <1>2, <2>1
  <2>3. /\ Subtract(i, by) \in Counter /\ Subtract(i, by).type = i.type
        /\ i.type \in {"INT", "LONGLONG"}
              => Subtract(i, by)
                    = Value(i.type, Wrapped(i.type, i.n - Converted(i.type, by)))
    BY <1>1, SubtractIs
  <2> HIDE DEF TypeOK
  <2> QED BY <2>1, <2>2, <2>3
<1>5. CASE step = "++"
  <2>1. Stepped(i) = Increase(i) /\ Delta = 1
    BY <1>5 DEF Stepped, Delta
  <2>2. /\ Increase(i) \in Counter /\ Increase(i).type = i.type
        /\ i.type \in {"INT", "LONGLONG"}
              => Increase(i) = Value(i.type, Wrapped(i.type, i.n + 1))
    BY <1>1, IncreaseIs
  <2> HIDE DEF TypeOK
  <2> QED BY <2>1, <2>2
<1>6. CASE step = "--"
  <2>1. Stepped(i) = Decrease(i) /\ Delta = -1
    BY <1>6 DEF Stepped, Delta
  <2>2. i.n - 1 = i.n + Delta
    BY <1>2, <2>1
  <2>3. /\ Decrease(i) \in Counter /\ Decrease(i).type = i.type
        /\ i.type \in {"INT", "LONGLONG"}
              => Decrease(i) = Value(i.type, Wrapped(i.type, i.n - 1))
    BY <1>1, IncreaseIs
  <2> HIDE DEF TypeOK
  <2> QED BY <2>1, <2>2, <2>3
<1> QED BY <1>3, <1>4, <1>5, <1>6

LEMMA InitEstablishes == Init => IInv
<1> SUFFICES ASSUME Init PROVE IInv
  OBVIOUS
<1>1. i \in Counter /\ start = i
  BY ValuesAssumption DEF Init
<1>2. by \in Steps \cup {NullValue}
  BY DEF Init
<1> QED BY <1>1, <1>2 DEF Init, IInv, TypeOK

LEMMA NextPreserves == IInv /\ [Next]_vars => IInv'
<1> SUFFICES ASSUME IInv, [Next]_vars PROVE IInv'
  OBVIOUS
<1>1. CASE Test
  <2>1. TypeOK'
    BY <1>1 DEF IInv, TypeOK, Test, inputs
  <2>2. (pc = "body" => Holds(i))'
    BY <1>1 DEF IInv, TypeOK, Test, inputs, Holds
  <2> QED BY <2>1, <2>2 DEF IInv
<1>2. CASE Body
  <2>1. i' \in Counter /\ i'.type = i.type
    BY <1>2, SteppedIs DEF IInv, Body
  <2>2. TypeOK'
    BY <1>2, <2>1 DEF IInv, TypeOK, Body, inputs
  <2>3. (pc = "body" => Holds(i))'
    BY <1>2 DEF Body
  <2> QED BY <2>2, <2>3 DEF IInv
<1>3. CASE UNCHANGED vars
  BY <1>3 DEF IInv, TypeOK, vars, inputs, Holds
<1> QED BY <1>1, <1>2, <1>3 DEF Next

(* Whatever it adds, the counter keeps its type and a value the type has     *)
(* (UMDiscreteValue.m:1500, 1556, 2027, 2061). *)
THEOREM CountingInductive == Spec => []IInv
BY InitEstablishes, NextPreserves, PTL DEF Spec

(* CountsAsIntegers, for every width: the overflow of one operand's type is  *)
(* the only way in which a loop counts otherwise than integers do. *)
THEOREM CountsExactly == Spec => CountsAsIntegers
<1>1. ASSUME IInv, [Next]_vars, Fits
      PROVE  i' = i \/ i' = Value(start.type, i.n + Delta)
  <2>1. CASE Test \/ UNCHANGED vars
    BY <2>1 DEF Test, vars
  <2>2. CASE Body
    <3>1. i \in Counter /\ i.type = start.type /\ start.type \in {"INT", "LONGLONG"}
      BY <1>1 DEF IInv, TypeOK, Fits
    <3>2. i = Value(start.type, i.n) /\ i.n \in InType(start.type)
      BY <3>1, CounterIs DEF NullValue, Value
    <3>3. Holds(Value(start.type, i.n))
      BY <1>1, <2>2, <3>2 DEF IInv, Body
    <3>4. i.n + Delta \in InType(start.type)
      BY <1>1, <3>2, <3>3 DEF Fits
    <3>5. Wrapped(start.type, i.n + Delta) = i.n + Delta
      BY <3>4, WrappedStays
    <3>6. i' = Value(start.type, Wrapped(start.type, i.n + Delta))
      BY <1>1, <2>2, <3>1, SteppedIs DEF IInv, Body
    <3> QED BY <3>5, <3>6
  <2> QED BY <1>1, <2>1, <2>2 DEF Next
<1> QED BY <1>1, CountingInductive, PTL DEF Spec, CountsAsIntegers

(* SubtractUndoesAdd, for every width and operand. *)
THEOREM SubtractionUndoes == Spec => []SubtractUndoesAdd
<1>1. IInv => SubtractUndoesAdd
  <2> SUFFICES ASSUME IInv, i.type \in {"INT", "LONGLONG"}
               PROVE  Subtract(Add(i, by), by) = i
    BY DEF SubtractUndoesAdd
  <2> DEFINE t == i.type
             c == Converted(t, by)
             a == Add(i, by)
  <2>1. i \in Counter /\ Operand(by)
    BY Inputs DEF IInv, TypeOK
  <2>2. i = Value(t, i.n) /\ i.n \in InType(t) /\ i.n \in Int
    BY <2>1, CounterIs DEF NullValue, Value
  <2>3. c \in Int
    BY <2>1, ConvertedIs
  <2>4. a \in Counter /\ a.type = t /\ a = Value(t, Wrapped(t, i.n + c))
    BY <2>1, AddIs
  <2>5. a.n = Wrapped(t, i.n + c)
    BY <2>4 DEF Value
  <2>6. Subtract(a, by) = Value(t, Wrapped(t, a.n - c))
    BY <2>1, <2>4, SubtractIs
  <2> HIDE DEF a, c, t
  <2>7. Wrapped(t, Wrapped(t, i.n + c) + (-c)) = i.n
    <3>1. i.n + c \in Int /\ -c \in Int /\ (i.n + c) + (-c) = i.n
      BY <2>2, <2>3
    <3> QED BY <2>2, <3>1, WrappedOnce
  <2>8. Wrapped(t, i.n + c) \in Int
    <3>1. i.n + c \in Int
      BY <2>2, <2>3
    <3> QED BY <3>1, WrappedIs
  <2>9. Wrapped(t, i.n + c) + (-c) = a.n - c
    BY <2>3, <2>5, <2>8
  <2>10. Subtract(a, by) = i
    BY <2>2, <2>6, <2>7, <2>9
  <2> QED BY <2>10 DEF a
<1> QED BY <1>1, CountingInductive, PTL

(* OrderIsTotal, for all numbers. *)
THEOREM TotalOrder == Spec => []OrderIsTotal
<1>1. IInv => OrderIsTotal
  <2> SUFFICES ASSUME IInv, NEW v \in Limits
               PROVE  /\ LessThan(i, v) <=> ~GreaterOrEqual(i, v)
                      /\ GreaterThan(i, v) <=> ~LessOrEqual(i, v)
                      /\ Equal(i, v) <=> LessOrEqual(i, v) /\ GreaterOrEqual(i, v)
                      /\ NotEqual(i, v) <=> LessThan(i, v) \/ GreaterThan(i, v)
                      /\ LessThan(i, v) <=> GreaterThan(v, i)
                      /\ LessOrEqual(i, v) /\ LessOrEqual(v, limit)
                            => LessOrEqual(i, limit)
    BY DEF OrderIsTotal
  <2>1. Operand(i) /\ Operand(v) /\ Operand(limit)
    BY CounterIsOperand, ValuesAssumption DEF IInv, TypeOK
  <2>2. /\ i.n \in Int /\ v.n \in Int /\ limit.n \in Int
        /\ i.half \in BOOLEAN /\ v.half \in BOOLEAN /\ limit.half \in BOOLEAN
    BY <2>1 DEF Operand
  <2>3. ~Below(i, v) /\ ~Below(v, i) <=> i.n = v.n /\ i.half = v.half
    BY <2>2 DEF Below
  <2>4. ~(Below(i, v) /\ Below(v, i))
    BY <2>2 DEF Below
  <2>5. ~Below(v, i) /\ ~Below(limit, v) => ~Below(limit, i)
    BY <2>2 DEF Below
  <2>6. IsNull(i) /\ IsNull(v) => i.type = v.type
    BY DEF IsNull
  <2>7. IsNull(i) # IsNull(v) => i.type # v.type
    BY DEF IsNull
  <2> QED BY <2>3, <2>4, <2>5, <2>6, <2>7
          DEF LessThan, LessOrEqual, GreaterThan, GreaterOrEqual, Equal, NotEqual
<1> QED BY <1>1, CountingInductive, PTL

(* DivisionFitsRemainder, for every width, dividend and divisor. *)
THEOREM DivisionAgrees == Spec => []DivisionFitsRemainder
<1>1. IInv => DivisionFitsRemainder
  <2> DEFINE q == Divide(i, limit)
             r == Percent(i, limit)
             t == i.type
             d == Converted(t, limit)
             Q == Quotient(i.n, d)
             R == Remainder(i.n, d)
  <2> SUFFICES ASSUME IInv, t \in {"INT", "LONGLONG"}, IsNumber(limit)
               PROVE  \/ q = Undefined /\ r = Undefined
                      \/ /\ q # Undefined /\ r # Undefined
                         /\ Add(Multiply(q, limit), r) = i
    BY DEF DivisionFitsRemainder
  <2>1. i \in Counter /\ Operand(limit)
    BY Inputs DEF IInv, TypeOK
  <2>2. i = Value(t, i.n) /\ i.n \in InType(t) /\ i.n \in Int
    BY <2>1, CounterIs DEF NullValue, Value
  <2>3. d \in InType(t) /\ d \in Int
    BY <2>1, ConvertedIs
  <2>4. CASE NoQuotient(i, d)
    BY <2>4 DEF Divide, Percent, IsNull, IsNumber
  <2>5. CASE ~NoQuotient(i, d)
    <3>1. q = Value(t, Q) /\ r = Value(t, R)
      BY <2>5 DEF Divide, Percent, IsNull, IsNumber
    <3>2. q # Undefined /\ r # Undefined
      BY <3>1 DEF Undefined, Value
    <3>3. d # 0
      BY <2>5 DEF NoQuotient
    <3>4. /\ Q \in Int /\ R \in Int /\ Q * d + R = i.n
          /\ -Magnitude(d) < R /\ R < Magnitude(d)
      <4> HIDE DEF d
      <4> QED BY <2>2, <2>3, <3>3, QuotientAndRemainder
    <3>5. R \in InType(t)
      <4>1. /\ Limit(t) \in Nat \ {0} /\ -Limit(t) <= d /\ d < Limit(t)
        BY <2>3, LimitFacts
      <4> HIDE DEF d, R, Q
      <4>2. -Limit(t) <= R /\ R < Limit(t)
        BY <4>1, <2>3, <3>4 DEF Magnitude
      <4> QED BY <4>2, <3>4, LimitFacts
    <3>6. Operand(r) /\ Converted(t, r) = R
      BY <3>1, <3>5, IntegerIsCounter, CounterIsOperand, ConvertedInteger
    <3> DEFINE m == Multiply(q, limit)
    <3>7. m = Value(t, Wrapped(t, Q * d))
      BY <3>1 DEF Multiply, IsNumber, Value
    <3>8. Q * d \in Int
      <4> HIDE DEF d, Q
      <4> QED BY <2>3, <3>4
    <3>9. Wrapped(t, Q * d) \in InType(t)
      BY <3>8, WrappedIs
    <3>10. m \in Counter /\ m.type = t /\ m.n = Wrapped(t, Q * d)
      BY <3>7, <3>9, IntegerIsCounter
    <3> HIDE DEF m, q, r, Q, R, d
    <3>11. Add(m, r) = Value(t, Wrapped(t, m.n + Converted(t, r)))
      BY <3>6, <3>10, AddIs
    <3>12. Wrapped(t, Wrapped(t, Q * d) + R) = i.n
      BY <2>2, <3>4, <3>8, WrappedOnce
    <3>13. Add(m, r) = i
      BY <2>2, <3>6, <3>10, <3>11, <3>12
    <3> QED BY <3>2, <3>13 DEF m
  <2> QED BY <2>4, <2>5
<1> QED BY <1>1, CountingInductive, PTL

=============================================================================

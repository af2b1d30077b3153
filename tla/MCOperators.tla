---------------------------- MODULE MCOperators ----------------------------
(***************************************************************************)
(* Expressions for TLC: every function with every number of parameters it  *)
(* accepts or raises at, over host functions and over one operator.        *)
(***************************************************************************)
EXTENDS UMOperators

Term(op, args) == [op |-> op, args |-> args]
Host == Term("host", <<>>)
Hosts(n) == [i \in 1 .. n |-> Host]
From(m, n) == [i \in 1 .. n |-> m + i - 1]

(* op(h, .., h) *)
Flat(op, n) == <<Term(op, From(2, n))>> \o Hosts(n)

(* op(h, .., inner(h, h), .., h), the operator at parameter k *)
Nested(op, n, k, inner) ==
    <<Term(op, From(2, n))>>
    \o [i \in 1 .. n |-> IF i = k THEN Term(inner, <<n + 2, n + 3>>) ELSE Host]
    \o Hosts(2)

(* outer(op(h, .., h), h) and outer(h, op(h, .., h)) *)
Left(op, n, outer)  == <<Term(outer, <<2, 3>>), Term(op, From(4, n)), Host>>
                       \o Hosts(n)
Right(op, n, outer) == <<Term(outer, <<2, 3>>), Host, Term(op, From(4, n))>>
                       \o Hosts(n)

Calls == {<<op, n>> \in (DOMAIN Protocol) \X Counts :
             n \in Protocol[op].accepts \cup Protocol[op].raises \cup {2}}

(* The functions and counts of parameters that come back *)
ComingBack == {c \in Calls : c[1] \notin StartingOver /\ c # <<"substr", 3>>}

Inner == {"equal", "add", "bit_or", "sub"}

ResumableExpressions ==
    UNION {{Flat(c[1], c[2])}
           \cup {Nested(c[1], c[2], k, i) : k \in 1 .. c[2], i \in Inner}
           \cup {Left(c[1], c[2], i) : i \in Inner}
           \cup {Right(c[1], c[2], i) : i \in Inner} : c \in ComingBack}

(* What the theorems about every resumable expression ask of one *)
ASSUME MCResumable == \A e \in ResumableExpressions : Resumable(e)

(* add(op(.., equal(h, h)), equal(h, h)) *)
Before(op, n) ==
    <<Term("add", <<2, 3>>), Term(op, From(4, n)), Term("equal", <<4 + n, 5 + n>>)>>
    \o [i \in 1 .. n |-> IF i = n THEN Term("equal", <<n + 6, n + 7>>) ELSE Host]
    \o Hosts(4)

SkippingExpressions ==
    {Before(c[1], c[2]) : c \in {d \in Calls : d[1] \in StartingOver /\ d[2] > 0}}

=============================================================================

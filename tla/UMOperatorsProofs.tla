------------------------- MODULE UMOperatorsProofs -------------------------
(***************************************************************************)
(* Proofs about UMOperators, for every set of expressions whose functions  *)
(* all come back to the operand they were interrupted at (AllResumable)    *)
(* and every number of interrupts.                                         *)
(*                                                                         *)
(* The positions an interrupt carries are enough to rebuild the evaluation *)
(* it unwound: that is what the properties rest on, and what the invariant *)
(* says.  It describes the evaluation by a chain of calls, from the root   *)
(* to the term under evaluation or interrupted, each with its step and     *)
(* with the host functions that had answered before.  An activation and an *)
(* entry of an interrupt are two forms of a link of that chain: at any     *)
(* moment the activations are the first links, and the entries (left while *)
(* resuming, or gathered while unwinding) are the rest.  The host          *)
(* functions that have answered are those before the last link, and the    *)
(* locals of an activation, or the values in an entry, those of an         *)
(* uninterrupted evaluation up to that step.  None of the properties is    *)
(* inductive without the chain: which operand a resumed function evaluates *)
(* depends on the entry it pulls, and that is its own only if every other  *)
(* one is in its place.                                                    *)
(***************************************************************************)
EXTENDS UMOperators, UMProtocolsProofs, SequenceTheorems, WellFoundedInduction

-----------------------------------------------------------------------------
(* Induction over the natural numbers, in a form without an operator       *)
(* parameter: about the set of the numbers that have a property.  The      *)
(* induction theorems of the library take the property as an operator,     *)
(* which the provers cannot instantiate; the existence of a minimal        *)
(* element is a statement about sets, from which they find the rest.       *)

(* The pairs of numbers of which the first is less *)
Below == {ss \in Nat \X Nat : ss[1] < ss[2]}

(* The order of the natural numbers is well-founded. *)
LEMMA BelowWellFounded == IsWellFoundedOn(Below, Nat)
  BY NatLessThanWellFounded, Zenon DEF OpToRel, Below

(* A set of natural numbers that is not empty has a least element. *)
LEMMA Least ==
    ASSUME NEW S \in SUBSET Nat, S # {}
    PROVE  \E n \in S : \A m \in S : n <= m
  <1>1. PICK n \in S : \A m \in S : ~(<<m, n>> \in Below)
    BY BelowWellFounded, WFMin
  <1>2. ASSUME NEW m \in S PROVE n <= m
    <2>1. <<m, n>> \notin Below /\ <<m, n>> \in Nat \X Nat
      BY <1>1
    <2>2. ~(<<m, n>>[1] < <<m, n>>[2])
      BY <2>1 DEF Below
    <2>3. QED
      BY <2>2
  <1>3. QED
    BY <1>2

(* A set that holds 0 and with every number the next holds all of them. *)
LEMMA Induction ==
    ASSUME NEW S, 0 \in S, \A n \in Nat : n \in S => n + 1 \in S
    PROVE  \A n \in Nat : n \in S
  <1> SUFFICES ASSUME Nat \ S # {} PROVE FALSE
    OBVIOUS
  <1>1. PICK n \in Nat \ S : \A m \in Nat \ S : n <= m
    BY Least
  <1>2. n # 0 /\ n - 1 \in Nat /\ n - 1 \in S
    BY <1>1
  <1>3. QED
    BY <1>2

-----------------------------------------------------------------------------
(* The recursive functions *)

(* u[k] is what Concatenated computes for k. *)
IsConcatenation(u, lists, N) ==
    u = [k \in 0 .. N |-> IF k = 0 THEN <<>> ELSE u[k - 1] \o lists[k]]

(* There is a function that fits the recursion of Concatenated. *)
LEMMA ConcatenatedExists ==
    ASSUME NEW lists, NEW N \in Nat
    PROVE  \E u : IsConcatenation(u, lists, N)
  <1> DEFINE S == {m \in Nat : \E u : IsConcatenation(u, lists, m)}
  <1>1. 0 \in S
    <2>1. IsConcatenation([k \in 0 .. 0 |-> <<>>], lists, 0)
      BY DEF IsConcatenation
    <2>2. QED
      BY <2>1, Zenon
  <1>2. ASSUME NEW m \in Nat, m \in S
        PROVE  m + 1 \in S
    <2>1. PICK u : IsConcatenation(u, lists, m)
      BY <1>2
    <2> DEFINE v == [k \in 0 .. m + 1 |-> IF k <= m THEN u[k] ELSE u[m] \o lists[k]]
               w == [k \in 0 .. m + 1 |-> IF k = 0 THEN <<>> ELSE v[k - 1] \o lists[k]]
    <2>2. ASSUME NEW k \in 0 .. m + 1
          PROVE  v[k] = w[k]
      <3>1. CASE k = 0
        BY <2>1, <3>1 DEF IsConcatenation
      <3>2. CASE k \in 1 .. m
        <4>1. k \in 0 .. m /\ k - 1 \in 0 .. m + 1 /\ k # 0 /\ k <= m /\ k - 1 <= m
          BY <3>2
        <4>2. u[k] = u[k - 1] \o lists[k]
          BY <2>1, <4>1, Zenon DEF IsConcatenation
        <4>3. v[k] = u[k] /\ v[k - 1] = u[k - 1]
          BY <4>1, Zenon
        <4>4. w[k] = v[k - 1] \o lists[k]
          BY <4>1, Zenon
        <4>5. QED
          BY <4>2, <4>3, <4>4, Zenon
      <3>3. CASE k = m + 1
        BY <3>3
      <3>4. QED
        BY <3>1, <3>2, <3>3
    <2>3. v = w
      BY <2>2, Zenon
    <2>4. IsConcatenation(v, lists, m + 1)
      BY <2>3, Zenon DEF IsConcatenation
    <2> HIDE DEF v, w
    <2>5. m + 1 \in Nat
      OBVIOUS
    <2>6. QED
      BY <2>4, <2>5, Zenon
  <1>3. N \in S
    <2> HIDE DEF S
    <2>1. QED
      BY <1>1, <1>2, Induction
  <1>4. QED
    BY <1>3

(* It has the partial sums it should, and they are sequences of numbers. *)
LEMMA Concatenating ==
    ASSUME NEW N \in Nat, NEW lists \in [1 .. N -> Seq(Nat)], NEW u,
           IsConcatenation(u, lists, N)
    PROVE  /\ u[0] = <<>>
           /\ \A k \in 1 .. N : u[k] = u[k - 1] \o lists[k]
           /\ \A k \in 0 .. N : u[k] \in Seq(Nat)
  <1>1. u[0] = <<>> /\ \A k \in 1 .. N : u[k] = u[k - 1] \o lists[k]
    BY DEF IsConcatenation
  <1> DEFINE S == {m \in Nat : m <= N => u[m] \in Seq(Nat)}
  <1>2. 0 \in S
    <2>1. u[0] \in Seq(Nat)
      <3>1. <<>> \in Seq(Nat)
        OBVIOUS
      <3>2. QED
        BY <1>1, <3>1, Zenon
    <2>2. QED
      BY <2>1
  <1>3. ASSUME NEW m \in Nat, m \in S
        PROVE  m + 1 \in S
    <2>1. CASE m + 1 <= N
      <3>1. u[m] \in Seq(Nat) /\ m + 1 \in 1 .. N /\ lists[m + 1] \in Seq(Nat)
        BY <1>3, <2>1
      <3>2. (m + 1) - 1 = m
        OBVIOUS
      <3>3. u[m + 1] = u[m] \o lists[m + 1]
        BY <1>1, <3>1, <3>2, Zenon
      <3>4. u[m] \o lists[m + 1] \in Seq(Nat)
        BY <3>1
      <3>5. u[m + 1] \in Seq(Nat)
        BY <3>3, <3>4, Zenon
      <3>6. QED
        BY <3>5
    <2>2. QED
      BY <2>1
  <1>4. \A m \in Nat : m \in S
    <2> HIDE DEF S
    <2>1. QED
      BY <1>2, <1>3, Induction
  <1>5. \A k \in 0 .. N : u[k] \in Seq(Nat)
    BY <1>4
  <1>6. QED
    BY <1>1, <1>5, Zenon

(* So has the one Concatenated chooses. *)
LEMMA ConcatenatedIs ==
    ASSUME NEW lists \in Seq(Seq(Nat)), NEW N, N = Len(lists)
    PROVE  /\ Concatenated(lists)[0] = <<>>
           /\ \A k \in 1 .. N :
                 Concatenated(lists)[k] = Concatenated(lists)[k - 1] \o lists[k]
           /\ \A k \in 0 .. N : Concatenated(lists)[k] \in Seq(Nat)
  <1>1. N \in Nat /\ lists \in [1 .. N -> Seq(Nat)]
    OBVIOUS
  <1>2. IsConcatenation(Concatenated(lists), lists, N)
    BY <1>1, ConcatenatedExists, Zenon DEF Concatenated, IsConcatenation
  <1>3. QED
    BY <1>1, <1>2, Concatenating, Zenon

-----------------------------------------------------------------------------
(* The same of the locals *)
IsLocals(u, e, n, values, N) ==
    u = [k \in 0 .. N |->
            IF k = 0 THEN NoLocals
            ELSE IF Steps(e, n)[k].optional THEN u[k - 1]
            ELSE Kept(e, n, u[k - 1], Steps(e, n)[k], values[k])]

(* There is a function that fits the recursion of LocalsUpTo. *)
LEMMA LocalsExist ==
    ASSUME NEW e, NEW n, NEW values, NEW N \in Nat
    PROVE  \E u : IsLocals(u, e, n, values, N)
  <1> DEFINE S == {m \in Nat : \E u : IsLocals(u, e, n, values, m)}
  <1>1. 0 \in S
    <2>1. IsLocals([k \in 0 .. 0 |-> NoLocals], e, n, values, 0)
      BY DEF IsLocals
    <2>2. QED
      BY <2>1, Zenon
  <1>2. ASSUME NEW m \in Nat, m \in S
        PROVE  m + 1 \in S
    <2>1. PICK u : IsLocals(u, e, n, values, m)
      BY <1>2
    <2> DEFINE After(x, k) == IF Steps(e, n)[k].optional THEN x
                              ELSE Kept(e, n, x, Steps(e, n)[k], values[k])
               v == [k \in 0 .. m + 1 |-> IF k <= m THEN u[k] ELSE After(u[m], k)]
               w == [k \in 0 .. m + 1 |-> IF k = 0 THEN NoLocals ELSE After(v[k - 1], k)]
    <2>2. ASSUME NEW k \in 0 .. m + 1
          PROVE  v[k] = w[k]
      <3>1. CASE k = 0
        BY <2>1, <3>1 DEF IsLocals
      <3>2. CASE k \in 1 .. m
        BY <2>1, <3>2 DEF IsLocals
      <3>3. CASE k = m + 1
        BY <3>3
      <3>4. QED
        BY <3>1, <3>2, <3>3
    <2>3. v = w
      BY <2>2, Zenon
    <2>4. IsLocals(v, e, n, values, m + 1)
      BY <2>3, Zenon DEF IsLocals
    <2> HIDE DEF v, w, After
    <2>5. m + 1 \in Nat
      OBVIOUS
    <2>6. QED
      BY <2>4, <2>5, Zenon
  <1>3. N \in S
    <2> HIDE DEF S
    <2>1. QED
      BY <1>1, <1>2, Induction
  <1>4. QED
    BY <1>3

(* LocalsUpTo is such a function. *)
LEMMA LocalsAre ==
    ASSUME NEW e, NEW n, NEW values, NEW N \in Nat, N = Len(Steps(e, n))
    PROVE  IsLocals(LocalsUpTo(e, n, values), e, n, values, N)
  <1>1. \E u : IsLocals(u, e, n, values, Len(Steps(e, n)))
    BY LocalsExist, Zenon
  <1>2. IsLocals(LocalsUpTo(e, n, values), e, n, values, Len(Steps(e, n)))
    BY <1>1, Zenon DEF LocalsUpTo, IsLocals
  <1>3. QED
    BY <1>2, Zenon
-----------------------------------------------------------------------------
(* Terms and the steps of their functions *)

(* The terms of an expression, and their parameters *)
LEMMA Terms ==
    ASSUME NEW e, IsExpression(e)
    PROVE  /\ DOMAIN e = 1 .. Len(e) /\ Len(e) \in Nat /\ 1 \in DOMAIN e
           /\ \A n \in DOMAIN e :
                 /\ e[n].op \in DOMAIN Protocol \cup {"host"}
                 /\ Args(e, n) \in Seq(1 .. Len(e)) /\ Len(Args(e, n)) \in Counts
                 /\ \A i \in 1 .. Len(Args(e, n)) : Args(e, n)[i] > n
  <1> DEFINE ops == DOMAIN Protocol \cup {"host"}
             args == Seq(1 .. Len(e))
  <1>1. e \in Seq([op : ops, args : args]) /\ Len(e) > 0
    BY DEF IsExpression
  <1> HIDE DEF ops, args
  <1>2. DOMAIN e = 1 .. Len(e) /\ Len(e) \in Nat /\ 1 \in DOMAIN e
    BY <1>1
  <1>3. ASSUME NEW n \in DOMAIN e PROVE e[n].op \in ops /\ e[n].args \in args
    <2> DEFINE terms == [op : ops, args : args]
    <2>1. e \in Seq(terms)
      BY <1>1
    <2> HIDE DEF terms
    <2>2. e[n] \in terms
      BY <1>2, <2>1
    <2>3. QED
      BY <2>2 DEF terms
  <1>4. \A n \in 1 .. Len(e) : /\ Len(e[n].args) \in Counts
                              /\ \A i \in 1 .. Len(e[n].args) : e[n].args[i] > n
    BY DEF IsExpression
  <1>5. QED
    BY <1>2, <1>3, <1>4, Zenon DEF Args, ops, args

(* What the proofs use of a term that calls a function *)
Sound(e, n) ==
    /\ ComesBack(Of(e, n), Len(Args(e, n)))
    /\ Len(Of(e, n).restores) \in 0 .. 2
    /\ \A k \in 1 .. Len(Steps(e, n)) : Param(e, n, Steps(e, n)[k]) \in n + 1 .. Len(e)

(* Every call of a resumable expression is sound. *)
LEMMA TermsAreSound ==
    ASSUME NEW e, IsExpression(e), Resumable(e), NEW n \in DOMAIN e, e[n].op # "host"
    PROVE  Sound(e, n)
  <1>1. e[n].op \in DOMAIN Protocol \ StartingOver /\ Len(Args(e, n)) \in Counts
    BY Terms DEF Resumable
  <1>2. ComesBack(Of(e, n), Len(Args(e, n)))
    BY <1>1, FunctionsComeBack, Zenon DEF Resumable, Of, Args
  <1>3. Len(Of(e, n).restores) \in 0 .. 2
    BY <1>1, RestoresAreTwo, Zenon DEF Of
  <1>4. ASSUME NEW k \in 1 .. Len(Steps(e, n))
        PROVE  Param(e, n, Steps(e, n)[k]) \in n + 1 .. Len(e)
    <2>1. Steps(e, n) \in Seq(StepOf) /\ Steps(e, n)[k].param < Len(Args(e, n))
      BY <1>2, Zenon DEF ComesBack, Steps
    <2>2. Steps(e, n)[k] \in StepOf
      BY <2>1
    <2>3. Steps(e, n)[k].param \in Nat
      BY <2>2 DEF StepOf
    <2> DEFINE i == Steps(e, n)[k].param
    <2>4. i \in Nat /\ i < Len(Args(e, n))
      BY <2>1, <2>3
    <2> HIDE DEF i
    <2>5. Args(e, n) \in Seq(1 .. Len(e)) /\ n \in Nat
      BY Terms
    <2>6. Args(e, n)[i + 1] \in 1 .. Len(e) /\ Args(e, n)[i + 1] > n
      <3>1. i + 1 \in 1 .. Len(Args(e, n))
        BY <2>4, <2>5
      <3>2. QED
        BY <2>5, <3>1, Terms
    <2>7. Args(e, n)[i + 1] \in n + 1 .. Len(e)
      BY <2>5, <2>6
    <2>8. QED
      BY <2>7, Zenon DEF Param, i
  <1>5. QED
    BY <1>2, <1>3, <1>4, Zenon DEF Sound

-----------------------------------------------------------------------------
(* What an uninterrupted evaluation calls and computes *)

IsHosts(h, e, lo) ==
    h = [n \in lo .. Len(e) |-> IF e[n].op = "host" THEN <<n>>
                                ELSE HostsUpTo(e, h, n)[Len(Steps(e, n))]]

(* HostsUpTo depends on the parameters alone. *)
LEMMA SameHosts ==
    ASSUME NEW e, NEW n, NEW g, NEW h,
           \A k \in 1 .. Len(Steps(e, n)) :
              g[Param(e, n, Steps(e, n)[k])] = h[Param(e, n, Steps(e, n)[k])]
    PROVE  HostsUpTo(e, g, n) = HostsUpTo(e, h, n)
  <1> DEFINE lists(f) == [k \in 1 .. Len(Steps(e, n)) |->
                            IF Steps(e, n)[k].optional THEN <<>>
                            ELSE f[Param(e, n, Steps(e, n)[k])]]
  <1>1. lists(g) = lists(h)
    OBVIOUS
  <1>2. HostsUpTo(e, g, n) = Concatenated(lists(g)) /\ HostsUpTo(e, h, n) = Concatenated(lists(h))
    BY Zenon DEF HostsUpTo
  <1> HIDE DEF lists
  <1>3. QED
    BY <1>1, <1>2, Zenon

(* There is a function that fits the recursion of HostsIn: the terms of    *)
(* an expression are built from the last to the first.                     *)
LEMMA HostsExist ==
    ASSUME NEW e, IsExpression(e), Resumable(e)
    PROVE  \E h : IsHosts(h, e, 1)
  <1> DEFINE N == Len(e)
             S == {m \in Nat : m <= N => \E h : IsHosts(h, e, N + 1 - m)}
  <1>0. N \in Nat /\ N > 0
    BY Terms
  <1>1. 0 \in S
    <2>1. IsHosts([n \in N + 1 .. N |-> <<>>], e, N + 1)
      <3>1. N + 1 .. N = {}
        BY <1>0
      <3>2. QED
        BY <3>1 DEF IsHosts
    <2>2. N + 1 - 0 = N + 1
      BY <1>0
    <2>3. IsHosts([n \in N + 1 .. N |-> <<>>], e, N + 1 - 0)
      BY <2>1, <2>2, Zenon
    <2> HIDE DEF N
    <2>4. QED
      BY <2>3
  <1>2. ASSUME NEW m \in Nat, m \in S
        PROVE  m + 1 \in S
    <2> SUFFICES ASSUME m + 1 <= N PROVE \E h : IsHosts(h, e, N + 1 - (m + 1))
      OBVIOUS
    <2> DEFINE lo == N - m
    <2>1. lo \in 1 .. N /\ N + 1 - (m + 1) = lo /\ N + 1 - m = lo + 1 /\ m <= N
      BY <1>0
    <2>2. PICK h : IsHosts(h, e, lo + 1)
      BY <1>2, <2>1
    <2> HIDE DEF lo, N, S
    <2> DEFINE value(f, n) == IF e[n].op = "host" THEN <<n>>
                              ELSE HostsUpTo(e, f, n)[Len(Steps(e, n))]
               v == [n \in lo .. N |-> IF n = lo THEN value(h, n) ELSE h[n]]
               w == [n \in lo .. N |-> value(v, n)]
    <2>3. ASSUME NEW n \in lo .. N
          PROVE  v[n] = w[n]
      <3>1. v[n] = value(h, n)
        <4>1. CASE n = lo
          BY <4>1
        <4>2. CASE n # lo
          <5>1. n \in lo + 1 .. N
            BY <1>0, <2>1, <4>2
          <5>2. h[n] = value(h, n)
            BY <2>2, <5>1, Zenon DEF IsHosts, N
          <5> HIDE DEF value
          <5>3. QED
            BY <4>2, <5>2
        <4>3. QED
          BY <4>1, <4>2
      <3>2. value(v, n) = value(h, n)
        <4>1. CASE e[n].op = "host"
          BY <4>1
        <4>2. CASE e[n].op # "host"
          <5>1. n \in DOMAIN e
            BY <2>1, Terms DEF N
          <5>2. Sound(e, n)
            BY <4>2, <5>1, TermsAreSound, Zenon
          <5>3. ASSUME NEW k \in 1 .. Len(Steps(e, n))
                PROVE  v[Param(e, n, Steps(e, n)[k])] = h[Param(e, n, Steps(e, n)[k])]
            <6> DEFINE p == Param(e, n, Steps(e, n)[k])
            <6>1. p \in n + 1 .. N
              BY <5>2, Zenon DEF Sound, N
            <6> HIDE DEF p, value
            <6>2. p \in lo .. N /\ p # lo
              BY <1>0, <2>1, <6>1
            <6>3. QED
              BY <6>2 DEF p
          <5> HIDE DEF v
          <5>4. HostsUpTo(e, v, n) = HostsUpTo(e, h, n)
            BY <5>3, SameHosts, Zenon
          <5>5. QED
            BY <5>4, Zenon
        <4>3. QED
          BY <4>1, <4>2
      <3> HIDE DEF value, v
      <3>3. QED
        BY <3>1, <3>2
    <2>4. v = w
      BY <2>3, Zenon
    <2>5. IsHosts(v, e, lo)
      BY <2>4, Zenon DEF IsHosts, N
    <2> HIDE DEF v, w, value
    <2>6. QED
      BY <2>1, <2>5, Zenon
  <1>3. N \in S
    <2> HIDE DEF S
    <2>1. QED
      BY <1>0, <1>1, <1>2, Induction
  <1>4. PICK h : IsHosts(h, e, N + 1 - N)
    BY <1>0, <1>3
  <1>5. N + 1 - N = 1
    BY <1>0
  <1>6. QED
    BY <1>4, <1>5, Zenon

(* HostsIn is such a function. *)
LEMMA HostsAre ==
    ASSUME NEW e, IsExpression(e), Resumable(e)
    PROVE  IsHosts(HostsIn(e), e, 1)
  <1>1. DOMAIN e = 1 .. Len(e)
    BY Terms
  <1>2. \E h : h = [n \in DOMAIN e |-> IF e[n].op = "host" THEN <<n>>
                                      ELSE HostsUpTo(e, h, n)[Len(Steps(e, n))]]
    <2>1. PICK h : IsHosts(h, e, 1)
      BY HostsExist, Zenon
    <2>2. h = [n \in DOMAIN e |-> IF e[n].op = "host" THEN <<n>>
                                 ELSE HostsUpTo(e, h, n)[Len(Steps(e, n))]]
      BY <1>1, <2>1, Zenon DEF IsHosts
    <2>3. QED
      BY <2>2, Zenon
  <1>3. HostsIn(e) = [n \in DOMAIN e |-> IF e[n].op = "host" THEN <<n>>
                                      ELSE HostsUpTo(e, HostsIn(e), n)[Len(Steps(e, n))]]
    BY <1>2, Zenon DEF HostsIn
  <1>4. QED
    BY <1>1, <1>3, Zenon DEF IsHosts
(* HostsUpTo follows from the host functions of the parameters. *)
HostsStepByStep(e, n, h) ==
    /\ Len(Steps(e, n)) \in Nat
    /\ HostsUpTo(e, h, n)[0] = <<>>
    /\ \A k \in 1 .. Len(Steps(e, n)) :
          HostsUpTo(e, h, n)[k] = HostsUpTo(e, h, n)[k - 1] \o h[Param(e, n, Steps(e, n)[k])]
    /\ \A k \in 0 .. Len(Steps(e, n)) : HostsUpTo(e, h, n)[k] \in Seq(Nat)

(* Given those of the parameters, a function adds them one step after the  *)
(* other.                                                                  *)
LEMMA HostsUpToIs ==
    ASSUME NEW e, NEW n, Sound(e, n), NEW h,
           \A k \in n + 1 .. Len(e) : h[k] \in Seq(Nat)
    PROVE  HostsStepByStep(e, n, h)
  <1> DEFINE N == Len(Steps(e, n))
  <1>1. /\ Steps(e, n) \in Seq(StepOf)
        /\ \A k \in 1 .. N : Steps(e, n)[k].optional = FALSE
    BY Zenon DEF Sound, ComesBack, Steps
  <1>2. N \in Nat
    BY <1>1
  <1> DEFINE lists == [k \in 1 .. N |-> h[Param(e, n, Steps(e, n)[k])]]
  <1>3. \A k \in 1 .. N : h[Param(e, n, Steps(e, n)[k])] \in Seq(Nat)
    BY Zenon DEF Sound
  <1>4. lists \in Seq(Seq(Nat)) /\ Len(lists) = N
    BY <1>2, <1>3
  <1>5. HostsUpTo(e, h, n) = Concatenated(lists)
    <2> DEFINE given == [k \in 1 .. Len(Steps(e, n)) |->
                            IF Steps(e, n)[k].optional THEN <<>>
                            ELSE h[Param(e, n, Steps(e, n)[k])]]
    <2>1. given = lists
      BY <1>1
    <2>2. HostsUpTo(e, h, n) = Concatenated(given)
      BY Zenon DEF HostsUpTo
    <2> HIDE DEF given, lists
    <2>3. QED
      BY <2>1, <2>2, Zenon
  <1>6. \A k \in 1 .. N : lists[k] = h[Param(e, n, Steps(e, n)[k])]
    OBVIOUS
  <1> HIDE DEF lists, N
  <1>7. /\ Concatenated(lists)[0] = <<>>
        /\ \A k \in 1 .. N : Concatenated(lists)[k] = Concatenated(lists)[k - 1] \o lists[k]
        /\ \A k \in 0 .. N : Concatenated(lists)[k] \in Seq(Nat)
    BY <1>4, ConcatenatedIs, Zenon
  <1>8. QED
    BY <1>2, <1>5, <1>6, <1>7, Zenon DEF HostsStepByStep, N

(* What HostsIn answers for a host function and for a call *)
LEMMA HostsOfTerms ==
    ASSUME NEW e, IsExpression(e), Resumable(e)
    PROVE  \A n \in DOMAIN e :
              /\ HostsIn(e)[n] \in Seq(Nat)
              /\ e[n].op = "host" => HostsIn(e)[n] = <<n>>
              /\ e[n].op # "host"
                    => HostsIn(e)[n] = HostsUpTo(e, HostsIn(e), n)[Len(Steps(e, n))]
  <1> DEFINE N == Len(e)
             h == HostsIn(e)
             S == {m \in Nat : m <= N => \A n \in N + 1 - m .. N : h[n] \in Seq(Nat)}
  <1>1. N \in Nat /\ DOMAIN e = 1 .. N
    BY Terms
  <1>2. \A n \in 1 .. N : h[n] = IF e[n].op = "host" THEN <<n>>
                                ELSE HostsUpTo(e, h, n)[Len(Steps(e, n))]
    BY HostsAre, Zenon DEF IsHosts
  <1> HIDE DEF h
  <1>3. 0 \in S
    BY <1>1
  <1>4. ASSUME NEW m \in Nat, m \in S
        PROVE  m + 1 \in S
    <2> SUFFICES ASSUME m + 1 <= N, NEW n \in N + 1 - (m + 1) .. N
                 PROVE  h[n] \in Seq(Nat)
      BY <1>1
    <2>1. n \in 1 .. N /\ m <= N
      BY <1>1
    <2>2. \A k \in N + 1 - m .. N : h[k] \in Seq(Nat)
      BY <1>1, <1>4
    <2>3. CASE e[n].op = "host"
      <3>1. h[n] = <<n>>
        BY <1>2, <2>1, <2>3, Zenon
      <3>2. n \in Nat
        BY <2>1
      <3>3. QED
        BY <3>1, <3>2
    <2>4. CASE e[n].op # "host"
      <3>1. \A k \in n + 1 .. N : h[k] \in Seq(Nat)
        BY <1>1, <2>1, <2>2
      <3>2. Sound(e, n)
        BY <1>1, <2>1, <2>4, TermsAreSound, Zenon
      <3>3. HostsStepByStep(e, n, h)
        BY <3>1, <3>2, HostsUpToIs, Zenon
      <3>4. Len(Steps(e, n)) \in 0 .. Len(Steps(e, n))
        BY <3>3 DEF HostsStepByStep
      <3>5. HostsUpTo(e, h, n)[Len(Steps(e, n))] \in Seq(Nat)
        BY <3>3, <3>4, Zenon DEF HostsStepByStep
      <3>6. QED
        BY <1>2, <2>1, <2>4, <3>5, Zenon
    <2>5. QED
      BY <2>3, <2>4
  <1>5. N \in S
    <2> HIDE DEF S
    <2>1. QED
      BY <1>1, <1>3, <1>4, Induction
  <1>6. \A n \in 1 .. N : h[n] \in Seq(Nat)
    <2>1. N + 1 - N = 1 /\ N <= N
      BY <1>1
    <2>2. \A n \in N + 1 - N .. N : h[n] \in Seq(Nat)
      BY <1>5, <2>1
    <2>3. QED
      BY <2>1, <2>2, Zenon
  <1>7. QED
    BY <1>1, <1>2, <1>6, Zenon DEF h
IsValue(h, e, lo) ==
    h = [n \in lo .. Len(e) |->
            IF e[n].op = "host" \/ Len(Args(e, n)) \notin Of(e, n).accepts THEN <<n>>
            ELSE Result(e, n, LocalsUpTo(e, n, ValuesOf(e, h, n))[Len(Steps(e, n))])]

(* The value of a term depends on those of its parameters alone. *)
LEMMA SameValues ==
    ASSUME NEW e, NEW n, NEW g, NEW h,
           \A k \in 1 .. Len(Steps(e, n)) :
              g[Param(e, n, Steps(e, n)[k])] = h[Param(e, n, Steps(e, n)[k])]
    PROVE  ValuesOf(e, g, n) = ValuesOf(e, h, n)
  BY DEF ValuesOf

(* There is a function that fits the recursion of ValueIn. *)
LEMMA ValueExists ==
    ASSUME NEW e, IsExpression(e), Resumable(e)
    PROVE  \E h : IsValue(h, e, 1)
  <1> DEFINE N == Len(e)
             S == {m \in Nat : m <= N => \E h : IsValue(h, e, N + 1 - m)}
  <1>0. N \in Nat /\ N > 0
    BY Terms
  <1>1. 0 \in S
    <2>1. IsValue([n \in N + 1 .. N |-> <<>>], e, N + 1)
      <3>1. N + 1 .. N = {}
        BY <1>0
      <3>2. QED
        BY <3>1 DEF IsValue
    <2>2. N + 1 - 0 = N + 1
      BY <1>0
    <2>3. IsValue([n \in N + 1 .. N |-> <<>>], e, N + 1 - 0)
      BY <2>1, <2>2, Zenon
    <2> HIDE DEF N
    <2>4. QED
      BY <2>3
  <1>2. ASSUME NEW m \in Nat, m \in S
        PROVE  m + 1 \in S
    <2> SUFFICES ASSUME m + 1 <= N PROVE \E h : IsValue(h, e, N + 1 - (m + 1))
      OBVIOUS
    <2> DEFINE lo == N - m
    <2>1. lo \in 1 .. N /\ N + 1 - (m + 1) = lo /\ N + 1 - m = lo + 1 /\ m <= N
      BY <1>0
    <2>2. PICK h : IsValue(h, e, lo + 1)
      BY <1>2, <2>1
    <2> HIDE DEF lo, N, S
    <2> DEFINE value(f, n) ==
                  IF e[n].op = "host" \/ Len(Args(e, n)) \notin Of(e, n).accepts THEN <<n>>
                  ELSE Result(e, n, LocalsUpTo(e, n, ValuesOf(e, f, n))[Len(Steps(e, n))])
               v == [n \in lo .. N |-> IF n = lo THEN value(h, n) ELSE h[n]]
               w == [n \in lo .. N |-> value(v, n)]
    <2>3. ASSUME NEW n \in lo .. N
          PROVE  v[n] = w[n]
      <3>1. v[n] = value(h, n)
        <4>1. CASE n = lo
          <5> HIDE DEF value
          <5>1. QED
            BY <4>1
        <4>2. CASE n # lo
          <5>1. n \in lo + 1 .. N
            BY <1>0, <2>1, <4>2
          <5>2. h[n] = value(h, n)
            BY <2>2, <5>1, Zenon DEF IsValue, N
          <5> HIDE DEF value
          <5>3. QED
            BY <4>2, <5>2
        <4>3. QED
          BY <4>1, <4>2
      <3>2. value(v, n) = value(h, n)
        <4> HIDE DEF v
        <4>1. CASE e[n].op = "host"
          BY <4>1, Zenon
        <4>2. CASE e[n].op # "host"
          <5>1. n \in DOMAIN e
            BY <2>1, Terms DEF N
          <5>2. Sound(e, n)
            BY <4>2, <5>1, TermsAreSound, Zenon
          <5>3. ASSUME NEW k \in 1 .. Len(Steps(e, n))
                PROVE  v[Param(e, n, Steps(e, n)[k])] = h[Param(e, n, Steps(e, n)[k])]
            <6> DEFINE p == Param(e, n, Steps(e, n)[k])
            <6>1. p \in n + 1 .. N
              BY <5>2, Zenon DEF Sound, N
            <6> HIDE DEF p, value
            <6>2. p \in lo .. N /\ p # lo
              BY <1>0, <2>1, <6>1
            <6>3. QED
              BY <6>2 DEF p, v
          <5>4. ValuesOf(e, v, n) = ValuesOf(e, h, n)
            BY <5>3, SameValues, Zenon
          <5>5. QED
            BY <5>4, Zenon
        <4>3. QED
          BY <4>1, <4>2
      <3> HIDE DEF value, v
      <3>3. QED
        BY <3>1, <3>2
    <2>4. v = w
      BY <2>3, Zenon
    <2>5. IsValue(v, e, lo)
      BY <2>4, Zenon DEF IsValue, N
    <2> HIDE DEF v, w, value
    <2>6. QED
      BY <2>1, <2>5, Zenon
  <1>3. N \in S
    <2> HIDE DEF S
    <2>1. QED
      BY <1>0, <1>1, <1>2, Induction
  <1>4. PICK h : IsValue(h, e, N + 1 - N)
    BY <1>0, <1>3
  <1>5. N + 1 - N = 1
    BY <1>0
  <1>6. QED
    BY <1>4, <1>5, Zenon

(* ValueIn is such a function. *)
LEMMA ValuesAre ==
    ASSUME NEW e, IsExpression(e), Resumable(e)
    PROVE  IsValue(ValueIn(e), e, 1)
  <1>1. DOMAIN e = 1 .. Len(e)
    BY Terms
  <1> DEFINE value(f, n) ==
                IF e[n].op = "host" \/ Len(Args(e, n)) \notin Of(e, n).accepts THEN <<n>>
                ELSE Result(e, n, LocalsUpTo(e, n, ValuesOf(e, f, n))[Len(Steps(e, n))])
  <1>2. \E h : h = [n \in DOMAIN e |-> value(h, n)]
    <2>1. PICK h : IsValue(h, e, 1)
      BY ValueExists, Zenon
    <2>2. h = [n \in DOMAIN e |-> value(h, n)]
      BY <1>1, <2>1, Zenon DEF IsValue
    <2>3. QED
      BY <2>2, Zenon
  <1>3. ValueIn(e) = [n \in DOMAIN e |-> value(ValueIn(e), n)]
    BY <1>2, Zenon DEF ValueIn
  <1>4. QED
    BY <1>1, <1>3, Zenon DEF IsValue

(* The value of a term *)
LEMMA ValueOfTerms ==
    ASSUME NEW e, IsExpression(e), Resumable(e), NEW n \in DOMAIN e
    PROVE  /\ e[n].op = "host" => ValueIn(e)[n] = <<n>>
           /\ Len(Args(e, n)) \notin Of(e, n).accepts => ValueIn(e)[n] = <<n>>
           /\ e[n].op # "host" /\ Len(Args(e, n)) \in Of(e, n).accepts
                 => ValueIn(e)[n] = Result(e, n, LocalsUpTo(e, n, ValuesOf(e, ValueIn(e), n))
                                                          [Len(Steps(e, n))])
  <1>1. n \in 1 .. Len(e)
    BY Terms
  <1>2. QED
    BY <1>1, ValuesAre, Zenon DEF IsValue

(* Keeping a value leaves the other locals alone. *)
LEMMA KeptElsewhere ==
    ASSUME NEW e, NEW n, NEW locals, NEW s, NEW x, NEW l \in 0 .. 3,
           locals = [i \in 0 .. 3 |-> locals[i]], s.local # l
    PROVE  Kept(e, n, locals, s, x)[l] = locals[l]
  BY DEF Kept

(* The locals of a function of those that come back, one step after the    *)
(* other: only a step that has local l for its own sets it.                *)
LocalsFrom(e, n, v) ==
    LET u == LocalsUpTo(e, n, ValuesOf(e, v, n))
        N == Len(Steps(e, n))
    IN /\ u[0] = NoLocals
       /\ \A k \in 1 .. N :
             u[k] = Kept(e, n, u[k - 1], Steps(e, n)[k], v[Param(e, n, Steps(e, n)[k])])
       /\ \A k \in 0 .. N : u[k] = [l \in 0 .. 3 |-> u[k][l]]
       /\ \A k \in 1 .. N, l \in 0 .. 3 :
             Unset(Of(e, n), Len(Args(e, n)), k, l) => u[k - 1][l] = Nil

(* The locals are those of the steps, and a local no step had for its own  *)
(* is nil.                                                                 *)
LEMMA LocalsOfSteps ==
    ASSUME NEW e, NEW n, Sound(e, n), NEW v
    PROVE  LocalsFrom(e, n, v)
  <1> DEFINE given == LocalsUpTo(e, n, ValuesOf(e, v, n))
  <1>0. PICK u, N : u = given /\ N = Len(Steps(e, n))
    OBVIOUS
  <1> HIDE DEF given
  <1>1. /\ Steps(e, n) \in Seq(StepOf)
        /\ \A k \in 1 .. N : Steps(e, n)[k].optional = FALSE
    BY <1>0, Zenon DEF Sound, ComesBack, Steps
  <1>2. N \in Nat
    BY <1>0, <1>1
  <1>3. u = [k \in 0 .. N |->
               IF k = 0 THEN NoLocals
               ELSE IF Steps(e, n)[k].optional THEN u[k - 1]
               ELSE Kept(e, n, u[k - 1], Steps(e, n)[k], ValuesOf(e, v, n)[k])]
    <2>1. IsLocals(u, e, n, ValuesOf(e, v, n), N)
      BY <1>0, <1>2, LocalsAre, Zenon DEF given
    <2>2. QED
      BY <2>1, Zenon DEF IsLocals
  <1>4. \A k \in 1 .. N : ValuesOf(e, v, n)[k] = v[Param(e, n, Steps(e, n)[k])]
    BY <1>0 DEF ValuesOf
  <1>5. u[0] = NoLocals
    BY <1>2, <1>3
  <1>6. ASSUME NEW k \in 1 .. N
        PROVE  u[k] = Kept(e, n, u[k - 1], Steps(e, n)[k], v[Param(e, n, Steps(e, n)[k])])
    <2>1. k \in 0 .. N /\ k # 0
      BY <1>2
    <2>2. u[k] = Kept(e, n, u[k - 1], Steps(e, n)[k], ValuesOf(e, v, n)[k])
      BY <1>1, <1>3, <2>1, Zenon
    <2>3. QED
      BY <1>4, <2>2, Zenon
  <1>7. ASSUME NEW k \in 1 .. N, NEW locals, locals = [l \in 0 .. 3 |-> locals[l]], NEW x
        PROVE  Kept(e, n, locals, Steps(e, n)[k], x)
                  = [l \in 0 .. 3 |-> Kept(e, n, locals, Steps(e, n)[k], x)[l]]
    BY <1>7 DEF Kept
  <1> DEFINE S == {m \in Nat : m <= N => u[m] = [l \in 0 .. 3 |-> u[m][l]]}
             T == {m \in Nat : m + 1 <= N => \A l \in 0 .. 3 :
                      Unset(Of(e, n), Len(Args(e, n)), m + 1, l) => u[m][l] = Nil}
  <1>8. 0 \in S /\ 0 \in T
    BY <1>5 DEF NoLocals
  <1>9. ASSUME NEW m \in Nat, m \in S
        PROVE  m + 1 \in S
    <2> SUFFICES ASSUME m + 1 <= N PROVE u[m + 1] = [l \in 0 .. 3 |-> u[m + 1][l]]
      OBVIOUS
    <2>1. m + 1 \in 1 .. N /\ (m + 1) - 1 = m
      BY <1>2
    <2>2. u[m] = [l \in 0 .. 3 |-> u[m][l]]
      BY <1>2, <1>9
    <2>3. u[m + 1] = Kept(e, n, u[m], Steps(e, n)[m + 1], v[Param(e, n, Steps(e, n)[m + 1])])
      BY <1>6, <2>1, Zenon
    <2> DEFINE x == v[Param(e, n, Steps(e, n)[m + 1])]
               w == Kept(e, n, u[m], Steps(e, n)[m + 1], x)
    <2>4. w = [l \in 0 .. 3 |-> w[l]]
      <3> HIDE DEF x
      <3>1. QED
        BY <1>7, <2>1, <2>2, Zenon
    <2>5. u[m + 1] = w
      BY <2>3, Zenon
    <2> HIDE DEF w
    <2>6. QED
      BY <2>4, <2>5, Zenon
  <1>10. \A m \in Nat : m \in S
    <2> HIDE DEF S, T
    <2>1. QED
      BY <1>8, <1>9, Induction
  <1>11. \A k \in 0 .. N : u[k] = [l \in 0 .. 3 |-> u[k][l]]
    <2>1. ASSUME NEW k \in 0 .. N PROVE u[k] = [l \in 0 .. 3 |-> u[k][l]]
      <3>1. k \in Nat /\ k <= N
        BY <1>2
      <3>2. QED
        BY <1>10, <3>1, Zenon
    <2>2. QED
      BY <2>1, Zenon
  <1>12. ASSUME NEW m \in Nat, m \in T
         PROVE  m + 1 \in T
    <2> SUFFICES ASSUME (m + 1) + 1 <= N, NEW l \in 0 .. 3,
                        Unset(Of(e, n), Len(Args(e, n)), (m + 1) + 1, l)
                 PROVE  u[m + 1][l] = Nil
      OBVIOUS
    <2>1. m + 1 \in 1 .. N /\ (m + 1) - 1 = m /\ m \in 0 .. N /\ m + 1 <= N
      BY <1>2
    <2>2. Steps(e, n)[m + 1].local # l
      <3>1. m + 1 \in 1 .. ((m + 1) + 1) - 1
        OBVIOUS
      <3>2. QED
        BY <3>1, Zenon DEF Unset, Steps
    <2>3. Unset(Of(e, n), Len(Args(e, n)), m + 1, l)
      <3>1. \A i \in 1 .. (m + 1) - 1 : i \in 1 .. ((m + 1) + 1) - 1
        OBVIOUS
      <3>2. QED
        BY <3>1, Zenon DEF Unset
    <2>4. u[m][l] = Nil
      BY <1>12, <2>1, <2>3
    <2>5. u[m + 1] = Kept(e, n, u[m], Steps(e, n)[m + 1], v[Param(e, n, Steps(e, n)[m + 1])])
      BY <1>6, <2>1, Zenon
    <2>6. u[m] = [j \in 0 .. 3 |-> u[m][j]]
      BY <1>11, <2>1, Zenon
    <2> DEFINE x == v[Param(e, n, Steps(e, n)[m + 1])]
               w == Kept(e, n, u[m], Steps(e, n)[m + 1], x)
    <2>7. w[l] = u[m][l]
      <3> HIDE DEF x, S, T
      <3>1. QED
        BY <2>2, <2>6, KeptElsewhere
    <2>8. QED
      BY <2>4, <2>5, <2>7, Zenon
  <1>13. \A m \in Nat : m \in T
    <2> HIDE DEF S, T
    <2>1. QED
      BY <1>8, <1>12, Induction
  <1>14. ASSUME NEW k \in 1 .. N, NEW l \in 0 .. 3, Unset(Of(e, n), Len(Args(e, n)), k, l)
         PROVE  u[k - 1][l] = Nil
    <2>1. k - 1 \in Nat /\ (k - 1) + 1 = k /\ k <= N
      BY <1>2
    <2>2. k - 1 \in T
      BY <1>13, <2>1
    <2>3. QED
      BY <1>14, <2>1, <2>2, Zenon
  <1>15. QED
    BY <1>0, <1>5, <1>6, <1>11, <1>14, Zenon DEF LocalsFrom, given
-----------------------------------------------------------------------------
(* Sequences of anything *)

Sequenced(s) == \E S : s \in Seq(S)

Extends(t, s, x) ==
    /\ Sequenced(t) /\ Len(s) \in Nat /\ Len(t) = Len(s) + 1
    /\ \A i \in 1 .. Len(s) : t[i] = s[i]
    /\ t[Len(s) + 1] = x

(* Append extends a sequence by one. *)
LEMMA Appended ==
    ASSUME NEW s, Sequenced(s), NEW x
    PROVE  Extends(Append(s, x), s, x)
  <1>1. PICK S : s \in Seq(S)
    BY DEF Sequenced
  <1>2. s \in Seq(S \cup {x})
    BY <1>1
  <1>3. Append(s, x) \in Seq(S \cup {x})
    BY <1>2
  <1>4. QED
    BY <1>2, <1>3 DEF Sequenced, Extends

(* A sequence without its last *)
LEMMA Shortened ==
    ASSUME NEW s, Sequenced(s), s # <<>>, NEW f, f = SubSeq(s, 1, Len(s) - 1)
    PROVE  /\ Sequenced(f) /\ Len(s) \in Nat /\ Len(s) > 0 /\ Len(f) = Len(s) - 1
           /\ \A i \in 1 .. Len(f) : f[i] = s[i]
  <1>1. PICK S : s \in Seq(S)
    BY DEF Sequenced
  <1>2. Len(s) \in Nat /\ Len(s) > 0
    BY <1>1
  <1> DEFINE n == Len(s) - 1
  <1>3. 1 \in Int /\ n \in Int /\ \A i \in 1 .. n : s[i] \in S
    BY <1>1, <1>2
  <1>5. /\ f \in Seq(S) /\ Len(f) = IF 1 <= n THEN n - 1 + 1 ELSE 0
        /\ \A i \in 1 .. n - 1 + 1 : f[i] = s[1 + i - 1]
    <2> HIDE DEF n
    <2> DEFINE g == SubSeq(s, 1, n)
    <2>1. /\ g \in Seq(S) /\ Len(g) = IF 1 <= n THEN n - 1 + 1 ELSE 0
          /\ \A i \in 1 .. n - 1 + 1 : g[i] = s[1 + i - 1]
      BY <1>3, SubSeqProperties
    <2>2. f = g
      BY DEF n
    <2> HIDE DEF g
    <2>3. QED
      BY <2>1, <2>2, Zenon
  <1>6. Len(f) = Len(s) - 1
    <2>1. n \in Nat /\ n = Len(s) - 1 /\ Len(f) = IF 1 <= n THEN n - 1 + 1 ELSE 0
      BY <1>2, <1>5
    <2> HIDE DEF n
    <2>2. QED
      BY <2>1
  <1>7. \A i \in 1 .. Len(f) : f[i] = s[i]
    <2>1. \A i \in 1 .. Len(f) : i \in 1 .. n - 1 + 1 /\ 1 + i - 1 = i
      BY <1>2, <1>6
    <2>2. QED
      BY <1>5, <2>1, Zenon
  <1>4. QED
    BY <1>2, <1>5, <1>6, <1>7, Zenon DEF Sequenced

Prefixes(p, s, x) ==
    /\ Sequenced(p) /\ Len(s) \in Nat /\ Len(p) = Len(s) + 1 /\ p[1] = x
    /\ \A i \in 1 .. Len(s) : p[i + 1] = s[i]

(* A sequence with one more in front *)
LEMMA Prefixed ==
    ASSUME NEW s, Sequenced(s), NEW x
    PROVE  Prefixes(<<x>> \o s, s, x)
  <1> DEFINE p == <<x>> \o s
  <1>1. PICK S : s \in Seq(S)
    BY DEF Sequenced
  <1>2. s \in Seq(S \cup {x}) /\ <<x>> \in Seq(S \cup {x})
    BY <1>1
  <1>3. p \in Seq(S \cup {x})
    BY <1>2
  <1>4. QED
    BY <1>2, <1>3 DEF Sequenced, Prefixes

(* A sequence without its first *)
LEMMA Tailed ==
    ASSUME NEW s, Sequenced(s), s # <<>>, NEW f, f = Tail(s)
    PROVE  /\ Sequenced(f) /\ Len(s) \in Nat /\ Len(s) > 0 /\ Len(f) = Len(s) - 1
           /\ Head(s) = s[1]
           /\ \A i \in 1 .. Len(f) : f[i] = s[i + 1]
  <1>1. PICK S : s \in Seq(S)
    BY DEF Sequenced
  <1>2. f \in Seq(S)
    BY <1>1
  <1>3. QED
    BY <1>1, <1>2 DEF Sequenced

(* The empty sequence is one of anything. *)
LEMMA Nothing == Sequenced(<<>>) /\ Len(<<>>) = 0
  <1>1. <<>> \in Seq({})
    OBVIOUS
  <1>2. QED
    BY <1>1 DEF Sequenced

(* Only the empty sequence has no length. *)
LEMMA Emptied ==
    ASSUME NEW s, Sequenced(s)
    PROVE  Len(s) \in Nat /\ (s = <<>> <=> Len(s) = 0)
  BY DEF Sequenced

Prefix(s, t) == \E r \in Seq(Nat) : t = s \o r

(* Concatenation is associative. *)
LEMMA Associative ==
    ASSUME NEW r \in Seq(Nat), NEW s \in Seq(Nat), NEW t \in Seq(Nat)
    PROVE  (r \o s) \o t = r \o (s \o t)
  OBVIOUS

(* What a prefix begins with is a prefix. *)
LEMMA ShorterPrefix ==
    ASSUME NEW r \in Seq(Nat), NEW s \in Seq(Nat), NEW t \in Seq(Nat), NEW all,
           Prefix(r \o (s \o t), all)
    PROVE  Prefix(r \o s, all)
  <1>1. PICK x \in Seq(Nat) : all = (r \o (s \o t)) \o x
    BY Zenon DEF Prefix
  <1>2. r \o (s \o t) = (r \o s) \o t
    BY Associative, Zenon
  <1>3. r \o s \in Seq(Nat) /\ t \o x \in Seq(Nat)
    OBVIOUS
  <1>4. all = (r \o s) \o (t \o x)
    <2>1. ((r \o s) \o t) \o x = (r \o s) \o (t \o x)
      <3> DEFINE rs == r \o s
      <3>1. rs \in Seq(Nat)
        BY <1>3
      <3> HIDE DEF rs
      <3>2. (rs \o t) \o x = rs \o (t \o x)
        BY <3>1, Associative, Zenon
      <3>3. QED
        BY <3>2 DEF rs
    <2>2. QED
      BY <1>1, <1>2, <2>1, Zenon
  <1>5. QED
    BY <1>3, <1>4, Zenon DEF Prefix
-----------------------------------------------------------------------------
(* Where an evaluation stands: the activations that led to a term, each    *)
(* with the step it is at and the host functions that had answered before. *)

HostsOf(e, n) == HostsUpTo(e, HostsIn(e), n)
NodeAt(e, C, i) == IF i = 0 THEN 1 ELSE Param(e, C[i].node, Steps(e, C[i].node)[C[i].at])
BeforeAt(e, C, i) == IF i = 0 THEN <<>> ELSE C[i].before \o HostsOf(e, C[i].node)[C[i].at - 1]

Link(e, C, i) ==
    /\ C[i].node = NodeAt(e, C, i - 1) /\ C[i].before = BeforeAt(e, C, i - 1)
    /\ e[C[i].node].op # "host" /\ C[i].at \in 1 .. Len(Steps(e, C[i].node))

PlacedAt(e, n, b) ==
    n \in DOMAIN e /\ b \in Seq(Nat) /\ Prefix(b \o HostsIn(e)[n], HostsIn(e)[1])
Placed(e, C, i) == PlacedAt(e, NodeAt(e, C, i), BeforeAt(e, C, i))

Chain(e, C) ==
    /\ Sequenced(C)
    /\ \A i \in 1 .. Len(C) : Link(e, C, i)
    /\ \A i \in 0 .. Len(C) : Placed(e, C, i)

(* The two meet the terms they say of the first parts alone. *)
LEMMA SamePlace ==
    ASSUME NEW e, NEW C, NEW D, NEW i, i # 0 => C[i] = D[i]
    PROVE  /\ NodeAt(e, C, i) = NodeAt(e, D, i) /\ BeforeAt(e, C, i) = BeforeAt(e, D, i)
           /\ Placed(e, C, i) <=> Placed(e, D, i)
  <1>1. NodeAt(e, C, i) = NodeAt(e, D, i) /\ BeforeAt(e, C, i) = BeforeAt(e, D, i)
    <2>1. CASE i = 0
      BY <2>1, Zenon DEF NodeAt, BeforeAt
    <2>2. CASE i # 0
      BY <2>2, Zenon DEF NodeAt, BeforeAt
    <2>3. QED
      BY <2>1, <2>2
  <1>2. QED
    BY <1>1, Zenon DEF Placed

(* A link depends on its two ends alone. *)
LEMMA SameLink ==
    ASSUME NEW e, NEW C, NEW D, NEW i \in Nat, i > 0, C[i] = D[i],
           i - 1 # 0 => C[i - 1] = D[i - 1], Link(e, C, i)
    PROVE  Link(e, D, i)
  <1>1. NodeAt(e, C, i - 1) = NodeAt(e, D, i - 1) /\ BeforeAt(e, C, i - 1) = BeforeAt(e, D, i - 1)
    BY SamePlace, Zenon
  <1>2. QED
    BY <1>1 DEF Link

(* The empty chain leads to the expression itself. *)
LEMMA EmptyChain ==
    ASSUME NEW e, IsExpression(e), Resumable(e)
    PROVE  Chain(e, <<>>) /\ NodeAt(e, <<>>, 0) = 1 /\ BeforeAt(e, <<>>, 0) = <<>>
  <1>1. NodeAt(e, <<>>, 0) = 1 /\ BeforeAt(e, <<>>, 0) = <<>>
    BY Zenon DEF NodeAt, BeforeAt
  <1>2. 1 \in DOMAIN e /\ HostsIn(e)[1] \in Seq(Nat)
    BY Terms, HostsOfTerms, Zenon
  <1>3. Prefix(<<>> \o HostsIn(e)[1], HostsIn(e)[1])
    <2> DEFINE h == HostsIn(e)[1]
    <2>1. h \in Seq(Nat)
      BY <1>2
    <2> HIDE DEF h
    <2>2. h = (<<>> \o h) \o <<>> /\ <<>> \in Seq(Nat)
      BY <2>1
    <2>3. Prefix(<<>> \o h, h)
      BY <2>2, Zenon DEF Prefix
    <2>4. QED
      BY <2>3 DEF h
  <1>4. <<>> \in Seq(Nat)
    OBVIOUS
  <1>5. Placed(e, <<>>, 0)
    BY <1>1, <1>2, <1>3, <1>4, Zenon DEF Placed, PlacedAt
  <1>6. 1 .. Len(<<>>) = {} /\ 0 .. Len(<<>>) = {0}
    BY Nothing
  <1>7. QED
    BY <1>1, <1>5, <1>6, Nothing, Zenon DEF Chain

(* A term of a resumable expression that calls a function *)
Called(e, n) == IsExpression(e) /\ Resumable(e) /\ n \in DOMAIN e /\ e[n].op # "host"

(* The host functions of a term, one step after the other *)
StepByStep(e, n) ==
    /\ Len(Steps(e, n)) \in Nat
    /\ HostsOf(e, n)[0] = <<>> /\ HostsIn(e)[n] = HostsOf(e, n)[Len(Steps(e, n))]
    /\ \A k \in 0 .. Len(Steps(e, n)) : HostsOf(e, n)[k] \in Seq(Nat)
    /\ \A k \in 1 .. Len(Steps(e, n)) :
          /\ Param(e, n, Steps(e, n)[k]) \in DOMAIN e
          /\ HostsIn(e)[Param(e, n, Steps(e, n)[k])] \in Seq(Nat)
          /\ HostsOf(e, n)[k]
                = HostsOf(e, n)[k - 1] \o HostsIn(e)[Param(e, n, Steps(e, n)[k])]

(* The host functions of a call are those of its steps, one after the      *)
(* other.                                                                  *)
LEMMA HostsOfSteps ==
    ASSUME NEW e, NEW n, Called(e, n)
    PROVE  Sound(e, n) /\ StepByStep(e, n)
  <1>0. IsExpression(e) /\ Resumable(e) /\ n \in DOMAIN e /\ e[n].op # "host"
    BY DEF Called
  <1>1. Sound(e, n)
    BY <1>0, TermsAreSound, Zenon
  <1>2. \A i \in n + 1 .. Len(e) : i \in DOMAIN e
    BY <1>0, Terms
  <1> DEFINE h == HostsIn(e)
  <1>3. \A i \in DOMAIN e : h[i] \in Seq(Nat)
    BY <1>0, HostsOfTerms, Zenon
  <1>4. h[n] = HostsUpTo(e, h, n)[Len(Steps(e, n))]
    BY <1>0, HostsOfTerms, Zenon
  <1>5. HostsOf(e, n) = HostsUpTo(e, h, n)
    BY Zenon DEF HostsOf
  <1> HIDE DEF h
  <1>6. HostsStepByStep(e, n, h)
    BY <1>1, <1>2, <1>3, HostsUpToIs, Zenon
  <1>7. \A k \in 1 .. Len(Steps(e, n)) : Param(e, n, Steps(e, n)[k]) \in DOMAIN e
    BY <1>1, <1>2, Zenon DEF Sound
  <1>8. StepByStep(e, n)
    BY <1>3, <1>4, <1>5, <1>6, <1>7, Zenon DEF StepByStep, HostsStepByStep, h
  <1>9. QED
    BY <1>1, <1>8, Zenon

(* Those of the first steps come before those of all. *)
Adds(u, x, N) ==
    /\ N \in Nat /\ \A i \in 0 .. N : u[i] \in Seq(Nat)
    /\ \A i \in 1 .. N : x[i] \in Seq(Nat) /\ u[i] = u[i - 1] \o x[i]

(* A partial sum is a prefix of the whole. *)
LEMMA LaterPrefix ==
    ASSUME NEW N, NEW u, NEW x, Adds(u, x, N), NEW k \in 0 .. N
    PROVE  Prefix(u[k], u[N])
  <1>0. /\ N \in Nat /\ \A i \in 0 .. N : u[i] \in Seq(Nat)
        /\ \A i \in 1 .. N : x[i] \in Seq(Nat) /\ u[i] = u[i - 1] \o x[i]
    BY DEF Adds
  <1> DEFINE S == {d \in Nat : k + d <= N => \E r \in Seq(Nat) : u[k + d] = u[k] \o r}
  <1>3. 0 \in S
    <2>1. u[k] \in Seq(Nat) /\ k + 0 = k
      BY <1>0
    <2>2. u[k] = u[k] \o <<>> /\ <<>> \in Seq(Nat)
      BY <2>1
    <2>3. \E r \in Seq(Nat) : u[k + 0] = u[k] \o r
      BY <2>1, <2>2, Zenon
    <2>4. QED
      BY <2>3
  <1>4. ASSUME NEW d \in Nat, d \in S
        PROVE  d + 1 \in S
    <2>1. ASSUME k + (d + 1) <= N
          PROVE  \E r \in Seq(Nat) : u[k + (d + 1)] = u[k] \o r
      <3> DEFINE i == k + (d + 1)
                 a == u[k]
                 z == x[i]
      <3>1. i \in 1 .. N /\ i - 1 = k + d /\ k + d <= N
        BY <1>0, <2>1
      <3>2. PICK r \in Seq(Nat) : u[k + d] = a \o r
        BY <1>4, <3>1, Zenon
      <3>3. a \in Seq(Nat) /\ z \in Seq(Nat)
        BY <1>0, <3>1
      <3>4. u[i] = u[k + d] \o z
        BY <1>0, <3>1, Zenon
      <3> HIDE DEF a, z, i, S
      <3>5. (a \o r) \o z = a \o (r \o z)
        BY <3>3, Associative, Zenon
      <3>6. r \o z \in Seq(Nat)
        BY <3>3
      <3>7. u[i] = a \o (r \o z)
        BY <3>2, <3>4, <3>5, Zenon
      <3>8. QED
        BY <3>6, <3>7, Zenon DEF i, a
    <2>2. d + 1 \in Nat
      OBVIOUS
    <2>3. QED
      BY <2>1, <2>2, Zenon
  <1>5. N - k \in S
    <2> HIDE DEF S
    <2>1. N - k \in Nat
      BY <1>0
    <2>2. QED
      BY <1>3, <1>4, <2>1, Induction, Zenon
  <1>6. k + (N - k) = N /\ N <= N
    BY <1>0
  <1>7. QED
    BY <1>5, <1>6, Zenon DEF Prefix

(* The host functions of the first steps are a prefix of those of all. *)
LEMMA FirstHosts ==
    ASSUME NEW e, NEW n, Called(e, n), NEW k \in 0 .. Len(Steps(e, n))
    PROVE  Prefix(HostsOf(e, n)[k], HostsOf(e, n)[Len(Steps(e, n))])
  <1> DEFINE N == Len(Steps(e, n))
             u == HostsOf(e, n)
             x == [i \in 1 .. N |-> HostsIn(e)[Param(e, n, Steps(e, n)[i])]]
  <1>1. StepByStep(e, n)
    BY HostsOfSteps, Zenon
  <1>2. \A i \in 1 .. N : x[i] = HostsIn(e)[Param(e, n, Steps(e, n)[i])]
    OBVIOUS
  <1> HIDE DEF x
  <1>3. \A i \in 1 .. N : x[i] \in Seq(Nat) /\ u[i] = u[i - 1] \o x[i]
    BY <1>1, <1>2, Zenon DEF StepByStep
  <1>4. N \in Nat /\ \A i \in 0 .. N : u[i] \in Seq(Nat)
    BY <1>1, Zenon DEF StepByStep
  <1> HIDE DEF u, N
  <1>5. k \in 0 .. N
    BY DEF N
  <1>6. Adds(u, x, N)
    BY <1>3, <1>4, Zenon DEF Adds
  <1>7. Prefix(u[k], u[N])
    BY <1>5, <1>6, LaterPrefix, Zenon
  <1>8. QED
    BY <1>7, Zenon DEF u, N

(* What answers before a term and in it begins what answers in all: so do  *)
(* what answers before a parameter and in it. *)
LEMMA PlaceOfPart ==
    ASSUME NEW b \in Seq(Nat), NEW v \in Seq(Nat), NEW h \in Seq(Nat), NEW w, NEW all,
           Prefix(v \o h, w), Prefix(b \o w, all)
    PROVE  b \o v \in Seq(Nat) /\ Prefix((b \o v) \o h, all)
  <1>1. PICK r \in Seq(Nat) : w = (v \o h) \o r
    BY Zenon DEF Prefix
  <1>2. Prefix(b \o ((v \o h) \o r), all)
    BY <1>1, Zenon
  <1>3. Prefix(b \o (v \o h), all)
    <2>1. v \o h \in Seq(Nat)
      OBVIOUS
    <2>2. QED
      BY <1>2, <2>1, ShorterPrefix, Zenon
  <1>4. (b \o v) \o h = b \o (v \o h)
    BY Associative, Zenon
  <1>5. b \o v \in Seq(Nat)
    OBVIOUS
  <1>6. QED
    BY <1>3, <1>4, <1>5, Zenon

(* A parameter stands where the call does, after the steps before it. *)
LEMMA ParameterPlaced ==
    ASSUME NEW e, NEW n, Called(e, n), NEW k \in 1 .. Len(Steps(e, n)), NEW b,
           PlacedAt(e, n, b)
    PROVE  PlacedAt(e, Param(e, n, Steps(e, n)[k]), b \o HostsOf(e, n)[k - 1])
  <1> DEFINE N == Len(Steps(e, n))
             u == HostsOf(e, n)[k]
             v == HostsOf(e, n)[k - 1]
             p == Param(e, n, Steps(e, n)[k])
             h == HostsIn(e)[p]
             w == HostsOf(e, n)[N]
             all == HostsIn(e)[1]
  <1>1. StepByStep(e, n)
    BY HostsOfSteps, Zenon
  <1>2. N \in Nat
    BY <1>1 DEF StepByStep
  <1>3. k \in 0 .. N /\ k - 1 \in 0 .. N
    BY <1>2
  <1>4. /\ u \in Seq(Nat) /\ v \in Seq(Nat) /\ HostsIn(e)[n] = w
        /\ h \in Seq(Nat) /\ p \in DOMAIN e /\ u = v \o h
    BY <1>1, <1>3, Zenon DEF StepByStep
  <1>5. Prefix(v \o h, w)
    <2>1. Prefix(u, w)
      BY <1>3, FirstHosts, Zenon
    <2>2. QED
      BY <1>4, <2>1, Zenon
  <1>6. b \in Seq(Nat) /\ Prefix(b \o w, all)
    BY <1>4, Zenon DEF PlacedAt
  <1> HIDE DEF N, u, v, h, w, p, all
  <1>7. b \o v \in Seq(Nat) /\ Prefix((b \o v) \o h, all)
    BY <1>4, <1>5, <1>6, PlaceOfPart, Zenon
  <1>8. PlacedAt(e, p, b \o v)
    BY <1>4, <1>7, Zenon DEF PlacedAt, h, all
  <1>9. QED
    BY <1>8, Zenon DEF p, v

Leads(e, C, n) == Chain(e, C) /\ n = NodeAt(e, C, Len(C))
Place(x, n, k, b) == x.node = n /\ x.at = k /\ x.before = b
Deepens(e, C, D, n, k) ==
    BeforeAt(e, D, Len(D)) = BeforeAt(e, C, Len(C)) \o HostsOf(e, n)[k - 1]

(* Evaluating parameter k of the term a chain leads to makes it longer. *)
LEMMA LongerChain ==
    ASSUME NEW e, NEW C, NEW n, Leads(e, C, n), Called(e, n),
           NEW k \in 1 .. Len(Steps(e, n)), NEW D, NEW x, Extends(D, C, x),
           Place(x, n, k, BeforeAt(e, C, Len(C)))
    PROVE  Leads(e, D, Param(e, n, Steps(e, n)[k])) /\ Deepens(e, C, D, n, k)
  <1> DEFINE m == Len(C)
  <1>0. /\ Sequenced(D) /\ Len(D) = m + 1 /\ \A i \in 1 .. m : D[i] = C[i]
        /\ D[m + 1].node = n /\ D[m + 1].at = k /\ D[m + 1].before = BeforeAt(e, C, m)
        /\ n = NodeAt(e, C, m) /\ Chain(e, C)
    BY Zenon DEF Extends, Leads, Place
  <1>1. Sequenced(C)
    BY <1>0, Zenon DEF Chain
  <1>2. /\ \A i \in 1 .. m : Link(e, C, i)
        /\ \A i \in 0 .. m : Placed(e, C, i)
    BY <1>0, Zenon DEF Chain
  <1>3. m \in Nat
    BY <1>1, Emptied
  <1> HIDE DEF m
  <1>4. m + 1 # 0 /\ (m + 1) - 1 = m /\ m \in 0 .. m
    BY <1>3
  <1>5. NodeAt(e, D, m + 1) = Param(e, n, Steps(e, n)[k])
    BY <1>0, <1>4, Zenon DEF NodeAt
  <1>6. BeforeAt(e, D, m + 1) = BeforeAt(e, C, m) \o HostsOf(e, n)[k - 1]
    BY <1>0, <1>4, Zenon DEF BeforeAt
  <1>7. ASSUME NEW i \in 0 .. m
        PROVE  /\ NodeAt(e, D, i) = NodeAt(e, C, i) /\ BeforeAt(e, D, i) = BeforeAt(e, C, i)
               /\ Placed(e, D, i)
    <2>1. i # 0 => i \in 1 .. m
      BY <1>3
    <2>2. i # 0 => D[i] = C[i]
      BY <1>0, <2>1, Zenon
    <2>3. Placed(e, C, i)
      BY <1>2, Zenon
    <2>4. /\ NodeAt(e, D, i) = NodeAt(e, C, i) /\ BeforeAt(e, D, i) = BeforeAt(e, C, i)
          /\ Placed(e, D, i) <=> Placed(e, C, i)
      BY <2>2, SamePlace
    <2>5. QED
      BY <2>3, <2>4
  <1>8. NodeAt(e, D, m) = n /\ BeforeAt(e, D, m) = BeforeAt(e, C, m)
    BY <1>0, <1>4, <1>7
  <1>9. Link(e, D, m + 1)
    BY <1>0, <1>4, <1>8, Zenon DEF Link, Called
  <1>10. ASSUME NEW i \in 1 .. m
         PROVE  Link(e, D, i)
    <2>1. i \in Nat /\ i > 0 /\ (i - 1 # 0 => i - 1 \in 1 .. m)
      BY <1>3
    <2>2. D[i] = C[i] /\ (i - 1 # 0 => D[i - 1] = C[i - 1]) /\ Link(e, C, i)
      BY <1>0, <1>2, <2>1, Zenon
    <2>3. QED
      BY <2>1, <2>2, SameLink
  <1>11. Placed(e, D, m + 1)
    <2>1. PlacedAt(e, n, BeforeAt(e, C, m))
      BY <1>0, <1>2, <1>4, Zenon DEF Placed
    <2>2. PlacedAt(e, Param(e, n, Steps(e, n)[k]), BeforeAt(e, C, m) \o HostsOf(e, n)[k - 1])
      BY <2>1, ParameterPlaced, Zenon
    <2>3. QED
      BY <1>5, <1>6, <2>2, Zenon DEF Placed
  <1>12. Chain(e, D)
    <2>1. ASSUME NEW i \in 1 .. Len(D) PROVE Link(e, D, i)
      <3>1. i \in 1 .. m \/ i = m + 1
        BY <1>0, <1>3
      <3>2. QED
        BY <1>9, <1>10, <3>1, Zenon
    <2>2. ASSUME NEW i \in 0 .. Len(D) PROVE Placed(e, D, i)
      <3>1. i \in 0 .. m \/ i = m + 1
        BY <1>0, <1>3
      <3>2. QED
        BY <1>7, <1>11, <3>1, Zenon
    <2>3. QED
      BY <1>0, <2>1, <2>2, Zenon DEF Chain
  <1>13. QED
    BY <1>0, <1>5, <1>6, <1>12, Zenon DEF Leads, Deepens, m

(* The part of a chain before its last step is one. *)
Shorter(e, C, m, D) ==
    /\ Chain(e, D) /\ Len(D) = m /\ m \in Nat
    /\ \A i \in 1 .. m : D[i] = C[i]
    /\ NodeAt(e, D, m) = C[m + 1].node /\ BeforeAt(e, D, m) = C[m + 1].before

(* A chain without its last link is a chain. *)
LEMMA ShorterChain ==
    ASSUME NEW e, NEW C, Chain(e, C), C # <<>>, NEW m, m = Len(C) - 1
    PROVE  Shorter(e, C, m, SubSeq(C, 1, m))
  <1> DEFINE D == SubSeq(C, 1, m)
  <1>1. /\ Sequenced(C) /\ \A i \in 1 .. Len(C) : Link(e, C, i)
        /\ \A i \in 0 .. Len(C) : Placed(e, C, i)
    BY Zenon DEF Chain
  <1>2. /\ Sequenced(D) /\ Len(C) \in Nat /\ Len(C) > 0 /\ Len(D) = m
        /\ \A i \in 1 .. m : D[i] = C[i]
    <2>1. /\ Sequenced(D) /\ Len(C) \in Nat /\ Len(C) > 0 /\ Len(D) = Len(C) - 1
          /\ \A i \in 1 .. Len(D) : D[i] = C[i]
      BY <1>1, Shortened, Zenon
    <2>2. QED
      BY <2>1, Zenon
  <1>3. m \in Nat /\ m + 1 = Len(C) /\ m + 1 \in 1 .. Len(C) /\ (m + 1) - 1 = m
    BY <1>2
  <1>4. ASSUME NEW i \in 0 .. m
        PROVE  /\ NodeAt(e, D, i) = NodeAt(e, C, i) /\ BeforeAt(e, D, i) = BeforeAt(e, C, i)
               /\ Placed(e, D, i)
    <2>1. (i # 0 => i \in 1 .. m) /\ i \in 0 .. Len(C)
      BY <1>3
    <2>2. i # 0 => D[i] = C[i]
      BY <1>2, <2>1, Zenon
    <2>3. QED
      BY <1>1, <2>1, <2>2, SamePlace, Zenon
  <1>5. ASSUME NEW i \in 1 .. m
        PROVE  Link(e, D, i)
    <2>1. /\ i \in Nat /\ i > 0 /\ i - 1 \in 0 .. m /\ (i - 1 # 0 => i - 1 \in 1 .. m)
          /\ i \in 1 .. Len(C)
      BY <1>3
    <2>2. D[i] = C[i] /\ (i - 1 # 0 => D[i - 1] = C[i - 1])
      BY <1>2, <2>1, Zenon
    <2>3. QED
      BY <1>1, <2>1, <2>2, SameLink, Zenon
  <1>6. Link(e, C, m + 1) /\ m \in 0 .. m
    BY <1>1, <1>3
  <1>7. NodeAt(e, D, m) = C[m + 1].node /\ BeforeAt(e, D, m) = C[m + 1].before
    BY <1>3, <1>4, <1>6, Zenon DEF Link
  <1>8. Chain(e, D)
    BY <1>2, <1>4, <1>5, Zenon DEF Chain
  <1>9. QED
    BY <1>2, <1>3, <1>7, <1>8, Zenon DEF Shorter

-----------------------------------------------------------------------------
(* What the steps of a term that calls a function are *)
Orderly(e, n) ==
    /\ Len(Steps(e, n)) \in Nat
    /\ Len(Steps(e, n)) > 0 =>
          Len(Args(e, n)) \in Of(e, n).accepts /\ Of(e, n).pulls \in {"first", "accepted"}
    /\ \A j \in 1 .. Len(Steps(e, n)) :
          /\ Steps(e, n)[j].pos \in Nat /\ Steps(e, n)[j].upTo \in Nat
          /\ Steps(e, n)[j].pos <= Steps(e, n)[j].upTo
          /\ Steps(e, n)[j].continued = TRUE /\ Steps(e, n)[j].caught = TRUE
          /\ Steps(e, n)[j].optional = FALSE
          /\ \A i \in 1 .. j - 1 : Steps(e, n)[i].upTo < Steps(e, n)[j].pos

(* The steps of a call that comes back are orderly. *)
LEMMA StepsAreOrderly ==
    ASSUME NEW e, NEW n, Called(e, n)
    PROVE  Orderly(e, n)
  <1>1. Sound(e, n)
    BY HostsOfSteps, Zenon
  <1> DEFINE steps == Steps(e, n)
  <1>2. /\ steps \in Seq(StepOf)
        /\ steps # <<>> => Len(Args(e, n)) \in Of(e, n).accepts
                           /\ Of(e, n).pulls \in {"first", "accepted"}
        /\ \A j \in 1 .. Len(steps) :
              /\ steps[j].continued = TRUE /\ steps[j].caught = TRUE
              /\ steps[j].optional = FALSE /\ steps[j].pos <= steps[j].upTo
              /\ \A i \in 1 .. j - 1 : steps[i].upTo < steps[j].pos
    BY <1>1, Zenon DEF Sound, ComesBack, Steps
  <1> HIDE DEF steps
  <1>3. ASSUME NEW j \in 1 .. Len(steps) PROVE steps[j].pos \in Nat /\ steps[j].upTo \in Nat
    <2>1. steps[j] \in StepOf
      BY <1>2
    <2>2. QED
      BY <2>1 DEF StepOf
  <1>4. Len(steps) \in Nat /\ (Len(steps) > 0 => steps # <<>>)
    BY <1>2
  <1>5. QED
    BY <1>2, <1>3, <1>4, Zenon DEF Orderly, steps

-----------------------------------------------------------------------------
(* The locals of a term, one step after the other *)

LocalsOf(e, n) == LocalsUpTo(e, n, ValuesOf(e, ValueIn(e), n))

LocalsStepByStep(e, n) ==
    /\ LocalsOf(e, n)[0] = NoLocals
    /\ \A k \in 1 .. Len(Steps(e, n)) :
          LocalsOf(e, n)[k] = Kept(e, n, LocalsOf(e, n)[k - 1], Steps(e, n)[k],
                                   ValueIn(e)[Param(e, n, Steps(e, n)[k])])
    /\ \A k \in 0 .. Len(Steps(e, n)) :
          LocalsOf(e, n)[k] = [l \in 0 .. 3 |-> LocalsOf(e, n)[k][l]]
    /\ \A k \in 1 .. Len(Steps(e, n)), l \in 0 .. 3 :
          Unset(Of(e, n), Len(Args(e, n)), k, l) => LocalsOf(e, n)[k - 1][l] = Nil

(* The locals of a call, given the values of its parameters *)
LEMMA LocalsOfTerm ==
    ASSUME NEW e, NEW n, Called(e, n)
    PROVE  LocalsStepByStep(e, n)
  <1> DEFINE v == ValueIn(e)
  <1>1. Sound(e, n)
    BY HostsOfSteps, Zenon
  <1>2. LocalsFrom(e, n, v)
    <2> HIDE DEF v
    <2>1. QED
      BY <1>1, LocalsOfSteps, Zenon
  <1>3. QED
    BY <1>2, Zenon DEF LocalsFrom, LocalsStepByStep, LocalsOf

(* An expression of functions that record what they have computed *)
Saving(e) == \A n \in DOMAIN e : e[n].op \notin Losing

(* A function that is not one of the losing ones remembers every local it  *)
(* had set.                                                                *)
LEMMA SavingRemembers ==
    ASSUME NEW e, NEW n, Called(e, n), Saving(e), NEW k \in 1 .. Len(Steps(e, n)), NEW l \in 0 .. 3
    PROVE  RemembersAt(Of(e, n), Len(Args(e, n)), k, l)
  <1>1. /\ n \in DOMAIN e /\ e[n].op \in DOMAIN Protocol /\ Len(Args(e, n)) \in Counts
        /\ e[n].op \notin StartingOver /\ e[n].op \notin Losing
        /\ ~(e[n].op = "substr" /\ Len(Args(e, n)) = 3)
    BY Terms DEF Called, Resumable, Saving, Args
  <1>2. Remembers(Of(e, n), Len(Args(e, n)))
    <2>1. e[n].op \in (DOMAIN Protocol \ StartingOver) \ Losing
      BY <1>1
    <2>2. QED
      BY <1>1, <2>1, FunctionsRemember, Zenon DEF Of
  <1>3. QED
    BY <1>2, Zenon DEF Remembers, Steps

-----------------------------------------------------------------------------
(* What a function restores *)

Holds(e, n, k, x) ==
    /\ x.pos = Steps(e, n)[k].pos
    /\ \A i \in 1 .. 2 :
          x.tmps[i] = IF i <= Len(Steps(e, n)[k].saves)
                      THEN LocalsOf(e, n)[k - 1][Steps(e, n)[k].saves[i]] ELSE Nil

(* From its own entry it restores the locals it had at that step. *)
LEMMA RestoredIs ==
    ASSUME NEW e, NEW n, Called(e, n), Saving(e), NEW k \in 1 .. Len(Steps(e, n)),
           NEW x, Holds(e, n, k, x)
    PROVE  Restored(e, n, x) = LocalsOf(e, n)[k - 1]
  <1> DEFINE u == LocalsOf(e, n)[k - 1]
             P == Of(e, n)
             s == Steps(e, n)[k]
             from(l) == {i \in 1 .. Len(P.restores) :
                            P.restores[i].local = l /\ x.pos \in P.restores[i].at}
  <1>1. LocalsStepByStep(e, n)
    BY LocalsOfTerm, Zenon
  <1>2. u = [l \in 0 .. 3 |-> u[l]]
    <2>1. k - 1 \in 0 .. Len(Steps(e, n))
      BY StepsAreOrderly DEF Orderly
    <2>2. QED
      BY <1>1, <2>1, Zenon DEF LocalsStepByStep
  <1>3. ASSUME NEW l \in 0 .. 3
        PROVE  (IF from(l) = {} THEN Nil ELSE x.tmps[CHOOSE i \in from(l) : TRUE]) = u[l]
    <2>1. RemembersAt(P, Len(Args(e, n)), k, l)
      BY SavingRemembers, Zenon
    <2>2. Unset(P, Len(Args(e, n)), k, l) => u[l] = Nil
      BY <1>1, Zenon DEF LocalsStepByStep
    <2>3. CASE from(l) = {}
      <3>1. \A i \in 1 .. Len(P.restores) : ~RestoresFrom(P, i, l, s.pos)
        BY <2>3, Zenon DEF Holds, RestoresFrom
      <3>2. Unset(P, Len(Args(e, n)), k, l)
        BY <2>1, <3>1, Zenon DEF RemembersAt, Steps
      <3>3. QED
        BY <2>2, <2>3, <3>2, Zenon
    <2>4. CASE from(l) # {}
      <3> DEFINE i == CHOOSE j \in from(l) : TRUE
      <3>1. i \in from(l)
        BY <2>4, Zenon
      <3> HIDE DEF i
      <3>2. i \in 1 .. Len(P.restores) /\ RestoresFrom(P, i, l, s.pos)
        BY <3>1, Zenon DEF Holds, RestoresFrom
      <3>3. /\ i <= 2
            /\ IF i <= Len(s.saves) THEN s.saves[i] = l ELSE Unset(P, Len(Args(e, n)), k, l)
        BY <2>1, <3>2, Zenon DEF RemembersAt, Steps
      <3>4. i \in 1 .. 2
        <4> HIDE DEF P, s, from, u
        <4>1. Len(P.restores) \in Nat
          BY HostsOfSteps DEF Sound, P
        <4>2. QED
          BY <3>2, <3>3, <4>1
      <3>5. x.tmps[i] = IF i <= Len(s.saves) THEN u[s.saves[i]] ELSE Nil
        BY <3>4, Zenon DEF Holds
      <3> HIDE DEF P, s, from, u
      <3>6. x.tmps[i] = u[l]
        <4>1. CASE i <= Len(s.saves)
          BY <3>3, <3>5, <4>1, Zenon
        <4>2. CASE ~(i <= Len(s.saves))
          BY <2>2, <3>3, <3>5, <4>2, Zenon
        <4>3. QED
          BY <4>1, <4>2, Zenon
      <3>7. QED
        BY <2>4, <3>6, Zenon DEF i
    <2>5. QED
      BY <2>3, <2>4, Zenon
  <1>4. Restored(e, n, x) = [l \in 0 .. 3 |-> IF from(l) = {} THEN Nil
                                            ELSE x.tmps[CHOOSE i \in from(l) : TRUE]]
    BY Zenon DEF Restored
  <1> HIDE DEF from, u
  <1>5. QED
    BY <1>2, <1>3, <1>4, Zenon DEF u

(* A function with no entry begins with its locals unset. *)
LEMMA NothingRestored ==
    ASSUME NEW e, NEW n, Called(e, n)
    PROVE  Restored(e, n, NoEntry) = NoLocals
  <1> DEFINE P == Of(e, n)
             from(l) == {i \in 1 .. Len(P.restores) :
                            P.restores[i].local = l /\ NoEntry.pos \in P.restores[i].at}
  <1>1. Len(P.restores) \in 0 .. 2
    BY HostsOfSteps, Zenon DEF Sound
  <1>2. \A i \in 1 .. 2 : NoEntry.tmps[i] = Nil
    BY DEF NoEntry, Entry
  <1>3. ASSUME NEW l \in 0 .. 3
        PROVE  (IF from(l) = {} THEN Nil ELSE NoEntry.tmps[CHOOSE i \in from(l) : TRUE]) = Nil
    <2>1. CASE from(l) = {}
      BY <2>1, Zenon
    <2>2. CASE from(l) # {}
      <3> DEFINE i == CHOOSE j \in from(l) : TRUE
      <3>1. i \in from(l)
        BY <2>2, Zenon
      <3> HIDE DEF i
      <3>2. i \in 1 .. Len(P.restores)
        BY <3>1, Zenon
      <3>3. i \in 1 .. 2
        <4> DEFINE m == Len(P.restores)
        <4>1. m \in 0 .. 2 /\ i \in 1 .. m
          BY <1>1, <3>2, Zenon
        <4> HIDE DEF m
        <4>2. QED
          BY <4>1
      <3> HIDE DEF P, from
      <3>4. QED
        BY <1>2, <2>2, <3>3, Zenon DEF i
    <2>3. QED
      BY <2>1, <2>2, Zenon
  <1>4. Restored(e, n, NoEntry) = [l \in 0 .. 3 |-> IF from(l) = {} THEN Nil
                                            ELSE NoEntry.tmps[CHOOSE i \in from(l) : TRUE]]
    BY Zenon DEF Restored
  <1> HIDE DEF from
  <1>5. QED
    BY <1>3, <1>4, Zenon DEF NoLocals

-----------------------------------------------------------------------------
(* The invariant *)

(* Activation a of term n is at step k: it will find the later steps due,  *)
(* and has the locals of an uninterrupted evaluation. *)
Activation(n, k, start, locals, cont) ==
    [node |-> n, at |-> k, start |-> start, locals |-> locals, cont |-> cont]

Activated(e, n, k, a) ==
    /\ a = Activation(n, k, a.start, a.locals, a.cont)
    /\ a.start \in Nat /\ a.start <= Steps(e, n)[k].upTo
    /\ Saving(e) => a.locals = LocalsOf(e, n)[k - 1]

(* Entry x leads term n back to step k, with these locals. *)
Recorded(e, n, k, x) ==
    /\ x.pos = Steps(e, n)[k].pos
    /\ Saving(e) => Holds(e, n, k, x)

(* The activations are the first of the chain, the entries the rest. *)
Stack(e, C, cs) ==
    /\ Sequenced(cs)
    /\ \A i \in 1 .. Len(cs) : Activated(e, C[i].node, C[i].at, cs[i])

Entries(e, C, m, q) ==
    /\ Sequenced(q) /\ Len(C) = m + Len(q)
    /\ \A i \in 1 .. Len(q) : Recorded(e, C[m + i].node, C[m + i].at, q[i])

Stands(e, C, cs, q) == Chain(e, C) /\ Stack(e, C, cs) /\ Entries(e, C, Len(cs), q)

Leaf(e, C) == NodeAt(e, C, Len(C))

Evaluating(e, C, cs, q, f, done) ==
    /\ Stands(e, C, cs, q)
    /\ f.k = "eval" /\ f.node = NodeAt(e, C, Len(cs)) /\ (q # <<>> => f.cont = TRUE)
    /\ done = BeforeAt(e, C, Len(C))

Returning(e, C, cs, q, f, done) ==
    /\ Stands(e, C, cs, q)
    /\ f.k = "ret" /\ q = <<>>
    /\ done = BeforeAt(e, C, Len(C)) \o HostsIn(e)[Leaf(e, C)]
    /\ Saving(e) => f.val = ValueIn(e)[Leaf(e, C)]

Unwinding(e, C, cs, q, f, done) ==
    /\ Stands(e, C, cs, q)
    /\ f.k = "intr" /\ done = BeforeAt(e, C, Len(C))

Follows(C) ==
    \/ /\ status = "running" /\ Evaluating(prog, C, calls, queue, focus, answered)
    \/ /\ status = "running" \/ (status = "done" /\ calls = <<>>)
       /\ Returning(prog, C, calls, queue, focus, answered)
    \/ /\ status = "running" \/ (status = "suspended" /\ calls = <<>>)
       /\ Unwinding(prog, C, calls, recorded, focus, answered) /\ queue = <<>>

Inv ==
    /\ prog \in Expressions
    /\ status # "raised" => \E C : Follows(C)

-----------------------------------------------------------------------------
(* With no entries left the activations are the chain. *)
LEMMA NoEntries ==
    ASSUME NEW e, NEW C, NEW cs, Chain(e, C), Stack(e, C, cs)
    PROVE  Stands(e, C, cs, <<>>) <=> Len(C) = Len(cs)
  <1>1. Sequenced(cs) /\ Sequenced(C)
    BY Zenon DEF Chain, Stack
  <1>2. Len(cs) \in Nat /\ Len(C) \in Nat
    BY <1>1, Emptied, Zenon
  <1>3. Sequenced(<<>>) /\ Len(<<>>) = 0 /\ 1 .. Len(<<>>) = {}
    BY Nothing
  <1>4. Len(C) = Len(cs) + Len(<<>>) <=> Len(C) = Len(cs)
    BY <1>2, <1>3
  <1>5. QED
    BY <1>3, <1>4, Zenon DEF Stands, Entries

(* The term the chain leads to evaluates its step k next. *)
LEMMA Descends ==
    ASSUME NEW e, NEW C, NEW cs, Stands(e, C, cs, <<>>), NEW n, n = Leaf(e, C), Called(e, n),
           NEW k \in 1 .. Len(Steps(e, n)), NEW a, Activated(e, n, k, a), NEW c, NEW done,
           done = BeforeAt(e, C, Len(C)) \o HostsOf(e, n)[k - 1]
    PROVE  \E D : Evaluating(e, D, Append(cs, a), <<>>, Eval(Param(e, n, Steps(e, n)[k]), c), done)
  <1> DEFINE m == Len(C)
             x == [node |-> n, at |-> k, before |-> BeforeAt(e, C, m)]
             D == Append(C, x)
             ds == Append(cs, a)
  <1>1. Chain(e, C) /\ Stack(e, C, cs)
    BY Zenon DEF Stands
  <1>2. Sequenced(cs) /\ Sequenced(C)
    BY <1>1, Zenon DEF Chain, Stack
  <1>3. Len(cs) = m /\ m \in Nat
    BY <1>1, <1>2, NoEntries, Emptied, Zenon
  <1>4. Place(x, n, k, BeforeAt(e, C, Len(C)))
    BY DEF Place
  <1> HIDE DEF x
  <1>5. Extends(D, C, x) /\ Extends(ds, cs, a)
    BY <1>2, Appended, Zenon
  <1> HIDE DEF D, ds
  <1>6. /\ Len(D) = m + 1 /\ D[m + 1] = x /\ \A i \in 1 .. m : D[i] = C[i]
        /\ Sequenced(ds) /\ Len(ds) = m + 1 /\ ds[m + 1] = a
        /\ \A i \in 1 .. m : ds[i] = cs[i]
    BY <1>3, <1>5, Zenon DEF Extends
  <1>7. Leads(e, C, n)
    BY <1>1, Zenon DEF Leads, Leaf
  <1> DEFINE p == Param(e, n, Steps(e, n)[k])
  <1>8. Leads(e, D, p) /\ BeforeAt(e, D, Len(D)) = done
    <2>1. Leads(e, D, p) /\ Deepens(e, C, D, n, k)
      BY <1>4, <1>5, <1>7, LongerChain, Zenon
    <2>2. QED
      BY <2>1, Zenon DEF Deepens
  <1> HIDE DEF m
  <1>10. Stack(e, D, ds)
    <2>1. ASSUME NEW i \in 1 .. Len(ds) PROVE Activated(e, D[i].node, D[i].at, ds[i])
      <3>1. i \in 1 .. m \/ i = m + 1
        BY <1>3, <1>6
      <3>2. CASE i \in 1 .. m
        <4>1. Activated(e, C[i].node, C[i].at, cs[i])
          BY <1>1, <1>3, <3>2, Zenon DEF Stack
        <4>2. QED
          BY <1>6, <3>2, <4>1, Zenon
      <3>3. CASE i = m + 1
        BY <1>4, <1>6, <3>3, Zenon DEF Place
      <3>4. QED
        BY <3>1, <3>2, <3>3, Zenon
    <2>2. QED
      BY <1>6, <2>1, Zenon DEF Stack
  <1>11. Stands(e, D, ds, <<>>)
    BY <1>6, <1>8, <1>10, NoEntries, Zenon DEF Leads
  <1> HIDE DEF p
  <1>12. Eval(p, c).k = "eval" /\ Eval(p, c).node = p
    BY DEF Eval
  <1>13. Evaluating(e, D, ds, <<>>, Eval(p, c), done)
    BY <1>6, <1>8, <1>11, <1>12, Zenon DEF Evaluating, Leads
  <1>14. QED
    BY <1>13, Zenon DEF p, ds

(* It returns after its last step. *)
LEMMA Returns ==
    ASSUME NEW e, NEW C, NEW cs, Stands(e, C, cs, <<>>), NEW n, n = Leaf(e, C), Called(e, n),
           NEW v, Saving(e) => v = ValueIn(e)[n], NEW done,
           done = BeforeAt(e, C, Len(C)) \o HostsOf(e, n)[Len(Steps(e, n))]
    PROVE  Returning(e, C, cs, <<>>, Ret(v), done)
  <1>1. Ret(v).k = "ret" /\ Ret(v).val = v
    BY DEF Ret
  <1>2. HostsIn(e)[n] = HostsOf(e, n)[Len(Steps(e, n))]
    BY HostsOfSteps, Zenon DEF StepByStep
  <1>3. QED
    BY <1>1, <1>2, Zenon DEF Returning

(* What it returns from them is its value. *)
LEMMA ValueReturned ==
    ASSUME NEW e, NEW n, Called(e, n), Len(Args(e, n)) \in Of(e, n).accepts,
           NEW locals, locals = LocalsOf(e, n)[Len(Steps(e, n))]
    PROVE  Result(e, n, locals) = ValueIn(e)[n]
  <1>1. ValueIn(e)[n] = Result(e, n, LocalsOf(e, n)[Len(Steps(e, n))])
    BY ValueOfTerms, Zenon DEF Called, LocalsOf
  <1>2. QED
    BY <1>1, Zenon

-----------------------------------------------------------------------------
(* Going on *)

(* A function evaluates the first parameter that is due. *)
FirstDue(e, n, start, k, j) ==
    /\ j \in k .. Len(Steps(e, n)) /\ start <= Steps(e, n)[j].upTo
    /\ \A i \in k .. j - 1 : ~(start <= Steps(e, n)[i].upTo)

Evaluates(below, a, c) ==
    /\ calls' = Append(below, a)
    /\ focus' = Eval(Param(prog, a.node, Steps(prog, a.node)[a.at]), c)

EvaluatesWith(below, a, cont) == \E c : Evaluates(below, a, c) /\ (cont = TRUE => c = TRUE)

(* It evaluates the parameter of that step. *)
LEMMA GoOnEvaluates ==
    ASSUME NEW below, NEW n, NEW start, NEW locals, NEW cont, NEW at,
           NEW k \in Nat, k >= 1, GoOn(below, Activation(n, at, start, locals, cont), k),
           Orderly(prog, n), NEW j, FirstDue(prog, n, start, k, j)
    PROVE  EvaluatesWith(below, Activation(n, j, start, locals, cont), cont)
  <1>0. /\ j \in k .. Len(Steps(prog, n)) /\ start <= Steps(prog, n)[j].upTo
        /\ \A i \in k .. j - 1 : ~(start <= Steps(prog, n)[i].upTo)
    BY DEF FirstDue
  <1> DEFINE a == Activation(n, at, start, locals, cont)
  <1> DEFINE steps == Steps(prog, n)
             Due(i) == start <= steps[i].upTo
             Skips(i) == ~Due(i) \/ steps[i].optional
             goes(i) == calls' = Append(below, [a EXCEPT !.at = i])
             evaluates(i) == focus' = Eval(Args(prog, n)[steps[i].param + 1],
                                           cont /\ steps[i].continued)
  <1>1. a.node = n /\ a.start = start /\ a.cont = cont
    BY DEF Activation
  <1>2. \/ \E i \in k .. Len(steps) :
              Due(i) /\ (\A l \in k .. i - 1 : Skips(l)) /\ goes(i) /\ evaluates(i)
        \/ \A i \in k .. Len(steps) : Skips(i)
    BY <1>1, Zenon DEF GoOn
  <1>3. /\ Len(steps) \in Nat
        /\ \A i \in 1 .. Len(steps) : steps[i].optional = FALSE /\ steps[i].continued = TRUE
    BY Zenon DEF Orderly
  <1> HIDE DEF a, steps, goes, evaluates
  <1>4. j \in 1 .. Len(steps) /\ j \in k .. Len(steps) /\ Due(j)
    BY <1>0, <1>3 DEF steps
  <1>5. ~Skips(j)
    BY <1>3, <1>4, Zenon
  <1>6. \A i \in k .. j - 1 : ~Due(i)
    BY <1>0, Zenon DEF steps
  <1> HIDE DEF Due, Skips
  <1>7. PICK i \in k .. Len(steps) :
           Due(i) /\ (\A l \in k .. i - 1 : Skips(l)) /\ goes(i) /\ evaluates(i)
    BY <1>2, <1>4, <1>5, Zenon
  <1>8. i = j
    <2>1. ~(i < j)
      <3>1. i < j => i \in k .. j - 1
        BY <1>4, <1>7
      <3>2. QED
        BY <1>6, <1>7, <3>1, Zenon
    <2>2. ~(j < i)
      <3>1. j < i => j \in k .. i - 1
        BY <1>3, <1>4, <1>7
      <3>2. QED
        BY <1>5, <1>7, <3>1, Zenon
    <2>3. QED
      BY <1>3, <1>4, <2>1, <2>2
  <1>9. [a EXCEPT !.at = j] = Activation(n, j, start, locals, cont)
    BY DEF Activation, a
  <1>10. calls' = Append(below, Activation(n, j, start, locals, cont))
    BY <1>7, <1>8, <1>9, Zenon DEF goes
  <1>11. \E c : focus' = Eval(Param(prog, n, Steps(prog, n)[j]), c) /\ (cont = TRUE => c = TRUE)
    <2>1. focus' = Eval(Param(prog, n, Steps(prog, n)[j]), cont /\ Steps(prog, n)[j].continued)
      BY <1>7, <1>8, Zenon DEF evaluates, Param, steps
    <2>2. Steps(prog, n)[j].continued = TRUE
      BY <1>3, <1>4, Zenon DEF steps
    <2>3. cont = TRUE => (cont /\ Steps(prog, n)[j].continued) = TRUE
      BY <2>2
    <2>4. QED
      BY <2>1, <2>3, Zenon
  <1> DEFINE b == Activation(n, j, start, locals, cont)
  <1>12. b.node = n /\ b.at = j
    BY DEF Activation
  <1> HIDE DEF b
  <1>13. \E c : Evaluates(below, b, c) /\ (cont = TRUE => c = TRUE)
    BY <1>10, <1>11, <1>12, Zenon DEF Evaluates, b
  <1>14. QED
    BY <1>13, Zenon DEF b, EvaluatesWith

(* After its last step it returns. *)
LEMMA GoOnReturns ==
    ASSUME NEW below, NEW n, NEW start, NEW locals, NEW cont, NEW at, NEW a,
           a = Activation(n, at, start, locals, cont), Orderly(prog, n),
           GoOn(below, a, Len(Steps(prog, n)) + 1)
    PROVE  calls' = below /\ focus' = Ret(Result(prog, n, locals))
  <1>1. a.node = n /\ a.locals = locals
    BY DEF Activation
  <1>2. Len(Steps(prog, n)) + 1 .. Len(Steps(prog, n)) = {}
    <2> DEFINE N == Len(Steps(prog, n))
    <2>1. N \in Nat
      BY DEF Orderly
    <2> HIDE DEF N
    <2>2. N + 1 .. N = {}
      BY <2>1
    <2>3. QED
      BY <2>2 DEF N
  <1>3. QED
    BY <1>1, <1>2, Zenon DEF GoOn

(* Either way the evaluation is again as the invariant describes it. *)
LEMMA GoesOn ==
    ASSUME NEW C, NEW below, Stands(prog, C, below, <<>>), NEW n, n = Leaf(prog, C),
           Called(prog, n), Len(Args(prog, n)) \in Of(prog, n).accepts,
           NEW k, k \in Nat, k >= 1, k <= Len(Steps(prog, n)) + 1,
           NEW start, NEW locals, NEW cont, NEW at,
           start \in Nat, \A i \in k .. Len(Steps(prog, n)) : start <= Steps(prog, n)[i].upTo,
           Saving(prog) => locals = LocalsOf(prog, n)[k - 1],
           GoOn(below, Activation(n, at, start, locals, cont), k),
           NEW done, done = BeforeAt(prog, C, Len(C)) \o HostsOf(prog, n)[k - 1]
    PROVE  \E D : \/ Evaluating(prog, D, calls', <<>>, focus', done)
                  \/ Returning(prog, D, calls', <<>>, focus', done)
  <1>1. Orderly(prog, n)
    BY StepsAreOrderly, Zenon
  <1> DEFINE N == Len(Steps(prog, n))
  <1>2. N \in Nat
    BY <1>1 DEF Orderly
  <1>3. CASE k \in 1 .. N
    <2> DEFINE b == Activation(n, k, start, locals, cont)
    <2>1. k \in k .. N /\ k .. k - 1 = {}
      BY <1>2, <1>3
    <2>2. PICK c : Evaluates(below, b, c)
      <3> HIDE DEF N
      <3>1. FirstDue(prog, n, start, k, k)
        BY <2>1, Zenon DEF FirstDue, N
      <3>2. QED
        BY <1>1, <3>1, GoOnEvaluates, Zenon DEF EvaluatesWith
    <2>3. Activated(prog, n, k, b)
      <3>1. b = Activation(n, k, b.start, b.locals, b.cont) /\ b.start = start /\ b.locals = locals
        BY DEF Activation
      <3>2. start <= Steps(prog, n)[k].upTo
        BY <2>1, Zenon
      <3> HIDE DEF b
      <3>3. QED
        BY <3>1, <3>2, Zenon DEF Activated
    <2>7. b.node = n /\ b.at = k
      BY DEF Activation
    <2> HIDE DEF b
    <2>4. k \in 1 .. Len(Steps(prog, n))
      BY <1>3, Zenon
    <2>5. \E D : Evaluating(prog, D, Append(below, b), <<>>,
                            Eval(Param(prog, n, Steps(prog, n)[k]), c), done)
      BY <2>3, <2>4, Descends, Zenon
    <2>6. QED
      BY <2>2, <2>5, <2>7, Zenon DEF Evaluates
  <1>4. CASE k = N + 1
    <2>1. k = Len(Steps(prog, n)) + 1 /\ k - 1 = Len(Steps(prog, n))
      BY <1>2, <1>4
    <2>2. calls' = below /\ focus' = Ret(Result(prog, n, locals))
      BY <1>1, <2>1, GoOnReturns, Zenon
    <2> DEFINE v == Result(prog, n, locals)
    <2>3. Saving(prog) => v = ValueIn(prog)[n]
      BY <2>1, ValueReturned, Zenon
    <2>4. done = BeforeAt(prog, C, Len(C)) \o HostsOf(prog, n)[Len(Steps(prog, n))]
      BY <2>1, Zenon
    <2> HIDE DEF v
    <2>5. Returning(prog, C, below, <<>>, Ret(v), done)
      BY <2>3, <2>4, Returns, Zenon
    <2>6. QED
      BY <2>2, <2>5, Zenon DEF v
  <1>5. k \in 1 .. N \/ k = N + 1
    BY <1>2
  <1>6. QED
    BY <1>3, <1>4, <1>5, Zenon

-----------------------------------------------------------------------------
(* The actions *)

Good(e) == IsExpression(e) /\ Resumable(e)

(* The links of a chain are calls. *)
LEMMA LinkCalled ==
    ASSUME NEW e, Good(e), NEW C, Chain(e, C), NEW i \in 1 .. Len(C)
    PROVE  /\ Called(e, C[i].node) /\ C[i].node = NodeAt(e, C, i - 1)
           /\ C[i].before = BeforeAt(e, C, i - 1) /\ C[i].at \in 1 .. Len(Steps(e, C[i].node))
  <1>1. Link(e, C, i)
    BY Zenon DEF Chain
  <1>2. i - 1 \in 0 .. Len(C)
    BY Emptied DEF Chain
  <1>3. Placed(e, C, i - 1)
    BY <1>2, Zenon DEF Chain
  <1>4. QED
    BY <1>1, <1>3, Zenon DEF Good, Link, Placed, PlacedAt, Called

(* What a call does with an interrupt that has entries *)
LEMMA CallPulls ==
    ASSUME Call, status' # "raised", focus.cont = TRUE, queue # <<>>, NEW n, n = focus.node,
           Len(Args(prog, n)) \in Of(prog, n).accepts,
           Of(prog, n).pulls \in {"first", "accepted"}
    PROVE  /\ GoOn(calls, Activation(n, 1, Head(queue).pos, Restored(prog, n, Head(queue)),
                                     focus.cont), 1)
           /\ queue' = Tail(queue) /\ status' = status
  BY DEF Call, Pulled, PullEntry, Activation

(* What it does with none *)
LEMMA CallBegins ==
    ASSUME Call, status' # "raised", queue = <<>>, NEW n, n = focus.node,
           Len(Args(prog, n)) \in Of(prog, n).accepts
    PROVE  /\ GoOn(calls, Activation(n, 1, 0, Restored(prog, n, NoEntry), focus.cont), 1)
           /\ queue' = <<>> /\ status' = status
  BY DEF Call, Pulled, PullEntry, Activation, NoEntry, Entry

(* A call with a count of parameters the function does not accept is       *)
(* null.                                                                   *)
LEMMA CallRefuses ==
    ASSUME Call, status' # "raised", queue = <<>>, NEW n, n = focus.node,
           Len(Args(prog, n)) \notin Of(prog, n).accepts
    PROVE  /\ calls' = calls /\ focus' = Ret(<<n>>)
           /\ queue' = <<>> /\ status' = status
  BY DEF Call, Pulled, PullEntry

(* The first of the entries leads back to where it was recorded. *)
LEMMA FirstEntry ==
    ASSUME NEW e, Good(e), NEW C, NEW cs, NEW q, Stands(e, C, cs, q), q # <<>>
    PROVE  /\ Len(cs) \in Nat /\ Len(cs) + 1 \in 1 .. Len(C)
           /\ LET c == C[Len(cs) + 1]
              IN /\ Called(e, c.node) /\ c.node = NodeAt(e, C, Len(cs))
                 /\ c.at \in 1 .. Len(Steps(e, c.node))
                 /\ Recorded(e, c.node, c.at, Head(q))
  <1>1. Chain(e, C) /\ Stack(e, C, cs) /\ Entries(e, C, Len(cs), q)
    BY Zenon DEF Stands
  <1>2. Sequenced(q) /\ Sequenced(cs) /\ Len(C) = Len(cs) + Len(q)
    BY <1>1, Zenon DEF Stack, Entries
  <1>3. Len(cs) \in Nat /\ Len(q) \in Nat /\ Len(q) # 0
    BY <1>2, Emptied, Zenon
  <1> DEFINE m == Len(cs)
  <1>4. m + 1 \in 1 .. Len(C) /\ (m + 1) - 1 = m /\ 1 \in 1 .. Len(q)
    BY <1>2, <1>3
  <1> HIDE DEF m
  <1>5. /\ Called(e, C[m + 1].node) /\ C[m + 1].node = NodeAt(e, C, m)
        /\ C[m + 1].at \in 1 .. Len(Steps(e, C[m + 1].node))
    BY <1>1, <1>4, LinkCalled, Zenon
  <1>6. Recorded(e, C[m + 1].node, C[m + 1].at, q[1])
    BY <1>1, <1>4, Zenon DEF Entries, m
  <1>7. Head(q) = q[1]
    BY <1>2, Tailed, Zenon
  <1>8. QED
    BY <1>3, <1>4, <1>5, <1>6, <1>7, Zenon DEF m

(* The activation that pulls it takes its place. *)
LEMMA EntryPulled ==
    ASSUME NEW e, NEW C, NEW cs, NEW q, Stands(e, C, cs, q), q # <<>>,
           NEW a, Activated(e, C[Len(cs) + 1].node, C[Len(cs) + 1].at, a)
    PROVE  Stands(e, C, Append(cs, a), Tail(q))
  <1> DEFINE ds == Append(cs, a)
             r == Tail(q)
  <1>1. Chain(e, C) /\ Stack(e, C, cs) /\ Entries(e, C, Len(cs), q)
    BY Zenon DEF Stands
  <1>2. Sequenced(q) /\ Sequenced(cs) /\ Len(C) = Len(cs) + Len(q)
    BY <1>1, Zenon DEF Stack, Entries
  <1>3. Extends(ds, cs, a)
    BY <1>2, Appended, Zenon
  <1>4. /\ Sequenced(r) /\ Len(q) \in Nat /\ Len(q) > 0 /\ Len(r) = Len(q) - 1
        /\ \A i \in 1 .. Len(r) : r[i] = q[i + 1]
    BY <1>2, Tailed, Zenon
  <1> HIDE DEF ds, r
  <1>5. /\ Sequenced(ds) /\ Len(cs) \in Nat /\ Len(ds) = Len(cs) + 1
        /\ ds[Len(cs) + 1] = a /\ \A i \in 1 .. Len(cs) : ds[i] = cs[i]
    BY <1>3, Zenon DEF Extends
  <1>6. Stack(e, C, ds)
    <2>1. ASSUME NEW i \in 1 .. Len(ds) PROVE Activated(e, C[i].node, C[i].at, ds[i])
      <3>1. i \in 1 .. Len(cs) \/ i = Len(cs) + 1
        BY <1>5
      <3>2. CASE i \in 1 .. Len(cs)
        BY <1>1, <1>5, <3>2, Zenon DEF Stack
      <3>3. CASE i = Len(cs) + 1
        BY <1>5, <3>3, Zenon
      <3>4. QED
        BY <3>1, <3>2, <3>3, Zenon
    <2>2. QED
      BY <1>5, <2>1, Zenon DEF Stack
  <1>7. Entries(e, C, Len(ds), r)
    <2>1. Len(C) = Len(ds) + Len(r)
      BY <1>2, <1>4, <1>5
    <2>2. ASSUME NEW i \in 1 .. Len(r)
          PROVE  Recorded(e, C[Len(ds) + i].node, C[Len(ds) + i].at, r[i])
      <3>1. i + 1 \in 1 .. Len(q) /\ Len(cs) + (i + 1) = Len(ds) + i
        BY <1>4, <1>5
      <3>2. QED
        BY <1>1, <1>4, <3>1, Zenon DEF Entries
    <2>3. QED
      BY <1>4, <2>1, <2>2, Zenon DEF Entries
  <1>8. QED
    BY <1>1, <1>5, <1>6, <1>7, Zenon DEF Stands, ds, r

(* A function that was interrupted begins again where it was. *)
LEMMA CallResumes ==
    ASSUME Good(prog), NEW C, Evaluating(prog, C, calls, queue, focus, answered),
           queue # <<>>, Call, status' # "raised"
    PROVE  Evaluating(prog, C, calls', queue', focus', answered) /\ status' = status
  <1> DEFINE m == Len(calls)
             n == C[m + 1].node
             k == C[m + 1].at
             x == Head(queue)
  <1>1. /\ Stands(prog, C, calls, queue) /\ focus.node = NodeAt(prog, C, m)
        /\ focus.cont = TRUE /\ answered = BeforeAt(prog, C, Len(C))
    BY Zenon DEF Evaluating
  <1>2. /\ m \in Nat /\ m + 1 \in 1 .. Len(C) /\ Called(prog, n) /\ n = NodeAt(prog, C, m)
        /\ k \in 1 .. Len(Steps(prog, n)) /\ Recorded(prog, n, k, x)
    BY <1>1, FirstEntry, Zenon
  <1> HIDE DEF n, k, x
  <1>3. Orderly(prog, n)
    BY <1>2, StepsAreOrderly, Zenon
  <1>4. Len(Args(prog, n)) \in Of(prog, n).accepts /\ Of(prog, n).pulls \in {"first", "accepted"}
    <2>1. Len(Steps(prog, n)) > 0
      BY <1>2, <1>3 DEF Orderly
    <2>2. QED
      BY <1>3, <2>1, Zenon DEF Orderly
  <1> DEFINE start == x.pos
             locals == Restored(prog, n, x)
             a == Activation(n, k, start, locals, focus.cont)
  <1>5. n = focus.node
    BY <1>1, <1>2, Zenon
  <1>6. /\ GoOn(calls, Activation(n, 1, start, locals, focus.cont), 1)
        /\ queue' = Tail(queue) /\ status' = status
    BY <1>1, <1>4, <1>5, CallPulls, Zenon DEF x
  <1> HIDE DEF locals
  <1>7. start = Steps(prog, n)[k].pos
    BY <1>2, Zenon DEF Recorded
  <1>8. /\ start \in Nat /\ start <= Steps(prog, n)[k].upTo
        /\ \A i \in 1 .. k - 1 : Steps(prog, n)[i].upTo < start
        /\ \A i \in 1 .. Len(Steps(prog, n)) : Steps(prog, n)[i].upTo \in Nat
        /\ Len(Steps(prog, n)) \in Nat
    BY <1>2, <1>3, <1>7, Zenon DEF Orderly
  <1> HIDE DEF start
  <1>9. FirstDue(prog, n, start, 1, k)
    <2> DEFINE upTo(i) == Steps(prog, n)[i].upTo
               N == Len(Steps(prog, n))
    <2>1. /\ start \in Nat /\ \A i \in 1 .. k - 1 : upTo(i) < start
          /\ \A i \in 1 .. N : upTo(i) \in Nat
          /\ N \in Nat /\ k \in 1 .. N
      BY <1>2, <1>8, Zenon
    <2> HIDE DEF upTo, N
    <2>2. \A i \in 1 .. k - 1 : ~(start <= upTo(i))
      BY <2>1
    <2>3. QED
      BY <1>2, <1>8, <2>2, Zenon DEF FirstDue, upTo, N
  <1>10. PICK c : Evaluates(calls, a, c) /\ c = TRUE
    <2>1. 1 \in Nat /\ 1 >= 1
      OBVIOUS
    <2>2. GoOn(calls, Activation(n, 1, start, locals, focus.cont), 1)
      BY <1>6, Zenon
    <2>3. EvaluatesWith(calls, Activation(n, k, start, locals, focus.cont), focus.cont)
      BY <1>3, <1>9, <2>1, <2>2, GoOnEvaluates, Zenon
    <2>4. QED
      BY <1>1, <2>3, Zenon DEF EvaluatesWith
  <1>11. Activated(prog, n, k, a)
    <2>1. /\ a = Activation(n, k, a.start, a.locals, a.cont)
          /\ a.start = start /\ a.locals = locals
      BY DEF Activation
    <2>2. Saving(prog) => locals = LocalsOf(prog, n)[k - 1]
      BY <1>2, RestoredIs, Zenon DEF Recorded, locals
    <2> HIDE DEF a
    <2>3. QED
      BY <1>8, <2>1, <2>2, Zenon DEF Activated
  <1>12. a.node = n /\ a.at = k
    BY DEF Activation
  <1> HIDE DEF a
  <1>13. calls' = Append(calls, a) /\ focus' = Eval(Param(prog, n, Steps(prog, n)[k]), TRUE)
    BY <1>10, <1>12, Zenon DEF Evaluates
  <1>14. Stands(prog, C, calls', queue') /\ Len(calls') = m + 1
    <2>1. Activated(prog, C[Len(calls) + 1].node, C[Len(calls) + 1].at, a)
      BY <1>11, Zenon DEF n, k
    <2>2. Stands(prog, C, Append(calls, a), Tail(queue)) /\ Len(Append(calls, a)) = Len(calls) + 1
      <3>1. Stands(prog, C, calls, queue)
        BY <1>1, Zenon
      <3>2. Stands(prog, C, Append(calls, a), Tail(queue))
        BY <2>1, <3>1, EntryPulled, Zenon
      <3>3. Extends(Append(calls, a), calls, a)
        BY <3>1, Appended, Zenon DEF Stands, Stack
      <3>4. QED
        BY <3>2, <3>3, Zenon DEF Extends
    <2>3. QED
      BY <1>6, <1>13, <2>2, Zenon
  <1> DEFINE p == Param(prog, n, Steps(prog, n)[k])
  <1>15. p = NodeAt(prog, C, m + 1)
    <2>1. m + 1 # 0
      BY <1>2
    <2>2. QED
      BY <2>1, Zenon DEF NodeAt, n, k
  <1> HIDE DEF p, m
  <1>16. focus'.k = "eval" /\ focus'.node = p /\ focus'.cont = TRUE
    BY <1>13 DEF Eval, p
  <1>17. QED
    BY <1>1, <1>6, <1>14, <1>15, <1>16, Zenon DEF Evaluating

Goes(done) ==
    \E D : \/ Evaluating(prog, D, calls', queue', focus', done)
           \/ Returning(prog, D, calls', queue', focus', done)

(* With no entries left the chain ends at the term under evaluation,       *)
(* whose host functions come next.                                         *)
LEMMA AtLeaf ==
    ASSUME NEW e, NEW C, NEW cs, Stands(e, C, cs, <<>>)
    PROVE  /\ Len(C) = Len(cs) /\ Leaf(e, C) \in DOMAIN e
           /\ BeforeAt(e, C, Len(C)) \in Seq(Nat)
           /\ Prefix(BeforeAt(e, C, Len(C)) \o HostsIn(e)[Leaf(e, C)], HostsIn(e)[1])
  <1>1. Chain(e, C) /\ Stack(e, C, cs)
    BY Zenon DEF Stands
  <1>2. Len(C) = Len(cs)
    BY <1>1, NoEntries, Zenon
  <1>3. Len(C) \in 0 .. Len(C)
    BY <1>1, Emptied DEF Chain
  <1>4. Placed(e, C, Len(C))
    BY <1>1, <1>3, Zenon DEF Chain
  <1>5. QED
    BY <1>2, <1>4, Zenon DEF Placed, PlacedAt, Leaf

(* One that was not begins with its first parameter. *)
LEMMA CallStarts ==
    ASSUME Good(prog), NEW C, Evaluating(prog, C, calls, queue, focus, answered),
           queue = <<>>, Call, status' # "raised"
    PROVE  Goes(answered) /\ status' = status
  <1> DEFINE n == focus.node
  <1>1. Stands(prog, C, calls, <<>>)
    BY Zenon DEF Evaluating
  <1>2. n = Leaf(prog, C) /\ answered = BeforeAt(prog, C, Len(C))
    BY <1>1, AtLeaf, Zenon DEF Evaluating, Leaf
  <1>3. prog[n].op # "host"
    BY DEF Call
  <1> HIDE DEF n
  <1>4. Called(prog, n) /\ answered \in Seq(Nat)
    BY <1>1, <1>2, <1>3, AtLeaf, Zenon DEF Called, Good
  <1>5. Orderly(prog, n) /\ StepByStep(prog, n)
    BY <1>4, StepsAreOrderly, HostsOfSteps, Zenon
  <1>6. answered = BeforeAt(prog, C, Len(C)) \o HostsOf(prog, n)[0]
    <2>1. answered = answered \o <<>>
      BY <1>4
    <2>2. QED
      BY <1>2, <1>5, <2>1, Zenon DEF StepByStep
  <1>7. CASE Len(Args(prog, n)) \in Of(prog, n).accepts
    <2> DEFINE locals == Restored(prog, n, NoEntry)
    <2>1. /\ GoOn(calls, Activation(n, 1, 0, locals, focus.cont), 1)
          /\ queue' = <<>> /\ status' = status
      BY <1>7, CallBegins, Zenon DEF n
    <2>2. 1 \in Nat /\ 1 >= 1 /\ 1 <= Len(Steps(prog, n)) + 1 /\ 0 \in Nat /\ 1 - 1 = 0
      BY <1>5 DEF Orderly
    <2>3. \A i \in 1 .. Len(Steps(prog, n)) : 0 <= Steps(prog, n)[i].upTo
      BY <1>5 DEF Orderly
    <2>4. locals = LocalsOf(prog, n)[1 - 1]
      BY <1>4, <2>2, NothingRestored, LocalsOfTerm, Zenon DEF LocalsStepByStep
    <2> HIDE DEF locals
    <2>5. answered = BeforeAt(prog, C, Len(C)) \o HostsOf(prog, n)[1 - 1]
      BY <1>6, <2>2, Zenon
    <2>6. \E D : \/ Evaluating(prog, D, calls', <<>>, focus', answered)
                 \/ Returning(prog, D, calls', <<>>, focus', answered)
      BY <1>1, <1>2, <1>4, <1>7, <2>1, <2>2, <2>3, <2>4, <2>5, GoesOn, Zenon
    <2>7. QED
      BY <2>1, <2>6, Zenon DEF Goes
  <1>8. CASE Len(Args(prog, n)) \notin Of(prog, n).accepts
    <2>1. /\ calls' = calls /\ focus' = Ret(<<n>>)
          /\ queue' = <<>> /\ status' = status
      BY <1>8, CallRefuses, Zenon DEF n
    <2>2. Len(Steps(prog, n)) = 0
      BY <1>5, <1>8 DEF Orderly
    <2>3. ValueIn(prog)[n] = <<n>>
      BY <1>4, <1>8, ValueOfTerms, Zenon DEF Called
    <2>4. answered = BeforeAt(prog, C, Len(C)) \o HostsOf(prog, n)[Len(Steps(prog, n))]
      BY <1>6, <2>2, Zenon
    <2>5. Returning(prog, C, calls, <<>>, Ret(<<n>>), answered)
      BY <1>1, <1>2, <1>4, <2>3, <2>4, Returns, Zenon
    <2>6. QED
      BY <2>1, <2>5, Zenon DEF Goes
  <1>9. QED
    BY <1>7, <1>8, Zenon

(* The value of a parameter comes back to the activation that wants it. *)
LEMMA Popped ==
    ASSUME NEW e, Good(e), NEW C, NEW cs, Stands(e, C, cs, <<>>), cs # <<>>, NEW m, m = Len(cs) - 1
    PROVE  /\ m \in Nat /\ m + 1 = Len(C) /\ cs[Len(cs)] = cs[m + 1]
           /\ \E D : /\ Stands(e, D, SubSeq(cs, 1, Len(cs) - 1), <<>>)
                     /\ Leaf(e, D) = C[m + 1].node /\ BeforeAt(e, D, Len(D)) = C[m + 1].before
           /\ Called(e, C[m + 1].node) /\ C[m + 1].at \in 1 .. Len(Steps(e, C[m + 1].node))
           /\ Activated(e, C[m + 1].node, C[m + 1].at, cs[m + 1])
  <1> DEFINE ds == SubSeq(cs, 1, Len(cs) - 1)
             D == SubSeq(C, 1, m)
  <1>1. Chain(e, C) /\ Stack(e, C, cs) /\ Len(C) = Len(cs) /\ Sequenced(cs) /\ Sequenced(C)
    BY AtLeaf, Zenon DEF Stands, Stack, Chain
  <1>2. /\ Sequenced(ds) /\ Len(cs) \in Nat /\ Len(cs) > 0 /\ Len(ds) = Len(cs) - 1
        /\ \A i \in 1 .. Len(ds) : ds[i] = cs[i]
    BY <1>1, Shortened, Zenon
  <1> HIDE DEF ds
  <1>3. m \in Nat /\ m + 1 = Len(cs) /\ m + 1 \in 1 .. Len(C) /\ Len(ds) = m
    BY <1>1, <1>2
  <1>4. m = Len(C) - 1
    BY <1>1, Zenon
  <1>5. C # <<>>
    BY <1>1, <1>3, Emptied
  <1>6. /\ Chain(e, D) /\ Len(D) = m /\ \A i \in 1 .. m : D[i] = C[i]
        /\ NodeAt(e, D, m) = C[m + 1].node /\ BeforeAt(e, D, m) = C[m + 1].before
    <2>1. Shorter(e, C, m, D)
      BY <1>1, <1>4, <1>5, ShorterChain, Zenon
    <2>2. QED
      BY <2>1, Zenon DEF Shorter
  <1> HIDE DEF D
  <1>7. Stack(e, D, ds)
    <2>1. ASSUME NEW i \in 1 .. Len(ds) PROVE Activated(e, D[i].node, D[i].at, ds[i])
      <3>1. i \in 1 .. Len(cs) /\ i \in 1 .. m
        BY <1>2, <1>3
      <3>2. QED
        BY <1>1, <1>2, <1>6, <3>1, Zenon DEF Stack
    <2>2. QED
      BY <1>2, <2>1, Zenon DEF Stack
  <1>8. Stands(e, D, ds, <<>>)
    BY <1>3, <1>6, <1>7, NoEntries, Zenon
  <1>9. /\ Called(e, C[m + 1].node) /\ C[m + 1].at \in 1 .. Len(Steps(e, C[m + 1].node))
        /\ Activated(e, C[m + 1].node, C[m + 1].at, cs[m + 1])
    BY <1>1, <1>3, LinkCalled, Zenon DEF Stack
  <1>10. QED
    BY <1>1, <1>3, <1>6, <1>8, <1>9, Zenon DEF ds, Leaf

(* The next parameter is evaluated, or the value returned. *)
LEMMA ParamValueGoes ==
    ASSUME Good(prog), NEW C, Returning(prog, C, calls, queue, focus, answered), ParamValue
    PROVE  Goes(answered)
  <1> DEFINE m == Len(calls) - 1
             n == C[m + 1].node
             k == C[m + 1].at
             top == calls[m + 1]
             below == SubSeq(calls, 1, Len(calls) - 1)
             N == Len(Steps(prog, n))
             p == Param(prog, n, Steps(prog, n)[k])
             before == C[m + 1].before
  <1>1. /\ Stands(prog, C, calls, <<>>) /\ queue = <<>> /\ queue' = <<>>
        /\ answered = BeforeAt(prog, C, Len(C)) \o HostsIn(prog)[Leaf(prog, C)]
        /\ Saving(prog) => focus.val = ValueIn(prog)[Leaf(prog, C)]
    BY Zenon DEF Returning, ParamValue
  <1>2. calls # <<>>
    BY DEF ParamValue
  <1>3. /\ m \in Nat /\ m + 1 = Len(C) /\ calls[Len(calls)] = top
        /\ \E D : /\ Stands(prog, D, below, <<>>)
                  /\ Leaf(prog, D) = n /\ BeforeAt(prog, D, Len(D)) = before
        /\ Called(prog, n) /\ k \in 1 .. N /\ Activated(prog, n, k, top)
    BY <1>1, <1>2, Popped, Zenon
  <1>4. PICK D : /\ Stands(prog, D, below, <<>>)
                 /\ Leaf(prog, D) = n /\ BeforeAt(prog, D, Len(D)) = before
    BY <1>3, Zenon
  <1>5. Leaf(prog, C) = p /\ BeforeAt(prog, C, Len(C)) = before \o HostsOf(prog, n)[k - 1]
    <2>1. m + 1 # 0
      BY <1>3
    <2>2. QED
      BY <1>3, <2>1, Zenon DEF NodeAt, BeforeAt, Leaf
  <1>6. GoOn(below, [top EXCEPT !.locals = Kept(prog, top.node, @, Steps(prog, top.node)[top.at],
                                              focus.val)], top.at + 1)
    BY <1>3, Zenon DEF ParamValue, Top
  <1> HIDE DEF n, k, top, below, m, before
  <1> DEFINE start == top.start
             cont == top.cont
             locals == Kept(prog, n, top.locals, Steps(prog, n)[k], focus.val)
  <1>7. /\ top = Activation(n, k, start, top.locals, cont) /\ start \in Nat
        /\ start <= Steps(prog, n)[k].upTo
        /\ Saving(prog) => top.locals = LocalsOf(prog, n)[k - 1]
    BY <1>3, Zenon DEF Activated
  <1>8. GoOn(below, Activation(n, k, start, locals, cont), k + 1)
    <2> HIDE DEF start, cont
    <2>1. top.node = n /\ top.at = k
      BY <1>7 DEF Activation
    <2>2. [top EXCEPT !.locals = Kept(prog, n, @, Steps(prog, n)[k], focus.val)]
             = Activation(n, k, start, locals, cont)
      BY <1>7 DEF Activation
    <2>3. QED
      BY <1>6, <2>1, <2>2
  <1>9. Orderly(prog, n) /\ StepByStep(prog, n) /\ LocalsStepByStep(prog, n)
    BY <1>3, StepsAreOrderly, HostsOfSteps, LocalsOfTerm, Zenon
  <1>10. Len(Args(prog, n)) \in Of(prog, n).accepts
    BY <1>3, <1>9 DEF Orderly
  <1>11. /\ k + 1 \in Nat /\ k + 1 >= 1 /\ k + 1 <= Len(Steps(prog, n)) + 1
         /\ (k + 1) - 1 = k /\ k \in 0 .. N /\ k - 1 \in 0 .. N
    BY <1>3, <1>9 DEF Orderly
  <1>12. \A i \in k + 1 .. Len(Steps(prog, n)) : start <= Steps(prog, n)[i].upTo
    <2> DEFINE upTo(i) == Steps(prog, n)[i].upTo
               pos(i) == Steps(prog, n)[i].pos
    <2> HIDE DEF start, cont
    <2>1. /\ N \in Nat /\ start \in Nat /\ start <= upTo(k) /\ k \in 1 .. N
          /\ \A i \in 1 .. N : /\ upTo(i) \in Nat /\ pos(i) \in Nat /\ pos(i) <= upTo(i)
                               /\ \A j \in 1 .. i - 1 : upTo(j) < pos(i)
      BY <1>3, <1>7, <1>9, Zenon DEF Orderly
    <2> HIDE DEF N, upTo, pos
    <2>2. \A i \in k + 1 .. N : start <= upTo(i)
      BY <2>1
    <2>3. QED
      BY <2>2, Zenon DEF upTo, N
  <1>13. Saving(prog) => locals = LocalsOf(prog, n)[(k + 1) - 1]
    <2>1. LocalsOf(prog, n)[k] = Kept(prog, n, LocalsOf(prog, n)[k - 1], Steps(prog, n)[k],
                                      ValueIn(prog)[p])
      BY <1>3, <1>9, Zenon DEF LocalsStepByStep
    <2>2. Saving(prog) => focus.val = ValueIn(prog)[p]
      BY <1>1, <1>5, Zenon
    <2> HIDE DEF p
    <2>3. Saving(prog) => locals = LocalsOf(prog, n)[k]
      BY <1>7, <2>1, <2>2, Zenon
    <2>4. QED
      BY <1>11, <2>3, Zenon
  <1>14. answered = before \o HostsOf(prog, n)[(k + 1) - 1]
    <2> DEFINE u == HostsOf(prog, n)[k - 1]
               h == HostsIn(prog)[p]
    <2>1. answered = (before \o u) \o h
      BY <1>1, <1>5, Zenon
    <2>2. HostsOf(prog, n)[k] = u \o h /\ u \in Seq(Nat) /\ h \in Seq(Nat)
      BY <1>3, <1>9, <1>11, Zenon DEF StepByStep
    <2>3. before \in Seq(Nat)
      BY <1>4, AtLeaf, Zenon
    <2> HIDE DEF u, h, N, p
    <2>4. (before \o u) \o h = before \o (u \o h)
      BY <2>2, <2>3, Associative, Zenon
    <2>5. QED
      BY <1>11, <2>1, <2>2, <2>4, Zenon
  <1> HIDE DEF start, cont, locals
  <1>15. \E E : \/ Evaluating(prog, E, calls', <<>>, focus', answered)
                \/ Returning(prog, E, calls', <<>>, focus', answered)
    <2>1. n = Leaf(prog, D) /\ answered = BeforeAt(prog, D, Len(D)) \o HostsOf(prog, n)[(k + 1) - 1]
      BY <1>4, <1>14, Zenon
    <2>2. start \in Nat
      BY <1>7, Zenon
    <2>3. QED
      BY <1>3, <1>4, <1>8, <1>10, <1>11, <1>12, <1>13, <2>1, <2>2, GoesOn, Zenon
  <1>16. QED
    BY <1>1, <1>15, Zenon DEF Goes

(* At a host function the interrupt has no entries left. *)
AtHost(e, C, cs, q, f, done) ==
    /\ q = <<>> /\ Stands(e, C, cs, <<>>) /\ f.node = Leaf(e, C)
    /\ done = BeforeAt(e, C, Len(C))

(* A host function is evaluated with no entry left: the next one would     *)
(* belong to a call.                                                       *)
LEMMA HostEvaluated ==
    ASSUME NEW e, Good(e), NEW C, NEW cs, NEW q, NEW f, NEW done,
           Evaluating(e, C, cs, q, f, done), e[f.node].op = "host"
    PROVE  AtHost(e, C, cs, q, f, done)
  <1>1. /\ Stands(e, C, cs, q) /\ f.node = NodeAt(e, C, Len(cs))
        /\ done = BeforeAt(e, C, Len(C))
    BY Zenon DEF Evaluating
  <1>2. q = <<>>
    <2> SUFFICES ASSUME q # <<>> PROVE FALSE
      BY Zenon
    <2> DEFINE n == C[Len(cs) + 1].node
    <2>1. Called(e, n) /\ n = NodeAt(e, C, Len(cs))
      BY <1>1, FirstEntry, Zenon
    <2> HIDE DEF n
    <2>2. QED
      BY <1>1, <2>1, Zenon DEF Called
  <1>3. Stands(e, C, cs, <<>>)
    BY <1>1, <1>2, Zenon
  <1>4. Len(C) = Len(cs)
    BY <1>3, AtLeaf, Zenon
  <1>5. QED
    BY <1>1, <1>2, <1>3, <1>4, Zenon DEF Leaf, AtHost

(* A host function calls itself and answers its number. *)
LEMMA HostOfTerm ==
    ASSUME NEW e, Good(e), NEW n \in DOMAIN e, e[n].op = "host"
    PROVE  n \in Nat /\ HostsIn(e)[n] = <<n>> /\ ValueIn(e)[n] = <<n>>
  <1>1. n \in Nat
    <2>1. DOMAIN e = 1 .. Len(e) /\ Len(e) \in Nat
      BY Terms, Zenon DEF Good
    <2>2. QED
      BY <2>1
  <1>2. QED
    BY <1>1, HostsOfTerms, ValueOfTerms, Zenon DEF Good

(* The answer of a host function is its value. *)
LEMMA HostAnswersReturns ==
    ASSUME Good(prog), NEW C, Evaluating(prog, C, calls, queue, focus, answered), HostAnswers
    PROVE  Returning(prog, C, calls', queue', focus', answered')
  <1> DEFINE n == focus.node
  <1>1. prog[n].op = "host"
    BY Zenon DEF HostAnswers
  <1>2. /\ queue = <<>> /\ Stands(prog, C, calls, <<>>) /\ n = Leaf(prog, C)
        /\ answered = BeforeAt(prog, C, Len(C))
    <2>1. AtHost(prog, C, calls, queue, focus, answered)
      BY <1>1, HostEvaluated, Zenon
    <2>2. QED
      BY <2>1, Zenon DEF AtHost
  <1>3. /\ calls' = calls /\ queue' = <<>> /\ focus' = Ret(<<n>>)
        /\ answered' = Append(answered, n)
    BY <1>2, Zenon DEF HostAnswers
  <1> HIDE DEF n
  <1>4. n \in DOMAIN prog /\ answered \in Seq(Nat)
    BY <1>2, AtLeaf, Zenon
  <1>5. n \in Nat /\ HostsIn(prog)[n] = <<n>> /\ ValueIn(prog)[n] = <<n>>
    BY <1>1, <1>4, HostOfTerm, Zenon DEF n
  <1>6. answered' = answered \o <<n>>
    BY <1>3, <1>4, <1>5
  <1>7. focus'.k = "ret" /\ focus'.val = <<n>>
    BY <1>3 DEF Ret
  <1>8. QED
    BY <1>2, <1>3, <1>5, <1>6, <1>7, Zenon DEF Returning

(* An interrupt unwinds the activations that led to its host function. *)
LEMMA HostInterruptsUnwinds ==
    ASSUME Good(prog), NEW C, Evaluating(prog, C, calls, queue, focus, answered), HostInterrupts
    PROVE  Unwinding(prog, C, calls', recorded', focus', answered') /\ queue' = <<>>
  <1>1. prog[focus.node].op = "host"
    BY Zenon DEF HostInterrupts
  <1>2. /\ queue = <<>> /\ Stands(prog, C, calls, <<>>)
        /\ answered = BeforeAt(prog, C, Len(C))
    <2>1. AtHost(prog, C, calls, queue, focus, answered)
      BY <1>1, HostEvaluated, Zenon
    <2>2. QED
      BY <2>1, Zenon DEF AtHost
  <1>3. /\ calls' = calls /\ queue' = <<>> /\ recorded' = <<>> /\ answered' = answered
        /\ focus' = Interrupt
    BY <1>2, Zenon DEF HostInterrupts
  <1>4. focus'.k = "intr"
    BY <1>3 DEF Interrupt
  <1>5. QED
    BY <1>2, <1>3, <1>4, Zenon DEF Unwinding

(* The innermost activation records its entry before those within it. *)
LEMMA EntryAdded ==
    ASSUME NEW e, NEW C, NEW cs, NEW q, Stands(e, C, cs, q), cs # <<>>,
           NEW x, Recorded(e, C[Len(cs)].node, C[Len(cs)].at, x)
    PROVE  Stands(e, C, SubSeq(cs, 1, Len(cs) - 1), <<x>> \o q)
  <1> DEFINE ds == SubSeq(cs, 1, Len(cs) - 1)
             r == <<x>> \o q
  <1>1. Chain(e, C) /\ Stack(e, C, cs) /\ Entries(e, C, Len(cs), q)
    BY Zenon DEF Stands
  <1>2. Sequenced(q) /\ Sequenced(cs) /\ Len(C) = Len(cs) + Len(q)
    BY <1>1, Zenon DEF Stack, Entries
  <1>3. /\ Sequenced(ds) /\ Len(cs) \in Nat /\ Len(cs) > 0 /\ Len(ds) = Len(cs) - 1
        /\ \A i \in 1 .. Len(ds) : ds[i] = cs[i]
    BY <1>2, Shortened, Zenon
  <1>4. /\ Sequenced(r) /\ Len(q) \in Nat /\ Len(r) = Len(q) + 1 /\ r[1] = x
        /\ \A i \in 1 .. Len(q) : r[i + 1] = q[i]
    <2>1. Prefixes(r, q, x)
      BY <1>2, Prefixed, Zenon
    <2>2. QED
      BY <2>1, Zenon DEF Prefixes
  <1> HIDE DEF ds, r
  <1>5. Stack(e, C, ds)
    <2>1. ASSUME NEW i \in 1 .. Len(ds) PROVE Activated(e, C[i].node, C[i].at, ds[i])
      <3>1. i \in 1 .. Len(cs)
        BY <1>3
      <3>2. QED
        BY <1>1, <1>3, <3>1, Zenon DEF Stack
    <2>2. QED
      BY <1>3, <2>1, Zenon DEF Stack
  <1>6. Entries(e, C, Len(ds), r)
    <2>1. Len(C) = Len(ds) + Len(r)
      BY <1>2, <1>3, <1>4
    <2>2. ASSUME NEW i \in 1 .. Len(r)
          PROVE  Recorded(e, C[Len(ds) + i].node, C[Len(ds) + i].at, r[i])
      <3>1. CASE i = 1
        <4>1. Len(ds) + i = Len(cs)
          BY <1>3, <3>1
        <4>2. QED
          BY <1>4, <3>1, <4>1, Zenon
      <3>2. CASE i # 1
        <4> DEFINE j == i - 1
        <4>1. j \in 1 .. Len(q) /\ Len(ds) + i = Len(cs) + j /\ i = j + 1
          BY <1>3, <1>4, <3>2
        <4> HIDE DEF j
        <4>2. QED
          BY <1>1, <1>4, <4>1, Zenon DEF Entries
      <3>3. QED
        BY <3>1, <3>2, Zenon
    <2>3. QED
      BY <1>4, <2>1, <2>2, Zenon DEF Entries
  <1>7. QED
    BY <1>1, <1>5, <1>6, Zenon DEF Stands, ds, r

(* It adds the entry of the innermost one and goes on with the rest. *)
LEMMA UnwindUnwinds ==
    ASSUME Good(prog), NEW C, Unwinding(prog, C, calls, recorded, focus, answered), Unwind
    PROVE  Unwinding(prog, C, calls', recorded', focus', answered')
  <1> DEFINE m == Len(calls)
             n == C[m].node
             k == C[m].at
             top == calls[m]
             s == Steps(prog, n)[k]
             saved(i) == IF i <= Len(s.saves) THEN top.locals[s.saves[i]] ELSE Nil
             x == Entry(s.pos, saved(1), saved(2))
  <1>1. /\ Stands(prog, C, calls, recorded) /\ focus.k = "intr"
        /\ answered = BeforeAt(prog, C, Len(C))
    BY Zenon DEF Unwinding
  <1>2. calls # <<>>
    BY DEF Unwind
  <1>3. /\ Chain(prog, C) /\ Stack(prog, C, calls) /\ Sequenced(calls) /\ Sequenced(recorded)
        /\ Len(C) = Len(calls) + Len(recorded)
    BY <1>1, Zenon DEF Stands, Stack, Entries
  <1>4. m \in 1 .. Len(calls) /\ m \in 1 .. Len(C)
    <2>1. Len(calls) \in Nat /\ Len(recorded) \in Nat /\ Len(calls) # 0
      BY <1>2, <1>3, Emptied, Zenon
    <2>2. QED
      BY <1>3, <2>1
  <1>5. Called(prog, n) /\ k \in 1 .. Len(Steps(prog, n)) /\ Activated(prog, n, k, top)
    BY <1>3, <1>4, LinkCalled, Zenon DEF Stack
  <1>6. s.caught = TRUE
    BY <1>5, StepsAreOrderly, Zenon DEF Orderly
  <1>7. top.node = n /\ top.at = k
    BY <1>5 DEF Activated, Activation
  <1>8. Catch = <<x>>
    <2>1. Top = top
      BY Zenon DEF Top
    <2> HIDE DEF top, n, k
    <2>2. QED
      BY <1>6, <1>7, <2>1 DEF Catch
  <1>9. Recorded(prog, n, k, x)
    <2>1. x.pos = s.pos /\ x.tmps[1] = saved(1) /\ x.tmps[2] = saved(2)
      BY DEF Entry
    <2>2. Saving(prog) => top.locals = LocalsOf(prog, n)[k - 1]
      BY <1>5, Zenon DEF Activated
    <2> HIDE DEF top, x, n, k
    <2>3. ASSUME NEW i \in 1 .. 2 PROVE x.tmps[i] = saved(i)
      <3> HIDE DEF saved
      <3>1. i = 1 \/ i = 2
        OBVIOUS
      <3>2. QED
        BY <2>1, <3>1, Zenon
    <2>4. QED
      BY <2>1, <2>2, <2>3, Zenon DEF Recorded, Holds
  <1> HIDE DEF x, n, k
  <1>10. Stands(prog, C, SubSeq(calls, 1, Len(calls) - 1), <<x>> \o recorded)
    <2>1. Recorded(prog, C[Len(calls)].node, C[Len(calls)].at, x)
      BY <1>9, Zenon DEF n, k
    <2>2. QED
      BY <1>1, <1>2, <2>1, EntryAdded, Zenon
  <1>11. /\ recorded' = <<x>> \o recorded /\ calls' = SubSeq(calls, 1, Len(calls) - 1)
         /\ focus' = focus /\ answered' = answered
    BY <1>8, Zenon DEF Unwind
  <1>12. QED
    BY <1>1, <1>10, <1>11, Zenon DEF Unwinding

(* A continued evaluation has all its entries before it. *)
LEMMA ResumeEvaluates ==
    ASSUME NEW C, Unwinding(prog, C, calls, recorded, focus, answered), calls = <<>>, Resume
    PROVE  Evaluating(prog, C, calls', queue', focus', answered')
  <1>1. Stands(prog, C, calls, recorded) /\ answered = BeforeAt(prog, C, Len(C))
    BY Zenon DEF Unwinding
  <1>2. calls' = calls /\ queue' = recorded /\ answered' = answered /\ focus' = Eval(1, TRUE)
    BY Zenon DEF Resume
  <1>3. focus'.k = "eval" /\ focus'.node = 1 /\ focus'.cont = TRUE
    BY <1>2 DEF Eval
  <1>4. NodeAt(prog, C, Len(calls)) = 1
    BY Nothing, Zenon DEF NodeAt
  <1>5. QED
    BY <1>1, <1>2, <1>3, <1>4, Zenon DEF Evaluating

-----------------------------------------------------------------------------
(* The invariant *)

(* The assumption of the theorems: every function in the expressions comes *)
(* back to the operand it was interrupted at. *)
AllResumable == \A e \in Expressions : Resumable(e)

(* The expressions of a specification of resumable ones are resumable. *)
LEMMA GoodExpressions ==
    ASSUME AllResumable, NEW e \in Expressions
    PROVE  Good(e)
  BY ExpressionAssumption, Zenon DEF AllResumable, Good

(* Inv holds at the beginning. *)
LEMMA InitInv ==
    ASSUME AllResumable, Init
    PROVE  Inv
  <1>1. prog \in Expressions /\ Good(prog)
    BY GoodExpressions, Zenon DEF Init
  <1>2. /\ calls = <<>> /\ queue = <<>> /\ answered = <<>> /\ focus = Eval(1, FALSE)
        /\ status = "running"
    BY Zenon DEF Init
  <1>3. Chain(prog, <<>>) /\ NodeAt(prog, <<>>, 0) = 1 /\ BeforeAt(prog, <<>>, 0) = <<>>
    BY <1>1, EmptyChain, Zenon DEF Good
  <1>4. Stack(prog, <<>>, <<>>)
    <2>1. 1 .. Len(<<>>) = {}
      BY Nothing
    <2>2. QED
      BY <2>1, Nothing, Zenon DEF Stack
  <1>5. Stands(prog, <<>>, <<>>, <<>>)
    BY <1>3, <1>4, NoEntries, Zenon
  <1>6. focus.k = "eval" /\ focus.node = 1
    BY <1>2 DEF Eval
  <1>7. Evaluating(prog, <<>>, calls, queue, focus, answered)
    BY <1>2, <1>3, <1>5, <1>6, Nothing, Zenon DEF Evaluating
  <1>8. QED
    BY <1>1, <1>2, <1>7, Zenon DEF Inv, Follows

(* The three ways an evaluation that was not raised stands *)
LEMMA InvCases ==
    ASSUME Inv, status # "raised"
    PROVE  \E C : \/ status = "running" /\ Evaluating(prog, C, calls, queue, focus, answered)
                  \/ /\ status = "running" \/ (status = "done" /\ calls = <<>>)
                     /\ Returning(prog, C, calls, queue, focus, answered)
                  \/ /\ status = "running" \/ (status = "suspended" /\ calls = <<>>)
                     /\ Unwinding(prog, C, calls, recorded, focus, answered) /\ queue = <<>>
  BY Zenon DEF Inv, Follows

(* A state that evaluates a term *)
LEMMA EvaluatingIs ==
    ASSUME Inv, focus.k = "eval", status # "raised"
    PROVE  \E C : status = "running" /\ Evaluating(prog, C, calls, queue, focus, answered)
  <1>1. /\ "eval" # "ret" /\ "eval" # "intr"
    OBVIOUS
  <1>2. QED
    BY <1>1, InvCases, Zenon DEF Returning, Unwinding

(* A state that returns a value *)
LEMMA ReturningIs ==
    ASSUME Inv, focus.k = "ret", status # "raised"
    PROVE  \E C : /\ status = "running" \/ (status = "done" /\ calls = <<>>)
                  /\ Returning(prog, C, calls, queue, focus, answered)
  <1>1. /\ "ret" # "eval" /\ "ret" # "intr"
    OBVIOUS
  <1>2. QED
    BY <1>1, InvCases, Zenon DEF Evaluating, Unwinding

(* A state that unwinds an interrupt *)
LEMMA UnwindingIs ==
    ASSUME Inv, focus.k = "intr", status # "raised"
    PROVE  \E C : /\ status = "running" \/ (status = "suspended" /\ calls = <<>>)
                  /\ Unwinding(prog, C, calls, recorded, focus, answered) /\ queue = <<>>
  <1>1. /\ "intr" # "ret" /\ "intr" # "eval"
    OBVIOUS
  <1>2. QED
    BY <1>1, InvCases, Zenon DEF Evaluating, Returning

(* Every step preserves Inv. *)
LEMMA NextInv ==
    ASSUME AllResumable, Inv, [Next]_vars
    PROVE  Inv'
  <1>1. prog \in Expressions /\ Good(prog)
    BY GoodExpressions, Zenon DEF Inv
  <1>2. prog' = prog
    BY DEF Next, Call, ParamValue, HostAnswers, HostInterrupts, Unwind, Suspend, Resume,
           Finish, Stopped, vars
  <1>3. /\ "running" # "raised" /\ "suspended" # "raised" /\ "done" # "raised"
        /\ "running" # "suspended" /\ "running" # "done" /\ "suspended" # "done"
    OBVIOUS
  <1>4. CASE Call
    <2>1. CASE status' = "raised"
      BY <1>1, <1>2, <2>1, Zenon DEF Inv
    <2>2. CASE status' # "raised"
      <3>1. status = "running" /\ focus.k = "eval" /\ answered' = answered
        BY <1>4 DEF Call
      <3>2. PICK C : Evaluating(prog, C, calls, queue, focus, answered)
        BY <1>3, <3>1, EvaluatingIs, Zenon
      <3>3. CASE queue = <<>>
        <4>1. Goes(answered) /\ status' = status
          BY <1>1, <1>4, <2>2, <3>2, <3>3, CallStarts, Zenon
        <4>2. QED
          BY <1>1, <1>2, <3>1, <4>1, Zenon DEF Goes, Inv, Follows
      <3>4. CASE queue # <<>>
        <4>1. Evaluating(prog, C, calls', queue', focus', answered) /\ status' = status
          BY <1>1, <1>4, <2>2, <3>2, <3>4, CallResumes, Zenon
        <4>2. QED
          BY <1>1, <1>2, <3>1, <4>1, Zenon DEF Inv, Follows
      <3>5. QED
        BY <3>3, <3>4, Zenon
    <2>3. QED
      BY <2>1, <2>2, Zenon
  <1>5. CASE ParamValue
    <2>1. status = "running" /\ focus.k = "ret" /\ status' = status /\ answered' = answered
      BY <1>5 DEF ParamValue
    <2>2. PICK C : Returning(prog, C, calls, queue, focus, answered)
      BY <1>3, <2>1, ReturningIs, Zenon
    <2>3. Goes(answered)
      BY <1>1, <1>5, <2>2, ParamValueGoes, Zenon
    <2>4. QED
      BY <1>1, <1>2, <2>1, <2>3, Zenon DEF Goes, Inv, Follows
  <1>6. CASE HostAnswers
    <2>1. status = "running" /\ focus.k = "eval" /\ status' = status
      BY <1>6 DEF HostAnswers
    <2>2. PICK C : Evaluating(prog, C, calls, queue, focus, answered)
      BY <1>3, <2>1, EvaluatingIs, Zenon
    <2>3. Returning(prog, C, calls', queue', focus', answered')
      BY <1>1, <1>6, <2>2, HostAnswersReturns, Zenon
    <2>4. QED
      BY <1>1, <1>2, <2>1, <2>3, Zenon DEF Inv, Follows
  <1>7. CASE HostInterrupts
    <2>1. status = "running" /\ focus.k = "eval" /\ status' = status
      BY <1>7 DEF HostInterrupts
    <2>2. PICK C : Evaluating(prog, C, calls, queue, focus, answered)
      BY <1>3, <2>1, EvaluatingIs, Zenon
    <2>3. Unwinding(prog, C, calls', recorded', focus', answered') /\ queue' = <<>>
      BY <1>1, <1>7, <2>2, HostInterruptsUnwinds, Zenon
    <2>4. QED
      BY <1>1, <1>2, <2>1, <2>3, Zenon DEF Inv, Follows
  <1>8. CASE Unwind
    <2>1. status = "running" /\ focus.k = "intr" /\ status' = status /\ queue' = queue
      BY <1>8 DEF Unwind
    <2>2. PICK C : Unwinding(prog, C, calls, recorded, focus, answered) /\ queue = <<>>
      BY <1>3, <2>1, UnwindingIs, Zenon
    <2>3. Unwinding(prog, C, calls', recorded', focus', answered')
      BY <1>1, <1>8, <2>2, UnwindUnwinds, Zenon
    <2>4. QED
      BY <1>1, <1>2, <2>1, <2>2, <2>3, Zenon DEF Inv, Follows
  <1>9. CASE Suspend
    <2>1. /\ status = "running" /\ focus.k = "intr" /\ calls = <<>> /\ status' = "suspended"
          /\ UNCHANGED <<calls, focus, queue, recorded, answered>>
      BY <1>9 DEF Suspend
    <2>2. PICK C : Unwinding(prog, C, calls, recorded, focus, answered) /\ queue = <<>>
      BY <1>3, <2>1, UnwindingIs, Zenon
    <2>3. Unwinding(prog, C, calls', recorded', focus', answered') /\ queue' = <<>> /\ calls' = <<>>
      BY <2>1, <2>2
    <2>4. QED
      BY <1>1, <1>2, <2>1, <2>3, Zenon DEF Inv, Follows
  <1>10. CASE Resume
    <2>1. status = "suspended" /\ status' = "running"
      BY <1>10 DEF Resume
    <2>2. PICK C : Unwinding(prog, C, calls, recorded, focus, answered) /\ calls = <<>>
      BY <1>3, <2>1, InvCases, Zenon
    <2>3. Evaluating(prog, C, calls', queue', focus', answered')
      BY <1>10, <2>2, ResumeEvaluates, Zenon
    <2>4. QED
      BY <1>1, <1>2, <2>1, <2>3, Zenon DEF Inv, Follows
  <1>11. CASE Finish
    <2>1. /\ status = "running" /\ focus.k = "ret" /\ calls = <<>> /\ status' = "done"
          /\ UNCHANGED <<calls, focus, queue, answered>>
      BY <1>11 DEF Finish
    <2>2. PICK C : Returning(prog, C, calls, queue, focus, answered)
      BY <1>3, <2>1, ReturningIs, Zenon
    <2>3. Returning(prog, C, calls', queue', focus', answered') /\ calls' = <<>>
      BY <2>1, <2>2
    <2>4. QED
      BY <1>1, <1>2, <2>1, <2>3, Zenon DEF Inv, Follows
  <1>12. CASE UNCHANGED vars
    <2>1. /\ prog' = prog /\ calls' = calls /\ focus' = focus /\ status' = status
          /\ queue' = queue /\ recorded' = recorded /\ answered' = answered
      BY <1>12 DEF vars
    <2>2. status # "raised" => \E C : Follows(C)
      BY DEF Inv
    <2>3. QED
      BY <1>1, <2>1, <2>2, Zenon DEF Inv, Follows
  <1>13. QED
    BY <1>4, <1>5, <1>6, <1>7, <1>8, <1>9, <1>10, <1>11, <1>12 DEF Next, Stopped

(* Inv is an invariant. *)
THEOREM Inductive ==
    ASSUME AllResumable
    PROVE  Spec => []Inv
  <1>1. Init => Inv
    BY InitInv
  <1>2. Inv /\ [Next]_vars => Inv'
    BY NextInv
  <1>3. QED
    BY <1>1, <1>2, PTL DEF Spec

-----------------------------------------------------------------------------
(* What it implies *)

(* What the outermost function returns is the value of the expression. *)
LEMMA WhenReturned ==
    ASSUME AllResumable, Inv, NEW C, Returning(prog, C, calls, queue, focus, answered), calls = <<>>
    PROVE  /\ queue = <<>> /\ answered = Order
           /\ Saving(prog) => focus.val = Value
  <1>3. /\ Stands(prog, C, calls, <<>>) /\ queue = <<>>
        /\ answered = BeforeAt(prog, C, Len(C)) \o HostsIn(prog)[Leaf(prog, C)]
        /\ Saving(prog) => focus.val = ValueIn(prog)[Leaf(prog, C)]
    BY Zenon DEF Returning
  <1>4. Len(C) = 0
    <2>1. Len(C) = Len(calls)
      BY <1>3, AtLeaf, Zenon
    <2>2. QED
      BY <2>1, Nothing, Zenon
  <1>5. Leaf(prog, C) = 1 /\ BeforeAt(prog, C, Len(C)) = <<>>
    BY <1>4, Zenon DEF Leaf, NodeAt, BeforeAt
  <1>6. answered = Order
    <2> DEFINE h == HostsIn(prog)[1]
    <2>1. h \in Seq(Nat)
      BY GoodExpressions, Terms, HostsOfTerms, Zenon DEF Inv, Good
    <2>2. answered = <<>> \o h
      BY <1>3, <1>5, Zenon
    <2> HIDE DEF h
    <2>3. <<>> \o h = h
      BY <2>1
    <2>4. QED
      BY <2>2, <2>3, Zenon DEF Order, h
  <1>7. QED
    BY <1>3, <1>5, <1>6, Zenon DEF Value

(* An expression that is done has its value, and all its host functions    *)
(* have answered.                                                          *)
LEMMA WhenDone ==
    ASSUME AllResumable, Inv, status = "done"
    PROVE  /\ queue = <<>> /\ answered = Order
           /\ Saving(prog) => focus.val = Value
  <1>1. status # "raised" /\ status # "running" /\ status # "suspended"
    OBVIOUS
  <1>2. PICK C : Returning(prog, C, calls, queue, focus, answered) /\ calls = <<>>
    BY <1>1, InvCases, Zenon
  <1>3. QED
    BY <1>2, WhenReturned, Zenon

(* Every activation of a continued expression pulls its own entry. *)
THEOREM EntriesUsedUp ==
    ASSUME AllResumable
    PROVE  Spec => []EntriesAreUsedUp
  <1>1. Inv => EntriesAreUsedUp
    <2> SUFFICES ASSUME Inv PROVE EntriesAreUsedUp
      OBVIOUS
    <2>1. ASSUME status = "running", focus.k = "eval", prog[focus.node].op = "host"
          PROVE  queue = <<>>
      <3>1. status # "raised"
        BY <2>1
      <3>2. PICK C : Evaluating(prog, C, calls, queue, focus, answered)
        BY <2>1, <3>1, EvaluatingIs, Zenon
      <3>3. Good(prog)
        BY GoodExpressions, Zenon DEF Inv
      <3>4. AtHost(prog, C, calls, queue, focus, answered)
        BY <2>1, <3>2, <3>3, HostEvaluated, Zenon
      <3>5. QED
        BY <3>4, Zenon DEF AtHost
    <2>2. status = "done" => queue = <<>>
      BY WhenDone, Zenon
    <2>3. QED
      BY <2>1, <2>2, Zenon DEF EntriesAreUsedUp
  <1>2. QED
    BY <1>1, Inductive, PTL

(* An expression of functions that record what they have computed returns  *)
(* the value of an uninterrupted evaluation. *)
THEOREM SavedValuesSurvive ==
    ASSUME AllResumable
    PROVE  Spec => []SavedValueSurvives
  <1>1. Inv => SavedValueSurvives
    <2> SUFFICES ASSUME Inv, {prog[n].op : n \in DOMAIN prog} \cap Losing = {}, status = "done"
                 PROVE  focus.val = Value
      BY Zenon DEF SavedValueSurvives, ValueSurvives
    <2>1. Saving(prog)
      BY Zenon DEF Saving
    <2>2. QED
      BY <2>1, WhenDone, Zenon
  <1>2. QED
    BY <1>1, Inductive, PTL

(* No operand of a resumable expression is stepped over. *)
THEOREM NothingSkipped ==
    ASSUME AllResumable
    PROVE  Spec => []NoOperandSkipped
  <1>1. Inv => NoOperandSkipped
    BY WhenDone, Zenon DEF NoOperandSkipped
  <1>2. QED
    BY <1>1, Inductive, PTL

-----------------------------------------------------------------------------
(* The refinement *)

(* The element after a prefix is the next of the whole. *)
LEMMA NextOfAll ==
    ASSUME NEW b \in Seq(Nat), NEW n \in Nat, NEW all, Prefix(b \o <<n>>, all)
    PROVE  Len(b) < Len(all) /\ all[Len(b) + 1] = n
  <1>1. PICK r \in Seq(Nat) : all = (b \o <<n>>) \o r
    BY Zenon DEF Prefix
  <1> DEFINE c == b \o <<n>>
  <1>2. c \in Seq(Nat) /\ Len(c) = Len(b) + 1 /\ c[Len(b) + 1] = n /\ Len(b) \in Nat
    OBVIOUS
  <1> HIDE DEF c
  <1>3. all = c \o r
    BY <1>1, Zenon DEF c
  <1>4. Len(all) = Len(c) + Len(r) /\ Len(r) \in Nat
    <2>1. c \in Seq(Nat) /\ r \in Seq(Nat)
      BY <1>2
    <2>2. Len(c \o r) = Len(c) + Len(r)
      BY <2>1, ConcatProperties, Zenon
    <2>3. Len(r) \in Nat
      BY <2>1
    <2>4. QED
      BY <1>3, <2>2, <2>3, Zenon
  <1>6. all[Len(b) + 1] = c[Len(b) + 1]
    <2> DEFINE i == Len(b) + 1
    <2>1. i \in 1 .. Len(c)
      BY <1>2
    <2> HIDE DEF i
    <2>2. (c \o r)[i] = c[i]
      BY <1>2, <2>1
    <2>3. QED
      BY <1>3, <2>2, Zenon DEF i
  <1>5. QED
    BY <1>2, <1>4, <1>6

(* The host function that answers is the next of the uninterrupted         *)
(* evaluation.                                                             *)
LEMMA HostAnswersNext ==
    ASSUME AllResumable, Inv, HostAnswers
    PROVE  /\ Len(answered) < Len(Order)
           /\ answered' = Append(answered, Order[Len(answered) + 1])
  <1> DEFINE n == focus.node
  <1>1. /\ status = "running" /\ focus.k = "eval" /\ prog[n].op = "host"
        /\ answered' = Append(answered, n)
    BY Zenon DEF HostAnswers
  <1>2. status # "raised" /\ Good(prog)
    <2>1. status # "raised"
      BY <1>1
    <2>2. QED
      BY <2>1, GoodExpressions, Zenon DEF Inv
  <1>3. PICK C : Evaluating(prog, C, calls, queue, focus, answered)
    BY <1>1, <1>2, EvaluatingIs, Zenon
  <1>4. AtHost(prog, C, calls, queue, focus, answered)
    BY <1>1, <1>2, <1>3, HostEvaluated, Zenon
  <1>5. /\ n \in DOMAIN prog /\ answered \in Seq(Nat)
        /\ Prefix(answered \o HostsIn(prog)[n], HostsIn(prog)[1])
    <2>1. /\ Stands(prog, C, calls, <<>>) /\ n = Leaf(prog, C)
          /\ answered = BeforeAt(prog, C, Len(C))
      BY <1>4, Zenon DEF AtHost
    <2> HIDE DEF n
    <2>2. QED
      BY <2>1, AtLeaf, Zenon
  <1>6. n \in Nat /\ HostsIn(prog)[n] = <<n>>
    BY <1>1, <1>2, <1>5, HostOfTerm, Zenon
  <1> HIDE DEF n
  <1>7. Prefix(answered \o <<n>>, Order)
    BY <1>5, <1>6, Zenon DEF Order
  <1>8. Len(answered) < Len(Order) /\ Order[Len(answered) + 1] = n
    BY <1>5, <1>6, <1>7, NextOfAll, Zenon
  <1>9. QED
    BY <1>1, <1>8, Zenon DEF n

(* Every step is one of the promise or leaves it unchanged. *)
LEMMA StepOfPromise ==
    ASSUME AllResumable, Inv, [Next]_vars
    PROVE  [Promise!Next]_(Promise!vars)
  <1>1. prog' = prog
    BY DEF Next, Call, ParamValue, HostAnswers, HostInterrupts, Unwind, Suspend, Resume,
           Finish, Stopped, vars
  <1>2. Order' = Order
    BY <1>1, Zenon DEF Order
  <1>3. CASE HostAnswers
    <2>1. Len(answered) < Len(Order) /\ answered' = Append(answered, Order[Len(answered) + 1])
      BY <1>3, HostAnswersNext, Zenon
    <2>2. status = "running" /\ status' = status
      BY <1>3 DEF HostAnswers
    <2>3. ~(status = "done") /\ (status' = "done") = (status = "done")
      BY <2>2
    <2>4. Promise!Answer
      BY <1>2, <2>1, <2>3, Zenon DEF Promise!Answer
    <2>5. QED
      BY <2>4, Zenon DEF Promise!Next
  <1>4. CASE Finish
    <2>1. /\ ~(status = "done") /\ status' = "done" /\ answered' = answered
          /\ status # "raised" /\ focus.k = "ret" /\ calls = <<>>
      BY <1>4 DEF Finish
    <2>2. answered = Order
      <3>1. PICK C : Returning(prog, C, calls, queue, focus, answered)
        BY <2>1, ReturningIs, Zenon
      <3>2. QED
        BY <2>1, <3>1, WhenReturned, Zenon
    <2>3. Promise!Finish
      BY <1>2, <2>1, <2>2, Zenon DEF Promise!Finish
    <2>4. QED
      BY <2>3, Zenon DEF Promise!Next
  <1>5. CASE Call \/ ParamValue \/ HostInterrupts \/ Unwind \/ Suspend \/ Resume \/ Stopped
             \/ UNCHANGED vars
    <2>1. answered' = answered /\ (status' = "done") = (status = "done")
      BY <1>5 DEF Call, ParamValue, HostInterrupts, Unwind, Suspend, Resume, Stopped, vars
    <2>2. QED
      BY <1>2, <2>1, Zenon DEF Promise!vars
  <1>6. QED
    BY <1>3, <1>4, <1>5 DEF Next

(* However often it is interrupted and continued, a resumable expression    *)
(* has its host functions answer once, in the order of an uninterrupted     *)
(* evaluation, before it has its value. *)
THEOREM Refinement ==
    ASSUME AllResumable
    PROVE  Spec => AnswersOnceInOrder
  <1>1. Init => Promise!Init
    <2> SUFFICES ASSUME Init PROVE Promise!Init
      OBVIOUS
    <2>1. Order \in Seq(Nat)
      BY GoodExpressions, Terms, HostsOfTerms, Zenon DEF Init, Good, Order
    <2>2. answered = <<>> /\ (status = "done") = FALSE
      BY DEF Init
    <2>3. QED
      BY <2>1, <2>2, Zenon DEF Promise!Init
  <1>2. Inv /\ [Next]_vars => [Promise!Next]_(Promise!vars)
    BY StepOfPromise
  <1>3. QED
    BY <1>1, <1>2, Inductive, PTL DEF Spec, AnswersOnceInOrder, Promise!Spec
=============================================================================

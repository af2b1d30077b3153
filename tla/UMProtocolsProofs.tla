------------------------- MODULE UMProtocolsProofs -------------------------
(***************************************************************************)
(* What the protocols of umscript's functions have in common, whatever the *)
(* greatest number of parameters: which functions find the operand again   *)
(* that was interrupted, and which of those find the values of the         *)
(* operands before it.  Each function's evaluateWithEnvironment is a       *)
(* ladder of positions, and the statements compare its rungs: the position *)
(* an operand's catch block records passes over the operands before it and *)
(* over no other, and the value cases of continue restore the locals set   *)
(* by then.  The proofs go through the functions family by family.         *)
(***************************************************************************)
EXTENDS UMProtocols, TLAPS

StepOf == [param : Nat, local : 0 .. 3, pos : Nat, upTo : Nat, saves : Seq(0 .. 3),
           continued : BOOLEAN, caught : BOOLEAN, optional : BOOLEAN]

(* A function of protocol P with c parameters comes back to the parameter it *)
(* was interrupted at: the position it records for it makes it pass over the *)
(* parameters before, and over no other. *)
ComesBack(P, c) ==
    /\ P.steps[c] \in Seq(StepOf)
    /\ P.steps[c] # <<>> => c \in P.accepts /\ P.pulls \in {"first", "accepted"}
    /\ \A j \in 1 .. Len(P.steps[c]) :
          LET s == P.steps[c][j]
          IN /\ s.param < c
             /\ s.continued = TRUE /\ s.caught = TRUE /\ s.optional = FALSE
             /\ s.pos <= s.upTo
             /\ \A i \in 1 .. j - 1 : P.steps[c][i].upTo < s.pos

(* No step before step j sets local l. *)
Unset(P, c, j, l) == \A i \in 1 .. j - 1 : P.steps[c][i].local # l

(* The function restores every local it had set, and no other. *)
RestoresFrom(P, i, l, pos) == P.restores[i].local = l /\ pos \in P.restores[i].at

RemembersAt(P, c, j, l) ==
    LET s == P.steps[c][j]
    IN /\ \/ Unset(P, c, j, l)
          \/ \E i \in 1 .. Len(P.restores) : RestoresFrom(P, i, l, s.pos)
       /\ \A i \in 1 .. Len(P.restores) :
             RestoresFrom(P, i, l, s.pos)
             => /\ i <= 2
                /\ IF i <= Len(s.saves) THEN s.saves[i] = l ELSE Unset(P, c, j, l)

Remembers(P, c) ==
    \A j \in 1 .. Len(P.steps[c]), l \in 0 .. 3 : RemembersAt(P, c, j, l)

(* The fields of a step made with Step *)
LEMMA StepIsOne ==
    ASSUME NEW param \in Nat, NEW local \in 0 .. 3, NEW pos \in Nat, NEW upTo \in Nat,
           NEW saves \in Seq(0 .. 3), NEW s, s = Step(param, local, pos, upTo, saves)
    PROVE  /\ s \in StepOf
           /\ s.param = param /\ s.local = local /\ s.pos = pos /\ s.upTo = upTo
           /\ s.saves = saves /\ s.continued = TRUE /\ s.caught = TRUE /\ s.optional = FALSE
  BY DEF Step, StepOf

(* With a number of parameters it does not accept a function has no step,  *)
(* and nothing to come back to.                                            *)
LEMMA NoStep ==
    ASSUME NEW P, NEW c, P.steps[c] = <<>>
    PROVE  ComesBack(P, c) /\ Remembers(P, c)
  <1>1. P.steps[c] \in Seq(StepOf) /\ 1 .. Len(P.steps[c]) = {}
    OBVIOUS
  <1>2. QED
    BY <1>1, Zenon DEF ComesBack, Remembers

(* At its first step a function has set no local, and its entry holds      *)
(* none.                                                                   *)
LEMMA FirstStepRemembers ==
    ASSUME NEW P, NEW c, NEW l, Len(P.restores) \in 0 .. 2, P.steps[c][1].saves = <<>>
    PROVE  RemembersAt(P, c, 1, l)
  <1>1. Unset(P, c, 1, l)
    BY DEF Unset
  <1> DEFINE most == Len(P.restores)
  <1>2. \A i \in 1 .. most : i <= 2
    <2>1. most \in 0 .. 2
      OBVIOUS
    <2> HIDE DEF most
    <2>2. QED
      BY <2>1
  <1>3. \A i \in 1 .. Len(P.restores) : ~(i <= Len(P.steps[c][1].saves))
    <2>1. Len(P.steps[c][1].saves) = 0
      OBVIOUS
    <2>2. \A i \in 1 .. most : ~(i <= 0)
      <3> HIDE DEF most
      <3>1. QED
        OBVIOUS
    <2>3. QED
      BY <2>1, <2>2
  <1>4. QED
    BY <1>1, <1>2, <1>3, Zenon DEF RemembersAt

(* Local l is restored from the k-th entry of the restores alone. *)
LEMMA RestoredRemembers ==
    ASSUME NEW P, NEW c, NEW j, NEW l, NEW k \in 1 .. 2, k <= Len(P.restores),
           Len(P.restores) \in 0 .. 2, RestoresFrom(P, k, l, P.steps[c][j].pos),
           \A i \in 1 .. Len(P.restores) : P.restores[i].local = l => i = k,
           k <= Len(P.steps[c][j].saves), P.steps[c][j].saves[k] = l
    PROVE  RemembersAt(P, c, j, l)
  <1>1. k \in 1 .. Len(P.restores)
    OBVIOUS
  <1>2. ASSUME NEW i \in 1 .. Len(P.restores), RestoresFrom(P, i, l, P.steps[c][j].pos)
        PROVE  i = k
    BY <1>2 DEF RestoresFrom
  <1>3. k <= 2
    OBVIOUS
  <1>4. QED
    BY <1>1, <1>2, <1>3, Zenon DEF RemembersAt

(* Local l is neither set nor restored. *)
LEMMA UnsetRemembers ==
    ASSUME NEW P, NEW c, NEW j, NEW l, Unset(P, c, j, l),
           \A i \in 1 .. Len(P.restores) : ~RestoresFrom(P, i, l, P.steps[c][j].pos)
    PROVE  RemembersAt(P, c, j, l)
  BY Zenon DEF RemembersAt

-----------------------------------------------------------------------------
(* Functions that evaluate all their parameters *)

(* The lists of locals that the functions record *)
LEMMA SavesAreLocals ==
    <<>> \in Seq(0 .. 3) /\ << 1 >> \in Seq(0 .. 3) /\ <<1, 2>> \in Seq(0 .. 3)
  <1>1. 1 \in 0 .. 3 /\ 2 \in 0 .. 3
    OBVIOUS
  <1> HIDE DEF StepOf
  <1>2. QED
    BY <1>1

(* A fold has one step per parameter, if it accepts so many. *)
LEMMA FoldingSteps ==
    ASSUME NEW accepts, NEW restores, NEW saves \in Seq(0 .. 3),
           NEW c \in Counts, NEW steps,
           steps = Folding(accepts, restores, saves).steps[c]
    PROVE  /\ c \notin accepts => steps = <<>>
           /\ c \in accepts =>
                 /\ steps \in Seq(StepOf) /\ Len(steps) = c
                 /\ \A i \in 1 .. c : steps[i] = Step(i - 1, 1, i - 1, i - 1, saves)
  <1>1. steps = IF c \in accepts THEN [i \in 1 .. c |-> Step(i - 1, 1, i - 1, i - 1, saves)]
                                 ELSE <<>>
    BY DEF Folding, Function, EachParam
  <1>2. c \in Nat
    BY ParamsAssumption DEF Counts
  <1>3. \A i \in 1 .. c : Step(i - 1, 1, i - 1, i - 1, saves) \in StepOf
    <2>1. ASSUME NEW i \in 1 .. c
          PROVE Step(i - 1, 1, i - 1, i - 1, saves) \in StepOf
      <3>1. i - 1 \in Nat /\ 1 \in 0 .. 3
        BY <1>2
      <3>2. QED
        BY <3>1 DEF Step, StepOf
    <2>2. QED
      BY <2>1
  <1>4. CASE c \in accepts
    BY <1>1, <1>2, <1>3, <1>4
  <1>5. QED
    BY <1>1, <1>4

(* A fold comes back: the position it records is the number of the         *)
(* parameter.                                                              *)
LEMMA FoldingComesBack ==
    ASSUME NEW P, NEW accepts, NEW restores, NEW saves \in Seq(0 .. 3),
           P.steps = Folding(accepts, restores, saves).steps,
           P.accepts = accepts, P.pulls \in {"first", "accepted"},
           NEW c \in Counts
    PROVE  ComesBack(P, c)
  <1> DEFINE steps == P.steps[c]
  <1>1. c \in Nat
    BY ParamsAssumption DEF Counts
  <1>2. steps = Folding(accepts, restores, saves).steps[c]
    OBVIOUS
  <1> HIDE DEF steps
  <1>3. /\ c \notin accepts => steps = <<>>
        /\ c \in accepts =>
              /\ steps \in Seq(StepOf) /\ Len(steps) = c
              /\ \A i \in 1 .. c : steps[i] = Step(i - 1, 1, i - 1, i - 1, saves)
    BY <1>2, FoldingSteps
  <1>4. ASSUME c \in accepts, NEW i \in 1 .. c
        PROVE  LET s == steps[i]
               IN /\ s.param = i - 1 /\ s.pos = i - 1 /\ s.upTo = i - 1
                  /\ s.continued = TRUE /\ s.caught = TRUE /\ s.optional = FALSE
    <2>1. i - 1 \in Nat /\ 1 \in 0 .. 3
      BY <1>1
    <2>2. steps[i] = Step(i - 1, 1, i - 1, i - 1, saves)
      BY <1>3, <1>4
    <2>3. QED
      BY <2>1, <2>2 DEF Step
  <1>5. CASE c \in accepts
    <2>1. ASSUME NEW j \in 1 .. c, NEW i \in 1 .. j - 1
          PROVE  steps[i].upTo < steps[j].pos
      <3>1. i \in 1 .. c /\ i - 1 < j - 1
        BY <1>1
      <3>2. steps[i].upTo = i - 1 /\ steps[j].pos = j - 1
        BY <1>4, <1>5, <3>1
      <3>3. QED
        BY <3>1, <3>2
    <2>2. ASSUME NEW j \in 1 .. c
          PROVE  LET s == steps[j]
                 IN /\ s.param < c /\ s.pos <= s.upTo
                    /\ s.continued = TRUE /\ s.caught = TRUE /\ s.optional = FALSE
      <3>1. steps[j].param = j - 1
        BY <1>4, <1>5
      <3>2. steps[j].pos = j - 1 /\ steps[j].upTo = j - 1
        BY <1>4, <1>5
      <3>3. steps[j].continued = TRUE /\ steps[j].caught = TRUE /\ steps[j].optional = FALSE
        BY <1>4, <1>5
      <3>4. j - 1 < c /\ j - 1 <= j - 1
        BY <1>1
      <3>5. QED
        BY <3>1, <3>2, <3>3, <3>4
    <2>3. QED
      BY <1>3, <1>5, <2>1, <2>2 DEF ComesBack, steps
  <1>6. CASE c \notin accepts
    BY <1>3, <1>6, NoStep DEF steps
  <1>7. QED
    BY <1>5, <1>6

(* A fold that records its partial result restores it. *)
LEMMA FoldingRemembers ==
    ASSUME NEW P, NEW accepts, NEW saves \in Seq(0 .. 3), Len(saves) = 1, saves[1] = 1,
           P.steps = Folding(accepts, First, saves).steps,
           P.restores = First, NEW c \in Counts
    PROVE  Remembers(P, c)
  <1> DEFINE steps == P.steps[c]
  <1>1. c \in Nat
    BY ParamsAssumption DEF Counts
  <1>2. steps = Folding(accepts, First, saves).steps[c]
    OBVIOUS
  <1> HIDE DEF steps
  <1>3. /\ c \notin accepts => steps = <<>>
        /\ c \in accepts =>
              /\ Len(steps) = c
              /\ \A i \in 1 .. c : steps[i] = Step(i - 1, 1, i - 1, i - 1, saves)
    BY <1>2, FoldingSteps
  <1>4. CASE c \notin accepts
    BY <1>3, <1>4, NoStep DEF steps
  <1>5. CASE c \in accepts
    <2>1. ASSUME NEW j \in 1 .. c
          PROVE  steps[j].local = 1 /\ steps[j].pos \in Counts /\ steps[j].saves = saves
      <3>1. steps[j] = Step(j - 1, 1, j - 1, j - 1, saves) /\ j - 1 \in Counts
        BY <1>1, <1>3, <1>5, ParamsAssumption DEF Counts
      <3>2. QED
        BY <3>1 DEF Step
    <2>2. /\ 1 .. Len(P.restores) = {1}
          /\ P.restores[1].local = 1 /\ P.restores[1].at = Counts
      BY DEF First, Restore
    <2>3. ASSUME NEW j \in 1 .. c, NEW l \in 0 .. 3, l # 1
          PROVE  Unset(P, c, j, l)
      <3>1. \A i \in 1 .. j - 1 : i \in 1 .. c
        BY <1>1
      <3>2. QED
        BY <2>1, <2>3, <3>1 DEF Unset, steps
    <2>4. ASSUME NEW j \in 1 .. c, NEW l \in 0 .. 3
          PROVE  RemembersAt(P, c, j, l)
      <3>1. steps[j].local = 1 /\ steps[j].pos \in Counts /\ steps[j].saves = saves
        BY <2>1
      <3>2. CASE l = 1
        <4>1. RestoresFrom(P, 1, l, P.steps[c][j].pos)
          BY <2>2, <3>1, <3>2, Zenon DEF RestoresFrom, steps
        <4>2. \A i \in 1 .. Len(P.restores) : P.restores[i].local = l => i = 1
          BY <2>2, Zenon
        <4>3. 1 \in 1 .. 2 /\ 1 <= Len(P.restores) /\ Len(P.restores) \in 0 .. 2
          BY DEF First
        <4>4. 1 <= Len(P.steps[c][j].saves) /\ P.steps[c][j].saves[1] = l
          <5>1. P.steps[c][j].saves = saves
            BY <3>1, Zenon DEF steps
          <5>2. QED
            BY <3>2, <5>1
        <4>5. QED
          BY <4>1, <4>2, <4>3, <4>4, RestoredRemembers, Zenon
      <3>3. CASE l # 1
        BY <2>2, <2>3, <3>3, UnsetRemembers DEF RestoresFrom
      <3>4. QED
        BY <3>2, <3>3
    <2>5. QED
      BY <1>3, <1>5, <2>4 DEF Remembers, steps
  <1>6. QED
    BY <1>4, <1>5

-----------------------------------------------------------------------------
(* Functions of one, two and three operands *)

(* A function of one operand comes back to it. *)
LEMMA OneStep ==
    ASSUME NEW P, NEW c \in Nat, c \in P.accepts, c > 0, P.pulls \in {"first", "accepted"},
           NEW upTo \in Nat, P.steps[c] = <<Step(0, 1, 0, upTo, <<>>)>>
    PROVE  ComesBack(P, c)
  <1>1. Step(0, 1, 0, upTo, <<>>) \in StepOf
    BY SavesAreLocals DEF Step, StepOf
  <1>2. P.steps[c] \in Seq(StepOf) /\ Len(P.steps[c]) = 1
    BY <1>1
  <1>3. P.steps[c][1] = Step(0, 1, 0, upTo, <<>>)
    OBVIOUS
  <1>4. LET s == P.steps[c][1]
        IN /\ s.param = 0 /\ s.pos = 0 /\ s.upTo = upTo
           /\ s.continued = TRUE /\ s.caught = TRUE /\ s.optional = FALSE
    BY <1>3 DEF Step
  <1>5. QED
    BY <1>2, <1>4 DEF ComesBack

(* It has no value to restore. *)
LEMMA OneStepRemembers ==
    ASSUME NEW P, NEW c, Len(P.restores) \in 0 .. 2,
           NEW upTo, P.steps[c] = <<Step(0, 1, 0, upTo, <<>>)>>
    PROVE  Remembers(P, c)
  <1>1. Len(P.steps[c]) = 1 /\ P.steps[c][1].saves = <<>>
    BY DEF Step
  <1>2. QED
    BY <1>1, FirstStepRemembers DEF Remembers

(* A function that records 0 at its first operand and 1 at its second      *)
(* comes back.                                                             *)
LEMMA TwoSteps ==
    ASSUME NEW P, NEW c \in Nat, c \in P.accepts, c > 1, P.pulls \in {"first", "accepted"},
           NEW upTo \in Nat, upTo > 0, NEW saves \in Seq(0 .. 3),
           P.steps[c] = <<Step(0, 1, 0, 0, <<>>), Step(1, 2, 1, upTo, saves)>>
    PROVE  ComesBack(P, c)
  <1>1. Step(0, 1, 0, 0, <<>>) \in StepOf /\ Step(1, 2, 1, upTo, saves) \in StepOf
    BY SavesAreLocals DEF Step, StepOf
  <1>2. P.steps[c] \in Seq(StepOf) /\ Len(P.steps[c]) = 2
    BY <1>1
  <1>3. LET s == P.steps[c][1]
        IN /\ s.param = 0 /\ s.pos = 0 /\ s.upTo = 0
           /\ s.continued = TRUE /\ s.caught = TRUE /\ s.optional = FALSE
    BY DEF Step
  <1>4. LET s == P.steps[c][2]
        IN /\ s.param = 1 /\ s.pos = 1 /\ s.upTo = upTo
           /\ s.continued = TRUE /\ s.caught = TRUE /\ s.optional = FALSE
    BY DEF Step
  <1>5. ASSUME NEW j \in 1 .. 2
        PROVE  LET s == P.steps[c][j]
               IN /\ s.param < c
                  /\ s.continued = TRUE /\ s.caught = TRUE /\ s.optional = FALSE
                  /\ s.pos <= s.upTo
                  /\ \A i \in 1 .. j - 1 : P.steps[c][i].upTo < s.pos
    <2>1. CASE j = 1
      BY <1>3, <2>1
    <2>2. CASE j = 2
      <3>1. \A i \in 1 .. j - 1 : i = 1
        BY <2>2
      <3>2. \A i \in 1 .. j - 1 : P.steps[c][i].upTo < P.steps[c][2].pos
        BY <1>3, <1>4, <3>1
      <3>3. QED
        BY <1>4, <2>2, <3>2
    <2>3. j = 1 \/ j = 2
      OBVIOUS
    <2>4. QED
      BY <2>1, <2>2, <2>3, Zenon
  <1>6. QED
    BY <1>2, <1>5 DEF ComesBack

(* If it records the first value with the second operand, it restores it. *)
LEMMA TwoStepsRemember ==
    ASSUME NEW P, NEW c, NEW upTo,
           P.steps[c] = <<Step(0, 1, 0, 0, <<>>), Step(1, 2, 1, upTo, << 1 >>)>>,
           Len(P.restores) \in 1 .. 2,
           P.restores[1].local = 1, 1 \in P.restores[1].at,
           Len(P.restores) = 2 => P.restores[2].local # 1
    PROVE  Remembers(P, c)
  <1>1. /\ Len(P.steps[c]) = 2
        /\ P.steps[c][1].saves = <<>> /\ P.steps[c][1].local = 1
        /\ P.steps[c][2].saves = << 1 >> /\ P.steps[c][2].pos = 1
    BY DEF Step
  <1>2. \A l : Unset(P, c, 1, l) /\ (l # 1 => Unset(P, c, 2, l))
    BY <1>1 DEF Unset
  <1>3. ASSUME NEW l \in 0 .. 3
        PROVE  RemembersAt(P, c, 1, l)
    BY <1>1, FirstStepRemembers
  <1>4. ASSUME NEW l \in 0 .. 3
        PROVE  RemembersAt(P, c, 2, l)
    BY <1>1, <1>2 DEF RemembersAt, RestoresFrom
  <1>5. QED
    BY <1>1, <1>3, <1>4 DEF Remembers

(* The function of two parameters that evaluates the second one twice      *)
(* comes back.                                                             *)
LEMMA ThreeSteps ==
    ASSUME NEW P, NEW c \in Nat, c \in P.accepts, c > 1, P.pulls \in {"first", "accepted"},
           P.steps[c] = <<Step(0, 1, 0, 0, <<>>), Step(1, 2, 1, 1, << 1 >>),
                          Step(1, 3, 2, 2, <<1, 2>>)>>
    PROVE  ComesBack(P, c)
  <1>1. /\ Step(0, 1, 0, 0, <<>>) \in StepOf /\ Step(1, 2, 1, 1, << 1 >>) \in StepOf
        /\ Step(1, 3, 2, 2, <<1, 2>>) \in StepOf
    BY SavesAreLocals DEF Step, StepOf
  <1>2. P.steps[c] \in Seq(StepOf) /\ Len(P.steps[c]) = 3
    BY <1>1
  <1>3. \A k \in 1 .. 3 :
           LET s == P.steps[c][k]
           IN /\ s.param \in {0, 1} /\ s.pos = k - 1 /\ s.upTo = k - 1
              /\ s.continued = TRUE /\ s.caught = TRUE /\ s.optional = FALSE
    <2>1. /\ P.steps[c][1] = Step(0, 1, 0, 0, <<>>)
          /\ P.steps[c][2] = Step(1, 2, 1, 1, << 1 >>)
          /\ P.steps[c][3] = Step(1, 3, 2, 2, <<1, 2>>)
      OBVIOUS
    <2>2. QED
      BY <2>1 DEF Step
  <1>4. ASSUME NEW j \in 1 .. 3
        PROVE  LET s == P.steps[c][j]
               IN /\ s.param < c
                  /\ s.continued = TRUE /\ s.caught = TRUE /\ s.optional = FALSE
                  /\ s.pos <= s.upTo
                  /\ \A i \in 1 .. j - 1 : P.steps[c][i].upTo < s.pos
    <2>1. LET s == P.steps[c][j]
          IN /\ s.param < c /\ s.pos <= s.upTo
             /\ s.continued = TRUE /\ s.caught = TRUE /\ s.optional = FALSE
      BY <1>3
    <2>2. ASSUME NEW i \in 1 .. j - 1
          PROVE  P.steps[c][i].upTo < P.steps[c][j].pos
      <3>1. i \in 1 .. 3 /\ i - 1 < j - 1
        OBVIOUS
      <3>2. P.steps[c][i].upTo = i - 1 /\ P.steps[c][j].pos = j - 1
        BY <1>3, <3>1
      <3>3. QED
        BY <3>1, <3>2
    <2>3. QED
      BY <2>1, <2>2
  <1>5. QED
    BY <1>2, <1>4 DEF ComesBack

(* It restores both values. *)
LEMMA ThreeStepsRemember ==
    ASSUME NEW P, NEW c, P.restores = RestoreBoth,
           P.steps[c] = <<Step(0, 1, 0, 0, <<>>), Step(1, 2, 1, 1, << 1 >>),
                          Step(1, 3, 2, 2, <<1, 2>>)>>
    PROVE  Remembers(P, c)
  <1>1. /\ Len(P.steps[c]) = 3
        /\ P.steps[c][1].saves = <<>> /\ P.steps[c][1].local = 1 /\ P.steps[c][1].pos = 0
        /\ P.steps[c][2].saves = << 1 >> /\ P.steps[c][2].local = 2 /\ P.steps[c][2].pos = 1
        /\ P.steps[c][3].saves = <<1, 2>> /\ P.steps[c][3].pos = 2
    BY DEF Step
  <1>2. \A l : /\ Unset(P, c, 1, l) /\ (l # 1 => Unset(P, c, 2, l))
               /\ (l \notin {1, 2} => Unset(P, c, 3, l))
    BY <1>1 DEF Unset
  <1>3. /\ Len(P.restores) = 2
        /\ P.restores[1].local = 1 /\ P.restores[2].local = 2
        /\ 0 \notin P.restores[1].at /\ 1 \in P.restores[1].at /\ 2 \in P.restores[1].at
        /\ 0 \notin P.restores[2].at /\ 1 \notin P.restores[2].at /\ 2 \in P.restores[2].at
    BY ParamsAssumption DEF RestoreBoth, Restore, Counts
  <1>4. ASSUME NEW l \in 0 .. 3
        PROVE  RemembersAt(P, c, 1, l)
    BY <1>1, <1>3, FirstStepRemembers
  <1>5. ASSUME NEW l \in 0 .. 3
        PROVE  RemembersAt(P, c, 2, l)
    BY <1>1, <1>2, <1>3 DEF RemembersAt, RestoresFrom
  <1>6. ASSUME NEW l \in 0 .. 3
        PROVE  RemembersAt(P, c, 3, l)
    <2>1. CASE l \in {1, 2}
      <3>1. /\ RestoresFrom(P, l, l, P.steps[c][3].pos)
            /\ Len(P.steps[c][3].saves) = 2 /\ P.steps[c][3].saves[l] = l
        BY <1>1, <1>3, <2>1 DEF RestoresFrom
      <3>2. \A i \in 1 .. Len(P.restores) : P.restores[i].local = l => i = l
        BY <1>3
      <3>3. /\ l \in 1 .. 2 /\ l <= Len(P.restores) /\ Len(P.restores) \in 0 .. 2
            /\ l <= Len(P.steps[c][3].saves)
        BY <1>3, <2>1, <3>1
      <3>4. QED
        BY <3>1, <3>2, <3>3, RestoredRemembers, Zenon
    <2>2. CASE l \notin {1, 2}
      BY <1>2, <1>3, <2>2, UnsetRemembers DEF RestoresFrom
    <2>3. QED
      BY <2>1, <2>2
  <1>7. QED
    BY <1>1, <1>4, <1>5, <1>6 DEF Remembers
-----------------------------------------------------------------------------
(* The functions *)

(* The protocols of the comparisons, assignments, string tests and lists *)
LEMMA TwoOperandFunctions ==
    ASSUME NEW op \in {"equal", "equalCaseInsensitive", "notequal", "lessthan",
                       "lessorequal", "greaterthan", "greaterorequal", "setvar",
                       "setfield", "startswith", "endswith", "has_prefix",
                       "has_suffix", "regex", "namedlist_add", "namedlist_remove",
                       "namedlist_contains"}
    PROVE  Protocol[op] = TwoOperands
  BY DEF Protocol, Equal, EqualCaseInsensitive, NotEqual, LessThan, LessOrEqual,
         GreaterThan, GreaterOrEqual, SetVar, SetField, StartsWith, EndsWith,
         HasPrefix, HasSuffix, Regex, NamedlistAdd, NamedlistRemove, NamedlistContains

(* The protocols of the folds *)
LEMMA FoldFunctions ==
    /\ Protocol["add"] = Add /\ Protocol["dot"] = Dot /\ Protocol["and"] = And
    /\ \A op \in {"or", "xor", "sub", "mul", "div", "modulo"} :
           Protocol[op] = LosingFold
  BY DEF Protocol, Or, Xor, Subtract, Multiply, Divide, Modulo

(* The protocols of the bit operators *)
LEMMA BitFunctions ==
    /\ \A op \in {"bit_or", "bit_xor", "bit_shiftleft", "bit_shiftright"} :
           Protocol[op] = BitOperands(<< 1 >>)
    /\ Protocol["bit_and"] = BitOperands(<<>>)
  BY DEF Protocol, BitOr, BitXor, BitShiftLeft, BitShiftRight, BitAnd

(* The protocols of the functions of one operand *)
LEMMA OneOperandFunctions ==
    /\ \A op \in {"int", "longlong", "double", "string", "data"} :
           Protocol[op] = Conversion
    /\ Protocol["not"] = OneOperand(Counts \ {0}, "accepted")
    /\ \A op \in {"bit_not", "getfield"} : Protocol[op] = OneOperand({1}, "first")
    /\ Protocol["country_of"] = CountryOf
  BY DEF Protocol, IntOf, LongLong, Double, StringOf, Data, Not, BitNot, GetField

(* The protocols of the others *)
LEMMA OtherFunctions ==
    /\ Protocol["substr"] = Substr /\ Protocol["stringCompare"] = StringCompare
    /\ Protocol["datetime"] = DateTime /\ Protocol["hash"] = Hash
    /\ \A op \in {"addressOf", "castTo", "external"} : Protocol[op] = NoOperand
    /\ Protocol["starIdentifier"] = StarIdentifier
  BY DEF Protocol, AddressOf, CastTo, External

(* The functions that do not start over are those of the lemmas above. *)
LEMMA ThoseThatComeBack ==
    DOMAIN Protocol \ StartingOver =
       {"add", "dot", "and"} \cup {"or", "xor", "sub", "mul", "div", "modulo"}
       \cup {"equal", "equalCaseInsensitive", "notequal", "lessthan", "lessorequal",
             "greaterthan", "greaterorequal", "setvar", "setfield", "startswith",
             "endswith", "has_prefix", "has_suffix", "regex", "namedlist_add",
             "namedlist_remove", "namedlist_contains"}
       \cup {"bit_or", "bit_xor", "bit_shiftleft", "bit_shiftright"} \cup {"bit_and"}
       \cup {"int", "longlong", "double", "string", "data"}
       \cup {"not", "bit_not", "getfield", "country_of"}
       \cup {"substr", "stringCompare", "datetime", "hash"}
       \cup {"addressOf", "castTo", "external"} \cup {"starIdentifier"}
  BY DEF Protocol, StartingOver

(* The families, one lemma each: P is the protocol of the function. *)
LEMMA LosingFoldComesBack ==
    ASSUME NEW P, P = LosingFold, NEW c \in Counts
    PROVE  ComesBack(P, c)
  <1>1. /\ P.steps = Folding(Counts, First, <<>>).steps
        /\ P.accepts = Counts /\ P.pulls = "first"
    BY DEF LosingFold, Folding, Function
  <1>2. QED
    BY <1>1, SavesAreLocals, FoldingComesBack

(* Add comes back and restores its sum. *)
LEMMA AddComesBack ==
    ASSUME NEW P, P = Add, NEW c \in Counts
    PROVE  ComesBack(P, c) /\ Remembers(P, c)
  <1>1. /\ P.steps = Folding(Counts, First, << 1 >>).steps
        /\ P.accepts = Counts /\ P.pulls = "first" /\ P.restores = First
    BY DEF Add, Folding, Function
  <1>2. Len(<< 1 >>) = 1 /\ << 1 >>[1] = 1
    OBVIOUS
  <1>3. ComesBack(P, c)
    BY <1>1, SavesAreLocals, FoldingComesBack
  <1>4. Remembers(P, c)
    BY <1>1, <1>2, SavesAreLocals, FoldingRemembers
  <1>5. QED
    BY <1>3, <1>4

(* The logical and comes back and restores its truth value. *)
LEMMA AndComesBack ==
    ASSUME NEW P, P = And, NEW c \in Counts
    PROVE  ComesBack(P, c) /\ Remembers(P, c)
  <1>1. /\ P.steps = Folding(Counts \ {0, 1}, First, << 1 >>).steps
        /\ P.accepts = Counts \ {0, 1} /\ P.pulls = "accepted" /\ P.restores = First
    BY DEF And, Folding, Function
  <1>2. Len(<< 1 >>) = 1 /\ << 1 >>[1] = 1
    OBVIOUS
  <1>3. ComesBack(P, c)
    BY <1>1, SavesAreLocals, FoldingComesBack
  <1>4. Remembers(P, c)
    BY <1>1, <1>2, SavesAreLocals, FoldingRemembers
  <1>5. QED
    BY <1>3, <1>4

(* Dot comes back, but restores nothing. *)
LEMMA DotComesBack ==
    ASSUME NEW P, P = Dot, NEW c \in Counts
    PROVE  ComesBack(P, c)
  <1>1. /\ P.steps = Folding(Counts, <<>>, <<>>).steps
        /\ P.accepts = Counts /\ P.pulls = "first"
    BY DEF Dot, Folding, Function
  <1>2. QED
    BY <1>1, SavesAreLocals, FoldingComesBack

(* Functions of two operands come back. *)
LEMMA OperandsComeBack ==
    ASSUME NEW P, NEW restores, NEW saves \in Seq(0 .. 3),
           P = Operands(restores, saves), NEW c \in Counts
    PROVE  ComesBack(P, c)
  <1>1. /\ P.accepts = {2} /\ P.pulls = "accepted"
        /\ P.steps[c] = IF c \in {2} THEN <<Step(0, 1, 0, 0, <<>>),
                                            Step(1, 2, 1, Always, saves)>>
                                     ELSE <<>>
    BY DEF Operands, Function, TheSteps
  <1>2. Always \in Nat /\ Always > 0
    BY ParamsAssumption DEF Always
  <1>3. CASE c = 2
    <2>1. P.steps[c] = <<Step(0, 1, 0, 0, <<>>), Step(1, 2, 1, Always, saves)>>
      BY <1>1, <1>3, Zenon
    <2>2. c \in P.accepts /\ c > 1 /\ c \in Nat /\ P.pulls \in {"first", "accepted"}
      BY <1>1, <1>3
    <2>3. QED
      BY <1>2, <2>1, <2>2, TwoSteps, Zenon
  <1>4. CASE c # 2
    <2>1. P.steps[c] = <<>>
      BY <1>1, <1>4, Zenon
    <2>2. QED
      BY <2>1, NoStep
  <1>5. QED
    BY <1>3, <1>4

(* They restore the first value. *)
LEMMA OperandsRemember ==
    ASSUME NEW P, NEW restores, P = Operands(restores, << 1 >>), NEW c \in Counts,
           restores = First \/ restores = <<Restore(1, {1})>>
    PROVE  Remembers(P, c)
  <1>1. /\ P.restores = restores
        /\ P.steps[c] = IF c \in {2} THEN <<Step(0, 1, 0, 0, <<>>),
                                            Step(1, 2, 1, Always, << 1 >>)>>
                                     ELSE <<>>
    BY DEF Operands, Function, TheSteps
  <1>2. /\ Len(restores) = 1 /\ restores[1].local = 1 /\ 1 \in restores[1].at
    BY ParamsAssumption DEF First, Restore, Counts
  <1>3. Len(restores) \in 1 .. 2 /\ Len(restores) # 2
    BY <1>2
  <1>4. CASE c = 2
    <2>1. P.steps[c] = <<Step(0, 1, 0, 0, <<>>), Step(1, 2, 1, Always, << 1 >>)>>
      BY <1>1, <1>4, Zenon
    <2>2. QED
      BY <1>1, <1>2, <1>3, <2>1, TwoStepsRemember, Zenon
  <1>5. CASE c # 2
    <2>1. P.steps[c] = <<>>
      BY <1>1, <1>5, Zenon
    <2>2. QED
      BY <2>1, NoStep
  <1>6. QED
    BY <1>4, <1>5

(* A function of one operand *)
OfOneStep(accepts, pulls, restores, upTo) ==
    Function(accepts, pulls, restores, TheSteps(<<Step(0, 1, 0, upTo, <<>>)>>))

(* Functions of one operand come back and have nothing to restore. *)
LEMMA OneOperandComesBack ==
    ASSUME NEW P, NEW accepts, NEW pulls \in {"first", "accepted"}, NEW upTo \in Nat,
           NEW restores, Len(restores) \in 0 .. 2, 0 \notin accepts,
           NEW F, F = OfOneStep(accepts, pulls, restores, upTo),
           P = F \/ P = [F EXCEPT !.raises = {0}],
           NEW c \in Counts
    PROVE  ComesBack(P, c) /\ Remembers(P, c)
  <1>1. /\ P.accepts = F.accepts /\ P.pulls = F.pulls
        /\ P.restores = F.restores /\ P.steps = F.steps
    BY DEF OfOneStep, Function
  <1>2. /\ F.accepts = accepts /\ F.pulls = pulls /\ F.restores = restores
        /\ F.steps[c] = IF c \in accepts THEN <<Step(0, 1, 0, upTo, <<>>)>> ELSE <<>>
    BY DEF OfOneStep, Function, TheSteps
  <1>3. c \in Nat
    BY ParamsAssumption DEF Counts
  <1>4. CASE c \in accepts
    <2>1. P.steps[c] = <<Step(0, 1, 0, upTo, <<>>)>>
      BY <1>1, <1>2, <1>4, Zenon
    <2>2. c > 0 /\ c \in P.accepts /\ P.pulls \in {"first", "accepted"}
      BY <1>1, <1>2, <1>3, <1>4
    <2>3. Len(P.restores) \in 0 .. 2
      BY <1>1, <1>2, Zenon
    <2>4. QED
      BY <1>3, <2>1, <2>2, <2>3, OneStep, OneStepRemembers, Zenon
  <1>5. CASE c \notin accepts
    <2>1. P.steps[c] = <<>>
      BY <1>1, <1>2, <1>5, Zenon
    <2>2. QED
      BY <2>1, NoStep
  <1>6. QED
    BY <1>4, <1>5

(* So do functions without steps. *)
LEMMA NoOperandComesBack ==
    ASSUME NEW P, P = NoOperand \/ P = StarIdentifier, NEW c \in Counts
    PROVE  ComesBack(P, c) /\ Remembers(P, c)
  <1>1. P.steps[c] = <<>>
    BY DEF NoOperand, StarIdentifier, Function, TheSteps
  <1>2. QED
    BY <1>1, NoStep

(* All functions of one operand come back. *)
LEMMA OneOperandFunctionsComeBack ==
    ASSUME NEW op \in {"int", "longlong", "double", "string", "data",
                       "not", "bit_not", "getfield", "country_of"}, NEW c \in Counts
    PROVE  ComesBack(Protocol[op], c) /\ Remembers(Protocol[op], c)
  <1>1. Always \in Nat /\ 0 \in Nat /\ 0 \notin Counts \ {0} /\ 0 \notin {1}
    BY ParamsAssumption DEF Always
  <1>2. Len(<<>>) \in 0 .. 2 /\ Len(First) \in 0 .. 2
    BY DEF First
  <1>3. CASE op \in {"int", "longlong", "double", "string", "data"}
    <2>1. Protocol[op] = [OneOperand(Counts \ {0}, "first") EXCEPT !.raises = {0}]
      BY <1>3, OneOperandFunctions, Zenon DEF Conversion
    <2>2. QED
      BY <1>1, <1>2, <2>1, OneOperandComesBack DEF OneOperand, OfOneStep
  <1>4. CASE op = "not"
    BY <1>1, <1>2, <1>4, OneOperandFunctions, OneOperandComesBack DEF OneOperand, OfOneStep
  <1>5. CASE op \in {"bit_not", "getfield"}
    BY <1>1, <1>2, <1>5, OneOperandFunctions, OneOperandComesBack DEF OneOperand, OfOneStep
  <1>6. CASE op = "country_of"
    BY <1>1, <1>2, <1>6, OneOperandFunctions, OneOperandComesBack DEF CountryOf, OfOneStep
  <1>7. QED
    BY <1>3, <1>4, <1>5, <1>6

(* Substr comes back and restores its values, unless it has three          *)
(* parameters.                                                             *)
LEMMA SubstrComesBack ==
    ASSUME NEW P, P = Substr, NEW c \in Counts, c # 3
    PROVE  ComesBack(P, c) /\ Remembers(P, c)
  <1>1. /\ P.accepts = {2, 3} /\ P.pulls = "accepted"
        /\ P.restores = <<Restore(1, Counts), Restore(3, Counts)>>
        /\ c = 2 => P.steps[c] = <<Step(0, 1, 0, 0, <<>>), Step(1, 2, 1, 1, << 1 >>)>>
        /\ c # 2 => P.steps[c] = <<>>
    BY DEF Substr, Function
  <1>2. CASE c = 2
    <2>1. /\ Len(P.restores) = 2 /\ P.restores[1].local = 1
          /\ 1 \in P.restores[1].at /\ P.restores[2].local # 1
      BY <1>1, ParamsAssumption DEF Restore, Counts
    <2>2. P.steps[c] = <<Step(0, 1, 0, 0, <<>>), Step(1, 2, 1, 1, << 1 >>)>>
      BY <1>1, <1>2, Zenon
    <2>3. /\ c \in P.accepts /\ c > 1 /\ c \in Nat /\ P.pulls \in {"first", "accepted"}
          /\ 1 \in Nat /\ 1 > 0
      BY <1>1, <1>2
    <2>4. ComesBack(P, c)
      BY <2>2, <2>3, SavesAreLocals, TwoSteps, Zenon
    <2>5. Len(P.restores) \in 1 .. 2
      BY <2>1
    <2>6. Remembers(P, c)
      BY <2>1, <2>2, <2>5, TwoStepsRemember, Zenon
    <2>7. QED
      BY <2>4, <2>6
  <1>3. CASE c # 2
    BY <1>1, <1>3, NoStep
  <1>4. QED
    BY <1>2, <1>3

(* Stringcompare comes back and restores the first string. *)
LEMMA StringCompareComesBack ==
    ASSUME NEW P, P = StringCompare, NEW c \in Counts
    PROVE  ComesBack(P, c) /\ Remembers(P, c)
  <1>1. /\ P.accepts = Counts \ {0, 1} /\ P.pulls = "accepted" /\ P.restores = First
        /\ P.steps[c] = IF c \in {0, 1, 3} THEN <<>>
                        ELSE <<Step(0, 1, 0, 0, <<>>), Step(1, 2, 1, Always, << 1 >>)>>
    <2>1. 2 \in Counts
      BY ParamsAssumption DEF Counts
    <2>2. TwoOperands.steps[2] = <<Step(0, 1, 0, 0, <<>>), Step(1, 2, 1, Always, << 1 >>)>>
      BY <2>1 DEF TwoOperands, Operands, Function, TheSteps
    <2>3. QED
      BY <2>2 DEF StringCompare, Function
  <1>2. CASE c \notin {0, 1, 3}
    <2>1. /\ Len(First) = 1 /\ First[1].local = 1 /\ 1 \in First[1].at
      BY ParamsAssumption DEF First, Restore, Counts
    <2>2. P.steps[c] = <<Step(0, 1, 0, 0, <<>>), Step(1, 2, 1, Always, << 1 >>)>>
      BY <1>1, <1>2, Zenon
    <2>3. /\ c \in P.accepts /\ c > 1 /\ c \in Nat /\ P.pulls \in {"first", "accepted"}
          /\ Always \in Nat /\ Always > 0
      BY <1>1, <1>2, ParamsAssumption DEF Counts, Always
    <2>4. ComesBack(P, c)
      BY <2>2, <2>3, SavesAreLocals, TwoSteps, Zenon
    <2>5. Len(First) \in 1 .. 2 /\ Len(First) # 2
      BY <2>1
    <2>6. Remembers(P, c)
      BY <1>1, <2>1, <2>2, <2>5, TwoStepsRemember, Zenon
    <2>7. QED
      BY <2>4, <2>6
  <1>3. CASE c \in {0, 1, 3}
    BY <1>1, <1>3, NoStep
  <1>4. QED
    BY <1>2, <1>3

(* Datetime comes back and restores both values. *)
LEMMA DateTimeComesBack ==
    ASSUME NEW P, P = DateTime, NEW c \in Counts
    PROVE  ComesBack(P, c) /\ Remembers(P, c)
  <1>1. /\ P.accepts = Counts \ {0, 1, 2} /\ P.pulls = "accepted"
        /\ P.restores = RestoreBoth
        /\ P.steps[c] = IF c \in {0, 1, 2} THEN <<>>
                        ELSE <<Step(0, 1, 0, 0, <<>>), Step(1, 2, 1, 1, << 1 >>),
                               Step(1, 3, 2, 2, <<1, 2>>)>>
    BY DEF DateTime, Function, TheSteps, Counts
  <1>2. CASE c \notin {0, 1, 2}
    <2>1. P.steps[c] = <<Step(0, 1, 0, 0, <<>>), Step(1, 2, 1, 1, << 1 >>),
                         Step(1, 3, 2, 2, <<1, 2>>)>>
      BY <1>1, <1>2, Zenon
    <2>2. /\ c \in P.accepts /\ c > 1 /\ c \in Nat /\ P.pulls \in {"first", "accepted"}
      BY <1>1, <1>2, ParamsAssumption DEF Counts
    <2>3. ComesBack(P, c)
      BY <2>1, <2>2, ThreeSteps, Zenon
    <2>4. Remembers(P, c)
      BY <1>1, <2>1, ThreeStepsRemember, Zenon
    <2>5. QED
      BY <2>3, <2>4
  <1>3. CASE c \in {0, 1, 2}
    BY <1>1, <1>3, NoStep
  <1>4. QED
    BY <1>2, <1>3

(* Hash comes back and restores the first value. *)
LEMMA HashComesBack ==
    ASSUME NEW P, P = Hash, NEW c \in Counts
    PROVE  ComesBack(P, c) /\ Remembers(P, c)
  <1>1. /\ P.accepts = {2} /\ P.pulls = "accepted" /\ P.restores = RestoreBoth
        /\ P.steps[c] = IF c = 2 THEN <<Step(0, 1, 0, 0, <<>>), Step(1, 2, 1, 1, << 1 >>)>>
                        ELSE <<>>
    BY DEF Hash, Function, TheSteps, Counts
  <1>2. CASE c = 2
    <2>1. /\ Len(RestoreBoth) = 2 /\ RestoreBoth[1].local = 1
          /\ 1 \in RestoreBoth[1].at /\ RestoreBoth[2].local # 1
      BY ParamsAssumption DEF RestoreBoth, Restore, Counts
    <2>2. P.steps[c] = <<Step(0, 1, 0, 0, <<>>), Step(1, 2, 1, 1, << 1 >>)>>
      BY <1>1, <1>2, Zenon
    <2>3. /\ c \in P.accepts /\ c > 1 /\ c \in Nat /\ P.pulls \in {"first", "accepted"}
          /\ 1 \in Nat /\ 1 > 0
      BY <1>1, <1>2
    <2>4. ComesBack(P, c)
      BY <2>2, <2>3, SavesAreLocals, TwoSteps, Zenon
    <2>5. Len(RestoreBoth) \in 1 .. 2
      BY <2>1
    <2>6. Remembers(P, c)
      BY <1>1, <2>1, <2>2, <2>5, TwoStepsRemember, Zenon
    <2>7. QED
      BY <2>4, <2>6
  <1>3. CASE c # 2
    BY <1>1, <1>3, NoStep
  <1>4. QED
    BY <1>2, <1>3

-----------------------------------------------------------------------------
(* Every function but those listed in StartingOver comes back to the       *)
(* parameter it was interrupted at (substr with two parameters only).      *)
THEOREM FunctionsComeBack ==
    ASSUME NEW op \in DOMAIN Protocol \ StartingOver, NEW c \in Counts,
           ~(op = "substr" /\ c = 3)
    PROVE  ComesBack(Protocol[op], c)
  <1>1. CASE op \in {"add", "dot", "and"}
    BY <1>1, FoldFunctions, AddComesBack, DotComesBack, AndComesBack
  <1>2. CASE op \in {"or", "xor", "sub", "mul", "div", "modulo"}
    BY <1>2, FoldFunctions, LosingFoldComesBack
  <1>3. CASE op \in {"equal", "equalCaseInsensitive", "notequal", "lessthan", "lessorequal",
                    "greaterthan", "greaterorequal", "setvar", "setfield", "startswith",
                    "endswith", "has_prefix", "has_suffix", "regex", "namedlist_add",
                    "namedlist_remove", "namedlist_contains"}
    BY <1>3, TwoOperandFunctions, OperandsComeBack, SavesAreLocals DEF TwoOperands
  <1>4. CASE op \in {"bit_or", "bit_xor", "bit_shiftleft", "bit_shiftright"}
    BY <1>4, BitFunctions, OperandsComeBack, SavesAreLocals DEF BitOperands
  <1>5. CASE op = "bit_and"
    BY <1>5, BitFunctions, OperandsComeBack, SavesAreLocals DEF BitOperands
  <1>6. CASE op \in {"int", "longlong", "double", "string", "data",
                    "not", "bit_not", "getfield", "country_of"}
    BY <1>6, OneOperandFunctionsComeBack
  <1>7. CASE op \in {"substr", "stringCompare", "datetime", "hash"}
    BY <1>7, OtherFunctions, SubstrComesBack, StringCompareComesBack, DateTimeComesBack,
       HashComesBack
  <1>8. CASE op \in {"addressOf", "castTo", "external", "starIdentifier"}
    BY <1>8, OtherFunctions, NoOperandComesBack
  <1>9. QED
    BY <1>1, <1>2, <1>3, <1>4, <1>5, <1>6, <1>7, <1>8, ThoseThatComeBack

(* And every one of them but those listed in Losing restores the values it *)
(* had computed.                                                           *)
THEOREM FunctionsRemember ==
    ASSUME NEW op \in (DOMAIN Protocol \ StartingOver) \ Losing, NEW c \in Counts,
           ~(op = "substr" /\ c = 3)
    PROVE  Remembers(Protocol[op], c)
  <1>1. CASE op \in {"add", "and"}
    BY <1>1, FoldFunctions, AddComesBack, AndComesBack
  <1>3. CASE op \in {"equal", "equalCaseInsensitive", "notequal", "lessthan", "lessorequal",
                    "greaterthan", "greaterorequal", "setvar", "setfield", "startswith",
                    "endswith", "has_prefix", "has_suffix", "regex", "namedlist_add",
                    "namedlist_remove", "namedlist_contains"}
    BY <1>3, TwoOperandFunctions, OperandsRemember DEF TwoOperands
  <1>4. CASE op \in {"bit_or", "bit_xor", "bit_shiftleft", "bit_shiftright"}
    BY <1>4, BitFunctions, OperandsRemember DEF BitOperands
  <1>6. CASE op \in {"int", "longlong", "double", "string", "data",
                    "not", "bit_not", "getfield", "country_of"}
    BY <1>6, OneOperandFunctionsComeBack
  <1>7. CASE op \in {"substr", "stringCompare", "datetime", "hash"}
    BY <1>7, OtherFunctions, SubstrComesBack, StringCompareComesBack, DateTimeComesBack,
       HashComesBack
  <1>8. CASE op \in {"addressOf", "castTo", "external", "starIdentifier"}
    BY <1>8, OtherFunctions, NoOperandComesBack
  <1>9. QED
    BY <1>1, <1>3, <1>4, <1>6, <1>7, <1>8, ThoseThatComeBack DEF Losing

(* There are no more values to restore than an entry holds. *)
LEMMA RestoresAreTwo ==
    ASSUME NEW op \in DOMAIN Protocol \ StartingOver
    PROVE  Len(Protocol[op].restores) \in 0 .. 2
  <1>1. /\ Len(First) = 1 /\ Len(<<>>) = 0 /\ Len(RestoreBoth) = 2
        /\ Len(<<Restore(1, {1})>>) = 1
        /\ Len(<<Restore(1, Counts), Restore(3, Counts)>>) = 2
    BY DEF First, RestoreBoth
  <1>2. CASE op \in {"add", "dot", "and", "or", "xor", "sub", "mul", "div", "modulo"}
    <2>1. LosingFold.restores = First /\ Add.restores = First
      BY DEF LosingFold, Add, Folding, Function
    <2>2. And.restores = First /\ Dot.restores = <<>>
      BY DEF And, Dot, Folding, Function
    <2>3. QED
      BY <1>1, <1>2, <2>1, <2>2, FoldFunctions
  <1>3. CASE op \in {"equal", "equalCaseInsensitive", "notequal", "lessthan", "lessorequal",
                    "greaterthan", "greaterorequal", "setvar", "setfield", "startswith",
                    "endswith", "has_prefix", "has_suffix", "regex", "namedlist_add",
                    "namedlist_remove", "namedlist_contains"}
    <2>1. Protocol[op].restores = First
      BY <1>3, TwoOperandFunctions DEF TwoOperands, Operands, Function
    <2>2. QED
      BY <1>1, <2>1
  <1>4. CASE op \in {"bit_or", "bit_xor", "bit_shiftleft", "bit_shiftright", "bit_and"}
    <2>1. Protocol[op].restores = <<Restore(1, {1})>>
      BY <1>4, BitFunctions DEF BitOperands, Operands, Function
    <2>2. QED
      BY <1>1, <2>1
  <1>5. CASE op \in {"int", "longlong", "double", "string", "data",
                    "not", "bit_not", "getfield", "country_of"}
    <2>1. /\ Conversion.restores = <<>> /\ CountryOf.restores = First
          /\ OneOperand(Counts \ {0}, "accepted").restores = <<>>
          /\ OneOperand({1}, "first").restores = <<>>
      BY DEF Conversion, CountryOf, OneOperand, Function
    <2>2. QED
      BY <1>1, <1>5, <2>1, OneOperandFunctions
  <1>6. CASE op \in {"substr", "stringCompare", "datetime", "hash"}
    <2>1. Substr.restores = <<Restore(1, Counts), Restore(3, Counts)>>
      BY DEF Substr, Function
    <2>2. StringCompare.restores = First
      BY DEF StringCompare, Function
    <2>3. DateTime.restores = RestoreBoth /\ Hash.restores = RestoreBoth
      BY DEF DateTime, Hash, Function
    <2>4. CASE op = "substr"
      <3>1. Len(Protocol[op].restores) = 2
        BY <1>1, <2>1, <2>4, OtherFunctions, Zenon
      <3>2. QED
        BY <3>1
    <2>5. CASE op # "substr"
      BY <1>1, <1>6, <2>2, <2>3, <2>5, OtherFunctions
    <2>6. QED
      BY <2>4, <2>5
  <1>7. CASE op \in {"addressOf", "castTo", "external", "starIdentifier"}
    <2>1. Protocol[op].restores = <<>>
      BY <1>7, OtherFunctions DEF NoOperand, StarIdentifier, Function
    <2>2. QED
      BY <1>1, <2>1
  <1>8. QED
    BY <1>2, <1>3, <1>4, <1>5, <1>6, <1>7, ThoseThatComeBack
=============================================================================

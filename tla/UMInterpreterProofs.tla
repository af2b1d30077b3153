------------------------ MODULE UMInterpreterProofs ------------------------
(***************************************************************************)
(* Proofs about UMInterpreter: the type invariant and the balance of the   *)
(* stack of frames hold in every reachable state, for every set of         *)
(* scripts, every behaviour of the host functions and both kinds of        *)
(* environment (with and without a stack).                                 *)
(*                                                                         *)
(* Neither is inductive as it stands.  IInv adds Quiet, without which a    *)
(* run could begin on top of the activations of another one, and ArityOK,  *)
(* without which a function could evaluate a parameter its term does not   *)
(* have.  CoreInv is what control rests on (activations, focus, stack),    *)
(* DataInv the rest; most lemmas show that one way an activation ends or   *)
(* goes on preserves CoreInv, and one lemma for each group of actions puts *)
(* the two together.                                                       *)
(***************************************************************************)
EXTENDS UMInterpreter, WellFoundedInduction, SequenceTheorems, TLAPS

(* No activation outlives the run it belongs to. *)
Quiet == status # "running" => calls = <<>>

(* The checks on the number of parameters a function makes when it is      *)
(* entered, which its later steps rely on. *)
FitsArity(a) ==
    LET n == Len(prog[a.node].args) IN
    /\ prog[a.node].op = "if" => n >= 2
    /\ prog[a.node].op \in {"while", "dowhile", "switch", "setvar", "binary"} => n = 2
    /\ prog[a.node].op = "for" => n = 4
    /\ prog[a.node].op = "and" => n >= 2

ArityOK == \A j \in 1 .. Len(calls) : calls[j].pc # "enter" => FitsArity(calls[j])

CoreInv ==
    /\ prog \in Programs
    /\ hasStack \in BOOLEAN
    /\ stackFrames \in Seq(1 .. Len(prog))
    /\ currentFrame \in (1 .. Len(prog)) \cup {NoFrame}
    /\ calls \in Seq(Activation)
    /\ focus \in Focus
    /\ status \in {"idle", "running", "suspended", "done"}
    /\ result \in Value
    /\ hist.base \in Nat
    /\ StackBalanced
    /\ Quiet
    /\ ArityOK

DataInv ==
    /\ returnValue \in Value /\ jumpTo \in Value
    /\ returnCalled \in BOOLEAN /\ breakCalled \in BOOLEAN
    /\ queue \in Seq(Entry) /\ recorded \in Seq(Entry)
    /\ hist \in History

IInv == CoreInv /\ DataInv

(* An activation has code to run. *)
Running == status = "running" /\ focus.k = "ret" /\ calls # <<>>

(* A step inside one run. *)
SameScript ==
    /\ prog' = prog
    /\ hasStack' = hasStack
    /\ hist'.base = hist.base

(* A compiled script has a root, and every term of it is well formed. *)
LEMMA ProgramFacts ==
  ASSUME CoreInv
  PROVE  /\ Len(prog) \in Nat \ {0}
         /\ 1 \in 1 .. Len(prog)
         /\ \A n \in 1 .. Len(prog) :
               /\ prog[n].op \in LeafOps \cup FunctionOps
               /\ prog[n].args \in Seq(1 .. Len(prog))
               /\ Len(prog[n].args) \in Nat
               /\ prog[n].val \in Value
  <1> DEFINE T == [op : LeafOps \cup FunctionOps, args : Seq(1 .. Len(prog)),
                   label : Value, val : Value]
  <1>1. prog \in Seq(T) /\ Len(prog) > 0
    BY ProgramAssumption DEF CoreInv, IsProgram
  <1>2. Len(prog) \in Nat \ {0} /\ 1 \in 1 .. Len(prog)
    <2> HIDE DEF T
    <2> QED BY <1>1
  <1>3. ASSUME NEW n \in 1 .. Len(prog) PROVE prog[n] \in T
    <2> HIDE DEF T
    <2> QED BY <1>1, ElementOfSeq
  <1>4. ASSUME NEW n \in 1 .. Len(prog)
        PROVE /\ prog[n].op \in LeafOps \cup FunctionOps
              /\ prog[n].args \in Seq(1 .. Len(prog))
              /\ prog[n].val \in Value
    BY <1>3
  <1>5. ASSUME NEW n \in 1 .. Len(prog) PROVE Len(prog[n].args) \in Nat
    BY <1>4, LenProperties
  <1> QED BY <1>2, <1>4, <1>5

(* The innermost activation is one, and its parameters are terms of the    *)
(* script. *)
LEMMA TopFacts ==
  ASSUME CoreInv, calls # <<>>
  PROVE  /\ Len(calls) \in Nat \ {0}
         /\ Top \in Activation
         /\ Top.node \in 1 .. Len(prog) /\ Top.tmp \in Value /\ Top.pos \in Nat
         /\ Top.cont \in BOOLEAN
         /\ Args \in Seq(1 .. Len(prog)) /\ Len(Args) \in Nat
         /\ \A k \in Nat : k < Len(Args) => Args[k + 1] \in 1 .. Len(prog)
  <1>1. calls \in Seq(Activation)
    BY DEF CoreInv
  <1>2. Len(calls) \in Nat \ {0} /\ Top \in Activation
    BY <1>1 DEF Top
  <1>3. Top.node \in 1 .. Len(prog) /\ Top.tmp \in Value /\ Top.pos \in Nat /\ Top.cont \in BOOLEAN
    BY <1>2 DEF Activation
  <1>4. Args \in Seq(1 .. Len(prog)) /\ Len(Args) \in Nat
    BY <1>3, ProgramFacts DEF Args
  <1>5. \A k \in Nat : k < Len(Args) => Args[k + 1] \in 1 .. Len(prog)
    <2> SUFFICES ASSUME NEW k \in Nat, k < Len(Args) PROVE Args[k+1] \in 1 .. Len(prog)
      OBVIOUS
    <2>1. k + 1 \in 1 .. Len(Args) BY <1>4
    <2> QED BY <1>4, <2>1, ElementOfSeq
  <1> QED BY <1>2, <1>3, <1>4, <1>5

(* An activation that goes on at another place, its frame untouched,       *)
(* keeps CoreInv. *)
LEMMA ContinuesCore ==
  ASSUME CoreInv, status = "running", focus.k = "ret", calls # <<>>, SameScript,
         NEW pc \in Pcs, NEW pos \in Nat, NEW tmp \in Value,
         Continues(pc, pos, tmp), FitsArity(Top),
         focus' \in Focus, focus'.k # "intr",
         UNCHANGED <<stackVars, runVars>>
  PROVE  CoreInv'
  <1> DEFINE a == [node |-> Top.node, pc |-> pc, pos |-> pos, tmp |-> tmp,
                   cont |-> Top.cont]
  <1>1. a \in Activation
    BY TopFacts DEF Activation
  <1>2. Len(calls) \in 1 .. Len(calls) /\ calls \in Seq(Activation)
    BY TopFacts DEF CoreInv
  <1>3. calls' = [calls EXCEPT ![Len(calls)] = a]
    BY DEF Continues
  <1> HIDE DEF a
  <1>4. /\ calls' \in Seq(Activation)
        /\ Len(calls') = Len(calls)
        /\ \A j \in 1 .. Len(calls) :
              calls'[j] = IF j = Len(calls) THEN a ELSE calls[j]
    BY <1>1, <1>2, <1>3, ExceptSeq
  <1>5. (calls \in Seq(Activation))'
    BY <1>4 DEF Activation, SameScript
  <1>6. \A j \in 1 .. Len(calls) : calls'[j].node = calls[j].node
    BY <1>4 DEF a, Top
  <1>7. StackBalanced'
    BY <1>4, <1>6 DEF CoreInv, StackBalanced, SameScript, stackVars, runVars
  <1>8. Quiet'
    BY DEF Quiet, runVars
  <1>9. ArityOK'
    <2>1. FitsArity(a)
      BY DEF FitsArity, a
    <2>2. \A j \in 1 .. Len(calls) : calls'[j].pc # "enter" => FitsArity(calls'[j])
      BY <1>4, <2>1 DEF CoreInv, ArityOK
    <2> QED BY <1>4, <2>2 DEF ArityOK, FitsArity, SameScript
  <1>10. (focus \in Focus)'
    BY DEF Focus, SameScript
  <1> QED
    BY <1>5, <1>7, <1>8, <1>9, <1>10
       DEF CoreInv, SameScript, stackVars, runVars

(* So does one that evaluates a parameter its term has (UMTerm.m:484),     *)
(* with or without the interrupt. *)
LEMMA EvalArgCore ==
  ASSUME CoreInv, Running, SameScript,
         NEW k \in Nat, k < Len(Args),
         NEW pc \in Pcs, NEW pos \in Nat, NEW tmp \in Value, NEW cont \in BOOLEAN,
         EvalArgFrom(k, pc, pos, tmp, cont), FitsArity(Top)
  PROVE  CoreInv'
  <1>1. Args[k + 1] \in 1 .. Len(prog)
    BY TopFacts DEF Running
  <1>2. focus' \in Focus /\ focus'.k # "intr"
    BY <1>1, ValueAssumption DEF EvalArgFrom, Eval, Focus
  <1> QED
    BY <1>2, ContinuesCore DEF EvalArgFrom, Running

(* An exception leaves the frames on the stack but no activation, which    *)
(* CoreInv allows (UMScriptDocument.m:57). *)
LEMMA RaiseCore ==
  ASSUME CoreInv, SameScript, Raise
  PROVE  CoreInv'
  <1>1. calls' = <<>> /\ Len(calls') = 0
    BY DEF Raise
  <1>2. focus' \in Focus /\ focus'.k = "ret"
    BY ProgramFacts, ValueAssumption DEF Raise, Ret, Focus
  <1>3. (calls \in Seq(Activation))' /\ Quiet' /\ ArityOK'
    BY <1>1 DEF Quiet, ArityOK
  <1>4. StackBalanced'
    BY <1>1 DEF CoreInv, StackBalanced, SameScript, Raise, stackVars
  <1> QED
    BY <1>2, <1>3, <1>4, ValueAssumption
       DEF CoreInv, SameScript, Raise, stackVars, Focus

(* What removing the last element of a sequence leaves (removeLastObject,  *)
(* UMStack.m:40). *)
LEMMA WithoutLast ==
  ASSUME NEW S, NEW s \in Seq(S), NEW n \in Nat, Len(s) = n + 1
  PROVE  /\ SubSeq(s, 1, n) \in Seq(S)
         /\ Len(SubSeq(s, 1, n)) = n
         /\ \A j \in 1 .. n : SubSeq(s, 1, n)[j] = s[j] /\ s[j] \in S
         /\ SubSeq(s, 1, n) = <<>> <=> n = 0
  <1>1. \A j \in 1 .. n : s[j] \in S
    BY ElementOfSeq
  <1>2. /\ SubSeq(s, 1, n) \in Seq(S)
        /\ Len(SubSeq(s, 1, n)) = IF 1 <= n THEN n - 1 + 1 ELSE 0
        /\ \A j \in 1 .. n - 1 + 1 : SubSeq(s, 1, n)[j] = s[1 + j - 1]
    BY <1>1, SubSeqProperties
  <1> QED BY <1>1, <1>2, EmptySeq

(* A call that returns takes exactly its own frame with it (UMTerm.m:520,  *)
(* UMStack.m:34-42). *)
LEMMA ReturnCore ==
  ASSUME CoreInv, Running, SameScript, NEW v \in Value, Return(v)
  PROVE  CoreInv'
  <1> DEFINE n == Len(calls) - 1
             m == Len(stackFrames) - 1
  <1>1. CASE hasStack /\ PopRaises
    BY <1>1, RaiseCore DEF Return
  <1>2. CASE ~(hasStack /\ PopRaises)
    <2>1. /\ calls' = SubSeq(calls, 1, n)
          /\ focus' = Ret(v)
          /\ IF hasStack THEN PopFrame ELSE UNCHANGED stackVars
          /\ UNCHANGED runVars
      BY <1>2 DEF Return
    <2>2. calls \in Seq(Activation) /\ n \in Nat /\ Len(calls) = n + 1
      BY TopFacts DEF CoreInv, Running
    <2>3. /\ calls' \in Seq(Activation) /\ Len(calls') = n
          /\ \A j \in 1 .. n : calls'[j] = calls[j]
      BY <2>1, <2>2, WithoutLast
    <2>4. focus' \in Focus /\ focus'.k = "ret"
      BY <2>1, ProgramFacts DEF Ret, Focus
    <2>5. (calls \in Seq(Activation))' /\ Quiet'
      BY <2>1, <2>3 DEF Quiet, SameScript, Activation, runVars, Running
    <2>6. ArityOK'
      <3>1. ASSUME NEW j \in 1 .. n, calls'[j].pc # "enter"
            PROVE  FitsArity(calls'[j])
        <4>1. j \in 1 .. Len(calls) /\ calls'[j] = calls[j]
          BY <2>2, <2>3
        <4> QED BY <3>1, <4>1 DEF CoreInv, ArityOK
      <3> QED BY <2>3, <3>1 DEF ArityOK, FitsArity, SameScript
    <2>7. /\ (stackFrames \in Seq(1 .. Len(prog)))'
          /\ (currentFrame \in (1 .. Len(prog)) \cup {NoFrame})'
          /\ StackBalanced'
      <3>1. CASE hasStack
        <4>1. /\ Len(stackFrames) >= Len(calls)
              /\ Len(stackFrames) = hist.base + Len(calls)
              /\ \A j \in 1 .. Len(calls) :
                    stackFrames[Len(stackFrames) - Len(calls) + j] = calls[j].node
              /\ stackFrames \in Seq(1 .. Len(prog))
              /\ hist.base \in Nat
          BY <3>1 DEF CoreInv, StackBalanced, Running
        <4>a. m \in Nat /\ Len(stackFrames) = m + 1 /\ m >= n
          BY <4>1, <2>2
        <4>b. m = hist.base + n
          BY <4>1, <4>a, <2>2
        <4>2. /\ stackFrames' = SubSeq(stackFrames, 1, m)
              /\ currentFrame' = IF m = 0 THEN NoFrame ELSE stackFrames[m]
          BY <2>1, <3>1 DEF PopFrame
        <4> HIDE DEF n, m
        <4>3. /\ stackFrames' \in Seq(1 .. Len(prog)) /\ Len(stackFrames') = m
              /\ \A j \in 1 .. m : /\ stackFrames'[j] = stackFrames[j]
                                   /\ stackFrames[j] \in 1 .. Len(prog)
              /\ stackFrames' = <<>> <=> m = 0
          <5> DEFINE F == 1 .. Len(prog)
          <5>1. stackFrames \in Seq(F)
            BY <4>1
          <5> HIDE DEF F
          <5>2. /\ SubSeq(stackFrames, 1, m) \in Seq(F)
                /\ Len(SubSeq(stackFrames, 1, m)) = m
                /\ \A j \in 1 .. m : /\ SubSeq(stackFrames, 1, m)[j] = stackFrames[j]
                                     /\ stackFrames[j] \in F
                /\ SubSeq(stackFrames, 1, m) = <<>> <=> m = 0
            BY <5>1, <4>a, WithoutLast
          <5> USE DEF F
          <5> QED BY <5>2, <4>2
        <4>4. n \in Nat /\ m \in Nat /\ m >= n /\ Len(calls) = n + 1
              /\ Len(stackFrames) = m + 1
          BY <4>a, <2>2
        <4>5. \A j \in 1 .. n : stackFrames'[m - n + j] = calls'[j].node
          <5> SUFFICES ASSUME NEW j \in 1 .. n
                       PROVE  stackFrames'[m - n + j] = calls'[j].node
            OBVIOUS
          <5>1. j \in 1 .. Len(calls) /\ m - n + j \in 1 .. m
                /\ Len(stackFrames) - Len(calls) + j = m - n + j
            BY <4>4
          <5> QED BY <5>1, <4>1, <4>3, <2>3
        <4>6. currentFrame' = IF stackFrames' = <<>> THEN NoFrame
                              ELSE stackFrames'[Len(stackFrames')]
          BY <4>a, <4>2, <4>3
        <4>7. currentFrame' \in (1 .. Len(prog)) \cup {NoFrame}
          BY <4>a, <4>2, <4>3
        <4>8. hasStack' /\ hist'.base = hist.base
          BY <3>1 DEF SameScript
        <4>9. StackBalanced'
          BY <4>3, <4>4, <4>5, <4>6, <4>8, <4>a, <4>b, <2>2, <2>3 DEF StackBalanced
        <4> QED
          BY <4>3, <4>7, <4>9 DEF SameScript
      <3>2. CASE ~hasStack
        BY <3>2, <2>1 DEF CoreInv, StackBalanced, SameScript, stackVars
      <3> QED BY <3>1, <3>2
    <2> QED
      BY <2>1, <2>4, <2>5, <2>6, <2>7 DEF CoreInv, SameScript, Focus, runVars
  <1> QED BY <1>1, <1>2

(* A function call puts its own frame on the stack before anything of it   *)
(* is evaluated (UMTerm.m:510). *)
LEMMA PushCore ==
  ASSUME CoreInv, SameScript, EvalFunctionCall
  PROVE  CoreInv'
  <1> DEFINE a == [node |-> focus.node, pc |-> "enter", pos |-> 0, tmp |-> Nil,
                   cont |-> focus.cont]
             F == 1 .. Len(prog)
  <1>1. focus.node \in F /\ focus.cont \in BOOLEAN /\ status = "running"
        /\ focus.k = "eval"
    BY DEF CoreInv, Focus, EvalFunctionCall
  <1>2. a \in Activation /\ a.node = focus.node /\ a.pc = "enter"
    BY <1>1, ValueAssumption DEF Activation, Pcs
  <1>3. /\ calls' = Append(calls, a)
        /\ IF hasStack THEN PushFrame(focus.node) ELSE UNCHANGED stackVars
        /\ focus' = Ret(Nil)
        /\ UNCHANGED runVars
    BY DEF EvalFunctionCall
  <1>4. calls \in Seq(Activation) /\ stackFrames \in Seq(F)
        /\ Len(calls) \in Nat /\ Len(stackFrames) \in Nat /\ hist.base \in Nat
    BY DEF CoreInv
  <1> HIDE DEF a, F
  <1>5. /\ calls' \in Seq(Activation) /\ Len(calls') = Len(calls) + 1
        /\ \A j \in 1 .. Len(calls) : calls'[j] = calls[j]
        /\ calls'[Len(calls) + 1] = a
    BY <1>2, <1>3, <1>4, AppendProperties
  <1>6. focus' \in Focus /\ focus'.k = "ret"
    BY <1>3, ProgramFacts, ValueAssumption DEF Ret, Focus
  <1>7. (calls \in Seq(Activation))' /\ Quiet'
    BY <1>1, <1>3, <1>5 DEF Quiet, SameScript, Activation, runVars
  <1>8. ArityOK'
    <2>1. ASSUME NEW j \in 1 .. Len(calls'), calls'[j].pc # "enter"
          PROVE  FitsArity(calls'[j])
      <3>1. j = Len(calls) + 1 \/ j \in 1 .. Len(calls)
        BY <1>4, <1>5
      <3>2. j # Len(calls) + 1
        BY <1>2, <1>5, <2>1
      <3>3. j \in 1 .. Len(calls) /\ calls'[j] = calls[j]
        BY <1>5, <3>1, <3>2
      <3> QED BY <2>1, <3>3 DEF CoreInv, ArityOK
    <2> QED BY <2>1 DEF ArityOK, FitsArity, SameScript
  <1>9. /\ (stackFrames \in Seq(1 .. Len(prog)))'
        /\ (currentFrame \in (1 .. Len(prog)) \cup {NoFrame})'
        /\ StackBalanced'
    <2>1. CASE hasStack
      <3>1. /\ stackFrames' = Append(stackFrames, focus.node)
            /\ currentFrame' = focus.node
        BY <2>1, <1>3 DEF PushFrame
      <3>2. /\ stackFrames' \in Seq(F)
            /\ Len(stackFrames') = Len(stackFrames) + 1
            /\ \A j \in 1 .. Len(stackFrames) : stackFrames'[j] = stackFrames[j]
            /\ stackFrames'[Len(stackFrames) + 1] = focus.node
        BY <1>1, <1>4, <3>1, AppendProperties
      <3>3. /\ Len(stackFrames) >= Len(calls)
            /\ Len(stackFrames) = hist.base + Len(calls)
            /\ \A j \in 1 .. Len(calls) :
                  stackFrames[Len(stackFrames) - Len(calls) + j] = calls[j].node
        BY <2>1, <1>1 DEF CoreInv, StackBalanced
      <3>4. \A j \in 1 .. Len(calls') :
               stackFrames'[Len(stackFrames') - Len(calls') + j] = calls'[j].node
        <4> SUFFICES ASSUME NEW j \in 1 .. Len(calls')
                     PROVE  stackFrames'[Len(stackFrames') - Len(calls') + j] = calls'[j].node
          OBVIOUS
        <4>1. CASE j = Len(calls) + 1
          BY <4>1, <1>2, <1>4, <1>5, <3>2
        <4>2. CASE j \in 1 .. Len(calls)
          <5>1. /\ Len(stackFrames') - Len(calls') + j = Len(stackFrames) - Len(calls) + j
                /\ Len(stackFrames) - Len(calls) + j \in 1 .. Len(stackFrames)
            <6>1. /\ Len(calls) \in Nat /\ Len(stackFrames) \in Nat
                  /\ Len(calls') = Len(calls) + 1
                  /\ Len(stackFrames') = Len(stackFrames) + 1
                  /\ Len(stackFrames) >= Len(calls)
              BY <1>4, <1>5, <3>2, <3>3
            <6> QED BY <6>1, <4>2
          <5> QED BY <5>1, <4>2, <1>5, <3>2, <3>3
        <4> QED BY <4>1, <4>2, <1>4, <1>5
      <3>5. currentFrame' = stackFrames'[Len(stackFrames')] /\ stackFrames' # <<>>
        BY <1>4, <3>1, <3>2
      <3>6. currentFrame' \in F
        BY <1>1, <3>1
      <3>7. /\ Len(stackFrames') >= Len(calls')
            /\ Len(stackFrames') = hist.base + Len(calls')
        BY <3>2, <3>3, <1>4, <1>5
      <3>8. StackBalanced'
        BY <2>1, <3>4, <3>5, <3>7 DEF StackBalanced, SameScript
      <3> QED BY <3>2, <3>6, <3>8 DEF SameScript, F
    <2>2. CASE ~hasStack
      BY <2>2, <1>3 DEF CoreInv, StackBalanced, SameScript, stackVars
    <2> QED BY <2>1, <2>2
  <1> QED
    BY <1>1, <1>3, <1>6, <1>7, <1>8, <1>9 DEF CoreInv, SameScript, Focus, runVars

(* A constant or a variable is evaluated without a frame                   *)
(* (UMTerm.m:492-506). *)
LEMMA LeafCore ==
  ASSUME CoreInv, SameScript, status = "running", focus.k = "eval",
         NEW v \in Value, Leaf(v)
  PROVE  CoreInv'
  <1>1. focus' \in Focus /\ focus'.k = "ret"
    BY ProgramFacts DEF Leaf, Ret, Focus
  <1>2. (calls \in Seq(Activation))' /\ Quiet' /\ ArityOK'
    BY DEF CoreInv, Leaf, Quiet, ArityOK, FitsArity, SameScript, Activation, runVars
  <1>3. StackBalanced'
    BY DEF CoreInv, StackBalanced, SameScript, Leaf, stackVars, runVars
  <1> QED
    BY <1>1, <1>2, <1>3 DEF CoreInv, SameScript, Leaf, stackVars, runVars, Focus

(* The history after a return statement. *)
LEMMA HistoryReturned ==
  ASSUME NEW h \in History, NEW v \in Value
  PROVE  /\ [h EXCEPT !.returned = TRUE, !.value = v] \in History
         /\ [h EXCEPT !.returned = TRUE, !.value = v].base = h.base
  <1> DEFINE S == Seq(Place)
  <1>1. History = [base : Nat, runs : Nat, answers : Nat, interrupts : Nat,
                   last : [node : Nat, val : Value], tick : BOOLEAN, saved : S,
                   brk : Nat, returned : BOOLEAN, value : Value]
    BY DEF History
  <1> HIDE DEF S
  <1>2. [h EXCEPT !.returned = TRUE, !.value = v] \in History
    BY <1>1
  <1>3. [h EXCEPT !.returned = TRUE, !.value = v].base = h.base
    BY <1>1
  <1> QED BY <1>2, <1>3

(* The history after a break statement. *)
LEMMA HistoryBroke ==
  ASSUME NEW h \in History, NEW n \in Nat
  PROVE  /\ [h EXCEPT !.brk = n] \in History
         /\ [h EXCEPT !.brk = n].base = h.base
  <1> DEFINE S == Seq(Place)
  <1>1. History = [base : Nat, runs : Nat, answers : Nat, interrupts : Nat,
                   last : [node : Nat, val : Value], tick : BOOLEAN, saved : S,
                   brk : Nat, returned : BOOLEAN, value : Value]
    BY DEF History
  <1> HIDE DEF S
  <1>2. [h EXCEPT !.brk = n] \in History
    BY <1>1
  <1>3. [h EXCEPT !.brk = n].base = h.base
    BY <1>1
  <1> QED BY <1>2, <1>3

(* A location of the script is a sequence of places. *)
LEMMA HereIsPlaces ==
  ASSUME CoreInv
  PROVE  Here \in Seq(Place)
  <1>1. calls \in Seq(Activation) /\ Len(calls) \in Nat
    BY DEF CoreInv
  <1>2. ASSUME NEW j \in 1 .. Len(calls) PROVE Location(calls[j]) \in Place
    <2>1. calls[j] \in Activation BY <1>1, ElementOfSeq
    <2> QED BY <2>1, ValueAssumption DEF Activation, Location, Place
  <1> QED BY <1>1, <1>2 DEF Here

(* A bounded non-empty set of indices has a largest one. *)
LEMMA LargestIndex ==
  ASSUME NEW n \in Nat, NEW S, S \subseteq 0 .. n, S # {}
  PROVE  \E i \in S : \A j \in S : j <= i
  <1> DEFINE T == {n - i : i \in S}
  <1>1. T \subseteq Nat /\ T # {}
    <2>1. \A i \in S : n - i \in Nat
      OBVIOUS
    <2>2. PICK i \in S : TRUE
      OBVIOUS
    <2>3. n - i \in T
      OBVIOUS
    <2>4. T \subseteq Nat
      BY <2>1
    <2> QED BY <2>3, <2>4
  <1>2. \E x \in T : \A y \in T : ~(<<y, x>> \in OpToRel(<, Nat))
    BY <1>1, NatLessThanWellFounded, WFMin
  <1>3. PICK x \in T : \A y \in T : ~(y < x)
    BY <1>1, <1>2 DEF OpToRel
  <1>4. PICK i \in S : x = n - i
    OBVIOUS
  <1>5. \A j \in S : j <= i
    BY <1>3, <1>4
  <1> QED BY <1>5

(* Entries are entries, the one that a message to nil answers included. *)
LEMMA EntryFacts ==
  /\ NoEntry \in Entry
  /\ \A p \in Nat, t \in Value : EntryAt(p, t) \in Entry
  /\ \A e \in Entry : e.pos \in Nat /\ e.tmp \in Value
  BY ValueAssumption DEF Entry, EntryAt, NoEntry

(* A value that comes back is a value, and a term to evaluate is a term. *)
LEMMA FocusFacts ==
  ASSUME CoreInv
  PROVE  focus.val \in Value /\ focus.node \in 1 .. Len(prog)
  BY DEF CoreInv, Focus

(* What pullEntry answers and what it leaves in the queue                  *)
(* (UMTerm_Interrupt.m). *)
LEMMA PulledFacts ==
  ASSUME DataInv
  PROVE  /\ Pulled.pos \in Nat /\ Pulled.tmp \in Value
         /\ PullEntry => queue' \in Seq(Entry)
         /\ UNCHANGED queue => queue' \in Seq(Entry)
  <1>1. queue \in Seq(Entry)
    BY DEF DataInv
  <1>2. queue # <<>> => Head(queue) \in Entry /\ Tail(queue) \in Seq(Entry)
    BY <1>1, HeadTailProperties
  <1>3. Pulled \in Entry
    BY <1>2, EntryFacts DEF Pulled
  <1> QED BY <1>1, <1>2, <1>3, EntryFacts DEF PullEntry

(* What a handler may rely on: where it is, and the parameter count        *)
(* checked when it was entered. *)
LEMMA AtFacts ==
  ASSUME CoreInv, NEW op, NEW pc, At(op, pc)
  PROVE  /\ Running
         /\ Op = op /\ Top.pc = pc
         /\ pc # "enter" => FitsArity(Top)
  <1>1. Running /\ Op = op /\ Top.pc = pc
    BY DEF At, Running
  <1>2. pc # "enter" => FitsArity(Top)
    <2>1. Len(calls) \in 1 .. Len(calls)
      BY <1>1, TopFacts DEF Running
    <2> QED BY <1>1, <2>1 DEF CoreInv, ArityOK, Top
  <1> QED BY <1>1, <1>2

(* FitsArity, said of the innermost activation. *)
LEMMA ArityFacts ==
  /\ FitsArity(Top) <=>
        /\ Op = "if" => Len(Args) >= 2
        /\ Op \in {"while", "dowhile", "switch", "setvar", "binary"} => Len(Args) = 2
        /\ Op = "for" => Len(Args) = 4
        /\ Op = "and" => Len(Args) >= 2
  BY DEF FitsArity, Op, Args

(* EvalArgCore for a parameter that is evaluated with the interrupt. *)
LEMMA ArgCore ==
  ASSUME CoreInv, Running, SameScript, NEW k \in Nat, k < Len(Args),
         NEW pc \in Pcs, NEW pos \in Nat, NEW tmp \in Value,
         EvalArg(k, pc, pos, tmp), FitsArity(Top)
  PROVE  CoreInv'
  <1>1. Top.cont \in BOOLEAN
    BY TopFacts DEF Running
  <1>2. EvalArgFrom(k, pc, pos, tmp, Top.cont)
    BY DEF EvalArg
  <1> QED BY <1>1, <1>2, EvalArgCore

(* DataInv is a matter of types alone. *)
LEMMA DataStep ==
  ASSUME DataInv, prog' = prog,
         returnValue' \in Value, jumpTo' \in Value,
         returnCalled' \in BOOLEAN, breakCalled' \in BOOLEAN,
         queue' \in Seq(Entry), recorded' \in Seq(Entry),
         hist' \in History
  PROVE  DataInv'
  BY DEF DataInv, History, Place

(* DataInv after a step that writes no flag of the environment. *)
LEMMA DataKept ==
  ASSUME DataInv, prog' = prog, UNCHANGED <<envVars, recorded, hist>>,
         queue' \in Seq(Entry)
  PROVE  DataInv'
  BY DataStep DEF DataInv, envVars

(* The branch an if takes (UMFunction_if.m). *)
LEMMA IfBranchCore ==
  ASSUME CoreInv, Running, SameScript, Op = "if", Len(Args) >= 2,
         NEW c \in Value, IfBranch(c)
  PROVE  CoreInv'
  <1>1. FitsArity(Top) /\ Len(Args) \in Nat
    BY ArityFacts, TopFacts DEF Running
  <1>2. "body" \in Pcs
    BY DEF Pcs
  <1>3. CASE c \in Truthy
    BY <1>1, <1>2, <1>3, ArgCore DEF IfBranch
  <1>4. CASE c \notin Truthy /\ Len(Args) = 3
    BY <1>1, <1>2, <1>4, ArgCore DEF IfBranch
  <1>5. CASE c \notin Truthy /\ Len(Args) # 3
    BY <1>5, ReturnCore, ValueAssumption DEF IfBranch
  <1> QED BY <1>3, <1>4, <1>5

(* UMFunction_if preserves the invariant. *)
LEMMA IfSteps ==
  ASSUME IInv, IfEnter \/ IfCondition \/ IfReturn
  PROVE  IInv'
  <1> USE DEF IInv
  <1>1. CASE IfEnter
    <2>1. At("if", "enter") /\ SameScript /\ prog' = prog /\ UNCHANGED <<envVars, recorded, hist>>
      BY <1>1 DEF IfEnter, SameScript
    <2>2. Running /\ Op = "if" /\ Len(Args) \in Nat
      BY <2>1, AtFacts, TopFacts DEF Running
    <2>3. CASE Len(Args) < 2
      <3>1. CoreInv'
        BY <1>1, <2>1, <2>2, <2>3, ReturnCore, ValueAssumption DEF IfEnter
      <3>2. DataInv'
        BY <1>1, <2>1, <2>3, PulledFacts, DataKept DEF IfEnter
      <3> QED BY <3>1, <3>2
    <2>4. CASE Len(Args) >= 2
      <3>1. PullEntry /\ IF Pulled.pos = 0 THEN EvalArg(0, "cond", 0, Nil) ELSE IfBranch(Pulled.tmp)
        BY <1>1, <2>2, <2>4 DEF IfEnter
      <3>2. CoreInv'
        BY <2>1, <2>2, <2>4, <3>1, IfBranchCore, ArgCore, ArityFacts, PulledFacts, ValueAssumption DEF Pcs
      <3>3. DataInv'
        BY <2>1, <3>1, PulledFacts, DataKept
      <3> QED BY <3>2, <3>3
    <2> QED BY <2>2, <2>3, <2>4
  <1>2. CASE IfCondition
    <2>1. At("if", "cond") /\ SameScript /\ prog' = prog /\ UNCHANGED <<envVars, recorded, hist, queue>>
      BY <1>2 DEF IfCondition, SameScript
    <2>2. CoreInv'
      BY <1>2, <2>1, AtFacts, ArityFacts, FocusFacts, IfBranchCore DEF IfCondition
    <2> QED BY <2>1, <2>2, PulledFacts, DataKept
  <1>3. CASE IfReturn
    <2>1. At("if", "body") /\ SameScript /\ prog' = prog /\ UNCHANGED <<envVars, recorded, hist, queue>>
      BY <1>3 DEF IfReturn, SameScript
    <2>2. CoreInv'
      BY <1>3, <2>1, AtFacts, FocusFacts, ReturnCore DEF IfReturn
    <2> QED BY <2>1, <2>2, PulledFacts, DataKept
  <1> QED BY <1>1, <1>2, <1>3

(* labelsDict answers the position of a statement of the list. *)
LEMMA LabelFacts ==
  ASSUME CoreInv, calls # <<>>, NEW l, Labelled(l) # {}
  PROVE  LabelIndex(l) \in Nat /\ LabelIndex(l) < Len(Args)
  <1>1. Len(Args) \in Nat
    BY TopFacts
  <1>2. Labelled(l) \subseteq 0 .. Len(Args) - 1
    BY DEF Labelled
  <1>3. Len(Args) - 1 \in Nat
    BY <1>1, <1>2
  <1>4. \E i \in Labelled(l) : \A j \in Labelled(l) : j <= i
    BY <1>2, <1>3, LargestIndex
  <1>5. LabelIndex(l) \in Labelled(l)
    BY <1>4 DEF LabelIndex
  <1> QED BY <1>1, <1>2, <1>5

(* The head of the loop over the statements, at any position, even one     *)
(* past the end. *)
LEMMA ListLoopStep ==
  ASSUME IInv, Running, Op \in ListOps, prog' = prog, hasStack' = hasStack,
         UNCHANGED <<recorded, hist>>, queue' \in Seq(Entry),
         NEW i \in Nat, NEW v \in Value, ListLoop(i, v)
  PROVE  IInv'
  <1> USE DEF IInv
  <1>1. SameScript /\ Len(Args) \in Nat /\ FitsArity(Top)
    BY TopFacts, ArityFacts DEF SameScript, Running, ListOps
  <1>2. CASE i >= Len(Args)
    <2>1. returnValue' = v /\ Return(v) /\ UNCHANGED <<returnCalled, breakCalled, jumpTo>>
      BY <1>2 DEF ListLoop
    <2>2. CoreInv'
      BY <1>1, <2>1, ReturnCore
    <2>3. DataInv'
      BY <2>1, DataStep DEF DataInv
    <2> QED BY <2>2, <2>3
  <1>3. CASE i < Len(Args)
    <2>1. /\ returnValue' = v /\ EvalArg(i, "stmt", i, Nil)
          /\ returnCalled' = FALSE /\ breakCalled' = FALSE /\ jumpTo' = Nil
      BY <1>1, <1>3 DEF ListLoop
    <2>2. CoreInv'
      BY <1>1, <1>3, <2>1, ArgCore, ValueAssumption DEF Pcs
    <2>3. DataInv'
      BY <2>1, DataStep, ValueAssumption DEF DataInv
    <2> QED BY <2>2, <2>3
  <1> QED BY <1>1, <1>2, <1>3

(* UMFunction_list and UMFunction_block preserve the invariant: a jump     *)
(* ends at a statement or raises. *)
LEMMA ListSteps ==
  ASSUME IInv, NEW op \in ListOps, ListEnter(op) \/ ListNext(op)
  PROVE  IInv'
  <1> USE DEF IInv
  <1>1. CASE ListEnter(op)
    <2>1. At(op, "enter") /\ prog' = prog /\ hasStack' = hasStack
          /\ UNCHANGED <<recorded, hist>> /\ PullEntry
      BY <1>1 DEF ListEnter
    <2>2. Running /\ Op \in ListOps /\ calls # <<>> /\ Len(Args) \in Nat
      BY <2>1, AtFacts, TopFacts DEF Running
    <2>3. queue' \in Seq(Entry) /\ Pulled.pos \in Nat
      BY <2>1, PulledFacts
    <2>4. PICK i \in Nat : ListLoop(i, Nil)
      BY <1>1, <2>2, <2>3, LabelFacts DEF ListEnter
    <2> QED BY <2>1, <2>2, <2>3, <2>4, ListLoopStep, ValueAssumption
  <1>2. CASE ListNext(op)
    <2>1. At(op, "stmt") /\ prog' = prog /\ hasStack' = hasStack
          /\ UNCHANGED <<recorded, hist, queue>> /\ SameScript
      BY <1>2 DEF ListNext, SameScript
    <2>2. Running /\ Op \in ListOps /\ calls # <<>> /\ Top.pos + 1 \in Nat
      BY <2>1, AtFacts, TopFacts DEF Running
    <2>3. queue' \in Seq(Entry) /\ focus.val \in Value /\ returnValue \in Value
      BY <2>1, PulledFacts, FocusFacts DEF DataInv
    <2>4. CASE returnCalled
      <3>1. returnValue' = focus.val /\ Return(focus.val)
            /\ UNCHANGED <<returnCalled, breakCalled, jumpTo>>
        BY <1>2, <2>4 DEF ListNext
      <3>2. CoreInv'
        BY <2>1, <2>2, <2>3, <3>1, ReturnCore
      <3>3. DataInv'
        BY <2>1, <2>3, <3>1, DataStep DEF DataInv
      <3> QED BY <3>2, <3>3
    <2>5. CASE ~returnCalled /\ breakCalled
      <3>1. Return(returnValue) /\ UNCHANGED envVars
        BY <1>2, <2>5 DEF ListNext
      <3>2. CoreInv'
        BY <2>1, <2>2, <2>3, <3>1, ReturnCore
      <3> QED BY <2>1, <2>3, <3>1, <3>2, DataKept
    <2>6. CASE ~returnCalled /\ ~breakCalled
      <3>1. \/ \E i \in Nat : ListLoop(i, returnValue)
            \/ Raise /\ UNCHANGED envVars
        BY <1>2, <2>2, <2>6, LabelFacts DEF ListNext
      <3>2. CASE \E i \in Nat : ListLoop(i, returnValue)
        BY <2>1, <2>2, <2>3, <3>2, ListLoopStep
      <3>3. CASE Raise /\ UNCHANGED envVars
        BY <2>1, <2>3, <3>3, RaiseCore, DataKept
      <3> QED BY <3>1, <3>2, <3>3
    <2> QED BY <2>4, <2>5, <2>6
  <1> QED BY <1>1, <1>2

(* DataInv after a step that writes no flag but breakCalled. *)
LEMMA BreakKept ==
  ASSUME DataInv, prog' = prog,
         UNCHANGED <<returnValue, returnCalled, jumpTo, recorded, hist>>,
         breakCalled' \in BOOLEAN, queue' \in Seq(Entry)
  PROVE  DataInv'
  BY DataStep DEF DataInv

(* The test of a while continued after its condition                       *)
(* (UMFunction_while.m). *)
LEMMA WhileTestCore ==
  ASSUME CoreInv, Running, SameScript, Op = "while", Len(Args) = 2,
         NEW c \in Value, WhileTest(c)
  PROVE  CoreInv'
  <1>1. FitsArity(Top)
    BY ArityFacts
  <1>2. CASE c \in Truthy
    BY <1>1, <1>2, ArgCore DEF WhileTest, Pcs
  <1>3. CASE c \notin Truthy
    BY <1>3, ReturnCore DEF WhileTest
  <1> QED BY <1>2, <1>3

(* UMFunction_while preserves the invariant. *)
LEMMA WhileSteps ==
  ASSUME IInv, WhileEnter \/ WhileCondition \/ WhileBody
  PROVE  IInv'
  <1> USE DEF IInv
  <1>0. prog' = prog /\ SameScript
        /\ UNCHANGED <<returnValue, returnCalled, jumpTo, recorded, hist>>
    BY DEF WhileEnter, WhileCondition, WhileBody, SameScript
  <1>1. CASE WhileEnter
    <2>1. At("while", "enter")
      BY <1>1 DEF WhileEnter
    <2>2. Running /\ Op = "while" /\ Len(Args) \in Nat
      BY <2>1, AtFacts, TopFacts DEF Running
    <2>3. CASE Len(Args) < 2
      <3>1. Raise /\ UNCHANGED <<queue, breakCalled>>
        BY <1>1, <2>3 DEF WhileEnter
      <3> QED BY <1>0, <3>1, RaiseCore, PulledFacts, BreakKept DEF DataInv
    <2>4. CASE Len(Args) > 2
      <3>1. PullEntry /\ Return(Null) /\ UNCHANGED breakCalled
        BY <1>1, <2>2, <2>4 DEF WhileEnter
      <3>2. CoreInv'
        BY <1>0, <2>2, <3>1, ReturnCore, ValueAssumption
      <3> QED BY <1>0, <3>1, <3>2, PulledFacts, BreakKept DEF DataInv
    <2>5. CASE Len(Args) = 2
      <3>1. /\ PullEntry
            /\ IF Pulled.pos = 0
               THEN EvalArg(0, "cond", 0, Nil) /\ breakCalled' = FALSE
               ELSE WhileTest(Pulled.tmp)
        BY <1>1, <2>5 DEF WhileEnter
      <3>2. CoreInv'
        BY <1>0, <2>2, <2>5, <3>1, ArgCore, WhileTestCore, ArityFacts, PulledFacts, ValueAssumption DEF Pcs
      <3>3. breakCalled' \in BOOLEAN
        BY <3>1 DEF WhileTest
      <3> QED BY <1>0, <3>1, <3>2, <3>3, PulledFacts, BreakKept
    <2>6. \A n \in Nat : n < 2 \/ n > 2 \/ n = 2
      OBVIOUS
    <2> QED BY <2>2, <2>3, <2>4, <2>5, <2>6
  <1>2. CASE WhileCondition
    <2>1. At("while", "cond") /\ UNCHANGED queue /\ breakCalled' \in BOOLEAN
      BY <1>2 DEF WhileCondition, DataInv
    <2>2. Running /\ Op = "while" /\ Len(Args) = 2
      BY <2>1, AtFacts, ArityFacts
    <2>3. CoreInv'
      BY <1>0, <1>2, <2>2, FocusFacts, ArgCore, ReturnCore, ArityFacts DEF WhileCondition, Pcs
    <2> QED BY <1>0, <2>1, <2>3, PulledFacts, BreakKept
  <1>3. CASE WhileBody
    <2>1. At("while", "body") /\ UNCHANGED queue /\ breakCalled' \in BOOLEAN
      BY <1>3 DEF WhileBody, DataInv
    <2>2. Running /\ Op = "while" /\ Len(Args) = 2 /\ Top.tmp \in Value
      BY <2>1, AtFacts, ArityFacts, TopFacts DEF Running
    <2>3. CoreInv'
      BY <1>0, <1>3, <2>2, ArgCore, ReturnCore, ArityFacts, ValueAssumption DEF WhileBody, Pcs
    <2> QED BY <1>0, <2>1, <2>3, PulledFacts, BreakKept
  <1> QED BY <1>1, <1>2, <1>3

(* UMFunction_dowhile preserves the invariant. *)
LEMMA DoWhileSteps ==
  ASSUME IInv, DoWhileEnter \/ DoWhileBody \/ DoWhileCondition
  PROVE  IInv'
  <1> USE DEF IInv
  <1>0. prog' = prog /\ SameScript
        /\ UNCHANGED <<returnValue, returnCalled, jumpTo, recorded, hist>>
    BY DEF DoWhileEnter, DoWhileCondition, DoWhileBody, SameScript, envVars
  <1>1. CASE DoWhileEnter
    <2>1. At("dowhile", "enter")
      BY <1>1 DEF DoWhileEnter
    <2>2. Running /\ Op = "dowhile" /\ Len(Args) \in Nat
      BY <2>1, AtFacts, TopFacts DEF Running
    <2>3. CASE Len(Args) # 2
      <3>1. Return(Null) /\ UNCHANGED <<queue, breakCalled>>
        BY <1>1, <2>3 DEF DoWhileEnter
      <3>2. CoreInv'
        BY <1>0, <2>2, <3>1, ReturnCore, ValueAssumption
      <3> QED BY <1>0, <3>1, <3>2, PulledFacts, BreakKept DEF DataInv
    <2>4. CASE Len(Args) = 2
      <3>1. /\ PullEntry /\ breakCalled' = FALSE
            /\ IF Pulled.pos = 0 THEN EvalArg(0, "body", 0, Nil) ELSE EvalArg(1, "cond", 0, Nil)
        BY <1>1, <2>4 DEF DoWhileEnter
      <3>2. CoreInv'
        BY <1>0, <2>2, <2>4, <3>1, ArgCore, ArityFacts, ValueAssumption DEF Pcs
      <3> QED BY <1>0, <3>1, <3>2, PulledFacts, BreakKept
    <2> QED BY <2>3, <2>4
  <1>2. CASE DoWhileBody \/ DoWhileCondition
    <2>1. At("dowhile", "body") \/ At("dowhile", "cond")
      BY <1>2 DEF DoWhileBody, DoWhileCondition
    <2>2. Running /\ Op = "dowhile" /\ Len(Args) = 2 /\ Top.tmp \in Value
      BY <2>1, AtFacts, ArityFacts, TopFacts DEF Running
    <2>3. UNCHANGED <<queue, breakCalled>>
      BY <1>2 DEF DoWhileBody, DoWhileCondition, envVars
    <2>4. \/ EvalArg(1, "cond", 0, Nil) \/ EvalArg(0, "body", 0, focus.val)
          \/ Return(Top.tmp) \/ Return(focus.val)
      BY <1>2 DEF DoWhileBody, DoWhileCondition
    <2>5. CoreInv'
      BY <1>0, <2>2, <2>4, FocusFacts, ArgCore, ReturnCore, ArityFacts, ValueAssumption DEF Pcs
    <2> QED BY <1>0, <2>3, <2>5, PulledFacts, BreakKept DEF DataInv
  <1> QED BY <1>1, <1>2

(* The third parameter of a for, evaluated or skipped (UMFunction_for.m). *)
LEMMA ForEveryCore ==
  ASSUME CoreInv, Running, SameScript, Op = "for", Len(Args) = 4,
         NEW start \in Nat, NEW c \in Value, ForEvery(start, c)
  PROVE  CoreInv'
  <1>1. FitsArity(Top) /\ {"every", "body", "cond", "init"} \subseteq Pcs
    BY ArityFacts DEF Pcs
  <1>2. CASE start <= 3
    <2>1. EvalArg(2, "every", start, c)
      BY <1>2 DEF ForEvery
    <2> QED BY <1>1, <2>1, ArgCore
  <1>3. CASE ~(start <= 3)
    <2>1. Continues("every", start, c) /\ focus' = Ret(Nil) /\ UNCHANGED <<stackVars, runVars>>
      BY <1>3 DEF ForEvery
    <2>2. focus' \in Focus /\ focus'.k # "intr"
      BY <2>1, ProgramFacts, ValueAssumption DEF Ret, Focus
    <2> QED BY <1>1, <2>1, <2>2, ContinuesCore DEF Running
  <1> QED BY <1>2, <1>3

(* The head of the loop of a for, wherever an entry makes it start. *)
LEMMA ForLoopCore ==
  ASSUME CoreInv, Running, SameScript, Op = "for", Len(Args) = 4,
         NEW start \in Nat, NEW c \in Value,
         breakCalled \in BOOLEAN,
         ForLoop(start, c) \/ ForTest(start, c)
  PROVE  CoreInv' /\ breakCalled' \in BOOLEAN
  <1>1. FitsArity(Top) /\ {"every", "body", "cond", "init"} \subseteq Pcs
    BY ArityFacts DEF Pcs
  <1>2. \/ EvalArg(1, "cond", start, c) /\ UNCHANGED breakCalled
        \/ Return(c) /\ breakCalled' = FALSE
        \/ EvalArg(3, "body", start, c) /\ UNCHANGED breakCalled
        \/ ForEvery(start, c) /\ UNCHANGED breakCalled
    BY DEF ForLoop, ForTest
  <1>3. CASE EvalArg(1, "cond", start, c) /\ UNCHANGED breakCalled
    BY <1>1, <1>3, ArgCore
  <1>4. CASE Return(c) /\ breakCalled' = FALSE
    BY <1>4, ReturnCore
  <1>5. CASE EvalArg(3, "body", start, c) /\ UNCHANGED breakCalled
    BY <1>1, <1>5, ArgCore
  <1>6. CASE ForEvery(start, c) /\ UNCHANGED breakCalled
    BY <1>6, ForEveryCore
  <1> QED BY <1>2, <1>3, <1>4, <1>5, <1>6

(* UMFunction_for preserves the invariant. *)
LEMMA ForSteps ==
  ASSUME IInv, ForEnter \/ ForInit \/ ForCondition \/ ForBody \/ ForNext
  PROVE  IInv'
  <1> USE DEF IInv
  <1>0. prog' = prog /\ SameScript /\ breakCalled \in BOOLEAN
        /\ UNCHANGED <<returnValue, returnCalled, jumpTo, recorded, hist>>
    BY DEF ForEnter, ForInit, ForCondition, ForBody, ForNext, SameScript, envVars, DataInv
  <1>1. CASE ForEnter
    <2>1. At("for", "enter")
      BY <1>1 DEF ForEnter
    <2>2. Running /\ Op = "for" /\ Pulled.pos \in Nat /\ Pulled.tmp \in Value
      BY <2>1, AtFacts, PulledFacts
    <2>3. CASE Len(Args) # 4
      <3>1. Return(Null) /\ UNCHANGED <<queue, breakCalled>>
        BY <1>1, <2>3 DEF ForEnter
      <3>2. CoreInv'
        BY <1>0, <2>2, <3>1, ReturnCore, ValueAssumption
      <3> QED BY <1>0, <3>1, <3>2, PulledFacts, BreakKept
    <2>4. CASE Len(Args) = 4
      <3>1. /\ PullEntry
            /\ IF Pulled.pos = 0
               THEN EvalArg(0, "init", 0, Pulled.tmp) /\ UNCHANGED breakCalled
               ELSE ForLoop(Pulled.pos, Pulled.tmp)
        BY <1>1, <2>4 DEF ForEnter
      <3>2. CoreInv' /\ breakCalled' \in BOOLEAN
        BY <1>0, <2>2, <2>4, <3>1, ArgCore, ForLoopCore, ArityFacts DEF Pcs
      <3> QED BY <1>0, <3>1, <3>2, PulledFacts, BreakKept
    <2> QED BY <2>3, <2>4
  <1>2. CASE ForInit \/ ForCondition \/ ForBody \/ ForNext
    <2>1. At("for", "init") \/ At("for", "cond") \/ At("for", "body") \/ At("for", "every")
      BY <1>2 DEF ForInit, ForCondition, ForBody, ForNext
    <2>2. Running /\ Op = "for" /\ Len(Args) = 4 /\ Top.tmp \in Value /\ Top.pos \in Nat
      BY <2>1, AtFacts, ArityFacts, TopFacts DEF Running
    <2>3. UNCHANGED queue
      BY <1>2 DEF ForInit, ForCondition, ForBody, ForNext
    <2>4. \/ breakCalled' = FALSE /\ EvalArg(1, "cond", Top.pos, Top.tmp)
          \/ ForTest(Top.pos, focus.val)
          \/ ForLoop(Top.pos, Top.tmp)
          \/ ForEvery(Top.pos, Top.tmp) /\ UNCHANGED breakCalled
      BY <1>2 DEF ForInit, ForCondition, ForBody, ForNext, envVars
    <2>5. CoreInv' /\ breakCalled' \in BOOLEAN
      <3>1. CASE breakCalled' = FALSE /\ EvalArg(1, "cond", Top.pos, Top.tmp)
        <4>1. FitsArity(Top) /\ "cond" \in Pcs
          BY <2>2, ArityFacts DEF Pcs
        <4>2. CoreInv'
          BY <1>0, <2>2, <3>1, <4>1, ArgCore
        <4> QED BY <3>1, <4>2
      <3>2. CASE ForTest(Top.pos, focus.val)
        BY <1>0, <2>2, <3>2, FocusFacts, ForLoopCore
      <3>3. CASE ForLoop(Top.pos, Top.tmp)
        BY <1>0, <2>2, <3>3, ForLoopCore
      <3>4. CASE ForEvery(Top.pos, Top.tmp) /\ UNCHANGED breakCalled
        BY <1>0, <2>2, <3>4, ForEveryCore
      <3> QED BY <2>4, <3>1, <3>2, <3>3, <3>4
    <2> QED BY <1>0, <2>3, <2>5, PulledFacts, BreakKept
  <1> QED BY <1>1, <1>2

(* UMFunction_switch preserves the invariant. *)
LEMMA SwitchSteps ==
  ASSUME IInv, SwitchEnter \/ SwitchCondition \/ SwitchReturn
  PROVE  IInv'
  <1> USE DEF IInv
  <1>0. prog' = prog /\ SameScript /\ UNCHANGED <<returnValue, returnCalled, recorded, hist>>
    BY DEF SwitchEnter, SwitchCondition, SwitchReturn, SameScript
  <1>1. CASE SwitchEnter
    <2>1. At("switch", "enter") /\ PullEntry /\ UNCHANGED breakCalled
      BY <1>1 DEF SwitchEnter
    <2>2. Running /\ Op = "switch" /\ Pulled.tmp \in Value
      BY <2>1, AtFacts, PulledFacts
    <2>3. \/ Return(Null) /\ UNCHANGED jumpTo
          \/ Len(Args) = 2 /\ EvalArg(0, "cond", 0, Nil) /\ UNCHANGED jumpTo
          \/ Len(Args) = 2 /\ jumpTo' = Pulled.tmp /\ EvalArg(1, "body", 0, Pulled.tmp)
      BY <1>1 DEF SwitchEnter, SwitchBlock
    <2>4. CoreInv'
      <3>1. CASE Return(Null)
        BY <1>0, <2>2, <3>1, ReturnCore, ValueAssumption
      <3>2. CASE Len(Args) = 2 /\ EvalArg(0, "cond", 0, Nil)
        BY <1>0, <2>2, <3>2, ArgCore, ArityFacts, ValueAssumption DEF Pcs
      <3>3. CASE Len(Args) = 2 /\ EvalArg(1, "body", 0, Pulled.tmp)
        BY <1>0, <2>2, <3>3, ArgCore, ArityFacts DEF Pcs
      <3> QED BY <2>3, <3>1, <3>2, <3>3
    <2>5. DataInv'
      BY <1>0, <2>1, <2>2, <2>3, PulledFacts, DataStep DEF DataInv
    <2> QED BY <2>4, <2>5
  <1>2. CASE SwitchCondition
    <2>1. At("switch", "cond") /\ UNCHANGED <<queue, breakCalled>>
          /\ jumpTo' = focus.val /\ EvalArg(1, "body", 0, focus.val)
      BY <1>2 DEF SwitchCondition, SwitchBlock
    <2>2. Running /\ Op = "switch" /\ Len(Args) = 2 /\ focus.val \in Value
      BY <2>1, AtFacts, ArityFacts, FocusFacts
    <2>3. CoreInv'
      BY <1>0, <2>1, <2>2, ArgCore, ArityFacts DEF Pcs
    <2>4. DataInv'
      BY <1>0, <2>1, <2>2, DataStep DEF DataInv
    <2> QED BY <2>3, <2>4
  <1>3. CASE SwitchReturn
    <2>1. At("switch", "body") /\ UNCHANGED <<queue, jumpTo>> /\ breakCalled' = FALSE
          /\ Return(Null)
      BY <1>3 DEF SwitchReturn
    <2>2. CoreInv'
      BY <1>0, <2>1, AtFacts, ReturnCore, ValueAssumption
    <2> QED BY <1>0, <2>1, <2>2, PulledFacts, BreakKept
  <1> QED BY <1>1, <1>2, <1>3

(* UMFunction_return preserves the invariant. *)
LEMMA ReturnSteps ==
  ASSUME IInv, ReturnEnter \/ ReturnValue
  PROVE  IInv'
  <1> USE DEF IInv
  <1>1. CASE ReturnEnter
    <2>1. At("return", "enter") /\ SameScript /\ prog' = prog /\ UNCHANGED <<envVars, recorded, hist>>
      BY <1>1 DEF ReturnEnter, SameScript
    <2>2. Running /\ Op = "return"
      BY <2>1, AtFacts
    <2>3. \/ Return(Null) /\ UNCHANGED queue
          \/ Len(Args) = 1 /\ PullEntry /\ EvalArg(0, "body", 0, Nil)
      BY <1>1 DEF ReturnEnter
    <2>4. CoreInv'
      BY <2>1, <2>2, <2>3, ArgCore, ReturnCore, ArityFacts, ValueAssumption DEF Pcs
    <2> QED BY <2>1, <2>3, <2>4, PulledFacts, DataKept
  <1>2. CASE ReturnValue
    <2>1. /\ At("return", "body") /\ prog' = prog /\ hasStack' = hasStack
          /\ returnValue' = focus.val /\ returnCalled' = TRUE /\ Return(focus.val)
          /\ hist' = [hist EXCEPT !.returned = TRUE, !.value = focus.val]
          /\ UNCHANGED <<breakCalled, jumpTo, queue, recorded>>
      BY <1>2 DEF ReturnValue
    <2>2. hist' \in History /\ hist'.base = hist.base
      BY <2>1, FocusFacts, HistoryReturned DEF DataInv
    <2>3. CoreInv'
      BY <2>1, <2>2, AtFacts, FocusFacts, ReturnCore DEF SameScript
    <2>4. DataInv'
      BY <2>1, <2>2, FocusFacts, DataStep DEF DataInv
    <2> QED BY <2>3, <2>4
  <1> QED BY <1>1, <1>2

(* UMFunction_break and UMFunction_goto preserve the invariant, the goto   *)
(* without a label included. *)
LEMMA JumpSteps ==
  ASSUME IInv, Break \/ Goto
  PROVE  IInv'
  <1> USE DEF IInv
  <1>1. CASE Break
    <2>1. /\ At("break", "enter") /\ prog' = prog /\ hasStack' = hasStack
          /\ breakCalled' = TRUE /\ Return(Null)
          /\ UNCHANGED <<returnValue, returnCalled, jumpTo, queue, recorded>>
      BY <1>1 DEF Break
    <2>2. PICK n \in Nat : hist' = [hist EXCEPT !.brk = n]
      <3>1. CASE Breakable = {}
        BY <1>1, <3>1 DEF Break
      <3>2. CASE Breakable # {}
        <4>1. Len(calls) \in Nat /\ Breakable \subseteq 0 .. Len(calls)
          BY <2>1, AtFacts, TopFacts DEF Breakable, Running
        <4>2. \E j \in Breakable : \A k \in Breakable : k <= j
          BY <3>2, <4>1, LargestIndex
        <4>3. (CHOOSE j \in Breakable : \A k \in Breakable : k <= j) \in Breakable
          BY <4>2
        <4>4. Breakable \subseteq Nat
          BY <4>1
        <4>5. (CHOOSE j \in Breakable : \A k \in Breakable : k <= j) \in Nat
          BY <4>3, <4>4
        <4> QED BY <1>1, <3>2, <4>5 DEF Break
      <3> QED BY <3>1, <3>2
    <2>3. hist' \in History /\ hist'.base = hist.base
      BY <2>2, HistoryBroke DEF DataInv
    <2>4. CoreInv'
      BY <2>1, <2>3, AtFacts, ReturnCore, ValueAssumption DEF SameScript
    <2>5. DataInv'
      BY <2>1, <2>3, DataStep DEF DataInv
    <2> QED BY <2>4, <2>5
  <1>2. CASE Goto
    <2>1. At("goto", "enter") /\ SameScript /\ prog' = prog
          /\ UNCHANGED <<returnValue, returnCalled, breakCalled, queue, recorded, hist>>
      BY <1>2 DEF Goto, SameScript
    <2>2. \/ Raise /\ UNCHANGED jumpTo
          \/ Return(Nil) /\ Args # <<>> /\ jumpTo' = prog[Args[1]].val
      BY <1>2 DEF Goto
    <2>3. CoreInv'
      BY <2>1, <2>2, AtFacts, RaiseCore, ReturnCore, ValueAssumption
    <2>4. jumpTo' \in Value
      <3>1. CASE UNCHANGED jumpTo
        BY <3>1 DEF DataInv
      <3>2. CASE Args # <<>> /\ jumpTo' = prog[Args[1]].val
        <4>1. Args \in Seq(1 .. Len(prog))
          BY <2>1, AtFacts, TopFacts DEF Running
        <4>2. Args[1] \in 1 .. Len(prog)
          BY <3>2, <4>1
        <4> QED BY <3>2, <4>2, ProgramFacts
      <3> QED BY <2>2, <3>1, <3>2
    <2>5. DataInv'
      BY <2>1, <2>4, DataStep DEF DataInv
    <2> QED BY <2>3, <2>5
  <1> QED BY <1>1, <1>2

(* A step that preserves CoreInv and writes no flag preserves the          *)
(* invariant. *)
LEMMA FunctionSteps ==
  ASSUME IInv, prog' = prog, hasStack' = hasStack, UNCHANGED <<envVars, recorded, hist>>,
         UNCHANGED queue \/ PullEntry,
         CoreInv'
  PROVE  IInv'
  BY PulledFacts, DataKept DEF IInv

(* UMFunction_assign preserves the invariant. *)
LEMMA AssignSteps ==
  ASSUME IInv, AssignEnter \/ AssignValue
  PROVE  IInv'
  <1> USE DEF IInv
  <1>1. /\ prog' = prog /\ hasStack' = hasStack
        /\ UNCHANGED <<envVars, queue, recorded, hist>> /\ SameScript
    BY DEF AssignEnter, AssignValue, SameScript
  <1>2. Running /\ Op = "assign"
    BY AtFacts DEF AssignEnter, AssignValue
  <1>3. \/ Return(Null) \/ Return(focus.val)
        \/ Len(Args) = 2 /\ EvalArg(1, "right", 0, Nil)
    BY DEF AssignEnter, AssignValue
  <1>4. CASE Return(Null) \/ Return(focus.val)
    BY <1>1, <1>2, <1>4, ReturnCore, FocusFacts, ValueAssumption, FunctionSteps
  <1>5. CASE Len(Args) = 2 /\ EvalArg(1, "right", 0, Nil)
    <2>1. FitsArity(Top) /\ "right" \in Pcs
      BY <1>2, ArityFacts DEF Pcs
    <2>2. CoreInv'
      BY <1>1, <1>2, <1>5, <2>1, ArgCore, ValueAssumption
    <2> QED BY <1>1, <2>2, FunctionSteps
  <1> QED BY <1>3, <1>4, <1>5

(* The functions of two operands preserve the invariant while they         *)
(* evaluate them. *)
LEMMA OperandSteps ==
  ASSUME IInv, NEW op \in TwoOperandOps, OperandsEnter(op) \/ OperandsLeft(op)
  PROVE  IInv'
  <1> USE DEF IInv
  <1>1. prog' = prog /\ hasStack' = hasStack /\ UNCHANGED <<envVars, recorded, hist>> /\ SameScript
    BY DEF OperandsEnter, OperandsLeft, SameScript
  <1>2. Running /\ Op \in TwoOperandOps /\ (OperandsLeft(op) => Len(Args) = 2)
    BY AtFacts, ArityFacts DEF OperandsEnter, OperandsLeft, TwoOperandOps
  <1>3. /\ UNCHANGED queue \/ PullEntry
        /\ \/ Return(Null)
           \/ Len(Args) = 2 /\ EvalArg(0, "left", 0, Nil)
           \/ Len(Args) = 2 /\ EvalArg(1, "right", 0, Pulled.tmp)
           \/ Len(Args) = 2 /\ EvalArg(1, "right", 0, focus.val)
    BY <1>2 DEF OperandsEnter, OperandsLeft
  <1>4. Pulled.tmp \in Value /\ focus.val \in Value /\ {"left", "right"} \subseteq Pcs
    BY PulledFacts, FocusFacts DEF Pcs
  <1>5. CASE Return(Null)
    BY <1>1, <1>2, <1>3, <1>5, ReturnCore, ValueAssumption, FunctionSteps
  <1>6. CASE Len(Args) = 2
    <2>1. FitsArity(Top)
      BY <1>2, <1>6, ArityFacts DEF TwoOperandOps
    <2>2. CASE EvalArg(0, "left", 0, Nil)
      BY <1>1, <1>2, <1>3, <1>4, <1>6, <2>1, <2>2, ArgCore, ValueAssumption, FunctionSteps
    <2>3. CASE EvalArg(1, "right", 0, Pulled.tmp)
      BY <1>1, <1>2, <1>3, <1>4, <1>6, <2>1, <2>3, ArgCore, FunctionSteps
    <2>4. CASE EvalArg(1, "right", 0, focus.val)
      BY <1>1, <1>2, <1>3, <1>4, <1>6, <2>1, <2>4, ArgCore, FunctionSteps
    <2> QED BY <1>3, <1>5, <2>2, <2>3, <2>4
  <1> QED BY <1>3, <1>5, <1>6

(* The head of the loop over the operands of UMFunction_add and            *)
(* UMFunction_and. *)
LEMMA FoldLoopCore ==
  ASSUME CoreInv, Running, SameScript, Op \in FoldOps, Op = "and" => Len(Args) >= 2,
         NEW i \in Nat, NEW v \in Value, FoldLoop(i, v)
  PROVE  CoreInv'
  <1>1. FitsArity(Top) /\ "stmt" \in Pcs /\ Len(Args) \in Nat
    BY ArityFacts, TopFacts DEF FoldOps, Pcs, Running
  <1>2. CASE i >= Len(Args)
    BY <1>2, ReturnCore DEF FoldLoop
  <1>3. CASE ~(i >= Len(Args))
    <2>1. i < Len(Args) /\ EvalArg(i, "stmt", i, v)
      BY <1>1, <1>3 DEF FoldLoop
    <2> QED BY <1>1, <2>1, ArgCore
  <1> QED BY <1>2, <1>3

(* UMFunction_add and UMFunction_and preserve the invariant. *)
LEMMA FoldSteps ==
  ASSUME IInv, NEW op \in FoldOps, FoldEnter(op) \/ FoldNext(op)
  PROVE  IInv'
  <1> USE DEF IInv
  <1>1. prog' = prog /\ hasStack' = hasStack /\ UNCHANGED <<envVars, recorded, hist>> /\ SameScript
    BY DEF FoldEnter, FoldNext, SameScript
  <1>2. Running /\ Op \in FoldOps
    BY AtFacts DEF FoldEnter, FoldNext
  <1>3. Pulled.pos \in Nat /\ Pulled.tmp \in Value /\ focus.val \in Value /\ Top.pos + 1 \in Nat
    BY <1>2, PulledFacts, FocusFacts, TopFacts DEF Running
  <1>4. /\ UNCHANGED queue \/ PullEntry
        /\ \/ Return(Null)
           \/ /\ Op = "and" => Len(Args) >= 2
              /\ \E i \in Nat, v \in Value : FoldLoop(i, v)
    <2>0. Len(Args) \in Nat
      BY <1>2, TopFacts DEF Running
    <2>1. CASE FoldEnter(op)
      <3>1. Op = op
        BY <2>1, AtFacts DEF FoldEnter
      <3> QED BY <1>3, <2>0, <2>1, <3>1 DEF FoldEnter
    <2>2. CASE FoldNext(op)
      <3>1. At(op, "stmt")
        BY <2>2 DEF FoldNext
      <3>2. Op = "and" => Len(Args) >= 2
        BY <3>1, AtFacts, ArityFacts
      <3> QED BY <1>3, <2>2, <3>2, ValueAssumption DEF FoldNext
    <2> QED BY <2>1, <2>2
  <1>5. CASE Return(Null)
    BY <1>1, <1>2, <1>4, <1>5, ReturnCore, ValueAssumption, FunctionSteps
  <1>6. CASE /\ Op = "and" => Len(Args) >= 2
             /\ \E i \in Nat, v \in Value : FoldLoop(i, v)
    BY <1>1, <1>2, <1>4, <1>6, FoldLoopCore, FunctionSteps
  <1> QED BY <1>4, <1>5, <1>6

(* The functions that only answer a value preserve the invariant. *)
LEMMA ValueSteps ==
  ASSUME IInv,
         SetVariable \/ Compare \/ GetVariable \/ Increase \/ UserFunction
  PROVE  IInv'
  <1> USE DEF IInv
  <1>1. prog' = prog /\ hasStack' = hasStack /\ UNCHANGED <<envVars, queue, recorded, hist>> /\ SameScript
    BY DEF SetVariable, Compare, GetVariable, Increase, UserFunction, SameScript
  <1>2. Running
    BY AtFacts DEF SetVariable, Compare, GetVariable, Increase, UserFunction
  <1>3. \E v \in Value : Return(v)
    BY FocusFacts, ValueAssumption DEF SetVariable, Compare, GetVariable, Increase, UserFunction
  <1>4. CoreInv'
    BY <1>1, <1>2, <1>3, ReturnCore
  <1> QED BY <1>1, <1>4, FunctionSteps

(* UMFunction_getvar preserves the invariant, though it evaluates its      *)
(* name without the interrupt. *)
LEMMA GetVariableEnterStep ==
  ASSUME IInv, GetVariableEnter
  PROVE  IInv'
  <1> USE DEF IInv
  <1>1. prog' = prog /\ hasStack' = hasStack /\ UNCHANGED <<envVars, recorded, hist>> /\ SameScript
        /\ PullEntry
    BY DEF GetVariableEnter, SameScript
  <1>2. Running /\ Op = "getvar"
    BY AtFacts DEF GetVariableEnter
  <1>3. \/ Return(Null)
        \/ Len(Args) = 1 /\ EvalArgFrom(0, "body", 0, Nil, FALSE)
    BY DEF GetVariableEnter
  <1>4. FitsArity(Top) /\ "body" \in Pcs
    BY <1>2, ArityFacts DEF Pcs
  <1>5. CoreInv'
    <2>1. CASE Return(Null)
      BY <1>1, <1>2, <2>1, ReturnCore, ValueAssumption
    <2>2. CASE Len(Args) = 1 /\ EvalArgFrom(0, "body", 0, Nil, FALSE)
      <3>1. EvalArgFrom(0, "body", 0, Nil, FALSE)
        BY <2>2
      <3>2. Len(Args) = 1
        BY <2>2
      <3>3. \A k : k = 1 => 0 < k
        OBVIOUS
      <3>4. 0 < Len(Args)
        BY <3>2, <3>3
      <3> QED BY <1>1, <1>2, <1>4, <3>1, <3>4, EvalArgCore, ValueAssumption
    <2> QED BY <1>3, <2>1, <2>2
  <1> QED BY <1>1, <1>5, FunctionSteps

(* The history after a host function has answered. *)
LEMMA HistoryAnswered ==
  ASSUME hist \in History, NEW d \in Nat, NEW l \in [node : Nat, val : Value],
         hist' = [hist EXCEPT !.answers = @ + d, !.tick = ~@, !.last = l, !.saved = <<>>]
  PROVE  hist' \in History /\ hist'.base = hist.base
  <1> DEFINE S == Seq(Place)
  <1>1. History = [base : Nat, runs : Nat, answers : Nat, interrupts : Nat,
                   last : [node : Nat, val : Value], tick : BOOLEAN, saved : S,
                   brk : Nat, returned : BOOLEAN, value : Value]
        /\ <<>> \in S
    BY DEF History
  <1> HIDE DEF S
  <1>2. hist.answers + d \in Nat
    BY <1>1
  <1>3. hist' \in History
    BY <1>1, <1>2
  <1>4. hist'.base = hist.base
    BY <1>1
  <1> QED BY <1>3, <1>4

(* The history after a host function has thrown an interrupt. *)
LEMMA HistorySaved ==
  ASSUME hist \in History, NEW s \in Seq(Place),
         hist' = [hist EXCEPT !.interrupts = @ + 1, !.saved = s]
  PROVE  hist' \in History /\ hist'.base = hist.base
  <1> DEFINE S == Seq(Place)
  <1>1. History = [base : Nat, runs : Nat, answers : Nat, interrupts : Nat,
                   last : [node : Nat, val : Value], tick : BOOLEAN, saved : S,
                   brk : Nat, returned : BOOLEAN, value : Value]
        /\ s \in S
    BY DEF History
  <1> HIDE DEF S
  <1>2. hist.interrupts + 1 \in Nat
    BY <1>1
  <1>3. hist' \in History
    BY <1>1, <1>2
  <1>4. hist'.base = hist.base
    BY <1>1
  <1> QED BY <1>3, <1>4

(* A host function preserves the invariant, whether it answers, throws an  *)
(* interrupt or raises. *)
LEMMA HostSteps ==
  ASSUME IInv, HostAnswers \/ HostInterrupts \/ HostRaises
  PROVE  IInv'
  <1> USE DEF IInv
  <1>1. Running /\ prog' = prog /\ hasStack' = hasStack /\ UNCHANGED <<envVars, queue>>
        /\ hist \in History
    BY AtFacts DEF HostAnswers, HostInterrupts, HostRaises, DataInv
  <1>2. CASE HostAnswers
    <2>1. PICK v \in HostValues :
             /\ Return(v)
             /\ hist' = [hist EXCEPT !.answers = @ + (IF v \in Truthy THEN 1 ELSE 0),
                                     !.tick = ~@,
                                     !.last = [node |-> Top.node, val |-> v],
                                     !.saved = <<>>]
             /\ UNCHANGED recorded
      BY <1>2 DEF HostAnswers
    <2>2. v \in Value /\ (IF v \in Truthy THEN 1 ELSE 0) \in Nat
          /\ [node |-> Top.node, val |-> v] \in [node : Nat, val : Value]
      <3>1. Top.node \in Nat
        BY <1>1, TopFacts, ProgramFacts DEF Running
      <3> QED BY <3>1, ValueAssumption
    <2>3. hist' \in History /\ hist'.base = hist.base
      <3> DEFINE d == IF v \in Truthy THEN 1 ELSE 0
                 l == [node |-> Top.node, val |-> v]
      <3>1. d \in Nat /\ l \in [node : Nat, val : Value] /\ hist \in History
        BY <1>1, <2>2
      <3>2. hist' = [hist EXCEPT !.answers = @ + d, !.tick = ~@, !.last = l, !.saved = <<>>]
        BY <2>1
      <3> HIDE DEF d, l, IInv
      <3> QED BY <3>1, <3>2, HistoryAnswered
    <2>4. CoreInv'
      BY <1>1, <2>1, <2>2, <2>3, ReturnCore DEF SameScript
    <2>5. DataInv'
      BY <1>1, <2>1, <2>3, DataStep DEF DataInv, envVars
    <2> QED BY <2>4, <2>5
  <1>3. CASE HostInterrupts
    <2>1. /\ focus' = Interrupt /\ recorded' = <<>>
          /\ hist' = [hist EXCEPT !.interrupts = @ + 1, !.saved = Here]
          /\ UNCHANGED <<stackVars, calls, runVars>>
      BY <1>3 DEF HostInterrupts
    <2>2. hist' \in History /\ hist'.base = hist.base
      <3> DEFINE s == Here
      <3>1. s \in Seq(Place) /\ hist \in History
            /\ hist' = [hist EXCEPT !.interrupts = @ + 1, !.saved = s]
        BY <1>1, <2>1, HereIsPlaces
      <3> HIDE DEF s, IInv
      <3> QED BY <3>1, HistorySaved
    <2>3. focus' \in Focus /\ focus'.k = "intr"
      BY <2>1, ProgramFacts, ValueAssumption DEF Interrupt, Focus
    <2>4. (calls \in Seq(Activation))' /\ Quiet' /\ ArityOK'
      BY <1>1, <2>1 DEF CoreInv, Quiet, ArityOK, FitsArity, Activation, runVars
    <2>5. StackBalanced'
      BY <1>1, <2>1, <2>3 DEF CoreInv, StackBalanced, stackVars
    <2>6. CoreInv'
      BY <1>1, <2>1, <2>2, <2>3, <2>4, <2>5 DEF CoreInv, Focus, stackVars, runVars
    <2>7. DataInv'
      BY <1>1, <2>1, <2>2, DataStep DEF DataInv, envVars
    <2> QED BY <2>6, <2>7
  <1>4. CASE HostRaises
    <2>1. Raise /\ hist' = [hist EXCEPT !.saved = <<>>] /\ UNCHANGED recorded
      BY <1>4 DEF HostRaises
    <2>2. hist' \in History /\ hist'.base = hist.base
      <3> DEFINE S == Seq(Place)
      <3>1. History = [base : Nat, runs : Nat, answers : Nat, interrupts : Nat,
                       last : [node : Nat, val : Value], tick : BOOLEAN, saved : S,
                       brk : Nat, returned : BOOLEAN, value : Value]
            /\ <<>> \in S
        BY DEF History
      <3> HIDE DEF S
      <3>2. hist' \in History
        BY <1>1, <2>1, <3>1
      <3>3. hist'.base = hist.base
        BY <1>1, <2>1, <3>1
      <3> QED BY <3>2, <3>3
    <2>3. CoreInv'
      BY <1>1, <2>1, <2>2, RaiseCore DEF SameScript
    <2>4. DataInv'
      BY <1>1, <2>1, <2>2, DataStep DEF DataInv, envVars
    <2> QED BY <2>3, <2>4
  <1> QED BY <1>2, <1>3, <1>4

(* A catch block of any function records entries. *)
LEMMA CatchFacts ==
  ASSUME CoreInv, calls # <<>>
  PROVE  Catch \in Seq(Entry)
  <1>1. Top.pos \in Nat /\ Top.tmp \in Value
    BY TopFacts
  <1>2. \A e \in Entry : <<e>> \in Seq(Entry)
    OBVIOUS
  <1>3. <<>> \in Seq(Entry)
    OBVIOUS
  <1>4. /\ ListCatch \in Seq(Entry) /\ IfCatch \in Seq(Entry)
        /\ WhileCatch \in Seq(Entry) /\ DoWhileCatch \in Seq(Entry)
    BY <1>1, <1>2, EntryFacts, ValueAssumption DEF ListCatch, IfCatch, WhileCatch, DoWhileCatch
  <1>5. /\ ForCatch \in Seq(Entry) /\ SwitchCatch \in Seq(Entry)
        /\ ReturnCatch \in Seq(Entry) /\ AssignCatch \in Seq(Entry)
    BY <1>1, <1>2, <1>3, EntryFacts DEF ForCatch, SwitchCatch, ReturnCatch, AssignCatch
  <1>6. OperandsCatch \in Seq(Entry) /\ FoldCatch \in Seq(Entry)
    BY <1>1, <1>2, EntryFacts DEF OperandsCatch, FoldCatch
  <1> QED BY <1>3, <1>4, <1>5, <1>6 DEF Catch

(* An interrupt on its way out preserves the invariant: it leaves frames   *)
(* behind but no activation. *)
LEMMA UnwindStep ==
  ASSUME IInv, Unwind
  PROVE  IInv'
  <1> USE DEF IInv
  <1> DEFINE n == Len(calls) - 1
  <1>1. /\ status = "running" /\ focus.k = "intr" /\ calls # <<>>
        /\ recorded' = IF QueueAllocated THEN Catch \o recorded ELSE recorded
        /\ calls' = SubSeq(calls, 1, n)
        /\ UNCHANGED <<prog, hasStack, stackVars, envVars, focus, runVars, queue, hist>>
    BY DEF Unwind
  <1>2. calls \in Seq(Activation) /\ n \in Nat /\ Len(calls) = n + 1
    BY <1>1, TopFacts DEF CoreInv
  <1>3. /\ calls' \in Seq(Activation) /\ Len(calls') = n
        /\ \A j \in 1 .. n : calls'[j] = calls[j]
    BY <1>1, <1>2, WithoutLast
  <1>4. (calls \in Seq(Activation))' /\ Quiet'
    BY <1>1, <1>3 DEF Quiet, Activation, runVars
  <1>5. ArityOK'
    <2>1. ASSUME NEW j \in 1 .. n, calls'[j].pc # "enter"
          PROVE  FitsArity(calls'[j])
      <3>1. j \in 1 .. Len(calls) /\ calls'[j] = calls[j]
        BY <1>2, <1>3
      <3> QED BY <2>1, <3>1 DEF CoreInv, ArityOK
    <2> QED BY <1>1, <1>3, <2>1 DEF ArityOK, FitsArity
  <1>6. StackBalanced'
    BY <1>1 DEF CoreInv, StackBalanced, stackVars
  <1>7. CoreInv'
    BY <1>1, <1>4, <1>5, <1>6 DEF CoreInv, Focus, stackVars, runVars
  <1>8. recorded' \in Seq(Entry)
    BY <1>1, CatchFacts, ConcatProperties DEF DataInv
  <1>9. DataInv'
    BY <1>1, <1>8, DataStep DEF DataInv, envVars
  <1> QED BY <1>7, <1>9

(* Evaluating a leaf preserves the invariant. *)
LEMMA LeafStep ==
  ASSUME IInv, EvalLeaf
  PROVE  IInv'
  <1> USE DEF IInv
  <1>1. /\ prog' = prog /\ hasStack' = hasStack /\ UNCHANGED <<envVars, queue, recorded, hist>>
        /\ SameScript /\ status = "running" /\ focus.k = "eval"
    BY DEF EvalLeaf, SameScript
  <1>2. \E v \in Value : Leaf(v)
    BY FocusFacts, ProgramFacts, ValueAssumption DEF EvalLeaf
  <1>3. CoreInv'
    BY <1>1, <1>2, LeafCore
  <1> QED BY <1>1, <1>3, FunctionSteps

(* Calling a function preserves the invariant. *)
LEMMA CallStep ==
  ASSUME IInv, EvalFunctionCall
  PROVE  IInv'
  <1> USE DEF IInv
  <1>1. prog' = prog /\ hasStack' = hasStack /\ UNCHANGED <<envVars, queue, recorded, hist>>
        /\ SameScript
    BY DEF EvalFunctionCall, SameScript
  <1>2. CoreInv'
    BY <1>1, PushCore
  <1> QED BY <1>1, <1>2, FunctionSteps

(* A run that begins on whatever stack an interrupt or an exception left   *)
(* behind is balanced from there. *)
LEMMA RunBegins ==
  ASSUME CoreInv, prog' = prog, hasStack' = hasStack, calls' = <<>>,
         status' = "running", NEW c \in BOOLEAN, focus' = Eval(1, c),
         result' = result, UNCHANGED stackVars, hist'.base = Len(stackFrames)
  PROVE  CoreInv'
  <1>1. Len(stackFrames) \in Nat /\ Len(calls') = 0
    BY DEF CoreInv
  <1>2. focus' \in Focus /\ focus'.k = "eval"
    BY ProgramFacts, ValueAssumption DEF Eval, Focus
  <1>3. (calls \in Seq(Activation))' /\ Quiet' /\ ArityOK'
    BY <1>1 DEF Quiet, ArityOK
  <1>4. StackBalanced'
    BY <1>1 DEF CoreInv, StackBalanced, stackVars
  <1> QED BY <1>1, <1>2, <1>3, <1>4 DEF CoreInv, Focus, stackVars

(* A fresh run preserves the invariant (UMScriptDocument.m:57-90). *)
LEMMA StartStep ==
  ASSUME IInv, StartRun
  PROVE  IInv'
  <1> USE DEF IInv
  <1>1. /\ prog' = prog /\ hasStack' = hasStack /\ calls = <<>> /\ calls' = <<>>
        /\ status' = "running" /\ focus' = Eval(1, FALSE)
        /\ queue' = <<>> /\ recorded' = <<>> /\ result' = result
        /\ UNCHANGED stackVars /\ UNCHANGED envVars
    BY DEF StartRun, CoreInv, Quiet
  <1>2. hist' \in History /\ hist'.base = Len(stackFrames)
    <2> DEFINE S == Seq(Place)
               n == Len(stackFrames)
               l == [node |-> 0, val |-> Nil]
    <2>1. History = [base : Nat, runs : Nat, answers : Nat, interrupts : Nat,
                     last : [node : Nat, val : Value], tick : BOOLEAN, saved : S,
                     brk : Nat, returned : BOOLEAN, value : Value]
          /\ <<>> \in S
      BY DEF History
    <2>2. n \in Nat
      BY DEF CoreInv
    <2>3. l \in [node : Nat, val : Value] /\ Nil \in Value /\ hist \in History
      BY ValueAssumption DEF DataInv
    <2>4. hist' = [hist EXCEPT !.runs = @ + 1, !.base = n, !.last = l, !.tick = ~@,
                               !.saved = <<>>, !.brk = 0, !.returned = FALSE,
                               !.value = Nil]
      BY DEF StartRun
    <2> HIDE DEF S, n, l, IInv
    <2>5. hist.runs + 1 \in Nat
      BY <2>1, <2>3
    <2>6. hist' \in History
      BY <2>1, <2>2, <2>3, <2>4, <2>5
    <2>7. hist'.base = n
      BY <2>1, <2>3, <2>4
    <2> QED BY <2>6, <2>7 DEF n
  <1>3. CoreInv'
    BY <1>1, <1>2, RunBegins
  <1>4. <<>> \in Seq(Entry)
    OBVIOUS
  <1>5. DataInv'
    BY <1>1, <1>2, <1>4, DataStep DEF DataInv, envVars
  <1> QED BY <1>3, <1>5

(* A continued run preserves the invariant (UMScriptDocument.m:57-90). *)
LEMMA ResumeStep ==
  ASSUME IInv, ResumeRun
  PROVE  IInv'
  <1> USE DEF IInv
  <1>1. /\ prog' = prog /\ hasStack' = hasStack /\ calls = <<>> /\ calls' = <<>>
        /\ status' = "running" /\ focus' = Eval(1, TRUE)
        /\ queue' = recorded /\ recorded' = <<>> /\ result' = result
        /\ UNCHANGED stackVars /\ UNCHANGED envVars
    BY DEF ResumeRun, CoreInv, Quiet
  <1>2. hist' \in History /\ hist'.base = Len(stackFrames)
    <2> DEFINE S == Seq(Place)
               n == Len(stackFrames)
               l == IF recorded = <<>> THEN [node |-> 0, val |-> Nil]
                    ELSE hist.last
    <2>1. History = [base : Nat, runs : Nat, answers : Nat, interrupts : Nat,
                     last : [node : Nat, val : Value], tick : BOOLEAN, saved : S,
                     brk : Nat, returned : BOOLEAN, value : Value]
      BY DEF History
    <2>2. n \in Nat
      BY DEF CoreInv
    <2>3. hist \in History /\ hist.last \in [node : Nat, val : Value]
      <3>1. hist \in History
        BY DEF DataInv
      <3> QED BY <3>1, <2>1
    <2>4. l \in [node : Nat, val : Value]
      <3>1. [node |-> 0, val |-> Nil] \in [node : Nat, val : Value]
        BY ValueAssumption
      <3> QED BY <2>3, <3>1
    <2>5. hist' = [hist EXCEPT !.base = n, !.brk = 0, !.last = l]
      BY DEF ResumeRun
    <2> HIDE DEF S, n, l, IInv
    <2>6. hist' \in History
      BY <2>1, <2>2, <2>3, <2>4, <2>5
    <2>7. hist'.base = n
      BY <2>1, <2>3, <2>5
    <2> QED BY <2>6, <2>7 DEF n
  <1>3. CoreInv'
    BY <1>1, <1>2, RunBegins
  <1>4. <<>> \in Seq(Entry)
    OBVIOUS
  <1>5. DataInv'
    BY <1>1, <1>2, <1>4, DataStep DEF DataInv, envVars
  <1> QED BY <1>3, <1>5

(* The end of a run and an interrupt that reaches the host preserve the    *)
(* invariant. *)
LEMMA EndSteps ==
  ASSUME IInv, FinishRun \/ SuspendRun
  PROVE  IInv'
  <1> USE DEF IInv
  <1>1. /\ prog' = prog /\ hasStack' = hasStack /\ calls = <<>> /\ calls' = <<>>
        /\ status' \in {"done", "suspended"} /\ result' \in Value /\ focus' = focus
        /\ hist' = hist /\ UNCHANGED <<queue, recorded, stackVars, envVars>>
    BY FocusFacts DEF FinishRun, SuspendRun, CoreInv
  <1>2. (calls \in Seq(Activation))' /\ Quiet' /\ ArityOK'
    BY <1>1 DEF Quiet, ArityOK
  <1>3. StackBalanced'
    BY <1>1 DEF CoreInv, StackBalanced, stackVars
  <1>4. CoreInv'
    BY <1>1, <1>2, <1>3 DEF CoreInv, Focus, stackVars
  <1>5. DataInv'
    BY <1>1, DataKept DEF DataInv
  <1> QED BY <1>4, <1>5

(* A step that changes nothing preserves the invariant. *)
LEMMA StutterStep ==
  ASSUME IInv, UNCHANGED vars
  PROVE  IInv'
  <1>1. CoreInv'
    BY DEF IInv, vars, stackVars, runVars, CoreInv, Focus, StackBalanced, Quiet,
           ArityOK, FitsArity, Activation
  <1>2. DataInv'
    BY DEF IInv, vars, envVars, DataInv, History, Place
  <1> QED BY <1>1, <1>2 DEF IInv

(* Every step of the evaluator preserves the invariant. *)
LEMMA EvaluateStep ==
  ASSUME IInv, Evaluate
  PROVE  IInv'
  <1>1. CASE EvalLeaf \/ EvalFunctionCall
    BY <1>1, LeafStep, CallStep
  <1>2. ASSUME NEW op \in ListOps, ListEnter(op) \/ ListNext(op) PROVE IInv'
    BY <1>2, ListSteps
  <1>3. CASE IfEnter \/ IfCondition \/ IfReturn
    BY <1>3, IfSteps
  <1>4. CASE WhileEnter \/ WhileCondition \/ WhileBody
    BY <1>4, WhileSteps
  <1>5. CASE DoWhileEnter \/ DoWhileBody \/ DoWhileCondition
    BY <1>5, DoWhileSteps
  <1>6. CASE ForEnter \/ ForInit \/ ForCondition \/ ForBody \/ ForNext
    BY <1>6, ForSteps
  <1>7. CASE SwitchEnter \/ SwitchCondition \/ SwitchReturn
    BY <1>7, SwitchSteps
  <1>8. CASE ReturnEnter \/ ReturnValue
    BY <1>8, ReturnSteps
  <1>9. CASE Break \/ Goto
    BY <1>9, JumpSteps
  <1>10. CASE AssignEnter \/ AssignValue
    BY <1>10, AssignSteps
  <1>11. ASSUME NEW op \in TwoOperandOps, OperandsEnter(op) \/ OperandsLeft(op) PROVE IInv'
    BY <1>11, OperandSteps
  <1>12. ASSUME NEW op \in FoldOps, FoldEnter(op) \/ FoldNext(op) PROVE IInv'
    BY <1>12, FoldSteps
  <1>13. CASE SetVariable \/ Compare \/ GetVariable \/ Increase \/ UserFunction
    BY <1>13, ValueSteps
  <1>14. CASE GetVariableEnter
    BY <1>14, GetVariableEnterStep
  <1>15. CASE HostAnswers \/ HostInterrupts \/ HostRaises
    BY <1>15, HostSteps
  <1>16. CASE Unwind
    BY <1>16, UnwindStep
  <1>17. CASE FinishRun \/ SuspendRun
    BY <1>17, EndSteps
  <1> QED
    BY <1>1, <1>2, <1>3, <1>4, <1>5, <1>6, <1>7, <1>8, <1>9, <1>10, <1>11, <1>12,
       <1>13, <1>14, <1>15, <1>16, <1>17 DEF Evaluate

(* The invariant holds before the first run. *)
LEMMA InitialInv ==
  ASSUME Init
  PROVE  IInv
  <1>1. prog \in Programs /\ Len(prog) \in Nat \ {0}
    <2> DEFINE T == [op : LeafOps \cup FunctionOps, args : Seq(1 .. Len(prog)),
                     label : Value, val : Value]
    <2>1. prog \in Programs /\ prog \in Seq(T) /\ Len(prog) > 0
      BY ProgramAssumption DEF Init, IsProgram
    <2> HIDE DEF T
    <2> QED BY <2>1
  <1>2. focus \in Focus
    BY <1>1, ValueAssumption DEF Init, Ret, Focus
  <1>3. /\ calls \in Seq(Activation) /\ Len(calls) = 0
        /\ stackFrames \in Seq(1 .. Len(prog)) /\ stackFrames = <<>>
        /\ Len(stackFrames) = 0
        /\ queue \in Seq(Entry) /\ recorded \in Seq(Entry)
    BY DEF Init, StackInit
  <1>4. hist \in History /\ hist.base = 0
    <2> DEFINE S == Seq(Place)
    <2>1. History = [base : Nat, runs : Nat, answers : Nat, interrupts : Nat,
                     last : [node : Nat, val : Value], tick : BOOLEAN, saved : S,
                     brk : Nat, returned : BOOLEAN, value : Value]
          /\ <<>> \in S
      BY DEF History
    <2> HIDE DEF S
    <2> QED BY <2>1, ValueAssumption DEF Init
  <1>5. StackBalanced /\ Quiet /\ ArityOK
    BY <1>3 DEF Init, StackInit, StackBalanced, Quiet, ArityOK
  <1>6. CoreInv
    BY <1>1, <1>2, <1>3, <1>4, <1>5, ValueAssumption DEF Init, StackInit, CoreInv
  <1>7. DataInv
    BY <1>3, <1>4, ValueAssumption DEF Init, DataInv
  <1> QED BY <1>6, <1>7 DEF IInv

(* The inductive invariant holds in every reachable state. *)
THEOREM Inductive == Spec => []IInv
  <1>1. Init => IInv
    BY InitialInv
  <1>2. IInv /\ [Next]_vars => IInv'
    <2> SUFFICES ASSUME IInv, [Next]_vars PROVE IInv'
      OBVIOUS
    <2>1. CASE Evaluate
      BY <2>1, EvaluateStep
    <2>2. CASE StartRun \/ ResumeRun
      BY <2>2, StartStep, ResumeStep
    <2>3. CASE HostIsDone \/ UNCHANGED vars
      BY <2>3, StutterStep DEF HostIsDone
    <2> QED BY <2>1, <2>2, <2>3 DEF Next
  <1> QED BY <1>1, <1>2, PTL DEF Spec

(* The type invariant of the evaluator: no function evaluates a parameter  *)
(* its term does not have, no jump leaves the statement list it is in,     *)
(* and a position taken from an interrupt's queue is never used past the   *)
(* parameters. *)
THEOREM TypeCorrect == Spec => []TypeOK
  <1>1. IInv => TypeOK
    BY DEF IInv, CoreInv, DataInv, TypeOK
  <1> QED BY <1>1, Inductive, PTL

(* The stack of frames is balanced: popFrame never meets an empty stack    *)
(* (UMStack.m:36), and a call that returns takes its own frame with it,    *)
(* in every script, after any number of interrupts and exceptions. *)
THEOREM Balanced == Spec => []StackBalanced
  <1>1. IInv => StackBalanced
    BY DEF IInv, CoreInv
  <1> QED BY <1>1, Inductive, PTL

=============================================================================

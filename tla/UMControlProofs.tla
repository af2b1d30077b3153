-------------------------- MODULE UMControlProofs --------------------------
(***************************************************************************)
(* Proofs about the control functions of UMInterpreter: a break stops at   *)
(* the loop or switch it is in, and nothing runs after a return.           *)
(*                                                                         *)
(* Both are about where the flags of the environment go while activations  *)
(* return, so the first part sorts the steps of all functions by what they *)
(* do to the sequence of activations: evaluate a parameter, go on without, *)
(* raise, or hand a value back (FunctionStep).  The two theorems then need *)
(* one lemma for each of these instead of one for each action.             *)
(*                                                                         *)
(* Neither holds of every script (break_in_do and return_in_loop show it). *)
(* BreakInv follows the loop a break is meant for, ReturnInv the           *)
(* statements a return value passes through; the scripts they are proved   *)
(* of are those that NoBreakInDo and OutermostReturns of UMInterpreter     *)
(* describe, by a marking of their terms.                                  *)
(***************************************************************************)
EXTENDS UMInterpreterProofs

-----------------------------------------------------------------------------
(* What a function's code does between two evaluations *)

(* The parameter an activation evaluates at its place *)
ParamAt(op, pc, pos, tmp) ==
    CASE op \in ListOps \cup FoldOps -> pos
      [] op = "if" -> IF pc = "cond" THEN 0 ELSE IF tmp \in Truthy THEN 1 ELSE 2
      [] op \in {"while", "switch"} -> IF pc = "cond" THEN 0 ELSE 1
      [] op = "dowhile" -> IF pc = "body" THEN 0 ELSE 1
      [] op = "for" -> IF pc = "init" THEN 0 ELSE IF pc = "cond" THEN 1
                       ELSE IF pc = "every" THEN 2 ELSE 3
      [] op = "assign" -> 1
      [] op \in TwoOperandOps -> IF pc = "left" THEN 0 ELSE 1
      [] OTHER -> 0

(* What its locals can be there, when its term has n parameters *)
RegularAt(op, n, pc, pos, tmp) ==
    \/ op \in ListOps /\ pc = "stmt" /\ tmp = Nil
    \/ op \in FoldOps /\ pc = "stmt" /\ (op = "and" => n >= 2)
    \/ /\ op = "if" /\ n >= 2 /\ pos = 0
       /\ (pc = "cond" /\ tmp = Nil) \/ (pc = "body" /\ (tmp \in Truthy \/ n = 3))
    \/ /\ op = "while" /\ n = 2 /\ pos = 0
       /\ (pc = "cond" /\ tmp = Nil) \/ (pc = "body" /\ tmp \in Truthy)
    \/ op = "dowhile" /\ n = 2 /\ pos = 0 /\ pc \in {"body", "cond"}
    \/ /\ op = "for" /\ n = 4 /\ pc \in {"init", "cond", "every", "body"}
       /\ pc = "body" => tmp \in Truthy
    \/ op = "switch" /\ n = 2 /\ pos = 0 /\ pc \in {"cond", "body"}
    \/ op = "return" /\ n = 1 /\ pos = 0 /\ pc = "body" /\ tmp = Nil
    \/ op = "assign" /\ n = 2 /\ pc = "right"
    \/ /\ op \in TwoOperandOps /\ n = 2 /\ pos = 0
       /\ pc = "right" \/ (pc = "left" /\ tmp = Nil)
    \/ op = "getvar" /\ n = 1 /\ pc = "body"

(* It evaluates that parameter: a for its first one with no condition yet, *)
(* an if its branch once, and a list its statements with the flags off. *)
Evaluates(pc, pos, tmp, cont) ==
    /\ ParamAt(Op, pc, pos, tmp) < Len(Args)
    /\ EvalArgFrom(ParamAt(Op, pc, pos, tmp), pc, pos, tmp, cont)
    /\ RegularAt(Op, Len(Args), pc, pos, tmp)
    /\ pc = "init" => tmp = Nil \/ queue # <<>>
    /\ Op = "if" => Top.pc \in {"enter", "cond"}
    /\ Op \in ListOps => returnCalled' = FALSE /\ breakCalled' = FALSE /\ jumpTo' = Nil

Descends ==
    \E pc \in Pcs \ {"enter"}, pos \in Nat, tmp \in Value, cont \in BOOLEAN :
        Evaluates(pc, pos, tmp, cont)

(* It goes on without evaluating anything. *)
Stays ==
    /\ Op = "for" /\ Len(Args) = 4
    /\ \E pos \in Nat, tmp \in Value : Continues("every", pos, tmp)
    /\ focus' = Ret(Nil)
    /\ UNCHANGED <<stackVars, runVars>>

(* It hands a value back, having cleared breakCalled if it is one of those  *)
(* that do. *)
Returns ==
    /\ \E v \in Value : Return(v)
    /\ breakCalled' = FALSE \/ Top.pc = "enter" \/ Op \notin ClearsBreak

(* An activation around a return statement hands its value on. *)
Statement(a) ==
    \/ prog[a.node].op \in ListOps /\ a.pc = "stmt"
    \/ prog[a.node].op = "if" /\ a.pc = "body"

Passes ==
    returnCalled /\ Statement(Top) => Return(focus.val) /\ UNCHANGED returnCalled

(* A list goes to the label, unless a statement of it broke or returned. *)
Jumps ==
    Op \in ListOps /\ Top.pc = "stmt" /\ ~returnCalled /\ ~breakCalled /\ jumpTo # Nil
        => jumpTo' = Nil \/ Raise

(* A flag of the environment is not set, and an interrupt that is used up  *)
(* stays so. *)
Keeps ==
    /\ prog' = prog /\ hist' = hist
    /\ breakCalled' \in {breakCalled, FALSE} /\ returnCalled' \in {returnCalled, FALSE}
    /\ jumpTo' \in {jumpTo, Nil} \/ Op \in {"goto", "switch"}
    /\ queue = <<>> => queue' = <<>>

FunctionStep ==
    /\ Running /\ Keeps
    /\ Descends \/ Stays \/ Raise \/ Returns
    /\ Passes /\ Jumps

(* A parameter that is evaluated with the interrupt *)
LEMMA EvalArgDescends ==
    ASSUME CoreInv, Running,
           NEW k \in Nat, NEW pc \in Pcs \ {"enter"}, NEW pos \in Nat, NEW tmp \in Value,
           EvalArg(k, pc, pos, tmp), k = ParamAt(Op, pc, pos, tmp), k < Len(Args),
           RegularAt(Op, Len(Args), pc, pos, tmp),
           pc = "init" => tmp = Nil \/ queue # <<>>,
           Op = "if" => Top.pc \in {"enter", "cond"},
           Op \in ListOps => returnCalled' = FALSE /\ breakCalled' = FALSE /\ jumpTo' = Nil
    PROVE  Descends
  <1>1. Top.cont \in BOOLEAN /\ EvalArgFrom(k, pc, pos, tmp, Top.cont)
    BY TopFacts DEF EvalArg, Running
  <1>2. Evaluates(pc, pos, tmp, Top.cont)
    BY <1>1, Zenon DEF Evaluates
  <1>3. QED
    BY <1>1, <1>2, Zenon DEF Descends

(* The operations of a control function are not those of another. *)
LEMMA Different ==
    /\ "if" \notin ListOps /\ "if" \notin FoldOps /\ "if" \notin TwoOperandOps
    /\ ListOps = {"list", "block"} /\ FoldOps = {"add", "and"}
    /\ TwoOperandOps = {"setvar", "binary"}
  BY DEF ListOps, FoldOps, TwoOperandOps

(* Which parameter is evaluated where, function by function *)
LEMMA Places ==
  ASSUME NEW pos, NEW tmp
  PROVE  /\ \A op \in ListOps \cup FoldOps : ParamAt(op, "stmt", pos, tmp) = pos
         /\ \A op \in {"while", "switch"} :
               ParamAt(op, "cond", pos, tmp) = 0 /\ ParamAt(op, "body", pos, tmp) = 1
         /\ ParamAt("dowhile", "body", pos, tmp) = 0
         /\ ParamAt("dowhile", "cond", pos, tmp) = 1
         /\ ParamAt("for", "init", pos, tmp) = 0 /\ ParamAt("for", "cond", pos, tmp) = 1
         /\ ParamAt("for", "every", pos, tmp) = 2 /\ ParamAt("for", "body", pos, tmp) = 3
         /\ ParamAt("assign", "right", pos, tmp) = 1
         /\ \A op \in TwoOperandOps :
               ParamAt(op, "left", pos, tmp) = 0 /\ ParamAt(op, "right", pos, tmp) = 1
         /\ ParamAt("return", "body", pos, tmp) = 0
         /\ ParamAt("getvar", "body", pos, tmp) = 0
  BY Different DEF ParamAt

(* What the locals are there *)
LEMMA RegularPlaces ==
  ASSUME NEW n \in Nat, NEW pos, NEW tmp
  PROVE  /\ \A op \in ListOps : RegularAt(op, n, "stmt", pos, Nil)
         /\ \A op \in FoldOps :
               (op = "and" => n >= 2) => RegularAt(op, n, "stmt", pos, tmp)
         /\ n >= 2 => /\ RegularAt("if", n, "cond", 0, Nil)
                      /\ tmp \in Truthy \/ n = 3 => RegularAt("if", n, "body", 0, tmp)
         /\ n = 2 => /\ RegularAt("while", n, "cond", 0, Nil)
                     /\ tmp \in Truthy => RegularAt("while", n, "body", 0, tmp)
                     /\ RegularAt("dowhile", n, "body", 0, tmp)
                     /\ RegularAt("dowhile", n, "cond", 0, tmp)
                     /\ RegularAt("switch", n, "cond", 0, tmp)
                     /\ RegularAt("switch", n, "body", 0, tmp)
                     /\ RegularAt("assign", n, "right", 0, Nil)
                     /\ \A op \in TwoOperandOps :
                           /\ RegularAt(op, n, "left", 0, Nil)
                           /\ RegularAt(op, n, "right", 0, tmp)
         /\ n = 4 => /\ RegularAt("for", n, "init", pos, tmp)
                     /\ RegularAt("for", n, "cond", pos, tmp)
                     /\ RegularAt("for", n, "every", pos, tmp)
                     /\ tmp \in Truthy => RegularAt("for", n, "body", pos, tmp)
         /\ n = 1 => /\ RegularAt("return", n, "body", 0, Nil)
                     /\ RegularAt("getvar", n, "body", pos, tmp)
  BY DEF RegularAt, ListOps, FoldOps, TwoOperandOps

(* UMFunction_if *)
LEMMA IfBranchMoves ==
    ASSUME CoreInv, Running, Op = "if", Top.pc \in {"enter", "cond"}, Len(Args) >= 2, NEW c \in Value,
           IfBranch(c)
    PROVE  Descends \/ \E v \in Value : Return(v)
  <1>1. "body" \in Pcs \ {"enter"} /\ Len(Args) \in Nat
    BY TopFacts DEF Pcs, Running
  <1>2. ParamAt(Op, "body", 0, c) = IF c \in Truthy THEN 1 ELSE 2
    BY Different DEF ParamAt
  <1>3. CASE c \in Truthy
    <2>1. RegularAt(Op, Len(Args), "body", 0, c)
      BY <1>1, <1>3, RegularPlaces
    <2>2. QED
      BY <1>1, <1>2, <1>3, <2>1, Different, EvalArgDescends DEF IfBranch
  <1>4. CASE c \notin Truthy /\ Len(Args) = 3
    <2>1. RegularAt(Op, Len(Args), "body", 0, c)
      BY <1>1, <1>4, RegularPlaces
    <2>2. QED
      BY <1>1, <1>2, <1>4, <2>1, Different, EvalArgDescends DEF IfBranch
  <1>5. CASE c \notin Truthy /\ Len(Args) # 3
    BY <1>5, ValueAssumption DEF IfBranch
  <1>6. QED
    BY <1>3, <1>4, <1>5

(* Whatever an activation that is not at a statement does, it does not pass *)
(* a return on, nor jump. *)
LEMMA NotPassing ==
    ASSUME CoreInv, NEW op, NEW pc, At(op, pc),
           ~(op \in ListOps /\ pc = "stmt"), ~(op = "if" /\ pc = "body")
    PROVE  Passes /\ Jumps
  BY AtFacts DEF Passes, Jumps, Statement, Op

(* UMFunction_if hands the value of a branch on as it is. *)
LEMMA IfMoves ==
    ASSUME IInv, IfEnter \/ IfCondition \/ IfReturn
    PROVE  FunctionStep
  <1> USE DEF IInv
  <1>1. CASE IfEnter
    <2>1. At("if", "enter") /\ Keeps
      BY <1>1 DEF IfEnter, envVars, Keeps, PullEntry
    <2>2. Running /\ Op = "if" /\ Top.pc = "enter" /\ Len(Args) \in Nat /\ Passes /\ Jumps
      BY <2>1, AtFacts, TopFacts, NotPassing DEF Running
    <2>3. CASE Len(Args) < 2
      BY <1>1, <2>1, <2>2, <2>3, ValueAssumption DEF IfEnter, FunctionStep, Returns
    <2>4. CASE Len(Args) >= 2
      <3>1. IF Pulled.pos = 0 THEN EvalArg(0, "cond", 0, Nil) ELSE IfBranch(Pulled.tmp)
        BY <1>1, <2>2, <2>4 DEF IfEnter
      <3>2. EvalArg(0, "cond", 0, Nil) => Descends
        <4>1. ParamAt(Op, "cond", 0, Nil) = 0
          BY <2>2, Different DEF ParamAt
        <4>2. RegularAt(Op, Len(Args), "cond", 0, Nil)
          BY <2>2, <2>4, RegularPlaces
        <4>3. QED
          BY <2>2, <2>4, <4>1, <4>2, Different, EvalArgDescends, ValueAssumption DEF Pcs
      <3>3. Descends \/ \E v \in Value : Return(v)
        BY <2>2, <2>4, <3>1, <3>2, IfBranchMoves, PulledFacts
      <3>4. QED
        BY <2>1, <2>2, <3>3 DEF FunctionStep, Returns
    <2>5. QED
      BY <2>2, <2>3, <2>4
  <1>2. CASE IfCondition
    <2>1. At("if", "cond") /\ IfBranch(focus.val) /\ Keeps
      BY <1>2 DEF IfCondition, envVars, Keeps
    <2>2. Running /\ Op = "if" /\ Top.pc = "cond" /\ Len(Args) >= 2 /\ focus.val \in Value
          /\ Passes /\ Jumps
      BY <2>1, AtFacts, ArityFacts, FocusFacts, NotPassing
    <2>3. Descends \/ \E v \in Value : Return(v)
      BY <2>1, <2>2, IfBranchMoves
    <2>4. QED
      BY <2>1, <2>2, <2>3 DEF FunctionStep, Returns, ClearsBreak
  <1>3. CASE IfReturn
    <2>1. At("if", "body") /\ Return(focus.val) /\ Keeps /\ returnCalled' = returnCalled
      BY <1>3 DEF IfReturn, envVars, Keeps
    <2>2. Running /\ Op = "if" /\ focus.val \in Value
      BY <2>1, AtFacts, FocusFacts
    <2>3. QED
      BY <2>1, <2>2, Different DEF FunctionStep, Returns, ClearsBreak, Passes, Jumps
  <1>4. QED
    BY <1>1, <1>2, <1>3

(* A step of a function that is not at a statement *)
LEMMA Moves ==
  ASSUME CoreInv, NEW op, NEW pc, At(op, pc),
         ~(op \in ListOps /\ pc = "stmt"), ~(op = "if" /\ pc = "body"),
         Keeps, Descends \/ Stays \/ Raise \/ Returns
  PROVE  FunctionStep
  <1>1. Running /\ Passes /\ Jumps
    BY AtFacts, NotPassing
  <1>2. QED
    BY <1>1 DEF FunctionStep

(* UMFunction_list and UMFunction_block *)
LEMMA ListLoopMoves ==
  ASSUME CoreInv, Running, Op \in ListOps, NEW i \in Nat, NEW v \in Value, ListLoop(i, v)
  PROVE  /\ Descends \/ Returns
         /\ breakCalled' \in {breakCalled, FALSE} /\ returnCalled' \in {returnCalled, FALSE}
         /\ jumpTo' \in {jumpTo, Nil} /\ (i < Len(Args) => jumpTo' = Nil)
  <1>1. Len(Args) \in Nat /\ Op \notin ClearsBreak /\ Op # "if"
    BY TopFacts, Different DEF Running, ClearsBreak
  <1>2. CASE i >= Len(Args)
    BY <1>1, <1>2 DEF ListLoop, Returns
  <1>3. CASE i < Len(Args)
    <2>1. EvalArg(i, "stmt", i, Nil) /\ breakCalled' = FALSE /\ returnCalled' = FALSE
          /\ jumpTo' = Nil
      BY <1>1, <1>3 DEF ListLoop
    <2>2. i = ParamAt(Op, "stmt", i, Nil)
      BY Different DEF ParamAt
    <2>5. "stmt" \in Pcs \ {"enter"} /\ Nil \in Value /\ RegularAt(Op, Len(Args), "stmt", i, Nil)
      BY <1>1, RegularPlaces, ValueAssumption DEF Pcs
    <2>3. Descends
      BY <1>1, <1>3, <2>1, <2>2, <2>5, EvalArgDescends
    <2>4. QED
      BY <2>1, <2>3
  <1>4. i >= Len(Args) \/ i < Len(Args)
    BY <1>1
  <1>5. QED
    BY <1>2, <1>3, <1>4

(* A list whose statement called return hands its value on (UMFunction_list.m). *)
LEMMA ListMoves ==
  ASSUME IInv, NEW op \in ListOps, ListEnter(op) \/ ListNext(op)
  PROVE  FunctionStep
  <1> USE DEF IInv
  <1>1. CASE ListEnter(op)
    <2>1. At(op, "enter") /\ prog' = prog /\ hist' = hist /\ (queue = <<>> => queue' = <<>>)
      BY <1>1 DEF ListEnter, PullEntry
    <2>2. Running /\ Op \in ListOps /\ calls # <<>> /\ Len(Args) \in Nat /\ Pulled.pos \in Nat
      BY <2>1, AtFacts, TopFacts, PulledFacts DEF Running
    <2>3. PICK i \in Nat : ListLoop(i, Nil)
      BY <1>1, <2>2, LabelFacts DEF ListEnter
    <2>4. (Descends \/ Returns) /\ Keeps
      BY <2>1, <2>2, <2>3, ListLoopMoves, ValueAssumption DEF Keeps
    <2>5. QED
      BY <2>1, <2>4, Moves, Different
  <1>2. CASE ListNext(op)
    <2>1. At(op, "stmt") /\ prog' = prog /\ hist' = hist /\ queue' = queue
      BY <1>2 DEF ListNext
    <2>2. Running /\ Op \in ListOps /\ Op \notin ClearsBreak /\ calls # <<>> /\ Top.pos + 1 \in Nat
      BY <2>1, AtFacts, TopFacts, Different DEF Running, ClearsBreak
    <2>3. focus.val \in Value /\ returnValue \in Value
      BY FocusFacts DEF DataInv
    <2>4. CASE returnCalled
      <3>1. Return(focus.val) /\ UNCHANGED <<returnCalled, breakCalled, jumpTo>>
        BY <1>2, <2>4 DEF ListNext
      <3>2. QED
        BY <2>1, <2>2, <2>3, <2>4, <3>1 DEF FunctionStep, Returns, Passes, Keeps, Jumps
    <2>5. CASE ~returnCalled /\ breakCalled
      <3>1. Return(returnValue) /\ UNCHANGED envVars
        BY <1>2, <2>5 DEF ListNext
      <3>2. QED
        BY <2>1, <2>2, <2>3, <2>5, <3>1
           DEF FunctionStep, Returns, Passes, envVars, Keeps, Jumps
    <2>6. CASE ~returnCalled /\ ~breakCalled
      <3>1. \/ \E i \in Nat : /\ ListLoop(i, returnValue)
                              /\ jumpTo = Nil \/ i < Len(Args)
            \/ Raise /\ UNCHANGED envVars
        BY <1>2, <2>2, <2>6, LabelFacts DEF ListNext
      <3>2. /\ Descends \/ Returns \/ Raise
            /\ breakCalled' \in {breakCalled, FALSE} /\ returnCalled' \in {returnCalled, FALSE}
            /\ jumpTo' \in {jumpTo, Nil} /\ (jumpTo # Nil => jumpTo' = Nil \/ Raise)
        BY <2>2, <2>3, <3>1, ListLoopMoves DEF envVars
      <3>3. QED
        BY <2>1, <2>2, <2>6, <3>2 DEF FunctionStep, Passes, Keeps, Jumps
    <2>7. QED
      BY <2>4, <2>5, <2>6 DEF DataInv
  <1>3. QED
    BY <1>1, <1>2

(* UMFunction_while *)
LEMMA WhileMoves ==
  ASSUME IInv, WhileEnter \/ WhileCondition \/ WhileBody
  PROVE  FunctionStep
  <1> USE DEF IInv
  <1>0. Keeps
    BY DEF WhileEnter, WhileTest, WhileCondition, WhileBody, Keeps, PullEntry
  <1>1. PICK pc \in {"enter", "cond", "body"} : At("while", pc)
    BY DEF WhileEnter, WhileCondition, WhileBody
  <1>2. /\ Running /\ Op = "while" /\ Top.pc = pc /\ Len(Args) \in Nat
        /\ Top.tmp \in Value /\ focus.val \in Value
        /\ Pulled.tmp \in Value /\ (pc # "enter" => Len(Args) = 2)
    BY <1>1, AtFacts, ArityFacts, TopFacts, FocusFacts, PulledFacts DEF Running
  <1>3. \/ Raise /\ UNCHANGED breakCalled
        \/ Top.pc = "enter" /\ UNCHANGED breakCalled /\ Return(Null)
        \/ /\ Len(Args) = 2 /\ breakCalled' \in {breakCalled, FALSE}
           /\ \/ EvalArg(0, "cond", 0, Nil)
              \/ \E c \in Truthy : EvalArg(1, "body", 0, c)
        \/ breakCalled' = FALSE /\ \E c \in Value : Return(c)
    <2>1. CASE WhileEnter
      <3>1. Top.pc = "enter"
        BY <2>1, AtFacts DEF WhileEnter
      <3>2. CASE Len(Args) < 2
        BY <2>1, <3>2 DEF WhileEnter
      <3>3. CASE Len(Args) > 2
        BY <1>2, <2>1, <3>1, <3>3 DEF WhileEnter
      <3>4. CASE Len(Args) = 2
        BY <1>2, <2>1, <3>4 DEF WhileEnter, WhileTest
      <3>5. \A n \in Nat : n < 2 \/ n > 2 \/ n = 2
        OBVIOUS
      <3>6. QED
        BY <1>2, <3>2, <3>3, <3>4, <3>5
    <2>2. CASE WhileCondition
      <3>1. Len(Args) = 2
        BY <2>2, AtFacts, ArityFacts DEF WhileCondition
      <3>2. QED
        BY <1>2, <2>2, <3>1 DEF WhileCondition
    <2>3. CASE WhileBody
      <3>1. Len(Args) = 2
        BY <2>3, AtFacts, ArityFacts DEF WhileBody
      <3>2. QED
        BY <1>2, <2>3, <3>1 DEF WhileBody
    <2>4. QED
      BY <2>1, <2>2, <2>3
  <1>4. CASE Raise /\ UNCHANGED breakCalled
    BY <1>0, <1>1, <1>4, Moves, Different
  <1>5. CASE Top.pc = "enter" /\ UNCHANGED breakCalled /\ Return(Null)
    <2>1. Returns
      BY <1>5, ValueAssumption DEF Returns
    <2>2. QED
      BY <1>0, <1>1, <1>5, <2>1, Moves, Different
  <1>6. CASE /\ Len(Args) = 2 /\ breakCalled' \in {breakCalled, FALSE}
             /\ \/ EvalArg(0, "cond", 0, Nil)
                \/ \E c \in Truthy : EvalArg(1, "body", 0, c)
    <2>1. Op = "while" /\ Op # "if" /\ Op \notin ListOps /\ Len(Args) = 2
          /\ 0 < Len(Args) /\ 1 < Len(Args) /\ Nil \in Value /\ Truthy \subseteq Value
      BY <1>2, <1>6, Different, ValueAssumption
    <2>2. ASSUME EvalArg(0, "cond", 0, Nil) PROVE Descends
      <3>1. RegularAt(Op, Len(Args), "cond", 0, Nil) /\ 0 = ParamAt(Op, "cond", 0, Nil)
        BY <1>2, <2>1, Places, RegularPlaces
      <3>2. QED
        BY <1>2, <2>1, <2>2, <3>1, EvalArgDescends DEF Pcs
    <2>3. ASSUME \E c \in Truthy : EvalArg(1, "body", 0, c) PROVE Descends
      <3>1. PICK c \in Truthy : EvalArg(1, "body", 0, c)
        BY <2>3
      <3>2. RegularAt(Op, Len(Args), "body", 0, c) /\ 1 = ParamAt(Op, "body", 0, c)
        BY <1>2, <2>1, Places, RegularPlaces
      <3>3. QED
        BY <1>2, <2>1, <3>1, <3>2, EvalArgDescends DEF Pcs
    <2>4. Descends
      BY <1>6, <2>2, <2>3
    <2>5. QED
      BY <1>0, <1>1, <1>6, <2>4, Moves, Different
  <1>7. CASE breakCalled' = FALSE /\ \E c \in Value : Return(c)
    <2>1. Returns
      BY <1>7 DEF Returns
    <2>2. QED
      BY <1>0, <1>1, <1>7, <2>1, Moves, Different
  <1>8. QED
    BY <1>3, <1>4, <1>5, <1>6, <1>7

(* The other functions are at no statement.  One that hands a value back   *)
LEMMA Answers ==
  ASSUME CoreInv, NEW op, NEW pc, At(op, pc), op \notin ListOps, op # "if", Keeps,
         \E v \in Value : Return(v),
         breakCalled' = FALSE \/ pc = "enter" \/ op \notin ClearsBreak
  PROVE  FunctionStep
  <1>1. Op = op /\ Top.pc = pc
    BY AtFacts
  <1>2. Returns
    BY <1>1 DEF Returns
  <1>3. QED
    BY <1>2, Moves DEF Keeps

(* ... and evaluates a parameter. *)
LEMMA Asks ==
  ASSUME CoreInv, NEW op, NEW pc, At(op, pc), op \notin ListOps, op # "if", Keeps,
         NEW k \in Nat, NEW at \in Pcs \ {"enter"}, NEW pos \in Nat, NEW tmp \in Value,
         EvalArg(k, at, pos, tmp), k = ParamAt(op, at, pos, tmp), k < Len(Args),
         RegularAt(op, Len(Args), at, pos, tmp), at = "init" => tmp = Nil \/ queue # <<>>
  PROVE  FunctionStep
  <1>1. Op = op /\ Running
    BY AtFacts
  <1>2. Descends
    BY <1>1, EvalArgDescends
  <1>3. QED
    BY <1>2, Moves DEF Keeps

(* The names of the places are those of Pcs. *)
LEMMA PlaceNames ==
  {"stmt", "cond", "body", "every", "init", "left", "right"} \subseteq Pcs \ {"enter"}
  BY DEF Pcs

(* UMFunction_dowhile *)
LEMMA DoWhileMoves ==
  ASSUME IInv, DoWhileEnter \/ DoWhileBody \/ DoWhileCondition
  PROVE  FunctionStep
  <1>0. CoreInv /\ DataInv /\ Keeps
    BY DEF DoWhileEnter, DoWhileCondition, DoWhileBody, envVars, Keeps, PullEntry, IInv
  <1>1. PICK pc \in {"enter", "cond", "body"} : At("dowhile", pc)
    BY DEF DoWhileEnter, DoWhileCondition, DoWhileBody
  <1>2. /\ Running /\ Top.tmp \in Value /\ focus.val \in Value /\ Nil \in Value /\ Null \in Value
        /\ (pc # "enter" => Len(Args) = 2)
    BY <1>0, <1>1, AtFacts, ArityFacts, TopFacts, FocusFacts, ValueAssumption DEF Running
  <1>3. "dowhile" \notin ListOps /\ "dowhile" \notin ClearsBreak
    BY DEF ListOps, ClearsBreak
  <1>4. \/ \E v \in Value : Return(v)
        \/ Len(Args) = 2 /\ EvalArg(1, "cond", 0, Nil)
        \/ Len(Args) = 2 /\ \E v \in Value : EvalArg(0, "body", 0, v)
    <2>1. CASE DoWhileEnter
      BY <1>2, <2>1 DEF DoWhileEnter
    <2>2. CASE DoWhileBody
      <3>1. Len(Args) = 2
        BY <1>0, <2>2, AtFacts, ArityFacts DEF DoWhileBody
      <3>2. QED
        BY <1>2, <2>2, <3>1 DEF DoWhileBody
    <2>3. CASE DoWhileCondition
      <3>1. Len(Args) = 2
        BY <1>0, <2>3, AtFacts, ArityFacts DEF DoWhileCondition
      <3>2. QED
        BY <1>2, <2>3, <3>1 DEF DoWhileCondition
    <2>4. QED
      BY <2>1, <2>2, <2>3
  <1>5. CASE \E v \in Value : Return(v)
    BY <1>0, <1>1, <1>3, <1>5, Answers
  <1>9. \A t \in Value :
           /\ ParamAt("dowhile", "body", 0, t) = 0 /\ RegularAt("dowhile", 2, "body", 0, t)
           /\ ParamAt("dowhile", "cond", 0, t) = 1 /\ RegularAt("dowhile", 2, "cond", 0, t)
    BY Places, RegularPlaces
  <1>6. CASE Len(Args) = 2 /\ EvalArg(1, "cond", 0, Nil)
    BY <1>0, <1>1, <1>2, <1>3, <1>6, <1>9, PlaceNames, Asks
  <1>7. CASE Len(Args) = 2 /\ \E v \in Value : EvalArg(0, "body", 0, v)
    BY <1>0, <1>1, <1>2, <1>3, <1>7, <1>9, PlaceNames, Asks
  <1>8. QED
    BY <1>4, <1>5, <1>6, <1>7

(* UMFunction_for *)
LEMMA ForLoopMoves ==
  ASSUME CoreInv, NEW pc, At("for", pc), Keeps, Len(Args) = 4,
         NEW start \in Nat, NEW c \in Value,
         ForLoop(start, c) \/ ForTest(start, c) \/ (ForEvery(start, c) /\ UNCHANGED breakCalled)
  PROVE  FunctionStep
  <1>1. "for" \notin ListOps
    BY DEF ListOps
  <1>2. \/ EvalArg(1, "cond", start, c) /\ UNCHANGED breakCalled
        \/ Return(c) /\ breakCalled' = FALSE
        \/ c \in Truthy /\ EvalArg(3, "body", start, c) /\ UNCHANGED breakCalled
        \/ EvalArg(2, "every", start, c) /\ UNCHANGED breakCalled
        \/ /\ Continues("every", start, c) /\ focus' = Ret(Nil)
           /\ UNCHANGED <<stackVars, runVars>> /\ UNCHANGED breakCalled
    BY DEF ForLoop, ForTest, ForEvery
  <1>3. CASE EvalArg(1, "cond", start, c) /\ UNCHANGED breakCalled
    BY <1>1, <1>3, Places, RegularPlaces, PlaceNames, Asks
  <1>4. CASE Return(c) /\ breakCalled' = FALSE
    BY <1>1, <1>4, Answers
  <1>5. CASE c \in Truthy /\ EvalArg(3, "body", start, c) /\ UNCHANGED breakCalled
    BY <1>1, <1>5, Places, RegularPlaces, PlaceNames, Asks
  <1>6. CASE EvalArg(2, "every", start, c) /\ UNCHANGED breakCalled
    BY <1>1, <1>6, Places, RegularPlaces, PlaceNames, Asks
  <1>7. CASE /\ Continues("every", start, c) /\ focus' = Ret(Nil)
             /\ UNCHANGED <<stackVars, runVars>> /\ UNCHANGED breakCalled
    <2>1. Stays
      BY <1>7, AtFacts DEF Stays
    <2>2. QED
      BY <1>1, <1>7, <2>1, Moves
  <1>8. QED
    BY <1>2, <1>3, <1>4, <1>5, <1>6, <1>7

(* Wherever a for is, it goes on through ForLoop, ForTest or ForEvery. *)
LEMMA ForMoves ==
  ASSUME IInv, ForEnter \/ ForInit \/ ForCondition \/ ForBody \/ ForNext
  PROVE  FunctionStep
  <1>0. CoreInv /\ DataInv /\ Keeps
    BY DEF ForEnter, ForInit, ForCondition, ForBody, ForNext, ForLoop, ForTest, IInv, Keeps,
           PullEntry, envVars
  <1>1. "for" \notin ListOps /\ Nil \in Value /\ Null \in Value
    BY ValueAssumption DEF ListOps
  <1>2. CASE ForEnter
    <2>1. At("for", "enter") /\ Pulled.pos \in Nat /\ Pulled.tmp \in Value
      BY <1>0, <1>2, PulledFacts DEF ForEnter
    <2>2. CASE Len(Args) # 4
      <3>1. Return(Null)
        BY <1>2, <2>2 DEF ForEnter
      <3>2. "for" \in ClearsBreak
        BY DEF ClearsBreak
      <3>3. QED
        BY <1>0, <1>1, <2>1, <3>1, <3>2, Answers
    <2>3. CASE Len(Args) = 4 /\ Pulled.pos = 0
      <3>1. EvalArg(0, "init", 0, Pulled.tmp)
        BY <1>2, <2>3 DEF ForEnter
      <3>2. queue = <<>> => Pulled.tmp = Nil
        BY DEF Pulled, NoEntry, EntryAt
      <3>3. QED
        BY <1>0, <1>1, <2>1, <2>3, <3>1, <3>2, Places, RegularPlaces, PlaceNames, Asks
    <2>4. CASE Len(Args) = 4 /\ Pulled.pos # 0
      <3>1. ForLoop(Pulled.pos, Pulled.tmp)
        BY <1>2, <2>4 DEF ForEnter
      <3>2. QED
        BY <1>0, <2>1, <2>4, <3>1, ForLoopMoves
    <2>5. QED
      BY <2>2, <2>3, <2>4
  <1>3. ASSUME NEW pc \in {"init", "cond", "body", "every"}, At("for", pc)
        PROVE  Len(Args) = 4 /\ Top.tmp \in Value /\ Top.pos \in Nat /\ focus.val \in Value
    BY <1>0, <1>3, AtFacts, ArityFacts, TopFacts, FocusFacts DEF Running
  <1>4. CASE ForInit
    <2>1. At("for", "init") /\ EvalArg(1, "cond", Top.pos, Top.tmp)
      BY <1>4 DEF ForInit
    <2>2. Len(Args) = 4 /\ Top.tmp \in Value /\ Top.pos \in Nat
      BY <1>3, <2>1
    <2>3. 1 = ParamAt("for", "cond", Top.pos, Top.tmp) /\ 1 < Len(Args)
          /\ RegularAt("for", Len(Args), "cond", Top.pos, Top.tmp)
      BY <2>2, Places, RegularPlaces
    <2>4. QED
      BY <1>0, <1>1, <2>1, <2>2, <2>3, PlaceNames, Asks
  <1>5. CASE ForCondition
    <2>1. At("for", "cond") /\ ForTest(Top.pos, focus.val)
      BY <1>5 DEF ForCondition
    <2>2. QED
      BY <1>0, <1>3, <2>1, ForLoopMoves
  <1>6. CASE ForBody
    <2>1. At("for", "body") /\ ForEvery(Top.pos, Top.tmp) /\ UNCHANGED breakCalled
      BY <1>6 DEF ForBody, envVars
    <2>2. QED
      BY <1>0, <1>3, <2>1, ForLoopMoves
  <1>7. CASE ForNext
    <2>1. At("for", "every") /\ ForLoop(Top.pos, Top.tmp)
      BY <1>7 DEF ForNext
    <2>2. QED
      BY <1>0, <1>3, <2>1, ForLoopMoves
  <1>8. QED
    BY <1>2, <1>4, <1>5, <1>6, <1>7

(* UMFunction_switch *)
LEMMA SwitchMoves ==
  ASSUME IInv, SwitchEnter \/ SwitchCondition \/ SwitchReturn
  PROVE  FunctionStep
  <1>0. CoreInv /\ DataInv /\ Keeps
    BY AtFacts DEF SwitchEnter, SwitchCondition, SwitchReturn, IInv, Keeps, PullEntry
  <1>1. "switch" \notin ListOps /\ Nil \in Value /\ Null \in Value
    BY ValueAssumption DEF ListOps
  <1>9. \A t \in Value :
           /\ ParamAt("switch", "cond", 0, t) = 0 /\ RegularAt("switch", 2, "cond", 0, t)
           /\ ParamAt("switch", "body", 0, t) = 1 /\ RegularAt("switch", 2, "body", 0, t)
    BY Places, RegularPlaces
  <1>2. CASE SwitchEnter
    <2>1. At("switch", "enter") /\ Pulled.tmp \in Value
      BY <1>0, <1>2, PulledFacts DEF SwitchEnter
    <2>2. CASE Len(Args) # 2
      <3>1. Return(Null)
        BY <1>2, <2>2 DEF SwitchEnter
      <3>2. QED
        BY <1>0, <1>1, <2>1, <3>1, Answers
    <2>3. CASE Len(Args) = 2 /\ Pulled.pos = 0
      <3>1. EvalArg(0, "cond", 0, Nil)
        BY <1>2, <2>3 DEF SwitchEnter
      <3>2. QED
        BY <1>0, <1>1, <2>1, <2>3, <3>1, <1>9, PlaceNames, Asks
    <2>4. CASE Len(Args) = 2 /\ Pulled.pos # 0
      <3>1. EvalArg(1, "body", 0, Pulled.tmp)
        BY <1>2, <2>4 DEF SwitchEnter, SwitchBlock
      <3>2. QED
        BY <1>0, <1>1, <2>1, <2>4, <3>1, <1>9, PlaceNames, Asks
    <2>5. QED
      BY <2>2, <2>3, <2>4
  <1>3. CASE SwitchCondition
    <2>1. At("switch", "cond") /\ EvalArg(1, "body", 0, focus.val)
      BY <1>3 DEF SwitchCondition, SwitchBlock
    <2>2. Len(Args) = 2 /\ focus.val \in Value
      BY <1>0, <2>1, AtFacts, ArityFacts, FocusFacts
    <2>3. QED
      BY <1>0, <1>1, <2>1, <2>2, <1>9, PlaceNames, Asks
  <1>4. CASE SwitchReturn
    <2>1. At("switch", "body") /\ Return(Null) /\ breakCalled' = FALSE
      BY <1>4 DEF SwitchReturn
    <2>2. QED
      BY <1>0, <1>1, <2>1, Answers
  <1>5. QED
    BY <1>2, <1>3, <1>4

(* UMFunction_return before the value is there, UMFunction_goto *)
LEMMA ReturnEnterMoves ==
  ASSUME IInv, ReturnEnter
  PROVE  FunctionStep
  <1>0. CoreInv /\ At("return", "enter") /\ Keeps /\ "return" \notin ListOps
    BY DEF ReturnEnter, IInv, Keeps, PullEntry, envVars, ListOps
  <1>1. Nil \in Value /\ Null \in Value
    BY ValueAssumption
  <1>2. CASE Len(Args) # 1
    <2>1. Return(Null)
      BY <1>2 DEF ReturnEnter
    <2>2. QED
      BY <1>0, <1>1, <2>1, Answers
  <1>3. CASE Len(Args) = 1
    <2>1. EvalArg(0, "body", 0, Nil)
      BY <1>3 DEF ReturnEnter
    <2>2. ParamAt("return", "body", 0, Nil) = 0 /\ RegularAt("return", 1, "body", 0, Nil)
      BY Places, RegularPlaces
    <2>3. QED
      BY <1>0, <1>1, <1>3, <2>1, <2>2, PlaceNames, Asks
  <1>4. QED
    BY <1>2, <1>3

(* A goto raises or hands nil back. *)
LEMMA GotoMoves ==
  ASSUME IInv, Goto
  PROVE  FunctionStep
  <1>0. CoreInv /\ At("goto", "enter") /\ Keeps /\ "goto" \notin ListOps /\ Nil \in Value
    BY AtFacts, ValueAssumption DEF Goto, IInv, Keeps, ListOps
  <1>1. CASE Raise
    BY <1>0, <1>1, Moves DEF Keeps
  <1>2. CASE Return(Nil)
    BY <1>0, <1>2, Answers
  <1>3. QED
    BY <1>1, <1>2 DEF Goto

(* UMFunction_assign and the functions of two operands *)
LEMMA AssignMoves ==
  ASSUME IInv, AssignEnter \/ AssignValue
  PROVE  FunctionStep
  <1>0. CoreInv /\ Keeps /\ "assign" \notin ListOps /\ "assign" \notin ClearsBreak
    BY DEF AssignEnter, AssignValue, IInv, Keeps, envVars, ListOps, ClearsBreak
  <1>1. Nil \in Value /\ Null \in Value /\ focus.val \in Value
    BY <1>0, FocusFacts, ValueAssumption
  <1>2. PICK pc : At("assign", pc)
    BY DEF AssignEnter, AssignValue
  <1>3. \/ \E v \in Value : Return(v)
        \/ Len(Args) = 2 /\ EvalArg(1, "right", 0, Nil)
    BY <1>1 DEF AssignEnter, AssignValue
  <1>4. CASE \E v \in Value : Return(v)
    BY <1>0, <1>2, <1>4, Answers
  <1>5. CASE Len(Args) = 2 /\ EvalArg(1, "right", 0, Nil)
    <2>1. ParamAt("assign", "right", 0, Nil) = 1 /\ RegularAt("assign", 2, "right", 0, Nil)
      BY Places, RegularPlaces
    <2>2. QED
      BY <1>0, <1>1, <1>2, <1>5, <2>1, PlaceNames, Asks
  <1>6. QED
    BY <1>3, <1>4, <1>5

(* The left operand before the right one, each with the interrupt *)
LEMMA OperandMoves ==
  ASSUME IInv, NEW op \in TwoOperandOps, OperandsEnter(op) \/ OperandsLeft(op)
  PROVE  FunctionStep
  <1>0. CoreInv /\ DataInv /\ Keeps /\ op \notin ListOps /\ op \notin ClearsBreak /\ op # "if"
    BY DEF OperandsEnter, OperandsLeft, IInv, Keeps, PullEntry, envVars, ListOps, TwoOperandOps, ClearsBreak
  <1>1. Nil \in Value /\ Null \in Value /\ focus.val \in Value /\ Pulled.tmp \in Value
    BY <1>0, FocusFacts, PulledFacts, ValueAssumption
  <1>5. \A t \in Value : /\ ParamAt(op, "left", 0, t) = 0 /\ ParamAt(op, "right", 0, t) = 1
                         /\ RegularAt(op, 2, "left", 0, Nil) /\ RegularAt(op, 2, "right", 0, t)
    <2>1. SUFFICES ASSUME NEW t \in Value
                   PROVE  /\ ParamAt(op, "left", 0, t) = 0 /\ ParamAt(op, "right", 0, t) = 1
                          /\ RegularAt(op, 2, "left", 0, Nil) /\ RegularAt(op, 2, "right", 0, t)
      OBVIOUS
    <2>2. ParamAt(op, "left", 0, t) = 0 /\ ParamAt(op, "right", 0, t) = 1
      BY Places
    <2>3. RegularAt(op, 2, "left", 0, Nil) /\ RegularAt(op, 2, "right", 0, t)
      BY RegularPlaces
    <2>4. QED
      BY <2>2, <2>3
  <1>6. Len(Args) = 2 => 0 < Len(Args) /\ 1 < Len(Args)
    <2>1. \A n : n = 2 => 0 < n /\ 1 < n
      OBVIOUS
    <2>2. QED
      BY <2>1
  <1>2. CASE OperandsEnter(op)
    <2>1. At(op, "enter")
      BY <1>2 DEF OperandsEnter
    <2>2. CASE Len(Args) # 2
      <3>1. Return(Null)
        BY <1>2, <2>2 DEF OperandsEnter
      <3>2. QED
        BY <1>0, <1>1, <2>1, <3>1, Answers
    <2>3. CASE Len(Args) = 2 /\ EvalArg(0, "left", 0, Nil)
      BY <1>0, <1>1, <1>5, <1>6, <2>1, <2>3, PlaceNames, Asks
    <2>4. CASE Len(Args) = 2 /\ EvalArg(1, "right", 0, Pulled.tmp)
      BY <1>0, <1>1, <1>5, <1>6, <2>1, <2>4, PlaceNames, Asks
    <2>5. QED
      BY <1>2, <2>2, <2>3, <2>4 DEF OperandsEnter
  <1>3. CASE OperandsLeft(op)
    <2>1. At(op, "left") /\ EvalArg(1, "right", 0, focus.val)
      BY <1>3 DEF OperandsLeft
    <2>2. Len(Args) = 2
      BY <1>0, <2>1, AtFacts, ArityFacts DEF TwoOperandOps
    <2>3. QED
      BY <1>0, <1>1, <1>5, <1>6, <2>1, <2>2, PlaceNames, Asks
  <1>4. QED
    BY <1>2, <1>3

(* UMFunction_add and UMFunction_and *)
LEMMA FoldMoves ==
  ASSUME IInv, NEW op \in FoldOps, FoldEnter(op) \/ FoldNext(op)
  PROVE  FunctionStep
  <1>0. CoreInv /\ DataInv /\ Keeps /\ op \notin ListOps /\ op \notin ClearsBreak /\ op # "if"
    BY DEF FoldEnter, FoldNext, IInv, Keeps, PullEntry, envVars, ListOps, FoldOps, ClearsBreak
  <1>1. PICK pc : At(op, pc)
    BY DEF FoldEnter, FoldNext
  <1>2. Running /\ Top.pos + 1 \in Nat /\ Len(Args) \in Nat /\ focus.val \in Value
        /\ Pulled.tmp \in Value /\ Pulled.pos \in Nat /\ Null \in Value
    BY <1>0, <1>1, AtFacts, TopFacts, FocusFacts, PulledFacts, ValueAssumption DEF Running
  <1>3. \/ Return(Null)
        \/ /\ op = "and" => Len(Args) >= 2
           /\ \E i \in Nat, v \in Value : FoldLoop(i, v)
    <2>1. CASE FoldEnter(op)
      BY <1>2, <2>1 DEF FoldEnter
    <2>2. CASE FoldNext(op)
      <3>1. op = "and" => Len(Args) >= 2
        BY <1>0, <2>2, AtFacts, ArityFacts DEF FoldNext
      <3>2. QED
        BY <1>2, <2>2, <3>1, ValueAssumption DEF FoldNext
    <2>3. QED
      BY <2>1, <2>2
  <1>4. CASE Return(Null)
    BY <1>0, <1>1, <1>2, <1>4, Answers
  <1>5. CASE /\ op = "and" => Len(Args) >= 2
             /\ \E i \in Nat, v \in Value : FoldLoop(i, v)
    <2>1. PICK i \in Nat, v \in Value : FoldLoop(i, v)
      BY <1>5
    <2>2. CASE i >= Len(Args)
      <3>1. Return(v)
        BY <2>1, <2>2 DEF FoldLoop
      <3>2. QED
        BY <1>0, <1>1, <3>1, Answers
    <2>3. CASE ~(i >= Len(Args))
      <3>1. EvalArg(i, "stmt", i, v) /\ i < Len(Args)
        BY <1>2, <2>1, <2>3 DEF FoldLoop
      <3>2. i = ParamAt(op, "stmt", i, v) /\ RegularAt(op, Len(Args), "stmt", i, v)
        BY <1>2, <1>5, Places, RegularPlaces
      <3>3. QED
        BY <1>0, <1>1, <3>1, <3>2, PlaceNames, Asks
    <2>4. QED
      BY <2>2, <2>3
  <1>6. QED
    BY <1>3, <1>4, <1>5

(* The functions that only answer, and getvar, which evaluates its name    *)
(* without the interrupt *)
LEMMA ValueMoves ==
  ASSUME IInv, SetVariable \/ Compare \/ GetVariable \/ Increase \/ UserFunction
  PROVE  FunctionStep
  <1>0. CoreInv /\ Keeps
    BY DEF SetVariable, Compare, GetVariable, Increase, UserFunction, IInv, Keeps, envVars
  <1>1. PICK op \in {"setvar", "binary", "getvar", "increase", "user"} : \E pc : At(op, pc)
    BY DEF SetVariable, Compare, GetVariable, Increase, UserFunction
  <1>2. op \notin ListOps /\ op \notin ClearsBreak /\ op # "if"
    BY DEF ListOps, ClearsBreak
  <1>3. \E v \in Value : Return(v)
    BY <1>0, FocusFacts, ValueAssumption DEF SetVariable, Compare, GetVariable, Increase, UserFunction
  <1>4. QED
    BY <1>0, <1>1, <1>2, <1>3, Answers

(* getvar asks for its name with continueFrom: nil (UMFunction_getvar.m). *)
LEMMA GetVariableMoves ==
  ASSUME IInv, GetVariableEnter
  PROVE  FunctionStep
  <1>0. CoreInv /\ Keeps /\ At("getvar", "enter") /\ "getvar" \notin ListOps
    BY DEF GetVariableEnter, IInv, Keeps, PullEntry, envVars, ListOps
  <1>1. Nil \in Value /\ Null \in Value /\ Op = "getvar"
    BY <1>0, AtFacts, ValueAssumption
  <1>2. CASE Len(Args) # 1
    <2>1. Return(Null)
      BY <1>2 DEF GetVariableEnter
    <2>2. QED
      BY <1>0, <1>1, <2>1, Answers
  <1>3. CASE Len(Args) = 1
    <2>1. EvalArgFrom(0, "body", 0, Nil, FALSE) /\ ParamAt("getvar", "body", 0, Nil) = 0
      BY <1>3, Places DEF GetVariableEnter
    <2>5. 0 < Len(Args) /\ Op # "if" /\ Op \notin ListOps
      BY <1>0, <1>1, <1>3
    <2>6. RegularAt(Op, Len(Args), "body", 0, Nil)
      BY <1>1, <1>3, RegularPlaces
    <2>2. Evaluates("body", 0, Nil, FALSE)
      BY <1>1, <2>1, <2>5, <2>6 DEF Evaluates
    <2>3. Descends
      BY <1>1, <2>2, PlaceNames DEF Descends
    <2>4. QED
      BY <1>0, <2>3, Moves DEF Keeps
  <1>4. QED
    BY <1>2, <1>3

(* What a step of the evaluator does to the activations *)
LEMMA EvaluateMoves ==
  ASSUME IInv, Evaluate
  PROVE  \/ FunctionStep \/ EvalLeaf \/ EvalFunctionCall
         \/ ReturnValue \/ Break
         \/ HostAnswers \/ HostInterrupts \/ HostRaises
         \/ Unwind \/ FinishRun \/ SuspendRun
  BY ListMoves, IfMoves, WhileMoves, DoWhileMoves, ForMoves, SwitchMoves,
     ReturnEnterMoves, GotoMoves, AssignMoves, OperandMoves, FoldMoves, ValueMoves,
     GetVariableMoves, Zenon DEF Evaluate

-----------------------------------------------------------------------------
(* What the steps do to the sequence of activations *)

(* The outermost n activations stay, and are all there are. *)
Outer(n) == Len(calls') = n /\ \A j \in 1 .. n : calls'[j] = calls[j]

(* Only the place of the innermost one changes. *)
Same ==
    /\ Len(calls') = Len(calls)
    /\ \A j \in 1 .. Len(calls) :
          /\ calls'[j].node = calls[j].node
          /\ j < Len(calls) => calls'[j] = calls[j]
    /\ calls'[Len(calls)].pc # "enter"

(* A parameter of the innermost term is to be evaluated next. *)
Param(k) ==
    /\ k < Len(Args) /\ focus'.k = "eval" /\ focus'.node = Args[k + 1]
    /\ Op \in ListOps \/ (Op = "if" /\ k > 0) => Statement(calls'[Len(calls)])

(* The script's terms and their operations stay what they are. *)
Lengths ==
    /\ calls \in Seq(Activation) /\ Len(calls) \in Nat
    /\ \A j \in 1 .. Len(calls) : calls[j] \in Activation

(* The activations are ones of the script. *)
LEMMA CallsFacts ==
  ASSUME CoreInv
  PROVE  Lengths /\ \A j \in 1 .. Len(calls) : calls[j].node \in 1 .. Len(prog)
  <1>1. calls \in Seq(Activation)
    BY DEF CoreInv
  <1>2. Lengths
    BY <1>1, ElementOfSeq DEF Lengths
  <1>3. QED
    BY <1>2 DEF Lengths, Activation

(* Continuing at another place leaves the activation where it is. *)
LEMMA AfterContinues ==
  ASSUME CoreInv, Running, NEW pc \in Pcs \ {"enter"}, NEW pos \in Nat, NEW tmp \in Value,
         Continues(pc, pos, tmp)
  PROVE  Same /\ calls'[Len(calls)].pc = pc
  <1> DEFINE a == [node |-> Top.node, pc |-> pc, pos |-> pos, tmp |-> tmp,
                   cont |-> Top.cont]
  <1>1. a \in Activation /\ a.node = Top.node /\ a.pc = pc
    BY TopFacts DEF Activation, Running
  <1>2. Len(calls) \in 1 .. Len(calls) /\ calls \in Seq(Activation)
    BY TopFacts DEF CoreInv, Running
  <1>3. calls' = [calls EXCEPT ![Len(calls)] = a]
    BY DEF Continues
  <1> HIDE DEF a
  <1>4. /\ Len(calls') = Len(calls)
        /\ \A j \in 1 .. Len(calls) :
              calls'[j] = IF j = Len(calls) THEN a ELSE calls[j]
    BY <1>1, <1>2, <1>3, ExceptSeq
  <1>5. QED
    BY <1>1, <1>2, <1>4 DEF Same, Top

(* Evaluating a parameter leaves the activation there, and a list or a branch *)
(* at a statement. *)
LEMMA AfterDescends ==
  ASSUME CoreInv, Running, prog' = prog, Descends
  PROVE  Same /\ status' = status /\ \E k \in Nat : Param(k)
  <1>1. PICK pc \in Pcs \ {"enter"}, pos \in Nat, tmp \in Value, cont \in BOOLEAN :
             Evaluates(pc, pos, tmp, cont)
    BY Zenon DEF Descends
  <1>2. Same /\ calls'[Len(calls)].pc = pc
    BY <1>1, AfterContinues DEF Evaluates, EvalArgFrom
  <1>3. DEFINE k == ParamAt(Op, pc, pos, tmp)
  <1>4. k \in Nat
    BY DEF ParamAt
  <1>5. k < Len(Args) /\ focus' = Eval(Args[k + 1], cont) /\ status' = status
    BY <1>1 DEF Evaluates, EvalArgFrom, runVars
  <1>6. ASSUME Op \in ListOps \/ (Op = "if" /\ k > 0)
        PROVE  Statement(calls'[Len(calls)])
    <2>1. prog'[calls'[Len(calls)].node].op = Op
      BY <1>2, TopFacts DEF Same, Top, Op, Running
    <2>7. RegularAt(Op, Len(Args), pc, pos, tmp)
      BY <1>1 DEF Evaluates
    <2>2. Op \in ListOps => pc = "stmt"
      BY <2>7, Different DEF RegularAt
    <2>3. Op = "if" => pc \in {"cond", "body"}
      BY <2>7, Different DEF RegularAt
    <2>4. Op = "if" /\ pc = "cond" => k = 0
      BY Different DEF ParamAt
    <2>5. Op \in ListOps \/ (Op = "if" /\ pc = "body")
      BY <1>6, <2>3, <2>4
    <2>6. QED
      BY <1>2, <2>1, <2>2, <2>5 DEF Statement
  <1>7. Param(k)
    BY <1>5, <1>6 DEF Param, Eval
  <1>8. QED
    BY <1>2, <1>4, <1>5, <1>7

(* So does an iteration that evaluates nothing. *)
LEMMA AfterStays ==
  ASSUME CoreInv, Running, Stays
  PROVE  Same /\ status' = status /\ focus'.k = "ret"
  BY AfterContinues, PlaceNames DEF Stays, runVars, Ret

(* A value handed back removes the innermost activation alone. *)
LEMMA AfterReturn ==
  ASSUME CoreInv, Running, NEW v \in Value, Return(v)
  PROVE  \/ status' = "done"
         \/ Outer(Len(calls) - 1) /\ status' = status /\ focus' = Ret(v)
  <1> DEFINE n == Len(calls) - 1
  <1>1. CASE hasStack /\ PopRaises
    BY <1>1 DEF Return, Raise
  <1>2. CASE ~(hasStack /\ PopRaises)
    <2>1. calls' = SubSeq(calls, 1, n) /\ focus' = Ret(v) /\ status' = status
      BY <1>2 DEF Return, runVars
    <2>2. calls \in Seq(Activation) /\ n \in Nat /\ Len(calls) = n + 1
      BY TopFacts DEF CoreInv, Running
    <2> HIDE DEF n
    <2>3. Len(calls') = n /\ \A j \in 1 .. n : calls'[j] = calls[j]
      BY <2>1, <2>2, WithoutLast
    <2>4. Outer(n)
      BY <2>3 DEF Outer
    <2>5. QED
      BY <2>1, <2>4 DEF n
  <1>3. QED
    BY <1>1, <1>2

(* A call adds one in front. *)
LEMMA AfterCall ==
  ASSUME CoreInv, EvalFunctionCall
  PROVE  /\ Len(calls') = Len(calls) + 1 /\ focus'.k = "ret" /\ status' = status
         /\ \A j \in 1 .. Len(calls) : calls'[j] = calls[j]
         /\ calls'[Len(calls) + 1].node = focus.node
         /\ calls'[Len(calls) + 1].pc = "enter"
  <1> DEFINE a == [node |-> focus.node, pc |-> "enter", pos |-> 0,
                   tmp |-> Nil, cont |-> focus.cont]
  <1>1. a \in Activation /\ a.node = focus.node /\ a.pc = "enter"
    BY ValueAssumption DEF CoreInv, Focus, Activation, Pcs
  <1>2. calls' = Append(calls, a) /\ focus' = Ret(Nil) /\ status' = status
    BY DEF EvalFunctionCall, runVars
  <1>3. calls \in Seq(Activation)
    BY DEF CoreInv
  <1> HIDE DEF a
  <1>4. /\ Len(calls') = Len(calls) + 1
        /\ \A j \in 1 .. Len(calls) : calls'[j] = calls[j]
        /\ calls'[Len(calls) + 1] = a
    BY <1>1, <1>2, <1>3, AppendProperties
  <1>5. QED
    BY <1>1, <1>2, <1>4 DEF Ret

-----------------------------------------------------------------------------
(* A break stops at the loop or switch it is in *)

(* The terms inside a do-while of the script *)
Inside == CHOOSE inside \in SUBSET (1 .. Len(prog)) : NoBreakInDo(prog, inside)

(* Between the activations k and i there is one that clears the flag. *)
Guarded(k, i) == \E m \in k + 1 .. i - 1 : prog[calls[m].node].op \in ClearsBreak

(* What a do-while has called, and what it evaluates next, is inside it    *)
(* unless something in between clears the flag. *)
DoInv ==
    \A k \in 1 .. Len(calls) : prog[calls[k].node].op = "dowhile" =>
        /\ \A i \in k + 1 .. Len(calls) : Guarded(k, i) \/ calls[i].node \in Inside
        /\ focus.k = "eval" => Guarded(k, Len(calls) + 1) \/ focus.node \in Inside

(* An activation around another one has left its entry behind. *)
Entered ==
    \A j \in 1 .. Len(calls) :
        j < Len(calls) \/ focus.k = "eval" => calls[j].pc # "enter"

(* While the flag is set by a break, the activation the break is meant for *)
(* is there, and will clear the flag when it is left. *)
BreakAt ==
    status = "running" /\ focus.k # "intr" /\ breakCalled /\ hist.brk > 0 =>
        /\ hist.brk \in 1 .. Len(calls)
        /\ prog[calls[hist.brk].node].op \in ClearsBreak
        /\ calls[hist.brk].pc # "enter"

BreakInv == IInv /\ DoInv /\ Entered /\ BreakAt

NodesKept(n) == prog' = prog /\ \A j \in 1 .. n : calls'[j].node = calls[j].node

(* The marking a script is assumed to have is one. *)
LEMMA InsideFacts ==
  ASSUME CoreInv,
         \A p \in Programs : \E inside \in SUBSET (1 .. Len(p)) : NoBreakInDo(p, inside)
  PROVE  NoBreakInDo(prog, Inside)
  BY DEF CoreInv, Inside

(* A guard stays one while the activations up to it stay. *)
LEMMA GuardedKept ==
  ASSUME NEW n \in Nat, NodesKept(n), NEW k \in Nat, NEW i \in 1 .. n + 1, Guarded(k, i)
  PROVE  Guarded(k, i)'
  <1>1. PICK m \in k + 1 .. i - 1 : prog[calls[m].node].op \in ClearsBreak
    BY DEF Guarded
  <1>2. m \in 1 .. n
    OBVIOUS
  <1>3. prog'[calls'[m].node].op \in ClearsBreak
    BY <1>1, <1>2 DEF NodesKept
  <1>4. QED
    BY <1>1, <1>3 DEF Guarded

(* A step that adds no activation and evaluates nothing keeps DoInv. *)
LEMMA DoKept ==
  ASSUME CoreInv, DoInv, NEW n \in 0 .. Len(calls), Len(calls') = n, NodesKept(n),
         focus'.k # "eval"
  PROVE  DoInv'
  <1>1. Len(calls) \in Nat /\ Inside' = Inside
    BY CallsFacts DEF Lengths, Inside, NodesKept
  <1>2. SUFFICES ASSUME NEW k \in 1 .. n, prog[calls[k].node].op = "dowhile",
                        NEW i \in k + 1 .. n
                 PROVE  Guarded(k, i)' \/ calls'[i].node \in Inside
    BY <1>1 DEF DoInv, NodesKept
  <1>3. k \in 1 .. Len(calls) /\ i \in k + 1 .. Len(calls) /\ i \in 1 .. n + 1 /\ i \in 1 .. n
        /\ n \in Nat /\ k \in Nat
    BY <1>1
  <1>4. Guarded(k, i) \/ calls[i].node \in Inside
    BY <1>2, <1>3 DEF DoInv
  <1>5. QED
    BY <1>3, <1>4, GuardedKept DEF NodesKept

(* A parameter of a do-while is inside it, and so is one of a term inside it. *)
LEMMA DoDescends ==
  ASSUME CoreInv, Running, NoBreakInDo(prog, Inside), DoInv, prog' = prog, Same,
         NEW p \in Nat, Param(p)
  PROVE  DoInv'
  <1>0. PICK n \in Nat : n = Len(calls)
    BY TopFacts DEF Running
  <1>1. n \in Nat \ {0} /\ Inside' = Inside /\ Len(calls') = n /\ NodesKept(n)
    BY <1>0, TopFacts DEF Running, Inside, Same, NodesKept
  <1>2. /\ calls[n].node \in 1 .. Len(prog) /\ Op = prog[calls[n].node].op
        /\ Args = prog[calls[n].node].args /\ p + 1 \in DOMAIN Args
        /\ focus'.node = Args[p + 1]
    BY <1>0, TopFacts DEF Top, Op, Args, Running, Param
  <1>3. Op = "dowhile" => focus'.node \in Inside
    BY <1>2 DEF NoBreakInDo
  <1>4. calls[n].node \in Inside /\ Op \notin ClearsBreak => focus'.node \in Inside
    BY <1>2 DEF NoBreakInDo
  <1>5. ASSUME NEW k \in 1 .. n, prog[calls[k].node].op = "dowhile", NEW i \in k + 1 .. n
        PROVE  Guarded(k, i)' \/ calls'[i].node \in Inside
    <2>1. Guarded(k, i) \/ calls[i].node \in Inside
      BY <1>0, <1>5 DEF DoInv
    <2>2. i \in 1 .. n + 1 /\ i \in 1 .. n /\ k \in Nat /\ n \in Nat
      BY <1>1
    <2>3. QED
      BY <1>1, <2>1, <2>2, GuardedKept DEF NodesKept
  <1>6. ASSUME NEW k \in 1 .. n, prog[calls[k].node].op = "dowhile"
        PROVE  Guarded(k, n + 1)' \/ focus'.node \in Inside
    <2>1. CASE k = n
      BY <1>2, <1>3, <1>6, <2>1
    <2>2. CASE k # n
      <3>1. n \in k + 1 .. n /\ k \in Nat /\ n \in Nat /\ n + 1 \in 1 .. n + 1 /\ n \in 1 .. n
        BY <1>1, <2>2
      <3>2. Guarded(k, n) \/ calls[n].node \in Inside
        BY <1>0, <1>6, <3>1 DEF DoInv
      <3>3. CASE Guarded(k, n)
        <4>1. Guarded(k, n + 1)
          BY <1>1, <3>3 DEF Guarded
        <4>2. QED
          BY <1>1, <3>1, <4>1, GuardedKept
      <3>4. CASE Op \in ClearsBreak
        <4>1. Guarded(k, n + 1)
          BY <1>2, <3>1, <3>4 DEF Guarded
        <4>2. QED
          BY <1>1, <3>1, <4>1, GuardedKept
      <3>5. QED
        BY <1>4, <3>2, <3>3, <3>4
    <2>3. QED
      BY <2>1, <2>2
  <1>7. QED
    BY <1>0, <1>1, <1>5, <1>6 DEF DoInv, NodesKept

(* A call takes what its term is about with it. *)
LEMMA DoCalls ==
  ASSUME CoreInv, DoInv, EvalFunctionCall
  PROVE  DoInv'
  <1> DEFINE n == Len(calls)
  <1>1. /\ Len(calls') = n + 1 /\ focus'.k = "ret" /\ focus.k = "eval"
        /\ \A j \in 1 .. n : calls'[j] = calls[j]
        /\ calls'[n + 1].node = focus.node /\ n \in Nat
        /\ prog[focus.node].op \in FunctionOps
    BY AfterCall, CallsFacts DEF EvalFunctionCall, Lengths
  <1>2. prog' = prog /\ Inside' = Inside /\ NodesKept(n)
    BY <1>1 DEF EvalFunctionCall, Inside, NodesKept
  <1> HIDE DEF n
  <1>3. ASSUME NEW k \in 1 .. n + 1, prog[calls'[k].node].op = "dowhile", NEW i \in k + 1 .. n + 1
        PROVE  Guarded(k, i)' \/ calls'[i].node \in Inside
    <2>1. k \in 1 .. n /\ calls'[k] = calls[k] /\ i \in 1 .. n + 1 /\ k \in Nat
      BY <1>1
    <2>2. CASE i = n + 1
      <3>1. Guarded(k, n + 1) \/ focus.node \in Inside
        BY <1>1, <1>3, <2>1 DEF DoInv, n
      <3>2. QED
        BY <1>1, <1>2, <2>1, <2>2, <3>1, GuardedKept
    <2>3. CASE i # n + 1
      <3>1. i \in k + 1 .. n /\ i \in 1 .. n
        BY <1>1, <2>3
      <3>2. Guarded(k, i) \/ calls[i].node \in Inside
        BY <1>3, <2>1, <3>1 DEF DoInv, n
      <3>3. QED
        BY <1>1, <1>2, <2>1, <3>1, <3>2, GuardedKept
    <2>4. QED
      BY <2>2, <2>3
  <1>4. QED
    BY <1>1, <1>2, <1>3 DEF DoInv

(* What a step writes into the history's break and return *)
LEMMA HistoryFields ==
  ASSUME DataInv
  PROVE  /\ HostAnswers \/ HostInterrupts \/ HostRaises =>
               hist'.brk = hist.brk /\ hist'.returned = hist.returned /\ hist'.value = hist.value
         /\ StartRun => hist'.brk = 0 /\ hist'.returned = FALSE
         /\ ResumeRun =>
               hist'.brk = 0 /\ hist'.returned = hist.returned /\ hist'.value = hist.value
         /\ ReturnValue =>
               hist'.brk = hist.brk /\ hist'.returned = TRUE /\ hist'.value = focus.val
         /\ Break => /\ hist'.returned = hist.returned /\ hist'.value = hist.value
                     /\ hist'.brk = IF Breakable = {} THEN 0
                                    ELSE CHOOSE j \in Breakable : \A k \in Breakable : k <= j
         /\ hist.brk \in Nat /\ hist.returned \in BOOLEAN
  <1> DEFINE S == Seq(Place)
  <1>1. hist \in [base : Nat, runs : Nat, answers : Nat, interrupts : Nat,
                  last : [node : Nat, val : Value], tick : BOOLEAN, saved : S,
                  brk : Nat, returned : BOOLEAN, value : Value]
    BY DEF DataInv, History
  <1> HIDE DEF S
  <1>2. hist.brk \in Nat /\ hist.returned \in BOOLEAN
    BY <1>1
  <1>3. ASSUME HostAnswers
        PROVE  hist'.brk = hist.brk /\ hist'.returned = hist.returned /\ hist'.value = hist.value
    <2>1. PICK v \in HostValues :
             hist' = [hist EXCEPT !.answers = @ + (IF v \in Truthy THEN 1 ELSE 0),
                                  !.tick = ~@,
                                  !.last = [node |-> Top.node, val |-> v],
                                  !.saved = <<>>]
      BY <1>3 DEF HostAnswers
    <2> DEFINE d == IF v \in Truthy THEN 1 ELSE 0
               l == [node |-> Top.node, val |-> v]
    <2>2. hist' = [hist EXCEPT !.answers = @ + d, !.tick = ~@, !.last = l, !.saved = <<>>]
      BY <2>1
    <2> HIDE DEF d, l
    <2>3. QED
      BY <1>1, <2>2
  <1>4. ASSUME HostInterrupts
        PROVE  hist'.brk = hist.brk /\ hist'.returned = hist.returned /\ hist'.value = hist.value
    <2>1. PICK a, h : hist' = [hist EXCEPT !.interrupts = a, !.saved = h]
      BY <1>4 DEF HostInterrupts
    <2>2. QED
      BY <1>1, <2>1
  <1>5. ASSUME HostRaises
        PROVE  hist'.brk = hist.brk /\ hist'.returned = hist.returned /\ hist'.value = hist.value
    <2>1. hist' = [hist EXCEPT !.saved = <<>>]
      BY <1>5 DEF HostRaises
    <2>2. QED
      BY <1>1, <2>1
  <1>6. ASSUME StartRun PROVE hist'.brk = 0 /\ hist'.returned = FALSE
    <2>1. PICK r, b, l, t : hist' = [hist EXCEPT !.runs = r, !.base = b, !.last = l, !.tick = t,
                                     !.saved = <<>>, !.brk = 0, !.returned = FALSE, !.value = Nil]
      BY <1>6 DEF StartRun
    <2>2. QED
      BY <1>1, <2>1
  <1>7. ASSUME ResumeRun
        PROVE  hist'.brk = 0 /\ hist'.returned = hist.returned /\ hist'.value = hist.value
    <2>1. PICK b, l : hist' = [hist EXCEPT !.base = b, !.brk = 0, !.last = l]
      BY <1>7 DEF ResumeRun
    <2>2. QED
      BY <1>1, <2>1
  <1>8. ASSUME ReturnValue
        PROVE  hist'.brk = hist.brk /\ hist'.returned = TRUE /\ hist'.value = focus.val
    <2>1. PICK v : hist' = [hist EXCEPT !.returned = TRUE, !.value = v] /\ v = focus.val
      BY <1>8 DEF ReturnValue
    <2>2. QED
      BY <1>1, <2>1
  <1>9. ASSUME Break
        PROVE  /\ hist'.returned = hist.returned /\ hist'.value = hist.value
               /\ hist'.brk = IF Breakable = {} THEN 0
                              ELSE CHOOSE j \in Breakable : \A k \in Breakable : k <= j
    <2> DEFINE B == IF Breakable = {} THEN 0
                    ELSE CHOOSE j \in Breakable : \A k \in Breakable : k <= j
    <2>1. hist' = [hist EXCEPT !.brk = B]
      BY <1>9 DEF Break
    <2> HIDE DEF B
    <2>2. hist'.returned = hist.returned /\ hist'.value = hist.value /\ hist'.brk = B
      BY <1>1, <2>1
    <2>3. QED
      BY <2>2 DEF B
  <1>10. QED
    BY <1>2, <1>3, <1>4, <1>5, <1>6, <1>7, <1>8, <1>9

(* An activation that is left again has been entered. *)
LEMMA EnteredKept ==
  ASSUME CoreInv, Entered, NEW n \in 0 .. Len(calls), Outer(n), focus'.k # "eval"
  PROVE  Entered'
  <1>1. Len(calls) \in Nat
    BY CallsFacts DEF Lengths
  <1>2. ASSUME NEW j \in 1 .. n, j < n PROVE calls'[j].pc # "enter"
    <2>1. j \in 1 .. Len(calls) /\ j < Len(calls)
      BY <1>1, <1>2
    <2>2. QED
      BY <2>1 DEF Entered, Outer
  <1>3. QED
    BY <1>2 DEF Entered, Outer

(* The one that evaluates a parameter has been. *)
LEMMA EnteredSame ==
  ASSUME CoreInv, Entered, Same
  PROVE  Entered'
  <1>1. Len(calls) \in Nat /\ Len(calls') = Len(calls)
    BY CallsFacts DEF Lengths, Same
  <1>2. ASSUME NEW j \in 1 .. Len(calls) PROVE calls'[j].pc # "enter"
    <2>1. CASE j = Len(calls)
      BY <2>1 DEF Same
    <2>2. CASE j # Len(calls)
      <3>1. j < Len(calls)
        BY <1>1, <2>2
      <3>2. QED
        BY <3>1 DEF Same, Entered
    <2>3. QED
      BY <2>1, <2>2
  <1>3. QED
    BY <1>1, <1>2 DEF Entered

(* A call is made from an activation that has been. *)
LEMMA EnteredCalls ==
  ASSUME CoreInv, Entered, EvalFunctionCall
  PROVE  Entered'
  <1>1. /\ Len(calls') = Len(calls) + 1 /\ focus'.k = "ret" /\ focus.k = "eval"
        /\ \A j \in 1 .. Len(calls) : calls'[j] = calls[j]
        /\ Len(calls) \in Nat
    BY AfterCall, CallsFacts DEF EvalFunctionCall, Lengths
  <1>2. ASSUME NEW j \in 1 .. Len(calls) + 1, j < Len(calls) + 1 PROVE calls'[j].pc # "enter"
    <2>1. j \in 1 .. Len(calls)
      BY <1>1, <1>2
    <2>2. QED
      BY <1>1, <2>1 DEF Entered
  <1>3. QED
    BY <1>1, <1>2 DEF Entered

(* The loop a break is meant for stays one while the activations inside it run. *)
LEMMA BreakSame ==
  ASSUME CoreInv, Running, BreakAt, Same, prog' = prog, hist' = hist,
         breakCalled' \in {breakCalled, FALSE}
  PROVE  BreakAt'
  <1>1. SUFFICES ASSUME breakCalled', hist.brk > 0
                 PROVE  /\ hist.brk \in 1 .. Len(calls')
                        /\ prog[calls'[hist.brk].node].op \in ClearsBreak
                        /\ calls'[hist.brk].pc # "enter"
    BY DEF BreakAt
  <1>2. /\ hist.brk \in 1 .. Len(calls) /\ Len(calls) \in Nat
        /\ prog[calls[hist.brk].node].op \in ClearsBreak
        /\ calls[hist.brk].pc # "enter"
    BY <1>1, CallsFacts DEF BreakAt, Running, Lengths
  <1>3. hist.brk = Len(calls) \/ hist.brk < Len(calls)
    BY <1>2
  <1>4. QED
    BY <1>2, <1>3 DEF Same

(* It stays while they return, and clears the flag when it does itself. *)
LEMMA BreakReturns ==
  ASSUME CoreInv, Running, BreakAt, Outer(Len(calls) - 1), prog' = prog, hist'.brk = hist.brk,
         breakCalled' \in {breakCalled, FALSE},
         breakCalled' = FALSE \/ Top.pc = "enter" \/ Op \notin ClearsBreak
  PROVE  BreakAt'
  <1>1. SUFFICES ASSUME breakCalled', hist.brk > 0
                 PROVE  /\ hist.brk \in 1 .. Len(calls')
                        /\ prog[calls'[hist.brk].node].op \in ClearsBreak
                        /\ calls'[hist.brk].pc # "enter"
    BY DEF BreakAt
  <1>2. /\ hist.brk \in 1 .. Len(calls) /\ Len(calls) \in Nat
        /\ prog[calls[hist.brk].node].op \in ClearsBreak
        /\ calls[hist.brk].pc # "enter"
    BY <1>1, CallsFacts DEF BreakAt, Running, Lengths
  <1>3. hist.brk # Len(calls)
    BY <1>1, <1>2 DEF Top, Op
  <1>4. hist.brk \in 1 .. Len(calls) - 1
    BY <1>2, <1>3
  <1>5. QED
    BY <1>2, <1>4 DEF Outer

(* A call further in does not touch it. *)
LEMMA BreakCalls ==
  ASSUME CoreInv, BreakAt, EvalFunctionCall
  PROVE  BreakAt'
  <1>1. /\ Len(calls') = Len(calls) + 1 /\ focus.k = "eval" /\ status = "running"
        /\ \A j \in 1 .. Len(calls) : calls'[j] = calls[j]
        /\ Len(calls) \in Nat
        /\ breakCalled' = breakCalled /\ hist' = hist /\ prog' = prog
    BY AfterCall, CallsFacts DEF EvalFunctionCall, Lengths, envVars
  <1>2. SUFFICES ASSUME breakCalled, hist.brk > 0
                 PROVE  /\ hist.brk \in 1 .. Len(calls')
                        /\ prog[calls'[hist.brk].node].op \in ClearsBreak
                        /\ calls'[hist.brk].pc # "enter"
    BY <1>1 DEF BreakAt
  <1>3. /\ hist.brk \in 1 .. Len(calls)
        /\ prog[calls[hist.brk].node].op \in ClearsBreak
        /\ calls[hist.brk].pc # "enter"
    BY <1>1, <1>2 DEF BreakAt
  <1>4. QED
    BY <1>1, <1>3

(* The break itself: the innermost loop or switch is none that forgets the *)
(* flag. *)
LEMMA BreakHits ==
  ASSUME BreakInv, NoBreakInDo(prog, Inside), Break
  PROVE  DoInv' /\ Entered' /\ BreakAt'
  <1>1. IInv /\ CoreInv /\ DataInv /\ DoInv /\ Entered
    BY DEF BreakInv, IInv
  <1>2. Running /\ Op = "break" /\ prog' = prog /\ Return(Null)
    BY <1>1, AtFacts DEF Break
  <1>3. PICK n \in Nat : n = Len(calls)
    BY <1>1, CallsFacts DEF Lengths
  <1>4. status' = "done" \/ (Outer(n - 1) /\ focus'.k = "ret")
    BY <1>1, <1>2, <1>3, AfterReturn, ValueAssumption DEF Ret
  <1>5. n > 0 /\ calls[n].node \in 1 .. Len(prog) /\ prog[calls[n].node].op = "break"
    BY <1>1, <1>2, <1>3, TopFacts DEF Running, Top, Op
  <1>6. IInv'
    BY <1>1, JumpSteps
  <1>7. CASE status' = "done"
    <2>1. Len(calls') = 0
      BY <1>6, <1>7 DEF IInv, CoreInv, Quiet
    <2>2. QED
      BY <1>7, <2>1 DEF DoInv, Entered, BreakAt
  <1>8. CASE Outer(n - 1) /\ focus'.k = "ret"
    <2>1. n - 1 \in 0 .. Len(calls) /\ NodesKept(n - 1) /\ Len(calls') = n - 1
      BY <1>2, <1>3, <1>5, <1>8 DEF NodesKept, Outer
    <2>2. DoInv' /\ Entered'
      BY <1>1, <1>8, <2>1, DoKept, EnteredKept
    <2>3. BreakAt'
      <3>1. CASE Breakable = {}
        BY <1>1, <3>1, HistoryFields DEF BreakAt
      <3>2. CASE Breakable # {}
        <4>1. Breakable \subseteq 0 .. n
          BY <1>3 DEF Breakable
        <4>2. \E j \in Breakable : \A k \in Breakable : k <= j
          BY <3>2, <4>1, LargestIndex
        <4>3. hist'.brk = CHOOSE j \in Breakable : \A k \in Breakable : k <= j
          BY <1>1, <3>2, HistoryFields
        <4>4. PICK b : b = hist'.brk
          OBVIOUS
        <4>5. b \in Breakable /\ \A k \in Breakable : k <= b
          BY <4>2, <4>3, <4>4
        <4>6. /\ b \in 1 .. n
              /\ prog[calls[b].node].op \in ClearsBreak \cup {"dowhile"}
          BY <1>3, <4>5 DEF Breakable, ClearsBreak
        <4>7. b \in 1 .. n - 1
          BY <1>5, <4>6 DEF ClearsBreak
        <4>8. prog[calls[b].node].op # "dowhile"
          <5>1. SUFFICES ASSUME prog[calls[b].node].op = "dowhile" PROVE FALSE
            OBVIOUS
          <5>2. calls[n].node \notin Inside
            BY <1>5 DEF NoBreakInDo
          <5>3. n \in b + 1 .. n
            BY <4>7
          <5>4. Guarded(b, n)
            BY <1>1, <1>3, <4>6, <5>1, <5>2, <5>3 DEF DoInv
          <5>5. PICK m \in b + 1 .. n - 1 : prog[calls[m].node].op \in ClearsBreak
            BY <5>4 DEF Guarded
          <5>6. m \in 1 .. n
            BY <4>6, <5>5
          <5>7. m \in Breakable
            BY <1>3, <5>5, <5>6 DEF Breakable, ClearsBreak
          <5>8. QED
            BY <4>5, <4>6, <5>5, <5>7
        <4>9. calls[b].pc # "enter" /\ calls'[b] = calls[b] /\ Len(calls') = n - 1
          <5>1. b \in 1 .. Len(calls) /\ b < Len(calls)
            BY <1>3, <4>7
          <5>2. QED
            BY <1>1, <1>8, <4>7, <5>1 DEF Entered, Outer
        <4>10. QED
          BY <1>2, <4>4, <4>6, <4>7, <4>8, <4>9 DEF BreakAt
      <3>3. QED
        BY <3>1, <3>2
    <2>4. QED
      BY <2>2, <2>3
  <1>9. QED
    BY <1>4, <1>7, <1>8

(* A step that leaves no activation behind *)
LEMMA BreakEnds ==
  ASSUME Len(calls') = 0, status' # "running" \/ focus'.k = "intr" \/ hist'.brk = 0
  PROVE  DoInv' /\ Entered' /\ BreakAt'
  BY DEF DoInv, Entered, BreakAt

(* A step of a function *)
LEMMA BreakFunction ==
  ASSUME BreakInv, NoBreakInDo(prog, Inside), FunctionStep
  PROVE  DoInv' /\ Entered' /\ BreakAt'
  <1>1. /\ CoreInv /\ DoInv /\ Entered /\ BreakAt
        /\ Running /\ prog' = prog /\ hist' = hist /\ breakCalled' \in {breakCalled, FALSE}
    BY DEF BreakInv, IInv, FunctionStep, Keeps
  <1>2. CASE Descends
    <2>1. Same /\ \E k \in Nat : Param(k)
      BY <1>1, <1>2, AfterDescends
    <2>2. QED
      BY <1>1, <2>1, DoDescends, EnteredSame, BreakSame
  <1>3. CASE Stays
    <2>1. Same /\ focus'.k = "ret" /\ NodesKept(Len(calls)) /\ Len(calls) \in 0 .. Len(calls)
          /\ Len(calls') = Len(calls)
      BY <1>1, <1>3, AfterStays, CallsFacts DEF NodesKept, Same, Lengths
    <2>2. QED
      BY <1>1, <2>1, DoKept, EnteredSame, BreakSame
  <1>4. CASE Raise
    <2>1. Len(calls') = 0 /\ status' = "done"
      BY <1>4 DEF Raise
    <2>2. QED
      BY <2>1, BreakEnds
  <1>5. CASE Returns /\ status' # "done"
    <2>1. Outer(Len(calls) - 1) /\ focus'.k = "ret"
      BY <1>1, <1>5, AfterReturn DEF Returns, Ret
    <2>2. Len(calls) - 1 \in 0 .. Len(calls) /\ NodesKept(Len(calls) - 1)
          /\ Len(calls') = Len(calls) - 1
      BY <1>1, <2>1, TopFacts DEF NodesKept, Outer, Running
    <2>3. BreakAt'
      BY <1>1, <1>5, <2>1, BreakReturns DEF Returns
    <2>4. QED
      BY <1>1, <2>1, <2>2, <2>3, DoKept, EnteredKept
  <1>6. CASE Returns /\ status' = "done"
    <2>1. Raise
      BY <1>1, <1>6 DEF Returns, Return, Running, runVars
    <2>2. QED
      BY <1>4, <2>1
  <1>7. QED
    BY <1>2, <1>3, <1>4, <1>5, <1>6 DEF FunctionStep

(* A leaf, a call, the value of a return, a host function's answer, an     *)
(* interrupt on its way *)
LEMMA BreakOther ==
  ASSUME BreakInv, IInv',
         EvalLeaf \/ EvalFunctionCall \/ ReturnValue \/ HostAnswers \/ HostInterrupts
         \/ HostRaises \/ Unwind \/ FinishRun \/ SuspendRun
  PROVE  DoInv' /\ Entered' /\ BreakAt'
  <1>1. CoreInv /\ DataInv /\ DoInv /\ Entered /\ BreakAt
    BY DEF BreakInv, IInv
  <1>2. PICK n \in Nat : n = Len(calls)
    BY <1>1, CallsFacts DEF Lengths
  <1>3. CASE EvalLeaf
    <2>1. /\ calls' = calls /\ focus'.k = "ret" /\ prog' = prog /\ hist' = hist
          /\ breakCalled' = breakCalled /\ focus.k = "eval" /\ status = "running"
      BY <1>3 DEF EvalLeaf, Leaf, Ret, envVars
    <2>2. n \in 0 .. Len(calls) /\ Outer(n) /\ NodesKept(n) /\ Len(calls') = n
      BY <1>2, <2>1 DEF Outer, NodesKept
    <2>3. BreakAt'
      BY <1>1, <2>1 DEF BreakAt
    <2>4. QED
      BY <1>1, <2>1, <2>2, <2>3, DoKept, EnteredKept
  <1>4. CASE EvalFunctionCall
    BY <1>1, <1>4, DoCalls, EnteredCalls, BreakCalls
  <1>5. CASE ReturnValue \/ HostAnswers
    <2>1. /\ Running /\ prog' = prog /\ hist'.brk = hist.brk /\ breakCalled' = breakCalled
          /\ Op \in {"return", "host"}
      BY <1>1, <1>5, AtFacts, HistoryFields DEF ReturnValue, HostAnswers, envVars
    <2>2. PICK v \in Value : Return(v)
      BY <1>1, <1>5, FocusFacts, ValueAssumption DEF ReturnValue, HostAnswers
    <2>3. CASE status' = "done"
      <3>1. Len(calls') = 0
        BY <2>3 DEF IInv, CoreInv, Quiet
      <3>2. QED
        BY <2>3, <3>1, BreakEnds
    <2>4. CASE Outer(Len(calls) - 1) /\ focus' = Ret(v)
      <3>5. focus'.k # "eval"
        BY <2>4 DEF Ret
      <3>1. Len(calls) - 1 \in 0 .. Len(calls) /\ NodesKept(Len(calls) - 1)
            /\ Len(calls') = Len(calls) - 1 /\ focus'.k # "eval"
        BY <1>1, <2>1, <2>4, <3>5, TopFacts DEF NodesKept, Outer, Running
      <3>2. Op \notin ClearsBreak
        BY <2>1 DEF ClearsBreak
      <3>3. BreakAt'
        BY <1>1, <2>1, <2>4, <3>2, BreakReturns DEF DataInv
      <3>4. QED
        BY <1>1, <2>4, <3>1, <3>3, DoKept, EnteredKept
    <2>5. QED
      BY <1>1, <2>1, <2>2, <2>3, <2>4, AfterReturn
  <1>6. CASE HostInterrupts
    <2>1. calls' = calls /\ focus'.k = "intr" /\ prog' = prog
      BY <1>6 DEF HostInterrupts, Interrupt
    <2>2. n \in 0 .. Len(calls) /\ Outer(n) /\ NodesKept(n) /\ Len(calls') = n
      BY <1>2, <2>1 DEF Outer, NodesKept
    <2>3. BreakAt'
      BY <2>1 DEF BreakAt
    <2>4. QED
      BY <1>1, <2>1, <2>2, <2>3, DoKept, EnteredKept
  <1>7. CASE HostRaises
    <2>1. Len(calls') = 0 /\ status' = "done"
      BY <1>7 DEF HostRaises, Raise
    <2>2. QED
      BY <2>1, BreakEnds
  <1>8. CASE Unwind
    <2>1. calls' = SubSeq(calls, 1, n - 1) /\ calls # <<>> /\ focus'.k = "intr" /\ prog' = prog
      BY <1>2, <1>8 DEF Unwind
    <2>2. calls \in Seq(Activation) /\ n - 1 \in Nat /\ Len(calls) = (n - 1) + 1
      BY <1>1, <1>2, <2>1 DEF CoreInv
    <2>3. Len(calls') = n - 1 /\ \A j \in 1 .. n - 1 : calls'[j] = calls[j]
      BY <2>1, <2>2, WithoutLast
    <2>4. n - 1 \in 0 .. Len(calls) /\ Outer(n - 1) /\ NodesKept(n - 1) /\ Len(calls') = n - 1
      BY <2>1, <2>2, <2>3 DEF Outer, NodesKept
    <2>5. BreakAt'
      BY <2>1 DEF BreakAt
    <2>6. QED
      BY <1>1, <2>1, <2>4, <2>5, DoKept, EnteredKept
  <1>9. CASE FinishRun \/ SuspendRun
    <2>1. Len(calls') = 0 /\ status' # "running"
      BY <1>9 DEF FinishRun, SuspendRun
    <2>2. QED
      BY <2>1, BreakEnds
  <1>10. QED
    BY <1>3, <1>4, <1>5, <1>6, <1>7, <1>8, <1>9

(* In a script without a break in a do-while, a break leaves no more than  *)
(* the innermost loop or switch around it: while the flag is up, the loop  *)
(* it was raised in is still being executed.  UMFunction_dowhile.m forgets *)
(* to clear the flag, which is why the scripts are restricted.             *)
THEOREM BreaksStop ==
  ASSUME \A p \in Programs : \E inside \in SUBSET (1 .. Len(p)) : NoBreakInDo(p, inside)
  PROVE  Spec => []BreakStopsAtLoop
  <1>1. Init => BreakInv
    <2>1. SUFFICES ASSUME Init PROVE BreakInv
      OBVIOUS
    <2>2. Len(calls) = 0 /\ status = "idle"
      BY <2>1 DEF Init
    <2>3. QED
      BY <2>1, <2>2, InitialInv DEF BreakInv, DoInv, Entered, BreakAt
  <1>2. BreakInv /\ [Next]_vars => BreakInv'
    <2>1. SUFFICES ASSUME BreakInv, [Next]_vars PROVE BreakInv'
      OBVIOUS
    <2>2. IInv /\ CoreInv /\ DataInv /\ NoBreakInDo(prog, Inside)
      BY <2>1, InsideFacts DEF BreakInv, IInv
    <2>3. CASE Evaluate
      <3>1. IInv'
        BY <2>2, <2>3, EvaluateStep
      <3>2. DoInv' /\ Entered' /\ BreakAt'
        BY <2>1, <2>2, <2>3, <3>1, EvaluateMoves, BreakFunction, BreakHits, BreakOther
      <3>3. QED
        BY <3>1, <3>2 DEF BreakInv
    <2>4. CASE StartRun \/ ResumeRun
      <3>1. IInv'
        BY <2>2, <2>4, StartStep, ResumeStep
      <3>2. hist'.brk = 0
        BY <2>2, <2>4, HistoryFields
      <3>3. calls' = <<>>
        BY <2>2, <2>4 DEF StartRun, ResumeRun, CoreInv, Quiet
      <3>4. QED
        BY <3>1, <3>2, <3>3, BreakEnds DEF BreakInv
    <2>5. CASE HostIsDone \/ UNCHANGED vars
      <3>1. UNCHANGED vars
        BY <2>5 DEF HostIsDone
      <3>2. IInv'
        BY <2>2, <3>1, StutterStep
      <3>3. DoInv' /\ Entered' /\ BreakAt'
        BY <2>1, <3>1 DEF BreakInv, vars, envVars, runVars, DoInv, Entered, BreakAt, Guarded, Inside
      <3>4. QED
        BY <3>2, <3>3 DEF BreakInv
    <2>6. QED
      BY <2>1, <2>3, <2>4, <2>5 DEF Next
  <1>3. BreakInv => BreakStopsAtLoop
    <2>1. SUFFICES ASSUME BreakInv, status = "running", focus.k # "intr", breakCalled, hist.brk > 0
                   PROVE  Len(calls) >= hist.brk
      BY DEF BreakStopsAtLoop
    <2>2. hist.brk \in 1 .. Len(calls)
      BY <2>1 DEF BreakInv, BreakAt
    <2>3. QED
      BY <2>2
  <1>4. QED
    BY <1>1, <1>2, <1>3, PTL DEF Spec

-----------------------------------------------------------------------------
(* Nothing runs after a return *)

(* The terms of the script that hold no return statement *)
Plain == CHOOSE plain \in SUBSET (1 .. Len(prog)) : OutermostReturns(prog, plain)

(* Every activation below the n-th is at a statement of a list or a branch. *)
Path(n) == \A j \in 1 .. n : Statement(calls[j])

(* What is not plain was called by statements alone. *)
PathInv ==
    /\ \A i \in 1 .. Len(calls) : calls[i].node \in Plain \/ Path(i - 1)
    /\ focus.k = "eval" => focus.node \in Plain \/ Path(Len(calls))

(* After a return the value is on its way out through statements alone,    *)
(* each of which looks at returnCalled or hands on what it is given. *)
DoneInv ==
    hist.returned =>
        /\ status # "suspended"
        /\ status = "running" => /\ focus.k = "ret" /\ focus.val = hist.value
                                /\ returnCalled /\ Path(Len(calls))

ReturnInv == IInv /\ PathInv /\ DoneInv

(* The outermost n activations are left, the places of all but the last    *)
(* unchanged. *)
Below(n) ==
    /\ prog' = prog /\ Len(calls') = n
    /\ \A j \in 1 .. n : /\ calls'[j].node = calls[j].node
                         /\ j < n => calls'[j] = calls[j]

(* The marking a script is assumed to have is one. *)
LEMMA PlainFacts ==
  ASSUME CoreInv,
         \A p \in Programs : \E plain \in SUBSET (1 .. Len(p)) : OutermostReturns(p, plain)
  PROVE  OutermostReturns(prog, Plain)
  BY DEF CoreInv, Plain

(* A statement that is still being executed stays one. *)
LEMMA PathKept ==
  ASSUME prog' = prog, NEW n \in Nat, \A j \in 1 .. n : calls'[j] = calls[j], Path(n)
  PROVE  Path(n)'
  BY DEF Path, Statement

(* The callers of an activation that stays are where they were. *)
LEMMA CallersKept ==
  ASSUME CoreInv, PathInv, NEW n \in 0 .. Len(calls), Below(n), NEW i \in 1 .. n
  PROVE  calls'[i].node \in Plain \/ Path(i - 1)'
  <1>1. i - 1 \in Nat /\ i \in 1 .. Len(calls) /\ n \in Nat
    BY CallsFacts DEF Lengths
  <1>2. calls[i].node \in Plain \/ Path(i - 1)
    BY <1>1 DEF PathInv
  <1>3. prog' = prog /\ \A j \in 1 .. i - 1 : calls'[j] = calls[j]
    BY <1>1 DEF Below
  <1>4. QED
    BY <1>1, <1>2, <1>3, PathKept DEF Below

(* A step that adds no activation and evaluates nothing keeps PathInv. *)
LEMMA PathGoesOn ==
  ASSUME CoreInv, PathInv, NEW n \in 0 .. Len(calls), Below(n), focus'.k # "eval"
  PROVE  PathInv'
  <1>1. Plain' = Plain /\ Len(calls') = n
    BY DEF Below, Plain
  <1>2. \A i \in 1 .. n : calls'[i].node \in Plain \/ Path(i - 1)'
    BY CallersKept
  <1>3. QED
    BY <1>1, <1>2 DEF PathInv

(* What is not plain is evaluated by a statement. *)
LEMMA PathDescends ==
  ASSUME CoreInv, Running, OutermostReturns(prog, Plain), PathInv, prog' = prog, Same,
         NEW p \in Nat, Param(p)
  PROVE  PathInv'
  <1>1. PICK n \in Nat : n = Len(calls)
    BY CallsFacts DEF Lengths
  <1>2. Plain' = Plain /\ Len(calls') = n /\ Below(n) /\ n \in 0 .. Len(calls) /\ n > 0
    BY <1>1, TopFacts DEF Plain, Same, Below, Running
  <1>3. \A i \in 1 .. n : calls'[i].node \in Plain \/ Path(i - 1)'
    BY <1>2, CallersKept
  <1>4. /\ calls[n].node \in 1 .. Len(prog) /\ Op = prog[calls[n].node].op
        /\ Args = prog[calls[n].node].args /\ p + 1 \in DOMAIN Args
        /\ focus'.node = Args[p + 1]
    BY <1>1, TopFacts DEF Top, Op, Args, Running, Param
  <1>5. \/ focus'.node \in Plain
        \/ calls[n].node \notin Plain /\ (Op \in ListOps \/ (Op = "if" /\ p + 1 > 1))
    BY <1>4 DEF OutermostReturns
  <1>6. CASE calls[n].node \notin Plain /\ (Op \in ListOps \/ (Op = "if" /\ p + 1 > 1))
    <2>1. Op \in ListOps \/ (Op = "if" /\ p > 0)
      BY <1>6
    <2>2. Statement(calls'[n])
      BY <1>1, <2>1 DEF Param
    <2>3. \A j \in 1 .. n - 1 : Statement(calls[j])
      BY <1>1, <1>2, <1>6 DEF PathInv, Path
    <2>4. \A j \in 1 .. n : Statement(calls'[j])
      <3>1. SUFFICES ASSUME NEW j \in 1 .. n PROVE Statement(calls'[j])
        OBVIOUS
      <3>2. CASE j = n
        BY <2>2, <3>2
      <3>3. CASE j # n
        <4>1. j \in 1 .. n - 1 /\ j < n
          BY <3>3
        <4>2. calls'[j] = calls[j]
          BY <1>2, <4>1 DEF Below
        <4>3. QED
          BY <2>3, <4>1, <4>2
      <3>4. QED
        BY <3>2, <3>3
    <2>5. Path(Len(calls))'
      BY <1>2, <2>4 DEF Path, Statement
    <2>6. QED
      BY <1>2, <1>3, <2>5 DEF PathInv
  <1>7. QED
    BY <1>2, <1>3, <1>5, <1>6 DEF PathInv

(* A call takes what its term is about with it. *)
LEMMA PathCalls ==
  ASSUME CoreInv, PathInv, EvalFunctionCall
  PROVE  PathInv'
  <1>1. PICK n \in Nat : n = Len(calls)
    BY CallsFacts DEF Lengths
  <1>2. /\ Len(calls') = n + 1 /\ focus'.k = "ret" /\ focus.k = "eval"
        /\ \A j \in 1 .. n : calls'[j] = calls[j]
        /\ calls'[n + 1].node = focus.node
    BY <1>1, AfterCall DEF EvalFunctionCall
  <1>3. prog' = prog /\ Plain' = Plain
    BY DEF EvalFunctionCall, Plain
  <1>4. ASSUME NEW i \in 1 .. n + 1
        PROVE  calls'[i].node \in Plain \/ Path(i - 1)'
    <2>1. i - 1 \in Nat /\ \A j \in 1 .. i - 1 : calls'[j] = calls[j]
      BY <1>2
    <2>2. CASE i = n + 1
      <3>1. focus.node \in Plain \/ Path(i - 1)
        BY <1>1, <1>2, <2>2 DEF PathInv
      <3>2. QED
        BY <1>2, <1>3, <2>1, <2>2, <3>1, PathKept
    <2>3. CASE i # n + 1
      <3>1. i \in 1 .. n
        BY <2>3
      <3>2. calls[i].node \in Plain \/ Path(i - 1)
        BY <1>1, <3>1 DEF PathInv
      <3>3. QED
        BY <1>2, <1>3, <2>1, <3>1, <3>2, PathKept
    <2>4. QED
      BY <2>2, <2>3
  <1>5. QED
    BY <1>2, <1>3, <1>4 DEF PathInv

(* Outside a run there is no activation to speak of. *)
LEMMA PathEmpty ==
  ASSUME Len(calls') = 0
  PROVE  PathInv'
  BY DEF PathInv, Path

(* Only a list or an if can be the innermost activation after a return. *)
LEMMA NotReturned ==
  ASSUME CoreInv, DoneInv, Running, Op \notin ListOps \cup {"if"}
  PROVE  ~hist.returned
  <1>1. Len(calls) \in 1 .. Len(calls)
    BY TopFacts DEF Running
  <1>2. ~Statement(Top)
    BY DEF Statement, Op
  <1>3. ~Path(Len(calls))
    BY <1>1, <1>2 DEF Path, Top
  <1>4. QED
    BY <1>3 DEF DoneInv, Running

(* A step of a function hands the value on. *)
LEMMA ReturnFunction ==
  ASSUME ReturnInv, OutermostReturns(prog, Plain), FunctionStep
  PROVE  PathInv' /\ DoneInv'
  <1>1. /\ CoreInv /\ PathInv /\ DoneInv
        /\ Running /\ prog' = prog /\ hist' = hist
    BY DEF ReturnInv, IInv, FunctionStep, Keeps
  <1>2. PathInv'
    <2>1. CASE Descends
      <3>1. Same /\ \E k \in Nat : Param(k)
        BY <1>1, <2>1, AfterDescends
      <3>2. QED
        BY <1>1, <3>1, PathDescends
    <2>2. CASE Stays
      <3>1. Below(Len(calls)) /\ Len(calls) \in 0 .. Len(calls) /\ focus'.k = "ret"
        BY <1>1, <2>2, AfterStays, CallsFacts DEF Below, Same, Lengths
      <3>2. QED
        BY <1>1, <3>1, PathGoesOn
    <2>3. CASE Raise
      BY <2>3, PathEmpty DEF Raise
    <2>4. CASE Returns /\ status' # "done"
      <3>1. Outer(Len(calls) - 1) /\ focus'.k = "ret"
        BY <1>1, <2>4, AfterReturn DEF Returns, Ret
      <3>2. Below(Len(calls) - 1) /\ Len(calls) - 1 \in 0 .. Len(calls)
        BY <1>1, <3>1, TopFacts DEF Below, Outer, Running
      <3>3. QED
        BY <1>1, <3>1, <3>2, PathGoesOn
    <2>5. CASE Returns /\ status' = "done"
      <3>1. Raise
        BY <1>1, <2>5 DEF Returns, Return, Running, runVars
      <3>2. QED
        BY <3>1, PathEmpty DEF Raise
    <2>6. QED
      BY <2>1, <2>2, <2>3, <2>4, <2>5 DEF FunctionStep
  <1>3. DoneInv'
    <2>1. SUFFICES ASSUME hist.returned PROVE DoneInv'
      BY <1>1 DEF DoneInv
    <2>2. /\ focus.val = hist.value /\ returnCalled /\ Path(Len(calls))
      BY <1>1, <2>1 DEF DoneInv, Running
    <2>3. PICK n \in Nat : n + 1 = Len(calls)
      <3>1. Len(calls) - 1 \in Nat /\ (Len(calls) - 1) + 1 = Len(calls)
        BY <1>1, TopFacts DEF Running
      <3>2. QED
        BY <3>1
    <2>4. Statement(Top)
      BY <2>2, <2>3 DEF Path, Top
    <2>5. Return(focus.val) /\ returnCalled' = returnCalled
      BY <2>2, <2>4 DEF FunctionStep, Passes
    <2>6. CASE status' = "done"
      BY <2>6 DEF DoneInv
    <2>7. CASE Outer(n) /\ status' = status /\ focus' = Ret(focus.val)
      <3>1. \A j \in 1 .. n : calls'[j] = calls[j]
        BY <2>7 DEF Outer
      <3>2. Path(n)
        BY <2>2, <2>3 DEF Path
      <3>3. Path(n)'
        BY <1>1, <3>1, <3>2, PathKept
      <3>4. Path(Len(calls))'
        BY <2>7, <3>3 DEF Outer, Path
      <3>5. focus'.k = "ret" /\ focus'.val = hist'.value
        BY <1>1, <2>2, <2>7 DEF Ret
      <3>6. QED
        BY <1>1, <2>2, <2>5, <2>7, <3>4, <3>5 DEF DoneInv, Running
    <2>8. status' = "done" \/ (Outer(n) /\ status' = status /\ focus' = Ret(focus.val))
      <3>1. Len(calls) - 1 = n
        BY <2>3
      <3>2. QED
        BY <1>1, <2>5, <3>1, FocusFacts, AfterReturn
    <2>9. QED
      BY <2>6, <2>7, <2>8
  <1>4. QED
    BY <1>2, <1>3

(* The value of a return statement *)
LEMMA ReturnBegins ==
  ASSUME ReturnInv, IInv', OutermostReturns(prog, Plain), ReturnValue
  PROVE  PathInv' /\ DoneInv'
  <1>1. CoreInv /\ DataInv /\ PathInv
    BY DEF ReturnInv, IInv
  <1>2. /\ Running /\ Op = "return" /\ prog' = prog /\ Return(focus.val)
        /\ returnCalled' = TRUE
    BY <1>1, AtFacts DEF ReturnValue
  <1>3. PICK n \in Nat : n + 1 = Len(calls)
    <2>1. Len(calls) - 1 \in Nat /\ (Len(calls) - 1) + 1 = Len(calls)
      BY <1>1, <1>2, TopFacts DEF Running
    <2>2. QED
      BY <2>1
  <1>4. status' = "done" \/ (Outer(n) /\ status' = status /\ focus' = Ret(focus.val))
    <2>1. Len(calls) - 1 = n
      BY <1>3
    <2>2. QED
      BY <1>1, <1>2, <2>1, FocusFacts, AfterReturn
  <1>5. CASE status' = "done"
    <2>1. Len(calls') = 0
      BY <1>5 DEF IInv, CoreInv, Quiet
    <2>2. QED
      BY <1>5, <2>1, PathEmpty DEF DoneInv
  <1>6. CASE Outer(n) /\ status' = status /\ focus' = Ret(focus.val)
    <2>1. Below(n) /\ n \in 0 .. Len(calls) /\ focus'.k = "ret" /\ focus'.val = focus.val
          /\ status' = "running"
      BY <1>2, <1>3, <1>6 DEF Below, Outer, Ret, Running
    <2>2. PathInv'
      BY <1>1, <2>1, PathGoesOn
    <2>3. calls[n + 1].node \in 1 .. Len(prog) /\ prog[calls[n + 1].node].op = "return"
      BY <1>1, <1>2, <1>3, TopFacts DEF Top, Op, Running
    <2>4. calls[n + 1].node \notin Plain
      BY <2>3 DEF OutermostReturns
    <2>5. n + 1 \in 1 .. Len(calls) /\ (n + 1) - 1 = n
      BY <1>3
    <2>6. Path(n)
      BY <1>1, <2>4, <2>5 DEF PathInv
    <2>7. Path(n)'
      BY <1>2, <1>6, <2>6, PathKept DEF Outer
    <2>8. Path(Len(calls))'
      BY <1>6, <2>7 DEF Outer, Path
    <2>9. hist'.value = focus.val
      BY <1>1, HistoryFields
    <2>10. QED
      BY <1>2, <2>1, <2>2, <2>8, <2>9 DEF DoneInv
  <1>7. QED
    BY <1>4, <1>5, <1>6

(* The other steps of the evaluator *)
LEMMA ReturnOther ==
  ASSUME ReturnInv, IInv',
         EvalLeaf \/ EvalFunctionCall \/ Break \/ HostAnswers \/ HostInterrupts
         \/ HostRaises \/ Unwind \/ FinishRun \/ SuspendRun
  PROVE  PathInv' /\ DoneInv'
  <1>1. CoreInv /\ DataInv /\ PathInv /\ DoneInv
    BY DEF ReturnInv, IInv
  <1>2. PICK n \in Nat : n = Len(calls)
    BY <1>1, CallsFacts DEF Lengths
  <1>3. CASE EvalLeaf
    <2>1. /\ calls' = calls /\ focus'.k = "ret" /\ prog' = prog /\ hist' = hist
          /\ focus.k = "eval" /\ status = "running"
      BY <1>3 DEF EvalLeaf, Leaf, Ret
    <2>2. n \in 0 .. Len(calls) /\ Below(n)
      BY <1>2, <2>1 DEF Below
    <2>3. DoneInv'
      BY <1>1, <2>1 DEF DoneInv
    <2>4. QED
      BY <1>1, <2>1, <2>2, <2>3, PathGoesOn
  <1>4. CASE EvalFunctionCall
    <2>1. focus.k = "eval" /\ status = "running" /\ hist' = hist
      BY <1>4 DEF EvalFunctionCall
    <2>2. DoneInv'
      BY <1>1, <2>1 DEF DoneInv
    <2>3. QED
      BY <1>1, <1>4, <2>2, PathCalls
  <1>5. CASE Break \/ HostAnswers
    <2>1. Running /\ prog' = prog /\ hist'.returned = hist.returned /\ Op \in {"break", "host"}
      BY <1>1, <1>5, AtFacts, HistoryFields DEF Break, HostAnswers
    <2>2. ~hist.returned
      BY <1>1, <2>1, NotReturned DEF ListOps
    <2>3. DoneInv'
      BY <2>1, <2>2 DEF DoneInv
    <2>4. PICK v \in Value : Return(v)
      BY <1>5, ValueAssumption DEF Break, HostAnswers
    <2>5. CASE status' = "done"
      <3>1. Len(calls') = 0
        BY <2>5 DEF IInv, CoreInv, Quiet
      <3>2. QED
        BY <2>3, <3>1, PathEmpty
    <2>6. CASE Outer(Len(calls) - 1) /\ focus' = Ret(v)
      <3>1. focus'.k # "eval"
        BY <2>6 DEF Ret
      <3>2. Len(calls) - 1 \in 0 .. Len(calls) /\ Below(Len(calls) - 1)
        BY <1>1, <2>1, <2>6, TopFacts DEF Below, Outer, Running
      <3>3. QED
        BY <1>1, <2>3, <3>1, <3>2, PathGoesOn
    <2>7. QED
      BY <1>1, <2>1, <2>4, <2>5, <2>6, AfterReturn
  <1>6. CASE HostInterrupts
    <2>1. calls' = calls /\ focus'.k = "intr" /\ prog' = prog /\ hist'.returned = hist.returned
          /\ Running /\ Op = "host"
      BY <1>1, <1>6, AtFacts, HistoryFields DEF HostInterrupts, Interrupt
    <2>2. n \in 0 .. Len(calls) /\ Below(n)
      BY <1>2, <2>1 DEF Below
    <2>3. ~hist.returned
      BY <1>1, <2>1, NotReturned DEF ListOps
    <2>4. DoneInv'
      BY <2>1, <2>3 DEF DoneInv
    <2>5. QED
      BY <1>1, <2>1, <2>2, <2>4, PathGoesOn
  <1>7. CASE HostRaises
    <2>1. Len(calls') = 0 /\ status' = "done"
      BY <1>7 DEF HostRaises, Raise
    <2>2. QED
      BY <2>1, PathEmpty DEF DoneInv
  <1>8. CASE Unwind
    <2>1. /\ calls' = SubSeq(calls, 1, n - 1) /\ calls # <<>> /\ focus'.k = "intr"
          /\ focus.k = "intr" /\ status = "running" /\ prog' = prog /\ hist' = hist
      BY <1>2, <1>8 DEF Unwind
    <2>2. calls \in Seq(Activation) /\ n - 1 \in Nat /\ Len(calls) = (n - 1) + 1
      BY <1>1, <1>2, <2>1 DEF CoreInv
    <2>3. Len(calls') = n - 1 /\ \A j \in 1 .. n - 1 : calls'[j] = calls[j]
      BY <2>1, <2>2, WithoutLast
    <2>4. n - 1 \in 0 .. Len(calls) /\ Below(n - 1)
      BY <2>1, <2>2, <2>3 DEF Below
    <2>5. DoneInv'
      BY <1>1, <2>1 DEF DoneInv
    <2>6. QED
      BY <1>1, <2>1, <2>4, <2>5, PathGoesOn
  <1>9. CASE FinishRun
    <2>1. Len(calls') = 0 /\ status' = "done"
      BY <1>9 DEF FinishRun
    <2>2. QED
      BY <2>1, PathEmpty DEF DoneInv
  <1>10. CASE SuspendRun
    <2>1. Len(calls') = 0 /\ focus.k = "intr" /\ status = "running" /\ hist' = hist
      BY <1>10 DEF SuspendRun
    <2>2. QED
      BY <1>1, <2>1, PathEmpty DEF DoneInv
  <1>11. QED
    BY <1>3, <1>4, <1>5, <1>6, <1>7, <1>8, <1>9, <1>10

(* In a script whose return statements are statements of lists and         *)
(* branches up to the root, nothing runs after a return: no host function  *)
(* is called any more and the script's result is the value returned.  The  *)
(* loops and the switch do not look at returnCalled (return_in_loop),      *)
(* which is why the scripts are restricted. *)
THEOREM ReturnsAreFinal ==
  ASSUME \A p \in Programs : \E plain \in SUBSET (1 .. Len(p)) : OutermostReturns(p, plain)
  PROVE  Spec => []ReturnIsFinal
  <1>1. Init => ReturnInv
    <2>1. SUFFICES ASSUME Init PROVE ReturnInv
      OBVIOUS
    <2>2. Len(calls) = 0 /\ focus.k = "ret" /\ hist.returned = FALSE
      BY <2>1 DEF Init, Ret
    <2>3. QED
      BY <2>1, <2>2, InitialInv DEF ReturnInv, PathInv, DoneInv
  <1>2. ReturnInv /\ [Next]_vars => ReturnInv'
    <2>1. SUFFICES ASSUME ReturnInv, [Next]_vars PROVE ReturnInv'
      OBVIOUS
    <2>2. IInv /\ CoreInv /\ DataInv /\ DoneInv /\ OutermostReturns(prog, Plain)
      BY <2>1, PlainFacts DEF ReturnInv, IInv
    <2>3. CASE Evaluate
      <3>1. IInv'
        BY <2>2, <2>3, EvaluateStep
      <3>2. PathInv' /\ DoneInv'
        BY <2>1, <2>2, <2>3, <3>1, EvaluateMoves, ReturnFunction, ReturnBegins, ReturnOther
      <3>3. QED
        BY <3>1, <3>2 DEF ReturnInv
    <2>4. CASE StartRun \/ ResumeRun
      <3>1. IInv'
        BY <2>2, <2>4, StartStep, ResumeStep
      <3>2. calls' = <<>>
        BY <2>2, <2>4 DEF StartRun, ResumeRun, CoreInv, Quiet
      <3>3. hist'.returned = FALSE
        <4>1. CASE StartRun
          BY <2>2, <4>1, HistoryFields
        <4>2. CASE ResumeRun
          BY <2>2, <4>2, HistoryFields DEF DoneInv, ResumeRun
        <4>3. QED
          BY <2>4, <4>1, <4>2
      <3>4. QED
        BY <3>1, <3>2, <3>3, PathEmpty DEF ReturnInv, DoneInv
    <2>5. CASE HostIsDone \/ UNCHANGED vars
      <3>1. UNCHANGED vars
        BY <2>5 DEF HostIsDone
      <3>2. IInv'
        BY <2>2, <3>1, StutterStep
      <3>3. PathInv' /\ DoneInv'
        BY <2>1, <3>1
           DEF ReturnInv, vars, envVars, runVars, PathInv, DoneInv, Path, Statement, Plain
      <3>4. QED
        BY <3>2, <3>3 DEF ReturnInv
    <2>6. QED
      BY <2>1, <2>3, <2>4, <2>5 DEF Next
  <1>3. ReturnInv => ReturnIsFinal
    <2>1. SUFFICES ASSUME ReturnInv, hist.returned, status = "running", focus.k = "ret"
                   PROVE  IF calls = <<>> THEN focus.val = hist.value ELSE Op # "host"
      BY DEF ReturnIsFinal
    <2>2. CASE calls = <<>>
      BY <2>1, <2>2 DEF ReturnInv, DoneInv
    <2>3. CASE calls # <<>>
      <3>1. CoreInv /\ DoneInv /\ Running
        BY <2>1, <2>3 DEF ReturnInv, IInv, Running
      <3>2. Op = "host" => Op \notin ListOps \cup {"if"}
        BY DEF ListOps
      <3>3. QED
        BY <2>1, <2>3, <3>1, <3>2, NotReturned
    <2>4. QED
      BY <2>2, <2>3
  <1>4. QED
    BY <1>1, <1>2, <1>3, PTL DEF Spec
=============================================================================

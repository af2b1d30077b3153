--------------------------- MODULE UMInterpreter ---------------------------
(***************************************************************************)
(* The evaluator of umscript: UMTerm evaluateWithEnvironment:continueFrom: *)
(* and the control functions it dispatches to, run by a UMScriptDocument,  *)
(* suspended by a UMTerm_Interrupt and resumed by the host.                *)
(*                                                                         *)
(* The Objective-C call stack is the sequence "calls": one activation for  *)
(* each evaluateWithParams:environment:continueFrom: that has not          *)
(* returned.  "focus" is what the thread does next: evaluate a term, hand  *)
(* a value back to the innermost activation, or let an interrupt unwind    *)
(* it.  Every action is one activation's code between two evaluations of   *)
(* subterms.                                                               *)
(*                                                                         *)
(* Values are taken up to their stringValue, so that a value is also the   *)
(* label it jumps to; what operators compute from them is left open.       *)
(***************************************************************************)
EXTENDS UMStack

CONSTANTS
    Value,          \* the discrete values a script can hold, and nil
    Nil,            \* the Objective-C nil
    Null,           \* [UMDiscreteValue discreteNull]
    DefaultLabel,   \* the label "default"
    Truthy,         \* the values whose boolValue is YES
    Truths,         \* the values a comparison returns (discreteBool)
    HostValues,     \* the values a host function may return
    Programs,       \* compiled scripts, each a sequence of terms, root first
    QueueAllocated, \* does the interrupt own a queue for its entries?  A
                    \* UMTerm_Interrupt never allocates callStackEntries;
                    \* a subclass the host throws can.
    MaxAnswers,     \* bound: host calls that may still answer a true value
    MaxInterrupts,  \* bound: interrupts the host functions throw
    MaxRuns         \* bound: fresh runs of the script

LeafOps == {"const", "null", "var"}

FunctionOps ==
    {"list", "block", "if", "while", "dowhile", "for", "switch", "return",
     "break", "goto", "assign", "setvar", "getvar", "binary", "add", "and",
     "increase", "user", "host"}

(***************************************************************************)
(* A term: what it is, its parameters (indices into the program), the      *)
(* label of the statement, and the value of a constant or of a goto label. *)
(***************************************************************************)
IsProgram(p) ==
    /\ p \in Seq([op    : LeafOps \cup FunctionOps,
                  args  : Seq(1 .. Len(p)),
                  label : Value,
                  val   : Value])
    /\ Len(p) > 0

ASSUME ValueAssumption ==
    /\ {Nil, Null, DefaultLabel} \subseteq Value
    /\ Nil # Null
    /\ HostValues \subseteq Value /\ HostValues # {}
    /\ Truths \subseteq Value /\ Truths # {}
    /\ Truthy \subseteq Value \ {Nil, Null}

ASSUME ProgramAssumption == \A p \in Programs : IsProgram(p)

ASSUME BoundAssumption ==
    /\ QueueAllocated \in BOOLEAN
    /\ MaxAnswers \in Nat /\ MaxInterrupts \in Nat /\ MaxRuns \in Nat

VARIABLES
    prog,           \* _compiledCode
    hasStack,       \* was _stack allocated by the environment's initialiser?
    returnValue,    \* UMEnvironment returnValue
    returnCalled,   \* UMEnvironment returnCalled
    breakCalled,    \* UMEnvironment breakCalled
    jumpTo,         \* UMEnvironment jumpTo
    calls,          \* activations, outermost first
    focus,          \* what the evaluating thread does next
    status,         \* "idle", "running", "suspended" or "done"
    result,         \* what runScriptWithEnvironment returned
    queue,          \* entries left in the interrupt being continued from
    recorded,       \* entries of the interrupt being thrown
    hist            \* history: counters for the bounds, and what properties need

envVars == <<returnValue, returnCalled, breakCalled, jumpTo>>
runVars == <<status, result>>
vars == <<prog, hasStack, stackVars, envVars, calls, focus, runVars,
          queue, recorded, hist>>

-----------------------------------------------------------------------------
(* Activations and entries *)

Pcs == {"enter", "stmt", "cond", "body", "every", "init", "left", "right"}

Activation == [node : 1 .. Len(prog), pc : Pcs, pos : Nat, tmp : Value,
               cont : BOOLEAN]

(* UMTerm_CallStackEntry: position and temporaryResult. *)
Entry == [pos : Nat, tmp : Value]
EntryAt(p, t) == [pos |-> p, tmp |-> t]

(* Messages to a nil entry answer 0 and nil. *)
NoEntry == EntryAt(0, Nil)

Eval(n, c) == [k |-> "eval", node |-> n, val |-> Nil, cont |-> c]
Ret(v)     == [k |-> "ret",  node |-> 1, val |-> v,   cont |-> FALSE]
Interrupt  == [k |-> "intr", node |-> 1, val |-> Nil, cont |-> FALSE]

Top  == calls[Len(calls)]
Op   == prog[Top.node].op
Args == prog[Top.node].args

(* The innermost activation has code to run: it was entered, or the value  *)
(* of the subterm it was evaluating at pc came back.                       *)
At(op, pc) ==
    /\ status = "running" /\ focus.k = "ret"
    /\ calls # <<>>
    /\ Op = op /\ Top.pc = pc

(* [interruptedAt pullEntry] *)
Pulled == IF QueueAllocated /\ Top.cont /\ queue # <<>>
          THEN Head(queue) ELSE NoEntry
PullEntry == queue' = IF QueueAllocated /\ Top.cont /\ queue # <<>>
                      THEN Tail(queue) ELSE queue

-----------------------------------------------------------------------------
(* The three ways an activation's code ends *)

(* It keeps its locals and goes on at pc. *)
Continues(pc, pos, tmp) ==
    calls' = [calls EXCEPT ![Len(calls)] =
                 [node |-> Top.node, pc |-> pc, pos |-> pos, tmp |-> tmp,
                  cont |-> Top.cont]]

(* It evaluates its parameter k (counted from 0, as in the code). *)
EvalArgFrom(k, pc, pos, tmp, cont) ==
    /\ Continues(pc, pos, tmp)
    /\ focus' = Eval(Args[k + 1], cont)
    /\ UNCHANGED <<stackVars, runVars>>

EvalArg(k, pc, pos, tmp) == EvalArgFrom(k, pc, pos, tmp, Top.cont)

(* An NSException: nothing on the way to the document catches it, so every *)
(* activation is gone, no frame is popped, and the run's result is NULL.   *)
Raise ==
    /\ calls' = <<>>
    /\ focus' = Ret(Nil)
    /\ status' = "done"
    /\ result' = Nil
    /\ UNCHANGED stackVars

(* It returns v to the term that called it, which pops its frame. *)
Return(v) ==
    IF hasStack /\ PopRaises
    THEN Raise
    ELSE /\ calls' = SubSeq(calls, 1, Len(calls) - 1)
         /\ focus' = Ret(v)
         /\ IF hasStack THEN PopFrame ELSE UNCHANGED stackVars
         /\ UNCHANGED runVars

-----------------------------------------------------------------------------
(* UMTerm: evaluating a term *)

Leaf(v) ==
    /\ focus' = Ret(v)
    /\ UNCHANGED <<stackVars, calls, runVars>>

EvalLeaf ==
    /\ status = "running" /\ focus.k = "eval"
    /\ LET term == prog[focus.node] IN
       \/ term.op = "const" /\ Leaf(term.val)
       \/ term.op = "null"  /\ Leaf(Null)
       \/ term.op = "var"   /\ \E v \in HostValues : Leaf(v)
    /\ UNCHANGED <<prog, hasStack, envVars, queue, recorded, hist>>

(* Mutant: a call that is being continued pushes no frame. *)
EvalFunctionCallNoFrame ==
    /\ status = "running" /\ focus.k = "eval"
    /\ prog[focus.node].op \in FunctionOps
    /\ IF hasStack /\ ~focus.cont
       THEN PushFrame(focus.node) ELSE UNCHANGED stackVars
    /\ calls' = Append(calls, [node |-> focus.node, pc |-> "enter", pos |-> 0,
                               tmp |-> Nil, cont |-> focus.cont])
    /\ focus' = Ret(Nil)
    /\ UNCHANGED <<prog, hasStack, envVars, runVars, queue, recorded, hist>>

EvalFunctionCall ==
    /\ status = "running" /\ focus.k = "eval"
    /\ prog[focus.node].op \in FunctionOps
    /\ IF hasStack THEN PushFrame(focus.node) ELSE UNCHANGED stackVars
    /\ calls' = Append(calls, [node |-> focus.node, pc |-> "enter", pos |-> 0,
                               tmp |-> Nil, cont |-> focus.cont])
    /\ focus' = Ret(Nil)
    /\ UNCHANGED <<prog, hasStack, envVars, runVars, queue, recorded, hist>>

-----------------------------------------------------------------------------
(* UMFunction_list and UMFunction_block, whose code is the same *)

ListOps == {"list", "block"}

(* Mutant: the last statement's label is missed. *)
LabelledNotLast(l) == {i \in 0 .. Len(Args) - 2 : prog[Args[i + 1]].label = l}

Labelled(l) == {i \in 0 .. Len(Args) - 1 : prog[Args[i + 1]].label = l}

(* labelsDict keeps the last statement that carries a label. *)
LabelIndex(l) == CHOOSE i \in Labelled(l) : \A j \in Labelled(l) : j <= i

(* Mutant: the jump that brought the list here stays pending. *)
ListLoopKeepsJump(i, value) ==
    /\ returnValue' = value
    /\ IF i >= Len(Args)
       THEN /\ Return(value)
            /\ UNCHANGED <<returnCalled, breakCalled, jumpTo>>
       ELSE /\ EvalArg(i, "stmt", i, Nil)
            /\ returnCalled' = FALSE
            /\ breakCalled' = FALSE
            /\ UNCHANGED jumpTo

(* The head of the loop: leave at the end, or clear the flags and evaluate *)
(* statement i. *)
ListLoop(i, value) ==
    /\ returnValue' = value
    /\ IF i >= Len(Args)
       THEN /\ Return(value)
            /\ UNCHANGED <<returnCalled, breakCalled, jumpTo>>
       ELSE /\ EvalArg(i, "stmt", i, Nil)
            /\ returnCalled' = FALSE
            /\ breakCalled' = FALSE
            /\ jumpTo' = Nil

ListEnter(op) ==
    /\ op \in ListOps /\ At(op, "enter")
    /\ PullEntry
    /\ LET start == IF jumpTo = Nil THEN Pulled.pos
                    ELSE IF Labelled(jumpTo) # {} THEN LabelIndex(jumpTo)
                    ELSE IF Labelled(DefaultLabel) # {} THEN LabelIndex(DefaultLabel)
                    ELSE Len(Args) + 1
       IN ListLoop(start, Nil)
    /\ UNCHANGED <<prog, hasStack, recorded, hist>>

(* Mutant: only a break leaves the list. *)
ListNextNoReturn(op) ==
    /\ op \in ListOps /\ At(op, "stmt")
    /\ IF breakCalled
       THEN Return(returnValue) /\ UNCHANGED envVars
       ELSE IF jumpTo = Nil
       THEN ListLoop(Top.pos + 1, returnValue)
       ELSE IF Labelled(jumpTo) # {}
       THEN ListLoop(LabelIndex(jumpTo), returnValue)
       ELSE Raise /\ UNCHANGED envVars
    /\ UNCHANGED <<prog, hasStack, queue, recorded, hist>>

(* Statement Top.pos answered: return, break, jump, or the next one.  A    *)
(* jump that finds no label tries the description of discreteNull and then *)
(* raises "Unknown label". *)
ListNext(op) ==
    /\ op \in ListOps /\ At(op, "stmt")
    /\ IF returnCalled
       THEN /\ returnValue' = focus.val
            /\ Return(focus.val)
            /\ UNCHANGED <<returnCalled, breakCalled, jumpTo>>
       ELSE IF breakCalled
       THEN Return(returnValue) /\ UNCHANGED envVars
       ELSE IF jumpTo = Nil
       THEN ListLoop(Top.pos + 1, returnValue)
       ELSE IF Labelled(jumpTo) # {}
       THEN ListLoop(LabelIndex(jumpTo), returnValue)
       ELSE IF Labelled(Null) # {}
       THEN ListLoop(LabelIndex(Null), returnValue)
       ELSE Raise /\ UNCHANGED envVars
    /\ UNCHANGED <<prog, hasStack, queue, recorded, hist>>

ListCatch == <<EntryAt(Top.pos, Nil)>>

-----------------------------------------------------------------------------
(* UMFunction_if *)

IfBranch(condition) ==
    IF condition \in Truthy
    THEN EvalArg(1, "body", 0, condition)
    ELSE IF Len(Args) = 3 THEN EvalArg(2, "body", 0, condition)
    ELSE Return(Nil)

IfEnter ==
    /\ At("if", "enter")
    /\ IF Len(Args) < 2
       THEN Return(Null) /\ UNCHANGED queue
       ELSE /\ PullEntry
            /\ IF Pulled.pos = 0
               THEN EvalArg(0, "cond", 0, Nil)
               ELSE IfBranch(Pulled.tmp)
    /\ UNCHANGED <<prog, hasStack, envVars, recorded, hist>>

IfCondition ==
    /\ At("if", "cond")
    /\ IfBranch(focus.val)
    /\ UNCHANGED <<prog, hasStack, envVars, queue, recorded, hist>>

IfReturn ==
    /\ At("if", "body")
    /\ Return(focus.val)
    /\ UNCHANGED <<prog, hasStack, envVars, queue, recorded, hist>>

(* Mutant: the branch forgets that the condition has been evaluated. *)
IfCatchNoBranch == <<NoEntry>>

IfCatch == IF Top.pc = "cond" THEN <<NoEntry>> ELSE <<EntryAt(1, Top.tmp)>>

-----------------------------------------------------------------------------
(* UMFunction_while *)

WhileTest(condition) ==
    /\ breakCalled' = FALSE
    /\ IF condition \in Truthy
       THEN EvalArg(1, "body", 0, condition)
       ELSE Return(condition)

WhileEnter ==
    /\ At("while", "enter")
    /\ IF Len(Args) < 2
       THEN Raise /\ UNCHANGED <<queue, breakCalled>>
       ELSE /\ PullEntry
            /\ IF Len(Args) > 2
               THEN Return(Null) /\ UNCHANGED breakCalled
               ELSE IF Pulled.pos = 0
               THEN EvalArg(0, "cond", 0, Nil) /\ breakCalled' = FALSE
               ELSE WhileTest(Pulled.tmp)
    /\ UNCHANGED <<prog, hasStack, returnValue, returnCalled, jumpTo,
                   recorded, hist>>

WhileCondition ==
    /\ At("while", "cond")
    /\ IF focus.val \in Truthy
       THEN EvalArg(1, "body", 0, focus.val) /\ UNCHANGED breakCalled
       ELSE Return(focus.val) /\ breakCalled' = FALSE
    /\ UNCHANGED <<prog, hasStack, returnValue, returnCalled, jumpTo, queue,
                   recorded, hist>>

(* Mutants: a break does not leave the loop; the condition is tested once. *)
WhileBodyNoBreak ==
    /\ At("while", "body")
    /\ EvalArg(0, "cond", 0, Nil)
    /\ UNCHANGED <<prog, hasStack, envVars, queue, recorded, hist>>

WhileBodyNoCondition ==
    /\ At("while", "body")
    /\ IF breakCalled
       THEN Return(Top.tmp) /\ breakCalled' = FALSE
       ELSE EvalArg(1, "body", 0, Top.tmp) /\ UNCHANGED breakCalled
    /\ UNCHANGED <<prog, hasStack, returnValue, returnCalled, jumpTo, queue,
                   recorded, hist>>

WhileBody ==
    /\ At("while", "body")
    /\ IF breakCalled
       THEN Return(Top.tmp) /\ breakCalled' = FALSE
       ELSE EvalArg(0, "cond", 0, Nil) /\ UNCHANGED breakCalled
    /\ UNCHANGED <<prog, hasStack, returnValue, returnCalled, jumpTo, queue,
                   recorded, hist>>

WhileCatch == IF Top.pc = "cond" THEN <<NoEntry>> ELSE <<EntryAt(1, Top.tmp)>>

-----------------------------------------------------------------------------
(* UMFunction_dowhile: breakCalled is not cleared when the loop is left *)

DoWhileEnter ==
    /\ At("dowhile", "enter")
    /\ IF Len(Args) # 2
       THEN Return(Null) /\ UNCHANGED <<queue, breakCalled>>
       ELSE /\ PullEntry
            /\ breakCalled' = FALSE
            /\ IF Pulled.pos = 0
               THEN EvalArg(0, "body", 0, Nil)
               ELSE EvalArg(1, "cond", 0, Nil)
    /\ UNCHANGED <<prog, hasStack, returnValue, returnCalled, jumpTo,
                   recorded, hist>>

DoWhileBody ==
    /\ At("dowhile", "body")
    /\ IF breakCalled THEN Return(Top.tmp) ELSE EvalArg(1, "cond", 0, Nil)
    /\ UNCHANGED <<prog, hasStack, envVars, queue, recorded, hist>>

DoWhileCondition ==
    /\ At("dowhile", "cond")
    /\ IF focus.val \in Truthy
       THEN EvalArg(0, "body", 0, focus.val)
       ELSE Return(focus.val)
    /\ UNCHANGED <<prog, hasStack, envVars, queue, recorded, hist>>

DoWhileCatch == <<EntryAt(IF Top.pc = "body" THEN 0 ELSE 1, Nil)>>

-----------------------------------------------------------------------------
(* UMFunction_for: the activation's pos is "start", which is never reset, *)
(* and its tmp is "condition".  Parameters: init, condition, every, body. *)

ForEvery(start, condition) ==
    IF start <= 3
    THEN EvalArg(2, "every", start, condition)
    ELSE /\ Continues("every", start, condition)
         /\ focus' = Ret(Nil)
         /\ UNCHANGED <<stackVars, runVars>>

ForTest(start, condition) ==
    IF breakCalled \/ condition \notin Truthy
    THEN Return(condition) /\ breakCalled' = FALSE
    ELSE /\ UNCHANGED breakCalled
         /\ IF start <= 2
            THEN EvalArg(3, "body", start, condition)
            ELSE ForEvery(start, condition)

ForLoop(start, condition) ==
    IF start <= 1
    THEN EvalArg(1, "cond", start, condition) /\ UNCHANGED breakCalled
    ELSE ForTest(start, condition)

ForEnter ==
    /\ At("for", "enter")
    /\ IF Len(Args) # 4
       THEN Return(Null) /\ UNCHANGED <<queue, breakCalled>>
       ELSE /\ PullEntry
            /\ IF Pulled.pos = 0
               THEN EvalArg(0, "init", 0, Pulled.tmp) /\ UNCHANGED breakCalled
               ELSE ForLoop(Pulled.pos, Pulled.tmp)
    /\ UNCHANGED <<prog, hasStack, returnValue, returnCalled, jumpTo,
                   recorded, hist>>

ForInit ==
    /\ At("for", "init")
    /\ breakCalled' = FALSE
    /\ EvalArg(1, "cond", Top.pos, Top.tmp)
    /\ UNCHANGED <<prog, hasStack, returnValue, returnCalled, jumpTo, queue,
                   recorded, hist>>

ForCondition ==
    /\ At("for", "cond")
    /\ ForTest(Top.pos, focus.val)
    /\ UNCHANGED <<prog, hasStack, returnValue, returnCalled, jumpTo, queue,
                   recorded, hist>>

ForBody ==
    /\ At("for", "body")
    /\ ForEvery(Top.pos, Top.tmp)
    /\ UNCHANGED <<prog, hasStack, envVars, queue, recorded, hist>>

ForNext ==
    /\ At("for", "every")
    /\ ForLoop(Top.pos, Top.tmp)
    /\ UNCHANGED <<prog, hasStack, returnValue, returnCalled, jumpTo, queue,
                   recorded, hist>>

ForCatch ==
    CASE Top.pc = "init"             -> <<NoEntry>>
      [] Top.pc = "cond"             -> <<EntryAt(1, Top.tmp)>>
      [] Top.pc \in {"body", "every"} -> <<EntryAt(2, Top.tmp)>>
      [] OTHER                       -> <<>>

-----------------------------------------------------------------------------
(* UMFunction_switch *)

SwitchBlock(switchValue) ==
    /\ jumpTo' = switchValue
    /\ EvalArg(1, "body", 0, switchValue)

SwitchEnter ==
    /\ At("switch", "enter")
    /\ PullEntry
    /\ IF Len(Args) # 2
       THEN Return(Null) /\ UNCHANGED jumpTo
       ELSE IF Pulled.pos = 0
       THEN EvalArg(0, "cond", 0, Nil) /\ UNCHANGED jumpTo
       ELSE SwitchBlock(Pulled.tmp)
    /\ UNCHANGED <<prog, hasStack, returnValue, returnCalled, breakCalled,
                   recorded, hist>>

SwitchCondition ==
    /\ At("switch", "cond")
    /\ SwitchBlock(focus.val)
    /\ UNCHANGED <<prog, hasStack, returnValue, returnCalled, breakCalled,
                   queue, recorded, hist>>

(* Mutant: the break that ended the switch stays set. *)
SwitchReturnKeepsBreak ==
    /\ At("switch", "body")
    /\ Return(Null)
    /\ UNCHANGED <<prog, hasStack, envVars, queue, recorded, hist>>

SwitchReturn ==
    /\ At("switch", "body")
    /\ breakCalled' = FALSE
    /\ Return(Null)
    /\ UNCHANGED <<prog, hasStack, returnValue, returnCalled, jumpTo, queue,
                   recorded, hist>>

SwitchCatch == IF Top.pc = "cond" THEN <<NoEntry>> ELSE <<EntryAt(1, Top.tmp)>>

-----------------------------------------------------------------------------
(* UMFunction_return, UMFunction_break, UMFunction_goto.  "continue" is    *)
(* compiled to a goto without parameters. *)

ReturnEnter ==
    /\ At("return", "enter")
    /\ IF Len(Args) # 1
       THEN Return(Null) /\ UNCHANGED queue
       ELSE PullEntry /\ EvalArg(0, "body", 0, Nil)
    /\ UNCHANGED <<prog, hasStack, envVars, recorded, hist>>

ReturnValue ==
    /\ At("return", "body")
    /\ returnValue' = focus.val
    /\ returnCalled' = TRUE
    /\ Return(focus.val)
    /\ hist' = [hist EXCEPT !.returned = TRUE, !.value = focus.val]
    /\ UNCHANGED <<prog, hasStack, breakCalled, jumpTo, queue, recorded>>

ReturnCatch == <<NoEntry>>

(* The activation a break is meant for: the innermost loop or switch. *)
Breakable == {j \in 1 .. Len(calls) :
                 prog[calls[j].node].op \in {"while", "dowhile", "for", "switch"}}

Break ==
    /\ At("break", "enter")
    /\ breakCalled' = TRUE
    /\ Return(Null)
    /\ hist' = [hist EXCEPT !.brk =
                   IF Breakable = {} THEN 0
                   ELSE CHOOSE j \in Breakable : \A k \in Breakable : k <= j]
    /\ UNCHANGED <<prog, hasStack, returnValue, returnCalled, jumpTo, queue,
                   recorded>>

Goto ==
    /\ At("goto", "enter")
    /\ IF Args = <<>> \/ prog[Args[1]].op # "const"
       THEN Raise /\ UNCHANGED jumpTo
       ELSE Return(Nil) /\ jumpTo' = prog[Args[1]].val
    /\ UNCHANGED <<prog, hasStack, returnValue, returnCalled, breakCalled,
                   queue, recorded, hist>>

-----------------------------------------------------------------------------
(* Functions that evaluate operands.  What they compute from the operands, *)
(* and the variables and fields they write, are data the model leaves open. *)

(* UMFunction_assign does not pull the entry it records. *)
AssignEnter ==
    /\ At("assign", "enter")
    /\ IF Len(Args) # 2 THEN Return(Null) ELSE EvalArg(1, "right", 0, Nil)
    /\ UNCHANGED <<prog, hasStack, envVars, queue, recorded, hist>>

AssignValue ==
    /\ At("assign", "right")
    /\ Return(focus.val)
    /\ UNCHANGED <<prog, hasStack, envVars, queue, recorded, hist>>

AssignCatch == <<NoEntry>>

(* UMFunction_setvar and the two-operand functions share one protocol: the *)
(* left operand, kept in tmp while the right one is evaluated. *)
TwoOperandOps == {"setvar", "binary"}

OperandsEnter(op) ==
    /\ op \in TwoOperandOps /\ At(op, "enter")
    /\ IF Len(Args) # 2
       THEN Return(Null) /\ UNCHANGED queue
       ELSE /\ PullEntry
            /\ IF Pulled.pos = 0
               THEN EvalArg(0, "left", 0, Nil)
               ELSE EvalArg(1, "right", 0, Pulled.tmp)
    /\ UNCHANGED <<prog, hasStack, envVars, recorded, hist>>

OperandsLeft(op) ==
    /\ op \in TwoOperandOps /\ At(op, "left")
    /\ EvalArg(1, "right", 0, focus.val)
    /\ UNCHANGED <<prog, hasStack, envVars, queue, recorded, hist>>

SetVariable ==
    /\ At("setvar", "right")
    /\ Return(focus.val)
    /\ UNCHANGED <<prog, hasStack, envVars, queue, recorded, hist>>

Compare ==
    /\ At("binary", "right")
    /\ \E v \in Truths : Return(v)
    /\ UNCHANGED <<prog, hasStack, envVars, queue, recorded, hist>>

OperandsCatch == IF Top.pc = "left" THEN <<NoEntry>> ELSE <<EntryAt(1, Top.tmp)>>

(* UMFunction_add and UMFunction_and: a fold over the parameters whose     *)
(* partial result is recorded with the position. *)
FoldOps == {"add", "and"}

FoldLoop(i, value) ==
    IF i >= Len(Args) THEN Return(value) ELSE EvalArg(i, "stmt", i, value)

FoldEnter(op) ==
    /\ op \in FoldOps /\ At(op, "enter")
    /\ IF op = "and" /\ Len(Args) < 2
       THEN Return(Null) /\ UNCHANGED queue
       ELSE PullEntry /\ FoldLoop(Pulled.pos, Pulled.tmp)
    /\ UNCHANGED <<prog, hasStack, envVars, recorded, hist>>

FoldNext(op) ==
    /\ op \in FoldOps /\ At(op, "stmt")
    /\ IF Top.tmp = Nil
       THEN FoldLoop(Top.pos + 1, focus.val)
       ELSE \E v \in (IF op = "and" THEN Truths ELSE HostValues) :
               FoldLoop(Top.pos + 1, v)
    /\ UNCHANGED <<prog, hasStack, envVars, queue, recorded, hist>>

FoldCatch == <<EntryAt(Top.pos, Top.tmp)>>

(* UMFunction_getvar pulls an entry, then evaluates the name without the   *)
(* interrupt and without catching one. *)
GetVariableEnter ==
    /\ At("getvar", "enter")
    /\ PullEntry
    /\ IF Len(Args) # 1
       THEN Return(Null)
       ELSE EvalArgFrom(0, "body", 0, Nil, FALSE)
    /\ UNCHANGED <<prog, hasStack, envVars, recorded, hist>>

GetVariable ==
    /\ At("getvar", "body")
    /\ \E v \in HostValues : Return(v)
    /\ UNCHANGED <<prog, hasStack, envVars, queue, recorded, hist>>

(* UMFunction_postincrease and its siblings update the variable in place. *)
Increase ==
    /\ At("increase", "enter")
    /\ IF Len(Args) # 1
       THEN Return(Null)
       ELSE IF prog[Args[1]].op \notin {"var", "const"}
       THEN Return(Nil)
       ELSE \E v \in HostValues : Return(v)
    /\ UNCHANGED <<prog, hasStack, envVars, queue, recorded, hist>>

(* UMFunction: a function defined in the script never runs its statements. *)
UserFunction ==
    /\ At("user", "enter")
    /\ Return(Null)
    /\ UNCHANGED <<prog, hasStack, envVars, queue, recorded, hist>>

-----------------------------------------------------------------------------
(* A function the host adds to the environment: it answers, throws an      *)
(* interrupt because its answer comes later, or raises an exception.       *)

(* Where the thread is: the activations, without the locals that are dead  *)
(* or that nobody reads (start of for, condition of do-while). *)
Location(a) ==
    [node |-> a.node, pc |-> a.pc,
     pos |-> IF prog[a.node].op = "for" THEN 0 ELSE a.pos,
     tmp |-> IF prog[a.node].op = "dowhile" THEN Nil ELSE a.tmp]
Place == [node : 1 .. Len(prog), pc : Pcs, pos : Nat, tmp : Value]
Here == [j \in 1 .. Len(calls) |-> Location(calls[j])]

HostAnswers ==
    /\ At("host", "enter")
    /\ \E v \in HostValues :
          /\ v \in Truthy => hist.answers < MaxAnswers
          /\ Return(v)
          /\ hist' = [hist EXCEPT !.answers = @ + (IF v \in Truthy THEN 1 ELSE 0),
                                  !.tick = ~@,
                                  !.last = [node |-> Top.node, val |-> v],
                                  !.saved = <<>>]
    /\ UNCHANGED <<prog, hasStack, envVars, queue, recorded>>

HostInterrupts ==
    /\ At("host", "enter")
    /\ hist.interrupts < MaxInterrupts
    /\ focus' = Interrupt
    /\ recorded' = <<>>
    /\ hist' = [hist EXCEPT !.interrupts = @ + 1, !.saved = Here]
    /\ UNCHANGED <<prog, hasStack, stackVars, envVars, calls, runVars, queue>>

HostRaises ==
    /\ At("host", "enter")
    /\ Raise
    /\ hist' = [hist EXCEPT !.saved = <<>>]
    /\ UNCHANGED <<prog, hasStack, envVars, queue, recorded>>

-----------------------------------------------------------------------------
(* The interrupt on its way out: the catch block of each activation puts   *)
(* an entry in front of those recorded further in.  The term that called   *)
(* the function throws on without popping its frame. *)

Catch ==
    CASE Op \in ListOps       -> ListCatch
      [] Op = "if"            -> IfCatch
      [] Op = "while"         -> WhileCatch
      [] Op = "dowhile"       -> DoWhileCatch
      [] Op = "for"           -> ForCatch
      [] Op = "switch"        -> SwitchCatch
      [] Op = "return"        -> ReturnCatch
      [] Op = "assign"        -> AssignCatch
      [] Op \in TwoOperandOps -> OperandsCatch
      [] Op \in FoldOps       -> FoldCatch
      [] OTHER                -> <<>>

(* Mutant: the entry goes behind those recorded further in. *)
UnwindAppends ==
    /\ status = "running" /\ focus.k = "intr" /\ calls # <<>>
    /\ recorded' = IF QueueAllocated THEN recorded \o Catch ELSE recorded
    /\ calls' = SubSeq(calls, 1, Len(calls) - 1)
    /\ UNCHANGED <<prog, hasStack, stackVars, envVars, focus, runVars, queue,
                   hist>>

Unwind ==
    /\ status = "running" /\ focus.k = "intr" /\ calls # <<>>
    /\ recorded' = IF QueueAllocated THEN Catch \o recorded ELSE recorded
    /\ calls' = SubSeq(calls, 1, Len(calls) - 1)
    /\ UNCHANGED <<prog, hasStack, stackVars, envVars, focus, runVars, queue,
                   hist>>

-----------------------------------------------------------------------------
(* UMScriptDocument runScriptWithEnvironment:continueFrom: and the host *)

StartRun ==
    /\ status # "running" /\ hist.runs < MaxRuns
    /\ status' = "running"
    /\ focus' = Eval(1, FALSE)
    /\ queue' = <<>> /\ recorded' = <<>>
    /\ hist' = [hist EXCEPT !.runs = @ + 1,
                            !.base = Len(stackFrames),
                            !.last = [node |-> 0, val |-> Nil],
                            !.tick = ~@,
                            !.saved = <<>>, !.brk = 0,
                            !.returned = FALSE, !.value = Nil]
    /\ UNCHANGED <<prog, hasStack, stackVars, envVars, calls, result>>

ResumeRun ==
    /\ status = "suspended"
    /\ status' = "running"
    /\ focus' = Eval(1, TRUE)
    /\ queue' = recorded /\ recorded' = <<>>
    /\ hist' = [hist EXCEPT !.base = Len(stackFrames), !.brk = 0,
                            !.last = IF recorded = <<>>
                                     THEN [node |-> 0, val |-> Nil] ELSE @]
    /\ UNCHANGED <<prog, hasStack, stackVars, envVars, calls, result>>

FinishRun ==
    /\ status = "running" /\ focus.k = "ret" /\ calls = <<>>
    /\ status' = "done"
    /\ result' = focus.val
    /\ UNCHANGED <<prog, hasStack, stackVars, envVars, calls, focus, queue,
                   recorded, hist>>

SuspendRun ==
    /\ status = "running" /\ focus.k = "intr" /\ calls = <<>>
    /\ status' = "suspended"
    /\ UNCHANGED <<prog, hasStack, stackVars, envVars, calls, focus, result,
                   queue, recorded, hist>>

(* Bound: after MaxRuns runs the host starts no other. *)
HostIsDone == status = "done" /\ hist.runs = MaxRuns /\ UNCHANGED vars

Init ==
    /\ prog \in Programs
    /\ hasStack \in BOOLEAN
    /\ StackInit
    /\ returnValue = Nil /\ returnCalled = FALSE /\ breakCalled = FALSE
    /\ jumpTo = Nil
    /\ calls = <<>> /\ focus = Ret(Nil)
    /\ status = "idle" /\ result = Nil
    /\ queue = <<>> /\ recorded = <<>>
    /\ hist = [base |-> 0, runs |-> 0, answers |-> 0, interrupts |-> 0,
               last |-> [node |-> 0, val |-> Nil], tick |-> FALSE,
               saved |-> <<>>, brk |-> 0, returned |-> FALSE, value |-> Nil]

Evaluate ==
    \/ EvalLeaf \/ EvalFunctionCall
    \/ \E op \in ListOps : ListEnter(op) \/ ListNext(op)
    \/ IfEnter \/ IfCondition \/ IfReturn
    \/ WhileEnter \/ WhileCondition \/ WhileBody
    \/ DoWhileEnter \/ DoWhileBody \/ DoWhileCondition
    \/ ForEnter \/ ForInit \/ ForCondition \/ ForBody \/ ForNext
    \/ SwitchEnter \/ SwitchCondition \/ SwitchReturn
    \/ ReturnEnter \/ ReturnValue \/ Break \/ Goto
    \/ AssignEnter \/ AssignValue
    \/ \E op \in TwoOperandOps : OperandsEnter(op) \/ OperandsLeft(op)
    \/ SetVariable \/ Compare
    \/ \E op \in FoldOps : FoldEnter(op) \/ FoldNext(op)
    \/ GetVariableEnter \/ GetVariable \/ Increase \/ UserFunction
    \/ HostAnswers \/ HostInterrupts \/ HostRaises
    \/ Unwind \/ FinishRun \/ SuspendRun

Next == Evaluate \/ StartRun \/ ResumeRun \/ HostIsDone

Spec == Init /\ [][Next]_vars

(* The evaluator is plain code on one thread: it keeps going. *)
FairSpec == Spec /\ WF_vars(Evaluate)

-----------------------------------------------------------------------------
(* Properties *)

Focus == [k : {"eval", "ret", "intr"}, node : 1 .. Len(prog), val : Value,
          cont : BOOLEAN]
History == [base : Nat, runs : Nat, answers : Nat, interrupts : Nat,
            last : [node : Nat, val : Value], tick : BOOLEAN,
            saved : Seq(Place), brk : Nat, returned : BOOLEAN, value : Value]

(* The type invariant. *)
TypeOK ==
    /\ prog \in Programs
    /\ hasStack \in BOOLEAN
    /\ stackFrames \in Seq(1 .. Len(prog))
    /\ currentFrame \in (1 .. Len(prog)) \cup {NoFrame}
    /\ returnValue \in Value /\ jumpTo \in Value
    /\ returnCalled \in BOOLEAN /\ breakCalled \in BOOLEAN
    /\ calls \in Seq(Activation)
    /\ focus \in Focus
    /\ status \in {"idle", "running", "suspended", "done"}
    /\ result \in Value
    /\ queue \in Seq(Entry) /\ recorded \in Seq(Entry)
    /\ hist \in History

(* Outside an unwinding, the innermost frames are those of the calls being  *)
(* evaluated, in their order, on top of what the stack held when the run    *)
(* began: so no popFrame meets an empty stack (UMStack.m:36, the unsigned   *)
(* cnt--), a call that returns takes its own frame with it, and a script    *)
(* that returns leaves the stack as deep as it found it, whatever           *)
(* interrupts and exceptions abandoned there before.  An environment        *)
(* without a stack stays without one. *)
StackBalanced ==
    /\ hasStack /\ focus.k # "intr" =>
          /\ Len(stackFrames) >= Len(calls)
          /\ \A j \in 1 .. Len(calls) :
                stackFrames[Len(stackFrames) - Len(calls) + j] = calls[j].node
          /\ status = "running" => Len(stackFrames) = hist.base + Len(calls)
    /\ currentFrame = IF stackFrames = <<>> THEN NoFrame
                      ELSE stackFrames[Len(stackFrames)]
    /\ ~hasStack => stackFrames = <<>>

(* UMTerm_Interrupt.h:11-18: a script continued from an interrupt comes     *)
(* back to the very location it was interrupted at.  Until the interrupted  *)
(* host function has answered, a resumed run reaches no other host function *)
(* and no other position of any function on the way, and does not end. *)
ResumesWhereInterrupted ==
    hist.saved # <<>> /\ status = "running" /\ focus.k = "ret" =>
        /\ calls # <<>>
        /\ Op = "host" => Here = hist.saved

(* A break leaves no more than the innermost loop or switch around it: once *)
(* that activation has returned the flag is off, so that no list further    *)
(* out takes the break for its own.  (An interrupt may unwind it earlier:   *)
(* nobody looks at the flag on the way.) *)
BreakStopsAtLoop ==
    status = "running" /\ focus.k # "intr" /\ breakCalled /\ hist.brk > 0 =>
        Len(calls) >= hist.brk

(* UMEnvironment.h:24: after a return statement the executors jump out: no  *)
(* host function runs any more, and the script's result is its value. *)
ReturnIsFinal ==
    hist.returned /\ status = "running" /\ focus.k = "ret" =>
        IF calls = <<>> THEN focus.val = hist.value ELSE Op # "host"

(* The scripts for which the two hold.  No break in a do-while: what a      *)
(* do-while evaluates is inside one, up to the next function that clears    *)
(* the flag, and no break is inside.  Return statements only as statements  *)
(* of lists and branches, up to the root: everything else is plain, and no  *)
(* return statement is plain. *)
ClearsBreak == {"while", "for", "switch"}

NoBreakInDo(p, inside) ==
    \A n \in 1 .. Len(p) :
        /\ n \in inside => p[n].op # "break"
        /\ p[n].op = "dowhile" \/ (n \in inside /\ p[n].op \notin ClearsBreak)
              => \A i \in DOMAIN p[n].args : p[n].args[i] \in inside

OutermostReturns(p, plain) ==
    \A n \in 1 .. Len(p) :
        /\ n \in plain => p[n].op # "return"
        /\ \A i \in DOMAIN p[n].args :
              \/ p[n].args[i] \in plain
              \/ /\ n \notin plain
                 /\ p[n].op \in ListOps \/ (p[n].op = "if" /\ i > 1)

(* The scripts that come back to where they were interrupted.  No host      *)
(* function is in an idle term, and the parameters a function does not come *)
(* back to are idle.  A calm term sets no flag.  A goto jumps, and so does  *)
(* a branch around it, whose condition is calm; what is around those is a   *)
(* list.  Last: a for that is continued in its block tests breakCalled, and *)
(* a list, a while or a do-while at the root has cleared the flag by then. *)
NotResumed(op, i) == op \in {"assign", "getvar"} \/ (op = "for" /\ i = 3)

ClearsFirst == ListOps \cup {"while", "dowhile"}

Continuable(p, idle, calm, jumps) ==
    /\ \A n \in 1 .. Len(p) :
          /\ p[n].op # "switch"
          /\ n \in idle => p[n].op # "host"
          /\ n \in calm => p[n].op \notin {"break", "return", "goto"}
          /\ p[n].op = "goto" => n \in jumps
          /\ n \in jumps => p[n].op \in {"goto", "if"}
          /\ \A i \in DOMAIN p[n].args :
                /\ n \in idle \/ NotResumed(p[n].op, i) => p[n].args[i] \in idle
                /\ n \in calm \/ (n \in jumps /\ i = 1) => p[n].args[i] \in calm
                /\ p[n].args[i] \in jumps =>
                      p[n].op \in ListOps \/ (n \in jumps /\ i > 1)
    /\ 1 \notin jumps
    /\ (\E n \in 1 .. Len(p) : p[n].op = "for") => p[1].op \in ClearsFirst

(* Every run of the evaluator ends or hands an interrupt to the host. *)
EveryRunEnds == status = "running" ~> status # "running"

=============================================================================

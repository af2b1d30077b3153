---------------------------- MODULE UMOperators ----------------------------
(***************************************************************************)
(* Expressions of umscript's operators and library functions over host     *)
(* functions that interrupt: the evaluator of UMInterpreter without the    *)
(* control functions, and with the protocol of every other function.  The  *)
(* interrupt keeps its entries, as one of a host's own class can.          *)
(*                                                                         *)
(* Values are symbolic: the host function at term n answers <<n>>, the     *)
(* function at term n returns <<n>> followed by what it computed from, and *)
(* <<>> is nil.  So a value tells from which others it was made.           *)
(***************************************************************************)
EXTENDS UMProtocols

CONSTANTS
    Expressions,    \* expressions, each a sequence of terms, root first and
                    \* every term before its parameters
    MaxInterrupts   \* bound: interrupts the host functions throw

IsExpression(e) ==
    /\ e \in Seq([op : DOMAIN Protocol \cup {"host"}, args : Seq(1 .. Len(e))])
    /\ Len(e) > 0
    /\ \A n \in 1 .. Len(e) : Len(e[n].args) \in Counts
    /\ \A n \in 1 .. Len(e) : \A i \in 1 .. Len(e[n].args) : e[n].args[i] > n

ASSUME ExpressionAssumption ==
    /\ \A e \in Expressions : IsExpression(e)
    /\ MaxInterrupts \in Nat

VARIABLES
    prog,           \* the expression
    calls,          \* activations, outermost first
    focus,          \* what the evaluating thread does next
    status,         \* "running", "suspended", "done" or "raised"
    queue,          \* entries left in the interrupt being continued from
    recorded,       \* entries of the interrupt being thrown
    interrupts,     \* bound: interrupts thrown
    answered        \* history: the host functions that answered, in order

vars == <<prog, calls, focus, status, queue, recorded, interrupts, answered>>

Nil == <<>>
Eval(n, c) == [k |-> "eval", node |-> n, val |-> Nil, cont |-> c]
Ret(v)     == [k |-> "ret",  node |-> 1, val |-> v,   cont |-> FALSE]
Interrupt  == [k |-> "intr", node |-> 1, val |-> Nil, cont |-> FALSE]

Entry(pos, tmp, tmp2) == [pos |-> pos, tmps |-> <<tmp, tmp2>>]
NoEntry == Entry(0, Nil, Nil)

Top == calls[Len(calls)]

(* The function, the parameters and the steps of term n of expression e *)
Of(e, n) == Protocol[e[n].op]
Args(e, n) == e[n].args
Steps(e, n) == Of(e, n).steps[Len(Args(e, n))]

-----------------------------------------------------------------------------
(* The code of one activation between two evaluations of its parameters *)

NoLocals == [l \in 0 .. 3 |-> Nil]

(* The locals after a value came back for step s. *)
Kept(e, n, locals, s, v) ==
    [locals EXCEPT ![s.local] =
        IF Of(e, n).folds /\ @ # Nil THEN <<n, @, v>> ELSE v]

(* What the function computes from its locals. *)
Result(e, n, locals) ==
    IF Of(e, n).folds THEN locals[1] ELSE <<n, locals[1], locals[2], locals[3]>>

(* Activation a, the last of "below" and a, goes on with its first step    *)
(* from k that is due, or returns to the term that called it. *)
GoOn(below, a, k) ==
    LET steps == Steps(prog, a.node)
        Due(j) == a.start <= steps[j].upTo
        Skips(j) == ~Due(j) \/ steps[j].optional
    IN  \/ \E j \in k .. Len(steps) :
              /\ Due(j)
              /\ \A i \in k .. j - 1 : Skips(i)
              /\ calls' = Append(below, [a EXCEPT !.at = j])
              /\ focus' = Eval(Args(prog, a.node)[steps[j].param + 1],
                               a.cont /\ steps[j].continued)
        \/ /\ \A i \in k .. Len(steps) : Skips(i)
           /\ calls' = below
           /\ focus' = Ret(Result(prog, a.node, a.locals))

(* pullEntry of an interrupt whose entries are used up answers nil. *)
Pulled == IF queue = <<>> THEN NoEntry ELSE Head(queue)
PullEntry == queue' = IF queue = <<>> THEN queue ELSE Tail(queue)

Restored(e, n, entry) ==
    [l \in 0 .. 3 |->
        LET from == {i \in 1 .. Len(Of(e, n).restores) :
                        /\ Of(e, n).restores[i].local = l
                        /\ entry.pos \in Of(e, n).restores[i].at}
        IN IF from = {} THEN Nil ELSE entry.tmps[CHOOSE i \in from : TRUE]]

-----------------------------------------------------------------------------
(* UMTerm: evaluating a term *)

(* A function call up to its first parameter: the prologue of              *)
(* evaluateWithParams:environment:continueFrom:. *)
Call ==
    /\ status = "running" /\ focus.k = "eval"
    /\ prog[focus.node].op # "host"
    /\ LET n == focus.node
           P == Of(prog, n)
           count == Len(Args(prog, n))
           pulls == /\ focus.cont
                    /\ \/ P.pulls = "first"
                       \/ P.pulls = "accepted" /\ count \in P.accepts
           entry == IF pulls THEN Pulled ELSE NoEntry
           a == [node |-> n, at |-> 1, start |-> entry.pos,
                 locals |-> Restored(prog, n, entry), cont |-> focus.cont]
       IN IF count \in P.raises
          THEN /\ status' = "raised" /\ calls' = <<>> /\ focus' = Ret(Nil)
               /\ UNCHANGED queue
          ELSE /\ IF pulls THEN PullEntry ELSE UNCHANGED queue
               /\ IF count \in P.accepts
                  THEN GoOn(calls, a, 1)
                  ELSE calls' = calls /\ focus' = Ret(<<n>>)
               /\ UNCHANGED status
    /\ UNCHANGED <<prog, recorded, interrupts, answered>>

(* The value of the parameter comes back. *)
ParamValue ==
    /\ status = "running" /\ focus.k = "ret" /\ calls # <<>>
    /\ LET s == Steps(prog, Top.node)[Top.at]
       IN GoOn(SubSeq(calls, 1, Len(calls) - 1),
               [Top EXCEPT !.locals = Kept(prog, Top.node, @, s, focus.val)],
               Top.at + 1)
    /\ UNCHANGED <<prog, status, queue, recorded, interrupts, answered>>

HostAnswers ==
    /\ status = "running" /\ focus.k = "eval"
    /\ prog[focus.node].op = "host"
    /\ answered' = Append(answered, focus.node)
    /\ focus' = Ret(<<focus.node>>)
    /\ UNCHANGED <<prog, calls, status, queue, recorded, interrupts>>

HostInterrupts ==
    /\ status = "running" /\ focus.k = "eval"
    /\ prog[focus.node].op = "host"
    /\ interrupts < MaxInterrupts
    /\ interrupts' = interrupts + 1
    /\ focus' = Interrupt
    /\ recorded' = <<>>
    /\ UNCHANGED <<prog, calls, status, queue, answered>>

(* The catch block of the innermost activation, and UMTerm's, which throws *)
(* on. *)
Catch ==
    LET s == Steps(prog, Top.node)[Top.at]
        saved(i) == IF i <= Len(s.saves) THEN Top.locals[s.saves[i]] ELSE Nil
    IN IF s.caught THEN <<Entry(s.pos, saved(1), saved(2))>> ELSE <<>>

Unwind ==
    /\ status = "running" /\ focus.k = "intr" /\ calls # <<>>
    /\ recorded' = Catch \o recorded
    /\ calls' = SubSeq(calls, 1, Len(calls) - 1)
    /\ UNCHANGED <<prog, focus, status, queue, interrupts, answered>>

-----------------------------------------------------------------------------
(* UMScriptDocument runScriptWithEnvironment:continueFrom: and the host *)

Suspend ==
    /\ status = "running" /\ focus.k = "intr" /\ calls = <<>>
    /\ status' = "suspended"
    /\ UNCHANGED <<prog, calls, focus, queue, recorded, interrupts, answered>>

Resume ==
    /\ status = "suspended"
    /\ status' = "running"
    /\ focus' = Eval(1, TRUE)
    /\ queue' = recorded /\ recorded' = <<>>
    /\ UNCHANGED <<prog, calls, interrupts, answered>>

Finish ==
    /\ status = "running" /\ focus.k = "ret" /\ calls = <<>>
    /\ status' = "done"
    /\ UNCHANGED <<prog, calls, focus, queue, recorded, interrupts, answered>>

Stopped == status \in {"done", "raised"} /\ UNCHANGED vars

Init ==
    /\ prog \in Expressions
    /\ calls = <<>> /\ focus = Eval(1, FALSE) /\ status = "running"
    /\ queue = <<>> /\ recorded = <<>>
    /\ interrupts = 0 /\ answered = <<>>

Next ==
    \/ Call \/ ParamValue \/ HostAnswers \/ HostInterrupts \/ Unwind
    \/ Suspend \/ Resume \/ Finish \/ Stopped

Spec == Init /\ [][Next]_vars

-----------------------------------------------------------------------------
(* Properties *)

(* An expression of functions that come back to where they were            *)
(* interrupted: substr does not when it has a length. *)
Resumable(e) ==
    \A n \in DOMAIN e :
        e[n].op # "host" => /\ e[n].op \notin StartingOver
                           /\ ~(e[n].op = "substr" /\ Len(e[n].args) = 3)

(* The parameter a step evaluates. *)
Param(e, n, s) == Args(e, n)[s.param + 1]

(* The first k of some lists, one after the other *)
Concatenated(lists) ==
    LET upTo[k \in 0 .. Len(lists)] ==
            IF k = 0 THEN <<>> ELSE upTo[k - 1] \o lists[k]
    IN upTo

(* The host functions an uninterrupted evaluation of n calls in its first k *)
(* steps, given those of its parameters: steps that depend on the values    *)
(* are left out. *)
HostsUpTo(e, hosts, n) ==
    Concatenated([k \in 1 .. Len(Steps(e, n)) |->
                     IF Steps(e, n)[k].optional THEN <<>>
                     ELSE hosts[Param(e, n, Steps(e, n)[k])]])

(* Those it calls in all *)
HostsIn(e) ==
    LET hosts[n \in DOMAIN e] ==
            IF e[n].op = "host" THEN <<n>>
            ELSE HostsUpTo(e, hosts, n)[Len(Steps(e, n))]
    IN hosts

(* The locals it has after k steps, given the values of its parameters *)
LocalsUpTo(e, n, values) ==
    LET locals[k \in 0 .. Len(Steps(e, n))] ==
            IF k = 0 THEN NoLocals
            ELSE IF Steps(e, n)[k].optional THEN locals[k - 1]
            ELSE Kept(e, n, locals[k - 1], Steps(e, n)[k], values[k])
    IN locals

ValuesOf(e, value, n) ==
    [k \in 1 .. Len(Steps(e, n)) |-> value[Param(e, n, Steps(e, n)[k])]]

(* The value of each term *)
ValueIn(e) ==
    LET value[n \in DOMAIN e] ==
            IF e[n].op = "host" \/ Len(Args(e, n)) \notin Of(e, n).accepts
            THEN <<n>>
            ELSE Result(e, n, LocalsUpTo(e, n, ValuesOf(e, value, n))[Len(Steps(e, n))])
    IN value

Order == HostsIn(prog)[1]
Value == ValueIn(prog)[1]

(* The expression implements what UMExpression promises: each host         *)
(* function answers once and in the order of an uninterrupted evaluation,  *)
(* whatever was interrupted and continued (UMTerm_Interrupt.h:11-18). *)
Promise == INSTANCE UMExpression
              WITH order <- Order, finished <- (status = "done")
AnswersOnceInOrder == Promise!Spec

(* An evaluation that was interrupted and continued returns the value of   *)
(* an uninterrupted one: no operand is lost on the way. *)
ValueSurvives == status = "done" => focus.val = Value

(* The same of every function that records what it has computed, in        *)
(* whatever way they are combined. *)
SavedValueSurvives ==
    {prog[n].op : n \in DOMAIN prog} \cap Losing = {} => ValueSurvives

(* No function of a continued expression takes an entry for its own that   *)
(* another one left behind, and so steps over an operand nobody evaluated. *)
NoOperandSkipped ==
    status = "done" =>
        \A i \in 1 .. Len(Order) : \E j \in 1 .. Len(answered) :
            answered[j] = Order[i]

(* Every activation of a continued expression pulls the entry it recorded  *)
(* itself: when the interrupted host function is evaluated again the       *)
(* interrupt has none left, and the activations are those it unwound.      *)
EntriesAreUsedUp ==
    /\ status = "running" /\ focus.k = "eval" /\ prog[focus.node].op = "host"
          => queue = <<>>
    /\ status = "done" => queue = <<>>

=============================================================================

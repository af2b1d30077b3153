--------------------------- MODULE UMResumeProofs ---------------------------
(***************************************************************************)
(* Proof that a script continued from an interrupt comes back to where it  *)
(* was interrupted (ResumesWhereInterrupted of UMInterpreter), for the     *)
(* scripts Continuable describes and any number of runs, interrupts and    *)
(* host functions.                                                         *)
(*                                                                         *)
(* The property says where a continued run is when it calls a host         *)
(* function; the invariant has to say where it is all the time between.    *)
(* hist.saved holds the places of the interrupted calls (Chain: each calls *)
(* the next), and from them follows what the catch blocks record (Entries).*)
(* While the interrupt is on its way out (Leaves) the entries of the calls *)
(* that are gone are in recorded; on the way back in (Reaches, Enters) the *)
(* entries of those still to be entered are in queue.  A run nobody        *)
(* interrupted has an empty queue and calls that form a chain (Forward).   *)
(*                                                                         *)
(* What gets in the way is state that outlives the interrupt: a jump or a  *)
(* break under way when a host function is called would take the continued *)
(* run elsewhere.  Jumps are therefore followed out of their lists         *)
(* (Leaving, JumpsQuietly).                                                *)
(***************************************************************************)
EXTENDS UMControlProofs

-----------------------------------------------------------------------------
(* Where the thread is: places and the terms they evaluate *)

(* A place of the script: its function has just been entered, or evaluates *)
(* one of its parameters. *)
Regular(p, a) ==
    /\ a.node \in 1 .. Len(p) /\ p[a.node].op \in FunctionOps
    /\ a.pc = "enter" => a.pos = 0 /\ a.tmp = Nil
    /\ a.pc # "enter" =>
          /\ RegularAt(p[a.node].op, Len(p[a.node].args), a.pc, a.pos, a.tmp)
          /\ ParamAt(p[a.node].op, a.pc, a.pos, a.tmp) + 1 \in DOMAIN p[a.node].args
    /\ a.pc = "init" => a.tmp = Nil

(* The parameter it evaluates *)
Callee(p, a) == p[a.node].args[ParamAt(p[a.node].op, a.pc, a.pos, a.tmp) + 1]

(* The first n places of s: each is a call of the one before. *)
Chain(p, s, n) ==
    /\ \A j \in 1 .. n : Regular(p, s[j])
    /\ n > 0 => s[1].node = 1
    /\ \A j \in 1 .. n - 1 : s[j].pc # "enter" /\ s[j + 1].node = Callee(p, s[j])

(* The calls around an activation are what they are when it is gone. *)
LEMMA ChainShorter ==
  ASSUME NEW p, NEW s, NEW t, NEW n \in Nat, NEW m \in 0 .. n,
         Chain(p, s, n), \A j \in 1 .. m : t[j] = s[j]
  PROVE  Chain(p, t, m)
  <1>1. \A j \in 1 .. m : Regular(p, t[j])
    <2>1. 1 .. m \subseteq 1 .. n
      OBVIOUS
    <2>2. QED
      BY <2>1 DEF Chain
  <1>2. m > 0 => t[1].node = 1
    <2>1. m > 0 => n > 0 /\ 1 \in 1 .. m
      OBVIOUS
    <2>2. QED
      BY <2>1 DEF Chain
  <1>3. ASSUME NEW j \in 1 .. m - 1
        PROVE  t[j].pc # "enter" /\ t[j + 1].node = Callee(p, t[j])
    <2>1. j \in 1 .. m /\ j + 1 \in 1 .. m /\ j \in 1 .. n - 1
      OBVIOUS
    <2>2. t[j] = s[j] /\ t[j + 1] = s[j + 1]
      BY <2>1
    <2>3. QED
      BY <2>1, <2>2 DEF Chain
  <1>4. QED
    BY <1>1, <1>2, <1>3 DEF Chain

(* A call goes on from the innermost one. *)
LEMMA ChainLonger ==
  ASSUME NEW p, NEW s, NEW t, NEW n \in Nat, Chain(p, s, n),
         \A j \in 1 .. n : t[j] = s[j], Regular(p, t[n + 1]),
         IF n = 0 THEN t[1].node = 1
         ELSE s[n].pc # "enter" /\ t[n + 1].node = Callee(p, s[n])
  PROVE  Chain(p, t, n + 1)
  <1>1. ASSUME NEW j \in 1 .. n + 1 PROVE Regular(p, t[j])
    <2>1. j = n + 1 \/ j \in 1 .. n
      OBVIOUS
    <2>2. QED
      BY <2>1 DEF Chain
  <1>2. t[1].node = 1
    <2>1. n = 0 \/ (n > 0 /\ 1 \in 1 .. n)
      OBVIOUS
    <2>2. QED
      BY <2>1 DEF Chain
  <1>3. ASSUME NEW j \in 1 .. (n + 1) - 1
        PROVE  t[j].pc # "enter" /\ t[j + 1].node = Callee(p, t[j])
    <2>1. j \in 1 .. n /\ t[j] = s[j] /\ n # 0
      OBVIOUS
    <2>2. CASE j = n
      BY <2>1, <2>2
    <2>3. CASE j # n
      <3>1. j \in 1 .. n - 1 /\ j + 1 \in 1 .. n
        BY <2>3
      <3>2. t[j + 1] = s[j + 1]
        BY <3>1
      <3>3. QED
        BY <2>1, <3>1, <3>2 DEF Chain
    <2>4. QED
      BY <2>2, <2>3
  <1>4. QED
    BY <1>1, <1>2, <1>3 DEF Chain

(* The innermost one may be at another place of its term. *)
LEMMA ChainTop ==
  ASSUME NEW p, NEW s, NEW t, NEW n \in Nat \ {0}, Chain(p, s, n),
         \A j \in 1 .. n - 1 : t[j] = s[j], t[n].node = s[n].node, Regular(p, t[n])
  PROVE  Chain(p, t, n)
  <1>1. PICK m \in Nat : n = m + 1
    <2>1. n - 1 \in Nat /\ n = (n - 1) + 1
      OBVIOUS
    <2>2. QED
      BY <2>1
  <1>2. Chain(p, t, m)
    <2>1. m \in 0 .. n /\ m = n - 1
      BY <1>1
    <2>2. QED
      BY <2>1, ChainShorter
  <1>3. IF m = 0 THEN t[1].node = 1
        ELSE t[m].pc # "enter" /\ t[m + 1].node = Callee(p, t[m])
    <2>1. CASE m = 0
      <3>1. n = 1
        BY <1>1, <2>1
      <3>2. s[1].node = 1
        BY <3>1 DEF Chain
      <3>3. QED
        BY <2>1, <3>1, <3>2
    <2>2. CASE m # 0
      <3>1. m \in 1 .. n - 1 /\ m + 1 = n
        BY <1>1, <2>2
      <3>2. QED
        BY <2>2, <3>1 DEF Chain
    <2>3. QED
      BY <2>1, <2>2
  <1>4. QED
    BY <1>1, <1>2, <1>3, ChainLonger

(* A set of terms that holds the parameters of its own *)
ClosedIn(p, X) ==
    \A n \in 1 .. Len(p) : n \in X => \A i \in DOMAIN p[n].args : p[n].args[i] \in X

(* What a place evaluates is a parameter of its term. *)
LEMMA CalleeIs ==
  ASSUME NEW p, NEW a, Regular(p, a), a.pc # "enter"
  PROVE  \E i \in DOMAIN p[a.node].args :
            /\ i = ParamAt(p[a.node].op, a.pc, a.pos, a.tmp) + 1
            /\ Callee(p, a) = p[a.node].args[i]
  BY DEF Regular, Callee

(* Inside a call of a term of such a set, all calls are of terms of it. *)
LEMMA ChainClosed ==
  ASSUME NEW p, NEW s, NEW n \in Nat, Chain(p, s, n), NEW X, ClosedIn(p, X),
         NEW k \in 1 .. n, s[k].node \in X
  PROVE  \A i \in k .. n : s[i].node \in X
  <1> DEFINE B == {i \in k .. n : \A m \in k .. i : s[m].node \in X}
  <1>1. k \in B /\ B \subseteq 0 .. n
    OBVIOUS
  <1>2. PICK i \in B : \A j \in B : j <= i
    BY <1>1, LargestIndex
  <1>3. i = n
    <2>1. SUFFICES ASSUME i # n PROVE FALSE
      OBVIOUS
    <2>2. i \in 1 .. n - 1 /\ i \in 1 .. n /\ i + 1 \in k .. n /\ s[i].node \in X
      BY <2>1
    <2>3. Regular(p, s[i]) /\ s[i].pc # "enter" /\ s[i + 1].node = Callee(p, s[i])
      BY <2>2 DEF Chain
    <2>4. s[i].node \in 1 .. Len(p)
      BY <2>3 DEF Regular
    <2>5. s[i + 1].node \in X
      BY <2>2, <2>3, <2>4, CalleeIs DEF ClosedIn
    <2>6. \A m \in k .. i + 1 : m \in k .. i \/ m = i + 1
      OBVIOUS
    <2>7. i + 1 \in B
      BY <1>2, <2>2, <2>5, <2>6
    <2>8. QED
      BY <1>2, <2>2, <2>7
  <1>4. QED
    BY <1>2, <1>3

(* What Location leaves out does not say where a function is. *)
LEMMA ParamLocation ==
  ASSUME NEW n, NEW pc, NEW pos, NEW tmp, NEW other
  PROVE  /\ RegularAt("for", n, pc, pos, tmp) <=> RegularAt("for", n, pc, other, tmp)
         /\ ParamAt("for", pc, pos, tmp) = ParamAt("for", pc, other, tmp)
         /\ RegularAt("dowhile", n, pc, pos, tmp) <=> RegularAt("dowhile", n, pc, pos, other)
         /\ ParamAt("dowhile", pc, pos, tmp) = ParamAt("dowhile", pc, pos, other)
         /\ RegularAt("dowhile", n, pc, pos, tmp) => pc # "init"
  <1>1. "for" \notin ListOps \cup FoldOps \cup TwoOperandOps
        /\ "dowhile" \notin ListOps \cup FoldOps \cup TwoOperandOps
    BY Different
  <1>2. QED
    BY <1>1 DEF ParamAt, RegularAt

(* A location is the place of its activation in every respect but those. *)
LEMMA LocationFacts ==
  ASSUME NEW a
  PROVE  /\ Location(a).node = a.node /\ Location(a).pc = a.pc
         /\ Regular(prog, a) => Regular(prog, Location(a))
         /\ Regular(prog, Location(a)) /\ a.pc # "enter" => Regular(prog, a)
         /\ Callee(prog, Location(a)) = Callee(prog, a)
  <1> DEFINE l == Location(a)
             op == prog[a.node].op
  <1>1. /\ l.node = a.node /\ l.pc = a.pc
        /\ l.pos = IF op = "for" THEN 0 ELSE a.pos
        /\ l.tmp = IF op = "dowhile" THEN Nil ELSE a.tmp
    BY DEF Location
  <1> HIDE DEF l
  <1>3. \A n : RegularAt(op, n, l.pc, l.pos, l.tmp) <=> RegularAt(op, n, a.pc, a.pos, a.tmp)
    <2>1. CASE op = "for"
      BY <1>1, <2>1, ParamLocation
    <2>2. CASE op = "dowhile"
      BY <1>1, <2>2, ParamLocation
    <2>3. CASE op # "for" /\ op # "dowhile"
      BY <1>1, <2>3
    <2>4. QED
      BY <2>1, <2>2, <2>3
  <1>4. ParamAt(op, l.pc, l.pos, l.tmp) = ParamAt(op, a.pc, a.pos, a.tmp)
    <2>1. CASE op = "for"
      BY <1>1, <2>1, ParamLocation
    <2>2. CASE op = "dowhile"
      BY <1>1, <2>2, ParamLocation
    <2>3. CASE op # "for" /\ op # "dowhile"
      BY <1>1, <2>3
    <2>4. QED
      BY <2>1, <2>2, <2>3
  <1>5. Callee(prog, l) = Callee(prog, a)
    BY <1>1, <1>4 DEF Callee
  <1>6. ASSUME Regular(prog, a) PROVE Regular(prog, l)
    <2>1. a.pc = "enter" => l.pos = 0 /\ l.tmp = Nil
      BY <1>1, <1>6 DEF Regular
    <2>2. a.pc = "init" => l.tmp = Nil
      BY <1>1, <1>6 DEF Regular
    <2>3. QED
      BY <1>1, <1>3, <1>4, <1>6, <2>1, <2>2 DEF Regular
  <1>7. ASSUME Regular(prog, l), a.pc # "enter" PROVE Regular(prog, a)
    <2>1. a.pc = "init" => a.tmp = Nil
      <3>1. RegularAt(op, Len(prog[a.node].args), a.pc, a.pos, a.tmp)
        BY <1>1, <1>3, <1>7 DEF Regular
      <3>2. CASE op = "dowhile"
        BY <3>1, <3>2, ParamLocation
      <3>3. CASE op # "dowhile"
        BY <1>1, <1>7, <3>3 DEF Regular
      <3>4. QED
        BY <3>2, <3>3
    <2>2. QED
      BY <1>1, <1>3, <1>4, <1>7, <2>1 DEF Regular
  <1>8. QED
    BY <1>1, <1>5, <1>6, <1>7 DEF l

(* The places of a chain of activations are a chain, and the other way    *)
(* round for activations that have been entered. *)
LEMMA ChainPlaces ==
  ASSUME NEW s, NEW t, NEW n \in Nat, \A j \in 1 .. n : t[j] = Location(s[j])
  PROVE  /\ Chain(prog, s, n) => Chain(prog, t, n)
         /\ Chain(prog, t, n) /\ (\A j \in 1 .. n : t[j].pc # "enter") => Chain(prog, s, n)
  <1>1. \A j \in 1 .. n : /\ t[j].node = s[j].node /\ t[j].pc = s[j].pc
                          /\ Regular(prog, s[j]) => Regular(prog, t[j])
                          /\ Regular(prog, t[j]) /\ s[j].pc # "enter" => Regular(prog, s[j])
                          /\ Callee(prog, t[j]) = Callee(prog, s[j])
    BY LocationFacts
  <1>2. (n > 0 => 1 \in 1 .. n) /\ \A j \in 1 .. n - 1 : j \in 1 .. n /\ j + 1 \in 1 .. n
    OBVIOUS
  <1>3. Chain(prog, s, n) => Chain(prog, t, n)
    BY <1>1, <1>2 DEF Chain
  <1>4. Chain(prog, t, n) /\ (\A j \in 1 .. n : t[j].pc # "enter") => Chain(prog, s, n)
    BY <1>1, <1>2 DEF Chain
  <1>5. QED
    BY <1>3, <1>4
-----------------------------------------------------------------------------
(* The scripts that come back *)

(* A marking of the script's terms, as it is assumed to have one *)
Marks(p) ==
    CHOOSE m \in (SUBSET (1 .. Len(p))) \X (SUBSET (1 .. Len(p))) \X (SUBSET (1 .. Len(p))) :
        Continuable(p, m[1], m[2], m[3])

IdleIn(p)  == Marks(p)[1]
CalmIn(p)  == Marks(p)[2]
JumpsIn(p) == Marks(p)[3]

MarkedScript == Continuable(prog, IdleIn(prog), CalmIn(prog), JumpsIn(prog))

(* The marking a script is assumed to have is one. *)
LEMMA MarkFacts ==
  ASSUME CoreInv,
         \A p \in Programs : \E idle, calm, jumps \in SUBSET (1 .. Len(p)) :
             Continuable(p, idle, calm, jumps)
  PROVE  MarkedScript
  <1> DEFINE D == SUBSET (1 .. Len(prog))
  <1>1. PICK idle \in D, calm \in D, jumps \in D : Continuable(prog, idle, calm, jumps)
    BY DEF CoreInv
  <1>2. PICK m \in D \X D \X D : m = << idle, calm, jumps >>
    OBVIOUS
  <1>3. m[1] = idle /\ m[2] = calm /\ m[3] = jumps
    BY <1>2
  <1>4. Continuable(prog, m[1], m[2], m[3])
    BY <1>1, <1>3
  <1>5. Continuable(prog, Marks(prog)[1], Marks(prog)[2], Marks(prog)[3])
    BY <1>4 DEF Marks
  <1>6. QED
    BY <1>5 DEF MarkedScript, IdleIn, CalmIn, JumpsIn

(* What is idle or calm has such parameters only. *)
LEMMA MarkedClosed ==
  ASSUME MarkedScript
  PROVE  ClosedIn(prog, IdleIn(prog)) /\ ClosedIn(prog, CalmIn(prog))
  BY DEF MarkedScript, Continuable, ClosedIn

(* What a term of the script may be *)
LEMMA MarkedTerms ==
  ASSUME MarkedScript, NEW n \in 1 .. Len(prog)
  PROVE  /\ prog[n].op # "switch"
         /\ n \in IdleIn(prog) => prog[n].op # "host"
         /\ n \in CalmIn(prog) => prog[n].op \notin {"break", "return", "goto"}
         /\ prog[n].op = "goto" => n \in JumpsIn(prog)
         /\ n \in JumpsIn(prog) => prog[n].op \in {"goto", "if"}
         /\ 1 \notin JumpsIn(prog)
         /\ prog[n].op = "for" => prog[1].op \in ClearsFirst
  BY DEF MarkedScript, Continuable

(* ... and its parameters *)
LEMMA MarkedParams ==
  ASSUME MarkedScript, NEW n \in 1 .. Len(prog), NEW i \in DOMAIN prog[n].args
  PROVE  /\ NotResumed(prog[n].op, i) => prog[n].args[i] \in IdleIn(prog)
         /\ n \in JumpsIn(prog) /\ i = 1 => prog[n].args[i] \in CalmIn(prog)
         /\ prog[n].args[i] \in JumpsIn(prog) =>
               prog[n].op \in ListOps \/ (n \in JumpsIn(prog) /\ i > 1)
  BY DEF MarkedScript, Continuable

-----------------------------------------------------------------------------
(* Jumps are made with the flags off *)

FlagsOff == returnCalled = FALSE /\ breakCalled = FALSE

(* A goto, and a branch around one until its condition is there, is        *)
(* evaluated with the flags off. *)
JumpsQuietly ==
    /\ \A k \in 1 .. Len(calls) :
          calls[k].node \in JumpsIn(prog) /\ calls[k].pc \in {"enter", "cond"} => FlagsOff
    /\ focus.k = "eval" /\ focus.node \in JumpsIn(prog) => FlagsOff

(* The place at which an activation goes on *)
LEMMA TopAfter ==
  ASSUME CoreInv, Running, NEW pc \in Pcs \ {"enter"}, NEW pos \in Nat, NEW tmp \in Value,
         Continues(pc, pos, tmp)
  PROVE  /\ Same
         /\ calls'[Len(calls)] = [node |-> Top.node, pc |-> pc, pos |-> pos, tmp |-> tmp,
                                  cont |-> Top.cont]
  <1> DEFINE a == [node |-> Top.node, pc |-> pc, pos |-> pos, tmp |-> tmp,
                   cont |-> Top.cont]
  <1>1. a \in Activation
    BY TopFacts DEF Activation, Running
  <1>2. Len(calls) \in 1 .. Len(calls) /\ calls \in Seq(Activation)
    BY TopFacts DEF CoreInv, Running
  <1>3. calls' = [calls EXCEPT ![Len(calls)] = a]
    BY DEF Continues
  <1>5. Same
    BY AfterContinues
  <1> HIDE DEF a
  <1>4. calls'[Len(calls)] = a
    BY <1>1, <1>2, <1>3, ExceptSeq
  <1>6. QED
    BY <1>4, <1>5 DEF a

(* The ways a function's code ends *)
LEMMA AfterFunction ==
  ASSUME CoreInv, FunctionStep
  PROVE  \/ \E pc \in Pcs \ {"enter"}, pos \in Nat, tmp \in Value, cont \in BOOLEAN :
               /\ Evaluates(pc, pos, tmp, cont) /\ Same
               /\ calls'[Len(calls)] = [node |-> Top.node, pc |-> pc, pos |-> pos, tmp |-> tmp,
                                        cont |-> Top.cont]
         \/ /\ Op = "for" /\ Len(Args) = 4 /\ Same /\ focus'.k = "ret" /\ status' = status
            /\ \E pos \in Nat, tmp \in Value :
                  calls'[Len(calls)] = [node |-> Top.node, pc |-> "every", pos |-> pos,
                                        tmp |-> tmp, cont |-> Top.cont]
         \/ calls' = <<>> /\ focus'.k = "ret" /\ status' = "done"
         \/ Returns /\ Outer(Len(calls) - 1) /\ focus'.k = "ret" /\ status' = status
  <1>1. Running
    BY DEF FunctionStep
  <1>2. CASE Descends
    <2>1. PICK pc \in Pcs \ {"enter"}, pos \in Nat, tmp \in Value, cont \in BOOLEAN :
             Evaluates(pc, pos, tmp, cont)
      BY <1>2, Zenon DEF Descends
    <2>2. Continues(pc, pos, tmp)
      BY <2>1 DEF Evaluates, EvalArgFrom
    <2>3. QED
      BY <1>1, <2>1, <2>2, TopAfter
  <1>3. CASE Stays
    <2>1. PICK pos \in Nat, tmp \in Value : Continues("every", pos, tmp)
      BY <1>3 DEF Stays
    <2>2. QED
      BY <1>1, <1>3, <2>1, TopAfter, PlaceNames DEF Stays, Ret, runVars
  <1>4. CASE Raise
    BY <1>4 DEF Raise, Ret
  <1>5. CASE Returns
    <2>1. PICK v \in Value : Return(v)
      BY <1>5 DEF Returns
    <2>2. CASE Outer(Len(calls) - 1) /\ status' = status /\ focus' = Ret(v)
      BY <1>5, <2>2 DEF Ret
    <2>3. CASE status' = "done"
      <3>1. Raise
        BY <1>1, <2>1, <2>3 DEF Return, Running, runVars
      <3>2. QED
        BY <3>1 DEF Raise, Ret
    <2>4. QED
      BY <1>1, <2>1, <2>2, <2>3, AfterReturn
  <1>6. QED
    BY <1>2, <1>3, <1>4, <1>5 DEF FunctionStep
(* Evaluating a parameter *)
LEMMA QuietDescends ==
  ASSUME CoreInv, MarkedScript, JumpsQuietly, Running, Keeps, Same,
         NEW pc \in Pcs \ {"enter"}, NEW pos \in Nat, NEW tmp \in Value, NEW cont \in BOOLEAN,
         Evaluates(pc, pos, tmp, cont)
  PROVE  JumpsQuietly'
  <1>1. PICK n \in Nat : n = Len(calls)
    BY TopFacts DEF Running
  <1>2. n \in 1 .. n /\ calls[n].node \in 1 .. Len(prog) /\ Op = prog[calls[n].node].op
        /\ Args = prog[calls[n].node].args
    BY <1>1, TopFacts DEF Top, Op, Args, Running
  <1>3. FlagsOff => FlagsOff'
    BY DEF FlagsOff, Keeps
  <1>4. calls[n].node \in JumpsIn(prog) => FlagsOff
    <2>1. SUFFICES ASSUME calls[n].node \in JumpsIn(prog) PROVE FlagsOff
      OBVIOUS
    <2>2. Op \in {"goto", "if"} /\ RegularAt(Op, Len(Args), pc, pos, tmp)
      BY <1>2, <2>1, MarkedTerms DEF Evaluates
    <2>3. Op # "goto"
      BY <2>2, Different DEF RegularAt
    <2>4. calls[n].pc \in {"enter", "cond"}
      BY <1>1, <2>2, <2>3 DEF Evaluates, Top
    <2>5. QED
      BY <1>1, <1>2, <2>1, <2>4 DEF JumpsQuietly
  <1>5. ASSUME NEW j \in 1 .. n, calls'[j].node \in JumpsIn(prog),
               calls'[j].pc \in {"enter", "cond"}
        PROVE  FlagsOff
    <2>1. CASE j = n
      BY <1>1, <1>4, <1>5, <2>1 DEF Same
    <2>2. CASE j # n
      <3>1. calls'[j] = calls[j]
        BY <1>1, <2>2 DEF Same
      <3>2. QED
        BY <1>1, <1>5, <3>1 DEF JumpsQuietly
    <2>3. QED
      BY <2>1, <2>2
  <1>6. ASSUME focus'.node \in JumpsIn(prog)
        PROVE  FlagsOff'
    <2>1. PICK i : i = ParamAt(Op, pc, pos, tmp) + 1
      OBVIOUS
    <2>2. ParamAt(Op, pc, pos, tmp) \in Nat /\ ParamAt(Op, pc, pos, tmp) < Len(Args)
      BY DEF ParamAt, Evaluates
    <2>3. i \in DOMAIN Args
      BY <2>1, <2>2, TopFacts DEF Running
    <2>4. focus'.node = Args[i]
      BY <2>1 DEF Evaluates, EvalArgFrom, Eval
    <2>5. Op \in ListOps \/ calls[n].node \in JumpsIn(prog)
      BY <1>2, <1>6, <2>3, <2>4, MarkedParams
    <2>6. Op \in ListOps => FlagsOff'
      BY DEF Evaluates, FlagsOff
    <2>7. QED
      BY <1>3, <1>4, <2>5, <2>6
  <1>7. prog' = prog /\ Len(calls') = n
    BY <1>1 DEF Keeps, Same
  <1>8. QED
    BY <1>3, <1>5, <1>6, <1>7 DEF JumpsQuietly

(* A step that adds no activation and evaluates nothing *)
LEMMA QuietKept ==
  ASSUME JumpsQuietly, prog' = prog, FlagsOff => FlagsOff', focus'.k # "eval",
         NEW n \in Nat, n <= Len(calls), Len(calls) \in Nat, Outer(n)
  PROVE  JumpsQuietly'
  <1>1. \A j \in 1 .. n : j \in 1 .. Len(calls) /\ calls'[j] = calls[j]
    BY DEF Outer
  <1>2. Len(calls') = n
    BY DEF Outer
  <1>3. QED
    BY <1>1, <1>2 DEF JumpsQuietly

(* A step of a function *)
LEMMA QuietFunction ==
  ASSUME IInv, MarkedScript, JumpsQuietly, FunctionStep
  PROVE  JumpsQuietly'
  <1>1. CoreInv /\ Running /\ Keeps
    BY DEF IInv, FunctionStep
  <1>2. PICK n \in Nat : n = Len(calls)
    BY <1>1, TopFacts DEF Running
  <1>3. prog' = prog /\ (FlagsOff => FlagsOff')
    BY <1>1 DEF FlagsOff, Keeps
  <1>4. ASSUME NEW pc \in Pcs \ {"enter"}, NEW pos \in Nat, NEW tmp \in Value,
               NEW cont \in BOOLEAN, Evaluates(pc, pos, tmp, cont), Same
        PROVE  JumpsQuietly'
    BY <1>1, <1>4, QuietDescends
  <1>5. CASE Op = "for" /\ Same /\ focus'.k = "ret"
    <2>1. calls[n].node \in 1 .. Len(prog) /\ prog[calls[n].node].op = "for" /\ n \in 1 .. n
      BY <1>1, <1>2, <1>5, TopFacts DEF Top, Op, Running
    <2>2. calls[n].node \notin JumpsIn(prog)
      BY <2>1, MarkedTerms
    <2>3. ASSUME NEW j \in 1 .. n, calls'[j].node \in JumpsIn(prog),
                 calls'[j].pc \in {"enter", "cond"}
          PROVE  FlagsOff'
      <3>1. j # n
        BY <1>2, <1>5, <2>2, <2>3 DEF Same
      <3>2. calls'[j] = calls[j]
        BY <1>2, <1>5, <3>1 DEF Same
      <3>3. QED
        BY <1>2, <1>3, <2>3, <3>2 DEF JumpsQuietly
    <2>4. Len(calls') = n
      BY <1>2, <1>5 DEF Same
    <2>5. QED
      BY <1>3, <1>5, <2>3, <2>4 DEF JumpsQuietly
  <1>6. CASE calls' = <<>> /\ focus'.k = "ret"
    <2>1. Outer(0)
      BY <1>6 DEF Outer
    <2>2. QED
      BY <1>2, <1>3, <1>6, <2>1, QuietKept
  <1>7. CASE Outer(Len(calls) - 1) /\ focus'.k = "ret"
    <2>1. n - 1 \in Nat /\ n - 1 <= Len(calls) /\ Outer(n - 1)
      BY <1>1, <1>2, <1>7, TopFacts DEF Running
    <2>2. QED
      BY <1>2, <1>3, <1>7, <2>1, QuietKept
  <1>8. QED
    BY <1>1, <1>4, <1>5, <1>6, <1>7, AfterFunction

(* A call takes what its term is about with it. *)
LEMMA QuietCalls ==
  ASSUME CoreInv, JumpsQuietly, EvalFunctionCall
  PROVE  JumpsQuietly'
  <1>1. PICK n \in Nat : n = Len(calls)
    BY CallsFacts DEF Lengths
  <1>2. /\ Len(calls') = n + 1 /\ focus'.k = "ret" /\ focus.k = "eval"
        /\ \A j \in 1 .. n : calls'[j] = calls[j]
        /\ calls'[n + 1].node = focus.node
    BY <1>1, AfterCall DEF EvalFunctionCall
  <1>3. prog' = prog /\ FlagsOff' = FlagsOff
    BY DEF EvalFunctionCall, envVars, FlagsOff
  <1>4. ASSUME NEW j \in 1 .. n + 1, calls'[j].node \in JumpsIn(prog),
               calls'[j].pc \in {"enter", "cond"}
        PROVE  FlagsOff
    <2>1. j = n + 1 \/ j \in 1 .. n
      OBVIOUS
    <2>2. QED
      BY <1>1, <1>2, <1>4, <2>1 DEF JumpsQuietly
  <1>5. QED
    BY <1>2, <1>3, <1>4 DEF JumpsQuietly

-----------------------------------------------------------------------------
(* The activations are calls of each other *)

Linked ==
    focus.k = "eval" =>
        IF calls = <<>> THEN focus.node = 1
        ELSE Top.pc # "enter" /\ focus.node = Callee(prog, Top)

Way == Chain(prog, calls, Len(calls)) /\ Linked

(* Evaluating a parameter *)
LEMMA WayDescends ==
  ASSUME CoreInv, Way, Running, prog' = prog, Same,
         NEW pc \in Pcs \ {"enter"}, NEW pos \in Nat, NEW tmp \in Value, NEW cont \in BOOLEAN,
         Evaluates(pc, pos, tmp, cont), pc = "init" => tmp = Nil,
         calls'[Len(calls)] = [node |-> Top.node, pc |-> pc, pos |-> pos, tmp |-> tmp,
                               cont |-> Top.cont]
  PROVE  Way'
  <1>1. PICK n \in Nat \ {0} : n = Len(calls)
    BY TopFacts DEF Running
  <1>2. n \in 1 .. n /\ calls[n].node \in 1 .. Len(prog) /\ Op = prog[calls[n].node].op
        /\ Args = prog[calls[n].node].args
    BY <1>1, TopFacts DEF Top, Op, Args, Running
  <1> DEFINE a == calls'[n]
  <1>3. a.node = calls[n].node /\ a.pc = pc /\ a.pos = pos /\ a.tmp = tmp
    BY <1>1 DEF Top
  <1>4. prog[calls[n].node].op \in FunctionOps
    BY <1>1, <1>2 DEF Way, Chain, Regular
  <1>5. ParamAt(Op, pc, pos, tmp) + 1 \in DOMAIN Args
    <2>1. ParamAt(Op, pc, pos, tmp) \in Nat /\ ParamAt(Op, pc, pos, tmp) < Len(Args)
      BY DEF ParamAt, Evaluates
    <2>2. QED
      BY <2>1, TopFacts DEF Running
  <1>6. RegularAt(Op, Len(Args), pc, pos, tmp)
    BY DEF Evaluates
  <1>7. Regular(prog, a)
    BY <1>2, <1>3, <1>4, <1>5, <1>6 DEF Regular
  <1>8. Len(calls') = n /\ \A j \in 1 .. n - 1 : calls'[j] = calls[j]
    <2>1. \A j \in 1 .. n - 1 : j \in 1 .. n /\ j < n
      OBVIOUS
    <2>2. QED
      BY <1>1, <2>1 DEF Same
  <1>9. Chain(prog, calls', n)
    BY <1>1, <1>3, <1>7, <1>8, ChainTop DEF Way
  <1>10. focus'.node = Callee(prog, a)
    BY <1>2, <1>3 DEF Callee, Evaluates, EvalArgFrom, Eval
  <1>11. Top' = a
    BY <1>8 DEF Top
  <1>12. calls' # <<>>
    BY <1>8
  <1>13. Linked'
    BY <1>3, <1>10, <1>11, <1>12 DEF Linked
  <1>14. QED
    BY <1>8, <1>9, <1>13 DEF Way

(* A step that evaluates nothing and leaves no more activations *)
LEMMA WayBack ==
  ASSUME CoreInv, Way, prog' = prog, focus'.k # "eval",
         NEW n \in Nat, n <= Len(calls), Outer(n)
  PROVE  Way'
  <1>1. Len(calls) \in Nat
    BY CallsFacts DEF Lengths
  <1>2. Chain(prog, calls', n)
    BY <1>1, ChainShorter DEF Way, Outer
  <1>3. QED
    BY <1>2 DEF Way, Linked, Outer

(* A step of a function, in a run that does not continue from an interrupt *)
LEMMA WayFunction ==
  ASSUME IInv, Way, queue = <<>>, FunctionStep
  PROVE  Way'
  <1>1. CoreInv /\ Running /\ prog' = prog
    BY DEF IInv, FunctionStep, Keeps
  <1>2. PICK n \in Nat \ {0} : n = Len(calls)
    BY <1>1, TopFacts DEF Running
  <1>4. ASSUME NEW pc \in Pcs \ {"enter"}, NEW pos \in Nat, NEW tmp \in Value,
               NEW cont \in BOOLEAN, Evaluates(pc, pos, tmp, cont), Same,
               calls'[Len(calls)] = [node |-> Top.node, pc |-> pc, pos |-> pos, tmp |-> tmp,
                                     cont |-> Top.cont]
        PROVE  Way'
    <2>1. pc = "init" => tmp = Nil
      BY <1>4 DEF Evaluates
    <2>2. QED
      BY <1>1, <1>4, <2>1, WayDescends
  <1>5. ASSUME Op = "for", Len(Args) = 4, Same, focus'.k = "ret",
               NEW pos \in Nat, NEW tmp \in Value,
               calls'[Len(calls)] = [node |-> Top.node, pc |-> "every", pos |-> pos,
                                     tmp |-> tmp, cont |-> Top.cont]
        PROVE  Way'
    <2> DEFINE a == calls'[n]
    <2>1. a.node = calls[n].node /\ a.pc = "every" /\ a.pos = pos /\ a.tmp = tmp
      BY <1>2, <1>5 DEF Top
    <2>2. n \in 1 .. n /\ calls[n].node \in 1 .. Len(prog) /\ Op = prog[calls[n].node].op
          /\ Args = prog[calls[n].node].args
      BY <1>1, <1>2, TopFacts DEF Top, Op, Args, Running
    <2>3. RegularAt(Op, Len(Args), "every", pos, tmp) /\ ParamAt(Op, "every", pos, tmp) = 2
      BY <1>5, Places, RegularPlaces
    <2>4. 2 + 1 \in DOMAIN Args
      BY <1>1, <1>5, TopFacts DEF Running
    <2>5. Op \in FunctionOps
      BY <1>5 DEF FunctionOps
    <2>6. Regular(prog, a)
      BY <2>1, <2>2, <2>3, <2>4, <2>5 DEF Regular
    <2>7. Len(calls') = n /\ \A j \in 1 .. n - 1 : calls'[j] = calls[j]
      <3>1. \A j \in 1 .. n - 1 : j \in 1 .. n /\ j < n
        OBVIOUS
      <3>2. QED
        BY <1>2, <1>5, <3>1 DEF Same
    <2>8. Chain(prog, calls', n)
      BY <1>2, <2>1, <2>6, <2>7, ChainTop DEF Way
    <2>9. QED
      BY <1>1, <1>5, <2>7, <2>8 DEF Way, Linked
  <1>6. CASE calls' = <<>> /\ focus'.k = "ret"
    <2>1. Outer(0)
      BY <1>6 DEF Outer
    <2>2. QED
      BY <1>1, <1>2, <1>6, <2>1, WayBack
  <1>7. CASE Outer(Len(calls) - 1) /\ focus'.k = "ret"
    <2>1. n - 1 \in Nat /\ n - 1 <= Len(calls) /\ Outer(n - 1)
      BY <1>2, <1>7
    <2>2. QED
      BY <1>1, <1>7, <2>1, WayBack
  <1>8. QED
    BY <1>1, <1>4, <1>5, <1>6, <1>7, AfterFunction

(* The activation a call adds *)
LEMMA CallTop ==
  ASSUME CoreInv, EvalFunctionCall
  PROVE  calls'[Len(calls) + 1] = [node |-> focus.node, pc |-> "enter", pos |-> 0,
                                   tmp |-> Nil, cont |-> focus.cont]
  <1> DEFINE a == [node |-> focus.node, pc |-> "enter", pos |-> 0,
                   tmp |-> Nil, cont |-> focus.cont]
  <1>1. a \in Activation
    BY ValueAssumption DEF CoreInv, Focus, Activation, Pcs
  <1>2. calls' = Append(calls, a) /\ calls \in Seq(Activation)
    BY DEF EvalFunctionCall, CoreInv
  <1> HIDE DEF a
  <1>3. calls'[Len(calls) + 1] = a
    BY <1>1, <1>2, AppendProperties
  <1>4. QED
    BY <1>3 DEF a

(* A call is of the term that was to be evaluated. *)
LEMMA WayCalls ==
  ASSUME CoreInv, Way, EvalFunctionCall
  PROVE  Way'
  <1>1. PICK n \in Nat : n = Len(calls)
    BY CallsFacts DEF Lengths
  <1>2. /\ Len(calls') = n + 1 /\ focus'.k = "ret" /\ focus.k = "eval" /\ prog' = prog
        /\ \A j \in 1 .. n : calls'[j] = calls[j]
        /\ prog[focus.node].op \in FunctionOps
    BY <1>1, AfterCall DEF EvalFunctionCall
  <1>3. calls'[n + 1] = [node |-> focus.node, pc |-> "enter", pos |-> 0,
                         tmp |-> Nil, cont |-> focus.cont]
    BY <1>1, CallTop
  <1>4. Regular(prog, calls'[n + 1]) /\ calls'[n + 1].node = focus.node
    BY <1>2, <1>3, FocusFacts DEF Regular
  <1>5. calls = <<>> <=> n = 0
    BY <1>1 DEF CoreInv
  <1>6. IF n = 0 THEN calls'[1].node = 1
        ELSE calls[n].pc # "enter" /\ calls'[n + 1].node = Callee(prog, calls[n])
    BY <1>1, <1>2, <1>4, <1>5 DEF Way, Linked, Top
  <1>7. Chain(prog, calls', n + 1)
    BY <1>1, <1>2, <1>4, <1>6, ChainLonger DEF Way
  <1>8. QED
    BY <1>2, <1>7 DEF Way, Linked

(* A break and a return statement are not in the condition of a branch      *)
(* around a goto. *)
LEMMA QuietSets ==
  ASSUME IInv, MarkedScript, JumpsQuietly, Way, Running, Op \in {"break", "return"},
         prog' = prog, focus'.k # "eval", calls' = <<>> \/ Outer(Len(calls) - 1)
  PROVE  JumpsQuietly'
  <1>1. CoreInv /\ Len(calls) \in Nat \ {0}
    BY TopFacts DEF IInv, Running
  <1>2. PICK n \in Nat \ {0} : n = Len(calls)
    BY <1>1
  <1>3. calls[n].node \in 1 .. Len(prog) /\ prog[calls[n].node].op = Op
    BY <1>1, <1>2, TopFacts DEF Top, Op, Running
  <1>4. calls[n].node \notin CalmIn(prog)
    BY <1>3, MarkedTerms
  <1>5. ASSUME NEW k \in 1 .. n - 1, calls[k].node \in JumpsIn(prog),
               calls[k].pc \in {"enter", "cond"}
        PROVE  FALSE
    <2>1. Chain(prog, calls, n)
      BY <1>2 DEF Way
    <2>2. k \in 1 .. n /\ k + 1 \in 1 .. n /\ n \in k + 1 .. n
      OBVIOUS
    <2>3. calls[k].pc # "enter" /\ Regular(prog, calls[k])
          /\ calls[k + 1].node = Callee(prog, calls[k])
      BY <2>1, <2>2 DEF Chain
    <2>4. calls[k].node \in 1 .. Len(prog)
          /\ RegularAt(prog[calls[k].node].op, Len(prog[calls[k].node].args),
                       calls[k].pc, calls[k].pos, calls[k].tmp)
      BY <2>3 DEF Regular
    <2>5. prog[calls[k].node].op = "if"
      <3>1. prog[calls[k].node].op \in {"goto", "if"}
        BY <1>5, <2>4, MarkedTerms
      <3>2. prog[calls[k].node].op # "goto"
        BY <2>4, Different DEF RegularAt
      <3>3. QED
        BY <3>1, <3>2
    <2>6. ParamAt(prog[calls[k].node].op, calls[k].pc, calls[k].pos, calls[k].tmp) = 0
      BY <1>5, <2>3, <2>5, Different DEF ParamAt
    <2>7. calls[k + 1].node \in CalmIn(prog)
      <3>1. PICK i \in DOMAIN prog[calls[k].node].args :
               /\ i = 0 + 1 /\ Callee(prog, calls[k]) = prog[calls[k].node].args[i]
        BY <2>3, <2>6, CalleeIs
      <3>2. prog[calls[k].node].args[i] \in CalmIn(prog)
        BY <1>5, <2>4, <3>1, MarkedParams
      <3>3. QED
        BY <2>3, <3>1, <3>2
    <2>8. ClosedIn(prog, CalmIn(prog))
      BY MarkedClosed
    <2>9. \A i \in k + 1 .. n : calls[i].node \in CalmIn(prog)
      BY <2>1, <2>2, <2>7, <2>8, ChainClosed
    <2>10. QED
      BY <1>4, <2>2, <2>9
  <1>6. CASE calls' = <<>>
    <2>1. Len(calls') = 0
      BY <1>6
    <2>2. QED
      BY <2>1 DEF JumpsQuietly
  <1>7. CASE Outer(Len(calls) - 1)
    <2>1. Len(calls') = n - 1 /\ \A k \in 1 .. n - 1 : calls'[k] = calls[k]
      BY <1>2, <1>7 DEF Outer
    <2>2. QED
      BY <1>5, <2>1 DEF JumpsQuietly
  <1>8. QED
    BY <1>6, <1>7

-----------------------------------------------------------------------------
(* While a jump is on its way out of a list, its statements only return *)

Jumping(a) ==
    \/ prog[a.node].op \in ListOps /\ a.pc = "stmt"
    \/ a.node \in JumpsIn(prog) /\ a.pc = "body"

InList ==
    \E j \in 1 .. Len(calls) : prog[calls[j].node].op \in ListOps /\ calls[j].pc = "stmt"

Leaving == jumpTo # Nil /\ InList => focus.k = "ret" /\ Jumping(Top) /\ FlagsOff

(* A goto, and a branch with a goto in it, returns to a list or to such a  *)
(* branch. *)
LEMMA CallerJumps ==
  ASSUME MarkedScript, NEW n \in Nat \ {0}, NEW m \in Nat, n = m + 1, m # 0,
         Chain(prog, calls, n), calls[n].node \in JumpsIn(prog)
  PROVE  Jumping(calls[m])
  <1>1. m \in 1 .. n - 1 /\ m \in 1 .. n
    OBVIOUS
  <1>2. calls[m].pc # "enter" /\ Regular(prog, calls[m])
        /\ calls[n].node = Callee(prog, calls[m])
    BY <1>1 DEF Chain
  <1> DEFINE op == prog[calls[m].node].op
             k == ParamAt(op, calls[m].pc, calls[m].pos, calls[m].tmp)
  <1>3. calls[m].node \in 1 .. Len(prog)
        /\ RegularAt(op, Len(prog[calls[m].node].args), calls[m].pc, calls[m].pos, calls[m].tmp)
    BY <1>2 DEF Regular
  <1>4. PICK i \in DOMAIN prog[calls[m].node].args :
           i = k + 1 /\ Callee(prog, calls[m]) = prog[calls[m].node].args[i]
    BY <1>2, CalleeIs
  <1>5. op \in ListOps \/ (calls[m].node \in JumpsIn(prog) /\ i > 1)
    BY <1>2, <1>3, <1>4, MarkedParams
  <1>6. CASE op \in ListOps
    <2>1. calls[m].pc = "stmt"
      BY <1>3, <1>6, Different DEF RegularAt
    <2>2. QED
      BY <1>6, <2>1 DEF Jumping
  <1>7. CASE calls[m].node \in JumpsIn(prog) /\ i > 1
    <2>1. op \in {"goto", "if"}
      BY <1>3, <1>7, MarkedTerms
    <2>2. op # "goto"
      BY <1>3, Different DEF RegularAt
    <2>3. calls[m].pc = "cond" \/ calls[m].pc = "body"
      BY <1>3, <2>1, <2>2, Different DEF RegularAt
    <2>4. calls[m].pc = "cond" => k = 0
      BY <2>1, <2>2, Different DEF ParamAt
    <2>5. calls[m].pc = "body"
      BY <1>4, <1>7, <2>3, <2>4
    <2>6. QED
      BY <1>7, <2>5 DEF Jumping
  <1>8. QED
    BY <1>5, <1>6, <1>7

(* Only a list and a branch with a goto in it have such a place. *)
LEMMA JumpingTop ==
  ASSUME CoreInv, MarkedScript, calls # <<>>, Jumping(Top)
  PROVE  Op \in ListOps \/ (Op \in {"goto", "if"} /\ Top.pc = "body" /\ Top.node \in JumpsIn(prog))
  BY TopFacts, MarkedTerms DEF Jumping, Op

(* Where nothing jumps, nothing is left. *)
LEMMA LeavingKept ==
  ASSUME Leaving, jumpTo' \in {jumpTo, Nil}, InList' => InList,
         focus.k = "ret" => ~Jumping(Top)
  PROVE  Leaving'
  BY DEF Leaving

(* The lists of the activations that stay *)
LEMMA ListsStay ==
  ASSUME NEW n \in Nat, n <= Len(calls), Len(calls) \in Nat, Outer(n), prog' = prog
  PROVE  InList' => InList
  <1>1. \A j \in 1 .. n : j \in 1 .. Len(calls) /\ calls'[j] = calls[j]
    BY DEF Outer
  <1>2. Len(calls') = n
    BY DEF Outer
  <1>3. QED
    BY <1>1, <1>2 DEF InList

(* What a function hands back while a jump is on its way *)
LEMMA LeavingReturns ==
  ASSUME CoreInv, MarkedScript, JumpsQuietly, Way, Leaving, Running, Keeps, Jumps,
         Outer(Len(calls) - 1), focus'.k = "ret", status' = status
  PROVE  Leaving'
  <1>1. PICK m \in Nat : Len(calls) = m + 1
    <2>1. Len(calls) \in Nat \ {0}
      BY TopFacts DEF Running
    <2>2. Len(calls) - 1 \in Nat /\ Len(calls) = (Len(calls) - 1) + 1
      BY <2>1
    <2>3. QED
      BY <2>2
  <1> DEFINE n == m + 1
  <1>2. n \in Nat \ {0} /\ n = Len(calls) /\ calls[n] = Top /\ Outer(m) /\ n \in 1 .. n
    BY <1>1 DEF Top
  <1>3. prog' = prog /\ Len(calls') = m /\ \A j \in 1 .. m : calls'[j] = calls[j]
    BY <1>2 DEF Keeps, Outer
  <1>4. Chain(prog, calls, n)
    BY <1>2 DEF Way
  <1>5. Top.node \in 1 .. Len(prog) /\ Regular(prog, Top)
    BY <1>2, <1>4 DEF Chain, Regular
  <1>6. SUFFICES ASSUME jumpTo' # Nil, InList'
                 PROVE  Jumping(Top)' /\ FlagsOff'
    BY DEF Leaving
  <1>7. InList
    <2>1. m <= Len(calls) /\ Len(calls) \in Nat
      BY <1>1
    <2>2. QED
      BY <1>2, <1>3, <1>6, <2>1, ListsStay
  <1>8. m # 0
    BY <1>3, <1>6 DEF InList
  <1>9. m \in 1 .. m /\ Top' = calls[m]
    BY <1>3, <1>8 DEF Top
  <1>10. Jumping(Top)' <=> Jumping(calls[m])
    BY <1>3, <1>9 DEF Jumping
  <1>11. Top.node \in JumpsIn(prog) => Jumping(Top)'
    BY <1>2, <1>4, <1>8, <1>10, CallerJumps
  <1>12. FlagsOff => FlagsOff'
    BY DEF FlagsOff, Keeps
  <1>13. CASE Op = "goto"
    <2>1. Top.node \in JumpsIn(prog)
      BY <1>5, <1>13, MarkedTerms DEF Op
    <2>2. Top.pc = "enter"
      BY <1>5, <1>13, Different DEF Regular, RegularAt, Op
    <2>3. FlagsOff
      BY <1>2, <2>1, <2>2 DEF JumpsQuietly
    <2>4. QED
      BY <1>11, <1>12, <2>1, <2>3
  <1>14. CASE Op # "goto"
    <2>1. Op # "switch"
      BY <1>5, MarkedTerms DEF Op
    <2>2. jumpTo' = jumpTo
      BY <1>6, <1>14, <2>1 DEF Keeps
    <2>3. Jumping(Top) /\ FlagsOff
      BY <1>6, <1>7, <2>2 DEF Leaving
    <2>4. CASE prog[Top.node].op \in ListOps /\ Top.pc = "stmt"
      <3>1. jumpTo' = Nil \/ Raise
        BY <1>6, <2>2, <2>3, <2>4 DEF Jumps, Op, FlagsOff
      <3>2. calls' # <<>>
        BY <1>3, <1>8
      <3>3. QED
        BY <1>6, <3>1, <3>2 DEF Raise
    <2>5. CASE Top.node \in JumpsIn(prog)
      BY <1>11, <1>12, <2>3, <2>5
    <2>6. QED
      BY <2>3, <2>4, <2>5 DEF Jumping
  <1>15. QED
    BY <1>13, <1>14

(* A step of a function *)
LEMMA LeavingFunction ==
  ASSUME IInv, MarkedScript, JumpsQuietly, Way, Leaving, FunctionStep
  PROVE  Leaving'
  <1>1. CoreInv /\ Running /\ Keeps /\ Jumps /\ calls # <<>>
    BY DEF IInv, FunctionStep, Running
  <1>2. PICK n \in Nat \ {0} : n = Len(calls)
    BY <1>1, TopFacts
  <1>3. n \in 1 .. n /\ prog' = prog /\ Op = prog[calls[n].node].op
        /\ calls[n].node \in 1 .. Len(prog)
    BY <1>1, <1>2, TopFacts DEF Keeps, Op, Top
  <1>4. Op # "switch"
    BY <1>3, MarkedTerms
  <1>5. ASSUME Same, Op \notin ListOps
        PROVE  InList' => InList
    <2>1. ASSUME NEW j \in 1 .. n, prog[calls'[j].node].op \in ListOps, calls'[j].pc = "stmt"
          PROVE  InList
      <3>1. calls'[j].node = calls[j].node
        BY <1>2, <1>5, <2>1 DEF Same
      <3>2. j # n
        BY <1>3, <1>5, <2>1, <3>1
      <3>3. calls'[j] = calls[j]
        BY <1>2, <1>5, <3>2 DEF Same
      <3>4. QED
        BY <1>2, <2>1, <3>3 DEF InList
    <2>2. Len(calls') = n
      BY <1>2, <1>5 DEF Same
    <2>3. QED
      BY <1>3, <2>1, <2>2 DEF InList
  <1>6. ASSUME NEW pc \in Pcs \ {"enter"}, NEW pos \in Nat, NEW tmp \in Value,
               NEW cont \in BOOLEAN, Evaluates(pc, pos, tmp, cont), Same
        PROVE  Leaving'
    <2>1. CASE Op \in ListOps
      <3>1. jumpTo' = Nil
        BY <1>6, <2>1 DEF Evaluates
      <3>2. QED
        BY <3>1 DEF Leaving
    <2>2. CASE Op \notin ListOps
      <3>1. Op # "goto"
        <4>1. RegularAt(Op, Len(Args), pc, pos, tmp)
          BY <1>6 DEF Evaluates
        <4>2. QED
          BY <4>1, Different DEF RegularAt
      <3>2. jumpTo' \in {jumpTo, Nil}
        BY <1>1, <1>4, <3>1 DEF Keeps
      <3>3. ~Jumping(Top)
        <4>1. Op = "if" => Top.pc # "body"
          BY <1>6 DEF Evaluates
        <4>2. QED
          BY <1>1, <2>2, <3>1, <4>1, JumpingTop
      <3>4. QED
        BY <1>5, <1>6, <2>2, <3>2, <3>3, LeavingKept
    <2>3. QED
      BY <2>1, <2>2
  <1>7. CASE Op = "for" /\ Same
    <2>1. Op \notin ListOps /\ Op # "goto" /\ Op # "if"
      BY <1>7, Different
    <2>2. jumpTo' \in {jumpTo, Nil} /\ ~Jumping(Top)
      BY <1>1, <1>4, <2>1, JumpingTop DEF Keeps
    <2>3. QED
      BY <1>5, <1>7, <2>1, <2>2, LeavingKept
  <1>8. CASE calls' = <<>>
    <2>1. Len(calls') = 0
      BY <1>8
    <2>2. QED
      BY <2>1 DEF Leaving, InList
  <1>9. CASE Outer(Len(calls) - 1) /\ focus'.k = "ret" /\ status' = status
    BY <1>1, <1>9, LeavingReturns
  <1>10. QED
    BY <1>1, <1>6, <1>7, <1>8, <1>9, AfterFunction

(* The functions that answer without a FunctionStep are in no list. *)
LEMMA LeavingAnswers ==
  ASSUME CoreInv, MarkedScript, Leaving, Running, Op \in {"break", "return", "host"},
         prog' = prog, jumpTo' = jumpTo, calls' = <<>> \/ Outer(Len(calls) - 1)
  PROVE  Leaving'
  <1>1. ~Jumping(Top)
    BY JumpingTop, Different DEF Running
  <1>2. InList' => InList
    <2>1. PICK n \in Nat : n = Len(calls) /\ n # 0
      BY TopFacts DEF Running
    <2>2. CASE calls' = <<>>
      <3>1. Len(calls') = 0
        BY <2>2
      <3>2. QED
        BY <3>1 DEF InList
    <2>3. CASE Outer(n - 1)
      <3>1. n - 1 \in Nat /\ n - 1 <= Len(calls) /\ Len(calls) \in Nat
        BY <2>1
      <3>2. QED
        BY <2>3, <3>1, ListsStay
    <2>4. QED
      BY <2>1, <2>2, <2>3
  <1>3. QED
    BY <1>1, <1>2, LeavingKept

(* Nor does a call enter one. *)
LEMMA LeavingCalls ==
  ASSUME CoreInv, Leaving, EvalFunctionCall
  PROVE  Leaving'
  <1>1. PICK n \in Nat : n = Len(calls)
    BY CallsFacts DEF Lengths
  <1>2. /\ Len(calls') = n + 1 /\ focus.k = "eval" /\ prog' = prog /\ jumpTo' = jumpTo
        /\ \A j \in 1 .. n : calls'[j] = calls[j]
        /\ calls'[n + 1].pc = "enter"
    BY <1>1, AfterCall DEF EvalFunctionCall, envVars
  <1>3. InList' => InList
    <2>1. ASSUME NEW j \in 1 .. n + 1, prog[calls'[j].node].op \in ListOps, calls'[j].pc = "stmt"
          PROVE  InList
      <3>1. j \in 1 .. n
        BY <1>2, <2>1
      <3>2. QED
        BY <1>1, <1>2, <2>1, <3>1 DEF InList
    <2>2. QED
      BY <1>2, <2>1 DEF InList
  <1>4. QED
    BY <1>2, <1>3, LeavingKept

-----------------------------------------------------------------------------
(* The position the history keeps *)

(* What a step writes into it *)
LEMMA SavedFields ==
  ASSUME DataInv
  PROVE  /\ HostAnswers \/ HostRaises \/ StartRun => hist'.saved = <<>>
         /\ HostInterrupts => hist'.saved = Here
         /\ ReturnValue \/ Break \/ ResumeRun => hist'.saved = hist.saved
         /\ hist.saved \in Seq(Place)
  <1> DEFINE S == Seq(Place)
  <1>1. hist \in [base : Nat, runs : Nat, answers : Nat, interrupts : Nat,
                  last : [node : Nat, val : Value], tick : BOOLEAN, saved : S,
                  brk : Nat, returned : BOOLEAN, value : Value]
    BY DEF DataInv, History
  <1> HIDE DEF S
  <1>2. hist.saved \in S
    BY <1>1
  <1>3. ASSUME HostAnswers PROVE hist'.saved = <<>>
    <2>1. PICK v \in HostValues :
             hist' = [hist EXCEPT !.answers = @ + (IF v \in Truthy THEN 1 ELSE 0),
                                  !.tick = ~@,
                                  !.last = [node |-> Top.node, val |-> v],
                                  !.saved = <<>>]
      BY <1>3 DEF HostAnswers
    <2> DEFINE d == IF v \in Truthy THEN 1 ELSE 0
               l == [node |-> Top.node, val |-> v]
    <2>2. hist' = [hist EXCEPT !.answers = @ + d, !.tick = ~@, !.last = l, !.saved = <<>>]
      BY <2>1
    <2> HIDE DEF d, l
    <2>3. QED
      BY <1>1, <2>2
  <1>4. ASSUME HostInterrupts PROVE hist'.saved = Here
    <2>1. PICK h : h = Here
      OBVIOUS
    <2>2. PICK a : hist' = [hist EXCEPT !.interrupts = a, !.saved = h]
      BY <1>4, <2>1 DEF HostInterrupts
    <2>3. hist'.saved = h
      BY <1>1, <2>2
    <2>4. QED
      BY <2>1, <2>3
  <1>5. ASSUME HostRaises PROVE hist'.saved = <<>>
    <2>1. hist' = [hist EXCEPT !.saved = <<>>]
      BY <1>5 DEF HostRaises
    <2>2. QED
      BY <1>1, <2>1
  <1>6. ASSUME StartRun PROVE hist'.saved = <<>>
    <2>1. PICK r, b, l, t : hist' = [hist EXCEPT !.runs = r, !.base = b, !.last = l, !.tick = t,
                                     !.saved = <<>>, !.brk = 0, !.returned = FALSE, !.value = Nil]
      BY <1>6 DEF StartRun
    <2>2. QED
      BY <1>1, <2>1
  <1>7. ASSUME ResumeRun PROVE hist'.saved = hist.saved
    <2>1. PICK b, l : hist' = [hist EXCEPT !.base = b, !.brk = 0, !.last = l]
      BY <1>7 DEF ResumeRun
    <2>2. QED
      BY <1>1, <2>1
  <1>8. ASSUME ReturnValue PROVE hist'.saved = hist.saved
    <2>1. PICK v : hist' = [hist EXCEPT !.returned = TRUE, !.value = v]
      BY <1>8 DEF ReturnValue
    <2>2. QED
      BY <1>1, <2>1
  <1>9. ASSUME Break PROVE hist'.saved = hist.saved
    <2>1. PICK b : hist' = [hist EXCEPT !.brk = b]
      BY <1>9 DEF Break
    <2>2. QED
      BY <1>1, <2>1
  <1>10. QED
    BY <1>2, <1>3, <1>4, <1>5, <1>6, <1>7, <1>8, <1>9 DEF S

-----------------------------------------------------------------------------
(* A run that does not continue from an interrupt, or no longer does *)

Forward ==
    /\ status # "suspended"
    /\ status = "running" => focus.k # "intr" /\ queue = <<>> /\ Way /\ Leaving

(* The steps that are no function's, and take activations away at most *)
LEMMA OtherSteps ==
  ASSUME CoreInv, EvalLeaf \/ HostAnswers \/ HostInterrupts \/ HostRaises \/ Unwind
                  \/ FinishRun \/ SuspendRun
  PROVE  /\ prog' = prog /\ envVars' = envVars /\ focus'.k # "eval"
         /\ \E n \in Nat : n <= Len(calls) /\ Len(calls) \in Nat /\ Outer(n)
  <1>1. PICK n \in Nat : n = Len(calls)
    BY CallsFacts DEF Lengths
  <1>2. prog' = prog /\ envVars' = envVars
    BY DEF EvalLeaf, HostAnswers, HostInterrupts, HostRaises, Unwind, FinishRun, SuspendRun
  <1>3. ASSUME calls' = calls
        PROVE  \E m \in Nat : m <= Len(calls) /\ Len(calls) \in Nat /\ Outer(m)
    BY <1>1, <1>3 DEF Outer
  <1>4. ASSUME calls' = <<>>
        PROVE  \E m \in Nat : m <= Len(calls) /\ Len(calls) \in Nat /\ Outer(m)
    <2>1. Outer(0)
      BY <1>4 DEF Outer
    <2>2. QED
      BY <1>1, <2>1
  <1>5. ASSUME calls # <<>>, calls' = SubSeq(calls, 1, Len(calls) - 1)
        PROVE  Outer(n - 1) /\ n - 1 \in Nat /\ n - 1 <= n
    <2>1. calls \in Seq(Activation) /\ n - 1 \in Nat /\ Len(calls) = (n - 1) + 1
      BY <1>1, <1>5 DEF CoreInv
    <2>2. Len(calls') = n - 1 /\ \A j \in 1 .. n - 1 : calls'[j] = calls[j]
      BY <1>1, <1>5, <2>1, WithoutLast
    <2>3. QED
      BY <2>1, <2>2 DEF Outer
  <1>6. CASE EvalLeaf
    BY <1>2, <1>3, <1>6 DEF EvalLeaf, Leaf, Ret
  <1>7. CASE HostAnswers
    <2>1. Running
      BY <1>7, AtFacts DEF HostAnswers
    <2>2. PICK v : Return(v)
      BY <1>7 DEF HostAnswers
    <2>3. focus'.k # "eval" /\ (calls' = <<>> \/ calls' = SubSeq(calls, 1, Len(calls) - 1))
      BY <2>2 DEF Return, Raise, Ret
    <2>4. QED
      BY <1>1, <1>2, <1>4, <1>5, <2>1, <2>3 DEF Running
  <1>8. CASE HostInterrupts
    BY <1>2, <1>3, <1>8 DEF HostInterrupts, Interrupt
  <1>9. CASE HostRaises
    BY <1>2, <1>4, <1>9 DEF HostRaises, Raise, Ret
  <1>10. CASE Unwind
    <2>1. focus'.k # "eval" /\ calls # <<>> /\ calls' = SubSeq(calls, 1, Len(calls) - 1)
      BY <1>10 DEF Unwind
    <2>2. QED
      BY <1>1, <1>2, <1>5, <2>1
  <1>11. CASE FinishRun \/ SuspendRun
    BY <1>2, <1>3, <1>11 DEF FinishRun, SuspendRun
  <1>12. QED
    BY <1>6, <1>7, <1>8, <1>9, <1>10, <1>11

(* ... leave the flags as they are. *)
LEMMA QuietOther ==
  ASSUME CoreInv, JumpsQuietly,
         EvalLeaf \/ HostAnswers \/ HostInterrupts \/ HostRaises \/ Unwind
         \/ FinishRun \/ SuspendRun
  PROVE  JumpsQuietly'
  <1>1. prog' = prog /\ envVars' = envVars /\ focus'.k # "eval"
    BY OtherSteps
  <1>2. FlagsOff => FlagsOff'
    BY <1>1 DEF envVars, FlagsOff
  <1>3. PICK n \in Nat : n <= Len(calls) /\ Len(calls) \in Nat /\ Outer(n)
    BY OtherSteps
  <1>4. QED
    BY <1>1, <1>2, <1>3, QuietKept

(* So does the beginning of a run. *)
LEMMA QuietBegins ==
  ASSUME CoreInv, MarkedScript, StartRun \/ ResumeRun
  PROVE  JumpsQuietly'
  <1>1. calls' = <<>> /\ prog' = prog /\ focus'.node = 1
    BY DEF StartRun, ResumeRun, CoreInv, Quiet, Eval
  <1>2. 1 \notin JumpsIn(prog)
    BY ProgramFacts, MarkedTerms
  <1>3. Len(calls') = 0
    BY <1>1
  <1>4. QED
    BY <1>1, <1>2, <1>3 DEF JumpsQuietly

(* A break or a return statement *)
LEMMA FlagSteps ==
  ASSUME IInv, ReturnValue \/ Break
  PROVE  /\ Running /\ Op \in {"break", "return"} /\ prog' = prog /\ jumpTo' = jumpTo
         /\ queue' = queue /\ focus'.k = "ret" /\ status' \in {status, "done"}
         /\ calls' = <<>> \/ Outer(Len(calls) - 1)
  <1>1. CoreInv /\ DataInv
    BY DEF IInv
  <1>2. /\ Running /\ Op \in {"break", "return"} /\ prog' = prog /\ jumpTo' = jumpTo
        /\ queue' = queue
    BY <1>1, AtFacts DEF ReturnValue, Break
  <1>3. PICK v \in Value : Return(v)
    BY <1>1, FocusFacts, ValueAssumption DEF ReturnValue, Break
  <1>4. focus'.k = "ret" /\ status' \in {status, "done"} /\ (status' = "done" => calls' = <<>>)
    BY <1>2, <1>3 DEF Return, Raise, Ret, runVars, Running
  <1>5. QED
    BY <1>1, <1>2, <1>3, <1>4, AfterReturn

(* The steps of such a run, those of host functions apart *)
LEMMA ForwardSteps ==
  ASSUME IInv, MarkedScript, JumpsQuietly, Forward,
         FunctionStep \/ EvalLeaf \/ EvalFunctionCall \/ ReturnValue \/ Break \/ FinishRun
  PROVE  Forward' /\ JumpsQuietly'
  <1>1. CoreInv
    BY DEF IInv
  <1>2. status = "running" /\ focus.k # "intr" /\ queue = <<>> /\ Way /\ Leaving
    BY DEF FunctionStep, EvalLeaf, EvalFunctionCall, ReturnValue, Break, FinishRun, At, Running,
           Forward
  <1>3. CASE FunctionStep
    <2>1. status' \in {status, "done"} /\ focus'.k # "intr"
      <3>1. ASSUME NEW pc, NEW pos, NEW tmp, NEW cont, Evaluates(pc, pos, tmp, cont)
            PROVE  status' = status /\ focus'.k = "eval"
        BY <3>1 DEF Evaluates, EvalArgFrom, Eval, runVars
      <3>2. \/ status' = status /\ focus'.k = "eval"
            \/ status' = status /\ focus'.k = "ret"
            \/ status' = "done" /\ focus'.k = "ret"
        BY <1>1, <1>3, <3>1, AfterFunction
      <3>3. QED
        BY <3>2
    <2>2. queue' = <<>>
      BY <1>2, <1>3 DEF FunctionStep, Keeps
    <2>3. QED
      BY <1>2, <1>3, <2>1, <2>2, QuietFunction, WayFunction, LeavingFunction DEF Forward
  <1>4. CASE EvalLeaf
    <2>1. /\ calls' = calls /\ focus'.k = "ret" /\ status' = status /\ queue' = queue
          /\ prog' = prog /\ jumpTo' = jumpTo /\ focus.k = "eval"
      BY <1>4 DEF EvalLeaf, Leaf, Ret, runVars, envVars
    <2>2. Way'
      BY <1>2, <2>1 DEF Way, Linked
    <2>3. InList' => InList
      BY <2>1 DEF InList
    <2>4. Leaving'
      BY <1>2, <2>1, <2>3, LeavingKept
    <2>5. QED
      BY <1>1, <1>2, <1>4, <2>1, <2>2, <2>4, QuietOther DEF Forward
  <1>5. CASE EvalFunctionCall
    <2>1. status' = status /\ focus'.k = "ret" /\ queue' = queue
      BY <1>1, <1>5, AfterCall DEF EvalFunctionCall
    <2>2. QED
      BY <1>1, <1>2, <1>5, <2>1, QuietCalls, WayCalls, LeavingCalls DEF Forward
  <1>6. CASE ReturnValue \/ Break
    <2>1. /\ Running /\ Op \in {"break", "return"} /\ prog' = prog /\ jumpTo' = jumpTo
          /\ queue' = queue /\ focus'.k = "ret" /\ status' \in {status, "done"}
          /\ calls' = <<>> \/ Outer(Len(calls) - 1)
      BY <1>6, FlagSteps
    <2>2. Way'
      <3>1. CASE calls' = <<>>
        <4>1. Len(calls') = 0
          BY <3>1
        <4>2. Outer(0) /\ 0 \in Nat /\ 0 <= Len(calls)
          BY <1>1, <4>1, CallsFacts DEF Outer, Lengths
        <4>3. QED
          BY <1>1, <1>2, <2>1, <4>2, WayBack
      <3>2. CASE Outer(Len(calls) - 1)
        <4>1. Len(calls) - 1 \in Nat /\ Len(calls) - 1 <= Len(calls)
          <5>1. Len(calls) \in Nat \ {0}
            BY <1>1, <2>1, TopFacts DEF Running
          <5>2. QED
            BY <5>1
        <4>2. PICK n \in Nat : n = Len(calls) - 1
          BY <4>1
        <4>3. QED
          BY <1>1, <1>2, <2>1, <3>2, <4>1, <4>2, WayBack
      <3>3. QED
        BY <2>1, <3>1, <3>2
    <2>3. Leaving'
      BY <1>1, <1>2, <2>1, LeavingAnswers
    <2>4. JumpsQuietly'
      BY <1>2, <2>1, QuietSets
    <2>5. QED
      BY <1>2, <2>1, <2>2, <2>3, <2>4 DEF Forward
  <1>7. CASE FinishRun
    <2>1. status' = "done"
      BY <1>7 DEF FinishRun
    <2>2. QED
      BY <1>1, <1>7, <2>1, QuietOther DEF Forward
  <1>8. QED
    BY <1>3, <1>4, <1>5, <1>6, <1>7

-----------------------------------------------------------------------------
(* The entries an interrupt takes with it *)

(* What the function at a place records, and needs to be back there *)
EntryOf(p, x) ==
    CASE p[x.node].op \in ListOps  -> EntryAt(x.pos, Nil)
      [] p[x.node].op \in FoldOps  -> EntryAt(x.pos, x.tmp)
      [] p[x.node].op = "dowhile"  -> EntryAt(IF x.pc = "body" THEN 0 ELSE 1, Nil)
      [] p[x.node].op = "for"      -> IF x.pc = "init" THEN NoEntry
                                      ELSE EntryAt(IF x.pc = "cond" THEN 1 ELSE 2, x.tmp)
      [] p[x.node].op = "return"   -> NoEntry
      [] OTHER                     -> IF x.pc \in {"cond", "left"} THEN NoEntry
                                      ELSE EntryAt(1, x.tmp)

(* The entries of the places s from the m-th on; the last of them is the   *)
(* host function's, which records none. *)
Entries(p, s, m) == [i \in 1 .. Len(s) - m |-> EntryOf(p, s[m + i - 1])]

(* The first entry is that of the m-th place, the rest those after it. *)
LEMMA EntriesFacts ==
  ASSUME NEW p, NEW s \in Seq(Place), NEW m \in Nat \ {0}, m < Len(s)
  PROVE  /\ Entries(p, s, m) # << >>
         /\ Head(Entries(p, s, m)) = EntryOf(p, s[m])
         /\ Tail(Entries(p, s, m)) = Entries(p, s, m + 1)
         /\ Entries(p, s, m) = << EntryOf(p, s[m]) >> \o Entries(p, s, m + 1)
  <1> DEFINE D == {EntryOf(p, s[i]) : i \in Nat}
             e == Entries(p, s, m)
             f == Entries(p, s, m + 1)
  <1>1. Len(s) \in Nat
    OBVIOUS
  <1>2. e \in Seq(D) /\ Len(e) = Len(s) - m /\ \A i \in 1 .. Len(s) - m : e[i] = EntryOf(p, s[m + i - 1])
    <2>1. \A i \in 1 .. Len(s) - m : m + i - 1 \in Nat
      BY <1>1
    <2>2. Len(s) - m \in Nat
      BY <1>1
    <2>3. \A i \in 1 .. Len(s) - m : EntryOf(p, s[m + i - 1]) \in D
      BY <2>1
    <2> HIDE DEF D
    <2>4. QED
      BY <2>2, <2>3 DEF Entries
  <1>3. f \in Seq(D) /\ Len(f) = Len(s) - m - 1
        /\ \A i \in 1 .. Len(s) - m - 1 : f[i] = EntryOf(p, s[m + i])
    <2>1. \A i \in 1 .. Len(s) - (m + 1) : m + 1 + i - 1 = m + i /\ m + i \in Nat
      BY <1>1
    <2>2. Len(s) - (m + 1) \in Nat /\ Len(s) - (m + 1) = Len(s) - m - 1
      BY <1>1
    <2>3. \A i \in 1 .. Len(s) - (m + 1) : EntryOf(p, s[m + 1 + i - 1]) \in D
      BY <2>1
    <2>5. f = [i \in 1 .. Len(s) - (m + 1) |-> EntryOf(p, s[m + 1 + i - 1])]
      BY DEF Entries
    <2> HIDE DEF D, f
    <2>4. QED
      BY <2>1, <2>2, <2>3, <2>5
  <1>4. EntryOf(p, s[m]) \in D
    OBVIOUS
  <1> HIDE DEF D, e, f
  <1>5. e # <<>> /\ e[1] = EntryOf(p, s[m])
    BY <1>1, <1>2
  <1>6. Head(e) = EntryOf(p, s[m])
    BY <1>2, <1>5
  <1>7. Tail(e) = f
    <2>1. Tail(e) \in Seq(D) /\ Len(Tail(e)) = Len(s) - m - 1
          /\ \A i \in 1 .. Len(s) - m - 1 : Tail(e)[i] = e[i + 1]
      BY <1>1, <1>2, <1>5, HeadTailProperties
    <2>2. \A i \in 1 .. Len(s) - m - 1 : e[i + 1] = f[i]
      <3>1. \A i \in 1 .. Len(s) - m - 1 : i + 1 \in 1 .. Len(s) - m /\ m + (i + 1) - 1 = m + i
        BY <1>1
      <3>2. QED
        BY <1>2, <1>3, <3>1
    <2>3. QED
      BY <1>3, <2>1, <2>2, SeqEqual
  <1>8. e = << EntryOf(p, s[m]) >> \o f
    <2> DEFINE g == << EntryOf(p, s[m]) >> \o f
    <2>1. g \in Seq(D) /\ Len(g) = Len(s) - m
      BY <1>1, <1>3, <1>4
    <2>2. ASSUME NEW i \in 1 .. Len(s) - m PROVE g[i] = e[i]
      <3>1. CASE i = 1
        BY <1>3, <1>4, <1>5, <3>1
      <3>2. CASE i # 1
        <4>1. i - 1 \in 1 .. Len(s) - m - 1 /\ m + (i - 1) = m + i - 1
          BY <1>1, <3>2
        <4>2. g[i] = f[i - 1]
          BY <1>3, <1>4, <3>2, <4>1
        <4>3. QED
          BY <1>2, <1>3, <4>1, <4>2
      <3>3. QED
        BY <3>1, <3>2
    <2> HIDE DEF g
    <2>3. e = g
      BY <1>2, <2>1, <2>2, SeqEqual
    <2>4. QED
      BY <2>3 DEF g
  <1>9. QED
    BY <1>5, <1>6, <1>7, <1>8 DEF e, f

(* The host function has none. *)
LEMMA EntriesEnd ==
  ASSUME NEW p, NEW s \in Seq(Place)
  PROVE  Entries(p, s, Len(s)) = << >> /\ Entries(p, s, Len(s) + 1) = << >>
  <1>1. Len(s) - Len(s) = 0 /\ Len(s) - (Len(s) + 1) = 0 - 1
    OBVIOUS
  <1>2. 1 .. 0 = {} /\ 1 .. (0 - 1) = {}
    OBVIOUS
  <1>3. \A i \in {} : FALSE
    OBVIOUS
  <1>4. QED
    BY <1>1, <1>2, EmptySeq DEF Entries

-----------------------------------------------------------------------------
(* A run that was interrupted and has not come back *)

(* What an interrupt may have been thrown at: a host function, called by   *)
(* nothing idle.  Places are taken as Location leaves them. *)
Target(s) ==
    /\ Chain(prog, s, Len(s))
    /\ \A j \in 1 .. Len(s) : Location(s[j]) = s[j] /\ s[j].node \notin IdleIn(prog)
    /\ s # << >> /\ prog[s[Len(s)].node].op = "host"

OnWay(n) == \A j \in 1 .. n : Location(calls[j]) = hist.saved[j]

(* A for that is continued tests the flag, which something around it has   *)
(* cleared on the way in. *)
Clear == breakCalled = FALSE \/ prog[1].op \notin ClearsFirst

(* The host has the interrupt, *)
Waiting == status = "suspended" /\ recorded = Entries(prog, hist.saved, 1)

(* or it is on its way out: the calls further in have recorded, *)
Leaves ==
    /\ status = "running" /\ focus.k = "intr"
    /\ Len(calls) <= Len(hist.saved) /\ OnWay(Len(calls))
    /\ recorded = Entries(prog, hist.saved, Len(calls) + 1)

(* or the run is on its way in: it evaluates the term of the next place, *)
Reaches ==
    /\ status = "running" /\ focus.k = "eval"
    /\ Len(calls) < Len(hist.saved) /\ OnWay(Len(calls))
    /\ focus.cont = TRUE /\ focus.node = hist.saved[Len(calls) + 1].node
    /\ queue = Entries(prog, hist.saved, Len(calls) + 1)
    /\ calls # << >> => Clear

(* or has just entered its function. *)
Enters ==
    /\ status = "running" /\ focus.k = "ret" /\ calls # << >>
    /\ Len(calls) <= Len(hist.saved) /\ OnWay(Len(calls) - 1)
    /\ Top = [node |-> hist.saved[Len(calls)].node, pc |-> "enter", pos |-> 0,
               tmp |-> Nil, cont |-> TRUE]
    /\ queue = Entries(prog, hist.saved, Len(calls))
    /\ Len(calls) > 1 => Clear

(* A jump that was on its way when the interrupt was thrown is in no list. *)
NoList == \A j \in 1 .. Len(hist.saved) : prog[hist.saved[j].node].op \notin ListOps

Back ==
    /\ Target(hist.saved)
    /\ jumpTo = Nil \/ NoList
    /\ Waiting \/ Leaves \/ Reaches \/ Enters

(* What a place on the way is: one that a function comes back to *)
LEMMA TargetPlace ==
  ASSUME MarkedScript, NEW s \in Seq(Place), Target(s), NEW m \in Nat \ {0}, m < Len(s)
  PROVE  /\ s[m].node \in 1 .. Len(prog) /\ s[m].pc # "enter"
         /\ s[m].pos \in Nat /\ s[m].tmp \in Value
         /\ s[m + 1].node = Callee(prog, s[m])
         /\ RegularAt(prog[s[m].node].op, Len(prog[s[m].node].args), s[m].pc, s[m].pos, s[m].tmp)
         /\ ParamAt(prog[s[m].node].op, s[m].pc, s[m].pos, s[m].tmp) + 1 \in DOMAIN prog[s[m].node].args
         /\ s[m].pc = "init" => s[m].tmp = Nil
         /\ prog[s[m].node].op \notin {"assign", "getvar", "switch", "host"}
         /\ prog[s[m].node].op = "for" => s[m].pc # "every"
         /\ Location(s[m]) = s[m]
  <1>1. m \in 1 .. Len(s) /\ m \in 1 .. Len(s) - 1 /\ m + 1 \in 1 .. Len(s)
    OBVIOUS
  <1>2. /\ Regular(prog, s[m]) /\ s[m].pc # "enter" /\ s[m + 1].node = Callee(prog, s[m])
        /\ Location(s[m]) = s[m] /\ s[m + 1].node \notin IdleIn(prog)
    BY <1>1 DEF Target, Chain
  <1>3. s[m] \in Place
    BY <1>1, ElementOfSeq
  <1>4. s[m].pos \in Nat /\ s[m].tmp \in Value
    BY <1>3 DEF Place
  <1> DEFINE op == prog[s[m].node].op
             k == ParamAt(op, s[m].pc, s[m].pos, s[m].tmp)
  <1>5. /\ s[m].node \in 1 .. Len(prog) /\ k + 1 \in DOMAIN prog[s[m].node].args
        /\ RegularAt(op, Len(prog[s[m].node].args), s[m].pc, s[m].pos, s[m].tmp)
        /\ s[m].pc = "init" => s[m].tmp = Nil
    BY <1>2 DEF Regular
  <1>6. ~NotResumed(op, k + 1)
    <2>1. Callee(prog, s[m]) = prog[s[m].node].args[k + 1]
      BY DEF Callee
    <2>2. QED
      BY <1>2, <1>5, <2>1, MarkedParams
  <1>7. op \notin {"assign", "getvar"}
    BY <1>6 DEF NotResumed
  <1>8. op = "for" => s[m].pc # "every"
    <2>1. op = "for" /\ s[m].pc = "every" => k = 2
      BY Places
    <2>2. op = "for" => k + 1 # 3
      BY <1>6 DEF NotResumed
    <2>3. QED
      BY <2>1, <2>2
  <1>9. op # "switch"
    BY <1>5, MarkedTerms
  <1>10. op # "host"
    BY <1>5, Different DEF RegularAt
  <1>11. QED
    BY <1>2, <1>4, <1>5, <1>7, <1>8, <1>9, <1>10

(* The function that is left records the entry of its place. *)
LEMMA CatchEntry ==
  ASSUME MarkedScript, NEW s \in Seq(Place), Target(s), NEW m \in Nat \ {0}, m < Len(s),
         Location(Top) = s[m]
  PROVE  Catch = << EntryOf(prog, s[m]) >>
  <1> DEFINE x == s[m]
  <1>1. /\ x.node = Top.node /\ x.pc = Top.pc
        /\ x.pos = IF Op = "for" THEN 0 ELSE Top.pos
        /\ x.tmp = IF Op = "dowhile" THEN Nil ELSE Top.tmp
    BY DEF Location, Op
  <1>2. prog[x.node].op = Op
    BY <1>1 DEF Op
  <1>3. /\ RegularAt(Op, Len(prog[x.node].args), x.pc, x.pos, x.tmp)
        /\ Op \notin {"assign", "getvar", "switch", "host"}
        /\ Op = "for" => x.pc # "every"
    BY <1>2, TargetPlace
  <1> HIDE DEF x
  <1>4. CASE Op \in ListOps
    <2>1. Catch = ListCatch
      BY <1>4, Different DEF Catch
    <2>2. EntryOf(prog, x) = EntryAt(x.pos, Nil)
      BY <1>2, <1>4, Different DEF EntryOf
    <2>3. Op # "for"
      BY <1>4, Different
    <2>4. QED
      BY <1>1, <2>1, <2>2, <2>3 DEF ListCatch, x
  <1>5. CASE Op \in FoldOps
    <2>1. Catch = FoldCatch
      BY <1>5, Different DEF Catch
    <2>2. EntryOf(prog, x) = EntryAt(x.pos, x.tmp)
      BY <1>2, <1>5, Different DEF EntryOf
    <2>3. Op # "for" /\ Op # "dowhile"
      BY <1>5, Different
    <2>4. QED
      BY <1>1, <2>1, <2>2, <2>3 DEF FoldCatch, x
  <1>6. CASE Op \in TwoOperandOps
    <2>1. Catch = OperandsCatch
      BY <1>6, Different DEF Catch
    <2>2. EntryOf(prog, x) = IF x.pc \in {"cond", "left"} THEN NoEntry ELSE EntryAt(1, x.tmp)
      BY <1>2, <1>6, Different DEF EntryOf
    <2>3. (x.pc = "left" \/ x.pc = "right") /\ Op # "dowhile"
      BY <1>3, <1>6, Different DEF RegularAt
    <2>4. QED
      BY <1>1, <2>1, <2>2, <2>3 DEF OperandsCatch, x
  <1>7. CASE Op = "dowhile"
    <2>1. Catch = DoWhileCatch
      BY <1>7, Different DEF Catch
    <2>2. EntryOf(prog, x) = EntryAt(IF x.pc = "body" THEN 0 ELSE 1, Nil)
      BY <1>2, <1>7, Different DEF EntryOf
    <2>3. QED
      BY <1>1, <2>1, <2>2 DEF DoWhileCatch, x
  <1>8. CASE Op = "for"
    <2>1. Catch = ForCatch
      BY <1>8, Different DEF Catch
    <2>2. EntryOf(prog, x) = IF x.pc = "init" THEN NoEntry
                             ELSE EntryAt(IF x.pc = "cond" THEN 1 ELSE 2, x.tmp)
      BY <1>2, <1>8, Different DEF EntryOf
    <2>3. x.pc \in {"init", "cond", "body"}
      BY <1>3, <1>8, Different DEF RegularAt
    <2>4. QED
      BY <1>1, <1>8, <2>1, <2>2, <2>3 DEF ForCatch, x
  <1>9. CASE Op = "if" \/ Op = "while"
    <2>1. Catch = IfCatch \/ Catch = WhileCatch
      BY <1>9, Different DEF Catch
    <2>2. EntryOf(prog, x) = IF x.pc \in {"cond", "left"} THEN NoEntry ELSE EntryAt(1, x.tmp)
      BY <1>2, <1>9, Different DEF EntryOf
    <2>3. x.pc = "cond" \/ x.pc = "body"
      BY <1>3, <1>9, Different DEF RegularAt
    <2>4. QED
      BY <1>1, <1>9, <2>1, <2>2, <2>3 DEF IfCatch, WhileCatch, x
  <1>10. CASE Op = "return"
    <2>1. Catch = ReturnCatch
      BY <1>10, Different DEF Catch
    <2>2. EntryOf(prog, x) = NoEntry
      BY <1>2, <1>10, Different DEF EntryOf
    <2>3. QED
      BY <2>1, <2>2 DEF ReturnCatch, x
  <1>11. Op \in ListOps \cup FoldOps \cup TwoOperandOps
                \cup {"dowhile", "for", "if", "while", "return"}
    BY <1>3 DEF RegularAt
  <1>12. QED
    BY <1>4, <1>5, <1>6, <1>7, <1>8, <1>9, <1>10, <1>11 DEF x

(* A host function records none. *)
LEMMA CatchNone ==
  ASSUME Op = "host"
  PROVE  Catch = << >>
  BY Different DEF Catch

-----------------------------------------------------------------------------
(* A function that is continued goes back to its place *)

(* What it finds when it is entered on the way in *)
Continued(x) ==
    /\ Running /\ Top.pc = "enter" /\ x.node = Top.node
    /\ x.pos \in Nat /\ x.tmp \in Value
    /\ RegularAt(Op, Len(Args), x.pc, x.pos, x.tmp)
    /\ ParamAt(Op, x.pc, x.pos, x.tmp) < Len(Args)
    /\ x.pc = "init" => x.tmp = Nil
    /\ Pulled = EntryOf(prog, x) /\ (PullEntry => queue' = Tail(queue))
    /\ Op = "for" => x.pc # "every" /\ breakCalled = FALSE
    /\ Op \in ListOps => jumpTo = Nil

(* ... and what it does with it *)
ResumesAt(x) ==
    /\ \E pos \in Nat, tmp \in Value :
          /\ EvalArg(ParamAt(Op, x.pc, x.pos, x.tmp), x.pc, pos, tmp)
          /\ Op = "for" \/ pos = x.pos
          /\ Op = "dowhile" \/ tmp = x.tmp
    /\ queue' = Tail(queue)
    /\ Op \in ClearsFirst => breakCalled' = FALSE

(* What the entry is, function by function *)
LEMMA PulledPlace ==
  ASSUME NEW x, Continued(x)
  PROVE  /\ Op \in ListOps => Pulled = EntryAt(x.pos, Nil)
         /\ Op \in FoldOps => Pulled = EntryAt(x.pos, x.tmp)
         /\ Op = "dowhile" => Pulled = EntryAt(IF x.pc = "body" THEN 0 ELSE 1, Nil)
         /\ Op = "for" => Pulled = IF x.pc = "init" THEN NoEntry
                                   ELSE EntryAt(IF x.pc = "cond" THEN 1 ELSE 2, x.tmp)
         /\ Op \in {"if", "while", "setvar", "binary"} =>
               Pulled = IF x.pc \in {"cond", "left"} THEN NoEntry ELSE EntryAt(1, x.tmp)
         /\ NoEntry.pos = 0 /\ NoEntry.tmp = Nil
         /\ \A p, t : EntryAt(p, t).pos = p /\ EntryAt(p, t).tmp = t
  <1>1. Pulled = EntryOf(prog, x) /\ prog[x.node].op = Op
    BY DEF Continued, Op
  <1>2. Op \in ListOps => EntryOf(prog, x) = EntryAt(x.pos, Nil)
    BY <1>1, Different DEF EntryOf
  <1>3. Op \in FoldOps => EntryOf(prog, x) = EntryAt(x.pos, x.tmp)
    BY <1>1, Different DEF EntryOf
  <1>4. Op = "dowhile" => EntryOf(prog, x) = EntryAt(IF x.pc = "body" THEN 0 ELSE 1, Nil)
    BY <1>1, Different DEF EntryOf
  <1>5. Op = "for" => EntryOf(prog, x) = IF x.pc = "init" THEN NoEntry
                                         ELSE EntryAt(IF x.pc = "cond" THEN 1 ELSE 2, x.tmp)
    BY <1>1, Different DEF EntryOf
  <1>6. Op \in {"if", "while", "setvar", "binary"} =>
           EntryOf(prog, x) = IF x.pc \in {"cond", "left"} THEN NoEntry ELSE EntryAt(1, x.tmp)
    BY <1>1, Different DEF EntryOf
  <1>7. NoEntry.pos = 0 /\ NoEntry.tmp = Nil
        /\ \A p, t : EntryAt(p, t).pos = p /\ EntryAt(p, t).tmp = t
    BY DEF NoEntry, EntryAt
  <1>8. QED
    BY <1>1, <1>2, <1>3, <1>4, <1>5, <1>6, <1>7

(* UMFunction_list and UMFunction_block: at the statement *)
LEMMA ListResumes ==
  ASSUME CoreInv, NEW x, Continued(x), NEW op \in ListOps, ListEnter(op)
  PROVE  ResumesAt(x)
  <1>1. At(op, "enter") /\ PullEntry
    BY DEF ListEnter
  <1>2. Op \in ListOps /\ Len(Args) \in Nat
    BY <1>1, AtFacts, TopFacts DEF Continued, Running
  <1>3. /\ jumpTo = Nil /\ x.pos \in Nat /\ x.tmp \in Value /\ queue' = Tail(queue)
        /\ RegularAt(Op, Len(Args), x.pc, x.pos, x.tmp)
        /\ ParamAt(Op, x.pc, x.pos, x.tmp) < Len(Args)
    BY <1>1, <1>2 DEF Continued
  <1>4. x.pc = "stmt" /\ x.tmp = Nil
    BY <1>2, <1>3, Different DEF RegularAt
  <1>5. ParamAt(Op, x.pc, x.pos, x.tmp) = x.pos
    BY <1>2, Different DEF ParamAt
  <1>6. Pulled.pos = x.pos
    BY <1>2, PulledPlace
  <1>7. ListLoop(x.pos, Nil)
    BY <1>3, <1>6 DEF ListEnter
  <1>8. EvalArg(x.pos, "stmt", x.pos, Nil) /\ breakCalled' = FALSE
    <2>1. ~(x.pos >= Len(Args))
      BY <1>2, <1>3, <1>5
    <2>2. QED
      BY <1>7, <2>1 DEF ListLoop
  <1>9. QED
    BY <1>3, <1>4, <1>5, <1>8 DEF ResumesAt

(* UMFunction_if: in the condition or in the branch *)
LEMMA IfResumes ==
  ASSUME CoreInv, NEW x, Continued(x), IfEnter
  PROVE  ResumesAt(x)
  <1>1. At("if", "enter")
    BY DEF IfEnter
  <1>2. Op = "if" /\ Len(Args) \in Nat
    BY <1>1, AtFacts, TopFacts DEF Continued, Running
  <1>3. /\ x.pos \in Nat /\ x.tmp \in Value
        /\ RegularAt(Op, Len(Args), x.pc, x.pos, x.tmp)
        /\ ParamAt(Op, x.pc, x.pos, x.tmp) < Len(Args)
        /\ PullEntry => queue' = Tail(queue)
    BY DEF Continued
  <1>4. /\ Len(Args) >= 2 /\ x.pos = 0
        /\ \/ x.pc = "cond" /\ x.tmp = Nil
           \/ x.pc = "body" /\ (x.tmp \in Truthy \/ Len(Args) = 3)
    BY <1>2, <1>3, Different DEF RegularAt
  <1>5. queue' = Tail(queue)
        /\ (IF Pulled.pos = 0 THEN EvalArg(0, "cond", 0, Nil) ELSE IfBranch(Pulled.tmp))
    BY <1>2, <1>3, <1>4 DEF IfEnter
  <1>6. Op \notin ClearsFirst /\ Op # "for" /\ Op # "dowhile"
    BY <1>2, Different DEF ClearsFirst
  <1>7. Pulled = IF x.pc \in {"cond", "left"} THEN NoEntry ELSE EntryAt(1, x.tmp)
    BY <1>2, PulledPlace
  <1>8. EvalArg(ParamAt(Op, x.pc, x.pos, x.tmp), x.pc, x.pos, x.tmp)
    <2>1. CASE x.pc = "cond"
      <3>1. Pulled.pos = 0
        BY <1>7, <2>1, PulledPlace
      <3>2. ParamAt(Op, x.pc, x.pos, x.tmp) = 0
        BY <1>2, <2>1, Different DEF ParamAt
      <3>3. QED
        BY <1>4, <1>5, <2>1, <3>1, <3>2
    <2>2. CASE x.pc = "body"
      <3>1. Pulled.pos = 1 /\ Pulled.tmp = x.tmp
        BY <1>7, <2>2, PulledPlace
      <3>2. IfBranch(x.tmp)
        BY <1>5, <3>1
      <3>3. ParamAt(Op, x.pc, x.pos, x.tmp) = IF x.tmp \in Truthy THEN 1 ELSE 2
        BY <1>2, <2>2, Different DEF ParamAt
      <3>4. QED
        BY <1>4, <2>2, <3>2, <3>3 DEF IfBranch
    <2>3. QED
      BY <1>4, <2>1, <2>2
  <1>9. QED
    BY <1>3, <1>5, <1>6, <1>8 DEF ResumesAt

(* UMFunction_while: in the condition or in the block *)
LEMMA WhileResumes ==
  ASSUME CoreInv, NEW x, Continued(x), WhileEnter
  PROVE  ResumesAt(x)
  <1>1. At("while", "enter")
    BY DEF WhileEnter
  <1>2. Op = "while" /\ Len(Args) \in Nat
    BY <1>1, AtFacts, TopFacts DEF Continued, Running
  <1>3. /\ x.pos \in Nat /\ x.tmp \in Value
        /\ RegularAt(Op, Len(Args), x.pc, x.pos, x.tmp)
        /\ PullEntry => queue' = Tail(queue)
    BY DEF Continued
  <1>4. /\ Len(Args) = 2 /\ x.pos = 0
        /\ \/ x.pc = "cond" /\ x.tmp = Nil
           \/ x.pc = "body" /\ x.tmp \in Truthy
    BY <1>2, <1>3, Different DEF RegularAt
  <1>5. /\ queue' = Tail(queue)
        /\ IF Pulled.pos = 0 THEN EvalArg(0, "cond", 0, Nil) /\ breakCalled' = FALSE
           ELSE WhileTest(Pulled.tmp)
    BY <1>2, <1>3, <1>4 DEF WhileEnter
  <1>7. Pulled = IF x.pc \in {"cond", "left"} THEN NoEntry ELSE EntryAt(1, x.tmp)
    BY <1>2, PulledPlace
  <1>8. EvalArg(ParamAt(Op, x.pc, x.pos, x.tmp), x.pc, x.pos, x.tmp) /\ breakCalled' = FALSE
    <2>1. CASE x.pc = "cond"
      <3>1. Pulled.pos = 0
        BY <1>7, <2>1, PulledPlace
      <3>2. ParamAt(Op, x.pc, x.pos, x.tmp) = 0
        BY <1>2, <2>1, Places
      <3>3. QED
        BY <1>4, <1>5, <2>1, <3>1, <3>2
    <2>2. CASE x.pc = "body"
      <3>1. Pulled.pos = 1 /\ Pulled.tmp = x.tmp
        BY <1>7, <2>2, PulledPlace
      <3>2. WhileTest(x.tmp)
        BY <1>5, <3>1
      <3>3. ParamAt(Op, x.pc, x.pos, x.tmp) = 1
        BY <1>2, <2>2, Places
      <3>4. QED
        BY <1>4, <2>2, <3>2, <3>3 DEF WhileTest
    <2>3. QED
      BY <1>4, <2>1, <2>2
  <1>9. QED
    BY <1>3, <1>5, <1>8 DEF ResumesAt

(* UMFunction_dowhile: in the block or in the condition *)
LEMMA DoWhileResumes ==
  ASSUME CoreInv, NEW x, Continued(x), DoWhileEnter
  PROVE  ResumesAt(x)
  <1>1. At("dowhile", "enter")
    BY DEF DoWhileEnter
  <1>2. Op = "dowhile" /\ Len(Args) \in Nat
    BY <1>1, AtFacts, TopFacts DEF Continued, Running
  <1>3. /\ x.pos \in Nat /\ x.tmp \in Value
        /\ RegularAt(Op, Len(Args), x.pc, x.pos, x.tmp)
        /\ PullEntry => queue' = Tail(queue)
    BY DEF Continued
  <1>4. Len(Args) = 2 /\ x.pos = 0 /\ x.pc \in {"body", "cond"}
    BY <1>2, <1>3, Different DEF RegularAt
  <1>5. /\ queue' = Tail(queue) /\ breakCalled' = FALSE
        /\ IF Pulled.pos = 0 THEN EvalArg(0, "body", 0, Nil) ELSE EvalArg(1, "cond", 0, Nil)
    BY <1>2, <1>3, <1>4 DEF DoWhileEnter
  <1>7. Pulled.pos = IF x.pc = "body" THEN 0 ELSE 1
    BY <1>2, PulledPlace
  <1>8. EvalArg(ParamAt(Op, x.pc, x.pos, x.tmp), x.pc, x.pos, Nil)
    <2>1. CASE x.pc = "body"
      <3>1. ParamAt(Op, x.pc, x.pos, x.tmp) = 0
        BY <1>2, <2>1, Places
      <3>2. QED
        BY <1>4, <1>5, <1>7, <2>1, <3>1
    <2>2. CASE x.pc = "cond"
      <3>1. ParamAt(Op, x.pc, x.pos, x.tmp) = 1
        BY <1>2, <2>2, Places
      <3>2. QED
        BY <1>4, <1>5, <1>7, <2>2, <3>1
    <2>3. QED
      BY <1>4, <2>1, <2>2
  <1>9. QED
    BY <1>2, <1>3, <1>5, <1>8, ValueAssumption DEF ResumesAt

(* UMFunction_for: in the start, in the condition or in the block *)
LEMMA ForResumes ==
  ASSUME CoreInv, NEW x, Continued(x), ForEnter
  PROVE  ResumesAt(x)
  <1>1. At("for", "enter")
    BY DEF ForEnter
  <1>2. Op = "for" /\ Len(Args) \in Nat
    BY <1>1, AtFacts, TopFacts DEF Continued, Running
  <1>3. /\ x.pos \in Nat /\ x.tmp \in Value
        /\ RegularAt(Op, Len(Args), x.pc, x.pos, x.tmp)
        /\ PullEntry => queue' = Tail(queue)
        /\ x.pc = "init" => x.tmp = Nil
        /\ x.pc # "every" /\ breakCalled = FALSE
    BY <1>2 DEF Continued
  <1>4. Len(Args) = 4 /\ x.pc \in {"init", "cond", "body"} /\ (x.pc = "body" => x.tmp \in Truthy)
    BY <1>2, <1>3, Different DEF RegularAt
  <1>5. /\ queue' = Tail(queue)
        /\ IF Pulled.pos = 0 THEN EvalArg(0, "init", 0, Pulled.tmp)
           ELSE ForLoop(Pulled.pos, Pulled.tmp)
    BY <1>2, <1>3, <1>4 DEF ForEnter
  <1>6. Op \notin ClearsFirst /\ Op # "dowhile"
    BY <1>2, Different DEF ClearsFirst
  <1>7. Pulled = IF x.pc = "init" THEN NoEntry ELSE EntryAt(IF x.pc = "cond" THEN 1 ELSE 2, x.tmp)
    BY <1>2, PulledPlace
  <1>8. \E pos \in Nat : EvalArg(ParamAt(Op, x.pc, x.pos, x.tmp), x.pc, pos, x.tmp)
    <2>1. CASE x.pc = "init"
      <3>1. Pulled.pos = 0 /\ Pulled.tmp = x.tmp
        BY <1>3, <1>7, <2>1, PulledPlace
      <3>2. ParamAt(Op, x.pc, x.pos, x.tmp) = 0
        BY <1>2, <2>1, Places
      <3>3. QED
        BY <1>5, <2>1, <3>1, <3>2
    <2>2. CASE x.pc = "cond"
      <3>1. Pulled.pos = 1 /\ Pulled.tmp = x.tmp
        BY <1>7, <2>2, PulledPlace
      <3>2. ForLoop(1, x.tmp)
        BY <1>5, <3>1
      <3>3. ParamAt(Op, x.pc, x.pos, x.tmp) = 1
        BY <1>2, <2>2, Places
      <3>4. QED
        BY <2>2, <3>2, <3>3 DEF ForLoop
    <2>3. CASE x.pc = "body"
      <3>1. Pulled.pos = 2 /\ Pulled.tmp = x.tmp
        BY <1>7, <2>3, PulledPlace
      <3>2. ForLoop(2, x.tmp)
        BY <1>5, <3>1
      <3>3. ParamAt(Op, x.pc, x.pos, x.tmp) = 3
        BY <1>2, <2>3, Places
      <3>4. QED
        BY <1>3, <1>4, <2>3, <3>2, <3>3 DEF ForLoop, ForTest
    <2>4. QED
      BY <1>4, <2>1, <2>2, <2>3
  <1>9. QED
    BY <1>2, <1>3, <1>5, <1>6, <1>8 DEF ResumesAt

(* UMFunction_return: in its value *)
LEMMA ReturnResumes ==
  ASSUME CoreInv, NEW x, Continued(x), ReturnEnter
  PROVE  ResumesAt(x)
  <1>1. At("return", "enter")
    BY DEF ReturnEnter
  <1>2. Op = "return"
    BY <1>1, AtFacts
  <1>3. /\ x.pos \in Nat /\ x.tmp \in Value
        /\ RegularAt(Op, Len(Args), x.pc, x.pos, x.tmp)
        /\ PullEntry => queue' = Tail(queue)
    BY DEF Continued
  <1>4. Len(Args) = 1 /\ x.pos = 0 /\ x.tmp = Nil /\ x.pc = "body"
    BY <1>2, <1>3, Different DEF RegularAt
  <1>5. queue' = Tail(queue) /\ EvalArg(0, "body", 0, Nil)
    BY <1>2, <1>3, <1>4 DEF ReturnEnter
  <1>6. Op \notin ClearsFirst
    BY <1>2, Different DEF ClearsFirst
  <1>8. ParamAt(Op, x.pc, x.pos, x.tmp) = 0
    BY <1>2, <1>4, Places
  <1>9. QED
    BY <1>3, <1>4, <1>5, <1>6, <1>8 DEF ResumesAt

(* The functions of two operands: in the left or in the right one *)
LEMMA OperandsResume ==
  ASSUME CoreInv, NEW x, Continued(x), NEW op \in TwoOperandOps, OperandsEnter(op)
  PROVE  ResumesAt(x)
  <1>1. At(op, "enter")
    BY DEF OperandsEnter
  <1>2. Op \in TwoOperandOps /\ Op \in {"setvar", "binary"}
    BY <1>1, AtFacts, Different
  <1>3. /\ x.pos \in Nat /\ x.tmp \in Value
        /\ RegularAt(Op, Len(Args), x.pc, x.pos, x.tmp)
        /\ PullEntry => queue' = Tail(queue)
    BY DEF Continued
  <1>4. /\ Len(Args) = 2 /\ x.pos = 0
        /\ x.pc = "right" \/ (x.pc = "left" /\ x.tmp = Nil)
    BY <1>2, <1>3, Different DEF RegularAt
  <1>5. /\ queue' = Tail(queue)
        /\ IF Pulled.pos = 0 THEN EvalArg(0, "left", 0, Nil)
           ELSE EvalArg(1, "right", 0, Pulled.tmp)
    BY <1>2, <1>3, <1>4 DEF OperandsEnter
  <1>6. Op \notin ClearsFirst
    BY <1>2, Different DEF ClearsFirst
  <1>7. Pulled = IF x.pc \in {"cond", "left"} THEN NoEntry ELSE EntryAt(1, x.tmp)
    BY <1>2, PulledPlace
  <1>8. EvalArg(ParamAt(Op, x.pc, x.pos, x.tmp), x.pc, x.pos, x.tmp)
    <2>1. CASE x.pc = "left"
      <3>1. Pulled.pos = 0
        BY <1>7, <2>1, PulledPlace
      <3>2. ParamAt(Op, x.pc, x.pos, x.tmp) = 0
        BY <1>2, <2>1, Different DEF ParamAt
      <3>3. QED
        BY <1>4, <1>5, <2>1, <3>1, <3>2
    <2>2. CASE x.pc = "right"
      <3>1. Pulled.pos = 1 /\ Pulled.tmp = x.tmp
        BY <1>7, <2>2, PulledPlace
      <3>2. ParamAt(Op, x.pc, x.pos, x.tmp) = 1
        BY <1>2, <2>2, Different DEF ParamAt
      <3>3. QED
        BY <1>4, <1>5, <2>2, <3>1, <3>2
    <2>3. QED
      BY <1>4, <2>1, <2>2
  <1>9. QED
    BY <1>3, <1>5, <1>6, <1>8 DEF ResumesAt

(* UMFunction_add and UMFunction_and: at the parameter, with the partial   *)
(* result *)
LEMMA FoldResumes ==
  ASSUME CoreInv, NEW x, Continued(x), NEW op \in FoldOps, FoldEnter(op)
  PROVE  ResumesAt(x)
  <1>1. At(op, "enter")
    BY DEF FoldEnter
  <1>2. Op = op /\ Op \in FoldOps /\ Len(Args) \in Nat
    BY <1>1, AtFacts, TopFacts DEF Continued, Running
  <1>3. /\ x.pos \in Nat /\ x.tmp \in Value
        /\ RegularAt(Op, Len(Args), x.pc, x.pos, x.tmp)
        /\ ParamAt(Op, x.pc, x.pos, x.tmp) < Len(Args)
        /\ PullEntry => queue' = Tail(queue)
    BY DEF Continued
  <1>4. x.pc = "stmt" /\ (Op = "and" => Len(Args) >= 2)
    BY <1>2, <1>3, Different DEF RegularAt
  <1>5. queue' = Tail(queue) /\ FoldLoop(Pulled.pos, Pulled.tmp)
    <2>1. ~(op = "and" /\ Len(Args) < 2)
      BY <1>2, <1>4
    <2>2. QED
      BY <1>3, <2>1 DEF FoldEnter
  <1>6. Op \notin ClearsFirst
    BY <1>2, Different DEF ClearsFirst
  <1>7. Pulled.pos = x.pos /\ Pulled.tmp = x.tmp
    BY <1>2, PulledPlace
  <1>8. ParamAt(Op, x.pc, x.pos, x.tmp) = x.pos
    BY <1>2, Different DEF ParamAt
  <1>10. EvalArg(x.pos, "stmt", x.pos, x.tmp)
    <2>1. ~(x.pos >= Len(Args))
      BY <1>2, <1>3, <1>8
    <2>2. QED
      BY <1>5, <1>7, <2>1 DEF FoldLoop
  <1>9. QED
    BY <1>3, <1>4, <1>5, <1>6, <1>8, <1>10 DEF ResumesAt

(* A function that has just been entered does nothing else. *)
LEMMA Entering ==
  ASSUME Evaluate, Running, Top.pc = "enter"
  PROVE  \/ \E op \in ListOps : ListEnter(op)
         \/ IfEnter \/ WhileEnter \/ DoWhileEnter \/ ForEnter \/ SwitchEnter
         \/ ReturnEnter \/ Break \/ Goto \/ AssignEnter
         \/ \E op \in TwoOperandOps : OperandsEnter(op)
         \/ \E op \in FoldOps : FoldEnter(op)
         \/ GetVariableEnter \/ Increase \/ UserFunction
         \/ HostAnswers \/ HostInterrupts \/ HostRaises
  <1>1. ~EvalLeaf /\ ~EvalFunctionCall /\ ~Unwind /\ ~FinishRun /\ ~SuspendRun
    BY DEF EvalLeaf, EvalFunctionCall, Unwind, FinishRun, SuspendRun, Running
  <1>2. \A op, pc : pc # "enter" => ~At(op, pc)
    BY DEF At
  <1>3. (\A op \in ListOps : ~ListNext(op)) /\ ~IfCondition /\ ~IfReturn
    BY <1>2 DEF ListNext, IfCondition, IfReturn
  <1>4. ~WhileCondition /\ ~WhileBody /\ ~DoWhileBody /\ ~DoWhileCondition
    BY <1>2 DEF WhileCondition, WhileBody, DoWhileBody, DoWhileCondition
  <1>5. ~ForInit /\ ~ForCondition /\ ~ForBody /\ ~ForNext
    BY <1>2 DEF ForInit, ForCondition, ForBody, ForNext
  <1>6. ~SwitchCondition /\ ~SwitchReturn /\ ~ReturnValue /\ ~AssignValue
    BY <1>2 DEF SwitchCondition, SwitchReturn, ReturnValue, AssignValue
  <1>7. (\A op \in TwoOperandOps : ~OperandsLeft(op)) /\ ~SetVariable /\ ~Compare
    BY <1>2 DEF OperandsLeft, SetVariable, Compare
  <1>8. (\A op \in FoldOps : ~FoldNext(op)) /\ ~GetVariable
    BY <1>2 DEF FoldNext, GetVariable
  <1>9. QED
    BY <1>1, <1>3, <1>4, <1>5, <1>6, <1>7, <1>8, Zenon DEF Evaluate

(* Whatever function is continued, it goes back to its place. *)
LEMMA FunctionResumes ==
  ASSUME IInv, Evaluate, NEW x, Continued(x),
         Op \notin {"assign", "getvar", "switch", "host"}
  PROVE  FunctionStep /\ ResumesAt(x)
  <1>1. CoreInv /\ Running /\ Top.pc = "enter" /\ RegularAt(Op, Len(Args), x.pc, x.pos, x.tmp)
    BY DEF IInv, Continued
  <1>2. Op \notin {"break", "goto", "increase", "user"}
    BY <1>1, Different DEF RegularAt
  <1>3. \A op, pc : At(op, pc) => Op = op
    BY DEF At
  <1>4. ~SwitchEnter /\ ~AssignEnter /\ ~GetVariableEnter
    BY <1>3 DEF SwitchEnter, AssignEnter, GetVariableEnter
  <1>5. ~HostAnswers /\ ~HostInterrupts /\ ~HostRaises
    BY <1>3 DEF HostAnswers, HostInterrupts, HostRaises
  <1>6. ~Break /\ ~Goto /\ ~Increase /\ ~UserFunction
    BY <1>2, <1>3 DEF Break, Goto, Increase, UserFunction
  <1>7. CASE \E op \in ListOps : ListEnter(op)
    BY <1>1, <1>7, ListMoves, ListResumes
  <1>8. CASE IfEnter
    BY <1>1, <1>8, IfMoves, IfResumes
  <1>9. CASE WhileEnter
    BY <1>1, <1>9, WhileMoves, WhileResumes
  <1>10. CASE DoWhileEnter
    BY <1>1, <1>10, DoWhileMoves, DoWhileResumes
  <1>11. CASE ForEnter
    BY <1>1, <1>11, ForMoves, ForResumes
  <1>12. CASE ReturnEnter
    BY <1>1, <1>12, ReturnEnterMoves, ReturnResumes
  <1>13. CASE \E op \in TwoOperandOps : OperandsEnter(op)
    BY <1>1, <1>13, OperandMoves, OperandsResume
  <1>14. CASE \E op \in FoldOps : FoldEnter(op)
    BY <1>1, <1>14, FoldMoves, FoldResumes
  <1>15. QED
    BY <1>1, <1>4, <1>5, <1>6, <1>7, <1>8, <1>9, <1>10, <1>11, <1>12, <1>13, <1>14, Entering

-----------------------------------------------------------------------------
(* On the way in *)

(* A function that has been entered finds its entry. *)
LEMMA EntersContinued ==
  ASSUME IInv, MarkedScript, QueueAllocated = TRUE, Target(hist.saved),
         jumpTo = Nil \/ NoList, Enters, Len(calls) < Len(hist.saved)
  PROVE  /\ Continued(hist.saved[Len(calls)])
         /\ Op \notin {"assign", "getvar", "switch", "host"}
         /\ Head(queue) = EntryOf(prog, hist.saved[Len(calls)])
         /\ Tail(queue) = Entries(prog, hist.saved, Len(calls) + 1)
  <1>1. CoreInv /\ DataInv /\ hist.saved \in Seq(Place)
    BY SavedFields DEF IInv
  <1>2. PICK m \in Nat \ {0} : m = Len(calls)
    BY <1>1, TopFacts DEF Enters
  <1> DEFINE x == hist.saved[m]
  <1>3. m < Len(hist.saved) /\ m \in 1 .. Len(hist.saved)
    BY <1>1, <1>2
  <1>4. Top.pc = "enter" /\ Top.node = x.node /\ Top.cont = TRUE /\ Running
    BY <1>2 DEF Enters, Running
  <1>5. Op = prog[x.node].op /\ Args = prog[x.node].args
    BY <1>4 DEF Op, Args
  <1>6. /\ x.node \in 1 .. Len(prog) /\ x.pos \in Nat /\ x.tmp \in Value
        /\ RegularAt(Op, Len(Args), x.pc, x.pos, x.tmp)
        /\ ParamAt(Op, x.pc, x.pos, x.tmp) + 1 \in DOMAIN Args
        /\ x.pc = "init" => x.tmp = Nil
        /\ Op \notin {"assign", "getvar", "switch", "host"}
        /\ Op = "for" => x.pc # "every"
    BY <1>1, <1>3, <1>5, TargetPlace
  <1>7. /\ queue # << >> /\ Head(queue) = EntryOf(prog, x)
        /\ Tail(queue) = Entries(prog, hist.saved, m + 1)
    BY <1>1, <1>2, <1>3, EntriesFacts DEF Enters
  <1>8. Pulled = EntryOf(prog, x) /\ (PullEntry => queue' = Tail(queue))
    BY <1>4, <1>7 DEF Pulled, PullEntry
  <1>9. ParamAt(Op, x.pc, x.pos, x.tmp) < Len(Args)
    <2>1. ParamAt(Op, x.pc, x.pos, x.tmp) \in Nat
      BY <1>6 DEF ParamAt
    <2>2. Args \in Seq(1 .. Len(prog))
      BY <1>1, <1>4, TopFacts DEF Running
    <2>3. QED
      BY <1>6, <2>1, <2>2
  <1>10. Op = "for" => breakCalled = FALSE
    <2>1. SUFFICES ASSUME Op = "for" PROVE breakCalled = FALSE
      OBVIOUS
    <2>2. prog[1].op \in ClearsFirst
      BY <1>5, <1>6, <2>1, MarkedTerms
    <2>3. m # 1
      <3>1. hist.saved[1].node = 1
        BY <1>3 DEF Target, Chain
      <3>2. "for" \notin ClearsFirst
        BY Different DEF ClearsFirst
      <3>3. QED
        BY <1>5, <2>1, <2>2, <3>1, <3>2
    <2>4. Clear
      BY <1>2, <2>3 DEF Enters
    <2>5. QED
      BY <2>2, <2>4 DEF Clear
  <1>11. Op \in ListOps => jumpTo = Nil
    BY <1>3, <1>5 DEF NoList
  <1>12. Continued(x)
    BY <1>4, <1>6, <1>8, <1>9, <1>10, <1>11 DEF Continued
  <1>13. QED
    BY <1>2, <1>6, <1>7, <1>12

(* It evaluates the term of the next place. *)
LEMMA EntersFunction ==
  ASSUME IInv, MarkedScript, QueueAllocated = TRUE, Target(hist.saved),
         jumpTo = Nil \/ NoList, Enters, Len(calls) < Len(hist.saved), Evaluate
  PROVE  /\ FunctionStep /\ Reaches'
         /\ prog' = prog /\ hist' = hist /\ jumpTo' \in {jumpTo, Nil}
  <1>1. CoreInv /\ DataInv /\ hist.saved \in Seq(Place) /\ calls # << >>
    BY SavedFields DEF IInv, Enters
  <1>2. PICK m \in Nat \ {0} : m = Len(calls)
    BY <1>1, TopFacts
  <1> DEFINE x == hist.saved[m]
  <1>3. m < Len(hist.saved) /\ m \in 1 .. Len(hist.saved)
    BY <1>1, <1>2
  <1>4. Continued(x) /\ Op \notin {"assign", "getvar", "switch", "host"}
        /\ Tail(queue) = Entries(prog, hist.saved, m + 1)
    BY <1>2, EntersContinued
  <1>5. FunctionStep /\ ResumesAt(x)
    BY <1>4, FunctionResumes
  <1>6. Running /\ Keeps /\ prog' = prog /\ hist' = hist
    BY <1>5 DEF FunctionStep, Keeps
  <1>7. Top.node = x.node /\ Top.cont = TRUE /\ status = "running" /\ OnWay(m - 1)
    BY <1>2 DEF Enters
  <1>8. Op = prog[x.node].op /\ Args = prog[x.node].args
    BY <1>7 DEF Op, Args
  <1>9. x.pc # "enter" /\ x \in Place /\ Location(x) = x
        /\ hist.saved[m + 1].node = Callee(prog, x)
        /\ RegularAt(Op, Len(Args), x.pc, x.pos, x.tmp)
    <2>1. x \in Place
      BY <1>1, <1>3, ElementOfSeq
    <2>2. QED
      BY <1>1, <1>3, <1>8, <2>1, TargetPlace
  <1>10. jumpTo' \in {jumpTo, Nil}
    <2>1. Op # "goto" /\ Op # "switch"
      BY <1>4, <1>9, Different DEF RegularAt
    <2>2. QED
      BY <1>6, <2>1 DEF Keeps
  <1> DEFINE k == ParamAt(Op, x.pc, x.pos, x.tmp)
  <1>11. PICK pos \in Nat, tmp \in Value :
            /\ EvalArg(k, x.pc, pos, tmp)
            /\ Op = "for" \/ pos = x.pos
            /\ Op = "dowhile" \/ tmp = x.tmp
    BY <1>5 DEF ResumesAt
  <1>12. x.pc \in Pcs \ {"enter"}
    BY <1>9 DEF Place
  <1>13. /\ Continues(x.pc, pos, tmp) /\ focus' = Eval(Args[k + 1], TRUE)
         /\ status' = status
    BY <1>7, <1>11 DEF EvalArg, EvalArgFrom, runVars
  <1>14. /\ Same
         /\ calls'[m] = [node |-> x.node, pc |-> x.pc, pos |-> pos, tmp |-> tmp, cont |-> TRUE]
    <2>1. PICK pc \in Pcs \ {"enter"} : pc = x.pc
      BY <1>12
    <2>2. Continues(pc, pos, tmp)
      BY <1>13, <2>1
    <2>3. Same /\ calls'[Len(calls)] = [node |-> Top.node, pc |-> pc, pos |-> pos, tmp |-> tmp,
                                        cont |-> Top.cont]
      BY <1>1, <1>6, <2>2, TopAfter
    <2>4. QED
      BY <1>2, <1>7, <2>1, <2>3
  <1>15. Location(calls'[m]) = x
    <2>1. Location(calls'[m]) = [node |-> x.node, pc |-> x.pc,
                                 pos |-> IF Op = "for" THEN 0 ELSE pos,
                                 tmp |-> IF Op = "dowhile" THEN Nil ELSE tmp]
      BY <1>8, <1>14 DEF Location
    <2>2. Location(x) = [node |-> x.node, pc |-> x.pc,
                         pos |-> IF Op = "for" THEN 0 ELSE x.pos,
                         tmp |-> IF Op = "dowhile" THEN Nil ELSE x.tmp]
      BY <1>8 DEF Location
    <2>3. Location(calls'[m]) = Location(x)
      BY <1>11, <2>1, <2>2
    <2>4. QED
      BY <1>9, <2>3
  <1>16. Len(calls') = m /\ OnWay(m)'
    <2>1. Len(calls') = m /\ \A j \in 1 .. m : j < m => calls'[j] = calls[j]
      BY <1>2, <1>14 DEF Same
    <2>2. ASSUME NEW j \in 1 .. m PROVE Location(calls[j])' = hist.saved[j]
      <3>1. Location(calls[j])' = Location(calls'[j])
        BY <1>6 DEF Location
      <3>2. CASE j = m
        BY <1>15, <3>1, <3>2
      <3>3. CASE j # m
        <4>1. j \in 1 .. m - 1 /\ j < m
          BY <3>3
        <4>2. QED
          BY <1>7, <2>1, <3>1, <4>1 DEF OnWay
      <3>4. QED
        BY <3>2, <3>3
    <2>3. QED
      BY <1>6, <2>1, <2>2 DEF OnWay
  <1>17. focus'.k = "eval" /\ focus'.cont = TRUE /\ focus'.node = hist.saved[m + 1].node
    <2>1. Callee(prog, x) = Args[k + 1]
      BY <1>8 DEF Callee
    <2>2. QED
      BY <1>9, <1>13, <2>1 DEF Eval
  <1>18. queue' = Entries(prog', hist'.saved, m + 1)
    BY <1>4, <1>5, <1>6 DEF ResumesAt
  <1>19. Clear'
    <2>1. CASE m = 1
      <3>1. x.node = 1
        BY <1>3, <2>1 DEF Target, Chain
      <3>2. Op = prog[1].op
        BY <1>8, <3>1
      <3>3. QED
        BY <1>5, <1>6, <3>2 DEF Clear, ResumesAt
    <2>2. CASE m # 1
      <3>1. Clear
        BY <1>2, <2>2 DEF Enters
      <3>2. QED
        BY <1>6, <3>1 DEF Clear, Keeps
    <2>3. QED
      BY <2>1, <2>2
  <1>20. Reaches'
    BY <1>3, <1>6, <1>7, <1>13, <1>16, <1>17, <1>18, <1>19 DEF Reaches
  <1>21. QED
    BY <1>5, <1>6, <1>10, <1>20

(* The last place is the host function's. *)
LEMMA EntersHost ==
  ASSUME IInv, MarkedScript, Target(hist.saved), Enters
  PROVE  /\ Op = "host" <=> Len(calls) = Len(hist.saved)
         /\ Op = "host" => Here = hist.saved /\ queue = << >>
  <1>1. CoreInv /\ DataInv /\ hist.saved \in Seq(Place) /\ calls # << >>
    BY SavedFields DEF IInv, Enters
  <1>2. PICK m \in Nat \ {0} : m = Len(calls)
    BY <1>1, TopFacts
  <1> DEFINE s == hist.saved
  <1>3. m <= Len(s) /\ m \in 1 .. Len(s) /\ Len(s) \in Nat \ {0}
    BY <1>1, <1>2 DEF Enters
  <1>4. Top = [node |-> s[m].node, pc |-> "enter", pos |-> 0, tmp |-> Nil, cont |-> TRUE]
        /\ OnWay(m - 1) /\ queue = Entries(prog, s, m)
    BY <1>2 DEF Enters
  <1>5. Op = prog[s[m].node].op
    BY <1>4 DEF Op
  <1>6. m < Len(s) => Op # "host"
    BY <1>1, <1>5, TargetPlace
  <1>7. m = Len(s) => Op = "host"
    BY <1>5 DEF Target
  <1>8. ASSUME m = Len(s) PROVE Here = s /\ queue = << >>
    <2>1. s[m] \in Place /\ Regular(prog, s[m])
      BY <1>1, <1>3, ElementOfSeq DEF Target, Chain
    <2>2. s[m].pc = "enter"
      BY <1>5, <1>7, <1>8, <2>1, Different DEF Regular, RegularAt
    <2>3. s[m].pos = 0 /\ s[m].tmp = Nil
      BY <2>1, <2>2 DEF Regular
    <2>4. Location(Top) = [node |-> s[m].node, pc |-> "enter", pos |-> 0, tmp |-> Nil]
      BY <1>4, <1>5, <1>7, <1>8 DEF Location
    <2>5. s[m] = [node |-> s[m].node, pc |-> "enter", pos |-> 0, tmp |-> Nil]
      BY <2>1, <2>2, <2>3 DEF Place
    <2>6. ASSUME NEW j \in 1 .. m PROVE Here[j] = s[j]
      <3>1. Here[j] = Location(calls[j])
        BY <1>2 DEF Here
      <3>2. CASE j = m
        BY <1>2, <2>4, <2>5, <3>1, <3>2 DEF Top
      <3>3. CASE j # m
        <4>1. j \in 1 .. m - 1
          BY <3>3
        <4>2. QED
          BY <1>4, <3>1, <4>1 DEF OnWay
      <3>4. QED
        BY <3>2, <3>3
    <2>7. Here \in Seq(Place) /\ Len(Here) = m
      BY <1>1, <1>2, HereIsPlaces DEF Here
    <2>8. Here = s
      BY <1>1, <1>8, <2>6, <2>7, SeqEqual
    <2>9. QED
      BY <1>1, <1>4, <1>8, <2>8, EntriesEnd
  <1>9. m = Len(s) \/ m < Len(s)
    BY <1>3
  <1>10. QED
    BY <1>2, <1>6, <1>7, <1>8, <1>9

(* When its term is evaluated, the function of a place is entered. *)
LEMMA ReachesCall ==
  ASSUME IInv, Target(hist.saved), Reaches, Evaluate
  PROVE  EvalFunctionCall /\ Enters'
  <1>1. CoreInv /\ DataInv /\ hist.saved \in Seq(Place)
    BY SavedFields DEF IInv
  <1>2. PICK n \in Nat : n = Len(calls)
    BY <1>1, CallsFacts DEF Lengths
  <1> DEFINE s == hist.saved
  <1>3. n + 1 \in 1 .. Len(s) /\ n + 1 <= Len(s)
    BY <1>1, <1>2 DEF Reaches
  <1>4. /\ status = "running" /\ focus.k = "eval" /\ OnWay(n) /\ focus.cont = TRUE
        /\ focus.node = s[n + 1].node /\ queue = Entries(prog, s, n + 1)
        /\ calls # << >> => Clear
    BY <1>2 DEF Reaches
  <1>5. prog[focus.node].op \in FunctionOps
    BY <1>3, <1>4 DEF Target, Chain, Regular
  <1>6. EvalFunctionCall
    <2>1. ~EvalLeaf
      BY <1>5 DEF EvalLeaf, FunctionOps
    <2>2. ~HostAnswers /\ ~HostInterrupts /\ ~HostRaises /\ ~ReturnValue /\ ~Break
      BY <1>4 DEF HostAnswers, HostInterrupts, HostRaises, ReturnValue, Break, At
    <2>3. ~FunctionStep /\ ~Unwind /\ ~FinishRun /\ ~SuspendRun
      BY <1>4 DEF FunctionStep, Running, Unwind, FinishRun, SuspendRun
    <2>4. QED
      BY <2>1, <2>2, <2>3, EvaluateMoves
  <1>7. /\ Len(calls') = n + 1 /\ focus'.k = "ret" /\ status' = status
        /\ \A j \in 1 .. n : calls'[j] = calls[j]
        /\ calls'[n + 1] = [node |-> focus.node, pc |-> "enter", pos |-> 0,
                            tmp |-> Nil, cont |-> focus.cont]
    BY <1>1, <1>2, <1>6, AfterCall, CallTop
  <1>8. /\ prog' = prog /\ hist' = hist /\ queue' = queue /\ breakCalled' = breakCalled
    BY <1>6 DEF EvalFunctionCall, envVars
  <1>9. OnWay(n)'
    <2>1. ASSUME NEW j \in 1 .. n PROVE Location(calls[j])' = hist.saved[j]
      <3>1. Location(calls[j])' = Location(calls[j])
        BY <1>7, <1>8 DEF Location
      <3>2. QED
        BY <1>4, <3>1 DEF OnWay
    <2>2. QED
      BY <1>8, <2>1 DEF OnWay
  <1>10. Top' = [node |-> s[n + 1].node, pc |-> "enter", pos |-> 0, tmp |-> Nil, cont |-> TRUE]
    BY <1>4, <1>7 DEF Top
  <1>11. n + 1 > 1 => Clear'
    <2>1. n + 1 > 1 => calls # << >>
      BY <1>2
    <2>2. QED
      BY <1>4, <1>8, <2>1 DEF Clear
  <1>12. calls' # << >> /\ (n + 1) - 1 = n
    BY <1>7
  <1>13. Enters'
    BY <1>3, <1>4, <1>7, <1>8, <1>9, <1>10, <1>11, <1>12 DEF Enters
  <1>14. QED
    BY <1>6, <1>13

-----------------------------------------------------------------------------
(* On the way out *)

(* Each function that is left records the entry of its place. *)
LEMMA LeavesStep ==
  ASSUME IInv, MarkedScript, QueueAllocated = TRUE, Target(hist.saved), Leaves, Evaluate
  PROVE  /\ Unwind \/ SuspendRun
         /\ Waiting' \/ Leaves'
  <1>1. CoreInv /\ DataInv /\ hist.saved \in Seq(Place)
    BY SavedFields DEF IInv
  <1> DEFINE s == hist.saved
  <1>2. /\ status = "running" /\ focus.k = "intr" /\ Len(calls) <= Len(s)
        /\ OnWay(Len(calls)) /\ recorded = Entries(prog, s, Len(calls) + 1)
    BY DEF Leaves
  <1>3. Unwind \/ SuspendRun
    <2>1. ~EvalLeaf /\ ~EvalFunctionCall /\ ~FunctionStep /\ ~FinishRun
      BY <1>2 DEF EvalLeaf, EvalFunctionCall, FunctionStep, Running, FinishRun
    <2>2. ~HostAnswers /\ ~HostInterrupts /\ ~HostRaises /\ ~ReturnValue /\ ~Break
      BY <1>2 DEF HostAnswers, HostInterrupts, HostRaises, ReturnValue, Break, At
    <2>3. QED
      BY <2>1, <2>2, EvaluateMoves
  <1>4. CASE SuspendRun
    <2>1. Len(calls) = 0 /\ status' = "suspended" /\ recorded' = recorded /\ prog' = prog
          /\ hist' = hist
      BY <1>4 DEF SuspendRun
    <2>2. QED
      BY <1>2, <1>4, <2>1 DEF Waiting
  <1>5. CASE Unwind
    <2>1. /\ calls # << >> /\ recorded' = Catch \o recorded
          /\ calls' = SubSeq(calls, 1, Len(calls) - 1)
          /\ prog' = prog /\ hist' = hist /\ focus' = focus /\ status' = status
      BY <1>5 DEF Unwind, runVars
    <2>2. PICK m \in Nat \ {0} : m = Len(calls)
      BY <1>1, <2>1, TopFacts
    <2>3. PICK n \in Nat : m = n + 1
      <3>1. m - 1 \in Nat /\ m = (m - 1) + 1
        OBVIOUS
      <3>2. QED
        BY <3>1
    <2>4. Len(calls') = n /\ \A j \in 1 .. n : calls'[j] = calls[j]
      <3>1. calls \in Seq(Activation) /\ Len(calls) = n + 1 /\ calls' = SubSeq(calls, 1, n)
        BY <1>1, <2>1, <2>2, <2>3 DEF CoreInv
      <3>2. QED
        BY <3>1, WithoutLast
    <2>5. OnWay(n)'
      <3>1. ASSUME NEW j \in 1 .. n PROVE Location(calls[j])' = hist.saved[j]
        <4>1. Location(calls[j])' = Location(calls[j])
          BY <2>1, <2>4 DEF Location
        <4>2. j \in 1 .. m
          BY <2>3
        <4>3. QED
          BY <1>2, <2>2, <4>1, <4>2 DEF OnWay
      <3>2. QED
        BY <2>1, <3>1 DEF OnWay
    <2>6. Location(Top) = s[m] /\ m <= Len(s) /\ recorded = Entries(prog, s, m + 1)
      BY <1>2, <2>2 DEF OnWay, Top
    <2>7. recorded' = Entries(prog, s, m)
      <3>1. CASE m < Len(s)
        <4>1. Catch = << EntryOf(prog, s[m]) >>
          BY <1>1, <2>6, <3>1, CatchEntry
        <4>2. Entries(prog, s, m) = << EntryOf(prog, s[m]) >> \o Entries(prog, s, m + 1)
          BY <1>1, <3>1, EntriesFacts
        <4>3. QED
          BY <2>1, <2>6, <4>1, <4>2
      <3>2. CASE m = Len(s)
        <4>1. Top.node = s[m].node
          BY <2>6 DEF Location
        <4>2. Op = "host"
          BY <3>2, <4>1 DEF Target, Op
        <4>3. Catch = << >>
          BY <4>2, CatchNone
        <4>4. recorded = << >> /\ Entries(prog, s, m) = << >>
          BY <1>1, <2>6, <3>2, EntriesEnd
        <4>5. << >> \o << >> = << >>
          OBVIOUS
        <4>6. QED
          BY <2>1, <4>3, <4>4, <4>5
      <3>3. QED
        BY <1>1, <2>6, <3>1, <3>2
    <2>8. Leaves'
      <3>1. n <= Len(s) /\ n + 1 = m
        BY <1>1, <2>3, <2>6
      <3>2. QED
        BY <1>2, <2>1, <2>4, <2>5, <2>7, <3>1 DEF Leaves
    <2>9. QED
      BY <1>5, <2>8
  <1>6. QED
    BY <1>3, <1>4, <1>5

-----------------------------------------------------------------------------
(* The host function answers, raises or throws *)

ResumeInv ==
    /\ IInv /\ JumpsQuietly
    /\ IF hist.saved = << >> THEN Forward ELSE Back

(* Having thrown, it has just been left. *)
LEMMA LeavesFirst ==
  ASSUME CoreInv, DataInv, HostInterrupts
  PROVE  Leaves'
  <1>1. /\ calls' = calls /\ prog' = prog /\ recorded' = << >> /\ status' = status
        /\ status = "running" /\ focus'.k = "intr"
    BY DEF HostInterrupts, At, Interrupt, runVars
  <1>2. hist'.saved = Here /\ Here \in Seq(Place)
    BY SavedFields, HereIsPlaces
  <1>3. PICK n \in Nat : n = Len(calls)
    BY CallsFacts DEF Lengths
  <1>4. Len(Here) = n /\ \A j \in 1 .. n : Here[j] = Location(calls[j])
    BY <1>2, <1>3 DEF Here
  <1>5. OnWay(n)'
    <2>1. ASSUME NEW j \in 1 .. n PROVE Location(calls[j])' = Here[j]
      BY <1>1, <1>4 DEF Location
    <2>2. QED
      BY <1>2, <2>1 DEF OnWay
  <1>6. Entries(prog, Here, n + 1) = << >>
    BY <1>2, <1>4, EntriesEnd
  <1>7. n <= n
    OBVIOUS
  <1>8. QED
    BY <1>1, <1>2, <1>3, <1>4, <1>5, <1>6, <1>7 DEF Leaves

(* A host function that is called for the first time throws at a place a   *)
(* run can come back to, and no jump is on its way through a list. *)
LEMMA ForwardInterrupts ==
  ASSUME IInv, MarkedScript, Forward, HostInterrupts
  PROVE  Back' /\ hist'.saved # << >>
  <1>1. CoreInv /\ DataInv
    BY DEF IInv
  <1>2. Running /\ Op = "host" /\ Top.pc = "enter" /\ prog' = prog /\ jumpTo' = jumpTo
    BY <1>1, AtFacts DEF HostInterrupts, envVars
  <1>3. Way /\ Leaving
    BY <1>2 DEF Forward, Running
  <1>4. PICK n \in Nat \ {0} : n = Len(calls)
    BY <1>1, <1>2, TopFacts DEF Running
  <1>5. hist'.saved = Here /\ Here \in Seq(Place) /\ Len(Here) = n
        /\ \A j \in 1 .. n : Here[j] = Location(calls[j])
    BY <1>1, <1>4, SavedFields, HereIsPlaces DEF Here
  <1>6. Chain(prog, calls, n) /\ Chain(prog, Here, n)
    BY <1>3, <1>4, <1>5, ChainPlaces DEF Way
  <1>7. n \in 1 .. n /\ calls[n] = Top
    BY <1>4 DEF Top
  <1>8. ASSUME NEW j \in 1 .. n PROVE Location(Here[j]) = Here[j] /\ Here[j].node \notin IdleIn(prog)
    <2>1. Location(Here[j]) = Here[j]
      <3>1. Here[j] = Location(calls[j])
        BY <1>5
      <3>2. QED
        BY <3>1 DEF Location
    <2>2. calls[j].node \notin IdleIn(prog)
      <3>1. SUFFICES ASSUME calls[j].node \in IdleIn(prog) PROVE FALSE
        OBVIOUS
      <3>2. ClosedIn(prog, IdleIn(prog))
        BY MarkedClosed
      <3>3. \A i \in j .. n : calls[i].node \in IdleIn(prog)
        BY <1>6, <3>1, <3>2, ChainClosed
      <3>4. n \in j .. n
        OBVIOUS
      <3>5. Top.node \in IdleIn(prog)
        BY <1>7, <3>3, <3>4
      <3>6. Top.node \in 1 .. Len(prog)
        BY <1>1, <1>2, TopFacts DEF Running
      <3>7. QED
        BY <1>2, <3>5, <3>6, MarkedTerms DEF Op
    <2>3. QED
      BY <1>5, <2>2 DEF Location
  <1>9. Here # << >> /\ prog[Here[n].node].op = "host"
    <2>1. Here[n].node = Top.node
      BY <1>5, <1>7 DEF Location
    <2>2. QED
      BY <1>2, <1>5, <2>1 DEF Op
  <1>10. Target(Here)
    BY <1>5, <1>6, <1>8, <1>9 DEF Target
  <1>12. jumpTo # Nil => \A j \in 1 .. n : prog[Here[j].node].op \notin ListOps
    <2>1. SUFFICES ASSUME jumpTo # Nil, NEW j \in 1 .. n, prog[Here[j].node].op \in ListOps
                   PROVE  FALSE
      OBVIOUS
    <2>2. ~Jumping(Top)
      BY <1>1, <1>2, JumpingTop, Different DEF Running
    <2>3. ~InList
      BY <1>3, <2>1, <2>2 DEF Leaving
    <2>4. Here[j].node = calls[j].node
      BY <1>5 DEF Location
    <2>5. j # n
      BY <1>9, <2>1, Different
    <2>6. j \in 1 .. n - 1
      BY <2>5
    <2>7. Regular(prog, calls[j]) /\ calls[j].pc # "enter"
      BY <1>6, <2>6 DEF Chain
    <2>8. calls[j].pc = "stmt"
      BY <2>1, <2>4, <2>7, Different DEF Regular, RegularAt
    <2>9. QED
      BY <1>4, <2>1, <2>3, <2>4, <2>8 DEF InList
  <1>13. Target(hist.saved)'
    BY <1>2, <1>5, <1>10 DEF Target, Location
  <1>14. (jumpTo = Nil \/ NoList)'
    BY <1>2, <1>5, <1>12 DEF NoList
  <1>15. Leaves'
    BY <1>1, LeavesFirst
  <1>16. QED
    BY <1>5, <1>9, <1>13, <1>14, <1>15 DEF Back

(* One that has been come back to may throw again, at the same place. *)
LEMMA BackInterrupts ==
  ASSUME IInv, MarkedScript, Target(hist.saved), jumpTo = Nil \/ NoList, Enters, HostInterrupts
  PROVE  Back' /\ hist'.saved # << >>
  <1>1. CoreInv /\ DataInv
    BY DEF IInv
  <1>2. Op = "host" /\ prog' = prog /\ jumpTo' = jumpTo
    BY <1>1, AtFacts DEF HostInterrupts, envVars
  <1>3. hist'.saved = hist.saved
    BY <1>1, <1>2, EntersHost, SavedFields
  <1>4. Target(hist.saved)' /\ (jumpTo = Nil \/ NoList)'
    BY <1>2, <1>3 DEF Target, Location, NoList
  <1>5. Leaves'
    BY <1>1, LeavesFirst
  <1>6. QED
    BY <1>3, <1>4, <1>5 DEF Back, Target

(* When it has answered, the run is one that was never interrupted. *)
LEMMA BackAnswers ==
  ASSUME IInv, MarkedScript, Target(hist.saved), jumpTo = Nil \/ NoList, Enters, HostAnswers
  PROVE  Forward' /\ hist'.saved = << >>
  <1>1. CoreInv /\ DataInv
    BY DEF IInv
  <1>2. Running /\ Op = "host" /\ prog' = prog /\ jumpTo' = jumpTo /\ queue' = queue
    BY <1>1, AtFacts DEF HostAnswers, envVars
  <1>3. PICK v \in Value : Return(v)
    BY <1>1, ValueAssumption DEF HostAnswers
  <1>4. queue' = << >> /\ hist'.saved = << >>
    BY <1>1, <1>2, EntersHost, SavedFields
  <1>5. CASE status' = "done"
    BY <1>4, <1>5 DEF Forward
  <1>6. CASE Outer(Len(calls) - 1) /\ status' = status /\ focus' = Ret(v)
    <2>1. PICK m \in Nat \ {0} : m = Len(calls)
      BY <1>1, <1>2, TopFacts DEF Running
    <2>2. PICK n \in Nat : m = n + 1
      <3>1. m - 1 \in Nat /\ m = (m - 1) + 1
        OBVIOUS
      <3>2. QED
        BY <3>1
    <2> DEFINE s == hist.saved
    <2>3. Len(calls') = n /\ \A j \in 1 .. n : calls'[j] = calls[j]
      <3>1. Outer(n)
        BY <1>6, <2>1, <2>2
      <3>2. QED
        BY <3>1 DEF Outer
    <2>4. \A j \in 1 .. n : s[j] = Location(calls'[j])
      <3>1. OnWay(n)
        BY <2>1, <2>2 DEF Enters
      <3>2. QED
        BY <2>3, <3>1 DEF OnWay
    <2>5. Len(s) = m /\ Chain(prog, s, m)
      BY <1>1, <1>2, <2>1, EntersHost DEF Target
    <2>6. Chain(prog, s, n)
      <3>1. n \in 0 .. m /\ \A j \in 1 .. n : s[j] = s[j]
        BY <2>2
      <3>2. QED
        BY <2>5, <3>1, ChainShorter
    <2>7. \A j \in 1 .. n : s[j].pc # "enter"
      <3>1. \A j \in 1 .. n : j \in 1 .. m - 1
        BY <2>2
      <3>2. QED
        BY <2>5, <3>1 DEF Chain
    <2>8. Chain(prog, calls', n)
      BY <2>4, <2>6, <2>7, ChainPlaces
    <2>9. focus'.k = "ret"
      BY <1>6 DEF Ret
    <2>10. Way'
      BY <1>2, <2>3, <2>8, <2>9 DEF Way, Linked
    <2>11. jumpTo' # Nil => ~InList'
      <3>1. ASSUME jumpTo # Nil, NEW j \in 1 .. n PROVE prog[calls'[j].node].op \notin ListOps
        <4>1. j \in 1 .. Len(s)
          BY <2>2, <2>5
        <4>2. s[j] = Location(calls'[j])
          BY <2>4
        <4>3. s[j].node = calls'[j].node
          BY <4>2 DEF Location
        <4>4. QED
          BY <3>1, <4>1, <4>3 DEF NoList
      <3>2. QED
        BY <1>2, <2>3, <3>1 DEF InList
    <2>12. Leaving'
      BY <2>11 DEF Leaving
    <2>13. status' # "suspended"
      BY <1>2, <1>6 DEF Running
    <2>14. QED
      BY <1>4, <2>9, <2>10, <2>12, <2>13 DEF Forward
  <1>7. QED
    BY <1>1, <1>2, <1>3, <1>4, <1>5, <1>6, AfterReturn

(* A run that comes back calls the host function it was interrupted in. *)
LEMMA HostEntered ==
  ASSUME CoreInv, Evaluate, Enters, Op = "host"
  PROVE  HostAnswers \/ HostInterrupts \/ HostRaises
  <1>1. Running /\ Top.pc = "enter"
    BY DEF Running, Enters
  <1>2. \A op : op # "host" => ~At(op, "enter")
    BY DEF At
  <1>3. \A op \in ListOps \cup TwoOperandOps \cup FoldOps : op # "host"
    BY Different DEF ListOps, TwoOperandOps, FoldOps
  <1>4. \A op \in ListOps : ~ListEnter(op)
    BY <1>2, <1>3 DEF ListEnter
  <1>5. \A op \in TwoOperandOps : ~OperandsEnter(op)
    BY <1>2, <1>3 DEF OperandsEnter
  <1>6. \A op \in FoldOps : ~FoldEnter(op)
    BY <1>2, <1>3 DEF FoldEnter
  <1>7. ~IfEnter /\ ~WhileEnter /\ ~DoWhileEnter /\ ~ForEnter /\ ~SwitchEnter
    BY <1>2 DEF IfEnter, WhileEnter, DoWhileEnter, ForEnter, SwitchEnter
  <1>8. ~ReturnEnter /\ ~Break /\ ~Goto /\ ~AssignEnter
    BY <1>2 DEF ReturnEnter, Break, Goto, AssignEnter
  <1>9. ~GetVariableEnter /\ ~Increase /\ ~UserFunction
    BY <1>2 DEF GetVariableEnter, Increase, UserFunction
  <1>10. QED
    BY <1>1, <1>4, <1>5, <1>6, <1>7, <1>8, <1>9, Entering

(* An exception of a host function ends the run. *)
LEMMA Raises ==
  ASSUME IInv, HostRaises
  PROVE  Forward' /\ hist'.saved = << >>
  <1>1. DataInv
    BY DEF IInv
  <1>2. status' = "done"
    BY DEF HostRaises, Raise
  <1>3. hist'.saved = << >>
    BY <1>1, SavedFields
  <1>4. QED
    BY <1>2, <1>3 DEF Forward

(* Nothing that has not been interrupted is on its way back. *)
LEMMA ForwardAnswers ==
  ASSUME IInv, MarkedScript, Forward, HostAnswers
  PROVE  Forward' /\ hist'.saved = << >>
  <1>1. CoreInv /\ DataInv
    BY DEF IInv
  <1>2. Running /\ Op = "host" /\ prog' = prog /\ jumpTo' = jumpTo /\ queue' = queue
    BY <1>1, AtFacts DEF HostAnswers, envVars
  <1>3. PICK v \in Value : Return(v)
    BY <1>1, ValueAssumption DEF HostAnswers
  <1>4. queue = << >> /\ Way /\ Leaving
    BY <1>2 DEF Forward, Running
  <1>5. hist'.saved = << >>
    BY <1>1, SavedFields
  <1>6. focus'.k = "ret" /\ status' \in {status, "done"} /\ (status' = "done" => calls' = << >>)
    BY <1>2, <1>3 DEF Return, Raise, Ret, runVars, Running
  <1>7. \E n \in Nat : n <= Len(calls) /\ Outer(n)
    BY <1>1, OtherSteps
  <1>8. Way'
    BY <1>1, <1>2, <1>4, <1>6, <1>7, WayBack, Different
  <1>9. calls' = << >> \/ Outer(Len(calls) - 1)
    BY <1>1, <1>2, <1>3, <1>6, AfterReturn
  <1>10. Leaving'
    BY <1>1, <1>2, <1>4, <1>9, LeavingAnswers
  <1>11. status' # "suspended"
    BY <1>2, <1>6 DEF Running
  <1>12. QED
    BY <1>2, <1>4, <1>5, <1>6, <1>8, <1>10, <1>11 DEF Forward

-----------------------------------------------------------------------------
(* The steps *)

(* What is not a step of the host leaves the place it threw at alone. *)
LEMMA SavedKept ==
  ASSUME DataInv, FunctionStep \/ EvalLeaf \/ EvalFunctionCall \/ ReturnValue \/ Break
                  \/ Unwind \/ FinishRun \/ SuspendRun \/ ResumeRun
  PROVE  hist'.saved = hist.saved
  <1>1. CASE FunctionStep
    BY <1>1 DEF FunctionStep, Keeps
  <1>2. CASE EvalLeaf \/ EvalFunctionCall
    BY <1>2 DEF EvalLeaf, EvalFunctionCall
  <1>3. CASE ReturnValue \/ Break \/ ResumeRun
    BY <1>3, SavedFields
  <1>4. CASE Unwind \/ FinishRun \/ SuspendRun
    BY <1>4 DEF Unwind, FinishRun, SuspendRun
  <1>5. QED
    BY <1>1, <1>2, <1>3, <1>4

(* A step of a run that has not been interrupted, or has come back *)
LEMMA ForwardEvaluates ==
  ASSUME IInv, MarkedScript, JumpsQuietly, Forward, hist.saved = << >>, Evaluate
  PROVE  JumpsQuietly' /\ IF hist'.saved = << >> THEN Forward' ELSE Back'
  <1>1. CoreInv /\ DataInv
    BY DEF IInv
  <1>2. CASE FunctionStep \/ EvalLeaf \/ EvalFunctionCall \/ ReturnValue \/ Break \/ FinishRun
    BY <1>1, <1>2, ForwardSteps, SavedKept
  <1>3. CASE HostAnswers
    BY <1>1, <1>3, ForwardAnswers, QuietOther
  <1>4. CASE HostRaises
    BY <1>1, <1>4, Raises, QuietOther
  <1>5. CASE HostInterrupts
    BY <1>1, <1>5, ForwardInterrupts, QuietOther
  <1>6. ~Unwind /\ ~SuspendRun
    BY DEF Unwind, SuspendRun, Forward
  <1>7. QED
    BY <1>2, <1>3, <1>4, <1>5, <1>6, EvaluateMoves

(* What an interrupt was thrown at is that while the script is. *)
LEMMA TargetKept ==
  ASSUME Target(hist.saved), jumpTo = Nil \/ NoList,
         prog' = prog, hist'.saved = hist.saved, jumpTo' \in {jumpTo, Nil}
  PROVE  Target(hist.saved)' /\ (jumpTo = Nil \/ NoList)' /\ hist'.saved # << >>
  BY DEF Target, Location, NoList

(* A step of a run that has been interrupted *)
LEMMA BackEvaluates ==
  ASSUME IInv, MarkedScript, JumpsQuietly, QueueAllocated = TRUE, Back, Evaluate
  PROVE  JumpsQuietly' /\ IF hist'.saved = << >> THEN Forward' ELSE Back'
  <1>1. CoreInv /\ DataInv /\ Target(hist.saved) /\ (jumpTo = Nil \/ NoList)
    BY DEF IInv, Back
  <1>2. ASSUME prog' = prog, hist'.saved = hist.saved, jumpTo' \in {jumpTo, Nil},
               Waiting' \/ Leaves' \/ Reaches' \/ Enters'
        PROVE  Back' /\ hist'.saved # << >>
    BY <1>1, <1>2, TargetKept DEF Back
  <1>3. CASE Waiting
    <2>1. \A op, pc : ~At(op, pc)
      BY <1>3 DEF Waiting, At
    <2>2. ~FunctionStep /\ ~EvalLeaf /\ ~EvalFunctionCall /\ ~Unwind /\ ~FinishRun /\ ~SuspendRun
      BY <1>3 DEF Waiting, FunctionStep, Running, EvalLeaf, EvalFunctionCall, Unwind, FinishRun,
                  SuspendRun
    <2>3. ~HostAnswers /\ ~HostInterrupts /\ ~HostRaises /\ ~ReturnValue /\ ~Break
      BY <2>1 DEF HostAnswers, HostInterrupts, HostRaises, ReturnValue, Break
    <2>4. QED
      BY <2>2, <2>3, EvaluateMoves
  <1>4. CASE Leaves
    <2>1. (Unwind \/ SuspendRun) /\ (Waiting' \/ Leaves')
      BY <1>1, <1>4, LeavesStep
    <2>2. prog' = prog /\ hist'.saved = hist.saved /\ jumpTo' = jumpTo
      BY <2>1 DEF Unwind, SuspendRun, envVars
    <2>3. JumpsQuietly'
      BY <1>1, <2>1, QuietOther
    <2>4. QED
      BY <1>2, <2>1, <2>2, <2>3
  <1>5. CASE Reaches
    <2>1. EvalFunctionCall /\ Enters'
      BY <1>1, <1>5, ReachesCall
    <2>2. prog' = prog /\ hist'.saved = hist.saved /\ jumpTo' = jumpTo
      BY <2>1 DEF EvalFunctionCall, envVars
    <2>3. JumpsQuietly'
      BY <1>1, <2>1, QuietCalls
    <2>4. QED
      BY <1>2, <2>1, <2>2, <2>3
  <1>6. CASE Enters /\ Op # "host"
    <2>1. Len(calls) < Len(hist.saved)
      <3>1. Len(calls) \in Nat /\ hist.saved \in Seq(Place)
        BY <1>1, CallsFacts, SavedFields DEF Lengths
      <3>2. Len(calls) <= Len(hist.saved) /\ Len(calls) # Len(hist.saved)
        BY <1>1, <1>6, EntersHost DEF Enters
      <3>3. QED
        BY <3>1, <3>2
    <2>2. FunctionStep /\ Reaches' /\ prog' = prog /\ hist' = hist /\ jumpTo' \in {jumpTo, Nil}
      BY <1>1, <1>6, <2>1, EntersFunction
    <2>3. JumpsQuietly'
      BY <2>2, QuietFunction
    <2>4. QED
      BY <1>2, <2>2, <2>3
  <1>7. CASE Enters /\ Op = "host"
    <2>1. HostAnswers \/ HostInterrupts \/ HostRaises
      BY <1>1, <1>7, HostEntered
    <2>2. JumpsQuietly'
      BY <1>1, <2>1, QuietOther
    <2>3. CASE HostAnswers
      BY <1>1, <1>7, <2>2, <2>3, BackAnswers
    <2>4. CASE HostInterrupts
      BY <1>1, <1>7, <2>2, <2>4, BackInterrupts
    <2>5. CASE HostRaises
      BY <2>2, <2>5, Raises
    <2>6. QED
      BY <2>1, <2>3, <2>4, <2>5
  <1>8. QED
    BY <1>3, <1>4, <1>5, <1>6, <1>7 DEF Back

(* A run that begins has not been interrupted. *)
LEMMA Starts ==
  ASSUME IInv, StartRun
  PROVE  Forward' /\ hist'.saved = << >>
  <1>1. CoreInv /\ DataInv
    BY DEF IInv
  <1>2. calls' = << >> /\ Len(calls') = 0
    BY <1>1 DEF StartRun, CoreInv, Quiet
  <1>3. /\ status' = "running" /\ focus'.k = "eval" /\ focus'.node = 1 /\ queue' = << >>
    BY DEF StartRun, Eval
  <1>4. hist'.saved = << >>
    BY <1>1, SavedFields
  <1>5. 1 .. 0 = {} /\ 1 .. 0 - 1 = {}
    OBVIOUS
  <1>6. Chain(prog, calls, Len(calls))'
    BY <1>2, <1>5 DEF Chain
  <1>7. Way'
    BY <1>2, <1>3, <1>6 DEF Way, Linked
  <1>8. Leaving'
    BY <1>2, <1>5 DEF Leaving, InList
  <1>9. QED
    BY <1>3, <1>4, <1>7, <1>8 DEF Forward

(* One that is continued evaluates the term of the first place. *)
LEMMA Resumes ==
  ASSUME IInv, MarkedScript, JumpsQuietly, IF hist.saved = << >> THEN Forward ELSE Back, ResumeRun
  PROVE  Back' /\ hist'.saved # << >>
  <1>1. CoreInv /\ DataInv
    BY DEF IInv
  <1>2. Target(hist.saved) /\ (jumpTo = Nil \/ NoList) /\ Waiting
    BY DEF ResumeRun, Forward, Back, Leaves, Reaches, Enters
  <1>3. /\ prog' = prog /\ jumpTo' = jumpTo /\ hist'.saved = hist.saved
        /\ hist.saved \in Seq(Place) /\ hist.saved # << >>
    BY <1>1, <1>2, SavedFields DEF ResumeRun, envVars, Target
  <1>4. calls' = << >> /\ Len(calls') = 0
    BY <1>1 DEF ResumeRun, CoreInv, Quiet
  <1>5. /\ status' = "running" /\ focus'.k = "eval" /\ focus'.node = 1 /\ focus'.cont = TRUE
        /\ queue' = recorded
    BY DEF ResumeRun, Eval
  <1>6. Len(hist.saved) \in Nat /\ 0 < Len(hist.saved)
    BY <1>3
  <1>7. hist.saved[1].node = 1
    BY <1>2, <1>6 DEF Target, Chain
  <1>8. OnWay(0)'
    <2>1. 1 .. 0 = {}
      OBVIOUS
    <2>2. QED
      BY <2>1 DEF OnWay
  <1>9. queue' = Entries(prog', hist'.saved, 1)
    BY <1>2, <1>3, <1>5 DEF Waiting
  <1>10. Reaches'
    <2>1. 0 + 1 = 1
      OBVIOUS
    <2>2. QED
      BY <1>3, <1>4, <1>5, <1>6, <1>7, <1>8, <1>9, <2>1 DEF Reaches
  <1>11. Target(hist.saved)' /\ (jumpTo = Nil \/ NoList)' /\ hist'.saved # << >>
    BY <1>2, <1>3, TargetKept
  <1>12. QED
    BY <1>10, <1>11 DEF Back

(* UMTerm_Interrupt.h:11-18: a script continued from an interrupt comes     *)
(* back to the very location it was interrupted at, and calls that host    *)
(* function before any other.  The scripts are those whose functions all    *)
(* record their places and come back to them; the assumptions leave out     *)
(* the ones that do not.                                                    *)
THEOREM ComesBack ==
  ASSUME QueueAllocated = TRUE,
         \A p \in Programs : \E idle, calm, jumps \in SUBSET (1 .. Len(p)) :
             Continuable(p, idle, calm, jumps)
  PROVE  Spec => []ResumesWhereInterrupted
  <1>1. Init => ResumeInv
    <2>1. SUFFICES ASSUME Init PROVE ResumeInv
      OBVIOUS
    <2>2. hist.saved = << >> /\ status = "idle" /\ calls = << >> /\ focus.k = "ret"
      BY <2>1 DEF Init, Ret
    <2>3. IInv
      BY <2>1, InitialInv
    <2>4. Len(calls) = 0
      BY <2>2
    <2>5. JumpsQuietly
      BY <2>2, <2>4 DEF JumpsQuietly
    <2>6. QED
      BY <2>2, <2>3, <2>5 DEF ResumeInv, Forward
  <1>2. ResumeInv /\ [Next]_vars => ResumeInv'
    <2>1. SUFFICES ASSUME ResumeInv, [Next]_vars PROVE ResumeInv'
      OBVIOUS
    <2>2. IInv /\ CoreInv /\ DataInv /\ JumpsQuietly
      BY <2>1 DEF ResumeInv, IInv
    <2>3. MarkedScript
      BY <2>2, MarkFacts
    <2>4. CASE Evaluate
      <3>1. IInv'
        BY <2>2, <2>4, EvaluateStep
      <3>2. CASE hist.saved = << >>
        <4>1. JumpsQuietly' /\ IF hist'.saved = << >> THEN Forward' ELSE Back'
          BY <2>1, <2>2, <2>3, <2>4, <3>2, ForwardEvaluates DEF ResumeInv
        <4>2. QED
          BY <3>1, <4>1 DEF ResumeInv
      <3>3. CASE hist.saved # << >>
        <4>1. JumpsQuietly' /\ IF hist'.saved = << >> THEN Forward' ELSE Back'
          BY <2>1, <2>2, <2>3, <2>4, <3>3, BackEvaluates DEF ResumeInv
        <4>2. QED
          BY <3>1, <4>1 DEF ResumeInv
      <3>4. QED
        BY <3>2, <3>3
    <2>5. CASE StartRun
      BY <2>2, <2>3, <2>5, StartStep, QuietBegins, Starts DEF ResumeInv
    <2>6. CASE ResumeRun
      <3>1. IInv' /\ JumpsQuietly'
        BY <2>2, <2>3, <2>6, ResumeStep, QuietBegins
      <3>2. Back' /\ hist'.saved # << >>
        BY <2>1, <2>2, <2>3, <2>6, Resumes DEF ResumeInv
      <3>3. QED
        BY <3>1, <3>2 DEF ResumeInv
    <2>7. CASE HostIsDone \/ UNCHANGED vars
      <3>1. UNCHANGED vars
        BY <2>7 DEF HostIsDone
      <3>2. IInv'
        BY <2>2, <3>1, StutterStep
      <3>3. /\ prog' = prog /\ calls' = calls /\ focus' = focus /\ status' = status
            /\ returnCalled' = returnCalled /\ breakCalled' = breakCalled /\ jumpTo' = jumpTo
            /\ queue' = queue /\ recorded' = recorded /\ hist' = hist
        BY <3>1 DEF vars, envVars, runVars
      <3>4. JumpsQuietly'
        BY <2>2, <3>3 DEF JumpsQuietly, FlagsOff
      <3>5. Forward => Forward'
        <4>1. Way => Way'
          BY <3>3 DEF Way, Linked, Top
        <4>2. Leaving => Leaving'
          BY <3>3 DEF Leaving, InList, FlagsOff, Jumping, Top
        <4>3. QED
          BY <3>3, <4>1, <4>2 DEF Forward
      <3>6. Back => Back'
        BY <3>3 DEF Back, Target, Location, NoList, Waiting, Leaves, Reaches, Enters, OnWay,
                    Clear, Top
      <3>7. QED
        BY <2>1, <3>2, <3>3, <3>4, <3>5, <3>6 DEF ResumeInv
    <2>8. QED
      BY <2>1, <2>4, <2>5, <2>6, <2>7 DEF Next
  <1>3. ResumeInv => ResumesWhereInterrupted
    <2>1. SUFFICES ASSUME ResumeInv, hist.saved # << >>, status = "running", focus.k = "ret"
                   PROVE  calls # << >> /\ (Op = "host" => Here = hist.saved)
      BY DEF ResumesWhereInterrupted
    <2>2. IInv /\ CoreInv /\ Back
      BY <2>1 DEF ResumeInv, IInv
    <2>3. MarkedScript
      BY <2>2, MarkFacts
    <2>4. Enters /\ Target(hist.saved)
      BY <2>1, <2>2 DEF Back, Waiting, Leaves, Reaches
    <2>5. QED
      BY <2>2, <2>3, <2>4, EntersHost DEF Enters
  <1>4. QED
    BY <1>1, <1>2, <1>3, PTL DEF Spec
=============================================================================

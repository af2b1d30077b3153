--------------------------- MODULE MCInterpreter ---------------------------
(***************************************************************************)
(* Scripts for TLC.  Each is the term tree the parser builds, as a         *)
(* sequence of terms with the root first, together with its flow: the      *)
(* order in which C would have the script call the host functions, also    *)
(* where the code departs from C (see FlowHolds).                          *)
(***************************************************************************)
EXTENDS UMInterpreter

Vals == {"0", "1", "2"}
True == {"1", "2"}
AllValues == Vals \cup {Nil, Null, "default", "here", "YES", "NO"}
TrueValues == {"1", "2", "YES"}
Comparisons == {"YES", "NO"}

Term(op, args) == [op |-> op, args |-> args, label |-> Nil, val |-> Nil]
Lbl(l, term) == [term EXCEPT !.label = l]
Host == Term("host", <<>>)
Const(v) == [Term("const", <<>>) EXCEPT !.val = v]
NullTerm == Term("null", <<>>)

(* An edge: after the host function at term "from" answered one of vals, the *)
(* next to answer is the one at term "to"; 0 is the start and the end.       *)
Edge(from, vals, to) == [from |-> from, vals |-> vals, to |-> to]
Start(to) == Edge(0, {Nil}, to)
Script(terms, flow) == [terms |-> terms, flow |-> flow]

(* { h2; if(h4) { h5; } else { h6; } return h8; } *)
Straight == Script(
    <<Term("list", <<2, 3, 7>>), Host, Term("if", <<4, 5, 6>>), Host, Host,
      Host, Term("return", <<8>>), Host>>,
    {Start(2), Edge(2, Vals, 4), Edge(4, True, 5), Edge(4, {"0"}, 6),
     Edge(5, Vals, 8), Edge(6, Vals, 8), Edge(8, Vals, 0)})

(* { while(h3) { h5; if(h7) break; h9; } h10; } *)
WhileBreak == Script(
    <<Term("list", <<2, 10>>), Term("while", <<3, 4>>), Host,
      Term("list", <<5, 6, 9>>), Host, Term("if", <<7, 8, 11>>), Host,
      Term("break", <<>>), Host, Host, NullTerm>>,
    {Start(3), Edge(3, True, 5), Edge(3, {"0"}, 10), Edge(5, Vals, 7),
     Edge(7, True, 10), Edge(7, {"0"}, 9), Edge(9, Vals, 3), Edge(10, Vals, 0)})

(* { for(h3; h4; h5) { h7; h8; } h9; } *)
ForLoops == Script(
    <<Term("list", <<2, 9>>), Term("for", <<3, 4, 5, 6>>), Host, Host, Host,
      Term("list", <<7, 8>>), Host, Host, Host>>,
    {Start(3), Edge(3, Vals, 4), Edge(4, True, 7), Edge(4, {"0"}, 9),
     Edge(7, Vals, 8), Edge(8, Vals, 5), Edge(5, Vals, 4), Edge(9, Vals, 0)})

(* { switch(h3) { case 1: h5; case 2: h6; break; default: h8; } return h10; } *)
SwitchFalls == Script(
    <<Term("list", <<2, 9>>), Term("switch", <<3, 4>>), Host,
      Term("list", <<5, 6, 7, 8>>), Lbl("1", Host), Lbl("2", Host),
      Term("break", <<>>), Lbl("default", Host), Term("return", <<10>>), Host>>,
    {Start(3), Edge(3, {"1"}, 5), Edge(3, {"2"}, 6), Edge(3, {"0"}, 8),
     Edge(5, Vals, 6), Edge(6, Vals, 10), Edge(8, Vals, 10), Edge(10, Vals, 0)})

(* { do { h4; h5; } while(h6); goto here; h9; here: h10; } *)
DoGoto == Script(
    <<Term("list", <<2, 7, 9, 10>>), Term("dowhile", <<3, 6>>),
      Term("list", <<4, 5>>), Host, Host, Host, Term("goto", <<8>>),
      Const("here"), Host, Lbl("here", Host)>>,
    {Start(4), Edge(4, Vals, 5), Edge(5, Vals, 6), Edge(6, True, 4),
     Edge(6, {"0"}, 10), Edge(10, Vals, 0)})

(* { if(h3 == h4) { setvar("here",h7); return h9 + h10; } h11; }, the list  *)
(* of the if being a block *)
Operands == Script(
    <<Term("list", <<2, 11>>), Term("if", <<12, 5>>), Host, Host,
      Term("block", <<13, 8>>), Const("here"), Host, Term("return", <<14>>),
      Host, Host,
      Host, Term("binary", <<3, 4>>), Term("setvar", <<6, 7>>),
      Term("add", <<9, 10>>)>>,
    {Start(3), Edge(3, Vals, 4), Edge(4, Vals, 7), Edge(4, Vals, 11),
     Edge(7, Vals, 9), Edge(9, Vals, 10), Edge(10, Vals, 0),
     Edge(11, Vals, 0)})

(* { $v = h3; $v++; user(); $$v; return $v + h10; } *)
Variables == Script(
    <<Term("list", <<2, 5, 6, 7, 8>>), Term("assign", <<4, 3>>), Host,
      Term("var", <<>>), Term("increase", <<4>>), Term("user", <<>>),
      Term("getvar", <<4>>), Term("return", <<9>>), Term("add", <<4, 10>>),
      Host>>,
    {Start(3), Edge(3, Vals, 10), Edge(10, Vals, 0)})

(* { while(h3) { while(h5) { if(h7) break; h8; } h9; } }, with a for around *)
(* a switch whose break must not leave the for *)
Nested == Script(
    <<Term("while", <<2, 3>>), Host, Term("list", <<4, 9>>),
      Term("while", <<5, 6>>), Host, Term("list", <<7, 8>>),
      Term("if", <<10, 11, 12>>), Host,
      Term("for", <<12, 13, 12, 14>>), Host, Term("break", <<>>), NullTerm,
      Host, Term("list", <<15, 20>>), Term("switch", <<16, 17>>), Host,
      Term("list", <<18, 19, 21>>), Lbl("default", Host),
      Term("break", <<>>), Host, Lbl("1", Host)>>,
    {Start(2), Edge(2, True, 5), Edge(2, {"0"}, 0), Edge(5, True, 10),
     Edge(5, {"0"}, 13), Edge(10, True, 13), Edge(10, {"0"}, 8),
     Edge(8, Vals, 5), Edge(13, True, 16), Edge(13, {"0"}, 2),
     Edge(16, {"1"}, 21), Edge(16, {"0", "2"}, 18), Edge(21, Vals, 20),
     Edge(18, Vals, 20), Edge(20, Vals, 13)})

(* { while(h3) { while(h5) { if(h7) break; h8; } h9; } } *)
NestedWhile == Script(
    <<Term("while", <<2, 3>>), Host, Term("list", <<4, 9>>),
      Term("while", <<5, 6>>), Host, Term("list", <<7, 8>>),
      Term("if", <<10, 11, 12>>), Host, Host, Host, Term("break", <<>>),
      NullTerm>>,
    {Start(2), Edge(2, True, 5), Edge(2, {"0"}, 0), Edge(5, True, 10),
     Edge(5, {"0"}, 9), Edge(10, True, 9), Edge(10, {"0"}, 8),
     Edge(8, Vals, 5), Edge(9, Vals, 2)})

(* { for(h3; h4; $v++) { user(); user(); } h8 + h9; } *)
ForHead == Script(
    <<Term("list", <<2, 7>>), Term("for", <<3, 4, 5, 10>>), Host, Host,
      Term("increase", <<6>>), Term("var", <<>>), Term("add", <<8, 9>>),
      Host, Host, Term("list", <<11, 11>>), Term("user", <<>>)>>,
    {Start(3), Edge(3, Vals, 4), Edge(4, True, 4), Edge(4, {"0"}, 8),
     Edge(8, Vals, 9), Edge(9, Vals, 0)})

(* { for(h3; h4; $v++) { h7; h8; } h9; } *)
ForBlock == Script(
    <<Term("list", <<2, 9>>), Term("for", <<3, 4, 5, 6>>), Host, Host,
      Term("increase", <<10>>), Term("list", <<7, 8>>), Host, Host, Host,
      Term("var", <<>>)>>,
    {Start(3), Edge(3, Vals, 4), Edge(4, True, 7), Edge(4, {"0"}, 9),
     Edge(7, Vals, 8), Edge(8, Vals, 4), Edge(9, Vals, 0)})

(* { for(h3; 1; $v++) { if(h7) h8; else break; } h9; } *)
ForBreak == Script(
    <<Term("list", <<2, 9>>), Term("for", <<3, 4, 5, 12>>), Host, Const("1"),
      Term("increase", <<10>>), Term("if", <<7, 8, 11>>), Host, Host, Host,
      Term("var", <<>>), Term("break", <<>>), Term("list", <<6>>)>>,
    {Start(3), Edge(3, Vals, 7), Edge(7, True, 8), Edge(7, {"0"}, 9),
     Edge(8, Vals, 7), Edge(9, Vals, 0)})

(* { for(h3; h4; h5) { if(h7) break; } h9; } *)
ForBreakHead == Script(
    <<Term("list", <<2, 9>>), Term("for", <<3, 4, 5, 6>>), Host, Host, Host,
      Term("if", <<7, 8, 10>>), Host, Term("break", <<>>), Host, NullTerm>>,
    {Start(3), Edge(3, Vals, 4), Edge(4, True, 7), Edge(4, {"0"}, 9),
     Edge(7, True, 9), Edge(7, {"0"}, 5), Edge(5, Vals, 4), Edge(9, Vals, 0)})

(* { switch(h3) { case 1: h5; } h6; } *)
SwitchSkips == Script(
    <<Term("list", <<2, 6>>), Term("switch", <<3, 4>>), Host,
      Term("list", <<5>>), Lbl("1", Host), Host>>,
    {Start(3), Edge(3, {"1"}, 5), Edge(3, {"0", "2"}, 6), Edge(5, Vals, 6),
     Edge(6, Vals, 0)})

(* { while(h3) { if(h5) continue; h7; } h8; } *)
Continue == Script(
    <<Term("list", <<2, 8>>), Term("while", <<3, 4>>), Host,
      Term("list", <<6, 7>>), Host, Term("if", <<5, 9, 10>>), Host, Host,
      Term("goto", <<>>), NullTerm>>,
    {Start(3), Edge(3, True, 5), Edge(3, {"0"}, 8), Edge(5, True, 3),
     Edge(5, {"0"}, 7), Edge(7, Vals, 3), Edge(8, Vals, 0)})

(* { if(h3) { goto here; h6; } h7; here: h8; } *)
GotoOut == Script(
    <<Term("list", <<2, 7, 8>>), Term("if", <<3, 4, 9>>), Host,
      Term("list", <<5, 6>>), Term("goto", <<10>>), Host, Host,
      Lbl("here", Host), NullTerm, Const("here")>>,
    {Start(3), Edge(3, True, 8), Edge(3, {"0"}, 7), Edge(6, Vals, 7),
     Edge(7, Vals, 8), Edge(8, Vals, 0)})

(* { return h3 && h4; } *)
Conjunction == Script(
    <<Term("list", <<2>>), Term("return", <<5>>), Host, Host,
      Term("and", <<3, 4>>)>>,
    {Start(3), Edge(3, True, 4), Edge(3, {"0"}, 0), Edge(4, Vals, 0)})

Scripts == {Straight, WhileBreak, ForLoops, SwitchFalls, DoGoto, Operands,
            Variables, Nested, NestedWhile, ForHead, ForBlock, ForBreak,
            ForBreakHead, SwitchSkips, Continue, GotoOut, Conjunction}
AllPrograms == {s.terms : s \in Scripts}
ResumablePrograms == {s.terms : s \in {Straight, WhileBreak, DoGoto, Operands,
                                       NestedWhile, ForHead, ForBlock, ForBreak,
                                       Continue, GotoOut, Conjunction}}

-----------------------------------------------------------------------------
(* Scripts the code does not execute as its comments say *)

(* { while(h2) { h4; return h6; } } *)
ReturnInLoop == Script(
    <<Term("while", <<2, 3>>), Host, Term("list", <<4, 5>>), Host,
      Term("return", <<6>>), Host>>,
    {Start(2), Edge(2, True, 4), Edge(2, {"0"}, 0), Edge(4, Vals, 6),
     Edge(6, Vals, 0)})

(* { do { h4; if(h6) break; } while(h8); h9; } *)
DoBreak == Script(
    <<Term("list", <<2, 9>>), Term("dowhile", <<3, 8>>),
      Term("list", <<4, 5>>), Host, Term("if", <<6, 7, 10>>), Host,
      Term("break", <<>>), Host, Host, NullTerm>>,
    {Start(4), Edge(4, Vals, 6), Edge(6, True, 9), Edge(6, {"0"}, 8),
     Edge(8, True, 4), Edge(8, {"0"}, 9), Edge(9, Vals, 0)})

ReturnInLoopOnly == {ReturnInLoop.terms}
DoBreakOnly      == {DoBreak.terms}

AllScripts == Scripts \cup {ReturnInLoop, DoBreak}

-----------------------------------------------------------------------------
(* The scripts of the passing runs are such as the theorems about break and *)
(* return are about, the two above are not.  Each marking is the smallest   *)
(* one that NoBreakInDo and OutermostReturns allow. *)
Params(p, n) == {p[n].args[i] : i \in DOMAIN p[n].args}

Closure(p, start, through) ==
    LET grow[i \in 0 .. Len(p)] ==
            IF i = 0 THEN start
            ELSE LET found == grow[i - 1] IN
                 found \cup UNION {Params(p, n) : n \in found \cap through}
    IN grow[Len(p)]

InsideDo(p) ==
    Closure(p, UNION {Params(p, n) : n \in {m \in 1 .. Len(p) : p[m].op = "dowhile"}},
            {m \in 1 .. Len(p) : p[m].op \notin ClearsBreak})

PlainTerms(p) ==
    Closure(p, UNION {{p[n].args[i] : i \in {j \in DOMAIN p[n].args :
                           p[n].op \notin ListOps /\ ~(p[n].op = "if" /\ j > 1)}} :
                      n \in 1 .. Len(p)},
            1 .. Len(p))

ASSUME MCNoBreakInDo ==
    /\ \A p \in AllPrograms : NoBreakInDo(p, InsideDo(p))
    /\ ~NoBreakInDo(DoBreak.terms, InsideDo(DoBreak.terms))

ASSUME MCOutermostReturns ==
    /\ \A p \in AllPrograms : OutermostReturns(p, PlainTerms(p))
    /\ ~OutermostReturns(ReturnInLoop.terms, PlainTerms(ReturnInLoop.terms))

(* The scripts of the run resume are continuable; those with a switch, an   *)
(* assignment of what a host function answers or a for whose increment      *)
(* calls one are not. *)
Within(p, n) == Closure(p, {n}, 1 .. Len(p))

IdleTerms(p) == {n \in 1 .. Len(p) : \A m \in Within(p, n) : p[m].op # "host"}

CalmTerms(p) ==
    {n \in 1 .. Len(p) :
        \A m \in Within(p, n) : p[m].op \notin {"break", "return", "goto"}}

JumpTerms(p) ==
    {n \in 1 .. Len(p) : \/ p[n].op = "goto"
                         \/ p[n].op = "if" /\ n \notin CalmTerms(p)}

MCContinuable(p) == Continuable(p, IdleTerms(p), CalmTerms(p), JumpTerms(p))

ASSUME MCResumable ==
    /\ \A p \in ResumablePrograms : MCContinuable(p)
    /\ \A p \in AllPrograms \ ResumablePrograms : ~MCContinuable(p)

-----------------------------------------------------------------------------
(* Scripts whose jumps the code can make: every switch has a default, and   *)
(* every goto names a label of the innermost list around it, since a list   *)
(* that finds no label raises.  A continue names none. *)
StatementsOf(p, n) ==
    Closure(p, {n}, {n} \cup {m \in 1 .. Len(p) : p[m].op \notin ListOps})

HasLabel(p, n, l) ==
    p[n].op \in ListOps /\ \E m \in Params(p, n) : p[m].label = l

JumpsLand(p) ==
    \A n \in 1 .. Len(p) :
        /\ p[n].op = "switch" => HasLabel(p, p[n].args[2], DefaultLabel)
        /\ p[n].op = "goto" =>
              /\ p[n].args # <<>>
              /\ \A m \in 1 .. Len(p) :
                    p[m].op \in ListOps /\ n \in StatementsOf(p, m) =>
                        HasLabel(p, m, p[p[n].args[1]].val)

(* Scripts in which C's order of evaluation and the code's are the same.    *)
(* The code evaluates every operand of && (UMFunction_and.m:58-84), and the *)
(* increment and condition of a for once more after a break                 *)
(* (UMFunction_for.m:104-132). *)
OperandsIdle(p) ==
    \A n \in 1 .. Len(p) :
        p[n].op = "and" =>
            \A i \in DOMAIN p[n].args : i > 1 => p[n].args[i] \in IdleTerms(p)

Broken(p, n) ==
    \E m \in Closure(p, {p[n].args[4]},
                     {k \in 1 .. Len(p) : p[k].op \notin ClearsBreak}) :
        p[m].op = "break"

BrokenHeadsIdle(p) ==
    \A n \in 1 .. Len(p) :
        p[n].op = "for" /\ Broken(p, n) =>
            p[n].args[2] \in IdleTerms(p) /\ p[n].args[3] \in IdleTerms(p)

(* Scripts whose for loops can be continued as well: one that is continued  *)
(* in its block tests its condition no more (UMFunction_for.m:88). *)
BlocksIdle(p) ==
    \A n \in 1 .. Len(p) :
        p[n].op = "for" => \/ p[n].args[4] \in IdleTerms(p)
                          \/ p[p[n].args[2]].op = "const"

FlowHolds(p) ==
    /\ JumpsLand(p) /\ OperandsIdle(p) /\ BrokenHeadsIdle(p)
    /\ QueueAllocated => BlocksIdle(p)

FlowPrograms == {p \in AllPrograms : FlowHolds(p)}
LandPrograms == {p \in AllPrograms : JumpsLand(p)}

Departing == {SwitchSkips, Continue, GotoOut, Conjunction, ForBreakHead}
Unresumed == {ForLoops, ForBlock, Nested}

ASSUME MCFlowHolds ==
    \A s \in Scripts :
        /\ s.terms \in LandPrograms <=> s \notin {SwitchSkips, Continue, GotoOut}
        /\ s.terms \in FlowPrograms <=>
              s \notin Departing \cup (IF QueueAllocated THEN Unresumed ELSE {})

-----------------------------------------------------------------------------
Flow == (CHOOSE s \in AllScripts : s.terms = prog).flow
OnEdge(to) ==
    \E e \in Flow : /\ e.from = hist.last.node
                    /\ hist.last.val \in e.vals
                    /\ e.to = to

FlowStep ==
    /\ hist'.tick # hist.tick /\ status' = "running" /\ status = "running"
          => OnEdge(hist'.last.node)
    /\ status = "running" /\ status' = "done" /\ calls = <<>>
          => OnEdge(0)

(* The evaluator executes a script the way C does: the host functions       *)
(* answer in an order the script's flow allows given their answers, and     *)
(* the script ends where the flow ends unless a host function raised.  For  *)
(* scripts without the constructs FlowHolds names. *)
FollowsFlow == [][(prog \in FlowPrograms) => FlowStep]_vars

Aborts == status = "running" /\ status' = "done" /\ calls # <<>> /\ Op # "host"

(* A script whose jumps land is not aborted by an exception of the          *)
(* evaluator's own, in whatever loops, lists and switches the jumps are and *)
(* whatever raised or interrupted the runs before: only a host function     *)
(* raises. *)
OnlyHostRaises == [][(prog \in LandPrograms) => ~Aborts]_vars

(* UMEnvironment.jumpTo outlives the run: a jump that is still pending when *)
(* a run is over, ended by the host's exception or interrupt even, would be *)
(* made by the first list of the next run in the environment.  None is,     *)
(* where jumps land. *)
NoJumpPending == prog \in LandPrograms /\ status # "running" => jumpTo = Nil

=============================================================================

-------------------------- MODULE UMScriptDocument --------------------------
(***************************************************************************)
(* UMScriptDocument: a text, and the code and the functions it was last    *)
(* compiled to.  Threads run a document they share, each in an             *)
(* UMEnvironment of its own; a run compiles the text when the document is  *)
(* not compiled.  The fields are plain: every access to one is a step.     *)
(*                                                                         *)
(* A compile is the part of compile:stdOut:stdErr: that the document can   *)
(* see: the lock, the pipes that may fail, the definitions the parser adds *)
(* to the compiler environment one after the other, and the root it leaves *)
(* there.  The parser resolves a call to the function that has the name at *)
(* that moment, so code is known by the text it is of and by the texts     *)
(* whose functions it reaches.  Nothing that is evaluated reads the        *)
(* function dictionary a run gives to its UMEnvironment.                   *)
(***************************************************************************)
EXTENDS Naturals, Sequences

CONSTANTS
    Thread,
    Document,
    HostEnv,    \* the compiler environments the host keeps
    EnvsOf,     \* those of them that it compiles a document with
    Texts,      \* the texts a document may be given
    Functions,  \* of a text: the functions the parser defines before it ends
                \* or meets a syntax error, their names and what they call
    Setters,    \* how the host sets a text: "sourceCode" is the setter the
                \* property has, "_sourceCode" the method of the source
    Null

Text == DOMAIN Functions
Name == UNION {{Functions[s][i].name : i \in DOMAIN Functions[s]} : s \in Text}

(* compileSource makes a compiler environment for the call: its thread's. *)
CEnv == HostEnv \cup Thread

(* Code: the text it is of, and the texts whose functions it runs. *)
Code == [of : Text, reaches : SUBSET Text]

ASSUME DocumentAssumption ==
    /\ HostEnv \cap Thread = {}
    /\ EnvsOf \in [Document -> SUBSET HostEnv]
    /\ Texts \in [Document -> SUBSET Text]
    /\ \A s \in Text : Functions[s] \in Seq([name : STRING, calls : SUBSET STRING])
    /\ Setters \subseteq {"sourceCode", "_sourceCode"}
    /\ Null \notin CEnv \cup Document \cup Code

VARIABLES
    sourceCode,         \* of each document
    compiledCode,
    isCompiled,
    compiledFunctions,
    functionDictionary, \* of each compiler environment
    root,
    lock,               \* its _compileLock: the thread that holds it, or Null
    pc,                 \* where each thread is
    call,               \* the document, the compiler environment and the text
                        \* of its call, and does it run the document?
    pos,                \* the definition its parser is at
    result,             \* what compile returned, then the code it evaluates
    noPipes             \* did a compile of the document's text lack pipes?

docVars == <<sourceCode, compiledCode, isCompiled, compiledFunctions, noPipes>>
envVars == <<functionDictionary, root, lock>>
vars == <<docVars, envVars, pc, call, pos, result>>

NoFunctions == [n \in Name |-> Null]
NoCall == [doc |-> Null, env |-> Null, text |-> Null, runs |-> FALSE]

Init ==
    /\ sourceCode \in {f \in [Document -> Text] : \A d \in Document : f[d] \in Texts[d]}
    /\ compiledCode = [d \in Document |-> Null]
    /\ isCompiled = [d \in Document |-> FALSE]
    /\ compiledFunctions = [d \in Document |-> Null]
    /\ functionDictionary = [e \in CEnv |-> NoFunctions]
    /\ root = [e \in CEnv |-> Null]
    /\ lock = [e \in CEnv |-> Null]
    /\ pc = [t \in Thread |-> "idle"]
    /\ call = [t \in Thread |-> NoCall]
    /\ pos = [t \in Thread |-> 0]
    /\ result = [t \in Thread |-> Null]
    /\ noPipes = [d \in Document |-> FALSE]

Goes(t, to) == pc' = [pc EXCEPT ![t] = to]
At(t, where) == pc[t] = where
Doc(t) == call[t].doc
Env(t) == call[t].env

(* compile:stdOut:stdErr: is sent with the text, before the lock is taken. *)
Send(t) ==
    /\ call' = [call EXCEPT ![t].text = sourceCode[Doc(t)]]
    /\ Goes(t, "lock")

-----------------------------------------------------------------------------
(* The host *)

(* runScriptWithEnvironment:continueFrom: *)
Run(t, d) ==
    /\ At(t, "idle")
    /\ call' = [call EXCEPT ![t] = [doc |-> d, env |-> t, text |-> Null, runs |-> TRUE]]
    /\ Goes(t, "check")
    /\ UNCHANGED <<docVars, envVars, pos, result>>

(* compileSource, compileSourceWithCompilerEnvironment: *)
Compile(t, d, e) ==
    /\ At(t, "idle")
    /\ call' = [call EXCEPT ![t] = [doc |-> d, env |-> e, text |-> sourceCode[d],
                                    runs |-> FALSE]]
    /\ Goes(t, "lock")
    /\ UNCHANGED <<docVars, envVars, pos, result>>

(* The run of an interrupt goes on, in a second call. *)
Continue(t) ==
    /\ At(t, "interrupted")
    /\ Goes(t, "check")
    /\ UNCHANGED <<docVars, envVars, call, pos, result>>

(* A text is set while no thread uses the document. *)
SetSource(d, s, how) ==
    /\ \A t \in Thread : Doc(t) # d
    /\ sourceCode[d] # s
    /\ sourceCode' = [sourceCode EXCEPT ![d] = s]
    /\ isCompiled' = [isCompiled EXCEPT ![d] = @ /\ how = "sourceCode"]
    /\ noPipes' = [noPipes EXCEPT ![d] = FALSE]
    /\ UNCHANGED <<compiledCode, compiledFunctions, envVars, pc, call, pos, result>>

-----------------------------------------------------------------------------
(* compile:stdOut:stdErr: *)

(* Mutant: the parser's globals are left unguarded. *)
LockUnguarded(t) ==
    /\ At(t, "lock")
    /\ lock' = [lock EXCEPT ![Env(t)] = t]
    /\ Goes(t, "pipes")
    /\ UNCHANGED <<docVars, functionDictionary, root, call, pos, result>>

Lock(t) ==
    /\ At(t, "lock") /\ lock[Env(t)] = Null
    /\ lock' = [lock EXCEPT ![Env(t)] = t]
    /\ Goes(t, "pipes")
    /\ UNCHANGED <<docVars, functionDictionary, root, call, pos, result>>

Unlock(t) == lock' = [lock EXCEPT ![Env(t)] = Null]

(* Mutant: an early return leaves the lock taken. *)
PipesFailLocked(t) ==
    /\ At(t, "pipes")
    /\ result' = [result EXCEPT ![t] = Null]
    /\ noPipes' = [noPipes EXCEPT ![Doc(t)] = TRUE]
    /\ Goes(t, "assign")
    /\ UNCHANGED <<sourceCode, compiledCode, isCompiled, compiledFunctions,
                   envVars, call, pos>>

PipesFail(t) ==
    /\ At(t, "pipes")
    /\ result' = [result EXCEPT ![t] = Null]
    /\ noPipes' = [noPipes EXCEPT ![Doc(t)] = TRUE]
    /\ Unlock(t)
    /\ Goes(t, "assign")
    /\ UNCHANGED <<sourceCode, compiledCode, isCompiled, compiledFunctions,
                   functionDictionary, root, call, pos>>

Pipes(t) ==
    /\ At(t, "pipes")
    /\ pos' = [pos EXCEPT ![t] = 1]
    /\ Goes(t, "parse")
    /\ UNCHANGED <<docVars, envVars, call, result>>

(* The code of definition i of text s, calls resolved in environment e. *)
Reached(f) == IF f = Null THEN {} ELSE f.reaches
Linked(e, s, i) ==
    [of |-> s,
     reaches |-> {s} \cup UNION {Reached(functionDictionary[e][n]) :
                                    n \in Functions[s][i].calls \cap Name}]

(* addFunctionDefinition: *)
Define(t) ==
    LET s == call[t].text
        e == Env(t)
        f == Functions[s][pos[t]]
        code == Linked(e, s, pos[t])
    IN /\ At(t, "parse") /\ pos[t] <= Len(Functions[s])
       /\ functionDictionary' = [functionDictionary EXCEPT ![e][f.name] = code]
       /\ root' = IF f.name = "main" THEN [root EXCEPT ![e] = code] ELSE root
       /\ pos' = [pos EXCEPT ![t] = @ + 1]
       /\ UNCHANGED <<docVars, lock, pc, call, result>>

(* The parser has returned: compile hands out the root, and forgets it. *)
TakeRoot(t) ==
    /\ At(t, "parse") /\ pos[t] > Len(Functions[call[t].text])
    /\ result' = [result EXCEPT ![t] = root[Env(t)]]
    /\ root' = [root EXCEPT ![Env(t)] = Null]
    /\ pos' = [pos EXCEPT ![t] = 0]
    /\ Unlock(t)
    /\ Goes(t, "assign")
    /\ UNCHANGED <<docVars, functionDictionary, call>>

-----------------------------------------------------------------------------
(* The rest of compileSourceWithCompilerEnvironment: *)

AssignCode(t) ==
    /\ At(t, "assign")
    /\ compiledCode' = [compiledCode EXCEPT ![Doc(t)] = result[t]]
    /\ result' = [result EXCEPT ![t] = Null]
    /\ Goes(t, "test")
    /\ UNCHANGED <<sourceCode, isCompiled, compiledFunctions, noPipes, envVars,
                   call, pos>>

(* if(_compiledCode) reads the field again. *)
TestCode(t) ==
    /\ At(t, "test")
    /\ Goes(t, IF compiledCode[Doc(t)] # Null THEN "mark" ELSE "unmark")
    /\ UNCHANGED <<docVars, envVars, call, pos, result>>

MarkCompiled(t) ==
    /\ At(t, "mark")
    /\ isCompiled' = [isCompiled EXCEPT ![Doc(t)] = TRUE]
    /\ Goes(t, "functions")
    /\ UNCHANGED <<sourceCode, compiledCode, compiledFunctions, noPipes, envVars,
                   call, pos, result>>

(* The document and an environment the host keeps share the dictionary; the *)
(* one compileSource made belongs to the document alone. *)
DictionaryOf(t) == IF Env(t) = t THEN functionDictionary[t] ELSE Env(t)

(* Mutant: compileSource uses the thread's last environment again. *)
CompiledKeepsEnvironment(t) ==
    /\ Goes(t, IF call[t].runs THEN "evaluate" ELSE "idle")
    /\ call' = IF call[t].runs THEN call ELSE [call EXCEPT ![t] = NoCall]
    /\ UNCHANGED functionDictionary

(* The compile ends, with it the environment compileSource made, and the call *)
(* unless it runs the document. *)
Compiled(t) ==
    /\ functionDictionary' = [e \in CEnv |-> IF e = t THEN NoFunctions
                                                     ELSE functionDictionary[e]]
    /\ Goes(t, IF call[t].runs THEN "evaluate" ELSE "idle")
    /\ call' = IF call[t].runs THEN call ELSE [call EXCEPT ![t] = NoCall]

(* Mutant: only the first compile of a document assigns its functions. *)
AssignFunctionsOnce(t) ==
    /\ At(t, "functions")
    /\ compiledFunctions' = [compiledFunctions EXCEPT
                                ![Doc(t)] = IF @ = Null THEN DictionaryOf(t) ELSE @]
    /\ Compiled(t)
    /\ UNCHANGED <<sourceCode, compiledCode, isCompiled, noPipes, root, lock, pos,
                   result>>

AssignFunctions(t) ==
    /\ At(t, "functions")
    /\ compiledFunctions' = [compiledFunctions EXCEPT ![Doc(t)] = DictionaryOf(t)]
    /\ Compiled(t)
    /\ UNCHANGED <<sourceCode, compiledCode, isCompiled, noPipes, root, lock, pos,
                   result>>

UnmarkCompiled(t) ==
    /\ At(t, "unmark")
    /\ isCompiled' = [isCompiled EXCEPT ![Doc(t)] = FALSE]
    /\ Compiled(t)
    /\ UNCHANGED <<sourceCode, compiledCode, compiledFunctions, noPipes, root, lock,
                   pos, result>>

-----------------------------------------------------------------------------
(* runScriptWithEnvironment:continueFrom: *)

(* (_isCompiled==NO) || (_compiledCode==NULL) *)
Check(t) ==
    /\ At(t, "check")
    /\ \/ /\ isCompiled[Doc(t)]
          /\ Goes(t, "checkCode")
          /\ UNCHANGED call
       \/ /\ ~isCompiled[Doc(t)]
          /\ Send(t)
    /\ UNCHANGED <<docVars, envVars, pos, result>>

CheckCode(t) ==
    /\ At(t, "checkCode")
    /\ \/ /\ compiledCode[Doc(t)] # Null
          /\ Goes(t, "evaluate")
          /\ UNCHANGED call
       \/ /\ compiledCode[Doc(t)] = Null
          /\ Send(t)
    /\ UNCHANGED <<docVars, envVars, pos, result>>

(* A message to NULL evaluates nothing. *)
Evaluate(t) ==
    /\ At(t, "evaluate")
    /\ result' = [result EXCEPT ![t] = compiledCode[Doc(t)]]
    /\ Goes(t, "evaluating")
    /\ UNCHANGED <<docVars, envVars, call, pos>>

(* The script ends, or an exception ends it that the run catches. *)
Return(t) ==
    /\ At(t, "evaluating")
    /\ call' = [call EXCEPT ![t] = NoCall]
    /\ result' = [result EXCEPT ![t] = Null]
    /\ Goes(t, "idle")
    /\ UNCHANGED <<docVars, envVars, pos>>

Interrupt(t) ==
    /\ At(t, "evaluating") /\ result[t] # Null
    /\ result' = [result EXCEPT ![t] = Null]
    /\ Goes(t, "interrupted")
    /\ UNCHANGED <<docVars, envVars, call, pos>>

-----------------------------------------------------------------------------
Step(t) ==
    \/ Lock(t) \/ PipesFail(t) \/ Pipes(t) \/ Define(t) \/ TakeRoot(t)
    \/ AssignCode(t) \/ TestCode(t) \/ MarkCompiled(t) \/ AssignFunctions(t)
    \/ UnmarkCompiled(t)
    \/ Check(t) \/ CheckCode(t) \/ Evaluate(t) \/ Return(t) \/ Interrupt(t)

Host ==
    \/ \E t \in Thread, d \in Document :
          Run(t, d) \/ \E e \in EnvsOf[d] \cup {t} : Compile(t, d, e)
    \/ \E t \in Thread : Continue(t)
    \/ \E d \in Document : \E s \in Texts[d], how \in Setters : SetSource(d, s, how)

Next == Host \/ \E t \in Thread : Step(t)

Spec == Init /\ [][Next]_vars

(* A thread that was called goes on; the host need not call. *)
FairSpec == Spec /\ \A t \in Thread : WF_vars(Step(t))

-----------------------------------------------------------------------------
(* Properties *)

Locations ==
    {"idle", "check", "checkCode", "lock", "pipes", "parse", "assign",
     "test", "mark", "unmark", "functions", "evaluate", "evaluating", "interrupted"}

Calls ==
    {NoCall} \cup [doc : Document, env : CEnv, text : Text \cup {Null}, runs : BOOLEAN]

(* Every variable holds what its comment says. *)
TypeOK ==
    /\ sourceCode \in [Document -> Text]
    /\ compiledCode \in [Document -> Code \cup {Null}]
    /\ isCompiled \in [Document -> BOOLEAN]
    /\ functionDictionary \in [CEnv -> [Name -> Code \cup {Null}]]
    /\ root \in [CEnv -> Code \cup {Null}]
    /\ lock \in [CEnv -> Thread \cup {Null}]
    /\ pc \in [Thread -> Locations]
    /\ call \in [Thread -> Calls]
    /\ pos \in [Thread -> Nat]
    /\ result \in [Thread -> Code \cup {Null}]
    /\ noPipes \in [Document -> BOOLEAN]

(* Does the parser meet a main in the text? *)
HasMain(s) == \E i \in DOMAIN Functions[s] : Functions[s][i].name = "main"

(* Code c is what the document's text compiles to: nothing only when the    *)
(* text has no main, or a compile of it lacked pipes. *)
Current(d, c) ==
    IF c = Null THEN noPipes[d] \/ ~HasMain(sourceCode[d])
                ELSE c.of = sourceCode[d]

(* What a thread evaluates is the code of the text the document has, however *)
(* many threads run, compile and fail to compile the document at the time    *)
(* (UMScriptDocument.m:60-77, 109-132). *)
RunsCurrentSource ==
    \A t \in Thread : At(t, "evaluating") => Current(Doc(t), result[t])

Compiling(t) ==
    pc[t] \in {"lock", "pipes", "parse", "assign", "test", "mark",
               "unmark", "functions"}

FunctionsOf(d) ==
    IF compiledFunctions[d] \in HostEnv THEN functionDictionary[compiledFunctions[d]]
                                        ELSE compiledFunctions[d]

(* A compiled document that nobody compiles has, with its code, the functions *)
(* of the same text: neither a syntax error nor a change of the text leaves   *)
(* those of an older one behind.  Without pipes it would not hold: a compile  *)
(* that got none may find the code another one assigned, and add its empty    *)
(* dictionary to it (UMScriptDocument.m:114-127). *)
FunctionsAreCurrent ==
    \A d \in Document :
        (/\ isCompiled[d] /\ compiledCode[d] # Null /\ ~noPipes[d]
         /\ \A t \in Thread : Doc(t) = d => ~Compiling(t))
        => \A i \in DOMAIN Functions[sourceCode[d]] :
              LET f == FunctionsOf(d)[Functions[sourceCode[d]][i].name]
              IN f # Null /\ f.of = sourceCode[d]

(* The code compileSource returns calls functions of its own text only, not  *)
(* those of another document, of an older text or of another thread          *)
(* (UMScriptDocument.m:103-107, UMTerm.m:1563, UMScriptCompilerEnvironment.m:264). *)
CompilesFromScratch ==
    \A t \in Thread :
        At(t, "assign") /\ Env(t) = t /\ result[t] # Null
        => result[t] = [of |-> call[t].text, reaches |-> {call[t].text}]

(* Whatever becomes of a compile, others can use the environment the host    *)
(* keeps after it (UMScriptCompilerEnvironment.m:131, 206-209). *)
LockIsReleased ==
    \A e \in HostEnv, t \in Thread : lock[e] = t ~> lock[e] # t

=============================================================================

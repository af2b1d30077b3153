------------------------ MODULE UMScriptDocumentProofs ------------------------
(***************************************************************************)
(* Proofs about UMScriptDocument, for any threads, documents, texts and    *)
(* compiler environments, when the host sets a text with set_sourceCode:   *)
(* and not with the property's setter: a run evaluates the code of the     *)
(* text its document has, compileSource resolves calls in the text it      *)
(* compiles only, and a compiled document has the functions of its text.   *)
(*                                                                         *)
(* IInv says what holds in between.  LockOK and RootOK: the root of an     *)
(* environment is what the thread that holds the lock has parsed so far.   *)
(* PendingOK and CodeOK: what a compile hands out, what a compiled         *)
(* document has, and what a thread has found there, is current.  FreshOK:  *)
(* the environment of a compileSource knows the text it compiles.  FInv    *)
(* adds what a compile has put into its environment's dictionary so far,   *)
(* and who is about to give a compiled document its functions.             *)
(***************************************************************************)
EXTENDS UMScriptDocument, TLAPS

(* A call has a document and an environment, and a compile the text of it. *)
CallOK ==
    \A t \in Thread :
        /\ pc[t] = "idle" => call[t] = NoCall
        /\ pc[t] # "idle" => Doc(t) \in Document /\ Env(t) \in HostEnv \cup {t}
        /\ pc[t] \in {"lock", "pipes", "parse", "assign"}
              => call[t].text = sourceCode[Doc(t)]

(* The lock of an environment is held where its compile needs it. *)
LockOK ==
    \A t \in Thread :
        /\ pc[t] \in {"pipes", "parse"} => lock[Env(t)] = t
        /\ pc[t] = "parse" => pos[t] \in Nat \ {0}
        /\ \A e \in CEnv : lock[e] = t => pc[t] \in {"pipes", "parse"} /\ Env(t) = e

(* Has the parser of thread t met a main? *)
MetMain(t) ==
    \E i \in DOMAIN Functions[call[t].text] :
        i < pos[t] /\ Functions[call[t].text][i].name = "main"

RootOK ==
    /\ \A e \in CEnv : lock[e] = Null => root[e] = Null
    /\ \A t \in Thread : pc[t] = "pipes" => root[Env(t)] = Null
    /\ \A t \in Thread : pc[t] = "parse" =>
          IF root[Env(t)] = Null THEN ~MetMain(t)
                                 ELSE root[Env(t)].of = call[t].text

(* What compile returned, and what a run evaluates. *)
PendingOK ==
    \A t \in Thread :
        pc[t] \in {"assign", "evaluating"} => Current(Doc(t), result[t])

(* The code of a document, once it is marked or a thread relies on it. *)
CodeOK ==
    /\ \A d \in Document : isCompiled[d] => Current(d, compiledCode[d])
    /\ \A t \in Thread :
          pc[t] \in {"checkCode", "test", "mark", "unmark", "functions", "evaluate"}
          => Current(Doc(t), compiledCode[Doc(t)])

OwnCode(t) == [of |-> call[t].text, reaches |-> {call[t].text}]

(* The environment of a compileSource. *)
Fresh(t) ==
    /\ pc[t] \in {"idle", "check", "checkCode", "lock", "pipes", "evaluate",
                  "evaluating", "interrupted"}
          => functionDictionary[t] = NoFunctions
    /\ pc[t] # "idle" /\ Env(t) # t => functionDictionary[t] = NoFunctions
    /\ pc[t] = "parse" /\ Env(t) = t
          => /\ root[t] # Null => root[t] = OwnCode(t)
             /\ \A n \in Name : functionDictionary[t][n] # Null
                                => functionDictionary[t][n] = OwnCode(t)
    /\ pc[t] = "assign" /\ Env(t) = t /\ result[t] # Null
          => result[t] = OwnCode(t)

FreshOK == \A t \in Thread : Fresh(t)

IInv ==
    TypeOK /\ CallOK /\ LockOK /\ RootOK /\ PendingOK /\ CodeOK /\ FreshOK

(* The host sets texts with the method that forgets the code. *)
Forgets == "sourceCode" \notin Setters

-----------------------------------------------------------------------------
(* A definition is code, and the positions of a text are those of a sequence. *)
LEMMA LinkedIsCode ==
    ASSUME TypeOK, NEW e \in CEnv, NEW s \in Text, NEW i \in DOMAIN Functions[s]
    PROVE  Linked(e, s, i) \in Code
  <1>1. \A n \in Name : Reached(functionDictionary[e][n]) \in SUBSET Text
    BY DEF TypeOK, Reached, Code
  <1>2. UNION {Reached(functionDictionary[e][n]) :
                  n \in Functions[s][i].calls \cap Name} \subseteq Text
    BY <1>1
  <1>3. QED
    BY <1>2 DEF Linked, Code

LEMMA Positions ==
    ASSUME NEW s \in Text
    PROVE  /\ Len(Functions[s]) \in Nat
           /\ DOMAIN Functions[s] = 1 .. Len(Functions[s])
           /\ \A i \in DOMAIN Functions[s] : Functions[s][i].name \in Name
  <1>1. Functions[s] \in Seq([name : STRING, calls : SUBSET STRING])
    BY DocumentAssumption
  <1>2. QED
    BY <1>1 DEF Name

(* One value of a function, and of a function of functions, changes. *)
LEMMA Updated ==
    ASSUME NEW D, NEW N, NEW C, NEW F \in [D -> [N -> C]],
           NEW d \in D, NEW n \in N, NEW c \in C
    PROVE  [F EXCEPT ![d][n] = c] \in [D -> [N -> C]]
  OBVIOUS

LEMMA UpdatedAt ==
    ASSUME NEW D, NEW C, NEW F \in [D -> C], NEW d \in D, NEW c \in C
    PROVE  [F EXCEPT ![d] = c] \in [D -> C]
  OBVIOUS

(* The record of a call that is under way. *)
LEMMA CallUnderWay ==
    ASSUME IInv, NEW t \in Thread, pc[t] # "idle"
    PROVE  /\ call[t] \in [doc : Document, env : CEnv, text : Text \cup {Null},
                           runs : BOOLEAN]
           /\ Doc(t) \in Document /\ Env(t) \in CEnv
  BY DocumentAssumption DEF IInv, TypeOK, CallOK, Calls, NoCall, Doc, Env, CEnv

(* A thread's step leaves the environments of the other threads alone. *)
LEMMA OthersFresh ==
    ASSUME FreshOK, NEW t \in Thread, Fresh(t)',
           \A u \in Thread \ {t} :
              /\ pc'[u] = pc[u] /\ call'[u] = call[u] /\ result'[u] = result[u]
              /\ functionDictionary'[u] = functionDictionary[u]
              /\ root'[u] = root[u]
    PROVE  FreshOK'
  <1>1. ASSUME NEW u \in Thread \ {t} PROVE Fresh(u)'
    <2>1. Fresh(u)
      BY DEF FreshOK
    <2>2. /\ pc'[u] = pc[u] /\ call'[u] = call[u] /\ result'[u] = result[u]
          /\ functionDictionary'[u] = functionDictionary[u] /\ root'[u] = root[u]
      OBVIOUS
    <2>3. QED
      BY <2>1, <2>2 DEF Fresh, OwnCode, Env
  <1>2. QED
    BY <1>1 DEF FreshOK

LEMMA InitEstablishes == Init => IInv
  <1> SUFFICES ASSUME Init PROVE IInv
    OBVIOUS
  <1> USE DEF Init
  <1>1. TypeOK
    BY DEF TypeOK, NoFunctions, Calls, Locations
  <1>2. CallOK
    BY DEF CallOK
  <1>3. LockOK
    BY DocumentAssumption DEF LockOK, CEnv
  <1>4. RootOK /\ PendingOK /\ CodeOK
    BY DEF RootOK, PendingOK, CodeOK
  <1>5. FreshOK
    BY DocumentAssumption DEF FreshOK, Fresh, CEnv
  <1>6. QED
    BY <1>1, <1>2, <1>3, <1>4, <1>5 DEF IInv

LEMMA RunKeeps ==
    ASSUME IInv, NEW t \in Thread, NEW d \in Document, Run(t, d)
    PROVE  IInv'
  <1> USE DocumentAssumption DEF IInv, At, Goes, Run
  <1>1. TypeOK'
    BY CallUnderWay DEF TypeOK, Calls, NoCall, Locations, Code, CEnv, docVars,
       envVars
  <1>2. CallOK'
    BY DEF CallOK, TypeOK, Calls, NoCall, Doc, Env, docVars, envVars
  <1>3. LockOK'
    BY DEF LockOK, CallOK, TypeOK, Calls, NoCall, Doc, Env, CEnv, docVars,
       envVars
  <1>4. RootOK'
    BY DEF RootOK, MetMain, LockOK, CallOK, TypeOK, Calls, NoCall, Doc, Env,
       CEnv, docVars, envVars
  <1>5. PendingOK'
    BY DEF PendingOK, Current, CodeOK, CallOK, TypeOK, Calls, NoCall, Doc, Env,
       docVars, envVars
  <1>6. CodeOK'
    BY DEF CodeOK, Current, PendingOK, CallOK, TypeOK, Calls, NoCall, Doc, Env,
       docVars, envVars
  <1>7. FreshOK'
    <2>1. \A u \in Thread \ {t} :
             /\ pc'[u] = pc[u] /\ call'[u] = call[u] /\ result'[u] = result[u]
             /\ functionDictionary'[u] = functionDictionary[u]
             /\ root'[u] = root[u]
      BY CallUnderWay DEF TypeOK, CallOK, Env, CEnv, docVars, envVars
    <2>2. Fresh(t)
      BY DEF FreshOK
    <2>3. /\ pc'[t] = "check"
          /\ call'[t] = [doc |-> d, env |-> t, text |-> Null, runs |-> TRUE]
          /\ result'[t] = result[t]
          /\ functionDictionary'[t] = functionDictionary[t]
          /\ root'[t] = root[t]
      BY CallUnderWay DEF TypeOK, CallOK, Env, CEnv, docVars, envVars
    <2>4. Fresh(t)'
      BY <2>2, <2>3 DEF Fresh, OwnCode, NoCall, Env, Doc
    <2>5. QED
      BY <2>1, <2>4, OthersFresh
  <1>8. QED
    BY <1>1, <1>2, <1>3, <1>4, <1>5, <1>6, <1>7

LEMMA CompileKeeps ==
    ASSUME IInv, NEW t \in Thread, NEW d \in Document, NEW e \in EnvsOf[d] \cup {t},
           Compile(t, d, e)
    PROVE  IInv'
  <1> USE DocumentAssumption DEF IInv, At, Goes, Compile
  <1>1. TypeOK'
    BY CallUnderWay DEF TypeOK, Calls, NoCall, Locations, Code, CEnv, docVars,
       envVars
  <1>2. CallOK'
    BY DEF CallOK, TypeOK, Calls, NoCall, Doc, Env, docVars, envVars
  <1>3. LockOK'
    BY DEF LockOK, CallOK, TypeOK, Calls, NoCall, Doc, Env, CEnv, docVars,
       envVars
  <1>4. RootOK'
    BY DEF RootOK, MetMain, LockOK, CallOK, TypeOK, Calls, NoCall, Doc, Env,
       CEnv, docVars, envVars
  <1>5. PendingOK'
    BY DEF PendingOK, Current, CodeOK, CallOK, TypeOK, Calls, NoCall, Doc, Env,
       docVars, envVars
  <1>6. CodeOK'
    BY DEF CodeOK, Current, PendingOK, CallOK, TypeOK, Calls, NoCall, Doc, Env,
       docVars, envVars
  <1>7. FreshOK'
    <2>1. \A u \in Thread \ {t} :
             /\ pc'[u] = pc[u] /\ call'[u] = call[u] /\ result'[u] = result[u]
             /\ functionDictionary'[u] = functionDictionary[u]
             /\ root'[u] = root[u]
      BY CallUnderWay DEF TypeOK, CallOK, Env, CEnv, docVars, envVars
    <2>2. Fresh(t)
      BY DEF FreshOK
    <2>3. /\ pc'[t] = "lock"
          /\ call'[t] = [doc |-> d, env |-> e, text |-> sourceCode[d], runs |-> FALSE]
          /\ result'[t] = result[t]
          /\ functionDictionary'[t] = functionDictionary[t]
          /\ root'[t] = root[t]
      BY CallUnderWay DEF TypeOK, CallOK, Env, CEnv, docVars, envVars
    <2>4. Fresh(t)'
      BY <2>2, <2>3 DEF Fresh, OwnCode, NoCall, Env, Doc
    <2>5. QED
      BY <2>1, <2>4, OthersFresh
  <1>8. QED
    BY <1>1, <1>2, <1>3, <1>4, <1>5, <1>6, <1>7

LEMMA ContinueKeeps ==
    ASSUME IInv, NEW t \in Thread, Continue(t)
    PROVE  IInv'
  <1> USE DocumentAssumption DEF IInv, At, Goes, Continue
  <1>1. TypeOK'
    BY CallUnderWay DEF TypeOK, Calls, NoCall, Locations, Code, CEnv, docVars,
       envVars
  <1>2. CallOK'
    BY DEF CallOK, TypeOK, Calls, NoCall, Doc, Env, docVars, envVars
  <1>3. LockOK'
    BY DEF LockOK, CallOK, TypeOK, Calls, NoCall, Doc, Env, CEnv, docVars,
       envVars
  <1>4. RootOK'
    BY DEF RootOK, MetMain, LockOK, CallOK, TypeOK, Calls, NoCall, Doc, Env,
       CEnv, docVars, envVars
  <1>5. PendingOK'
    BY DEF PendingOK, Current, CodeOK, CallOK, TypeOK, Calls, NoCall, Doc, Env,
       docVars, envVars
  <1>6. CodeOK'
    BY DEF CodeOK, Current, PendingOK, CallOK, TypeOK, Calls, NoCall, Doc, Env,
       docVars, envVars
  <1>7. FreshOK'
    <2>1. \A u \in Thread \ {t} :
             /\ pc'[u] = pc[u] /\ call'[u] = call[u] /\ result'[u] = result[u]
             /\ functionDictionary'[u] = functionDictionary[u]
             /\ root'[u] = root[u]
      BY CallUnderWay DEF TypeOK, CallOK, Env, CEnv, docVars, envVars
    <2>2. Fresh(t)
      BY DEF FreshOK
    <2>3. /\ pc'[t] = "check"
          /\ call'[t] = call[t]
          /\ result'[t] = result[t]
          /\ functionDictionary'[t] = functionDictionary[t]
          /\ root'[t] = root[t]
      BY CallUnderWay DEF TypeOK, CallOK, Env, CEnv, docVars, envVars
    <2>4. Fresh(t)'
      BY <2>2, <2>3 DEF Fresh, OwnCode, NoCall, Env, Doc
    <2>5. QED
      BY <2>1, <2>4, OthersFresh
  <1>8. QED
    BY <1>1, <1>2, <1>3, <1>4, <1>5, <1>6, <1>7

LEMMA SetSourceKeeps ==
    ASSUME IInv, Forgets, NEW d \in Document, NEW s \in Texts[d], NEW how \in Setters,
           SetSource(d, s, how)
    PROVE  IInv'
  <1> USE DocumentAssumption DEF IInv, At, Goes, SetSource, Forgets
  <1>1. TypeOK'
    BY CallUnderWay DEF TypeOK, Calls, NoCall, Locations, Code, CEnv, docVars,
       envVars
  <1>2. CallOK'
    BY DEF CallOK, TypeOK, Calls, NoCall, Doc, Env, docVars, envVars
  <1>3. LockOK'
    BY DEF LockOK, CallOK, TypeOK, Calls, NoCall, Doc, Env, CEnv, docVars,
       envVars
  <1>4. RootOK'
    BY DEF RootOK, MetMain, LockOK, CallOK, TypeOK, Calls, NoCall, Doc, Env,
       CEnv, docVars, envVars
  <1>5. PendingOK'
    BY DEF PendingOK, Current, CodeOK, CallOK, TypeOK, Calls, NoCall, Doc, Env,
       docVars, envVars
  <1>6. CodeOK'
    BY DEF CodeOK, Current, PendingOK, CallOK, TypeOK, Calls, NoCall, Doc, Env,
       docVars, envVars
  <1>7. FreshOK'
    BY DEF FreshOK, Fresh, OwnCode, Env, envVars
  <1>8. QED
    BY <1>1, <1>2, <1>3, <1>4, <1>5, <1>6, <1>7

LEMMA LockKeeps ==
    ASSUME IInv, NEW t \in Thread, Lock(t)
    PROVE  IInv'
  <1> USE DocumentAssumption DEF IInv, At, Goes, Lock
  <1>1. TypeOK'
    BY CallUnderWay DEF TypeOK, Calls, NoCall, Locations, Code, CEnv, docVars,
       envVars
  <1>2. CallOK'
    BY DEF CallOK, TypeOK, Calls, NoCall, Doc, Env, docVars, envVars
  <1>3. LockOK'
    BY DEF LockOK, CallOK, TypeOK, Calls, NoCall, Doc, Env, CEnv, docVars,
       envVars
  <1>4. RootOK'
    BY DEF RootOK, MetMain, LockOK, CallOK, TypeOK, Calls, NoCall, Doc, Env,
       CEnv, docVars, envVars
  <1>5. PendingOK'
    BY DEF PendingOK, Current, CodeOK, CallOK, TypeOK, Calls, NoCall, Doc, Env,
       docVars, envVars
  <1>6. CodeOK'
    BY DEF CodeOK, Current, PendingOK, CallOK, TypeOK, Calls, NoCall, Doc, Env,
       docVars, envVars
  <1>7. FreshOK'
    <2>1. \A u \in Thread \ {t} :
             /\ pc'[u] = pc[u] /\ call'[u] = call[u] /\ result'[u] = result[u]
             /\ functionDictionary'[u] = functionDictionary[u]
             /\ root'[u] = root[u]
      BY CallUnderWay DEF TypeOK, CallOK, Env, CEnv, docVars, envVars
    <2>2. Fresh(t)
      BY DEF FreshOK
    <2>3. /\ pc'[t] = "pipes"
          /\ call'[t] = call[t]
          /\ result'[t] = result[t]
          /\ functionDictionary'[t] = functionDictionary[t]
          /\ root'[t] = root[t]
      BY CallUnderWay DEF TypeOK, CallOK, Env, CEnv, docVars, envVars
    <2>4. Fresh(t)'
      BY <2>2, <2>3 DEF Fresh, OwnCode, NoCall, Env, Doc
    <2>5. QED
      BY <2>1, <2>4, OthersFresh
  <1>8. QED
    BY <1>1, <1>2, <1>3, <1>4, <1>5, <1>6, <1>7

LEMMA PipesFailKeeps ==
    ASSUME IInv, NEW t \in Thread, PipesFail(t)
    PROVE  IInv'
  <1> USE DocumentAssumption DEF IInv, At, Goes, PipesFail, Unlock
  <1>1. TypeOK'
    BY CallUnderWay DEF TypeOK, Calls, NoCall, Locations, Code, CEnv, docVars,
       envVars
  <1>2. CallOK'
    BY DEF CallOK, TypeOK, Calls, NoCall, Doc, Env, docVars, envVars
  <1>3. LockOK'
    BY DEF LockOK, CallOK, TypeOK, Calls, NoCall, Doc, Env, CEnv, docVars,
       envVars
  <1>4. RootOK'
    BY DEF RootOK, MetMain, LockOK, CallOK, TypeOK, Calls, NoCall, Doc, Env,
       CEnv, docVars, envVars
  <1>5. PendingOK'
    BY DEF PendingOK, Current, CodeOK, CallOK, TypeOK, Calls, NoCall, Doc, Env,
       docVars, envVars
  <1>6. CodeOK'
    BY DEF CodeOK, Current, PendingOK, CallOK, TypeOK, Calls, NoCall, Doc, Env,
       docVars, envVars
  <1>7. FreshOK'
    <2>1. \A u \in Thread \ {t} :
             /\ pc'[u] = pc[u] /\ call'[u] = call[u] /\ result'[u] = result[u]
             /\ functionDictionary'[u] = functionDictionary[u]
             /\ root'[u] = root[u]
      BY CallUnderWay DEF TypeOK, CallOK, Env, CEnv, docVars, envVars
    <2>2. Fresh(t)
      BY DEF FreshOK
    <2>3. /\ pc'[t] = "assign"
          /\ call'[t] = call[t]
          /\ result'[t] = Null
          /\ functionDictionary'[t] = functionDictionary[t]
          /\ root'[t] = root[t]
      BY CallUnderWay DEF TypeOK, CallOK, Env, CEnv, docVars, envVars
    <2>4. Fresh(t)'
      BY <2>2, <2>3 DEF Fresh, OwnCode, NoCall, Env, Doc
    <2>5. QED
      BY <2>1, <2>4, OthersFresh
  <1>8. QED
    BY <1>1, <1>2, <1>3, <1>4, <1>5, <1>6, <1>7

LEMMA PipesKeeps ==
    ASSUME IInv, NEW t \in Thread, Pipes(t)
    PROVE  IInv'
  <1> USE DocumentAssumption DEF IInv, At, Goes, Pipes
  <1>1. TypeOK'
    BY CallUnderWay DEF TypeOK, Calls, NoCall, Locations, Code, CEnv, docVars,
       envVars
  <1>2. CallOK'
    BY DEF CallOK, TypeOK, Calls, NoCall, Doc, Env, docVars, envVars
  <1>3. LockOK'
    BY DEF LockOK, CallOK, TypeOK, Calls, NoCall, Doc, Env, CEnv, docVars,
       envVars
  <1>4. RootOK'
    <2>1. \A u \in Thread \ {t} : pc'[u] = pc[u] /\ (MetMain(u)' <=> MetMain(u))
      BY DEF TypeOK, MetMain
    <2>2. ~MetMain(t)'
      <3>1. call[t].text \in Text /\ pos'[t] = 1 /\ call' = call
        BY CallUnderWay DEF CallOK, TypeOK
      <3>2. QED
        BY <3>1, Positions DEF MetMain
    <2>3. root' = root /\ lock' = lock /\ call' = call /\ root[Env(t)] = Null
      BY DEF RootOK, envVars
    <2>4. QED
      BY <2>1, <2>2, <2>3 DEF RootOK, TypeOK, Env
  <1>5. PendingOK'
    BY DEF PendingOK, Current, CodeOK, CallOK, TypeOK, Calls, NoCall, Doc, Env,
       docVars, envVars
  <1>6. CodeOK'
    BY DEF CodeOK, Current, PendingOK, CallOK, TypeOK, Calls, NoCall, Doc, Env,
       docVars, envVars
  <1>7. FreshOK'
    <2>1. \A u \in Thread \ {t} :
             /\ pc'[u] = pc[u] /\ call'[u] = call[u] /\ result'[u] = result[u]
             /\ functionDictionary'[u] = functionDictionary[u]
             /\ root'[u] = root[u]
      BY CallUnderWay DEF TypeOK, CallOK, Env, CEnv, docVars, envVars
    <2>2. Fresh(t)
      BY DEF FreshOK
    <2>3. /\ pc'[t] = "parse"
          /\ call'[t] = call[t]
          /\ result'[t] = result[t]
          /\ functionDictionary'[t] = functionDictionary[t]
          /\ root'[t] = root[t]
      BY CallUnderWay DEF TypeOK, CallOK, Env, CEnv, docVars, envVars
    <2>4. root[Env(t)] = Null /\ pc[t] = "pipes"
      BY DEF RootOK
    <2>5. Fresh(t)'
      BY <2>2, <2>3, <2>4 DEF NoFunctions, Fresh, OwnCode, NoCall, Env, Doc
    <2>6. QED
      BY <2>1, <2>5, OthersFresh
  <1>8. QED
    BY <1>1, <1>2, <1>3, <1>4, <1>5, <1>6, <1>7

LEMMA DefineKeeps ==
    ASSUME IInv, NEW t \in Thread, Define(t)
    PROVE  IInv'
  <1> USE DocumentAssumption DEF IInv, At, Goes, Define
  <1> DEFINE s == call[t].text
             e == Env(t)
             f == Functions[s][pos[t]]
             code == Linked(e, s, pos[t])
  <1>a. s \in Text /\ e \in CEnv /\ e \in HostEnv \cup {t}
    BY CallUnderWay DEF CallOK, TypeOK
  <1>b. pos[t] \in DOMAIN Functions[s] /\ f.name \in Name
    BY <1>a, Positions DEF LockOK
  <1>c. code \in Code /\ code # Null /\ code.of = s
    <2>1. code \in Code
      BY <1>a, <1>b, LinkedIsCode
    <2>2. code.of = s
      BY DEF Linked
    <2>3. QED
      BY <2>1, <2>2
  <1>d. /\ functionDictionary' = [functionDictionary EXCEPT ![e][f.name] = code]
        /\ root' = IF f.name = "main" THEN [root EXCEPT ![e] = code] ELSE root
        /\ pos' = [pos EXCEPT ![t] = @ + 1]
        /\ UNCHANGED <<docVars, lock, pc, call, result>>
        /\ pc[t] = "parse"
    OBVIOUS
  <1> HIDE DEF s, e, f, code
  <1>1. TypeOK'
    <2>1. functionDictionary' \in [CEnv -> [Name -> Code \cup {Null}]]
      <3>1. functionDictionary \in [CEnv -> [Name -> Code \cup {Null}]]
        BY DEF TypeOK
      <3>2. [functionDictionary EXCEPT ![e][f.name] = code]
              \in [CEnv -> [Name -> Code \cup {Null}]]
        BY <3>1, <1>a, <1>b, <1>c, Updated
      <3>3. QED
        BY <3>2, <1>d
    <2>2. root' \in [CEnv -> Code \cup {Null}] /\ pos' \in [Thread -> Nat]
      <3>1. root \in [CEnv -> Code \cup {Null}] /\ pos \in [Thread -> Nat]
        BY DEF TypeOK
      <3>2. pos' \in [Thread -> Nat]
        BY <3>1, <1>d
      <3>3. CASE f.name = "main"
        <4>1. root' = [root EXCEPT ![e] = code]
          BY <3>3, <1>d
        <4>2. code \in Code \cup {Null}
          BY <1>c
        <4>3. [root EXCEPT ![e] = code] \in [CEnv -> Code \cup {Null}]
          BY <3>1, <4>2, <1>a, UpdatedAt
        <4>4. QED
          BY <3>2, <4>1, <4>3
      <3>4. CASE f.name # "main"
        BY <3>1, <3>2, <3>4, <1>d
      <3>5. QED
        BY <3>3, <3>4
    <2>3. QED
      BY <2>1, <2>2, <1>d DEF TypeOK, docVars
  <1>2. CallOK'
    BY <1>d DEF CallOK, Doc, Env, docVars
  <1>3. LockOK'
    BY <1>d DEF LockOK, TypeOK, Env, CEnv
  <1>4. RootOK'
    <2>1. lock[e] = t /\ lock' = lock /\ pc' = pc /\ call' = call
      BY <1>d DEF LockOK, e
    <2>2. \A g \in CEnv \ {e} : root'[g] = root[g]
      BY <1>a, <1>d DEF TypeOK
    <2>3. \A u \in Thread \ {t} :
             pc[u] \in {"pipes", "parse"} => Env(u) \in CEnv \ {e}
      BY <2>1, CallUnderWay DEF LockOK
    <2>4. \A u \in Thread \ {t} : MetMain(u)' <=> MetMain(u)
      BY <1>d DEF TypeOK, MetMain
    <2>5. IF root'[e] = Null THEN ~MetMain(t)' ELSE root'[e].of = s
      <3>1. CASE f.name = "main"
        BY <3>1, <1>a, <1>c, <1>d DEF TypeOK
      <3>2. CASE f.name # "main"
        <4>1. root'[e] = root[e] /\ (root[e] # Null => root[e].of = s)
          BY <3>2, <1>d DEF RootOK, s, e
        <4>2. root[e] = Null => ~MetMain(t)
          BY <1>d DEF RootOK, e
        <4>3. pos[t] \in Nat /\ pos'[t] = pos[t] + 1 /\ call' = call
          BY <1>d DEF TypeOK
        <4>4. ASSUME NEW i \in DOMAIN Functions[s], i < pos[t] + 1,
                     Functions[s][i].name = "main"
              PROVE  i < pos[t]
          BY <3>2, <4>3, <4>4, <1>a, Positions DEF f
        <4>5. MetMain(t)' => MetMain(t)
          BY <4>3, <4>4 DEF MetMain, s
        <4>6. QED
          BY <4>1, <4>2, <4>5
      <3>3. QED
        BY <3>1, <3>2
    <2>6. \A g \in CEnv : lock'[g] = Null => root'[g] = Null
      BY <2>1, <2>2 DEF RootOK, CEnv
    <2>7. ASSUME NEW u \in Thread, pc'[u] = "pipes" PROVE root'[Env(u)'] = Null
      BY <2>1, <2>2, <2>3, <2>7, <1>d DEF RootOK, Env
    <2>8. ASSUME NEW u \in Thread, pc'[u] = "parse"
          PROVE  IF root'[Env(u)'] = Null THEN ~MetMain(u)'
                                          ELSE root'[Env(u)'].of = call'[u].text
      <3>1. CASE u = t
        BY <3>1, <2>1, <2>5 DEF Env, s, e
      <3>2. CASE u # t
        BY <3>2, <2>1, <2>2, <2>3, <2>4, <2>8 DEF RootOK, Env
      <3>3. QED
        BY <3>1, <3>2
    <2>9. QED
      BY <2>6, <2>7, <2>8 DEF RootOK
  <1>5. PendingOK'
    BY <1>d DEF PendingOK, Current, Doc, docVars
  <1>6. CodeOK'
    BY <1>d DEF CodeOK, Current, Doc, docVars
  <1>7. FreshOK'
    <2>1. \A u \in Thread \ {t} :
             /\ pc'[u] = pc[u] /\ call'[u] = call[u] /\ result'[u] = result[u]
             /\ functionDictionary'[u] = functionDictionary[u]
             /\ root'[u] = root[u]
      <3>1. \A u \in Thread \ {t} : e # u /\ u \in CEnv
        BY <1>a DEF CEnv
      <3>2. /\ functionDictionary \in [CEnv -> [Name -> Code \cup {Null}]]
            /\ root \in [CEnv -> Code \cup {Null}]
        BY DEF TypeOK
      <3>3. QED
        BY <3>1, <3>2, <1>a, <1>d
    <2>2. Fresh(t)
      BY DEF FreshOK
    <2>3. CASE e = t
      <3>1. \A n \in Name : functionDictionary[t][n] # Null
                            => functionDictionary[t][n].reaches = {s}
        BY <2>2, <2>3, <1>d DEF Fresh, OwnCode, s, e
      <3>2. \A n \in Name : Reached(functionDictionary[t][n]) \subseteq {s}
        BY <3>1 DEF Reached
      <3>3. UNION {Reached(functionDictionary[t][n]) :
                      n \in Functions[s][pos[t]].calls \cap Name} \subseteq {s}
        BY <3>2
      <3>4. code = [of |-> s, reaches |-> {s}]
        BY <2>3, <3>3 DEF code, Linked
      <3>5. /\ \A n \in Name \ {f.name} :
                   functionDictionary'[t][n] = functionDictionary[t][n]
            /\ functionDictionary'[t][f.name] = code
            /\ root'[t] \in {root[t], code}
        BY <2>3, <1>a, <1>b, <1>d DEF TypeOK
      <3>6. OwnCode(t)' = OwnCode(t) /\ code = OwnCode(t)
        BY <3>4, <1>d DEF OwnCode, s
      <3>7. pc'[t] = "parse" /\ Env(t)' = t /\ Env(t) = t /\ pc[t] = "parse"
        BY <2>3, <1>d DEF Env, e
      <3>8. /\ root[t] # Null => root[t] = OwnCode(t)
            /\ \A n \in Name : functionDictionary[t][n] # Null
                              => functionDictionary[t][n] = OwnCode(t)
        BY <2>2, <3>7 DEF Fresh
      <3>9. /\ root'[t] # Null => root'[t] = OwnCode(t)
            /\ \A n \in Name : functionDictionary'[t][n] # Null
                              => functionDictionary'[t][n] = OwnCode(t)
        BY <3>5, <3>6, <3>8
      <3>10. Fresh(t)'
        BY <3>6, <3>7, <3>9 DEF Fresh
      <3>11. QED
        BY <2>1, <3>10, OthersFresh
    <2>4. CASE e # t
      <3>1. functionDictionary'[t] = functionDictionary[t] /\ root'[t] = root[t]
        BY <2>4, <1>a, <1>d DEF TypeOK, CEnv
      <3>2. Env(t)' # t /\ pc'[t] = "parse" /\ functionDictionary[t] = NoFunctions
        BY <2>2, <2>4, <1>d DEF Fresh, Env, e
      <3>3. QED
        BY <2>1, <3>1, <3>2, OthersFresh DEF Fresh
    <2>5. QED
      BY <2>3, <2>4
  <1>8. QED
    BY <1>1, <1>2, <1>3, <1>4, <1>5, <1>6, <1>7

LEMMA TakeRootKeeps ==
    ASSUME IInv, NEW t \in Thread, TakeRoot(t)
    PROVE  IInv'
  <1> USE DocumentAssumption DEF IInv, At, Goes, TakeRoot, Unlock
  <1>1. TypeOK'
    BY CallUnderWay DEF TypeOK, Calls, NoCall, Locations, Code, CEnv, docVars,
       envVars
  <1>2. CallOK'
    BY DEF CallOK, TypeOK, Calls, NoCall, Doc, Env, docVars, envVars
  <1>3. LockOK'
    BY DEF LockOK, CallOK, TypeOK, Calls, NoCall, Doc, Env, CEnv, docVars,
       envVars
  <1>4. RootOK'
    BY DEF RootOK, MetMain, LockOK, CallOK, TypeOK, Calls, NoCall, Doc, Env,
       CEnv, docVars, envVars
  <1>5. PendingOK'
    <2>1. call[t].text \in Text /\ call[t].text = sourceCode[Doc(t)]
      BY CallUnderWay DEF CallOK, TypeOK
    <2>2. root[Env(t)] = Null => ~HasMain(sourceCode[Doc(t)])
      <3>1. pos[t] \in Nat /\ Len(Functions[call[t].text]) \in Nat
        BY <2>1, Positions DEF LockOK
      <3>2. \A i \in DOMAIN Functions[call[t].text] : i < pos[t]
        BY <2>1, <3>1, Positions
      <3>3. root[Env(t)] = Null => ~MetMain(t)
        BY DEF RootOK
      <3>4. QED
        BY <2>1, <3>2, <3>3 DEF MetMain, HasMain
    <2>3. Current(Doc(t), root[Env(t)])
      BY <2>1, <2>2 DEF Current, RootOK
    <2>4. /\ result'[t] = root[Env(t)]
          /\ \A u \in Thread \ {t} : result'[u] = result[u]
      BY DEF TypeOK
    <2>5. \A u \in Thread \ {t} : pc'[u] = pc[u]
      BY DEF TypeOK
    <2>6. QED
      BY <2>3, <2>4, <2>5 DEF PendingOK, Current, Doc, docVars
  <1>6. CodeOK'
    BY DEF CodeOK, Current, PendingOK, CallOK, TypeOK, Calls, NoCall, Doc, Env,
       docVars, envVars
  <1>7. FreshOK'
    <2>1. \A u \in Thread \ {t} :
             /\ pc'[u] = pc[u] /\ call'[u] = call[u] /\ result'[u] = result[u]
             /\ functionDictionary'[u] = functionDictionary[u]
             /\ root'[u] = root[u]
      BY CallUnderWay DEF TypeOK, CallOK, Env, CEnv
    <2>2. Fresh(t) /\ pc[t] = "parse"
      BY DEF FreshOK
    <2>3. pc'[t] = "assign" /\ call'[t] = call[t] /\ result'[t] = root[Env(t)]
          /\ functionDictionary'[t] = functionDictionary[t]
      BY DEF TypeOK
    <2>4. Fresh(t)'
      BY <2>2, <2>3 DEF Fresh, OwnCode, Env
    <2>5. QED
      BY <2>1, <2>4, OthersFresh
  <1>8. QED
    BY <1>1, <1>2, <1>3, <1>4, <1>5, <1>6, <1>7

LEMMA AssignCodeKeeps ==
    ASSUME IInv, NEW t \in Thread, AssignCode(t)
    PROVE  IInv'
  <1> USE DocumentAssumption DEF IInv, At, Goes, AssignCode
  <1>1. TypeOK'
    BY CallUnderWay DEF TypeOK, Calls, NoCall, Locations, Code, CEnv, docVars,
       envVars
  <1>2. CallOK'
    BY DEF CallOK, TypeOK, Calls, NoCall, Doc, Env, docVars, envVars
  <1>3. LockOK'
    BY DEF LockOK, CallOK, TypeOK, Calls, NoCall, Doc, Env, CEnv, docVars,
       envVars
  <1>4. RootOK'
    BY DEF RootOK, MetMain, LockOK, CallOK, TypeOK, Calls, NoCall, Doc, Env,
       CEnv, docVars, envVars
  <1>5. PendingOK'
    BY DEF PendingOK, Current, CodeOK, CallOK, TypeOK, Calls, NoCall, Doc, Env,
       docVars, envVars
  <1>6. CodeOK'
    BY DEF CodeOK, Current, PendingOK, CallOK, TypeOK, Calls, NoCall, Doc, Env,
       docVars, envVars
  <1>7. FreshOK'
    <2>1. \A u \in Thread \ {t} :
             /\ pc'[u] = pc[u] /\ call'[u] = call[u] /\ result'[u] = result[u]
             /\ functionDictionary'[u] = functionDictionary[u]
             /\ root'[u] = root[u]
      BY CallUnderWay DEF TypeOK, CallOK, Env, CEnv, docVars, envVars
    <2>2. Fresh(t)
      BY DEF FreshOK
    <2>3. /\ pc'[t] = "test"
          /\ call'[t] = call[t]
          /\ result'[t] = Null
          /\ functionDictionary'[t] = functionDictionary[t]
          /\ root'[t] = root[t]
      BY CallUnderWay DEF TypeOK, CallOK, Env, CEnv, docVars, envVars
    <2>4. Fresh(t)'
      BY <2>2, <2>3 DEF Fresh, OwnCode, NoCall, Env, Doc
    <2>5. QED
      BY <2>1, <2>4, OthersFresh
  <1>8. QED
    BY <1>1, <1>2, <1>3, <1>4, <1>5, <1>6, <1>7

LEMMA TestCodeKeeps ==
    ASSUME IInv, NEW t \in Thread, TestCode(t)
    PROVE  IInv'
  <1> USE DocumentAssumption DEF IInv, At, Goes, TestCode
  <1>1. TypeOK'
    BY CallUnderWay DEF TypeOK, Calls, NoCall, Locations, Code, CEnv, docVars,
       envVars
  <1>2. CallOK'
    BY DEF CallOK, TypeOK, Calls, NoCall, Doc, Env, docVars, envVars
  <1>3. LockOK'
    BY DEF LockOK, CallOK, TypeOK, Calls, NoCall, Doc, Env, CEnv, docVars,
       envVars
  <1>4. RootOK'
    BY DEF RootOK, MetMain, LockOK, CallOK, TypeOK, Calls, NoCall, Doc, Env,
       CEnv, docVars, envVars
  <1>5. PendingOK'
    BY DEF PendingOK, Current, CodeOK, CallOK, TypeOK, Calls, NoCall, Doc, Env,
       docVars, envVars
  <1>6. CodeOK'
    BY DEF CodeOK, Current, PendingOK, CallOK, TypeOK, Calls, NoCall, Doc, Env,
       docVars, envVars
  <1>7. FreshOK'
    <2>1. \A u \in Thread \ {t} :
             /\ pc'[u] = pc[u] /\ call'[u] = call[u] /\ result'[u] = result[u]
             /\ functionDictionary'[u] = functionDictionary[u]
             /\ root'[u] = root[u]
      BY CallUnderWay DEF TypeOK, CallOK, Env, CEnv, docVars, envVars
    <2>2. Fresh(t)
      BY DEF FreshOK
    <2>3. /\ pc'[t] = (IF compiledCode[Doc(t)] # Null THEN "mark" ELSE "unmark")
          /\ call'[t] = call[t]
          /\ result'[t] = result[t]
          /\ functionDictionary'[t] = functionDictionary[t]
          /\ root'[t] = root[t]
      BY CallUnderWay DEF TypeOK, CallOK, Env, CEnv, docVars, envVars
    <2>4. Fresh(t)'
      BY <2>2, <2>3 DEF TestCode, At, Fresh, OwnCode, NoCall, Env, Doc
    <2>5. QED
      BY <2>1, <2>4, OthersFresh
  <1>8. QED
    BY <1>1, <1>2, <1>3, <1>4, <1>5, <1>6, <1>7

LEMMA MarkCompiledKeeps ==
    ASSUME IInv, NEW t \in Thread, MarkCompiled(t)
    PROVE  IInv'
  <1> USE DocumentAssumption DEF IInv, At, Goes, MarkCompiled
  <1>1. TypeOK'
    BY CallUnderWay DEF TypeOK, Calls, NoCall, Locations, Code, CEnv, docVars,
       envVars
  <1>2. CallOK'
    BY DEF CallOK, TypeOK, Calls, NoCall, Doc, Env, docVars, envVars
  <1>3. LockOK'
    BY DEF LockOK, CallOK, TypeOK, Calls, NoCall, Doc, Env, CEnv, docVars,
       envVars
  <1>4. RootOK'
    BY DEF RootOK, MetMain, LockOK, CallOK, TypeOK, Calls, NoCall, Doc, Env,
       CEnv, docVars, envVars
  <1>5. PendingOK'
    BY DEF PendingOK, Current, CodeOK, CallOK, TypeOK, Calls, NoCall, Doc, Env,
       docVars, envVars
  <1>6. CodeOK'
    BY DEF CodeOK, Current, PendingOK, CallOK, TypeOK, Calls, NoCall, Doc, Env,
       docVars, envVars
  <1>7. FreshOK'
    <2>1. \A u \in Thread \ {t} :
             /\ pc'[u] = pc[u] /\ call'[u] = call[u] /\ result'[u] = result[u]
             /\ functionDictionary'[u] = functionDictionary[u]
             /\ root'[u] = root[u]
      BY CallUnderWay DEF TypeOK, CallOK, Env, CEnv, docVars, envVars
    <2>2. Fresh(t)
      BY DEF FreshOK
    <2>3. /\ pc'[t] = "functions"
          /\ call'[t] = call[t]
          /\ result'[t] = result[t]
          /\ functionDictionary'[t] = functionDictionary[t]
          /\ root'[t] = root[t]
      BY CallUnderWay DEF TypeOK, CallOK, Env, CEnv, docVars, envVars
    <2>4. Fresh(t)'
      BY <2>2, <2>3 DEF Fresh, OwnCode, NoCall, Env, Doc
    <2>5. QED
      BY <2>1, <2>4, OthersFresh
  <1>8. QED
    BY <1>1, <1>2, <1>3, <1>4, <1>5, <1>6, <1>7

LEMMA AssignFunctionsKeeps ==
    ASSUME IInv, NEW t \in Thread, AssignFunctions(t)
    PROVE  IInv'
  <1> USE DocumentAssumption DEF IInv, At, Goes, AssignFunctions, Compiled
  <1>1. TypeOK'
    <2>1. call'[t] \in Calls /\ NoFunctions \in [Name -> Code \cup {Null}]
      BY CallUnderWay DEF TypeOK, Calls, NoFunctions
    <2>2. QED
      BY <2>1, CallUnderWay DEF TypeOK, Locations, docVars, CEnv
  <1>2. CallOK'
    BY DEF CallOK, TypeOK, Calls, NoCall, Doc, Env, docVars, envVars
  <1>3. LockOK'
    BY DEF LockOK, CallOK, TypeOK, Calls, NoCall, Doc, Env, CEnv, docVars,
       envVars
  <1>4. RootOK'
    BY DEF RootOK, MetMain, LockOK, CallOK, TypeOK, Calls, NoCall, Doc, Env,
       CEnv, docVars, envVars
  <1>5. PendingOK'
    BY DEF PendingOK, Current, CodeOK, CallOK, TypeOK, Calls, NoCall, Doc, Env,
       docVars, envVars
  <1>6. CodeOK'
    BY DEF CodeOK, Current, PendingOK, CallOK, TypeOK, Calls, NoCall, Doc, Env,
       docVars, envVars
  <1>7. FreshOK'
    <2>1. \A u \in Thread \ {t} :
             /\ pc'[u] = pc[u] /\ call'[u] = call[u] /\ result'[u] = result[u]
             /\ functionDictionary'[u] = functionDictionary[u]
             /\ root'[u] = root[u]
      BY CallUnderWay DEF TypeOK, CallOK, Env, CEnv, docVars, envVars
    <2>2. functionDictionary'[t] = NoFunctions /\ pc'[t] \in {"evaluate", "idle"}
      BY DEF TypeOK, CEnv
    <2>3. Fresh(t)'
      BY <2>2 DEF Fresh
    <2>4. QED
      BY <2>1, <2>3, OthersFresh
  <1>8. QED
    BY <1>1, <1>2, <1>3, <1>4, <1>5, <1>6, <1>7

LEMMA UnmarkCompiledKeeps ==
    ASSUME IInv, NEW t \in Thread, UnmarkCompiled(t)
    PROVE  IInv'
  <1> USE DocumentAssumption DEF IInv, At, Goes, UnmarkCompiled, Compiled
  <1>1. TypeOK'
    <2>1. call'[t] \in Calls /\ NoFunctions \in [Name -> Code \cup {Null}]
      BY CallUnderWay DEF TypeOK, Calls, NoFunctions
    <2>2. QED
      BY <2>1, CallUnderWay DEF TypeOK, Locations, docVars, CEnv
  <1>2. CallOK'
    BY DEF CallOK, TypeOK, Calls, NoCall, Doc, Env, docVars, envVars
  <1>3. LockOK'
    BY DEF LockOK, CallOK, TypeOK, Calls, NoCall, Doc, Env, CEnv, docVars,
       envVars
  <1>4. RootOK'
    BY DEF RootOK, MetMain, LockOK, CallOK, TypeOK, Calls, NoCall, Doc, Env,
       CEnv, docVars, envVars
  <1>5. PendingOK'
    BY DEF PendingOK, Current, CodeOK, CallOK, TypeOK, Calls, NoCall, Doc, Env,
       docVars, envVars
  <1>6. CodeOK'
    BY DEF CodeOK, Current, PendingOK, CallOK, TypeOK, Calls, NoCall, Doc, Env,
       docVars, envVars
  <1>7. FreshOK'
    <2>1. \A u \in Thread \ {t} :
             /\ pc'[u] = pc[u] /\ call'[u] = call[u] /\ result'[u] = result[u]
             /\ functionDictionary'[u] = functionDictionary[u]
             /\ root'[u] = root[u]
      BY CallUnderWay DEF TypeOK, CallOK, Env, CEnv, docVars, envVars
    <2>2. functionDictionary'[t] = NoFunctions /\ pc'[t] \in {"evaluate", "idle"}
      BY DEF TypeOK, CEnv
    <2>3. Fresh(t)'
      BY <2>2 DEF Fresh
    <2>4. QED
      BY <2>1, <2>3, OthersFresh
  <1>8. QED
    BY <1>1, <1>2, <1>3, <1>4, <1>5, <1>6, <1>7

LEMMA SendKeeps ==
    ASSUME IInv, NEW t \in Thread, pc[t] \in {"check", "checkCode"}, Send(t),
           UNCHANGED <<docVars, envVars, pos, result>>
    PROVE  IInv'
  <1> USE DocumentAssumption DEF IInv, At, Goes, Send
  <1>1. TypeOK'
    <2>1. sourceCode[Doc(t)] \in Text
      BY CallUnderWay DEF TypeOK
    <2>2. call'[t] \in Calls
      <3>1. call'[t] = [call[t] EXCEPT !.text = sourceCode[Doc(t)]]
        BY DEF TypeOK
      <3>2. QED
        BY <2>1, <3>1, CallUnderWay DEF Calls
    <2>3. QED
      BY <2>2, CallUnderWay DEF TypeOK, Locations, docVars, envVars
  <1>2. CallOK'
    BY DEF CallOK, TypeOK, Calls, NoCall, Doc, Env, docVars, envVars
  <1>3. LockOK'
    BY DEF LockOK, CallOK, TypeOK, Calls, NoCall, Doc, Env, CEnv, docVars,
       envVars
  <1>4. RootOK'
    BY DEF RootOK, MetMain, LockOK, CallOK, TypeOK, Calls, NoCall, Doc, Env,
       CEnv, docVars, envVars
  <1>5. PendingOK'
    BY DEF PendingOK, Current, CodeOK, CallOK, TypeOK, Calls, NoCall, Doc, Env,
       docVars, envVars
  <1>6. CodeOK'
    BY DEF CodeOK, Current, PendingOK, CallOK, TypeOK, Calls, NoCall, Doc, Env,
       docVars, envVars
  <1>7. FreshOK'
    <2>1. \A u \in Thread \ {t} :
             /\ pc'[u] = pc[u] /\ call'[u] = call[u] /\ result'[u] = result[u]
             /\ functionDictionary'[u] = functionDictionary[u]
             /\ root'[u] = root[u]
      BY CallUnderWay DEF TypeOK, CallOK, Env, CEnv, docVars, envVars
    <2>2. Fresh(t)
      BY DEF FreshOK
    <2>3. /\ pc'[t] = "lock"
          /\ call'[t] = [call[t] EXCEPT !.text = sourceCode[Doc(t)]]
          /\ result'[t] = result[t]
          /\ functionDictionary'[t] = functionDictionary[t]
          /\ root'[t] = root[t]
      BY CallUnderWay DEF TypeOK, CallOK, Env, CEnv, docVars, envVars
    <2>4. Fresh(t)'
      BY <2>2, <2>3 DEF Fresh, OwnCode, NoCall, Env, Doc
    <2>5. QED
      BY <2>1, <2>4, OthersFresh
  <1>8. QED
    BY <1>1, <1>2, <1>3, <1>4, <1>5, <1>6, <1>7

LEMMA CheckKeeps ==
    ASSUME IInv, NEW t \in Thread, Check(t)
    PROVE  IInv'
  <1>1. CASE Send(t)
    BY <1>1, SendKeeps DEF Check, At
  <1>2. CASE Goes(t, "checkCode") /\ UNCHANGED call
    <2> USE <1>2, DocumentAssumption DEF IInv, At, Goes, Check, Send
    <2>1. TypeOK'
      BY DEF TypeOK, Calls, NoCall, Locations, Code, CEnv, docVars, envVars
    <2>2. CallOK'
      BY DEF CallOK, TypeOK, Calls, NoCall, Doc, Env, docVars, envVars
    <2>3. LockOK'
      BY DEF LockOK, CallOK, TypeOK, Calls, NoCall, Doc, Env, CEnv, docVars,
         envVars
    <2>4. RootOK'
      BY DEF RootOK, MetMain, LockOK, CallOK, TypeOK, Calls, NoCall, Doc, Env,
         CEnv, docVars, envVars
    <2>5. PendingOK'
      BY DEF PendingOK, Current, CodeOK, CallOK, TypeOK, Calls, NoCall, Doc,
         Env, docVars, envVars
    <2>6. CodeOK'
      BY DEF CodeOK, Current, PendingOK, CallOK, TypeOK, Calls, NoCall, Doc,
         Env, docVars, envVars
    <2>7. FreshOK'
      <3>1. \A u \in Thread \ {t} : pc'[u] = pc[u]
        BY DEF TypeOK
      <3>2. Fresh(t)'
        BY DEF FreshOK, Fresh, OwnCode, TypeOK, Env, docVars, envVars
      <3>3. QED
        BY <3>1, <3>2, OthersFresh DEF docVars, envVars
    <2>8. QED
      BY <2>1, <2>2, <2>3, <2>4, <2>5, <2>6, <2>7
  <1>3. QED
    BY <1>1, <1>2 DEF Check

LEMMA CheckCodeKeeps ==
    ASSUME IInv, NEW t \in Thread, CheckCode(t)
    PROVE  IInv'
  <1>1. CASE Send(t)
    BY <1>1, SendKeeps DEF CheckCode, At
  <1>2. CASE Goes(t, "evaluate") /\ UNCHANGED call
    <2> USE <1>2, DocumentAssumption DEF IInv, At, Goes, CheckCode, Send
    <2>1. TypeOK'
      BY DEF TypeOK, Calls, NoCall, Locations, Code, CEnv, docVars, envVars
    <2>2. CallOK'
      BY DEF CallOK, TypeOK, Calls, NoCall, Doc, Env, docVars, envVars
    <2>3. LockOK'
      BY DEF LockOK, CallOK, TypeOK, Calls, NoCall, Doc, Env, CEnv, docVars,
         envVars
    <2>4. RootOK'
      BY DEF RootOK, MetMain, LockOK, CallOK, TypeOK, Calls, NoCall, Doc, Env,
         CEnv, docVars, envVars
    <2>5. PendingOK'
      BY DEF PendingOK, Current, CodeOK, CallOK, TypeOK, Calls, NoCall, Doc,
         Env, docVars, envVars
    <2>6. CodeOK'
      BY DEF CodeOK, Current, PendingOK, CallOK, TypeOK, Calls, NoCall, Doc,
         Env, docVars, envVars
    <2>7. FreshOK'
      <3>1. \A u \in Thread \ {t} : pc'[u] = pc[u]
        BY DEF TypeOK
      <3>2. Fresh(t)'
        BY DEF FreshOK, Fresh, OwnCode, TypeOK, Env, docVars, envVars
      <3>3. QED
        BY <3>1, <3>2, OthersFresh DEF docVars, envVars
    <2>8. QED
      BY <2>1, <2>2, <2>3, <2>4, <2>5, <2>6, <2>7
  <1>3. QED
    BY <1>1, <1>2 DEF CheckCode

LEMMA EvaluateKeeps ==
    ASSUME IInv, NEW t \in Thread, Evaluate(t)
    PROVE  IInv'
  <1> USE DocumentAssumption DEF IInv, At, Goes, Evaluate
  <1>1. TypeOK'
    BY CallUnderWay DEF TypeOK, Calls, NoCall, Locations, Code, CEnv, docVars,
       envVars
  <1>2. CallOK'
    BY DEF CallOK, TypeOK, Calls, NoCall, Doc, Env, docVars, envVars
  <1>3. LockOK'
    BY DEF LockOK, CallOK, TypeOK, Calls, NoCall, Doc, Env, CEnv, docVars,
       envVars
  <1>4. RootOK'
    BY DEF RootOK, MetMain, LockOK, CallOK, TypeOK, Calls, NoCall, Doc, Env,
       CEnv, docVars, envVars
  <1>5. PendingOK'
    BY DEF PendingOK, Current, CodeOK, CallOK, TypeOK, Calls, NoCall, Doc, Env,
       docVars, envVars
  <1>6. CodeOK'
    BY DEF CodeOK, Current, PendingOK, CallOK, TypeOK, Calls, NoCall, Doc, Env,
       docVars, envVars
  <1>7. FreshOK'
    <2>1. \A u \in Thread \ {t} :
             /\ pc'[u] = pc[u] /\ call'[u] = call[u] /\ result'[u] = result[u]
             /\ functionDictionary'[u] = functionDictionary[u]
             /\ root'[u] = root[u]
      BY CallUnderWay DEF TypeOK, CallOK, Env, CEnv, docVars, envVars
    <2>2. Fresh(t)
      BY DEF FreshOK
    <2>3. /\ pc'[t] = "evaluating"
          /\ call'[t] = call[t]
          /\ result'[t] = compiledCode[Doc(t)]
          /\ functionDictionary'[t] = functionDictionary[t]
          /\ root'[t] = root[t]
      BY CallUnderWay DEF TypeOK, CallOK, Env, CEnv, docVars, envVars
    <2>4. Fresh(t)'
      BY <2>2, <2>3 DEF Fresh, OwnCode, NoCall, Env, Doc
    <2>5. QED
      BY <2>1, <2>4, OthersFresh
  <1>8. QED
    BY <1>1, <1>2, <1>3, <1>4, <1>5, <1>6, <1>7

LEMMA ReturnKeeps ==
    ASSUME IInv, NEW t \in Thread, Return(t)
    PROVE  IInv'
  <1> USE DocumentAssumption DEF IInv, At, Goes, Return
  <1>1. TypeOK'
    BY CallUnderWay DEF TypeOK, Calls, NoCall, Locations, Code, CEnv, docVars,
       envVars
  <1>2. CallOK'
    BY DEF CallOK, TypeOK, Calls, NoCall, Doc, Env, docVars, envVars
  <1>3. LockOK'
    BY DEF LockOK, CallOK, TypeOK, Calls, NoCall, Doc, Env, CEnv, docVars,
       envVars
  <1>4. RootOK'
    BY DEF RootOK, MetMain, LockOK, CallOK, TypeOK, Calls, NoCall, Doc, Env,
       CEnv, docVars, envVars
  <1>5. PendingOK'
    BY DEF PendingOK, Current, CodeOK, CallOK, TypeOK, Calls, NoCall, Doc, Env,
       docVars, envVars
  <1>6. CodeOK'
    BY DEF CodeOK, Current, PendingOK, CallOK, TypeOK, Calls, NoCall, Doc, Env,
       docVars, envVars
  <1>7. FreshOK'
    <2>1. \A u \in Thread \ {t} :
             /\ pc'[u] = pc[u] /\ call'[u] = call[u] /\ result'[u] = result[u]
             /\ functionDictionary'[u] = functionDictionary[u]
             /\ root'[u] = root[u]
      BY CallUnderWay DEF TypeOK, CallOK, Env, CEnv, docVars, envVars
    <2>2. Fresh(t)
      BY DEF FreshOK
    <2>3. /\ pc'[t] = "idle"
          /\ call'[t] = NoCall
          /\ result'[t] = Null
          /\ functionDictionary'[t] = functionDictionary[t]
          /\ root'[t] = root[t]
      BY CallUnderWay DEF TypeOK, CallOK, Env, CEnv, docVars, envVars
    <2>4. Fresh(t)'
      BY <2>2, <2>3 DEF Fresh, OwnCode, NoCall, Env, Doc
    <2>5. QED
      BY <2>1, <2>4, OthersFresh
  <1>8. QED
    BY <1>1, <1>2, <1>3, <1>4, <1>5, <1>6, <1>7

LEMMA InterruptKeeps ==
    ASSUME IInv, NEW t \in Thread, Interrupt(t)
    PROVE  IInv'
  <1> USE DocumentAssumption DEF IInv, At, Goes, Interrupt
  <1>1. TypeOK'
    BY CallUnderWay DEF TypeOK, Calls, NoCall, Locations, Code, CEnv, docVars,
       envVars
  <1>2. CallOK'
    BY DEF CallOK, TypeOK, Calls, NoCall, Doc, Env, docVars, envVars
  <1>3. LockOK'
    BY DEF LockOK, CallOK, TypeOK, Calls, NoCall, Doc, Env, CEnv, docVars,
       envVars
  <1>4. RootOK'
    BY DEF RootOK, MetMain, LockOK, CallOK, TypeOK, Calls, NoCall, Doc, Env,
       CEnv, docVars, envVars
  <1>5. PendingOK'
    BY DEF PendingOK, Current, CodeOK, CallOK, TypeOK, Calls, NoCall, Doc, Env,
       docVars, envVars
  <1>6. CodeOK'
    BY DEF CodeOK, Current, PendingOK, CallOK, TypeOK, Calls, NoCall, Doc, Env,
       docVars, envVars
  <1>7. FreshOK'
    <2>1. \A u \in Thread \ {t} :
             /\ pc'[u] = pc[u] /\ call'[u] = call[u] /\ result'[u] = result[u]
             /\ functionDictionary'[u] = functionDictionary[u]
             /\ root'[u] = root[u]
      BY CallUnderWay DEF TypeOK, CallOK, Env, CEnv, docVars, envVars
    <2>2. Fresh(t)
      BY DEF FreshOK
    <2>3. /\ pc'[t] = "interrupted"
          /\ call'[t] = call[t]
          /\ result'[t] = Null
          /\ functionDictionary'[t] = functionDictionary[t]
          /\ root'[t] = root[t]
      BY CallUnderWay DEF TypeOK, CallOK, Env, CEnv, docVars, envVars
    <2>4. Fresh(t)'
      BY <2>2, <2>3 DEF Fresh, OwnCode, NoCall, Env, Doc
    <2>5. QED
      BY <2>1, <2>4, OthersFresh
  <1>8. QED
    BY <1>1, <1>2, <1>3, <1>4, <1>5, <1>6, <1>7

LEMMA NextKeeps ==
    ASSUME Forgets, IInv, [Next]_vars
    PROVE  IInv'
  <1>1. CASE \E t \in Thread, d \in Document :
                Run(t, d) \/ \E e \in EnvsOf[d] \cup {t} : Compile(t, d, e)
    BY <1>1, RunKeeps, CompileKeeps
  <1>2. CASE \E t \in Thread : Continue(t)
    BY <1>2, ContinueKeeps
  <1>3. CASE \E d \in Document : \E s \in Texts[d], how \in Setters : SetSource(d, s, how)
    BY <1>3, SetSourceKeeps
  <1>4. ASSUME NEW t \in Thread, Step(t) PROVE IInv'
    BY <1>4, LockKeeps, PipesFailKeeps, PipesKeeps, DefineKeeps, TakeRootKeeps,
       AssignCodeKeeps, TestCodeKeeps, MarkCompiledKeeps, AssignFunctionsKeeps,
       UnmarkCompiledKeeps, CheckKeeps, CheckCodeKeeps, EvaluateKeeps, ReturnKeeps,
       InterruptKeeps DEF Step
  <1>5. CASE UNCHANGED vars
    <2> USE <1>5 DEF vars, docVars, envVars, IInv, Doc, Env
    <2>1. TypeOK' /\ CallOK' /\ LockOK'
      BY DEF TypeOK, CallOK, LockOK
    <2>2. RootOK'
      BY DEF RootOK, MetMain
    <2>3. PendingOK' /\ CodeOK'
      BY DEF PendingOK, CodeOK, Current
    <2>4. FreshOK'
      BY DEF FreshOK, Fresh, OwnCode
    <2>5. QED
      BY <2>1, <2>2, <2>3, <2>4
  <1>6. QED
    BY <1>1, <1>2, <1>3, <1>4, <1>5 DEF Next, Host

(* In every reachable state IInv holds, when texts are set with           *)
(* set_sourceCode: (UMScriptDocument.m:60-132). *)
THEOREM DocumentInductive ==
    ASSUME Forgets
    PROVE  Spec => []IInv
  <1>1. Init => IInv
    BY InitEstablishes
  <1>2. IInv /\ [Next]_vars => IInv'
    BY NextKeeps
  <1>3. QED
    BY <1>1, <1>2, PTL DEF Spec

(* A run never evaluates the code of a text its document does not have: not *)
(* with any number of threads that run and compile the document at once, and *)
(* with any compiles that fail (UMScriptDocument.m:60-77, 109-132). *)
THEOREM RunsAreCurrent ==
    ASSUME Forgets
    PROVE  Spec => []RunsCurrentSource
  <1>1. IInv => RunsCurrentSource
    BY DEF IInv, PendingOK, RunsCurrentSource, At
  <1>2. QED
    BY <1>1, DocumentInductive, PTL

(* compileSource never links a function of another text, whatever its thread *)
(* and the others compiled before (UMScriptDocument.m:103-107). *)
THEOREM FromScratch ==
    ASSUME Forgets
    PROVE  Spec => []CompilesFromScratch
  <1>1. IInv => CompilesFromScratch
    BY DEF IInv, FreshOK, Fresh, OwnCode, CompilesFromScratch, At
  <1>2. QED
    BY <1>1, DocumentInductive, PTL

-----------------------------------------------------------------------------
(* The functions of a document *)

(* An environment the host keeps is for one document, and no dictionary. *)
Exclusive ==
    /\ \A d1, d2 \in Document : EnvsOf[d1] \cap EnvsOf[d2] # {} => d1 = d2
    /\ HostEnv \cap [Name -> Code \cup {Null}] = {}

(* Dictionary D has definition i of text s, the first ones, or all. *)
HasFunction(D, s, i) ==
    D[Functions[s][i].name] # Null /\ D[Functions[s][i].name].of = s
HasUpTo(D, s, n) == \A i \in DOMAIN Functions[s] : i < n => HasFunction(D, s, i)
HasAll(D, s) == \A i \in DOMAIN Functions[s] : HasFunction(D, s, i)

Marking == {"test", "mark", "functions"}

(* A compile's environment has what was parsed. *)
ParsedOK(t) ==
    /\ pc[t] # "idle" => Env(t) \in EnvsOf[Doc(t)] \cup {t}
    /\ pc[t] = "parse" => HasUpTo(functionDictionary[Env(t)], sourceCode[Doc(t)], pos[t])
    /\ pc[t] \in {"assign"} \cup Marking /\ ~noPipes[Doc(t)]
          => HasAll(functionDictionary[Env(t)], sourceCode[Doc(t)])

(* A document that is compiled has its functions, or is about to. *)
FunctionsOK(d) ==
    /\ compiledFunctions[d] \in HostEnv => compiledFunctions[d] \in EnvsOf[d]
    /\ isCompiled[d] /\ compiledCode[d] # Null /\ ~noPipes[d] =>
          \/ HasAll(FunctionsOf(d), sourceCode[d])
          \/ \E t \in Thread : Doc(t) = d /\ pc[t] \in Marking

FInv ==
    /\ IInv
    /\ compiledFunctions = [d \in Document |-> compiledFunctions[d]]
    /\ \A t \in Thread : ParsedOK(t)
    /\ \A d \in Document : FunctionsOK(d)

(* Steps of a thread change the thread only. *)
OnlyMoves(t) ==
    \A u \in Thread \ {t} : pc'[u] = pc[u] /\ call'[u] = call[u] /\ pos'[u] = pos[u]

LEMMA StepMovesOne ==
    ASSUME IInv, NEW t \in Thread,
           \/ \E d \in Document : Run(t, d) \/ \E e \in EnvsOf[d] \cup {t} : Compile(t, d, e)
           \/ Continue(t) \/ Step(t)
    PROVE  OnlyMoves(t)
  <1>1. CASE Step(t)
    BY <1>1 DEF Step, Lock, PipesFail, Pipes, Define, TakeRoot, AssignCode, TestCode,
       MarkCompiled, AssignFunctions, UnmarkCompiled, Compiled, Check, CheckCode,
       Send, Evaluate, Return, Interrupt, Goes, OnlyMoves, IInv, TypeOK
  <1>2. CASE ~Step(t)
    BY <1>2 DEF Run, Compile, Continue, Goes, OnlyMoves, IInv, TypeOK
  <1>3. QED
    BY <1>1, <1>2

(* A step that touches no document and no dictionary. *)
LEMMA NothingDefined ==
    ASSUME FInv, NEW t \in Thread, OnlyMoves(t),
           UNCHANGED docVars, UNCHANGED functionDictionary, ParsedOK(t)',
           pc[t] \in Marking =>
              \/ pc'[t] \in Marking /\ Doc(t)' = Doc(t)
              \/ compiledCode[Doc(t)] = Null
    PROVE  (\A u \in Thread : ParsedOK(u)') /\ (\A d \in Document : FunctionsOK(d)')
  <1>1. ASSUME NEW u \in Thread \ {t} PROVE ParsedOK(u)'
    BY DEF FInv, ParsedOK, OnlyMoves, Env, Doc, docVars
  <1>2. ASSUME NEW d \in Document PROVE FunctionsOK(d)'
    <2>1. FunctionsOK(d)
      BY DEF FInv
    <2>2. FunctionsOf(d)' = FunctionsOf(d)
      BY DEF FunctionsOf, docVars
    <2>3. ASSUME compiledCode[d] # Null, NEW u \in Thread, Doc(u) = d, pc[u] \in Marking
          PROVE  Doc(u)' = d /\ pc'[u] \in Marking
      BY <2>3 DEF OnlyMoves, Doc
    <2>4. QED
      BY <2>1, <2>2, <2>3 DEF FunctionsOK, docVars
  <1>3. QED
    BY <1>1, <1>2

LEMMA QuietSteps ==
    ASSUME FInv, NEW t \in Thread,
           \/ \E d \in Document : Run(t, d) \/ \E e \in EnvsOf[d] \cup {t} : Compile(t, d, e)
           \/ Continue(t) \/ Lock(t) \/ Pipes(t) \/ TakeRoot(t) \/ TestCode(t)
           \/ Check(t) \/ CheckCode(t) \/ Evaluate(t) \/ Return(t) \/ Interrupt(t)
    PROVE  (\A u \in Thread : ParsedOK(u)') /\ (\A d \in Document : FunctionsOK(d)')
  <1>1. TypeOK /\ CallOK /\ LockOK /\ IInv /\ ParsedOK(t)
    BY DEF FInv, IInv
  <1>2. OnlyMoves(t)
    BY <1>1, StepMovesOne DEF Step
  <1>3. UNCHANGED docVars /\ UNCHANGED functionDictionary
    BY DEF Run, Compile, Continue, Lock, Pipes, TakeRoot, TestCode, Check, CheckCode,
       Evaluate, Return, Interrupt, envVars
  <1>4. CASE \/ \E d \in Document : Run(t, d) \/ \E e \in EnvsOf[d] \cup {t} : Compile(t, d, e)
             \/ Return(t)
    <2>1. pc[t] \notin Marking /\ pc'[t] \in {"check", "lock", "idle"}
      BY <1>1, <1>4 DEF Run, Compile, Return, At, Goes, TypeOK, Marking
    <2>2. pc'[t] # "idle" => Env(t)' \in EnvsOf[Doc(t)'] \cup {t}
      BY <1>1, <1>4 DEF Run, Compile, Return, At, Goes, TypeOK, Env, Doc
    <2>3. ParsedOK(t)'
      BY <2>1, <2>2 DEF ParsedOK, Marking
    <2>4. QED
      BY <1>2, <1>3, <2>1, <2>3, NothingDefined
  <1>5. CASE \/ Continue(t) \/ Lock(t) \/ Check(t) \/ CheckCode(t) \/ Evaluate(t)
             \/ Interrupt(t)
    <2>1. /\ pc[t] \notin Marking /\ pc[t] # "idle"
          /\ pc'[t] \in {"check", "checkCode", "lock", "pipes", "evaluate", "evaluating",
                         "interrupted"}
      BY <1>1, <1>5 DEF Continue, Lock, Check, CheckCode, Evaluate, Interrupt, Send, At,
         Goes, TypeOK, Marking
    <2>2. Env(t)' = Env(t) /\ Doc(t)' = Doc(t)
      BY <1>1, <1>5, <2>1, CallUnderWay DEF Continue, Lock, Check, CheckCode, Evaluate,
         Interrupt, Send, TypeOK, Env, Doc
    <2>3. ParsedOK(t)'
      BY <1>1, <2>1, <2>2 DEF ParsedOK, Marking
    <2>4. QED
      BY <1>2, <1>3, <2>1, <2>3, NothingDefined
  <1>6. CASE Pipes(t)
    <2>1. pc[t] = "pipes" /\ pc'[t] = "parse" /\ pos'[t] = 1 /\ call' = call
      BY <1>1, <1>6 DEF Pipes, At, Goes, TypeOK
    <2>2. sourceCode[Doc(t)] \in Text
      BY <1>1, <2>1, CallUnderWay DEF TypeOK
    <2>3. \A D : HasUpTo(D, sourceCode[Doc(t)], 1)
      BY <2>2, Positions DEF HasUpTo
    <2>4. ParsedOK(t)'
      BY <1>1, <1>3, <2>1, <2>3 DEF ParsedOK, Marking, Env, Doc, docVars
    <2>5. QED
      BY <1>2, <1>3, <2>1, <2>4, NothingDefined DEF Marking
  <1>7. CASE TakeRoot(t)
    <2>1. /\ pc[t] = "parse" /\ pc'[t] = "assign" /\ call' = call
          /\ pos[t] > Len(Functions[call[t].text])
      BY <1>1, <1>7 DEF TakeRoot, At, Goes, TypeOK
    <2>2. call[t].text = sourceCode[Doc(t)] /\ sourceCode[Doc(t)] \in Text
      BY <1>1, <2>1, CallUnderWay DEF TypeOK, CallOK
    <2>3. HasAll(functionDictionary[Env(t)], sourceCode[Doc(t)])
      <3>1. HasUpTo(functionDictionary[Env(t)], sourceCode[Doc(t)], pos[t])
        BY <1>1, <2>1 DEF ParsedOK
      <3>2. \A i \in DOMAIN Functions[sourceCode[Doc(t)]] : i < pos[t]
        BY <1>1, <2>1, <2>2, Positions DEF LockOK
      <3>3. QED
        BY <3>1, <3>2 DEF HasUpTo, HasAll
    <2>4. ParsedOK(t)'
      BY <1>1, <1>3, <2>1, <2>3 DEF ParsedOK, Marking, Env, Doc, docVars
    <2>5. QED
      BY <1>2, <1>3, <2>1, <2>4, NothingDefined DEF Marking
  <1>8. CASE TestCode(t)
    <2>1. /\ pc[t] = "test" /\ call' = call
          /\ pc'[t] = IF compiledCode[Doc(t)] # Null THEN "mark" ELSE "unmark"
      BY <1>1, <1>8 DEF TestCode, At, Goes, TypeOK
    <2>2. ParsedOK(t)'
      BY <1>1, <1>3, <2>1 DEF ParsedOK, Marking, Env, Doc, docVars
    <2>3. QED
      BY <1>2, <1>3, <2>1, <2>2, NothingDefined DEF Marking, Doc
  <1>9. QED
    BY <1>4, <1>5, <1>6, <1>7, <1>8

(* A definition that is added is of the text that is compiled; who else has *)
(* the environment compiles the same. *)
LEMMA DefineFunctions ==
    ASSUME Exclusive, FInv, NEW t \in Thread, Define(t)
    PROVE  (\A u \in Thread : ParsedOK(u)') /\ (\A d \in Document : FunctionsOK(d)')
  <1> DEFINE s == call[t].text
             e == Env(t)
             name == Functions[s][pos[t]].name
             code == Linked(e, s, pos[t])
  <1>1. TypeOK /\ CallOK /\ LockOK /\ IInv /\ ParsedOK(t)
    BY DEF FInv, IInv
  <1>2. /\ pc[t] = "parse" /\ pos[t] <= Len(Functions[s]) /\ pos'[t] = pos[t] + 1
        /\ functionDictionary' = [functionDictionary EXCEPT ![e][name] = code]
        /\ UNCHANGED docVars /\ pc' = pc /\ call' = call
    BY <1>1 DEF Define, At, TypeOK
  <1>3. /\ s = sourceCode[Doc(t)] /\ s \in Text /\ pos[t] \in DOMAIN Functions[s]
        /\ pos[t] \in Nat /\ e \in CEnv /\ name \in Name /\ Doc(t) \in Document
        /\ e \in EnvsOf[Doc(t)] \cup {t}
    <2>1. s = sourceCode[Doc(t)] /\ s \in Text /\ e \in CEnv /\ Doc(t) \in Document
      BY <1>1, <1>2, CallUnderWay DEF TypeOK, CallOK
    <2>2. pos[t] \in DOMAIN Functions[s] /\ pos[t] \in Nat
      BY <1>1, <1>2, <2>1, Positions DEF LockOK
    <2>3. QED
      BY <1>1, <1>2, <2>1, <2>2, Positions DEF ParsedOK
  <1>4. code # Null /\ code.of = s
    <2>1. code \in Code
      BY <1>1, <1>3, LinkedIsCode
    <2>2. code.of = s
      BY DEF Linked
    <2>3. QED
      BY <2>1, <2>2, DocumentAssumption
  <1>5. OnlyMoves(t)
    BY <1>1, <1>2, StepMovesOne DEF Step
  <1> HIDE DEF s, e, name, code
  <1>6. /\ \A g \in CEnv \ {e} : functionDictionary'[g] = functionDictionary[g]
        /\ functionDictionary'[e][name] = code
        /\ \A n \in Name \ {name} : functionDictionary'[e][n] = functionDictionary[e][n]
    BY <1>1, <1>2, <1>3 DEF TypeOK
  <1>7. \A i \in DOMAIN Functions[s] :
            /\ HasFunction(functionDictionary[e], s, i)
                  => HasFunction(functionDictionary'[e], s, i)
            /\ i = pos[t] => HasFunction(functionDictionary'[e], s, i)
    BY <1>3, <1>4, <1>6, Positions DEF HasFunction, name
  (* Whoever relies on the environment compiles the same text. *)
  <1>8. ASSUME NEW d \in Document, NEW g \in EnvsOf[d], g = e
        PROVE  sourceCode[d] = s
    <2>1. e \in HostEnv /\ e # t
      BY <1>8, DocumentAssumption
    <2>2. QED
      BY <1>3, <1>8, <2>1 DEF Exclusive
  <1>9. ASSUME NEW u \in Thread \ {t} PROVE ParsedOK(u)'
    <2>1. /\ ParsedOK(u) /\ pc'[u] = pc[u] /\ pos'[u] = pos[u]
          /\ Env(u)' = Env(u) /\ Doc(u)' = Doc(u)
      BY <1>2, <1>5 DEF FInv, OnlyMoves, Env, Doc
    <2>2. CASE pc[u] = "idle"
      BY <2>1, <2>2 DEF ParsedOK, Marking
    <2>3. CASE pc[u] # "idle" /\ Env(u) = e
      <3>1. Env(u) \in EnvsOf[Doc(u)] /\ Doc(u) \in Document
        <4>1. Env(u) \in EnvsOf[Doc(u)] \cup {u} /\ Doc(u) \in Document
          BY <1>1, <2>1, <2>3, CallUnderWay DEF ParsedOK
        <4>2. Env(u) # u
          BY <1>3, <2>3, DocumentAssumption
        <4>3. QED
          BY <4>1, <4>2
      <3>2. sourceCode[Doc(u)] = s
        BY <1>8, <2>3, <3>1
      <3>3. QED
        BY <1>2, <1>7, <2>1, <2>3, <3>2 DEF ParsedOK, HasUpTo, HasAll, docVars
    <2>4. CASE pc[u] # "idle" /\ Env(u) # e
      <3>1. Env(u) \in CEnv
        BY <1>1, <2>4, CallUnderWay
      <3>2. functionDictionary'[Env(u)] = functionDictionary[Env(u)]
        BY <1>6, <2>4, <3>1
      <3>3. QED
        BY <1>2, <2>1, <3>2 DEF ParsedOK, docVars
    <2>5. QED
      BY <2>2, <2>3, <2>4
  <1>10. ParsedOK(t)'
    <2>1. HasUpTo(functionDictionary'[e], s, pos[t] + 1)
      <3>1. HasUpTo(functionDictionary[e], s, pos[t])
        BY <1>1, <1>2, <1>3 DEF ParsedOK, e
      <3>2. \A i \in DOMAIN Functions[s] : i < pos[t] + 1 => i < pos[t] \/ i = pos[t]
        BY <1>3, Positions
      <3>3. QED
        BY <1>7, <3>1, <3>2 DEF HasUpTo
    <2>2. Env(t)' = e /\ Doc(t)' = Doc(t) /\ sourceCode'[Doc(t)] = s
      BY <1>2, <1>3 DEF Env, Doc, e, docVars
    <2>3. QED
      BY <1>2, <1>3, <2>1, <2>2 DEF ParsedOK, Marking
  <1>11. ASSUME NEW d \in Document PROVE FunctionsOK(d)'
    <2>1. FunctionsOK(d)
      BY DEF FInv
    <2>2. HasAll(FunctionsOf(d), sourceCode[d]) => HasAll(FunctionsOf(d)', sourceCode[d])
      <3>1. CASE compiledFunctions[d] \in HostEnv /\ compiledFunctions[d] = e
        <4>1. sourceCode[d] = s
          BY <1>8, <2>1, <3>1 DEF FunctionsOK
        <4>2. QED
          BY <1>2, <1>7, <3>1, <4>1 DEF FunctionsOf, HasAll, docVars
      <3>2. CASE ~(compiledFunctions[d] \in HostEnv /\ compiledFunctions[d] = e)
        BY <1>2, <1>6, <3>2 DEF FunctionsOf, docVars, CEnv
      <3>3. QED
        BY <3>1, <3>2
    <2>3. QED
      BY <1>2, <2>1, <2>2 DEF FunctionsOK, Doc, docVars
  <1>12. QED
    BY <1>9, <1>10, <1>11

LEMMA PipesFailFunctions ==
    ASSUME FInv, NEW t \in Thread, PipesFail(t)
    PROVE  (\A u \in Thread : ParsedOK(u)') /\ (\A d \in Document : FunctionsOK(d)')
  <1>1. TypeOK /\ IInv /\ pc[t] = "pipes" /\ pc' = [pc EXCEPT ![t] = "assign"]
    BY DEF FInv, IInv, PipesFail, At, Goes
  <1>2. /\ call' = call /\ pos' = pos /\ functionDictionary' = functionDictionary
        /\ sourceCode' = sourceCode /\ isCompiled' = isCompiled
        /\ compiledCode' = compiledCode /\ compiledFunctions' = compiledFunctions
        /\ noPipes'[Doc(t)] /\ \A d \in Document : noPipes[d] => noPipes'[d]
    BY <1>1, CallUnderWay DEF PipesFail, TypeOK
  <1>3. ASSUME NEW u \in Thread PROVE ParsedOK(u)'
    <2>1. ParsedOK(u) /\ (u # t => pc'[u] = pc[u]) /\ pc'[t] = "assign"
      BY <1>1 DEF FInv, TypeOK
    <2>2. pc[u] # "idle" => Doc(u) \in Document
      BY <1>1, CallUnderWay
    <2>3. QED
      BY <1>1, <1>2, <2>1, <2>2 DEF ParsedOK, Marking, Env, Doc
  <1>4. ASSUME NEW d \in Document PROVE FunctionsOK(d)'
    <2>1. FunctionsOK(d) /\ FunctionsOf(d)' = FunctionsOf(d)
      BY <1>2 DEF FInv, FunctionsOf
    <2>2. \A u \in Thread : pc[u] \in Marking => pc'[u] \in Marking
      BY <1>1 DEF TypeOK, Marking
    <2>3. QED
      BY <1>2, <2>1, <2>2 DEF FunctionsOK, Doc
  <1>5. QED
    BY <1>3, <1>4

LEMMA MarkFunctions ==
    ASSUME FInv, NEW t \in Thread, AssignCode(t) \/ MarkCompiled(t)
    PROVE  (\A u \in Thread : ParsedOK(u)') /\ (\A d \in Document : FunctionsOK(d)')
  <1>1. /\ TypeOK /\ IInv /\ pc[t] \in {"assign", "mark"} /\ pc'[t] \in Marking
        /\ \A u \in Thread \ {t} : pc'[u] = pc[u]
    BY DEF FInv, IInv, AssignCode, MarkCompiled, At, Goes, TypeOK, Marking
  <1>2. /\ call' = call /\ pos' = pos /\ functionDictionary' = functionDictionary
        /\ sourceCode' = sourceCode /\ noPipes' = noPipes
        /\ compiledFunctions' = compiledFunctions
        /\ \A d \in Document \ {Doc(t)} :
              isCompiled'[d] = isCompiled[d] /\ compiledCode'[d] = compiledCode[d]
    BY <1>1, CallUnderWay DEF AssignCode, MarkCompiled, TypeOK, envVars
  <1>3. ASSUME NEW u \in Thread PROVE ParsedOK(u)'
    <2>1. ParsedOK(u)
      BY DEF FInv
    <2>2. QED
      BY <1>1, <1>2, <2>1 DEF ParsedOK, Marking, Env, Doc
  <1>4. ASSUME NEW d \in Document PROVE FunctionsOK(d)'
    <2>1. FunctionsOK(d) /\ FunctionsOf(d)' = FunctionsOf(d)
      BY <1>2 DEF FInv, FunctionsOf
    <2>2. \A u \in Thread : pc[u] \in Marking => pc'[u] \in Marking
      BY <1>1
    <2>3. CASE d = Doc(t)
      BY <1>1, <1>2, <2>1, <2>3 DEF FunctionsOK, Doc
    <2>4. CASE d # Doc(t)
      BY <1>2, <2>1, <2>2, <2>4 DEF FunctionsOK, Doc
    <2>5. QED
      BY <2>3, <2>4
  <1>5. QED
    BY <1>3, <1>4

(* A compile ends: its environment, if it made one, ends with it. *)
LEMMA CompiledFunctions ==
    ASSUME Exclusive, FInv, NEW t \in Thread, AssignFunctions(t) \/ UnmarkCompiled(t)
    PROVE  (\A u \in Thread : ParsedOK(u)') /\ (\A d \in Document : FunctionsOK(d)')
  <1>1. /\ TypeOK /\ IInv /\ pc[t] \in {"functions", "unmark"} /\ ParsedOK(t)
        /\ Doc(t) \in Document /\ Env(t) \in EnvsOf[Doc(t)] \cup {t}
    <2>1. TypeOK /\ IInv /\ pc[t] \in {"functions", "unmark"} /\ ParsedOK(t)
      BY DEF FInv, IInv, AssignFunctions, UnmarkCompiled, At
    <2>2. QED
      BY <2>1, CallUnderWay DEF ParsedOK
  <1>2. /\ OnlyMoves(t) /\ pc'[t] \in {"evaluate", "idle"}
        /\ pc'[t] # "idle" => Env(t)' = Env(t) /\ Doc(t)' = Doc(t)
        /\ \A e \in CEnv \ {t} : functionDictionary'[e] = functionDictionary[e]
        /\ sourceCode' = sourceCode /\ compiledCode' = compiledCode /\ noPipes' = noPipes
        /\ \A d \in Document \ {Doc(t)} : /\ isCompiled'[d] = isCompiled[d]
                                          /\ compiledFunctions'[d] = compiledFunctions[d]
    <2>1. OnlyMoves(t)
      BY <1>1, StepMovesOne DEF Step
    <2>2. Compiled(t)
      BY DEF AssignFunctions, UnmarkCompiled
    <2>3. /\ pc'[t] \in {"evaluate", "idle"}
          /\ pc'[t] # "idle" => Env(t)' = Env(t) /\ Doc(t)' = Doc(t)
          /\ \A e \in CEnv \ {t} : functionDictionary'[e] = functionDictionary[e]
      BY <1>1, <2>2 DEF Compiled, Goes, TypeOK, Env, Doc
    <2>4. CASE AssignFunctions(t)
      <3>1. \A d \in Document \ {Doc(t)} : compiledFunctions'[d] = compiledFunctions[d]
        <4>1. compiledFunctions' = [compiledFunctions EXCEPT ![Doc(t)] = DictionaryOf(t)]
          BY <2>4 DEF AssignFunctions
        <4>2. DOMAIN compiledFunctions = Document
          BY DEF FInv
        <4>3. QED
          BY <4>1, <4>2
      <3>2. QED
        BY <2>1, <2>3, <2>4, <3>1 DEF AssignFunctions
    <2>5. CASE UnmarkCompiled(t)
      BY <1>1, <2>1, <2>3, <2>5 DEF UnmarkCompiled, TypeOK
    <2>6. QED
      BY <2>4, <2>5
  <1>3. ParsedOK(t)'
    BY <1>1, <1>2 DEF ParsedOK, Marking
  <1>4. ASSUME NEW u \in Thread \ {t} PROVE ParsedOK(u)'
    <2>1. /\ ParsedOK(u) /\ pc'[u] = pc[u] /\ pos'[u] = pos[u]
          /\ Env(u)' = Env(u) /\ Doc(u)' = Doc(u)
      BY <1>2 DEF FInv, OnlyMoves, Env, Doc
    <2>2. CASE pc[u] = "idle"
      BY <2>1, <2>2 DEF ParsedOK, Marking
    <2>3. CASE pc[u] # "idle"
      <3>1. Env(u) \in EnvsOf[Doc(u)] \cup {u} /\ Doc(u) \in Document /\ Env(u) \in CEnv
        BY <1>1, <2>1, <2>3, CallUnderWay DEF ParsedOK
      <3>2. Env(u) # t
        BY <3>1, DocumentAssumption
      <3>3. QED
        BY <1>2, <2>1, <3>1, <3>2 DEF ParsedOK
    <2>4. QED
      BY <2>2, <2>3
  <1>5. ASSUME NEW d \in Document, d # Doc(t) PROVE FunctionsOK(d)'
    <2>1. FunctionsOK(d)
      BY DEF FInv
    <2>2. FunctionsOf(d)' = FunctionsOf(d)
      BY <1>2, <1>5, DocumentAssumption DEF FunctionsOf, CEnv
    <2>3. \A u \in Thread : Doc(u) = d => Doc(u)' = d /\ pc'[u] = pc[u]
      BY <1>2, <1>5 DEF OnlyMoves, Doc
    <2>4. QED
      BY <1>2, <1>5, <2>1, <2>2, <2>3 DEF FunctionsOK
  <1>6. ASSUME NEW d \in Document, d = Doc(t) PROVE FunctionsOK(d)'
    <2>1. FunctionsOK(d)
      BY DEF FInv
    <2>2. CASE UnmarkCompiled(t)
      <3>1. ~isCompiled'[d] /\ compiledFunctions' = compiledFunctions
        BY <1>1, <1>6, <2>2 DEF UnmarkCompiled, TypeOK
      <3>2. QED
        BY <2>1, <3>1 DEF FunctionsOK
    <2>3. CASE AssignFunctions(t)
      <3>1. pc[t] = "functions" /\ compiledFunctions'[d] = DictionaryOf(t)
        <4>1. DOMAIN compiledFunctions = Document
          BY DEF FInv
        <4>2. QED
          BY <1>6, <2>3, <4>1 DEF AssignFunctions, At
      <3>2. ~noPipes[d] => HasAll(functionDictionary[Env(t)], sourceCode[d])
        BY <1>1, <1>6, <3>1 DEF ParsedOK, Marking
      <3>3. /\ FunctionsOf(d)' = functionDictionary[Env(t)]
            /\ compiledFunctions'[d] \in HostEnv => compiledFunctions'[d] \in EnvsOf[d]
        <4>1. CASE Env(t) = t
          <5>1. functionDictionary[t] \in [Name -> Code \cup {Null}]
            BY <1>1 DEF TypeOK, CEnv
          <5>2. compiledFunctions'[d] \notin HostEnv
            BY <3>1, <4>1, <5>1 DEF DictionaryOf, Exclusive
          <5>3. QED
            BY <3>1, <4>1, <5>2 DEF DictionaryOf, FunctionsOf
        <4>2. CASE Env(t) # t
          <5>1. Env(t) \in EnvsOf[d] /\ Env(t) \in HostEnv
            BY <1>1, <1>6, <4>2, DocumentAssumption
          <5>2. functionDictionary'[Env(t)] = functionDictionary[Env(t)]
            BY <1>2, <4>2, <5>1 DEF CEnv
          <5>3. QED
            BY <3>1, <4>2, <5>1, <5>2 DEF DictionaryOf, FunctionsOf
        <4>3. QED
          BY <4>1, <4>2
      <3>4. QED
        BY <1>2, <3>2, <3>3 DEF FunctionsOK
    <2>4. QED
      BY <2>2, <2>3
  <1>7. QED
    BY <1>3, <1>4, <1>5, <1>6

(* The host sets a text nobody uses. *)
LEMMA SetSourceFunctions ==
    ASSUME Forgets, FInv, NEW d \in Document, NEW s \in Texts[d], NEW how \in Setters,
           SetSource(d, s, how)
    PROVE  (\A u \in Thread : ParsedOK(u)') /\ (\A b \in Document : FunctionsOK(b)')
  <1>1. TypeOK /\ IInv /\ \A u \in Thread : Doc(u) # d
    BY DEF FInv, IInv, SetSource
  <1>2. /\ pc' = pc /\ call' = call /\ pos' = pos
        /\ functionDictionary' = functionDictionary
        /\ compiledCode' = compiledCode /\ compiledFunctions' = compiledFunctions
        /\ ~isCompiled'[d]
        /\ \A b \in Document \ {d} : /\ sourceCode'[b] = sourceCode[b]
                                     /\ isCompiled'[b] = isCompiled[b]
                                     /\ noPipes'[b] = noPipes[b]
    BY <1>1 DEF SetSource, TypeOK, Forgets, envVars
  <1>3. ASSUME NEW u \in Thread PROVE ParsedOK(u)'
    <2>1. ParsedOK(u)
      BY DEF FInv
    <2>2. CASE pc[u] = "idle"
      BY <1>2, <2>2 DEF ParsedOK, Marking
    <2>3. CASE pc[u] # "idle"
      <3>1. Doc(u) \in Document \ {d}
        BY <1>1, <2>3, CallUnderWay
      <3>2. QED
        BY <1>2, <2>1, <3>1 DEF ParsedOK, Env, Doc
    <2>4. QED
      BY <2>2, <2>3
  <1>4. ASSUME NEW b \in Document PROVE FunctionsOK(b)'
    <2>1. FunctionsOK(b) /\ FunctionsOf(b)' = FunctionsOf(b)
      BY <1>2 DEF FInv, FunctionsOf
    <2>2. QED
      BY <1>2, <2>1 DEF FunctionsOK, Doc
  <1>5. QED
    BY <1>3, <1>4

LEMMA InitFunctions ==
    ASSUME Init PROVE FInv
  <1>1. IInv
    BY InitEstablishes
  <1>2. ASSUME NEW t \in Thread PROVE ParsedOK(t)
    BY DEF Init, ParsedOK, Marking
  <1>3. ASSUME NEW d \in Document PROVE FunctionsOK(d)
    <2>1. compiledFunctions[d] = Null /\ ~isCompiled[d]
      BY DEF Init
    <2>2. QED
      BY <2>1, DocumentAssumption DEF FunctionsOK, CEnv
  <1>4. QED
    BY <1>1, <1>2, <1>3 DEF FInv, Init

LEMMA NextFunctions ==
    ASSUME Forgets, Exclusive, FInv, [Next]_vars
    PROVE  FInv'
  <1>1. IInv'
    BY NextKeeps DEF FInv
  <1>2. (compiledFunctions = [d \in Document |-> compiledFunctions[d]])'
    <2>1. compiledFunctions = [d \in Document |-> compiledFunctions[d]]
      BY DEF FInv
    <2>2. ASSUME NEW t \in Thread, AssignFunctions(t)
          PROVE  (compiledFunctions = [d \in Document |-> compiledFunctions[d]])'
      BY <2>1, <2>2 DEF AssignFunctions
    <2>3. CASE ~\E t \in Thread : AssignFunctions(t)
      <3>1. compiledFunctions' = compiledFunctions
        BY <2>3 DEF Next, Host, Step, Run, Compile, Continue, SetSource, Lock, PipesFail,
           Pipes, Define, TakeRoot, AssignCode, TestCode, MarkCompiled, UnmarkCompiled,
           Check, CheckCode, Evaluate, Return, Interrupt, vars, docVars
      <3>2. QED
        BY <2>1, <3>1
    <2>4. QED
      BY <2>2, <2>3
  <1>3. (\A u \in Thread : ParsedOK(u)') /\ (\A d \in Document : FunctionsOK(d)')
    <2>1. CASE \E t \in Thread :
                  \/ \E d \in Document : Run(t, d) \/ \E e \in EnvsOf[d] \cup {t} : Compile(t, d, e)
                  \/ Continue(t)
      BY <2>1, QuietSteps
    <2>2. ASSUME NEW d \in Document, NEW s \in Texts[d], NEW how \in Setters,
                 SetSource(d, s, how)
          PROVE  (\A u \in Thread : ParsedOK(u)') /\ (\A b \in Document : FunctionsOK(b)')
      BY <2>2, SetSourceFunctions
    <2>3. ASSUME NEW t \in Thread, Step(t)
          PROVE  (\A u \in Thread : ParsedOK(u)') /\ (\A b \in Document : FunctionsOK(b)')
      BY <2>3, QuietSteps, DefineFunctions, PipesFailFunctions, MarkFunctions,
         CompiledFunctions DEF Step
    <2>4. CASE UNCHANGED vars
      <3>1. FInv
        OBVIOUS
      <3>2. QED
        BY <2>4, <3>1 DEF FInv, ParsedOK, FunctionsOK, FunctionsOf, Env, Doc, vars,
           docVars, envVars
    <2>5. QED
      BY <2>1, <2>2, <2>3, <2>4 DEF Next, Host
  <1>4. QED
    BY <1>1, <1>2, <1>3 DEF FInv

(* When a text is set by the method that forgets the code, and the host keeps *)
(* an environment for one document at most, the functions of a document are those of the   *)
(* text its code is of: when nobody compiles it, a compiled document has all  *)
(* the functions its text defines, however many threads compile and run it    *)
(* (UMScriptDocument.m:109-132, UMScriptCompilerEnvironment.m:264).           *)
THEOREM FunctionsBelong ==
    ASSUME Forgets, Exclusive
    PROVE  Spec => []FunctionsAreCurrent
  <1>1. FInv => FunctionsAreCurrent
    <2> SUFFICES ASSUME FInv, NEW d \in Document, isCompiled[d],
                        compiledCode[d] # Null, ~noPipes[d],
                        \A t \in Thread : Doc(t) = d => ~Compiling(t)
                 PROVE  HasAll(FunctionsOf(d), sourceCode[d])
      BY DEF FunctionsAreCurrent, HasAll, HasFunction
    <2>1. FunctionsOK(d)
      BY DEF FInv
    <2>2. QED
      BY <2>1 DEF FunctionsOK, Compiling, Marking
  <1>2. QED
    BY <1>1, InitFunctions, NextFunctions, PTL DEF Spec

=============================================================================

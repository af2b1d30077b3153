------------------------ MODULE UMCompilerPipesProofs ------------------------
(***************************************************************************)
(* Proofs about compiles that one thread starts one after the other, each  *)
(* in an environment of its own, as compileSource does (UMScriptDocument.m: *)
(* 103-132).  The feeder and listener of each run concurrently with it and *)
(* may outlive it.  Two threads that compile at once do close each other's *)
(* descriptors (run compile_parallel).                                     *)
(*                                                                         *)
(* The invariant speaks of each compile alone.  A step of one leaves the   *)
(* state of every other alone but for the descriptor table, in which it    *)
(* takes closed numbers and gives up its own: that is proved once, and one *)
(* lemma for each action is about the compile that takes it.               *)
(***************************************************************************)
EXTENDS UMCompilerPipes, SequenceTheorems, FiniteSetTheorems,
        WellFoundedInduction, TLAPS

OneThread ==
    \A i, j \in Job : /\ Jobs[i].caller = Jobs[j].caller
                      /\ EnvOf(i) = EnvOf(j) => i = j

-----------------------------------------------------------------------------
(* The inductive invariant *)

Before == {"idle", "pipeIn", "pipeOut", "detach"}
Past == {"closeOut", "closeIn", "closeAgain", "forget", "wait"}
Byte == Nat \X Nat
JobType == [caller : Nat, env : Nat, size : Nat, bad : Nat, silent : SUBSET Nat]
Pipes == Job \X {"in", "out"}
Number == FD \cup {None}
End == {Closed} \cup
       {EndOf(j, name, end) : j \in Job, name \in {"in", "out"}, end \in {"rx", "tx"}}

ParserType == [read : Seq(Byte), scanned : Nat, echo : Nat, flushed : Nat,
               infile : Number, outfile : Number]
FeederType == [pc : {"none", "loop", "write", "forget", "ended"},
               write_size : Nat, current_pos : Nat, left : Nat, to : Pipes]
ListenerType == [pc : {"none", "start", "read", "close", "forget", "ended"},
                 outputData : Nat]

TypeInv ==
    /\ fd \in [FD -> End]
    /\ pipes \in [Pipes -> Seq(Byte)]
    /\ stdin_pipe \in [Env -> [rx : Number, tx : Number]]
    /\ stdout_pipe \in [Env -> [rx : Number, tx : Number]]
    /\ outputDataComplete \in [Env -> BOOLEAN]
    /\ stdOut \in [Env -> Nat]
    /\ lock \in [Env -> Job \cup {None}]
    /\ pc \in [Job -> Before \cup {"parse"} \cup Past \cup {"returned"}]
    /\ parser \in [Job -> ParserType]
    /\ feeder \in [Job -> FeederType]
    /\ listener \in [Job -> ListenerType]
    /\ ignoresSigpipe \in BOOLEAN
    /\ killed \in BOOLEAN

(* A thread does not start a compile before the last one has returned. *)
InOrder == \A i, j \in Job : i < j /\ pc[j] # "idle" => pc[i] = "returned"

(* The helper threads are there from detach on. *)
Threads(j) ==
    /\ feeder[j].pc = "none" <=> listener[j].pc = "none"
    /\ pc[j] \in Before => feeder[j].pc = "none"
    /\ pc[j] \in {"parse"} \cup Past => feeder[j].pc # "none"
    /\ pc[j] = "returned" =>
          listener[j].pc \in {"none", "close", "forget", "ended"}

Stdin(j) == stdin_pipe[EnvOf(j)]
Stdout(j) == stdout_pipe[EnvOf(j)]
Is(n, j, name, end) == n \in FD /\ fd[n] = EndOf(j, name, end)
Failed(j) == pc[j] = "returned" /\ feeder[j].pc = "none"

(* While a thread is to use or close a descriptor, the number it keeps is  *)
(* of its own end of the pipe. *)
UsesInRx(j) == pc[j] \in {"pipeOut", "detach", "parse", "closeOut", "closeIn"}
UsesInTx(j) == pc[j] \in {"pipeOut", "detach"} \/ feeder[j].pc \in {"loop", "write"}
UsesOutRx(j) == pc[j] = "detach" \/ listener[j].pc \in {"start", "read", "close"}
UsesOutTx(j) == pc[j] \in {"detach", "parse", "closeOut"}

Keeps(j) ==
    /\ UsesInRx(j) => Is(Stdin(j).rx, j, "in", "rx")
    /\ UsesInTx(j) => Is(Stdin(j).tx, j, "in", "tx")
    /\ UsesOutRx(j) => Is(Stdout(j).rx, j, "out", "rx")
    /\ UsesOutTx(j) => Is(Stdout(j).tx, j, "out", "tx")

(* And nothing else is open, unless the second pipe could not be made. *)
HoldsNoMore(j) ==
    \A n \in FD :
        /\ fd[n] = EndOf(j, "in", "rx") =>
              n = Stdin(j).rx /\ (UsesInRx(j) \/ Failed(j))
        /\ fd[n] = EndOf(j, "in", "tx") =>
              n = Stdin(j).tx /\ (UsesInTx(j) \/ Failed(j))
        /\ fd[n] = EndOf(j, "out", "rx") => n = Stdout(j).rx /\ UsesOutRx(j)
        /\ fd[n] = EndOf(j, "out", "tx") => n = Stdout(j).tx /\ UsesOutTx(j)

(* The parser has the numbers it was given, what is closed twice is closed *)
(* the second time, and the writing end is forgotten. *)
Numbers(j) ==
    /\ pc[j] = "parse" => parser[j].infile = Stdin(j).rx /\ parser[j].outfile = Stdout(j).tx
    /\ pc[j] = "closeAgain" => Stdin(j).rx \in FD /\ fd[Stdin(j).rx] = Closed
    /\ pc[j] \in Past \ {"closeOut"} => Stdout(j).tx = None

(* What was written of the source, and what has been read of it. *)
Source(j) == pipes[<<j, "in">>]
Echo(j) == pipes[<<j, "out">>]
Read(j) == Len(parser[j].read)
Scanned(j) == parser[j].scanned
Fed(j) == Read(j) + Len(Source(j))

BytesInOrder(j) ==
    /\ \A i \in 1 .. Read(j) : parser[j].read[i] = <<j, i>>
    /\ \A i \in 1 .. Len(Source(j)) : Source(j)[i] = <<j, Read(j) + i>>

(* A write that fails spoils the numbers of a feeder that survives it. *)
Intact(j) == UsesInRx(j) \/ ~ignoresSigpipe

Feeds(j) ==
    /\ Fed(j) <= Size(j)
    /\ feeder[j].pc = "none" => Fed(j) = 0 /\ feeder[j].current_pos = 0
    /\ feeder[j].pc = "write" => feeder[j].to = <<j, "in">>
    /\ feeder[j].pc = "loop" /\ Intact(j) =>
          \/ /\ feeder[j].write_size = Size(j) /\ feeder[j].current_pos = 0
             /\ Fed(j) = 0
          \/ feeder[j].write_size = 0 /\ Fed(j) = Size(j)
    /\ feeder[j].pc = "write" /\ Intact(j) =>
          /\ feeder[j].write_size = Size(j) /\ feeder[j].current_pos = 0
          /\ feeder[j].left > 0 /\ Fed(j) + feeder[j].left = Size(j)
    /\ feeder[j].pc \in {"forget", "ended"} /\ pc[j] = "parse" => Fed(j) = Size(j)

(* The scanner stays within what it has read, and has read what it asked    *)
(* for at its last byte, or all there is. *)
Scans(j) ==
    /\ Scanned(j) <= Read(j)
    /\ Jobs[j].bad # 0 => Scanned(j) <= Jobs[j].bad
    /\ Scanned(j) > 0 => Read(j) = Size(j) \/ Read(j) >= Asked(Scanned(j) - 1)

(* The parser is done with its source. *)
Parsed(j) == pc[j] \in Past \/ (pc[j] = "returned" /\ feeder[j].pc # "none")
GaveUp(j) == Jobs[j].bad \in 1 .. Scanned(j)

Stops(j) ==
    Parsed(j) => /\ parser[j].echo < EchoSize
                 /\ \/ GaveUp(j)
                    \/ Scanned(j) = Size(j) /\ feeder[j].pc \in {"forget", "ended"}

(* Every byte of a token is in a buffer, in the pipe, or collected. *)
Echoed(j) == Cardinality((1 .. Scanned(j)) \ Jobs[j].silent)

Collects(j) ==
    /\ parser[j].flushed + parser[j].echo = Echoed(j)
    /\ listener[j].pc \in {"none", "start", "read"} =>
          /\ parser[j].flushed = listener[j].outputData + Len(Echo(j))
          /\ stdOut[EnvOf(j)] = 0 /\ ~outputDataComplete[EnvOf(j)]
    /\ listener[j].pc \in {"close", "forget", "ended"} =>
          /\ stdOut[EnvOf(j)] = parser[j].flushed
          /\ pc[j] \in Past \cup {"returned"} /\ pc[j] # "closeOut"

JobInv(j) ==
    /\ Threads(j)
    /\ Keeps(j)
    /\ HoldsNoMore(j)
    /\ Numbers(j)
    /\ BytesInOrder(j)
    /\ Feeds(j)
    /\ Scans(j)
    /\ Stops(j)
    /\ Collects(j)

IInv == TypeInv /\ InOrder /\ \A j \in Job : JobInv(j)

-----------------------------------------------------------------------------
(* Jobs, environments and types *)

LEMMA JobFacts ==
  ASSUME NEW j \in Job
  PROVE  /\ j \in Nat /\ j # None
         /\ EnvOf(j) \in Env
         /\ Size(j) \in Nat /\ Size(j) + 1 < Word
         /\ Jobs[j].bad \in Nat /\ Jobs[j].bad <= Size(j)
         /\ <<j, "in">> \in Pipes /\ <<j, "out">> \in Pipes
  <1>1. j \in 1 .. Len(Jobs) /\ Jobs[j] \in JobType /\ Len(Jobs) \in Nat
    <2>1. Jobs \in Seq(JobType)
      BY PipesAssumption DEF JobType
    <2>2. j \in 1 .. Len(Jobs) /\ Len(Jobs) \in Nat
      BY <2>1, LenProperties DEF Job
    <2> QED BY <2>1, <2>2, ElementOfSeq
  <1>2. j \in Nat /\ j # None
    BY <1>1 DEF None
  <1>3. Jobs[j].size \in Nat /\ Jobs[j].bad \in Nat
    BY <1>1 DEF JobType
  <1> QED BY <1>2, <1>3, PipesAssumption DEF Env, EnvOf, Size, Pipes

LEMMA Sizes ==
  /\ PipeSize \in Nat \ {0} /\ ReadSize \in Nat \ {0} /\ FillSize \in Nat \ {0}
  /\ EchoSize \in Nat \ {0} /\ Word \in Nat \ {0}
  /\ MaxFDs \in Nat /\ FD \subseteq Nat \ {0}
  BY PipesAssumption DEF FD

LEMMA TypesOf ==
  ASSUME TypeInv, NEW j \in Job
  PROVE  /\ parser[j] \in ParserType /\ feeder[j] \in FeederType
         /\ listener[j] \in ListenerType
         /\ Stdin(j) \in [rx : Number, tx : Number]
         /\ Stdout(j) \in [rx : Number, tx : Number]
         /\ stdOut[EnvOf(j)] \in Nat /\ outputDataComplete[EnvOf(j)] \in BOOLEAN
         /\ Source(j) \in Seq(Byte) /\ Echo(j) \in Seq(Byte)
         /\ pc[j] \in Before \cup {"parse"} \cup Past \cup {"returned"}
  BY JobFacts DEF TypeInv, Stdin, Stdout, Source, Echo

(* The types of the numbers and sequences the invariant speaks of. *)
LEMMA PartsOf ==
  ASSUME TypeInv, NEW j \in Job
  PROVE  /\ parser[j].read \in Seq(Byte) /\ parser[j].echo \in Nat
         /\ parser[j].flushed \in Nat /\ Read(j) \in Nat /\ Scanned(j) \in Nat
         /\ Source(j) \in Seq(Byte) /\ Echo(j) \in Seq(Byte)
         /\ Len(Source(j)) \in Nat /\ Len(Echo(j)) \in Nat /\ Fed(j) \in Nat
         /\ feeder[j].write_size \in Nat /\ feeder[j].current_pos \in Nat
         /\ feeder[j].left \in Nat /\ listener[j].outputData \in Nat
         /\ stdOut[EnvOf(j)] \in Nat
         /\ Stdin(j).rx \in Number /\ Stdin(j).tx \in Number
         /\ Stdout(j).rx \in Number /\ Stdout(j).tx \in Number
  <1>1. /\ parser[j].read \in Seq(Byte) /\ parser[j].echo \in Nat
        /\ parser[j].flushed \in Nat /\ Scanned(j) \in Nat
    BY TypesOf DEF ParserType, Scanned
  <1>2. /\ feeder[j].write_size \in Nat /\ feeder[j].current_pos \in Nat
        /\ feeder[j].left \in Nat
    BY TypesOf DEF FeederType
  <1>3. listener[j].outputData \in Nat
    BY TypesOf DEF ListenerType
  <1>4. Read(j) \in Nat /\ Len(Source(j)) \in Nat /\ Len(Echo(j)) \in Nat
    BY <1>1, TypesOf, LenProperties DEF Read
  <1> QED BY <1>1, <1>2, <1>3, <1>4, TypesOf DEF Fed

-----------------------------------------------------------------------------
(* Compiles that do not take the step *)

(* Nothing of another compile changes but the descriptor table. *)
LeavesOthers(j) ==
    \A i \in Job \ {j} :
        /\ pc'[i] = pc[i] /\ parser'[i] = parser[i]
        /\ feeder'[i] = feeder[i] /\ listener'[i] = listener[i]
        /\ Stdin(i)' = Stdin(i) /\ Stdout(i)' = Stdout(i)
        /\ stdOut'[EnvOf(i)] = stdOut[EnvOf(i)]
        /\ outputDataComplete'[EnvOf(i)] = outputDataComplete[EnvOf(i)]
        /\ Source(i)' = Source(i) /\ Echo(i)' = Echo(i)

(* In the table a compile opens closed numbers, and closes its own. *)
UsesTable(j) ==
    \A n \in FD :
        \/ fd'[n] = fd[n]
        \/ fd[n].job = j /\ fd'[n] = Closed
        \/ fd[n] = Closed /\ fd'[n].job = j /\ pc[j] \in {"pipeIn", "pipeOut"}

LEMMA OthersKeep ==
  ASSUME IInv, NEW j \in Job, LeavesOthers(j), UsesTable(j),
         ignoresSigpipe' = ignoresSigpipe, NEW i \in Job, i # j
  PROVE  JobInv(i)'
  <1>1. /\ pc'[i] = pc[i] /\ parser'[i] = parser[i]
        /\ feeder'[i] = feeder[i] /\ listener'[i] = listener[i]
        /\ Stdin(i)' = Stdin(i) /\ Stdout(i)' = Stdout(i)
        /\ stdOut'[EnvOf(i)] = stdOut[EnvOf(i)]
        /\ outputDataComplete'[EnvOf(i)] = outputDataComplete[EnvOf(i)]
        /\ Source(i)' = Source(i) /\ Echo(i)' = Echo(i)
    BY DEF LeavesOthers
  <1>2. /\ Threads(i) /\ Keeps(i) /\ HoldsNoMore(i) /\ Numbers(i) /\ BytesInOrder(i)
        /\ Feeds(i) /\ Scans(i) /\ Stops(i) /\ Collects(i)
    BY DEF IInv, JobInv
  <1>3. \A n \in FD : \A name, end :
            fd'[n] = EndOf(i, name, end) <=> fd[n] = EndOf(i, name, end)
    <2> SUFFICES ASSUME NEW n \in FD, NEW name, NEW end
                 PROVE  fd'[n] = EndOf(i, name, end) <=> fd[n] = EndOf(i, name, end)
      OBVIOUS
    <2>1. EndOf(i, name, end).job = i /\ Closed.job = None /\ i # None
      BY JobFacts DEF EndOf, Closed
    <2>2. \/ fd'[n] = fd[n]
          \/ fd[n].job = j /\ fd'[n] = Closed
          \/ fd[n] = Closed /\ fd'[n].job = j
      BY DEF UsesTable
    <2> QED BY <2>1, <2>2
  <1>4. /\ UsesInRx(i)' = UsesInRx(i) /\ UsesInTx(i)' = UsesInTx(i)
        /\ UsesOutRx(i)' = UsesOutRx(i) /\ UsesOutTx(i)' = UsesOutTx(i)
        /\ Failed(i)' = Failed(i) /\ Parsed(i)' = Parsed(i) /\ Intact(i)' = Intact(i)
    BY <1>1 DEF UsesInRx, UsesInTx, UsesOutRx, UsesOutTx, Failed, Parsed, Intact
  <1>5. /\ Read(i)' = Read(i) /\ Fed(i)' = Fed(i) /\ Scanned(i)' = Scanned(i)
        /\ Echoed(i)' = Echoed(i)
    BY <1>1 DEF Read, Fed, Scanned, Echoed
  <1>6. Threads(i)'
    BY <1>1, <1>2 DEF Threads
  <1>7. Keeps(i)'
    BY <1>1, <1>2, <1>3, <1>4 DEF Keeps, Is
  <1>8. HoldsNoMore(i)'
    BY <1>1, <1>2, <1>3, <1>4 DEF HoldsNoMore
  <1>9. Numbers(i)'
    <2>1. CASE pc[i] = "closeAgain"
      <3>1. pc[j] \notin {"pipeIn", "pipeOut"}
        <4>1. i \in Nat /\ j \in Nat /\ InOrder
          BY JobFacts DEF IInv
        <4> QED BY <2>1, <4>1 DEF InOrder
      <3>2. Stdin(i).rx \in FD /\ fd[Stdin(i).rx] = Closed
        BY <1>2, <2>1 DEF Numbers
      <3>3. fd'[Stdin(i).rx] = Closed
        BY <3>1, <3>2 DEF UsesTable
      <3> QED BY <1>1, <1>2, <2>1, <3>2, <3>3 DEF Numbers
    <2>2. CASE pc[i] # "closeAgain"
      BY <1>1, <1>2, <2>2 DEF Numbers
    <2> QED BY <2>1, <2>2
  <1>10. BytesInOrder(i)'
    BY <1>1, <1>2, <1>5 DEF BytesInOrder
  <1>11. Feeds(i)'
    BY <1>1, <1>2, <1>4, <1>5 DEF Feeds
  <1>12. Stops(i)'
    BY <1>1, <1>2, <1>4, <1>5 DEF Stops, GaveUp
  <1>13. Collects(i)'
    BY <1>1, <1>2, <1>5 DEF Collects
  <1>14. Scans(i)'
    BY <1>2, <1>5 DEF Scans
  <1> QED BY <1>6, <1>7, <1>8, <1>9, <1>10, <1>11, <1>12, <1>13, <1>14 DEF JobInv

-----------------------------------------------------------------------------
(* Types *)

(* What pipe() and close() leave in the table. *)
LEMMA TableTypes ==
  ASSUME TypeInv, NEW j \in Job
  PROVE  /\ PipesFit => /\ Rx \in FD /\ Tx \in FD /\ Rx # Tx
                        /\ fd[Rx] = Closed /\ fd[Tx] = Closed
         /\ \A name \in {"in", "out"} :
               PipesFit /\ NewPipe(j, name) => fd' \in [FD -> End]
         /\ \A n \in Number : Close(n) => fd' \in [FD -> End]
  <1>1. ASSUME PipesFit
        PROVE  Rx \in FD /\ Tx \in FD /\ Rx # Tx /\ fd[Rx] = Closed /\ fd[Tx] = Closed
    <2>1. Free \subseteq FD /\ FD \subseteq Nat /\ IsFiniteSet(Free)
      <3>1. IsFiniteSet(FD)
        BY Sizes, FS_Interval DEF FD
      <3> QED BY <3>1, Sizes, FS_Subset DEF Free
    <2>2. Free # {} /\ Free \ {Rx} # {}
      <3>1. Cardinality(Free) >= 2
        BY <1>1 DEF PipesFit
      <3>2. Free # {}
        BY <3>1, FS_EmptySet
      <3>3. Cardinality({Rx}) = 1
        BY FS_Singleton
      <3>4. Free # {Rx}
        BY <3>1, <3>3
      <3> QED BY <3>2, <3>4
    <2>3. \A S : S \subseteq Nat /\ S # {} => Lowest(S) \in S
      <3> SUFFICES ASSUME NEW S, S \subseteq Nat, S # {}
                   PROVE  \E n \in S : \A m \in S : n <= m
        BY DEF Lowest
      <3> DEFINE lt == OpToRel(<, Nat)
      <3>1. PICK n \in S : \A m \in S : <<m, n>> \notin lt
        BY NatLessThanWellFounded, WFMin
      <3>2. \A m \in S : ~(m < n)
        BY <3>1 DEF OpToRel
      <3> QED BY <3>2
    <2>4. Rx \in Free
      BY <2>1, <2>2, <2>3 DEF Rx
    <2>5. Tx \in Free \ {Rx}
      <3>1. Free \ {Rx} \subseteq Nat
        BY <2>1
      <3> QED BY <3>1, <2>2, <2>3 DEF Tx
    <2> QED BY <2>1, <2>4, <2>5 DEF Free
  <1>2. \A name \in {"in", "out"}, end \in {"rx", "tx"} : EndOf(j, name, end) \in End
    BY DEF End
  <1>3. Closed \in End
    BY DEF End
  <1>4. fd \in [FD -> End]
    BY DEF TypeInv
  <1>5. ASSUME NEW name \in {"in", "out"}, PipesFit, NewPipe(j, name)
        PROVE  fd' \in [FD -> End]
    BY <1>2, <1>4, <1>5 DEF NewPipe
  <1>6. ASSUME NEW n \in Number, Close(n)
        PROVE  fd' \in [FD -> End]
    BY <1>3, <1>4, <1>6 DEF Close, Number
  <1> QED BY <1>1, <1>5, <1>6

(* The pipe behind an open descriptor. *)
LEMMA OpenPipe ==
  ASSUME TypeInv, NEW n \in Number, IsOpen(n)
  PROVE  n \in FD /\ PipeOf(n) \in Pipes
  <1>1. n \in FD /\ fd[n] \in End /\ fd[n] # Closed
    BY DEF TypeInv, IsOpen, Number
  <1> QED BY <1>1 DEF End, EndOf, PipeOf, Pipes

(* What a read takes from a pipe and what it leaves there. *)
LEMMA TakeFacts ==
  ASSUME TypeInv, NEW p \in Pipes
  PROVE  LET taken == SubSeq(pipes[p], 1, Taken(p))
             rest == SubSeq(pipes[p], Taken(p) + 1, Len(pipes[p]))
         IN /\ Taken(p) \in Nat /\ Taken(p) <= Len(pipes[p])
            /\ pipes[p] # <<>> => Taken(p) > 0
            /\ taken \in Seq(Byte) /\ Len(taken) = Taken(p)
            /\ \A i \in 1 .. Taken(p) : taken[i] = pipes[p][i]
            /\ rest \in Seq(Byte) /\ Len(rest) = Len(pipes[p]) - Taken(p)
            /\ \A i \in 1 .. Len(pipes[p]) - Taken(p) : rest[i] = pipes[p][Taken(p) + i]
  <1> DEFINE q == pipes[p]
             t == Taken(p)
             n == Len(q)
             taken == SubSeq(q, 1, t)
             rest == SubSeq(q, t + 1, n)
  <1>1. q \in Seq(Byte) /\ n \in Nat /\ (q # <<>> => n > 0)
    BY LenProperties, EmptySeq DEF TypeInv
  <1>2. t \in Nat /\ t <= n /\ (q # <<>> => t > 0)
    BY <1>1, Sizes DEF Taken, Least
  <1>3. \A i \in 1 .. n : q[i] \in Byte
    BY <1>1, ElementOfSeq
  <1> HIDE DEF q, t, n
  <1>4. /\ taken \in Seq(Byte) /\ Len(taken) = t
        /\ \A i \in 1 .. t : taken[i] = q[i]
    <2>1. \A i \in 1 .. t : q[i] \in Byte
      BY <1>2, <1>3, <1>1
    <2>2. /\ taken \in Seq(Byte) /\ Len(taken) = IF 1 <= t THEN t - 1 + 1 ELSE 0
          /\ \A i \in 1 .. t - 1 + 1 : taken[i] = q[1 + i - 1]
      BY <2>1, <1>2, SubSeqProperties
    <2> QED BY <1>2, <2>2
  <1>5. /\ rest \in Seq(Byte) /\ Len(rest) = n - t
        /\ \A i \in 1 .. n - t : rest[i] = q[t + i]
    <2>1. \A i \in t + 1 .. n : q[i] \in Byte
      BY <1>2, <1>3, <1>1
    <2>2. /\ rest \in Seq(Byte)
          /\ Len(rest) = IF t + 1 <= n THEN n - (t + 1) + 1 ELSE 0
          /\ \A i \in 1 .. n - (t + 1) + 1 : rest[i] = q[(t + 1) + i - 1]
      BY <2>1, <1>1, <1>2, SubSeqProperties
    <2> QED BY <1>1, <1>2, <2>2
  <1> QED BY <1>2, <1>4, <1>5 DEF q, t, n

(* Bytes that are written as a sequence. *)
LEMMA Written ==
  ASSUME NEW S, NEW n \in Nat, NEW g \in [1 .. n -> S]
  PROVE  g \in Seq(S) /\ Len(g) = n
  <1>1. g \in Seq(S)
    BY SeqDef
  <1> QED BY <1>1, LenProperties

LEMMA CompileTypes ==
  ASSUME TypeInv, NEW j \in Job, Compile(j)
  PROVE  TypeInv'
  <1> USE JobFacts
  <1>1. CASE Lock(j)
    BY <1>1 DEF Lock, Goes, TypeInv, Before
  <1>2. CASE PipeIn(j)
    <2>1. fd' \in [FD -> End] /\ Rx \in Number /\ Tx \in Number
      BY <1>2, TableTypes DEF PipeIn, Number
    <2> QED BY <1>2, <2>1 DEF PipeIn, Goes, TypeInv, Before
  <1>3. CASE PipeOut(j)
    <2>1. fd' \in [FD -> End] /\ Rx \in Number /\ Tx \in Number
      BY <1>3, TableTypes DEF PipeOut, Number
    <2> QED BY <1>3, <2>1 DEF PipeOut, Goes, TypeInv, Before
  <1>4. CASE PipeFails(j)
    BY <1>4 DEF PipeFails, Goes, TypeInv
  <1>5. CASE Detach(j)
    <2>1. feeder' \in [Job -> FeederType]
      <3> DEFINE f == [feeder[j] EXCEPT !.pc = "loop", !.write_size = Size(j)]
      <3>1. f \in FeederType
        BY TypesOf DEF FeederType
      <3>2. feeder' = [feeder EXCEPT ![j] = f]
        BY <1>5 DEF Detach, TypeInv
      <3> QED BY <3>1, <3>2 DEF TypeInv
    <2>2. listener' \in [Job -> ListenerType]
      BY <1>5 DEF Detach, TypeInv, ListenerType
    <2>3. parser' \in [Job -> ParserType]
      <3> DEFINE p == [parser[j] EXCEPT !.infile = Stdin(j).rx,
                                        !.outfile = Stdout(j).tx]
      <3>1. p \in ParserType
        BY TypesOf DEF ParserType
      <3>2. parser' = [parser EXCEPT ![j] = p]
        BY <1>5 DEF Detach, TypeInv, Stdin, Stdout
      <3> QED BY <3>1, <3>2 DEF TypeInv
    <2> QED BY <1>5, <2>1, <2>2, <2>3 DEF Detach, Goes, TypeInv, envVars
  <1>6. CASE CloseOut(j)
    <2>1. fd' \in [FD -> End]
      BY <1>6, TypesOf, TableTypes DEF CloseOut, Stdout
    <2>2. stdout_pipe' \in [Env -> [rx : Number, tx : Number]]
      BY <1>6 DEF CloseOut, TypeInv, Number
    <2>3. pc' \in [Job -> Before \cup {"parse"} \cup Past \cup {"returned"}]
      BY <1>6 DEF CloseOut, Goes, TypeInv, Past
    <2> QED BY <1>6, <2>1, <2>2, <2>3 DEF CloseOut, TypeInv
  <1>7. CASE CloseIn(j)
    <2>1. fd' \in [FD -> End]
      BY <1>7, TypesOf, TableTypes DEF CloseIn, Stdin
    <2> QED BY <1>7, <2>1 DEF CloseIn, Goes, TypeInv, Past, envVars
  <1>8. CASE CloseInAgain(j)
    <2>1. fd' \in [FD -> End]
      BY <1>8, TypesOf, TableTypes DEF CloseInAgain, Stdin
    <2> QED BY <1>8, <2>1 DEF CloseInAgain, Goes, TypeInv, Past, envVars
  <1>9. CASE ForgetIn(j)
    BY <1>9 DEF ForgetIn, Goes, TypeInv, Past, Number
  <1>10. CASE Return(j)
    <2>1. fd' \in [FD -> End]
      BY <1>10, TypesOf, TableTypes DEF Return, Stdout, Number
    <2> QED BY <1>10, <2>1 DEF Return, Goes, TypeInv
  <1>11. CASE ParserReads(j)
    <2> DEFINE in == In(j)
               taken == SubSeq(pipes[in], 1, Taken(in))
               p == [parser[j] EXCEPT !.read = @ \o taken]
    <2>1. in \in Pipes
      BY <1>11, TypesOf, OpenPipe DEF ParserReads, Parses, In, ParserType
    <2>2. Taken(in) \in Nat /\ taken \in Seq(Byte)
      BY <2>1, TakeFacts
    <2>3. parser' = [parser EXCEPT ![j] = p]
      BY <1>11 DEF ParserReads, TypeInv
    <2>4. pipes' \in [Pipes -> Seq(Byte)]
      BY <1>11, <2>1, TakeFacts DEF ParserReads, Take, TypeInv
    <2> HIDE DEF taken, in
    <2>5. p \in ParserType
      <3>1. parser[j].read \o taken \in Seq(Byte)
        BY <2>2, TypesOf, ConcatProperties DEF ParserType
      <3> QED BY <3>1, TypesOf DEF ParserType
    <2>6. parser' \in [Job -> ParserType]
      BY <2>3, <2>5 DEF TypeInv
    <2> QED BY <1>11, <2>4, <2>6 DEF ParserReads, TypeInv, envVars
  <1>12. CASE ParserEchoes(j)
    <2> DEFINE out == Out(j)
               some == Least(Room(out), parser[j].echo)
               g == [i \in 1 .. some |-> <<j, None>>]
               p == [parser[j] EXCEPT !.echo = @ - some, !.flushed = @ + some]
    <2>1. out \in Pipes
      BY <1>12, TypesOf, OpenPipe DEF ParserEchoes, Out, ParserType
    <2>2. some \in Nat /\ some <= parser[j].echo
      <3>1. some > 0
        BY <1>12 DEF ParserEchoes
      <3>2. Room(out) \in Int
        BY <2>1, Sizes, LenProperties DEF Room, TypeInv
      <3>3. parser[j].echo \in Nat
        BY TypesOf DEF ParserType
      <3> QED BY <3>1, <3>2, <3>3 DEF Least
    <2>3. parser' = [parser EXCEPT ![j] = p] /\ pipes' = [pipes EXCEPT ![out] = @ \o g]
      BY <1>12 DEF ParserEchoes, TypeInv
    <2> HIDE DEF some, out
    <2>4. pipes[out] \o g \in Seq(Byte)
      <3>1. g \in [1 .. some -> Byte]
        BY DEF Byte, None
      <3>2. g \in Seq(Byte)
        BY <2>2, <3>1, Written
      <3>3. pipes[out] \in Seq(Byte)
        BY <2>1 DEF TypeInv
      <3> QED BY <3>2, <3>3, ConcatProperties
    <2>5. pipes' \in [Pipes -> Seq(Byte)]
      BY <2>1, <2>3, <2>4 DEF TypeInv
    <2>6. p \in ParserType
      <3>1. parser[j].echo - some \in Nat /\ parser[j].flushed + some \in Nat
        BY <2>2, TypesOf DEF ParserType
      <3> QED BY <3>1, TypesOf DEF ParserType
    <2>7. parser' \in [Job -> ParserType]
      BY <2>3, <2>6 DEF TypeInv
    <2> QED BY <1>12, <2>5, <2>7 DEF ParserEchoes, TypeInv, envVars
  <1>13. CASE ParserEnds(j)
    BY <1>13 DEF ParserEnds, Goes, TypeInv, Past, envVars
  <1>14. CASE ParserScans(j)
    <2>1. PICK b \in BOOLEAN :
             parser' = [parser EXCEPT ![j].scanned = @ + 1,
                                      ![j].echo = IF b THEN @ ELSE @ + 1]
      BY <1>14 DEF ParserScans
    <2> DEFINE p == [parser[j] EXCEPT !.scanned = @ + 1,
                                      !.echo = IF b THEN @ ELSE @ + 1]
    <2>2. parser' = [parser EXCEPT ![j] = p]
      BY <2>1 DEF TypeInv
    <2>3. p \in ParserType
      <3>1. parser[j] \in ParserType
        BY TypesOf
      <3>2. parser[j].scanned + 1 \in Nat
            /\ (IF b THEN parser[j].echo ELSE parser[j].echo + 1) \in Nat
        BY <3>1 DEF ParserType
      <3> QED BY <3>1, <3>2 DEF ParserType
    <2>4. parser' \in [Job -> ParserType]
      BY <2>2, <2>3 DEF TypeInv
    <2> QED BY <1>14, <2>4 DEF ParserScans, TypeInv, envVars
  <1> QED BY <1>1, <1>2, <1>3, <1>4, <1>5, <1>6, <1>7, <1>8, <1>9, <1>10, <1>11,
             <1>12, <1>13, <1>14 DEF Compile

(* Remainders of the word. *)
LEMMA Remainders ==
  /\ \A n \in Int : n % Word \in Nat
  /\ \A n \in Nat : n < Word => n % Word = n
  BY Sizes

(* The locals of the feeder after a write. *)
LEMMA WroteTypes ==
  ASSUME TypeInv, NEW j \in Job, NEW w \in Nat, Wrote(j, w)
  PROVE  /\ feeder' \in [Job -> FeederType]
         /\ feeder'[j].pc = "loop"
         /\ feeder'[j].write_size = (Size(j) + Word - w) % Word
         /\ feeder'[j].current_pos = (feeder[j].current_pos + w) % Word
         /\ \A i \in Job \ {j} : feeder'[i] = feeder[i]
  <1> DEFINE size == (Size(j) + Word - w) % Word
             at == (feeder[j].current_pos + w) % Word
             f == [feeder[j] EXCEPT !.pc = "loop", !.write_size = size,
                                    !.current_pos = at]
  <1>1. feeder' = [feeder EXCEPT ![j] = f]
    BY DEF Wrote, TypeInv
  <1>2. \A n \in Int : n % Word \in Nat
    BY Remainders
  <1>3. size \in Nat /\ at \in Nat
    <2> DEFINE a == Size(j) + Word - w
               b == feeder[j].current_pos + w
    <2>1. a \in Int /\ b \in Int
      <3>1. Size(j) \in Nat
        BY JobFacts
      <3>2. feeder[j].current_pos \in Nat
        BY PartsOf
      <3>3. Word \in Nat
        BY Sizes
      <3> QED BY <3>1, <3>2, <3>3
    <2> HIDE DEF a, b
    <2>2. a % Word \in Nat /\ b % Word \in Nat
      BY <1>2, <2>1
    <2> QED BY <2>2 DEF a, b
  <1> HIDE DEF size, at
  <1>4. /\ f \in FeederType
        /\ f.pc = "loop" /\ f.write_size = size /\ f.current_pos = at
    BY <1>3, TypesOf DEF FeederType
  <1>5. feeder \in [Job -> FeederType]
    BY DEF TypeInv
  <1> HIDE DEF f
  <1> QED BY <1>1, <1>4, <1>5 DEF size, at

LEMMA FeederTypes ==
  ASSUME TypeInv, NEW j \in Job, Feeder(j)
  PROVE  TypeInv'
  <1> USE JobFacts
  <1>1. CASE FeederWrites(j)
    <2>1. CASE IsOpen(OwnTx(j))
      <3> DEFINE f == [feeder[j] EXCEPT !.pc = "write", !.to = PipeOf(OwnTx(j)),
                                        !.left = feeder[j].write_size]
      <3>1. PipeOf(OwnTx(j)) \in Pipes
        BY <2>1, PartsOf, OpenPipe DEF OwnTx, Stdin
      <3>2. f \in FeederType
        BY <3>1, TypesOf DEF FeederType
      <3>3. feeder' = [feeder EXCEPT ![j] = f]
        BY <1>1, <2>1 DEF FeederWrites, TypeInv
      <3>4. feeder' \in [Job -> FeederType]
        BY <3>2, <3>3 DEF TypeInv
      <3> QED BY <1>1, <3>4 DEF FeederWrites, TypeInv, envVars
    <2>2. CASE ~IsOpen(OwnTx(j))
      <3>1. feeder' \in [Job -> FeederType]
        BY <1>1, <2>2, Sizes, WroteTypes DEF FeederWrites, Error
      <3> QED BY <1>1, <3>1 DEF FeederWrites, TypeInv, envVars
    <2> QED BY <2>1, <2>2
  <1>2. CASE FeederFills(j)
    <2> DEFINE f == feeder[j]
               some == Least(Room(f.to), f.left)
               from == f.current_pos + f.write_size - f.left
               g == [i \in 1 .. some |-> <<j, (from + i) % Word>>]
    <2>1. f.to \in Pipes
      BY TypesOf DEF FeederType
    <2>2. /\ some > 0
          /\ pipes' = [pipes EXCEPT ![f.to] = @ \o g]
          /\ IF some = f.left
             THEN Wrote(j, f.write_size)
             ELSE feeder' = [feeder EXCEPT ![j].left = @ - some]
      BY <1>2 DEF FeederFills
    <2>3. some \in Nat /\ some <= f.left
      <3>1. Room(f.to) \in Int
        BY <2>1, Sizes, LenProperties DEF Room, TypeInv
      <3> QED BY <2>2, <3>1, PartsOf DEF Least
    <2>4. from \in Int
      BY PartsOf
    <2> HIDE DEF some, from
    <2>5. g \in Seq(Byte)
      <3>1. ASSUME NEW i \in 1 .. some PROVE (from + i) % Word \in Nat
        <4> DEFINE n == from + i
        <4>1. n \in Int
          BY <2>3, <2>4
        <4> HIDE DEF n
        <4>2. n % Word \in Nat
          BY <4>1, Remainders
        <4> QED BY <4>2 DEF n
      <3> DEFINE at(i) == (from + i) % Word
      <3>2. \A i \in 1 .. some : at(i) \in Nat
        BY <3>1
      <3> HIDE DEF at
      <3>3. [i \in 1 .. some |-> <<j, at(i)>>] \in [1 .. some -> Byte]
        BY <3>2 DEF Byte
      <3> QED BY <2>3, <3>3, Written DEF at
    <2>6. pipes' \in [Pipes -> Seq(Byte)]
      <3>1. pipes[f.to] \o g \in Seq(Byte)
        BY <2>1, <2>5, ConcatProperties DEF TypeInv
      <3> QED BY <2>1, <2>2, <3>1 DEF TypeInv
    <2>7. feeder' \in [Job -> FeederType]
      <3>1. CASE some = f.left
        BY <2>2, <3>1, PartsOf, WroteTypes
      <3>2. CASE some # f.left
        <4>1. f.left - some \in Nat
          BY <2>3, PartsOf
        <4>2. [f EXCEPT !.left = @ - some] \in FeederType
          BY <4>1, TypesOf DEF FeederType
        <4>3. feeder' = [feeder EXCEPT ![j] = [f EXCEPT !.left = @ - some]]
          BY <2>2, <3>2 DEF TypeInv
        <4> QED BY <4>2, <4>3 DEF TypeInv
      <3> QED BY <3>1, <3>2
    <2> QED BY <1>2, <2>6, <2>7 DEF FeederFills, TypeInv, envVars
  <1>3. CASE FeederBreaks(j)
    <2>1. CASE ignoresSigpipe
      <3>1. PICK w \in Nat : Wrote(j, w)
        BY <1>3, <2>1, PartsOf, Sizes DEF FeederBreaks, Error
      <3>2. feeder' \in [Job -> FeederType]
        BY <3>1, WroteTypes
      <3> QED BY <1>3, <2>1, <3>2 DEF FeederBreaks, TypeInv, envVars
    <2>2. CASE ~ignoresSigpipe
      BY <1>3, <2>2 DEF FeederBreaks, TypeInv, envVars
    <2> QED BY <2>1, <2>2
  <1>4. CASE FeederCloses(j)
    <2>1. fd' \in [FD -> End]
      BY <1>4, TypesOf, TableTypes DEF FeederCloses, OwnTx, Stdin
    <2>2. [feeder[j] EXCEPT !.pc = "forget"] \in FeederType
      BY TypesOf DEF FeederType
    <2>3. feeder' \in [Job -> FeederType]
      BY <1>4, <2>2 DEF FeederCloses, TypeInv
    <2> QED BY <1>4, <2>1, <2>3 DEF FeederCloses, TypeInv, envVars
  <1>5. CASE FeederForgets(j)
    <2>1. [feeder[j] EXCEPT !.pc = "ended"] \in FeederType
      BY TypesOf DEF FeederType
    <2>2. feeder' \in [Job -> FeederType]
      BY <1>5, <2>1 DEF FeederForgets, TypeInv
    <2>3. stdin_pipe' \in [Env -> [rx : Number, tx : Number]]
      <3>1. /\ stdin_pipe \in [Env -> [rx : Number, tx : Number]]
            /\ stdin_pipe' = [stdin_pipe EXCEPT ![EnvOf(j)].tx = None]
        BY <1>5 DEF FeederForgets, TypeInv
      <3> QED BY <3>1 DEF Number
    <2> QED BY <1>5, <2>2, <2>3 DEF FeederForgets, TypeInv
  <1> QED BY <1>1, <1>2, <1>3, <1>4, <1>5 DEF Feeder

LEMMA ListenerTypes ==
  ASSUME TypeInv, NEW j \in Job, Listener(j)
  PROVE  TypeInv'
  <1> USE JobFacts
  <1>1. \A to \in {"start", "read", "close", "forget", "ended"} :
            listener' = [listener EXCEPT ![j].pc = to]
               => listener' \in [Job -> ListenerType]
    <2> SUFFICES ASSUME NEW to \in {"start", "read", "close", "forget", "ended"},
                        listener' = [listener EXCEPT ![j].pc = to]
                 PROVE  listener' \in [Job -> ListenerType]
      OBVIOUS
    <2>1. [listener[j] EXCEPT !.pc = to] \in ListenerType
      BY TypesOf DEF ListenerType
    <2> QED BY <2>1 DEF TypeInv
  <1>2. CASE ListenerStarts(j)
    BY <1>1, <1>2 DEF ListenerStarts, TypeInv
  <1>3. CASE ListenerReads(j)
    <2> DEFINE p == PipeOf(OwnRx(j))
               l == [listener[j] EXCEPT !.outputData = @ + Taken(p)]
    <2>1. p \in Pipes
      BY <1>3, PartsOf, OpenPipe DEF ListenerReads, OwnRx, Stdout
    <2>2. pipes' \in [Pipes -> Seq(Byte)]
      BY <1>3, <2>1, TakeFacts DEF ListenerReads, Take, TypeInv
    <2>3. listener[j].outputData + Taken(p) \in Nat
      BY <2>1, TakeFacts, PartsOf
    <2>4. listener' = [listener EXCEPT ![j] = l]
      BY <1>3 DEF ListenerReads, TypeInv
    <2> HIDE DEF p
    <2>5. l \in ListenerType
      BY <2>3, TypesOf DEF ListenerType
    <2>6. listener' \in [Job -> ListenerType]
      BY <2>4, <2>5 DEF TypeInv
    <2> QED BY <1>3, <2>2, <2>6 DEF ListenerReads, TypeInv, envVars
  <1>4. CASE ListenerCompletes(j)
    <2>1. stdOut[EnvOf(j)] + listener[j].outputData \in Nat
      BY PartsOf
    <2> QED BY <1>1, <1>4, <2>1 DEF ListenerCompletes, TypeInv
  <1>5. CASE ListenerCloses(j)
    <2>1. fd' \in [FD -> End]
      BY <1>5, TypesOf, TableTypes DEF ListenerCloses, OwnRx, Stdout
    <2> QED BY <1>1, <1>5, <2>1 DEF ListenerCloses, TypeInv, envVars
  <1>6. CASE ListenerForgets(j)
    <2>1. stdout_pipe' \in [Env -> [rx : Number, tx : Number]]
      BY <1>6 DEF ListenerForgets, TypeInv, Number
    <2> QED BY <1>1, <1>6, <2>1 DEF ListenerForgets, TypeInv
  <1> QED BY <1>2, <1>3, <1>4, <1>5, <1>6 DEF Listener

-----------------------------------------------------------------------------
(* What a step touches *)

(* The numbers in use are of a compile's own pipes. *)
LEMMA OwnPipes ==
  ASSUME IInv, NEW j \in Job
  PROVE  /\ pc[j] = "parse" => In(j) = <<j, "in">> /\ Out(j) = <<j, "out">>
         /\ UsesInTx(j) => IsOpen(OwnTx(j)) /\ PipeOf(OwnTx(j)) = <<j, "in">>
         /\ UsesOutRx(j) => IsOpen(OwnRx(j)) /\ PipeOf(OwnRx(j)) = <<j, "out">>
  <1>1. \A n, name, end : Is(n, j, name, end) =>
            IsOpen(n) /\ PipeOf(n) = <<j, name>> /\ fd[n].job = j
    <2> SUFFICES ASSUME NEW n, NEW name, NEW end, Is(n, j, name, end)
                 PROVE  IsOpen(n) /\ PipeOf(n) = <<j, name>> /\ fd[n].job = j
      OBVIOUS
    <2>1. n # None
      BY Sizes DEF Is, None
    <2>2. fd[n].job = j /\ fd[n].name = name /\ Closed.job = None
      BY DEF Is, EndOf, Closed
    <2>3. fd[n] # Closed
      <3>1. j # None
        BY JobFacts
      <3> QED BY <2>2, <3>1
    <2> QED BY <2>1, <2>2, <2>3 DEF IsOpen, PipeOf
  <1>2. Keeps(j) /\ Numbers(j)
    BY DEF IInv, JobInv
  <1>3. pc[j] = "parse" => In(j) = <<j, "in">> /\ Out(j) = <<j, "out">>
    BY <1>1, <1>2 DEF Keeps, Numbers, UsesInRx, UsesOutTx, In, Out
  <1>4. UsesInTx(j) => IsOpen(OwnTx(j)) /\ PipeOf(OwnTx(j)) = <<j, "in">>
    BY <1>1, <1>2 DEF Keeps, OwnTx, Stdin
  <1>5. UsesOutRx(j) => IsOpen(OwnRx(j)) /\ PipeOf(OwnRx(j)) = <<j, "out">>
    BY <1>1, <1>2 DEF Keeps, OwnRx, Stdout
  <1> QED BY <1>3, <1>4, <1>5

(* A number that is closed is of the compile's own, or nobody's. *)
Mine(n, j) == n \in FD => fd[n].job = j \/ fd[n] = Closed

LEMMA ClosesMine ==
  ASSUME TypeInv, NEW j \in Job, NEW n \in Number, Mine(n, j), Close(n)
  PROVE  UsesTable(j)
  BY Sizes DEF UsesTable, Mine, Close, Number, TypeInv, None

LEMMA OpensMine ==
  ASSUME TypeInv, NEW j \in Job, NEW name \in {"in", "out"}, PipesFit,
         NewPipe(j, name), pc[j] \in {"pipeIn", "pipeOut"}
  PROVE  UsesTable(j)
  <1>1. /\ Rx \in FD /\ Tx \in FD /\ Rx # Tx
        /\ fd[Rx] = Closed /\ fd[Tx] = Closed /\ fd \in [FD -> End]
    BY TableTypes DEF TypeInv
  <1>2. EndOf(j, name, "rx").job = j /\ EndOf(j, name, "tx").job = j
    BY DEF EndOf
  <1> QED BY <1>1, <1>2 DEF UsesTable, NewPipe

(* A compile's step on the table, whichever thread takes it. *)
LEMMA TableStep ==
  ASSUME IInv, NEW j \in Job, Compile(j) \/ Feeder(j) \/ Listener(j)
  PROVE  UsesTable(j)
  <1>1. TypeInv /\ Keeps(j) /\ Numbers(j)
    BY DEF IInv, JobInv
  <1>2. \A n, name, end : Is(n, j, name, end) => Mine(n, j)
    BY DEF Is, Mine, EndOf
  <1>3. /\ Stdin(j).rx \in Number /\ Stdin(j).tx \in Number
        /\ Stdout(j).rx \in Number /\ Stdout(j).tx \in Number
    BY <1>1, PartsOf
  <1>4. fd' = fd => UsesTable(j)
    BY DEF UsesTable
  <1>5. CASE PipeIn(j) \/ PipeOut(j)
    BY <1>1, <1>5, OpensMine DEF PipeIn, PipeOut
  <1>6. CASE CloseOut(j)
    BY <1>1, <1>2, <1>3, <1>6, ClosesMine DEF CloseOut, Keeps, UsesOutTx, Stdout
  <1>7. CASE CloseIn(j)
    BY <1>1, <1>2, <1>3, <1>7, ClosesMine DEF CloseIn, Keeps, UsesInRx, Stdin
  <1>8. CASE CloseInAgain(j)
    <2>1. Mine(Stdin(j).rx, j)
      BY <1>1, <1>8 DEF CloseInAgain, Numbers, Mine
    <2> QED BY <1>1, <1>3, <1>8, <2>1, ClosesMine DEF CloseInAgain, Stdin
  <1>9. CASE Return(j)
    <2>1. Close(None)
      BY <1>1, <1>9 DEF Return, Numbers, Past, Stdout
    <2> QED BY <1>4, <2>1 DEF Close
  <1>10. CASE FeederCloses(j)
    BY <1>1, <1>2, <1>3, <1>10, ClosesMine
       DEF FeederCloses, Keeps, UsesInTx, OwnTx, Stdin
  <1>11. CASE ListenerCloses(j)
    BY <1>1, <1>2, <1>3, <1>11, ClosesMine
       DEF ListenerCloses, Keeps, UsesOutRx, OwnRx, Stdout
  <1>12. CASE \/ Lock(j) \/ PipeFails(j) \/ Detach(j) \/ ParserReads(j)
              \/ ParserScans(j) \/ ParserEchoes(j) \/ ParserEnds(j) \/ ForgetIn(j)
              \/ FeederWrites(j) \/ FeederFills(j) \/ FeederBreaks(j)
              \/ FeederForgets(j) \/ ListenerStarts(j) \/ ListenerReads(j)
              \/ ListenerCompletes(j) \/ ListenerForgets(j)
    BY <1>4, <1>12 DEF Lock, PipeFails, Detach, ParserReads, ParserScans,
           ParserEchoes, ParserEnds, ForgetIn, FeederWrites, FeederFills, FeederBreaks,
           FeederForgets, ListenerStarts, ListenerReads, ListenerCompletes,
           ListenerForgets
  <1> QED BY <1>5, <1>6, <1>7, <1>8, <1>9, <1>10, <1>11, <1>12
          DEF Compile, Feeder, Listener

(* No step changes what happens to a write that nobody can read. *)
LEMMA SigpipeStays ==
  ASSUME NEW j \in Job, Compile(j) \/ Feeder(j) \/ Listener(j)
  PROVE  ignoresSigpipe' = ignoresSigpipe
  <1>1. CASE Compile(j)
    BY <1>1 DEF Compile, Lock, PipeIn, PipeOut, PipeFails, Detach, ParserReads,
       ParserScans, ParserEchoes, ParserEnds, CloseOut, CloseIn, CloseInAgain,
       ForgetIn, Return
  <1>2. CASE Feeder(j) \/ Listener(j)
    BY <1>2 DEF Feeder, Listener, FeederWrites, FeederFills, FeederBreaks, FeederCloses,
       FeederForgets, ListenerStarts, ListenerReads, ListenerCompletes, ListenerCloses,
       ListenerForgets
  <1> QED BY <1>1, <1>2

(* Everything else a step changes belongs to the compile that takes it. *)
LEMMA OthersStep ==
  ASSUME OneThread, IInv, NEW j \in Job, Compile(j) \/ Feeder(j) \/ Listener(j)
  PROVE  LeavesOthers(j)
  <1> SUFFICES ASSUME NEW i \in Job, i # j
               PROVE  /\ pc'[i] = pc[i] /\ parser'[i] = parser[i]
                      /\ feeder'[i] = feeder[i] /\ listener'[i] = listener[i]
                      /\ Stdin(i)' = Stdin(i) /\ Stdout(i)' = Stdout(i)
                      /\ stdOut'[EnvOf(i)] = stdOut[EnvOf(i)]
                      /\ outputDataComplete'[EnvOf(i)] = outputDataComplete[EnvOf(i)]
                      /\ Source(i)' = Source(i) /\ Echo(i)' = Echo(i)
    BY DEF LeavesOthers
  <1>1. EnvOf(i) # EnvOf(j) /\ EnvOf(i) \in Env /\ EnvOf(j) \in Env
    BY JobFacts DEF OneThread
  <1>2. /\ pc \in [Job -> Before \cup {"parse"} \cup Past \cup {"returned"}]
        /\ parser \in [Job -> ParserType] /\ feeder \in [Job -> FeederType]
        /\ listener \in [Job -> ListenerType]
        /\ pipes \in [Pipes -> Seq(Byte)]
        /\ stdin_pipe \in [Env -> [rx : Number, tx : Number]]
        /\ stdout_pipe \in [Env -> [rx : Number, tx : Number]]
        /\ outputDataComplete \in [Env -> BOOLEAN] /\ stdOut \in [Env -> Nat]
    BY DEF IInv, TypeInv
  <1> USE DEF Stdin, Stdout, Source, Echo, envVars
  <1>4. CASE \/ Lock(j) \/ PipeIn(j) \/ PipeOut(j) \/ PipeFails(j) \/ Detach(j)
             \/ CloseOut(j) \/ CloseIn(j) \/ CloseInAgain(j) \/ ForgetIn(j)
             \/ Return(j) \/ ParserScans(j) \/ ParserEnds(j)
    BY <1>1, <1>2, <1>4 DEF Lock, PipeIn, PipeOut, PipeFails, Detach, CloseOut,
       CloseIn, CloseInAgain, ForgetIn, Return, ParserScans, ParserEnds, Goes
  <1>5. CASE ParserReads(j)
    <2>1. In(j) = <<j, "in">>
      BY <1>5, OwnPipes DEF ParserReads, Parses
    <2> QED BY <1>1, <1>2, <1>5, <2>1 DEF ParserReads, Take
  <1>6. CASE ParserEchoes(j)
    <2>1. Out(j) = <<j, "out">>
      BY <1>6, OwnPipes DEF ParserEchoes
    <2> QED BY <1>1, <1>2, <1>6, <2>1 DEF ParserEchoes
  <1>7. CASE FeederFills(j)
    <2>1. feeder[j].to = <<j, "in">>
      BY <1>7 DEF FeederFills, IInv, JobInv, Feeds
    <2> QED BY <1>1, <1>2, <1>7, <2>1 DEF FeederFills, Wrote
  <1>8. CASE FeederWrites(j) \/ FeederBreaks(j) \/ FeederCloses(j) \/ FeederForgets(j)
    BY <1>1, <1>2, <1>8 DEF FeederWrites, FeederBreaks, FeederCloses, FeederForgets,
       Wrote
  <1>9. CASE ListenerReads(j)
    <2>1. PipeOf(OwnRx(j)) = <<j, "out">>
      BY <1>9, OwnPipes DEF ListenerReads, UsesOutRx
    <2> QED BY <1>1, <1>2, <1>9, <2>1 DEF ListenerReads, Take
  <1>10. CASE \/ ListenerStarts(j) \/ ListenerCompletes(j) \/ ListenerCloses(j)
              \/ ListenerForgets(j)
    BY <1>1, <1>2, <1>10 DEF ListenerStarts, ListenerCompletes, ListenerCloses,
       ListenerForgets
  <1> QED BY <1>4, <1>5, <1>6, <1>7, <1>8, <1>9, <1>10
          DEF Compile, Feeder, Listener

-----------------------------------------------------------------------------
(* What the feeder does *)

(* A descriptor of a pipe is open while its compile uses it. *)
LEMMA HeldMeansUsed ==
  ASSUME IInv, NEW j \in Job, ~Failed(j)
  PROVE  /\ Held(j, "in", "rx") <=> UsesInRx(j)
         /\ Held(j, "in", "tx") <=> UsesInTx(j)
         /\ Held(j, "out", "tx") <=> UsesOutTx(j)
  BY DEF IInv, JobInv, Keeps, HoldsNoMore, Held, Is

LEMMA FeederBegins ==
  ASSUME IInv, NEW j \in Job, FeederWrites(j)
  PROVE  /\ feeder'[j].pc = "write" /\ feeder'[j].to = <<j, "in">>
         /\ feeder'[j].left = feeder[j].write_size
         /\ feeder'[j].write_size = feeder[j].write_size
         /\ feeder'[j].current_pos = feeder[j].current_pos
  <1>1. IsOpen(OwnTx(j)) /\ PipeOf(OwnTx(j)) = <<j, "in">>
    BY OwnPipes DEF FeederWrites, UsesInTx
  <1>2. feeder \in [Job -> FeederType]
    BY DEF IInv, TypeInv
  <1> QED BY <1>1, <1>2 DEF FeederWrites, FeederType

(* The next bytes of the source are in the pipe, and feeder knows how many. *)
Filled(j, some) ==
    /\ Len(Source(j)') = Len(Source(j)) + some
    /\ \A i \in 1 .. Len(Source(j)) : Source(j)'[i] = Source(j)[i]
    /\ \A i \in Len(Source(j)) + 1 .. Len(Source(j)) + some :
          Source(j)'[i] = <<j, Read(j) + i>>
    /\ some = feeder[j].left =>
          feeder'[j].pc = "loop" /\ feeder'[j].write_size = 0
    /\ some # feeder[j].left =>
          /\ feeder'[j].pc = "write" /\ feeder'[j].to = <<j, "in">>
          /\ feeder'[j].left = feeder[j].left - some
          /\ feeder'[j].write_size = feeder[j].write_size
          /\ feeder'[j].current_pos = feeder[j].current_pos

LEMMA FeederFillsSource ==
  ASSUME IInv, NEW j \in Job, FeederFills(j)
  PROVE  UsesInRx(j) /\ \E some \in 1 .. feeder[j].left : Filled(j, some)
  <1> DEFINE f == feeder[j]
             some == Least(Room(f.to), f.left)
             from == f.current_pos + f.write_size - f.left
             g == [i \in 1 .. some |-> <<j, (from + i) % Word>>]
  <1>1. TypeInv /\ Feeds(j) /\ Threads(j)
    BY DEF IInv, JobInv
  <1>2. f.pc = "write" /\ f.to = <<j, "in">> /\ f.to \in Pipes
    BY <1>1, JobFacts DEF FeederFills, Feeds
  <1>3. UsesInRx(j)
    <2>1. ~Failed(j)
      BY <1>2 DEF Failed
    <2>2. Held(j, "in", "rx")
      BY <1>2 DEF FeederFills
    <2> QED BY <2>1, <2>2, HeldMeansUsed
  <1>4. /\ f.write_size = Size(j) /\ f.current_pos = 0
        /\ f.left > 0 /\ Fed(j) + f.left = Size(j)
    BY <1>1, <1>2, <1>3 DEF Feeds, Intact
  <1>5. some \in Nat /\ some > 0 /\ some <= f.left /\ f.left \in Nat
    <2>1. Room(f.to) \in Int
      BY <1>1, <1>2, Sizes, LenProperties DEF Room, TypeInv
    <2>2. f.left \in Nat
      BY <1>1, PartsOf
    <2>3. some > 0
      BY DEF FeederFills
    <2> QED BY <2>1, <2>2, <2>3 DEF Least
  <1>6. /\ pipes' = [pipes EXCEPT ![f.to] = @ \o g]
        /\ IF some = f.left
           THEN Wrote(j, f.write_size)
           ELSE feeder' = [feeder EXCEPT ![j].left = @ - some]
    BY DEF FeederFills
  <1>7. Source(j)' = Source(j) \o g
    BY <1>1, <1>2, <1>6 DEF TypeInv, Source
  <1>8. /\ Fed(j) \in Nat /\ Read(j) \in Nat /\ Source(j) \in Seq(Byte)
        /\ Len(Source(j)) \in Nat /\ Fed(j) = Read(j) + Len(Source(j))
    BY <1>1, PartsOf DEF Fed
  <1>9. Size(j) \in Nat /\ Size(j) + 1 < Word /\ Word \in Nat
    BY JobFacts, Sizes
  <1> HIDE DEF some
  <1>10. \A i \in 1 .. some : (from + i) % Word = Fed(j) + i
    <2> TAKE i \in 1 .. some
    <2>1. from + i = Fed(j) + i
      BY <1>4, <1>8, <1>9, <1>5
    <2>2. Fed(j) + i \in Nat /\ Fed(j) + i < Word
      BY <1>4, <1>5, <1>8, <1>9
    <2> QED BY <2>1, <2>2, Remainders
  <1> DEFINE at(i) == (from + i) % Word
  <1>11. \A i \in 1 .. some : at(i) = Fed(j) + i /\ at(i) \in Nat
    BY <1>5, <1>8, <1>10
  <1>12. g = [i \in 1 .. some |-> <<j, at(i)>>]
    OBVIOUS
  <1> HIDE DEF at, g
  <1>13. g \in Seq(Byte) /\ Len(g) = some /\ \A i \in 1 .. some : g[i] = <<j, Fed(j) + i>>
    <2>1. g \in [1 .. some -> Byte]
      BY <1>11, <1>12, JobFacts DEF Byte
    <2> QED BY <1>5, <1>11, <1>12, <2>1, Written
  <1>14. /\ Len(Source(j)') = Len(Source(j)) + some
         /\ \A i \in 1 .. Len(Source(j)) + some :
               Source(j)'[i] = IF i <= Len(Source(j)) THEN Source(j)[i]
                               ELSE g[i - Len(Source(j))]
    <2>1. /\ Len(Source(j) \o g) = Len(Source(j)) + Len(g)
          /\ \A i \in 1 .. Len(Source(j)) + Len(g) :
                (Source(j) \o g)[i] = IF i <= Len(Source(j)) THEN Source(j)[i]
                                      ELSE g[i - Len(Source(j))]
      BY <1>8, <1>13, ConcatProperties
    <2>2. Len(g) = some
      BY <1>13
    <2> QED BY <1>7, <2>1, <2>2
  <1>15. \A i \in Len(Source(j)) + 1 .. Len(Source(j)) + some :
            Source(j)'[i] = <<j, Read(j) + i>>
    <2> TAKE i \in Len(Source(j)) + 1 .. Len(Source(j)) + some
    <2>1. i - Len(Source(j)) \in 1 .. some /\ i \in 1 .. Len(Source(j)) + some
      BY <1>5, <1>8
    <2>2. Source(j)'[i] = g[i - Len(Source(j))]
      BY <1>8, <1>14, <2>1
    <2>3. Fed(j) + (i - Len(Source(j))) = Read(j) + i
      BY <1>8
    <2> QED BY <1>13, <2>1, <2>2, <2>3
  <1>16. \A i \in 1 .. Len(Source(j)) : Source(j)'[i] = Source(j)[i]
    BY <1>5, <1>8, <1>14
  <1>17. some = f.left => feeder'[j].pc = "loop" /\ feeder'[j].write_size = 0
    <2> SUFFICES ASSUME some = f.left
                 PROVE  feeder'[j].pc = "loop" /\ feeder'[j].write_size = 0
      OBVIOUS
    <2>1. f.write_size \in Nat /\ Wrote(j, f.write_size)
      BY <1>4, <1>6, <1>9
    <2>2. /\ feeder'[j].pc = "loop"
          /\ feeder'[j].write_size = (Size(j) + Word - f.write_size) % Word
      BY <1>1, <2>1, WroteTypes
    <2>3. Size(j) + Word - f.write_size = Word
      BY <1>4, <1>9
    <2>4. Word % Word = 0
      BY Sizes
    <2> QED BY <2>2, <2>3, <2>4
  <1>18. some # f.left =>
             /\ feeder'[j].pc = "write" /\ feeder'[j].to = <<j, "in">>
             /\ feeder'[j].left = f.left - some
             /\ feeder'[j].write_size = f.write_size
             /\ feeder'[j].current_pos = f.current_pos
    <2> SUFFICES ASSUME some # f.left
                 PROVE  /\ feeder'[j].pc = "write" /\ feeder'[j].to = <<j, "in">>
                        /\ feeder'[j].left = f.left - some
                        /\ feeder'[j].write_size = f.write_size
                        /\ feeder'[j].current_pos = f.current_pos
      OBVIOUS
    <2>1. feeder' = [feeder EXCEPT ![j].left = f.left - some]
      BY <1>6
    <2>2. f \in FeederType /\ feeder \in [Job -> FeederType]
      BY <1>1 DEF TypeInv
    <2>3. feeder'[j] = [f EXCEPT !.left = f.left - some]
      BY <2>1, <2>2
    <2> QED BY <1>2, <2>2, <2>3 DEF FeederType
  <1>19. some \in 1 .. f.left
    BY <1>5
  <1>20. Filled(j, some)
    BY <1>14, <1>15, <1>16, <1>17, <1>18 DEF Filled
  <1> QED BY <1>3, <1>19, <1>20

(* A write that fails leaves the feeder in its loop, or ends the process;  *)
(* the parser has closed its end of the pipe. *)
LEMMA FeederBreaksOff ==
  ASSUME IInv, NEW j \in Job, FeederBreaks(j)
  PROVE  /\ ~UsesInRx(j)
         /\ IF ignoresSigpipe THEN feeder'[j].pc = "loop" ELSE feeder' = feeder
  <1>1. TypeInv /\ Feeds(j)
    BY DEF IInv, JobInv
  <1>2. ~UsesInRx(j)
    <2>1. ~Failed(j)
      BY DEF Failed, FeederBreaks
    <2> QED BY <1>1, <2>1, HeldMeansUsed DEF FeederBreaks, Feeds
  <1>3. CASE ignoresSigpipe
    <2>1. PICK w \in Nat : Wrote(j, w)
      BY <1>1, <1>3, PartsOf, Sizes DEF FeederBreaks, Error
    <2> QED BY <1>1, <1>2, <1>3, <2>1, WroteTypes
  <1> QED BY <1>2, <1>3 DEF FeederBreaks

LEMMA FeederMoves ==
  ASSUME IInv, NEW j \in Job, Feeder(j)
  PROVE  /\ pc' = pc /\ parser' = parser /\ listener' = listener
         /\ stdout_pipe' = stdout_pipe /\ stdOut' = stdOut
         /\ outputDataComplete' = outputDataComplete
         /\ feeder[j].pc \in {"loop", "write", "forget"} /\ feeder'[j].pc # "none"
         /\ Echo(j)' = Echo(j)
         /\ Stdin(j)'.rx = Stdin(j).rx
         /\ feeder[j].pc # "forget" => Stdin(j)' = Stdin(j)
         /\ feeder[j].pc = "forget" => feeder'[j].pc = "ended"
  <1> USE JobFacts
  <1>1. /\ feeder \in [Job -> FeederType] /\ pipes \in [Pipes -> Seq(Byte)]
        /\ stdin_pipe \in [Env -> [rx : Number, tx : Number]]
    BY DEF IInv, TypeInv
  <1>2. CASE FeederWrites(j)
    BY <1>2, FeederBegins DEF FeederWrites, envVars, Echo, Stdin
  <1>3. CASE FeederFills(j)
    <2>1. feeder[j].to = <<j, "in">>
      BY <1>3 DEF FeederFills, IInv, JobInv, Feeds
    <2>2. Echo(j)' = Echo(j)
      BY <1>1, <1>3, <2>1 DEF FeederFills, Echo
    <2>3. feeder'[j].pc # "none"
      BY <1>3, FeederFillsSource DEF Filled
    <2> QED BY <1>3, <2>2, <2>3 DEF FeederFills, envVars, Stdin
  <1>4. CASE FeederBreaks(j)
    <2>1. feeder'[j].pc # "none"
      BY <1>4, FeederBreaksOff DEF FeederBreaks
    <2> QED BY <1>4, <2>1 DEF FeederBreaks, envVars, Stdin, Echo
  <1>5. CASE FeederCloses(j)
    BY <1>1, <1>5 DEF FeederCloses, FeederType, envVars, Stdin, Echo
  <1>6. CASE FeederForgets(j)
    BY <1>1, <1>6 DEF FeederForgets, FeederType, Stdin, Echo
  <1> QED BY <1>2, <1>3, <1>4, <1>5, <1>6 DEF Feeder

(* What compile and the listener do to the threads of a compile *)
LEMMA CompileMoves ==
  ASSUME IInv, NEW j \in Job, Compile(j)
  PROVE  /\ pc[j] \notin {"detach", "returned"}
               => feeder' = feeder /\ listener' = listener
         /\ pc[j] = "detach" => /\ pc'[j] = "parse"
                                /\ feeder'[j].pc = "loop"
                                /\ feeder'[j].write_size = Size(j)
                                /\ feeder'[j].current_pos = feeder[j].current_pos
                                /\ listener' = [listener EXCEPT ![j].pc = "start"]
         /\ pc[j] # "idle" => stdOut' = stdOut
         /\ outputDataComplete' = outputDataComplete /\ pc[j] # "returned"
  <1>1. feeder \in [Job -> FeederType] /\ listener \in [Job -> ListenerType]
    BY DEF IInv, TypeInv
  <1>2. CASE Detach(j)
    BY <1>1, <1>2 DEF Detach, Goes, FeederType, ListenerType, envVars, IInv, TypeInv
  <1>3. CASE \/ Lock(j) \/ PipeIn(j) \/ PipeOut(j) \/ PipeFails(j)
             \/ CloseOut(j) \/ CloseIn(j) \/ CloseInAgain(j) \/ ForgetIn(j)
             \/ Return(j) \/ ParserReads(j) \/ ParserScans(j) \/ ParserEchoes(j)
             \/ ParserEnds(j)
    BY <1>3 DEF Lock, PipeIn, PipeOut, PipeFails, CloseOut, CloseIn, CloseInAgain,
       ForgetIn, Return, ParserReads, ParserScans, Parses, ParserEchoes, ParserEnds,
       envVars
  <1> QED BY <1>2, <1>3 DEF Compile

-----------------------------------------------------------------------------
(* The compile that takes the step *)

LEMMA ThreadsKept ==
  ASSUME IInv, NEW j \in Job, Compile(j) \/ Feeder(j) \/ Listener(j)
  PROVE  Threads(j)'
  <1>1. /\ pc \in [Job -> Before \cup {"parse"} \cup Past \cup {"returned"}]
        /\ feeder \in [Job -> FeederType] /\ listener \in [Job -> ListenerType]
    BY DEF IInv, TypeInv
  <1>2. Threads(j) /\ Collects(j)
    BY DEF IInv, JobInv
  <1> USE DEF Threads, Before, Past, FeederType, ListenerType
  <1>3. CASE Compile(j)
    <2>1. CASE \/ Lock(j) \/ PipeIn(j) \/ PipeOut(j) \/ PipeFails(j) \/ Detach(j)
               \/ CloseOut(j) \/ CloseIn(j) \/ CloseInAgain(j) \/ ForgetIn(j)
      BY <1>1, <1>2, <2>1 DEF Lock, PipeIn, PipeOut, PipeFails, Detach, CloseOut,
         CloseIn, CloseInAgain, ForgetIn, Goes, envVars
    <2>2. CASE ParserReads(j) \/ ParserScans(j) \/ ParserEchoes(j) \/ ParserEnds(j)
      BY <1>1, <1>2, <2>2 DEF ParserReads, ParserScans, ParserEchoes, ParserEnds, Goes
    <2>3. CASE Return(j)
      BY <1>1, <1>2, <2>3 DEF Return, Goes, Collects
    <2> QED BY <1>3, <2>1, <2>2, <2>3 DEF Compile
  <1>4. CASE Feeder(j)
    BY <1>2, <1>4, FeederMoves
  <1>5. CASE Listener(j)
    BY <1>1, <1>2, <1>5 DEF Listener, ListenerStarts, ListenerReads,
       ListenerCompletes, ListenerCloses, ListenerForgets
  <1> QED BY <1>3, <1>4, <1>5

(* The ends of a compile's pipes are four. *)
LEMMA EndsDiffer ==
  ASSUME NEW j \in Job
  PROVE  /\ \A a, b, c, d : EndOf(j, a, b) = EndOf(j, c, d) => a = c /\ b = d
         /\ \A a, b : EndOf(j, a, b) # Closed
  <1>1. \A a, b : EndOf(j, a, b).job = j /\ EndOf(j, a, b).name = a /\ EndOf(j, a, b).end = b
    BY DEF EndOf
  <1>2. Closed.job = None /\ j # None
    BY JobFacts DEF Closed
  <1> QED BY <1>1, <1>2

(* Steps that neither open nor close a descriptor. *)
LEMMA CompileEndsStay ==
  ASSUME IInv, NEW j \in Job,
         \/ Lock(j) \/ PipeFails(j) \/ Detach(j) \/ CloseInAgain(j) \/ ForgetIn(j)
         \/ Return(j) \/ ParserReads(j) \/ ParserScans(j) \/ ParserEchoes(j)
         \/ ParserEnds(j)
  PROVE  Keeps(j)' /\ HoldsNoMore(j)' /\ Numbers(j)'
  <1>1. TypeInv /\ Threads(j) /\ Keeps(j) /\ HoldsNoMore(j) /\ Numbers(j)
    BY DEF IInv, JobInv
  <1>2. /\ fd \in [FD -> End] /\ parser \in [Job -> ParserType]
        /\ pc \in [Job -> Before \cup {"parse"} \cup Past \cup {"returned"}]
        /\ listener \in [Job -> ListenerType]
        /\ stdin_pipe \in [Env -> [rx : Number, tx : Number]]
        /\ EnvOf(j) \in Env
    BY <1>1, JobFacts DEF TypeInv
  <1>3. fd' = fd
    <2>1. CASE CloseInAgain(j)
      <3>1. Stdin(j).rx \in FD /\ fd[Stdin(j).rx] = Closed
        BY <1>1, <2>1 DEF CloseInAgain, Numbers
      <3> QED BY <1>2, <2>1, <3>1 DEF CloseInAgain, Close, Stdin
    <2>2. CASE Return(j)
      BY <1>1, <2>2 DEF Return, Numbers, Past, Close, Stdout
    <2> QED BY <2>1, <2>2 DEF Lock, PipeFails, Detach, ForgetIn, ParserReads,
            ParserScans, ParserEchoes, ParserEnds
  <1>4. Stdout(j)' = Stdout(j)
    BY DEF Lock, PipeFails, Detach, CloseInAgain, ForgetIn, Return, ParserReads,
       ParserScans, ParserEchoes, ParserEnds, Stdout, envVars
  <1> USE DEF Keeps, HoldsNoMore, Numbers, Is, UsesInRx, UsesInTx, UsesOutRx,
              UsesOutTx, Failed
  <1>5. CASE Detach(j)
    <2>1. /\ pc[j] = "detach" /\ pc'[j] = "parse" /\ Stdin(j)' = Stdin(j)
          /\ feeder'[j].pc = "loop" /\ listener'[j].pc = "start"
      <3>1. Compile(j) /\ pc[j] = "detach" /\ Stdin(j)' = Stdin(j)
        BY <1>5 DEF Compile, Detach, Stdin, envVars
      <3>2. /\ pc'[j] = "parse" /\ feeder'[j].pc = "loop"
            /\ listener' = [listener EXCEPT ![j].pc = "start"]
        BY <3>1, CompileMoves
      <3> QED BY <1>2, <3>1, <3>2 DEF ListenerType
    <2>2. parser'[j].infile = Stdin(j).rx /\ parser'[j].outfile = Stdout(j).tx
      BY <1>2, <1>5 DEF Detach, ParserType, Stdin, Stdout
    <2> QED BY <1>1, <1>3, <1>4, <2>1, <2>2 DEF Past
  <1>6. CASE ForgetIn(j)
    <2>1. /\ pc[j] = "forget" /\ pc'[j] = "wait" /\ Stdin(j)'.tx = Stdin(j).tx
          /\ feeder' = feeder /\ listener' = listener
      BY <1>2, <1>6 DEF ForgetIn, Goes, Stdin
    <2> QED BY <1>1, <1>3, <1>4, <2>1 DEF Past
  <1>7. CASE Lock(j) \/ PipeFails(j)
    <2>1. /\ \/ pc[j] = "idle" /\ pc'[j] = "pipeIn"
             \/ pc[j] \in {"pipeIn", "pipeOut"} /\ pc'[j] = "returned"
          /\ feeder' = feeder /\ listener' = listener /\ Stdin(j)' = Stdin(j)
      BY <1>2, <1>7 DEF Lock, PipeFails, Goes, Stdin
    <2>2. feeder[j].pc = "none" /\ listener[j].pc = "none"
      BY <1>1, <2>1 DEF Threads, Before
    <2> QED BY <1>1, <1>3, <1>4, <2>1, <2>2 DEF Past
  <1>8. CASE CloseInAgain(j) \/ Return(j) \/ ParserEnds(j)
    <2>1. /\ \/ pc[j] = "closeAgain" /\ pc'[j] = "forget"
             \/ pc[j] = "wait" /\ pc'[j] = "returned"
             \/ pc[j] = "parse" /\ pc'[j] = "closeOut"
          /\ feeder' = feeder /\ listener' = listener /\ Stdin(j)' = Stdin(j)
      BY <1>2, <1>8 DEF CloseInAgain, Return, ParserEnds, Goes, Stdin, envVars
    <2> QED BY <1>1, <1>3, <1>4, <2>1 DEF Past
  <1>9. CASE ParserReads(j) \/ ParserScans(j) \/ ParserEchoes(j)
    <2>1. /\ pc' = pc /\ feeder' = feeder /\ listener' = listener
          /\ Stdin(j)' = Stdin(j)
      BY <1>9 DEF ParserReads, ParserScans, ParserEchoes, Stdin, envVars
    <2>2. parser'[j].infile = parser[j].infile /\ parser'[j].outfile = parser[j].outfile
      BY <1>2, <1>9 DEF ParserReads, ParserScans, ParserEchoes, ParserType
    <2> QED BY <1>1, <1>3, <1>4, <2>1, <2>2
  <1> QED BY <1>5, <1>6, <1>7, <1>8, <1>9

LEMMA HelperEndsStay ==
  ASSUME IInv, NEW j \in Job,
         \/ FeederWrites(j) \/ FeederFills(j) \/ FeederBreaks(j) \/ FeederForgets(j)
         \/ ListenerStarts(j) \/ ListenerReads(j) \/ ListenerCompletes(j)
         \/ ListenerForgets(j)
  PROVE  Keeps(j)' /\ HoldsNoMore(j)' /\ Numbers(j)'
  <1>1. TypeInv /\ Threads(j) /\ Keeps(j) /\ HoldsNoMore(j) /\ Numbers(j)
    BY DEF IInv, JobInv
  <1>2. /\ listener \in [Job -> ListenerType] /\ feeder \in [Job -> FeederType]
        /\ stdin_pipe \in [Env -> [rx : Number, tx : Number]]
        /\ stdout_pipe \in [Env -> [rx : Number, tx : Number]]
        /\ EnvOf(j) \in Env
    BY <1>1, JobFacts DEF TypeInv
  <1>3. fd' = fd
    BY DEF FeederWrites, FeederFills, FeederBreaks, FeederForgets, ListenerStarts,
       ListenerReads, ListenerCompletes, ListenerForgets
  <1> USE DEF Keeps, HoldsNoMore, Numbers, Is, UsesInRx, UsesInTx, UsesOutRx,
              UsesOutTx, Failed
  <1>4. CASE FeederWrites(j) \/ FeederFills(j) \/ FeederBreaks(j) \/ FeederForgets(j)
    <2>1. /\ pc' = pc /\ listener' = listener /\ parser' = parser
          /\ Stdout(j)' = Stdout(j) /\ Stdin(j)'.rx = Stdin(j).rx
          /\ feeder[j].pc \in {"loop", "write", "forget"} /\ feeder'[j].pc # "none"
          /\ feeder[j].pc # "forget" => Stdin(j)' = Stdin(j)
          /\ feeder[j].pc = "forget" => feeder'[j].pc = "ended"
      BY <1>4, FeederMoves DEF Feeder, Stdout
    <2>2. pc[j] \notin Before
      BY <1>1, <2>1 DEF Threads
    <2>3. \/ /\ feeder[j].pc \in {"loop", "write"}
             /\ feeder'[j].pc \in {"loop", "write"}
          \/ feeder[j].pc = "forget" /\ feeder'[j].pc = "ended"
      <3>1. CASE FeederWrites(j)
        BY <3>1, FeederBegins DEF FeederWrites
      <3>2. CASE FeederFills(j)
        BY <3>2, FeederFillsSource DEF FeederFills, Filled
      <3>3. CASE FeederBreaks(j)
        BY <3>3, FeederBreaksOff DEF FeederBreaks
      <3>4. CASE FeederForgets(j)
        BY <2>1, <3>4 DEF FeederForgets
      <3> QED BY <1>4, <3>1, <3>2, <3>3, <3>4
    <2> QED BY <1>1, <1>3, <2>1, <2>2, <2>3 DEF Before
  <1>5. CASE ListenerStarts(j) \/ ListenerReads(j) \/ ListenerCompletes(j)
    <2>1. /\ pc' = pc /\ feeder' = feeder /\ parser' = parser
          /\ Stdout(j)' = Stdout(j) /\ Stdin(j)' = Stdin(j)
          /\ listener[j].pc \in {"start", "read"}
          /\ listener'[j].pc \in {"read", "close"}
      BY <1>2, <1>5 DEF ListenerStarts, ListenerReads, ListenerCompletes, Stdin,
         Stdout, ListenerType, envVars
    <2> QED BY <1>1, <1>3, <2>1
  <1>6. CASE ListenerForgets(j)
    <2>1. /\ pc' = pc /\ feeder' = feeder /\ parser' = parser
          /\ Stdout(j)'.tx = Stdout(j).tx /\ Stdin(j)' = Stdin(j)
          /\ listener[j].pc = "forget" /\ listener'[j].pc = "ended"
      BY <1>2, <1>6 DEF ListenerForgets, Stdin, Stdout, ListenerType
    <2>2. pc[j] \notin Before
      BY <1>1, <2>1 DEF Threads
    <2> QED BY <1>1, <1>3, <2>1, <2>2 DEF Before
  <1> QED BY <1>4, <1>5, <1>6

LEMMA EndsOpen ==
  ASSUME IInv, NEW j \in Job, PipeIn(j) \/ PipeOut(j)
  PROVE  Keeps(j)' /\ HoldsNoMore(j)' /\ Numbers(j)'
  <1>1. TypeInv /\ Threads(j) /\ Keeps(j) /\ HoldsNoMore(j) /\ Numbers(j)
    BY DEF IInv, JobInv
  <1>2. /\ Rx \in FD /\ Tx \in FD /\ Rx # Tx /\ fd \in [FD -> End]
        /\ fd[Rx] = Closed /\ fd[Tx] = Closed
    BY <1>1, TableTypes DEF PipeIn, PipeOut, TypeInv
  <1>3. /\ feeder[j].pc = "none" /\ listener[j].pc = "none"
        /\ feeder' = feeder /\ listener' = listener
    BY <1>1, CompileMoves DEF PipeIn, PipeOut, Threads, Before, Compile
  <1> USE DEF Is, UsesInRx, UsesInTx, UsesOutRx, UsesOutTx, Failed
  <1>4. CASE PipeIn(j)
    <2>1. /\ pc[j] = "pipeIn" /\ pc'[j] = "pipeOut"
          /\ Stdin(j)'.rx = Rx /\ Stdin(j)'.tx = Tx
          /\ fd' = [fd EXCEPT ![Rx] = EndOf(j, "in", "rx"), ![Tx] = EndOf(j, "in", "tx")]
      BY <1>1, <1>4, JobFacts DEF PipeIn, NewPipe, Goes, TypeInv, Stdin
    <2>2. \A n \in FD, name \in {"in", "out"}, end \in {"rx", "tx"} :
              fd[n] # EndOf(j, name, end)
      BY <1>1, <1>3, <2>1 DEF HoldsNoMore
    <2>3. fd'[Rx] = EndOf(j, "in", "rx") /\ fd'[Tx] = EndOf(j, "in", "tx")
      BY <1>2, <2>1
    <2>4. \A n \in FD \ {Rx, Tx} : fd'[n] = fd[n]
      BY <1>2, <2>1
    <2>5. Keeps(j)'
      BY <1>2, <1>3, <2>1, <2>3 DEF Keeps
    <2>6. HoldsNoMore(j)'
      BY <1>2, <1>3, <2>1, <2>2, <2>3, <2>4, EndsDiffer DEF HoldsNoMore
    <2>7. Numbers(j)'
      BY <2>1 DEF Numbers, Past
    <2> QED BY <2>5, <2>6, <2>7
  <1>5. CASE PipeOut(j)
    <2>1. /\ pc[j] = "pipeOut" /\ pc'[j] = "detach"
          /\ Stdout(j)'.rx = Rx /\ Stdout(j)'.tx = Tx /\ Stdin(j)' = Stdin(j)
          /\ fd' = [fd EXCEPT ![Rx] = EndOf(j, "out", "rx"), ![Tx] = EndOf(j, "out", "tx")]
      BY <1>1, <1>5, JobFacts DEF PipeOut, NewPipe, Goes, TypeInv, Stdin, Stdout
    <2>2. /\ Is(Stdin(j).rx, j, "in", "rx") /\ Is(Stdin(j).tx, j, "in", "tx")
          /\ \A n \in FD : /\ fd[n] = EndOf(j, "in", "rx") => n = Stdin(j).rx
                           /\ fd[n] = EndOf(j, "in", "tx") => n = Stdin(j).tx
                           /\ fd[n] # EndOf(j, "out", "rx")
                           /\ fd[n] # EndOf(j, "out", "tx")
      BY <1>1, <1>3, <2>1 DEF HoldsNoMore, Keeps
    <2>3. fd'[Rx] = EndOf(j, "out", "rx") /\ fd'[Tx] = EndOf(j, "out", "tx")
      BY <1>2, <2>1
    <2>4. \A n \in FD \ {Rx, Tx} : fd'[n] = fd[n]
      BY <1>2, <2>1
    <2>5. Stdin(j).rx \notin {Rx, Tx} /\ Stdin(j).tx \notin {Rx, Tx}
      BY <1>2, <2>2, EndsDiffer
    <2>6. Keeps(j)'
      BY <1>2, <1>3, <2>1, <2>2, <2>3, <2>4, <2>5 DEF Keeps
    <2>7. HoldsNoMore(j)'
      BY <1>2, <1>3, <2>1, <2>2, <2>3, <2>4, EndsDiffer DEF HoldsNoMore
    <2>8. Numbers(j)'
      BY <2>1 DEF Numbers, Past
    <2> QED BY <2>6, <2>7, <2>8
  <1> QED BY <1>4, <1>5

(* close() of a number of the compile's own *)
LEMMA CloseFacts ==
  ASSUME TypeInv, NEW j \in Job, NEW n, NEW name, NEW end,
         Is(n, j, name, end), Close(n)
  PROVE  /\ fd'[n] = Closed
         /\ \A m \in FD \ {n} : fd'[m] = fd[m]
         /\ \A m, a, b : <<a, b>> # <<name, end>> =>
               (Is(m, j, a, b)' <=> Is(m, j, a, b))
  <1>1. n \in FD /\ n # None /\ fd[n] = EndOf(j, name, end) /\ fd \in [FD -> End]
    BY Sizes DEF Is, TypeInv, None
  <1>2. fd'[n] = Closed /\ \A m \in FD \ {n} : fd'[m] = fd[m]
    BY <1>1 DEF Close
  <1>3. ASSUME NEW m, NEW a, NEW b, <<a, b>> # <<name, end>>
        PROVE  Is(m, j, a, b)' <=> Is(m, j, a, b)
    <2>1. fd[n] # EndOf(j, a, b) /\ fd'[n] # EndOf(j, a, b)
      BY <1>1, <1>2, <1>3, EndsDiffer
    <2> QED BY <1>2, <2>1 DEF Is
  <1> QED BY <1>2, <1>3

LEMMA EndsClose ==
  ASSUME IInv, NEW j \in Job,
         CloseOut(j) \/ CloseIn(j) \/ FeederCloses(j) \/ ListenerCloses(j)
  PROVE  Keeps(j)' /\ HoldsNoMore(j)' /\ Numbers(j)'
  <1>1. TypeInv /\ Threads(j) /\ Keeps(j) /\ HoldsNoMore(j) /\ Numbers(j)
    BY DEF IInv, JobInv
  <1>2. /\ listener \in [Job -> ListenerType] /\ feeder \in [Job -> FeederType]
        /\ pc \in [Job -> Before \cup {"parse"} \cup Past \cup {"returned"}]
        /\ stdout_pipe \in [Env -> [rx : Number, tx : Number]]
        /\ EnvOf(j) \in Env
    BY <1>1, JobFacts DEF TypeInv
  <1>3. \A name, end : EndOf(j, name, end) # Closed
    BY EndsDiffer
  <1>4. CASE CloseOut(j)
    <2>1. /\ pc[j] = "closeOut" /\ pc'[j] = "closeIn"
          /\ feeder' = feeder /\ listener' = listener /\ Stdin(j)' = Stdin(j)
          /\ Stdout(j)'.rx = Stdout(j).rx /\ Stdout(j)'.tx = None
          /\ Close(Stdout(j).tx) /\ parser' = parser
      BY <1>2, <1>4 DEF CloseOut, Goes, Stdin, Stdout
    <2>2. Is(Stdout(j).tx, j, "out", "tx")
      BY <1>1, <2>1 DEF Keeps, UsesOutTx
    <2>3. /\ \A m \in FD \ {Stdout(j).tx} : fd'[m] = fd[m]
          /\ fd'[Stdout(j).tx] = Closed
          /\ \A m, a, b : <<a, b>> # <<"out", "tx">> =>
                (Is(m, j, a, b)' <=> Is(m, j, a, b))
      BY <1>1, <2>1, <2>2, CloseFacts
    <2>4. Keeps(j)'
      BY <1>1, <2>1, <2>3 DEF Keeps, UsesInRx, UsesInTx, UsesOutRx, UsesOutTx
    <2>5. HoldsNoMore(j)'
      BY <1>1, <1>3, <2>1, <2>3 DEF HoldsNoMore, UsesInRx, UsesInTx, UsesOutRx,
         UsesOutTx, Failed
    <2>6. Numbers(j)'
      BY <1>1, <2>1 DEF Numbers, Past
    <2> QED BY <2>4, <2>5, <2>6
  <1>5. CASE CloseIn(j)
    <2>1. Is(Stdin(j).rx, j, "in", "rx")
      BY <1>1, <1>5 DEF CloseIn, Keeps, UsesInRx
    <2>2. IsOpen(Stdin(j).rx)
      BY <1>3, <2>1, Sizes DEF Is, IsOpen, None
    <2>3. /\ pc[j] = "closeIn" /\ pc'[j] = "closeAgain"
          /\ feeder' = feeder /\ listener' = listener /\ Stdin(j)' = Stdin(j)
          /\ Stdout(j)' = Stdout(j) /\ Close(Stdin(j).rx) /\ parser' = parser
      BY <1>2, <1>5, <2>2 DEF CloseIn, Goes, Stdin, Stdout, envVars
    <2>4. /\ \A m \in FD \ {Stdin(j).rx} : fd'[m] = fd[m]
          /\ fd'[Stdin(j).rx] = Closed
          /\ \A m, a, b : <<a, b>> # <<"in", "rx">> =>
                (Is(m, j, a, b)' <=> Is(m, j, a, b))
      BY <1>1, <2>1, <2>3, CloseFacts
    <2>5. Keeps(j)'
      BY <1>1, <2>3, <2>4 DEF Keeps, UsesInRx, UsesInTx, UsesOutRx, UsesOutTx
    <2>6. HoldsNoMore(j)'
      BY <1>1, <1>3, <2>3, <2>4 DEF HoldsNoMore, UsesInRx, UsesInTx, UsesOutRx,
         UsesOutTx, Failed
    <2>7. Numbers(j)'
      BY <1>1, <2>1, <2>3, <2>4 DEF Numbers, Past, Is
    <2> QED BY <2>5, <2>6, <2>7
  <1>6. CASE FeederCloses(j)
    <2>1. /\ pc' = pc /\ listener' = listener /\ Stdin(j)' = Stdin(j)
          /\ feeder[j].pc = "loop" /\ feeder'[j].pc = "forget"
          /\ Stdout(j)' = Stdout(j) /\ Close(Stdin(j).tx) /\ parser' = parser
      BY <1>2, <1>6 DEF FeederCloses, OwnTx, Stdin, Stdout, FeederType, envVars
    <2>2. Is(Stdin(j).tx, j, "in", "tx") /\ pc[j] \notin Before
      BY <1>1, <2>1 DEF Keeps, UsesInTx, Threads
    <2>3. /\ \A m \in FD \ {Stdin(j).tx} : fd'[m] = fd[m]
          /\ fd'[Stdin(j).tx] = Closed
          /\ \A m, a, b : <<a, b>> # <<"in", "tx">> =>
                (Is(m, j, a, b)' <=> Is(m, j, a, b))
      BY <1>1, <2>1, <2>2, CloseFacts
    <2>4. Keeps(j)'
      BY <1>1, <2>1, <2>2, <2>3
         DEF Keeps, UsesInRx, UsesInTx, UsesOutRx, UsesOutTx, Before
    <2>5. HoldsNoMore(j)'
      BY <1>1, <1>3, <2>1, <2>3 DEF HoldsNoMore, UsesInRx, UsesInTx, UsesOutRx,
         UsesOutTx, Failed
    <2>6. Numbers(j)'
      <3>1. pc[j] = "closeAgain" => fd'[Stdin(j).rx] = Closed
        BY <1>1, <2>3 DEF Numbers
      <3> QED BY <1>1, <2>1, <3>1 DEF Numbers
    <2> QED BY <2>4, <2>5, <2>6
  <1>7. CASE ListenerCloses(j)
    <2>1. /\ pc' = pc /\ feeder' = feeder /\ Stdin(j)' = Stdin(j)
          /\ listener[j].pc = "close" /\ listener'[j].pc = "forget"
          /\ Stdout(j)' = Stdout(j) /\ Close(Stdout(j).rx) /\ parser' = parser
      BY <1>2, <1>7 DEF ListenerCloses, OwnRx, Stdin, Stdout, ListenerType, envVars
    <2>2. Is(Stdout(j).rx, j, "out", "rx") /\ pc[j] \notin Before
      BY <1>1, <2>1 DEF Keeps, UsesOutRx, Threads
    <2>3. /\ \A m \in FD \ {Stdout(j).rx} : fd'[m] = fd[m]
          /\ fd'[Stdout(j).rx] = Closed
          /\ \A m, a, b : <<a, b>> # <<"out", "rx">> =>
                (Is(m, j, a, b)' <=> Is(m, j, a, b))
      BY <1>1, <2>1, <2>2, CloseFacts
    <2>4. Keeps(j)'
      BY <1>1, <2>1, <2>2, <2>3
         DEF Keeps, UsesInRx, UsesInTx, UsesOutRx, UsesOutTx, Before
    <2>5. HoldsNoMore(j)'
      BY <1>1, <1>3, <2>1, <2>3 DEF HoldsNoMore, UsesInRx, UsesInTx, UsesOutRx,
         UsesOutTx, Failed
    <2>6. Numbers(j)'
      <3>1. pc[j] = "closeAgain" => fd'[Stdin(j).rx] = Closed
        BY <1>1, <2>3 DEF Numbers
      <3> QED BY <1>1, <2>1, <3>1 DEF Numbers
    <2> QED BY <2>4, <2>5, <2>6
  <1> QED BY <1>4, <1>5, <1>6, <1>7

-----------------------------------------------------------------------------
(* Bytes of the compile that takes the step *)

LEMMA ParserTakes ==
  ASSUME IInv, NEW j \in Job, ParserReads(j)
  PROVE  /\ Echo(j)' = Echo(j) /\ BytesInOrder(j)'
         /\ parser'[j].flushed = parser[j].flushed /\ parser'[j].echo = parser[j].echo
         /\ Scanned(j)' = Scanned(j)
         /\ \E t \in 1 .. Len(Source(j)) :
               /\ Read(j)' = Read(j) + t
               /\ Len(Source(j)') = Len(Source(j)) - t
  <1> DEFINE q == Source(j)
             t == Taken(<<j, "in">>)
             r == parser[j].read
             taken == SubSeq(q, 1, t)
             rest == SubSeq(q, t + 1, Len(q))
  <1>1. TypeInv /\ BytesInOrder(j) /\ In(j) = <<j, "in">> /\ <<j, "in">> \in Pipes
    BY OwnPipes, JobFacts DEF ParserReads, Parses, IInv, JobInv
  <1>2. /\ q \in Seq(Byte) /\ Len(q) \in Nat /\ r \in Seq(Byte) /\ Len(r) \in Nat
        /\ parser[j].echo \in Nat /\ parser[j].flushed \in Nat
    BY <1>1, PartsOf DEF Read
  <1>3. /\ t \in Nat /\ t > 0 /\ t <= Len(q)
        /\ taken \in Seq(Byte) /\ Len(taken) = t
        /\ \A i \in 1 .. t : taken[i] = q[i]
        /\ Len(rest) = Len(q) - t
        /\ \A i \in 1 .. Len(q) - t : rest[i] = q[t + i]
    BY <1>1, TakeFacts DEF ParserReads, Source
  <1>4. /\ Source(j)' = rest /\ Echo(j)' = Echo(j)
    <2>1. pipes' = [pipes EXCEPT ![<<j, "in">>] = rest]
      BY <1>1 DEF ParserReads, Take, Source
    <2>2. pipes \in [Pipes -> Seq(Byte)]
      BY <1>1 DEF TypeInv
    <2> HIDE DEF rest
    <2> QED BY <1>1, <2>1, <2>2 DEF Source, Echo
  <1>5. /\ parser'[j].read = r \o taken /\ parser'[j].echo = parser[j].echo
        /\ parser'[j].flushed = parser[j].flushed /\ Scanned(j)' = Scanned(j)
    <2>1. parser' = [parser EXCEPT ![j].read = r \o taken]
      BY <1>1 DEF ParserReads, Source
    <2>2. parser \in [Job -> ParserType]
      BY <1>1 DEF TypeInv
    <2> HIDE DEF taken, t, r
    <2> QED BY <2>1, <2>2 DEF ParserType, Scanned
  <1> HIDE DEF taken, rest, t, q, r
  <1>6. /\ Len(r \o taken) = Len(r) + t
        /\ \A i \in 1 .. Len(r) + t :
              (r \o taken)[i] = IF i <= Len(r) THEN r[i] ELSE taken[i - Len(r)]
    <2>1. /\ Len(r \o taken) = Len(r) + Len(taken)
          /\ \A i \in 1 .. Len(r) + Len(taken) :
                (r \o taken)[i] = IF i <= Len(r) THEN r[i] ELSE taken[i - Len(r)]
      BY <1>2, <1>3, ConcatProperties
    <2> QED BY <1>3, <2>1
  <1>7. /\ \A i \in 1 .. Len(r) : r[i] = <<j, i>>
        /\ \A i \in 1 .. Len(q) : q[i] = <<j, Len(r) + i>>
    BY <1>1 DEF BytesInOrder, Read, q, r
  <1>8. Read(j)' = Len(r) + t /\ Read(j) = Len(r)
    BY <1>5, <1>6 DEF Read, r
  <1>9. \A i \in 1 .. Len(r) + t : parser'[j].read[i] = <<j, i>>
    <2> SUFFICES ASSUME NEW i \in 1 .. Len(r) + t
                 PROVE  (r \o taken)[i] = <<j, i>>
      BY <1>5
    <2>1. CASE i <= Len(r)
      BY <1>2, <1>3, <1>6, <1>7, <2>1
    <2>2. CASE ~(i <= Len(r))
      <3>1. i - Len(r) \in 1 .. t /\ i - Len(r) \in 1 .. Len(q)
        BY <1>2, <1>3, <2>2
      <3>2. (r \o taken)[i] = q[i - Len(r)]
        BY <1>3, <1>6, <2>2, <3>1
      <3>3. Len(r) + (i - Len(r)) = i
        BY <1>2, <1>3
      <3> QED BY <1>7, <3>1, <3>2, <3>3
    <2> QED BY <2>1, <2>2
  <1>10. \A i \in 1 .. Len(q) - t : rest[i] = <<j, Len(r) + t + i>>
    <2> TAKE i \in 1 .. Len(q) - t
    <2>1. t + i \in 1 .. Len(q)
      BY <1>2, <1>3
    <2>2. rest[i] = <<j, Len(r) + (t + i)>>
      BY <1>3, <1>7, <2>1
    <2>3. Len(r) + (t + i) = Len(r) + t + i
      BY <1>2, <1>3
    <2> QED BY <2>2, <2>3
  <1>11. BytesInOrder(j)'
    BY <1>3, <1>4, <1>8, <1>9, <1>10 DEF BytesInOrder
  <1>12. t \in 1 .. Len(q)
    BY <1>2, <1>3
  <1> QED BY <1>3, <1>4, <1>5, <1>8, <1>11, <1>12 DEF q

(* The bytes of tokens among the first n. *)
LEMMA TokensCounted ==
  ASSUME NEW n \in Nat, NEW silent
  PROVE  /\ Cardinality((1 .. n) \ silent) \in Nat
         /\ Cardinality((1 .. n + 1) \ silent) =
               Cardinality((1 .. n) \ silent) + (IF n + 1 \in silent THEN 0 ELSE 1)
         /\ Cardinality((1 .. 0) \ silent) = 0
  <1> DEFINE S == (1 .. n) \ silent
  <1>1. IsFiniteSet(S) /\ Cardinality(S) \in Nat
    <2>1. IsFiniteSet(1 .. n)
      BY FS_Interval
    <2>2. IsFiniteSet(S)
      BY <2>1, FS_Difference
    <2> QED BY <2>2, FS_CardinalityType
  <1>2. n + 1 \notin S
    OBVIOUS
  <1>3. Cardinality((1 .. 0) \ silent) = 0
    <2>1. (1 .. 0) \ silent = {}
      OBVIOUS
    <2> QED BY <2>1, FS_EmptySet
  <1>4. CASE n + 1 \in silent
    <2>1. (1 .. n + 1) \ silent = S
      BY <1>4
    <2> QED BY <1>1, <1>3, <1>4, <2>1
  <1>5. CASE n + 1 \notin silent
    <2>1. (1 .. n + 1) \ silent = S \cup {n + 1}
      BY <1>5
    <2>2. Cardinality(S \cup {n + 1}) = Cardinality(S) + 1
      BY <1>1, <1>2, FS_AddElement
    <2> QED BY <1>1, <1>3, <1>5, <2>1, <2>2
  <1> QED BY <1>4, <1>5

(* At the end of a compile's source the feeder has closed its end. *)
LEMMA SourceEnds ==
  ASSUME IInv, NEW j \in Job, pc[j] = "parse", AtEnd(<<j, "in">>)
  PROVE  Read(j) = Size(j) /\ feeder[j].pc \in {"forget", "ended"}
  <1>1. /\ Threads(j) /\ Feeds(j) /\ Read(j) \in Nat /\ TypeInv
    BY PartsOf DEF IInv, JobInv
  <1>2. Source(j) = <<>> /\ ~Held(j, "in", "tx")
    BY DEF AtEnd, Source
  <1>3. ~UsesInTx(j)
    BY <1>2, HeldMeansUsed DEF Failed
  <1>4. feeder[j].pc \in {"forget", "ended"}
    BY <1>1, <1>3, TypesOf DEF UsesInTx, Threads, FeederType
  <1>5. Read(j) = Size(j)
    BY <1>1, <1>2, <1>4, EmptySeq DEF Feeds, Fed
  <1> QED BY <1>4, <1>5

LEMMA ParserPasses ==
  ASSUME IInv, NEW j \in Job, ParserScans(j)
  PROVE  /\ Source(j)' = Source(j) /\ Echo(j)' = Echo(j)
         /\ parser'[j].read = parser[j].read /\ parser'[j].flushed = parser[j].flushed
         /\ Scanned(j)' = Scanned(j) + 1 /\ Scanned(j) + 1 <= Read(j)
         /\ parser'[j].echo = parser[j].echo +
               (IF Scanned(j) + 1 \in Jobs[j].silent THEN 0 ELSE 1)
         /\ Read(j) = Size(j) \/ Read(j) >= Asked(Scanned(j))
  <1>1. /\ TypeInv /\ BytesInOrder(j) /\ Scans(j) /\ pc[j] = "parse"
        /\ In(j) = <<j, "in">>
    BY OwnPipes DEF ParserScans, Parses, IInv, JobInv
  <1>2. Scanned(j) \in Nat /\ Read(j) \in Nat /\ parser[j].echo \in Nat
    BY <1>1, PartsOf
  <1>3. /\ Scanned(j) < Read(j)
        /\ Read(j) >= Asked(Scanned(j)) \/ AtEnd(<<j, "in">>)
    BY <1>1 DEF ParserScans, Ready, Scanned, Read
  <1>4. parser[j].read[Scanned(j) + 1][2] = Scanned(j) + 1
    <2>1. Scanned(j) + 1 \in 1 .. Read(j)
      BY <1>2, <1>3
    <2>2. parser[j].read[Scanned(j) + 1] = <<j, Scanned(j) + 1>>
      BY <1>1, <2>1 DEF BytesInOrder
    <2> QED BY <2>2
  <1>5. parser' = [parser EXCEPT
                      ![j].scanned = @ + 1,
                      ![j].echo = IF Scanned(j) + 1 \in Jobs[j].silent THEN @ ELSE @ + 1]
    BY <1>4 DEF ParserScans, Scanned
  <1>6. /\ parser'[j].read = parser[j].read /\ parser'[j].flushed = parser[j].flushed
        /\ Scanned(j)' = Scanned(j) + 1
        /\ parser'[j].echo = IF Scanned(j) + 1 \in Jobs[j].silent
                             THEN parser[j].echo ELSE parser[j].echo + 1
    BY <1>1, <1>5 DEF TypeInv, ParserType, Scanned
  <1>7. Source(j)' = Source(j) /\ Echo(j)' = Echo(j)
    BY DEF ParserScans, Source, Echo
  <1>8. Read(j) = Size(j) \/ Read(j) >= Asked(Scanned(j))
    BY <1>1, <1>3, SourceEnds
  <1> QED BY <1>2, <1>3, <1>6, <1>7, <1>8

LEMMA ParserPuts ==
  ASSUME IInv, NEW j \in Job, ParserEchoes(j)
  PROVE  /\ Source(j)' = Source(j) /\ parser'[j].read = parser[j].read
         /\ Scanned(j)' = Scanned(j)
         /\ \E n \in 1 .. parser[j].echo :
               /\ Len(Echo(j)') = Len(Echo(j)) + n
               /\ parser'[j].echo = parser[j].echo - n
               /\ parser'[j].flushed = parser[j].flushed + n
  <1> DEFINE n == Least(Room(<<j, "out">>), parser[j].echo)
             g == [i \in 1 .. n |-> <<j, None>>]
  <1>1. TypeInv /\ Out(j) = <<j, "out">> /\ <<j, "out">> \in Pipes
    BY OwnPipes, JobFacts DEF ParserEchoes, IInv, JobInv
  <1>2. Echo(j) \in Seq(Byte) /\ Len(Echo(j)) \in Nat /\ parser[j].echo \in Nat
    BY <1>1, PartsOf
  <1>3. /\ n > 0 /\ pipes' = [pipes EXCEPT ![<<j, "out">>] = @ \o g]
        /\ parser' = [parser EXCEPT ![j].echo = @ - n, ![j].flushed = @ + n]
    BY <1>1 DEF ParserEchoes
  <1>4. n \in 1 .. parser[j].echo
    <2>1. Room(<<j, "out">>) \in Int
      BY <1>2, Sizes DEF Room, Echo
    <2> QED BY <1>2, <1>3, <2>1 DEF Least
  <1>5. /\ parser'[j].read = parser[j].read /\ parser'[j].echo = parser[j].echo - n
        /\ parser'[j].flushed = parser[j].flushed + n /\ Scanned(j)' = Scanned(j)
    <2>1. parser \in [Job -> ParserType]
      BY <1>1 DEF TypeInv
    <2> HIDE DEF n
    <2> QED BY <1>3, <2>1 DEF ParserType, Scanned
  <1>6. Source(j)' = Source(j) /\ Echo(j)' = Echo(j) \o g
    BY <1>1, <1>3, JobFacts DEF TypeInv, Source, Echo
  <1> HIDE DEF n
  <1>7. Len(Echo(j) \o g) = Len(Echo(j)) + n
    <2>1. g \in [1 .. n -> Byte] /\ n \in Nat
      <3>1. j \in Nat
        BY JobFacts
      <3>2. n \in Nat
        BY <1>2, <1>4
      <3> QED BY <3>1, <3>2 DEF Byte, None
    <2>2. g \in Seq(Byte) /\ Len(g) = n
      BY <2>1, Written
    <2> QED BY <1>2, <2>2, ConcatProperties
  <1> QED BY <1>4, <1>5, <1>6, <1>7

LEMMA ListenerTakes ==
  ASSUME IInv, NEW j \in Job, ListenerReads(j)
  PROVE  /\ Source(j)' = Source(j) /\ listener'[j].pc = "read"
         /\ \E t \in 1 .. Len(Echo(j)) :
               /\ Len(Echo(j)') = Len(Echo(j)) - t
               /\ listener'[j].outputData = listener[j].outputData + t
  <1> DEFINE t == Taken(<<j, "out">>)
  <1>1. TypeInv /\ PipeOf(OwnRx(j)) = <<j, "out">> /\ <<j, "out">> \in Pipes
    BY OwnPipes, JobFacts DEF ListenerReads, UsesOutRx, IInv, JobInv
  <1>2. /\ t \in Nat /\ t > 0 /\ t <= Len(Echo(j)) /\ Len(Echo(j)) \in Nat
        /\ Len(SubSeq(Echo(j), t + 1, Len(Echo(j)))) = Len(Echo(j)) - t
    BY <1>1, TakeFacts, PartsOf DEF ListenerReads, Echo
  <1>3. /\ Source(j)' = Source(j)
        /\ Echo(j)' = SubSeq(Echo(j), t + 1, Len(Echo(j)))
    <2> DEFINE rest == SubSeq(Echo(j), t + 1, Len(Echo(j)))
    <2>1. pipes' = [pipes EXCEPT ![<<j, "out">>] = rest]
      BY <1>1 DEF ListenerReads, Take, Echo
    <2>2. pipes \in [Pipes -> Seq(Byte)]
      BY <1>1 DEF TypeInv
    <2> HIDE DEF rest
    <2>3. Source(j)' = Source(j) /\ Echo(j)' = rest
      BY <1>1, <2>1, <2>2 DEF Source, Echo
    <2> QED BY <2>3 DEF rest
  <1>4. /\ listener'[j].pc = "read"
        /\ listener'[j].outputData = listener[j].outputData + t
    <2>1. listener' = [listener EXCEPT ![j].outputData = @ + t] /\ listener[j].pc = "read"
      BY <1>1 DEF ListenerReads
    <2>2. listener \in [Job -> ListenerType]
      BY <1>1 DEF TypeInv
    <2> HIDE DEF t
    <2> QED BY <2>1, <2>2 DEF ListenerType
  <1> HIDE DEF t
  <1>5. t \in 1 .. Len(Echo(j))
    BY <1>2
  <1> QED BY <1>2, <1>3, <1>4, <1>5

(* No other step touches them. *)
LEMMA BytesStay ==
  ASSUME IInv, NEW j \in Job, Compile(j) \/ Feeder(j) \/ Listener(j),
         ~ParserReads(j), ~ParserScans(j), ~ParserEchoes(j)
  PROVE  /\ parser'[j].read = parser[j].read /\ Scanned(j)' = Scanned(j)
         /\ parser'[j].echo = parser[j].echo
         /\ parser'[j].flushed = parser[j].flushed
         /\ ~FeederFills(j) => Source(j)' = Source(j)
         /\ ~ListenerReads(j) => Echo(j)' = Echo(j)
  <1>1. parser \in [Job -> ParserType]
    BY DEF IInv, TypeInv
  <1> USE DEF Scanned
  <1>2. CASE Compile(j)
    <2>1. CASE Detach(j)
      BY <1>1, <2>1 DEF Detach, ParserType, Source, Echo
    <2> QED BY <1>2, <2>1 DEF Compile, Lock, PipeIn, PipeOut, PipeFails, CloseOut,
            CloseIn, CloseInAgain, ForgetIn, Return, ParserEnds, Source, Echo
  <1>3. CASE Feeder(j)
    BY <1>3, FeederMoves DEF Feeder, FeederWrites, FeederBreaks, FeederCloses,
       FeederForgets, Source
  <1>4. CASE Listener(j)
    <2>1. parser' = parser /\ (~ListenerReads(j) => pipes' = pipes)
      BY <1>4 DEF Listener, ListenerStarts, ListenerReads, ListenerCompletes,
         ListenerCloses, ListenerForgets
    <2>2. Source(j)' = Source(j)
      BY <2>1, ListenerTakes DEF Source
    <2> QED BY <2>1, <2>2 DEF Echo
  <1> QED BY <1>2, <1>3, <1>4

LEMMA BytesKept ==
  ASSUME IInv, NEW j \in Job, Compile(j) \/ Feeder(j) \/ Listener(j)
  PROVE  BytesInOrder(j)'
  <1>1. TypeInv /\ BytesInOrder(j) /\ Read(j) \in Nat /\ Len(Source(j)) \in Nat
    BY PartsOf DEF IInv, JobInv
  <1>2. CASE ParserReads(j)
    BY <1>2, ParserTakes
  <1>3. CASE ParserEchoes(j)
    BY <1>1, <1>3, ParserPuts DEF BytesInOrder, Read
  <1>4. CASE FeederFills(j)
    <2>1. PICK some \in 1 .. feeder[j].left : Filled(j, some)
      BY <1>4, FeederFillsSource
    <2>2. feeder[j].left \in Nat
      BY <1>1, PartsOf
    <2>3. parser' = parser
      BY <1>4 DEF FeederFills
    <2>4. \A i \in 1 .. Len(Source(j)) + some : Source(j)'[i] = <<j, Read(j) + i>>
      <3> SUFFICES ASSUME NEW i \in 1 .. Len(Source(j)) + some
                   PROVE  Source(j)'[i] = <<j, Read(j) + i>>
        OBVIOUS
      <3>1. CASE i <= Len(Source(j))
        <4>1. i \in 1 .. Len(Source(j))
          BY <1>1, <2>2, <3>1
        <4> QED BY <1>1, <2>1, <4>1 DEF Filled, BytesInOrder
      <3>2. CASE ~(i <= Len(Source(j)))
        <4>1. i \in Len(Source(j)) + 1 .. Len(Source(j)) + some
          BY <1>1, <2>2, <3>2
        <4> QED BY <2>1, <4>1 DEF Filled
      <3> QED BY <3>1, <3>2
    <2> QED BY <1>1, <2>1, <2>3, <2>4 DEF BytesInOrder, Read, Filled
  <1>5. CASE ParserScans(j)
    BY <1>1, <1>5, ParserPasses DEF BytesInOrder, Read
  <1>6. CASE ~ParserReads(j) /\ ~ParserScans(j) /\ ~ParserEchoes(j) /\ ~FeederFills(j)
    BY <1>1, <1>6, BytesStay DEF BytesInOrder, Read
  <1> QED BY <1>2, <1>3, <1>4, <1>5, <1>6

LEMMA FeedsKept ==
  ASSUME IInv, NEW j \in Job, Compile(j) \/ Feeder(j) \/ Listener(j)
  PROVE  Feeds(j)'
  <1>1. /\ TypeInv /\ Feeds(j) /\ Threads(j)
        /\ Size(j) \in Nat /\ Read(j) \in Nat /\ Len(Source(j)) \in Nat
        /\ feeder[j].left \in Nat /\ feeder[j].write_size \in Nat
        /\ pc \in [Job -> Before \cup {"parse"} \cup Past \cup {"returned"}]
    BY PartsOf, JobFacts DEF IInv, JobInv, TypeInv
  <1>0. ignoresSigpipe' = ignoresSigpipe
    BY SigpipeStays
  <1> USE <1>0 DEF UsesInRx, Intact, Fed
  <1>2. CASE ParserReads(j)
    <2>1. pc' = pc /\ feeder' = feeder
      BY <1>2 DEF ParserReads
    <2>2. PICK t \in 1 .. Len(Source(j)) :
             Read(j)' = Read(j) + t /\ Len(Source(j)') = Len(Source(j)) - t
      BY <1>2, ParserTakes
    <2>3. Fed(j)' = Fed(j)
      <3>1. Read(j)' + Len(Source(j)') = Read(j) + Len(Source(j))
        BY <1>1, <2>2
      <3> QED BY <3>1
    <2> HIDE DEF Fed
    <2> QED BY <1>1, <2>1, <2>3 DEF Feeds
  <1>3. CASE Compile(j) /\ ~ParserReads(j)
    <2>1. Source(j)' = Source(j) /\ Read(j)' = Read(j)
      <3>1. CASE ParserEchoes(j)
        BY <3>1, ParserPuts DEF Read
      <3>2. CASE ParserScans(j)
        BY <3>2, ParserPasses DEF Read
      <3>3. CASE ~ParserEchoes(j) /\ ~ParserScans(j)
        <4>1. pipes' = pipes
          BY <1>3, <3>3 DEF Compile, Lock, PipeIn, PipeOut, PipeFails, Detach,
             CloseOut, CloseIn, CloseInAgain, ForgetIn, Return, ParserEnds
        <4> QED BY <1>3, <3>3, <4>1, BytesStay DEF Read, Source
      <3> QED BY <3>1, <3>2, <3>3
    <2>2. CASE Detach(j)
      <3>1. pc[j] = "detach" /\ feeder[j].pc = "none"
        BY <1>1, <2>2 DEF Detach, Threads, Before
      <3> QED BY <1>1, <1>3, <2>1, <3>1, CompileMoves DEF Feeds
    <2>3. CASE ~Detach(j)
      <3>1. feeder' = feeder
        BY <1>3, <2>3 DEF Compile, Lock, PipeIn, PipeOut, PipeFails, CloseOut,
           CloseIn, CloseInAgain, ForgetIn, Return, ParserScans, ParserEchoes, ParserEnds
      <3>2. \/ feeder[j].pc = "none"
            \/ (Intact(j)' => Intact(j)) /\ (pc'[j] = "parse" => pc[j] = "parse")
        BY <1>1, <1>3, <2>3 DEF Compile, Lock, PipeIn, PipeOut, PipeFails, CloseOut,
           CloseIn, CloseInAgain, ForgetIn, Return, ParserScans, ParserEchoes, ParserEnds,
           Goes, Threads, Before
      <3> QED BY <1>1, <2>1, <3>1, <3>2 DEF Feeds
    <2> QED BY <2>2, <2>3
  <1>4. CASE Listener(j)
    <2>1. Source(j)' = Source(j) /\ parser'[j] = parser[j]
      BY <1>4, ListenerTakes DEF Listener, ListenerStarts, ListenerReads,
         ListenerCompletes, ListenerCloses, ListenerForgets, Source
    <2>2. pc' = pc /\ feeder' = feeder
      BY <1>4 DEF Listener, ListenerStarts, ListenerReads, ListenerCompletes,
         ListenerCloses, ListenerForgets
    <2> QED BY <1>1, <2>1, <2>2 DEF Feeds, Read
  <1>5. CASE Feeder(j)
    <2>1. pc' = pc /\ Read(j)' = Read(j)
      BY <1>5, FeederMoves DEF Read
    <2>2. CASE FeederWrites(j)
      <3>1. Source(j)' = Source(j)
        BY <2>2 DEF FeederWrites, Source
      <3>2. Fed(j)' = Fed(j) /\ Fed(j) \in Nat
        BY <1>1, <2>1, <3>1
      <3>3. /\ feeder[j].pc = "loop" /\ feeder[j].write_size > 0
            /\ feeder'[j].pc = "write" /\ feeder'[j].to = <<j, "in">>
            /\ feeder'[j].left = feeder[j].write_size
            /\ feeder'[j].write_size = feeder[j].write_size
            /\ feeder'[j].current_pos = feeder[j].current_pos
        BY <2>2, FeederBegins DEF FeederWrites
      <3>4. Intact(j) => /\ feeder[j].write_size = Size(j) /\ Fed(j) = 0
                         /\ feeder[j].current_pos = 0
        BY <1>1, <3>3 DEF Feeds
      <3>5. Intact(j)' = Intact(j)
        BY <2>1
      <3> HIDE DEF Fed, UsesInRx, Intact
      <3> QED BY <1>1, <3>2, <3>3, <3>4, <3>5 DEF Feeds
    <2>3. CASE FeederFills(j)
      <3>1. PICK some \in 1 .. feeder[j].left : Filled(j, some)
        BY <2>3, FeederFillsSource
      <3>2. Intact(j) /\ feeder[j].pc = "write"
        BY <2>3, FeederFillsSource DEF FeederFills
      <3>3. Len(Source(j)') = Len(Source(j)) + some
        BY <3>1 DEF Filled
      <3>4. CASE some = feeder[j].left
        <4>1. feeder'[j].pc = "loop" /\ feeder'[j].write_size = 0
          BY <3>1, <3>4 DEF Filled
        <4>2. Fed(j)' = Size(j)
          <5>1. Fed(j) + feeder[j].left = Size(j)
            BY <1>1, <3>2 DEF Feeds
          <5>2. Read(j)' + Len(Source(j)') = Fed(j) + some
            BY <1>1, <2>1, <3>1, <3>3
          <5> QED BY <3>4, <5>1, <5>2
        <4> HIDE DEF Fed
        <4> QED BY <1>1, <4>1, <4>2 DEF Feeds
      <3>5. CASE some # feeder[j].left
        <4>1. /\ feeder'[j].pc = "write" /\ feeder'[j].to = <<j, "in">>
              /\ feeder'[j].left = feeder[j].left - some
              /\ feeder'[j].write_size = feeder[j].write_size
              /\ feeder'[j].current_pos = feeder[j].current_pos
          BY <3>1, <3>5 DEF Filled
        <4>2. /\ feeder[j].write_size = Size(j) /\ feeder[j].current_pos = 0
              /\ Fed(j) + feeder[j].left = Size(j)
          BY <1>1, <3>2 DEF Feeds
        <4>3. Fed(j) \in Nat /\ some \in Nat /\ some <= feeder[j].left
          BY <1>1
        <4>4. Fed(j)' = Fed(j) + some
          <5>1. Read(j)' + Len(Source(j)') = Read(j) + Len(Source(j)) + some
            BY <1>1, <2>1, <3>3, <4>3
          <5> QED BY <5>1
        <4> HIDE DEF Fed
        <4>5. /\ Fed(j)' + feeder'[j].left = Size(j)
              /\ feeder'[j].left > 0 /\ Fed(j)' <= Size(j)
          BY <1>1, <3>5, <4>1, <4>2, <4>3, <4>4
        <4> QED BY <4>1, <4>2, <4>5 DEF Feeds
      <3> QED BY <3>4, <3>5
    <2>4. CASE FeederBreaks(j)
      <3>1. Source(j)' = Source(j) /\ ~UsesInRx(j)
        BY <2>4, FeederBreaksOff DEF FeederBreaks, Source
      <3>2. IF ignoresSigpipe THEN feeder'[j].pc = "loop" ELSE feeder' = feeder
        BY <2>4, FeederBreaksOff
      <3> QED BY <1>1, <2>1, <3>1, <3>2 DEF Feeds
    <2>5. CASE FeederCloses(j) \/ FeederForgets(j)
      <3>1. /\ Source(j)' = Source(j)
            /\ \/ /\ feeder[j].pc = "loop" /\ feeder[j].write_size = 0
                  /\ feeder'[j].pc = "forget"
               \/ feeder[j].pc = "forget" /\ feeder'[j].pc = "ended"
        BY <1>1, <2>5 DEF FeederCloses, FeederForgets, Source, TypeInv, FeederType
      <3> QED BY <1>1, <2>1, <3>1 DEF Feeds
    <2> QED BY <1>5, <2>2, <2>3, <2>4, <2>5 DEF Feeder
  <1> QED BY <1>2, <1>3, <1>4, <1>5

(* The parser has seen a syntax error when it has scanned the byte of it. *)
LEMMA GivesUpMeans ==
  ASSUME IInv, NEW j \in Job
  PROVE  GivesUp(j) <=> GaveUp(j)
  <1>1. /\ BytesInOrder(j) /\ DOMAIN parser[j].read = 1 .. Read(j)
        /\ Read(j) \in Nat /\ Scanned(j) \in Nat /\ Scanned(j) <= Read(j)
    BY PartsOf, LenProperties DEF IInv, JobInv, Read, Scans
  <1>2. \A i \in 1 .. Scanned(j) : parser[j].read[i][2] = i
    BY <1>1 DEF BytesInOrder
  <1> QED BY <1>2 DEF GivesUp, GaveUp, Scanned

LEMMA ScansKept ==
  ASSUME IInv, NEW j \in Job, Compile(j) \/ Feeder(j) \/ Listener(j)
  PROVE  Scans(j)'
  <1>1. /\ TypeInv /\ Scans(j) /\ Feeds(j)
        /\ Size(j) \in Nat /\ Read(j) \in Nat /\ Len(Source(j)) \in Nat
        /\ Scanned(j) \in Nat /\ Jobs[j].bad \in Nat
    BY PartsOf, JobFacts DEF IInv, JobInv
  <1>2. CASE ParserReads(j)
    <2>1. PICK t \in 1 .. Len(Source(j)) : Read(j)' = Read(j) + t
      BY <1>2, ParserTakes
    <2>2. Scanned(j)' = Scanned(j)
      BY <1>2, ParserTakes
    <2>3. Read(j) # Size(j) /\ Read(j) + t <= Size(j)
      BY <1>1, <2>1 DEF Feeds, Fed
    <2>4. Scanned(j) > 0 => Asked(Scanned(j) - 1) <= Read(j) + t
      <3>1. Asked(Scanned(j) - 1) \in Int
        BY <1>1, Sizes DEF Asked
      <3> QED BY <1>1, <2>1, <2>3, <3>1 DEF Scans
    <2> QED BY <1>1, <2>1, <2>2, <2>4 DEF Scans
  <1>3. CASE ParserScans(j)
    <2>1. /\ Read(j)' = Read(j) /\ Scanned(j)' = Scanned(j) + 1
          /\ Scanned(j) + 1 <= Read(j)
          /\ Read(j) = Size(j) \/ Read(j) >= Asked(Scanned(j))
      BY <1>3, ParserPasses DEF Read
    <2>2. Jobs[j].bad # 0 => Scanned(j) + 1 <= Jobs[j].bad
      <3>1. ~(Jobs[j].bad \in 1 .. Scanned(j))
        BY <1>3, GivesUpMeans DEF ParserScans, Parses, GaveUp
      <3> QED BY <1>1, <3>1
    <2>3. (Scanned(j) + 1) - 1 = Scanned(j)
      BY <1>1
    <2> QED BY <2>1, <2>2, <2>3 DEF Scans
  <1>4. CASE ~ParserReads(j) /\ ~ParserScans(j)
    <2>1. Read(j)' = Read(j) /\ Scanned(j)' = Scanned(j)
      BY <1>4, BytesStay, ParserPuts DEF Read
    <2> QED BY <1>1, <2>1 DEF Scans
  <1> QED BY <1>2, <1>3, <1>4

LEMMA StopsKept ==
  ASSUME IInv, NEW j \in Job, Compile(j) \/ Feeder(j) \/ Listener(j)
  PROVE  Stops(j)'
  <1>1. /\ TypeInv /\ Stops(j) /\ Threads(j) /\ Feeds(j)
        /\ Size(j) \in Nat /\ Read(j) \in Nat /\ Len(Source(j)) \in Nat
        /\ pc \in [Job -> Before \cup {"parse"} \cup Past \cup {"returned"}]
    BY PartsOf, JobFacts DEF IInv, JobInv, TypeInv
  <1> USE DEF Stops, Parsed, Past, GaveUp
  <1>2. CASE ParserReads(j) \/ ParserScans(j) \/ ParserEchoes(j)
    BY <1>2 DEF ParserReads, ParserScans, Parses, ParserEchoes
  <1>3. CASE ParserEnds(j)
    <2>1. /\ parser' = parser /\ feeder' = feeder /\ pc[j] = "parse"
          /\ parser[j].echo < EchoSize
          /\ GivesUp(j) \/ (AtEnd(<<j, "in">>) /\ Scanned(j) = Read(j))
      BY <1>3, OwnPipes DEF ParserEnds, envVars, Scanned, Read
    <2>2. CASE AtEnd(<<j, "in">>) /\ Scanned(j) = Read(j)
      BY <2>1, <2>2, SourceEnds DEF Scanned
    <2>3. CASE GivesUp(j)
      BY <2>1, <2>3, GivesUpMeans DEF Scanned
    <2> QED BY <2>1, <2>2, <2>3
  <1>4. CASE /\ Compile(j)
             /\ ~ParserReads(j) /\ ~ParserScans(j) /\ ~ParserEchoes(j) /\ ~ParserEnds(j)
    <2>1. Scanned(j)' = Scanned(j) /\ parser'[j].echo = parser[j].echo
      BY <1>4, BytesStay
    <2>2. Parsed(j)' => Parsed(j) /\ feeder' = feeder
      BY <1>1, <1>4 DEF Compile, Lock, PipeIn, PipeOut, PipeFails, Detach, CloseOut,
         CloseIn, CloseInAgain, ForgetIn, Return, Goes, Threads, Before
    <2> QED BY <1>1, <2>1, <2>2
  <1>5. CASE Feeder(j)
    <2>1. pc' = pc /\ parser' = parser /\ feeder[j].pc # "none"
      BY <1>5, FeederMoves
    <2>2. feeder[j].pc \in {"forget", "ended"} => feeder'[j].pc \in {"forget", "ended"}
      BY <1>5, FeederMoves
    <2> QED BY <1>1, <2>1, <2>2 DEF Scanned
  <1>6. CASE Listener(j)
    BY <1>1, <1>6 DEF Listener, ListenerStarts, ListenerReads, ListenerCompletes,
       ListenerCloses, ListenerForgets, Scanned
  <1> QED BY <1>2, <1>3, <1>4, <1>5, <1>6

LEMMA CollectsKept ==
  ASSUME IInv, NEW j \in Job, Compile(j) \/ Feeder(j) \/ Listener(j)
  PROVE  Collects(j)'
  <1>1. /\ TypeInv /\ Collects(j) /\ Threads(j) /\ Feeds(j)
        /\ Echoed(j) \in Nat /\ Len(Echo(j)) \in Nat
        /\ parser[j].echo \in Nat /\ parser[j].flushed \in Nat
        /\ listener[j].outputData \in Nat
        /\ pc \in [Job -> Before \cup {"parse"} \cup Past \cup {"returned"}]
        /\ listener \in [Job -> ListenerType]
        /\ outputDataComplete \in [Env -> BOOLEAN] /\ stdOut \in [Env -> Nat]
        /\ EnvOf(j) \in Env
    BY PartsOf, JobFacts, TokensCounted DEF IInv, JobInv, TypeInv, Echoed
  <1>2. CASE ParserReads(j)
    <2>1. /\ pc' = pc /\ listener' = listener /\ stdOut' = stdOut
          /\ outputDataComplete' = outputDataComplete /\ pc[j] = "parse"
      BY <1>2 DEF ParserReads, Parses, envVars
    <2>2. /\ parser'[j].flushed = parser[j].flushed /\ Echo(j)' = Echo(j)
          /\ parser'[j].echo = parser[j].echo /\ Echoed(j)' = Echoed(j)
      BY <1>2, ParserTakes DEF Echoed
    <2>3. listener[j].pc \notin {"close", "forget", "ended"}
      BY <1>1, <2>1 DEF Collects, Past
    <2> QED BY <1>1, <2>1, <2>2, <2>3 DEF Collects
  <1>3. CASE ParserEchoes(j)
    <2>1. /\ pc' = pc /\ listener' = listener /\ stdOut' = stdOut
          /\ outputDataComplete' = outputDataComplete /\ pc[j] = "parse"
      BY <1>3 DEF ParserEchoes, envVars
    <2>2. PICK n \in 1 .. parser[j].echo :
             /\ Len(Echo(j)') = Len(Echo(j)) + n
             /\ parser'[j].echo = parser[j].echo - n
             /\ parser'[j].flushed = parser[j].flushed + n
      BY <1>3, ParserPuts
    <2>3. Echoed(j)' = Echoed(j) /\ n \in Nat
      <3>1. Scanned(j)' = Scanned(j)
        BY <1>3, ParserPuts
      <3> QED BY <1>1, <3>1 DEF Echoed
    <2>4. listener[j].pc \notin {"close", "forget", "ended"}
      BY <1>1, <2>1 DEF Collects, Past
    <2>5. parser'[j].flushed + parser'[j].echo = Echoed(j)'
      BY <1>1, <2>2, <2>3 DEF Collects
    <2>6. listener[j].pc \in {"none", "start", "read"} =>
             parser'[j].flushed = listener'[j].outputData + Len(Echo(j)')
      BY <1>1, <2>1, <2>2, <2>3 DEF Collects
    <2> QED BY <1>1, <2>1, <2>4, <2>5, <2>6 DEF Collects
  <1>4. CASE Compile(j) /\ ~ParserReads(j) /\ ~ParserScans(j) /\ ~ParserEchoes(j)
    <2>1. /\ Echoed(j)' = Echoed(j) /\ parser'[j].echo = parser[j].echo
          /\ parser'[j].flushed = parser[j].flushed /\ Echo(j)' = Echo(j)
      <3>1. pipes' = pipes
        BY <1>4 DEF Compile, Lock, PipeIn, PipeOut, PipeFails, Detach,
           CloseOut, CloseIn, CloseInAgain, ForgetIn, Return, ParserEnds
      <3> QED BY <1>4, <3>1, BytesStay DEF Echoed, Echo
    <2>2. CASE Detach(j)
      <3>1. pc[j] = "detach" /\ listener[j].pc = "none"
        BY <1>1, <2>2 DEF Detach, Threads, Before
      <3>2. /\ listener'[j].pc = "start"
            /\ listener'[j].outputData = listener[j].outputData
            /\ stdOut' = stdOut /\ outputDataComplete' = outputDataComplete
        BY <1>1, <2>2 DEF Detach, ListenerType, envVars
      <3> QED BY <1>1, <2>1, <3>1, <3>2 DEF Collects
    <2>3. CASE Lock(j)
      <3>1. /\ listener[j].pc = "none" /\ listener' = listener
            /\ stdOut'[EnvOf(j)] = 0 /\ outputDataComplete' = outputDataComplete
        BY <1>1, <2>3 DEF Lock, Threads, Before
      <3> QED BY <1>1, <2>1, <3>1 DEF Collects
    <2>4. CASE ~Detach(j) /\ ~Lock(j)
      <3>1. /\ listener' = listener /\ stdOut' = stdOut
            /\ outputDataComplete' = outputDataComplete
            /\ pc[j] \in Past \cup {"returned"} /\ pc[j] # "closeOut" =>
                 pc'[j] \in Past \cup {"returned"} /\ pc'[j] # "closeOut"
        BY <1>1, <1>4, <2>4 DEF Compile, PipeIn, PipeOut, PipeFails, CloseOut, CloseIn,
           CloseInAgain, ForgetIn, Return, ParserEnds, Goes, Past, envVars
      <3> QED BY <1>1, <2>1, <3>1 DEF Collects
    <2> QED BY <2>2, <2>3, <2>4
  <1>5. CASE Feeder(j)
    BY <1>1, <1>5, FeederMoves DEF Collects, Echoed, Scanned
  <1>6. CASE ListenerReads(j)
    <2>1. /\ pc' = pc /\ parser' = parser /\ stdOut' = stdOut
          /\ outputDataComplete' = outputDataComplete /\ listener[j].pc = "read"
      BY <1>6 DEF ListenerReads, envVars
    <2> QED BY <1>1, <1>6, <2>1, ListenerTakes DEF Collects, Echoed, Scanned
  <1>7. CASE ListenerCompletes(j)
    <2>1. AtEnd(<<j, "out">>) /\ listener[j].pc = "read"
      BY <1>7, OwnPipes DEF ListenerCompletes, UsesOutRx
    <2>2. ~UsesOutTx(j)
      <3>1. ~Failed(j)
        BY <1>1, <2>1 DEF Failed, Threads
      <3> QED BY <2>1, <3>1, HeldMeansUsed DEF AtEnd
    <2>3. pc[j] \in Past \cup {"returned"} /\ pc[j] # "closeOut"
      BY <1>1, <2>1, <2>2 DEF UsesOutTx, Threads, Before
    <2>4. Len(Echo(j)) = 0
      BY <2>1, EmptySeq DEF AtEnd, Echo
    <2>5. /\ pc' = pc /\ parser' = parser /\ listener'[j].pc = "close"
          /\ stdOut'[EnvOf(j)] = stdOut[EnvOf(j)] + listener[j].outputData
      BY <1>1, <1>7 DEF ListenerCompletes, ListenerType
    <2> QED BY <1>1, <2>1, <2>3, <2>4, <2>5 DEF Collects, Echoed, Scanned
  <1>8. CASE ListenerStarts(j)
    <2>1. /\ pc' = pc /\ parser' = parser /\ stdOut' = stdOut
          /\ ~outputDataComplete'[EnvOf(j)] /\ listener[j].pc = "start"
          /\ listener'[j].pc = "read" /\ Echo(j)' = Echo(j)
          /\ listener'[j].outputData = listener[j].outputData
      BY <1>1, <1>8 DEF ListenerStarts, ListenerType, Echo
    <2> QED BY <1>1, <2>1 DEF Collects, Echoed, Scanned
  <1>9. CASE ListenerCloses(j) \/ ListenerForgets(j)
    <2>1. /\ pc' = pc /\ parser' = parser /\ stdOut' = stdOut
          /\ listener[j].pc \in {"close", "forget"}
          /\ listener'[j].pc \in {"forget", "ended"}
      BY <1>1, <1>9 DEF ListenerCloses, ListenerForgets, ListenerType, envVars
    <2> QED BY <1>1, <2>1 DEF Collects, Echoed, Scanned
  <1>10. CASE ParserScans(j)
    <2>1. /\ pc' = pc /\ listener' = listener /\ stdOut' = stdOut
          /\ outputDataComplete' = outputDataComplete /\ pc[j] = "parse"
      BY <1>10 DEF ParserScans, Parses, envVars
    <2>2. /\ parser'[j].flushed = parser[j].flushed /\ Echo(j)' = Echo(j)
          /\ parser'[j].echo = parser[j].echo +
                (IF Scanned(j) + 1 \in Jobs[j].silent THEN 0 ELSE 1)
          /\ Scanned(j)' = Scanned(j) + 1
      BY <1>10, ParserPasses
    <2>3. Echoed(j)' = Echoed(j) + (IF Scanned(j) + 1 \in Jobs[j].silent THEN 0 ELSE 1)
      <3>1. Scanned(j) \in Nat
        BY <1>1, PartsOf
      <3> QED BY <2>2, <3>1, TokensCounted DEF Echoed
    <2>4. listener[j].pc \notin {"close", "forget", "ended"}
      BY <1>1, <2>1 DEF Collects, Past
    <2>5. parser'[j].flushed + parser'[j].echo = Echoed(j)'
      BY <1>1, <2>2, <2>3 DEF Collects
    <2> QED BY <1>1, <2>1, <2>2, <2>4, <2>5 DEF Collects
  <1> QED BY <1>2, <1>3, <1>4, <1>5, <1>6, <1>7, <1>8, <1>9, <1>10 DEF Listener

(* A step of one compile keeps its own part of the invariant. *)
LEMMA OwnKept ==
  ASSUME IInv, NEW j \in Job, Compile(j) \/ Feeder(j) \/ Listener(j)
  PROVE  JobInv(j)'
  <1>1. Keeps(j)' /\ HoldsNoMore(j)' /\ Numbers(j)'
    <2>1. CASE Compile(j)
      BY <2>1, CompileEndsStay, EndsOpen, EndsClose DEF Compile
    <2>2. CASE Feeder(j)
      BY <2>2, HelperEndsStay, EndsClose DEF Feeder
    <2>3. CASE Listener(j)
      BY <2>3, HelperEndsStay, EndsClose DEF Listener
    <2> QED BY <2>1, <2>2, <2>3
  <1> QED BY <1>1, ThreadsKept, BytesKept, FeedsKept, ScansKept, StopsKept, CollectsKept
          DEF JobInv

-----------------------------------------------------------------------------
(* The invariant *)

LEMMA InvInit == Init => IInv
  <1> SUFFICES ASSUME Init PROVE IInv
    OBVIOUS
  <1>1. TypeInv
    <2>1. \A j \in Job : <<j, "in">> \in Pipes
      BY JobFacts
    <2>2. /\ fd \in [FD -> End] /\ pipes \in [Pipes -> Seq(Byte)]
          /\ stdin_pipe \in [Env -> [rx : Number, tx : Number]]
          /\ stdout_pipe \in [Env -> [rx : Number, tx : Number]]
      <3>1. <<>> \in Seq(Byte)
        BY EmptySeq
      <3> QED BY <3>1 DEF Init, End, Pipes, Number
    <2>3. parser \in [Job -> ParserType]
      <3>1. <<>> \in Seq(Byte)
        BY EmptySeq
      <3> QED BY <3>1 DEF Init, ParserType, Number
    <2>4. feeder \in [Job -> FeederType] /\ listener \in [Job -> ListenerType]
      BY <2>1 DEF Init, FeederType, ListenerType
    <2> QED BY <2>2, <2>3, <2>4 DEF Init, TypeInv, Before
  <1>2. InOrder
    BY DEF Init, InOrder
  <1>3. ASSUME NEW j \in Job PROVE JobInv(j)
    <2>1. /\ pc[j] = "idle" /\ feeder[j].pc = "none" /\ listener[j].pc = "none"
          /\ feeder[j].current_pos = 0 /\ listener[j].outputData = 0
          /\ parser[j].read = <<>> /\ parser[j].echo = 0 /\ parser[j].flushed = 0
          /\ Scanned(j) = 0
          /\ stdOut[EnvOf(j)] = 0 /\ ~outputDataComplete[EnvOf(j)]
          /\ Source(j) = <<>> /\ Echo(j) = <<>>
      BY JobFacts DEF Init, Source, Echo, Pipes, Scanned
    <2>2. Len(parser[j].read) = 0 /\ Len(Source(j)) = 0 /\ Len(Echo(j)) = 0
      BY <2>1, EmptySeq
    <2>3. Threads(j) /\ Keeps(j) /\ Numbers(j)
      BY <2>1 DEF Threads, Keeps, Numbers, Before, Past, UsesInRx, UsesInTx,
         UsesOutRx, UsesOutTx
    <2>4. HoldsNoMore(j)
      <3>1. \A n \in FD : fd[n] = Closed
        BY DEF Init
      <3> QED BY <3>1, EndsDiffer DEF HoldsNoMore
    <2>5. BytesInOrder(j)
      BY <2>2 DEF BytesInOrder, Read
    <2>6. Feeds(j)
      <3>1. Fed(j) = 0 /\ Fed(j) <= Size(j)
        <4>1. Size(j) \in Nat
          BY JobFacts
        <4>2. Read(j) + Len(Source(j)) = 0
          BY <2>2 DEF Read
        <4> QED BY <4>1, <4>2 DEF Fed
      <3> QED BY <2>1, <3>1 DEF Feeds
    <2>7. Stops(j)
      BY <2>1 DEF Stops, Parsed, Past
    <2>8. Collects(j)
      <3>1. Echoed(j) = 0
        BY <2>1, TokensCounted DEF Echoed
      <3> QED BY <2>1, <2>2, <3>1 DEF Collects
    <2>9. Scans(j)
      <3>1. Scanned(j) = 0 /\ Read(j) = 0 /\ Jobs[j].bad \in Nat
        BY <2>1, <2>2, JobFacts DEF Read, Scanned
      <3> QED BY <3>1 DEF Scans
    <2> QED BY <2>3, <2>4, <2>5, <2>6, <2>7, <2>8, <2>9 DEF JobInv
  <1> QED BY <1>1, <1>2, <1>3 DEF IInv

(* A compile begins when all before it have returned, and returns once. *)
LEMMA OrderKept ==
  ASSUME OneThread, IInv, NEW j \in Job, Compile(j) \/ Feeder(j) \/ Listener(j)
  PROVE  InOrder'
  <1>1. InOrder /\ pc \in [Job -> Before \cup {"parse"} \cup Past \cup {"returned"}]
    BY DEF IInv, TypeInv
  <1>2. pc[j] = "returned" => pc'[j] = "returned"
    <2>1. CASE Compile(j)
      BY <2>1, CompileMoves
    <2>2. CASE Feeder(j) \/ Listener(j)
      BY <2>2, FeederMoves DEF Listener, ListenerStarts, ListenerReads,
         ListenerCompletes, ListenerCloses, ListenerForgets
    <2> QED BY <2>1, <2>2
  <1>3. pc[j] # "idle" \/ pc'[j] = "idle" \/ Lock(j)
    BY FeederMoves DEF Compile, Listener, PipeIn, PipeOut, PipeFails, Detach,
       ParserReads, ParserScans, Parses, ParserEchoes, ParserEnds, CloseOut, CloseIn, CloseInAgain,
       ForgetIn, Return, ListenerStarts, ListenerReads, ListenerCompletes,
       ListenerCloses, ListenerForgets
  <1>4. \A i \in Job \ {j} : pc'[i] = pc[i]
    BY OthersStep DEF LeavesOthers
  <1> SUFFICES ASSUME NEW i \in Job, NEW k \in Job, i < k, pc'[k] # "idle"
               PROVE  pc'[i] = "returned"
    BY DEF InOrder
  <1>5. CASE pc[k] # "idle"
    BY <1>1, <1>2, <1>4, <1>5 DEF InOrder
  <1>6. CASE pc[k] = "idle"
    <2>1. k = j /\ Lock(j)
      BY <1>3, <1>4, <1>6
    <2>2. i \in 1 .. j - 1 /\ i # j
      <3>1. Jobs \in Seq(JobType)
        BY PipesAssumption DEF JobType
      <3>2. Len(Jobs) \in Nat /\ Job = 1 .. Len(Jobs)
        BY <3>1, LenProperties DEF Job
      <3> QED BY <2>1, <3>2
    <2>3. pc[i] = "returned"
      BY <2>1, <2>2 DEF Lock, OneThread
    <2> QED BY <1>4, <2>2, <2>3
  <1> QED BY <1>5, <1>6

LEMMA InvJob ==
  ASSUME OneThread, IInv, NEW j \in Job, Compile(j) \/ Feeder(j) \/ Listener(j)
  PROVE  IInv'
  <1>1. TypeInv'
    BY CompileTypes, FeederTypes, ListenerTypes DEF IInv
  <1>2. InOrder'
    BY OrderKept
  <1>3. ASSUME NEW i \in Job, i # j PROVE JobInv(i)'
    BY <1>3, OthersKeep, OthersStep, TableStep, SigpipeStays
  <1>4. JobInv(j)'
    BY OwnKept
  <1> QED BY <1>1, <1>2, <1>3, <1>4 DEF IInv

LEMMA InvStays == IInv /\ UNCHANGED vars => IInv'
  <1> SUFFICES ASSUME IInv, UNCHANGED vars PROVE IInv'
    OBVIOUS
  <1> USE DEF vars, envVars
  <1>1. TypeInv' /\ InOrder'
    BY DEF IInv, TypeInv, InOrder
  <1>2. ASSUME NEW j \in Job PROVE JobInv(j)'
    <2>1. JobInv(j)
      BY DEF IInv
    <2>2. Threads(j)' /\ Keeps(j)' /\ HoldsNoMore(j)' /\ Numbers(j)'
      BY <2>1 DEF JobInv, Threads, Keeps, HoldsNoMore, Numbers, Is, Stdin, Stdout,
         UsesInRx, UsesInTx, UsesOutRx, UsesOutTx, Failed
    <2>3. BytesInOrder(j)' /\ Feeds(j)'
      BY <2>1 DEF JobInv, BytesInOrder, Feeds, Read, Fed, Source, UsesInRx, Intact
    <2>4. Scans(j)' /\ Stops(j)'
      BY <2>1 DEF JobInv, Scans, Stops, Read, Parsed, GaveUp, Scanned
    <2>5. Collects(j)'
      BY <2>1 DEF JobInv, Collects, Echo, Scanned, Echoed
    <2> QED BY <2>2, <2>3, <2>4, <2>5 DEF JobInv
  <1> QED BY <1>1, <1>2 DEF IInv

LEMMA InvStep ==
  ASSUME OneThread
  PROVE  IInv /\ [Next]_vars => IInv'
  BY InvJob, InvStays DEF Next, Over

(* The invariant holds in every behaviour in which one thread compiles. *)
THEOREM PipesInvariant ==
  ASSUME OneThread
  PROVE  Spec => []IInv
  BY InvInit, InvStep, PTL DEF Spec

-----------------------------------------------------------------------------
(* What callers rely on *)

(* The parser of a compile reads the bytes of its own source, each once    *)
(* and in order, up to the end or a syntax error. *)
THEOREM SourceIsRead ==
  ASSUME OneThread
  PROVE  Spec => []ReadsOwnSource
  <1>1. IInv => ReadsOwnSource
    <2> SUFFICES ASSUME IInv, NEW j \in Job
                 PROVE  /\ \A i \in DOMAIN parser[j].read : parser[j].read[i] = <<j, i>>
                        /\ pc[j] \in Past => parser[j].scanned = Size(j) \/ GivesUp(j)
      BY DEF ReadsOwnSource, Past
    <2>1. BytesInOrder(j) /\ Stops(j) /\ DOMAIN parser[j].read = 1 .. Read(j)
      BY PartsOf, LenProperties DEF IInv, JobInv, Read
    <2> QED BY <2>1, GivesUpMeans DEF BytesInOrder, Stops, Parsed, Scanned
  <1> QED BY <1>1, PipesInvariant, PTL

(* compile answers with all the echo its own parser wrote. *)
THEOREM OutputIsReturned ==
  ASSUME OneThread
  PROVE  Spec => []ReturnsOwnOutput
  <1>1. IInv => ReturnsOwnOutput
    <2> SUFFICES ASSUME IInv, NEW j \in Job, pc[j] = "wait", outputDataComplete[EnvOf(j)]
                 PROVE  stdOut[EnvOf(j)] = parser[j].flushed
      BY DEF ReturnsOwnOutput
    <2>1. Collects(j) /\ listener[j] \in ListenerType
      BY TypesOf DEF IInv, JobInv
    <2> QED BY <2>1 DEF Collects, ListenerType
  <1> QED BY <1>1, PipesInvariant, PTL

(* When a compile and its threads are over, it holds no descriptor. *)
THEOREM DescriptorsAreReturned ==
  ASSUME OneThread
  PROVE  Spec => []DescriptorsReturned
  <1>1. IInv => DescriptorsReturned
    <2> SUFFICES ASSUME IInv, NEW j \in Job, pc[j] = "returned",
                        feeder[j].pc = "ended", listener[j].pc = "ended",
                        NEW n \in FD, fd[n].job = j
                 PROVE  FALSE
      BY DEF DescriptorsReturned
    <2>1. HoldsNoMore(j) /\ fd[n] \in End /\ j # None
      BY JobFacts DEF IInv, JobInv, TypeInv
    <2>2. fd[n] # Closed
      BY <2>1 DEF Closed
    <2>3. PICK name \in {"in", "out"}, end \in {"rx", "tx"} : fd[n] = EndOf(j, name, end)
      BY <2>1, <2>2 DEF End, EndOf
    <2> QED BY <2>1, <2>3 DEF HoldsNoMore, UsesInRx, UsesInTx, UsesOutRx, UsesOutTx,
            Failed
  <1> QED BY <1>1, PipesInvariant, PTL

(* No thread closes a descriptor that another compile has opened under the *)
(* same number. *)
THEOREM OwnDescriptorsAreClosed ==
  ASSUME OneThread
  PROVE  Spec => ClosesOwnDescriptors
  <1>1. ASSUME IInv, NEW j \in Job, Compile(j) \/ Feeder(j) \/ Listener(j)
        PROVE  ClosesOwn
    <2>1. UsesTable(j) /\ LeavesOthers(j)
      BY <1>1, TableStep, OthersStep
    <2> QED BY <2>1 DEF UsesTable, LeavesOthers, ClosesOwn
  <1>2. IInv /\ [Next]_vars => [ClosesOwn]_vars
    BY <1>1 DEF Next, Over
  <1>3. IInv /\ [Next]_vars => IInv'
    BY InvStep
  <1> QED BY <1>2, <1>3, InvInit, PTL DEF Spec, ClosesOwnDescriptors

-----------------------------------------------------------------------------
(* The abstract compile *)

(* What UMCompilation sees of a compile. *)
Seen(j) ==
    /\ phase[j] = IF pc[j] = "idle" THEN "idle"
                  ELSE IF pc[j] # "returned" THEN "compiling"
                  ELSE IF feeder[j].pc = "none" THEN "failed" ELSE "answered"
    /\ bytes[j] = Scanned(j)
    /\ output[j] = IF phase[j] = "answered" THEN stdOut[EnvOf(j)] ELSE 0

LEMMA AllSeen == \A j \in Job : Seen(j) /\ Seen(j)'
  <1> SUFFICES ASSUME NEW j \in Job PROVE Seen(j) /\ Seen(j)'
    OBVIOUS
  <1>1. Seen(j)
    BY DEF Seen, phase, bytes, output, Scanned
  <1>2. Seen(j)'
    BY DEF Seen, phase, bytes, output, Scanned
  <1> QED BY <1>1, <1>2

(* A step of one compile changes what is seen of that one. *)
LEMMA SeenChanges ==
  ASSUME NEW j \in Job, LeavesOthers(j)
  PROVE  /\ phase' = [phase EXCEPT ![j] = phase'[j]]
         /\ bytes' = [bytes EXCEPT ![j] = bytes'[j]]
         /\ output' = [output EXCEPT ![j] = output'[j]]
  <1>1. \A i \in Job \ {j} :
           phase'[i] = phase[i] /\ bytes'[i] = bytes[i] /\ output'[i] = output[i]
    BY AllSeen DEF LeavesOthers, Seen, Scanned
  <1>2. /\ phase = [i \in Job |-> phase[i]] /\ phase' = [i \in Job |-> phase'[i]]
        /\ bytes = [i \in Job |-> bytes[i]] /\ bytes' = [i \in Job |-> bytes'[i]]
        /\ output = [i \in Job |-> output[i]] /\ output' = [i \in Job |-> output'[i]]
    BY DEF phase, bytes, output
  <1> QED BY <1>1, <1>2

(* Where the parser stops is where the source ends for UMCompilation. *)
LEMMA EndReached ==
  ASSUME IInv, NEW j \in Job
  PROVE  /\ GaveUp(j) => Jobs[j].bad # 0 /\ Scanned(j) = Abstract!End(j)
         /\ Scanned(j) = Size(j) => Scanned(j) = Abstract!End(j)
         /\ ~GaveUp(j) /\ Scanned(j) < Size(j) => Scanned(j) + 1 <= Abstract!End(j)
         /\ Abstract!End(j) \in Nat
  <1>1. /\ Scans(j) /\ Scanned(j) \in Nat /\ Jobs[j].bad \in Nat
        /\ Jobs[j].size \in Nat /\ Size(j) = Jobs[j].size /\ Jobs[j].bad <= Size(j)
    BY PartsOf, JobFacts DEF IInv, JobInv, Size
  <1> QED BY <1>1 DEF Abstract!End, GaveUp, Scans

LEMMA InitMaps == Init => Abstract!Init
  <1> SUFFICES ASSUME Init PROVE Abstract!Init
    OBVIOUS
  <1>1. \A j \in Job : phase[j] = "idle" /\ bytes[j] = 0 /\ output[j] = 0
    BY AllSeen, EmptySeq DEF Init, Seen, Scanned
  <1> QED BY <1>1 DEF Init, Abstract!Init, Abstract!Job, Job, phase, bytes, output

LEMMA CompileMaps ==
  ASSUME OneThread, IInv, NEW j \in Job, Compile(j)
  PROVE  /\ killed' = killed
         /\ Abstract!Compile(j) \/ UNCHANGED <<phase, bytes, output>>
  <1>1. /\ TypeInv /\ Threads(j) /\ Feeds(j) /\ Scans(j) /\ Stops(j) /\ Collects(j)
        /\ Scanned(j) \in Nat /\ Read(j) \in Nat /\ Len(Source(j)) \in Nat /\ Size(j) \in Nat
        /\ parser[j].echo \in Nat /\ parser[j].flushed \in Nat
        /\ listener[j] \in ListenerType
        /\ pc \in [Job -> Before \cup {"parse"} \cup Past \cup {"returned"}]
    BY PartsOf, TypesOf, JobFacts DEF IInv, JobInv, TypeInv
  <1>2. LeavesOthers(j)
    BY OthersStep
  <1>3. /\ phase' = [phase EXCEPT ![j] = phase'[j]]
        /\ bytes' = [bytes EXCEPT ![j] = bytes'[j]]
        /\ output' = [output EXCEPT ![j] = output'[j]]
    BY <1>2, SeenChanges
  <1>4. /\ phase = [phase EXCEPT ![j] = phase[j]] /\ bytes = [bytes EXCEPT ![j] = bytes[j]]
        /\ output = [output EXCEPT ![j] = output[j]]
    BY DEF phase, bytes, output
  <1>5. Seen(j) /\ Seen(j)'
    BY AllSeen
  <1>6. killed' = killed
    BY DEF Compile, Lock, PipeIn, PipeOut, PipeFails, Detach, ParserReads,
       ParserScans, ParserEchoes, ParserEnds, CloseOut, CloseIn, CloseInAgain, ForgetIn, Return
  <1>7. ~ParserScans(j) => Scanned(j)' = Scanned(j)
    BY BytesStay, ParserTakes, ParserPuts
  <1>8. CASE Lock(j)
    <2>1. pc[j] = "idle" /\ pc'[j] = "pipeIn" /\ ~ParserScans(j)
      BY <1>1, <1>8 DEF Lock, Goes, ParserScans, Parses
    <2>2. phase[j] = "idle" /\ phase'[j] = "compiling"
          /\ bytes'[j] = bytes[j] /\ output'[j] = output[j]
      BY <1>5, <1>7, <2>1 DEF Seen
    <2>3. ASSUME NEW i \in Job
          PROVE  /\ Jobs[i].caller = Jobs[j].caller /\ i < j => Abstract!Ended(i)
                 /\ Jobs[i].env = Jobs[j].env => phase[i] # "compiling"
      <3>1. i < j => i \in 1 .. j - 1
        <4>1. Jobs \in Seq(JobType)
          BY PipesAssumption DEF JobType
        <4>2. Len(Jobs) \in Nat /\ Job = 1 .. Len(Jobs)
          BY <4>1, LenProperties DEF Job
        <4> QED BY <4>2
      <3>2. Jobs[i].caller = Jobs[j].caller /\ i < j => pc[i] = "returned"
        BY <1>8, <3>1 DEF Lock
      <3>3. pc[i] = "returned" => Abstract!Ended(i)
        BY AllSeen DEF Seen, Abstract!Ended
      <3>4. Jobs[i].env = Jobs[j].env => i = j
        BY DEF OneThread, EnvOf
      <3> QED BY <2>2, <3>2, <3>3, <3>4
    <2> QED BY <1>3, <1>4, <1>6, <2>2, <2>3
            DEF Abstract!Compile, Abstract!Begin, Abstract!Job, Job
  <1>9. CASE PipeFails(j)
    <2>1. /\ pc[j] \in {"pipeIn", "pipeOut"} /\ pc'[j] = "returned" /\ feeder' = feeder
          /\ feeder[j].pc = "none" /\ ~ParserScans(j)
      BY <1>1, <1>9 DEF PipeFails, Goes, ParserScans, Parses, Threads, Before
    <2>2. Scanned(j) = 0
      BY <1>1, <2>1 DEF Feeds, Fed, Scans
    <2>3. phase[j] = "compiling" /\ phase'[j] = "failed" /\ bytes[j] = 0
          /\ bytes'[j] = bytes[j] /\ output'[j] = output[j]
      BY <1>5, <1>7, <2>1, <2>2 DEF Seen
    <2> QED BY <1>3, <1>4, <1>6, <2>3 DEF Abstract!Compile, Abstract!Fail
  <1>10. CASE ParserScans(j)
    <2>1. pc' = pc /\ pc[j] = "parse" /\ ~GaveUp(j)
      BY <1>10, GivesUpMeans DEF ParserScans, Parses
    <2>2. Scanned(j)' = Scanned(j) + 1 /\ Scanned(j) + 1 <= Read(j)
      BY <1>10, ParserPasses
    <2>3. Scanned(j) < Size(j)
      <3>1. Read(j) + Len(Source(j)) <= Size(j)
        BY <1>1 DEF Feeds, Fed
      <3> QED BY <1>1, <2>2, <3>1
    <2>4. Scanned(j)' \in Scanned(j) + 1 .. Abstract!End(j)
      BY <1>1, <2>1, <2>2, <2>3, EndReached
    <2>5. /\ phase[j] = "compiling" /\ phase'[j] = phase[j] /\ output'[j] = output[j]
          /\ bytes'[j] \in bytes[j] + 1 .. Abstract!End(j)
      BY <1>5, <2>1, <2>4 DEF Seen
    <2> QED BY <1>3, <1>4, <1>6, <2>5 DEF Abstract!Compile, Abstract!Scan
  <1>11. CASE Return(j)
    <2>1. /\ pc[j] = "wait" /\ pc'[j] = "returned" /\ outputDataComplete[EnvOf(j)]
          /\ feeder' = feeder /\ stdOut' = stdOut /\ ~ParserScans(j)
      BY <1>1, <1>11 DEF Return, Goes, ParserScans, Parses
    <2>2. feeder[j].pc # "none" /\ Parsed(j)
      BY <1>1, <2>1 DEF Threads, Parsed, Past
    <2>3. stdOut[EnvOf(j)] = parser[j].flushed
      BY <1>1, <2>1 DEF Collects, ListenerType
    <2>4. Scanned(j) = Abstract!End(j)
      BY <2>2, <1>1, EndReached DEF Stops
    <2>5. /\ stdOut[EnvOf(j)] \in 0 .. Cardinality(Abstract!Tokens(j, Abstract!End(j)))
          /\ Cardinality(Abstract!Tokens(j, Abstract!End(j))) < stdOut[EnvOf(j)] + EchoSize
      <3>1. /\ parser[j].flushed + parser[j].echo = Echoed(j)
            /\ parser[j].echo < EchoSize
        BY <1>1, <2>2 DEF Collects, Stops
      <3>2. Cardinality(Abstract!Tokens(j, Abstract!End(j))) = Echoed(j)
        BY <2>4 DEF Abstract!Tokens, Echoed
      <3>3. /\ parser[j].flushed \in 0 .. Echoed(j)
            /\ Echoed(j) < parser[j].flushed + EchoSize
        BY <1>1, <3>1, Sizes
      <3> QED BY <2>3, <3>2, <3>3
    <2>6. /\ phase[j] = "compiling" /\ phase'[j] = "answered" /\ bytes'[j] = bytes[j]
          /\ output'[j] = stdOut[EnvOf(j)] /\ bytes[j] = Abstract!End(j)
      BY <1>5, <1>7, <2>1, <2>2, <2>4 DEF Seen
    <2>7. \A S : Abstract!Cardinality(S) = Cardinality(S)
      BY DEF Abstract!Cardinality, Cardinality
    <2> HIDE DEF Abstract!End, Abstract!Tokens
    <2> QED BY <2>7, <1>3, <1>4, <1>6, <2>5, <2>6 DEF Abstract!Compile, Abstract!Answer
  <1>12. CASE ~Lock(j) /\ ~PipeFails(j) /\ ~ParserScans(j) /\ ~Return(j)
    <2>1. pc[j] \notin {"idle", "returned"} /\ pc'[j] \notin {"idle", "returned"}
      BY <1>1, <1>12 DEF Compile, PipeIn, PipeOut, Detach, ParserReads, Parses,
         ParserEchoes, ParserEnds, CloseOut, CloseIn, CloseInAgain, ForgetIn, Goes
    <2>2. phase'[j] = phase[j] /\ bytes'[j] = bytes[j] /\ output'[j] = output[j]
      BY <1>5, <1>7, <1>12, <2>1 DEF Seen
    <2> QED BY <1>3, <1>4, <1>6, <2>2
  <1> QED BY <1>8, <1>9, <1>10, <1>11, <1>12

LEMMA HelpersMap ==
  ASSUME OneThread, IInv, NEW j \in Job, Feeder(j) \/ Listener(j)
  PROVE  /\ UNCHANGED <<phase, bytes, output>>
         /\ \/ killed' = killed
            \/ /\ killed' = TRUE
               /\ Jobs[j].bad # 0 /\ bytes[j] = Abstract!End(j)
               /\ Abstract!Asked(j) < Jobs[j].size
  <1>1. /\ TypeInv /\ Threads(j) /\ Feeds(j) /\ Scans(j) /\ Stops(j)
        /\ pc \in [Job -> Before \cup {"parse"} \cup Past \cup {"returned"}]
        /\ EnvOf(j) \in Env /\ stdOut \in [Env -> Nat]
    BY JobFacts DEF IInv, JobInv, TypeInv
  <1>2. /\ phase' = [phase EXCEPT ![j] = phase'[j]]
        /\ bytes' = [bytes EXCEPT ![j] = bytes'[j]]
        /\ output' = [output EXCEPT ![j] = output'[j]]
    BY OthersStep, SeenChanges
  <1>3. /\ phase = [phase EXCEPT ![j] = phase[j]] /\ bytes = [bytes EXCEPT ![j] = bytes[j]]
        /\ output = [output EXCEPT ![j] = output[j]]
    BY DEF phase, bytes, output
  <1>4. Seen(j) /\ Seen(j)'
    BY AllSeen
  <1>5. CASE Feeder(j)
    <2>1. /\ pc' = pc /\ parser' = parser /\ stdOut' = stdOut
          /\ feeder[j].pc # "none" /\ feeder'[j].pc # "none"
      BY <1>5, FeederMoves
    <2>2. phase'[j] = phase[j] /\ bytes'[j] = bytes[j] /\ output'[j] = output[j]
      BY <1>4, <2>1 DEF Seen, Scanned
    <2>3. CASE FeederBreaks(j)
      <3>1. feeder[j].pc = "write"
        BY <2>3 DEF FeederBreaks
      <3>2. CASE ignoresSigpipe
        BY <1>2, <1>3, <2>2, <2>3, <3>2 DEF FeederBreaks
      <3>3. CASE ~ignoresSigpipe
        <4>1. Parsed(j)
          BY <1>1, <2>3, <3>1, FeederBreaksOff DEF UsesInRx, Parsed, Threads, Before, Past
        <4>2. GaveUp(j)
          BY <1>1, <3>1, <4>1 DEF Stops
        <4>3. Jobs[j].bad # 0 /\ bytes[j] = Abstract!End(j) /\ Scanned(j) = Abstract!End(j)
          BY <1>4, <4>2, EndReached DEF Seen
        <4>4. Read(j) < Size(j)
          <5>1. Fed(j) + feeder[j].left = Size(j) /\ feeder[j].left > 0
            BY <1>1, <3>3, <3>1 DEF Feeds, Intact
          <5> QED BY <1>1, <5>1, PartsOf, JobFacts DEF Fed
        <4>5. Abstract!Asked(j) < Jobs[j].size
          <5>1. Scanned(j) > 0 /\ Read(j) \in Nat /\ Size(j) \in Nat
            <6>1. Scanned(j) \in Nat /\ Read(j) \in Nat /\ Size(j) \in Nat
              BY <1>1, PartsOf, JobFacts
            <6> QED BY <4>2, <6>1 DEF GaveUp
          <5>2. Read(j) >= Asked(Scanned(j) - 1)
            BY <1>1, <4>4, <5>1 DEF Scans
          <5>3. Asked(Scanned(j) - 1) = Abstract!Asked(j)
            BY <4>3 DEF Asked, Abstract!Asked
          <5>4. Asked(Scanned(j) - 1) \in Int
            BY <1>1, <5>1, PartsOf, Sizes DEF Asked
          <5> QED BY <4>4, <5>1, <5>2, <5>3, <5>4 DEF Size
        <4> QED BY <1>2, <1>3, <2>2, <2>3, <3>3, <4>3, <4>5 DEF FeederBreaks
      <3> QED BY <3>2, <3>3
    <2>4. CASE ~FeederBreaks(j)
      <3>1. killed' = killed
        BY <1>5, <2>4 DEF Feeder, FeederWrites, FeederFills, FeederCloses, FeederForgets
      <3> QED BY <1>2, <1>3, <2>2, <3>1
    <2> QED BY <2>3, <2>4
  <1>6. CASE Listener(j)
    <2>1. pc' = pc /\ parser' = parser /\ feeder' = feeder /\ killed' = killed
      BY <1>6 DEF Listener, ListenerStarts, ListenerReads, ListenerCompletes,
         ListenerCloses, ListenerForgets
    <2>2. pc[j] = "returned" /\ feeder[j].pc # "none" => stdOut' = stdOut
      BY <1>1, <1>6 DEF Listener, ListenerStarts, ListenerReads, ListenerCompletes,
         ListenerCloses, ListenerForgets, Threads, envVars
    <2>3. phase'[j] = phase[j] /\ bytes'[j] = bytes[j] /\ output'[j] = output[j]
      BY <1>4, <2>1, <2>2 DEF Seen, Scanned
    <2> QED BY <1>2, <1>3, <2>1, <2>3
  <1> QED BY <1>5, <1>6

LEMMA NextMaps ==
  ASSUME OneThread
  PROVE  IInv /\ [Next]_vars => [Abstract!Next]_Abstract!vars
  <1> SUFFICES ASSUME IInv, [Next]_vars PROVE [Abstract!Next]_Abstract!vars
    OBVIOUS
  <1>1. CASE UNCHANGED vars
    <2>1. UNCHANGED <<phase, bytes, output, killed>>
      BY <1>1 DEF vars, envVars, phase, bytes, output
    <2> QED BY <2>1 DEF Abstract!vars
  <1>2. ASSUME ~killed, NEW j \in Job, Compile(j)
        PROVE  [Abstract!Next]_Abstract!vars
    BY <1>2, CompileMaps DEF Abstract!Next, Abstract!vars, Abstract!Job, Job
  <1>3. ASSUME ~killed, NEW j \in Job, Feeder(j) \/ Listener(j)
        PROVE  [Abstract!Next]_Abstract!vars
    BY <1>3, HelpersMap DEF Abstract!Next, Abstract!vars, Abstract!Die, Abstract!Job, Job
  <1> QED BY <1>1, <1>2, <1>3 DEF Next, Over

(* compile, with its pipes, threads and shared descriptors, is a compile   *)
(* that scans its source to the end or a syntax error and answers with the *)
(* echo of the tokens, but for less than a buffer, whatever order its      *)
(* threads run in; and only a source that goes on behind a syntax error by *)
(* more than the scanner had asked for can end the process. *)
THEOREM CompilesAsPromised ==
  ASSUME OneThread
  PROVE  Spec => Abstract!Safety
  BY InitMaps, NextMaps, InvInit, InvStep, PTL DEF Spec, Abstract!Safety

=============================================================================

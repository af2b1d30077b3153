--------------------------- MODULE UMCompilerPipes ---------------------------
(***************************************************************************)
(* UMScriptCompilerEnvironment: compile:stdOut:stdErr: with the threads it *)
(* detaches.  The stdinFeeder writes the source into one pipe, the parser  *)
(* reads it there on the calling thread and echoes its tokens into another, *)
(* and the stdoutListener collects the echo.  Descriptors are numbers in a *)
(* table all threads of the process share, and are used again.             *)
(*                                                                         *)
(* A compile is a job.  The bytes of its source are numbered from 1, and   *)
(* whatever lies beside it in memory has the other numbers of the word.    *)
(* A read that fails for ever, as on a descriptor that was closed, is a    *)
(* thread that takes no more steps.                                        *)
(***************************************************************************)
EXTENDS Naturals, Sequences, FiniteSets

CONSTANTS
    Jobs,       \* the compiles: caller, environment, size of the source, the
                \* last byte the scanner looks at before the parser gives up
                \* (0: it does not), and the bytes that are not echoed:
                \* comments, bad characters, a byte after the last token
    MaxFDs,     \* bound: descriptors the process may have (EMFILE)
    PipeSize,   \* bound: bytes a pipe holds
    ReadSize,   \* bytes one read takes at most
    FillSize,   \* bytes the scanner asks for before it goes on
    EchoSize,   \* bytes of echo that stdio writes at a time
    Word        \* 2^w of size_t

Job == DOMAIN Jobs
FD == 1 .. MaxFDs
None == 0       \* the descriptor -1, and no job

ASSUME PipesAssumption ==
    /\ Jobs \in Seq([caller : Nat, env : Nat, size : Nat, bad : Nat,
                    silent : SUBSET Nat])
    /\ MaxFDs \in Nat
    /\ {PipeSize, ReadSize, FillSize, EchoSize, Word} \subseteq Nat \ {0}
    /\ \A j \in Job : Jobs[j].size + 1 < Word /\ Jobs[j].bad <= Jobs[j].size

Env == {Jobs[j].env : j \in Job}
EnvOf(j) == Jobs[j].env
Size(j) == Jobs[j].size

VARIABLES
    fd,             \* the descriptor table: an end of a job's pipe, or Closed
    pipes,          \* the bytes in each job's "in" and "out" pipe
    stdin_pipe,     \* of each environment
    stdout_pipe,
    outputDataComplete,
    stdOut,         \* of each environment: the number of echoed bytes
    lock,           \* _compileLock of each environment: its owner, or None
    pc,             \* where compile is in each job
    parser,         \* the bytes it read, how many of them the scanner is past,
                    \* the echo in its buffer, and its files
    feeder,         \* where stdinFeeder is, and its locals
    listener,       \* where stdoutListener is, and the bytes it collected
    ignoresSigpipe, \* does the process ignore SIGPIPE?
    killed          \* has the process been killed by it?

envVars == <<stdin_pipe, stdout_pipe, outputDataComplete, stdOut, lock>>
vars == <<fd, pipes, envVars, pc, parser, feeder, listener, ignoresSigpipe,
          killed>>

-----------------------------------------------------------------------------
(* Descriptors and pipes *)

Closed == [job |-> None, name |-> "none", end |-> "none"]
EndOf(j, name, end) == [job |-> j, name |-> name, end |-> end]

Free == {n \in FD : fd[n] = Closed}
Lowest(S) == CHOOSE n \in S : \A m \in S : n <= m
Rx == Lowest(Free)
Tx == Lowest(Free \ {Rx})

PipesFit == Cardinality(Free) >= 2

(* pipe() takes the two lowest free numbers. *)
NewPipe(j, name) ==
    fd' = [fd EXCEPT ![Rx] = EndOf(j, name, "rx"), ![Tx] = EndOf(j, name, "tx")]

(* close() of a number that is not open fails and changes nothing. *)
IsOpen(n) == n # None /\ fd[n] # Closed
Close(n) == fd' = IF n = None THEN fd ELSE [fd EXCEPT ![n] = Closed]

Held(j, name, end) == \E n \in FD : fd[n] = EndOf(j, name, end)
Room(p) == PipeSize - Len(pipes[p])
Least(a, b) == IF a <= b THEN a ELSE b

(* A read from pipe p takes what is there, up to its buffer. *)
Taken(p) == Least(ReadSize, Len(pipes[p]))
Take(p) == pipes' = [pipes EXCEPT ![p] = SubSeq(@, Taken(p) + 1, Len(@))]
AtEnd(p) == pipes[p] = <<>> /\ ~Held(p[1], p[2], "tx")

(* The pipe behind descriptor n. *)
PipeOf(n) == <<fd[n].job, fd[n].name>>

-----------------------------------------------------------------------------
(* compile:stdOut:stdErr: *)

Goes(j, to) == pc' = [pc EXCEPT ![j] = to]

Lock(j) ==
    /\ pc[j] = "idle" /\ lock[EnvOf(j)] = None
    /\ \A i \in 1 .. j - 1 :
          Jobs[i].caller = Jobs[j].caller => pc[i] = "returned"
    /\ lock' = [lock EXCEPT ![EnvOf(j)] = j]
    /\ stdOut' = [stdOut EXCEPT ![EnvOf(j)] = 0]
    /\ Goes(j, "pipeIn")
    /\ UNCHANGED <<fd, pipes, stdin_pipe, stdout_pipe, outputDataComplete,
                   parser, feeder, listener, ignoresSigpipe, killed>>

PipeIn(j) ==
    /\ pc[j] = "pipeIn" /\ PipesFit
    /\ NewPipe(j, "in")
    /\ stdin_pipe' = [stdin_pipe EXCEPT ![EnvOf(j)] = [rx |-> Rx, tx |-> Tx]]
    /\ Goes(j, "pipeOut")
    /\ UNCHANGED <<pipes, stdout_pipe, outputDataComplete, stdOut, lock, parser,
                   feeder, listener, ignoresSigpipe, killed>>

PipeOut(j) ==
    /\ pc[j] = "pipeOut" /\ PipesFit
    /\ NewPipe(j, "out")
    /\ stdout_pipe' = [stdout_pipe EXCEPT ![EnvOf(j)] = [rx |-> Rx, tx |-> Tx]]
    /\ Goes(j, "detach")
    /\ UNCHANGED <<pipes, stdin_pipe, outputDataComplete, stdOut, lock, parser,
                   feeder, listener, ignoresSigpipe, killed>>

(* No descriptors: compile returns NULL, without closing the first pipe. *)
PipeFails(j) ==
    /\ pc[j] \in {"pipeIn", "pipeOut"} /\ ~PipesFit
    /\ lock' = [lock EXCEPT ![EnvOf(j)] = None]
    /\ Goes(j, "returned")
    /\ UNCHANGED <<fd, pipes, stdin_pipe, stdout_pipe, outputDataComplete,
                   stdOut, parser, feeder, listener, ignoresSigpipe, killed>>

(* Both threads are detached, and the parser is given its descriptors. *)
Detach(j) ==
    /\ pc[j] = "detach"
    /\ feeder' = [feeder EXCEPT ![j].pc = "loop", ![j].write_size = Size(j)]
    /\ listener' = [listener EXCEPT ![j].pc = "start"]
    /\ parser' = [parser EXCEPT ![j].infile = stdin_pipe[EnvOf(j)].rx,
                                ![j].outfile = stdout_pipe[EnvOf(j)].tx]
    /\ Goes(j, "parse")
    /\ UNCHANGED <<fd, pipes, envVars, ignoresSigpipe, killed>>

(* close() of the parser's ends.  The first close of the one it read from  *)
(* succeeds, so it is closed again. *)
CloseOut(j) ==
    /\ pc[j] = "closeOut"
    /\ Close(stdout_pipe[EnvOf(j)].tx)
    /\ stdout_pipe' = [stdout_pipe EXCEPT ![EnvOf(j)].tx = None]
    /\ Goes(j, "closeIn")
    /\ UNCHANGED <<pipes, stdin_pipe, outputDataComplete, stdOut, lock, parser,
                   feeder, listener, ignoresSigpipe, killed>>

CloseIn(j) ==
    /\ pc[j] = "closeIn"
    /\ Close(stdin_pipe[EnvOf(j)].rx)
    /\ Goes(j, IF IsOpen(stdin_pipe[EnvOf(j)].rx) THEN "closeAgain" ELSE "forget")
    /\ UNCHANGED <<pipes, envVars, parser, feeder, listener, ignoresSigpipe,
                   killed>>

CloseInAgain(j) ==
    /\ pc[j] = "closeAgain"
    /\ Close(stdin_pipe[EnvOf(j)].rx)
    /\ Goes(j, "forget")
    /\ UNCHANGED <<pipes, envVars, parser, feeder, listener, ignoresSigpipe,
                   killed>>

ForgetIn(j) ==
    /\ pc[j] = "forget"
    /\ stdin_pipe' = [stdin_pipe EXCEPT ![EnvOf(j)].rx = None]
    /\ Goes(j, "wait")
    /\ UNCHANGED <<fd, pipes, stdout_pipe, outputDataComplete, stdOut, lock,
                   parser, feeder, listener, ignoresSigpipe, killed>>

(* Mutant: the listener's end is closed whenever it is not forgotten. *)
ReturnCloses(j) ==
    /\ pc[j] = "wait" /\ outputDataComplete[EnvOf(j)]
    /\ Close(stdout_pipe[EnvOf(j)].rx)
    /\ lock' = [lock EXCEPT ![EnvOf(j)] = None]
    /\ Goes(j, "returned")
    /\ UNCHANGED <<pipes, stdin_pipe, stdout_pipe, outputDataComplete, stdOut,
                   parser, feeder, listener, ignoresSigpipe, killed>>

(* The sleep loop is left when the output is complete. *)
Return(j) ==
    /\ pc[j] = "wait" /\ outputDataComplete[EnvOf(j)]
    /\ Close(IF stdout_pipe[EnvOf(j)].tx # None
             THEN stdout_pipe[EnvOf(j)].rx ELSE None)
    /\ lock' = [lock EXCEPT ![EnvOf(j)] = None]
    /\ Goes(j, "returned")
    /\ UNCHANGED <<pipes, stdin_pipe, stdout_pipe, outputDataComplete, stdOut,
                   parser, feeder, listener, ignoresSigpipe, killed>>

-----------------------------------------------------------------------------
(* yycompile, on the calling thread.  The scanner reads its input as a     *)
(* stdio file, in pieces of FillSize bytes, and count() echoes each token  *)
(* to another, which is never flushed or closed: only full buffers are     *)
(* written.  What the scanner has read beyond a syntax error is dropped.   *)

In(j) == PipeOf(parser[j].infile)
Out(j) == PipeOf(parser[j].outfile)
GivesUp(j) ==
    \E i \in 1 .. parser[j].scanned : parser[j].read[i][2] = Jobs[j].bad

Parses(j) ==
    /\ pc[j] = "parse" /\ parser[j].echo < EchoSize /\ ~GivesUp(j)
    /\ IsOpen(parser[j].infile)

(* The input it waits for before it looks at the byte after the first n. *)
Asked(n) == (n \div FillSize + 1) * FillSize
Ready(j) ==
    /\ parser[j].scanned < Len(parser[j].read)
    /\ Len(parser[j].read) >= Asked(parser[j].scanned) \/ AtEnd(In(j))

ParserReads(j) ==
    /\ Parses(j) /\ ~Ready(j) /\ pipes[In(j)] # <<>>
    /\ parser' = [parser EXCEPT
                     ![j].read = @ \o SubSeq(pipes[In(j)], 1, Taken(In(j)))]
    /\ Take(In(j))
    /\ UNCHANGED <<fd, envVars, pc, feeder, listener, ignoresSigpipe, killed>>


(* The next byte becomes part of a token, which is echoed, or is passed over. *)
ParserScans(j) ==
    /\ Parses(j) /\ Ready(j)
    /\ LET byte == parser[j].read[parser[j].scanned + 1][2] IN
       parser' = [parser EXCEPT
                     ![j].scanned = @ + 1,
                     ![j].echo = IF byte \in Jobs[j].silent THEN @ ELSE @ + 1]
    /\ UNCHANGED <<fd, pipes, envVars, pc, feeder, listener, ignoresSigpipe,
                   killed>>

ParserEchoes(j) ==
    /\ pc[j] = "parse" /\ parser[j].echo >= EchoSize
    /\ IsOpen(parser[j].outfile)
    /\ LET some == Least(Room(Out(j)), parser[j].echo) IN
       /\ some > 0
       /\ pipes' = [pipes EXCEPT ![Out(j)] =
                        @ \o [i \in 1 .. some |-> <<j, None>>]]
       /\ parser' = [parser EXCEPT ![j].echo = @ - some,
                                   ![j].flushed = @ + some]
    /\ UNCHANGED <<fd, envVars, pc, feeder, listener, ignoresSigpipe, killed>>

(* Mutant: an empty pipe is taken for the end of the source. *)
ParserEndsEmpty(j) ==
    /\ pc[j] = "parse" /\ parser[j].echo < EchoSize
    /\ IsOpen(parser[j].infile)
    /\ GivesUp(j) \/ pipes[In(j)] = <<>>
    /\ Goes(j, "closeOut")
    /\ UNCHANGED <<fd, pipes, envVars, parser, feeder, listener, ignoresSigpipe,
                   killed>>

(* It ends at the end of the source or at a syntax error. *)
ParserEnds(j) ==
    /\ pc[j] = "parse" /\ parser[j].echo < EchoSize
    /\ IsOpen(parser[j].infile)
    /\ GivesUp(j) \/ (AtEnd(In(j)) /\ parser[j].scanned = Len(parser[j].read))
    /\ Goes(j, "closeOut")
    /\ UNCHANGED <<fd, pipes, envVars, parser, feeder, listener, ignoresSigpipe,
                   killed>>

-----------------------------------------------------------------------------
(* stdinFeeder: *)

OwnTx(j) == stdin_pipe[EnvOf(j)].tx

(* write() answered: -1 is Word - 1 in written_size, a size_t, and counts  *)
(* as progress; what is left is computed from the whole size. *)
Wrote(j, written_size) ==
    feeder' = [feeder EXCEPT
                  ![j].pc = "loop",
                  ![j].write_size = (Size(j) + Word - written_size) % Word,
                  ![j].current_pos = (@ + written_size) % Word]
Error == Word - 1

(* A write to a descriptor that is not open fails, one to a pipe begins. *)
FeederWrites(j) ==
    /\ feeder[j].pc = "loop" /\ feeder[j].write_size > 0
    /\ IF IsOpen(OwnTx(j))
       THEN feeder' = [feeder EXCEPT ![j].pc = "write",
                                     ![j].to = PipeOf(OwnTx(j)),
                                     ![j].left = feeder[j].write_size]
       ELSE Wrote(j, Error)
    /\ UNCHANGED <<fd, pipes, envVars, pc, parser, listener, ignoresSigpipe,
                   killed>>

(* It blocks until the pipe has taken all bytes. *)
FeederFills(j) ==
    /\ feeder[j].pc = "write" /\ Held(feeder[j].to[1], feeder[j].to[2], "rx")
    /\ LET f == feeder[j]
           some == Least(Room(f.to), f.left)
           from == f.current_pos + f.write_size - f.left
       IN /\ some > 0
          /\ pipes' = [pipes EXCEPT ![f.to] =
                           @ \o [i \in 1 .. some |-> <<j, (from + i) % Word>>]]
          /\ IF some = f.left
             THEN Wrote(j, f.write_size)
             ELSE feeder' = [feeder EXCEPT ![j].left = @ - some]
    /\ UNCHANGED <<fd, envVars, pc, parser, listener, ignoresSigpipe, killed>>

(* Nobody can read the pipe any more: SIGPIPE, and where it is ignored     *)
(* EPIPE, or the number of bytes already taken. *)
FeederBreaks(j) ==
    /\ feeder[j].pc = "write" /\ ~Held(feeder[j].to[1], feeder[j].to[2], "rx")
    /\ IF ignoresSigpipe
       THEN /\ Wrote(j, IF feeder[j].left < feeder[j].write_size
                        THEN feeder[j].write_size - feeder[j].left ELSE Error)
            /\ UNCHANGED killed
       ELSE killed' = TRUE /\ UNCHANGED feeder
    /\ UNCHANGED <<fd, pipes, envVars, pc, parser, listener, ignoresSigpipe>>


FeederCloses(j) ==
    /\ feeder[j].pc = "loop" /\ feeder[j].write_size = 0
    /\ Close(OwnTx(j))
    /\ feeder' = [feeder EXCEPT ![j].pc = "forget"]
    /\ UNCHANGED <<pipes, envVars, pc, parser, listener, ignoresSigpipe, killed>>

FeederForgets(j) ==
    /\ feeder[j].pc = "forget"
    /\ stdin_pipe' = [stdin_pipe EXCEPT ![EnvOf(j)].tx = None]
    /\ feeder' = [feeder EXCEPT ![j].pc = "ended"]
    /\ UNCHANGED <<fd, pipes, stdout_pipe, outputDataComplete, stdOut, lock, pc,
                   parser, listener, ignoresSigpipe, killed>>

-----------------------------------------------------------------------------
(* stdoutListener *)

OwnRx(j) == stdout_pipe[EnvOf(j)].rx

(* Mutant: the flag is set before the output is there. *)
ListenerStartsComplete(j) ==
    /\ listener[j].pc = "start"
    /\ outputDataComplete' = [outputDataComplete EXCEPT ![EnvOf(j)] = TRUE]
    /\ listener' = [listener EXCEPT ![j].pc = "read"]
    /\ UNCHANGED <<fd, pipes, stdin_pipe, stdout_pipe, stdOut, lock, pc, parser,
                   feeder, ignoresSigpipe, killed>>

ListenerStarts(j) ==
    /\ listener[j].pc = "start"
    /\ outputDataComplete' = [outputDataComplete EXCEPT ![EnvOf(j)] = FALSE]
    /\ listener' = [listener EXCEPT ![j].pc = "read"]
    /\ UNCHANGED <<fd, pipes, stdin_pipe, stdout_pipe, stdOut, lock, pc, parser,
                   feeder, ignoresSigpipe, killed>>

ListenerReads(j) ==
    /\ listener[j].pc = "read" /\ IsOpen(OwnRx(j))
    /\ LET p == PipeOf(OwnRx(j)) IN
       /\ pipes[p] # <<>>
       /\ listener' = [listener EXCEPT ![j].outputData = @ + Taken(p)]
       /\ Take(p)
    /\ UNCHANGED <<fd, envVars, pc, parser, feeder, ignoresSigpipe, killed>>

ListenerCompletes(j) ==
    /\ listener[j].pc = "read" /\ IsOpen(OwnRx(j)) /\ AtEnd(PipeOf(OwnRx(j)))
    /\ stdOut' = [stdOut EXCEPT ![EnvOf(j)] = @ + listener[j].outputData]
    /\ outputDataComplete' = [outputDataComplete EXCEPT ![EnvOf(j)] = TRUE]
    /\ listener' = [listener EXCEPT ![j].pc = "close"]
    /\ UNCHANGED <<fd, pipes, stdin_pipe, stdout_pipe, lock, pc, parser, feeder,
                   ignoresSigpipe, killed>>

(* Mutant: the descriptor is forgotten without being closed. *)
ListenerDrops(j) ==
    /\ listener[j].pc = "close"
    /\ listener' = [listener EXCEPT ![j].pc = "forget"]
    /\ UNCHANGED <<fd, pipes, envVars, pc, parser, feeder, ignoresSigpipe, killed>>

ListenerCloses(j) ==
    /\ listener[j].pc = "close"
    /\ Close(OwnRx(j))
    /\ listener' = [listener EXCEPT ![j].pc = "forget"]
    /\ UNCHANGED <<pipes, envVars, pc, parser, feeder, ignoresSigpipe, killed>>

ListenerForgets(j) ==
    /\ listener[j].pc = "forget"
    /\ stdout_pipe' = [stdout_pipe EXCEPT ![EnvOf(j)].rx = None]
    /\ listener' = [listener EXCEPT ![j].pc = "ended"]
    /\ UNCHANGED <<fd, pipes, stdin_pipe, outputDataComplete, stdOut, lock, pc,
                   parser, feeder, ignoresSigpipe, killed>>

-----------------------------------------------------------------------------
Init ==
    /\ fd = [n \in FD |-> Closed]
    /\ pipes = [p \in Job \X {"in", "out"} |-> <<>>]
    /\ stdin_pipe = [e \in Env |-> [rx |-> None, tx |-> None]]
    /\ stdout_pipe = [e \in Env |-> [rx |-> None, tx |-> None]]
    /\ outputDataComplete = [e \in Env |-> FALSE]
    /\ stdOut = [e \in Env |-> 0]
    /\ lock = [e \in Env |-> None]
    /\ pc = [j \in Job |-> "idle"]
    /\ parser = [j \in Job |-> [read |-> <<>>, scanned |-> 0, echo |-> 0,
                                flushed |-> 0, infile |-> None,
                                outfile |-> None]]
    /\ feeder = [j \in Job |-> [pc |-> "none", write_size |-> 0,
                                current_pos |-> 0, left |-> 0,
                                to |-> <<j, "in">>]]
    /\ listener = [j \in Job |-> [pc |-> "none", outputData |-> 0]]
    /\ ignoresSigpipe \in BOOLEAN
    /\ killed = FALSE

Compile(j) ==
    \/ Lock(j) \/ PipeIn(j) \/ PipeOut(j) \/ PipeFails(j) \/ Detach(j)
    \/ ParserReads(j) \/ ParserScans(j) \/ ParserEchoes(j) \/ ParserEnds(j)
    \/ CloseOut(j) \/ CloseIn(j) \/ CloseInAgain(j) \/ ForgetIn(j) \/ Return(j)

Feeder(j) ==
    \/ FeederWrites(j) \/ FeederFills(j) \/ FeederBreaks(j)
    \/ FeederCloses(j) \/ FeederForgets(j)

Listener(j) ==
    \/ ListenerStarts(j) \/ ListenerReads(j) \/ ListenerCompletes(j)
    \/ ListenerCloses(j) \/ ListenerForgets(j)

(* The process is gone, or all it was asked for is done. *)
Over == (killed \/ \A j \in Job : pc[j] = "returned") /\ UNCHANGED vars

Next ==
    \/ ~killed /\ \E j \in Job : Compile(j) \/ Feeder(j) \/ Listener(j)
    \/ Over

(* Every thread is scheduled. *)
Spec ==
    /\ Init /\ [][Next]_vars
    /\ \A j \in Job : /\ WF_vars(~killed /\ Compile(j))
                      /\ WF_vars(~killed /\ Feeder(j))
                      /\ WF_vars(~killed /\ Listener(j))

-----------------------------------------------------------------------------
(* Properties *)

(* The parser of a job reads the source of that job, each byte once and in *)
(* order, and stops short of its end only where it gives up. *)
ReadsOwnSource ==
    \A j \in Job :
        /\ \A i \in DOMAIN parser[j].read : parser[j].read[i] = <<j, i>>
        /\ pc[j] \in {"closeOut", "closeIn", "closeAgain", "forget", "wait"}
              => parser[j].scanned = Size(j) \/ GivesUp(j)

(* compile returns the echo its own parser wrote, all of it, and not before *)
(* the listener has collected it. *)
ReturnsOwnOutput ==
    \A j \in Job :
        pc[j] = "wait" /\ outputDataComplete[EnvOf(j)]
            => stdOut[EnvOf(j)] = parser[j].flushed

(* No thread closes a descriptor that another compile has opened under the *)
(* same number. *)
ClosesOwn ==
    \A n \in FD : fd[n] # Closed /\ fd'[n] = Closed =>
        \A j \in Job \ {fd[n].job} :
            /\ pc'[j] = pc[j]
            /\ feeder'[j].pc = feeder[j].pc
            /\ listener'[j].pc = listener[j].pc
ClosesOwnDescriptors == [][ClosesOwn]_vars

(* When a compile has returned and both its threads are gone, it holds no  *)
(* descriptor. *)
DescriptorsReturned ==
    \A j \in Job :
        pc[j] = "returned" /\ feeder[j].pc = "ended" /\ listener[j].pc = "ended"
            => \A n \in FD : fd[n].job # j


(* UMScriptCompilerEnvironment.m:172: closing the pipes from the yycompile *)
(* side "should terminate the helper threads". *)
HelpersEnd ==
    \A j \in Job : pc[j] = "wait" ~> \/ feeder[j].pc = "ended" \/ killed

-----------------------------------------------------------------------------
(* The abstract compile *)

phase ==
    [j \in Job |-> CASE pc[j] = "idle" -> "idle"
                     [] pc[j] = "returned" -> IF feeder[j].pc = "none"
                                              THEN "failed" ELSE "answered"
                     [] OTHER -> "compiling"]

bytes == [j \in Job |-> parser[j].scanned]

output == [j \in Job |-> IF phase[j] = "answered" THEN stdOut[EnvOf(j)] ELSE 0]

Abstract == INSTANCE UMCompilation WITH gone <- killed


=============================================================================

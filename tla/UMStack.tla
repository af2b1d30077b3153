------------------------------ MODULE UMStack ------------------------------
(***************************************************************************)
(* UMStack and UMStackFrame: the stack of frames an environment keeps, one *)
(* frame for every function call that is being evaluated.  A frame is      *)
(* identified by the term it was pushed for.                               *)
(***************************************************************************)
EXTENDS Naturals, Sequences

CONSTANTS
    NoFrame         \* currentFrame when the stack is empty (NULL)

VARIABLES
    stackFrames,    \* _stackFrames, the last element is the innermost frame
    currentFrame    \* _currentFrame, kept beside the array

stackVars == <<stackFrames, currentFrame>>

StackInit ==
    /\ stackFrames = <<>>
    /\ currentFrame = NoFrame

(* Mutant: the array gets the frame that was current before. *)
PushFrameOld(frame) ==
    /\ stackFrames' = Append(stackFrames, currentFrame)
    /\ currentFrame' = frame

PushFrame(frame) ==
    /\ stackFrames' = Append(stackFrames, frame)
    /\ currentFrame' = frame

(***************************************************************************)
(* popFrame counts in an unsigned integer: on an empty stack cnt-- wraps   *)
(* to the largest NSUInteger and objectAtIndex: raises a range exception.  *)
(* PopRaises is that case; PopFrame is every other one.                    *)
(***************************************************************************)
PopRaises == stackFrames = <<>>

(* Mutant: the frame is not removed. *)
PopFrameKeeps ==
    LET cnt == Len(stackFrames) - 1 IN
    /\ stackFrames' = stackFrames
    /\ currentFrame' = IF cnt = 0 THEN NoFrame ELSE stackFrames[cnt]

PopFrame ==
    LET cnt == Len(stackFrames) - 1 IN
    /\ stackFrames' = SubSeq(stackFrames, 1, cnt)
    /\ currentFrame' = IF cnt = 0 THEN NoFrame ELSE stackFrames[cnt]

=============================================================================

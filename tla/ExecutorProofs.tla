--------------------------- MODULE ExecutorProofs ---------------------------
(***************************************************************************)
(* Theorems about Executor, for every timeout, every grace and every moment *)
(* at which the operator, Redis and the tool may act.                       *)
(***************************************************************************)
EXTENDS Executor, TLAPS

\* Where the call is tells how far its clock and the tool can be.
CallInv ==
    /\ pc = "start" => tool = "none" /\ polls = 0
    /\ pc \in {"poll", "cancel?", "clock?", "stop"} => tool \in {"runs", "ended"}
    /\ pc = "grace" => tool \in {"runs", "ended", "terminated"}
    /\ pc = "poll" => polls <= Timeout
    /\ polls <= Timeout + 1

\* A cancellation that the tool has outlived falls in the present poll or in the
\* one before it, and in the present one when the next may begin.
CancelInv ==
    cancelled /\ tool = "runs" =>
        polls <= (IF pc \in {"poll", "clock?"} THEN askedAt ELSE askedAt + 1)

ExecutorInv ==
    TypeOK /\ CallInv /\ CancelInv /\ NoToolLeftRunning /\ CutOutputIsFlagged

\* What a call returns is a RunResult, and tells that it has returned.
LEMMA ReturnTypes ==
    ASSUME NEW output \in {"all", "partial", "none"}, NEW code \in {"tool", "1", "127"},
           NEW flag \in BOOLEAN, Return(output, code, flag)
    PROVE  /\ pc' = "returned" /\ result' \in RunResult /\ result' # None
           /\ result'.output = output /\ result'.code = code /\ result'.timedOut = flag
BY DEF Return, RunResult, None

LEMMA ExecutorInit == Init => ExecutorInv
<1> SUFFICES ASSUME Init PROVE ExecutorInv
  OBVIOUS
<1>1. TypeOK
  <2>1. {stdin, text, started, cancelled, redisUp} \subseteq BOOLEAN
    BY DEF Init
  <2>2. result \in RunResult \cup {None} /\ (pc = "returned" <=> result # None)
    BY DEF Init
  <2> QED  BY <2>1, <2>2, TimeoutAssumption DEF Init, TypeOK, PC
<1>2. CallInv /\ CancelInv
  BY TimeoutAssumption DEF Init, CallInv, CancelInv
<1> QED  BY <1>1, <1>2 DEF Init, ExecutorInv, NoToolLeftRunning, CutOutputIsFlagged

LEMMA ExecutorStep == ExecutorInv /\ [Next]_vars => ExecutorInv'
<1> SUFFICES ASSUME ExecutorInv, [Next]_vars PROVE ExecutorInv'
  OBVIOUS
<1> USE TimeoutAssumption
    DEF ExecutorInv, TypeOK, PC, CallInv, CancelInv, NoToolLeftRunning,
        CutOutputIsFlagged, Call, Clock, World
<1>1. CASE Popen
  <2>1. CASE tool' = "runs" /\ pc' = "poll" /\ UNCHANGED result
    BY <1>1, <2>1 DEF Popen
  <2>2. CASE Return("none", "127", FALSE) /\ UNCHANGED tool
    BY <1>1, <2>2, ReturnTypes DEF Popen
  <2>3. CASE pc' = "raised" /\ UNCHANGED <<tool, result>>
    BY <1>1, <2>3 DEF Popen
  <2> QED  BY <1>1, <2>1, <2>2, <2>3 DEF Popen
<1>2. CASE CommunicateReturns
  BY <1>2, ReturnTypes DEF CommunicateReturns
<1>3. CASE PollExpires
  BY <1>3 DEF PollExpires
<1>4. CASE Raises
  BY <1>4, ReturnTypes DEF Raises, Exception
<1>5. CASE CheckCancel
  BY <1>5 DEF CheckCancel
<1>6. CASE CheckClock
  BY <1>6 DEF CheckClock
<1>7. CASE Terminate
  BY <1>7 DEF Terminate
<1>8. CASE GraceReturns
  BY <1>8, ReturnTypes DEF GraceReturns
<1>9. CASE GracePasses
  BY <1>9 DEF GracePasses
<1>10. CASE GraceExpires
  <2>1. tool' = "killed" /\ UNCHANGED <<Call, World, started, Clock>>
    BY <1>10 DEF GraceExpires
  <2>2. CASE Return("partial", "tool", TRUE)
    BY <1>10, <2>1, <2>2, ReturnTypes
  <2>3. CASE Return("none", "1", FALSE)
    BY <1>10, <2>1, <2>3, ReturnTypes
  <2> QED  BY <1>10, <2>2, <2>3 DEF GraceExpires
<1>11. CASE ToolEnds
  BY <1>11 DEF ToolEnds
<1>12. CASE ToolObeys
  BY <1>12 DEF ToolObeys
<1>13. CASE Cancel
  BY <1>13 DEF Cancel, Now
<1>14. CASE RedisFails
  BY <1>14 DEF RedisFails
<1>15. CASE UNCHANGED vars
  BY <1>15 DEF vars
<1> QED
  BY <1>1, <1>2, <1>3, <1>4, <1>5, <1>6, <1>7, <1>8, <1>9, <1>10, <1>11,
     <1>12, <1>13, <1>14, <1>15
  DEF Next, RunProcess

LEMMA ExecutorCorrect == Spec => []ExecutorInv
BY ExecutorInit, ExecutorStep, PTL DEF Spec

\* Every reachable state of a call is type correct.
THEOREM TypeCorrect == Spec => []TypeOK
<1>1. ExecutorInv => TypeOK
  BY DEF ExecutorInv
<1> QED  BY <1>1, ExecutorCorrect, PTL

\* However the call ends, no child is left running behind it.
THEOREM NoToolLeftCorrect == Spec => []NoToolLeftRunning
<1>1. ExecutorInv => NoToolLeftRunning
  BY DEF ExecutorInv
<1> QED  BY <1>1, ExecutorCorrect, PTL

\* A cancellation is acted on after the poll it falls in at the latest, and the
\* tool, obeying or not, outlives it by that poll and the grace of SIGTERM.
THEOREM CancelStopsCorrect == Spec => []CancelStopsTool
<1>1. ExecutorInv => CancelStopsTool
  BY TimeoutAssumption DEF ExecutorInv, TypeOK, CancelInv, CancelStopsTool, Now
<1> QED  BY <1>1, ExecutorCorrect, PTL

\* Output that was cut off is flagged.
THEOREM CutOutputCorrect == Spec => []CutOutputIsFlagged
<1>1. ExecutorInv => CutOutputIsFlagged
  BY DEF ExecutorInv
<1> QED  BY <1>1, ExecutorCorrect, PTL

\* A tool that never ends, whatever it does with SIGTERM, holds the call for its
\* timeout, one poll more and the grace of SIGTERM.
THEOREM TimeoutCorrect == Spec => []TimeoutHolds
<1>1. ExecutorInv => TimeoutHolds
  BY TimeoutAssumption DEF ExecutorInv, TypeOK, CallInv, TimeoutHolds, Now
<1> QED  BY <1>1, ExecutorCorrect, PTL
=============================================================================

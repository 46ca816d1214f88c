------------------------------ MODULE Executor ------------------------------
(***************************************************************************)
(* One call of _run_process (executor.py), which both executors end in: it  *)
(* starts a tool, polls it with communicate(timeout=0.5), looks for a       *)
(* cancellation and at the clock after each poll, and stops the tool with   *)
(* SIGTERM and, if it is still there 5 s later, SIGKILL.  For the           *)
(* SSHExecutor the tool is the local `tailscale ssh' process.               *)
(*                                                                         *)
(* Time is counted in polls of 0.5 s, spent in communicate; the time that   *)
(* on_cancel takes to ask Redis is not counted.  The tool and the operator  *)
(* act at any moment, and a tool that has ended leaves nobody holding its   *)
(* pipes.                                                                   *)
(***************************************************************************)
EXTENDS Integers

CONSTANTS
    Timeout,    \* the timeout of the call, in polls
    Grace,      \* what a tool has between SIGTERM and SIGKILL: 5 s, in polls
    Patience    \* bound: polls after which this model's operator stays silent

ASSUME TimeoutAssumption == Timeout \in Nat /\ Grace \in Nat /\ Patience \in Nat

VARIABLES
    pc,         \* where _run_process is
    tool,       \* the child process
    stdin,      \* the call has input for the tool (httpx, nuclei, dnsx)
    text,       \* what the tool prints can be decoded
    started,    \* communicate has been called before on this child
    polls,      \* polls that expired
    grace,      \* time since SIGTERM
    cancelled,  \* the scan's cancellation key is set
    askedAt,    \* history: the time when it was set
    redisUp,    \* on_cancel can be answered
    result      \* the RunResult, or None

vars == <<pc, tool, stdin, text, started, polls, grace, cancelled, askedAt,
          redisUp, result>>

\* How long the call has lasted.
Now == polls + grace

None == [output |-> "pending", code |-> "pending", timedOut |-> FALSE]

\* A RunResult: what of the tool's output it holds and where its code is from.
RunResult ==
    [output : {"all", "partial", "none"}, code : {"tool", "1", "127"}, timedOut : BOOLEAN]

PC == {"start", "poll", "cancel?", "clock?", "stop", "grace", "returned", "raised"}

TypeOK ==
    /\ pc \in PC
    /\ tool \in {"none", "runs", "ended", "terminated", "killed"}
    /\ {stdin, text, started, cancelled, redisUp} \subseteq BOOLEAN
    /\ polls \in Nat /\ grace \in 0 .. Grace /\ askedAt \in Nat
    /\ result \in RunResult \cup {None}
    /\ pc = "returned" <=> result # None

Init ==
    /\ pc = "start" /\ tool = "none" /\ started = FALSE /\ polls = 0 /\ grace = 0
    /\ stdin \in BOOLEAN /\ text \in BOOLEAN
    /\ cancelled = FALSE /\ askedAt = 0 /\ redisUp = TRUE
    /\ result = None

Call  == <<stdin, text>>
Clock == <<polls, grace>>
World == <<cancelled, askedAt, redisUp>>

Return(output, code, timedOut) ==
    /\ pc' = "returned"
    /\ result' = [output |-> output, code |-> code, timedOut |-> timedOut]

-----------------------------------------------------------------------------
(* _run_process *)

\* Mutant: FileNotFoundError leaves the call without a RunResult.
PopenUncaught ==
    /\ pc = "start"
    /\ \/ tool' = "runs" /\ pc' = "poll" /\ UNCHANGED result
       \/ pc' = "returned" /\ UNCHANGED <<tool, result>>
    /\ UNCHANGED <<Call, World, started, Clock>>

\* FileNotFoundError, the tool is not installed, has its RunResult; any other
\* OSError (no permission, no more processes) passes to the stage's handler.
Popen ==
    /\ pc = "start"
    /\ \/ tool' = "runs" /\ pc' = "poll" /\ UNCHANGED result
       \/ Return("none", "127", FALSE) /\ UNCHANGED tool
       \/ pc' = "raised" /\ UNCHANGED <<tool, result>>
    /\ UNCHANGED <<Call, World, started, Clock>>

\* subprocess refuses input for a child it has communicated with before.
Refused == started /\ stdin

CommunicateReturns ==
    /\ pc = "poll" /\ ~ Refused
    /\ tool = "ended"
    /\ Return("all", "tool", FALSE)
    /\ UNCHANGED <<Call, World, tool, started, Clock>>

PollExpires ==
    /\ pc = "poll" /\ ~ Refused
    /\ tool = "runs"
    /\ started' = TRUE
    /\ polls' = polls + 1
    /\ pc' = "cancel?"
    /\ UNCHANGED <<Call, World, tool, grace, result>>

\* What ends in the outer except: ValueError from the second communicate with
\* input, whatever on_cancel raises, UnicodeDecodeError from a communicate that
\* has read the output to its end.
Exception ==
    \/ pc = "poll" /\ Refused
    \/ pc = "cancel?" /\ ~ redisUp
    \/ pc \in {"poll", "grace"} /\ ~ text /\ tool # "runs"

\* Mutant: the except block leaves the child alone.
RaisesLeavesTool ==
    /\ Exception
    /\ Return("none", "1", FALSE)
    /\ UNCHANGED <<Call, World, tool, started, Clock>>

Raises ==
    /\ Exception
    /\ tool' = IF tool = "runs" THEN "killed" ELSE tool
    /\ Return("none", "1", FALSE)
    /\ UNCHANGED <<Call, World, started, Clock>>

\* Mutant: the cancellation is looked for only in the first poll.
CheckCancelOnce ==
    /\ pc = "cancel?" /\ redisUp
    /\ pc' = IF cancelled /\ polls = 1 THEN "stop" ELSE "clock?"
    /\ UNCHANGED <<Call, World, tool, started, Clock, result>>

CheckCancel ==
    /\ pc = "cancel?" /\ redisUp
    /\ pc' = IF cancelled THEN "stop" ELSE "clock?"
    /\ UNCHANGED <<Call, World, tool, started, Clock, result>>

\* Mutant: the clock is started anew by every poll.
CheckClockRestarts ==
    /\ pc = "clock?"
    /\ pc' = "poll"
    /\ UNCHANGED <<Call, World, tool, started, Clock, result>>

CheckClock ==
    /\ pc = "clock?"
    /\ pc' = IF polls > Timeout THEN "stop" ELSE "poll"
    /\ UNCHANGED <<Call, World, tool, started, Clock, result>>

\* SIGTERM; what the tool makes of it is its own affair (ToolObeys).
Terminate ==
    /\ pc = "stop"
    /\ pc' = "grace"
    /\ UNCHANGED <<Call, World, tool, started, Clock, result>>

\* Mutant: a tool that was stopped is reported like one that ended.
GraceReturnsUnflagged ==
    /\ pc = "grace" /\ tool # "runs"
    /\ Return(IF tool = "ended" THEN "all" ELSE "partial", "tool", FALSE)
    /\ UNCHANGED <<Call, World, tool, started, Clock>>

\* communicate(timeout=5) without input: the tool has obeyed, or had ended by
\* itself just before or meanwhile.
GraceReturns ==
    /\ pc = "grace" /\ tool # "runs"
    /\ Return(IF tool = "ended" THEN "all" ELSE "partial", "tool", TRUE)
    /\ UNCHANGED <<Call, World, tool, started, Clock>>

GracePasses ==
    /\ pc = "grace" /\ tool = "runs"
    /\ grace < Grace
    /\ grace' = grace + 1
    /\ UNCHANGED <<Call, World, pc, tool, started, polls, result>>

\* Mutant: no SIGKILL after the SIGTERM.
GraceExpiresWaits ==
    /\ pc = "grace" /\ tool = "runs"
    /\ grace = Grace
    /\ UNCHANGED vars

\* SIGKILL, and what the tool had printed by then, if it can be decoded.
GraceExpires ==
    /\ pc = "grace" /\ tool = "runs"
    /\ grace = Grace
    /\ tool' = "killed"
    /\ \/ Return("partial", "tool", TRUE)
       \/ ~ text /\ Return("none", "1", FALSE)
    /\ UNCHANGED <<Call, World, started, Clock>>

-----------------------------------------------------------------------------
(* The tool, the operator and Redis *)

ToolEnds ==
    /\ tool = "runs"
    /\ tool' = "ended"
    /\ UNCHANGED <<Call, World, pc, started, Clock, result>>

\* Nothing makes a tool obey SIGTERM.
ToolObeys ==
    /\ pc = "grace" /\ tool = "runs"
    /\ tool' = "terminated"
    /\ UNCHANGED <<Call, World, pc, started, Clock, result>>

Cancel ==
    /\ ~ cancelled /\ polls <= Patience
    /\ cancelled' = TRUE
    /\ askedAt' = Now
    /\ UNCHANGED <<Call, redisUp, pc, tool, started, Clock, result>>

RedisFails ==
    /\ redisUp
    /\ redisUp' = FALSE
    /\ UNCHANGED <<Call, cancelled, askedAt, pc, tool, started, Clock, result>>

RunProcess ==
    \/ Popen \/ CommunicateReturns \/ PollExpires \/ Raises
    \/ CheckCancel \/ CheckClock
    \/ Terminate \/ GraceReturns \/ GracePasses \/ GraceExpires

Next == RunProcess \/ ToolEnds \/ ToolObeys \/ Cancel \/ RedisFails

Spec == Init /\ [][Next]_vars

\* Every wait of the worker is bounded; nothing makes the tool end.
FairSpec == Spec /\ WF_vars(RunProcess)

-----------------------------------------------------------------------------
(* Properties *)

\* However the call ends, no child is left running behind it.
NoToolLeftRunning == pc \in {"returned", "raised"} => tool # "runs"

\* A cancellation is acted on after the poll it falls in at the latest, and the
\* tool, obeying or not, outlives it by that poll and the grace of SIGTERM.
CancelStopsTool ==
    cancelled /\ tool = "runs" =>
        polls <= askedAt + 1 /\ Now <= askedAt + 1 + Grace

\* Output that was cut off is flagged, and what is not flagged is complete or
\* comes with an error code.  (nmap's stages look at the flag; the parsers of
\* httpx, nuclei and dnsx take cut output as it is.)
CutOutputIsFlagged ==
    result # None /\ ~ result.timedOut =>
        \/ result.output = "all" /\ tool = "ended"
        \/ result.output = "none" /\ result.code \in {"1", "127"}

\* A tool that never ends, whatever it does with SIGTERM, holds the call for
\* its timeout, one poll more and the grace of SIGTERM.
TimeoutHolds == Now <= Timeout + 1 + Grace

\* The call always ends, though nothing makes the tool end.
CallReturns == <>(pc \in {"returned", "raised"})

-----------------------------------------------------------------------------
(* What the documentation says and the code does not do *)

\* scanner/base.py: stdin piping, timeout and cancellation polling go together.
\* A tool that ends in time and whose output is text, whose scan is not cancelled
\* and can be asked about, delivers its output.
PolledToolDelivers ==
    pc = "returned" /\ tool # "none" =>
        \/ result.output = "all"
        \/ cancelled \/ ~ redisUp \/ ~ text \/ polls > Timeout
=============================================================================

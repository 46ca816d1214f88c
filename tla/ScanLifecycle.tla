--------------------------- MODULE ScanLifecycle ---------------------------
(***************************************************************************)
(* What a client of Shadow.Lab may assume about a scan: the status it reads *)
(* from the database and how far the one job of the scan has got.  Workers, *)
(* requests, Redis and transactions are not visible here; ScanService is    *)
(* shown to implement this specification.                                   *)
(***************************************************************************)
EXTENDS Naturals, Sequences

VARIABLES
    status,     \* committed status of every scan, by id
    phase,      \* where its one job is
    asked,      \* scans somebody asked to cancel before they were settled
    forgotten   \* scans whose cancellation flag was lost

lifecycleVars == <<status, phase, asked, forgotten>>

Results == { "COMPLETE", "FAILED", "CANCELLED" }

\* "open"      a worker may still deliver the scan's result
\* "delivered" the result is committed, the job not yet let go
\* "failing"   processing broke off: the scan is about to be marked FAILED
\* "closed"    no worker will touch the scan again
Phases == { "open", "delivered", "failing", "closed" }

LifecycleTypeOK ==
    /\ status \in Seq({"PENDING"} \cup Results)
    /\ phase \in Seq(Phases)
    /\ Len(phase) = Len(status)
    /\ asked \subseteq Nat
    /\ forgotten \subseteq Nat

LifecycleInit == status = <<>> /\ phase = <<>> /\ asked = {} /\ forgotten = {}

Accept ==
    /\ status' = Append(status, "PENDING")
    /\ phase' = Append(phase, "open")
    /\ UNCHANGED <<asked, forgotten>>

\* A scan that is settled already is refused (409) ...
Ask(i) ==
    /\ status[i] \notin Results
    /\ asked' = asked \cup {i}
    /\ UNCHANGED <<status, phase, forgotten>>

\* ... but one that settles after the question was asked is overwritten.
MarkCancelled(i) ==
    /\ i \in asked
    /\ status' = [status EXCEPT ![i] = "CANCELLED"]
    /\ UNCHANGED <<phase, asked, forgotten>>

\* The result of the one run.  A cancelled scan is COMPLETE only if its flag
\* was lost on the way.
Deliver(i, result) ==
    /\ phase[i] = "open"
    /\ result = "COMPLETE" => status[i] = "PENDING" \/ i \in forgotten
    /\ status' = [status EXCEPT ![i] = result]
    /\ phase' = [phase EXCEPT ![i] = "delivered"]
    /\ UNCHANGED <<asked, forgotten>>

BreakOff(i) ==
    /\ phase[i] \in {"open", "delivered"}
    /\ phase' = [phase EXCEPT ![i] = "failing"]
    /\ UNCHANGED <<status, asked, forgotten>>

MarkBroken(i) ==
    /\ phase[i] = "failing"
    /\ status' = [status EXCEPT ![i] = "FAILED"]
    /\ phase' = [phase EXCEPT ![i] = "closed"]
    /\ UNCHANGED <<asked, forgotten>>

\* The job is done, dropped or lost; a restart of Redis loses many at once,
\* and their flags with them.
Close ==
    \E ids \in SUBSET (1 .. Len(status)), flags \in SUBSET (1 .. Len(status)) :
        /\ phase' = [i \in 1 .. Len(phase) |-> IF i \in ids THEN "closed" ELSE phase[i]]
        /\ forgotten' = forgotten \cup flags
        /\ UNCHANGED <<status, asked>>

LifecycleNext ==
    \/ Accept
    \/ Close
    \/ \E i \in 1 .. Len(status) :
          \/ Ask(i)
          \/ MarkCancelled(i)
          \/ \E result \in Results : Deliver(i, result)
          \/ BreakOff(i)
          \/ MarkBroken(i)

LifecycleSpec == LifecycleInit /\ [][LifecycleNext]_lifecycleVars

\* A settled scan is never reopened: no row is deleted, none becomes PENDING
\* again, and only a lost flag turns a CANCELLED scan into a COMPLETE one.
NeverReopened ==
    [][\A i \in 1 .. Len(status) :
          /\ i \in 1 .. Len(status')
          /\ status'[i] = "PENDING" => status[i] = "PENDING"
          /\ status'[i] = "COMPLETE" =>
                status[i] \in {"PENDING", "COMPLETE"} \/ i \in forgotten]_lifecycleVars
=============================================================================

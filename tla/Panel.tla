------------------------------- MODULE Panel -------------------------------
(***************************************************************************)
(* The control panel (main.py): the cached health of the Tailscale node,    *)
(* which a background task refreshes and /healthz answers from, and the      *)
(* actions on labelled containers.  Docker, tailscaled and other users of   *)
(* Docker act between any two steps; so do other requests to the panel,     *)
(* which reach it only through Docker.                                      *)
(*                                                                         *)
(* Time is counted in ticks: sleeping and waiting are bounded by timers, and *)
(* what the event loop itself takes is nothing.                             *)
(***************************************************************************)
EXTENDS Integers, FiniteSets

CONSTANTS
    Ids,            \* container ids: never used twice
    NameOf,         \* the name of each id; another id may take it later
    Managed,        \* ids labelled shadow.lab.manage=true (labels never change)
    Panel,          \* the panel's own id
    Interval,       \* TAILSCALE_CHECK_INTERVAL
    CheckTimeout,   \* timeout of `tailscale status'
    PingTimeout     \* what docker_client().ping() takes at most

Fresh == Interval + 2 * CheckTimeout + PingTimeout

ASSUME ContainersAssumption ==
    /\ Managed \subseteq Ids /\ Panel \in Ids
    /\ DOMAIN NameOf = Ids
    /\ \A c \in Ids : NameOf[c] \notin Ids
ASSUME TimesAssumption ==
    /\ Interval \in Nat \ {0} /\ CheckTimeout \in Nat \ {0} /\ PingTimeout \in Nat

VARIABLES
    containers, \* id -> "new", "running", "exited" or "gone"
    panel,      \* the process: "down", "starting", "serving"
    online,     \* tailscaled is running and has an address
    offlineFor, \* ticks since it was last online, at most Fresh + 1
    cached,     \* state["tailscale"]["healthy"]
    monitor,    \* the task: its step, its timer, and what the status call saw
    health,     \* the last GET /healthz: its step, its timer, the cached value it
                \* read; an answer is forgotten with the next tick
    request,    \* a POST /api/services/{id}/{action}
    since,      \* history: states of its container since its action
    touched     \* history: containers the panel has acted on

panelVars == <<panel, cached, monitor, health>>
tailscale == <<online, offlineFor>>
actionVars == <<request, since, touched>>
vars == <<containers, panel, online, offlineFor, cached, monitor,
          health, request, since, touched>>

Exists(c) == containers[c] \in {"running", "exited"}
NoContainer == "none"
Actions == {"start", "stop", "restart"}

Answers == {"healthy", "unhealthy"}
Monitor == [pc : {"none", "check", "sleep", "dead"},
            t : 0 .. Interval + CheckTimeout,
            saw : {"nothing", "odd"} \cup Answers]
Health == [pc : {"none", "ping", "answered"}, t : 0 .. PingTimeout,
           tailscale : Answers, code : {0, 200, 500, 503}]
Request ==
    [pc : {"none", "act", "reload", "answered"}, action : Actions \cup {"none"},
     id : Ids \cup {NoContainer}, was : {"none", "running", "exited"},
     code : {0, 200, 400, 403, 404, 500, 502, 503}]

TypeOK ==
    /\ containers \in [Ids -> {"new", "running", "exited", "gone"}]
    /\ panel \in {"down", "starting", "serving"}
    /\ online \in BOOLEAN /\ offlineFor \in 0 .. Fresh + 1
    /\ cached \in Answers
    /\ monitor \in Monitor /\ health \in Health /\ request \in Request
    /\ request.pc \in {"act", "reload"} => request.id \in Ids
    /\ since \subseteq {"running", "exited", "gone"} /\ touched \subseteq Ids

At(pc) == [pc |-> pc, t |-> 0, saw |-> "nothing"]
NoMonitor == At("none")
NoHealth  == [pc |-> "none", t |-> 0, tailscale |-> "unhealthy", code |-> 0]
NoRequest == [pc |-> "none", action |-> "none", id |-> NoContainer, was |-> "none", code |-> 0]

\* A name belongs to one existing container at a time.
NamesUnique(cs) ==
    \A c, d \in Ids : /\ c # d /\ NameOf[c] = NameOf[d]
                      => ~ (cs[c] \in {"running", "exited"} /\ cs[d] \in {"running", "exited"})

Init ==
    /\ containers \in [Ids -> {"new", "running"}]
    /\ containers[Panel] = "running" /\ NamesUnique(containers)
    /\ panel = "down"
    /\ online \in BOOLEAN /\ offlineFor = (IF online THEN 0 ELSE Fresh + 1)
    /\ cached = "unhealthy"
    /\ monitor = NoMonitor /\ health = NoHealth
    /\ request = NoRequest /\ since = {} /\ touched = {}

-----------------------------------------------------------------------------
(* lifespan, check_tailscale and monitor_tailscale *)

\* Docker runs the container's process; lifespan makes the first check before
\* any request is served.
Start ==
    /\ panel = "down" /\ containers[Panel] = "running"
    /\ panel' = "starting"
    /\ cached' = "unhealthy"
    /\ monitor' = At("check")
    /\ UNCHANGED <<containers, tailscale, health, actionVars>>

\* `tailscale status' looks at the node at one moment of the call.  A node that
\* is not online may answer so, or with something check_tailscale does not
\* expect: JSON that is no object, bytes that are no text.
StatusAnswers ==
    /\ monitor.pc = "check" /\ monitor.saw = "nothing"
    /\ \E saw \in IF online THEN {"healthy"} ELSE {"unhealthy", "odd"} :
          monitor' = [monitor EXCEPT !.saw = saw]
    /\ UNCHANGED <<containers, panel, tailscale, cached, health, actionVars>>

\* The first check is followed by the task, which checks at once.
Checked(answer) ==
    /\ cached' = answer
    /\ IF panel = "starting" THEN panel' = "serving" /\ monitor' = At("check")
                             ELSE monitor' = At("sleep") /\ UNCHANGED panel
    /\ UNCHANGED <<containers, tailscale, health, actionVars>>

\* Mutant: the task ends with the first bad answer.
CheckEndsStops ==
    /\ monitor.pc = "check" /\ monitor.saw \in Answers
    /\ cached' = monitor.saw
    /\ panel' = "serving"
    /\ monitor' = IF cached' = "healthy" THEN (IF panel = "starting" THEN At("check") ELSE At("sleep")) ELSE NoMonitor
    /\ UNCHANGED <<containers, tailscale, health, actionVars>>

CheckEnds ==
    /\ monitor.pc = "check" /\ monitor.saw \in Answers
    /\ Checked(monitor.saw)

\* Mutant: after a timeout the last answer stands.
CheckTimesOutKeeps ==
    /\ monitor.pc = "check" /\ monitor.saw = "nothing"
    /\ monitor.t = CheckTimeout /\ ~ online
    /\ Checked(cached)

\* TimeoutExpired, a SubprocessError; a node that is online answers in time.
CheckTimesOut ==
    /\ monitor.pc = "check" /\ monitor.saw = "nothing"
    /\ monitor.t = CheckTimeout /\ ~ online
    /\ Checked("unhealthy")

\* AttributeError or UnicodeDecodeError pass the except clause: the first check
\* stops the start, a later one ends the task, and nothing looks after it.
CheckRaises ==
    /\ monitor.pc = "check" /\ monitor.saw = "odd"
    /\ IF panel = "starting" THEN panel' = "down" /\ monitor' = NoMonitor
       ELSE monitor' = At("dead") /\ UNCHANGED panel
    /\ UNCHANGED <<containers, tailscale, cached, health, actionVars>>

SleepEnds ==
    /\ monitor.pc = "sleep" /\ monitor.t = Interval
    /\ monitor' = At("check")
    /\ UNCHANGED <<containers, panel, tailscale, cached, health, actionVars>>

PanelDown ==
    /\ panel' = "down" /\ cached' = "unhealthy"
    /\ monitor' = NoMonitor /\ health' = NoHealth

\* The process ends; unless-stopped brings it back.
Restart ==
    /\ panel # "down"
    /\ PanelDown
    /\ request' = NoRequest /\ since' = {}
    /\ UNCHANGED <<containers, tailscale, touched>>

-----------------------------------------------------------------------------
(* GET /healthz *)

HealthRead ==
    /\ panel = "serving" /\ health.pc # "ping"
    /\ health' = [pc |-> "ping", t |-> 0, tailscale |-> cached, code |-> 0]
    /\ UNCHANGED <<containers, panel, tailscale, cached, monitor, actionVars>>

\* 503: unhealthy, or Docker answers the ping with an error.  500: the client's
\* own time-out or a lost connection is no DockerException.
HealthAnswers ==
    /\ health.pc = "ping"
    /\ \E code \in {200, 500, 503} :
          /\ code = 200 => health.tailscale = "healthy"
          /\ health' = [pc |-> "answered", t |-> 0, tailscale |-> health.tailscale,
                        code |-> code]
    /\ UNCHANGED <<containers, panel, tailscale, cached, monitor, actionVars>>

-----------------------------------------------------------------------------
(* POST /api/services/{container_id}/{action} *)

Answer(code, was) ==
    request' = [pc |-> "answered", action |-> "none", id |-> NoContainer,
                was |-> was, code |-> code]
Error(code) == Answer(code, "none")

\* 400: another action.  404, 503: what containers.get raises.  500: its time-out.
ServiceActionRejected ==
    /\ panel = "serving" /\ request.pc = "none"
    /\ \E code \in {400, 404, 500, 503} : Error(code)
    /\ UNCHANGED <<containers, panelVars, tailscale, since, touched>>

\* Mutant: any method of a container may be named.
ManagedContainerAnyMethod ==
    /\ panel = "serving" /\ request.pc = "none"
    /\ \E c \in Managed, action \in Actions \cup {"remove"} :
          /\ Exists(c)
          /\ request' = [pc |-> "act", action |-> action, id |-> c,
                         was |-> containers[c], code |-> 0]
    /\ UNCHANGED <<containers, panelVars, tailscale, since, touched>>

\* containers.get takes an id or a name; what it returns is that container's
\* id, labels and state of this moment.  403 without the label.
ManagedContainer ==
    /\ panel = "serving" /\ request.pc = "none"
    /\ \E c \in Ids, action \in Actions :
          /\ Exists(c)
          /\ IF c \in Managed
             THEN request' = [pc |-> "act", action |-> action, id |-> c,
                              was |-> containers[c], code |-> 0]
             ELSE Error(403)
    /\ UNCHANGED <<containers, panelVars, tailscale, since, touched>>

StateAfter(action) == IF action = "stop" THEN "exited" ELSE "running"

\* Docker carries it out on container c; on the panel's own container the
\* request goes down with the process.  An answer that does not come in time is
\* a 500, although the action was carried out.
CarryOut(c) ==
    /\ containers' = [containers EXCEPT ![c] = StateAfter(request.action)]
    /\ touched' = touched \cup {c}
    /\ IF c = Panel /\ request.action # "start"
       THEN PanelDown /\ request' = NoRequest /\ since' = {}
       ELSE /\ \/ /\ request' = [request EXCEPT !.pc = "reload"]
                  /\ since' = {StateAfter(request.action)}
               \/ Error(500) /\ since' = {}
            /\ UNCHANGED <<panel, cached, monitor, health>>
    /\ UNCHANGED tailscale

\* Mutant: the action is sent to whatever bears the name by now.
ServiceActionByName ==
    /\ request.pc = "act"
    /\ \E c \in Ids :
          /\ Exists(c) /\ NameOf[c] = NameOf[request.id]
          /\ CarryOut(c)

\* The action goes to the id that was looked up.
ServiceAction ==
    /\ request.pc = "act"
    /\ Exists(request.id)
    /\ CarryOut(request.id)

\* 502: the container has been removed meanwhile, or Docker refuses.  500: the
\* time-out of the call, or of the reload after it.
ServiceActionFails ==
    /\ request.pc \in {"act", "reload"}
    /\ (\E code \in {500, 502} : Error(code)) /\ since' = {}
    /\ UNCHANGED <<containers, panelVars, tailscale, touched>>

\* Mutant: without the reload the state of the first look is reported.
SerializeContainerStale ==
    /\ request.pc = "reload" /\ Exists(request.id)
    /\ Answer(200, request.was)
    /\ UNCHANGED <<containers, panelVars, tailscale, since, touched>>

\* serialize_container: reload, then report.
SerializeContainer ==
    /\ request.pc = "reload" /\ Exists(request.id)
    /\ Answer(200, containers[request.id])
    /\ UNCHANGED <<containers, panelVars, tailscale, since, touched>>

RequestDone ==
    /\ request.pc = "answered"
    /\ request' = NoRequest /\ since' = {}
    /\ UNCHANGED <<containers, panelVars, tailscale, touched>>

-----------------------------------------------------------------------------
(* Everybody else *)

\* Another request, or another user of Docker, starts, stops, removes or creates
\* a container.
DockerChanges ==
    /\ \E c \in Ids \ {Panel}, to \in {"running", "exited", "gone"} :
          /\ containers[c] # to
          /\ IF containers[c] = "new" THEN to = "running" ELSE Exists(c)
          /\ containers' = [containers EXCEPT ![c] = to]
          /\ since' = IF request.pc = "reload" /\ request.id = c THEN since \cup {to} ELSE since
    /\ NamesUnique(containers')
    /\ UNCHANGED <<panelVars, tailscale, request, touched>>

\* docker start, after the panel was told to stop itself.
PanelIsStarted ==
    /\ containers[Panel] = "exited"
    /\ containers' = [containers EXCEPT ![Panel] = "running"]
    /\ UNCHANGED <<panelVars, tailscale, actionVars>>

NodeChanges ==
    /\ online' = ~ online /\ offlineFor' = 0
    /\ UNCHANGED <<containers, panelVars, actionVars>>

\* No timer is overrun: a check, a sleep and a ping end when theirs does.
TimeLeft ==
    /\ monitor.pc = "check" => monitor.t < CheckTimeout
    /\ monitor.pc = "sleep" => monitor.t < Interval
    /\ health.pc = "ping" => health.t < PingTimeout

Tick ==
    /\ TimeLeft
    /\ offlineFor' = IF online \/ offlineFor > Fresh THEN offlineFor ELSE offlineFor + 1
    /\ monitor' = IF monitor.pc \in {"check", "sleep"} THEN [monitor EXCEPT !.t = @ + 1] ELSE monitor
    /\ health' = IF health.pc = "ping" THEN [health EXCEPT !.t = @ + 1] ELSE NoHealth
    /\ UNCHANGED <<containers, panel, online, cached, actionVars>>

MonitorStep == Start \/ StatusAnswers \/ CheckEnds \/ CheckTimesOut \/ CheckRaises \/ SleepEnds
ActionStep ==
    \/ ServiceActionRejected \/ ManagedContainer \/ ServiceAction
    \/ ServiceActionFails \/ SerializeContainer \/ RequestDone

Next ==
    \/ MonitorStep \/ HealthRead \/ HealthAnswers \/ ActionStep \/ Restart
    \/ DockerChanges \/ PanelIsStarted \/ NodeChanges \/ Tick

Spec == Init /\ [][Next]_vars

\* The task and a served request go on, and so does time.
FairSpec == Spec /\ WF_vars(MonitorStep) /\ WF_vars(HealthAnswers) /\ WF_vars(Tick)

-----------------------------------------------------------------------------
(* Properties *)

\* While the task lives, an answer of 200 means that the node was online not
\* longer ago than one interval, two checks and one ping.
HealthyIsRecent ==
    health.pc = "answered" /\ health.code = 200 /\ monitor.pc # "dead" =>
        offlineFor <= Fresh

\* Only labelled containers are ever acted on, though names change hands
\* between the look and the action (docs/architecture.md).
OnlyManagedTouched == touched \subseteq Managed

\* An action answered 200 reports a state the container had after the action.
ReportsAfterAction ==
    request.pc = "answered" /\ request.code = 200 => request.was \in since

\* If the node stays online, the cached answer becomes and stays healthy, unless
\* the task has died or the panel has stopped.
HealthRecovers ==
    <>[]online => <>[](cached = "healthy" \/ monitor.pc = "dead" \/ panel # "serving")
=============================================================================

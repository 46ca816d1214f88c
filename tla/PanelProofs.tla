---------------------------- MODULE PanelProofs ----------------------------
(***************************************************************************)
(* Theorems about Panel, for any containers, names, labels and timers.      *)
(***************************************************************************)
EXTENDS Panel, TLAPS

-----------------------------------------------------------------------------
(* Type correctness *)

\* An answer is a request record.
LEMMA AnswerTypes ==
    ASSUME NEW code \in {200, 400, 403, 404, 500, 502, 503},
           NEW was \in {"none", "running", "exited"},
           Answer(code, was)
    PROVE  /\ request' \in Request
           /\ request'.pc = "answered" /\ request'.code = code /\ request'.was = was
BY DEF Answer, Request, NoContainer

\* A step of the monitor begins with its timer at zero.
LEMMA StepTypes == \A pc \in {"none", "check", "sleep", "dead"} : At(pc) \in Monitor
BY TimesAssumption DEF At, Monitor

LEMMA TypeInit == Init => TypeOK
<1> SUFFICES ASSUME Init PROVE TypeOK
  OBVIOUS
<1>1. Fresh \in Nat
  BY TimesAssumption DEF Fresh
<1>2. monitor \in Monitor /\ health \in Health
  BY StepTypes, TimesAssumption DEF Init, NoMonitor, NoHealth, Health, Answers
<1>3. request \in Request /\ request.pc = "none"
  BY DEF Init, NoRequest, Request
<1>4. offlineFor \in 0 .. Fresh + 1
  BY <1>1 DEF Init
<1>5. containers \in [Ids -> {"new", "running", "exited", "gone"}]
  BY DEF Init
<1>6. online \in BOOLEAN /\ cached \in Answers
  BY DEF Init, Answers
<1> QED  BY <1>2, <1>3, <1>4, <1>5, <1>6 DEF Init, TypeOK

\* What is left of the state when the panel's process ends.
LEMMA PanelDownTypes ==
    ASSUME PanelDown
    PROVE  /\ panel' = "down" /\ cached' \in Answers
           /\ monitor' \in Monitor /\ health' \in Health
BY StepTypes, TimesAssumption DEF PanelDown, NoMonitor, NoHealth, Health, Answers

LEMMA TypeMonitor ==
    ASSUME TypeOK, MonitorStep
    PROVE  TypeOK'
<1> USE DEF TypeOK, tailscale, actionVars
<1>2. CASE Start
  <2>1. monitor' \in Monitor
    BY <1>2, StepTypes DEF Start
  <2> QED  BY <1>2, <2>1 DEF Start, Answers
<1>3. CASE StatusAnswers
  BY <1>3 DEF StatusAnswers, Monitor, Answers
<1>4. ASSUME NEW answer \in Answers, Checked(answer)
      PROVE  TypeOK'
  <2>1. monitor' \in Monitor
    BY <1>4, StepTypes DEF Checked
  <2> QED  BY <1>4, <2>1 DEF Checked
<1>5. CASE CheckEnds
  BY <1>4, <1>5 DEF CheckEnds
<1>6. CASE CheckTimesOut
  BY <1>4, <1>6 DEF CheckTimesOut, Answers
<1>7. CASE CheckRaises
  <2>1. monitor' \in Monitor
    BY <1>7, StepTypes DEF CheckRaises, NoMonitor
  <2> QED  BY <1>7, <2>1 DEF CheckRaises
<1>8. CASE SleepEnds
  BY <1>8, StepTypes DEF SleepEnds
<1> QED  BY <1>2, <1>3, <1>5, <1>6, <1>7, <1>8 DEF MonitorStep

LEMMA TypeAction ==
    ASSUME TypeOK, ActionStep
    PROVE  TypeOK'
<1> USE DEF TypeOK, panelVars, tailscale
<1>1. CASE ServiceActionRejected
  BY <1>1, AnswerTypes DEF ServiceActionRejected, Error
<1>2. CASE ManagedContainer
  <2>1. PICK c \in Ids, action \in Actions :
           /\ Exists(c)
           /\ IF c \in Managed
              THEN request' = [pc |-> "act", action |-> action, id |-> c,
                               was |-> containers[c], code |-> 0]
              ELSE Error(403)
    BY <1>2 DEF ManagedContainer
  <2>2. request' \in Request /\ (request'.pc = "act" => request'.id \in Ids)
    BY <2>1, AnswerTypes DEF Error, Exists, Request
  <2>3. request'.pc # "reload"
    BY <2>1, AnswerTypes DEF Error
  <2> QED  BY <1>2, <2>2, <2>3 DEF ManagedContainer
<1>3. CASE ServiceAction
  <2>1. request.id \in Ids
    BY <1>3 DEF ServiceAction
  <2>2. /\ containers' \in [Ids -> {"new", "running", "exited", "gone"}]
        /\ touched' \subseteq Ids
    BY <1>3, <2>1 DEF ServiceAction, CarryOut, StateAfter
  <2>3. CASE request.id = Panel /\ request.action # "start"
    <3>1. request' \in Request /\ request'.pc = "none"
      BY <1>3, <2>3 DEF ServiceAction, CarryOut, NoRequest, Request
    <3> QED
      BY <1>3, <2>1, <2>3, <2>2, <3>1, PanelDownTypes DEF ServiceAction, CarryOut
  <2>4. CASE ~ (request.id = Panel /\ request.action # "start")
    <3>1. /\ request' \in Request
          /\ request'.pc = "answered" \/ request'.id = request.id
      <4>1. CASE Error(500)
        BY <4>1, AnswerTypes DEF Error
      <4>2. CASE request' = [request EXCEPT !.pc = "reload"]
        BY <4>2 DEF Request
      <4> QED  BY <1>3, <2>4, <4>1, <4>2 DEF ServiceAction, CarryOut
    <3>2. since' \subseteq {"running", "exited", "gone"}
      BY <1>3, <2>4 DEF ServiceAction, CarryOut, StateAfter
    <3> QED  BY <1>3, <2>1, <2>4, <2>2, <3>1, <3>2 DEF ServiceAction, CarryOut
  <2> QED  BY <2>3, <2>4
<1>4. CASE ServiceActionFails
  BY <1>4, AnswerTypes DEF ServiceActionFails, Error
<1>5. CASE SerializeContainer
  BY <1>5, AnswerTypes DEF SerializeContainer, Exists
<1>6. CASE RequestDone
  BY <1>6 DEF RequestDone, NoRequest, Request
<1> QED  BY <1>1, <1>2, <1>3, <1>4, <1>5, <1>6 DEF ActionStep

LEMMA TypeStep == TypeOK /\ [Next]_vars => TypeOK'
<1> SUFFICES ASSUME TypeOK, [Next]_vars PROVE TypeOK'
  OBVIOUS
<1> USE DEF TypeOK
<1>1. CASE MonitorStep
  BY <1>1, TypeMonitor
<1>2. CASE HealthRead
  BY <1>2, TimesAssumption DEF HealthRead, actionVars, tailscale, Health, Answers
<1>3. CASE HealthAnswers
  <2>1. PICK code \in {200, 500, 503} :
           health' = [pc |-> "answered", t |-> 0, tailscale |-> health.tailscale,
                      code |-> code]
    BY <1>3 DEF HealthAnswers
  <2>2. health' \in Health
    BY <2>1, TimesAssumption DEF Health
  <2> QED  BY <1>3, <2>2 DEF HealthAnswers, actionVars, tailscale
<1>4. CASE ActionStep
  BY <1>4, TypeAction
<1>5. CASE Restart
  BY <1>5, PanelDownTypes DEF Restart, NoRequest, Request, tailscale
<1>6. CASE DockerChanges
  BY <1>6 DEF DockerChanges, panelVars, tailscale
<1>7. CASE PanelIsStarted
  BY <1>7 DEF PanelIsStarted, panelVars, tailscale, actionVars
<1>8. CASE NodeChanges
  BY <1>8, TimesAssumption DEF NodeChanges, panelVars, actionVars, Fresh
<1>9. CASE Tick
  <2>1. offlineFor' \in 0 .. Fresh + 1
    BY <1>9, TimesAssumption DEF Tick, Fresh
  <2>2. monitor' \in Monitor
    BY <1>9, TimesAssumption DEF Tick, TimeLeft, Monitor
  <2>3. health' \in Health
    BY <1>9, TimesAssumption DEF Tick, TimeLeft, Health, NoHealth, Answers
  <2> QED  BY <1>9, <2>1, <2>2, <2>3 DEF Tick, actionVars
<1>10. CASE UNCHANGED vars
  BY <1>10 DEF vars
<1> QED
  BY <1>1, <1>2, <1>3, <1>4, <1>5, <1>6, <1>7, <1>8, <1>9, <1>10 DEF Next

\* Every reachable state of the panel is type correct; in particular no timer is
\* overrun and only start, stop and restart are sent to Docker.
THEOREM TypeCorrect == Spec => []TypeOK
BY TypeInit, TypeStep, PTL DEF Spec

-----------------------------------------------------------------------------
(* Container actions *)

\* A served request belongs to a running process, the container in its hands is
\* labelled, and what the container is now belongs to what it has been since the
\* action: neither property is inductive without the others.
ActionInv ==
    /\ panel # "down" => containers[Panel] = "running"
    /\ request.pc # "none" => panel = "serving"
    /\ request.pc \in {"act", "reload"} => request.id \in Managed
    /\ request.pc = "reload" => containers[request.id] \in since
    /\ ReportsAfterAction
    /\ OnlyManagedTouched

LEMMA ActionStepKept ==
    ASSUME TypeOK, ActionInv, ActionStep
    PROVE  ActionInv'
<1> USE DEF ActionInv, ReportsAfterAction, OnlyManagedTouched, panelVars, tailscale
<1>1. CASE ServiceActionRejected
  BY <1>1, AnswerTypes DEF ServiceActionRejected, Error
<1>2. CASE ManagedContainer
  BY <1>2, AnswerTypes DEF ManagedContainer, Error
<1>3. CASE ServiceAction
  <2>1. request.id \in Managed /\ request.id \in Ids /\ request \in Request
    BY <1>3, ContainersAssumption DEF ServiceAction, TypeOK
  <2>2. /\ containers' = [containers EXCEPT ![request.id] = StateAfter(request.action)]
        /\ touched' = touched \cup {request.id}
    BY <1>3 DEF ServiceAction, CarryOut
  <2>3. CASE request.id = Panel /\ request.action # "start"
    BY <1>3, <2>1, <2>2, <2>3 DEF ServiceAction, CarryOut, PanelDown, NoRequest
  <2>4. CASE ~ (request.id = Panel /\ request.action # "start")
    <3>1. containers'[request.id] = StateAfter(request.action)
      BY <2>1, <2>2 DEF TypeOK
    <3>2. containers'[Panel] = containers[Panel] \/ containers'[Panel] = "running"
      BY <2>1, <2>2, <2>4, ContainersAssumption DEF TypeOK, StateAfter
    <3>3. \/ /\ request' = [request EXCEPT !.pc = "reload"]
             /\ since' = {StateAfter(request.action)}
          \/ Error(500)
      BY <1>3, <2>4 DEF ServiceAction, CarryOut
    <3>4. \/ /\ request'.pc = "reload" /\ request'.id = request.id
             /\ since' = {StateAfter(request.action)}
          \/ request'.pc = "answered" /\ request'.code = 500
      BY <2>1, <3>3, AnswerTypes DEF Request, Error
    <3>5. UNCHANGED panel
      BY <1>3, <2>4 DEF ServiceAction, CarryOut
    <3> QED  BY <1>3, <2>1, <2>2, <3>1, <3>2, <3>4, <3>5 DEF ServiceAction
  <2> QED  BY <2>3, <2>4
<1>4. CASE ServiceActionFails
  BY <1>4, AnswerTypes DEF ServiceActionFails, Error
<1>5. CASE SerializeContainer
  BY <1>5, AnswerTypes DEF SerializeContainer, Exists
<1>6. CASE RequestDone
  BY <1>6 DEF RequestDone, NoRequest
<1> QED  BY <1>1, <1>2, <1>3, <1>4, <1>5, <1>6 DEF ActionStep

LEMMA ActionInvStep == TypeOK /\ ActionInv /\ [Next]_vars => ActionInv'
<1> SUFFICES ASSUME TypeOK, ActionInv, [Next]_vars PROVE ActionInv'
  OBVIOUS
<1> USE DEF ActionInv, ReportsAfterAction, OnlyManagedTouched
<1>1. CASE MonitorStep
  BY <1>1 DEF MonitorStep, Start, StatusAnswers, CheckEnds, CheckTimesOut, Checked,
     CheckRaises, SleepEnds, actionVars
<1>2. CASE HealthRead \/ HealthAnswers \/ NodeChanges \/ Tick
  BY <1>2 DEF HealthRead, HealthAnswers, NodeChanges, Tick, actionVars, panelVars
<1>3. CASE ActionStep
  BY <1>3, ActionStepKept
<1>4. CASE Restart
  BY <1>4 DEF Restart, PanelDown, NoRequest
<1>5. CASE DockerChanges
  <2>1. PICK c \in Ids \ {Panel}, to \in {"running", "exited", "gone"} :
           /\ containers' = [containers EXCEPT ![c] = to]
           /\ since' = IF request.pc = "reload" /\ request.id = c
                       THEN since \cup {to} ELSE since
    BY <1>5 DEF DockerChanges
  <2>2. UNCHANGED <<panel, request, touched>>
    BY <1>5 DEF DockerChanges, panelVars
  <2>3. containers'[Panel] = containers[Panel]
    BY <2>1, ContainersAssumption DEF TypeOK
  <2>4. request.pc = "reload" => containers'[request.id] \in since'
    BY <2>1, ContainersAssumption DEF TypeOK
  <2> QED  BY <2>1, <2>2, <2>3, <2>4
<1>6. CASE PanelIsStarted
  BY <1>6, ContainersAssumption DEF PanelIsStarted, panelVars, actionVars, TypeOK
<1>7. CASE UNCHANGED vars
  BY <1>7 DEF vars
<1> QED  BY <1>1, <1>2, <1>3, <1>4, <1>5, <1>6, <1>7 DEF Next

LEMMA ActionsCorrect == Spec => []ActionInv
<1>1. Init => ActionInv
  BY DEF Init, ActionInv, ReportsAfterAction, OnlyManagedTouched, NoRequest
<1> QED  BY <1>1, ActionInvStep, TypeCorrect, PTL DEF Spec

\* Whoever takes a container's name meanwhile, the panel acts on labelled
\* containers only.
THEOREM OnlyManagedCorrect == Spec => []OnlyManagedTouched
<1>1. ActionInv => OnlyManagedTouched
  BY DEF ActionInv
<1> QED  BY <1>1, ActionsCorrect, PTL

\* Whatever others do to the container, a successful answer reports a state it
\* has had since the action.
THEOREM ReportsCorrect == Spec => []ReportsAfterAction
<1>1. ActionInv => ReportsAfterAction
  BY DEF ActionInv
<1> QED  BY <1>1, ActionsCorrect, PTL

-----------------------------------------------------------------------------
(* The age of what the panel knows about the node *)

\* Timers stay within their bounds, and the node has been offline no longer
\* than they can tell: since the answer of the present check, since the check
\* before the present sleep, since what a request to /healthz has read.
AgeInv ==
    /\ monitor.pc = "check" => monitor.t <= CheckTimeout
    /\ monitor.pc = "sleep" => monitor.t <= Interval
    /\ health.pc = "ping" => health.t <= PingTimeout
    /\ online => offlineFor = 0
    /\ panel = "serving" <=> monitor.pc # "none" /\ panel # "starting"
    /\ panel # "serving" => cached = "unhealthy" /\ health.pc # "ping"
    /\ monitor.pc = "check" /\ monitor.saw = "healthy" => offlineFor <= monitor.t
    /\ monitor.pc = "sleep" /\ cached = "healthy" => offlineFor <= CheckTimeout + monitor.t
    /\ monitor.pc = "check" /\ cached = "healthy" =>
          offlineFor <= CheckTimeout + Interval + monitor.t
    /\ monitor.pc # "dead" /\ health.pc = "ping" /\ health.tailscale = "healthy" =>
          offlineFor <= Interval + 2 * CheckTimeout + health.t
    /\ HealthyIsRecent

LEMMA AgeInit == Init => AgeInv
BY TimesAssumption DEF Init, AgeInv, HealthyIsRecent, NoMonitor, NoHealth, At

\* The fields of a step that has just begun.
LEMMA AtFields == \A pc : At(pc).pc = pc /\ At(pc).t = 0 /\ At(pc).saw = "nothing"
BY DEF At

LEMMA AgeMonitor ==
    ASSUME TypeOK, AgeInv, MonitorStep
    PROVE  AgeInv'
<1>0. /\ offlineFor \in Nat /\ monitor.t \in Nat /\ health.t \in Nat
      /\ cached \in Answers
  BY TimesAssumption DEF TypeOK, Monitor, Health, Fresh
<1>1. UNCHANGED <<online, offlineFor, health>>
  BY DEF MonitorStep, Start, StatusAnswers, CheckEnds, CheckTimesOut, Checked, CheckRaises,
     SleepEnds, tailscale
<1> USE <1>0, <1>1, TimesAssumption DEF AgeInv, HealthyIsRecent, Fresh, Answers
<1>2. CASE Start
  BY <1>2, AtFields DEF Start
<1>3. CASE StatusAnswers
  <2>1. /\ monitor'.pc = "check" /\ monitor'.t = monitor.t
        /\ monitor'.saw = "healthy" => online
    BY <1>3 DEF StatusAnswers, TypeOK, Monitor
  <2> QED  BY <1>3, <2>1 DEF StatusAnswers
<1>4. ASSUME NEW answer \in Answers, Checked(answer), monitor.pc = "check",
             answer = "healthy" => monitor.saw = "healthy"
      PROVE  AgeInv'
  <2>1. CASE panel = "starting"
    BY <1>4, <2>1, AtFields DEF Checked
  <2>2. CASE panel # "starting"
    BY <1>4, <2>2, AtFields DEF Checked
  <2> QED  BY <2>1, <2>2
<1>5. CASE CheckEnds
  BY <1>4, <1>5 DEF CheckEnds
<1>6. CASE CheckTimesOut
  BY <1>4, <1>6 DEF CheckTimesOut
<1>7. CASE CheckRaises
  <2>1. CASE panel = "starting"
    BY <1>7, <2>1, AtFields DEF CheckRaises, NoMonitor
  <2>2. CASE panel # "starting"
    BY <1>7, <2>2, AtFields DEF CheckRaises
  <2> QED  BY <2>1, <2>2
<1>8. CASE SleepEnds
  BY <1>8, AtFields DEF SleepEnds
<1> QED  BY <1>2, <1>3, <1>5, <1>6, <1>7, <1>8 DEF MonitorStep

\* The panel's process has ended and knows nothing.
LEMMA AgeDown ==
    ASSUME TypeOK, AgeInv, PanelDown, UNCHANGED tailscale
    PROVE  AgeInv'
BY TimesAssumption, AtFields
DEF PanelDown, NoMonitor, NoHealth, AgeInv, HealthyIsRecent, tailscale

LEMMA AgeStep == TypeOK /\ AgeInv /\ [Next]_vars => AgeInv'
<1> SUFFICES ASSUME TypeOK, AgeInv, [Next]_vars PROVE AgeInv'
  OBVIOUS
<1>0. /\ offlineFor \in Nat /\ monitor.t \in Nat /\ health.t \in Nat
      /\ cached \in Answers
  BY TimesAssumption DEF TypeOK, Monitor, Health, Fresh
<1>1. CASE MonitorStep
  BY <1>1, AgeMonitor
<1>2. CASE HealthRead
  <2>1. /\ health'.pc = "ping" /\ health'.t = 0 /\ health'.tailscale = cached
        /\ panel = "serving" /\ UNCHANGED <<panel, online, offlineFor, cached, monitor>>
    BY <1>2 DEF HealthRead, tailscale
  <2>2. monitor.pc \in {"check", "sleep", "dead"}
    BY <2>1 DEF AgeInv, TypeOK, Monitor
  <2> QED  BY <1>0, <2>1, <2>2, TimesAssumption DEF AgeInv, HealthyIsRecent
<1>3. CASE HealthAnswers
  <2>1. /\ health.pc = "ping" /\ health'.pc = "answered"
        /\ health'.code = 200 => health.tailscale = "healthy"
        /\ UNCHANGED <<panel, online, offlineFor, cached, monitor>>
    BY <1>3 DEF HealthAnswers, tailscale
  <2> QED  BY <1>0, <2>1, TimesAssumption DEF AgeInv, HealthyIsRecent, Fresh
<1>4. CASE Restart
  BY <1>4, AgeDown DEF Restart
<1>5. CASE NodeChanges
  BY <1>0, <1>5, TimesAssumption DEF NodeChanges, panelVars, AgeInv, HealthyIsRecent, Fresh
<1>6. CASE Tick
  <2>1. /\ offlineFor' \in {offlineFor, offlineFor + 1}
        /\ online => offlineFor' = offlineFor
        /\ UNCHANGED <<panel, online, cached>>
    BY <1>6 DEF Tick
  <2>2. /\ monitor'.pc = monitor.pc /\ monitor'.saw = monitor.saw
        /\ monitor.pc \in {"check", "sleep"} => monitor'.t = monitor.t + 1
    BY <1>6 DEF Tick, TypeOK, Monitor
  <2>3. IF health.pc = "ping"
        THEN /\ health'.pc = "ping" /\ health'.t = health.t + 1
             /\ health'.tailscale = health.tailscale
        ELSE health'.pc = "none"
    BY <1>6 DEF Tick, TypeOK, Health, NoHealth
  <2>4. TimeLeft
    BY <1>6 DEF Tick
  <2> QED  BY <1>0, <2>1, <2>2, <2>3, <2>4, TimesAssumption
           DEF AgeInv, HealthyIsRecent, TimeLeft
<1>7. CASE ServiceAction
  <2>1. CASE PanelDown
    BY <1>7, <2>1, AgeDown DEF ServiceAction, CarryOut
  <2>2. CASE UNCHANGED <<panel, cached, monitor, health>>
    BY <1>7, <2>2 DEF ServiceAction, CarryOut, tailscale, AgeInv, HealthyIsRecent
  <2> QED  BY <1>7, <2>1, <2>2 DEF ServiceAction, CarryOut
<1>8. CASE UNCHANGED <<panelVars, tailscale>>
  BY <1>8 DEF panelVars, tailscale, AgeInv, HealthyIsRecent
<1> QED
  BY <1>1, <1>2, <1>3, <1>4, <1>5, <1>6, <1>7, <1>8
  DEF Next, ActionStep, ServiceActionRejected, ManagedContainer, ServiceActionFails,
      SerializeContainer, RequestDone, DockerChanges, PanelIsStarted, vars, panelVars,
      tailscale

\* While the task lives, a healthy answer is not older than one interval, two
\* checks and one ping, whatever these are.
THEOREM HealthyCorrect == Spec => []HealthyIsRecent
<1>1. AgeInv => HealthyIsRecent
  BY DEF AgeInv
<1> QED  BY <1>1, AgeInit, AgeStep, TypeCorrect, PTL DEF Spec
=============================================================================
